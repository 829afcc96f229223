------------------------------ MODULE IsaData -------------------------------
(***************************************************************************)
(* The checked-in ISA data set, data/isa: scripts/generate_isa_data.py     *)
(* builds every selected riscv-test into a staging directory, moves the    *)
(* previous data set to the quarantine and copies the new one in its       *)
(* place; --verify (make isa-data-check, which make sim-isa runs first)    *)
(* decides whether it may be used.  scripts/import_legacy_isa.py copies    *)
(* the data of an earlier project into the same directory.                 *)
(*                                                                         *)
(* The memory map, and the pair of CPU contract and test selection, are    *)
(* versions.  The tests are linked with memory.ldh, which make             *)
(* soc-contract generates from the memory map and make isa-data takes as   *)
(* it is.  The developer edits the inputs at any time; a script can be     *)
(* killed at any moment, in the middle of a copy or a removal too.         *)
(***************************************************************************)
EXTENDS Naturals

CONSTANTS
    MaxVersion,     \* versions of each input
    SelectedTests,  \* the tests each version of the selection names
    LegacyTests,    \* the tests of the earlier project
    MaxDisturbances \* edits of the inputs and killed scripts together

ASSUME IsaDataAssumption ==
    /\ MaxVersion \in Nat \ {0}
    /\ DOMAIN SelectedTests = 1..MaxVersion
    /\ LegacyTests \subseteq UNION {SelectedTests[v] : v \in 1..MaxVersion}
    /\ MaxDisturbances \in Nat

VARIABLES
    memoryMap,      \* data/soc/memory_map.json
    linker,         \* the memory map software/linker/memory.ldh was generated from
    selection,      \* tests.json and software_contract.json
    staging,        \* build/isa-data/generated: the tests built and its manifest
    dataset,        \* data/isa
    quarantine,     \* build/quarantine/data-isa-<digest>: the digests
    cut,            \* history: a copy into data/isa, or its removal, was killed since its
                    \* manifest was written
    job,            \* the running script
    disturbances

inputs == <<memoryMap, linker, selection, disturbances>>
vars == <<inputs, staging, dataset, quarantine, cut, job>>

Versions == 1..MaxVersion
Tests == UNION {SelectedTests[v] : v \in Versions}

\* The files of a test: "checked" are the ELF, image.json, code.mem and data.mem, which
\* verify_dataset hashes; "banks" are the bank files the simulation loads.
Parts == {"checked", "banks"}

\* A file: linked with this memory.ldh, converted for this memory map, of this selection.
Built(l, m, s) == [is |-> "built", link |-> l, map |-> m, sel |-> s]
NoFile     == [is |-> "none", link |-> 0, map |-> 0, sel |-> 0]
TornFile   == [NoFile EXCEPT !.is = "torn"]
LegacyFile == [NoFile EXCEPT !.is = "legacy"]

\* What the hash of an ELF tells apart: how it was linked and from which sources, not the
\* map it was converted for.
Elf(f) == [is |-> f.is, link |-> f.link, sel |-> f.sel]

\* manifest.json: hashes of the memory map and of the selection, and the ELF hash of every
\* test it lists; raced is history: the map was edited after it was read and before it
\* was hashed.
NoManifest == [map |-> 0, sel |-> 0, tests |-> [t \in {} |-> NoFile], raced |-> FALSE]
Empty      == [manifest |-> NoManifest, files |-> [t \in Tests |-> [p \in Parts |-> NoFile]]]
Digest(d)  == [d.manifest EXCEPT !.raced = FALSE]
Exists(d)  == d # Empty
NoJob      == [pc |-> "idle"]

Init ==
    /\ memoryMap = 1 /\ linker = 1 /\ selection = 1
    /\ staging = Empty /\ dataset = Empty
    /\ quarantine = {} /\ cut = FALSE
    /\ job = NoJob
    /\ disturbances = 0

-----------------------------------------------------------------------------
(***************************************************************************)
(* generate_isa_data.py                                                    *)
(***************************************************************************)
\* The upstream checkout is at the locked commit, and the selection agrees with the
\* contract; selection, memory map and contract are read.
GenerateStarts ==
    /\ job = NoJob
    /\ job' = [pc |-> "hash", map |-> memoryMap, hash |-> 0, sel |-> selection, done |-> {}]
    /\ UNCHANGED <<inputs, staging, dataset, quarantine, cut>>

MapHashed == [job EXCEPT !.pc = "build", !.hash = memoryMap]

\* Mutant: what an earlier run left in the staging directory stays.
StagingCleared_keeps ==
    /\ job.pc = "hash"
    /\ job' = MapHashed
    /\ UNCHANGED <<inputs, staging, dataset, quarantine, cut>>

\* The memory map is hashed, and the staging directory goes.  A removal that is killed
\* leaves part of it for the next run to remove.
StagingCleared ==
    /\ job.pc = "hash"
    /\ job' = MapHashed
    /\ staging' = Empty
    /\ UNCHANGED <<inputs, dataset, quarantine, cut>>

\* The tests of the suites to generate that are still to do.
Pending == SelectedTests[job.sel] \ job.done

\* build_test: compile and link with memory.ldh as it is, disassemble, convert into the
\* regions of the memory map that was read, rewrite image.json.
TestBuilt ==
    /\ job.pc = "build"
    /\ \E t \in Pending :
          /\ staging' = [staging EXCEPT !.files[t] =
                            [p \in Parts |-> Built(linker, job.map, job.sel)]]
          /\ job' = [job EXCEPT !.done = @ \cup {t}]
    /\ UNCHANGED <<inputs, dataset, quarantine, cut>>

\* With memory.ldh of another map a segment may lie outside those regions, and the
\* conversion fails.
ConversionFails ==
    /\ job.pc = "build" /\ Pending # {}
    /\ linker # job.map
    /\ job' = NoJob
    /\ UNCHANGED <<inputs, staging, dataset, quarantine, cut>>

\* What the tests built say in a manifest.
Recorded(map) ==
    [map |-> map, sel |-> selection, raced |-> job.hash # job.map,
     tests |-> [t \in job.done |-> Elf(staging.files[t]["checked"])]]

\* Mutant: the memory map is hashed when the manifest is written.
StagingManifest_lateMap ==
    /\ job.pc = "build" /\ Pending = {}
    /\ staging' = [staging EXCEPT !.manifest = Recorded(memoryMap)]
    /\ job' = [job EXCEPT !.pc = "replace"]
    /\ UNCHANGED <<inputs, dataset, quarantine, cut>>

\* The manifest: the hash of the memory map is the one taken at the start, contract and
\* selection are hashed only now.
StagingManifest ==
    /\ job.pc = "build" /\ Pending = {}
    /\ staging' = [staging EXCEPT !.manifest = Recorded(job.hash)]
    /\ job' = [job EXCEPT !.pc = "replace"]
    /\ UNCHANGED <<inputs, dataset, quarantine, cut>>

NameTaken == Digest(dataset) \in quarantine

\* Mutant: the previous data set is only ever renamed, which fails when the name is taken.
DatasetMoved_renames ==
    /\ job.pc = "replace"
    /\ IF Exists(dataset) /\ NameTaken
       THEN job' = NoJob /\ UNCHANGED <<dataset, quarantine, cut>>
       ELSE /\ quarantine' = IF Exists(dataset) THEN quarantine \cup {Digest(dataset)} ELSE quarantine
            /\ dataset' = Empty /\ cut' = FALSE
            /\ job' = [job EXCEPT !.pc = "copy"]
    /\ UNCHANGED <<inputs, staging>>

\* Mutant: only the directories of the tests are moved away.
DatasetMoved_keepsManifest ==
    /\ job.pc = "replace"
    /\ dataset' = [dataset EXCEPT !.files = Empty.files]
    /\ job' = [job EXCEPT !.pc = "copy"]
    /\ UNCHANGED <<inputs, staging, quarantine, cut>>

\* replace_dataset: the previous data set is renamed into the quarantine under the digest
\* of its manifest, or removed when that name is taken.
DatasetMoved ==
    /\ job.pc = "replace"
    /\ quarantine' = IF Exists(dataset) THEN quarantine \cup {Digest(dataset)} ELSE quarantine
    /\ dataset' = Empty /\ cut' = FALSE
    /\ job' = [job EXCEPT !.pc = "copy"]
    /\ UNCHANGED <<inputs, staging>>

\* copytree, file by file in the order the directory lists them.
FileCopied ==
    /\ job.pc = "copy"
    /\ \/ /\ dataset.manifest # staging.manifest
          /\ dataset' = [dataset EXCEPT !.manifest = staging.manifest]
       \/ \E t \in Tests, p \in Parts :
             /\ dataset.files[t][p] # staging.files[t][p]
             /\ dataset' = [dataset EXCEPT !.files[t][p] = staging.files[t][p]]
    /\ UNCHANGED <<inputs, staging, quarantine, cut, job>>

CopyEnds ==
    /\ job.pc = "copy"
    /\ dataset = staging
    /\ job' = [job EXCEPT !.pc = "verify"]
    /\ UNCHANGED <<inputs, staging, dataset, quarantine, cut>>

\* verify_dataset: the hashes of the inputs, then every listed test has the recorded ELF
\* and the files its image.json names; the bank files are not looked at.
VerifyDataset(d) ==
    /\ d.manifest # NoManifest
    /\ d.manifest.map = memoryMap
    /\ d.manifest.sel = selection
    /\ \A t \in DOMAIN d.manifest.tests : Elf(d.files[t]["checked"]) = d.manifest.tests[t]

\* The script's own verification; it ends here with or without success.
GenerateEnds ==
    /\ job.pc = "verify"
    /\ job' = NoJob
    /\ UNCHANGED <<inputs, staging, dataset, quarantine, cut>>

-----------------------------------------------------------------------------
(***************************************************************************)
(* import_legacy_isa.py                                                    *)
(***************************************************************************)
LegacyFiles == LegacyTests \X Parts

ImportStarts ==
    /\ job = NoJob /\ LegacyTests # {}
    /\ job' = [pc |-> "import", done |-> {}]
    /\ UNCHANGED <<inputs, staging, dataset, quarantine, cut>>

\* A file is copied over whatever is there.
LegacyFileCopied ==
    /\ job.pc = "import"
    /\ \E f \in LegacyFiles \ job.done :
          /\ dataset' = [dataset EXCEPT !.files[f[1]][f[2]] = LegacyFile]
          /\ job' = [job EXCEPT !.done = @ \cup {f}]
    /\ UNCHANGED <<inputs, staging, quarantine, cut>>

\* make_manifest hashes the copies; the manifest comes last.
LegacyRecorded ==
    /\ job.pc = "import" /\ job.done = LegacyFiles
    /\ dataset' = [dataset EXCEPT !.manifest =
                      [NoManifest EXCEPT !.tests = [t \in LegacyTests |-> Elf(LegacyFile)]]]
    /\ cut' = FALSE
    /\ job' = NoJob
    /\ UNCHANGED <<inputs, staging, quarantine>>

\* The manifest is one of the import: it has no hash of a memory map.
IsLegacy(d) == d.manifest # NoManifest /\ d.manifest.map = 0

\* verify of the legacy script: every file it lists has its size and hash.
VerifyLegacy(d) ==
    IsLegacy(d) /\ \A t \in DOMAIN d.manifest.tests, p \in Parts : d.files[t][p] = LegacyFile

-----------------------------------------------------------------------------
(***************************************************************************)
(* What happens to any script, and what the developer does.                *)
(***************************************************************************)
Disturbed == disturbances < MaxDisturbances /\ disturbances' = disturbances + 1

ScriptKilled ==
    /\ job # NoJob
    /\ job' = NoJob
    /\ Disturbed
    /\ UNCHANGED <<memoryMap, linker, selection, staging, dataset, quarantine, cut>>

\* rmtree of data/isa killed in the middle leaves any of its files, its manifest too.
RemovalKilled ==
    /\ job.pc = "replace" /\ Exists(dataset) /\ NameTaken
    /\ \E kept \in SUBSET (Tests \X Parts), m \in {NoManifest, dataset.manifest} :
          dataset' = [manifest |-> m,
                      files |-> [t \in Tests |-> [p \in Parts |->
                          IF <<t, p>> \in kept THEN dataset.files[t][p] ELSE NoFile]]]
    /\ cut' = TRUE
    /\ job' = NoJob
    /\ Disturbed
    /\ UNCHANGED <<memoryMap, linker, selection, staging, quarantine>>

\* A copy killed in the middle of a file, of copytree or of the import's copy2, leaves it torn.
CopyKilled ==
    /\ \E t \in Tests, p \in Parts :
          /\ \/ job.pc = "copy" /\ dataset.files[t][p] # staging.files[t][p]
             \/ job.pc = "import" /\ <<t, p>> \in LegacyFiles \ job.done
          /\ dataset' = [dataset EXCEPT !.files[t][p] = TornFile]
    /\ cut' = TRUE
    /\ job' = NoJob
    /\ Disturbed
    /\ UNCHANGED <<memoryMap, linker, selection, staging, quarantine>>

InputsEdited ==
    /\ \/ memoryMap' \in Versions \ {memoryMap} /\ UNCHANGED selection
       \/ selection' \in Versions \ {selection} /\ UNCHANGED memoryMap
    /\ Disturbed
    /\ UNCHANGED <<linker, staging, dataset, quarantine, cut, job>>

\* make soc-contract, at any time, as far as the tests use it (ProjectCheck has the rest).
SocContractGenerated ==
    /\ linker # memoryMap
    /\ linker' = memoryMap
    /\ UNCHANGED <<memoryMap, selection, disturbances, staging, dataset, quarantine, cut, job>>

\* scripts/clean.py all: everything under build/, the quarantine too.
CleanAll ==
    /\ job = NoJob
    /\ staging' = Empty /\ quarantine' = {}
    /\ UNCHANGED <<inputs, dataset, cut, job>>

GenerateStep ==
    \/ StagingCleared \/ TestBuilt \/ ConversionFails \/ StagingManifest \/ DatasetMoved
    \/ FileCopied \/ CopyEnds \/ GenerateEnds

Next ==
    \/ GenerateStarts \/ GenerateStep
    \/ ImportStarts \/ LegacyFileCopied \/ LegacyRecorded
    \/ ScriptKilled \/ RemovalKilled \/ CopyKilled
    \/ InputsEdited \/ SocContractGenerated
    \/ CleanAll

Spec == Init /\ [][Next]_vars

\* make isa-data is run again and again, and goes on unless it is killed.
LiveSpec ==
    /\ Spec
    /\ SF_vars(GenerateStarts)
    /\ WF_vars(GenerateStep)
    /\ WF_vars(LegacyFileCopied \/ LegacyRecorded)

-----------------------------------------------------------------------------
File        == [is : {"none", "torn", "legacy", "built"}, link : 0..MaxVersion,
                map : 0..MaxVersion, sel : 0..MaxVersion]
ElfRecord   == [is : {"legacy", "built"}, link : 0..MaxVersion, sel : 0..MaxVersion]
DatasetType == [manifest : [map : 0..MaxVersion, sel : 0..MaxVersion, raced : BOOLEAN,
                            tests : UNION {[ts -> ElfRecord] : ts \in SUBSET Tests}],
                files : [Tests -> [Parts -> File]]]

TypeOK ==
    /\ memoryMap \in Versions /\ linker \in Versions /\ selection \in Versions
    /\ staging \in DatasetType /\ dataset \in DatasetType
    /\ cut \in BOOLEAN

\* Every test of a data set that verification accepts was converted for the memory map as
\* it is now, although the inputs change during a generation, copies and removals are cut
\* short and an import overwrites files (generate_isa_data.py generate and verify_dataset);
\* the one edit that goes unnoticed is between reading the map and hashing it.  The ELF is
\* linked with memory.ldh, which nothing here compares with the map.
VerifiedForThisMap ==
    VerifyDataset(dataset) /\ ~dataset.manifest.raced =>
        \A t \in DOMAIN dataset.manifest.tests : dataset.files[t]["checked"].map = memoryMap

\* A generation that reaches its verification leaves the tests of one selection, all
\* built by it and complete, and nothing of any earlier data set or killed run.
GeneratedIsExact ==
    job.pc = "verify" =>
        \A t \in Tests :
            IF t \in SelectedTests[job.sel]
            THEN \E l \in Versions : \A p \in Parts :
                    dataset.files[t][p] = Built(l, job.map, job.sel)
            ELSE \A p \in Parts : dataset.files[t][p] = NoFile

\* Whatever edits and kills came before, running make isa-data again ends with a data
\* set that verification accepts, unless memory.ldh is not of the memory map: then it is
\* for make soc-contract to help, which make isa-data does not run.
RegenerationSucceeds == []<>(VerifyDataset(dataset) \/ linker # memoryMap)

\* A manifest of the legacy import describes the files beside it, unless a later import or
\* a removal was killed half-way: a generation, however far it gets, never leaves that
\* manifest with files of its own (import_legacy_isa.py verify, replace_dataset).
LegacyRecordIsTrue == IsLegacy(dataset) /\ ~cut => VerifyLegacy(dataset)

\* What a manifest in data/isa says is true of the files beside it, for the memory map of
\* now when generate_isa_data.py accepts it, and for import_legacy_isa.py's as well.
AcceptedDataIsTrue == TypeOK /\ VerifiedForThisMap /\ LegacyRecordIsTrue
=============================================================================
