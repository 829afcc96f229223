---------------------------- MODULE IsaDataProofs ---------------------------
(***************************************************************************)
(* For any tests, selections and number of versions, edits and kills: what *)
(* a manifest of the ISA data set claims is true of the files beside it,   *)
(* and a generation that gets to its end leaves exactly what it built.     *)
(***************************************************************************)
EXTENDS IsaData, TLAPS

Manifests == [map : 0..MaxVersion, sel : 0..MaxVersion, raced : BOOLEAN,
              tests : UNION {[ts -> ElfRecord] : ts \in SUBSET Tests}]

Clearings   == [pc : {"hash"}, map : Versions, hash : {0}, sel : Versions, done : {{}}]
Generations == [pc : {"build", "replace", "copy", "verify"}, map : Versions, hash : Versions,
                sel : Versions, done : SUBSET Tests]
Imports     == [pc : {"import"}, done : SUBSET LegacyFiles]

JobTypeOK == job \in {NoJob} \cup Clearings \cup Generations \cup Imports

\* A manifest that names a memory map lists tests that were built.
ListsBuilt(m) == m.map # 0 => \A t \in DOMAIN m.tests : m.tests[t].is = "built"

ManifestsInv == ListsBuilt(staging.manifest) /\ ListsBuilt(dataset.manifest)

\* Under such a manifest every built file in data/isa is of its generation.
FilesInv ==
    dataset.manifest.map # 0 /\ ~dataset.manifest.raced =>
        \A t \in Tests, p \in Parts :
            dataset.files[t][p].is = "built" => dataset.files[t][p].map = dataset.manifest.map

\* Both parts of a test come from one link and one conversion of this generation.
BuiltHere(t) ==
    \E l \in Versions : \A p \in Parts : staging.files[t][p] = Built(l, job.map, job.sel)

\* While a generation runs, the staging directory holds what it has built and nothing else.
StagingInv ==
    job.pc \in {"build", "replace", "copy", "verify"} =>
        /\ job.done \subseteq SelectedTests[job.sel]
        /\ \A t \in Tests : IF t \in job.done THEN BuiltHere(t)
                            ELSE \A p \in Parts : staging.files[t][p] = NoFile
        /\ job.pc # "build" => /\ job.done = SelectedTests[job.sel]
                               /\ staging.manifest.map = job.hash
                               /\ staging.manifest.raced = (job.hash # job.map)

\* While it copies, the data set holds files of the staging directory and nothing else.
CopyInv ==
    /\ job.pc = "copy" =>
          /\ dataset.manifest \in {NoManifest, staging.manifest}
          /\ \A t \in Tests, p \in Parts : dataset.files[t][p] \in {NoFile, staging.files[t][p]}
    /\ job.pc = "verify" => dataset = staging

\* An import has written the files it has done, and a legacy manifest is true until
\* something is cut short.
ImportInv ==
    /\ job.pc = "import" => \A f \in job.done : dataset.files[f[1]][f[2]] = LegacyFile
    /\ IsLegacy(dataset) /\ ~cut =>
          \A t \in DOMAIN dataset.manifest.tests, p \in Parts : dataset.files[t][p] = LegacyFile

DataInv ==
    TypeOK /\ JobTypeOK /\ ManifestsInv /\ FilesInv /\ StagingInv /\ CopyInv /\ ImportInv
-----------------------------------------------------------------------------
\* The type of a data set in terms of its parts.
LEMMA DatasetParts == DatasetType = [manifest : Manifests, files : [Tests -> [Parts -> File]]]
BY DEF DatasetType, Manifests

\* Every version selects tests of the set, and the legacy tests are among them.
LEMMA TestFacts ==
    /\ \A v \in Versions : SelectedTests[v] \subseteq Tests
    /\ LegacyTests \subseteq Tests
BY IsaDataAssumption DEF Tests, Versions

\* Kinds of file.
LEMMA FileFacts ==
    /\ NoFile \in File /\ NoFile.is = "none"
    /\ TornFile \in File /\ TornFile.is = "torn"
    /\ LegacyFile \in File /\ LegacyFile.is = "legacy"
    /\ \A l, m, s \in Versions : /\ Built(l, m, s) \in File /\ Built(l, m, s).is = "built"
                                 /\ Built(l, m, s).map = m
    /\ Elf(LegacyFile) \in ElfRecord
    /\ \A l, m, s \in Versions : Elf(Built(l, m, s)) \in ElfRecord /\ Elf(Built(l, m, s)).is = "built"
<1> USE IsaDataAssumption DEF File, NoFile, TornFile, LegacyFile, Built, Elf, ElfRecord, Versions
<1>1. 0 \in 0..MaxVersion /\ \A v \in Versions : v \in 0..MaxVersion
  OBVIOUS
<1>2. NoFile \in File /\ NoFile.is = "none"
  BY <1>1
<1>3. TornFile = [is |-> "torn", link |-> 0, map |-> 0, sel |-> 0]
      /\ LegacyFile = [is |-> "legacy", link |-> 0, map |-> 0, sel |-> 0]
  OBVIOUS
<1>4. TornFile \in File /\ TornFile.is = "torn" /\ LegacyFile \in File /\ LegacyFile.is = "legacy"
  BY <1>1, <1>3
<1>5. Elf(LegacyFile) \in ElfRecord
  BY <1>1, <1>3
<1>6. QED
  BY <1>1, <1>2, <1>4, <1>5

\* A directory that is removed holds no test and no manifest.
LEMMA EmptyFacts ==
    /\ NoManifest \in Manifests /\ ListsBuilt(NoManifest) /\ NoManifest.map = 0
    /\ Empty \in DatasetType /\ Empty.manifest = NoManifest
    /\ \A t \in Tests, p \in Parts : Empty.files[t][p] = NoFile
<1>1. [t \in {} |-> NoFile] \in UNION {[ts -> ElfRecord] : ts \in SUBSET Tests}
  <2>1. [t \in {} |-> NoFile] \in [{} -> ElfRecord]
    OBVIOUS
  <2>2. {} \in SUBSET Tests
    OBVIOUS
  <2>3. QED
    BY <2>1, <2>2
<1>2. NoManifest \in Manifests /\ NoManifest.map = 0
  BY <1>1, IsaDataAssumption DEF NoManifest, Manifests
<1>3. [t \in Tests |-> [p \in Parts |-> NoFile]] \in [Tests -> [Parts -> File]]
  BY FileFacts
<1>4. QED
  BY <1>2, <1>3, DatasetParts DEF Empty, ListsBuilt

\* One file of a data set is replaced.
LEMMA FileSet ==
    ASSUME NEW d \in DatasetType, NEW t \in Tests, NEW p \in Parts, NEW x \in File
    PROVE  LET e == [d EXCEPT !.files[t][p] = x]
           IN  /\ e \in DatasetType /\ e.manifest = d.manifest
               /\ \A u \in Tests, q \in Parts :
                     e.files[u][q] = IF u = t /\ q = p THEN x ELSE d.files[u][q]
<1> DEFINE row == [d.files[t] EXCEPT ![p] = x]
<1>1. d.files[t] \in [Parts -> File]
  BY DatasetParts
<1>2. row \in [Parts -> File] /\ \A q \in Parts : row[q] = IF q = p THEN x ELSE d.files[t][q]
  BY <1>1
<1>3. [d EXCEPT !.files[t][p] = x] = [d EXCEPT !.files[t] = row]
  BY DatasetParts
<1> HIDE DEF row
<1>4. QED
  BY <1>2, <1>3, DatasetParts

\* The files of one test are replaced.
LEMMA TestSet ==
    ASSUME NEW d \in DatasetType, NEW t \in Tests, NEW row \in [Parts -> File]
    PROVE  LET e == [d EXCEPT !.files[t] = row]
           IN  /\ e \in DatasetType /\ e.manifest = d.manifest
               /\ \A u \in Tests : e.files[u] = IF u = t THEN row ELSE d.files[u]
BY DatasetParts

\* Its manifest is replaced.
LEMMA ManifestSet ==
    ASSUME NEW d \in DatasetType, NEW m \in Manifests
    PROVE  LET e == [d EXCEPT !.manifest = m]
           IN  e \in DatasetType /\ e.manifest = m /\ e.files = d.files
BY DatasetParts

\* Where a script is says what it is.
LEMMA JobKinds ==
    ASSUME JobTypeOK
    PROVE  /\ job.pc = "hash" => job \in Clearings
           /\ job.pc \in {"build", "replace", "copy", "verify"} => job \in Generations
           /\ job.pc = "import" => job \in Imports
BY DEF JobTypeOK, Clearings, Generations, Imports, NoJob

\* A generation that goes on keeps what it has read.
LEMMA GenerationMoves ==
    ASSUME NEW j \in Generations, NEW x \in {"build", "replace", "copy", "verify"}
    PROVE  LET r == [j EXCEPT !.pc = x]
           IN  /\ r \in Generations /\ r.pc = x /\ r.map = j.map /\ r.hash = j.hash
               /\ r.sel = j.sel /\ r.done = j.done
BY DEF Generations

\* With no script at work only what the manifests say of the files beside them matters.
LEMMA Rest ==
    ASSUME TypeOK', ManifestsInv', FilesInv', job' = NoJob,
           (IsLegacy(dataset) /\ ~cut)' =>
               \A t \in DOMAIN dataset'.manifest.tests, p \in Parts : dataset'.files[t][p] = LegacyFile
    PROVE  DataInv'
<1>1. job'.pc = "idle"
  BY DEF NoJob
<1>2. JobTypeOK'
  BY DEF JobTypeOK
<1>3. StagingInv'
  BY <1>1 DEF StagingInv
<1>4. CopyInv'
  BY <1>1 DEF CopyInv
<1>5. ImportInv'
  BY <1>1 DEF ImportInv
<1>6. QED
  BY <1>2, <1>3, <1>4, <1>5 DEF DataInv

\* The first state, with no data set, satisfies the invariant.
LEMMA DataInitInv == Init => DataInv
<1> SUFFICES ASSUME Init PROVE DataInv
  OBVIOUS
<1>1. job = NoJob /\ staging = Empty /\ dataset = Empty /\ job.pc = "idle"
  BY DEF Init, NoJob
<1>v. 1 \in Versions
  BY IsaDataAssumption DEF Versions
<1>e. Empty \in DatasetType
  BY EmptyFacts
<1>2. TypeOK
  BY <1>1, <1>v, <1>e DEF Init, TypeOK
<1>3. QED
  BY <1>1, <1>2, EmptyFacts DEF DataInv, JobTypeOK, ManifestsInv, FilesInv, StagingInv, CopyInv,
      ImportInv, IsLegacy

\* Every step of a generation and of an import, every kill and every edit preserves it.
LEMMA DataInvPreserved == DataInv /\ [Next]_vars => DataInv'
<1> SUFFICES ASSUME DataInv, [Next]_vars PROVE DataInv'
  OBVIOUS
<1>k. /\ job.pc = "hash" => job \in Clearings
      /\ job.pc \in {"build", "replace", "copy", "verify"} => job \in Generations
      /\ job.pc = "import" => job \in Imports
  BY JobKinds DEF DataInv
<1>t. /\ TypeOK /\ JobTypeOK /\ ManifestsInv /\ FilesInv /\ StagingInv /\ CopyInv /\ ImportInv
      /\ staging \in DatasetType /\ dataset \in DatasetType
      /\ dataset.manifest \in Manifests /\ staging.manifest \in Manifests
  BY DatasetParts DEF DataInv, TypeOK
<1>d. DOMAIN dataset.manifest.tests \subseteq Tests
  BY <1>t DEF Manifests
<1>1. CASE GenerateStarts
  <2>1. job' \in Clearings /\ job'.pc = "hash" /\ UNCHANGED <<inputs, staging, dataset, cut>>
    BY <1>1, <1>t DEF GenerateStarts, Clearings, TypeOK, Versions
  <2>2. QED
    BY <1>t, <2>1 DEF DataInv, TypeOK, JobTypeOK, ManifestsInv, FilesInv, StagingInv, CopyInv,
        ImportInv, IsLegacy, inputs
<1>2. CASE StagingCleared
  <2>1. job \in Clearings /\ memoryMap \in Versions
    BY <1>2, <1>k, <1>t DEF StagingCleared, TypeOK
  <2>2. job' \in Generations /\ job'.pc = "build" /\ job'.done = {}
    BY <1>2, <2>1 DEF StagingCleared, MapHashed, Clearings, Generations
  <2>3. staging' = Empty /\ UNCHANGED <<inputs, dataset, cut>>
    BY <1>2 DEF StagingCleared
  <2>4. StagingInv'
    BY <2>2, <2>3, EmptyFacts DEF StagingInv
  <2>5. QED
    BY <1>t, <2>2, <2>3, <2>4, EmptyFacts DEF DataInv, TypeOK, JobTypeOK, ManifestsInv, FilesInv,
        CopyInv, ImportInv, IsLegacy, inputs
<1>3. CASE TestBuilt
  <2>1. PICK t \in SelectedTests[job.sel] \ job.done :
          /\ staging' = [staging EXCEPT !.files[t] =
                            [p \in Parts |-> Built(linker, job.map, job.sel)]]
          /\ job' = [job EXCEPT !.done = @ \cup {t}]
    BY <1>3 DEF TestBuilt, Pending
  <2>2. job \in Generations /\ t \in Tests /\ job.map \in Versions /\ job.sel \in Versions
        /\ linker \in Versions /\ job.pc = "build"
    BY <1>3, <1>k, <1>t, <2>1, TestFacts DEF TestBuilt, TypeOK, Generations
  <2> DEFINE row == [p \in Parts |-> Built(linker, job.map, job.sel)]
  <2>3. row \in [Parts -> File] /\ \A p \in Parts : row[p] = Built(linker, job.map, job.sel)
    BY <2>2, FileFacts
  <2>4. staging' = [staging EXCEPT !.files[t] = row]
    BY <2>1
  <2> HIDE DEF row
  <2>5. /\ staging' \in DatasetType /\ staging'.manifest = staging.manifest
        /\ \A u \in Tests : staging'.files[u] = IF u = t THEN row ELSE staging.files[u]
    BY <1>t, <2>2, <2>3, <2>4, TestSet
  <2>6. /\ job' \in Generations /\ job'.pc = "build" /\ job'.map = job.map /\ job'.sel = job.sel
        /\ job'.done = job.done \cup {t}
    BY <2>1, <2>2 DEF Generations
  <2>7. StagingInv'
    <3>1. BuiltHere(t)'
      BY <2>2, <2>3, <2>5, <2>6 DEF BuiltHere
    <3>2. ASSUME NEW u \in Tests, u # t, u \in job.done PROVE BuiltHere(u)'
      BY <1>t, <2>2, <2>5, <2>6, <3>2 DEF StagingInv, BuiltHere
    <3>3. ASSUME NEW u \in Tests, u # t, u \notin job.done, NEW p \in Parts
          PROVE  staging'.files[u][p] = NoFile
      BY <1>t, <2>2, <2>5, <3>3 DEF StagingInv
    <3>4. job.done \subseteq SelectedTests[job.sel]
      BY <1>t, <2>2 DEF StagingInv
    <3>5. QED
      BY <2>1, <2>6, <3>1, <3>2, <3>3, <3>4 DEF StagingInv
  <2>8. QED
    BY <1>3, <1>t, <2>5, <2>6, <2>7 DEF TestBuilt, DataInv, TypeOK, JobTypeOK, ManifestsInv,
        FilesInv, CopyInv, ImportInv, IsLegacy, inputs
<1>4. CASE ConversionFails \/ GenerateEnds \/ ScriptKilled
  <2>1. job' = NoJob /\ UNCHANGED <<memoryMap, linker, selection, staging, dataset, cut>>
    BY <1>4 DEF ConversionFails, GenerateEnds, ScriptKilled, inputs
  <2>2. QED
    BY <1>t, <2>1, Rest DEF TypeOK, ManifestsInv, FilesInv, ImportInv, IsLegacy
<1>5. CASE StagingManifest
  <2> DEFINE ms == [t \in job.done |-> Elf(staging.files[t]["checked"])]
             m == [map |-> job.hash, sel |-> selection, raced |-> job.hash # job.map, tests |-> ms]
  <2>1. /\ job \in Generations /\ job.pc = "build" /\ job.hash \in Versions /\ job.map \in Versions
        /\ job.sel \in Versions /\ job.done \in SUBSET Tests /\ selection \in Versions
    BY <1>5, <1>k, <1>t DEF StagingManifest, Generations, TypeOK
  <2>2. job.done = SelectedTests[job.sel]
    BY <1>5, <1>t, <2>1 DEF StagingManifest, Pending, StagingInv
  <2>3. ASSUME NEW t \in job.done
        PROVE  Elf(staging.files[t]["checked"]) \in ElfRecord
               /\ Elf(staging.files[t]["checked"]).is = "built"
    <3>1. BuiltHere(t) /\ "checked" \in Parts
      BY <1>t, <2>1 DEF StagingInv, Parts
    <3>2. PICK l \in Versions : staging.files[t]["checked"] = Built(l, job.map, job.sel)
      BY <3>1 DEF BuiltHere
    <3>3. QED
      BY <2>1, <3>2, FileFacts
  <2>4. ms \in [job.done -> ElfRecord] /\ DOMAIN ms = job.done
        /\ \A t \in job.done : ms[t].is = "built"
    BY <2>3
  <2> HIDE DEF ms
  <2>5. /\ m \in Manifests /\ m.map = job.hash /\ m.tests = ms
        /\ m.raced = (job.hash # job.map)
    <3>1. ms \in UNION {[ts -> ElfRecord] : ts \in SUBSET Tests}
      BY <2>1, <2>4
    <3>2. job.hash \in 0..MaxVersion /\ selection \in 0..MaxVersion
      BY <2>1, IsaDataAssumption DEF Versions
    <3>3. (job.hash # job.map) \in BOOLEAN
      OBVIOUS
    <3>4. QED
      BY <3>1, <3>2, <3>3 DEF Manifests
  <2>6. ListsBuilt(m)
    BY <2>4, <2>5 DEF ListsBuilt
  <2>7. staging' = [staging EXCEPT !.manifest = m]
    BY <1>5 DEF StagingManifest, Recorded, ms
  <2> HIDE DEF m
  <2>8. staging' \in DatasetType /\ staging'.manifest = m /\ staging'.files = staging.files
    BY <1>t, <2>5, <2>7, ManifestSet
  <2>9. /\ job' \in Generations /\ job'.pc = "replace" /\ job'.map = job.map /\ job'.hash = job.hash
        /\ job'.sel = job.sel /\ job'.done = job.done
    BY <1>5, <2>1, GenerationMoves DEF StagingManifest
  <2>10. StagingInv'
    BY <1>t, <2>1, <2>2, <2>5, <2>8, <2>9 DEF StagingInv, BuiltHere
  <2>11. QED
    BY <1>5, <1>t, <2>6, <2>8, <2>9, <2>10 DEF StagingManifest, DataInv, TypeOK, JobTypeOK,
        ManifestsInv, FilesInv, CopyInv, ImportInv, IsLegacy, inputs
<1>6. CASE DatasetMoved
  <2>1. job \in Generations /\ job.pc = "replace"
    BY <1>6, <1>k DEF DatasetMoved
  <2>2. /\ job' \in Generations /\ job'.pc = "copy" /\ job'.map = job.map /\ job'.hash = job.hash
        /\ job'.sel = job.sel /\ job'.done = job.done
    BY <1>6, <2>1, GenerationMoves DEF DatasetMoved
  <2>3. dataset' = Empty /\ cut' = FALSE /\ UNCHANGED <<inputs, staging>>
    BY <1>6 DEF DatasetMoved
  <2>4. StagingInv'
    BY <1>t, <2>1, <2>2, <2>3 DEF StagingInv, BuiltHere
  <2>5. QED
    BY <1>t, <2>2, <2>3, <2>4, EmptyFacts DEF DataInv, TypeOK, JobTypeOK, ManifestsInv, FilesInv,
        CopyInv, ImportInv, IsLegacy, inputs
<1>7. CASE FileCopied
  <2>1. /\ job \in Generations /\ job.pc = "copy" /\ job.hash # 0
        /\ staging.manifest.map = job.hash /\ staging.manifest.raced = (job.hash # job.map)
        /\ UNCHANGED <<inputs, staging, cut, job>>
    BY <1>7, <1>k, <1>t, IsaDataAssumption DEF FileCopied, StagingInv, Generations, Versions
  <2>2. ASSUME NEW t \in Tests, NEW p \in Parts, staging.files[t][p].is = "built"
        PROVE  staging.files[t][p].map = job.map
    <3>1. staging.files[t][p] # NoFile
      BY <2>2, FileFacts
    <3>2. BuiltHere(t)
      BY <1>t, <2>1, <3>1 DEF StagingInv
    <3>3. PICK l \in Versions : staging.files[t][p] = Built(l, job.map, job.sel)
      BY <3>2 DEF BuiltHere
    <3>4. job.map \in Versions /\ job.sel \in Versions
      BY <2>1 DEF Generations
    <3>5. QED
      BY <3>3, <3>4, FileFacts
  <2>3. StagingInv' /\ JobTypeOK'
    BY <1>t, <2>1 DEF StagingInv, BuiltHere, JobTypeOK
  <2>4. CASE dataset' = [dataset EXCEPT !.manifest = staging.manifest]
    <3>1. /\ dataset' \in DatasetType /\ dataset'.manifest = staging.manifest
          /\ dataset'.files = dataset.files
      BY <1>t, <2>4, ManifestSet
    <3>2. FilesInv'
      <4> SUFFICES ASSUME job.hash = job.map, NEW t \in Tests, NEW p \in Parts,
                          dataset.files[t][p].is = "built"
                   PROVE  dataset.files[t][p].map = job.hash
        BY <2>1, <3>1 DEF FilesInv
      <4>1. dataset.files[t][p] = staging.files[t][p]
        BY <1>t, <2>1, FileFacts DEF CopyInv
      <4>2. QED
        BY <2>2, <4>1
    <3>3. ~IsLegacy(dataset)'
      BY <2>1, <3>1 DEF IsLegacy
    <3>4. QED
      BY <1>t, <2>1, <2>3, <3>1, <3>2, <3>3 DEF DataInv, TypeOK, ManifestsInv, CopyInv,
          ImportInv, inputs
  <2>5. ASSUME NEW t \in Tests, NEW p \in Parts,
               dataset' = [dataset EXCEPT !.files[t][p] = staging.files[t][p]]
        PROVE  DataInv'
    <3>1. staging.files[t][p] \in File
      BY <1>t, DatasetParts
    <3>2. /\ dataset' \in DatasetType /\ dataset'.manifest = dataset.manifest
          /\ \A u \in Tests, q \in Parts : dataset'.files[u][q] =
                IF u = t /\ q = p THEN staging.files[t][p] ELSE dataset.files[u][q]
      BY <1>t, <2>5, <3>1, FileSet
    <3>3. dataset.manifest \in {NoManifest, staging.manifest}
      BY <1>t, <2>1 DEF CopyInv
    <3>4. FilesInv'
      <4> SUFFICES ASSUME dataset.manifest.map # 0, ~dataset.manifest.raced,
                          NEW u \in Tests, NEW q \in Parts, dataset'.files[u][q].is = "built"
                   PROVE  dataset'.files[u][q].map = dataset.manifest.map
        BY <3>2 DEF FilesInv
      <4>1. dataset.manifest = staging.manifest /\ job.hash = job.map
        BY <2>1, <3>3, EmptyFacts
      <4>2. CASE u = t /\ q = p
        BY <2>1, <2>2, <3>2, <4>1, <4>2
      <4>3. CASE ~(u = t /\ q = p)
        BY <1>t, <3>2, <4>3 DEF FilesInv
      <4>4. QED
        BY <4>2, <4>3
    <3>5. ~IsLegacy(dataset)'
      BY <2>1, <3>2, <3>3 DEF IsLegacy
    <3>6. CopyInv'
      BY <1>t, <2>1, <3>2, <3>3 DEF CopyInv
    <3>7. QED
      BY <1>t, <2>1, <2>3, <3>2, <3>4, <3>5, <3>6 DEF DataInv, TypeOK, ManifestsInv, ImportInv,
          inputs
  <2>6. QED
    BY <1>7, <2>4, <2>5 DEF FileCopied
<1>8. CASE CopyEnds
  <2>1. job \in Generations /\ job.pc = "copy" /\ dataset = staging
    BY <1>8, <1>k DEF CopyEnds
  <2>2. /\ job' \in Generations /\ job'.pc = "verify" /\ job'.map = job.map /\ job'.hash = job.hash
        /\ job'.sel = job.sel /\ job'.done = job.done
    BY <1>8, <2>1, GenerationMoves DEF CopyEnds
  <2>3. UNCHANGED <<inputs, staging, dataset, cut>>
    BY <1>8 DEF CopyEnds
  <2>4. StagingInv'
    BY <1>t, <2>1, <2>2, <2>3 DEF StagingInv, BuiltHere
  <2>5. QED
    BY <1>t, <2>1, <2>2, <2>3, <2>4 DEF DataInv, TypeOK, JobTypeOK, ManifestsInv, FilesInv,
        CopyInv, ImportInv, IsLegacy, inputs
<1>9. CASE ImportStarts
  <2>1. job' \in Imports /\ job'.pc = "import" /\ job'.done = {}
        /\ UNCHANGED <<inputs, staging, dataset, cut>>
    BY <1>9 DEF ImportStarts, Imports
  <2>2. QED
    BY <1>t, <2>1 DEF DataInv, TypeOK, JobTypeOK, ManifestsInv, FilesInv, StagingInv, CopyInv,
        ImportInv, IsLegacy, inputs
<1>10. CASE LegacyFileCopied
  <2>1. PICK f \in LegacyFiles \ job.done :
          /\ dataset' = [dataset EXCEPT !.files[f[1]][f[2]] = LegacyFile]
          /\ job' = [job EXCEPT !.done = @ \cup {f}]
    BY <1>10 DEF LegacyFileCopied
  <2>2. f[1] \in Tests /\ f[2] \in Parts /\ f = <<f[1], f[2]>>
    BY <2>1, TestFacts DEF LegacyFiles
  <2>3. /\ dataset' \in DatasetType /\ dataset'.manifest = dataset.manifest
        /\ \A u \in Tests, q \in Parts : dataset'.files[u][q] =
              IF u = f[1] /\ q = f[2] THEN LegacyFile ELSE dataset.files[u][q]
    BY <1>t, <2>1, <2>2, FileSet, FileFacts
  <2>4. job \in Imports /\ job' \in Imports /\ job'.pc = "import" /\ job'.done = job.done \cup {f}
    BY <1>10, <1>k, <2>1 DEF LegacyFileCopied, Imports
  <2>5. FilesInv'
    BY <1>t, <2>3, FileFacts DEF FilesInv
  <2>6. ASSUME NEW g \in job.done \cup {f} PROVE dataset'.files[g[1]][g[2]] = LegacyFile
    <3>1. CASE g = f
      BY <2>2, <2>3, <3>1
    <3>2. CASE g # f
      <4>1. g \in job.done /\ g \in LegacyFiles
        BY <2>4, <3>2 DEF Imports
      <4>2. g[1] \in Tests /\ g[2] \in Parts
        BY <4>1, TestFacts DEF LegacyFiles
      <4>3. dataset.files[g[1]][g[2]] = LegacyFile
        BY <1>10, <1>t, <4>1 DEF ImportInv, LegacyFileCopied
      <4>4. QED
        BY <2>3, <4>2, <4>3
    <3>3. QED
      BY <3>1, <3>2
  <2>7. ImportInv'
    <3>1. ASSUME IsLegacy(dataset), ~cut, NEW t \in DOMAIN dataset.manifest.tests, NEW p \in Parts
          PROVE  dataset'.files[t][p] = LegacyFile
      BY <1>d, <1>t, <2>3, <3>1 DEF ImportInv
    <3>2. QED
      BY <1>10, <2>3, <2>4, <2>6, <3>1 DEF ImportInv, IsLegacy, LegacyFileCopied
  <2>8. QED
    BY <1>10, <1>t, <2>3, <2>4, <2>5, <2>7 DEF LegacyFileCopied, DataInv, TypeOK, JobTypeOK,
        ManifestsInv, StagingInv, CopyInv, inputs
<1>11. CASE LegacyRecorded
  <2> DEFINE ms == [t \in LegacyTests |-> Elf(LegacyFile)]
             m == [NoManifest EXCEPT !.tests = ms]
  <2>1. ms \in [LegacyTests -> ElfRecord] /\ DOMAIN ms = LegacyTests
    BY FileFacts
  <2>2. ms \in UNION {[ts -> ElfRecord] : ts \in SUBSET Tests}
    BY <2>1, TestFacts
  <2> HIDE DEF ms
  <2>3. m \in Manifests /\ m.map = 0 /\ m.tests = ms
    BY <2>2, EmptyFacts DEF Manifests
  <2>4. dataset' = [dataset EXCEPT !.manifest = m]
    BY <1>11 DEF LegacyRecorded, ms
  <2> HIDE DEF m
  <2>5. dataset' \in DatasetType /\ dataset'.manifest = m /\ dataset'.files = dataset.files
    BY <1>t, <2>3, <2>4, ManifestSet
  <2>6. ASSUME NEW t \in LegacyTests, NEW p \in Parts PROVE dataset.files[t][p] = LegacyFile
    <3>1. <<t, p>> \in job.done
      BY <1>11 DEF LegacyRecorded, LegacyFiles
    <3>2. QED
      BY <1>11, <1>t, <3>1 DEF LegacyRecorded, ImportInv
  <2>7. TypeOK' /\ ManifestsInv' /\ FilesInv'
    BY <1>11, <1>t, <2>3, <2>5 DEF LegacyRecorded, TypeOK, ManifestsInv, ListsBuilt, FilesInv, inputs
  <2>8. QED
    BY <1>11, <2>1, <2>3, <2>5, <2>6, <2>7, Rest DEF LegacyRecorded
<1>12. CASE RemovalKilled
  <2>1. PICK kept \in SUBSET (Tests \X Parts), m \in {NoManifest, dataset.manifest} :
          dataset' = [manifest |-> m,
                      files |-> [t \in Tests |-> [p \in Parts |->
                          IF <<t, p>> \in kept THEN dataset.files[t][p] ELSE NoFile]]]
    BY <1>12 DEF RemovalKilled
  <2>2. m \in Manifests
    BY <1>t, <2>1, EmptyFacts
  <2>d. dataset \in DatasetType
    BY <1>t
  <2>3. /\ dataset' \in DatasetType /\ dataset'.manifest = m
        /\ \A t \in Tests, p \in Parts : dataset'.files[t][p] \in {NoFile, dataset.files[t][p]}
    <3> DEFINE fs == [t \in Tests |-> [p \in Parts |->
                          IF <<t, p>> \in kept THEN dataset.files[t][p] ELSE NoFile]]
    <3>1. dataset' = [manifest |-> m, files |-> fs]
      BY <2>1
    <3>2. /\ fs \in [Tests -> [Parts -> File]]
          /\ \A t \in Tests, p \in Parts : fs[t][p] \in {NoFile, dataset.files[t][p]}
      <4>1. \A t \in Tests, p \in Parts : dataset.files[t][p] \in File
        BY <2>d, DatasetParts
      <4>2. QED
        BY <4>1, FileFacts
    <3> HIDE DEF fs
    <3>3. QED
      BY <2>2, <3>1, <3>2, DatasetParts
  <2>4. ListsBuilt(m) /\ (m.map # 0 => m = dataset.manifest)
    BY <1>t, <2>1, EmptyFacts DEF ManifestsInv
  <2>a. ASSUME m.map # 0, ~m.raced, NEW t \in Tests, NEW p \in Parts,
               dataset'.files[t][p].is = "built"
        PROVE  dataset'.files[t][p].map = m.map
    <3>1. dataset'.files[t][p] = dataset.files[t][p]
      BY <2>3, <2>a, FileFacts
    <3>2. QED
      BY <1>t, <2>4, <2>a, <3>1 DEF FilesInv
  <2>5. FilesInv'
    BY <2>3, <2>a DEF FilesInv
  <2>6. TypeOK' /\ ManifestsInv' /\ cut' = TRUE /\ job' = NoJob
    BY <1>12, <1>t, <2>3, <2>4 DEF RemovalKilled, TypeOK, ManifestsInv
  <2>7. QED
    BY <2>5, <2>6, Rest
<1>13. CASE CopyKilled
  <2>1. PICK t \in Tests, p \in Parts : dataset' = [dataset EXCEPT !.files[t][p] = TornFile]
    BY <1>13 DEF CopyKilled
  <2>2. /\ dataset' \in DatasetType /\ dataset'.manifest = dataset.manifest
        /\ \A u \in Tests, q \in Parts : dataset'.files[u][q] =
              IF u = t /\ q = p THEN TornFile ELSE dataset.files[u][q]
    BY <1>t, <2>1, FileSet, FileFacts
  <2>3. FilesInv'
    BY <1>t, <2>2, FileFacts DEF FilesInv
  <2>4. TypeOK' /\ ManifestsInv' /\ cut' = TRUE /\ job' = NoJob
    BY <1>13, <1>t, <2>2 DEF CopyKilled, TypeOK, ManifestsInv
  <2>5. QED
    BY <2>3, <2>4, Rest
<1>14. CASE InputsEdited \/ SocContractGenerated
  <2>1. /\ memoryMap' \in Versions /\ linker' \in Versions /\ selection' \in Versions
        /\ UNCHANGED <<staging, dataset, cut, job>>
    BY <1>14, <1>t DEF InputsEdited, SocContractGenerated, TypeOK
  <2>2. StagingInv'
    BY <1>t, <2>1 DEF StagingInv, BuiltHere
  <2>3. QED
    BY <1>t, <2>1, <2>2 DEF DataInv, TypeOK, JobTypeOK, ManifestsInv, FilesInv, CopyInv, ImportInv,
        IsLegacy
<1>15. CASE CleanAll
  <2>1. job' = NoJob /\ staging' = Empty /\ UNCHANGED <<inputs, dataset, cut>>
    BY <1>15 DEF CleanAll
  <2>2. QED
    BY <1>t, <2>1, EmptyFacts, Rest DEF TypeOK, ManifestsInv, FilesInv, ImportInv, IsLegacy, inputs
<1>16. CASE UNCHANGED vars
  <2>1. StagingInv'
    BY <1>16, <1>t DEF vars, StagingInv, BuiltHere
  <2>2. QED
    BY <1>16, <1>t, <2>1 DEF vars, inputs, DataInv, TypeOK, JobTypeOK, ManifestsInv, FilesInv,
        CopyInv, ImportInv, IsLegacy
<1>17. QED
  BY <1>1, <1>2, <1>3, <1>4, <1>5, <1>6, <1>7, <1>8, <1>9, <1>10, <1>11, <1>12, <1>13, <1>14,
      <1>15, <1>16 DEF Next, GenerateStep

\* The invariant of the data set, for any tests and any number of versions.
LEMMA DataInvariant == Spec => []DataInv
BY DataInitInv, DataInvPreserved, PTL DEF Spec

-----------------------------------------------------------------------------
\* What a manifest in data/isa says is true of the files beside it: the tests of an
\* accepted data set were converted for the memory map of now, unless that was edited
\* between being read and being hashed, and a legacy manifest describes its files unless
\* a later copy or removal was cut short, wherever scripts are killed
\* (generate_isa_data.py verify_dataset, import_legacy_isa.py verify).
THEOREM AcceptedIsTrue == Spec => []AcceptedDataIsTrue
<1>1. DataInv => VerifiedForThisMap
  <2> SUFFICES ASSUME DataInv, VerifyDataset(dataset), ~dataset.manifest.raced,
                      NEW t \in DOMAIN dataset.manifest.tests
               PROVE  dataset.files[t]["checked"].map = memoryMap
    BY DEF VerifiedForThisMap
  <2>1. dataset.manifest.map = memoryMap /\ memoryMap # 0
    BY IsaDataAssumption DEF DataInv, TypeOK, VerifyDataset, Versions
  <2>2. dataset.manifest.tests[t].is = "built"
    BY <2>1 DEF DataInv, ManifestsInv, ListsBuilt
  <2>3. t \in Tests /\ "checked" \in Parts
    BY DatasetParts DEF DataInv, TypeOK, Manifests, Parts
  <2>4. Elf(dataset.files[t]["checked"]).is = "built"
    BY <2>2 DEF VerifyDataset
  <2>5. dataset.files[t]["checked"].is = "built"
    BY <2>4 DEF Elf
  <2>6. QED
    BY <2>1, <2>3, <2>5 DEF DataInv, FilesInv
<1>2. DataInv => LegacyRecordIsTrue
  BY DEF DataInv, ImportInv, LegacyRecordIsTrue, VerifyLegacy
<1>3. QED
  BY <1>1, <1>2, DataInvariant, PTL DEF DataInv, AcceptedDataIsTrue

\* A generation that reaches its verification leaves the tests of one selection, built by it
\* and complete, and nothing of any earlier data set or killed run
\* (generate_isa_data.py generate, replace_dataset).
THEOREM GenerationIsExact == Spec => []GeneratedIsExact
<1>1. DataInv => GeneratedIsExact
  BY DEF DataInv, GeneratedIsExact, CopyInv, StagingInv, BuiltHere
<1>2. QED
  BY <1>1, DataInvariant, PTL
=============================================================================
