---------------------------- MODULE ReleaseProofs ---------------------------
(***************************************************************************)
(* For any number of versions, of memories to patch and of kills and       *)
(* edits: images come from the prepared source, the records of the FPGA    *)
(* flow are about the bitstreams that are there, and what a competition    *)
(* release holds belongs together.  For any program, memories and placed   *)
(* design: the image files hold the program (ElfImage), the map that       *)
(* patches them into a bitstream has every bit once (BramMap), and what is *)
(* built of a competition run is what was submitted (CompetitionSource).   *)
(***************************************************************************)
EXTENDS MCRelease, FiniteSetTheorems, WellFoundedInduction, NaturalsInduction, TLAPS

Elf   == INSTANCE ElfImage
Bram  == INSTANCE BramMap
Entry == INSTANCE CompetitionSource

Stored  == {None} \cup Versions
Bits    == [from : Stored, timing : {"none", "met", "failed"}]
Results == [status : Outcomes \cup {"none"}, bit : Bits, image : Stored]
Sims    == [status : Outcomes \cup {"none"}, image : Stored]
Payload == Bits \cup Results \cup Sims \cup Stored
Files   == [Names -> {Absent} \cup {File(x) : x \in Payload}]

BuildPlaces  == {"unlink result", "unlink bit", "unlink reports", "synthesis", "implementation",
                 "bitstream", "check"}
AfterUnlink  == BuildPlaces \ {"unlink result"}
Prepares == [pc : {"idle", "copy source", "publish"} \cup BuildPlaces]
Images   == [pc : {"mem", "json"}, version : Versions, then : {"end", "vivado"}]
Patches  == [pc : {"patch", "patch result"}, words : Versions, done : 0..Memories]
Packages == [pc : {"package"}, next : 1..6, hashes : Files]

\* The types of all variables, the fields included.
RecordTypes ==
    /\ flow \in Flows /\ run \in {"none", "ready", "protected"}
    /\ software \in Versions
    /\ images \in [mem : Stored, json : Stored]
    /\ vivado \in [synth : Stored, report : {"none", "met", "failed"}, bit : Bits]
    /\ legacyBit \in Bits /\ result \in Results /\ simResult \in Sims
    /\ patched \in [bit : Stored, result : Stored]
    /\ release \in [files : Files, manifest : Files]
    /\ job \in Prepares \cup Images \cup Patches \cup Packages
    /\ job.pc = "package" => job.next \in 1..Len(Contents) + 1
    /\ faults \in 0..MaxFaults

\* On the board flow the report beside a bitstream is the one it was written with, and from
\* the removal of the old result to the check there is no result.
BitInv ==
    /\ job.pc \in {"mem", "json"} /\ job.then = "vivado" => flow = "board"
    /\ job.pc \in BuildPlaces => flow = "board"
    /\ job.pc \in AfterUnlink => result = NoResult
    /\ job.pc \in {"unlink reports", "synthesis", "implementation", "bitstream"} =>
          vivado.bit = NoBit
    /\ flow = "board" /\ vivado.bit # NoBit => vivado.bit.timing = vivado.report

\* A patch writes into an empty place, from the image that is there.
PatchInv ==
    /\ job.pc \in {"patch", "patch result"} => job.words = images.mem /\ patched.result = None
    /\ job.pc = "patch" => patched.bit = None
    /\ job.pc = "patch result" => patched.bit = job.words

\* While a competition run is packaged, simulation and sign-off stay those that were
\* verified; what is copied so far is of them.
PackageInv ==
    flow = "competition" /\ job.pc = "package" =>
        /\ simResult = [status |-> "PASS", image |-> images.json]
        /\ result.status = "PASS" /\ result.image = images.json
        /\ job.next > 1 => job.hashes["bit"] # Absent
        /\ job.next > 2 => job.hashes["result"] = File(result)
        /\ job.next > 3 => job.hashes["mem"] # Absent
        /\ job.next > 4 => job.hashes["image"] = File(images.json)
        /\ job.next > 5 => job.hashes["simulation"] = File(simResult)

\* A manifest lists every file, and its image, simulation and sign-off belong together.
ManifestInv ==
    flow = "competition" /\ release.manifest # NoFiles =>
        /\ \A f \in Names : release.manifest[f] # Absent
        /\ \E image \in Stored, r \in Results :
              /\ r.status = "PASS" /\ r.image = image
              /\ release.manifest["image"] = File(image) /\ release.manifest["result"] = File(r)
              /\ release.manifest["simulation"] = File([status |-> "PASS", image |-> image])

ReleaseInv ==
    /\ RecordTypes /\ BitInv /\ PassIsForThisBitstream
    /\ PatchInv /\ PatchResultIsTruthful /\ PackageInv /\ ManifestInv
-----------------------------------------------------------------------------
\* What a release lists, for each flow.
LEMMA ContentsFacts ==
    /\ flow = "board" => Len(Contents) = 3
    /\ flow # "board" =>
          /\ Len(Contents) = 5 /\ Contents[1] = "bit" /\ Contents[2] = "result"
          /\ Contents[3] = "mem" /\ Contents[4] = "image" /\ Contents[5] = "simulation"
    /\ Len(Contents) \in {3, 5}
    /\ \A i \in 1..Len(Contents) : Contents[i] \in Names
BY DEF Contents, Names

\* What a file can come from.
LEMMA VersionFacts ==
    None \in Stored /\ Versions \subseteq Stored /\ None \notin Versions /\ Versions \subseteq Nat
BY ReleaseAssumption DEF None, Stored, Versions

\* Nothing built, nothing checked, nothing released.
LEMMA NoFacts ==
    /\ NoBit \in Bits /\ OldBit \in Bits /\ NoResult \in Results /\ NoSim \in Sims
    /\ NoFiles \in Files /\ NoResult.status = "none" /\ NoSim.status = "none"
<1>1. NoBit \in Bits /\ OldBit \in Bits
  BY VersionFacts DEF NoBit, OldBit, Bits
<1>2. NoResult \in Results /\ NoSim \in Sims /\ NoResult.status = "none" /\ NoSim.status = "none"
  BY <1>1, VersionFacts DEF NoResult, Results, NoSim, Sims
<1>3. NoFiles \in Files
  BY DEF NoFiles, Files
<1>4. QED
  BY <1>1, <1>2, <1>3

\* The first states of both flows satisfy the invariant.
LEMMA ReleaseInitInv == Init => ReleaseInv
<1> SUFFICES ASSUME Init PROVE ReleaseInv
  OBVIOUS
<1>1. RecordTypes
  BY NoFacts, VersionFacts, ReleaseAssumption DEF Init, RecordTypes, NoJob, Prepares, Versions
<1>2. BitInv /\ PassIsForThisBitstream
  BY NoFacts DEF Init, BitInv, PassIsForThisBitstream, NoJob, BuildPlaces, AfterUnlink
<1>3. PatchInv /\ PatchResultIsTruthful /\ PackageInv /\ ManifestInv
  BY DEF Init, PatchInv, PatchResultIsTruthful, PackageInv, ManifestInv, NoJob
<1>4. QED
  BY <1>1, <1>2, <1>3 DEF ReleaseInv

\* A tree is used for one flow.
LEMMA FlowFixed == [Next]_vars => flow' = flow
BY DEF Next, vars, PrepareStarts, SourceCopied, RunPublished, RunProtected, RunRepaired,
   ImageBuildStarts, MemFilesWritten, ImageJsonWritten, ImageSimulated, ResultUnlinked,
   BitUnlinked, ReportsUnlinked, Synthesised, Implemented, BitstreamWritten, ReportsChecked,
   BoardProgrammed, PatchStarts, MemoryPatched, PatchedBitCopied, PatchRecorded, PackageStarts,
   FilePackaged, ReleaseRecorded, ScriptKilled, SoftwareEdited, CleanFpga

\* What check_fpga_reports.py writes is a result.
LEMMA VerdictType == RecordTypes => Verdict \in Results
BY VersionFacts DEF RecordTypes, Verdict, Results, Outcomes

\* A file that is copied into a release, and one more hash.
LEMMA PackagedType ==
    ASSUME RecordTypes, NEW f \in Names
    PROVE  File(ReleaseInputs[f]) \in {Absent} \cup {File(x) : x \in Payload}
<1>1. ReleaseInputs[f] \in Payload
  BY DEF RecordTypes, ReleaseInputs, Names, Payload
<1>2. QED
  BY <1>1

\* Counting up to a bound, and the place in a list of three or five files.
LEMMA Counting ==
    /\ \A k \in Nat : \A n \in 0..k : n < k => n + 1 \in 0..k
    /\ \A k \in {3, 5} : \A n \in 1..k : n + 1 \in 1..6 /\ n + 1 \in 1..k + 1
    /\ \A n \in 1..5 : n \in {1, 2, 3, 4, 5}
    /\ \A n \in 1..6 : n > 5 => n > 4 /\ n > 3 /\ n > 2 /\ n > 1
OBVIOUS

\* A kill or an edit is counted.
LEMMA DisturbType == RecordTypes /\ Disturb => faults' \in 0..MaxFaults
BY ReleaseAssumption DEF RecordTypes, Disturb

\* The place of a script tells what it keeps.
LEMMA JobKinds ==
    RecordTypes =>
        /\ job.pc \in {"patch", "patch result"} => job \in Patches
        /\ job.pc = "package" => job \in Packages
BY DEF RecordTypes, Prepares, Images, Patches, Packages, BuildPlaces

\* A patch keeps the words it read and counts the memories.
LEMMA PatchStartsType == RecordTypes /\ PatchStarts => job' \in Patches
<1> SUFFICES ASSUME RecordTypes, PatchStarts PROVE job' \in Patches
  OBVIOUS
<1>1. images.mem \in Versions
  BY DEF RecordTypes, PatchStarts, Stored
<1>2. 0 \in 0..Memories
  BY ReleaseAssumption
<1>3. QED
  BY <1>1, <1>2 DEF PatchStarts, Patches

\* One more memory is patched.
LEMMA MemoryPatchedType == RecordTypes /\ MemoryPatched => job' \in Patches
<1> SUFFICES ASSUME RecordTypes, MemoryPatched PROVE job' \in Patches
  OBVIOUS
<1>1. job \in Patches
  BY JobKinds DEF MemoryPatched
<1>2. job.done + 1 \in 0..Memories
  <2>1. Memories \in Nat
    BY ReleaseAssumption
  <2>2. job.done \in 0..Memories /\ job.done < Memories
    BY <1>1 DEF MemoryPatched, Patches
  <2>3. QED
    BY <2>1, <2>2, Counting, Zenon
<1>3. job' = [job EXCEPT !.done = @ + 1]
  BY DEF MemoryPatched
<1>4. QED
  BY <1>1, <1>2, <1>3 DEF Patches

\* Packaging starts with no hash and a result that was just written or verified.
LEMMA PackageStartsType ==
    RecordTypes /\ PackageStarts =>
        /\ result' \in Results /\ job' \in Packages
        /\ job'.next \in 1..Len(Contents) + 1
<1> SUFFICES ASSUME RecordTypes, PackageStarts
             PROVE  /\ result' \in Results /\ job' \in Packages
                    /\ job'.next \in 1..Len(Contents) + 1
  OBVIOUS
<1>1. result' \in Results
  BY VerdictType DEF PackageStarts, RecordTypes
<1>2. job' = [pc |-> "package", next |-> 1, hashes |-> NoFiles]
  BY DEF PackageStarts
<1>3. job' \in Packages /\ job'.next = 1
  BY <1>2, NoFacts DEF Packages
<1>4. QED
  BY <1>1, <1>3, ContentsFacts

\* What one step of package copies, and where it keeps the hash.
LEMMA FileCopied ==
    ASSUME RecordTypes, FilePackaged
    PROVE  /\ job \in Packages /\ job.next \in 1..Len(Contents)
           /\ Contents[job.next] \in Names
           /\ release' = [release EXCEPT !.files[Contents[job.next]] =
                             File(ReleaseInputs[Contents[job.next]])]
           /\ job' = [job EXCEPT !.next = @ + 1, !.hashes[Contents[job.next]] =
                             File(ReleaseInputs[Contents[job.next]])]
<1>1. job \in Packages /\ job.next \in 1..Len(Contents)
  <2>1. job \in Packages
    BY JobKinds DEF FilePackaged
  <2>2. job.next \in 1..6 /\ job.next <= Len(Contents)
    BY <2>1 DEF FilePackaged, Packages
  <2>3. QED
    BY <2>1, <2>2, ContentsFacts
<1>2. Contents[job.next] \in Names
  BY <1>1, ContentsFacts
<1>3. QED
  BY <1>1, <1>2 DEF FilePackaged

\* A copied file and its hash have their types.
LEMMA FilePackagedType ==
    RecordTypes /\ FilePackaged =>
        /\ release' \in [files : Files, manifest : Files] /\ job' \in Packages
        /\ job'.next \in 1..Len(Contents) + 1
<1> SUFFICES ASSUME RecordTypes, FilePackaged
             PROVE  /\ release' \in [files : Files, manifest : Files] /\ job' \in Packages
                    /\ job'.next \in 1..Len(Contents) + 1
  OBVIOUS
<1> DEFINE f == Contents[job.next]
           x == File(ReleaseInputs[f])
<1>1. /\ job \in Packages /\ job.next \in 1..Len(Contents) /\ f \in Names
      /\ release' = [release EXCEPT !.files[f] = x]
      /\ job' = [job EXCEPT !.next = @ + 1, !.hashes[f] = x]
  BY FileCopied
<1>2. x \in {Absent} \cup {File(y) : y \in Payload}
  BY <1>1, PackagedType
<1>3. release \in [files : Files, manifest : Files]
  BY DEF RecordTypes
<1>4. job.next + 1 \in 1..6 /\ job.next + 1 \in 1..Len(Contents) + 1
  <2>1. Len(Contents) \in {3, 5}
    BY ContentsFacts
  <2>2. QED
    BY <1>1, <2>1, Counting, Zenon
<1> HIDE DEF f, x
<1>5. release' \in [files : Files, manifest : Files]
  BY <1>1, <1>2, <1>3 DEF Files
<1>6. job' \in Packages /\ job'.next = job.next + 1
  BY <1>1, <1>2, <1>4 DEF Packages, Files
<1>7. QED
  BY <1>4, <1>5, <1>6

\* The types are preserved.
LEMMA TypesPreserved == RecordTypes /\ [Next]_vars => RecordTypes'
<1> SUFFICES ASSUME RecordTypes, [Next]_vars PROVE RecordTypes'
  OBVIOUS
<1>0. Contents' = Contents /\ flow' = flow
  BY FlowFixed DEF Contents
<1> USE NoFacts, VersionFacts, <1>0
    DEF RecordTypes, Prepares, Images, Patches, Packages, BuildPlaces, NoJob, fpgaVars
<1>1. CASE PrepareStarts
  BY <1>1 DEF PrepareStarts, Idle
<1>2. CASE SourceCopied
  BY <1>2 DEF SourceCopied, Goto
<1>3. CASE RunPublished
  BY <1>3 DEF RunPublished
<1>4. CASE RunProtected
  BY <1>4, DisturbType DEF RunProtected
<1>5. CASE RunRepaired
  BY <1>5 DEF RunRepaired, Idle
<1>6. CASE \E then \in {"end", "vivado"} : ImageBuildStarts(then)
  <2>1. PICK then \in {"end", "vivado"} : ImageBuildStarts(then)
    BY <1>6
  <2>3. job' \in Images
    BY <2>1 DEF ImageBuildStarts
  <2>4. QED
    BY <2>1, <2>3 DEF ImageBuildStarts
<1>7. CASE MemFilesWritten
  BY <1>7 DEF MemFilesWritten, Goto
<1>8. CASE ImageJsonWritten
  BY <1>8 DEF ImageJsonWritten
<1>9. CASE ImageSimulated
  <2>1. PICK status \in Outcomes : simResult' = [status |-> status, image |-> images.json]
    BY <1>9 DEF ImageSimulated
  <2>2. simResult' \in Sims
    BY <2>1 DEF Sims
  <2>3. QED
    BY <1>9, <2>2 DEF ImageSimulated
<1>10. CASE ResultUnlinked
  BY <1>10 DEF ResultUnlinked, Goto
<1>11. CASE BitUnlinked
  BY <1>11 DEF BitUnlinked, Goto
<1>12. CASE ReportsUnlinked
  BY <1>12 DEF ReportsUnlinked, Goto
<1>13. CASE Synthesised
  BY <1>13 DEF Synthesised, VivadoStep, Goto
<1>14. CASE Implemented
  BY <1>14 DEF Implemented, VivadoStep, Goto
<1>15. CASE BitstreamWritten
  <2>1. [from |-> vivado.synth, timing |-> vivado.report] \in Bits
    BY DEF Bits
  <2>2. QED
    BY <1>15, <2>1 DEF BitstreamWritten, VivadoStep, Goto
<1>16. CASE ReportsChecked
  BY <1>16, VerdictType DEF ReportsChecked
<1>17. CASE BoardProgrammed
  BY <1>17 DEF BoardProgrammed, Idle
<1>18. CASE PatchStarts
  BY <1>18, PatchStartsType DEF PatchStarts
<1>19. CASE MemoryPatched
  BY <1>19, MemoryPatchedType DEF MemoryPatched
<1>20. CASE PatchedBitCopied
  BY <1>20 DEF PatchedBitCopied, Goto
<1>21. CASE PatchRecorded
  BY <1>21 DEF PatchRecorded
<1>22. CASE PackageStarts
  BY <1>22, PackageStartsType DEF PackageStarts
<1>23. CASE FilePackaged
  BY <1>23, FilePackagedType DEF FilePackaged
<1>24. CASE ReleaseRecorded
  BY <1>24 DEF ReleaseRecorded
<1>25. CASE ScriptKilled
  BY <1>25, DisturbType DEF ScriptKilled
<1>26. CASE SoftwareEdited
  BY ZenonT(30), <1>26, DisturbType DEF SoftwareEdited
<1>27. CASE CleanFpga
  BY <1>27 DEF CleanFpga, Idle
<1>28. CASE UNCHANGED vars
  BY <1>28 DEF vars
<1>29. QED
  BY <1>1, <1>2, <1>3, <1>4, <1>5, <1>6, <1>7, <1>8, <1>9, <1>10, <1>11, <1>12, <1>13,
     <1>14, <1>15, <1>16, <1>17, <1>18, <1>19, <1>20, <1>21, <1>22, <1>23, <1>24, <1>25, <1>26,
     <1>27, <1>28 DEF Next

\* Every step of a script, of the Vivado GUI and of the developer preserves the rest.
LEMMA RecordsPreserved ==
    ReleaseInv /\ [Next]_vars =>
        BitInv' /\ PassIsForThisBitstream' /\ PatchInv' /\ PatchResultIsTruthful'
<1> SUFFICES ASSUME ReleaseInv, [Next]_vars
             PROVE  /\ BitInv' /\ PassIsForThisBitstream'
                    /\ PatchInv' /\ PatchResultIsTruthful'
  OBVIOUS
<1> USE NoFacts, VersionFacts
    DEF ReleaseInv, RecordTypes, Prepares, Images, Patches, Packages, BuildPlaces, AfterUnlink,
        NoJob, fpgaVars, BitInv, PassIsForThisBitstream, PatchInv,
        PatchResultIsTruthful
<1>1. CASE PrepareStarts
  BY <1>1 DEF PrepareStarts, Idle
<1>2. CASE SourceCopied
  BY <1>2 DEF SourceCopied, Goto
<1>3. CASE RunPublished
  BY <1>3 DEF RunPublished
<1>4. CASE RunProtected
  BY <1>4 DEF RunProtected, Disturb, Idle
<1>5. CASE RunRepaired
  BY <1>5 DEF RunRepaired, Idle
<1>6. CASE \E then \in {"end", "vivado"} : ImageBuildStarts(then)
  BY <1>6 DEF ImageBuildStarts, Idle
<1>7. CASE MemFilesWritten
  BY <1>7 DEF MemFilesWritten, Goto
<1>8. CASE ImageJsonWritten
  BY <1>8 DEF ImageJsonWritten
<1>9. CASE ImageSimulated
  BY <1>9 DEF ImageSimulated, Idle
<1>10. CASE ResultUnlinked
  BY <1>10 DEF ResultUnlinked, Goto
<1>11. CASE BitUnlinked
  BY <1>11 DEF BitUnlinked, Goto
<1>12. CASE ReportsUnlinked
  BY <1>12 DEF ReportsUnlinked, Goto
<1>13. CASE Synthesised
  BY <1>13 DEF Synthesised, VivadoStep, Goto
<1>14. CASE Implemented
  BY <1>14 DEF Implemented, VivadoStep, Goto
<1>15. CASE BitstreamWritten
  BY <1>15 DEF BitstreamWritten, VivadoStep, Goto
<1>16. CASE ReportsChecked
  BY <1>16 DEF ReportsChecked, Idle, Checkable, Verdict
<1>17. CASE BoardProgrammed
  BY <1>17 DEF BoardProgrammed, Idle
<1>18. CASE PatchStarts
  BY <1>18 DEF PatchStarts, Idle
<1>19. CASE MemoryPatched
  BY <1>19 DEF MemoryPatched
<1>20. CASE PatchedBitCopied
  BY <1>20 DEF PatchedBitCopied, Goto
<1>21. CASE PatchRecorded
  BY <1>21 DEF PatchRecorded
<1>22. CASE PackageStarts
  BY <1>22 DEF PackageStarts, Idle, Checkable, Verdict, VerifyCompetitionResults
<1>23. CASE FilePackaged
  BY <1>23 DEF FilePackaged
<1>24. CASE ReleaseRecorded
  BY <1>24 DEF ReleaseRecorded
<1>25. CASE ScriptKilled
  BY <1>25 DEF ScriptKilled, Idle, Disturb
<1>26. CASE SoftwareEdited
  BY <1>26 DEF SoftwareEdited, Idle, Disturb
<1>27. CASE CleanFpga
  BY <1>27 DEF CleanFpga, Idle
<1>28. CASE UNCHANGED vars
  BY ZenonT(30), <1>28 DEF vars
<1>29. QED
  BY <1>1, <1>2, <1>3, <1>4, <1>5, <1>6, <1>7, <1>8, <1>9, <1>10, <1>11, <1>12, <1>13,
     <1>14, <1>15, <1>16, <1>17, <1>18, <1>19, <1>20, <1>21, <1>22, <1>23, <1>24, <1>25, <1>26,
     <1>27, <1>28 DEF Next

\* Packaging starts when simulation and sign-off passed for the image that is there.
LEMMA PackageStartsInv ==
    ReleaseInv /\ PackageStarts => PackageInv' /\ ManifestInv'
<1> SUFFICES ASSUME ReleaseInv, PackageStarts PROVE PackageInv' /\ ManifestInv'
  OBVIOUS
<1>1. /\ flow' = flow /\ simResult' = simResult /\ images' = images /\ release' = release
      /\ job'.next = 1
  BY DEF PackageStarts
<1>2. flow = "competition" => VerifyCompetitionResults /\ result' = result
  BY DEF PackageStarts
<1>3. simResult = [status |-> simResult.status, image |-> simResult.image]
  BY DEF ReleaseInv, RecordTypes, Sims
<1>4. PackageInv'
  BY <1>1, <1>2, <1>3 DEF VerifyCompetitionResults, PackageInv
<1>5. ManifestInv'
  BY <1>1 DEF ReleaseInv, ManifestInv
<1>6. QED
  BY <1>4, <1>5

\* Each file that is copied is the one verified before, under its name.
LEMMA FilePackagedInv ==
    ReleaseInv /\ FilePackaged => PackageInv' /\ ManifestInv'
<1> SUFFICES ASSUME ReleaseInv, FilePackaged PROVE PackageInv' /\ ManifestInv'
  OBVIOUS
<1> DEFINE f == Contents[job.next]
           x == File(ReleaseInputs[f])
<1>1. /\ job \in Packages /\ job.next \in 1..Len(Contents) /\ f \in Names
      /\ release' = [release EXCEPT !.files[f] = x]
      /\ job' = [job EXCEPT !.next = @ + 1, !.hashes[f] = x]
  BY FileCopied DEF ReleaseInv
<1>2. /\ flow' = flow /\ simResult' = simResult /\ result' = result /\ images' = images
      /\ job.pc = "package"
  BY DEF FilePackaged, fpgaVars
<1>3. ManifestInv'
  <2>1. release'.manifest = release.manifest
    BY <1>1 DEF ReleaseInv, RecordTypes
  <2>2. QED
    BY <1>2, <2>1 DEF ReleaseInv, ManifestInv
<1>4. ASSUME flow = "competition" PROVE PackageInv'
  <2>1. job.next \in {1, 2, 3, 4, 5}
    <3>1. Len(Contents) = 5
      BY <1>4, ContentsFacts
    <3>2. QED
      BY <1>1, <3>1, Counting, Zenon
  <2>2. /\ job'.next = job.next + 1 /\ job'.hashes[f] = x
        /\ \A g \in Names \ {f} : job'.hashes[g] = job.hashes[g]
    BY <1>1 DEF Packages, Files
  <2>3. x # Absent
    BY DEF File, Absent
  <2>4. /\ job.next = 1 => f = "bit"
        /\ job.next = 2 => f = "result" /\ x = File(result)
        /\ job.next = 3 => f = "mem"
        /\ job.next = 4 => f = "image" /\ x = File(images.json)
        /\ job.next = 5 => f = "simulation" /\ x = File(simResult)
    BY <1>4, ContentsFacts DEF ReleaseInputs
  <2>5. {"bit", "result", "mem", "image", "simulation"} = Names
    BY DEF Names
  <2> HIDE DEF f, x
  <2>6. PackageInv
    BY DEF ReleaseInv
  <2>7. QED
    BY <1>2, <1>4, <2>1, <2>2, <2>3, <2>4, <2>5, <2>6 DEF PackageInv
<1>5. QED
  BY <1>2, <1>3, <1>4 DEF PackageInv

\* The manifest that is written lists what was verified, every file of it.
LEMMA ReleaseRecordedInv ==
    ReleaseInv /\ ReleaseRecorded => PackageInv' /\ ManifestInv'
<1> SUFFICES ASSUME ReleaseInv, ReleaseRecorded PROVE PackageInv' /\ ManifestInv'
  OBVIOUS
<1>1. /\ flow' = flow /\ simResult' = simResult /\ result' = result /\ images' = images
      /\ job.pc = "package" /\ job.next > Len(Contents)
      /\ release'.manifest = job.hashes /\ job'.pc = "idle"
  BY DEF ReleaseRecorded, fpgaVars, NoJob, ReleaseInv, RecordTypes
<1>2. PackageInv'
  BY <1>1 DEF PackageInv
<1>3. ASSUME flow = "competition" PROVE ManifestInv'
  <2>1. job \in Packages
    BY <1>1, JobKinds DEF ReleaseInv
  <2>2. job.next > 5 /\ job.next > 4 /\ job.next > 3 /\ job.next > 2 /\ job.next > 1
    <3>1. Len(Contents) = 5
      BY <1>3, ContentsFacts
    <3>2. job.next \in 1..6 /\ job.next > 5
      BY <1>1, <2>1, <3>1 DEF Packages
    <3>3. QED
      BY <3>2, Counting, Zenon
  <2>3. /\ simResult = [status |-> "PASS", image |-> images.json]
        /\ result.status = "PASS" /\ result.image = images.json
        /\ job.hashes["bit"] # Absent /\ job.hashes["mem"] # Absent
        /\ job.hashes["result"] = File(result) /\ job.hashes["image"] = File(images.json)
        /\ job.hashes["simulation"] = File(simResult)
    BY <1>1, <1>3, <2>2 DEF ReleaseInv, PackageInv
  <2>4. \A y : File(y) # Absent
    BY DEF File, Absent
  <2>5. \A f \in Names : job.hashes[f] # Absent
    BY <2>3, <2>4 DEF Names
  <2>6. images.json \in Stored /\ result \in Results
    BY DEF ReleaseInv, RecordTypes
  <2>7. QED
    BY <1>1, <2>3, <2>5, <2>6 DEF ManifestInv
<1>4. QED
  BY <1>1, <1>2, <1>3 DEF ManifestInv

\* And what is packaged stays what was verified.
LEMMA PackagePreserved == ReleaseInv /\ [Next]_vars => PackageInv' /\ ManifestInv'
<1> SUFFICES ASSUME ReleaseInv, [Next]_vars PROVE PackageInv' /\ ManifestInv'
  OBVIOUS
<1> USE NoFacts
    DEF ReleaseInv, RecordTypes, Prepares, Images, Patches, Packages, BuildPlaces, NoJob,
        fpgaVars, PackageInv, ManifestInv
<1>1. CASE PrepareStarts
  BY <1>1 DEF PrepareStarts, Idle
<1>2. CASE SourceCopied
  BY <1>2 DEF SourceCopied, Goto
<1>3. CASE RunPublished
  BY <1>3 DEF RunPublished
<1>4. CASE RunProtected
  BY <1>4 DEF RunProtected, Disturb, Idle
<1>5. CASE RunRepaired
  BY <1>5 DEF RunRepaired, Idle
<1>6. CASE \E then \in {"end", "vivado"} : ImageBuildStarts(then)
  <2>1. PICK then \in {"end", "vivado"} : ImageBuildStarts(then)
    BY <1>6
  <2>2. job'.pc = "mem" /\ UNCHANGED <<flow, release>>
    BY <2>1 DEF ImageBuildStarts
  <2>3. PackageInv'
    BY <2>2
  <2>4. ManifestInv'
    BY <2>2
  <2> QED BY <2>3, <2>4
<1>7. CASE MemFilesWritten
  BY <1>7 DEF MemFilesWritten, Goto
<1>8. CASE ImageJsonWritten
  BY <1>8 DEF ImageJsonWritten
<1>9. CASE ImageSimulated
  BY <1>9 DEF ImageSimulated, Idle
<1>10. CASE ResultUnlinked
  BY <1>10 DEF ResultUnlinked, Goto
<1>11. CASE BitUnlinked
  BY <1>11 DEF BitUnlinked, Goto
<1>12. CASE ReportsUnlinked
  BY <1>12 DEF ReportsUnlinked, Goto
<1>13. CASE Synthesised
  BY <1>13 DEF Synthesised, VivadoStep, Goto
<1>14. CASE Implemented
  BY ZenonT(30), <1>14 DEF Implemented, VivadoStep, Goto
<1>15. CASE BitstreamWritten
  BY <1>15 DEF BitstreamWritten, VivadoStep, Goto
<1>16. CASE ReportsChecked
  BY <1>16 DEF ReportsChecked, Idle, Checkable, Verdict
<1>17. CASE BoardProgrammed
  BY <1>17 DEF BoardProgrammed, Idle
<1>18. CASE PatchStarts
  BY <1>18 DEF PatchStarts, Idle
<1>19. CASE MemoryPatched
  BY <1>19 DEF MemoryPatched
<1>20. CASE PatchedBitCopied
  BY <1>20 DEF PatchedBitCopied, Goto
<1>21. CASE PatchRecorded
  BY <1>21 DEF PatchRecorded
<1>22. CASE PackageStarts
  BY <1>22, PackageStartsInv
<1>23. CASE FilePackaged
  BY <1>23, FilePackagedInv
<1>24. CASE ReleaseRecorded
  BY <1>24, ReleaseRecordedInv
<1>25. CASE ScriptKilled
  BY <1>25 DEF ScriptKilled, Idle, Disturb
<1>26. CASE SoftwareEdited
  BY <1>26 DEF SoftwareEdited, Idle, Disturb
<1>27. CASE CleanFpga
  BY <1>27 DEF CleanFpga, Idle
<1>28. CASE UNCHANGED vars
  BY <1>28 DEF vars
<1>29. QED
  BY <1>1, <1>2, <1>3, <1>4, <1>5, <1>6, <1>7, <1>8, <1>9, <1>10, <1>11, <1>12, <1>13,
     <1>14, <1>15, <1>16, <1>17, <1>18, <1>19, <1>20, <1>21, <1>22, <1>23, <1>24, <1>25, <1>26,
     <1>27, <1>28 DEF Next

\* The invariant holds in every state the scripts can leave.
LEMMA ReleaseInvariant == Spec => []ReleaseInv
<1>1. ReleaseInv /\ [Next]_vars => ReleaseInv'
  BY TypesPreserved, RecordsPreserved, PackagePreserved DEF ReleaseInv
<1>2. QED
  BY ReleaseInitInv, <1>1, PTL DEF Spec

\* The sign-off and the patch result are about the bitstreams that are there, whatever
\* script was killed and in whatever order the Vivado GUI was used (run_vivado.py,
\* check_fpga_reports.py, patch_bitstream.py).
THEOREM RecordsStayTruthful == Spec => []RecordsAreTruthful
<1>1. ReleaseInv => TypeOK
  <2> SUFFICES ASSUME ReleaseInv PROVE TypeOK
    OBVIOUS
  <2>1. job.pc = "patch" => job.done \in 0..Memories
    BY JobKinds DEF ReleaseInv, Patches
  <2>2. QED
    BY <2>1 DEF ReleaseInv, RecordTypes, TypeOK, Stored, Results, Sims
<1>2. ReleaseInv => RecordsAreTruthful
  BY <1>1 DEF ReleaseInv, RecordsAreTruthful
<1>3. QED
  BY ReleaseInvariant, <1>2, PTL

\* A release of a competition run whose files match its manifest holds a simulation and a
\* sign-off that passed for the image in it, and no file but those its manifest lists:
\* also after packages that were killed between two files (package_release.py).
THEOREM ReleasesBelongTogether == Spec => []ReleaseBelongsTogether
<1>1. ReleaseInv => ReleaseBelongsTogether
  <2> SUFFICES ASSUME ReleaseInv, flow = "competition", MatchesManifest
               PROVE  LET m == release.manifest
                          image == m["image"][1]
                      IN  /\ m["simulation"][1] = [status |-> "PASS", image |-> image]
                          /\ m["result"][1].status = "PASS" /\ m["result"][1].image = image
                          /\ release.files = m
    BY DEF ReleaseBelongsTogether
  <2>1. \A f \in Names : release.manifest[f] # Absent
    BY DEF ReleaseInv, ManifestInv, MatchesManifest
  <2>2. PICK image \in Stored, r \in Results :
              /\ r.status = "PASS" /\ r.image = image
              /\ release.manifest["image"] = File(image) /\ release.manifest["result"] = File(r)
              /\ release.manifest["simulation"] = File([status |-> "PASS", image |-> image])
    BY DEF ReleaseInv, ManifestInv, MatchesManifest
  <2>3. \A y : File(y)[1] = y
    BY DEF File
  <2>4. \A f \in Names : release.files[f] = release.manifest[f]
    BY <2>1 DEF MatchesManifest
  <2>5. release.files \in Files /\ release.manifest \in Files
    BY DEF ReleaseInv, RecordTypes
  <2>6. release.files = release.manifest
    BY <2>4, <2>5 DEF Files
  <2>7. QED
    BY <2>2, <2>3, <2>6
<1>2. QED
  BY ReleaseInvariant, <1>1, PTL

-----------------------------------------------------------------------------
(***************************************************************************)
(* SoftwareBuild: build_software.py in a competition run.                  *)
(***************************************************************************)
Stages == {"compile", "link", "mem", "json"}

BuildTypes ==
    /\ source \in Sources
    /\ objects \in [of : [Build!Profiles -> SUBSET Sources],
                    program : {Build!NotCompiled, "prepared", "edited"},
                    younger : BOOLEAN, link : SUBSET Build!Profiles]
    /\ program \in {"prepared", "edited"}
    /\ output = [mem |-> output.mem, json |-> output.json]
    /\ build = Build!NoBuild \/ build \in [pc : Stages, profile : Build!Profiles]

\* No other profile was built here, and no change fell between a check and make's reading.
Undisturbed == ~raced /\ objects.of["other"] = {}

Prepared(image) ==
    image = Build!NoImage \/ (image.profile = "contest" /\ image.program = "prepared")

\* After make has compiled a profile it has objects, and those of the contest the program's.
CompiledInv ==
    build.pc \in {"link", "mem", "json"} =>
        /\ objects.of[build.profile] # {}
        /\ build.profile = "contest" => objects.program # Build!NotCompiled

\* A build of the contest that is about to compile finds the program as it was prepared; the
\* object of the program, the ELF and the images hold no other.
PreparedInv ==
    Undisturbed =>
        /\ objects.program # "edited"
        /\ build.pc = "compile" /\ build.profile = "contest" => program = "prepared"
        /\ Prepared(firmware) /\ Prepared(output.mem) /\ Prepared(output.json)

BuildInv == BuildTypes /\ CompiledInv /\ PreparedInv

\* Every step of a build, every kill and every edit preserves it.
LEMMA BuildInvPreserved == BuildInv /\ [Build!Next]_Build!vars => BuildInv'
<1> SUFFICES ASSUME BuildInv, [Build!Next]_Build!vars PROVE BuildInv'
  OBVIOUS
<1> USE DEF BuildInv, BuildTypes, CompiledInv, PreparedInv, Undisturbed, Prepared, Stages,
            Build!Profiles, Build!NotCompiled, Build!NoBuild
<1>1. CASE \E profile \in Build!Profiles : Build!BuildStarts(profile)
  BY <1>1 DEF Build!BuildStarts, Build!SourcesUnchanged
<1>2. CASE Build!SoftwareCompiled
  BY <1>2 DEF Build!SoftwareCompiled, Build!Goto
<1>3. CASE Build!FirmwareLinked
  BY <1>3 DEF Build!FirmwareLinked, Build!Goto, Build!LinkedImage, Build!Image
<1>4. CASE Build!MemWritten
  BY <1>4 DEF Build!MemWritten, Build!Goto
<1>5. CASE Build!JsonWritten
  BY <1>5 DEF Build!JsonWritten
<1>6. CASE Build!BuildKilled
  BY <1>6 DEF Build!BuildKilled
<1>7. CASE Build!RepositoryEdited
  BY <1>7 DEF Build!RepositoryEdited
<1>8. CASE Build!ProgramEdited
  BY <1>8 DEF Build!ProgramEdited
<1>9. CASE UNCHANGED Build!vars
  BY <1>9 DEF Build!vars
<1>10. QED
  BY <1>1, <1>2, <1>3, <1>4, <1>5, <1>6, <1>7, <1>8, <1>9 DEF Build!Next

\* No ELF and no image of a competition run holds a program changed after its preparation,
\* for any sources, edits, old and new dates and kills, unless the change fell between the
\* check and make's reading or another profile was built in the run directory
\* (verify_competition_sources, build_profile and software/Makefile).
THEOREM ImagesAreOfThePreparedSource == Build!Spec => []ImagesFromPreparedSource
<1>1. Build!Init => BuildInv
  BY DEF Build!Init, BuildInv, BuildTypes, CompiledInv, PreparedInv, Undisturbed, Prepared,
         Build!NoObjects, Build!NoBuild, Build!Profiles, Build!NotCompiled
<1>2. BuildInv => ImagesFromPreparedSource
  BY DEF BuildInv, PreparedInv, Undisturbed, Prepared, ImagesFromPreparedSource,
         Build!ImagesFromPreparedSource
<1>3. QED
  BY <1>1, <1>2, BuildInvPreserved, PTL DEF Build!Spec

-----------------------------------------------------------------------------
(***************************************************************************)
(* Induction: a nonempty set of naturals has a least element, so a set     *)
(* with zero that is closed under successor has them all.                  *)
(***************************************************************************)
LEMMA LeastElement ==
    ASSUME NEW T \in SUBSET Nat, T # {}
    PROVE  \E n \in T : \A m \in T : n <= m
  <1> DEFINE R == {ss \in Nat \X Nat : ss[1] < ss[2]}
  <1>1. IsWellFoundedOn(R, Nat)
    BY NatLessThanWellFounded DEF OpToRel
  <1> HIDE DEF R
  <1>2. PICK n \in T : \A m \in T : ~(<<m, n>> \in R)
    BY <1>1, WFMin
  <1>3. \A m \in T : ~(m < n)
    BY <1>2 DEF R
  <1> QED BY <1>3

LEMMA SetInduction ==
    ASSUME NEW S, 0 \in S, \A n \in Nat : n \in S => n + 1 \in S
    PROVE  Nat \subseteq S
  <1> SUFFICES ASSUME NEW k \in Nat, k \notin S PROVE FALSE
    OBVIOUS
  <1>1. PICK n \in Nat \ S : \A m \in Nat \ S : n <= m
    BY LeastElement
  <1>2. n # 0 /\ n - 1 \in Nat
    OBVIOUS
  <1>3. n - 1 \in S
    BY <1>1, <1>2
  <1> QED BY <1>2, <1>3

-----------------------------------------------------------------------------
(***************************************************************************)
(* elf2mem.py: segments are placed one after the other.                    *)
(***************************************************************************)
\* What parse_elf32_little returns: no segment has more data than memory.
Segments == {s \in [address : Nat, data : Seq(Nat), memory : Nat] : Len(s.data) <= s.memory}

\* PlacedAfter is what its recursion says.
LEMMA PlacedAfterSteps ==
    ASSUME NEW regions, NEW segments \in Seq(Segments)
    PROVE  /\ DOMAIN Elf!PlacedAfter(regions, segments) = 0..Len(segments)
           /\ Elf!PlacedAfter(regions, segments)[0] = regions
           /\ \A n \in 1..Len(segments) :
                 Elf!PlacedAfter(regions, segments)[n] =
                    Elf!PlaceSegment(Elf!PlacedAfter(regions, segments)[n - 1], segments[n])
  <1> DEFINE N == Len(segments)
             Steps(g, k) == /\ DOMAIN g = 0..k /\ g = [i \in 0..k |-> g[i]]
                            /\ g[0] = regions
                            /\ \A i \in 1..k : g[i] = Elf!PlaceSegment(g[i - 1], segments[i])
             S == {k \in Nat : \E g : Steps(g, k)}
  <1>0. N \in Nat
    OBVIOUS
  <1>1. 0 \in S
    <2> DEFINE g == [i \in 0..0 |-> regions]
    <2>1. Steps(g, 0)
      OBVIOUS
    <2> QED BY <2>1
  <1>2. ASSUME NEW k \in Nat, k \in S PROVE k + 1 \in S
    <2>1. PICK g : Steps(g, k)
      BY <1>2
    <2> DEFINE h == [i \in 0..k + 1 |-> IF i = k + 1 THEN Elf!PlaceSegment(g[k], segments[k + 1])
                                        ELSE g[i]]
    <2>2. DOMAIN h = 0..k + 1 /\ h = [i \in 0..k + 1 |-> h[i]] /\ h[0] = regions
      BY <2>1
    <2>3. ASSUME NEW i \in 1..k + 1 PROVE h[i] = Elf!PlaceSegment(h[i - 1], segments[i])
      <3>1. i - 1 \in 0..k + 1 /\ i - 1 # k + 1 /\ h[i - 1] = g[i - 1]
        OBVIOUS
      <3>2. CASE i = k + 1
        BY <3>1, <3>2
      <3>3. CASE i # k + 1
        <4>1. i \in 1..k /\ h[i] = g[i]
          BY <3>3
        <4> QED BY <2>1, <3>1, <4>1
      <3> QED BY <3>2, <3>3
    <2>4. Steps(h, k + 1)
      BY <2>2, <2>3
    <2> HIDE DEF h, Steps
    <2> QED BY <2>4
  <1>3. N \in S
    <2> HIDE DEF S
    <2> QED BY <1>0, <1>1, <1>2, SetInduction
  <1>4. PICK g : Steps(g, N)
    BY <1>3
  <1> DEFINE f == CHOOSE f : f = [n \in 0..N |-> IF n = 0 THEN regions
                                                 ELSE Elf!PlaceSegment(f[n - 1], segments[n])]
  <1>5. g = [n \in 0..N |-> IF n = 0 THEN regions ELSE Elf!PlaceSegment(g[n - 1], segments[n])]
    <2>1. \A n \in 0..N : g[n] = IF n = 0 THEN regions ELSE Elf!PlaceSegment(g[n - 1], segments[n])
      BY <1>0, <1>4
    <2> QED BY <1>4, <2>1
  <1>6. f = [n \in 0..N |-> IF n = 0 THEN regions ELSE Elf!PlaceSegment(f[n - 1], segments[n])]
    <2> HIDE DEF Steps
    <2> QED BY <1>5
  <1>7. Elf!PlacedAfter(regions, segments) = f
    BY DEF Elf!PlacedAfter
  <1> HIDE DEF f
  <1>8. /\ DOMAIN f = 0..N /\ f[0] = regions
        /\ \A n \in 1..N : f[n] = Elf!PlaceSegment(f[n - 1], segments[n])
    BY <1>0, <1>6
  <1> QED BY <1>7, <1>8

\* A region as elf2mem.py keeps it, and the byte a segment has for an address it covers.
IsRegion(r) ==
    /\ r = [name |-> r.name, base |-> r.base, size |-> r.size, image |-> r.image, used |-> r.used]
    /\ r.base \in Nat /\ r.size \in Nat /\ r.used \in 0..r.size
    /\ r.image \in [0..r.size - 1 -> Nat]
SamePlace(r, q) == r.name = q.name /\ r.base = q.base /\ r.size = q.size
Covers(segment, a) == segment.address <= a /\ a < segment.address + segment.memory
ByteIn(segment, a) ==
    IF a - segment.address < Len(segment.data) THEN segment.data[a - segment.address + 1] ELSE 0

\* After n segments, the byte at each address is the one of the last segment that covers it,
\* and nothing beyond the end of what is used has been written.
ByteAfter(r, segments, n, o) ==
    \/ \E s \in 1..n : /\ Covers(segments[s], r.base + o)
                       /\ \A t \in 1..n : Covers(segments[t], r.base + o) => t <= s
                       /\ r.image[o] = ByteIn(segments[s], r.base + o)
    \/ (\A s \in 1..n : ~Covers(segments[s], r.base + o)) /\ r.image[o] = 0
HoldsAfter(r, segments, n) ==
    \A o \in 0..r.size - 1 :
        /\ ByteAfter(r, segments, n, o)
        /\ \A s \in 1..n : Covers(segments[s], r.base + o) => o < r.used

LEMMA PlaceHolds ==
    ASSUME NEW r, IsRegion(r), NEW segments \in Seq(Segments), NEW n \in Nat, n + 1 <= Len(segments),
           Elf!Contains(r, segments[n + 1].address, segments[n + 1].memory),
           HoldsAfter(r, segments, n)
    PROVE  LET q == Elf!Place(r, segments[n + 1])
           IN  IsRegion(q) /\ SamePlace(q, r) /\ HoldsAfter(q, segments, n + 1)
  <1> DEFINE g == segments[n + 1]
             q == Elf!Place(r, g)
             offset == g.address - r.base
             stored == offset + Len(g.data)
             end    == offset + g.memory
             byte(o) == CASE offset <= o /\ o < stored -> g.data[o - offset + 1]
                          [] stored <= o /\ o < end -> 0
                          [] OTHER -> r.image[o]
  <1>0. r.base \in Nat /\ r.size \in Nat /\ r.used \in 0..r.size /\ r.image \in [0..r.size - 1 -> Nat]
    BY DEF IsRegion
  <1>1. /\ g \in Segments /\ g.address \in Nat /\ g.memory \in Nat /\ g.data \in Seq(Nat)
        /\ Len(g.data) \in Nat /\ Len(g.data) <= g.memory
        /\ r.base <= g.address /\ g.address + g.memory <= r.base + r.size
    BY DEF Segments, Elf!Contains
  <1> HIDE DEF q, g
  <1>2. /\ offset \in Nat /\ stored \in Nat /\ end \in Nat /\ offset <= stored /\ stored <= end
        /\ end <= r.size
    <2>1. offset \in Nat
      BY <1>0, <1>1
    <2>2. stored \in Nat /\ offset <= stored
      BY <1>1, <2>1
    <2>3. end \in Nat /\ stored <= end
      BY <1>1, <2>1
    <2>4. end <= r.size
      <3>1. g.address + g.memory <= r.base + r.size
        BY <1>1
      <3> HIDE DEF end, offset
      <3>2. end = g.address - r.base + g.memory
        BY DEF end, offset
      <3>3. r.base \in Nat /\ r.size \in Nat /\ g.address \in Nat /\ g.memory \in Nat
        BY <1>0, <1>1
      <3> QED BY <3>1, <3>2, <3>3
    <2> QED BY <2>1, <2>2, <2>3, <2>4
  <1>3. /\ q = [name |-> r.name, base |-> r.base, size |-> r.size,
                image |-> [o \in 0..r.size - 1 |-> byte(o)],
                used |-> IF end > r.used THEN end ELSE r.used]
    <2>1. r = [name |-> r.name, base |-> r.base, size |-> r.size, image |-> r.image, used |-> r.used]
      BY DEF IsRegion
    <2>2. DOMAIN r.image = 0..r.size - 1
      BY <1>0
    <2>3. q = [r EXCEPT !.image = [o \in DOMAIN r.image |-> byte(o)],
                        !.used = IF end > r.used THEN end ELSE r.used]
      BY DEF q, Elf!Place, Elf!Fill
    <2> HIDE DEF byte, end, q
    <2> QED BY <2>1, <2>2, <2>3
  <1>4. /\ q.name = r.name /\ q.base = r.base /\ q.size = r.size
        /\ q.image = [o \in 0..r.size - 1 |-> byte(o)]
        /\ q.used = IF end > r.used THEN end ELSE r.used
    BY <1>3
  <1>5. ASSUME NEW o \in 0..r.size - 1
        PROVE  IF Covers(g, r.base + o) THEN byte(o) = ByteIn(g, r.base + o) ELSE byte(o) = r.image[o]
    <2>1. o \in Nat /\ o \in Int /\ offset \in Int
      BY <1>2
    <2>2. Covers(g, r.base + o) <=> offset <= o /\ o < end
      <3>0. g.address \in Int /\ g.memory \in Int /\ r.base \in Int /\ o \in Int
        BY <1>0, <1>1, <2>1
      <3>1. g.address <= r.base + o <=> offset <= o
        BY <3>0
      <3>2. r.base + o < g.address + g.memory <=> o < end
        BY <3>0
      <3> QED BY <3>1, <3>2 DEF Covers
    <2>3. (r.base + o) - g.address = o - offset
      BY <1>0, <1>1, <2>1
    <2>4. ByteIn(g, r.base + o) = IF o - offset < Len(g.data) THEN g.data[o - offset + 1] ELSE 0
      BY <2>3 DEF ByteIn
    <2>5. o - offset < Len(g.data) <=> o < stored
      BY <1>1, <2>1
    <2> HIDE DEF offset, stored, end
    <2> QED BY <1>2, <2>1, <2>2, <2>4, <2>5
  <1>6. \A o \in 0..r.size - 1 : byte(o) \in Nat
    <2>1. ASSUME NEW o \in 0..r.size - 1 PROVE ByteIn(g, r.base + o) \in Nat \/ ~Covers(g, r.base + o)
      <3>1. ByteIn(g, r.base + o) \in {g.data[k] : k \in 1..Len(g.data)} \cup {0} \/ ~Covers(g, r.base + o)
        <4> DEFINE k == (r.base + o) - g.address
        <4>1. Covers(g, r.base + o) => k \in Nat
          BY <1>0, <1>1 DEF Covers
        <4>2. ByteIn(g, r.base + o) = IF k < Len(g.data) THEN g.data[k + 1] ELSE 0
          BY DEF ByteIn
        <4> HIDE DEF k
        <4>3. k \in Nat /\ k < Len(g.data) => k + 1 \in 1..Len(g.data)
          BY <1>1
        <4> QED BY <4>1, <4>2, <4>3
      <3> QED BY <1>1, <3>1
    <2> QED BY <1>0, <1>5, <2>1
  <1>7. IsRegion(q) /\ SamePlace(q, r)
    BY <1>0, <1>2, <1>3, <1>4, <1>6 DEF IsRegion, SamePlace
  <1>8. ASSUME NEW o \in 0..r.size - 1
        PROVE  ByteAfter(q, segments, n + 1, o)
    <2>1. q.image[o] = byte(o) /\ q.base = r.base
      BY <1>4
    <2> HIDE DEF byte
    <2>2. CASE Covers(g, r.base + o)
      <3>1. q.image[o] = ByteIn(g, r.base + o)
        BY <1>5, <2>1, <2>2
      <3>2. Covers(segments[n + 1], q.base + o) /\ q.image[o] = ByteIn(segments[n + 1], q.base + o)
        BY <2>1, <2>2, <3>1 DEF g
      <3> QED BY <3>2 DEF ByteAfter
    <2>3. CASE ~Covers(g, r.base + o)
      <3>1. q.image[o] = r.image[o] /\ ~Covers(segments[n + 1], r.base + o)
        BY <1>5, <2>1, <2>3 DEF g
      <3>2. ByteAfter(r, segments, n, o)
        BY DEF HoldsAfter
      <3>3. \A t \in 1..n + 1 : t \in 1..n \/ t = n + 1
        OBVIOUS
      <3> QED BY <2>1, <3>1, <3>2, <3>3 DEF ByteAfter
    <2> QED BY <2>2, <2>3
  <1>9. ASSUME NEW o \in 0..r.size - 1, NEW s \in 1..n + 1, Covers(segments[s], q.base + o)
        PROVE  o < q.used
    <2>1. CASE s = n + 1
      <3>1. Covers(g, r.base + o)
        BY <1>4, <1>9, <2>1 DEF g
      <3>2. o < end
        BY <1>0, <1>1, <3>1 DEF Covers
      <3> QED BY <1>0, <1>2, <1>4, <3>2
    <2>2. CASE s # n + 1
      <3>1. s \in 1..n /\ o < r.used
        BY <1>4, <1>9, <2>2 DEF HoldsAfter
      <3> QED BY <1>0, <1>2, <1>4, <3>1
    <2> QED BY <2>1, <2>2
  <1>10. HoldsAfter(q, segments, n + 1)
    BY <1>4, <1>8, <1>9 DEF HoldsAfter
  <1> QED BY <1>7, <1>10 DEF q, g

\* A segment that lies elsewhere changes nothing.
LEMMA PlacedElsewhere ==
    ASSUME NEW r, NEW segments, NEW n \in Nat, HoldsAfter(r, segments, n),
           \A o \in 0..r.size - 1 : ~Covers(segments[n + 1], r.base + o)
    PROVE  HoldsAfter(r, segments, n + 1)
  <1>1. \A t \in 1..n + 1 : t \in 1..n \/ t = n + 1
    OBVIOUS
  <1>2. 1..n \subseteq 1..n + 1
    OBVIOUS
  <1> QED BY <1>1, <1>2 DEF HoldsAfter, ByteAfter

\* Regions as main makes them: nothing placed yet, and no address in two of them.
IsFresh(r) == r.base \in Nat /\ r.size \in Nat /\ r = Elf!Region(r.name, r.base, r.size)
Apart(p, q) == p.base + p.size <= q.base \/ q.base + q.size <= p.base
Fresh(regions) ==
    /\ \A i \in DOMAIN regions : IsFresh(regions[i])
    /\ \A i, j \in DOMAIN regions : i # j => Apart(regions[i], regions[j])

\* What placing keeps, from one segment to the next.
PlacedOK(placed, regions, segments, n) ==
    /\ DOMAIN placed = DOMAIN regions
    /\ \A i \in DOMAIN regions : /\ IsRegion(placed[i]) /\ SamePlace(placed[i], regions[i])
                                 /\ HoldsAfter(placed[i], segments, n)

LEMMA FreshIsPlaced ==
    ASSUME NEW regions, Fresh(regions), NEW segments
    PROVE  PlacedOK(regions, regions, segments, 0)
  <1> SUFFICES ASSUME NEW i \in DOMAIN regions
               PROVE  /\ IsRegion(regions[i]) /\ SamePlace(regions[i], regions[i])
                      /\ HoldsAfter(regions[i], segments, 0)
    BY DEF PlacedOK
  <1> DEFINE base == regions[i].base
             size == regions[i].size
  <1>1. /\ base \in Nat /\ size \in Nat
        /\ regions[i] = Elf!Region(regions[i].name, base, size)
    BY DEF Fresh, IsFresh
  <1>2. regions[i] = [name |-> regions[i].name, base |-> base, size |-> size,
                      image |-> [o \in 0..size - 1 |-> 0], used |-> 0]
    BY <1>1 DEF Elf!Region, Elf!Fill
  <1> HIDE DEF base, size
  <1>3. /\ regions[i].base = base /\ regions[i].size = size /\ regions[i].used = 0
        /\ regions[i].image = [o \in 0..size - 1 |-> 0]
    BY <1>2
  <1>4. IsRegion(regions[i])
    BY <1>1, <1>2, <1>3 DEF IsRegion
  <1>5. HoldsAfter(regions[i], segments, 0)
    <2>1. regions[i].size = size /\ \A o \in 0..size - 1 : regions[i].image[o] = 0
      BY <1>3
    <2> QED BY <2>1 DEF HoldsAfter, ByteAfter
  <1> QED BY <1>4, <1>5 DEF SamePlace

LEMMA PlaceSegmentOK ==
    ASSUME NEW regions, Fresh(regions), NEW segments \in Seq(Segments), NEW n \in Nat,
           n + 1 <= Len(segments), NEW placed, PlacedOK(placed, regions, segments, n),
           NEW m \in DOMAIN regions, Elf!Matches(regions, segments[n + 1]) = {m}
    PROVE  PlacedOK(Elf!PlaceSegment(placed, segments[n + 1]), regions, segments, n + 1)
  <1> DEFINE g == segments[n + 1]
  <1>0. g \in Segments /\ g.address \in Nat /\ g.memory \in Nat
    BY DEF Segments
  <1>1. ASSUME NEW i \in DOMAIN regions
        PROVE  Elf!Contains(placed[i], g.address, g.memory) = Elf!Contains(regions[i], g.address, g.memory)
    BY DEF PlacedOK, SamePlace, Elf!Contains
  <1>2. Elf!Matches(placed, g) = {m}
    BY <1>1 DEF Elf!Matches, PlacedOK
  <1>3. Elf!Contains(regions[m], g.address, g.memory)
    BY DEF Elf!Matches
  <1>4. /\ DOMAIN Elf!PlaceSegment(placed, g) = DOMAIN regions
        /\ \A i \in DOMAIN regions :
              Elf!PlaceSegment(placed, g)[i] = IF i = m THEN Elf!Place(placed[i], g) ELSE placed[i]
    BY <1>2 DEF Elf!PlaceSegment, PlacedOK
  <1> HIDE DEF g
  <1> SUFFICES ASSUME NEW i \in DOMAIN regions
               PROVE  LET q == Elf!PlaceSegment(placed, g)[i]
                      IN  IsRegion(q) /\ SamePlace(q, regions[i]) /\ HoldsAfter(q, segments, n + 1)
    BY <1>4 DEF PlacedOK, g
  <1>5. IsRegion(placed[i]) /\ SamePlace(placed[i], regions[i]) /\ HoldsAfter(placed[i], segments, n)
    BY DEF PlacedOK
  <1>6. CASE i = m
    <2>1. Elf!Contains(placed[i], g.address, g.memory)
      BY <1>1, <1>3, <1>6
    <2> DEFINE q == Elf!Place(placed[i], g)
    <2>2. IsRegion(q) /\ SamePlace(q, placed[i]) /\ HoldsAfter(q, segments, n + 1)
      BY <1>5, <2>1, PlaceHolds DEF g
    <2> HIDE DEF q
    <2>3. Elf!PlaceSegment(placed, g)[i] = q
      BY <1>4, <1>6 DEF q
    <2> QED BY <1>5, <2>2, <2>3 DEF SamePlace
  <1>7. CASE i # m
    <2>1. Apart(regions[i], regions[m])
      BY <1>7 DEF Fresh
    <2>2. /\ placed[i].base = regions[i].base /\ placed[i].size = regions[i].size
          /\ placed[i].base \in Nat /\ placed[i].size \in Nat
      BY <1>5 DEF SamePlace, IsRegion
    <2>3. regions[m].base \in Nat /\ regions[m].size \in Nat
      BY DEF PlacedOK, SamePlace, IsRegion
    <2>4. ASSUME NEW o \in 0..placed[i].size - 1 PROVE ~Covers(g, placed[i].base + o)
      <3>1. /\ regions[i].base \in Nat /\ regions[i].size \in Nat
            /\ o \in Nat /\ o < regions[i].size
        BY <2>2
      <3>2. regions[m].base <= g.address /\ g.address + g.memory <= regions[m].base + regions[m].size
        BY <1>3 DEF Elf!Contains
      <3>3. \/ regions[i].base + o < g.address
            \/ g.address + g.memory <= regions[i].base + o
        <4>0. g.address \in Nat /\ g.memory \in Nat
          BY <1>0
        <4>1. CASE regions[i].base + regions[i].size <= regions[m].base
          BY <2>3, <3>1, <3>2, <4>0, <4>1
        <4>2. CASE regions[m].base + regions[m].size <= regions[i].base
          BY <2>3, <3>1, <3>2, <4>0, <4>2
        <4> QED BY <2>1, <4>1, <4>2 DEF Apart
      <3> QED BY <1>0, <2>2, <3>1, <3>3 DEF Covers
    <2>5. HoldsAfter(placed[i], segments, n + 1)
      BY <1>5, <2>4, PlacedElsewhere DEF g
    <2> QED BY <1>4, <1>5, <1>7, <2>5
  <1> QED BY <1>6, <1>7

LEMMA AllPlaced ==
    ASSUME NEW regions, Fresh(regions), NEW segments \in Seq(Segments),
           \A s \in DOMAIN segments : \E i \in DOMAIN regions : Elf!Matches(regions, segments[s]) = {i}
    PROVE  PlacedOK(Elf!PlacedAfter(regions, segments)[Len(segments)], regions, segments, Len(segments))
  <1> DEFINE N == Len(segments)
             after == Elf!PlacedAfter(regions, segments)
             S == {n \in Nat : n <= N => PlacedOK(after[n], regions, segments, n)}
  <1>0. N \in Nat
    OBVIOUS
  <1>1. 0 \in S
    BY PlacedAfterSteps, FreshIsPlaced
  <1>2. ASSUME NEW n \in Nat, n \in S PROVE n + 1 \in S
    <2> SUFFICES ASSUME n + 1 <= N PROVE PlacedOK(after[n + 1], regions, segments, n + 1)
      OBVIOUS
    <2>1. PlacedOK(after[n], regions, segments, n)
      BY <1>0, <1>2
    <2>2. n + 1 \in 1..N /\ n + 1 \in DOMAIN segments /\ (n + 1) - 1 = n
      BY <1>0
    <2>3. PICK m \in DOMAIN regions : Elf!Matches(regions, segments[n + 1]) = {m}
      BY <2>2
    <2>4. after[n + 1] = Elf!PlaceSegment(after[n], segments[n + 1])
      BY <2>2, PlacedAfterSteps
    <2> HIDE DEF after
    <2> QED BY <2>1, <2>3, <2>4, PlaceSegmentOK
  <1>3. N \in S
    <2> HIDE DEF S
    <2> QED BY <1>0, <1>1, <1>2, SetInduction
  <1> QED BY <1>0, <1>3

\* So a region holds what MemoryOf says, and zeros beyond what is used.
LEMMA PlacedIsMemory ==
    ASSUME NEW segments \in Seq(Segments), NEW r, IsRegion(r), HoldsAfter(r, segments, Len(segments)),
           NEW o \in 0..r.size - 1
    PROVE  /\ r.image[o] = Elf!MemoryOf(segments, r.base + o)
           /\ o >= r.used => r.image[o] = 0
  <1> DEFINE a == r.base + o
             D == DOMAIN segments
             last == CHOOSE s \in D : /\ Covers(segments[s], a)
                                      /\ \A t \in D : Covers(segments[t], a) => t <= s
  <1>0. D = 1..Len(segments) /\ Len(segments) \in Nat
    OBVIOUS
  <1>1. Elf!MemoryOf(segments, a) = IF ~\E s \in D : Covers(segments[s], a) THEN 0
                                    ELSE ByteIn(segments[last], a)
    BY DEF Elf!MemoryOf, Elf!Fill, Covers, ByteIn
  <1>2. ByteAfter(r, segments, Len(segments), o)
    BY DEF HoldsAfter
  <1>3. CASE \A s \in D : ~Covers(segments[s], a)
    BY <1>0, <1>1, <1>2, <1>3 DEF ByteAfter
  <1>4. CASE \E s \in D : Covers(segments[s], a)
    <2>1. PICK s \in D : /\ Covers(segments[s], a)
                         /\ \A t \in D : Covers(segments[t], a) => t <= s
                         /\ r.image[o] = ByteIn(segments[s], a)
      BY <1>0, <1>2, <1>4 DEF ByteAfter
    <2>2. /\ last \in D /\ Covers(segments[last], a)
          /\ \A t \in D : Covers(segments[t], a) => t <= last
      BY <2>1
    <2> HIDE DEF last
    <2>3. last = s
      BY <1>0, <2>1, <2>2
    <2>4. o < r.used
      BY <1>0, <2>1 DEF HoldsAfter
    <2>5. r.used \in Nat /\ o \in Nat
      BY DEF IsRegion
    <2> QED BY <1>1, <1>4, <2>1, <2>3, <2>4, <2>5
  <1> QED BY <1>3, <1>4

\* The word the program puts at an address.
WordOf(segments, a) == [b \in 0..3 |-> Elf!MemoryOf(segments, a + b)]

\* Words, lanes, banks and halves, by the number of the word.
LEMMA WordFits ==
    ASSUME NEW size \in Nat, NEW w \in 0..size \div 4 - 1
    PROVE  w \in Nat /\ 4 * w + 3 < size
  OBVIOUS

LEMMA LaneOfWord ==
    ASSUME NEW size \in Nat, size % 16 = 0, NEW w \in 0..size \div 4 - 1
    PROVE  /\ w % 4 \in 0..3 /\ w \div 4 \in 0..size \div 16 - 1
           /\ ((w \div 4) * 4 + (w % 4)) * 4 = 4 * w
  OBVIOUS

LEMMA BankOfWord ==
    ASSUME NEW size \in Nat, size % 32 = 0, NEW w \in 0..size \div 4 - 1
    PROVE  /\ w % 8 \in 0..7 /\ w \div 8 \in 0..size \div 32 - 1
           /\ ((w \div 8) * 8 + (w % 8)) * 4 = 4 * w
  OBVIOUS

LEMMA HalfOfWord ==
    ASSUME NEW size \in Nat, size % 8 = 0, NEW w \in 0..size \div 4 - 1
    PROVE  /\ w % 2 \in 0..1 /\ w \div 2 \in 0..size \div 8 - 1
           /\ (w \div 2) * 8 + (w % 2) * 4 = 4 * w
  OBVIOUS

LEMMA RowsOfWord ==
    ASSUME NEW w \in Nat
    PROVE  /\ (4 * w) \div 4 = w /\ (4 * w) \div 8 = w \div 2
           /\ (4 * w) \div 16 = w \div 4 /\ (4 * w) \div 32 = w \div 8
  OBVIOUS

LEMMA WordOfRegion ==
    ASSUME NEW segments \in Seq(Segments), NEW r, IsRegion(r), HoldsAfter(r, segments, Len(segments)),
           NEW w \in 0..r.size \div 4 - 1
    PROVE  /\ Elf!WordAt(r, 4 * w) = WordOf(segments, r.base + 4 * w)
           /\ 4 * w >= r.used => Elf!WordAt(r, 4 * w) = [b \in 0..3 |-> 0]
  <1>0. r.base \in Nat /\ r.size \in Nat /\ r.used \in Nat /\ DOMAIN r.image = 0..r.size - 1
    BY DEF IsRegion
  <1>1. w \in Nat /\ 4 * w + 3 < r.size
    BY <1>0, WordFits
  <1>2. ASSUME NEW b \in 0..3
        PROVE  /\ Elf!ByteOf(r, 4 * w + b) = Elf!MemoryOf(segments, (r.base + 4 * w) + b)
               /\ 4 * w >= r.used => Elf!ByteOf(r, 4 * w + b) = 0
    <2> DEFINE o == 4 * w + b
    <2>1. o \in 0..r.size - 1 /\ r.base + o = (r.base + 4 * w) + b
      <3>1. r.base \in Int /\ r.size \in Int /\ w \in Int /\ w >= 0 /\ b \in Int
        BY <1>0, <1>1
      <3>2. r.base + o = (r.base + 4 * w) + b
        BY <3>1
      <3>3. o >= 0 /\ o <= r.size - 1 /\ o \in Int
        BY <1>1, <3>1
      <3> QED BY <3>1, <3>2, <3>3
    <2>2. 4 * w >= r.used => o >= r.used
      BY <1>0, <1>1
    <2> HIDE DEF o
    <2>3. Elf!ByteOf(r, o) = r.image[o]
      BY <1>0, <2>1 DEF Elf!ByteOf
    <2>4. /\ r.image[o] = Elf!MemoryOf(segments, r.base + o)
          /\ o >= r.used => r.image[o] = 0
      BY <2>1, PlacedIsMemory
    <2>5. Elf!ByteOf(r, o) = Elf!MemoryOf(segments, (r.base + 4 * w) + b)
      BY <2>1, <2>3, <2>4
    <2> QED BY <2>2, <2>3, <2>4, <2>5 DEF o
  <1>3. Elf!WordAt(r, 4 * w) = [b \in 0..3 |-> Elf!ByteOf(r, 4 * w + b)]
    BY DEF Elf!WordAt, Elf!WordBytes
  <1> QED BY <1>2, <1>3 DEF WordOf

\* The flat file has a word at its own number, and with --trim ends after the last byte used.
LEMMA FlatFile ==
    ASSUME NEW r, IsRegion(r), NEW trim \in BOOLEAN, NEW w \in 0..r.size \div 4 - 1
    PROVE  IF w \in DOMAIN Elf!WordMem(r, trim) THEN Elf!WordMem(r, trim)[w] = Elf!WordAt(r, 4 * w)
           ELSE trim /\ 4 * w >= r.used
  <1>0. r.size \in Nat /\ r.used \in Nat
    BY DEF IsRegion
  <1>1. w \in Nat /\ w * 4 = 4 * w /\ 4 * w < r.size
    BY <1>0, WordFits
  <1>2. w \in DOMAIN Elf!WordMem(r, trim) <=> w < Elf!StoredBytes(r, trim) \div 4
    <2>1. Elf!StoredBytes(r, trim) \in Nat
      BY <1>0 DEF Elf!StoredBytes, Elf!RoundUp, Elf!WordBytes
    <2> QED BY <1>1, <2>1 DEF Elf!WordMem, Elf!WordBytes
  <1>3. CASE w \in DOMAIN Elf!WordMem(r, trim)
    BY <1>1, <1>3 DEF Elf!WordMem, Elf!WordBytes
  <1>4. CASE w \notin DOMAIN Elf!WordMem(r, trim)
    <2>1. ~(w < Elf!StoredBytes(r, trim) \div 4)
      BY <1>2, <1>4
    <2>2. trim
      <3>1. w < (((r.size + 3) \div 4) * 4) \div 4
        BY <1>0, <1>1
      <3> QED BY <2>1, <3>1 DEF Elf!StoredBytes, Elf!RoundUp, Elf!WordBytes
    <2> DEFINE rounded == ((r.used + 3) \div 4) * 4
    <2>3. rounded \in Nat /\ rounded >= r.used /\ rounded % 4 = 0
      BY <1>0
    <2>4. Elf!StoredBytes(r, trim) = IF rounded < 4 THEN 4 ELSE rounded
      BY <2>2 DEF Elf!StoredBytes, Elf!RoundUp, Elf!WordBytes
    <2> HIDE DEF rounded
    <2>5. 4 * w >= rounded
      BY <1>1, <2>1, <2>3, <2>4
    <2> QED BY <1>0, <1>1, <1>4, <2>2, <2>3, <2>5
  <1> QED BY <1>3, <1>4

\* A bank of write_interleaved_banks has in its row what the address of that row reads.
LEMMA BankedFile ==
    ASSUME NEW r, r.size \in Nat, NEW w \in 0..r.size \div 4 - 1
    PROVE  /\ \A lanes : Elf!InterleavedBanks(r, 4) = Elf!Accept(lanes) =>
                 lanes[w % 4][w \div 4] = Elf!WordAt(r, 4 * w)
           /\ \A banks : Elf!InterleavedBanks(r, 8) = Elf!Accept(banks) =>
                 banks[w % 8][w \div 8] = Elf!WordAt(r, 4 * w)
  <1>1. ASSUME NEW lanes, Elf!InterleavedBanks(r, 4) = Elf!Accept(lanes)
        PROVE  lanes[w % 4][w \div 4] = Elf!WordAt(r, 4 * w)
    <2>1. /\ r.size % 16 = 0
          /\ lanes = [bank \in 0..3 |-> [row \in 0..r.size \div 16 - 1 |->
                                           Elf!WordAt(r, (row * 4 + bank) * 4)]]
      BY <1>1 DEF Elf!InterleavedBanks, Elf!Accept, Elf!Refused, Elf!WordBytes, Elf!BankOffset
    <2>2. /\ w % 4 \in 0..3 /\ w \div 4 \in 0..r.size \div 16 - 1
          /\ ((w \div 4) * 4 + (w % 4)) * 4 = 4 * w
      BY <2>1, LaneOfWord
    <2>3. lanes[w % 4][w \div 4] = Elf!WordAt(r, ((w \div 4) * 4 + (w % 4)) * 4)
      BY <2>1, <2>2
    <2> QED BY <2>2, <2>3
  <1>2. ASSUME NEW banks, Elf!InterleavedBanks(r, 8) = Elf!Accept(banks)
        PROVE  banks[w % 8][w \div 8] = Elf!WordAt(r, 4 * w)
    <2>1. /\ r.size % 32 = 0
          /\ banks = [bank \in 0..7 |-> [row \in 0..r.size \div 32 - 1 |->
                                           Elf!WordAt(r, (row * 8 + bank) * 4)]]
      BY <1>2 DEF Elf!InterleavedBanks, Elf!Accept, Elf!Refused, Elf!WordBytes, Elf!BankOffset
    <2>2. /\ w % 8 \in 0..7 /\ w \div 8 \in 0..r.size \div 32 - 1
          /\ ((w \div 8) * 8 + (w % 8)) * 4 = 4 * w
      BY <2>1, BankOfWord
    <2>3. banks[w % 8][w \div 8] = Elf!WordAt(r, ((w \div 8) * 8 + (w % 8)) * 4)
      BY <2>1, <2>2
    <2> QED BY <2>2, <2>3
  <1> QED BY <1>1, <1>2

\* The same for the two halves of write_instruction_banks.
LEMMA HalvedFile ==
    ASSUME NEW r, r.size \in Nat, NEW w \in 0..r.size \div 4 - 1, NEW halves,
           Elf!InstructionBanks(r) = Elf!Accept(halves)
    PROVE  halves[w % 2][w \div 2] = Elf!WordAt(r, 4 * w)
  <1>1. /\ r.size % 8 = 0
        /\ halves = [half \in 0..1 |-> [row \in 0..r.size \div 8 - 1 |->
                                           Elf!WordAt(r, row * 8 + half * 4)]]
    BY DEF Elf!InstructionBanks, Elf!Accept, Elf!Refused
  <1>2. /\ w % 2 \in 0..1 /\ w \div 2 \in 0..r.size \div 8 - 1
        /\ (w \div 2) * 8 + (w % 2) * 4 = 4 * w
    BY <1>1, HalfOfWord
  <1>3. halves[w % 2][w \div 2] = Elf!WordAt(r, (w \div 2) * 8 + (w % 2) * 4)
    BY <1>1, <1>2
  <1> QED BY <1>2, <1>3

\* What convert makes of the regions it has placed the segments in.
LEMMA ConvertFiles ==
    ASSUME NEW elf, NEW segments \in Seq(Segments), Elf!ParseElf(elf) = Elf!Accept(segments),
           NEW regions, NEW trim \in BOOLEAN, NEW asked \in SUBSET {"halves", "lanes", "banks"},
           NEW files, Elf!Convert(elf, regions, trim, asked) = Elf!Accept(files)
    PROVE  LET placed == Elf!PlacedAfter(regions, segments)[Len(segments)]
           IN  /\ \A s \in DOMAIN segments :
                     \E i \in DOMAIN regions : Elf!Matches(regions, segments[s]) = {i}
               /\ files.flat = [i \in DOMAIN regions |-> Elf!WordMem(placed[i], trim)]
               /\ "halves" \in asked =>
                     Elf!InstructionBanks(placed[1]) = Elf!Accept(files.split["halves"])
               /\ "lanes" \in asked =>
                     Elf!InterleavedBanks(placed[1], 4) = Elf!Accept(files.split["lanes"])
               /\ "banks" \in asked =>
                     Elf!InterleavedBanks(placed[2], 8) = Elf!Accept(files.split["banks"])
  <1> DEFINE placed == Elf!PlacedAfter(regions, segments)[Len(segments)]
             all    == Elf!PlaceAll(regions, segments)
             made(name) == CASE name = "halves" -> Elf!InstructionBanks(all[1][1])
                             [] name = "lanes"  -> Elf!InterleavedBanks(all[1][1], 4)
                             [] name = "banks"  -> Elf!InterleavedBanks(all[1][2], 8)
  <1>1. Elf!Accept(segments) # Elf!Refused /\ Elf!Accept(segments)[1] = segments
    BY DEF Elf!Accept, Elf!Refused
  <1>2. Elf!Convert(elf, regions, trim, asked) =
           IF all = Elf!Refused \/ \E name \in asked : made(name) = Elf!Refused
           THEN Elf!Refused
           ELSE Elf!Accept([flat  |-> [i \in DOMAIN regions |-> Elf!WordMem(all[1][i], trim)],
                            split |-> [name \in asked |-> made(name)[1]]])
    BY <1>1 DEF Elf!Convert, Elf!IccmLanes, Elf!DccmBanks
  <1> HIDE DEF made, all
  <1>3. /\ all # Elf!Refused /\ \A name \in asked : made(name) # Elf!Refused
        /\ files = [flat  |-> [i \in DOMAIN regions |-> Elf!WordMem(all[1][i], trim)],
                    split |-> [name \in asked |-> made(name)[1]]]
    BY <1>2 DEF Elf!Accept, Elf!Refused
  <1>4. /\ \A s \in DOMAIN segments : \E i \in DOMAIN regions : Elf!Matches(regions, segments[s]) = {i}
        /\ all = <<placed>>
    BY <1>3 DEF all, Elf!PlaceAll, Elf!Accept
  <1>5. all[1] = placed
    BY <1>4
  <1> HIDE DEF placed
  <1>6. \A name \in asked : files.split[name] = made(name)[1]
    BY <1>3
  <1>7. "halves" \in asked => Elf!InstructionBanks(placed[1]) = Elf!Accept(files.split["halves"])
    <2>1. Elf!InstructionBanks(placed[1]) \in {Elf!Refused, Elf!Accept(Elf!InstructionBanks(placed[1])[1])}
      BY DEF Elf!InstructionBanks, Elf!Accept
    <2> QED BY <1>3, <1>5, <1>6, <2>1 DEF made
  <1>8. "lanes" \in asked => Elf!InterleavedBanks(placed[1], 4) = Elf!Accept(files.split["lanes"])
    <2>1. Elf!InterleavedBanks(placed[1], 4) \in
             {Elf!Refused, Elf!Accept(Elf!InterleavedBanks(placed[1], 4)[1])}
      BY DEF Elf!InterleavedBanks, Elf!Accept
    <2> QED BY <1>3, <1>5, <1>6, <2>1 DEF made
  <1>9. "banks" \in asked => Elf!InterleavedBanks(placed[2], 8) = Elf!Accept(files.split["banks"])
    <2>1. Elf!InterleavedBanks(placed[2], 8) \in
             {Elf!Refused, Elf!Accept(Elf!InterleavedBanks(placed[2], 8)[1])}
      BY DEF Elf!InterleavedBanks, Elf!Accept
    <2> QED BY <1>3, <1>5, <1>6, <2>1 DEF made
  <1> QED BY <1>3, <1>4, <1>5, <1>7, <1>8, <1>9 DEF placed

\* elf2mem.py and the memories of the RTL, for every program, every size and place of the two
\* memories and every choice of files: the processor reads, through the flat files (trimmed or
\* not), the halves, the lanes and the banks, at every address what the ELF puts there.
THEOREM WrittenImageIsTheProgram ==
    ASSUME NEW elf, NEW segments \in Seq(Segments), Elf!ParseElf(elf) = Elf!Accept(segments),
           NEW regions, DOMAIN regions = {1, 2}, Fresh(regions),
           NEW trim \in BOOLEAN, NEW asked \in SUBSET {"halves", "lanes", "banks"},
           NEW files, Elf!Convert(elf, regions, trim, asked) = Elf!Accept(files)
    PROVE  /\ \A r \in {1, 2} : \A w \in 0..regions[r].size \div 4 - 1 :
                 LET word == WordOf(segments, regions[r].base + 4 * w)
                 IN  IF w \in DOMAIN files.flat[r] THEN files.flat[r][w] = word
                     ELSE trim /\ word = [b \in 0..3 |-> 0]
           /\ \A w \in 0..regions[1].size \div 4 - 1 :
                 LET word == WordOf(segments, regions[1].base + 4 * w)
                 IN  /\ "lanes" \in asked => Elf!IccmRead(files.split["lanes"], 4 * w) = word
                     /\ "halves" \in asked =>
                           files.split["halves"][((4 * w) \div 4) % 2][(4 * w) \div 8] = word
           /\ "banks" \in asked =>
                 \A w \in 0..regions[2].size \div 4 - 1 :
                    Elf!DccmRead(files.split["banks"], 4 * w) = WordOf(segments, regions[2].base + 4 * w)
  <1> DEFINE placed == Elf!PlacedAfter(regions, segments)[Len(segments)]
  <1>1. /\ \A s \in DOMAIN segments : \E i \in DOMAIN regions : Elf!Matches(regions, segments[s]) = {i}
        /\ files.flat = [i \in DOMAIN regions |-> Elf!WordMem(placed[i], trim)]
        /\ "halves" \in asked => Elf!InstructionBanks(placed[1]) = Elf!Accept(files.split["halves"])
        /\ "lanes" \in asked => Elf!InterleavedBanks(placed[1], 4) = Elf!Accept(files.split["lanes"])
        /\ "banks" \in asked => Elf!InterleavedBanks(placed[2], 8) = Elf!Accept(files.split["banks"])
    BY SMTT(40), ConvertFiles
  <1>2. PlacedOK(placed, regions, segments, Len(segments))
    BY <1>1, AllPlaced
  <1> HIDE DEF placed
  <1>3. ASSUME NEW r \in {1, 2}, NEW w \in 0..regions[r].size \div 4 - 1
        PROVE  /\ IsRegion(placed[r]) /\ w \in 0..placed[r].size \div 4 - 1 /\ placed[r].size \in Nat
               /\ Elf!WordAt(placed[r], 4 * w) = WordOf(segments, regions[r].base + 4 * w)
               /\ 4 * w >= placed[r].used =>
                     WordOf(segments, regions[r].base + 4 * w) = [b \in 0..3 |-> 0]
    <2>1. /\ IsRegion(placed[r]) /\ HoldsAfter(placed[r], segments, Len(segments))
          /\ placed[r].base = regions[r].base /\ placed[r].size = regions[r].size
      BY <1>2 DEF PlacedOK, SamePlace
    <2>2. w \in 0..placed[r].size \div 4 - 1 /\ placed[r].size \in Nat
      BY <2>1 DEF IsRegion
    <2>3. /\ Elf!WordAt(placed[r], 4 * w) = WordOf(segments, placed[r].base + 4 * w)
          /\ 4 * w >= placed[r].used => Elf!WordAt(placed[r], 4 * w) = [b \in 0..3 |-> 0]
      BY <2>1, <2>2, WordOfRegion
    <2> QED BY <2>1, <2>2, <2>3
  <1>4. ASSUME NEW r \in {1, 2}, NEW w \in 0..regions[r].size \div 4 - 1
        PROVE  LET word == WordOf(segments, regions[r].base + 4 * w)
               IN  IF w \in DOMAIN files.flat[r] THEN files.flat[r][w] = word
                   ELSE trim /\ word = [b \in 0..3 |-> 0]
    <2>1. files.flat[r] = Elf!WordMem(placed[r], trim)
      BY <1>1
    <2>2. IF w \in DOMAIN files.flat[r] THEN files.flat[r][w] = Elf!WordAt(placed[r], 4 * w)
          ELSE trim /\ 4 * w >= placed[r].used
      BY <1>3, <2>1, FlatFile
    <2> QED BY <1>3, <2>2
  <1>5. ASSUME NEW w \in 0..regions[1].size \div 4 - 1, "lanes" \in asked
        PROVE  Elf!IccmRead(files.split["lanes"], 4 * w) = WordOf(segments, regions[1].base + 4 * w)
    <2>1. w \in Nat /\ (4 * w) \div 4 = w /\ (4 * w) \div 16 = w \div 4
      BY RowsOfWord
    <2>2. files.split["lanes"][w % 4][w \div 4] = Elf!WordAt(placed[1], 4 * w)
      <3>1. w \in 0..placed[1].size \div 4 - 1 /\ placed[1].size \in Nat
        BY <1>3
      <3>2. Elf!InterleavedBanks(placed[1], 4) = Elf!Accept(files.split["lanes"])
        BY <1>1, <1>5
      <3> QED BY <3>1, <3>2, BankedFile
    <2> QED BY <1>3, <2>1, <2>2 DEF Elf!IccmRead, Elf!IccmLanes
  <1>6. ASSUME NEW w \in 0..regions[1].size \div 4 - 1, "halves" \in asked
        PROVE  files.split["halves"][((4 * w) \div 4) % 2][(4 * w) \div 8] =
                  WordOf(segments, regions[1].base + 4 * w)
    <2>1. w \in Nat /\ (4 * w) \div 4 = w /\ (4 * w) \div 8 = w \div 2
      BY RowsOfWord
    <2>2. files.split["halves"][w % 2][w \div 2] = Elf!WordAt(placed[1], 4 * w)
      <3>1. w \in 0..placed[1].size \div 4 - 1 /\ placed[1].size \in Nat
        BY <1>3
      <3>2. Elf!InstructionBanks(placed[1]) = Elf!Accept(files.split["halves"])
        BY <1>1, <1>6
      <3> QED BY <3>1, <3>2, HalvedFile
    <2> QED BY <1>3, <2>1, <2>2
  <1>7. ASSUME NEW w \in 0..regions[2].size \div 4 - 1, "banks" \in asked
        PROVE  Elf!DccmRead(files.split["banks"], 4 * w) = WordOf(segments, regions[2].base + 4 * w)
    <2>1. w \in Nat /\ (4 * w) \div 4 = w /\ (4 * w) \div 32 = w \div 8
      BY RowsOfWord
    <2>2. files.split["banks"][w % 8][w \div 8] = Elf!WordAt(placed[2], 4 * w)
      <3>1. w \in 0..placed[2].size \div 4 - 1 /\ placed[2].size \in Nat
        BY <1>3
      <3>2. Elf!InterleavedBanks(placed[2], 8) = Elf!Accept(files.split["banks"])
        BY <1>1, <1>7
      <3> QED BY <3>1, <3>2, BankedFile
    <2> QED BY <1>3, <2>1, <2>2 DEF Elf!DccmRead, Elf!DccmBanks
  <1> QED BY <1>4, <1>5, <1>6, <1>7

\* ElfImage counts as this module does.
LEMMA ElfCounts ==
    ASSUME NEW S
    PROVE  Elf!Cardinality(S) = Cardinality(S)
  BY DEF Elf!Cardinality, Cardinality, Elf!IsFiniteSet, IsFiniteSet

\* The words of a flat file that read_flat_mem accepts are those of the whole memory.
LEMMA WholeFile ==
    ASSUME NEW r, IsRegion(r), NEW trim \in BOOLEAN, NEW words,
           Elf!ReadFlatMem(Elf!WordMem(r, trim), r.size \div 4) = Elf!Accept(words)
    PROVE  words = [w \in 0..r.size \div 4 - 1 |-> Elf!WordAt(r, w * 4)]
  <1> DEFINE n == Elf!StoredBytes(r, trim) \div 4
  <1>0. r.size \in Nat /\ r.used \in Nat
    BY DEF IsRegion
  <1>1. n \in Nat
    BY <1>0 DEF Elf!StoredBytes, Elf!RoundUp, Elf!WordBytes
  <1>2. Elf!WordMem(r, trim) = [w \in 0..n - 1 |-> Elf!WordAt(r, w * 4)]
    BY DEF Elf!WordMem, Elf!WordBytes
  <1> HIDE DEF n
  <1>3. DOMAIN Elf!WordMem(r, trim) = 0..n - 1
    BY <1>2
  <1>4. Cardinality(0..n - 1) = n
    BY <1>1, FS_Interval
  <1>5. words = Elf!WordMem(r, trim) /\ n = r.size \div 4
    <2> DEFINE file == Elf!WordMem(r, trim)
    <2>1. Elf!Cardinality(DOMAIN file) = n
      BY <1>3, <1>4, ElfCounts
    <2>2. Elf!ReadFlatMem(file, r.size \div 4) = IF n = r.size \div 4 THEN <<file>> ELSE <<>>
      BY <2>1 DEF Elf!ReadFlatMem, Elf!Accept, Elf!Refused
    <2> HIDE DEF file
    <2>3. Elf!ReadFlatMem(file, r.size \div 4) = <<words>>
      BY DEF file, Elf!Accept
    <2>4. n = r.size \div 4 /\ <<file>> = <<words>>
      BY <2>2, <2>3
    <2> QED BY <2>4 DEF file
  <1> QED BY <1>2, <1>5

\* patch_bitstream.py, for every image: what it splits a flat file into, and writes into the
\* memories of a bitstream, is what elf2mem.py writes for a build, lane by lane and bank by
\* bank; so a patched bitstream starts the program a build from scratch would start.  A
\* trimmed file passes only when nothing was trimmed.
THEOREM PatchedIsAsBuilt ==
    ASSUME NEW r, IsRegion(r), NEW trim \in BOOLEAN, NEW words,
           Elf!ReadFlatMem(Elf!WordMem(r, trim), r.size \div 4) = Elf!Accept(words)
    PROVE  /\ r.size % 16 = 0 =>
                 Elf!InterleavedBanks(r, 4) = Elf!Accept(Elf!SplitWords(words, r.size \div 4, 4))
           /\ r.size % 32 = 0 =>
                 Elf!InterleavedBanks(r, 8) = Elf!Accept(Elf!SplitWords(words, r.size \div 4, 8))
  <1>0. r.size \in Nat
    BY DEF IsRegion
  <1>1. words = [w \in 0..r.size \div 4 - 1 |-> Elf!WordAt(r, w * 4)]
    BY WholeFile
  <1>2. ASSUME r.size % 16 = 0
        PROVE  Elf!InterleavedBanks(r, 4) = Elf!Accept(Elf!SplitWords(words, r.size \div 4, 4))
    <2> DEFINE depth == r.size \div 16
    <2>1. (r.size \div 4) \div 4 = depth
      BY <1>0
    <2>2. ASSUME NEW way \in 0..3, NEW row \in 0..depth - 1
          PROVE  words[row * 4 + way] = Elf!WordAt(r, (row * 4 + way) * 4)
      <3>1. row * 4 + way \in 0..r.size \div 4 - 1
        BY <1>0, <1>2
      <3> QED BY <1>1, <3>1
    <2>3. Elf!InterleavedBanks(r, 4) =
             Elf!Accept([bank \in 0..3 |-> [row \in 0..depth - 1 |-> Elf!WordAt(r, (row * 4 + bank) * 4)]])
      BY <1>2 DEF Elf!InterleavedBanks, Elf!WordBytes, Elf!BankOffset
    <2> HIDE DEF depth
    <2>4. Elf!SplitWords(words, r.size \div 4, 4) =
             [way \in 0..3 |-> [row \in 0..depth - 1 |-> words[row * 4 + way]]]
      BY <2>1 DEF Elf!SplitWords
    <2> QED BY <2>2, <2>3, <2>4
  <1>3. ASSUME r.size % 32 = 0
        PROVE  Elf!InterleavedBanks(r, 8) = Elf!Accept(Elf!SplitWords(words, r.size \div 4, 8))
    <2> DEFINE depth == r.size \div 32
    <2>1. (r.size \div 4) \div 8 = depth
      BY <1>0
    <2>2. ASSUME NEW way \in 0..7, NEW row \in 0..depth - 1
          PROVE  words[row * 8 + way] = Elf!WordAt(r, (row * 8 + way) * 4)
      <3>1. row * 8 + way \in 0..r.size \div 4 - 1
        BY <1>0, <1>3
      <3> QED BY <1>1, <3>1
    <2>3. Elf!InterleavedBanks(r, 8) =
             Elf!Accept([bank \in 0..7 |-> [row \in 0..depth - 1 |-> Elf!WordAt(r, (row * 8 + bank) * 4)]])
      BY <1>3 DEF Elf!InterleavedBanks, Elf!WordBytes, Elf!BankOffset
    <2> HIDE DEF depth
    <2>4. Elf!SplitWords(words, r.size \div 4, 8) =
             [way \in 0..7 |-> [row \in 0..depth - 1 |-> words[row * 8 + way]]]
      BY <2>1 DEF Elf!SplitWords
    <2> QED BY <2>2, <2>3, <2>4
  <1> QED BY <1>2, <1>3

-----------------------------------------------------------------------------
(***************************************************************************)
(* generate_manual_mmi.py: the block RAMs of every placed design that is   *)
(* accepted, at every row.                                                 *)
(***************************************************************************)
LEMMA BramCounts ==
    ASSUME NEW S
    PROVE  Bram!Cardinality(S) = Cardinality(S)
  BY DEF Bram!Cardinality, Cardinality, Bram!IsFiniteSet, IsFiniteSet

\* As many values as places: no value twice.
LEMMA NoValueTwice ==
    ASSUME NEW N \in Nat, NEW f, f = [i \in 1..N |-> f[i]], Cardinality({f[i] : i \in 1..N}) = N
    PROVE  \A i, j \in 1..N : f[i] = f[j] => i = j
  <1> DEFINE T == {f[i] : i \in 1..N}
  <1>1. IsFiniteSet(1..N) /\ Cardinality(1..N) = N
    BY FS_Interval
  <1>2. f \in [1..N -> T] /\ \A t \in T : \E i \in 1..N : f[i] = t
    OBVIOUS
  <1>3. f \in Surjection(1..N, T)
    BY <1>2 DEF Surjection
  <1> HIDE DEF T
  <1>4. Cardinality(T) = N
    BY DEF T
  <1>5. f \in Injection(1..N, T)
    BY <1>1, <1>3, <1>4, FS_SurjSameCardinalityImpliesInj
  <1> QED BY <1>2, <1>5 DEF Injection, IsInjective

\* The slots, numbered.
Number(slot) == IF slot[1] = "iccm" THEN 8 * slot[2] + slot[3] + 1 ELSE 32 + 2 * slot[2] + slot[3] + 1

LEMMA SlotNumbers ==
    /\ \A slot \in Bram!Slots : Number(slot) \in 1..48
    /\ \A k \in 1..48 : \E slot \in Bram!Slots : Number(slot) = k
  <1>1. ASSUME NEW slot \in Bram!Slots PROVE Number(slot) \in 1..48
    <2>1. CASE slot \in Bram!IccmSlots
      <3>1. PICK lane \in 0..3, slice \in 0..7 : slot = <<"iccm", lane, slice>>
        BY <2>1 DEF Bram!IccmSlots, Bram!Lanes
      <3> QED BY <3>1 DEF Number
    <2>2. CASE slot \in Bram!DccmSlots
      <3>1. PICK bank \in 0..7, slice \in 0..1 : slot = <<"dccm", bank, slice>>
        BY <2>2 DEF Bram!DccmSlots, Bram!Banks
      <3>2. slot[1] # "iccm" /\ slot[2] = bank /\ slot[3] = slice
        BY <3>1
      <3> QED BY <3>2 DEF Number
    <2> QED BY <2>1, <2>2 DEF Bram!Slots
  <1>2. ASSUME NEW k \in 1..48 PROVE \E slot \in Bram!Slots : Number(slot) = k
    <2>1. CASE k <= 32
      <3> DEFINE slot == <<"iccm", (k - 1) \div 8, (k - 1) % 8>>
      <3>1. (k - 1) \div 8 \in 0..3 /\ (k - 1) % 8 \in 0..7 /\ 8 * ((k - 1) \div 8) + ((k - 1) % 8) + 1 = k
        BY <2>1
      <3>2. slot \in Bram!Slots
        BY <3>1 DEF Bram!Slots, Bram!IccmSlots, Bram!Lanes
      <3>3. Number(slot) = k
        BY <3>1 DEF Number
      <3> QED BY <3>2, <3>3
    <2>2. CASE k > 32
      <3> DEFINE slot == <<"dccm", (k - 33) \div 2, (k - 33) % 2>>
      <3>1. /\ (k - 33) \div 2 \in 0..7 /\ (k - 33) % 2 \in 0..1
            /\ 32 + 2 * ((k - 33) \div 2) + ((k - 33) % 2) + 1 = k
        BY <2>2
      <3>2. slot \in Bram!Slots
        BY <3>1 DEF Bram!Slots, Bram!DccmSlots, Bram!Banks
      <3>3. Number(slot) = k
        BY <3>1 DEF Number
      <3> QED BY <3>2, <3>3
    <2> QED BY <2>1, <2>2
  <1> QED BY <1>1, <1>2

\* 48 block RAMs fill 48 slots, so each slot has one, and no two are in one place.
LEMMA OneBramEach ==
    ASSUME NEW B, NEW brams \in Seq(B), Bram!Classified(brams)
    PROVE  /\ DOMAIN brams = 1..48
           /\ \A slot \in Bram!Slots : \E i \in 1..48 : brams[i].cell.slot = slot
           /\ \A i, j \in 1..48 : brams[i].cell.slot = brams[j].cell.slot => i = j
           /\ \A i, j \in 1..48 : brams[i].loc = brams[j].loc => i = j
  <1>1. Len(brams) = 48 /\ DOMAIN brams = 1..48
    BY DEF Bram!Classified
  <1>2. \A i \in 1..48 : brams[i].cell.slot \in Bram!Slots
    BY <1>1 DEF Bram!Classified
  <1>3. \A slot \in Bram!Slots : \E i \in 1..48 : brams[i].cell.slot = slot
    <2> SUFFICES ASSUME NEW slot \in Bram!Slots PROVE \E i \in 1..48 : brams[i].cell.slot = slot
      OBVIOUS
    <2>1. PICK i : i \in Bram!InSlot(brams, slot)
      BY DEF Bram!Classified
    <2>2. i \in DOMAIN brams /\ brams[i].cell.slot = slot
      BY <2>1 DEF Bram!InSlot
    <2> QED BY <1>1, <2>2
  <1>4. \A i, j \in 1..48 : brams[i].cell.slot = brams[j].cell.slot => i = j
    <2> DEFINE number == [i \in 1..48 |-> Number(brams[i].cell.slot)]
    <2>1. {number[i] : i \in 1..48} = 1..48
      <3>1. \A i \in 1..48 : number[i] \in 1..48
        BY <1>2, SlotNumbers
      <3>2. \A k \in 1..48 : \E i \in 1..48 : number[i] = k
        <4> SUFFICES ASSUME NEW k \in 1..48 PROVE \E i \in 1..48 : number[i] = k
          OBVIOUS
        <4>1. PICK slot \in Bram!Slots : Number(slot) = k
          BY SlotNumbers
        <4>2. PICK i \in 1..48 : brams[i].cell.slot = slot
          BY <1>3
        <4>3. number[i] = k
          BY <4>1, <4>2
        <4> QED BY <4>3
      <3> HIDE DEF number
      <3> QED BY <3>1, <3>2
    <2>2. number = [i \in 1..48 |-> number[i]]
      OBVIOUS
    <2> HIDE DEF number
    <2>3. PICK N \in Nat : N = 48
      OBVIOUS
    <2>4. Cardinality(1..N) = N
      BY FS_Interval
    <2>5. \A i, j \in 1..N : number[i] = number[j] => i = j
      <3>1. number = [i \in 1..N |-> number[i]] /\ {number[i] : i \in 1..N} = 1..N
        BY <2>1, <2>2, <2>3
      <3> QED BY <2>4, <3>1, NoValueTwice
    <2> QED BY <2>3, <2>5 DEF number
  <1>5. \A i, j \in 1..48 : brams[i].loc = brams[j].loc => i = j
    <2> DEFINE loc == [i \in 1..48 |-> brams[i].loc]
    <2>1. {loc[i] : i \in 1..48} = {brams[i].loc : i \in DOMAIN brams}
      BY <1>1
    <2>2. Cardinality({loc[i] : i \in 1..48}) = 48
      BY <1>1, <2>1, BramCounts DEF Bram!Classified
    <2>3. loc = [i \in 1..48 |-> loc[i]]
      OBVIOUS
    <2> HIDE DEF loc
    <2>4. PICK N \in Nat : N = 48
      OBVIOUS
    <2>5. \A i, j \in 1..N : loc[i] = loc[j] => i = j
      <3>1. loc = [i \in 1..N |-> loc[i]] /\ Cardinality({loc[i] : i \in 1..N}) = N
        BY <2>2, <2>3, <2>4
      <3> QED BY <3>1, NoValueTwice
    <2> QED BY <2>4, <2>5 DEF loc
  <1> QED BY <1>1, <1>3, <1>4, <1>5

\* The rows of the two kinds of memories, and the bits of a row.
IccmRowSet == 0..Bram!IccmRows - 1
DccmRowSet == 0..Bram!DccmRows - 1
BitSet     == 0..31

\* Block RAM e of a layout has this bit of this row, and only one of them does.
HasBit(e, row, bit) == e.begin <= row /\ row <= e.end /\ e.lsb <= bit /\ bit <= e.msb
InOne(layout, row, bit) ==
    \E e \in layout : HasBit(e, row, bit) /\ \A f \in layout : HasBit(f, row, bit) => f = e

LEMMA FamiliesDiffer == Bram!IccmUltraScale # Bram!Iccm7Series
  <1>1. Bram!Iccm7Series[0].width = 4 /\ Bram!IccmUltraScale[0].width = 18
    BY DEF Bram!Iccm7Series, Bram!IccmUltraScale, Bram!Shape
  <1> QED BY <1>1

\* The fields of an entry.
LEMMA EntryFields ==
    ASSUME NEW slot, NEW lsb, NEW msb, NEW begin, NEW end
    PROVE  LET e == Bram!AddBram(slot, lsb, msb, begin, end)
           IN  e.slot = slot /\ e.lsb = lsb /\ e.msb = msb /\ e.begin = begin /\ e.end = end
  BY DEF Bram!AddBram

\* Which four bits, which quarter and which half of the rows.
LEMMA FourBits ==
    ASSUME NEW bit \in 0..31, NEW s \in 0..7
    PROVE  s * 4 <= bit /\ bit <= s * 4 + 3 <=> s = bit \div 4
  OBVIOUS

LEMMA RowRanges ==
    ASSUME NEW row \in 0..8191
    PROVE  /\ \E q \in 0..3 : \A s \in 0..3 :
                 s * 2048 <= row /\ row <= s * 2048 + 2047 <=> s = q
           /\ \E h \in 4..5 : \A s \in 4..5 :
                 (s - 4) * 4096 <= row /\ row <= (s - 4) * 4096 + 4095 <=> s = h
  <1>1. \E q \in 0..3 : q * 2048 <= row /\ row <= q * 2048 + 2047
    OBVIOUS
  <1>2. \E h \in 4..5 : (h - 4) * 4096 <= row /\ row <= (h - 4) * 4096 + 4095
    OBVIOUS
  <1>3. ASSUME NEW q \in 0..3, q * 2048 <= row, row <= q * 2048 + 2047, NEW s \in 0..3
        PROVE  s * 2048 <= row /\ row <= s * 2048 + 2047 <=> s = q
    BY <1>3
  <1>4. ASSUME NEW h \in 4..5, (h - 4) * 4096 <= row, row <= (h - 4) * 4096 + 4095, NEW s \in 4..5
        PROVE  (s - 4) * 4096 <= row /\ row <= (s - 4) * 4096 + 4095 <=> s = h
    BY <1>4
  <1> QED BY <1>1, <1>2, <1>3, <1>4

LEMMA Lane7BitsOnce ==
    ASSUME NEW lane
    PROVE  \A row \in IccmRowSet, bit \in BitSet : InOne(Bram!LaneLayout(Bram!Iccm7Series, lane), row, bit)
  <1> TAKE row \in IccmRowSet, bit \in BitSet
  <1>0. row \in 0..8191 /\ bit \in 0..31
    BY DEF IccmRowSet, BitSet, Bram!IccmRows
  <1> DEFINE E(s) == Bram!AddBram(<<"iccm", lane, s>>, s * 4, s * 4 + 3, 0, 8191)
             layout == {E(s) : s \in 0..7}
  <1>1. Bram!LaneLayout(Bram!Iccm7Series, lane) = layout
    BY DEF Bram!LaneLayout
  <1>2. ASSUME NEW s \in 0..7 PROVE HasBit(E(s), row, bit) <=> s = bit \div 4
    <2>1. E(s).lsb = s * 4 /\ E(s).msb = s * 4 + 3 /\ E(s).begin = 0 /\ E(s).end = 8191
      BY EntryFields
    <2> HIDE DEF E
    <2>2. HasBit(E(s), row, bit) <=> s * 4 <= bit /\ bit <= s * 4 + 3
      BY <1>0, <2>1 DEF HasBit
    <2> QED BY <1>0, <2>2, FourBits
  <1>3. bit \div 4 \in 0..7
    BY <1>0
  <1> HIDE DEF E
  <1> QED BY <1>1, <1>2, <1>3 DEF InOne

LEMMA LaneUltraBitsOnce ==
    ASSUME NEW lane
    PROVE  \A row \in IccmRowSet, bit \in BitSet : InOne(Bram!LaneLayout(Bram!IccmUltraScale, lane), row, bit)
  <1> TAKE row \in IccmRowSet, bit \in BitSet
  <1>0. row \in 0..8191 /\ bit \in 0..31
    BY DEF IccmRowSet, BitSet, Bram!IccmRows
  <1> DEFINE A(s) == Bram!AddBram(<<"iccm", lane, s>>, 0, 17, s * 2048, s * 2048 + 2047)
             B(s) == Bram!AddBram(<<"iccm", lane, s>>, 18, 26, (s - 4) * 4096, (s - 4) * 4096 + 4095)
             C == Bram!AddBram(<<"iccm", lane, 6>>, 27, 30, 0, 8191)
             D == Bram!AddBram(<<"iccm", lane, 7>>, 31, 31, 0, 8191)
             layout == {A(s) : s \in 0..3} \cup {B(s) : s \in 4..5} \cup {C, D}
  <1>1. Bram!LaneLayout(Bram!IccmUltraScale, lane) = layout
    BY FamiliesDiffer DEF Bram!LaneLayout
  <1>2. PICK q \in 0..3 : \A s \in 0..3 : s * 2048 <= row /\ row <= s * 2048 + 2047 <=> s = q
    BY <1>0, RowRanges
  <1>3. PICK h \in 4..5 : \A s \in 4..5 :
           (s - 4) * 4096 <= row /\ row <= (s - 4) * 4096 + 4095 <=> s = h
    BY <1>0, RowRanges
  <1>4. /\ \A s \in 0..3 : HasBit(A(s), row, bit) <=> bit <= 17 /\ s = q
        /\ \A s \in 4..5 : HasBit(B(s), row, bit) <=> bit \in 18..26 /\ s = h
        /\ HasBit(C, row, bit) <=> bit \in 27..30
        /\ HasBit(D, row, bit) <=> bit = 31
    <2>1. ASSUME NEW s \in 0..3 PROVE HasBit(A(s), row, bit) <=> bit <= 17 /\ s = q
      <3>1. /\ A(s).lsb = 0 /\ A(s).msb = 17
            /\ A(s).begin = s * 2048 /\ A(s).end = s * 2048 + 2047
        BY EntryFields
      <3> HIDE DEF A
      <3> QED BY <1>0, <1>2, <3>1 DEF HasBit
    <2>2. ASSUME NEW s \in 4..5
          PROVE  HasBit(B(s), row, bit) <=> bit \in 18..26 /\ s = h
      <3>1. /\ B(s).lsb = 18 /\ B(s).msb = 26
            /\ B(s).begin = (s - 4) * 4096 /\ B(s).end = (s - 4) * 4096 + 4095
        BY EntryFields
      <3> HIDE DEF B
      <3> QED BY <1>0, <1>3, <3>1 DEF HasBit
    <2>3. (HasBit(C, row, bit) <=> bit \in 27..30) /\ (HasBit(D, row, bit) <=> bit = 31)
      <3>1. /\ C.lsb = 27 /\ C.msb = 30 /\ C.begin = 0 /\ C.end = 8191
            /\ D.lsb = 31 /\ D.msb = 31 /\ D.begin = 0 /\ D.end = 8191
        BY EntryFields
      <3> HIDE DEF C, D
      <3> QED BY <1>0, <3>1 DEF HasBit
    <2> QED BY <2>1, <2>2, <2>3
  <1> HIDE DEF A, B, C, D
  <1>5. CASE bit <= 17
    BY <1>0, <1>1, <1>4, <1>5 DEF InOne
  <1>6. CASE bit \in 18..26
    BY <1>0, <1>1, <1>4, <1>6 DEF InOne
  <1>7. CASE bit \in 27..30
    BY <1>0, <1>1, <1>4, <1>7 DEF InOne
  <1>8. CASE bit = 31
    BY <1>0, <1>1, <1>4, <1>8 DEF InOne
  <1> QED BY <1>0, <1>5, <1>6, <1>7, <1>8

LEMMA BankBitsOnce ==
    ASSUME NEW bank
    PROVE  \A row \in DccmRowSet, bit \in BitSet : InOne(Bram!BankLayout(bank), row, bit)
  <1> TAKE row \in DccmRowSet, bit \in BitSet
  <1>0. row \in 0..2047 /\ bit \in 0..31
    BY DEF DccmRowSet, BitSet, Bram!DccmRows
  <1> DEFINE C == Bram!AddBram(<<"dccm", bank, 0>>, 0, 17, 0, 2047)
             D == Bram!AddBram(<<"dccm", bank, 1>>, 18, 31, 0, 2047)
  <1>1. Bram!BankLayout(bank) = {C, D}
    BY DEF Bram!BankLayout
  <1>2. (HasBit(C, row, bit) <=> bit <= 17) /\ (HasBit(D, row, bit) <=> bit > 17)
    <2>1. C.lsb = 0 /\ C.msb = 17 /\ C.begin = 0 /\ C.end = 2047
      BY EntryFields
    <2>2. D.lsb = 18 /\ D.msb = 31 /\ D.begin = 0 /\ D.end = 2047
      BY EntryFields
    <2> HIDE DEF C, D
    <2>3. HasBit(C, row, bit) <=> bit <= 17
      BY <1>0, <2>1 DEF HasBit
    <2>4. HasBit(D, row, bit) <=> bit > 17
      BY <1>0, <2>2 DEF HasBit
    <2> QED BY <2>3, <2>4
  <1> HIDE DEF C, D
  <1> QED BY <1>0, <1>1, <1>2 DEF InOne

\* The entries of a layout: which slot they are in, at most once, no wider than its shape and
\* with no more bits than a RAMB36 has; a RAMB18 has room for those of ports two bits wide.
Fits(e, width) ==
    /\ e.msb - e.lsb + 1 <= width
    /\ Bram!EntryBits(e) <= Bram!BitsOf["RAMB36"]
    /\ Bram!EntryBits(e) <= Bram!BitsOf["RAMB18"] <=> width = 2

LEMMA Sizes == Bram!BitsOf["RAMB36"] = 36864 /\ Bram!BitsOf["RAMB18"] = 18432
  BY DEF Bram!BitsOf, Bram!Primitives

LEMMA LaneEntries ==
    ASSUME NEW lane, NEW geometry \in {Bram!Iccm7Series, Bram!IccmUltraScale}
    PROVE  /\ \A e \in Bram!LaneLayout(geometry, lane) :
                 \E s \in 0..7 : e.slot = <<"iccm", lane, s>> /\ Fits(e, geometry[s].width)
           /\ \A e, f \in Bram!LaneLayout(geometry, lane) : e.slot = f.slot => e = f
  <1>1. CASE geometry = Bram!Iccm7Series
    <2> DEFINE E(s) == Bram!AddBram(<<"iccm", lane, s>>, s * 4, s * 4 + 3, 0, 8191)
    <2>1. Bram!LaneLayout(geometry, lane) = {E(s) : s \in 0..7}
      BY <1>1 DEF Bram!LaneLayout
    <2>2. \A s \in 0..7 : /\ E(s).slot = <<"iccm", lane, s>> /\ E(s).msb - E(s).lsb + 1 = 4
                           /\ E(s).end - E(s).begin + 1 = 8192
      BY EntryFields
    <2>3. \A s \in 0..7 : geometry[s].width = 4
      BY <1>1 DEF Bram!Iccm7Series, Bram!Shape
    <2> HIDE DEF E
    <2>4. \A s \in 0..7 : Fits(E(s), geometry[s].width)
      BY <2>2, <2>3, Sizes DEF Fits, Bram!EntryBits
    <2>5. \A s, t \in 0..7 : E(s).slot = E(t).slot => s = t
      BY <2>2
    <2> QED BY <2>1, <2>2, <2>4, <2>5
  <1>2. CASE geometry = Bram!IccmUltraScale
    <2> DEFINE E(s) == CASE s \in 0..3 -> Bram!AddBram(<<"iccm", lane, s>>, 0, 17, s * 2048, s * 2048 + 2047)
                         [] s \in 4..5 -> Bram!AddBram(<<"iccm", lane, s>>, 18, 26, (s - 4) * 4096,
                                                       (s - 4) * 4096 + 4095)
                         [] s = 6 -> Bram!AddBram(<<"iccm", lane, 6>>, 27, 30, 0, 8191)
                         [] s = 7 -> Bram!AddBram(<<"iccm", lane, 7>>, 31, 31, 0, 8191)
    <2>1. Bram!LaneLayout(geometry, lane) = {E(s) : s \in 0..7}
      BY <1>2, FamiliesDiffer DEF Bram!LaneLayout
    <2>2. \A s \in 0..7 : E(s).slot = <<"iccm", lane, s>>
      BY EntryFields
    <2>3. /\ \A s \in 0..3 : E(s).msb - E(s).lsb + 1 = 18 /\ E(s).end - E(s).begin + 1 = 2048
          /\ \A s \in 4..5 : E(s).msb - E(s).lsb + 1 = 9 /\ E(s).end - E(s).begin + 1 = 4096
          /\ E(6).msb - E(6).lsb + 1 = 4 /\ E(6).end - E(6).begin + 1 = 8192
          /\ E(7).msb - E(7).lsb + 1 = 1 /\ E(7).end - E(7).begin + 1 = 8192
      BY EntryFields
    <2>4. /\ \A s \in 0..3 : geometry[s].width = 18
          /\ \A s \in 4..5 : geometry[s].width = 9
          /\ geometry[6].width = 4 /\ geometry[7].width = 2
      BY <1>2 DEF Bram!IccmUltraScale, Bram!Shape
    <2> HIDE DEF E
    <2>6. \A s \in 0..7 : Fits(E(s), geometry[s].width)
      <3>1. \A s \in 0..7 : s \in 0..3 \/ s \in 4..5 \/ s = 6 \/ s = 7
        OBVIOUS
      <3> QED BY <2>3, <2>4, <3>1, Sizes DEF Fits, Bram!EntryBits
    <2>5. \A s, t \in 0..7 : E(s).slot = E(t).slot => s = t
      BY <2>2
    <2> QED BY <2>1, <2>2, <2>5, <2>6
  <1> QED BY <1>1, <1>2

LEMMA BankEntries ==
    ASSUME NEW bank
    PROVE  /\ \A e \in Bram!BankLayout(bank) :
                 \E s \in 0..1 : /\ e.slot = <<"dccm", bank, s>>
                                 /\ Fits(e, Bram!DccmGeometry[s].width)
           /\ \A e, f \in Bram!BankLayout(bank) : e.slot = f.slot => e = f
  <1> DEFINE C == Bram!AddBram(<<"dccm", bank, 0>>, 0, 17, 0, 2047)
             D == Bram!AddBram(<<"dccm", bank, 1>>, 18, 31, 0, 2047)
  <1>1. Bram!BankLayout(bank) = {C, D}
    BY DEF Bram!BankLayout
  <1>2. /\ C.slot = <<"dccm", bank, 0>> /\ C.msb - C.lsb + 1 = 18 /\ C.end - C.begin + 1 = 2048
        /\ D.slot = <<"dccm", bank, 1>> /\ D.msb - D.lsb + 1 = 14 /\ D.end - D.begin + 1 = 2048
    BY EntryFields
  <1>3. Bram!DccmGeometry[0].width = 18 /\ Bram!DccmGeometry[1].width = 18
    BY DEF Bram!DccmGeometry, Bram!Shape
  <1> HIDE DEF C, D
  <1>4. Fits(C, Bram!DccmGeometry[0].width) /\ Fits(D, Bram!DccmGeometry[1].width)
    BY <1>2, <1>3, Sizes DEF Fits, Bram!EntryBits
  <1> QED BY <1>1, <1>2, <1>4

\* The rows of the m-th memory.
RowsOf(m) == IF m <= 4 THEN IccmRowSet ELSE DccmRowSet

\* What a map that is accepted says of the geometry.
LEMMA AcceptedMap ==
    ASSUME NEW map, NEW B, map.brams \in Seq(B), Bram!Mmi(map) # <<>>
    PROVE  /\ Bram!Classified(map.brams)
           /\ \A i \in DOMAIN map.brams : map.brams[i].ref \in Bram!Primitives
           /\ Bram!Mmi(map) = [m \in 1..12 |->
                 IF m <= 4 THEN Bram!LaneLayout(Bram!LaneGeometry(map.brams, m - 1), m - 1)
                 ELSE Bram!BankLayout(m - 5)]
           /\ \A lane \in 0..3 : /\ Bram!LaneGeometry(map.brams, lane) \in
                                       {Bram!Iccm7Series, Bram!IccmUltraScale}
                                 /\ \A s \in 0..7 : \A i \in DOMAIN map.brams :
                                       map.brams[i].cell.slot = <<"iccm", lane, s>> =>
                                          Bram!LaneGeometry(map.brams, lane)[s] = map.brams[i].shape
           /\ \A bank \in 0..7, s \in 0..1 : \A i \in DOMAIN map.brams :
                 map.brams[i].cell.slot = <<"dccm", bank, s>> =>
                    Bram!DccmGeometry[s] = map.brams[i].shape
  <1> DEFINE brams == map.brams
  <1>1. /\ Bram!Classified(brams)
        /\ \A i \in DOMAIN brams : brams[i].ref \in Bram!Primitives
        /\ Bram!Mmi(map) = [m \in 1..12 |->
              IF m <= 4 THEN Bram!LaneLayout(Bram!LaneGeometry(brams, m - 1), m - 1)
              ELSE Bram!BankLayout(m - 5)]
    BY DEF Bram!Mmi
  <1> HIDE DEF brams
  <1>2. brams \in Seq(B)
    BY DEF brams
  <1>3. ASSUME NEW i \in DOMAIN brams PROVE Bram!AtSlot(brams, brams[i].cell.slot) = brams[i]
    <2> DEFINE slot == brams[i].cell.slot
               pick == CHOOSE k \in Bram!InSlot(brams, slot) : \A j \in Bram!InSlot(brams, slot) : j <= k
    <2>1. Bram!InSlot(brams, slot) = {i}
      <3>1. DOMAIN brams = 1..48 /\ \A j, k \in 1..48 : brams[j].cell.slot = brams[k].cell.slot => j = k
        BY <1>1, <1>2, OneBramEach
      <3> QED BY <3>1 DEF Bram!InSlot
    <2>2. i <= i
      BY <1>2
    <2>3. pick = i
      BY <2>1, <2>2
    <2> HIDE DEF pick
    <2> QED BY <2>3 DEF Bram!AtSlot, pick
  <1>4. ASSUME NEW lane \in 0..3
        PROVE  /\ Bram!LaneGeometry(brams, lane) \in {Bram!Iccm7Series, Bram!IccmUltraScale}
               /\ \A s \in 0..7 : Bram!LaneGeometry(brams, lane)[s] =
                                     Bram!AtSlot(brams, <<"iccm", lane, s>>).shape
    <2>1. Bram!LaneGeometry(brams, lane) = Bram!LaneGeometry(brams, 0)
      BY <1>1 DEF Bram!Classified, Bram!Lanes
    <2>2. Bram!LaneGeometry(brams, 0) \in {Bram!Iccm7Series, Bram!IccmUltraScale}
      BY <1>1 DEF Bram!Classified
    <2>3. \A s \in 0..7 : Bram!LaneGeometry(brams, lane)[s] = Bram!AtSlot(brams, <<"iccm", lane, s>>).shape
      BY DEF Bram!LaneGeometry
    <2> QED BY <2>1, <2>2, <2>3
  <1>5. \A bank \in 0..7, s \in 0..1 :
           Bram!AtSlot(brams, <<"dccm", bank, s>>).shape = Bram!DccmGeometry[s]
    BY <1>1 DEF Bram!Classified, Bram!Banks
  <1>6. ASSUME NEW lane \in 0..3, NEW s \in 0..7, NEW i \in DOMAIN brams,
               brams[i].cell.slot = <<"iccm", lane, s>>
        PROVE  Bram!LaneGeometry(brams, lane)[s] = brams[i].shape
    BY <1>3, <1>4, <1>6
  <1>7. ASSUME NEW bank \in 0..7, NEW s \in 0..1, NEW i \in DOMAIN brams,
               brams[i].cell.slot = <<"dccm", bank, s>>
        PROVE  Bram!DccmGeometry[s] = brams[i].shape
    BY <1>3, <1>5, <1>7
  <1> QED BY <1>1, <1>4, <1>6, <1>7 DEF brams

\* Places that share a half of a block RAM are the same, unless one names it as a RAMB18 and
\* the other as a RAMB36.
LEMMA SharedHalf ==
    ASSUME NEW a \in Bram!Primitives \X Nat, NEW b \in Bram!Primitives \X Nat,
           a[1] = b[1], Bram!Halves(a) \cap Bram!Halves(b) # {}
    PROVE  a = b
  <1>1. a = <<a[1], a[2]>> /\ b = <<b[1], b[2]>> /\ a[2] \in Nat /\ b[2] \in Nat
    OBVIOUS
  <1>2. a[2] = b[2]
    <2>1. CASE a[1] = "RAMB36"
      <3>1. Bram!Halves(a) = {2 * a[2], 2 * a[2] + 1} /\ Bram!Halves(b) = {2 * b[2], 2 * b[2] + 1}
        BY <2>1 DEF Bram!Halves
      <3> QED BY <1>1, <3>1
    <2>2. CASE a[1] # "RAMB36"
      <3>1. Bram!Halves(a) = {a[2]} /\ Bram!Halves(b) = {b[2]}
        BY <2>2 DEF Bram!Halves
      <3> QED BY <3>1
    <2> QED BY <2>1, <2>2
  <1> QED BY <1>1, <1>2

\* generate_manual_mmi.py, for every list of block RAMs it accepts: every bit of every row of
\* the twelve memories is in exactly one entry, the memories come in the order
\* patch_bitstream.py writes them in, and an entry stands for one block RAM of the design,
\* which is wide enough.  It is large enough when it is a RAMB36, but a RAMB18, which the
\* script takes for any entry, only for the slice with ports two bits wide; and two entries
\* share a block RAM only where they name it in different grids.
THEOREM EveryBitInOneBlockRam ==
    ASSUME NEW map, NEW B, map.brams \in Seq(B), Bram!Mmi(map) # <<>>,
           \A i \in DOMAIN map.brams : map.brams[i].loc \in Bram!Primitives \X Nat
    PROVE  LET mmi == Bram!Mmi(map)
               at(e) == {i \in DOMAIN map.brams : map.brams[i].cell.slot = e.slot}
           IN  /\ \A m \in 1..12 : \A row \in RowsOf(m), bit \in BitSet :
                     InOne(mmi[m], row, bit)
               /\ \A m \in 1..12 : \A e \in mmi[m] :
                     /\ <<e.slot[1], e.slot[2]>> = Bram!UpdateOrder[m]
                     /\ \E i \in DOMAIN map.brams :
                           /\ at(e) = {i}
                           /\ e.msb - e.lsb + 1 <= map.brams[i].shape.width
                           /\ Bram!EntryBits(e) <= Bram!BitsOf[map.brams[i].ref] <=>
                                 map.brams[i].ref = "RAMB36" \/ map.brams[i].shape.width = 2
               /\ \A m, n \in 1..12 : \A e \in mmi[m], f \in mmi[n] : \A i \in at(e), j \in at(f) :
                     Bram!Halves(map.brams[i].loc) \cap Bram!Halves(map.brams[j].loc) # {} =>
                        (m = n /\ e = f) \/ map.brams[i].loc[1] # map.brams[j].loc[1]
  <1> DEFINE brams == map.brams
             mmi == Bram!Mmi(map)
             at(e) == {i \in DOMAIN brams : brams[i].cell.slot = e.slot}
             geometry(lane) == Bram!LaneGeometry(brams, lane)
  <1>1. /\ Bram!Classified(brams)
        /\ \A i \in DOMAIN brams : brams[i].ref \in Bram!Primitives
        /\ mmi = [m \in 1..12 |-> IF m <= 4 THEN Bram!LaneLayout(geometry(m - 1), m - 1)
                                  ELSE Bram!BankLayout(m - 5)]
        /\ \A lane \in 0..3 : /\ geometry(lane) \in {Bram!Iccm7Series, Bram!IccmUltraScale}
                              /\ \A s \in 0..7 : \A i \in DOMAIN brams :
                                    brams[i].cell.slot = <<"iccm", lane, s>> =>
                                       geometry(lane)[s] = brams[i].shape
        /\ \A bank \in 0..7, s \in 0..1 : \A i \in DOMAIN brams :
              brams[i].cell.slot = <<"dccm", bank, s>> => Bram!DccmGeometry[s] = brams[i].shape
    BY AcceptedMap
  <1>2. brams \in Seq(B) /\ \A i \in DOMAIN brams : brams[i].loc \in Bram!Primitives \X Nat
    OBVIOUS
  <1> HIDE DEF brams, mmi, geometry
  <1>3. /\ DOMAIN brams = 1..48
        /\ \A slot \in Bram!Slots : \E i \in 1..48 : brams[i].cell.slot = slot
        /\ \A i, j \in 1..48 : brams[i].cell.slot = brams[j].cell.slot => i = j
        /\ \A i, j \in 1..48 : brams[i].loc = brams[j].loc => i = j
    <2>1. Bram!Classified(brams)
      BY <1>1
    <2> QED BY <1>2, <2>1, OneBramEach
  <1>4. ASSUME NEW m \in 1..12
        PROVE  \/ m - 1 \in 0..3 /\ m <= 4 /\ mmi[m] = Bram!LaneLayout(geometry(m - 1), m - 1)
               \/ m - 5 \in 0..7 /\ m > 4 /\ mmi[m] = Bram!BankLayout(m - 5)
    BY <1>1
  <1>5. ASSUME NEW m \in 1..12
        PROVE  \A row \in RowsOf(m), bit \in BitSet : InOne(mmi[m], row, bit)
    <2>1. CASE m <= 4
      <3>1. RowsOf(m) = IccmRowSet
        BY <2>1 DEF RowsOf
      <3>2. mmi[m] = Bram!LaneLayout(geometry(m - 1), m - 1) /\ m - 1 \in 0..3
        BY <1>4, <2>1
      <3>3. geometry(m - 1) \in {Bram!Iccm7Series, Bram!IccmUltraScale}
        BY <1>1, <3>2
      <3>4. \A row \in IccmRowSet, bit \in BitSet : InOne(mmi[m], row, bit)
        <4>1. CASE geometry(m - 1) = Bram!Iccm7Series
          <5>1. mmi[m] = Bram!LaneLayout(Bram!Iccm7Series, m - 1)
            BY <3>2, <4>1
          <5> QED BY <5>1, Lane7BitsOnce
        <4>2. CASE geometry(m - 1) = Bram!IccmUltraScale
          <5>1. mmi[m] = Bram!LaneLayout(Bram!IccmUltraScale, m - 1)
            BY <3>2, <4>2
          <5> QED BY <5>1, LaneUltraBitsOnce
        <4> QED BY <3>3, <4>1, <4>2
      <3> QED BY <3>1, <3>4
    <2>2. CASE m > 4
      <3>1. RowsOf(m) = DccmRowSet
        BY <2>2 DEF RowsOf
      <3>2. mmi[m] = Bram!BankLayout(m - 5)
        BY <1>4, <2>2
      <3>3. \A row \in DccmRowSet, bit \in BitSet : InOne(mmi[m], row, bit)
        BY <3>2, BankBitsOnce
      <3> QED BY <3>1, <3>3
    <2> QED BY <2>1, <2>2
  <1>6. ASSUME NEW m \in 1..12, NEW e \in mmi[m]
        PROVE  /\ <<e.slot[1], e.slot[2]>> = Bram!UpdateOrder[m] /\ e.slot \in Bram!Slots
               /\ \E i \in DOMAIN brams : at(e) = {i} /\ Fits(e, brams[i].shape.width)
    <2>0. ASSUME e.slot \in Bram!Slots
          PROVE  \E i \in DOMAIN brams : at(e) = {i} /\ brams[i].cell.slot = e.slot
      <3>1. PICK i \in 1..48 : brams[i].cell.slot = e.slot
        BY <1>3, <2>0
      <3>2. \A j \in DOMAIN brams : brams[j].cell.slot = e.slot <=> j = i
        <4>1. DOMAIN brams = 1..48 /\ \A j, k \in 1..48 : brams[j].cell.slot = brams[k].cell.slot => j = k
          BY <1>3
        <4>2. ASSUME NEW j \in DOMAIN brams, brams[j].cell.slot = e.slot PROVE j = i
          BY <3>1, <4>1, <4>2
        <4> QED BY <3>1, <4>2
      <3>3. at(e) = {i}
        <4>1. i \in DOMAIN brams
          BY <1>3
        <4> QED BY <3>2, <4>1, Zenon
      <3> QED BY <1>3, <3>1, <3>3
    <2>1. CASE m <= 4
      <3>1. mmi[m] = Bram!LaneLayout(geometry(m - 1), m - 1) /\ m - 1 \in 0..3
        BY <1>4, <2>1
      <3>2. geometry(m - 1) \in {Bram!Iccm7Series, Bram!IccmUltraScale}
        BY <1>1, <3>1
      <3>3. PICK s \in 0..7 : /\ e.slot = <<"iccm", m - 1, s>>
                              /\ Fits(e, geometry(m - 1)[s].width)
        BY <3>1, <3>2, LaneEntries
      <3>4. e.slot \in Bram!Slots
        BY <3>1, <3>3 DEF Bram!Slots, Bram!IccmSlots, Bram!Lanes
      <3>5. PICK i \in DOMAIN brams : at(e) = {i} /\ brams[i].cell.slot = e.slot
        BY <2>0, <3>4
      <3>6. geometry(m - 1)[s] = brams[i].shape
        <4>1. brams[i].cell.slot = <<"iccm", m - 1, s>>
          BY <3>3, <3>5
        <4> QED BY <1>1, <3>1, <4>1
      <3>7. <<e.slot[1], e.slot[2]>> = Bram!UpdateOrder[m]
        BY <2>1, <3>3 DEF Bram!UpdateOrder
      <3> QED BY <3>3, <3>4, <3>5, <3>6, <3>7
    <2>2. CASE m > 4
      <3>1. mmi[m] = Bram!BankLayout(m - 5) /\ m - 5 \in 0..7
        BY <1>4, <2>2
      <3>3. PICK s \in 0..1 : /\ e.slot = <<"dccm", m - 5, s>>
                              /\ Fits(e, Bram!DccmGeometry[s].width)
        BY <3>1, BankEntries
      <3>4. e.slot \in Bram!Slots
        BY <3>1, <3>3 DEF Bram!Slots, Bram!DccmSlots, Bram!Banks
      <3>5. PICK i \in DOMAIN brams : at(e) = {i} /\ brams[i].cell.slot = e.slot
        BY <2>0, <3>4
      <3>6. Bram!DccmGeometry[s] = brams[i].shape
        <4>1. brams[i].cell.slot = <<"dccm", m - 5, s>>
          BY <3>3, <3>5
        <4> QED BY <1>1, <3>1, <4>1
      <3>7. <<e.slot[1], e.slot[2]>> = Bram!UpdateOrder[m]
        BY <2>2, <3>3 DEF Bram!UpdateOrder
      <3> QED BY <3>3, <3>4, <3>5, <3>6, <3>7
    <2> QED BY <2>1, <2>2
  <1>7. ASSUME NEW m \in 1..12, NEW n \in 1..12, NEW e \in mmi[m], NEW f \in mmi[n],
               NEW i \in at(e), NEW j \in at(f), brams[i].loc = brams[j].loc
        PROVE  m = n /\ e = f
    <2>1. i = j /\ e.slot = f.slot
      BY <1>3, <1>7
    <2>2. m = n
      <3>0. <<e.slot[1], e.slot[2]>> = Bram!UpdateOrder[m] /\ <<f.slot[1], f.slot[2]>> = Bram!UpdateOrder[n]
        BY <1>6
      <3>1. Bram!UpdateOrder[m] = Bram!UpdateOrder[n]
        BY <2>1, <3>0, Zenon
      <3> QED BY <3>1 DEF Bram!UpdateOrder
    <2>3. CASE m <= 4
      <3>1. mmi[m] = Bram!LaneLayout(geometry(m - 1), m - 1) /\ m - 1 \in 0..3
        BY <1>4, <2>3
      <3>2. geometry(m - 1) \in {Bram!Iccm7Series, Bram!IccmUltraScale}
        BY <1>1, <3>1
      <3> QED BY <2>1, <2>2, <3>1, <3>2, LaneEntries
    <2>4. CASE m > 4
      <3>1. mmi[m] = Bram!BankLayout(m - 5)
        BY <1>4, <2>4
      <3> QED BY <2>1, <2>2, <3>1, BankEntries
    <2> QED BY <2>3, <2>4
  <1>8. ASSUME NEW e, NEW i \in DOMAIN brams, Fits(e, brams[i].shape.width)
        PROVE  /\ e.msb - e.lsb + 1 <= brams[i].shape.width
               /\ Bram!EntryBits(e) <= Bram!BitsOf[brams[i].ref] <=>
                     brams[i].ref = "RAMB36" \/ brams[i].shape.width = 2
    <2>1. brams[i].ref = "RAMB36" \/ brams[i].ref = "RAMB18"
      BY <1>1 DEF Bram!Primitives
    <2>2. CASE brams[i].ref = "RAMB36"
      BY <1>8, <2>2 DEF Fits
    <2>3. CASE brams[i].ref = "RAMB18"
      <3>1. brams[i].ref # "RAMB36"
        BY <2>3
      <3> QED BY <1>8, <2>3, <3>1 DEF Fits
    <2> QED BY <2>1, <2>2, <2>3
  <1>9. ASSUME NEW m \in 1..12, NEW n \in 1..12, NEW e \in mmi[m], NEW f \in mmi[n],
               NEW i \in at(e), NEW j \in at(f)
        PROVE  Bram!Halves(brams[i].loc) \cap Bram!Halves(brams[j].loc) # {} =>
                  (m = n /\ e = f) \/ brams[i].loc[1] # brams[j].loc[1]
    <2> SUFFICES ASSUME Bram!Halves(brams[i].loc) \cap Bram!Halves(brams[j].loc) # {},
                        brams[i].loc[1] = brams[j].loc[1]
                 PROVE  m = n /\ e = f
      OBVIOUS
    <2>1. brams[i].loc = brams[j].loc
      BY <1>2, SharedHalf
    <2> QED BY <1>7, <2>1, SMTT(30)
  <1>10. ASSUME NEW m \in 1..12, NEW e \in mmi[m]
         PROVE  /\ <<e.slot[1], e.slot[2]>> = Bram!UpdateOrder[m]
                /\ \E i \in DOMAIN brams :
                      /\ at(e) = {i}
                      /\ e.msb - e.lsb + 1 <= brams[i].shape.width
                      /\ Bram!EntryBits(e) <= Bram!BitsOf[brams[i].ref] <=>
                            brams[i].ref = "RAMB36" \/ brams[i].shape.width = 2
    <2>1. <<e.slot[1], e.slot[2]>> = Bram!UpdateOrder[m]
      BY <1>6
    <2>2. PICK i \in DOMAIN brams : at(e) = {i} /\ Fits(e, brams[i].shape.width)
      BY <1>6
    <2> QED BY <1>8, <2>1, <2>2
  <1> QED BY <1>5, <1>9, <1>10, Zenon DEF brams, mmi

-----------------------------------------------------------------------------
(***************************************************************************)
(* prepare_competition_run.py and build_software.py.                       *)
(***************************************************************************)
\* Whatever was submitted, whichever files of the run are edited, added, removed or replaced
\* by links afterwards, any number of them at once, and whatever competition.json then says:
\* as long as the manifest is the one that was recorded, a build that starts has every file
\* of the submission as submitted, no other, no link, and compiles one of its C files.
THEOREM BuiltAsSubmitted ==
    ASSUME NEW paths, NEW contents, NEW tree \in [paths -> contents], NEW requested, NEW host,
           NEW prepared, Entry!PrepareRun(tree, requested, host) = <<prepared>>,
           NEW later, later.manifest = prepared.manifest,
           NEW left, NEW found, later.original \in [left -> found],
           Entry!LoadConfig(later) # Entry!Refused
    PROVE  /\ later.original = tree
           /\ \A path \in paths : later.original[path] # Entry!Link
           /\ Entry!LoadConfig(later)[1] \in paths \cap Entry!CFiles
  <1>1. prepared.manifest = tree /\ \A path \in paths : tree[path] # Entry!Link
    BY DEF Entry!PrepareRun, Entry!Refused, Entry!SourceManifest, Entry!ValidInput
  <1>2. /\ Entry!VerifySources(later)
        /\ later.config.entry_source \in DOMAIN later.original \cap Entry!CFiles
        /\ Entry!LoadConfig(later) = <<later.config.entry_source>>
    BY DEF Entry!LoadConfig
  <1>3. later.original = tree
    <2>1. DOMAIN later.original = DOMAIN tree
      BY <1>1, <1>2 DEF Entry!VerifySources
    <2>2. \A path \in DOMAIN tree : later.original[path] = tree[path]
      BY <1>1, <1>2 DEF Entry!VerifySources
    <2> QED BY <2>1, <2>2
  <1> QED BY <1>1, <1>2, <1>3
=============================================================================
