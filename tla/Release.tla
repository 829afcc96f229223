------------------------------ MODULE Release -------------------------------
(***************************************************************************)
(* From the software image to the released bitstream, in the two flows the *)
(* scripts support:                                                        *)
(*                                                                         *)
(*  - "board": scripts/run_vivado.py builds image and bitstream and checks *)
(*    the reports (make fpga-build), scripts/package_release.py and        *)
(*    verify_release.py make and check the release (make release);         *)
(*  - "competition": scripts/prepare_competition_run.py makes a run        *)
(*    directory, the image is built in it, simulated, put into a bitstream *)
(*    by hand in the Vivado GUI or by scripts/patch_bitstream.py, signed   *)
(*    off by check_fpga_reports.py, and packaged.                          *)
(*                                                                         *)
(* A file's contents are the version of the software it was built from.    *)
(* What a build makes of the sources is open here (SoftwareBuild has it):  *)
(* it may be another version at any moment.  One script runs at a time and *)
(* can be killed between any two steps.                                    *)
(***************************************************************************)
EXTENDS Naturals, Sequences

CONSTANTS
    Flows,          \* the flows that are explored, {"board", "competition"}
    MaxVersion,     \* versions of the software
    MaxFaults,      \* scripts killed, sources edited and run directories protected, together
    Memories        \* memories patch_bitstream.py updates one after the other

ASSUME ReleaseAssumption ==
    /\ Flows \subseteq {"board", "competition"}
    /\ MaxVersion \in Nat \ {0} /\ MaxFaults \in Nat /\ Memories \in Nat \ {0}

VARIABLES
    flow,           \* which flow this tree is used for
    software,       \* the version that a build of firmware.elf would give now
    run,            \* the run directory: "none", "ready" or "protected" by its Windows ACL
    images,         \* the MEM files and image.json
    vivado,         \* the Vivado project: image read at synthesis, timing report, bitstream
    fresh,          \* whether the bitstream is younger than every image file
    legacyBit,      \* build/vivado/kintex7-<profile>: bitstream of an older release
    result,         \* result.json of the FPGA sign-off
    simResult,      \* <run>/simulation/result.json
    patched,        \* competition.bit and patch_result.json
    programmed,     \* the bitstream in the FPGA
    release,        \* the release directory and its manifest
    job,            \* the running script
    faults

fpgaVars == <<vivado, fresh, legacyBit, result>>
vars == <<flow, software, run, images, fpgaVars, simResult, patched, programmed, release, job,
          faults>>

None      == 0
Versions  == 1..MaxVersion
Outcomes  == {"PASS", "FAIL"}
NoBit     == [from |-> None, timing |-> "none"]
OldBit    == [from |-> None, timing |-> "met"]      \* of a program this tree no longer has
NoResult  == [status |-> "none", bit |-> NoBit, image |-> None]
NoSim     == [status |-> "none", image |-> None]
NoJob     == [pc |-> "idle"]

\* A file of a release, or none.
Absent    == <<>>
File(x)   == <<x>>

\* What a release holds, in the order package copies it.
Contents  == IF flow = "board" THEN <<"bit", "mem", "image">>
             ELSE <<"bit", "result", "mem", "image", "simulation">>
Names     == {"bit", "result", "mem", "image", "simulation"}
NoFiles   == [f \in Names |-> Absent]

Init ==
    /\ flow \in Flows
    /\ software = 1
    /\ run = IF flow = "board" THEN "ready" ELSE "none"
    /\ images = [mem |-> None, json |-> None]
    /\ vivado = [synth |-> None, report |-> "none", bit |-> NoBit]
    /\ fresh = FALSE
    /\ legacyBit \in IF flow = "board" THEN {NoBit, OldBit} ELSE {NoBit}
    /\ result = NoResult /\ simResult = NoSim
    /\ patched = [bit |-> None, result |-> None]
    /\ programmed = NoBit
    /\ release = [files |-> NoFiles, manifest |-> NoFiles]
    /\ job = NoJob /\ faults = 0

Idle     == job = NoJob
Disturb  == faults < MaxFaults /\ faults' = faults + 1
Goto(pc) == job' = [job EXCEPT !.pc = pc]

-----------------------------------------------------------------------------
(***************************************************************************)
(* prepare_competition_run.py                                              *)
(***************************************************************************)
\* A new run-id and a valid source: a temporary directory is made beside the final one.
PrepareStarts ==
    /\ Idle /\ flow = "competition" /\ run = "none"
    /\ job' = [pc |-> "copy source"]
    /\ UNCHANGED <<flow, software, run, images, fpgaVars, simResult,
                   patched, programmed, release, faults>>

\* The source is copied, its entry chosen, manifest, configuration and launchers written.
SourceCopied ==
    /\ job.pc = "copy source"
    /\ Goto("publish")
    /\ UNCHANGED <<flow, software, run, images, fpgaVars, simResult,
                   patched, programmed, release, faults>>

\* The temporary directory is renamed.
RunPublished ==
    /\ job.pc = "publish"
    /\ run' = "ready"
    /\ job' = NoJob
    /\ UNCHANGED <<flow, software, images, fpgaVars, simResult,
                   patched, programmed, release, faults>>

\* Windows protects the directory; repair_competition_run_permissions.py takes ownership,
\* restores the inherited rights and reads every launcher.
RunProtected ==
    /\ Disturb
    /\ Idle /\ flow = "competition" /\ run = "ready"
    /\ run' = "protected"
    /\ UNCHANGED <<flow, software, images, fpgaVars, simResult, patched, programmed,
                   release, job>>

RunRepaired ==
    /\ Idle /\ flow = "competition" /\ run \in {"ready", "protected"}
    /\ run' = "ready"
    /\ UNCHANGED <<flow, software, images, fpgaVars, simResult, patched, programmed,
                   release, job, faults>>

-----------------------------------------------------------------------------
(***************************************************************************)
(* The image and its simulation.                                           *)
(***************************************************************************)
\* build_profile, by itself or as the first step of run_vivado, up to firmware.elf.
ImageBuildStarts(then) ==
    /\ Idle /\ run = "ready"
    /\ then = "vivado" => flow = "board"
    /\ job' = [pc |-> "mem", version |-> software, then |-> then]
    /\ UNCHANGED <<flow, software, run, images, fpgaVars, simResult,
                   patched, programmed, release, faults>>

\* The MEM files are overwritten ...
MemFilesWritten ==
    /\ job.pc = "mem"
    /\ images' = [images EXCEPT !.mem = job.version]
    /\ fresh' = FALSE
    /\ Goto("json")
    /\ UNCHANGED <<flow, software, run, vivado, legacyBit, result, simResult, patched, programmed,
                   release, faults>>

\* ... and image.json replaced last.
ImageJsonWritten ==
    /\ job.pc = "json"
    /\ images' = [images EXCEPT !.json = job.version]
    /\ fresh' = FALSE
    /\ job' = IF job.then = "vivado" THEN [pc |-> "unlink result"] ELSE NoJob
    /\ UNCHANGED <<flow, software, run, vivado, legacyBit, result, simResult, patched, programmed,
                   release, faults>>

\* run_verilator.py on the run directory: the result names image.json by its hash.
ImageSimulated ==
    /\ Idle /\ flow = "competition" /\ run = "ready"
    /\ images.mem # None /\ images.json # None
    /\ \E status \in Outcomes : simResult' = [status |-> status, image |-> images.json]
    /\ UNCHANGED <<flow, software, run, images, fpgaVars,
                   patched, programmed, release, job, faults>>

-----------------------------------------------------------------------------
(***************************************************************************)
(* Vivado: driven by run_vivado.py, or by hand in a competition run.       *)
(***************************************************************************)
\* Mutant: the previous result.json is left.
ResultUnlinked_keeps ==
    /\ job.pc = "unlink result"
    /\ Goto("unlink bit")
    /\ UNCHANGED <<flow, software, run, images, fpgaVars, simResult,
                   patched, programmed, release, faults>>

\* run_vivado removes result, bitstream and reports of the previous build, in this order.
ResultUnlinked ==
    /\ job.pc = "unlink result"
    /\ result' = NoResult
    /\ Goto("unlink bit")
    /\ UNCHANGED <<flow, software, run, images, vivado, fresh, legacyBit, simResult, patched,
                   programmed, release, faults>>

BitUnlinked ==
    /\ job.pc = "unlink bit"
    /\ vivado' = [vivado EXCEPT !.bit = NoBit]
    /\ Goto("unlink reports")
    /\ UNCHANGED <<flow, software, run, images, fresh, legacyBit, result, simResult, patched,
                   programmed, release, faults>>

ReportsUnlinked ==
    /\ job.pc = "unlink reports"
    /\ vivado' = [vivado EXCEPT !.report = "none"]
    /\ Goto("synthesis")
    /\ UNCHANGED <<flow, software, run, images, fresh, legacyBit, result, simResult, patched,
                   programmed, release, faults>>

\* A Vivado step is the next one of run_vivado, or any one in the GUI, at any time.
VivadoStep(pc, next) ==
    \/ flow = "board" /\ job.pc = pc /\ Goto(next)
    \/ flow = "competition" /\ run = "ready" /\ UNCHANGED job

\* The MEM files are read at synthesis and only then.
Synthesised ==
    /\ VivadoStep("synthesis", "implementation")
    /\ images.mem # None
    /\ vivado' = [vivado EXCEPT !.synth = images.mem]
    /\ UNCHANGED <<flow, software, run, images, fresh, legacyBit, result, simResult, patched,
                   programmed, release, faults>>

Implemented ==
    /\ VivadoStep("implementation", "bitstream")
    /\ vivado.synth # None
    /\ \E timing \in {"met", "failed"} : vivado' = [vivado EXCEPT !.report = timing]
    /\ UNCHANGED <<flow, software, run, images, fresh, legacyBit, result, simResult, patched,
                   programmed, release, faults>>

BitstreamWritten ==
    /\ VivadoStep("bitstream", "check")
    /\ vivado.synth # None /\ vivado.report # "none"
    /\ vivado' = [vivado EXCEPT !.bit = [from |-> vivado.synth, timing |-> vivado.report]]
    /\ fresh' = TRUE
    /\ UNCHANGED <<flow, software, run, images, legacyBit, result, simResult, patched, programmed,
                   release, faults>>

\* check_fpga_reports.check refuses a build that is incomplete or, in a competition run,
\* older than the images, which it then names in its result.
Checkable ==
    /\ vivado.bit # NoBit /\ vivado.report # "none"
    /\ flow = "competition" =>
          run = "ready" /\ images.mem # None /\ images.json # None /\ fresh

Verdict ==
    [status |-> IF vivado.report = "met" THEN "PASS" ELSE "FAIL", bit |-> vivado.bit,
     image |-> IF flow = "competition" THEN images.json ELSE None]

\* As the last step of run_vivado, or by itself (fpga-check).
ReportsChecked ==
    /\ Idle \/ job.pc = "check"
    /\ Checkable
    /\ result' = Verdict
    /\ job' = NoJob
    /\ UNCHANGED <<flow, software, run, images, vivado, fresh, legacyBit, simResult, patched,
                   programmed, release, faults>>

\* program_board.py prefers the bitstream of the older path when no frequency is given.
BoardProgrammed ==
    /\ Idle /\ flow = "board"
    /\ \E explicit \in BOOLEAN :
          LET bit == IF ~explicit /\ legacyBit # NoBit THEN legacyBit ELSE vivado.bit
          IN  bit # NoBit /\ programmed' = bit
    /\ UNCHANGED <<flow, software, run, images, fpgaVars, simResult, patched, release, job, faults>>

-----------------------------------------------------------------------------
(***************************************************************************)
(* patch_bitstream.py                                                      *)
(***************************************************************************)
\* Mutant: an existing output is overwritten.
PatchStarts_overwrites ==
    /\ Idle /\ flow = "competition" /\ images.mem # None
    /\ job' = [pc |-> "patch", words |-> images.mem, done |-> 0]
    /\ UNCHANGED <<flow, software, run, images, fpgaVars, simResult,
                   patched, programmed, release, faults>>

\* Neither output exists; the words of the image are read once.
PatchStarts ==
    /\ Idle /\ flow = "competition" /\ images.mem # None
    /\ patched = [bit |-> None, result |-> None]
    /\ job' = [pc |-> "patch", words |-> images.mem, done |-> 0]
    /\ UNCHANGED <<flow, software, run, images, fpgaVars, simResult,
                   patched, programmed, release, faults>>

\* One run of updatemem, from the bitstream of the stage before to a new one.
MemoryPatched ==
    /\ job.pc = "patch" /\ job.done < Memories
    /\ job' = [job EXCEPT !.done = @ + 1]
    /\ UNCHANGED <<flow, software, run, images, fpgaVars, simResult,
                   patched, programmed, release, faults>>

PatchedBitCopied ==
    /\ job.pc = "patch" /\ job.done = Memories
    /\ patched' = [patched EXCEPT !.bit = job.words]
    /\ Goto("patch result")
    /\ UNCHANGED <<flow, software, run, images, fpgaVars, simResult, programmed, release, faults>>

\* The hashes in the result are taken from the files as they are now.
PatchRecorded ==
    /\ job.pc = "patch result"
    /\ patched' = [patched EXCEPT !.result = images.mem]
    /\ job' = NoJob
    /\ UNCHANGED <<flow, software, run, images, fpgaVars, simResult, programmed, release, faults>>

-----------------------------------------------------------------------------
(***************************************************************************)
(* package_release.py and verify_release.py                                *)
(***************************************************************************)
\* Mutant: a PASS is a PASS, whatever image it was for.
VerifyCompetitionResults_anyImage == simResult.status = "PASS" /\ result.status = "PASS"

\* Simulation and FPGA sign-off passed for image.json as it is now.
VerifyCompetitionResults ==
    /\ simResult.status = "PASS" /\ simResult.image = images.json
    /\ result.status = "PASS" /\ result.image = images.json

\* make release: fpga-check and check-images, and the bitstream of the older path.
ReleaseInputs == [bit        |-> IF flow = "board" THEN legacyBit ELSE vivado.bit,
                  result     |-> result,
                  mem        |-> images.mem,
                  image      |-> images.json,
                  simulation |-> simResult]

PackageStarts ==
    /\ Idle /\ run = "ready"
    /\ images.mem # None /\ images.json # None /\ ReleaseInputs.bit # NoBit
    /\ \/ /\ flow = "competition" /\ VerifyCompetitionResults
          /\ vivado.report # "none"
          /\ UNCHANGED result
       \/ /\ flow = "board" /\ Checkable /\ Verdict.status = "PASS"
          /\ images.mem = images.json
          /\ result' = Verdict
    /\ job' = [pc |-> "package", next |-> 1, hashes |-> NoFiles]
    /\ UNCHANGED <<flow, software, run, images, vivado, fresh, legacyBit, simResult, patched,
                   programmed, release, faults>>

\* The next file is copied over what an earlier release left, and hashed from the copy.
FilePackaged ==
    /\ job.pc = "package" /\ job.next <= Len(Contents)
    /\ LET f == Contents[job.next]
       IN  /\ release' = [release EXCEPT !.files[f] = File(ReleaseInputs[f])]
           /\ job' = [job EXCEPT !.next = @ + 1, !.hashes[f] = File(ReleaseInputs[f])]
    /\ UNCHANGED <<flow, software, run, images, fpgaVars, simResult, patched, programmed, faults>>

\* The manifest replaces its predecessor, and the directory is archived.
ReleaseRecorded ==
    /\ job.pc = "package" /\ job.next > Len(Contents)
    /\ release' = [release EXCEPT !.manifest = job.hashes]
    /\ job' = NoJob
    /\ UNCHANGED <<flow, software, run, images, fpgaVars, simResult, patched, programmed, faults>>

\* verify_release: every file the manifest lists has its size and hash.  The script looks
\* at build/release only; the release of a competition run is for its reader to compare.
MatchesManifest ==
    /\ release.manifest # NoFiles
    /\ \A f \in Names : release.manifest[f] # Absent => release.files[f] = release.manifest[f]

-----------------------------------------------------------------------------
ScriptKilled ==
    /\ ~Idle
    /\ Disturb
    /\ job' = NoJob
    /\ UNCHANGED <<flow, software, run, images, fpgaVars, simResult, patched, programmed, release>>

\* The sources are edited, or restored: a build would give another version.
SoftwareEdited ==
    /\ Disturb
    /\ software' \in Versions \ {software}
    /\ UNCHANGED <<flow, run, images, fpgaVars, simResult, patched, programmed, release, job>>

\* scripts/clean.py fpga removes both paths under build/vivado.
CleanFpga ==
    /\ Idle /\ flow = "board"
    /\ vivado' = [synth |-> None, report |-> "none", bit |-> NoBit]
    /\ result' = NoResult /\ legacyBit' = NoBit /\ fresh' = FALSE
    /\ UNCHANGED <<flow, software, run, images, simResult,
                   patched, programmed, release, job, faults>>

Next ==
    \/ PrepareStarts \/ SourceCopied \/ RunPublished \/ RunProtected \/ RunRepaired
    \/ \E then \in {"end", "vivado"} : ImageBuildStarts(then)
    \/ MemFilesWritten \/ ImageJsonWritten \/ ImageSimulated
    \/ ResultUnlinked \/ BitUnlinked \/ ReportsUnlinked
    \/ Synthesised \/ Implemented \/ BitstreamWritten \/ ReportsChecked \/ BoardProgrammed
    \/ PatchStarts \/ MemoryPatched \/ PatchedBitCopied \/ PatchRecorded
    \/ PackageStarts \/ FilePackaged \/ ReleaseRecorded
    \/ ScriptKilled \/ SoftwareEdited \/ CleanFpga

Spec == Init /\ [][Next]_vars

-----------------------------------------------------------------------------
TypeOK ==
    /\ software \in Versions /\ run \in {"none", "ready", "protected"}
    /\ images \in [mem : {None} \cup Versions, json : {None} \cup Versions]
    /\ vivado.synth \in {None} \cup Versions /\ vivado.report \in {"none", "met", "failed"}
    /\ result.status \in Outcomes \cup {"none"} /\ simResult.status \in Outcomes \cup {"none"}
    /\ job.pc = "patch" => job.done \in 0..Memories
    /\ job.pc = "package" => job.next \in 1..Len(Contents) + 1
    /\ faults \in 0..MaxFaults

\* A sign-off that says PASS is about the bitstream that is there, which met its timing:
\* a failed or interrupted rebuild never leaves the PASS of an earlier one beside another
\* bitstream or none (run_vivado.py removes the result first).
PassIsForThisBitstream ==
    flow = "board" /\ result.status = "PASS" =>
        result.bit = vivado.bit /\ vivado.bit.timing = "met"

\* competition.bit holds the image whose hash patch_result.json records, whatever patch
\* was killed before (patch refuses to overwrite either output).
PatchResultIsTruthful ==
    patched.result # None => patched.bit = patched.result

\* What a release of a competition run holds belongs together when every file is the one
\* its manifest lists: its simulation and its FPGA sign-off passed, both for the image.json
\* in it.  Nothing is said of the bitstream and the MEM files, which Vivado and a later
\* build may have replaced.
ReleaseBelongsTogether ==
    flow = "competition" /\ MatchesManifest =>
        LET m == release.manifest
            image == m["image"][1]
        IN  /\ m["simulation"][1] = [status |-> "PASS", image |-> image]
            /\ m["result"][1].status = "PASS" /\ m["result"][1].image = image
            /\ release.files = m

\* The bitstream that is being packaged is the one the sign-off before it was about
\* (make release: fpga-check, then package_release.py).
PackagedBitIsTheCheckedOne ==
    job.pc = "package" => ReleaseInputs.bit = result.bit

\* The records of the FPGA flow are about the bitstreams that are there: the sign-off of
\* check_fpga_reports.py and the result of patch_bitstream.py.
RecordsAreTruthful == TypeOK /\ PassIsForThisBitstream /\ PatchResultIsTruthful
=============================================================================
