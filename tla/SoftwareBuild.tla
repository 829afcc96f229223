---------------------------- MODULE SoftwareBuild ---------------------------
(***************************************************************************)
(* The software of a competition run: scripts/build_software.py compares   *)
(* the program in <run>/source/original with its manifest, lets make build *)
(* <run>/software/firmware.elf and converts it into <run>/images.          *)
(*                                                                         *)
(* make goes by dates: it compiles what is younger than its object and     *)
(* links when an object is younger than the ELF.  Any profile can be built *)
(* with --run-dir, into the same directories, and only the contest profile *)
(* has the program checked.  The sources change and a build is killed at   *)
(* any moment.                                                             *)
(***************************************************************************)
EXTENDS Naturals

CONSTANTS
    Sources,        \* versions of the repository's sources
    MaxDisturbances \* edits and killed builds together

VARIABLES
    source,         \* the version of the repository's sources
    program,        \* <run>/source/original: as it was prepared, or edited since
    objects,        \* <run>/software/objects
    firmware,       \* <run>/software/firmware.elf
    raced,          \* history: program changed between a check and make's reading of it
    output,         \* <run>/images: the MEM files and image.json
    build,          \* the running script
    disturbances

vars == <<source, program, objects, firmware, raced, output, build, disturbances>>

\* contest-rtthread-coremark, and any profile without the program of the run.
Profiles == {"contest", "other"}

\* What an ELF or an image holds: repository sources, and the program linked with them.
Image(p, s, e) == [profile |-> p, source |-> s, program |-> e]
NoImage        == [profile |-> "none"]
NotCompiled    == "none"

\* For each profile the version its objects were compiled from, if any, and the program in
\* core_main.c.o; whether the program is younger than that object, and the profiles with an
\* object younger than firmware.elf.
NoObjects == [of |-> [p \in Profiles |-> {}], program |-> NotCompiled,
              younger |-> FALSE, link |-> {}]
NoBuild   == [pc |-> "idle"]

Init ==
    /\ source \in Sources /\ program = "prepared"
    /\ objects = NoObjects /\ firmware = NoImage
    /\ raced = FALSE
    /\ output = [mem |-> NoImage, json |-> NoImage]
    /\ build = NoBuild /\ disturbances = 0

Goto(pc) == build' = [build EXCEPT !.pc = pc]

\* Mutant: the sources are not compared with the manifest of the run.
SourcesUnchanged_always == TRUE

\* verify_competition_sources: the files of the run are the ones that were prepared.
SourcesUnchanged == program = "prepared"

\* build_profile: the contest profile has the program checked first.
BuildStarts(profile) ==
    /\ build = NoBuild
    /\ profile = "contest" => SourcesUnchanged
    /\ build' = [pc |-> "compile", profile |-> profile]
    /\ UNCHANGED <<source, program, objects, firmware, raced, output, disturbances>>

\* make compiles what is younger than its object, or all of it (--force, or a source whose
\* date has changed).  What profiles share is compiled by the first that needs it.
SoftwareCompiled ==
    /\ build.pc = "compile"
    /\ \E all \in BOOLEAN :
          LET p    == build.profile
              main == p = "contest" /\ (all \/ objects.program = NotCompiled \/ objects.younger)
              some == main \/ objects.of[p] # {source}
          IN  objects' = [of      |-> [objects.of EXCEPT ![p] = {source}],
                          program |-> IF main THEN program ELSE objects.program,
                          younger |-> objects.younger /\ ~main,
                          link    |-> IF all THEN Profiles
                                      ELSE IF some THEN objects.link \cup {p} ELSE objects.link]
    /\ Goto("link")
    /\ UNCHANGED <<source, program, firmware, raced, output, disturbances>>

LinkedImage(p) ==
    Image(p, objects.of[p], IF p = "contest" THEN objects.program ELSE NotCompiled)

\* firmware.elf is linked when an object of this profile is younger; whichever profile the
\* ELF that is there was linked for.
FirmwareLinked ==
    /\ build.pc = "link"
    /\ IF firmware = NoImage \/ build.profile \in objects.link
       THEN firmware' = LinkedImage(build.profile) /\ objects' = [objects EXCEPT !.link = {}]
       ELSE UNCHANGED <<firmware, objects>>
    /\ Goto("mem")
    /\ UNCHANGED <<source, program, raced, output, disturbances>>

\* elf2mem.py: the MEM files are overwritten, image.json comes last.
MemWritten ==
    /\ build.pc = "mem"
    /\ output' = [output EXCEPT !.mem = firmware]
    /\ Goto("json")
    /\ UNCHANGED <<source, program, objects, firmware, raced, disturbances>>

JsonWritten ==
    /\ build.pc = "json"
    /\ output' = [output EXCEPT !.json = firmware]
    /\ build' = NoBuild
    /\ UNCHANGED <<source, program, objects, firmware, raced, disturbances>>

-----------------------------------------------------------------------------
Disturbed == disturbances < MaxDisturbances /\ disturbances' = disturbances + 1

BuildKilled ==
    /\ build # NoBuild
    /\ build' = NoBuild
    /\ Disturbed
    /\ UNCHANGED <<source, program, objects, firmware, raced, output>>

RepositoryEdited ==
    /\ source' \in Sources \ {source}
    /\ Disturbed
    /\ UNCHANGED <<program, objects, firmware, raced, output, build>>

\* The program is edited, or the prepared one put back with its old date or a new one.
ProgramEdited ==
    /\ \/ /\ program = "prepared" /\ program' = "edited"
          /\ objects' = [objects EXCEPT !.younger = TRUE]
       \/ /\ program = "edited" /\ program' = "prepared"
          /\ \E dated \in BOOLEAN : objects' = [objects EXCEPT !.younger = dated]
    /\ raced' = (raced \/ build.pc = "compile")
    /\ Disturbed
    /\ UNCHANGED <<source, firmware, output, build>>

Next ==
    \/ \E profile \in Profiles : BuildStarts(profile)
    \/ SoftwareCompiled \/ FirmwareLinked \/ MemWritten \/ JsonWritten
    \/ BuildKilled \/ RepositoryEdited \/ ProgramEdited

Spec == Init /\ [][Next]_vars

-----------------------------------------------------------------------------
\* Neither the ELF nor an image file of a competition run holds a program changed after the
\* preparation, whatever was killed, edited and put back with an older date: what the check
\* refuses gets into no object a later build would link (verify_competition_sources,
\* software/Makefile).  Two ways around the check remain: a change between the check and
\* make's reading, and a build of another profile in the run directory, which checks
\* nothing and whose ELF make then takes for that of the contest.
ImagesFromPreparedSource ==
    ~raced /\ objects.of["other"] = {} =>
        \A image \in {firmware, output.mem, output.json} :
            image = NoImage \/ (image.profile = "contest" /\ image.program = "prepared")
=============================================================================
