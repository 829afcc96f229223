----------------------------- MODULE MCRelease ------------------------------
(***************************************************************************)
(* Release beside SoftwareBuild.  Release leaves open what a build of the  *)
(* software finds, so neither depends on the other's steps: the            *)
(* specification for TLC explores one or the other.                        *)
(***************************************************************************)
EXTENDS Release

CONSTANTS Sources, MaxDisturbances

VARIABLES source, program, objects, firmware, raced, output, build, disturbances

Build == INSTANCE SoftwareBuild

buildVars == <<source, program, objects, firmware, raced, output, build, disturbances>>

VARIABLE part       \* the specification that is explored

MCInit ==
    /\ part \in {"release", "build"}
    /\ Init
    /\ Build!Init
    /\ part = "release" => source = CHOOSE s \in Sources : TRUE

MCNext ==
    \/ part = "release" /\ Next /\ UNCHANGED <<part, buildVars>>
    \/ part = "build" /\ Build!Next /\ UNCHANGED <<part, vars>>

MCSpec == MCInit /\ [][MCNext]_<<part, vars, buildVars>>

\* Neither the ELF nor an image file of a competition run holds a program that was changed
\* after the preparation (SoftwareBuild says when, and what the check of the sources misses).
ImagesFromPreparedSource == Build!ImagesFromPreparedSource
=============================================================================
