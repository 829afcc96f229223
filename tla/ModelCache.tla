----------------------------- MODULE ModelCache -----------------------------
(***************************************************************************)
(* The cache of Verilator models, scripts/run_verilator.py: an executable  *)
(* per target and, beside it, a manifest with the fingerprint of the       *)
(* inputs it is said to be built from.  A model is reused when the         *)
(* manifest's fingerprint is the one of the inputs as they are now.        *)
(*                                                                         *)
(* The contents of all inputs together (RTL, filelists, C++ sources,       *)
(* flags, Verilator) are one version; the executable is the version the    *)
(* compiler read.  The fingerprint is of the files the filelists name and  *)
(* not of the RTL they include (rtl/core/mycpu/include/core_params.svh).   *)
(* The developer edits the inputs at any time, and the script can be       *)
(* killed between any two steps.                                           *)
(***************************************************************************)
EXTENDS Naturals

CONSTANTS
    Targets,    \* directories under build/verilator: "soc" and "soc-trace"
    MaxRtl,     \* how many versions of the inputs the developer makes
    Reverts,    \* whether an edit can bring back the contents of an earlier version
    Includes    \* whether files are edited that no filelist names

ASSUME ModelCacheAssumption ==
    MaxRtl \in Nat \ {0} /\ Reverts \in BOOLEAN /\ Includes \in BOOLEAN

VARIABLES
    rtl,        \* version of the inputs in the working tree
    listed,     \* the last version that changed a file the fingerprint covers
    exe,        \* version obj_dir/soc_sim was built from, None when missing
    manifest,   \* version build_manifest.json claims, None when missing
    build       \* the build in progress: step, target, and the versions it has read

modelVars == <<rtl, listed, exe, manifest, build>>

None     == 0
Versions == 1..MaxRtl
Idle     == [step |-> "none"]
Builds   == {Idle} \cup
            [step : {"verilate"}, target : Targets, desired : Versions] \cup
            [step : {"compile", "record"}, target : Targets, desired : Versions,
             read : Versions]

ModelInit ==
    /\ rtl = 1 /\ listed = 1
    /\ exe = [t \in Targets |-> None]
    /\ manifest = [t \in Targets |-> None]
    /\ build = Idle

-----------------------------------------------------------------------------
\* The fingerprint the inputs have now: the contents of the files that are listed; the
\* target is the key.
DesiredManifest == listed

ModelIsCurrent(t) ==
    /\ exe[t] # None
    /\ manifest[t] # None
    /\ manifest[t] = DesiredManifest

\* The fingerprint is taken before anything else; then obj_dir is removed and the
\* manifest of the previous build stays.
BuildStarts(t) ==
    /\ build = Idle
    /\ exe' = [exe EXCEPT ![t] = None]
    /\ build' = [step |-> "verilate", target |-> t, desired |-> DesiredManifest]
    /\ UNCHANGED <<rtl, listed, manifest>>

\* Verilator reads the inputs, which may have changed since.
VerilatorReads ==
    /\ build.step = "verilate"
    /\ build' = [step |-> "compile", target |-> build.target,
                 desired |-> build.desired, read |-> rtl]
    /\ UNCHANGED <<rtl, listed, exe, manifest>>

VerilatorWrites ==
    /\ build.step = "compile"
    /\ exe' = [exe EXCEPT ![build.target] = build.read]
    /\ build' = [build EXCEPT !.step = "record"]
    /\ UNCHANGED <<rtl, listed, manifest>>

\* Mutant: the fingerprint is taken after the build instead of before it.
ModelRecorded_late ==
    /\ build.step = "record"
    /\ manifest' = [manifest EXCEPT ![build.target] = DesiredManifest]
    /\ build' = Idle
    /\ UNCHANGED <<rtl, listed, exe>>

ModelRecorded ==
    /\ build.step = "record"
    /\ manifest' = [manifest EXCEPT ![build.target] = build.desired]
    /\ build' = Idle
    /\ UNCHANGED <<rtl, listed, exe>>

\* The script is killed, Verilator fails or exceeds its 900 seconds.
BuildAborts ==
    /\ build # Idle
    /\ build' = Idle
    /\ UNCHANGED <<rtl, listed, exe, manifest>>

\* scripts/clean.py sim: every model and its manifest goes.
CleanModels ==
    /\ build = Idle
    /\ exe' = [t \in Targets |-> None]
    /\ manifest' = [t \in Targets |-> None]
    /\ UNCHANGED <<rtl, listed, build>>

\* The developer edits an input, one the fingerprint covers or an included one.
EditInputs ==
    /\ \E v \in Versions \ {rtl} :
          /\ Reverts \/ v = rtl + 1
          /\ rtl' = v
          /\ listed' \in {v} \cup (IF Includes THEN {listed} ELSE {})
    /\ UNCHANGED <<exe, manifest, build>>

ModelNext ==
    \/ \E t \in Targets : BuildStarts(t)
    \/ VerilatorReads \/ VerilatorWrites \/ ModelRecorded \/ BuildAborts
    \/ CleanModels
    \/ EditInputs

ModelSpec == ModelInit /\ [][ModelNext]_modelVars

-----------------------------------------------------------------------------
ModelTypeOK ==
    /\ rtl \in Versions /\ listed \in Versions
    /\ exe \in [Targets -> Versions \cup {None}]
    /\ manifest \in [Targets -> Versions \cup {None}]
    /\ build \in Builds

\* A model that is reused was built from the inputs as they are now, whatever
\* builds failed, were killed or overlapped an edit before
\* (run_verilator.py model_is_current and build_model).
CurrentModelIsFaithful ==
    \A t \in Targets : ModelIsCurrent(t) => exe[t] = rtl

\* Every edit shows in the fingerprint, and what a manifest claims is never newer than
\* its executable: the order of fingerprint, build and record that
\* CurrentModelIsFaithful rests on.
ClaimsAreOld ==
    /\ listed = rtl
    /\ \A t \in Targets : manifest[t] <= rtl /\ exe[t] <= rtl
    /\ \A t \in Targets : exe[t] # None => manifest[t] <= exe[t]
    /\ build.step # "none" => build.desired <= rtl /\ manifest[build.target] <= build.desired
    /\ build.step \in {"compile", "record"} => build.desired <= build.read /\ build.read <= rtl
    /\ build.step = "record" => exe[build.target] = build.read
=============================================================================
