------------------------------ MODULE SimFlow -------------------------------
(***************************************************************************)
(* One developer and one running script: scripts/run_verilator.py with     *)
(* --profile or --build-only, scripts/run_regression.py or                 *)
(* scripts/run_isa_tests.py, from the build of the software and of the     *)
(* model to the stamped result and the summary.  Inputs can change and the *)
(* script can be killed between any two steps.                             *)
(***************************************************************************)
EXTENDS ModelCache, ImageStore

CONSTANTS
    MaxTests,   \* tests in a regression
    Kinds       \* the scripts that are run

ASSUME SimFlowAssumption ==
    /\ MaxTests \in Nat \ {0}
    /\ Kinds \subseteq {"profile", "regression", "isa", "build"}

VARIABLES
    job,        \* the running script: its arguments and where it is
    sim,        \* the running simulator: the model and the images it loaded
    result,     \* the result.json of the test that runs, or what is there of an earlier run
    summary     \* the last regression summary written

flowVars == <<job, sim, result, summary>>
vars == <<modelVars, imageVars, flowVars>>

Tests  == 1..MaxTests
Status == {"PASS", "FAIL"}
NoJob  == [pc |-> "idle"]
NoSim  == [model |-> None]
NoResult  == [status |-> "none"]
NoSummary == [status |-> "none"]

\* The ISA images are checked-in data; their contents are a version of their own.
IsaImage == [f \in SimFiles |-> Missing]

FlowInit ==
    /\ ModelInit /\ ImageInit
    /\ job = NoJob /\ sim = NoSim 
    /\ result = NoResult
    /\ summary = NoSummary

-----------------------------------------------------------------------------
(***************************************************************************)
(* Starting and ending a script.                                           *)
(***************************************************************************)
\* The step a test starts with: a regression builds the software of every test
\* (run_profile), the ISA tests have their images, --no-software-build uses what is there.
FirstStep(kind, build_sw) ==
    IF kind = "regression" \/ (kind = "profile" /\ build_sw) THEN "make" ELSE "model"

\* A script starts on its first test.
Start(kind, rebuild, build_sw, target) ==
    /\ job = NoJob /\ kind \in Kinds
    /\ job' = [pc |-> FirstStep(kind, build_sw), kind |-> kind, rebuild |-> rebuild,
               build_sw |-> build_sw, target |-> target,
               test |-> 1, runs |-> <<>>, rtlSeen |-> {rtl}, swSeen |-> {sw}]
    /\ UNCHANGED <<modelVars, imageVars, sim, result, summary>>

\* run_verilator.py --profile, with or without --no-rtl-build, --no-software-build, --trace.
InvokeProfile ==
    \E rebuild, build_sw \in BOOLEAN, target \in Targets : Start("profile", rebuild, build_sw, target)

\* run_regression.py and run_isa_tests.py always have software: the one builds it for every
\* test, the other has the images of the tests it selects.
InvokeRegression ==
    \E rebuild \in BOOLEAN, target \in Targets : Start("regression", rebuild, TRUE, target)

InvokeIsa ==
    \E rebuild \in BOOLEAN, target \in Targets : Start("isa", rebuild, TRUE, target)

\* run_verilator.py --build-only: the model and nothing else.
InvokeBuild ==
    \E target \in Targets : Start("build", TRUE, FALSE, target)

Goto(pc) == job' = [job EXCEPT !.pc = pc]

\* Any exception, Ctrl-C or crash, and a subprocess that exceeds its time: the script
\* ends where it is, and what it has written stays.
ScriptEnds ==
    /\ job # NoJob
    /\ job' = NoJob /\ sim' = NoSim
    /\ build' = Idle /\ conv' = NoConversion
    /\ UNCHANGED <<rtl, listed, exe, manifest, sw, elf, record, mem, imageJson, result, summary>>

-----------------------------------------------------------------------------
(***************************************************************************)
(* build_profile: make, record, convert.                                   *)
(***************************************************************************)
SoftwareMade ==
    /\ job.pc = "make"
    /\ Make
    /\ Goto("record")
    /\ UNCHANGED <<modelVars, sim, result, summary>>

SoftwareRecorded ==
    /\ job.pc = "record"
    /\ RecordBuild
    /\ Goto("convert")
    /\ UNCHANGED <<modelVars, sim, result, summary>>

MemWritten ==
    /\ job.pc = "convert"
    /\ WriteMem
    /\ UNCHANGED <<modelVars, flowVars>>

ImageWritten ==
    /\ job.pc = "convert"
    /\ WriteImageJson
    /\ Goto("model")
    /\ UNCHANGED <<modelVars, sim, result, summary>>

-----------------------------------------------------------------------------
(***************************************************************************)
(* The model: build_model, or ensure_model_current.                        *)
(***************************************************************************)
\* Mutant: every ISA test may rebuild the model.
Rebuilds_everyTest == job.rebuild

\* The ISA tests rebuild for the first test only.
Rebuilds == job.rebuild /\ (job.kind = "isa" => job.test = 1)

\* The images are next; --build-only ends.
HaveModel == IF job.kind = "build" THEN job' = NoJob ELSE Goto("image")

\* The model is current: build_model returns, ensure_model_current is content.
ModelReady ==
    /\ job.pc = "model"
    /\ ModelIsCurrent(job.target)
    /\ HaveModel
    /\ UNCHANGED <<modelVars, imageVars, sim, result, summary>>

\* It is not.  (--force-rtl-build, which builds in any case, is in ModelSpec only, whose
\* builds start at any time.)
ModelBuildStarts ==
    /\ job.pc = "model"
    /\ Rebuilds /\ ~ModelIsCurrent(job.target)
    /\ BuildStarts(job.target)
    /\ Goto("build")
    /\ UNCHANGED <<imageVars, sim, result, summary>>

ModelBuildStep ==
    /\ job.pc = "build"
    /\ VerilatorReads \/ VerilatorWrites
    /\ UNCHANGED <<imageVars, flowVars>>

ModelBuilt ==
    /\ job.pc = "build"
    /\ ModelRecorded
    /\ HaveModel
    /\ UNCHANGED <<imageVars, sim, result, summary>>

-----------------------------------------------------------------------------
(***************************************************************************)
(* run_image: remove the old result, simulate, stamp, check the exit code. *)
(***************************************************************************)
\* Mutant: the result of an earlier run stays until it is overwritten.
SimulationStarts_keepsResult ==
    /\ job.pc = "image"
    /\ job.kind # "isa" => ImagePresent
    /\ sim' = [model |-> exe[job.target],
               image |-> IF job.kind = "isa" THEN IsaImage ELSE [f \in SimFiles |-> mem[f]]]
    /\ Goto("run")
    /\ UNCHANGED <<modelVars, imageVars, result, summary>>

\* The simulator loads the MEM files as it starts.
SimulationStarts ==
    /\ job.pc = "image"
    /\ job.kind # "isa" => ImagePresent
    /\ result' = NoResult
    /\ sim' = [model |-> exe[job.target],
               image |-> IF job.kind = "isa" THEN IsaImage ELSE [f \in SimFiles |-> mem[f]]]
    /\ Goto("run")
    /\ UNCHANGED <<modelVars, imageVars, summary>>

\* What soc_sim writes: the verdict; model and image are what it ran.
Report(s, status) ==
    [status |-> status, model |-> s.model, image |-> s.image, stamp |-> Missing]

\* The process ends; its exit code normally agrees with the verdict.
SimulationReports ==
    /\ job.pc = "run"
    /\ \E status \in Status : result' = Report(sim, status)
    /\ sim' = NoSim
    /\ Goto("stamp")
    /\ UNCHANGED <<modelVars, imageVars, summary>>

\* It ends without a result (the next step then finds none).
SimulationDies ==
    /\ job.pc = "run"
    /\ sim' = NoSim
    /\ Goto("stamp")
    /\ UNCHANGED <<modelVars, imageVars, result, summary>>

\* The stamp: the hash of image.json as it is now, named by the ELF in it.
StampOf == IF job.kind = "isa" THEN Missing ELSE imageJson.elf

\* What the caller keeps of a run.
Run(code) == [status |-> result.status, exit |-> code, model |-> result.model]

\* Mutant: a verdict the exit code contradicts is kept.
ResultStamped_anyExit ==
    /\ job.pc = "stamp"
    /\ result # NoResult
    /\ \E code \in {0, 1} :
          /\ result' = [result EXCEPT !.stamp = StampOf]
          /\ job' = [job EXCEPT !.pc = "next", !.runs = Append(@, Run(code))]
    /\ UNCHANGED <<modelVars, imageVars, sim, summary>>

\* The result is stamped and replaced; only then the exit code is compared with the
\* verdict, and a contradiction ends the script with the stamped result on the disk.
ResultStamped ==
    /\ job.pc = "stamp"
    /\ result # NoResult
    /\ \E code \in {0, 1} :
          /\ result' = [result EXCEPT !.stamp = StampOf]
          /\ IF (result.status = "PASS") = (code = 0)
             THEN job' = [job EXCEPT !.pc = "next", !.runs = Append(@, Run(code))]
             ELSE job' = NoJob
    /\ UNCHANGED <<modelVars, imageVars, sim, summary>>

\* The next test of a regression; a single run ends here, whatever its verdict.
NextTest ==
    /\ job.pc = "next"
    /\ job' = IF job.kind = "profile" THEN NoJob
              ELSE IF job.test = MaxTests THEN [job EXCEPT !.pc = "summary"]
              ELSE [job EXCEPT !.pc = FirstStep(job.kind, job.build_sw), !.test = @ + 1]
    /\ UNCHANGED <<modelVars, imageVars, sim, result, summary>>

Verdict(runs) == \A i \in 1..Len(runs) : runs[i].status = "PASS"

\* The summary replaces its predecessor, and the script ends.
SummaryOf(kind) ==
    /\ job.pc = "summary" /\ job.kind = kind
    /\ summary' = [status |-> IF Verdict(job.runs) THEN "PASS" ELSE "FAIL"]
    /\ job' = NoJob
    /\ UNCHANGED <<modelVars, imageVars, sim, result>>

\* A regression's summary names the model by the manifest of target "soc", and is not
\* written when there is none.
RegressionSummary == manifest["soc"] # None /\ SummaryOf("regression")

IsaSummary == SummaryOf("isa")

-----------------------------------------------------------------------------
(***************************************************************************)
(* The developer: edits at any time, cleans between scripts.               *)
(***************************************************************************)
Seen(field, v) == IF job = NoJob THEN job ELSE [job EXCEPT ![field] = @ \cup {v}]

DeveloperEditsRtl ==
    /\ EditInputs
    /\ job' = Seen("rtlSeen", rtl')
    /\ UNCHANGED <<imageVars, sim, result, summary>>

DeveloperEditsSoftware ==
    /\ EditSources
    /\ job' = Seen("swSeen", sw')
    /\ UNCHANGED <<modelVars, sim, result, summary>>

\* scripts/clean.py sim removes the models and the results.
CleanSim ==
    /\ job = NoJob
    /\ CleanModels
    /\ result' = NoResult
    /\ UNCHANGED <<imageVars, job, sim, summary>>

CleanFirmware ==
    /\ job = NoJob
    /\ CleanSoftware \/ CleanImages
    /\ UNCHANGED <<modelVars, flowVars>>

CleanRegression ==
    /\ job = NoJob
    /\ summary' = NoSummary
    /\ UNCHANGED <<modelVars, imageVars, job, sim, result>>

ScriptStep ==
    \/ SoftwareMade \/ SoftwareRecorded \/ MemWritten \/ ImageWritten
    \/ ModelReady \/ ModelBuildStarts \/ ModelBuildStep \/ ModelBuilt
    \/ SimulationStarts \/ SimulationReports \/ SimulationDies \/ ResultStamped
    \/ NextTest \/ RegressionSummary \/ IsaSummary

Next ==
    \/ InvokeProfile \/ InvokeRegression \/ InvokeIsa \/ InvokeBuild
    \/ ScriptStep
    \/ ScriptEnds
    \/ DeveloperEditsRtl \/ DeveloperEditsSoftware
    \/ CleanSim \/ CleanFirmware \/ CleanRegression

Spec == FlowInit /\ [][Next]_vars

-----------------------------------------------------------------------------
TypeOK ==
    /\ ModelTypeOK /\ ImageTypeOK
    /\ job # NoJob => job.kind \in Kinds /\ job.test \in Tests /\ job.target \in Targets
    /\ result.status \in Status \cup {"none"}
    /\ summary.status \in Status \cup {"none"}

\* A script only accepts a result of a model that is as new as the script itself: one
\* built from inputs the tree had while it ran, with or without --no-rtl-build and
\* whatever earlier results, failed builds and killed scripts left behind.
RunsAreFresh == job.pc = "next" => result.model \in job.rtlSeen

\* When the script built the software, the image hash in an accepted result is the hash
\* of the image that was simulated, and that image is whole and from sources the tree
\* had while it ran, although MEM files are overwritten in place and never checked; and
\* the build manifest beside the ELF describes the ELF of that image.
StampIsTruthful ==
    job.pc = "next" /\ job.kind # "isa" /\ job.build_sw =>
        /\ result.stamp \in job.swSeen
        /\ \A f \in SimFiles : result.image[f] = result.stamp
        /\ record = result.stamp

\* All tests of an ISA summary ran on one model (run_isa_tests.py rebuilds it once and
\* then insists that it is current), whatever was edited meanwhile.
IsaSummaryOneModel ==
    job.pc = "summary" /\ job.kind = "isa" =>
        \A i, j \in 1..Len(job.runs) : job.runs[i].model = job.runs[j].model

\* A summary that says PASS is written with a result of every test of the suite, each
\* a PASS with exit code 0.
PassMeansAllPassed ==
    [][summary' # summary /\ summary'.status = "PASS" =>
          /\ Len(job.runs) = MaxTests
          /\ \A i \in Tests : job.runs[i].status = "PASS" /\ job.runs[i].exit = 0]_vars

\* An accepted result is about this run: its model is as new as the script and its image
\* is the one the stamp names (run_verilator.py run_image).
ResultsAreTruthful == TypeOK /\ RunsAreFresh /\ StampIsTruthful
=============================================================================
