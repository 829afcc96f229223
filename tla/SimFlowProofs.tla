---------------------------- MODULE SimFlowProofs ---------------------------
(***************************************************************************)
(* What the simulation flow promises, for every number of targets, of      *)
(* versions and of tests: an image that is accepted is whole, a result     *)
(* that is accepted is about this run, an ISA summary is about one model,  *)
(* and a summary that says PASS has a PASS of every test behind it.  As    *)
(* long as no edit brings earlier contents back and every edited file is   *)
(* one the fingerprint covers, a reused model is faithful as well.  And    *)
(* the reproduce command in a result repeats the run (Reproduce).          *)
(***************************************************************************)
EXTENDS SimFlow, TLAPS

Again == INSTANCE Reproduce

(***************************************************************************)
(* The cache of Verilator models by itself: a build may start at any time. *)
(***************************************************************************)
\* What is inductive about it: types and the order of claims.
ModelInv == ModelTypeOK /\ ClaimsAreOld

\* The first state, with nothing built, satisfies the invariant.
LEMMA ModelInitInv == ModelInit => ModelInv
BY ModelCacheAssumption DEF ModelInit, ModelInv, ModelTypeOK, ClaimsAreOld, Versions, None,
    Builds, Idle

\* Every step of a build, every abort and every edit forward preserves the types.
LEMMA ModelTypePreserved == ModelTypeOK /\ [ModelNext]_modelVars => ModelTypeOK'
<1> SUFFICES ASSUME ModelTypeOK, [ModelNext]_modelVars PROVE ModelTypeOK'
  OBVIOUS
<1> USE DEF ModelTypeOK, Versions, None
<1>1. CASE \E t \in Targets : BuildStarts(t)
  BY <1>1 DEF BuildStarts, Builds, Idle, DesiredManifest
<1>2. CASE VerilatorReads
  BY <1>2 DEF VerilatorReads, Builds, Idle
<1>3. CASE VerilatorWrites
  BY <1>3 DEF VerilatorWrites, Builds, Idle
<1>4. CASE ModelRecorded
  BY <1>4 DEF ModelRecorded, Builds, Idle
<1>5. CASE BuildAborts
  BY <1>5 DEF BuildAborts, Builds
<1>6. CASE CleanModels
  BY <1>6 DEF CleanModels
<1>7. CASE EditInputs
  BY <1>7 DEF EditInputs
<1>8. CASE UNCHANGED modelVars
  BY <1>8 DEF modelVars
<1>9. QED
  BY <1>1, <1>2, <1>3, <1>4, <1>5, <1>6, <1>7, <1>8 DEF ModelNext

\* And the order of claims, when edits only go forward and show in the fingerprint.
LEMMA ModelOrderPreserved ==
    ~Reverts /\ ~Includes /\ ModelInv /\ [ModelNext]_modelVars => ClaimsAreOld'
<1> SUFFICES ASSUME ~Reverts, ~Includes, ModelInv, [ModelNext]_modelVars PROVE ClaimsAreOld'
  OBVIOUS
<1> USE DEF ModelInv, ModelTypeOK, ClaimsAreOld, Versions, None
<1>1. CASE \E t \in Targets : BuildStarts(t)
  BY <1>1 DEF BuildStarts, Builds, Idle, DesiredManifest
<1>2. CASE VerilatorReads
  BY <1>2 DEF VerilatorReads, Builds, Idle
<1>3. CASE VerilatorWrites
  BY <1>3 DEF VerilatorWrites, Builds, Idle
<1>4. CASE ModelRecorded
  BY <1>4 DEF ModelRecorded, Builds, Idle
<1>5. CASE BuildAborts
  BY <1>5 DEF BuildAborts, Builds, Idle
<1>6. CASE CleanModels
  BY <1>6 DEF CleanModels, Idle
<1>7. CASE EditInputs
  BY <1>7 DEF EditInputs, Builds, Idle
<1>8. CASE UNCHANGED modelVars
  BY <1>8 DEF modelVars
<1>9. QED
  BY <1>1, <1>2, <1>3, <1>4, <1>5, <1>6, <1>7, <1>8 DEF ModelNext

\* The order of claims makes a reused model faithful.
LEMMA ModelInvFaithful == ModelInv => CurrentModelIsFaithful
BY DEF ModelInv, ModelTypeOK, ClaimsAreOld, CurrentModelIsFaithful, ModelIsCurrent,
       DesiredManifest, Versions, None

\* If no edit brings earlier contents back and only files the filelists name are edited, a
\* model that model_is_current accepts was built from the inputs as they are, for any
\* targets and number of versions.
THEOREM ReusedModelIsFaithful ==
    ASSUME ~Reverts, ~Includes PROVE ModelSpec => []CurrentModelIsFaithful
<1>1. ModelInv /\ [ModelNext]_modelVars => ModelInv'
  BY ModelTypePreserved, ModelOrderPreserved DEF ModelInv
<1>2. QED
  BY <1>1, ModelInvFaithful, ModelInitInv, PTL DEF ModelSpec

-----------------------------------------------------------------------------
(***************************************************************************)
(* The flow.                                                               *)
(***************************************************************************)

\* Where a script can be; the second half of the list comes after the software.
Places     == {"make", "record", "convert", "model", "build", "image", "run", "stamp",
               "next", "summary"}
AfterImage == {"model", "build", "image", "run", "stamp", "next", "summary"}

Runs == [status : Status, exit : {0, 1}, model : Versions \cup {None}]
Jobs == {NoJob} \cup
        [pc : Places, kind : Kinds, rebuild : BOOLEAN, build_sw : BOOLEAN, target : Targets,
         test : Tests, runs : Seq(Runs), rtlSeen : SUBSET Versions, swSeen : SUBSET SwVersion]
Images  == [SimFiles -> SwVersion \cup {Missing}]
Sims    == {NoSim} \cup [model : Versions \cup {None}, image : Images]
Results == {NoResult} \cup
           [status : Status, model : Versions \cup {None}, image : Images,
            stamp : SwVersion \cup {Missing}]

\* The types of what the flow adds to the models and the images.
FlowTypeOK ==
    /\ job \in Jobs /\ sim \in Sims /\ result \in Results
    /\ summary \in [status : Status \cup {"none"}]

\* A conversion runs exactly while the script is at it, from an ELF that is there, and
\* what it has written and hashed so far is of that ELF.
ConversionInv ==
    /\ conv.next = 0 <=> job.pc # "convert"
    /\ conv.next # 0 => elf # Missing
    /\ \A i \in 1..Len(MemFiles) : i < conv.next =>
          mem[MemFiles[i]] = elf /\ conv.hashes[MemFiles[i]] = elf

\* The manifest of an image names one ELF for all files.
ManifestInv == \A f \in MemNames : imageJson.files[f] = imageJson.elf

\* The build in progress is the script's, for its target, of a version it has seen.
BuildInv ==
    /\ build # Idle <=> job.pc = "build"
    /\ job.pc = "build" =>
          /\ build.target = job.target
          /\ build.step \in {"compile", "record"} => build.read \in job.rtlSeen
          /\ build.step = "record" => exe[job.target] = build.read

\* What the script has seen includes what is there now.
SeenInv == job # NoJob => rtl \in job.rtlSeen /\ sw \in job.swSeen

\* From the image to the accepted result, the model that runs is the target's executable.
ModelRunInv ==
    /\ job.pc = "run" =>
          /\ sim \in [model : Versions \cup {None}, image : Images]
          /\ sim.model = exe[job.target] /\ result = NoResult
    /\ job.pc = "stamp" /\ result # NoResult => result.model = exe[job.target]
    /\ job.pc = "next" => result # NoResult /\ result.model = exe[job.target]

\* A script that builds its software has the record, the image and the manifest of one ELF.
BuildsSoftware == job.kind # "isa" /\ job.build_sw
ImageRunInv ==
    /\ job # NoJob /\ job.kind = "regression" => job.build_sw
    /\ job.pc \in {"make", "record", "convert"} => BuildsSoftware
    /\ job.pc \in {"record", "convert"} => elf \in job.swSeen
    /\ job.pc = "convert" => record = elf
    /\ job.pc \in AfterImage /\ BuildsSoftware =>
          /\ elf \in job.swSeen /\ record = elf /\ imageJson.elf = elf
          /\ \A f \in MemNames : mem[f] = elf
          /\ job.pc = "run" => \A f \in SimFiles : sim.image[f] = elf
          /\ job.pc \in {"stamp", "next"} /\ result # NoResult =>
                \A f \in SimFiles : result.image[f] = elf
          /\ job.pc = "next" => result.stamp = elf

\* One run is kept of each test that is done, with an exit code that agrees with it; the
\* runs of the ISA tests are of the executable as it is, which is built for the first only.
SuiteInv ==
    job # NoJob =>
        /\ Len(job.runs) = IF job.pc \in {"next", "summary"} THEN job.test ELSE job.test - 1
        /\ job.pc = "summary" => job.test = MaxTests
        /\ \A i \in 1..Len(job.runs) : job.runs[i].status = "PASS" <=> job.runs[i].exit = 0
        /\ job.kind = "isa" /\ job.pc = "build" => job.test = 1
        /\ job.kind = "isa" => \A i \in 1..Len(job.runs) : job.runs[i].model = exe[job.target]

FlowInv ==
    /\ ModelTypeOK /\ ImageTypeOK /\ FlowTypeOK
    /\ ConversionInv /\ ManifestInv /\ BuildInv /\ SeenInv
    /\ ModelRunInv /\ ImageRunInv /\ SuiteInv

\* With edits that only go forward, the executable a script takes is one it has seen.
FreshInv ==
    job.pc \in {"image", "run", "stamp", "next"} => exe[job.target] \in job.rtlSeen

-----------------------------------------------------------------------------
\* The MEM files in the order convert writes them (elf2mem.py).
LEMMA MemFacts ==
    /\ Len(MemFiles) = 3
    /\ MemFiles[1] = "flat" /\ MemFiles[2] = "iccm" /\ MemFiles[3] = "dccm"
    /\ MemNames = {"flat", "iccm", "dccm"}
<1>1. MemFiles = <<"flat", "iccm", "dccm">> /\ Len(MemFiles) = 3
  BY DEF MemFiles
<1>2. MemFiles[1] = "flat" /\ MemFiles[2] = "iccm" /\ MemFiles[3] = "dccm"
  BY <1>1
<1>3. 1..3 = {1, 2, 3}
  OBVIOUS
<1>4. MemNames = {MemFiles[i] : i \in {1, 2, 3}}
  BY <1>1, <1>3 DEF MemNames
<1>5. QED
  BY <1>1, <1>2, <1>4

\* The first state, with nothing built and no script, satisfies the invariant.
LEMMA FlowInitInv == FlowInit => FlowInv /\ FreshInv
<1> SUFFICES ASSUME FlowInit PROVE FlowInv /\ FreshInv
  OBVIOUS
<1>1. ModelTypeOK /\ build = Idle
  BY ModelInitInv DEF FlowInit, ModelInv, ModelInit
<1>2. ImageTypeOK
  BY MemFacts, ImageStoreAssumption DEF FlowInit, ImageInit, ImageTypeOK, SwVersion, Missing,
     NoManifest, NoConversion
<1>3. FlowTypeOK
  BY DEF FlowInit, FlowTypeOK, Jobs, Sims, Results, NoSummary, NoJob, NoSim, NoResult
<1>4. job.pc = "idle" /\ conv.next = 0 /\ imageJson = NoManifest
  BY DEF FlowInit, ImageInit, NoJob, NoConversion
<1>5. QED
  BY <1>1, <1>2, <1>3, <1>4, MemFacts DEF FlowInit, FlowInv, FreshInv, ConversionInv,
      ManifestInv, BuildInv, SeenInv, ModelRunInv, ImageRunInv, SuiteInv, NoManifest, AfterImage

\* Every step of the flow is a step of the model cache or leaves it alone.
LEMMA FlowStepsModel == FlowTypeOK /\ [Next]_vars => [ModelNext]_modelVars
<1> SUFFICES ASSUME FlowTypeOK, [Next]_vars PROVE [ModelNext]_modelVars
  OBVIOUS
<1>1. CASE ModelBuildStarts
  <2>1. job.target \in Targets
    BY <1>1 DEF ModelBuildStarts, FlowTypeOK, Jobs, NoJob
  <2>2. QED
    BY <1>1, <2>1 DEF ModelBuildStarts, ModelNext
<1>2. CASE ModelBuildStep \/ ModelBuilt
  BY <1>2 DEF ModelBuildStep, ModelBuilt, ModelNext
<1>3. CASE ScriptStep /\ ~(ModelBuildStarts \/ ModelBuildStep \/ ModelBuilt)
  BY <1>3 DEF ScriptStep, SoftwareMade, SoftwareRecorded, MemWritten, ImageWritten,
     ModelReady, SimulationStarts, SimulationReports, SimulationDies, ResultStamped, NextTest,
     RegressionSummary, IsaSummary, SummaryOf
<1>4. CASE ScriptEnds
  BY <1>4 DEF ScriptEnds, ModelNext, BuildAborts, modelVars
<1>5. CASE DeveloperEditsRtl \/ DeveloperEditsSoftware \/ CleanSim \/ CleanFirmware
           \/ CleanRegression
  BY <1>5 DEF DeveloperEditsRtl, DeveloperEditsSoftware, CleanSim, CleanFirmware,
     CleanRegression, ModelNext
<1>6. CASE InvokeProfile \/ InvokeRegression \/ InvokeIsa \/ InvokeBuild
  BY <1>6 DEF InvokeProfile, InvokeRegression, InvokeIsa, InvokeBuild, Start
<1>7. CASE UNCHANGED vars
  BY <1>7 DEF vars
<1>8. QED
  BY <1>1, <1>2, <1>3, <1>4, <1>5, <1>6, <1>7 DEF Next, ScriptStep

\* Moving on changes where the script is and nothing else of it.
JobMoves(p) ==
    /\ job' \in Jobs /\ job' # NoJob /\ job'.pc = p
    /\ job'.kind = job.kind /\ job'.build_sw = job.build_sw /\ job'.target = job.target
    /\ job'.test = job.test /\ job'.runs = job.runs
    /\ job'.rtlSeen = job.rtlSeen /\ job'.swSeen = job.swSeen

\* That is what Goto does.
LEMMA GotoMoves ==
    ASSUME FlowTypeOK, job # NoJob, NEW p \in Places, Goto(p)
    PROVE  JobMoves(p)
BY DEF FlowTypeOK, Jobs, NoJob, Goto, Places, JobMoves

\* A run is kept and the rest of the script's state stays (ResultStamped).
LEMMA RunKept ==
    ASSUME FlowTypeOK, job # NoJob, NEW p \in Places, NEW r \in Runs,
           job' = [job EXCEPT !.pc = p, !.runs = Append(@, r)]
    PROVE  /\ job' \in Jobs /\ job' # NoJob /\ job'.pc = p
           /\ job'.kind = job.kind /\ job'.build_sw = job.build_sw /\ job'.target = job.target
           /\ job'.test = job.test /\ job'.runs = Append(job.runs, r)
           /\ job'.rtlSeen = job.rtlSeen /\ job'.swSeen = job.swSeen
<1>1. job \in Jobs \ {NoJob} /\ Append(job.runs, r) \in Seq(Runs)
  BY DEF FlowTypeOK, Jobs
<1>2. QED
  BY <1>1 DEF Jobs, NoJob, Places

\* The next test starts and the runs so far stay (NextTest).
LEMMA TestAdvances ==
    ASSUME FlowTypeOK, job # NoJob, NEW p \in Places, job.test + 1 \in Tests,
           job' = [job EXCEPT !.pc = p, !.test = @ + 1]
    PROVE  /\ job' \in Jobs /\ job' # NoJob /\ job'.pc = p
           /\ job'.kind = job.kind /\ job'.build_sw = job.build_sw /\ job'.target = job.target
           /\ job'.test = job.test + 1 /\ job'.runs = job.runs
           /\ job'.rtlSeen = job.rtlSeen /\ job'.swSeen = job.swSeen
BY DEF FlowTypeOK, Jobs, NoJob, Places

\* A script starts from whatever is there; a regression builds its
\* software, --build-only does not.
LEMMA StartPreserves ==
    ASSUME FlowInv, NEW kind \in {"profile", "regression", "isa", "build"},
           NEW rebuild \in BOOLEAN, NEW build_sw \in BOOLEAN, NEW target \in Targets,
           kind = "regression" => build_sw, kind = "build" => ~build_sw,
           Start(kind, rebuild, build_sw, target)
    PROVE  FlowInv'
<1> USE DEF FlowInv, Start, NoJob, modelVars, imageVars
<1>1. /\ job' \in Jobs /\ job' # NoJob /\ job'.pc \in {"make", "model"}
      /\ job'.kind = kind /\ job'.build_sw = build_sw
      /\ job'.pc = "make" <=> kind = "regression" \/ (kind = "profile" /\ build_sw)
      /\ job'.test = 1 /\ job'.runs = <<>> /\ job'.rtlSeen = {rtl} /\ job'.swSeen = {sw}
  BY SimFlowAssumption DEF Jobs, FirstStep, Places, Tests, ModelTypeOK, ImageTypeOK
<1>2. ModelTypeOK' /\ ImageTypeOK' /\ FlowTypeOK'
  BY <1>1 DEF ModelTypeOK, ImageTypeOK, FlowTypeOK
<1>3. ConversionInv' /\ ManifestInv' /\ BuildInv' /\ SeenInv'
  BY <1>1 DEF ConversionInv, ManifestInv, BuildInv, SeenInv
<1>4. ModelRunInv' /\ SuiteInv'
  BY <1>1 DEF ModelRunInv, SuiteInv
<1>5. ImageRunInv'
  BY <1>1 DEF ImageRunInv, AfterImage, BuildsSoftware
<1>6. QED
  BY <1>1, <1>2, <1>3, <1>4, <1>5

\* Every step of a script, every edit, clean-up and kill preserves the invariant.
LEMMA FlowInvPreserved == FlowInv /\ [Next]_vars => FlowInv'
<1> SUFFICES ASSUME FlowInv, [Next]_vars PROVE FlowInv'
  OBVIOUS
<1>0. ModelTypeOK'
  BY FlowStepsModel, ModelTypePreserved DEF FlowInv
<1>1. CASE InvokeProfile
  <2>1. PICK rebuild, build_sw \in BOOLEAN, target \in Targets :
          Start("profile", rebuild, build_sw, target)
    BY <1>1 DEF InvokeProfile
  <2>2. QED
    BY <2>1, StartPreserves
<1>2. CASE InvokeRegression
  BY <1>2, StartPreserves DEF InvokeRegression
<1>3. CASE InvokeIsa
  BY <1>3, StartPreserves DEF InvokeIsa
<1>4. CASE InvokeBuild
  BY <1>4, StartPreserves DEF InvokeBuild
<1> USE MemFacts, <1>0, SimFlowAssumption
    DEF FlowInv, ModelTypeOK, ImageTypeOK, FlowTypeOK, Jobs, Sims, Results, Images, Runs,
        Places, NoJob, NoSim, NoResult, NoConversion, NoManifest, Idle, Builds, modelVars,
        imageVars, flowVars, Missing, None, Tests, SimFiles, Status, JobMoves
<1>5. CASE SoftwareMade
  <2>1. JobMoves("record")
    BY <1>5, GotoMoves DEF SoftwareMade
  <2>2. QED
    BY <1>5, <2>1 DEF SoftwareMade, Make, ConversionInv, ManifestInv, BuildInv,
       SeenInv, ModelRunInv, ImageRunInv, SuiteInv, BuildsSoftware, AfterImage
<1>6. CASE SoftwareRecorded
  <2>1. JobMoves("convert")
    BY <1>6, GotoMoves DEF SoftwareRecorded
  <2>2. QED
    BY <1>6, <2>1 DEF SoftwareRecorded, RecordBuild, BuildRecord, ConversionInv, ManifestInv,
        BuildInv, SeenInv, ModelRunInv, ImageRunInv, SuiteInv, BuildsSoftware, AfterImage
<1>7. CASE MemWritten
  BY <1>7 DEF MemWritten, WriteMem, ConversionInv, ManifestInv, BuildInv, SeenInv,
     ModelRunInv, ImageRunInv, SuiteInv, BuildsSoftware, AfterImage
<1>8. CASE ImageWritten
  <2>1. JobMoves("model")
    BY <1>8, GotoMoves DEF ImageWritten
  <2>2. QED
    BY <1>8, <2>1 DEF ImageWritten, WriteImageJson, ConversionInv, ManifestInv, BuildInv,
       SeenInv, ModelRunInv, ImageRunInv, SuiteInv, BuildsSoftware, AfterImage
<1>9. CASE ModelReady
  BY <1>9 DEF ModelReady, HaveModel, Goto, ConversionInv, ManifestInv, BuildInv, SeenInv,
     ModelRunInv, ImageRunInv, SuiteInv, BuildsSoftware, AfterImage
<1>10. CASE ModelBuildStarts
  <2>1. JobMoves("build")
    BY <1>10, GotoMoves DEF ModelBuildStarts
  <2>2. QED
    BY <1>10, <2>1 DEF ModelBuildStarts, BuildStarts, Rebuilds, DesiredManifest, ConversionInv,
        ManifestInv, BuildInv, SeenInv, ModelRunInv, ImageRunInv, SuiteInv, BuildsSoftware,
        AfterImage
<1>11. CASE ModelBuildStep
  BY <1>11 DEF ModelBuildStep, VerilatorReads, VerilatorWrites, ConversionInv, ManifestInv,
      BuildInv, SeenInv, ModelRunInv, ImageRunInv, SuiteInv, BuildsSoftware, AfterImage
<1>12. CASE ModelBuilt
  <2> USE <1>12 DEF ModelBuilt, ModelRecorded, HaveModel
  <2>1. CASE job.kind = "build"
    BY <2>1 DEF ConversionInv, ManifestInv, BuildInv, SeenInv, ModelRunInv, ImageRunInv,
       SuiteInv, BuildsSoftware, AfterImage
  <2>2. CASE job.kind # "build"
    <3>1. JobMoves("image")
      BY <2>2, GotoMoves
    <3>2. ImageTypeOK' /\ FlowTypeOK'
      BY <3>1
    <3>3. ConversionInv' /\ ManifestInv' /\ BuildInv' /\ SeenInv'
      BY <3>1 DEF ConversionInv, ManifestInv, BuildInv, SeenInv
    <3>4. ModelRunInv' /\ ImageRunInv' /\ SuiteInv'
      BY <3>1 DEF ModelRunInv, ImageRunInv, SuiteInv, BuildsSoftware, AfterImage
    <3>5. QED
      BY <3>2, <3>3, <3>4
  <2>3. QED
    BY <2>1, <2>2
<1>13. CASE SimulationStarts
  <2>1. JobMoves("run")
    BY <1>13, GotoMoves DEF SimulationStarts
  <2>2. QED
    BY <1>13, <2>1 DEF SimulationStarts, IsaImage, ImagePresent, ConversionInv, ManifestInv,
        BuildInv, SeenInv, ModelRunInv, ImageRunInv, SuiteInv, BuildsSoftware, AfterImage
<1>14. CASE SimulationReports
  <2>1. JobMoves("stamp")
    BY <1>14, GotoMoves DEF SimulationReports
  <2>2. QED
    BY <1>14, <2>1 DEF SimulationReports, Report, ConversionInv, ManifestInv, BuildInv,
       SeenInv, ModelRunInv, ImageRunInv, SuiteInv, BuildsSoftware, AfterImage
<1>15. CASE SimulationDies
  <2>1. JobMoves("stamp") /\ job.pc = "run" /\ result' = result /\ sim' = NoSim
    BY <1>15, GotoMoves DEF SimulationDies
  <2>2. ImageTypeOK' /\ FlowTypeOK'
    BY <1>15, <2>1 DEF SimulationDies
  <2>3. ConversionInv' /\ ManifestInv' /\ BuildInv' /\ SeenInv'
    BY <1>15, <2>1 DEF SimulationDies, ConversionInv, ManifestInv, BuildInv, SeenInv
  <2>4. ModelRunInv' /\ SuiteInv'
    BY <1>15, <2>1 DEF SimulationDies, ModelRunInv, SuiteInv
  <2>5. ImageRunInv'
    BY <1>15, <2>1 DEF SimulationDies, ModelRunInv, ImageRunInv, BuildsSoftware, AfterImage
  <2>6. QED
    BY <2>2, <2>3, <2>4, <2>5
<1>16. CASE ResultStamped
  <2> USE DEF ResultStamped, StampOf, Run
  <2>1. PICK code \in {0, 1} :
          /\ result' = [result EXCEPT !.stamp = StampOf]
          /\ IF (result.status = "PASS") = (code = 0)
             THEN job' = [job EXCEPT !.pc = "next", !.runs = Append(@, Run(code))]
             ELSE job' = NoJob
    BY <1>16 DEF ResultStamped
  <2>2. /\ StampOf \in SwVersion \cup {Missing}
        /\ result' \in Results /\ result' # NoResult /\ result'.stamp = StampOf
        /\ result'.model = result.model /\ result'.image = result.image
        /\ result'.status = result.status
    BY <1>16, <2>1
  <2>3. CASE (result.status = "PASS") = (code = 0)
    <3>1. /\ job' \in Jobs /\ job' # NoJob /\ job'.pc = "next"
          /\ job'.kind = job.kind /\ job'.build_sw = job.build_sw /\ job'.target = job.target
          /\ job'.test = job.test /\ job'.runs = Append(job.runs, Run(code))
          /\ job'.rtlSeen = job.rtlSeen /\ job'.swSeen = job.swSeen
      <4>1. Run(code) \in Runs
        BY <1>16
      <4>2. job # NoJob /\ "next" \in Places
        BY <1>16
      <4>3. job' = [job EXCEPT !.pc = "next", !.runs = Append(@, Run(code))]
        BY <2>1, <2>3
      <4>4. QED
        BY <4>1, <4>2, <4>3, RunKept
    <3>2. FlowTypeOK' /\ ImageTypeOK'
      BY <1>16, <3>1, <2>2
    <3>3. ConversionInv' /\ ManifestInv' /\ BuildInv' /\ SeenInv'
      BY <1>16, <3>1, <2>2 DEF ConversionInv, ManifestInv, BuildInv, SeenInv
    <3>4. ModelRunInv'
      BY <1>16, <3>1, <2>2 DEF ModelRunInv
    <3>5. ImageRunInv'
      BY <1>16, <3>1, <2>2 DEF ImageRunInv, BuildsSoftware, AfterImage
    <3>6. SuiteInv'
      BY <1>16, <3>1, <2>3 DEF SuiteInv, ModelRunInv
    <3>7. QED
      BY <3>2, <3>3, <3>4, <3>5, <3>6
  <2>4. CASE (result.status = "PASS") # (code = 0)
    BY <1>16, <2>1, <2>2, <2>4 DEF ConversionInv, ManifestInv, BuildInv, SeenInv, ModelRunInv,
       ImageRunInv, SuiteInv, BuildsSoftware, AfterImage
  <2>5. QED
    BY <2>3, <2>4
<1>17. CASE NextTest
  <2> USE <1>17 DEF NextTest
  <2>1. CASE job.kind = "profile"
    BY <2>1 DEF ConversionInv, ManifestInv, BuildInv, SeenInv, ModelRunInv, ImageRunInv,
       SuiteInv, BuildsSoftware, AfterImage
  <2>2. CASE job.kind # "profile" /\ job.test = MaxTests
    <3>1. JobMoves("summary")
      <4>1. Goto("summary") /\ job # NoJob
        BY <2>2 DEF Goto
      <4>2. QED
        BY <4>1, GotoMoves
    <3>2. QED
      BY <2>2, <3>1 DEF ConversionInv, ManifestInv, BuildInv, SeenInv, ModelRunInv, ImageRunInv,
         SuiteInv, BuildsSoftware, AfterImage
  <2>3. CASE job.kind # "profile" /\ job.test # MaxTests
    <3>1. job.test + 1 \in Tests
      BY <2>3
    <3>2. /\ job' \in Jobs /\ job' # NoJob /\ job'.pc \in {"make", "model"}
          /\ job'.kind = job.kind /\ job'.build_sw = job.build_sw /\ job'.target = job.target
          /\ job'.test = job.test + 1 /\ job'.runs = job.runs
          /\ job'.rtlSeen = job.rtlSeen /\ job'.swSeen = job.swSeen
          /\ job'.pc = "make" <=> job.kind = "regression"
      <4>1. job # NoJob /\ FirstStep(job.kind, job.build_sw) \in Places
        BY DEF FirstStep
      <4>2. job' = [job EXCEPT !.pc = FirstStep(job.kind, job.build_sw), !.test = @ + 1]
        BY <2>3
      <4>3. QED
        BY ZenonT(30), <2>3, <3>1, <4>1, <4>2, TestAdvances DEF FirstStep
    <3>3. ImageTypeOK' /\ FlowTypeOK'
      BY <3>2
    <3>4. ConversionInv' /\ ManifestInv' /\ BuildInv' /\ SeenInv'
      BY <3>2 DEF ConversionInv, ManifestInv, BuildInv, SeenInv
    <3>5. ModelRunInv' /\ ImageRunInv'
      BY <3>2 DEF ModelRunInv, ImageRunInv, BuildsSoftware, AfterImage
    <3>6. SuiteInv'
      BY <3>2 DEF SuiteInv
    <3>7. QED
      BY <3>3, <3>4, <3>5, <3>6
  <2>4. QED
    BY <2>1, <2>2, <2>3
<1>18. CASE RegressionSummary
  BY <1>18 DEF RegressionSummary, SummaryOf, ConversionInv, ManifestInv, BuildInv, SeenInv,
     ModelRunInv, ImageRunInv, SuiteInv, BuildsSoftware, AfterImage
<1>19. CASE IsaSummary
  BY <1>19 DEF IsaSummary, SummaryOf, ConversionInv, ManifestInv, BuildInv, SeenInv,
     ModelRunInv, ImageRunInv, SuiteInv, BuildsSoftware, AfterImage
<1>20. CASE ScriptEnds
  BY <1>20 DEF ScriptEnds, ConversionInv, ManifestInv, BuildInv, SeenInv,
     ModelRunInv, ImageRunInv, SuiteInv, BuildsSoftware, AfterImage
<1>21. CASE DeveloperEditsRtl
  <2> USE <1>21 DEF DeveloperEditsRtl, EditInputs, Seen
  <2>1. ImageTypeOK'
    OBVIOUS
  <2>2. FlowTypeOK'
    BY ZenonT(30)
  <2>3. ConversionInv' /\ ManifestInv' /\ BuildInv' /\ SeenInv'
    BY DEF FlowInv, ConversionInv, ManifestInv, BuildInv, SeenInv
  <2>4. ModelRunInv'
    BY DEF FlowInv, BuildInv, ModelRunInv
  <2>5. ImageRunInv'
    BY DEF FlowInv, ConversionInv, ManifestInv, SeenInv, BuildInv, ModelRunInv, ImageRunInv,
           BuildsSoftware, AfterImage
  <2>6. SuiteInv'
    BY DEF FlowInv, BuildInv, ModelRunInv, SuiteInv
  <2>7. QED
    BY <2>1, <2>2, <2>3, <2>4, <2>5, <2>6
<1>22. CASE DeveloperEditsSoftware
  BY <1>22 DEF DeveloperEditsSoftware, EditSources, Seen, ConversionInv, ManifestInv, BuildInv,
      SeenInv, ModelRunInv, ImageRunInv, SuiteInv, BuildsSoftware, AfterImage
<1>23. CASE CleanSim
  BY <1>23 DEF CleanSim, CleanModels, ConversionInv, ManifestInv, BuildInv, SeenInv,
     ModelRunInv, ImageRunInv, SuiteInv, BuildsSoftware, AfterImage
<1>24. CASE CleanFirmware
  <2> USE <1>24 DEF CleanFirmware, CleanSoftware, CleanImages
  <2>1. ImageTypeOK'
    OBVIOUS
  <2>2. FlowTypeOK'
    OBVIOUS
  <2>3. ConversionInv' /\ ManifestInv' /\ BuildInv' /\ SeenInv'
    BY DEF FlowInv, ConversionInv, ManifestInv, BuildInv, SeenInv
  <2>4. ModelRunInv'
    BY DEF FlowInv, BuildInv, ModelRunInv
  <2>5. ImageRunInv'
    BY DEF FlowInv, ConversionInv, ManifestInv, SeenInv, BuildInv, ModelRunInv, ImageRunInv,
           BuildsSoftware, AfterImage
  <2>6. SuiteInv'
    BY DEF FlowInv, BuildInv, ModelRunInv, SuiteInv
  <2>7. QED
    BY <2>1, <2>2, <2>3, <2>4, <2>5, <2>6
<1>25. CASE CleanRegression
  BY <1>25 DEF CleanRegression, NoSummary, ConversionInv, ManifestInv, BuildInv, SeenInv,
     ModelRunInv, ImageRunInv, SuiteInv, BuildsSoftware, AfterImage
<1>26. CASE UNCHANGED vars
  BY <1>26 DEF vars, ConversionInv, ManifestInv, BuildInv, SeenInv,
     ModelRunInv, ImageRunInv, SuiteInv, BuildsSoftware, AfterImage
<1>27. QED
  BY <1>1, <1>2, <1>3, <1>4, <1>5, <1>6, <1>7, <1>8, <1>9, <1>10, <1>11, <1>12, <1>13, <1>14,
      <1>15, <1>16, <1>17, <1>18, <1>19, <1>20, <1>21, <1>22, <1>23, <1>24, <1>25, <1>26
      DEF Next, ScriptStep

-----------------------------------------------------------------------------
\* The executable a script has accepted stays one it has seen: nobody else builds while it
\* runs, and one that is current when it is found is of the inputs as they are.
LEMMA FreshPreserved ==
    FlowInv /\ FreshInv /\ CurrentModelIsFaithful /\ [Next]_vars => FreshInv'
<1> SUFFICES ASSUME FlowInv, FreshInv, CurrentModelIsFaithful, [Next]_vars PROVE FreshInv'
  OBVIOUS
<1> USE DEF FlowInv, FreshInv, FlowTypeOK, Jobs, NoJob, modelVars, flowVars
<1>1. CASE InvokeProfile \/ InvokeRegression \/ InvokeIsa \/ InvokeBuild
  BY <1>1 DEF InvokeProfile, InvokeRegression, InvokeIsa, InvokeBuild, Start, FirstStep
<1>2. CASE SoftwareMade \/ SoftwareRecorded \/ MemWritten \/ ImageWritten
  <2>1. job'.pc \in {"record", "convert", "model"}
    BY <1>2 DEF SoftwareMade, SoftwareRecorded, MemWritten, ImageWritten, Goto
  <2>2. QED
    BY <2>1
<1>3. CASE ModelReady
  <2>1. exe[job.target] = rtl /\ rtl \in job.rtlSeen
    BY <1>3 DEF ModelReady, CurrentModelIsFaithful, SeenInv
  <2>2. QED
    BY <1>3, <2>1 DEF ModelReady, HaveModel, Goto
<1>4. CASE ModelBuildStarts \/ ModelBuildStep
  <2>1. job'.pc = "build"
    BY <1>4 DEF ModelBuildStarts, ModelBuildStep, Goto
  <2>2. QED
    BY <2>1
<1>5. CASE ModelBuilt
  <2>1. exe' = exe /\ exe[job.target] \in job.rtlSeen
    BY <1>5 DEF ModelBuilt, ModelRecorded, BuildInv
  <2>2. QED
    BY <1>5, <2>1 DEF ModelBuilt, HaveModel, Goto
<1>6. CASE SimulationStarts \/ SimulationReports \/ SimulationDies
  <2>1. /\ exe' = exe /\ job'.target = job.target /\ job'.rtlSeen = job.rtlSeen
        /\ job.pc \in {"image", "run"}
    BY <1>6 DEF SimulationStarts, SimulationReports, SimulationDies, Goto
  <2>2. QED
    BY <2>1
<1>7. CASE ResultStamped
  <2>1. exe' = exe /\ job.pc = "stamp"
    BY <1>7 DEF ResultStamped
  <2>2. PICK code \in {0, 1} :
          IF (result.status = "PASS") = (code = 0)
          THEN job' = [job EXCEPT !.pc = "next", !.runs = Append(@, Run(code))]
          ELSE job' = NoJob
    BY <1>7 DEF ResultStamped
  <2>3. CASE (result.status = "PASS") = (code = 0)
    <3>1. Run(code) \in Runs /\ job # NoJob /\ "next" \in Places
      BY <1>7 DEF ResultStamped, Run, Runs, Results, NoResult, Places
    <3>2. job'.target = job.target /\ job'.rtlSeen = job.rtlSeen
      BY <2>2, <2>3, <3>1, RunKept
    <3>3. QED
      BY <2>1, <3>2
  <2>4. CASE (result.status = "PASS") # (code = 0)
    BY <2>2, <2>4
  <2>5. QED
    BY <2>3, <2>4
<1>8. CASE NextTest
  BY <1>8 DEF NextTest, FirstStep
<1>9. CASE RegressionSummary \/ IsaSummary \/ ScriptEnds
  BY <1>9 DEF RegressionSummary, IsaSummary, SummaryOf, ScriptEnds
<1>10. CASE DeveloperEditsRtl \/ DeveloperEditsSoftware
  <2>1. /\ exe' = exe /\ job'.pc = job.pc
        /\ job # NoJob => job'.target = job.target /\ job.rtlSeen \subseteq job'.rtlSeen
    BY <1>10 DEF DeveloperEditsRtl, DeveloperEditsSoftware, EditInputs, Seen
  <2>2. QED
    BY <2>1
<1>11. CASE CleanSim \/ CleanFirmware \/ CleanRegression
  BY <1>11 DEF CleanSim, CleanFirmware, CleanRegression
<1>12. CASE UNCHANGED vars
  BY <1>12 DEF vars
<1>13. QED
  BY <1>1, <1>2, <1>3, <1>4, <1>5, <1>6, <1>7, <1>8, <1>9, <1>10, <1>11, <1>12
     DEF Next, ScriptStep

\* The invariant of the flow, for every number of targets, versions and tests.
LEMMA FlowInvariant == Spec => []FlowInv
BY FlowInitInv, FlowInvPreserved, PTL DEF Spec

\* An image that check_images accepts is a complete conversion of one ELF, whatever
\* conversions were cut short or cleaned away before (elf2mem.py, check_images.py).
THEOREM AcceptedImagesAreWhole == Spec => []AcceptedImageIsWhole
<1>1. FlowInv => AcceptedImageIsWhole
  BY DEF FlowInv, ManifestInv, AcceptedImageIsWhole, CheckImages
<1>2. QED
  BY <1>1, FlowInvariant, PTL

\* All tests of an ISA summary ran on one model, whatever was edited meanwhile and
\* whether or not edits bring earlier contents back (run_isa_tests.py).
THEOREM IsaSummaryIsOfOneModel == Spec => []IsaSummaryOneModel
<1>1. FlowInv => IsaSummaryOneModel
  BY DEF FlowInv, SuiteInv, IsaSummaryOneModel, NoJob
<1>2. QED
  BY <1>1, FlowInvariant, PTL

\* A summary that says PASS is written with a PASS and exit code 0 of every test of the
\* suite (run_regression.py, run_isa_tests.py).
THEOREM SummaryPassIsEarned == Spec => PassMeansAllPassed
<1> DEFINE Earned == summary' # summary /\ summary'.status = "PASS" =>
              /\ Len(job.runs) = MaxTests
              /\ \A i \in Tests : job.runs[i].status = "PASS" /\ job.runs[i].exit = 0
<1>1. FlowInv /\ [Next]_vars => [Earned]_vars
  <2> SUFFICES ASSUME FlowInv, Next, summary' # summary, summary'.status = "PASS"
               PROVE  /\ Len(job.runs) = MaxTests
                      /\ \A i \in Tests : job.runs[i].status = "PASS" /\ job.runs[i].exit = 0
    OBVIOUS
  <2>1. CASE RegressionSummary \/ IsaSummary
    <3>1. job # NoJob /\ job.pc = "summary" /\ Verdict(job.runs)
      BY <2>1 DEF RegressionSummary, IsaSummary, SummaryOf, NoJob
    <3>2. Len(job.runs) = MaxTests
      BY <3>1 DEF FlowInv, SuiteInv
    <3>3. \A i \in 1..Len(job.runs) : job.runs[i].status = "PASS" /\ job.runs[i].exit = 0
      BY <3>1 DEF FlowInv, SuiteInv, Verdict
    <3>4. QED
      BY <3>2, <3>3 DEF Tests
  <2>2. CASE CleanRegression
    BY <2>2 DEF CleanRegression, NoSummary
  <2>3. CASE ~(RegressionSummary \/ IsaSummary \/ CleanRegression)
    BY <2>3 DEF Next, ScriptStep, InvokeProfile, InvokeRegression, InvokeIsa, InvokeBuild, Start,
       SoftwareMade, SoftwareRecorded, MemWritten, ImageWritten, ModelReady, ModelBuildStarts,
       ModelBuildStep, ModelBuilt, SimulationStarts, SimulationReports, SimulationDies,
       ResultStamped, NextTest, ScriptEnds, DeveloperEditsRtl, DeveloperEditsSoftware,
       CleanSim, CleanFirmware, flowVars
  <2>4. QED
    BY <2>1, <2>2, <2>3
<1>2. QED
  BY <1>1, FlowInvariant, PTL DEF Spec, PassMeansAllPassed

\* The whole flow keeps what the model cache promises by itself: a model it reuses was
\* built from the inputs as they are, if no edit brings earlier contents back and only
\* files the filelists name are edited (run_verilator.py model_is_current).
THEOREM FlowReusesFaithfulModels ==
    ASSUME ~Reverts, ~Includes PROVE Spec => []CurrentModelIsFaithful
<1>1. FlowInit => ModelInv
  BY ModelInitInv DEF FlowInit
<1>2. ModelInv /\ FlowInv /\ [Next]_vars => ModelInv'
  BY FlowStepsModel, ModelTypePreserved, ModelOrderPreserved DEF FlowInv, ModelInv
<1>3. ModelInv => CurrentModelIsFaithful
  BY ModelInvFaithful
<1>4. QED
  BY <1>1, <1>2, <1>3, FlowInvariant, PTL DEF Spec

\* Under the same condition an accepted result is about this run: of a model as new as the
\* script, and of the image its stamp names, whole and from sources the tree had while the
\* script ran, with the build record beside it (run_verilator.py run_image).
THEOREM AcceptedResultsAreTruthful ==
    ASSUME ~Reverts, ~Includes PROVE Spec => []ResultsAreTruthful
<1>1. FlowInv => TypeOK
  BY DEF FlowInv, TypeOK, FlowTypeOK, Jobs, NoJob, Results, NoResult
<1>2. FlowInv => StampIsTruthful
  BY MemFacts DEF FlowInv, ImageRunInv, ModelRunInv, StampIsTruthful, BuildsSoftware, AfterImage
<1>3. FlowInv /\ FreshInv => RunsAreFresh
  BY DEF FlowInv, FreshInv, ModelRunInv, RunsAreFresh
<1>4. QED
  BY <1>1, <1>2, <1>3, FlowInitInv, FreshPreserved, FlowInvariant, FlowReusesFaithfulModels, PTL
     DEF Spec, ResultsAreTruthful

-----------------------------------------------------------------------------
(***************************************************************************)
(* The reproduce command, for every command line.                          *)
(*                                                                         *)
(* The texts that come back: between quotes, and as a name, which is not   *)
(* quoted; options, lists, commands, and the command lines of main with    *)
(* such texts.  A list that is given is not empty.                         *)
(***************************************************************************)
Kept(text)     == text \notin {"not-ascii", "with-tab", "with-dollar", "-dash"}
IsName(text)   == text \notin {"empty", "with-blank", "with-tab", "with-dollar", "-dash", ">", "msh>"}
IsOption(o)    == o = <<>> \/ o = <<o[1]>>
IsKeptList(l)  == l = [i \in DOMAIN l |-> l[i]] /\ \A i \in DOMAIN l : Kept(l[i])
IsTexts(o)     == o = <<>> \/ (o = <<o[1]>> /\ o[1] # <<>> /\ IsKeptList(o[1]))
IsCommand(c)   == c = [i \in DOMAIN c |-> c[i]] /\ (c # <<>> => Kept(c[1]))

CommandLine(args) ==
    /\ args.profile \in DOMAIN Again!ProfileDefaults
    /\ args.test = <<>> \/ (args.test = <<args.test[1]>> /\ (args.test[1] = "empty" \/ IsName(args.test[1])))
    /\ IsOption(args.cycles) /\ IsOption(args.iterations)
    /\ args.prompt = <<>> \/ (args.prompt = <<args.prompt[1]>> /\ Kept(args.prompt[1]))
    /\ \/ args.checker = <<>>
       \/ args.checker = <<args.checker[1]>> /\ (args.checker[1] = "empty" \/ IsName(args.checker[1]))
    /\ IsCommand(args.command)
    /\ IsTexts(args.followups) /\ IsTexts(args.expect) /\ IsTexts(args.reject)

LEMMA SomeIsGiven ==
    ASSUME NEW x, NEW d
    PROVE  /\ Again!Some(x) # Again!None /\ Again!Some(x)[1] = x
           /\ Again!Or(Again!Some(x), d) = x /\ Again!Or(<<x>>, d) = x
           /\ Again!Or(Again!None, d) = d /\ Again!Or(<<>>, d) = d
           /\ Again!None = <<>> /\ Again!Some(x) = <<x>>
  BY DEF Again!Some, Again!None, Again!Or

LEMMA TextIsGiven ==
    ASSUME NEW x, NEW d
    PROVE  /\ Again!OrText(<<>>, d) = d /\ Again!OrText(<<"empty">>, d) = d
           /\ x # "empty" => Again!OrText(<<x>>, d) = x
  BY DEF Again!Some, Again!None, Again!OrText

LEMMA TextsSurvive ==
    ASSUME NEW texts, IsKeptList(texts)
    PROVE  Again!QuotedAll(texts) = texts
  <1>1. \A i \in DOMAIN texts : Again!Quoted(texts[i]) = texts[i]
    BY DEF IsKeptList, Kept, Again!Quoted
  <1>2. texts = [i \in DOMAIN texts |-> texts[i]]
    BY DEF IsKeptList
  <1> QED BY <1>1, <1>2 DEF Again!QuotedAll

LEMMA CommandSurvives ==
    ASSUME NEW command, IsCommand(command)
    PROVE  Again!QuotedCommand(command) = command
  <1>1. ASSUME NEW i \in DOMAIN command
        PROVE  (IF i = 1 THEN Again!Quoted(command[i]) ELSE command[i]) = command[i]
    <2>1. CASE i # 1
      BY <2>1
    <2>2. CASE i = 1
      <3>1. DOMAIN command # {}
        BY <1>1
      <3>2. command # <<>>
        BY <3>1
      <3>3. Kept(command[i])
        BY <2>2, <3>2 DEF IsCommand
      <3> QED BY <2>2, <3>3 DEF Kept, Again!Quoted
    <2> QED BY <2>1, <2>2
  <1>2. command = [i \in DOMAIN command |-> command[i]]
    BY DEF IsCommand
  <1> QED BY <1>1, <1>2 DEF Again!QuotedCommand

\* The record run_profile is called with.
IsCall(call) ==
    call = [profile |-> call.profile, test |-> call.test, cycles |-> call.cycles, seed |-> call.seed,
            performance |-> call.performance, iterations |-> call.iterations, wall |-> call.wall,
            trace |-> call.trace, run_dir |-> call.run_dir, command |-> call.command,
            followups |-> call.followups, prompt |-> call.prompt, checker |-> call.checker,
            expect |-> call.expect, reject |-> call.reject]

LEMMA RunFields ==
    ASSUME NEW call, IsCall(call)
    PROVE  LET defaults == Again!ProfileDefaults[call.profile]
               run      == Again!RunProfile(call)
           IN  /\ run.profile = call.profile /\ run.test = call.test /\ run.cycles = call.cycles
               /\ run.seed = call.seed /\ run.wall = call.wall /\ run.trace = call.trace
               /\ run.run_dir = call.run_dir /\ run.command = call.command
               /\ run.followups = call.followups /\ run.prompt = call.prompt
               /\ run.performance = Again!Or(call.performance, defaults.iterations # Again!None)
               /\ run.iterations = Again!Or(call.iterations, Again!Or(defaults.iterations, 0))
               /\ run.checker = Again!OrText(call.checker, defaults.checker)
               /\ run.expect = Again!Or(call.expect, defaults.expect)
               /\ run.reject = Again!Or(call.reject, defaults.reject)
  <1> DEFINE D == DOMAIN call
  <1>1. D = {"profile", "test", "cycles", "seed", "performance", "iterations", "wall", "trace",
             "run_dir", "command", "followups", "prompt", "checker", "expect", "reject"}
    BY DEF IsCall
  <1> HIDE DEF D
  <1> QED BY <1>1 DEF Again!RunProfile, D

\* A call is not a refusal.
LEMMA CallIsMade ==
    ASSUME NEW call, IsCall(call)
    PROVE  call # Again!Refused
  <1>1. "profile" \in DOMAIN call
    BY DEF IsCall
  <1>2. "profile" \notin DOMAIN Again!Refused
    BY DEF Again!Refused
  <1> QED BY <1>1, <1>2

\* What main makes of a command line: refused without cycles, or a call.
LEMMA MainFields ==
    ASSUME NEW args
    PROVE  LET call       == Again!Main(args)
               defaults   == Again!ProfileDefaults[args.profile]
               iterations == Again!Or(args.iterations, Again!Or(defaults.iterations, 0))
               shell      == IF args.profile \in Again!ShellProfiles THEN 24000 + 1000 * iterations ELSE 0
               asked      == Again!Or(args.cycles, shell)
           IN  /\ call = Again!Refused <=> defaults.cycles = <<>> /\ asked = 0
               /\ call # Again!Refused =>
                     /\ IsCall(call)
                     /\ call.profile = args.profile /\ call.test = Again!OrText(args.test, args.profile)
                     /\ call.cycles = IF asked = 0 THEN defaults.cycles[1] ELSE asked
                     /\ call.seed = args.seed /\ call.wall = args.wall /\ call.trace = args.trace
                     /\ call.run_dir = args.run_dir /\ call.performance = <<>>
                     /\ call.iterations = <<iterations>>
                     /\ call.command = IF args.command = <<>> /\ args.profile \in Again!ShellProfiles
                                       THEN Again!CoreMark(iterations) ELSE args.command
                     /\ call.followups = Again!Or(args.followups, IF args.profile = "contest"
                                                                  THEN <<"ps", "help">> ELSE <<>>)
                     /\ call.prompt = Again!OrText(args.prompt, IF args.profile = "contest"
                                                                THEN ">" ELSE "msh>")
                     /\ call.checker = args.checker /\ call.expect = args.expect
                     /\ call.reject = args.reject
  <1> DEFINE defaults == Again!ProfileDefaults[args.profile]
             iterations == Again!Or(args.iterations, Again!Or(defaults.iterations, 0))
             shell == IF args.profile \in Again!ShellProfiles THEN 24000 + 1000 * iterations ELSE 0
             asked == Again!Or(args.cycles, shell)
             cycles == IF asked = 0 THEN defaults.cycles[1] ELSE asked
             test == Again!OrText(args.test, args.profile)
             command == IF args.command = <<>> /\ args.profile \in Again!ShellProfiles
                        THEN Again!CoreMark(iterations) ELSE args.command
             followups == Again!Or(args.followups, IF args.profile = "contest"
                                                   THEN <<"ps", "help">> ELSE <<>>)
             prompt == Again!OrText(args.prompt, IF args.profile = "contest" THEN ">" ELSE "msh>")
             made ==
                [profile |-> args.profile, test |-> test, cycles |-> cycles, seed |-> args.seed,
                 performance |-> Again!None, iterations |-> Again!Some(iterations), wall |-> args.wall,
                 trace |-> args.trace, run_dir |-> args.run_dir, command |-> command,
                 followups |-> followups, prompt |-> prompt, checker |-> args.checker,
                 expect |-> args.expect, reject |-> args.reject]
  <1>1. Again!Main(args) = IF defaults.cycles = Again!None /\ asked = 0 THEN Again!Refused ELSE made
    BY DEF Again!Main
  <1>3. Again!None = <<>> /\ Again!Some(iterations) = <<iterations>>
    BY DEF Again!None, Again!Some
  <1> HIDE DEF iterations, asked, cycles, test, command, followups, prompt
  <1>4. IsCall(made)
    BY DEF IsCall
  <1>5. made # Again!Refused
    <2> HIDE DEF made
    <2> QED BY <1>4, CallIsMade
  <1>6. Again!Main(args) = Again!Refused <=> defaults.cycles = <<>> /\ asked = 0
    <2> HIDE DEF made
    <2> QED BY <1>1, <1>3, <1>5, Zenon
  <1>7. Again!Main(args) # Again!Refused => Again!Main(args) = made
    <2> HIDE DEF made
    <2> QED BY <1>1, Zenon
  <1>8. /\ made.profile = args.profile /\ made.test = test /\ made.cycles = cycles
        /\ made.seed = args.seed /\ made.wall = args.wall /\ made.trace = args.trace
        /\ made.run_dir = args.run_dir /\ made.performance = <<>>
        /\ made.iterations = <<iterations>> /\ made.command = command
        /\ made.followups = followups /\ made.prompt = prompt
        /\ made.checker = args.checker /\ made.expect = args.expect /\ made.reject = args.reject
    BY <1>3
  <1> HIDE DEF made
  <1> QED BY <1>4, <1>6, <1>7, <1>8 DEF iterations, asked, cycles, test, command, followups, prompt

\* The tables: the texts of every profile survive.
PlainRow(d) ==
    /\ IsName(d.checker) /\ IsKeptList(d.expect) /\ IsKeptList(d.reject)
    /\ d.cycles = <<>> \/ d.cycles[1] # 0

LEMMA ListsOfKept ==
    ASSUME NEW T, \A t \in T : Kept(t), NEW texts \in Seq(T)
    PROVE  IsKeptList(texts)
  <1>1. \A i \in DOMAIN texts : texts[i] \in T
    OBVIOUS
  <1>2. texts = [i \in DOMAIN texts |-> texts[i]]
    OBVIOUS
  <1> QED BY <1>1, <1>2, Zenon DEF IsKeptList

LEMMA RowIsPlain ==
    ASSUME NEW c, NEW i, NEW k, NEW e, NEW r, IsName(k), IsKeptList(e), IsKeptList(r),
           c = <<>> \/ c[1] # 0
    PROVE  PlainRow(Again!Defaults(c, i, k, e, r))
  BY DEF Again!Defaults, PlainRow

LEMMA TablesArePlain ==
    ASSUME NEW p \in DOMAIN Again!ProfileDefaults
    PROVE  IsName(p) /\ PlainRow(Again!ProfileDefaults[p])
  <1>1. p \in {"smoke", "trap_timer", "coremark", "rtthread_coremark", "contest", "baremetal"}
    BY DEF Again!ProfileDefaults
  <1> DEFINE T == {"PASS", "validated", "errors", "ready", "msh>", "ps"}
  <1>2. /\ <<"PASS">> \in Seq(T) /\ <<"validated">> \in Seq(T) /\ <<"errors">> \in Seq(T)
        /\ <<"ready", "msh>">> \in Seq(T) /\ <<"ready", "msh>", "ps">> \in Seq(T)
        /\ <<>> \in Seq(T)
    OBVIOUS
  <1>3. \A l \in Seq(T) : IsKeptList(l)
    <2>1. \A t \in T : Kept(t)
      BY DEF Kept
    <2> HIDE DEF T
    <2> QED BY <2>1, ListsOfKept, Zenon
  <1> HIDE DEF T
  <1>4. /\ IsKeptList(<<>>) /\ IsKeptList(<<"PASS">>) /\ IsKeptList(<<"validated">>)
        /\ IsKeptList(<<"errors">>) /\ IsKeptList(<<"ready", "msh>">>)
        /\ IsKeptList(<<"ready", "msh>", "ps">>)
    BY <1>2, <1>3, Zenon
  <1> DEFINE d == Again!ProfileDefaults[p]
  <1>5. CASE p = "smoke"
    <2> DEFINE cycles == <<750>>
               window == <<>>
               expect == <<"PASS">>
               reject == <<>>
    <2>1. d = Again!Defaults(cycles, window, "status-uart", expect, reject)
      BY <1>5 DEF Again!ProfileDefaults, Again!Some, Again!None
    <2>2. /\ IsName(p) /\ IsName("status-uart") /\ (cycles = <<>> \/ cycles[1] # 0)
          /\ IsKeptList(expect) /\ IsKeptList(reject)
      BY <1>4, <1>5 DEF IsName
    <2> HIDE DEF d, cycles, window, expect, reject
    <2> QED BY <2>1, <2>2, RowIsPlain, Zenon DEF d
  <1>6. CASE p = "trap_timer"
    <2> DEFINE cycles == <<500>>
               window == <<>>
               expect == <<>>
               reject == <<>>
    <2>1. d = Again!Defaults(cycles, window, "status", expect, reject)
      BY <1>6 DEF Again!ProfileDefaults, Again!Some, Again!None
    <2>2. /\ IsName(p) /\ IsName("status") /\ (cycles = <<>> \/ cycles[1] # 0)
          /\ IsKeptList(expect) /\ IsKeptList(reject)
      BY <1>4, <1>6 DEF IsName
    <2> HIDE DEF d, cycles, window, expect, reject
    <2> QED BY <2>1, <2>2, RowIsPlain, Zenon DEF d
  <1>7. CASE p = "coremark"
    <2> DEFINE cycles == <<50000>>
               window == <<1>>
               expect == <<"validated">>
               reject == <<"errors">>
    <2>1. d = Again!Defaults(cycles, window, "crc", expect, reject)
      BY <1>7 DEF Again!ProfileDefaults, Again!Some, Again!None
    <2>2. /\ IsName(p) /\ IsName("crc") /\ (cycles = <<>> \/ cycles[1] # 0)
          /\ IsKeptList(expect) /\ IsKeptList(reject)
      BY <1>4, <1>7 DEF IsName
    <2> HIDE DEF d, cycles, window, expect, reject
    <2> QED BY <2>1, <2>2, RowIsPlain, Zenon DEF d
  <1>8. CASE p = "rtthread_coremark"
    <2> DEFINE cycles == <<30000>>
               window == <<3>>
               expect == <<"ready", "msh>">>
               reject == <<"errors">>
    <2>1. d = Again!Defaults(cycles, window, "crc-window", expect, reject)
      BY <1>8 DEF Again!ProfileDefaults, Again!Some, Again!None
    <2>2. /\ IsName(p) /\ IsName("crc-window") /\ (cycles = <<>> \/ cycles[1] # 0)
          /\ IsKeptList(expect) /\ IsKeptList(reject)
      BY <1>4, <1>8 DEF IsName
    <2> HIDE DEF d, cycles, window, expect, reject
    <2> QED BY <2>1, <2>2, RowIsPlain, Zenon DEF d
  <1>9. CASE p = "contest"
    <2> DEFINE cycles == <<30000>>
               window == <<3>>
               expect == <<"ready", "msh>", "ps">>
               reject == <<"errors">>
    <2>1. d = Again!Defaults(cycles, window, "crc-window-uart", expect, reject)
      BY <1>9 DEF Again!ProfileDefaults, Again!Some, Again!None
    <2>2. /\ IsName(p) /\ IsName("crc-window-uart") /\ (cycles = <<>> \/ cycles[1] # 0)
          /\ IsKeptList(expect) /\ IsKeptList(reject)
      BY <1>4, <1>9 DEF IsName
    <2> HIDE DEF d, cycles, window, expect, reject
    <2> QED BY <2>1, <2>2, RowIsPlain, Zenon DEF d
  <1>10. CASE p = "baremetal"
    <2> DEFINE cycles == <<>>
               window == <<>>
               expect == <<>>
               reject == <<>>
    <2>1. d = Again!Defaults(cycles, window, "status", expect, reject)
      BY <1>10 DEF Again!ProfileDefaults, Again!Some, Again!None
    <2>2. /\ IsName(p) /\ IsName("status") /\ (cycles = <<>> \/ cycles[1] # 0)
          /\ IsKeptList(expect) /\ IsKeptList(reject)
      BY <1>4, <1>10 DEF IsName
    <2> HIDE DEF d, cycles, window, expect, reject
    <2> QED BY <2>1, <2>2, RowIsPlain, Zenon DEF d
  <1> QED BY <1>1, <1>5, <1>6, <1>7, <1>8, <1>9, <1>10

\* What a list becomes again.
LEMMA ListComesBack ==
    ASSUME NEW l, IsKeptList(l), NEW d
    PROVE  Again!Or(Again!OptionOf(l), d) = IF l = <<>> THEN d ELSE l
  <1>1. CASE l = <<>>
    BY <1>1, SomeIsGiven DEF Again!OptionOf
  <1>2. CASE l # <<>>
    <2>1. Again!QuotedAll(l) = l
      BY TextsSurvive
    <2>2. Again!OptionOf(l) = <<l>>
      BY <1>2, <2>1, SomeIsGiven DEF Again!OptionOf
    <2> QED BY <1>2, <2>2, SomeIsGiven
  <1> QED BY <1>1, <1>2

\* A name that is given or from the tables, and a text.
LEMMA NameIsAName ==
    ASSUME NEW o, NEW d, o = <<>> \/ (o = <<o[1]>> /\ (o[1] = "empty" \/ IsName(o[1]))), IsName(d)
    PROVE  IsName(Again!OrText(o, d))
  <1>1. CASE o = <<>>
    BY <1>1, TextIsGiven
  <1>2. CASE o # <<>>
    <2> DEFINE x == o[1]
    <2>1. o = <<x>> /\ (x = "empty" \/ IsName(x))
      BY <1>2
    <2> HIDE DEF x
    <2>2. CASE x = "empty"
      BY <2>1, <2>2, TextIsGiven
    <2>3. CASE x # "empty"
      BY <2>1, <2>3, TextIsGiven
    <2> QED BY <2>2, <2>3
  <1> QED BY <1>1, <1>2

LEMMA TextIsKept ==
    ASSUME NEW o, NEW d, o = <<>> \/ (o = <<o[1]>> /\ Kept(o[1])), Kept(d), d # "empty"
    PROVE  Kept(Again!OrText(o, d)) /\ Again!OrText(o, d) # "empty"
  <1>1. CASE o = <<>>
    BY <1>1, TextIsGiven
  <1>2. CASE o # <<>>
    <2> DEFINE x == o[1]
    <2>1. o = <<x>> /\ Kept(x)
      BY <1>2
    <2> HIDE DEF x
    <2>2. CASE x = "empty"
      BY <2>1, <2>2, TextIsGiven
    <2>3. CASE x # "empty"
      BY <2>1, <2>3, TextIsGiven
    <2> QED BY <2>2, <2>3
  <1> QED BY <1>1, <1>2

LEMMA CoreMarkIsACommand == \A n : Again!CoreMark(n) # <<>>
  BY DEF Again!CoreMark

\* Texts that come back from the shell, and a run for which main finds nothing to fill in.
PassesTheShell(run) ==
    /\ IsName(run.test) /\ IsName(run.checker)
    /\ IsCommand(run.command) /\ IsKeptList(run.expect) /\ IsKeptList(run.reject)
    /\ run.command # <<>> => Kept(run.prompt) /\ IsKeptList(run.followups)

LeavesNothingOpen(run) ==
    LET defaults == Again!ProfileDefaults[run.profile]
    IN  /\ run.cycles # 0
        /\ run.performance = (defaults.iterations # <<>>)
        /\ run.expect # <<>> \/ defaults.expect = <<>>
        /\ run.reject # <<>> \/ defaults.reject = <<>>
        /\ run.command # <<>> \/ run.profile \notin Again!ShellProfiles
        /\ run.command = <<>> \/ run.prompt # "empty"
        /\ run.followups # <<>> \/ run.profile # "contest"

\* Such texts are arguments.
LEMMA KeptIsReadable ==
    ASSUME NEW run, PassesTheShell(run)
    PROVE  Again!Readable(run)
  <1>1. ASSUME NEW l, IsKeptList(l) PROVE Again!NoDash(l)
    BY <1>1 DEF IsKeptList, Kept, Again!NoDash
  <1>2. Again!OneWord(run.test) /\ Again!OneWord(run.checker) /\ run.test # "-dash" /\ run.checker # "-dash"
    BY DEF PassesTheShell, IsName, Again!OneWord
  <1>3. run.command # <<>> => run.command[1] # "-dash" /\ run.prompt # "-dash"
    BY DEF PassesTheShell, IsCommand, Kept
  <1> QED BY <1>1, <1>2, <1>3 DEF PassesTheShell, Again!Readable

\* The reproduce command is read; main refuses it only without cycles.
LEMMA CommandIsRead ==
    ASSUME NEW run, PassesTheShell(run)
    PROVE  LET defaults == Again!ProfileDefaults[run.profile]
           IN  /\ Again!Render(run) # Again!Refused
               /\ Again!Main(Again!Render(run)) = Again!Refused <=> defaults.cycles = <<>> /\ run.cycles = 0
  <1> DEFINE again == Again!Render(run)
             d     == Again!ProfileDefaults[run.profile]
  <1>1. Again!Readable(run)
    BY KeptIsReadable
  <1>2. again.profile = run.profile /\ again.cycles = <<run.cycles>> /\ "profile" \in DOMAIN again
    BY <1>1, SomeIsGiven DEF Again!Render
  <1>3. "profile" \notin DOMAIN Again!Refused
    BY DEF Again!Refused
  <1> HIDE DEF again
  <1>4. again # Again!Refused
    BY <1>2, <1>3
  <1> DEFINE e     == Again!ProfileDefaults[again.profile]
             n     == Again!Or(again.iterations, Again!Or(e.iterations, 0))
             shell == IF again.profile \in Again!ShellProfiles THEN 24000 + 1000 * n ELSE 0
             asked == Again!Or(again.cycles, shell)
  <1>5. Again!Main(again) = Again!Refused <=> e.cycles = <<>> /\ asked = 0
    BY MainFields
  <1> HIDE DEF shell
  <1>6. asked = run.cycles
    BY <1>2, SomeIsGiven
  <1> HIDE DEF asked
  <1>7. e = d
    BY <1>2
  <1> HIDE DEF d, e
  <1>8. Again!Main(again) = Again!Refused <=> d.cycles = <<>> /\ run.cycles = 0
    BY <1>5, <1>6, <1>7
  <1> QED BY <1>4, <1>8 DEF again, d

\* The run of a reproduce command, field by field.
LEMMA RunAgain ==
    ASSUME NEW run, PassesTheShell(run), Again!Main(Again!Render(run)) # Again!Refused
    PROVE  LET again    == Again!RunProfile(Again!Main(Again!Render(run)))
               defaults == Again!ProfileDefaults[run.profile]
               more     == IF run.profile = "contest" THEN <<"ps", "help">> ELSE <<>>
               ready    == IF run.profile = "contest" THEN ">" ELSE "msh>"
           IN  /\ again.profile = run.profile /\ again.test = run.test
               /\ again.cycles = IF run.cycles = 0 THEN defaults.cycles[1] ELSE run.cycles
               /\ again.seed = run.seed /\ again.wall = run.wall /\ again.trace = run.trace
               /\ again.run_dir = run.run_dir /\ again.checker = run.checker
               /\ again.performance = (defaults.iterations # <<>>)
               /\ run.performance => again.iterations = run.iterations
               /\ run.command # <<>> => again.command = run.command
               /\ run.command = <<>> =>
                     (again.command = <<>> <=> run.profile \notin Again!ShellProfiles)
               /\ run.command # <<>> => again.prompt = IF run.prompt = "empty" THEN ready ELSE run.prompt
               /\ run.command # <<>> => again.followups = IF run.followups = <<>> THEN more
                                                          ELSE run.followups
               /\ again.expect = IF run.expect = <<>> THEN defaults.expect ELSE run.expect
               /\ again.reject = IF run.reject = <<>> THEN defaults.reject ELSE run.reject
  <1> DEFINE p     == run.profile
             d     == Again!ProfileDefaults[p]
             again == Again!Render(run)
             call2 == Again!Main(again)
             run2  == Again!RunProfile(call2)
             more  == IF p = "contest" THEN <<"ps", "help">> ELSE <<>>
             ready == IF p = "contest" THEN ">" ELSE "msh>"
             its2  == Again!Or(again.iterations, Again!Or(d.iterations, 0))
  <1>1. /\ again.profile = p /\ again.test = <<Again!Unquoted(run.test)>>
        /\ again.cycles = <<run.cycles>> /\ again.seed = run.seed /\ again.wall = run.wall
        /\ again.trace = run.trace /\ again.run_dir = run.run_dir
        /\ again.iterations = (IF run.performance THEN <<run.iterations>> ELSE <<>>)
        /\ again.command = Again!QuotedCommand(run.command)
        /\ again.prompt = (IF run.command = <<>> THEN <<>> ELSE <<Again!Quoted(run.prompt)>>)
        /\ again.followups = (IF run.command = <<>> THEN <<>> ELSE Again!OptionOf(run.followups))
        /\ again.checker = <<Again!Unquoted(run.checker)>>
        /\ again.expect = Again!OptionOf(run.expect) /\ again.reject = Again!OptionOf(run.reject)
    <2>1. Again!Readable(run)
      BY KeptIsReadable
    <2> QED BY <2>1, SomeIsGiven DEF Again!Render
  <1>2. call2 # Again!Refused
    OBVIOUS
  <1> HIDE DEF again
  <1>3. /\ IsCall(call2) /\ call2.profile = p /\ call2.test = Again!OrText(again.test, p)
        /\ call2.cycles = IF run.cycles = 0 THEN d.cycles[1] ELSE run.cycles
        /\ call2.seed = again.seed /\ call2.wall = again.wall /\ call2.trace = again.trace
        /\ call2.run_dir = again.run_dir /\ call2.performance = <<>> /\ call2.iterations = <<its2>>
        /\ call2.command = IF again.command = <<>> /\ p \in Again!ShellProfiles
                           THEN Again!CoreMark(its2) ELSE again.command
        /\ call2.followups = Again!Or(again.followups, more)
        /\ call2.prompt = Again!OrText(again.prompt, ready)
        /\ call2.checker = again.checker /\ call2.expect = again.expect /\ call2.reject = again.reject
    <2>1. again.profile = p /\ again.cycles = <<run.cycles>>
      BY <1>1
    <2> DEFINE q == again.profile
               e == Again!ProfileDefaults[q]
               n == Again!Or(again.iterations, Again!Or(e.iterations, 0))
               shell == IF q \in Again!ShellProfiles THEN 24000 + 1000 * n ELSE 0
               asked == Again!Or(again.cycles, shell)
    <2>2. /\ IsCall(call2) /\ call2.profile = q /\ call2.test = Again!OrText(again.test, q)
          /\ call2.cycles = IF asked = 0 THEN e.cycles[1] ELSE asked
          /\ call2.seed = again.seed /\ call2.wall = again.wall /\ call2.trace = again.trace
          /\ call2.run_dir = again.run_dir /\ call2.performance = <<>> /\ call2.iterations = <<n>>
          /\ call2.command = IF again.command = <<>> /\ q \in Again!ShellProfiles
                             THEN Again!CoreMark(n) ELSE again.command
          /\ call2.followups = Again!Or(again.followups,
                                        IF q = "contest" THEN <<"ps", "help">> ELSE <<>>)
          /\ call2.prompt = Again!OrText(again.prompt, IF q = "contest" THEN ">" ELSE "msh>")
          /\ call2.checker = again.checker /\ call2.expect = again.expect
          /\ call2.reject = again.reject
      BY <1>2, MainFields
    <2> HIDE DEF call2, shell
    <2>3. asked = run.cycles
      BY <2>1, SomeIsGiven
    <2> HIDE DEF asked
    <2>4. call2.cycles = IF run.cycles = 0 THEN d.cycles[1] ELSE run.cycles
      <3>1. e = d
        BY <2>1
      <3> HIDE DEF d, e
      <3> QED BY <2>2, <2>3, <3>1
    <2> QED BY <2>1, <2>2, <2>4
  <1> HIDE DEF call2
  <1>4. /\ run2.profile = p /\ run2.test = call2.test /\ run2.cycles = call2.cycles
        /\ run2.seed = call2.seed /\ run2.wall = call2.wall /\ run2.trace = call2.trace
        /\ run2.run_dir = call2.run_dir /\ run2.command = call2.command
        /\ run2.followups = call2.followups /\ run2.prompt = call2.prompt
        /\ run2.performance = (d.iterations # <<>>) /\ run2.iterations = its2
        /\ run2.checker = Again!OrText(again.checker, d.checker)
        /\ run2.expect = Again!Or(again.expect, d.expect)
        /\ run2.reject = Again!Or(again.reject, d.reject)
    <2>1. IsCall(call2)
      BY <1>3
    <2> DEFINE e == Again!ProfileDefaults[call2.profile]
    <2>2. e = d
      BY <1>3
    <2>3. /\ run2.profile = call2.profile /\ run2.test = call2.test /\ run2.cycles = call2.cycles
          /\ run2.seed = call2.seed /\ run2.wall = call2.wall /\ run2.trace = call2.trace
          /\ run2.run_dir = call2.run_dir /\ run2.command = call2.command
          /\ run2.followups = call2.followups /\ run2.prompt = call2.prompt
          /\ run2.performance = Again!Or(call2.performance, e.iterations # Again!None)
          /\ run2.iterations = Again!Or(call2.iterations, Again!Or(e.iterations, 0))
          /\ run2.checker = Again!OrText(call2.checker, e.checker)
          /\ run2.expect = Again!Or(call2.expect, e.expect)
          /\ run2.reject = Again!Or(call2.reject, e.reject)
      BY <2>1, RunFields
    <2> HIDE DEF e
    <2>4. /\ run2.profile = call2.profile /\ run2.test = call2.test /\ run2.cycles = call2.cycles
          /\ run2.seed = call2.seed /\ run2.wall = call2.wall /\ run2.trace = call2.trace
          /\ run2.run_dir = call2.run_dir /\ run2.command = call2.command
          /\ run2.followups = call2.followups /\ run2.prompt = call2.prompt
          /\ run2.performance = Again!Or(call2.performance, d.iterations # Again!None)
          /\ run2.iterations = Again!Or(call2.iterations, Again!Or(d.iterations, 0))
          /\ run2.checker = Again!OrText(call2.checker, d.checker)
          /\ run2.expect = Again!Or(call2.expect, d.expect)
          /\ run2.reject = Again!Or(call2.reject, d.reject)
      BY <2>2, <2>3
    <2> HIDE DEF run2, d, its2
    <2>5. run2.performance = (d.iterations # <<>>)
      <3>1. run2.performance = Again!Or(<<>>, d.iterations # <<>>)
        BY <1>3, <2>4 DEF Again!None
      <3> QED BY <3>1, SomeIsGiven, Zenon
    <2>6. run2.iterations = its2
      <3>1. run2.iterations = Again!Or(<<its2>>, Again!Or(d.iterations, 0))
        BY <1>3, <2>4
      <3> QED BY <3>1, SomeIsGiven
    <2> QED BY <1>3, <2>4, <2>5, <2>6
  <1> HIDE DEF run2, d, its2, more, ready
  <1>5. run2.test = run.test
    <2>1. Again!Unquoted(run.test) = run.test /\ run.test # "empty"
      BY DEF PassesTheShell, IsName, Again!Unquoted
    <2>2. again.test = <<run.test>>
      BY <1>1, <2>1
    <2> QED BY <1>3, <1>4, <2>1, <2>2, TextIsGiven
  <1>6. run2.cycles = IF run.cycles = 0 THEN d.cycles[1] ELSE run.cycles
    BY <1>1, <1>3, <1>4
  <1>7. run2.checker = run.checker
    <2>1. Again!Unquoted(run.checker) = run.checker /\ run.checker # "empty"
      BY DEF PassesTheShell, IsName, Again!Unquoted
    <2>2. again.checker = <<run.checker>>
      BY <1>1, <2>1
    <2> QED BY <1>4, <2>1, <2>2, TextIsGiven
  <1>8. /\ run2.expect = IF run.expect = <<>> THEN d.expect ELSE run.expect
        /\ run2.reject = IF run.reject = <<>> THEN d.reject ELSE run.reject
    <2>1. run2.expect = Again!Or(Again!OptionOf(run.expect), d.expect)
      BY <1>1, <1>4
    <2>2. run2.reject = Again!Or(Again!OptionOf(run.reject), d.reject)
      BY <1>1, <1>4
    <2>3. IsKeptList(run.expect) /\ IsKeptList(run.reject)
      BY DEF PassesTheShell
    <2> QED BY <2>1, <2>2, <2>3, ListComesBack, Zenon
  <1>9. run.performance => run2.iterations = run.iterations
    <2> SUFFICES ASSUME run.performance PROVE run2.iterations = run.iterations
      OBVIOUS
    <2>1. again.iterations = <<run.iterations>>
      BY <1>1
    <2> QED BY <1>4, <2>1, SomeIsGiven DEF its2
  <1>10. /\ run.command # <<>> => run2.command = run.command
         /\ run.command = <<>> => (run2.command = <<>> <=> p \notin Again!ShellProfiles)
    <2>1. again.command = run.command
      <3>1. IsCommand(run.command)
        BY DEF PassesTheShell
      <3> QED BY <1>1, <3>1, CommandSurvives
    <2> QED BY <1>3, <1>4, <2>1, CoreMarkIsACommand
  <1>11. run.command # <<>> => run2.prompt = IF run.prompt = "empty" THEN ready ELSE run.prompt
    <2> SUFFICES ASSUME run.command # <<>>
                 PROVE  run2.prompt = IF run.prompt = "empty" THEN ready ELSE run.prompt
      OBVIOUS
    <2>1. Again!Quoted(run.prompt) = run.prompt
      BY DEF PassesTheShell, Kept, Again!Quoted
    <2>2. again.prompt = <<run.prompt>>
      BY <1>1, <2>1
    <2>3. run2.prompt = Again!OrText(<<run.prompt>>, ready)
      BY <1>3, <1>4, <2>2
    <2>4. CASE run.prompt = "empty"
      <3>1. run2.prompt = Again!OrText(<<"empty">>, ready)
        BY <2>3, <2>4
      <3> QED BY <2>4, <3>1, TextIsGiven, Zenon
    <2>5. CASE run.prompt # "empty"
      BY <2>3, <2>5, TextIsGiven
    <2> QED BY <2>4, <2>5
  <1>12. run.command # <<>> =>
            run2.followups = IF run.followups = <<>> THEN more ELSE run.followups
    <2> SUFFICES ASSUME run.command # <<>>
                 PROVE  run2.followups = IF run.followups = <<>> THEN more ELSE run.followups
      OBVIOUS
    <2>1. run2.followups = Again!Or(Again!OptionOf(run.followups), more)
      BY <1>1, <1>3, <1>4
    <2>2. IsKeptList(run.followups)
      BY DEF PassesTheShell
    <2> QED BY <2>1, <2>2, ListComesBack
  <1>13. /\ run2.profile = run.profile /\ run2.seed = run.seed /\ run2.trace = run.trace
         /\ run2.run_dir = run.run_dir /\ run2.wall = run.wall
    BY <1>1, <1>3, <1>4
  <1>14. run2.performance = (d.iterations # <<>>)
    BY <1>4
  <1> DEFINE more2 == IF run.profile = "contest" THEN <<"ps", "help">> ELSE <<>>
             ready2 == IF run.profile = "contest" THEN ">" ELSE "msh>"
             d2    == Again!ProfileDefaults[run.profile]
  <1>15. more = more2 /\ ready = ready2 /\ d = d2
    BY DEF more, ready, d
  <1> HIDE DEF more2, ready2, d2
  <1>16. run2 = Again!RunProfile(Again!Main(Again!Render(run)))
    BY DEF run2, call2, again
  <1> QED BY <1>5, <1>6, <1>7, <1>8, <1>9, <1>10, <1>11, <1>12, <1>13, <1>14, <1>15, <1>16
          DEF more2, ready2, d2

LEMMA BothLists == <<"ps", "help">> # <<>>
  OBVIOUS

\* run_verilator.py and run_regression.py: the reproduce command of a run gives the simulator
\* the same arguments again exactly when the run leaves nothing open that main would fill in
\* from the tables: it has cycles, its window is that of the profile, no list is empty where
\* the tables have one, a shell has a command and the contest its follow-ups, and a command
\* waits for a prompt.  This for all runs of texts that come back from json.dumps, a POSIX
\* shell and argparse, whatever was asked for and with or without a UART command.
THEOREM ReproducedExactly ==
    ASSUME NEW call, Again!RunProfile(call).performance \in BOOLEAN,
           Again!RunProfile(call).profile \in DOMAIN Again!ProfileDefaults,
           PassesTheShell(Again!RunProfile(call))
    PROVE  Again!SameRunAgain(call) <=> LeavesNothingOpen(Again!RunProfile(call))
  <1> DEFINE run  == Again!RunProfile(call)
             run2 == Again!RunProfile(Again!Main(Again!Render(run)))
             p    == run.profile
             d    == Again!ProfileDefaults[p]
             more == IF p = "contest" THEN <<"ps", "help">> ELSE <<>>
             uart(r) == IF r.command = <<>> THEN Again!None
                        ELSE Again!Some([command |-> r.command, prompt |-> r.prompt,
                                         followups |-> r.followups])
             window(r) == Again!PerformanceArguments(r)
             ready == IF p = "contest" THEN ">" ELSE "msh>"
  <1>1. run.performance \in BOOLEAN /\ PassesTheShell(run) /\ p \in DOMAIN Again!ProfileDefaults
    OBVIOUS
  <1>3. Again!SameRunAgain(call) <=>
            /\ ~(d.cycles = <<>> /\ run.cycles = 0)
            /\ Again!SimulatorArguments(run2) = Again!SimulatorArguments(run)
    <2>1. Again!SameRunAgain(call) <=>
            /\ Again!Render(run) # Again!Refused /\ Again!Main(Again!Render(run)) # Again!Refused
            /\ Again!SimulatorArguments(run2) = Again!SimulatorArguments(run)
      BY DEF Again!SameRunAgain
    <2> HIDE DEF run, run2
    <2>2. /\ Again!Render(run) # Again!Refused
          /\ Again!Main(Again!Render(run)) = Again!Refused <=> d.cycles = <<>> /\ run.cycles = 0
      BY <1>1, CommandIsRead
    <2> QED BY <2>1, <2>2
  <1>4. LeavesNothingOpen(run) <=>
            /\ run.cycles # 0
            /\ run.performance = (d.iterations # <<>>)
            /\ run.expect # <<>> \/ d.expect = <<>>
            /\ run.reject # <<>> \/ d.reject = <<>>
            /\ run.command # <<>> \/ p \notin Again!ShellProfiles
            /\ run.command = <<>> \/ run.prompt # "empty"
            /\ run.followups # <<>> \/ p # "contest"
    BY DEF LeavesNothingOpen
  <1>10. CASE d.cycles = <<>> /\ run.cycles = 0
    <2> HIDE DEF run, run2, d
    <2>1. ~Again!SameRunAgain(call) /\ ~LeavesNothingOpen(run)
      BY <1>3, <1>4, <1>10
    <2> QED BY <2>1 DEF run
  <1> SUFFICES ASSUME ~(d.cycles = <<>> /\ run.cycles = 0)
               PROVE  Again!SameRunAgain(call) <=> LeavesNothingOpen(run)
    BY <1>10
  <1>2. /\ run2.profile = p /\ run2.test = run.test
        /\ run2.cycles = IF run.cycles = 0 THEN d.cycles[1] ELSE run.cycles
        /\ run2.seed = run.seed /\ run2.wall = run.wall /\ run2.trace = run.trace
        /\ run2.run_dir = run.run_dir /\ run2.checker = run.checker
        /\ run2.performance = (d.iterations # <<>>)
        /\ run.performance => run2.iterations = run.iterations
        /\ run.command # <<>> => run2.command = run.command
        /\ run.command = <<>> => (run2.command = <<>> <=> p \notin Again!ShellProfiles)
        /\ run.command # <<>> => run2.prompt = IF run.prompt = "empty" THEN ready ELSE run.prompt
        /\ run.command # <<>> => run2.followups = IF run.followups = <<>> THEN more
                                                  ELSE run.followups
        /\ run2.expect = IF run.expect = <<>> THEN d.expect ELSE run.expect
        /\ run2.reject = IF run.reject = <<>> THEN d.reject ELSE run.reject
    <2> HIDE DEF run
    <2>1. Again!Main(Again!Render(run)) # Again!Refused
      BY <1>1, CommandIsRead
    <2> QED BY <1>1, <2>1, RunAgain
  <1>11. run2.cycles = run.cycles <=> run.cycles # 0
    <2>1. d.cycles = <<>> \/ d.cycles[1] # 0
      <3> HIDE DEF run
      <3> QED BY <1>1, TablesArePlain DEF PlainRow
    <2> HIDE DEF run, run2, d
    <2> QED BY <1>2, <2>1
  <1> HIDE DEF run, run2, d
  <1>5. Again!SimulatorArguments(run2) = Again!SimulatorArguments(run) <=>
            /\ run2.cycles = run.cycles /\ run2.expect = run.expect /\ run2.reject = run.reject
            /\ window(run2) = window(run) /\ uart(run2) = uart(run)
    <2> DEFINE args(r) == [profile |-> r.profile, test |-> r.test, cycles |-> r.cycles, seed |-> r.seed,
                           checker |-> r.checker, expect |-> r.expect, reject |-> r.reject,
                           window |-> window(r), trace |-> r.trace, output |-> r.run_dir,
                           wall |-> r.wall, uart |-> uart(r)]
    <2>1. \A r : Again!SimulatorArguments(r) = args(r)
      BY DEF Again!SimulatorArguments
    <2> HIDE DEF uart, window
    <2>2. args(run2) = args(run) =>
            /\ run2.cycles = run.cycles /\ run2.expect = run.expect /\ run2.reject = run.reject
            /\ window(run2) = window(run) /\ uart(run2) = uart(run)
      OBVIOUS
    <2>3. run2.cycles = run.cycles /\ run2.expect = run.expect /\ run2.reject = run.reject /\
          window(run2) = window(run) /\ uart(run2) = uart(run) => args(run2) = args(run)
      BY <1>2
    <2> HIDE DEF args
    <2> QED BY <2>1, <2>2, <2>3
  <1>6. window(run2) = window(run) <=> run.performance = (d.iterations # <<>>)
    <2>1. \A x : Again!Some(x) # Again!None
      BY SomeIsGiven
    <2>2. CASE run.performance
      BY <1>2, <2>1, <2>2 DEF Again!PerformanceArguments
    <2>3. CASE ~run.performance
      BY <1>1, <1>2, <2>1, <2>3 DEF Again!PerformanceArguments
    <2> QED BY <2>2, <2>3
  <1>7. /\ run2.expect = run.expect <=> run.expect # <<>> \/ d.expect = <<>>
        /\ run2.reject = run.reject <=> run.reject # <<>> \/ d.reject = <<>>
    BY <1>2
  <1>8. uart(run2) = uart(run) <=> /\ run.command # <<>> \/ p \notin Again!ShellProfiles
                                   /\ run.command = <<>> \/ run.prompt # "empty"
                                   /\ run.command = <<>> \/ run.followups # <<>> \/ p # "contest"
    <2>1. \A x, y : Again!Some(x) # Again!None /\ (Again!Some(x) = Again!Some(y) => x = y)
      BY DEF Again!Some, Again!None
    <2>2. CASE run.command = <<>>
      BY <1>2, <2>1, <2>2
    <2>3. CASE run.command # <<>>
      <3>1. /\ run2.command = run.command
            /\ run2.prompt = run.prompt <=> run.prompt # "empty"
        <4>1. ready # "empty"
          OBVIOUS
        <4> HIDE DEF ready
        <4> QED BY <1>2, <2>3, <4>1
      <3> DEFINE talk(r) == [command |-> r.command, prompt |-> r.prompt, followups |-> r.followups]
      <3>2. uart(run2) = Again!Some(talk(run2)) /\ uart(run) = Again!Some(talk(run))
        BY <2>3, <3>1
      <3>3. talk(run2) = talk(run) <=> run.prompt # "empty" /\ run2.followups = run.followups
        <4>1. talk(run2) = talk(run) => run2.prompt = run.prompt /\ run2.followups = run.followups
          OBVIOUS
        <4>2. run2.prompt = run.prompt /\ run2.followups = run.followups => talk(run2) = talk(run)
          BY <3>1
        <4> HIDE DEF talk
        <4> QED BY <3>1, <4>1, <4>2
      <3>4. run2.followups = run.followups <=> run.followups # <<>> \/ p # "contest"
        <4>1. run2.followups = IF run.followups = <<>> THEN more ELSE run.followups
          BY <1>2, <2>3
        <4>2. more # <<>> <=> p = "contest"
          BY BothLists
        <4> HIDE DEF more
        <4> QED BY <4>1, <4>2
      <3> HIDE DEF talk, uart
      <3> QED BY <2>1, <2>3, <3>2, <3>3, <3>4
    <2> QED BY <2>2, <2>3
  <1>9. p = "contest" => p \in Again!ShellProfiles
    BY DEF Again!ShellProfiles
  <1> HIDE DEF uart, window, p
  <1> QED BY <1>3, <1>4, <1>5, <1>6, <1>7, <1>8, <1>9, <1>11

LEMMA MoreIsKept ==
    ASSUME NEW p
    PROVE  IsKeptList(IF p = "contest" THEN <<"ps", "help">> ELSE <<>>)
  <1> DEFINE T == {"ps", "help"}
  <1>1. <<"ps", "help">> \in Seq(T) /\ <<>> \in Seq(T) /\ \A t \in T : Kept(t)
    BY DEF Kept
  <1> HIDE DEF T
  <1>2. IsKeptList(<<"ps", "help">>) /\ IsKeptList(<<>>)
    <2>1. \A l \in Seq(T) : IsKeptList(l)
      BY <1>1, ListsOfKept, Zenon
    <2> QED BY <1>1, <2>1
  <1>3. CASE p = "contest"
    BY <1>2, <1>3
  <1>4. CASE p # "contest"
    BY <1>2, <1>4
  <1> QED BY <1>3, <1>4

LEMMA GivenList ==
    ASSUME NEW o, IsTexts(o), NEW d, IsKeptList(d)
    PROVE  /\ IsKeptList(Again!Or(o, d))
           /\ Again!Or(o, d) = <<>> => d = <<>>
  <1>1. CASE o = <<>>
    BY <1>1, SomeIsGiven
  <1>2. CASE o # <<>>
    <2> DEFINE x == o[1]
    <2>1. o = <<x>> /\ x # <<>> /\ IsKeptList(x)
      BY <1>2 DEF IsTexts
    <2> HIDE DEF x
    <2> QED BY <2>1, SomeIsGiven
  <1> QED BY <1>1, <1>2

\* run_verilator.py: whatever the command line, as long as its texts come back from json.dumps,
\* a POSIX shell and argparse (printable ASCII without $ and backtick, no dash in front, and
\* names of one word), the reproduce command in the result repeats the run: main leaves nothing
\* open.
THEOREM EveryRunIsReproduced ==
    ASSUME NEW args, CommandLine(args), Again!Main(args) # Again!Refused
    PROVE  Again!SameRunAgain(Again!Main(args))
  <1> DEFINE p     == args.profile
             d     == Again!ProfileDefaults[p]
             call  == Again!Main(args)
             run   == Again!RunProfile(call)
             its   == Again!Or(args.iterations, Again!Or(d.iterations, 0))
             more  == IF p = "contest" THEN <<"ps", "help">> ELSE <<>>
             ready == IF p = "contest" THEN ">" ELSE "msh>"
             shell == IF p \in Again!ShellProfiles THEN 24000 + 1000 * its ELSE 0
             asked == Again!Or(args.cycles, shell)
  <1>1. p \in DOMAIN Again!ProfileDefaults /\ IsName(p) /\ PlainRow(d)
    BY TablesArePlain DEF CommandLine
  <1>2. /\ IsName(d.checker) /\ IsKeptList(d.expect) /\ IsKeptList(d.reject)
        /\ d.cycles = <<>> \/ d.cycles[1] # 0
    BY <1>1 DEF PlainRow
  <1>3. /\ IsCall(call) /\ call.profile = p /\ call.test = Again!OrText(args.test, p)
        /\ ~(d.cycles = <<>> /\ asked = 0)
        /\ call.cycles = IF asked = 0 THEN d.cycles[1] ELSE asked
        /\ call.seed = args.seed /\ call.wall = args.wall /\ call.trace = args.trace
        /\ call.run_dir = args.run_dir /\ call.performance = <<>> /\ call.iterations = <<its>>
        /\ call.command = IF args.command = <<>> /\ p \in Again!ShellProfiles
                          THEN Again!CoreMark(its) ELSE args.command
        /\ call.followups = Again!Or(args.followups, more)
        /\ call.prompt = Again!OrText(args.prompt, ready)
        /\ call.checker = args.checker /\ call.expect = args.expect /\ call.reject = args.reject
    BY MainFields
  <1> HIDE DEF call, asked
  <1>4. /\ run.profile = p /\ run.test = call.test /\ run.cycles = call.cycles
        /\ run.seed = call.seed /\ run.wall = call.wall /\ run.trace = call.trace
        /\ run.run_dir = call.run_dir /\ run.command = call.command
        /\ run.followups = call.followups /\ run.prompt = call.prompt
        /\ run.performance = (d.iterations # <<>>) /\ run.iterations = its
        /\ run.checker = Again!OrText(args.checker, d.checker)
        /\ run.expect = Again!Or(args.expect, d.expect)
        /\ run.reject = Again!Or(args.reject, d.reject)
    <2>1. IsCall(call)
      BY <1>3
    <2> DEFINE e == Again!ProfileDefaults[call.profile]
    <2>2. e = d
      BY <1>3
    <2>3. /\ run.profile = call.profile /\ run.test = call.test /\ run.cycles = call.cycles
          /\ run.seed = call.seed /\ run.wall = call.wall /\ run.trace = call.trace
          /\ run.run_dir = call.run_dir /\ run.command = call.command
          /\ run.followups = call.followups /\ run.prompt = call.prompt
          /\ run.performance = Again!Or(call.performance, e.iterations # Again!None)
          /\ run.iterations = Again!Or(call.iterations, Again!Or(e.iterations, 0))
          /\ run.checker = Again!OrText(call.checker, e.checker)
          /\ run.expect = Again!Or(call.expect, e.expect)
          /\ run.reject = Again!Or(call.reject, e.reject)
      BY <2>1, RunFields
    <2> HIDE DEF e
    <2>4. /\ run.profile = call.profile /\ run.test = call.test /\ run.cycles = call.cycles
          /\ run.seed = call.seed /\ run.wall = call.wall /\ run.trace = call.trace
          /\ run.run_dir = call.run_dir /\ run.command = call.command
          /\ run.followups = call.followups /\ run.prompt = call.prompt
          /\ run.performance = Again!Or(call.performance, d.iterations # Again!None)
          /\ run.iterations = Again!Or(call.iterations, Again!Or(d.iterations, 0))
          /\ run.checker = Again!OrText(call.checker, d.checker)
          /\ run.expect = Again!Or(call.expect, d.expect)
          /\ run.reject = Again!Or(call.reject, d.reject)
      BY <2>2, <2>3
    <2> HIDE DEF run, d, its
    <2>5. run.performance = (d.iterations # <<>>)
      <3>1. run.performance = Again!Or(<<>>, d.iterations # <<>>)
        BY <1>3, <2>4 DEF Again!None
      <3> QED BY <3>1, SomeIsGiven, Zenon
    <2>6. run.iterations = its
      <3>1. run.iterations = Again!Or(<<its>>, Again!Or(d.iterations, 0))
        BY <1>3, <2>4
      <3> QED BY <3>1, SomeIsGiven
    <2> QED BY <1>3, <2>4, <2>5, <2>6
  <1> HIDE DEF run
  <1>8. Kept(run.prompt) /\ run.prompt # "empty"
    <2>1. Kept(ready) /\ ready # "empty"
      BY DEF Kept
    <2>2. run.prompt = Again!OrText(args.prompt, ready)
      BY <1>3, <1>4
    <2> HIDE DEF ready
    <2>3. args.prompt = <<>> \/ (args.prompt = <<args.prompt[1]>> /\ Kept(args.prompt[1]))
      BY DEF CommandLine
    <2> QED BY <2>1, <2>2, <2>3, TextIsKept
  <1>5. PassesTheShell(run)
    <2>1. IsName(run.test)
      <3>1. args.test = <<>> \/ (args.test = <<args.test[1]>> /\ (args.test[1] = "empty" \/ IsName(args.test[1])))
        BY DEF CommandLine
      <3>2. run.test = Again!OrText(args.test, p)
        BY <1>3, <1>4
      <3> HIDE DEF p
      <3> QED BY <1>1, <3>1, <3>2, NameIsAName
    <2>2. IsName(run.checker)
      <3>1. \/ args.checker = <<>>
            \/ args.checker = <<args.checker[1]>> /\ (args.checker[1] = "empty" \/ IsName(args.checker[1]))
        BY DEF CommandLine
      <3>2. run.checker = Again!OrText(args.checker, d.checker)
        BY <1>4
      <3> HIDE DEF d
      <3> QED BY <1>2, <3>1, <3>2, NameIsAName
    <2>3. Kept(run.prompt)
      BY <1>8
    <2>4. IsKeptList(run.followups)
      <3>1. IsKeptList(more)
        BY MoreIsKept
      <3> HIDE DEF more
      <3>2. run.followups = Again!Or(args.followups, more)
        BY <1>3, <1>4
      <3> QED BY <3>1, <3>2, GivenList DEF CommandLine
    <2>5. IsKeptList(run.expect) /\ IsKeptList(run.reject)
      <3> HIDE DEF d
      <3> QED BY <1>2, <1>4, GivenList DEF CommandLine
    <2>6. IsCommand(run.command)
      <3>1. run.command = args.command \/ run.command = Again!CoreMark(its)
        BY <1>3, <1>4
      <3> HIDE DEF its
      <3>2. IsCommand(Again!CoreMark(its))
        BY DEF IsCommand, Kept, Again!CoreMark
      <3> QED BY <3>1, <3>2 DEF CommandLine
    <2> QED BY <2>1, <2>2, <2>3, <2>4, <2>5, <2>6 DEF PassesTheShell
  <1>6. LeavesNothingOpen(run)
    <2>1. /\ run.expect # <<>> \/ d.expect = <<>>
          /\ run.reject # <<>> \/ d.reject = <<>>
      <3> HIDE DEF d
      <3> QED BY <1>2, <1>4, GivenList DEF CommandLine
    <2>4. run.cycles # 0
      <3> HIDE DEF d
      <3> QED BY <1>2, <1>3, <1>4
    <2>2. run.command # <<>> \/ p \notin Again!ShellProfiles
      BY <1>3, <1>4, CoreMarkIsACommand
    <2>3. run.followups # <<>> \/ p # "contest"
      <3> SUFFICES ASSUME p = "contest" PROVE run.followups # <<>>
        OBVIOUS
      <3>1. more # <<>> /\ IsKeptList(more)
        BY BothLists, MoreIsKept
      <3> HIDE DEF more
      <3>2. run.followups = Again!Or(args.followups, more)
        BY <1>3, <1>4
      <3> QED BY <3>1, <3>2, GivenList DEF CommandLine
    <2> HIDE DEF p, its
    <2> QED BY <1>4, <1>8, <2>1, <2>2, <2>3, <2>4 DEF LeavesNothingOpen
  <1>7. run.performance \in BOOLEAN /\ run.profile \in DOMAIN Again!ProfileDefaults
    BY <1>1, <1>4
  <1> HIDE DEF p
  <1> QED BY <1>5, <1>6, <1>7, ReproducedExactly DEF run, call

\* run_regression.py: the reproduce command of a test of the list repeats it exactly when the
\* test asks for what main would fill in.
THEOREM RegressionIsReproducedExactly ==
    ASSUME NEW test, IsCall(test), PassesTheShell(test), test.profile \in DOMAIN Again!ProfileDefaults
    PROVE  Again!SameRunAgain(Again!RegressionCall(test)) <=>
              LET defaults == Again!ProfileDefaults[test.profile]
              IN  /\ test.cycles # 0
                  /\ (test.performance # <<>>) = (defaults.iterations # <<>>)
                  /\ test.expect # <<>> \/ defaults.expect = <<>>
                  /\ test.reject # <<>> \/ defaults.reject = <<>>
                  /\ test.command # <<>> \/ test.profile \notin Again!ShellProfiles
                  /\ test.command = <<>> \/ test.prompt # "empty"
                  /\ test.followups # <<>> \/ test.profile # "contest"
  <1> DEFINE asked == Again!RegressionCall(test)
             run  == Again!RunProfile(asked)
             D    == DOMAIN test
  <1>1. D = {"profile", "test", "cycles", "seed", "performance", "iterations", "wall", "trace",
             "run_dir", "command", "followups", "prompt", "checker", "expect", "reject"}
    BY DEF IsCall
  <1>2. /\ asked.profile = test.profile /\ asked.test = test.test /\ asked.cycles = test.cycles
        /\ asked.seed = test.seed /\ asked.wall = test.wall /\ asked.trace = test.trace
        /\ asked.run_dir = test.run_dir /\ asked.command = test.command
        /\ asked.followups = test.followups /\ asked.prompt = test.prompt
        /\ asked.performance = Again!Some(test.performance # Again!None)
        /\ asked.iterations = Again!Some(Again!Or(test.performance, 0))
        /\ asked.checker = Again!Some(test.checker) /\ asked.expect = Again!Some(test.expect)
        /\ asked.reject = Again!Some(test.reject)
    <2> HIDE DEF D
    <2> QED BY <1>1 DEF Again!RegressionCall, D
  <1>3. IsCall(asked)
    <2>1. DOMAIN asked = D
      BY DEF Again!RegressionCall
    <2>2. asked = [f \in DOMAIN asked |-> asked[f]]
      BY DEF Again!RegressionCall
    <2> HIDE DEF asked, D
    <2> QED BY <1>1, <2>1, <2>2 DEF IsCall
  <1> HIDE DEF asked
  <1>4. /\ run.profile = test.profile /\ run.test = test.test /\ run.command = test.command
        /\ run.followups = test.followups /\ run.prompt = test.prompt /\ run.cycles = test.cycles
        /\ run.performance = (test.performance # <<>>)
        /\ run.checker = test.checker /\ run.expect = test.expect /\ run.reject = test.reject
    <2>1. /\ run.profile = asked.profile /\ run.test = asked.test /\ run.command = asked.command
          /\ run.followups = asked.followups /\ run.prompt = asked.prompt /\ run.cycles = asked.cycles
      BY <1>3, RunFields
    <2> DEFINE defaults == Again!ProfileDefaults[asked.profile]
    <2>2. /\ run.performance = Again!Or(asked.performance, defaults.iterations # Again!None)
          /\ run.checker = Again!OrText(asked.checker, defaults.checker)
          /\ run.expect = Again!Or(asked.expect, defaults.expect)
          /\ run.reject = Again!Or(asked.reject, defaults.reject)
      BY <1>3, RunFields
    <2> HIDE DEF run, defaults
    <2>3. \A x, y : Again!Or(Again!Some(x), y) = x
      BY SomeIsGiven
    <2>4. run.performance = (test.performance # Again!None)
      <3>1. run.performance = Again!Or(Again!Some(test.performance # Again!None),
                                       defaults.iterations # Again!None)
        BY <1>2, <2>2
      <3> QED BY <2>3, <3>1, Zenon
    <2>5. run.checker = test.checker /\ run.expect = test.expect /\ run.reject = test.reject
      <3>1. run.checker = test.checker
        <4>1. asked.checker = <<test.checker>> /\ test.checker # "empty"
          BY <1>2, SomeIsGiven DEF PassesTheShell, IsName
        <4> QED BY <2>2, <4>1, TextIsGiven
      <3>2. run.expect = Again!Or(Again!Some(test.expect), defaults.expect)
        BY <1>2, <2>2
      <3>3. run.reject = Again!Or(Again!Some(test.reject), defaults.reject)
        BY <1>2, <2>2
      <3> QED BY <2>3, <3>1, <3>2, <3>3, Zenon
    <2> QED BY <1>2, <2>1, <2>4, <2>5, SomeIsGiven
  <1> HIDE DEF run
  <1>5. /\ PassesTheShell(run) /\ run.performance \in BOOLEAN
        /\ run.profile \in DOMAIN Again!ProfileDefaults
    BY <1>4 DEF PassesTheShell
  <1>6. Again!SameRunAgain(asked) <=> LeavesNothingOpen(run)
    <2>1. PassesTheShell(Again!RunProfile(asked))
      BY <1>5 DEF run
    <2>2. /\ Again!RunProfile(asked).performance \in BOOLEAN
          /\ Again!RunProfile(asked).profile \in DOMAIN Again!ProfileDefaults
      BY <1>5 DEF run
    <2>3. Again!SameRunAgain(asked) <=> LeavesNothingOpen(Again!RunProfile(asked))
      BY <2>1, <2>2, ReproducedExactly
    <2> QED BY <2>3 DEF run
  <1> QED BY <1>4, <1>6 DEF LeavesNothingOpen, asked
=============================================================================
