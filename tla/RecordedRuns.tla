---------------------------- MODULE RecordedRuns ----------------------------
(***************************************************************************)
(* Results outlive the script that wrote them: the repository keeps result *)
(* files with the reproduce commands of earlier versions of                *)
(* run_verilator.py, and replay_difftest.py hands such a command to the    *)
(* version of today.  Three earlier versions, which the repository keeps   *)
(* beside the results, as operators: the first one (4 August), the one     *)
(* before the change of the core, in which DiffTest worked (6 August), and *)
(* the last one before that of today that loads (9 August, 22:45).         *)
(*                                                                         *)
(* As in Reproduce, of each table one entry of each kind is kept; the      *)
(* line end of a UART command and the width of a bit are arguments that    *)
(* changed with the platform, and are not part of what a run asks for.     *)
(***************************************************************************)
EXTENDS Reproduce

FlatImage   == {"code.mem", "data.mem", "image.json"}
BankedImage == FlatImage \cup {"iccm_lane", "dccm_bank"}

\* What a run asks of the simulator, whatever the version.
AskedOf(arguments) ==
    [f \in {"profile", "test", "cycles", "seed", "checker", "expect", "reject", "window", "trace",
            "output", "wall", "uart"} |-> arguments[f]]

Perform(call, tables) ==
    [call EXCEPT !.performance = Or(@, tables[call.profile].iterations # None),
                 !.iterations = Or(@, Or(tables[call.profile].iterations, 0))]

-----------------------------------------------------------------------------
(***************************************************************************)
(* 4 August: a run is judged by the test status alone.                     *)
(***************************************************************************)
ProfileDefaults_0804 ==
    [smoke      |-> Defaults(Some(200), None, "status", <<>>, <<>>),
     trap_timer |-> Defaults(Some(500), None, "status", <<>>, <<>>),
     coremark   |-> Defaults(Some(50000), Some(1), "status", <<>>, <<>>),
     coremark_rtthread |-> Defaults(Some(60000), Some(1), "status", <<>>, <<>>),
     baremetal  |-> Defaults(None, None, "status", <<>>, <<>>)]

\* No cycles, given or from the table, end the script, as today.
Main_0804(args) ==
    IF \/ args.profile \notin DOMAIN ProfileDefaults_0804
       \/ ProfileDefaults_0804[args.profile].cycles = None /\ Or(args.cycles, 0) = 0
    THEN Refused
    ELSE [profile |-> args.profile, test |-> OrText(args.test, args.profile),
          cycles |-> IF Or(args.cycles, 0) = 0 THEN ProfileDefaults_0804[args.profile].cycles[1]
                     ELSE args.cycles[1],
          seed |-> args.seed, wall |-> args.wall, trace |-> args.trace,
          performance |-> None, iterations |-> args.iterations]

RunProfile_0804(call) == Perform(call, ProfileDefaults_0804)

\* The reproduce command, as the options the main of today reads from it.
Options_0804(run) ==
    [profile |-> run.profile, test |-> Some(Unquoted(run.test)), cycles |-> Some(run.cycles),
     seed |-> run.seed, wall |-> run.wall, trace |-> run.trace, run_dir |-> None,
     iterations |-> IF run.performance THEN Some(run.iterations) ELSE None,
     command |-> <<>>, prompt |-> None, followups |-> None,
     checker |-> None, expect |-> None, reject |-> None, difftest |-> None]

Render_0804(run) == IF OneWord(run.test) /\ run.test # "-dash" THEN Options_0804(run) ELSE Refused

SimulatorArguments_0804(run) ==
    [profile |-> run.profile, test |-> run.test, cycles |-> run.cycles, seed |-> run.seed,
     checker |-> "status", expect |-> <<>>, reject |-> <<>>,
     window |-> PerformanceArguments(run), trace |-> run.trace, output |-> None, wall |-> run.wall,
     uart |-> None, images |-> FlatImage]

RunImage_0804(run) ==
    [arguments |-> SimulatorArguments_0804(run), reproduce |-> Render_0804(run), difftest |-> FALSE]

-----------------------------------------------------------------------------
(***************************************************************************)
(* 6 August: checkers, texts on the UART, commands, and DiffTest.          *)
(***************************************************************************)
ProfileDefaults_0806 ==
    [smoke      |-> Defaults(Some(200), None, "status-uart", <<"PASS">>, <<>>),
     trap_timer |-> Defaults(Some(500), None, "status", <<>>, <<>>),
     coremark   |-> Defaults(Some(50000), Some(1), "crc", <<>>, <<"errors">>),
     rtthread_coremark |->
                    Defaults(Some(30000), Some(3), "crc-window", <<"ready", "msh>">>, <<"errors">>),
     baremetal  |-> Defaults(None, None, "status", <<>>, <<>>)]

\* main: the call of run_profile, with the tables of a version.
CallOf(args, tables) ==
    LET defaults   == tables[args.profile]
        iterations == Or(args.iterations, Or(defaults.iterations, 0))
        shell      == args.profile = "rtthread_coremark"
        asked      == Or(args.cycles, IF shell THEN 3000 + 3000 * iterations ELSE 0)
    IN  IF \/ args.profile \notin DOMAIN tables
           \/ defaults.cycles = None /\ asked = 0
        THEN Refused
        ELSE [args EXCEPT !.test = OrText(@, args.profile),
                          !.cycles = IF asked = 0 THEN defaults.cycles[1] ELSE asked,
                          !.iterations = Some(iterations),
                          !.command = IF @ = <<>> /\ shell THEN CoreMark(iterations) ELSE @,
                          !.prompt = Or(@, "msh>"),
                          !.followups = Or(@, <<>>)]

\* There is no --uart-followup-command yet.
Main_0806(args) == CallOf([args EXCEPT !.followups = None], ProfileDefaults_0806)

\* run_profile, with the tables of a version.
FilledIn(call, tables) ==
    [Perform(call, tables) EXCEPT !.checker = OrText(@, tables[call.profile].checker),
                                  !.expect = Or(@, tables[call.profile].expect),
                                  !.reject = Or(@, tables[call.profile].reject)]
RunProfile_0806(call) == FilledIn(call, ProfileDefaults_0806)

Options_0806(run) ==
    [Options_0804(run) EXCEPT
        !.command = QuotedCommand(run.command),
        !.prompt = IF run.command = <<>> THEN None ELSE Some(Quoted(run.prompt)),
        !.checker = Some(Unquoted(run.checker)),
        !.expect = OptionOf(run.expect), !.reject = OptionOf(run.reject),
        !.difftest = run.difftest]
Render_0806(run) == IF Readable(run) THEN Options_0806(run) ELSE Refused

\* DiffTest is told which addresses are memory and which are devices.
DifftestRegions_0806(mode) ==
    {"CODE", "DATA", "TEST_STATUS"} \cup
    (IF mode = "soc-mmio" THEN {"TIMER", "IRQ_CTRL", "UART", "GPIO"} ELSE {})

SimulatorArguments_0806(run) ==
    [profile |-> run.profile, test |-> run.test, cycles |-> run.cycles, seed |-> run.seed,
     checker |-> run.checker, expect |-> run.expect, reject |-> run.reject,
     window |-> PerformanceArguments(run), trace |-> run.trace, output |-> None, wall |-> run.wall,
     uart |-> IF run.command = <<>> THEN None
              ELSE Some([command |-> run.command, prompt |-> run.prompt, followups |-> <<>>]),
     regions |-> IF run.difftest = None THEN {} ELSE DifftestRegions_0806(run.difftest[1]),
     images |-> FlatImage]

RunImage_0806(run) ==
    [arguments |-> SimulatorArguments_0806(run), reproduce |-> Render_0806(run),
     difftest |-> run.difftest # None]

-----------------------------------------------------------------------------
(***************************************************************************)
(* 9 August: banks instead of flat files, further commands, no DiffTest.   *)
(***************************************************************************)
ProfileDefaults_0809 ==
    [ProfileDefaults_0806 EXCEPT !.smoke.cycles = Some(750), !.coremark.expect = <<"validated">>]

Main_0809(args) == CallOf(args, ProfileDefaults_0809)

RunProfile_0809(call) == FilledIn(call, ProfileDefaults_0809)

Render_0809(run) ==
    IF ~Readable(run) THEN Refused
    ELSE [Options_0806(run) EXCEPT
             !.followups = IF run.command = <<>> THEN None ELSE OptionOf(run.followups)]

SimulatorArguments_0809(run) ==
    [SimulatorArguments_0806(run) EXCEPT
        !.uart = IF run.command = <<>> THEN None ELSE Some([@[1] EXCEPT !.followups = run.followups]),
        !.images = {"iccm_lane", "dccm_bank", "image.json"}]

RunImage_0809(run) ==
    IF run.difftest # None THEN Refused
    ELSE [arguments |-> SimulatorArguments_0809(run), reproduce |-> Render_0809(run), difftest |-> FALSE]

-----------------------------------------------------------------------------
\* A run of an earlier version: what the simulator was told and what its result keeps.
Recorded(version, args) ==
    LET call == CASE version = "0804" -> Main_0804(args)
                  [] version = "0806" -> Main_0806(args)
                  [] version = "0809" -> Main_0809(args)
    IN  CASE call = Refused -> Refused
          [] version = "0804" -> RunImage_0804(RunProfile_0804(call))
          [] version = "0806" -> RunImage_0806(RunProfile_0806(call))
          [] version = "0809" -> RunImage_0809(RunProfile_0809(call))


\* A recorded command given to the version of today, over the image directory it finds.
RunToday(args, files) ==
    IF \/ args = Refused \/ args.profile \notin DOMAIN ProfileDefaults \/ args.difftest # None
       \/ Main(args) = Refused
       \/ ~({"iccm_lane", "dccm_bank", "image.json"} \subseteq files)
    THEN Refused
    ELSE SimulatorArguments(RunProfile(Main(args)))

\* replay_difftest.py: only results of DiffTest, and the run is asked for DiffTest again.  It
\* splits the command as a shell does, but expands nothing.
Replay(result, trace, files) ==
    IF ~result.difftest \/ result.reproduce = Refused THEN Refused
    ELSE RunToday([result.reproduce EXCEPT !.difftest = IF @ = None THEN Some("ram-strict") ELSE @,
                                           !.trace = @ \/ trace], files)
=============================================================================
