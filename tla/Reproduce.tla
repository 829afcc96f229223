----------------------------- MODULE Reproduce ------------------------------
(***************************************************************************)
(* The command line of run_verilator.py as operators: main turns options   *)
(* into a call of run_profile, run_profile fills in what is not given,     *)
(* run_image makes the arguments of the simulator and the reproduce        *)
(* command it stores in the result, which a shell hands to main again.     *)
(*                                                                         *)
(* An option that is not given is None; lists of texts are sequences; a    *)
(* UART command is its text, for CoreMark with the number of iterations    *)
(* after it, and <<>> when there is none.  Cycles are in thousands.  Of    *)
(* the DEFAULT_ tables one entry of each kind is kept.                     *)
(*                                                                         *)
(* Of a text it matters what json.dumps, a POSIX shell and argparse make   *)
(* of it, and one text stands for each case: "not-ascii", "with-tab" (or   *)
(* another control character), "with-dollar" (or a backtick),              *)
(* "with-blank" (or a character that only acts outside quotes), "-dash"    *)
(* (one in front), and "empty", the empty text.  The prompts ">" and       *)
(* "msh>" are like "with-blank".  Every other text is plain.               *)
(***************************************************************************)
EXTENDS Naturals, Sequences, FiniteSets

None        == <<>>
Some(x)     == <<x>>
Or(option, default) == IF option = None THEN default ELSE option[1]
OrText(option, default) == IF option \in {None, Some("empty")} THEN default ELSE option[1]

Defaults(cycles, iterations, checker, expect, reject) ==
    [cycles |-> cycles, iterations |-> iterations, checker |-> checker,
     expect |-> expect, reject |-> reject]

\* DEFAULT_CYCLES, BENCHMARK_ITERATIONS, DEFAULT_CHECKERS, DEFAULT_UART_EXPECT and
\* DEFAULT_UART_REJECT.  "baremetal" has no cycles: it can only be built.
ProfileDefaults ==
    [smoke      |-> Defaults(Some(750), None, "status-uart", <<"PASS">>, <<>>),
     trap_timer |-> Defaults(Some(500), None, "status", <<>>, <<>>),
     coremark   |-> Defaults(Some(50000), Some(1), "crc", <<"validated">>, <<"errors">>),
     rtthread_coremark |->
                    Defaults(Some(30000), Some(3), "crc-window", <<"ready", "msh>">>, <<"errors">>),
     contest    |-> Defaults(Some(30000), Some(3), "crc-window-uart",
                             <<"ready", "msh>", "ps">>, <<"errors">>),
     baremetal  |-> Defaults(None, None, "status", <<>>, <<>>)]

ShellProfiles == {"rtthread_coremark", "contest"}
CoreMark(n) == <<"coremark", n>>

Refused == [refused |-> TRUE]

\* main: the call of run_profile.  No cycles at all, given or from the table, and 0 in a
\* profile that the table leaves out, end the script.
Main(args) ==
    LET defaults   == ProfileDefaults[args.profile]
        iterations == Or(args.iterations, Or(defaults.iterations, 0))
        asked      == Or(args.cycles, IF args.profile \in ShellProfiles THEN 24000 + 1000 * iterations ELSE 0)
    IN  IF defaults.cycles = None /\ asked = 0 THEN Refused
        ELSE [profile |-> args.profile, test |-> OrText(args.test, args.profile),
              cycles |-> IF asked = 0 THEN defaults.cycles[1] ELSE asked,
              seed |-> args.seed, performance |-> None, iterations |-> Some(iterations),
              wall |-> args.wall, trace |-> args.trace, run_dir |-> args.run_dir,
              command |-> IF args.command = <<>> /\ args.profile \in ShellProfiles
                          THEN CoreMark(iterations) ELSE args.command,
              followups |-> Or(args.followups, IF args.profile = "contest" THEN <<"ps", "help">> ELSE <<>>),
              prompt |-> OrText(args.prompt, IF args.profile = "contest" THEN ">" ELSE "msh>"),
              checker |-> args.checker, expect |-> args.expect, reject |-> args.reject]

\* run_profile: what the caller leaves open comes from the tables.
RunProfile(call) ==
    LET defaults == ProfileDefaults[call.profile]
    IN  [call EXCEPT !.performance = Or(@, defaults.iterations # None),
                     !.iterations = Or(@, Or(defaults.iterations, 0)),
                     !.checker = OrText(@, defaults.checker),
                     !.expect = Or(@, defaults.expect),
                     !.reject = Or(@, defaults.reject)]

\* performance_arguments: the window that is measured, when there is one.
PerformanceArguments(run) == IF run.performance THEN Some(run.iterations) ELSE None

\* run_image: what the simulator is told.
SimulatorArguments(run) ==
    [profile |-> run.profile, test |-> run.test, cycles |-> run.cycles, seed |-> run.seed,
     checker |-> run.checker, expect |-> run.expect, reject |-> run.reject,
     window |-> PerformanceArguments(run),
     trace |-> run.trace, output |-> run.run_dir, wall |-> run.wall,
     uart |-> IF run.command = <<>> THEN None
              ELSE Some([command |-> run.command, prompt |-> run.prompt, followups |-> run.followups])]

\* json.dumps puts a text between double quotes.  The shell undoes its escapes of quotes and
\* backslashes, but not those of other characters, and expands what follows a $.
Quoted(text) == CASE text \in {"not-ascii", "with-tab"} -> "escaped"
                  [] text = "with-dollar" -> "expanded"
                  [] OTHER -> text
QuotedAll(texts) == [i \in DOMAIN texts |-> Quoted(texts[i])]
QuotedCommand(command) == [i \in DOMAIN command |-> IF i = 1 THEN Quoted(command[i]) ELSE command[i]]
OptionOf(texts) == IF texts = <<>> THEN None ELSE Some(QuotedAll(texts))

\* A name is not quoted: it has to be one word.
Unquoted(text) == IF text = "with-dollar" THEN "expanded" ELSE text
OneWord(text) == text \notin {"empty", "with-blank", "with-tab", ">", "msh>"}

\* argparse finds the argument of every option: none that looks like an option itself, and no
\* word too few or too many.
NoDash(texts) == \A i \in DOMAIN texts : texts[i] # "-dash"
Readable(run) ==
    /\ OneWord(run.test) /\ OneWord(run.checker) /\ run.test # "-dash" /\ run.checker # "-dash"
    /\ NoDash(run.expect) /\ NoDash(run.reject)
    /\ run.command # <<>> => run.command[1] # "-dash" /\ run.prompt # "-dash" /\ NoDash(run.followups)

\* Mutant: the texts that must not appear are left to the tables.
Render_noReject(run) ==
    IF ~Readable(run) THEN Refused
    ELSE [profile |-> run.profile, test |-> Some(Unquoted(run.test)), cycles |-> Some(run.cycles),
          seed |-> run.seed, wall |-> run.wall, trace |-> run.trace, run_dir |-> run.run_dir,
          iterations |-> IF run.performance THEN Some(run.iterations) ELSE None,
          command |-> QuotedCommand(run.command),
          prompt |-> IF run.command = <<>> THEN None ELSE Some(Quoted(run.prompt)),
          followups |-> IF run.command = <<>> THEN None ELSE OptionOf(run.followups),
          checker |-> Some(Unquoted(run.checker)), expect |-> OptionOf(run.expect), reject |-> None]

\* The reproduce command, as the options main reads from it, or that it cannot be read.
Render(run) ==
    IF ~Readable(run) THEN Refused
    ELSE [profile |-> run.profile, test |-> Some(Unquoted(run.test)), cycles |-> Some(run.cycles),
          seed |-> run.seed, wall |-> run.wall, trace |-> run.trace, run_dir |-> run.run_dir,
          iterations |-> IF run.performance THEN Some(run.iterations) ELSE None,
          command |-> QuotedCommand(run.command),
          prompt |-> IF run.command = <<>> THEN None ELSE Some(Quoted(run.prompt)),
          followups |-> IF run.command = <<>> THEN None ELSE OptionOf(run.followups),
          checker |-> Some(Unquoted(run.checker)), expect |-> OptionOf(run.expect),
          reject |-> OptionOf(run.reject)]

\* The call run_regression.py makes of a test of its list: nothing is left to the tables.
RegressionCall(test) ==
    [test EXCEPT !.performance = Some(@ # None),
                 !.iterations = Some(Or(test.performance, 0)),
                 !.checker = Some(@), !.expect = Some(@), !.reject = Some(@)]

\* The reproduce command of a run is read, and gives the simulator the same arguments again.
SameRunAgain(call) ==
    LET run == RunProfile(call)
    IN  /\ Render(run) # Refused /\ Main(Render(run)) # Refused
        /\ SimulatorArguments(RunProfile(Main(Render(run)))) = SimulatorArguments(run)
=============================================================================
