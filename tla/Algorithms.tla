----------------------------- MODULE Algorithms -----------------------------
(***************************************************************************)
(* The pure algorithms of the scripts, checked against reference           *)
(* definitions over bounded inputs: a state is an input, each action picks *)
(* the inputs of one algorithm, and the invariants compare what the script *)
(* computes for the input with what it must.                               *)
(***************************************************************************)
EXTENDS Integers, Sequences, FiniteSets, TLC

CONSTANT
    MaxText       \* length of the texts given to clean_rtl_sources.py

ASSUME MaxTextAssumption == MaxText \in Nat

VARIABLE input

Elf    == INSTANCE ElfImage
Bram   == INSTANCE BramMap
Lists  == INSTANCE FileLists
Select == INSTANCE TestSelection
Again  == INSTANCE Reproduce
Earlier == INSTANCE RecordedRuns
Board  == INSTANCE Boards
Text   == INSTANCE RtlText
Source == INSTANCE CompetitionSource

-----------------------------------------------------------------------------
(***************************************************************************)
(* Inputs: an ELF with one or two program headers around the two memories, *)
(* CODE at 0 and DATA behind it.  36 bytes are not a whole number of rows. *)
(***************************************************************************)
DataSize == 64
ProgramHeader(type, addresses, sizes, beyond, s) ==
    [type |-> type, physical |-> addresses[1], virtual |-> addresses[2],
     data |-> [k \in 1..sizes[1] |-> 16 * s + k], memory |-> sizes[2], beyond |-> beyond]
Addresses   == {<<0, 0>>, <<0, 40>>, <<2, 7>>, <<29, 29>>, <<34, 34>>, <<91, 91>>}
Sizes       == {<<0, 6>>, <<3, 3>>, <<3, 6>>, <<5, 5>>}
LoadHeaders(s) == {ProgramHeader("load", a, z, FALSE, s) : a \in Addresses, z \in Sizes}
OddHeaders  == {ProgramHeader(t, a, z, b, 1) :
                  t \in {"load", "note"}, a \in Addresses, z \in {<<0, 0>>, <<3, 6>>, <<5, 3>>}, b \in BOOLEAN}

PickImage ==
    /\ input.kind = "none"
    /\ \E header \in {"ok", "not ELF32"}, codeSize \in {32, 36}, trim \in BOOLEAN,
          asked \in {{}, {"halves"}, {"halves", "lanes", "banks"}},
          headers \in {<<h>> : h \in OddHeaders} \cup (LoadHeaders(1) \X LoadHeaders(2)) :
          input' = [kind |-> "image", elf |-> [header |-> header, headers |-> headers],
                    code |-> codeSize, trim |-> trim, asked |-> asked]

\* The block RAMs of a placed design of either family, with at most one thing wrong.
PlacedBrams(family) ==
    [i \in 1..48 |->
        LET slot  == IF i <= 32 THEN <<"iccm", (i - 1) \div 8, (i - 1) % 8>>
                     ELSE <<"dccm", (i - 33) \div 2, (i - 33) % 2>>
            ref   == IF family = "ultrascale" /\ slot[1] = "iccm" /\ slot[3] = 7 THEN "RAMB18" ELSE "RAMB36"
        IN  [cell  |-> [slot |-> slot, style |-> "synth"], loc |-> <<ref, i>>, ref |-> ref,
             shape |-> IF i > 32 THEN Bram!DccmGeometry[slot[3]]
                       ELSE IF family = "7series" THEN Bram!Iccm7Series[slot[3]]
                       ELSE Bram!IccmUltraScale[slot[3]]]]
Disturbed(brams, wrong, i, j) ==
    CASE wrong = "nothing"  -> brams
      [] wrong = "dropped"  -> [k \in 1..47 |-> IF k < i THEN brams[k] ELSE brams[k + 1]]
      [] wrong = "renamed"  -> [brams EXCEPT ![i].cell = [slot |-> brams[j].cell.slot, style |-> "mapped"]]
      [] wrong = "unknown"  -> [brams EXCEPT ![i].cell.slot = <<"rom", 0, 0>>]
      [] wrong = "reshaped" -> [brams EXCEPT ![i].shape = brams[j].shape]
      [] wrong = "moved"    -> [brams EXCEPT ![i].loc = brams[j].loc]
      [] wrong = "halved"   -> [brams EXCEPT ![i].ref = "RAMB18", ![i].loc = <<"RAMB18", i>>]
      [] wrong = "other"    -> [brams EXCEPT ![i].ref = "URAM288"]

PickBrams ==
    /\ input.kind = "none"
    /\ \E family \in {"7series", "ultrascale"}, i \in 1..48, j \in {1, 5, 8, 33, 48},
          wrong \in {"nothing", "dropped", "renamed", "unknown", "reshaped", "moved", "halved", "other"} :
          input' = [kind |-> "bram", family |-> family, wrong |-> wrong,
                    map |-> [columns |-> "complete", part |-> "part",
                             brams |-> Disturbed(PlacedBrams(family), wrong, i, j)]]

\* Three lists that may include each other, two sources, one of which may be missing, and lines
\* that name a directory as a list or a source, or a list as a source.
Line(kind, name) == [kind |-> kind, name |-> name, comment |-> FALSE]
Lines == {Line("-f", "a"), Line("-f", "b"), Line("source", "s"), Line("source", "t"), Line("+incdir", "d"),
          Line("-f", "d"), Line("source", "d"), Line("source", "a"), Line("-option", "-Wall"), Line("+option", "+define+X"),
          [Line("source", "s") EXCEPT !.comment = TRUE]}
UpTo(S, n) == UNION {[1..m -> S] : m \in 0..n}

PickLists ==
    /\ input.kind = "none"
    /\ \E top \in UpTo(Lines, 2), a \in UpTo({Line("-f", "top"), Line("-f", "b"), Line("source", "s"),
                                              Line("source", "t")}, 2),
          b \in UpTo({Line("-f", "a"), Line("source", "t"), Line("+incdir", "d")}, 1),
          t \in {"file", "missing"} :
          input' = [kind |-> "lists", tree |-> [top |-> top, a |-> a, b |-> b],
                    disk |-> [top |-> "file", a |-> "file", b |-> "file", s |-> "file", t |-> t,
                              d |-> "directory"]]

\* A manifest with a name in two suites, every gate, every use of --suites and --tests.
Tests == <<<<"rv32ui", "add">>, <<"rv32ui", "fence_i">>, <<"rv32um", "mul">>, <<"rv32uf", "add">>,
           <<"rv32ud", "fdiv">>>>
Names == {<<"rv32ui", "add">>, <<"rv32ui", "fence_i">>, <<"add">>, <<"mul">>, <<"fdiv">>, <<"nope">>}

PickSelection ==
    /\ input.kind = "none"
    /\ \E mandatory \in {<<"rv32ui", "rv32um">>, <<"rv32ui", "rv32um", "rv32uf">>},
          choice \in {"single", "double", "undecided"}, double \in BOOLEAN,
          gate \in {"current", "final-base", "fp-single", "fp-double", "final"},
          suites \in {Select!NotGiven, {}, {"rv32ui"}, {"rv32ui", "rv32uf"}},
          names \in SUBSET Names \cup {Select!NoNames} :
          input' = [kind |-> "selection", mandatory |-> mandatory, choice |-> choice, double |-> double,
                    gate |-> gate, suites |-> suites, names |-> names]

\* Command lines of run_verilator.py and tests of a regression list, all texts plain or one
\* text, at one place, that is not.
Plain      == <<>>
OddTexts   == {"test", "checker", "prompt", "command", "followups", "expect", "reject"} \X
              {"empty", "with-blank", "with-tab", "with-dollar", "not-ascii", "-dash"}
WithOption(args, odd) ==
    IF odd = Plain THEN args
    ELSE [args EXCEPT ![odd[1]] = CASE odd = <<"command", "empty">> -> <<>>
                                    [] odd[1] \in {"followups", "expect", "reject"} -> <<<<odd[2]>>>>
                                    [] OTHER -> <<odd[2]>>]
WithText(test, odd) ==
    IF odd = Plain THEN test
    ELSE [test EXCEPT ![odd[1]] = CASE odd = <<"command", "empty">> -> <<>>
                                    [] odd[1] \in {"test", "checker", "prompt"} -> odd[2]
                                    [] OTHER -> <<odd[2]>>]

PickArguments ==
    /\ input.kind = "none"
    /\ \E profile \in DOMAIN Again!ProfileDefaults, test \in {<<>>, <<"mine">>},
          cycles \in {<<>>, <<0>>, <<7>>}, iterations \in {<<>>, <<5>>}, command \in {<<>>, <<"help">>},
          followups \in {<<>>, <<<<"ps">>>>}, prompt \in {<<>>, <<"#">>}, checker \in {<<>>, <<"status">>},
          expect \in {<<>>, <<<<"yes">>>>}, reject \in {<<>>, <<<<"no">>>>}, dir \in {<<>>, <<"run">>},
          odd \in {Plain} \cup OddTexts :
          /\ odd # Plain => test = <<>> /\ prompt = <<>> /\ checker = <<>> /\ dir = <<>>
          /\ input' = [kind |-> "arguments", odd |-> odd,
                       args |-> WithOption(
                          [profile |-> profile, test |-> test, cycles |-> cycles, seed |-> 2, wall |-> 600,
                           trace |-> FALSE, run_dir |-> dir, iterations |-> iterations, command |-> command,
                           followups |-> followups, prompt |-> prompt, checker |-> checker,
                           expect |-> expect, reject |-> reject], odd)]

PickRegressionTest ==
    /\ input.kind = "none"
    /\ \E profile \in DOMAIN Again!ProfileDefaults, cycles \in {0, 7}, performance \in {<<>>, <<5>>},
          command \in {<<>>, <<"help">>}, followups \in {<<>>, <<"ps">>},
          expect \in {<<>>, <<"yes">>}, reject \in {<<>>, <<"no">>}, odd \in {Plain} \cup OddTexts :
          input' = [kind |-> "regression", odd |-> odd,
                    test |-> WithText(
                       [profile |-> profile, test |-> "t", cycles |-> cycles, seed |-> 1, wall |-> 60,
                        trace |-> FALSE, run_dir |-> <<>>, performance |-> performance,
                        iterations |-> 0, command |-> command, followups |-> followups,
                        prompt |-> "msh>", checker |-> "status", expect |-> expect, reject |-> reject], odd)]

\* Runs of earlier versions of run_verilator.py, and the images in the directory of today.
PickRecorded ==
    /\ input.kind = "none"
    /\ \E version \in {"0804", "0806", "0809"},
          profile \in DOMAIN Earlier!ProfileDefaults_0804 \cup DOMAIN Earlier!ProfileDefaults_0806,
          cycles \in {<<>>, <<0>>, <<7>>}, iterations \in {<<>>, <<5>>},
          command \in {<<>>, <<"help">>}, followups \in {<<>>, <<<<"ps">>>>}, checker \in {<<>>, <<"status">>},
          expect \in {<<>>, <<<<"yes">>>>}, reject \in {<<>>, <<<<"no">>>>},
          difftest \in {<<>>, <<"ram-strict">>, <<"soc-mmio">>},
          images \in {Earlier!FlatImage, Earlier!BankedImage}, odd \in {Plain} \cup OddTexts :
          /\ odd # Plain => /\ difftest # <<"ram-strict">> /\ images = Earlier!BankedImage
                            /\ iterations = <<>> /\ checker = <<>>
          /\ input' = [kind |-> "recorded", version |-> version, images |-> images, odd |-> odd,
                       args |-> WithOption(
                          [profile |-> profile, test |-> <<>>, cycles |-> cycles, seed |-> 2, wall |-> 600,
                           trace |-> FALSE, performance |-> <<>>, iterations |-> iterations,
                           command |-> command, followups |-> followups, prompt |-> <<>>,
                           checker |-> checker, expect |-> expect, reject |-> reject,
                           difftest |-> difftest], odd)]

PickFrequency ==
    /\ input.kind = "none"
    /\ \E board \in DOMAIN Board!BOARDS, requested \in {Board!NotGiven} \cup 45..255 :
          input' = [kind |-> "clock", board |-> board, requested |-> requested]

\* A competition entry: a tree of files, what --entry says, and what is changed in the run
\* before it is built.
RunChanges ==
    {[kind |-> "nothing"]} \cup
    {[kind |-> k, path |-> p] : k \in {"edit", "remove", "add"}, p \in Source!Paths} \cup
    {[kind |-> "configure", field |-> c[1], value |-> c[2]] :
        c \in {<<"mode", "standalone_test">>, <<"entry_symbol", "start">>, <<"extra_sources", {"a.c"}>>,
               <<"entry_source", "a.c">>, <<"entry_source", "notes">>, <<"entry_source", "sub">>}}

PickCompetition ==
    /\ input.kind = "none"
    /\ \E paths \in SUBSET Source!Paths : \E tree \in [paths -> {1, Source!Link}],
          entry \in {<<>>, <<"sub/Core_Main.C">>, <<"a.c">>, <<"notes">>, <<"sub">>, <<"../a.c">>},
          host \in {"posix", "windows"}, change \in RunChanges :
          input' = [kind |-> "competition", tree |-> tree, entry |-> entry, host |-> host, change |-> change]

\* Texts grow character by character.
Characters == {"quote", "escape", "slash", "star", "nl", "sp", "keep", "old"}
PickText ==
    /\ input.kind = "none"
    /\ input' = [kind |-> "text", text |-> <<>>]
GrowText ==
    /\ input.kind = "text"
    /\ Len(input.text) < MaxText
    /\ \E c \in Characters : input' = [input EXCEPT !.text = Append(@, c)]

PickAnother ==
    /\ input.kind # "none"
    /\ input' = [kind |-> "none"]

Init == input = [kind |-> "none"]
Next == \/ PickImage \/ PickBrams \/ PickLists \/ PickSelection \/ PickArguments \/ PickRegressionTest
        \/ PickRecorded \/ PickFrequency \/ PickCompetition \/ PickText \/ GrowText \/ PickAnother
Spec == Init /\ [][Next]_input

-----------------------------------------------------------------------------
Regions == <<Elf!Region("CODE", 0, input.code), Elf!Region("DATA", input.code, DataSize)>>

\* elf2mem.py, patch_bitstream.py and the memories of the RTL: an image that is written makes
\* the processor read at every address of both memories what the ELF puts there, through the
\* flat files (trimmed or not), the halves, the lanes and the banks, and through the words
\* that are patched into a bitstream; and an image is written for every ELF whose segments
\* lie in one memory each, unless banks are asked of a memory without whole rows.
ImageIsTheProgram ==
    input.kind = "image" =>
        LET segments == Elf!ParseElf(input.elf)
            files    == Elf!Convert(input.elf, Regions, input.trim, input.asked)
            inOne(s) == \E r \in {1, 2} :
                            /\ Regions[r].base <= s.address
                            /\ s.address + s.memory <= Regions[r].base + Regions[r].size
            word(r, a) == [b \in 0..3 |-> Elf!MemoryOf(segments[1], Regions[r].base + a + b)]
            aligned(r) == {4 * w : w \in 0..Regions[r].size \div 4 - 1}
        IN  /\ files # Elf!Refused <=>
                  /\ segments # Elf!Refused
                  /\ \A s \in DOMAIN segments[1] : inOne(segments[1][s])
                  /\ input.code = 32 \/ input.asked = {}
            /\ files # Elf!Refused =>
                  LET flat  == files[1].flat
                      split == files[1].split
                  IN  /\ \A r \in {1, 2} : \A a \in aligned(r) :
                            IF a \div 4 \in DOMAIN flat[r] THEN flat[r][a \div 4] = word(r, a)
                            ELSE input.trim /\ word(r, a) = [b \in 0..3 |-> Elf!Fill]
                      /\ \A a \in aligned(1) :
                            /\ "lanes" \in input.asked => Elf!IccmRead(split["lanes"], a) = word(1, a)
                            /\ "halves" \in input.asked =>
                                  split["halves"][(a \div 4) % 2][a \div 8] = word(1, a)
                      /\ "banks" \in input.asked =>
                            \A a \in aligned(2) : Elf!DccmRead(split["banks"], a) = word(2, a)
                      /\ LET whole == Elf!ReadFlatMem(flat[1], 8)
                         IN  whole # Elf!Refused /\ input.code = 32 =>
                                \A a \in aligned(1) :
                                   Elf!IccmRead(Elf!SplitWords(whole[1], 8, Elf!IccmLanes), a) = word(1, a)

\* generate_manual_mmi.py: a memory information file that is written puts every bit of every
\* row of the twelve memories into exactly one entry, and every entry into one block RAM of
\* the design, no wider than its ports; the memories come in the order patch_bitstream.py
\* writes them in, and the maps of both device families are accepted.  A RAMB36 has room for
\* any of the entries, a RAMB18, which the script takes anywhere, only for the one that
\* UltraScale puts there; and two entries share a block RAM only where one of them names it as
\* a RAMB18 and the other as a RAMB36.
EveryBitOnce ==
    input.kind = "bram" =>
        LET brams == input.map.brams
            mmi   == Bram!Mmi(input.map)
            used  == UNION {mmi[m] : m \in DOMAIN mmi}
            at(e) == {i \in DOMAIN brams : brams[i].cell.slot = e.slot}
        IN  /\ input.wrong = "nothing" => mmi # <<>>
            /\ \A m \in DOMAIN mmi :
                  \A row \in Bram!EdgeRows(IF m <= 4 THEN Bram!IccmRows ELSE Bram!DccmRows), bit \in 0..31 :
                     Cardinality({e \in mmi[m] : /\ e.begin <= row /\ row <= e.end
                                                 /\ e.lsb <= bit /\ bit <= e.msb}) = 1
            /\ \A e \in used :
                  /\ Cardinality(at(e)) = 1
                  /\ \A i \in at(e) :
                        /\ e.msb - e.lsb + 1 <= brams[i].shape.width
                        /\ Bram!EntryBits(e) <= Bram!BitsOf[brams[i].ref] <=>
                              \/ brams[i].ref = "RAMB36"
                              \/ input.family = "ultrascale" /\ e.slot[1] = "iccm" /\ e.slot[3] = 7
            /\ \A m \in DOMAIN mmi : \A e \in mmi[m] : <<e.slot[1], e.slot[2]>> = Bram!UpdateOrder[m]
            /\ \A e, f \in used : \A i \in at(e), j \in at(f) :
                  e # f /\ Bram!Halves(brams[i].loc) \cap Bram!Halves(brams[j].loc) # {} =>
                     brams[i].loc[1] # brams[j].loc[1]

\* check_filelists.py and run_verilator.py read the same lists: one that is checked can be
\* fingerprinted exactly when none of its sources is a directory, which has to exist for the
\* one and to be a file for the other; and then every list that is reached and every source
\* in it counts.  (A list that a source line names as well is not read a second time.)
CheckedListIsFingerprinted ==
    input.kind = "lists" =>
        LET reached == Lists!Reached(input.tree, "top")
            inputs  == Lists!Inputs(input.tree, input.disk, "top", {})
            sources == UNION {Lists!SourcesOf(input.tree, l) : l \in reached}
        IN  Lists!ListIsOk(input.tree, input.disk, "top") /\ sources \cap DOMAIN input.tree = {} =>
               /\ inputs.ok <=> \A s \in sources : input.disk[s] # "directory"
               /\ inputs.ok => inputs.seen = reached \cup sources

Gates == Select!GateManifest(input.mandatory, input.choice, input.double)

\* run_isa_tests.py: a selection is made exactly when the gate is ready and every name stands
\* for one test the gate allows; a test is then run once for each name that stands for it.
SelectionIsExact ==
    input.kind = "selection" =>
        LET gate     == Gates[input.gate]
            result   == Select!SelectTests(Tests, Gates, input.gate, input.suites, input.names)
            suites   == IF input.suites \in {Select!NotGiven, {}} THEN Select!Elements(gate.suites)
                        ELSE input.suites
            allowed(t) == t[1] \in suites /\ ~(input.gate = "current" /\ t = <<"rv32ui", "fence_i">>)
            fits(name, t) == name = t \/ name = <<t[2]>>
            times(t) == Cardinality({n \in input.names : fits(n, t)})
            given    == input.names # Select!NoNames
            exact    == \A n \in input.names :
                           Cardinality({i \in DOMAIN Tests : allowed(Tests[i]) /\ fits(n, Tests[i])}) = 1
        IN  /\ result # Select!Refused <=> gate.ready /\ (given => exact)
            /\ result # Select!Refused =>
                  \A i \in DOMAIN Tests :
                     Cardinality({k \in DOMAIN result : result[k] = Tests[i]}) =
                        IF ~allowed(Tests[i]) THEN 0 ELSE IF given THEN times(Tests[i]) ELSE 1

\* generate_isa_data.py: the final gate, once it is ready, runs every suite of the base gate
\* and of the chosen precision, single precision with double, and none of them twice.
FinalGateIsComplete ==
    input.kind = "selection" /\ Gates["final"].ready =>
        LET final == Gates["final"].suites
            fp    == IF input.choice = "double" THEN {"rv32uf", "rv32ud"} ELSE {"rv32uf"}
        IN  /\ Select!Elements(final) =
                  Select!Elements(Gates["final-base"].suites) \cup fp \cup Select!Elements(input.mandatory)
            /\ Cardinality(Select!Elements(final)) = Len(final)

\* Which odd text of a run comes back from its reproduce command as it was: a name is not
\* quoted, the others are; a text of the UART counts only when there is a command, a checker
\* or a command that is empty is none.
ComesBack(odd, uart) ==
    \/ odd = Plain
    \/ odd[1] \in {"test", "checker"} /\ odd[2] = "not-ascii"
    \/ odd[1] \in {"command", "expect", "reject", "followups", "prompt"} /\ odd[2] = "with-blank"
    \/ odd[1] \in {"checker", "command", "expect", "reject", "followups"} /\ odd[2] = "empty"
    \/ odd[1] \in {"prompt", "followups"} /\ ~uart

\* run_verilator.py: the reproduce command in a result, executed in a shell, gives the
\* simulator the same arguments again, unless one of its texts does not come back from
\* json.dumps, the shell and argparse.  For a test of a regression list this needs a test that
\* also asks for what main would fill in: cycles, a performance window exactly for the
\* benchmarks, and no list left empty where the tables have one.
ReproduceRepeatsTheRun ==
    /\ input.kind = "arguments" =>
          LET call == Again!Main(input.args)
          IN  call # Again!Refused =>
                 (Again!SameRunAgain(call) <=>
                    \/ ComesBack(input.odd, call.command # <<>>)
                    \/ input.odd[1] \in {"test", "prompt"} /\ input.odd[2] = "empty")
    /\ input.kind = "regression" =>
          LET test     == input.test
              defaults == Again!ProfileDefaults[test.profile]
              filled   == /\ test.cycles # 0
                          /\ (test.performance # <<>>) = (defaults.iterations # <<>>)
                          /\ test.expect # <<>> \/ defaults.expect = <<>>
                          /\ test.reject # <<>> \/ defaults.reject = <<>>
                          /\ test.command # <<>> \/ test.profile \notin Again!ShellProfiles
                          /\ test.followups # <<>> \/ test.profile # "contest"
          IN  Again!SameRunAgain(Again!RegressionCall(test)) <=>
                 filled /\ ComesBack(input.odd, test.command # <<>>)

\* run_verilator.py through its versions: the reproduce command that an earlier version left in
\* a result is refused by the version of today when the profile is gone, when it asks for
\* DiffTest, when the images are those of the earlier memories or when one of its texts is not
\* an argument, and only then.  Otherwise the run is judged as it was, unless one of its texts
\* does not come back, or it was judged by a list that was empty then (of the first version:
\* by the test status) where the tables of today have more.  A result of DiffTest cannot be
\* replayed.
RecordedRunIsJudgedAlike ==
    input.kind = "recorded" =>
        LET before == Earlier!Recorded(input.version, input.args)
            today  == Earlier!RunToday(before.reproduce, input.images)
            now    == Again!ProfileDefaults[input.args.profile]
            old    == before.arguments
            uart   == old.uart # <<>>
            judged == /\ old.expect # <<>> \/ now.expect = <<>>
                      /\ old.reject # <<>> \/ now.reject = <<>>
                      /\ input.version = "0804" => now.checker = "status"
            \* The first version has only the name of the test, the second no follow-ups.
            odd    == IF \/ input.odd # Plain /\ input.version = "0804" /\ input.odd[1] # "test"
                         \/ input.odd # Plain /\ input.version = "0806" /\ input.odd[1] = "followups"
                      THEN Plain ELSE input.odd
            unread == /\ odd # Plain
                      /\ \/ odd[1] \in {"test", "checker"} /\ odd[2] \in {"with-blank", "with-tab", "-dash"}
                         \/ odd[1] \in {"expect", "reject"} /\ odd[2] = "-dash"
                         \/ odd[1] \in {"command", "prompt", "followups"} /\ odd[2] = "-dash" /\ uart
        IN  before # Again!Refused =>
               /\ today = Again!Refused <=> \/ input.args.profile \notin DOMAIN Again!ProfileDefaults
                                          \/ before.difftest
                                          \/ input.images = Earlier!FlatImage
                                          \/ unread
               /\ today # Again!Refused =>
                     (Earlier!AskedOf(today) = Earlier!AskedOf(old) <=>
                         judged /\ (ComesBack(odd, uart) \/ odd = <<"test", "empty">>))
               /\ \A trace \in BOOLEAN : Earlier!Replay(before, trace, input.images) = Again!Refused

\* lib/fpga.py: a frequency that is accepted is the one the core gets, the peripherals keep
\* the 50 MHz of the software contract, on which the UART divisor and the timer rest, and the
\* oscillator of the MMCM stays in the range of its family; the launcher of a competition run
\* takes the same frequency.
ClocksAreAsContracted ==
    input.kind = "clock" =>
        LET mhz    == Board!ResolveCoreMhz(input.board, input.requested)
            clocks == Board!Clocks(input.board, mhz[1])
        IN  /\ input.requested # Board!NotGiven /\ mhz # Board!Refused =>
                  Board!Launcher(input.board, input.requested) = mhz
            /\ mhz # Board!Refused =>
               /\ clocks.core = mhz[1] /\ clocks.periph = 50
               /\ clocks.vco \in Board!VcoRange[input.board]
               /\ input.requested # Board!NotGiven => mhz[1] = input.requested

ChangedRun(run, change) ==
    CASE change.kind = "nothing" -> run
      [] change.kind = "edit" /\ change.path \in DOMAIN run.original ->
            [run EXCEPT !.original[change.path] = 2]
      [] change.kind = "add" /\ change.path \notin DOMAIN run.original ->
            [run EXCEPT !.original = (change.path :> 2) @@ @]
      [] change.kind = "remove" ->
            [run EXCEPT !.original = [p \in DOMAIN @ \ {change.path} |-> @[p]]]
      [] change.kind = "configure" -> [run EXCEPT !.config[change.field] = change.value]
      [] OTHER -> run

\* prepare_competition_run.py and build_software.py: a run is made exactly of a source without
\* links whose entry is named or unmistakable, it builds that entry as long as nothing is
\* changed, and whatever is changed, what is built is a file of the source as submitted, among
\* the files as submitted.
PreparedRunBuildsTheEntry ==
    input.kind = "competition" =>
        LET prepared == Source!PrepareRun(input.tree, input.entry, input.host)
            linked   == \E p \in DOMAIN input.tree : input.tree[p] = Source!Link
            visible  == {p \in DOMAIN input.tree : IF input.host = "windows" THEN p # "notes"
                                                   ELSE p \in {"core_main.c", "a.c"}}
            drivers  == visible \cap {"core_main.c", "sub/Core_Main.C"}
            clear    == IF input.entry # <<>> THEN input.entry[1] \in DOMAIN input.tree \ {"notes"}
                        ELSE Cardinality(drivers) = 1 \/ Cardinality(visible) = 1
        IN  /\ prepared # Source!Refused <=> ~linked /\ clear
            /\ prepared # Source!Refused =>
                  LET run   == ChangedRun(prepared[1], input.change)
                      built == Source!LoadConfig(run)
                  IN  /\ run = prepared[1] => built = <<prepared[1].config.entry_source>>
                      /\ built # Source!Refused => run.original = input.tree /\ built[1] \in DOMAIN input.tree

\* clean_rtl_sources.py: a cleaned file reads the same, code, strings and the ends of lines
\* between them, and cleaning it again changes nothing, as long as strings end on their line.
CleaningKeepsTheCode ==
    input.kind = "text" /\ Text!StringsEndOnTheirLine(input.text) =>
        LET clean == Text!Clean(input.text)
        IN  \/ clean = Text!Unterminated /\ Text!Lexed(input.text).mode \in {"block", "star"}
            \/ /\ clean # Text!Unterminated
               /\ Text!Lexemes(clean) = Text!Lexemes(Text!Rename(input.text))
               /\ Text!Clean(clean) = clean

\* Which ISA tests run is as the gates and the command line say: the selection of
\* run_isa_tests.py is exact and the final gate of generate_isa_data.py complete.
SelectionIsRight == SelectionIsExact /\ FinalGateIsComplete

=============================================================================
