--------------------------- MODULE TestSelection ----------------------------
(***************************************************************************)
(* Which ISA tests run, as operators: the gates generate_isa_data.py       *)
(* writes into the manifest and the selection run_isa_tests.py makes from  *)
(* gate, suites and names.                                                 *)
(*                                                                         *)
(* A test is <<suite, name>>.  A name on the command line is qualified,    *)
(* <<suite, name>>, or not, <<name>>; --suites not given is the set        *)
(* NotGiven, --tests not given the set NoNames.                            *)
(***************************************************************************)
EXTENDS Naturals, Sequences, FiniteSets

SeqX == INSTANCE SequencesExt

Refused   == <<<<"refused">>>>
NotGiven  == {"not given"}
NoNames   == {<<"no", "names", "given">>}
Elements(s) == {s[i] : i \in DOMAIN s}

-----------------------------------------------------------------------------
(***************************************************************************)
(* The gates.                                                              *)
(***************************************************************************)
Gate(ready, suites, excluded) == [ready |-> ready, suites |-> suites, excluded |-> excluded]

\* dict.fromkeys keeps the first of equal suites.
WithoutRepeats(s) ==
    SeqX!FoldLeft(LAMBDA seen, x : IF x \in Elements(seen) THEN seen ELSE Append(seen, x), <<>>, s)

FpSuites == [single |-> "rv32uf", double |-> "rv32ud"]

\* Mutant: double precision without the single-precision suite.
SelectedFpSuites_doubleOnly(choice) ==
    CASE choice = "single" -> <<FpSuites.single>>
      [] choice = "double" -> <<FpSuites.double>>
      [] OTHER -> <<>>

\* The suites of a floating-point choice; double precision includes single.
SelectedFpSuites(choice) ==
    CASE choice = "single" -> <<FpSuites.single>>
      [] choice = "double" -> <<FpSuites.single, FpSuites.double>>
      [] OTHER -> <<>>

GateManifest(mandatory, choice, doubleSupported) ==
    LET ready == choice \in {"single", "double"}
        base  == SelectSeq(mandatory, LAMBDA s : s \notin {FpSuites.single, FpSuites.double})
    IN  [name \in {"current", "final-base", "fp-single", "fp-double", "final"} |->
           CASE name = "current"    -> Gate(TRUE, <<"rv32ui">>, {<<"rv32ui", "fence_i">>})
             [] name = "final-base" -> Gate(TRUE, base, {})
             [] name = "fp-single"  -> Gate(TRUE, <<FpSuites.single>>, {})
             [] name = "fp-double"  -> Gate(doubleSupported, SelectedFpSuites("double"), {})
             [] name = "final"      -> Gate(ready, WithoutRepeats(mandatory \o SelectedFpSuites(choice)), {})]

-----------------------------------------------------------------------------
(***************************************************************************)
(* The selection.                                                          *)
(***************************************************************************)
\* Mutant: tests the gate excludes can be selected.
Candidates_all(tests, gate, suites) ==
    LET chosen == IF suites \in {NotGiven, {}} THEN Elements(gate.suites) ELSE suites
    IN  SelectSeq(tests, LAMBDA t : t[1] \in chosen)

\* --suites without a name in it is taken as not given.
Candidates(tests, gate, suites) ==
    LET chosen == IF suites \in {NotGiven, {}} THEN Elements(gate.suites) ELSE suites
    IN  SelectSeq(tests, LAMBDA t : t[1] \in chosen /\ t \notin gate.excluded)

Named(candidates, name) == SelectSeq(candidates, LAMBDA t : t[2] = name)

\* select_tests: qualified names first, in the order of the manifest, then the others; a
\* name that fits several tests, or none, is refused.
SelectTests(tests, gates, gate, suites, names) ==
    LET candidates  == Candidates(tests, gates[gate], suites)
        qualified   == {n \in names : Len(n) = 2}
        unqualified == SeqX!SetToSeq(names \ qualified)
        named(i)    == Named(candidates, unqualified[i][1])
        matches     == SelectSeq(candidates, LAMBDA t : t \in qualified) \o
                       SeqX!FlattenSeq([i \in DOMAIN unqualified |-> named(i)])
        found       == Elements(matches) \cup {<<t[2]>> : t \in Elements(matches)}
    IN  IF ~gates[gate].ready THEN Refused
        ELSE IF names = NoNames THEN candidates
        ELSE IF \/ \E i \in DOMAIN unqualified : Len(named(i)) > 1
                \/ ~(names \subseteq found)
             THEN Refused
        ELSE matches
=============================================================================
