------------------------------- MODULE Boards -------------------------------
(***************************************************************************)
(* scripts/lib/fpga.py as operators: the boards, the core frequencies they *)
(* support and the MMCM factors run_vivado.py, or the launcher of a        *)
(* competition run, hands to the build.                                    *)
(*                                                                         *)
(* A row of a table is <<multiplier, core divider, peripheral divider>>,   *)
(* the first two in hundredths; frequencies are in MHz.                    *)
(***************************************************************************)
EXTENDS Naturals, Sequences, FiniteSets, TLC

NotGiven == 0
Refused  == <<>>

\* The rows both tables have.
CommonRows ==
    (100 :> <<500, 1000, 20>>) @@ (110 :> <<550, 1000, 22>>) @@ (120 :> <<600, 1000, 24>>) @@
    (125 :> <<500, 800, 20>>)  @@ (150 :> <<600, 800, 24>>)  @@ (160 :> <<400, 500, 16>>) @@
    (170 :> <<425, 500, 17>>)  @@ (180 :> <<450, 500, 18>>)  @@ (190 :> <<475, 500, 19>>) @@
    (200 :> <<500, 500, 20>>)  @@ (210 :> <<525, 500, 21>>)  @@ (220 :> <<550, 500, 22>>) @@
    (230 :> <<575, 500, 23>>)  @@ (240 :> <<600, 500, 24>>)  @@ (250 :> <<500, 400, 20>>)

\* BOARDS: the default and the supported frequencies, and the table, empty on the board whose
\* clocks the RTL fixes.
BOARDS ==
    [axku062 |->
        [default |-> 100, supported |-> {50, 130, 140} \cup DOMAIN CommonRows,
         mmcm |-> (50 :> <<500, 2000, 20>>) @@ (130 :> <<650, 1000, 26>>) @@
                  (140 :> <<700, 1000, 28>>) @@ CommonRows],
     kintex7_competition |->
        [default |-> 100, supported |-> {130, 140} \cup DOMAIN CommonRows,
         mmcm |-> (130 :> <<325, 500, 13>>) @@ (140 :> <<350, 500, 14>>) @@ CommonRows],
     pynq_z2 |->
        [default |-> 50, supported |-> {50}, mmcm |-> <<>>]]

\* Mutant: a frequency is not looked up among the supported ones.
ResolveCoreMhz_unchecked(board, requested) ==
    <<IF requested = NotGiven THEN BOARDS[board].default ELSE requested>>

\* resolve_core_mhz: the default unless one is asked for, which must be supported.
ResolveCoreMhz(board, requested) ==
    LET mhz == IF requested = NotGiven THEN BOARDS[board].default ELSE requested
    IN  IF mhz \in BOARDS[board].supported THEN <<mhz>> ELSE Refused

\* The clocks of a build, from the 200 MHz oscillator (125 MHz * 8 / 20 where the RTL fixes
\* them); a frequency without a row is a KeyError.
Clocks(board, mhz) ==
    LET row == BOARDS[board].mmcm[mhz]
        vco == (200 * row[1]) \div 100
    IN  IF BOARDS[board].mmcm = <<>> THEN [vco |-> 1000, core |-> 50, periph |-> 50]
        ELSE IF mhz \notin DOMAIN BOARDS[board].mmcm THEN [vco |-> 0, core |-> 0, periph |-> 0]
        ELSE [vco |-> vco, core |-> (200 * row[1]) \div row[2], periph |-> vco \div row[3]]

\* The Vivado launcher prepare_competition_run.py writes: CORE_MHZ must be set to a frequency
\* of the table, except where the RTL fixes the clocks and it is not looked at.
Launcher(board, requested) ==
    IF BOARDS[board].mmcm = <<>> THEN <<BOARDS[board].default>>
    ELSE IF requested \in BOARDS[board].supported THEN <<requested>> ELSE Refused

\* What the MMCM of each device family can do.
VcoRange == [axku062 |-> 800..1600, kintex7_competition |-> 600..1200, pynq_z2 |-> 600..1200]
=============================================================================
