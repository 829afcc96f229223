------------------------------ MODULE BramMap -------------------------------
(***************************************************************************)
(* scripts/generate_manual_mmi.py as operators: from the list of block     *)
(* RAMs of a placed design to the memory information that tells updatemem  *)
(* which bit of which word is in which block RAM.                          *)
(*                                                                         *)
(* A block RAM is [cell, loc, ref, shape]: the memory and slice its cell   *)
(* name says (two naming styles name the same slice), its place, its       *)
(* primitive, and the widths and layout of its ports.  A place <<grid, n>> *)
(* is the n-th name of one of the two grids of names, RAMB36_* and         *)
(* RAMB18_*, that the device has for the same block RAMs.                  *)
(***************************************************************************)
EXTENDS Naturals, Sequences, FiniteSets

Lanes      == 0..3
Banks      == 0..7
IccmRows   == 8192
DccmRows   == 2048

\* The device: the bits of a primitive, those of parity included, and the halves of the block
\* RAMs that a place stands for.
Primitives == {"RAMB36", "RAMB18"}
BitsOf     == [ref \in Primitives |-> IF ref = "RAMB36" THEN 36864 ELSE 18432]
Halves(loc) == IF loc[1] = "RAMB36" THEN {2 * loc[2], 2 * loc[2] + 1} ELSE {loc[2]}

\* The places a cell name can stand for.
IccmSlots  == {<<"iccm", lane, slice>> : lane \in Lanes, slice \in 0..7}
DccmSlots  == {<<"dccm", bank, slice>> : bank \in Banks, slice \in 0..1}
Slots      == IccmSlots \cup DccmSlots

Shape(width, layout) == [width |-> width, layout |-> layout]

\* What the eight slices of an instruction memory lane look like on the two families.
Iccm7Series    == [slice \in 0..7 |-> Shape(4, "p0_d4")]
IccmUltraScale == [slice \in 0..7 |-> CASE slice \in 0..3 -> Shape(18, "p2_d16")
                                        [] slice \in 4..5 -> Shape(9, "p1_d8")
                                        [] slice = 6 -> Shape(4, "p0_d4")
                                        [] slice = 7 -> Shape(2, "p0_d1")]
DccmGeometry   == [slice \in 0..1 |-> Shape(18, IF slice = 0 THEN "p2_d16" ELSE "p0_d14")]

\* read_bram_map: the column headings are complete and there is a line of data.
ReadBramMap(map) == map.columns = "complete" /\ map.part # "none" /\ map.brams # <<>>

InSlot(brams, slot) == {i \in DOMAIN brams : brams[i].cell.slot = slot}

\* The later one wins when two cells name the same slice.
AtSlot(brams, slot) == brams[CHOOSE i \in InSlot(brams, slot) : \A j \in InSlot(brams, slot) : j <= i]

LaneGeometry(brams, lane) == [slice \in 0..7 |-> AtSlot(brams, <<"iccm", lane, slice>>).shape]

\* classify accepts: no cell and no name of a place twice, every cell known, 48 in all, every
\* slice there, and the shapes of one family throughout.
Classified(brams) ==
    /\ Cardinality({brams[i].cell : i \in DOMAIN brams}) = Len(brams)
    /\ Cardinality({brams[i].loc : i \in DOMAIN brams}) = Len(brams)
    /\ \A i \in DOMAIN brams : brams[i].cell.slot \in Slots
    /\ Len(brams) = 48
    /\ \A slot \in Slots : InSlot(brams, slot) # {}
    /\ LaneGeometry(brams, 0) \in {Iccm7Series, IccmUltraScale}
    /\ \A lane \in Lanes : LaneGeometry(brams, lane) = LaneGeometry(brams, 0)
    /\ \A bank \in Banks, slice \in 0..1 :
          AtSlot(brams, <<"dccm", bank, slice>>).shape = DccmGeometry[slice]

\* add_bram: bits lsb..msb of the rows from begin to end.
AddBram(slot, lsb, msb, begin, end) ==
    [slot |-> slot, lsb |-> lsb, msb |-> msb, begin |-> begin, end |-> end]
EntryBits(e) == (e.msb - e.lsb + 1) * (e.end - e.begin + 1)

\* Mutant: the second half of the middle bits starts where the first half does.
LaneLayout_sameBegin(geometry, lane) ==
    {AddBram(<<"iccm", lane, s>>, 0, 17, s * 2048, s * 2048 + 2047) : s \in 0..3} \cup
    {AddBram(<<"iccm", lane, s>>, 18, 26, 0, 4095) : s \in 4..5} \cup
    {AddBram(<<"iccm", lane, 6>>, 27, 30, 0, 8191), AddBram(<<"iccm", lane, 7>>, 31, 31, 0, 8191)}

LaneLayout(geometry, lane) ==
    IF geometry = Iccm7Series
    THEN {AddBram(<<"iccm", lane, s>>, s * 4, s * 4 + 3, 0, 8191) : s \in 0..7}
    ELSE {AddBram(<<"iccm", lane, s>>, 0, 17, s * 2048, s * 2048 + 2047) : s \in 0..3} \cup
         {AddBram(<<"iccm", lane, s>>, 18, 26, (s - 4) * 4096, (s - 4) * 4096 + 4095) : s \in 4..5} \cup
         {AddBram(<<"iccm", lane, 6>>, 27, 30, 0, 8191), AddBram(<<"iccm", lane, 7>>, 31, 31, 0, 8191)}

BankLayout(bank) ==
    {AddBram(<<"dccm", bank, 0>>, 0, 17, 0, 2047), AddBram(<<"dccm", bank, 1>>, 18, 31, 0, 2047)}

\* generate: the twelve memories in the order patch_bitstream.py expects, or nothing.
Mmi(map) ==
    IF /\ ReadBramMap(map) /\ Classified(map.brams)
       /\ \A i \in DOMAIN map.brams : map.brams[i].ref \in Primitives
    THEN [i \in 1..12 |-> IF i <= 4 THEN LaneLayout(LaneGeometry(map.brams, i - 1), i - 1)
                          ELSE BankLayout(i - 5)]
    ELSE <<>>

\* EXPECTED_ARRAYS of patch_bitstream.py, which validate_mmi insists on: the memory its n-th
\* data file, the n-th part of the flat image, is patched into.
UpdateOrder == [n \in 1..12 |-> IF n <= 4 THEN <<"iccm", n - 1>> ELSE <<"dccm", n - 5>>]

\* The rows at which an address range can begin or end, and their neighbours.
EdgeRows(rows) == {r \in 0..rows - 1 : r % 2048 \in {0, 2047}}
=============================================================================
