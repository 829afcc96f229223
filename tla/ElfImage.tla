------------------------------ MODULE ElfImage ------------------------------
(***************************************************************************)
(* scripts/elf2mem.py as operators: from the program headers of an ELF to  *)
(* the flat MEM files and the banks of the two tightly coupled memories,   *)
(* and what the RTL reads from these banks.                                *)
(*                                                                         *)
(* A byte is a number, 0 being the fill; an ELF that a check refuses gives *)
(* Refused.  Word size and interleaving are the code's; the size of a      *)
(* region is a parameter.                                                  *)
(***************************************************************************)
EXTENDS Integers, Sequences, FiniteSets

Refused     == <<>>
Accept(x)   == <<x>>
Fill        == 0
WordBytes   == 4
IccmLanes   == 4
DccmBanks   == 8

-----------------------------------------------------------------------------
(***************************************************************************)
(* The ELF.  header is "ok" or the check of the header that fails; a       *)
(* program header has a type, its two addresses, its sizes, its data and   *)
(* whether its data lies beyond the end of the file.                       *)
(***************************************************************************)
\* Program headers that are not loadable, or empty, are passed over.
Loadable(ph) == ph.type = "load" /\ ph.memory > 0

\* The physical address, unless it is zero.
LoadAddress(ph) == IF ph.physical # 0 THEN ph.physical ELSE ph.virtual

Segment(ph) == [address |-> LoadAddress(ph), data |-> ph.data, memory |-> ph.memory]

ParseElf(elf) ==
    LET loads == SelectSeq(elf.headers, Loadable)
    IN  IF /\ elf.header = "ok"
           /\ \A i \in DOMAIN loads : Len(loads[i].data) <= loads[i].memory /\ ~loads[i].beyond
           /\ loads # <<>>
        THEN Accept([i \in DOMAIN loads |-> Segment(loads[i])])
        ELSE Refused

-----------------------------------------------------------------------------
(***************************************************************************)
(* Regions.                                                                *)
(***************************************************************************)
Region(name, base, size) ==
    [name |-> name, base |-> base, size |-> size, image |-> [o \in 0..size - 1 |-> Fill], used |-> 0]

Contains(region, address, size) ==
    region.base <= address /\ address + size <= region.base + region.size

\* Mutant: the bytes without data are left as they are.
Place_noFill(region, segment) ==
    LET offset == segment.address - region.base
        stored == offset + Len(segment.data)
        end    == offset + segment.memory
    IN  [region EXCEPT
           !.image = [o \in DOMAIN @ |-> IF offset <= o /\ o < stored
                                         THEN segment.data[o - offset + 1] ELSE @[o]],
           !.used = IF end > @ THEN end ELSE @]

\* The data, zeros up to the memory size, and how far the region is used.
Place(region, segment) ==
    LET offset == segment.address - region.base
        stored == offset + Len(segment.data)
        end    == offset + segment.memory
    IN  [region EXCEPT
           !.image = [o \in DOMAIN @ |-> CASE offset <= o /\ o < stored -> segment.data[o - offset + 1]
                                           [] stored <= o /\ o < end -> Fill
                                           [] OTHER -> @[o]],
           !.used = IF end > @ THEN end ELSE @]

Matches(regions, segment) ==
    {i \in DOMAIN regions : Contains(regions[i], segment.address, segment.memory)}

\* One segment of convert: it belongs to exactly one region.
PlaceSegment(regions, segment) ==
    [i \in DOMAIN regions |-> IF i \in Matches(regions, segment)
                              THEN Place(regions[i], segment) ELSE regions[i]]

\* The regions after the first n segments.
PlacedAfter(regions, segments) ==
    LET placed[n \in 0..Len(segments)] ==
            IF n = 0 THEN regions ELSE PlaceSegment(placed[n - 1], segments[n])
    IN  placed

PlaceAll(regions, segments) ==
    IF \A s \in DOMAIN segments : \E i \in DOMAIN regions : Matches(regions, segments[s]) = {i}
    THEN Accept(PlacedAfter(regions, segments)[Len(segments)])
    ELSE Refused

-----------------------------------------------------------------------------
(***************************************************************************)
(* The files.  Rows are counted from zero.                                 *)
(***************************************************************************)
RoundUp(n) == ((n + 3) \div WordBytes) * WordBytes

\* A region whose size is not a whole number of words is extended.
ByteOf(region, o) == IF o \in DOMAIN region.image THEN region.image[o] ELSE Fill
WordAt(region, offset) == [b \in 0..WordBytes - 1 |-> ByteOf(region, offset + b)]

\* write_word_mem: everything, or with --trim the words in use, one at least.
StoredBytes(region, trim) ==
    IF trim THEN (IF RoundUp(region.used) < 4 THEN 4 ELSE RoundUp(region.used))
    ELSE RoundUp(region.size)

WordMem(region, trim) ==
    [w \in 0..StoredBytes(region, trim) \div WordBytes - 1 |-> WordAt(region, w * WordBytes)]

\* write_instruction_banks: the low and the high word of each 64 bits.
InstructionBanks(region) ==
    IF region.size % 8 # 0 THEN Refused
    ELSE Accept([half \in 0..1 |->
                   [row \in 0..region.size \div 8 - 1 |-> WordAt(region, row * 8 + half * 4)]])

\* Where row of bank comes from.
BankOffset(row, bank, count, depth) == (row * count + bank) * WordBytes

\* write_interleaved_banks: consecutive words go to consecutive banks.
InterleavedBanks(region, count) ==
    LET depth == region.size \div (WordBytes * count)
    IN  IF region.size % (WordBytes * count) # 0 THEN Refused
        ELSE Accept([bank \in 0..count - 1 |->
                       [row \in 0..depth - 1 |-> WordAt(region, BankOffset(row, bank, count, depth))]])

\* convert: the flat file of every region, then the banks that are asked for.
Convert(elf, regions, trim, asked) ==
    LET segments == ParseElf(elf)
        placed   == IF segments = Refused THEN Refused ELSE PlaceAll(regions, segments[1])
        code     == placed[1][1]
        data     == placed[1][2]
        files(name) == CASE name = "halves" -> InstructionBanks(code)
                         [] name = "lanes"  -> InterleavedBanks(code, IccmLanes)
                         [] name = "banks"  -> InterleavedBanks(data, DccmBanks)
    IN  IF placed = Refused \/ \E name \in asked : files(name) = Refused
        THEN Refused
        ELSE Accept([flat  |-> [i \in DOMAIN regions |-> WordMem(placed[1][i], trim)],
                     split |-> [name \in asked |-> files(name)[1]]])

-----------------------------------------------------------------------------
(***************************************************************************)
(* patch_bitstream.py: the flat files, split again, become the contents of *)
(* the memories of an existing bitstream.                                  *)
(***************************************************************************)
\* read_flat_mem insists on the whole memory, so a trimmed image is refused.
ReadFlatMem(words, expected) ==
    IF Cardinality(DOMAIN words) = expected THEN Accept(words) ELSE Refused

\* words[way::ways]
SplitWords(words, count, ways) ==
    [way \in 0..ways - 1 |-> [row \in 0..count \div ways - 1 |-> words[row * ways + way]]]

-----------------------------------------------------------------------------
(***************************************************************************)
(* The RTL: 128-bit lines of the instruction memory, one lane per word;    *)
(* banks of the data memory selected by the low bits of the word address.  *)
(***************************************************************************)
IccmRead(lanes, address) == lanes[(address \div 4) % IccmLanes][address \div 16]
DccmRead(banks, address) == banks[(address \div 4) % DccmBanks][address \div 32]

\* What an ELF says the memory holds when the program starts: at each address the last
\* segment that covers it, its data or zero, and zero where there is none.
MemoryOf(segments, a) ==
    LET covers(s) == segments[s].address <= a /\ a < segments[s].address + segments[s].memory
        last      == CHOOSE s \in DOMAIN segments :
                        covers(s) /\ \A t \in DOMAIN segments : covers(t) => t <= s
        offset    == a - segments[last].address
    IN  IF ~\E s \in DOMAIN segments : covers(s) THEN Fill
        ELSE IF offset < Len(segments[last].data) THEN segments[last].data[offset + 1] ELSE Fill
=============================================================================
