----------------------------- MODULE ImageStore -----------------------------
(***************************************************************************)
(* The firmware of one profile and the memory images made from it:         *)
(* scripts/build_software.py (make, the checks of the ELF, the build       *)
(* manifest), scripts/elf2mem.py (the MEM files and, last, image.json) and *)
(* scripts/check_images.py.                                                *)
(*                                                                         *)
(* A file's contents are the version of the sources it was made from, so   *)
(* hashes agree exactly when versions do.  The MEM files are overwritten   *)
(* in place, one after the other; the manifests are replaced atomically.   *)
(***************************************************************************)
EXTENDS Naturals, Sequences

CONSTANT MaxSw      \* how many versions of the sources the developer makes

ASSUME ImageStoreAssumption == MaxSw \in Nat \ {0}

VARIABLES
    sw,             \* version of the software sources
    elf,            \* firmware.elf
    record,         \* the ELF that build_manifest.json beside it describes
    mem,            \* the MEM files
    imageJson,      \* image.json: hashes of the ELF and of the MEM files
    conv            \* the conversion in progress

imageVars == <<sw, elf, record, mem, imageJson, conv>>

Missing   == 0
SwVersion == 1..MaxSw

\* The order in which convert writes: the flat regions, then the banks of the
\* instruction and of the data memory; each stands for the files of its kind.
MemFiles  == <<"flat", "iccm", "dccm">>
MemNames  == {MemFiles[i] : i \in 1..Len(MemFiles)}
SimFiles  == {"iccm", "dccm"}    \* what the simulation loads

NoConversion == [next |-> 0, hashes |-> [f \in MemNames |-> Missing]]
NoManifest   == [elf |-> Missing, files |-> [f \in MemNames |-> Missing]]

ImageInit ==
    /\ sw = 1
    /\ elf = Missing
    /\ record = Missing
    /\ mem = [f \in MemNames |-> Missing]
    /\ imageJson = NoManifest
    /\ conv = NoConversion

-----------------------------------------------------------------------------
\* make compiles the sources as they are.
Make ==
    /\ elf' = sw
    /\ UNCHANGED <<sw, record, mem, imageJson, conv>>

\* What the record describes: the ELF by its hash, with sources, flags and tools as they are
\* by now, of which no script makes use.
BuildRecord == elf

\* The entry point and the sizes fit, so size.json and build_manifest.json are written;
\* elf2mem then parses the ELF and places its segments.
RecordBuild ==
    /\ elf # Missing
    /\ record' = BuildRecord
    /\ conv' = [NoConversion EXCEPT !.next = 1]
    /\ UNCHANGED <<sw, elf, mem, imageJson>>

\* The next MEM file is overwritten and hashed from the disk.
WriteMem ==
    /\ conv.next \in 1..Len(MemFiles)
    /\ LET f == MemFiles[conv.next]
       IN  /\ mem' = [mem EXCEPT ![f] = elf]
           /\ conv' = [next |-> conv.next + 1, hashes |-> [conv.hashes EXCEPT ![f] = mem'[f]]]
    /\ UNCHANGED <<sw, elf, record, imageJson>>

\* Mutant: the last bank is left out (range(len(banks) - 1)).
WriteImageJson_early ==
    /\ conv.next = Len(MemFiles)
    /\ imageJson' = [elf |-> elf, files |-> conv.hashes]
    /\ conv' = NoConversion
    /\ UNCHANGED <<sw, elf, record, mem>>

\* image.json comes last and replaces its predecessor atomically.
WriteImageJson ==
    /\ conv.next = Len(MemFiles) + 1
    /\ imageJson' = [elf |-> elf, files |-> conv.hashes]
    /\ conv' = NoConversion
    /\ UNCHANGED <<sw, elf, record, mem>>

\* scripts/clean.py software and images.
CleanSoftware ==
    /\ elf' = Missing /\ record' = Missing
    /\ UNCHANGED <<sw, mem, imageJson, conv>>

CleanImages ==
    /\ mem' = [f \in MemNames |-> Missing]
    /\ imageJson' = NoManifest
    /\ UNCHANGED <<sw, elf, record, conv>>

EditSources ==
    /\ \E v \in SwVersion \ {sw} : sw' = v
    /\ UNCHANGED <<elf, record, mem, imageJson, conv>>

\* Mutant: only the flat regions are compared, not the banks.
CheckImages_regionsOnly ==
    /\ imageJson # NoManifest
    /\ elf = imageJson.elf
    /\ \A f \in {"flat"} : mem[f] # Missing /\ mem[f] = imageJson.files[f]

\* check_images accepts the image: the ELF and every MEM file have the recorded hash.
CheckImages ==
    /\ imageJson # NoManifest
    /\ elf = imageJson.elf
    /\ \A f \in MemNames : mem[f] # Missing /\ mem[f] = imageJson.files[f]

\* What run_image asks of an image: the files are there.
ImagePresent == imageJson # NoManifest /\ \A f \in SimFiles : mem[f] # Missing

-----------------------------------------------------------------------------
ImageTypeOK ==
    /\ sw \in SwVersion
    /\ elf \in SwVersion \cup {Missing}
    /\ record \in SwVersion \cup {Missing}
    /\ mem \in [MemNames -> SwVersion \cup {Missing}]
    /\ imageJson \in [elf : SwVersion \cup {Missing},
                      files : [MemNames -> SwVersion \cup {Missing}]]
    /\ conv \in [next : 0..Len(MemFiles) + 1, hashes : [MemNames -> SwVersion \cup {Missing}]]

\* An image that check_images accepts is a complete conversion of one ELF, whatever
\* conversions were cut short before.
AcceptedImageIsWhole == CheckImages => \A f \in MemNames : mem[f] = elf
=============================================================================
