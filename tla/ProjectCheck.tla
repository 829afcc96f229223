---------------------------- MODULE ProjectCheck ----------------------------
(***************************************************************************)
(* The SoC contract and the checks that guard it: generate_soc_contract.py *)
(* renders the memory map and the software contract into four headers and  *)
(* a linker file, and `make check` runs, one after the other, the checks   *)
(* of Makefile:75-77, until the first that fails.                          *)
(*                                                                         *)
(* The developer edits the documents and the RTL at any time, also while   *)
(* the generator or the check runs, and may kill either.  Each version of  *)
(* a region or of the contract is a number, and Absent is that of a region *)
(* a file does not have; what an output holds is what it was rendered      *)
(* from, or Torn when its writer was killed.  Without CODE the generator   *)
(* ends with an error, so CODE is always there.                            *)
(***************************************************************************)
EXTENDS Naturals, Sequences, FiniteSets

CONSTANTS
    Regions,     \* that the memory map and the RTL may have, CODE among them
    Digits,      \* those with a digit in their name
    MaxVersion,  \* versions of a region and of the contract
    MaxEdits,    \* edits by the developer
    MaxFaults    \* killed processes

ASSUME ProjectCheckAssumption ==
    /\ "CODE" \in Regions
    /\ Digits \subseteq Regions
    /\ MaxVersion \in Nat \ {0} /\ MaxEdits \in Nat /\ MaxFaults \in Nat

VARIABLES
    map,         \* data/soc/memory_map.json
    contract,    \* data/soc/software_contract.json
    schema,      \* whether the documents satisfy their schemas and can be read
    rtl,         \* rtl/soc/soc_memory_map_pkg.sv
    out,         \* the generated files
    stray,       \* where tool logs lie
    tools,       \* the WSL toolchain is complete
    report,      \* build/manifest/eda_env.json
    temps,       \* temporary files left beside it
    gen,         \* the generator
    chk,         \* the check
    edits, faults

vars == <<map, contract, schema, rtl, out, stray, tools, report, temps, gen, chk, edits, faults>>

sources == <<map, contract, schema, rtl, stray, tools>>

Absent    == 0
Versions  == 0..MaxVersion
Torn      == <<>>

\* The contract, with the region that one of its peripherals names; no output holds that name.
Document  == [version : Versions \ {Absent}, region : Regions]

RegionsOf(m) == {r \in Regions : m[r] # Absent}

\* OUTPUTS, in the order they are rendered.
OUTPUTS == <<"memory", "config", "irq", "registers", "linker">>

\* render_memory, render_config, render_irq, render_registers and render_linker: the linker
\* file takes CODE and DATA from the map, of which CODE stands for both.
Rendered(m, c) ==
    [memory |-> <<m>>, config |-> <<c.version>>, irq |-> <<c.version>>,
     registers |-> <<c.version>>, linker |-> <<m["CODE"]>>]

\* The steps of make check.  The outside ones are modelled elsewhere, or run other programs.
CHECKS  == <<"env", "deps", "contract", "isa", "schemas", "scripts", "tree", "filelists", "map", "lint">>
Outside == {"deps", "isa", "scripts", "filelists", "lint"}

Idle == [at |-> "idle", map |-> map, contract |-> contract, next |-> 1]

Init ==
    /\ map \in [Regions -> {Absent, 1}] /\ map["CODE"] # Absent
    /\ contract \in [version : {1}, region : RegionsOf(map)]
    /\ contract.region = "CODE" => RegionsOf(map) = {"CODE"}
    /\ schema = [soc |-> "valid", run |-> "valid"]
    /\ rtl = map
    /\ out = Rendered(map, contract)
    /\ stray = {} /\ tools = TRUE
    /\ report = "none" /\ temps = 0
    /\ gen = Idle
    /\ chk = [step |-> 0, at |-> "idle", map |-> map, contract |-> contract, header |-> out.memory,
              ok |-> TRUE, same |-> TRUE, failed |-> "nothing"]
    /\ edits = 0 /\ faults = 0

\* What a check in progress has seen may now be out of date.
Disturbs == chk' = [chk EXCEPT !.same = FALSE]

-----------------------------------------------------------------------------
(***************************************************************************)
(* The developer.                                                          *)
(***************************************************************************)
Edits(unchanged) ==
    /\ edits < MaxEdits
    /\ edits' = edits + 1
    /\ Disturbs
    /\ UNCHANGED <<out, report, temps, gen, faults, unchanged>>

\* A region is moved, added or removed.
EditMap ==
    /\ \E r \in Regions, v \in Versions :
          v # map[r] /\ (r = "CODE" => v # Absent) /\ map' = [map EXCEPT ![r] = v]
    /\ Edits(<<contract, schema, rtl, stray, tools>>)

\* The peripheral may name a region the map does not have.
EditContract ==
    /\ \E c \in Document : c # contract /\ contract' = c
    /\ Edits(<<map, schema, rtl, stray, tools>>)

EditRtl ==
    /\ \E r \in Regions, v \in Versions : v # rtl[r] /\ rtl' = [rtl EXCEPT ![r] = v]
    /\ Edits(<<map, contract, schema, stray, tools>>)

\* A document stops, or begins again, to satisfy its schema, or a competition run its access.
SchemaChanges ==
    /\ \E d \in DOMAIN schema, s \in {"valid", "invalid", "denied"} :
          s # schema[d] /\ (s = "denied" => d = "run") /\ schema' = [schema EXCEPT ![d] = s]
    /\ Edits(<<map, contract, rtl, stray, tools>>)

\* Vivado leaves its logs where it is started.
LogAppears ==
    /\ \E place \in {"build", "outside"} : stray' = stray \cup {place} /\ place \notin stray
    /\ Edits(<<map, contract, schema, rtl, tools>>)

ToolsChange ==
    /\ tools' = ~tools
    /\ Edits(<<map, contract, schema, rtl, stray>>)

-----------------------------------------------------------------------------
(***************************************************************************)
(* generate_soc_contract.py without --check.                               *)
(***************************************************************************)
\* load_documents: the map, then the contract.
GenerateStarts ==
    /\ gen.at \in {"idle", "done"}
    /\ gen' = [at |-> "loading", map |-> map, contract |-> contract, next |-> 1]
    /\ UNCHANGED <<sources, out, report, temps, chk, edits, faults>>

GenerateLoads ==
    /\ gen.at = "loading"
    /\ gen' = [gen EXCEPT !.at = "writing", !.contract = contract]
    /\ UNCHANGED <<sources, out, report, temps, chk, edits, faults>>

\* write_text empties the file first.
OutputEmptied ==
    /\ gen.at = "writing"
    /\ gen' = [gen EXCEPT !.at = "filling"]
    /\ out' = [out EXCEPT ![OUTPUTS[gen.next]] = Torn]
    /\ Disturbs
    /\ UNCHANGED <<sources, report, temps, edits, faults>>

\* Mutant: every output is rendered from the documents as they are by then.
OutputFilled_rereads ==
    /\ gen.at = "filling"
    /\ out' = [out EXCEPT ![OUTPUTS[gen.next]] = Rendered(map, contract)[OUTPUTS[gen.next]]]
    /\ gen' = IF gen.next = Len(OUTPUTS) THEN [gen EXCEPT !.at = "done"]
              ELSE [gen EXCEPT !.at = "writing", !.next = @ + 1]
    /\ Disturbs
    /\ UNCHANGED <<sources, report, temps, edits, faults>>

OutputFilled ==
    /\ gen.at = "filling"
    /\ out' = [out EXCEPT ![OUTPUTS[gen.next]] = Rendered(gen.map, gen.contract)[OUTPUTS[gen.next]]]
    /\ gen' = IF gen.next = Len(OUTPUTS) THEN [gen EXCEPT !.at = "done"]
              ELSE [gen EXCEPT !.at = "writing", !.next = @ + 1]
    /\ Disturbs
    /\ UNCHANGED <<sources, report, temps, edits, faults>>

GenerateKilled ==
    /\ gen.at \in {"loading", "writing", "filling"}
    /\ faults < MaxFaults
    /\ faults' = faults + 1
    /\ gen' = [gen EXCEPT !.at = "idle"]
    /\ UNCHANGED <<sources, out, report, temps, chk, edits>>

-----------------------------------------------------------------------------
(***************************************************************************)
(* make check.                                                             *)
(***************************************************************************)
Step == IF chk.step \in 1..Len(CHECKS) THEN CHECKS[chk.step] ELSE "none"

\* make goes on to the next check, or stops at the first that fails.
StepEnds(c, ok) ==
    IF ~ok THEN [c EXCEPT !.at = "ended", !.failed = Step]
    ELSE IF c.step = Len(CHECKS) THEN [c EXCEPT !.at = "ended"]
    ELSE [c EXCEPT !.step = @ + 1, !.at = "start"]

CheckStarts ==
    /\ chk.at \in {"idle", "ended"}
    /\ chk' = [chk EXCEPT !.step = 1, !.at = "start", !.same = TRUE, !.failed = "nothing"]
    /\ UNCHANGED <<sources, out, report, temps, gen, edits, faults>>

\* check_environment.py probes the tools; write_json_atomic makes the report a temporary
\* file, which then replaces the report.
EnvironmentProbed ==
    /\ chk.at = "start" /\ Step = "env"
    /\ chk' = [chk EXCEPT !.at = "report", !.ok = tools]
    /\ temps' = temps + 1
    /\ UNCHANGED <<sources, out, report, gen, edits, faults>>

ReportReplaced ==
    /\ chk.at = "report"
    /\ report' = IF chk.ok THEN "ok" ELSE "incomplete"
    /\ temps' = temps - 1
    /\ chk' = StepEnds(chk, chk.ok)
    /\ UNCHANGED <<sources, out, gen, edits, faults>>

OutsideCheck ==
    /\ chk.at = "start" /\ Step \in Outside
    /\ \E ok \in BOOLEAN : chk' = StepEnds(chk, ok)
    /\ UNCHANGED <<sources, out, report, temps, gen, edits, faults>>

\* Mutant: the linker file is not compared.
Stale_headersOnly(m, c) ==
    {o \in DOMAIN out : o # "linker" /\ out[o] # Rendered(m, c)[o]}

\* The outputs that are missing or not what the documents give.
Stale(m, c) == {o \in DOMAIN out : out[o] # Rendered(m, c)[o]}

\* generate_soc_contract.py --check, and in "map" the same documents for check_memory_map.py.
DocumentsLoaded ==
    /\ chk.at = "start" /\ Step \in {"contract", "map"}
    /\ chk' = [chk EXCEPT !.at = "loaded", !.map = map, !.contract = contract, !.header = out.memory]
    /\ UNCHANGED <<sources, out, report, temps, gen, edits, faults>>

ContractCompared ==
    /\ chk.at = "loaded" /\ Step = "contract"
    /\ chk' = StepEnds(chk, Stale(chk.map, chk.contract) = {})
    /\ UNCHANGED <<sources, out, report, temps, gen, edits, faults>>

\* validate_schemas.py: the first document that fails, or cannot be read, ends it.
SchemasValidated ==
    /\ chk.at = "start" /\ Step = "schemas"
    /\ chk' = StepEnds(chk, \A d \in DOMAIN schema : schema[d] = "valid")
    /\ UNCHANGED <<sources, out, report, temps, gen, edits, faults>>

\* Mutant: the logs under build/ count too.
Violations_everywhere == stray

\* check_generated_tree.py passes over everything under build/.
Violations == stray \ {"build"}

TreeChecked ==
    /\ chk.at = "start" /\ Step = "tree"
    /\ chk' = StepEnds(chk, Violations = {})
    /\ UNCHANGED <<sources, out, report, temps, gen, edits, faults>>

\* parse_constants: the patterns take capitals and underscores, no digits.
ParseConstants(values) == [r \in RegionsOf(values) \ Digits |-> values[r]]
NoConstants == [r \in {} |-> 0]

\* check_memory_map.py: rendered_outputs loads the documents once more.
MemoryMapOk ==
    LET sv == ParseConstants(rtl)
        c  == IF chk.header = Torn THEN NoConstants ELSE ParseConstants(chk.header[1])
    IN  /\ Stale(map, contract) = {}
        /\ chk.contract.region \in RegionsOf(chk.map)
        /\ \A r \in RegionsOf(chk.map) : /\ r \in DOMAIN sv /\ sv[r] = chk.map[r]
                                         /\ r \in DOMAIN c /\ c[r] = chk.map[r]

MemoryMapChecked ==
    /\ chk.at = "loaded" /\ Step = "map"
    /\ chk' = StepEnds(chk, MemoryMapOk)
    /\ UNCHANGED <<sources, out, report, temps, gen, edits, faults>>

CheckKilled ==
    /\ chk.at \notin {"idle", "ended"}
    /\ faults < MaxFaults
    /\ faults' = faults + 1
    /\ chk' = [chk EXCEPT !.step = 0, !.at = "idle"]
    /\ UNCHANGED <<sources, out, report, temps, gen, edits>>

\* clean.py all, when nothing runs.
Clean ==
    /\ chk.at \in {"idle", "ended"} /\ gen.at \in {"idle", "done"}
    /\ report # "none" \/ temps # 0
    /\ report' = "none" /\ temps' = 0
    /\ stray' = stray \ {"build"}
    /\ Disturbs
    /\ UNCHANGED <<map, contract, schema, rtl, tools, out, gen, edits, faults>>

Next ==
    \/ EditMap \/ EditContract \/ EditRtl \/ SchemaChanges \/ LogAppears \/ ToolsChange
    \/ GenerateStarts \/ GenerateLoads \/ OutputEmptied \/ OutputFilled \/ GenerateKilled
    \/ CheckStarts \/ EnvironmentProbed \/ ReportReplaced \/ OutsideCheck \/ DocumentsLoaded
    \/ ContractCompared \/ SchemasValidated \/ TreeChecked \/ MemoryMapChecked \/ CheckKilled
    \/ Clean

Spec == Init /\ [][Next]_vars

-----------------------------------------------------------------------------
\* The variables have their types.
TypeOK ==
    /\ map \in [Regions -> Versions] /\ rtl \in [Regions -> Versions] /\ contract \in Document
    /\ DOMAIN out = {OUTPUTS[i] : i \in DOMAIN OUTPUTS}
    /\ tools \in BOOLEAN /\ stray \subseteq {"build", "outside"}
    /\ report \in {"none", "ok", "incomplete"} /\ temps \in 0..MaxFaults + 1
    /\ gen.at \in {"idle", "loading", "writing", "filling", "done"} /\ gen.next \in DOMAIN OUTPUTS
    /\ chk.step \in 0..Len(CHECKS) /\ chk.at \in {"idle", "start", "report", "loaded", "ended"}
    /\ chk.failed \in {"nothing"} \cup {CHECKS[i] : i \in DOMAIN CHECKS}

\* The RTL has every region of the map as the map has it, and the contract names one of them.
\* What the RTL has besides is not compared.
MapAgrees ==
    /\ \A r \in RegionsOf(map) : rtl[r] = map[r]
    /\ contract.region \in RegionsOf(map)

\* The documents, the generated files and the RTL say the same.
Agreement ==
    /\ out = Rendered(map, contract)
    /\ MapAgrees
    /\ \A d \in DOMAIN schema : schema[d] = "valid"
    /\ "outside" \notin stray

\* The regions check_memory_map.py never finds.
Unread == RegionsOf(map) \cap Digits

Passed == chk.at = "ended" /\ chk.failed = "nothing" /\ chk.same

\* make check: when it passes and nothing was changed while it ran, software, linker and RTL
\* agree on the memory map, whatever was killed or half written before, the report of the
\* environment says that the tools are there, and no region has a digit in its name.
PassedMeansAgreement == Passed => Agreement /\ report = "ok" /\ Unread = {}

\* make check: when one of the project's own checks fails and nothing was changed while it
\* ran, there is something to repair, or it is check_memory_map.py and a region of the map
\* has a digit in its name, as I2C has.
AlarmHasAReason ==
    chk.at = "ended" /\ chk.same /\ chk.failed \notin {"nothing"} \cup Outside =>
        ~Agreement \/ ~tools \/ (chk.failed = "map" /\ Unread # {})

\* generate_soc_contract.py: a run that came to its end leaves five files rendered from one
\* version of the documents, so unless these have changed since, they are all up to date,
\* whatever a killed run had left.  Only one generator runs at a time.
GenerationRepairs == gen.at = "done" => out = Rendered(gen.map, gen.contract)

\* What the verdict of an undisturbed make check is worth: it passes only when everything
\* agrees, and fails only when there is something to repair or check_memory_map.py cannot
\* read the name of a region, in which case it never passes.
VerdictIsRight == TypeOK /\ PassedMeansAgreement /\ AlarmHasAReason
=============================================================================
