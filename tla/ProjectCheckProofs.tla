------------------------- MODULE ProjectCheckProofs -------------------------
(***************************************************************************)
(* For any set of regions and any number of versions, edits and kills: the *)
(* generator that came to its end wrote five files of one version of the   *)
(* documents, and the verdict of an undisturbed `make check` is right.     *)
(***************************************************************************)
EXTENDS ProjectCheck, TLAPS

Maps     == [Regions -> Versions]
Headers  == {Torn} \cup {<<m>> : m \in Maps}
Numbers  == {Torn} \cup {<<v>> : v \in Versions}
Outs     == [memory : Headers, config : Numbers, irq : Numbers, registers : Numbers,
             linker : Numbers]
Gens     == [at : {"idle", "loading", "writing", "filling", "done"}, map : Maps,
             contract : Document, next : 1..5]
Running  == {"start", "report", "loaded"}
Steps    == {"env", "deps", "contract", "isa", "schemas", "scripts", "tree", "filelists", "map",
             "lint"}
Checks   == [step : 0..10, at : Running \cup {"idle", "ended"}, map : Maps, contract : Document,
             header : Headers, ok : BOOLEAN, same : BOOLEAN, failed : Steps \cup {"nothing"}]

\* The types of all variables, the fields included.  A temporary file is left only by a check
\* that was killed while it wrote the report, so there are never more than kills.
CheckTypes ==
    /\ map \in Maps /\ rtl \in Maps /\ contract \in Document
    /\ out \in Outs
    /\ tools \in BOOLEAN /\ stray \subseteq {"build", "outside"}
    /\ report \in {"none", "ok", "incomplete"}
    /\ gen \in Gens /\ chk \in Checks
    /\ faults \in 0..MaxFaults /\ temps \in Nat
    /\ temps <= faults + (IF chk.at = "report" THEN 1 ELSE 0)
    /\ chk.at = "report" => temps > 0

\* The outputs written so far are those of the documents the generator loaded.
GenInv ==
    LET want == Rendered(gen.map, gen.contract)
    IN  /\ gen.at = "loading" => gen.next = 1
        /\ gen.at \in {"writing", "filling"} =>
              /\ gen.next > 1 => out.memory = want.memory
              /\ gen.next > 2 => out.config = want.config
              /\ gen.next > 3 => out.irq = want.irq
              /\ gen.next > 4 => out.registers = want.registers
        /\ GenerationRepairs

\* Where a check is, and that it has not failed so far.
PlaceInv ==
    /\ chk.at # "idle" => chk.step \in 1..10
    /\ chk.at = "report" => chk.step = 1
    /\ chk.at = "loaded" => chk.step \in {3, 9}
    /\ chk.at \in Running => chk.failed = "nothing"
    /\ chk.at = "ended" /\ chk.failed = "nothing" => chk.step = 10

\* What an undisturbed check has seen is still so: each step it has passed says its part
\* of the agreement.
SeenInv ==
    chk.at # "idle" /\ chk.same =>
        /\ chk.at = "report" => chk.ok = tools
        /\ chk.at = "loaded" => /\ chk.map = map /\ chk.contract = contract
                                /\ chk.header = out.memory
        /\ chk.step > 1 => report = "ok"
        /\ chk.step > 3 => out = Rendered(map, contract)
        /\ chk.step > 5 => \A d \in DOMAIN schema : schema[d] = "valid"
        /\ chk.step > 7 => "outside" \notin stray
        /\ chk.step > 9 => MapAgrees /\ Unread = {}

CheckInv == CheckTypes /\ GenInv /\ PlaceInv /\ SeenInv /\ AlarmHasAReason
-----------------------------------------------------------------------------
\* The outputs, in their order.
LEMMA OutputsFacts ==
    /\ Len(OUTPUTS) = 5 /\ DOMAIN OUTPUTS = 1..5
    /\ OUTPUTS[1] = "memory" /\ OUTPUTS[2] = "config" /\ OUTPUTS[3] = "irq"
    /\ OUTPUTS[4] = "registers" /\ OUTPUTS[5] = "linker"
BY DEF OUTPUTS

\* What is rendered from documents has the type of the outputs.
LEMMA RenderedType ==
    ASSUME NEW m \in Maps, NEW c \in Document PROVE Rendered(m, c) \in Outs
BY ProjectCheckAssumption DEF Rendered, Outs, Headers, Numbers, Maps, Document, Absent

\* Which check is at which place.
LEMMA StepFacts ==
    ASSUME chk \in Checks
    PROVE  /\ Step = "env" <=> chk.step = 1
           /\ Step = "contract" <=> chk.step = 3
           /\ Step = "schemas" <=> chk.step = 5
           /\ Step = "tree" <=> chk.step = 7
           /\ Step = "map" <=> chk.step = 9
           /\ Step \in Outside <=> chk.step \in {2, 4, 6, 8, 10}
           /\ chk.step \in 1..10 => Step \in Steps
           /\ Step # "none" => chk.step \in 1..10
<1>1. chk.step \in 0..10
  BY DEF Checks
<1>2. Len(CHECKS) = 10
  BY DEF CHECKS
<1>3. QED
  BY <1>1, <1>2 DEF Step, CHECKS, Outside, Steps

\* Where make goes after a check.
LEMMA StepEndsFacts ==
    ASSUME chk \in Checks, chk.step \in 1..10, NEW ok \in BOOLEAN, chk' = StepEnds(chk, ok)
    PROVE  /\ chk' \in Checks /\ chk'.same = chk.same
           /\ ok /\ chk.step # 10 =>
                chk'.at = "start" /\ chk'.step = chk.step + 1 /\ chk'.failed = chk.failed
           /\ ok /\ chk.step = 10 =>
                chk'.at = "ended" /\ chk'.step = 10 /\ chk'.failed = chk.failed
           /\ ~ok => chk'.at = "ended" /\ chk'.step = chk.step /\ chk'.failed = Step
<1>1. Step \in Steps
  BY StepFacts
<1>2. Len(CHECKS) = 10
  BY DEF CHECKS
<1>3. CASE ~ok
  <2>1. chk' = [chk EXCEPT !.at = "ended", !.failed = Step]
    BY <1>3 DEF StepEnds
  <2>2. QED
    BY <1>1, <1>3, <2>1 DEF Checks
<1>4. CASE ok /\ chk.step = 10
  <2>1. chk' = [chk EXCEPT !.at = "ended"]
    BY <1>2, <1>4 DEF StepEnds
  <2>2. chk' \in Checks /\ chk'.same = chk.same /\ chk'.at = "ended" /\ chk'.failed = chk.failed
    BY <2>1 DEF Checks
  <2>3. chk'.step = chk.step
    BY <2>1 DEF Checks
  <2>4. QED
    BY <1>4, <2>2, <2>3
<1>5. CASE ok /\ chk.step # 10
  <2>1. chk' = [chk EXCEPT !.step = @ + 1, !.at = "start"]
    BY <1>2, <1>5 DEF StepEnds
  <2>2. chk.step + 1 \in 0..10
    BY <1>5
  <2>3. QED
    BY <1>5, <2>1, <2>2 DEF Checks, Running
<1>6. QED
  BY <1>3, <1>4, <1>5

\* An edit or an output that is written marks the check in progress.
LEMMA DisturbsFacts ==
    ASSUME chk \in Checks, Disturbs
    PROVE  /\ chk' \in Checks /\ chk'.same = FALSE /\ chk'.at = chk.at /\ chk'.step = chk.step
           /\ chk'.failed = chk.failed
BY DEF Disturbs, Checks

\* A check that starts is undisturbed and has not failed.
LEMMA CheckStartsFacts ==
    ASSUME chk \in Checks, CheckStarts
    PROVE  /\ chk' \in Checks /\ chk'.at = "start" /\ chk'.step = 1 /\ chk'.failed = "nothing"
           /\ chk'.same = TRUE /\ chk.at # "report"
<1>1. chk' = [chk EXCEPT !.step = 1, !.at = "start", !.same = TRUE, !.failed = "nothing"]
  BY DEF CheckStarts
<1>2. 1 \in 0..10
  OBVIOUS
<1>3. QED
  BY <1>1, <1>2 DEF CheckStarts, Checks, Running

\* A killed check is idle; whether it was disturbed no longer matters.
LEMMA CheckKilledFacts ==
    ASSUME chk \in Checks, CheckKilled PROVE chk' \in Checks /\ chk'.at = "idle"
<1>1. chk' = [chk EXCEPT !.step = 0, !.at = "idle"]
  BY DEF CheckKilled
<1>2. 0 \in 0..10
  OBVIOUS
<1>3. QED
  BY <1>1, <1>2 DEF Checks

\* The types are preserved: the kills bound the temporary files.
LEMMA CheckTypesKept == CheckTypes /\ PlaceInv /\ [Next]_vars => CheckTypes'
<1> SUFFICES ASSUME CheckTypes, PlaceInv, [Next]_vars PROVE CheckTypes'
  OBVIOUS
<1> USE ProjectCheckAssumption DEF CheckTypes, sources
<1>1. CASE EditMap
  <2>1. map' \in Maps
    BY <1>1 DEF EditMap, Maps
  <2>2. QED
    BY <1>1, <2>1, DisturbsFacts DEF EditMap, Edits
<1>2. CASE EditContract
  BY <1>2, DisturbsFacts DEF EditContract, Edits
<1>3. CASE EditRtl
  <2>1. rtl' \in Maps
    BY <1>3 DEF EditRtl, Maps
  <2>2. QED
    BY <1>3, <2>1, DisturbsFacts DEF EditRtl, Edits
<1>4. CASE SchemaChanges
  BY <1>4, DisturbsFacts DEF SchemaChanges, Edits
<1>5. CASE LogAppears
  BY <1>5, DisturbsFacts DEF LogAppears, Edits
<1>6. CASE ToolsChange
  BY <1>6, DisturbsFacts DEF ToolsChange, Edits
<1>7. CASE GenerateStarts
  BY <1>7 DEF GenerateStarts, Gens
<1>8. CASE GenerateLoads
  BY <1>8 DEF GenerateLoads, Gens
<1>9. CASE OutputEmptied
  <2>1. gen' \in Gens
    BY <1>9 DEF OutputEmptied, Gens
  <2>2. out' \in Outs
    <3>1. gen.next \in 1..5
      BY DEF Gens
    <3>2. QED
      BY <1>9, <3>1, OutputsFacts DEF OutputEmptied, Outs, Headers, Numbers
  <2>3. QED
    BY <1>9, <2>1, <2>2, DisturbsFacts DEF OutputEmptied
<1>10. CASE OutputFilled
  <2>1. gen' \in Gens
    <3>1. gen.next \in 1..5 /\ (gen.next # 5 => gen.next + 1 \in 1..5)
      BY DEF Gens
    <3>2. QED
      BY <1>10, <3>1, OutputsFacts DEF OutputFilled, Gens
  <2>2. out' \in Outs
    <3>1. gen.next \in 1..5
      BY DEF Gens
    <3>2. Rendered(gen.map, gen.contract) \in Outs
      BY RenderedType DEF Gens
    <3>3. QED
      BY <1>10, <3>1, <3>2, OutputsFacts DEF OutputFilled, Outs
  <2>3. QED
    BY <1>10, <2>1, <2>2, DisturbsFacts DEF OutputFilled
<1>11. CASE GenerateKilled
  BY <1>11 DEF GenerateKilled, Gens
<1>12. CASE CheckStarts
  <2>1. chk' \in Checks /\ chk'.at = "start" /\ chk.at # "report"
    BY <1>12, CheckStartsFacts
  <2>2. QED
    BY <1>12, <2>1 DEF CheckStarts
<1>13. CASE EnvironmentProbed
  <2>1. chk' \in Checks /\ chk'.at = "report" /\ chk.at # "report"
    BY <1>13 DEF EnvironmentProbed, Checks, Running
  <2>2. QED
    BY <1>13, <2>1 DEF EnvironmentProbed
<1>14. CASE ReportReplaced
  <2>1. chk' \in Checks /\ chk'.at # "report"
    BY <1>14, StepEndsFacts DEF ReportReplaced, Checks, PlaceInv
  <2>2. QED
    BY <1>14, <2>1 DEF ReportReplaced
<1>15. CASE OutsideCheck
  <2>1. PICK ok \in BOOLEAN : chk' = StepEnds(chk, ok)
    BY <1>15 DEF OutsideCheck
  <2>2. chk' \in Checks /\ chk'.at # "report"
    BY <1>15, <2>1, StepEndsFacts DEF OutsideCheck, PlaceInv
  <2>3. QED
    BY <1>15, <2>2 DEF OutsideCheck
<1>16. CASE DocumentsLoaded
  <2>1. chk' \in Checks /\ chk'.at = "loaded" /\ chk.at # "report"
    BY <1>16 DEF DocumentsLoaded, Checks, Running, Outs
  <2>2. QED
    BY <1>16, <2>1 DEF DocumentsLoaded
<1>17. CASE ContractCompared
  <2>1. PICK ok \in BOOLEAN : chk' = StepEnds(chk, ok)
    BY <1>17 DEF ContractCompared
  <2>2. chk \in Checks /\ chk.step \in 1..10
    BY <1>17 DEF ContractCompared, PlaceInv
  <2>3. chk' \in Checks /\ chk'.at # "report"
    BY <2>1, <2>2, StepEndsFacts
  <2>4. QED
    BY <1>17, <2>3 DEF ContractCompared
<1>18. CASE SchemasValidated
  <2>1. PICK ok \in BOOLEAN : chk' = StepEnds(chk, ok)
    BY <1>18 DEF SchemasValidated
  <2>2. chk \in Checks /\ chk.step \in 1..10
    BY <1>18 DEF SchemasValidated, PlaceInv
  <2>3. chk' \in Checks /\ chk'.at # "report"
    BY <2>1, <2>2, StepEndsFacts
  <2>4. QED
    BY <1>18, <2>3 DEF SchemasValidated
<1>19. CASE TreeChecked
  <2>1. PICK ok \in BOOLEAN : chk' = StepEnds(chk, ok)
    BY <1>19 DEF TreeChecked
  <2>2. chk \in Checks /\ chk.step \in 1..10
    BY <1>19 DEF TreeChecked, PlaceInv
  <2>3. chk' \in Checks /\ chk'.at # "report"
    BY <2>1, <2>2, StepEndsFacts
  <2>4. QED
    BY <1>19, <2>3 DEF TreeChecked
<1>20. CASE MemoryMapChecked
  <2>1. PICK ok \in BOOLEAN : chk' = StepEnds(chk, ok)
    BY <1>20 DEF MemoryMapChecked, MemoryMapOk
  <2>2. chk \in Checks /\ chk.step \in 1..10
    BY <1>20 DEF MemoryMapChecked, PlaceInv
  <2>3. chk' \in Checks /\ chk'.at # "report"
    BY <2>1, <2>2, StepEndsFacts
  <2>4. QED
    BY <1>20, <2>3 DEF MemoryMapChecked
<1>21. CASE CheckKilled
  <2>1. chk' \in Checks /\ chk'.at = "idle"
    BY <1>21, CheckKilledFacts
  <2>2. QED
    BY <1>21, <2>1 DEF CheckKilled
<1>22. CASE Clean
  BY <1>22, DisturbsFacts DEF Clean
<1>23. CASE UNCHANGED vars
  BY <1>23 DEF vars
<1>24. QED
  BY <1>1, <1>2, <1>3, <1>4, <1>5, <1>6, <1>7, <1>8, <1>9, <1>10, <1>11, <1>12, <1>13,
     <1>14, <1>15, <1>16, <1>17, <1>18, <1>19, <1>20, <1>21, <1>22, <1>23 DEF Next

\* The generator writes what it loaded, whatever is edited meanwhile.
LEMMA GenKept == CheckTypes /\ PlaceInv /\ GenInv /\ [Next]_vars => GenInv'
<1> SUFFICES ASSUME CheckTypes, PlaceInv, GenInv, [Next]_vars PROVE GenInv'
  OBVIOUS
<1>1. CASE EditMap
  BY <1>1 DEF EditMap, Edits, GenInv, GenerationRepairs
<1>2. CASE EditContract
  BY <1>2 DEF EditContract, Edits, GenInv, GenerationRepairs
<1>3. CASE EditRtl
  BY <1>3 DEF EditRtl, Edits, GenInv, GenerationRepairs
<1>4. CASE SchemaChanges
  BY <1>4 DEF SchemaChanges, Edits, GenInv, GenerationRepairs
<1>5. CASE LogAppears
  BY <1>5 DEF LogAppears, Edits, GenInv, GenerationRepairs
<1>6. CASE ToolsChange
  BY <1>6 DEF ToolsChange, Edits, GenInv, GenerationRepairs
<1>7. CASE GenerateStarts
  BY <1>7 DEF GenerateStarts, GenInv, GenerationRepairs
<1>8. CASE GenerateLoads
  <2>1. gen'.at = "writing" /\ gen'.next = gen.next /\ gen.next = 1
    BY <1>8 DEF GenerateLoads, Gens, CheckTypes, GenInv
  <2>2. QED
    BY <2>1 DEF GenInv, GenerationRepairs
<1>9. CASE OutputEmptied
  <2>1. /\ gen'.at = "filling" /\ gen.at = "writing" /\ gen'.next = gen.next
        /\ gen'.map = gen.map /\ gen'.contract = gen.contract
    BY <1>9 DEF OutputEmptied, Gens, CheckTypes
  <2>2. gen.next \in 1..5
    BY DEF Gens, CheckTypes
  <2>3. /\ gen.next # 1 => out'.memory = out.memory
        /\ gen.next # 2 => out'.config = out.config
        /\ gen.next # 3 => out'.irq = out.irq
        /\ gen.next # 4 => out'.registers = out.registers
    BY <1>9, <2>2, OutputsFacts DEF OutputEmptied, Outs, CheckTypes
  <2>4. QED
    BY <2>1, <2>2, <2>3 DEF GenInv, GenerationRepairs
<1>10. CASE OutputFilled
  <2> DEFINE want == Rendered(gen.map, gen.contract)
  <2>1. /\ gen'.map = gen.map /\ gen'.contract = gen.contract /\ gen.at = "filling"
        /\ gen.next = 5 => gen'.at = "done"
        /\ gen.next # 5 => gen'.at = "writing" /\ gen'.next = gen.next + 1
    BY <1>10, OutputsFacts DEF OutputFilled, Gens, CheckTypes
  <2>2. gen.next \in 1..5
    BY DEF Gens, CheckTypes
  <2>3. want \in Outs
    BY RenderedType DEF Gens, CheckTypes
  <2>4. out' \in Outs
    BY CheckTypesKept DEF CheckTypes
  <2> HIDE DEF want
  <2>5. out' = [out EXCEPT ![OUTPUTS[gen.next]] = want[OUTPUTS[gen.next]]]
    BY <1>10 DEF OutputFilled, want
  <2>6. /\ out'.memory = IF gen.next = 1 THEN want.memory ELSE out.memory
        /\ out'.config = IF gen.next = 2 THEN want.config ELSE out.config
        /\ out'.irq = IF gen.next = 3 THEN want.irq ELSE out.irq
        /\ out'.registers = IF gen.next = 4 THEN want.registers ELSE out.registers
        /\ out'.linker = IF gen.next = 5 THEN want.linker ELSE out.linker
    BY <2>2, <2>5, OutputsFacts DEF Outs, CheckTypes
  <2>7. gen.next = 5 => out' = want
    <3>1. gen.next = 5 =>
            /\ out'.memory = want.memory /\ out'.config = want.config /\ out'.irq = want.irq
            /\ out'.registers = want.registers /\ out'.linker = want.linker
      BY <2>1, <2>6 DEF GenInv, want
    <3>2. QED
      BY <2>3, <2>4, <3>1 DEF Outs
  <2>8. CASE gen.next = 5
    BY <2>1, <2>7, <2>8 DEF GenInv, GenerationRepairs, want
  <2>9. CASE gen.next # 5
    BY <2>1, <2>2, <2>6, <2>9 DEF GenInv, GenerationRepairs, want
  <2>10. QED
    BY <2>8, <2>9
<1>11. CASE GenerateKilled
  <2>1. gen'.at = "idle"
    BY <1>11 DEF GenerateKilled, Gens, CheckTypes
  <2>2. QED
    BY <2>1 DEF GenInv, GenerationRepairs
<1>12. CASE CheckStarts
  BY <1>12 DEF CheckStarts, GenInv, GenerationRepairs
<1>13. CASE EnvironmentProbed
  BY <1>13 DEF EnvironmentProbed, GenInv, GenerationRepairs
<1>14. CASE ReportReplaced
  BY <1>14 DEF ReportReplaced, GenInv, GenerationRepairs
<1>15. CASE OutsideCheck
  BY <1>15 DEF OutsideCheck, GenInv, GenerationRepairs
<1>16. CASE DocumentsLoaded
  BY <1>16 DEF DocumentsLoaded, GenInv, GenerationRepairs
<1>17. CASE ContractCompared
  BY <1>17 DEF ContractCompared, GenInv, GenerationRepairs
<1>18. CASE SchemasValidated
  BY <1>18 DEF SchemasValidated, GenInv, GenerationRepairs
<1>19. CASE TreeChecked
  BY <1>19 DEF TreeChecked, GenInv, GenerationRepairs
<1>20. CASE MemoryMapChecked
  BY <1>20 DEF MemoryMapChecked, GenInv, GenerationRepairs
<1>21. CASE CheckKilled
  BY <1>21 DEF CheckKilled, GenInv, GenerationRepairs
<1>22. CASE Clean
  BY <1>22 DEF Clean, GenInv, GenerationRepairs
<1>23. CASE UNCHANGED vars
  BY <1>23 DEF vars, GenInv, GenerationRepairs
<1>24. QED
  BY <1>1, <1>2, <1>3, <1>4, <1>5, <1>6, <1>7, <1>8, <1>9, <1>10, <1>11, <1>12, <1>13,
     <1>14, <1>15, <1>16, <1>17, <1>18, <1>19, <1>20, <1>21, <1>22, <1>23 DEF Next

\* make goes from check to check until one fails.
LEMMA PlaceKept == CheckTypes /\ PlaceInv /\ [Next]_vars => PlaceInv'
<1> SUFFICES ASSUME CheckTypes, PlaceInv, [Next]_vars PROVE PlaceInv'
  OBVIOUS
<1> USE DEF CheckTypes, PlaceInv, Running
<1>1. CASE EditMap
  BY <1>1, DisturbsFacts DEF EditMap, Edits
<1>2. CASE EditContract
  BY <1>2, DisturbsFacts DEF EditContract, Edits
<1>3. CASE EditRtl
  BY <1>3, DisturbsFacts DEF EditRtl, Edits
<1>4. CASE SchemaChanges
  BY <1>4, DisturbsFacts DEF SchemaChanges, Edits
<1>5. CASE LogAppears
  BY <1>5, DisturbsFacts DEF LogAppears, Edits
<1>6. CASE ToolsChange
  BY <1>6, DisturbsFacts DEF ToolsChange, Edits
<1>7. CASE GenerateStarts
  BY <1>7 DEF GenerateStarts
<1>8. CASE GenerateLoads
  BY <1>8 DEF GenerateLoads
<1>9. CASE OutputEmptied
  BY <1>9, DisturbsFacts DEF OutputEmptied
<1>10. CASE OutputFilled
  BY <1>10, DisturbsFacts DEF OutputFilled
<1>11. CASE GenerateKilled
  BY <1>11 DEF GenerateKilled
<1>12. CASE CheckStarts
  BY <1>12, CheckStartsFacts
<1>13. CASE EnvironmentProbed
  <2>1. chk'.at = "report" /\ chk'.step = chk.step /\ chk'.failed = chk.failed /\ chk.step = 1
    BY <1>13, StepFacts DEF EnvironmentProbed, Checks
  <2>2. QED
    BY <1>13, <2>1 DEF EnvironmentProbed
<1>14. CASE ReportReplaced
  <2>1. PICK ok \in BOOLEAN : chk' = StepEnds(chk, ok)
    BY <1>14 DEF ReportReplaced, Checks
  <2>2. chk.at \in Running
    BY <1>14 DEF ReportReplaced
  <2>3. Step \in Steps
    BY <2>2, StepFacts
  <2>4. QED
    BY <2>1, <2>2, <2>3, StepEndsFacts DEF Steps
<1>15. CASE OutsideCheck
  <2>1. PICK ok \in BOOLEAN : chk' = StepEnds(chk, ok)
    BY <1>15 DEF OutsideCheck
  <2>2. chk.at \in Running
    BY <1>15 DEF OutsideCheck
  <2>3. Step \in Steps
    BY <2>2, StepFacts
  <2>4. QED
    BY <2>1, <2>2, <2>3, StepEndsFacts DEF Steps
<1>16. CASE DocumentsLoaded
  <2>1. chk'.at = "loaded" /\ chk'.step = chk.step /\ chk'.failed = chk.failed
    BY <1>16 DEF DocumentsLoaded, Checks
  <2>2. chk.step \in {3, 9} /\ chk.at = "start"
    BY <1>16, StepFacts DEF DocumentsLoaded
  <2>3. QED
    BY <2>1, <2>2
<1>17. CASE ContractCompared
  <2>1. PICK ok \in BOOLEAN : chk' = StepEnds(chk, ok)
    BY <1>17 DEF ContractCompared
  <2>2. chk.at \in Running
    BY <1>17 DEF ContractCompared
  <2>3. Step \in Steps
    BY <2>2, StepFacts
  <2>4. QED
    BY <2>1, <2>2, <2>3, StepEndsFacts DEF Steps
<1>18. CASE SchemasValidated
  <2>1. PICK ok \in BOOLEAN : chk' = StepEnds(chk, ok)
    BY <1>18 DEF SchemasValidated
  <2>2. chk.at \in Running
    BY <1>18 DEF SchemasValidated
  <2>3. Step \in Steps
    BY <2>2, StepFacts
  <2>4. QED
    BY <2>1, <2>2, <2>3, StepEndsFacts DEF Steps
<1>19. CASE TreeChecked
  <2>1. PICK ok \in BOOLEAN : chk' = StepEnds(chk, ok)
    BY <1>19 DEF TreeChecked
  <2>2. chk.at \in Running
    BY <1>19 DEF TreeChecked
  <2>3. Step \in Steps
    BY <2>2, StepFacts
  <2>4. QED
    BY <2>1, <2>2, <2>3, StepEndsFacts DEF Steps
<1>20. CASE MemoryMapChecked
  <2>1. PICK ok \in BOOLEAN : chk' = StepEnds(chk, ok)
    BY <1>20 DEF MemoryMapChecked, MemoryMapOk
  <2>2. chk.at \in Running
    BY <1>20 DEF MemoryMapChecked
  <2>3. Step \in Steps
    BY <2>2, StepFacts
  <2>4. QED
    BY <2>1, <2>2, <2>3, StepEndsFacts DEF Steps
<1>21. CASE CheckKilled
  BY <1>21, CheckKilledFacts
<1>22. CASE Clean
  BY <1>22, DisturbsFacts DEF Clean
<1>23. CASE UNCHANGED vars
  BY <1>23 DEF vars
<1>24. QED
  BY <1>1, <1>2, <1>3, <1>4, <1>5, <1>6, <1>7, <1>8, <1>9, <1>10, <1>11, <1>12, <1>13,
     <1>14, <1>15, <1>16, <1>17, <1>18, <1>19, <1>20, <1>21, <1>22, <1>23 DEF Next

\* A file is stale exactly when it is not what the documents give.
LEMMA StaleFacts ==
    ASSUME out \in Outs, NEW m \in Maps, NEW c \in Document
    PROVE  Stale(m, c) = {} <=> out = Rendered(m, c)
<1> DEFINE want == Rendered(m, c)
<1>1. want \in Outs
  BY RenderedType
<1> HIDE DEF want
<1>2. DOMAIN out = {"memory", "config", "irq", "registers", "linker"}
  BY DEF Outs
<1>3. (\A o \in DOMAIN out : out[o] = want[o]) => out = want
  BY <1>1, <1>2 DEF Outs
<1>4. Stale(m, c) = {} <=> \A o \in DOMAIN out : out[o] = want[o]
  BY DEF Stale, want
<1>5. QED
  BY <1>3, <1>4 DEF want

\* The logs that count are those outside build/.
LEMMA ViolationsFacts ==
    ASSUME CheckTypes PROVE Violations = {} <=> "outside" \notin stray
BY DEF CheckTypes, Violations

\* check_memory_map.py on documents that have not changed since it loaded them: it accepts the
\* map only when that agrees and has no name with a digit, and then always.
LEMMA MemoryMapFacts ==
    ASSUME CheckTypes, chk.map = map, chk.contract = contract, chk.header = out.memory
    PROVE  /\ MemoryMapOk => MapAgrees /\ Unread = {}
           /\ Agreement /\ Unread = {} => MemoryMapOk
<1>1. ASSUME MemoryMapOk PROVE MapAgrees /\ Unread = {}
  <2>1. /\ contract.region \in RegionsOf(map)
        /\ \A r \in RegionsOf(map) :
              r \in DOMAIN ParseConstants(rtl) /\ ParseConstants(rtl)[r] = map[r]
    BY <1>1 DEF MemoryMapOk
  <2>2. \A r \in RegionsOf(map) : r \notin Digits /\ rtl[r] = map[r]
    BY <2>1 DEF ParseConstants
  <2>3. QED
    BY <2>1, <2>2 DEF MapAgrees, Unread
<1>2. ASSUME Unread = {}, Agreement PROVE MemoryMapOk
  <2>1. out = Rendered(map, contract) /\ MapAgrees
    BY <1>2 DEF Agreement
  <2>2. chk.header = <<map>>
    BY <2>1 DEF Rendered
  <2>3. chk.header # Torn /\ chk.header[1] = map
    BY <2>2 DEF Torn
  <2>4. Stale(map, contract) = {}
    BY <2>1, StaleFacts DEF CheckTypes
  <2>5. ASSUME NEW r \in RegionsOf(map)
        PROVE  /\ r \in DOMAIN ParseConstants(map) /\ ParseConstants(map)[r] = map[r]
               /\ r \in DOMAIN ParseConstants(rtl) /\ ParseConstants(rtl)[r] = map[r]
    <3>1. r \notin Digits /\ rtl[r] = map[r] /\ r \in Regions /\ map[r] # Absent
      BY <1>2, <2>1, <2>5 DEF Unread, MapAgrees, RegionsOf
    <3>2. r \in RegionsOf(rtl)
      BY <3>1 DEF RegionsOf
    <3>3. QED
      BY <2>5, <3>1, <3>2 DEF ParseConstants
  <2>6. contract.region \in RegionsOf(map)
    BY <2>1 DEF MapAgrees
  <2>7. QED
    BY <2>3, <2>4, <2>5, <2>6 DEF MemoryMapOk
<1>3. QED
  BY <1>1, <1>2

\* What an undisturbed check has seen stays so.
LEMMA SeenKept == CheckTypes /\ PlaceInv /\ SeenInv /\ [Next]_vars => SeenInv'
<1> SUFFICES ASSUME CheckTypes, PlaceInv, SeenInv, [Next]_vars PROVE SeenInv'
  OBVIOUS
<1>0. chk \in Checks /\ out \in Outs /\ chk.map \in Maps /\ chk.contract \in Document
  BY DEF CheckTypes, Checks
<1> USE <1>0
<1>1. CASE EditMap
  BY <1>1, DisturbsFacts DEF EditMap, Edits, SeenInv
<1>2. CASE EditContract
  BY <1>2, DisturbsFacts DEF EditContract, Edits, SeenInv
<1>3. CASE EditRtl
  BY <1>3, DisturbsFacts DEF EditRtl, Edits, SeenInv
<1>4. CASE SchemaChanges
  BY <1>4, DisturbsFacts DEF SchemaChanges, Edits, SeenInv
<1>5. CASE LogAppears
  BY <1>5, DisturbsFacts DEF LogAppears, Edits, SeenInv
<1>6. CASE ToolsChange
  BY <1>6, DisturbsFacts DEF ToolsChange, Edits, SeenInv
<1>7. CASE GenerateStarts
  <2>1. chk' = chk /\ report' = report /\ UNCHANGED <<sources, out>>
    BY <1>7 DEF GenerateStarts, sources
  <2>2. QED
    BY <2>1 DEF SeenInv, sources, MapAgrees, Unread
<1>8. CASE GenerateLoads
  <2>1. chk' = chk /\ report' = report /\ UNCHANGED <<sources, out>>
    BY <1>8 DEF GenerateLoads, sources
  <2>2. QED
    BY <2>1 DEF SeenInv, sources, MapAgrees, Unread
<1>9. CASE OutputEmptied
  BY <1>9, DisturbsFacts DEF OutputEmptied, SeenInv
<1>10. CASE OutputFilled
  BY <1>10, DisturbsFacts DEF OutputFilled, SeenInv
<1>11. CASE GenerateKilled
  <2>1. chk' = chk /\ report' = report /\ UNCHANGED <<sources, out>>
    BY <1>11 DEF GenerateKilled, sources
  <2>2. QED
    BY <2>1 DEF SeenInv, sources, MapAgrees, Unread
<1>12. CASE CheckStarts
  BY <1>12, CheckStartsFacts DEF SeenInv
<1>13. CASE EnvironmentProbed
  <2>1. chk'.at = "report" /\ chk'.step = chk.step /\ chk'.ok = tools /\ chk.step = 1
    BY <1>13, StepFacts DEF EnvironmentProbed, Checks
  <2>2. tools' = tools
    BY <1>13 DEF EnvironmentProbed, sources
  <2>3. QED
    BY <2>1, <2>2 DEF SeenInv
<1>14. CASE ReportReplaced
  <2>1. chk.ok \in BOOLEAN /\ chk' = StepEnds(chk, chk.ok)
    BY <1>14 DEF ReportReplaced, Checks
  <2>2. chk.at = "report" /\ chk.step = 1 /\ chk.step \in 1..10
    BY <1>14, StepFacts DEF ReportReplaced, PlaceInv
  <2>3. UNCHANGED <<sources, out>>
    BY <1>14 DEF ReportReplaced, sources
  <2>4. /\ chk'.same = chk.same
        /\ chk.ok => chk'.at = "start" /\ chk'.step = 2
        /\ ~chk.ok => chk'.at = "ended" /\ chk'.step = 1
    BY <2>1, <2>2, StepEndsFacts
  <2>5. chk.ok => report' = "ok"
    BY <1>14 DEF ReportReplaced
  <2>6. QED
    BY <2>2, <2>3, <2>4, <2>5 DEF SeenInv, sources, MapAgrees, Unread
<1>15. CASE OutsideCheck
  <2>1. PICK ok \in BOOLEAN : chk' = StepEnds(chk, ok)
    BY <1>15 DEF OutsideCheck
  <2>2. chk.at = "start" /\ chk.step \in {2, 4, 6, 8, 10}
    BY <1>15, StepFacts DEF OutsideCheck
  <2>3. UNCHANGED <<sources, out, report>>
    BY <1>15 DEF OutsideCheck, sources
  <2>4. /\ chk'.same = chk.same /\ chk'.at \in {"start", "ended"}
        /\ chk'.step = chk.step \/ chk'.step = chk.step + 1
    BY <2>1, <2>2, StepEndsFacts
  <2>5. QED
    BY <2>2, <2>3, <2>4 DEF SeenInv, sources, MapAgrees, Unread
<1>16. CASE DocumentsLoaded
  <2>1. /\ chk'.at = "loaded" /\ chk'.step = chk.step /\ chk'.same = chk.same /\ chk.at = "start"
        /\ chk'.map = map /\ chk'.contract = contract /\ chk'.header = out.memory
    BY <1>16 DEF DocumentsLoaded, Checks
  <2>2. UNCHANGED <<sources, out, report>>
    BY <1>16 DEF DocumentsLoaded, sources
  <2>3. QED
    BY <2>1, <2>2 DEF SeenInv, sources, MapAgrees, Unread
<1>17. CASE ContractCompared
  <2> DEFINE ok == Stale(chk.map, chk.contract) = {}
  <2>1. ok \in BOOLEAN /\ chk' = StepEnds(chk, ok)
    BY <1>17 DEF ContractCompared
  <2> HIDE DEF ok
  <2>2. chk.at = "loaded" /\ chk.step = 3 /\ chk.step \in 1..10
    BY <1>17, StepFacts DEF ContractCompared, PlaceInv
  <2>3. UNCHANGED <<sources, out, report>>
    BY <1>17 DEF ContractCompared, sources
  <2>4. /\ chk'.same = chk.same
        /\ ok => chk'.at = "start" /\ chk'.step = 4
        /\ ~ok => chk'.at = "ended" /\ chk'.step = 3
    BY <2>1, <2>2, StepEndsFacts
  <2>5. chk.same /\ ok => out = Rendered(map, contract)
    BY <2>2, StaleFacts DEF SeenInv, ok
  <2>6. QED
    BY <2>2, <2>3, <2>4, <2>5 DEF SeenInv, sources, MapAgrees, Unread
<1>18. CASE SchemasValidated
  <2> DEFINE ok == \A d \in DOMAIN schema : schema[d] = "valid"
  <2>1. ok \in BOOLEAN /\ chk' = StepEnds(chk, ok)
    BY <1>18 DEF SchemasValidated
  <2> HIDE DEF ok
  <2>2. chk.at = "start" /\ chk.step = 5 /\ chk.step \in 1..10
    BY <1>18, StepFacts DEF SchemasValidated, PlaceInv
  <2>3. UNCHANGED <<sources, out, report>>
    BY <1>18 DEF SchemasValidated, sources
  <2>4. /\ chk'.same = chk.same
        /\ ok => chk'.at = "start" /\ chk'.step = 6
        /\ ~ok => chk'.at = "ended" /\ chk'.step = 5
    BY <2>1, <2>2, StepEndsFacts
  <2>5. chk.same /\ ok => \A d \in DOMAIN schema : schema[d] = "valid"
    BY DEF ok
  <2>6. QED
    BY <2>2, <2>3, <2>4, <2>5 DEF SeenInv, sources, MapAgrees, Unread
<1>19. CASE TreeChecked
  <2> DEFINE ok == Violations = {}
  <2>1. ok \in BOOLEAN /\ chk' = StepEnds(chk, ok)
    BY <1>19 DEF TreeChecked
  <2> HIDE DEF ok
  <2>2. chk.at = "start" /\ chk.step = 7 /\ chk.step \in 1..10
    BY <1>19, StepFacts DEF TreeChecked, PlaceInv
  <2>3. UNCHANGED <<sources, out, report>>
    BY <1>19 DEF TreeChecked, sources
  <2>4. /\ chk'.same = chk.same
        /\ ok => chk'.at = "start" /\ chk'.step = 8
        /\ ~ok => chk'.at = "ended" /\ chk'.step = 7
    BY <2>1, <2>2, StepEndsFacts
  <2>5. chk.same /\ ok => "outside" \notin stray
    BY ViolationsFacts DEF ok
  <2>6. QED
    BY <2>2, <2>3, <2>4, <2>5 DEF SeenInv, sources, MapAgrees, Unread
<1>20. CASE MemoryMapChecked
  <2>1. MemoryMapOk \in BOOLEAN /\ chk' = StepEnds(chk, MemoryMapOk)
    BY <1>20 DEF MemoryMapChecked, MemoryMapOk
  <2>2. chk.at = "loaded" /\ chk.step = 9 /\ chk.step \in 1..10
    BY <1>20, StepFacts DEF MemoryMapChecked, PlaceInv
  <2>3. UNCHANGED <<sources, out, report>>
    BY <1>20 DEF MemoryMapChecked, sources
  <2>4. /\ chk'.same = chk.same
        /\ MemoryMapOk => chk'.at = "start" /\ chk'.step = 10
        /\ ~MemoryMapOk => chk'.at = "ended" /\ chk'.step = 9
    BY <2>1, <2>2, StepEndsFacts
  <2>5. chk.same /\ MemoryMapOk => MapAgrees /\ Unread = {}
    BY <2>2, MemoryMapFacts DEF SeenInv
  <2>6. QED
    BY <2>2, <2>3, <2>4, <2>5 DEF SeenInv, sources, MapAgrees, Unread
<1>21. CASE CheckKilled
  BY <1>21, CheckKilledFacts DEF SeenInv
<1>22. CASE Clean
  BY <1>22, DisturbsFacts DEF Clean, SeenInv
<1>23. CASE UNCHANGED vars
  <2>1. chk' = chk /\ report' = report /\ UNCHANGED <<sources, out>>
    BY <1>23 DEF vars, sources
  <2>2. QED
    BY <2>1 DEF SeenInv, sources, MapAgrees, Unread
<1>24. QED
  BY <1>1, <1>2, <1>3, <1>4, <1>5, <1>6, <1>7, <1>8, <1>9, <1>10, <1>11, <1>12, <1>13,
     <1>14, <1>15, <1>16, <1>17, <1>18, <1>19, <1>20, <1>21, <1>22, <1>23 DEF Next

\* A check that fails undisturbed has a reason.
LEMMA AlarmKept ==
    CheckTypes /\ PlaceInv /\ SeenInv /\ AlarmHasAReason /\ [Next]_vars => AlarmHasAReason'
<1> SUFFICES ASSUME CheckTypes, PlaceInv, SeenInv, AlarmHasAReason, [Next]_vars PROVE AlarmHasAReason'
  OBVIOUS
<1>0. chk \in Checks /\ out \in Outs /\ chk.map \in Maps /\ chk.contract \in Document
  BY DEF CheckTypes, Checks
<1> USE <1>0
<1>1. CASE EditMap
  BY <1>1, DisturbsFacts DEF EditMap, Edits, AlarmHasAReason
<1>2. CASE EditContract
  BY <1>2, DisturbsFacts DEF EditContract, Edits, AlarmHasAReason
<1>3. CASE EditRtl
  BY <1>3, DisturbsFacts DEF EditRtl, Edits, AlarmHasAReason
<1>4. CASE SchemaChanges
  BY <1>4, DisturbsFacts DEF SchemaChanges, Edits, AlarmHasAReason
<1>5. CASE LogAppears
  BY <1>5, DisturbsFacts DEF LogAppears, Edits, AlarmHasAReason
<1>6. CASE ToolsChange
  BY <1>6, DisturbsFacts DEF ToolsChange, Edits, AlarmHasAReason
<1>7. CASE GenerateStarts
  <2>1. chk' = chk /\ UNCHANGED <<sources, out>>
    BY <1>7 DEF GenerateStarts, sources
  <2>2. QED
    BY <2>1 DEF AlarmHasAReason, Agreement, MapAgrees, Unread, sources
<1>8. CASE GenerateLoads
  <2>1. chk' = chk /\ UNCHANGED <<sources, out>>
    BY <1>8 DEF GenerateLoads, sources
  <2>2. QED
    BY <2>1 DEF AlarmHasAReason, Agreement, MapAgrees, Unread, sources
<1>9. CASE OutputEmptied
  BY <1>9, DisturbsFacts DEF OutputEmptied, AlarmHasAReason
<1>10. CASE OutputFilled
  BY <1>10, DisturbsFacts DEF OutputFilled, AlarmHasAReason
<1>11. CASE GenerateKilled
  <2>1. chk' = chk /\ UNCHANGED <<sources, out>>
    BY <1>11 DEF GenerateKilled, sources
  <2>2. QED
    BY <2>1 DEF AlarmHasAReason, Agreement, MapAgrees, Unread, sources
<1>12. CASE CheckStarts
  BY <1>12, CheckStartsFacts DEF AlarmHasAReason
<1>13. CASE EnvironmentProbed
  <2>1. chk'.at = "report"
    BY <1>13 DEF EnvironmentProbed, Checks
  <2>2. QED
    BY <2>1 DEF AlarmHasAReason
<1>14. CASE ReportReplaced
  <2>1. chk.ok \in BOOLEAN /\ chk' = StepEnds(chk, chk.ok)
    BY <1>14 DEF ReportReplaced, Checks
  <2>2. chk.at = "report" /\ chk.step = 1 /\ chk.step \in 1..10 /\ Step = "env"
    BY <1>14, StepFacts DEF ReportReplaced, PlaceInv
  <2>3. UNCHANGED <<sources, out>> /\ Agreement' = Agreement /\ Unread' = Unread
    BY <1>14 DEF ReportReplaced, sources, Agreement, MapAgrees, Unread
  <2>4. /\ chk'.same = chk.same
        /\ chk.ok => chk'.at = "start"
        /\ ~chk.ok => chk'.failed = "env"
    BY <2>1, <2>2, StepEndsFacts
  <2>5. chk.same /\ ~chk.ok => ~tools
    BY <2>2 DEF SeenInv
  <2>6. QED
    BY <2>3, <2>4, <2>5 DEF AlarmHasAReason, sources
<1>15. CASE OutsideCheck
  <2>1. PICK ok \in BOOLEAN : chk' = StepEnds(chk, ok)
    BY <1>15 DEF OutsideCheck
  <2>2. chk.at = "start" /\ chk.step \in {2, 4, 6, 8, 10} /\ Step \in Outside
    BY <1>15, StepFacts DEF OutsideCheck
  <2>3. chk.failed = "nothing"
    BY <2>2 DEF PlaceInv, Running
  <2>4. chk'.failed \in {"nothing"} \cup Outside
    BY <2>1, <2>2, <2>3, StepEndsFacts
  <2>5. QED
    BY <2>4 DEF AlarmHasAReason
<1>16. CASE DocumentsLoaded
  <2>1. chk'.at = "loaded"
    BY <1>16 DEF DocumentsLoaded, Checks
  <2>2. QED
    BY <2>1 DEF AlarmHasAReason
<1>17. CASE ContractCompared
  <2> DEFINE ok == Stale(chk.map, chk.contract) = {}
  <2>1. ok \in BOOLEAN /\ chk' = StepEnds(chk, ok)
    BY <1>17 DEF ContractCompared
  <2> HIDE DEF ok
  <2>2. chk.at = "loaded" /\ chk.step = 3 /\ chk.step \in 1..10 /\ Step = "contract"
    BY <1>17, StepFacts DEF ContractCompared, PlaceInv
  <2>3. UNCHANGED <<sources, out>> /\ Agreement' = Agreement /\ Unread' = Unread
    BY <1>17 DEF ContractCompared, sources, Agreement, MapAgrees, Unread
  <2>4. /\ chk'.same = chk.same
        /\ ok => chk'.at = "start"
        /\ ~ok => chk'.failed = "contract"
    BY <2>1, <2>2, StepEndsFacts
  <2>5. chk.same /\ ~ok => ~Agreement
    BY <2>2, StaleFacts DEF SeenInv, ok, Agreement
  <2>6. QED
    BY <2>3, <2>4, <2>5 DEF AlarmHasAReason, sources
<1>18. CASE SchemasValidated
  <2> DEFINE ok == \A d \in DOMAIN schema : schema[d] = "valid"
  <2>1. ok \in BOOLEAN /\ chk' = StepEnds(chk, ok)
    BY <1>18 DEF SchemasValidated
  <2> HIDE DEF ok
  <2>2. chk.at = "start" /\ chk.step = 5 /\ chk.step \in 1..10 /\ Step = "schemas"
    BY <1>18, StepFacts DEF SchemasValidated, PlaceInv
  <2>3. UNCHANGED <<sources, out>> /\ Agreement' = Agreement /\ Unread' = Unread
    BY <1>18 DEF SchemasValidated, sources, Agreement, MapAgrees, Unread
  <2>4. /\ chk'.same = chk.same
        /\ ok => chk'.at = "start"
        /\ ~ok => chk'.failed = "schemas"
    BY <2>1, <2>2, StepEndsFacts
  <2>5. ~ok => ~Agreement
    BY DEF ok, Agreement
  <2>6. QED
    BY <2>3, <2>4, <2>5 DEF AlarmHasAReason, sources
<1>19. CASE TreeChecked
  <2> DEFINE ok == Violations = {}
  <2>1. ok \in BOOLEAN /\ chk' = StepEnds(chk, ok)
    BY <1>19 DEF TreeChecked
  <2> HIDE DEF ok
  <2>2. chk.at = "start" /\ chk.step = 7 /\ chk.step \in 1..10 /\ Step = "tree"
    BY <1>19, StepFacts DEF TreeChecked, PlaceInv
  <2>3. UNCHANGED <<sources, out>> /\ Agreement' = Agreement /\ Unread' = Unread
    BY <1>19 DEF TreeChecked, sources, Agreement, MapAgrees, Unread
  <2>4. /\ chk'.same = chk.same
        /\ ok => chk'.at = "start"
        /\ ~ok => chk'.failed = "tree"
    BY <2>1, <2>2, StepEndsFacts
  <2>5. ~ok => ~Agreement
    BY ViolationsFacts DEF ok, Agreement
  <2>6. QED
    BY <2>3, <2>4, <2>5 DEF AlarmHasAReason, sources
<1>20. CASE MemoryMapChecked
  <2>1. MemoryMapOk \in BOOLEAN /\ chk' = StepEnds(chk, MemoryMapOk)
    BY <1>20 DEF MemoryMapChecked, MemoryMapOk
  <2>2. chk.at = "loaded" /\ chk.step = 9 /\ chk.step \in 1..10 /\ Step = "map"
    BY <1>20, StepFacts DEF MemoryMapChecked, PlaceInv
  <2>3. UNCHANGED <<sources, out>> /\ Agreement' = Agreement /\ Unread' = Unread
    BY <1>20 DEF MemoryMapChecked, sources, Agreement, MapAgrees, Unread
  <2>4. /\ chk'.same = chk.same
        /\ MemoryMapOk => chk'.at = "start"
        /\ ~MemoryMapOk => chk'.failed = "map"
    BY <2>1, <2>2, StepEndsFacts
  <2>5. chk.same /\ Unread = {} /\ ~MemoryMapOk => ~Agreement
    BY <2>2, MemoryMapFacts DEF SeenInv
  <2>6. QED
    BY <2>3, <2>4, <2>5 DEF AlarmHasAReason, sources
<1>21. CASE CheckKilled
  BY <1>21, CheckKilledFacts DEF AlarmHasAReason
<1>22. CASE Clean
  BY <1>22, DisturbsFacts DEF Clean, AlarmHasAReason
<1>23. CASE UNCHANGED vars
  <2>1. chk' = chk /\ UNCHANGED <<sources, out>>
    BY <1>23 DEF vars, sources
  <2>2. QED
    BY <2>1 DEF AlarmHasAReason, Agreement, MapAgrees, Unread, sources
<1>24. QED
  BY <1>1, <1>2, <1>3, <1>4, <1>5, <1>6, <1>7, <1>8, <1>9, <1>10, <1>11, <1>12, <1>13,
     <1>14, <1>15, <1>16, <1>17, <1>18, <1>19, <1>20, <1>21, <1>22, <1>23 DEF Next

\* The first state: everything rendered, no check yet.
LEMMA CheckInitInv == Init => CheckInv
<1> SUFFICES ASSUME Init PROVE CheckInv
  OBVIOUS
<1>1. map \in Maps /\ rtl \in Maps /\ contract \in Document
  BY ProjectCheckAssumption DEF Init, Maps, Versions, Document, Absent, RegionsOf
<1>2. out \in Outs /\ out = Rendered(map, contract)
  BY <1>1, RenderedType DEF Init
<1>3. gen = Idle /\ gen \in Gens
  BY <1>1 DEF Init, Idle, Gens
<1>4. chk \in Checks /\ chk.at = "idle"
  BY <1>1, <1>2 DEF Init, Checks, Outs
<1>5. CheckTypes
  BY <1>1, <1>2, <1>3, <1>4, ProjectCheckAssumption DEF Init, CheckTypes
<1>6. GenInv
  BY <1>3 DEF GenInv, GenerationRepairs, Idle
<1>7. PlaceInv /\ SeenInv /\ AlarmHasAReason
  BY <1>4 DEF PlaceInv, SeenInv, AlarmHasAReason, Running
<1>8. QED
  BY <1>5, <1>6, <1>7 DEF CheckInv

\* The invariant holds in every state.
LEMMA CheckInvariant == Spec => []CheckInv
<1>1. CheckInv /\ [Next]_vars => CheckInv'
  BY CheckTypesKept, GenKept, PlaceKept, SeenKept, AlarmKept DEF CheckInv
<1>2. QED
  BY CheckInitInv, <1>1, PTL DEF Spec

\* generate_soc_contract.py leaves five files of one version of the documents, whatever was
\* edited while it ran and whatever killed run came before.
THEOREM GenerationLeavesOneVersion == Spec => []GenerationRepairs
<1>1. CheckInv => GenerationRepairs
  BY DEF CheckInv, GenInv
<1>2. QED
  BY CheckInvariant, <1>1, PTL

\* A `make check` that passes, and during which nothing was changed, passed on documents,
\* generated files and RTL that agree, of names without a digit; its report says that the
\* tools are there.
THEOREM PassedChecksAgree == Spec => [](TypeOK /\ PassedMeansAgreement)
<1>1. CheckInv => TypeOK
  <2> SUFFICES ASSUME CheckInv PROVE TypeOK
    OBVIOUS
  <2>1. DOMAIN out = {OUTPUTS[i] : i \in DOMAIN OUTPUTS}
    <3>1. DOMAIN out = {"memory", "config", "irq", "registers", "linker"}
      BY DEF CheckInv, CheckTypes, Outs
    <3>2. {OUTPUTS[i] : i \in 1..5} = {"memory", "config", "irq", "registers", "linker"}
      BY OutputsFacts
    <3>3. QED
      BY <3>1, <3>2, OutputsFacts
  <2>2. temps \in 0..MaxFaults + 1
    BY ProjectCheckAssumption DEF CheckInv, CheckTypes
  <2>3. chk.failed \in {"nothing"} \cup {CHECKS[i] : i \in DOMAIN CHECKS} /\ Len(CHECKS) = 10
    <3>1. Len(CHECKS) = 10 /\ DOMAIN CHECKS = 1..10
      BY DEF CHECKS
    <3>2. Steps = {CHECKS[i] : i \in 1..10}
      BY DEF CHECKS, Steps
    <3>3. QED
      BY <3>1, <3>2 DEF CheckInv, CheckTypes, Checks
  <2>4. QED
    BY <2>1, <2>2, <2>3, OutputsFacts
       DEF CheckInv, CheckTypes, TypeOK, Maps, Gens, Checks, Running
<1>2. CheckInv => PassedMeansAgreement
  BY DEF CheckInv, PlaceInv, SeenInv, PassedMeansAgreement, Passed, Agreement, CheckTypes, Checks
<1>3. QED
  BY CheckInvariant, <1>1, <1>2, PTL

\* The verdict of an undisturbed `make check`, in both directions and for every memory map: it
\* passes only on an agreement; it fails only with something to repair, or because
\* check_memory_map.py finds no constant whose name has a digit, and then it never passes.
THEOREM UndisturbedVerdictIsRight == Spec => []VerdictIsRight
<1>1. TypeOK /\ PassedMeansAgreement /\ CheckInv => VerdictIsRight
  BY DEF CheckInv, VerdictIsRight
<1>2. QED
  BY CheckInvariant, PassedChecksAgree, <1>1, PTL
=============================================================================
