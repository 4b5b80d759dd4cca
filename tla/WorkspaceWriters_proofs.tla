----------------------- MODULE WorkspaceWriters_proofs ----------------------
(***************************************************************************)
(* Proofs about the writers of a workspace: the model is well typed, and   *)
(* never do two of them write at once, for every set of writers, rows,     *)
(* notes and generation ids and for all bounds.  Both rest on one          *)
(* hypothesis: no writer is suspended past its lease between its first     *)
(* look at the table and its first manifest, where the code does not look  *)
(* at the lease again.                                                     *)
(***************************************************************************)
EXTENDS WorkspaceWriters, SequenceTheorems, TLAPS

PlansAwake == "looked" \notin SuspendedAt

----------------------------------------------------------------------------
(***************************************************************************)
(* The inductive invariant: in all of these places the lease is the        *)
(* writer's own and has not run out, so nobody else touches the manifests. *)
(***************************************************************************)
Advancing == {"applying", "committing", "marking", "discarding"}
Holding == Advancing \cup {"recovering", "planning", "looked", "asking", "checked"}
Held(w) == run[w].pc \in Holding => lease.owner = w /\ ~lease.out

\* A writer only works on a manifest that is there.
Founded(w) ==
    /\ run[w].pc = "recovering" =>
         /\ run[w].skipped <= Len(generations)
         /\ run[w].todo # {} => run[w].skipped < Len(generations)
    /\ run[w].pc \in Advancing => generations # <<>>
    /\ run[w].pc = "applying" => run[w].todo # {}
    /\ run[w].pc \in {"applying", "committing"} /\ run[w].kind = "purge" => run[w].row \in Rows

VersionsOK == \A r \in Rows : stage[r].status # "absent" => stage[r].version >= 1

WriterTypes ==
    /\ TypeOK
    /\ generations \in Seq(Generation)
    /\ VersionsOK

WriterInv == WriterTypes /\ \A w \in Writers : Held(w) /\ Founded(w)

----------------------------------------------------------------------------
(***************************************************************************)
(* Types of what the operators make                                        *)
(***************************************************************************)
LEMMA IdleType == Idle \in Run /\ NoPlan \in Plan /\ NothingSeen \in Seen
<1>1. NoPlan \in Plan BY DEF NoPlan, Plan
<1>2. NoContents \in Contents BY DEF NoContents, Contents
<1>3. NoStage \in StageRow BY BoundAssumption DEF NoStage, StageRow
<1>4. NothingSeen \in Seen BY <1>2, <1>3 DEF NothingSeen, Seen
<1> HIDE DEF NoPlan, NothingSeen
<1> QED BY <1>1, <1>4 DEF Idle, Run

\* A row, a note and a line of the user are told apart by their first part.
LEMMA FactParts ==
    /\ RowFacts \subseteq Facts /\ UserFacts \subseteq Facts
    /\ \A n \in Notes : NoteFact(n) \in Facts
    /\ \A r \in Rows : FactsOf(r) \subseteq RowFacts
    /\ \A f \in RowFacts : f[1] \in Rows /\ f \in FactsOf(f[1])
    /\ \A r \in Rows : \A f \in FactsOf(r) : f[1] = r
    /\ \A n \in Notes, r \in Rows : NoteFact(n) \notin FactsOf(r) /\ NoteFact(n) \notin UserFacts
    /\ \A r \in Rows : FactsOf(r) \cap UserFacts = {}
BY WriterAssumption DEF RowFacts, NoteFacts, UserFacts, Facts, NoteFact, FactsOf

LEMMA FirstInTodo ==
    ASSUME NEW todo \in SUBSET Targets, todo # {}
    PROVE  First(todo) \in todo
<1> DEFINE P(t) == \E i \in 1..4 : WriteOrder[i] = t /\ \A j \in 1..(i - 1) : WriteOrder[j] \notin todo
<1>1. \E t \in todo : P(t)
  <2>1. CASE "baseMemory" \in todo
    <3>1. P("baseMemory") BY DEF WriteOrder
    <3> QED BY <2>1, <3>1
  <2>2. CASE "baseMemory" \notin todo /\ "baseRaw" \in todo
    <3>1. WriteOrder[2] = "baseRaw" /\ \A j \in 1..(2 - 1) : WriteOrder[j] \notin todo
      BY <2>2 DEF WriteOrder
    <3> QED BY <2>2, <3>1
  <2>3. CASE "baseMemory" \notin todo /\ "baseRaw" \notin todo /\ "memory" \in todo
    <3>1. WriteOrder[3] = "memory" /\ \A j \in 1..(3 - 1) : WriteOrder[j] \notin todo
      BY <2>3 DEF WriteOrder
    <3> QED BY <2>3, <3>1
  <2>4. CASE "baseMemory" \notin todo /\ "baseRaw" \notin todo /\ "memory" \notin todo
    <3>1. "raw" \in todo BY <2>4 DEF Targets
    <3>2. WriteOrder[4] = "raw" /\ \A j \in 1..(4 - 1) : WriteOrder[j] \notin todo
      BY <2>4 DEF WriteOrder
    <3> QED BY <3>1, <3>2
  <2> QED BY <2>1, <2>2, <2>3, <2>4
<1>2. First(todo) = CHOOSE t \in todo : P(t) BY DEF First
<1> HIDE DEF P
<1> QED BY <1>1, <1>2

LEMMA RowTypes ==
    ASSUME WriterTypes, NEW r \in Rows
    PROVE  /\ stage[r] \in StageRow
           /\ stage[r].version \in 0..MaxVersion
           /\ stage[r].status # "absent" => Current(r) \in FactsOf(r)
BY BoundAssumption DEF WriterTypes, TypeOK, StageRow, VersionsOK, Current, FactsOf

LEMMA PlanForType ==
    ASSUME WriterTypes, NEW batch \in Batches
    PROVE  PlanFor(batch) \in Plan
<1>1. batch \in SUBSET Rows BY DEF Batches
<1>2. \A r \in Retained \cup batch : r \in Rows /\ stage[r].status # "absent"
  BY DEF Retained, Batches, InWindow, Active
<1>3. \A r \in Retained \cup batch : Current(r) \in RowFacts BY <1>2, RowTypes, FactParts
<1>4. Outside \in SUBSET Rows BY DEF Outside
<1> QED BY <1>2, <1>3, <1>4 DEF PlanFor, Plan

LEMMA IngestedType ==
    ASSUME NEW m \in SUBSET Facts, NEW added \in SUBSET Facts
    PROVE  Ingested(m, added) \in SUBSET Facts /\ m \subseteq Ingested(m, added)
BY DEF Ingested

LEMMA ResultType ==
    ASSUME NEW seen \in Seen, NEW plan \in Plan, NEW consumed \in SUBSET Notes,
           NEW result \in Results(seen, plan, consumed)
    PROVE  result \in SUBSET Facts
<1>1. seen.files["memory"] \in SUBSET Facts BY DEF Seen, Contents, Targets
<1>2. plan.raw \in SUBSET Facts BY FactParts DEF Plan
<1>3. {NoteFact(n) : n \in consumed} \in SUBSET Facts BY FactParts
<1>4. PICK dropped \in SUBSET Droppable, taken \in SUBSET (plan.raw \ seen.files["baseRaw"]) :
        result = {f \in seen.files["memory"] : f[1] \notin dropped} \cup taken
                     \cup {NoteFact(n) : n \in consumed}
  BY DEF Results
<1> QED BY <1>1, <1>2, <1>3, <1>4

LEMMA RewritingType ==
    ASSUME NEW m \in SUBSET Facts, NEW raw \in SUBSET Facts
    PROVE  /\ Rewriting(m, raw) \in Contents
           /\ Rewriting(m, raw)["baseMemory"] = m /\ Rewriting(m, raw)["memory"] = m
           /\ Rewriting(m, raw)["baseRaw"] = raw /\ Rewriting(m, raw)["raw"] = raw
BY DEF Rewriting, Contents, Targets

LEMMA PurgedFilesType ==
    ASSUME WriterTypes, NEW r, NEW given \in SUBSET Rebuildable(r)
    PROVE  PurgedFiles(r, given) \in Contents
<1> DEFINE m == Ingested(files["memory"] \ FactsOf(r), given)
<1>1. files["memory"] \in SUBSET Facts /\ files["raw"] \in SUBSET Facts
  BY DEF WriterTypes, TypeOK, Contents, Targets
<1>2. PurgedRaw(r) \in SUBSET Facts BY <1>1 DEF PurgedRaw
<1>3. {NoteFact(n) : n \in {k \in Notes : notes[k] = "applied"}} \in SUBSET Facts BY FactParts
<1>4. given \in SUBSET Facts BY <1>2, <1>3 DEF Rebuildable
<1>5. m \in SUBSET Facts BY <1>1, <1>4, IngestedType
<1>6. PurgedFiles(r, given) = Rewriting(m, PurgedRaw(r)) BY DEF PurgedFiles
<1> HIDE DEF m
<1> QED BY <1>2, <1>5, <1>6, RewritingType

\* Retention forgets a row and keeps count of its versions; no row that stays
\* changes.
LEMMA RecycledType ==
    ASSUME NEW s \in [Rows -> StageRow]
    PROVE  /\ Recycled(s) \in [Rows -> StageRow]
           /\ \A r \in Rows : \/ Recycled(s)[r] = s[r]
                              \/ /\ Recycled(s)[r].status = "absent"
                                 /\ Recycled(s)[r].version = s[r].version
BY DEF Recycled, NoStage, StageRow

\* What a consolidation makes of the rows.
LEMMA IntegratedType ==
    ASSUME WriterTypes, NEW p
    PROVE  /\ Integrated(p) \in [Rows -> StageRow]
           /\ \A r \in Rows :
                /\ Integrated(p)[r].version = stage[r].version
                /\ Integrated(p)[r].status = "absent" <=> stage[r].status = "absent"
                /\ Integrated(p)[r].status = "selected" =>
                     /\ r \notin p.pruned
                     /\ stage[r].status = "selected" \/ r \in p.selected
<1>1. stage \in [Rows -> StageRow] BY DEF WriterTypes, TypeOK
<1>2. ASSUME NEW r \in Rows
      PROVE  /\ Integrated(p)[r] \in StageRow
             /\ Integrated(p)[r].version = stage[r].version
             /\ Integrated(p)[r].status = "absent" <=> stage[r].status = "absent"
             /\ Integrated(p)[r].status = "selected" =>
                     /\ r \notin p.pruned
                     /\ stage[r].status = "selected" \/ r \in p.selected
  <2>1. stage[r] \in StageRow BY <1>1
  <2>2. Integrated(p)[r] =
          IF r \in p.pruned
          THEN IF stage[r].status = "absent" THEN stage[r] ELSE [stage[r] EXCEPT !.status = "deleted"]
          ELSE IF r \in p.selected /\ stage[r].status \in {"pending", "selected"}
          THEN [stage[r] EXCEPT !.status = "selected", !.ever = TRUE]
          ELSE stage[r]
    BY DEF Integrated
  <2>3. CASE r \in p.pruned BY <2>1, <2>2, <2>3 DEF StageRow
  <2>4. CASE r \notin p.pruned /\ r \in p.selected /\ stage[r].status \in {"pending", "selected"}
    BY <2>1, <2>2, <2>4 DEF StageRow
  <2>5. CASE r \notin p.pruned /\ ~(r \in p.selected /\ stage[r].status \in {"pending", "selected"})
    BY <2>1, <2>2, <2>5
  <2> QED BY <2>3, <2>4, <2>5
<1>3. Integrated(p) = [r \in Rows |-> Integrated(p)[r]] BY DEF Integrated
<1> QED BY <1>2, <1>3

LEMMA SideType ==
    ASSUME NEW g \in Generation, NEW mark
    PROVE  Side(g, mark) \in Contents /\ g.touched \in SUBSET Targets /\ g.id \in GenIds
BY DEF Side, Generation

LEMMA TodoType ==
    ASSUME NEW gens \in Seq(Generation), NEW i
    PROVE  /\ TodoAt(gens, i) \in SUBSET Targets
           /\ TodoAt(gens, i) # {} => i \in 1..Len(gens)
<1>1. CASE i \in 1..Len(gens)
  <2>1. gens[i] \in Generation BY <1>1, ElementOfSeq
  <2> QED BY <1>1, <2>1 DEF TodoAt, Generation
<1>2. CASE i \notin 1..Len(gens) BY <1>2 DEF TodoAt
<1> QED BY <1>1, <1>2

LEMMA RecoveringType ==
    ASSUME WriterTypes, NEW old, NEW mark, NEW next, old.row \in Rows \cup {NoRow},
           mark \in GenIds \cup {NoGen}, next \in {"planning", "releasing"}
    PROVE  \E r \in Run :
             /\ r = Recovering(old, mark, next)
             /\ r.pc = "recovering" /\ r.skipped = 0 /\ r.mark = mark /\ r.plan = NoPlan
             /\ r.row = old.row /\ r.todo = TodoAt(generations, 1)
             /\ r.todo # {} => 0 < Len(generations)
<1> DEFINE r == Recovering(old, mark, next)
<1>1. TodoAt(generations, 1) \in SUBSET Targets
  BY TodoType DEF WriterTypes
<1>2. TodoAt(generations, 1) # {} => 1 \in 1..Len(generations) BY TodoType DEF WriterTypes
<1>3. Len(generations) \in Nat BY DEF WriterTypes
<1>4. r = [Idle EXCEPT !.pc = "recovering", !.row = old.row, !.mark = mark, !.next = next,
                     !.todo = TodoAt(generations, 1)]
  BY DEF Recovering
<1>5. Idle.skipped = 0 /\ Idle.plan = NoPlan BY DEF Idle
<1> HIDE DEF r
<1>6. r \in Run BY <1>1, <1>4, IdleType DEF Run
<1>7. /\ r.pc = "recovering" /\ r.skipped = 0 /\ r.mark = mark /\ r.plan = NoPlan
      /\ r.row = old.row /\ r.todo = TodoAt(generations, 1)
  BY <1>4, <1>5, IdleType DEF Run
<1>8. r.todo # {} => 0 < Len(generations) BY <1>2, <1>3, <1>7
<1> QED BY <1>6, <1>7, <1>8 DEF r

----------------------------------------------------------------------------
(***************************************************************************)
(* What a step must show                                                   *)
(***************************************************************************)
\* All but the manifests, the lease and the writers.
Stored ==
    /\ files \in Contents
    /\ stage \in [Rows -> StageRow] /\ VersionsOK
    /\ notes \in [Notes -> NoteStatuses]
    /\ marker \in GenIds \cup {NoGen}
    /\ edits \in 0..MaxEdits /\ faults \in 0..MaxFaults /\ skips \in 0..MaxSkips
    /\ committed \in [memory : SUBSET Facts, raw : SUBSET Facts]
    /\ purged \in SUBSET Rows /\ forgotten \in SUBSET Notes
Leases == [owner : Writers \cup {NoWriter}, out : BOOLEAN]

LEMMA TypesSplit ==
    WriterTypes <=> /\ Stored
                    /\ generations \in Seq(Generation)
                    /\ lease \in Leases
                    /\ run \in [Writers -> Run]
BY ElementOfSeq DEF WriterTypes, TypeOK, Stored, Leases

LEMMA StoredKept ==
    ASSUME Stored, UNCHANGED <<files, table, history, edits, skips>>,
           faults' = faults \/ Fault
    PROVE  Stored'
<1>1. faults' \in 0..MaxFaults BY BoundAssumption DEF Stored, Fault
<1> QED BY <1>1 DEF Stored, VersionsOK, table, history

LEMMA BecomeType ==
    ASSUME run \in [Writers -> Run], NEW w \in Writers, NEW r \in Run, Become(w, r)
    PROVE  /\ run' \in [Writers -> Run] /\ run'[w] = r
           /\ \A v \in Writers \ {w} : run'[v] = run[v]
BY DEF Become

\* Only the holder of the lease touches manifests, so a writer that holds it
\* finds them as it left them.
LEMMA WriterStep ==
    ASSUME WriterInv, NEW w \in Writers, NEW r \in Run, Become(w, r), Stored',
           generations' \in Seq(Generation),
           generations' = generations \/ (lease.owner = w /\ ~lease.out),
           lease' \in Leases,
           lease' = lease \/ lease.owner \in {w, NoWriter} \/ lease.out,
           r.pc \in Holding => lease'.owner = w /\ ~lease'.out,
           r.pc = "recovering" =>
               /\ r.skipped <= Len(generations')
               /\ r.todo # {} => r.skipped < Len(generations'),
           r.pc \in Advancing => generations' # <<>>,
           r.pc = "applying" => r.todo # {},
           r.pc \in {"applying", "committing"} /\ r.kind = "purge" => r.row \in Rows
    PROVE  WriterInv'
<1>1. /\ run' \in [Writers -> Run] /\ run'[w] = r
      /\ \A v \in Writers \ {w} : run'[v] = run[v]
  BY BecomeType, TypesSplit DEF WriterInv
<1>2. WriterTypes'
  <2>1. /\ Stored' /\ generations' \in Seq(Generation) /\ lease' \in Leases'
        /\ run' \in [Writers -> Run]
    BY <1>1 DEF Leases
  <2>2. \A i \in 1..Len(generations') : generations'[i] \in Generation BY ElementOfSeq
  <2> QED BY <2>1, <2>2 DEF WriterTypes, TypeOK, Stored, Leases
<1>3. Held(w)' /\ Founded(w)' BY <1>1 DEF Held, Founded
<1>4. ASSUME NEW v \in Writers \ {w} PROVE Held(v)' /\ Founded(v)'
  <2>1. run'[v] = run[v] /\ Held(v) /\ Founded(v) BY <1>1 DEF WriterInv
  <2>2. CASE run[v].pc \in Holding
    <3>1. lease.owner = v /\ ~lease.out BY <2>1, <2>2 DEF Held
    <3>2. v # NoWriter BY WriterAssumption
    <3>3. lease' = lease /\ generations' = generations BY <3>1, <3>2
    <3> QED BY <2>1, <3>3 DEF Held, Founded
  <2>3. CASE run[v].pc \notin Holding BY <2>1, <2>3 DEF Held, Founded, Holding, Advancing
  <2> QED BY <2>2, <2>3
<1> QED BY <1>2, <1>3, <1>4 DEF WriterInv

\* Nobody else touches the lease or the manifests.
LEMMA OutsiderStep ==
    ASSUME WriterInv, UNCHANGED <<generations, lease, run>>, Stored'
    PROVE  WriterInv'
<1>1. WriterTypes'
  BY TypesSplit DEF WriterInv, WriterTypes, TypeOK, Stored
<1> QED BY <1>1 DEF WriterInv, Held, Founded

\* Parts of the invariant that the steps use.
LEMMA WriterFacts ==
    ASSUME WriterInv
    PROVE  /\ WriterTypes /\ Stored /\ generations \in Seq(Generation) /\ lease \in Leases
           /\ Len(generations) \in Nat
           /\ run \in [Writers -> Run]
           /\ \A w \in Writers : run[w] \in Run /\ Held(w) /\ Founded(w)
           /\ stage \in [Rows -> StageRow]
BY TypesSplit DEF WriterInv, Stored

----------------------------------------------------------------------------
\* The invariant holds of an empty store.
THEOREM WriterInit == Init => WriterInv
<1> SUFFICES ASSUME Init PROVE WriterInv OBVIOUS
<1>1. NoStage \in StageRow /\ NoStage.status = "absent" /\ NoContents \in Contents
  BY BoundAssumption DEF NoStage, StageRow, NoContents, Contents
<1>2. files \in Contents /\ stage \in [Rows -> StageRow] /\ VersionsOK
  BY <1>1 DEF Init, VersionsOK
<1>3. notes \in [Notes -> NoteStatuses] BY DEF Init, NoteStatuses
<1>4. Stored BY <1>2, <1>3, BoundAssumption DEF Init, Stored
<1>5. generations \in Seq(Generation) /\ lease \in Leases
  BY DEF Init, Leases
<1>6. run \in [Writers -> Run] BY IdleType DEF Init
<1>7. \A w \in Writers : run[w].pc = "idle" BY DEF Init, Idle
<1> QED BY <1>4, <1>5, <1>6, <1>7, TypesSplit DEF WriterInv, Held, Founded, Holding, Advancing

LEMMA OutsidersStep ==
    ASSUME PlansAwake, WriterInv, Outsiders PROVE WriterInv'
<1>1. ASSUME NEW r \in Rows, Upsert(r) PROVE WriterInv'
  <2>1. stage[r] \in StageRow /\ stage[r].version \in 0..MaxVersion BY RowTypes DEF WriterInv
  <2>2. PICK aged \in {FALSE, stage[r].aged} :
          stage' = [stage EXCEPT ![r] = [status |-> "pending", version |-> stage[r].version + 1,
                                         ever |-> FALSE, aged |-> aged]]
    BY <1>1, WriterFacts DEF Upsert
  <2>3. stage[r].version + 1 \in 0..MaxVersion /\ stage[r].version + 1 >= 1
    BY <1>1, <2>1, BoundAssumption DEF Upsert
  <2>4. aged \in BOOLEAN BY <2>1 DEF StageRow
  <2>5. stage' \in [Rows -> StageRow] BY <2>2, <2>3, <2>4, WriterFacts DEF StageRow
  <2>6. VersionsOK' BY <2>2, <2>3, WriterFacts DEF VersionsOK, Stored
  <2>7. Stored' BY <1>1, <2>5, <2>6, WriterFacts DEF Upsert, Stored, counters
  <2> QED BY <1>1, <2>7, OutsiderStep DEF Upsert
<1>2. ASSUME NEW r \in Rows, Age(r) PROVE WriterInv'
  <2>1. stage' = [stage EXCEPT ![r] = [stage[r] EXCEPT !.aged = TRUE]] BY <1>2 DEF Age
  <2>2. stage[r] \in StageRow BY WriterFacts
  <2>3. [stage[r] EXCEPT !.aged = TRUE] \in StageRow BY <2>2 DEF StageRow
  <2>4. stage' \in [Rows -> StageRow] BY <2>1, <2>3, WriterFacts
  <2>5. VersionsOK' BY <2>1, <2>2, WriterFacts DEF VersionsOK, Stored, StageRow
  <2>6. Stored' BY <1>2, <2>4, <2>5, WriterFacts DEF Age, Stored, counters, history
  <2> QED BY <1>2, <2>6, OutsiderStep DEF Age
<1>3. ASSUME NEW n \in Notes, AddNote(n) PROVE WriterInv'
  <2>1. Stored' BY <1>3, WriterFacts DEF AddNote, Stored, counters, history, NoteStatuses, VersionsOK
  <2> QED BY <1>3, <2>1, OutsiderStep DEF AddNote
<1>4. CASE EntryPrune
  <2>1. stage' = Recycled(stage) BY <1>4 DEF EntryPrune
  <2>2. stage' \in [Rows -> StageRow] BY <2>1, WriterFacts, RecycledType
  <2>3. VersionsOK' BY <2>1, WriterFacts, RecycledType DEF VersionsOK, Stored
  <2>4. Stored' BY <1>4, <2>2, <2>3, WriterFacts DEF EntryPrune, Stored, counters, history
  <2> QED BY <1>4, <2>4, OutsiderStep DEF EntryPrune
<1>5. CASE Edit
  <2>1. edits \in Nat /\ edits' = edits + 1 /\ edits' \in 0..MaxEdits /\ edits + 1 \in 1..MaxEdits
    BY <1>5, WriterFacts, BoundAssumption DEF Edit, Stored
  <2>2. <<User, edits + 1>> \in Facts BY <2>1 DEF UserFacts, Facts
  <2>3. files' \in Contents BY <1>5, <2>2, WriterFacts DEF Edit, Stored, Contents
  <2>4. Stored' BY <1>5, <2>1, <2>3, WriterFacts DEF Edit, Stored, table, history, VersionsOK
  <2> QED BY <1>5, <2>4, OutsiderStep DEF Edit
\* The owner of a lease that runs out is dead, or suspended at an await that is
\* none of those where it counts on the lease.
<1>6. CASE Expire
  <2>1. Stored'
    BY <1>6, WriterFacts, StoredKept DEF Expire
  <2>2. /\ lease' \in Leases /\ run' = run /\ generations' = generations
        /\ lease'.owner = lease.owner
    BY <1>6, WriterFacts DEF Expire, Leases
  <2>3. run[lease.owner].pc \notin Holding
    BY <1>6, WriterAssumption DEF Expire, Holding, Advancing, PlansAwake
  <2>4. \A w \in Writers : run[w].pc \in Holding => FALSE
    BY <2>3, WriterFacts DEF Held
  <2>5. WriterTypes' BY <2>1, <2>2, WriterFacts DEF WriterTypes, TypeOK, Stored, Leases
  <2>6. \A w \in Writers : Held(w)' /\ Founded(w)'
    BY <2>2, <2>4 DEF Held, Founded, Holding, Advancing
  <2> QED BY <2>5, <2>6 DEF WriterInv
<1> QED BY <1>1, <1>2, <1>3, <1>4, <1>5, <1>6 DEF Outsiders
----------------------------------------------------------------------------
\* Setting several fields of a record of a writer.
LEMMA RunFields ==
    ASSUME NEW r \in Run
    PROVE  /\ \A pc \in {"asking", "checked", "discarding", "releasing"} :
                /\ [r EXCEPT !.pc = pc] \in Run
                /\ [r EXCEPT !.pc = pc].pc = pc
                /\ \A pc2 \in {pc} : [r EXCEPT !.pc = pc2].plan = r.plan
           /\ \A todo \in SUBSET Targets : [r EXCEPT !.todo = todo] \in Run
BY DEF Run

LEMMA GiveUpType ==
    ASSUME NEW w, GiveUp(w)
    PROVE  \E r \in Run : Become(w, r) /\ r = [Idle EXCEPT !.pc = "releasing"]
                           /\ r.pc = "releasing" /\ r.plan = NoPlan
<1>1. [Idle EXCEPT !.pc = "releasing"] \in Run BY IdleType DEF Run
<1>2. Idle.plan = NoPlan BY DEF Idle
<1> QED BY <1>1, <1>2, IdleType DEF GiveUp, Run

\* A writer that gives up, whatever else it leaves alone.
LEMMA GiveUpStep ==
    ASSUME WriterInv, NEW w \in Writers, GiveUp(w), Stored',
           UNCHANGED <<generations, lease>>
    PROVE  WriterInv'
<1>1. PICK r \in Run : Become(w, r) /\ r.pc = "releasing" BY GiveUpType
<1> QED BY <1>1, WriterFacts, WriterStep DEF Holding, Advancing, Leases

(***************************************************************************)
(* The lease and recovery                                                  *)
(***************************************************************************)
LEMMA AcquireStep ==
    ASSUME WriterInv, NEW w \in Writers, NEW row \in Purgeable \cup {NoRow}, Acquire(w, row)
    PROVE  WriterInv'
<1> DEFINE old == [Idle EXCEPT !.row = row]
<1>1. row \in Rows \cup {NoRow} BY WriterAssumption
<1>2. old.row = row BY <1>1, IdleType DEF Run
<1>3. marker \in GenIds \cup {NoGen} /\ WriterTypes BY WriterFacts DEF Stored
<1>4. /\ Become(w, Recovering(old, marker, "planning")) /\ generations' = generations
      /\ UNCHANGED <<files, table, counters, history>>
      /\ lease' = [owner |-> w, out |-> FALSE] /\ (lease.owner = NoWriter \/ lease.out)
  BY DEF Acquire
<1> HIDE DEF old
<1>5. PICK r \in Run : /\ r = Recovering(old, marker, "planning")
                       /\ r.pc = "recovering" /\ r.skipped = 0
                       /\ r.todo # {} => 0 < Len(generations)
  BY <1>1, <1>2, <1>3, RecoveringType
<1>6. Become(w, r) BY <1>4, <1>5
<1>7. Stored' BY <1>4, WriterFacts DEF Stored, table, counters, history, VersionsOK
<1>8. lease' \in Leases /\ lease'.owner = w /\ ~lease'.out BY <1>4 DEF Leases
<1>9. Len(generations) \in Nat /\ generations' \in Seq(Generation) /\ Len(generations') = Len(generations)
  BY <1>4, WriterFacts
<1>10. r.skipped <= Len(generations') /\ (r.todo # {} => r.skipped < Len(generations'))
  BY <1>5, <1>9
<1>11. lease' = lease \/ lease.owner \in {w, NoWriter} \/ lease.out BY <1>4
<1> QED BY <1>4, <1>5, <1>6, <1>7, <1>8, <1>9, <1>10, <1>11, WriterStep DEF Advancing

\* The manifest a recovery is at.
LEMMA RecoveredType ==
    ASSUME WriterInv, NEW w \in Writers, run[w].pc = "recovering",
           run[w].skipped < Len(generations)
    PROVE  /\ Recovered(w) \in Generation
           /\ run[w].skipped + 1 \in 1..Len(generations)
<1>1. run[w].skipped \in Nat BY WriterFacts DEF Run
<1>2. run[w].skipped + 1 \in 1..Len(generations) BY <1>1, WriterFacts
<1> QED BY <1>2, WriterFacts, ElementOfSeq DEF Recovered

LEMMA RecoverTargetStep ==
    ASSUME WriterInv, NEW w \in Writers, RecoverTarget(w)
    PROVE  WriterInv'
<1> DEFINE t == First(run[w].todo)
           r == [run[w] EXCEPT !.todo = run[w].todo \ {t}]
<1>1. run[w].pc = "recovering" /\ run[w].todo # {} BY DEF RecoverTarget
<1>2. run[w] \in Run /\ run[w].todo \in SUBSET Targets BY WriterFacts DEF Run
<1>3. t \in Targets BY <1>1, <1>2, FirstInTodo
<1>4. lease.owner = w /\ ~lease.out /\ run[w].skipped < Len(generations)
      /\ run[w].skipped <= Len(generations)
  BY <1>1, WriterFacts DEF Held, Founded, Holding
<1>5. Recovered(w) \in Generation BY <1>1, <1>4, RecoveredType
<1>6. files' = [files EXCEPT ![t] = Side(Recovered(w), run[w].mark)[t]] BY DEF RecoverTarget
<1>7. Become(w, r) BY DEF RecoverTarget, Become
<1>8. r \in Run /\ r.pc = "recovering" /\ r.skipped = run[w].skipped BY <1>1, <1>2 DEF Run
<1> HIDE DEF t, r
<1>9. files' \in Contents
  BY <1>3, <1>5, <1>6, SideType, WriterFacts DEF Contents, Stored
<1>10. UNCHANGED <<table, generations, lease, counters, history>> BY DEF RecoverTarget
<1>11. Stored' BY <1>9, <1>10, WriterFacts DEF Stored, table, counters, history, VersionsOK
<1> QED BY <1>4, <1>7, <1>8, <1>10, <1>11, WriterFacts, WriterStep DEF Advancing

LEMMA RecoverDiscardStep ==
    ASSUME WriterInv, NEW w \in Writers, RecoverDiscard(w)
    PROVE  WriterInv'
<1> DEFINE k == run[w].skipped + 1
           r == [run[w] EXCEPT !.todo = TodoAt(generations', k)]
<1>1. run[w].pc = "recovering" /\ run[w].skipped < Len(generations) BY DEF RecoverDiscard
<1>2. lease.owner = w /\ ~lease.out BY <1>1, WriterFacts DEF Held, Holding
<1>3. run[w] \in Run /\ run[w].skipped \in Nat /\ k \in 1..Len(generations)
  BY <1>1, WriterFacts DEF Run
<1>4. generations' = RemoveAt(generations, k) BY DEF RecoverDiscard
<1>5. generations' \in Seq(Generation) /\ Len(generations') = Len(generations) - 1
  <2>1. generations' = SubSeq(generations, 1, k - 1) \o SubSeq(generations, k + 1, Len(generations))
    BY <1>4 DEF RemoveAt
  <2>2. /\ SubSeq(generations, 1, k - 1) \in Seq(Generation)
        /\ Len(SubSeq(generations, 1, k - 1)) = k - 1
    BY <1>3, WriterFacts, SubSeqProperties
  <2>3. /\ SubSeq(generations, k + 1, Len(generations)) \in Seq(Generation)
        /\ Len(SubSeq(generations, k + 1, Len(generations))) = Len(generations) - k
    BY <1>3, WriterFacts, SubSeqProperties
  <2>4. generations' \in Seq(Generation)
    BY <2>1, <2>2, <2>3, ConcatProperties
  <2>5. Len(generations') = (k - 1) + (Len(generations) - k)
    BY <2>1, <2>2, <2>3, ConcatProperties
  <2> QED BY <1>3, <2>4, <2>5, WriterFacts
<1>6. /\ TodoAt(generations', k) \in SUBSET Targets
      /\ TodoAt(generations', k) # {} => k \in 1..Len(generations')
  BY <1>5, TodoType
<1>7. Become(w, r) BY DEF RecoverDiscard, Become
<1>8. r \in Run /\ r.pc = "recovering" /\ r.skipped = run[w].skipped
      /\ r.todo = TodoAt(generations', k)
  BY <1>1, <1>3, <1>6 DEF Run
<1>9. /\ r.skipped <= Len(generations')
      /\ r.todo # {} => r.skipped < Len(generations')
  BY <1>1, <1>3, <1>5, <1>6, <1>8, WriterFacts
<1>10. UNCHANGED <<files, table, lease, counters, history>> BY DEF RecoverDiscard
<1>11. Stored' BY <1>10, WriterFacts DEF Stored, table, counters, history, VersionsOK
<1> HIDE DEF r, k
<1> QED BY <1>2, <1>5, <1>7, <1>8, <1>9, <1>10, <1>11, WriterFacts, WriterStep DEF Advancing

LEMMA RecoverSkipStep ==
    ASSUME WriterInv, NEW w \in Writers, RecoverSkip(w)
    PROVE  WriterInv'
<1> DEFINE k == run[w].skipped + 2
           r == [run[w] EXCEPT !.skipped = run[w].skipped + 1, !.todo = TodoAt(generations, k)]
<1>1. run[w].pc = "recovering" /\ run[w].todo # {} BY DEF RecoverSkip
<1>2. lease.owner = w /\ ~lease.out /\ run[w].skipped < Len(generations)
  BY <1>1, WriterFacts DEF Held, Founded, Holding
<1>3. run[w] \in Run /\ run[w].skipped \in Nat BY WriterFacts DEF Run
<1>4. /\ TodoAt(generations, k) \in SUBSET Targets
      /\ TodoAt(generations, k) # {} => k \in 1..Len(generations)
  BY WriterFacts, TodoType
<1>5. Become(w, r) BY DEF RecoverSkip, Become
<1> HIDE DEF k
<1>11. run[w].skipped + 1 \in Nat BY <1>3
<1>6. r \in Run /\ r.pc = "recovering" /\ r.skipped = run[w].skipped + 1
      /\ r.todo = TodoAt(generations, k)
  BY <1>1, <1>3, <1>4, <1>11 DEF Run
<1>7. /\ r.skipped <= Len(generations)
      /\ r.todo # {} => r.skipped < Len(generations)
  BY <1>2, <1>3, <1>4, <1>6, WriterFacts DEF k
<1>8. UNCHANGED <<files, table, generations, lease, edits, faults, history>>
      /\ skips < MaxSkips /\ skips' = skips + 1
  BY DEF RecoverSkip
<1>9. skips' \in 0..MaxSkips BY <1>8, WriterFacts, BoundAssumption DEF Stored
<1>10. Stored' BY <1>8, <1>9, WriterFacts DEF Stored, table, history, VersionsOK
<1> HIDE DEF r, k
<1> QED BY <1>2, <1>5, <1>6, <1>7, <1>8, <1>10, WriterFacts, WriterStep DEF Advancing

LEMMA RecoverDoneStep ==
    ASSUME WriterInv, NEW w \in Writers, RecoverDone(w)
    PROVE  WriterInv'
<1> DEFINE r == [Idle EXCEPT !.pc = run[w].next,
                             !.row = IF run[w].next = "planning" THEN run[w].row ELSE NoRow]
<1>1. run[w].pc = "recovering" BY DEF RecoverDone
<1>2. lease.owner = w /\ ~lease.out BY <1>1, WriterFacts DEF Held, Holding
<1>3. run[w] \in Run BY WriterFacts
<1>4. r \in Run /\ r.pc \in {"planning", "releasing"} BY <1>3, IdleType DEF Run
<1>5. Become(w, r) /\ UNCHANGED <<files, table, generations, lease, counters, history>>
  BY DEF RecoverDone
<1>6. Stored' BY <1>5, WriterFacts DEF Stored, table, counters, history, VersionsOK
<1> HIDE DEF r
<1> QED BY <1>2, <1>4, <1>5, <1>6, WriterFacts, WriterStep DEF Advancing

(***************************************************************************)
(* Writing a generation                                                    *)
(***************************************************************************)
\* The manifest g that is published, and where its writer goes.
Manifest(after, g) ==
    /\ generations' = Append(generations, g)
    /\ g.id \in FreshIds /\ g.phase = "prepared" /\ g.before = files
    /\ g.after = after /\ g.touched = Differing(files, after)
Follower(kind, r, g, q) ==
    /\ q.kind = kind /\ q.todo = g.touched
    /\ q.pc = IF g.touched = {} THEN Applied(kind) ELSE "applying"
    /\ q.plan = r.plan /\ q.row = r.row /\ q.consumed = r.consumed /\ q.left = r.left

LEMMA PublishFacts ==
    ASSUME WriterInv, NEW w \in Writers, NEW kind \in {"sync", "commit", "purge"},
           NEW after \in Contents, NEW r \in Run, Publish(w, kind, after, r)
    PROVE  \E g \in Generation, q \in Run :
             Manifest(after, g) /\ Become(w, q) /\ Follower(kind, r, g, q)
<1> DEFINE touched == Differing(files, after)
           i == CHOOSE i \in FreshIds : TRUE
           g == [id |-> i, phase |-> "prepared", before |-> files, after |-> after,
                 touched |-> touched]
           pc == IF touched = {} THEN Applied(kind) ELSE "applying"
           q == [r EXCEPT !.kind = kind, !.todo = touched, !.pc = pc]
<1>1. FreshIds # {} /\ generations' = Append(generations, g) /\ Become(w, q) BY DEF Publish
<1>2. i \in FreshIds /\ i \in GenIds BY <1>1 DEF FreshIds
<1>3. touched \in SUBSET Targets BY DEF Differing
<1>4. pc \in {"applying", "marking", "committing"} BY DEF Applied
<1> HIDE DEF i, touched, pc
<1>5. g \in Generation BY <1>2, <1>3, WriterFacts DEF Generation, Stored
<1>6. /\ q \in Run /\ q.kind = kind /\ q.todo = touched /\ q.pc = pc /\ q.plan = r.plan
      /\ q.row = r.row /\ q.consumed = r.consumed /\ q.left = r.left
  BY <1>3, <1>4 DEF Run
<1>7. /\ g.id = i /\ g.phase = "prepared" /\ g.before = files /\ g.after = after
      /\ g.touched = touched
  OBVIOUS
<1> HIDE DEF g, q
<1> QED BY <1>1, <1>2, <1>5, <1>6, <1>7 DEF touched, pc, Manifest, Follower

LEMMA PublishStep ==
    ASSUME WriterInv, NEW w \in Writers, NEW kind \in {"sync", "commit", "purge"},
           NEW after \in Contents, NEW r \in Run, Publish(w, kind, after, r),
           run[w].pc \in Holding, kind = "purge" => r.row \in Rows,
           UNCHANGED <<files, table, lease, counters, history>>
    PROVE  WriterInv'
<1>0. PICK g \in Generation, q \in Run :
             Manifest(after, g) /\ Become(w, q) /\ Follower(kind, r, g, q)
  BY PublishFacts
<1>1. /\ generations' = Append(generations, g)
      /\ Become(w, q) /\ q.todo = g.touched /\ q.kind = kind /\ q.row = r.row
      /\ q.pc = IF g.touched = {} THEN Applied(kind) ELSE "applying"
  BY <1>0 DEF Manifest, Follower
<1>2. generations' \in Seq(Generation) /\ generations' # <<>>
  BY <1>1, WriterFacts, AppendProperties
<1>3. lease.owner = w /\ ~lease.out BY WriterFacts DEF Held
<1>4. Stored' BY WriterFacts DEF Stored, table, counters, history, VersionsOK
<1>5. q.pc \in {"applying", "marking", "committing"} /\ (q.pc = "applying" => q.todo # {})
  BY <1>1 DEF Applied
<1> QED BY <1>1, <1>2, <1>3, <1>4, <1>5, WriterFacts, WriterStep

\* The manifest a writer works on.
LEMMA NewestType ==
    ASSUME WriterInv, NEW w \in Writers, run[w].pc \in Advancing
    PROVE  /\ lease.owner = w /\ ~lease.out
           /\ generations # <<>> /\ Len(generations) \in Nat \ {0}
           /\ Newest \in Generation /\ Newest = generations[Len(generations)]
<1>1. generations # <<>> /\ lease.owner = w /\ ~lease.out
  BY WriterFacts DEF Held, Founded, Holding
<1>2. Len(generations) \in Nat \ {0} BY <1>1, WriterFacts, EmptySeq
<1>3. Newest = generations[Len(generations)] BY DEF Newest, Last
<1>4. Newest \in Generation BY <1>2, <1>3, WriterFacts, ElementOfSeq
<1> QED BY <1>1, <1>2, <1>3, <1>4

LEMMA ApplyTargetStep ==
    ASSUME WriterInv, NEW w \in Writers, ApplyTarget(w)
    PROVE  WriterInv'
<1> DEFINE t == First(run[w].todo)
           pc == IF run[w].todo = {t} THEN Applied(run[w].kind) ELSE run[w].pc
           r == [run[w] EXCEPT !.todo = run[w].todo \ {t}, !.pc = pc]
<1>1. run[w].pc = "applying" BY DEF ApplyTarget
<1>2. /\ Newest \in Generation /\ lease.owner = w /\ ~lease.out /\ generations # <<>>
  BY <1>1, NewestType DEF Advancing
<1>3. run[w] \in Run /\ run[w].todo \in SUBSET Targets /\ run[w].todo # {}
  BY <1>1, WriterFacts DEF Run, Founded
<1>4. t \in run[w].todo /\ t \in Targets BY <1>3, FirstInTodo
<1>5. files' = [files EXCEPT ![t] = Newest.after[t]] BY DEF ApplyTarget
<1>6. Become(w, r) BY DEF ApplyTarget, Become
<1>7. pc \in {"applying", "marking", "committing"} BY <1>1 DEF Applied
<1>8. pc = "applying" => run[w].todo \ {t} # {} BY <1>4 DEF Applied
<1> HIDE DEF t, pc
<1>9. /\ r \in Run /\ r.pc = pc /\ r.todo = run[w].todo \ {t}
      /\ r.kind = run[w].kind /\ r.row = run[w].row
  BY <1>3, <1>7 DEF Run
<1>13. r.kind = "purge" => r.row \in Rows BY <1>1, <1>9, WriterFacts DEF Founded
<1> HIDE DEF r
<1>10. files' \in Contents BY <1>2, <1>4, <1>5, WriterFacts DEF Generation, Contents, Stored
<1>11. UNCHANGED <<table, generations, lease, counters, history>> BY DEF ApplyTarget
<1>12. Stored' BY <1>10, <1>11, WriterFacts DEF Stored, table, counters, history, VersionsOK
<1> QED BY <1>2, <1>6, <1>7, <1>8, <1>9, <1>11, <1>12, <1>13, WriterFacts, WriterStep

LEMMA MarkStep ==
    ASSUME WriterInv, NEW w \in Writers, Mark(w)
    PROVE  WriterInv'
<1> DEFINE n == Len(generations)
           r == [run[w] EXCEPT !.pc = "discarding"]
<1>1. run[w].pc = "marking" /\ Become(w, r) BY DEF Mark, Goto
<1>2. /\ Newest \in Generation /\ lease.owner = w /\ ~lease.out /\ n \in Nat \ {0}
      /\ Newest = generations[n]
  BY <1>1, NewestType DEF Advancing
<1>3. generations' = [generations EXCEPT ![n] = [generations[n] EXCEPT !.phase = "committed"]]
  BY DEF Mark
<1>4. [generations[n] EXCEPT !.phase = "committed"] \in Generation BY <1>2 DEF Generation
<1>5. n \in 1..Len(generations) BY <1>2
<1>6. generations' \in Seq(Generation) /\ Len(generations') = n
  BY <1>3, <1>4, <1>5, WriterFacts, ExceptSeq
<1>7. generations' # <<>> BY <1>2, <1>6, EmptySeq
<1>8. run[w] \in Run BY WriterFacts
<1>9. r \in Run /\ r.pc = "discarding" BY <1>8 DEF Run
<1>10. UNCHANGED <<files, table, lease, counters, history>> BY DEF Mark
<1>11. Stored' BY <1>10, WriterFacts DEF Stored, table, counters, history, VersionsOK
<1> HIDE DEF n, r
<1> QED BY <1>1, <1>2, <1>6, <1>7, <1>9, <1>10, <1>11, WriterFacts, WriterStep

LEMMA DiscardStep ==
    ASSUME WriterInv, NEW w \in Writers, Discard(w)
    PROVE  WriterInv'
<1>1. run[w].pc = "discarding" BY DEF Discard
<1>2. /\ lease.owner = w /\ ~lease.out /\ generations # <<>> /\ Len(generations) \in Nat \ {0}
  BY <1>1, NewestType DEF Advancing
<1>3. generations' = Front(generations) BY DEF Discard
<1>4. generations' \in Seq(Generation)
  <2>1. generations' = SubSeq(generations, 1, Len(generations) - 1) BY <1>3 DEF Front
  <2> QED BY <1>2, <2>1, WriterFacts, SubSeqProperties
<1>5. UNCHANGED <<files, table, lease, counters, history>> BY DEF Discard
<1>6. Stored' BY <1>5, WriterFacts DEF Stored, table, counters, history, VersionsOK
<1>7. run[w] \in Run BY WriterFacts
<1>8. \E r \in Run : Become(w, r) /\ r.pc \in {"asking", "releasing"}
  <2>1. CASE run[w].kind = "sync"
    <3>1. Become(w, [run[w] EXCEPT !.pc = "asking"]) BY <2>1 DEF Discard, Goto
    <3> QED BY <1>7, <3>1, RunFields
  <2>2. CASE run[w].kind # "sync"
    <3>1. GiveUp(w) BY <2>2 DEF Discard
    <3> QED BY <3>1, GiveUpType
  <2> QED BY <2>1, <2>2
<1> QED BY <1>2, <1>4, <1>5, <1>6, <1>8, WriterFacts, WriterStep DEF Advancing

LEMMA ThrowsStep ==
    ASSUME WriterInv, NEW w \in Writers, Throws(w)
    PROVE  WriterInv'
<1> DEFINE mark == IF run[w].kind = "sync" THEN NoGen ELSE marker
<1>1. run[w].pc \in Advancing BY DEF Throws, Advancing
<1>2. lease.owner = w /\ ~lease.out BY <1>1, NewestType
<1>3. mark \in GenIds \cup {NoGen} BY WriterFacts DEF Stored
<1>4. Idle.row = NoRow BY DEF Idle
<1>8. WriterTypes BY WriterFacts
<1>5. PICK r \in Run : /\ r = Recovering(Idle, mark, "releasing")
                       /\ r.pc = "recovering" /\ r.skipped = 0
                       /\ r.todo # {} => 0 < Len(generations)
  BY <1>3, <1>4, <1>8, RecoveringType
<1>6. Become(w, r) /\ Fault /\ UNCHANGED <<files, table, generations, lease, edits, skips, history>>
  BY <1>5 DEF Throws
<1>7. Stored' BY <1>6, WriterFacts, StoredKept
<1>9. Len(generations) \in Nat BY WriterFacts
<1> QED BY <1>2, <1>5, <1>6, <1>7, <1>9, WriterFacts, WriterStep DEF Advancing

(***************************************************************************)
(* Consolidation and purge                                                 *)
(***************************************************************************)
\* A step that only moves one writer to a place outside the generations.
LEMMA MoveStep ==
    ASSUME WriterInv, NEW w \in Writers, NEW r \in Run, Become(w, r), Stored',
           UNCHANGED generations, lease' \in Leases,
           lease' = lease \/ lease.owner = w,
           r.pc \in Holding => lease'.owner = w /\ ~lease'.out,
           r.pc \notin Advancing \cup {"recovering"}
    PROVE  WriterInv'
<1>1. Len(generations) \in Nat /\ generations' \in Seq(Generation) BY WriterFacts
<1>2. r.pc # "applying" /\ r.pc # "committing" /\ r.pc \notin Advancing /\ r.pc # "recovering"
  BY DEF Advancing
<1> QED BY <1>1, <1>2, WriterFacts, WriterStep

LEMMA LookStep ==
    ASSUME WriterInv, NEW w \in Writers, Look(w)
    PROVE  WriterInv'
<1> DEFINE r == [run[w] EXCEPT !.pc = "looked", !.seen.stage = stage]
<1>1. run[w].pc = "planning" /\ Become(w, r)
      /\ UNCHANGED <<files, table, generations, lease, counters, history>>
  BY DEF Look
<1>2. lease.owner = w /\ ~lease.out /\ lease \in Leases BY <1>1, WriterFacts DEF Held, Holding
<1>3. run[w] \in Run /\ stage \in [Rows -> StageRow] BY WriterFacts
<1>4. [run[w].seen EXCEPT !.stage = stage] \in Seen BY <1>3 DEF Run, Seen
<1>5. r = [run[w] EXCEPT !.pc = "looked", !.seen = [run[w].seen EXCEPT !.stage = stage]]
  BY <1>3 DEF Run
<1>6. r \in Run /\ r.pc = "looked" BY <1>3, <1>4, <1>5 DEF Run
<1>7. Stored' BY <1>1, WriterFacts DEF Stored, table, counters, history, VersionsOK
<1> HIDE DEF r
<1> QED BY <1>1, <1>2, <1>6, <1>7, MoveStep DEF Advancing, Leases

LEMMA PlanAndSyncStep ==
    ASSUME WriterInv, NEW w \in Writers, PlanAndSync(w)
    PROVE  WriterInv'
<1>1. run[w].pc = "looked" /\ UNCHANGED <<files, table, lease, counters, history>>
  BY DEF PlanAndSync
<1>2. Stored' BY <1>1, WriterFacts DEF Stored, table, counters, history, VersionsOK
<1>3. PICK batch \in Batches :
        IF NothingToDo(PlanFor(batch))
        THEN GiveUp(w) /\ UNCHANGED generations
        ELSE Publish(w, "sync", [files EXCEPT !["raw"] = PlanFor(batch).raw],
                     [Idle EXCEPT !.plan = PlanFor(batch)])
  BY DEF PlanAndSync
<1>4. CASE NothingToDo(PlanFor(batch)) BY <1>1, <1>2, <1>3, <1>4, GiveUpStep
<1>5. CASE ~NothingToDo(PlanFor(batch))
  <2> DEFINE p == PlanFor(batch)
             after == [files EXCEPT !["raw"] = p.raw]
             r == [Idle EXCEPT !.plan = p]
  <2>1. p \in Plan BY PlanForType DEF WriterInv
  <2>2. Publish(w, "sync", after, r) BY <1>3, <1>5
  <2> HIDE DEF p
  <2>3. p.raw \in SUBSET Facts BY <2>1, FactParts DEF Plan
  <2>4. after \in Contents BY <2>3, WriterFacts DEF Contents, Stored
  <2>5. r \in Run BY <2>1, IdleType DEF Run
  <2>6. run[w].pc \in Holding BY <1>1 DEF Holding
  <2> HIDE DEF after, r
  <2> QED BY <1>1, <2>2, <2>4, <2>5, <2>6, PublishStep
<1> QED BY <1>4, <1>5

LEMMA ContendStep ==
    ASSUME WriterInv, NEW w \in Writers, Contend(w)
    PROVE  WriterInv'
<1>1. GiveUp(w) /\ UNCHANGED <<files, table, generations, lease, counters, history>>
  BY DEF Contend
<1>2. Stored' BY <1>1, WriterFacts DEF Stored, table, counters, history, VersionsOK
<1> QED BY <1>1, <1>2, GiveUpStep

LEMMA AskStep ==
    ASSUME WriterInv, NEW w \in Writers, Ask(w)
    PROVE  WriterInv'
<1> DEFINE r == [run[w] EXCEPT !.pc = "waiting", !.seen = Revision]
<1>1. Become(w, r) /\ UNCHANGED <<files, table, generations, lease, counters, history>>
  BY DEF Ask
<1>2. Revision \in Seen BY WriterFacts DEF Revision, Seen, Stored
<1>3. run[w] \in Run /\ lease \in Leases BY WriterFacts
<1>4. r \in Run /\ r.pc = "waiting" BY <1>2, <1>3 DEF Run
<1>5. Stored' BY <1>1, WriterFacts DEF Stored, table, counters, history, VersionsOK
<1> HIDE DEF r
<1> QED BY <1>1, <1>3, <1>4, <1>5, MoveStep DEF Advancing, Holding, Leases

LEMMA ProviderReturnsStep ==
    ASSUME WriterInv, NEW w \in Writers, ProviderReturns(w)
    PROVE  WriterInv'
<1>1. UNCHANGED <<files, table, generations, lease, counters, history>> BY DEF ProviderReturns
<1> DEFINE r(consumed, result) ==
             [run[w] EXCEPT !.pc = "returned", !.consumed = consumed, !.result = result,
                            !.left = LeftOut(run[w].seen, result)]
<1>2. PICK consumed \in SUBSET run[w].plan.notes :
        \E result \in Results(run[w].seen, run[w].plan, consumed) : Become(w, r(consumed, result))
  BY DEF ProviderReturns
<1>3. PICK result \in Results(run[w].seen, run[w].plan, consumed) : Become(w, r(consumed, result))
  BY <1>2
<1>4. run[w] \in Run /\ run[w].seen \in Seen /\ run[w].plan \in Plan /\ lease \in Leases
  BY WriterFacts DEF Run
<1>5. consumed \in SUBSET Notes BY <1>4 DEF Plan
<1>6. result \in SUBSET Facts BY <1>4, <1>5, ResultType
<1>7. LeftOut(run[w].seen, result) \in SUBSET Notes BY DEF LeftOut
<1>8. r(consumed, result) \in Run /\ r(consumed, result).pc = "returned"
  BY <1>4, <1>5, <1>6, <1>7 DEF Run
<1>9. Stored' BY <1>1, WriterFacts DEF Stored, table, counters, history, VersionsOK
<1> HIDE DEF r
<1> QED BY <1>1, <1>3, <1>4, <1>8, <1>9, MoveStep DEF Advancing, Holding, Leases

LEMMA CheckStep ==
    ASSUME WriterInv, NEW w \in Writers, Check(w)
    PROVE  WriterInv'
<1>1. run[w].pc = "returned" /\ UNCHANGED <<files, table, generations, counters, history>>
  BY DEF Check
<1>2. Stored' BY <1>1, WriterFacts DEF Stored, table, counters, history, VersionsOK
<1>3. /\ lease' \in Leases /\ (lease' = lease \/ lease.owner = w)
      /\ lease.owner = w => lease'.owner = w /\ ~lease'.out
  BY WriterFacts DEF Check, Leases
<1>4. \E r \in Run : Become(w, r) /\ (r.pc = "releasing" \/ (r.pc = "checked" /\ lease.owner = w))
  <2>1. CASE lease.owner = w /\ run[w].seen = Revision
    <3>1. Become(w, [run[w] EXCEPT !.pc = "checked"]) BY <2>1 DEF Check, Goto
    <3>2. run[w] \in Run BY WriterFacts
    <3> QED BY <2>1, <3>1, <3>2, RunFields
  <2>2. CASE ~(lease.owner = w /\ run[w].seen = Revision)
    <3>1. GiveUp(w) BY <2>2 DEF Check
    <3> QED BY <3>1, GiveUpType
  <2> QED BY <2>1, <2>2
<1>5. PICK r \in Run : Become(w, r) /\ (r.pc = "releasing" \/ (r.pc = "checked" /\ lease.owner = w))
  BY <1>4
<1>6. r.pc \notin Advancing \cup {"recovering"} /\ (r.pc \in Holding => r.pc = "checked")
  BY <1>5 DEF Advancing, Holding
<1>7. r.pc \in Holding => lease'.owner = w /\ ~lease'.out BY <1>3, <1>5, <1>6
<1> QED BY <1>1, <1>2, <1>3, <1>5, <1>6, <1>7, MoveStep

LEMMA PrepareStep ==
    ASSUME WriterInv, NEW w \in Writers, Prepare(w)
    PROVE  WriterInv'
<1> DEFINE m == IF run[w].result = run[w].seen.files["memory"]
                THEN files["memory"] ELSE run[w].result
           after == Rewriting(m, run[w].plan.raw)
           r == [run[w] EXCEPT !.seen = NothingSeen, !.result = {}]
<1>1. run[w].pc = "checked" /\ UNCHANGED <<files, table, lease, counters, history>>
  BY DEF Prepare
<1>2. Publish(w, "commit", after, r) BY DEF Prepare
<1>3. run[w] \in Run /\ run[w].plan \in Plan /\ run[w].result \in SUBSET Facts
  BY WriterFacts DEF Run
<1>4. files["memory"] \in SUBSET Facts BY WriterFacts DEF Stored, Contents, Targets
<1>5. m \in SUBSET Facts /\ run[w].plan.raw \in SUBSET Facts
  BY <1>3, <1>4, FactParts DEF Plan
<1> HIDE DEF m
<1>6. after \in Contents BY <1>5, RewritingType
<1>7. r \in Run BY <1>3, IdleType DEF Run
<1>8. run[w].pc \in Holding BY <1>1 DEF Holding
<1> HIDE DEF after, r
<1> QED BY <1>1, <1>2, <1>6, <1>7, <1>8, PublishStep

\* What a transaction leaves the writer with.
LEMMA MarkingType ==
    ASSUME NEW kind \in {"sync", "commit", "purge"}
    PROVE  \E r \in Run : /\ r = [Idle EXCEPT !.kind = kind, !.pc = "marking"]
                          /\ r.pc = "marking" /\ r.kind = kind /\ r.todo = {}
                          /\ r.plan = NoPlan /\ r.row = NoRow
<1>1. [Idle EXCEPT !.kind = kind, !.pc = "marking"] \in Run BY IdleType DEF Run
<1>2. Idle.todo = {} /\ Idle.plan = NoPlan /\ Idle.row = NoRow BY DEF Idle
<1> QED BY <1>1, <1>2, IdleType DEF Run

LEMMA CommitsType ==
    ASSUME Newest \in Generation, Commits
    PROVE  committed' \in [memory : SUBSET Facts, raw : SUBSET Facts] /\ Newest.id \in GenIds
BY DEF Commits, Generation, Contents, Targets

LEMMA CommitStep ==
    ASSUME WriterInv, NEW w \in Writers, Commit(w)
    PROVE  WriterInv'
<1>1. /\ run[w].pc = "committing"
      /\ notes' = [n \in Notes |-> IF n \in run[w].consumed THEN "applied" ELSE notes[n]]
      /\ stage' = Recycled(Integrated(run[w].plan))
      /\ marker' = Newest.id /\ Commits /\ forgotten' = forgotten \cup run[w].left
      /\ Become(w, [Idle EXCEPT !.kind = "commit", !.pc = "marking"])
      /\ UNCHANGED <<files, generations, lease, counters, purged>>
  BY DEF Commit
<1>2. /\ Newest \in Generation /\ lease.owner = w /\ ~lease.out /\ generations # <<>>
  BY <1>1, NewestType DEF Advancing
<1>3. WriterTypes BY WriterFacts
<1>4. /\ Integrated(run[w].plan) \in [Rows -> StageRow]
      /\ \A r \in Rows : /\ Integrated(run[w].plan)[r].version = stage[r].version
                         /\ Integrated(run[w].plan)[r].status = "absent" <=> stage[r].status = "absent"
  BY <1>3, IntegratedType
<1>5. stage' \in [Rows -> StageRow] BY <1>1, <1>4, RecycledType
<1>6. VersionsOK' BY <1>1, <1>3, <1>4, RecycledType DEF VersionsOK, WriterTypes
<1>7. notes' \in [Notes -> NoteStatuses] BY <1>1, WriterFacts DEF Stored, NoteStatuses
<1>8. committed' \in [memory : SUBSET Facts, raw : SUBSET Facts] /\ marker' \in GenIds
  BY <1>1, <1>2, CommitsType
<1>9. run[w].left \in SUBSET Notes BY WriterFacts DEF Run
<1>10. Stored' BY <1>1, <1>5, <1>6, <1>7, <1>8, <1>9, WriterFacts DEF Stored, counters
<1>11. PICK r \in Run : /\ r = [Idle EXCEPT !.kind = "commit", !.pc = "marking"]
                        /\ r.pc = "marking"
  BY MarkingType
<1>12. Become(w, r) BY <1>1, <1>11
<1> QED BY <1>1, <1>2, <1>10, <1>11, <1>12, WriterFacts, WriterStep

LEMMA PreparePurgeStep ==
    ASSUME WriterInv, NEW w \in Writers, PreparePurge(w)
    PROVE  WriterInv'
<1>1. run[w].pc = "planning" /\ UNCHANGED <<files, table, lease, counters, history>>
  BY DEF PreparePurge
<1>2. Stored' BY <1>1, WriterFacts DEF Stored, table, counters, history, VersionsOK
<1>3. CASE stage[run[w].row].status = "absent"
  <2>1. GiveUp(w) /\ UNCHANGED generations BY <1>3 DEF PreparePurge
  <2> QED BY <1>1, <1>2, <2>1, GiveUpStep
<1>4. CASE stage[run[w].row].status # "absent"
  <2>1. PICK given \in SUBSET Rebuildable(run[w].row) :
          Publish(w, "purge", PurgedFiles(run[w].row, given), run[w])
    BY <1>4 DEF PreparePurge
  <2>2. WriterTypes /\ run[w] \in Run BY WriterFacts
  <2>3. PurgedFiles(run[w].row, given) \in Contents BY <2>2, PurgedFilesType
  <2>4. run[w].pc \in Holding BY <1>1 DEF Holding
  <2>5. run[w].row \in Rows BY <2>2 DEF PreparePurge, Run
  <2> QED BY <1>1, <2>1, <2>2, <2>3, <2>4, <2>5, PublishStep
<1> QED BY <1>3, <1>4

LEMMA CommitPurgeStep ==
    ASSUME WriterInv, NEW w \in Writers, CommitPurge(w)
    PROVE  WriterInv'
<1>1. /\ run[w].pc = "committing" /\ run[w].kind = "purge"
      /\ UNCHANGED <<files, notes, generations, lease, counters, forgotten>>
  BY DEF CommitPurge
<1>2. /\ Newest \in Generation /\ lease.owner = w /\ ~lease.out /\ generations # <<>>
  BY <1>1, NewestType DEF Advancing
<1>3. CASE stage[run[w].row].status = "absent"
  <2>1. Become(w, Recovering(Idle, marker, "releasing")) /\ UNCHANGED <<stage, marker, history>>
    BY <1>1, <1>3 DEF history, CommitPurge
  <2>2. marker \in GenIds \cup {NoGen} /\ WriterTypes BY WriterFacts DEF Stored
  <2>3. Idle.row = NoRow BY DEF Idle
  <2>4. PICK r \in Run : /\ r = Recovering(Idle, marker, "releasing")
                         /\ r.pc = "recovering" /\ r.skipped = 0
                         /\ r.todo # {} => 0 < Len(generations)
    BY <2>2, <2>3, RecoveringType
  <2>5. Become(w, r) BY <2>1, <2>4
  <2>6. Stored' BY <1>1, <2>1, WriterFacts DEF Stored, counters, history, VersionsOK
  <2>7. Len(generations) \in Nat BY WriterFacts
  <2> QED BY <1>1, <1>2, <2>4, <2>5, <2>6, <2>7, WriterFacts, WriterStep DEF Advancing
<1>4. CASE stage[run[w].row].status # "absent"
  <2> DEFINE row == run[w].row
             gone == [NoStage EXCEPT !.version = stage[row].version]
  <2>1. /\ stage' = [stage EXCEPT ![row] = gone]
        /\ marker' = Newest.id /\ purged' = purged \cup {row} /\ Commits
        /\ Become(w, [Idle EXCEPT !.kind = "purge", !.pc = "marking"])
    BY <1>4 DEF CommitPurge
  <2>2. stage \in [Rows -> StageRow] /\ VersionsOK BY WriterFacts DEF Stored
  <2>3. row \in Rows => gone \in StageRow /\ gone.status = "absent"
    BY <2>2, BoundAssumption DEF NoStage, StageRow
  <2>9. row \in Rows BY <1>1, WriterFacts DEF Founded
  <2> HIDE DEF gone, row
  <2>5. stage' \in [Rows -> StageRow] BY <2>1, <2>2, <2>3
  <2>6. VersionsOK' BY <2>1, <2>2, <2>3, <2>5, <2>9 DEF VersionsOK
  <2>7. committed' \in [memory : SUBSET Facts, raw : SUBSET Facts] /\ marker' \in GenIds
    BY <1>2, <2>1, CommitsType
  <2>8. Stored' BY <1>1, <2>1, <2>5, <2>6, <2>7, <2>9, WriterFacts DEF Stored, counters
  <2>10. PICK r \in Run : /\ r = [Idle EXCEPT !.kind = "purge", !.pc = "marking"]
                          /\ r.pc = "marking"
    BY MarkingType
  <2>11. Become(w, r) BY <2>1, <2>10
  <2> QED BY <1>1, <1>2, <2>8, <2>10, <2>11, WriterFacts, WriterStep
<1> QED BY <1>3, <1>4

----------------------------------------------------------------------------
LEMMA AbandonStep ==
    ASSUME WriterInv, NEW w \in Writers, Abandon(w)
    PROVE  WriterInv'
<1>1. GiveUp(w) /\ Fault /\ UNCHANGED <<files, table, generations, lease, edits, skips, history>>
  BY DEF Abandon
<1>2. Stored' BY <1>1, WriterFacts, StoredKept
<1> QED BY <1>1, <1>2, GiveUpStep

LEMMA ReleaseStep ==
    ASSUME WriterInv, NEW w \in Writers, Release(w)
    PROVE  WriterInv'
<1>1. /\ lease' = IF lease.owner = w THEN [owner |-> NoWriter, out |-> FALSE] ELSE lease
      /\ Become(w, Idle) /\ UNCHANGED <<files, table, generations, counters, history>>
  BY DEF Release
<1>2. Stored' BY <1>1, WriterFacts DEF Stored, table, counters, history, VersionsOK
<1>3. lease' \in Leases /\ (lease' = lease \/ lease.owner = w) BY <1>1, WriterFacts DEF Leases
<1>4. Idle \in Run /\ Idle.pc = "idle" BY IdleType DEF Idle
<1> QED BY <1>1, <1>2, <1>3, <1>4, MoveStep DEF Holding, Advancing

LEMMA CrashStep ==
    ASSUME WriterInv, NEW w \in Writers, Crash(w)
    PROVE  WriterInv'
<1>1. /\ Fault /\ Become(w, Idle)
      /\ UNCHANGED <<files, table, generations, lease, edits, skips, history>>
  BY DEF Crash
<1>2. Stored' BY <1>1, WriterFacts, StoredKept
<1>3. lease' \in Leases BY <1>1, WriterFacts DEF Leases
<1>4. Idle \in Run /\ Idle.pc = "idle" BY IdleType DEF Idle
<1> QED BY <1>1, <1>2, <1>3, <1>4, MoveStep DEF Holding, Advancing

LEMMA RenewTimerStep ==
    ASSUME WriterInv, NEW w \in Writers, RenewTimer(w)
    PROVE  WriterInv'
<1>1. /\ lease.owner = w /\ lease' = [lease EXCEPT !.out = FALSE]
      /\ UNCHANGED <<files, table, generations, run, counters, history>>
  BY DEF RenewTimer
<1>2. Stored' BY <1>1, WriterFacts DEF Stored, table, counters, history, VersionsOK
<1>3. lease' \in Leases /\ lease'.owner = lease.owner /\ ~lease'.out BY <1>1, WriterFacts DEF Leases
<1>4. WriterTypes' BY <1>1, <1>2, <1>3, WriterFacts DEF WriterTypes, TypeOK, Stored, Leases
<1>5. \A v \in Writers : Held(v)' /\ Founded(v)'
  BY <1>1, <1>3, WriterFacts DEF Held, Founded
<1> QED BY <1>4, <1>5 DEF WriterInv

LEMMA WriterInvStep ==
    ASSUME PlansAwake, WriterInv, [Next]_vars
    PROVE  WriterInv'
<1>1. CASE UNCHANGED vars
  <2>1. UNCHANGED <<files, table, history, edits, skips, faults>>
        /\ UNCHANGED <<generations, lease, run>>
    BY <1>1 DEF vars, table, history
  <2>2. Stored' BY <2>1, WriterFacts, StoredKept
  <2> QED BY <2>1, <2>2, OutsiderStep
<1>2. CASE Outsiders BY <1>2, OutsidersStep
<1>3. ASSUME NEW w \in Writers, Writer(w) PROVE WriterInv'
  <2>1. CASE \E r \in Purgeable \cup {NoRow} : Acquire(w, r) BY <2>1, AcquireStep
  <2>2. CASE RenewTimer(w) \/ RecoverSkip(w) \/ Throws(w) \/ Abandon(w) \/ Crash(w)
    BY <2>2, RenewTimerStep, RecoverSkipStep, ThrowsStep, AbandonStep, CrashStep
  <2>3. CASE RecoverTarget(w) \/ RecoverDiscard(w) \/ RecoverDone(w)
             \/ ApplyTarget(w) \/ Mark(w) \/ Discard(w)
    BY <2>3, RecoverTargetStep, RecoverDiscardStep, RecoverDoneStep, ApplyTargetStep,
       MarkStep, DiscardStep
  <2>4. CASE Look(w) \/ PlanAndSync(w) \/ Contend(w) \/ Ask(w) \/ ProviderReturns(w)
    BY <2>4, LookStep, PlanAndSyncStep, ContendStep, AskStep, ProviderReturnsStep
  <2>5. CASE Check(w) \/ Prepare(w) \/ Commit(w) \/ PreparePurge(w) \/ CommitPurge(w) \/ Release(w)
    BY <2>5, CheckStep, PrepareStep, CommitStep, PreparePurgeStep, CommitPurgeStep, ReleaseStep
  <2> QED BY <1>3, <2>1, <2>2, <2>3, <2>4, <2>5 DEF Writer, Works
<1> QED BY <1>1, <1>2, <1>3 DEF Next

\* The invariant of lease and manifests, for every behaviour that plans awake.
THEOREM WriterInvHolds == PlansAwake => (Spec => []WriterInv)
<1>1. ASSUME PlansAwake PROVE Spec => []WriterInv
  <2>1. Init => WriterInv BY WriterInit
  <2>2. WriterInv /\ [Next]_vars => WriterInv' BY <1>1, WriterInvStep
  <2> QED BY <2>1, <2>2, PTL DEF Spec
<1> QED BY <1>1

\* Every variable keeps its type, whoever writes and whoever dies.
THEOREM WriterTypeCorrect == PlansAwake => (Spec => []TypeOK)
<1>1. WriterInv => TypeOK BY DEF WriterInv, WriterTypes
<1> QED BY <1>1, WriterInvHolds, PTL

\* Two writers that write both hold the lease, so they are one.
THEOREM OneWriterHolds == PlansAwake => (Spec => []OneWriter)
<1>1. WriterInv => OneWriter
  BY DEF WriterInv, Held, OneWriter, Writing, Holding, Advancing
<1> QED BY <1>1, WriterInvHolds, PTL
=============================================================================
