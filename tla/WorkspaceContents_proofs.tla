----------------------- MODULE WorkspaceContents_proofs ---------------------
(***************************************************************************)
(* Proofs about what the documents of a workspace contain: a note that     *)
(* SQLite counts as applied is in them until an answer leaves it out, and  *)
(* what was purged is not, in spite of writers that die, providers that    *)
(* answer late and checkpoints that arrive meanwhile.                      *)
(***************************************************************************)
EXTENDS WorkspaceViews_proofs

----------------------------------------------------------------------------
(***************************************************************************)
(* The inductive invariant, on top of a tidy workspace                     *)
(***************************************************************************)
Cited(r, m) == FactsOf(r) \cap m # {}
CleanOf(S, m) == \A r \in S : FactsOf(r) \cap m = {}
Clean(c) == \A t \in Targets : CleanOf(purged, c[t])

\* m has the notes that SQLite counts as applied, but for those in gone.
Keeps(m, gone) == \A n \in Notes \ gone : notes[n] = "applied" => NoteFact(n) \in m

\* m also has the notes that the transaction is about to count as applied.
Merges(m, consumed, left) ==
    /\ Keeps(m, forgotten \cup left)
    /\ \A n \in consumed : NoteFact(n) \in m

PlanOK(p) == \A r \in Rows : Cited(r, p.raw) <=> r \in p.selected

Vouched ==
    /\ Keeps(committed.memory, forgotten)
    /\ \A r \in purged : stage[r].status = "absent"
    /\ ~Pending => Clean(files)
    /\ Pending => Clean(Winner)

Unwritten == {"applying", "committing"}
Backed(w) ==
    /\ PlanOK(run[w].plan)
    /\ lease.owner = w => CleanOf(purged, run[w].plan.raw)
    /\ run[w].pc = "returned" =>
         /\ run[w].result \in Results(run[w].seen, run[w].plan, run[w].consumed)
         /\ run[w].left = LeftOut(run[w].seen, run[w].result)
    /\ run[w].pc = "checked" => /\ Merges(run[w].result, run[w].consumed, run[w].left)
                                /\ CleanOf(purged, run[w].result)
    /\ run[w].pc \in Advancing => Clean(Gen.after)
    /\ run[w].pc \in Unwritten /\ run[w].kind = "commit" =>
         /\ Merges(Gen.after["memory"], run[w].consumed, run[w].left)
         /\ Gen.after["raw"] = run[w].plan.raw
    /\ run[w].pc \in Unwritten /\ run[w].kind = "purge" =>
         /\ Keeps(Gen.after["memory"], forgotten)
         /\ \A t \in Targets : CleanOf({run[w].row}, Gen.after[t])

Honest == Vouched /\ \A w \in Writers : Backed(w)

----------------------------------------------------------------------------
(***************************************************************************)
(* What the providers make of a document                                   *)
(***************************************************************************)
LEMMA NoteIsNoRow ==
    /\ \A n \in Notes, r \in Rows : NoteFact(n) \notin FactsOf(r)
    /\ \A n \in Notes : NoteFact(n) \notin UserFacts
    /\ \A n \in Notes : NoteFact(n) \notin RowFacts
BY WriterAssumption DEF RowFacts, UserFacts, NoteFact, FactsOf

\* Lines of the user cite nothing.
LEMMA UserCitesNothing ==
    ASSUME NEW x, NEW y, x \ UserFacts = y \ UserFacts
    PROVE  /\ \A r \in Rows : FactsOf(r) \cap x = FactsOf(r) \cap y
           /\ \A n \in Notes : NoteFact(n) \in x <=> NoteFact(n) \in y
<1>1. ASSUME NEW r \in Rows PROVE FactsOf(r) \cap x = FactsOf(r) \cap y
  <2>1. FactsOf(r) \cap UserFacts = {} BY FactParts
  <2> QED BY <2>1
<1>2. \A n \in Notes : NoteFact(n) \in x <=> NoteFact(n) \in y BY NoteIsNoRow
<1> QED BY <1>1, <1>2

\* A provider loses no note but those it leaves out, and invents nothing.
LEMMA ResultKeeps ==
    ASSUME NEW seen, NEW p \in Plan, NEW consumed \in SUBSET Notes,
           NEW result \in Results(seen, p, consumed)
    PROVE  /\ \A n \in Notes \ LeftOut(seen, result) :
                NoteFact(n) \in seen.files["memory"] => NoteFact(n) \in result
           /\ \A n \in consumed : NoteFact(n) \in result
           /\ \A r \in Rows :
                FactsOf(r) \cap seen.files["memory"] = {} /\ FactsOf(r) \cap p.raw = {} =>
                    FactsOf(r) \cap result = {}
<1> DEFINE said == {NoteFact(n) : n \in consumed}
          Left(d, t) == {f \in seen.files["memory"] : f[1] \notin d} \cup t \cup said
          fresh == p.raw \ seen.files["baseRaw"]
<1>a. result \in {Left(d, t) : d \in SUBSET Droppable, t \in SUBSET fresh}
  BY Z3 DEF Results
<1>1. PICK dropped \in SUBSET Droppable, taken \in SUBSET fresh : result = Left(dropped, taken)
  <2> HIDE DEF Left, fresh
  <2> QED BY <1>a
<1>2. result \subseteq seen.files["memory"] \cup p.raw \cup said BY <1>1
<1>3. \A n \in consumed : NoteFact(n) \in said OBVIOUS
<1>4. \A r \in Rows : FactsOf(r) \cap said = {} BY NoteIsNoRow
<1> HIDE DEF said, fresh
<1>5. \A n \in Notes \ LeftOut(seen, result) :
        NoteFact(n) \in seen.files["memory"] => NoteFact(n) \in result
  BY DEF LeftOut
<1>6. \A n \in consumed : NoteFact(n) \in result BY <1>1, <1>3
<1> QED BY <1>2, <1>4, <1>5, <1>6

----------------------------------------------------------------------------
(***************************************************************************)
(* What SQLite acknowledges                                                *)
(***************************************************************************)
\* Where nothing new is acknowledged, what was kept is kept.
LEMMA KeepsStill ==
    ASSUME \A n \in Notes : notes'[n] = "applied" => notes[n] = "applied",
           UNCHANGED forgotten
    PROVE  /\ \A m : Keeps(m, forgotten) => Keeps(m, forgotten)'
           /\ \A m, consumed, left : Merges(m, consumed, left) => Merges(m, consumed, left)'
BY DEF Keeps, Merges

LEMMA MergesMore ==
    ASSUME NEW consumed \in SUBSET Notes, NEW left, NEW m, NEW m2,
           Merges(m, consumed, left), m \subseteq m2
    PROVE  Merges(m2, consumed, left)
BY DEF Merges, Keeps

\* With no manifest about, what is published keeps what SQLite acknowledges.
LEMMA FilesKeep ==
    ASSUME WriterInv, Whole, ~Pending, Vouched
    PROVE  Keeps(files["memory"], forgotten) /\ Clean(files)
<1>1. Agrees(files) /\ Clean(files) /\ Keeps(committed.memory, forgotten) BY DEF Whole, Vouched
<1>2. files["memory"] \ UserFacts = committed.memory \ UserFacts BY <1>1 DEF Agrees
<1>3. \A n \in Notes : NoteFact(n) \in files["memory"] <=> NoteFact(n) \in committed.memory
  BY <1>2, UserCitesNothing
<1> QED BY <1>1, <1>3 DEF Keeps

\* An answer to what is still published merges what is to be acknowledged.
LEMMA AnswerMerges ==
    ASSUME WriterInv, Whole, ~Pending, Vouched, NEW seen, seen.files = files,
           NEW p \in Plan, CleanOf(purged, p.raw),
           NEW consumed \in SUBSET Notes, NEW result \in Results(seen, p, consumed)
    PROVE  Merges(result, consumed, LeftOut(seen, result)) /\ CleanOf(purged, result)
<1>1. Keeps(files["memory"], forgotten) /\ Clean(files) BY FilesKeep
<1>2. CleanOf(purged, files["memory"]) /\ purged \in SUBSET Rows
  BY <1>1, WriterFacts DEF Clean, Targets, Stored
<1>3. /\ \A n \in Notes \ LeftOut(seen, result) :
           NoteFact(n) \in files["memory"] => NoteFact(n) \in result
      /\ \A n \in consumed : NoteFact(n) \in result
      /\ \A r \in Rows : FactsOf(r) \cap files["memory"] = {} /\ FactsOf(r) \cap p.raw = {} =>
                           FactsOf(r) \cap result = {}
  BY ResultKeeps
<1>4. Merges(result, consumed, LeftOut(seen, result)) BY <1>1, <1>3 DEF Keeps, Merges
<1>5. CleanOf(purged, result) BY <1>2, <1>3 DEF CleanOf
<1> QED BY <1>4, <1>5

\* Files that follow clean ones are clean.
LEMMA FollowsClean ==
    ASSUME NEW x, NEW y, purged \in SUBSET Rows, Clean(y), \A t \in Targets : Follows(x, y, t)
    PROVE  Clean(x)
<1> SUFFICES ASSUME NEW t \in Targets, NEW r \in purged PROVE FactsOf(r) \cap x[t] = {}
  BY DEF Clean, CleanOf
<1>1. FactsOf(r) \cap y[t] = {} /\ FactsOf(r) \cap UserFacts = {} /\ Follows(x, y, t)
  BY FactParts DEF Clean, CleanOf
<1>2. CASE t = "memory" BY <1>1, <1>2 DEF Follows
<1>3. CASE t # "memory" BY <1>1, <1>3 DEF Follows
<1> QED BY <1>2, <1>3

\* A plan from the table as it is has no row that was purged.
LEMMA PlanForHonest ==
    ASSUME WriterInv, Vouched, NEW batch \in Batches
    PROVE  PlanOK(PlanFor(batch)) /\ CleanOf(purged, PlanFor(batch).raw)
<1> DEFINE rows == Retained \cup batch
           raw == {Current(r) : r \in rows}
<1>1. batch \in SUBSET Rows /\ rows \in SUBSET Rows BY DEF Batches, Retained
<1>2. \A r \in rows : InWindow(r) BY DEF Retained, Batches
<1>3. \A r \in rows : stage[r].status # "absent" BY <1>2 DEF InWindow, Active
<1>4. \A r \in rows : Current(r) \in FactsOf(r) BY <1>1, <1>3, RowTypes DEF WriterInv
<1>5. PlanFor(batch).raw = raw /\ PlanFor(batch).selected = rows BY DEF PlanFor
<1> HIDE DEF rows
<1>6. ASSUME NEW r \in Rows PROVE Cited(r, raw) <=> r \in rows
  <2>1. r \in rows => Cited(r, raw) BY <1>4 DEF Cited
  <2>2. ASSUME Cited(r, raw) PROVE r \in rows
    <3>1. PICK q \in rows : Current(q) \in FactsOf(r) BY <2>2 DEF Cited
    <3>2. q = Current(q)[1] BY DEF Current
    <3>3. Current(q)[1] = r BY <3>1, FactParts
    <3> QED BY <3>1, <3>2, <3>3
  <2> QED BY <2>1, <2>2
<1>7. CleanOf(purged, raw)
  <2>1. \A r \in purged : r \in Rows /\ r \notin rows BY <1>3, WriterFacts DEF Vouched, Stored
  <2> QED BY <1>6, <2>1 DEF CleanOf, Cited
<1> HIDE DEF raw
<1> QED BY <1>5, <1>6, <1>7 DEF PlanOK

LEMMA NoPlanHonest == PlanOK(NoPlan) /\ CleanOf(purged, NoPlan.raw)
BY DEF PlanOK, NoPlan, CleanOf, Cited

----------------------------------------------------------------------------
(***************************************************************************)
(* What a step must show                                                   *)
(***************************************************************************)
\* As Quiet, and the step also leaves alone what SQLite acknowledges.
Silent(w) == Quiet(w) /\ UNCHANGED <<stage, notes, purged, forgotten>>

LEMMA HonestStep ==
    ASSUME WriterInv, Honest, NEW w \in Writers, NEW r \in Run, Become(w, r),
           Silent(w) \/ Owns(w), Vouched', Backed(w)'
    PROVE  Honest'
<1>1. \A v \in Writers \ {w} : run'[v] = run[v] BY WriterFacts, BecomeType
<1>2. ASSUME NEW v \in Writers \ {w} PROVE Backed(v)'
  <2>1. run'[v] = run[v] /\ Backed(v) /\ Held(v) /\ v # NoWriter
    BY <1>1, WriterFacts, WriterAssumption DEF Honest
  <2>2. CASE Silent(w)
    <3>1. lease'.owner = v => lease' = lease BY <2>1, <2>2 DEF Silent, Quiet
    <3>2. UNCHANGED <<generations, stage, notes, purged, forgotten>> BY <2>2 DEF Silent, Quiet
    <3> QED BY <2>1, <3>1, <3>2
        DEF Backed, Gen, Merges, Keeps, Clean, CleanOf
  <2>3. CASE Owns(w)
    <3>1. run[v].pc \notin Holding /\ lease'.owner # v BY <2>1, <2>3 DEF Held, Owns
    <3> QED BY <2>1, <3>1 DEF Backed, Holding, Advancing, Unwritten
  <2> QED BY <2>2, <2>3
<1> QED BY <1>2 DEF Honest

LEMMA VouchedKept ==
    ASSUME Vouched,
           UNCHANGED <<files, generations, marker, committed, stage, notes, purged, forgotten>>
    PROVE  Vouched'
BY DEF Vouched, Pending, Gen, Winner, Side, Forward, Keeps, Clean, CleanOf

\* A writer at a place where it has neither an answer nor a manifest.
LEMMA MovesHonest ==
    ASSUME WriterInv, Honest, NEW w \in Writers, NEW r \in Run, Become(w, r), Silent(w),
           r.pc \notin Advancing \cup {"returned", "checked"},
           r.plan = NoPlan \/ (r.plan = run[w].plan /\ lease' = lease)
    PROVE  Honest'
<1>1. run'[w] = r /\ purged' = purged BY WriterFacts, BecomeType DEF Silent
<1>2. Vouched' BY VouchedKept DEF Honest, Silent, Quiet
<1>3. PlanOK(r.plan) /\ (lease'.owner = w => CleanOf(purged, r.plan.raw))
  BY NoPlanHonest DEF Honest, Backed
<1>4. Backed(w)' BY <1>1, <1>3 DEF Backed, Advancing, Unwritten, CleanOf
<1> QED BY <1>2, <1>4, HonestStep

LEMMA GivesUpHonest ==
    ASSUME WriterInv, Honest, NEW w \in Writers, GiveUp(w), Silent(w)
    PROVE  Honest'
<1>1. PICK r \in Run : Become(w, r) /\ r.pc = "releasing" /\ r.plan = NoPlan BY GiveUpType
<1> QED BY <1>1, MovesHonest DEF Advancing

----------------------------------------------------------------------------
(***************************************************************************)
(* Recovery                                                                *)
(***************************************************************************)
LEMMA AcquireHonest ==
    ASSUME WriterInv, Honest, NEW w \in Writers, NEW row \in Purgeable \cup {NoRow}, Acquire(w, row)
    PROVE  Honest'
<1> DEFINE old == [Idle EXCEPT !.row = row]
<1>1. row \in Rows \cup {NoRow} BY WriterAssumption
<1>2. old.row = row BY <1>1, IdleType DEF Run
<1>3. marker \in GenIds \cup {NoGen} /\ WriterTypes BY WriterFacts DEF Stored
<1>4. /\ Become(w, Recovering(old, marker, "planning"))
      /\ UNCHANGED <<files, table, generations, counters, history>> /\ lease'.owner = w
  BY DEF Acquire
<1> HIDE DEF old
<1>5. PICK r \in Run : /\ r = Recovering(old, marker, "planning")
                       /\ r.pc = "recovering" /\ r.plan = NoPlan
  BY <1>1, <1>2, <1>3, RecoveringType
<1>6. Become(w, r) BY <1>4, <1>5
<1>7. Silent(w) BY <1>4 DEF Silent, Quiet, table, history
<1> QED BY <1>5, <1>6, <1>7, MovesHonest DEF Advancing

LEMMA RecoverTargetHonest ==
    ASSUME WriterInv, Tidy, Honest, NEW w \in Writers, RecoverTarget(w)
    PROVE  Honest'
<1> DEFINE t == First(run[w].todo)
           r == [run[w] EXCEPT !.todo = run[w].todo \ {t}]
<1>1. run[w].pc = "recovering" /\ run[w].todo # {} BY DEF RecoverTarget
<1>2. run[w] \in Run /\ run[w].todo \in SUBSET Targets BY WriterFacts DEF Run
<1>3. Pending BY <1>1 DEF Tidy, Recovers
<1>4. Become(w, r) BY DEF RecoverTarget, Become
<1>5. run[w].todo \ {t} \in SUBSET Targets BY <1>2
<1> HIDE DEF t
<1>6. r \in Run /\ r.pc = "recovering" /\ r.plan = run[w].plan BY <1>1, <1>2, <1>5 DEF Run
<1> HIDE DEF r
<1>7. UNCHANGED <<generations, marker, committed, lease, stage, notes, purged, forgotten>>
  BY DEF RecoverTarget, table, history
<1>8. Owns(w) BY <1>1, <1>7, WriterFacts DEF Owns, Held, Holding
<1>9. run'[w] = r BY <1>4, <1>6, WriterFacts, BecomeType
<1>10. Vouched' BY <1>3, <1>7 DEF Honest, Vouched, Pending, Gen, Winner, Side, Forward, Keeps, Clean, CleanOf
<1>11. Backed(w) BY DEF Honest
<1>12. Backed(w)' BY <1>6, <1>7, <1>9, <1>11 DEF Backed, Advancing, Unwritten, CleanOf
<1> QED BY <1>4, <1>6, <1>8, <1>10, <1>12, HonestStep

LEMMA RecoverDiscardHonest ==
    ASSUME WriterInv, Tidy, Honest, NEW w \in Writers, RecoverDiscard(w)
    PROVE  Honest'
<1> DEFINE r == [run[w] EXCEPT !.todo = TodoAt(generations', run[w].skipped + 1)]
<1>1. run[w].pc = "recovering" /\ run[w].todo = {} /\ run[w].skipped < Len(generations)
  BY DEF RecoverDiscard
<1>2. Recovers(w) /\ Whole /\ run[w].skipped = 0 BY <1>1 DEF Tidy, Recovers
<1>3. Pending
  <2>1. Len(<<>>) = 0 OBVIOUS
  <2> QED BY <1>1, <1>2, <2>1 DEF Pending
<1>4. generations' = <<>>
  <2>1. generations' = RemoveAt(generations, 1) BY <1>2 DEF RecoverDiscard
  <2> QED BY <1>2, <1>3, <2>1, OneGen
<1>5. \A t \in Targets : Follows(files, Winner, t) BY <1>1, <1>2, <1>3, Landed DEF Recovers
<1>6. Clean(files) BY <1>3, <1>5, FollowsClean, WriterFacts DEF Honest, Vouched, Stored
<1>7. Become(w, r) BY DEF RecoverDiscard, Become
<1>8. run[w] \in Run BY WriterFacts
<1>9. TodoAt(generations', run[w].skipped + 1) = {} BY <1>4, EmptyTodo
<1>10. r \in Run /\ r.pc = "recovering" /\ r.plan = run[w].plan BY <1>1, <1>8, <1>9 DEF Run
<1> HIDE DEF r
<1>11. run'[w] = r BY <1>7, <1>10, WriterFacts, BecomeType
<1>12. UNCHANGED <<files, marker, committed, lease, stage, notes, purged, forgotten>>
  BY DEF RecoverDiscard, table, history
<1>13. Owns(w) BY <1>1, <1>12, WriterFacts DEF Owns, Held, Holding
<1>14. Vouched' BY <1>4, <1>6, <1>12 DEF Honest, Vouched, Pending, Keeps, Clean, CleanOf
<1>15. Backed(w) BY DEF Honest
<1>16. Backed(w)' BY <1>10, <1>11, <1>12, <1>15 DEF Backed, Advancing, Unwritten, CleanOf
<1> QED BY <1>7, <1>10, <1>13, <1>14, <1>16, HonestStep

LEMMA RecoverDoneHonest ==
    ASSUME WriterInv, Honest, NEW w \in Writers, RecoverDone(w)
    PROVE  Honest'
<1> DEFINE r == [Idle EXCEPT !.pc = run[w].next,
                             !.row = IF run[w].next = "planning" THEN run[w].row ELSE NoRow]
<1>1. run[w] \in Run BY WriterFacts
<1>2. Idle.plan = NoPlan BY DEF Idle
<1>3. r \in Run /\ r.pc \in {"planning", "releasing"} /\ r.plan = NoPlan
  BY <1>1, <1>2, IdleType DEF Run
<1>4. Become(w, r) /\ UNCHANGED <<files, table, generations, lease, counters, history>>
  BY DEF RecoverDone
<1>5. Silent(w) BY <1>4 DEF Silent, Quiet, table, history
<1> HIDE DEF r
<1> QED BY <1>3, <1>4, <1>5, MovesHonest DEF Advancing

----------------------------------------------------------------------------
(***************************************************************************)
(* Writing a generation                                                    *)
(***************************************************************************)
LEMMA PublishHonest ==
    ASSUME WriterInv, Honest, NEW w \in Writers, NEW kind \in {"sync", "commit", "purge"},
           NEW after \in Contents, NEW r \in Run, Publish(w, kind, after, r),
           ~Pending, Owns(w), UNCHANGED <<files, table, history>>,
           Clean(after), PlanOK(r.plan), CleanOf(purged, r.plan.raw),
           kind = "commit" => /\ Merges(after["memory"], r.consumed, r.left)
                              /\ after["raw"] = r.plan.raw,
           kind = "purge" => /\ Keeps(after["memory"], forgotten)
                             /\ \A t \in Targets : CleanOf({r.row}, after[t])
    PROVE  Honest'
<1>1. PICK g \in Generation, q \in Run :
             Manifest(after, g) /\ Become(w, q) /\ Follower(kind, r, g, q)
  BY PublishFacts
<1>2. UNCHANGED <<marker, stage, notes, committed, purged, forgotten>> BY DEF table, history
<1>3. Pending' /\ Gen' = g /\ g.after = after /\ Winner' = files
  BY <1>1, <1>2, Published
<1>4. /\ q.kind = kind /\ q.plan = r.plan /\ q.row = r.row /\ q.consumed = r.consumed
      /\ q.left = r.left
      /\ q.pc = IF g.touched = {} THEN Applied(kind) ELSE "applying"
  BY <1>1 DEF Follower
<1>5. q.pc \in {"applying", "marking", "committing"} BY <1>4 DEF Applied
<1>6. run'[w] = q BY <1>1, WriterFacts, BecomeType
<1>7. Clean(files) BY DEF Honest, Vouched
<1>8. Vouched' BY <1>2, <1>3, <1>7 DEF Honest, Vouched, Keeps, Clean, CleanOf
<1>9. Clean(Gen.after)' BY <1>2, <1>3 DEF Clean, CleanOf
<1>10. CleanOf(purged, q.plan.raw)' BY <1>2, <1>4 DEF CleanOf
<1>11. kind = "commit" => Merges(after["memory"], r.consumed, r.left)'
  BY <1>2 DEF Merges, Keeps
<1>12. kind = "purge" => Keeps(after["memory"], forgotten)' BY <1>2 DEF Keeps
<1>13. Backed(w)'
  BY <1>3, <1>4, <1>5, <1>6, <1>9, <1>10, <1>11, <1>12 DEF Backed
<1> QED BY <1>1, <1>8, <1>13, HonestStep

LEMMA ApplyTargetHonest ==
    ASSUME WriterInv, Tidy, Honest, NEW w \in Writers, ApplyTarget(w)
    PROVE  Honest'
<1> DEFINE t == First(run[w].todo)
           pc == IF run[w].todo = {t} THEN Applied(run[w].kind) ELSE run[w].pc
           q == [run[w] EXCEPT !.todo = run[w].todo \ {t}, !.pc = pc]
<1>1. run[w].pc = "applying" BY DEF ApplyTarget
<1>2. Pending /\ lease.owner = w /\ ~lease.out BY <1>1, OwnGen DEF Advancing
<1>3. run[w] \in Run /\ run[w].todo \in SUBSET Targets BY WriterFacts DEF Run
<1>4. Become(w, q) BY DEF ApplyTarget, Become
<1>5. pc \in {"applying", "marking", "committing"} BY <1>1 DEF Applied
<1>6. run[w].todo \ {t} \in SUBSET Targets BY <1>3
<1> HIDE DEF t, pc
<1>19. /\ q \in Run /\ q.pc = pc /\ q.kind = run[w].kind /\ q.plan = run[w].plan
       /\ q.consumed = run[w].consumed /\ q.row = run[w].row /\ q.left = run[w].left
  BY <1>3, <1>5, <1>6 DEF Run
<1> HIDE DEF q
<1>7. PICK r \in Run : /\ Become(w, r) /\ r.pc = pc /\ r.kind = run[w].kind
                       /\ r.plan = run[w].plan /\ r.consumed = run[w].consumed
                       /\ r.row = run[w].row /\ r.left = run[w].left
  BY <1>4, <1>19
<1>8. UNCHANGED <<generations, marker, committed, lease, stage, notes, purged, forgotten>>
  BY DEF ApplyTarget, table, history
<1>9. Owns(w) BY <1>2, <1>8 DEF Owns
<1>10. run'[w] = r BY <1>7, WriterFacts, BecomeType
<1>11. Vouched' BY <1>2, <1>8 DEF Honest, Vouched, Pending, Gen, Winner, Side, Forward, Keeps, Clean, CleanOf
<1>12. Backed(w) BY DEF Honest
<1>13. /\ PlanOK(r.plan) /\ CleanOf(purged, r.plan.raw) /\ Clean(Gen.after)
       /\ r.kind = "commit" => /\ Merges(Gen.after["memory"], r.consumed, r.left)
                               /\ Gen.after["raw"] = r.plan.raw
       /\ r.kind = "purge" => /\ Keeps(Gen.after["memory"], forgotten)
                              /\ \A u \in Targets : CleanOf({r.row}, Gen.after[u])
  BY <1>1, <1>2, <1>7, <1>12 DEF Backed, Advancing, Unwritten
<1>14. Gen' = Gen BY <1>8 DEF Gen
<1>15. Merges(Gen.after["memory"], r.consumed, r.left) => Merges(Gen.after["memory"], r.consumed, r.left)'
  BY <1>8, <1>14 DEF Merges, Keeps
<1>16. Keeps(Gen.after["memory"], forgotten) => Keeps(Gen.after["memory"], forgotten)'
  BY <1>8, <1>14 DEF Keeps
<1>17. Clean(Gen.after)' /\ CleanOf(purged, r.plan.raw)' BY <1>8, <1>13, <1>14 DEF Clean, CleanOf
<1>18. Backed(w)' BY <1>5, <1>7, <1>10, <1>13, <1>14, <1>15, <1>16, <1>17 DEF Backed
<1> QED BY <1>7, <1>9, <1>11, <1>18, HonestStep

LEMMA MarkHonest ==
    ASSUME WriterInv, Tidy, Honest, NEW w \in Writers, Mark(w)
    PROVE  Honest'
<1> DEFINE q == [run[w] EXCEPT !.pc = "discarding"]
<1>1. run[w].pc = "marking" /\ Become(w, q) BY DEF Mark, Goto
<1>2. Pending' /\ Gen'.after = Gen.after /\ Winner' = Gen.after BY Marked
<1>3. lease.owner = w /\ ~lease.out BY <1>1, OwnGen DEF Advancing
<1>4. run[w] \in Run BY WriterFacts
<1>14. q \in Run /\ q.pc = "discarding" /\ q.plan = run[w].plan BY <1>4 DEF Run
<1> HIDE DEF q
<1>5. PICK r \in Run : Become(w, r) /\ r.pc = "discarding" /\ r.plan = run[w].plan BY <1>1, <1>14
<1>6. UNCHANGED <<files, marker, committed, lease, stage, notes, purged, forgotten>>
  BY DEF Mark, table, history
<1>7. run'[w] = r BY <1>5, WriterFacts, BecomeType
<1>8. Backed(w) BY DEF Honest
<1>9. Clean(Gen.after) /\ PlanOK(r.plan) /\ CleanOf(purged, r.plan.raw)
  BY <1>1, <1>3, <1>5, <1>8 DEF Backed, Advancing
<1>10. Vouched' BY <1>2, <1>6, <1>9 DEF Honest, Vouched, Keeps, Clean, CleanOf
<1>11. Clean(Gen.after)' /\ CleanOf(purged, r.plan.raw)' BY <1>2, <1>6, <1>9 DEF Clean, CleanOf
<1>12. Backed(w)' BY <1>5, <1>7, <1>9, <1>11 DEF Backed, Advancing, Unwritten
<1>13. Owns(w) BY <1>3, <1>6 DEF Owns
<1> QED BY <1>5, <1>10, <1>12, <1>13, HonestStep

LEMMA DiscardHonest ==
    ASSUME WriterInv, Tidy, Honest, NEW w \in Writers, Discard(w)
    PROVE  Honest'
<1>1. run[w].pc = "discarding" /\ UNCHANGED <<files, table, lease, counters, history>>
  BY DEF Discard
<1>2. generations' = <<>> /\ Pending /\ \A t \in Targets : Follows(files, Winner, t) BY Discarded
<1>3. lease.owner = w /\ ~lease.out BY <1>1, OwnGen DEF Advancing
<1>4. Owns(w) /\ UNCHANGED <<files, marker, committed, stage, notes, purged, forgotten>>
  BY <1>1, <1>3 DEF Owns, table, history
<1>5. run[w] \in Run BY WriterFacts
<1>6. \E r \in Run : /\ Become(w, r) /\ r.pc \in {"asking", "releasing"}
                     /\ r.plan = run[w].plan \/ r.plan = NoPlan
  <2>1. CASE run[w].kind = "sync"
    <3>1. Become(w, [run[w] EXCEPT !.pc = "asking"]) BY <2>1 DEF Discard, Goto
    <3> QED BY <1>5, <3>1, RunFields
  <2>2. CASE run[w].kind # "sync"
    <3>1. GiveUp(w) BY <2>2 DEF Discard
    <3> QED BY <3>1, GiveUpType
  <2> QED BY <2>1, <2>2
<1>7. PICK r \in Run : /\ Become(w, r) /\ r.pc \in {"asking", "releasing"}
                       /\ r.plan = run[w].plan \/ r.plan = NoPlan
  BY <1>6
<1>8. run'[w] = r BY <1>7, WriterFacts, BecomeType
<1>9. Clean(files) BY <1>2, FollowsClean, WriterFacts DEF Honest, Vouched, Stored
<1>10. Vouched' BY <1>2, <1>4, <1>9 DEF Honest, Vouched, Pending, Keeps, Clean, CleanOf
<1>11. PlanOK(r.plan) /\ CleanOf(purged, r.plan.raw)
  BY <1>3, <1>7, NoPlanHonest DEF Honest, Backed
<1>12. Backed(w)' BY <1>4, <1>7, <1>8, <1>11 DEF Backed, Advancing, Unwritten, CleanOf
<1> QED BY <1>4, <1>7, <1>10, <1>12, HonestStep

LEMMA ThrowsHonest ==
    ASSUME WriterInv, Honest, NEW w \in Writers, Throws(w)
    PROVE  Honest'
<1> DEFINE mark == IF run[w].kind = "sync" THEN NoGen ELSE marker
<1>1. mark \in GenIds \cup {NoGen} /\ WriterTypes BY WriterFacts DEF Stored
<1>2. Idle.row = NoRow BY DEF Idle
<1>3. PICK r \in Run : /\ r = Recovering(Idle, mark, "releasing")
                       /\ r.pc = "recovering" /\ r.plan = NoPlan
  BY <1>1, <1>2, RecoveringType
<1>4. Become(w, r) /\ UNCHANGED <<files, table, generations, lease, history>>
  BY <1>3 DEF Throws
<1>5. Silent(w) BY <1>4 DEF Silent, Quiet, table, history
<1> QED BY <1>3, <1>4, <1>5, MovesHonest DEF Advancing

----------------------------------------------------------------------------
(***************************************************************************)
(* Consolidation                                                           *)
(***************************************************************************)
LEMMA LookHonest ==
    ASSUME WriterInv, Honest, NEW w \in Writers, Look(w)
    PROVE  Honest'
<1> DEFINE r == [run[w] EXCEPT !.pc = "looked", !.seen.stage = stage]
<1>1. Become(w, r) /\ UNCHANGED <<files, table, generations, lease, counters, history>>
  BY DEF Look
<1>2. run[w] \in Run /\ stage \in [Rows -> StageRow] BY WriterFacts
<1>3. [run[w].seen EXCEPT !.stage = stage] \in Seen BY <1>2 DEF Run, Seen
<1>4. r = [run[w] EXCEPT !.pc = "looked", !.seen = [run[w].seen EXCEPT !.stage = stage]]
  BY <1>2 DEF Run
<1>5. r \in Run /\ r.pc = "looked" /\ r.plan = run[w].plan BY <1>2, <1>3, <1>4 DEF Run
<1>6. Silent(w) /\ lease' = lease BY <1>1 DEF Silent, Quiet, table, history
<1> HIDE DEF r
<1> QED BY <1>1, <1>5, <1>6, MovesHonest DEF Advancing

LEMMA PlanAndSyncHonest ==
    ASSUME WriterInv, Tidy, Honest, NEW w \in Writers, PlanAndSync(w)
    PROVE  Honest'
<1>1. run[w].pc = "looked" /\ UNCHANGED <<files, table, lease, counters, history>>
  BY DEF PlanAndSync
<1>2. ~Pending BY <1>1 DEF Tidy, Clears
<1>3. PICK batch \in Batches :
        IF NothingToDo(PlanFor(batch))
        THEN GiveUp(w) /\ UNCHANGED generations
        ELSE Publish(w, "sync", [files EXCEPT !["raw"] = PlanFor(batch).raw],
                     [Idle EXCEPT !.plan = PlanFor(batch)])
  BY DEF PlanAndSync
<1>4. CASE NothingToDo(PlanFor(batch))
  <2>1. Silent(w) BY <1>1, <1>3, <1>4 DEF Silent, Quiet, table, history
  <2> QED BY <1>3, <1>4, <2>1, GivesUpHonest
<1>5. CASE ~NothingToDo(PlanFor(batch))
  <2> DEFINE p == PlanFor(batch)
             after == [files EXCEPT !["raw"] = p.raw]
             r == [Idle EXCEPT !.plan = p]
  <2>1. p \in Plan BY PlanForType DEF WriterInv
  <2>2. Publish(w, "sync", after, r) BY <1>3, <1>5
  <2>3. PlanOK(p) /\ CleanOf(purged, p.raw) BY PlanForHonest DEF Honest
  <2> HIDE DEF p
  <2>4. p.raw \in SUBSET Facts BY <2>1, FactParts DEF Plan
  <2>5. /\ after \in Contents /\ after["raw"] = p.raw
        /\ \A t \in Targets \ {"raw"} : after[t] = files[t]
    BY <2>4, WriterFacts, SyncedFiles DEF Stored
  <2>6. r \in Run /\ r.plan = p BY <2>1, IdleType DEF Run
  <2>7. Owns(w) BY <1>1, WriterFacts DEF Owns, Held, Holding
  <2>8. UNCHANGED <<files, table, history>> BY <1>1
  <2> HIDE DEF after, r
  <2>9. Clean(files) BY <1>2 DEF Honest, Vouched
  <2>10. Clean(after) BY <2>3, <2>5, <2>9 DEF Clean
  <2>11. PlanOK(r.plan) /\ CleanOf(purged, r.plan.raw) BY <2>3, <2>6
  <2> QED BY <1>2, <2>2, <2>5, <2>6, <2>7, <2>8, <2>10, <2>11, PublishHonest
<1> QED BY <1>4, <1>5

LEMMA AskHonest ==
    ASSUME WriterInv, Honest, NEW w \in Writers, Ask(w)
    PROVE  Honest'
<1> DEFINE r == [run[w] EXCEPT !.pc = "waiting", !.seen = Revision]
<1>1. Become(w, r) /\ Silent(w) /\ lease' = lease BY DEF Ask, Silent, Quiet, table, history
<1>2. Revision \in Seen BY WriterFacts DEF Revision, Seen, Stored
<1>3. run[w] \in Run BY WriterFacts
<1>4. r \in Run /\ r.pc = "waiting" /\ r.plan = run[w].plan BY <1>2, <1>3 DEF Run
<1> HIDE DEF r
<1> QED BY <1>1, <1>4, MovesHonest DEF Advancing

LEMMA ProviderReturnsHonest ==
    ASSUME WriterInv, Honest, NEW w \in Writers, ProviderReturns(w)
    PROVE  Honest'
<1>1. Silent(w) /\ lease' = lease BY DEF ProviderReturns, Silent, Quiet, table, history
<1>2. PICK r \in Run :
        /\ Become(w, r) /\ r.pc = "returned" /\ r.plan = run[w].plan
        /\ r.result \in Results(r.seen, r.plan, r.consumed) /\ r.left = LeftOut(r.seen, r.result)
  BY Returned
<1>3. run'[w] = r BY <1>2, WriterFacts, BecomeType
<1>4. Vouched' BY <1>1, VouchedKept DEF Honest, Silent, Quiet
<1>5. PlanOK(r.plan) /\ (lease.owner = w => CleanOf(purged, r.plan.raw)) /\ purged' = purged
  BY <1>1, <1>2 DEF Honest, Backed, Silent
<1>6. Backed(w)' BY <1>1, <1>2, <1>3, <1>5 DEF Backed, Advancing, Unwritten, CleanOf
<1> QED BY <1>1, <1>2, <1>4, <1>6, HonestStep

LEMMA CheckHonest ==
    ASSUME WriterInv, Tidy, Honest, NEW w \in Writers, Check(w)
    PROVE  Honest'
<1>1. /\ run[w].pc = "returned" /\ UNCHANGED <<files, table, generations, counters, history>>
      /\ lease' = IF lease.owner = w THEN [lease EXCEPT !.out = FALSE] ELSE lease
  BY DEF Check
<1>2. Silent(w) BY <1>1, WriterFacts DEF Silent, Quiet, table, history, Leases
<1>3. run[w] \in Run BY WriterFacts
<1>4. CASE lease.owner = w /\ run[w].seen = Revision
  <2>1. Become(w, [run[w] EXCEPT !.pc = "checked"]) BY <1>4 DEF Check, Goto
  <2>2. PICK r \in Run : /\ Become(w, r) /\ r.pc = "checked" /\ r.seen = run[w].seen
                         /\ r.plan = run[w].plan /\ r.consumed = run[w].consumed
                         /\ r.result = run[w].result /\ r.left = run[w].left
    <3> DEFINE q == [run[w] EXCEPT !.pc = "checked"]
    <3>1. /\ q \in Run /\ q.pc = "checked" /\ q.seen = run[w].seen /\ q.plan = run[w].plan
          /\ q.consumed = run[w].consumed /\ q.result = run[w].result /\ q.left = run[w].left
      BY <1>3 DEF Run
    <3>2. Become(w, q) BY <2>1
    <3> HIDE DEF q
    <3> QED BY <3>1, <3>2
  <2>3. ~Pending /\ Whole BY <1>1, <1>4 DEF Tidy, Clears
  <2>4. r.seen.files = files BY <1>4, <2>2 DEF Revision
  <2>5. /\ PlanOK(r.plan) /\ CleanOf(purged, r.plan.raw)
        /\ r.result \in Results(r.seen, r.plan, r.consumed) /\ r.left = LeftOut(r.seen, r.result)
    BY <1>1, <1>4, <2>2 DEF Honest, Backed
  <2>6. r.plan \in Plan /\ r.consumed \in SUBSET Notes BY DEF Run
  <2>7. Merges(r.result, r.consumed, r.left) /\ CleanOf(purged, r.result)
    BY <2>3, <2>4, <2>5, <2>6, AnswerMerges DEF Honest
  <2>8. run'[w] = r BY <2>2, WriterFacts, BecomeType
  <2>9. UNCHANGED <<stage, notes, purged, forgotten>> BY <1>1 DEF table, history
  <2>10. Vouched' BY <1>2, VouchedKept DEF Honest, Silent, Quiet
  <2>11. Merges(r.result, r.consumed, r.left)' BY <2>7, <2>9 DEF Merges, Keeps
  <2>12. Backed(w)' BY <2>2, <2>5, <2>7, <2>8, <2>9, <2>11 DEF Backed, Advancing, Unwritten, CleanOf
  <2> QED BY <1>2, <2>2, <2>10, <2>12, HonestStep
<1>5. CASE ~(lease.owner = w /\ run[w].seen = Revision)
  <2>1. GiveUp(w) BY <1>5 DEF Check
  <2> QED BY <1>2, <2>1, GivesUpHonest
<1> QED BY <1>4, <1>5

LEMMA PrepareHonest ==
    ASSUME WriterInv, Tidy, Honest, NEW w \in Writers, Prepare(w)
    PROVE  Honest'
<1>1. run[w].pc = "checked" /\ UNCHANGED <<files, table, lease, counters, history>>
  BY DEF Prepare
<1>2. ~Pending /\ Follows(files, run[w].seen.files, "memory") BY <1>1 DEF Tidy, Clears
<1>3. PICK after \in Contents, r \in Run :
             /\ Publish(w, "commit", after, r)
             /\ r.plan = run[w].plan /\ r.consumed = run[w].consumed /\ r.left = run[w].left
             /\ after["baseMemory"] = Merged(w) /\ after["memory"] = Merged(w)
             /\ after["baseRaw"] = run[w].plan.raw /\ after["raw"] = run[w].plan.raw
  BY Prepared
<1>4. Owns(w) BY <1>1, WriterFacts DEF Owns, Held, Holding
<1>5. UNCHANGED <<files, table, history>> BY <1>1
<1>6. /\ PlanOK(r.plan) /\ CleanOf(purged, r.plan.raw)
      /\ Merges(run[w].result, r.consumed, r.left) /\ CleanOf(purged, run[w].result)
  BY <1>1, <1>3, <1>4 DEF Honest, Backed, Owns
<1>7. r.consumed \in SUBSET Notes BY DEF Run
<1>8. CleanOf(purged, files["memory"]) BY <1>2 DEF Honest, Vouched, Clean, Targets
<1>9. Merges(Merged(w), r.consumed, r.left) /\ CleanOf(purged, Merged(w))
  <2>1. CASE run[w].result = run[w].seen.files["memory"]
    <3>1. Merged(w) = files["memory"] BY <2>1 DEF Merged
    <3>2. run[w].result \subseteq files["memory"] BY <1>2, <2>1 DEF Follows
    <3> QED BY <1>6, <1>7, <1>8, <3>1, <3>2, MergesMore
  <2>2. CASE run[w].result # run[w].seen.files["memory"] BY <1>6, <2>2 DEF Merged
  <2> QED BY <2>1, <2>2
<1>10. Clean(after) BY <1>3, <1>6, <1>9 DEF Clean, Targets
<1>11. Merges(after["memory"], r.consumed, r.left) /\ after["raw"] = r.plan.raw BY <1>3, <1>9
<1> QED BY <1>2, <1>3, <1>4, <1>5, <1>6, <1>10, <1>11, PublishHonest

\* The transaction acknowledges what its documents have.
LEMMA TransactHonest ==
    ASSUME WriterInv, Tidy, Honest, NEW w \in Writers, NEW kind \in {"commit", "purge"},
           run[w].pc = "committing", run[w].kind = kind,
           marker' = Newest.id, Commits, UNCHANGED <<files, generations, lease>>,
           Become(w, [Idle EXCEPT !.kind = kind, !.pc = "marking"]),
           purged' \in SUBSET Rows, \A r \in purged' : stage'[r].status = "absent",
           Keeps(Gen.after["memory"], forgotten)', Clean(Gen.after)'
    PROVE  Honest'
<1>1. /\ Winner' = Gen.after /\ Gen' = Gen /\ Pending'
      /\ committed'.memory = Gen.after["memory"] /\ committed'.raw = Gen.after["raw"]
  BY Transacts
<1>2. lease.owner = w /\ ~lease.out BY OwnGen DEF Advancing
<1>3. kind \in {"sync", "commit", "purge"} OBVIOUS
<1>4. Idle.plan = NoPlan BY DEF Idle
<1>5. PICK r \in Run : /\ r = [Idle EXCEPT !.kind = kind, !.pc = "marking"] /\ r.pc = "marking"
                       /\ r.plan = NoPlan
  BY <1>3, <1>4, MarkingType
<1>6. Become(w, r) BY <1>5
<1>7. run'[w] = r BY <1>6, WriterFacts, BecomeType
<1>8. Owns(w) BY <1>2 DEF Owns
<1>9. Keeps(committed.memory, forgotten)' BY <1>1 DEF Keeps
<1>10. Clean(Winner)' BY <1>1 DEF Clean, CleanOf
<1>11. Vouched' BY <1>1, <1>9, <1>10 DEF Vouched
<1>12. Backed(w)'
  <2>1. PlanOK(NoPlan) /\ CleanOf(purged', NoPlan.raw) BY NoPlanHonest DEF CleanOf, NoPlan
  <2> QED BY <1>5, <1>7, <2>1 DEF Backed, Advancing, Unwritten, CleanOf
<1> QED BY <1>6, <1>8, <1>11, <1>12, HonestStep

LEMMA CommitHonest ==
    ASSUME WriterInv, Tidy, Honest, NEW w \in Writers, Commit(w)
    PROVE  Honest'
<1> DEFINE p == run[w].plan
           m == Gen.after["memory"]
<1>1. /\ run[w].pc = "committing" /\ run[w].kind = "commit" /\ marker' = Newest.id /\ Commits
      /\ UNCHANGED <<files, generations, lease, purged>>
      /\ Become(w, [Idle EXCEPT !.kind = "commit", !.pc = "marking"])
      /\ notes' = [n \in Notes |-> IF n \in run[w].consumed THEN "applied" ELSE notes[n]]
      /\ stage' = Recycled(Integrated(p)) /\ forgotten' = forgotten \cup run[w].left
  BY DEF Commit
<1>2. Merges(m, run[w].consumed, run[w].left) /\ Clean(Gen.after)
  BY <1>1 DEF Honest, Backed, Advancing, Unwritten
<1>3. Gen' = Gen BY <1>1 DEF Gen
<1>4. WriterTypes BY WriterFacts
<1>5. Integrated(p) \in [Rows -> StageRow] BY <1>4, IntegratedType
<1>6. ASSUME NEW r \in Rows
      PROVE  /\ stage'[r].status = Integrated(p)[r].status \/ stage'[r].status = "absent"
             /\ Integrated(p)[r].status = "absent" <=> stage[r].status = "absent"
  BY <1>1, <1>4, <1>5, RecycledType, IntegratedType
<1> HIDE DEF p, m
<1>7. ASSUME NEW n \in Notes \ forgotten', notes'[n] = "applied" PROVE NoteFact(n) \in m
  BY <1>1, <1>2, <1>7 DEF Merges, Keeps
<1>8. Keeps(Gen.after["memory"], forgotten)' BY <1>3, <1>7 DEF Keeps, m
<1>9. Clean(Gen.after)' BY <1>1, <1>2, <1>3 DEF Clean, CleanOf
<1>10. ASSUME NEW r \in purged' PROVE stage'[r].status = "absent"
  <2>1. r \in Rows /\ stage[r].status = "absent" BY <1>1, WriterFacts DEF Honest, Vouched, Stored
  <2> QED BY <1>6, <2>1
<1>11. purged' \in SUBSET Rows BY <1>1, WriterFacts DEF Stored
<1> QED BY <1>1, <1>8, <1>9, <1>10, <1>11, TransactHonest

----------------------------------------------------------------------------
(***************************************************************************)
(* Hard purge                                                              *)
(***************************************************************************)
LEMMA PreparePurgeHonest ==
    ASSUME WriterInv, Tidy, Honest, NEW w \in Writers, PreparePurge(w)
    PROVE  Honest'
<1>1. run[w].pc = "planning" /\ UNCHANGED <<files, table, lease, counters, history>>
      /\ run[w].row # NoRow
  BY DEF PreparePurge
<1>2. ~Pending /\ Whole /\ Vouched BY <1>1 DEF Tidy, Clears, Honest
<1>3. CASE stage[run[w].row].status = "absent"
  <2>1. GiveUp(w) /\ UNCHANGED generations BY <1>3 DEF PreparePurge
  <2>2. Silent(w) BY <1>1, <2>1 DEF Silent, Quiet, table, history
  <2> QED BY <2>1, <2>2, GivesUpHonest
<1>4. CASE stage[run[w].row].status # "absent"
  <2>1. PICK given \in SUBSET Rebuildable(run[w].row) :
          Publish(w, "purge", PurgedFiles(run[w].row, given), run[w])
    BY <1>4 DEF PreparePurge
  <2> DEFINE r == run[w].row
             after == PurgedFiles(r, given)
             before == files["memory"] \ FactsOf(r)
             raw == PurgedRaw(r)
             m == PurgedMemory(r, given)
             said == {NoteFact(n) : n \in {k \in Notes : notes[k] = "applied"}}
  <2>2. run[w] \in Run /\ r \in Rows BY <1>1, WriterFacts DEF Run
  <2>3. /\ after \in Contents /\ raw \subseteq files["raw"]
        /\ after["baseMemory"] = m /\ after["memory"] = m
        /\ after["baseRaw"] = raw /\ after["raw"] = raw
    BY PurgedFilesAre
  <2>4. Owns(w) BY <1>1, WriterFacts DEF Owns, Held, Holding
  <2>5. UNCHANGED <<files, table, history>> BY <1>1
  <2>6. Keeps(files["memory"], forgotten) /\ Clean(files) BY <1>2, FilesKeep
  <2>7. before \subseteq m /\ m \subseteq before \cup given BY DEF PurgedMemory, Ingested
  <2>8. given \subseteq raw \cup said BY DEF Rebuildable
  <2>9. \A f \in raw : f[1] # r BY DEF PurgedRaw
  <2>10. \A q \in Rows : FactsOf(q) \cap said = {} BY NoteIsNoRow
  <2>11. \A n \in Notes : NoteFact(n) \in files["memory"] => NoteFact(n) \in before
    BY <2>2, NoteIsNoRow
  <2>12. before = files["memory"] \ FactsOf(r) OBVIOUS
  <2>13. PlanOK(run[w].plan) /\ CleanOf(purged, run[w].plan.raw)
    BY <2>4 DEF Honest, Backed, Owns
  <2> HIDE DEF r, after, before, raw, m, said
  <2>14. Keeps(m, forgotten) BY <2>6, <2>7, <2>11 DEF Keeps
  <2>15. FactsOf(r) \cap raw = {} /\ FactsOf(r) \cap m = {}
    <3>1. FactsOf(r) \cap raw = {} BY <2>2, <2>9, FactParts
    <3> QED BY <2>2, <2>7, <2>8, <2>10, <2>12, <3>1
  <2>16. ASSUME NEW q \in purged PROVE FactsOf(q) \cap raw = {} /\ FactsOf(q) \cap m = {}
    <3>1. q \in Rows /\ FactsOf(q) \cap files["memory"] = {} /\ FactsOf(q) \cap files["raw"] = {}
      BY <2>6, WriterFacts DEF Clean, CleanOf, Targets, Stored
    <3> QED BY <2>3, <2>7, <2>8, <2>10, <2>12, <3>1
  <2>17. Clean(after) BY <2>3, <2>16 DEF Clean, CleanOf, Targets
  <2>18. \A t \in Targets : CleanOf({r}, after[t]) BY <2>3, <2>15 DEF CleanOf, Targets
  <2>19. Publish(w, "purge", after, run[w]) BY <2>1 DEF after, r
  <2>20. /\ Keeps(after["memory"], forgotten)
         /\ \A t \in Targets : CleanOf({run[w].row}, after[t])
    BY <2>3, <2>14, <2>18 DEF r
  <2> QED BY <1>2, <2>2, <2>3, <2>4, <2>5, <2>13, <2>17, <2>19, <2>20, PublishHonest
<1> QED BY <1>3, <1>4

LEMMA CommitPurgeHonest ==
    ASSUME WriterInv, Tidy, Honest, NEW w \in Writers, CommitPurge(w)
    PROVE  Honest'
<1>1. /\ run[w].pc = "committing" /\ run[w].kind = "purge"
      /\ UNCHANGED <<files, notes, generations, lease, forgotten>>
  BY DEF CommitPurge
<1>2. CASE stage[run[w].row].status = "absent"
  <2>1. Become(w, Recovering(Idle, marker, "releasing")) /\ UNCHANGED <<stage, marker, history>>
    BY <1>1, <1>2 DEF CommitPurge, history
  <2>2. marker \in GenIds \cup {NoGen} /\ WriterTypes BY WriterFacts DEF Stored
  <2>3. Idle.row = NoRow BY DEF Idle
  <2>4. PICK r \in Run : /\ r = Recovering(Idle, marker, "releasing")
                         /\ r.pc = "recovering" /\ r.plan = NoPlan
    BY <2>2, <2>3, RecoveringType
  <2>5. Become(w, r) BY <2>1, <2>4
  <2>6. Silent(w) BY <1>1, <2>1 DEF Silent, Quiet, history
  <2> QED BY <2>4, <2>5, <2>6, MovesHonest DEF Advancing
<1>3. CASE stage[run[w].row].status # "absent"
  <2>1. run[w].row \in Rows BY <1>1, WriterFacts DEF Founded
  <2>2. PICK r \in Rows : r = run[w].row BY <2>1
  <2>3. /\ marker' = Newest.id /\ Commits /\ purged' = purged \cup {r}
        /\ stage' = [stage EXCEPT ![r] = [NoStage EXCEPT !.version = stage[r].version]]
        /\ Become(w, [Idle EXCEPT !.kind = "purge", !.pc = "marking"])
    BY <1>3, <2>2 DEF CommitPurge
  <2>4. stage'[r].status = "absent" /\ \A q \in Rows \ {r} : stage'[q] = stage[q]
    BY <2>3, WriterFacts DEF NoStage
  <2>5. /\ Clean(Gen.after) /\ Keeps(Gen.after["memory"], forgotten)
        /\ \A t \in Targets : CleanOf({r}, Gen.after[t])
    BY <1>1, <2>2 DEF Honest, Backed, Advancing, Unwritten
  <2>6. Gen' = Gen BY <1>1 DEF Gen
  <2>7. Keeps(Gen.after["memory"], forgotten)' BY <1>1, <2>5, <2>6 DEF Keeps
  <2>8. Clean(Gen.after)' BY <2>3, <2>5, <2>6 DEF Clean, CleanOf
  <2>9. purged' \in SUBSET Rows BY <2>3, WriterFacts DEF Stored
  <2>10. \A q \in purged' : stage'[q].status = "absent"
    BY <2>3, <2>4, WriterFacts DEF Honest, Vouched, Stored
  <2> QED BY <1>1, <2>3, <2>7, <2>8, <2>9, <2>10, TransactHonest
<1> QED BY <1>2, <1>3

----------------------------------------------------------------------------
(***************************************************************************)
(* Everybody else                                                          *)
(***************************************************************************)
\* A step outside the generations by which SQLite acknowledges nothing new,
\* purged rows stay away, and files stay clean.
LEMMA AsideHonest ==
    ASSUME WriterInv, Honest, UNCHANGED <<generations, marker, committed, run, forgotten>>,
           lease'.owner = lease.owner,
           \A n \in Notes : notes'[n] = "applied" => notes[n] = "applied",
           purged' \subseteq purged, \A r \in purged' : stage'[r].status = "absent",
           Clean(files) => Clean(files')
    PROVE  Honest'
<1>1. /\ \A m : Keeps(m, forgotten) => Keeps(m, forgotten)'
      /\ \A m, consumed, left : Merges(m, consumed, left) => Merges(m, consumed, left)'
  BY KeepsStill
<1>2. Gen' = Gen /\ Winner' = Winner /\ Pending' = Pending
  BY DEF Gen, Winner, Side, Forward, Pending
<1>3. ASSUME NEW c, Clean(c) PROVE Clean(c)' BY <1>3 DEF Clean, CleanOf
<1>4. Vouched'
  <2>1. Keeps(committed.memory, forgotten)' BY <1>1 DEF Honest, Vouched, Keeps
  <2>2. ~Pending => Clean(files)' BY DEF Honest, Vouched, Clean, CleanOf
  <2>3. Pending => Clean(Winner)' BY <1>2 DEF Honest, Vouched, Clean, CleanOf
  <2> QED BY <1>2, <2>1, <2>2, <2>3 DEF Vouched
<1>5. ASSUME NEW w \in Writers PROVE Backed(w)'
  <2>1. Backed(w) /\ run'[w] = run[w] BY DEF Honest
  <2>2. /\ Clean(Gen.after) => Clean(Gen.after)'
        /\ CleanOf(purged, run[w].plan.raw) => CleanOf(purged, run[w].plan.raw)'
        /\ CleanOf(purged, run[w].result) => CleanOf(purged, run[w].result)'
    BY <1>2, <2>1 DEF Clean, CleanOf
  <2>3. /\ Merges(run[w].result, run[w].consumed, run[w].left) =>
             Merges(run[w].result, run[w].consumed, run[w].left)'
        /\ Merges(Gen.after["memory"], run[w].consumed, run[w].left) =>
             Merges(Gen.after["memory"], run[w].consumed, run[w].left)'
        /\ Keeps(Gen.after["memory"], forgotten) => Keeps(Gen.after["memory"], forgotten)'
    BY <1>2, <2>1 DEF Merges, Keeps
  <2> QED BY <1>2, <2>1, <2>2, <2>3 DEF Backed
<1> QED BY <1>4, <1>5 DEF Honest

LEMMA EditHonest ==
    ASSUME WriterInv, Honest, Edit
    PROVE  Honest'
<1> DEFINE line == <<User, edits + 1>>
<1>1. edits + 1 \in 1..MaxEdits BY WriterFacts, BoundAssumption DEF Edit, Stored
<1>2. line \in UserFacts BY <1>1 DEF UserFacts
<1>3. files' = [files EXCEPT !["memory"] = files["memory"] \cup {line}] BY DEF Edit
<1> HIDE DEF line
<1>4. \A t \in Targets : Follows(files', files, t)
  BY <1>2, <1>3, WriterFacts DEF Follows, Stored, Contents, Targets
<1>5. purged \in SUBSET Rows BY WriterFacts DEF Stored
<1>6. Clean(files) => Clean(files') BY <1>4, <1>5, FollowsClean
<1>7. UNCHANGED <<generations, marker, committed, run, lease, stage, notes, purged, forgotten>>
  BY DEF Edit, table, history
<1> QED BY <1>6, <1>7, AsideHonest DEF Honest, Vouched

LEMMA OutsidersHonest ==
    ASSUME WriterInv, Honest, Outsiders
    PROVE  Honest'
<1>1. CASE Edit BY <1>1, EditHonest
<1>0. stage \in [Rows -> StageRow] /\ purged \in SUBSET Rows
      /\ \A r \in purged : stage[r].status = "absent"
  BY WriterFacts DEF Honest, Vouched, Stored
<1>2. ASSUME NEW r \in Rows, Upsert(r) PROVE Honest'
  <2>1. /\ UNCHANGED <<files, notes, marker, generations, lease, run, committed, forgotten>>
        /\ purged' = purged \ {r}
        /\ \E aged \in {FALSE, stage[r].aged} :
             stage' = [stage EXCEPT ![r] = [status |-> "pending", version |-> @.version + 1,
                                            ever |-> FALSE, aged |-> aged]]
    BY <1>2 DEF Upsert
  <2>2. stage'[r].status = "pending" /\ \A q \in Rows \ {r} : stage'[q] = stage[q]
    BY <1>0, <2>1
  <2>3. \A q \in purged' : stage'[q].status = "absent" BY <1>0, <2>1, <2>2
  <2> QED BY <2>1, <2>3, AsideHonest
<1>3. ASSUME NEW r \in Rows, Age(r) PROVE Honest'
  <2>1. /\ UNCHANGED <<files, notes, marker, generations, lease, run, history>>
        /\ stage' = [stage EXCEPT ![r].aged = TRUE]
    BY <1>3 DEF Age
  <2>2. \A q \in Rows : stage'[q].status = stage[q].status BY <1>0, <2>1 DEF StageRow
  <2> QED BY <1>0, <2>1, <2>2, AsideHonest DEF history
<1>4. ASSUME NEW n \in Notes, AddNote(n) PROVE Honest'
  <2>1. /\ notes' = [notes EXCEPT ![n] = "pending"]
        /\ UNCHANGED <<files, stage, marker, generations, lease, run, history>>
    BY <1>4 DEF AddNote
  <2>2. \A k \in Notes : notes'[k] = "applied" => notes[k] = "applied"
    BY <2>1, WriterFacts DEF Stored
  <2> QED BY <1>0, <2>1, <2>2, AsideHonest DEF history
<1>5. CASE EntryPrune
  <2>1. /\ stage' = Recycled(stage)
        /\ UNCHANGED <<files, notes, marker, generations, lease, run, history>>
    BY <1>5 DEF EntryPrune
  <2>2. \A q \in Rows : stage'[q] = stage[q] \/ stage'[q].status = "absent"
    BY <1>0, <2>1, RecycledType
  <2> QED BY <1>0, <2>1, <2>2, AsideHonest DEF history
<1>6. CASE Expire
  <2>1. lease'.owner = lease.owner BY <1>6, WriterFacts DEF Expire, Leases
  <2>2. UNCHANGED <<files, table, generations, run, history>> BY <1>6 DEF Expire
  <2> QED BY <1>0, <2>1, <2>2, AsideHonest DEF table, history
<1> QED BY <1>1, <1>2, <1>3, <1>4, <1>5, <1>6 DEF Outsiders

LEMMA RestHonest ==
    ASSUME WriterInv, Honest, NEW w \in Writers,
           Contend(w) \/ Abandon(w) \/ Release(w) \/ Crash(w) \/ RenewTimer(w)
    PROVE  Honest'
<1>1. CASE Contend(w)
  <2>1. GiveUp(w) /\ Silent(w) BY <1>1 DEF Contend, Silent, Quiet, table, history
  <2> QED BY <2>1, GivesUpHonest
<1>2. CASE Abandon(w)
  <2>1. GiveUp(w) /\ Silent(w) BY <1>2 DEF Abandon, Silent, Quiet, table, history
  <2> QED BY <2>1, GivesUpHonest
<1>3. Idle \in Run /\ Idle.pc = "idle" /\ Idle.plan = NoPlan BY IdleType DEF Idle
<1>4. CASE Release(w)
  <2>1. Become(w, Idle) /\ Silent(w) BY <1>4 DEF Release, Silent, Quiet, table, history
  <2> QED BY <1>3, <2>1, MovesHonest DEF Advancing
<1>5. CASE Crash(w)
  <2>1. Become(w, Idle) /\ Silent(w) BY <1>5 DEF Crash, Silent, Quiet, table, history
  <2> QED BY <1>3, <2>1, MovesHonest DEF Advancing
<1>6. CASE RenewTimer(w)
  <2>1. lease'.owner = lease.owner BY <1>6, WriterFacts DEF RenewTimer, Leases
  <2>2. UNCHANGED <<files, table, generations, run, history>> BY <1>6 DEF RenewTimer
  <2>3. \A r \in purged : stage[r].status = "absent" BY DEF Honest, Vouched
  <2> QED BY <2>1, <2>2, <2>3, AsideHonest DEF table, history
<1> QED BY <1>1, <1>2, <1>4, <1>5, <1>6

LEMMA HonestNext ==
    ASSUME WriterInv, Tidy, Honest, [Next]_vars, ~Skips
    PROVE  Honest'
<1>1. CASE UNCHANGED vars
  <2>1. \A r \in purged : stage[r].status = "absent" BY DEF Honest, Vouched
  <2> QED BY <1>1, <2>1, AsideHonest DEF vars
<1>2. CASE Outsiders BY <1>2, OutsidersHonest
<1>3. ASSUME NEW w \in Writers, Writer(w) PROVE Honest'
  <2>1. CASE \E r \in Purgeable \cup {NoRow} : Acquire(w, r) BY <2>1, AcquireHonest
  <2>2. CASE RenewTimer(w) \/ Throws(w) \/ Abandon(w) \/ Crash(w)
    BY <2>2, RestHonest, ThrowsHonest
  <2>3. CASE RecoverTarget(w) \/ RecoverDiscard(w) \/ RecoverDone(w)
             \/ ApplyTarget(w) \/ Mark(w) \/ Discard(w)
    BY <2>3, RecoverTargetHonest, RecoverDiscardHonest, RecoverDoneHonest, ApplyTargetHonest,
       MarkHonest, DiscardHonest
  <2>4. CASE Look(w) \/ PlanAndSync(w) \/ Contend(w) \/ Ask(w) \/ ProviderReturns(w)
    BY <2>4, LookHonest, PlanAndSyncHonest, RestHonest, AskHonest, ProviderReturnsHonest
  <2>5. CASE Check(w) \/ Prepare(w) \/ Commit(w) \/ PreparePurge(w) \/ CommitPurge(w) \/ Release(w)
    BY <2>5, CheckHonest, PrepareHonest, CommitHonest, PreparePurgeHonest, CommitPurgeHonest,
       RestHonest
  <2>6. ~RecoverSkip(w) BY DEF Skips
  <2> QED BY <1>3, <2>1, <2>2, <2>3, <2>4, <2>5, <2>6 DEF Writer, Works
<1> QED BY <1>1, <1>2, <1>3 DEF Next

LEMMA HonestInit == Init => Honest
<1> SUFFICES ASSUME Init PROVE Honest OBVIOUS
<1>1. ~Pending /\ purged = {} BY DEF Init, Pending
<1>2. Keeps(committed.memory, forgotten) BY DEF Init, Keeps
<1>3. Clean(files) BY <1>1 DEF Clean, CleanOf
<1>4. Vouched BY <1>1, <1>2, <1>3 DEF Vouched
<1>5. \A w \in Writers : run[w].pc = "idle" /\ run[w].plan = NoPlan BY DEF Init, Idle
<1>6. \A w \in Writers : Backed(w)
  BY <1>5, NoPlanHonest DEF Backed, Advancing, Unwritten
<1> QED BY <1>4, <1>6 DEF Honest

----------------------------------------------------------------------------
(***************************************************************************)
(* The theorems                                                            *)
(***************************************************************************)
\* As long as no recovery is skipped, the workspace is tidy and honest.
WorkspaceInv == WriterInv /\ (skips = 0 => Tidy /\ Honest)

LEMMA WorkspaceInvHolds == PlansAwake => (Spec => []WorkspaceInv)
<1>1. ASSUME PlansAwake PROVE Spec => []WorkspaceInv
  <2>1. Init => WorkspaceInv BY WriterInit, TidyInit, HonestInit DEF WorkspaceInv
  <2>2. WorkspaceInv /\ [Next]_vars => WorkspaceInv'
    <3> SUFFICES ASSUME WorkspaceInv, [Next]_vars
                 PROVE  WriterInv' /\ (skips' = 0 => Tidy' /\ Honest')
      BY DEF WorkspaceInv
    <3>1. WriterInv' BY <1>1, WriterInvStep DEF WorkspaceInv
    <3>2. skips' = 0 => Tidy' /\ Honest'
      BY NoneSkipped, TidyNext, HonestNext DEF WorkspaceInv
    <3> QED BY <3>1, <3>2
  <2> QED BY <2>1, <2>2, PTL DEF Spec
<1> QED BY <1>1

LEMMA HonestView ==
    ASSUME WriterInv, Tidy, Honest
    PROVE  ConsumedIsWritten /\ PurgedStaysGone
<1>1. Agrees(View) /\ Whole BY ViewAgrees DEF Tidy
<1>2. View["memory"] \ UserFacts = committed.memory \ UserFacts BY <1>1 DEF Agrees
<1>3. \A n \in Notes : NoteFact(n) \in View["memory"] <=> NoteFact(n) \in committed.memory
  BY <1>2, UserCitesNothing
<1>4. ConsumedIsWritten BY <1>3 DEF ConsumedIsWritten, Honest, Vouched, Keeps
<1>5. Clean(View)
  <2>1. CASE ~Pending
    BY <1>1, <2>1, ViewFollows DEF Honest, Vouched, Clean
  <2>2. CASE Pending
    BY <1>1, <2>2, ViewFollows, FollowsClean, WriterFacts DEF Honest, Vouched, Stored
  <2> QED BY <2>1, <2>2
<1> QED BY <1>4, <1>5 DEF Clean, CleanOf, PurgedStaysGone

\* A note that counts as applied is in MEMORY.md or will be once recovered,
\* unless an answer left it out, until a recovery fails and is skipped.
THEOREM ConsumedUnlessSkipped ==
    PlansAwake => (Spec => [](skips = 0 => ConsumedIsWritten))
<1>1. WorkspaceInv => (skips = 0 => ConsumedIsWritten) BY HonestView DEF WorkspaceInv
<1> QED BY <1>1, WorkspaceInvHolds, PTL

\* No file has anything of a purged rollout, nor will it by a recovery, until
\* a recovery fails and is skipped.
THEOREM PurgedUnlessSkipped ==
    PlansAwake => (Spec => [](skips = 0 => PurgedStaysGone))
<1>1. WorkspaceInv => (skips = 0 => PurgedStaysGone) BY HonestView DEF WorkspaceInv
<1> QED BY <1>1, WorkspaceInvHolds, PTL

\* Where every recovery succeeds both are so for good.
THEOREM ConsumedHolds ==
    PlansAwake /\ MaxSkips = 0 => (Spec => []ConsumedIsWritten)
<1>1. ASSUME MaxSkips = 0, PlansAwake PROVE Spec => []ConsumedIsWritten
  <2>1. WorkspaceInv => skips = 0 BY <1>1, WriterFacts DEF Stored, WorkspaceInv
  <2>2. Spec => []WorkspaceInv BY <1>1, WorkspaceInvHolds
  <2>3. Spec => [](skips = 0 => ConsumedIsWritten) BY <1>1, ConsumedUnlessSkipped
  <2> QED BY <2>1, <2>2, <2>3, PTL
<1> QED BY <1>1

\* Nothing of a purged row comes back, where every recovery succeeds.
THEOREM PurgedHolds ==
    PlansAwake /\ MaxSkips = 0 => (Spec => []PurgedStaysGone)
<1>1. ASSUME MaxSkips = 0, PlansAwake PROVE Spec => []PurgedStaysGone
  <2>1. WorkspaceInv => skips = 0 BY <1>1, WriterFacts DEF Stored, WorkspaceInv
  <2>2. Spec => []WorkspaceInv BY <1>1, WorkspaceInvHolds
  <2>3. Spec => [](skips = 0 => PurgedStaysGone) BY <1>1, PurgedUnlessSkipped
  <2> QED BY <2>1, <2>2, <2>3, PTL
<1> QED BY <1>1

----------------------------------------------------------------------------
(***************************************************************************)
(* Seen through recovery, files and SQLite change together                 *)
(***************************************************************************)
ViewRight ==
    \A t \in Targets : View[t] = IF Pending /\ t \in Gen.touched THEN Winner[t] ELSE files[t]

\* What recovery would leave before a step, and after it.
LEMMA ViewIsNext ==
    WriterInv' /\ Tidy' =>
        \A t \in Targets : View'[t] = IF Pending' /\ t \in Gen'.touched THEN Winner'[t] ELSE files'[t]
<1>1. WriterInv /\ Tidy => ViewRight BY ViewIs DEF ViewRight, Tidy
<1>2. WriterInv' /\ Tidy' => ViewRight' BY <1>1, PTL
<1> QED BY <1>2 DEF ViewRight

LEMMA AgreesNext == WriterInv' /\ Tidy' => Agrees(View)'
<1>1. WriterInv /\ Tidy => Agrees(View) BY ViewAgrees DEF Tidy
<1> QED BY <1>1, PTL

LEMMA ViewKept ==
    ASSUME UNCHANGED <<files, generations, marker>> PROVE View' = View
BY DEF View, Side, Forward

Selected == {r \in Rows : stage[r].status = "selected"}
AppliedNotes == {n \in Notes : notes[n] = "applied"}

\* A step that changes no document and acknowledges nothing.
LEMMA Renews ==
    ASSUME \A t \in Targets : View'[t] = View[t],
           AppliedNotes' = AppliedNotes, Selected' \subseteq Selected
    PROVE  Atomic!Next
<1>1. Atomic!Renew BY DEF Atomic!Renew, Selected, AppliedNotes, Targets
<1> QED BY <1>1 DEF Atomic!Next

LEMMA Rests ==
    ASSUME UNCHANGED <<files, generations, marker, stage, notes>>
    PROVE  Atomic!Next
<1>1. \A t \in Targets : View'[t] = View[t] BY ViewKept
<1> QED BY <1>1, Renews DEF Selected, AppliedNotes

\* A step that replaces files by what the manifest wants anyway.
LEMMA Replaces ==
    ASSUME WriterInv, Tidy, WriterInv', Tidy', Pending,
           UNCHANGED <<generations, marker, stage, notes>>,
           \A t \in Targets \ Gen.touched : files'[t] = files[t]
    PROVE  Atomic!Next
<1>1. Gen' = Gen /\ Winner' = Winner /\ Pending'
  BY DEF Gen, Winner, Side, Forward, Pending
<1>2. ASSUME NEW t \in Targets PROVE View'[t] = View[t]
  <2>1. View[t] = IF Pending /\ t \in Gen.touched THEN Winner[t] ELSE files[t]
    BY ViewIs DEF Tidy
  <2>2. View'[t] = IF Pending' /\ t \in Gen'.touched THEN Winner'[t] ELSE files'[t]
    BY ViewIsNext
  <2> QED BY <1>1, <2>1, <2>2
<1> QED BY <1>2, Renews DEF Selected, AppliedNotes

LEMMA RecoverTargetRefines ==
    ASSUME WriterInv, Tidy, WriterInv', Tidy', NEW w \in Writers, RecoverTarget(w)
    PROVE  Atomic!Next
<1> DEFINE t == First(run[w].todo)
<1>1. run[w].pc = "recovering" /\ run[w].todo # {} BY DEF RecoverTarget
<1>2. run[w].todo \in SUBSET Targets BY WriterFacts DEF Run
<1>3. t \in run[w].todo BY <1>1, <1>2, FirstInTodo
<1>4. Pending /\ t \in Gen.touched BY <1>1, <1>3 DEF Tidy, Recovers
<1>5. files' = [files EXCEPT ![t] = Side(Recovered(w), run[w].mark)[t]] BY DEF RecoverTarget
<1> HIDE DEF t
<1>6. \A u \in Targets \ Gen.touched : files'[u] = files[u]
  BY <1>4, <1>5, WriterFacts DEF Stored, Contents
<1>7. UNCHANGED <<generations, marker, stage, notes>> BY DEF RecoverTarget, table
<1> QED BY <1>4, <1>6, <1>7, Replaces

LEMMA ApplyTargetRefines ==
    ASSUME WriterInv, Tidy, WriterInv', Tidy', NEW w \in Writers, ApplyTarget(w)
    PROVE  Atomic!Next
<1> DEFINE t == First(run[w].todo)
<1>1. run[w].pc = "applying" BY DEF ApplyTarget
<1>2. Pending /\ Advances(w) BY <1>1, OwnGen DEF Advancing
<1>3. run[w].todo \in SUBSET Targets /\ run[w].todo # {} BY <1>1, WriterFacts DEF Run, Founded
<1>4. t \in Gen.touched BY <1>1, <1>2, <1>3, FirstInTodo DEF Advances, Advancing
<1>5. files' = [files EXCEPT ![t] = Newest.after[t]] BY DEF ApplyTarget
<1> HIDE DEF t
<1>6. \A u \in Targets \ Gen.touched : files'[u] = files[u]
  BY <1>4, <1>5, WriterFacts DEF Stored, Contents
<1>7. UNCHANGED <<generations, marker, stage, notes>> BY DEF ApplyTarget, table
<1> QED BY <1>2, <1>6, <1>7, Replaces

\* A manifest that is published changes nothing yet.
LEMMA PublishRefines ==
    ASSUME WriterInv, Tidy, WriterInv', Tidy', NEW w \in Writers,
           NEW kind \in {"sync", "commit", "purge"}, NEW after \in Contents, NEW r \in Run,
           Publish(w, kind, after, r), ~Pending, UNCHANGED <<files, table>>
    PROVE  Atomic!Next
<1>1. PICK g \in Generation, q \in Run :
             Manifest(after, g) /\ Become(w, q) /\ Follower(kind, r, g, q)
  BY PublishFacts
<1>2. marker' = marker /\ stage' = stage /\ notes' = notes BY DEF table
<1>3. Winner' = files BY <1>1, <1>2, Published
<1>4. ASSUME NEW t \in Targets PROVE View'[t] = View[t]
  <2>1. View[t] = files[t] BY ViewIs DEF Tidy
  <2>2. View'[t] = IF Pending' /\ t \in Gen'.touched THEN Winner'[t] ELSE files'[t]
    BY ViewIsNext
  <2> QED BY <1>3, <2>1, <2>2
<1> QED BY <1>2, <1>4, Renews DEF Selected, AppliedNotes

\* A step by which only the user's lines come in.
LEMMA Edits ==
    ASSUME \A t \in Targets : Follows(View', View, t), UNCHANGED <<stage, notes>>
    PROVE  Atomic!Next
<1> DEFINE lines == View'["memory"] \ View["memory"]
<1>1. /\ lines \in SUBSET UserFacts /\ View'["memory"] = View["memory"] \cup lines
      /\ View'["raw"] = View["raw"] /\ View'["baseMemory"] = View["baseMemory"]
      /\ View'["baseRaw"] = View["baseRaw"]
  BY DEF Follows, Targets
<1> HIDE DEF lines
<1>2. Atomic!Edit BY <1>1 DEF Atomic!Edit
<1> QED BY <1>2 DEF Atomic!Next

LEMMA EditRefines ==
    ASSUME WriterInv, Tidy, WriterInv', Tidy', Edit
    PROVE  Atomic!Next
<1> DEFINE line == <<User, edits + 1>>
<1>1. edits + 1 \in 1..MaxEdits BY WriterFacts, BoundAssumption DEF Edit, Stored
<1>2. line \in UserFacts BY <1>1 DEF UserFacts
<1>3. files' = [files EXCEPT !["memory"] = files["memory"] \cup {line}] BY DEF Edit
<1> HIDE DEF line
<1>4. \A t \in Targets : Follows(files', files, t)
  BY <1>2, <1>3, WriterFacts DEF Follows, Stored, Contents, Targets
<1>5. UNCHANGED <<generations, marker, stage, notes>> BY DEF Edit, table
<1>6. Gen' = Gen /\ Winner' = Winner /\ Pending' = Pending
  BY <1>5 DEF Gen, Winner, Side, Forward, Pending
<1>7. ASSUME NEW t \in Targets PROVE Follows(View', View, t)
  <2>1. View[t] = IF Pending /\ t \in Gen.touched THEN Winner[t] ELSE files[t]
    BY ViewIs DEF Tidy
  <2>2. View'[t] = IF Pending' /\ t \in Gen'.touched THEN Winner'[t] ELSE files'[t]
    BY ViewIsNext
  <2>3. CASE Pending /\ t \in Gen.touched
    <3>1. View'[t] = View[t] BY <1>6, <2>1, <2>2, <2>3
    <3> QED BY <3>1, FollowsSelf
  <2>4. CASE ~(Pending /\ t \in Gen.touched)
    <3>1. View'[t] = files'[t] /\ View[t] = files[t] BY <1>6, <2>1, <2>2, <2>4
    <3> QED BY <1>4, <3>1 DEF Follows
  <2> QED BY <2>3, <2>4
<1> QED BY <1>5, <1>7, Edits

\* A manifest that goes takes nothing along but lets the user's lines show.
LEMMA DropRefines ==
    ASSUME WriterInv, Tidy, WriterInv', Tidy', Pending, generations' = <<>>,
           UNCHANGED <<files, stage, notes>>, \A t \in Targets : Follows(files, Winner, t)
    PROVE  Atomic!Next
<1>1. ~Pending' BY DEF Pending
<1>2. ASSUME NEW t \in Targets PROVE Follows(View', View, t)
  <2>1. View[t] = IF Pending /\ t \in Gen.touched THEN Winner[t] ELSE files[t]
    BY ViewIs DEF Tidy
  <2>2. View'[t] = files[t] BY <1>1, ViewIsNext
  <2>3. CASE t \in Gen.touched
    <3>1. View[t] = Winner[t] /\ Follows(files, Winner, t) BY <2>1, <2>3
    <3> QED BY <2>2, <3>1 DEF Follows
  <2>4. CASE t \notin Gen.touched
    <3>1. View'[t] = View[t] BY <2>1, <2>2, <2>4
    <3> QED BY <3>1, FollowsSelf
  <2> QED BY <2>3, <2>4
<1> QED BY <1>2, Edits

LEMMA DiscardRefines ==
    ASSUME WriterInv, Tidy, WriterInv', Tidy', NEW w \in Writers, Discard(w)
    PROVE  Atomic!Next
<1>1. generations' = <<>> /\ Pending /\ \A t \in Targets : Follows(files, Winner, t) BY Discarded
<1>2. UNCHANGED <<files, stage, notes>> BY DEF Discard, table
<1> QED BY <1>1, <1>2, DropRefines

LEMMA RecoverDiscardRefines ==
    ASSUME WriterInv, Tidy, WriterInv', Tidy', NEW w \in Writers, RecoverDiscard(w)
    PROVE  Atomic!Next
<1>1. run[w].pc = "recovering" /\ run[w].todo = {} /\ run[w].skipped < Len(generations)
  BY DEF RecoverDiscard
<1>2. Recovers(w) /\ Whole /\ run[w].skipped = 0 BY <1>1 DEF Tidy, Recovers
<1>3. Pending
  <2>1. Len(<<>>) = 0 OBVIOUS
  <2> QED BY <1>1, <1>2, <2>1 DEF Pending
<1>4. generations' = <<>>
  <2>1. generations' = RemoveAt(generations, 1) BY <1>2 DEF RecoverDiscard
  <2> QED BY <1>2, <1>3, <2>1, OneGen
<1>5. \A t \in Targets : Follows(files, Winner, t) BY <1>1, <1>2, <1>3, Landed DEF Recovers
<1>6. UNCHANGED <<files, stage, notes>> BY DEF RecoverDiscard, table
<1> QED BY <1>3, <1>4, <1>5, <1>6, DropRefines

\* Marking a manifest refreshes the projection of the rows.
LEMMA MarkRefines ==
    ASSUME WriterInv, Tidy, WriterInv', Tidy', NEW w \in Writers, Mark(w)
    PROVE  Atomic!Next
<1>1. run[w].pc = "marking" /\ UNCHANGED <<files, marker, stage, notes>> BY DEF Mark, table
<1>2. /\ Pending /\ Advances(w) /\ Gen \in Generation
      /\ Gen.touched = Differing(Gen.before, Gen.after)
  BY <1>1, OwnGen DEF Advancing
<1>3. /\ Pending' /\ Gen'.touched = Gen.touched /\ Winner' = Gen.after BY Marked
<1>4. ASSUME NEW t \in Targets
      PROVE  /\ View[t] = IF t \in Gen.touched THEN Winner[t] ELSE files[t]
             /\ View'[t] = IF t \in Gen.touched THEN Gen.after[t] ELSE files[t]
  <2>1. View[t] = IF Pending /\ t \in Gen.touched THEN Winner[t] ELSE files[t]
    BY ViewIs DEF Tidy
  <2>2. View'[t] = IF Pending' /\ t \in Gen'.touched THEN Winner'[t] ELSE files'[t]
    BY ViewIsNext
  <2> QED BY <1>1, <1>2, <1>3, <2>1, <2>2
<1>5. \A t \in Targets \ {"raw"} : View'[t] = View[t]
  <2>1. CASE run[w].kind = "sync"
    <3>1. \A t \in Targets \ {"raw"} : t \notin Gen.touched
      BY <1>1, <1>2, <2>1 DEF Advances, Advancing, Differing
    <3> QED BY <1>4, <3>1
  <2>2. CASE run[w].kind # "sync"
    <3>1. marker = Gen.id BY <1>1, <1>2, <2>2 DEF Advances, Advancing
    <3>2. Winner = Gen.after BY <3>1 DEF Winner, Side, Forward
    <3> QED BY <1>4, <3>2
  <2> QED BY <2>1, <2>2
<1>6. View'["raw"] \in SUBSET Facts
  <2>1. Gen.after["raw"] \in SUBSET Facts BY <1>2 DEF Generation, Contents, Targets
  <2>2. files["raw"] \in SUBSET Facts BY WriterFacts DEF Stored, Contents, Targets
  <2> QED BY <1>4, <2>1, <2>2 DEF Targets
<1>7. Atomic!Sync BY <1>1, <1>5, <1>6 DEF Atomic!Sync, Targets
<1> QED BY <1>7 DEF Atomic!Next

\* A transaction rewrites everything at once.
LEMMA TransactRefines ==
    ASSUME WriterInv, Tidy, WriterInv', Tidy', NEW w \in Writers,
           NEW kind \in {"commit", "purge"},
           run[w].pc = "committing", run[w].kind = kind,
           marker' = Newest.id, Commits, UNCHANGED <<files, generations, lease>>,
           Become(w, [Idle EXCEPT !.kind = kind, !.pc = "marking"]),
           AppliedNotes \subseteq AppliedNotes',
           \A r \in Selected' \ Selected : Cited(r, Gen.after["raw"]),
           \A n \in AppliedNotes' \ AppliedNotes : NoteFact(n) \in Gen.after["memory"]
    PROVE  Atomic!Next
<1>1. /\ Winner' = Gen.after /\ Gen' = Gen /\ Pending' /\ Pending
      /\ committed'.memory = Gen.after["memory"] /\ committed'.raw = Gen.after["raw"]
      /\ \A t \in Targets : Follows(files, Gen.after, t)
  BY Transacts
<1>2. Gen \in Generation BY OwnGen DEF Advancing
<1>3. \A t \in Targets : View'[t] = IF t \in Gen.touched THEN Gen.after[t] ELSE files[t]
  BY <1>1, ViewIsNext
<1>4. /\ files["memory"] \in SUBSET Facts /\ files["raw"] = Gen.after["raw"]
      /\ Gen.after["memory"] \in SUBSET Facts /\ Gen.after["raw"] \in SUBSET Facts
  BY <1>1, <1>2, WriterFacts DEF Follows, Stored, Contents, Generation, Targets
<1>5. View'["memory"] \in SUBSET Facts /\ View'["raw"] = Gen.after["raw"]
  BY <1>3, <1>4 DEF Targets
<1>6. Agrees(View)' BY AgreesNext
<1>7. /\ View'["baseMemory"] \ UserFacts = View'["memory"] \ UserFacts
      /\ View'["baseRaw"] = View'["raw"]
      /\ View'["memory"] \ UserFacts = Gen.after["memory"] \ UserFacts
  BY <1>1, <1>5, <1>6 DEF Agrees
<1>8. Selected' \in SUBSET Rows /\ AppliedNotes' \subseteq Notes BY DEF Selected, AppliedNotes
<1>9. \A r \in Selected' \ Selected : FactsOf(r) \cap View'["baseRaw"] # {}
  BY <1>5, <1>7 DEF Cited
<1>10. \A n \in AppliedNotes' \ AppliedNotes : NoteFact(n) \in View'["memory"]
  BY <1>7, <1>8, UserCitesNothing
<1>11. Atomic!Rewrite
  BY <1>4, <1>5, <1>7, <1>8, <1>9, <1>10 DEF Atomic!Rewrite, Selected, AppliedNotes
<1> QED BY <1>11 DEF Atomic!Next

LEMMA CommitRefines ==
    ASSUME WriterInv, Tidy, Honest, WriterInv', Tidy', NEW w \in Writers,
           Commit(w) \/ CommitPurge(w)
    PROVE  Atomic!Next
<1>1. CASE Commit(w)
  <2> DEFINE p == run[w].plan
  <2>1. /\ run[w].pc = "committing" /\ run[w].kind = "commit" /\ marker' = Newest.id /\ Commits
        /\ UNCHANGED <<files, generations, lease>>
        /\ Become(w, [Idle EXCEPT !.kind = "commit", !.pc = "marking"])
        /\ notes' = [n \in Notes |-> IF n \in run[w].consumed THEN "applied" ELSE notes[n]]
        /\ stage' = Recycled(Integrated(p))
    BY <1>1 DEF Commit
  <2>2. AppliedNotes \subseteq AppliedNotes' /\ AppliedNotes' \ AppliedNotes \subseteq run[w].consumed
    BY <2>1 DEF AppliedNotes
  <2>3. /\ PlanOK(p) /\ Gen.after["raw"] = p.raw
        /\ \A n \in run[w].consumed : NoteFact(n) \in Gen.after["memory"]
    BY <2>1 DEF Honest, Backed, Unwritten, Merges
  <2>4. ASSUME NEW r \in Selected' \ Selected PROVE Cited(r, Gen.after["raw"])
    <3>1. r \in Rows /\ stage'[r].status = "selected" /\ stage[r].status # "selected"
      BY DEF Selected
    <3>2. Integrated(p) \in [Rows -> StageRow] BY WriterFacts, IntegratedType
    <3>3. Integrated(p)[r].status = "selected" BY <2>1, <3>1, <3>2, RecycledType
    <3>4. r \in p.selected BY <3>1, <3>3, WriterFacts, IntegratedType
    <3> QED BY <2>3, <3>1, <3>4 DEF PlanOK
  <2> HIDE DEF p
  <2> QED BY <2>1, <2>2, <2>3, <2>4, TransactRefines
<1>2. CASE CommitPurge(w) /\ stage[run[w].row].status = "absent"
  <2>1. UNCHANGED <<files, generations, marker, stage, notes>> BY <1>2 DEF CommitPurge
  <2> QED BY <2>1, Rests
<1>3. CASE CommitPurge(w) /\ stage[run[w].row].status # "absent"
  <2>1. /\ run[w].pc = "committing" /\ run[w].kind = "purge" /\ marker' = Newest.id /\ Commits
        /\ UNCHANGED <<files, generations, lease, notes>>
        /\ Become(w, [Idle EXCEPT !.kind = "purge", !.pc = "marking"])
        /\ stage' = [stage EXCEPT ![run[w].row] = [NoStage EXCEPT !.version = stage[run[w].row].version]]
    BY <1>3 DEF CommitPurge
  <2>2. AppliedNotes' = AppliedNotes BY <2>1 DEF AppliedNotes
  <2>3. Selected' \subseteq Selected
    <3>1. \A r \in Rows : stage'[r] = stage[r] \/ stage'[r].status = "absent"
      BY <2>1, WriterFacts DEF NoStage
    <3> QED BY <3>1 DEF Selected
  <2> QED BY <2>1, <2>2, <2>3, TransactRefines
<1> QED BY <1>1, <1>2, <1>3

LEMMA PlanAndSyncRefines ==
    ASSUME WriterInv, Tidy, WriterInv', Tidy', NEW w \in Writers, PlanAndSync(w)
    PROVE  Atomic!Next
<1>1. run[w].pc = "looked" /\ UNCHANGED <<files, table, lease, counters, history>>
  BY DEF PlanAndSync
<1>2. ~Pending BY <1>1 DEF Tidy, Clears
<1>3. PICK batch \in Batches :
        IF NothingToDo(PlanFor(batch))
        THEN GiveUp(w) /\ UNCHANGED generations
        ELSE Publish(w, "sync", [files EXCEPT !["raw"] = PlanFor(batch).raw],
                     [Idle EXCEPT !.plan = PlanFor(batch)])
  BY DEF PlanAndSync
<1>4. CASE NothingToDo(PlanFor(batch)) BY <1>1, <1>3, <1>4, Rests DEF table
<1>5. CASE ~NothingToDo(PlanFor(batch))
  <2> DEFINE p == PlanFor(batch)
             after == [files EXCEPT !["raw"] = p.raw]
             r == [Idle EXCEPT !.plan = p]
  <2>1. p \in Plan BY PlanForType DEF WriterInv
  <2>2. Publish(w, "sync", after, r) BY <1>3, <1>5
  <2> HIDE DEF p
  <2>3. p.raw \in SUBSET Facts BY <2>1, FactParts DEF Plan
  <2>4. after \in Contents BY <2>3, WriterFacts, SyncedFiles DEF Stored
  <2>5. r \in Run BY <2>1, IdleType DEF Run
  <2> HIDE DEF after, r
  <2> QED BY <1>1, <1>2, <2>2, <2>4, <2>5, PublishRefines
<1> QED BY <1>4, <1>5

LEMMA PrepareRefines ==
    ASSUME WriterInv, Tidy, WriterInv', Tidy', NEW w \in Writers,
           Prepare(w) \/ PreparePurge(w)
    PROVE  Atomic!Next
<1>1. run[w].pc \in {"checked", "planning"} /\ UNCHANGED <<files, table>>
  BY DEF Prepare, PreparePurge
<1>2. ~Pending BY <1>1 DEF Tidy, Clears
<1>3. CASE Prepare(w)
  <2>1. PICK after \in Contents, r \in Run : Publish(w, "commit", after, r) BY <1>3, Prepared
  <2> QED BY <1>1, <1>2, <2>1, PublishRefines
<1>4. CASE PreparePurge(w) /\ stage[run[w].row].status = "absent"
  <2>1. UNCHANGED generations BY <1>4 DEF PreparePurge
  <2> QED BY <1>1, <2>1, Rests DEF table
<1>5. CASE PreparePurge(w) /\ stage[run[w].row].status # "absent"
  <2>1. PICK given \in SUBSET Rebuildable(run[w].row) :
          Publish(w, "purge", PurgedFiles(run[w].row, given), run[w])
    BY <1>5 DEF PreparePurge
  <2>2. PurgedFiles(run[w].row, given) \in Contents /\ run[w] \in Run BY PurgedFilesAre, WriterFacts
  <2> QED BY <1>1, <1>2, <2>1, <2>2, PublishRefines
<1> QED BY <1>3, <1>4, <1>5

LEMMA OutsidersRefine ==
    ASSUME WriterInv, Tidy, WriterInv', Tidy', Outsiders
    PROVE  Atomic!Next
<1>0. stage \in [Rows -> StageRow] BY WriterFacts
<1>1. CASE Edit BY <1>1, EditRefines
<1>2. CASE (\E r \in Rows : Upsert(r) \/ Age(r)) \/ EntryPrune
  <2>1. UNCHANGED <<files, generations, marker, notes>>
    BY <1>2 DEF Upsert, Age, EntryPrune
  <2>2. Selected' \subseteq Selected
    <3>1. ASSUME NEW r \in Rows, Upsert(r) PROVE Selected' \subseteq Selected
      <4>1. \E aged \in {FALSE, stage[r].aged} :
             stage' = [stage EXCEPT ![r] = [status |-> "pending", version |-> @.version + 1,
                                            ever |-> FALSE, aged |-> aged]]
        BY <3>1 DEF Upsert
      <4>2. stage'[r].status = "pending" /\ \A q \in Rows \ {r} : stage'[q] = stage[q]
        BY <1>0, <4>1
      <4> QED BY <4>2 DEF Selected
    <3>2. ASSUME NEW r \in Rows, Age(r) PROVE Selected' \subseteq Selected
      <4>1. stage' = [stage EXCEPT ![r].aged = TRUE] BY <3>2 DEF Age
      <4>2. \A q \in Rows : stage'[q].status = stage[q].status BY <1>0, <4>1 DEF StageRow
      <4> QED BY <4>2 DEF Selected
    <3>3. ASSUME EntryPrune PROVE Selected' \subseteq Selected
      <4>1. stage' = Recycled(stage) BY <3>3 DEF EntryPrune
      <4>2. \A q \in Rows : stage'[q] = stage[q] \/ stage'[q].status = "absent"
        BY <1>0, <4>1, RecycledType
      <4> QED BY <4>2 DEF Selected
    <3> QED BY <1>2, <3>1, <3>2, <3>3
  <2>3. \A t \in Targets : View'[t] = View[t] BY <2>1, ViewKept
  <2> QED BY <2>1, <2>2, <2>3, Renews DEF AppliedNotes
<1>3. ASSUME NEW n \in Notes, AddNote(n) PROVE Atomic!Next
  <2>1. /\ notes[n] = "absent" /\ notes' = [notes EXCEPT ![n] = "pending"]
        /\ UNCHANGED <<files, stage, marker, generations>>
    BY <1>3 DEF AddNote
  <2>2. AppliedNotes' = AppliedNotes BY <2>1, WriterFacts DEF AppliedNotes, Stored
  <2>3. \A t \in Targets : View'[t] = View[t] BY <2>1, ViewKept
  <2> QED BY <2>1, <2>2, <2>3, Renews DEF Selected
<1>4. CASE Expire BY <1>4, Rests DEF Expire, table
<1> QED BY <1>1, <1>2, <1>3, <1>4 DEF Outsiders

LEMMA NextRefines ==
    ASSUME WriterInv, Tidy, Honest, WriterInv', Tidy', [Next]_vars, ~Skips
    PROVE  Atomic!Next
<1>1. CASE UNCHANGED vars BY <1>1, Rests DEF vars
<1>2. CASE Outsiders BY <1>2, OutsidersRefine
<1>3. ASSUME NEW w \in Writers, Writer(w) PROVE Atomic!Next
  <2>1. CASE \E r \in Purgeable \cup {NoRow} : Acquire(w, r) BY <2>1, Rests DEF Acquire, table
  <2>2. CASE RenewTimer(w) \/ Throws(w) \/ Abandon(w) \/ Crash(w)
    BY <2>2, Rests DEF RenewTimer, Throws, Abandon, Crash, table
  <2>3. CASE RecoverTarget(w) \/ RecoverDiscard(w) \/ ApplyTarget(w) \/ Mark(w) \/ Discard(w)
    BY <2>3, RecoverTargetRefines, RecoverDiscardRefines, ApplyTargetRefines, MarkRefines,
       DiscardRefines
  <2>4. CASE RecoverDone(w) \/ Look(w) \/ Contend(w) \/ Ask(w) \/ ProviderReturns(w)
             \/ Check(w) \/ Release(w)
    BY <2>4, Rests DEF RecoverDone, Look, Contend, Ask, ProviderReturns, Check, Release, table
  <2>5. CASE PlanAndSync(w) \/ Prepare(w) \/ PreparePurge(w) \/ Commit(w) \/ CommitPurge(w)
    BY <2>5, PlanAndSyncRefines, PrepareRefines, CommitRefines
  <2>6. ~RecoverSkip(w) BY DEF Skips
  <2> QED BY <1>3, <2>1, <2>2, <2>3, <2>4, <2>5, <2>6 DEF Writer, Works
<1> QED BY <1>1, <1>2, <1>3 DEF Next

LEMMA InitRefines == Init => Atomic!Init
<1> SUFFICES ASSUME Init PROVE Atomic!Init OBVIOUS
<1>1. WriterInv /\ Whole /\ ~Pending BY WriterInit, TidyInit DEF Tidy, Init, Pending
<1>2. \A t \in Targets : View[t] = {} BY <1>1, ViewIs DEF Init, NoContents
<1>3. Selected = {} /\ AppliedNotes = {} BY DEF Init, Selected, AppliedNotes, NoStage
<1> QED BY <1>2, <1>3 DEF Atomic!Init, Selected, AppliedNotes, Targets

SoundWorkspace == WriterInv /\ Tidy /\ Honest /\ skips = 0

\* Whoever reads the workspace through recovery sees the documents, their
\* baseline and SQLite change together, where every recovery succeeds.
THEOREM WritersImplementAtomic ==
    PlansAwake /\ MaxSkips = 0 => (Spec => ImplementsAtomic)
<1>1. ASSUME MaxSkips = 0, PlansAwake PROVE Spec => ImplementsAtomic
  <2>1. WorkspaceInv => SoundWorkspace
    BY <1>1, WriterFacts DEF Stored, WorkspaceInv, SoundWorkspace
  <2>2. SoundWorkspace /\ SoundWorkspace' /\ [Next]_vars => Atomic!Next
    BY NoneSkipped, NextRefines DEF SoundWorkspace
  <2>3. Spec => []WorkspaceInv BY <1>1, WorkspaceInvHolds
  <2> QED BY <2>1, <2>2, <2>3, InitRefines, PTL DEF Spec, ImplementsAtomic, Atomic!Spec
<1> QED BY <1>1
=============================================================================
