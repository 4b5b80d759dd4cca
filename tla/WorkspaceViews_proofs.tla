------------------------ MODULE WorkspaceViews_proofs -----------------------
(***************************************************************************)
(* Proofs about the workspace as the next recovery would leave it: it is   *)
(* all old or all new, what SQLite acknowledges is in it, what was purged  *)
(* is not, and seen this way the writers implement AtomicWorkspace.  They  *)
(* hold as long as no recovery of a manifest failed and was skipped: then  *)
(* there is one manifest at most.                                          *)
(***************************************************************************)
EXTENDS WorkspaceWriters_proofs

----------------------------------------------------------------------------
(***************************************************************************)
(* The manifest, and what the files have of it.  x follows y in a file if  *)
(* it has the same content; the user may have added lines to memory.       *)
(***************************************************************************)
Follows(x, y, t) ==
    IF t = "memory" THEN y[t] \subseteq x[t] /\ x[t] \ y[t] \subseteq UserFacts
                    ELSE x[t] = y[t]

Pending == generations # <<>>
Gen == generations[1]
Winner == Side(Gen, marker)

\* Contents that are, but for lines of the user, what SQLite committed last.
Agrees(c) == /\ c["baseMemory"] = committed.memory /\ c["baseRaw"] = committed.raw
             /\ c["memory"] \ UserFacts = committed.memory \ UserFacts

Whole ==
    /\ Len(generations) <= 1
    /\ ~Pending => Agrees(files)
    /\ Pending => /\ Gen.touched = Differing(Gen.before, Gen.after)
                  /\ \A t \in Targets \ Gen.touched : Follows(files, Gen.before, t)
                  /\ Agrees(Winner)

\* A recovery writes the side that wins, file by file.
Recovers(w) == run[w].pc = "recovering" =>
    /\ run[w].skipped = 0
    /\ ~Pending => run[w].todo = {}
    /\ Pending => /\ run[w].todo \subseteq Gen.touched
                  /\ Forward(Gen, run[w].mark) <=> Forward(Gen, marker)
                  /\ \A t \in Gen.touched \ run[w].todo : Follows(files, Winner, t)

\* A writer writes the new side, which wins from the transaction on.
Advances(w) == run[w].pc \in Advancing =>
    /\ run[w].todo \subseteq Gen.touched
    /\ \A t \in Gen.touched \ run[w].todo : Follows(files, Gen.after, t)
    /\ run[w].pc # "applying" => run[w].todo = {}
    /\ run[w].pc \in {"applying", "committing"} => ~Forward(Gen, marker)
    /\ run[w].pc = "discarding" => Gen.phase = "committed"
    /\ run[w].kind = "sync" => /\ run[w].pc # "committing" /\ marker # Gen.id
                               /\ Agrees(Gen.after)
                               /\ \A t \in Targets \ {"raw"} : Gen.before[t] = Gen.after[t]
    /\ run[w].kind # "sync" => /\ Gen.after["baseMemory"] = Gen.after["memory"]
                               /\ Gen.after["baseRaw"] = Gen.after["raw"]
                               /\ run[w].pc \in {"marking", "discarding"} => marker = Gen.id

\* Between manifests there is none, as long as the lease is kept.
Clears(w) ==
    /\ run[w].pc \in {"planning", "looked", "asking", "checked"} => ~Pending
    /\ run[w].pc \in {"waiting", "returned"} /\ lease.owner = w => ~Pending
    /\ run[w].pc = "checked" => Follows(files, run[w].seen.files, "memory")

Tidy == Whole /\ \A w \in Writers : Recovers(w) /\ Advances(w) /\ Clears(w)

----------------------------------------------------------------------------
LEMMA FollowsSelf ==
    ASSUME NEW x, NEW y, NEW t, x[t] = y[t] PROVE Follows(x, y, t)
BY DEF Follows

LEMMA FollowsSame ==
    ASSUME NEW x, NEW y, NEW z, NEW t, x[t] = z[t], Follows(z, y, t) PROVE Follows(x, y, t)
BY DEF Follows

LEMMA FollowsAgrees ==
    ASSUME NEW x, NEW c, Agrees(c), \A t \in Targets : Follows(x, c, t)
    PROVE  Agrees(x)
<1>1. Follows(x, c, "memory") /\ Follows(x, c, "baseMemory") /\ Follows(x, c, "baseRaw")
  BY DEF Targets
<1>2. x["baseMemory"] = c["baseMemory"] /\ x["baseRaw"] = c["baseRaw"] BY <1>1 DEF Follows
<1>3. c["memory"] \subseteq x["memory"] /\ x["memory"] \ c["memory"] \subseteq UserFacts
  BY <1>1 DEF Follows
<1>4. x["memory"] \ UserFacts = c["memory"] \ UserFacts BY <1>3
<1> QED BY <1>2, <1>4 DEF Agrees

LEMMA EmptyTodo == \A i : TodoAt(<<>>, i) = {}
BY DEF TodoAt

\* The one manifest there may be.
LEMMA OneGen ==
    ASSUME WriterInv, Whole, Pending
    PROVE  /\ Len(generations) = 1 /\ Gen \in Generation /\ Newest = Gen
           /\ TodoAt(generations, 1) = Gen.touched /\ Gen.touched \subseteq Targets
           /\ Front(generations) = <<>> /\ RemoveAt(generations, 1) = <<>>
<1>1. generations \in Seq(Generation) /\ Len(generations) \in Nat BY WriterFacts
<1>9. generations # <<>> /\ Len(generations) <= 1 BY DEF Whole, Pending
<1>10. Len(generations) # 0 BY <1>1, <1>9, EmptySeq
<1>11. \A n \in Nat : n <= 1 /\ n # 0 => n = 1 OBVIOUS
<1>2. Len(generations) = 1 BY <1>1, <1>9, <1>10, <1>11
<1>3. Gen \in Generation BY <1>1, <1>2, ElementOfSeq DEF Gen
<1>4. Newest = Gen BY <1>2 DEF Newest, Last, Gen
<1>5. TodoAt(generations, 1) = Gen.touched BY <1>2 DEF TodoAt, Gen
<1>6. SubSeq(generations, 1, 0) = <<>> /\ SubSeq(generations, 2, 1) = <<>> BY SubSeqEmpty
<1>7. Front(generations) = <<>> BY <1>2, <1>6 DEF Front
<1>8. RemoveAt(generations, 1) = <<>>
  <2>1. RemoveAt(generations, 1) = SubSeq(generations, 1, 0) \o SubSeq(generations, 2, 1)
    BY <1>2 DEF RemoveAt
  <2> QED BY <1>6, <2>1
<1> QED BY <1>2, <1>3, <1>4, <1>5, <1>7, <1>8, SideType

\* The files a manifest does not touch are the same on both sides.
LEMMA Untouched ==
    ASSUME NEW g \in Generation, g.touched = Differing(g.before, g.after), NEW mark,
           NEW t \in Targets \ g.touched
    PROVE  g.before[t] = g.after[t] /\ Side(g, mark)[t] = g.before[t]
BY DEF Differing, Side

\* Once the files of a manifest are in place it may go.
LEMMA Landed ==
    ASSUME WriterInv, Whole, Pending, \A t \in Gen.touched : Follows(files, Winner, t)
    PROVE  (\A t \in Targets : Follows(files, Winner, t)) /\ Agrees(files)
<1>1. Gen \in Generation /\ Gen.touched = Differing(Gen.before, Gen.after) /\ Agrees(Winner)
      /\ \A t \in Targets \ Gen.touched : Follows(files, Gen.before, t)
  BY OneGen DEF Whole
<1>2. ASSUME NEW t \in Targets \ Gen.touched PROVE Follows(files, Winner, t)
  <2>1. Winner[t] = Gen.before[t] BY <1>1, Untouched DEF Winner
  <2> QED BY <1>1, <2>1 DEF Follows
<1> QED BY <1>1, <1>2, FollowsAgrees

----------------------------------------------------------------------------
(***************************************************************************)
(* What a step must show                                                   *)
(***************************************************************************)
\* The step only moves a writer, and perhaps the lease to it or away from it.
Quiet(w) == /\ UNCHANGED <<files, generations, marker, committed>>
            /\ lease' = lease \/ lease'.owner \in {w, NoWriter}
Owns(w) == lease.owner = w /\ ~lease.out /\ lease' = lease

LEMMA TidyStep ==
    ASSUME WriterInv, Tidy, NEW w \in Writers, NEW r \in Run, Become(w, r),
           Quiet(w) \/ Owns(w),
           Whole', Recovers(w)', Advances(w)', Clears(w)'
    PROVE  Tidy'
<1>1. \A v \in Writers \ {w} : run'[v] = run[v] BY WriterFacts, BecomeType
<1>2. ASSUME NEW v \in Writers \ {w} PROVE Recovers(v)' /\ Advances(v)' /\ Clears(v)'
  <2>1. run'[v] = run[v] /\ Recovers(v) /\ Advances(v) /\ Clears(v) /\ Held(v) /\ v # NoWriter
    BY <1>1, WriterFacts, WriterAssumption DEF Tidy
  <2>2. CASE Quiet(w)
    <3>1. lease'.owner = v => lease' = lease BY <2>1, <2>2 DEF Quiet
    <3>2. UNCHANGED <<files, generations, marker, committed>> BY <2>2 DEF Quiet
    <3>3. Recovers(v)' BY <2>1, <3>2 DEF Recovers, Pending, Gen, Winner, Side, Forward
    <3>4. Advances(v)' BY <2>1, <3>2 DEF Advances, Gen, Forward, Agrees
    <3>5. Clears(v)' BY <2>1, <3>1, <3>2 DEF Clears, Pending
    <3> QED BY <3>3, <3>4, <3>5
  <2>3. CASE Owns(w)
    <3>1. run[v].pc \notin Holding /\ lease'.owner # v BY <2>1, <2>3 DEF Held, Owns
    <3> QED BY <2>1, <3>1 DEF Recovers, Advances, Clears, Holding, Advancing
  <2> QED BY <2>2, <2>3
<1> QED BY <1>2 DEF Tidy

LEMMA WholeKept ==
    ASSUME Whole, UNCHANGED <<files, generations, marker, committed>>
    PROVE  Whole'
BY DEF Whole, Pending, Gen, Winner, Side, Forward, Agrees

\* A writer that gives up, dies, or is done.
LEMMA RestsTidy ==
    ASSUME WriterInv, Tidy, NEW w \in Writers, NEW r \in Run, Become(w, r), Quiet(w),
           r.pc \in {"idle", "releasing"}
    PROVE  Tidy'
<1>1. run'[w] = r BY WriterFacts, BecomeType
<1>2. Recovers(w)' /\ Advances(w)' /\ Clears(w)'
  BY <1>1 DEF Recovers, Advances, Clears, Advancing
<1>3. Whole' BY WholeKept DEF Tidy, Quiet
<1> QED BY <1>2, <1>3, TidyStep

LEMMA GivesUpTidy ==
    ASSUME WriterInv, Tidy, NEW w \in Writers, GiveUp(w), Quiet(w)
    PROVE  Tidy'
<1>1. PICK r \in Run : Become(w, r) /\ r.pc = "releasing" BY GiveUpType
<1> QED BY <1>1, RestsTidy

\* A writer at a place where there is no manifest.
LEMMA PlansTidy ==
    ASSUME WriterInv, Tidy, NEW w \in Writers, NEW r \in Run, Become(w, r), Quiet(w),
           r.pc \in {"planning", "looked", "asking", "waiting", "returned", "checked"},
           ~Pending \/ (r.pc \in {"waiting", "returned"} /\ lease'.owner # w),
           r.pc = "checked" => Follows(files, r.seen.files, "memory")
    PROVE  Tidy'
<1>1. run'[w] = r /\ generations' = generations /\ files' = files
  BY WriterFacts, BecomeType DEF Quiet
<1>2. Recovers(w)' /\ Advances(w)' BY <1>1 DEF Recovers, Advances, Advancing
<1>3. Clears(w)' BY <1>1 DEF Clears, Pending
<1>4. Whole' BY WholeKept DEF Tidy, Quiet
<1> QED BY <1>2, <1>3, <1>4, TidyStep

\* A writer that starts to recover.
LEMMA RecoversTidy ==
    ASSUME WriterInv, Tidy, NEW w \in Writers, NEW r \in Run, Become(w, r), Quiet(w),
           r.pc = "recovering", r.skipped = 0, r.todo = TodoAt(generations, 1),
           Pending => (Forward(Gen, r.mark) <=> Forward(Gen, marker))
    PROVE  Tidy'
<1>1. run'[w] = r /\ UNCHANGED <<files, generations, marker, committed>>
  BY WriterFacts, BecomeType DEF Quiet
<1>2. Recovers(w)'
  <2>1. CASE ~Pending BY <1>1, <2>1, EmptyTodo DEF Recovers, Pending
  <2>2. CASE Pending
    <3>1. r.todo = Gen.touched BY <2>2, OneGen DEF Tidy
    <3> QED BY <1>1, <2>2, <3>1 DEF Recovers, Pending, Gen, Winner, Side, Forward
  <2> QED BY <2>1, <2>2
<1>3. Advances(w)' /\ Clears(w)' BY <1>1 DEF Advances, Clears, Advancing
<1>4. Whole' BY <1>1, WholeKept DEF Tidy
<1> QED BY <1>2, <1>3, <1>4, TidyStep

----------------------------------------------------------------------------
(***************************************************************************)
(* Recovery                                                                *)
(***************************************************************************)
LEMMA AcquireTidy ==
    ASSUME WriterInv, Tidy, NEW w \in Writers, NEW row \in Purgeable \cup {NoRow}, Acquire(w, row)
    PROVE  Tidy'
<1> DEFINE old == [Idle EXCEPT !.row = row]
<1>1. row \in Rows \cup {NoRow} BY WriterAssumption
<1>2. old.row = row BY <1>1, IdleType DEF Run
<1>3. marker \in GenIds \cup {NoGen} /\ WriterTypes BY WriterFacts DEF Stored
<1>4. /\ Become(w, Recovering(old, marker, "planning"))
      /\ UNCHANGED <<files, table, generations, counters, history>> /\ lease'.owner = w
  BY DEF Acquire
<1> HIDE DEF old
<1>5. PICK r \in Run : /\ r = Recovering(old, marker, "planning")
                       /\ r.pc = "recovering" /\ r.skipped = 0 /\ r.mark = marker
                       /\ r.todo = TodoAt(generations, 1)
  BY <1>1, <1>2, <1>3, RecoveringType
<1>6. Become(w, r) BY <1>4, <1>5
<1>7. Quiet(w) BY <1>4 DEF Quiet, table, history
<1> QED BY <1>5, <1>6, <1>7, RecoversTidy

LEMMA RecoverTargetTidy ==
    ASSUME WriterInv, Tidy, NEW w \in Writers, RecoverTarget(w)
    PROVE  Tidy'
<1> DEFINE t == First(run[w].todo)
           r == [run[w] EXCEPT !.todo = run[w].todo \ {t}]
<1>1. run[w].pc = "recovering" /\ run[w].todo # {} BY DEF RecoverTarget
<1>2. run[w] \in Run /\ run[w].todo \in SUBSET Targets BY WriterFacts DEF Run
<1>3. t \in run[w].todo BY <1>1, <1>2, FirstInTodo
<1>4. Pending /\ Recovers(w) /\ Whole BY <1>1 DEF Tidy, Recovers
<1>5. /\ Gen \in Generation /\ run[w].skipped = 0 /\ t \in Gen.touched /\ t \in Targets
      /\ Recovered(w) = Gen /\ Side(Recovered(w), run[w].mark) = Winner
  <2>1. run[w].skipped = 0 /\ t \in Gen.touched /\ (Forward(Gen, run[w].mark) <=> Forward(Gen, marker))
    BY <1>1, <1>3, <1>4 DEF Recovers
  <2>2. Recovered(w) = Gen BY <2>1 DEF Recovered, Gen
  <2> QED BY <1>2, <1>3, <1>4, <2>1, <2>2, OneGen DEF Winner, Side
<1>6. files' = [files EXCEPT ![t] = Winner[t]] BY <1>5 DEF RecoverTarget
<1>7. Become(w, r) BY DEF RecoverTarget, Become
<1>8. /\ r \in Run /\ r.pc = "recovering" /\ r.skipped = 0 /\ r.todo = run[w].todo \ {t}
      /\ r.mark = run[w].mark
  BY <1>1, <1>2, <1>5 DEF Run
<1> HIDE DEF t, r
<1>9. UNCHANGED <<generations, marker, committed, lease>> BY DEF RecoverTarget, table, history
<1>10. /\ files'[t] = Winner[t] /\ \A u \in Targets \ {t} : files'[u] = files[u]
  BY <1>5, <1>6, WriterFacts DEF Stored, Contents
<1>11. Owns(w) BY <1>1, <1>9, WriterFacts DEF Owns, Held, Holding
<1>12. run'[w] = r BY <1>7, <1>8, WriterFacts, BecomeType
<1>13. Whole'
  <2>1. \A u \in Targets \ Gen.touched : Follows(files', Gen.before, u)
    <3>1. ASSUME NEW u \in Targets \ Gen.touched PROVE Follows(files', Gen.before, u)
      <4>1. files'[u] = files[u] /\ Follows(files, Gen.before, u)
        BY <1>4, <1>5, <1>10 DEF Whole
      <4> QED BY <4>1, FollowsSame
    <3> QED BY <3>1
  <2> QED BY <1>4, <1>9, <2>1 DEF Whole, Pending, Gen, Winner, Side, Forward, Agrees
<1>14. Recovers(w)'
  <2>1. ASSUME NEW u \in Gen.touched \ r.todo PROVE Follows(files', Winner, u)
    <3>1. CASE u = t BY <1>10, <3>1, FollowsSelf
    <3>2. CASE u # t
      <4>1. u \in Targets /\ u \in Gen.touched \ run[w].todo BY <1>4, <1>8, <3>2, OneGen
      <4>2. files'[u] = files[u] /\ Follows(files, Winner, u)
        BY <1>1, <1>4, <1>10, <3>2, <4>1 DEF Recovers
      <4> QED BY <4>2, FollowsSame
    <3> QED BY <3>1, <3>2
  <2>2. r.todo \subseteq Gen.touched /\ (Forward(Gen, r.mark) <=> Forward(Gen, marker))
    BY <1>1, <1>4, <1>8 DEF Recovers
  <2> QED BY <1>4, <1>8, <1>9, <1>12, <2>1, <2>2
      DEF Recovers, Pending, Gen, Winner, Side, Forward
<1>15. Advances(w)' /\ Clears(w)' BY <1>8, <1>12 DEF Advances, Clears, Advancing
<1> QED BY <1>7, <1>8, <1>11, <1>13, <1>14, <1>15, TidyStep

LEMMA RecoverDiscardTidy ==
    ASSUME WriterInv, Tidy, NEW w \in Writers, RecoverDiscard(w)
    PROVE  Tidy'
<1> DEFINE r == [run[w] EXCEPT !.todo = TodoAt(generations', run[w].skipped + 1)]
<1>1. run[w].pc = "recovering" /\ run[w].todo = {} /\ run[w].skipped < Len(generations)
  BY DEF RecoverDiscard
<1>2. Recovers(w) /\ Whole /\ run[w].skipped = 0 BY <1>1 DEF Tidy, Recovers
<1>3. Pending
  <2>1. Len(<<>>) = 0 OBVIOUS
  <2> QED BY <1>1, <1>2, <2>1 DEF Pending
<1>4. generations' = <<>>
  <2>1. generations' = RemoveAt(generations, 1) BY <1>2 DEF RecoverDiscard
  <2> QED BY <1>2, <1>3, <2>1, OneGen
<1>5. Agrees(files) BY <1>1, <1>2, <1>3, Landed DEF Recovers
<1>6. Become(w, r) BY DEF RecoverDiscard, Become
<1>7. run[w] \in Run BY WriterFacts
<1>8. TodoAt(generations', run[w].skipped + 1) = {} BY <1>4, EmptyTodo
<1>9. r \in Run /\ r.pc = "recovering" /\ r.skipped = 0 /\ r.todo = {}
  BY <1>1, <1>2, <1>7, <1>8 DEF Run
<1> HIDE DEF r
<1>10. run'[w] = r BY <1>6, <1>9, WriterFacts, BecomeType
<1>11. UNCHANGED <<files, marker, committed, lease>> BY DEF RecoverDiscard, table, history
<1>12. Owns(w) BY <1>1, <1>11, WriterFacts DEF Owns, Held, Holding
<1>13. Whole' BY <1>4, <1>5, <1>11 DEF Whole, Pending, Agrees
<1>14. Recovers(w)' /\ Advances(w)' /\ Clears(w)'
  BY <1>4, <1>9, <1>10 DEF Recovers, Advances, Clears, Advancing, Pending
<1> QED BY <1>6, <1>9, <1>12, <1>13, <1>14, TidyStep

LEMMA RecoverDoneTidy ==
    ASSUME WriterInv, Tidy, NEW w \in Writers, RecoverDone(w)
    PROVE  Tidy'
<1> DEFINE r == [Idle EXCEPT !.pc = run[w].next,
                             !.row = IF run[w].next = "planning" THEN run[w].row ELSE NoRow]
<1>1. run[w].pc = "recovering" /\ run[w].skipped = Len(generations) BY DEF RecoverDone
<1>2. Len(generations) = 0 BY <1>1 DEF Tidy, Recovers
<1>3. ~Pending BY <1>2, WriterFacts, EmptySeq DEF Pending
<1>4. run[w] \in Run BY WriterFacts
<1>5. r \in Run /\ r.pc \in {"planning", "releasing"} BY <1>4, IdleType DEF Run
<1>6. Become(w, r) /\ UNCHANGED <<files, table, generations, lease, counters, history>>
  BY DEF RecoverDone
<1>7. Quiet(w) BY <1>6 DEF Quiet, table, history
<1> HIDE DEF r
<1>8. CASE r.pc = "planning" BY <1>3, <1>5, <1>6, <1>7, <1>8, PlansTidy
<1>9. CASE r.pc = "releasing" BY <1>5, <1>6, <1>7, <1>9, RestsTidy
<1> QED BY <1>5, <1>8, <1>9

----------------------------------------------------------------------------
(***************************************************************************)
(* Writing a generation                                                    *)
(***************************************************************************)
\* A manifest that is published is the only one, and its old side wins.
LEMMA Published ==
    ASSUME WriterInv, ~Pending, NEW after, NEW g \in Generation, Manifest(after, g),
           marker' = marker
    PROVE  /\ Len(generations') = 1 /\ Pending' /\ Gen' = g
           /\ g.id # marker /\ g.after = after /\ g.before = files
           /\ ~Forward(g, marker) /\ Winner' = files
           /\ g.touched = Differing(g.before, g.after)
<1>1. generations = <<>> BY DEF Pending
<1>2. generations' = Append(<<>>, g) BY <1>1 DEF Manifest
<1>3. Len(generations') = 1 /\ generations'[1] = g BY <1>2
<1>4. generations' # <<>> BY <1>3
<1>5. /\ g.id # marker /\ g.phase = "prepared" /\ g.after = after /\ g.before = files
      /\ g.touched = Differing(g.before, g.after)
  BY DEF Manifest, FreshIds
<1>6. ~Forward(g, marker) BY <1>5 DEF Forward
<1>7. Winner' = files BY <1>3, <1>5, <1>6 DEF Winner, Gen, Side, Forward
<1> QED BY <1>3, <1>4, <1>5, <1>6, <1>7 DEF Pending, Gen

LEMMA PublishTidy ==
    ASSUME WriterInv, Tidy, NEW w \in Writers, NEW kind \in {"sync", "commit", "purge"},
           NEW after \in Contents, NEW r \in Run, Publish(w, kind, after, r),
           ~Pending, Owns(w), UNCHANGED <<files, marker, committed>>,
           kind = "sync" => \A t \in Targets \ {"raw"} : after[t] = files[t],
           kind # "sync" => after["baseMemory"] = after["memory"] /\ after["baseRaw"] = after["raw"]
    PROVE  Tidy'
<1>1. PICK g \in Generation, q \in Run :
             Manifest(after, g) /\ Become(w, q) /\ Follower(kind, r, g, q)
  BY PublishFacts
<1>2. /\ Len(generations') = 1 /\ Pending' /\ Gen' = g
      /\ g.id # marker /\ g.after = after /\ g.before = files
      /\ ~Forward(g, marker) /\ Winner' = files
      /\ g.touched = Differing(g.before, g.after)
  BY <1>1, Published
<1>3. /\ q.kind = kind /\ q.todo = g.touched
      /\ q.pc = IF g.touched = {} THEN Applied(kind) ELSE "applying"
  BY <1>1 DEF Follower
<1>4. /\ q.pc \in {"applying", "marking", "committing"} /\ (q.pc # "applying" => g.touched = {})
      /\ (q.pc = "marking" => kind = "sync") /\ (q.pc = "committing" => kind # "sync")
  BY <1>3 DEF Applied
<1>5. run'[w] = q BY <1>1, WriterFacts, BecomeType
<1>6. Agrees(files) BY DEF Tidy, Whole
<1>7. Whole'
  <2>1. \A t \in Targets \ g.touched : Follows(files, g.before, t) BY <1>2, FollowsSelf
  <2> QED BY <1>2, <1>6, <2>1 DEF Whole, Agrees
<1>8. Recovers(w)' /\ Clears(w)' BY <1>4, <1>5 DEF Recovers, Clears
<1>9. Advances(w)'
  <2>1. q.todo \subseteq g.touched /\ g.touched \ q.todo = {} /\ (q.pc # "applying" => q.todo = {})
    BY <1>3, <1>4
  <2>2. ASSUME kind = "sync"
        PROVE  /\ q.pc # "committing" /\ Agrees(after)
               /\ \A t \in Targets \ {"raw"} : g.before[t] = g.after[t]
    <3>1. \A t \in Targets \ {"raw"} : after[t] = files[t] BY <2>2
    <3>2. after["memory"] = files["memory"] /\ after["baseMemory"] = files["baseMemory"]
          /\ after["baseRaw"] = files["baseRaw"]
      BY <3>1 DEF Targets
    <3>3. Agrees(after) BY <1>6, <3>2 DEF Agrees
    <3> QED BY <1>2, <1>4, <2>2, <3>1, <3>3
  <2> QED BY <1>2, <1>3, <1>4, <1>5, <2>1, <2>2 DEF Advances, Agrees, Forward
<1> QED BY <1>1, <1>5, <1>7, <1>8, <1>9, TidyStep

\* The manifest of a writer that writes.
LEMMA OwnGen ==
    ASSUME WriterInv, Tidy, NEW w \in Writers, run[w].pc \in Advancing
    PROVE  /\ Pending /\ Whole /\ Advances(w) /\ lease.owner = w /\ ~lease.out
           /\ Gen \in Generation /\ Newest = Gen /\ Len(generations) = 1
           /\ Gen.touched = Differing(Gen.before, Gen.after)
<1>1. Pending /\ lease.owner = w /\ ~lease.out BY NewestType DEF Pending
<1> QED BY <1>1, OneGen DEF Tidy, Whole

LEMMA ApplyTargetTidy ==
    ASSUME WriterInv, Tidy, NEW w \in Writers, ApplyTarget(w)
    PROVE  Tidy'
<1> DEFINE t == First(run[w].todo)
           pc == IF run[w].todo = {t} THEN Applied(run[w].kind) ELSE run[w].pc
           r == [run[w] EXCEPT !.todo = run[w].todo \ {t}, !.pc = pc]
<1>1. run[w].pc = "applying" BY DEF ApplyTarget
<1>2. /\ Pending /\ Whole /\ Advances(w) /\ lease.owner = w /\ ~lease.out
      /\ Gen \in Generation /\ Newest = Gen
  BY <1>1, OwnGen DEF Advancing
<1>3. run[w] \in Run /\ run[w].todo \in SUBSET Targets /\ run[w].todo # {}
  BY <1>1, WriterFacts DEF Run, Founded
<1>4. t \in run[w].todo /\ t \in Targets BY <1>3, FirstInTodo
<1>5. files' = [files EXCEPT ![t] = Gen.after[t]] BY <1>2 DEF ApplyTarget
<1>6. Become(w, r) BY DEF ApplyTarget, Become
<1>7. /\ pc \in {"applying", "marking", "committing"} /\ (pc # "applying" => run[w].todo \ {t} = {})
      /\ (pc = "marking" => run[w].kind = "sync") /\ (pc = "committing" => run[w].kind # "sync")
  BY <1>1 DEF Applied
<1> HIDE DEF t, pc
<1>8. r \in Run /\ r.pc = pc /\ r.todo = run[w].todo \ {t} /\ r.kind = run[w].kind
  BY <1>3, <1>7 DEF Run
<1> HIDE DEF r
<1>9. run'[w] = r BY <1>6, <1>8, WriterFacts, BecomeType
<1>10. UNCHANGED <<generations, marker, committed, lease>> BY DEF ApplyTarget, table, history
<1>11. /\ files'[t] = Gen.after[t] /\ \A u \in Targets \ {t} : files'[u] = files[u]
  BY <1>4, <1>5, WriterFacts DEF Stored, Contents
<1>12. Owns(w) BY <1>2, <1>10 DEF Owns
<1>13. t \in Gen.touched /\ Gen.touched \subseteq Targets BY <1>1, <1>2, <1>4, OneGen DEF Advances, Advancing
<1>14. Whole'
  <2>1. ASSUME NEW u \in Targets \ Gen.touched PROVE Follows(files', Gen.before, u)
    <3>1. files'[u] = files[u] /\ Follows(files, Gen.before, u)
      BY <1>2, <1>11, <1>13 DEF Whole
    <3> QED BY <3>1, FollowsSame
  <2> QED BY <1>2, <1>10, <2>1 DEF Whole, Pending, Gen, Winner, Side, Forward, Agrees
<1>15. Advances(w)'
  <2>1. ASSUME NEW u \in Gen.touched \ r.todo PROVE Follows(files', Gen.after, u)
    <3>1. CASE u = t BY <1>11, <3>1, FollowsSelf
    <3>2. CASE u # t
      <4>1. u \in Targets /\ u \in Gen.touched \ run[w].todo BY <1>8, <1>13, <3>2
      <4>2. files'[u] = files[u] /\ Follows(files, Gen.after, u)
        BY <1>1, <1>2, <1>11, <3>2, <4>1 DEF Advances, Advancing
      <4> QED BY <4>2, FollowsSame
    <3> QED BY <3>1, <3>2
  <2>2. /\ run[w].todo \subseteq Gen.touched /\ ~Forward(Gen, marker)
        /\ run[w].kind = "sync" => /\ marker # Gen.id /\ Agrees(Gen.after)
                                   /\ \A u \in Targets \ {"raw"} : Gen.before[u] = Gen.after[u]
        /\ run[w].kind # "sync" => /\ Gen.after["baseMemory"] = Gen.after["memory"]
                                   /\ Gen.after["baseRaw"] = Gen.after["raw"]
    BY <1>1, <1>2 DEF Advances, Advancing
  <2> QED BY <1>7, <1>8, <1>9, <1>10, <2>1, <2>2 DEF Advances, Gen, Forward, Agrees
<1>16. Recovers(w)' /\ Clears(w)' BY <1>7, <1>8, <1>9 DEF Recovers, Clears
<1> QED BY <1>6, <1>8, <1>12, <1>14, <1>15, <1>16, TidyStep

\* Marking a manifest makes its new side win, if it did not already.
LEMMA Marked ==
    ASSUME WriterInv, Tidy, NEW w \in Writers, Mark(w)
    PROVE  /\ Pending' /\ Len(generations') = 1 /\ Gen' \in Generation
           /\ Gen'.before = Gen.before /\ Gen'.after = Gen.after /\ Gen'.id = Gen.id
           /\ Gen'.touched = Gen.touched /\ Gen'.phase = "committed"
           /\ Winner' = Gen.after
           /\ run[w].todo = {} /\ Agrees(Gen.after)
           /\ \A t \in Targets : Follows(files, Gen.after, t)
<1>1. run[w].pc = "marking" BY DEF Mark
<1>2. /\ Pending /\ Whole /\ Advances(w) /\ Gen \in Generation /\ Len(generations) = 1
      /\ Gen.touched = Differing(Gen.before, Gen.after)
  BY <1>1, OwnGen DEF Advancing
<1>3. generations' = [generations EXCEPT ![1] = [Gen EXCEPT !.phase = "committed"]]
  BY <1>2 DEF Mark, Gen
<1>4. [Gen EXCEPT !.phase = "committed"] \in Generation BY <1>2 DEF Generation
<1>5. Len(generations') = 1 /\ generations'[1] = [Gen EXCEPT !.phase = "committed"]
  BY <1>2, <1>3, <1>4, WriterFacts, ExceptSeq
<1>6. Pending' BY <1>5 DEF Pending
<1>7. Gen' = [Gen EXCEPT !.phase = "committed"] BY <1>5 DEF Gen
<1>8. /\ Gen'.before = Gen.before /\ Gen'.after = Gen.after /\ Gen'.id = Gen.id
      /\ Gen'.touched = Gen.touched /\ Gen'.phase = "committed"
  BY <1>2, <1>7 DEF Generation
<1>9. Winner' = Gen.after BY <1>8 DEF Winner, Side, Forward
<1>10. run[w].todo = {} BY <1>1, <1>2 DEF Advances, Advancing
<1>11. Agrees(Gen.after)
  <2>1. CASE run[w].kind = "sync" BY <1>1, <1>2, <2>1 DEF Advances, Advancing
  <2>2. CASE run[w].kind # "sync"
    <3>1. marker = Gen.id BY <1>1, <1>2, <2>2 DEF Advances, Advancing
    <3> QED BY <1>2, <3>1 DEF Whole, Winner, Side, Forward
  <2> QED BY <2>1, <2>2
<1>12. ASSUME NEW t \in Targets PROVE Follows(files, Gen.after, t)
  <2>1. CASE t \in Gen.touched BY <1>1, <1>2, <1>10, <2>1 DEF Advances, Advancing
  <2>2. CASE t \notin Gen.touched
    <3>1. Follows(files, Gen.before, t) BY <1>2, <2>2 DEF Whole
    <3>2. Gen.before[t] = Gen.after[t] BY <1>2, <2>2, Untouched
    <3> QED BY <3>1, <3>2 DEF Follows
  <2> QED BY <2>1, <2>2
<1> QED BY <1>4, <1>5, <1>6, <1>7, <1>8, <1>9, <1>10, <1>11, <1>12

LEMMA MarkTidy ==
    ASSUME WriterInv, Tidy, NEW w \in Writers, Mark(w)
    PROVE  Tidy'
<1> DEFINE r == [run[w] EXCEPT !.pc = "discarding"]
<1>1. run[w].pc = "marking" /\ Become(w, r) BY DEF Mark, Goto
<1>2. /\ Pending' /\ Len(generations') = 1 /\ Gen' \in Generation
      /\ Gen'.before = Gen.before /\ Gen'.after = Gen.after /\ Gen'.id = Gen.id
      /\ Gen'.touched = Gen.touched /\ Gen'.phase = "committed"
      /\ Winner' = Gen.after
      /\ run[w].todo = {} /\ Agrees(Gen.after)
      /\ \A t \in Targets : Follows(files, Gen.after, t)
  BY Marked
<1>3. /\ Pending /\ Whole /\ Advances(w) /\ lease.owner = w /\ ~lease.out /\ Gen \in Generation
      /\ Gen.touched = Differing(Gen.before, Gen.after)
  BY <1>1, OwnGen DEF Advancing
<1>4. run[w] \in Run BY WriterFacts
<1>5. r \in Run /\ r.pc = "discarding" /\ r.todo = {} /\ r.kind = run[w].kind BY <1>2, <1>4 DEF Run
<1> HIDE DEF r
<1>6. UNCHANGED <<files, marker, committed, lease>> BY DEF Mark, table, history
<1>7. run'[w] = r BY <1>1, <1>5, WriterFacts, BecomeType
<1>8. Whole'
  <2>1. \A t \in Targets \ Gen.touched : Follows(files, Gen.before, t) BY <1>3 DEF Whole
  <2>2. Agrees(Winner)' BY <1>2, <1>6 DEF Agrees
  <2> QED BY <1>2, <1>3, <1>6, <2>1, <2>2 DEF Whole
<1>9. Advances(w)'
  <2>1. \A t \in Gen.touched : Follows(files, Gen.after, t) BY <1>2, <1>3 DEF Generation
  <2>2. /\ run[w].kind = "sync" => /\ marker # Gen.id
                                   /\ \A u \in Targets \ {"raw"} : Gen.before[u] = Gen.after[u]
        /\ run[w].kind # "sync" => /\ Gen.after["baseMemory"] = Gen.after["memory"]
                                   /\ Gen.after["baseRaw"] = Gen.after["raw"] /\ marker = Gen.id
    BY <1>1, <1>3 DEF Advances, Advancing
  <2> QED BY <1>2, <1>5, <1>6, <1>7, <2>1, <2>2 DEF Advances, Agrees
<1>10. Recovers(w)' /\ Clears(w)' BY <1>5, <1>7 DEF Recovers, Clears
<1>11. Owns(w) BY <1>3, <1>6 DEF Owns
<1> QED BY <1>1, <1>5, <1>8, <1>9, <1>10, <1>11, TidyStep

\* A manifest that goes leaves its winner behind.
LEMMA Discarded ==
    ASSUME WriterInv, Tidy, NEW w \in Writers, Discard(w)
    PROVE  /\ generations' = <<>> /\ Pending /\ Agrees(files)
           /\ \A t \in Targets : Follows(files, Winner, t)
<1>1. run[w].pc = "discarding" BY DEF Discard
<1>2. /\ Pending /\ Whole /\ Advances(w) /\ Gen \in Generation BY <1>1, OwnGen DEF Advancing
<1>3. generations' = <<>> BY <1>2, OneGen DEF Discard
<1>4. Winner = Gen.after BY <1>1, <1>2 DEF Advances, Advancing, Winner, Side, Forward
<1>5. \A t \in Gen.touched : Follows(files, Winner, t)
  BY <1>1, <1>2, <1>4 DEF Advances, Advancing
<1> QED BY <1>2, <1>3, <1>5, Landed

LEMMA DiscardTidy ==
    ASSUME WriterInv, Tidy, NEW w \in Writers, Discard(w)
    PROVE  Tidy'
<1>1. run[w].pc = "discarding" /\ UNCHANGED <<files, table, lease, counters, history>>
  BY DEF Discard
<1>2. generations' = <<>> /\ Agrees(files) BY Discarded
<1>3. lease.owner = w /\ ~lease.out BY <1>1, OwnGen DEF Advancing
<1>4. Owns(w) /\ UNCHANGED <<files, marker, committed>> BY <1>1, <1>3 DEF Owns, table, history
<1>5. run[w] \in Run BY WriterFacts
<1>6. \E r \in Run : Become(w, r) /\ r.pc \in {"asking", "releasing"}
  <2>1. CASE run[w].kind = "sync"
    <3>1. Become(w, [run[w] EXCEPT !.pc = "asking"]) BY <2>1 DEF Discard, Goto
    <3> QED BY <1>5, <3>1, RunFields
  <2>2. CASE run[w].kind # "sync"
    <3>1. GiveUp(w) BY <2>2 DEF Discard
    <3> QED BY <3>1, GiveUpType
  <2> QED BY <2>1, <2>2
<1>7. PICK r \in Run : Become(w, r) /\ r.pc \in {"asking", "releasing"} BY <1>6
<1>8. run'[w] = r BY <1>7, WriterFacts, BecomeType
<1>9. Whole' BY <1>2, <1>4 DEF Whole, Pending, Agrees
<1>10. Recovers(w)' /\ Advances(w)' /\ Clears(w)'
  BY <1>2, <1>7, <1>8 DEF Recovers, Advances, Clears, Advancing, Pending
<1> QED BY <1>4, <1>7, <1>9, <1>10, TidyStep

LEMMA ThrowsTidy ==
    ASSUME WriterInv, Tidy, NEW w \in Writers, Throws(w)
    PROVE  Tidy'
<1> DEFINE mark == IF run[w].kind = "sync" THEN NoGen ELSE marker
<1>1. run[w].pc \in Advancing BY DEF Throws, Advancing
<1>2. mark \in GenIds \cup {NoGen} /\ WriterTypes BY WriterFacts DEF Stored
<1>3. Idle.row = NoRow BY DEF Idle
<1>4. PICK r \in Run : /\ r = Recovering(Idle, mark, "releasing")
                       /\ r.pc = "recovering" /\ r.skipped = 0 /\ r.mark = mark
                       /\ r.todo = TodoAt(generations, 1)
  BY <1>2, <1>3, RecoveringType
<1>5. Become(w, r) /\ UNCHANGED <<files, table, generations, lease, history>>
  BY <1>4 DEF Throws
<1>6. Quiet(w) BY <1>5 DEF Quiet, table, history
<1>7. Forward(Gen, mark) <=> Forward(Gen, marker)
  <2>1. Gen \in Generation /\ Advances(w) BY <1>1, OwnGen
  <2>2. CASE run[w].kind = "sync"
    <3>1. marker # Gen.id /\ Gen.id \in GenIds BY <1>1, <2>1, <2>2 DEF Advances, Generation
    <3>2. mark # Gen.id BY <2>2, <3>1, WriterAssumption
    <3> QED BY <3>1, <3>2 DEF Forward
  <2>3. CASE run[w].kind # "sync" BY <2>3
  <2> QED BY <2>2, <2>3
<1> QED BY <1>4, <1>5, <1>6, <1>7, RecoversTidy

----------------------------------------------------------------------------
(***************************************************************************)
(* Consolidation and purge                                                 *)
(***************************************************************************)
LEMMA LookTidy ==
    ASSUME WriterInv, Tidy, NEW w \in Writers, Look(w)
    PROVE  Tidy'
<1> DEFINE r == [run[w] EXCEPT !.pc = "looked", !.seen.stage = stage]
<1>1. run[w].pc = "planning" /\ Become(w, r)
      /\ UNCHANGED <<files, table, generations, lease, counters, history>>
  BY DEF Look
<1>2. ~Pending BY <1>1 DEF Tidy, Clears
<1>3. run[w] \in Run /\ stage \in [Rows -> StageRow] BY WriterFacts
<1>4. [run[w].seen EXCEPT !.stage = stage] \in Seen BY <1>3 DEF Run, Seen
<1>5. r = [run[w] EXCEPT !.pc = "looked", !.seen = [run[w].seen EXCEPT !.stage = stage]]
  BY <1>3 DEF Run
<1>6. r \in Run /\ r.pc = "looked" BY <1>3, <1>4, <1>5 DEF Run
<1>7. Quiet(w) BY <1>1 DEF Quiet, table, history
<1> HIDE DEF r
<1> QED BY <1>1, <1>2, <1>6, <1>7, PlansTidy

LEMMA SyncedFiles ==
    ASSUME files \in Contents, NEW raw \in SUBSET Facts
    PROVE  /\ [files EXCEPT !["raw"] = raw] \in Contents
           /\ [files EXCEPT !["raw"] = raw]["raw"] = raw
           /\ \A t \in Targets \ {"raw"} : [files EXCEPT !["raw"] = raw][t] = files[t]
BY DEF Contents, Targets

LEMMA PlanAndSyncTidy ==
    ASSUME WriterInv, Tidy, NEW w \in Writers, PlanAndSync(w)
    PROVE  Tidy'
<1>1. run[w].pc = "looked" /\ UNCHANGED <<files, table, lease, counters, history>>
  BY DEF PlanAndSync
<1>2. ~Pending BY <1>1 DEF Tidy, Clears
<1>3. PICK batch \in Batches :
        IF NothingToDo(PlanFor(batch))
        THEN GiveUp(w) /\ UNCHANGED generations
        ELSE Publish(w, "sync", [files EXCEPT !["raw"] = PlanFor(batch).raw],
                     [Idle EXCEPT !.plan = PlanFor(batch)])
  BY DEF PlanAndSync
<1>4. CASE NothingToDo(PlanFor(batch))
  <2>1. Quiet(w) BY <1>1, <1>3, <1>4 DEF Quiet, table, history
  <2> QED BY <1>3, <1>4, <2>1, GivesUpTidy
<1>5. CASE ~NothingToDo(PlanFor(batch))
  <2> DEFINE p == PlanFor(batch)
             after == [files EXCEPT !["raw"] = p.raw]
             r == [Idle EXCEPT !.plan = p]
  <2>1. p \in Plan BY PlanForType DEF WriterInv
  <2>2. Publish(w, "sync", after, r) BY <1>3, <1>5
  <2> HIDE DEF p
  <2>3. p.raw \in SUBSET Facts BY <2>1, FactParts DEF Plan
  <2>4. after \in Contents /\ \A t \in Targets \ {"raw"} : after[t] = files[t]
    BY <2>3, WriterFacts, SyncedFiles DEF Stored
  <2>5. r \in Run BY <2>1, IdleType DEF Run
  <2>6. Owns(w) BY <1>1, WriterFacts DEF Owns, Held, Holding
  <2>7. UNCHANGED <<files, marker, committed>> BY <1>1 DEF table, history
  <2> HIDE DEF after, r
  <2> QED BY <1>2, <2>2, <2>4, <2>5, <2>6, <2>7, PublishTidy
<1> QED BY <1>4, <1>5

LEMMA ContendTidy ==
    ASSUME WriterInv, Tidy, NEW w \in Writers, Contend(w)
    PROVE  Tidy'
<1>1. GiveUp(w) /\ Quiet(w) BY DEF Contend, Quiet, table, history
<1> QED BY <1>1, GivesUpTidy

LEMMA AskTidy ==
    ASSUME WriterInv, Tidy, NEW w \in Writers, Ask(w)
    PROVE  Tidy'
<1> DEFINE r == [run[w] EXCEPT !.pc = "waiting", !.seen = Revision]
<1>1. run[w].pc = "asking" /\ Become(w, r) /\ Quiet(w) BY DEF Ask, Quiet, table, history
<1>2. ~Pending BY <1>1 DEF Tidy, Clears
<1>3. Revision \in Seen BY WriterFacts DEF Revision, Seen, Stored
<1>4. run[w] \in Run BY WriterFacts
<1>5. r \in Run /\ r.pc = "waiting" BY <1>3, <1>4 DEF Run
<1> HIDE DEF r
<1> QED BY <1>1, <1>2, <1>5, PlansTidy

\* What a provider returns, and to whom.
LEMMA Returned ==
    ASSUME WriterInv, NEW w \in Writers, ProviderReturns(w)
    PROVE  \E r \in Run :
             /\ Become(w, r) /\ r.pc = "returned" /\ r.plan = run[w].plan /\ r.seen = run[w].seen
             /\ r.consumed \subseteq r.plan.notes /\ r.result \in Results(r.seen, r.plan, r.consumed)
             /\ r.left = LeftOut(r.seen, r.result)
<1> DEFINE q(consumed, result) ==
             [run[w] EXCEPT !.pc = "returned", !.consumed = consumed, !.result = result,
                            !.left = LeftOut(run[w].seen, result)]
<1>1. PICK consumed \in SUBSET run[w].plan.notes :
        \E result \in Results(run[w].seen, run[w].plan, consumed) : Become(w, q(consumed, result))
  BY DEF ProviderReturns
<1>2. PICK result \in Results(run[w].seen, run[w].plan, consumed) : Become(w, q(consumed, result))
  BY <1>1
<1> DEFINE r == q(consumed, result)
<1>3. run[w] \in Run /\ run[w].seen \in Seen /\ run[w].plan \in Plan BY WriterFacts DEF Run
<1>4. consumed \in SUBSET Notes BY <1>3 DEF Plan
<1>5. result \in SUBSET Facts BY <1>3, <1>4, ResultType
<1>6. LeftOut(run[w].seen, result) \in SUBSET Notes BY DEF LeftOut
<1>7. /\ r \in Run /\ r.pc = "returned" /\ r.plan = run[w].plan /\ r.seen = run[w].seen
      /\ r.consumed = consumed /\ r.result = result /\ r.left = LeftOut(run[w].seen, result)
  BY <1>3, <1>4, <1>5, <1>6 DEF Run
<1>8. Become(w, r) BY <1>2
<1> HIDE DEF r
<1>9. r.consumed \subseteq r.plan.notes /\ r.result \in Results(r.seen, r.plan, r.consumed)
  BY <1>7
<1> QED BY <1>7, <1>8, <1>9

LEMMA ProviderReturnsTidy ==
    ASSUME WriterInv, Tidy, NEW w \in Writers, ProviderReturns(w)
    PROVE  Tidy'
<1>1. run[w].pc = "waiting" /\ Quiet(w) /\ lease' = lease
  BY DEF ProviderReturns, Quiet, table, history
<1>2. PICK r \in Run : Become(w, r) /\ r.pc = "returned" BY Returned
<1>3. ~Pending \/ lease'.owner # w BY <1>1 DEF Tidy, Clears
<1> QED BY <1>1, <1>2, <1>3, PlansTidy

LEMMA CheckTidy ==
    ASSUME WriterInv, Tidy, NEW w \in Writers, Check(w)
    PROVE  Tidy'
<1>1. /\ run[w].pc = "returned" /\ UNCHANGED <<files, table, generations, counters, history>>
      /\ lease' = IF lease.owner = w THEN [lease EXCEPT !.out = FALSE] ELSE lease
  BY DEF Check
<1>2. Quiet(w) BY <1>1, WriterFacts DEF Quiet, table, history, Leases
<1>3. run[w] \in Run BY WriterFacts
<1>4. CASE lease.owner = w /\ run[w].seen = Revision
  <2> DEFINE r == [run[w] EXCEPT !.pc = "checked"]
  <2>1. Become(w, r) BY <1>4 DEF Check, Goto
  <2>2. r \in Run /\ r.pc = "checked" /\ r.seen = run[w].seen BY <1>3 DEF Run
  <2>3. ~Pending BY <1>1, <1>4 DEF Tidy, Clears
  <2>4. r.seen.files = files BY <1>4, <2>2 DEF Revision
  <2>5. Follows(files, r.seen.files, "memory") BY <2>4, FollowsSelf
  <2> HIDE DEF r
  <2> QED BY <1>2, <2>1, <2>2, <2>3, <2>5, PlansTidy
<1>5. CASE ~(lease.owner = w /\ run[w].seen = Revision)
  <2>1. GiveUp(w) BY <1>5 DEF Check
  <2> QED BY <1>2, <2>1, GivesUpTidy
<1> QED BY <1>4, <1>5

\* The documents a consolidation writes.
Merged(w) == IF run[w].result = run[w].seen.files["memory"]
             THEN files["memory"] ELSE run[w].result

LEMMA Prepared ==
    ASSUME WriterInv, NEW w \in Writers, Prepare(w)
    PROVE  \E after \in Contents, r \in Run :
             /\ Publish(w, "commit", after, r) /\ after = Rewriting(Merged(w), run[w].plan.raw)
             /\ r.plan = run[w].plan /\ r.consumed = run[w].consumed /\ r.left = run[w].left
             /\ after["baseMemory"] = Merged(w) /\ after["memory"] = Merged(w)
             /\ after["baseRaw"] = run[w].plan.raw /\ after["raw"] = run[w].plan.raw
<1> DEFINE after == Rewriting(Merged(w), run[w].plan.raw)
           r == [run[w] EXCEPT !.seen = NothingSeen, !.result = {}]
<1>1. Publish(w, "commit", after, r) BY DEF Prepare, Merged
<1>2. run[w] \in Run /\ run[w].plan \in Plan /\ run[w].result \in SUBSET Facts
  BY WriterFacts DEF Run
<1>3. files["memory"] \in SUBSET Facts BY WriterFacts DEF Stored, Contents, Targets
<1>4. Merged(w) \in SUBSET Facts /\ run[w].plan.raw \in SUBSET Facts
  BY <1>2, <1>3, FactParts DEF Plan, Merged
<1>5. /\ after \in Contents
      /\ after["baseMemory"] = Merged(w) /\ after["memory"] = Merged(w)
      /\ after["baseRaw"] = run[w].plan.raw /\ after["raw"] = run[w].plan.raw
  BY <1>4, RewritingType
<1>6. /\ r \in Run /\ r.plan = run[w].plan /\ r.consumed = run[w].consumed
      /\ r.left = run[w].left
  BY <1>2, IdleType DEF Run
<1>7. after = Rewriting(Merged(w), run[w].plan.raw) OBVIOUS
<1> HIDE DEF after, r
<1> QED BY <1>1, <1>5, <1>6, <1>7

LEMMA PrepareTidy ==
    ASSUME WriterInv, Tidy, NEW w \in Writers, Prepare(w)
    PROVE  Tidy'
<1>1. run[w].pc = "checked" /\ UNCHANGED <<files, table, lease, counters, history>>
  BY DEF Prepare
<1>2. ~Pending BY <1>1 DEF Tidy, Clears
<1>3. PICK after \in Contents, r \in Run :
             /\ Publish(w, "commit", after, r)
             /\ after["baseMemory"] = Merged(w) /\ after["memory"] = Merged(w)
             /\ after["baseRaw"] = run[w].plan.raw /\ after["raw"] = run[w].plan.raw
  BY Prepared
<1>4. Owns(w) BY <1>1, WriterFacts DEF Owns, Held, Holding
<1>5. UNCHANGED <<files, marker, committed>> BY <1>1 DEF table, history
<1>6. after["baseMemory"] = after["memory"] /\ after["baseRaw"] = after["raw"] BY <1>3
<1> QED BY <1>2, <1>3, <1>4, <1>5, <1>6, PublishTidy

\* The documents a purge writes.
PurgedMemory(r, given) == Ingested(files["memory"] \ FactsOf(r), given)

LEMMA PurgedFilesAre ==
    ASSUME WriterInv, NEW r, NEW given \in SUBSET Rebuildable(r)
    PROVE  /\ PurgedFiles(r, given) \in Contents /\ PurgedRaw(r) \subseteq files["raw"]
           /\ PurgedFiles(r, given)["baseMemory"] = PurgedMemory(r, given)
           /\ PurgedFiles(r, given)["memory"] = PurgedMemory(r, given)
           /\ PurgedFiles(r, given)["baseRaw"] = PurgedRaw(r)
           /\ PurgedFiles(r, given)["raw"] = PurgedRaw(r)
<1>1. files["memory"] \in SUBSET Facts /\ files["raw"] \in SUBSET Facts
  BY WriterFacts DEF Stored, Contents, Targets
<1>2. PurgedRaw(r) \subseteq files["raw"] /\ PurgedRaw(r) \in SUBSET Facts BY <1>1 DEF PurgedRaw
<1>3. PurgedFiles(r, given) = Rewriting(PurgedMemory(r, given), PurgedRaw(r))
  BY DEF PurgedFiles, PurgedMemory
<1>4. {NoteFact(n) : n \in {k \in Notes : notes[k] = "applied"}} \in SUBSET Facts BY FactParts
<1>5. given \in SUBSET Facts BY <1>2, <1>4 DEF Rebuildable
<1>6. PurgedMemory(r, given) \in SUBSET Facts BY <1>1, <1>5, IngestedType DEF PurgedMemory
<1> QED BY <1>2, <1>3, <1>6, RewritingType

LEMMA PreparePurgeTidy ==
    ASSUME WriterInv, Tidy, NEW w \in Writers, PreparePurge(w)
    PROVE  Tidy'
<1>1. run[w].pc = "planning" /\ UNCHANGED <<files, table, lease, counters, history>>
  BY DEF PreparePurge
<1>2. ~Pending BY <1>1 DEF Tidy, Clears
<1>3. CASE stage[run[w].row].status = "absent"
  <2>1. GiveUp(w) /\ UNCHANGED generations BY <1>3 DEF PreparePurge
  <2>2. Quiet(w) BY <1>1, <2>1 DEF Quiet, table, history
  <2> QED BY <2>1, <2>2, GivesUpTidy
<1>4. CASE stage[run[w].row].status # "absent"
  <2>1. PICK given \in SUBSET Rebuildable(run[w].row) :
          Publish(w, "purge", PurgedFiles(run[w].row, given), run[w])
    BY <1>4 DEF PreparePurge
  <2> DEFINE after == PurgedFiles(run[w].row, given)
  <2>2. run[w] \in Run BY WriterFacts
  <2>3. after \in Contents /\ after["baseMemory"] = after["memory"] /\ after["baseRaw"] = after["raw"]
    BY PurgedFilesAre
  <2>4. Owns(w) BY <1>1, WriterFacts DEF Owns, Held, Holding
  <2>5. UNCHANGED <<files, marker, committed>> BY <1>1 DEF table, history
  <2>6. Publish(w, "purge", after, run[w]) BY <2>1
  <2> HIDE DEF after
  <2> QED BY <1>2, <2>6, <2>2, <2>3, <2>4, <2>5, PublishTidy
<1> QED BY <1>3, <1>4

\* The transaction makes the new side win and commits it.
LEMMA Transacts ==
    ASSUME WriterInv, Tidy, NEW w \in Writers, NEW kind \in {"commit", "purge"},
           run[w].pc = "committing", run[w].kind = kind,
           marker' = Newest.id, Commits, UNCHANGED <<files, generations, lease>>,
           Become(w, [Idle EXCEPT !.kind = kind, !.pc = "marking"])
    PROVE  /\ Tidy' /\ Winner' = Gen.after /\ Agrees(Gen.after)' /\ Gen' = Gen /\ Pending /\ Pending'
           /\ committed'.memory = Gen.after["memory"] /\ committed'.raw = Gen.after["raw"]
           /\ \A t \in Targets : Follows(files, Gen.after, t)
<1>1. /\ Pending /\ Whole /\ Advances(w) /\ lease.owner = w /\ ~lease.out
      /\ Gen \in Generation /\ Newest = Gen
      /\ Gen.touched = Differing(Gen.before, Gen.after)
  BY OwnGen DEF Advancing
<1>0. kind \in {"sync", "commit", "purge"} OBVIOUS
<1>2. PICK r \in Run : /\ r = [Idle EXCEPT !.kind = kind, !.pc = "marking"]
                       /\ r.pc = "marking" /\ r.kind = kind /\ r.todo = {}
  BY <1>0, MarkingType
<1>3. Become(w, r) BY <1>2
<1>4. run'[w] = r BY <1>3, WriterFacts, BecomeType
<1>5. marker' = Gen.id /\ Gen' = Gen /\ Pending' BY <1>1 DEF Gen, Pending
<1>6. Winner' = Gen.after BY <1>5 DEF Winner, Side, Forward
<1>7. committed'.memory = Gen.after["memory"] /\ committed'.raw = Gen.after["raw"]
  BY <1>1 DEF Commits
<1>8. /\ Gen.after["baseMemory"] = Gen.after["memory"] /\ Gen.after["baseRaw"] = Gen.after["raw"]
      /\ run[w].todo = {} /\ \A t \in Gen.touched : Follows(files, Gen.after, t)
  BY <1>1 DEF Advances, Advancing
<1>9. Agrees(Gen.after)' BY <1>5, <1>7, <1>8 DEF Agrees
<1>10. ASSUME NEW t \in Targets PROVE Follows(files, Gen.after, t)
  <2>1. CASE t \in Gen.touched BY <1>8, <2>1
  <2>2. CASE t \notin Gen.touched
    <3>1. Follows(files, Gen.before, t) BY <1>1, <2>2 DEF Whole
    <3>2. Gen.before[t] = Gen.after[t] BY <1>1, <2>2, Untouched
    <3> QED BY <3>1, <3>2 DEF Follows
  <2> QED BY <2>1, <2>2
<1>11. Whole'
  <2>1. \A t \in Targets \ Gen.touched : Follows(files, Gen.before, t) BY <1>1 DEF Whole
  <2>2. Agrees(Winner)' BY <1>5, <1>6, <1>9 DEF Agrees
  <2> QED BY <1>1, <1>5, <2>1, <2>2 DEF Whole
<1>12. Advances(w)' BY <1>2, <1>4, <1>5, <1>8 DEF Advances
<1>13. Recovers(w)' /\ Clears(w)' BY <1>2, <1>4 DEF Recovers, Clears
<1>14. Owns(w) BY <1>1 DEF Owns
<1>15. Tidy' BY <1>3, <1>11, <1>12, <1>13, <1>14, TidyStep
<1> QED BY <1>1, <1>5, <1>6, <1>7, <1>9, <1>10, <1>15

LEMMA CommitTidy ==
    ASSUME WriterInv, Tidy, NEW w \in Writers, Commit(w)
    PROVE  Tidy'
<1>1. /\ run[w].pc = "committing" /\ run[w].kind = "commit" /\ marker' = Newest.id /\ Commits
      /\ UNCHANGED <<files, generations, lease>>
      /\ Become(w, [Idle EXCEPT !.kind = "commit", !.pc = "marking"])
  BY DEF Commit
<1> QED BY <1>1, Transacts

LEMMA CommitPurgeTidy ==
    ASSUME WriterInv, Tidy, NEW w \in Writers, CommitPurge(w)
    PROVE  Tidy'
<1>1. /\ run[w].pc = "committing" /\ run[w].kind = "purge"
      /\ UNCHANGED <<files, generations, lease>>
  BY DEF CommitPurge
<1>2. CASE stage[run[w].row].status = "absent"
  <2>1. Become(w, Recovering(Idle, marker, "releasing")) /\ UNCHANGED <<stage, marker, history>>
    BY <1>2 DEF CommitPurge, history
  <2>2. marker \in GenIds \cup {NoGen} /\ WriterTypes BY WriterFacts DEF Stored
  <2>3. Idle.row = NoRow BY DEF Idle
  <2>4. PICK r \in Run : /\ r = Recovering(Idle, marker, "releasing")
                         /\ r.pc = "recovering" /\ r.skipped = 0 /\ r.mark = marker
                         /\ r.todo = TodoAt(generations, 1)
    BY <2>2, <2>3, RecoveringType
  <2>5. Become(w, r) BY <2>1, <2>4
  <2>6. Quiet(w) BY <1>1, <2>1 DEF Quiet, history
  <2> QED BY <2>4, <2>5, <2>6, RecoversTidy
<1>3. CASE stage[run[w].row].status # "absent"
  <2>1. /\ marker' = Newest.id /\ Commits
        /\ Become(w, [Idle EXCEPT !.kind = "purge", !.pc = "marking"])
    BY <1>3 DEF CommitPurge
  <2> QED BY <1>1, <2>1, Transacts
<1> QED BY <1>2, <1>3

----------------------------------------------------------------------------
(***************************************************************************)
(* Everybody else                                                          *)
(***************************************************************************)
\* A line of the user goes into memory, whether a manifest is there or not.
LEMMA EditTidy ==
    ASSUME WriterInv, Tidy, Edit
    PROVE  Tidy'
<1> DEFINE line == <<User, edits + 1>>
<1>1. edits + 1 \in 1..MaxEdits BY WriterFacts, BoundAssumption DEF Edit, Stored
<1>2. line \in UserFacts BY <1>1 DEF UserFacts
<1>3. files' = [files EXCEPT !["memory"] = files["memory"] \cup {line}] BY DEF Edit
<1> HIDE DEF line
<1>4. /\ files'["memory"] = files["memory"] \cup {line}
      /\ \A t \in Targets \ {"memory"} : files'[t] = files[t]
  BY <1>3, WriterFacts DEF Stored, Contents, Targets
<1>5. UNCHANGED <<generations, marker, committed, lease, run>> BY DEF Edit, table, history
<1>6. ASSUME NEW y, NEW t \in Targets, Follows(files, y, t) PROVE Follows(files', y, t)
  <2>1. CASE t = "memory" BY <1>2, <1>4, <1>6, <2>1 DEF Follows
  <2>2. CASE t # "memory" BY <1>4, <1>6, <2>2 DEF Follows
  <2> QED BY <2>1, <2>2
<1>7. Agrees(files) => Agrees(files')
  <2>1. files'["memory"] \ UserFacts = files["memory"] \ UserFacts BY <1>2, <1>4
  <2> QED BY <1>4, <2>1 DEF Agrees, Targets
<1>8. Whole'
  <2>1. Pending => \A t \in Targets \ Gen.touched : Follows(files', Gen.before, t)
    BY <1>6 DEF Tidy, Whole
  <2>2. Agrees(files)' <=> Agrees(files') BY <1>5 DEF Agrees
  <2> QED BY <1>5, <1>7, <2>1, <2>2 DEF Tidy, Whole, Pending, Gen, Winner, Side, Forward, Agrees
<1>9. ASSUME NEW w \in Writers PROVE Recovers(w)' /\ Advances(w)' /\ Clears(w)'
  <2>1. Recovers(w) /\ Advances(w) /\ Clears(w) /\ run'[w] = run[w] BY <1>5 DEF Tidy
  <2>2. Pending => Gen.touched \subseteq Targets BY OneGen DEF Tidy
  <2>3. run[w].pc \in Advancing => Gen.touched \subseteq Targets BY OwnGen, OneGen DEF Tidy
  <2>4. Recovers(w)'
    <3>1. run[w].pc = "recovering" /\ Pending =>
            \A t \in Gen.touched \ run[w].todo : Follows(files', Winner, t)
      BY <1>6, <2>1, <2>2 DEF Recovers
    <3> QED BY <1>5, <2>1, <3>1 DEF Recovers, Pending, Gen, Winner, Side, Forward
  <2>5. Advances(w)'
    <3>1. run[w].pc \in Advancing =>
            \A t \in Gen.touched \ run[w].todo : Follows(files', Gen.after, t)
      BY <1>6, <2>1, <2>3 DEF Advances
    <3> QED BY <1>5, <2>1, <3>1 DEF Advances, Gen, Forward, Agrees
  <2>6. Clears(w)'
    <3>1. run[w].pc = "checked" => Follows(files', run[w].seen.files, "memory")
      BY <1>6, <2>1 DEF Clears, Targets
    <3> QED BY <1>5, <2>1, <3>1 DEF Clears, Pending
  <2> QED BY <2>4, <2>5, <2>6
<1> QED BY <1>8, <1>9 DEF Tidy

\* A step that touches no file, no manifest and no writer, and gives the lease
\* to nobody else.
LEMMA AsideTidy ==
    ASSUME WriterInv, Tidy, UNCHANGED <<files, generations, marker, committed, run>>,
           lease'.owner = lease.owner
    PROVE  Tidy'
<1>1. Whole' BY WholeKept DEF Tidy
<1>2. ASSUME NEW w \in Writers PROVE Recovers(w)' /\ Advances(w)' /\ Clears(w)'
  <2>1. Recovers(w) /\ Advances(w) /\ Clears(w) BY DEF Tidy
  <2>2. Recovers(w)' BY <2>1 DEF Recovers, Pending, Gen, Winner, Side, Forward
  <2>3. Advances(w)' BY <2>1 DEF Advances, Gen, Forward, Agrees
  <2>4. Clears(w)' BY <2>1 DEF Clears, Pending
  <2> QED BY <2>2, <2>3, <2>4
<1> QED BY <1>1, <1>2 DEF Tidy

LEMMA OutsidersTidy ==
    ASSUME WriterInv, Tidy, Outsiders
    PROVE  Tidy'
<1>1. CASE Edit BY <1>1, EditTidy
<1>2. CASE \E r \in Rows : Upsert(r) \/ Age(r)
  BY <1>2, AsideTidy DEF Upsert, Age, history
<1>3. CASE \E n \in Notes : AddNote(n) BY <1>3, AsideTidy DEF AddNote, history
<1>4. CASE EntryPrune BY <1>4, AsideTidy DEF EntryPrune, history
<1>5. CASE Expire
  <2>1. lease'.owner = lease.owner BY <1>5, WriterFacts DEF Expire, Leases
  <2>2. UNCHANGED <<files, generations, marker, committed, run>>
    BY <1>5 DEF Expire, table, history
  <2> QED BY <2>1, <2>2, AsideTidy
<1> QED BY <1>1, <1>2, <1>3, <1>4, <1>5 DEF Outsiders

LEMMA RestTidy ==
    ASSUME WriterInv, Tidy, NEW w \in Writers,
           Abandon(w) \/ Release(w) \/ Crash(w) \/ RenewTimer(w)
    PROVE  Tidy'
<1>1. CASE Abandon(w)
  <2>1. GiveUp(w) /\ Quiet(w) BY <1>1 DEF Abandon, Quiet, table, history
  <2> QED BY <2>1, GivesUpTidy
<1>2. CASE Release(w)
  <2>1. Become(w, Idle) /\ Quiet(w) BY <1>2 DEF Release, Quiet, table, history
  <2>2. Idle \in Run /\ Idle.pc = "idle" BY IdleType DEF Idle
  <2> QED BY <2>1, <2>2, RestsTidy
<1>3. CASE Crash(w)
  <2>1. Become(w, Idle) /\ Quiet(w) BY <1>3 DEF Crash, Quiet, table, history
  <2>2. Idle \in Run /\ Idle.pc = "idle" BY IdleType DEF Idle
  <2> QED BY <2>1, <2>2, RestsTidy
<1>4. CASE RenewTimer(w)
  <2>1. lease'.owner = lease.owner BY <1>4, WriterFacts DEF RenewTimer, Leases
  <2>2. UNCHANGED <<files, generations, marker, committed, run>>
    BY <1>4 DEF RenewTimer, table, history
  <2> QED BY <2>1, <2>2, AsideTidy
<1> QED BY <1>1, <1>2, <1>3, <1>4

\* Every step but a recovery that is skipped.
Skips == \E w \in Writers : RecoverSkip(w)

LEMMA TidyNext ==
    ASSUME WriterInv, Tidy, [Next]_vars, ~Skips
    PROVE  Tidy'
<1>1. CASE UNCHANGED vars BY <1>1, AsideTidy DEF vars
<1>2. CASE Outsiders BY <1>2, OutsidersTidy
<1>3. ASSUME NEW w \in Writers, Writer(w) PROVE Tidy'
  <2>1. CASE \E r \in Purgeable \cup {NoRow} : Acquire(w, r) BY <2>1, AcquireTidy
  <2>2. CASE RenewTimer(w) \/ Throws(w) \/ Abandon(w) \/ Crash(w) BY <2>2, RestTidy, ThrowsTidy
  <2>3. CASE RecoverTarget(w) \/ RecoverDiscard(w) \/ RecoverDone(w)
             \/ ApplyTarget(w) \/ Mark(w) \/ Discard(w)
    BY <2>3, RecoverTargetTidy, RecoverDiscardTidy, RecoverDoneTidy, ApplyTargetTidy,
       MarkTidy, DiscardTidy
  <2>4. CASE Look(w) \/ PlanAndSync(w) \/ Contend(w) \/ Ask(w) \/ ProviderReturns(w)
    BY <2>4, LookTidy, PlanAndSyncTidy, ContendTidy, AskTidy, ProviderReturnsTidy
  <2>5. CASE Check(w) \/ Prepare(w) \/ Commit(w) \/ PreparePurge(w) \/ CommitPurge(w) \/ Release(w)
    BY <2>5, CheckTidy, PrepareTidy, CommitTidy, PreparePurgeTidy, CommitPurgeTidy, RestTidy
  <2>6. ~RecoverSkip(w) BY DEF Skips
  <2> QED BY <1>3, <2>1, <2>2, <2>3, <2>4, <2>5, <2>6 DEF Writer, Works
<1> QED BY <1>1, <1>2, <1>3 DEF Next

LEMMA TidyInit == Init => Tidy
<1> SUFFICES ASSUME Init PROVE Tidy OBVIOUS
<1>1. generations = <<>> /\ Len(generations) = 0 BY DEF Init
<1>2. ~Pending BY <1>1 DEF Pending
<1>3. Agrees(files) BY DEF Init, NoContents, Agrees, Targets
<1>4. \A w \in Writers : run[w].pc = "idle" BY DEF Init, Idle
<1> QED BY <1>1, <1>2, <1>3, <1>4 DEF Tidy, Whole, Recovers, Advances, Clears, Advancing

----------------------------------------------------------------------------
(***************************************************************************)
(* What recovery would leave                                               *)
(***************************************************************************)
\* No recovery was skipped in a step after which none ever was.
LEMMA NoneSkipped ==
    ASSUME WriterInv, [Next]_vars, skips' = 0
    PROVE  skips = 0 /\ ~Skips
<1>1. skips \in 0..MaxSkips BY WriterFacts DEF Stored
<1>2. ~Skips
  <2>1. ASSUME NEW w \in Writers, RecoverSkip(w) PROVE FALSE
    <3>1. skips' = skips + 1 BY <2>1 DEF RecoverSkip
    <3> QED BY <1>1, <3>1, BoundAssumption
  <2> QED BY <2>1 DEF Skips
<1>3. skips' = skips
  <2>1. CASE UNCHANGED vars BY <2>1 DEF vars
  <2>2. CASE Outsiders
    BY <2>2 DEF Outsiders, Upsert, Age, AddNote, EntryPrune, Edit, Expire, counters
  <2>3. ASSUME NEW w \in Writers, Writer(w) PROVE skips' = skips
    <3>1. CASE \E r \in Purgeable \cup {NoRow} : Acquire(w, r) BY <3>1 DEF Acquire, counters
    <3>2. CASE RenewTimer(w) \/ Throws(w) \/ Abandon(w) \/ Crash(w)
      BY <3>2 DEF RenewTimer, Throws, Abandon, Crash, counters
    <3>3. CASE RecoverTarget(w) \/ RecoverDiscard(w) \/ RecoverDone(w)
               \/ ApplyTarget(w) \/ Mark(w) \/ Discard(w)
      BY <3>3 DEF RecoverTarget, RecoverDiscard, RecoverDone, ApplyTarget, Mark, Discard, counters
    <3>4. CASE Look(w) \/ PlanAndSync(w) \/ Contend(w) \/ Ask(w) \/ ProviderReturns(w)
      BY <3>4 DEF Look, PlanAndSync, Contend, Ask, ProviderReturns, counters
    <3>5. CASE Check(w) \/ Prepare(w) \/ Commit(w) \/ PreparePurge(w) \/ CommitPurge(w) \/ Release(w)
      BY <3>5 DEF Check, Prepare, Commit, PreparePurge, CommitPurge, Release, counters
    <3> QED BY <1>2, <2>3, <3>1, <3>2, <3>3, <3>4, <3>5 DEF Writer, Works, Skips
  <2> QED BY <2>1, <2>2, <2>3 DEF Next
<1> QED BY <1>2, <1>3

\* Every file is as the manifest wants it, or as it is if there is none.
LEMMA ViewIs ==
    WriterInv /\ Whole =>
        \A t \in Targets : View[t] = IF Pending /\ t \in Gen.touched THEN Winner[t] ELSE files[t]
<1> SUFFICES ASSUME WriterInv, Whole, NEW t \in Targets
             PROVE  View[t] = IF Pending /\ t \in Gen.touched THEN Winner[t] ELSE files[t]
  OBVIOUS
<1> DEFINE covering == {i \in 1..Len(generations) : t \in generations[i].touched}
<1>1. View[t] = IF covering = {} THEN files[t]
                ELSE Side(generations[CHOOSE i \in covering : \A j \in covering : i >= j], marker)[t]
  BY DEF View
<1>2. CASE ~Pending
  <2>1. Len(generations) = 0 BY <1>2 DEF Pending
  <2>2. covering = {} BY <2>1
  <2> HIDE DEF covering
  <2> QED BY <1>1, <1>2, <2>2
<1>3. CASE Pending
  <2>1. Len(generations) = 1 BY <1>3, OneGen
  <2>2. CASE t \in Gen.touched
    <3>1. covering = {1} BY <2>1, <2>2 DEF Gen
    <3> HIDE DEF covering
    <3>2. (CHOOSE i \in covering : \A j \in covering : i >= j) = 1 BY <3>1
    <3> QED BY <1>1, <1>3, <2>2, <3>1, <3>2 DEF Winner, Gen
  <2>3. CASE t \notin Gen.touched
    <3>1. covering = {} BY <2>1, <2>3 DEF Gen
    <3> HIDE DEF covering
    <3> QED BY <1>1, <1>3, <2>3, <3>1
  <2> QED BY <2>2, <2>3
<1> QED BY <1>2, <1>3

\* But for lines of the user, that is the side of the manifest that wins.
LEMMA ViewFollows ==
    ASSUME WriterInv, Whole
    PROVE  /\ Pending => \A t \in Targets : Follows(View, Winner, t)
           /\ ~Pending => \A t \in Targets : View[t] = files[t]
<1>1. CASE ~Pending BY <1>1, ViewIs
<1>2. CASE Pending
  <2>1. Gen \in Generation /\ Gen.touched = Differing(Gen.before, Gen.after)
    BY <1>2, OneGen DEF Whole
  <2>2. ASSUME NEW t \in Targets PROVE Follows(View, Winner, t)
    <3>1. CASE t \in Gen.touched BY <1>2, <3>1, ViewIs, FollowsSelf
    <3>2. CASE t \notin Gen.touched
      <4>1. View[t] = files[t] BY <3>2, ViewIs
      <4>2. Follows(files, Gen.before, t) BY <1>2, <3>2 DEF Whole
      <4>3. Winner[t] = Gen.before[t] BY <2>1, <3>2, Untouched DEF Winner
      <4> QED BY <4>1, <4>2, <4>3 DEF Follows
    <3> QED BY <3>1, <3>2
  <2> QED BY <1>2, <2>2
<1> QED BY <1>1, <1>2

LEMMA ViewAgrees ==
    ASSUME WriterInv, Whole
    PROVE  Agrees(View)
<1>1. CASE ~Pending
  <2>1. View["baseMemory"] = files["baseMemory"] /\ View["baseRaw"] = files["baseRaw"]
        /\ View["memory"] = files["memory"]
    BY <1>1, ViewFollows DEF Targets
  <2>2. Agrees(files) BY <1>1 DEF Whole
  <2> QED BY <2>1, <2>2 DEF Agrees
<1>2. CASE Pending
  <2>1. Agrees(Winner) BY <1>2 DEF Whole
  <2> QED BY <1>2, <2>1, ViewFollows, FollowsAgrees
<1> QED BY <1>1, <1>2

\* As long as no recovery is skipped, the workspace is tidy.
TidyUnlessSkipped == skips = 0 => Tidy

LEMMA TidyHolds == PlansAwake => (Spec => [](WriterInv /\ TidyUnlessSkipped))
<1>1. ASSUME PlansAwake PROVE Spec => [](WriterInv /\ TidyUnlessSkipped)
  <2>1. Init => WriterInv /\ TidyUnlessSkipped BY WriterInit, TidyInit DEF TidyUnlessSkipped
  <2>2. (WriterInv /\ TidyUnlessSkipped) /\ [Next]_vars => (WriterInv /\ TidyUnlessSkipped)'
    <3> SUFFICES ASSUME WriterInv, TidyUnlessSkipped, [Next]_vars
                 PROVE  WriterInv' /\ (skips' = 0 => Tidy')
      BY DEF TidyUnlessSkipped
    <3>1. WriterInv' BY <1>1, WriterInvStep
    <3>2. skips' = 0 => Tidy' BY NoneSkipped, TidyNext DEF TidyUnlessSkipped
    <3> QED BY <3>1, <3>2
  <2> QED BY <2>1, <2>2, PTL DEF Spec
<1> QED BY <1>1

\* Wherever a writer dies, recovery leaves the files of the last transaction,
\* whatever the user wrote meanwhile, until a recovery fails and is skipped.
THEOREM AllOldOrAllNewUnlessSkipped ==
    PlansAwake => (Spec => [](skips = 0 => AllOldOrAllNew))
<1>1. WriterInv /\ TidyUnlessSkipped => (skips = 0 => AllOldOrAllNew)
  BY ViewAgrees DEF TidyUnlessSkipped, Tidy, Agrees, AllOldOrAllNew
<1> QED BY <1>1, TidyHolds, PTL

\* In particular, where every recovery succeeds that is so for good.
THEOREM AllOldOrAllNewHolds ==
    PlansAwake /\ MaxSkips = 0 => (Spec => []AllOldOrAllNew)
<1>1. ASSUME MaxSkips = 0, PlansAwake PROVE Spec => []AllOldOrAllNew
  <2>1. WriterInv => skips = 0 BY <1>1, WriterFacts DEF Stored
  <2>2. Spec => []WriterInv BY <1>1, WriterInvHolds
  <2>3. Spec => [](skips = 0 => AllOldOrAllNew) BY <1>1, AllOldOrAllNewUnlessSkipped
  <2> QED BY <2>1, <2>2, <2>3, PTL
<1> QED BY <1>1
=============================================================================
