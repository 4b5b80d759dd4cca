------------------------------ MODULE Receipts ------------------------------
(***************************************************************************)
(* How what happened in a store becomes receipts and job updates on a page *)
(* (plugin/bridge.ts refreshOnce, services/projector.ts, audit.ts,         *)
(* queue.ts and snapshot.ts, client/ui/model.ts): the bridge reads the     *)
(* tail of the audit table and compares the queue with what it last saw,   *)
(* and the page folds these deltas into what a snapshot showed it.         *)
(*                                                                         *)
(* UiStream has the stream between the two with its faults; here one page  *)
(* of one store has a stream, and the table is what may surprise: SQLite   *)
(* numbers a row one above the highest it finds, rows are pruned and       *)
(* purged, and writers go on between the two halves of a refresh.          *)
(***************************************************************************)
EXTENDS Integers, Sequences, SequencesExt, FiniteSets, Subsequences

CONSTANTS
    JobIds,
    Statuses,      \* of a job that is there; "completed" is one
    BatchLimit,    \* LIMIT of a refresh: 500
    SnapshotLimit, \* audit rows of a snapshot: 60
    ReceiptLimit,  \* RECEIPT_LIMIT: 30
    AuditCap,      \* rows that auditPrune keeps: 20 000
    PruneEvery,    \* and how often it runs: every 256 rows
    MaxAudit,      \* bound: audit rows written
    MaxMoves       \* bound: snapshots read and changes of the queue, together

ASSUME ReceiptsAssumption ==
    /\ {"pending", "completed"} \subseteq Statuses
    /\ BatchLimit \in Nat \ {0} /\ SnapshotLimit \in Nat \ {0} /\ ReceiptLimit \in Nat \ {0}
    /\ AuditCap \in Nat \ {0} /\ PruneEvery \in Nat \ {0}
    /\ MaxAudit \in Nat /\ MaxMoves \in Nat

VARIABLES
    audit,  \* the table, by rowid
    jobs,   \* extraction_jobs: the status of each, or Absent
    feed,   \* the bridge, for this store
    sent,   \* the batches on their way
    view,   \* the page
    tally,  \* what the bounds count
    past    \* history

receiptVars == <<audit, jobs, feed, sent, view, tally, past>>

Absent == "absent"
Unread == <<>> \* a queue that was never read
NoShot == [state |-> "none", at |-> 0, rows |-> <<>>]

\* isWritePathAction: only these become receipts.
WritePath(row) == row.kind \in {"staged", "purge"}
\* A receipt is known by time, action and detail: the row's own number here.
Ids(rows) == [i \in 1..Len(rows) |-> rows[i].id]
Receipts(rows) == Ids(Kept(rows, {r \in ToSet(rows) : WritePath(r)}))
FirstOf(n, s) == SubSeq(s, 1, IF Len(s) < n THEN Len(s) ELSE n)

\* last, jobs: the baseline of the next refresh.  fresh: receipts of this one.
NewFeed == [at |-> "idle", seeded |-> FALSE, last |-> 0, jobs |-> Unread, first |-> FALSE, fresh |-> <<>>]

\* folded: what a page knows of the jobs that folds every delta.  reach: the
\* oldest row of the snapshot that the page has, if there may be older ones.
ReceiptsInit ==
    /\ audit = <<>> /\ jobs \in [JobIds -> {Absent, "pending"}]
    /\ feed = NewFeed /\ sent = <<>>
    /\ view = [seeded |-> FALSE, receipts |-> <<>>, last |-> 0, shot |-> NoShot]
    /\ tally = [rows |-> 0, moves |-> 0, batches |-> 0]
    /\ past = [told |-> <<>>, missed |-> {}, folded |-> Unread, reach |-> 0]

-----------------------------------------------------------------------------
(* The store.                                                              *)

MaxRowid(rows) == IF rows = <<>> THEN 0 ELSE Last(rows).rid
\* auditPrune: the newest rows stay.
Pruned(rows) ==
    IF MaxRowid(rows) % PruneEvery = 0 /\ Len(rows) > AuditCap
    THEN SubSeq(rows, Len(rows) - AuditCap + 1, Len(rows)) ELSE rows

\* Index.audit.  A row may get a number that the bridge has read before.
Inserted(rows, kind) == Append(rows, [rid |-> MaxRowid(rows) + 1, id |-> tally.rows + 1, kind |-> kind])
Audits(rows, kind) ==
    /\ tally.rows < MaxAudit /\ tally' = [tally EXCEPT !.rows = @ + 1]
    /\ audit' = Pruned(Inserted(rows, kind))
    /\ LET unread == {r.id : r \in {x \in ToSet(audit) : x.rid > feed.last}} \ ToSet(Ids(audit'))
           reused == IF MaxRowid(rows) < feed.last THEN {tally.rows + 1} ELSE {}
       IN  past' = [past EXCEPT !.missed = @ \cup unread \cup reused]

Audit(kind) == Audits(audit, kind) /\ UNCHANGED <<jobs, feed, sent, view>>

\* purgeAuditMatches and purgeAuditExact, then the purge's own row: the rows
\* that name the rollout, whichever they are, and its jobs.
PurgeRollout(about, gone) ==
    /\ Audits(Kept(audit, {r \in ToSet(audit) : r.id \notin about}), "purge")
    /\ jobs' = [j \in JobIds |-> IF j \in gone THEN Absent ELSE jobs[j]]
    /\ UNCHANGED <<feed, sent, view>>

\* Any change that ExtractionQueue makes, removal and revival included.
JobTurns(j, status) ==
    /\ tally.moves < MaxMoves /\ jobs[j] # status
    /\ jobs[j] = Absent => status = "pending"
    /\ jobs' = [jobs EXCEPT ![j] = status]
    /\ tally' = [tally EXCEPT !.moves = @ + 1]
    /\ UNCHANGED <<audit, feed, sent, view, past>>

-----------------------------------------------------------------------------
(* The bridge: refreshOnce.                                                *)

\* Mutant: the baseline is the tail of the table at every refresh.
NextBaselineTail(rows) == MaxRowid(audit)
\* The last row that was read: a limit leaves the others to the next refresh.
NextBaseline(rows) == IF rows = <<>> THEN feed.last ELSE Last(rows).rid

\* The first one seeds the baseline from the tail: what is there is history.
Seed ==
    /\ feed.at = "idle" /\ ~feed.seeded
    /\ feed' = [feed EXCEPT !.at = "queue", !.seeded = TRUE, !.first = TRUE, !.last = MaxRowid(audit)]
    /\ past' = [past EXCEPT !.missed = @ \cup ToSet(Ids(audit))]
    /\ UNCHANGED <<audit, jobs, sent, view, tally>>

ReadTail ==
    /\ feed.at = "idle" /\ feed.seeded
    /\ LET rows == FirstOf(BatchLimit, Kept(audit, {r \in ToSet(audit) : r.rid > feed.last}))
       IN  feed' = [feed EXCEPT !.at = "queue", !.first = FALSE, !.last = NextBaseline(rows), !.fresh = Receipts(rows)]
    /\ UNCHANGED <<audit, jobs, sent, view, tally, past>>

\* queue.list: completed jobs are not in it.
Live(q) == [j \in JobIds |-> IF q[j] = "completed" THEN Absent ELSE q[j]]

\* A job that is gone is told as completed.
Changes(before, now) ==
    [j \in {k \in JobIds : before[k] # now[k]} |-> IF now[j] = Absent THEN "completed" ELSE now[j]]

Told(changes) ==
    IF past.folded = Unread THEN Unread
    ELSE [j \in JobIds |-> IF j \in DOMAIN changes THEN changes[j] ELSE past.folded[j]]

\* push: nothing new is not sent.
Send(receipts, changes) ==
    /\ sent' = IF receipts = <<>> /\ DOMAIN changes = {} THEN sent ELSE Append(sent, receipts)
    /\ tally' = [tally EXCEPT !.batches = @ + Len(sent') - Len(sent)]
    /\ past' = [past EXCEPT !.told = @ \o receipts,
                            !.folded = IF feed'.jobs # Unread /\ feed.jobs = Unread THEN Live(jobs) ELSE Told(changes)]

\* The queue is read after the audit table; if that fails, its part waits.
EndRefresh(ok) ==
    /\ feed.at = "queue"
    /\ feed' = [feed EXCEPT !.at = "idle", !.fresh = <<>>, !.jobs = IF ok THEN Live(jobs) ELSE @]
    /\ Send(feed.fresh, IF ok /\ feed.jobs # Unread /\ ~feed.first THEN Changes(feed.jobs, Live(jobs)) ELSE <<>>)
    /\ UNCHANGED <<audit, jobs, view>>

-----------------------------------------------------------------------------
(* The page.                                                               *)

\* A snapshot is labelled with what was sent before its rows are read.
AskShot ==
    /\ view.shot.state = "none" /\ tally.moves < MaxMoves
    /\ view' = [view EXCEPT !.shot = [NoShot EXCEPT !.state = "asked", !.at = tally.batches]]
    /\ tally' = [tally EXCEPT !.moves = @ + 1]
    /\ UNCHANGED <<audit, jobs, feed, sent, past>>

BuildShot ==
    /\ view.shot.state = "asked"
    /\ view' = [view EXCEPT !.shot.state = "built", !.shot.rows = FirstOf(SnapshotLimit, Reverse(audit))]
    /\ UNCHANGED <<audit, jobs, feed, sent, tally, past>>

Reach(rows) == IF Len(rows) < SnapshotLimit THEN 0 ELSE Last(rows).id
\* applySnapshot, if no frame is newer.
ApplySnapshot ==
    /\ view.shot.state = "built"
    /\ IF view.shot.at < view.last
       THEN view' = [view EXCEPT !.shot = NoShot] /\ UNCHANGED past
       ELSE /\ view' = [view EXCEPT !.seeded = TRUE, !.shot = NoShot,
                                   !.receipts = FirstOf(ReceiptLimit, Receipts(view.shot.rows))]
            /\ past' = [past EXCEPT !.reach = Reach(view.shot.rows)]
    /\ UNCHANGED <<audit, jobs, feed, sent, tally>>

\* A receipt goes to the head, once.
OnTop(shown, id) == FirstOf(ReceiptLimit, <<id>> \o Kept(shown, ToSet(shown) \ {id}))
\* What is shown after the first i of a batch, for every i.
ShownAfter(shown, batch) ==
    LET after[i \in 0..Len(batch)] == IF i = 0 THEN shown ELSE OnTop(after[i - 1], batch[i])
    IN  after

\* applyDeltas.
ApplyDeltas ==
    /\ view.seeded /\ sent # <<>>
    /\ sent' = Tail(sent)
    /\ view' = [view EXCEPT !.receipts = ShownAfter(@, Head(sent))[Len(Head(sent))], !.last = tally.batches - Len(sent')]
    /\ UNCHANGED <<audit, jobs, feed, tally, past>>

ReceiptsNext ==
    \/ \E kind \in {"staged", "queued"} : Audit(kind)
    \/ \E about \in SUBSET ToSet(Ids(audit)), gone \in SUBSET JobIds : PurgeRollout(about, gone)
    \/ \E j \in JobIds, status \in Statuses \cup {Absent} : JobTurns(j, status)
    \/ Seed \/ ReadTail \/ \E ok \in BOOLEAN : EndRefresh(ok)
    \/ AskShot \/ BuildShot \/ ApplySnapshot \/ ApplyDeltas

ReceiptsSpec == ReceiptsInit /\ [][ReceiptsNext]_receiptVars

-----------------------------------------------------------------------------
ReceiptsTypeOK ==
    /\ \A i \in 1..Len(audit) : audit[i].id \in 1..MaxAudit /\ audit[i].rid \in 1..MaxAudit
                                /\ audit[i].kind \in {"staged", "queued", "purge"}
    /\ jobs \in [JobIds -> Statuses \cup {Absent}]
    /\ feed.at \in {"idle", "queue"} /\ feed.seeded \in BOOLEAN /\ feed.last \in 0..MaxAudit
    /\ feed.jobs = Unread \/ feed.jobs \in [JobIds -> Statuses \cup {Absent}]
    /\ Len(view.receipts) <= ReceiptLimit
    /\ view.last <= tally.batches /\ view.shot.state \in {"none", "asked", "built"}

\* Who folds the job updates has the queue of the last refresh: a job that is
\* not in it any more was told to be completed.
QueueIsFolded ==
    feed.jobs # Unread =>
        \A j \in JobIds : past.folded[j] = IF feed.jobs[j] = Absent /\ past.folded[j] = "completed" THEN "completed" ELSE feed.jobs[j]

FeedIsComplete ==
    /\ \A i, k \in 1..Len(past.told) : i < k => past.told[i] < past.told[k]
    /\ \A i \in 1..Len(audit) :
          WritePath(audit[i]) /\ feed.seeded /\ audit[i].rid <= feed.last =>
             audit[i].id \in ToSet(past.told) \cup ToSet(feed.fresh) \cup past.missed
    /\ QueueIsFolded

CaughtUp == feed.at = "idle" /\ feed.last >= MaxRowid(audit) /\ sent = <<>> /\ view.seeded /\ view.shot = NoShot
ReceiptsAreCurrent ==
    CaughtUp =>
        LET shown == view.receipts
        IN  /\ \A i, k \in 1..Len(shown) : i < k => shown[i] > shown[k] \/ shown[k] \in past.missed
            /\ \A r \in ToSet(audit) :
                  WritePath(r) /\ r.id >= past.reach /\ r.id \notin past.missed =>
                     r.id \in ToSet(shown) \/ (Len(shown) = ReceiptLimit /\ \A id \in ToSet(shown) : id > r.id)

\* The bridge hands out each write once, in the order of the table, and leaves
\* none out that it has passed: through limits, pruning, purges, a queue that
\* cannot be read and refreshes that overlap with writes.  What was there at
\* the first refresh is history; missed is a row that got the number of a
\* deleted one.  Who folds the job updates has the queue of the last refresh.
\* When nothing is on its way the page shows the newest writes, newest first,
\* as far back as its snapshot went: whichever of a snapshot and a delta
\* brought a receipt earlier, or both.
ReceiptsArrive == FeedIsComplete /\ ReceiptsAreCurrent
=============================================================================
