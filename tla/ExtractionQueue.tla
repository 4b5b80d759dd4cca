-------------------------- MODULE ExtractionQueue --------------------------
(***************************************************************************)
(* The durable Phase-1 queue: the extraction_jobs table of a store, the    *)
(* worker that drains it (processExtractionQueue, core/extract.ts) and the *)
(* stage1_outputs rows it writes, one per session.                         *)
(*                                                                         *)
(* Several worker runs, possibly of several processes, share the table.    *)
(* Each SQL transaction is one action; between two of them (the provider   *)
(* call, the reopening of the index) anything else may happen: another     *)
(* worker reclaims the row, the user pauses the workspace or purges the    *)
(* session, the process dies.                                              *)
(*                                                                         *)
(* Time is relative to the present: lease is what is left of lease_until,  *)
(* and wait what is left until next_attempt_at.  A row that has been ready *)
(* for OrderWindow ticks or longer sits at -OrderWindow.                   *)
(***************************************************************************)
EXTENDS Integers, FiniteSets

CONSTANTS
    Jobs,           \* idempotency keys: (provider, host, session, event, content)
    Sessions,       \* sessions, that is rollout keys
    Providers,      \* extraction providers
    Workers,        \* runs of processExtractionQueue, in any process
    NoJob, NoRun,   \* the absence of a job, and of a claim token
    SessionOf,      \* [Jobs -> Sessions]
    EventOf,        \* [Jobs -> Events]
    ProviderOf,     \* [Jobs -> Providers]
    WorkerProvider, \* [Workers -> Providers], whose queue a worker drains
    Lease,          \* ticks a claim lasts (leaseMs)
    RetryDelay,     \* ticks before a failed job is tried again (1 h)
    ReleaseDelay,   \* ticks before a released job is tried again (60 s)
    MaxAttempts,    \* failed attempts that dead-letter a job (3)
    MaxRunning,     \* MAX_RUNNING_EXTRACTIONS, per provider (8)
    OrderWindow,    \* ticks for which the order of becoming ready is kept
    MaxEnqueues,    \* bound: enqueues of a behaviour
    MaxDisturbances \* bound: crashes, stalls, aborts, toggles, operator actions

Events == {"session_end", "idle", "backfill"}

ASSUME ShapeAssumption ==
    /\ SessionOf \in [Jobs -> Sessions]
    /\ EventOf \in [Jobs -> Events]
    /\ ProviderOf \in [Jobs -> Providers]
    /\ WorkerProvider \in [Workers -> Providers]
    /\ NoJob \notin Jobs
    /\ NoRun \notin Workers

ASSUME TimingAssumption ==
    /\ Lease \in Nat \ {0}
    /\ RetryDelay \in Nat
    /\ ReleaseDelay \in Nat
    /\ OrderWindow \in Nat
    /\ MaxAttempts \in Nat \ {0}
    /\ MaxRunning \in Nat \ {0}
    /\ MaxEnqueues \in Nat
    /\ MaxDisturbances \in Nat

ASSUME FiniteJobs == IsFiniteSet(Jobs)

VARIABLES
    row,          \* [Jobs -> Row], the extraction_jobs table
    stage,        \* [Sessions -> StageRow], the stage1_outputs table
    run,          \* [Workers -> Run], the local state of each worker run
    paused,       \* the workspace gate every isPaused() reads
    configured,   \* providers whose availability() says configured
    policyMarker, \* meta extract.policy_requeue_v1
    enqueues,     \* rows inserted so far; the clock of created_at
    disturbances, \* crashes, stalls, ... so far
    ledger,       \* history: per row since it entered the queue, failed and lost attempts
    landed,       \* history: how often an outcome of the row was committed
    wiped         \* history: sessions purged and not enqueued again

tables == <<row, stage, policyMarker>>
env == <<paused, configured>>
history == <<ledger, landed, wiped>>
vars == <<row, stage, run, paused, configured, policyMarker, enqueues,
          disturbances, ledger, landed, wiped>>

Statuses == {"absent", "pending", "processing", "blocked", "completed", "dead"}

\* Why a row is in its status: last_error, or the audit entry of a completion.
Reasons == {"none", "output", "noop", "superseded", "failed", "rejected",
            "released", "unconfigured", "pruned", "purged"}

Row == [status : Statuses, attempts : Nat, wait : Int, lease : Nat,
        token : Workers \cup {NoRun}, created : Nat, why : Reasons]

\* What a provider call can end in: a result, "nothing to remember", an
\* exception of each class the worker tells apart.
Outcomes == {"output", "noop", "failed", "rejected", "aborted", "unconfigured"}

\* "paused" stands for the outcome of a run that found its workspace disabled.
Run == [pc : {"idle", "opening", "claiming", "extracting", "returned"},
        job : Jobs \cup {NoJob}, outcome : Outcomes \cup {"paused"}, lost : BOOLEAN]

NoStage == [rank |-> -1, updated |-> 0]
StageRow == [rank : {-1, 0, 1, 2}, updated : Nat]

\* checkpointRankFor
Rank(event) == CASE event = "session_end" -> 2
                 [] event = "idle" -> 1
                 [] OTHER -> 0

MaxOf(a, b) == IF a >= b THEN a ELSE b

----------------------------------------------------------------------------
(***************************************************************************)
(* Reading the table                                                       *)
(***************************************************************************)
InQueue(j) == row[j].status \in {"pending", "processing", "blocked"}

\* Rows whose processing lease has not run out: those the cap counts.
Live(j) == row[j].status = "processing" /\ row[j].lease > 0
Running(p) == {j \in Jobs : ProviderOf[j] = p /\ Live(j)}

AtCapOffByOne(p) == Cardinality(Running(p)) > MaxRunning  \* mutant
AtCap(p) == Cardinality(Running(p)) >= MaxRunning

ReadyPendingOnly(p) == {j \in Jobs : /\ ProviderOf[j] = p  \* mutant
                                     /\ row[j].wait <= 0
                                     /\ row[j].status = "pending"}
\* The rows a claim may look at: due, and pending or abandoned.
Ready(p) == {j \in Jobs : /\ ProviderOf[j] = p
                          /\ row[j].wait <= 0
                          /\ row[j].status \in {"pending", "processing"}
                          /\ ~Live(j)}

\* ORDER BY next_attempt_at, created_at; two rows that both became ready
\* more than OrderWindow ticks ago may come in either order.
Before(j, k) == \/ row[j].wait < row[k].wait
                \/ /\ row[j].wait = row[k].wait
                   /\ row[j].wait > -OrderWindow
                   /\ row[j].created < row[k].created

SupersedesNoLater(k, j) == /\ SessionOf[k] = SessionOf[j]  \* mutant
                           /\ row[k].created >= row[j].created
                           /\ row[k].status \in {"pending", "processing", "completed", "blocked"}
                           /\ EventOf[k] = "session_end" \/ EventOf[k] = EventOf[j]
\* Row k makes claiming j pointless.  The query does not look at k's provider.
Supersedes(k, j) == /\ SessionOf[k] = SessionOf[j]
                    /\ row[k].created > row[j].created
                    /\ row[k].status \in {"pending", "processing", "completed", "blocked"}
                    /\ EventOf[k] = "session_end" \/ EventOf[k] = EventOf[j]

Superseded(j) == \E k \in Jobs : Supersedes(k, j)

OwnsUnfenced(w) == run[w].job # NoJob  \* mutant
\* The claim token and an unexpired lease: what every write of a worker checks.
Owns(w) == LET j == run[w].job IN
    j # NoJob /\ Live(j) /\ row[j].token = w

----------------------------------------------------------------------------
(***************************************************************************)
(* Writing a row                                                           *)
(***************************************************************************)
Out(r, status, why) == [r EXCEPT !.status = status, !.why = why,
                                 !.lease = 0, !.token = NoRun]

HandBackNothing(r) == r.attempts  \* mutant
\* extractionRelease, extractionBlockClaim: the attempt is handed back.
HandBack(r) == MaxOf(r.attempts - 1, 0)

Retire(r) == Out(r, "completed", "superseded")

Claimed(r, w) == [r EXCEPT !.status = "processing", !.attempts = @ + 1,
                           !.lease = Lease, !.token = w, !.why = "none"]

\* A claim of an abandoned row writes off the attempt that held it.
Abandoned(j) == row[j].status = "processing"

\* extractionPruneCompleted and extractionPruneDead drop rows past an age or
\* a count; which older terminal rows are past it is left open.
Prunable(status) == SUBSET {j \in Jobs : row[j].status = status}

UpsertLatest(old, new) == IF new.updated >= old.updated THEN new ELSE old  \* mutant
\* stageUpsert: the row is replaced by a checkpoint of higher rank, or of the
\* same rank and no older.
Upsert(old, new) == IF \/ new.rank > old.rank
                       \/ new.rank = old.rank /\ new.updated >= old.updated
                    THEN new ELSE old

Checkpoint(j) == [rank |-> Rank(EventOf[j]), updated |-> row[j].created]

Disturb == /\ disturbances < MaxDisturbances
           /\ disturbances' = disturbances + 1

Idle == [pc |-> "idle", job |-> NoJob, outcome |-> "noop", lost |-> FALSE]
Finish(w) == run' = [run EXCEPT ![w] = Idle]
Return(w, outcome) ==
    run' = [run EXCEPT ![w].pc = "returned", ![w].outcome = outcome]

----------------------------------------------------------------------------
(***************************************************************************)
(* Hosts                                                                   *)
(***************************************************************************)
Init ==
    /\ row = [j \in Jobs |-> [status |-> "absent", attempts |-> 0, wait |-> 0,
                              lease |-> 0, token |-> NoRun, created |-> 0,
                              why |-> "none"]]
    /\ stage = [s \in Sessions |-> NoStage]
    /\ run = [w \in Workers |-> Idle]
    /\ paused = FALSE
    /\ configured = Providers
    /\ policyMarker = FALSE
    /\ enqueues = 0
    /\ disturbances = 0
    /\ ledger = [j \in Jobs |-> [failed |-> 0, lost |-> 0]]
    /\ landed = [j \in Jobs |-> 0]
    /\ wiped = {}

NewRow(created) == [status |-> "pending", attempts |-> 0, wait |-> 0, lease |-> 0,
                    token |-> NoRun, created |-> created, why |-> "none"]

\* enqueueExtractionJob: INSERT OR IGNORE, so a key already in the table is
\* left as it is.
Enqueue(j) ==
    /\ enqueues < MaxEnqueues
    /\ row[j].status = "absent"
    /\ enqueues' = enqueues + 1
    /\ row' = [row EXCEPT ![j] = NewRow(enqueues + 1)]
    /\ ledger' = [ledger EXCEPT ![j] = [failed |-> 0, lost |-> 0]]
    /\ landed' = [landed EXCEPT ![j] = 0]
    /\ wiped' = wiped \ {SessionOf[j]}
    /\ UNCHANGED <<stage, run, paused, configured, policyMarker, disturbances>>

PurgedIdle(s) == {j \in Jobs : SessionOf[j] = s /\ row[j].status \notin {"absent", "processing"}}  \* mutant
Purged(s) == {j \in Jobs : SessionOf[j] = s /\ row[j].status # "absent"}

\* purgeRollout's transaction: a session with a stage row loses that row and
\* every job, whatever the job's status.
Purge(s) ==
    /\ Disturb
    /\ stage[s] # NoStage
    /\ stage' = [stage EXCEPT ![s] = NoStage]
    /\ row' = [j \in Jobs |-> IF j \in Purged(s) THEN Out(row[j], "absent", "purged") ELSE row[j]]
    /\ wiped' = wiped \cup {s}
    /\ UNCHANGED <<run, paused, configured, policyMarker, enqueues, ledger, landed>>

\* A dead letter starts over; a blocked row keeps the attempts it made.
Unblocked(r) == Out([r EXCEPT !.wait = 0], "pending", "none")
Revived(r) == Unblocked([r EXCEPT !.attempts = 0])

\* integrationRequeueDeadExtractions: the operator revives one dead letter.
RequeueDead(j) ==
    /\ Disturb
    /\ row[j].status = "dead"
    /\ row' = [row EXCEPT ![j] = Revived(@)]
    /\ ledger' = [ledger EXCEPT ![j] = [failed |-> 0, lost |-> 0]]
    /\ UNCHANGED <<stage, run, paused, configured, policyMarker, enqueues, landed, wiped>>

\* requeuePolicyRejectedExtractions: once per store, and the marker is only
\* set by a pass that revived something.
PolicyRejected(p) == {j \in Jobs : /\ ProviderOf[j] = p
                                  /\ row[j].status = "dead"
                                  /\ row[j].why = "rejected"}
RequeuePolicyRejected(p) ==
    /\ ~paused
    /\ ~policyMarker
    /\ PolicyRejected(p) # {}
    /\ policyMarker' = TRUE
    /\ row' = [j \in Jobs |-> IF j \in PolicyRejected(p) THEN Revived(row[j]) ELSE row[j]]
    /\ ledger' = [j \in Jobs |-> IF j \in PolicyRejected(p)
                                 THEN [failed |-> 0, lost |-> 0] ELSE ledger[j]]
    /\ UNCHANGED <<stage, run, paused, configured, enqueues, disturbances, landed, wiped>>

\* The user disables and re-enables the workspace.
Pause == /\ Disturb /\ ~paused /\ paused' = TRUE
         /\ UNCHANGED <<tables, history, run, configured, enqueues>>
Resume == /\ paused /\ paused' = FALSE
          /\ UNCHANGED <<tables, history, run, configured, enqueues, disturbances>>

\* A usable model route goes away and comes back.
Unconfigure(p) == /\ Disturb /\ p \in configured /\ configured' = configured \ {p}
                  /\ UNCHANGED <<tables, history, run, paused, enqueues>>
Configure(p) == /\ p \in Providers \ configured /\ configured' = configured \cup {p}
                /\ UNCHANGED <<tables, history, run, paused, enqueues, disturbances>>
----------------------------------------------------------------------------
(***************************************************************************)
(* A worker run                                                            *)
(***************************************************************************)
\* processExtractionQueue up to the await that opens the index.
StartDrain(w) ==
    /\ run[w].pc = "idle"
    /\ ~paused
    /\ run' = [run EXCEPT ![w].pc = "opening"]
    /\ UNCHANGED <<tables, history, env, enqueues, disturbances>>

WriteOff(j) == [ledger[j] EXCEPT !.lost = @ + 1]

\* No usable route: ready and abandoned rows wait for a configuration.
BlockProvider(w) ==
    LET p == WorkerProvider[w]
        waiting == {j \in Jobs : /\ ProviderOf[j] = p
                                 /\ row[j].status \in {"pending", "processing"}
                                 /\ ~Live(j)}
    IN /\ run[w].pc = "opening"
       /\ p \notin configured
       /\ row' = [j \in Jobs |-> IF j \in waiting
                                 THEN Out(row[j], "blocked", "unconfigured") ELSE row[j]]
       /\ ledger' = [j \in Jobs |-> IF j \in waiting /\ Abandoned(j)
                                    THEN WriteOff(j) ELSE ledger[j]]
       /\ Finish(w)
       /\ UNCHANGED <<stage, policyMarker, env, enqueues, disturbances, landed, wiped>>

Blocked(p) == {j \in Jobs : ProviderOf[j] = p /\ row[j].status = "blocked"}

\* A configured worker revives the blocked rows before it claims.
UnblockProvider(w) ==
    LET p == WorkerProvider[w] IN
    /\ run[w].pc = "opening"
    /\ p \in configured
    /\ row' = [j \in Jobs |-> IF j \in Blocked(p)
                              THEN Unblocked(row[j]) ELSE row[j]]
    /\ run' = [run EXCEPT ![w].pc = "claiming"]
    /\ UNCHANGED <<stage, policyMarker, env, enqueues, disturbances, history>>

\* extractionClaim: superseded rows met on the way to the first worthwhile one
\* are retired, and that one is claimed.  A workspace paused since StartDrain
\* turns the claim straight into a release.
Claim(w, j) ==
    LET p == WorkerProvider[w]
        stale == {k \in Ready(p) : Superseded(k)}
        fresh == Ready(p) \ stale
    IN /\ run[w].pc = "claiming"
       /\ ~AtCap(p)
       /\ j \in fresh
       /\ ~\E k \in fresh : Before(k, j)
       /\ \E met \in SUBSET stale :
            /\ {k \in stale : Before(k, j)} \subseteq met
            /\ \A k \in met : ~Before(j, k)
            /\ row' = [k \in Jobs |-> IF k = j THEN Claimed(row[k], w)
                                      ELSE IF k \in met THEN Retire(row[k]) ELSE row[k]]
       /\ ledger' = [ledger EXCEPT ![j] = IF Abandoned(j) THEN WriteOff(j) ELSE @]
       /\ run' = [run EXCEPT ![w] = [pc |-> IF paused THEN "returned" ELSE "extracting",
                                     job |-> j, outcome |-> "paused", lost |-> FALSE]]
       /\ UNCHANGED <<stage, policyMarker, env, enqueues, disturbances, landed, wiped>>

\* extractionClaim when it has nothing to hand out: the cap is reached, or
\* every ready row was superseded and retired.
ClaimNothing(w) ==
    LET p == WorkerProvider[w] IN
    /\ run[w].pc = "claiming"
    /\ AtCap(p) \/ \A j \in Ready(p) : Superseded(j)
    /\ row' = [k \in Jobs |-> IF ~AtCap(p) /\ k \in Ready(p) THEN Retire(row[k]) ELSE row[k]]
    /\ Finish(w)
    /\ UNCHANGED <<stage, policyMarker, env, enqueues, disturbances, history>>

\* provider.extract settles.  The gate is read again after a normal return
\* only; an exception goes to the error path whatever the gate says.
ProviderReturns(w, outcome) ==
    /\ run[w].pc = "extracting"
    /\ Return(w, IF paused /\ outcome \in {"output", "noop"} THEN "paused" ELSE outcome)
    /\ IF outcome \in {"aborted", "unconfigured"} THEN Disturb ELSE UNCHANGED disturbances
    /\ UNCHANGED <<tables, history, env, enqueues>>

HasResult(w) == run[w].pc = "returned" /\ run[w].outcome \in {"output", "noop"}

\* The commit transaction finds the workspace disabled.
CommitPaused(w) == /\ HasResult(w)
                   /\ paused
                   /\ Return(w, "paused")
                   /\ UNCHANGED <<tables, history, env, enqueues, disturbances>>

\* SQLite refuses the commit, or the release of a paused run: both go to the
\* error path, which fails the attempt.
CommitThrows(w) == /\ Disturb
                   /\ run[w].pc = "returned"
                   /\ run[w].outcome \in {"output", "noop", "paused"}
                   /\ Return(w, "failed")
                   /\ UNCHANGED <<tables, history, env, enqueues>>

FencedByTimer(w) == run[w].lost  \* mutant
Fenced(w) == run[w].lost \/ ~Owns(w)

\* The commit transaction: fence, stage upsert, fenced completion, retention.
Commit(w) ==
    LET j == run[w].job IN
    /\ HasResult(w)
    /\ ~paused
    /\ ~Fenced(w)
    /\ stage' = IF run[w].outcome = "output"
                THEN [stage EXCEPT ![SessionOf[j]] = Upsert(@, Checkpoint(j))]
                ELSE stage
    /\ \E old \in Prunable("completed") :
         row' = [k \in Jobs |-> IF k = j THEN Out(row[k], "completed", run[w].outcome)
                                ELSE IF k \in old THEN Out(row[k], "absent", "pruned")
                                ELSE row[k]]
    /\ landed' = [landed EXCEPT ![j] = @ + 1]
    /\ Finish(w)
    /\ UNCHANGED <<policyMarker, env, enqueues, disturbances, ledger, wiped>>

\* extractionRelease: paused or aborted; the attempt is handed back.
Release(w) ==
    LET j == run[w].job IN
    /\ run[w].pc = "returned"
    /\ run[w].outcome \in {"paused", "aborted"}
    /\ Owns(w)
    /\ row' = [row EXCEPT ![j] = [Out(@, "pending", "released") EXCEPT
                                     !.attempts = HandBack(row[j]), !.wait = ReleaseDelay]]
    /\ Finish(w)
    /\ UNCHANGED <<stage, policyMarker, env, enqueues, disturbances, history>>

\* extractionBlockClaim: the route vanished under the call.
BlockClaim(w) ==
    LET j == run[w].job IN
    /\ run[w].pc = "returned"
    /\ run[w].outcome = "unconfigured"
    /\ Owns(w)
    /\ row' = [row EXCEPT ![j] = [Out(@, "blocked", "unconfigured") EXCEPT
                                     !.attempts = HandBack(row[j])]]
    /\ Finish(w)
    /\ UNCHANGED <<stage, policyMarker, env, enqueues, disturbances, history>>

\* extractionFail: another try after RetryDelay, or a dead letter.
Fail(w) ==
    LET j == run[w].job
        spent == row[j].attempts >= MaxAttempts
    IN /\ run[w].pc = "returned"
       /\ run[w].outcome \in {"failed", "rejected"}
       /\ Owns(w)
       /\ \E old \in IF spent THEN Prunable("dead") ELSE {{}} :
            row' = [k \in Jobs |->
                      IF k = j
                      THEN IF spent THEN Out(row[k], "dead", run[w].outcome)
                           ELSE [Out(row[k], "pending", run[w].outcome) EXCEPT
                                    !.wait = RetryDelay]
                      ELSE IF k \in old THEN Out(row[k], "absent", "pruned") ELSE row[k]]
       /\ ledger' = [ledger EXCEPT ![j].failed = @ + 1]
       /\ Finish(w)
       /\ UNCHANGED <<stage, policyMarker, env, enqueues, disturbances, landed, wiped>>

\* Whatever the run was about to write, the fence refuses it.
GiveUp(w) ==
    /\ run[w].pc = "returned"
    /\ IF run[w].outcome \in {"output", "noop"} THEN ~paused /\ Fenced(w) ELSE ~Owns(w)
    /\ Finish(w)
    /\ UNCHANGED <<tables, history, env, enqueues, disturbances>>

\* The renewal timer of a run, armed at the claim and cleared when it settles.
Renew(w) ==
    LET j == run[w].job IN
    /\ run[w].pc \in {"extracting", "returned"}
    /\ ~run[w].lost
    /\ IF Owns(w)
       THEN row' = [row EXCEPT ![j].lease = Lease] /\ UNCHANGED run
       ELSE run' = [run EXCEPT ![w].lost = TRUE] /\ UNCHANGED row
    /\ UNCHANGED <<stage, policyMarker, env, enqueues, disturbances, history>>

\* The run dies with its process, or its last transaction throws: the row is
\* left to its lease.
Crash(w) ==
    /\ Disturb
    /\ run[w].pc # "idle"
    /\ Finish(w)
    /\ UNCHANGED <<tables, history, env, enqueues>>

----------------------------------------------------------------------------
(***************************************************************************)
(* Time                                                                    *)
(***************************************************************************)
ElapseNoFloor ==  \* mutant
    /\ row' = [j \in Jobs |-> [row[j] EXCEPT !.lease = @ - 1]]
    /\ UNCHANGED <<stage, policyMarker, run, env, enqueues, history>>
Elapse ==
    /\ row' = [j \in Jobs |->
                 [row[j] EXCEPT
                    !.lease = IF @ > 0 THEN @ - 1 ELSE 0,
                    !.wait = IF row[j].status \in {"pending", "processing"}
                             THEN MaxOf(@ - 1, -OrderWindow) ELSE @]]
    /\ UNCHANGED <<stage, policyMarker, run, env, enqueues, history>>

\* The timer renews at a third of the lease: a healthy run's lease runs out
\* only when its event loop stalls or SQLite stays busy.
Expiring == \E w \in Workers : Owns(w) /\ row[run[w].job].lease = 1

Tick == ~Expiring /\ Elapse /\ UNCHANGED disturbances
Stall == Disturb /\ Expiring /\ Elapse

----------------------------------------------------------------------------
Worker(w) ==
    \/ StartDrain(w) \/ BlockProvider(w) \/ UnblockProvider(w)
    \/ ClaimNothing(w) \/ \E j \in Jobs : Claim(w, j)
    \/ \E outcome \in Outcomes : ProviderReturns(w, outcome)
    \/ CommitPaused(w) \/ CommitThrows(w) \/ Commit(w)
    \/ Release(w) \/ BlockClaim(w) \/ Fail(w) \/ GiveUp(w)
    \/ Renew(w) \/ Crash(w)

Host ==
    \/ \E j \in Jobs : Enqueue(j) \/ RequeueDead(j)
    \/ \E s \in Sessions : Purge(s)
    \/ \E p \in Providers : RequeuePolicyRejected(p) \/ Unconfigure(p) \/ Configure(p)
    \/ Pause \/ Resume

Next == Host \/ (\E w \in Workers : Worker(w)) \/ Tick \/ Stall

Spec == Init /\ [][Next]_vars

\* The sweep, the retry timer and host events keep starting drains; a provider
\* call ends, by its hard cap if need be; a settled call reaches its
\* transaction; the renewal timer and the clock run.
Fairness ==
    /\ WF_vars(Tick)
    /\ \A w \in Workers :
         /\ WF_vars(StartDrain(w))
         /\ WF_vars(UnblockProvider(w))
         /\ WF_vars(ClaimNothing(w) \/ \E j \in Jobs : Claim(w, j))
         /\ WF_vars(BlockProvider(w))
         /\ WF_vars(\E outcome \in Outcomes : ProviderReturns(w, outcome))
         /\ WF_vars(CommitPaused(w) \/ Commit(w) \/ Release(w) \/ BlockClaim(w)
                    \/ Fail(w) \/ GiveUp(w))
         /\ WF_vars(Renew(w))

FairSpec == Spec /\ Fairness

----------------------------------------------------------------------------
(***************************************************************************)
(* Properties                                                              *)
(***************************************************************************)
TypeOK ==
    /\ row \in [Jobs -> Row]
    /\ stage \in [Sessions -> StageRow]
    /\ run \in [Workers -> Run]
    /\ paused \in BOOLEAN
    /\ configured \in SUBSET Providers
    /\ policyMarker \in BOOLEAN
    /\ enqueues \in Nat
    /\ disturbances \in Nat
    /\ ledger \in [Jobs -> [failed : Nat, lost : Nat]]
    /\ landed \in [Jobs -> Nat]
    /\ wiped \in SUBSET Sessions

\* Never more unexpired claims on one provider than the cap, whatever mix of
\* processes claims, renews, abandons and reclaims (extractionClaim's count).
RunningCap == \A p \in Providers : Cardinality(Running(p)) <= MaxRunning

\* A job's outcome is committed at most once, although a reclaimed job is run
\* by several workers and any of them may be the first to return.
LandsOnce == \A j \in Jobs : landed[j] <= 1

\* attempts is exactly what failures and lost workers consumed, plus the
\* attempt in flight: an abort, a pause or a vanished route hands its attempt
\* back and never anybody else's.
AttemptLedger ==
    \A j \in Jobs : row[j].status \in {"pending", "processing", "blocked", "dead"} =>
        row[j].attempts = ledger[j].failed + ledger[j].lost
                          + (IF row[j].status = "processing" THEN 1 ELSE 0)

\* The stage row of a session is at least as new as every output that was
\* committed for it, in whatever order the workers finished.
Covers(s, j) == \/ stage[s].rank > Rank(EventOf[j])
                \/ /\ stage[s].rank = Rank(EventOf[j])
                   /\ stage[s].updated >= row[j].created
StageNeverBehind ==
    \A j \in Jobs : row[j].status = "completed" /\ row[j].why = "output"
                      => Covers(SessionOf[j], j)

\* A retired checkpoint always has a newer one of its session, at least as
\* final, that was not itself retired: retiring never strands a session.
Retired(j) == row[j].status = "completed" /\ row[j].why = "superseded"
Heir(k, j) == /\ SessionOf[k] = SessionOf[j]
              /\ row[k].created > row[j].created
              /\ Rank(EventOf[k]) >= Rank(EventOf[j])
              /\ ~Retired(k)
RetiredHasHeir == \A j \in Jobs : Retired(j) => \E k \in Jobs : Heir(k, j)

\* After a hard purge nothing of the session comes back until the session
\* itself enqueues a new checkpoint, although its workers may still be running.
PurgeIsFinal == \A s \in wiped : stage[s] = NoStage

\* A finished row is never taken up again, and a dead one only by a revival
\* that gives it a whole new budget.
TerminalIsFinal ==
    [][\A j \in Jobs :
         /\ row[j].status = "completed" => row'[j].status \in {"completed", "absent"}
         /\ row[j].status = "dead" =>
              \/ row'[j].status \in {"dead", "absent"}
              \/ row'[j].status = "pending" /\ row'[j].attempts = 0]_vars

\* Once the workspace stays enabled and the provider configured, every queued
\* job comes to an end, although workers crash and claims are lost.
Settled(j) == row[j].status \in {"completed", "dead", "absent"}
EveryJobSettles ==
    (<>[](~paused /\ configured = Providers)) =>
        \A j \in Jobs : []<>Settled(j)

\* A dead-lettered attempt leaves the older checkpoint claimable as fallback.
DeadLeavesFallback ==
    \A j \in Jobs : Retired(j) => \E k \in Jobs : Heir(k, j) /\ row[k].status # "dead"

\* No job is attempted more often than its budget.
AttemptBudget == \A j \in Jobs : row[j].attempts <= MaxAttempts
=============================================================================
