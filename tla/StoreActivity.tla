--------------------------- MODULE StoreActivity ---------------------------
(***************************************************************************)
(* How a dormant store is noticed (core/store-meta.ts).  A job is          *)
(* committed to SQLite first and a fresh token is written to               *)
(* state/activity afterwards; a drain that finds no job left records in    *)
(* state/swept the token it had read before it looked.  The sweep opens a  *)
(* store only when the two differ, when a file is torn, or when a marker   *)
(* says that a token could not be written; each process opens every store  *)
(* once after it starts.  Files are written in place, by processes that    *)
(* may die or fail between any two steps.                                  *)
(***************************************************************************)
EXTENDS Integers

CONSTANTS
    Hosts,       \* processes; each publishes and drains
    Mortal,      \* bound: the processes that may die
    MaxJobs,     \* bound: jobs enqueued
    MaxActFaults \* bound: crashes, failed token writes and failed attempts

ASSUME ActivityAssumption ==
    /\ Mortal \subseteq Hosts
    /\ MaxJobs \in Nat
    /\ MaxActFaults \in Nat

VARIABLES
    ready, waiting, \* jobs that can be claimed, and jobs in a retry window
    activity,       \* state/activity
    swept,          \* state/swept
    failed,         \* the marker state/activity-failed exists
    publisher,      \* [Hosts -> what the host's enqueue is doing]
    drain,          \* [Hosts -> Drain]
    unvisited,      \* the hosts whose first pass has not opened the store
    lapse,          \* history: how a publication was lost, if one was
    enqueued, actFaults \* how many so far

actVars == <<ready, waiting, activity, swept, failed, publisher, drain, unvisited,
             lapse, enqueued, actFaults>>
queue == <<ready, waiting>>
tokenFiles == <<activity, swept, failed>>
hostState == <<publisher, drain, unvisited>>

\* A token is only ever compared with the one in state/activity: it is that
\* one, or one that was there before.
TokenStates == {"absent", "torn", "current", "stale"}
Outdated(t) == IF t = "current" THEN "stale" ELSE t

\* token is the state read before the claim, newer whether the marker was written
\* since.
Drain == [pc : {"dead", "idle", "opened", "working", "keeping", "clearing", "recording"},
          token : TokenStates, newer : BOOLEAN]
NoDrain == [pc |-> "idle", token |-> "absent", newer |-> FALSE]

Pending == ready + waiting

\* isStoreDirty
Dirty ==
    \/ failed
    \/ activity = "torn"
    \/ activity = "absent" /\ swept # "absent"
    \/ activity = "current" /\ swept # "current"

ActInit ==
    /\ ready = 0 /\ waiting = 0
    /\ activity = "absent" /\ swept = "absent" /\ failed = FALSE
    /\ publisher = [h \in Hosts |-> "idle"]
    /\ drain = [h \in Hosts |-> NoDrain]
    /\ unvisited = Hosts
    /\ lapse = "none"
    /\ enqueued = 0 /\ actFaults = 0

Alive(h) == drain[h].pc # "dead"
ActFault == actFaults < MaxActFaults /\ actFaults' = actFaults + 1
Publishes(h, pc) == publisher' = [publisher EXCEPT ![h] = pc]
DrainIs(h, d) == drain' = [drain EXCEPT ![h] = d]
DrainAt(h, pc) == DrainIs(h, [drain[h] EXCEPT !.pc = pc])

\* The content of state/activity is replaced: whatever others hold of it is
\* out of date.  d is what becomes of the drains otherwise.
Replaced(content, d) ==
    /\ activity' = content
    /\ drain' = [h \in Hosts |-> [d[h] EXCEPT !.token = Outdated(@)]]
Replacing(h, content, d) == Replaced(content, [drain EXCEPT ![h] = d])

----------------------------------------------------------------------------
(***************************************************************************)
(* Publishing                                                              *)
(***************************************************************************)
\* An enqueue, a revival of dead letters: the transaction commits.
CommitJob(h) ==
    /\ Alive(h) /\ publisher[h] = "idle" /\ enqueued < MaxJobs
    /\ enqueued' = enqueued + 1
    /\ ready' = ready + 1
    /\ Publishes(h, "committed")
    /\ UNCHANGED <<waiting, tokenFiles, drain, unvisited, lapse, actFaults>>

\* writeActivityToken: a plain write, truncation first.
OpenToken(h) ==
    /\ publisher[h] = "committed"
    /\ Replaced("torn", drain)
    /\ swept' = Outdated(swept)
    /\ Publishes(h, "writing")
    /\ UNCHANGED <<queue, failed, unvisited, lapse, enqueued, actFaults>>
WriteToken(h) ==
    /\ publisher[h] = "writing"
    /\ Replaced("current", drain)
    /\ swept' = Outdated(swept)
    /\ lapse' = "none"
    /\ Publishes(h, "idle")
    /\ UNCHANGED <<queue, failed, unvisited, enqueued, actFaults>>

\* publishActivitySafely: the write fails, and so may that of the marker.
TokenWriteFails(h) ==
    /\ publisher[h] \in {"committed", "writing"}
    /\ ActFault
    /\ Publishes(h, "failing")
    /\ UNCHANGED <<queue, tokenFiles, drain, unvisited, lapse, enqueued>>
MarkFailure(h) ==
    /\ publisher[h] = "failing"
    /\ failed' = TRUE
    /\ drain' = [g \in Hosts |-> [drain[g] EXCEPT !.newer = @ \/ drain[g].pc \notin {"dead", "idle"}]]
    /\ Publishes(h, "idle")
    /\ UNCHANGED <<queue, activity, swept, unvisited, lapse, enqueued, actFaults>>
MarkFails(h) ==
    /\ publisher[h] = "failing"
    /\ lapse' = "passed"
    /\ Publishes(h, "idle")
    /\ UNCHANGED <<queue, tokenFiles, drain, unvisited, enqueued, actFaults>>

----------------------------------------------------------------------------
(***************************************************************************)
(* Draining (processExtractionQueue, called in a loop until nothing can be *)
(* claimed)                                                                *)
(***************************************************************************)
\* The token is read before the claim, and the instant remembered.
Opened == [NoDrain EXCEPT !.pc = "opened", !.token = activity]

\* A live session drains whenever it likes.
OpenDrain(h) ==
    /\ drain[h].pc = "idle"
    /\ DrainIs(h, Opened)
    /\ UNCHANGED <<queue, tokenFiles, publisher, unvisited, lapse, enqueued, actFaults>>

SweepDirtyOnly(h) ==  \* mutant
    /\ drain[h].pc = "idle"
    /\ Dirty
    /\ DrainIs(h, Opened)
    /\ UNCHANGED <<queue, tokenFiles, publisher, unvisited, lapse, enqueued, actFaults>>
\* The sweep opens what is dirty, and everything once after a start.  A token
\* that cannot be read is repaired first when jobs are pending
\* (ensureStoreOrigin).
Sweep(h) ==
    /\ drain[h].pc = "idle"
    /\ h \in unvisited \/ Dirty
    /\ unvisited' = unvisited \ {h}
    /\ IF activity # "current" /\ Pending > 0
       THEN Replacing(h, "current", Opened) /\ swept' = Outdated(swept)
       ELSE DrainIs(h, Opened) /\ UNCHANGED <<activity, swept>>
    /\ UNCHANGED <<queue, failed, publisher, lapse, enqueued, actFaults>>

TakeUnrecorded(h) ==  \* mutant
    /\ drain[h].pc = "opened" /\ ready > 0
    /\ ready' = ready - 1
    /\ DrainIs(h, [NoDrain EXCEPT !.pc = "working"])
    /\ UNCHANGED <<waiting, tokenFiles, publisher, unvisited, lapse, enqueued, actFaults>>
Take(h) ==
    /\ drain[h].pc = "opened" /\ ready > 0
    /\ ready' = ready - 1 /\ waiting' = waiting + 1
    /\ DrainIs(h, [NoDrain EXCEPT !.pc = "working"])
    /\ UNCHANGED <<tokenFiles, publisher, unvisited, lapse, enqueued, actFaults>>

\* The job ends, or is tried again later; the loop calls once more, with a new
\* look at the token.
Finish(h) ==
    /\ drain[h].pc = "working"
    /\ waiting' = waiting - 1
    /\ lapse' = IF Pending = 1 THEN "none" ELSE lapse
    /\ DrainIs(h, Opened)
    /\ UNCHANGED <<ready, tokenFiles, publisher, unvisited, enqueued, actFaults>>
AttemptFails(h) ==
    /\ drain[h].pc = "working"
    /\ ActFault
    /\ lapse' = IF lapse = "unpublished" THEN "passed" ELSE lapse
    /\ DrainIs(h, Opened)
    /\ UNCHANGED <<queue, tokenFiles, publisher, unvisited, enqueued>>

\* The retry time of a job that nobody works on comes.
Working == {h \in Hosts : drain[h].pc = "working"}
RetryTimeComes ==
    /\ waiting > 0 /\ Working = {}
    /\ ready' = ready + 1 /\ waiting' = waiting - 1
    /\ UNCHANGED <<tokenFiles, hostState, lapse, enqueued, actFaults>>

\* Nothing can be claimed; then the depth is counted.  If it is zero,
\* clearActivityFailure looks at the marker's time, to remove it if it is older
\* than the drain.
ClaimsNone(h) ==
    /\ drain[h].pc = "opened" /\ ready = 0
    /\ DrainAt(h, IF Pending > 0 THEN "keeping"
                  ELSE IF failed /\ ~drain[h].newer THEN "clearing" ELSE "recording")
    /\ UNCHANGED <<queue, tokenFiles, publisher, unvisited, lapse, enqueued, actFaults>>

\* settleAfterDrain, depth zero.
\* A marker rewritten since the look goes with the old one.
RemoveMarker(h) ==
    /\ drain[h].pc = "clearing"
    /\ failed' = FALSE
    /\ lapse' = IF drain[h].newer /\ failed THEN "passed" ELSE lapse
    /\ DrainIs(h, [drain[h] EXCEPT !.pc = "recording", !.newer = FALSE])
    /\ UNCHANGED <<queue, activity, swept, publisher, unvisited, enqueued, actFaults>>

RecordCurrent(h) ==  \* mutant
    /\ drain[h].pc = "recording"
    /\ IF activity = "torn"
       THEN Replacing(h, "current", NoDrain) /\ swept' = Outdated(swept)
       ELSE swept' = activity /\ DrainIs(h, NoDrain) /\ UNCHANGED activity
    /\ UNCHANGED <<queue, failed, publisher, unvisited, lapse, enqueued, actFaults>>
\* Then the token read before the claim is recorded; a torn one is replaced.
RecordSwept(h) ==
    /\ drain[h].pc = "recording"
    /\ IF drain[h].token = "torn"
       THEN Replacing(h, "current", NoDrain) /\ swept' = Outdated(swept)
       ELSE swept' = drain[h].token /\ DrainIs(h, NoDrain) /\ UNCHANGED activity
    /\ UNCHANGED <<queue, failed, publisher, unvisited, lapse, enqueued, actFaults>>

\* settleAfterDrain, depth above zero: a missing or torn token is replaced,
\* and a token that is there is left alone.
KeepPending(h) ==
    /\ drain[h].pc = "keeping"
    /\ IF drain[h].token \in {"current", "stale"}
       THEN DrainIs(h, NoDrain) /\ UNCHANGED <<activity, swept>>
       ELSE Replacing(h, "current", NoDrain) /\ swept' = Outdated(swept)
    /\ lapse' = IF lapse = "unpublished" THEN "passed" ELSE lapse
    /\ UNCHANGED <<queue, failed, publisher, unvisited, enqueued, actFaults>>

----------------------------------------------------------------------------
\* A process dies; the job it works on is claimed again later.
ActCrash(h) ==
    /\ h \in Mortal /\ Alive(h) /\ (publisher[h] # "idle" \/ drain[h].pc # "idle")
    /\ ActFault
    /\ lapse' = IF publisher[h] # "idle" /\ lapse = "none" THEN "unpublished" ELSE lapse
    /\ Publishes(h, "idle")
    /\ DrainIs(h, [NoDrain EXCEPT !.pc = "dead"])
    /\ UNCHANGED <<queue, tokenFiles, unvisited, enqueued>>
ActStart(h) ==
    /\ drain[h].pc = "dead"
    /\ DrainIs(h, NoDrain)
    /\ unvisited' = unvisited \cup {h}
    /\ UNCHANGED <<queue, tokenFiles, publisher, lapse, enqueued, actFaults>>

PublishStep(h) == OpenToken(h) \/ WriteToken(h) \/ MarkFailure(h)
\* What a host does about the store without being asked; at most one of these
\* can be done at a time.
DrainStep(h) ==
    \/ Sweep(h) \/ Take(h) \/ Finish(h) \/ ClaimsNone(h)
    \/ RemoveMarker(h) \/ RecordSwept(h) \/ KeepPending(h)
    \/ ActStart(h)

ActNext ==
    \/ \E h \in Hosts :
          \/ CommitJob(h) \/ PublishStep(h) \/ TokenWriteFails(h) \/ MarkFails(h)
          \/ OpenDrain(h) \/ DrainStep(h) \/ AttemptFails(h) \/ ActCrash(h)
    \/ RetryTimeComes

ActFairness ==
    /\ \A h \in Hosts : WF_actVars(PublishStep(h)) /\ WF_actVars(DrainStep(h))
    /\ WF_actVars(RetryTimeComes)
ActSpec == ActInit /\ [][ActNext]_actVars /\ ActFairness

----------------------------------------------------------------------------
ActTypeOK ==
    /\ ready \in 0..MaxJobs /\ waiting \in 0..MaxJobs
    /\ activity \in TokenStates \ {"stale"} /\ swept \in TokenStates /\ failed \in BOOLEAN
    /\ publisher \in [Hosts -> {"idle", "committed", "writing", "failing"}]
    /\ drain \in [Hosts -> Drain]
    /\ unvisited \subseteq Hosts
    /\ lapse \in {"none", "unpublished", "passed"}
    /\ enqueued \in 0..MaxJobs /\ actFaults \in 0..MaxActFaults

Publishing == \E h \in Hosts : publisher[h] # "idle"

(***************************************************************************)
(* A store with a pending job looks dirty, or the process that committed   *)
(* the job is still about to say so, or that word was lost to a crash or   *)
(* to a second failure: no drain, however slow and whatever is enqueued    *)
(* while it runs, settles a store over a job it has not seen (store-meta   *)
(* settleAfterDrain, clearActivityFailure).                                *)
(***************************************************************************)
PendingShowsInToken == Pending > 0 => Dirty \/ Publishing \/ lapse # "none"

(***************************************************************************)
(* Every pending job is found and finished, by the sweeps of running       *)
(* processes or, after a crash took the token write, by the first pass of  *)
(* the next start; except after the word was lost for good (plugin         *)
(* sweepDormantStores, startupPass).                                       *)
(***************************************************************************)
EveryJobIsFound == Pending > 0 ~> (Pending = 0 \/ lapse = "passed")
=============================================================================
