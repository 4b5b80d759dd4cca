---------------------------- MODULE AutoSchedule ----------------------------
(***************************************************************************)
(* When the automatic consolidation of a store runs (engine.ts,            *)
(* maybeConsolidate): once per cooldown after a success, after a backoff   *)
(* that follows a failure, and at once for a new note of the user.  One    *)
(* run per process is in flight, until it is forgotten after an hour, and  *)
(* the lease in the database serialises what they write.  Time is counted  *)
(* in hours, and what lies behind a deadline is forgotten.                 *)
(***************************************************************************)
EXTENDS Integers, FiniteSets

CONSTANTS
    Runs,     \* slots for runs
    Processes,
    Notes,
    Remembers, \* the notes that the rule provider can merge as well
    Cooldown, \* AUTO_CONSOLIDATE_COOLDOWN_MS
    Backoff,  \* AUTO_CONSOLIDATE_RETRY_MS, also of unconsumed notes
    Nobody

ASSUME ScheduleAssumption ==
    /\ Remembers \subseteq Notes /\ Nobody \notin Runs /\ IsFiniteSet(Runs)
    /\ Cooldown \in Nat /\ Backoff \in 1..Cooldown

VARIABLES
    meta,   \* the keys in the database's meta table, as the hours they still hold
    note,   \* the notes: stamped before they are inserted, fresh or old to the gate
    work,   \* staged rows, or a workspace that differs from its baseline
    usable, \* the host's channel can call tools
    home,   \* the process of a run
    run,    \* the runs
    entry,  \* CONSOLIDATION_IN_FLIGHT
    lease,  \* the run that holds the workspace
    settled \* history: successes and failures, and new notes, in this hour

schedVars == <<meta, note, work, usable, home, run, entry, lease, settled>>

Over == [pc |-> "idle", inputs |-> {}]
\* bound of the history's count
Bound == (1 + Cardinality(Notes)) * Cardinality(Runs) + 1

SchedInit ==
    /\ meta = [cooldown |-> 0, retryIn |-> 0, noteRetry |-> 0, noteGate |-> FALSE, never |-> TRUE]
    /\ note = [n \in Notes |-> "none"]
    /\ work = FALSE
    /\ usable \in BOOLEAN
    /\ home \in [Runs -> Processes]
    /\ run = [r \in Runs |-> Over]
    /\ entry = [p \in Processes |-> Nobody]
    /\ lease = Nobody
    /\ settled = [runs |-> 0, notes |-> 0]

----------------------------------------------------------------------------
\* A pending forget or update is no work without a model.
Actionable(n) == note[n] \in {"fresh", "old"} /\ (usable \/ n \in Remembers)
FreshWhilePending(n) == Actionable(n)  \* mutant
\* A note after the last success: created, or no success yet.
Fresh(n) == Actionable(n) /\ (meta.never \/ note[n] = "fresh")
Urgent ==
    \/ \E n \in Notes : Fresh(n)
    \/ meta.noteGate /\ meta.noteRetry = 0 /\ \E n \in Notes : Actionable(n)
MayRun == meta.retryIn = 0 /\ (meta.cooldown = 0 \/ Urgent)

At(r, pc) == run[r].pc = pc
Goes(r, pc) == run' = [run EXCEPT ![r].pc = pc]
LeavesEntry(r) == run' = [run EXCEPT ![r] = Over] /\ UNCHANGED entry  \* mutant
\* The promise settles: the entry goes if it is still this run's.
Leaves(r) ==
    /\ run' = [run EXCEPT ![r] = Over]
    /\ entry' = IF entry[home[r]] = r THEN [entry EXCEPT ![home[r]] = Nobody] ELSE entry

\* maybeConsolidate: another call joins the run in flight.
Trigger(p) ==
    /\ entry[p] = Nobody
    /\ \E r \in Runs : /\ home[r] = p /\ At(r, "idle")
                       /\ Goes(r, "deciding")
                       /\ entry' = [entry EXCEPT ![p] = r]
    /\ UNCHANGED <<meta, note, work, usable, home, lease, settled>>
\* The run is forgotten after CONSOLIDATE_IN_FLIGHT_TTL_MS, not stopped.
Expire(p) ==
    /\ entry[p] # Nobody
    /\ entry' = [entry EXCEPT ![p] = Nobody]
    /\ UNCHANGED <<meta, note, work, usable, home, run, lease, settled>>

\* runMaybeConsolidate: the gates, then the extraction queue is drained.
Decide(r) ==
    /\ At(r, "deciding")
    /\ IF MayRun THEN Goes(r, "draining") /\ UNCHANGED entry ELSE Leaves(r)
    /\ UNCHANGED <<meta, note, work, usable, home, lease, settled>>
DrainFirst(r) ==
    /\ At(r, "draining")
    /\ work' \in {work, TRUE}
    /\ Goes(r, "checking")
    /\ UNCHANGED <<meta, note, usable, home, entry, lease, settled>>
LookForWork(r) ==
    /\ At(r, "checking")
    /\ IF work \/ \E n \in Notes : Actionable(n)
       THEN Goes(r, "claiming") /\ UNCHANGED entry ELSE Leaves(r)
    /\ UNCHANGED <<meta, note, work, usable, home, lease, settled>>
\* runConsolidation: whoever finds the lease taken has lost, which is no failure.
Claim(r) ==
    /\ At(r, "claiming")
    /\ IF lease = Nobody
       THEN /\ lease' = r
            /\ run' = [run EXCEPT ![r] = [pc |-> "planning", inputs |-> {n \in Notes : Actionable(n)}]]
            /\ UNCHANGED entry
       ELSE Leaves(r) /\ UNCHANGED lease
    /\ UNCHANGED <<meta, note, work, usable, home, settled>>

\* Of its inputs the model consumes what it likes, the rule provider all.
Past(s) == CASE s = "stamped" -> "stale" [] s = "fresh" -> "old" [] OTHER -> s
SucceedWith(r, consumed) ==
    /\ note' = [n \in Notes |-> IF n \in consumed THEN "applied" ELSE Past(note[n])]
    /\ LET left == {n \in Notes : Actionable(n)} \ consumed
       IN meta' = [cooldown |-> Cooldown, retryIn |-> 0, never |-> FALSE,
                   noteGate |-> left # {}, noteRetry |-> IF left # {} THEN Backoff ELSE 0]
    /\ work' \in {FALSE, work}
Succeed(r) ==
    /\ At(r, "planning")
    /\ \E consumed \in IF usable THEN SUBSET run[r].inputs ELSE {run[r].inputs} : SucceedWith(r, consumed)
    /\ settled' = [settled EXCEPT !.runs = IF @ < Bound THEN @ + 1 ELSE @]
    /\ lease' = Nobody /\ Leaves(r)
    /\ UNCHANGED <<usable, home>>
\* An internal failure is repeated later than the others.
Fail(r) ==
    /\ At(r, "planning")
    /\ meta' \in {[meta EXCEPT !.retryIn = d] : d \in {Backoff, Cooldown}}
    /\ settled' = [settled EXCEPT !.runs = IF @ < Bound THEN @ + 1 ELSE @]
    /\ lease' = Nobody /\ Leaves(r)
    /\ UNCHANGED <<note, work, usable, home>>
\* Contention at the commit, no model route yet, an abort: nothing is noted.
StandDown(r) ==
    /\ At(r, "planning")
    /\ lease' = Nobody /\ Leaves(r)
    /\ UNCHANGED <<meta, note, work, usable, home, settled>>

\* adhoc.ts: a note gets its time before it waits for the lock and the database.
StampNote(n) ==
    /\ note[n] = "none" /\ note' = [note EXCEPT ![n] = "stamped"]
    /\ UNCHANGED <<meta, work, usable, home, run, entry, lease, settled>>
InsertNote(n) ==
    /\ note[n] \in {"stamped", "stale"}
    /\ note' = [note EXCEPT ![n] = IF @ = "stamped" THEN "fresh" ELSE "old"]
    /\ settled' = [settled EXCEPT !.notes = @ + 1]
    /\ UNCHANGED <<meta, work, usable, home, run, entry, lease>>
\* A job is staged, a file edited.
NewWork ==
    /\ ~work /\ work' = TRUE
    /\ UNCHANGED <<meta, note, usable, home, run, entry, lease, settled>>
Less(d) == IF d > 0 THEN d - 1 ELSE 0
AnHour ==
    /\ meta' = [meta EXCEPT !.cooldown = Less(@), !.retryIn = Less(@), !.noteRetry = Less(@)]
    /\ settled' = [runs |-> 0, notes |-> 0]
    /\ UNCHANGED <<note, work, usable, home, run, entry, lease>>

RunStep(r) == Decide(r) \/ DrainFirst(r) \/ LookForWork(r) \/ Claim(r) \/ Succeed(r) \/ Fail(r) \/ StandDown(r)
SchedNext ==
    \/ \E p \in Processes : Trigger(p) \/ Expire(p)
    \/ \E r \in Runs : RunStep(r)
    \/ \E n \in Notes : StampNote(n) \/ InsertNote(n)
    \/ NewWork \/ AnHour
\* A run's steps are promises that settle (the run has a budget), and users go on
\* ending turns.
SchedFairness ==
    /\ \A r \in Runs : WF_schedVars(RunStep(r))
    /\ \A p \in Processes : WF_schedVars(Trigger(p))
    /\ WF_schedVars(AnHour)
SchedSpec == SchedInit /\ [][SchedNext]_schedVars /\ SchedFairness

----------------------------------------------------------------------------
SchedTypeOK ==
    /\ meta \in [cooldown : 0..Cooldown, retryIn : 0..Cooldown, noteRetry : 0..Backoff,
                 noteGate : BOOLEAN, never : BOOLEAN]
    /\ note \in [Notes -> {"none", "stamped", "stale", "fresh", "old", "applied"}]
    /\ run \in [Runs -> [pc : {"idle", "deciding", "draining", "checking", "claiming", "planning"},
                         inputs : SUBSET Notes]]
    /\ \A p \in Processes : entry[p] # Nobody => home[entry[p]] = p /\ ~At(entry[p], "idle")
    /\ \A r \in Runs : lease = r <=> At(r, "planning")

(***************************************************************************)
(* "A note the model never consumed stays pending and must not turn every  *)
(* turn/end into a full Phase-2 run": within an hour, runs that end in     *)
(* success or failure are those that the hour and each new note let in,    *)
(* and with each of them at most the other runs that had passed the gates  *)
(* before they closed again, however often users end turns and entries     *)
(* expire (runMaybeConsolidate).                                           *)
(***************************************************************************)
NoHotLoop == settled.runs <= (1 + settled.notes) * Cardinality(Runs)

(***************************************************************************)
(* A note that can be acted on is given to a run again and again until it  *)
(* is consumed: not lost behind the cooldown, a backoff, the hourly gate,  *)
(* a lost race for the lease, an entry that expired, or a stamp older than *)
(* the success that did not see it (maybeConsolidate).                     *)
(***************************************************************************)
Offered(n) == \E r \in Runs : At(r, "planning") /\ n \in run[r].inputs
NotesAreOffered == \A n \in Notes : Actionable(n) ~> (note[n] = "applied" \/ Offered(n))
=============================================================================
