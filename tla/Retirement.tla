----------------------------- MODULE Retirement -----------------------------
(***************************************************************************)
(* How the host takes leave of a session (plugin/index.ts, retireSession): *)
(* the last checkpoint runs on the event lane, then the worker lane drains *)
(* what is queued and disposes the adapter.  A retirement that fails is    *)
(* tried again from a timer and once more when the plugin is unloaded, and *)
(* the session may be opened again in the meantime.                        *)
(***************************************************************************)
EXTENDS Integers, Sequences

CONSTANTS
    MaxSaid,   \* bound: messages
    MaxCloses, \* bound: times the session is closed
    RetireMax  \* DSH_RETIRE_MAX_ATTEMPTS

ASSUME RetirementAssumption == MaxSaid \in Nat /\ MaxCloses \in Nat /\ RetireMax \in Nat

VARIABLES
    session, \* the host's session, and whether memory is on for its workspace
    said,    \* the messages of its log
    owed,    \* history: said with memory on and no retirement under way, or replayed
    saved,   \* the messages in checkpoints
    agent,   \* the session's runtime and its adapter
    unload,  \* "no", then "first" and "again", the drain's two calls
    trouble  \* history: a task of a retirement or of a turn has failed

retVars == <<session, said, owed, saved, agent, unload, trouble>>

Said == 1..MaxSaid
Task(kind, m) == [kind |-> kind, at |-> m]
Outcome == {"pending", "ok", "failed"}

\* seed: the log when the session was adopted, which the first task of the event
\* lane replays.  created: that task has come through.  seen: the evidence of an
\* adapter that knows the session.  drains: the worker lane, of each drain the
\* outcome of the checkpoint before it.  memo: the retirement under way.
Adopted(all) ==
    [present |-> TRUE, enabled |-> TRUE, created |-> FALSE, seed |-> all, known |-> FALSE,
     disposed |-> FALSE, seen |-> {}, lane |-> <<Task("create", 0)>>, drains |-> <<>>,
     memo |-> "none", attempts |-> 0, timers |-> 0, retired |-> FALSE, lease |-> TRUE]
Gone == [Adopted({}) EXCEPT !.present = FALSE, !.enabled = FALSE, !.lane = <<>>, !.lease = FALSE]

RetInit ==
    /\ session = [open |-> TRUE, on |-> TRUE, closes |-> 0]
    /\ said = {} /\ owed = {} /\ saved = {}
    /\ agent = Adopted({})
    /\ unload = "no" /\ trouble = FALSE

----------------------------------------------------------------------------
\* An event of the session: ensureSession, then messageSeen on the event lane.
\* Adoption is there to replay the log.
Say ==
    /\ session.open /\ unload = "no" /\ \E m \in Said \ said : TRUE
    /\ LET m == CHOOSE x \in Said \ said : \A y \in Said \ said : x <= y
       IN /\ said' = said \cup {m}
          /\ owed' = IF agent.memo = "none" /\ session.on THEN owed \cup {m} ELSE owed
          /\ agent' = IF ~session.on THEN agent
                      ELSE IF ~agent.present THEN Adopted(said')
                      ELSE [agent EXCEPT !.lane = Append(@, Task("say", m))]
    /\ UNCHANGED <<session, saved, unload, trouble>>
\* turn/end
EndTurn ==
    /\ session.open /\ unload = "no" /\ agent.present /\ agent.enabled /\ Len(agent.lane) < 2
    /\ agent' = [agent EXCEPT !.lane = Append(@, Task("idle", 0))]
    /\ UNCHANGED <<session, said, owed, saved, unload, trouble>>
\* disableRuntime: what is not in a checkpoint is given up.
SwitchOff ==
    /\ agent.present /\ agent.enabled /\ agent.memo = "none"
    /\ agent' = [agent EXCEPT !.enabled = FALSE, !.lease = FALSE]
    /\ session' = [session EXCEPT !.on = FALSE]
    /\ owed' = owed \cap saved
    /\ UNCHANGED <<said, saved, unload, trouble>>
\* The periodic sweep keeps the leases of live sessions fresh.
TouchLease ==
    /\ agent.present /\ agent.enabled /\ ~agent.retired /\ unload = "no"
    /\ agent' = [agent EXCEPT !.lease = TRUE]
    /\ UNCHANGED <<session, said, owed, saved, unload, trouble>>

----------------------------------------------------------------------------
(***************************************************************************)
(* retireSession                                                           *)
(***************************************************************************)
\* A workspace that is off, or a session that was never adopted, must not be
\* checkpointed.
RetiredBy(call, r) ==
    IF r.memo # "none" \/ ~r.present THEN r
    ELSE IF ~r.enabled \/ ~r.created
    THEN [r EXCEPT !.enabled = FALSE, !.disposed = TRUE, !.memo = "off"]
    ELSE [r EXCEPT !.memo = "running", !.lane = Append(@, Task("end", call)), !.drains = Append(@, "pending")]

\* What a session was told before its first task ran is given up.
TooEarly(r) == r.memo = "none" /\ r.enabled /\ ~r.created
Retires(r) == /\ agent' = RetiredBy(0, r)
              /\ owed' = IF TooEarly(r) THEN owed \cap saved ELSE owed
\* The unloading plugin calls again as soon as the first call is rejected.
AtOnce == 1

\* session/disposed
Close ==
    /\ session.open /\ session.closes < MaxCloses
    /\ session' = [session EXCEPT !.open = FALSE, !.closes = @ + 1]
    /\ Retires(agent)
    /\ UNCHANGED <<said, saved, unload, trouble>>
Reopen ==
    /\ ~session.open /\ session.closes < MaxCloses /\ unload = "no"
    /\ session' = [session EXCEPT !.open = TRUE]
    /\ UNCHANGED <<said, owed, saved, agent, unload, trouble>>
\* The drain of the plugin's sessions when it is unloaded.
Unload ==
    /\ unload = "no"
    /\ unload' = "first"
    /\ session' = [session EXCEPT !.open = FALSE, !.closes = MaxCloses]
    /\ Retires(agent)
    /\ UNCHANGED <<said, saved, trouble>>

\* The runtime leaves the map: the retirement is resolved.
Resolved(r) == Gone
RejectedForGood(r) ==  \* mutant: the failed retirement stays memoised
    IF r.attempts < RetireMax THEN [r EXCEPT !.attempts = @ + 1, !.timers = @ + 1]
    ELSE [r EXCEPT !.retired = TRUE, !.lease = FALSE]
\* The memo is cleared; a timer or the unloading plugin tries again.
Rejected(r) ==
    LET again == [r EXCEPT !.memo = "none"]
        timed == IF r.attempts < RetireMax
                 THEN [again EXCEPT !.attempts = @ + 1, !.timers = @ + 1]
                 ELSE [again EXCEPT !.retired = TRUE, !.lease = FALSE]
    IN IF unload = "first" THEN RetiredBy(AtOnce, timed) ELSE timed
AfterFailure == IF unload = "first" THEN "again" ELSE unload

RetryFires ==
    /\ agent.timers > 0
    /\ Retires([agent EXCEPT !.timers = @ - 1])
    /\ UNCHANGED <<session, said, saved, unload, trouble>>
\* A runtime that is off is only forgotten.
Forget ==
    /\ agent.memo = "off"
    /\ agent' = Resolved(agent)
    /\ UNCHANGED <<session, said, owed, saved, unload, trouble>>

----------------------------------------------------------------------------
(***************************************************************************)
(* The two lanes                                                           *)
(***************************************************************************)
Listening == agent.known /\ agent.enabled /\ ~agent.disposed
First(kind) == agent.lane # <<>> /\ Head(agent.lane).kind = kind
Popped(r) == [r EXCEPT !.lane = Tail(@)]
\* The first drain still waiting for its checkpoint.
Waiting(r) == CHOOSE i \in DOMAIN r.drains : r.drains[i] = "pending" /\ \A j \in 1..i - 1 : r.drains[j] # "pending"
Settles(r, how) == [Popped(r) EXCEPT !.drains[Waiting(r)] = how]

\* startRuntime's task: sessionCreated, then the replay of the log.
Create ==
    /\ First("create")
    /\ agent' = IF agent.enabled
                THEN [Popped(agent) EXCEPT !.created = TRUE, !.known = TRUE, !.seen = agent.seed]
                ELSE Popped(agent)
    /\ owed' = IF agent.enabled THEN owed \cup agent.seed ELSE owed
    /\ UNCHANGED <<session, said, saved, unload, trouble>>
\* It fails before or after the adapter has entered the session; nothing is
\* replayed.
CreateFails ==
    /\ First("create") /\ agent.enabled
    /\ \E known \in BOOLEAN : agent' = [Popped(agent) EXCEPT !.known = known]
    /\ trouble' = TRUE
    /\ UNCHANGED <<session, said, owed, saved, unload>>
SeeMessage ==
    /\ First("say")
    /\ agent' = [Popped(agent) EXCEPT !.seen = IF Listening THEN @ \cup {Head(agent.lane).at} ELSE @]
    /\ UNCHANGED <<session, said, owed, saved, unload, trouble>>
\* sessionIdle
Checkpoint ==
    /\ First("idle")
    /\ agent' = Popped(agent)
    /\ saved' = IF Listening THEN saved \cup agent.seen ELSE saved
    /\ UNCHANGED <<session, said, owed, unload, trouble>>
CheckpointFails ==
    /\ First("idle") /\ Listening
    /\ agent' = Popped(agent) /\ trouble' = TRUE
    /\ UNCHANGED <<session, said, owed, saved, unload>>
\* sessionEnded; an adapter that is disposed, or knows no such session, has
\* nothing to do and succeeds.
EndSession ==
    /\ First("end")
    /\ agent' = IF Listening
              THEN [Settles(agent, "ok") EXCEPT !.known = FALSE, !.seen = {}, !.lease = FALSE]
              ELSE Settles(agent, "ok")
    /\ saved' = IF Listening THEN saved \cup agent.seen ELSE saved
    /\ UNCHANGED <<session, said, owed, unload, trouble>>
\* It fails before its transaction commits, or when the index is closed after.
EndSessionFails ==
    /\ First("end") /\ Listening
    /\ saved' \in {saved, saved \cup agent.seen}
    /\ agent' = Rejected(Settles(agent, "failed")) /\ unload' = AfterFailure
    /\ trouble' = TRUE
    /\ UNCHANGED <<session, said, owed>>

MayDrainEarly == agent.drains # <<>>  \* mutant: the checkpoint is not waited for
\* The drain waits for the checkpoint, works within its budget, and disposes the
\* adapter whatever happened.
\* A checkpoint tried again at once has begun before the drain gets so far.
MayDrain == /\ agent.drains # <<>> /\ Head(agent.drains) # "pending"
            /\ agent.lane # <<>> => Head(agent.lane) # Task("end", AtOnce)
Drained(r) == [r EXCEPT !.drains = Tail(@), !.disposed = TRUE]
DrainLane ==
    /\ MayDrain
    /\ agent' = IF Head(agent.drains) = "failed" THEN Drained(agent) ELSE Resolved(agent)
    /\ UNCHANGED <<session, said, owed, saved, unload, trouble>>
DrainFails ==
    /\ MayDrain
    /\ agent' = IF Head(agent.drains) = "ok" THEN Rejected(Drained(agent)) ELSE Drained(agent)
    /\ unload' = IF Head(agent.drains) = "ok" THEN AfterFailure ELSE unload
    /\ trouble' = TRUE
    /\ UNCHANGED <<session, said, owed, saved>>

LaneTask == Create \/ CreateFails \/ SeeMessage \/ Checkpoint \/ CheckpointFails \/ EndSession \/ EndSessionFails
DrainTask == DrainLane \/ DrainFails
RetNext ==
    \/ Say \/ EndTurn \/ SwitchOff \/ TouchLease
    \/ Close \/ Reopen \/ Unload \/ RetryFires \/ Forget
    \/ LaneTask \/ DrainTask
\* The lanes are promises and the timers are the host's: each goes on.
RetFairness == WF_retVars(LaneTask) /\ WF_retVars(DrainTask) /\ WF_retVars(RetryFires) /\ WF_retVars(Forget)
RetSpec == RetInit /\ [][RetNext]_retVars /\ RetFairness

----------------------------------------------------------------------------
RetTypeOK ==
    /\ session \in [open : BOOLEAN, on : BOOLEAN, closes : 0..MaxCloses]
    /\ said \subseteq Said /\ owed \subseteq said /\ saved \subseteq said
    /\ agent.seen \cup agent.seed \subseteq said /\ agent.attempts \in 0..RetireMax
    /\ agent.memo \in {"none", "off", "running"}
    /\ \A i \in DOMAIN agent.lane : agent.lane[i] \in [kind : {"create", "say", "idle", "end"}, at : Said \cup {0, AtOnce}]
    /\ \A i \in DOMAIN agent.drains : agent.drains[i] \in Outcome
    /\ unload \in {"no", "first", "again"} /\ trouble \in BOOLEAN

(***************************************************************************)
(* When no task fails, a session that has left the map has in checkpoints  *)
(* all it was told while memory was on and it was not already retiring,    *)
(* also what was replayed to it and what was still waiting on the event    *)
(* lane when the session closed (retireSession, sessionEnded).  Only the   *)
(* runtime that retires before its first task has run keeps nothing; the   *)
(* next adoption replays the log, and then all of it is owed again.        *)
(***************************************************************************)
CleanEndKeepsAll == ~trouble /\ ~agent.present => owed \subseteq saved

(***************************************************************************)
(* "Bounded self-retry: a transient DB failure (e.g. SQLite busy) should   *)
(* not orphan the session's evidence forever": a retirement that reports   *)
(* success has kept the evidence, after failures as well.                  *)
(***************************************************************************)
RetryKeepsAll == ~agent.present => owed \subseteq saved

(***************************************************************************)
(* Whatever fails, and however often, a closed session leaves the map or   *)
(* gives up after RetireMax retries, and either way its lease goes: the    *)
(* store can be swept again (retireSession).                               *)
(***************************************************************************)
RetirementEnds ==
    ~session.open /\ agent.present ~> session.open \/ (~agent.lease /\ (agent.present => agent.retired))
=============================================================================
