---------------------------- MODULE SessionGate ----------------------------
(***************************************************************************)
(* One session of one workspace inside the host (plugin/index.ts): what    *)
(* the workspace's memory switch lets through.                             *)
(*                                                                         *)
(* Session events arrive synchronously and put tasks on the runtime's      *)
(* event lane; a model step and a tool call wait for that lane and then    *)
(* for the store.  The switch is read afresh at every event, and turning   *)
(* it off opens a new epoch that makes earlier tasks void.  A session      *)
(* adopted after a restart replays its log, unless the gate document       *)
(* (workspace-gate-meta.ts) says that the workspace was ever off.  That    *)
(* document is kept as well as it can be: a mark may fail to be written,   *)
(* and the marks of too many workspaces push the oldest out.               *)
(***************************************************************************)
EXTENDS Integers, Sequences

CONSTANTS
    MaxLog,     \* bound: events of the session
    MaxFlips,   \* bound: changes of the policy
    MaxRestarts, \* bound: restarts, and tasks that fail
    MaxLostMarks \* bound: marks that are not written, or dropped

ASSUME SessionGateAssumption ==
    MaxLog \in Nat /\ MaxFlips \in Nat /\ MaxRestarts \in Nat /\ MaxLostMarks \in Nat

VARIABLES
    log,     \* the session's events, kept by the host over a restart
    policy,  \* the settings: the default and the workspace's override
    gateDoc, \* state/workspace-gates.json
    rt,      \* the session's runtime
    step,    \* a model step (agent/pre-step)
    tool,    \* a memory tool's call
    flips, restarts, lostMarks

gateVars == <<log, policy, gateDoc, rt, step, tool, flips, restarts, lostMarks>>
fence == <<gateDoc, lostMarks>>

\* say: a message of the conversation; mem: the injected summary; a
\* compaction is a summary of what came before and, later, its end.
\* on: history, memory was on for the workspace, and for a mem since its
\* step began, in a session that was created.
Event == [kind : {"say", "mem", "summary", "end"}, on : BOOLEAN]
Positions == 1..MaxLog
OfKind(k) == {p \in 1..Len(log) : log[p].kind = k}

\* Of a task: at is the event, or how far a replay has come; upto its end.
Task == [kind : {"create", "replay", "say", "settle"}, at : 0..MaxLog, upto : 0..MaxLog,
         epoch : Nat, replay : BOOLEAN]
\* seen: the evidence in the adapter.  pending: summaries whose compaction has
\* not been settled.  from: the first event that counts.  bare: history, how far
\* a log is replayed of which a mark has been lost.
NoRuntime == [life |-> "absent", enabled |-> FALSE, created |-> FALSE, latch |-> FALSE,
              failed |-> FALSE, epoch |-> 0, from |-> 0, bare |-> 0, pending |-> {}, seen |-> {}, lane |-> <<>>]

\* ahead: the tasks still to wait for.  closed: history, the gate was closed
\* since the call began.
NoStep == [pc |-> "idle", ahead |-> 0, closed |-> FALSE]
NoTool == [pc |-> "idle", ahead |-> 0, epoch |-> 0, closed |-> FALSE]

GateInit ==
    /\ log = <<>>
    /\ policy = [default |-> TRUE, override |-> "none"]
    /\ gateDoc = {}
    /\ rt = NoRuntime
    /\ step = NoStep /\ tool = NoTool
    /\ flips = 0 /\ restarts = 0 /\ lostMarks = 0

----------------------------------------------------------------------------
(***************************************************************************)
(* The policy and the gate document                                        *)
(***************************************************************************)
PolicyOn(p) == IF p.override = "none" THEN p.default ELSE p.override = "on"
Readable == "torn" \notin gateDoc
\* workspaceEnabled: a workspace once switched off by hand needs an override.
WorkspaceOn(p) ==
    PolicyOn(p) /\ ~(Readable /\ "disabled" \in gateDoc /\ p.override = "none")
\* markDisabled, markDefaultOff: nothing is written over a document that
\* cannot be read.
Marked ==
    IF ~Readable THEN gateDoc
    ELSE IF policy.override = "off" THEN gateDoc \cup {"disabled"}
    ELSE IF ~policy.default THEN gateDoc \cup {"defaultOff"} ELSE gateDoc

\* It is kept as well as it can be.
Loses == lostMarks < MaxLostMarks /\ lostMarks' = lostMarks + 1
Mark == \/ gateDoc' = Marked /\ UNCHANGED lostMarks
        \/ Marked # gateDoc /\ Loses /\ UNCHANGED gateDoc

MayReplayDefault == gateDoc \cap {"disabled", "torn"} = {}  \* mutant
\* The replay of ensureSession.
MayReplay == gateDoc = {}

----------------------------------------------------------------------------
(***************************************************************************)
(* The runtime                                                             *)
(***************************************************************************)
\* seedInjectedLatch
InjectedIn(events) ==
    \E p \in 1..Len(events) : /\ events[p].kind = "mem"
                              /\ \A q \in p + 1..Len(events) : events[q].kind # "end"

\* startRuntime
Started(r, events, replay) ==
    LET next == [r EXCEPT !.enabled = TRUE, !.epoch = @ + 1,
                          !.latch = ~replay /\ InjectedIn(events),
                          !.from = IF replay THEN 0 ELSE Len(events) + 1]
    IN IF r.created THEN next
       ELSE [next EXCEPT !.lane = Append(@, [kind |-> "create", at |-> 0, upto |-> Len(events),
                                             epoch |-> next.epoch, replay |-> replay])]
\* disableRuntime
Stopped(r) == [r EXCEPT !.enabled = FALSE, !.latch = FALSE, !.epoch = @ + 1, !.pending = {}]

\* ensureSession and syncRuntimeGate, with the log the host holds.
Synced(r, events) ==
    IF r.life = "absent"
    THEN LET fresh == [r EXCEPT !.life = "live", !.from = Len(events) + 1,
                                !.bare = IF MayReplay /\ lostMarks > 0 THEN Len(events) ELSE 0]
         IN IF WorkspaceOn(policy) THEN Started(fresh, events, MayReplay) ELSE fresh
    ELSE IF r.enabled = WorkspaceOn(policy) THEN r
    ELSE IF r.enabled THEN Stopped(r) ELSE Started(r, events, FALSE)
\* What it does beside: an observation of the switch is written down, and
\* steps and calls under way see the gate close.
SyncedDoc(r) ==
    IF ~WorkspaceOn(policy) /\ (r.life = "absent" \/ r.enabled) THEN Mark ELSE UNCHANGED fence
Seen(r, call) ==
    IF r.enabled /\ ~WorkspaceOn(policy) /\ call.pc \notin {"idle", "answered"}
    THEN [call EXCEPT !.closed = TRUE] ELSE call
Sync(r) == /\ SyncedDoc(r)
           /\ tool' = Seen(r, tool)

\* Every handler begins with it; then, in an enabled runtime, it goes on to the
\* runtime next.
Handles(events, next) ==
    LET r == Synced(rt, events)
    IN /\ rt' = IF r.enabled /\ Len(events) >= r.from THEN next ELSE r
       /\ Sync(rt)
       /\ step' = Seen(rt, step)
Queued(r, task) == [r EXCEPT !.lane = Append(@, task)]
TaskFor(k, p, r) == [kind |-> k, at |-> p, upto |-> p, epoch |-> r.epoch, replay |-> FALSE]

\* A policy commit; the host's notice of it follows.
PolicyChanges ==
    /\ flips < MaxFlips /\ flips' = flips + 1
    /\ \E d \in BOOLEAN, o \in {"none", "on", "off"} : policy' = [default |-> d, override |-> o]
    /\ policy' # policy
    /\ UNCHANGED <<log, fence, rt, step, tool, restarts>>
\* reconcileWorkspacePolicy, with markKnownDisabled.
Reconcile ==
    /\ rt.life = "live"
    /\ rt' = Synced(rt, log)
    /\ IF ~PolicyOn(policy) THEN Mark ELSE UNCHANGED fence
    /\ tool' = Seen(rt, tool)
    /\ step' = Seen(rt, step)
    /\ UNCHANGED <<log, policy, flips, restarts>>
DocTears ==
    /\ gateDoc # {} /\ Readable /\ restarts < MaxRestarts /\ restarts' = restarts + 1
    /\ gateDoc' = {"torn"}
    /\ UNCHANGED <<log, policy, rt, step, tool, flips, lostMarks>>
\* MAX_KEYS: the marks of other workspaces push the oldest out.
MarkDropped ==
    /\ Readable /\ Loses
    /\ \E m \in gateDoc : gateDoc' = gateDoc \ {m}
    /\ UNCHANGED <<log, policy, rt, step, tool, flips, restarts>>

----------------------------------------------------------------------------
(***************************************************************************)
(* Session events (session/event)                                          *)
(***************************************************************************)
With(kind) == Append(log, [kind |-> kind, on |-> WorkspaceOn(policy)])
Say ==
    /\ Len(log) < MaxLog
    /\ log' = With("say")
    /\ LET r == Synced(rt, log') IN Handles(log', Queued(r, TaskFor("say", Len(log'), r)))
    /\ UNCHANGED <<policy, flips, restarts>>

Compacting == \E p \in OfKind("summary") : \A q \in OfKind("end") : q < p
LastSummary == CHOOSE p \in OfKind("summary") : \A q \in OfKind("summary") : q <= p
Summarise ==
    /\ Len(log) < MaxLog - 1 /\ ~Compacting
    /\ log' = With("summary")
    /\ LET r == Synced(rt, log') IN Handles(log', [r EXCEPT !.pending = @ \cup {Len(log')}])
    /\ UNCHANGED <<policy, flips, restarts>>
EndCompaction ==
    /\ Len(log) < MaxLog /\ Compacting
    /\ log' = With("end")
    /\ LET r == Synced(rt, log')
       IN Handles(log', Queued([r EXCEPT !.latch = FALSE], TaskFor("settle", LastSummary, r)))
    /\ UNCHANGED <<policy, flips, restarts>>

\* The host starts again; the session is adopted at its next event or call.
Restart ==
    /\ rt.life = "live" /\ restarts < MaxRestarts /\ restarts' = restarts + 1
    /\ rt' = NoRuntime /\ step' = NoStep /\ tool' = NoTool
    /\ UNCHANGED <<log, policy, fence, flips>>

----------------------------------------------------------------------------
(***************************************************************************)
(* The event lane                                                          *)
(***************************************************************************)
Void(task) == ~rt.enabled \/ rt.epoch # task.epoch

\* settleCompaction: what the summary shadows is pruned, and the summary taken.
Settled(r, p) ==
    IF p \notin r.pending THEN r
    ELSE [r EXCEPT !.pending = @ \ {p}, !.seen = {q \in @ : q > p} \cup {p}]

\* A task is done; whoever waits for the lane has one less ahead.
Done(r) ==
    /\ rt' = [r EXCEPT !.lane = Tail(@)]
    /\ step' = [step EXCEPT !.ahead = IF @ > 0 THEN @ - 1 ELSE 0]
    /\ tool' = [tool EXCEPT !.ahead = IF @ > 0 THEN @ - 1 ELSE 0]
Head1 == Head(rt.lane)
Working(kind) == rt.lane # <<>> /\ Head1.kind = kind

\* sessionCreated, and the replay that the same task goes on with.
CreateSession ==
    /\ Working("create")
    /\ IF Void(Head1) THEN Done(rt)
       ELSE IF Head1.replay
       THEN /\ rt' = [rt EXCEPT !.created = TRUE,
                               !.lane = <<[Head1 EXCEPT !.kind = "replay"]>> \o Tail(@)]
            /\ UNCHANGED <<step, tool>>
       ELSE Done([rt EXCEPT !.created = TRUE])
    /\ UNCHANGED <<log, policy, fence, flips, restarts>>
\* The database is busy: the lane keeps the failure for the next to wait.
CreateFails ==
    /\ Working("create") /\ ~Void(Head1)
    /\ restarts < MaxRestarts /\ restarts' = restarts + 1
    /\ Done([rt EXCEPT !.failed = TRUE])
    /\ UNCHANGED <<log, policy, fence, flips>>

\* replaySeedEvents, one event at a time.
Replayed(r, p) ==
    CASE log[p].kind = "say" -> [r EXCEPT !.seen = @ \cup {p}]
      [] log[p].kind = "mem" -> [r EXCEPT !.latch = TRUE]
      [] log[p].kind = "summary" -> [r EXCEPT !.pending = @ \cup {p}]
      [] log[p].kind = "end" -> [Settled(r, CHOOSE q \in OfKind("summary") :
                                               q < p /\ \A x \in OfKind("summary") : x < p => x <= q)
                                 EXCEPT !.latch = FALSE]
ReplayEvent ==
    /\ Working("replay")
    /\ IF Void(Head1) \/ Head1.at = Head1.upto THEN Done(rt)
       ELSE /\ rt' = [Replayed(rt, Head1.at + 1) EXCEPT !.lane[1].at = @ + 1]
            /\ UNCHANGED <<step, tool>>
    /\ UNCHANGED <<log, policy, fence, flips, restarts>>

\* messageSeen: an adapter that knows no session ignores it.
SeeMessage ==
    /\ Working("say")
    /\ Done(IF Void(Head1) \/ ~rt.created THEN rt ELSE [rt EXCEPT !.seen = @ \cup {Head1.at}])
    /\ UNCHANGED <<log, policy, fence, flips, restarts>>
SettleCompaction ==
    /\ Working("settle")
    /\ Done(IF ~rt.enabled THEN rt ELSE Settled(rt, Head1.at))
    /\ UNCHANGED <<log, policy, fence, flips, restarts>>

----------------------------------------------------------------------------
(***************************************************************************)
(* Model steps and tool calls, one after the other in an agent's turn      *)
(***************************************************************************)
StepBegins ==
    /\ step.pc = "idle" /\ tool.pc = "idle" /\ Len(log) < MaxLog
    /\ LET r == Synced(rt, log)
       IN /\ rt' = r /\ Sync(rt)
          /\ step' = IF r.enabled THEN [NoStep EXCEPT !.pc = "waiting", !.ahead = Len(r.lane)]
                     ELSE NoStep
    /\ UNCHANGED <<log, policy, flips, restarts>>
\* awaitRuntime throws a failure once; then the latch is looked at, and the
\* summary read from the store.
StepReads ==
    /\ step.pc = "waiting" /\ step.ahead = 0
    /\ step' = IF rt.failed \/ rt.latch THEN NoStep ELSE [step EXCEPT !.pc = "building"]
    /\ rt' = [rt EXCEPT !.failed = FALSE]
    /\ UNCHANGED <<log, policy, fence, tool, flips, restarts>>
\* The decision carries the message, and the host writes it to the log; the
\* store may have no summary yet.
StepInjects ==
    /\ step.pc = "building"
    /\ IF rt.enabled /\ Len(log) < MaxLog
       THEN \/ UNCHANGED <<log, rt>>
            \/ rt' = [rt EXCEPT !.latch = TRUE] /\ log' = Append(log, [kind |-> "mem", on |-> rt.created /\ ~step.closed])
       ELSE UNCHANGED <<log, rt>>
    /\ step' = NoStep
    /\ UNCHANGED <<policy, fence, tool, flips, restarts>>

\* runTool
Open(t) == rt.enabled /\ rt.epoch = t.epoch
ToolBegins ==
    /\ tool.pc = "idle" /\ step.pc = "idle" /\ rt.life = "live" /\ PolicyOn(policy)
    /\ tool' = [NoTool EXCEPT !.pc = "waiting", !.ahead = Len(rt.lane), !.epoch = rt.epoch]
    /\ UNCHANGED <<log, policy, fence, rt, step, flips, restarts>>
ToolRuns ==
    /\ tool.pc = "waiting" /\ tool.ahead = 0
    /\ tool' = IF rt.failed \/ ~Open(tool) THEN NoTool ELSE [tool EXCEPT !.pc = "running"]
    /\ rt' = [rt EXCEPT !.failed = FALSE]
    /\ UNCHANGED <<log, policy, fence, step, flips, restarts>>
ToolReturns ==
    /\ tool.pc = "running"
    /\ tool' = IF Open(tool) THEN [tool EXCEPT !.pc = "answered"] ELSE NoTool
    /\ UNCHANGED <<log, policy, fence, rt, step, flips, restarts>>
ToolLeaves ==
    /\ tool.pc = "answered"
    /\ tool' = NoTool
    /\ UNCHANGED <<log, policy, fence, rt, step, flips, restarts>>

LaneStep == CreateSession \/ ReplayEvent \/ SeeMessage \/ SettleCompaction
GateNext ==
    \/ PolicyChanges \/ Reconcile \/ DocTears \/ MarkDropped
    \/ Say \/ Summarise \/ EndCompaction \/ Restart
    \/ LaneStep \/ CreateFails
    \/ StepBegins \/ StepReads \/ StepInjects
    \/ ToolBegins \/ ToolRuns \/ ToolReturns \/ ToolLeaves

GateSpec == GateInit /\ [][GateNext]_gateVars

----------------------------------------------------------------------------
GateTypeOK ==
    /\ \A p \in 1..Len(log) : log[p] \in Event
    /\ Len(log) <= MaxLog
    /\ policy \in [default : BOOLEAN, override : {"none", "on", "off"}]
    /\ gateDoc \in (SUBSET {"disabled", "defaultOff"}) \cup {{"torn"}}
    /\ \A i \in 1..Len(rt.lane) : rt.lane[i] \in Task
    /\ rt.seen \subseteq Positions /\ rt.pending \subseteq Positions
    /\ rt.enabled => rt.life = "live"
    /\ step.pc \in {"idle", "waiting", "building"} /\ step.ahead \in 0..Len(rt.lane)
    /\ tool.pc \in {"idle", "waiting", "running", "answered"} /\ tool.ahead \in 0..Len(rt.lane)

(***************************************************************************)
(* No message of a time when memory was off becomes evidence: not by a     *)
(* task that was waiting when the switch went off and on again, not by the *)
(* replay of a resumed session, after any changes of the default and of    *)
(* the override, and not when the gate document cannot be read             *)
(* (startRuntime, replaySeedEvents, ensureSession).  Only the log of an    *)
(* adoption that no mark fenced any more, after one was not written or was *)
(* dropped, is replayed with what was said in an off time; no task of a    *)
(* live session and no later event follows it in.                          *)
(***************************************************************************)
OffStaysOut == \A p \in rt.seen \cap OfKind("say") : log[p].on \/ p <= rt.bare

(***************************************************************************)
(* A context window holds the memory summary at most once, over restarts,  *)
(* replays, switches off and on and compactions, as long as the task that  *)
(* creates the session does not fail and the switch is left alone while    *)
(* the step waits: it is looked at again afterwards, its epoch is not      *)
(* (agent/pre-step, seedInjectedLatch).                                    *)
(***************************************************************************)
InOneWindow(p, q) == \A x \in p..q : log[x].kind # "end"
OncePerWindow ==
    \A p, q \in OfKind("mem") : p < q /\ InOneWindow(p, q) => ~log[q].on

(***************************************************************************)
(* A tool that gives the model an answer from the store began and ended in *)
(* one time of memory being on, although it waited for the lane and for    *)
(* the store in between (runTool, toolGateOpen).                           *)
(***************************************************************************)
ToolStaysInWindow == tool.pc = "answered" => ~tool.closed

\* What crosses the border of a window in either direction: nothing does; and
\* no window has the memory twice.
WindowsAreKept == OffStaysOut /\ ToolStaysInWindow /\ OncePerWindow
=============================================================================
