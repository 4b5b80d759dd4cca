------------------------------ MODULE Evidence ------------------------------
(***************************************************************************)
(* What the engine remembers of one session, and what a checkpoint of it   *)
(* carries (engine.ts, the evidence half of core/extract.ts, and the event *)
(* handlers of plugin/index.ts that feed them).                            *)
(*                                                                         *)
(* The host keeps the session's log over a restart, the engine keeps       *)
(* nothing: it is rebuilt by replaying the log, by code other than the one *)
(* that handled the events when they were live.  Tool calls and summaries  *)
(* go to one bounded list, the parts of messages to another; a checkpoint  *)
(* takes a bounded prefix of the first followed by the second.             *)
(*                                                                         *)
(* A compaction or a prune shadows the messages before it.  Texts stand    *)
(* for themselves; the limits on items and on characters both cut a        *)
(* checkpoint at a prefix, and one limit stands for both.                  *)
(***************************************************************************)
EXTENDS Integers, Sequences, FiniteSets, SequencesExt, Subsequences

CONSTANTS
    ItemLimit,  \* MAX_EVIDENCE_ITEMS, and the cap on collected tool evidence
    PartsLimit, \* MAX_SEEN_PARTS
    MaxEvents,  \* bound: events of the session
    MaxReopens  \* bound: crashes and ends after which the session is opened again

ASSUME EvidenceAssumption ==
    /\ ItemLimit \in Nat \ {0} /\ PartsLimit \in Nat \ {0}
    /\ MaxEvents \in Nat /\ MaxReopens \in Nat

VARIABLES
    events,  \* the session's log
    eng,     \* the runtime and its adapter
    counted, \* usage_count of the memory file that is read, in SQLite
    queued,  \* the checkpoints in the queue, by what makes their key
    marks,   \* history: the turns whose checkpoint was taken
    reopens

evVars == <<events, eng, counted, queued, marks, reopens>>

\* upto: the last message a compaction or a prune shadows.  of: the summary
\* that an end belongs to.  tool: whether it read a memory file.
HostEvents ==
    [type : {"message", "turn"}] \cup [type : {"tool"}, tool : {"read", "write", "failed"}]
    \cup [type : {"summary", "prune"}, upto : 0..MaxEvents]
    \cup [type : {"end"}, of : 1..MaxEvents, failed : BOOLEAN]

EvidenceItem == [kind : {"tool"}, text : {"read", "write"}] \cup [kind : {"summary", "message"}, text : 1..MaxEvents]

\* done: events handled; those up to from are replayed.  used: whether a tool
\* was counted.  pend: the summaries whose compaction has not ended.
NoEngine == [open |-> FALSE, done |-> 0, from |-> 0, used |-> FALSE, tools |-> <<>>, parts |-> <<>>, pend |-> {}]
Rebuilt == [NoEngine EXCEPT !.open = TRUE, !.from = Len(events)]

LastOf(s, n) == IF Len(s) > n THEN SubSeq(s, Len(s) - n + 1, Len(s)) ELSE s

\* addEvidence and messageSeen: bounded, the oldest goes first.
WithEvidence(e, item) == [e EXCEPT !.tools = LastOf(Append(@, item), ItemLimit)]
MessageSeen(e, n) == [e EXCEPT !.parts = LastOf(Append(@, n), PartsLimit)]

\* pruneShadowedEvidence.
NotShadowed(parts, upto) == Kept(parts, {n \in ToSet(parts) : n > upto})
WithoutShadowed(e, upto) == [e EXCEPT !.parts = NotShadowed(@, upto)]

Executed(e, tool) ==
    IF tool = "failed" THEN e
    ELSE [WithEvidence(e, [kind |-> "tool", text |-> tool]) EXCEPT !.used = TRUE]

\* Mutant: the compaction leaves the parts that it shadows.
SettledKeeping(e, of) ==
    IF of \notin e.pend THEN e
    ELSE WithEvidence([e EXCEPT !.pend = @ \ {of}], [kind |-> "summary", text |-> of])

\* settleCompaction.
CompactionSettled(e, of) ==
    IF of \notin e.pend THEN e
    ELSE WithEvidence(WithoutShadowed([e EXCEPT !.pend = @ \ {of}], events[of].upto),
                      [kind |-> "summary", text |-> of])

\* What the next event does to the engine, replayed or live.
Noted(e, n, event) ==
    CASE event.type = "message" -> MessageSeen(e, n)
      [] event.type = "tool" -> Executed(e, event.tool)
      [] event.type = "summary" -> [e EXCEPT !.pend = @ \cup {n}]
      [] event.type = "end" -> IF event.failed THEN e ELSE CompactionSettled(e, event.of)
      [] event.type = "prune" -> WithoutShadowed(e, event.upto)
      [] event.type = "turn" -> e

\* createEvidenceSnapshot: the items that fit, from the first on.
EvidenceItems(e) == e.tools \o [i \in 1..Len(e.parts) |-> [kind |-> "message", text |-> e.parts[i]]]
Snapshot(e) == SubSeq(EvidenceItems(e), 1, IF Len(EvidenceItems(e)) > ItemLimit THEN ItemLimit ELSE Len(EvidenceItems(e)))

\* Mutant: the hash covers the time of the checkpoint.
KeyDated(event, e) == [event |-> event, content |-> Snapshot(e), at |-> e.done]

\* The idempotency key: what the checkpoint is of, and its content.
Key(event, e) == [event |-> event, content |-> Snapshot(e)]

QueueCheckpoint(event, e) == queued' = queued \cup {Key(event, e)}

\* sessionIdle: a turn that ends live, in a session that has content.
Idle(e, n, event) == event.type = "turn" /\ n > e.from /\ (e.parts # <<>> \/ e.used)

\* registerMemoryUsage: a read tool on a memory file.
UsageOf(event) == IF event.type = "tool" /\ event.tool = "read" THEN 1 ELSE 0

EvInit ==
    /\ events = <<>> /\ eng = NoEngine
    /\ counted = 0 /\ queued = {}
    /\ marks = {} /\ reopens = 0

\* The session goes on: its log grows, and the plugin is told.
Happens(event) ==
    /\ eng.open /\ Len(events) < MaxEvents
    /\ event.type \in {"summary", "prune"} =>
         event.upto \in 1..Len(events) /\ events[event.upto].type = "message"
    /\ event.type = "end" =>
         /\ event.of \in 1..Len(events) /\ events[event.of].type = "summary"
         /\ ~\E n \in 1..Len(events) : events[n].type = "end" /\ events[n].of = event.of
    /\ events' = Append(events, event)
    /\ UNCHANGED <<eng, counted, queued, marks, reopens>>

\* ensureSession: the session is adopted with the log there is.
Rebuild ==
    /\ ~eng.open
    /\ eng' = Rebuilt
    /\ UNCHANGED <<events, counted, queued, marks, reopens>>

\* The event lane takes the next event.  A turn's end is not replayed.
Handle ==
    /\ eng.open /\ eng.done < Len(events)
    /\ LET n == eng.done + 1
           event == events[n]
       IN  /\ eng' = [Noted(eng, n, event) EXCEPT !.done = n]
           /\ counted' = counted + UsageOf(event)
           /\ IF Idle(eng, n, event) THEN QueueCheckpoint("idle", eng) /\ marks' = marks \cup {n}
                                   ELSE UNCHANGED <<queued, marks>>
    /\ UNCHANGED <<events, reopens>>

\* sessionEnded, once the lane is empty.
SessionEnds ==
    /\ eng.open /\ eng.done = Len(events) /\ reopens < MaxReopens
    /\ QueueCheckpoint("session_end", eng)
    /\ eng' = NoEngine /\ reopens' = reopens + 1
    /\ UNCHANGED <<events, counted, marks>>

\* The process dies, with whatever the lane still held.
ProcessDies ==
    /\ eng.open /\ reopens < MaxReopens
    /\ eng' = NoEngine /\ reopens' = reopens + 1
    /\ UNCHANGED <<events, counted, queued, marks>>

EvNext == (\E event \in HostEvents : Happens(event)) \/ Rebuild \/ Handle \/ SessionEnds \/ ProcessDies
EvSpec == EvInit /\ [][EvNext]_evVars

-----------------------------------------------------------------------------
EvTypeOK ==
    /\ events \in Seq(HostEvents) /\ Len(events) <= MaxEvents
    /\ eng.done \in 0..Len(events) /\ eng.from \in 0..Len(events)
    /\ eng.tools \in Seq(EvidenceItem) /\ eng.parts \in Seq(1..MaxEvents) /\ eng.pend \subseteq 1..MaxEvents
    /\ counted \in Nat /\ reopens \in 0..MaxReopens
    /\ marks \subseteq 1..MaxEvents

\* What the log says: where its successful compactions ended, the messages
\* they and the prunes shadow, and what belongs in the list of evidence.
SettledAt(n) == events[n].type = "end" /\ ~events[n].failed
Shadowed(m) ==
    \E n \in m..Len(events) :
        \/ events[n].type = "prune" /\ m <= events[n].upto
        \/ SettledAt(n) /\ m <= events[events[n].of].upto
Listed(n) == SettledAt(n) \/ (events[n].type = "tool" /\ events[n].tool # "failed")
ListedItem(n) == IF SettledAt(n) THEN [kind |-> "summary", text |-> events[n].of]
                                 ELSE [kind |-> "tool", text |-> events[n].tool]
EventsIn(set) == Kept([n \in 1..Len(events) |-> n], set)

\* Whatever crashed, ended and was replayed in between, the evidence of a
\* session that has caught up is what its log says: the newest tool calls and
\* summaries in order, the messages that no compaction and no prune has
\* shadowed (the newest at least), and every read of a memory file was
\* counted.  The live handlers and the replay are different code.
EvidenceIsTheSurface ==
    eng.open /\ eng.done = Len(events) =>
        LET listed == EventsIn({n \in 1..Len(events) : Listed(n)})
            messages == EventsIn({n \in 1..Len(events) : events[n].type = "message"})
            reads == EventsIn({n \in 1..Len(events) : events[n].type = "tool" /\ events[n].tool = "read"})
        IN  /\ eng.tools = LastOf([i \in 1..Len(listed) |-> ListedItem(listed[i])], ItemLimit)
            /\ \A m \in ToSet(eng.parts) : ~Shadowed(m)
            /\ \A m \in ToSet(LastOf(messages, PartsLimit)) : m \in ToSet(eng.parts) \/ Shadowed(m)
            /\ counted >= Len(reads)

\* A turn that ends with nothing new since an earlier checkpoint queues no
\* other, also when the evidence was rebuilt in between: each checkpoint
\* costs a model call.
NothingNewNothingQueued ==
    [][\A m \in marks, n \in marks' \ marks :
          (m < n /\ \A k \in m..n : events[k].type = "turn") => queued' = queued]_evVars
=============================================================================
