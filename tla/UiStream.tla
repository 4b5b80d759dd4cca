------------------------------ MODULE UiStream ------------------------------
(***************************************************************************)
(* What a browser page shows of a store's writes.  The bridge              *)
(* (plugin/bridge.ts) reads the new audit rows of a store and hands them   *)
(* to the transport (plugin/ui-transport.ts), which numbers the batch,     *)
(* keeps a bounded history and writes a frame to the streams of the        *)
(* store's sessions.  The page (client/ui/transport.ts, model.ts) reads a  *)
(* snapshot before each stream, asks the stream for the frames after its   *)
(* cursor, polls while it has no stream, and starts over when it switches  *)
(* to another session.                                                     *)
(***************************************************************************)
EXTENDS Integers, Sequences, SequencesExt, FiniteSets

CONSTANTS
    Stores,       \* each has one session, of the same name
    NoStore,
    HistoryLimit, \* HISTORY_LIMIT
    MaxRows,      \* bound: rows written
    MaxReads,     \* bound: snapshot requests of the page
    MaxUiFaults   \* bound: broken requests, broken streams, switches of the memory

ASSUME UiAssumption ==
    /\ HistoryLimit \in Nat \ {0} /\ MaxRows \in Nat /\ MaxReads \in Nat \ {0} /\ MaxUiFaults \in Nat
    /\ NoStore \notin Stores

VARIABLES
    written, \* the store of each write-path row of the audit tables
    bridge,  \* of a store: the rows seen, or unseeded, and a refresh in flight
    srv,     \* the transport: seq, history, streams
    memory,  \* the stores whose session is enabled
    wire,    \* frames on their way, those of one stream in the order of their numbers
    reads,   \* snapshot requests on their way
    page,    \* the browser page
    uiFaults,
    carried  \* history: rows in frames, those kept back, those in a snapshot that came late

uiVars == <<written, bridge, srv, memory, wire, reads, page, uiFaults, carried>>

RowsOf(s) == {i \in DOMAIN written : written[i] = s}
Unseeded == [seeded |-> FALSE, seen |-> {}, flight |-> FALSE, fresh |-> {}]
\* folded: history, rows taken from frames.
NewPage(s) ==
    [session |-> s, gen |-> 1, last |-> 0, root |-> NoStore, req |-> 1, applied |-> 0,
     conn |-> "snapshot", poll |-> FALSE, retry |-> FALSE,
     rows |-> {}, folded |-> {}]
\* by: who waits for the answer.  at: the version, captured before the rows are read.
Request(p, by) == [id |-> p.req, session |-> p.session, by |-> by, gen |-> p.gen,
                   stage |-> "sent", at |-> 0, rows |-> {}]

UiInit ==
    /\ written = <<>>
    /\ bridge = [s \in Stores |-> Unseeded]
    /\ srv = [seq |-> 0, history |-> <<>>, streams |-> {}]
    /\ memory = Stores
    /\ wire = {}
    /\ \E s \in Stores : page = NewPage(s)
    /\ reads = {Request(page, "connect")}
    /\ uiFaults = 0
    /\ carried = [sent |-> {}, withheld |-> {}, late |-> {}]

Faulty == uiFaults < MaxUiFaults /\ uiFaults' = uiFaults + 1

----------------------------------------------------------------------------
(***************************************************************************)
(* The host                                                                *)
(***************************************************************************)
Write(s) ==
    /\ Len(written) < MaxRows
    /\ written' = Append(written, s)
    /\ UNCHANGED <<bridge, srv, memory, wire, reads, page, uiFaults, carried>>
SwitchMemory(s) ==
    /\ Faulty
    /\ memory' = IF s \in memory THEN memory \ {s} ELSE memory \cup {s}
    /\ UNCHANGED <<written, bridge, srv, wire, reads, page, carried>>

\* refreshOnce: the first one only seeds the baseline; a second call joins.
Refresh(s) ==
    /\ ~bridge[s].flight
    /\ bridge[s].seen # RowsOf(s) \/ ~bridge[s].seeded
    /\ bridge' = [bridge EXCEPT ![s] =
          [seeded |-> TRUE, seen |-> RowsOf(s), flight |-> TRUE,
           fresh |-> IF @.seeded THEN RowsOf(s) \ @.seen ELSE {}]]
    /\ UNCHANGED <<written, srv, memory, wire, reads, page, uiFaults, carried>>

\* resolveRoot
Resolves(session, s) == session = s /\ session \in memory
Frame(n, s, rows) == [seq |-> n, root |-> s, rows |-> rows, ready |-> FALSE]
Trimmed(h) == IF Len(h) > HistoryLimit THEN Tail(h) ELSE h
On(stream, frame) == [gen |-> stream.gen, frame |-> frame]
\* push and deliver
Deliver(s) ==
    /\ bridge[s].flight
    /\ bridge' = [bridge EXCEPT ![s].flight = FALSE, ![s].fresh = {}]
    /\ LET f == Frame(srv.seq + 1, s, bridge[s].fresh)
           to == {t \in srv.streams : Resolves(t.session, s)}
       IN IF f.rows = {} THEN UNCHANGED <<srv, wire, carried>>
          ELSE /\ srv' = [srv EXCEPT !.seq = f.seq, !.history = Trimmed(Append(@, f))]
               /\ wire' = wire \cup {On(t, f) : t \in to}
               /\ carried' = [carried EXCEPT !.sent = @ \cup f.rows,
                              !.withheld = IF \E t \in srv.streams \ to : t.session = s
                                           THEN @ \cup f.rows ELSE @]
    /\ UNCHANGED <<written, memory, reads, page, uiFaults>>

\* handleSnapshot: refused, or the version first and the rows later.
Replace(r, n) == reads' = (reads \ {r}) \cup {n}
ServeSnapshot(r) ==
    /\ r.stage = "sent"
    /\ Replace(r, IF Resolves(r.session, r.session)
                  THEN [r EXCEPT !.stage = "building", !.at = srv.seq] ELSE [r EXCEPT !.stage = "refused"])
    /\ UNCHANGED <<written, bridge, srv, memory, wire, page, uiFaults, carried>>
BuildSnapshot(r) ==
    /\ r.stage = "building"
    /\ Replace(r, [r EXCEPT !.stage = "built", !.rows = RowsOf(r.session)])
    /\ UNCHANGED <<written, bridge, srv, memory, wire, page, uiFaults, carried>>

NeverUncovered(after) == FALSE  \* mutant
\* handleEvents: what the history holds after the cursor, or a marker that it
\* does not reach back so far; then the stream is subscribed.
Uncovered(after) == srv.history # <<>> /\ after < Head(srv.history).seq - 1
Missed(session, after) ==
    IF ~Resolves(session, session) THEN {}
    ELSE IF Uncovered(after) THEN {[seq |-> srv.seq, root |-> NoStore, rows |-> {}, ready |-> TRUE]}
    ELSE {f \in ToSet(srv.history) : f.seq > after /\ f.root = session}
ServeEvents ==
    /\ page.conn = "opening"
    /\ \A t \in srv.streams : t.gen # page.gen
    /\ LET t == [gen |-> page.gen, session |-> page.session]
       IN /\ srv' = [srv EXCEPT !.streams = @ \cup {t}]
          /\ wire' = wire \cup {On(t, f) : f \in Missed(t.session, page.last)}
          /\ carried' = IF Resolves(t.session, t.session) THEN carried
                        ELSE [carried EXCEPT !.withheld = @ \cup (carried.sent \cap RowsOf(t.session))]
    /\ UNCHANGED <<written, bridge, memory, reads, page, uiFaults>>
\* The close of an aborted request reaches the host.
DropStream(t) ==
    /\ t.gen # page.gen
    /\ srv' = [srv EXCEPT !.streams = @ \ {t}]
    /\ UNCHANGED <<written, bridge, memory, wire, reads, page, uiFaults, carried>>

----------------------------------------------------------------------------
(***************************************************************************)
(* The page                                                                *)
(***************************************************************************)
\* A page p that asks for one more snapshot, beside the requests rs.
Asks(p, by, rs) ==
    LET q == [p EXCEPT !.req = @ + 1]
    IN page' = q /\ reads' = rs \cup {Request(q, by)}
\* connect: the stream is closed before the snapshot is read.
Connects(p, rs) == Asks([p EXCEPT !.gen = @ + 1, !.conn = "snapshot"], "connect", rs)
\* handleFailure: 404 waits for the retry; anything else polls as well.
Fails(p, refused, rs) ==
    LET q == [p EXCEPT !.conn = IF p.conn = "push" THEN @ ELSE "down", !.retry = TRUE]
    IN IF refused THEN page' = [q EXCEPT !.poll = FALSE] /\ reads' = rs
       ELSE Asks([q EXCEPT !.poll = TRUE], "once", rs)
MayAsk == page.req < MaxReads

\* applySnapshot
Shows(p, r) ==
    [p EXCEPT !.applied = r.id, !.root = r.session, !.rows = r.rows]
MayShowAny(r) == r.id > page.applied /\ r.at >= page.last  \* mutant
MayShow(r) == r.id > page.applied /\ r.session = page.session /\ r.at >= page.last
LandSnapshot(r) ==
    /\ r.stage = "built"
    /\ LET p == IF MayShow(r) THEN Shows(page, r) ELSE page
       IN page' = IF r.by = "connect" /\ r.gen = p.gen THEN [p EXCEPT !.conn = "opening"] ELSE p
    /\ reads' = reads \ {r}
    /\ carried' = IF r.at < page.last THEN [carried EXCEPT !.late = @ \cup r.rows] ELSE carried
    /\ UNCHANGED <<written, bridge, srv, memory, wire, uiFaults>>
ReadFails(r) ==
    /\ MayAsk
    /\ \/ r.stage = "refused" /\ UNCHANGED uiFaults
       \/ r.stage # "refused" /\ Faulty
    /\ IF r.by = "refresh" \/ (r.by = "connect" /\ r.gen = page.gen)
       THEN Fails(page, r.stage = "refused", reads \ {r})
       ELSE UNCHANGED page /\ reads' = reads \ {r}
    /\ UNCHANGED <<written, bridge, srv, memory, wire, carried>>
PollTick ==
    /\ page.poll /\ MayAsk
    /\ Asks(page, "poll", reads)
    /\ UNCHANGED <<written, bridge, srv, memory, wire, uiFaults, carried>>
RetryTick ==
    /\ page.retry /\ MayAsk
    /\ Connects([page EXCEPT !.retry = FALSE], reads)
    /\ UNCHANGED <<written, bridge, srv, memory, wire, uiFaults, carried>>

StreamOpens ==
    /\ page.conn = "opening" /\ \E t \in srv.streams : t.gen = page.gen
    /\ page' = [page EXCEPT !.conn = "push", !.poll = FALSE]
    /\ UNCHANGED <<written, bridge, srv, memory, wire, reads, uiFaults, carried>>
\* The stream ends, the host has too many, or drops one that stalls.
StreamBreaks ==
    /\ page.conn \in {"opening", "push"} /\ MayAsk /\ Faulty
    /\ srv' = [srv EXCEPT !.streams = {t \in @ : t.gen # page.gen}]
    /\ wire' = {m \in wire : m.gen # page.gen}
    /\ Fails([page EXCEPT !.conn = "down"], FALSE, reads)
    /\ UNCHANGED <<written, bridge, memory, carried>>

\* handleFrame and applyDeltas
Foreign(f) == f.root # NoStore /\ page.root # NoStore /\ f.root # page.root
MayFold(f) == ~Foreign(f) /\ f.seq > page.last
Folds(f) ==
    [page EXCEPT !.last = f.seq, !.rows = @ \cup f.rows, !.folded = @ \cup f.rows]
Receive(m) ==
    /\ \A n \in wire : n.gen = m.gen => m.frame.seq <= n.frame.seq
    /\ wire' = wire \ {m}
    /\ IF m.gen # page.gen THEN UNCHANGED <<page, reads>>
       ELSE /\ page.conn = "push"
            /\ IF ~MayFold(m.frame) THEN UNCHANGED <<page, reads>>
               ELSE IF m.frame.ready THEN MayAsk /\ Asks(Folds(m.frame), "refresh", reads)
               ELSE page' = Folds(m.frame) /\ UNCHANGED reads
    /\ UNCHANGED <<written, bridge, srv, memory, uiFaults, carried>>

\* Another session: resetStoreView and rebind.
Switch(s) ==
    /\ s # page.session /\ MayAsk
    /\ Connects([page EXCEPT !.session = s, !.last = 0, !.root = NoStore, !.retry = FALSE,
                             !.rows = {}, !.folded = {}], reads)
    /\ UNCHANGED <<written, bridge, srv, memory, wire, uiFaults, carried>>

UiNext ==
    \/ \E s \in Stores : Write(s) \/ SwitchMemory(s) \/ Refresh(s) \/ Deliver(s) \/ Switch(s)
    \/ \E r \in reads : ServeSnapshot(r) \/ BuildSnapshot(r) \/ LandSnapshot(r) \/ ReadFails(r)
    \/ \E t \in srv.streams : DropStream(t)
    \/ \E m \in wire : Receive(m)
    \/ ServeEvents \/ PollTick \/ RetryTick \/ StreamOpens \/ StreamBreaks
UiSpec == UiInit /\ [][UiNext]_uiVars

----------------------------------------------------------------------------
UiTypeOK ==
    /\ written \in Seq(Stores) /\ memory \subseteq Stores
    /\ Len(srv.history) <= HistoryLimit
    /\ \A i \in DOMAIN srv.history : srv.history[i].seq = srv.seq - Len(srv.history) + i
    /\ page.session \in Stores /\ page.root \in Stores \cup {NoStore}
    /\ page.conn \in {"snapshot", "opening", "push", "down"}
    /\ page.last \in 0..srv.seq /\ page.applied \in 0..page.req /\ page.req \in 1..MaxReads
    /\ \A r \in reads : r.id \in 1..page.req /\ r.at \in 0..srv.seq /\ r.gen \in 1..page.gen
    /\ page.conn = "down" => page.retry

(***************************************************************************)
(* A page shows the rows of its session's store and no other's, with slow  *)
(* snapshots and frames of the session it left still on their way          *)
(* (readSnapshot, rebind, handleFrame).                                    *)
(***************************************************************************)
OneStoreShown == page.rows \subseteq RowsOf(page.session)

(***************************************************************************)
(* "a late snapshot can never overwrite newer stream state": what a frame  *)
(* brought stays on the page until it switches (readSnapshot).             *)
(***************************************************************************)
FoldedStays == page.folded \subseteq page.rows

\* The page is neither of another store nor behind what it has folded.
PageIsTrue == OneStoreShown /\ FoldedStays

(***************************************************************************)
(* When nothing more is on its way, a page with a stream shows every row   *)
(* of its store that a frame ever carried: between a snapshot and its      *)
(* stream, over broken streams and a history that no longer reaches back,  *)
(* nothing falls through (handleEvents, deliver, connect).  Apart are the  *)
(* rows kept back from an open stream while memory was off, and those of a *)
(* snapshot that a newer frame overtook: nobody asks for another one.      *)
(***************************************************************************)
AtRest ==
    /\ page.conn = "push" /\ wire = {} /\ reads = {}
    /\ ~page.retry /\ ~page.poll
Excused == carried.withheld \cup carried.late
FramesArrive == AtRest => (carried.sent \ Excused) \cap RowsOf(page.session) \subseteq page.rows
=============================================================================
