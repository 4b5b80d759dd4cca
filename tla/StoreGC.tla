------------------------------ MODULE StoreGC ------------------------------
(***************************************************************************)
(* The life of one store directory (core/store-gc.ts): collectors move a   *)
(* store that nobody can need to the trash, and purge it there after a     *)
(* while; a session that adopts the workspace again brings it back.        *)
(*                                                                         *)
(* Collectors and adoptions exclude each other with the lifecycle lock,    *)
(* but sessions and sweeps write to the store without it, a collector      *)
(* awaits between its looks and its moves, and any process may die between *)
(* two file operations.                                                    *)
(***************************************************************************)
EXTENDS Integers, FiniteSets

CONSTANTS
    Collectors,  \* GC passes, one per process
    Sessions,    \* sessions of other processes, each in its own
    Items,       \* pieces of memory
    Copies,      \* bound: trash entries, in the order of their names
    MaxGcFaults  \* bound: crashes, failed renames and lock time-outs

ASSUME GcAssumption ==
    /\ Copies \subseteq Nat \ {0} /\ IsFiniteSet(Copies)
    /\ Collectors \cap Sessions = {} /\ "free" \notin Collectors \cup Sessions
    /\ MaxGcFaults \in Nat

VARIABLES
    site,      \* the directory at the store's path
    items,     \* [Items -> Item], where each piece of memory is
    trash,     \* [Copies -> Copy]
    tombstone, \* the entry it points at, or 0
    workdir,   \* the workspace directory exists
    gcLock,    \* the holder of lifecycle.lock
    gc,        \* [Collectors -> Gc]
    session,   \* [Sessions -> Session]
    gcFaults

gcVars == <<site, items, trash, tombstone, workdir, gcLock, gc, session, gcFaults>>

\* dirty: the sweep would open it.  quiet: no token for a week.  old: no
\* activity within the retention.  missing: the mark of an earlier pass that
\* found no workspace.  leases: session leases; they move with the directory.
Store == [kind : {"store"}, dirty : BOOLEAN, quiet : BOOLEAN, old : BOOLEAN,
          missing : {"no", "new", "confirmed"}, leases : SUBSET Sessions]
NoSite(kind) == [kind |-> kind, dirty |-> FALSE, quiet |-> FALSE, old |-> FALSE,
                 missing |-> "no", leases |-> {}]
Nothing == NoSite("none")
Ghost == NoSite("ghost")  \* a directory without index.sqlite
NewStore == NoSite("store")
Sites == Store \cup {Nothing, Ghost}

\* A job in the queue, a staged row or note, a line of a document.  At 0 it is
\* in the store at the path, at e in the trash entry e.
Item == [at : Copies \cup {0}, as : {"unborn", "job", "row", "doc", "purged"}]
Living == {"job", "row", "doc"}
At(e, kinds) == {i \in Items : items[i].as \in kinds /\ items[i].at = e}
MoveItems(from, to) ==
    items' = [i \in Items |-> IF items[i].at = from /\ items[i].as \in Living
                              THEN [items[i] EXCEPT !.at = to] ELSE items[i]]

\* made: a manifest and no store.  dead: moved with a queue nobody can claim.
\* excused: history, why work may stay in it.  forgotten: history, an error has
\* taken the tombstone while it was there.
Copy == [state : {"unused", "made", "full", "purging", "gone"}, store : Sites, conflict : BOOLEAN,
         age : 0..2, dead : BOOLEAN, excused : BOOLEAN, forgotten : BOOLEAN]
NoCopy == [state |-> "unused", store |-> Nothing, conflict |-> FALSE,
           age |-> 0, dead |-> FALSE, excused |-> FALSE, forgotten |-> FALSE]
Full == {e \in Copies : trash[e].state = "full"}
Newest(S) == CHOOSE e \in S : \A f \in S : f <= e
Unused == {e \in Copies : trash[e].state = "unused"}
Usable(e) == trash[e].state \in {"made", "full"}

Gc == [pc : {"idle", "planned", "inspected", "made", "tombstoned", "moved", "rolling", "rolled"},
       tier : {"orphan", "empty"}, changed : BOOLEAN, dead : BOOLEAN, entry : Copies \cup {0}]
NoGc == [pc |-> "idle", tier |-> "orphan", changed |-> FALSE, dead |-> FALSE, entry |-> 0]

\* found: history, the newest copy in the trash when the adoption began; from
\* the move on, the copy that is restored.  failed: history, an error has kept
\* this adoption from it.
Session == [pc : {"out", "asking", "restoring", "adopted", "opened", "using", "committed"},
            found : Copies \cup {0}, failed : BOOLEAN]
NoSession == [pc |-> "out", found |-> 0, failed |-> FALSE]

GcInit ==
    /\ site = NewStore
    /\ items = [i \in Items |-> [at |-> 0, as |-> "unborn"]]
    /\ trash = [e \in Copies |-> NoCopy]
    /\ tombstone = 0
    /\ workdir = TRUE
    /\ gcLock = "free"
    /\ gc = [g \in Collectors |-> NoGc]
    /\ session = [s \in Sessions |-> NoSession]
    /\ gcFaults = 0

GcIs(g, r) == gc' = [gc EXCEPT ![g] = r]
GcAt(g, pc) == GcIs(g, [gc[g] EXCEPT !.pc = pc])
SessionAt(s, pc) == session' = [session EXCEPT ![s].pc = pc]
\* A write to the database: a collector that has looked will see another inode,
\* time stamp or a WAL file.
Touched == gc' = [g \in Collectors |-> [gc[g] EXCEPT !.changed = @ \/ gc[g].pc \in {"planned", "inspected"}]]
GcFault == gcFaults < MaxGcFaults /\ gcFaults' = gcFaults + 1

----------------------------------------------------------------------------
(***************************************************************************)
(* The collector (executeStoreGc)                                          *)
(***************************************************************************)
\* purgeTrash, under the lock: finishes interrupted purges, drops entries that
\* never got a store, and purges what has been kept long enough; a conflict
\* doubles the time.
Eligible(e) == trash[e].state = "full" /\ trash[e].age >= IF trash[e].conflict THEN 2 ELSE 1
Debris(e) == trash[e].state = "made" /\ trash[e].age >= 1
Purged(S) ==
    items' = [i \in Items |-> IF items[i].at \in S /\ items[i].as \in Living
                              THEN [at |-> 0, as |-> "purged"] ELSE items[i]]
Purge(g) ==
    /\ gc[g].pc = "idle" /\ gcLock = "free"
    /\ \E e \in Copies : Eligible(e) \/ Debris(e) \/ trash[e].state = "purging"
    /\ trash' = [e \in Copies |->
           IF Eligible(e) \/ Debris(e) \/ trash[e].state = "purging"
           THEN [NoCopy EXCEPT !.state = "gone"] ELSE trash[e]]
    /\ Purged({e \in Copies : Eligible(e)})
    /\ tombstone' = IF tombstone # 0 /\ Eligible(tombstone) THEN 0 ELSE tombstone
    /\ UNCHANGED <<site, workdir, gcLock, gc, session, gcFaults>>
\* A crash after the move to .gc/purging: the tombstone is left.
PurgeDies(g, e) ==
    /\ gc[g].pc = "idle" /\ gcLock = "free" /\ Eligible(e) /\ GcFault
    /\ trash' = [trash EXCEPT ![e] = [NoCopy EXCEPT !.state = "purging"]]
    /\ Purged({e})
    /\ UNCHANGED <<site, tombstone, workdir, gcLock, gc, session>>

\* planStoreGc and the confirmation: two passes an hour apart must agree that
\* the workspace is gone.
Tier == IF At(0, {"doc"}) = {} THEN "empty" ELSE "orphan"
Plan(g) ==
    /\ gc[g].pc = "idle" /\ gcLock = "free" /\ site.kind = "store"
    /\ IF Tier = "orphan" /\ workdir
       THEN site' = [site EXCEPT !.missing = "no"] /\ UNCHANGED gc
       ELSE /\ site.old
            /\ ~site.dirty \/ (Tier = "orphan" /\ site.quiet)
            /\ IF Tier = "orphan" /\ site.missing # "confirmed"
               THEN site' = [site EXCEPT !.missing = "new"] /\ UNCHANGED gc
               ELSE GcIs(g, [NoGc EXCEPT !.pc = "planned", !.tier = Tier]) /\ UNCHANGED site
    /\ UNCHANGED <<items, trash, tombstone, workdir, gcLock, session, gcFaults>>

\* The queue is opened: pending jobs, and content for the empty tier.
Inspect(g) ==
    /\ gc[g].pc = "planned"
    /\ LET jobs == At(0, {"job"})
           dead == gc[g].tier = "orphan" /\ jobs # {} /\ site.quiet
           blocked == \/ site.kind # "store"
                      \/ jobs # {} /\ ~dead
                      \/ gc[g].tier = "empty" /\ At(0, {"row"}) # {}
       IN GcIs(g, IF blocked THEN NoGc ELSE [gc[g] EXCEPT !.pc = "inspected", !.dead = dead])
    /\ UNCHANGED <<site, items, trash, tombstone, workdir, gcLock, session, gcFaults>>

\* Under the lock: every fence is read again, then the entry and its manifest
\* are made.
Fenced(g) ==
    \/ site.kind # "store" \/ gc[g].changed
    \/ site.leases # {}
    \/ site.dirty /\ ~(gc[g].tier = "orphan" /\ site.quiet)
    \/ gc[g].tier = "orphan" /\ workdir
MakeEntry(g) ==
    /\ gc[g].pc = "inspected" /\ gcLock = "free"
    /\ IF Fenced(g) THEN GcIs(g, NoGc) /\ UNCHANGED <<trash, gcLock>>
       ELSE /\ Unused # {}
            /\ LET e == CHOOSE e \in Unused : \A f \in Unused : e <= f
               IN /\ trash' = [trash EXCEPT ![e].state = "made"]
                  /\ GcIs(g, [gc[g] EXCEPT !.pc = "made", !.entry = e])
            /\ gcLock' = g
    /\ UNCHANGED <<site, items, tombstone, workdir, session, gcFaults>>
WriteNoTombstone(g) ==  \* mutant
    /\ gc[g].pc = "made"
    /\ GcAt(g, "tombstoned")
    /\ UNCHANGED <<site, items, trash, tombstone, workdir, gcLock, session, gcFaults>>
WriteTombstone(g) ==
    /\ gc[g].pc = "made"
    /\ tombstone' = gc[g].entry
    /\ GcAt(g, "tombstoned")
    /\ UNCHANGED <<site, items, trash, workdir, gcLock, session, gcFaults>>
MoveStore(g) ==
    /\ gc[g].pc = "tombstoned"
    /\ LET e == gc[g].entry
       IN /\ trash' = [trash EXCEPT ![e] = [@ EXCEPT !.state = "full", !.store = site,
                                                    !.dead = gc[g].dead]]
          /\ MoveItems(0, e)
    /\ site' = Nothing
    /\ gcLock' = "free"
    /\ GcAt(g, "moved")
    /\ UNCHANGED <<tombstone, workdir, session, gcFaults>>
MoveFailsLocked(g) ==  \* mutant
    /\ gc[g].pc = "tombstoned" /\ GcFault
    /\ trash' = [trash EXCEPT ![gc[g].entry] = [NoCopy EXCEPT !.state = "gone"]]
    /\ tombstone' = 0
    /\ GcIs(g, NoGc)
    /\ UNCHANGED <<site, items, workdir, gcLock, session>>
MoveFails(g) ==
    /\ gc[g].pc = "tombstoned" /\ GcFault
    /\ trash' = [trash EXCEPT ![gc[g].entry] = [NoCopy EXCEPT !.state = "gone"]]
    /\ tombstone' = 0
    /\ gcLock' = "free"
    /\ GcIs(g, NoGc)
    /\ UNCHANGED <<site, items, workdir, session>>

\* The moved store is inspected again.  A copy that is gone cannot be opened.
InspectMoved(g) ==
    /\ gc[g].pc = "moved"
    /\ LET e == gc[g].entry
           work == \/ trash[e].state # "full"
                   \/ At(e, {"job"}) # {} /\ ~gc[g].dead
                   \/ gc[g].tier = "empty" /\ At(e, {"row"}) # {}
       IN GcIs(g, IF work THEN [gc[g] EXCEPT !.pc = "rolling"] ELSE NoGc)
    /\ UNCHANGED <<site, items, trash, tombstone, workdir, gcLock, session, gcFaults>>

RollBackAnyway(g) ==  \* mutant
    /\ gc[g].pc = "rolling" /\ gcLock = "free"
    /\ IF trash[gc[g].entry].state = "full" /\ site = Nothing
       THEN site' = trash[gc[g].entry].store /\ MoveItems(gc[g].entry, 0)
       ELSE UNCHANGED <<site, items>>
    /\ gcLock' = g
    /\ GcAt(g, "rolled")
    /\ UNCHANGED <<trash, tombstone, workdir, session, gcFaults>>
\* The rollback: the rename fails when the copy is gone or the path is taken.
RollBack(g) ==
    /\ gc[g].pc = "rolling" /\ gcLock = "free"
    /\ LET e == gc[g].entry
       IN IF trash[e].state = "full" /\ site = Nothing
          THEN /\ site' = trash[e].store
               /\ MoveItems(e, 0)
               /\ trash' = [trash EXCEPT ![e] = [NoCopy EXCEPT !.state = "made", !.age = trash[e].age]]
               /\ gcLock' = g
               /\ GcAt(g, "rolled")
          ELSE /\ trash' = [trash EXCEPT ![e].excused = TRUE]
               /\ GcIs(g, NoGc)
               /\ UNCHANGED <<site, items, gcLock>>
    /\ UNCHANGED <<tombstone, workdir, session, gcFaults>>
RemoveEntry(g) ==
    /\ gc[g].pc = "rolled"
    /\ trash' = [trash EXCEPT ![gc[g].entry] = [NoCopy EXCEPT !.state = "gone"]]
    /\ tombstone' = 0
    /\ gcLock' = "free"
    /\ GcIs(g, NoGc)
    /\ UNCHANGED <<site, items, workdir, session, gcFaults>>

\* A dead process's lock is reclaimed by the next one to want it.
GcDies(g) ==
    /\ gc[g].pc \in {"made", "tombstoned", "moved", "rolling", "rolled"} /\ GcFault
    /\ GcIs(g, NoGc)
    /\ gcLock' = IF gcLock = g THEN "free" ELSE gcLock
    /\ trash' = IF gc[g].pc \in {"moved", "rolling"}
                THEN [trash EXCEPT ![gc[g].entry].excused = TRUE] ELSE trash
    /\ UNCHANGED <<site, items, tombstone, workdir, session>>

----------------------------------------------------------------------------
(***************************************************************************)
(* A session adopts the workspace (restoreAdoptedStore, sessionCreated)    *)
(***************************************************************************)
\* The tombstone is read without the lock first.
Adopt(s) ==
    /\ session[s].pc = "out"
    /\ session' = [session EXCEPT ![s] =
           [pc |-> IF tombstone = 0 THEN "adopted" ELSE "asking",
            found |-> IF Full = {} THEN 0 ELSE Newest(Full), failed |-> FALSE]]
    /\ UNCHANGED <<site, items, trash, tombstone, workdir, gcLock, gc, gcFaults>>

\* restoreTombstonedStore under the lock.  A ghost is put aside; a store at the
\* path wins and the copy is marked; else the newest copy is moved back.
AskForCopy(s) ==
    /\ session[s].pc = "asking" /\ gcLock = "free"
    /\ IF tombstone = 0
       THEN SessionAt(s, "adopted") /\ UNCHANGED <<site, items, trash, tombstone, gcLock>>
       ELSE IF site.kind = "store"
       THEN /\ IF Usable(tombstone)
               THEN trash' = [trash EXCEPT ![tombstone].conflict = TRUE] /\ UNCHANGED tombstone
               ELSE tombstone' = 0 /\ UNCHANGED trash
            /\ SessionAt(s, "adopted")
            /\ UNCHANGED <<site, items, gcLock>>
       ELSE IF Full = {}
       THEN /\ site' = Nothing
            /\ tombstone' = IF Usable(tombstone) THEN tombstone ELSE 0
            /\ SessionAt(s, "adopted")
            /\ UNCHANGED <<items, trash, gcLock>>
       ELSE LET e == Newest(Full)
            IN /\ site' = trash[e].store
               /\ MoveItems(e, 0)
               /\ trash' = [trash EXCEPT ![e] = [NoCopy EXCEPT !.state = "made"]]
               /\ gcLock' = s
               /\ session' = [session EXCEPT ![s].pc = "restoring", ![s].found = e]
               /\ UNCHANGED tombstone
    /\ UNCHANGED <<workdir, gc, gcFaults>>
\* An error ends the adoption without a store: the lock is not had in time, the
\* copy cannot be moved, or the ghost cannot, or the copy does not look intact,
\* which marks it.  A tombstone whose own entry is gone goes with the error,
\* although an older copy may be there.
GivesUp(s) == session' = [session EXCEPT ![s].pc = "adopted", ![s].failed = TRUE]
TombstoneServes == tombstone # 0 /\ Usable(tombstone)
LockTimesOut(s) ==
    /\ session[s].pc = "asking" /\ GcFault
    /\ GivesUp(s)
    /\ UNCHANGED <<site, items, trash, tombstone, workdir, gcLock, gc>>
RestoreFails(s) ==
    /\ session[s].pc = "asking" /\ gcLock = "free" /\ GcFault
    /\ tombstone # 0 /\ site.kind # "store" /\ Full # {}
    /\ \/ /\ site' = Nothing
          /\ tombstone' = IF TombstoneServes THEN tombstone ELSE 0
          /\ trash' = [e \in Copies |-> [trash[e] EXCEPT !.forgotten = @ \/ (e \in Full /\ ~TombstoneServes)]]
       \/ /\ site' \in {site, Nothing}
          /\ trash' = [trash EXCEPT ![Newest(Full)].conflict = TRUE]
          /\ UNCHANGED tombstone
    /\ GivesUp(s)
    /\ UNCHANGED <<items, workdir, gcLock, gc>>
\* The restored store is dirty for the sweep, and its entry is dropped.
FinishRestore(s) ==
    /\ session[s].pc = "restoring"
    /\ site' = [site EXCEPT !.dirty = TRUE, !.quiet = FALSE]
    /\ tombstone' = 0
    /\ trash' = [trash EXCEPT ![session[s].found] = [NoCopy EXCEPT !.state = "gone"]]
    /\ gcLock' = "free"
    /\ SessionAt(s, "adopted")
    /\ UNCHANGED <<items, workdir, gc, gcFaults>>

\* The store is back, but its token cannot be written.
FinishFails(s) ==
    /\ session[s].pc = "restoring" /\ GcFault
    /\ gcLock' = "free"
    /\ tombstone' = IF TombstoneServes THEN tombstone ELSE 0
    /\ GivesUp(s)
    /\ UNCHANGED <<site, items, trash, workdir, gc>>

\* sessionCreated: the layout and the database are created if need be and
\* written to; origin and lease come after.
OpenStore(s) ==
    /\ session[s].pc = "adopted"
    /\ site' = IF site.kind = "store" THEN site ELSE NewStore
    /\ Touched
    /\ SessionAt(s, "opened")
    /\ UNCHANGED <<items, trash, tombstone, workdir, gcLock, gcFaults>>
\* touchSessionLease, here and at every sweep: nothing without a directory.
TouchLease(s) ==
    /\ session[s].pc \in {"opened", "using"}
    /\ site' = IF site.kind = "store"
               THEN [site EXCEPT !.leases = @ \cup {s}, !.old = @ /\ session[s].pc = "using"]
               ELSE site
    /\ SessionAt(s, "using")
    /\ UNCHANGED <<items, trash, tombstone, workdir, gcLock, gc, gcFaults>>

\* A checkpoint: the job is committed, then the token is published.
Checkpoint(s) ==
    /\ session[s].pc = "using"
    /\ \E i \in Items :
          /\ items[i].as = "unborn" /\ \A j \in Items : items[j].as = "unborn" => i <= j
          /\ items' = [items EXCEPT ![i] = [at |-> 0, as |-> "job"]]
    /\ site' = IF site.kind = "store" THEN site ELSE NewStore
    /\ Touched
    /\ SessionAt(s, "committed")
    /\ UNCHANGED <<trash, tombstone, workdir, gcLock, gcFaults>>
PublishToken(s) ==
    /\ session[s].pc = "committed"
    /\ site' = IF site.kind = "store"
               THEN [site EXCEPT !.dirty = TRUE, !.quiet = FALSE, !.old = FALSE]
               ELSE site
    /\ SessionAt(s, "using")
    /\ UNCHANGED <<items, trash, tombstone, workdir, gcLock, gc, gcFaults>>
\* The store is moved between the look at the directory and the mkdir.
PublishLate(s) ==
    /\ session[s].pc = "committed"
    /\ site = Nothing /\ \E g \in Collectors : gc[g].pc = "moved"
    /\ site' = Ghost
    /\ SessionAt(s, "using")
    /\ UNCHANGED <<items, trash, tombstone, workdir, gcLock, gc, gcFaults>>

\* Drains and consolidations, of sessions and of sweeps.
Digest(i) ==
    /\ items[i].at = 0 /\ items[i].as \in {"job", "row"}
    /\ items' = [items EXCEPT ![i].as = IF @ = "job" THEN "row" ELSE "doc"]
    /\ site' = [site EXCEPT !.dirty = At(0, {"job"}) \ {i} # {}]
    /\ Touched
    /\ UNCHANGED <<trash, tombstone, workdir, gcLock, session, gcFaults>>

\* The session ends, or its process dies: a dead process's lease counts no more.
EndSession(s) ==
    /\ session[s].pc = "using"
    /\ site' = [site EXCEPT !.leases = @ \ {s}]
    /\ session' = [session EXCEPT ![s] = NoSession]
    /\ UNCHANGED <<items, trash, tombstone, workdir, gcLock, gc, gcFaults>>
SessionDies(s) ==
    /\ session[s].pc \in {"restoring", "opened", "committed"} /\ GcFault
    /\ site' = [site EXCEPT !.leases = @ \ {s}]
    /\ trash' = [e \in Copies |-> [trash[e] EXCEPT !.store.leases = @ \ {s}]]
    /\ gcLock' = IF gcLock = s THEN "free" ELSE gcLock
    /\ session' = [session EXCEPT ![s] = NoSession]
    /\ UNCHANGED <<items, tombstone, workdir, gc>>

----------------------------------------------------------------------------
(***************************************************************************)
(* The world                                                               *)
(***************************************************************************)
WorkdirChanges ==
    /\ workdir' = ~workdir
    /\ UNCHANGED <<site, items, trash, tombstone, gcLock, gc, session, gcFaults>>

Resting == /\ \A g \in Collectors : gc[g].pc = "idle"
           /\ \A s \in Sessions : session[s].pc \in {"out", "using"}
HourPasses ==
    /\ site.missing = "new"
    /\ site' = [site EXCEPT !.missing = "confirmed"]
    /\ UNCHANGED <<items, trash, tombstone, workdir, gcLock, gc, session, gcFaults>>
\* Days pass only between the steps of passes and adoptions.
DaysPass ==
    /\ Resting
    /\ site' = IF site.kind = "store" THEN [site EXCEPT !.old = TRUE, !.quiet = TRUE] ELSE site
    /\ trash' = [e \in Copies |-> IF Usable(e) /\ trash[e].age < 2
                                  THEN [trash[e] EXCEPT !.age = @ + 1] ELSE trash[e]]
    /\ UNCHANGED <<items, tombstone, workdir, gcLock, gc, session, gcFaults>>

GcStep(g) ==
    \/ Inspect(g) \/ MakeEntry(g) \/ WriteTombstone(g) \/ MoveStore(g)
    \/ InspectMoved(g) \/ RollBack(g) \/ RemoveEntry(g)
SessionStep(s) ==
    AskForCopy(s) \/ FinishRestore(s) \/ OpenStore(s) \/ TouchLease(s) \/ PublishToken(s)

GcNext ==
    \/ \E g \in Collectors :
          \/ Purge(g) \/ (\E e \in Copies : PurgeDies(g, e))
          \/ Plan(g) \/ GcStep(g) \/ MoveFails(g) \/ GcDies(g)
    \/ \E s \in Sessions :
          \/ Adopt(s) \/ SessionStep(s) \/ Checkpoint(s) \/ PublishLate(s)
          \/ LockTimesOut(s) \/ RestoreFails(s) \/ FinishFails(s)
          \/ EndSession(s) \/ SessionDies(s)
    \/ \E i \in Items : Digest(i)
    \/ WorkdirChanges \/ HourPasses \/ DaysPass

GcSpec == GcInit /\ [][GcNext]_gcVars

----------------------------------------------------------------------------
GcTypeOK ==
    /\ site \in Sites
    /\ items \in [Items -> Item]
    /\ trash \in [Copies -> Copy]
    /\ tombstone \in Copies \cup {0}
    /\ workdir \in BOOLEAN
    /\ gcLock \in Collectors \cup Sessions \cup {"free"}
    /\ gc \in [Collectors -> Gc]
    /\ session \in [Sessions -> Session]
    /\ gcFaults \in 0..MaxGcFaults
    /\ \A g \in Collectors : gcLock = g <=> gc[g].pc \in {"made", "tombstoned", "rolled"}
    /\ \A s \in Sessions : gcLock = s <=> session[s].pc = "restoring"

(***************************************************************************)
(* Every piece of memory that was ever written is in the store at the path *)
(* or in a trash entry that a restore can move back, until the purge of    *)
(* such an entry: no crash between two file operations, no rollback that   *)
(* finds the path taken, and no restore that meets one loses it            *)
(* (quarantineStore, executeStoreGc, restoreStoreInner).                   *)
(***************************************************************************)
NothingVanishes ==
    \A i \in Items : items[i].as \in Living =>
        IF items[i].at = 0 THEN site.kind = "store" ELSE trash[items[i].at].state = "full"

(***************************************************************************)
(* Work that appeared in a store while it was being moved does not stay in *)
(* the trash once its collector is done, unless the queue was given up as  *)
(* dead, the collector died, or the path had been taken (executeStoreGc,   *)
(* the inspection after the rename).                                       *)
(***************************************************************************)
WorkIsBroughtBack ==
    \A e \in Full :
        At(e, {"job"}) # {} =>
            \/ trash[e].dead \/ trash[e].excused
            \/ \E g \in Collectors : gc[g].entry = e /\ gc[g].pc \in {"moved", "rolling"}

\* Nothing that was written is lost, and no work is left in the trash.
StoresAreKept == NothingVanishes /\ WorkIsBroughtBack

(***************************************************************************)
(* An adopting session creates an empty store only when no copy is left to *)
(* bring back: the newest copy in the trash, if it was there when the      *)
(* session asked and never lost its path to another store, has been        *)
(* restored, through crashes of collectors and of other adoptions, failed  *)
(* moves, ghosts at the path and purges (writeTombstone and                *)
(* restoreTombstonedStore, "instead of silently starting empty").  Only a  *)
(* session whose own restore met an error starts empty beside a copy, and, *)
(* where that error took a tombstone whose entry was gone, a later one     *)
(* beside the older copies of then.                                        *)
(***************************************************************************)
NeverStartsEmpty ==
    [][\A s \in Sessions :
        session[s].pc = "adopted" /\ session'[s].pc = "opened" /\ site.kind # "store" =>
            \/ session[s].found = 0
            \/ session[s].found \notin Full \/ session[s].found # Newest(Full)
            \/ trash[session[s].found].conflict \/ trash[session[s].found].forgotten
            \/ session[s].failed]_gcVars
=============================================================================
