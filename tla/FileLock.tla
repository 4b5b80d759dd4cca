------------------------------ MODULE FileLock ------------------------------
(***************************************************************************)
(* The advisory file lock of core/transaction.ts (withFileLock).           *)
(*                                                                         *)
(* A lock is a file with the holder's process id and a time stamp, put in  *)
(* place by a hard link.  A lock judged stale (its process is gone, or it  *)
(* is older than any section can take) is reclaimed by renaming it to a    *)
(* private name, comparing what was moved with what was judged, and        *)
(* putting it back when they differ; a release takes the same way.  Every  *)
(* file operation is a step of its own, and a process may die or be        *)
(* suspended between any two of them.                                      *)
(***************************************************************************)
EXTENDS Integers, FiniteSets

CONSTANTS
    Procs,          \* processes; a process keeps its id over a restart
    LockIds,        \* tell a process's files apart (inode, stamp); reused when unreferenced
    Faulty,         \* bound: the processes that may die or be suspended
    MaxLockFaults   \* bound: crashes, and sections that outlive the age limit

ASSUME LockAssumption ==
    /\ LockIds \subseteq Nat \ {0}
    /\ Faulty \subseteq Procs
    /\ MaxLockFaults \in Nat

VARIABLES
    lockPath,    \* the file at the lock's path
    locker,      \* [Procs -> Locker], the call of withFileLock a process is in
    aged,        \* the files older than STALE_LOCK_MS
    abandoned,   \* history: files of processes inside that were dispossessed in a known way
    lockFaults   \* how many so far

lockVars == <<lockPath, locker, aged, abandoned, lockFaults>>

\* A file's content and identity: who wrote it, in which life of the process.
NoFile == [id |-> 0, owner |-> "none", boot |-> 0]
LockFiles == [id : LockIds, owner : Procs, boot : 0..MaxLockFaults]

\* snap is the snapshot judged, held the file this call created, aside the
\* file moved to a private name.
Locker == [pc : {"dead", "idle", "contended", "inside", "removing", "moved"},
           boot : 0..MaxLockFaults,
           snap : LockFiles \cup {NoFile}, held : LockFiles \cup {NoFile},
           aside : LockFiles \cup {NoFile}]
NoCall == [pc |-> "idle", boot |-> 0, snap |-> NoFile, held |-> NoFile, aside |-> NoFile]
Between(p, pc) == [NoCall EXCEPT !.pc = pc, !.boot = locker[p].boot]

Referenced == {lockPath} \cup UNION {{locker[p].snap, locker[p].held, locker[p].aside} : p \in Procs}
FreshIds(p) == {i \in LockIds : \A f \in Referenced : f.owner = p => f.id # i}
Inside(p) == locker[p].pc = "inside"
\* The process that holds a file believes itself in its section.
HeldInside(f) == f # NoFile /\ \E p \in Procs : Inside(p) /\ locker[p].held = f

LockInit ==
    /\ lockPath = NoFile
    /\ locker = [p \in Procs |-> NoCall]
    /\ aged = {} /\ abandoned = {}
    /\ lockFaults = 0

LockStep(p, l) == locker' = [locker EXCEPT ![p] = l]

\* tryCreateLock, at the call of withFileLock and after each wait: link(2)
\* creates the complete file or fails with EEXIST.
TryCreateLock(p) ==
    /\ locker[p].pc = "idle"
    /\ IF lockPath # NoFile
       THEN LockStep(p, Between(p, "contended")) /\ UNCHANGED lockPath
       ELSE /\ FreshIds(p) # {}
            /\ LET i == CHOOSE i \in FreshIds(p) : \A j \in FreshIds(p) : i <= j
                   f == [id |-> i, owner |-> p, boot |-> locker[p].boot]
               IN /\ lockPath' = f
                  /\ LockStep(p, [Between(p, "inside") EXCEPT !.held = f])
    /\ UNCHANGED <<aged, abandoned, lockFaults>>

IsStaleByProcess(p, f) == f.owner # p /\ locker[f.owner].pc = "dead"  \* mutant
\* isStaleSnapshot: one's own id counts only from an earlier life; another's
\* when no such process runs, or when the file is too old.
IsStale(p, f) ==
    IF f.owner = p THEN f.boot < locker[p].boot
    ELSE locker[f.owner].pc = "dead" \/ f \in aged

\* The snapshot is taken and judged.  After a file that vanished or a living
\* holder's (a sleep, or a time-out after 20 s) the call tries again or is made
\* again; one's own is an error, re-entrant, and the call is made again too.
Judge(p) ==
    /\ locker[p].pc = "contended"
    /\ LockStep(p, IF lockPath # NoFile /\ IsStale(p, lockPath)
                   THEN [Between(p, "removing") EXCEPT !.snap = lockPath]
                   ELSE Between(p, "idle"))
    /\ UNCHANGED <<lockPath, aged, abandoned, lockFaults>>

\* The section ends: the lock is released only when it is still the file this
\* call created.
ReleaseLock(p) ==
    /\ Inside(p)
    /\ LockStep(p, IF lockPath = locker[p].held
                   THEN [Between(p, "removing") EXCEPT !.snap = lockPath]
                   ELSE Between(p, "idle"))
    /\ abandoned' = abandoned \ {locker[p].held}
    /\ UNCHANGED <<lockPath, aged, lockFaults>>

\* reclaimStaleLock, first half: rename to a private name.
MoveAside(p) ==
    /\ locker[p].pc = "removing"
    /\ IF lockPath = NoFile
       THEN LockStep(p, Between(p, "idle"))
       ELSE LockStep(p, [locker[p] EXCEPT !.pc = "moved", !.aside = lockPath])
    /\ lockPath' = NoFile
    /\ UNCHANGED <<aged, abandoned, lockFaults>>

DropMoved(p) ==  \* mutant
    /\ locker[p].pc = "moved"
    /\ LockStep(p, Between(p, "idle"))
    /\ UNCHANGED <<lockPath, aged, abandoned, lockFaults>>
\* Second half: what was judged is dropped, anything else is linked back
\* unless the path has been taken meanwhile.
VerifyMoved(p) ==
    /\ locker[p].pc = "moved"
    /\ LET l == locker[p]
           judged == l.aside = l.snap
           overtaken == ~judged /\ lockPath # NoFile
           gone == judged \/ overtaken
       IN /\ lockPath' = IF gone THEN lockPath ELSE l.aside
          /\ aged' = IF gone THEN aged \ {l.aside} ELSE aged
          /\ abandoned' = IF HeldInside(l.aside) /\ (overtaken \/ (judged /\ l.aside \in aged))
                          THEN abandoned \cup {l.aside} ELSE abandoned
          /\ LockStep(p, Between(p, "idle"))
    /\ UNCHANGED lockFaults

\* At any point at which it matters: a process that has nothing on disk or
\* under way leaves nothing behind.  A file moved aside is gone with it.
LockCrash(p) ==
    /\ p \in Faulty /\ locker[p].pc \in {"inside", "removing", "moved"}
    /\ lockFaults < MaxLockFaults
    /\ lockFaults' = lockFaults + 1
    /\ LockStep(p, Between(p, "dead"))
    /\ abandoned' = (IF HeldInside(locker[p].aside) THEN abandoned \cup {locker[p].aside}
                     ELSE abandoned) \ {locker[p].held}
    /\ aged' = aged \ {locker[p].aside}
    /\ UNCHANGED lockPath
\* The process id is used again: by the host itself, restarted, or by another.
LockRestart(p) ==
    /\ locker[p].pc = "dead"
    /\ LockStep(p, [NoCall EXCEPT !.boot = locker[p].boot + 1])
    /\ UNCHANGED <<lockPath, aged, abandoned, lockFaults>>

\* Five minutes pass over a file nobody is inside with; a section lasts
\* milliseconds, so a live one ages only when its process was suspended.
LockAges ==
    /\ lockPath # NoFile /\ lockPath \notin aged
    /\ ~HeldInside(lockPath)
    /\ aged' = aged \cup {lockPath}
    /\ UNCHANGED <<lockPath, locker, abandoned, lockFaults>>
SectionOutlives ==
    /\ HeldInside(lockPath) /\ lockPath \notin aged /\ lockPath.owner \in Faulty
    /\ lockFaults < MaxLockFaults /\ lockFaults' = lockFaults + 1
    /\ aged' = aged \cup {lockPath}
    /\ UNCHANGED <<lockPath, locker, abandoned>>

LockProgress(p) ==
    TryCreateLock(p) \/ Judge(p) \/ ReleaseLock(p) \/ MoveAside(p) \/ VerifyMoved(p)

LockNext ==
    \/ \E p \in Procs : LockProgress(p) \/ LockCrash(p) \/ LockRestart(p)
    \/ LockAges
    \/ SectionOutlives

LockFairness ==
    /\ \A p \in Procs : WF_lockVars(LockProgress(p) \/ LockRestart(p))
    /\ WF_lockVars(LockAges)
LockSpec == LockInit /\ [][LockNext]_lockVars /\ LockFairness

----------------------------------------------------------------------------
LockTypeOK ==
    /\ lockPath \in LockFiles \cup {NoFile}
    /\ locker \in [Procs -> Locker]
    /\ aged \subseteq LockFiles \cap Referenced
    /\ abandoned \subseteq {locker[p].held : p \in Procs}
    /\ lockFaults \in 0..MaxLockFaults

\* A holder whose lock a reclaimer has in its hands, or who lost it in one of
\* the ways the code accepts: too slow, overtaken at the put-back, or moved by
\* a process that died before the put-back.
Dispossessed(p) ==
    \/ locker[p].held \in abandoned
    \/ \E q \in Procs : locker[q].aside = locker[p].held

(***************************************************************************)
(* Two processes are in their sections at once only if one of them was     *)
(* dispossessed in one of those ways: neither a release nor a reclaim of a *)
(* stale lock takes away a lock it has not judged (transaction.ts,         *)
(* reclaimStaleLock and the release in withFileLock).                      *)
(***************************************************************************)
LockExclusion ==
    \A p, q \in Procs :
        p # q /\ Inside(p) /\ Inside(q) => Dispossessed(p) \/ Dispossessed(q)

(***************************************************************************)
(* No lock file stays without a holder for ever: not the one a dead        *)
(* process left, not under a process id that is in use again, and not the  *)
(* one a reclaimer puts back after its holder has finished                 *)
(* (isStaleSnapshot).                                                      *)
(***************************************************************************)
OrphanLockGoes == []<>(lockPath = NoFile \/ HeldInside(lockPath))
=============================================================================
