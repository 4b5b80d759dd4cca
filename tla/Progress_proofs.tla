-------------------------- MODULE Progress_proofs ---------------------------
(***************************************************************************)
(* Proofs about the parts that must both stay right and get somewhere: the *)
(* advisory file lock (FileLock), the activity tokens (StoreActivity), how *)
(* a session ends (Retirement) and the automatic consolidations that are   *)
(* scheduled for it (AutoSchedule).                                        *)
(***************************************************************************)
EXTENDS FileLock, StoreActivity, Retirement, AutoSchedule, FiniteSets, FiniteSetTheorems, SequenceTheorems, WellFoundedInduction, TLAPS

----------------------------------------------------------------------------
(***************************************************************************)
(* FileLock, for every set of processes and file ids and any number of     *)
(* faults: two processes are inside at once only after one of them was     *)
(* dispossessed in a way the code accepts.                                 *)
(***************************************************************************)

(***************************************************************************)
(* The inductive invariant.                                                *)
(***************************************************************************)
\* Which files a call knows of is told by where it is.
CallOK(p) ==
    /\ locker[p].pc \in {"dead", "idle", "contended"} =>
         locker[p].snap = NoFile /\ locker[p].held = NoFile /\ locker[p].aside = NoFile
    /\ locker[p].pc = "inside" =>
         /\ locker[p].snap = NoFile /\ locker[p].aside = NoFile
         /\ locker[p].held \in LockFiles /\ locker[p].held.owner = p
    /\ locker[p].pc = "removing" =>
         /\ locker[p].held = NoFile /\ locker[p].aside = NoFile
         /\ locker[p].snap \in LockFiles
    /\ locker[p].pc = "moved" =>
         /\ locker[p].held = NoFile
         /\ locker[p].snap \in LockFiles /\ locker[p].aside \in LockFiles

\* A process has been restarted at most as often as it died.
BootOK(p) ==
    /\ locker[p].boot <= lockFaults
    /\ locker[p].pc = "dead" => locker[p].boot < lockFaults

\* A file is at the lock's path or under one private name.
OnDisk(f) == f = lockPath \/ \E p \in Procs : locker[p].aside = f
OnePlace ==
    \A p \in Procs : locker[p].aside # NoFile =>
        /\ locker[p].aside # lockPath
        /\ \A q \in Procs \ {p} : locker[q].aside # locker[p].aside

\* A file that was judged stale and whose holder is inside is too old, as long
\* as there is anything left to take away.
JudgedWell ==
    \A p, q \in Procs :
        locker[p].snap # NoFile /\ locker[q].held = locker[p].snap /\ OnDisk(locker[p].snap)
            => locker[p].snap \in aged

\* Whoever is inside has its file at the path, or was dispossessed.
Accounted(p) == Inside(p) => locker[p].held = lockPath \/ Dispossessed(p)

LockInv ==
    /\ lockPath \in LockFiles \cup {NoFile}
    /\ locker \in [Procs -> Locker]
    /\ lockFaults \in 0..MaxLockFaults
    /\ aged \subseteq {f \in LockFiles : OnDisk(f)}
    /\ abandoned \subseteq {locker[p].held : p \in Procs} \ {NoFile}
    /\ \A p \in Procs : CallOK(p) /\ BootOK(p) /\ Accounted(p)
    /\ OnePlace
    /\ JudgedWell

----------------------------------------------------------------------------
\* A file that is there is told from one that is not by its id.
LEMMA FilesAreFiles == NoFile \notin LockFiles
BY LockAssumption DEF NoFile, LockFiles

\* A step of one process leaves the others where they are.
LEMMA OneMoves ==
    ASSUME locker \in [Procs -> Locker], NEW p \in Procs, NEW l \in Locker, LockStep(p, l)
    PROVE  /\ locker' \in [Procs -> Locker]
           /\ locker'[p] = l
           /\ \A q \in Procs \ {p} : locker'[q] = locker[q]
BY DEF LockStep

\* Between two calls a process knows of no file.
LEMMA BetweenCalls ==
    ASSUME locker \in [Procs -> Locker], NEW p \in Procs,
           NEW pc \in {"dead", "idle", "contended", "inside", "removing", "moved"}
    PROVE  /\ Between(p, pc) \in Locker
           /\ Between(p, pc).pc = pc /\ Between(p, pc).boot = locker[p].boot
           /\ Between(p, pc).snap = NoFile /\ Between(p, pc).held = NoFile
           /\ Between(p, pc).aside = NoFile
<1>1. locker[p].boot \in 0..MaxLockFaults BY DEF Locker
<1> QED BY <1>1, LockAssumption DEF Between, NoCall, Locker

\* The file a call creates is one that nothing refers to.
LEMMA NewFile ==
    ASSUME locker \in [Procs -> Locker], NEW p \in Procs, FreshIds(p) # {}
    PROVE  LET i == CHOOSE i \in FreshIds(p) : \A j \in FreshIds(p) : i <= j
               f == [id |-> i, owner |-> p, boot |-> locker[p].boot]
           IN  /\ f \in LockFiles /\ f.owner = p
               /\ f # lockPath
               /\ \A q \in Procs : /\ f # locker[q].snap /\ f # locker[q].held
                                   /\ f # locker[q].aside
<1> DEFINE i == CHOOSE i \in FreshIds(p) : \A j \in FreshIds(p) : i <= j
           f == [id |-> i, owner |-> p, boot |-> locker[p].boot]
<1>1. FreshIds(p) \subseteq LockIds /\ LockIds \subseteq Nat BY LockAssumption DEF FreshIds
<1>2. \E n \in FreshIds(p) : \A m \in FreshIds(p) : n <= m
  <2>1. FreshIds(p) \subseteq Nat BY <1>1
  <2>2. PICK n \in FreshIds(p) : \A m \in FreshIds(p) : ~(<<m, n>> \in OpToRel(<, Nat))
    BY <2>1, WFMin, NatLessThanWellFounded
  <2>3. \A m \in FreshIds(p) : ~(m < n) BY <2>1, <2>2 DEF OpToRel
  <2> QED BY <2>1, <2>3
<1>3. i \in FreshIds(p) BY <1>2
<1> HIDE DEF i
<1>4. f.id = i /\ f.owner = p OBVIOUS
<1>5. f \notin Referenced BY <1>3, <1>4 DEF FreshIds
<1>6. f \in LockFiles BY <1>1, <1>3 DEF LockFiles, Locker
<1>7. \A q \in Procs : {locker[q].snap, locker[q].held, locker[q].aside} \subseteq Referenced
  BY DEF Referenced
<1>8. lockPath \in Referenced BY DEF Referenced
<1> QED BY <1>4, <1>5, <1>6, <1>7, <1>8 DEF i

\* At first there is no lock file and nobody waits for one.
THEOREM LockInvInit == LockInit => LockInv
<1> SUFFICES ASSUME LockInit PROVE LockInv OBVIOUS
<1>1. NoCall \in Locker BY LockAssumption DEF NoCall, Locker
<1>2. \A p \in Procs : locker[p] = NoCall BY DEF LockInit
<1>3. locker \in [Procs -> Locker] BY <1>1 DEF LockInit
<1>4. \A p \in Procs : CallOK(p) /\ BootOK(p) /\ Accounted(p)
  BY <1>2 DEF CallOK, BootOK, Accounted, Inside, NoCall, LockInit
<1>5. OnePlace /\ JudgedWell BY <1>2 DEF OnePlace, JudgedWell, NoCall
<1>6. lockFaults \in 0..MaxLockFaults BY LockAssumption DEF LockInit
<1> QED BY <1>3, <1>4, <1>5, <1>6 DEF LockInv, LockInit

----------------------------------------------------------------------------
\* The parts of the invariant that the steps use.
LEMMA LockFacts ==
    ASSUME LockInv
    PROVE  /\ lockPath \in LockFiles \cup {NoFile} /\ locker \in [Procs -> Locker]
           /\ lockFaults \in Nat /\ lockFaults <= MaxLockFaults /\ MaxLockFaults \in Nat
           /\ \A p \in Procs : CallOK(p) /\ BootOK(p) /\ Accounted(p)
           /\ \A p \in Procs : locker[p].boot \in Nat /\ locker[p].boot \in 0..MaxLockFaults
           /\ \A p \in Procs : locker[p] \in Locker
           /\ \A p \in Procs : locker[p].held # NoFile <=> Inside(p)
           /\ \A p, q \in Procs : locker[p].held # NoFile /\ locker[p].held = locker[q].held
                                      => p = q
           /\ OnePlace /\ JudgedWell
           /\ aged \subseteq {f \in LockFiles : OnDisk(f)}
           /\ abandoned \subseteq {locker[p].held : p \in Procs} \ {NoFile}
<1>1. \A p \in Procs : CallOK(p) /\ locker[p] \in Locker BY DEF LockInv
<1>2. \A p \in Procs : locker[p].held # NoFile <=> Inside(p)
  BY <1>1, FilesAreFiles DEF CallOK, Inside, Locker
<1>3. \A p, q \in Procs : locker[p].held # NoFile /\ locker[p].held = locker[q].held => p = q
  BY <1>1, <1>2 DEF CallOK, Inside
<1>4. \A p \in Procs : locker[p].boot \in Nat /\ locker[p].boot \in 0..MaxLockFaults
  BY <1>1 DEF Locker
<1> QED BY <1>1, <1>2, <1>3, <1>4, LockAssumption DEF LockInv

\* A call that lets go of what it knows, at a place where nothing was aside,
\* takes nothing from the others: what the judgement and the accounts of the
\* others rest on stays.
LEMMA OthersKept ==
    ASSUME LockInv, NEW p \in Procs, NEW l \in Locker, LockStep(p, l),
           lockPath' = lockPath, aged \subseteq aged', locker[p].aside = NoFile,
           aged' \subseteq aged \cup {lockPath}, lockPath' = NoFile => aged' = aged,
           abandoned' = abandoned \ {locker[p].held}, l.held = NoFile, l.aside = NoFile,
           l.snap # NoFile =>
               /\ l.snap = lockPath
               /\ \A q \in Procs \ {p} : locker[q].held = l.snap => l.snap \in aged
    PROVE  /\ \A q \in Procs \ {p} : CallOK(q)' /\ Accounted(q)'
           /\ OnePlace' /\ JudgedWell'
           /\ aged' \subseteq {f \in LockFiles : OnDisk(f)'}
           /\ abandoned' \subseteq {locker'[q].held : q \in Procs} \ {NoFile}
<1>1. /\ locker'[p] = l /\ \A q \in Procs \ {p} : locker'[q] = locker[q]
  BY LockFacts, OneMoves
<1>2. \A f : f # NoFile => (OnDisk(f)' <=> OnDisk(f))
  BY <1>1 DEF OnDisk
<1>3. \A q \in Procs \ {p} : CallOK(q)' BY <1>1, LockFacts DEF CallOK
<1>4. ASSUME NEW q \in Procs \ {p}, Inside(q)'
      PROVE  locker'[q].held = lockPath' \/ Dispossessed(q)'
  <2>1. Inside(q) /\ locker'[q].held = locker[q].held BY <1>1, <1>4 DEF Inside
  <2>2. locker[q].held # NoFile /\ locker[q].held # locker[p].held BY <2>1, LockFacts
  <2>3. locker[q].held = lockPath \/ Dispossessed(q) BY <2>1, LockFacts DEF Accounted
  <2>4. CASE locker[q].held = lockPath BY <2>1, <2>4
  <2>5. CASE locker[q].held \in abandoned BY <2>1, <2>2, <2>5 DEF Dispossessed
  <2>6. CASE \E r \in Procs : locker[r].aside = locker[q].held
    BY <1>1, <2>1, <2>2, <2>6 DEF Dispossessed
  <2> QED BY <2>3, <2>4, <2>5, <2>6 DEF Dispossessed
<1>5. OnePlace'
  <2> SUFFICES ASSUME NEW q \in Procs, locker'[q].aside # NoFile
               PROVE  /\ locker'[q].aside # lockPath'
                      /\ \A r \in Procs \ {q} : locker'[r].aside # locker'[q].aside
    BY DEF OnePlace
  <2>1. q # p /\ locker'[q] = locker[q] BY <1>1
  <2> QED BY <1>1, <2>1, LockFacts DEF OnePlace
<1>6. JudgedWell'
  <2> SUFFICES ASSUME NEW q \in Procs, NEW r \in Procs, locker'[q].snap # NoFile,
                      locker'[r].held = locker'[q].snap, OnDisk(locker[q].snap)'
               PROVE  locker'[q].snap \in aged
    BY DEF JudgedWell
  <2>1. r # p /\ locker'[r] = locker[r] BY <1>1
  <2>2. CASE q = p BY <1>1, <2>1, <2>2
  <2>3. CASE q # p
    <3>1. locker'[q] = locker[q] BY <1>1, <2>3
    <3>2. OnDisk(locker[q].snap) BY <1>1, <3>1, LockFacts DEF OnDisk
    <3> QED BY <2>1, <3>1, <3>2, LockFacts DEF JudgedWell
  <2> QED BY <2>2, <2>3
<1>7. aged' \subseteq {f \in LockFiles : OnDisk(f)'}
  <2>1. \A f \in aged : f \in LockFiles /\ OnDisk(f) /\ f # NoFile BY LockFacts, FilesAreFiles
  <2>2. lockPath # NoFile => lockPath \in LockFiles BY LockFacts
  <2> QED BY <1>2, <2>1, <2>2 DEF OnDisk
<1>8. abandoned' \subseteq {locker'[q].held : q \in Procs} \ {NoFile}
  <2> SUFFICES ASSUME NEW f \in abandoned, f # locker[p].held
               PROVE  f # NoFile /\ \E q \in Procs : f = locker'[q].held
    OBVIOUS
  <2>1. PICK q \in Procs : f = locker[q].held BY LockFacts
  <2> QED BY <1>1, <2>1, LockFacts
<1> QED BY <1>3, <1>4, <1>5, <1>6, <1>7, <1>8 DEF Accounted

\* A call whose place is p's alone: what a step must show of its own process.
LEMMA StepOfOne ==
    ASSUME LockInv, NEW p \in Procs, locker' \in [Procs -> Locker],
           lockPath' \in LockFiles \cup {NoFile}, lockFaults' \in 0..MaxLockFaults,
           lockFaults <= lockFaults',
           \A q \in Procs \ {p} : /\ locker'[q] = locker[q]
                                  /\ CallOK(q)' /\ Accounted(q)',
           CallOK(p)', BootOK(p)', Accounted(p)', OnePlace', JudgedWell',
           aged' \subseteq {f \in LockFiles : OnDisk(f)'},
           abandoned' \subseteq {locker'[q].held : q \in Procs} \ {NoFile}
    PROVE  LockInv'
<1>1. \A q \in Procs \ {p} : BootOK(q)'
  <2> SUFFICES ASSUME NEW q \in Procs \ {p} PROVE BootOK(q)' OBVIOUS
  <2>1. locker'[q] = locker[q] /\ BootOK(q) /\ locker[q].boot \in Nat BY LockFacts
  <2>2. lockFaults \in Nat /\ lockFaults' \in Nat BY LockFacts
  <2> QED BY <2>1, <2>2 DEF BootOK
<1> QED BY <1>1 DEF LockInv

LEMMA CreateStep ==
    ASSUME LockInv, NEW p \in Procs, TryCreateLock(p) PROVE LockInv'
<1>0. /\ locker[p].pc = "idle" /\ CallOK(p) /\ BootOK(p) /\ locker[p].aside = NoFile
      /\ locker[p].held = NoFile
  BY LockFacts DEF TryCreateLock, CallOK
<1>1. UNCHANGED <<aged, abandoned, lockFaults>> BY DEF TryCreateLock
<1>2. CASE lockPath # NoFile
  <2> DEFINE l == Between(p, "contended")
  <2>1. LockStep(p, l) /\ lockPath' = lockPath BY <1>2 DEF TryCreateLock
  <2>2. /\ l \in Locker /\ l.pc = "contended" /\ l.boot = locker[p].boot
        /\ l.snap = NoFile /\ l.held = NoFile /\ l.aside = NoFile
    BY LockFacts, BetweenCalls
  <2> HIDE DEF l
  <2>3. /\ locker' \in [Procs -> Locker] /\ locker'[p] = l
        /\ \A q \in Procs \ {p} : locker'[q] = locker[q]
    BY <2>1, <2>2, OneMoves, LockFacts
  <2>4. abandoned' = abandoned \ {locker[p].held} BY <1>0, <1>1, LockFacts
  <2>5. CallOK(p)' /\ BootOK(p)' /\ Accounted(p)'
    BY <1>0, <1>1, <2>2, <2>3 DEF CallOK, BootOK, Accounted, Inside
  <2>6. /\ \A q \in Procs \ {p} : CallOK(q)' /\ Accounted(q)'
        /\ OnePlace' /\ JudgedWell'
        /\ aged' \subseteq {f \in LockFiles : OnDisk(f)'}
        /\ abandoned' \subseteq {locker'[q].held : q \in Procs} \ {NoFile}
    BY <1>0, <1>1, <2>1, <2>2, <2>4, OthersKept
  <2> QED BY <1>1, <2>1, <2>3, <2>5, <2>6, StepOfOne, LockFacts
<1>3. CASE lockPath = NoFile
  <2> DEFINE i == CHOOSE i \in FreshIds(p) : \A j \in FreshIds(p) : i <= j
             f == [id |-> i, owner |-> p, boot |-> locker[p].boot]
             l == [Between(p, "inside") EXCEPT !.held = f]
  <2>1. FreshIds(p) # {} /\ lockPath' = f /\ LockStep(p, l) BY <1>3 DEF TryCreateLock
  <2>2. /\ f \in LockFiles /\ f.owner = p
        /\ \A q \in Procs : f # locker[q].snap /\ f # locker[q].held /\ f # locker[q].aside
    BY <2>1, NewFile, LockFacts
  <2> HIDE DEF f
  <2>3. /\ l \in Locker /\ l.pc = "inside" /\ l.boot = locker[p].boot
        /\ l.snap = NoFile /\ l.held = f /\ l.aside = NoFile
    BY <2>2, LockFacts, BetweenCalls DEF Locker
  <2> HIDE DEF l
  <2>4. /\ locker' \in [Procs -> Locker] /\ locker'[p] = l
        /\ \A q \in Procs \ {p} : locker'[q] = locker[q]
    BY <2>1, <2>3, OneMoves, LockFacts
  <2>5. f # NoFile BY <2>2, FilesAreFiles
  <2>6. CallOK(p)' /\ BootOK(p)' /\ Accounted(p)'
    BY <1>0, <1>1, <2>1, <2>2, <2>3, <2>4 DEF CallOK, BootOK, Accounted, Inside
  <2>7. \A q \in Procs \ {p} : CallOK(q)' BY <2>4, LockFacts DEF CallOK
  <2>8. ASSUME NEW q \in Procs \ {p}, Inside(q)' PROVE Dispossessed(q)'
    <3>1. locker'[q] = locker[q] /\ Inside(q) BY <2>4, <2>8 DEF Inside
    <3>2. locker[q].held # NoFile BY <3>1, LockFacts
    <3>3. Dispossessed(q) BY <1>3, <3>1, <3>2, LockFacts DEF Accounted
    <3> QED BY <1>0, <1>1, <2>4, <3>1, <3>2, <3>3 DEF Dispossessed
  <2>9. OnePlace'
    BY <1>0, <2>1, <2>2, <2>3, <2>4, LockFacts DEF OnePlace
  <2>10. JudgedWell'
    <3> SUFFICES ASSUME NEW q \in Procs, NEW r \in Procs, locker'[q].snap # NoFile,
                        locker'[r].held = locker'[q].snap, OnDisk(locker[q].snap)'
                 PROVE  locker'[q].snap \in aged
      BY <1>1 DEF JudgedWell
    <3>1. q # p /\ locker'[q] = locker[q] BY <2>3, <2>4
    <3>2. r # p /\ locker'[r] = locker[r] BY <2>2, <2>3, <2>4, <3>1
    <3>3. OnDisk(locker[q].snap) BY <1>0, <2>1, <2>2, <2>3, <2>4, <3>1 DEF OnDisk
    <3> QED BY <3>1, <3>2, <3>3, LockFacts DEF JudgedWell
  <2>11. aged' \subseteq {g \in LockFiles : OnDisk(g)'}
    <3>1. \A g \in aged : g \in LockFiles /\ g # NoFile /\ OnDisk(g) BY LockFacts, FilesAreFiles
    <3> QED BY <1>0, <1>1, <1>3, <2>4, <3>1 DEF OnDisk
  <2>12. abandoned' \subseteq {locker'[q].held : q \in Procs} \ {NoFile}
    <3> SUFFICES ASSUME NEW g \in abandoned
                 PROVE  g # NoFile /\ \E q \in Procs : g = locker'[q].held
      BY <1>1
    <3>1. PICK q \in Procs : g = locker[q].held /\ g # NoFile BY LockFacts
    <3> QED BY <1>0, <2>4, <3>1
  <2> QED
    BY <1>1, <2>1, <2>2, <2>4, <2>6, <2>7, <2>8, <2>9, <2>10, <2>11, <2>12, StepOfOne, LockFacts
    DEF Accounted
<1> QED BY <1>2, <1>3

\* A snapshot is judged stale only when nobody is inside with the file, or the
\* file is too old.
LEMMA StaleIsNotHeld ==
    ASSUME LockInv, NEW p \in Procs, ~Inside(p), lockPath # NoFile, IsStale(p, lockPath),
           NEW q \in Procs, locker[q].held = lockPath
    PROVE  lockPath \in aged
<1>1. Inside(q) /\ lockPath.owner = q BY LockFacts DEF CallOK, Inside
<1> QED BY <1>1 DEF IsStale, Inside

LEMMA JudgeStep ==
    ASSUME LockInv, NEW p \in Procs, Judge(p) PROVE LockInv'
<1> DEFINE stale == lockPath # NoFile /\ IsStale(p, lockPath)
           l == IF stale THEN [Between(p, "removing") EXCEPT !.snap = lockPath]
                         ELSE Between(p, "idle")
<1>0. /\ locker[p].pc = "contended" /\ CallOK(p) /\ BootOK(p)
      /\ locker[p].aside = NoFile /\ locker[p].held = NoFile /\ ~Inside(p)
  BY LockFacts DEF Judge, CallOK, Inside
<1>1. UNCHANGED <<lockPath, aged, abandoned, lockFaults>> /\ LockStep(p, l) BY DEF Judge
<1>2. lockPath # NoFile => lockPath \in LockFiles BY LockFacts
<1>3. /\ l \in Locker /\ l.boot = locker[p].boot /\ l.held = NoFile /\ l.aside = NoFile
      /\ \/ l.pc = "idle" /\ l.snap = NoFile
         \/ l.pc = "removing" /\ stale /\ l.snap = lockPath
  BY <1>2, LockFacts, BetweenCalls DEF Locker
<1> HIDE DEF l
<1>4. /\ locker' \in [Procs -> Locker] /\ locker'[p] = l
      /\ \A q \in Procs \ {p} : locker'[q] = locker[q]
  BY <1>1, <1>3, OneMoves, LockFacts
<1>5. abandoned' = abandoned \ {locker[p].held} BY <1>0, <1>1, LockFacts
<1>6. CallOK(p)' /\ BootOK(p)' /\ Accounted(p)'
  BY <1>0, <1>1, <1>2, <1>3, <1>4 DEF CallOK, BootOK, Accounted, Inside
<1>7. l.snap # NoFile => /\ l.snap = lockPath
                         /\ \A q \in Procs \ {p} : locker[q].held = l.snap => l.snap \in aged
  BY <1>0, <1>3, StaleIsNotHeld
<1>8. /\ \A q \in Procs \ {p} : CallOK(q)' /\ Accounted(q)'
      /\ OnePlace' /\ JudgedWell'
      /\ aged' \subseteq {f \in LockFiles : OnDisk(f)'}
      /\ abandoned' \subseteq {locker'[q].held : q \in Procs} \ {NoFile}
  BY <1>0, <1>1, <1>3, <1>5, <1>7, OthersKept
<1> QED BY <1>1, <1>4, <1>6, <1>8, StepOfOne, LockFacts

LEMMA ReleaseStep ==
    ASSUME LockInv, NEW p \in Procs, ReleaseLock(p) PROVE LockInv'
<1> DEFINE l == IF lockPath = locker[p].held
                THEN [Between(p, "removing") EXCEPT !.snap = lockPath]
                ELSE Between(p, "idle")
<1>0. /\ locker[p].pc = "inside" /\ CallOK(p) /\ BootOK(p)
      /\ locker[p].aside = NoFile /\ locker[p].held \in LockFiles
  BY LockFacts DEF ReleaseLock, CallOK, Inside
<1>1. /\ UNCHANGED <<lockPath, aged, lockFaults>> /\ LockStep(p, l)
      /\ abandoned' = abandoned \ {locker[p].held}
  BY DEF ReleaseLock
<1>2. /\ l \in Locker /\ l.boot = locker[p].boot /\ l.held = NoFile /\ l.aside = NoFile
      /\ \/ l.pc = "idle" /\ l.snap = NoFile
         \/ l.pc = "removing" /\ l.snap = lockPath /\ lockPath = locker[p].held
  BY <1>0, LockFacts, BetweenCalls DEF Locker
<1> HIDE DEF l
<1>3. /\ locker' \in [Procs -> Locker] /\ locker'[p] = l
      /\ \A q \in Procs \ {p} : locker'[q] = locker[q]
  BY <1>1, <1>2, OneMoves, LockFacts
<1>4. CallOK(p)' /\ BootOK(p)' /\ Accounted(p)'
  BY <1>0, <1>1, <1>2, <1>3 DEF CallOK, BootOK, Accounted, Inside
<1>5. l.snap # NoFile => /\ l.snap = lockPath
                         /\ \A q \in Procs \ {p} : locker[q].held = l.snap => l.snap \in aged
  BY <1>2, LockFacts
<1>6. /\ \A q \in Procs \ {p} : CallOK(q)' /\ Accounted(q)'
      /\ OnePlace' /\ JudgedWell'
      /\ aged' \subseteq {f \in LockFiles : OnDisk(f)'}
      /\ abandoned' \subseteq {locker'[q].held : q \in Procs} \ {NoFile}
  BY <1>0, <1>1, <1>2, <1>5, OthersKept
<1> QED BY <1>1, <1>3, <1>4, <1>6, StepOfOne, LockFacts

\* A file that goes aside is still there.
LEMMA MoveStep ==
    ASSUME LockInv, NEW p \in Procs, MoveAside(p) PROVE LockInv'
<1>0. /\ locker[p].pc = "removing" /\ CallOK(p) /\ BootOK(p)
      /\ locker[p].aside = NoFile /\ locker[p].held = NoFile
  BY LockFacts DEF MoveAside, CallOK
<1>1. UNCHANGED <<aged, abandoned, lockFaults>> /\ lockPath' = NoFile BY DEF MoveAside
<1>2. CASE lockPath = NoFile
  <2> DEFINE l == Between(p, "idle")
  <2>1. LockStep(p, l) /\ lockPath' = lockPath BY <1>1, <1>2 DEF MoveAside
  <2>2. /\ l \in Locker /\ l.pc = "idle" /\ l.boot = locker[p].boot
        /\ l.snap = NoFile /\ l.held = NoFile /\ l.aside = NoFile
    BY LockFacts, BetweenCalls
  <2> HIDE DEF l
  <2>3. /\ locker' \in [Procs -> Locker] /\ locker'[p] = l
        /\ \A q \in Procs \ {p} : locker'[q] = locker[q]
    BY <2>1, <2>2, OneMoves, LockFacts
  <2>4. abandoned' = abandoned \ {locker[p].held} BY <1>0, <1>1, LockFacts
  <2>5. CallOK(p)' /\ BootOK(p)' /\ Accounted(p)'
    BY <1>0, <1>1, <2>2, <2>3 DEF CallOK, BootOK, Accounted, Inside
  <2>6. /\ \A q \in Procs \ {p} : CallOK(q)' /\ Accounted(q)'
        /\ OnePlace' /\ JudgedWell'
        /\ aged' \subseteq {f \in LockFiles : OnDisk(f)'}
        /\ abandoned' \subseteq {locker'[q].held : q \in Procs} \ {NoFile}
    BY <1>0, <1>1, <2>1, <2>2, <2>4, OthersKept
  <2> QED BY <1>1, <2>1, <2>3, <2>5, <2>6, StepOfOne, LockFacts
<1>3. CASE lockPath # NoFile
  <2> DEFINE l == [locker[p] EXCEPT !.pc = "moved", !.aside = lockPath]
  <2>1. LockStep(p, l) BY <1>3 DEF MoveAside
  <2>2. lockPath \in LockFiles BY <1>3, LockFacts
  <2>3. /\ l \in Locker /\ l.pc = "moved" /\ l.boot = locker[p].boot
        /\ l.snap = locker[p].snap /\ l.held = NoFile /\ l.aside = lockPath
    BY <1>0, <2>2, LockFacts DEF Locker
  <2> HIDE DEF l
  <2>4. /\ locker' \in [Procs -> Locker] /\ locker'[p] = l
        /\ \A q \in Procs \ {p} : locker'[q] = locker[q]
    BY <2>1, <2>3, OneMoves, LockFacts
  <2>5. CallOK(p)' /\ BootOK(p)' /\ Accounted(p)'
    BY <1>0, <1>1, <2>2, <2>3, <2>4 DEF CallOK, BootOK, Accounted, Inside
  <2>6. \A f : f # NoFile => (OnDisk(f)' <=> OnDisk(f))
    BY <1>0, <1>1, <2>3, <2>4 DEF OnDisk
  <2>7. \A q \in Procs \ {p} : CallOK(q)' BY <2>4, LockFacts DEF CallOK
  <2>8. ASSUME NEW q \in Procs \ {p}, Inside(q)' PROVE Dispossessed(q)'
    <3>1. locker'[q] = locker[q] /\ Inside(q) BY <2>4, <2>8 DEF Inside
    <3>2. CASE locker[q].held = lockPath BY <2>3, <2>4, <3>1, <3>2 DEF Dispossessed
    <3>3. CASE Dispossessed(q)
      <4>1. locker[q].held # NoFile BY <3>1, LockFacts
      <4> QED BY <1>0, <1>1, <2>4, <3>1, <3>3, <4>1 DEF Dispossessed
    <3> QED BY <3>1, <3>2, <3>3, LockFacts DEF Accounted
  <2>9. OnePlace'
    BY <1>0, <1>1, <1>3, <2>3, <2>4, LockFacts DEF OnePlace
  <2>10. JudgedWell'
    <3> SUFFICES ASSUME NEW q \in Procs, NEW r \in Procs, locker'[q].snap # NoFile,
                        locker'[r].held = locker'[q].snap, OnDisk(locker[q].snap)'
                 PROVE  locker'[q].snap \in aged
      BY <1>0, <1>1, <2>3, <2>4 DEF JudgedWell, OnDisk
    <3>1. locker'[q].snap = locker[q].snap /\ locker'[r].held = locker[r].held
      BY <1>0, <2>3, <2>4
    <3>2. OnDisk(locker[q].snap) BY <1>0, <1>1, <2>3, <2>4, <3>1 DEF OnDisk
    <3> QED BY <3>1, <3>2, LockFacts DEF JudgedWell
  <2>11. aged' \subseteq {g \in LockFiles : OnDisk(g)'}
    <3>1. \A g \in aged : g \in LockFiles /\ g # NoFile /\ OnDisk(g) BY LockFacts, FilesAreFiles
    <3> QED BY <1>1, <2>6, <3>1
  <2>12. abandoned' \subseteq {locker'[q].held : q \in Procs} \ {NoFile}
    <3> SUFFICES ASSUME NEW g \in abandoned
                 PROVE  g # NoFile /\ \E q \in Procs : g = locker'[q].held
      BY <1>1
    <3>1. PICK q \in Procs : g = locker[q].held /\ g # NoFile BY LockFacts
    <3> QED BY <1>0, <2>4, <3>1
  <2> QED
    BY <1>1, <2>4, <2>5, <2>7, <2>8, <2>9, <2>10, <2>11, <2>12, StepOfOne, LockFacts
    DEF Accounted
<1> QED BY <1>2, <1>3

\* What is dropped is dropped from one place; whoever is inside with it becomes
\* one of the abandoned.
LEMMA DropStep ==
    ASSUME LockInv, NEW p \in Procs, NEW l \in Locker, LockStep(p, l), lockPath' = lockPath,
           locker[p].aside # NoFile \/ l.pc = "dead", l.pc \in {"idle", "dead"},
           locker[p].pc \in {"inside", "removing", "moved"},
           l.snap = NoFile, l.held = NoFile, l.aside = NoFile, l.boot = locker[p].boot,
           aged' = aged \ {locker[p].aside},
           abandoned' = (IF HeldInside(locker[p].aside)
                         THEN abandoned \cup {locker[p].aside} ELSE abandoned)
                        \ {locker[p].held},
           lockFaults' \in 0..MaxLockFaults, lockFaults <= lockFaults',
           l.pc = "dead" => l.boot < lockFaults'
    PROVE  LockInv'
<1>0. CallOK(p) /\ BootOK(p) BY LockFacts
<1>1. /\ locker' \in [Procs -> Locker] /\ locker'[p] = l
      /\ \A q \in Procs \ {p} : locker'[q] = locker[q]
  BY OneMoves, LockFacts
<1> DEFINE a == locker[p].aside
<1>2. a # NoFile => /\ a # lockPath /\ \A q \in Procs \ {p} : locker[q].aside # a
  BY LockFacts DEF OnePlace
<1>3. \A f : f # NoFile /\ f # a => (OnDisk(f)' <=> OnDisk(f)) BY <1>1 DEF OnDisk
<1>5. locker[p].boot \in Nat /\ lockFaults \in Nat /\ lockFaults' \in Nat BY LockFacts
<1>6. CallOK(p)' /\ BootOK(p)' /\ Accounted(p)'
  BY <1>0, <1>1, <1>5 DEF CallOK, BootOK, Accounted, Inside
<1>7. \A q \in Procs \ {p} : CallOK(q)' BY <1>1, LockFacts DEF CallOK
<1>8. ASSUME NEW q \in Procs \ {p}, Inside(q)'
      PROVE  locker'[q].held = lockPath' \/ Dispossessed(q)'
  <2>1. locker'[q] = locker[q] /\ Inside(q) BY <1>1, <1>8 DEF Inside
  <2>2. locker[q].held # NoFile /\ locker[q].held # locker[p].held BY <2>1, LockFacts
  <2>3. locker[q].held = lockPath \/ Dispossessed(q) BY <2>1, LockFacts DEF Accounted
  <2>4. CASE locker[q].held = lockPath BY <2>1, <2>4
  <2>5. CASE locker[q].held \in abandoned BY <2>1, <2>2, <2>5 DEF Dispossessed
  <2>6. CASE locker[q].held = a
    <3>1. HeldInside(a) BY <2>1, <2>2, <2>6 DEF HeldInside
    <3>2. locker[q].held \in abandoned' BY <2>2, <2>6, <3>1
    <3> QED BY <2>1, <3>2 DEF Dispossessed
  <2>7. CASE \E r \in Procs \ {p} : locker[r].aside = locker[q].held
    BY <1>1, <2>1, <2>7 DEF Dispossessed
  <2> QED BY <2>3, <2>4, <2>5, <2>6, <2>7 DEF Dispossessed
<1>9. OnePlace' BY <1>1, LockFacts DEF OnePlace
<1>10. JudgedWell'
  <2> SUFFICES ASSUME NEW q \in Procs, NEW r \in Procs, locker'[q].snap # NoFile,
                      locker'[r].held = locker'[q].snap, OnDisk(locker[q].snap)'
               PROVE  locker'[q].snap \in aged'
    BY <1>1 DEF JudgedWell, OnDisk
  <2>1. q # p /\ r # p BY <1>1
  <2>2. locker'[q] = locker[q] /\ locker'[r] = locker[r] BY <1>1, <2>1
  <2>3. OnDisk(locker[q].snap) BY <1>1, <2>2 DEF OnDisk
  <2>4. locker[q].snap # a BY <1>1, <1>2, <2>2 DEF OnDisk
  <2> QED BY <2>2, <2>3, <2>4, LockFacts DEF JudgedWell
<1>11. aged' \subseteq {g \in LockFiles : OnDisk(g)'}
  <2>1. \A g \in aged : g \in LockFiles /\ g # NoFile /\ OnDisk(g) BY LockFacts, FilesAreFiles
  <2> QED BY <1>3, <2>1
<1>12. abandoned' \subseteq {locker'[q].held : q \in Procs} \ {NoFile}
  <2> SUFFICES ASSUME NEW g \in abandoned'
               PROVE  g # NoFile /\ \E q \in Procs : g = locker'[q].held
    OBVIOUS
  <2>1. g # locker[p].held OBVIOUS
  <2>2. CASE g \in abandoned
    <3>1. PICK q \in Procs : g = locker[q].held /\ g # NoFile BY <2>2, LockFacts
    <3> QED BY <1>1, <2>1, <3>1
  <2>3. CASE g = a /\ HeldInside(a)
    <3>1. PICK q \in Procs : locker[q].held = a BY <2>3 DEF HeldInside
    <3>2. g # NoFile BY <2>3 DEF HeldInside
    <3> QED BY <1>1, <2>1, <2>3, <3>1, <3>2
  <2> QED BY <2>2, <2>3
<1> HIDE DEF a
<1> QED BY <1>1, <1>6, <1>7, <1>8, <1>9, <1>10, <1>11, <1>12, StepOfOne, LockFacts DEF Accounted

LEMMA VerifyStep ==
    ASSUME LockInv, NEW p \in Procs, VerifyMoved(p) PROVE LockInv'
<1> DEFINE a == locker[p].aside
           judged == a = locker[p].snap
           overtaken == ~judged /\ lockPath # NoFile
           l == Between(p, "idle")
<1>0. /\ locker[p].pc = "moved" /\ CallOK(p) /\ BootOK(p)
      /\ a \in LockFiles /\ a # NoFile /\ locker[p].held = NoFile
      /\ locker[p].snap # NoFile
  BY LockFacts, FilesAreFiles DEF VerifyMoved, CallOK
<1>1. /\ lockPath' = IF judged \/ overtaken THEN lockPath ELSE a
      /\ aged' = IF judged \/ overtaken THEN aged \ {a} ELSE aged
      /\ abandoned' = IF HeldInside(a) /\ (overtaken \/ (judged /\ a \in aged))
                      THEN abandoned \cup {a} ELSE abandoned
      /\ LockStep(p, l) /\ lockFaults' = lockFaults
  BY DEF VerifyMoved
<1>2. /\ l \in Locker /\ l.pc = "idle" /\ l.boot = locker[p].boot
      /\ l.snap = NoFile /\ l.held = NoFile /\ l.aside = NoFile
  BY LockFacts, BetweenCalls
<1> HIDE DEF l
<1>3. lockFaults' \in 0..MaxLockFaults /\ lockFaults <= lockFaults' BY <1>1, LockFacts
\* What was judged and is held is too old: the holder counts as abandoned.
<1>4. judged /\ HeldInside(a) => a \in aged
  <2> SUFFICES ASSUME judged, HeldInside(a) PROVE a \in aged OBVIOUS
  <2>1. PICK q \in Procs : locker[q].held = a BY DEF HeldInside
  <2>2. OnDisk(locker[p].snap) BY DEF OnDisk
  <2> QED BY <1>0, <2>1, <2>2, LockFacts DEF JudgedWell
<1>5. CASE judged \/ overtaken
  <2>1. lockPath' = lockPath /\ aged' = aged \ {a} BY <1>1, <1>5
  <2>2. abandoned' = IF HeldInside(a) THEN abandoned \cup {a} ELSE abandoned
    BY <1>1, <1>4, <1>5
  <2>3. NoFile \notin abandoned' BY <1>0, <2>2, LockFacts
  <2>4. abandoned' = (IF HeldInside(a) THEN abandoned \cup {a} ELSE abandoned)
                       \ {locker[p].held}
    BY <1>0, <2>2, <2>3
  <2> QED BY <1>0, <1>1, <1>2, <1>3, <2>1, <2>4, DropStep
<1>6. CASE ~(judged \/ overtaken)
  <2>1. lockPath = NoFile /\ lockPath' = a /\ UNCHANGED <<aged, abandoned>> BY <1>1, <1>6
  <2>2. /\ locker' \in [Procs -> Locker] /\ locker'[p] = l
        /\ \A q \in Procs \ {p} : locker'[q] = locker[q]
    BY <1>1, <1>2, OneMoves, LockFacts
  <2>3. CallOK(p)' /\ BootOK(p)' /\ Accounted(p)'
    BY <1>0, <1>1, <1>2, <2>2 DEF CallOK, BootOK, Accounted, Inside
  <2>4. \A f : f # NoFile => (OnDisk(f)' <=> OnDisk(f))
    BY <1>2, <2>1, <2>2 DEF OnDisk
  <2>5. \A q \in Procs \ {p} : CallOK(q)' BY <2>2, LockFacts DEF CallOK
  <2>6. ASSUME NEW q \in Procs \ {p}, Inside(q)'
        PROVE  locker'[q].held = lockPath' \/ Dispossessed(q)'
    <3>1. locker'[q] = locker[q] /\ Inside(q) BY <2>2, <2>6 DEF Inside
    <3>2. locker[q].held # NoFile BY <3>1, LockFacts
    <3>3. Dispossessed(q) BY <2>1, <3>1, <3>2, LockFacts DEF Accounted
    <3>4. CASE locker[q].held \in abandoned BY <2>1, <3>1, <3>4 DEF Dispossessed
    <3>5. CASE locker[q].held = a BY <2>1, <3>1, <3>5
    <3>6. CASE \E r \in Procs \ {p} : locker[r].aside = locker[q].held
      BY <2>2, <3>1, <3>6 DEF Dispossessed
    <3> QED BY <3>3, <3>4, <3>5, <3>6 DEF Dispossessed
  <2>7. OnePlace'
    <3> SUFFICES ASSUME NEW q \in Procs, locker'[q].aside # NoFile
                 PROVE  /\ locker'[q].aside # lockPath'
                        /\ \A r \in Procs \ {q} : locker'[r].aside # locker'[q].aside
      BY DEF OnePlace
    <3>1. q # p /\ locker'[q] = locker[q] BY <1>2, <2>2
    <3> QED BY <1>0, <1>2, <2>1, <2>2, <3>1, LockFacts DEF OnePlace
  <2>8. JudgedWell'
    <3> SUFFICES ASSUME NEW q \in Procs, NEW r \in Procs, locker'[q].snap # NoFile,
                        locker'[r].held = locker'[q].snap, OnDisk(locker[q].snap)'
                 PROVE  locker'[q].snap \in aged
      BY <1>2, <2>1, <2>2 DEF JudgedWell, OnDisk
    <3>1. q # p /\ r # p BY <1>2, <2>2
    <3>2. locker'[q] = locker[q] /\ locker'[r] = locker[r] BY <2>2, <3>1
    <3>3. OnDisk(locker[q].snap) BY <1>2, <2>1, <2>2, <3>2 DEF OnDisk
    <3> QED BY <3>2, <3>3, LockFacts DEF JudgedWell
  <2>9. aged' \subseteq {g \in LockFiles : OnDisk(g)'}
    <3>1. \A g \in aged : g \in LockFiles /\ g # NoFile /\ OnDisk(g) BY LockFacts, FilesAreFiles
    <3> QED BY <2>1, <2>4, <3>1
  <2>10. abandoned' \subseteq {locker'[q].held : q \in Procs} \ {NoFile}
    <3> SUFFICES ASSUME NEW g \in abandoned
                 PROVE  g # NoFile /\ \E q \in Procs : g = locker'[q].held
      BY <2>1
    <3>1. PICK q \in Procs : g = locker[q].held /\ g # NoFile BY LockFacts
    <3> QED BY <1>0, <2>2, <3>1
  <2>11. lockPath' \in LockFiles \cup {NoFile} BY <1>0, <2>1
  <2> HIDE DEF a, judged, overtaken
  <2> QED
    BY <1>3, <2>2, <2>3, <2>5, <2>6, <2>7, <2>8, <2>9, <2>10, <2>11, StepOfOne DEF Accounted
<1> QED BY <1>5, <1>6

LEMMA CrashStep ==
    ASSUME LockInv, NEW p \in Procs, LockCrash(p) PROVE LockInv'
<1> DEFINE l == Between(p, "dead")
<1>1. /\ l \in Locker /\ l.pc = "dead" /\ l.boot = locker[p].boot
      /\ l.snap = NoFile /\ l.held = NoFile /\ l.aside = NoFile
  BY LockFacts, BetweenCalls
<1>2. /\ LockStep(p, l) /\ lockPath' = lockPath
      /\ locker[p].pc \in {"inside", "removing", "moved"}
      /\ lockFaults < MaxLockFaults /\ lockFaults' = lockFaults + 1
      /\ aged' = aged \ {locker[p].aside}
      /\ abandoned' = (IF HeldInside(locker[p].aside)
                       THEN abandoned \cup {locker[p].aside} ELSE abandoned)
                      \ {locker[p].held}
  BY DEF LockCrash
<1> HIDE DEF l
<1>3. locker[p].boot <= lockFaults /\ locker[p].boot \in Nat BY LockFacts DEF BootOK
<1>4. /\ lockFaults' \in 0..MaxLockFaults /\ lockFaults <= lockFaults' /\ l.boot < lockFaults'
  BY <1>1, <1>2, <1>3, LockFacts
<1> QED BY <1>1, <1>2, <1>4, DropStep

LEMMA RestartStep ==
    ASSUME LockInv, NEW p \in Procs, LockRestart(p) PROVE LockInv'
<1> DEFINE l == [NoCall EXCEPT !.boot = locker[p].boot + 1]
<1>0. /\ locker[p].pc = "dead" /\ CallOK(p) /\ BootOK(p)
      /\ locker[p].aside = NoFile /\ locker[p].held = NoFile
  BY LockFacts DEF LockRestart, CallOK
<1>1. UNCHANGED <<lockPath, aged, abandoned, lockFaults>> /\ LockStep(p, l) BY DEF LockRestart
<1>2. locker[p].boot + 1 <= lockFaults /\ locker[p].boot + 1 \in 0..MaxLockFaults
  BY <1>0, LockFacts DEF BootOK
<1>3. /\ l \in Locker /\ l.pc = "idle" /\ l.boot = locker[p].boot + 1
      /\ l.snap = NoFile /\ l.held = NoFile /\ l.aside = NoFile
  BY <1>2 DEF Locker, NoCall
<1> HIDE DEF l
<1>4. /\ locker' \in [Procs -> Locker] /\ locker'[p] = l
      /\ \A q \in Procs \ {p} : locker'[q] = locker[q]
  BY <1>1, <1>3, OneMoves, LockFacts
<1>5. abandoned' = abandoned \ {locker[p].held} BY <1>0, <1>1, LockFacts
<1>6. CallOK(p)' /\ BootOK(p)' /\ Accounted(p)'
  BY <1>1, <1>2, <1>3, <1>4 DEF CallOK, BootOK, Accounted, Inside
<1>7. /\ \A q \in Procs \ {p} : CallOK(q)' /\ Accounted(q)'
      /\ OnePlace' /\ JudgedWell'
      /\ aged' \subseteq {f \in LockFiles : OnDisk(f)'}
      /\ abandoned' \subseteq {locker'[q].held : q \in Procs} \ {NoFile}
  BY <1>0, <1>1, <1>3, <1>5, OthersKept
<1> QED BY <1>1, <1>4, <1>6, <1>7, StepOfOne, LockFacts

\* Time passes over the file at the lock's path.
LEMMA AgeStep ==
    ASSUME LockInv, LockAges \/ SectionOutlives PROVE LockInv'
<1>1. /\ UNCHANGED <<lockPath, locker, abandoned>> /\ lockPath \in LockFiles
      /\ aged' = aged \cup {lockPath} /\ lockFaults' \in 0..MaxLockFaults
      /\ lockFaults <= lockFaults'
  BY LockFacts DEF LockAges, SectionOutlives, HeldInside
<1>2. \A p \in Procs : CallOK(p)' /\ Accounted(p)'
  BY <1>1, LockFacts DEF CallOK, Accounted, Inside, Dispossessed
<1>3. \A p \in Procs : BootOK(p)'
  <2> SUFFICES ASSUME NEW p \in Procs PROVE BootOK(p)' OBVIOUS
  <2>1. BootOK(p) /\ locker[p].boot \in Nat /\ lockFaults \in Nat /\ lockFaults' \in Nat
    BY <1>1, LockFacts
  <2> QED BY <1>1, <2>1 DEF BootOK
<1>4. OnePlace' BY <1>1, LockFacts DEF OnePlace
<1>5. JudgedWell' BY <1>1, LockFacts DEF JudgedWell, OnDisk
<1>6. aged' \subseteq {f \in LockFiles : OnDisk(f)'} BY <1>1, LockFacts DEF OnDisk
<1> QED BY <1>1, <1>2, <1>3, <1>4, <1>5, <1>6, LockFacts DEF LockInv

LEMMA LockInvStep ==
    ASSUME LockInv, [LockNext]_lockVars PROVE LockInv'
<1>1. CASE UNCHANGED lockVars
  BY <1>1 DEF lockVars, LockInv, CallOK, BootOK, Accounted, Inside, Dispossessed, OnePlace,
              JudgedWell, OnDisk
<1> QED
  BY <1>1, CreateStep, JudgeStep, ReleaseStep, MoveStep, VerifyStep, CrashStep, RestartStep,
     AgeStep
  DEF LockNext, LockProgress

----------------------------------------------------------------------------
\* Every reachable state is well typed.
THEOREM LockTypeCorrect == LockSpec => []LockTypeOK
<1>1. LockInv => LockTypeOK
  <2> SUFFICES ASSUME LockInv PROVE LockTypeOK OBVIOUS
  <2>1. lockPath \in Referenced BY DEF Referenced
  <2>2. \A p \in Procs : locker[p].aside \in Referenced BY DEF Referenced
  <2>3. aged \subseteq LockFiles \cap Referenced BY <2>1, <2>2, LockFacts DEF OnDisk
  <2>4. lockFaults \in 0..MaxLockFaults BY LockFacts
  <2> QED BY <2>3, <2>4, LockFacts DEF LockTypeOK
<1>2. LockInv /\ [LockNext]_lockVars => LockInv' BY LockInvStep
<1> QED BY LockInvInit, <1>1, <1>2, PTL DEF LockSpec

(***************************************************************************)
(* Two processes are inside at once only if one of them was dispossessed:  *)
(* both have their file at the one path otherwise, and a file has one      *)
(* owner.                                                                  *)
(***************************************************************************)
THEOREM ExclusionHolds == LockSpec => []LockExclusion
<1>1. LockInv => LockExclusion
  <2> SUFFICES ASSUME LockInv, NEW p \in Procs, NEW q \in Procs, p # q, Inside(p), Inside(q)
               PROVE  Dispossessed(p) \/ Dispossessed(q)
    BY DEF LockExclusion
  <2>1. locker[p].held # NoFile /\ locker[p].held # locker[q].held BY LockFacts
  <2> QED BY <2>1, LockFacts DEF Accounted
<1>2. LockInv /\ [LockNext]_lockVars => LockInv' BY LockInvStep
<1> QED BY LockInvInit, <1>1, <1>2, PTL DEF LockSpec

----------------------------------------------------------------------------
(***************************************************************************)
(* StoreActivity, for every set of processes and every bound: a store with *)
(* a pending job does not look clean.                                      *)
(***************************************************************************)

(***************************************************************************)
(* The type invariant is not inductive as it stands: Finish takes one from *)
(* waiting, so the hosts at work must be counted in it.                    *)
(***************************************************************************)
WorkIsCounted ==
    /\ ActTypeOK
    /\ ready + waiting <= enqueued
    /\ IsFiniteSet(Working)
    /\ Cardinality(Working) <= waiting

\* What a drain holds of a token stays a token when the token is replaced.
LEMMA OutdatedType ==
    /\ \A t \in TokenStates : Outdated(t) \in TokenStates
    /\ \A t \in TokenStates : Outdated(t) # "current"
BY DEF TokenStates, Outdated

\* Replacing the content of state/activity keeps every drain a drain, where it
\* was.
LEMMA ReplacedType ==
    ASSUME NEW content, NEW d \in [Hosts -> Drain], Replaced(content, d)
    PROVE  /\ drain' \in [Hosts -> Drain]
           /\ \A h \in Hosts : /\ drain'[h].pc = d[h].pc
                               /\ drain'[h].newer = d[h].newer
                               /\ drain'[h].token = Outdated(d[h].token)
BY OutdatedType DEF Replaced, Drain

\* The hosts at work are the same when no drain begins or ends its work.
LEMMA SameWork ==
    ASSUME \A h \in Hosts : (drain'[h].pc = "working") <=> (drain[h].pc = "working")
    PROVE  Working' = Working
BY DEF Working

\* A set of hosts with one of them less.
LEMMA FewerWork ==
    ASSUME NEW h \in Hosts, IsFiniteSet(Working),
           Working' = Working \ {h}
    PROVE  /\ IsFiniteSet(Working')
           /\ Cardinality(Working') \in Nat /\ Cardinality(Working) \in Nat
           /\ h \in Working => Cardinality(Working') = Cardinality(Working) - 1
           /\ Cardinality(Working') <= Cardinality(Working)
<1>1. /\ IsFiniteSet(Working')
      /\ Cardinality(Working') =
           IF h \in Working THEN Cardinality(Working) - 1 ELSE Cardinality(Working)
  BY FS_RemoveElement
<1>2. Cardinality(Working') \in Nat /\ Cardinality(Working) \in Nat
  BY <1>1, FS_CardinalityType
<1> QED BY <1>1, <1>2

\* A drain whose record is replaced leaves the others alone.
LEMMA DrainIsType ==
    ASSUME drain \in [Hosts -> Drain], NEW h \in Hosts, NEW d \in Drain, DrainIs(h, d)
    PROVE  /\ drain' \in [Hosts -> Drain]
           /\ drain'[h] = d
           /\ \A g \in Hosts \ {h} : drain'[g] = drain[g]
BY DEF DrainIs

\* At first no store has work.
THEOREM WorkInit == ActInit => WorkIsCounted
<1> SUFFICES ASSUME ActInit PROVE WorkIsCounted OBVIOUS
<1>1. NoDrain \in Drain BY DEF NoDrain, Drain, TokenStates
<1>2. Working = {} BY DEF ActInit, Working, NoDrain
<1>3. IsFiniteSet(Working) /\ Cardinality(Working) = 0 BY <1>2, FS_EmptySet
<1>4. drain \in [Hosts -> Drain] BY <1>1 DEF ActInit
<1>5. publisher \in [Hosts -> {"idle", "committed", "writing", "failing"}] BY DEF ActInit
<1>6. /\ 0 \in 0..MaxJobs /\ 0 \in 0..MaxActFaults /\ Hosts \subseteq Hosts
      /\ "absent" \in TokenStates \ {"stale"}
  BY ActivityAssumption DEF TokenStates
<1>7. ready \in 0..MaxJobs /\ waiting \in 0..MaxJobs /\ enqueued \in 0..MaxJobs
      /\ actFaults \in 0..MaxActFaults
  BY <1>6 DEF ActInit
<1>8. activity \in TokenStates \ {"stale"} /\ swept \in TokenStates /\ failed \in BOOLEAN
      /\ unvisited \subseteq Hosts /\ lapse \in {"none", "unpublished", "passed"}
  BY <1>6 DEF ActInit
<1>9. ActTypeOK BY <1>4, <1>5, <1>7, <1>8 DEF ActTypeOK
<1> QED BY <1>3, <1>9 DEF WorkIsCounted, ActInit

LEMMA WorkStep ==
    ASSUME WorkIsCounted, [ActNext]_actVars
    PROVE  WorkIsCounted'
<1> USE ActivityAssumption
<1> USE DEF queue, tokenFiles, hostState, Pending
<1>0. /\ ActTypeOK /\ drain \in [Hosts -> Drain] /\ ready \in Nat /\ waiting \in Nat
      /\ enqueued \in Nat /\ actFaults \in Nat /\ MaxJobs \in Nat /\ MaxActFaults \in Nat
      /\ ready + waiting <= enqueued /\ enqueued <= MaxJobs /\ actFaults <= MaxActFaults
      /\ IsFiniteSet(Working) /\ Cardinality(Working) <= waiting
      /\ Cardinality(Working) \in Nat
      /\ activity \in TokenStates \ {"stale"} /\ swept \in TokenStates
  BY FS_CardinalityType DEF WorkIsCounted, ActTypeOK
<1>a. NoDrain \in Drain /\ Opened \in Drain
      /\ NoDrain.pc = "idle" /\ Opened.pc = "opened" /\ NoDrain.token = "absent"
      /\ [NoDrain EXCEPT !.pc = "working"] \in Drain
      /\ [NoDrain EXCEPT !.pc = "dead"] \in Drain
  BY <1>0 DEF NoDrain, Opened, Drain, TokenStates
<1>b. /\ "torn" \in TokenStates \ {"stale"} /\ "current" \in TokenStates \ {"stale"}
      /\ Outdated(swept) \in TokenStates
  BY <1>0, OutdatedType DEF TokenStates
<1>1. ASSUME NEW h \in Hosts, CommitJob(h) PROVE WorkIsCounted'
  <2>1. Working' = Working BY <1>1 DEF CommitJob, Working
  <2>2. ActTypeOK' BY <1>0, <1>1 DEF CommitJob, ActTypeOK, Publishes
  <2> QED BY <1>0, <1>1, <2>1, <2>2 DEF CommitJob, WorkIsCounted
<1>2. ASSUME NEW h \in Hosts, OpenToken(h) PROVE WorkIsCounted'
  <2>1. Replaced("torn", drain) BY <1>2 DEF OpenToken
  <2>2. Working' = Working BY <1>0, <2>1, ReplacedType, SameWork
  <2>3. ActTypeOK'
    BY <1>0, <1>2, <1>b, <2>1, ReplacedType DEF OpenToken, ActTypeOK, Publishes, Replaced
  <2> QED BY <1>0, <1>2, <2>2, <2>3 DEF OpenToken, WorkIsCounted
<1>3. ASSUME NEW h \in Hosts, WriteToken(h) PROVE WorkIsCounted'
  <2>1. Replaced("current", drain) BY <1>3 DEF WriteToken
  <2>2. Working' = Working BY <1>0, <2>1, ReplacedType, SameWork
  <2>3. ActTypeOK'
    BY <1>0, <1>3, <1>b, <2>1, ReplacedType DEF WriteToken, ActTypeOK, Publishes, Replaced
  <2> QED BY <1>0, <1>3, <2>2, <2>3 DEF WriteToken, WorkIsCounted
<1>4. ASSUME NEW h \in Hosts, TokenWriteFails(h) PROVE WorkIsCounted'
  <2>1. Working' = Working BY <1>4 DEF TokenWriteFails, Working
  <2>2. ActTypeOK' BY <1>0, <1>4 DEF TokenWriteFails, ActTypeOK, Publishes, ActFault
  <2> QED BY <1>0, <1>4, <2>1, <2>2 DEF TokenWriteFails, WorkIsCounted
<1>5. ASSUME NEW h \in Hosts, MarkFailure(h) PROVE WorkIsCounted'
  <2>1. drain' \in [Hosts -> Drain] /\ \A g \in Hosts : drain'[g].pc = drain[g].pc
    BY <1>0, <1>5 DEF MarkFailure, Drain
  <2>2. Working' = Working BY <2>1, SameWork
  <2>3. ActTypeOK' BY <1>0, <1>5, <2>1 DEF MarkFailure, ActTypeOK, Publishes
  <2> QED BY <1>0, <1>5, <2>2, <2>3 DEF MarkFailure, WorkIsCounted
<1>6. ASSUME NEW h \in Hosts, MarkFails(h) PROVE WorkIsCounted'
  <2>1. Working' = Working BY <1>6 DEF MarkFails, Working
  <2>2. ActTypeOK' BY <1>0, <1>6 DEF MarkFails, ActTypeOK, Publishes
  <2> QED BY <1>0, <1>6, <2>1, <2>2 DEF MarkFails, WorkIsCounted
<1>7. ASSUME NEW h \in Hosts, OpenDrain(h) PROVE WorkIsCounted'
  <2>1. DrainIs(h, Opened) /\ drain[h].pc = "idle" BY <1>7 DEF OpenDrain
  <2>2. drain' \in [Hosts -> Drain] BY <1>0, <1>a, <2>1, DrainIsType
  <2>3. Working' = Working BY <1>0, <1>a, <2>1, DrainIsType, SameWork
  <2>4. ActTypeOK' BY <1>0, <1>7, <2>2 DEF OpenDrain, ActTypeOK
  <2> QED BY <1>0, <1>7, <2>3, <2>4 DEF OpenDrain, WorkIsCounted
<1>8. ASSUME NEW h \in Hosts, Sweep(h) PROVE WorkIsCounted'
  <2>1. drain[h].pc = "idle" BY <1>8 DEF Sweep
  <2>2. CASE activity # "current" /\ Pending > 0
    <3> DEFINE d == [drain EXCEPT ![h] = Opened]
    <3>1. Replaced("current", d) /\ swept' = Outdated(swept) BY <1>8, <2>2 DEF Sweep, Replacing
    <3>2. d \in [Hosts -> Drain] /\ d[h].pc = "opened" /\ \A g \in Hosts \ {h} : d[g] = drain[g]
      BY <1>0, <1>a
    <3> HIDE DEF d
    <3>3. Working' = Working BY <1>0, <2>1, <3>1, <3>2, ReplacedType, SameWork
    <3>4. drain' \in [Hosts -> Drain] /\ activity' = "current"
      BY <3>1, <3>2, ReplacedType DEF Replaced
    <3>5. ActTypeOK' BY <1>0, <1>8, <1>b, <3>1, <3>4 DEF Sweep, ActTypeOK
    <3> QED BY <1>0, <1>8, <3>3, <3>5 DEF Sweep, WorkIsCounted
  <2>3. CASE ~(activity # "current" /\ Pending > 0)
    <3>1. DrainIs(h, Opened) /\ UNCHANGED <<activity, swept>> BY <1>8, <2>3 DEF Sweep
    <3>2. drain' \in [Hosts -> Drain] BY <1>0, <1>a, <3>1, DrainIsType
    <3>3. Working' = Working BY <1>0, <1>a, <2>1, <3>1, DrainIsType, SameWork
    <3>4. ActTypeOK' BY <1>0, <1>8, <3>1, <3>2 DEF Sweep, ActTypeOK
    <3> QED BY <1>0, <1>8, <3>3, <3>4 DEF Sweep, WorkIsCounted
  <2> QED BY <2>2, <2>3
<1>9. ASSUME NEW h \in Hosts, Take(h) PROVE WorkIsCounted'
  <2>1. DrainIs(h, [NoDrain EXCEPT !.pc = "working"]) /\ drain[h].pc = "opened"
    BY <1>9 DEF Take
  <2>2. /\ drain' \in [Hosts -> Drain] /\ drain'[h].pc = "working"
        /\ \A g \in Hosts \ {h} : drain'[g] = drain[g]
    BY <1>0, <1>a, <2>1, DrainIsType DEF NoDrain
  <2>3. Working' = Working \cup {h} /\ h \notin Working BY <2>1, <2>2 DEF Working
  <2>4. IsFiniteSet(Working') /\ Cardinality(Working') = Cardinality(Working) + 1
    BY <1>0, <2>3, FS_AddElement
  <2>5. ready > 0 /\ ready' = ready - 1 /\ waiting' = waiting + 1 BY <1>9 DEF Take
  <2>6. ready' \in 0..MaxJobs /\ waiting' \in 0..MaxJobs BY <1>0, <2>5
  <2>7. ActTypeOK' BY <1>0, <1>9, <2>2, <2>6 DEF Take, ActTypeOK
  <2> QED BY <1>0, <1>9, <2>4, <2>5, <2>7 DEF Take, WorkIsCounted
<1>10. ASSUME NEW h \in Hosts, Finish(h) PROVE WorkIsCounted'
  <2>1. DrainIs(h, Opened) /\ drain[h].pc = "working" BY <1>10 DEF Finish
  <2>2. /\ drain' \in [Hosts -> Drain] /\ drain'[h].pc = "opened"
        /\ \A g \in Hosts \ {h} : drain'[g] = drain[g]
    BY <1>0, <1>a, <2>1, DrainIsType
  <2>3. Working' = Working \ {h} /\ h \in Working BY <2>1, <2>2 DEF Working
  <2>4. /\ IsFiniteSet(Working') /\ Cardinality(Working') \in Nat
        /\ Cardinality(Working') = Cardinality(Working) - 1
    BY <1>0, <2>3, FewerWork
  <2>5. ready' = ready /\ waiting' = waiting - 1 BY <1>10 DEF Finish
  <2>6. waiting' \in 0..MaxJobs BY <1>0, <2>4, <2>5
  <2>7. ActTypeOK' BY <1>0, <1>10, <2>2, <2>5, <2>6 DEF Finish, ActTypeOK
  <2> QED BY <1>0, <1>10, <2>4, <2>5, <2>7 DEF Finish, WorkIsCounted
<1>11. ASSUME NEW h \in Hosts, AttemptFails(h) PROVE WorkIsCounted'
  <2>1. DrainIs(h, Opened) /\ drain[h].pc = "working" BY <1>11 DEF AttemptFails
  <2>2. /\ drain' \in [Hosts -> Drain] /\ drain'[h].pc = "opened"
        /\ \A g \in Hosts \ {h} : drain'[g] = drain[g]
    BY <1>0, <1>a, <2>1, DrainIsType
  <2>3. Working' = Working \ {h} BY <2>1, <2>2 DEF Working
  <2>4. /\ IsFiniteSet(Working') /\ Cardinality(Working') \in Nat
        /\ Cardinality(Working') <= Cardinality(Working)
    BY <1>0, <2>3, FewerWork
  <2>5. ActTypeOK' BY <1>0, <1>11, <2>2 DEF AttemptFails, ActTypeOK, ActFault
  <2> QED BY <1>0, <1>11, <2>4, <2>5 DEF AttemptFails, WorkIsCounted
<1>12. ASSUME NEW h \in Hosts, ClaimsNone(h) PROVE WorkIsCounted'
  <2> DEFINE d == [drain[h] EXCEPT !.pc = IF Pending > 0 THEN "keeping"
                    ELSE IF failed /\ ~drain[h].newer THEN "clearing" ELSE "recording"]
  <2>1. DrainIs(h, d) /\ drain[h].pc = "opened" BY <1>12 DEF ClaimsNone, DrainAt
  <2>2. d \in Drain /\ d.pc # "working" BY <1>0 DEF Drain
  <2> HIDE DEF d
  <2>3. drain' \in [Hosts -> Drain] BY <1>0, <2>1, <2>2, DrainIsType
  <2>4. Working' = Working BY <1>0, <2>1, <2>2, DrainIsType, SameWork
  <2>5. ActTypeOK' BY <1>0, <1>12, <2>3 DEF ClaimsNone, ActTypeOK
  <2> QED BY <1>0, <1>12, <2>4, <2>5 DEF ClaimsNone, WorkIsCounted
<1>13. ASSUME NEW h \in Hosts, RemoveMarker(h) PROVE WorkIsCounted'
  <2> DEFINE d == [drain[h] EXCEPT !.pc = "recording", !.newer = FALSE]
  <2>1. DrainIs(h, d) /\ drain[h].pc = "clearing" BY <1>13 DEF RemoveMarker
  <2>2. d \in Drain /\ d.pc # "working" BY <1>0 DEF Drain
  <2> HIDE DEF d
  <2>3. drain' \in [Hosts -> Drain] BY <1>0, <2>1, <2>2, DrainIsType
  <2>4. Working' = Working BY <1>0, <2>1, <2>2, DrainIsType, SameWork
  <2>5. ActTypeOK' BY <1>0, <1>13, <2>3 DEF RemoveMarker, ActTypeOK
  <2> QED BY <1>0, <1>13, <2>4, <2>5 DEF RemoveMarker, WorkIsCounted
<1>14. ASSUME NEW h \in Hosts, NEW pc, drain[h].pc = pc, pc # "working",
              \/ /\ Replacing(h, "current", NoDrain) /\ swept' = Outdated(swept)
              \/ /\ DrainIs(h, NoDrain) /\ UNCHANGED activity
                 /\ swept' \in {swept, drain[h].token},
              lapse' \in {"none", "unpublished", "passed"},
              UNCHANGED <<queue, failed, publisher, unvisited, enqueued, actFaults>>
       PROVE  WorkIsCounted'
  <2>1. CASE Replacing(h, "current", NoDrain) /\ swept' = Outdated(swept)
    <3> DEFINE d == [drain EXCEPT ![h] = NoDrain]
    <3>1. Replaced("current", d) BY <2>1 DEF Replacing
    <3>2. d \in [Hosts -> Drain] /\ d[h].pc = "idle" /\ \A g \in Hosts \ {h} : d[g] = drain[g]
      BY <1>0, <1>a
    <3> HIDE DEF d
    <3>3. Working' = Working BY <1>0, <1>14, <3>1, <3>2, ReplacedType, SameWork
    <3>4. drain' \in [Hosts -> Drain] /\ activity' = "current"
      BY <3>1, <3>2, ReplacedType DEF Replaced
    <3>5. ActTypeOK' BY <1>0, <1>14, <1>b, <2>1, <3>4 DEF ActTypeOK
    <3> QED BY <1>0, <1>14, <3>3, <3>5 DEF WorkIsCounted
  <2>2. CASE DrainIs(h, NoDrain) /\ UNCHANGED activity /\ swept' \in {swept, drain[h].token}
    <3>1. drain' \in [Hosts -> Drain] BY <1>0, <1>a, <2>2, DrainIsType
    <3>2. Working' = Working BY <1>0, <1>14, <1>a, <2>2, DrainIsType, SameWork
    <3>3. drain[h].token \in TokenStates BY <1>0 DEF Drain
    <3>4. ActTypeOK' BY <1>0, <1>14, <2>2, <3>1, <3>3 DEF ActTypeOK
    <3> QED BY <1>0, <1>14, <3>2, <3>4 DEF WorkIsCounted
  <2> QED BY <1>14, <2>1, <2>2
<1>15. ASSUME NEW h \in Hosts, RecordSwept(h) PROVE WorkIsCounted'
  BY <1>0, <1>14, <1>15 DEF RecordSwept, ActTypeOK
<1>16. ASSUME NEW h \in Hosts, KeepPending(h) PROVE WorkIsCounted'
  BY <1>0, <1>14, <1>16 DEF KeepPending, ActTypeOK
<1>17. ASSUME NEW h \in Hosts, ActCrash(h) PROVE WorkIsCounted'
  <2>1. DrainIs(h, [NoDrain EXCEPT !.pc = "dead"]) BY <1>17 DEF ActCrash
  <2>2. /\ drain' \in [Hosts -> Drain] /\ drain'[h].pc = "dead"
        /\ \A g \in Hosts \ {h} : drain'[g] = drain[g]
    BY <1>0, <1>a, <2>1, DrainIsType DEF NoDrain
  <2>3. Working' = Working \ {h} BY <2>2 DEF Working
  <2>4. /\ IsFiniteSet(Working') /\ Cardinality(Working') \in Nat
        /\ Cardinality(Working') <= Cardinality(Working)
    BY <1>0, <2>3, FewerWork
  <2>5. lapse' \in {"none", "unpublished", "passed"} BY <1>0, <1>17 DEF ActCrash, ActTypeOK
  <2>6. publisher' \in [Hosts -> {"idle", "committed", "writing", "failing"}]
    BY <1>0, <1>17 DEF ActCrash, ActTypeOK, Publishes
  <2>7. actFaults' \in 0..MaxActFaults BY <1>0, <1>17 DEF ActCrash, ActFault
  <2>8. UNCHANGED <<ready, waiting, activity, swept, failed, unvisited, enqueued>>
    BY <1>17 DEF ActCrash
  <2>9. ActTypeOK' BY <1>0, <2>2, <2>5, <2>6, <2>7, <2>8 DEF ActTypeOK
  <2> QED BY <1>0, <2>4, <2>8, <2>9 DEF WorkIsCounted
<1>18. ASSUME NEW h \in Hosts, ActStart(h) PROVE WorkIsCounted'
  <2>1. DrainIs(h, NoDrain) /\ drain[h].pc = "dead" BY <1>18 DEF ActStart
  <2>2. drain' \in [Hosts -> Drain] BY <1>0, <1>a, <2>1, DrainIsType
  <2>3. Working' = Working BY <1>0, <1>a, <2>1, DrainIsType, SameWork
  <2>4. ActTypeOK' BY <1>0, <1>18, <2>2 DEF ActStart, ActTypeOK
  <2> QED BY <1>0, <1>18, <2>3, <2>4 DEF ActStart, WorkIsCounted
<1>19. CASE RetryTimeComes
  <2>1. Working' = Working BY <1>19 DEF RetryTimeComes, Working
  <2>2. Working = {} /\ Cardinality(Working) = 0 BY <1>19, FS_EmptySet DEF RetryTimeComes
  <2>3. waiting > 0 /\ ready' = ready + 1 /\ waiting' = waiting - 1
    BY <1>19 DEF RetryTimeComes
  <2>4. ready' \in 0..MaxJobs /\ waiting' \in 0..MaxJobs BY <1>0, <2>3
  <2>5. ActTypeOK' BY <1>0, <1>19, <2>4 DEF RetryTimeComes, ActTypeOK
  <2> QED BY <1>0, <1>19, <2>1, <2>2, <2>3, <2>5 DEF RetryTimeComes, WorkIsCounted
<1>20. CASE UNCHANGED actVars
  <2>1. Working' = Working BY <1>20 DEF actVars, Working
  <2> QED BY <1>0, <1>20, <2>1 DEF actVars, WorkIsCounted, ActTypeOK
<1> QED
  BY <1>1, <1>2, <1>3, <1>4, <1>5, <1>6, <1>7, <1>8, <1>9, <1>10, <1>11, <1>12, <1>13,
     <1>15, <1>16, <1>17, <1>18, <1>19, <1>20 DEF ActNext, PublishStep, DrainStep

\* Every reachable state is well typed, with no bound on the processes.
THEOREM ActTypeCorrect == ActSpec => []ActTypeOK
<1>1. WorkIsCounted => ActTypeOK BY DEF WorkIsCounted
<1>2. WorkIsCounted /\ [ActNext]_actVars => WorkIsCounted' BY WorkStep
<1> QED BY WorkInit, <1>1, <1>2, PTL DEF ActSpec

----------------------------------------------------------------------------
(***************************************************************************)
(* Why no drain settles a store over a job it has not seen.  A drain that  *)
(* is about to settle has seen the queue empty after it read the token.    *)
(* So as long as a job is pending whose word was given, either the token   *)
(* in state/activity is newer than what state/swept and every such drain   *)
(* hold, or the marker is there and is newer than every such drain.        *)
(***************************************************************************)
DrainSettles(h) == drain[h].pc \in {"clearing", "recording"}
Matches(t) == t = activity /\ t \in {"absent", "current"}

TokenTells == ~Matches(swept) /\ \A h \in Hosts : DrainSettles(h) => ~Matches(drain[h].token)
MarkerTells == failed /\ \A h \in Hosts : DrainSettles(h) => drain[h].newer

WordIsOut == Pending > 0 /\ ~Publishing /\ lapse = "none" => TokenTells \/ MarkerTells

ActInv == WorkIsCounted /\ WordIsOut

\* A store whose word is out looks dirty.
LEMMA WordShows ==
    ASSUME ActTypeOK, TokenTells \/ MarkerTells PROVE Dirty
BY DEF ActTypeOK, TokenStates, TokenTells, MarkerTells, Matches, Dirty

\* As soon as the token in state/activity is replaced, it tells of every job.
LEMMA ReplacedTells ==
    ASSUME WorkIsCounted, NEW content \in {"torn", "current"}, NEW d \in [Hosts -> Drain],
           Replaced(content, d), swept' = Outdated(swept)
    PROVE  TokenTells'
<1>1. swept \in TokenStates BY DEF WorkIsCounted, ActTypeOK
<1>2. \A h \in Hosts : d[h].token \in TokenStates BY DEF Drain
<1>3. \A h \in Hosts : drain'[h].token = Outdated(d[h].token) BY ReplacedType
<1>4. activity' = content BY DEF Replaced
<1>5. \A t \in TokenStates : Outdated(t) = content => content = "torn"
  BY DEF TokenStates, Outdated
<1> QED BY <1>1, <1>2, <1>3, <1>4, <1>5 DEF TokenTells, Matches

\* Nothing that leaves the files, the marker and the word alone, and lets no
\* further drain settle, takes away what tells of the pending jobs.
LEMMA StillTells ==
    ASSUME WordIsOut, UNCHANGED tokenFiles, publisher' = publisher,
           Pending' > 0 => Pending > 0, lapse' = "none" /\ Pending' > 0 => lapse = "none",
           \A h \in Hosts : DrainSettles(h)' => drain'[h] = drain[h]
    PROVE  WordIsOut'
<1> SUFFICES ASSUME Pending' > 0, ~Publishing', lapse' = "none"
             PROVE  TokenTells' \/ MarkerTells'
  BY DEF WordIsOut
<1>1. TokenTells \/ MarkerTells BY DEF WordIsOut, Publishing
<1>2. \A h \in Hosts : DrainSettles(h)' => DrainSettles(h) BY DEF DrainSettles
<1>3. CASE TokenTells BY <1>2, <1>3 DEF TokenTells, Matches, tokenFiles
<1>4. CASE MarkerTells BY <1>2, <1>4 DEF MarkerTells, tokenFiles
<1> QED BY <1>1, <1>3, <1>4

\* At first no word of work is owed.
THEOREM WordInit == ActInit => WordIsOut
BY DEF ActInit, WordIsOut, Pending

LEMMA WordStep ==
    ASSUME WorkIsCounted, WordIsOut, [ActNext]_actVars
    PROVE  WordIsOut'
<1> USE DEF queue, hostState
<1>0. /\ ActTypeOK /\ drain \in [Hosts -> Drain] /\ ready \in Nat /\ waiting \in Nat
      /\ publisher \in [Hosts -> {"idle", "committed", "writing", "failing"}]
      /\ lapse \in {"none", "unpublished", "passed"}
  BY ActivityAssumption DEF WorkIsCounted, ActTypeOK
<1>a. NoDrain \in Drain /\ Opened \in Drain
      /\ NoDrain.pc = "idle" /\ Opened.pc = "opened"
      /\ [NoDrain EXCEPT !.pc = "working"] \in Drain
      /\ [NoDrain EXCEPT !.pc = "working"].pc = "working"
      /\ [NoDrain EXCEPT !.pc = "dead"] \in Drain
      /\ [NoDrain EXCEPT !.pc = "dead"].pc = "dead"
  BY <1>0 DEF NoDrain, Opened, Drain, TokenStates, ActTypeOK
\* Steps of a drain that does not settle, and leaves the files alone.
<1>b. ASSUME NEW h \in Hosts, NEW d \in Drain, DrainIs(h, d),
             d.pc \notin {"clearing", "recording"}, UNCHANGED tokenFiles,
             publisher' = publisher, Pending' > 0 => Pending > 0,
             lapse' = "none" /\ Pending' > 0 => lapse = "none"
      PROVE  WordIsOut'
  <2>1. \A g \in Hosts : DrainSettles(g)' => drain'[g] = drain[g]
    BY <1>0, <1>b, DrainIsType DEF DrainSettles
  <2> QED BY <1>b, <2>1, StillTells
\* Steps that end the publication of a token.
<1>1. ASSUME NEW h \in Hosts, CommitJob(h) PROVE WordIsOut'
  <2>1. publisher'[h] = "committed" BY <1>0, <1>1 DEF CommitJob, Publishes
  <2> QED BY <2>1 DEF WordIsOut, Publishing
<1>2. ASSUME NEW h \in Hosts, OpenToken(h) PROVE WordIsOut'
  BY <1>0, <1>2, ReplacedTells DEF OpenToken, WordIsOut
<1>3. ASSUME NEW h \in Hosts, WriteToken(h) PROVE WordIsOut'
  BY <1>0, <1>3, ReplacedTells DEF WriteToken, WordIsOut
<1>4. ASSUME NEW h \in Hosts, TokenWriteFails(h) PROVE WordIsOut'
  <2>1. publisher'[h] = "failing" BY <1>0, <1>4 DEF TokenWriteFails, Publishes
  <2> QED BY <2>1 DEF WordIsOut, Publishing
<1>5. ASSUME NEW h \in Hosts, MarkFailure(h) PROVE WordIsOut'
  <2>1. failed' BY <1>5 DEF MarkFailure
  <2>2. \A g \in Hosts : drain'[g] = [drain[g] EXCEPT !.newer = @ \/ drain[g].pc \notin {"dead", "idle"}]
    BY <1>5 DEF MarkFailure
  <2>3. ASSUME NEW g \in Hosts, DrainSettles(g)' PROVE drain'[g].newer
    <3>1. drain[g] \in Drain BY <1>0
    <3>2. drain'[g].pc = drain[g].pc BY <2>2, <3>1 DEF Drain
    <3>3. drain[g].pc \notin {"dead", "idle"} BY <2>3, <3>2 DEF DrainSettles
    <3>4. drain'[g] = [drain[g] EXCEPT !.newer = TRUE] BY <2>2, <3>1, <3>3 DEF Drain
    <3> QED BY <3>1, <3>4 DEF Drain
  <2> QED BY <2>1, <2>3 DEF WordIsOut, MarkerTells
<1>6. ASSUME NEW h \in Hosts, MarkFails(h) PROVE WordIsOut'
  BY <1>6 DEF MarkFails, WordIsOut
<1>7. ASSUME NEW h \in Hosts, OpenDrain(h) PROVE WordIsOut'
  BY <1>7, <1>a, <1>b DEF OpenDrain, Pending
<1>8. ASSUME NEW h \in Hosts, Sweep(h) PROVE WordIsOut'
  <2>1. CASE activity # "current" /\ Pending > 0
    <3>1. Replaced("current", [drain EXCEPT ![h] = Opened]) /\ swept' = Outdated(swept)
      BY <1>8, <2>1 DEF Sweep, Replacing
    <3>2. [drain EXCEPT ![h] = Opened] \in [Hosts -> Drain] BY <1>0, <1>a
    <3> QED BY <3>1, <3>2, ReplacedTells DEF WordIsOut
  <2>2. CASE ~(activity # "current" /\ Pending > 0)
    BY <1>8, <2>2, <1>a, <1>b DEF Sweep, Pending, tokenFiles
  <2> QED BY <2>1, <2>2
<1>9. ASSUME NEW h \in Hosts, Take(h) PROVE WordIsOut'
  <2>1. Pending' = Pending BY <1>0, <1>9 DEF Take, Pending
  <2> QED BY <1>9, <2>1, <1>a, <1>b DEF Take
<1>10. ASSUME NEW h \in Hosts, Finish(h) PROVE WordIsOut'
  <2>1. Pending \in Int /\ Pending' = Pending - 1 BY <1>0, <1>10 DEF Finish, Pending
  <2>2. lapse' = IF Pending = 1 THEN "none" ELSE lapse BY <1>10 DEF Finish
  <2>3. Pending' > 0 => Pending > 0 /\ lapse' = lapse BY <2>1, <2>2
  <2> QED BY <1>10, <2>3, <1>a, <1>b DEF Finish
<1>11. ASSUME NEW h \in Hosts, AttemptFails(h) PROVE WordIsOut'
  <2>1. lapse' = "none" => lapse = "none" /\ Pending' = Pending
    BY <1>11 DEF AttemptFails, Pending
  <2>2. Pending' = Pending BY <1>11 DEF AttemptFails, Pending
  <2> QED BY <1>11, <2>1, <2>2, <1>a, <1>b DEF AttemptFails
\* The queue has just been found empty: a drain that settles now, settles over
\* nothing.
<1>12. ASSUME NEW h \in Hosts, ClaimsNone(h) PROVE WordIsOut'
  <2> DEFINE d == [drain[h] EXCEPT !.pc = IF Pending > 0 THEN "keeping"
                    ELSE IF failed /\ ~drain[h].newer THEN "clearing" ELSE "recording"]
  <2>1. DrainIs(h, d) BY <1>12 DEF ClaimsNone, DrainAt
  <2>2. Pending' = Pending /\ lapse' = lapse /\ publisher' = publisher
        /\ UNCHANGED tokenFiles
    BY <1>12 DEF ClaimsNone, Pending
  <2>3. d \in Drain /\ (Pending > 0 => d.pc = "keeping") BY <1>0 DEF Drain
  <2> HIDE DEF d
  <2>4. CASE Pending > 0 BY <2>1, <2>2, <2>3, <2>4, <1>b
  <2>5. CASE ~(Pending > 0) BY <2>2, <2>5 DEF WordIsOut
  <2> QED BY <2>4, <2>5
\* The marker goes: it is not what tells of the jobs, or it was rewritten since
\* the look, and its word is lost.
<1>13. ASSUME NEW h \in Hosts, RemoveMarker(h) PROVE WordIsOut'
  <2> DEFINE d == [drain[h] EXCEPT !.pc = "recording", !.newer = FALSE]
  <2>1. DrainIs(h, d) /\ DrainSettles(h) BY <1>13 DEF RemoveMarker, DrainSettles
  <2>2. d \in Drain /\ d.token = drain[h].token BY <1>0 DEF Drain
  <2> HIDE DEF d
  <2>3. /\ UNCHANGED <<ready, waiting, activity, swept, publisher>>
        /\ lapse' = IF drain[h].newer /\ failed THEN "passed" ELSE lapse
    BY <1>13 DEF RemoveMarker
  <2> SUFFICES ASSUME Pending' > 0, ~Publishing', lapse' = "none" PROVE TokenTells'
    BY DEF WordIsOut
  <2>4. Pending > 0 /\ ~Publishing /\ lapse = "none" /\ ~(drain[h].newer /\ failed)
    BY <2>3 DEF Pending, Publishing
  <2>5. TokenTells BY <2>1, <2>4 DEF WordIsOut, MarkerTells
  <2>6. \A g \in Hosts : /\ DrainSettles(g)' => DrainSettles(g)
                         /\ drain'[g].token = drain[g].token
    BY <1>0, <2>1, <2>2, DrainIsType DEF DrainSettles
  <2> QED BY <2>3, <2>5, <2>6 DEF TokenTells, Matches
\* What is recorded is a token that does not tell that the jobs were seen.
<1>14. ASSUME NEW h \in Hosts, RecordSwept(h) PROVE WordIsOut'
  <2>1. CASE drain[h].token = "torn"
    <3>1. Replaced("current", [drain EXCEPT ![h] = NoDrain]) /\ swept' = Outdated(swept)
      BY <1>14, <2>1 DEF RecordSwept, Replacing
    <3>2. [drain EXCEPT ![h] = NoDrain] \in [Hosts -> Drain] BY <1>0, <1>a
    <3> QED BY <3>1, <3>2, ReplacedTells DEF WordIsOut
  <2>2. CASE drain[h].token # "torn"
    <3>1. /\ DrainIs(h, NoDrain) /\ swept' = drain[h].token
          /\ UNCHANGED <<ready, waiting, activity, failed, publisher, lapse>>
      BY <1>14, <2>2 DEF RecordSwept
    <3>2. DrainSettles(h) BY <1>14 DEF RecordSwept, DrainSettles
    <3>3. \A g \in Hosts : DrainSettles(g)' => DrainSettles(g) /\ drain'[g] = drain[g]
      BY <1>0, <1>a, <3>1, DrainIsType DEF DrainSettles
    <3> SUFFICES ASSUME Pending' > 0, ~Publishing', lapse' = "none"
                 PROVE  TokenTells' \/ MarkerTells'
      BY DEF WordIsOut
    <3>4. TokenTells \/ MarkerTells BY <3>1 DEF WordIsOut, Pending, Publishing
    <3>5. TokenTells => TokenTells' BY <3>1, <3>2, <3>3 DEF TokenTells, Matches
    <3>6. MarkerTells => MarkerTells' BY <3>1, <3>3 DEF MarkerTells
    <3> QED BY <3>4, <3>5, <3>6
  <2> QED BY <2>1, <2>2
<1>15. ASSUME NEW h \in Hosts, KeepPending(h) PROVE WordIsOut'
  <2>1. CASE drain[h].token \in {"current", "stale"}
    <3>1. /\ DrainIs(h, NoDrain) /\ UNCHANGED tokenFiles /\ publisher' = publisher
          /\ lapse' = "none" => lapse = "none"
      BY <1>15, <2>1 DEF KeepPending, tokenFiles
    <3>2. Pending' = Pending BY <1>15 DEF KeepPending, Pending
    <3> QED BY <3>1, <3>2, <1>a, <1>b
  <2>2. CASE drain[h].token \notin {"current", "stale"}
    <3>1. Replaced("current", [drain EXCEPT ![h] = NoDrain]) /\ swept' = Outdated(swept)
      BY <1>15, <2>2 DEF KeepPending, Replacing
    <3>2. [drain EXCEPT ![h] = NoDrain] \in [Hosts -> Drain] BY <1>0, <1>a
    <3> QED BY <3>1, <3>2, ReplacedTells DEF WordIsOut
  <2> QED BY <2>1, <2>2
\* Whoever dies before its word is out leaves a lapse.
<1>16. ASSUME NEW h \in Hosts, ActCrash(h) PROVE WordIsOut'
  <2>1. /\ DrainIs(h, [NoDrain EXCEPT !.pc = "dead"]) /\ UNCHANGED tokenFiles
        /\ publisher' = [publisher EXCEPT ![h] = "idle"]
        /\ lapse' = IF publisher[h] # "idle" /\ lapse = "none" THEN "unpublished" ELSE lapse
    BY <1>16 DEF ActCrash, Publishes
  <2>2. Pending' = Pending BY <1>16 DEF ActCrash, Pending
  <2>3. CASE publisher[h] = "idle"
    <3>1. publisher' = publisher /\ lapse' = lapse BY <1>0, <2>1, <2>3
    <3> QED BY <2>1, <2>2, <3>1, <1>a, <1>b
  <2>4. CASE publisher[h] # "idle" BY <2>1, <2>4 DEF WordIsOut
  <2> QED BY <2>3, <2>4
<1>17. ASSUME NEW h \in Hosts, ActStart(h) PROVE WordIsOut'
  BY <1>17, <1>a, <1>b DEF ActStart, Pending
<1>18. CASE RetryTimeComes
  <2>1. Pending' = Pending BY <1>0, <1>18 DEF RetryTimeComes, Pending
  <2> QED BY <1>18, <2>1, StillTells DEF RetryTimeComes
<1>19. CASE UNCHANGED actVars
  BY <1>19, StillTells DEF actVars, tokenFiles, Pending
<1> QED
  BY <1>1, <1>2, <1>3, <1>4, <1>5, <1>6, <1>7, <1>8, <1>9, <1>10, <1>11, <1>12, <1>13,
     <1>14, <1>15, <1>16, <1>17, <1>18, <1>19 DEF ActNext, PublishStep, DrainStep

(***************************************************************************)
(* A store with a pending job looks dirty, or its word is still to come,   *)
(* or was lost to a crash or a second failure, for every set of processes  *)
(* and any number of jobs and faults.                                      *)
(***************************************************************************)
THEOREM PendingShows == ActSpec => []PendingShowsInToken
<1>1. ActInit => ActInv BY WorkInit, WordInit DEF ActInv
<1>2. ActInv /\ [ActNext]_actVars => ActInv' BY WorkStep, WordStep DEF ActInv
<1>3. ActInv => PendingShowsInToken
  BY WordShows DEF ActInv, WorkIsCounted, WordIsOut, PendingShowsInToken
<1> QED BY <1>1, <1>2, <1>3, PTL DEF ActSpec

----------------------------------------------------------------------------
(***************************************************************************)
(* Retirement, for any number of messages, closes and retries: as long as  *)
(* nothing has failed, what is owed is saved, or it is in the adapter or   *)
(* in the lane ahead of the checkpoint that will save it (RetClean).       *)
(* Nothing is claimed of a session in which a task has failed.             *)
(***************************************************************************)

LaneTasks == [kind : {"create", "say", "idle", "end"}, at : Said \cup {0, AtOnce}]
Agents == [present : BOOLEAN, enabled : BOOLEAN, created : BOOLEAN, seed : SUBSET Said,
           known : BOOLEAN, disposed : BOOLEAN, seen : SUBSET Said,
           lane : Seq(LaneTasks), drains : Seq(Outcome), memo : {"none", "off", "running"},
           attempts : 0..RetireMax, timers : Nat, retired : BOOLEAN, lease : BOOLEAN]

\* What a task of the lane tells was said.
Told(r) == r.seen \cup r.seed \subseteq said /\ \A i \in 1..Len(r.lane) : r.lane[i].kind = "say" => r.lane[i].at \in said
RetTyped ==
    /\ session \in [open : BOOLEAN, on : BOOLEAN, closes : 0..MaxCloses]
    /\ said \subseteq Said /\ owed \subseteq said /\ saved \subseteq said
    /\ agent \in Agents /\ Told(agent)
    /\ unload \in {"no", "first", "again"} /\ trouble \in BOOLEAN

LEMMA RetBounds == MaxSaid \in Nat /\ MaxCloses \in Nat /\ RetireMax \in Nat
BY RetirementAssumption

LEMMA AdoptedTyped ==
  ASSUME NEW all \in SUBSET Said
  PROVE  /\ Adopted(all) \in Agents
         /\ Len(Adopted(all).lane) = 1 /\ Adopted(all).lane[1].kind = "create"
         /\ Adopted(all).seed = all /\ Adopted(all).seen = {} /\ ~Adopted(all).created
<1> DEFINE t == Task("create", 0)
<1>1. t \in LaneTasks /\ t.kind = "create"
  BY DEF Task, LaneTasks
<1> HIDE DEF t
<1>2. <<t>> \in Seq(LaneTasks) /\ Len(<<t>>) = 1 /\ <<t>>[1] = t
  BY <1>1
<1>3. Adopted(all) = [present |-> TRUE, enabled |-> TRUE, created |-> FALSE, seed |-> all, known |-> FALSE,
                      disposed |-> FALSE, seen |-> {}, lane |-> <<t>>, drains |-> <<>>,
                      memo |-> "none", attempts |-> 0, timers |-> 0, retired |-> FALSE, lease |-> TRUE]
  BY DEF Adopted, t
<1> QED
  BY <1>1, <1>2, <1>3, RetBounds DEF Agents

LEMMA GoneTyped ==
  /\ Gone \in Agents /\ Gone.seen = {} /\ Gone.seed = {} /\ Gone.lane = <<>> /\ Gone.drains = <<>> /\ Gone.timers = 0
  /\ Gone.memo = "none" /\ ~Gone.present /\ ~Gone.enabled
<1>1. Adopted({}) \in Agents /\ <<>> \in Seq(LaneTasks)
  BY AdoptedTyped
<1>2. Gone \in Agents /\ Gone.lane = <<>>
  BY <1>1 DEF Gone, Agents
<1> QED
  BY <1>2 DEF Gone, Adopted

\* The next message is one not said yet.
LEMMA NextIsNew ==
  ASSUME NEW S \in SUBSET (1..MaxSaid), S # {}
  PROVE  (CHOOSE x \in S : \A y \in S : x <= y) \in S
<1>1. \E x \in S : \A y \in S : x <= y
  <2>1. S \in SUBSET Nat
    BY RetBounds
  <2>2. PICK x \in S : \A y \in S : ~(<<y, x>> \in OpToRel(<, Nat))
    BY <2>1, NatLessThanWellFounded, WFMin
  <2>3. ASSUME NEW y \in S PROVE x <= y
    <3>1. ~(<<y, x>> \in Nat \X Nat /\ y < x)
      BY <2>2 DEF OpToRel
    <3> QED
      BY <2>1, <3>1
  <2> QED
    BY <2>3
<1> QED
  BY <1>1

LEMMA RetiredTyped ==
  ASSUME NEW r \in Agents, Told(r), NEW call \in {0, 1}
  PROVE  RetiredBy(call, r) \in Agents /\ Told(RetiredBy(call, r))
<1>1. Task("end", call) \in LaneTasks /\ "pending" \in Outcome
  BY DEF Task, LaneTasks, AtOnce, Outcome
<1>2. Append(r.lane, Task("end", call)) \in Seq(LaneTasks) /\ Append(r.drains, "pending") \in Seq(Outcome)
  BY <1>1 DEF Agents
<1>3. CASE ~(r.memo # "none" \/ ~r.present) /\ r.enabled /\ r.created
  <2> DEFINE n == [r EXCEPT !.memo = "running", !.lane = Append(@, Task("end", call)), !.drains = Append(@, "pending")]
  <2>1. n \in Agents /\ n.seen = r.seen /\ n.seed = r.seed /\ n.lane = Append(r.lane, Task("end", call))
    BY <1>2 DEF Agents
  <2>2. \A i \in 1..Len(n.lane) : n.lane[i].kind = "say" => i \in 1..Len(r.lane) /\ n.lane[i] = r.lane[i]
    BY <2>1, <1>1 DEF Task, Agents
  <2>3. Told(n)
    BY <2>1, <2>2 DEF Told
  <2> QED
    BY <1>3, <2>1, <2>3 DEF RetiredBy
<1>4. CASE ~(r.memo # "none" \/ ~r.present) /\ (~r.enabled \/ ~r.created)
  <2> DEFINE n == [r EXCEPT !.enabled = FALSE, !.disposed = TRUE, !.memo = "off"]
  <2>1. n \in Agents /\ n.seen = r.seen /\ n.seed = r.seed /\ n.lane = r.lane
    BY DEF Agents
  <2> QED
    BY <1>4, <2>1 DEF RetiredBy, Told
<1>5. CASE r.memo # "none" \/ ~r.present
  BY <1>5 DEF RetiredBy
<1> QED
  BY <1>3, <1>4, <1>5

LEMMA RejectedTyped ==
  ASSUME NEW r \in Agents, Told(r)
  PROVE  Rejected(r) \in Agents /\ Told(Rejected(r))
<1> DEFINE again == [r EXCEPT !.memo = "none"]
           retry == [again EXCEPT !.attempts = @ + 1, !.timers = @ + 1]
           never == [again EXCEPT !.retired = TRUE, !.lease = FALSE]
           timed == IF r.attempts < RetireMax THEN retry ELSE never
<1>1. again \in Agents /\ again.seen = r.seen /\ again.seed = r.seed /\ again.lane = r.lane /\ again.attempts = r.attempts
  BY DEF Agents
<1>2. r.attempts < RetireMax => retry \in Agents /\ retry.seen = r.seen /\ retry.seed = r.seed /\ retry.lane = r.lane
  <2> SUFFICES ASSUME r.attempts < RetireMax PROVE retry \in Agents /\ retry.seen = r.seen /\ retry.seed = r.seed /\ retry.lane = r.lane
    OBVIOUS
  <2>1. again.attempts + 1 \in 0..RetireMax /\ again.timers + 1 \in Nat
    BY <1>1, RetBounds DEF Agents
  <2> HIDE DEF again
  <2> QED
    BY <1>1, <2>1 DEF Agents
<1>3. never \in Agents /\ never.seen = r.seen /\ never.seed = r.seed /\ never.lane = r.lane
  BY <1>1 DEF Agents
<1>4. timed \in Agents /\ Told(timed)
  BY <1>2, <1>3 DEF Told
<1>5. RetiredBy(AtOnce, timed) \in Agents /\ Told(RetiredBy(AtOnce, timed))
  BY <1>4, RetiredTyped DEF AtOnce
<1>6. Rejected(r) = IF unload = "first" THEN RetiredBy(AtOnce, timed) ELSE timed
  BY DEF Rejected
<1> HIDE DEF timed
<1> QED
  BY <1>4, <1>5, <1>6

\* A task of the lane is done.
LEMMA PoppedTyped ==
  ASSUME NEW r \in Agents, Told(r), r.lane # <<>>
  PROVE  /\ Popped(r) \in Agents /\ Told(Popped(r)) /\ Popped(r).lane = Tail(r.lane)
         /\ Head(r.lane) \in LaneTasks /\ Head(r.lane) = r.lane[1]
<1>1. /\ r.lane \in Seq(LaneTasks) /\ Tail(r.lane) \in Seq(LaneTasks) /\ Head(r.lane) \in LaneTasks
      /\ Head(r.lane) = r.lane[1] /\ Len(r.lane) \in Nat \ {0} /\ Len(Tail(r.lane)) = Len(r.lane) - 1
      /\ \A i \in 1..Len(Tail(r.lane)) : Tail(r.lane)[i] = r.lane[i + 1]
  BY DEF Agents
<1>2. Popped(r) \in Agents /\ Popped(r).lane = Tail(r.lane) /\ Popped(r).seen = r.seen
      /\ Popped(r).seed = r.seed
  BY <1>1 DEF Popped, Agents
<1>3. Told(Popped(r))
  BY <1>1, <1>2 DEF Told
<1> QED
  BY <1>1, <1>2, <1>3

LEMMA SettlesTyped ==
  ASSUME NEW r \in Agents, Told(r), r.lane # <<>>, NEW how \in Outcome
  PROVE  /\ Settles(r, how) \in Agents /\ Told(Settles(r, how))
         /\ Settles(r, how) = [Popped(r) EXCEPT !.drains = [r.drains EXCEPT ![Waiting(r)] = how]]
<1>1. Popped(r) \in Agents /\ Told(Popped(r)) /\ Popped(r).drains = r.drains /\ r.drains \in Seq(Outcome)
  BY PoppedTyped DEF Popped, Agents
<1>2. [r.drains EXCEPT ![Waiting(r)] = how] \in Seq(Outcome)
  <2>1. r.drains \in [1..Len(r.drains) -> Outcome] /\ Len(r.drains) \in Nat
    BY <1>1
  <2>2. [r.drains EXCEPT ![Waiting(r)] = how] \in [1..Len(r.drains) -> Outcome]
    BY <2>1
  <2> QED
    BY <2>1, <2>2, SeqDef
<1>3. Settles(r, how) = [Popped(r) EXCEPT !.drains = [r.drains EXCEPT ![Waiting(r)] = how]]
  BY <1>1 DEF Settles
<1>4. Settles(r, how) \in Agents /\ Settles(r, how).lane = Popped(r).lane /\ Settles(r, how).seen = Popped(r).seen
      /\ Settles(r, how).seed = Popped(r).seed
  BY <1>1, <1>2, <1>3 DEF Agents
<1> QED
  BY <1>1, <1>3, <1>4 DEF Told

LEMMA DrainedTyped ==
  ASSUME NEW r \in Agents, Told(r), r.drains # <<>>
  PROVE  Drained(r) \in Agents /\ Told(Drained(r))
<1>1. Tail(r.drains) \in Seq(Outcome)
  BY DEF Agents
<1>2. Drained(r) \in Agents /\ Drained(r).lane = r.lane /\ Drained(r).seen = r.seen /\ Drained(r).seed = r.seed
  BY <1>1 DEF Drained, Agents
<1> QED
  BY <1>2 DEF Told

----------------------------------------------------------------------------
NoEnd(r) == \A i \in 1..Len(r.lane) : r.lane[i].kind # "end"
EndAt(r, k) == \A i \in 1..Len(r.lane) : r.lane[i].kind = "end" <=> i = k

\* The session's first task, which replays the log, is at the head of the lane
\* until it has come through.
CreatesFirst(r) == \A i \in 1..Len(r.lane) : r.lane[i].kind = "create" => i = 1 /\ ~r.created

\* What is owed and in no checkpoint is with the adapter, or in the log it is
\* going to be given, or among the first k tasks of the lane.
InHand(r) == IF r.created THEN r.seen ELSE r.seed
Carried(r, k) ==
    \A m \in owed \ saved : m \in InHand(r) \/ \E i \in 1..k : r.lane[i].kind = "say" /\ r.lane[i].at = m

\* The retirement under way: its checkpoint is in the lane, behind all that is
\* owed, or it has succeeded.
Awaits(r) ==
    /\ r.created /\ r.known /\ ~r.disposed /\ r.drains = <<"pending">>
    /\ \E k \in 1..Len(r.lane) : EndAt(r, k) /\ Carried(r, k - 1)
Kept(r) == r.created /\ r.drains = <<"ok">> /\ NoEnd(r) /\ owed \subseteq saved

\* A session that goes on.
Lives(r) ==
    /\ ~r.disposed /\ Carried(r, Len(r.lane))
    /\ IF r.created THEN r.known ELSE r.lane # <<>> /\ r.lane[1].kind = "create"

\* How things stand as long as nothing has failed.
RetClean ==
    /\ agent.timers = 0
    /\ ~agent.present => agent = Gone /\ owed \subseteq saved
    /\ agent.present /\ agent.memo = "none" => (agent.enabled <=> session.on)
    /\ ~session.on => owed \subseteq saved
    /\ agent.memo # "running" => agent.drains = <<>> /\ NoEnd(agent)
    /\ agent.memo = "off" => ~agent.enabled /\ owed \subseteq saved
    /\ CreatesFirst(agent)
    /\ agent.memo = "none" /\ agent.enabled => Lives(agent)
    /\ agent.memo = "running" => agent.enabled /\ (Awaits(agent) \/ Kept(agent))
RetIInv == RetTyped /\ (~trouble => RetClean)

LEMMA RetInitClean == RetInit => RetIInv
<1> SUFFICES ASSUME RetInit PROVE RetIInv
  OBVIOUS
<1>1. /\ agent \in Agents /\ agent.seen = {} /\ agent.seed = {} /\ ~agent.created
      /\ Len(agent.lane) = 1 /\ agent.lane[1].kind = "create"
  BY AdoptedTyped DEF RetInit
<1>4. Told(agent)
  BY <1>1 DEF Told
<1>5. session \in [open : BOOLEAN, on : BOOLEAN, closes : 0..MaxCloses]
  BY RetBounds DEF RetInit
<1>6. said = {} /\ owed = {} /\ saved = {} /\ unload = "no" /\ trouble = FALSE
  BY DEF RetInit
<1>2. RetTyped
  BY <1>1, <1>4, <1>5, <1>6 DEF RetTyped
<1>3. RetClean
  <2>1. /\ agent.timers = 0 /\ agent.present /\ agent.enabled /\ session.on /\ ~agent.disposed
        /\ agent.memo = "none" /\ agent.drains = <<>> /\ agent.lane # <<>>
    BY DEF RetInit, Adopted
  <2>2. NoEnd(agent) /\ CreatesFirst(agent)
    BY <1>1 DEF NoEnd, CreatesFirst
  <2>3. Lives(agent)
    BY <1>1, <1>6, <2>1 DEF Lives, Carried
  <2> QED
    BY <2>1, <2>2, <2>3 DEF RetClean
<1> QED
  BY <1>2, <1>3 DEF RetIInv

\* A task at the end of the lane.
LEMMA Appended ==
  ASSUME NEW s \in Seq(LaneTasks), NEW t \in LaneTasks
  PROVE  /\ Append(s, t) \in Seq(LaneTasks) /\ Len(Append(s, t)) = Len(s) + 1 /\ Len(s) \in Nat
         /\ Append(s, t)[Len(s) + 1] = t /\ \A i \in 1..Len(s) : Append(s, t)[i] = s[i]
OBVIOUS

LEMMA SayKeeps ==
  ASSUME RetIInv, Say
  PROVE  RetIInv'
<1> DEFINE m == CHOOSE x \in Said \ said : \A y \in Said \ said : x <= y
           t == Task("say", m)
<1>1. m \in Said \ said
  BY NextIsNew DEF Say, Said
<1>2. /\ said' = said \cup {m}
      /\ owed' = IF agent.memo = "none" /\ session.on THEN owed \cup {m} ELSE owed
      /\ agent' = IF ~session.on THEN agent
                  ELSE IF ~agent.present THEN Adopted(said')
                  ELSE [agent EXCEPT !.lane = Append(@, t)]
      /\ UNCHANGED <<session, saved, unload, trouble>>
  BY DEF Say
<1> HIDE DEF m
<1>3. t \in LaneTasks /\ t.kind = "say" /\ t.at = m
  BY <1>1 DEF Task, LaneTasks
<1>4. said' \subseteq Said /\ owed' \subseteq said' /\ saved' \subseteq said' /\ RetTyped
  BY <1>1, <1>2 DEF RetIInv, RetTyped
<1> HIDE DEF t
<1>5. CASE ~session.on
  <2>1. RetTyped'
    BY <1>2, <1>4, <1>5 DEF RetTyped, Told
  <2>2. UNCHANGED <<agent, owed, saved, session, trouble>>
    BY <1>2, <1>5
  <2> QED
    BY <2>1, <2>2 DEF RetIInv, RetClean, Awaits, Kept, Lives, Carried, InHand, CreatesFirst, NoEnd, EndAt
<1>6. CASE session.on /\ ~agent.present
  <2>1. /\ agent' = Adopted(said') /\ agent' \in Agents /\ agent'.seed = said' /\ agent'.seen = {}
        /\ ~agent'.created /\ Len(agent'.lane) = 1 /\ agent'.lane[1].kind = "create"
    BY <1>2, <1>4, <1>6, AdoptedTyped
  <2>4. Told(agent)'
    BY <2>1 DEF Told
  <2>2. RetTyped'
    BY <1>2, <1>4, <2>1, <2>4 DEF RetTyped
  <2>3. RetClean'
    <3>1. /\ agent'.timers = 0 /\ agent'.present /\ agent'.enabled /\ session'.on /\ ~agent'.disposed
          /\ agent'.memo = "none" /\ agent'.drains = <<>> /\ agent'.lane # <<>>
      BY <1>2, <1>6, <2>1 DEF Adopted
    <3>2. NoEnd(agent)' /\ CreatesFirst(agent)'
      BY <2>1 DEF NoEnd, CreatesFirst
    <3>3. Lives(agent)'
      BY <1>4, <2>1, <3>1 DEF Lives, Carried, InHand
    <3> QED
      BY <3>1, <3>2, <3>3 DEF RetClean
  <2> QED
    BY <2>2, <2>3 DEF RetIInv
<1>7. CASE session.on /\ agent.present
  <2>1. agent' = [agent EXCEPT !.lane = Append(agent.lane, t)]
    BY <1>2, <1>7
  <2>2. /\ agent.lane \in Seq(LaneTasks) /\ agent \in Agents
    BY <1>4 DEF RetTyped, Agents
  <2>3. /\ agent'.lane \in Seq(LaneTasks) /\ Len(agent'.lane) = Len(agent.lane) + 1 /\ Len(agent.lane) \in Nat
        /\ agent'.lane[Len(agent.lane) + 1] = t /\ \A i \in 1..Len(agent.lane) : agent'.lane[i] = agent.lane[i]
    BY <1>3, <2>1, <2>2, Appended DEF Agents
  <2>4. agent' \in Agents
    BY <2>1, <2>2, <2>3 DEF Agents
  <2>5. /\ InHand(agent') = InHand(agent) /\ agent'.created = agent.created /\ agent'.seed = agent.seed
        /\ agent'.seen = agent.seen /\ agent'.memo = agent.memo /\ agent'.enabled = agent.enabled
        /\ agent'.known = agent.known /\ agent'.disposed = agent.disposed /\ agent'.drains = agent.drains
        /\ agent'.timers = agent.timers /\ agent'.present = agent.present
    BY <2>1, <2>2 DEF Agents, InHand
  <2>6. Told(agent)'
    <3>1. \A i \in 1..Len(agent'.lane) : i \in 1..Len(agent.lane) \/ i = Len(agent.lane) + 1
      BY <2>3
    <3>2. said \subseteq said' /\ m \in said' /\ Told(agent)
      BY <1>2, <1>4 DEF RetTyped
    <3>3. \A i \in 1..Len(agent'.lane) : agent'.lane[i].kind = "say" => agent'.lane[i].at \in said'
      BY <1>3, <2>3, <3>1, <3>2 DEF Told
    <3>4. agent'.seen \cup agent'.seed \subseteq said'
      BY <2>5, <3>2 DEF Told
    <3> QED
      BY <3>3, <3>4 DEF Told
  <2>7. RetTyped'
    BY <1>2, <1>4, <2>4, <2>6 DEF RetTyped
  <2>8. ASSUME ~trouble PROVE RetClean'
    <3>1. RetClean
      BY <2>8 DEF RetIInv
    <3>2. NoEnd(agent) => NoEnd(agent')
      <4>1. \A i \in 1..Len(agent'.lane) : i \in 1..Len(agent.lane) \/ i = Len(agent.lane) + 1
        BY <2>3
      <4> QED
        BY <1>3, <2>3, <4>1 DEF NoEnd
    <3>3. agent.memo = "none" => Carried(agent, Len(agent.lane))'
      <4> SUFFICES ASSUME agent.memo = "none", NEW x \in owed' \ saved'
                   PROVE  x \in InHand(agent') \/ \E i \in 1..Len(agent'.lane) : agent'.lane[i].kind = "say" /\ agent'.lane[i].at = x
        BY DEF Carried, InHand
      <4>1. CASE x = m
        BY <1>3, <2>3, <4>1
      <4>2. CASE x # m
        <5>1. x \in owed \ saved
          BY <1>2, <4>2
        <5>2. Carried(agent, Len(agent.lane))
          BY <1>7, <3>1 DEF RetClean, Lives
        <5> QED
          BY <2>3, <2>5, <5>1, <5>2 DEF Carried
      <4> QED
        BY <4>1, <4>2
    <3>4. agent.memo = "running" => owed' = owed /\ saved' = saved
      BY <1>2
    <3>5. agent.memo = "running" /\ Awaits(agent) => Awaits(agent)'
      <4> SUFFICES ASSUME agent.memo = "running", Awaits(agent) PROVE Awaits(agent)'
        OBVIOUS
      <4>1. PICK k \in 1..Len(agent.lane) : EndAt(agent, k) /\ Carried(agent, k - 1)
        BY DEF Awaits
      <4>2. k \in 1..Len(agent'.lane) /\ \A i \in 1..k - 1 : agent'.lane[i] = agent.lane[i]
        BY <2>3
      <4>3. EndAt(agent', k)
        <5>1. \A i \in 1..Len(agent'.lane) : i \in 1..Len(agent.lane) \/ (i = Len(agent.lane) + 1 /\ i # k)
          BY <2>3
        <5> QED
          BY <1>3, <2>3, <4>1, <5>1 DEF EndAt
      <4>4. \A x \in owed' \ saved' : x \in InHand(agent') \/ \E i \in 1..k - 1 : agent'.lane[i].kind = "say" /\ agent'.lane[i].at = x
        BY <2>5, <3>4, <4>1, <4>2 DEF Carried
      <4> QED
        BY <2>5, <4>2, <4>3, <4>4 DEF Awaits, Carried, InHand, EndAt
    <3>6. agent.memo = "running" /\ Kept(agent) => Kept(agent)'
      BY <2>5, <3>2, <3>4 DEF Kept, NoEnd
    <3>7. CreatesFirst(agent)'
      <4>1. \A i \in 1..Len(agent'.lane) : i \in 1..Len(agent.lane) \/ i = Len(agent.lane) + 1
        BY <2>3
      <4> QED
        BY <1>3, <2>3, <2>5, <3>1, <4>1 DEF RetClean, CreatesFirst
    <3>8. agent.memo = "none" /\ Lives(agent) => Lives(agent)'
      BY <2>3, <2>5, <3>3 DEF Lives
    <3> QED
      BY <1>2, <1>7, <2>5, <3>1, <3>2, <3>4, <3>5, <3>6, <3>7, <3>8 DEF RetClean, NoEnd
  <2> QED
    BY <1>2, <2>7, <2>8 DEF RetIInv
<1> QED
  BY <1>5, <1>6, <1>7

\* What the lane and the conversation leave alone.
LEMMA CleanStays ==
  ASSUME RetClean, UNCHANGED <<agent, owed, saved>>, session'.on = session.on
  PROVE  RetClean'
BY DEF RetClean, Awaits, Kept, Lives, Carried, InHand, CreatesFirst, NoEnd, EndAt

LEMMA EndTurnKeeps ==
  ASSUME RetIInv, EndTurn
  PROVE  RetIInv'
<1> DEFINE t == Task("idle", 0)
<1>1. /\ agent' = [agent EXCEPT !.lane = Append(agent.lane, t)] /\ agent.present /\ agent.enabled
      /\ UNCHANGED <<session, said, owed, saved, unload, trouble>>
  BY DEF EndTurn
<1>2. t \in LaneTasks /\ t.kind = "idle"
  BY DEF Task, LaneTasks
<1> HIDE DEF t
<1>3. agent \in Agents /\ agent.lane \in Seq(LaneTasks) /\ RetTyped /\ Told(agent)
  BY DEF RetIInv, RetTyped, Agents
<1>4. /\ agent'.lane \in Seq(LaneTasks) /\ Len(agent'.lane) = Len(agent.lane) + 1 /\ Len(agent.lane) \in Nat
      /\ agent'.lane[Len(agent.lane) + 1] = t /\ \A i \in 1..Len(agent.lane) : agent'.lane[i] = agent.lane[i]
  BY <1>1, <1>2, <1>3, Appended DEF Agents
<1>5. /\ agent' \in Agents /\ InHand(agent') = InHand(agent)
      /\ agent'.created = agent.created /\ agent'.seed = agent.seed
      /\ agent'.seen = agent.seen /\ agent'.memo = agent.memo /\ agent'.enabled = agent.enabled
      /\ agent'.known = agent.known /\ agent'.disposed = agent.disposed /\ agent'.drains = agent.drains
      /\ agent'.timers = agent.timers /\ agent'.present = agent.present
  BY <1>1, <1>3, <1>4 DEF Agents, InHand
<1>6. \A i \in 1..Len(agent'.lane) : i \in 1..Len(agent.lane) \/ i = Len(agent.lane) + 1
  BY <1>4
<1>7. RetTyped'
  <2>1. Told(agent)'
    BY <1>1, <1>2, <1>3, <1>4, <1>5, <1>6 DEF Told
  <2> QED
    BY <1>1, <1>3, <1>5, <2>1 DEF RetTyped
<1>8. ASSUME ~trouble PROVE RetClean'
  <2>1. RetClean
    BY <1>8 DEF RetIInv
  <2>2. NoEnd(agent) => NoEnd(agent)'
    BY <1>2, <1>4, <1>6 DEF NoEnd
  <2>3. Carried(agent, Len(agent.lane)) => Carried(agent, Len(agent.lane))'
    BY <1>1, <1>4, <1>5 DEF Carried, InHand
  <2>4. ASSUME Awaits(agent) PROVE Awaits(agent)'
    <3>1. PICK k \in 1..Len(agent.lane) : EndAt(agent, k) /\ Carried(agent, k - 1)
      BY <2>4 DEF Awaits
    <3>2. k \in 1..Len(agent'.lane) /\ \A i \in 1..k - 1 : agent'.lane[i] = agent.lane[i]
      BY <1>4
    <3>3. EndAt(agent', k)
      BY <1>2, <1>4, <1>6, <3>1 DEF EndAt
    <3>4. \A x \in owed' \ saved' :
              x \in InHand(agent') \/ \E i \in 1..k - 1 : agent'.lane[i].kind = "say" /\ agent'.lane[i].at = x
      BY <1>1, <1>5, <3>1, <3>2 DEF Carried
    <3> QED
      BY <1>5, <2>4, <3>2, <3>3, <3>4 DEF Awaits, Carried, InHand, EndAt
  <2>5. Kept(agent) => Kept(agent)'
    BY <1>1, <1>5, <2>2 DEF Kept, NoEnd
  <2>6. CreatesFirst(agent)'
    BY <1>2, <1>4, <1>5, <1>6, <2>1 DEF RetClean, CreatesFirst
  <2>7. Lives(agent) => Lives(agent)'
    BY <1>4, <1>5, <2>3 DEF Lives
  <2> QED
    BY <1>1, <1>5, <2>1, <2>2, <2>4, <2>5, <2>6, <2>7 DEF RetClean, NoEnd
<1> QED
  BY <1>1, <1>7, <1>8 DEF RetIInv

LEMMA SwitchOffKeeps ==
  ASSUME RetIInv, SwitchOff
  PROVE  RetIInv'
<1>1. /\ agent' = [agent EXCEPT !.enabled = FALSE, !.lease = FALSE] /\ agent.present /\ agent.enabled /\ agent.memo = "none"
      /\ session' = [session EXCEPT !.on = FALSE] /\ owed' = owed \cap saved
      /\ UNCHANGED <<said, saved, unload, trouble>>
  BY DEF SwitchOff
<1>2. RetTyped /\ agent \in Agents
  BY DEF RetIInv, RetTyped
<1>3. /\ agent' \in Agents /\ ~agent'.enabled /\ agent'.lane = agent.lane /\ agent'.seen = agent.seen
      /\ agent'.created = agent.created /\ agent'.seed = agent.seed
      /\ agent'.memo = "none" /\ agent'.timers = agent.timers /\ agent'.present /\ agent'.drains = agent.drains
  BY <1>1, <1>2 DEF Agents
<1>4. session' \in [open : BOOLEAN, on : BOOLEAN, closes : 0..MaxCloses] /\ ~session'.on
  BY <1>1, <1>2 DEF RetTyped
<1>5. RetTyped'
  BY <1>1, <1>2, <1>3, <1>4 DEF RetTyped, Told
<1>6. ASSUME ~trouble PROVE RetClean'
  <2>1. RetClean
    BY <1>6 DEF RetIInv
  <2> QED
    BY <1>1, <1>3, <1>4, <2>1 DEF RetClean, NoEnd, CreatesFirst
<1> QED
  BY <1>1, <1>5, <1>6 DEF RetIInv

LEMMA TouchLeaseKeeps ==
  ASSUME RetIInv, TouchLease
  PROVE  RetIInv'
<1>1. agent' = [agent EXCEPT !.lease = TRUE] /\ agent.present /\ UNCHANGED <<session, said, owed, saved, unload, trouble>>
  BY DEF TouchLease
<1>2. RetTyped /\ agent \in Agents
  BY DEF RetIInv, RetTyped
<1>3. /\ agent' \in Agents /\ agent'.lane = agent.lane /\ agent'.seen = agent.seen /\ agent'.enabled = agent.enabled
      /\ agent'.created = agent.created /\ agent'.seed = agent.seed
      /\ agent'.known = agent.known /\ agent'.disposed = agent.disposed
      /\ agent'.memo = agent.memo /\ agent'.timers = agent.timers /\ agent'.present /\ agent'.drains = agent.drains
  BY <1>1, <1>2 DEF Agents
<1>4. RetTyped'
  BY <1>1, <1>2, <1>3 DEF RetTyped, Told
<1>5. ASSUME ~trouble PROVE RetClean'
  <2>1. RetClean
    BY <1>5 DEF RetIInv
  <2> QED
    BY <1>1, <1>3, <2>1 DEF RetClean, Awaits, Kept, Lives, Carried, InHand, CreatesFirst, NoEnd, EndAt
<1> QED
  BY <1>1, <1>4, <1>5 DEF RetIInv

\* The first call to retire: behind the lane when memory is on and the session
\* was created.
LEMMA RetiredClean ==
  ASSUME RetTyped, RetClean, Retires(agent), UNCHANGED <<said, saved>>, session'.on = session.on
  PROVE  RetClean'
<1>1. agent \in Agents /\ agent.lane \in Seq(LaneTasks)
  BY DEF RetTyped, Agents
<1>2. CASE agent.memo # "none" \/ ~agent.present
  <2>1. agent' = agent /\ ~TooEarly(agent)
    BY <1>2, GoneTyped DEF Retires, RetiredBy, TooEarly, RetClean
  <2> QED
    BY <2>1, CleanStays DEF Retires
<1>3. CASE agent.memo = "none" /\ agent.present /\ (~agent.enabled \/ ~agent.created)
  <2>1. agent' = [agent EXCEPT !.enabled = FALSE, !.disposed = TRUE, !.memo = "off"]
    BY <1>3 DEF Retires, RetiredBy
  <2>3. owed' \subseteq saved'
    BY <1>3 DEF Retires, TooEarly, RetClean
  <2>2. /\ agent'.created = agent.created /\ ~agent'.enabled /\ agent'.memo = "off" /\ agent'.lane = agent.lane /\ agent'.drains = agent.drains
        /\ agent'.timers = agent.timers /\ agent'.present
    BY <1>1, <1>3, <2>1 DEF Agents
  <2> QED
    BY <1>3, <2>2, <2>3 DEF RetClean, NoEnd, CreatesFirst
<1>4. CASE agent.memo = "none" /\ agent.present /\ agent.enabled /\ agent.created
  <2> DEFINE t == Task("end", 0)
  <2>1. agent' = [agent EXCEPT !.memo = "running", !.lane = Append(agent.lane, t), !.drains = Append(agent.drains, "pending")]
    BY <1>4 DEF Retires, RetiredBy
  <2>0. owed' = owed
    BY <1>4 DEF Retires, TooEarly
  <2>2. t \in LaneTasks /\ t.kind = "end"
    BY DEF Task, LaneTasks
  <2> HIDE DEF t
  <2>3. agent.drains = <<>> /\ NoEnd(agent) /\ agent.known /\ ~agent.disposed /\ Carried(agent, Len(agent.lane))
    BY <1>4 DEF RetClean, Lives
  <2>4. /\ agent'.lane = Append(agent.lane, t) /\ agent'.drains = <<"pending">> /\ agent'.memo = "running"
        /\ agent'.enabled /\ agent'.present /\ agent'.known /\ ~agent'.disposed /\ agent'.seen = agent.seen
        /\ agent'.created
        /\ agent'.timers = agent.timers
    BY <1>1, <1>4, <2>1, <2>3 DEF Agents
  <2>5. /\ Len(agent'.lane) = Len(agent.lane) + 1 /\ Len(agent.lane) \in Nat
        /\ agent'.lane[Len(agent.lane) + 1] = t /\ \A i \in 1..Len(agent.lane) : agent'.lane[i] = agent.lane[i]
    BY <1>1, <2>2, <2>4, Appended
  <2>6. \A i \in 1..Len(agent'.lane) : i \in 1..Len(agent.lane) \/ i = Len(agent.lane) + 1
    BY <2>5
  <2>7. PICK k \in 1..Len(agent'.lane) : k = Len(agent.lane) + 1
    BY <2>5
  <2>8. EndAt(agent', k)
    BY <2>2, <2>3, <2>5, <2>6, <2>7 DEF EndAt, NoEnd
  <2>9. \A x \in owed' \ saved' : x \in InHand(agent') \/ \E i \in 1..k - 1 : agent'.lane[i].kind = "say" /\ agent'.lane[i].at = x
    BY <1>4, <2>0, <2>3, <2>4, <2>5, <2>7 DEF Carried, InHand
  <2>10. Awaits(agent)'
    BY <2>4, <2>8, <2>9 DEF Awaits, Carried, InHand, EndAt
  <2>11. CreatesFirst(agent)'
    BY <1>4, <2>2, <2>4, <2>5, <2>6 DEF RetClean, CreatesFirst
  <2> QED
    BY <1>4, <2>0, <2>4, <2>10, <2>11 DEF RetClean
<1> QED
  BY <1>2, <1>3, <1>4

LEMMA CloseKeeps ==
  ASSUME RetIInv, Close \/ Unload
  PROVE  RetIInv'
<1>1. /\ session'.on = session.on /\ session' \in [open : BOOLEAN, on : BOOLEAN, closes : 0..MaxCloses]
      /\ Retires(agent) /\ UNCHANGED <<said, saved, trouble>>
      /\ unload' \in {"no", "first", "again"}
  <2>1. session \in [open : BOOLEAN, on : BOOLEAN, closes : 0..MaxCloses] /\ unload \in {"no", "first", "again"}
    BY DEF RetIInv, RetTyped
  <2>2. CASE Close
    <3>1. session.closes + 1 \in 0..MaxCloses
      BY <2>1, <2>2, RetBounds DEF Close
    <3>2. /\ session' = [session EXCEPT !.open = FALSE, !.closes = session.closes + 1] /\ Retires(agent)
          /\ UNCHANGED <<said, saved, unload, trouble>>
      BY <2>2 DEF Close
    <3> QED
      BY <2>1, <3>1, <3>2
  <2>3. CASE Unload
    <3>1. /\ session' = [session EXCEPT !.open = FALSE, !.closes = MaxCloses] /\ Retires(agent)
          /\ unload' = "first" /\ UNCHANGED <<said, saved, trouble>>
      BY <2>3 DEF Unload
    <3>2. MaxCloses \in 0..MaxCloses
      BY RetBounds
    <3>3. session'.on = session.on /\ session' \in [open : BOOLEAN, on : BOOLEAN, closes : 0..MaxCloses]
      BY <2>1, <3>1, <3>2
    <3> QED
      BY <3>1, <3>3
  <2> QED
    BY <2>2, <2>3
<1>2. RetTyped'
  BY <1>1, RetiredTyped DEF Retires, RetIInv, RetTyped, Told
<1>3. ~trouble => RetClean'
  BY <1>1, RetiredClean DEF RetIInv
<1> QED
  BY <1>1, <1>2, <1>3 DEF RetIInv

LEMMA ReopenKeeps ==
  ASSUME RetIInv, Reopen
  PROVE  RetIInv'
<1>1. /\ session'.on = session.on /\ session' \in [open : BOOLEAN, on : BOOLEAN, closes : 0..MaxCloses]
      /\ UNCHANGED <<said, owed, saved, agent, unload, trouble>>
  BY DEF Reopen, RetIInv, RetTyped
<1>2. RetTyped'
  BY <1>1 DEF RetIInv, RetTyped, Told
<1>3. ~trouble => RetClean'
  BY <1>1, CleanStays DEF RetIInv
<1> QED
  BY <1>1, <1>2, <1>3 DEF RetIInv

\* No timer is set before something has failed.
LEMMA RetryFiresKeeps ==
  ASSUME RetIInv, RetryFires
  PROVE  RetIInv'
<1> DEFINE r == [agent EXCEPT !.timers = @ - 1]
<1>1. agent.timers > 0 /\ Retires(r) /\ UNCHANGED <<session, said, saved, unload, trouble>>
  BY DEF RetryFires
<1>2. agent \in Agents /\ Told(agent) /\ RetTyped
  BY DEF RetIInv, RetTyped
<1>3. r \in Agents /\ Told(r)
  <2>1. agent.timers - 1 \in Nat
    BY <1>1, <1>2 DEF Agents
  <2>2. r \in Agents /\ r.lane = agent.lane /\ r.seen = agent.seen /\ r.seed = agent.seed
    BY <1>2, <2>1 DEF Agents
  <2> QED
    BY <1>2, <2>2 DEF Told
<1> HIDE DEF r
<1>4. RetTyped'
  BY <1>1, <1>2, <1>3, RetiredTyped DEF Retires, RetTyped, Told
<1>5. trouble
  BY <1>1, <1>2 DEF RetIInv, RetClean, RetTyped
<1> QED
  BY <1>1, <1>4, <1>5 DEF RetIInv

\* A runtime that leaves, and what is owed is in checkpoints.
LEMMA GoneKeeps ==
  ASSUME RetIInv, agent' = Gone, UNCHANGED <<session, said, owed, saved, unload, trouble>>,
         ~trouble => owed \subseteq saved
  PROVE  RetIInv'
<1>1. RetTyped'
  BY GoneTyped DEF RetIInv, RetTyped, Told
<1>2. ~trouble => RetClean'
  BY GoneTyped DEF RetClean, NoEnd, CreatesFirst
<1> QED
  BY <1>1, <1>2 DEF RetIInv

LEMMA ForgetKeeps ==
  ASSUME RetIInv, Forget
  PROVE  RetIInv'
<1>1. ~trouble => owed \subseteq saved
  BY GoneTyped DEF Forget, RetIInv, RetClean
<1> QED
  BY <1>1, GoneKeeps DEF Forget, Resolved

\* The lane without its first task.
LEMMA Shifted ==
  ASSUME RetTyped, agent.lane # <<>>
  PROVE  /\ Len(Tail(agent.lane)) = Len(agent.lane) - 1 /\ Len(agent.lane) \in Nat \ {0}
         /\ Head(agent.lane) = agent.lane[1]
         /\ \A i \in 1..Len(Tail(agent.lane)) : Tail(agent.lane)[i] = agent.lane[i + 1] /\ i + 1 \in 1..Len(agent.lane)
         /\ \A i \in 1..Len(agent.lane) : i = 1 \/ (i - 1 \in 1..Len(Tail(agent.lane)) /\ Tail(agent.lane)[i - 1] = agent.lane[i])
BY DEF RetTyped, Agents

\* A task that is no checkpoint of a retirement, and loses nothing that is owed.
LEMMA LaneKeepsClean ==
  ASSUME RetTyped, RetClean, agent.lane # <<>>, Head(agent.lane).kind # "end",
         agent'.lane = Tail(agent.lane), agent'.drains = agent.drains, agent'.memo = agent.memo,
         agent'.enabled = agent.enabled, agent'.present = agent.present, agent'.known = agent.known,
         agent'.disposed = agent.disposed, agent'.timers = agent.timers,
         UNCHANGED <<session, owed>>, saved \subseteq saved',
         agent'.created = agent.created, agent'.seed = agent.seed, Head(agent.lane).kind # "create",
         agent.seen \subseteq agent'.seen \cup saved',
         Listening /\ Head(agent.lane).kind = "say" => Head(agent.lane).at \in agent'.seen
  PROVE  RetClean'
<1>1. /\ Len(agent'.lane) = Len(agent.lane) - 1 /\ Len(agent.lane) \in Nat \ {0}
      /\ Head(agent.lane) = agent.lane[1]
      /\ \A i \in 1..Len(agent'.lane) : agent'.lane[i] = agent.lane[i + 1] /\ i + 1 \in 1..Len(agent.lane)
      /\ \A i \in 1..Len(agent.lane) : i = 1 \/ (i - 1 \in 1..Len(agent'.lane) /\ agent'.lane[i - 1] = agent.lane[i])
  BY Shifted
<1>2. agent.present
  BY GoneTyped DEF RetClean
<1>3. NoEnd(agent) => NoEnd(agent)'
  BY <1>1 DEF NoEnd
<1>8. CreatesFirst(agent)'
  BY <1>1 DEF RetClean, CreatesFirst
<1>4. ASSUME Listening, agent.created, NEW k \in 0..Len(agent.lane), Carried(agent, k), NEW x \in owed' \ saved'
      PROVE  x \in InHand(agent') \/ \E i \in 1..k - 1 : agent'.lane[i].kind = "say" /\ agent'.lane[i].at = x
  <2>1. x \in agent.seen \/ \E i \in 1..k : agent.lane[i].kind = "say" /\ agent.lane[i].at = x
    BY <1>4 DEF Carried, InHand
  <2>2. CASE x \in agent.seen
    BY <1>4, <2>2 DEF InHand
  <2>3. ASSUME NEW i \in 1..k, agent.lane[i].kind = "say", agent.lane[i].at = x
        PROVE  x \in InHand(agent') \/ \E j \in 1..k - 1 : agent'.lane[j].kind = "say" /\ agent'.lane[j].at = x
    <3>1. CASE i = 1
      BY <1>1, <1>4, <2>3, <3>1 DEF InHand
    <3>2. CASE i # 1
      <4>1. i - 1 \in 1..k - 1 /\ agent'.lane[i - 1] = agent.lane[i]
        BY <1>1, <3>2
      <4> QED
        BY <2>3, <4>1
    <3> QED
      BY <3>1, <3>2
  <2> QED
    BY <2>1, <2>2, <2>3
<1>5. ASSUME agent.memo = "none", agent.enabled
      PROVE  Lives(agent)'
  <2>1. Listening /\ Carried(agent, Len(agent.lane)) /\ agent.created
    BY <1>1, <1>5 DEF RetClean, Lives, Listening
  <2>2. Len(agent.lane) \in 0..Len(agent.lane) /\ Len(agent'.lane) = Len(agent.lane) - 1
    BY <1>1
  <2> QED
    BY <1>4, <1>5, <2>1, <2>2 DEF RetClean, Lives, Carried, InHand
<1>6. ASSUME agent.memo = "running", Awaits(agent)
      PROVE  Awaits(agent)'
  <2>1. Listening /\ agent.created
    BY <1>6 DEF RetClean, Awaits, Listening
  <2>2. PICK k \in 1..Len(agent.lane) : EndAt(agent, k) /\ Carried(agent, k - 1)
    BY <1>6 DEF Awaits
  <2>3. k # 1
    BY <1>1, <2>2 DEF EndAt
  <2>4. PICK n \in 1..Len(agent'.lane) : n = k - 1
    BY <1>1, <2>3
  <2>5. EndAt(agent', n)
    BY <1>1, <2>2, <2>4 DEF EndAt
  <2>6. \A x \in owed' \ saved' : x \in InHand(agent') \/ \E i \in 1..n - 1 : agent'.lane[i].kind = "say" /\ agent'.lane[i].at = x
    <3>1. n \in 0..Len(agent.lane) /\ Carried(agent, n)
      BY <1>1, <2>2, <2>4
    <3> QED
      BY <1>4, <2>1, <3>1
  <2> QED
    BY <1>6, <2>5, <2>6 DEF Awaits, Carried, InHand, EndAt
<1>7. Kept(agent) => Kept(agent)'
  BY <1>3 DEF Kept, NoEnd
<1> QED
  BY <1>2, <1>3, <1>5, <1>6, <1>7, <1>8 DEF RetClean, NoEnd

\* The first task replays the log: what is owed is with the adapter.
LEMMA CreateKeeps ==
  ASSUME RetIInv, Create
  PROVE  RetIInv'
<1> DEFINE made == [Popped(agent) EXCEPT !.created = TRUE, !.known = TRUE, !.seen = agent.seed]
<1>1. /\ agent.lane # <<>> /\ Head(agent.lane).kind = "create"
      /\ agent' = IF agent.enabled THEN made ELSE Popped(agent)
      /\ owed' = IF agent.enabled THEN owed \cup agent.seed ELSE owed
      /\ UNCHANGED <<session, said, saved, unload, trouble>>
  BY DEF Create, First
<1>2. agent \in Agents /\ Told(agent) /\ RetTyped
  BY DEF RetIInv, RetTyped
<1>3. /\ Popped(agent) \in Agents /\ Told(Popped(agent)) /\ Popped(agent).lane = Tail(agent.lane)
  BY <1>1, <1>2, PoppedTyped
<1>4. /\ Popped(agent).drains = agent.drains /\ Popped(agent).memo = agent.memo
      /\ Popped(agent).seen = agent.seen /\ Popped(agent).seed = agent.seed
      /\ Popped(agent).enabled = agent.enabled /\ Popped(agent).present = agent.present
      /\ Popped(agent).disposed = agent.disposed /\ Popped(agent).timers = agent.timers
      /\ Popped(agent).created = agent.created
  BY <1>2 DEF Popped, Agents
<1>5. /\ made \in Agents /\ made.lane = Tail(agent.lane) /\ made.seen = agent.seed /\ made.seed = agent.seed
      /\ made.created /\ made.known /\ made.drains = agent.drains /\ made.memo = agent.memo
      /\ made.enabled = agent.enabled /\ made.present = agent.present /\ made.disposed = agent.disposed
      /\ made.timers = agent.timers
  BY <1>2, <1>3, <1>4 DEF Agents
<1>6. Told(made)
  BY <1>2, <1>3, <1>4, <1>5 DEF Told
<1> HIDE DEF made
<1>7. RetTyped'
  <2>1. agent' \in Agents /\ Told(agent')
    BY <1>1, <1>3, <1>5, <1>6
  <2> QED
    BY <1>1, <1>2, <2>1 DEF RetTyped, Told
<1>8. ASSUME ~trouble PROVE RetClean'
  <2>1. RetClean
    BY <1>8 DEF RetIInv
  <2>2. /\ Len(Tail(agent.lane)) = Len(agent.lane) - 1 /\ Len(agent.lane) \in Nat \ {0}
        /\ agent.lane[1].kind = "create"
        /\ \A i \in 1..Len(Tail(agent.lane)) : Tail(agent.lane)[i] = agent.lane[i + 1] /\ i + 1 \in 1..Len(agent.lane)
        /\ \A i \in 1..Len(agent.lane) : i = 1 \/ (i - 1 \in 1..Len(Tail(agent.lane)) /\ Tail(agent.lane)[i - 1] = agent.lane[i])
    BY <1>1, <1>2, Shifted
  <2>3. agent'.lane = Tail(agent.lane) /\ ~agent.created /\ agent.present
    BY <1>1, <1>3, <1>5, <2>1, <2>2, GoneTyped DEF RetClean, CreatesFirst
  <2>4. CreatesFirst(agent)'
    <3>1. \A i \in 1..Len(agent'.lane) : agent'.lane[i].kind # "create"
      BY <2>1, <2>2, <2>3 DEF RetClean, CreatesFirst
    <3> QED
      BY <3>1 DEF CreatesFirst
  <2>5. NoEnd(agent) => NoEnd(agent)'
    BY <2>2, <2>3 DEF NoEnd
  <2>6. CASE ~agent.enabled
    <3>1. agent' = Popped(agent) /\ owed' = owed /\ agent.memo # "running"
      BY <1>1, <2>1, <2>6 DEF RetClean
    <3> QED
      BY <1>1, <1>4, <2>1, <2>3, <2>4, <2>5, <2>6, <3>1 DEF RetClean, NoEnd
  <2>7. CASE agent.enabled
    <3>1. agent' = made /\ owed' = owed \cup agent.seed /\ agent.memo = "none"
      BY <1>1, <1>2, <2>1, <2>3, <2>7 DEF RetClean, Awaits, Kept, Agents
    <3>2. Lives(agent) /\ session.on
      BY <2>1, <2>3, <2>7, <3>1 DEF RetClean
    <3>3. ASSUME NEW x \in owed' \ saved'
          PROVE  x \in InHand(agent') \/ \E i \in 1..Len(agent'.lane) : agent'.lane[i].kind = "say" /\ agent'.lane[i].at = x
      <4>1. CASE x \in agent.seed
        BY <1>5, <3>1, <4>1 DEF InHand
      <4>2. CASE x \notin agent.seed
        <5>1. PICK i \in 1..Len(agent.lane) : agent.lane[i].kind = "say" /\ agent.lane[i].at = x
          BY <1>1, <2>3, <3>1, <3>2, <3>3, <4>2 DEF Lives, Carried, InHand
        <5>2. i # 1
          BY <2>2, <5>1
        <5> QED
          BY <2>2, <2>3, <5>1, <5>2
      <4> QED
        BY <4>1, <4>2
    <3>4. Lives(agent)'
      BY <1>5, <3>1, <3>2, <3>3 DEF Lives, Carried, InHand
    <3> QED
      BY <1>1, <1>5, <2>1, <2>3, <2>4, <2>5, <2>7, <3>1, <3>2, <3>4 DEF RetClean, NoEnd
  <2> QED
    BY <2>6, <2>7
<1> QED
  BY <1>1, <1>7, <1>8 DEF RetIInv

LEMMA CreateFailsKeeps ==
  ASSUME RetIInv, CreateFails
  PROVE  RetIInv'
<1>1. PICK known \in BOOLEAN :
        /\ agent.lane # <<>> /\ agent' = [Popped(agent) EXCEPT !.known = known] /\ trouble' = TRUE
        /\ UNCHANGED <<session, said, owed, saved, unload>>
  BY DEF CreateFails, First
<1>2. Popped(agent) \in Agents /\ Told(Popped(agent))
  BY <1>1, PoppedTyped DEF RetIInv, RetTyped
<1>3. /\ agent' \in Agents /\ agent'.lane = Popped(agent).lane /\ agent'.seen = Popped(agent).seen
      /\ agent'.seed = Popped(agent).seed
  BY <1>1, <1>2 DEF Agents
<1> QED
  BY <1>1, <1>2, <1>3 DEF RetIInv, RetTyped, Told

LEMMA SeeMessageKeeps ==
  ASSUME RetIInv, SeeMessage
  PROVE  RetIInv'
<1>1. /\ agent.lane # <<>> /\ Head(agent.lane).kind = "say"
      /\ agent' = [Popped(agent) EXCEPT !.seen = IF Listening THEN @ \cup {Head(agent.lane).at} ELSE @]
      /\ UNCHANGED <<session, said, owed, saved, unload, trouble>>
  BY DEF SeeMessage, First
<1>2. agent \in Agents /\ Told(agent) /\ RetTyped
  BY DEF RetIInv, RetTyped
<1>3. /\ Popped(agent) \in Agents /\ Told(Popped(agent)) /\ Popped(agent).lane = Tail(agent.lane)
      /\ Head(agent.lane) \in LaneTasks /\ Head(agent.lane) = agent.lane[1]
  BY <1>1, <1>2, PoppedTyped
<1>4. Head(agent.lane).at \in said /\ said \subseteq Said
  BY <1>1, <1>2, <1>3, Shifted DEF Told, RetTyped
<1> DEFINE seen == IF Listening THEN agent.seen \cup {Head(agent.lane).at} ELSE agent.seen
<1>5. seen \subseteq said /\ agent.seen \subseteq seen /\ (Listening => Head(agent.lane).at \in seen)
  BY <1>2, <1>4 DEF Told
<1>6. Popped(agent).seen = agent.seen /\ Popped(agent).seed = agent.seed
  BY <1>2 DEF Popped, Agents
<1>7. agent' = [Popped(agent) EXCEPT !.seen = seen]
  BY <1>1, <1>6
<1> HIDE DEF seen
<1>8. /\ agent' \in Agents /\ agent'.seen = seen /\ agent'.lane = Tail(agent.lane) /\ agent'.seed = agent.seed
  BY <1>3, <1>4, <1>5, <1>6, <1>7 DEF Agents
<1>9. RetTyped'
  <2>1. said' = said /\ agent'.lane = Popped(agent).lane
    BY <1>1, <1>3, <1>8
  <2>2. Told(agent)'
    BY <1>2, <1>3, <1>5, <1>8, <2>1 DEF Told
  <2> QED
    BY <1>1, <1>2, <1>8, <2>2 DEF RetTyped
<1>10. ~trouble => RetClean'
  <2>1. /\ agent'.drains = agent.drains /\ agent'.memo = agent.memo /\ agent'.created = agent.created
        /\ agent'.enabled = agent.enabled /\ agent'.present = agent.present /\ agent'.known = agent.known
        /\ agent'.disposed = agent.disposed /\ agent'.timers = agent.timers
    BY <1>2, <1>7 DEF Popped, Agents
  <2>2. agent.seen \subseteq agent'.seen \cup saved' /\ (Listening => Head(agent.lane).at \in agent'.seen)
    BY <1>5, <1>8
  <2> QED
    BY <1>1, <1>2, <1>8, <2>1, <2>2, LaneKeepsClean DEF RetIInv
<1> QED
  BY <1>1, <1>9, <1>10 DEF RetIInv

LEMMA CheckpointKeeps ==
  ASSUME RetIInv, Checkpoint
  PROVE  RetIInv'
<1>1. /\ agent.lane # <<>> /\ Head(agent.lane).kind = "idle"
      /\ agent' = Popped(agent) /\ saved' = IF Listening THEN saved \cup agent.seen ELSE saved
      /\ UNCHANGED <<session, said, owed, unload, trouble>>
  BY DEF Checkpoint, First
<1>2. agent \in Agents /\ Told(agent) /\ RetTyped
  BY DEF RetIInv, RetTyped
<1>3. /\ agent' \in Agents /\ Told(agent') /\ agent'.lane = Tail(agent.lane)
  BY <1>1, <1>2, PoppedTyped
<1>4. saved' \subseteq said /\ saved \subseteq saved'
  BY <1>1, <1>2 DEF Told, RetTyped
<1>5. RetTyped'
  BY <1>1, <1>2, <1>3, <1>4 DEF RetTyped, Told
<1>6. ~trouble => RetClean'
  <2>1. /\ agent'.drains = agent.drains /\ agent'.memo = agent.memo /\ agent'.seen = agent.seen
        /\ agent'.created = agent.created /\ agent'.seed = agent.seed
        /\ agent'.enabled = agent.enabled /\ agent'.present = agent.present /\ agent'.known = agent.known
        /\ agent'.disposed = agent.disposed /\ agent'.timers = agent.timers
    BY <1>1, <1>2 DEF Popped, Agents
  <2> QED
    BY <1>1, <1>2, <1>3, <1>4, <2>1, LaneKeepsClean DEF RetIInv
<1> QED
  BY <1>1, <1>5, <1>6 DEF RetIInv

LEMMA CheckpointFailsKeeps ==
  ASSUME RetIInv, CheckpointFails
  PROVE  RetIInv'
<1>1. /\ agent.lane # <<>> /\ agent' = Popped(agent) /\ trouble' = TRUE
      /\ UNCHANGED <<session, said, owed, saved, unload>>
  BY DEF CheckpointFails, First
<1>2. agent' \in Agents /\ Told(agent')
  BY <1>1, PoppedTyped DEF RetIInv, RetTyped
<1> QED
  BY <1>1, <1>2 DEF RetIInv, RetTyped, Told

\* With one drain there is one to wait for.
LEMMA OneWaits ==
  ASSUME agent.drains = <<"pending">>
  PROVE  Waiting(agent) = 1
BY DEF Waiting

LEMMA EndSessionKeeps ==
  ASSUME RetIInv, EndSession
  PROVE  RetIInv'
<1> DEFINE ok == Settles(agent, "ok")
<1>1. /\ agent.lane # <<>> /\ Head(agent.lane).kind = "end"
      /\ agent' = IF Listening THEN [ok EXCEPT !.known = FALSE, !.seen = {}, !.lease = FALSE] ELSE ok
      /\ saved' = IF Listening THEN saved \cup agent.seen ELSE saved
      /\ UNCHANGED <<session, said, owed, unload, trouble>>
  BY DEF EndSession, First
<1>2. agent \in Agents /\ Told(agent) /\ RetTyped
  BY DEF RetIInv, RetTyped
<1>3. /\ ok \in Agents /\ Told(ok) /\ "ok" \in Outcome
      /\ ok = [Popped(agent) EXCEPT !.drains = [agent.drains EXCEPT ![Waiting(agent)] = "ok"]]
  BY <1>1, <1>2, SettlesTyped DEF Outcome
<1>4. /\ Popped(agent) \in Agents /\ Popped(agent).lane = Tail(agent.lane) /\ Popped(agent).enabled = agent.enabled
      /\ Popped(agent).created = agent.created
      /\ Popped(agent).memo = agent.memo /\ Popped(agent).present = agent.present /\ Popped(agent).timers = agent.timers
  BY <1>1, <1>2, PoppedTyped DEF Popped, Agents
<1>5. /\ ok.lane = Tail(agent.lane) /\ ok.drains = [agent.drains EXCEPT ![Waiting(agent)] = "ok"]
      /\ ok.created = agent.created /\ ok.enabled = agent.enabled /\ ok.memo = agent.memo /\ ok.present = agent.present /\ ok.timers = agent.timers
  BY <1>3, <1>4 DEF Agents
<1> HIDE DEF ok
<1>6. /\ agent' \in Agents /\ Told(agent') /\ agent'.lane = ok.lane /\ agent'.drains = ok.drains
      /\ agent'.enabled = ok.enabled /\ agent'.memo = ok.memo /\ agent'.present = ok.present /\ agent'.timers = ok.timers
      /\ agent'.created = ok.created
  <2>1. CASE Listening
    <3>1. agent' = [ok EXCEPT !.known = FALSE, !.seen = {}, !.lease = FALSE]
      BY <1>1, <2>1
    <3>2. /\ agent' \in Agents /\ agent'.lane = ok.lane /\ agent'.drains = ok.drains /\ agent'.seen = {}
          /\ agent'.created = ok.created /\ agent'.seed = ok.seed /\ agent'.enabled = ok.enabled /\ agent'.memo = ok.memo /\ agent'.present = ok.present
          /\ agent'.timers = ok.timers
      BY <1>3, <3>1 DEF Agents
    <3> QED
      BY <1>3, <3>2 DEF Told
  <2>2. CASE ~Listening
    BY <1>1, <1>3, <2>2
  <2> QED
    BY <2>1, <2>2
<1>7. saved' \subseteq said /\ saved \subseteq saved'
  BY <1>1, <1>2 DEF Told, RetTyped
<1>8. RetTyped'
  BY <1>1, <1>2, <1>6, <1>7 DEF RetTyped, Told
<1>9. ASSUME ~trouble PROVE RetClean'
  <2>1. RetClean
    BY <1>9 DEF RetIInv
  <2>2. /\ Len(agent'.lane) = Len(agent.lane) - 1 /\ Len(agent.lane) \in Nat \ {0}
        /\ Head(agent.lane) = agent.lane[1]
        /\ \A i \in 1..Len(agent'.lane) : agent'.lane[i] = agent.lane[i + 1] /\ i + 1 \in 1..Len(agent.lane)
    BY <1>1, <1>2, <1>5, <1>6, Shifted
  <2>3. ~NoEnd(agent)
    BY <1>1, <2>2 DEF NoEnd
  <2>4. agent.memo = "running" /\ agent.enabled /\ Awaits(agent) /\ agent.present
    BY <2>1, <2>3, GoneTyped DEF RetClean, Kept
  <2>5. Listening
    BY <2>4 DEF Awaits, Listening
  <2>6. PICK k \in 1..Len(agent.lane) : EndAt(agent, k) /\ Carried(agent, k - 1)
    BY <2>4 DEF Awaits
  <2>7. k = 1
    BY <1>1, <2>2, <2>6 DEF EndAt
  <2>8. owed \subseteq saved'
    BY <1>1, <2>4, <2>5, <2>6, <2>7 DEF Carried, InHand, Awaits
  <2>9. NoEnd(agent)'
    BY <2>2, <2>6, <2>7 DEF EndAt, NoEnd
  <2>10. agent'.drains = <<"ok">>
    BY <1>5, <1>6, <2>4, OneWaits DEF Awaits
  <2>11. CreatesFirst(agent)' /\ agent'.created
    BY <1>5, <1>6, <2>1, <2>2, <2>4 DEF RetClean, CreatesFirst, Awaits
  <2> QED
    BY <1>1, <1>5, <1>6, <2>1, <2>4, <2>8, <2>9, <2>10, <2>11 DEF RetClean, Kept, NoEnd
<1> QED
  BY <1>1, <1>8, <1>9 DEF RetIInv

LEMMA EndSessionFailsKeeps ==
  ASSUME RetIInv, EndSessionFails
  PROVE  RetIInv'
<1>1. /\ agent.lane # <<>> /\ saved' \in {saved, saved \cup agent.seen}
      /\ agent' = Rejected(Settles(agent, "failed")) /\ unload' \in {"no", "first", "again"}
      /\ trouble' = TRUE /\ UNCHANGED <<session, said, owed>>
  BY DEF EndSessionFails, First, AfterFailure, RetIInv, RetTyped
<1>2. Settles(agent, "failed") \in Agents /\ Told(Settles(agent, "failed"))
  BY <1>1, SettlesTyped DEF RetIInv, RetTyped, Outcome
<1>3. agent' \in Agents /\ Told(agent')
  BY <1>1, <1>2, RejectedTyped
<1>4. saved' \subseteq said
  BY <1>1 DEF RetIInv, RetTyped, Told
<1> QED
  BY <1>1, <1>3, <1>4 DEF RetIInv, RetTyped, Told

\* A drain that finds its checkpoint made lets the runtime go.
LEMMA DrainLaneKeeps ==
  ASSUME RetIInv, DrainLane
  PROVE  RetIInv'
<1>1. /\ agent.drains # <<>> /\ Head(agent.drains) # "pending"
      /\ agent' = IF Head(agent.drains) = "failed" THEN Drained(agent) ELSE Resolved(agent)
      /\ UNCHANGED <<session, said, owed, saved, unload, trouble>>
  BY DEF DrainLane, MayDrain
<1>2. ~trouble => owed \subseteq saved /\ Head(agent.drains) = "ok"
  BY <1>1 DEF RetIInv, RetClean, Awaits, Kept
<1>3. CASE Head(agent.drains) = "failed"
  <2>1. Drained(agent) \in Agents /\ Told(Drained(agent)) /\ trouble
    BY <1>1, <1>2, <1>3, DrainedTyped DEF RetIInv, RetTyped
  <2> QED
    BY <1>1, <1>3, <2>1 DEF RetIInv, RetTyped, Told
<1>4. CASE Head(agent.drains) # "failed"
  BY <1>1, <1>2, <1>4, GoneKeeps DEF Resolved
<1> QED
  BY <1>3, <1>4

LEMMA DrainFailsKeeps ==
  ASSUME RetIInv, DrainFails
  PROVE  RetIInv'
<1>1. /\ agent.drains # <<>> /\ agent' \in {Rejected(Drained(agent)), Drained(agent)}
      /\ unload' \in {"no", "first", "again"} /\ trouble' = TRUE /\ UNCHANGED <<session, said, owed, saved>>
  BY DEF DrainFails, MayDrain, AfterFailure, RetIInv, RetTyped
<1>2. Drained(agent) \in Agents /\ Told(Drained(agent))
  BY <1>1, DrainedTyped DEF RetIInv, RetTyped
<1>3. agent' \in Agents /\ Told(agent')
  BY <1>1, <1>2, RejectedTyped
<1> QED
  BY <1>1, <1>3 DEF RetIInv, RetTyped, Told

LEMMA RetNextKeeps ==
  ASSUME RetIInv, [RetNext]_retVars
  PROVE  RetIInv'
<1>1. CASE UNCHANGED retVars
  <2>1. RetTyped'
    BY <1>1 DEF RetIInv, RetTyped, Told, retVars
  <2>2. ~trouble => RetClean'
    BY <1>1, CleanStays DEF RetIInv, retVars
  <2> QED
    BY <1>1, <2>1, <2>2 DEF RetIInv, retVars
<1>2. CASE Say \/ EndTurn \/ SwitchOff \/ TouchLease
  BY <1>2, SayKeeps, EndTurnKeeps, SwitchOffKeeps, TouchLeaseKeeps
<1>3. CASE Close \/ Reopen \/ Unload \/ RetryFires \/ Forget
  BY <1>3, CloseKeeps, ReopenKeeps, RetryFiresKeeps, ForgetKeeps
<1>4. CASE LaneTask \/ DrainTask
  BY <1>4, CreateKeeps, CreateFailsKeeps, SeeMessageKeeps, CheckpointKeeps, CheckpointFailsKeeps, EndSessionKeeps, EndSessionFailsKeeps,
     DrainLaneKeeps, DrainFailsKeeps DEF LaneTask, DrainTask
<1> QED
  BY <1>1, <1>2, <1>3, <1>4 DEF RetNext

\* Always true of a session's end.
THEOREM RetInvariant == RetSpec => []RetIInv
BY RetInitClean, RetNextKeeps, PTL DEF RetSpec

(***************************************************************************)
(* Type correctness of a session's end: nothing is owed, saved or seen     *)
(* that was not said.                                                      *)
(***************************************************************************)
THEOREM RetTypeCorrect == RetSpec => []RetTypeOK
<1>1. RetIInv => RetTypeOK
  <2> SUFFICES ASSUME RetIInv PROVE RetTypeOK
    OBVIOUS
  <2>1. /\ agent.lane \in Seq(LaneTasks) /\ agent.drains \in Seq(Outcome) /\ agent.attempts \in 0..RetireMax
        /\ agent.memo \in {"none", "off", "running"} /\ agent.seen \cup agent.seed \subseteq said
    BY DEF RetIInv, RetTyped, Told, Agents
  <2>2. /\ \A i \in DOMAIN agent.lane : agent.lane[i] \in LaneTasks
        /\ \A i \in DOMAIN agent.drains : agent.drains[i] \in Outcome
    BY <2>1
  <2> QED
    BY <2>1, <2>2 DEF RetIInv, RetTyped, RetTypeOK, LaneTasks
<1> QED
  BY <1>1, RetInvariant, PTL

(***************************************************************************)
(* While no task fails, a session that has left the map has in checkpoints *)
(* all it was told while memory was on and it was not already retiring.    *)
(***************************************************************************)
THEOREM CleanEndHolds == RetSpec => []CleanEndKeepsAll
<1>1. RetIInv => CleanEndKeepsAll
  BY DEF RetIInv, RetClean, CleanEndKeepsAll
<1> QED
  BY <1>1, RetInvariant, PTL

----------------------------------------------------------------------------
(***************************************************************************)
(* AutoSchedule, for any numbers of processes, runs and notes. The runs    *)
(* that have passed the gate are counted with those that have ended in the *)
(* hour: together they are no more than the hour and its notes let in, and *)
(* while the gate is open a round is still to come (Counted).              *)
(***************************************************************************)

\* What the type invariant leaves unsaid.
SchedShape ==
    /\ usable \in BOOLEAN /\ work \in BOOLEAN
    /\ home \in [Runs -> Processes]
    /\ entry \in [Processes -> Runs \cup {Nobody}]
    /\ lease \in Runs \cup {Nobody}
    /\ settled \in [runs : Nat, notes : Nat]
SchedTyped == SchedTypeOK /\ SchedShape

LEMMA SchedInitTyped == SchedInit => SchedTyped
<1> SUFFICES ASSUME SchedInit PROVE SchedTyped
  OBVIOUS
<1>1. Cooldown \in Nat /\ Backoff \in 1..Cooldown /\ Nobody \notin Runs
  BY ScheduleAssumption
<1>2. run \in [Runs -> [pc : {"idle", "deciding", "draining", "checking", "claiming", "planning"},
                        inputs : SUBSET Notes]]
  BY DEF SchedInit, Over
<1>3. \A r \in Runs : lease = r <=> At(r, "planning")
  BY <1>1 DEF SchedInit, Over, At
<1>4. SchedShape
  BY DEF SchedInit, SchedShape
<1>5. /\ meta \in [cooldown : 0..Cooldown, retryIn : 0..Cooldown, noteRetry : 0..Backoff,
                 noteGate : BOOLEAN, never : BOOLEAN]
      /\ note \in [Notes -> {"none", "stamped", "stale", "fresh", "old", "applied"}]
  BY <1>1 DEF SchedInit
<1>6. \A p \in Processes : entry[p] = Nobody
  BY DEF SchedInit
<1> QED
  BY <1>2, <1>3, <1>4, <1>5, <1>6 DEF SchedTyped, SchedTypeOK

\* The pc of the other runs stays.
LEMMA LeavesKeeps ==
  ASSUME SchedTyped, NEW r \in Runs, Leaves(r), UNCHANGED home
  PROVE  /\ run' \in [Runs -> [pc : {"idle", "deciding", "draining", "checking", "claiming", "planning"},
                               inputs : SUBSET Notes]]
         /\ run'[r] = Over
         /\ \A q \in Runs \ {r} : run'[q] = run[q]
         /\ entry' \in [Processes -> Runs \cup {Nobody}]
         /\ \A p \in Processes : (entry[p] # Nobody => home[entry[p]] = p /\ ~At(entry[p], "idle"))'
<1>1. /\ run' \in [Runs -> [pc : {"idle", "deciding", "draining", "checking", "claiming", "planning"},
                               inputs : SUBSET Notes]]
      /\ run'[r] = Over
      /\ \A q \in Runs \ {r} : run'[q] = run[q]
  BY DEF Leaves, Over, SchedTyped, SchedTypeOK
<1>2. home[r] \in Processes /\ home' = home
  BY DEF SchedTyped, SchedShape
<1>3. entry' \in [Processes -> Runs \cup {Nobody}]
  BY <1>2 DEF Leaves, SchedTyped, SchedShape
<1>4. ASSUME NEW p \in Processes, entry'[p] # Nobody
      PROVE  home[entry'[p]] = p /\ run'[entry'[p]].pc # "idle"
  <2>1. entry'[p] = entry[p] /\ entry[p] # r
    BY <1>2, <1>4 DEF Leaves, SchedTyped, SchedShape, SchedTypeOK
  <2> QED
    BY <1>1, <1>4, <2>1 DEF SchedTyped, SchedShape, SchedTypeOK, At
<1> QED
  BY <1>1, <1>2, <1>3, <1>4 DEF At

\* The gate is open, and the runs that have passed it.
Passed == {r \in Runs : run[r].pc \in {"draining", "checking", "claiming", "planning"}}

\* Past the gate there are no more runs than the hour still lets end: all of
\* them while the gate is open, and then one round less has ended.
Counted ==
    /\ settled.runs + Cardinality(Passed) <= (1 + settled.notes) * Cardinality(Runs)
    /\ MayRun => settled.runs <= settled.notes * Cardinality(Runs)
SchedIInv == SchedTyped /\ Counted

\* The runs past the gate can be counted.
LEMMA PassedCount ==
    /\ Cardinality(Passed) \in Nat /\ Cardinality(Runs) \in Nat
    /\ Cardinality(Passed) <= Cardinality(Runs) /\ IsFiniteSet(Passed)
<1>1. IsFiniteSet(Runs) /\ Passed \in SUBSET Runs
  BY ScheduleAssumption DEF Passed
<1> QED
  BY <1>1, FS_Subset, FS_CardinalityType

\* No run passes: the count does not grow.
LEMMA PassedShrinks ==
  ASSUME Passed' \subseteq Passed
  PROVE  Cardinality(Passed') \in Nat /\ Cardinality(Passed') <= Cardinality(Passed)
BY PassedCount, FS_Subset, FS_CardinalityType

\* One that had passed ends.
LEMMA PassedLoses ==
  ASSUME NEW r \in Passed, Passed' = Passed \ {r}
  PROVE  Cardinality(Passed') = Cardinality(Passed) - 1
BY PassedCount, FS_RemoveElement

\* A round more, for a note more.
LEMMA Rounds ==
  ASSUME NEW n \in Nat
  PROVE  /\ (1 + n) * Cardinality(Runs) \in Nat /\ n * Cardinality(Runs) \in Nat
         /\ (1 + n) * Cardinality(Runs) = n * Cardinality(Runs) + Cardinality(Runs)
BY PassedCount

\* What leaves the history and the gate alone, and lets no run pass, keeps the
\* count.
LEMMA NoneEnds ==
  ASSUME SchedTyped, Counted, UNCHANGED settled, Passed' \subseteq Passed, MayRun' => MayRun
  PROVE  Counted'
<1>1. settled.runs \in Nat /\ settled.notes \in Nat
  BY DEF SchedTyped, SchedShape
<1> DEFINE limit == (1 + settled.notes) * Cardinality(Runs)
<1>2. limit \in Nat /\ settled.runs + Cardinality(Passed) <= limit
  BY <1>1, Rounds DEF Counted
<1> HIDE DEF limit
<1>3. Cardinality(Passed) \in Nat /\ Cardinality(Passed') \in Nat /\ Cardinality(Passed') <= Cardinality(Passed)
  BY PassedCount, PassedShrinks
<1>4. settled.runs + Cardinality(Passed') <= limit
  BY <1>1, <1>2, <1>3
<1>5. settled'.runs + Cardinality(Passed') <= (1 + settled'.notes) * Cardinality(Runs)
  BY <1>4 DEF limit
<1> QED
  BY <1>5 DEF Counted

\* A run that ends counts, whether the gate was open or not, for the gate closes.
LEMMA OneEnds ==
  ASSUME SchedTyped, Counted, NEW r \in Passed, Passed' = Passed \ {r},
         settled'.runs \in {settled.runs, settled.runs + 1}, settled'.notes = settled.notes, ~MayRun'
  PROVE  Counted'
<1>1. settled.runs \in Nat /\ settled.notes \in Nat
  BY DEF SchedTyped, SchedShape
<1>2. Cardinality(Passed') = Cardinality(Passed) - 1
  BY PassedLoses
<1>3. settled.runs + Cardinality(Passed) <= (1 + settled.notes) * Cardinality(Runs)
  BY DEF Counted
<1> DEFINE limit == (1 + settled.notes) * Cardinality(Runs)
<1>5. limit \in Nat /\ settled.runs + Cardinality(Passed) <= limit
  BY <1>1, <1>3, Rounds
<1> HIDE DEF limit
<1>6. settled'.runs + Cardinality(Passed') <= limit
  BY <1>1, <1>2, <1>5, PassedCount
<1>4. settled'.runs + Cardinality(Passed') <= (1 + settled'.notes) * Cardinality(Runs)
  BY <1>6 DEF limit
<1> QED
  BY <1>4 DEF Counted

LEMMA TriggerKeeps ==
  ASSUME SchedIInv, NEW p \in Processes, Trigger(p)
  PROVE  SchedIInv'
<1> USE DEF SchedIInv
<1>1. PICK r \in Runs : home[r] = p /\ At(r, "idle") /\ Goes(r, "deciding") /\ entry' = [entry EXCEPT ![p] = r]
  BY DEF Trigger
<1>2. /\ run' \in [Runs -> [pc : {"idle", "deciding", "draining", "checking", "claiming", "planning"},
                            inputs : SUBSET Notes]]
      /\ run'[r].pc = "deciding" /\ \A q \in Runs \ {r} : run'[q] = run[q]
  BY <1>1 DEF Goes, SchedTyped, SchedTypeOK
<1>3. entry' \in [Processes -> Runs \cup {Nobody}]
  BY <1>1 DEF SchedTyped, SchedShape
<1>4. UNCHANGED <<meta, note, work, usable, home, lease, settled>>
  BY DEF Trigger
<1>5. \A q \in Processes : (entry[q] # Nobody => home[entry[q]] = q /\ ~At(entry[q], "idle"))'
  BY <1>1, <1>2, <1>3, <1>4 DEF SchedTyped, SchedTypeOK, SchedShape, At
<1>6. \A q \in Runs : (lease = q <=> At(q, "planning"))'
  BY <1>1, <1>2, <1>4 DEF SchedTyped, SchedTypeOK, At
<1>7. SchedTyped'
  BY <1>2, <1>3, <1>4, <1>5, <1>6 DEF SchedTyped, SchedTypeOK, SchedShape
<1>8. Passed' \subseteq Passed
  BY <1>2 DEF Passed
<1>9. MayRun' => MayRun
  BY <1>4 DEF MayRun, Urgent, Fresh, Actionable
<1> QED
  BY <1>4, <1>7, <1>8, <1>9, NoneEnds

LEMMA ExpireKeeps ==
  ASSUME SchedIInv, NEW p \in Processes, Expire(p)
  PROVE  SchedIInv'
<1> USE DEF SchedIInv
<1>1. UNCHANGED <<meta, note, work, usable, home, run, lease, settled>> /\ entry' = [entry EXCEPT ![p] = Nobody]
  BY DEF Expire
<1>2. SchedTyped'
  BY <1>1 DEF SchedTyped, SchedTypeOK, SchedShape, At
<1>3. Passed' \subseteq Passed
  BY <1>1 DEF Passed
<1>4. MayRun' => MayRun
  BY <1>1 DEF MayRun, Urgent, Fresh, Actionable
<1> QED
  BY <1>1, <1>2, <1>3, <1>4, NoneEnds

\* A run stops without a word: at a gate, without work, without the lease.
LEMMA LeavesKeepsAll ==
  ASSUME SchedIInv, NEW r \in Runs, Leaves(r),
         UNCHANGED <<meta, note, work, usable, home, settled>>,
         \/ UNCHANGED lease /\ ~At(r, "planning")
         \/ lease' = Nobody /\ At(r, "planning")
  PROVE  SchedIInv'
<1> USE DEF SchedIInv
<1>1. /\ run' \in [Runs -> [pc : {"idle", "deciding", "draining", "checking", "claiming", "planning"},
                            inputs : SUBSET Notes]]
      /\ run'[r] = Over
      /\ \A q \in Runs \ {r} : run'[q] = run[q]
      /\ entry' \in [Processes -> Runs \cup {Nobody}]
      /\ \A p \in Processes : (entry[p] # Nobody => home[entry[p]] = p /\ ~At(entry[p], "idle"))'
  BY LeavesKeeps
<1>2. \A q \in Runs : (lease = q <=> At(q, "planning"))'
  BY <1>1, ScheduleAssumption DEF SchedTyped, SchedTypeOK, At, Over
<1>3. SchedTyped'
  BY <1>1, <1>2 DEF SchedTyped, SchedTypeOK, SchedShape
<1>4. Passed' \subseteq Passed
  BY <1>1 DEF Passed, Over
<1>5. MayRun' => MayRun
  BY DEF MayRun, Urgent, Fresh, Actionable
<1> QED
  BY <1>3, <1>4, <1>5, NoneEnds

Pcs == {"idle", "deciding", "draining", "checking", "claiming", "planning"}

\* A run in flight goes on to a step before the lease.
LEMMA GoesTyped ==
  ASSUME SchedTyped, NEW r \in Runs, NEW pc \in {"draining", "checking", "claiming"},
         Goes(r, pc), ~At(r, "idle"), ~At(r, "planning"),
         UNCHANGED <<meta, note, usable, home, entry, lease, settled>>, work' \in BOOLEAN
  PROVE  /\ SchedTyped' /\ run'[r].pc = pc
         /\ \A q \in Runs \ {r} : run'[q] = run[q]
<1>1. run' = [run EXCEPT ![r] = [run[r] EXCEPT !.pc = pc]]
  BY DEF Goes
<1>2. /\ run' \in [Runs -> [pc : Pcs, inputs : SUBSET Notes]]
      /\ run'[r].pc = pc /\ \A q \in Runs \ {r} : run'[q] = run[q]
  BY <1>1 DEF SchedTyped, SchedTypeOK, Pcs
<1>3. \A p \in Processes : (entry[p] # Nobody => home[entry[p]] = p /\ ~At(entry[p], "idle"))'
  BY <1>2 DEF SchedTyped, SchedTypeOK, SchedShape, At
<1>4. \A q \in Runs : (lease = q <=> At(q, "planning"))'
  BY <1>2 DEF SchedTyped, SchedTypeOK, At
<1> QED
  BY <1>2, <1>3, <1>4 DEF SchedTyped, SchedTypeOK, SchedShape, Pcs

LEMMA DecideKeeps ==
  ASSUME SchedIInv, NEW r \in Runs, Decide(r)
  PROVE  SchedIInv'
<1> USE DEF SchedIInv
<1>1. UNCHANGED <<meta, note, work, usable, home, lease, settled>> /\ At(r, "deciding")
  BY DEF Decide
<1>2. CASE ~MayRun
  BY <1>1, <1>2, LeavesKeepsAll DEF Decide, At
<1>3. CASE MayRun
  <2>1. SchedTyped'
    BY <1>1, <1>3, GoesTyped DEF Decide, At, SchedTyped, SchedShape
  <2>2. settled.runs <= settled.notes * Cardinality(Runs) /\ settled.runs \in Nat /\ settled.notes \in Nat
    BY <1>3 DEF Counted, SchedTyped, SchedShape
  <2>3. Cardinality(Passed') \in Nat /\ Cardinality(Passed') <= Cardinality(Runs)
    <3>1. IsFiniteSet(Runs) /\ Passed' \in SUBSET Runs
      BY ScheduleAssumption DEF Passed
    <3> QED
      BY <3>1, FS_Subset, FS_CardinalityType
  <2> DEFINE before == settled.notes * Cardinality(Runs)
  <2>4. before \in Nat /\ (1 + settled.notes) * Cardinality(Runs) = before + Cardinality(Runs)
    BY <2>2, Rounds
  <2>5. settled.runs <= before
    BY <2>2
  <2> HIDE DEF before
  <2>6. settled.runs + Cardinality(Passed') <= before + Cardinality(Runs)
    BY <2>2, <2>3, <2>4, <2>5, PassedCount
  <2>7. Counted'
    BY <1>1, <2>2, <2>4, <2>6 DEF Counted
  <2> QED
    BY <2>1, <2>7
<1> QED
  BY <1>2, <1>3

LEMMA DrainFirstKeeps ==
  ASSUME SchedIInv, NEW r \in Runs, DrainFirst(r)
  PROVE  SchedIInv'
<1> USE DEF SchedIInv
<1>1. /\ SchedTyped' /\ run'[r].pc = "checking"
      /\ \A q \in Runs \ {r} : run'[q] = run[q]
  BY GoesTyped DEF DrainFirst, At, SchedTyped, SchedShape
<1>2. Passed' \subseteq Passed
  BY <1>1 DEF Passed, DrainFirst, At
<1>3. MayRun' => MayRun
  BY DEF MayRun, Urgent, Fresh, Actionable, DrainFirst
<1> QED
  BY <1>1, <1>2, <1>3, NoneEnds DEF DrainFirst

LEMMA LookForWorkKeeps ==
  ASSUME SchedIInv, NEW r \in Runs, LookForWork(r)
  PROVE  SchedIInv'
<1> USE DEF SchedIInv
<1>1. UNCHANGED <<meta, note, work, usable, home, lease, settled>> /\ At(r, "checking")
  BY DEF LookForWork
<1>2. CASE Leaves(r)
  BY <1>1, <1>2, LeavesKeepsAll DEF At
<1>3. CASE Goes(r, "claiming") /\ UNCHANGED entry
  <2>1. /\ SchedTyped' /\ run'[r].pc = "claiming"
        /\ \A q \in Runs \ {r} : run'[q] = run[q]
    BY <1>1, <1>3, GoesTyped DEF At, SchedTyped, SchedShape
  <2>2. Passed' \subseteq Passed
    BY <1>1, <2>1 DEF Passed, At
  <2>3. MayRun' => MayRun
    BY <1>1 DEF MayRun, Urgent, Fresh, Actionable
  <2> QED
    BY <1>1, <2>1, <2>2, <2>3, NoneEnds
<1> QED
  BY <1>2, <1>3 DEF LookForWork

LEMMA ClaimKeeps ==
  ASSUME SchedIInv, NEW r \in Runs, Claim(r)
  PROVE  SchedIInv'
<1> USE DEF SchedIInv
<1>1. UNCHANGED <<meta, note, work, usable, home, settled>> /\ At(r, "claiming")
  BY DEF Claim
<1>2. CASE lease # Nobody
  BY <1>1, <1>2, LeavesKeepsAll DEF At, Claim
<1>3. CASE lease = Nobody
  <2>1. /\ lease' = r /\ UNCHANGED entry
        /\ run' = [run EXCEPT ![r] = [pc |-> "planning", inputs |-> {n \in Notes : Actionable(n)}]]
    BY <1>3 DEF Claim
  <2>2. /\ run' \in [Runs -> [pc : Pcs, inputs : SUBSET Notes]]
        /\ run'[r].pc = "planning" /\ \A q \in Runs \ {r} : run'[q] = run[q]
    BY <2>1 DEF SchedTyped, SchedTypeOK, Pcs
  <2>3. \A p \in Processes : (entry[p] # Nobody => home[entry[p]] = p /\ ~At(entry[p], "idle"))'
    BY <1>1, <2>1, <2>2 DEF SchedTyped, SchedTypeOK, SchedShape, At
  <2>4. \A q \in Runs : (lease = q <=> At(q, "planning"))'
    <3>1. \A q \in Runs : ~At(q, "planning")
      BY <1>3, ScheduleAssumption DEF SchedTyped, SchedTypeOK
    <3> QED
      BY <2>1, <2>2, <3>1 DEF At
  <2>5. SchedTyped'
    BY <1>1, <2>1, <2>2, <2>3, <2>4 DEF SchedTyped, SchedTypeOK, SchedShape, Pcs
  <2>6. Passed' \subseteq Passed
    BY <1>1, <2>2 DEF Passed, At
  <2>7. MayRun' => MayRun
    BY <1>1 DEF MayRun, Urgent, Fresh, Actionable
  <2> QED
    BY <1>1, <2>5, <2>6, <2>7, NoneEnds
<1> QED
  BY <1>2, <1>3

\* What a run that had the lease leaves behind.
LEMMA EndsTyped ==
  ASSUME SchedTyped, NEW r \in Runs, At(r, "planning"), Leaves(r), lease' = Nobody, UNCHANGED <<usable, home>>,
         work' \in BOOLEAN, settled' \in [runs : Nat, notes : Nat],
         meta' \in [cooldown : 0..Cooldown, retryIn : 0..Cooldown, noteRetry : 0..Backoff,
                    noteGate : BOOLEAN, never : BOOLEAN],
         note' \in [Notes -> {"none", "stamped", "stale", "fresh", "old", "applied"}]
  PROVE  SchedTyped' /\ r \in Passed /\ Passed' = Passed \ {r}
<1>1. /\ run' \in [Runs -> [pc : Pcs, inputs : SUBSET Notes]]
      /\ run'[r] = Over
      /\ \A q \in Runs \ {r} : run'[q] = run[q]
      /\ entry' \in [Processes -> Runs \cup {Nobody}]
      /\ \A p \in Processes : (entry[p] # Nobody => home[entry[p]] = p /\ ~At(entry[p], "idle"))'
  BY LeavesKeeps DEF Pcs
<1>2. \A q \in Runs : (lease = q <=> At(q, "planning"))'
  BY <1>1, ScheduleAssumption DEF SchedTyped, SchedTypeOK, At, Over
<1>3. SchedTyped'
  BY <1>1, <1>2 DEF SchedTyped, SchedTypeOK, SchedShape, Pcs
<1>4. r \in Passed /\ Passed' = Passed \ {r}
  BY <1>1 DEF Passed, At, Over
<1> QED
  BY <1>3, <1>4

LEMMA SucceedKeeps ==
  ASSUME SchedIInv, NEW r \in Runs, Succeed(r)
  PROVE  SchedIInv'
<1> USE DEF SchedIInv
<1>1. PICK consumed \in SUBSET Notes : SucceedWith(r, consumed)
  BY DEF Succeed, SchedTyped, SchedTypeOK
<1>2. /\ At(r, "planning") /\ Leaves(r) /\ lease' = Nobody /\ UNCHANGED <<usable, home>>
      /\ settled' = [settled EXCEPT !.runs = IF @ < Bound THEN @ + 1 ELSE @]
  BY DEF Succeed
<1>3. /\ settled' \in [runs : Nat, notes : Nat] /\ settled'.notes = settled.notes
      /\ settled'.runs \in {settled.runs, settled.runs + 1}
  <2>1. settled' = [settled EXCEPT !.runs = settled.runs] \/ settled' = [settled EXCEPT !.runs = settled.runs + 1]
    BY <1>2
  <2> QED
    BY <2>1 DEF SchedTyped, SchedShape
<1> DEFINE left == {n \in Notes : Actionable(n)} \ consumed
<1>4. /\ note' = [n \in Notes |-> IF n \in consumed THEN "applied" ELSE Past(note[n])]
      /\ meta' = [cooldown |-> Cooldown, retryIn |-> 0, never |-> FALSE,
                  noteGate |-> left # {}, noteRetry |-> IF left # {} THEN Backoff ELSE 0]
      /\ work' \in BOOLEAN
  BY <1>1 DEF SucceedWith, SchedTyped, SchedShape
<1>5. \A n \in Notes : note'[n] \in {"none", "stale", "old", "applied"}
  BY <1>4 DEF SchedTyped, SchedTypeOK, Past
<1>6. note' \in [Notes -> {"none", "stamped", "stale", "fresh", "old", "applied"}]
  BY <1>4, <1>5
<1>7. meta' \in [cooldown : 0..Cooldown, retryIn : 0..Cooldown, noteRetry : 0..Backoff,
                 noteGate : BOOLEAN, never : BOOLEAN]
  <2>1. (left # {}) \in BOOLEAN
    OBVIOUS
  <2> HIDE DEF left
  <2> QED
    BY <1>4, <2>1, ScheduleAssumption
<1>8. SchedTyped' /\ r \in Passed /\ Passed' = Passed \ {r}
  BY <1>2, <1>3, <1>4, <1>6, <1>7, EndsTyped
<1>9. ~MayRun'
  <2>1. meta'.cooldown # 0 /\ meta'.never = FALSE /\ (meta'.noteGate => meta'.noteRetry # 0)
    <3>1. Cooldown # 0 /\ Backoff # 0
      BY ScheduleAssumption
    <3>2. /\ meta'.cooldown = Cooldown /\ meta'.never = FALSE
          /\ meta'.noteGate = (left # {}) /\ meta'.noteRetry = IF left # {} THEN Backoff ELSE 0
      BY <1>4
    <3> QED
      BY <3>1, <3>2
  <2>2. \A n \in Notes : ~Fresh(n)'
    BY <1>5, <2>1 DEF Fresh
  <2> QED
    BY <2>1, <2>2 DEF MayRun, Urgent
<1> QED
  BY <1>3, <1>8, <1>9, OneEnds

LEMMA FailKeeps ==
  ASSUME SchedIInv, NEW r \in Runs, Fail(r)
  PROVE  SchedIInv'
<1> USE DEF SchedIInv
<1>1. /\ At(r, "planning") /\ Leaves(r) /\ lease' = Nobody /\ UNCHANGED <<note, work, usable, home>>
      /\ settled' = [settled EXCEPT !.runs = IF @ < Bound THEN @ + 1 ELSE @]
  BY DEF Fail
<1>2. PICK d \in {Backoff, Cooldown} : meta' = [meta EXCEPT !.retryIn = d]
  BY DEF Fail
<1>3. /\ settled' \in [runs : Nat, notes : Nat] /\ settled'.notes = settled.notes
      /\ settled'.runs \in {settled.runs, settled.runs + 1}
  <2>1. settled' = [settled EXCEPT !.runs = settled.runs] \/ settled' = [settled EXCEPT !.runs = settled.runs + 1]
    BY <1>1
  <2> QED
    BY <2>1 DEF SchedTyped, SchedShape
<1>4. d \in 1..Cooldown
  BY ScheduleAssumption
<1>5. /\ meta' \in [cooldown : 0..Cooldown, retryIn : 0..Cooldown, noteRetry : 0..Backoff,
                    noteGate : BOOLEAN, never : BOOLEAN]
      /\ meta'.retryIn = d
  BY <1>2, <1>4 DEF SchedTyped, SchedTypeOK
<1>6. SchedTyped' /\ r \in Passed /\ Passed' = Passed \ {r}
  BY <1>1, <1>3, <1>5, EndsTyped DEF SchedTyped, SchedTypeOK, SchedShape
<1>7. ~MayRun'
  BY <1>4, <1>5 DEF MayRun
<1> QED
  BY <1>3, <1>6, <1>7, OneEnds

LEMMA StandDownKeeps ==
  ASSUME SchedIInv, NEW r \in Runs, StandDown(r)
  PROVE  SchedIInv'
BY LeavesKeepsAll DEF StandDown

\* The notes, the work and the clock.
LEMMA StampNoteKeeps ==
  ASSUME SchedIInv, NEW n \in Notes, StampNote(n)
  PROVE  SchedIInv'
<1> USE DEF SchedIInv
<1>1. /\ note[n] = "none" /\ note' = [note EXCEPT ![n] = "stamped"]
      /\ UNCHANGED <<meta, work, usable, home, run, entry, lease, settled>>
  BY DEF StampNote
<1>2. SchedTyped'
  BY <1>1 DEF SchedTyped, SchedTypeOK, SchedShape, At
<1>3. Passed' \subseteq Passed
  BY <1>1 DEF Passed
<1>4. \A m \in Notes : Actionable(m)' => Actionable(m) /\ note'[m] = note[m]
  BY <1>1 DEF Actionable, SchedTyped, SchedTypeOK
<1>5. MayRun' => MayRun
  BY <1>1, <1>4 DEF MayRun, Urgent, Fresh
<1> QED
  BY <1>1, <1>2, <1>3, <1>5, NoneEnds

\* A note more is a round more.
LEMMA InsertNoteKeeps ==
  ASSUME SchedIInv, NEW n \in Notes, InsertNote(n)
  PROVE  SchedIInv'
<1> USE DEF SchedIInv
<1>1. /\ note' = [note EXCEPT ![n] = IF @ = "stamped" THEN "fresh" ELSE "old"]
      /\ settled' = [settled EXCEPT !.notes = @ + 1]
      /\ UNCHANGED <<meta, work, usable, home, run, entry, lease>>
  BY DEF InsertNote
<1>2. /\ settled' \in [runs : Nat, notes : Nat] /\ settled'.runs = settled.runs
      /\ settled'.notes = settled.notes + 1 /\ settled.runs \in Nat /\ settled.notes \in Nat
  BY <1>1 DEF SchedTyped, SchedShape
<1>3. SchedTyped'
  BY <1>1, <1>2 DEF SchedTyped, SchedTypeOK, SchedShape, At
<1>4. Passed' = Passed
  BY <1>1 DEF Passed
<1> DEFINE limit == (1 + settled.notes) * Cardinality(Runs)
           next == (1 + settled'.notes) * Cardinality(Runs)
<1>5. /\ limit \in Nat /\ next = limit + Cardinality(Runs) /\ settled'.notes * Cardinality(Runs) = limit
  <2>1. /\ (1 + (settled.notes + 1)) * Cardinality(Runs)
             = (settled.notes + 1) * Cardinality(Runs) + Cardinality(Runs)
        /\ (settled.notes + 1) * Cardinality(Runs) \in Nat
    BY <1>2, Rounds
  <2>2. settled.notes + 1 = 1 + settled.notes
    BY <1>2
  <2> QED
    BY <1>2, <2>1, <2>2
<1>6. settled.runs + Cardinality(Passed) <= limit
  BY DEF Counted
<1> HIDE DEF limit, next
<1>7. settled'.runs + Cardinality(Passed') <= next /\ settled'.runs <= limit
  BY <1>2, <1>4, <1>5, <1>6, PassedCount
<1>8. Counted'
  BY <1>5, <1>7 DEF Counted, next
<1> QED
  BY <1>3, <1>8

LEMMA NewWorkKeeps ==
  ASSUME SchedIInv, NewWork
  PROVE  SchedIInv'
<1> USE DEF SchedIInv
<1>1. work' = TRUE /\ UNCHANGED <<meta, note, usable, home, run, entry, lease, settled>>
  BY DEF NewWork
<1>2. SchedTyped'
  BY <1>1 DEF SchedTyped, SchedTypeOK, SchedShape, At
<1>3. Passed' \subseteq Passed
  BY <1>1 DEF Passed
<1>4. MayRun' => MayRun
  BY <1>1 DEF MayRun, Urgent, Fresh, Actionable
<1> QED
  BY <1>1, <1>2, <1>3, <1>4, NoneEnds

\* A new hour counts from nothing.
LEMMA AnHourKeeps ==
  ASSUME SchedIInv, AnHour
  PROVE  SchedIInv'
<1> USE DEF SchedIInv
<1>1. /\ meta' = [meta EXCEPT !.cooldown = Less(@), !.retryIn = Less(@), !.noteRetry = Less(@)]
      /\ settled' = [runs |-> 0, notes |-> 0]
      /\ UNCHANGED <<note, work, usable, home, run, entry, lease>>
  BY DEF AnHour
<1>2. meta' \in [cooldown : 0..Cooldown, retryIn : 0..Cooldown, noteRetry : 0..Backoff,
                 noteGate : BOOLEAN, never : BOOLEAN]
  <2>1. \A m \in Nat : \A d \in 0..m : Less(d) \in 0..m
    BY DEF Less
  <2>2. /\ meta.cooldown \in 0..Cooldown /\ meta.retryIn \in 0..Cooldown /\ meta.noteRetry \in 0..Backoff
        /\ meta \in [cooldown : 0..Cooldown, retryIn : 0..Cooldown, noteRetry : 0..Backoff,
                     noteGate : BOOLEAN, never : BOOLEAN]
    BY DEF SchedTyped, SchedTypeOK
  <2>3. Cooldown \in Nat /\ Backoff \in Nat
    BY ScheduleAssumption
  <2>4. /\ Less(meta.cooldown) \in 0..Cooldown /\ Less(meta.retryIn) \in 0..Cooldown
        /\ Less(meta.noteRetry) \in 0..Backoff
    BY <2>1, <2>2, <2>3
  <2> QED
    BY <1>1, <2>2, <2>4
<1>3. SchedTyped'
  BY <1>1, <1>2 DEF SchedTyped, SchedTypeOK, SchedShape, At
<1>4. Passed' = Passed
  BY <1>1 DEF Passed
<1>5. /\ (1 + settled'.notes) * Cardinality(Runs) = Cardinality(Runs) /\ settled'.notes * Cardinality(Runs) = 0
      /\ settled'.runs = 0
  BY <1>1, PassedCount
<1>6. Counted'
  BY <1>4, <1>5, PassedCount DEF Counted
<1> QED
  BY <1>3, <1>6

LEMMA SchedNextKeeps ==
  ASSUME SchedIInv, [SchedNext]_schedVars
  PROVE  SchedIInv'
<1>1. CASE UNCHANGED schedVars
  <2>1. SchedTyped'
    BY <1>1 DEF SchedIInv, SchedTyped, SchedTypeOK, SchedShape, At, schedVars
  <2>2. Passed' \subseteq Passed
    BY <1>1 DEF Passed, schedVars
  <2>3. MayRun' => MayRun
    BY <1>1 DEF MayRun, Urgent, Fresh, Actionable, schedVars
  <2> QED
    BY <1>1, <2>1, <2>2, <2>3, NoneEnds DEF SchedIInv, schedVars
<1>2. CASE \E p \in Processes : Trigger(p) \/ Expire(p)
  BY <1>2, TriggerKeeps, ExpireKeeps
<1>3. CASE \E r \in Runs : RunStep(r)
  BY <1>3, DecideKeeps, DrainFirstKeeps, LookForWorkKeeps, ClaimKeeps, SucceedKeeps, FailKeeps, StandDownKeeps
     DEF RunStep
<1>4. CASE \E n \in Notes : StampNote(n) \/ InsertNote(n)
  BY <1>4, StampNoteKeeps, InsertNoteKeeps
<1>5. CASE NewWork \/ AnHour
  BY <1>5, NewWorkKeeps, AnHourKeeps
<1> QED
  BY <1>1, <1>2, <1>3, <1>4, <1>5 DEF SchedNext

LEMMA SchedInitCounts == SchedInit => SchedIInv
<1> SUFFICES ASSUME SchedInit PROVE SchedIInv
  OBVIOUS
<1>1. SchedTyped
  BY SchedInitTyped
<1>2. settled.runs = 0 /\ settled.notes = 0
  BY DEF SchedInit
<1>3. (1 + settled.notes) * Cardinality(Runs) = Cardinality(Runs) /\ settled.notes * Cardinality(Runs) = 0
  BY <1>2, PassedCount
<1>4. Counted
  BY <1>2, <1>3, PassedCount DEF Counted
<1> QED
  BY <1>1, <1>4 DEF SchedIInv

\* Always true of the automatic consolidation.
THEOREM SchedInvariant == SchedSpec => []SchedIInv
BY SchedInitCounts, SchedNextKeeps, PTL DEF SchedSpec

(***************************************************************************)
(* Type correctness of the scheduler: an entry is a run in flight of its   *)
(* process, and the lease is held by the run that plans.                   *)
(***************************************************************************)
THEOREM SchedTypeCorrect == SchedSpec => []SchedTypeOK
<1>1. SchedIInv => SchedTypeOK
  BY DEF SchedIInv, SchedTyped
<1> QED
  BY <1>1, SchedInvariant, PTL

(***************************************************************************)
(* However many processes end turns, runs expire or notes are added: no    *)
(* hour sees more runs that end than the gates of that hour let in.        *)
(***************************************************************************)
THEOREM NoHotLoopHolds == SchedSpec => []NoHotLoop
<1>1. SchedIInv => NoHotLoop
  <2> SUFFICES ASSUME SchedIInv PROVE NoHotLoop
    OBVIOUS
  <2> DEFINE limit == (1 + settled.notes) * Cardinality(Runs)
  <2>1. settled.runs \in Nat /\ limit \in Nat /\ settled.runs + Cardinality(Passed) <= limit
    BY Rounds DEF SchedIInv, SchedTyped, SchedShape, Counted
  <2> HIDE DEF limit
  <2>2. settled.runs <= limit
    BY <2>1, PassedCount
  <2> QED
    BY <2>2 DEF NoHotLoop, limit
<1> QED
  BY <1>1, SchedInvariant, PTL
=============================================================================
