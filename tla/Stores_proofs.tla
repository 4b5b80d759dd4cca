--------------------------- MODULE Stores_proofs ----------------------------
(***************************************************************************)
(* Proofs about what happens to a store as a whole: Migration (of its      *)
(* schema) and StoreGC (of its directory).                                 *)
(***************************************************************************)
EXTENDS Migration, StoreGC, FiniteSetTheorems, WellFoundedInduction, TLAPS

----------------------------------------------------------------------------
(***************************************************************************)
(* Migration, for any number of openers, rows and jobs.       *)
(*                                                                         *)
(* The statements of migrate only add to the schema and to what the rows   *)
(* have (Growth), although the version may go down.  So it is enough that  *)
(* whoever writes a version, and whoever is past a statement, finds what   *)
(* the statement is for (Reached, Progress).                               *)
(***************************************************************************)

Repairing8 == {"add8", "list8", "name8", "index8", "v8"}
Repairing9 == {"add9", "add9jobs", "v9"}
Done9 == {"ready", "own", "v10", "index11", "v11", "open"}
Done8 == {"look9"} \cup Repairing9 \cup Done9
Unversioned == {"stage", "jobs", "version"}

\* What a version promises of a sound store.
Reached(v) ==
    /\ v >= 8 => RowsNamed
    /\ v >= 9 => columns = Columns
    /\ v >= 10 => Owned
    /\ v >= 11 => "retention" \in indexes

\* The tables that an opener has seen to.
TablesMade(p) ==
    /\ p.at # "stage" => "stage" \in tables
    /\ p.at \notin {"stage", "jobs"} => "jobs" \in tables
\* The repair of version 8.
Named(p) ==
    /\ p.at \in Repairing8 => p.repair8
    /\ p.at \in (Repairing8 \ {"add8"}) \cup Done8 => "artifact" \in columns
    /\ p.at = "name8" => staged \ named \subseteq p.todo
    /\ p.at \in {"index8", "v8"} => named = staged
    /\ p.at = "v8" => "artifact" \in indexes
    /\ p.at \in Done8 => IF p.repair8 THEN RowsNamed ELSE p.seen >= 8
\* The repair of version 9.
Completed(p) ==
    /\ p.at \in Repairing9 => p.repair9
    /\ p.at \in {"add9jobs", "v9"} => "checkpoint" \in columns
    /\ p.at \in {"v9"} \cup Done9 => columns = Columns
    /\ p.at \in Done9 /\ ~p.repair9 => p.seen >= 9
\* What comes after the repairs.
Finished(p) ==
    /\ p.at \in Done9 \ {"ready"} => "provider" \in indexes
    /\ p.at \in Done9 \ {"ready", "own"} /\ (p.seen < 10 \/ p.repair8 \/ p.repair9) => Owned
    /\ p.at \in {"v11", "open"} /\ sound => "retention" \in indexes

Progress(p) ==
    /\ sound /\ p.at \notin Unversioned => Reached(p.seen)
    /\ TablesMade(p) /\ Named(p) /\ Completed(p) /\ Finished(p)

\* A job is without a provider only while the column is not there.
WorkersKnown ==
    /\ "jobs" \notin tables => \A j \in StoredJobs : worker[j] = "absent"
    /\ "provider" \in columns => \A j \in StoredJobs : worker[j] # "unset"

MigInv ==
    /\ sound => Reached(version)
    /\ WorkersKnown
    /\ \A o \in Openers : Progress(opener[o])

----------------------------------------------------------------------------
(***************************************************************************)
(* Types                                                                   *)
(***************************************************************************)
\* An opener's record is replaced, and no other's.
LEMMA OpenerIsType ==
    ASSUME MigTypeOK, NEW o \in Openers, NEW r \in Opener, OpenerIs(o, r)
    PROVE  /\ opener' \in [Openers -> Opener]
           /\ opener'[o] = r
           /\ \A q \in Openers \ {o} : opener'[q] = opener[q]
  BY DEF MigTypeOK, OpenerIs

\* The next statement is one, for every place but that of an opened store.
LEMMA NextPlaceType ==
    ASSUME NEW place \in DOMAIN NextPlace
    PROVE  NextPlace[place] \in OpenerPlaces
  BY DEF NextPlace, OpenerPlaces

\* Going on changes the place only.
LEMMA GoesOn ==
    ASSUME MigTypeOK, NEW o \in Openers, Goes(o), opener[o].at \in DOMAIN NextPlace
    PROVE  /\ opener' \in [Openers -> Opener]
           /\ \A q \in Openers \ {o} : opener'[q] = opener[q]
           /\ opener'[o].at = NextPlace[opener[o].at]
           /\ opener'[o].seen = opener[o].seen
           /\ opener'[o].repair8 = opener[o].repair8
           /\ opener'[o].repair9 = opener[o].repair9
           /\ opener'[o].todo = opener[o].todo
<1> DEFINE next == NextPlace[opener[o].at]
<1>1. next \in OpenerPlaces
  BY NextPlaceType
<1>2. OpenerIs(o, [opener[o] EXCEPT !.at = next])
  BY DEF Goes
<1>3. opener[o] \in Opener
  BY DEF MigTypeOK
<1> HIDE DEF next
<1>4. /\ [opener[o] EXCEPT !.at = next] \in Opener
      /\ [opener[o] EXCEPT !.at = next].at = next
      /\ [opener[o] EXCEPT !.at = next].seen = opener[o].seen
      /\ [opener[o] EXCEPT !.at = next].repair8 = opener[o].repair8
      /\ [opener[o] EXCEPT !.at = next].repair9 = opener[o].repair9
      /\ [opener[o] EXCEPT !.at = next].todo = opener[o].todo
  BY <1>1, <1>3 DEF Opener
<1>5. /\ opener' \in [Openers -> Opener]
      /\ opener'[o] = [opener[o] EXCEPT !.at = next]
      /\ \A q \in Openers \ {o} : opener'[q] = opener[q]
  BY <1>2, <1>4, OpenerIsType
<1> QED
  BY <1>4, <1>5 DEF next

\* A stamp is written at one of seven places, and writes that place's version
\* or none.
LEMMA StampPlace ==
    ASSUME MigTypeOK, NEW o \in Openers, Stamp(o)
    PROVE  /\ opener[o].at \in {"v5", "v6", "v7", "v8", "v9", "v10", "v11"}
           /\ version' \in 1..11
           /\ \/ version' = version
              \/ version' <= 7
              \/ version' = 8 /\ opener[o].at = "v8"
              \/ version' = 9 /\ opener[o].at = "v9"
              \/ version' = 10 /\ opener[o].at = "v10"
              \/ version' = 11 /\ opener[o].at = "v11"
<1>1. PICK k \in 5..11 :
        /\ IsAt(o, CASE k = 5 -> "v5" [] k = 6 -> "v6" [] k = 7 -> "v7" [] k = 8 -> "v8" [] k = 9 -> "v9"
                   [] k = 10 -> "v10" [] k = 11 -> "v11")
        /\ version' = k \/ version' = version
  BY DEF Stamp
<1>2. /\ k \in {5, 6, 7, 8, 9, 10, 11}
      /\ opener[o].at = CASE k = 5 -> "v5" [] k = 6 -> "v6" [] k = 7 -> "v7" [] k = 8 -> "v8" [] k = 9 -> "v9"
                   [] k = 10 -> "v10" [] k = 11 -> "v11"
  BY <1>1 DEF IsAt
<1>3. \/ k = 5 /\ opener[o].at = "v5"
      \/ k = 6 /\ opener[o].at = "v6"
      \/ k = 7 /\ opener[o].at = "v7"
      \/ k = 8 /\ opener[o].at = "v8"
      \/ k = 9 /\ opener[o].at = "v9"
      \/ k = 10 /\ opener[o].at = "v10"
      \/ k = 11 /\ opener[o].at = "v11"
  BY <1>2
<1> QED
  BY <1>1, <1>3 DEF MigTypeOK

\* A store of any version, sound or damaged, is well typed.
LEMMA MigInitType == MigInit => MigTypeOK
<1> SUFFICES ASSUME MigInit PROVE MigTypeOK
  OBVIOUS
<1>1. PICK v \in 1..11, lost \in SUBSET Columns : Left(v, lost)
  BY DEF MigInit, Columns
<1>2. /\ tables \subseteq {"stage", "jobs"} /\ columns \subseteq Columns
      /\ indexes \subseteq {"artifact", "provider", "retention"}
      /\ version \in 1..11
  BY <1>1 DEF Left, Columns
<1>3. staged \subseteq StageRows /\ named \subseteq staged
  BY <1>1 DEF Left
<1>4. worker \in [StoredJobs -> Workers] /\ sound \in BOOLEAN
  BY <1>1 DEF Left, MigInit
<1>5. opener \in [Openers -> Opener]
  <2>1. ClosedStore \in Opener
    BY DEF ClosedStore, Opener, OpenerPlaces, NextPlace
  <2> QED
    BY <2>1 DEF MigInit
<1> QED
  BY <1>2, <1>3, <1>4, <1>5 DEF MigTypeOK

\* Every statement and every use of an opened store keeps the types.
LEMMA MigTypeStep == MigTypeOK /\ [MigNext]_migVars => MigTypeOK'
<1> SUFFICES ASSUME MigTypeOK, [MigNext]_migVars PROVE MigTypeOK'
  OBVIOUS
<1> USE DEF schema, tableRows
<1>1. ASSUME NEW o \in Openers, CreateTable(o) PROVE MigTypeOK'
  <2>1. opener' \in [Openers -> Opener]
    BY <1>1, GoesOn DEF CreateTable, NextPlace
  <2>2. tables' \subseteq {"stage", "jobs"} /\ columns' \subseteq Columns
    <3>1. \A t \in {"stage", "jobs"} : ColumnsOf[t] \subseteq Columns
      BY DEF ColumnsOf, Columns
    <3> QED
      BY <1>1, <3>1 DEF CreateTable, MigTypeOK
  <2> QED
    BY <1>1, <2>1, <2>2 DEF CreateTable, MigTypeOK
<1>2. ASSUME NEW o \in Openers, ReadVersion(o) PROVE MigTypeOK'
  <2>1. [opener[o] EXCEPT !.at = "v5", !.seen = version] \in Opener
    BY DEF MigTypeOK, Opener, OpenerPlaces, NextPlace
  <2> QED
    BY <1>2, <2>1, OpenerIsType DEF ReadVersion, MigTypeOK
<1>3. ASSUME NEW o \in Openers, Stamp(o) PROVE MigTypeOK'
  <2>1. opener' \in [Openers -> Opener]
    BY <1>3, StampPlace, GoesOn DEF Stamp, NextPlace
  <2> QED
    BY <1>3, <2>1, StampPlace DEF Stamp, MigTypeOK
<1>4. ASSUME NEW o \in Openers, Look8(o) PROVE MigTypeOK'
  <2>1. Lacks8(o) \in BOOLEAN /\ opener[o] \in Opener
    BY DEF Lacks8, MigTypeOK
  <2>2. [opener[o] EXCEPT !.at = IF Lacks8(o) THEN "add8" ELSE "look9", !.repair8 = Lacks8(o)] \in Opener
    BY <2>1 DEF Opener, OpenerPlaces, NextPlace
  <2> QED
    BY <1>4, <2>2, OpenerIsType DEF Look8, MigTypeOK
<1>5. ASSUME NEW o \in Openers, Look9(o) PROVE MigTypeOK'
  <2>1. Lacks9(o) \in BOOLEAN /\ opener[o] \in Opener
    BY DEF Lacks9, MigTypeOK
  <2>2. [opener[o] EXCEPT !.at = IF Lacks9(o) THEN "add9" ELSE "ready", !.repair9 = Lacks9(o)] \in Opener
    BY <2>1 DEF Opener, OpenerPlaces, NextPlace
  <2> QED
    BY <1>5, <2>2, OpenerIsType DEF Look9, MigTypeOK
<1>6. ASSUME NEW o \in Openers, AddMissingColumns(o) PROVE MigTypeOK'
  <2>1. opener' \in [Openers -> Opener]
    BY <1>6, GoesOn DEF AddMissingColumns, NextPlace
  <2>2. columns' \subseteq Columns
    BY <1>6 DEF AddMissingColumns, MigTypeOK, Columns, IsAt
  <2>3. worker' \in [StoredJobs -> Workers]
    BY <1>6 DEF AddMissingColumns, MigTypeOK, Workers
  <2> QED
    BY <1>6, <2>1, <2>2, <2>3 DEF AddMissingColumns, MigTypeOK
<1>7. ASSUME NEW o \in Openers, ListStageRows(o) PROVE MigTypeOK'
  <2>1. [opener[o] EXCEPT !.at = "name8", !.todo = staged] \in Opener
    BY DEF MigTypeOK, Opener, OpenerPlaces, NextPlace
  <2> QED
    BY <1>7, <2>1, OpenerIsType DEF ListStageRows, MigTypeOK
<1>8. ASSUME NEW o \in Openers, NameRow(o) PROVE MigTypeOK'
  <2>1. PICK r \in opener[o].todo : /\ named' = named \cup ({r} \cap staged)
                                    /\ OpenerIs(o, [opener[o] EXCEPT !.todo = @ \ {r}])
    BY <1>8 DEF NameRow
  <2>2. [opener[o] EXCEPT !.todo = @ \ {r}] \in Opener
    BY DEF MigTypeOK, Opener
  <2>3. opener' \in [Openers -> Opener]
    BY <2>1, <2>2, OpenerIsType
  <2> QED
    BY <1>8, <2>1, <2>3 DEF NameRow, MigTypeOK
<1>9. ASSUME NEW o \in Openers, AllNamed(o) PROVE MigTypeOK'
  <2>1. opener' \in [Openers -> Opener]
    BY <1>9, GoesOn DEF AllNamed, IsAt, NextPlace
  <2> QED
    BY <1>9, <2>1 DEF AllNamed, MigTypeOK
<1>10. ASSUME NEW o \in Openers, CreateIndex(o) PROVE MigTypeOK'
  <2>1. opener' \in [Openers -> Opener]
    BY <1>10, GoesOn DEF CreateIndex, NextPlace
  <2>2. indexes' \subseteq {"artifact", "provider", "retention"}
    BY <1>10 DEF CreateIndex, MigTypeOK, IsAt
  <2> QED
    BY <1>10, <2>1, <2>2 DEF CreateIndex, MigTypeOK
<1>11. ASSUME NEW o \in Openers, OwnWorker(o) PROVE MigTypeOK'
  <2>1. opener' \in [Openers -> Opener]
    BY <1>11, GoesOn DEF OwnWorker, IsAt, NextPlace
  <2>2. worker' \in [StoredJobs -> Workers]
    BY <1>11 DEF OwnWorker, MigTypeOK, Workers
  <2> QED
    BY <1>11, <2>1, <2>2 DEF OwnWorker, MigTypeOK
<1>12. ASSUME NEW o \in Openers, Upsert(o) \/ DeleteRow(o) PROVE MigTypeOK'
  BY <1>12 DEF Upsert, DeleteRow, MigTypeOK
<1>13. ASSUME NEW o \in Openers, EnqueueJob(o) PROVE MigTypeOK'
  BY <1>13 DEF EnqueueJob, MigTypeOK, Workers
<1>14. ASSUME NEW o \in Openers, CloseStore(o) PROVE MigTypeOK'
  <2>1. ClosedStore \in Opener
    BY DEF ClosedStore, Opener, OpenerPlaces, NextPlace
  <2> QED
    BY <1>14, <2>1, OpenerIsType DEF CloseStore, MigTypeOK
<1>15. CASE UNCHANGED migVars
  BY <1>15 DEF migVars, MigTypeOK
<1> QED
  BY <1>1, <1>2, <1>3, <1>4, <1>5, <1>6, <1>7, <1>8, <1>9, <1>10, <1>11, <1>12, <1>13, <1>14,
     <1>15 DEF MigNext, Migrates

\* The schema, the rows and the openers keep their shape.
THEOREM MigTypeCorrect == MigSpec => []MigTypeOK
  BY MigInitType, MigTypeStep, PTL DEF MigSpec

----------------------------------------------------------------------------
(***************************************************************************)
(* Growth                                                                  *)
(***************************************************************************)
\* What no step takes back: tables, columns, indexes, names and workers.
Growth ==
    /\ tables \subseteq tables' /\ columns \subseteq columns' /\ indexes \subseteq indexes'
    /\ staged' \ named' \subseteq staged \ named
    /\ Owned => Owned'
    /\ sound' = sound

\* Every step only adds.
LEMMA GrowthStep == MigTypeOK /\ WorkersKnown /\ [MigNext]_migVars => Growth
<1> SUFFICES ASSUME MigTypeOK, WorkersKnown, [MigNext]_migVars PROVE Growth
  OBVIOUS
<1> USE DEF schema, tableRows
\* Steps that leave rows and jobs alone.
<1>0. ASSUME tables \subseteq tables', columns \subseteq columns', indexes \subseteq indexes',
             UNCHANGED <<staged, named, worker, sound>>
      PROVE  Growth
  BY <1>0 DEF Growth, Owned
<1>1. ASSUME NEW o \in Openers, CreateTable(o) PROVE Growth
  BY <1>0, <1>1 DEF CreateTable
<1>2. ASSUME NEW o \in Openers,
             ReadVersion(o) \/ Stamp(o) \/ Look8(o) \/ Look9(o) \/ ListStageRows(o) \/ AllNamed(o)
               \/ CreateIndex(o) \/ CloseStore(o)
      PROVE  Growth
  BY <1>0, <1>2 DEF ReadVersion, Stamp, Look8, Look9, ListStageRows, AllNamed, CreateIndex, CloseStore
<1>3. ASSUME NEW o \in Openers, AddMissingColumns(o) PROVE Growth
  <2>1. Owned => Owned'
    BY <1>3, MigrationAssumption DEF AddMissingColumns, Owned, MigTypeOK
  <2> QED
    BY <1>3, <2>1 DEF AddMissingColumns, Growth
<1>4. ASSUME NEW o \in Openers, NameRow(o) PROVE Growth
  <2>1. Owned => Owned'
    BY <1>4 DEF NameRow, Owned
  <2> QED
    BY <1>4, <2>1 DEF NameRow, Growth
<1>5. ASSUME NEW o \in Openers, OwnWorker(o) PROVE Growth
  <2>1. Owned => Owned'
    BY <1>5, MigrationAssumption DEF OwnWorker, Owned, MigTypeOK
  <2> QED
    BY <1>5, <2>1 DEF OwnWorker, Growth
<1>6. ASSUME NEW o \in Openers, Upsert(o) \/ DeleteRow(o) PROVE Growth
  <2>1. Owned => Owned'
    BY <1>6 DEF Upsert, DeleteRow, Owned
  <2>2. staged' \ named' \subseteq staged \ named
    BY <1>6 DEF Upsert, DeleteRow
  <2> QED
    BY <1>6, <2>1, <2>2 DEF Upsert, DeleteRow, Growth
<1>7. ASSUME NEW o \in Openers, EnqueueJob(o) PROVE Growth
  <2>1. Owned => Owned'
    BY <1>7, MigrationAssumption DEF EnqueueJob, Owned, MigTypeOK
  <2> QED
    BY <1>7, <2>1 DEF EnqueueJob, Growth
<1>8. CASE UNCHANGED migVars
  BY <1>0, <1>8 DEF migVars
<1> QED
  BY <1>1, <1>2, <1>3, <1>4, <1>5, <1>6, <1>7, <1>8 DEF MigNext, Migrates

\* In a growing store rows that are named stay named, and what a version
\* promises stays kept.
LEMMA ReachedKept ==
    ASSUME MigTypeOK, MigTypeOK', Growth
    PROVE  /\ named = staged => named' = staged'
           /\ RowsNamed => RowsNamed'
           /\ columns = Columns => columns' = Columns
           /\ \A v \in 1..11 : Reached(v) => Reached(v)'
<1>1. named = staged => named' = staged'
  BY DEF Growth, MigTypeOK
<1>2. RowsNamed => RowsNamed'
  BY <1>1 DEF Growth, RowsNamed
<1>3. columns = Columns => columns' = Columns
  BY DEF Growth, MigTypeOK
<1> QED
  BY <1>1, <1>2, <1>3 DEF Reached, Growth

\* So an opener that does nothing keeps what it has reached.
LEMMA ProgressKept ==
    ASSUME MigTypeOK, MigTypeOK', Growth, NEW p \in Opener, Progress(p)
    PROVE  Progress(p)'
<1>1. sound' /\ p.at \notin Unversioned => Reached(p.seen)'
  BY ReachedKept DEF Progress, Growth, Opener
<1>2. TablesMade(p)'
  BY DEF Progress, Growth, TablesMade
<1>3. Named(p)'
  BY ReachedKept DEF Progress, Growth, Named
<1>4. Completed(p)'
  BY ReachedKept DEF Progress, Growth, Completed
<1>5. Finished(p)'
  BY DEF Progress, Growth, Finished
<1> QED
  BY <1>1, <1>2, <1>3, <1>4, <1>5 DEF Progress

----------------------------------------------------------------------------
(***************************************************************************)
(* The invariant                                                           *)
(***************************************************************************)
\* A store as some version left it has what that version promises, and a new
\* opener has nothing to keep.
LEMMA MigInitInv == MigInit => MigInv
<1> SUFFICES ASSUME MigInit PROVE MigInv
  OBVIOUS
<1>1. PICK v \in 1..11, lost \in SUBSET Columns : Left(v, lost) /\ (sound => lost = {})
  BY DEF MigInit, Columns
<1>2. ASSUME sound PROVE Reached(version)
  <2>1. /\ version = v
        /\ columns = {c \in Columns : v >= IF c = "artifact" THEN 8 ELSE 9}
        /\ named = IF "artifact" \in columns THEN staged ELSE {}
    BY <1>1, <1>2 DEF Left
  <2>2. v >= 8 => "artifact" \in columns
    BY <2>1 DEF Columns
  <2>3. v >= 8 => "artifact" \in indexes
    BY <1>1, <1>2 DEF Left, Columns
  <2>4. v >= 9 => columns = Columns
    BY <2>1 DEF Columns
  <2>5. v >= 10 => Owned
    BY <1>1, <2>4, MigrationAssumption DEF Left, Owned, Columns
  <2>6. v >= 11 => "retention" \in indexes
    BY <1>1, <1>2 DEF Left, Columns
  <2> QED
    BY <2>1, <2>2, <2>3, <2>4, <2>5, <2>6 DEF Reached, RowsNamed
<1>3. WorkersKnown
  <2>1. "jobs" \notin tables => v < 6
    BY <1>1 DEF Left
  <2>2. ASSUME NEW j \in StoredJobs, v < 6 PROVE worker[j] = "absent"
    BY <1>1, <2>2 DEF Left
  <2>3. ASSUME NEW j \in StoredJobs, "provider" \in columns PROVE worker[j] # "unset"
    BY <1>1, <2>3 DEF Left
  <2> QED
    BY <2>1, <2>2, <2>3 DEF WorkersKnown
<1>4. ASSUME NEW o \in Openers PROVE Progress(opener[o])
  <2>1. opener[o] = ClosedStore
    BY DEF MigInit
  <2>2. ClosedStore.at = "stage"
    BY DEF ClosedStore
  <2>3. opener[o].at = "stage"
    BY <2>1, <2>2
  <2> QED
    BY <2>3 DEF Progress, Unversioned, TablesMade, Named, Completed, Finished,
        Repairing8, Repairing9, Done8, Done9
<1> QED
  BY <1>2, <1>3, <1>4 DEF MigInv

\* A job gets a provider with the column, and is only enqueued where it is.
LEMMA WorkersKnownStep == MigTypeOK /\ MigInv /\ [MigNext]_migVars => WorkersKnown'
<1> SUFFICES ASSUME MigTypeOK, MigInv, [MigNext]_migVars PROVE WorkersKnown'
  OBVIOUS
<1> USE DEF schema, tableRows
<1>w. WorkersKnown
  BY DEF MigInv
<1>0. ASSUME UNCHANGED <<tables, columns, worker>> PROVE WorkersKnown'
  BY <1>0, <1>w DEF WorkersKnown
<1>1. ASSUME NEW o \in Openers, CreateTable(o) PROVE WorkersKnown'
  <2>1. /\ "jobs" \in tables' \/ UNCHANGED tables \/ opener[o].at = "stage"
        /\ worker' = worker
        /\ "jobs" \notin tables' => "jobs" \notin tables
    BY <1>1 DEF CreateTable
  <2>2. ASSUME "provider" \in columns', "provider" \notin columns PROVE "jobs" \notin tables
    BY <1>1, <2>2 DEF CreateTable, ColumnsOf
  <2> QED
    BY <1>w, <2>1, <2>2 DEF WorkersKnown
<1>2. ASSUME NEW o \in Openers, AddMissingColumns(o) PROVE WorkersKnown'
  <2>1. "jobs" \notin tables' => \A j \in StoredJobs : worker'[j] = "absent"
    BY <1>2, <1>w DEF AddMissingColumns, WorkersKnown
  <2>2. ASSUME NEW j \in StoredJobs, "provider" \in columns' PROVE worker'[j] # "unset"
    BY <1>2, <1>w, <2>2 DEF AddMissingColumns, WorkersKnown
  <2> QED
    BY <2>1, <2>2 DEF WorkersKnown
<1>3. ASSUME NEW o \in Openers, OwnWorker(o) PROVE WorkersKnown'
  BY <1>3, <1>w DEF OwnWorker, WorkersKnown
<1>4. ASSUME NEW o \in Openers, EnqueueJob(o) PROVE WorkersKnown'
  <2>1. "jobs" \in tables
    BY <1>4 DEF EnqueueJob, IsAt, MigInv, Progress, TablesMade
  <2> QED
    BY <1>4, <1>w, <2>1 DEF EnqueueJob, WorkersKnown, MigTypeOK
<1>5. ASSUME NEW o \in Openers,
             ReadVersion(o) \/ Stamp(o) \/ Look8(o) \/ Look9(o) \/ ListStageRows(o) \/ NameRow(o)
               \/ AllNamed(o) \/ CreateIndex(o) \/ Upsert(o) \/ DeleteRow(o) \/ CloseStore(o)
      PROVE  UNCHANGED <<tables, columns, worker>>
  BY <1>5 DEF ReadVersion, Stamp, Look8, Look9, ListStageRows, NameRow, AllNamed, CreateIndex,
      Upsert, DeleteRow, CloseStore
<1>6. CASE UNCHANGED migVars
  BY <1>0, <1>6 DEF migVars
<1> QED
  BY <1>0, <1>1, <1>2, <1>3, <1>4, <1>5, <1>6 DEF MigNext, Migrates

\* A version is written by an opener that is past what it promises, or it is
\* one that promises nothing.
LEMMA VersionStep == MigTypeOK /\ MigInv /\ [MigNext]_migVars => (sound' => Reached(version'))
<1> SUFFICES ASSUME MigTypeOK, MigInv, [MigNext]_migVars, sound' PROVE Reached(version')
  OBVIOUS
<1>g. sound /\ Reached(version) /\ version \in 1..11
  BY GrowthStep DEF Growth, MigInv, MigTypeOK
<1>1. CASE version' = version
  BY <1>1, <1>g
<1>2. ASSUME NEW o \in Openers, Stamp(o), version' # version PROVE Reached(version')
  <2> PICK p \in Opener : p = opener[o]
    BY DEF MigTypeOK
  <2>1. Progress(p) /\ (p.at \notin Unversioned => Reached(p.seen))
    BY <1>g DEF MigInv, Progress
  <2>2. \/ version' <= 7
        \/ version' = 8 /\ p.at = "v8"
        \/ version' = 9 /\ p.at = "v9"
        \/ version' = 10 /\ p.at = "v10"
        \/ version' = 11 /\ p.at = "v11"
    BY <1>2, StampPlace
  <2>3. version' \in 1..11
    BY <1>2, StampPlace
  <2>4. p.at \in {"v8", "v9", "v10", "v11"} => RowsNamed
    BY <2>1 DEF Progress, Named, RowsNamed, Reached, Opener, Repairing8, Done8, Repairing9, Done9, Unversioned
  <2>5. p.at \in {"v9", "v10", "v11"} => columns = Columns
    BY <2>1 DEF Progress, Completed, Done9
  <2>6. p.at \in {"v10", "v11"} => Owned
    BY <2>1 DEF Progress, Finished, Reached, Opener, Done9, Unversioned
  <2>7. p.at = "v11" => "retention" \in indexes
    BY <1>g, <2>1 DEF Progress, Finished
  <2> QED
    BY <2>2, <2>3, <2>4, <2>5, <2>6, <2>7 DEF Reached
<1>3. ASSUME NEW o \in Openers, ~Stamp(o), Migrates(o) PROVE version' = version
  BY <1>3 DEF Migrates, CreateTable, ReadVersion, Look8, Look9, AddMissingColumns, ListStageRows,
      NameRow, AllNamed, CreateIndex, OwnWorker, schema
<1>4. ASSUME NEW o \in Openers, Upsert(o) \/ DeleteRow(o) \/ EnqueueJob(o) \/ CloseStore(o)
      PROVE  version' = version
  BY <1>4 DEF Upsert, DeleteRow, EnqueueJob, CloseStore, schema
<1>5. CASE UNCHANGED migVars
  BY <1>1, <1>5 DEF migVars
<1> QED
  BY <1>1, <1>2, <1>3, <1>4, <1>5 DEF MigNext

\* An opener writes no other's record.
LEMMA OnlyOwnRecord ==
    ASSUME MigTypeOK, NEW q \in Openers, Migrates(q) \/ CloseStore(q), NEW o \in Openers \ {q}
    PROVE  opener'[o] = opener[o]
  BY DEF Migrates, CreateTable, ReadVersion, Stamp, Look8, Look9, AddMissingColumns, ListStageRows,
      NameRow, AllNamed, CreateIndex, OwnWorker, CloseStore, Goes, OpenerIs, MigTypeOK

\* An opener that goes on keeps what it has reached and reaches what its
\* statement was for.
LEMMA ProgressStep ==
    ASSUME MigTypeOK, MigTypeOK', MigInv, Growth, NEW o \in Openers, Migrates(o)
    PROVE  Progress(opener[o])'
<1> PICK p \in Opener : p = opener[o]
  BY DEF MigTypeOK
<1> PICK r \in Opener : r = opener'[o]
  BY DEF MigTypeOK
<1> SUFFICES Progress(r)'
  BY DEF Progress, TablesMade, Named, Completed, Finished, Reached, RowsNamed, Owned
<1> USE DEF schema, tableRows
<1>p. Progress(p) /\ Progress(p)'
  BY ProgressKept DEF MigInv
<1>s. sound' = sound
  BY DEF Growth
<1> DEFINE Follows(from, to) == p.at = from /\ r.at = to /\ r.seen = p.seen
                                /\ r.repair8 = p.repair8 /\ r.repair9 = p.repair9 /\ r.todo = p.todo
<1>1. CASE CreateTable(o)
  <2>1. Follows("stage", "jobs") \/ Follows("jobs", "version")
    BY <1>1, GoesOn DEF CreateTable, NextPlace
  <2>2. TablesMade(r)'
    BY <1>1, <1>p, <2>1 DEF CreateTable, TablesMade, Progress
  <2> QED
    BY <2>1, <2>2 DEF Progress, Unversioned, Named, Completed, Finished,
        Repairing8, Repairing9, Done8, Done9
<1>2. CASE ReadVersion(o)
  <2>1. p.at = "version" /\ r.at = "v5" /\ r.seen = version
    <3>1. opener' = [opener EXCEPT ![o] = [p EXCEPT !.at = "v5", !.seen = version]]
      BY <1>2 DEF ReadVersion, OpenerIs
    <3>2. r = [p EXCEPT !.at = "v5", !.seen = version]
      BY <3>1 DEF MigTypeOK
    <3> QED
      BY <1>2, <3>2 DEF ReadVersion, IsAt, Opener
  <2>2. sound' => Reached(r.seen)'
    <3>1. PICK v \in 1..11 : v = version
      BY DEF MigTypeOK
    <3>2. sound => Reached(v)
      BY <3>1 DEF MigInv
    <3> QED
      BY <1>s, <2>1, <3>1, <3>2, ReachedKept
  <2>3. TablesMade(r)'
    BY <1>p, <2>1 DEF Progress, TablesMade
  <2> QED
    BY <2>1, <2>2, <2>3 DEF Progress, Named, Completed, Finished, Repairing8, Repairing9, Done8, Done9
<1>3. CASE Stamp(o)
  <2>1. \/ Follows("v5", "v6") \/ Follows("v6", "v7") \/ Follows("v7", "look8")
        \/ Follows("v8", "look9") \/ Follows("v9", "ready") \/ Follows("v10", "index11")
        \/ Follows("v11", "open")
    BY <1>3, StampPlace, GoesOn DEF Stamp, NextPlace
  <2>2. (sound' /\ r.at \notin Unversioned => Reached(r.seen)') /\ TablesMade(r)'
    BY <2>1, <1>p DEF Progress, Unversioned, TablesMade
  <2>3. Named(r)'
    BY <2>1, <1>p DEF Progress, Named, RowsNamed, Repairing8, Done8, Repairing9, Done9
  <2>4. Completed(r)'
    BY <2>1, <1>p DEF Progress, Completed, Repairing9, Done9
  <2>5. Finished(r)'
    BY <2>1, <1>p DEF Progress, Finished, Done9
  <2> QED
    BY <2>2, <2>3, <2>4, <2>5 DEF Progress
<1>4. CASE Look8(o)
  <2>1. /\ p.at = "look8"
        /\ r.at = IF Lacks8(o) THEN "add8" ELSE "look9"
        /\ r.repair8 = Lacks8(o) /\ r.repair9 = p.repair9 /\ r.seen = p.seen
    <3>1. r = [p EXCEPT !.at = IF Lacks8(o) THEN "add8" ELSE "look9", !.repair8 = Lacks8(o)]
      BY <1>4 DEF Look8, OpenerIs, MigTypeOK
    <3> QED
      BY <1>4, <3>1 DEF Look8, IsAt, Opener
  <2>3. (sound' /\ r.at \notin Unversioned => Reached(r.seen)') /\ TablesMade(r)'
    BY <2>1, <1>p DEF Progress, Unversioned, TablesMade
  <2>4. Named(r)'
    <3>1. CASE Lacks8(o)
      BY <2>1, <3>1 DEF Named, Repairing8, Done8, Repairing9, Done9
    <3>2. CASE ~Lacks8(o)
      <4>1. p.seen >= 8 /\ "artifact" \in columns'
        <5>1. p.seen \in 1..11 /\ columns' = columns
          BY <1>4 DEF Look8, Opener
        <5> QED
          BY <3>2, <5>1 DEF Lacks8
      <4> QED
        BY <2>1, <3>2, <4>1 DEF Named, Repairing8, Done8
    <3> QED
      BY <3>1, <3>2
  <2>5. Completed(r)' /\ Finished(r)'
    BY <2>1 DEF Completed, Finished, Repairing9, Done9
  <2> QED
    BY <2>3, <2>4, <2>5 DEF Progress
<1>5. CASE Look9(o)
  <2>1. /\ p.at = "look9"
        /\ r.at = IF Lacks9(o) THEN "add9" ELSE "ready"
        /\ r.repair9 = Lacks9(o) /\ r.repair8 = p.repair8 /\ r.seen = p.seen
    <3>1. r = [p EXCEPT !.at = IF Lacks9(o) THEN "add9" ELSE "ready", !.repair9 = Lacks9(o)]
      BY <1>5 DEF Look9, OpenerIs, MigTypeOK
    <3> QED
      BY <1>5, <3>1 DEF Look9, IsAt, Opener
  <2>3. (sound' /\ r.at \notin Unversioned => Reached(r.seen)') /\ TablesMade(r)'
    BY <2>1, <1>p DEF Progress, Unversioned, TablesMade
  <2>4. Named(r)'
    BY <2>1, <1>p DEF Progress, Named, RowsNamed, Repairing8, Done8, Repairing9, Done9
  <2>5. Completed(r)'
    <3>1. CASE Lacks9(o)
      BY <2>1, <3>1 DEF Completed, Repairing9, Done9
    <3>2. CASE ~Lacks9(o)
      <4>1. p.seen >= 9 /\ {"checkpoint", "provider"} \subseteq columns'
        <5>1. p.seen \in 1..11 /\ columns' = columns
          BY <1>5 DEF Look9, Opener
        <5> QED
          BY <3>2, <5>1 DEF Lacks9
      <4>2. "artifact" \in columns'
        BY <2>1, <1>p DEF Progress, Named, Done8
      <4>3. columns' = Columns
        BY <4>1, <4>2 DEF Columns, MigTypeOK
      <4> QED
        BY <2>1, <3>2, <4>1, <4>3 DEF Completed, Repairing9, Done9
    <3> QED
      BY <3>1, <3>2
  <2>6. Finished(r)'
    BY <2>1 DEF Finished, Done9
  <2> QED
    BY <2>3, <2>4, <2>5, <2>6 DEF Progress
<1>6. CASE AddMissingColumns(o)
  <2>1. \/ Follows("add8", "list8") /\ "artifact" \in columns'
        \/ Follows("add9", "add9jobs") /\ "checkpoint" \in columns'
        \/ Follows("add9jobs", "v9") /\ "provider" \in columns'
    BY <1>6, GoesOn DEF AddMissingColumns, IsAt, NextPlace
  <2>2. (sound' /\ r.at \notin Unversioned => Reached(r.seen)') /\ TablesMade(r)'
    BY <2>1, <1>p DEF Progress, Unversioned, TablesMade
  <2>3. Named(r)'
    BY <2>1, <1>p DEF Progress, Named, RowsNamed, Repairing8, Done8, Repairing9, Done9
  <2>4. Completed(r)'
    <3>1. p.at = "add9jobs" => columns' = Columns
      <4>1. p.at = "add9jobs" => {"artifact", "checkpoint", "provider"} \subseteq columns'
        BY <2>1, <1>p DEF Progress, Named, Completed, Done8, Repairing9
      <4> QED
        BY <4>1 DEF Columns, MigTypeOK
    <3> QED
      BY <2>1, <3>1, <1>p DEF Progress, Completed, Repairing9, Done9
  <2>5. Finished(r)'
    BY <2>1 DEF Finished, Done9
  <2> QED
    BY <2>2, <2>3, <2>4, <2>5 DEF Progress
<1>7. CASE ListStageRows(o)
  <2>1. /\ p.at = "list8" /\ r.at = "name8" /\ r.todo = staged
        /\ r.seen = p.seen /\ r.repair8 = p.repair8
    <3>1. r = [p EXCEPT !.at = "name8", !.todo = staged]
      BY <1>7 DEF ListStageRows, OpenerIs, MigTypeOK
    <3> QED
      BY <1>7, <3>1 DEF ListStageRows, IsAt, Opener
  <2>2. (sound' /\ r.at \notin Unversioned => Reached(r.seen)') /\ TablesMade(r)'
    BY <2>1, <1>p DEF Progress, Unversioned, TablesMade
  <2>3. Named(r)'
    BY <1>7, <2>1, <1>p DEF ListStageRows, Progress, Named, Repairing8, Done8, Repairing9, Done9
  <2>4. Completed(r)' /\ Finished(r)'
    BY <2>1 DEF Completed, Finished, Repairing9, Done9
  <2> QED
    BY <2>2, <2>3, <2>4 DEF Progress
<1>8. CASE NameRow(o)
  <2>1. PICK x \in p.todo : /\ named' = named \cup ({x} \cap staged)
                            /\ OpenerIs(o, [p EXCEPT !.todo = @ \ {x}])
    BY <1>8 DEF NameRow
  <2>2. /\ p.at = "name8" /\ r.at = "name8" /\ r.todo = p.todo \ {x}
        /\ r.seen = p.seen /\ r.repair8 = p.repair8
    <3>1. r = [p EXCEPT !.todo = @ \ {x}]
      BY <2>1 DEF OpenerIs, MigTypeOK
    <3> QED
      BY <1>8, <3>1 DEF NameRow, IsAt, Opener
  <2>3. (sound' /\ r.at \notin Unversioned => Reached(r.seen)') /\ TablesMade(r)'
    BY <2>2, <1>p DEF Progress, Unversioned, TablesMade
  <2>4. staged' \ named' \subseteq r.todo
    <3>1. staged \ named \subseteq p.todo
      BY <2>2, <1>p DEF MigInv, Progress, Named
    <3> QED
      BY <1>8, <2>1, <2>2, <3>1 DEF NameRow
  <2>5. Named(r)'
    BY <2>2, <2>4, <1>p DEF Progress, Named, Repairing8, Done8, Repairing9, Done9
  <2>6. Completed(r)' /\ Finished(r)'
    BY <2>2 DEF Completed, Finished, Repairing9, Done9
  <2> QED
    BY <2>3, <2>5, <2>6 DEF Progress
<1>9. CASE AllNamed(o)
  <2>1. Follows("name8", "index8") /\ p.todo = {}
    BY <1>9, GoesOn DEF AllNamed, IsAt, NextPlace
  <2>2. (sound' /\ r.at \notin Unversioned => Reached(r.seen)') /\ TablesMade(r)'
    BY <2>1, <1>p DEF Progress, Unversioned, TablesMade
  <2>3. named' = staged'
    BY <2>1, <1>p DEF Progress, Named, MigTypeOK
  <2>4. Named(r)'
    BY <2>1, <2>3, <1>p DEF Progress, Named, Repairing8, Done8, Repairing9, Done9
  <2>5. Completed(r)' /\ Finished(r)'
    BY <2>1 DEF Completed, Finished, Repairing9, Done9
  <2> QED
    BY <2>2, <2>4, <2>5 DEF Progress
<1>10. CASE CreateIndex(o)
  <2>1. \/ Follows("index8", "v8") /\ "artifact" \in indexes'
        \/ Follows("ready", "own") /\ "provider" \in indexes'
        \/ Follows("index11", "v11") /\ (p.seen >= 11 \/ "retention" \in indexes')
    BY <1>10, GoesOn DEF CreateIndex, IsAt, NextPlace
  <2>2. (sound' /\ r.at \notin Unversioned => Reached(r.seen)') /\ TablesMade(r)'
    BY <2>1, <1>p DEF Progress, Unversioned, TablesMade
  <2>3. Named(r)'
    BY <2>1, <1>p DEF Progress, Named, RowsNamed, Repairing8, Done8, Repairing9, Done9
  <2>4. Completed(r)'
    BY <2>1, <1>p DEF Progress, Completed, Repairing9, Done9
  <2>5. Finished(r)'
    <3>1. p.at = "index11" /\ sound' => "retention" \in indexes'
      BY <2>1, <1>p DEF Progress, Reached, Unversioned
    <3> QED
      BY <2>1, <3>1, <1>p DEF Progress, Finished, Done9
  <2> QED
    BY <2>2, <2>3, <2>4, <2>5 DEF Progress
<1>11. CASE OwnWorker(o)
  <2>1. Follows("own", "v10")
    BY <1>11, GoesOn DEF OwnWorker, IsAt, NextPlace
  <2>2. (sound' /\ r.at \notin Unversioned => Reached(r.seen)') /\ TablesMade(r)'
    BY <2>1, <1>p DEF Progress, Unversioned, TablesMade
  <2>3. Named(r)'
    BY <2>1, <1>p DEF Progress, Named, RowsNamed, Repairing8, Done8, Repairing9, Done9
  <2>4. Completed(r)'
    BY <2>1, <1>p DEF Progress, Completed, Repairing9, Done9
  <2>5. p.seen < 10 \/ p.repair8 \/ p.repair9 => Owned'
    <3>1. "provider" \in columns
      BY <2>1, <1>p DEF Progress, Completed, Done9, Columns
    <3>2. \A j \in CodexJobs : j \in StoredJobs /\ worker[j] \in Workers \ {"unset"}
      BY <3>1, MigrationAssumption DEF MigInv, WorkersKnown, MigTypeOK
    <3> QED
      BY <1>11, <3>2 DEF OwnWorker, Owned, Workers
  <2>6. Finished(r)'
    BY <2>1, <2>5, <1>p DEF Progress, Finished, Done9
  <2> QED
    BY <2>2, <2>3, <2>4, <2>6 DEF Progress
<1> QED
  BY <1>1, <1>2, <1>3, <1>4, <1>5, <1>6, <1>7, <1>8, <1>9, <1>10, <1>11 DEF Migrates

\* The invariant holds throughout.
LEMMA MigInvStep == MigTypeOK /\ MigInv /\ [MigNext]_migVars => MigInv'
<1> SUFFICES ASSUME MigTypeOK, MigInv, [MigNext]_migVars PROVE MigInv'
  OBVIOUS
<1>1. MigTypeOK' /\ Growth /\ WorkersKnown'
  BY MigTypeStep, GrowthStep, WorkersKnownStep DEF MigInv
<1>2. sound' => Reached(version)'
  <2>1. PICK v \in 1..11 : v = version'
    BY <1>1 DEF MigTypeOK
  <2>2. sound' => Reached(v)
    BY <2>1, VersionStep
  <2>3. sound' => Reached(v)'
    BY <1>1, <2>2, ReachedKept
  <2> QED
    BY <2>1, <2>3 DEF Reached, RowsNamed, Owned
<1>3. ASSUME NEW o \in Openers PROVE Progress(opener[o])'
  <2>1. CASE opener'[o] = opener[o]
    <3>1. PICK p \in Opener : p = opener[o]
      BY DEF MigTypeOK
    <3>2. Progress(p)'
      BY <1>1, <3>1, ProgressKept DEF MigInv
    <3> QED
      BY <2>1, <3>1, <3>2 DEF Progress, TablesMade, Named, Completed, Finished, Reached, RowsNamed, Owned
  <2>2. CASE Migrates(o)
    BY <1>1, <2>2, ProgressStep
  <2>3. CASE CloseStore(o)
    <3>1. opener'[o].at = "stage"
      BY <2>3 DEF CloseStore, OpenerIs, ClosedStore, MigTypeOK
    <3> QED
      BY <3>1 DEF Progress, Unversioned, TablesMade, Named, Completed, Finished,
          Repairing8, Repairing9, Done8, Done9
  <2>4. ASSUME NEW q \in Openers \ {o}, Migrates(q) \/ CloseStore(q) PROVE opener'[o] = opener[o]
    BY <2>4, OnlyOwnRecord
  <2>5. ASSUME NEW q \in Openers, Upsert(q) \/ DeleteRow(q) \/ EnqueueJob(q) PROVE opener'[o] = opener[o]
    BY <2>5 DEF Upsert, DeleteRow, EnqueueJob
  <2>6. CASE UNCHANGED migVars
    BY <2>1, <2>6 DEF migVars
  <2> QED
    BY <2>1, <2>2, <2>3, <2>4, <2>5, <2>6 DEF MigNext
<1> QED
  BY <1>1, <1>2, <1>3 DEF MigInv

\* At the end of its way an opener has reached everything.
LEMMA MigInvImplies == MigTypeOK /\ MigInv => OpenedIsMigrated
<1> SUFFICES ASSUME MigTypeOK, MigInv, NEW o \in Openers, opener[o].at = "open"
             PROVE  /\ columns = Columns /\ tables = {"stage", "jobs"} /\ "provider" \in indexes
                    /\ sound \/ opener[o].repair8 => RowsNamed
                    /\ sound \/ opener[o].repair8 \/ opener[o].repair9 => Owned
                    /\ sound => "retention" \in indexes
  BY DEF OpenedIsMigrated, IsAt
<1> PICK p \in Opener : p = opener[o]
  BY DEF MigTypeOK
<1>1. /\ sound => Reached(p.seen)
      /\ TablesMade(p) /\ Named(p) /\ Completed(p) /\ Finished(p)
  BY DEF MigInv, Progress, Unversioned
<1>2. p.at = "open" /\ p.seen \in 1..11
  BY DEF Opener
<1>3. columns = Columns
  BY <1>1, <1>2 DEF Completed, Done9
<1>4. tables = {"stage", "jobs"}
  BY <1>1, <1>2 DEF TablesMade, MigTypeOK
<1>5. "provider" \in indexes /\ (sound => "retention" \in indexes)
  BY <1>1, <1>2 DEF Finished, Done9
<1>6. sound \/ p.repair8 => RowsNamed
  BY <1>1, <1>2 DEF Named, Reached, Done8, Done9
<1>7. sound \/ p.repair8 \/ p.repair9 => Owned
  BY <1>1, <1>2 DEF Finished, Reached, Done9
<1> QED
  BY <1>3, <1>4, <1>5, <1>6, <1>7

\* Every opener ends with a whole store, whatever the number of openers, where
\* the others died and which version they wrote last.
THEOREM OpenedHolds == MigSpec => []OpenedIsMigrated
  BY MigInitType, MigTypeStep, MigInitInv, MigInvStep, MigInvImplies, PTL DEF MigSpec

----------------------------------------------------------------------------
(***************************************************************************)
(* StoreGC, for any numbers of collectors, sessions, pieces of memory and  *)
(* trash entries.                                                          *)
(*                                                                         *)
(* An entry belongs to the collector that made it (Entries), and the       *)
(* lifecycle lock keeps the store at the path and the entry empty while it *)
(* is held (Guarded). Most steps are calm: they neither take a store away  *)
(* nor fill or drop an entry that something lives in (CalmFiles,           *)
(* CalmActors), and such steps keep the invariant (CalmKeeps). The others  *)
(* are the move to the trash and the two ways back (MoveStoreKeeps,        *)
(* BroughtBack). On top of this, entries have an order and the tombstone   *)
(* points at the newest that may be needed (OrderIInv), which is what an   *)
(* adopting session relies on.                                             *)
(***************************************************************************)

(***************************************************************************)
(* The trash                                                               *)
(***************************************************************************)
\* Of some copies one is the newest: the one that the fewest are newer than.
LEMMA NewestIsOne ==
  ASSUME NEW S \in SUBSET Copies, S # {}
  PROVE  Newest(S) \in S /\ \A f \in S : f <= Newest(S)
<1> DEFINE Newer(e) == {f \in S : f > e}
           Counts == {Cardinality(Newer(e)) : e \in S}
<1>1. S \in SUBSET Nat /\ IsFiniteSet(S)
  BY GcAssumption, FS_Subset
<1>2. \A e \in S : IsFiniteSet(Newer(e)) /\ Cardinality(Newer(e)) \in Nat
  BY <1>1, FS_Subset, FS_CardinalityType
<1>3. Counts \in SUBSET Nat /\ Counts # {}
  BY <1>2
<1>4. PICK c \in Counts : \A b \in Counts : ~(<<b, c>> \in OpToRel(<, Nat))
  BY <1>3, WFMin, NatLessThanWellFounded
<1>5. \A b \in Counts : ~(b < c)
  BY <1>3, <1>4 DEF OpToRel
<1>6. PICK e \in S : c = Cardinality(Newer(e))
  BY <1>4
<1>7. ASSUME NEW f \in S PROVE f <= e
  <2> SUFFICES ASSUME f > e PROVE FALSE
    BY <1>1
  <2>1. f \in Newer(e) /\ Newer(f) \subseteq Newer(e) \ {f}
    BY <1>1, <1>6
  <2>2. IsFiniteSet(Newer(e)) /\ Cardinality(Newer(e)) \in Nat /\ Cardinality(Newer(f)) \in Nat
    BY <1>2
  <2> HIDE DEF Newer
  <2>3. IsFiniteSet(Newer(e) \ {f}) /\ Cardinality(Newer(e) \ {f}) = Cardinality(Newer(e)) - 1
    BY <2>1, <2>2, FS_RemoveElement
  <2>4. Cardinality(Newer(f)) <= Cardinality(Newer(e) \ {f})
    BY <2>1, <2>3, FS_Subset
  <2>5. Cardinality(Newer(f)) < c
    BY <1>6, <2>2, <2>3, <2>4
  <2>6. Cardinality(Newer(f)) \in Counts
    BY <1>7
  <2> HIDE DEF Counts
  <2> QED
    BY <1>5, <2>5, <2>6
<1> HIDE DEF Newer
<1> QED
  BY <1>7 DEF Newest

\* The entry that is made is one that never was.
LEMMA FirstUnused ==
  ASSUME NEW S \in SUBSET Copies, S # {}
  PROVE  LET e == CHOOSE e \in S : \A f \in S : e <= f
         IN e \in S /\ \A f \in S : e <= f
<1>1. S \in SUBSET Nat
  BY GcAssumption
<1>2. PICK e \in S : \A f \in S : ~(<<f, e>> \in OpToRel(<, Nat))
  BY <1>1, NatLessThanWellFounded, WFMin
<1>3. ASSUME NEW f \in S PROVE e <= f
  <2>1. ~(<<f, e>> \in Nat \X Nat /\ f < e)
    BY <1>2 DEF OpToRel
  <2> QED
    BY <1>1, <2>1
<1> QED
  BY <1>3

\* A directory loses a lease; every directory that is none stays none.
LEMMA LeaseLost ==
  ASSUME NEW d \in Sites, NEW s
  PROVE  [d EXCEPT !.leases = @ \ {s}] \in Sites /\ [d EXCEPT !.leases = @ \ {s}].kind = d.kind
<1>1. CASE d \in Store
  BY <1>1 DEF Sites, Store
<1>2. CASE d = Nothing \/ d = Ghost
  <2>1. [d EXCEPT !.leases = @ \ {s}] = d
    BY <1>2 DEF Nothing, Ghost, NoSite
  <2> QED
    BY <2>1
<1> QED
  BY <1>1, <1>2 DEF Sites

LEMMA KindsOfSites ==
  /\ Nothing \in Sites /\ Ghost \in Sites /\ NewStore \in Sites /\ NewStore \in Store
  /\ Nothing.kind = "none" /\ Ghost.kind = "ghost" /\ NewStore.kind = "store"
  /\ \A d \in Sites : d.kind = "store" <=> d \in Store
BY DEF Sites, Store, Nothing, Ghost, NewStore, NoSite

LEMMA NoCopyTyped == NoCopy \in Copy /\ NoCopy.state = "unused"
BY KindsOfSites DEF NoCopy, Copy

Emptied(state) == [NoCopy EXCEPT !.state = state]
LEMMA EmptiedTyped ==
  ASSUME NEW state \in {"made", "purging", "gone"}
  PROVE  Emptied(state) \in Copy /\ Emptied(state).state = state
BY NoCopyTyped DEF Emptied, Copy

----------------------------------------------------------------------------
(***************************************************************************)
(* The inductive invariant                                                 *)
(***************************************************************************)
Moving(g) == gc[g].pc \in {"made", "tombstoned"}
HoldsLock(g) == Moving(g) \/ gc[g].pc = "rolled"
HasMoved(g) == gc[g].pc \in {"moved", "rolling"}
Busy(g) == HoldsLock(g) \/ HasMoved(g)

\* A collector's entry is its own, and one that was made.
Entries ==
    /\ \A g \in Collectors : Busy(g) => gc[g].entry \in Copies /\ trash[gc[g].entry].state # "unused"
    /\ \A g, h \in Collectors : Busy(g) /\ Busy(h) /\ gc[g].entry = gc[h].entry => g = h
\* Under the lock the store stays where it is and the entry empty.
Guarded ==
    /\ \A g \in Collectors : HoldsLock(g) => trash[gc[g].entry].state = "made"
    /\ \A g \in Collectors : Moving(g) => site.kind = "store"
    /\ \A s \in Sessions : session[s].pc = "restoring" =>
          session[s].found \in Copies /\ trash[session[s].found].state = "made" /\ site.kind = "store"
\* What was moved is a store, and known as dead or not to its collector.
MovedStores ==
    /\ \A e \in Full : trash[e].store.kind = "store"
    /\ \A g \in Collectors : HasMoved(g) /\ gc[g].entry \in Full => trash[gc[g].entry].dead = gc[g].dead
GcIInv == GcTypeOK /\ Entries /\ Guarded /\ MovedStores /\ StoresAreKept

\* What most steps keep to.  A store at the path stays one; items are written
\* to it or purged; a copy stays what it was, or is dropped when nothing lives
\* in it and nobody is at work on it; no collector goes on to the work of
\* another step; and one that leaves its entry leaves no work there.
SameCopy(e) ==
    /\ trash'[e].state = trash[e].state /\ trash'[e].dead = trash[e].dead
    /\ trash'[e].store.kind = trash[e].store.kind /\ (trash[e].excused => trash'[e].excused)
DroppedCopy(e) ==
    /\ trash'[e].state \in {"purging", "gone"}
    /\ \A i \in Items : items'[i].as \in Living => items'[i].at # e
    /\ \A g \in Collectors : HoldsLock(g)' => gc'[g].entry # e
    /\ \A s \in Sessions : session'[s].pc = "restoring" => session'[s].found # e
CalmFiles ==
    /\ site.kind = "store" => site'.kind = "store"
    /\ \A i \in Items : \/ items'[i] = items[i] \/ items'[i].as \notin Living
                        \/ items'[i].at = 0 /\ site'.kind = "store"
    /\ \A e \in Copies : SameCopy(e) \/ DroppedCopy(e)
CalmActors ==
    /\ \A g \in Collectors : Busy(g)' =>
          /\ gc'[g].entry = gc[g].entry /\ gc'[g].dead = gc[g].dead
          /\ Moving(g)' <=> Moving(g)
          /\ HoldsLock(g)' <=> HoldsLock(g)
          /\ HasMoved(g)' <=> HasMoved(g)
    /\ \A g \in Collectors : HasMoved(g) =>
          LET e == gc[g].entry
          IN \/ HasMoved(g)' /\ gc'[g].entry = e
             \/ e \notin Full \/ trash'[e].excused \/ trash'[e].dead \/ At(e, {"job"}) = {}
    /\ \A s \in Sessions : session'[s].pc = "restoring" =>
          session[s].pc = "restoring" /\ session'[s].found = session[s].found

LEMMA CalmKeeps ==
  ASSUME GcIInv, GcTypeOK', CalmFiles, CalmActors
  PROVE  GcIInv'
<1> USE DEF GcIInv
<1>1. \A e \in Copies : e # 0
  BY GcAssumption
<1>2. Entries'
  BY DEF Entries, CalmFiles, CalmActors, SameCopy, DroppedCopy, Busy
<1>3. Guarded'
  <2>1. ASSUME NEW g \in Collectors, HoldsLock(g)' PROVE trash'[gc'[g].entry].state = "made"
    <3>1. HoldsLock(g) /\ gc'[g].entry = gc[g].entry /\ gc[g].entry \in Copies
      BY <2>1 DEF CalmActors, Busy, Entries
    <3> QED
      BY <2>1, <3>1 DEF Guarded, CalmFiles, SameCopy, DroppedCopy
  <2>2. ASSUME NEW g \in Collectors, Moving(g)' PROVE site'.kind = "store"
    BY <2>2 DEF CalmActors, CalmFiles, Guarded, Busy, HoldsLock
  <2>3. ASSUME NEW s \in Sessions, session'[s].pc = "restoring"
        PROVE  session'[s].found \in Copies /\ trash'[session'[s].found].state = "made" /\ site'.kind = "store"
    BY <2>3 DEF CalmActors, CalmFiles, SameCopy, DroppedCopy, Guarded
  <2> QED
    BY <2>1, <2>2, <2>3 DEF Guarded
<1>4. MovedStores'
  <2>1. \A e \in Full' : e \in Full /\ SameCopy(e)
    BY DEF Full, CalmFiles, SameCopy, DroppedCopy
  <2>2. \A e \in Full' : trash'[e].store.kind = "store"
    BY <2>1 DEF MovedStores, SameCopy
  <2>3. ASSUME NEW g \in Collectors, HasMoved(g)', gc'[g].entry \in Full' PROVE trash'[gc'[g].entry].dead = gc'[g].dead
    BY <2>1, <2>3 DEF MovedStores, SameCopy, CalmActors, Busy
  <2> QED
    BY <2>2, <2>3 DEF MovedStores
<1>5. NothingVanishes'
  <2> SUFFICES ASSUME NEW i \in Items, items'[i].as \in Living
               PROVE  IF items'[i].at = 0 THEN site'.kind = "store" ELSE trash'[items'[i].at].state = "full"
    BY DEF NothingVanishes
  <2>1. CASE items'[i] # items[i]
    BY <2>1 DEF CalmFiles
  <2>2. CASE items'[i] = items[i]
    <3>1. IF items[i].at = 0 THEN site.kind = "store" ELSE trash[items[i].at].state = "full"
      BY <2>2 DEF StoresAreKept, NothingVanishes
    <3>2. CASE items[i].at = 0
      BY <2>2, <3>1, <3>2 DEF CalmFiles
    <3>3. CASE items[i].at # 0
      <4>1. items[i].at \in Copies
        BY <3>3 DEF GcTypeOK, Item
      <4>2. SameCopy(items[i].at)
        BY <2>2, <4>1 DEF CalmFiles, DroppedCopy
      <4> QED
        BY <2>2, <3>1, <3>3, <4>2 DEF SameCopy
    <3> QED
      BY <3>2, <3>3
  <2> QED
    BY <2>1, <2>2
<1>6. WorkIsBroughtBack'
  <2> SUFFICES ASSUME NEW e \in Copies, trash'[e].state = "full", NEW i \in Items, items'[i].as = "job", items'[i].at = e,
                      ~trash'[e].dead, ~trash'[e].excused
               PROVE  \E g \in Collectors : gc'[g].entry = e /\ gc'[g].pc \in {"moved", "rolling"}
    BY DEF WorkIsBroughtBack, Full, At
  <2>1. SameCopy(e) /\ items'[i] = items[i]
    BY <1>1 DEF CalmFiles, DroppedCopy, Living
  <2>2. e \in Full /\ i \in At(e, {"job"}) /\ ~trash[e].dead /\ ~trash[e].excused
    BY <2>1 DEF Full, At, SameCopy
  <2>3. PICK g \in Collectors : gc[g].entry = e /\ HasMoved(g)
    BY <2>2 DEF StoresAreKept, WorkIsBroughtBack, HasMoved
  <2>4. HasMoved(g)' /\ gc'[g].entry = e
    BY <2>2, <2>3 DEF CalmActors
  <2> QED
    BY <2>4 DEF HasMoved
<1> QED
  BY <1>2, <1>3, <1>4, <1>5, <1>6 DEF StoresAreKept

\* What leaves the files alone.
LEMMA SameFiles ==
  ASSUME UNCHANGED <<items, trash>>, site.kind = "store" => site'.kind = "store"
  PROVE  CalmFiles
BY DEF CalmFiles, SameCopy

\* What leaves the actors alone, but for a look at a store that was written to.
LEMMA SameActors ==
  ASSUME gc \in [Collectors -> Gc], UNCHANGED session, UNCHANGED gc \/ Touched
  PROVE  CalmActors
<1>1. \A g \in Collectors : gc'[g].pc = gc[g].pc /\ gc'[g].entry = gc[g].entry /\ gc'[g].dead = gc[g].dead
  BY DEF Touched, Gc
<1> QED
  BY <1>1 DEF CalmActors, Busy, HoldsLock, Moving, HasMoved

LEMMA TouchedTyped ==
  ASSUME GcTypeOK, Touched
  PROVE  gc' \in [Collectors -> Gc] /\ \A g \in Collectors : gc'[g].pc = gc[g].pc
<1>1. gc \in [Collectors -> Gc]
  BY DEF GcTypeOK
<1>2. \A g \in Collectors : (gc[g].changed \/ gc[g].pc \in {"planned", "inspected"}) \in BOOLEAN
  OBVIOUS
<1> QED
  BY <1>1, <1>2 DEF Touched, Gc

\* What becomes of one collector, or of one session.
LEMMA GcIsTyped ==
  ASSUME GcTypeOK, NEW g \in Collectors, NEW r \in Gc, GcIs(g, r)
  PROVE  gc' \in [Collectors -> Gc] /\ gc'[g] = r /\ \A h \in Collectors \ {g} : gc'[h] = gc[h]
BY DEF GcIs, GcTypeOK

LEMMA GcFields ==
  ASSUME GcTypeOK, NEW g \in Collectors
  PROVE  /\ NoGc \in Gc /\ NoGc.pc = "idle" /\ gc[g] \in Gc
         /\ \A p \in {"inspected", "made", "tombstoned", "moved", "rolling", "rolled"} :
               /\ [gc[g] EXCEPT !.pc = p] \in Gc /\ [gc[g] EXCEPT !.pc = p].pc = p
               /\ [gc[g] EXCEPT !.pc = p].entry = gc[g].entry /\ [gc[g] EXCEPT !.pc = p].dead = gc[g].dead
<1>1. gc[g] \in Gc
  BY DEF GcTypeOK
<1> QED
  BY <1>1 DEF NoGc, Gc

LEMMA GcAtTyped ==
  ASSUME GcTypeOK, NEW g \in Collectors, NEW p \in {"inspected", "made", "tombstoned", "moved", "rolling", "rolled"},
         GcAt(g, p)
  PROVE  /\ gc' \in [Collectors -> Gc] /\ gc'[g].pc = p /\ gc'[g].entry = gc[g].entry /\ gc'[g].dead = gc[g].dead
         /\ \A h \in Collectors \ {g} : gc'[h] = gc[h]
<1> DEFINE r == [gc[g] EXCEPT !.pc = p]
<1>1. r \in Gc /\ r.pc = p /\ r.entry = gc[g].entry /\ r.dead = gc[g].dead
  BY GcFields
<1>2. GcIs(g, r)
  BY DEF GcAt
<1> HIDE DEF r
<1> QED
  BY <1>1, <1>2, GcIsTyped

LEMMA SessionAtTyped ==
  ASSUME GcTypeOK, NEW s \in Sessions, SessionAt(s, "adopted") \/ SessionAt(s, "opened")
           \/ SessionAt(s, "using") \/ SessionAt(s, "committed")
  PROVE  /\ session' \in [Sessions -> Session] /\ session'[s].pc # "restoring"
         /\ \A t \in Sessions \ {s} : session'[t] = session[t]
BY DEF SessionAt, GcTypeOK, Session

\* A session that is not at work on a copy.
LEMMA SessionCalm ==
  ASSUME GcTypeOK, NEW s \in Sessions, session'[s].pc # "restoring", UNCHANGED gc \/ Touched,
         \A t \in Sessions \ {s} : session'[t] = session[t]
  PROVE  CalmActors
<1>1. \A g \in Collectors : gc'[g].pc = gc[g].pc /\ gc'[g].entry = gc[g].entry /\ gc'[g].dead = gc[g].dead
  BY DEF Touched, Gc, GcTypeOK
<1> QED
  BY <1>1 DEF CalmActors, Busy, HoldsLock, Moving, HasMoved

LEMMA PlanKeeps ==
  ASSUME GcIInv, NEW g \in Collectors, Plan(g)
  PROVE  GcIInv'
<1>1. GcTypeOK
  BY DEF GcIInv
<1>2. /\ gc[g].pc = "idle" /\ site.kind = "store"
      /\ UNCHANGED <<items, trash, tombstone, workdir, gcLock, session, gcFaults>>
  BY DEF Plan
<1>3. site \in Store
  BY <1>1, <1>2, KindsOfSites DEF GcTypeOK
<1>4. site' \in Sites /\ site'.kind = "store"
  BY <1>3 DEF Plan, Store, Sites
<1> DEFINE planned == [NoGc EXCEPT !.pc = "planned", !.tier = Tier]
<1>5. gc' = gc \/ gc' = [gc EXCEPT ![g] = planned]
  BY DEF Plan, GcIs
<1>6. planned \in Gc /\ planned.pc = "planned"
  BY DEF NoGc, Gc, Tier
<1> HIDE DEF planned
<1>7. /\ gc' \in [Collectors -> Gc] /\ gc'[g].pc \in {"idle", "planned"}
      /\ \A h \in Collectors \ {g} : gc'[h] = gc[h]
  BY <1>1, <1>2, <1>5, <1>6 DEF GcTypeOK, NoGc
<1>8. GcTypeOK'
  BY <1>1, <1>2, <1>4, <1>7 DEF GcTypeOK
<1>9. CalmActors
  BY <1>2, <1>7 DEF CalmActors, Busy, HoldsLock, Moving, HasMoved
<1> QED
  BY <1>2, <1>4, <1>8, <1>9, SameFiles, CalmKeeps

LEMMA InspectKeeps ==
  ASSUME GcIInv, NEW g \in Collectors, Inspect(g)
  PROVE  GcIInv'
<1>1. GcTypeOK
  BY DEF GcIInv
<1>2. gc[g].pc = "planned" /\ UNCHANGED <<site, items, trash, tombstone, workdir, gcLock, session, gcFaults>>
  BY DEF Inspect
<1>3. PICK dead \in BOOLEAN : gc' = [gc EXCEPT ![g] = NoGc] \/ gc' = [gc EXCEPT ![g] = [gc[g] EXCEPT !.pc = "inspected", !.dead = dead]]
  <2> DEFINE dead == gc[g].tier = "orphan" /\ At(0, {"job"}) # {} /\ site.quiet
  <2>1. dead \in BOOLEAN
    BY <1>1, KindsOfSites DEF GcTypeOK, Sites, Store, Nothing, Ghost, NoSite
  <2>2. gc' = [gc EXCEPT ![g] = NoGc] \/ gc' = [gc EXCEPT ![g] = [gc[g] EXCEPT !.pc = "inspected", !.dead = dead]]
    BY DEF Inspect, GcIs
  <2> HIDE DEF dead
  <2> QED
    BY <2>1, <2>2
<1>4. /\ NoGc \in Gc /\ NoGc.pc = "idle"
      /\ [gc[g] EXCEPT !.pc = "inspected", !.dead = dead] \in Gc
      /\ [gc[g] EXCEPT !.pc = "inspected", !.dead = dead].pc = "inspected"
  BY <1>1, GcFields DEF Gc
<1>5. /\ gc' \in [Collectors -> Gc] /\ gc'[g].pc \in {"idle", "inspected"}
      /\ \A h \in Collectors \ {g} : gc'[h] = gc[h]
  BY <1>1, <1>3, <1>4, GcIsTyped DEF GcIs
<1>6. GcTypeOK'
  BY <1>1, <1>2, <1>5 DEF GcTypeOK
<1>7. CalmActors
  BY <1>2, <1>5 DEF CalmActors, Busy, HoldsLock, Moving, HasMoved
<1> QED
  BY <1>2, <1>6, <1>7, SameFiles, CalmKeeps

----------------------------------------------------------------------------
(***************************************************************************)
(* The collector's steps                                                   *)
(***************************************************************************)
\* The lock has one holder.
LEMMA LockIsOne ==
  ASSUME GcTypeOK
  PROVE  /\ \A g \in Collectors : HoldsLock(g) <=> gcLock = g
         /\ \A s \in Sessions : session[s].pc = "restoring" <=> gcLock = s
         /\ \A g \in Collectors, s \in Sessions : g # s
         /\ \A x \in Collectors \cup Sessions : x # "free"
BY GcAssumption DEF GcTypeOK, HoldsLock, Moving

LEMMA PurgedItems ==
  ASSUME GcTypeOK, NEW S \in SUBSET Copies, Purged(S)
  PROVE  /\ items' \in [Items -> Item]
         /\ \A i \in Items : \/ items'[i] = items[i] /\ (items[i].as \in Living => items[i].at \notin S)
                             \/ items'[i].as \notin Living
BY DEF Purged, GcTypeOK, Item, Living

LEMMA PurgeKeeps ==
  ASSUME GcIInv, NEW g \in Collectors, Purge(g)
  PROVE  GcIInv'
<1>1. GcTypeOK
  BY DEF GcIInv
<1> DEFINE drop(e) == Eligible(e) \/ Debris(e) \/ trash[e].state = "purging"
<1>2. /\ gcLock = "free" /\ UNCHANGED <<site, workdir, gcLock, gc, session, gcFaults>>
      /\ trash' = [e \in Copies |-> IF drop(e) THEN Emptied("gone") ELSE trash[e]]
      /\ tombstone' \in {0, tombstone}
  BY DEF Purge, Emptied
<1>3. trash' \in [Copies -> Copy]
  BY <1>1, <1>2, EmptiedTyped DEF GcTypeOK
<1>4. {e \in Copies : Eligible(e)} \in SUBSET Copies /\ Purged({e \in Copies : Eligible(e)})
  BY DEF Purge
<1>5. /\ items' \in [Items -> Item]
      /\ \A i \in Items : \/ items'[i] = items[i] /\ (items[i].as \in Living => items[i].at \notin {e \in Copies : Eligible(e)})
                          \/ items'[i].as \notin Living
  BY <1>1, <1>4, PurgedItems
<1>6. GcTypeOK'
  BY <1>1, <1>2, <1>3, <1>5 DEF GcTypeOK
<1>7. \A h \in Collectors : ~HoldsLock(h)' /\ \A s \in Sessions : session'[s].pc # "restoring"
  BY <1>1, <1>2, LockIsOne DEF HoldsLock, Moving
<1>8. ASSUME NEW e \in Copies PROVE SameCopy(e) \/ DroppedCopy(e)
  <2>1. CASE ~drop(e)
    BY <1>2, <2>1 DEF SameCopy
  <2>2. CASE drop(e)
    <3>1. trash'[e].state = "gone"
      BY <1>2, <2>2, EmptiedTyped
    <3>2. ASSUME NEW i \in Items, items'[i].as \in Living, items'[i].at = e PROVE FALSE
      <4>1. items[i] = items'[i] /\ ~Eligible(e)
        BY <1>5, <3>2
      <4>2. trash[e].state = "full"
        BY <3>2, <4>1, GcAssumption DEF GcIInv, StoresAreKept, NothingVanishes
      <4> QED
        BY <2>2, <4>1, <4>2 DEF Debris
    <3> QED
      BY <1>7, <3>1, <3>2 DEF DroppedCopy
  <2> QED
    BY <2>1, <2>2
<1>9. CalmFiles
  BY <1>2, <1>5, <1>8 DEF CalmFiles
<1> QED
  BY <1>1, <1>2, <1>6, <1>9, SameActors, CalmKeeps DEF GcTypeOK

LEMMA PurgeDiesKeeps ==
  ASSUME GcIInv, NEW g \in Collectors, NEW e \in Copies, PurgeDies(g, e)
  PROVE  GcIInv'
<1>1. GcTypeOK
  BY DEF GcIInv
<1>2. /\ gcLock = "free" /\ UNCHANGED <<site, tombstone, workdir, gcLock, gc, session>>
      /\ trash' = [trash EXCEPT ![e] = Emptied("purging")]
      /\ gcFaults' \in 0..MaxGcFaults /\ Eligible(e)
  BY <1>1, GcAssumption DEF PurgeDies, Emptied, GcFault, GcTypeOK
<1>3. trash' \in [Copies -> Copy]
  BY <1>1, <1>2, EmptiedTyped DEF GcTypeOK
<1>4. /\ items' \in [Items -> Item]
      /\ \A i \in Items : \/ items'[i] = items[i] /\ (items[i].as \in Living => items[i].at \notin {e})
                          \/ items'[i].as \notin Living
  BY <1>1, PurgedItems DEF PurgeDies
<1>5. GcTypeOK'
  BY <1>1, <1>2, <1>3, <1>4 DEF GcTypeOK
<1>6. \A h \in Collectors : ~HoldsLock(h)' /\ \A s \in Sessions : session'[s].pc # "restoring"
  BY <1>1, <1>2, LockIsOne DEF HoldsLock, Moving
<1>7. \A f \in Copies \ {e} : SameCopy(f)
  BY <1>2 DEF SameCopy
<1>8. trash'[e].state = "purging"
  BY <1>1, <1>2, EmptiedTyped DEF GcTypeOK
<1>9. DroppedCopy(e)
  BY <1>4, <1>6, <1>8 DEF DroppedCopy
<1>10. CalmFiles
  BY <1>2, <1>4, <1>7, <1>9 DEF CalmFiles
<1> QED
  BY <1>1, <1>2, <1>5, <1>10, SameActors, CalmKeeps DEF GcTypeOK

\* A new entry: nobody else's, and empty.
LEMMA MakeEntryKeeps ==
  ASSUME GcIInv, NEW g \in Collectors, MakeEntry(g)
  PROVE  GcIInv'
<1>1. GcTypeOK
  BY DEF GcIInv
<1>2. /\ gc[g].pc = "inspected" /\ gcLock = "free"
      /\ UNCHANGED <<site, items, tombstone, workdir, session, gcFaults>>
  BY DEF MakeEntry
<1>3. CASE Fenced(g)
  <2>1. GcIs(g, NoGc) /\ UNCHANGED <<trash, gcLock>>
    BY <1>3 DEF MakeEntry
  <2>2. /\ gc' \in [Collectors -> Gc] /\ gc'[g].pc = "idle"
        /\ \A h \in Collectors \ {g} : gc'[h] = gc[h]
    BY <1>1, <2>1, GcFields, GcIsTyped
  <2>3. GcTypeOK'
    BY <1>1, <1>2, <2>1, <2>2 DEF GcTypeOK
  <2>4. CalmActors
    BY <1>2, <2>2 DEF CalmActors, Busy, HoldsLock, Moving, HasMoved
  <2> QED
    BY <1>2, <2>1, <2>3, <2>4, SameFiles, CalmKeeps
<1>4. CASE ~Fenced(g)
  <2> DEFINE e == CHOOSE e \in Unused : \A f \in Unused : e <= f
             made == [gc[g] EXCEPT !.pc = "made", !.entry = e]
  <2>1. /\ trash' = [trash EXCEPT ![e].state = "made"] /\ gcLock' = g
        /\ GcIs(g, made) /\ Unused # {}
    BY <1>4 DEF MakeEntry
  <2>2. e \in Unused
    BY <2>1, FirstUnused DEF Unused
  <2> HIDE DEF e
  <2>3. e \in Copies /\ trash[e].state = "unused"
    BY <2>2 DEF Unused
  <2>4. made \in Gc /\ made.pc = "made" /\ made.entry = e
    BY <1>1, <2>3, GcFields DEF Gc
  <2>5. /\ gc' \in [Collectors -> Gc] /\ gc'[g].pc = "made" /\ gc'[g].entry = e
        /\ \A h \in Collectors \ {g} : gc'[h] = gc[h]
    BY <1>1, <2>1, <2>4, GcIsTyped
  <2> HIDE DEF made
  <2>6. /\ trash' \in [Copies -> Copy] /\ trash'[e].state = "made" /\ \A f \in Copies \ {e} : trash'[f] = trash[f]
    BY <1>1, <2>1, <2>3 DEF GcTypeOK, Copy
  <2>7. site.kind = "store"
    BY <1>4 DEF Fenced
  <2>8. \A h \in Collectors : ~HoldsLock(h)
    BY <1>1, <1>2, LockIsOne
  <2>9. \A s \in Sessions : session[s].pc # "restoring"
    BY <1>1, <1>2, LockIsOne
  <2>10. GcTypeOK'
    <3>1. \A h \in Collectors : (gcLock = h <=> gc[h].pc \in {"made", "tombstoned", "rolled"})'
      BY <2>1, <2>5, <2>8 DEF HoldsLock, Moving
    <3>2. \A s \in Sessions : (gcLock = s <=> session[s].pc = "restoring")'
      BY <1>2, <2>1, <2>9, GcAssumption
    <3> QED
      BY <1>1, <1>2, <2>1, <2>5, <2>6, <3>1, <3>2 DEF GcTypeOK
  <2>11. \A h \in Collectors : Busy(h) => gc[h].entry \in Copies \ {e} /\ h # g
    BY <1>2, <2>3 DEF GcIInv, Entries, Busy, HoldsLock, Moving, HasMoved
  <2>12. Entries'
    <3>1. \A h \in Collectors \ {g} : Busy(h)' <=> Busy(h)
      BY <2>5 DEF Busy, HoldsLock, Moving, HasMoved
    <3>2. Busy(g)' /\ gc'[g].entry = e
      BY <2>5 DEF Busy, HoldsLock, Moving
    <3>3. ASSUME NEW h \in Collectors, Busy(h)' PROVE gc'[h].entry \in Copies /\ trash'[gc'[h].entry].state # "unused"
      <4>1. CASE h = g
        BY <2>3, <2>6, <3>2, <4>1
      <4>2. CASE h # g
        BY <2>5, <2>6, <2>11, <3>1, <3>3, <4>2 DEF GcIInv, Entries
      <4> QED
        BY <4>1, <4>2
    <3>4. ASSUME NEW h \in Collectors, NEW k \in Collectors, Busy(h)', Busy(k)', gc'[h].entry = gc'[k].entry PROVE h = k
      <4>1. \A x \in Collectors \ {g} : Busy(x)' => Busy(x) /\ gc'[x].entry = gc[x].entry /\ gc[x].entry # e
        BY <2>5, <2>11, <3>1
      <4>2. CASE h = g \/ k = g
        BY <3>2, <3>4, <4>1, <4>2
      <4>3. CASE h # g /\ k # g
        BY <3>4, <4>1, <4>3 DEF GcIInv, Entries
      <4> QED
        BY <4>2, <4>3
    <3> QED
      BY <3>3, <3>4 DEF Entries
  <2>13. Guarded'
    BY <1>2, <2>5, <2>6, <2>7, <2>8, <2>9 DEF Guarded, HoldsLock, Moving
  <2>14. Full' = Full /\ \A f \in Full : trash'[f] = trash[f] /\ f # e
    BY <2>3, <2>6 DEF Full
  <2>15. MovedStores'
    BY <2>5, <2>14 DEF GcIInv, MovedStores, HasMoved
  <2>16. NothingVanishes'
    BY <1>2, <2>6, <2>3 DEF GcIInv, StoresAreKept, NothingVanishes, GcTypeOK, Item
  <2>17. WorkIsBroughtBack'
    <3>1. \A f \in Copies : At(f, {"job"})' = At(f, {"job"})
      BY <1>2 DEF At
    <3>2. \A h \in Collectors : HasMoved(h) => gc'[h] = gc[h]
      BY <1>2, <2>5 DEF HasMoved
    <3> SUFFICES ASSUME NEW f \in Full', At(f, {"job"})' # {}
                 PROVE  \/ trash'[f].dead \/ trash'[f].excused
                        \/ \E h \in Collectors : gc'[h].entry = f /\ gc'[h].pc \in {"moved", "rolling"}
      BY DEF WorkIsBroughtBack
    <3>3. f \in Full /\ trash'[f] = trash[f] /\ At(f, {"job"}) # {}
      BY <2>14, <3>1 DEF Full
    <3>4. \/ trash[f].dead \/ trash[f].excused
          \/ \E h \in Collectors : gc[h].entry = f /\ HasMoved(h)
      BY <3>3 DEF GcIInv, StoresAreKept, WorkIsBroughtBack, HasMoved
    <3> QED
      BY <3>2, <3>3, <3>4 DEF HasMoved
  <2> QED
    BY <2>10, <2>12, <2>13, <2>15, <2>16, <2>17 DEF GcIInv, StoresAreKept
<1> QED
  BY <1>3, <1>4

\* A collector goes on with its entry, without the files.
LEMMA WriteTombstoneKeeps ==
  ASSUME GcIInv, NEW g \in Collectors, WriteTombstone(g)
  PROVE  GcIInv'
<1>1. GcTypeOK
  BY DEF GcIInv
<1>2. /\ gc[g].pc = "made" /\ UNCHANGED <<site, items, trash, workdir, gcLock, session, gcFaults>>
      /\ tombstone' = gc[g].entry /\ GcAt(g, "tombstoned")
  BY DEF WriteTombstone
<1>3. /\ gc' \in [Collectors -> Gc] /\ gc'[g].pc = "tombstoned"
      /\ gc'[g].entry = gc[g].entry /\ gc'[g].dead = gc[g].dead /\ \A h \in Collectors \ {g} : gc'[h] = gc[h]
  BY <1>1, <1>2, GcAtTyped
<1>4. gc[g].entry \in Copies
  BY <1>2 DEF GcIInv, Entries, Busy, HoldsLock, Moving
<1>5. GcTypeOK'
  <2>1. \A h \in Collectors : (gcLock = h <=> gc[h].pc \in {"made", "tombstoned", "rolled"})'
    BY <1>1, <1>2, <1>3 DEF GcTypeOK
  <2> QED
    BY <1>1, <1>2, <1>3, <1>4, <2>1 DEF GcTypeOK
<1>6. CalmActors
  BY <1>2, <1>3 DEF CalmActors, Busy, HoldsLock, Moving, HasMoved
<1> QED
  BY <1>2, <1>5, <1>6, SameFiles, CalmKeeps

\* What lives in one place is in another.
LEMMA MovedItems ==
  ASSUME GcTypeOK, NEW from \in Copies \cup {0}, NEW to \in Copies \cup {0}, MoveItems(from, to)
  PROVE  /\ items' \in [Items -> Item] /\ \A i \in Items : items'[i].as = items[i].as
         /\ \A i \in Items : items[i].as \in Living =>
               items'[i].at = IF items[i].at = from THEN to ELSE items[i].at
<1>1. items \in [Items -> Item]
  BY DEF GcTypeOK
<1>2. ASSUME NEW i \in Items
      PROVE  /\ items'[i] \in Item /\ items'[i].as = items[i].as
             /\ items[i].as \in Living => items'[i].at = IF items[i].at = from THEN to ELSE items[i].at
  <2>1. items[i] \in Item
    BY <1>1
  <2>2. items'[i] = IF items[i].at = from /\ items[i].as \in Living THEN [items[i] EXCEPT !.at = to] ELSE items[i]
    BY DEF MoveItems
  <2> QED
    BY <2>1, <2>2 DEF Item
<1>3. items' = [i \in Items |-> items'[i]]
  BY DEF MoveItems
<1> QED
  BY <1>2, <1>3

\* The move: all that lives at the path lives in the entry now.
LEMMA MoveStoreKeeps ==
  ASSUME GcIInv, NEW g \in Collectors, MoveStore(g)
  PROVE  GcIInv'
<1> DEFINE e == gc[g].entry
           copy == [trash[e] EXCEPT !.state = "full", !.store = site, !.dead = gc[g].dead]
<1>1. GcTypeOK
  BY DEF GcIInv
<1>2. /\ gc[g].pc = "tombstoned" /\ trash' = [trash EXCEPT ![e] = copy] /\ MoveItems(0, e) /\ site' = Nothing
      /\ gcLock' = "free" /\ GcAt(g, "moved") /\ UNCHANGED <<tombstone, workdir, session, gcFaults>>
  BY DEF MoveStore
<1>3. e \in Copies /\ e # 0 /\ trash[e].state = "made" /\ site.kind = "store"
  BY <1>2, GcAssumption DEF GcIInv, Entries, Guarded, Busy, HoldsLock, Moving
<1>4. /\ gc' \in [Collectors -> Gc] /\ gc'[g].pc = "moved"
      /\ gc'[g].entry = e /\ gc'[g].dead = gc[g].dead /\ \A h \in Collectors \ {g} : gc'[h] = gc[h]
  BY <1>1, <1>2, GcAtTyped
<1>5. copy \in Copy /\ copy.state = "full" /\ copy.store = site /\ copy.dead = gc[g].dead
  <2>1. trash[e] \in Copy /\ site \in Sites /\ gc[g].dead \in BOOLEAN
    BY <1>1, <1>3 DEF GcTypeOK, Gc
  <2> QED
    BY <2>1 DEF Copy
<1>6. /\ trash' \in [Copies -> Copy] /\ trash'[e] = copy /\ \A f \in Copies \ {e} : trash'[f] = trash[f]
  BY <1>1, <1>2, <1>3, <1>5 DEF GcTypeOK
<1>7. /\ items' \in [Items -> Item] /\ \A i \in Items : items'[i].as = items[i].as
      /\ \A i \in Items : items[i].as \in Living =>
            items'[i].at = IF items[i].at = 0 THEN e ELSE items[i].at
  BY <1>1, <1>2, <1>3, MovedItems
<1> HIDE DEF copy, e
<1>8. gcLock = g /\ HoldsLock(g)
  BY <1>1, <1>2, LockIsOne DEF HoldsLock, Moving
<1>9. /\ \A h \in Collectors \ {g} : ~HoldsLock(h)
      /\ \A s \in Sessions : session[s].pc # "restoring"
  BY <1>1, <1>8, LockIsOne
<1>10. GcTypeOK'
  <2>1. \A h \in Collectors : (gcLock = h <=> gc[h].pc \in {"made", "tombstoned", "rolled"})'
    BY <1>2, <1>4, <1>9, GcAssumption DEF HoldsLock, Moving
  <2>2. \A s \in Sessions : (gcLock = s <=> session[s].pc = "restoring")'
    BY <1>2, <1>9, GcAssumption
  <2> QED
    BY <1>1, <1>2, <1>4, <1>6, <1>7, <2>1, <2>2, KindsOfSites DEF GcTypeOK
<1>11. Entries'
  <2>1. \A h \in Collectors : Busy(h)' => Busy(h) /\ gc'[h].entry = gc[h].entry
    BY <1>4, <1>8 DEF Busy, HoldsLock, Moving, HasMoved, e
  <2>2. \A f \in Copies : trash[f].state # "unused" => trash'[f].state # "unused"
    BY <1>3, <1>5, <1>6
  <2> QED
    BY <2>1, <2>2 DEF GcIInv, Entries
<1>12. \A h \in Collectors : ~HoldsLock(h)'
  BY <1>4, <1>9 DEF HoldsLock, Moving
<1>13. Guarded'
  BY <1>2, <1>9, <1>12 DEF Guarded, HoldsLock
<1>14. Full' = Full \cup {e}
  BY <1>3, <1>5, <1>6 DEF Full
<1>15. MovedStores'
  <2>1. \A f \in Full' : trash'[f].store.kind = "store"
    BY <1>3, <1>5, <1>6, <1>14 DEF GcIInv, MovedStores, Full
  <2>2. ASSUME NEW h \in Collectors, HasMoved(h)', gc'[h].entry \in Full'
        PROVE  trash'[gc'[h].entry].dead = gc'[h].dead
    <3>1. CASE h = g
      BY <1>4, <1>5, <1>6, <3>1
    <3>2. CASE h # g
      <4>1. HasMoved(h) /\ gc'[h] = gc[h] /\ Busy(h) /\ Busy(g)
        BY <1>4, <1>8, <2>2, <3>2 DEF HasMoved, Busy
      <4>2. gc[h].entry # e
        BY <3>2, <4>1 DEF GcIInv, Entries, e
      <4> QED
        BY <1>6, <1>14, <2>2, <4>1, <4>2 DEF GcIInv, MovedStores, Full
    <3> QED
      BY <3>1, <3>2
  <2> QED
    BY <2>1, <2>2 DEF MovedStores
<1>16. NothingVanishes'
  <2> SUFFICES ASSUME NEW i \in Items, items'[i].as \in Living
               PROVE  items'[i].at # 0 /\ trash'[items'[i].at].state = "full"
    BY DEF NothingVanishes
  <2>1. CASE items[i].at = 0
    BY <1>3, <1>5, <1>6, <1>7, <2>1
  <2>2. CASE items[i].at # 0
    <3>1. trash[items[i].at].state = "full" /\ items[i].at \in Copies \ {e} /\ items'[i].at = items[i].at
      BY <1>1, <1>3, <1>7, <2>2 DEF GcIInv, StoresAreKept, NothingVanishes, GcTypeOK, Item
    <3> QED
      BY <1>6, <2>2, <3>1
  <2> QED
    BY <2>1, <2>2
<1>17. WorkIsBroughtBack'
  <2> SUFFICES ASSUME NEW f \in Full', NEW i \in Items, items'[i].as = "job", items'[i].at = f
               PROVE  \/ trash'[f].dead \/ trash'[f].excused
                      \/ \E h \in Collectors : gc'[h].entry = f /\ gc'[h].pc \in {"moved", "rolling"}
    BY DEF WorkIsBroughtBack, At
  <2>1. CASE f = e
    BY <1>4, <2>1
  <2>2. CASE f # e
    <3>1. f \in Full /\ trash'[f] = trash[f] /\ items[i].as = "job" /\ items[i].at = f
      BY <1>6, <1>7, <1>14, <2>2 DEF Full, Living
    <3>2. \/ trash[f].dead \/ trash[f].excused
          \/ \E h \in Collectors : gc[h].entry = f /\ HasMoved(h)
      BY <3>1 DEF GcIInv, StoresAreKept, WorkIsBroughtBack, HasMoved, At
    <3>3. \A h \in Collectors : HasMoved(h) => gc'[h] = gc[h]
      BY <1>2, <1>4 DEF HasMoved
    <3> QED
      BY <3>1, <3>2, <3>3 DEF HasMoved
  <2> QED
    BY <2>1, <2>2
<1> QED
  BY <1>10, <1>11, <1>13, <1>15, <1>16, <1>17 DEF GcIInv, StoresAreKept

\* The holder of the lock drops its entry: nothing ever lived there, or it has
\* been moved back.
LEMMA DropsEntry ==
  ASSUME GcIInv, NEW g \in Collectors, HoldsLock(g), GcIs(g, NoGc), gcLock' = "free",
         trash' = [trash EXCEPT ![gc[g].entry] = Emptied("gone")], tombstone' = 0,
         UNCHANGED <<site, items, workdir, session>>, gcFaults' \in 0..MaxGcFaults
  PROVE  GcIInv'
<1>1. GcTypeOK
  BY DEF GcIInv
<1>2. /\ gc' \in [Collectors -> Gc] /\ gc'[g].pc = "idle" /\ \A h \in Collectors \ {g} : gc'[h] = gc[h]
  BY <1>1, GcFields, GcIsTyped
<1>3. /\ gcLock = g /\ \A h \in Collectors \ {g} : ~HoldsLock(h)
      /\ \A s \in Sessions : session[s].pc # "restoring"
  BY <1>1, LockIsOne
<1>4. PICK e \in Copies : e = gc[g].entry /\ trash[e].state = "made"
  BY DEF GcIInv, Entries, Guarded, Busy
<1>5. /\ trash' \in [Copies -> Copy] /\ trash'[e].state = "gone" /\ \A f \in Copies \ {e} : trash'[f] = trash[f]
  BY <1>1, <1>4, EmptiedTyped DEF GcTypeOK
<1>6. \A h \in Collectors : ~HoldsLock(h)'
  BY <1>2, <1>3 DEF HoldsLock, Moving
<1>7. GcTypeOK'
  <2>1. \A h \in Collectors : (gcLock = h <=> gc[h].pc \in {"made", "tombstoned", "rolled"})'
    BY <1>6, GcAssumption DEF HoldsLock, Moving
  <2>2. \A s \in Sessions : (gcLock = s <=> session[s].pc = "restoring")'
    BY <1>3, GcAssumption
  <2> QED
    BY <1>1, <1>2, <1>5, <2>1, <2>2 DEF GcTypeOK
<1>8. CalmActors
  <2>1. \A h \in Collectors : Busy(h)' => h # g /\ gc'[h] = gc[h]
    BY <1>2 DEF Busy, HoldsLock, Moving, HasMoved
  <2>2. ~HasMoved(g)
    BY DEF HoldsLock, Moving, HasMoved
  <2>3. \A h \in Collectors \ {g} : gc'[h] = gc[h]
    BY <1>2
  <2> QED
    BY <1>3, <2>1, <2>2, <2>3 DEF CalmActors, HoldsLock, Moving, HasMoved
<1>9. DroppedCopy(e)
  <2>1. \A i \in Items : items[i].as \in Living => items[i].at # e
    BY <1>4, GcAssumption DEF GcIInv, StoresAreKept, NothingVanishes
  <2> QED
    BY <1>3, <1>5, <1>6, <2>1 DEF DroppedCopy
<1>10. CalmFiles
  BY <1>5, <1>9 DEF CalmFiles, SameCopy
<1> QED
  BY <1>7, <1>8, <1>10, CalmKeeps

LEMMA MoveFailsKeeps ==
  ASSUME GcIInv, NEW g \in Collectors, MoveFails(g)
  PROVE  GcIInv'
<1>1. HoldsLock(g) /\ gcFaults' \in 0..MaxGcFaults
  BY GcAssumption DEF MoveFails, HoldsLock, Moving, GcFault, GcIInv, GcTypeOK
<1> QED
  BY <1>1, DropsEntry DEF MoveFails, Emptied

LEMMA RemoveEntryKeeps ==
  ASSUME GcIInv, NEW g \in Collectors, RemoveEntry(g)
  PROVE  GcIInv'
<1>1. HoldsLock(g) /\ gcFaults' \in 0..MaxGcFaults
  BY DEF RemoveEntry, HoldsLock, GcIInv, GcTypeOK
<1> QED
  BY <1>1, DropsEntry DEF RemoveEntry, Emptied

LEMMA InspectMovedKeeps ==
  ASSUME GcIInv, NEW g \in Collectors, InspectMoved(g)
  PROVE  GcIInv'
<1> DEFINE e == gc[g].entry
<1>1. GcTypeOK
  BY DEF GcIInv
<1>2. /\ gc[g].pc = "moved" /\ UNCHANGED <<site, items, trash, tombstone, workdir, gcLock, session, gcFaults>>
      /\ \/ GcAt(g, "rolling")
         \/ GcIs(g, NoGc) /\ trash[e].state = "full" /\ (At(e, {"job"}) = {} \/ gc[g].dead)
  BY DEF InspectMoved, GcAt
<1>3. HasMoved(g) /\ ~HoldsLock(g) /\ e \in Copies
  BY <1>2 DEF HasMoved, HoldsLock, Moving, GcIInv, Entries, Busy
<1>4. /\ gc' \in [Collectors -> Gc] /\ gc'[g].pc \in {"rolling", "idle"} /\ \A h \in Collectors \ {g} : gc'[h] = gc[h]
      /\ gc'[g].pc = "rolling" => gc'[g].entry = e /\ gc'[g].dead = gc[g].dead
      /\ gc'[g].pc = "idle" => trash[e].state = "full" /\ (At(e, {"job"}) = {} \/ gc[g].dead)
  BY <1>1, <1>2, GcFields, GcAtTyped, GcIsTyped
<1>5. GcTypeOK'
  <2>1. \A h \in Collectors : (gcLock = h <=> gc[h].pc \in {"made", "tombstoned", "rolled"})'
    BY <1>1, <1>2, <1>4 DEF GcTypeOK
  <2> QED
    BY <1>1, <1>2, <1>4, <2>1 DEF GcTypeOK
<1>6. trash[e].state = "full" => trash[e].dead = gc[g].dead
  BY <1>3 DEF GcIInv, MovedStores, Full
<1> HIDE DEF e
<1>7. CalmActors
  <2>1. \A h \in Collectors \ {g} : gc'[h] = gc[h]
    BY <1>4
  <2>2. Busy(g)' => HasMoved(g)' /\ ~HoldsLock(g)' /\ gc'[g].entry = gc[g].entry /\ gc'[g].dead = gc[g].dead
    BY <1>4 DEF Busy, HasMoved, HoldsLock, Moving, e
  <2>3. \/ HasMoved(g)' /\ gc'[g].entry = e
        \/ trash'[e].dead \/ At(e, {"job"}) = {}
    BY <1>2, <1>4, <1>6 DEF HasMoved
  <2> QED
    BY <1>2, <1>3, <2>1, <2>2, <2>3 DEF CalmActors, Busy, HoldsLock, Moving, HasMoved, e
<1> QED
  BY <1>2, <1>5, <1>7, SameFiles, CalmKeeps

LEMMA GcDiesKeeps ==
  ASSUME GcIInv, NEW g \in Collectors, GcDies(g)
  PROVE  GcIInv'
<1> DEFINE e == gc[g].entry
<1>1. GcTypeOK
  BY DEF GcIInv
<1>2. /\ Busy(g) /\ gcFaults' \in 0..MaxGcFaults /\ GcIs(g, NoGc)
      /\ gcLock' = IF gcLock = g THEN "free" ELSE gcLock
      /\ trash' = IF HasMoved(g) THEN [trash EXCEPT ![e] = [trash[e] EXCEPT !.excused = TRUE]] ELSE trash
      /\ UNCHANGED <<site, items, tombstone, workdir, session>>
  BY <1>1, GcAssumption DEF GcDies, Busy, HoldsLock, Moving, HasMoved, GcFault, GcTypeOK
<1>3. e \in Copies
  BY <1>2 DEF GcIInv, Entries
<1>4. /\ gc' \in [Collectors -> Gc] /\ gc'[g].pc = "idle" /\ \A h \in Collectors \ {g} : gc'[h] = gc[h]
  BY <1>1, <1>2, GcFields, GcIsTyped
<1>5. /\ trash' \in [Copies -> Copy] /\ \A f \in Copies : SameCopy(f)
      /\ HasMoved(g) => trash'[e].excused
  <2>1. CASE ~HasMoved(g)
    BY <1>1, <1>2, <2>1 DEF SameCopy, GcTypeOK
  <2>2. CASE HasMoved(g)
    <3> DEFINE c == [trash[e] EXCEPT !.excused = TRUE]
    <3>1. /\ c \in Copy /\ c.excused /\ c.state = trash[e].state /\ c.dead = trash[e].dead /\ c.store = trash[e].store
      BY <1>1, <1>3 DEF GcTypeOK, Copy
    <3> HIDE DEF c, e
    <3>2. trash' = [trash EXCEPT ![e] = c]
      BY <1>2, <2>2 DEF c
    <3>3. trash' \in [Copies -> Copy] /\ trash'[e] = c /\ \A f \in Copies \ {e} : trash'[f] = trash[f]
      BY <1>1, <1>3, <3>1, <3>2 DEF GcTypeOK
    <3> QED
      BY <3>1, <3>3 DEF SameCopy
  <2> QED
    BY <2>1, <2>2
<1> HIDE DEF e
<1>6. GcTypeOK'
  <2>1. \A h \in Collectors : (gcLock = h <=> gc[h].pc \in {"made", "tombstoned", "rolled"})'
    BY <1>1, <1>2, <1>4, GcAssumption DEF GcTypeOK
  <2>2. \A s \in Sessions : (gcLock = s <=> session[s].pc = "restoring")'
    BY <1>1, <1>2, GcAssumption DEF GcTypeOK
  <2>3. gcLock' \in Collectors \cup Sessions \cup {"free"}
    BY <1>1, <1>2 DEF GcTypeOK
  <2> QED
    BY <1>1, <1>2, <1>4, <1>5, <2>1, <2>2, <2>3 DEF GcTypeOK
<1>7. CalmActors
  <2>1. \A h \in Collectors : Busy(h)' => h # g /\ gc'[h] = gc[h]
    BY <1>4 DEF Busy, HoldsLock, Moving, HasMoved
  <2>2. \A h \in Collectors \ {g} : gc'[h] = gc[h]
    BY <1>4
  <2> QED
    BY <1>2, <1>5, <2>1, <2>2 DEF CalmActors, HoldsLock, Moving, HasMoved, e
<1>8. CalmFiles
  BY <1>2, <1>5 DEF CalmFiles
<1> QED
  BY <1>6, <1>7, <1>8, CalmKeeps

\* A copy moved back under the lock: all that lives in it lives at the path.
LEMMA BroughtBack ==
  ASSUME GcIInv, NEW e \in Full, site.kind # "store", site' = trash[e].store, MoveItems(e, 0),
         NEW c \in Copy, c.state = "made", trash' = [trash EXCEPT ![e] = c],
         \A g \in Collectors : HasMoved(g)' => gc'[g] = gc[g],
         \A g \in Collectors : HasMoved(g) /\ gc[g].entry # e => gc'[g] = gc[g]
  PROVE  /\ items' \in [Items -> Item] /\ trash' \in [Copies -> Copy] /\ site' \in Sites
         /\ trash'[e].state = "made" /\ site'.kind = "store" /\ \A f \in Copies \ {e} : trash'[f] = trash[f]
         /\ MovedStores' /\ StoresAreKept'
<1>1. GcTypeOK
  BY DEF GcIInv
<1>2. e \in Copies /\ e # 0 /\ trash[e].state = "full" /\ trash[e].store.kind = "store"
  BY GcAssumption DEF Full, GcIInv, MovedStores
<1>3. site' \in Sites /\ site'.kind = "store"
  BY <1>1, <1>2 DEF GcTypeOK, Copy
<1>4. trash' \in [Copies -> Copy] /\ trash'[e] = c /\ \A f \in Copies \ {e} : trash'[f] = trash[f]
  BY <1>1, <1>2 DEF GcTypeOK
<1>5. /\ items' \in [Items -> Item] /\ \A i \in Items : items'[i].as = items[i].as
      /\ \A i \in Items : items[i].as \in Living => items'[i].at = IF items[i].at = e THEN 0 ELSE items[i].at
  BY <1>1, <1>2, MovedItems
<1>6. Full' = Full \ {e}
  BY <1>4 DEF Full
<1>7. MovedStores'
  BY <1>4, <1>6 DEF GcIInv, MovedStores, HasMoved, Full
<1>8. NothingVanishes'
  <2> SUFFICES ASSUME NEW i \in Items, items'[i].as \in Living
               PROVE  items'[i].at # 0 => trash'[items'[i].at].state = "full"
    BY <1>3 DEF NothingVanishes
  <2>1. CASE items[i].at = e
    BY <1>5, <2>1
  <2>2. CASE items[i].at # e
    <3>1. items[i].at # 0 => trash[items[i].at].state = "full" /\ items[i].at \in Copies \ {e}
      BY <1>1, <1>5, <2>2 DEF GcIInv, StoresAreKept, NothingVanishes, GcTypeOK, Item
    <3> QED
      BY <1>4, <1>5, <2>2, <3>1
  <2> QED
    BY <2>1, <2>2
<1>9. WorkIsBroughtBack'
  <2> SUFFICES ASSUME NEW f \in Full', NEW i \in Items, items'[i].as = "job", items'[i].at = f
               PROVE  \/ trash'[f].dead \/ trash'[f].excused
                      \/ \E h \in Collectors : gc'[h].entry = f /\ gc'[h].pc \in {"moved", "rolling"}
    BY DEF WorkIsBroughtBack, At
  <2>1. f \in Full \ {e} /\ f # 0
    BY <1>6, GcAssumption DEF Full
  <2>2. trash'[f] = trash[f] /\ items[i].as = "job" /\ items[i].at = f
    BY <1>4, <1>5, <2>1 DEF Full, Living
  <2>3. \/ trash[f].dead \/ trash[f].excused
        \/ \E h \in Collectors : gc[h].entry = f /\ HasMoved(h)
    BY <2>1, <2>2 DEF GcIInv, StoresAreKept, WorkIsBroughtBack, HasMoved, At
  <2> QED
    BY <2>1, <2>2, <2>3 DEF HasMoved
<1> QED
  BY <1>3, <1>4, <1>5, <1>7, <1>8, <1>9 DEF StoresAreKept

LEMMA RollBackKeeps ==
  ASSUME GcIInv, NEW g \in Collectors, RollBack(g)
  PROVE  GcIInv'
<1> DEFINE e == gc[g].entry
<1>1. GcTypeOK
  BY DEF GcIInv
<1>2. gc[g].pc = "rolling" /\ gcLock = "free" /\ UNCHANGED <<tombstone, workdir, session, gcFaults>>
  BY DEF RollBack
<1>3. HasMoved(g) /\ e \in Copies /\ Busy(g)
  BY <1>2 DEF HasMoved, Busy, GcIInv, Entries
<1>4. /\ \A h \in Collectors : ~HoldsLock(h)
      /\ \A s \in Sessions : session[s].pc # "restoring"
  BY <1>1, <1>2, LockIsOne
<1>5. CASE trash[e].state = "full" /\ site = Nothing
  <2> DEFINE c == [NoCopy EXCEPT !.state = "made", !.age = trash[e].age]
  <2>1. /\ site' = trash[e].store /\ MoveItems(e, 0) /\ trash' = [trash EXCEPT ![e] = c]
        /\ gcLock' = g /\ GcAt(g, "rolled")
    BY <1>5 DEF RollBack
  <2>2. c \in Copy /\ c.state = "made"
    <3>1. trash[e].age \in 0..2
      BY <1>1, <1>3 DEF GcTypeOK, Copy
    <3> QED
      BY <3>1, NoCopyTyped DEF Copy
  <2>3. /\ gc' \in [Collectors -> Gc] /\ gc'[g].pc = "rolled" /\ gc'[g].entry = e
        /\ \A h \in Collectors \ {g} : gc'[h] = gc[h]
    BY <1>1, <2>1, GcAtTyped
  <2>4. e \in Full /\ site.kind # "store"
    BY <1>3, <1>5, KindsOfSites DEF Full
  <2>5. /\ \A h \in Collectors : HasMoved(h)' => gc'[h] = gc[h]
        /\ \A h \in Collectors : HasMoved(h) /\ gc[h].entry # e => gc'[h] = gc[h]
    BY <2>3 DEF HasMoved
  <2> HIDE DEF c, e
  <2>6. /\ items' \in [Items -> Item] /\ trash' \in [Copies -> Copy] /\ site' \in Sites
        /\ trash'[e].state = "made" /\ site'.kind = "store" /\ \A f \in Copies \ {e} : trash'[f] = trash[f]
        /\ MovedStores' /\ StoresAreKept'
    BY <2>1, <2>2, <2>4, <2>5, BroughtBack
  <2>7. GcTypeOK'
    <3>1. \A h \in Collectors : (gcLock = h <=> gc[h].pc \in {"made", "tombstoned", "rolled"})'
      BY <1>4, <2>1, <2>3 DEF HoldsLock, Moving
    <3>2. \A s \in Sessions : (gcLock = s <=> session[s].pc = "restoring")'
      BY <1>2, <1>4, <2>1, GcAssumption
    <3> QED
      BY <1>1, <1>2, <2>1, <2>3, <2>6, <3>1, <3>2 DEF GcTypeOK
  <2>8. Entries'
    <3>1. \A h \in Collectors : Busy(h)' => Busy(h) /\ gc'[h].entry = gc[h].entry
      BY <1>3, <2>3 DEF Busy, HoldsLock, Moving, HasMoved, e
    <3>2. \A f \in Copies : trash[f].state # "unused" => trash'[f].state # "unused"
      BY <2>6
    <3> QED
      BY <3>1, <3>2 DEF GcIInv, Entries
  <2>9. Guarded'
    BY <1>2, <1>4, <2>3, <2>6 DEF Guarded, HoldsLock, Moving
  <2> QED
    BY <2>6, <2>7, <2>8, <2>9 DEF GcIInv
<1>6. CASE ~(trash[e].state = "full" /\ site = Nothing)
  <2> DEFINE c == [trash[e] EXCEPT !.excused = TRUE]
  <2>1. /\ trash' = [trash EXCEPT ![e] = c]
        /\ GcIs(g, NoGc) /\ UNCHANGED <<site, items, gcLock>>
    BY <1>6 DEF RollBack
  <2>2. c \in Copy /\ c.excused /\ c.state = trash[e].state /\ c.dead = trash[e].dead /\ c.store = trash[e].store
    BY <1>1, <1>3 DEF GcTypeOK, Copy
  <2> HIDE DEF c, e
  <2>3. /\ trash' \in [Copies -> Copy] /\ trash'[e].excused /\ \A f \in Copies : SameCopy(f)
    <3>1. trash' \in [Copies -> Copy] /\ trash'[e] = c /\ \A f \in Copies \ {e} : trash'[f] = trash[f]
      BY <1>1, <1>3, <2>1, <2>2 DEF GcTypeOK
    <3> QED
      BY <2>2, <3>1 DEF SameCopy
  <2>4. /\ gc' \in [Collectors -> Gc] /\ gc'[g].pc = "idle" /\ \A h \in Collectors \ {g} : gc'[h] = gc[h]
    BY <1>1, <2>1, GcFields, GcIsTyped
  <2>5. GcTypeOK'
    <3>1. \A h \in Collectors : (gcLock = h <=> gc[h].pc \in {"made", "tombstoned", "rolled"})'
      BY <1>1, <1>2, <2>1, <2>4 DEF GcTypeOK
    <3> QED
      BY <1>1, <1>2, <2>1, <2>3, <2>4, <3>1 DEF GcTypeOK
  <2>6. CalmActors
    <3>1. \A h \in Collectors : Busy(h)' => h # g /\ gc'[h] = gc[h]
      BY <2>4 DEF Busy, HoldsLock, Moving, HasMoved
    <3>2. \A h \in Collectors \ {g} : gc'[h] = gc[h]
      BY <2>4
    <3> QED
      BY <1>2, <2>3, <3>1, <3>2 DEF CalmActors, HoldsLock, Moving, HasMoved, e
  <2>7. CalmFiles
    BY <2>1, <2>3 DEF CalmFiles
  <2> QED
    BY <2>5, <2>6, <2>7, CalmKeeps
<1> QED
  BY <1>5, <1>6

----------------------------------------------------------------------------
(***************************************************************************)
(* The sessions' steps, and the world                                      *)
(***************************************************************************)
\* A session at a step without the lock: the types hold when its files do.
LEMMA SessionTyped ==
  ASSUME GcTypeOK, NEW s \in Sessions, session[s].pc # "restoring",
         session' \in [Sessions -> Session], session'[s].pc # "restoring",
         \A t \in Sessions \ {s} : session'[t] = session[t], UNCHANGED gc \/ Touched,
         site' \in Sites, items' \in [Items -> Item], trash' \in [Copies -> Copy], tombstone' \in Copies \cup {0},
         UNCHANGED <<workdir, gcLock>>, gcFaults' \in 0..MaxGcFaults
  PROVE  GcTypeOK'
<1>1. gc' \in [Collectors -> Gc] /\ \A g \in Collectors : gc'[g].pc = gc[g].pc
  BY TouchedTyped DEF GcTypeOK
<1> QED
  BY <1>1 DEF GcTypeOK

LEMMA AdoptKeeps ==
  ASSUME GcIInv, NEW s \in Sessions, Adopt(s)
  PROVE  GcIInv'
<1> DEFINE next == [pc |-> IF tombstone = 0 THEN "adopted" ELSE "asking",
                    found |-> IF Full = {} THEN 0 ELSE Newest(Full), failed |-> FALSE]
<1>1. GcTypeOK
  BY DEF GcIInv
<1>2. /\ session[s].pc = "out" /\ session' = [session EXCEPT ![s] = next]
      /\ UNCHANGED <<site, items, trash, tombstone, workdir, gcLock, gc, gcFaults>>
  BY DEF Adopt
<1>3. next \in Session /\ next.pc # "restoring"
  <2>1. Full # {} => Newest(Full) \in Copies
    BY NewestIsOne DEF Full
  <2> QED
    BY <2>1 DEF Session
<1> HIDE DEF next
<1>4. /\ session' \in [Sessions -> Session] /\ session'[s].pc # "restoring"
      /\ \A t \in Sessions \ {s} : session'[t] = session[t]
  BY <1>1, <1>2, <1>3 DEF GcTypeOK
<1>5. GcTypeOK'
  BY <1>1, <1>2, <1>4, SessionTyped DEF GcTypeOK
<1> QED
  BY <1>1, <1>2, <1>4, <1>5, SessionCalm, SameFiles, CalmKeeps

LEMMA AskForCopyKeeps ==
  ASSUME GcIInv, NEW s \in Sessions, AskForCopy(s)
  PROVE  GcIInv'
<1>1. GcTypeOK
  BY DEF GcIInv
<1>2. session[s].pc = "asking" /\ gcLock = "free" /\ UNCHANGED <<workdir, gc, gcFaults>>
  BY DEF AskForCopy
<1> DEFINE restores == tombstone # 0 /\ site.kind # "store" /\ Full # {}
<1>3. CASE ~restores
  <2>1. SessionAt(s, "adopted") /\ UNCHANGED <<items, gcLock>>
    BY <1>3 DEF AskForCopy
  <2>2. /\ session' \in [Sessions -> Session] /\ session'[s].pc # "restoring"
        /\ \A t \in Sessions \ {s} : session'[t] = session[t]
    BY <1>1, <2>1, SessionAtTyped
  <2>3. tombstone' \in {0, tombstone}
    BY <1>3 DEF AskForCopy
  <2>4. /\ site' \in Sites /\ (site.kind = "store" => site' = site)
    BY <1>1, <1>3, KindsOfSites DEF AskForCopy, GcTypeOK
  <2>5. trash' = trash \/ (tombstone # 0 /\ trash' = [trash EXCEPT ![tombstone].conflict = TRUE])
    BY <1>3 DEF AskForCopy
  <2>6. trash' \in [Copies -> Copy] /\ \A e \in Copies : SameCopy(e)
    <3>1. CASE trash' = trash
      BY <1>1, <3>1 DEF GcTypeOK, SameCopy
    <3>2. CASE tombstone # 0 /\ trash' = [trash EXCEPT ![tombstone].conflict = TRUE]
      <4> DEFINE c == [trash[tombstone] EXCEPT !.conflict = TRUE]
      <4>1. trash \in [Copies -> Copy] /\ tombstone \in Copies
        BY <1>1, <3>2 DEF GcTypeOK
      <4>2. /\ c \in Copy /\ c.state = trash[tombstone].state /\ c.dead = trash[tombstone].dead
            /\ c.store = trash[tombstone].store /\ c.excused = trash[tombstone].excused
        BY <4>1 DEF Copy
      <4>3. trash' = [trash EXCEPT ![tombstone] = c]
        BY <3>2
      <4> HIDE DEF c
      <4>4. trash' \in [Copies -> Copy] /\ trash'[tombstone] = c /\ \A f \in Copies \ {tombstone} : trash'[f] = trash[f]
        BY <4>1, <4>2, <4>3
      <4> QED
        BY <4>2, <4>4 DEF SameCopy
    <3> QED
      BY <2>5, <3>1, <3>2
  <2>7. GcTypeOK'
    BY <1>1, <1>2, <2>1, <2>2, <2>3, <2>4, <2>6, SessionTyped DEF GcTypeOK
  <2>8. CalmFiles
    BY <2>1, <2>4, <2>6 DEF CalmFiles
  <2> QED
    BY <1>1, <1>2, <2>2, <2>7, <2>8, SessionCalm, CalmKeeps
<1>4. CASE restores
  <2> DEFINE e == Newest(Full)
             next == [session[s] EXCEPT !.pc = "restoring", !.found = e]
  <2>1. /\ site' = trash[e].store /\ MoveItems(e, 0) /\ trash' = [trash EXCEPT ![e] = Emptied("made")]
        /\ gcLock' = s /\ session' = [session EXCEPT ![s] = next] /\ UNCHANGED tombstone
    BY <1>1, <1>4 DEF AskForCopy, Emptied, GcTypeOK
  <2>2. e \in Full /\ site.kind # "store" /\ e \in Copies
    BY <1>4, NewestIsOne DEF Full
  <2>3. Emptied("made") \in Copy /\ Emptied("made").state = "made"
    BY EmptiedTyped
  <2>4. next \in Session /\ next.pc = "restoring" /\ next.found = e
    BY <1>1, <2>2 DEF GcTypeOK, Session
  <2> HIDE DEF e, next
  <2>5. /\ session' \in [Sessions -> Session] /\ session'[s] = next
        /\ \A t \in Sessions \ {s} : session'[t] = session[t]
    BY <1>1, <2>1, <2>4 DEF GcTypeOK
  <2>6. /\ items' \in [Items -> Item] /\ trash' \in [Copies -> Copy] /\ site' \in Sites
        /\ trash'[e].state = "made" /\ site'.kind = "store" /\ \A f \in Copies \ {e} : trash'[f] = trash[f]
        /\ MovedStores' /\ StoresAreKept'
    BY <1>2, <2>1, <2>2, <2>3, BroughtBack
  <2>7. /\ \A h \in Collectors : ~HoldsLock(h)
        /\ \A t \in Sessions : session[t].pc # "restoring"
    BY <1>1, <1>2, LockIsOne
  <2>8. GcTypeOK'
    <3>1. \A h \in Collectors : (gcLock = h <=> gc[h].pc \in {"made", "tombstoned", "rolled"})'
      BY <1>2, <2>1, <2>7, GcAssumption DEF HoldsLock, Moving
    <3>2. \A t \in Sessions : (gcLock = t <=> session[t].pc = "restoring")'
      BY <2>1, <2>4, <2>5, <2>7
    <3> QED
      BY <1>1, <1>2, <2>1, <2>5, <2>6, <3>1, <3>2 DEF GcTypeOK
  <2>9. Entries'
    <3>1. \A h \in Collectors : Busy(h)' <=> Busy(h)
      BY <1>2 DEF Busy, HoldsLock, Moving, HasMoved
    <3>2. \A f \in Copies : trash[f].state # "unused" => trash'[f].state # "unused"
      BY <2>6
    <3> QED
      BY <1>2, <3>1, <3>2 DEF GcIInv, Entries
  <2>10. Guarded'
    <3>1. \A h \in Collectors : ~HoldsLock(h)' /\ ~Moving(h)'
      BY <1>2, <2>7 DEF HoldsLock, Moving
    <3> QED
      BY <2>2, <2>4, <2>5, <2>6, <2>7, <3>1 DEF Guarded
  <2> QED
    BY <2>6, <2>8, <2>9, <2>10 DEF GcIInv
<1> QED
  BY <1>3, <1>4

LEMMA FinishRestoreKeeps ==
  ASSUME GcIInv, NEW s \in Sessions, FinishRestore(s)
  PROVE  GcIInv'
<1>1. GcTypeOK
  BY DEF GcIInv
<1>2. /\ session[s].pc = "restoring" /\ site' = [site EXCEPT !.dirty = TRUE, !.quiet = FALSE] /\ tombstone' = 0
      /\ trash' = [trash EXCEPT ![session[s].found] = Emptied("gone")]
      /\ gcLock' = "free" /\ SessionAt(s, "adopted") /\ UNCHANGED <<items, workdir, gc, gcFaults>>
  BY DEF FinishRestore, Emptied
<1>3. /\ session' \in [Sessions -> Session] /\ session'[s].pc # "restoring"
      /\ \A t \in Sessions \ {s} : session'[t] = session[t]
  BY <1>1, <1>2, SessionAtTyped
<1>4. PICK e \in Copies : e = session[s].found /\ trash[e].state = "made" /\ site.kind = "store"
  BY <1>2 DEF GcIInv, Guarded
<1>5. site' \in Sites /\ site'.kind = "store"
  <2>1. site \in Store
    BY <1>1, <1>4, KindsOfSites DEF GcTypeOK
  <2> QED
    BY <1>2, <2>1 DEF Store, Sites
<1>6. /\ trash' \in [Copies -> Copy] /\ trash'[e].state = "gone" /\ \A f \in Copies \ {e} : trash'[f] = trash[f]
  BY <1>1, <1>2, <1>4, EmptiedTyped DEF GcTypeOK
<1>7. /\ gcLock = s /\ \A h \in Collectors : ~HoldsLock(h)
      /\ \A t \in Sessions \ {s} : session[t].pc # "restoring"
  BY <1>1, <1>2, LockIsOne
<1>8. /\ \A h \in Collectors : ~HoldsLock(h)'
      /\ \A t \in Sessions : session'[t].pc # "restoring"
  BY <1>2, <1>3, <1>7 DEF HoldsLock, Moving
<1>9. GcTypeOK'
  <2>1. \A h \in Collectors : (gcLock = h <=> gc[h].pc \in {"made", "tombstoned", "rolled"})'
    BY <1>2, <1>8, GcAssumption DEF HoldsLock, Moving
  <2>2. \A t \in Sessions : (gcLock = t <=> session[t].pc = "restoring")'
    BY <1>2, <1>8, GcAssumption
  <2> QED
    BY <1>1, <1>2, <1>3, <1>5, <1>6, <2>1, <2>2 DEF GcTypeOK
<1>10. DroppedCopy(e)
  <2>1. \A i \in Items : items[i].as \in Living => items[i].at # e
    BY <1>4, GcAssumption DEF GcIInv, StoresAreKept, NothingVanishes
  <2> QED
    BY <1>2, <1>6, <1>8, <2>1 DEF DroppedCopy
<1>11. CalmFiles
  BY <1>2, <1>5, <1>6, <1>10 DEF CalmFiles, SameCopy
<1> QED
  BY <1>1, <1>2, <1>3, <1>9, <1>11, SessionCalm, CalmKeeps

\* An error ends an adoption: the session is not at work on a copy.
LEMMA GivesUpTyped ==
  ASSUME GcTypeOK, NEW s \in Sessions, GivesUp(s)
  PROVE  /\ session' \in [Sessions -> Session] /\ session'[s].pc = "adopted" /\ session'[s].failed
         /\ session'[s].found = session[s].found
         /\ \A t \in Sessions \ {s} : session'[t] = session[t]
BY DEF GivesUp, GcTypeOK, Session

LEMMA LockTimesOutKeeps ==
  ASSUME GcIInv, NEW s \in Sessions, LockTimesOut(s)
  PROVE  GcIInv'
<1>1. GcTypeOK
  BY DEF GcIInv
<1>2. /\ session[s].pc = "asking" /\ GcFault /\ GivesUp(s)
      /\ UNCHANGED <<site, items, trash, tombstone, workdir, gcLock, gc>>
  BY DEF LockTimesOut
<1>3. /\ session' \in [Sessions -> Session] /\ session'[s].pc # "restoring"
      /\ \A t \in Sessions \ {s} : session'[t] = session[t]
  BY <1>1, <1>2, GivesUpTyped
<1>4. gcFaults' \in 0..MaxGcFaults
  BY <1>1, <1>2, GcAssumption DEF GcFault, GcTypeOK
<1>5. GcTypeOK'
  BY <1>1, <1>2, <1>3, <1>4, SessionTyped DEF GcTypeOK
<1> QED
  BY <1>1, <1>2, <1>3, <1>5, SessionCalm, SameFiles, CalmKeeps

\* What a failed restore leaves of the copies: a mark, and otherwise what was
\* there.  A copy so marked is one that no adoption has to bring back.
GivenUp(e) == trash[e].conflict \/ trash[e].forgotten
OnlyMarked(e) == SameCopy(e) /\ trash'[e].age = trash[e].age /\ (GivenUp(e) => GivenUp(e)')
LEMMA RestoreFailsTrash ==
  ASSUME GcTypeOK, NEW s \in Sessions, RestoreFails(s)
  PROVE  /\ trash' \in [Copies -> Copy] /\ \A e \in Copies : OnlyMarked(e)
         /\ tombstone' = tombstone \/ (tombstone' = 0 /\ \A e \in Full : GivenUp(e)')
<1>1. trash \in [Copies -> Copy]
  BY DEF GcTypeOK
<1>2. CASE /\ tombstone' = IF TombstoneServes THEN tombstone ELSE 0
           /\ trash' = [e \in Copies |-> [trash[e] EXCEPT !.forgotten = @ \/ (e \in Full /\ ~TombstoneServes)]]
  <2>1. PICK b \in [Copies -> BOOLEAN] : b = [e \in Copies |-> trash[e].forgotten \/ (e \in Full /\ ~TombstoneServes)]
    OBVIOUS
  <2>2. trash' = [e \in Copies |-> [trash[e] EXCEPT !.forgotten = b[e]]]
    BY <1>2, <2>1
  <2>3. ASSUME NEW e \in Copies
        PROVE  /\ trash'[e] \in Copy /\ trash'[e].forgotten = b[e]
               /\ SameCopy(e) /\ trash'[e].age = trash[e].age /\ trash'[e].conflict = trash[e].conflict
    BY <1>1, <2>2 DEF Copy, SameCopy
  <2>4. \A e \in Copies : (trash[e].forgotten => b[e]) /\ (e \in Full /\ ~TombstoneServes => b[e])
    BY <2>1
  <2>5. trash' \in [Copies -> Copy]
    BY <2>2, <2>3
  <2> QED
    BY <1>2, <2>3, <2>4, <2>5 DEF Full, OnlyMarked, GivenUp
<1>3. CASE trash' = [trash EXCEPT ![Newest(Full)].conflict = TRUE] /\ tombstone' = tombstone
  <2>1. PICK e \in Copies : e = Newest(Full)
    <3>1. Full \in SUBSET Copies /\ Full # {}
      BY DEF Full, RestoreFails
    <3> QED
      BY <3>1, NewestIsOne
  <2>2. PICK c : c = [trash[e] EXCEPT !.conflict = TRUE]
    OBVIOUS
  <2>3. /\ c \in Copy /\ c.conflict /\ c.state = trash[e].state /\ c.dead = trash[e].dead /\ c.store = trash[e].store
        /\ c.excused = trash[e].excused /\ c.age = trash[e].age /\ c.forgotten = trash[e].forgotten
    BY <1>1, <2>2 DEF Copy
  <2>4. trash' = [trash EXCEPT ![e] = c]
    BY <1>3, <2>1, <2>2
  <2>5. trash' \in [Copies -> Copy] /\ trash'[e] = c /\ \A f \in Copies \ {e} : trash'[f] = trash[f]
    BY <1>1, <2>3, <2>4
  <2> QED
    BY <1>3, <2>3, <2>5 DEF SameCopy, OnlyMarked, GivenUp
<1> QED
  BY <1>2, <1>3 DEF RestoreFails

LEMMA RestoreFailsKeeps ==
  ASSUME GcIInv, NEW s \in Sessions, RestoreFails(s)
  PROVE  GcIInv'
<1>1. GcTypeOK
  BY DEF GcIInv
<1>2. /\ session[s].pc = "asking" /\ GcFault /\ GivesUp(s) /\ site.kind # "store" /\ site' \in {site, Nothing}
      /\ UNCHANGED <<items, workdir, gcLock, gc>>
  BY DEF RestoreFails
<1>3. /\ session' \in [Sessions -> Session] /\ session'[s].pc # "restoring"
      /\ \A t \in Sessions \ {s} : session'[t] = session[t]
  BY <1>1, <1>2, GivesUpTyped
<1>4. gcFaults' \in 0..MaxGcFaults
  BY <1>1, <1>2, GcAssumption DEF GcFault, GcTypeOK
<1>5. trash' \in [Copies -> Copy] /\ (\A e \in Copies : SameCopy(e)) /\ tombstone' \in {0, tombstone}
  <2>1. trash' \in [Copies -> Copy] /\ \A e \in Copies : SameCopy(e)
    BY <1>1, RestoreFailsTrash DEF OnlyMarked
  <2>2. tombstone' \in {0, tombstone}
    BY DEF RestoreFails
  <2> QED
    BY <2>1, <2>2
<1>6. site' \in Sites
  BY <1>1, <1>2, KindsOfSites DEF GcTypeOK
<1>7. GcTypeOK'
  BY <1>1, <1>2, <1>3, <1>4, <1>5, <1>6, SessionTyped DEF GcTypeOK
<1>8. CalmFiles
  BY <1>2, <1>5 DEF CalmFiles
<1> QED
  BY <1>1, <1>2, <1>3, <1>7, <1>8, SessionCalm, CalmKeeps

LEMMA FinishFailsKeeps ==
  ASSUME GcIInv, NEW s \in Sessions, FinishFails(s)
  PROVE  GcIInv'
<1>1. GcTypeOK
  BY DEF GcIInv
<1>2. /\ session[s].pc = "restoring" /\ GcFault /\ gcLock' = "free" /\ tombstone' \in {0, tombstone} /\ GivesUp(s)
      /\ UNCHANGED <<site, items, trash, workdir, gc>>
  BY DEF FinishFails
<1>3. /\ session' \in [Sessions -> Session] /\ session'[s].pc # "restoring"
      /\ \A t \in Sessions \ {s} : session'[t] = session[t]
  BY <1>1, <1>2, GivesUpTyped
<1>4. gcFaults' \in 0..MaxGcFaults
  BY <1>1, <1>2, GcAssumption DEF GcFault, GcTypeOK
<1>5. /\ \A h \in Collectors : ~HoldsLock(h)
      /\ \A t \in Sessions \ {s} : session[t].pc # "restoring"
  BY <1>1, <1>2, LockIsOne
<1>6. GcTypeOK'
  <2>1. \A h \in Collectors : (gcLock = h <=> gc[h].pc \in {"made", "tombstoned", "rolled"})'
    BY <1>2, <1>5, GcAssumption DEF HoldsLock, Moving
  <2>2. \A t \in Sessions : (gcLock = t <=> session[t].pc = "restoring")'
    BY <1>2, <1>3, <1>5, GcAssumption
  <2> QED
    BY <1>1, <1>2, <1>3, <1>4, <2>1, <2>2 DEF GcTypeOK
<1> QED
  BY <1>1, <1>2, <1>3, <1>6, SessionCalm, SameFiles, CalmKeeps

\* The directory of a session's store is there, or it is made.
LEMMA DirectoryTyped ==
  ASSUME GcTypeOK
  PROVE  /\ site.kind = "store" => site \in Store
         /\ \A s \in Sessions : [site EXCEPT !.leases = @ \ {s}] \in Sites
         /\ \A s \in Sessions : [site EXCEPT !.leases = @ \ {s}].kind = site.kind
BY KindsOfSites, LeaseLost DEF GcTypeOK

LEMMA OpenStoreKeeps ==
  ASSUME GcIInv, NEW s \in Sessions, OpenStore(s)
  PROVE  GcIInv'
<1>1. GcTypeOK
  BY DEF GcIInv
<1>2. /\ session[s].pc = "adopted" /\ Touched /\ SessionAt(s, "opened")
      /\ site' = IF site.kind = "store" THEN site ELSE NewStore
      /\ UNCHANGED <<items, trash, tombstone, workdir, gcLock, gcFaults>>
  BY DEF OpenStore
<1>3. /\ session' \in [Sessions -> Session] /\ session'[s].pc # "restoring"
      /\ \A t \in Sessions \ {s} : session'[t] = session[t]
  BY <1>1, <1>2, SessionAtTyped
<1>4. site' \in Sites /\ site'.kind = "store"
  BY <1>1, <1>2, KindsOfSites DEF GcTypeOK
<1>5. GcTypeOK'
  BY <1>1, <1>2, <1>3, <1>4, SessionTyped DEF GcTypeOK
<1> QED
  BY <1>1, <1>2, <1>3, <1>4, <1>5, SessionCalm, SameFiles, CalmKeeps

LEMMA TouchLeaseKeeps ==
  ASSUME GcIInv, NEW s \in Sessions, TouchLease(s)
  PROVE  GcIInv'
<1>1. GcTypeOK
  BY DEF GcIInv
<1>2. /\ session[s].pc \in {"opened", "using"} /\ SessionAt(s, "using")
      /\ UNCHANGED <<items, trash, tombstone, workdir, gcLock, gc, gcFaults>>
  BY DEF TouchLease
<1>3. /\ session' \in [Sessions -> Session] /\ session'[s].pc # "restoring"
      /\ \A t \in Sessions \ {s} : session'[t] = session[t]
  BY <1>1, <1>2, SessionAtTyped
<1>4. site' \in Sites /\ site'.kind = site.kind
  <2>1. CASE site.kind = "store"
    <3>1. site \in Store
      BY <1>1, <2>1, DirectoryTyped
    <3>2. site' = [site EXCEPT !.leases = @ \cup {s}, !.old = @ /\ session[s].pc = "using"]
      BY <2>1 DEF TouchLease
    <3>3. (site.old /\ session[s].pc = "using") \in BOOLEAN
      BY <3>1 DEF Store
    <3> QED
      BY <3>1, <3>2, <3>3 DEF Store, Sites
  <2>2. CASE site.kind # "store"
    BY <1>1, <2>2 DEF TouchLease, GcTypeOK
  <2> QED
    BY <2>1, <2>2
<1>5. GcTypeOK'
  BY <1>1, <1>2, <1>3, <1>4, SessionTyped DEF GcTypeOK
<1> QED
  BY <1>1, <1>2, <1>3, <1>4, <1>5, SessionCalm, SameFiles, CalmKeeps

LEMMA CheckpointKeeps ==
  ASSUME GcIInv, NEW s \in Sessions, Checkpoint(s)
  PROVE  GcIInv'
<1>1. GcTypeOK
  BY DEF GcIInv
<1>2. /\ session[s].pc = "using" /\ Touched /\ SessionAt(s, "committed")
      /\ site' = IF site.kind = "store" THEN site ELSE NewStore
      /\ UNCHANGED <<trash, tombstone, workdir, gcLock, gcFaults>>
  BY DEF Checkpoint
<1>3. PICK i \in Items : items[i].as = "unborn" /\ items' = [items EXCEPT ![i] = [at |-> 0, as |-> "job"]]
  BY DEF Checkpoint
<1>4. /\ session' \in [Sessions -> Session] /\ session'[s].pc # "restoring"
      /\ \A t \in Sessions \ {s} : session'[t] = session[t]
  BY <1>1, <1>2, SessionAtTyped
<1>5. site' \in Sites /\ site'.kind = "store"
  BY <1>1, <1>2, KindsOfSites DEF GcTypeOK
<1>6. items' \in [Items -> Item] /\ items'[i].at = 0 /\ \A j \in Items \ {i} : items'[j] = items[j]
  BY <1>1, <1>3 DEF GcTypeOK, Item
<1>7. GcTypeOK'
  BY <1>1, <1>2, <1>4, <1>5, <1>6, SessionTyped DEF GcTypeOK
<1>8. CalmFiles
  BY <1>2, <1>5, <1>6 DEF CalmFiles, SameCopy
<1> QED
  BY <1>1, <1>2, <1>4, <1>7, <1>8, SessionCalm, CalmKeeps

LEMMA PublishTokenKeeps ==
  ASSUME GcIInv, NEW s \in Sessions, PublishToken(s)
  PROVE  GcIInv'
<1>1. GcTypeOK
  BY DEF GcIInv
<1>2. /\ session[s].pc = "committed" /\ SessionAt(s, "using")
      /\ UNCHANGED <<items, trash, tombstone, workdir, gcLock, gc, gcFaults>>
  BY DEF PublishToken
<1>3. /\ session' \in [Sessions -> Session] /\ session'[s].pc # "restoring"
      /\ \A t \in Sessions \ {s} : session'[t] = session[t]
  BY <1>1, <1>2, SessionAtTyped
<1>4. site' \in Sites /\ site'.kind = site.kind
  <2>1. CASE site.kind = "store"
    <3>1. site \in Store
      BY <1>1, <2>1, DirectoryTyped
    <3>2. site' = [site EXCEPT !.dirty = TRUE, !.quiet = FALSE, !.old = FALSE]
      BY <2>1 DEF PublishToken
    <3> QED
      BY <3>1, <3>2 DEF Store, Sites
  <2>2. CASE site.kind # "store"
    BY <1>1, <2>2 DEF PublishToken, GcTypeOK
  <2> QED
    BY <2>1, <2>2
<1>5. GcTypeOK'
  BY <1>1, <1>2, <1>3, <1>4, SessionTyped DEF GcTypeOK
<1> QED
  BY <1>1, <1>2, <1>3, <1>4, <1>5, SessionCalm, SameFiles, CalmKeeps

\* The ghost takes the place of nothing.
LEMMA PublishLateKeeps ==
  ASSUME GcIInv, NEW s \in Sessions, PublishLate(s)
  PROVE  GcIInv'
<1>1. GcTypeOK
  BY DEF GcIInv
<1>2. /\ session[s].pc = "committed" /\ SessionAt(s, "using") /\ site = Nothing /\ site' = Ghost
      /\ UNCHANGED <<items, trash, tombstone, workdir, gcLock, gc, gcFaults>>
  BY DEF PublishLate
<1>3. /\ session' \in [Sessions -> Session] /\ session'[s].pc # "restoring"
      /\ \A t \in Sessions \ {s} : session'[t] = session[t]
  BY <1>1, <1>2, SessionAtTyped
<1>4. GcTypeOK'
  BY <1>1, <1>2, <1>3, KindsOfSites, SessionTyped DEF GcTypeOK
<1>5. CalmFiles
  BY <1>2, KindsOfSites, SameFiles
<1> QED
  BY <1>1, <1>2, <1>3, <1>4, <1>5, SessionCalm, CalmKeeps

\* What is digested is in the store at the path.
LEMMA DigestKeeps ==
  ASSUME GcIInv, NEW i \in Items, Digest(i)
  PROVE  GcIInv'
<1>1. GcTypeOK
  BY DEF GcIInv
<1> DEFINE kind == IF items[i].as = "job" THEN "row" ELSE "doc"
           next == [items[i] EXCEPT !.as = kind]
           dirty == At(0, {"job"}) \ {i} # {}
<1>2. /\ items[i].at = 0 /\ items[i].as \in Living /\ Touched
      /\ items' = [items EXCEPT ![i] = next]
      /\ site' = [site EXCEPT !.dirty = dirty]
      /\ UNCHANGED <<trash, tombstone, workdir, gcLock, session, gcFaults>>
  BY DEF Digest, Living
<1>3. dirty \in BOOLEAN
  OBVIOUS
<1>4. next \in Item /\ next.at = 0
  BY <1>1, <1>2 DEF GcTypeOK, Item
<1> HIDE DEF next, dirty
<1>5. items' \in [Items -> Item] /\ items'[i].at = 0 /\ \A j \in Items \ {i} : items'[j] = items[j]
  BY <1>1, <1>2, <1>4 DEF GcTypeOK
<1>6. site.kind = "store"
  BY <1>2 DEF GcIInv, StoresAreKept, NothingVanishes
<1>7. site' \in Sites /\ site'.kind = "store"
  <2>1. site \in Store
    BY <1>1, <1>6, DirectoryTyped
  <2> QED
    BY <1>2, <1>3, <2>1 DEF Store, Sites
<1>8. gc' \in [Collectors -> Gc] /\ \A g \in Collectors : gc'[g].pc = gc[g].pc
  BY <1>1, <1>2, TouchedTyped
<1>9. GcTypeOK'
  BY <1>1, <1>2, <1>5, <1>7, <1>8 DEF GcTypeOK
<1>10. CalmFiles
  BY <1>2, <1>5, <1>7 DEF CalmFiles, SameCopy
<1> QED
  BY <1>1, <1>2, <1>9, <1>10, SameActors, CalmKeeps DEF GcTypeOK

LEMMA NoSessionTyped == NoSession \in Session /\ NoSession.pc = "out"
BY DEF NoSession, Session

LEMMA EndSessionKeeps ==
  ASSUME GcIInv, NEW s \in Sessions, EndSession(s)
  PROVE  GcIInv'
<1>1. GcTypeOK
  BY DEF GcIInv
<1>2. /\ session[s].pc = "using" /\ session' = [session EXCEPT ![s] = NoSession]
      /\ site' = [site EXCEPT !.leases = @ \ {s}]
      /\ UNCHANGED <<items, trash, tombstone, workdir, gcLock, gc, gcFaults>>
  BY DEF EndSession
<1>3. /\ session' \in [Sessions -> Session] /\ session'[s].pc # "restoring"
      /\ \A t \in Sessions \ {s} : session'[t] = session[t]
  BY <1>1, <1>2, NoSessionTyped DEF GcTypeOK
<1>4. site' \in Sites /\ site'.kind = site.kind
  BY <1>1, <1>2, DirectoryTyped
<1>5. GcTypeOK'
  BY <1>1, <1>2, <1>3, <1>4, SessionTyped DEF GcTypeOK
<1> QED
  BY <1>1, <1>2, <1>3, <1>4, <1>5, SessionCalm, SameFiles, CalmKeeps

\* A copy whose store loses a lease.
LEMMA CopyLosesLease ==
  ASSUME NEW c \in Copy, NEW s
  PROVE  LET d == [c EXCEPT !.store.leases = @ \ {s}]
         IN /\ d \in Copy /\ d.state = c.state /\ d.dead = c.dead /\ d.excused = c.excused
            /\ d.store.kind = c.store.kind
<1> DEFINE store == [c.store EXCEPT !.leases = @ \ {s}]
           d == [c EXCEPT !.store.leases = @ \ {s}]
<1>1. c.store \in Sites
  BY DEF Copy
<1>2. store \in Sites /\ store.kind = c.store.kind
  BY <1>1, LeaseLost
<1>3. d = [c EXCEPT !.store = store]
  OBVIOUS
<1> HIDE DEF store, d
<1>4. d \in Copy /\ d.state = c.state /\ d.dead = c.dead /\ d.excused = c.excused /\ d.store = store
  BY <1>2, <1>3 DEF Copy
<1>5. d.store.kind = c.store.kind
  BY <1>2, <1>4
<1> QED
  BY <1>4, <1>5 DEF d

LEMMA SessionDiesKeeps ==
  ASSUME GcIInv, NEW s \in Sessions, SessionDies(s)
  PROVE  GcIInv'
<1>1. GcTypeOK
  BY DEF GcIInv
<1> DEFINE loses(e) == [trash[e] EXCEPT !.store.leases = @ \ {s}]
<1>2. /\ session' = [session EXCEPT ![s] = NoSession]
      /\ site' = [site EXCEPT !.leases = @ \ {s}]
      /\ trash' = [e \in Copies |-> loses(e)]
      /\ gcLock' = IF gcLock = s THEN "free" ELSE gcLock
      /\ UNCHANGED <<items, tombstone, workdir, gc>>
  BY DEF SessionDies
<1>3. gcFaults' \in 0..MaxGcFaults
  BY <1>1, GcAssumption DEF SessionDies, GcFault, GcTypeOK
<1>4. /\ session' \in [Sessions -> Session] /\ session'[s].pc # "restoring"
      /\ \A t \in Sessions \ {s} : session'[t] = session[t]
  BY <1>1, <1>2, NoSessionTyped DEF GcTypeOK
<1>5. site' \in Sites /\ site'.kind = site.kind
  BY <1>1, <1>2, DirectoryTyped
<1>6. ASSUME NEW e \in Copies
      PROVE  /\ loses(e) \in Copy /\ loses(e).state = trash[e].state /\ loses(e).dead = trash[e].dead
             /\ loses(e).excused = trash[e].excused /\ loses(e).store.kind = trash[e].store.kind
  <2>1. trash[e] \in Copy
    BY <1>1 DEF GcTypeOK
  <2> QED
    BY <2>1, CopyLosesLease
<1> HIDE DEF loses
<1>7. trash' \in [Copies -> Copy] /\ \A e \in Copies : SameCopy(e)
  BY <1>2, <1>6 DEF SameCopy
<1>8. GcTypeOK'
  <2>1. \A g \in Collectors : (gcLock = g <=> gc[g].pc \in {"made", "tombstoned", "rolled"})'
    BY <1>1, <1>2, GcAssumption DEF GcTypeOK
  <2>2. \A t \in Sessions : (gcLock = t <=> session[t].pc = "restoring")'
    BY <1>1, <1>2, <1>4, GcAssumption DEF GcTypeOK
  <2>3. gcLock' \in Collectors \cup Sessions \cup {"free"}
    BY <1>1, <1>2 DEF GcTypeOK
  <2> QED
    BY <1>1, <1>2, <1>3, <1>4, <1>5, <1>7, <2>1, <2>2, <2>3 DEF GcTypeOK
<1>9. CalmFiles
  BY <1>2, <1>5, <1>7 DEF CalmFiles
<1> QED
  BY <1>1, <1>2, <1>4, <1>8, <1>9, SessionCalm, CalmKeeps

LEMMA WorkdirChangesKeeps ==
  ASSUME GcIInv, WorkdirChanges
  PROVE  GcIInv'
<1>1. GcTypeOK
  BY DEF GcIInv
<1>2. workdir' = ~workdir /\ UNCHANGED <<site, items, trash, tombstone, gcLock, gc, session, gcFaults>>
  BY DEF WorkdirChanges
<1>3. GcTypeOK'
  BY <1>1, <1>2 DEF GcTypeOK
<1> QED
  BY <1>1, <1>2, <1>3, SameActors, SameFiles, CalmKeeps DEF GcTypeOK

LEMMA HourPassesKeeps ==
  ASSUME GcIInv, HourPasses
  PROVE  GcIInv'
<1>1. GcTypeOK
  BY DEF GcIInv
<1>2. /\ site.missing = "new" /\ site' = [site EXCEPT !.missing = "confirmed"]
      /\ UNCHANGED <<items, trash, tombstone, workdir, gcLock, gc, session, gcFaults>>
  BY DEF HourPasses
<1>3. site \in Store
  BY <1>1, <1>2 DEF GcTypeOK, Sites, Nothing, Ghost, NoSite
<1>4. site' \in Sites /\ site'.kind = "store"
  BY <1>2, <1>3 DEF Store, Sites
<1>5. GcTypeOK'
  BY <1>1, <1>2, <1>4 DEF GcTypeOK
<1> QED
  BY <1>1, <1>2, <1>4, <1>5, SameActors, SameFiles, CalmKeeps DEF GcTypeOK

LEMMA DaysPassKeeps ==
  ASSUME GcIInv, DaysPass
  PROVE  GcIInv'
<1>1. GcTypeOK
  BY DEF GcIInv
<1> DEFINE older(e) == [trash[e] EXCEPT !.age = @ + 1]
<1>2. /\ site' = IF site.kind = "store" THEN [site EXCEPT !.old = TRUE, !.quiet = TRUE] ELSE site
      /\ trash' = [e \in Copies |-> IF Usable(e) /\ trash[e].age < 2 THEN older(e) ELSE trash[e]]
      /\ UNCHANGED <<items, tombstone, workdir, gcLock, gc, session, gcFaults>>
  BY DEF DaysPass
<1>3. site' \in Sites /\ site'.kind = site.kind
  <2>1. CASE site.kind = "store"
    <3>1. site \in Store
      BY <1>1, <2>1, DirectoryTyped
    <3>2. site' = [site EXCEPT !.old = TRUE, !.quiet = TRUE]
      BY <1>2, <2>1
    <3> QED
      BY <3>1, <3>2 DEF Store, Sites
  <2>2. CASE site.kind # "store"
    BY <1>1, <1>2, <2>2 DEF GcTypeOK
  <2> QED
    BY <2>1, <2>2
<1>4. ASSUME NEW e \in Copies, trash[e].age < 2
      PROVE  /\ older(e) \in Copy /\ older(e).state = trash[e].state /\ older(e).dead = trash[e].dead
             /\ older(e).excused = trash[e].excused /\ older(e).store = trash[e].store
  <2>1. trash[e] \in Copy /\ trash[e].age + 1 \in 0..2
    BY <1>1, <1>4 DEF GcTypeOK, Copy
  <2> QED
    BY <2>1 DEF Copy
<1> HIDE DEF older
<1>5. trash' \in [Copies -> Copy] /\ \A e \in Copies : SameCopy(e)
  BY <1>1, <1>2, <1>4 DEF GcTypeOK, SameCopy
<1>6. GcTypeOK'
  BY <1>1, <1>2, <1>3, <1>5 DEF GcTypeOK
<1>7. CalmFiles
  BY <1>2, <1>3, <1>5 DEF CalmFiles
<1> QED
  BY <1>1, <1>2, <1>6, <1>7, SameActors, CalmKeeps DEF GcTypeOK

----------------------------------------------------------------------------
(***************************************************************************)
(* The theorems                                                            *)
(***************************************************************************)
LEMMA GcInitKeeps ==
  ASSUME GcInit
  PROVE  GcIInv
<1>1. \A g \in Collectors : gc[g] = NoGc /\ gc[g].pc = "idle"
  BY DEF GcInit, NoGc
<1>2. \A s \in Sessions : session[s] = NoSession /\ session[s].pc = "out"
  BY DEF GcInit, NoSession
<1>3. \A e \in Copies : trash[e].state = "unused"
  BY NoCopyTyped DEF GcInit
<1>4. \A i \in Items : items[i].as \notin Living
  BY DEF GcInit, Living
<1>5. GcTypeOK
  <2>1. /\ site \in Sites /\ trash \in [Copies -> Copy] /\ tombstone \in Copies \cup {0} /\ workdir \in BOOLEAN
        /\ gcFaults \in 0..MaxGcFaults /\ gcLock = "free"
    BY KindsOfSites, NoCopyTyped, GcAssumption DEF GcInit
  <2>2. items \in [Items -> Item]
    BY DEF GcInit, Item
  <2>3. gc \in [Collectors -> Gc]
    BY DEF GcInit, NoGc, Gc
  <2>4. session \in [Sessions -> Session]
    BY NoSessionTyped DEF GcInit
  <2> QED
    BY <1>1, <1>2, <2>1, <2>2, <2>3, <2>4, GcAssumption DEF GcTypeOK
<1>6. \A g \in Collectors : ~Busy(g) /\ ~HoldsLock(g) /\ ~Moving(g) /\ ~HasMoved(g)
  BY <1>1 DEF Busy, HoldsLock, Moving, HasMoved
<1>7. Full = {}
  BY <1>3 DEF Full
<1>8. StoresAreKept
  BY <1>4, <1>7 DEF StoresAreKept, NothingVanishes, WorkIsBroughtBack
<1> QED
  BY <1>2, <1>5, <1>6, <1>7, <1>8 DEF GcIInv, Entries, Guarded, MovedStores

LEMMA GcNextKeeps ==
  ASSUME GcIInv, [GcNext]_gcVars
  PROVE  GcIInv'
<1>1. ASSUME NEW g \in Collectors,
             Purge(g) \/ (\E e \in Copies : PurgeDies(g, e)) \/ Plan(g) \/ GcStep(g) \/ MoveFails(g) \/ GcDies(g)
      PROVE  GcIInv'
  <2>1. CASE Purge(g)
    BY <2>1, PurgeKeeps
  <2>2. CASE \E e \in Copies : PurgeDies(g, e)
    BY <2>2, PurgeDiesKeeps
  <2>3. CASE Plan(g)
    BY <2>3, PlanKeeps
  <2>4. CASE Inspect(g)
    BY <2>4, InspectKeeps
  <2>5. CASE MakeEntry(g)
    BY <2>5, MakeEntryKeeps
  <2>6. CASE WriteTombstone(g)
    BY <2>6, WriteTombstoneKeeps
  <2>7. CASE MoveStore(g)
    BY <2>7, MoveStoreKeeps
  <2>8. CASE InspectMoved(g)
    BY <2>8, InspectMovedKeeps
  <2>9. CASE RollBack(g)
    BY <2>9, RollBackKeeps
  <2>10. CASE RemoveEntry(g)
    BY <2>10, RemoveEntryKeeps
  <2>11. CASE MoveFails(g)
    BY <2>11, MoveFailsKeeps
  <2>12. CASE GcDies(g)
    BY <2>12, GcDiesKeeps
  <2> QED
    BY <1>1, <2>1, <2>2, <2>3, <2>4, <2>5, <2>6, <2>7, <2>8, <2>9, <2>10, <2>11, <2>12 DEF GcStep
<1>2. ASSUME NEW s \in Sessions,
             \/ Adopt(s) \/ SessionStep(s) \/ Checkpoint(s) \/ PublishLate(s)
             \/ LockTimesOut(s) \/ RestoreFails(s) \/ FinishFails(s) \/ EndSession(s) \/ SessionDies(s)
      PROVE  GcIInv'
  <2>1. CASE Adopt(s)
    BY <2>1, AdoptKeeps
  <2>2. CASE AskForCopy(s)
    BY <2>2, AskForCopyKeeps
  <2>3. CASE FinishRestore(s)
    BY <2>3, FinishRestoreKeeps
  <2>4. CASE OpenStore(s)
    BY <2>4, OpenStoreKeeps
  <2>5. CASE TouchLease(s)
    BY <2>5, TouchLeaseKeeps
  <2>6. CASE PublishToken(s)
    BY <2>6, PublishTokenKeeps
  <2>7. CASE Checkpoint(s)
    BY <2>7, CheckpointKeeps
  <2>8. CASE PublishLate(s)
    BY <2>8, PublishLateKeeps
  <2>9. CASE EndSession(s)
    BY <2>9, EndSessionKeeps
  <2>10. CASE SessionDies(s)
    BY <2>10, SessionDiesKeeps
  <2>11. CASE LockTimesOut(s) \/ RestoreFails(s) \/ FinishFails(s)
    BY <2>11, LockTimesOutKeeps, RestoreFailsKeeps, FinishFailsKeeps
  <2> QED
    BY <1>2, <2>1, <2>2, <2>3, <2>4, <2>5, <2>6, <2>7, <2>8, <2>9, <2>10, <2>11 DEF SessionStep
<1>3. ASSUME NEW i \in Items, Digest(i) PROVE GcIInv'
  BY <1>3, DigestKeeps
<1>4. CASE WorkdirChanges
  BY <1>4, WorkdirChangesKeeps
<1>5. CASE HourPasses
  BY <1>5, HourPassesKeeps
<1>6. CASE DaysPass
  BY <1>6, DaysPassKeeps
<1>7. CASE UNCHANGED gcVars
  <2>1. UNCHANGED <<site, items, trash, tombstone, workdir, gcLock, gc, session, gcFaults>> /\ GcTypeOK
    BY <1>7 DEF gcVars, GcIInv
  <2>2. GcTypeOK'
    BY <2>1 DEF GcTypeOK
  <2> QED
    BY <2>1, <2>2, SameActors, SameFiles, CalmKeeps DEF GcTypeOK
<1> QED
  BY <1>1, <1>2, <1>3, <1>4, <1>5, <1>6, <1>7 DEF GcNext

(***************************************************************************)
(* The inductive invariant of the collectors, the sessions and the trash.  *)
(***************************************************************************)
THEOREM GcInvariant == GcSpec => []GcIInv
<1>1. GcInit => GcIInv
  BY GcInitKeeps
<1>2. GcIInv /\ [GcNext]_gcVars => GcIInv'
  BY GcNextKeeps
<1> QED
  BY <1>1, <1>2, PTL DEF GcSpec

(***************************************************************************)
(* The variables have their types, and the lifecycle lock is held by the   *)
(* collector or the adoption that is between its moves, and by nobody else *)
(* (withLifecycleLock).                                                    *)
(***************************************************************************)
THEOREM GcTypeCorrect == GcSpec => []GcTypeOK
<1>1. GcIInv => GcTypeOK
  BY DEF GcIInv
<1> QED
  BY <1>1, GcInvariant, PTL

(***************************************************************************)
(* Whatever the numbers of collectors, sessions, pieces of memory, trash   *)
(* entries and crashes, all that was written is in the store at the path   *)
(* or in an entry that a restore can move back, until that entry's purge,  *)
(* and no work stays in the trash that its collector should have brought   *)
(* back (quarantineStore, executeStoreGc, restoreStoreInner).              *)
(***************************************************************************)
THEOREM StoresAreKeptHolds == GcSpec => []StoresAreKept
<1>1. GcIInv => StoresAreKept
  BY DEF GcIInv
<1> QED
  BY <1>1, GcInvariant, PTL

----------------------------------------------------------------------------
(***************************************************************************)
(* What an adopting session finds (NeverStartsEmpty)                       *)
(***************************************************************************)
Used(e) == trash[e].state # "unused"

\* Entries are made in the order of their names.  The one that a collector is
\* about to fill is the newest of all, and the tombstone points at it; no full
\* entry is newer than the tombstone, or younger than a newer one; and where
\* the tombstone is gone and there is no store, what is left has been given up.
Ordered ==
    /\ \A e \in Copies : ~Used(e) => trash[e].age = 0
    /\ \A e, f \in Copies : e < f /\ Used(f) => Used(e)
    /\ \A g \in Collectors : Moving(g) => trash[gc[g].entry].age = 0 /\ \A f \in Copies : Used(f) => f <= gc[g].entry
    /\ \A e, f \in Full : e < f => trash[f].age <= trash[e].age
Pointed ==
    /\ \A g \in Collectors : gc[g].pc = "tombstoned" => tombstone = gc[g].entry
    /\ \A g \in Collectors : gc[g].pc = "rolled" => site.kind = "store"
    /\ tombstone # 0 => \A e \in Full : e <= tombstone
    /\ tombstone = 0 /\ site.kind # "store" => \A e \in Full : GivenUp(e)
\* What a session found is no entry that will be filled; what is newer came
\* while the session was at it; and it has been dealt with once the session is
\* adopted without an error.
Adopting == {s \in Sessions : session[s].pc \in {"asking", "restoring", "adopted"}}
Dealt(s) ==
    LET e == session[s].found
    IN e \in Full /\ ~GivenUp(e) /\ ~session[s].failed /\ site.kind # "store" => \E f \in Full : f > e
Finds ==
    /\ \A s \in Sessions : session[s].found # 0 =>
          /\ Used(session[s].found)
          /\ \A g \in Collectors : Moving(g) => gc[g].entry # session[s].found
    /\ \A s \in Adopting : session[s].found # 0 =>
          \A f \in Full : f > session[s].found => trash[f].age = 0
    /\ \A s \in Sessions : session[s].pc = "adopted" => Dealt(s)
OrderIInv == Ordered /\ Pointed /\ Finds

\* What most steps keep to: no entry is made or filled, although some are
\* emptied; a store keeps its path, and the tombstone goes only if it is not
\* needed; and no session finds anything.
SameOrEmptied(e) ==
    \/ trash'[e].state = trash[e].state /\ trash'[e].age = trash[e].age
    \/ Used(e) /\ trash'[e].state \notin {"unused", "full"} /\ trash'[e].age \in {0, trash[e].age}
NothingFilled ==
    /\ \A e \in Copies : SameOrEmptied(e)
    /\ \A g \in Collectors : Moving(g)' => Moving(g) /\ gc'[g].entry = gc[g].entry
PathKept ==
    /\ site.kind = "store" => site'.kind = "store"
    /\ \/ UNCHANGED tombstone
       \/ tombstone' = 0 /\ (site'.kind = "store" \/ \A e \in Full' : GivenUp(e)')
    /\ \A e \in Full' : e \in Full /\ (GivenUp(e) => GivenUp(e)')
    /\ \A g \in Collectors :
          /\ gc'[g].pc = "tombstoned" =>
                gc[g].pc = "tombstoned" /\ gc'[g].entry = gc[g].entry /\ UNCHANGED tombstone
          /\ gc'[g].pc = "rolled" => gc[g].pc = "rolled" \/ site'.kind = "store"
NothingFound ==
    /\ site'.kind = "store" \/ \A e \in Full : e \in Full' \/ trash[e].age >= 1
    /\ \A s \in Sessions :
          \/ session'[s].found = 0
          \/ /\ session'[s].found = session[s].found
             /\ s \in Adopting' => s \in Adopting
             /\ session'[s].pc = "adopted" => session'[s] = session[s] \/ Dealt(s)'

LEMMA OrderedKeeps ==
  ASSUME GcIInv, Ordered, NothingFilled
  PROVE  Ordered'
<1>1. \A e \in Copies : Used(e)' <=> Used(e)
  BY DEF NothingFilled, SameOrEmptied, Used
<1>2. \A e \in Copies : ~Used(e)' => trash'[e].age = 0
  BY <1>1 DEF Ordered, NothingFilled, SameOrEmptied
<1>3. \A e, f \in Copies : e < f /\ Used(f)' => Used(e)'
  BY <1>1 DEF Ordered
<1>4. ASSUME NEW g \in Collectors, Moving(g)'
      PROVE  trash'[gc'[g].entry].age = 0 /\ \A f \in Copies : Used(f)' => f <= gc'[g].entry
  <2>1. Moving(g) /\ gc'[g].entry = gc[g].entry /\ gc[g].entry \in Copies
    BY <1>4 DEF NothingFilled, GcIInv, Entries, Busy, HoldsLock
  <2>2. trash[gc[g].entry].age = 0 /\ \A f \in Copies : Used(f) => f <= gc[g].entry
    BY <2>1 DEF Ordered
  <2>3. trash'[gc[g].entry].age = 0
    BY <2>1, <2>2 DEF NothingFilled, SameOrEmptied
  <2> QED
    BY <1>1, <2>1, <2>2, <2>3
<1>5. \A e \in Full' : e \in Full /\ trash'[e].age = trash[e].age
  BY DEF NothingFilled, SameOrEmptied, Full
<1>6. \A e, f \in Full' : e < f => trash'[f].age <= trash'[e].age
  BY <1>5 DEF Ordered
<1> QED
  BY <1>2, <1>3, <1>4, <1>6 DEF Ordered

LEMMA PointedKeeps ==
  ASSUME Pointed, PathKept
  PROVE  Pointed'
<1>1. ASSUME NEW g \in Collectors, gc'[g].pc = "tombstoned" PROVE tombstone' = gc'[g].entry
  BY <1>1 DEF Pointed, PathKept
<1>2. ASSUME NEW g \in Collectors, gc'[g].pc = "rolled" PROVE site'.kind = "store"
  BY <1>2 DEF Pointed, PathKept
<1>3. ASSUME tombstone' # 0, NEW e \in Full' PROVE e <= tombstone'
  BY <1>3 DEF Pointed, PathKept
<1>4. ASSUME tombstone' = 0, site'.kind # "store", NEW e \in Full' PROVE GivenUp(e)'
  BY <1>4 DEF Pointed, PathKept
<1> QED
  BY <1>1, <1>2, <1>3, <1>4 DEF Pointed

LEMMA FindsKeeps ==
  ASSUME GcIInv, Finds, NothingFilled, PathKept, NothingFound
  PROVE  Finds'
<1>1. \A e \in Copies : Used(e)' <=> Used(e)
  BY DEF NothingFilled, SameOrEmptied, Used
<1>2. \A e \in Full' : e \in Full /\ trash'[e].age = trash[e].age /\ (GivenUp(e) => GivenUp(e)')
  BY DEF NothingFilled, SameOrEmptied, PathKept, Full
<1>3. \A s \in Sessions : session[s].found \in Copies \cup {0}
  BY DEF GcIInv, GcTypeOK, Session
<1>4. ASSUME NEW s \in Sessions, session'[s].found # 0
      PROVE  /\ trash'[session'[s].found].state # "unused"
             /\ \A g \in Collectors : Moving(g)' => gc'[g].entry # session'[s].found
  <2>1. session'[s].found = session[s].found /\ session[s].found \in Copies
    BY <1>3, <1>4 DEF NothingFound
  <2>2. Used(session[s].found) /\ \A g \in Collectors : Moving(g) => gc[g].entry # session[s].found
    BY <1>4, <2>1 DEF Finds
  <2>3. trash'[session[s].found].state # "unused"
    BY <1>1, <2>1, <2>2 DEF Used
  <2> QED
    BY <2>1, <2>2, <2>3 DEF NothingFilled
<1>5. ASSUME NEW s \in Adopting', session'[s].found # 0, NEW f \in Full', f > session'[s].found
      PROVE  trash'[f].age = 0
  <2>1. s \in Sessions /\ session'[s].found = session[s].found /\ s \in Adopting
    BY <1>5 DEF NothingFound, Adopting
  <2> QED
    BY <1>2, <1>5, <2>1 DEF Finds
<1>6. ASSUME NEW s \in Sessions, session'[s].pc = "adopted" PROVE Dealt(s)'
  <2> DEFINE e == session'[s].found
  <2>1. SUFFICES ASSUME e \in Full', ~(trash'[e].conflict \/ trash'[e].forgotten), ~session'[s].failed, site'.kind # "store"
                 PROVE  \E f \in Full' : f > e
    BY DEF Dealt, GivenUp
  <2>2. e # 0
    BY <2>1, GcAssumption DEF Full
  <2>3. session[s].found = e /\ (session'[s] = session[s] \/ Dealt(s)')
    BY <1>6, <2>2 DEF NothingFound
  <2>4. CASE Dealt(s)'
    BY <2>1, <2>4 DEF Dealt, GivenUp
  <2>5. CASE session'[s] = session[s]
    <3>1. Dealt(s) /\ s \in Adopting
      BY <1>6, <2>5 DEF Finds, Adopting
    <3>2. e \in Full /\ ~GivenUp(e) /\ ~session[s].failed /\ site.kind # "store"
      BY <1>2, <2>1, <2>5 DEF PathKept, GivenUp
    <3>3. PICK f \in Full : f > e
      BY <2>3, <3>1, <3>2 DEF Dealt
    <3>4. trash[f].age = 0
      BY <2>2, <2>3, <3>1, <3>3 DEF Finds
    <3>5. f \in Full'
      BY <2>1, <3>4 DEF NothingFound
    <3> QED
      BY <3>3, <3>5
  <2> QED
    BY <2>3, <2>4, <2>5
<1> QED
  BY <1>4, <1>5, <1>6 DEF Finds, Used

LEMMA OrderKeeps ==
  ASSUME GcIInv, OrderIInv, NothingFilled, PathKept, NothingFound
  PROVE  OrderIInv'
BY OrderedKeeps, PointedKeeps, FindsKeeps DEF OrderIInv

\* Steps that change neither the trash nor the way to it.
QuietFiles ==
    /\ UNCHANGED tombstone
    /\ site.kind = "store" => site'.kind = "store"
    /\ \A e \in Copies : /\ trash'[e].state = trash[e].state /\ trash'[e].age = trash[e].age
                         /\ GivenUp(e)' = GivenUp(e)
QuietGc ==
    \A g \in Collectors :
       /\ Moving(g)' => Moving(g) /\ gc'[g].entry = gc[g].entry
       /\ gc'[g].pc = "tombstoned" => gc[g].pc = "tombstoned" /\ gc'[g].entry = gc[g].entry
       /\ gc'[g].pc = "rolled" => gc[g].pc = "rolled"
QuietSessions ==
    \A s \in Sessions :
       \/ session'[s].found = 0
       \/ /\ session'[s].found = session[s].found
          /\ session'[s].pc \in {"asking", "restoring", "adopted"} => session'[s] = session[s]

LEMMA QuietKeeps ==
  ASSUME GcIInv, OrderIInv, QuietFiles, QuietGc, QuietSessions
  PROVE  OrderIInv'
<1>1. Full' = Full
  BY DEF QuietFiles, Full
<1>2. NothingFilled
  BY DEF NothingFilled, SameOrEmptied, QuietFiles, QuietGc
<1>3. PathKept
  BY <1>1 DEF PathKept, QuietFiles, QuietGc, Full
<1>4. NothingFound
  BY <1>1 DEF NothingFound, QuietSessions, Adopting
<1> QED
  BY <1>2, <1>3, <1>4, OrderKeeps

LEMMA RestingCollectors ==
  ASSUME GcTypeOK, UNCHANGED gc \/ Touched
  PROVE  QuietGc
<1>1. \A g \in Collectors : gc'[g].pc = gc[g].pc /\ gc'[g].entry = gc[g].entry
  BY DEF Touched, Gc, GcTypeOK
<1> QED
  BY <1>1 DEF QuietGc, Moving

LEMMA LeavingCollector ==
  ASSUME NEW g \in Collectors, gc'[g].pc \notin {"made", "tombstoned", "rolled"},
         \A h \in Collectors \ {g} : gc'[h] = gc[h]
  PROVE  QuietGc
BY DEF QuietGc, Moving

LEMMA RestingSessions ==
  ASSUME UNCHANGED session
  PROVE  QuietSessions
BY DEF QuietSessions

LEMMA GoingSession ==
  ASSUME GcTypeOK, NEW s \in Sessions, NEW p \in {"opened", "using", "committed"}, SessionAt(s, p)
  PROVE  QuietSessions
<1>1. session'[s].pc = p /\ \A t \in Sessions \ {s} : session'[t] = session[t]
  BY DEF SessionAt, GcTypeOK, Session
<1>2. \A t \in Sessions : session'[t].found = session[t].found
  BY DEF SessionAt, GcTypeOK, Session
<1> QED
  BY <1>1, <1>2 DEF QuietSessions

LEMMA EndedSession ==
  ASSUME GcTypeOK, NEW s \in Sessions, session' = [session EXCEPT ![s] = NoSession]
  PROVE  QuietSessions
<1>1. session'[s].found = 0 /\ \A t \in Sessions \ {s} : session'[t] = session[t]
  BY DEF GcTypeOK, NoSession
<1> QED
  BY <1>1 DEF QuietSessions

\* A look of a collector, or the end of its work.
LEMMA PlanOrder ==
  ASSUME GcIInv, OrderIInv, NEW g \in Collectors, Plan(g)
  PROVE  OrderIInv'
<1>1. GcTypeOK
  BY DEF GcIInv
<1>2. site.kind = "store" /\ UNCHANGED <<trash, tombstone, session>>
  BY DEF Plan
<1>3. site'.kind = "store"
  <2>1. site \in Store
    BY <1>1, <1>2, KindsOfSites DEF GcTypeOK
  <2> QED
    BY <1>2, <2>1 DEF Plan, Store
<1> DEFINE planned == [NoGc EXCEPT !.pc = "planned", !.tier = Tier]
<1>4. gc' = gc \/ GcIs(g, planned)
  BY DEF Plan
<1>5. planned \in Gc /\ planned.pc = "planned"
  BY DEF NoGc, Gc, Tier
<1> HIDE DEF planned
<1>6. QuietGc
  <2>1. CASE gc' = gc
    BY <1>1, <2>1, RestingCollectors
  <2>2. CASE GcIs(g, planned)
    <3>1. gc'[g].pc = "planned" /\ \A h \in Collectors \ {g} : gc'[h] = gc[h]
      BY <1>1, <1>5, <2>2, GcIsTyped
    <3> QED
      BY <3>1, LeavingCollector
  <2> QED
    BY <1>4, <2>1, <2>2
<1>7. QuietFiles
  BY <1>2, <1>3 DEF QuietFiles, GivenUp
<1> QED
  BY <1>2, <1>6, <1>7, RestingSessions, QuietKeeps

LEMMA InspectOrder ==
  ASSUME GcIInv, OrderIInv, NEW g \in Collectors, Inspect(g)
  PROVE  OrderIInv'
<1>1. GcTypeOK
  BY DEF GcIInv
<1> DEFINE dead == gc[g].tier = "orphan" /\ At(0, {"job"}) # {} /\ site.quiet
           seen == [gc[g] EXCEPT !.pc = "inspected", !.dead = dead]
<1>2. /\ UNCHANGED <<site, trash, tombstone, session>>
      /\ gc' = [gc EXCEPT ![g] = NoGc] \/ gc' = [gc EXCEPT ![g] = seen]
  BY DEF Inspect, GcIs
<1>3. NoGc.pc = "idle" /\ seen.pc = "inspected"
  <2>1. gc[g] \in Gc
    BY <1>1 DEF GcTypeOK
  <2> QED
    BY <2>1 DEF NoGc, Gc
<1> HIDE DEF seen
<1>4. gc'[g].pc \in {"idle", "inspected"} /\ \A h \in Collectors \ {g} : gc'[h] = gc[h]
  BY <1>1, <1>2, <1>3 DEF GcTypeOK
<1>5. QuietGc
  BY <1>4, LeavingCollector
<1>6. QuietFiles
  BY <1>2 DEF QuietFiles, GivenUp
<1> QED
  BY <1>2, <1>5, <1>6, RestingSessions, QuietKeeps

LEMMA InspectMovedOrder ==
  ASSUME GcIInv, OrderIInv, NEW g \in Collectors, InspectMoved(g)
  PROVE  OrderIInv'
<1>1. GcTypeOK
  BY DEF GcIInv
<1> DEFINE back == [gc[g] EXCEPT !.pc = "rolling"]
<1>2. /\ UNCHANGED <<site, trash, tombstone, session>>
      /\ gc' = [gc EXCEPT ![g] = NoGc] \/ gc' = [gc EXCEPT ![g] = back]
  BY DEF InspectMoved, GcIs
<1>3. NoGc.pc = "idle" /\ back.pc = "rolling"
  BY <1>1, GcFields
<1> HIDE DEF back
<1>4. gc'[g].pc \in {"idle", "rolling"} /\ \A h \in Collectors \ {g} : gc'[h] = gc[h]
  BY <1>1, <1>2, <1>3 DEF GcTypeOK
<1>5. QuietGc
  BY <1>4, LeavingCollector
<1>6. QuietFiles
  BY <1>2 DEF QuietFiles, GivenUp
<1> QED
  BY <1>2, <1>5, <1>6, RestingSessions, QuietKeeps

LEMMA ExcusedQuiet ==
  ASSUME GcTypeOK, NEW e \in Copies, trash' = [trash EXCEPT ![e].excused = TRUE]
  PROVE  \A f \in Copies : /\ trash'[f].state = trash[f].state /\ trash'[f].age = trash[f].age
                           /\ trash'[f].conflict = trash[f].conflict /\ trash'[f].forgotten = trash[f].forgotten
<1>1. trash \in [Copies -> Copy]
  BY DEF GcTypeOK
<1> QED
  BY <1>1 DEF Copy

LEMMA GcDiesOrder ==
  ASSUME GcIInv, OrderIInv, NEW g \in Collectors, GcDies(g)
  PROVE  OrderIInv'
<1>1. GcTypeOK
  BY DEF GcIInv
<1>2. /\ gc[g].pc \in {"made", "tombstoned", "moved", "rolling", "rolled"} /\ GcIs(g, NoGc)
      /\ trash' = IF gc[g].pc \in {"moved", "rolling"} THEN [trash EXCEPT ![gc[g].entry].excused = TRUE] ELSE trash
      /\ UNCHANGED <<site, tombstone, session>>
  BY DEF GcDies
<1>3. gc[g].entry \in Copies
  BY <1>2 DEF GcIInv, Entries, Busy, HoldsLock, Moving, HasMoved
<1>4. gc'[g].pc = "idle" /\ \A h \in Collectors \ {g} : gc'[h] = gc[h]
  BY <1>1, <1>2, GcFields, GcIsTyped
<1>5. QuietGc
  BY <1>4, LeavingCollector
<1>6. QuietFiles
  BY <1>1, <1>2, <1>3, ExcusedQuiet DEF QuietFiles, GivenUp
<1> QED
  BY <1>2, <1>5, <1>6, RestingSessions, QuietKeeps

LEMMA SessionOrder ==
  ASSUME GcIInv, OrderIInv, NEW s \in Sessions,
         OpenStore(s) \/ TouchLease(s) \/ Checkpoint(s) \/ PublishToken(s) \/ PublishLate(s)
  PROVE  OrderIInv'
<1>1. GcTypeOK
  BY DEF GcIInv
<1>2. UNCHANGED <<trash, tombstone>> /\ (UNCHANGED gc \/ Touched)
  BY DEF OpenStore, TouchLease, Checkpoint, PublishToken, PublishLate
<1>3. SessionAt(s, "opened") \/ SessionAt(s, "using") \/ SessionAt(s, "committed")
  BY DEF OpenStore, TouchLease, Checkpoint, PublishToken, PublishLate
<1>4. site.kind = "store" => site'.kind = "store"
  <2> SUFFICES ASSUME site \in Store PROVE site'.kind = "store"
    BY <1>1, DirectoryTyped
  <2>1. CASE OpenStore(s) \/ Checkpoint(s)
    BY <2>1 DEF OpenStore, Checkpoint, Store
  <2>2. CASE TouchLease(s)
    BY <2>2 DEF TouchLease, Store
  <2>3. CASE PublishToken(s)
    BY <2>3 DEF PublishToken, Store
  <2>4. CASE PublishLate(s)
    BY <2>4, KindsOfSites DEF PublishLate, Store
  <2> QED
    BY <2>1, <2>2, <2>3, <2>4
<1>5. QuietFiles
  BY <1>2, <1>4 DEF QuietFiles, GivenUp
<1>6. QuietSessions
  BY <1>1, <1>3, GoingSession
<1> QED
  BY <1>1, <1>2, <1>5, <1>6, RestingCollectors, QuietKeeps

LEMMA DigestOrder ==
  ASSUME GcIInv, OrderIInv, NEW i \in Items, Digest(i)
  PROVE  OrderIInv'
<1>1. GcTypeOK
  BY DEF GcIInv
<1> DEFINE dirty == At(0, {"job"}) \ {i} # {}
<1>2. Touched /\ site' = [site EXCEPT !.dirty = dirty] /\ UNCHANGED <<trash, tombstone, session>>
  BY DEF Digest
<1> HIDE DEF dirty
<1>3. site.kind = "store" => site'.kind = "store"
  <2> SUFFICES ASSUME site \in Store PROVE site'.kind = "store"
    BY <1>1, DirectoryTyped
  <2> QED
    BY <1>2 DEF Store
<1>4. QuietFiles
  BY <1>2, <1>3 DEF QuietFiles, GivenUp
<1> QED
  BY <1>1, <1>2, <1>4, RestingCollectors, RestingSessions, QuietKeeps

LEMMA SessionGoneOrder ==
  ASSUME GcIInv, OrderIInv, NEW s \in Sessions, EndSession(s) \/ SessionDies(s)
  PROVE  OrderIInv'
<1>1. GcTypeOK
  BY DEF GcIInv
<1> DEFINE loses(e) == [trash[e] EXCEPT !.store.leases = @ \ {s}]
<1>2. /\ session' = [session EXCEPT ![s] = NoSession] /\ site' = [site EXCEPT !.leases = @ \ {s}]
      /\ trash' = trash \/ trash' = [e \in Copies |-> loses(e)]
      /\ UNCHANGED <<tombstone, gc>>
  BY DEF EndSession, SessionDies
<1>3. site'.kind = site.kind
  BY <1>1, <1>2, DirectoryTyped
<1>4. \A e \in Copies : loses(e).state = trash[e].state /\ loses(e).age = trash[e].age /\ loses(e).conflict = trash[e].conflict /\ loses(e).forgotten = trash[e].forgotten
  BY <1>1 DEF GcTypeOK, Copy, GivenUp
<1> HIDE DEF loses
<1>5. QuietFiles
  BY <1>2, <1>3, <1>4 DEF QuietFiles, GivenUp
<1> QED
  BY <1>1, <1>2, <1>5, EndedSession, RestingCollectors, QuietKeeps

LEMMA HourOrder ==
  ASSUME GcIInv, OrderIInv, WorkdirChanges \/ HourPasses
  PROVE  OrderIInv'
<1>1. GcTypeOK
  BY DEF GcIInv
<1>2. UNCHANGED <<trash, tombstone, gc, session>>
  BY DEF WorkdirChanges, HourPasses
<1>3. site.kind = "store" => site'.kind = "store"
  <2> SUFFICES ASSUME site \in Store PROVE site'.kind = "store"
    BY <1>1, DirectoryTyped
  <2> QED
    BY DEF WorkdirChanges, HourPasses, Store
<1>4. QuietFiles
  BY <1>2, <1>3 DEF QuietFiles, GivenUp
<1> QED
  BY <1>1, <1>2, <1>4, RestingCollectors, RestingSessions, QuietKeeps

\* What is purged was full and old, or was never filled.
LEMMA PurgeOrder ==
  ASSUME GcIInv, OrderIInv, NEW g \in Collectors, Purge(g)
  PROVE  OrderIInv'
<1>1. GcTypeOK
  BY DEF GcIInv
<1> DEFINE drop(e) == Eligible(e) \/ Debris(e) \/ trash[e].state = "purging"
<1>2. /\ gcLock = "free" /\ UNCHANGED <<site, gc, session>>
      /\ trash' = [e \in Copies |-> IF drop(e) THEN Emptied("gone") ELSE trash[e]]
      /\ tombstone' = IF tombstone # 0 /\ Eligible(tombstone) THEN 0 ELSE tombstone
  BY DEF Purge, Emptied
<1>3. \A e \in Copies : drop(e) => Used(e) /\ trash'[e].state = "gone" /\ trash'[e].age = 0
  BY <1>2 DEF Emptied, NoCopy, Used, Eligible, Debris
<1>4. \A e \in Copies : ~drop(e) => trash'[e] = trash[e]
  BY <1>2
<1>5. \A e \in Full' : e \in Full /\ trash'[e] = trash[e] /\ ~Eligible(e)
  BY <1>3, <1>4 DEF Full
<1>6. \A e \in Full : trash[e].age \in 0..2 /\ GivenUp(e) \in BOOLEAN /\ (e \in Full' \/ trash[e].age >= 1)
  <2> SUFFICES ASSUME NEW e \in Full
               PROVE  trash[e].age \in 0..2 /\ GivenUp(e) \in BOOLEAN /\ (e \in Full' \/ trash[e].age >= 1)
    OBVIOUS
  <2>1. trash[e].age \in 0..2 /\ GivenUp(e) \in BOOLEAN /\ e \in Copies /\ trash[e].state = "full"
    BY <1>1 DEF GcTypeOK, Copy, Full, GivenUp
  <2>2. CASE drop(e)
    BY <2>1, <2>2 DEF Eligible, Debris
  <2>3. CASE ~drop(e)
    BY <1>4, <2>1, <2>3 DEF Full
  <2> QED
    BY <2>1, <2>2, <2>3
<1> HIDE DEF drop
<1>7. NothingFilled
  BY <1>2, <1>3, <1>4 DEF NothingFilled, SameOrEmptied, Moving
<1>8. PathKept
  <2>1. \A h \in Collectors : gc'[h].pc # "tombstoned"
    BY <1>1, <1>2, LockIsOne DEF HoldsLock, Moving
  <2>2. ASSUME tombstone' # tombstone, NEW e \in Full' PROVE GivenUp(e)'
    <3>1. tombstone # 0 /\ Eligible(tombstone) /\ tombstone \in Copies
      BY <1>1, <1>2, <2>2 DEF GcTypeOK
    <3>2. tombstone \in Full /\ trash[tombstone].age >= 1
      BY <1>6, <3>1 DEF Full, Eligible
    <3>3. e \in Full /\ trash'[e] = trash[e] /\ ~Eligible(e)
      BY <1>5
    <3>4. e <= tombstone /\ e # tombstone /\ e \in Nat /\ tombstone \in Nat
      BY <3>1, <3>2, <3>3, GcAssumption DEF OrderIInv, Pointed, Full
    <3>5. trash[tombstone].age <= trash[e].age
      BY <3>2, <3>3, <3>4 DEF OrderIInv, Ordered
    <3>6. trash[e].age >= 1
      BY <1>6, <3>2, <3>3, <3>5
    <3> QED
      BY <1>6, <3>3, <3>6 DEF Eligible, Full, GivenUp
  <2>3. \A h \in Collectors : gc'[h].pc = gc[h].pc
    BY <1>2
  <2>4. tombstone' = tombstone \/ tombstone' = 0
    BY <1>2
  <2> QED
    BY <1>2, <1>5, <2>1, <2>2, <2>3, <2>4 DEF PathKept, GivenUp
<1>9. NothingFound
  BY <1>2, <1>6 DEF NothingFound, Adopting
<1> QED
  BY <1>7, <1>8, <1>9, OrderKeeps

LEMMA PurgeDiesOrder ==
  ASSUME GcIInv, OrderIInv, NEW g \in Collectors, NEW e \in Copies, PurgeDies(g, e)
  PROVE  OrderIInv'
<1>1. GcTypeOK
  BY DEF GcIInv
<1>2. /\ UNCHANGED <<site, tombstone, gc, session>>
      /\ trash' = [trash EXCEPT ![e] = Emptied("purging")] /\ Eligible(e)
  BY DEF PurgeDies, Emptied
<1>3. /\ trash'[e].state = "purging" /\ trash'[e].age = 0
      /\ \A f \in Copies \ {e} : trash'[f] = trash[f]
  BY <1>1, <1>2 DEF GcTypeOK, Emptied, NoCopy
<1>4. Used(e) /\ trash[e].age >= 1
  <2>1. trash[e].age \in 0..2
    BY <1>1 DEF GcTypeOK, Copy
  <2> QED
    BY <1>2, <2>1 DEF Eligible, Used
<1>5. NothingFilled
  BY <1>2, <1>3, <1>4 DEF NothingFilled, SameOrEmptied, Moving
<1>6. PathKept
  BY <1>2, <1>3 DEF PathKept, Full, GivenUp
<1>7. NothingFound
  BY <1>2, <1>3, <1>4 DEF NothingFound, Adopting, Full
<1> QED
  BY <1>5, <1>6, <1>7, OrderKeeps

LEMMA MakeEntryOrder ==
  ASSUME GcIInv, OrderIInv, NEW g \in Collectors, MakeEntry(g)
  PROVE  OrderIInv'
<1>1. GcTypeOK
  BY DEF GcIInv
<1>2. gc[g].pc = "inspected" /\ gcLock = "free" /\ UNCHANGED <<site, items, tombstone, session>>
  BY DEF MakeEntry
<1>3. CASE Fenced(g)
  <2>1. GcIs(g, NoGc) /\ UNCHANGED trash
    BY <1>3 DEF MakeEntry
  <2>2. gc'[g].pc = "idle" /\ \A h \in Collectors \ {g} : gc'[h] = gc[h]
    BY <1>1, <2>1, GcFields, GcIsTyped
  <2>3. QuietGc
    BY <2>2, LeavingCollector
  <2>4. QuietFiles
    BY <1>2, <2>1 DEF QuietFiles, GivenUp
  <2> QED
    BY <1>2, <2>3, <2>4, RestingSessions, QuietKeeps
<1>4. CASE ~Fenced(g)
  <2> DEFINE e == CHOOSE e \in Unused : \A f \in Unused : e <= f
             made == [gc[g] EXCEPT !.pc = "made", !.entry = e]
  <2>1. trash' = [trash EXCEPT ![e].state = "made"] /\ GcIs(g, made) /\ Unused # {}
    BY <1>4 DEF MakeEntry
  <2>2. e \in Unused /\ \A f \in Unused : e <= f
    <3>1. Unused \in SUBSET Copies
      BY DEF Unused
    <3> QED
      BY <2>1, <3>1, FirstUnused
  <2> HIDE DEF e
  <2>3. e \in Copies /\ ~Used(e) /\ trash[e].age = 0
    BY <2>2 DEF Unused, Used, OrderIInv, Ordered
  <2>4. made \in Gc /\ made.pc = "made" /\ made.entry = e
    BY <1>1, <2>3, GcFields DEF Gc
  <2>5. /\ gc'[g].pc = "made" /\ gc'[g].entry = e
        /\ \A h \in Collectors \ {g} : gc'[h] = gc[h]
    BY <1>1, <2>1, <2>4, GcIsTyped
  <2> HIDE DEF made
  <2>6. trash'[e].state = "made" /\ trash'[e].age = 0 /\ \A f \in Copies \ {e} : trash'[f] = trash[f]
    BY <1>1, <2>1, <2>3 DEF GcTypeOK, Copy
  <2>7. \A h \in Collectors : ~HoldsLock(h)
    BY <1>1, <1>2, LockIsOne
  <2>8. \A h \in Collectors : (Moving(h)' => h = g) /\ gc'[h].pc # "tombstoned" /\ gc'[h].pc # "rolled"
    BY <2>5, <2>7 DEF HoldsLock, Moving
  <2>9. Copies \subseteq Nat /\ \A f \in Copies : Used(f)' <=> Used(f) \/ f = e
    BY <2>6, GcAssumption DEF Used
  <2>10. Full' = Full /\ \A f \in Full : trash'[f] = trash[f]
    BY <2>3, <2>6 DEF Full, Used
  <2>11. Ordered'
    <3>1. \A f \in Copies : ~Used(f)' => trash'[f].age = 0
      BY <2>6, <2>9 DEF OrderIInv, Ordered
    <3>2. \A d, f \in Copies : d < f /\ Used(f)' => Used(d)'
      <4>1. \A d \in Copies : d < e => Used(d)
        BY <2>2, <2>3, <2>9 DEF Unused, Used
      <4> QED
        BY <2>9, <4>1 DEF OrderIInv, Ordered
    <3>3. trash'[e].age = 0 /\ \A f \in Copies : Used(f)' => f <= e
      <4>1. \A f \in Copies : Used(f) => ~(e < f)
        BY <2>3 DEF OrderIInv, Ordered
      <4> QED
        BY <2>3, <2>6, <2>9, <4>1
    <3>4. \A h \in Collectors : Moving(h)' => gc'[h].entry = e
      BY <2>5, <2>8
    <3>5. \A d, f \in Full' : d < f => trash'[f].age <= trash'[d].age
      BY <2>10 DEF OrderIInv, Ordered
    <3> QED
      BY <3>1, <3>2, <3>3, <3>4, <3>5 DEF Ordered
  <2>12. Pointed'
    <3>1. Pointed
      BY DEF OrderIInv
    <3> QED
      BY <1>2, <2>8, <2>10, <3>1 DEF Pointed, GivenUp
  <2>13. Finds'
    <3>1. ASSUME NEW s \in Sessions, session'[s].found # 0
          PROVE  /\ trash'[session'[s].found].state # "unused"
                 /\ \A h \in Collectors : Moving(h)' => gc'[h].entry # session'[s].found
      <4>1. session[s].found # 0 /\ session[s].found \in Copies
        BY <1>1, <1>2, <3>1 DEF GcTypeOK, Session
      <4>2. Used(session[s].found)
        BY <4>1 DEF OrderIInv, Finds
      <4> QED
        BY <1>2, <2>3, <2>5, <2>6, <2>8, <4>1, <4>2 DEF Used
    <3>2. Finds
      BY DEF OrderIInv
    <3>3. \A s \in Adopting' : session'[s].found # 0 => \A f \in Full' : f > session'[s].found => trash'[f].age = 0
      BY <1>2, <2>10, <3>2 DEF Finds, Adopting
    <3>4. \A s \in Sessions : session'[s].pc = "adopted" => Dealt(s)'
      BY <1>2, <2>10, <3>2 DEF Finds, Dealt, GivenUp
    <3> QED
      BY <3>1, <3>3, <3>4 DEF Finds, Used
  <2> QED
    BY <2>11, <2>12, <2>13 DEF OrderIInv
<1> QED
  BY <1>3, <1>4

LEMMA WriteTombstoneOrder ==
  ASSUME GcIInv, OrderIInv, NEW g \in Collectors, WriteTombstone(g)
  PROVE  OrderIInv'
<1> DEFINE e == gc[g].entry
<1>1. GcTypeOK
  BY DEF GcIInv
<1>2. gc[g].pc = "made" /\ tombstone' = e /\ GcAt(g, "tombstoned") /\ UNCHANGED <<site, trash, session>>
  BY DEF WriteTombstone
<1>3. /\ gc'[g].pc = "tombstoned" /\ gc'[g].entry = e /\ \A h \in Collectors \ {g} : gc'[h] = gc[h]
  BY <1>1, <1>2, GcAtTyped
<1>4. Moving(g) /\ HoldsLock(g) /\ e \in Copies
  BY <1>2 DEF Moving, HoldsLock, GcIInv, Entries, Busy
<1>5. \A h \in Collectors \ {g} : ~HoldsLock(h)
  BY <1>1, <1>4, LockIsOne
<1>6. \A h \in Collectors \ {g} : ~Moving(h)' /\ gc'[h].pc # "rolled"
  BY <1>3, <1>5 DEF HoldsLock, Moving
<1>7. Full' = Full /\ \A f \in Full : f <= e
  BY <1>2, <1>4 DEF Full, Used, OrderIInv, Ordered
<1>8. NothingFilled
  BY <1>2, <1>3, <1>4, <1>6 DEF NothingFilled, SameOrEmptied
<1>9. Ordered'
  BY <1>8, OrderedKeeps DEF OrderIInv
<1>10. Pointed'
  BY <1>2, <1>3, <1>4, <1>6, <1>7, GcAssumption DEF Pointed, Moving
<1>11. Finds'
  <2>1. Finds
    BY DEF OrderIInv
  <2>2. \A h \in Collectors : Moving(h)' => Moving(h) /\ gc'[h].entry = gc[h].entry
    BY <1>8 DEF NothingFilled
  <2>3. \A s \in Sessions : session'[s].pc = "adopted" => Dealt(s)'
    BY <1>2, <1>7, <2>1 DEF Finds, Dealt, GivenUp
  <2> QED
    BY <1>2, <1>7, <2>1, <2>2, <2>3 DEF Finds, Used, Adopting
<1> QED
  BY <1>9, <1>10, <1>11 DEF OrderIInv

\* The store is moved: what it leaves behind is the newest of all.
LEMMA MoveStoreOrder ==
  ASSUME GcIInv, OrderIInv, NEW g \in Collectors, MoveStore(g)
  PROVE  OrderIInv'
<1> DEFINE e == gc[g].entry
           c == [trash[e] EXCEPT !.state = "full", !.store = site, !.dead = gc[g].dead]
<1>1. GcTypeOK
  BY DEF GcIInv
<1>2. /\ gc[g].pc = "tombstoned" /\ trash' = [trash EXCEPT ![e] = c] /\ GcAt(g, "moved")
      /\ UNCHANGED <<tombstone, session>>
  BY DEF MoveStore
<1>3. gc'[g].pc = "moved" /\ \A h \in Collectors \ {g} : gc'[h] = gc[h]
  BY <1>1, <1>2, GcAtTyped
<1>4. Moving(g) /\ HoldsLock(g) /\ e \in Copies
  BY <1>2 DEF Moving, HoldsLock, GcIInv, Entries, Busy
<1>5. \A h \in Collectors : ~Moving(h)' /\ gc'[h].pc # "rolled" /\ gc'[h].pc # "tombstoned"
  <2>1. \A h \in Collectors \ {g} : ~HoldsLock(h)
    BY <1>1, <1>4, LockIsOne
  <2> QED
    BY <1>3, <2>1 DEF HoldsLock, Moving
<1>6. trash[e].age = 0 /\ tombstone = e /\ \A f \in Copies : Used(f) => f <= e
  BY <1>2, <1>4 DEF OrderIInv, Ordered, Pointed
<1>7. trash[e].state = "made"
  BY <1>4 DEF GcIInv, Guarded
<1>8. trash'[e].state = "full" /\ trash'[e].age = 0 /\ \A f \in Copies \ {e} : trash'[f] = trash[f]
  <2>1. c.state = "full" /\ c.age = 0
    BY <1>1, <1>4, <1>6 DEF GcTypeOK, Copy
  <2> HIDE DEF c
  <2> QED
    BY <1>1, <1>2, <1>4, <2>1 DEF GcTypeOK
<1> HIDE DEF e, c
<1>9. Full' = Full \cup {e} /\ e \notin Full /\ \A f \in Full : trash'[f] = trash[f] /\ f <= e
  BY <1>4, <1>6, <1>7, <1>8 DEF Full, Used
<1>10. Copies \subseteq Nat \ {0} /\ \A f \in Copies : trash[f].age \in 0..2
  BY <1>1, GcAssumption DEF GcTypeOK, Copy
<1>11. Full \subseteq Copies
  BY DEF Full
<1>12. \A f \in Copies : Used(f)' <=> Used(f)
  BY <1>7, <1>8 DEF Used
<1>13. Ordered'
  <2>1. \A f \in Copies : ~Used(f)' => trash'[f].age = 0
    BY <1>8, <1>12 DEF OrderIInv, Ordered
  <2>2. \A d, f \in Copies : d < f /\ Used(f)' => Used(d)'
    BY <1>12 DEF OrderIInv, Ordered
  <2>3. ASSUME NEW d \in Full', NEW f \in Full', d < f PROVE trash'[f].age <= trash'[d].age
    <3>1. d # e
      BY <1>4, <1>9, <1>10, <1>11, <2>3
    <3>2. CASE f = e
      BY <1>8, <1>9, <1>10, <1>11, <3>1, <3>2
    <3>3. CASE f # e
      BY <1>9, <2>3, <3>1, <3>3 DEF OrderIInv, Ordered
    <3> QED
      BY <3>2, <3>3
  <2> QED
    BY <1>5, <2>1, <2>2, <2>3 DEF Ordered
<1>14. Pointed'
  BY <1>2, <1>4, <1>5, <1>6, <1>9, <1>10 DEF Pointed
<1>15. Finds'
  <2>1. Finds
    BY DEF OrderIInv
  <2>2. \A s \in Sessions : session[s].found # 0 => session[s].found \in Copies /\ Used(session[s].found) /\ session[s].found # e
    BY <1>1, <1>4, <2>1 DEF Finds, GcTypeOK, Session, e
  <2>3. \A s \in Sessions : session'[s].found # 0 => trash'[session'[s].found].state # "unused"
    BY <1>2, <1>12, <2>2 DEF Used
  <2>4. ASSUME NEW s \in Adopting', session'[s].found # 0, NEW f \in Full', f > session'[s].found
        PROVE  trash'[f].age = 0
    <3>1. s \in Adopting /\ session'[s].found = session[s].found
      BY <1>2, <2>4 DEF Adopting
    <3>2. CASE f = e
      BY <1>8, <3>2
    <3>3. CASE f # e
      BY <1>9, <2>1, <2>4, <3>1, <3>3 DEF Finds
    <3> QED
      BY <3>2, <3>3
  <2>5. ASSUME NEW s \in Sessions, session'[s].pc = "adopted" PROVE Dealt(s)'
    <3>1. SUFFICES ASSUME session'[s].found \in Full' PROVE \E f \in Full' : f > session'[s].found
      BY DEF Dealt
    <3>2. session[s].found \in Full /\ session[s].found # e
      BY <1>2, <1>4, <1>9, <1>10, <1>11, <2>2, <3>1
    <3>3. session[s].found <= e
      BY <1>9, <3>2
    <3>4. session[s].found \in Nat /\ e \in Nat
      BY <1>4, <1>10, <1>11, <3>2
    <3>5. e > session[s].found
      BY <3>2, <3>3, <3>4
    <3> QED
      BY <1>2, <1>9, <3>5
  <2> QED
    BY <1>5, <2>3, <2>4, <2>5 DEF Finds, Used
<1> QED
  BY <1>13, <1>14, <1>15 DEF OrderIInv

\* An entry is dropped by the holder of the lock, who leaves a store at the path.
LEMMA DroppedEntryOrder ==
  ASSUME GcIInv, OrderIInv, NEW e \in Copies, Used(e), trash[e].state # "full", tombstone' = 0,
         trash'[e].state = "gone", trash'[e].age = 0, \A f \in Copies \ {e} : trash'[f] = trash[f],
         site.kind = "store" => site'.kind = "store", site'.kind = "store",
         \A g \in Collectors : gc'[g].pc \notin {"made", "tombstoned", "rolled"},
         \A s \in Sessions : /\ session'[s].found \in {0, session[s].found}
                             /\ s \in Adopting' => s \in Adopting
  PROVE  OrderIInv'
<1>1. \A f \in Full' : f \in Full /\ trash'[f] = trash[f]
  BY DEF Full
<1>2. NothingFilled
  BY DEF NothingFilled, SameOrEmptied, Moving
<1>3. PathKept
  BY <1>1 DEF PathKept, GivenUp
<1>4. \A s \in Sessions : Dealt(s)'
  BY DEF Dealt
<1>5. NothingFound
  BY <1>4 DEF NothingFound
<1> QED
  BY <1>2, <1>3, <1>5, OrderKeeps

LEMMA DroppedByCollectorOrder ==
  ASSUME GcIInv, OrderIInv, NEW g \in Collectors, MoveFails(g) \/ RemoveEntry(g)
  PROVE  OrderIInv'
<1> DEFINE e == gc[g].entry
<1>1. GcTypeOK
  BY DEF GcIInv
<1>2. /\ gc[g].pc \in {"tombstoned", "rolled"} /\ GcIs(g, NoGc) /\ tombstone' = 0
      /\ trash' = [trash EXCEPT ![e] = Emptied("gone")] /\ UNCHANGED <<site, session>>
  BY DEF MoveFails, RemoveEntry, Emptied
<1>3. HoldsLock(g) /\ e \in Copies /\ trash[e].state = "made"
  BY <1>2 DEF HoldsLock, Moving, GcIInv, Entries, Guarded, Busy
<1>4. site.kind = "store"
  BY <1>2 DEF Moving, GcIInv, Guarded, OrderIInv, Pointed
<1>5. gc'[g].pc = "idle" /\ \A h \in Collectors \ {g} : gc'[h] = gc[h]
  BY <1>1, <1>2, GcFields, GcIsTyped
<1>6. \A h \in Collectors \ {g} : ~HoldsLock(h)
  BY <1>1, <1>3, LockIsOne
<1>7. \A h \in Collectors : gc'[h].pc \notin {"made", "tombstoned", "rolled"}
  BY <1>5, <1>6 DEF HoldsLock, Moving
<1>8. /\ trash'[e].state = "gone" /\ trash'[e].age = 0 /\ \A f \in Copies \ {e} : trash'[f] = trash[f]
  BY <1>1, <1>2, <1>3 DEF GcTypeOK, Emptied, NoCopy
<1>9. \A s \in Sessions : session'[s].found \in {0, session[s].found} /\ (s \in Adopting' => s \in Adopting)
  BY <1>2 DEF Adopting
<1>10. Used(e) /\ trash[e].state # "full" /\ site'.kind = "store" /\ tombstone' = 0
  BY <1>2, <1>3, <1>4 DEF Used
<1> HIDE DEF e
<1> QED
  BY <1>3, <1>7, <1>8, <1>9, <1>10, DroppedEntryOrder

LEMMA FinishRestoreOrder ==
  ASSUME GcIInv, OrderIInv, NEW s \in Sessions, FinishRestore(s)
  PROVE  OrderIInv'
<1> DEFINE e == session[s].found
<1>1. GcTypeOK
  BY DEF GcIInv
<1>2. /\ session[s].pc = "restoring" /\ site' = [site EXCEPT !.dirty = TRUE, !.quiet = FALSE] /\ tombstone' = 0
      /\ trash' = [trash EXCEPT ![e] = Emptied("gone")] /\ SessionAt(s, "adopted") /\ UNCHANGED gc
  BY DEF FinishRestore, Emptied
<1>3. e \in Copies /\ trash[e].state = "made" /\ site.kind = "store"
  BY <1>2 DEF GcIInv, Guarded
<1>4. site'.kind = "store"
  <2>1. site \in Store
    BY <1>1, <1>3, KindsOfSites DEF GcTypeOK
  <2> QED
    BY <1>2, <2>1 DEF Store
<1>5. \A h \in Collectors : ~HoldsLock(h)
  BY <1>1, <1>2, LockIsOne
<1>6. \A h \in Collectors : gc'[h].pc \notin {"made", "tombstoned", "rolled"}
  BY <1>2, <1>5 DEF HoldsLock, Moving
<1>7. /\ trash'[e].state = "gone" /\ trash'[e].age = 0 /\ \A f \in Copies \ {e} : trash'[f] = trash[f]
  BY <1>1, <1>2, <1>3 DEF GcTypeOK, Emptied, NoCopy
<1>8. \A t \in Sessions : session'[t].found \in {0, session[t].found} /\ (t \in Adopting' => t \in Adopting)
  <2>1. \A t \in Sessions : session'[t].found = session[t].found /\ (t # s => session'[t] = session[t])
    BY <1>1, <1>2 DEF GcTypeOK, Session, SessionAt
  <2> QED
    BY <1>2, <2>1 DEF Adopting
<1>9. Used(e) /\ trash[e].state # "full"
  BY <1>3 DEF Used
<1> HIDE DEF e
<1> QED
  BY <1>2, <1>3, <1>4, <1>6, <1>7, <1>8, <1>9, DroppedEntryOrder

LEMMA RollBackOrder ==
  ASSUME GcIInv, OrderIInv, NEW g \in Collectors, RollBack(g)
  PROVE  OrderIInv'
<1> DEFINE e == gc[g].entry
<1>1. GcTypeOK
  BY DEF GcIInv
<1>2. gc[g].pc = "rolling" /\ gcLock = "free" /\ UNCHANGED <<tombstone, session>>
  BY DEF RollBack
<1>3. e \in Copies
  BY <1>2 DEF HasMoved, Busy, GcIInv, Entries
<1>4. \A h \in Collectors : ~HoldsLock(h)
  BY <1>1, <1>2, LockIsOne
<1>5. CASE trash[e].state = "full" /\ site = Nothing
  <2> DEFINE c == [NoCopy EXCEPT !.state = "made", !.age = trash[e].age]
  <2>1. site' = trash[e].store /\ trash' = [trash EXCEPT ![e] = c] /\ GcAt(g, "rolled")
    BY <1>5 DEF RollBack
  <2>2. c.state = "made" /\ c.age = trash[e].age
    BY DEF NoCopy
  <2> HIDE DEF c
  <2>3. trash'[e].state = "made" /\ trash'[e].age = trash[e].age /\ \A f \in Copies \ {e} : trash'[f] = trash[f]
    BY <1>1, <1>3, <2>1, <2>2 DEF GcTypeOK
  <2>4. site'.kind = "store"
    BY <1>3, <1>5, <2>1 DEF GcIInv, MovedStores, Full
  <2>5. gc'[g].pc = "rolled" /\ \A h \in Collectors \ {g} : gc'[h] = gc[h]
    BY <1>1, <2>1, GcAtTyped
  <2>6. \A h \in Collectors : ~Moving(h)' /\ gc'[h].pc # "tombstoned"
    BY <1>4, <2>5 DEF HoldsLock, Moving
  <2>7. \A f \in Full' : f \in Full /\ trash'[f] = trash[f]
    BY <2>3 DEF Full
  <2>8. NothingFilled
    BY <1>5, <2>3, <2>6 DEF NothingFilled, SameOrEmptied, Used
  <2>9. PathKept
    BY <1>2, <2>4, <2>6, <2>7 DEF PathKept, GivenUp
  <2>10. NothingFound
    BY <1>2, <2>4 DEF NothingFound, Adopting
  <2> QED
    BY <2>8, <2>9, <2>10, OrderKeeps
<1>6. CASE ~(trash[e].state = "full" /\ site = Nothing)
  <2>1. trash' = [trash EXCEPT ![e].excused = TRUE] /\ GcIs(g, NoGc) /\ UNCHANGED site
    BY <1>6 DEF RollBack
  <2>2. gc'[g].pc = "idle" /\ \A h \in Collectors \ {g} : gc'[h] = gc[h]
    BY <1>1, <2>1, GcFields, GcIsTyped
  <2>3. QuietGc
    BY <2>2, LeavingCollector
  <2>4. QuietFiles
    BY <1>1, <1>2, <1>3, <2>1, ExcusedQuiet DEF QuietFiles, GivenUp
  <2> QED
    BY <1>2, <2>3, <2>4, RestingSessions, QuietKeeps
<1> QED
  BY <1>5, <1>6

\* The age of the trash grows alike for all, while no session is adopting.
LEMMA DaysPassOrder ==
  ASSUME GcIInv, OrderIInv, DaysPass
  PROVE  OrderIInv'
<1>1. GcTypeOK
  BY DEF GcIInv
<1> DEFINE older(e) == [trash[e] EXCEPT !.age = @ + 1]
<1>2. /\ Resting /\ UNCHANGED <<tombstone, gc, session>>
      /\ site' = IF site.kind = "store" THEN [site EXCEPT !.old = TRUE, !.quiet = TRUE] ELSE site
      /\ trash' = [e \in Copies |-> IF Usable(e) /\ trash[e].age < 2 THEN older(e) ELSE trash[e]]
  BY DEF DaysPass
<1>3. site'.kind = site.kind
  <2>1. CASE site.kind = "store"
    <3>1. site \in Store
      BY <1>1, <2>1, DirectoryTyped
    <3> QED
      BY <1>2, <2>1, <3>1 DEF Store
  <2> QED
    BY <1>2, <2>1
<1>4. \A e \in Copies : trash[e] \in Copy /\ trash[e].age \in 0..2
  BY <1>1 DEF GcTypeOK, Copy
<1>5. \A e \in Copies : older(e).state = trash[e].state /\ older(e).conflict = trash[e].conflict /\ older(e).forgotten = trash[e].forgotten /\ older(e).age = trash[e].age + 1
  BY <1>4 DEF Copy, GivenUp
<1> HIDE DEF older
<1>6. \A e \in Copies : /\ trash'[e].state = trash[e].state /\ GivenUp(e)' = GivenUp(e)
                        /\ trash'[e].age = IF Usable(e) /\ trash[e].age < 2 THEN trash[e].age + 1 ELSE trash[e].age
  BY <1>2, <1>5 DEF GivenUp
<1>7. /\ \A g \in Collectors : gc'[g].pc = "idle" /\ ~Moving(g)'
      /\ Adopting' = {} /\ \A s \in Sessions : session'[s].pc # "adopted"
  BY <1>2 DEF Resting, Moving, Adopting
<1>8. Full' = Full /\ \A e \in Copies : Used(e)' <=> Used(e)
  BY <1>6 DEF Full, Used
<1>9. Ordered'
  <2>1. \A e \in Copies : ~Used(e)' => trash'[e].age = 0
    BY <1>6 DEF OrderIInv, Ordered, Used, Usable
  <2>2. \A e, f \in Copies : e < f /\ Used(f)' => Used(e)'
    BY <1>8 DEF OrderIInv, Ordered
  <2>3. ASSUME NEW e \in Full', NEW f \in Full', e < f PROVE trash'[f].age <= trash'[e].age
    <3>1. e \in Full /\ f \in Full /\ Usable(e) /\ Usable(f) /\ e \in Copies /\ f \in Copies
      BY <1>8 DEF Full, Usable
    <3>2. trash[f].age <= trash[e].age
      BY <2>3, <3>1 DEF OrderIInv, Ordered
    <3>3. /\ trash'[e].age = IF trash[e].age < 2 THEN trash[e].age + 1 ELSE trash[e].age
          /\ trash'[f].age = IF trash[f].age < 2 THEN trash[f].age + 1 ELSE trash[f].age
          /\ trash[e].age \in 0..2 /\ trash[f].age \in 0..2
      BY <1>4, <1>6, <3>1
    <3> QED
      BY <3>2, <3>3
  <2> QED
    BY <1>7, <2>1, <2>2, <2>3 DEF Ordered
<1>10. PathKept
  BY <1>2, <1>3, <1>6, <1>7, <1>8 DEF PathKept, Full
<1>11. Finds'
  <2>1. \A s \in Sessions : session[s].found \in Copies \cup {0}
    BY <1>1 DEF GcTypeOK, Session
  <2>2. \A s \in Sessions : session'[s].found # 0 => trash'[session'[s].found].state # "unused"
    BY <1>2, <1>6, <2>1 DEF OrderIInv, Finds, Used
  <2> QED
    BY <1>7, <2>2 DEF Finds, Used
<1> QED
  BY <1>9, <1>10, <1>11, PointedKeeps DEF OrderIInv

LEMMA AdoptOrder ==
  ASSUME GcIInv, OrderIInv, NEW s \in Sessions, Adopt(s)
  PROVE  OrderIInv'
<1> DEFINE found == IF Full = {} THEN 0 ELSE Newest(Full)
           next == [pc |-> IF tombstone = 0 THEN "adopted" ELSE "asking", found |-> found, failed |-> FALSE]
<1>1. GcTypeOK
  BY DEF GcIInv
<1>2. session' = [session EXCEPT ![s] = next] /\ UNCHANGED <<site, trash, tombstone, gc>>
  BY DEF Adopt
<1>3. found \in Full \cup {0} /\ \A f \in Full : found # 0 /\ f <= found
  <2>1. CASE Full = {}
    BY <2>1
  <2>2. CASE Full # {}
    <3>1. Full \in SUBSET Copies
      BY DEF Full
    <3>2. found \in Full /\ \A f \in Full : f <= found
      BY <2>2, <3>1, NewestIsOne
    <3>3. found # 0
      BY <3>1, <3>2, GcAssumption
    <3> QED
      BY <3>2, <3>3
  <2> QED
    BY <2>1, <2>2
<1> HIDE DEF found
<1>4. next.found = found /\ (next.pc = "adopted" => tombstone = 0)
  OBVIOUS
<1> HIDE DEF next
<1>5. session'[s] = next /\ \A t \in Sessions \ {s} : session'[t] = session[t]
  BY <1>1, <1>2 DEF GcTypeOK
<1>6. Full' = Full /\ Full \subseteq Copies
  BY <1>2 DEF Full
<1>7. NothingFilled
  BY <1>2 DEF NothingFilled, SameOrEmptied, Moving
<1>8. PathKept
  BY <1>2, <1>6 DEF PathKept, GivenUp
<1>9. Ordered' /\ Pointed'
  BY <1>7, <1>8, OrderedKeeps, PointedKeeps DEF OrderIInv
<1>10. Finds'
  <2>1. Finds /\ Pointed
    BY DEF OrderIInv
  <2>2. ASSUME NEW t \in Sessions, session'[t].found # 0
        PROVE  /\ trash'[session'[t].found].state # "unused"
               /\ \A g \in Collectors : Moving(g)' => gc'[g].entry # session'[t].found
    <3>1. CASE t = s
      <4>1. found \in Full /\ session'[t].found = found
        BY <1>3, <1>4, <1>5, <2>2, <3>1
      <4>2. trash[found].state = "full"
        BY <4>1 DEF Full
      <4>3. \A g \in Collectors : Moving(g) => trash[gc[g].entry].state = "made"
        BY DEF GcIInv, Guarded, HoldsLock
      <4> QED
        BY <1>2, <4>1, <4>2, <4>3 DEF Moving
    <3>2. CASE t # s
      BY <1>2, <1>5, <2>1, <2>2, <3>2 DEF Finds, Used, Moving
    <3> QED
      BY <3>1, <3>2
  <2>3. ASSUME NEW t \in Adopting', session'[t].found # 0, NEW f \in Full', f > session'[t].found
        PROVE  trash'[f].age = 0
    <3>1. t \in Sessions
      BY DEF Adopting
    <3>2. CASE t = s
      <4>1. f \in Nat /\ found \in Nat /\ f <= found /\ f > found
        BY <1>3, <1>4, <1>5, <1>6, <2>3, <3>2, GcAssumption
      <4> QED
        BY <4>1
    <3>3. CASE t # s
      <4>1. session'[t] = session[t] /\ t \in Adopting
        BY <1>5, <3>1, <3>3 DEF Adopting
      <4> QED
        BY <1>2, <1>6, <2>1, <2>3, <4>1 DEF Finds
    <3> QED
      BY <3>2, <3>3
  <2>4. ASSUME NEW t \in Sessions, session'[t].pc = "adopted" PROVE Dealt(t)'
    <3>1. CASE t = s
      <4>1. tombstone = 0
        BY <1>4, <1>5, <2>4, <3>1
      <4>2. site.kind # "store" => \A e \in Full : GivenUp(e)
        BY <2>1, <4>1 DEF Pointed
      <4> QED
        BY <1>2, <1>6, <4>2 DEF Dealt, GivenUp
    <3>2. CASE t # s
      <4>1. Dealt(t) /\ session'[t] = session[t]
        BY <1>5, <2>1, <2>4, <3>2 DEF Finds
      <4> QED
        BY <1>2, <1>6, <4>1 DEF Dealt, GivenUp
    <3> QED
      BY <3>1, <3>2
  <2> QED
    BY <2>2, <2>3, <2>4 DEF Finds, Used
<1> QED
  BY <1>9, <1>10 DEF OrderIInv

\* Whoever asks gets the newest copy, or there is a reason why not.
LEMMA AskForCopyOrder ==
  ASSUME GcIInv, OrderIInv, NEW s \in Sessions, AskForCopy(s)
  PROVE  OrderIInv'
<1>1. GcTypeOK
  BY DEF GcIInv
<1>2. session[s].pc = "asking" /\ gcLock = "free" /\ UNCHANGED gc
  BY DEF AskForCopy
<1>3. \A h \in Collectors : ~HoldsLock(h) /\ ~Moving(h) /\ gc'[h].pc = gc[h].pc
  BY <1>1, <1>2, LockIsOne DEF HoldsLock
<1>4. \A h \in Collectors : ~Moving(h)' /\ gc'[h].pc \notin {"tombstoned", "rolled"}
  BY <1>3 DEF HoldsLock, Moving
<1> DEFINE restores == tombstone # 0 /\ site.kind # "store" /\ Full # {}
<1>5. CASE ~restores
  <2>1. SessionAt(s, "adopted")
    BY <1>5 DEF AskForCopy
  <2>2. /\ site.kind = "store" => site' = site
        /\ tombstone' = tombstone \/ (tombstone' = 0 /\ (site'.kind = "store" \/ Full = {}))
        /\ trash' = trash \/ (tombstone # 0 /\ trash' = [trash EXCEPT ![tombstone].conflict = TRUE])
        /\ tombstone = 0 => site' = site /\ trash' = trash
    BY <1>5 DEF AskForCopy
  <2>3. \A e \in Copies : /\ trash'[e].state = trash[e].state /\ trash'[e].age = trash[e].age
                          /\ GivenUp(e) => GivenUp(e)'
    <3>1. CASE trash' = trash
      BY <3>1 DEF GivenUp
    <3>2. CASE tombstone # 0 /\ trash' = [trash EXCEPT ![tombstone].conflict = TRUE]
      <4>1. trash \in [Copies -> Copy] /\ tombstone \in Copies
        BY <1>1, <3>2 DEF GcTypeOK
      <4> QED
        BY <3>2, <4>1 DEF Copy, GivenUp
    <3> QED
      BY <2>2, <3>1, <3>2
  <2>4. Full' = Full /\ Full \subseteq Copies
    BY <2>3 DEF Full
  <2>5. NothingFilled
    BY <1>4, <2>3 DEF NothingFilled, SameOrEmptied
  <2>6. PathKept
    BY <1>4, <2>2, <2>3, <2>4 DEF PathKept
  <2>7. /\ \A t \in Sessions : session'[t].found = session[t].found
        /\ \A t \in Sessions \ {s} : session'[t] = session[t]
    BY <1>1, <2>1 DEF SessionAt, GcTypeOK, Session
  <2>8. Dealt(s)'
    <3>1. SUFFICES ASSUME Full # {}, site'.kind # "store" PROVE \A e \in Full' : GivenUp(e)'
      BY <2>4 DEF Dealt
    <3>2. site.kind # "store" /\ tombstone = 0
      BY <1>5, <2>2, <3>1
    <3> QED
      BY <2>2, <2>4, <3>2 DEF OrderIInv, Pointed, GivenUp
  <2>9. NothingFound
    <3>1. \A t \in Sessions : t \in Adopting' => t \in Adopting
      BY <1>2, <2>7 DEF Adopting
    <3>2. \A t \in Sessions : session'[t].pc = "adopted" => session'[t] = session[t] \/ Dealt(t)'
      BY <2>7, <2>8
    <3> QED
      BY <2>4, <2>7, <3>1, <3>2 DEF NothingFound
  <2> QED
    BY <2>5, <2>6, <2>9, OrderKeeps
<1>6. CASE restores
  <2> DEFINE e == Newest(Full)
             next == [session[s] EXCEPT !.pc = "restoring", !.found = e]
  <2>1. /\ site' = trash[e].store /\ trash' = [trash EXCEPT ![e] = Emptied("made")]
        /\ session' = [session EXCEPT ![s] = next] /\ UNCHANGED tombstone
    BY <1>1, <1>6 DEF AskForCopy, Emptied, GcTypeOK
  <2>2. e \in Full /\ \A f \in Full : f <= e
    <3>1. Full \in SUBSET Copies
      BY DEF Full
    <3> QED
      BY <1>6, <3>1, NewestIsOne
  <2>3. next.pc = "restoring" /\ next.found = e
    BY <1>1 DEF GcTypeOK, Session
  <2> HIDE DEF e, next
  <2>4. e \in Copies /\ trash[e].state = "full" /\ Full \subseteq Copies /\ Copies \subseteq Nat
    BY <2>2, GcAssumption DEF Full
  <2>5. trash'[e].state = "made" /\ trash'[e].age = 0 /\ \A f \in Copies \ {e} : trash'[f] = trash[f]
    BY <1>1, <2>1, <2>4 DEF GcTypeOK, Emptied, NoCopy
  <2>6. session'[s] = next /\ \A t \in Sessions \ {s} : session'[t] = session[t]
    BY <1>1, <2>1 DEF GcTypeOK
  <2>7. site'.kind = "store"
    BY <2>1, <2>2 DEF GcIInv, MovedStores
  <2>8. \A f \in Full' : f \in Full /\ trash'[f] = trash[f]
    BY <2>5 DEF Full
  <2>9. NothingFilled
    BY <1>4, <2>4, <2>5 DEF NothingFilled, SameOrEmptied, Used
  <2>10. PathKept
    BY <1>4, <2>1, <2>7, <2>8 DEF PathKept, GivenUp
  <2>11. Ordered' /\ Pointed'
    BY <2>9, <2>10, OrderedKeeps, PointedKeeps DEF OrderIInv
  <2>12. Finds'
    <3>1. Finds
      BY DEF OrderIInv
    <3>2. ASSUME NEW t \in Sessions, session'[t].found # 0 PROVE trash'[session'[t].found].state # "unused"
      <4>1. CASE t = s
        BY <2>3, <2>5, <2>6, <4>1
      <4>2. CASE t # s
        <5>1. session'[t].found = session[t].found /\ session[t].found \in Copies /\ session[t].found # 0
          BY <1>1, <2>6, <3>2, <4>2 DEF GcTypeOK, Session
        <5>2. trash[session[t].found].state # "unused"
          BY <3>1, <5>1 DEF Finds, Used
        <5> QED
          BY <2>5, <5>1, <5>2
      <4> QED
        BY <4>1, <4>2
    <3>3. ASSUME NEW t \in Adopting', session'[t].found # 0, NEW f \in Full', f > session'[t].found
          PROVE  trash'[f].age = 0
      <4>1. t \in Sessions
        BY DEF Adopting
      <4>2. CASE t = s
        <5>1. f \in Nat /\ e \in Nat /\ f <= e /\ f > e
          BY <2>2, <2>3, <2>4, <2>6, <2>8, <3>3, <4>2
        <5> QED
          BY <5>1
      <4>3. CASE t # s
        <5>1. session'[t] = session[t] /\ t \in Adopting
          BY <2>6, <4>1, <4>3 DEF Adopting
        <5> QED
          BY <2>8, <3>1, <3>3, <5>1 DEF Finds
      <4> QED
        BY <4>2, <4>3
    <3>4. \A t \in Sessions : Dealt(t)'
      BY <2>7 DEF Dealt
    <3> QED
      BY <1>4, <3>2, <3>3, <3>4 DEF Finds, Used
  <2> QED
    BY <2>11, <2>12 DEF OrderIInv
<1> QED
  BY <1>5, <1>6

\* An error ends the adoption: what was found is not dealt with, but the session
\* knows, and the tombstone goes only with the copies that are given up.
LEMMA FailureOrder ==
  ASSUME GcIInv, OrderIInv, NEW s \in Sessions, LockTimesOut(s) \/ RestoreFails(s) \/ FinishFails(s)
  PROVE  OrderIInv'
<1>1. GcTypeOK /\ GivesUp(s) /\ UNCHANGED gc /\ session[s].pc \in {"asking", "restoring"}
  BY DEF GcIInv, LockTimesOut, RestoreFails, FinishFails
<1>2. /\ session'[s].failed /\ session'[s].found = session[s].found
      /\ \A t \in Sessions \ {s} : session'[t] = session[t]
  BY <1>1, GivesUpTyped
<1>3. Dealt(s)' /\ \A t \in Sessions : session'[t].found = session[t].found
  BY <1>2 DEF Dealt
<1>4. \A t \in Sessions : t \in Adopting' => t \in Adopting
  BY <1>1, <1>2 DEF Adopting
<1>5. \A e \in Copies : /\ trash'[e].state = trash[e].state /\ trash'[e].age = trash[e].age
                        /\ GivenUp(e) => GivenUp(e)'
  <2>1. CASE RestoreFails(s)
    BY <1>1, <2>1, RestoreFailsTrash DEF SameCopy, OnlyMarked
  <2>2. CASE LockTimesOut(s) \/ FinishFails(s)
    BY <2>2 DEF LockTimesOut, FinishFails, GivenUp
  <2> QED
    BY <2>1, <2>2
<1>6. Full' = Full /\ Full \subseteq Copies
  BY <1>5 DEF Full
<1>7. /\ site.kind = "store" => site'.kind = "store"
      /\ \/ tombstone' = tombstone
         \/ /\ tombstone' = 0 /\ (site'.kind = "store" \/ \A e \in Full : GivenUp(e)')
            /\ \A h \in Collectors : gc[h].pc \notin {"tombstoned", "rolled"}
  <2>1. CASE RestoreFails(s)
    <3>1. gcLock = "free" /\ site.kind # "store"
      BY <2>1 DEF RestoreFails
    <3>2. \A h \in Collectors : ~HoldsLock(h)
      BY <1>1, <3>1, LockIsOne
    <3>3. tombstone' = tombstone \/ (tombstone' = 0 /\ \A e \in Full : GivenUp(e)')
      BY <1>1, <2>1, RestoreFailsTrash
    <3> QED
      BY <3>1, <3>2, <3>3 DEF HoldsLock, Moving, GivenUp
  <2>2. CASE FinishFails(s)
    <3>1. session[s].pc = "restoring" /\ site' = site /\ tombstone' \in {0, tombstone}
      BY <2>2 DEF FinishFails
    <3>2. (\A h \in Collectors : ~HoldsLock(h)) /\ site.kind = "store"
      BY <1>1, <3>1, LockIsOne DEF GcIInv, Guarded
    <3> QED
      BY <3>1, <3>2 DEF HoldsLock, Moving
  <2>3. CASE LockTimesOut(s)
    BY <2>3 DEF LockTimesOut
  <2> QED
    BY <2>1, <2>2, <2>3
<1>8. NothingFilled
  <2>1. \A e \in Copies : trash'[e].state = trash[e].state /\ trash'[e].age = trash[e].age
    BY <1>5
  <2>2. \A e \in Copies : SameOrEmptied(e)
    BY <2>1 DEF SameOrEmptied
  <2>3. \A g \in Collectors : Moving(g)' => Moving(g) /\ gc'[g].entry = gc[g].entry
    BY <1>1 DEF Moving
  <2> QED
    BY <2>2, <2>3 DEF NothingFilled
<1>9. PathKept
  <2>1. \/ UNCHANGED tombstone
        \/ tombstone' = 0 /\ (site'.kind = "store" \/ \A e \in Full' : GivenUp(e)')
    BY <1>6, <1>7
  <2>2. \A e \in Full' : e \in Full /\ (GivenUp(e) => GivenUp(e)')
    BY <1>5, <1>6
  <2>3. \A g \in Collectors :
           /\ gc'[g].pc = "tombstoned" => gc[g].pc = "tombstoned" /\ gc'[g].entry = gc[g].entry /\ UNCHANGED tombstone
           /\ gc'[g].pc = "rolled" => gc[g].pc = "rolled" \/ site'.kind = "store"
    BY <1>1, <1>7
  <2> QED
    BY <1>7, <2>1, <2>2, <2>3 DEF PathKept
<1>10. NothingFound
  BY <1>2, <1>3, <1>4, <1>6 DEF NothingFound
<1> QED
  BY <1>8, <1>9, <1>10, OrderKeeps

LEMMA OrderInit ==
  ASSUME GcInit
  PROVE  OrderIInv
<1>1. \A e \in Copies : ~Used(e) /\ trash[e].age = 0
  BY DEF GcInit, NoCopy, Used
<1>2. Full = {}
  BY <1>1 DEF Full, Used
<1>3. \A g \in Collectors : gc[g].pc = "idle"
  BY DEF GcInit, NoGc
<1>4. \A s \in Sessions : session[s].pc = "out" /\ session[s].found = 0
  BY DEF GcInit, NoSession
<1>5. Ordered
  BY <1>1, <1>2, <1>3 DEF Ordered, Moving
<1>6. Pointed
  BY <1>2, <1>3 DEF Pointed
<1>7. Finds
  BY <1>4 DEF Finds, Adopting
<1> QED
  BY <1>5, <1>6, <1>7 DEF OrderIInv

LEMMA OrderNext ==
  ASSUME GcIInv, OrderIInv, [GcNext]_gcVars
  PROVE  OrderIInv'
<1>1. ASSUME NEW g \in Collectors,
             Purge(g) \/ (\E e \in Copies : PurgeDies(g, e)) \/ Plan(g) \/ GcStep(g) \/ MoveFails(g) \/ GcDies(g)
      PROVE  OrderIInv'
  <2>1. CASE Purge(g)
    BY <2>1, PurgeOrder
  <2>2. CASE \E e \in Copies : PurgeDies(g, e)
    BY <2>2, PurgeDiesOrder
  <2>3. CASE Plan(g)
    BY <2>3, PlanOrder
  <2>4. CASE Inspect(g)
    BY <2>4, InspectOrder
  <2>5. CASE MakeEntry(g)
    BY <2>5, MakeEntryOrder
  <2>6. CASE WriteTombstone(g)
    BY <2>6, WriteTombstoneOrder
  <2>7. CASE MoveStore(g)
    BY <2>7, MoveStoreOrder
  <2>8. CASE InspectMoved(g)
    BY <2>8, InspectMovedOrder
  <2>9. CASE RollBack(g)
    BY <2>9, RollBackOrder
  <2>10. CASE RemoveEntry(g) \/ MoveFails(g)
    BY <2>10, DroppedByCollectorOrder
  <2>11. CASE GcDies(g)
    BY <2>11, GcDiesOrder
  <2> QED
    BY <1>1, <2>1, <2>2, <2>3, <2>4, <2>5, <2>6, <2>7, <2>8, <2>9, <2>10, <2>11 DEF GcStep
<1>2. ASSUME NEW s \in Sessions,
             \/ Adopt(s) \/ SessionStep(s) \/ Checkpoint(s) \/ PublishLate(s)
             \/ LockTimesOut(s) \/ RestoreFails(s) \/ FinishFails(s) \/ EndSession(s) \/ SessionDies(s)
      PROVE  OrderIInv'
  <2>1. CASE Adopt(s)
    BY <2>1, AdoptOrder
  <2>2. CASE AskForCopy(s)
    BY <2>2, AskForCopyOrder
  <2>3. CASE FinishRestore(s)
    BY <2>3, FinishRestoreOrder
  <2>4. CASE OpenStore(s) \/ TouchLease(s) \/ PublishToken(s) \/ Checkpoint(s) \/ PublishLate(s)
    BY <2>4, SessionOrder
  <2>5. CASE EndSession(s) \/ SessionDies(s)
    BY <2>5, SessionGoneOrder
  <2>6. CASE LockTimesOut(s) \/ RestoreFails(s) \/ FinishFails(s)
    BY <2>6, FailureOrder
  <2> QED
    BY <1>2, <2>1, <2>2, <2>3, <2>4, <2>5, <2>6 DEF SessionStep
<1>3. ASSUME NEW i \in Items, Digest(i) PROVE OrderIInv'
  BY <1>3, DigestOrder
<1>4. CASE WorkdirChanges \/ HourPasses
  BY <1>4, HourOrder
<1>5. CASE DaysPass
  BY <1>5, DaysPassOrder
<1>6. CASE UNCHANGED gcVars
  <2>1. UNCHANGED <<site, trash, tombstone, gc, session>> /\ GcTypeOK
    BY <1>6 DEF gcVars, GcIInv
  <2>2. QuietFiles
    BY <2>1 DEF QuietFiles, GivenUp
  <2> QED
    BY <2>1, <2>2, RestingCollectors, RestingSessions, QuietKeeps
<1> QED
  BY <1>1, <1>2, <1>3, <1>4, <1>5, <1>6 DEF GcNext

(***************************************************************************)
(* An adopting session that finds no store at the path creates an empty    *)
(* one only if no copy was there when it asked, or the copy it found is no *)
(* longer the newest in the trash, or has lost its path to another store   *)
(* or its tombstone to an error, or the session's own restore met one: for *)
(* any numbers of collectors, sessions and entries, and through their      *)
(* crashes, failed moves, ghosts and purges (writeTombstone,               *)
(* restoreTombstonedStore).                                                *)
(***************************************************************************)
THEOREM NeverStartsEmptyHolds == GcSpec => NeverStartsEmpty
<1> DEFINE StartsEmptyRightly ==
      \A s \in Sessions :
        session[s].pc = "adopted" /\ session'[s].pc = "opened" /\ site.kind # "store" =>
            \/ session[s].found = 0
            \/ session[s].found \notin Full \/ session[s].found # Newest(Full)
            \/ trash[session[s].found].conflict \/ trash[session[s].found].forgotten
            \/ session[s].failed
<1>1. GcInit => GcIInv /\ OrderIInv
  BY GcInitKeeps, OrderInit
<1>2. GcIInv /\ OrderIInv /\ [GcNext]_gcVars => (GcIInv /\ OrderIInv)'
  BY GcNextKeeps, OrderNext
<1>3. OrderIInv => [StartsEmptyRightly]_gcVars
  <2>1. SUFFICES ASSUME OrderIInv, NEW s \in Sessions, session[s].pc = "adopted", site.kind # "store",
                        session[s].found \in Full, session[s].found = Newest(Full),
                        ~trash[session[s].found].conflict, ~trash[session[s].found].forgotten, ~session[s].failed
                 PROVE  FALSE
    OBVIOUS
  <2>2. PICK f \in Full : f > Newest(Full)
    BY <2>1 DEF OrderIInv, Finds, Dealt, GivenUp
  <2>3. Full \in SUBSET Copies /\ Full # {}
    BY <2>1 DEF Full
  <2>4. Newest(Full) \in Full /\ f <= Newest(Full)
    BY <2>3, NewestIsOne
  <2>5. f \in Nat /\ Newest(Full) \in Nat
    BY <2>3, <2>4, GcAssumption
  <2> QED
    BY <2>2, <2>4, <2>5
<1>4. NeverStartsEmpty <=> [][StartsEmptyRightly]_gcVars
  BY DEF NeverStartsEmpty
<1> QED
  BY <1>1, <1>2, <1>3, <1>4, PTL DEF GcSpec
=============================================================================
