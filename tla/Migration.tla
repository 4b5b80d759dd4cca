------------------------------ MODULE Migration ------------------------------
(***************************************************************************)
(* Opening a store (core/db.ts, Index.create and migrate).                 *)
(*                                                                         *)
(* Every process that opens a store brings its schema up to date, without  *)
(* a lock around the whole: each statement commits on its own, only the    *)
(* columns of one table are added in one transaction, and an opener        *)
(* decides by the version it read at its start.  Several processes may do  *)
(* so at once, each may fail or die at any statement, and those that are   *)
(* through already write rows.                                             *)
(***************************************************************************)
EXTENDS Integers

CONSTANTS
    Openers,   \* calls of Index.create, in any number of processes
    StageRows, \* keys of stage1_outputs
    StoredJobs,    \* keys of extraction_jobs
    CodexJobs  \* the jobs whose host is codex

ASSUME MigrationAssumption == CodexJobs \subseteq StoredJobs

VARIABLES
    tables,   \* the tables that exist
    columns,  \* the groups of columns that exist
    indexes,  \* the indexes that migrate creates
    version,  \* meta.schema_version, 1 when there is none
    staged, named, \* the rows of stage1_outputs, and those that have their artifact's name
    worker,   \* [StoredJobs -> the provider of the job]
    opener,   \* [Openers -> Opener]
    sound     \* history: the store was as some version of the program left it

migVars == <<tables, columns, indexes, version, staged, named, worker, opener, sound>>
schema == <<tables, columns, indexes, version>>
tableRows == <<staged, named, worker>>

Columns == {"artifact", "checkpoint", "provider"}
ColumnsOf == [stage |-> {"artifact", "checkpoint"}, jobs |-> {"provider"}]
\* Of the other providers "http" stands for any.
Workers == {"absent", "unset", "http", "codex-exec"}

\* The statements in their order; a closed store is opened with the first.
NextPlace == [
    stage |-> "jobs", jobs |-> "version", version |-> "v5",
    v5 |-> "v6", v6 |-> "v7", v7 |-> "look8",
    look8 |-> "add8", add8 |-> "list8", list8 |-> "name8", name8 |-> "index8", index8 |-> "v8", v8 |-> "look9",
    look9 |-> "add9", add9 |-> "add9jobs", add9jobs |-> "v9", v9 |-> "ready",
    ready |-> "own", own |-> "v10", v10 |-> "index11", index11 |-> "v11", v11 |-> "open"]
OpenerPlaces == DOMAIN NextPlace \cup {"open"}

\* seen is the version read, todo the rows whose name is still to be written.
Opener == [at : OpenerPlaces, seen : 1..11, repair8 : BOOLEAN, repair9 : BOOLEAN, todo : SUBSET StageRows]
ClosedStore == [at |-> "stage", seen |-> 1, repair8 |-> FALSE, repair9 |-> FALSE, todo |-> {}]

\* What a version of the program leaves behind: stage1_outputs came with
\* version 5, extraction_jobs with 6, the columns with 8 and 9; version 9 gave
\* codex jobs the wrong provider.
Left(v, lost) ==
    /\ tables = {t \in {"stage", "jobs"} : v >= IF t = "stage" THEN 5 ELSE 6}
    /\ columns = {c \in Columns : v >= IF c = "artifact" THEN 8 ELSE 9} \ lost
    /\ indexes = {i \in Columns \cup {"retention"} :
                     /\ v >= IF i = "artifact" THEN 8 ELSE IF i = "retention" THEN 11 ELSE 9
                     /\ i # "checkpoint" /\ i \notin lost}
    /\ version = v
    /\ staged \in SUBSET (IF v < 5 THEN {} ELSE StageRows)
    /\ named = IF "artifact" \in columns THEN staged ELSE {}
    /\ worker \in [StoredJobs -> Workers]
    /\ \A j \in StoredJobs :
          worker[j] \in {"absent"} \cup
              IF v < 6 THEN {} ELSE IF "provider" \notin columns THEN {"unset"}
              ELSE IF j \in CodexJobs /\ v >= 10 THEN {"codex-exec"} ELSE {"http"}

\* Versions 1 to 4 had none of these tables and are alike; a store may also
\* have lost columns that its version has.
MigInit ==
    /\ opener = [o \in Openers |-> ClosedStore]
    /\ \/ sound = TRUE /\ \E v \in {1} \cup 5..11 : Left(v, {})
       \/ sound = FALSE /\ \E v \in {10, 11}, lost \in SUBSET Columns \ {{}} : Left(v, lost)

IsAt(o, place) == opener[o].at = place
OpenerIs(o, r) == opener' = [opener EXCEPT ![o] = r]
Goes(o) == OpenerIs(o, [opener[o] EXCEPT !.at = NextPlace[opener[o].at]])

----------------------------------------------------------------------------
\* BASE, one CREATE TABLE IF NOT EXISTS after the other: a table that is there
\* keeps the columns it has.
CreateTable(o) ==
    /\ opener[o].at \in {"stage", "jobs"}
    /\ tables' = tables \cup {opener[o].at}
    /\ columns' = IF opener[o].at \in tables THEN columns ELSE columns \cup ColumnsOf[opener[o].at]
    /\ Goes(o)
    /\ UNCHANGED <<indexes, version, tableRows, sound>>

ReadVersion(o) ==
    /\ IsAt(o, "version")
    /\ OpenerIs(o, [opener[o] EXCEPT !.at = "v5", !.seen = version])
    /\ UNCHANGED <<schema, tableRows, sound>>

\* The version is written as each part is done, if the part was due.
Stamp(o) ==
    \E k \in 5..11 :
       /\ IsAt(o, CASE k = 5 -> "v5" [] k = 6 -> "v6" [] k = 7 -> "v7" [] k = 8 -> "v8" [] k = 9 -> "v9"
                  [] k = 10 -> "v10" [] k = 11 -> "v11")
       /\ LET due == opener[o].seen < k \/ (k = 10 /\ (opener[o].repair8 \/ opener[o].repair9))
          IN version' = IF due THEN k ELSE version
       /\ Goes(o)
       /\ UNCHANGED <<tables, columns, indexes, tableRows, sound>>

Lacks8Structure(o) == "artifact" \notin columns  \* mutant
Lacks8(o) == opener[o].seen < 8 \/ "artifact" \notin columns
Lacks9(o) == opener[o].seen < 9 \/ ~({"checkpoint", "provider"} \subseteq columns)

\* PRAGMA table_info, and what is then to be repaired.
Look8(o) ==
    /\ IsAt(o, "look8")
    /\ OpenerIs(o, [opener[o] EXCEPT !.at = IF Lacks8(o) THEN "add8" ELSE "look9", !.repair8 = Lacks8(o)])
    /\ UNCHANGED <<schema, tableRows, sound>>
Look9(o) ==
    /\ IsAt(o, "look9")
    /\ OpenerIs(o, [opener[o] EXCEPT !.at = IF Lacks9(o) THEN "add9" ELSE "ready", !.repair9 = Lacks9(o)])
    /\ UNCHANGED <<schema, tableRows, sound>>

\* addMissingColumns, which looks again inside its transaction.  Jobs that had
\* no provider get the default.
AddMissingColumns(o) ==
    /\ opener[o].at \in {"add8", "add9", "add9jobs"}
    /\ LET added == CASE IsAt(o, "add8") -> {"artifact"} [] IsAt(o, "add9") -> {"checkpoint"} [] IsAt(o, "add9jobs") -> {"provider"}
       IN /\ columns' = columns \cup added
          /\ worker' = [j \in StoredJobs |-> IF "provider" \in added /\ worker[j] = "unset" THEN "http" ELSE worker[j]]
    /\ Goes(o)
    /\ UNCHANGED <<tables, indexes, version, staged, named, sound>>

ListStageRows(o) ==
    /\ IsAt(o, "list8")
    /\ OpenerIs(o, [opener[o] EXCEPT !.at = "name8", !.todo = staged])
    /\ UNCHANGED <<schema, tableRows, sound>>
\* One UPDATE a row; a row that is gone by then is not updated.
NameRow(o) ==
    /\ IsAt(o, "name8")
    /\ \E r \in opener[o].todo :
          /\ named' = named \cup ({r} \cap staged)
          /\ OpenerIs(o, [opener[o] EXCEPT !.todo = @ \ {r}])
    /\ UNCHANGED <<schema, staged, worker, sound>>
AllNamed(o) ==
    /\ IsAt(o, "name8") /\ opener[o].todo = {}
    /\ Goes(o)
    /\ UNCHANGED <<schema, tableRows, sound>>

\* CREATE INDEX IF NOT EXISTS; that for retention only when due, that of the
\* providers always.
CreateIndex(o) ==
    /\ opener[o].at \in {"index8", "ready", "index11"}
    /\ LET index == CASE IsAt(o, "index8") -> "artifact" [] IsAt(o, "ready") -> "provider" [] IsAt(o, "index11") -> "retention"
       IN indexes' = IF IsAt(o, "index11") /\ opener[o].seen >= 11 THEN indexes ELSE indexes \cup {index}
    /\ Goes(o)
    /\ UNCHANGED <<tables, columns, version, tableRows, sound>>

\* The jobs of codex go to its own worker.
OwnWorker(o) ==
    /\ IsAt(o, "own")
    /\ LET due == opener[o].seen < 10 \/ opener[o].repair8 \/ opener[o].repair9
       IN worker' = [j \in StoredJobs |-> IF due /\ j \in CodexJobs /\ worker[j] = "http" THEN "codex-exec" ELSE worker[j]]
    /\ Goes(o)
    /\ UNCHANGED <<schema, staged, named, sound>>

----------------------------------------------------------------------------
\* What an opened store is used for: an upsert names its row, an enqueue names
\* a worker; no adapter of this program enqueues for codex.
Upsert(o) ==
    /\ IsAt(o, "open")
    /\ \E r \in StageRows : staged' = staged \cup {r} /\ named' = named \cup {r}
    /\ UNCHANGED <<schema, worker, opener, sound>>
DeleteRow(o) ==
    /\ IsAt(o, "open")
    /\ \E r \in StageRows : staged' = staged \ {r} /\ named' = named \ {r}
    /\ UNCHANGED <<schema, worker, opener, sound>>
EnqueueJob(o) ==
    /\ IsAt(o, "open")
    /\ \E j \in StoredJobs \ CodexJobs : worker[j] = "absent" /\ worker' = [worker EXCEPT ![j] = "http"]
    /\ UNCHANGED <<schema, staged, named, opener, sound>>
\* The store is closed; or a statement fails, busy for longer than the driver
\* waits; or the process dies.
CloseStore(o) ==
    /\ opener[o] # ClosedStore
    /\ OpenerIs(o, ClosedStore)
    /\ UNCHANGED <<schema, tableRows, sound>>

Migrates(o) ==
    \/ CreateTable(o) \/ ReadVersion(o) \/ Stamp(o) \/ Look8(o) \/ Look9(o)
    \/ AddMissingColumns(o) \/ ListStageRows(o) \/ NameRow(o) \/ AllNamed(o) \/ CreateIndex(o) \/ OwnWorker(o)
MigNext == \E o \in Openers : Migrates(o) \/ Upsert(o) \/ DeleteRow(o) \/ EnqueueJob(o) \/ CloseStore(o)
MigSpec == MigInit /\ [][MigNext]_migVars

----------------------------------------------------------------------------
MigTypeOK ==
    /\ tables \subseteq {"stage", "jobs"} /\ columns \subseteq Columns
    /\ indexes \subseteq {"artifact", "provider", "retention"}
    /\ version \in 1..11
    /\ staged \subseteq StageRows /\ named \subseteq staged
    /\ worker \in [StoredJobs -> Workers]
    /\ opener \in [Openers -> Opener]
    /\ sound \in BOOLEAN

RowsNamed == "artifact" \in columns /\ "artifact" \in indexes /\ named = staged
Owned == \A j \in CodexJobs : worker[j] \in {"absent", "codex-exec"}

(***************************************************************************)
(* Whoever has opened a store finds it migrated: every column is there,    *)
(* every row has its artifact's name and every codex job its worker,       *)
(* whatever other openers were doing, wherever they died, and although a   *)
(* slow one writes a lower version over a higher one.  Of a store that had *)
(* lost columns this is only true for the opener that found it so, as the  *)
(* version does not tell the next one (migrate, addMissingColumns).        *)
(***************************************************************************)
OpenedIsMigrated ==
    \A o \in Openers : IsAt(o, "open") =>
        /\ columns = Columns /\ tables = {"stage", "jobs"} /\ "provider" \in indexes
        /\ sound \/ opener[o].repair8 => RowsNamed
        /\ sound \/ opener[o].repair8 \/ opener[o].repair9 => Owned
        /\ sound => "retention" \in indexes
=============================================================================
