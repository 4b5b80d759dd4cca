-------------------------- MODULE WorkspaceWriters --------------------------
(***************************************************************************)
(* The writers of a store's Markdown workspace: Phase-2 consolidation      *)
(* (runConsolidation, core/consolidate.ts) and hard purge (purgeRollout,   *)
(* core/purge.ts), serialised by the workspace lease and made recoverable  *)
(* by generations (core/generation.ts).                                    *)
(*                                                                         *)
(* A generation is a manifest with the old and the new content of every    *)
(* file it changes.  Files are replaced one at a time, SQLite commits once *)
(* in between, and whoever holds the lease next completes or undoes what a *)
(* crash left behind.  Extraction workers upsert stage-1 rows, notes       *)
(* arrive and the user edits MEMORY.md at any time, without the lease.     *)
(*                                                                         *)
(* A file is the set of facts in it: a version of a stage-1 row, a note,   *)
(* or a line the user wrote.  "memory" stands for the documents the        *)
(* provider owns, "raw" for the projection of stage-1 rows (a row with no  *)
(* raw memory is in it by its summary), baseMemory and baseRaw for their   *)
(* copies in .baseline/.                                                   *)
(***************************************************************************)
EXTENDS Integers, FiniteSets, Sequences, SequencesExt

CONSTANTS
    Writers, NoWriter, \* processes that consolidate or purge
    Rows, NoRow,       \* rollout keys
    Notes,             \* ad-hoc notes
    User,              \* the author of manual edits
    GenIds, NoGen,     \* generation ids; one is reused once nothing names it
    MaxInputs,         \* pending rows a batch admits
    Purgeable,         \* bound: the rows that may be purged
    Droppable,         \* bound: the rows, notes and users whose lines a provider may drop
    MaxVersion,        \* bound: upserts of a row
    MaxEdits,          \* bound: manual edits
    MaxFaults,         \* bound: crashes, I/O and provider failures, suspensions
    MaxSkips,          \* bound: generations whose recovery fails and is skipped
    SuspendedAt        \* bound: the awaits at which a process may be suspended

ASSUME WriterAssumption ==
    /\ NoWriter \notin Writers
    /\ NoRow \notin Rows
    /\ NoGen \notin GenIds
    /\ User \notin Rows \cup Notes
    /\ Rows \cap Notes = {}
    /\ Purgeable \subseteq Rows
    /\ Droppable \subseteq Rows \cup Notes \cup {User}
    /\ SuspendedAt \subseteq {"looked", "waiting", "returned"}

ASSUME BoundAssumption ==
    /\ MaxInputs \in Nat \ {0}
    /\ MaxVersion \in Nat
    /\ MaxEdits \in Nat
    /\ MaxFaults \in Nat
    /\ MaxSkips \in Nat

VARIABLES
    files,       \* [Targets -> SUBSET Facts]
    stage,       \* [Rows -> StageRow], the stage1_outputs table
    notes,       \* [Notes -> NoteStatuses], note files and ad_hoc_notes.applied
    marker,      \* meta consolidation_generation
    generations, \* the manifests in state/consolidation/, oldest first
    lease,       \* the consolidation_leases row: owner, and whether it has run out
    run,         \* [Writers -> Run], the local state of each writer
    edits, faults, skips, \* how many so far
    committed,   \* history: memory and raw as of the last SQLite commit
    purged,      \* history: rows purged and not upserted since
    forgotten    \* history: notes that a committed answer left out again

table == <<stage, notes, marker>>
counters == <<edits, faults, skips>>
history == <<committed, purged, forgotten>>
vars == <<files, stage, notes, marker, generations, lease, run, edits, faults,
          skips, committed, purged, forgotten>>

Targets == {"baseMemory", "baseRaw", "memory", "raw"}

RowFacts == Rows \X (1..MaxVersion)
NoteFacts == Notes \X {0}
UserFacts == {User} \X (1..MaxEdits)
Facts == RowFacts \cup NoteFacts \cup UserFacts
FactsOf(r) == {r} \X (1..MaxVersion)
NoteFact(n) == <<n, 0>>

Contents == [Targets -> SUBSET Facts]
NoContents == [t \in Targets |-> {}]

StageRow == [status : {"absent", "pending", "selected", "deleted"},
             version : 0..MaxVersion,
             ever : BOOLEAN,  \* selected_for_phase2
             aged : BOOLEAN]  \* outside the unused-days window
NoStage == [status |-> "absent", version |-> 0, ever |-> FALSE, aged |-> FALSE]
NoteStatuses == {"absent", "pending", "applied"}

Generation == [id : GenIds, phase : {"prepared", "committed"},
               before : Contents, after : Contents, touched : SUBSET Targets]

NoPlan == [raw |-> {}, selected |-> {}, pruned |-> {}, notes |-> {}]
Plan == [raw : SUBSET RowFacts, selected : SUBSET Rows, pruned : SUBSET Rows,
         notes : SUBSET Notes]

NothingSeen == [files |-> NoContents, stage |-> [r \in Rows |-> NoStage], notes |-> {}]
Seen == [files : Contents, stage : [Rows -> StageRow], notes : SUBSET Notes]

\* All that a writer keeps in memory; kind is the generation it is writing,
\* row the rollout it purges, left (a history) the notes its answer left out.
Run == [pc : {"idle", "recovering", "planning", "looked", "applying", "committing",
              "marking", "discarding", "asking", "waiting", "returned", "checked",
              "releasing"},
        kind : {"sync", "commit", "purge"}, row : Rows \cup {NoRow},
        skipped : Nat, todo : SUBSET Targets, mark : GenIds \cup {NoGen},
        next : {"planning", "releasing"}, plan : Plan, seen : Seen,
        consumed : SUBSET Notes, result : SUBSET Facts, left : SUBSET Notes]
Idle == [pc |-> "idle", kind |-> "sync", row |-> NoRow, skipped |-> 0, todo |-> {},
         mark |-> NoGen, next |-> "planning", plan |-> NoPlan, seen |-> NothingSeen,
         consumed |-> {}, result |-> {}, left |-> {}]

Fault == faults < MaxFaults /\ faults' = faults + 1

----------------------------------------------------------------------------
(***************************************************************************)
(* Generations                                                             *)
(***************************************************************************)
Newest == Last(generations)

\* The files a generation changes, and the order they are written in.
Differing(before, after) == {t \in Targets : before[t] # after[t]}
WriteOrder == <<"baseMemory", "baseRaw", "memory", "raw">>
First(todo) == CHOOSE t \in todo : \E i \in 1..4 :
                   WriteOrder[i] = t /\ \A j \in 1..(i - 1) : WriteOrder[j] \notin todo

\* recoverPendingGenerations: which side of a generation wins.
Forward(g, mark) == mark = g.id \/ g.phase = "committed"
Side(g, mark) == IF Forward(g, mark) THEN g.after ELSE g.before

TodoAt(gens, i) == IF i \in 1..Len(gens) THEN gens[i].touched ELSE {}

RecoveringUnmarked(r, mark, next) ==  \* mutant
    [Idle EXCEPT !.pc = "recovering", !.row = r.row, !.next = next,
                 !.todo = TodoAt(generations, 1)]
\* The pending manifests are listed once, and SQLite's marker is read once.
Recovering(r, mark, next) ==
    [Idle EXCEPT !.pc = "recovering", !.row = r.row, !.mark = mark, !.next = next,
                 !.todo = TodoAt(generations, 1)]

\* The content of the files as the next recovery would leave them.
View == [t \in Targets |->
           LET covering == {i \in 1..Len(generations) : t \in generations[i].touched}
           IN IF covering = {} THEN files[t]
              ELSE Side(generations[CHOOSE i \in covering : \A j \in covering : i >= j],
                        marker)[t]]

----------------------------------------------------------------------------
(***************************************************************************)
(* Planning                                                                *)
(***************************************************************************)
Active(r) == stage[r].status \in {"pending", "selected"}
InWindow(r) == Active(r) /\ ~stage[r].aged
Outside == {r \in Rows : Active(r) /\ stage[r].aged}
Current(r) == <<r, stage[r].version>>

\* stageSelectRows: the rows selected before, and the best ranked pending ones.
Batches ==
    LET pending == {r \in Rows : InWindow(r) /\ stage[r].status = "pending"}
        full == IF Cardinality(pending) < MaxInputs THEN Cardinality(pending) ELSE MaxInputs
    IN {b \in SUBSET pending : Cardinality(b) = full}
Retained == {r \in Rows : InWindow(r) /\ stage[r].status = "selected"}

PlanFor(batch) ==
    LET rows == Retained \cup batch IN
    [raw |-> {Current(r) : r \in rows}, selected |-> rows, pruned |-> Outside,
     notes |-> {n \in Notes : notes[n] = "pending"}]

NothingToDoBlind(plan) == /\ files["baseMemory"] = files["memory"]  \* mutant
                          /\ plan.notes = {} /\ plan.pruned = {}
NothingToDo(plan) == /\ files["baseRaw"] = plan.raw
                     /\ files["baseMemory"] = files["memory"]
                     /\ plan.notes = {} /\ plan.pruned = {}

\* workspaceRevision and stageRevision.
Revision == [files |-> files, stage |-> stage,
             notes |-> {n \in Notes : notes[n] # "absent"}]

IngestedKeys(memory, given) ==  \* mutant
    memory \cup {f[1] : f \in given}
\* RuleConsolidateProvider ingests what it is given, unless the row is cited
\* already, whatever version the citation is of.
Ingested(memory, given) == memory \cup {f \in given : FactsOf(f[1]) \cap memory = {}}

\* What a provider makes of memory.  It must write the notes it reports; of the
\* rows that the diff adds it takes up what it will, or what has the shape of
\* a block, and it may drop what memory says of a row, of a note or of the
\* user's.  A run that edits nothing is a good run.
Results(seen, plan, consumed) ==
    {{f \in seen.files["memory"] : f[1] \notin dropped} \cup taken
        \cup {NoteFact(n) : n \in consumed} :
        dropped \in SUBSET Droppable,
        taken \in SUBSET (plan.raw \ seen.files["baseRaw"])}
LeftOut(seen, result) == {n \in Notes : NoteFact(n) \in seen.files["memory"] \ result}

Rewriting(memory, raw) == [baseMemory |-> memory, baseRaw |-> raw,
                           memory |-> memory, raw |-> raw]

\* purgeRollout rebuilds both documents from what is published, without row r:
\* memory from its own lines, the rows and the applied notes, of which the rule
\* provider skips what it cannot place.
PurgedRaw(r) == {f \in files["raw"] : f[1] # r /\ Active(f[1]) /\ f = Current(f[1])}
Rebuildable(r) == PurgedRaw(r) \cup {NoteFact(n) : n \in {m \in Notes : notes[m] = "applied"}}
PurgedBaselineKept(r, given) ==  \* mutant
    [Rewriting(Ingested(files["memory"] \ FactsOf(r), given), PurgedRaw(r))
       EXCEPT !["baseRaw"] = files["baseRaw"]]
PurgedFiles(r, given) == Rewriting(Ingested(files["memory"] \ FactsOf(r), given), PurgedRaw(r))

----------------------------------------------------------------------------
Init ==
    /\ files = NoContents
    /\ stage = [r \in Rows |-> NoStage]
    /\ notes = [n \in Notes |-> "absent"]
    /\ marker = NoGen
    /\ generations = <<>>
    /\ lease = [owner |-> NoWriter, out |-> FALSE]
    /\ run = [w \in Writers |-> Idle]
    /\ edits = 0 /\ faults = 0 /\ skips = 0
    /\ committed = [memory |-> {}, raw |-> {}]
    /\ purged = {} /\ forgotten = {}

(***************************************************************************)
(* What happens without the lease                                          *)
(***************************************************************************)
\* stageUpsert by an extraction worker.  The row is pending again; it is still
\* outside the window if an old last_usage says so.
Upsert(r) ==
    /\ stage[r].version < MaxVersion
    /\ \E aged \in {FALSE, stage[r].aged} :
         stage' = [stage EXCEPT ![r] = [status |-> "pending", version |-> @.version + 1,
                                        ever |-> FALSE, aged |-> aged]]
    /\ purged' = purged \ {r}
    /\ UNCHANGED <<files, notes, marker, generations, lease, run, counters, committed, forgotten>>

\* The unused-days window moves past a row.
Age(r) ==
    /\ stage[r].status # "absent"
    /\ ~stage[r].aged
    /\ stage' = [stage EXCEPT ![r].aged = TRUE]
    /\ UNCHANGED <<files, notes, marker, generations, lease, run, counters, history>>

\* stagePruneRetention: rows never consolidated, and deleted or too old.
Recycled(s) == [r \in Rows |-> IF s[r].status # "absent" /\ ~s[r].ever
                                  /\ (s[r].status = "deleted" \/ s[r].aged)
                               THEN [NoStage EXCEPT !.version = s[r].version]
                               ELSE s[r]]

\* runMaybeConsolidate recycles before it takes the lease.
EntryPrune ==
    /\ stage' = Recycled(stage)
    /\ stage' # stage
    /\ UNCHANGED <<files, notes, marker, generations, lease, run, counters, history>>

AddNote(n) ==
    /\ notes[n] = "absent"
    /\ notes' = [notes EXCEPT ![n] = "pending"]
    /\ UNCHANGED <<files, stage, marker, generations, lease, run, counters, history>>

\* The user adds a line to MEMORY.md.
Edit ==
    /\ edits < MaxEdits
    /\ edits' = edits + 1
    /\ files' = [files EXCEPT !["memory"] = @ \cup {<<User, edits + 1>>}]
    /\ UNCHANGED <<table, generations, lease, run, faults, skips, history>>

\* The timer of a living writer renews the lease long before it runs out: it
\* does only after a crash, or when the process is suspended at an await.
Expire ==
    /\ lease.owner # NoWriter
    /\ ~lease.out
    /\ \/ run[lease.owner].pc = "idle" /\ UNCHANGED faults
       \/ run[lease.owner].pc \in SuspendedAt /\ Fault
    /\ lease' = [lease EXCEPT !.out = TRUE]
    /\ UNCHANGED <<files, table, generations, run, edits, skips, history>>

\* consolidationRenew looks at the owner, not at the expiry.
RenewTimer(w) ==
    /\ lease.owner = w
    /\ lease.out
    /\ run[w].pc \in SuspendedAt
    /\ lease' = [lease EXCEPT !.out = FALSE]
    /\ UNCHANGED <<files, table, generations, run, counters, history>>

----------------------------------------------------------------------------
(***************************************************************************)
(* Acquiring the lease, and recovery                                       *)
(***************************************************************************)
Become(w, r) == run' = [run EXCEPT ![w] = r]
Goto(w, pc) == Become(w, [run[w] EXCEPT !.pc = pc])
GiveUp(w) == Become(w, [Idle EXCEPT !.pc = "releasing"])

AcquireFreeOnly(w, r) ==  \* mutant
    /\ run[w].pc = "idle"
    /\ lease.owner = NoWriter
    /\ lease' = [owner |-> w, out |-> FALSE]
    /\ Become(w, Recovering([Idle EXCEPT !.row = r], marker, "planning"))
    /\ UNCHANGED <<files, table, generations, counters, history>>
\* Row is what to purge, NoRow for a consolidation.
Acquire(w, r) ==
    /\ run[w].pc = "idle"
    /\ lease.owner = NoWriter \/ lease.out
    /\ lease' = [owner |-> w, out |-> FALSE]
    /\ Become(w, Recovering([Idle EXCEPT !.row = r], marker, "planning"))
    /\ UNCHANGED <<files, table, generations, counters, history>>

Recovered(w) == generations[run[w].skipped + 1]

RecoverTarget(w) ==
    /\ run[w].pc = "recovering"
    /\ run[w].todo # {}
    /\ LET t == First(run[w].todo) IN
         /\ files' = [files EXCEPT ![t] = Side(Recovered(w), run[w].mark)[t]]
         /\ run' = [run EXCEPT ![w].todo = @ \ {t}]
    /\ UNCHANGED <<table, generations, lease, counters, history>>

RecoverDiscard(w) ==
    /\ run[w].pc = "recovering"
    /\ run[w].todo = {}
    /\ run[w].skipped < Len(generations)
    /\ generations' = RemoveAt(generations, run[w].skipped + 1)
    /\ run' = [run EXCEPT ![w].todo = TodoAt(generations', run[w].skipped + 1)]
    /\ UNCHANGED <<files, table, lease, counters, history>>

\* A file of the generation cannot be written: the next one is recovered.
RecoverSkip(w) ==
    /\ run[w].pc = "recovering"
    /\ run[w].todo # {}
    /\ skips < MaxSkips
    /\ skips' = skips + 1
    /\ run' = [run EXCEPT ![w].skipped = @ + 1,
                          ![w].todo = TodoAt(generations, run[w].skipped + 2)]
    /\ UNCHANGED <<files, table, generations, lease, edits, faults, history>>

RecoverDone(w) ==
    /\ run[w].pc = "recovering"
    /\ run[w].skipped = Len(generations)
    /\ Become(w, [Idle EXCEPT !.pc = run[w].next,
                              !.row = IF run[w].next = "planning" THEN run[w].row ELSE NoRow])
    /\ UNCHANGED <<files, table, generations, lease, counters, history>>

----------------------------------------------------------------------------
(***************************************************************************)
(* Writing a generation                                                    *)
(***************************************************************************)
FreshIds == GenIds \ ({marker} \cup {generations[i].id : i \in 1..Len(generations)})

\* Where a writer goes once every file of its generation is in place.
Applied(kind) == IF kind = "sync" THEN "marking" ELSE "committing"

\* prepareGeneration publishes the manifest last; a crash before that leaves
\* an orphan directory that changed nothing and that recovery discards.
Publish(w, kind, after, r) ==
    LET touched == Differing(files, after)
        g == [id |-> CHOOSE i \in FreshIds : TRUE, phase |-> "prepared",
              before |-> files, after |-> after, touched |-> touched]
    IN /\ FreshIds # {}
       /\ generations' = Append(generations, g)
       /\ Become(w, [r EXCEPT !.kind = kind, !.todo = touched,
                              !.pc = IF touched = {} THEN Applied(kind) ELSE "applying"])

ApplyTarget(w) ==
    /\ run[w].pc = "applying"
    /\ LET t == First(run[w].todo) IN
         /\ files' = [files EXCEPT ![t] = Newest.after[t]]
         /\ run' = [run EXCEPT ![w].todo = @ \ {t},
                               ![w].pc = IF run[w].todo = {t} THEN Applied(run[w].kind) ELSE @]
    /\ UNCHANGED <<table, generations, lease, counters, history>>

\* markGenerationCommitted and discardGeneration.
Mark(w) ==
    /\ run[w].pc = "marking"
    /\ generations' = [generations EXCEPT ![Len(generations)].phase = "committed"]
    /\ Goto(w, "discarding")
    /\ UNCHANGED <<files, table, lease, counters, history>>
Discard(w) ==
    /\ run[w].pc = "discarding"
    /\ generations' = Front(generations)
    /\ IF run[w].kind = "sync" THEN Goto(w, "asking") ELSE GiveUp(w)
    /\ UNCHANGED <<files, table, lease, counters, history>>

\* A file or SQLite refuses the write: the writer recovers and gives up.
\* syncArtifacts recovers without SQLite's marker.
Throws(w) ==
    /\ Fault
    /\ run[w].pc \in {"applying", "committing", "marking", "discarding"}
    /\ Become(w, Recovering(Idle, IF run[w].kind = "sync" THEN NoGen ELSE marker, "releasing"))
    /\ UNCHANGED <<files, table, generations, lease, edits, skips, history>>

----------------------------------------------------------------------------
(***************************************************************************)
(* Consolidation                                                           *)
(***************************************************************************)
\* The first plan is only there for the stage-1 revision it started from.
Look(w) ==
    /\ run[w].pc = "planning"
    /\ run[w].row = NoRow
    /\ Become(w, [run[w] EXCEPT !.pc = "looked", !.seen.stage = stage])
    /\ UNCHANGED <<files, table, generations, lease, counters, history>>

\* The second plan, and syncArtifacts up to its manifest.
PlanAndSync(w) ==
    /\ run[w].pc = "looked"
    /\ run[w].seen.stage = stage
    /\ \E batch \in Batches :
         LET plan == PlanFor(batch) IN
         IF NothingToDo(plan)
         THEN GiveUp(w) /\ UNCHANGED generations
         ELSE Publish(w, "sync", [files EXCEPT !["raw"] = plan.raw], [Idle EXCEPT !.plan = plan])
    /\ UNCHANGED <<files, table, lease, counters, history>>

Contend(w) ==
    /\ run[w].pc = "looked"
    /\ run[w].seen.stage # stage
    /\ GiveUp(w)
    /\ UNCHANGED <<files, table, generations, lease, counters, history>>

Ask(w) ==
    /\ run[w].pc = "asking"
    /\ Become(w, [run[w] EXCEPT !.pc = "waiting", !.seen = Revision])
    /\ UNCHANGED <<files, table, generations, lease, counters, history>>

\* The provider takes minutes.
ProviderReturns(w) ==
    /\ run[w].pc = "waiting"
    /\ \E consumed \in SUBSET run[w].plan.notes :
         \E result \in Results(run[w].seen, run[w].plan, consumed) :
           Become(w, [run[w] EXCEPT !.pc = "returned", !.consumed = consumed,
                                    !.result = result,
                                    !.left = LeftOut(run[w].seen, result)])
    /\ UNCHANGED <<files, table, generations, lease, counters, history>>

CheckUnfenced(w) ==  \* mutant
    /\ run[w].pc = "returned"
    /\ IF run[w].seen = Revision THEN Goto(w, "checked") ELSE GiveUp(w)
    /\ UNCHANGED <<files, table, generations, lease, counters, history>>
\* The lease is renewed, and the inputs must be those the provider was given.
Check(w) ==
    /\ run[w].pc = "returned"
    /\ IF lease.owner = w THEN lease' = [lease EXCEPT !.out = FALSE] ELSE UNCHANGED lease
    /\ IF lease.owner = w /\ run[w].seen = Revision THEN Goto(w, "checked") ELSE GiveUp(w)
    /\ UNCHANGED <<files, table, generations, counters, history>>

\* A document the provider did not touch keeps what is in it by now.
Prepare(w) ==
    /\ run[w].pc = "checked"
    /\ LET memory == IF run[w].result = run[w].seen.files["memory"]
                     THEN files["memory"] ELSE run[w].result
       IN Publish(w, "commit", Rewriting(memory, run[w].plan.raw),
                  [run[w] EXCEPT !.seen = NothingSeen, !.result = {}])
    /\ UNCHANGED <<files, table, lease, counters, history>>

Integrated(p) ==
    [r \in Rows |->
       IF r \in p.pruned
       THEN IF stage[r].status = "absent" THEN stage[r] ELSE [stage[r] EXCEPT !.status = "deleted"]
       ELSE IF r \in p.selected /\ stage[r].status \in {"pending", "selected"}
       THEN [stage[r] EXCEPT !.status = "selected", !.ever = TRUE]
       ELSE stage[r]]

Commits == committed' = [memory |-> Newest.after["memory"], raw |-> Newest.after["raw"]]

CommitAllNotes(w) ==  \* mutant
    /\ run[w].pc = "committing"
    /\ run[w].kind = "commit"
    /\ notes' = [n \in Notes |-> IF n \in run[w].plan.notes THEN "applied" ELSE notes[n]]
    /\ stage' = Recycled(Integrated(run[w].plan))
    /\ marker' = Newest.id
    /\ Commits
    /\ forgotten' = forgotten \cup run[w].left
    /\ Become(w, [Idle EXCEPT !.kind = "commit", !.pc = "marking"])
    /\ UNCHANGED <<files, generations, lease, counters, purged>>
CommitUnmarked(w) ==  \* mutant
    /\ run[w].pc = "committing"
    /\ run[w].kind = "commit"
    /\ notes' = [n \in Notes |-> IF n \in run[w].consumed THEN "applied" ELSE notes[n]]
    /\ stage' = Recycled(Integrated(run[w].plan))
    /\ Commits
    /\ forgotten' = forgotten \cup run[w].left
    /\ Become(w, [Idle EXCEPT !.kind = "commit", !.pc = "marking"])
    /\ UNCHANGED <<files, marker, generations, lease, counters, purged>>
\* The SQLite transaction of a consolidation.
Commit(w) ==
    /\ run[w].pc = "committing"
    /\ run[w].kind = "commit"
    /\ notes' = [n \in Notes |-> IF n \in run[w].consumed THEN "applied" ELSE notes[n]]
    /\ stage' = Recycled(Integrated(run[w].plan))
    /\ marker' = Newest.id
    /\ Commits
    /\ forgotten' = forgotten \cup run[w].left
    /\ Become(w, [Idle EXCEPT !.kind = "commit", !.pc = "marking"])
    /\ UNCHANGED <<files, generations, lease, counters, purged>>

----------------------------------------------------------------------------
(***************************************************************************)
(* Hard purge                                                              *)
(***************************************************************************)
PreparePurge(w) ==
    LET r == run[w].row IN
    /\ run[w].pc = "planning"
    /\ r # NoRow
    /\ IF stage[r].status = "absent"
       THEN GiveUp(w) /\ UNCHANGED generations
       ELSE \E given \in SUBSET Rebuildable(r) : Publish(w, "purge", PurgedFiles(r, given), run[w])
    /\ UNCHANGED <<files, table, lease, counters, history>>

\* The SQLite transaction of a purge; it throws when the row has gone.
CommitPurge(w) ==
    LET r == run[w].row IN
    /\ run[w].pc = "committing"
    /\ run[w].kind = "purge"
    /\ IF stage[r].status = "absent"
       THEN /\ Become(w, Recovering(Idle, marker, "releasing"))
            /\ UNCHANGED <<stage, marker, committed, purged>>
       ELSE /\ stage' = [stage EXCEPT ![r] = [NoStage EXCEPT !.version = stage[r].version]]
            /\ marker' = Newest.id
            /\ purged' = purged \cup {r}
            /\ Commits
            /\ Become(w, [Idle EXCEPT !.kind = "purge", !.pc = "marking"])
    /\ UNCHANGED <<files, notes, generations, lease, counters, forgotten>>

----------------------------------------------------------------------------
\* The provider fails, the workspace is paused or a read throws.
Abandon(w) ==
    /\ Fault
    /\ run[w].pc \in {"planning", "looked", "asking", "waiting", "returned", "checked"}
    /\ GiveUp(w)
    /\ UNCHANGED <<files, table, generations, lease, edits, skips, history>>

Release(w) ==
    /\ run[w].pc = "releasing"
    /\ lease' = IF lease.owner = w THEN [owner |-> NoWriter, out |-> FALSE] ELSE lease
    /\ Become(w, Idle)
    /\ UNCHANGED <<files, table, generations, counters, history>>

Crash(w) ==
    /\ Fault
    /\ run[w].pc # "idle"
    /\ Become(w, Idle)
    /\ UNCHANGED <<files, table, generations, lease, edits, skips, history>>

Works(w) ==
    \/ RecoverTarget(w) \/ RecoverDiscard(w) \/ RecoverDone(w)
    \/ ApplyTarget(w) \/ Mark(w) \/ Discard(w)
    \/ Look(w) \/ PlanAndSync(w) \/ Contend(w) \/ Ask(w) \/ ProviderReturns(w)
    \/ Check(w) \/ Prepare(w) \/ Commit(w)
    \/ PreparePurge(w) \/ CommitPurge(w) \/ Release(w)

Writer(w) ==
    \/ \E r \in Purgeable \cup {NoRow} : Acquire(w, r)
    \/ Works(w) \/ RenewTimer(w)
    \/ RecoverSkip(w) \/ Throws(w) \/ Abandon(w) \/ Crash(w)

Outsiders ==
    \/ \E r \in Rows : Upsert(r) \/ Age(r)
    \/ \E n \in Notes : AddNote(n)
    \/ EntryPrune \/ Edit \/ Expire

Next == Outsiders \/ (\E w \in Writers : Writer(w))

Spec == Init /\ [][Next]_vars

\* Sweeps and session ends keep starting consolidations; a provider call ends;
\* a writer that is not suspended takes its next step; abandoned leases run out.
Fairness ==
    /\ WF_vars(Expire)
    /\ \A w \in Writers : WF_vars(Acquire(w, NoRow)) /\ WF_vars(Works(w))

FairSpec == Spec /\ Fairness

----------------------------------------------------------------------------
(***************************************************************************)
(* Properties                                                              *)
(***************************************************************************)
TypeOK ==
    /\ files \in Contents
    /\ stage \in [Rows -> StageRow]
    /\ notes \in [Notes -> NoteStatuses]
    /\ marker \in GenIds \cup {NoGen}
    /\ \A i \in 1..Len(generations) : generations[i] \in Generation
    /\ lease \in [owner : Writers \cup {NoWriter}, out : BOOLEAN]
    /\ run \in [Writers -> Run]
    /\ edits \in 0..MaxEdits /\ faults \in 0..MaxFaults /\ skips \in 0..MaxSkips
    /\ committed \in [memory : SUBSET Facts, raw : SUBSET Facts]
    /\ purged \in SUBSET Rows
    /\ forgotten \in SUBSET Notes

\* Two processes never write the workspace's files or manifests at the same
\* time, although the lease may change hands while a provider is running.
Writing(w) == run[w].pc \in {"recovering", "applying", "committing", "marking", "discarding"}
OneWriter == \A v, w \in Writers : Writing(v) /\ Writing(w) => v = w

\* Wherever a writer dies, the files are, once recovered, exactly those of the
\* last generation SQLite committed; only the user's own lines may differ.
AllOldOrAllNew ==
    /\ View["baseMemory"] = committed.memory
    /\ View["baseRaw"] = committed.raw
    /\ View["memory"] \ UserFacts = committed.memory \ UserFacts

\* A note marked applied in SQLite is in MEMORY.md, or will be once recovered:
\* no crash, failed provider, late answer or purge acknowledges a note it then
\* loses.  Only a later answer, whose provider saw the note, may leave it out.
ConsumedIsWritten ==
    \A n \in Notes : notes[n] = "applied" => NoteFact(n) \in View["memory"] \/ n \in forgotten

\* After a hard purge nothing of the rollout is in any file, nor comes back
\* with a recovery, a rollback or a provider that was running meanwhile.
PurgedStaysGone ==
    \A r \in purged, t \in Targets : FactsOf(r) \cap View[t] = {}

\* Seen through recovery, the files and SQLite change together.
Atomic == INSTANCE AtomicWorkspace WITH
    memory <- View["memory"], raw <- View["raw"],
    baseline <- [memory |-> View["baseMemory"], raw |-> View["baseRaw"]],
    selected <- {r \in Rows : stage[r].status = "selected"},
    applied <- {n \in Notes : notes[n] = "applied"}
ImplementsAtomic == Atomic!Spec

\* A crash, a failed write or a rollback never leaves a manifest behind for
\* good: some later writer completes or undoes it.
RecoveryHappens == []<>(generations = <<>>)

\* Every checkpoint is consolidated in the end, unless it grows too old: a full
\* batch, a failed provider or a crash delays a row and never strands it.
RowsSettle == \A r \in Rows : []<>(stage[r].status # "pending" \/ stage[r].aged)

\* Pending stage-1 work always shows in the diff a consolidation starts from.
PendingWorkShows ==
    generations = <<>> /\ (\A w \in Writers : run[w].pc \in {"idle", "looked"}) =>
        \A batch \in Batches : batch # {} => ~NothingToDo(PlanFor(batch))
=============================================================================
