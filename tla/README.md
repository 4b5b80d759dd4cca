# A verification project for memcurio

memcurio gives coding agents a long-term memory. Hosts record what happens in
a session; a model extracts a *checkpoint* of it (phase 1); from time to time a
second model run consolidates the checkpoints into Markdown documents (phase
2). Several host processes work on the same store, each may die or be suspended
at any moment, and model calls take minutes. These TLA+ modules model the parts
of the program where that is hard, TLC checks them on small instances, and
TLAPS proves the main safety properties of the extraction queue, the workspace
writers, the file lock, the activity tokens, the migration, the collection of
stores, a session with its windows, its evidence and its end, ad-hoc notes, the
agent, the schedule, the settings page and the page of activity for every
instance.

## The system

Paths are relative to `src/src/` of the repository unless they start with `src/`.

| Component | State it keeps | Operations | What makes it correct | Here |
| --- | --- | --- | --- | --- |
| Extraction queue (`core/extract.ts`, `core/db.ts`) | table `extraction_jobs`; per worker: the claimed job, its fencing token, `leaseLost` | enqueue, claim, renew, complete, release, block, fail, revive, prune, purge | one outcome per job, bounded concurrency, attempts accounted for, nothing stranded, nothing back after a purge | `ExtractionQueue` |
| Opening a store (`core/db.ts`) | version, columns, indexes | create, migrate, repair | an opened store has what this program needs, whoever opened it before or opens it too | `Migration` |
| Stage-1 outputs (`core/db.ts`) | table `stage1_outputs` | upsert by rank and time, select, mark, recycle, purge | the newest, most final checkpoint wins | `ExtractionQueue`, `WorkspaceWriters`, `Handbook` |
| Consolidation (`core/consolidate.ts`) | lease row, plan, revisions of its inputs | plan, sync artifacts, ask the provider, commit | one writer, no stale result committed, a note that counts as applied is in the documents | `WorkspaceWriters` |
| The providers of phase 2 (`core/consolidate.ts`) | the loop of one run; MEMORY.md and the baseline | list, read, write, finish; ingest, prune, merge notes | only what was earned is committed; the handbook cites what it says | `AgentRun`, `Handbook` |
| Hard purge (`core/purge.ts`) | the lease | rebuild documents, delete rows, jobs and audit entries | nothing of the rollout comes back | `WorkspaceWriters`, `Handbook`, its queue side in `ExtractionQueue` |
| Generations (`core/generation.ts`) | manifests in `state/consolidation/`, meta `consolidation_generation` | prepare, apply, mark, discard, recover | all old or all new, recovered in the end | `WorkspaceWriters` |
| Ad-hoc notes (`core/adhoc.ts`) | note files and their rows | add, adopt, settle, offer, apply | an applied note was merged | `AdHocNotes`, `WorkspaceWriters` |
| Engine (`engine.ts`) | session evidence, timers, cooldown keys in meta | session events, drains, automatic consolidation, injection | evidence is what the conversation shows; work is retried and never starved | `Evidence`, `AutoSchedule`, `TextBudget`, `Retirement` |
| File locks (`core/transaction.ts`) | lock files | create, reclaim, release | mutual exclusion, no orphan | `FileLock` |
| Store metadata (`core/store-meta.ts`) | activity and swept tokens, failure marker, session leases | publish, settle, touch | a store with work is never taken for clean | `StoreActivity` |
| Store collection (`core/store-gc.ts`) | trash, tombstones | plan, quarantine, restore, purge | a living store is never lost | `StoreGC` |
| Workspace gate (`plugin/workspace-gate-meta.ts`, `workspace-policy.ts`) | the gate document | mark, read | nothing from an off period gets in | `SessionGate` |
| Plugin (`plugin/index.ts`) | session runtimes with lanes, epochs and an injection latch | events, steps, tools, retirement, sweeps | injected once per window; a session's end keeps its evidence | `SessionGate`, `Retirement`, `Evidence` |
| UI bridge and transport (`plugin/bridge.ts`, `plugin/ui-transport.ts`, `services/`, `src/client/ui`) | baselines, sequence, history, streams; the page's rows | refresh, snapshot, stream, replay, fold | a page never misses a delta unknowingly | `UiStream`, `Receipts` |
| Settings client (`src/client/settings`) | drafts, fences, a mirror of the document | edit, save, conflict, undo | no silent overwrite | `Settings` |
| Read path (`core/search.ts`, `core/read.ts`, `core/budget.ts`, `core/inject.ts`) | none but the usage counts | search, read, inject | the best hits, whole files, within the budget | `Recall`, `TextBudget` |
| Sanitising, paths, configuration, formats | none | pure functions | | not modelled |

Components meet in a few places. Session events and workers share the queue
table: every queue operation is one `BEGIN IMMEDIATE` transaction, so it is one
atomic step, and everything between two transactions (the model call above
all) interleaves. Workers, consolidation and purge share `stage1_outputs`:
workers upsert at any time, without the workspace lease. Consolidation and
purge share the documents: they exclude each other with a lease row that
expires, and leave a manifest behind for whoever comes after a crash. Sweeps,
sessions and the collector share a store directory, of which the token files
and leases are written without a lock. Inside the host, a session's events,
model steps and tool calls share a runtime through its two lanes. Host and page
share a numbered stream.

The behaviours that are hard: a lease that runs out under a model call; a
crash between two file writes, or in the middle of the recovery of an earlier
crash; inputs that change while a provider works on a snapshot of them;
checkpoints of a session that finish out of order; a purge of what others are
still working on; a store that revives while it is moved away; a switch turned
off and on between a call and its answer; a stream that breaks between a
snapshot and its first frame; a form saved over a document that has moved on.
`PROJECT.json` lists them as hazards at their lines.

## Modules

### `ExtractionQueue`

A job row keeps its status, attempts, the ticks until it is ready (`wait`) and
until its lease ends (`lease`), the run that holds its token, and the reason of
its last change. Time is relative: `Tick` moves all clocks by one. The claim
token is the worker run that holds it. A worker run goes through `opening`
(availability, blocking, unblocking), `claiming`, `extracting` (the provider
call) and `returned`; each of the following transactions is an action:

| Action | Code |
| --- | --- |
| `Enqueue` | `enqueueExtractionJob`, `INSERT OR IGNORE` on the idempotency key |
| `StartDrain`, `BlockProvider`, `UnblockProvider` | `processExtractionQueue` up to the claim |
| `Claim`, `ClaimNothing` | `extractionClaim`: cap, retirement of superseded rows, claim, all in one transaction |
| `ProviderReturns` | `provider.extract` settles with an output, nothing, an error, a policy rejection, an abort, or a missing route |
| `Commit`, `CommitPaused`, `CommitThrows` | the commit transaction with its fence, stage upsert, completion and retention |
| `Release`, `BlockClaim`, `Fail`, `GiveUp` | the ways a run ends without committing |
| `Renew` | the renewal timer |
| `RequeueDead`, `RequeuePolicyRejected`, `Purge`, `Pause`, `Resume`, `Configure`, `Unconfigure` | operators, hosts and users |
| `Crash`, `Stall` | a process dies, or is too slow to renew |

Abstractions: snapshots and replies are left out, `created` stands for both
`created_at` and `source_updated_at`; the order in which rows became ready is
remembered for `OrderWindow` ticks only, beyond that any order is allowed;
retention may prune any terminal row at any commit, which covers every setting
of days and limits; `requeuePolicyRejectedExtractions` writes its marker in the
step that revives. The activity token a drain settles is `StoreActivity`'s.

### `Migration`

Opening a store: `BASE` creates the tables that are missing, and `migrate`
brings an older store up to date, each statement a commit of its own, with
several processes at it at once. A store is its version number, the columns its two tables have, the
indexes, and for a job whether its worker is named. It starts at any version a
published program left behind, with or without the columns that a damaged
upgrade lost. A process may die between any two statements and open again.
Left out: the old tables that versions below 5 dropped, and a program of an older
version that is still running.

### `WorkspaceWriters` and `AtomicWorkspace`

A document is a set of facts: a version of a stage-1 row, a note or a line of
the user. Four files are enough: MEMORY.md (`memory`), the raw projection
(`raw`) and their baselines. `generations` are the manifests on disk. A writer
acquires the lease, recovers what it finds file by file, and then consolidates
(`Look`, `PlanAndSync`, `Ask`, `ProviderReturns`, `Check`, `Prepare`,
`ApplyTarget`..., `Commit`, `Mark`, `Discard`, `Release`) or purges
(`PreparePurge`, `ApplyTarget`..., `CommitPurge`, `Mark`, `Discard`,
`Release`). It may throw, be abandoned, be suspended or crash on the way.
Without the lease, rows are upserted, age and are recycled, notes arrive, and
the user edits MEMORY.md. A provider consumes any subset of the plan's notes and
must have written those; of the rows that the diff adds it takes up any subset,
also none, and of what memory said before it may drop what it will
(`Results`): a model edits what it sees fit, and the rule provider passes over
blocks that it cannot read or place. The commit marks every row of its plan
selected all the same (`core/consolidate.ts:2053`), so that *selected* means that
the row is in the projection a provider was shown, and not that memory says
anything of it. That holds of consolidations only: after a failed sync a purge of
another row may take a fresh version into the baseline, and the next run marks
it selected although no provider saw the difference (`pending_work`).

`View` is the content of the files as the next recovery would leave them. Seen
through it, the detailed specification implements `AtomicWorkspace`, in which
documents, baseline and what SQLite records as integrated change in one step. Its
`Rewrite` promises what the code does: a row that becomes selected is in the
projection that counts as seen from then on, and a note that becomes applied is
in memory.

Abstractions: every fact is a block of its own (blocks that cite several
rollouts are `Handbook`'s); rollout summaries, skills, extension resources and
export files are left out; a note is not edited in place (`AdHocNotes` does
that); the store starts consolidated and empty; the 200-row cap of
`stagePruneRetention` is left out; a generation id is used again once nothing
names it. Recovery's own I/O succeeds unless `MaxSkips` allows a failure, in
which case the manifest is skipped as in the code; the second attempt the outer
error handler makes is left out, as it does what the first did. A writer is
suspended long enough to lose its lease only at the awaits in `SuspendedAt`, in
all runs the provider call: the other awaits take milliseconds against a lease
of fifteen minutes. A user's edit in the moment between the comparison of
revisions and the replacement of MEMORY.md is overwritten in the code and in
the model, and no property claims otherwise.

### `FileLock`

`withFileLock`, one file operation a step. A lock file is its identity, its
owner and the life of the process that wrote it. A call tries to link the file
(`TryCreateLock`), judges the one it finds (`Judge`), and removes a stale one,
or its own at the end (`ReleaseLock`), by renaming it to a private name
(`MoveAside`) and comparing what it moved with what it judged (`VerifyMoved`):
something else is linked back unless the path was taken meanwhile. Processes
die, come back under the same id, and are suspended inside a section until
their file counts as too old. Left out: the 20-second time-out of a waiting
call (the call is simply made again) and re-entrance, which is an error.

### `StoreActivity`

The tokens by which a dormant store is noticed. A token matters only by
comparison, so it is *current* or *stale*; a file may be absent or torn as
well. Enqueueing is four steps (commit, truncate, write, or fail and mark),
a drain reads the token, takes jobs one after the other and settles at the end.
`lapse` is history: how a publication was lost, if one was.

### `StoreGC`

One store directory, two trash entries, a tombstone, the lifecycle lock, a
collector and a session that adopts the workspace. A collector inspects
(`Plan`, `Inspect`), makes a trash entry and a tombstone, renames, looks again
at what it moved and rolls back when it is alive. The session restores the
newest copy before it opens the store, takes a lease at its next write, and
commits jobs whose token follows later. A restore may fail: the lock is not had
in time (`LockTimesOut`), the copy does not look intact or is not moved
(`RestoreFails`), or what follows the move fails (`FinishFails`). The session goes
on without it and creates a store of its own, `failed` remembers that, and
`forgotten` marks the copies that are there when such an error takes the tombstone
because the tombstone's own entry is gone. A piece of memory is in the store or in
an entry; `Digest` turns jobs into rows and documents. Days pass only while
nobody is between two steps. Copying between file systems, the audit log and
the report are left out.

### `SessionGate`

One session in the host: its log, the policy with default and override, the
gate document, the runtime with its event lane and epoch, one model step and
one tool call. Every handler first looks at the policy again (`Synced`);
switching off opens a new epoch that voids the tasks queued before. After a
restart the log is replayed unless the document says that memory was ever off,
or cannot be read. The marks in that document are kept as well as they can be: one
may not be written (`Loses`), or may be pushed out by those of other workspaces
(`MarkDropped`), and the log of an adoption that finds no mark any more is replayed
with what was said while memory was off; `bare` remembers how far. Tasks of the
lane run one at a time and may fail. There is one model step at a time.

### `Retirement`

`retireSession`: the last checkpoint on the event lane, then the drain on the
worker lane, which disposes the adapter; both may fail, the retirement is
retried from a timer and by the plugin's unload, and the session may be opened
again meanwhile. A session is created by the first task of its lane, which
replays the log (`Create`, `CreateFails`); one that is disposed before that task
ran is forgotten without a checkpoint (`TooEarly`), with what waited on its lane.
The next adoption replays the log, and `owed`, the messages that must end in a
checkpoint, has them again from then on.

### `AutoSchedule`

`maybeConsolidate` over a day in hours: cooldown, backoffs, urgent notes, the
hourly gate of notes that were not consumed, one entry per process that is
forgotten after its time to live while the run goes on, and the lease in the
database that runs of several processes race for. `usable` says whether the
host's model can call tools; without it the rule provider merges only
`Remembers`.

### `Evidence`

What the engine remembers of one session and what a checkpoint carries. The
host's log survives; the engine's lists are built from live events
(`Handle`) or by replaying the log (`Rebuild`), two different pieces of code.
Compactions and prunes shadow messages. `ItemLimit` and `PartsLimit` bound the
two lists. `Key` is the idempotency key of a checkpoint: its content without
its date.

### `AdHocNotes`

A note is a file and a row. Sessions add notes (file, then row); a
consolidation lists rows, reads files, settles rows whose file is gone, adopts
files that have no row, offers what changed, and marks by filename what its
provider consumed, with the text that was offered. The user edits, moves and removes
files at any time.

### `AgentRun`

The loop of the model provider. A reply is a sequence of at most `CallCap`
calls; every rule of the run is a check on one call: what may be written, how
much may be read, when `finish` is accepted, what happens to a reply without
calls, to a request over the ceiling and to a timer that fires. The texts are
those the later checks tell apart (cited or not, the four kinds of summary).
`CommitRun` is what `runConsolidation` makes of the answer.

### `Handbook`

How MEMORY.md is made without a model. The projection is a sequence of blocks,
its diff a greedy walk over their lines, and what the walk calls added is read
line by line into blocks (`ReadLine`), ingested, pruned by citation and
completed with notes. Runs that fail after they wrote the projection, pages
that turn because more rows are there than fit, rows that age and purges move
the baseline between two diffs. Leases and crashes are left to
`WorkspaceWriters`: a run is one step here. Lines that never matter to a step
are merged; a text line stands for the body of a block.

### `UiStream` and `Receipts`

`UiStream` is one page and the streams of two stores: the bridge numbers
batches, keeps a bounded history and pushes frames, which arrive in the order of
their numbers on each stream; the page reads a snapshot,
connects after its cursor, folds frames, polls without a stream, retries, and
switches to another session. Requests and streams may break, and memory may be
switched off, which withholds frames. `Receipts` has the content of the stream:
SQLite's rowids (one above the highest), pruning and purges of the audit table,
refreshes that read it in pages and then the queue, and the page's lists of
receipts and jobs. What is kept of a list (`Kept`) is in `Subsequences`, which
`Evidence` uses as well.

### `Settings`

The staged form, the injection switch and the workspace switch write one
document through one controller, which allows one write at a time and gives up
waiting after a deadline while the write may still land. The mirror follows the
document; another editor writes it too. History variables remember what the
user had last edited against.

### `TextBudget` and `Recall`

Pure functions, run on every input of a small size. `TextBudget` has the fitting
of injected lines and the cutting of a summary, with costs in quarters of a
token as the code counts them and notices that grow with their number; the
logarithm, the formats and the texts are left out. `Recall` has the search (a
line is the counts of its words, whether it is safe, what it cites and costs),
the paged read and the counting of uses (of which no property speaks: the set is
computed from the hits of the same call). The inverse document frequency is an
operator that falls with the frequency, the code's logarithm among them. Scan
and query limits (32 MiB, 32 words) are left out.

### Sums: `MCProgress` and `MCSafety`

The parts around the queue and the writers share no state with each other at
the grain at which they are modelled, so two modules check them side by side:
each behaviour chooses a part at the start and the variables of the other parts
keep their first values. `MCProgress` holds `FileLock`, `StoreActivity`,
`Retirement` and `AutoSchedule`, whose liveness matters, and states the fairness
of the part that runs. `MCSafety` holds twelve parts without fairness. Its `VIEW` is the part
and the variables of that part: it only leaves out values that cannot change,
and is sound because no property reads the variables of two parts.

## Runs

| Run | Instance | Shows |
| --- | --- | --- |
| `queue` | 2 workers, 1 provider, 2 checkpoints of a session (idle, then final), 3 enqueues, cap 1, budget 2, 2 disturbances | the safety properties of the queue: capped claims, one outcome per job, the attempt ledger, the stage row never behind, a retired row has an heir, purges are final, terminal rows stay so |
| `queue_live` | the same with 2 enqueues, 1 disturbance | every job settles |
| `dead_fallback` | violation | a retired checkpoint whose heir dies is not available as fallback |
| `attempt_budget` | violation | crashes let a job be attempted more often than its budget |
| `writers` | 2 writers, 1 row with 2 versions, 1 note that a provider may drop again, a purge, 2 faults | one writer, all old or all new, a note that counts as applied is in the documents until a later answer leaves it out, purged rows stay gone, and the refinement of `AtomicWorkspace` |
| `writers_live` | 2 rows, batches of one, 1 edit, 1 fault, 1 failed recovery | no row stays pending for ever, and every manifest is dealt with in the end |
| `skipped_recovery` | violation | a skipped recovery mixes old and new for good |
| `pending_work` | violation | pending work that shows in no diff |
| `progress` | `MCProgress`, four parts | exclusion at a lock file and the end of orphans; a store that owes work shows it and is drained; a session's end keeps its evidence and ends; consolidation is neither hot nor forgetful of notes |
| `safety` | `MCSafety`, twelve parts | nothing of a store is lost to its collector; nothing of an off window is captured or injected; a page is true and complete; a save is honest; evidence is the conversation's surface; acknowledged notes were merged; commits are earned; receipts arrive; search and reading are what they say; a store that was opened is migrated; the handbook cites what it says |
| `retry_keeps_all` | violation | a retirement that is retried ends as a success without the last checkpoint |
| `refused_not_overwritten` | violation | a draft that was refused overwrites, unrefused, after it was typed back |

Every property of a passing run has a mutant of the code model that breaks it
under the bounds of its run (`PROJECT.json`, `mutants`).

### Bounds

* *Queue.* Two workers are what a fence, a lease and a cap need to go wrong; a
  third enqueue lets a purged or pruned key come back; two disturbances let a
  lease be lost and the row then be purged, revived or lost again. Lease 2 and
  delays of 1 are the shortest with which every order of expiry, retry and
  renewal occurs.
* *Writers.* The second fault hits the recovery of the first, or a second
  writer after the first was suspended; the second version of a row arrives
  before, during or after a run that integrates the first. Of what memory says a
  provider may drop the lines in `Droppable`, the note's: dropping what a row or the
  user left there is in no property's way. Writers and generation ids are
  symmetric: any id that nothing names is as good as another. `writers_live` has
  nothing that is dropped, no purge and no second version: its questions are a crash, a failed recovery
  and an edit between batches.
* *`FileLock`.* One lock, three processes (`Procs`), of which one may die or be
  suspended once (`Faulty`, `MaxLockFaults`): a holder, a call that judges its
  file stale, and a third that takes the path while the file is moved aside.
* *`StoreActivity`.* Two hosts, two jobs and one fault (`MaxJobs`,
  `MaxActFaults`): an enqueue inside the other host's drain, with a crash or a
  failed write at any of its steps.
* *`Retirement`, `AutoSchedule`.* `MaxSaid` = `MaxCloses` = 2: something is said
  after the last checkpoint and before the next, and a session is closed before
  its first task has run and opened again; `RetireMax` is 2 attempts
  for the code's 3. Two runs in two processes, a cooldown of 2 and a backoff of
  1 hour, and an entry that is forgotten while its run goes on.
* *`StoreGC`.* One collector, one session, one item of memory, two trash copies
  (a store is moved, comes back and is moved again), one fault, which may be a
  restore that fails. The copies that an error makes forgotten need three faults
  and two sessions (an error, a purge that dies, a restore that fails); that is
  for the theorem.
* *`SessionGate`.* `MaxLog` 3, `MaxFlips` 2, `MaxRestarts` 1, `MaxLostMarks` 1: off,
  on, and a restart that must tell the two windows apart, with the mark or
  without it.
* *`UiStream`, `Receipts`.* Two stores, a history of one batch, two rows, three
  reads, one fault; limits of 1 to 3, so that every list overflows; three audit
  rows, pruned or purged, so that a rowid is used again; two snapshots and
  changes of the queue together (`MaxMoves`), so that a second snapshot is late,
  overtaken or reaches less far back than the first.
* *`Migration`.* Two processes that open one store, found at version 1, 5 to 11 or
  with columns lost at 10 or 11; one stage row, one job of the own worker and one
  of another.
* *`Settings`.* Two form fields and two switches, one external write, two
  presses, two edits, one failed or late write.
* *`Evidence`.* Limits of 2 and four events, one restart: the lists overflow,
  are compacted and are rebuilt.
* *`AdHocNotes`, `AgentRun`, `Handbook`.* One note from a session and one by
  hand, two texts, two hand edits, one fault, two runs; three replies of at
  most two calls with a read budget below two pages; three rollouts, two topics
  of which one is a prefix of the other, pages of two blocks, three
  projections.
* *`TextBudget`, `Recall`.* All texts of up to 6 characters and 3 lines with
  budgets up to 7; two words, four sentences, three files with a cap of two
  hits each and a file longer than its cap.

`MaxVersion`, `MaxEdits`, `MaxReopens`, `MaxHandEdits`, `MaxStaged` and the like
are guards of the actions they count. Times are small integers in the order of
the code's values.

### Fairness

`queue_live`: drains keep starting (the sweep, wake timers and host events call
`processPendingExtractions`), a provider call ends (it has a hard cap), a
settled run reaches its transaction, the renewal timer and the clock run. Weak
fairness each. Nothing obliges a crash, a revival or a resume: the property
assumes instead that the workspace stays enabled and the provider configured
from some point on. `writers_live`: consolidations keep being started by sweeps
and session ends, a writer that is not dead takes its next step, provider calls
end (they have a run budget), and an abandoned lease expires. Weak fairness
each; crashes are bounded by `MaxFaults`.

`progress`: a lock call that is under way goes on, a process that died is
started again, and a file that nobody touches becomes old; a publication and a
drain take their next step, sweeps start drains, and retry times pass; the
tasks of a lane are promises that settle, the timers of a retirement are the
host's; a run settles within its budget, users go on ending turns, and hours
pass. Weak fairness each. `safety` and the violation runs of safety state no
fairness.

### Disagreements with what the repository says

With a run:

* `core/db.ts:740-741`: "a dead-lettered attempt leaves the older checkpoint
  claimable as fallback". The older one is retired while the newer is alive; if
  the newer dies later, the older stays retired (`dead_fallback`).
* `core/db.ts:904-907`: "reaching maxAttempts moves the job to dead-letter".
  Only a *reported* failure does; a claim that is lost to a crash or an expired
  lease is claimed again without a look at the budget (`attempt_budget`).
* `src/docs/README.en.md:21`: consolidation is "all-old-or-all-new and
  crash-recoverable". Not when a recovery fails and is skipped: the next
  generation is built over the mixed files (`skipped_recovery`).
* `core/consolidate.ts:1933-1935`: "Pending stage-1 work always produces a
  raw_memories.md diff". After a failed consolidation, a purge of another row
  writes the pending row's block into the baseline; the row then stays pending
  without a diff until something else changes (`pending_work`).
* `plugin/index.ts:2126-2129`: "a transient DB failure (e.g. SQLite busy) should
  not orphan the session's evidence forever", which is why a retirement is
  retried. When the first attempt's checkpoint fails, its drain still disposes
  the adapter; `sessionEnded` of the retry then returns at once
  (`engine.ts:905`), and the retry succeeds without a checkpoint
  (`retry_keeps_all`).
* `src/client/settings/controller.ts:371-373`: the form "passes it back as the
  write fence, so a concurrent editor is refused instead of silently
  overwritten". A draft typed back to what is shown loses its fence and stays in
  the form (`draft.ts:389`, `460`); a value written elsewhere afterwards is
  overwritten by the next save (`refused_not_overwritten`).

Met while modelling; the models show or allow them, and no property claims
otherwise:

* *Store metadata.* A drain that leaves jobs behind but read a token equal to
  the swept one settles the store as clean (`core/store-meta.ts:354-355`); the
  retry time keeps it from being forgotten.
* *Store collection.* A restore that fails leaves the tombstone, "so a later
  adoption can retry" (`core/store-gc.ts:849-851`), but the session goes on and
  creates a store at the path at once (`engine.ts:384`), so that every later
  adoption meets a conflict and the copy has to be moved by hand. With two copies
  in the trash, of which the newer was purged by a process that died before it
  removed the tombstone, an error of the older one's restore takes the tombstone,
  and later sessions start empty beside it. `NeverStartsEmpty` exempts both by
  name.
* *Sessions.* A session that is disposed before its first task ran loses what
  waits on its lane until its log is replayed (`plugin/index.ts:2029`). A mark of
  the gate is best effort (`plugin/workspace-gate-meta.ts:200-202`), and of more
  than `MAX_KEYS` the oldest go (187-192): an adoption that finds none replays what
  was said while memory was off. A live compaction that settles before a replay back-fills
  conversation of an off period as a summary, against the comment at
  `plugin/index.ts:1737-1740`. A step does not look at the epoch again after
  its awaits. A session whose creation failed has no capture until the next
  event. A session that is reopened while its retirement drains has its
  messages ignored until then.
* *Evidence.* With 256 tool items between two checkpoints the messages are
  crowded out (`plugin/index.ts:483-486`). Replay registers uses of memory that
  were counted before (`src/docs/operations.md:149`).
* *Scheduling.* A note is stamped before a run's success but inserted after a
  wait of up to the cooldown. The error "consolidation paused" arms the backoff
  for failures.
* *Agent run.* A diff counts as read although the read budget was spent or the
  offset was past its end, so `finish` is accepted blind
  (`core/consolidate.ts:1226-1229`). A `write_file` that follows `finish` in the
  same reply is carried out, but the notes are judged before it. A bad edit of
  the summary wipes a valid one (1991-2016); an edit of its version line to a
  padded "` v1`" rejects the run. Pruned extension resources are deleted before
  the provider runs and are announced in that run's prompt only (1954-1962).
* *Notes.* Listing and adopting race, so that a file may have two rows;
  consumption by file name settles both, against `core/consolidate.ts:625-626`.
  A crash between the file and the row of a "forget" note has it adopted as
  "remember". A settled row is not offered again when its file is restored
  with the same text; an applied note that is emptied is offered with an empty
  text.
* *Handbook.* (1) A rollout that is extracted again, and whose page now starts
  with another key, loses its header in the greedy diff: its lines land in a
  neighbour's block under the wrong citation (`core/consolidate.ts:778-885`,
  `core/workspace.ts:163-243`, against the comment at 658-661), and a later
  purge leaves its text. (2) `memory.includes(groupHeader)` matches a longer
  topic or an escaped quotation; `appendToGroup` then drops the block or the
  note, which is marked selected all the same. (3) A replaced row that shares
  lines with its old version leaves a fragment without a header, which is
  dropped. (4) After a failed run, a purge of another row advances the
  baseline, so that the citation of an aged row dangles for good (against
  916-918, which removes such lines because "leaving them would leave dangling
  references that brick the next LLM consolidation", and that is what then
  happens; the root is that of `pending_work`, the run of which is its
  counterexample). (5) A bullet that names any
  `.md` file counts as a citation and keeps a purged block. (6) A purge keeps
  text in blocks that cite several rollouts, as documented. `HandbookIsCited`
  is stated with these exceptions by name, and not wider.
* *Workspace.* A row counts as selected once a provider was shown it, whatever the
  provider wrote; after a failed sync and a purge of another row, a fresh version
  counts so although none was shown it.
* *Budget.* `fitContext` rounds each line up and does not count the line ends;
  its notice may report too few omitted lines after the third fit
  (`core/budget.ts:87-92`).
* *Reading.* A line that occurs in several files is credited to the first one
  scanned, and is lost when that file is at its cap (`core/search.ts:205-231`).
  A page that is refused returns no `nextLineOffset`, so that the rest of the
  file is out of reach (`core/read.ts:234-241`). The numeric cursor of
  `listMemory` skips or repeats entries when the directory changes (118-127).
  A `grep` flag whose value is a separate word has its pattern counted as a
  path.
* *UI.* A snapshot that is read again after `snapshot-ready` is dropped when a
  newer frame was folded meanwhile (`src/client/ui/transport.ts:131`); a first
  connection after 0 replays the history and repeats its toasts. After a purge
  of the tail of the audit table its rowids are used again, and the purge's own
  receipt may not be shown. Jobs that vanish are shown as completed
  (`src/docs/ui.md:231`). Rows that precede the first refresh are swallowed by
  seeding. The first injection after a page load is flagged as a duplicate
  (`src/docs/ui.md:257`, but `src/tests/client-ui-core.test.ts:312`). A session
  that registers again keeps its place in the map, so that an active old
  binding is evicted first at 10 000 (`plugin/bridge.ts:196-205`). Frames that
  are withheld while memory is off are not sent later.
* *Settings.* After its deadline a write is reported as failed and may still
  land.

## Proofs

Every theorem is of the form `Spec => []P` or `Spec => [][A]_vars`, for all
values of the constants that the named assumptions of the module allow. Each
rests on one inductive invariant of its component; what it states is checked by
TLC on an instance as well. The invariant is a theorem by temporal induction,
with one lemma for every action, and the properties follow from it. A proof
module holds the components that belong together; where it holds several, the
table names the one each theorem is about.

| Module | Theorem | States | Assumes |
| --- | --- | --- | --- |
| `ExtractionQueue_proofs` | `TypeCorrect` | `TypeOK` | the constants' types |
| | `CapHolds` | `RunningCap` | |
| | `TerminalHolds` | `TerminalIsFinal` | |
| | `LandsOnceHolds` | `LandsOnce` | |
| | `LedgerHolds` | `AttemptLedger` | |
| | `PurgeHolds` | `PurgeIsFinal` | |
| | `StageHolds` | `StageNeverBehind` | |
| | `HeirHolds` | `RetiredHasHeir` | |
| `WorkspaceWriters_proofs` | `WriterTypeCorrect` | `TypeOK` | `PlansAwake` |
| | `OneWriterHolds` | `OneWriter` | `PlansAwake` |
| `WorkspaceViews_proofs` | `AllOldOrAllNewUnlessSkipped` | `AllOldOrAllNew` up to the first skipped recovery | `PlansAwake` |
| | `AllOldOrAllNewHolds` | `AllOldOrAllNew` | `PlansAwake`, `MaxSkips = 0` |
| `WorkspaceContents_proofs` | `ConsumedHolds` | `ConsumedIsWritten` | `PlansAwake`, `MaxSkips = 0` |
| | `PurgedHolds` | `PurgedStaysGone` | `PlansAwake`, `MaxSkips = 0` |
| | `WritersImplementAtomic` | `ImplementsAtomic` | `PlansAwake`, `MaxSkips = 0` |
| `Progress_proofs` | `LockTypeCorrect` | `LockTypeOK` | lock ids are positive |
| (`FileLock`) | `ExclusionHolds` | `LockExclusion` | |
| (`StoreActivity`) | `ActTypeCorrect` | `ActTypeOK` | the constants' types |
| | `PendingShows` | `PendingShowsInToken` | |
| (`Retirement`) | `RetTypeCorrect` | `RetTypeOK` | the constants' types |
| | `CleanEndHolds` | `CleanEndKeepsAll` | |
| (`AutoSchedule`) | `SchedTypeCorrect` | `SchedTypeOK` | the constants' types; finitely many runs |
| | `NoHotLoopHolds` | `NoHotLoop` | |
| `Stores_proofs` | `MigTypeCorrect` | `MigTypeOK` | |
| (`Migration`) | `OpenedHolds` | `OpenedIsMigrated` | |
| (`StoreGC`) | `GcTypeCorrect` | `GcTypeOK` | entries are numbered from 1, and finitely many; collectors and sessions are different processes |
| | `StoresAreKeptHolds` | `StoresAreKept` | |
| | `NeverStartsEmptyHolds` | `NeverStartsEmpty` | |
| `Session_proofs` | `GateTypeCorrect` | `GateTypeOK` | the constants' types |
| (`SessionGate`) | `WindowsAreKeptHolds` | `WindowsAreKept` | |
| (`AdHocNotes`) | `NotesTypeCorrect` | `NotesTypeOK` | the constants' types |
| | `AppliedIsMergedHolds` | `AppliedIsMerged` | |
| (`AgentRun`) | `AgentTypeCorrect` | `AgentTypeOK` | the constants' types |
| | `CommitIsEarnedHolds` | `CommitIsEarned` | |
| (`Evidence`) | `NothingNewNothingQueuedHolds` | `NothingNewNothingQueued` | the constants' types |
| | `EvidenceIsTheSurfaceHolds` | `EvidenceIsTheSurface` | |
| (`Receipts`) | `ReceiptsArriveHolds` | `ReceiptsArrive` | the constants' types |
| | `QueueIsFoldedHolds` | `QueueIsFolded`, of `ReceiptsArrive` | |
| `Client_proofs` | `SettingsTypeCorrect` | `SettingsTypeOK` | the constants' types |
| (`Settings`) | `SavesAreHonestHolds` | `SavesAreHonest` | |
| (`UiStream`) | `UiTypeCorrect` | `UiTypeOK` | the constants' types; a page may read once at least |
| | `PageIsTrueHolds` | `PageIsTrue` | |
| | `FramesArriveHolds` | `FramesArrive` | |
| (`Recall`) | `PagesAreTheFileHolds` | `PagesAreTheFile`, of `ReadPathIsRight` | the constants' types |

*The queue.* The invariant ties the two ends of a claim together: a run whose
token a row carries is a run that claimed this row and has not settled, and no
row carries a token that no run has. From it, the transactions at the end of a
run either own the row or change nothing, which is `LandsOnce` and
`TerminalIsFinal`; the cap counts only unexpired claims, so a renewal that
comes late must find the row still its own. The ledger adds that the attempts
of a row are the failures and losses recorded so far, plus one while a claim is
out. `StageNeverBehind` needs that a stage row is at least as new as what any
completed job brought, and that a run that is still out carries what its job
was created with. `RetiredHasHeir` needs a chain argument: the newest job of a
session is never retired, found by the least-number principle.

*The writers.* `WriterInv` says that at every place but the provider's call and
its return a writer holds the lease and the lease has not run out (`Held`), and
that a manifest it works on is there (`Founded`). No step of another writer can
then touch the manifests or take the lease, which is the single lemma
`WriterStep` that every action's lemma ends in. `Check` is the step that
matters: it enters the held region from outside, and only as the lease's owner.
`PlansAwake` is the hypothesis that no writer is suspended past its lease
between its first look at the table and its first manifest: there the code does
not look at the lease again, and without the hypothesis `OneWriter` is false
(the hazard at `core/consolidate.ts:577`). Suspensions at the provider call and
at its return are allowed.

*The workspace through recovery.* `Tidy` says that there is one manifest at
most; that a file it changes and that has not been reached has its old side and
one that has been reached the side that wins, a user's own lines apart
(`Follows`); and that the side that wins agrees with what SQLite committed last.
A step then either replaces a file by what wins anyway, lets the other side win
in the same step as it commits it (`Transacts`), or drops a manifest whose files
are in place (`Landed`). This fails as soon as a recovery is skipped: the next
writer puts a second manifest on top of the first. So the invariant is
`skips = 0 => Tidy`, the theorems hold of every behaviour up to the first skip,
and for good where `MaxSkips = 0`; run `skipped_recovery` shows what happens
after one.

*What the documents contain.* `Honest` adds what SQLite acknowledges to what the
files say: the committed memory has every applied note but those that an answer
has left out (`Keeps`). An answer has the notes it reports, and of the others
those it was shown and did not leave out (`ResultKeeps`); it counts only if `Check`
finds what the provider was given unchanged, so it is compared with the
committed memory (`AnswerMerges`), and one that changes nothing lets the user's
edits made since stand (`MergesMore`). Of rows `Honest` says that the rows a plan is
going to mark selected are those of its projection (`PlanOK`), which is the baseline
after the commit. For purges `Honest` says that no
file, no side that may win, no plan of a lease holder and no accepted answer has
anything of a purged row, and that such a row is absent until a new checkpoint
brings it back.

*The refinement.* A publication, a file that is replaced, a crash or a move of a
writer leaves `View` as it was and is a `Renew` of `AtomicWorkspace` that renews
nothing; a manifest that goes may let lines of the user show and is an `Edit`;
marking a refresh of `raw` is a `Sync`; the two transactions are the `Rewrite`,
whose conditions on what is newly acknowledged are `PlanOK` and `Merges`.

*Locks.* The invariant says of every lock file where it is (at the path or in
one private place) and of every process what it believes of the file it judged:
a file that was judged stale belonged to a dead process or to one that is
suspended past its time, and what is moved aside and not judged is put back or
its owner is no longer inside. Two processes inside would both have their file
at the path.

*Tokens.* A publication is out when the token file or the failure marker tells
it. The invariant adds that the number of jobs waiting never exceeds those
enqueued, which gives types to the counters, and that a drain that settles
clean read a token that no publication has followed.

*Migration.* The invariant says for each place of an opener what the statements
before it have put into the store, and that no statement takes anything away;
a column that only an undone repair would add is there unless the store was
found without it and its repairer died, which is why `OpenedIsMigrated` speaks
of the opener that found the damage.

*The collection of stores.* A trash entry belongs to the collector that made it,
and to no other (`Entries`); whoever holds the lifecycle lock between two moves
finds the entry made and still empty, and the store at the path (`Guarded`); a
full entry holds a store and is marked dead as its collector knows it to be
(`MovedStores`). These are needed because a collector that moves or rolls back
acts on what it remembers. Most steps, of sessions, of the world and of
collectors, are *calm*: the store at the path stays one, an item changes only
where it is in it, a copy keeps its state or is dropped when nothing lives in
it, and a collector that leaves its entry leaves no work there. The lemma
`CalmKeeps` says once that a calm step keeps the invariant; the move to the
trash (`MoveStoreKeeps`) and the way back, by a rollback or by a restore
(`BroughtBack`), are proved on their own. That the newest copy exists
(`NewestIsOne`) is where the entries must be finitely many.

`NeverStartsEmpty` needs the order of the entries as well (`OrderIInv`). The entry
that is about to be filled is the newest of all and the tombstone points at it,
so no full entry is newer than the tombstone; a full entry is never younger than
a newer one, so that a purge that takes the tombstone's entry takes every older
one but those that have lost their path; and what is newer than the copy a
session found came while it was adopting, too late to be purged under it. From
the first two, a session that finds neither a store nor a tombstone finds
nothing in the trash that it should bring back: what is full there has been given
up, for it met a store at its path, did not look intact, or lost its tombstone to
the error of a restore (`GivenUp`). A copy that a session found is dealt with once
the session goes on without an error of its own (`Dealt`); an error leaves every
copy where it was, so that what it forgets is all there is to say of it
(`FailureOrder`).

*The end of a session.* While nothing has failed, every message that is owed and
in no checkpoint is with the adapter, or is in the log that the session's first
task is going to replay (`InHand`), or is a task of the lane, and once a retirement
is under way it is known or ahead of the retirement's own checkpoint (`RetClean`).
The task that creates the session is the first of its lane, and a session that
goes on has it there until it is created (`CreatesFirst`, `Lives`); a retirement
that comes before it owes nothing. The order of the lane is all that this rests on: a message that
comes later is not owed to a session that is retiring. After a failure nothing
of the kind is claimed, and nothing of the kind holds (run `retry_keeps_all`).

*The schedule.* `NoHotLoop` counts runs that ended, which is not inductive: a run
that has passed the gate will still end. `Counted` counts those past the gate as
well, and says that while the gate is open a whole round of runs is still to
come. A success or a failure closes the gate in the same step in which it is
counted; a note and an hour open it, and raise the bound by a round or reset
the count.

*The windows of a session.* `KeptAt` is an invariant of a log, a runtime, a step,
a call and a gate document taken one by one, because a handler changes them one
after the other and is followed that way. `EvidenceAt` says that a gate document
without a mark, of which none was lost (`Shown`), means memory was never off; a
replay seeds only then, or what it seeds is counted in `bare`. `LaneAt`
says that a replay is the first task of its runtime, so that no step gets past
it, and that one task at most will create the session. `LatchAt` is the reason
for `OncePerWindow`: when the memory is in the window that goes on, the latch is
set, or a replay has yet to come to it, or the session is not created and will
not be. `StepAt` and `ToolAt` carry what a step and a call saw when they last
looked.

*Ad-hoc notes.* A row is known by its id and its file; what a run lists and what
it offers stand for rows that are there (`Planned`), and a file it will adopt has
no row that was adopted before (`Unadopted`). `AppliedIsMerged` is inductive
together with these: a commit marks rows by the names of files, and without
`Planned` it could reach a row that nothing was offered of.

*The agent.* `Earned` says what each place of the run has behind it: a reply is
worked off only while the timer has not fired, a finished loop has read the
change list, a claim that was accepted has an edit of MEMORY.md, and neither an
edit nor a reading is taken back by a later call. The bytes shown are the bytes
counted, which bounds them by the budget.

*The evidence of a session.* An engine that was rebuilt must hold what one that
lived on holds. `EvIInv` says that there are functions of the log (`History`)
that give the tools, the parts and the open compactions after so many of its
events; whatever engine is open holds their values at the place it has come to,
they do not change over turns, and the queue has the key of every turn that was
checkpointed. A turn with nothing new has the same key. `History` is
existentially quantified: it is extended by each event and never computed.

`EvidenceIsTheSurface` says the same of the log without those functions, so the
functions are shown to be what the log says, by induction over its places: the
tools are the last of what is listed up to a place (`ToolsAreListed`), no part is
shadowed by an event up to it, and a message that is missing is shadowed or
older than the newest `PartsLimit` (`PartsAreMessages`). For that a compaction
must be open exactly until its end (`SettlingIs`), which needs that an end is of
an earlier summary and of no other end's (`EndsFit`). `ReadsCounted` compares the
count in SQLite with the reads up to the engine's place: the replay may count
once more what was counted live, so it is bounded from below only.

*Receipts.* `Pending` is what a page may yet be told: what is on the wire, what
the refresh under way holds, and the writes above the baseline. `Ordered` says
that what was told is in the order of the table, without a repetition, and all
of it older than what is held and than what is above the baseline; `Complete`
that a write at or below the baseline was told, is held or was missed. A row
that gets the number of a deleted one counts as missed in the step in which it
is written. `Shown` says of the page's list (`ViewGood`) that an id in it is
pending, was missed or is older than all that is pending, that it falls but for
such ids, and that every known write that is not pending is in it or stands
behind a full list of newer ones. It must be said while deltas are still on
their way, as a snapshot may bring a receipt before its delta does. A snapshot
on its way lacks nothing that was known but what is in batches after its label
(`ShotGood`): it was labelled before its rows were read, and it is dropped when
one of those batches was applied. What is left is about lists that are cut at a
limit and put together one id at a time (`OnTop`, `ShownAfter`). Jobs need only
`FoldIInv`: a first refresh has seen no queue that it could compare with, so that
what it does not tell is not held back.

The proof found that `ReceiptsAreCurrent`, as first stated, claimed too much: it
held because the page read only one snapshot. The limit of a snapshot counts
audit rows and not receipts, so a second one may lack a write that the page was
told before, and the page then drops it although its list has room. Hence the
property speaks of rows as far back as the last snapshot went (`past.reach`), and
the run has a second snapshot.

*Reading.* Pages need that the reader's place and what it got agree, and that what fits is a prefix of the page
whose length moves the place by as much.

*The settings page.* A write of the form is fenced by a revision, and
`CallsFenced` says of every field it writes that the other editor wrote nothing
to it that the user has not seen, or wrote it above the fence, which the
document then refuses. To carry a fence over a rebase the proof needs
`Answered`: the revision after the fence of a write that landed is its own.
`OneWaits` and `Drafted` say that the page waits for one write, whose values are
the draft that is still there; hence a draft goes only when the document has it.
`FormFenced` leaves out a draft typed back to what is shown, as the code does
(run `refused_not_overwritten`).

*What a page shows.* `UiIInv` says that frames carry rows of one store, that a
stream of the page is of its session, and that a snapshot that is built has the
rows of all frames up to its version and what the page folded up to there
(`ReadAt`). A late snapshot and a foreign frame then do no harm. For
`FramesArrive` there must be a number for each row that was sent, that of its
frame (`Sequenced`). A row that is owed and numbered above what the page has come
to is on the wire, or a marker is that makes the page read again (`Coming`); one
numbered below is shown, or a snapshot that will bring it is on its way
(`Kept`). While the page waits for a retry neither is claimed: the new
connection restores both. A subscription is where the two meet, as what the
history no longer has is replaced by the marker.

What stays with TLC, and why:

* Liveness (`EveryJobSettles`, `RowsSettle`, `RecoveryHappens`, and those of
  `progress`): it needs fairness and ENABLED, which the installed provers do not
  handle.
* What folds, sorting and recursive operators compute: `FittedIsRight` of
  `TextBudget`, `HitsAreBest` of `Recall` and `HandbookIsCited` (the diff and the
  parser) compare an algorithm with its definition. The library's induction
  theorems take an operator, which the installed provers cannot instantiate.
  Where one recursive function is all there is (`Kept`, `ShownAfter`), an induction
  over a *set* of numbers does instead (`EveryNumber`, by the least number that
  is not in the set); sorting by a relation and the handbook's walks would need
  it of operators of the library, whose definitions the provers do not see.
  `Subsequences` exists for that reason: it is `SelectSeq` as such a function.
* `PartsTypeOK`, the types of all parts of `MCSafety`: those of seven parts are
  theorems of their own (`GcTypeCorrect` and the others above).
* The findings: what the runs that expect a violation show is a counterexample,
  and needs no proof.

## Not modelled

* Sanitising and redaction, paths, configuration, file formats and the splitting
  of words: pure functions on text. Modules that depend on a verdict (secret or
  not, supported or not) take the verdict as an input.
* SQLite's busy retries: a transaction is atomic and either happens or throws.
  Closures that keep a variable set by a run that was rolled back
  (`core/db.ts:749`, `1140`) are therefore not modelled either: `COMMIT` is not
  busy after `BEGIN IMMEDIATE`.
* The workspace inventory and `listMemory`, which only read directories, and the
  parsing of shell commands for paths.
* Prompts and the repair of a model's reply; React rendering; scripts; and the
  generated `src/lib/client.js` and `src/dist`.

Of `Migration`: a damaged store of version 11 that was repaired is left at
version 10 until the next open (`core/db.ts:1437-1442`), and a slow migrator may
write a lower version over a higher one; both are redone and harmless. A store
whose repairer dies between `addMissingColumns` and the updates that follow is
not repaired again.

## Plan

What was planned is built. What could follow, in this order:

1. `HitsAreBest` of `Recall`, which needs facts about sorting by a relation.
2. `FittedIsRight` of `TextBudget`, after its folds are written as functions.
3. The malformed manifests of the generations, and a provider that plans past
   its lease.
