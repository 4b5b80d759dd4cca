------------------------------ MODULE Handbook ------------------------------
(***************************************************************************)
(* How MEMORY.md is made without a model (RuleConsolidateProvider, and     *)
(* purgeRollout, which rebuilds the handbook with it).                     *)
(*                                                                         *)
(* The rows of stage 1 are projected into raw_memories.md, a page at a     *)
(* time.  What the next run adds to the handbook is read off the LINES     *)
(* that a greedy diff against the last baseline calls added: fragments     *)
(* of blocks, when the diff aligned lines that blocks share.  Pruning      *)
(* reads citations off the lines of MEMORY.md.  So both are text again     *)
(* here, of the lines those steps tell apart.                              *)
(*                                                                         *)
(* Leases, crashes and the commit are WorkspaceWriters'; a run is a step.  *)
(***************************************************************************)
EXTENDS Integers, Sequences, SequencesExt, FiniteSets

CONSTANTS
    Rollouts,      \* rollout keys: numbers, compared as localeCompare does
    Topics,        \* task groups that the extractor names
    AdHoc,         \* the task group of the notes
    Within,        \* <<t, u>>: the header of t is a part of the header of u
    Echoes,        \* <<r, t>>: the text of r quotes the header of t
    Mentions,      \* rollouts whose text has a bullet that names a .md file
    Remembered,    \* remember notes
    PageBlocks,    \* blocks that fit into raw_memories.md
    MaxInputs,     \* maxInputs
    MaxStaged      \* bound: results that are staged

ASSUME HandbookAssumption ==
    /\ Rollouts \subseteq Nat \ {0} /\ AdHoc \notin Topics
    /\ Within \subseteq Topics \X Topics /\ Echoes \subseteq Rollouts \X (Topics \cup {AdHoc})
    /\ Mentions \subseteq Rollouts
    /\ PageBlocks \in Nat \ {0} /\ MaxInputs \in Nat \ {0} /\ MaxStaged \in Nat

VARIABLES
    rollouts, \* stage1_outputs
    raw,      \* raw_memories.md, its page: on disk, and in the baseline
    shelf,    \* rollout_summaries/: on disk, and in the baseline
    handbook, \* MEMORY.md: what each task group cites and says
    noted,    \* the notes: pending and applied
    shed,     \* history: rollouts whose citation was taken out
    stray     \* history: rollouts without a summary, of which no diff will tell

handVars == <<rollouts, raw, shelf, handbook, noted, shed, stray>>

-----------------------------------------------------------------------------
(* projectRawMemories.  A page is a sequence of blocks.                    *)

BlockOf(r) == <<r, rollouts[r].version, rollouts[r].topic>>
Unwritten == << <<>> >>

\* The rows in the order of their keys, from the first one after the last row
\* of the page on disk; those that fit.
PageOf(keys, after) ==
    LET later == {r \in keys : r > after}
        ordered == SetToSortSeq(later, <) \o SetToSortSeq(keys \ later, <)
    IN  [i \in 1..(IF Len(ordered) < PageBlocks THEN Len(ordered) ELSE PageBlocks) |-> BlockOf(ordered[i])]

LastProjected(page) == IF page \in {<<>>, Unwritten} THEN 0 ELSE Last(page)[1]
OnPage(page) == {r \in Rollouts : \E i \in 1..Len(page) : page[i] = BlockOf(r)}

\* Its lines.
Empty == <<"empty">>
LinesOf(block) ==
    << <<"rollout", block[1]>>, <<"updated", block[1], block[2]>>, <<"file", block[1]>>, Empty,
       <<"topic", block[3]>>, <<"heading">>, <<"text", block[1], block[2]>>, Empty >>
Lines(page) ==
    CASE page = Unwritten -> <<Empty>>
      [] page = <<>> -> << <<"title">>, Empty, <<"none">>, Empty >>
      [] OTHER -> << <<"title">>, Empty, <<"merged">>, Empty >> \o FlattenSeq([i \in 1..Len(page) |-> LinesOf(page[i])])

\* diffTexts: what it calls added.  A line that the other side has somewhere
\* is waited for.
Added(before, after) ==
    LET common == ToSet(before) \cap ToSet(after)
        walk[i \in 1..Len(before) + 1, j \in 1..Len(after) + 1] ==
            IF j > Len(after) THEN <<>>
            ELSE IF i > Len(before) THEN SubSeq(after, j, Len(after))
            ELSE IF before[i] = after[j] THEN walk[i + 1, j + 1]
            ELSE IF before[i] \in common THEN <<after[j]>> \o walk[i, j + 1]
            ELSE IF after[j] \in common THEN walk[i + 1, j]
            ELSE <<after[j]>> \o walk[i + 1, j + 1]
    IN  walk[1, 1]

-----------------------------------------------------------------------------
(* splitRawBlocks: the added lines, read one after the other.              *)

NoSlug == 0
Reading == [blocks |-> <<>>, open |-> FALSE, topic |-> AdHoc, slug |-> NoSlug, texts |-> {}, inBody |-> FALSE,
            pending |-> NoSlug, prevBlank |-> TRUE]

\* A block whose body did not start is no block.
BlockEnded(st) ==
    [st EXCEPT !.blocks = IF st.open /\ st.inBody
                          THEN Append(@, [topic |-> st.topic, slug |-> st.slug, texts |-> st.texts]) ELSE @,
               !.open = FALSE, !.inBody = FALSE]

\* The summary file named last is kept for a block whose header is missing.
Slug(st) == IF st.open /\ st.slug # NoSlug THEN st.slug ELSE st.pending

\* "general" is a topic of the extractor too.
General == CHOOSE t \in Topics : TRUE

ReadLine(st, line) ==
    LET kind == line[1]
        body == st.open /\ st.inBody /\ ~(kind = "rollout" /\ st.prevBlank)
        next ==
            CASE body /\ kind = "text" -> [st EXCEPT !.texts = @ \cup {line}]
              [] ~body /\ kind = "rollout" ->
                    [BlockEnded(st) EXCEPT !.open = TRUE, !.topic = General, !.slug = NoSlug, !.texts = {}, !.pending = NoSlug]
              [] ~body /\ kind = "file" /\ st.open -> [st EXCEPT !.slug = line[2]]
              [] ~body /\ kind = "file" /\ ~st.open -> [st EXCEPT !.pending = line[2]]
              [] ~body /\ kind = "topic" ->
                    [BlockEnded(st) EXCEPT !.open = TRUE, !.topic = line[2], !.slug = Slug(st), !.texts = {}, !.pending = NoSlug]
              [] ~body /\ kind = "heading" /\ st.open -> [st EXCEPT !.inBody = TRUE]
              [] ~body /\ kind = "text" /\ st.open -> [st EXCEPT !.texts = @ \cup {line}]
              [] OTHER -> st
    IN  [next EXCEPT !.prevBlank = (line = Empty)]

BlocksOf(lines) == BlockEnded(FoldLeft(ReadLine, Reading, lines)).blocks

-----------------------------------------------------------------------------
(* consolidate of the rule provider.                                       *)

\* memory.includes(header): a longer header has it, and so has a text that
\* quotes it, although the quotation was escaped.
Included(book, t) ==
    \E u \in DOMAIN book : \/ u = t \/ <<t, u>> \in Within
                           \/ \E line \in book[u].says : line[1] = "text" /\ <<line[2], t>> \in Echoes

WithTopic(book, t, cites, says) == (t :> [cites |-> cites, says |-> says]) @@ book

\* appendToGroup finds the exact header or leaves the handbook as it is.
Appended(book, t, cites, says) ==
    IF ~Included(book, t) THEN WithTopic(book, t, cites, says)
    ELSE IF t \in DOMAIN book THEN WithTopic(book, t, book[t].cites \cup cites, book[t].says \cup says)
    ELSE book

\* Mutant: a block without a summary is taken in as well.
IngestUncited(book, block) ==
    IF \E t \in DOMAIN book : block.slug \in book[t].cites THEN book
    ELSE Appended(book, block.topic, {block.slug} \ {NoSlug}, block.texts)

\* A block without a summary is skipped, one that is cited is there already.
Ingest(book, block) ==
    IF block.slug = NoSlug \/ \E t \in DOMAIN book : block.slug \in book[t].cites THEN book
    ELSE Appended(book, block.topic, {block.slug}, block.texts)

\* removeBlocksCitingOnly.  A bullet that names a file passes for a citation
\* that stays.
Without(book, gone) ==
    LET named(t) == \E line \in book[t].says : line[1] = "text" /\ line[2] \in Mentions
        dropped == {t \in DOMAIN book : book[t].cites # {} /\ book[t].cites \subseteq gone /\ ~named(t)}
    IN  [t \in DOMAIN book \ dropped |-> [book[t] EXCEPT !.cites = @ \ gone]]

WithNote(book, n) ==
    IF \E t \in DOMAIN book : <<"note", n>> \in book[t].says THEN book
    ELSE Appended(book, AdHoc, {}, {<<"note", n>>})

Consolidated(book, added, gone, notes) ==
    LET ingested == FoldLeft(Ingest, book, BlocksOf(added))
    IN  FoldSet(LAMBDA n, b : WithNote(b, n), Without(ingested, gone), notes)

-----------------------------------------------------------------------------
(* The rows.                                                               *)

NoRollout == [status |-> "none", version |-> 0, topic |-> General, chosen |-> FALSE]
RowsWith(status) == {r \in Rollouts : rollouts[r].status = status}
Active == RowsWith("pending") \cup RowsWith("selected")

HandInit ==
    /\ rollouts = [r \in Rollouts |-> NoRollout]
    /\ raw = [disk |-> Unwritten, base |-> Unwritten]
    /\ shelf = [disk |-> {}, base |-> {}]
    /\ handbook = <<>> /\ noted = [pending |-> {}, applied |-> {}] /\ shed = {} /\ stray = {}

\* stageUpsert: the row is new, or the session was extracted again.
StageResult(r, t) ==
    /\ MapThenSumSet(LAMBDA q : rollouts[q].version, Rollouts) < MaxStaged
    /\ rollouts' = [rollouts EXCEPT ![r] = [status |-> "pending", version |-> @.version + 1, topic |-> t, chosen |-> FALSE]]
    /\ UNCHANGED <<raw, shelf, handbook, noted, shed, stray>>

\* The row falls out of the window of maxUnusedDays.
Ages(r) ==
    /\ r \in Active
    /\ rollouts' = [rollouts EXCEPT ![r].status = "aged"]
    /\ UNCHANGED <<raw, shelf, handbook, noted, shed, stray>>

Remember(n) ==
    /\ n \notin noted.pending \cup noted.applied
    /\ noted' = [noted EXCEPT !.pending = @ \cup {n}]
    /\ UNCHANGED <<rollouts, raw, shelf, handbook, shed, stray>>

\* stageSelectRows: every selected row, and so many pending ones, in an order
\* of usage.
Batches == {b \in SUBSET RowsWith("pending") : Cardinality(b) = MaxInputs \/ (b = RowsWith("pending") /\ Cardinality(b) < MaxInputs)}
PagesPlanned == {PageOf(RowsWith("selected") \cup batch, LastProjected(raw.disk)) : batch \in Batches}
NothingToDo(page) == page = raw.base /\ Active = shelf.base /\ noted.pending = {} /\ RowsWith("aged") = {}

\* syncArtifacts ran, and then the provider failed.
RunFails(page) ==
    /\ ~NothingToDo(page)
    /\ raw' = [raw EXCEPT !.disk = page]
    /\ shelf' = [shelf EXCEPT !.disk = Active]
    /\ UNCHANGED <<rollouts, handbook, noted, shed, stray>>

\* Pruned rows that were selected once are kept as deleted ones, the others
\* are recycled.
RunRule(page) ==
    LET gone == shelf.base \ Active
    IN  /\ ~NothingToDo(page)
        /\ handbook' = Consolidated(handbook, Added(Lines(raw.base), Lines(page)), gone, noted.pending)
        /\ raw' = [disk |-> page, base |-> page]
        /\ shelf' = [disk |-> Active, base |-> Active]
        /\ rollouts' = [r \in Rollouts |->
                          IF r \in OnPage(page) THEN [rollouts[r] EXCEPT !.status = "selected", !.chosen = TRUE]
                          ELSE IF r \in RowsWith("aged") THEN [rollouts[r] EXCEPT !.status = IF rollouts[r].chosen THEN "deleted" ELSE "recycled"]
                          ELSE rollouts[r]]
        /\ noted' = [pending |-> {}, applied |-> noted.applied \cup noted.pending]
        /\ shed' = shed \cup gone
        /\ stray' = stray \ Active

\* purgeRollout: the handbook is rebuilt from the page that is published, and
\* so is the baseline.
PurgeResult(r) ==
    LET remaining == {q \in OnPage(raw.disk) \ {r} : rollouts[q].status \in {"pending", "selected", "aged"}}
        page == PageOf(remaining, 0)
    IN  /\ rollouts[r].status \notin {"none", "recycled"}
        /\ handbook' = Consolidated(Without(handbook, {r}), Added(<<Empty>>, Lines(page)), {}, noted.applied)
        /\ raw' = [disk |-> page, base |-> page]
        /\ shelf' = [disk |-> shelf.disk \ {r}, base |-> shelf.disk \ {r}]
        /\ rollouts' = [rollouts EXCEPT ![r] = [NoRollout EXCEPT !.version = rollouts[r].version]]
        /\ shed' = shed \cup {r}
        /\ stray' = (stray \cup shelf.base) \ (shelf.disk \cup {r})
        /\ UNCHANGED noted

HandNext ==
    \/ \E r \in Rollouts, t \in Topics : StageResult(r, t)
    \/ \E r \in Rollouts : Ages(r) \/ PurgeResult(r)
    \/ \E n \in Remembered : Remember(n)
    \/ \E page \in PagesPlanned : RunFails(page) \/ RunRule(page)

-----------------------------------------------------------------------------
HandTypeOK ==
    /\ \A r \in Rollouts : rollouts[r].status \in {"none", "pending", "selected", "aged", "deleted", "recycled"} /\ rollouts[r].topic \in Topics
    /\ shelf.disk \subseteq Rollouts /\ shelf.base \subseteq Rollouts
    /\ \A t \in DOMAIN handbook : t \in Topics \cup {AdHoc} /\ handbook[t].cites \subseteq Rollouts
    /\ noted.pending \subseteq Remembered /\ noted.applied \subseteq Remembered /\ shed \cup stray \subseteq Rollouts

\* The bullet that kept this topic when its rollouts went.
NamesFile(t) == \E line \in handbook[t].says : line[1] = "text" /\ line[2] \in Mentions
Quoted(t) == \E r \in Rollouts : <<r, t>> \in Echoes /\ rollouts[r].version > 0

\* However runs fail, pages turn, rows age and rollouts are purged between two
\* diffs, the handbook keeps its evidence: a topic cites a rollout, no rollout
\* is taken in twice or cited after its purge, a cited summary is on disk or
\* the next diff will tell that it went, and what a topic says comes from a
\* rollout that it cites, or cited.  A note that counts as applied is there.
\* Exempt are a topic that names a file, which outlives its rollouts, a rollout
\* that was extracted again, whose new lines may land in a neighbour's block,
\* the notes once a text quotes their header, and the rollouts that aged before
\* a failed run and a purge of another: that purge takes the baseline from what
\* the failed run left, so their citation dangles, which the provenance check
\* of a later model run rejects (validateMemoryProvenance).
HandbookIsCited ==
    /\ \A t \in DOMAIN handbook \ {AdHoc} : handbook[t].cites # {} \/ NamesFile(t)
    /\ \A t \in DOMAIN handbook : \A r \in handbook[t].cites :
          /\ rollouts[r].status # "none"
          /\ r \in shelf.disk \cup shelf.base \cup stray
          /\ \A u \in DOMAIN handbook \ {t} : r \notin handbook[u].cites
    /\ \A t \in DOMAIN handbook : \A line \in handbook[t].says :
          line[1] = "text" /\ rollouts[line[2]].version = 1 => line[2] \in handbook[t].cites \cup shed
    /\ \A n \in noted.applied :
          (AdHoc \in DOMAIN handbook /\ <<"note", n>> \in handbook[AdHoc].says) \/ Quoted(AdHoc)
=============================================================================
