------------------------------ MODULE AgentRun ------------------------------
(***************************************************************************)
(* The Phase-2 agent of one consolidation (LlmLoopConsolidateProvider) and *)
(* what runConsolidation makes of its answer.                              *)
(*                                                                         *)
(* The model is asked at most Steps times.  Each reply is a sequence of    *)
(* tool calls, in an order of the model's own choice, and every rule of    *)
(* the run is a check on one call: reads are paged and budgeted, writes    *)
(* are staged, finish is refused until the change list was asked for.  A   *)
(* timer bounds the run.  Only what is staged when an accepted finish ends *)
(* the loop is validated and committed.                                    *)
(*                                                                         *)
(* Leases, revisions and crashes are WorkspaceWriters'; texts are what the *)
(* checks on them tell apart.                                              *)
(***************************************************************************)
EXTENDS Integers, FiniteSets

CONSTANTS
    AgentNotes,    \* the pending notes of the plan
    Steps,         \* maxAgentSteps
    DiffBytes,     \* how long a change list is that is not empty
    PageBytes,     \* READ_FILE_MAX_BYTES
    ReadBudget,    \* READ_FILE_TOTAL_BYTES_PER_RUN
    HistoryBudget, \* MAX_AGENT_HISTORY_BYTES
    CallCap        \* bound: tool calls of one reply

ASSUME AgentAssumption ==
    /\ Steps \in Nat \ {0} /\ DiffBytes \in Nat \ {0} /\ PageBytes \in Nat \ {0}
    /\ ReadBudget \in Nat /\ HistoryBudget \in Nat /\ CallCap \in Nat \ {0}

VARIABLES
    store, \* the workspace and its plan; changed by the commit alone
    loop,  \* the loop's variables
    run    \* where the run is, and what it returned

agentVars == <<store, loop, run>>

\* isConsolidationEditable, and what the checks on a text tell apart.  uncited: a
\* task group without the evidence of a rollout that stays.  padded: a summary
\* with space before its header.
Editable == {"memory", "summary", "skill"}
TextsOf(rel) == CASE rel = "memory" -> {"cited", "uncited"} [] rel = "summary" -> {"v1", "padded", "other"} [] rel = "skill" -> {"text"}
Missing == "missing"
NoEdits == [rel \in Editable |-> Missing]

NewLoop == [step |-> 0, calls |-> 0, history |-> 0, nudged |-> FALSE, late |-> FALSE, readBytes |-> 0,
            readDiff |-> FALSE, edits |-> NoEdits, finished |-> FALSE, consumed |-> {},
            shown |-> 0]

\* Any workspace with something to do: a change list or a note.
AgentStores ==
    {st \in [files : {[memory |-> m, summary |-> s, skill |-> Missing] : m \in {"cited", Missing}, s \in {"v1", "other", Missing}},
             diff : {0, DiffBytes}, notes : SUBSET AgentNotes, applied : {{}}] : st.diff # 0 \/ st.notes # {}}

\* A channel without native tool calls returns at once.
AgentInit ==
    /\ store \in AgentStores /\ loop = NewLoop
    /\ run \in [at : {"asking", "returned"}, completed : {FALSE}]

GoOn(next) == loop' = next /\ UNCHANGED <<store, run>>
Return(completed) == run' = [at |-> "returned", completed |-> completed]
Throw == run' = [run EXCEPT !.at = "failed"]

\* The run budget runs out: the request under way is aborted, and a reply that
\* comes nevertheless is dropped.
TimeOut ==
    /\ run.at = "asking" /\ ~loop.late
    /\ GoOn([loop EXCEPT !.late = TRUE])

-----------------------------------------------------------------------------
(* A step: the request goes out and a reply comes back.                    *)

RequestGoes == run.at = "asking" /\ loop.step < Steps /\ loop.history <= HistoryBudget

StepFails ==
    /\ run.at = "asking" /\ loop.step < Steps
    /\ \/ loop.history > HistoryBudget
       \/ loop.late
       \/ RequestGoes \* the channel fails
    /\ Throw /\ UNCHANGED <<store, loop>>

\* Cut off at the limit of tokens, or empty.
ReplyStops ==
    /\ RequestGoes /\ ~loop.late
    /\ Return(FALSE) /\ UNCHANGED <<store, loop>>

\* Prose, and no call: one reminder is given.
ReplyProse ==
    /\ RequestGoes /\ ~loop.late
    /\ IF loop.nudged
       THEN Return(FALSE) /\ UNCHANGED <<store, loop>>
       ELSE GoOn([loop EXCEPT !.nudged = TRUE, !.step = @ + 1, !.history = @ + 1])

ReplyCalls ==
    /\ RequestGoes /\ ~loop.late
    /\ loop' = [loop EXCEPT !.calls = 0, !.history = @ + 1]
    /\ run' = [run EXCEPT !.at = "calling"]
    /\ UNCHANGED store

ReplyEnds ==
    /\ run.at = "calling" /\ loop.calls > 0
    /\ IF loop.finished
       THEN Return(TRUE) /\ UNCHANGED loop
       ELSE loop' = [loop EXCEPT !.step = @ + 1] /\ run' = [run EXCEPT !.at = "asking"]
    /\ UNCHANGED store

Exhausted ==
    /\ run.at = "asking" /\ loop.step = Steps
    /\ Return(FALSE) /\ UNCHANGED <<store, loop>>

-----------------------------------------------------------------------------
(* The calls of a reply, one after the other.                              *)

Calls == run.at = "calling" /\ loop.calls < CallCap
Called == [loop EXCEPT !.calls = @ + 1]

\* list_files, an unknown tool, arguments that do not parse, a path or a
\* content that is refused: the model is told, and nothing changes.
CallAnswered == Calls /\ GoOn(Called)

\* readFilePage: the bytes from offset on, and no more than a page.
Page(size, offset, limit) ==
    IF offset >= size THEN 0
    ELSE IF offset + limit > size THEN size - offset ELSE limit

\* The budget of a run: what is over it is cut off.
WithRead(l, bytes) ==
    LET remaining == ReadBudget - l.readBytes
    IN  IF remaining = 0 THEN l
        ELSE IF bytes > remaining
             THEN [l EXCEPT !.readBytes = ReadBudget, !.shown = @ + remaining, !.history = @ + remaining]
             ELSE [l EXCEPT !.readBytes = @ + bytes, !.shown = @ + bytes, !.history = @ + bytes]

CallRead(diff, offset, limit) ==
    /\ Calls
    /\ diff => store.diff # 0 \* an empty list is not offered
    /\ LET bytes == Page(DiffBytes, offset, limit)
       IN  GoOn(WithRead([Called EXCEPT !.readDiff = @ \/ diff], bytes))

CallWrite(rel, text) ==
    /\ Calls
    /\ GoOn([Called EXCEPT !.edits[rel] = text, !.history = @ + 1])

\* Mutant: notes are settled on the model's word.
AcknowledgedClaimed(l, claimed) == claimed \cap store.notes

\* A note counts as applied only in a run that rewrites MEMORY.md.
Acknowledged(l, claimed) == IF l.edits["memory"] = Missing THEN {} ELSE claimed \cap store.notes

CallFinish(claimed) ==
    /\ Calls
    /\ store.diff # 0 => loop.readDiff
    /\ GoOn([Called EXCEPT !.finished = TRUE, !.consumed = Acknowledged(loop, claimed)])

-----------------------------------------------------------------------------
(* runConsolidation, once the provider has returned.                       *)

After(rel, edits) == IF edits[rel] = Missing THEN store.files[rel] ELSE edits[rel]

\* A store leaves a run with a summary that has the header: a minimal one is
\* made if neither the edits nor the store have one.
Completed(edits) == IF After("summary", edits) \in {"v1", "padded"} THEN edits ELSE [edits EXCEPT !["summary"] = "v1"]

\* validateEdits and validateMemoryProvenance.  Completed looks for the header
\* after trimming, this does not.
Valid(edits) == edits["memory"] # "uncited" /\ edits["summary"] \notin {"padded", "other"}

Reject ==
    /\ run.at = "returned" /\ (~run.completed \/ ~Valid(Completed(loop.edits)))
    /\ Throw /\ UNCHANGED <<store, loop>>

CommitRun ==
    /\ run.at = "returned" /\ run.completed /\ Valid(Completed(loop.edits))
    /\ store' = [store EXCEPT !.files = [rel \in Editable |-> After(rel, Completed(loop.edits))],
                              !.applied = loop.consumed]
    /\ run' = [run EXCEPT !.at = "committed"]
    /\ UNCHANGED loop

AgentNext ==
    \/ TimeOut \/ StepFails \/ ReplyStops \/ ReplyProse \/ ReplyCalls \/ ReplyEnds \/ Exhausted
    \/ CallAnswered
    \/ \E diff \in BOOLEAN, offset \in 0..DiffBytes, limit \in 1..PageBytes : CallRead(diff, offset, limit)
    \/ \E rel \in Editable : \E text \in TextsOf(rel) : CallWrite(rel, text)
    \/ \E claimed \in SUBSET AgentNotes : CallFinish(claimed)
    \/ Reject \/ CommitRun

AgentSpec == AgentInit /\ [][AgentNext]_agentVars

-----------------------------------------------------------------------------
AgentTypeOK ==
    /\ \A rel \in Editable : store.files[rel] \in TextsOf(rel) \cup {Missing} /\ loop.edits[rel] \in TextsOf(rel) \cup {Missing}
    /\ store.diff \in {0, DiffBytes} /\ store.notes \subseteq AgentNotes /\ store.applied \subseteq AgentNotes
    /\ loop.step \in 0..Steps /\ loop.calls \in 0..CallCap /\ loop.history \in Nat
    /\ {loop.nudged, loop.late, loop.readDiff, loop.finished, run.completed} \subseteq BOOLEAN
    /\ loop.readBytes \in 0..ReadBudget /\ loop.shown \in Nat /\ loop.consumed \subseteq AgentNotes
    /\ run.at \in {"asking", "calling", "returned", "committed", "failed"}

\* Whatever the model writes, claims and repeats, and in whatever order: a run
\* commits only after it asked for the change list and said it is done, within
\* its budget of time; it settles only pending notes, and none without a
\* rewrite of MEMORY.md; all it leaves is cited and has a summary that the
\* sessions will read.  Any other run leaves notes and files alone.  However
\* the model pages, it is shown no more bytes than a run may read: the pages
\* stay in the request that every later step sends again.
CommitIsEarned ==
    /\ loop.shown <= ReadBudget
    /\ IF run.at = "committed"
       THEN /\ loop.finished /\ ~loop.late
            /\ store.diff # 0 => loop.readDiff
            /\ store.applied \subseteq store.notes
            /\ store.applied # {} => loop.edits["memory"] # Missing /\ store.files["memory"] = loop.edits["memory"]
            /\ store.files["memory"] # "uncited" /\ store.files["summary"] \in {"v1", "padded"}
       ELSE store.applied = {} /\ store.files["skill"] = Missing
=============================================================================
