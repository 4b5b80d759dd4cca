----------------------------- MODULE AdHocNotes -----------------------------
(***************************************************************************)
(* Ad-hoc notes (core/adhoc.ts): a note is a file and a row of SQLite, and *)
(* nothing writes the two together.  The file is the truth about the text, *)
(* the row remembers which text was merged into memory.                    *)
(*                                                                         *)
(* Sessions add notes while a consolidation, of this process or another,   *)
(* plans, asks its provider and commits; it settles rows whose file is     *)
(* gone and adopts files that have no row.  The user edits and deletes     *)
(* files, and writes some by hand.                                         *)
(*                                                                         *)
(* One consolidation runs at a time: WorkspaceWriters has the lease.  A    *)
(* closed gate and a failed transaction are the same refusal here.         *)
(***************************************************************************)
EXTENDS Integers, FiniteSets, FiniteSetsExt

CONSTANTS
    Adders,       \* calls of addAdHocNote; each one's file is named after it
    Handmade,     \* files a user writes, with names that no call would choose
    Texts,        \* what a note may say,
    Unsafe,       \* the text that looks like an injection,
    Blank,        \* and the text of an empty file
    AdoptLimit,   \* MAX_ADOPTED_NOTES_PER_CALL
    MaxHandEdits, \* bound: files the user edits or deletes
    MaxNoteFaults,\* bound: crashes, failed insertions and failed runs
    MaxNoteRuns   \* bound: consolidations that reach their provider

ASSUME NotesAssumption ==
    /\ Adders \cap Handmade = {}
    /\ Unsafe \notin Texts /\ Blank \notin Texts /\ Unsafe # Blank
    /\ AdoptLimit \in Nat \ {0}
    /\ MaxHandEdits \in Nat /\ MaxNoteFaults \in Nat /\ MaxNoteRuns \in Nat

Files == Adders \cup Handmade
NoFile == "no file"
Kinds == {"remember", "forget"}
Contents == Texts \cup {Unsafe, Blank}

VARIABLES
    files,   \* extensions/ad_hoc/notes: what each file says
    rows,    \* ad_hoc_notes
    adders,  \* the calls under way
    notesRun,\* the consolidation
    merged,  \* history: what a provider worked into memory and a run committed
    settled, \* history: the rows that were settled because their file was gone
    notesUsed

notesVars == <<files, rows, adders, notesRun, merged, settled, notesUsed>>

\* The row of a call has an id of its own, an adopted one the hash of its file.
NoteRow == [id : {"own", "hash"}, file : Files, kind : Kinds, text : Contents, applied : BOOLEAN]
PlanNote == [id : {"own", "hash"}, file : Files, kind : Kinds, text : Contents]
NoteOf(r, text) == [id |-> r.id, file |-> r.file, kind |-> r.kind, text |-> text]
IsRowOf(r, n) == r.id = n.id /\ r.file = n.file
MergedText(n) == [file |-> n.file, kind |-> n.kind, text |-> n.text]

NoRun == [pc |-> "idle", round |-> 1, listed |-> {}, notes |-> {}, gone |-> {}, orphans |-> {},
          base |-> <<>>, worked |-> {}]

NotesInit ==
    /\ files = [f \in Files |-> NoFile] /\ rows = {}
    /\ adders = [a \in Adders |-> [pc |-> "idle", kind |-> "remember", text |-> Blank]]
    /\ notesRun = NoRun /\ merged = {} /\ settled = {}
    /\ notesUsed = [edits |-> 0, faults |-> 0, runs |-> 0]

Use(what, max) == notesUsed[what] < max /\ notesUsed' = [notesUsed EXCEPT ![what] = @ + 1]

-----------------------------------------------------------------------------
(* addAdHocNote.                                                           *)

\* Blank and unsafe texts are refused before anything is written.
WriteNote(a, kind, text) ==
    /\ adders[a].pc = "idle"
    /\ files' = [files EXCEPT ![a] = text]
    /\ adders' = [adders EXCEPT ![a] = [pc |-> "written", kind |-> kind, text |-> text]]
    /\ UNCHANGED <<rows, notesRun, merged, settled, notesUsed>>

\* The row has the text of the call, whatever the file says by now.
InsertNote(a) ==
    /\ adders[a].pc = "written"
    /\ rows' = rows \cup {[id |-> "own", file |-> a, kind |-> adders[a].kind, text |-> adders[a].text, applied |-> FALSE]}
    /\ adders' = [adders EXCEPT ![a].pc = "done"]
    /\ UNCHANGED <<files, notesRun, merged, settled, notesUsed>>

\* Refused by the gate or by SQLite: the file is deleted, if that succeeds.
InsertFails(a) ==
    /\ adders[a].pc = "written" /\ Use("faults", MaxNoteFaults)
    /\ files' \in {files, [files EXCEPT ![a] = NoFile]}
    /\ adders' = [adders EXCEPT ![a].pc = "failed"]
    /\ UNCHANGED <<rows, notesRun, merged, settled>>

AdderDies(a) ==
    /\ adders[a].pc = "written" /\ Use("faults", MaxNoteFaults)
    /\ adders' = [adders EXCEPT ![a].pc = "failed"]
    /\ UNCHANGED <<files, rows, notesRun, merged, settled>>

\* The user writes, edits and deletes files at any time.
EditByHand(f, text) ==
    /\ Use("edits", MaxHandEdits)
    /\ files[f] # text /\ (f \in Handmade \/ files[f] # NoFile)
    /\ files' = [files EXCEPT ![f] = text]
    /\ UNCHANGED <<rows, adders, notesRun, merged, settled>>

-----------------------------------------------------------------------------
(* pendingAdHocNotes, which a run calls for each of its two plans.         *)

ListRows ==
    /\ notesRun.pc = "idle" /\ notesUsed.runs < MaxNoteRuns
    /\ notesRun' = [NoRun EXCEPT !.pc = "listed", !.listed = rows]
    /\ UNCHANGED <<files, rows, adders, merged, settled, notesUsed>>

\* A row that was never applied is offered with the text of its file, an
\* applied one when its file says something else.
Offered(r) ==
    LET text == files[r.file]
    IN  IF text = NoFile THEN {}
        ELSE IF ~r.applied THEN {NoteOf(r, IF text = Blank THEN r.text ELSE text)}
        ELSE IF text # Unsafe /\ text # r.text THEN {NoteOf(r, text)} ELSE {}

ReadFiles ==
    /\ notesRun.pc = "listed"
    /\ notesRun' = [notesRun EXCEPT !.pc = "read",
                       !.notes = UNION {Offered(r) : r \in notesRun.listed},
                       !.gone = {r \in notesRun.listed : ~r.applied /\ files[r.file] = NoFile}]
    /\ UNCHANGED <<files, rows, adders, merged, settled, notesUsed>>

MarkApplied(gone) == {IF \E g \in gone : IsRowOf(r, g) THEN [r EXCEPT !.applied = TRUE] ELSE r : r \in rows}

\* Then the files that the listed rows do not know are looked for.
Settle ==
    /\ notesRun.pc = "read"
    /\ rows' = MarkApplied(notesRun.gone)
    /\ settled' = settled \cup {NoteOf(g, g.text) : g \in notesRun.gone}
    /\ LET unknown == {f \in Files : files[f] # NoFile /\ ~\E r \in notesRun.listed : r.file = f}
       IN  \E some \in kSubset(IF Cardinality(unknown) < AdoptLimit THEN Cardinality(unknown) ELSE AdoptLimit, unknown) :
             notesRun' = [notesRun EXCEPT !.pc = "adopting", !.orphans = some]
    /\ UNCHANGED <<files, adders, merged, notesUsed>>

Adopted(f) == [id |-> "hash", file |-> f, kind |-> "remember", text |-> files[f], applied |-> FALSE]

\* One file at a time: its text is read now, and it becomes a pending row.
AdoptFile(f) ==
    /\ notesRun.pc = "adopting" /\ f \in notesRun.orphans
    /\ IF files[f] \in {NoFile, Unsafe, Blank}
       THEN /\ notesRun' = [notesRun EXCEPT !.orphans = @ \ {f}]
            /\ UNCHANGED rows
       ELSE /\ notesRun' = [notesRun EXCEPT !.orphans = @ \ {f}, !.notes = @ \cup {NoteOf(Adopted(f), files[f])}]
            /\ rows' = rows \cup {Adopted(f)}
    /\ UNCHANGED <<files, adders, merged, settled, notesUsed>>

\* The first plan settles and adopts; the second one is the plan.
PlanAgain ==
    /\ notesRun.pc = "adopting" /\ notesRun.orphans = {} /\ notesRun.round = 1
    /\ notesRun' = [NoRun EXCEPT !.pc = "listed", !.round = 2, !.listed = rows]
    /\ UNCHANGED <<files, rows, adders, merged, settled, notesUsed>>

-----------------------------------------------------------------------------
(* runConsolidation, as far as notes go.                                   *)

\* workspaceRevision: the files with the names that calls choose.
Revision == [f \in Adders |-> files[f]]

Ask ==
    /\ notesRun.pc = "adopting" /\ notesRun.orphans = {} /\ notesRun.round = 2
    /\ notesRun.notes # {} /\ Use("runs", MaxNoteRuns)
    /\ notesRun' = [notesRun EXCEPT !.pc = "asked", !.base = Revision]
    /\ UNCHANGED <<files, rows, adders, merged, settled>>

\* Nothing to do, a lost lease, a closed gate, a provider that fails.
GiveUp ==
    /\ notesRun.pc # "idle"
    /\ \/ notesRun.pc = "adopting" /\ notesRun.orphans = {} /\ notesRun.round = 2 /\ notesRun.notes = {} /\ UNCHANGED notesUsed
       \/ Use("faults", MaxNoteFaults)
    /\ notesRun' = NoRun
    /\ UNCHANGED <<files, rows, adders, merged, settled>>

Contention ==
    /\ notesRun.pc = "asked" /\ notesRun.base # Revision
    /\ notesRun' = NoRun
    /\ UNCHANGED <<files, rows, adders, merged, settled, notesUsed>>

\* The provider worked some notes into memory and named their files.
ProviderAnswers(worked) ==
    /\ notesRun.pc = "asked" /\ notesRun.base = Revision
    /\ worked \subseteq notesRun.notes /\ \A n \in worked : n.text # Unsafe
    /\ notesRun' = [notesRun EXCEPT !.pc = "answered", !.worked = worked]
    /\ UNCHANGED <<files, rows, adders, merged, settled, notesUsed>>

\* The commit goes by the names of the files.
Consumed == {n \in notesRun.notes : n.file \in {w.file : w \in notesRun.worked}}

\* Mutant: the text that is recorded is what the file says by now.
AppliedNow(r) ==
    IF \E n \in Consumed : IsRowOf(r, n) /\ files[r.file] # NoFile
    THEN [r EXCEPT !.applied = TRUE, !.text = files[r.file]] ELSE r

\* noteMarkApplied and noteSyncContent: the text that was merged.
Applied(r) ==
    LET mine == {n \in Consumed : IsRowOf(r, n)}
    IN  IF mine = {} THEN r ELSE [r EXCEPT !.applied = TRUE, !.text = (CHOOSE n \in mine : TRUE).text]

CommitNotes ==
    /\ notesRun.pc = "answered"
    /\ rows' = {Applied(r) : r \in rows}
    /\ merged' = merged \cup {MergedText(n) : n \in notesRun.worked}
    /\ notesRun' = NoRun
    /\ UNCHANGED <<files, adders, settled, notesUsed>>

NotesNext ==
    \/ \E a \in Adders, kind \in Kinds, text \in Texts : WriteNote(a, kind, text)
    \/ \E a \in Adders : InsertNote(a) \/ InsertFails(a) \/ AdderDies(a)
    \/ \E f \in Files, text \in Contents \cup {NoFile} : EditByHand(f, text)
    \/ ListRows \/ ReadFiles \/ Settle \/ PlanAgain
    \/ \E f \in Files : AdoptFile(f)
    \/ Ask \/ GiveUp \/ Contention \/ CommitNotes
    \/ \E worked \in SUBSET notesRun.notes : ProviderAnswers(worked)

NotesSpec == NotesInit /\ [][NotesNext]_notesVars

-----------------------------------------------------------------------------
NotesTypeOK ==
    /\ files \in [Files -> Contents \cup {NoFile}]
    /\ rows \subseteq NoteRow
    /\ \A r1, r2 \in rows : r1.id = r2.id /\ r1.file = r2.file => r1 = r2
    /\ \A a \in Adders : adders[a].pc \in {"idle", "written", "done", "failed"} /\ adders[a].kind \in Kinds
    /\ notesRun.pc \in {"idle", "listed", "read", "adopting", "asked", "answered"}
    /\ notesRun.listed \subseteq NoteRow /\ notesRun.notes \subseteq PlanNote
    /\ notesRun.gone \subseteq notesRun.listed /\ notesRun.orphans \subseteq Files
    /\ notesRun.worked \subseteq notesRun.notes

IsSettled(r) == \E s \in settled : IsRowOf(r, s)
HasTwin(r) == \E t \in rows : t.file = r.file /\ t # r

\* A row counts as applied only with a text that a provider worked into memory
\* and a run committed, unless its file was gone.  A file that is edited while
\* the provider thinks, adopted while its row is on its way or deleted and
\* written again is offered anew as long as it says something else; a row
\* that is applied too early is never looked at again.  Apart are two rows of
\* one file, adopted between the two writes of a call: a commit goes by the
\* name of the file and settles both.
AppliedIsMerged ==
    \A r \in rows : r.applied => MergedText(r) \in merged \/ IsSettled(r) \/ HasTwin(r)
=============================================================================
