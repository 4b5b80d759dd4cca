-------------------------- MODULE AtomicWorkspace --------------------------
(***************************************************************************)
(* What the writers of a workspace promise to everyone who reads it: the   *)
(* documents, their baseline and what SQLite records as integrated change  *)
(* together, in one step, whatever files a writer was replacing when it    *)
(* died.                                                                   *)
(***************************************************************************)
CONSTANTS
    Facts,     \* what a document may contain
    UserFacts, \* lines only the user writes
    Rows, Notes,
    FactsOf(_), NoteFact(_)

VARIABLES
    memory, raw, \* the documents
    baseline,    \* the documents as last consolidated
    selected,    \* rows recorded as integrated
    applied      \* notes recorded as applied

vars == <<memory, raw, baseline, selected, applied>>

Init ==
    /\ memory = {} /\ raw = {}
    /\ baseline = [memory |-> {}, raw |-> {}]
    /\ selected = {} /\ applied = {}

\* The user adds lines.
Edit ==
    /\ memory' \in {memory \cup lines : lines \in SUBSET UserFacts}
    /\ UNCHANGED <<raw, baseline, selected, applied>>

\* The projection of the stage-1 rows is refreshed.
Sync ==
    /\ raw' \in SUBSET Facts
    /\ UNCHANGED <<memory, baseline, selected, applied>>

\* A fresh checkpoint makes its row pending again.
Renew ==
    /\ selected' \in SUBSET selected
    /\ UNCHANGED <<memory, raw, baseline, applied>>

\* A consolidation or a purge: everything at once.  What is newly recorded is
\* in the documents it is recorded with: a row in the projection that counts as
\* seen from now on, whatever memory took up of it, and a note in memory.  A
\* line the user adds while it is written is not in the baseline yet.
Rewrite ==
    /\ memory' \in SUBSET Facts
    /\ raw' \in SUBSET Facts
    /\ baseline'.memory \ UserFacts = memory' \ UserFacts
    /\ baseline'.raw = raw'
    /\ selected' \in SUBSET Rows
    /\ \A r \in selected' \ selected : FactsOf(r) \cap baseline'.raw # {}
    /\ applied \subseteq applied' /\ applied' \subseteq Notes
    /\ \A n \in applied' \ applied : NoteFact(n) \in memory'

Next == Edit \/ Sync \/ Renew \/ Rewrite

Spec == Init /\ [][Next]_vars
=============================================================================
