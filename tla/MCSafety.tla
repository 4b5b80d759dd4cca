------------------------------ MODULE MCSafety ------------------------------
(***************************************************************************)
(* The parts whose answers must stay right whatever interleaves,           *)
(* model-checked side by side: stores that are collected and restored, a   *)
(* session under a workspace gate, its evidence, ad-hoc notes, the agent   *)
(* of one consolidation, the page of the client, its settings, its         *)
(* receipts, the text that is injected, what a search finds and a read     *)
(* returns, the handbook made without a model, and the opening of a store  *)
(* of any version.  They share no state, and each behaviour is one of      *)
(* theirs, chosen at the start.                                            *)
(***************************************************************************)
EXTENDS StoreGC, SessionGate, UiStream, Settings, Evidence, AdHocNotes, AgentRun, Receipts, TextBudget, Recall, Handbook, Migration

\* A topic's name begins with another's, and a text quotes the notes' header.
Prefix == {<<"style", "style guide">>}
Quotes == {<<2, "ad hoc">>}

\* Lines that have one term, both, both as a phrase, or are not safe.
Line(x, y, together, safe, cites, cost) ==
    [counts |-> ("x" :> x @@ "y" :> y), together |-> together, safe |-> safe, cites |-> cites, cost |-> cost]
Written == {Line(1, 0, {}, TRUE, {}, 1), Line(1, 1, {"x", "y"}, TRUE, {2}, 2), Line(1, 1, {}, FALSE, {}, 3), Line(0, 2, {}, TRUE, {}, 1)}
Rarity(df, lines) == 1 + lines \div (1 + df)
\* MEMORY.md, a summary and a note.
Lengths == <<3, 2, 1>>
Summaries == <<0, 1, 0>>
Names == <<2, 3, 1>>

VARIABLE part
vars == <<part, gcVars, gateVars, uiVars, setVars, evVars, notesVars, agentVars, receiptVars, budgetVars, recallVars, handVars, migVars>>

\* The agent, the receipts, the recall and the opening start in many states:
\* the other parts do not start with them.
Init ==
    /\ part \in {"collection", "gate", "page", "settings", "evidence", "notes", "agent", "receipts", "text", "recall", "handbook", "opening"}
    /\ part # "agent" => store = CHOOSE s \in AgentStores : TRUE
    /\ part # "recall" => library = CHOOSE l \in Libraries : TRUE
    /\ part # "receipts" => jobs = [j \in JobIds |-> Absent]
    /\ part # "opening" => version = 1 /\ sound = TRUE /\ worker = [j \in StoredJobs |-> "absent"]
    /\ GcInit /\ GateInit /\ UiInit /\ SetInit /\ EvInit /\ NotesInit /\ AgentInit /\ ReceiptsInit /\ BudgetInit /\ RecallInit /\ HandInit /\ MigInit
    /\ part # "agent" => run.at = "asking"
    \* The stores are alike: the page starts with either of them.
    /\ page.session = CHOOSE s \in Stores : TRUE

Collection == part = "collection" /\ GcNext
              /\ UNCHANGED <<part, gateVars, uiVars, setVars, evVars, notesVars, agentVars, receiptVars, budgetVars, recallVars, handVars, migVars>>
Gate == part = "gate" /\ GateNext
        /\ UNCHANGED <<part, gcVars, uiVars, setVars, evVars, notesVars, agentVars, receiptVars, budgetVars, recallVars, handVars, migVars>>
Client == part = "page" /\ UiNext
          /\ UNCHANGED <<part, gcVars, gateVars, setVars, evVars, notesVars, agentVars, receiptVars, budgetVars, recallVars, handVars, migVars>>
Setting == part = "settings" /\ SetNext
           /\ UNCHANGED <<part, gcVars, gateVars, uiVars, evVars, notesVars, agentVars, receiptVars, budgetVars, recallVars, handVars, migVars>>
Collecting == part = "evidence" /\ EvNext
              /\ UNCHANGED <<part, gcVars, gateVars, uiVars, setVars, notesVars, agentVars, receiptVars, budgetVars, recallVars, handVars, migVars>>
Noting == part = "notes" /\ NotesNext
          /\ UNCHANGED <<part, gcVars, gateVars, uiVars, setVars, evVars, agentVars, receiptVars, budgetVars, recallVars, handVars, migVars>>
Agent == part = "agent" /\ AgentNext
         /\ UNCHANGED <<part, gcVars, gateVars, uiVars, setVars, evVars, notesVars, receiptVars, budgetVars, recallVars, handVars, migVars>>
Telling == part = "receipts" /\ ReceiptsNext
           /\ UNCHANGED <<part, gcVars, gateVars, uiVars, setVars, evVars, notesVars, agentVars, budgetVars, recallVars, handVars, migVars>>
Rendering == part = "text" /\ BudgetNext
             /\ UNCHANGED <<part, gcVars, gateVars, uiVars, setVars, evVars, notesVars, agentVars, receiptVars, recallVars, handVars, migVars>>
Recalling == part = "recall" /\ RecallNext
             /\ UNCHANGED <<part, gcVars, gateVars, uiVars, setVars, evVars, notesVars, agentVars, receiptVars, budgetVars, handVars, migVars>>
Consolidating == part = "handbook" /\ HandNext
                 /\ UNCHANGED <<part, gcVars, gateVars, uiVars, setVars, evVars, notesVars, agentVars, receiptVars, budgetVars, recallVars, migVars>>
Opening == part = "opening" /\ MigNext
           /\ UNCHANGED <<part, gcVars, gateVars, uiVars, setVars, evVars, notesVars, agentVars, receiptVars, budgetVars, recallVars, handVars>>

Next == Collection \/ Gate \/ Client \/ Setting \/ Collecting \/ Noting \/ Agent \/ Telling \/ Rendering \/ Recalling
        \/ Consolidating \/ Opening
Spec == Init /\ [][Next]_vars

\* The variables of the other parts keep their first values.
View ==
    CASE part = "collection" -> <<part, gcVars>> [] part = "gate" -> <<part, gateVars>>
      [] part = "page" -> <<part, uiVars>> [] part = "settings" -> <<part, setVars>>
      [] part = "evidence" -> <<part, evVars>> [] part = "notes" -> <<part, notesVars>>
      [] part = "agent" -> <<part, agentVars>> [] part = "receipts" -> <<part, receiptVars>>
      [] part = "text" -> <<part, budgetVars>> [] part = "recall" -> <<part, recallVars>>
      [] part = "handbook" -> <<part, handVars>>
      [] part = "opening" -> <<part, migVars>>

\* The type invariants of the parts.
PartsTypeOK ==
    CASE part = "collection" -> GcTypeOK [] part = "gate" -> GateTypeOK [] part = "page" -> UiTypeOK
      [] part = "settings" -> SettingsTypeOK [] part = "evidence" -> EvTypeOK
      [] part = "notes" -> NotesTypeOK [] part = "agent" -> AgentTypeOK
      [] part = "receipts" -> ReceiptsTypeOK [] part = "text" -> BudgetTypeOK [] part = "recall" -> RecallTypeOK
      [] part = "handbook" -> HandTypeOK [] part = "opening" -> MigTypeOK

\* What the read path hands to the model: fitted, and found.
ReadPathIsRight == FittedIsRight /\ RecallIsRight
=============================================================================
