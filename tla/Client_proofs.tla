--------------------------- MODULE Client_proofs ----------------------------
(***************************************************************************)
(* Proofs about what a reader is shown and saves: the settings form        *)
(* (Settings), the activity a page follows over the wire (UiStream) and    *)
(* the memory an agent searches and pages through (Recall).                *)
(***************************************************************************)
EXTENDS Settings, UiStream, Recall, FiniteSetTheorems, SequenceTheorems, WellFoundedInduction, TLAPS

----------------------------------------------------------------------------

(***************************************************************************)
(* The settings page, for any fields and any number of edits, writes,      *)
(* deadlines and writes of the other editor.  A write of the form that     *)
(* could replace what the user has not seen has a fence that the document  *)
(* has passed (Fenced), through every rebase: a revision that a switch     *)
(* wrote is not the other editor's (Answered).                             *)
(***************************************************************************)
Entries == Values \cup {None}
DocStates == [rev : Nat \ {0}, user : [Fields -> Entries]]
Drafts == [FormFields -> Entries \cup {"invalid"}]
FormStates == [draft : Drafts, fence : Nat, saving : BOOLEAN, failed : BOOLEAN, conflict : BOOLEAN,
               seen : [FormFields -> Nat], idle : BOOLEAN]
ZoneStates == [value : Entries, pending : BOOLEAN, asked : Entries, prior : Entries,
               undo : Entries, undoing : BOOLEAN, before : Nat]
\* A change of some fields.
Change(c) == DOMAIN c \subseteq Fields /\ \A f \in DOMAIN c : c[f] \in Entries
Owners == {"form", "switch", "space"}
CallState(c) ==
    /\ c = [id |-> c.id, owner |-> c.owner, change |-> c.change, fence |-> c.fence, state |-> c.state,
            answer |-> c.answer, waits |-> c.waits, seen |-> c.seen, idle |-> c.idle]
    /\ c.id \in Nat /\ c.owner \in Owners /\ Change(c.change) /\ c.fence \in Nat
    /\ c.state \in {"sent", "landed", "refused"} /\ c.waits \in BOOLEAN
    /\ c.seen \in [FormFields -> Nat] /\ c.idle \in BOOLEAN
    /\ c.state # "sent" => c.answer \in DocStates

SetTyped ==
    /\ doc \in DocStates /\ mirror \in DocStates /\ form \in FormStates
    /\ switch \in ZoneStates /\ space \in ZoneStates
    /\ used \in [external : Nat, presses : Nat, edits : Nat, faults : Nat]
    /\ external \in [FormFields -> Nat]
    /\ \A c \in calls : CallState(c)

\* The page never knows more than there is.
Mirrored ==
    /\ mirror.rev <= doc.rev /\ (mirror.rev = doc.rev => mirror = doc)
    /\ form.fence <= mirror.rev /\ (form.conflict => form.failed)
    /\ \A f \in FormFields : external[f] <= doc.rev
Numbered ==
    /\ \A c \in calls : c.id < used.presses /\ c.fence <= doc.rev
    /\ \A c, d \in calls : c.id = d.id => c = d
\* The revision after the fence of a write that landed is its own.
Answered ==
    \A c \in calls :
        /\ c.state # "sent" => c.answer.rev <= doc.rev /\ (c.answer.rev = doc.rev => c.answer = doc)
        /\ c.state = "landed" => c.answer.rev = c.fence + 1 /\ \A f \in FormFields : external[f] # c.fence + 1
\* The page waits for one write at most, and the zone that made it knows.
OneWaits ==
    /\ \A c, d \in calls : c.waits /\ d.waits => c = d
    /\ (form.saving <=> \E c \in calls : c.waits /\ c.owner = "form")
    /\ (switch.pending <=> \E c \in calls : c.waits /\ c.owner = "switch")
    /\ (space.pending <=> \E c \in calls : c.waits /\ c.owner = "space")
    /\ \A c \in calls : c.waits =>
          /\ c.owner = "switch" => switch.before = c.fence
          /\ c.owner = "space" => space.before = c.fence
\* What a save writes is the draft, which stays while it waits.
DraftIs(c) ==
    \A f \in DOMAIN c.change :
        /\ f \in FormFields /\ form.draft[f] \in Values
        /\ c.change[f] = IF form.draft[f] = Base(f) THEN None ELSE form.draft[f]
Drafted == \A c \in calls : c.waits /\ c.owner = "form" => DraftIs(c)
\* Of a field the other editor wrote nothing that the user has not seen, or
\* the fence is older.
Unseen(f, seen, fence) == external[f] <= seen[f] \/ external[f] > fence
FormFenced ==
    ~form.idle => \A f \in FormFields : form.draft[f] # None => form.fence # 0 /\ Unseen(f, form.seen, form.fence)
CallsFenced ==
    \A c \in calls : c.owner = "form" /\ ~c.idle =>
        \A f \in DOMAIN c.change : Unseen(f, c.seen, c.fence)
\* A save writes fields of the form.
FormsOnly == \A c \in calls : c.owner = "form" => DOMAIN c.change \subseteq FormFields
SetIInv == SetTyped /\ Mirrored /\ Numbered /\ Answered /\ OneWaits /\ Drafted /\ FormFenced /\ CallsFenced /\ FormsOnly

(***************************************************************************)
(* Operators.                                                              *)
(***************************************************************************)
LEMMA FieldsAre ==
    /\ FormFields \subseteq Fields /\ Inject \in Fields /\ Space \in Fields
    /\ Inject \notin FormFields /\ Space \notin FormFields
    /\ \A f : Base(f) \in Values
    /\ None \notin Values /\ "invalid" \notin Values /\ None # "invalid"
BY SettingsAssumption DEF SettingsAssumption, Fields, Base, Values, None

LEMMA EffectiveIs ==
    ASSUME NEW m \in DocStates, NEW f \in Fields
    PROVE  /\ Effective(m, f) \in Values
           /\ ~Overridden(m, f) => Effective(m, f) = Base(f)
           /\ m.user[f] \in Values => Effective(m, f) = m.user[f]
BY FieldsAre DEF Effective, Overridden, DocStates, Entries, Values, None

LEMMA CleanIs ==
    /\ CleanForm \in FormStates /\ CleanForm.fence = 0 /\ ~CleanForm.saving /\ ~CleanForm.failed /\ ~CleanForm.conflict
    /\ ~CleanForm.idle
    /\ \A f \in FormFields : CleanForm.draft[f] = None
    /\ CleanForm.draft = [f \in FormFields |-> None]
    /\ CleanForm.seen = [f \in FormFields |-> 0]
BY DEF CleanForm, FormStates, Drafts, Entries

LEMMA SyncIs ==
    ASSUME NEW z \in ZoneStates, NEW m \in DocStates
    PROVE  /\ SwitchSync(z, m) \in ZoneStates /\ SwitchSync(z, m).pending = z.pending /\ SwitchSync(z, m).before = z.before
           /\ SpaceSync(z, m) \in ZoneStates /\ SpaceSync(z, m).pending = z.pending /\ SpaceSync(z, m).before = z.before
<1>1. Effective(m, Inject) \in Entries
  BY FieldsAre, EffectiveIs DEF Entries
<1>2. PICK a : a = [z EXCEPT !.value = Effective(m, Inject), !.undo = None]
  OBVIOUS
<1>3. a \in ZoneStates /\ a.pending = z.pending /\ a.before = z.before
  BY <1>1, <1>2 DEF ZoneStates, Entries
<1>4. PICK b : b = [z EXCEPT !.undo = None]
  OBVIOUS
<1>5. b \in ZoneStates /\ b.pending = z.pending /\ b.before = z.before
  BY <1>4 DEF ZoneStates, Entries
<1> QED
  BY <1>2, <1>3, <1>4, <1>5 DEF SwitchSync, SpaceSync

LEMMA ClosedIs ==
    ASSUME NEW z \in ZoneStates
    PROVE  Closed(z) \in ZoneStates /\ ~Closed(z).pending
<1>1. PICK a : a = [z EXCEPT !.pending = FALSE, !.undoing = FALSE, !.before = 0, !.prior = None]
  OBVIOUS
<1>2. a \in ZoneStates /\ ~a.pending
  BY <1>1 DEF ZoneStates, Entries
<1> QED
  BY <1>1, <1>2 DEF Closed

\* Steps that leave the calls and the document alone keep what is said of them.
LEMMA CallsStay ==
    ASSUME SetIInv, UNCHANGED <<doc, calls, external>>, used'.presses = used.presses
    PROVE  /\ Numbered' /\ Answered' /\ CallsFenced' /\ FormsOnly' /\ \A c \in calls' : CallState(c)
<1> QED
  BY DEF SetIInv, SetTyped, Numbered, Answered, CallsFenced, FormsOnly, Unseen

(***************************************************************************)
(* The form.                                                               *)
(***************************************************************************)
\* An edit that leaves the fence alone, or fences the draft for the first time.
LEMMA FormEdited ==
    ASSUME SetIInv, NEW f \in FormFields, NEW w \in Entries \cup {"invalid"}, NEW n \in FormStates,
           form' = n, ~form.saving, ~n.saving, ~n.conflict, n.draft = [form.draft EXCEPT ![f] = w],
           n.fence \in {form.fence, 0, mirror.rev},
           ~n.idle => \A g \in FormFields : n.draft[g] # None => n.fence # 0 /\ Unseen(g, n.seen, n.fence),
           used' \in [external : Nat, presses : Nat, edits : Nat, faults : Nat], used'.presses = used.presses,
           UNCHANGED <<doc, mirror, calls, switch, space, external>>
    PROVE  SetIInv'
<1>1. SetTyped /\ Mirrored /\ OneWaits /\ Drafted
  BY DEF SetIInv
<1>2. SetTyped' /\ Numbered' /\ Answered' /\ CallsFenced' /\ FormsOnly'
  BY <1>1, CallsStay DEF SetTyped
<1>3. Mirrored'
  BY <1>1 DEF Mirrored, SetTyped, DocStates
<1>4. OneWaits' /\ Drafted'
  BY <1>1 DEF OneWaits, Drafted
<1>5. FormFenced'
  BY DEF FormFenced, Unseen
<1> QED
  BY <1>2, <1>3, <1>4, <1>5 DEF SetIInv

LEMMA SpendIs ==
    ASSUME used \in [external : Nat, presses : Nat, edits : Nat, faults : Nat], NEW k \in {"external", "presses", "edits", "faults"}, Spend(k)
    PROVE  /\ used' \in [external : Nat, presses : Nat, edits : Nat, faults : Nat]
           /\ used'.presses = IF k = "presses" THEN used.presses + 1 ELSE used.presses
<1> QED
  BY DEF Spend

LEMMA EditKeeps ==
    ASSUME SetIInv, NEW f \in FormFields, NEW v \in Values \cup {"invalid"}, Edit(f, v)
    PROVE  SetIInv'
<1>1. SetTyped /\ Mirrored /\ FormFenced /\ form \in FormStates /\ ~form.saving /\ mirror.rev \in Nat \ {0}
      /\ external \in [FormFields -> Nat] /\ used \in [external : Nat, presses : Nat, edits : Nat, faults : Nat]
  BY DEF SetIInv, SetTyped, Edit, DocStates
<1>2. /\ used' \in [external : Nat, presses : Nat, edits : Nat, faults : Nat] /\ used'.presses = used.presses
      /\ UNCHANGED <<doc, mirror, calls, switch, space, external>>
  <2>1. PICK k \in {"external", "presses", "edits", "faults"} : k = "edits"
    OBVIOUS
  <2>2. Spend(k)
    BY <2>1 DEF Edit
  <2> QED
    BY <1>1, <2>1, <2>2, SpendIs DEF Edit
<1>3. CASE form' = DropDraft(f)
  <2>1. PICK d : d = [form.draft EXCEPT ![f] = None]
    OBVIOUS
  <2>2. d \in Drafts /\ d[f] = None
    BY <1>1, <2>1 DEF FormStates, Drafts, Entries
  <2>3. PICK fence \in Nat : fence = IF d = CleanForm.draft THEN 0 ELSE form.fence
    BY <1>1 DEF FormStates
  <2>4. PICK n : n = [form EXCEPT !.draft = d, !.failed = FALSE, !.conflict = FALSE, !.seen[f] = 0, !.fence = fence]
    OBVIOUS
  <2>5. /\ n \in FormStates /\ ~n.saving /\ ~n.conflict /\ n.draft = d /\ n.fence = fence /\ n.idle = form.idle
        /\ n.seen = [form.seen EXCEPT ![f] = 0]
    BY <1>1, <2>2, <2>4 DEF FormStates
  <2>6. form' = n
    BY <1>3, <2>1, <2>3, <2>4 DEF DropDraft
  <2>7. ~n.idle => \A g \in FormFields : n.draft[g] # None => n.fence # 0 /\ Unseen(g, n.seen, n.fence)
    <3> SUFFICES ASSUME ~n.idle, NEW g \in FormFields, n.draft[g] # None PROVE n.fence # 0 /\ Unseen(g, n.seen, n.fence)
      OBVIOUS
    <3>1. g # f /\ form.draft[g] # None
      BY <1>1, <2>1, <2>2, <2>5 DEF FormStates, Drafts
    <3>2. form.fence # 0 /\ Unseen(g, form.seen, form.fence)
      BY <1>1, <2>5, <3>1 DEF FormFenced
    <3>3. n.fence = form.fence
      BY <2>3, <2>5, CleanIs
    <3>4. n.seen[g] = form.seen[g]
      BY <1>1, <2>5, <3>1 DEF FormStates
    <3> QED
      BY <3>2, <3>3, <3>4 DEF Unseen
  <2>8. PICK w \in Entries \cup {"invalid"} : w = None
    BY DEF Entries
  <2>9. n.fence \in {form.fence, 0, mirror.rev} /\ n.draft = [form.draft EXCEPT ![f] = w]
    BY <2>1, <2>3, <2>5, <2>8
  <2> QED
    BY <1>1, <1>2, <2>5, <2>6, <2>7, <2>9, FormEdited
<1>4. CASE form' = Stage(f, v)
  <2>1. PICK d : d = [form.draft EXCEPT ![f] = v]
    OBVIOUS
  <2>2. d \in Drafts
    BY <1>1, <2>1 DEF FormStates, Drafts, Entries
  <2>3. PICK fence \in Nat : fence = IF NothingLeft(d, mirror) THEN 0 ELSE IF form.fence = 0 THEN mirror.rev ELSE form.fence
    BY <1>1 DEF FormStates
  <2>4. PICK idle \in BOOLEAN : idle = (form.idle \/ NothingLeft(d, mirror))
    OBVIOUS
  <2>5. PICK n : n = [form EXCEPT !.draft = d, !.failed = FALSE, !.conflict = FALSE, !.fence = fence, !.seen[f] = mirror.rev, !.idle = idle]
    OBVIOUS
  <2>6. /\ n \in FormStates /\ ~n.saving /\ ~n.conflict /\ n.draft = d /\ n.fence = fence /\ n.idle = idle
        /\ n.seen = [form.seen EXCEPT ![f] = mirror.rev]
    BY <1>1, <2>2, <2>5 DEF FormStates
  <2>7. form' = n
    <3>1. form.idle \in BOOLEAN
      BY <1>1 DEF FormStates
    <3> QED
      BY <1>4, <2>1, <2>3, <2>4, <2>5, <3>1 DEF Stage
  <2>8. ~n.idle => \A g \in FormFields : n.draft[g] # None => n.fence # 0 /\ Unseen(g, n.seen, n.fence)
    <3> SUFFICES ASSUME ~n.idle, NEW g \in FormFields, n.draft[g] # None PROVE n.fence # 0 /\ Unseen(g, n.seen, n.fence)
      OBVIOUS
    <3>1. ~form.idle /\ n.fence = IF form.fence = 0 THEN mirror.rev ELSE form.fence
      BY <2>3, <2>4, <2>6
    <3>2. n.fence # 0 /\ n.fence <= mirror.rev
      BY <1>1, <3>1 DEF Mirrored
    <3>3. CASE g = f
      <4>1. n.seen[g] = mirror.rev
        BY <1>1, <2>6, <3>3 DEF FormStates
      <4> QED
        BY <1>1, <2>6, <3>2, <4>1 DEF Unseen
    <3>4. CASE g # f
      <4>1. n.seen[g] = form.seen[g] /\ form.draft[g] # None
        BY <1>1, <2>1, <2>6, <3>4 DEF FormStates, Drafts
      <4> QED
        BY <1>1, <3>1, <3>2, <4>1 DEF FormFenced, Unseen
    <3> QED
      BY <3>3, <3>4
  <2>9. PICK w \in Entries \cup {"invalid"} : w = v
    BY DEF Entries
  <2>10. n.fence \in {form.fence, 0, mirror.rev} /\ n.draft = [form.draft EXCEPT ![f] = w]
    BY <2>1, <2>3, <2>6, <2>9
  <2> QED
    BY <1>1, <1>2, <2>6, <2>7, <2>8, <2>10, FormEdited
<1> QED
  BY <1>3, <1>4 DEF Edit

LEMMA DiscardKeeps ==
    ASSUME SetIInv, Discard
    PROVE  SetIInv'
<1>1. /\ SetTyped /\ Mirrored /\ OneWaits /\ Drafted /\ ~form.saving /\ form' = CleanForm
      /\ UNCHANGED <<doc, mirror, calls, switch, space, used, external>>
  BY DEF SetIInv, Discard
<1>2. SetTyped' /\ Numbered' /\ Answered' /\ CallsFenced' /\ FormsOnly'
  BY <1>1, CallsStay, CleanIs DEF SetTyped
<1>3. Mirrored'
  BY <1>1, CleanIs DEF Mirrored, SetTyped, DocStates
<1>4. OneWaits' /\ Drafted'
  BY <1>1, CleanIs DEF OneWaits, Drafted
<1>5. FormFenced'
  BY <1>1, CleanIs DEF FormFenced
<1> QED
  BY <1>2, <1>3, <1>4, <1>5 DEF SetIInv

(***************************************************************************)
(* A write is made.                                                        *)
(***************************************************************************)
LEMMA CallIs ==
    ASSUME SetIInv, NEW owner \in Owners, NEW change, Change(change), NEW fence \in Nat, fence <= mirror.rev,
           Call(owner, change, fence), UNCHANGED <<doc, external>>,
           owner = "form" => DOMAIN change \subseteq FormFields,
           owner = "form" /\ ~form.idle => \A f \in DOMAIN change : Unseen(f, form.seen, fence)
    PROVE  /\ used' \in [external : Nat, presses : Nat, edits : Nat, faults : Nat]
           /\ Numbered' /\ Answered' /\ CallsFenced' /\ FormsOnly' /\ (\A c \in calls' : CallState(c))
           /\ \A c \in calls : ~c.waits
           /\ \E n : /\ calls' = calls \cup {n} /\ n.waits /\ n.owner = owner /\ n.change = change /\ n.fence = fence
<1>1. /\ SetTyped /\ Mirrored /\ Numbered /\ Answered /\ CallsFenced /\ FormsOnly /\ form \in FormStates
      /\ used \in [external : Nat, presses : Nat, edits : Nat, faults : Nat] /\ doc.rev \in Nat /\ mirror.rev \in Nat
      /\ mirror.rev <= doc.rev
  BY DEF SetIInv, SetTyped, DocStates, Mirrored
<1>2. used' \in [external : Nat, presses : Nat, edits : Nat, faults : Nat] /\ used'.presses = used.presses + 1
  <2>1. PICK k \in {"external", "presses", "edits", "faults"} : k = "presses"
    OBVIOUS
  <2>2. Spend(k)
    BY <2>1 DEF Call
  <2> QED
    BY <1>1, <2>1, <2>2, SpendIs
<1>3. \A c \in calls : ~c.waits
  BY <1>1 DEF Call, Busy, SetTyped, CallState
<1>4. PICK known \in FormStates : known = IF owner = "form" THEN form ELSE CleanForm
  BY <1>1, CleanIs
<1>5. PICK n : n = [id |-> used.presses, owner |-> owner, change |-> change, fence |-> fence,
                    state |-> "sent", answer |-> Unanswered, waits |-> TRUE, seen |-> known.seen, idle |-> known.idle]
  OBVIOUS
<1>6. calls' = calls \cup {n}
  BY <1>4, <1>5 DEF Call
<1>7. /\ n.id = used.presses /\ n.owner = owner /\ n.change = change /\ n.fence = fence /\ n.state = "sent"
      /\ n.waits /\ n.seen = known.seen /\ n.idle = known.idle
  BY <1>5
<1>8. CallState(n)
  BY <1>1, <1>4, <1>5 DEF CallState, FormStates
<1>9. \A c \in calls' : CallState(c)
  BY <1>1, <1>6, <1>8 DEF SetTyped
<1>10. Numbered'
  <2>1. used.presses \in Nat /\ \A c \in calls : c.id \in Nat
    BY <1>1 DEF SetTyped, CallState
  <2> QED
    BY <1>1, <1>2, <1>6, <1>7, <2>1 DEF Numbered
<1>11. Answered'
  BY <1>1, <1>6, <1>7 DEF Answered
<1>12. CallsFenced'
  <2>1. n.owner = "form" /\ ~n.idle => \A f \in DOMAIN n.change : Unseen(f, n.seen, n.fence)
    BY <1>4, <1>7
  <2> QED
    BY <1>1, <1>6, <2>1 DEF CallsFenced, Unseen
<1>13. FormsOnly'
  BY <1>1, <1>6, <1>7 DEF FormsOnly
<1> QED
  BY <1>2, <1>3, <1>6, <1>7, <1>9, <1>10, <1>11, <1>12, <1>13

LEMMA SaveKeeps ==
    ASSUME SetIInv, Save
    PROVE  SetIInv'
<1> DEFINE change == [f \in Pending(form.draft, mirror) |-> IF form.draft[f] = Base(f) THEN None ELSE form.draft[f]]
<1>1. /\ SetTyped /\ Mirrored /\ OneWaits /\ FormFenced /\ ~form.saving /\ Call("form", change, Fence)
      /\ form' = [form EXCEPT !.saving = TRUE, !.failed = FALSE, !.conflict = FALSE]
      /\ UNCHANGED <<doc, mirror, switch, space, external>>
      /\ form \in FormStates /\ mirror.rev \in Nat \ {0}
  BY DEF SetIInv, Save, SetTyped, DocStates
<1>2. /\ DOMAIN change \subseteq FormFields
      /\ \A f \in DOMAIN change : form.draft[f] \in Values /\ change[f] = IF form.draft[f] = Base(f) THEN None ELSE form.draft[f]
  BY DEF Pending
<1>3. Change(change)
  BY <1>2, FieldsAre DEF Change, Entries
<1>4. PICK fence \in Nat : fence = Fence
  BY <1>1 DEF Fence, FormStates
<1>5. fence <= mirror.rev /\ (form.fence # 0 => fence = form.fence)
  BY <1>1, <1>4 DEF Fence, Mirrored
<1>6. ~form.idle => \A f \in DOMAIN change : Unseen(f, form.seen, fence)
  <2> SUFFICES ASSUME ~form.idle, NEW f \in DOMAIN change PROVE Unseen(f, form.seen, fence)
    OBVIOUS
  <2>1. f \in FormFields /\ form.draft[f] # None
    BY <1>2, FieldsAre
  <2> QED
    BY <1>1, <1>5, <2>1 DEF FormFenced
<1>7. PICK c : c = change
  OBVIOUS
<1>8. PICK owner \in Owners : owner = "form"
  BY DEF Owners
<1>9. Call(owner, c, fence) /\ Change(c) /\ DOMAIN c \subseteq FormFields /\ (~form.idle => \A f \in DOMAIN c : Unseen(f, form.seen, fence))
  BY <1>1, <1>2, <1>3, <1>4, <1>6, <1>7, <1>8
<1>10. /\ used' \in [external : Nat, presses : Nat, edits : Nat, faults : Nat]
       /\ Numbered' /\ Answered' /\ CallsFenced' /\ FormsOnly' /\ (\A d \in calls' : CallState(d))
       /\ \A d \in calls : ~d.waits
       /\ \E n : calls' = calls \cup {n} /\ n.waits /\ n.owner = owner /\ n.change = c /\ n.fence = fence
  BY <1>1, <1>5, <1>9, CallIs
<1>11. PICK n : calls' = calls \cup {n} /\ n.waits /\ n.owner = "form" /\ n.change = c /\ n.fence = fence
  BY <1>8, <1>10
<1>12. PICK m : m = [form EXCEPT !.saving = TRUE, !.failed = FALSE, !.conflict = FALSE]
  OBVIOUS
<1>13. /\ m \in FormStates /\ form' = m /\ m.saving /\ ~m.conflict /\ m.draft = form.draft /\ m.fence = form.fence
       /\ m.seen = form.seen /\ m.idle = form.idle
  BY <1>1, <1>12 DEF FormStates
<1>14. SetTyped'
  BY <1>1, <1>10, <1>13 DEF SetTyped
<1>15. Mirrored'
  BY <1>1, <1>13 DEF Mirrored
<1>16. OneWaits'
  BY <1>1, <1>10, <1>11, <1>13 DEF OneWaits
<1>17. Drafted'
  <2>1. \A f \in DOMAIN c : f \in FormFields /\ form.draft[f] \in Values /\ c[f] = IF form.draft[f] = Base(f) THEN None ELSE form.draft[f]
    BY <1>2, <1>7
  <2>2. DraftIs(n)'
    BY <1>11, <1>13, <2>1 DEF DraftIs
  <2> QED
    BY <1>10, <1>11, <2>2 DEF Drafted
<1>18. FormFenced'
  BY <1>1, <1>13 DEF FormFenced, Unseen
<1> QED
  BY <1>10, <1>14, <1>15, <1>16, <1>17, <1>18 DEF SetIInv

LEMMA WaitsIs ==
    ASSUME NEW z \in ZoneStates, NEW v \in Values, NEW undoing \in BOOLEAN, mirror \in DocStates
    PROVE  Waits(z, v, undoing) \in ZoneStates /\ Waits(z, v, undoing).pending /\ Waits(z, v, undoing).before = mirror.rev
<1>1. PICK undo \in Entries : undo = IF undoing THEN z.undo ELSE None
  BY DEF ZoneStates, Entries
<1>2. PICK a : a = [z EXCEPT !.pending = TRUE, !.asked = v, !.prior = z.value, !.undo = undo, !.undoing = undoing, !.before = mirror.rev]
  OBVIOUS
<1>3. a \in ZoneStates /\ a.pending /\ a.before = mirror.rev
  BY <1>2 DEF ZoneStates, Entries, DocStates
<1> QED
  BY <1>1, <1>2, <1>3 DEF Waits

\* A write of the switch or of the workspace's control.
LEMMA ControlKeeps ==
    ASSUME SetIInv, NEW owner \in {"switch", "space"}, NEW change, Change(change), Call(owner, change, mirror.rev),
           NEW s \in ZoneStates, NEW w \in ZoneStates, switch' = s, space' = w,
           IF owner = "switch" THEN s.pending /\ s.before = mirror.rev /\ w = space ELSE w.pending /\ w.before = mirror.rev /\ s = switch,
           UNCHANGED <<doc, mirror, form, external>>
    PROVE  SetIInv'
<1>1. SetTyped /\ Mirrored /\ OneWaits /\ FormFenced /\ mirror.rev \in Nat \ {0}
  BY DEF SetIInv, SetTyped, DocStates
<1>2. PICK fence \in Nat : fence = mirror.rev
  BY <1>1
<1>3. /\ used' \in [external : Nat, presses : Nat, edits : Nat, faults : Nat]
      /\ Numbered' /\ Answered' /\ CallsFenced' /\ FormsOnly' /\ (\A d \in calls' : CallState(d))
      /\ \A d \in calls : ~d.waits
      /\ \E n : calls' = calls \cup {n} /\ n.waits /\ n.owner = owner /\ n.change = change /\ n.fence = fence
  BY <1>1, <1>2, CallIs DEF Owners
<1>4. PICK n : calls' = calls \cup {n} /\ n.waits /\ n.owner = owner /\ n.change = change /\ n.fence = mirror.rev
  BY <1>2, <1>3
<1>5. SetTyped'
  BY <1>1, <1>3 DEF SetTyped
<1>6. Mirrored' /\ FormFenced'
  BY <1>1 DEF Mirrored, FormFenced, Unseen
<1>7. OneWaits'
  BY <1>1, <1>3, <1>4 DEF OneWaits
<1>8. Drafted'
  BY <1>3, <1>4 DEF Drafted
<1> QED
  BY <1>3, <1>5, <1>6, <1>7, <1>8 DEF SetIInv

LEMMA SwitchToKeeps ==
    ASSUME SetIInv, NEW v \in Values, NEW shown \in Entries, NEW undoing \in BOOLEAN, SwitchTo(v, shown, undoing)
    PROVE  SetIInv'
<1>1. switch \in ZoneStates /\ space \in ZoneStates /\ mirror \in DocStates
  BY DEF SetIInv, SetTyped
<1>2. PICK change : change = [f \in {Inject} |-> IF v = Base(Inject) THEN None ELSE v]
  OBVIOUS
<1>3. Change(change)
  BY <1>2, FieldsAre DEF Change, Entries
<1>4. PICK z \in ZoneStates : z = Waits(switch, v, undoing) /\ z.pending /\ z.before = mirror.rev
  BY <1>1, WaitsIs
<1>5. PICK s : s = [z EXCEPT !.value = shown]
  OBVIOUS
<1>6. s \in ZoneStates /\ s.pending /\ s.before = mirror.rev
  BY <1>4, <1>5 DEF ZoneStates
<1>7. switch' = s /\ space' = space /\ Call("switch", change, mirror.rev) /\ UNCHANGED <<doc, mirror, form, external>>
  BY <1>2, <1>4, <1>5 DEF SwitchTo
<1>8. PICK owner \in {"switch", "space"} : owner = "switch"
  OBVIOUS
<1>9. Call(owner, change, mirror.rev)
  BY <1>7, <1>8
<1> QED
  BY <1>1, <1>3, <1>6, <1>7, <1>8, <1>9, ControlKeeps

LEMMA SpaceToKeeps ==
    ASSUME SetIInv, NEW v \in Values, NEW undoing \in BOOLEAN, SpaceTo(v, undoing)
    PROVE  SetIInv'
<1>1. switch \in ZoneStates /\ space \in ZoneStates /\ mirror \in DocStates
  BY DEF SetIInv, SetTyped
<1>2. PICK change : change = [f \in {Space} |-> v]
  OBVIOUS
<1>3. Change(change)
  BY <1>2, FieldsAre DEF Change, Entries
<1>4. PICK z \in ZoneStates : z = Waits(space, v, undoing) /\ z.pending /\ z.before = mirror.rev
  BY <1>1, WaitsIs
<1>5. PICK prior \in Entries : prior = Effective(mirror, Space)
  BY <1>1, FieldsAre, EffectiveIs DEF Entries
<1>6. PICK s : s = [z EXCEPT !.prior = prior]
  OBVIOUS
<1>7. s \in ZoneStates /\ s.pending /\ s.before = mirror.rev
  BY <1>4, <1>6 DEF ZoneStates
<1>8. space' = s /\ switch' = switch /\ Call("space", change, mirror.rev) /\ UNCHANGED <<doc, mirror, form, external>>
  BY <1>2, <1>4, <1>5, <1>6 DEF SpaceTo
<1>9. PICK owner \in {"switch", "space"} : owner = "space"
  OBVIOUS
<1>10. Call(owner, change, mirror.rev)
  BY <1>8, <1>9
<1> QED
  BY <1>1, <1>3, <1>7, <1>8, <1>9, <1>10, ControlKeeps

LEMMA UndoExpiresKeeps ==
    ASSUME SetIInv, UndoExpires
    PROVE  SetIInv'
<1>1. /\ SetTyped /\ Mirrored /\ OneWaits /\ Drafted /\ FormFenced /\ switch \in ZoneStates /\ space \in ZoneStates
      /\ UNCHANGED <<doc, mirror, calls, form, used, external>>
  BY DEF SetIInv, SetTyped, UndoExpires
<1>2. /\ switch' \in ZoneStates /\ switch'.pending = switch.pending /\ switch'.before = switch.before
      /\ space' \in ZoneStates /\ space'.pending = space.pending /\ space'.before = space.before
  <2>1. PICK s : s = [switch EXCEPT !.undo = None]
    OBVIOUS
  <2>2. PICK w : w = [space EXCEPT !.undo = None]
    OBVIOUS
  <2>3. s \in ZoneStates /\ s.pending = switch.pending /\ s.before = switch.before
    BY <1>1, <2>1 DEF ZoneStates, Entries
  <2>4. w \in ZoneStates /\ w.pending = space.pending /\ w.before = space.before
    BY <1>1, <2>2 DEF ZoneStates, Entries
  <2>5. (switch' = s \/ switch' = switch) /\ (space' = w \/ space' = space)
    BY <2>1, <2>2 DEF UndoExpires
  <2> QED
    BY <1>1, <2>3, <2>4, <2>5
<1>3. SetTyped' /\ Numbered' /\ Answered' /\ CallsFenced' /\ FormsOnly'
  BY <1>1, <1>2, CallsStay DEF SetTyped
<1>4. Mirrored' /\ Drafted' /\ FormFenced'
  BY <1>1 DEF Mirrored, Drafted, DraftIs, FormFenced, Unseen
<1>5. OneWaits'
  BY <1>1, <1>2 DEF OneWaits
<1> QED
  BY <1>3, <1>4, <1>5 DEF SetIInv

(***************************************************************************)
(* The host, and the other editor.                                         *)
(***************************************************************************)
LEMMA WriteElsewhereKeeps ==
    ASSUME SetIInv, NEW f \in Fields, NEW v \in Values, WriteElsewhere(f, v)
    PROVE  SetIInv'
<1>1. /\ SetTyped /\ Mirrored /\ Numbered /\ Answered /\ OneWaits /\ Drafted /\ FormFenced /\ CallsFenced /\ FormsOnly
      /\ doc \in DocStates /\ mirror \in DocStates /\ form \in FormStates /\ external \in [FormFields -> Nat]
      /\ used \in [external : Nat, presses : Nat, edits : Nat, faults : Nat]
      /\ UNCHANGED <<mirror, calls, form, switch, space>>
      /\ \A c \in calls : CallState(c)
  BY DEF SetIInv, SetTyped, WriteElsewhere
<1>2. used' \in [external : Nat, presses : Nat, edits : Nat, faults : Nat] /\ used'.presses = used.presses
  <2>1. PICK k \in {"external", "presses", "edits", "faults"} : k = "external"
    OBVIOUS
  <2>2. Spend(k)
    BY <2>1 DEF WriteElsewhere
  <2> QED
    BY <1>1, <2>1, <2>2, SpendIs
<1>3. doc' \in DocStates /\ doc'.rev = doc.rev + 1
  BY <1>1 DEF WriteElsewhere, DocStates, Entries
<1>4. external' \in [FormFields -> Nat] /\ \A g \in FormFields : external'[g] \in {external[g], doc.rev + 1}
  BY <1>1 DEF WriteElsewhere, DocStates
<1>5. /\ mirror.rev \in Nat /\ doc.rev \in Nat /\ mirror.rev <= doc.rev /\ form.fence \in Nat /\ form.fence <= mirror.rev
      /\ \A g \in FormFields : external[g] <= doc.rev
  BY <1>1 DEF Mirrored, DocStates, FormStates
<1>6. \A c \in calls : c.fence \in Nat /\ c.fence <= doc.rev /\ (c.state # "sent" => c.answer.rev \in Nat)
  BY <1>1 DEF CallState, Numbered, DocStates
<1>7. \A g \in FormFields, n \in Nat, seen \in [FormFields -> Nat] : n <= doc.rev /\ Unseen(g, seen, n) => Unseen(g, seen, n)'
  BY <1>4, <1>5 DEF Unseen
<1>8. SetTyped'
  BY <1>1, <1>2, <1>3, <1>4 DEF SetTyped
<1>9. Mirrored'
  BY <1>1, <1>3, <1>4, <1>5 DEF Mirrored
<1>10. Numbered'
  BY <1>1, <1>2, <1>3, <1>5, <1>6 DEF Numbered
<1>11. Answered'
  <2> SUFFICES ASSUME NEW c \in calls
               PROVE  /\ c.state # "sent" => c.answer.rev <= doc'.rev /\ (c.answer.rev = doc'.rev => c.answer = doc')
                      /\ c.state = "landed" => c.answer.rev = c.fence + 1 /\ \A g \in FormFields : external'[g] # c.fence + 1
    BY <1>1 DEF Answered
  <2>1. /\ c.state # "sent" => c.answer.rev \in Nat /\ c.answer.rev <= doc.rev
        /\ c.state = "landed" => c.answer.rev = c.fence + 1 /\ \A g \in FormFields : external[g] # c.fence + 1
    BY <1>1, <1>6 DEF Answered
  <2>2. c.state = "landed" => c.fence + 1 <= doc.rev
    BY <2>1
  <2> QED
    BY <1>3, <1>4, <1>5, <1>6, <2>1, <2>2
<1>12. OneWaits' /\ Drafted' /\ FormsOnly'
  BY <1>1 DEF OneWaits, Drafted, DraftIs, FormsOnly
<1>13. FormFenced'
  <2>1. form.seen \in [FormFields -> Nat]
    BY <1>1 DEF FormStates
  <2>2. form.fence <= doc.rev
    BY <1>5
  <2> QED
    BY <1>1, <1>5, <1>7, <2>1, <2>2 DEF FormFenced
<1>14. CallsFenced'
  <2>1. \A c \in calls : c.seen \in [FormFields -> Nat]
    BY <1>1 DEF CallState
  <2> QED
    BY <1>1, <1>6, <1>7, <2>1 DEF CallsFenced, FormsOnly
<1> QED
  BY <1>8, <1>9, <1>10, <1>11, <1>12, <1>13, <1>14 DEF SetIInv

\* A call that the host has answered is the same call.
LEMMA MarkedCall ==
    ASSUME SetIInv, NEW c \in calls, NEW d, CallState(d), Now(c, d), UNCHANGED <<form, switch, space, external>>,
           d.id = c.id, d.owner = c.owner, d.change = c.change, d.fence = c.fence, d.seen = c.seen, d.idle = c.idle,
           d.waits = c.waits
    PROVE  /\ OneWaits' /\ Drafted' /\ CallsFenced' /\ FormsOnly' /\ (\A x \in calls' : CallState(x))
           /\ \A x, y \in calls' : x.id = y.id => x = y
<1>1. /\ Numbered /\ OneWaits /\ Drafted /\ CallsFenced /\ FormsOnly /\ calls' = (calls \ {c}) \cup {d}
      /\ \A x \in calls : CallState(x)
  BY DEF SetIInv, SetTyped, Now
<1>2. \A x \in calls' : x = d \/ (x \in calls /\ x # c)
  BY <1>1
<1>3. \A x, y \in calls' : x.id = y.id => x = y
  BY <1>1, <1>2 DEF Numbered
<1>4. OneWaits'
  <2>1. \A x, y \in calls' : x.waits /\ y.waits => x = y
    BY <1>1, <1>2 DEF OneWaits
  <2>2. \A o \in Owners : (\E x \in calls : x.waits /\ x.owner = o) <=> (\E x \in calls' : x.waits /\ x.owner = o)
    BY <1>1
  <2>3. /\ (\E x \in calls : x.waits /\ x.owner = "form") <=> (\E x \in calls' : x.waits /\ x.owner = "form")
        /\ (\E x \in calls : x.waits /\ x.owner = "switch") <=> (\E x \in calls' : x.waits /\ x.owner = "switch")
        /\ (\E x \in calls : x.waits /\ x.owner = "space") <=> (\E x \in calls' : x.waits /\ x.owner = "space")
    BY <1>1
  <2>4. \A x \in calls' : x.waits => /\ x.owner = "switch" => switch.before = x.fence
                                     /\ x.owner = "space" => space.before = x.fence
    BY <1>1, <1>2 DEF OneWaits
  <2> QED
    BY <1>1, <2>1, <2>3, <2>4 DEF OneWaits
<1>5. Drafted'
  BY <1>1, <1>2 DEF Drafted, DraftIs
<1>6. CallsFenced' /\ FormsOnly'
  BY <1>1, <1>2 DEF CallsFenced, FormsOnly, Unseen
<1> QED
  BY <1>1, <1>3, <1>4, <1>5, <1>6

LEMMA AnsweredCall ==
    ASSUME NEW c, CallState(c), NEW state \in {"landed", "refused"}, NEW answer \in DocStates
    PROVE  [c EXCEPT !.state = state, !.answer = answer]
              = [id |-> c.id, owner |-> c.owner, change |-> c.change, fence |-> c.fence, state |-> state,
                 answer |-> answer, waits |-> c.waits, seen |-> c.seen, idle |-> c.idle]
<1>1. PICK id, owner, change, fence, waits, seen, idle, s, a :
          /\ c = [id |-> id, owner |-> owner, change |-> change, fence |-> fence, state |-> s,
                  answer |-> a, waits |-> waits, seen |-> seen, idle |-> idle]
          /\ id = c.id /\ owner = c.owner /\ change = c.change /\ fence = c.fence /\ waits = c.waits /\ seen = c.seen /\ idle = c.idle
  BY DEF CallState
<1>2. PICK d : d = [c EXCEPT !.state = state, !.answer = answer]
  OBVIOUS
<1>3. d = [id |-> id, owner |-> owner, change |-> change, fence |-> fence, state |-> state,
           answer |-> answer, waits |-> waits, seen |-> seen, idle |-> idle]
  BY <1>1, <1>2
<1> QED
  BY <1>1, <1>2, <1>3

LEMMA LandKeeps ==
    ASSUME SetIInv, NEW c \in calls, Land(c)
    PROVE  SetIInv'
<1>1. /\ SetTyped /\ Mirrored /\ Numbered /\ Answered /\ FormFenced /\ CallState(c)
      /\ doc \in DocStates /\ mirror \in DocStates /\ doc.rev \in Nat /\ mirror.rev \in Nat
      /\ c.state = "sent" /\ c.fence = doc.rev
      /\ UNCHANGED <<mirror, form, switch, space, used, external>>
  BY DEF SetIInv, SetTyped, Land, DocStates
<1>2. doc' \in DocStates /\ doc'.rev = doc.rev + 1
  <2>1. PICK u \in Landings(c, doc.user) : doc' = [rev |-> doc.rev + 1, user |-> u]
    BY DEF Land
  <2>2. u \in [Fields -> Entries]
    BY DEF Landings, Entries
  <2> QED
    BY <1>1, <2>1, <2>2 DEF DocStates
<1>3. PICK state \in {"landed", "refused"} : state = "landed"
  OBVIOUS
<1>4. PICK answer \in DocStates : answer = doc'
  BY <1>2
<1>d. PICK d : d = [id |-> c.id, owner |-> c.owner, change |-> c.change, fence |-> c.fence, state |-> state,
                    answer |-> answer, waits |-> c.waits, seen |-> c.seen, idle |-> c.idle]
  OBVIOUS
<1>5. Now(c, d)
  <2>1. CallState(c)
    BY <1>1
  <2>2. d = [c EXCEPT !.state = state, !.answer = answer]
    BY <1>d, <2>1, AnsweredCall
  <2> QED
    BY <1>3, <1>4, <2>2 DEF Land
<1>6. /\ CallState(d) /\ d.state = "landed" /\ d.answer = doc'
      /\ d.id = c.id /\ d.owner = c.owner /\ d.change = c.change /\ d.fence = c.fence /\ d.seen = c.seen /\ d.idle = c.idle
      /\ d.waits = c.waits
  <2>1. CallState(c)
    BY <1>1
  <2> QED
    BY <1>3, <1>4, <1>d, <2>1 DEF CallState
<1>7. /\ OneWaits' /\ Drafted' /\ CallsFenced' /\ FormsOnly' /\ (\A x \in calls' : CallState(x))
      /\ \A x, y \in calls' : x.id = y.id => x = y
  BY <1>1, <1>5, <1>6, MarkedCall
<1>8. \A x \in calls' : x = d \/ x \in calls
  BY <1>5 DEF Now
<1>9. SetTyped'
  BY <1>1, <1>2, <1>7 DEF SetTyped
<1>10. Mirrored'
  BY <1>1, <1>2 DEF Mirrored, SetTyped
<1>11. Numbered'
  <2>1. \A x \in calls : x.fence \in Nat
    BY <1>1 DEF SetTyped, CallState
  <2> QED
    BY <1>1, <1>2, <1>6, <1>7, <1>8, <2>1 DEF Numbered
<1>12. Answered'
  <2>1. \A x \in calls : /\ x.state # "sent" => x.answer.rev \in Nat /\ x.answer.rev <= doc.rev
                         /\ x.state = "landed" => x.answer.rev = x.fence + 1 /\ \A f \in FormFields : external[f] # x.fence + 1
    BY <1>1 DEF Answered, SetTyped, CallState, DocStates
  <2>2. \A f \in FormFields : external[f] \in Nat /\ external[f] <= doc.rev
    BY <1>1 DEF Mirrored, SetTyped
  <2> SUFFICES ASSUME NEW x \in calls'
               PROVE  /\ x.state # "sent" => x.answer.rev <= doc'.rev /\ (x.answer.rev = doc'.rev => x.answer = doc')
                      /\ x.state = "landed" => x.answer.rev = x.fence + 1 /\ \A f \in FormFields : external[f] # x.fence + 1
    BY <1>1 DEF Answered
  <2>3. CASE x = d
    BY <1>1, <1>2, <1>6, <2>2, <2>3
  <2>4. CASE x \in calls
    BY <1>1, <1>2, <2>1, <2>4
  <2> QED
    BY <1>8, <2>3, <2>4
<1>13. FormFenced'
  BY <1>1 DEF FormFenced, Unseen
<1> QED
  BY <1>7, <1>9, <1>10, <1>11, <1>12, <1>13 DEF SetIInv

LEMMA RefuseKeeps ==
    ASSUME SetIInv, NEW c \in calls, Refuse(c)
    PROVE  SetIInv'
<1>1. /\ SetTyped /\ Mirrored /\ Numbered /\ Answered /\ FormFenced /\ CallState(c)
      /\ doc \in DocStates /\ used \in [external : Nat, presses : Nat, edits : Nat, faults : Nat]
      /\ UNCHANGED <<doc, mirror, form, switch, space, external>>
  BY DEF SetIInv, SetTyped, Refuse
<1>2. used' \in [external : Nat, presses : Nat, edits : Nat, faults : Nat] /\ used'.presses = used.presses
  <2>1. PICK k \in {"external", "presses", "edits", "faults"} : k = "faults"
    OBVIOUS
  <2>2. used' = used \/ Spend(k)
    BY <2>1 DEF Refuse, Fault
  <2> QED
    BY <1>1, <2>1, <2>2, SpendIs
<1>3. PICK state \in {"landed", "refused"} : state = "refused"
  OBVIOUS
<1>4. PICK answer \in DocStates : answer = doc
  BY <1>1
<1>d. PICK d : d = [id |-> c.id, owner |-> c.owner, change |-> c.change, fence |-> c.fence, state |-> state,
                    answer |-> answer, waits |-> c.waits, seen |-> c.seen, idle |-> c.idle]
  OBVIOUS
<1>5. Now(c, d)
  <2>1. CallState(c)
    BY <1>1
  <2>2. d = [c EXCEPT !.state = state, !.answer = answer]
    BY <1>d, <2>1, AnsweredCall
  <2> QED
    BY <1>3, <1>4, <2>2 DEF Refuse
<1>6. /\ CallState(d) /\ d.state = "refused" /\ d.answer = doc
      /\ d.id = c.id /\ d.owner = c.owner /\ d.change = c.change /\ d.fence = c.fence /\ d.seen = c.seen /\ d.idle = c.idle
      /\ d.waits = c.waits
  <2>1. CallState(c)
    BY <1>1
  <2> QED
    BY <1>3, <1>4, <1>d, <2>1 DEF CallState
<1>7. /\ OneWaits' /\ Drafted' /\ CallsFenced' /\ FormsOnly' /\ (\A x \in calls' : CallState(x))
      /\ \A x, y \in calls' : x.id = y.id => x = y
  BY <1>1, <1>5, <1>6, MarkedCall
<1>8. \A x \in calls' : x = d \/ x \in calls
  BY <1>5 DEF Now
<1>9. SetTyped'
  BY <1>1, <1>2, <1>7 DEF SetTyped
<1>10. Mirrored'
  BY <1>1 DEF Mirrored
<1>11. Numbered'
  BY <1>1, <1>2, <1>6, <1>7, <1>8 DEF Numbered
<1>12. Answered'
  <2>1. doc.rev \in Nat
    BY <1>1 DEF DocStates
  <2> QED
    BY <1>1, <1>6, <1>8, <2>1 DEF Answered
<1>13. FormFenced'
  BY <1>1 DEF FormFenced, Unseen
<1> QED
  BY <1>7, <1>9, <1>10, <1>11, <1>12, <1>13 DEF SetIInv

LEMMA PushKeeps ==
    ASSUME SetIInv, Push
    PROVE  SetIInv'
<1>1. /\ SetTyped /\ Mirrored /\ OneWaits /\ Drafted /\ FormFenced /\ doc \in DocStates
      /\ switch \in ZoneStates /\ space \in ZoneStates /\ mirror' = doc
      /\ UNCHANGED <<doc, calls, form, used, external>>
  BY DEF SetIInv, SetTyped, Push
<1>2. /\ switch' \in ZoneStates /\ switch'.pending = switch.pending /\ switch'.before = switch.before
      /\ space' \in ZoneStates /\ space'.pending = space.pending /\ space'.before = space.before
  BY <1>1, SyncIs DEF Push
<1>3. SetTyped' /\ Numbered' /\ Answered' /\ CallsFenced' /\ FormsOnly'
  BY <1>1, <1>2, CallsStay DEF SetTyped
<1>4. Mirrored'
  BY <1>1 DEF Mirrored, SetTyped, DocStates, FormStates
<1>5. OneWaits'
  BY <1>1, <1>2 DEF OneWaits
<1>6. Drafted' /\ FormFenced'
  BY <1>1 DEF Drafted, DraftIs, FormFenced, Unseen
<1> QED
  BY <1>3, <1>4, <1>5, <1>6 DEF SetIInv

(***************************************************************************)
(* The answer of a write.                                                  *)
(***************************************************************************)
\* What is asked of the form after a step, when the page knows of m.
FormGood(n, m) ==
    /\ n \in FormStates /\ ~n.saving /\ n.fence <= m.rev /\ (n.conflict => n.failed)
    /\ ~n.idle => \A f \in FormFields : n.draft[f] # None => n.fence # 0 /\ Unseen(f, n.seen, n.fence)

\* A rebase over a revision that is not the other editor's.
LEMMA RebasedIs ==
    ASSUME SetIInv, ~form.saving, NEW m \in DocStates, mirror.rev <= m.rev, NEW before \in Nat,
           \A f \in FormFields : external[f] # before + 1
    PROVE  FormGood(Rebased(before, m), m)
<1>1. /\ form \in FormStates /\ form.fence <= mirror.rev /\ (form.conflict => form.failed) /\ FormFenced
      /\ external \in [FormFields -> Nat] /\ m.rev \in Nat \ {0} /\ mirror.rev \in Nat
  BY DEF SetIInv, SetTyped, Mirrored, DocStates
<1>2. CASE Rebased(before, m) = form
  <2>1. form.fence <= m.rev
    BY <1>1 DEF FormStates
  <2> QED
    BY <1>1, <1>2, <2>1 DEF FormGood, FormFenced
<1>3. CASE Rebased(before, m) # form
  <2>1. form.fence \in {0, before} /\ m.rev = before + 1
    BY <1>3 DEF Rebased
  <2>2. PICK n : n = [form EXCEPT !.fence = m.rev]
    OBVIOUS
  <2>3. n = Rebased(before, m)
    BY <1>3, <2>2 DEF Rebased
  <2>4. /\ n \in FormStates /\ ~n.saving /\ n.fence = m.rev /\ n.conflict = form.conflict /\ n.failed = form.failed
        /\ n.idle = form.idle /\ n.draft = form.draft /\ n.seen = form.seen
    BY <1>1, <2>2 DEF FormStates
  <2>5. ~form.idle => \A f \in FormFields : form.draft[f] # None => Unseen(f, form.seen, before)
    BY <1>1, <2>1 DEF FormFenced
  <2>6. \A f \in FormFields : Unseen(f, form.seen, before) => Unseen(f, form.seen, m.rev)
    BY <1>1, <2>1 DEF Unseen
  <2>7. ~n.idle => \A f \in FormFields : n.draft[f] # None => n.fence # 0 /\ Unseen(f, n.seen, n.fence)
    BY <1>1, <2>4, <2>5, <2>6
  <2> QED
    BY <1>1, <2>3, <2>4, <2>7 DEF FormGood
<1> QED
  BY <1>2, <1>3

LEMMA CleanIsGood ==
    ASSUME NEW m \in DocStates
    PROVE  FormGood(CleanForm, m)
BY CleanIs DEF FormGood, DocStates

\* The one call that the page waits for.
LEMMA WaitingCall ==
    ASSUME SetIInv, NEW c \in calls, c.waits
    PROVE  /\ (form.saving <=> c.owner = "form") /\ (switch.pending <=> c.owner = "switch") /\ (space.pending <=> c.owner = "space")
           /\ c.owner = "switch" => switch.before = c.fence
           /\ c.owner = "space" => space.before = c.fence
           /\ c.owner = "form" => DraftIs(c)
           /\ \A d \in calls : d.waits => d = c
           /\ CallState(c)
           /\ c.state = "landed" => \A f \in FormFields : external[f] # c.fence + 1
<1>1. OneWaits /\ Drafted /\ SetTyped /\ Answered
  BY DEF SetIInv
<1>2. \A d \in calls : d.waits => d = c
  BY <1>1 DEF OneWaits
<1>3. (form.saving <=> c.owner = "form") /\ (switch.pending <=> c.owner = "switch") /\ (space.pending <=> c.owner = "space")
  BY <1>1, <1>2 DEF OneWaits
<1> QED
  BY <1>1, <1>2, <1>3 DEF OneWaits, Drafted, SetTyped, Answered

\* What a save asked for, the page shows.
LEMMA WrittenIsShown ==
    ASSUME SetIInv, NEW c \in calls, DraftIs(c), CallState(c), NEW m \in DocStates,
           Verified(c, m) \/ NothingLeft(form.draft, m), NEW f \in DOMAIN c.change
    PROVE  Effective(m, f) = form.draft[f]
<1>1. /\ f \in FormFields /\ f \in Fields /\ form.draft[f] \in Values
      /\ c.change[f] = IF form.draft[f] = Base(f) THEN None ELSE form.draft[f]
  BY FieldsAre DEF DraftIs
<1>2. CASE Verified(c, m)
  <2>1. CASE form.draft[f] = Base(f)
    <3>1. ~Overridden(m, f)
      BY <1>1, <1>2, <2>1 DEF Verified
    <3> QED
      BY <1>1, <2>1, <3>1, EffectiveIs
  <2>2. CASE form.draft[f] # Base(f)
    <3>1. m.user[f] = form.draft[f]
      BY <1>1, <1>2, <2>2, FieldsAre DEF Verified
    <3> QED
      BY <1>1, <3>1, EffectiveIs
  <2> QED
    BY <2>1, <2>2
<1>3. CASE NothingLeft(form.draft, m)
  <2>1. f \notin Pending(form.draft, m)
    BY <1>3 DEF NothingLeft
  <2>2. IF form.draft[f] = Base(f) THEN ~Overridden(m, f) ELSE form.draft[f] = Effective(m, f)
    BY <1>1, <2>1 DEF Pending
  <2> QED
    BY <1>1, <2>2, EffectiveIs
<1> QED
  BY <1>2, <1>3

\* What a settled write leaves on the page.
SettledWell(c, m) ==
    /\ FormGood(form', m)
    /\ switch' \in ZoneStates /\ space' \in ZoneStates /\ ~switch'.pending /\ ~space'.pending
    /\ c.owner = "form" => \A f \in DOMAIN c.change : form'.draft[f] = None => Effective(m, f) = form.draft[f]

LEMMA FormSettlesWell ==
    ASSUME SetIInv, NEW c \in calls, c.waits, c.owner = "form", NEW ok \in BOOLEAN, NEW m \in DocStates,
           mirror.rev <= m.rev, m.rev <= doc.rev, ok => Verified(c, m), Settles(c, ok, m)
    PROVE  SettledWell(c, m)
<1>1. /\ form \in FormStates /\ switch \in ZoneStates /\ space \in ZoneStates /\ external \in [FormFields -> Nat]
      /\ form.fence <= mirror.rev /\ FormFenced /\ doc.rev \in Nat /\ m.rev \in Nat \ {0} /\ mirror.rev \in Nat
      /\ \A f \in FormFields : external[f] <= doc.rev
  BY DEF SetIInv, SetTyped, Mirrored, DocStates
<1>2. /\ form.saving /\ ~switch.pending /\ ~space.pending /\ DraftIs(c) /\ CallState(c)
  BY WaitingCall
<1>3. FormSettles(c, ok, m) /\ switch' = SwitchSync(switch, m) /\ space' = SpaceSync(space, m)
  BY DEF Settles
<1>4. switch' \in ZoneStates /\ space' \in ZoneStates /\ ~switch'.pending /\ ~space'.pending
  BY <1>1, <1>2, <1>3, SyncIs
<1>5. CASE ok \/ NothingLeft(form.draft, m)
  <2>1. form' = CleanForm
    BY <1>3, <1>5 DEF FormSettles
  <2>2. \A f \in DOMAIN c.change : Effective(m, f) = form.draft[f]
    BY <1>2, <1>5, WrittenIsShown
  <2>3. FormGood(form', m)
    BY <2>1, CleanIsGood
  <2> QED
    BY <1>4, <2>2, <2>3 DEF SettledWell
<1>6. CASE ~(ok \/ NothingLeft(form.draft, m))
  <2>1. PICK conflict \in BOOLEAN : conflict = (m.rev # c.fence)
    OBVIOUS
  <2>2. PICK fence \in Nat : fence = IF conflict THEN m.rev ELSE form.fence
    BY <1>1 DEF FormStates
  <2>3. PICK seen \in [FormFields -> Nat] : seen = IF conflict THEN [f \in FormFields |-> m.rev] ELSE form.seen
    BY <1>1 DEF FormStates
  <2>4. PICK idle \in BOOLEAN : idle = (form.idle /\ ~conflict)
    OBVIOUS
  <2>5. PICK n : n = [form EXCEPT !.saving = FALSE, !.failed = TRUE, !.conflict = conflict, !.fence = fence, !.seen = seen, !.idle = idle]
    OBVIOUS
  <2>6. form' = n
    <3>1. form.idle \in BOOLEAN
      BY <1>1 DEF FormStates
    <3> QED
      BY <1>3, <1>6, <2>1, <2>2, <2>3, <2>4, <2>5, <3>1 DEF FormSettles
  <2>7. n \in FormStates /\ ~n.saving /\ n.failed /\ n.fence = fence /\ n.seen = seen /\ n.idle = idle /\ n.draft = form.draft
    BY <1>1, <2>5 DEF FormStates
  <2>8. ~n.idle => \A f \in FormFields : n.draft[f] # None => n.fence # 0 /\ Unseen(f, n.seen, n.fence)
    <3>1. CASE conflict
      BY <1>1, <2>2, <2>3, <2>7, <3>1 DEF Unseen
    <3>2. CASE ~conflict
      <4>1. idle = form.idle
        BY <1>1, <2>4, <3>2 DEF FormStates
      <4> QED
        BY <1>1, <2>2, <2>3, <2>7, <3>2, <4>1 DEF FormFenced
    <3> QED
      BY <3>1, <3>2
  <2>9. n.fence <= m.rev
    BY <1>1, <2>2, <2>7 DEF FormStates
  <2>10. \A f \in DOMAIN c.change : n.draft[f] # None
    BY <1>2, <2>7, FieldsAre DEF DraftIs
  <2>11. FormGood(form', m)
    BY <2>6, <2>7, <2>8, <2>9 DEF FormGood
  <2> QED
    BY <1>4, <2>6, <2>10, <2>11 DEF SettledWell
<1> QED
  BY <1>5, <1>6

LEMMA FormStaysGood ==
    ASSUME SetIInv, ~form.saving, NEW m \in DocStates, mirror.rev <= m.rev
    PROVE  FormGood(form, m)
BY DEF SetIInv, SetTyped, Mirrored, FormFenced, FormGood, FormStates, DocStates

LEMMA SwitchSettlesWell ==
    ASSUME SetIInv, NEW c \in calls, c.waits, c.owner = "switch", NEW ok \in BOOLEAN, NEW m \in DocStates,
           mirror.rev <= m.rev, ok => c.state = "landed", Settles(c, ok, m)
    PROVE  SettledWell(c, m)
<1>1. switch \in ZoneStates /\ space \in ZoneStates
  BY DEF SetIInv, SetTyped
<1>2. /\ ~form.saving /\ ~space.pending /\ switch.before = c.fence /\ c.fence \in Nat
      /\ c.state = "landed" => \A f \in FormFields : external[f] # c.fence + 1
  BY WaitingCall DEF CallState
<1>3. SwitchSettles(ok, m) /\ space' = SpaceSync(space, m)
  BY DEF Settles
<1>4. PICK z \in ZoneStates : z = Closed(switch) /\ ~z.pending
  BY <1>1, ClosedIs
<1>5. space' \in ZoneStates /\ ~space'.pending
  BY <1>1, <1>2, <1>3, SyncIs
<1>6. CASE ok
  <2>1. form' = Rebased(c.fence, m) /\ switch' = [z EXCEPT !.value = z.asked, !.undo = switch.prior]
    BY <1>2, <1>3, <1>4, <1>6 DEF SwitchSettles
  <2>2. PICK n : n = [z EXCEPT !.value = z.asked, !.undo = switch.prior]
    OBVIOUS
  <2>3. n \in ZoneStates /\ ~n.pending
    BY <1>1, <1>4, <2>2 DEF ZoneStates
  <2>4. FormGood(form', m)
    BY <1>2, <1>6, <2>1, RebasedIs
  <2> QED
    BY <1>5, <2>1, <2>2, <2>3, <2>4 DEF SettledWell
<1>7. CASE ~ok
  <2>1. PICK value \in Entries : value = Effective(m, Inject)
    BY FieldsAre, EffectiveIs DEF Entries
  <2>2. form' = form /\ switch' = [z EXCEPT !.value = value]
    BY <1>3, <1>4, <1>7, <2>1 DEF SwitchSettles
  <2>3. PICK n : n = [z EXCEPT !.value = value]
    OBVIOUS
  <2>4. n \in ZoneStates /\ ~n.pending
    BY <1>4, <2>3 DEF ZoneStates
  <2>5. FormGood(form', m)
    BY <1>2, <2>2, FormStaysGood
  <2> QED
    BY <1>5, <2>2, <2>3, <2>4, <2>5 DEF SettledWell
<1> QED
  BY <1>6, <1>7

LEMMA SpaceSettlesWell ==
    ASSUME SetIInv, NEW c \in calls, c.waits, c.owner = "space", NEW ok \in BOOLEAN, NEW m \in DocStates,
           mirror.rev <= m.rev, ok => c.state = "landed", Settles(c, ok, m)
    PROVE  SettledWell(c, m)
<1>1. switch \in ZoneStates /\ space \in ZoneStates
  BY DEF SetIInv, SetTyped
<1>2. /\ ~form.saving /\ ~switch.pending /\ space.before = c.fence /\ c.fence \in Nat
      /\ c.state = "landed" => \A f \in FormFields : external[f] # c.fence + 1
  BY WaitingCall DEF CallState
<1>3. SpaceSettles(ok, m) /\ switch' = SwitchSync(switch, m)
  BY DEF Settles
<1>4. PICK z \in ZoneStates : z = Closed(space) /\ ~z.pending
  BY <1>1, ClosedIs
<1>5. switch' \in ZoneStates /\ ~switch'.pending
  BY <1>1, <1>2, <1>3, SyncIs
<1>6. PICK undo \in Entries : undo = IF space.undoing THEN None ELSE space.prior
  BY <1>1 DEF ZoneStates, Entries
<1>7. PICK chosen \in Entries : chosen = IF space.undoing THEN space.prior ELSE z.asked
  BY <1>1, <1>4 DEF ZoneStates
<1>8. PICK a, b : a = [z EXCEPT !.undo = undo] /\ b = [z EXCEPT !.asked = chosen]
  OBVIOUS
<1>9. a \in ZoneStates /\ ~a.pending /\ b \in ZoneStates /\ ~b.pending
  BY <1>4, <1>8 DEF ZoneStates
<1>10. /\ space' = SpaceSync(IF ok THEN a ELSE b, m)
       /\ form' = IF ok THEN Rebased(c.fence, m) ELSE form
  BY <1>2, <1>3, <1>4, <1>6, <1>7, <1>8 DEF SpaceSettles
<1>11. space' \in ZoneStates /\ ~space'.pending
  BY <1>9, <1>10, SyncIs
<1>12. FormGood(form', m)
  BY <1>2, <1>10, RebasedIs, FormStaysGood
<1> QED
  BY <1>5, <1>11, <1>12 DEF SettledWell

LEMMA SettlesWell ==
    ASSUME SetIInv, NEW c \in calls, c.waits, NEW ok \in BOOLEAN, NEW m \in DocStates,
           mirror.rev <= m.rev, m.rev <= doc.rev, ok => c.state = "landed" /\ Verified(c, m), Settles(c, ok, m)
    PROVE  SettledWell(c, m)
<1>1. c.owner \in {"form", "switch", "space"}
  BY WaitingCall DEF CallState, Owners
<1> QED
  BY <1>1, FormSettlesWell, SwitchSettlesWell, SpaceSettlesWell

\* After a write that the page waited for, it waits for none.
LEMMA SettledKeeps ==
    ASSUME SetIInv, NEW c \in calls, c.waits, mirror' \in DocStates, mirror.rev <= mirror'.rev, mirror'.rev <= doc.rev,
           mirror'.rev = doc.rev => mirror' = doc, SettledWell(c, mirror'),
           \A d \in calls' : ~d.waits, UNCHANGED <<doc, external>>,
           used' \in [external : Nat, presses : Nat, edits : Nat, faults : Nat],
           \A d \in calls' : CallState(d)
    PROVE  SetTyped' /\ Mirrored' /\ OneWaits' /\ Drafted' /\ FormFenced'
<1>1. SetTyped /\ Mirrored /\ FormGood(form', mirror')
  BY DEF SetIInv, SettledWell
<1>2. SetTyped'
  BY <1>1 DEF SetTyped, FormGood, SettledWell
<1>3. Mirrored'
  BY <1>1 DEF Mirrored, FormGood
<1>4. OneWaits' /\ Drafted'
  BY <1>1 DEF OneWaits, Drafted, FormGood, SettledWell
<1>5. FormFenced'
  BY <1>1 DEF FormFenced, FormGood, Unseen
<1> QED
  BY <1>2, <1>3, <1>4, <1>5

LEMMA NewerIs ==
    ASSUME SetIInv, NEW c \in calls, c.state # "sent"
    PROVE  /\ Newer(c) \in DocStates /\ mirror.rev <= Newer(c).rev /\ Newer(c).rev <= doc.rev
           /\ Newer(c).rev = doc.rev => Newer(c) = doc
BY DEF SetIInv, SetTyped, Mirrored, Answered, CallState, Newer, DocStates

LEMMA AnswerKeeps ==
    ASSUME SetIInv, NEW c \in calls, Answer(c)
    PROVE  SetIInv' /\ (c.waits => SettledWell(c, mirror'))
<1>1. /\ SetTyped /\ Mirrored /\ Numbered /\ Answered /\ OneWaits /\ Drafted /\ FormFenced /\ CallsFenced /\ FormsOnly
      /\ switch \in ZoneStates /\ space \in ZoneStates
      /\ c.state # "sent" /\ mirror' = Newer(c) /\ calls' = calls \ {c} /\ UNCHANGED <<doc, used, external>>
  BY DEF SetIInv, SetTyped, Answer
<1>2. /\ mirror' \in DocStates /\ mirror.rev <= mirror'.rev /\ mirror'.rev <= doc.rev
      /\ mirror'.rev = doc.rev => mirror' = doc
  BY <1>1, NewerIs
<1>3. Numbered' /\ Answered' /\ CallsFenced' /\ FormsOnly' /\ \A d \in calls' : CallState(d)
  BY <1>1 DEF SetTyped, Numbered, Answered, CallsFenced, FormsOnly, Unseen
<1>4. CASE c.waits
  <2>1. PICK ok \in BOOLEAN : ok = (c.state = "landed" /\ Verified(c, mirror'))
    OBVIOUS
  <2>2. Settles(c, ok, mirror')
    BY <1>4, <2>1 DEF Answer
  <2>3. SettledWell(c, mirror')
    BY <1>2, <1>4, <2>1, <2>2, SettlesWell
  <2>4. \A d \in calls' : ~d.waits
    BY <1>1, <1>3, <1>4, WaitingCall DEF CallState
  <2>5. SetTyped' /\ Mirrored' /\ OneWaits' /\ Drafted' /\ FormFenced'
    BY <1>1, <1>2, <1>3, <1>4, <2>3, <2>4, SettledKeeps DEF SetTyped
  <2> QED
    BY <1>3, <2>3, <2>5 DEF SetIInv
<1>5. CASE ~c.waits
  <2>1. form' = form /\ switch' = SwitchSync(switch, mirror') /\ space' = SpaceSync(space, mirror')
    BY <1>5 DEF Answer
  <2>2. /\ switch' \in ZoneStates /\ switch'.pending = switch.pending /\ switch'.before = switch.before
        /\ space' \in ZoneStates /\ space'.pending = space.pending /\ space'.before = space.before
    BY <1>1, <1>2, <2>1, SyncIs
  <2>3. SetTyped'
    BY <1>1, <1>2, <1>3, <2>1, <2>2 DEF SetTyped
  <2>4. Mirrored'
    <3>1. form.fence \in Nat /\ mirror.rev \in Nat /\ mirror'.rev \in Nat
      BY <1>1, <1>2 DEF SetTyped, FormStates, DocStates
    <3> QED
      BY <1>1, <1>2, <2>1, <3>1 DEF Mirrored
  <2>5. OneWaits'
    <3>1. /\ (\E x \in calls : x.waits /\ x.owner = "form") <=> (\E x \in calls' : x.waits /\ x.owner = "form")
          /\ (\E x \in calls : x.waits /\ x.owner = "switch") <=> (\E x \in calls' : x.waits /\ x.owner = "switch")
          /\ (\E x \in calls : x.waits /\ x.owner = "space") <=> (\E x \in calls' : x.waits /\ x.owner = "space")
      BY <1>1, <1>5
    <3> QED
      BY <1>1, <2>1, <2>2, <3>1 DEF OneWaits
  <2>6. Drafted' /\ FormFenced'
    BY <1>1, <2>1 DEF Drafted, DraftIs, FormFenced, Unseen
  <2> QED
    BY <1>3, <1>5, <2>3, <2>4, <2>5, <2>6 DEF SetIInv
<1> QED
  BY <1>4, <1>5

\* A call that the page no longer waits for.
LEMMA LeftCall ==
    ASSUME NEW c, CallState(c), NEW d,
           d = [id |-> c.id, owner |-> c.owner, change |-> c.change, fence |-> c.fence, state |-> c.state,
                answer |-> c.answer, waits |-> FALSE, seen |-> c.seen, idle |-> c.idle]
    PROVE  [c EXCEPT !.waits = FALSE] = d /\ CallState(d)
<1>1. PICK id, owner, change, fence, waits, seen, idle, s, a :
          /\ c = [id |-> id, owner |-> owner, change |-> change, fence |-> fence, state |-> s,
                  answer |-> a, waits |-> waits, seen |-> seen, idle |-> idle]
          /\ id = c.id /\ owner = c.owner /\ change = c.change /\ fence = c.fence /\ waits = c.waits /\ seen = c.seen /\ idle = c.idle
          /\ s = c.state /\ a = c.answer
  BY DEF CallState
<1>2. PICK e : e = [c EXCEPT !.waits = FALSE]
  OBVIOUS
<1>3. e = [id |-> id, owner |-> owner, change |-> change, fence |-> fence, state |-> s,
           answer |-> a, waits |-> FALSE, seen |-> seen, idle |-> idle]
  BY <1>1, <1>2
<1>4. CallState(d)
  BY DEF CallState
<1> QED
  BY <1>1, <1>2, <1>3, <1>4

LEMMA DeadlineKeeps ==
    ASSUME SetIInv, NEW c \in calls, Deadline(c)
    PROVE  SetIInv' /\ SettledWell(c, mirror')
<1>1. /\ SetTyped /\ Mirrored /\ Numbered /\ Answered /\ OneWaits /\ CallsFenced /\ FormsOnly /\ CallState(c) /\ c.waits
      /\ mirror \in DocStates /\ used \in [external : Nat, presses : Nat, edits : Nat, faults : Nat]
      /\ mirror.rev <= doc.rev /\ (mirror.rev = doc.rev => mirror = doc) /\ mirror.rev \in Nat
      /\ UNCHANGED <<doc, mirror, external>>
  BY DEF SetIInv, SetTyped, Mirrored, Deadline, DocStates
<1>2. used' \in [external : Nat, presses : Nat, edits : Nat, faults : Nat] /\ used'.presses = used.presses
  <2>1. PICK k \in {"external", "presses", "edits", "faults"} : k = "faults"
    OBVIOUS
  <2>2. Spend(k)
    BY <2>1 DEF Deadline, Fault
  <2> QED
    BY <1>1, <2>1, <2>2, SpendIs
<1>3. PICK d : d = [id |-> c.id, owner |-> c.owner, change |-> c.change, fence |-> c.fence, state |-> c.state,
                    answer |-> c.answer, waits |-> FALSE, seen |-> c.seen, idle |-> c.idle]
  OBVIOUS
<1>4. calls' = (calls \ {c}) \cup {d} /\ CallState(d)
  <2>1. [c EXCEPT !.waits = FALSE] = d /\ CallState(d)
    BY <1>1, <1>3, LeftCall
  <2> QED
    BY <2>1 DEF Deadline, Now
<1>5. /\ d.id = c.id /\ d.owner = c.owner /\ d.change = c.change /\ d.fence = c.fence /\ d.state = c.state
      /\ d.answer = c.answer /\ ~d.waits /\ d.seen = c.seen /\ d.idle = c.idle
  BY <1>3
<1>6. \A x \in calls' : x = d \/ (x \in calls /\ x # c)
  BY <1>4
<1>7. \A x \in calls' : CallState(x)
  BY <1>1, <1>4, <1>6 DEF SetTyped
<1>8. Numbered'
  BY <1>1, <1>2, <1>5, <1>6 DEF Numbered
<1>9. Answered'
  BY <1>1, <1>5, <1>6 DEF Answered
<1>10. CallsFenced' /\ FormsOnly'
  BY <1>1, <1>5, <1>6 DEF CallsFenced, FormsOnly, Unseen
<1>11. \A x \in calls' : ~x.waits
  BY <1>1, <1>5, <1>6, <1>7, WaitingCall DEF CallState
<1>12. SettledWell(c, mirror)
  <2>1. PICK ok \in BOOLEAN : ok = FALSE
    OBVIOUS
  <2>2. Settles(c, ok, mirror)
    BY <2>1 DEF Deadline
  <2> QED
    BY <1>1, <2>1, <2>2, SettlesWell
<1>13. SetTyped' /\ Mirrored' /\ OneWaits' /\ Drafted' /\ FormFenced'
  BY <1>1, <1>2, <1>7, <1>11, <1>12, SettledKeeps
<1> QED
  BY <1>1, <1>8, <1>9, <1>10, <1>12, <1>13 DEF SetIInv

-----------------------------------------------------------------------------
LEMMA SetInitially ==
    ASSUME SetInit
    PROVE  SetIInv
<1>1. /\ doc \in DocStates /\ mirror = doc /\ doc.rev = 1 /\ calls = {} /\ form = CleanForm
      /\ external = [f \in FormFields |-> 0] /\ used \in [external : Nat, presses : Nat, edits : Nat, faults : Nat]
  BY DEF SetInit, DocStates, Entries
<1>2. switch \in ZoneStates /\ space \in ZoneStates /\ ~switch.pending /\ ~space.pending
  BY DEF SetInit, Zone, ZoneStates, Entries, Values, None
<1>3. SetTyped
  BY <1>1, <1>2, CleanIs DEF SetTyped
<1>4. Mirrored
  BY <1>1, CleanIs DEF Mirrored
<1>5. Numbered /\ Answered /\ OneWaits /\ Drafted /\ CallsFenced /\ FormsOnly
  BY <1>1, <1>2, CleanIs DEF Numbered, Answered, OneWaits, Drafted, CallsFenced, FormsOnly
<1>6. FormFenced
  BY <1>1, CleanIs DEF FormFenced
<1> QED
  BY <1>3, <1>4, <1>5, <1>6 DEF SetIInv

LEMMA SetStepKeeps ==
    ASSUME SetIInv, [SetNext]_setVars
    PROVE  SetIInv'
<1>1. CASE \E f \in FormFields, v \in Values \cup {"invalid"} : Edit(f, v)
  BY <1>1, EditKeeps
<1>2. CASE Discard
  BY <1>2, DiscardKeeps
<1>3. CASE Save
  BY <1>3, SaveKeeps
<1>4. CASE Toggle \/ Reset \/ UndoSwitch
  <2>1. switch \in ZoneStates /\ Base(Inject) \in Values
    BY FieldsAre DEF SetIInv, SetTyped
  <2>2. \E v \in Values, shown \in Entries, undoing \in BOOLEAN : SwitchTo(v, shown, undoing)
    <3>1. CASE Toggle
      BY <3>1 DEF Toggle, Entries
    <3>2. CASE Reset
      BY <2>1, <3>2 DEF Reset, Entries, ZoneStates
    <3>3. CASE UndoSwitch
      BY <2>1, <3>3 DEF UndoSwitch, Entries
    <3> QED
      BY <1>4, <3>1, <3>2, <3>3
  <2> QED
    BY <2>2, SwitchToKeeps
<1>5. CASE ToggleSpace \/ UndoSpace
  <2>1. space \in ZoneStates
    BY DEF SetIInv, SetTyped
  <2>2. \E v \in Values, undoing \in BOOLEAN : SpaceTo(v, undoing)
    BY <1>5, <2>1 DEF ToggleSpace, UndoSpace, Entries, ZoneStates
  <2> QED
    BY <2>2, SpaceToKeeps
<1>6. CASE UndoExpires
  BY <1>6, UndoExpiresKeeps
<1>7. CASE \E f \in Fields, v \in Values : WriteElsewhere(f, v)
  BY <1>7, WriteElsewhereKeeps
<1>8. CASE \E c \in calls : Land(c) \/ Refuse(c) \/ Answer(c) \/ Deadline(c)
  BY <1>8, LandKeeps, RefuseKeeps, AnswerKeeps, DeadlineKeeps
<1>9. CASE Push
  BY <1>9, PushKeeps
<1>10. CASE UNCHANGED setVars
  BY <1>10 DEF setVars, SetIInv, SetTyped, Mirrored, Numbered, Answered, OneWaits, Drafted, DraftIs, FormFenced, CallsFenced,
               FormsOnly, Unseen
<1> QED
  BY <1>1, <1>2, <1>3, <1>4, <1>5, <1>6, <1>7, <1>8, <1>9, <1>10 DEF SetNext

(***************************************************************************)
(* What is known of the page, the document and the writes between them is  *)
(* an invariant of the specification (Stage, Save, Rebased, Settles).      *)
(***************************************************************************)
THEOREM SettingsInvariant == SetSpec => []SetIInv
<1> QED
  BY SetInitially, SetStepKeeps, PTL DEF SetSpec

\* The model is well typed: among others, the page waits for one write at most.
THEOREM SettingsTypeCorrect == SetSpec => []SettingsTypeOK
<1>1. SetIInv => SettingsTypeOK
  <2> SUFFICES ASSUME SetIInv PROVE SettingsTypeOK
    OBVIOUS
  <2>1. SetTyped /\ Mirrored /\ OneWaits
    BY DEF SetIInv
  <2>2. Cardinality({c \in calls : c.waits}) <= 1
    <3>1. CASE {c \in calls : c.waits} = {}
      BY <3>1, FS_EmptySet
    <3>2. CASE {c \in calls : c.waits} # {}
      <4>1. PICK c : c \in {d \in calls : d.waits}
        BY <3>2
      <4>2. {d \in calls : d.waits} = {c}
        BY <2>1, <4>1 DEF OneWaits
      <4> QED
        BY <4>2, FS_Singleton
    <3> QED
      BY <3>1, <3>2
  <2>3. mirror.rev \in 1..doc.rev /\ (mirror.rev = doc.rev => mirror = doc) /\ form.fence \in 0..mirror.rev /\ (form.conflict => form.failed)
    BY <2>1 DEF SetTyped, Mirrored, DocStates, FormStates
  <2>4. form.draft \in [FormFields -> Values \cup {None, "invalid"}]
    BY <2>1 DEF SetTyped, FormStates, Drafts, Entries
  <2> QED
    BY <2>1, <2>2, <2>3, <2>4 DEF SettingsTypeOK, OneWaits
<1> QED
  BY <1>1, SettingsInvariant, PTL

\* A call that is there after a step and has landed was there before it, and
\* had landed or had the document's revision for a fence.
LEMMA LandedWas ==
    ASSUME SetIInv, SetNext, NEW x \in calls', x.state = "landed"
    PROVE  \E y \in calls : y.id = x.id /\ (y.state = "landed" \/ y.fence = doc.rev)
<1>1. \A c \in calls : CallState(c)
  BY DEF SetIInv, SetTyped
<1>2. CASE calls' = calls
  BY <1>2
<1>3. CASE \E owner, change, fence : Call(owner, change, fence)
  <2>1. PICK owner, change, fence : Call(owner, change, fence)
    BY <1>3
  <2>2. \E n : calls' = calls \cup {n} /\ n.state = "sent"
    <3>1. PICK known : known = IF owner = "form" THEN form ELSE CleanForm
      OBVIOUS
    <3>2. PICK n : n = [id |-> used.presses, owner |-> owner, change |-> change, fence |-> fence,
                        state |-> "sent", answer |-> Unanswered, waits |-> TRUE, seen |-> known.seen, idle |-> known.idle]
      OBVIOUS
    <3>3. calls' = calls \cup {n}
      BY <2>1, <3>1, <3>2 DEF Call
    <3>4. n.state = "sent"
      BY <3>2
    <3> QED
      BY <3>3, <3>4
  <2> QED
    BY <2>2
<1>4. CASE \E c \in calls : Land(c) \/ Refuse(c)
  <2>1. PICK c \in calls : Land(c) \/ Refuse(c)
    BY <1>4
  <2>2. PICK state \in {"landed", "refused"} : state = IF Land(c) THEN "landed" ELSE "refused"
    OBVIOUS
  <2>3. PICK answer \in DocStates : answer = IF Land(c) THEN doc' ELSE doc
    <3>1. doc \in DocStates /\ doc' \in DocStates
      BY <2>1, LandKeeps, RefuseKeeps DEF SetIInv, SetTyped
    <3> QED
      BY <3>1
  <2>4. PICK d : d = [id |-> c.id, owner |-> c.owner, change |-> c.change, fence |-> c.fence, state |-> state,
                      answer |-> answer, waits |-> c.waits, seen |-> c.seen, idle |-> c.idle]
    OBVIOUS
  <2>5. calls' = (calls \ {c}) \cup {d}
    <3>1. CallState(c)
      BY <1>1
    <3>2. d = [c EXCEPT !.state = state, !.answer = answer]
      BY <2>4, <3>1, AnsweredCall
    <3>3. CASE Land(c)
      BY <2>2, <2>3, <3>2, <3>3 DEF Land, Now
    <3>4. CASE ~Land(c) /\ Refuse(c)
      BY <2>2, <2>3, <3>2, <3>4 DEF Refuse, Now
    <3> QED
      BY <2>1, <3>3, <3>4
  <2>6. d.id = c.id /\ (d.state = "landed" => c.fence = doc.rev)
    BY <2>2, <2>4 DEF Land
  <2> QED
    BY <2>5, <2>6
<1>5. CASE \E c \in calls : Answer(c)
  BY <1>5 DEF Answer
<1>6. CASE \E c \in calls : Deadline(c)
  <2>1. PICK c \in calls : Deadline(c)
    BY <1>6
  <2>2. PICK d : d = [id |-> c.id, owner |-> c.owner, change |-> c.change, fence |-> c.fence, state |-> c.state,
                      answer |-> c.answer, waits |-> FALSE, seen |-> c.seen, idle |-> c.idle]
    OBVIOUS
  <2>3. [c EXCEPT !.waits = FALSE] = d
    BY <1>1, <2>2, LeftCall
  <2>4. calls' = (calls \ {c}) \cup {d}
    BY <2>1, <2>3 DEF Deadline, Now
  <2>5. d.id = c.id /\ d.state = c.state
    BY <2>2
  <2> QED
    BY <2>4, <2>5
<1>7. \/ calls' = calls
      \/ \E owner, change, fence : Call(owner, change, fence)
      \/ \E c \in calls : Land(c) \/ Refuse(c)
      \/ \E c \in calls : Answer(c)
      \/ \E c \in calls : Deadline(c)
  <2>1. CASE Save
    <3>1. \E change : Call("form", change, Fence)
      BY <2>1 DEF Save
    <3> QED
      BY <3>1
  <2>2. CASE Toggle \/ Reset \/ UndoSwitch
    <3>1. \E v, shown, undoing : SwitchTo(v, shown, undoing)
      BY <2>2 DEF Toggle, Reset, UndoSwitch
    <3>2. \E change : Call("switch", change, mirror.rev)
      BY <3>1 DEF SwitchTo
    <3> QED
      BY <3>2
  <2>3. CASE ToggleSpace \/ UndoSpace
    <3>1. \E v, undoing : SpaceTo(v, undoing)
      BY <2>3 DEF ToggleSpace, UndoSpace
    <3>2. \E change : Call("space", change, mirror.rev)
      BY <3>1 DEF SpaceTo
    <3> QED
      BY <3>2
  <2> QED
    BY <2>1, <2>2, <2>3 DEF SetNext, Edit, Discard, UndoExpires, WriteElsewhere, Push
<1> QED
  BY <1>2, <1>3, <1>4, <1>5, <1>6, <1>7

LEMMA LandingIsHonest ==
    ASSUME SetIInv, SetNext, NEW c \in calls, Landing(c), ~c.idle
    PROVE  ~Overwrites(c)
<1>1. PICK d \in calls' : d.id = c.id /\ c.state = "sent" /\ d.state = "landed"
  BY DEF Landing
<1>2. PICK y \in calls : y.id = d.id /\ (y.state = "landed" \/ y.fence = doc.rev)
  BY <1>1, LandedWas
<1>3. y = c
  BY <1>1, <1>2 DEF SetIInv, Numbered
<1>4. c.fence = doc.rev
  BY <1>1, <1>2, <1>3
<1>5. ASSUME c.owner = "form", NEW f \in DOMAIN c.change PROVE ~(external[f] > c.seen[f])
  <2>1. f \in FormFields /\ Unseen(f, c.seen, c.fence)
    BY <1>5 DEF SetIInv, CallsFenced, FormsOnly
  <2>2. external[f] \in Nat /\ c.seen[f] \in Nat /\ external[f] <= doc.rev /\ doc.rev \in Nat
    BY <2>1 DEF SetIInv, SetTyped, Mirrored, CallState, DocStates
  <2> QED
    BY <1>4, <2>1, <2>2 DEF Unseen
<1> QED
  BY <1>5 DEF Overwrites

LEMMA SaveEndsHonestly ==
    ASSUME SetIInv, SetNext, NEW c \in calls, c.waits, c.owner = "form", ~form'.saving, NEW f \in DOMAIN c.change,
           form'.draft[f] = None
    PROVE  Effective(mirror', f) = form.draft[f]
<1>1. form.saving /\ \A d \in calls : d.waits => d = c
  BY WaitingCall
<1>2. \E d \in calls : d.waits /\ (Answer(d) \/ Deadline(d))
  <2>1. form' # form
    BY <1>1
  <2>2. \A d \in calls : Answer(d) => d.waits
    BY <2>1 DEF Answer
  <2>3. \A d \in calls : Deadline(d) => d.waits
    BY DEF Deadline
  <2>4. \A d \in calls : ~Land(d) /\ ~Refuse(d)
    BY <2>1 DEF Land, Refuse
  <2>5. ~Toggle /\ ~Reset /\ ~UndoSwitch /\ ~ToggleSpace /\ ~UndoSpace
    BY <2>1 DEF Toggle, Reset, UndoSwitch, ToggleSpace, UndoSpace, SwitchTo, SpaceTo
  <2>6. ~(\E g \in FormFields, v \in Values \cup {"invalid"} : Edit(g, v)) /\ ~Discard /\ ~Save
    BY <1>1 DEF Edit, Discard, Save
  <2>7. ~UndoExpires /\ ~Push /\ ~(\E g \in Fields, v \in Values : WriteElsewhere(g, v))
    BY <2>1 DEF UndoExpires, Push, WriteElsewhere
  <2> QED
    BY <2>2, <2>3, <2>4, <2>5, <2>6, <2>7 DEF SetNext
<1>3. Answer(c) \/ Deadline(c)
  BY <1>1, <1>2
<1>4. SettledWell(c, mirror')
  BY <1>3, AnswerKeeps, DeadlineKeeps
<1> QED
  BY <1>4 DEF SettledWell

(***************************************************************************)
(* No save replaces what the other editor wrote to one of its fields after *)
(* the user last edited it, but for a conflict that was shown or a draft   *)
(* that was once left without a fence; and a save that ends keeps every    *)
(* part of the draft that the page does not know to be in the document     *)
(* (Land, FormSettles, Rebased).                                           *)
(***************************************************************************)
THEOREM SavesAreHonestHolds == SetSpec => SavesAreHonest
<1> DEFINE Honest ==
        \A c \in calls :
          /\ Landing(c) /\ ~c.idle => ~Overwrites(c)
          /\ c.waits /\ c.owner = "form" /\ ~form'.saving =>
               \A f \in DOMAIN c.change :
                  form'.draft[f] = None => Effective(mirror', f) = form.draft[f]
<1>1. SetIInv /\ [SetNext]_setVars => [Honest]_setVars
  <2> SUFFICES ASSUME SetIInv, SetNext PROVE Honest
    OBVIOUS
  <2> QED
    BY LandingIsHonest, SaveEndsHonestly
<1> QED
  BY <1>1, SettingsInvariant, PTL DEF SetSpec, SavesAreHonest

----------------------------------------------------------------------------
(***************************************************************************)
(* UiStream, for any stores, servers, pages and any number of rows, reads  *)
(* and reconnections. What is on the wire and what a read will bring are   *)
(* of one store and one server at a time (UiIInv), so a page shows the     *)
(* rows of the store it follows; and a row the page does not have yet is   *)
(* owed by something that is still to come (ArrIInv).                      *)
(***************************************************************************)

(***************************************************************************)
(* Records.                                                                *)
(***************************************************************************)
RowsIn(w, s) == {i \in DOMAIN w : w[i] = s}
Roots == Stores \cup {NoStore}
Frames == [seq : Nat, root : Roots, rows : SUBSET Nat, ready : BOOLEAN]
OnWire == [gen : Nat, frame : Frames]
Servers == [seq : Nat, history : Seq(Frames), streams : SUBSET [gen : Nat, session : Stores]]
Feeds == [seeded : BOOLEAN, seen : SUBSET Nat, flight : BOOLEAN, fresh : SUBSET Nat]
Askers == {"connect", "once", "poll", "refresh"}
Snapshots == [id : Nat, session : Stores, by : Askers, gen : Nat, stage : {"sent", "refused", "building", "built"},
              at : Nat, rows : SUBSET Nat]
PageStates == [session : Stores, gen : Nat, last : Nat, root : Roots, req : Nat, applied : Nat,
               conn : {"snapshot", "opening", "push", "down"}, poll : BOOLEAN, retry : BOOLEAN,
               rows : SUBSET Nat, folded : SUBSET Nat]

(***************************************************************************)
(* The invariant, of the rows w, a transport sv, the frames wr and reads   *)
(* rs that are on their way, and a page p.                                 *)
(***************************************************************************)
FramesIn(sv, wr) == {sv.history[i] : i \in 1..Len(sv.history)} \cup {m.frame : m \in wr}

ServerAt(sv) ==
    /\ sv \in Servers /\ Len(sv.history) <= HistoryLimit
    /\ \A i \in 1..Len(sv.history) : sv.history[i].seq = sv.seq - Len(sv.history) + i
    /\ sv.history = <<>> => sv.seq = 0
\* A frame has rows of its own store.
FramesAt(w, sv, wr) ==
    /\ wr \subseteq OnWire
    /\ \A f \in FramesIn(sv, wr) : f.seq <= sv.seq /\ f.rows \subseteq RowsIn(w, f.root)
\* A stream of the page is of its session, and no stream is of a later one.
StreamsAt(sv, wr, p) ==
    /\ \A t \in sv.streams : t.gen <= p.gen /\ (t.gen = p.gen => t.session = p.session)
    /\ \A m \in wr : m.gen <= p.gen /\ (m.gen = p.gen => m.frame.root \in {NoStore, p.session})
PageAt(w, sv, p) ==
    /\ p \in PageStates /\ p.gen >= 1 /\ p.req \in 1..MaxReads /\ p.applied <= p.req /\ p.last <= sv.seq
    /\ p.conn = "down" => p.retry
    /\ p.root \in {NoStore, p.session}
    /\ p.folded \subseteq p.rows /\ p.rows \subseteq RowsIn(w, p.session)
\* A snapshot has every row of the frames that its version counts, and what
\* the page took from them.
ReadAt(w, sv, wr, p, r) ==
    /\ r \in Snapshots /\ r.id \in 1..p.req /\ r.gen \in 1..p.gen /\ r.at <= sv.seq
    /\ r.stage = "built" =>
          /\ r.rows \subseteq RowsIn(w, r.session)
          /\ \A f \in FramesIn(sv, wr) : f.root = r.session /\ f.seq <= r.at => f.rows \subseteq r.rows
          /\ r.session = p.session /\ p.last <= r.at => p.folded \subseteq r.rows
UiAt(w, sv, wr, rs, p) ==
    /\ w \in Seq(Stores) /\ ServerAt(sv) /\ FramesAt(w, sv, wr) /\ StreamsAt(sv, wr, p) /\ PageAt(w, sv, p)
    /\ \A r \in rs : ReadAt(w, sv, wr, p, r)
BridgeAt(w, b) == b \in [Stores -> Feeds] /\ \A s \in Stores : b[s].fresh \subseteq RowsIn(w, s)
UiIInv == memory \subseteq Stores /\ BridgeAt(written, bridge) /\ UiAt(written, srv, wire, reads, page)

LEMMA NoRowsOfNoStore ==
    ASSUME NEW w \in Seq(Stores)
    PROVE  RowsIn(w, NoStore) = {}
BY UiAssumption, LenProperties DEF RowsIn, UiAssumption

(***************************************************************************)
(* What a page does to itself.                                             *)
(***************************************************************************)
PageStep(p, q) ==
    /\ q.gen >= p.gen /\ q.req >= p.req /\ (q.gen = p.gen => q.session = p.session)
    /\ (q.session = p.session /\ q.last = p.last /\ q.folded = p.folded) \/ q.folded = {}

LEMMA PageMoves ==
    ASSUME NEW w, NEW sv, NEW wr, NEW rs, NEW p, NEW q, NEW qs,
           UiAt(w, sv, wr, rs, p), PageAt(w, sv, q), PageStep(p, q), qs \subseteq rs
    PROVE  UiAt(w, sv, wr, qs, q)
<1>1. p \in PageStates /\ q \in PageStates /\ p.gen \in Nat /\ q.gen \in Nat /\ p.req \in Nat /\ q.req \in Nat
  BY DEF UiAt, PageAt, PageStates
<1>2. StreamsAt(sv, wr, q)
  <2>1. \A t \in sv.streams : t.gen \in Nat
    BY DEF UiAt, ServerAt, Servers
  <2>2. \A m \in wr : m.gen \in Nat
    BY DEF UiAt, FramesAt, OnWire
  <2> QED
    BY <1>1, <2>1, <2>2 DEF UiAt, StreamsAt, PageStep
<1>3. ASSUME NEW r \in qs PROVE ReadAt(w, sv, wr, q, r)
  <2>1. ReadAt(w, sv, wr, p, r)
    BY DEF UiAt
  <2>2. r.id \in 1..q.req /\ r.gen \in 1..q.gen
    BY <1>1, <2>1 DEF ReadAt, PageStep
  <2> QED
    BY <2>1, <2>2 DEF ReadAt, PageStep
<1> QED
  BY <1>2, <1>3 DEF UiAt

\* A page that counts one more request.
LEMMA CountedPage ==
    ASSUME NEW p \in PageStates
    PROVE  LET q == [p EXCEPT !.req = @ + 1]
           IN  /\ q \in PageStates /\ q.req = p.req + 1
               /\ q.session = p.session /\ q.gen = p.gen /\ q.last = p.last /\ q.root = p.root /\ q.applied = p.applied
               /\ q.conn = p.conn /\ q.poll = p.poll /\ q.retry = p.retry /\ q.rows = p.rows /\ q.folded = p.folded
BY DEF PageStates

LEMMA AskingKeeps ==
    ASSUME NEW w, NEW sv, NEW wr, NEW rs, NEW p, NEW by \in Askers, NEW q,
           UiAt(w, sv, wr, rs, p), p.req < MaxReads, q = [p EXCEPT !.req = @ + 1]
    PROVE  UiAt(w, sv, wr, rs \cup {Request(q, by)}, q)
<1>1. p \in PageStates /\ PageAt(w, sv, p)
  BY DEF UiAt, PageAt
<1>2. /\ q \in PageStates /\ q.req = p.req + 1
      /\ q.session = p.session /\ q.gen = p.gen /\ q.last = p.last /\ q.root = p.root /\ q.applied = p.applied
      /\ q.conn = p.conn /\ q.poll = p.poll /\ q.retry = p.retry /\ q.rows = p.rows /\ q.folded = p.folded
  BY <1>1, CountedPage
<1>3. p.gen \in Nat /\ p.req \in Nat /\ p.applied \in Nat /\ MaxReads \in Nat
  BY <1>1, UiAssumption DEF PageStates, UiAssumption
<1>4. PageAt(w, sv, q)
  BY <1>1, <1>2, <1>3 DEF PageAt
<1>5. UiAt(w, sv, wr, rs, q)
  <2>1. PageStep(p, q) /\ rs \subseteq rs
    BY <1>2, <1>3 DEF PageStep
  <2> QED
    BY <1>4, <2>1, PageMoves
<1>6. Request(q, by) \in Snapshots /\ Request(q, by).id = q.req /\ Request(q, by).gen = q.gen
      /\ Request(q, by).at = 0 /\ Request(q, by).stage = "sent"
  BY <1>2 DEF Request, Snapshots, PageStates
<1>7. ReadAt(w, sv, wr, q, Request(q, by))
  <2>1. sv.seq \in Nat
    BY DEF UiAt, ServerAt, Servers
  <2>2. q.req \in 1..q.req /\ q.gen \in 1..q.gen
    BY <1>1, <1>2, <1>3 DEF PageAt
  <2> QED
    BY <1>6, <2>1, <2>2 DEF ReadAt
<1> QED
  BY <1>5, <1>7 DEF UiAt

\* A failure: the page waits for the retry, and may poll.
LEMMA FailedPage ==
    ASSUME NEW p \in PageStates, NEW c \in {"snapshot", "opening", "push", "down"}
    PROVE  LET q == [p EXCEPT !.conn = c, !.retry = TRUE]
           IN  /\ q \in PageStates /\ q.conn = c /\ q.retry = TRUE
               /\ q.session = p.session /\ q.gen = p.gen /\ q.last = p.last /\ q.root = p.root
               /\ q.req = p.req /\ q.applied = p.applied /\ q.rows = p.rows /\ q.folded = p.folded
BY DEF PageStates

LEMMA PollingPage ==
    ASSUME NEW p \in PageStates, NEW b \in BOOLEAN
    PROVE  LET q == [p EXCEPT !.poll = b]
           IN  /\ q \in PageStates /\ q.conn = p.conn /\ q.retry = p.retry
               /\ q.session = p.session /\ q.gen = p.gen /\ q.last = p.last /\ q.root = p.root
               /\ q.req = p.req /\ q.applied = p.applied /\ q.rows = p.rows /\ q.folded = p.folded
BY DEF PageStates

LEMMA LaterPage ==
    ASSUME NEW p \in PageStates
    PROVE  LET q == [p EXCEPT !.gen = @ + 1]
           IN  /\ q \in PageStates /\ q.gen = p.gen + 1 /\ q.conn = p.conn
               /\ q.req = p.req /\ q.applied = p.applied /\ q.retry = p.retry /\ q.session = p.session /\ q.last = p.last
               /\ q.root = p.root /\ q.rows = p.rows /\ q.folded = p.folded
BY DEF PageStates

LEMMA ConnPage ==
    ASSUME NEW p \in PageStates, NEW c \in {"snapshot", "opening", "push", "down"}
    PROVE  LET q == [p EXCEPT !.conn = c]
           IN  /\ q \in PageStates /\ q.conn = c /\ q.gen = p.gen
               /\ q.req = p.req /\ q.applied = p.applied /\ q.retry = p.retry /\ q.session = p.session /\ q.last = p.last
               /\ q.root = p.root /\ q.rows = p.rows /\ q.folded = p.folded
BY DEF PageStates

LEMMA ConnectingPage ==
    ASSUME NEW p \in PageStates
    PROVE  LET q == [p EXCEPT !.gen = @ + 1, !.conn = "snapshot"]
           IN  /\ q \in PageStates /\ q.gen = p.gen + 1 /\ q.conn = "snapshot"
               /\ q.req = p.req /\ q.applied = p.applied /\ q.retry = p.retry /\ q.session = p.session /\ q.last = p.last
               /\ q.root = p.root /\ q.rows = p.rows /\ q.folded = p.folded
<1>1. PICK x : x = [p EXCEPT !.gen = @ + 1]
  OBVIOUS
<1>2. /\ x \in PageStates /\ x.gen = p.gen + 1 /\ x.conn = p.conn
      /\ x.req = p.req /\ x.applied = p.applied /\ x.retry = p.retry /\ x.session = p.session /\ x.last = p.last
      /\ x.root = p.root /\ x.rows = p.rows /\ x.folded = p.folded
  BY <1>1, LaterPage
<1>3. PICK y : y = [x EXCEPT !.conn = "snapshot"]
  OBVIOUS
<1>4. /\ y \in PageStates /\ y.conn = "snapshot" /\ y.gen = x.gen
      /\ y.req = x.req /\ y.applied = x.applied /\ y.retry = x.retry /\ y.session = x.session /\ y.last = x.last
      /\ y.root = x.root /\ y.rows = x.rows /\ y.folded = x.folded
  BY <1>2, <1>3, ConnPage
<1>5. y = [p EXCEPT !.gen = @ + 1, !.conn = "snapshot"]
  BY <1>1, <1>3
<1> QED
  BY <1>2, <1>4, <1>5

LEMMA DownPage ==
    ASSUME NEW p \in PageStates
    PROVE  LET q == [p EXCEPT !.conn = "down"]
           IN  /\ q \in PageStates /\ q.conn = "down" /\ q.retry = p.retry /\ q.poll = p.poll
               /\ q.session = p.session /\ q.gen = p.gen /\ q.last = p.last /\ q.root = p.root
               /\ q.req = p.req /\ q.applied = p.applied /\ q.rows = p.rows /\ q.folded = p.folded
BY DEF PageStates

\* What a failure leaves of the page.
FailedFrom(p, q) ==
    /\ q \in PageStates /\ q.retry /\ q.conn = (IF p.conn = "push" THEN "push" ELSE "down")
    /\ q.session = p.session /\ q.gen = p.gen /\ q.last = p.last /\ q.root = p.root
    /\ q.req >= p.req /\ q.applied = p.applied /\ q.rows = p.rows /\ q.folded = p.folded

LEMMA FailsKeeps ==
    ASSUME NEW w, NEW sv, NEW wr, NEW rs, NEW p, NEW o, NEW refused \in BOOLEAN,
           UiAt(w, sv, wr, rs, o), p = o \/ p = [o EXCEPT !.conn = "down"], o.req < MaxReads, Fails(p, refused, rs)
    PROVE  UiAt(w, sv, wr, reads', page') /\ FailedFrom(p, page') /\ rs \subseteq reads'
<1>1. o \in PageStates /\ PageAt(w, sv, o)
  BY DEF UiAt, PageAt
<1>2. /\ p \in PageStates
      /\ p.session = o.session /\ p.gen = o.gen /\ p.last = o.last /\ p.root = o.root
      /\ p.req = o.req /\ p.applied = o.applied /\ p.rows = o.rows /\ p.folded = o.folded
  BY <1>1, DownPage
<1>3. PICK b, c : b = ~refused /\ c = IF p.conn = "push" THEN p.conn ELSE "down"
  OBVIOUS
<1>4. b \in BOOLEAN /\ c \in {"snapshot", "opening", "push", "down"}
  BY <1>3
<1>5. PICK x, q : x = [p EXCEPT !.conn = c, !.retry = TRUE] /\ q = [x EXCEPT !.poll = b]
  OBVIOUS
<1>14. /\ x \in PageStates /\ x.conn = c /\ x.retry = TRUE
      /\ x.session = p.session /\ x.gen = p.gen /\ x.last = p.last /\ x.root = p.root
      /\ x.req = p.req /\ x.applied = p.applied /\ x.rows = p.rows /\ x.folded = p.folded
  <2>1. p \in PageStates /\ c \in {"snapshot", "opening", "push", "down"}
    BY <1>2, <1>4
  <2>2. x = [p EXCEPT !.conn = c, !.retry = TRUE]
    BY <1>5
  <2> HIDE <1>5
  <2>3. LET y == [p EXCEPT !.conn = c, !.retry = TRUE]
        IN  /\ y \in PageStates /\ y.conn = c /\ y.retry = TRUE
            /\ y.session = p.session /\ y.gen = p.gen /\ y.last = p.last /\ y.root = p.root
            /\ y.req = p.req /\ y.applied = p.applied /\ y.rows = p.rows /\ y.folded = p.folded
    BY <2>1, FailedPage
  <2> QED
    BY <2>2, <2>3
<1>15. /\ q \in PageStates /\ q.conn = x.conn /\ q.retry = x.retry
      /\ q.session = x.session /\ q.gen = x.gen /\ q.last = x.last /\ q.root = x.root
      /\ q.req = x.req /\ q.applied = x.applied /\ q.rows = x.rows /\ q.folded = x.folded
  <2>1. x \in PageStates /\ b \in BOOLEAN
    BY <1>4, <1>14
  <2>2. q = [x EXCEPT !.poll = b]
    BY <1>5
  <2> HIDE <1>5
  <2> QED
    BY <2>1, <2>2, PollingPage
<1>6. /\ q \in PageStates /\ q.conn = c /\ q.retry = TRUE
      /\ q.session = p.session /\ q.gen = p.gen /\ q.last = p.last /\ q.root = p.root
      /\ q.req = p.req /\ q.applied = p.applied /\ q.rows = p.rows /\ q.folded = p.folded
  BY <1>14, <1>15
<1>7. PageAt(w, sv, q)
  BY <1>1, <1>2, <1>6 DEF PageAt
<1>8. PageStep(o, q) /\ rs \subseteq rs
  BY <1>1, <1>2, <1>6 DEF PageStep, PageStates
<1>9. UiAt(w, sv, wr, rs, q)
  BY <1>7, <1>8, PageMoves
<1>10. FailedFrom(p, q)
  BY <1>2, <1>3, <1>6 DEF FailedFrom, PageStates
<1>11. CASE refused
  <2>1. page' = q /\ reads' = rs
    BY <1>3, <1>5, <1>11 DEF Fails
  <2> QED
    BY <1>9, <1>10, <2>1
<1>12. CASE ~refused
  <2>1. page' = [q EXCEPT !.req = @ + 1] /\ reads' = rs \cup {Request(page', "once")}
    BY <1>3, <1>5, <1>12 DEF Fails, Asks
  <2>2. UiAt(w, sv, wr, reads', page')
    BY <1>2, <1>6, <1>9, <2>1, AskingKeeps DEF Askers
  <2>3. /\ page' \in PageStates /\ page'.req = q.req + 1
        /\ page'.session = q.session /\ page'.gen = q.gen /\ page'.last = q.last /\ page'.root = q.root /\ page'.applied = q.applied
        /\ page'.conn = q.conn /\ page'.retry = q.retry /\ page'.rows = q.rows /\ page'.folded = q.folded
    BY <1>6, <2>1, CountedPage
  <2>4. FailedFrom(p, page')
    BY <1>6, <1>10, <2>3 DEF FailedFrom, PageStates
  <2> QED
    BY <2>1, <2>2, <2>4
<1> QED
  BY <1>11, <1>12

LEMMA FailsAsks ==
    ASSUME NEW p, NEW refused, NEW rs, Fails(p, refused, rs)
    PROVE  \A k \in reads' : k \in rs \/ k.stage # "built"
<1>1. PICK q : reads' = rs \/ reads' = rs \cup {Request(q, "once")}
  BY DEF Fails, Asks
<1>2. Request(q, "once").stage = "sent"
  BY DEF Request
<1> QED
  BY <1>1, <1>2

\* A new stream, after a snapshot.
Reopened(p, q) ==
    /\ q \in PageStates /\ q.gen = p.gen + 1 /\ q.conn = "snapshot" /\ q.req = p.req + 1
    /\ q.applied = p.applied

LEMMA ConnectsKeeps ==
    ASSUME NEW w, NEW sv, NEW wr, NEW rs, NEW o, NEW p, UiAt(w, sv, wr, rs, o), o.req < MaxReads,
           p \in PageStates, p.gen = o.gen, p.req = o.req, p.applied = o.applied, p.last <= sv.seq,
           p.root \in {NoStore, p.session}, p.folded \subseteq p.rows, p.rows \subseteq RowsIn(w, p.session),
           (p.session = o.session /\ p.last = o.last /\ p.folded = o.folded) \/ p.folded = {},
           Connects(p, rs)
    PROVE  /\ UiAt(w, sv, wr, reads', page')
           /\ Reopened(p, page') /\ page'.retry = p.retry /\ page'.session = p.session /\ page'.last = p.last
           /\ page'.root = p.root /\ page'.rows = p.rows /\ page'.folded = p.folded
           /\ reads' = rs \cup {Request(page', "connect")}
<1>1. PICK q : q = [p EXCEPT !.gen = @ + 1, !.conn = "snapshot"]
  OBVIOUS
<1>2. /\ q \in PageStates /\ q.gen = p.gen + 1 /\ q.conn = "snapshot"
      /\ q.req = p.req /\ q.applied = p.applied /\ q.retry = p.retry /\ q.session = p.session /\ q.last = p.last
      /\ q.root = p.root /\ q.rows = p.rows /\ q.folded = p.folded
  BY <1>1, ConnectingPage
<1>3. PageAt(w, sv, o) /\ p.gen \in Nat /\ o.gen \in Nat /\ o.req \in Nat
  BY DEF UiAt, PageAt, PageStates
<1>4. PageAt(w, sv, q)
  BY <1>2, <1>3 DEF PageAt
<1>5. PageStep(o, q) /\ rs \subseteq rs
  BY <1>2, <1>3 DEF PageStep
<1>6. UiAt(w, sv, wr, rs, q)
  BY <1>4, <1>5, PageMoves
<1>7. page' = [q EXCEPT !.req = @ + 1] /\ reads' = rs \cup {Request(page', "connect")}
  BY <1>1 DEF Connects, Asks
<1>8. UiAt(w, sv, wr, reads', page')
  BY <1>2, <1>6, <1>7, AskingKeeps DEF Askers
<1>9. /\ page' \in PageStates /\ page'.req = q.req + 1
      /\ page'.session = q.session /\ page'.gen = q.gen /\ page'.last = q.last /\ page'.root = q.root /\ page'.applied = q.applied
      /\ page'.conn = q.conn /\ page'.retry = q.retry /\ page'.rows = q.rows /\ page'.folded = q.folded
  BY <1>2, <1>7, CountedPage
<1> QED
  BY <1>2, <1>7, <1>8, <1>9 DEF Reopened

(***************************************************************************)
(* The host.                                                               *)
(***************************************************************************)
LEMMA RowsGrow ==
    ASSUME NEW w \in Seq(Stores), NEW s \in Stores
    PROVE  Append(w, s) \in Seq(Stores) /\ \A t : RowsIn(w, t) \subseteq RowsIn(Append(w, s), t)
<1>1. /\ Append(w, s) \in Seq(Stores) /\ Len(Append(w, s)) = Len(w) + 1 /\ Len(w) \in Nat
      /\ \A i \in 1..Len(w) : Append(w, s)[i] = w[i]
  BY AppendProperties
<1>2. DOMAIN w = 1..Len(w) /\ DOMAIN Append(w, s) = 1..Len(w) + 1
  BY <1>1, LenProperties
<1>3. 1..Len(w) \subseteq 1..Len(w) + 1
  BY <1>1
<1> QED
  BY <1>1, <1>2, <1>3 DEF RowsIn

LEMMA RowsAreNumbers ==
    ASSUME NEW w \in Seq(Stores), NEW s
    PROVE  RowsIn(w, s) \subseteq Nat
<1>1. DOMAIN w = 1..Len(w) /\ Len(w) \in Nat
  BY LenProperties
<1> QED
  BY <1>1 DEF RowsIn

LEMMA WriteKeeps ==
    ASSUME UiIInv, NEW s \in Stores, Write(s)
    PROVE  UiIInv'
<1>1. written \in Seq(Stores) /\ written' = Append(written, s) /\ UNCHANGED <<bridge, srv, memory, wire, reads, page>>
  BY DEF UiIInv, UiAt, Write
<1>2. written' \in Seq(Stores) /\ \A t : RowsIn(written, t) \subseteq RowsIn(written', t)
  BY <1>1, RowsGrow
<1>3. UiAt(written, srv, wire, reads, page) /\ BridgeAt(written, bridge) /\ memory \subseteq Stores
  BY DEF UiIInv
<1>4. BridgeAt(written', bridge)
  BY <1>2, <1>3 DEF BridgeAt
<1>5. FramesAt(written', srv, wire)
  BY <1>2, <1>3 DEF UiAt, FramesAt
<1>6. PageAt(written', srv, page)
  BY <1>2, <1>3 DEF UiAt, PageAt
<1>7. \A r \in reads : ReadAt(written', srv, wire, page, r)
  BY <1>2, <1>3 DEF UiAt, ReadAt
<1>8. UiAt(written', srv, wire, reads, page)
  BY <1>2, <1>3, <1>5, <1>6, <1>7 DEF UiAt
<1> QED
  BY <1>1, <1>3, <1>4, <1>8 DEF UiIInv

LEMMA RefreshKeeps ==
    ASSUME UiIInv, NEW s \in Stores, Refresh(s)
    PROVE  UiIInv'
<1>1. /\ UNCHANGED <<written, srv, memory, wire, page, reads>> /\ BridgeAt(written, bridge) /\ written \in Seq(Stores)
      /\ bridge[s].seeded \in BOOLEAN /\ bridge[s].seen \subseteq Nat
  BY DEF Refresh, UiIInv, UiAt, BridgeAt, Feeds
<1>2. PICK fresh : fresh = IF bridge[s].seeded THEN RowsOf(s) \ bridge[s].seen ELSE {}
  OBVIOUS
<1>3. RowsOf(s) = RowsIn(written, s) /\ RowsOf(s) \subseteq Nat
  BY <1>1, RowsAreNumbers DEF RowsOf, RowsIn
<1>4. PICK b : b = [seeded |-> TRUE, seen |-> RowsOf(s), flight |-> TRUE, fresh |-> fresh]
  OBVIOUS
<1>5. b \in Feeds /\ b.fresh \subseteq RowsIn(written, s)
  BY <1>2, <1>3, <1>4 DEF Feeds
<1>6. bridge' = [bridge EXCEPT ![s] = b]
  BY <1>2, <1>4 DEF Refresh
<1>7. BridgeAt(written, bridge')
  BY <1>1, <1>5, <1>6 DEF BridgeAt
<1> QED
  BY <1>1, <1>7 DEF UiIInv

LEMMA FramesAreFrames ==
    ASSUME NEW w, NEW sv, NEW wr, ServerAt(sv), FramesAt(w, sv, wr)
    PROVE  FramesIn(sv, wr) \subseteq Frames
<1>1. ASSUME NEW i \in 1..Len(sv.history) PROVE sv.history[i] \in Frames
  <2>1. sv.history \in Seq(Frames)
    BY DEF ServerAt, Servers
  <2> QED
    BY <1>1, <2>1, ElementOfSeq
<1>2. \A m \in wr : m.frame \in Frames
  BY DEF FramesAt, OnWire
<1> QED
  BY <1>1, <1>2 DEF FramesIn

\* The transport moves on: what it adds counts above every version given.
LEMMA HostMoves ==
    ASSUME NEW w, NEW sv, NEW wr, NEW rs, NEW p, NEW sv2, NEW wr2,
           UiAt(w, sv, wr, rs, p), ServerAt(sv2), sv2.seq >= sv.seq, FramesAt(w, sv2, wr2), StreamsAt(sv2, wr2, p),
           \A f \in FramesIn(sv2, wr2) : f \in FramesIn(sv, wr) \/ f.seq > sv.seq \/ f.rows = {}
    PROVE  UiAt(w, sv2, wr2, rs, p)
<1>1. sv.seq \in Nat /\ sv2.seq \in Nat
  BY DEF UiAt, ServerAt, Servers
<1>2. PageAt(w, sv2, p)
  BY <1>1 DEF UiAt, PageAt, PageStates
<1>3. ASSUME NEW r \in rs PROVE ReadAt(w, sv2, wr2, p, r)
  <2>1. ReadAt(w, sv, wr, p, r) /\ r.at \in Nat
    BY DEF UiAt, ReadAt, Snapshots
  <2>2. \A f \in FramesIn(sv2, wr2) : f.seq \in Nat
    BY FramesAreFrames DEF Frames
  <2>3. ASSUME NEW f \in FramesIn(sv2, wr2), f.root = r.session, f.seq <= r.at, r.stage = "built"
        PROVE  f.rows \subseteq r.rows
    <3>1. r.at <= sv.seq
      BY <2>1 DEF ReadAt
    <3>2. ~(f.seq > sv.seq)
      BY <1>1, <2>1, <2>2, <2>3, <3>1
    <3>3. CASE f \in FramesIn(sv, wr)
      BY <2>1, <2>3, <3>3 DEF ReadAt
    <3> QED
      BY <3>2, <3>3
  <2>4. r.at <= sv2.seq
    BY <1>1, <2>1 DEF ReadAt
  <2> QED
    BY <2>1, <2>3, <2>4 DEF ReadAt
<1> QED
  BY <1>2, <1>3 DEF UiAt

\* The history of a transport that numbers one more frame.
Moved(sv, f, h) ==
    /\ h \in Seq(Frames) /\ Len(h) <= HistoryLimit /\ h # <<>>
    /\ \A i \in 1..Len(h) : h[i].seq = sv.seq + 1 - Len(h) + i
    /\ \A i \in 1..Len(h) : h[i] = f \/ \E k \in 1..Len(sv.history) : h[i] = sv.history[k]

LEMMA HistoryMoves ==
    ASSUME NEW sv, ServerAt(sv), NEW f \in Frames, f.seq = sv.seq + 1
    PROVE  Moved(sv, f, Trimmed(Append(sv.history, f)))
<1> SUFFICES ASSUME NEW h, h = Trimmed(Append(sv.history, f))
             PROVE  /\ h \in Seq(Frames) /\ Len(h) <= HistoryLimit /\ h # <<>>
                    /\ \A i \in 1..Len(h) : h[i].seq = sv.seq + 1 - Len(h) + i
                    /\ \A i \in 1..Len(h) : h[i] = f \/ \E k \in 1..Len(sv.history) : h[i] = sv.history[k]
  BY DEF Moved
<1> DEFINE o == sv.history
           a == Append(o, f)
<1>1. o \in Seq(Frames) /\ Len(o) \in Nat /\ sv.seq \in Nat /\ HistoryLimit \in Nat \ {0} /\ Len(o) <= HistoryLimit
  BY UiAssumption, LenProperties DEF ServerAt, Servers, UiAssumption
<1>2. /\ a \in Seq(Frames) /\ Len(a) = Len(o) + 1 /\ a[Len(o) + 1] = f
      /\ \A i \in 1..Len(o) : a[i] = o[i]
  BY <1>1, AppendProperties
<1>3. \A i \in 1..Len(o) : o[i].seq = sv.seq - Len(o) + i
  BY DEF ServerAt
<1>4. \A i \in 1..Len(a) : a[i].seq = sv.seq - Len(o) + i /\ (a[i] = f \/ \E k \in 1..Len(o) : a[i] = o[k])
  <2>1. ASSUME NEW i \in 1..Len(a) PROVE a[i].seq = sv.seq - Len(o) + i /\ (a[i] = f \/ \E k \in 1..Len(o) : a[i] = o[k])
    <3>1. CASE i = Len(o) + 1
      BY <1>1, <1>2, <3>1
    <3>2. CASE i \in 1..Len(o)
      BY <1>1, <1>2, <1>3, <3>2
    <3> QED
      BY <1>1, <1>2, <3>1, <3>2
  <2> QED
    BY <2>1
<1>5. CASE Len(a) > HistoryLimit
  <2>1. h = Tail(a) /\ a # <<>>
    BY <1>1, <1>2, <1>5, EmptySeq DEF Trimmed
  <2>2. /\ h \in Seq(Frames) /\ Len(h) = Len(o)
        /\ \A i \in 1..Len(h) : h[i] = a[i + 1]
    <3>1. /\ Tail(a) \in Seq(Frames) /\ Len(Tail(a)) = Len(a) - 1
          /\ \A i \in 1..Len(Tail(a)) : Tail(a)[i] = a[i + 1]
      BY <1>2, <2>1, HeadTailProperties
    <3> QED
      BY <1>1, <1>2, <2>1, <3>1
  <2>3. Len(h) = HistoryLimit /\ h # <<>>
    BY <1>1, <1>2, <1>5, <2>2, EmptySeq
  <2>4. ASSUME NEW i \in 1..Len(h) PROVE i + 1 \in 1..Len(a)
    BY <1>1, <1>2, <2>2
  <2>5. ASSUME NEW i \in 1..Len(h)
        PROVE  h[i].seq = sv.seq + 1 - Len(h) + i /\ (h[i] = f \/ \E k \in 1..Len(o) : h[i] = o[k])
    <3>1. PICK j \in 1..Len(a) : j = i + 1 /\ h[i] = a[j]
      BY <2>2, <2>4
    <3>2. h[i].seq = sv.seq - Len(o) + j /\ (h[i] = f \/ \E k \in 1..Len(o) : h[i] = o[k])
      BY <1>4, <3>1
    <3>3. sv.seq - Len(o) + j = sv.seq + 1 - Len(h) + i
      <4>1. PICK n, m, k : n = sv.seq /\ m = Len(o) /\ k = Len(h)
        OBVIOUS
      <4>2. n \in Nat /\ m \in Nat /\ k = m /\ i \in 1..k /\ j = i + 1
        BY <1>1, <2>2, <3>1, <4>1
      <4>3. n - m + j = n + 1 - k + i
        BY <4>2
      <4> QED
        BY <4>1, <4>3
    <3> QED
      BY <3>2, <3>3
  <2> QED
    BY <1>1, <2>2, <2>3, <2>5
<1>6. CASE ~(Len(a) > HistoryLimit)
  <2>1. h = a
    BY <1>6 DEF Trimmed
  <2>2. h # <<>>
    BY <1>1, <1>2, <2>1, EmptySeq
  <2>3. ASSUME NEW i \in 1..Len(a) PROVE sv.seq - Len(o) + i = sv.seq + 1 - Len(a) + i
    BY <1>1, <1>2
  <2>4. Len(h) <= HistoryLimit
    BY <1>1, <1>2, <1>6, <2>1
  <2> QED
    BY <1>2, <1>4, <2>1, <2>2, <2>3, <2>4
<1> QED
  BY <1>5, <1>6

LEMMA DeliverKeeps ==
    ASSUME UiIInv, NEW s \in Stores, Deliver(s)
    PROVE  UiIInv'
<1>1. /\ UNCHANGED <<written, memory, reads, page>> /\ UiAt(written, srv, wire, reads, page)
      /\ BridgeAt(written, bridge) /\ bridge[s] \in Feeds
  BY DEF Deliver, UiIInv, BridgeAt
<1>2. BridgeAt(written, bridge')
  <2>1. PICK b : b = [[bridge[s] EXCEPT !.flight = FALSE] EXCEPT !.fresh = {}]
    OBVIOUS
  <2>2. b \in Feeds /\ b.fresh = {}
    BY <1>1, <2>1 DEF Feeds
  <2>3. bridge' = [bridge EXCEPT ![s] = b]
    BY <1>1, <2>1 DEF Deliver, BridgeAt
  <2> QED
    BY <1>1, <2>2, <2>3 DEF BridgeAt
<1>3. PICK f : f = Frame(srv.seq + 1, s, bridge[s].fresh)
  OBVIOUS
<1>4. CASE f.rows = {}
  <2>1. UNCHANGED <<srv, wire>>
    BY <1>3, <1>4 DEF Deliver
  <2> QED
    BY <1>1, <1>2, <2>1 DEF UiIInv
<1>5. CASE f.rows # {}
  <2>1. PICK h, to : h = Trimmed(Append(srv.history, f)) /\ to = {t \in srv.streams : Resolves(t.session, s)}
    OBVIOUS
  <2>2. srv' = [srv EXCEPT !.seq = f.seq, !.history = h] /\ wire' = wire \cup {On(t, f) : t \in to}
    BY <1>3, <1>5, <2>1 DEF Deliver
  <2>3. ServerAt(srv) /\ srv \in Servers /\ srv.seq \in Nat /\ \A t \in srv.streams : t.gen \in Nat
    BY <1>1 DEF UiAt, ServerAt, Servers
  <2>4. f \in Frames /\ f.seq = srv.seq + 1 /\ f.root = s /\ f.rows = bridge[s].fresh
    BY <1>1, <1>3, <2>3 DEF Frame, Frames, Feeds, Roots
  <2>5. /\ h \in Seq(Frames) /\ Len(h) <= HistoryLimit /\ h # <<>>
        /\ \A i \in 1..Len(h) : h[i].seq = srv.seq + 1 - Len(h) + i
        /\ \A i \in 1..Len(h) : h[i] = f \/ \E k \in 1..Len(srv.history) : h[i] = srv.history[k]
    <3>1. h = Trimmed(Append(srv.history, f))
      BY <2>1
    <3>2. ServerAt(srv)
      BY <2>3
    <3>3. f \in Frames /\ f.seq = srv.seq + 1
      BY <2>4
    <3>4. Moved(srv, f, Trimmed(Append(srv.history, f)))
      BY <3>2, <3>3, HistoryMoves
    <3> QED
      BY <3>1, <3>4 DEF Moved
  <2>6. srv' \in Servers /\ srv'.seq = srv.seq + 1 /\ srv'.history = h /\ srv'.streams = srv.streams
    <3>1. h \in Seq(Frames) /\ f.seq \in Nat
      BY <2>3, <2>4, <2>5
    <3>2. srv' \in Servers /\ srv'.seq = f.seq /\ srv'.history = h /\ srv'.streams = srv.streams
      <4>1. PICK n : n = f.seq
        OBVIOUS
      <4>2. srv' = [srv EXCEPT !.seq = n, !.history = h]
        BY <2>2, <4>1
      <4>3. srv \in Servers /\ n \in Nat
        BY <2>3, <3>1, <4>1
      <4> HIDE <2>2
      <4>5. PICK v : v = [srv EXCEPT !.seq = n, !.history = h]
        OBVIOUS
      <4>4. v \in Servers /\ v.seq = n /\ v.history = h /\ v.streams = srv.streams
        BY <3>1, <4>3, <4>5 DEF Servers
      <4> QED
        BY <4>1, <4>2, <4>4, <4>5
    <3> QED
      BY <2>4, <3>2
  <2>7. ServerAt(srv')
    <3>1. Len(h) \in Nat
      BY <2>5, LenProperties
    <3>2. \A i \in 1..Len(srv'.history) : srv'.history[i].seq = srv'.seq - Len(srv'.history) + i
      BY <2>3, <2>5, <2>6, <3>1
    <3> QED
      BY <2>5, <2>6, <3>2 DEF ServerAt
  <2>8. FramesIn(srv', wire') \subseteq FramesIn(srv, wire) \cup {f}
    BY <2>2, <2>5, <2>6 DEF FramesIn, On
  <2>9. f.rows \subseteq RowsIn(written, f.root)
    BY <1>1, <2>4 DEF BridgeAt
  <2>10. FramesAt(written, srv', wire')
    <3>1. wire \subseteq OnWire /\ FramesIn(srv, wire) \subseteq Frames /\ \A g \in FramesIn(srv, wire) : g.seq <= srv.seq /\ g.rows \subseteq RowsIn(written, g.root)
      BY <1>1, <2>3, FramesAreFrames DEF UiAt, FramesAt
    <3>2. \A t \in to : On(t, f) \in OnWire
      BY <2>1, <2>3, <2>4 DEF On, OnWire
    <3>3. \A g \in FramesIn(srv', wire') : g.seq <= srv'.seq /\ g.rows \subseteq RowsIn(written, g.root)
      BY <2>3, <2>4, <2>6, <2>8, <2>9, <3>1 DEF Frames
    <3> QED
      BY <2>2, <3>1, <3>2, <3>3 DEF FramesAt
  <2>11. StreamsAt(srv', wire', page)
    <3>1. StreamsAt(srv, wire, page)
      BY <1>1 DEF UiAt
    <3>2. ASSUME NEW t \in to PROVE t.gen <= page.gen /\ (t.gen = page.gen => f.root = page.session)
      BY <2>1, <2>4, <3>1 DEF StreamsAt, Resolves
    <3> QED
      BY <2>2, <2>6, <3>1, <3>2 DEF StreamsAt, On
  <2>12. srv'.seq >= srv.seq /\ \A g \in FramesIn(srv', wire') : g \in FramesIn(srv, wire) \/ g.seq > srv.seq \/ g.rows = {}
    BY <2>3, <2>4, <2>6, <2>8
  <2>13. UiAt(written, srv', wire', reads, page)
    BY <1>1, <2>7, <2>10, <2>11, <2>12, HostMoves
  <2> QED
    BY <1>1, <1>2, <2>13 DEF UiIInv
<1> QED
  BY <1>4, <1>5

LEMMA ServeEventsKeeps ==
    ASSUME UiIInv, ServeEvents
    PROVE  UiIInv'
<1>1. /\ UNCHANGED <<written, memory, reads, page, bridge>> /\ UiAt(written, srv, wire, reads, page)
      /\ ServerAt(srv) /\ srv \in Servers /\ srv.seq \in Nat /\ page \in PageStates /\ FramesAt(written, srv, wire)
      /\ written \in Seq(Stores)
  BY DEF ServeEvents, UiIInv, UiAt, ServerAt, Servers, PageAt
<1>2. PICK t : t = [gen |-> page.gen, session |-> page.session]
  OBVIOUS
<1>3. PICK fs : fs = Missed(page.session, page.last)
  OBVIOUS
<1>4. t.gen = page.gen /\ t.session = page.session /\ t \in [gen : Nat, session : Stores]
  BY <1>1, <1>2 DEF PageStates
<1>5. srv' = [srv EXCEPT !.streams = @ \cup {t}] /\ wire' = wire \cup {On(t, f) : f \in fs}
  BY <1>2, <1>3, <1>4 DEF ServeEvents
<1>6. /\ srv' \in Servers /\ srv'.seq = srv.seq /\ srv'.history = srv.history
      /\ srv'.streams = srv.streams \cup {t}
  BY <1>1, <1>4, <1>5 DEF Servers
<1>7. ServerAt(srv')
  BY <1>1, <1>6 DEF ServerAt
<1>8. FramesIn(srv, wire) \subseteq Frames
  BY <1>1, FramesAreFrames
<1>9. ASSUME NEW f \in fs
      PROVE  /\ f \in Frames /\ f.seq <= srv.seq /\ f.rows \subseteq RowsIn(written, f.root)
             /\ f.root \in {NoStore, page.session}
             /\ f \in FramesIn(srv, wire) \/ f.rows = {}
  <2>1. CASE f = [seq |-> srv.seq, root |-> NoStore, rows |-> {}, ready |-> TRUE]
    BY <1>1, <2>1 DEF Frames, Roots
  <2>2. CASE f \in ToSet(srv.history) /\ f.root = page.session
    <3>1. srv.history \in Seq(Frames)
      BY <1>1 DEF Servers
    <3>2. f \in FramesIn(srv, wire)
      BY <2>2, <3>1, LenProperties DEF ToSet, FramesIn
    <3> QED
      BY <1>1, <1>8, <2>2, <3>2 DEF FramesAt
  <2> QED
    BY <1>3, <2>1, <2>2 DEF Missed
<1>10. FramesIn(srv', wire') \subseteq FramesIn(srv, wire) \cup fs
  BY <1>5, <1>6 DEF FramesIn, On
<1>11. FramesAt(written, srv', wire')
  <2>1. \A f \in fs : On(t, f) \in OnWire
    BY <1>4, <1>9 DEF On, OnWire
  <2> QED
    BY <1>1, <1>5, <1>6, <1>9, <1>10, <2>1 DEF FramesAt
<1>12. StreamsAt(srv', wire', page)
  <2>1. StreamsAt(srv, wire, page) /\ page.gen <= page.gen
    BY <1>1 DEF UiAt, PageStates
  <2>2. ASSUME NEW m \in wire' PROVE m.gen <= page.gen /\ (m.gen = page.gen => m.frame.root \in {NoStore, page.session})
    <3>1. CASE m \in wire
      BY <2>1, <3>1 DEF StreamsAt
    <3>2. CASE m \in {On(t, f) : f \in fs}
      BY <1>4, <1>9, <2>1, <3>2 DEF On
    <3> QED
      BY <1>5, <3>1, <3>2
  <2> QED
    BY <1>4, <1>6, <2>1, <2>2 DEF StreamsAt
<1>13. srv'.seq >= srv.seq /\ \A g \in FramesIn(srv', wire') : g \in FramesIn(srv, wire) \/ g.seq > srv.seq \/ g.rows = {}
  BY <1>1, <1>6, <1>9, <1>10
<1>14. UiAt(written, srv', wire', reads, page)
  BY <1>1, <1>7, <1>11, <1>12, <1>13, HostMoves
<1> QED
  BY <1>1, <1>14 DEF UiIInv

\* Streams that are closed.
LEMMA ClosingKeeps ==
    ASSUME NEW w, NEW sv, NEW wr, NEW rs, NEW p, UiAt(w, sv, wr, rs, p), NEW open, open \subseteq sv.streams,
           NEW sv2, sv2 = [sv EXCEPT !.streams = open], NEW wr2, wr2 \subseteq wr
    PROVE  /\ UiAt(w, sv2, wr2, rs, p)
           /\ sv2.seq = sv.seq /\ sv2.history = sv.history /\ sv2.streams = open
<1>1. sv \in Servers /\ ServerAt(sv) /\ sv.seq \in Nat
  BY DEF UiAt, ServerAt, Servers
<1>2. sv2 \in Servers /\ sv2.seq = sv.seq /\ sv2.history = sv.history /\ sv2.streams = open
  BY <1>1 DEF Servers
<1>3. ServerAt(sv2)
  BY <1>1, <1>2 DEF ServerAt
<1>4. FramesIn(sv2, wr2) \subseteq FramesIn(sv, wr)
  BY <1>2 DEF FramesIn
<1>5. FramesAt(w, sv2, wr2) /\ StreamsAt(sv2, wr2, p)
  BY <1>2, <1>4 DEF UiAt, FramesAt, StreamsAt
<1>6. sv2.seq >= sv.seq /\ \A g \in FramesIn(sv2, wr2) : g \in FramesIn(sv, wr) \/ g.seq > sv.seq \/ g.rows = {}
  BY <1>1, <1>2, <1>4
<1> QED
  BY <1>2, <1>3, <1>5, <1>6, HostMoves

LEMMA DropStreamKeeps ==
    ASSUME UiIInv, NEW t \in srv.streams, DropStream(t)
    PROVE  UiIInv'
<1>1. /\ UNCHANGED <<written, bridge, memory, wire, reads, page>> /\ srv \in Servers
      /\ srv' = [srv EXCEPT !.streams = srv.streams \ {t}]
  BY DEF DropStream, UiIInv, UiAt, ServerAt, Servers
<1>2. UiAt(written, srv', wire, reads, page)
  BY <1>1, ClosingKeeps DEF UiIInv
<1> QED
  BY <1>1, <1>2 DEF UiIInv

(***************************************************************************)
(* The requests of the page, at the host.                                  *)
(***************************************************************************)
LEMMA ReplacedKeeps ==
    ASSUME UiIInv, NEW r, NEW n, Replace(r, n), UNCHANGED <<written, bridge, srv, memory, wire, page>>,
           ReadAt(written, srv, wire, page, n)
    PROVE  UiIInv'
BY DEF UiIInv, UiAt, Replace

LEMMA ServeSnapshotKeeps ==
    ASSUME UiIInv, NEW r \in reads, ServeSnapshot(r)
    PROVE  UiIInv'
<1>1. ReadAt(written, srv, wire, page, r) /\ r \in Snapshots /\ srv.seq \in Nat
  BY DEF UiIInv, UiAt, ReadAt, ServerAt, Servers
<1>2. PICK b, u : b = [[r EXCEPT !.stage = "building"] EXCEPT !.at = srv.seq] /\ u = [r EXCEPT !.stage = "refused"]
  OBVIOUS
<1>3. Replace(r, IF Resolves(r.session, r.session) THEN b ELSE u) /\ UNCHANGED <<written, bridge, srv, memory, wire, page>>
  BY <1>2 DEF ServeSnapshot
<1>4. b \in Snapshots /\ b.stage = "building" /\ b.at = srv.seq /\ b.id = r.id /\ b.gen = r.gen
  BY <1>1, <1>2 DEF Snapshots
<1>5. u \in Snapshots /\ u.stage = "refused" /\ u.at = r.at /\ u.id = r.id /\ u.gen = r.gen
  BY <1>1, <1>2 DEF Snapshots
<1>6. ReadAt(written, srv, wire, page, b) /\ ReadAt(written, srv, wire, page, u)
  BY <1>1, <1>4, <1>5 DEF ReadAt
<1>7. ReadAt(written, srv, wire, page, IF Resolves(r.session, r.session) THEN b ELSE u)
  BY <1>6
<1> QED
  BY <1>3, <1>7, ReplacedKeeps

LEMMA BuildSnapshotKeeps ==
    ASSUME UiIInv, NEW r \in reads, BuildSnapshot(r)
    PROVE  UiIInv'
<1>1. /\ ReadAt(written, srv, wire, page, r) /\ r \in Snapshots /\ written \in Seq(Stores)
      /\ PageAt(written, srv, page) /\ FramesAt(written, srv, wire)
  BY DEF UiIInv, UiAt, ReadAt
<1>2. PICK b : b = [[r EXCEPT !.stage = "built"] EXCEPT !.rows = RowsOf(r.session)]
  OBVIOUS
<1>3. Replace(r, b) /\ UNCHANGED <<written, bridge, srv, memory, wire, page>>
  BY <1>2 DEF BuildSnapshot
<1>4. RowsOf(r.session) = RowsIn(written, r.session) /\ RowsOf(r.session) \subseteq Nat
  BY <1>1, RowsAreNumbers DEF RowsOf, RowsIn
<1>5. b \in Snapshots /\ b.stage = "built" /\ b.at = r.at /\ b.id = r.id /\ b.gen = r.gen /\ b.session = r.session
      /\ b.rows = RowsIn(written, r.session)
  BY <1>1, <1>2, <1>4 DEF Snapshots
<1>6. ReadAt(written, srv, wire, page, b)
  BY <1>1, <1>5 DEF ReadAt, PageAt, FramesAt
<1> QED
  BY <1>3, <1>6, ReplacedKeeps

(***************************************************************************)
(* The page.                                                               *)
(***************************************************************************)
LEMMA ShownPage ==
    ASSUME NEW p \in PageStates, NEW r \in Snapshots
    PROVE  /\ Shows(p, r) \in PageStates /\ Shows(p, r).applied = r.id /\ Shows(p, r).root = r.session
           /\ Shows(p, r).rows = r.rows
           /\ Shows(p, r).session = p.session /\ Shows(p, r).gen = p.gen /\ Shows(p, r).last = p.last
           /\ Shows(p, r).req = p.req /\ Shows(p, r).conn = p.conn /\ Shows(p, r).poll = p.poll
           /\ Shows(p, r).retry = p.retry /\ Shows(p, r).folded = p.folded
<1>1. r.id \in Nat /\ r.session \in Roots /\ r.rows \in SUBSET Nat
  BY DEF Snapshots, Roots
<1>2. PICK x, root, rows : root = r.session /\ rows = r.rows /\ x = [p EXCEPT !.applied = r.id]
  OBVIOUS
<1>3. /\ x \in PageStates /\ x.applied = r.id /\ x.root = p.root /\ x.rows = p.rows
      /\ x.session = p.session /\ x.gen = p.gen /\ x.last = p.last
      /\ x.req = p.req /\ x.conn = p.conn /\ x.poll = p.poll /\ x.retry = p.retry /\ x.folded = p.folded
  BY <1>1, <1>2 DEF PageStates
<1>4. PICK y : y = [x EXCEPT !.root = root]
  OBVIOUS
<1>5. /\ y \in PageStates /\ y.applied = x.applied /\ y.root = root /\ y.rows = x.rows
      /\ y.session = x.session /\ y.gen = x.gen /\ y.last = x.last
      /\ y.req = x.req /\ y.conn = x.conn /\ y.poll = x.poll /\ y.retry = x.retry /\ y.folded = x.folded
  BY <1>1, <1>2, <1>3, <1>4 DEF PageStates
<1>6. PICK z : z = [y EXCEPT !.rows = rows]
  OBVIOUS
<1>7. /\ z \in PageStates /\ z.applied = y.applied /\ z.root = y.root /\ z.rows = rows
      /\ z.session = y.session /\ z.gen = y.gen /\ z.last = y.last
      /\ z.req = y.req /\ z.conn = y.conn /\ z.poll = y.poll /\ z.retry = y.retry /\ z.folded = y.folded
  BY <1>1, <1>2, <1>5, <1>6 DEF PageStates
<1>8. z = Shows(p, r)
  BY <1>2, <1>4, <1>6 DEF Shows
<1> QED
  BY <1>2, <1>3, <1>5, <1>7, <1>8

\* What an answer makes of the page, if it is shown and if it opens a stream.
LEMMA LandedPage ==
    ASSUME UiIInv, NEW r \in reads, LandSnapshot(r)
    PROVE  /\ UiAt(written, srv, wire, reads', page') /\ page' \in PageStates
           /\ page'.session = page.session /\ page'.gen = page.gen /\ page'.last = page.last /\ page'.req = page.req
           /\ page'.retry = page.retry /\ page'.folded = page.folded
           /\ page'.conn \in {page.conn, "opening"}
           /\ MayShow(r) => page'.applied = r.id /\ page'.rows = r.rows
           /\ ~MayShow(r) => page'.applied = page.applied /\ page'.rows = page.rows
<1>1. /\ ReadAt(written, srv, wire, page, r) /\ r \in Snapshots /\ page \in PageStates
      /\ PageAt(written, srv, page) /\ UiAt(written, srv, wire, reads, page) /\ r.stage = "built"
  BY DEF UiIInv, UiAt, ReadAt, PageAt, LandSnapshot
<1>2. PICK p : p = IF MayShow(r) THEN Shows(page, r) ELSE page
  OBVIOUS
<1>3. page' = IF r.by = "connect" /\ r.gen = p.gen THEN [p EXCEPT !.conn = "opening"] ELSE p
  BY <1>2 DEF LandSnapshot
<1>4. /\ p \in PageStates
      /\ p.session = page.session /\ p.gen = page.gen /\ p.last = page.last /\ p.req = page.req
      /\ p.retry = page.retry /\ p.folded = page.folded /\ p.conn = page.conn
      /\ MayShow(r) => p.applied = r.id /\ p.rows = r.rows /\ p.root = r.session
      /\ ~MayShow(r) => p.applied = page.applied /\ p.rows = page.rows /\ p.root = page.root
  BY <1>1, <1>2, ShownPage
<1>5. /\ page' \in PageStates /\ page'.conn \in {p.conn, "opening"}
      /\ page'.session = p.session /\ page'.gen = p.gen /\ page'.last = p.last /\ page'.req = p.req
      /\ page'.retry = p.retry /\ page'.folded = p.folded
      /\ page'.applied = p.applied /\ page'.rows = p.rows /\ page'.root = p.root
  <2>1. CASE r.by = "connect" /\ r.gen = p.gen
    BY <1>3, <1>4, <2>1, ConnPage
  <2>2. CASE ~(r.by = "connect" /\ r.gen = p.gen)
    BY <1>3, <1>4, <2>2
  <2> QED
    BY <2>1, <2>2
<1>6. PageAt(written, srv, page')
  <2>1. CASE MayShow(r)
    <3>1. r.session = page.session /\ r.at >= page.last
      BY <2>1 DEF MayShow
    <3>2. page.folded \subseteq r.rows /\ r.rows \subseteq RowsIn(written, r.session) /\ r.id \in 1..page.req
      BY <1>1, <3>1 DEF ReadAt, Snapshots, PageStates
    <3> QED
      BY <1>1, <1>4, <1>5, <2>1, <3>1, <3>2 DEF PageAt, PageStates
  <2>2. CASE ~MayShow(r)
    BY <1>1, <1>4, <1>5, <2>2 DEF PageAt
  <2> QED
    BY <2>1, <2>2
<1>7. PageStep(page, page') /\ reads' \subseteq reads
  BY <1>1, <1>4, <1>5 DEF PageStep, PageStates, LandSnapshot
<1>8. UiAt(written, srv, wire, reads', page')
  BY <1>1, <1>6, <1>7, PageMoves
<1> QED
  BY <1>4, <1>5, <1>8

LEMMA LandSnapshotKeeps ==
    ASSUME UiIInv, NEW r \in reads, LandSnapshot(r)
    PROVE  UiIInv'
<1>1. UiAt(written, srv, wire, reads', page') /\ UNCHANGED <<written, bridge, srv, memory, wire>>
  BY LandedPage DEF LandSnapshot
<1> QED
  BY <1>1 DEF UiIInv

LEMMA ReadFailsKeeps ==
    ASSUME UiIInv, NEW r \in reads, ReadFails(r)
    PROVE  UiIInv'
<1>1. UiAt(written, srv, wire, reads, page) /\ UNCHANGED <<written, bridge, srv, memory, wire>> /\ page.req < MaxReads
  BY DEF UiIInv, ReadFails, MayAsk
<1>2. CASE r.by = "refresh" \/ (r.by = "connect" /\ r.gen = page.gen)
  <2>1. Fails(page, r.stage = "refused", reads \ {r}) /\ (r.stage = "refused") \in BOOLEAN
    BY <1>2 DEF ReadFails
  <2>2. UiAt(written, srv, wire, reads \ {r}, page)
    BY <1>1 DEF UiAt
  <2>3. UiAt(written, srv, wire, reads', page')
    BY <1>1, <2>1, <2>2, FailsKeeps
  <2> QED
    BY <1>1, <2>3 DEF UiIInv
<1>3. CASE ~(r.by = "refresh" \/ (r.by = "connect" /\ r.gen = page.gen))
  <2>1. UNCHANGED page /\ reads' = reads \ {r}
    BY <1>3 DEF ReadFails
  <2>2. UiAt(written, srv, wire, reads', page')
    BY <1>1, <2>1 DEF UiAt
  <2> QED
    BY <1>1, <2>2 DEF UiIInv
<1> QED
  BY <1>2, <1>3

LEMMA PollTickKeeps ==
    ASSUME UiIInv, PollTick
    PROVE  UiIInv'
<1>1. /\ UiAt(written, srv, wire, reads, page) /\ UNCHANGED <<written, bridge, srv, memory, wire>> /\ page.req < MaxReads
      /\ page' = [page EXCEPT !.req = @ + 1] /\ reads' = reads \cup {Request(page', "poll")}
  BY DEF UiIInv, PollTick, MayAsk, Asks
<1>2. UiAt(written, srv, wire, reads', page')
  BY <1>1, AskingKeeps DEF Askers
<1> QED
  BY <1>1, <1>2 DEF UiIInv

\* The page that a retry and a switch connect from.
LEMMA RetryingPage ==
    ASSUME NEW p \in PageStates
    PROVE  LET q == [p EXCEPT !.retry = FALSE]
           IN  /\ q \in PageStates /\ q.retry = FALSE /\ q.conn = p.conn
               /\ q.session = p.session /\ q.gen = p.gen /\ q.last = p.last /\ q.root = p.root
               /\ q.req = p.req /\ q.applied = p.applied /\ q.rows = p.rows /\ q.folded = p.folded
BY DEF PageStates

LEMMA RetryTickConnects ==
    ASSUME UiIInv, RetryTick
    PROVE  /\ UiAt(written, srv, wire, reads', page')
           /\ Reopened(page, page') /\ page'.session = page.session /\ page'.last = page.last /\ page'.rows = page.rows
           /\ reads' = reads \cup {Request(page', "connect")}
<1>1. PICK p : p = [page EXCEPT !.retry = FALSE]
  OBVIOUS
<1>2. page \in PageStates /\ UiAt(written, srv, wire, reads, page) /\ PageAt(written, srv, page) /\ page.req < MaxReads
  BY DEF UiIInv, UiAt, PageAt, RetryTick, MayAsk
<1>3. /\ p \in PageStates
      /\ p.session = page.session /\ p.gen = page.gen /\ p.last = page.last /\ p.root = page.root
      /\ p.req = page.req /\ p.applied = page.applied /\ p.rows = page.rows /\ p.folded = page.folded
  BY <1>1, <1>2, RetryingPage
<1>4. Connects(p, reads)
  BY <1>1 DEF RetryTick
<1>5. /\ p.last <= srv.seq /\ p.root \in {NoStore, p.session} /\ p.folded \subseteq p.rows /\ p.rows \subseteq RowsIn(written, p.session)
  BY <1>2, <1>3 DEF PageAt
<1>6. /\ UiAt(written, srv, wire, reads', page')
      /\ Reopened(p, page') /\ page'.session = p.session /\ page'.last = p.last /\ page'.rows = p.rows
      /\ reads' = reads \cup {Request(page', "connect")}
  BY <1>2, <1>3, <1>4, <1>5, ConnectsKeeps
<1> QED
  BY <1>3, <1>6 DEF Reopened

LEMMA RetryTickKeeps ==
    ASSUME UiIInv, RetryTick
    PROVE  UiIInv'
<1>1. UiAt(written, srv, wire, reads', page') /\ UNCHANGED <<written, bridge, srv, memory, wire>>
  BY RetryTickConnects DEF RetryTick
<1> QED
  BY <1>1 DEF UiIInv

LEMMA SwitchedPage ==
    ASSUME NEW p \in PageStates, NEW s \in Stores
    PROVE  LET q == [p EXCEPT !.session = s, !.last = 0, !.root = NoStore, !.retry = FALSE, !.rows = {}, !.folded = {}]
           IN  /\ q \in PageStates /\ q.session = s /\ q.last = 0 /\ q.root = NoStore /\ q.retry = FALSE
               /\ q.rows = {} /\ q.folded = {}
               /\ q.gen = p.gen /\ q.req = p.req /\ q.applied = p.applied
<1>1. PICK none, zero, nil : none = NoStore /\ zero = 0 /\ nil = {}
  OBVIOUS
<1>2. none \in Roots /\ zero \in Nat /\ nil \subseteq Nat
  BY <1>1 DEF Roots
<1>3. PICK a : a = [p EXCEPT !.session = s]
  OBVIOUS
<1>4. /\ a \in PageStates /\ a.session = s /\ a.gen = p.gen /\ a.req = p.req /\ a.applied = p.applied
  BY <1>3 DEF PageStates
<1>5. PICK b : b = [a EXCEPT !.last = zero]
  OBVIOUS
<1>6. /\ b \in PageStates /\ b.last = zero /\ b.session = a.session /\ b.gen = a.gen /\ b.req = a.req /\ b.applied = a.applied
  BY <1>2, <1>4, <1>5 DEF PageStates
<1>7. PICK c : c = [b EXCEPT !.root = none]
  OBVIOUS
<1>8. /\ c \in PageStates /\ c.root = none /\ c.last = b.last
      /\ c.session = b.session /\ c.gen = b.gen /\ c.req = b.req /\ c.applied = b.applied
  BY <1>2, <1>6, <1>7 DEF PageStates
<1>9. PICK d : d = [c EXCEPT !.retry = FALSE]
  OBVIOUS
<1>10. /\ d \in PageStates /\ d.retry = FALSE /\ d.root = c.root /\ d.last = c.last
       /\ d.session = c.session /\ d.gen = c.gen /\ d.req = c.req /\ d.applied = c.applied
  BY <1>8, <1>9 DEF PageStates
<1>11. PICK e : e = [d EXCEPT !.rows = nil]
  OBVIOUS
<1>12. /\ e \in PageStates /\ e.rows = nil /\ e.retry = d.retry /\ e.root = d.root /\ e.last = d.last
       /\ e.session = d.session /\ e.gen = d.gen /\ e.req = d.req /\ e.applied = d.applied
  BY <1>2, <1>10, <1>11 DEF PageStates
<1>13. PICK f : f = [e EXCEPT !.folded = nil]
  OBVIOUS
<1>14. /\ f \in PageStates /\ f.folded = nil /\ f.rows = e.rows /\ f.retry = e.retry /\ f.root = e.root /\ f.last = e.last
       /\ f.session = e.session /\ f.gen = e.gen /\ f.req = e.req /\ f.applied = e.applied
  BY <1>2, <1>12, <1>13 DEF PageStates
<1>15. PICK q : q = [p EXCEPT !.session = s, !.last = 0, !.root = NoStore, !.retry = FALSE, !.rows = {}, !.folded = {}]
  OBVIOUS
<1>16. q = f
  BY <1>15, <1>1, <1>3, <1>5, <1>7, <1>9, <1>11, <1>13
<1> QED
  BY <1>1, <1>4, <1>6, <1>8, <1>10, <1>12, <1>14, <1>15, <1>16

LEMMA SwitchConnects ==
    ASSUME UiIInv, NEW s \in Stores, Switch(s)
    PROVE  /\ UiAt(written, srv, wire, reads', page')
           /\ Reopened(page, page') /\ page'.session = s /\ page'.last = 0
<1>1. PICK p : p = [page EXCEPT !.session = s, !.last = 0, !.root = NoStore, !.retry = FALSE, !.rows = {}, !.folded = {}]
  OBVIOUS
<1>2. page \in PageStates /\ UiAt(written, srv, wire, reads, page) /\ page.req < MaxReads /\ srv.seq \in Nat
  BY DEF UiIInv, UiAt, PageAt, Switch, MayAsk, ServerAt, Servers
<1>3. /\ p \in PageStates /\ p.session = s /\ p.last = 0 /\ p.root = NoStore /\ p.rows = {} /\ p.folded = {}
      /\ p.gen = page.gen /\ p.req = page.req /\ p.applied = page.applied
  BY <1>1, <1>2, SwitchedPage
<1>4. Connects(p, reads)
  BY <1>1 DEF Switch
<1>5. p.last <= srv.seq /\ p.root \in {NoStore, p.session} /\ p.folded \subseteq p.rows /\ p.rows \subseteq RowsIn(written, p.session)
  BY <1>2, <1>3
<1>6. UiAt(written, srv, wire, reads', page') /\ Reopened(p, page') /\ page'.session = p.session /\ page'.last = p.last
  BY <1>2, <1>3, <1>4, <1>5, ConnectsKeeps
<1> QED
  BY <1>3, <1>6 DEF Reopened

LEMMA SwitchKeeps ==
    ASSUME UiIInv, NEW s \in Stores, Switch(s)
    PROVE  UiIInv'
<1>1. UiAt(written, srv, wire, reads', page') /\ UNCHANGED <<written, bridge, srv, memory, wire>>
  BY SwitchConnects DEF Switch
<1> QED
  BY <1>1 DEF UiIInv

LEMMA OpenedPage ==
    ASSUME NEW p \in PageStates
    PROVE  LET q == [p EXCEPT !.conn = "push", !.poll = FALSE]
           IN  /\ q \in PageStates /\ q.conn = "push" /\ q.retry = p.retry
               /\ q.session = p.session /\ q.gen = p.gen /\ q.last = p.last /\ q.root = p.root
               /\ q.req = p.req /\ q.applied = p.applied /\ q.rows = p.rows /\ q.folded = p.folded
BY DEF PageStates

LEMMA StreamOpensKeeps ==
    ASSUME UiIInv, StreamOpens
    PROVE  UiIInv'
<1>1. /\ page \in PageStates /\ PageAt(written, srv, page) /\ UiAt(written, srv, wire, reads, page)
      /\ UNCHANGED <<written, bridge, srv, memory, wire, reads>>
  BY DEF UiIInv, UiAt, PageAt, StreamOpens
<1>2. /\ page' \in PageStates /\ page'.conn = "push" /\ page'.retry = page.retry
      /\ page'.session = page.session /\ page'.gen = page.gen /\ page'.last = page.last /\ page'.root = page.root
      /\ page'.req = page.req /\ page'.applied = page.applied /\ page'.rows = page.rows /\ page'.folded = page.folded
  BY <1>1, OpenedPage DEF StreamOpens
<1>3. PageAt(written, srv, page')
  BY <1>1, <1>2 DEF PageAt
<1>4. PageStep(page, page') /\ reads \subseteq reads
  BY <1>1, <1>2 DEF PageStep, PageStates
<1>5. UiAt(written, srv, wire, reads, page')
  BY <1>1, <1>3, <1>4, PageMoves
<1> QED
  BY <1>1, <1>5 DEF UiIInv

LEMMA StreamBreaksFails ==
    ASSUME UiIInv, StreamBreaks
    PROVE  /\ UiAt(written, srv', wire', reads', page') /\ FailedFrom([page EXCEPT !.conn = "down"], page')
           /\ srv'.seq = srv.seq /\ srv'.streams = {t \in srv.streams : t.gen # page.gen}
           /\ reads \subseteq reads'
<1>1. PICK open : open = {t \in srv.streams : t.gen # page.gen}
  OBVIOUS
<1>2. UiAt(written, srv, wire, reads, page) /\ srv \in Servers /\ page.req < MaxReads /\ open \subseteq srv.streams
  BY <1>1 DEF UiIInv, UiAt, ServerAt, StreamBreaks, MayAsk
<1>3. srv' = [srv EXCEPT !.streams = open] /\ wire' \subseteq wire /\ Fails([page EXCEPT !.conn = "down"], FALSE, reads)
  BY <1>1, <1>2 DEF StreamBreaks
<1>4. UiAt(written, srv', wire', reads, page) /\ srv'.seq = srv.seq /\ srv'.streams = open
  BY <1>2, <1>3, ClosingKeeps
<1>5. UiAt(written, srv', wire', reads', page') /\ FailedFrom([page EXCEPT !.conn = "down"], page') /\ reads \subseteq reads'
  BY <1>2, <1>3, <1>4, FailsKeeps
<1> QED
  BY <1>1, <1>4, <1>5

LEMMA StreamBreaksKeeps ==
    ASSUME UiIInv, StreamBreaks
    PROVE  UiIInv'
<1>1. UiAt(written, srv', wire', reads', page') /\ UNCHANGED <<written, bridge, memory>>
  BY StreamBreaksFails DEF StreamBreaks
<1> QED
  BY <1>1 DEF UiIInv

LEMMA FoldedPage ==
    ASSUME NEW p \in PageStates, NEW f \in Frames
    PROVE  LET q == [p EXCEPT !.last = f.seq, !.rows = @ \cup f.rows, !.folded = @ \cup f.rows]
           IN  /\ q \in PageStates /\ q.last = f.seq /\ q.rows = p.rows \cup f.rows /\ q.folded = p.folded \cup f.rows
               /\ q.session = p.session /\ q.gen = p.gen /\ q.req = p.req /\ q.root = p.root /\ q.applied = p.applied
               /\ q.conn = p.conn /\ q.retry = p.retry
<1>1. PICK n, rows : n = f.seq /\ rows = f.rows
  OBVIOUS
<1>2. n \in Nat /\ rows \subseteq Nat
  BY <1>1 DEF Frames
<1>3. PICK a : a = [p EXCEPT !.last = n]
  OBVIOUS
<1>4. /\ a \in PageStates /\ a.last = n /\ a.rows = p.rows /\ a.folded = p.folded
      /\ a.session = p.session /\ a.gen = p.gen /\ a.req = p.req /\ a.root = p.root /\ a.applied = p.applied
      /\ a.conn = p.conn /\ a.retry = p.retry
  BY <1>2, <1>3 DEF PageStates
<1>5. PICK b : b = [a EXCEPT !.rows = @ \cup rows]
  OBVIOUS
<1>6. /\ b \in PageStates /\ b.last = a.last /\ b.rows = a.rows \cup rows /\ b.folded = a.folded
      /\ b.session = a.session /\ b.gen = a.gen /\ b.req = a.req /\ b.root = a.root /\ b.applied = a.applied
      /\ b.conn = a.conn /\ b.retry = a.retry
  BY <1>2, <1>4, <1>5 DEF PageStates
<1>7. PICK c : c = [b EXCEPT !.folded = @ \cup rows]
  OBVIOUS
<1>8. /\ c \in PageStates /\ c.last = b.last /\ c.rows = b.rows /\ c.folded = b.folded \cup rows
      /\ c.session = b.session /\ c.gen = b.gen /\ c.req = b.req /\ c.root = b.root /\ c.applied = b.applied
      /\ c.conn = b.conn /\ c.retry = b.retry
  BY <1>2, <1>6, <1>7 DEF PageStates
<1>9. PICK q : q = [p EXCEPT !.last = f.seq, !.rows = @ \cup f.rows, !.folded = @ \cup f.rows]
  OBVIOUS
<1>10. q = c
  BY <1>1, <1>3, <1>5, <1>7, <1>9
<1> QED
  BY <1>1, <1>4, <1>6, <1>8, <1>9, <1>10

\* What a frame of its stream makes of the page.
Folded(p, f, q) ==
    /\ q \in PageStates /\ q.last = f.seq /\ q.rows = p.rows \cup f.rows /\ q.folded = p.folded \cup f.rows
    /\ q.session = p.session /\ q.gen = p.gen /\ q.root = p.root /\ q.applied = p.applied
    /\ q.conn = p.conn /\ q.retry = p.retry

\* Two messages of other streams, a frame that is not news, and one that is.
LEMMA ReceivedIs ==
    ASSUME UiIInv, NEW m \in wire, Receive(m)
    PROVE  /\ UNCHANGED <<written, bridge, srv, memory>> /\ wire' = wire \ {m}
           /\ UiAt(written, srv, wire, reads', page')
           /\ \/ /\ UNCHANGED <<page, reads>>
                 /\ m.gen = page.gen => page.conn = "push" /\ ~(m.frame.seq > page.last)
              \/ /\ m.gen = page.gen /\ m.frame.seq > page.last /\ Folded(page, m.frame, page')
                 /\ \/ ~m.frame.ready /\ reads' = reads
                    \/ m.frame.ready /\ page'.req = page.req + 1 /\ reads' = reads \cup {Request(page', "refresh")}
<1>1. /\ UNCHANGED <<written, bridge, srv, memory>> /\ wire' = wire \ {m}
      /\ UiAt(written, srv, wire, reads, page) /\ PageAt(written, srv, page) /\ page \in PageStates
      /\ FramesAt(written, srv, wire) /\ StreamsAt(srv, wire, page) /\ ServerAt(srv) /\ written \in Seq(Stores)
  BY DEF Receive, UiIInv, UiAt, PageAt
<1>2. m.frame \in FramesIn(srv, wire) /\ m.frame \in Frames
  BY <1>1 DEF FramesIn, FramesAt, OnWire
<1>3. CASE m.gen # page.gen
  <2>1. UNCHANGED <<page, reads>>
    BY <1>3 DEF Receive
  <2>2. UiAt(written, srv, wire, reads', page')
    BY <1>1, <2>1
  <2> QED
    BY <1>1, <1>3, <2>1, <2>2
<1>4. CASE m.gen = page.gen
  <2>1. m.frame.root \in {NoStore, page.session} /\ page.root \in {NoStore, page.session} /\ page.conn = "push"
    BY <1>1, <1>4 DEF StreamsAt, PageAt, Receive
  <2>2. ~Foreign(m.frame)
    BY <2>1 DEF Foreign
  <2>3. CASE ~MayFold(m.frame)
    <3>1. UNCHANGED <<page, reads>> /\ ~(m.frame.seq > page.last)
      BY <1>4, <2>2, <2>3 DEF Receive, MayFold
    <3>2. UiAt(written, srv, wire, reads', page')
      BY <1>1, <3>1
    <3> QED
      BY <1>1, <1>4, <2>1, <3>1, <3>2
  <2>4. CASE MayFold(m.frame)
    <3>1. m.frame.seq > page.last
      BY <2>4 DEF MayFold
    <3>2. PICK q : q = Folds(m.frame)
      OBVIOUS
    <3>3. Folded(page, m.frame, q) /\ q.req = page.req
      BY <1>1, <1>2, <3>2, FoldedPage DEF Folds, Folded
    <3>4. m.frame.rows \subseteq RowsIn(written, page.session)
      <4>1. m.frame.rows \subseteq RowsIn(written, m.frame.root)
        BY <1>1, <1>2 DEF FramesAt
      <4>2. RowsIn(written, NoStore) = {}
        BY <1>1, NoRowsOfNoStore
      <4> QED
        BY <2>1, <4>1, <4>2
    <3>5. PageAt(written, srv, q)
      <4>1. m.frame.seq <= srv.seq
        BY <1>1, <1>2 DEF FramesAt
      <4> QED
        BY <1>1, <3>3, <3>4, <4>1 DEF PageAt, Folded
    <3>6. ASSUME NEW r \in reads PROVE ReadAt(written, srv, wire, q, r)
      <4>1. ReadAt(written, srv, wire, page, r) /\ r.at \in Nat /\ m.frame.seq \in Nat /\ page.last \in Nat
        BY <1>1, <1>2 DEF UiAt, ReadAt, Snapshots, Frames, PageStates
      <4>2. ASSUME r.stage = "built", r.session = q.session, q.last <= r.at
            PROVE  q.folded \subseteq r.rows
        <5>1. page.last <= r.at /\ m.frame.seq <= r.at
          BY <3>1, <3>3, <4>1, <4>2 DEF Folded
        <5>2. page.folded \subseteq r.rows
          BY <3>3, <4>1, <4>2, <5>1 DEF ReadAt, Folded
        <5>3. m.frame.rows \subseteq r.rows
          <6>1. CASE m.frame.root = NoStore
            BY <1>1, <1>2, <6>1, NoRowsOfNoStore DEF FramesAt
          <6>2. CASE m.frame.root = page.session
            BY <1>2, <3>3, <4>1, <4>2, <5>1, <6>2 DEF ReadAt, Folded
          <6> QED
            BY <2>1, <6>1, <6>2
        <5> QED
          BY <3>3, <5>2, <5>3 DEF Folded
      <4> QED
        BY <3>3, <4>1, <4>2 DEF ReadAt, Folded
    <3>7. StreamsAt(srv, wire, q)
      BY <1>1, <3>3 DEF StreamsAt, Folded
    <3>8. UiAt(written, srv, wire, reads, q)
      BY <1>1, <3>5, <3>6, <3>7 DEF UiAt
    <3>9. CASE ~m.frame.ready
      <4>1. page' = q /\ reads' = reads
        BY <1>4, <2>4, <3>2, <3>9 DEF Receive
      <4> QED
        BY <1>1, <1>4, <3>1, <3>3, <3>8, <3>9, <4>1
    <3>10. CASE m.frame.ready
      <4>1. page' = [q EXCEPT !.req = @ + 1] /\ reads' = reads \cup {Request(page', "refresh")} /\ q.req < MaxReads
        BY <1>4, <2>4, <3>2, <3>3, <3>10 DEF Receive, Asks, MayAsk
      <4>2. UiAt(written, srv, wire, reads', page')
        BY <3>8, <4>1, AskingKeeps DEF Askers
      <4>3. /\ page' \in PageStates /\ page'.req = q.req + 1
            /\ page'.session = q.session /\ page'.gen = q.gen /\ page'.last = q.last /\ page'.root = q.root /\ page'.applied = q.applied
            /\ page'.conn = q.conn /\ page'.poll = q.poll /\ page'.retry = q.retry /\ page'.rows = q.rows /\ page'.folded = q.folded
        BY <3>3, <4>1, CountedPage DEF Folded
      <4>4. Folded(page, m.frame, page') /\ page'.req = page.req + 1
        BY <3>3, <4>3 DEF Folded
      <4> QED
        BY <1>1, <1>4, <3>1, <3>10, <4>1, <4>2, <4>4
    <3> QED
      BY <3>9, <3>10
  <2> QED
    BY <2>3, <2>4
<1> QED
  BY <1>3, <1>4

LEMMA ReceiveKeeps ==
    ASSUME UiIInv, NEW m \in wire, Receive(m)
    PROVE  UiIInv'
<1>1. /\ UNCHANGED <<written, bridge, srv, memory>> /\ wire' \subseteq wire
      /\ UiAt(written, srv, wire, reads', page')
  BY ReceivedIs
<1>2. FramesIn(srv, wire') \subseteq FramesIn(srv, wire)
  BY <1>1 DEF FramesIn
<1>3. UiAt(written, srv, wire', reads', page')
  BY <1>1, <1>2 DEF UiAt, FramesAt, StreamsAt, ReadAt
<1> QED
  BY <1>1, <1>3 DEF UiIInv

LEMMA UiInitially ==
    ASSUME UiInit
    PROVE  UiIInv
<1>1. PICK s \in Stores : page = NewPage(s)
  BY DEF UiInit
<1>2. /\ written = <<>> /\ memory = Stores /\ wire = {} /\ reads = {Request(page, "connect")}
      /\ srv = [seq |-> 0, history |-> <<>>, streams |-> {}]
  BY DEF UiInit
<1>3. written \in Seq(Stores) /\ <<>> \in Seq(Frames) /\ Len(<<>>) = 0 /\ HistoryLimit \in Nat /\ MaxReads \in Nat \ {0}
  BY <1>2, UiAssumption DEF UiAssumption
<1>4. /\ page \in PageStates /\ page.session = s /\ page.gen = 1 /\ page.last = 0 /\ page.req = 1 /\ page.applied = 0
      /\ page.conn = "snapshot" /\ page.rows = {} /\ page.folded = {} /\ page.root = NoStore
  BY <1>1 DEF NewPage, PageStates, Roots
<1>5. ServerAt(srv) /\ srv.seq = 0 /\ srv.history = <<>> /\ srv.streams = {}
  BY <1>2, <1>3 DEF ServerAt, Servers
<1>6. FramesIn(srv, wire) = {}
  BY <1>2, <1>3, <1>5 DEF FramesIn
<1>7. FramesAt(written, srv, wire) /\ StreamsAt(srv, wire, page)
  BY <1>2, <1>5, <1>6 DEF FramesAt, StreamsAt
<1>8. PageAt(written, srv, page)
  BY <1>3, <1>4, <1>5 DEF PageAt
<1>9. ReadAt(written, srv, wire, page, Request(page, "connect"))
  <2>1. PICK r : r = Request(page, "connect")
    OBVIOUS
  <2>2. r \in Snapshots /\ r.id = 1 /\ r.gen = 1 /\ r.at = 0 /\ r.stage = "sent"
    BY <1>4, <2>1 DEF Request, Snapshots, Askers
  <2> QED
    BY <1>4, <1>5, <2>1, <2>2 DEF ReadAt
<1>10. BridgeAt(written, bridge)
  <2>1. PICK b : b = Unseeded
    OBVIOUS
  <2>2. b \in Feeds /\ b.fresh = {}
    BY <2>1 DEF Unseeded, Feeds
  <2>3. bridge = [t \in Stores |-> b]
    BY <2>1 DEF UiInit
  <2> QED
    BY <2>2, <2>3 DEF BridgeAt
<1> QED
  BY <1>2, <1>3, <1>5, <1>7, <1>8, <1>9, <1>10 DEF UiIInv, UiAt

LEMMA UiStepKeeps ==
    ASSUME UiIInv, [UiNext]_uiVars
    PROVE  UiIInv'
<1>1. CASE \E s \in Stores : Write(s) \/ SwitchMemory(s) \/ Refresh(s) \/ Deliver(s) \/ Switch(s)
  <2>1. PICK s \in Stores : Write(s) \/ SwitchMemory(s) \/ Refresh(s) \/ Deliver(s) \/ Switch(s)
    BY <1>1
  <2>2. CASE SwitchMemory(s)
    BY <2>2 DEF SwitchMemory, UiIInv
  <2> QED
    BY <2>1, <2>2, WriteKeeps, RefreshKeeps, DeliverKeeps, SwitchKeeps
<1>2. CASE \E r \in reads : ServeSnapshot(r) \/ BuildSnapshot(r) \/ LandSnapshot(r) \/ ReadFails(r)
  BY <1>2, ServeSnapshotKeeps, BuildSnapshotKeeps, LandSnapshotKeeps, ReadFailsKeeps
<1>3. CASE \E t \in srv.streams : DropStream(t)
  BY <1>3, DropStreamKeeps
<1>4. CASE \E m \in wire : Receive(m)
  BY <1>4, ReceiveKeeps
<1>5. CASE ServeEvents \/ PollTick \/ RetryTick \/ StreamOpens \/ StreamBreaks
  BY <1>5, ServeEventsKeeps, PollTickKeeps, RetryTickKeeps, StreamOpensKeeps, StreamBreaksKeeps
<1>6. CASE UNCHANGED uiVars
  BY <1>6 DEF uiVars, UiIInv
<1> QED
  BY <1>1, <1>2, <1>3, <1>4, <1>5, <1>6 DEF UiNext

(***************************************************************************)
(* Every frame and every snapshot on its way is of one store, a snapshot   *)
(* has what the frames up to its version brought, and the streams of the   *)
(* page are of its session: an invariant of the bridge, the transport and  *)
(* the page (deliver, handleEvents, handleSnapshot, applySnapshot).        *)
(***************************************************************************)
THEOREM UiInvariant == UiSpec => []UiIInv
<1>1. UiInit => UiIInv
  BY UiInitially
<1>2. UiIInv /\ [UiNext]_uiVars => UiIInv'
  BY UiStepKeeps
<1> QED
  BY <1>1, <1>2, PTL DEF UiSpec

(***************************************************************************)
(* The variables have their types: frames are numbered without a gap, no   *)
(* answer is of a request that was not made or of a later version, and a   *)
(* page without a stream will retry (push, handleSnapshot, handleFailure). *)
(***************************************************************************)
THEOREM UiTypeCorrect == UiSpec => []UiTypeOK
<1>1. ASSUME UiIInv PROVE UiTypeOK
  <2>1. /\ memory \subseteq Stores /\ written \in Seq(Stores) /\ ServerAt(srv) /\ PageAt(written, srv, page)
        /\ page \in PageStates /\ srv.seq \in Nat /\ \A r \in reads : ReadAt(written, srv, wire, page, r)
    BY <1>1 DEF UiIInv, UiAt, ServerAt, Servers, PageAt
  <2>2. DOMAIN srv.history = 1..Len(srv.history)
    BY <2>1, LenProperties DEF ServerAt, Servers
  <2>3. page.session \in Stores /\ page.root \in Stores \cup {NoStore} /\ page.conn \in {"snapshot", "opening", "push", "down"}
    BY <2>1 DEF PageStates, Roots
  <2>4. page.last \in 0..srv.seq /\ page.applied \in 0..page.req /\ page.req \in 1..MaxReads
    BY <2>1 DEF PageStates, PageAt
  <2>5. \A r \in reads : r.id \in 1..page.req /\ r.at \in 0..srv.seq /\ r.gen \in 1..page.gen
    BY <2>1 DEF ReadAt, Snapshots
  <2> QED
    BY <2>1, <2>2, <2>3, <2>4, <2>5 DEF UiTypeOK, ServerAt, PageAt
<1> QED
  BY <1>1, UiInvariant, PTL

(***************************************************************************)
(* A page shows the rows of its session's store and no other's, and keeps  *)
(* what frames brought while slow snapshots arrive (readSnapshot, rebind,  *)
(* handleFrame).                                                           *)
(***************************************************************************)
THEOREM PageIsTrueHolds == UiSpec => []PageIsTrue
<1>1. UiIInv => PageIsTrue
  <2>1. ASSUME UiIInv PROVE PageIsTrue
    <3>1. PageAt(written, srv, page) /\ RowsOf(page.session) = RowsIn(written, page.session)
      BY <2>1 DEF UiIInv, UiAt, RowsOf, RowsIn
    <3> QED
      BY <3>1 DEF PageAt, PageIsTrue, OneStoreShown, FoldedStays
  <2> QED
    BY <2>1
<1> QED
  BY <1>1, UiInvariant, PTL

-----------------------------------------------------------------------------
(***************************************************************************)
(* Every row that a frame carried has the number of its frame, N[x].  What *)
(* counts above the last number of the page is on the way on its stream;   *)
(* what counts below it is shown, or a snapshot that brings it is under    *)
(* way.  Neither is claimed while the page waits for a retry.              *)
(***************************************************************************)
Carried == [sent : SUBSET Nat, withheld : SUBSET Nat, late : SUBSET Nat]
HasStream(sv, p) == \E t \in sv.streams : t.gen = p.gen
Owed(w, p, c) == (c.sent \ (c.withheld \cup c.late)) \cap RowsIn(w, p.session)

Sequenced(N, w, sv, wr, c) ==
    /\ c \in Carried /\ c.sent \subseteq DOMAIN w
    /\ \A x \in c.sent : N[x] \in 1..sv.seq
    /\ \A f \in FramesIn(sv, wr), x \in c.sent : N[x] = f.seq /\ ~f.ready => x \in f.rows
    /\ \A i \in 1..Len(sv.history) : ~sv.history[i].ready
ShotHas(N, w, r, c) ==
    r.stage = "built" => \A x \in c.sent \cap RowsIn(w, r.session) : N[x] <= r.at => x \in r.rows
\* A marker is the first on its stream.
WireAt(sv, wr, p) ==
    /\ p.conn = "push" => HasStream(sv, p)
    /\ \A m \in wr : m.gen = p.gen =>
          /\ HasStream(sv, p)
          /\ m.frame.ready => \A n \in wr : n.gen = p.gen => n = m \/ n.frame.seq > m.frame.seq
Carries(m, p, n) ==
    m.gen = p.gen /\ ((m.frame.seq = n /\ ~m.frame.ready) \/ (m.frame.seq >= n /\ m.frame.ready))
Coming(N, w, sv, wr, p, c) ==
    HasStream(sv, p) /\ ~p.retry =>
        \A x \in Owed(w, p, c) : N[x] > p.last => \E m \in wr : Carries(m, p, N[x])
Brings(r, p, n) ==
    /\ r.session = p.session /\ r.id > p.applied /\ (r.by = "refresh" \/ (r.by = "connect" /\ r.gen = p.gen))
    /\ r.stage \in {"sent", "refused"} \/ r.at >= n
Kept(N, w, rs, p, c) ==
    ~p.retry => \A x \in Owed(w, p, c) : N[x] <= p.last => x \in p.rows \/ \E r \in rs : Brings(r, p, N[x])
ArrAt(N, w, sv, wr, rs, p, c) ==
    /\ Sequenced(N, w, sv, wr, c) /\ (\A r \in rs : ShotHas(N, w, r, c)) /\ WireAt(sv, wr, p)
    /\ Coming(N, w, sv, wr, p, c) /\ Kept(N, w, rs, p, c)
ArrIInv == UiIInv /\ \E N : ArrAt(N, written, srv, wire, reads, page, carried)

\* A page that fails.
LEMMA FailingArrives ==
    ASSUME NEW N, NEW w, NEW sv, NEW wr, NEW rs, NEW p, NEW c, NEW q, NEW qs, ArrAt(N, w, sv, wr, rs, p, c),
           \A r \in qs : r \in rs \/ r.stage # "built",
           q.retry, q.gen = p.gen, q.conn = "push" => p.conn = "push"
    PROVE  ArrAt(N, w, sv, wr, qs, q, c)
<1>1. WireAt(sv, wr, q)
  BY DEF ArrAt, WireAt, HasStream
<1>2. Coming(N, w, sv, wr, q, c) /\ Kept(N, w, qs, q, c)
  BY DEF Coming, Kept
<1>3. \A r \in qs : ShotHas(N, w, r, c)
  BY DEF ArrAt, ShotHas
<1> QED
  BY <1>1, <1>2, <1>3 DEF ArrAt

\* A page that begins a stream, and keeps what it has or has nothing.
LEMMA ReopeningArrives ==
    ASSUME NEW N, NEW w, NEW sv, NEW wr, NEW rs, NEW p, NEW c, NEW q, NEW r,
           ArrAt(N, w, sv, wr, rs, p, c), StreamsAt(sv, wr, p), PageAt(w, sv, p), Reopened(p, q),
           r = Request(q, "connect"), (q.session = p.session /\ q.last = p.last) \/ q.last = 0
    PROVE  ArrAt(N, w, sv, wr, rs \cup {r}, q, c)
<1>1. r.id = q.req /\ r.session = q.session /\ r.by = "connect" /\ r.gen = q.gen /\ r.stage = "sent"
  BY DEF Request
<1>2. p.gen \in Nat /\ q.gen = p.gen + 1 /\ q.conn = "snapshot" /\ p.req \in Nat /\ p.applied \in Nat /\ p.applied <= p.req
      /\ q.req = p.req + 1 /\ q.applied = p.applied
  BY DEF PageAt, PageStates, Reopened
<1>3. ~HasStream(sv, q) /\ \A m \in wr : m.gen # q.gen
  BY <1>2 DEF StreamsAt, HasStream
<1>4. WireAt(sv, wr, q) /\ Coming(N, w, sv, wr, q, c)
  BY <1>2, <1>3 DEF WireAt, Coming
<1>5. r.id > q.applied
  BY <1>1, <1>2
<1>6. \A n : Brings(r, q, n)
  BY <1>1, <1>5 DEF Brings
<1>7. Kept(N, w, rs \cup {r}, q, c)
  BY <1>6 DEF Kept
<1>8. \A x \in rs \cup {r} : ShotHas(N, w, x, c)
  BY <1>1 DEF ArrAt, ShotHas
<1> QED
  BY <1>4, <1>7, <1>8 DEF ArrAt

LEMMA ArrivesInitially ==
    ASSUME UiInit
    PROVE  ArrIInv
<1>1. UiIInv
  BY UiInitially
<1>2. /\ wire = {} /\ reads = {Request(page, "connect")} /\ srv.history = <<>> /\ Len(<<>>) = 0 /\ page.conn = "snapshot"
  BY DEF UiInit, NewPage
<1>3. carried \in Carried /\ carried.sent = {}
  BY DEF UiInit, Carried
<1>4. PICK N : N = [x \in {} |-> 0]
  OBVIOUS
<1>5. Sequenced(N, written, srv, wire, carried)
  BY <1>2, <1>3 DEF Sequenced
<1>6. \A r \in reads : ShotHas(N, written, r, carried)
  BY <1>3 DEF ShotHas
<1>7. WireAt(srv, wire, page) /\ Coming(N, written, srv, wire, page, carried) /\ Kept(N, written, reads, page, carried)
  BY <1>2, <1>3 DEF WireAt, Coming, Kept, Owed
<1> QED
  BY <1>1, <1>5, <1>6, <1>7 DEF ArrIInv, ArrAt

(***************************************************************************)
(* The host.                                                               *)
(***************************************************************************)
LEMMA WriteArrives ==
    ASSUME ArrIInv, NEW s \in Stores, Write(s)
    PROVE  ArrIInv'
<1>1. PICK N : ArrAt(N, written, srv, wire, reads, page, carried)
  BY DEF ArrIInv
<1>2. UiIInv' /\ written \in Seq(Stores) /\ UNCHANGED <<srv, wire, reads, page, carried>> /\ written' = Append(written, s)
  BY WriteKeeps DEF ArrIInv, UiIInv, UiAt, Write
<1>3. /\ Len(written) \in Nat /\ DOMAIN written = 1..Len(written) /\ DOMAIN written' = 1..Len(written) + 1
      /\ \A i \in 1..Len(written) : written'[i] = written[i]
  <2>1. /\ written' \in Seq(Stores) /\ Len(written') = Len(written) + 1 /\ Len(written) \in Nat
        /\ \A i \in 1..Len(written) : written'[i] = written[i]
    BY <1>2, AppendProperties
  <2> QED
    BY <1>2, <2>1, LenProperties
<1>4. \A t : carried.sent \cap RowsIn(written', t) = carried.sent \cap RowsIn(written, t)
  <2>1. carried.sent \subseteq DOMAIN written /\ DOMAIN written \subseteq DOMAIN written'
    BY <1>1, <1>3 DEF ArrAt, Sequenced
  <2> QED
    BY <1>3, <2>1 DEF RowsIn
<1>5. Sequenced(N, written', srv, wire, carried)
  <2>1. DOMAIN written \subseteq DOMAIN written'
    BY <1>3
  <2> QED
    BY <1>1, <2>1 DEF ArrAt, Sequenced
<1>6. \A r \in reads : ShotHas(N, written', r, carried)
  BY <1>1, <1>4 DEF ArrAt, ShotHas
<1>7. Owed(written', page, carried) = Owed(written, page, carried)
  BY <1>4 DEF Owed
<1>8. Coming(N, written', srv, wire, page, carried) /\ Kept(N, written', reads, page, carried)
  BY <1>1, <1>7 DEF ArrAt, Coming, Kept
<1>9. ArrAt(N, written', srv, wire, reads, page, carried)
  BY <1>1, <1>5, <1>6, <1>8 DEF ArrAt
<1> QED
  BY <1>2, <1>9 DEF ArrIInv

LEMMA StillArrives ==
    ASSUME ArrIInv, UiIInv', UNCHANGED <<written, srv, wire, reads, page, carried>>
    PROVE  ArrIInv'
BY DEF ArrIInv

LEMMA DeliverArrives ==
    ASSUME ArrIInv, NEW s \in Stores, Deliver(s)
    PROVE  ArrIInv'
<1>1. /\ UiIInv' /\ UNCHANGED <<written, reads, page>> /\ UiAt(written, srv, wire, reads, page)
      /\ ServerAt(srv) /\ srv \in Servers /\ srv.seq \in Nat /\ StreamsAt(srv, wire, page) /\ FramesAt(written, srv, wire)
      /\ PageAt(written, srv, page) /\ page \in PageStates /\ page.last \in Nat /\ page.last <= srv.seq
  BY DeliverKeeps DEF Deliver, ArrIInv, UiIInv, UiAt, ServerAt, Servers, PageAt, PageStates
<1>2. PICK N : ArrAt(N, written, srv, wire, reads, page, carried)
  BY DEF ArrIInv
<1>3. PICK f : f = Frame(srv.seq + 1, s, bridge[s].fresh)
  OBVIOUS
<1>4. CASE f.rows = {}
  <2>1. UNCHANGED <<srv, wire, carried>>
    BY <1>3, <1>4 DEF Deliver
  <2> QED
    BY <1>1, <2>1, StillArrives
<1>5. CASE f.rows # {}
  <2>1. bridge[s] \in Feeds /\ bridge[s].fresh \subseteq RowsIn(written, s)
    BY DEF ArrIInv, UiIInv, BridgeAt
  <2>2. /\ f \in Frames /\ f.seq = srv.seq + 1 /\ f.root = s /\ f.rows = bridge[s].fresh /\ ~f.ready
        /\ f.rows \subseteq Nat
    BY <1>1, <1>3, <2>1 DEF Frame, Frames, Feeds, Roots
  <2>3. PICK h, to : h = Trimmed(Append(srv.history, f)) /\ to = {t \in srv.streams : Resolves(t.session, s)}
    OBVIOUS
  <2>4. PICK more : more = IF \E t \in srv.streams \ to : t.session = s THEN carried.withheld \cup f.rows ELSE carried.withheld
    OBVIOUS
  <2>5. /\ srv' = [srv EXCEPT !.seq = f.seq, !.history = h] /\ wire' = wire \cup {On(t, f) : t \in to}
        /\ carried' = [carried EXCEPT !.sent = @ \cup f.rows, !.withheld = more]
    BY <1>3, <1>5, <2>3, <2>4 DEF Deliver
  <2>6. /\ \A i \in 1..Len(h) : h[i] = f \/ \E k \in 1..Len(srv.history) : h[i] = srv.history[k]
        /\ h \in Seq(Frames)
    <3>1. h = Trimmed(Append(srv.history, f))
      BY <2>3
    <3>2. ServerAt(srv)
      BY <1>1
    <3>3. Moved(srv, f, Trimmed(Append(srv.history, f)))
      BY <2>2, <3>2, HistoryMoves
    <3> QED
      BY <3>1, <3>3 DEF Moved
  <2>7. srv'.seq = srv.seq + 1 /\ srv'.history = h /\ srv'.streams = srv.streams
    <3>1. PICK v, n : n = f.seq /\ v = [srv EXCEPT !.seq = n, !.history = h]
      OBVIOUS
    <3>2. v.seq = n /\ v.history = h /\ v.streams = srv.streams
      BY <1>1, <3>1 DEF Servers
    <3> QED
      BY <2>2, <2>5, <3>1, <3>2
  <2>8. carried \in Carried /\ more \in SUBSET Nat /\ carried.withheld \subseteq more
    BY <1>2, <2>2, <2>4 DEF ArrAt, Sequenced, Carried
  <2>9. carried' \in Carried /\ carried'.sent = carried.sent \cup f.rows /\ carried'.withheld = more /\ carried'.late = carried.late
    <3>1. PICK d, rows : rows = f.rows /\ d = [carried EXCEPT !.sent = @ \cup rows, !.withheld = more]
      OBVIOUS
    <3>2. PICK a : a = [carried EXCEPT !.sent = @ \cup rows]
      OBVIOUS
    <3>3. rows \subseteq Nat
      BY <2>2, <3>1
    <3>4. a \in Carried /\ a.sent = carried.sent \cup rows /\ a.withheld = carried.withheld /\ a.late = carried.late
      BY <2>8, <3>2, <3>3 DEF Carried
    <3>5. PICK b : b = [a EXCEPT !.withheld = more]
      OBVIOUS
    <3>6. b \in Carried /\ b.sent = a.sent /\ b.withheld = more /\ b.late = a.late
      BY <2>8, <3>4, <3>5 DEF Carried
    <3>7. d = b
      BY <3>1, <3>2, <3>5
    <3> QED
      BY <2>5, <3>1, <3>4, <3>6, <3>7
  <2>10. PICK M : M = [x \in carried.sent \cup f.rows |-> IF x \in f.rows THEN srv.seq + 1 ELSE N[x]]
    OBVIOUS
  <2>11. /\ \A x \in f.rows : M[x] = srv.seq + 1
         /\ \A x \in carried.sent \ f.rows : M[x] = N[x] /\ N[x] \in 1..srv.seq
    <3>1. \A x \in carried.sent : N[x] \in 1..srv.seq
      BY <1>2 DEF ArrAt, Sequenced
    <3>2. ASSUME NEW x \in f.rows PROVE M[x] = srv.seq + 1
      BY <2>10
    <3>3. ASSUME NEW x \in carried.sent \ f.rows PROVE M[x] = N[x]
      BY <2>10
    <3> QED
      BY <3>1, <3>2, <3>3
  <2>12. FramesIn(srv', wire') \subseteq FramesIn(srv, wire) \cup {f}
    BY <2>5, <2>6, <2>7 DEF FramesIn, On
  <2>13. \A g \in FramesIn(srv, wire) : g.seq \in Nat /\ g.seq <= srv.seq
    <3>1. FramesIn(srv, wire) \subseteq Frames
      BY <1>1, FramesAreFrames
    <3> QED
      BY <1>1, <3>1 DEF FramesAt, Frames
  <2>14. Sequenced(M, written, srv', wire', carried')
    <3>1. carried'.sent \subseteq DOMAIN written
      BY <1>2, <2>1, <2>2, <2>9 DEF ArrAt, Sequenced, RowsIn
    <3>2. \A x \in carried'.sent : M[x] \in 1..srv'.seq
      BY <1>1, <2>7, <2>9, <2>11
    <3>3. ASSUME NEW g \in FramesIn(srv', wire'), NEW x \in carried'.sent, M[x] = g.seq, ~g.ready PROVE x \in g.rows
      <4>1. CASE g = f
        BY <1>1, <2>2, <2>9, <2>11, <3>3, <4>1
      <4>2. CASE g \in FramesIn(srv, wire)
        <5>1. x \notin f.rows
          BY <1>1, <2>11, <2>13, <3>3, <4>2
        <5> QED
          BY <1>2, <2>9, <2>11, <3>3, <4>2, <5>1 DEF ArrAt, Sequenced
      <4> QED
        BY <2>12, <4>1, <4>2
    <3>4. \A i \in 1..Len(srv'.history) : ~srv'.history[i].ready
      BY <1>2, <2>2, <2>6, <2>7 DEF ArrAt, Sequenced
    <3> QED
      BY <2>9, <3>1, <3>2, <3>3, <3>4 DEF Sequenced
  <2>15. ASSUME NEW r \in reads PROVE ShotHas(M, written, r, carried')
    <3>1. ReadAt(written, srv, wire, page, r) /\ r.at \in Nat /\ r.at <= srv.seq
      BY <1>1 DEF UiAt, ReadAt, Snapshots
    <3> QED
      BY <1>1, <1>2, <2>9, <2>11, <3>1 DEF ArrAt, ShotHas
  <2>16. WireAt(srv', wire', page)
    <3>1. HasStream(srv, page) <=> HasStream(srv', page)
      BY <2>7 DEF HasStream
    <3>2. ASSUME NEW t \in to, t.gen = page.gen PROVE HasStream(srv', page)
      BY <2>3, <2>7, <3>2 DEF HasStream
    <3>3. ASSUME NEW m \in wire', m.gen = page.gen
          PROVE  /\ HasStream(srv', page)
                 /\ m.frame.ready => \A n \in wire' : n.gen = page.gen => n = m \/ n.frame.seq > m.frame.seq
      <4>1. CASE m \in wire
        <5>1. m.frame \in FramesIn(srv, wire)
          BY <4>1 DEF FramesIn
        <5>2. \A t \in to : On(t, f).frame.seq > m.frame.seq
          BY <1>1, <2>2, <2>13, <5>1 DEF On
        <5> QED
          BY <1>2, <2>5, <3>1, <3>3, <4>1, <5>2 DEF ArrAt, WireAt
      <4>2. CASE m \in {On(t, f) : t \in to}
        BY <2>2, <3>2, <3>3, <4>2 DEF On
      <4> QED
        BY <2>5, <4>1, <4>2
    <3> QED
      BY <1>2, <3>1, <3>3 DEF ArrAt, WireAt
  <2>17. ASSUME NEW x \in Owed(written, page, carried')
         PROVE  x \in f.rows \/ (x \in Owed(written, page, carried) /\ x \notin f.rows /\ M[x] = N[x])
    BY <2>8, <2>9, <2>11, <2>17 DEF Owed
  <2>18. Coming(M, written, srv', wire', page, carried')
    <3>1. ASSUME NEW x \in Owed(written, page, carried'), HasStream(srv', page), ~page.retry, M[x] > page.last
          PROVE  \E m \in wire' : Carries(m, page, M[x])
      <4>1. CASE x \in f.rows
        <5>1. s = page.session
          BY <2>1, <2>2, <4>1, <3>1 DEF Owed, RowsIn
        <5>2. PICK t \in srv.streams : t.gen = page.gen /\ t.session = s
          BY <1>1, <2>7, <3>1, <5>1 DEF HasStream, StreamsAt
        <5>3. t \in to
          BY <2>4, <2>9, <3>1, <4>1, <5>2 DEF Owed
        <5>4. On(t, f) \in wire' /\ Carries(On(t, f), page, M[x])
          BY <2>2, <2>5, <2>11, <4>1, <5>2, <5>3 DEF On, Carries
        <5> QED
          BY <5>4
      <4>2. CASE x \notin f.rows
        <5>1. x \in Owed(written, page, carried) /\ M[x] = N[x]
          BY <2>17, <4>2
        <5>2. HasStream(srv, page)
          BY <2>7, <3>1 DEF HasStream
        <5> QED
          BY <1>2, <2>5, <3>1, <5>1, <5>2 DEF ArrAt, Coming
      <4> QED
        BY <4>1, <4>2
    <3> QED
      BY <3>1 DEF Coming
  <2>19. Kept(M, written, reads, page, carried')
    <3>1. ASSUME NEW x \in Owed(written, page, carried'), ~page.retry, M[x] <= page.last
          PROVE  x \in page.rows \/ \E r \in reads : Brings(r, page, M[x])
      <4>1. x \notin f.rows
        BY <1>1, <2>11, <3>1
      <4> QED
        BY <1>2, <2>17, <3>1, <4>1 DEF ArrAt, Kept
    <3> QED
      BY <3>1 DEF Kept
  <2>20. ArrAt(M, written, srv', wire', reads, page, carried')
    BY <2>14, <2>15, <2>16, <2>18, <2>19 DEF ArrAt
  <2> QED
    BY <1>1, <2>20 DEF ArrIInv
<1> QED
  BY <1>4, <1>5

LEMMA ServeEventsArrives ==
    ASSUME ArrIInv, ServeEvents
    PROVE  ArrIInv'
<1>1. /\ UiIInv' /\ UNCHANGED <<written, reads, page>> /\ UiAt(written, srv, wire, reads, page)
      /\ ServerAt(srv) /\ srv \in Servers /\ srv.seq \in Nat /\ StreamsAt(srv, wire, page) /\ FramesAt(written, srv, wire)
      /\ PageAt(written, srv, page) /\ page \in PageStates /\ page.last \in Nat /\ page.last <= srv.seq
      /\ page.conn = "opening"
  BY ServeEventsKeeps DEF ServeEvents, ArrIInv, UiIInv, UiAt, ServerAt, Servers, PageAt, PageStates
<1>2. PICK N : ArrAt(N, written, srv, wire, reads, page, carried)
  BY DEF ArrIInv
<1>3. PICK t : t = [gen |-> page.gen, session |-> page.session]
  OBVIOUS
<1>4. PICK fs : fs = Missed(page.session, page.last)
  OBVIOUS
<1>5. t.gen = page.gen /\ t.session = page.session /\ ~HasStream(srv, page)
  BY <1>3 DEF ServeEvents, HasStream
<1>6. srv' = [srv EXCEPT !.streams = @ \cup {t}] /\ wire' = wire \cup {On(t, f) : f \in fs}
  BY <1>3, <1>4, <1>5 DEF ServeEvents
<1>7. srv'.seq = srv.seq /\ srv'.history = srv.history /\ srv'.streams = srv.streams \cup {t}
  BY <1>1, <1>6 DEF Servers
<1>8. HasStream(srv', page)
  BY <1>5, <1>7 DEF HasStream
<1>9. \A m \in wire : m.gen # page.gen
  BY <1>2, <1>5 DEF ArrAt, WireAt
<1>10. srv.history \in Seq(Frames) /\ Len(srv.history) \in Nat /\ DOMAIN srv.history = 1..Len(srv.history)
  BY <1>1, LenProperties DEF Servers
<1>11. PICK marker : marker = [seq |-> srv.seq, root |-> NoStore, rows |-> {}, ready |-> TRUE]
  OBVIOUS
<1>12. Sequenced(N, written, srv, wire, carried) /\ carried \in Carried
  BY <1>2 DEF ArrAt, Sequenced
<1>13. ASSUME NEW f \in fs PROVE f = marker \/ (~f.ready /\ f \in FramesIn(srv, wire))
  <2>1. f = marker \/ f \in ToSet(srv.history)
    BY <1>4, <1>11 DEF Missed
  <2>2. ASSUME f \in ToSet(srv.history) PROVE ~f.ready /\ f \in FramesIn(srv, wire)
    BY <1>10, <1>12, <2>2 DEF ToSet, Sequenced, FramesIn
  <2> QED
    BY <2>1, <2>2
<1>14. marker \in fs => fs = {marker}
  <2>1. \A f \in ToSet(srv.history) : ~f.ready
    BY <1>10, <1>12 DEF ToSet, Sequenced
  <2>2. marker.ready
    BY <1>11
  <2> QED
    BY <1>4, <1>11, <2>1, <2>2 DEF Missed
<1>15. FramesIn(srv', wire') \subseteq FramesIn(srv, wire) \cup fs
  BY <1>6, <1>7 DEF FramesIn, On
<1>16. /\ carried' \in Carried /\ carried'.sent = carried.sent /\ carried.withheld \subseteq carried'.withheld
       /\ carried'.late = carried.late
       /\ Resolves(page.session, page.session) \/ carried.sent \cap RowsIn(written, page.session) \subseteq carried'.withheld
  <2>1. CASE Resolves(page.session, page.session)
    BY <1>5, <1>12, <1>3, <2>1 DEF ServeEvents
  <2>2. CASE ~Resolves(page.session, page.session)
    <3>1. PICK rows : rows = RowsOf(page.session)
      OBVIOUS
    <3>2. rows = RowsIn(written, page.session)
      BY <3>1 DEF RowsOf, RowsIn
    <3>3. carried' = [carried EXCEPT !.withheld = @ \cup (carried.sent \cap rows)]
      BY <1>3, <1>5, <2>2, <3>1 DEF ServeEvents
    <3>4. PICK d : d = [carried EXCEPT !.withheld = @ \cup (carried.sent \cap rows)]
      OBVIOUS
    <3>5. d \in Carried /\ d.sent = carried.sent /\ d.withheld = carried.withheld \cup (carried.sent \cap rows) /\ d.late = carried.late
      BY <1>12, <3>4 DEF Carried
    <3> QED
      BY <3>2, <3>3, <3>4, <3>5
  <2> QED
    BY <2>1, <2>2
<1>17. Sequenced(N, written, srv', wire', carried')
  <2>1. ASSUME NEW f \in FramesIn(srv', wire'), NEW x \in carried'.sent, N[x] = f.seq, ~f.ready PROVE x \in f.rows
    <3>1. marker.ready
      BY <1>11
    <3>2. f \in FramesIn(srv, wire)
      BY <1>13, <1>15, <2>1, <3>1
    <3> QED
      BY <1>12, <1>16, <2>1, <3>2 DEF Sequenced
  <2> QED
    BY <1>7, <1>12, <1>16, <2>1 DEF Sequenced
<1>18. \A r \in reads : ShotHas(N, written, r, carried')
  BY <1>2, <1>16 DEF ArrAt, ShotHas
<1>19. WireAt(srv', wire', page)
  <2>1. ASSUME NEW m \in wire', m.gen = page.gen, m.frame.ready, NEW n \in wire', n.gen = page.gen
        PROVE  n = m
    <3>1. m \in {On(t, f) : f \in fs} /\ n \in {On(t, f) : f \in fs}
      BY <1>6, <1>9, <2>1
    <3>2. PICK f \in fs, g \in fs : m = On(t, f) /\ n = On(t, g)
      BY <3>1
    <3>3. m.frame = f
      BY <3>2 DEF On
    <3>4. f = marker
      BY <1>13, <2>1, <3>3
    <3> QED
      BY <1>14, <3>2, <3>4
  <2> QED
    BY <1>8, <2>1 DEF WireAt
<1>20. Coming(N, written, srv', wire', page, carried')
  <2>1. ASSUME NEW x \in Owed(written, page, carried'), N[x] > page.last
        PROVE  \E m \in wire' : Carries(m, page, N[x])
    <3>1. x \in carried.sent /\ N[x] \in 1..srv.seq /\ x \notin carried'.withheld /\ x \in RowsIn(written, page.session)
      BY <1>12, <1>16, <2>1 DEF Owed, Sequenced
    <3>2. Resolves(page.session, page.session)
      BY <1>16, <3>1
    <3>3. CASE Uncovered(page.last)
      <4>1. marker \in fs
        BY <1>4, <1>11, <3>2, <3>3 DEF Missed
      <4>2. On(t, marker) \in wire'
        BY <1>6, <4>1
      <4>3. Carries(On(t, marker), page, N[x])
        BY <1>1, <1>5, <1>11, <3>1 DEF On, Carries
      <4> QED
        BY <4>2, <4>3
    <3>4. CASE ~Uncovered(page.last)
      <4> DEFINE h == srv.history
      <4>1. fs = {f \in ToSet(h) : f.seq > page.last /\ f.root = page.session}
        BY <1>4, <3>2, <3>4 DEF Missed
      <4>2. h # <<>> /\ \A i \in 1..Len(h) : h[i].seq = srv.seq - Len(h) + i
        BY <1>1, <3>1 DEF ServerAt
      <4>3. Len(h) > 0 /\ Head(h) = h[1]
        BY <1>10, <4>2, EmptySeq
      <4>4. h[1].seq = srv.seq - Len(h) + 1
        BY <1>10, <4>2, <4>3
      <4>5. page.last >= h[1].seq - 1
        BY <1>1, <1>10, <3>4, <4>2, <4>3, <4>4 DEF Uncovered
      <4>6. PICK i \in 1..Len(h) : i = N[x] - srv.seq + Len(h)
        BY <1>1, <1>10, <2>1, <3>1, <4>3, <4>4, <4>5
      <4>7. h[i].seq = N[x]
        BY <1>1, <1>10, <3>1, <4>2, <4>6
      <4>8. ~h[i].ready /\ h[i] \in FramesIn(srv, wire) /\ h[i] \in ToSet(h)
        BY <1>10, <1>12 DEF Sequenced, FramesIn, ToSet
      <4>9. x \in h[i].rows
        BY <1>12, <3>1, <4>7, <4>8 DEF Sequenced
      <4>10. h[i].root = page.session
        BY <1>1, <3>1, <4>8, <4>9 DEF FramesAt, RowsIn
      <4>11. h[i] \in fs
        BY <2>1, <4>1, <4>7, <4>8, <4>10
      <4>12. On(t, h[i]) \in wire' /\ Carries(On(t, h[i]), page, N[x])
        BY <1>5, <1>6, <4>7, <4>8, <4>11 DEF On, Carries
      <4> QED
        BY <4>12
    <3> QED
      BY <3>3, <3>4
  <2> QED
    BY <2>1 DEF Coming
<1>21. Kept(N, written, reads, page, carried')
  <2>1. Owed(written, page, carried') \subseteq Owed(written, page, carried)
    BY <1>16 DEF Owed
  <2> QED
    BY <1>2, <2>1 DEF ArrAt, Kept
<1>22. ArrAt(N, written, srv', wire', reads, page, carried')
  BY <1>17, <1>18, <1>19, <1>20, <1>21 DEF ArrAt
<1> QED
  BY <1>1, <1>22 DEF ArrIInv

LEMMA DropStreamArrives ==
    ASSUME ArrIInv, NEW t \in srv.streams, DropStream(t)
    PROVE  ArrIInv'
<1>1. UiIInv' /\ UNCHANGED <<written, wire, reads, page, carried>> /\ srv \in Servers
  BY DropStreamKeeps DEF ArrIInv, UiIInv, UiAt, ServerAt, DropStream
<1>2. srv' = [srv EXCEPT !.streams = @ \ {t}] /\ t.gen # page.gen
  BY DEF DropStream
<1>3. srv'.seq = srv.seq /\ srv'.history = srv.history /\ srv'.streams = srv.streams \ {t}
  BY <1>1, <1>2 DEF Servers
<1>4. PICK N : ArrAt(N, written, srv, wire, reads, page, carried)
  BY DEF ArrIInv
<1>5. HasStream(srv', page) <=> HasStream(srv, page)
  BY <1>2, <1>3 DEF HasStream
<1>6. FramesIn(srv', wire) = FramesIn(srv, wire)
  BY <1>3 DEF FramesIn
<1>7. Sequenced(N, written, srv', wire, carried)
  BY <1>3, <1>4, <1>6 DEF ArrAt, Sequenced
<1>8. WireAt(srv', wire, page) /\ Coming(N, written, srv', wire, page, carried)
  BY <1>4, <1>5 DEF ArrAt, WireAt, Coming
<1>9. ArrAt(N, written, srv', wire, reads, page, carried)
  BY <1>4, <1>7, <1>8 DEF ArrAt
<1> QED
  BY <1>1, <1>9 DEF ArrIInv

(***************************************************************************)
(* The requests of the page.                                               *)
(***************************************************************************)
\* One that goes on brings what it brought.
LEMMA ReplacedArrives ==
    ASSUME ArrIInv, UiIInv', NEW r, NEW n, Replace(r, n), UNCHANGED <<written, srv, wire, page, carried>>,
           NEW N, ArrAt(N, written, srv, wire, reads, page, carried), ShotHas(N, written, n, carried),
           \A x \in carried.sent : Brings(r, page, N[x]) => Brings(n, page, N[x])
    PROVE  ArrIInv'
<1>1. reads' = (reads \ {r}) \cup {n}
  BY DEF Replace
<1>2. Owed(written, page, carried) \subseteq carried.sent
  BY DEF Owed
<1>3. Kept(N, written, reads', page, carried)
  BY <1>1, <1>2 DEF ArrAt, Kept
<1>4. \A x \in reads' : ShotHas(N, written, x, carried)
  BY <1>1 DEF ArrAt
<1>5. ArrAt(N, written, srv, wire, reads', page, carried)
  BY <1>3, <1>4 DEF ArrAt
<1> QED
  BY <1>5 DEF ArrIInv

LEMMA ServeSnapshotArrives ==
    ASSUME ArrIInv, NEW r \in reads, ServeSnapshot(r)
    PROVE  ArrIInv'
<1>1. ReadAt(written, srv, wire, page, r) /\ r \in Snapshots /\ srv.seq \in Nat /\ UiIInv' /\ r.stage = "sent"
  BY ServeSnapshotKeeps DEF ArrIInv, UiIInv, UiAt, ReadAt, ServerAt, Servers, ServeSnapshot
<1>2. PICK N : ArrAt(N, written, srv, wire, reads, page, carried)
  BY DEF ArrIInv
<1>3. PICK b, u : b = [[r EXCEPT !.stage = "building"] EXCEPT !.at = srv.seq] /\ u = [r EXCEPT !.stage = "refused"]
  OBVIOUS
<1>4. /\ Replace(r, IF Resolves(r.session, r.session) THEN b ELSE u)
      /\ UNCHANGED <<written, bridge, srv, memory, wire, page, carried>>
  BY <1>3 DEF ServeSnapshot
<1>5. /\ b.stage = "building" /\ b.at = srv.seq /\ b.id = r.id /\ b.gen = r.gen /\ b.session = r.session /\ b.by = r.by
      /\ u.stage = "refused" /\ u.id = r.id /\ u.gen = r.gen /\ u.session = r.session /\ u.by = r.by
  BY <1>1, <1>3 DEF Snapshots
<1>6. PICK n : n = IF Resolves(r.session, r.session) THEN b ELSE u
  OBVIOUS
<1>7. ShotHas(N, written, n, carried)
  BY <1>5, <1>6 DEF ShotHas
<1>8. \A x \in carried.sent : N[x] \in Nat /\ N[x] <= srv.seq
  BY <1>1, <1>2 DEF ArrAt, Sequenced
<1>9. \A x \in carried.sent : Brings(r, page, N[x]) => Brings(n, page, N[x])
  BY <1>1, <1>5, <1>6, <1>8 DEF Brings
<1> QED
  BY <1>1, <1>2, <1>4, <1>6, <1>7, <1>9, ReplacedArrives

LEMMA BuildSnapshotArrives ==
    ASSUME ArrIInv, NEW r \in reads, BuildSnapshot(r)
    PROVE  ArrIInv'
<1>1. ReadAt(written, srv, wire, page, r) /\ r \in Snapshots /\ UiIInv' /\ r.stage = "building"
  BY BuildSnapshotKeeps DEF ArrIInv, UiIInv, UiAt, ReadAt, BuildSnapshot
<1>2. PICK N : ArrAt(N, written, srv, wire, reads, page, carried)
  BY DEF ArrIInv
<1>3. PICK b : b = [[r EXCEPT !.stage = "built"] EXCEPT !.rows = RowsOf(r.session)]
  OBVIOUS
<1>4. Replace(r, b) /\ UNCHANGED <<written, bridge, srv, memory, wire, page, carried>>
  BY <1>3 DEF BuildSnapshot
<1>5. /\ b.stage = "built" /\ b.at = r.at /\ b.id = r.id /\ b.gen = r.gen /\ b.session = r.session /\ b.by = r.by
      /\ b.rows = RowsOf(r.session)
  BY <1>1, <1>3 DEF Snapshots
<1>6. ShotHas(N, written, b, carried)
  BY <1>5 DEF ShotHas, RowsOf, RowsIn
<1>7. \A x \in carried.sent : Brings(r, page, N[x]) => Brings(b, page, N[x])
  BY <1>1, <1>5 DEF Brings
<1> QED
  BY <1>1, <1>2, <1>4, <1>6, <1>7, ReplacedArrives

LEMMA LandSnapshotArrives ==
    ASSUME ArrIInv, NEW r \in reads, LandSnapshot(r)
    PROVE  ArrIInv'
<1>1. /\ UiIInv' /\ UNCHANGED <<written, srv, wire>> /\ reads' = reads \ {r} /\ r.stage = "built"
      /\ ReadAt(written, srv, wire, page, r) /\ r \in Snapshots /\ page \in PageStates /\ srv.seq \in Nat
  BY LandSnapshotKeeps DEF LandSnapshot, ArrIInv, UiIInv, UiAt, ReadAt, PageAt, ServerAt, Servers
<1>2. PICK N : ArrAt(N, written, srv, wire, reads, page, carried)
  BY DEF ArrIInv
<1>3. /\ page' \in PageStates
      /\ page'.session = page.session /\ page'.gen = page.gen /\ page'.last = page.last
      /\ page'.retry = page.retry /\ page'.conn \in {page.conn, "opening"}
      /\ MayShow(r) => page'.applied = r.id /\ page'.rows = r.rows
      /\ ~MayShow(r) => page'.applied = page.applied /\ page'.rows = page.rows
  BY LandedPage DEF ArrIInv
<1>4. carried \in Carried /\ \A x \in carried.sent : N[x] \in Nat
  BY <1>1, <1>2 DEF ArrAt, Sequenced
<1>5. /\ carried' \in Carried /\ carried'.sent = carried.sent /\ carried'.withheld = carried.withheld
      /\ carried.late \subseteq carried'.late
      /\ r.at < page.last => r.rows \subseteq carried'.late
  <2>1. CASE r.at < page.last
    <3>1. PICK rows : rows = r.rows
      OBVIOUS
    <3>2. rows \subseteq Nat
      BY <1>1, <3>1 DEF Snapshots
    <3>3. carried' = [carried EXCEPT !.late = @ \cup rows]
      BY <2>1, <3>1 DEF LandSnapshot
    <3>4. PICK d : d = [carried EXCEPT !.late = @ \cup rows]
      OBVIOUS
    <3>5. d \in Carried /\ d.sent = carried.sent /\ d.withheld = carried.withheld /\ d.late = carried.late \cup rows
      BY <1>4, <3>2, <3>4 DEF Carried
    <3> QED
      BY <3>1, <3>3, <3>4, <3>5
  <2>2. CASE ~(r.at < page.last)
    BY <1>4, <2>2 DEF LandSnapshot
  <2> QED
    BY <2>1, <2>2
<1>6. Sequenced(N, written, srv, wire, carried') /\ \A x \in reads' : ShotHas(N, written, x, carried')
  BY <1>1, <1>2, <1>5 DEF ArrAt, Sequenced, ShotHas
<1>7. HasStream(srv, page') <=> HasStream(srv, page)
  BY <1>3 DEF HasStream
<1>8. WireAt(srv, wire, page')
  BY <1>2, <1>3, <1>7 DEF ArrAt, WireAt
<1>9. Owed(written, page', carried') \subseteq Owed(written, page, carried)
  BY <1>3, <1>5 DEF Owed
<1>10. Coming(N, written, srv, wire, page', carried')
  <2>1. \A n : \A m \in wire : Carries(m, page, n) => Carries(m, page', n)
    BY <1>3 DEF Carries
  <2> QED
    BY <1>2, <1>3, <1>7, <1>9, <2>1 DEF ArrAt, Coming
<1>11. Kept(N, written, reads', page', carried')
  <2>1. ASSUME NEW x \in Owed(written, page', carried'), ~page'.retry, N[x] <= page'.last
        PROVE  x \in page'.rows \/ \E k \in reads' : Brings(k, page', N[x])
    <3>1. x \in Owed(written, page, carried) /\ x \in carried.sent /\ x \in RowsIn(written, page.session)
          /\ x \notin carried'.late /\ N[x] <= page.last /\ ~page.retry
      BY <1>3, <1>9, <2>1 DEF Owed
    <3>2. r.at \in Nat /\ page.last \in Nat /\ N[x] \in Nat
      BY <1>1, <1>4, <3>1 DEF Snapshots, PageStates
    <3>3. ASSUME r.session = page.session, r.at >= N[x] PROVE x \in r.rows
      BY <1>1, <1>2, <3>1, <3>2, <3>3 DEF ArrAt, ShotHas
    <3>4. CASE MayShow(r)
      <4>1. r.session = page.session /\ r.at >= N[x]
        BY <3>1, <3>2, <3>4 DEF MayShow
      <4> QED
        BY <1>3, <3>3, <3>4, <4>1
    <3>5. CASE ~MayShow(r)
      <4>1. x \in page.rows \/ \E k \in reads : Brings(k, page, N[x])
        BY <1>2, <3>1 DEF ArrAt, Kept
      <4>2. ~Brings(r, page, N[x])
        <5>1. ASSUME Brings(r, page, N[x]) PROVE FALSE
          <6>1. r.session = page.session /\ r.id > page.applied /\ r.at >= N[x]
            BY <1>1, <5>1 DEF Brings
          <6>2. r.at < page.last
            BY <3>2, <3>5, <6>1 DEF MayShow
          <6> QED
            BY <1>5, <3>1, <3>3, <6>1, <6>2
        <5> QED
          BY <5>1
      <4>3. \A k \in reads : Brings(k, page, N[x]) => Brings(k, page', N[x])
        BY <1>3, <3>5 DEF Brings
      <4> QED
        BY <1>1, <1>3, <3>5, <4>1, <4>2, <4>3
    <3> QED
      BY <3>4, <3>5
  <2> QED
    BY <2>1 DEF Kept
<1>12. ArrAt(N, written, srv, wire, reads', page', carried')
  BY <1>6, <1>8, <1>10, <1>11 DEF ArrAt
<1> QED
  BY <1>1, <1>12 DEF ArrIInv

LEMMA ReadFailsArrives ==
    ASSUME ArrIInv, NEW r \in reads, ReadFails(r)
    PROVE  ArrIInv'
<1>1. UiIInv' /\ UNCHANGED <<written, srv, wire, carried>> /\ UiAt(written, srv, wire, reads, page) /\ page.req < MaxReads
  BY ReadFailsKeeps DEF ReadFails, ArrIInv, UiIInv, MayAsk
<1>2. PICK N : ArrAt(N, written, srv, wire, reads, page, carried)
  BY DEF ArrIInv
<1>3. CASE r.by = "refresh" \/ (r.by = "connect" /\ r.gen = page.gen)
  <2>1. Fails(page, r.stage = "refused", reads \ {r}) /\ (r.stage = "refused") \in BOOLEAN
    BY <1>3 DEF ReadFails
  <2>2. UiAt(written, srv, wire, reads \ {r}, page)
    BY <1>1 DEF UiAt
  <2>3. FailedFrom(page, page')
    BY <1>1, <2>1, <2>2, FailsKeeps
  <2>4. \A k \in reads' : k \in reads \/ k.stage # "built"
    BY <2>1, FailsAsks
  <2>5. ArrAt(N, written, srv, wire, reads', page', carried)
    BY <1>2, <2>3, <2>4, FailingArrives DEF FailedFrom
  <2> QED
    BY <1>1, <2>5 DEF ArrIInv
<1>4. CASE ~(r.by = "refresh" \/ (r.by = "connect" /\ r.gen = page.gen))
  <2>1. UNCHANGED page /\ reads' = reads \ {r}
    BY <1>4 DEF ReadFails
  <2>2. \A n : ~Brings(r, page, n)
    BY <1>4 DEF Brings
  <2>3. Kept(N, written, reads', page, carried)
    BY <1>2, <2>1, <2>2 DEF ArrAt, Kept
  <2>4. ArrAt(N, written, srv, wire, reads', page, carried)
    BY <1>2, <2>1, <2>3 DEF ArrAt
  <2> QED
    BY <1>1, <2>1, <2>4 DEF ArrIInv
<1> QED
  BY <1>3, <1>4

\* A page that only counts and asks, or opens.
LEMMA SamePageArrives ==
    ASSUME NEW N, NEW w, NEW sv, NEW wr, NEW rs, NEW p, NEW c, NEW q, NEW qs, ArrAt(N, w, sv, wr, rs, p, c),
           q.session = p.session, q.gen = p.gen, q.last = p.last, q.applied = p.applied, q.rows = p.rows,
           q.retry = p.retry, q.conn = "push" => HasStream(sv, q),
           rs \subseteq qs, \A r \in qs : r \in rs \/ r.stage # "built"
    PROVE  ArrAt(N, w, sv, wr, qs, q, c)
<1>1. HasStream(sv, q) <=> HasStream(sv, p)
  BY DEF HasStream
<1>2. Owed(w, q, c) = Owed(w, p, c)
  BY DEF Owed
<1>3. WireAt(sv, wr, q)
  BY <1>1 DEF ArrAt, WireAt
<1>4. \A n : \A m \in wr : Carries(m, p, n) => Carries(m, q, n)
  BY DEF Carries
<1>5. \A n : \A r \in rs : Brings(r, p, n) => Brings(r, q, n)
  BY DEF Brings
<1>6. Coming(N, w, sv, wr, q, c)
  BY <1>1, <1>2, <1>4 DEF ArrAt, Coming
<1>7. Kept(N, w, qs, q, c)
  BY <1>2, <1>5 DEF ArrAt, Kept
<1>8. \A r \in qs : ShotHas(N, w, r, c)
  BY DEF ArrAt, ShotHas
<1> QED
  BY <1>3, <1>6, <1>7, <1>8 DEF ArrAt

LEMMA PollTickArrives ==
    ASSUME ArrIInv, PollTick
    PROVE  ArrIInv'
<1>1. /\ UiIInv' /\ UNCHANGED <<written, srv, wire, carried>> /\ page \in PageStates
      /\ page' = [page EXCEPT !.req = @ + 1] /\ reads' = reads \cup {Request(page', "poll")}
  BY PollTickKeeps DEF PollTick, Asks, ArrIInv, UiIInv, UiAt, PageAt
<1>2. PICK N : ArrAt(N, written, srv, wire, reads, page, carried)
  BY DEF ArrIInv
<1>3. /\ page'.session = page.session /\ page'.gen = page.gen /\ page'.last = page.last /\ page'.applied = page.applied
      /\ page'.conn = page.conn /\ page'.retry = page.retry /\ page'.rows = page.rows
  BY <1>1, CountedPage
<1>4. page'.conn = "push" => HasStream(srv, page')
  BY <1>2, <1>3 DEF ArrAt, WireAt, HasStream
<1>5. reads \subseteq reads' /\ \A r \in reads' : r \in reads \/ r.stage # "built"
  BY <1>1 DEF Request
<1>6. ArrAt(N, written, srv, wire, reads', page', carried)
  BY <1>2, <1>3, <1>4, <1>5, SamePageArrives
<1> QED
  BY <1>1, <1>6 DEF ArrIInv

LEMMA StreamOpensArrives ==
    ASSUME ArrIInv, StreamOpens
    PROVE  ArrIInv'
<1>1. /\ UiIInv' /\ UNCHANGED <<written, srv, wire, reads, carried>> /\ page \in PageStates
      /\ page' = [page EXCEPT !.conn = "push", !.poll = FALSE] /\ \E t \in srv.streams : t.gen = page.gen
  BY StreamOpensKeeps DEF StreamOpens, ArrIInv, UiIInv, UiAt, PageAt
<1>2. PICK N : ArrAt(N, written, srv, wire, reads, page, carried)
  BY DEF ArrIInv
<1>3. /\ page'.session = page.session /\ page'.gen = page.gen /\ page'.last = page.last /\ page'.applied = page.applied
      /\ page'.retry = page.retry /\ page'.rows = page.rows
  BY <1>1, OpenedPage
<1>4. HasStream(srv, page')
  BY <1>1, <1>3 DEF HasStream
<1>5. ArrAt(N, written, srv, wire, reads, page', carried)
  BY <1>2, <1>3, <1>4, SamePageArrives
<1> QED
  BY <1>1, <1>5 DEF ArrIInv

LEMMA RetryTickArrives ==
    ASSUME ArrIInv, RetryTick
    PROVE  ArrIInv'
<1>1. /\ UiIInv' /\ UNCHANGED <<written, srv, wire, carried>> /\ StreamsAt(srv, wire, page) /\ PageAt(written, srv, page)
      /\ Reopened(page, page') /\ page'.session = page.session /\ page'.last = page.last
      /\ reads' = reads \cup {Request(page', "connect")}
  BY RetryTickKeeps, RetryTickConnects DEF RetryTick, ArrIInv, UiIInv, UiAt
<1>2. PICK N : ArrAt(N, written, srv, wire, reads, page, carried)
  BY DEF ArrIInv
<1>3. ArrAt(N, written, srv, wire, reads', page', carried)
  BY <1>1, <1>2, ReopeningArrives
<1> QED
  BY <1>1, <1>3 DEF ArrIInv

LEMMA SwitchArrives ==
    ASSUME ArrIInv, NEW s \in Stores, Switch(s)
    PROVE  ArrIInv'
<1>1. /\ UiIInv' /\ UNCHANGED <<written, srv, wire, carried>> /\ StreamsAt(srv, wire, page) /\ PageAt(written, srv, page)
      /\ Reopened(page, page') /\ page'.last = 0 /\ reads' = reads \cup {Request(page', "connect")}
  BY SwitchKeeps, SwitchConnects DEF Switch, Connects, Asks, ArrIInv, UiIInv, UiAt
<1>2. PICK N : ArrAt(N, written, srv, wire, reads, page, carried)
  BY DEF ArrIInv
<1>3. ArrAt(N, written, srv, wire, reads', page', carried)
  BY <1>1, <1>2, ReopeningArrives
<1> QED
  BY <1>1, <1>3 DEF ArrIInv

LEMMA StreamBreaksArrives ==
    ASSUME ArrIInv, StreamBreaks
    PROVE  ArrIInv'
<1>1. /\ UiIInv' /\ UNCHANGED <<written, carried>> /\ page \in PageStates /\ srv \in Servers
      /\ FailedFrom([page EXCEPT !.conn = "down"], page')
      /\ srv' = [srv EXCEPT !.streams = {t \in @ : t.gen # page.gen}] /\ wire' = {m \in wire : m.gen # page.gen}
      /\ Fails([page EXCEPT !.conn = "down"], FALSE, reads)
  BY StreamBreaksKeeps, StreamBreaksFails DEF StreamBreaks, ArrIInv, UiIInv, UiAt, PageAt, ServerAt
<1>2. PICK N : ArrAt(N, written, srv, wire, reads, page, carried)
  BY DEF ArrIInv
<1>3. srv'.seq = srv.seq /\ srv'.history = srv.history
  BY <1>1 DEF Servers
<1>4. PICK d : d = [page EXCEPT !.conn = "down"]
  OBVIOUS
<1>5. d.conn = "down" /\ d.gen = page.gen
  BY <1>1, <1>4, DownPage
<1>6. page'.retry /\ page'.gen = page.gen /\ page'.conn = "down"
  BY <1>1, <1>4, <1>5 DEF FailedFrom
<1>7. FramesIn(srv', wire') \subseteq FramesIn(srv, wire)
  BY <1>1, <1>3 DEF FramesIn
<1>8. Sequenced(N, written, srv', wire', carried)
  BY <1>2, <1>3, <1>7 DEF ArrAt, Sequenced
<1>9. WireAt(srv', wire', page')
  BY <1>1, <1>6 DEF WireAt
<1>10. Coming(N, written, srv', wire', page', carried) /\ Kept(N, written, reads', page', carried)
  BY <1>6 DEF Coming, Kept
<1>11. \A r \in reads' : ShotHas(N, written, r, carried)
  <2>1. \A k \in reads' : k \in reads \/ k.stage # "built"
    BY <1>1, FailsAsks
  <2> QED
    BY <1>2, <2>1 DEF ArrAt, ShotHas
<1>12. ArrAt(N, written, srv', wire', reads', page', carried)
  BY <1>8, <1>9, <1>10, <1>11 DEF ArrAt
<1> QED
  BY <1>1, <1>12 DEF ArrIInv

(***************************************************************************)
(* A frame.                                                                *)
(***************************************************************************)
LEMMA ReceiveArrives ==
    ASSUME ArrIInv, NEW m \in wire, Receive(m)
    PROVE  ArrIInv'
<1>1. PICK N : ArrAt(N, written, srv, wire, reads, page, carried)
  BY DEF ArrIInv
<1>2. /\ UiIInv' /\ UNCHANGED <<written, srv, carried>> /\ wire' = wire \ {m} /\ page \in PageStates
      /\ StreamsAt(srv, wire, page) /\ FramesAt(written, srv, wire) /\ ServerAt(srv) /\ PageAt(written, srv, page)
  BY ReceiveKeeps DEF Receive, ArrIInv, UiIInv, UiAt, PageAt
<1>3. FramesIn(srv, wire) \subseteq Frames /\ m.frame \in FramesIn(srv, wire)
  BY <1>2, FramesAreFrames DEF FramesIn
<1>4. m.frame.seq \in Nat /\ page.last \in Nat /\ \A n \in wire : n.frame.seq \in Nat
  BY <1>2, <1>3 DEF Frames, PageStates, FramesIn
<1>5. \A x \in carried.sent : N[x] \in Nat
  <2>1. srv.seq \in Nat
    BY <1>2 DEF ServerAt, Servers
  <2> QED
    BY <1>1, <2>1 DEF ArrAt, Sequenced
<1>6. Sequenced(N, written, srv, wire', carried)
  <2>1. FramesIn(srv, wire') \subseteq FramesIn(srv, wire)
    BY <1>2 DEF FramesIn
  <2> QED
    BY <1>1, <2>1 DEF ArrAt, Sequenced
<1>7. WireAt(srv, wire', page)
  BY <1>1, <1>2 DEF ArrAt, WireAt
<1>8. CASE UNCHANGED <<page, reads>> /\ (m.gen = page.gen => ~(m.frame.seq > page.last))
  <2>1. Coming(N, written, srv, wire', page, carried)
    <3>1. ASSUME NEW x \in Owed(written, page, carried), HasStream(srv, page), ~page.retry, N[x] > page.last
          PROVE  \E n \in wire' : Carries(n, page, N[x])
      <4>1. PICK n \in wire : Carries(n, page, N[x])
        BY <1>1, <3>1 DEF ArrAt, Coming
      <4>2. n # m
        BY <1>4, <1>5, <1>8, <3>1, <4>1 DEF Carries, Owed
      <4> QED
        BY <1>2, <4>1, <4>2
    <3> QED
      BY <3>1 DEF Coming
  <2>2. ArrAt(N, written, srv, wire', reads, page, carried)
    BY <1>1, <1>6, <1>7, <2>1 DEF ArrAt
  <2> QED
    BY <1>2, <1>8, <2>2 DEF ArrIInv
<1>9. CASE /\ m.gen = page.gen /\ m.frame.seq > page.last /\ Folded(page, m.frame, page')
           /\ \/ ~m.frame.ready /\ reads' = reads
              \/ m.frame.ready /\ page'.req = page.req + 1 /\ reads' = reads \cup {Request(page', "refresh")}
  <2>1. /\ page'.last = m.frame.seq /\ page'.rows = page.rows \cup m.frame.rows
        /\ page'.session = page.session /\ page'.gen = page.gen /\ page'.applied = page.applied
        /\ page'.conn = page.conn /\ page'.retry = page.retry
    BY <1>9 DEF Folded
  <2>2. HasStream(srv, page') <=> HasStream(srv, page)
    BY <2>1 DEF HasStream
  <2>3. Owed(written, page', carried) = Owed(written, page, carried)
    BY <2>1 DEF Owed
  <2>4. HasStream(srv, page)
    BY <1>1, <1>9 DEF ArrAt, WireAt
  <2>5. WireAt(srv, wire', page')
    BY <1>7, <2>1, <2>2 DEF WireAt
  <2>6. ASSUME NEW x \in Owed(written, page, carried), ~page.retry, N[x] > page.last
        PROVE  \/ N[x] = m.frame.seq /\ ~m.frame.ready
               \/ m.frame.ready /\ N[x] <= m.frame.seq
               \/ N[x] > m.frame.seq /\ \E n \in wire' : Carries(n, page, N[x])
    <3>1. PICK n \in wire : Carries(n, page, N[x])
      BY <1>1, <2>4, <2>6 DEF ArrAt, Coming
    <3>2. n.gen = page.gen /\ m.frame.seq <= n.frame.seq /\ N[x] \in Nat
      BY <1>5, <1>9, <2>6, <3>1 DEF Carries, Receive, Owed
    <3>3. CASE n = m
      BY <3>1, <3>2, <3>3 DEF Carries
    <3>4. CASE n # m /\ n.frame.ready
      BY <1>1, <1>4, <1>9, <3>2, <3>4 DEF ArrAt, WireAt
    <3>5. CASE n # m /\ ~n.frame.ready
      <4>1. n.frame.seq = N[x] /\ n \in wire'
        BY <1>2, <3>1, <3>5 DEF Carries
      <4> QED
        BY <1>4, <3>1, <3>2, <4>1
    <3> QED
      BY <3>3, <3>4, <3>5
  <2>7. Coming(N, written, srv, wire', page', carried)
    <3>1. ASSUME NEW x \in Owed(written, page, carried), ~page.retry, N[x] > page'.last
          PROVE  \E n \in wire' : Carries(n, page', N[x])
      <4>1. N[x] > page.last /\ N[x] > m.frame.seq
        BY <1>4, <1>5, <1>9, <2>1, <3>1 DEF Owed
      <4>2. \E n \in wire' : Carries(n, page, N[x])
        BY <1>4, <1>5, <2>6, <3>1, <4>1 DEF Owed
      <4> QED
        BY <2>1, <4>2 DEF Carries
    <3> QED
      BY <2>1, <2>3, <3>1 DEF Coming
  <2>8. Kept(N, written, reads', page', carried)
    <3>1. ASSUME NEW x \in Owed(written, page, carried), ~page.retry, N[x] <= page'.last
          PROVE  x \in page'.rows \/ \E r \in reads' : Brings(r, page', N[x])
      <4>1. x \in carried.sent /\ N[x] \in Nat
        BY <1>5, <3>1 DEF Owed
      <4>2. CASE N[x] <= page.last
        <5>1. x \in page.rows \/ \E r \in reads : Brings(r, page, N[x])
          BY <1>1, <3>1, <4>2 DEF ArrAt, Kept
        <5>2. reads \subseteq reads'
          BY <1>9
        <5> QED
          BY <2>1, <5>1, <5>2 DEF Brings
      <4>3. CASE N[x] > page.last /\ ~m.frame.ready
        <5>1. N[x] = m.frame.seq
          BY <1>4, <2>1, <2>6, <3>1, <4>1, <4>3
        <5>2. x \in m.frame.rows
          BY <1>1, <1>3, <4>1, <4>3, <5>1 DEF ArrAt, Sequenced
        <5> QED
          BY <2>1, <5>2
      <4>4. CASE m.frame.ready
        <5>1. PICK r : r = Request(page', "refresh")
          OBVIOUS
        <5>2. r \in reads' /\ page'.req = page.req + 1
          BY <1>9, <4>4, <5>1
        <5>3. r.id = page'.req /\ r.session = page'.session /\ r.by = "refresh" /\ r.stage = "sent"
          BY <5>1 DEF Request
        <5>4. r.id > page'.applied
          BY <1>2, <2>1, <5>2, <5>3 DEF PageAt, PageStates
        <5>5. Brings(r, page', N[x])
          BY <5>3, <5>4 DEF Brings
        <5> QED
          BY <5>2, <5>5
      <4> QED
        BY <1>4, <4>1, <4>2, <4>3, <4>4
    <3> QED
      BY <2>1, <2>3, <3>1 DEF Kept
  <2>9. \A r \in reads' : ShotHas(N, written, r, carried)
    <3>1. \A r \in reads' : r \in reads \/ r.stage # "built"
      BY <1>9 DEF Request
    <3> QED
      BY <1>1, <3>1 DEF ArrAt, ShotHas
  <2>10. ArrAt(N, written, srv, wire', reads', page', carried)
    BY <1>6, <2>5, <2>7, <2>8, <2>9 DEF ArrAt
  <2> QED
    BY <1>2, <2>10 DEF ArrIInv
<1>10. UiIInv
  BY DEF ArrIInv
<1> QED
  BY <1>8, <1>9, <1>10, ReceivedIs

LEMMA ArrivesStep ==
    ASSUME ArrIInv, [UiNext]_uiVars
    PROVE  ArrIInv'
<1>0. UiIInv /\ UiIInv'
  BY UiStepKeeps DEF ArrIInv
<1>1. CASE \E s \in Stores : Write(s) \/ SwitchMemory(s) \/ Refresh(s) \/ Deliver(s) \/ Switch(s)
  <2>1. PICK s \in Stores : Write(s) \/ SwitchMemory(s) \/ Refresh(s) \/ Deliver(s) \/ Switch(s)
    BY <1>1
  <2>2. CASE SwitchMemory(s) \/ Refresh(s)
    <3>1. UNCHANGED <<written, srv, wire, reads, page, carried>>
      BY <2>2 DEF SwitchMemory, Refresh
    <3> QED
      BY <1>0, <3>1, StillArrives
  <2> QED
    BY <2>1, <2>2, WriteArrives, DeliverArrives, SwitchArrives
<1>2. CASE \E r \in reads : ServeSnapshot(r) \/ BuildSnapshot(r) \/ LandSnapshot(r) \/ ReadFails(r)
  BY <1>2, ServeSnapshotArrives, BuildSnapshotArrives, LandSnapshotArrives, ReadFailsArrives
<1>3. CASE \E t \in srv.streams : DropStream(t)
  BY <1>3, DropStreamArrives
<1>4. CASE \E m \in wire : Receive(m)
  BY <1>4, ReceiveArrives
<1>5. CASE ServeEvents \/ PollTick \/ RetryTick \/ StreamOpens \/ StreamBreaks
  BY <1>5, ServeEventsArrives, PollTickArrives, RetryTickArrives, StreamOpensArrives, StreamBreaksArrives
<1>6. CASE UNCHANGED uiVars
  BY <1>0, <1>6, StillArrives DEF uiVars
<1> QED
  BY <1>1, <1>2, <1>3, <1>4, <1>5, <1>6 DEF UiNext

(***************************************************************************)
(* What a frame carried and the page does not show is on the way: in a     *)
(* frame or behind a marker on its stream, or in a snapshot that is asked  *)
(* for, or the page waits for a retry (handleEvents, deliver, readSnapshot,*)
(* connect, handleFailure): an invariant.                                  *)
(***************************************************************************)
THEOREM ArrivalInvariant == UiSpec => []ArrIInv
<1>1. UiInit => ArrIInv
  BY ArrivesInitially
<1>2. ArrIInv /\ [UiNext]_uiVars => ArrIInv'
  BY ArrivesStep
<1> QED
  BY <1>1, <1>2, PTL DEF UiSpec

(***************************************************************************)
(* A page at rest with a stream shows every row of its store that a frame  *)
(* carried, over broken streams and requests, markers and switches; apart  *)
(* are rows kept back while memory was off and rows of a snapshot that a   *)
(* newer frame overtook (handleEvents, deliver, readSnapshot).             *)
(***************************************************************************)
THEOREM FramesArriveHolds == UiSpec => []FramesArrive
<1>1. ArrIInv => FramesArrive
  <2>1. ASSUME ArrIInv, AtRest, NEW x \in (carried.sent \ Excused) \cap RowsOf(page.session)
        PROVE  x \in page.rows
    <3>1. PICK N : ArrAt(N, written, srv, wire, reads, page, carried)
      BY <2>1 DEF ArrIInv
    <3>2. x \in Owed(written, page, carried)
      BY <2>1 DEF Owed, Excused, RowsOf, RowsIn
    <3>3. page.conn = "push" /\ wire = {} /\ reads = {} /\ ~page.retry
      BY <2>1 DEF AtRest
    <3>4. HasStream(srv, page)
      BY <3>1, <3>3 DEF ArrAt, WireAt
    <3>5. ~(N[x] > page.last)
      BY <3>1, <3>2, <3>3, <3>4 DEF ArrAt, Coming
    <3>6. N[x] \in Int /\ page.last \in Int
      <4>1. N[x] \in 1..srv.seq
        BY <3>1, <3>2 DEF ArrAt, Sequenced, Owed
      <4>2. srv.seq \in Nat /\ page.last \in Nat
        BY <2>1 DEF ArrIInv, UiIInv, UiAt, ServerAt, Servers, PageAt, PageStates
      <4> QED
        BY <4>1, <4>2
    <3> QED
      BY <3>1, <3>2, <3>3, <3>5, <3>6 DEF ArrAt, Kept
  <2> QED
    BY <2>1 DEF FramesArrive
<1> QED
  BY <1>1, ArrivalInvariant, PTL

----------------------------------------------------------------------------
(***************************************************************************)
(* Recall, for any library, queries and limits: a page of a file is at     *)
(* least one line of it and starts where the last one ended.               *)
(***************************************************************************)

\* A file is its lines.  What was read of one is its beginning, up to where the
\* next page starts, and one that was read to its end has no line left.
IsLibrary == \A d \in Docs : library[d] \in Seq(Sentences) /\ Len(library[d]) = DocLengths[d]
ReadUpTo ==
    /\ reader.doc \in Docs /\ reader.next \in 1..DocLengths[reader.doc] + 1
    /\ reader.got = SubSeq(library[reader.doc], 1, reader.next - 1)
    /\ reader.state = "ended" => reader.next = DocLengths[reader.doc] + 1
RecIInv ==
    /\ IsLibrary
    /\ reader = NotReading \/ reader.state = "blocked" \/ ReadUpTo
    /\ asked # NotAsked => reader = NotReading

\* A set of numbers up to n has a greatest one.
LEMMA MaxIsIn ==
    ASSUME NEW n \in Nat, NEW S \in SUBSET (0..n), S # {}
    PROVE  Max(S) \in S
<1> DEFINE Below == {n - x : x \in S}
<1>1. Below \subseteq Nat /\ Below # {}
  <2>1. \A x \in S : n - x \in Nat
    <3>1. TAKE x \in S
    <3>2. x \in 0..n
      OBVIOUS
    <3> QED
      BY <3>2
  <2> QED
    BY <2>1
<1>2. PICK b \in Below : \A c \in Below : ~(<<c, b>> \in OpToRel(<, Nat))
  BY <1>1, WFMin, NatLessThanWellFounded
<1>3. \A c \in Below : ~(c < b)
  BY <1>1, <1>2 DEF OpToRel
<1>4. PICK x \in S : b = n - x
  BY <1>2
<1>5. \A y \in S : x >= y
  <2>1. TAKE y \in S
  <2>2. n - y \in Below /\ n - y \in Nat /\ x \in Nat /\ y \in Nat
    OBVIOUS
  <2>3. ~(n - y < n - x)
    BY <1>3, <1>4, <2>2
  <2> QED
    BY <2>2, <2>3
<1>6. \E z \in S : \A y \in S : z >= y
  BY <1>5
<1> QED
  BY <1>6, Zenon DEF Max

\* No more lines are fitted than there are.
LEMMA FittedIsSome ==
    ASSUME NEW lines \in Seq(Sentences), NEW tokens
    PROVE  FittedLines(lines, tokens) \in 0..Len(lines)
<1> DEFINE S == {0} \cup {n \in 1..Len(lines) : Cost(SubSeq(lines, 1, n)) <= tokens}
<1>1. S \in SUBSET (0..Len(lines)) /\ S # {} /\ Len(lines) \in Nat
  BY LenProperties
<1>2. FittedLines(lines, tokens) = Max(S)
  BY DEF FittedLines
<1> HIDE DEF S
<1> QED
  BY <1>1, <1>2, MaxIsIn

\* A page that starts where the one before ended goes on with the file.
LEMMA PagesJoin ==
    ASSUME NEW file \in Seq(Sentences), NEW next \in 1..Len(file) + 1, NEW n \in Nat, next + n <= Len(file) + 1
    PROVE  SubSeq(file, 1, next - 1) \o SubSeq(file, next, next + n - 1) = SubSeq(file, 1, next + n - 1)
<1> DEFINE a == SubSeq(file, 1, next - 1)
           b == SubSeq(file, next, next + n - 1)
           c == SubSeq(file, 1, next + n - 1)
<1>1. Len(file) \in Nat
  BY LenProperties
<1>2. a \in Seq(Sentences) /\ Len(a) = next - 1 /\ \A i \in 1..next - 1 : a[i] = file[i]
  BY <1>1, SubSeqProperties
<1>3. b \in Seq(Sentences) /\ Len(b) = n /\ \A i \in 1..n : b[i] = file[next + i - 1]
  BY <1>1, SubSeqProperties
<1>4. c \in Seq(Sentences) /\ Len(c) = next + n - 1 /\ \A i \in 1..next + n - 1 : c[i] = file[i]
  BY <1>1, SubSeqProperties
<1> HIDE DEF a, b, c
<1>5. /\ a \o b \in Seq(Sentences) /\ Len(a \o b) = Len(a) + Len(b)
      /\ \A i \in 1..Len(a) + Len(b) : (a \o b)[i] = IF i <= Len(a) THEN a[i] ELSE b[i - Len(a)]
  BY <1>2, <1>3, ConcatProperties
<1>6. Len(a \o b) = Len(c)
  BY <1>2, <1>3, <1>4, <1>5
<1>7. \A i \in 1..Len(c) : (a \o b)[i] = c[i]
  <2>1. TAKE i \in 1..Len(c)
  <2>2. CASE i <= next - 1
    BY <1>2, <1>3, <1>4, <1>5, <2>2
  <2>3. CASE i > next - 1
    <3>1. i - (next - 1) \in 1..n /\ next + (i - (next - 1)) - 1 = i
      BY <1>4, <2>3
    <3>2. (a \o b)[i] = b[i - (next - 1)]
      BY <1>2, <1>3, <1>4, <1>5, <2>3
    <3>3. b[i - (next - 1)] = file[next + (i - (next - 1)) - 1]
      BY <1>3, <3>1
    <3> QED
      BY <1>4, <3>1, <3>2, <3>3
  <2> QED
    <3>1. i \in Int /\ next \in Int
      BY <1>1, <1>4
    <3>2. i <= next - 1 \/ i > next - 1
      BY <3>1
    <3> QED
      BY <2>2, <2>3, <3>2
<1> QED
  BY <1>4, <1>5, <1>6, <1>7, SeqEqual DEF a, b, c

LEMMA RecallInitially == RecallInit => RecIInv
<1> SUFFICES ASSUME RecallInit PROVE RecIInv
  OBVIOUS
<1>1. IsLibrary
  <2> SUFFICES ASSUME NEW d \in Docs
               PROVE  library[d] \in Seq(Sentences) /\ Len(library[d]) = DocLengths[d]
    BY DEF IsLibrary
  <2>2. library[d] \in UNION {[1..n -> Sentences] : n \in Range(DocLengths)} /\ Len(library[d]) = DocLengths[d]
    BY DEF RecallInit, Libraries
  <2>3. PICK n \in Range(DocLengths) : library[d] \in [1..n -> Sentences]
    BY <2>2
  <2>4. n \in Nat
    BY <2>3, RecallAssumption DEF RecallAssumption, Range
  <2> QED
    BY <2>2, <2>3, <2>4
<1> QED
  BY <1>1 DEF RecallInit, RecIInv

LEMMA SearchKeeps ==
    ASSUME RecIInv, NEW query, NEW limit, Search(query, limit)
    PROVE  RecIInv'
<1>1. library' = library /\ reader' = NotReading
  BY DEF Search
<1>2. IsLibrary'
  BY <1>1 DEF RecIInv, IsLibrary
<1> QED
  BY <1>1, <1>2 DEF RecIInv

LEMMA ReadPageKeeps ==
    ASSUME RecIInv, NEW d \in Docs, NEW lines \in Nat, NEW tokens, ReadPage(d, lines, tokens)
    PROVE  RecIInv'
<1> DEFINE file == library[d]
           left == SubSeq(file, reader.next, DocLengths[d])
           piece == IF lines = 0 \/ lines > Len(left) THEN left ELSE SubSeq(left, 1, lines)
           fitted == FittedLines(piece, tokens)
           next == reader.next
           cut == SubSeq(piece, 1, fitted)
<1>1. /\ asked = NotAsked /\ library' = library /\ asked' = asked
      /\ reader = NotReading \/ (reader.state = "reading" /\ reader.doc = d)
  BY DEF ReadPage
<1>2. PICK blocked \in BOOLEAN :
        /\ reader' = [state |-> IF blocked THEN "blocked" ELSE IF fitted < Len(left) THEN "reading" ELSE "ended", doc |-> d,
                      next |-> next + fitted, got |-> IF blocked THEN reader.got ELSE reader.got \o cut]
        /\ usage' = IF blocked THEN {} ELSE {SummaryOf[d]} \cap KnownRollouts
  BY DEF ReadPage
<1>3. file \in Seq(Sentences) /\ Len(file) = DocLengths[d] /\ DocLengths[d] \in Nat
  <2>1. file \in Seq(Sentences) /\ Len(file) = DocLengths[d]
    BY DEF RecIInv, IsLibrary
  <2> QED
    BY <2>1, LenProperties
<1>4. next \in 1..Len(file) + 1 /\ reader.got = SubSeq(file, 1, next - 1)
  <2>1. CASE reader = NotReading
    <3>1. next = 1 /\ reader.got = <<>>
      BY <2>1 DEF NotReading
    <3>2. SubSeq(file, 1, 0) = <<>>
      BY <1>3
    <3> QED
      BY <1>3, <3>1, <3>2
  <2>2. CASE reader.state = "reading" /\ reader.doc = d
    BY <1>3, <2>2 DEF RecIInv, ReadUpTo, NotReading
  <2> QED
    BY <1>1, <2>1, <2>2
<1>5. left \in Seq(Sentences) /\ Len(left) = Len(file) - next + 1 /\ \A i \in 1..Len(left) : left[i] = file[next + i - 1]
  <2> DEFINE rest == SubSeq(file, next, Len(file))
  <2> HIDE DEF file
  <2>1. Len(file) \in Nat /\ next \in 1..Len(file) + 1
    BY <1>3, <1>4
  <2>2. \A i \in next..Len(file) : file[i] \in Sentences
    BY <1>3, <2>1
  <2>3. /\ rest \in Seq(Sentences) /\ Len(rest) = IF next <= Len(file) THEN Len(file) - next + 1 ELSE 0
        /\ \A i \in 1..Len(file) - next + 1 : rest[i] = file[next + i - 1]
    BY <2>1, <2>2, SubSeqProperties
  <2>4. left = rest
    BY <1>3
  <2> HIDE DEF rest, left, next
  <2>5. Len(rest) = Len(file) - next + 1
    BY <2>1, <2>3
  <2> QED
    BY <2>3, <2>4, <2>5
<1>6. piece \in Seq(Sentences) /\ Len(piece) \in 0..Len(left) /\ \A i \in 1..Len(piece) : piece[i] = left[i]
  <2> HIDE DEF left
  <2>1. Len(left) \in Nat
    BY <1>3, <1>4, <1>5
  <2>2. CASE lines = 0 \/ lines > Len(left)
    BY <1>5, <2>1, <2>2
  <2>3. CASE ~(lines = 0 \/ lines > Len(left))
    <3>1. lines \in 1..Len(left)
      BY <2>1, <2>3
    <3>2. SubSeq(left, 1, lines) \in Seq(Sentences) /\ Len(SubSeq(left, 1, lines)) = lines
          /\ \A i \in 1..lines : SubSeq(left, 1, lines)[i] = left[i]
      BY <1>5, <2>1, <3>1, SubSeqProperties
    <3> QED
      BY <2>3, <3>1, <3>2
  <2> QED
    BY <2>2, <2>3
<1>7. fitted \in 0..Len(piece)
  <2> HIDE DEF piece
  <2> QED
    BY <1>6, FittedIsSome
<1>8. cut = SubSeq(file, next, next + fitted - 1)
  <2> HIDE DEF left, piece, fitted, file
  <2>1. Len(file) \in Nat /\ Len(piece) \in Nat /\ fitted \in Nat /\ next + fitted <= Len(file) + 1
    BY <1>3, <1>4, <1>5, <1>6, <1>7
  <2>2. cut \in Seq(Sentences) /\ Len(cut) = fitted /\ \A i \in 1..fitted : cut[i] = piece[i]
    BY <1>6, <1>7, <2>1, SubSeqProperties
  <2> DEFINE part == SubSeq(file, next, next + fitted - 1)
  <2>3. part \in Seq(Sentences) /\ Len(part) = fitted /\ \A i \in 1..fitted : part[i] = file[next + i - 1]
    BY <1>3, <1>4, <2>1, SubSeqProperties
  <2>4. \A i \in 1..fitted : piece[i] = file[next + i - 1]
    BY <1>5, <1>6, <1>7, <2>1
  <2> HIDE DEF part, cut
  <2> QED
    BY <2>2, <2>3, <2>4, SeqEqual DEF part
<1>9. reader.got \o cut = SubSeq(file, 1, next + fitted - 1)
  <2> HIDE DEF left, piece, fitted, file, cut
  <2>1. fitted \in Nat /\ next + fitted <= Len(file) + 1
    BY <1>3, <1>4, <1>5, <1>6, <1>7
  <2> QED
    BY <1>3, <1>4, <1>8, <2>1, PagesJoin
<1>10. reader'.state = "blocked" \/ ReadUpTo'
  <2> HIDE DEF left, piece, fitted, cut
  <2>1. CASE blocked
    BY <1>2, <2>1
  <2>2. CASE ~blocked
    <3>1. /\ reader'.doc = d /\ reader'.next = next + fitted /\ reader'.got = reader.got \o cut
          /\ reader'.state = "ended" => ~(fitted < Len(left))
      BY <1>2, <2>2
    <3>2. next + fitted \in 1..Len(file) + 1 /\ (~(fitted < Len(left)) => next + fitted = Len(file) + 1)
      <4> HIDE DEF file, next
      <4>1. Len(file) \in Nat /\ next \in 1..Len(file) + 1 /\ Len(left) = Len(file) - next + 1
        BY <1>3, <1>4, <1>5
      <4>2. fitted \in Nat /\ fitted <= Len(left)
        BY <1>6, <1>7, <4>1
      <4> QED
        BY <4>1, <4>2
    <3>3. library'[d] = file
      BY <1>1
    <3> HIDE DEF file
    <3> QED
      <4> HIDE DEF next
      <4>1. reader'.doc \in Docs /\ reader'.next \in 1..DocLengths[reader'.doc] + 1
        BY <1>3, <3>1, <3>2
      <4>2. reader'.got = SubSeq(library'[reader'.doc], 1, reader'.next - 1)
        <5>1. reader'.next - 1 = next + fitted - 1
          <6>1. next \in Int /\ fitted \in Int /\ reader'.next = next + fitted
            BY <1>4, <1>7, <3>1
          <6> QED
            BY <6>1
        <5>2. library'[reader'.doc] = file
          BY <3>1, <3>3
        <5>3. reader'.got = SubSeq(file, 1, next + fitted - 1)
          BY <1>9, <3>1
        <5> QED
          BY <5>1, <5>2, <5>3
      <4>3. reader'.state = "ended" => reader'.next = DocLengths[reader'.doc] + 1
        BY <1>3, <3>1, <3>2
      <4> QED
        BY <4>1, <4>2, <4>3 DEF ReadUpTo
  <2> QED
    BY <2>1, <2>2
<1>11. IsLibrary' /\ asked' = NotAsked
  BY <1>1 DEF RecIInv, IsLibrary
<1> QED
  BY <1>10, <1>11 DEF RecIInv

LEMMA RecallStepKeeps == RecIInv /\ [RecallNext]_recallVars => RecIInv'
<1> SUFFICES ASSUME RecIInv, [RecallNext]_recallVars PROVE RecIInv'
  OBVIOUS
<1>1. ASSUME NEW query \in SUBSET Terms \ {{}}, NEW limit \in HitLimits, Search(query, limit) PROVE RecIInv'
  BY <1>1, SearchKeeps
<1>2. ASSUME NEW d \in Docs \ PendingDocs, NEW lines \in LineLimits, NEW tokens \in TokenLimits, ReadPage(d, lines, tokens)
      PROVE  RecIInv'
  BY <1>2, ReadPageKeeps, RecallAssumption DEF RecallAssumption
<1>3. CASE UNCHANGED recallVars
  BY <1>3 DEF recallVars, RecIInv, IsLibrary, ReadUpTo
<1> QED
  BY <1>1, <1>2, <1>3 DEF RecallNext

\* The invariant of searches and paged reads, for any library and any caps.
THEOREM RecallInvariant == RecallSpec => []RecIInv
BY RecallInitially, RecallStepKeeps, PTL DEF RecallSpec

(***************************************************************************)
(* The pages of a file that is read to its end are the file, whatever caps *)
(* they were read with: each starts where the one before says, and a line  *)
(* that does not fit is neither skipped nor repeated (readMemory).         *)
(***************************************************************************)
THEOREM PagesAreTheFileHolds == RecallSpec => []PagesAreTheFile
<1>1. ASSUME RecIInv PROVE PagesAreTheFile
  <2>1. CASE reader = NotReading \/ reader.state = "blocked"
    BY <2>1 DEF PagesAreTheFile, NotReading
  <2>2. CASE ReadUpTo
    <3>1. reader.got = SubSeq(library[reader.doc], 1, reader.next - 1)
      BY <2>2 DEF ReadUpTo
    <3>2. ASSUME reader.state = "ended" PROVE reader.got = library[reader.doc]
      <4> DEFINE file == library[reader.doc]
      <4>1. file \in Seq(Sentences) /\ reader.next - 1 = Len(file)
        <5>1. file \in Seq(Sentences) /\ Len(file) = DocLengths[reader.doc] /\ reader.next = DocLengths[reader.doc] + 1
          BY <1>1, <2>2, <3>2 DEF RecIInv, IsLibrary, ReadUpTo
        <5>2. Len(file) \in Nat
          BY <5>1, LenProperties
        <5> QED
          BY <5>1, <5>2
      <4> HIDE DEF file
      <4>2. SubSeq(file, 1, Len(file)) = file
        BY <4>1, SubSeqFull
      <4> QED
        BY <3>1, <4>1, <4>2 DEF file
    <3> QED
      BY <3>1, <3>2 DEF PagesAreTheFile
  <2> QED
    BY <1>1, <2>1, <2>2 DEF RecIInv
<1> QED
  BY <1>1, RecallInvariant, PTL
=============================================================================
