------------------------------ MODULE Settings ------------------------------
(***************************************************************************)
(* The settings page.  Three zones write the same configuration document   *)
(* of the host through one controller (client/settings/controller.ts): the *)
(* staged form (draft.ts), the injection switch (instant.ts) and the       *)
(* workspace switches (workspaces.ts).  The page sees the document through *)
(* a mirror that follows it; another editor writes the same document.      *)
(***************************************************************************)
EXTENDS Integers, FiniteSets

CONSTANTS
    FormFields,   \* the fields of the staged form
    TextFields,   \* those typed in, which may be invalid
    Inject,       \* injectContext
    Space,        \* the override of one workspace
    MaxExternal,  \* bound: writes of the other editor
    MaxPresses,   \* bound: writes the user starts
    MaxFormEdits, \* bound: edits of the form
    MaxWriteFaults \* bound: deadlines that pass, refusals of a valid write

ASSUME SettingsAssumption ==
    /\ TextFields \subseteq FormFields
    /\ Inject \notin FormFields /\ Space \notin FormFields /\ Inject # Space
    /\ MaxExternal \in Nat /\ MaxPresses \in Nat
    /\ MaxFormEdits \in Nat /\ MaxWriteFaults \in Nat

VARIABLES
    doc,      \* the document of the host: [rev, user]
    mirror,   \* what the page knows of it
    calls,    \* writes on their way, those given up included
    form,     \* SettingsFormModel
    switch,   \* InjectionSwitchModel
    space,    \* WorkspacePolicyModel
    used,     \* counters of the bounds
    external  \* history: of a form's field, the revision of the last write by the other editor

setVars == <<doc, mirror, calls, form, switch, space, used, external>>

Fields == FormFields \cup {Inject, Space}
Values == {"on", "off"}
None == "none"
Base(f) == IF f \in FormFields THEN "off" ELSE "on"
Effective(m, f) == IF m.user[f] = None THEN Base(f) ELSE m.user[f]
\* overriddenFields: an entry that equals the base is a reset.
Overridden(m, f) == m.user[f] \notin {None, Base(f)}

\* fence: baselineRevision, 0 when there is none.  Histories: seen, the revision
\* shown when the field was last edited or a conflict reported; idle, a draft
\* was once left without a fence.
CleanForm ==
    [draft |-> [f \in FormFields |-> None], fence |-> 0, saving |-> FALSE, failed |-> FALSE,
     conflict |-> FALSE, seen |-> [f \in FormFields |-> 0], idle |-> FALSE]
\* asked: the value being written.  undoing: undoLast waits for the answer.
Zone == [value |-> "on", pending |-> FALSE, asked |-> None, prior |-> None,
         undo |-> None, undoing |-> FALSE, before |-> 0]

SetInit ==
    /\ doc = [rev |-> 1, user |-> [f \in Fields |-> None]]
    /\ mirror = doc
    /\ calls = {}
    /\ form = CleanForm
    /\ switch = Zone /\ space = Zone
    /\ used = [external |-> 0, presses |-> 0, edits |-> 0, faults |-> 0]
    /\ external = [f \in FormFields |-> 0]

Busy == \E c \in calls : c.waits
Spend(k) == used' = [used EXCEPT ![k] = @ + 1]
Fault == used.faults < MaxWriteFaults /\ Spend("faults")

----------------------------------------------------------------------------
(***************************************************************************)
(* What a change of the mirror does to the zones                           *)
(***************************************************************************)
\* sync: an answer of its own write aside, the switch follows the mirror.
SwitchSync(z, m) ==
    IF z.pending \/ z.value = Effective(m, Inject) THEN z
    ELSE [z EXCEPT !.value = Effective(m, Inject), !.undo = None]
\* syncExternal: undo goes when someone else changed what it would overwrite.
SpaceSync(z, m) ==
    IF z.pending \/ z.undo = None \/ Effective(m, Space) = z.asked THEN z
    ELSE [z EXCEPT !.undo = None]

\* plan: the fields whose draft differs from what the mirror shows.
Pending(d, m) ==
    {f \in FormFields : d[f] \in Values /\
        IF d[f] = Base(f) THEN Overridden(m, f) ELSE d[f] # Effective(m, f)}
Invalid(d) == {f \in FormFields : d[f] = "invalid"}
NothingLeft(d, m) == Pending(d, m) = {} /\ Invalid(d) = {}

\* An unset of what the base supplies may come back as an equal set.
Landings(c, u) ==
    {v \in [Fields -> Values \cup {None}] :
        \A f \in Fields : IF f \notin DOMAIN c.change THEN v[f] = u[f]
                          ELSE IF c.change[f] = None THEN v[f] \in {None, Base(f)}
                          ELSE v[f] = c.change[f]}
\* verifyOps, verifyField, verifyWorkspaceSet
Verified(c, m) ==
    \A f \in DOMAIN c.change :
        IF c.change[f] = None THEN ~Overridden(m, f) ELSE m.user[f] = c.change[f]

----------------------------------------------------------------------------
(***************************************************************************)
(* The user                                                                *)
(***************************************************************************)
\* stage: the fence is captured with the first edit that leaves something to write.
Stage(f, v) ==
    LET d == [form.draft EXCEPT ![f] = v]
    IN [form EXCEPT
          !.draft = d, !.failed = FALSE, !.conflict = FALSE,
          !.fence = IF NothingLeft(d, mirror) THEN 0 ELSE IF @ = 0 THEN mirror.rev ELSE @,
          !.seen[f] = mirror.rev, !.idle = @ \/ NothingLeft(d, mirror)]
\* dropBudgetDraft: what is typed back to the shown value is no draft.
DropDraft(f) ==
    LET d == [form.draft EXCEPT ![f] = None]
    IN [form EXCEPT !.draft = d, !.failed = FALSE, !.conflict = FALSE, !.seen[f] = 0,
                    !.fence = IF d = CleanForm.draft THEN 0 ELSE @]
\* What the form's control shows.
Shown(f) == IF form.draft[f] = None THEN Effective(mirror, f) ELSE form.draft[f]
Edit(f, v) ==
    /\ ~form.saving
    /\ used.edits < MaxFormEdits /\ Spend("edits")
    /\ v # Shown(f)
    /\ v = "invalid" => f \in TextFields
    /\ form' = IF f \in TextFields /\ v = Effective(mirror, f) THEN DropDraft(f) ELSE Stage(f, v)
    /\ UNCHANGED <<doc, mirror, calls, switch, space, external>>
\* discard, by the button or by leaving the page.
Discard ==
    /\ ~form.saving /\ form # CleanForm
    /\ form' = CleanForm
    /\ UNCHANGED <<doc, mirror, calls, switch, space, used, external>>

Unanswered == [rev |-> 0, user |-> [f \in Fields |-> None]]
\* beginWrite: one write of the page at a time.
Call(owner, change, fence) ==
    /\ ~Busy
    /\ used.presses < MaxPresses /\ Spend("presses")
    /\ LET known == IF owner = "form" THEN form ELSE CleanForm
       IN calls' = calls \cup {[id |-> used.presses, owner |-> owner, change |-> change, fence |-> fence,
                                state |-> "sent", answer |-> Unanswered, waits |-> TRUE,
                                seen |-> known.seen, idle |-> known.idle]}
LatestFence == mirror.rev  \* mutant
\* The fence of a save; an unfenced form writes against what the mirror shows.
Fence == IF form.fence = 0 THEN mirror.rev ELSE form.fence
Save ==
    /\ ~form.saving /\ ~switch.pending
    /\ Invalid(form.draft) = {} /\ Pending(form.draft, mirror) # {}
    /\ Call("form", [f \in Pending(form.draft, mirror) |->
                        IF form.draft[f] = Base(f) THEN None ELSE form.draft[f]], Fence)
    /\ form' = [form EXCEPT !.saving = TRUE, !.failed = FALSE, !.conflict = FALSE]
    /\ UNCHANGED <<doc, mirror, switch, space, external>>

Waits(z, v, undoing) ==
    [z EXCEPT !.pending = TRUE, !.asked = v, !.prior = z.value, !.undo = IF undoing THEN @ ELSE None,
              !.undoing = undoing, !.before = mirror.rev]
\* toggle, reset and undoLast of the switch; only a reset waits to show the value.
SwitchTo(v, shown, undoing) ==
    /\ ~switch.pending /\ ~form.saving
    /\ Call("switch", [f \in {Inject} |-> IF v = Base(Inject) THEN None ELSE v], mirror.rev)
    /\ switch' = [Waits(switch, v, undoing) EXCEPT !.value = shown]
    /\ UNCHANGED <<doc, mirror, form, space, external>>
Toggle == \E v \in Values : v # switch.value /\ SwitchTo(v, v, FALSE)
Reset == Overridden(mirror, Inject) /\ SwitchTo(Base(Inject), switch.value, FALSE)
UndoSwitch == switch.undo \in Values \ {switch.value} /\ SwitchTo(switch.undo, switch.undo, TRUE)

\* toggle and undoLast of a workspace: always an explicit value.
SpaceTo(v, undoing) ==
    /\ ~space.pending /\ ~form.saving
    /\ Call("space", [f \in {Space} |-> v], mirror.rev)
    /\ space' = [Waits(space, v, undoing) EXCEPT !.prior = Effective(mirror, Space)]
    /\ UNCHANGED <<doc, mirror, form, switch, external>>
ToggleSpace == \E v \in Values : v # Effective(mirror, Space) /\ SpaceTo(v, FALSE)
UndoSpace == space.undo # None /\ SpaceTo(space.undo, TRUE)
\* The undo window closes, or undoLast finds nothing to take back.
UndoExpires ==
    /\ \/ ~switch.undoing /\ switch.undo # None /\ switch' = [switch EXCEPT !.undo = None] /\ UNCHANGED space
       \/ ~space.undoing /\ space.undo # None /\ space' = [space EXCEPT !.undo = None] /\ UNCHANGED switch
    /\ UNCHANGED <<doc, mirror, calls, form, used, external>>

----------------------------------------------------------------------------
(***************************************************************************)
(* The host and the other editor                                           *)
(***************************************************************************)
WriteElsewhere(f, v) ==
    /\ used.external < MaxExternal /\ Spend("external")
    /\ doc' = [rev |-> doc.rev + 1, user |-> [doc.user EXCEPT ![f] = v]]
    /\ external' = [g \in FormFields |-> IF g = f THEN doc.rev + 1 ELSE external[g]]
    /\ UNCHANGED <<mirror, calls, form, switch, space>>

Now(c, d) == calls' = (calls \ {c}) \cup {d}
\* The host takes a write whose fence is the revision it holds.
Land(c) ==
    /\ c.state = "sent" /\ c.fence = doc.rev
    /\ \E u \in Landings(c, doc.user) : doc' = [rev |-> doc.rev + 1, user |-> u]
    /\ Now(c, [c EXCEPT !.state = "landed", !.answer = doc'])
    /\ UNCHANGED <<mirror, form, switch, space, used, external>>
Refuse(c) ==
    /\ c.state = "sent"
    /\ IF c.fence # doc.rev THEN UNCHANGED used ELSE Fault
    /\ Now(c, [c EXCEPT !.state = "refused", !.answer = doc])
    /\ UNCHANGED <<doc, mirror, form, switch, space, external>>

\* The mirror catches up.
Push ==
    /\ mirror # doc
    /\ mirror' = doc
    /\ switch' = SwitchSync(switch, doc) /\ space' = SpaceSync(space, doc)
    /\ UNCHANGED <<doc, calls, form, used, external>>

----------------------------------------------------------------------------
(***************************************************************************)
(* The answer of a write                                                   *)
(***************************************************************************)
\* rebase: a switch moves the fence when its write was the only one since.
Rebased(before, m) ==
    IF form.saving \/ form.draft = CleanForm.draft \/ form.fence \notin {0, before} \/ m.rev # before + 1
    THEN form ELSE [form EXCEPT !.fence = m.rev]

FormSettles(c, ok, m) ==
    LET conflict == m.rev # c.fence
    IN form' = IF ok \/ NothingLeft(form.draft, m) THEN CleanForm
               ELSE [form EXCEPT !.saving = FALSE, !.failed = TRUE, !.conflict = conflict,
                                 !.fence = IF conflict THEN m.rev ELSE @,
                                 !.seen = IF conflict THEN [f \in FormFields |-> m.rev] ELSE @,
                                 !.idle = @ /\ ~conflict]

\* A zone whose write is over.
Closed(z) == [z EXCEPT !.pending = FALSE, !.undoing = FALSE, !.before = 0, !.prior = None]
SwitchSettles(ok, m) ==
    LET z == Closed(switch)
    IN IF ok THEN /\ switch' = [z EXCEPT !.value = z.asked, !.undo = switch.prior]
                  /\ form' = Rebased(switch.before, m)
       ELSE /\ switch' = [z EXCEPT !.value = Effective(m, Inject)]
            /\ UNCHANGED form
\* asked stays what was last accepted: an undo that fails leaves it as it was.
SpaceSettles(ok, m) ==
    LET z == IF ok THEN [Closed(space) EXCEPT !.undo = IF space.undoing THEN None ELSE space.prior]
             ELSE [Closed(space) EXCEPT !.asked = IF space.undoing THEN space.prior ELSE @]
    IN /\ space' = SpaceSync(z, m)
       /\ form' = IF ok THEN Rebased(space.before, m) ELSE form

Settles(c, ok, m) ==
    CASE c.owner = "form" -> FormSettles(c, ok, m) /\ switch' = SwitchSync(switch, m) /\ space' = SpaceSync(space, m)
      [] c.owner = "switch" -> SwitchSettles(ok, m) /\ space' = SpaceSync(space, m)
      [] c.owner = "space" -> SpaceSettles(ok, m) /\ switch' = SwitchSync(switch, m)

Newer(c) == IF c.answer.rev > mirror.rev THEN c.answer ELSE mirror
\* An accepted write is folded, a refused one re-read, before the answer.
Answer(c) ==
    /\ c.state \in {"landed", "refused"}
    /\ mirror' = Newer(c)
    /\ calls' = calls \ {c}
    /\ IF c.waits THEN Settles(c, c.state = "landed" /\ Verified(c, mirror'), mirror')
       ELSE switch' = SwitchSync(switch, mirror') /\ space' = SpaceSync(space, mirror') /\ UNCHANGED form
    /\ UNCHANGED <<doc, used, external>>
\* settleWithin: the page stops waiting; the write may still land.
Deadline(c) ==
    /\ c.waits /\ Fault
    /\ Now(c, [c EXCEPT !.waits = FALSE])
    /\ Settles(c, FALSE, mirror)
    /\ UNCHANGED <<doc, mirror, external>>

SetNext ==
    \/ \E f \in FormFields, v \in Values \cup {"invalid"} : Edit(f, v)
    \/ Discard \/ Save \/ Toggle \/ Reset \/ UndoSwitch \/ ToggleSpace \/ UndoSpace \/ UndoExpires
    \/ \E f \in Fields, v \in Values : WriteElsewhere(f, v)
    \/ \E c \in calls : Land(c) \/ Refuse(c) \/ Answer(c) \/ Deadline(c)
    \/ Push
SetSpec == SetInit /\ [][SetNext]_setVars

----------------------------------------------------------------------------
SettingsTypeOK ==
    /\ mirror.rev \in 1..doc.rev /\ (mirror.rev = doc.rev => mirror = doc)
    /\ Cardinality({c \in calls : c.waits}) <= 1
    /\ form.saving <=> \E c \in calls : c.waits /\ c.owner = "form"
    /\ switch.pending <=> \E c \in calls : c.waits /\ c.owner = "switch"
    /\ space.pending <=> \E c \in calls : c.waits /\ c.owner = "space"
    /\ form.draft \in [FormFields -> Values \cup {None, "invalid"}]
    /\ form.fence \in 0..mirror.rev
    /\ form.conflict => form.failed

Landing(c) == \E d \in calls' : d.id = c.id /\ c.state = "sent" /\ d.state = "landed"
Overwrites(c) ==
    c.owner = "form" /\ \E f \in DOMAIN c.change : external[f] > c.seen[f]

(***************************************************************************)
(* "so a concurrent editor is refused instead of silently overwritten":    *)
(* the same with no exception.                                             *)
(***************************************************************************)
RefusedNotOverwritten == [][\A c \in calls : Landing(c) => ~Overwrites(c)]_setVars

(***************************************************************************)
(* A save never replaces what the other editor wrote to one of its fields  *)
(* after the user last edited it, unless a conflict was shown: through     *)
(* rebases by the switches, deadlines that pass, writes that land late and *)
(* retries.  A draft that was left without a fence is apart.  And one that *)
(* fails, loses its answer or meets a conflict keeps the draft: it goes    *)
(* only when the page knows the document holds it (stage, save, writeOps). *)
(***************************************************************************)
SavesAreHonest ==
    [][\A c \in calls :
          /\ Landing(c) /\ ~c.idle => ~Overwrites(c)
          /\ c.waits /\ c.owner = "form" /\ ~form'.saving =>
               \A f \in DOMAIN c.change :
                  form'.draft[f] = None => Effective(mirror', f) = form.draft[f]]_setVars
=============================================================================
