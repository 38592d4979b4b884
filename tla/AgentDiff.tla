------------------------------ MODULE AgentDiff ------------------------------
(***************************************************************************)
(* The diff-review panes an agent opens in the editor, and the registry    *)
(* `tab_name -> pane` through which the model may close one again.         *)
(* (crates/editor_capabilities: agent_diff_pane.rs, and the two diff       *)
(* methods of WorkspaceEditorCapabilities.)                                *)
(*                                                                         *)
(* All of this code runs on the GPUI foreground thread, so one method is   *)
(* one step.  What interleaves is the order of the methods: the user's     *)
(* Accept and Reject buttons, the workspace closing a tab, and the calls   *)
(* of the protocol connectors.                                             *)
(***************************************************************************)
EXTENDS Naturals, FiniteSets

CONSTANTS
    Pane,       \* identities (EntityIds) of the AgentDiffPanes ever created
    TabName,    \* the protocol-side names of diffs
    NoPane,     \* no registry entry
    NoTab       \* `tab_name: None`, and an empty deregister slot

ASSUME NoPaneAssumption == NoPane \notin Pane
ASSUME NoTabAssumption == NoTab \notin TabName

VARIABLES
    pane,       \* where the entity is in its life
    sender,     \* DecisionSlot: does it still hold the oneshot sender
    deregister, \* DeregisterSlot: the tab_name of the armed request, or NoTab
    openDiffs,  \* OpenDiffRegistry
    oneshot,    \* what the receiver of the decision has or had
    verdict     \* ghost: the first event that ended the review of the pane

diffVars == <<pane, sender, deregister, openDiffs, oneshot, verdict>>

Decision == {"Accept", "Reject", "Cancelled", "ClosedByModel"}

OnScreen == {"open", "closing"}

DiffInit ==
    /\ pane = [p \in Pane |-> "unused"]
    /\ sender = [p \in Pane |-> FALSE]
    /\ deregister = [p \in Pane |-> NoTab]
    /\ openDiffs = [t \in TabName |-> NoPane]
    /\ oneshot = [p \in Pane |-> "unused"]
    /\ verdict = [p \in Pane |-> "none"]

-----------------------------------------------------------------------------
(* Helpers shared by every way a review can end. *)

\* Mutant: the sender is taken and dropped unsent.
TakeAndForget(p, d) ==
    /\ sender' = [sender EXCEPT ![p] = FALSE]
    /\ UNCHANGED oneshot

\* Take the sender out of its slot and send `d`; a send to a receiver that
\* has gone away, or an empty slot, is a no-op.
TakeAndSend(p, d) ==
    /\ sender' = [sender EXCEPT ![p] = FALSE]
    /\ oneshot' = IF sender[p] /\ oneshot[p] = "waiting"
                  THEN [oneshot EXCEPT ![p] = d] ELSE oneshot

\* Mutant: the entry goes whoever owns it.
RemoveByName(p, reg) == [t \in TabName |-> IF t = deregister[p] THEN NoPane ELSE reg[t]]

\* The registry without the entry a deregister request of pane p names, if
\* that entry is still p's own.
RemoveIfEntityMatches(p, reg) ==
    [t \in TabName |-> IF t = deregister[p] /\ reg[t] = p THEN NoPane ELSE reg[t]]

Judge(p, d) ==
    verdict' = IF verdict[p] = "none" THEN [verdict EXCEPT ![p] = d] ELSE verdict

-----------------------------------------------------------------------------
(* The operations. *)

\* Mutant: a diff without a tab_name is registered too.
SpawnRegistersUnnamed(p, t) ==
    /\ pane[p] = "unused"
    /\ pane' = [pane EXCEPT ![p] = "open"]
    /\ sender' = [sender EXCEPT ![p] = TRUE]
    /\ oneshot' = [oneshot EXCEPT ![p] = "waiting"]
    /\ deregister' = [deregister EXCEPT ![p] = t]
    /\ openDiffs' = [x \in DOMAIN openDiffs \cup {t} |-> IF x = t THEN p ELSE openDiffs[x]]
    /\ UNCHANGED verdict

\* spawn_diff_review, inside the window update: a new pane with its oneshot,
\* registered under its tab_name (last write wins), armed to deregister
\* itself, and only then added to the workspace.
SpawnDiffReview(p, t) ==
    /\ pane[p] = "unused"
    /\ pane' = [pane EXCEPT ![p] = "open"]
    /\ sender' = [sender EXCEPT ![p] = TRUE]
    /\ oneshot' = [oneshot EXCEPT ![p] = "waiting"]
    /\ deregister' = [deregister EXCEPT ![p] = t]
    /\ openDiffs' = IF t \in TabName THEN [openDiffs EXCEPT ![t] = p] ELSE openDiffs
    /\ UNCHANGED verdict

\* Mutant: the button closes the tab first, so the drop guard answers.
ResolveClosesFirst(p, d) ==
    /\ pane[p] \in OnScreen
    /\ TakeAndSend(p, "Cancelled")
    /\ openDiffs' = RemoveIfEntityMatches(p, openDiffs)
    /\ deregister' = [deregister EXCEPT ![p] = NoTab]
    /\ pane' = [pane EXCEPT ![p] = "closing"]
    /\ Judge(p, d)

\* Accept or Reject: take both slots, send, deregister, emit CloseItem.
Resolve(p, d) ==
    /\ pane[p] \in OnScreen
    /\ TakeAndSend(p, d)
    /\ openDiffs' = RemoveIfEntityMatches(p, openDiffs)
    /\ deregister' = [deregister EXCEPT ![p] = NoTab]
    /\ pane' = [pane EXCEPT ![p] = "closing"]
    /\ Judge(p, d)

\* Mutant: close_from_model emits no CloseItem.
CloseLeavesTab(p, reg) ==
    /\ TakeAndSend(p, "ClosedByModel")
    /\ openDiffs' = RemoveIfEntityMatches(p, reg)
    /\ deregister' = [deregister EXCEPT ![p] = NoTab]
    /\ Judge(p, "ClosedByModel")
    /\ UNCHANGED pane

\* close_from_model: as Resolve, with the model's decision.
CloseFromModel(p, reg) ==
    /\ TakeAndSend(p, "ClosedByModel")
    /\ openDiffs' = RemoveIfEntityMatches(p, reg)
    /\ deregister' = [deregister EXCEPT ![p] = NoTab]
    /\ pane' = [pane EXCEPT ![p] = "closing"]
    /\ Judge(p, "ClosedByModel")

\* close_diff_by_tab_name finds a tracked pane: the entry is removed first,
\* then the pane is closed.  The caller is told `true`.
CloseDiffByTabName(t) ==
    /\ openDiffs[t] # NoPane
    /\ CloseFromModel(openDiffs[t], [openDiffs EXCEPT ![t] = NoPane])

\* Mutant: the drop guard cancels but does not deregister.
DropLeavesEntry(p) ==
    /\ pane[p] \in OnScreen
    /\ TakeAndSend(p, "Cancelled")
    /\ pane' = [pane EXCEPT ![p] = "dropped"]
    /\ Judge(p, "Cancelled")
    /\ UNCHANGED <<deregister, openDiffs>>

\* The last strong handle of the pane goes away: the workspace has handled
\* CloseItem, or the user closed the tab.  CancelAndDeregisterOnDrop fires
\* what nobody has taken yet.
DropPane(p) ==
    /\ pane[p] \in OnScreen
    /\ TakeAndSend(p, "Cancelled")
    /\ openDiffs' = RemoveIfEntityMatches(p, openDiffs)
    /\ deregister' = [deregister EXCEPT ![p] = NoTab]
    /\ pane' = [pane EXCEPT ![p] = "dropped"]
    /\ Judge(p, "Cancelled")

\* The task that awaits the decision is dropped (its connector went away).
AbandonReview(p) ==
    /\ oneshot[p] = "waiting"
    /\ oneshot' = [oneshot EXCEPT ![p] = "abandoned"]
    /\ UNCHANGED <<pane, sender, deregister, openDiffs, verdict>>

\* What the user and the workspace do to a pane, whoever opened it.
UserStep ==
    \E p \in Pane :
        \/ Resolve(p, "Accept")
        \/ Resolve(p, "Reject")
        \/ DropPane(p)

-----------------------------------------------------------------------------
(* The component under any caller: several connectors open, close and      *)
(* abandon reviews in any order, with and without a tab_name.              *)

DiffNext ==
    \/ \E p \in Pane, t \in TabName \cup {NoTab} : SpawnDiffReview(p, t)
    \/ UserStep
    \/ \E t \in TabName : CloseDiffByTabName(t)
    \/ \E p \in Pane : AbandonReview(p)

\* The workspace handles the CloseItem it has been sent.
DiffFairness == \A p \in Pane : WF_diffVars(pane[p] = "closing" /\ DropPane(p))

DiffSpec == DiffInit /\ [][DiffNext]_diffVars /\ DiffFairness

-----------------------------------------------------------------------------
(* Properties. *)

\* Type invariant of the panes, their slots and the registry.
DiffTypeOK ==
    /\ pane \in [Pane -> {"unused", "open", "closing", "dropped"}]
    /\ sender \in [Pane -> BOOLEAN]
    /\ deregister \in [Pane -> TabName \cup {NoTab}]
    /\ openDiffs \in [TabName -> Pane \cup {NoPane}]
    /\ oneshot \in [Pane -> {"unused", "waiting", "abandoned"} \cup Decision]
    /\ verdict \in [Pane -> {"none"} \cup Decision]

\* The registry never holds a stale entry: what it maps a tab_name to is a
\* pane on screen, still undecided, and armed to deregister that very name.
\* Every path out of a review (button, model, tab close) has to clean up.
RegistrySound ==
    \A t \in TabName : openDiffs[t] # NoPane =>
        LET p == openDiffs[t] IN
        pane[p] = "open" /\ sender[p] /\ deregister[p] = t

\* The decision the connector receives is the first event that ended the
\* review: closing the tab after Accept never turns it into Cancelled, and a
\* model close that raced the button is reported as whichever came first.
DecisionIsFirstEvent ==
    \A p \in Pane : oneshot[p] \in Decision => oneshot[p] = verdict[p]

\* No review ends in silence: once the sender is gone from its slot, the
\* receiver has a decision or nobody is listening any more ("AgentDiffPane
\* resolved without a decision" is never returned).
NoSilentEnd ==
    \A p \in Pane : pane[p] # "unused" /\ ~sender[p] => oneshot[p] # "waiting"

\* The inductive invariant behind the three above: the panes whose sender is
\* still in its slot are the open ones, and nothing has happened to them yet.
SlotsConsistent ==
    \A p \in Pane :
        /\ pane[p] = "unused" => ~sender[p] /\ oneshot[p] = "unused" /\ verdict[p] = "none"
        /\ sender[p] => pane[p] = "open" /\ verdict[p] = "none"
        /\ pane[p] = "open" => sender[p]

DiffInv ==
    DiffTypeOK /\ RegistrySound /\ DecisionIsFirstEvent /\ NoSilentEnd /\ SlotsConsistent

\* A pane orphaned by a tab_name collision cannot evict the newer entry: an
\* entry changes only when its own review ends in that step, or a new pane
\* takes the name over.
StalePaneCannotEvict ==
    [][\A t \in TabName :
          openDiffs[t] # NoPane /\ openDiffs'[t] # openDiffs[t] =>
             \/ sender[openDiffs[t]] /\ ~sender'[openDiffs[t]]
             \/ openDiffs'[t] # NoPane /\ pane[openDiffs'[t]] = "unused"]_diffVars

\* The refinement mapping to Review: the slots are hidden, and a pane is decided
\* while the workspace has not yet closed its tab.
PhaseOf == [unused |-> "none", open |-> "asked", closing |-> "decided", dropped |-> "closed"]

Reviews == INSTANCE Review WITH
    phase <- [p \in Pane |-> PhaseOf[pane[p]]],
    answer <- oneshot,
    named <- openDiffs

\* The panes and their registry implement the contract of Review: however the
\* buttons, the tab, the model and a leaving connector race, a review is decided
\* once, its name is given up in that very step, and its tab leaves the screen
\* whoever decided it.
ImplementsReview == Reviews!Spec
=============================================================================
