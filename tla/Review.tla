------------------------------- MODULE Review --------------------------------
(***************************************************************************)
(* What the diff-review panes promise to the agents that ask for reviews   *)
(* (the contract of EditorCapabilities::open_diff_for_review and           *)
(* close_diff_by_tab_name): a review is asked for once, decided once and   *)
(* then closed; whoever asked hears the one decision unless they left      *)
(* first; and a name means the newest review asked for under it, as long   *)
(* as that is undecided.  AgentDiff implements this with a sender and a    *)
(* deregister slot per pane, taken by whichever end comes first.           *)
(***************************************************************************)

CONSTANTS Pane, TabName, NoPane

VARIABLES
    phase,      \* none, asked, decided, closed
    answer,     \* what the one who asked has: unused, waiting, abandoned, or the decision
    named       \* the review each name means

reviewVars == <<phase, answer, named>>

Init ==
    /\ phase = [p \in Pane |-> "none"]
    /\ answer = [p \in Pane |-> "unused"]
    /\ named = [t \in TabName |-> NoPane]

\* A review is asked for, under a name or without one.
Ask(p) ==
    /\ phase[p] = "none"
    /\ phase' = [phase EXCEPT ![p] = "asked"]
    /\ answer' = [answer EXCEPT ![p] = "waiting"]
    /\ \/ UNCHANGED named
       \/ \E t \in TabName : named' = [named EXCEPT ![t] = p]

\* The first event that ends a review decides it: the listener hears of it,
\* and no name means this review any more.
End(p, d, next) ==
    /\ phase[p] = "asked"
    /\ phase' = [phase EXCEPT ![p] = next]
    /\ answer' = IF answer[p] = "waiting" THEN [answer EXCEPT ![p] = d] ELSE answer
    /\ named' = [t \in TabName |-> IF named[t] = p THEN NoPane ELSE named[t]]

\* The user presses a button.
Decide(p) == End(p, "Accept", "decided") \/ End(p, "Reject", "decided")

\* The user closes the tab of an undecided review.
Dismiss(p) == End(p, "Cancelled", "closed")

\* The model closes a review by its name.
CloseByName(t) ==
    /\ named[t] # NoPane
    /\ End(named[t], "ClosedByModel", "decided")

\* The tab of a decided review disappears.
Close(p) ==
    /\ phase[p] = "decided"
    /\ phase' = [phase EXCEPT ![p] = "closed"]
    /\ UNCHANGED <<answer, named>>

\* Whoever asked stops listening; the review goes on.
Leave(p) ==
    /\ answer[p] = "waiting"
    /\ answer' = [answer EXCEPT ![p] = "abandoned"]
    /\ UNCHANGED <<phase, named>>

Next ==
    \/ \E p \in Pane : Ask(p) \/ Decide(p) \/ Dismiss(p) \/ Close(p) \/ Leave(p)
    \/ \E t \in TabName : CloseByName(t)

\* What is decided gets closed.
ReviewFairness == \A p \in Pane : WF_reviewVars(Close(p))

Safe == Init /\ [][Next]_reviewVars

Spec == Safe /\ ReviewFairness
=============================================================================
