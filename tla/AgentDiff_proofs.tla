--------------------------- MODULE AgentDiff_proofs ---------------------------
(***************************************************************************)
(* The registry and the decision slots of AgentDiff are right for any      *)
(* number of panes and tab names, under any caller.  The lemmas, one per   *)
(* operation, are also the ones the tool loop's proof rests on.            *)
(***************************************************************************)
EXTENDS AgentDiff, TLAPS

\* Opening a pane: the new pane is fresh, so nothing refers to it yet, and
\* last-write-wins only ever points the registry at the newcomer.
LEMMA SpawnKeepsDiffInv ==
    ASSUME DiffInv, NEW p \in Pane, NEW t \in TabName \cup {NoTab}, SpawnDiffReview(p, t)
    PROVE  DiffInv'
<1> USE NoPaneAssumption, NoTabAssumption
<1>1. DiffTypeOK'
    BY DEF DiffInv, DiffTypeOK, SpawnDiffReview
<1>2. RegistrySound'
    BY DEF DiffInv, DiffTypeOK, SpawnDiffReview, RegistrySound, SlotsConsistent
<1>3. DecisionIsFirstEvent' /\ NoSilentEnd' /\ SlotsConsistent'
    BY DEF DiffInv, DiffTypeOK, SpawnDiffReview, DecisionIsFirstEvent, NoSilentEnd,
           SlotsConsistent, Decision
<1> QED BY <1>1, <1>2, <1>3 DEF DiffInv

\* The common part of the three ways a review ends: both slots of p are
\* emptied, the registry loses p's entry and no other.
LEMMA EndKeepsDiffInv ==
    ASSUME DiffInv, NEW p \in Pane, NEW d \in Decision, NEW life \in {"closing", "dropped"},
           pane[p] \in OnScreen,
           TakeAndSend(p, d),
           openDiffs' = RemoveIfEntityMatches(p, openDiffs),
           deregister' = [deregister EXCEPT ![p] = NoTab],
           pane' = [pane EXCEPT ![p] = life],
           Judge(p, d)
    PROVE  DiffInv'
<1> USE NoPaneAssumption, NoTabAssumption
<1>1. DiffTypeOK'
    BY DEF DiffInv, DiffTypeOK, TakeAndSend, RemoveIfEntityMatches, Judge
<1>2. RegistrySound'
    <2> SUFFICES ASSUME NEW t \in TabName, openDiffs'[t] # NoPane
                 PROVE  /\ pane'[openDiffs'[t]] = "open"
                        /\ sender'[openDiffs'[t]]
                        /\ deregister'[openDiffs'[t]] = t
        BY DEF RegistrySound
    <2>1. openDiffs'[t] = openDiffs[t] /\ openDiffs[t] \in Pane
        BY DEF DiffInv, DiffTypeOK, RemoveIfEntityMatches
    <2>2. openDiffs[t] # p
        BY <2>1 DEF DiffInv, RegistrySound, RemoveIfEntityMatches
    <2> QED BY <2>1, <2>2 DEF DiffInv, DiffTypeOK, RegistrySound, TakeAndSend
<1>3. DecisionIsFirstEvent'
    <2> SUFFICES ASSUME NEW q \in Pane, oneshot'[q] \in Decision
                 PROVE  oneshot'[q] = verdict'[q]
        BY DEF DecisionIsFirstEvent
    <2>1. CASE sender[p] /\ oneshot[p] = "waiting" /\ q = p
        BY <2>1 DEF DiffInv, DiffTypeOK, SlotsConsistent, TakeAndSend, Judge
    <2>2. CASE ~(sender[p] /\ oneshot[p] = "waiting" /\ q = p)
        BY <2>2 DEF DiffInv, DiffTypeOK, DecisionIsFirstEvent, TakeAndSend, Judge, Decision
    <2> QED BY <2>1, <2>2
<1>4. NoSilentEnd'
    BY DEF DiffInv, DiffTypeOK, NoSilentEnd, TakeAndSend, Decision, OnScreen
<1>5. SlotsConsistent'
    BY DEF DiffInv, DiffTypeOK, SlotsConsistent, TakeAndSend, Judge, OnScreen
<1> QED BY <1>1, <1>2, <1>3, <1>4, <1>5 DEF DiffInv

\* Accept and Reject.
LEMMA ResolveKeepsDiffInv ==
    ASSUME DiffInv, NEW p \in Pane, NEW d \in {"Accept", "Reject"}, Resolve(p, d)
    PROVE  DiffInv'
<1>1. d \in Decision
    BY DEF Decision
<1> QED BY <1>1, EndKeepsDiffInv DEF Resolve

\* A tab that is closed, decided or not.
LEMMA DropKeepsDiffInv ==
    ASSUME DiffInv, NEW p \in Pane, DropPane(p)
    PROVE  DiffInv'
<1>1. "Cancelled" \in Decision
    BY DEF Decision
<1> QED BY <1>1, EndKeepsDiffInv DEF DropPane

\* A close by the model: what the registry names is open and undecided, and
\* removing the entry eagerly is what the pane's own deregistration would do.
LEMMA CloseKeepsDiffInv ==
    ASSUME DiffInv, NEW t \in TabName, CloseDiffByTabName(t)
    PROVE  DiffInv'
<1> USE NoPaneAssumption, NoTabAssumption
<1> DEFINE p == openDiffs[t]
<1>1. p \in Pane /\ pane[p] = "open" /\ deregister[p] = t
    BY DEF DiffInv, DiffTypeOK, RegistrySound, CloseDiffByTabName, CloseFromModel
<1>2. "ClosedByModel" \in Decision /\ pane[p] \in OnScreen
    BY <1>1 DEF Decision, OnScreen
<1>3. openDiffs' = RemoveIfEntityMatches(p, openDiffs)
    BY <1>1 DEF CloseDiffByTabName, CloseFromModel, RemoveIfEntityMatches, DiffInv, DiffTypeOK
<1>4. /\ TakeAndSend(p, "ClosedByModel")
      /\ deregister' = [deregister EXCEPT ![p] = NoTab]
      /\ pane' = [pane EXCEPT ![p] = "closing"]
      /\ Judge(p, "ClosedByModel")
    BY DEF CloseDiffByTabName, CloseFromModel
<1> HIDE DEF p
<1> QED BY <1>1, <1>2, <1>3, <1>4, EndKeepsDiffInv

\* A connector that stops listening.
LEMMA AbandonKeepsDiffInv ==
    ASSUME DiffInv, NEW p \in Pane, AbandonReview(p)
    PROVE  DiffInv'
<1>1. DiffTypeOK' /\ RegistrySound'
    BY DEF DiffInv, DiffTypeOK, RegistrySound, AbandonReview
<1>2. DecisionIsFirstEvent' /\ NoSilentEnd' /\ SlotsConsistent'
    BY DEF DiffInv, DiffTypeOK, DecisionIsFirstEvent, NoSilentEnd, SlotsConsistent,
           AbandonReview, Decision
<1> QED BY <1>1, <1>2 DEF DiffInv

\* Nothing happens to the panes.
LEMMA StutterKeepsDiffInv ==
    ASSUME DiffInv, UNCHANGED diffVars
    PROVE  DiffInv'
BY DEF DiffInv, DiffTypeOK, RegistrySound, DecisionIsFirstEvent, NoSilentEnd, SlotsConsistent,
       diffVars

\* The empty editor.
LEMMA DiffInitHolds == DiffInit => DiffInv
BY NoPaneAssumption, NoTabAssumption
   DEF DiffInit, DiffInv, DiffTypeOK, RegistrySound, DecisionIsFirstEvent, NoSilentEnd,
       SlotsConsistent, Decision

\* The user's buttons and the workspace closing tabs.
LEMMA UserKeepsDiffInv ==
    ASSUME DiffInv, UserStep
    PROVE  DiffInv'
<1>1. PICK p \in Pane : Resolve(p, "Accept") \/ Resolve(p, "Reject") \/ DropPane(p)
    BY DEF UserStep
<1> QED BY <1>1, ResolveKeepsDiffInv, DropKeepsDiffInv

-----------------------------------------------------------------------------

\* Every step of the component keeps its inductive invariant.
THEOREM DiffInvariance == DiffSpec => []DiffInv
<1>1. DiffInv /\ [DiffNext]_diffVars => DiffInv'
    <2> SUFFICES ASSUME DiffInv, [DiffNext]_diffVars
                 PROVE  DiffInv'
        OBVIOUS
    <2>1. ASSUME NEW p \in Pane, NEW t \in TabName \cup {NoTab}, SpawnDiffReview(p, t)
          PROVE  DiffInv'
        BY <2>1, SpawnKeepsDiffInv
    <2>2. CASE UserStep
        BY <2>2, UserKeepsDiffInv
    <2>3. ASSUME NEW t \in TabName, CloseDiffByTabName(t)
          PROVE  DiffInv'
        BY <2>3, CloseKeepsDiffInv
    <2>4. ASSUME NEW p \in Pane, AbandonReview(p)
          PROVE  DiffInv'
        BY <2>4, AbandonKeepsDiffInv
    <2>5. CASE UNCHANGED diffVars
        BY <2>5, StutterKeepsDiffInv
    <2> QED BY <2>1, <2>2, <2>3, <2>4, <2>5 DEF DiffNext
<1> QED BY <1>1, DiffInitHolds, PTL DEF DiffSpec

\* The registry never holds a stale entry: each entry is an open, undecided
\* pane armed to remove that very entry.
THEOREM RegistryIsSound == DiffSpec => []RegistrySound
<1>1. DiffInv => RegistrySound
    BY DEF DiffInv
<1> QED BY <1>1, DiffInvariance, PTL

\* The decision a connector receives is the first event that ended the review.
THEOREM DecisionIsTheFirstEvent == DiffSpec => []DecisionIsFirstEvent
<1>1. DiffInv => DecisionIsFirstEvent
    BY DEF DiffInv
<1> QED BY <1>1, DiffInvariance, PTL

\* A pane orphaned by a tab_name collision cannot evict the entry of the pane
\* that took its name: an entry changes only when its own review ends in that
\* step, or a fresh pane takes the name over.
THEOREM StalePanesCannotEvict == DiffSpec => StalePaneCannotEvict
<1> DEFINE Kept(t) ==
      openDiffs[t] # NoPane /\ openDiffs'[t] # openDiffs[t] =>
         \/ sender[openDiffs[t]] /\ ~sender'[openDiffs[t]]
         \/ openDiffs'[t] # NoPane /\ pane[openDiffs'[t]] = "unused"
<1>1. ASSUME DiffInv, DiffNext, NEW t \in TabName
      PROVE  Kept(t)
    <2> USE NoPaneAssumption, NoTabAssumption
    <2> SUFFICES ASSUME openDiffs[t] # NoPane, openDiffs'[t] # openDiffs[t]
                 PROVE  \/ sender[openDiffs[t]] /\ ~sender'[openDiffs[t]]
                        \/ openDiffs'[t] # NoPane /\ pane[openDiffs'[t]] = "unused"
        OBVIOUS
    <2>1. openDiffs[t] \in Pane /\ sender[openDiffs[t]]
        BY <1>1 DEF DiffInv, DiffTypeOK, RegistrySound
    <2>2. ASSUME NEW p \in Pane, NEW u \in TabName \cup {NoTab}, SpawnDiffReview(p, u)
          PROVE  openDiffs'[t] # NoPane /\ pane[openDiffs'[t]] = "unused"
        BY <1>1, <2>2 DEF SpawnDiffReview, DiffInv, DiffTypeOK
    <2>3. ASSUME NEW p \in Pane, NEW d, TakeAndSend(p, d),
                 openDiffs' = RemoveIfEntityMatches(p, openDiffs)
          PROVE  ~sender'[openDiffs[t]]
        BY <1>1, <2>1, <2>3 DEF TakeAndSend, RemoveIfEntityMatches, DiffInv, DiffTypeOK
    <2>4. CASE UserStep
        BY <2>1, <2>3, <2>4 DEF UserStep, Resolve, DropPane
    <2>5. ASSUME NEW u \in TabName, CloseDiffByTabName(u)
          PROVE  ~sender'[openDiffs[t]]
        <3>1. openDiffs[u] \in Pane
            BY <1>1, <2>5 DEF CloseDiffByTabName, CloseFromModel, DiffInv, DiffTypeOK
        <3>2. openDiffs[t] = openDiffs[u]
            BY <1>1, <2>5, <3>1 DEF CloseDiffByTabName, CloseFromModel, RemoveIfEntityMatches, DiffInv, DiffTypeOK
        <3> QED BY <1>1, <2>5, <3>1, <3>2 DEF CloseDiffByTabName, CloseFromModel, TakeAndSend, DiffInv, DiffTypeOK
    <2>6. ASSUME NEW p \in Pane, AbandonReview(p)
          PROVE  FALSE
        BY <2>6 DEF AbandonReview
    <2> QED BY <1>1, <2>1, <2>2, <2>4, <2>5, <2>6 DEF DiffNext
<1>2. DiffInv /\ [DiffNext]_diffVars => [\A t \in TabName : Kept(t)]_diffVars
    BY <1>1
<1> QED BY <1>2, DiffInvariance, PTL DEF DiffSpec, StalePaneCannotEvict

\* The type invariant and the absence of silent ends, from the same invariant.
THEOREM DiffTypeCorrect == DiffSpec => []DiffTypeOK
<1>1. DiffInv => DiffTypeOK
    BY DEF DiffInv
<1> QED BY <1>1, DiffInvariance, PTL

\* No review ends in silence: a connector that still listens when the sender
\* leaves its slot has received a decision.
THEOREM NoReviewEndsSilently == DiffSpec => []NoSilentEnd
<1>1. DiffInv => NoSilentEnd
    BY DEF DiffInv
<1> QED BY <1>1, DiffInvariance, PTL

-----------------------------------------------------------------------------
(* AgentDiff implements Review. *)

Phase == [p \in Pane |-> PhaseOf[pane[p]]]

\* What the phases of the panes are.
LEMMA PhaseValues ==
    /\ PhaseOf["unused"] = "none"
    /\ PhaseOf["open"] = "asked"
    /\ PhaseOf["closing"] = "decided"
    /\ PhaseOf["dropped"] = "closed"
BY DEF PhaseOf

\* A pane that changes moves its own phase and no other.
LEMMA PhaseMoves ==
    ASSUME DiffTypeOK, NEW p \in Pane, NEW life \in {"open", "closing", "dropped"},
           pane' = [pane EXCEPT ![p] = life]
    PROVE  Phase' = [Phase EXCEPT ![p] = PhaseOf[life]]
BY DEF Phase, DiffTypeOK

\* The three ways a review ends are one step of Review while it is undecided:
\* every name that meant it is given up, because the only name that can mean
\* it is the one its deregister slot is armed with.
LEMMA EndIsReviewEnd ==
    ASSUME DiffInv, NEW p \in Pane, NEW d \in Decision, NEW life \in {"closing", "dropped"},
           sender[p],
           TakeAndSend(p, d),
           openDiffs' = RemoveIfEntityMatches(p, openDiffs),
           pane' = [pane EXCEPT ![p] = life]
    PROVE  Reviews!End(p, d, PhaseOf[life])
<1> USE NoPaneAssumption, NoTabAssumption
<1>1. pane[p] = "open"
    BY DEF DiffInv, SlotsConsistent
<1>2. Phase[p] = "asked" /\ Phase' = [Phase EXCEPT ![p] = PhaseOf[life]]
    BY <1>1, PhaseValues, PhaseMoves DEF Phase, DiffInv
<1>3. oneshot' = IF oneshot[p] = "waiting" THEN [oneshot EXCEPT ![p] = d] ELSE oneshot
    BY DEF TakeAndSend
<1>4. openDiffs' = [t \in TabName |-> IF openDiffs[t] = p THEN NoPane ELSE openDiffs[t]]
    BY DEF RemoveIfEntityMatches, DiffInv, DiffTypeOK, RegistrySound
<1> QED BY <1>2, <1>3, <1>4 DEF Reviews!End, Phase

\* What happens to a review that is already decided is heard by nobody and
\* touches no name.
LEMMA EndAgainIsQuiet ==
    ASSUME DiffInv, NEW p \in Pane, NEW d \in Decision, ~sender[p],
           TakeAndSend(p, d),
           openDiffs' = RemoveIfEntityMatches(p, openDiffs)
    PROVE  UNCHANGED <<oneshot, openDiffs>>
<1> USE NoPaneAssumption, NoTabAssumption
<1>1. UNCHANGED oneshot
    BY DEF TakeAndSend
<1>2. \A t \in TabName : openDiffs[t] # p
    BY DEF DiffInv, RegistrySound
<1>3. UNCHANGED openDiffs
    BY <1>2 DEF RemoveIfEntityMatches, DiffInv, DiffTypeOK
<1> QED BY <1>1, <1>3

\* The initial states correspond.
LEMMA ReviewInit == DiffInit => Reviews!Init
BY PhaseValues DEF DiffInit, Reviews!Init

\* Opening a pane asks for a review, under its tab_name if it has one.
LEMMA SpawnIsAsk ==
    ASSUME DiffInv, NEW p \in Pane, NEW t \in TabName \cup {NoTab}, SpawnDiffReview(p, t)
    PROVE  Reviews!Ask(p)
<1>1. Phase[p] = "none" /\ Phase' = [Phase EXCEPT ![p] = "asked"]
    BY PhaseValues, PhaseMoves DEF SpawnDiffReview, Phase, DiffInv
<1>2. oneshot' = [oneshot EXCEPT ![p] = "waiting"]
    BY DEF SpawnDiffReview
<1>3. \/ UNCHANGED openDiffs
      \/ \E u \in TabName : openDiffs' = [openDiffs EXCEPT ![u] = p]
    BY DEF SpawnDiffReview
<1> QED BY <1>1, <1>2, <1>3 DEF Reviews!Ask, Phase

\* A button: the decision, or nothing when the review was decided before.
LEMMA ResolveIsDecide ==
    ASSUME DiffInv, NEW p \in Pane, NEW d \in {"Accept", "Reject"}, Resolve(p, d)
    PROVE  Reviews!Decide(p) \/ UNCHANGED Reviews!reviewVars
<1>1. d \in Decision
    BY DEF Decision
<1>2. CASE sender[p]
    <2>1. Reviews!End(p, d, PhaseOf["closing"])
        BY <1>1, <1>2, EndIsReviewEnd DEF Resolve
    <2> QED BY <2>1, PhaseValues DEF Reviews!Decide
<1>3. CASE ~sender[p]
    <2>1. UNCHANGED <<oneshot, openDiffs>>
        BY <1>1, <1>3, EndAgainIsQuiet DEF Resolve
    <2>2. pane[p] = "closing"
        BY <1>3 DEF Resolve, OnScreen, DiffInv, SlotsConsistent
    <2>3. UNCHANGED pane
        BY <2>2 DEF Resolve, DiffInv, DiffTypeOK
    <2> QED BY <2>1, <2>3 DEF Reviews!reviewVars
<1> QED BY <1>2, <1>3

\* A tab that goes away: it dismisses an undecided review, closes a decided one.
LEMMA DropIsDismissOrClose ==
    ASSUME DiffInv, NEW p \in Pane, DropPane(p)
    PROVE  Reviews!Dismiss(p) \/ Reviews!Close(p)
<1>1. "Cancelled" \in Decision
    BY DEF Decision
<1>2. CASE sender[p]
    <2>1. Reviews!End(p, "Cancelled", PhaseOf["dropped"])
        BY <1>1, <1>2, EndIsReviewEnd DEF DropPane
    <2> QED BY <2>1, PhaseValues DEF Reviews!Dismiss
<1>3. CASE ~sender[p]
    <2>1. UNCHANGED <<oneshot, openDiffs>>
        BY <1>1, <1>3, EndAgainIsQuiet DEF DropPane
    <2>2. pane[p] = "closing"
        BY <1>3 DEF DropPane, OnScreen, DiffInv, SlotsConsistent
    <2>3. Phase[p] = "decided" /\ Phase' = [Phase EXCEPT ![p] = "closed"]
        BY <2>2, PhaseValues, PhaseMoves DEF DropPane, Phase, DiffInv
    <2> QED BY <2>1, <2>3 DEF Reviews!Close, Phase
<1> QED BY <1>2, <1>3

\* A close by the model.
LEMMA CloseIsCloseByName ==
    ASSUME DiffInv, NEW t \in TabName, CloseDiffByTabName(t)
    PROVE  Reviews!CloseByName(t)
<1> USE NoPaneAssumption, NoTabAssumption
<1> DEFINE p == openDiffs[t]
<1>1. p \in Pane /\ p # NoPane /\ sender[p] /\ deregister[p] = t
    BY DEF DiffInv, DiffTypeOK, RegistrySound, CloseDiffByTabName
<1>2. openDiffs' = RemoveIfEntityMatches(p, openDiffs)
    BY <1>1 DEF CloseDiffByTabName, CloseFromModel, RemoveIfEntityMatches, DiffInv, DiffTypeOK
<1>3. /\ TakeAndSend(p, "ClosedByModel")
      /\ pane' = [pane EXCEPT ![p] = "closing"]
      /\ "ClosedByModel" \in Decision
    BY DEF CloseDiffByTabName, CloseFromModel, Decision
<1> HIDE DEF p
<1>4. Reviews!End(p, "ClosedByModel", "decided")
    BY <1>1, <1>2, <1>3, EndIsReviewEnd, PhaseValues
<1> QED BY <1>1, <1>4 DEF p, Reviews!CloseByName

\* A connector that stops listening.
LEMMA AbandonIsLeave ==
    ASSUME NEW p \in Pane, AbandonReview(p)
    PROVE  Reviews!Leave(p)
BY DEF AbandonReview, Reviews!Leave

\* The panes implement the contract of Review, for any number of them (its
\* safety part; that what is decided is closed stays with TLC).
THEOREM DiffImplementsReview == DiffSpec => Reviews!Safe
<1>1. DiffInv /\ [DiffNext]_diffVars => [Reviews!Next]_(Reviews!reviewVars)
    <2> SUFFICES ASSUME DiffInv, [DiffNext]_diffVars
                 PROVE  [Reviews!Next]_(Reviews!reviewVars)
        OBVIOUS
    <2>1. ASSUME NEW p \in Pane, NEW t \in TabName \cup {NoTab}, SpawnDiffReview(p, t)
          PROVE  Reviews!Next
        BY <2>1, SpawnIsAsk DEF Reviews!Next
    <2>2. CASE UserStep
        <3>1. PICK p \in Pane : Resolve(p, "Accept") \/ Resolve(p, "Reject") \/ DropPane(p)
            BY <2>2 DEF UserStep
        <3>2. \/ Reviews!Decide(p) \/ UNCHANGED Reviews!reviewVars
              \/ Reviews!Dismiss(p) \/ Reviews!Close(p)
            BY <3>1, ResolveIsDecide, DropIsDismissOrClose
        <3> QED BY <3>2 DEF Reviews!Next
    <2>3. ASSUME NEW t \in TabName, CloseDiffByTabName(t)
          PROVE  Reviews!Next
        BY <2>3, CloseIsCloseByName DEF Reviews!Next
    <2>4. ASSUME NEW p \in Pane, AbandonReview(p)
          PROVE  Reviews!Next
        BY <2>4, AbandonIsLeave DEF Reviews!Next
    <2>5. CASE UNCHANGED diffVars
        BY <2>5 DEF diffVars, Reviews!reviewVars
    <2> QED BY <2>1, <2>2, <2>3, <2>4, <2>5 DEF DiffNext
<1> QED BY <1>1, ReviewInit, DiffInvariance, PTL DEF DiffSpec, Reviews!Safe
=============================================================================
