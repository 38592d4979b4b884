------------------------ MODULE CopilotToolLoop_proofs ------------------------
(***************************************************************************)
(* What the serial tool loop guarantees for any number of calls, panes and *)
(* tab names.  The argument: a diff that waits for the user belongs to the *)
(* call the loop is suspended in, so whenever the loop is ready to run     *)
(* close_diff no diff is waiting and the registry is empty.                *)
(***************************************************************************)
EXTENDS CopilotToolLoop, AgentDiff_proofs, SequenceTheorems

Assumptions == NoPane \notin Pane /\ NoTab \notin TabName /\ NoCall \notin Call

\* The assumptions on the constants under one name.
LEMMA AssumptionsHold == Assumptions
BY NoPaneAssumption, NoTabAssumption, NoCallAssumption DEF Assumptions

\* The answers the loop gives have the shape TypeOK says.
LEMMA AnswerTypes ==
    LET R == [result : {"none", "SAVED", "REJECTED", "closed",
                        "already_closed", "text", "error"},
              trigger : {"none", "user_accepted", "user_rejected",
                         "tab_closed", "closed_via_tool"}]
    IN /\ NoReply \in R /\ TextResult \in R /\ ErrorResult \in R
       /\ \A b \in BOOLEAN : CloseDiffResponse(b) \in R
       /\ \A d \in Decision : OpenDiffResponse[d] \in R
BY DEF NoReply, TextResult, ErrorResult, CloseDiffResponse, OpenDiffResponse, Answer, Decision

\* The empty attachment.
LEMMA ToolInitHolds == Init => ToolInv
<1> SUFFICES ASSUME Init PROVE ToolInv
    OBVIOUS
<1>1. DiffInv
    BY DiffInitHolds DEF Init
<1>2. TypeOK
    BY <1>1, AnswerTypes DEF Init, TypeOK, DiffInv, Tool
<1>3. ReplyIsFirstEvent /\ PendingDiffIsCurrent /\ NeverClosedByModel
    BY DEF Init, DiffInit, ReplyIsFirstEvent, PendingDiffIsCurrent, NeverClosedByModel,
           NoReply, Answer
<1> QED BY <1>1, <1>2, <1>3 DEF ToolInv, Init

\* When the loop is ready for a call no diff is waiting and the registry is
\* empty.
LEMMA ReadyMeansNothingPending ==
    ASSUME ToolInv, NEW c \in Call, Receive(c)
    PROVE  /\ up
           /\ \A p \in Pane : ~sender[p]
           /\ \A t \in TabName : openDiffs[t] = NoPane
<1>1. up
    BY DEF ToolInv, Receive
<1>2. \A p \in Pane : ~sender[p]
    BY <1>1 DEF ToolInv, PendingDiffIsCurrent, Receive
<1>3. \A t \in TabName : openDiffs[t] = NoPane
    BY <1>2 DEF ToolInv, DiffInv, DiffTypeOK, RegistrySound
<1> QED BY <1>1, <1>2, <1>3

\* A response that is not about a review keeps everything that is claimed of
\* replies.
LEMMA PlainResponse ==
    ASSUME ToolInv, NEW c \in Call, NEW r, UNCHANGED <<verdict, oneshot, reviewOf, tool>>,
           r \in {TextResult, ErrorResult, CloseDiffResponse(FALSE)},
           Respond(c, r)
    PROVE  /\ ReplyIsFirstEvent' /\ NeverClosedByModel'
           /\ \A e \in Call : st'[e] = "unsent" => reply'[e] = NoReply
           /\ st' \in [Call -> {"unsent", "queued", "running", "answered", "lost", "aborted"}]
           /\ reply' \in [Call -> [result : {"none", "SAVED", "REJECTED", "closed",
                                             "already_closed", "text", "error"},
                                   trigger : {"none", "user_accepted", "user_rejected",
                                              "tab_closed", "closed_via_tool"}]]
<1>1. r.result \in {"text", "error", "already_closed"} /\ r.trigger = "none"
    BY DEF TextResult, ErrorResult, CloseDiffResponse, Answer
<1>2. reply' \in [Call -> [result : {"none", "SAVED", "REJECTED", "closed",
                                     "already_closed", "text", "error"},
                           trigger : {"none", "user_accepted", "user_rejected",
                                      "tab_closed", "closed_via_tool"}]]
    BY AnswerTypes DEF Respond, ToolInv, TypeOK
<1>3. st' \in [Call -> {"unsent", "queued", "running", "answered", "lost", "aborted"}]
    BY DEF Respond, ToolInv, TypeOK
<1>4. \A e \in Call : st'[e] = "unsent" => reply'[e] = NoReply
    BY DEF Respond, ToolInv, TypeOK
<1>5. ReplyIsFirstEvent'
    BY <1>1 DEF Respond, ToolInv, TypeOK, ReplyIsFirstEvent
<1>6. NeverClosedByModel'
    BY <1>1 DEF Respond, ToolInv, TypeOK, NeverClosedByModel
<1> QED BY <1>2, <1>3, <1>4, <1>5, <1>6

-----------------------------------------------------------------------------
(* One lemma per action. *)

\* A tools/call that is posted joins the end of the queue.
LEMMA PostKeepsInv ==
    ASSUME ToolInv, NEW c \in Call, NEW name \in Tool, NEW t \in TabName \cup {NoTab},
           HandleToolsCall(c, name, t)
    PROVE  ToolInv'
<1>1. DiffInv'
    BY StutterKeepsDiffInv DEF ToolInv, HandleToolsCall
<1>2. TypeOK'
    BY <1>1 DEF ToolInv, TypeOK, HandleToolsCall, DiffInv
<1>3. ReplyIsFirstEvent'
    BY DEF ToolInv, TypeOK, HandleToolsCall, ReplyIsFirstEvent, diffVars, NoReply, Answer
<1>4. PendingDiffIsCurrent' /\ NeverClosedByModel'
    BY DEF ToolInv, HandleToolsCall, PendingDiffIsCurrent, NeverClosedByModel, diffVars
<1> QED BY <1>1, <1>2, <1>3, <1>4 DEF ToolInv, TypeOK, HandleToolsCall

\* A client that goes away is noticed by nobody before its reply is written.
LEMMA DisconnectKeepsInv ==
    ASSUME ToolInv, NEW c \in Call, Disconnect(c)
    PROVE  ToolInv'
<1>1. DiffInv'
    BY StutterKeepsDiffInv DEF ToolInv, Disconnect
<1>2. TypeOK'
    BY <1>1 DEF ToolInv, TypeOK, Disconnect, DiffInv
<1>3. ReplyIsFirstEvent' /\ PendingDiffIsCurrent' /\ NeverClosedByModel'
    BY DEF ToolInv, Disconnect, ReplyIsFirstEvent, PendingDiffIsCurrent,
           NeverClosedByModel, diffVars
<1> QED BY <1>1, <1>2, <1>3 DEF ToolInv, Disconnect

\* The calls the loop answers at once: a quick tool, a rejected open_diff, and
\* close_diff, which finds nothing to close.
LEMMA ImmediateKeepsInv ==
    ASSUME ToolInv, NEW c \in Call,
           RunQuickTool(c) \/ RejectOpenDiff(c) \/ RunCloseDiff(c)
    PROVE  ToolInv'
<1> USE AssumptionsHold DEF Assumptions
<1>1. Receive(c)
    BY DEF RunQuickTool, RejectOpenDiff, RunCloseDiff
<1>2. up /\ (\A p \in Pane : ~sender[p]) /\ (\A t \in TabName : openDiffs[t] = NoPane)
    BY <1>1, ReadyMeansNothingPending
<1>3. /\ UNCHANGED diffVars
      /\ UNCHANGED <<current, reviewOf>>
      /\ Respond(c, TextResult) \/ Respond(c, ErrorResult) \/ Respond(c, CloseDiffResponse(FALSE))
    <2>1. tabArg[c] \in TabName \cup {NoTab}
        BY DEF ToolInv, TypeOK
    <2>2. CASE RunCloseDiff(c)
        BY <1>2, <2>1, <2>2 DEF RunCloseDiff
    <2>3. CASE RunQuickTool(c) \/ RejectOpenDiff(c)
        BY <2>3 DEF RunQuickTool, RejectOpenDiff
    <2> QED BY <2>2, <2>3
<1>4. UNCHANGED <<up, tool, tabArg, peer>> /\ queue' = Tail(queue) /\ queue # <<>> /\ current = NoCall
    BY <1>1 DEF Receive
<1>5. /\ ReplyIsFirstEvent' /\ NeverClosedByModel'
      /\ \A e \in Call : st'[e] = "unsent" => reply'[e] = NoReply
      /\ st' \in [Call -> {"unsent", "queued", "running", "answered", "lost", "aborted"}]
      /\ reply' \in [Call -> [result : {"none", "SAVED", "REJECTED", "closed",
                                        "already_closed", "text", "error"},
                              trigger : {"none", "user_accepted", "user_rejected",
                                         "tab_closed", "closed_via_tool"}]]
    BY <1>3, <1>4, PlainResponse DEF diffVars
<1>6. DiffInv'
    BY <1>3, StutterKeepsDiffInv DEF ToolInv
<1>7. queue' \in Seq(Call)
    BY <1>4 DEF ToolInv, TypeOK
<1>8. TypeOK'
    BY <1>3, <1>4, <1>5, <1>6, <1>7 DEF ToolInv, TypeOK, DiffInv
<1>9. PendingDiffIsCurrent'
    BY <1>2, <1>3 DEF PendingDiffIsCurrent, diffVars
<1> QED BY <1>2, <1>4, <1>5, <1>6, <1>8, <1>9 DEF ToolInv

\* The loop takes up an open_diff and reads the file.
LEMMA StartKeepsInv ==
    ASSUME ToolInv, NEW c \in Call, StartOpenDiff(c)
    PROVE  ToolInv'
<1>1. Receive(c) /\ UNCHANGED diffVars
    BY DEF StartOpenDiff
<1>2. up /\ \A p \in Pane : ~sender[p]
    BY <1>1, ReadyMeansNothingPending
<1>3. DiffInv'
    BY <1>1, StutterKeepsDiffInv DEF ToolInv
<1>4. queue' \in Seq(Call)
    BY <1>1 DEF Receive, ToolInv, TypeOK
<1>5. TypeOK'
    BY <1>1, <1>3, <1>4 DEF ToolInv, TypeOK, StartOpenDiff, Receive, DiffInv
<1>6. PendingDiffIsCurrent'
    BY <1>1, <1>2 DEF PendingDiffIsCurrent, diffVars
<1>7. ReplyIsFirstEvent' /\ NeverClosedByModel'
    BY <1>1 DEF ToolInv, StartOpenDiff, Receive, ReplyIsFirstEvent, NeverClosedByModel, diffVars
<1> QED BY <1>1, <1>2, <1>3, <1>5, <1>6, <1>7 DEF ToolInv, TypeOK, StartOpenDiff, Receive

\* The file has been read: the pane of the current call opens.
LEMMA OpenKeepsInv ==
    ASSUME ToolInv, NEW p \in Pane, OpenDiffForReview(p)
    PROVE  ToolInv'
<1> USE AssumptionsHold DEF Assumptions
<1>1. current \in Call /\ reviewOf[current] = NoPane /\ tabArg[current] \in TabName \cup {NoTab}
    BY DEF ToolInv, TypeOK, OpenDiffForReview, ReadingFile
<1>2. SpawnDiffReview(p, tabArg[current])
    BY DEF OpenDiffForReview
<1>3. DiffInv'
    BY <1>1, <1>2, SpawnKeepsDiffInv DEF ToolInv
<1>4. TypeOK'
    BY <1>1, <1>3 DEF ToolInv, TypeOK, OpenDiffForReview, DiffInv
<1>5. up /\ \A q \in Pane : ~sender[q]
    BY <1>1 DEF ToolInv, PendingDiffIsCurrent
<1>6. PendingDiffIsCurrent'
    BY <1>1, <1>2, <1>5 DEF PendingDiffIsCurrent, OpenDiffForReview, SpawnDiffReview,
                            ToolInv, TypeOK, DiffTypeOK
<1>7. ReplyIsFirstEvent'
    BY <1>1, <1>2 DEF ToolInv, TypeOK, ReplyIsFirstEvent, OpenDiffForReview, SpawnDiffReview
<1>8. NeverClosedByModel'
    BY <1>2 DEF ToolInv, TypeOK, DiffTypeOK, NeverClosedByModel, OpenDiffForReview, SpawnDiffReview
<1> QED BY <1>3, <1>4, <1>5, <1>6, <1>7, <1>8 DEF ToolInv, OpenDiffForReview

\* The file cannot be read: the call is answered and no pane opens.
LEMMA FailKeepsInv ==
    ASSUME ToolInv, FailOpenDiff
    PROVE  ToolInv'
<1> USE AssumptionsHold DEF Assumptions
<1>1. current \in Call /\ reviewOf[current] = NoPane
    BY DEF ToolInv, TypeOK, FailOpenDiff, ReadingFile
<1>2. UNCHANGED diffVars /\ UNCHANGED <<up, queue, tool, tabArg, peer, reviewOf>>
      /\ Respond(current, ErrorResult) /\ current' = NoCall
    BY DEF FailOpenDiff
<1>3. /\ ReplyIsFirstEvent' /\ NeverClosedByModel'
      /\ \A e \in Call : st'[e] = "unsent" => reply'[e] = NoReply
      /\ st' \in [Call -> {"unsent", "queued", "running", "answered", "lost", "aborted"}]
      /\ reply' \in [Call -> [result : {"none", "SAVED", "REJECTED", "closed",
                                        "already_closed", "text", "error"},
                              trigger : {"none", "user_accepted", "user_rejected",
                                         "tab_closed", "closed_via_tool"}]]
    BY <1>1, <1>2, PlainResponse DEF diffVars
<1>4. DiffInv'
    BY <1>2, StutterKeepsDiffInv DEF ToolInv
<1>5. TypeOK'
    BY <1>2, <1>3, <1>4 DEF ToolInv, TypeOK, DiffInv
<1>6. PendingDiffIsCurrent'
    BY <1>1, <1>2 DEF ToolInv, PendingDiffIsCurrent, diffVars
<1> QED BY <1>2, <1>3, <1>4, <1>5, <1>6 DEF ToolInv

\* The decision reaches the reply: it is the pane's first event, and it is
\* not ClosedByModel.
LEMMA FinishKeepsInv ==
    ASSUME ToolInv, FinishOpenDiff
    PROVE  ToolInv'
<1> USE AssumptionsHold DEF Assumptions
<1> DEFINE p == reviewOf[current]
<1>1. current \in Call /\ p \in Pane /\ oneshot[p] \in Decision
    BY DEF ToolInv, TypeOK, FinishOpenDiff
<1>2. oneshot[p] = verdict[p] /\ oneshot[p] # "ClosedByModel"
    BY <1>1 DEF ToolInv, DiffInv, DecisionIsFirstEvent, NeverClosedByModel
<1>3. /\ UNCHANGED diffVars /\ UNCHANGED <<up, queue, tool, tabArg, peer, reviewOf>>
      /\ reply' = [reply EXCEPT ![current] = OpenDiffResponse[oneshot[p]]]
      /\ st' = [st EXCEPT ![current] = IF peer[current] THEN "answered" ELSE "lost"]
      /\ current' = NoCall
    BY DEF FinishOpenDiff, Respond
<1>4. DiffInv'
    BY <1>3, StutterKeepsDiffInv DEF ToolInv
<1>5. TypeOK'
    BY <1>1, <1>3, <1>4, AnswerTypes DEF ToolInv, TypeOK, DiffInv
<1>6. ReplyIsFirstEvent'
    BY <1>1, <1>2, <1>3 DEF ToolInv, TypeOK, ReplyIsFirstEvent, diffVars, Decision
<1>7. OpenDiffResponse[oneshot[p]].result # "closed"
      /\ OpenDiffResponse[oneshot[p]].trigger # "closed_via_tool"
    BY <1>1, <1>2 DEF OpenDiffResponse, Decision, Answer
<1>8. NeverClosedByModel'
    BY <1>1, <1>3, <1>7 DEF ToolInv, TypeOK, NeverClosedByModel, diffVars
<1>9. \A q \in Pane : ~sender[q] \/ ~up
    BY <1>1 DEF ToolInv, PendingDiffIsCurrent, Decision
<1>10. PendingDiffIsCurrent'
    BY <1>3, <1>9 DEF PendingDiffIsCurrent, diffVars
<1>11. \A e \in Call : st'[e] = "unsent" => reply'[e] = NoReply
    BY <1>1, <1>3 DEF ToolInv, TypeOK
<1> QED BY <1>3, <1>4, <1>5, <1>6, <1>8, <1>10, <1>11 DEF ToolInv

\* A button or a tab close: at most the pane's own sender goes.
LEMMA UserKeepsInv ==
    ASSUME ToolInv, UserStep, UNCHANGED toolVars
    PROVE  ToolInv'
<1> USE AssumptionsHold DEF Assumptions
<1>1. PICK p \in Pane, d \in {"Accept", "Reject", "Cancelled"} : TakeAndSend(p, d) /\ Judge(p, d)
    BY DEF UserStep, Resolve, DropPane
<1>2. DiffInv'
    BY UserKeepsDiffInv DEF ToolInv
<1>3. TypeOK'
    BY <1>2 DEF ToolInv, TypeOK, toolVars, DiffInv
<1>4. PendingDiffIsCurrent'
    BY <1>1 DEF ToolInv, TypeOK, DiffTypeOK, PendingDiffIsCurrent, TakeAndSend, toolVars
<1>5. ReplyIsFirstEvent'
    BY <1>1 DEF ToolInv, TypeOK, DiffTypeOK, ReplyIsFirstEvent, Judge, toolVars
<1>6. NeverClosedByModel'
    BY <1>1 DEF ToolInv, TypeOK, DiffTypeOK, NeverClosedByModel, TakeAndSend, Judge, toolVars
<1> QED BY <1>2, <1>3, <1>4, <1>5, <1>6 DEF ToolInv, toolVars

\* Teardown cancels the loop and the calls, and the panes stay.
LEMMA DropAttachmentKeepsInv ==
    ASSUME ToolInv, DropAttachment
    PROVE  ToolInv'
<1>1. DiffTypeOK'
    BY DEF ToolInv, TypeOK, DiffTypeOK, DropAttachment
<1>2. RegistrySound' /\ DecisionIsFirstEvent' /\ NoSilentEnd' /\ SlotsConsistent'
    BY DEF ToolInv, DiffInv, DiffTypeOK, DropAttachment, RegistrySound, DecisionIsFirstEvent,
           NoSilentEnd, SlotsConsistent, Decision
<1>3. TypeOK'
    <2>1. st' \in [Call -> {"unsent", "queued", "running", "answered", "lost", "aborted"}]
        BY DEF ToolInv, TypeOK, DropAttachment
    <2>2. current' \in Call \cup {NoCall} /\ up' \in BOOLEAN /\ queue' = <<>>
        BY DEF DropAttachment
    <2>3. queue' \in Seq(Call)
        BY <2>2, EmptySeq
    <2> QED BY <1>1, <2>1, <2>2, <2>3 DEF ToolInv, TypeOK, DropAttachment
<1>4. ReplyIsFirstEvent' /\ PendingDiffIsCurrent'
    BY DEF ToolInv, DropAttachment, ReplyIsFirstEvent, PendingDiffIsCurrent
<1>5. NeverClosedByModel'
    BY DEF ToolInv, DropAttachment, NeverClosedByModel
<1>6. \A c \in Call : st'[c] = "unsent" => reply'[c] = NoReply
    BY DEF ToolInv, DropAttachment
<1> QED BY <1>1, <1>2, <1>3, <1>4, <1>5, <1>6 DEF ToolInv, DiffInv, DropAttachment

-----------------------------------------------------------------------------

\* Every step of the bridge keeps the inductive invariant.
THEOREM ToolInvariance == Spec => []ToolInv
<1>1. ToolInv /\ [Next]_vars => ToolInv'
    <2> SUFFICES ASSUME ToolInv, [Next]_vars
                 PROVE  ToolInv'
        OBVIOUS
    <2>1. ASSUME NEW c \in Call, NEW name \in Tool, NEW t \in TabName \cup {NoTab},
                 HandleToolsCall(c, name, t)
          PROVE  ToolInv'
        BY <2>1, PostKeepsInv
    <2>2. ASSUME NEW c \in Call, Disconnect(c)
          PROVE  ToolInv'
        BY <2>2, DisconnectKeepsInv
    <2>3. CASE RunTool
        BY <2>3, ImmediateKeepsInv, StartKeepsInv, OpenKeepsInv, FailKeepsInv, FinishKeepsInv
        DEF RunTool
    <2>4. CASE UserStep /\ UNCHANGED toolVars
        BY <2>4, UserKeepsInv
    <2>5. CASE DropAttachment
        BY <2>5, DropAttachmentKeepsInv
    <2>6. CASE UNCHANGED vars
        <3>1. DiffInv'
            BY <2>6, StutterKeepsDiffInv DEF ToolInv, vars
        <3> QED BY <2>6, <3>1 DEF ToolInv, TypeOK, ReplyIsFirstEvent, PendingDiffIsCurrent,
                NeverClosedByModel, DiffInv, vars, diffVars, toolVars
    <2> QED BY <2>1, <2>2, <2>3, <2>4, <2>5, <2>6 DEF Next
<1> QED BY <1>1, ToolInitHolds, PTL DEF Spec

\* The variables of the bridge keep their types.
THEOREM ToolTypeCorrect == Spec => []TypeOK
<1>1. ToolInv => TypeOK
    BY DEF ToolInv
<1> QED BY <1>1, ToolInvariance, PTL

\* An agent is told SAVED, REJECTED and why exactly as the first event on its
\* own pane says.
THEOREM RepliesAreFirstEvents == Spec => []ReplyIsFirstEvent
<1>1. ToolInv => ReplyIsFirstEvent
    BY DEF ToolInv
<1> QED BY <1>1, ToolInvariance, PTL

\* While the attachment lives, at most one diff waits for the user, and the
\* loop is waiting for it.
THEOREM PendingDiffsAreCurrent == Spec => []PendingDiffIsCurrent
<1>1. ToolInv => PendingDiffIsCurrent
    BY DEF ToolInv
<1> QED BY <1>1, ToolInvariance, PTL

\* Behind this loop, ClosedByModel is unreachable: close_diff never closes a
\* pending diff, for any number of clients.
THEOREM ModelNeverCloses == Spec => []NeverClosedByModel
<1>1. ToolInv => NeverClosedByModel
    BY DEF ToolInv
<1> QED BY <1>1, ToolInvariance, PTL
=============================================================================
