--------------------------- MODULE CopilotToolLoop ---------------------------
(***************************************************************************)
(* The MCP message layer of one Copilot CLI attachment                     *)
(* (crates/copilot_cli_ide/src/mcp.rs) on top of the diff-review panes.    *)
(*                                                                         *)
(* Every `tools/call` POST of every CLI of the workspace goes through one  *)
(* unbounded channel into one foreground task, run_tool_loop, which takes  *)
(* a call, awaits run_tool and only then takes the next.  `open_diff`      *)
(* suspends twice: for the read of the original file, and for as long as   *)
(* the user has not decided.  The connection that posted a call is parked  *)
(* in handle_post until the reply; it does not watch its socket meanwhile. *)
(***************************************************************************)
EXTENDS AgentDiff, Sequences

CONSTANTS
    Call,       \* the tools/call requests
    NoCall      \* the loop waits for a call

ASSUME NoCallAssumption == NoCall \notin Call

VARIABLES
    up,         \* the attachment (server, dispatcher task) exists
    queue,      \* the ToolCall channel, oldest first
    current,    \* the call run_tool_loop is awaiting, or NoCall
    st,         \* progress of each POST
    tool,       \* the tool it names
    tabArg,     \* its tab_name argument; NoTab when the arguments do not parse
    peer,       \* is its client still connected
    reviewOf,   \* the pane its open_diff opened
    reply       \* the result put into its oneshot

toolVars == <<up, queue, current, st, tool, tabArg, peer, reviewOf, reply>>
vars == <<diffVars, toolVars>>

\* "quick" stands for the tools that answer without suspending on the user:
\* get_vscode_info, get_selection, get_diagnostics, update_session_name, and
\* an unknown name.
Tool == {"open_diff", "close_diff", "quick"}

Answer(result, trigger) == [result |-> result, trigger |-> trigger]

NoReply == Answer("none", "none")

\* Mutant: a closed tab is reported as a result the CLI does not know.
ResponseCancelled ==
    [d \in Decision |->
        Answer(IF d = "Accept" THEN "SAVED"
               ELSE IF d = "Cancelled" THEN "CANCELLED" ELSE "REJECTED", "none")]

\* open_diff_response: what the CLI is told for each decision.
OpenDiffResponse ==
    [d \in Decision |->
        Answer(IF d = "Accept" THEN "SAVED" ELSE "REJECTED",
               IF d = "Accept" THEN "user_accepted"
               ELSE IF d = "Reject" THEN "user_rejected"
               ELSE IF d = "Cancelled" THEN "tab_closed"
               ELSE "closed_via_tool")]

\* `{success: true, already_closed: true | false}` of close_diff.
CloseDiffResponse(closed) ==
    IF closed THEN Answer("closed", "none") ELSE Answer("already_closed", "none")

TextResult == Answer("text", "none")

\* make_text_error, and the -32603 of an `Err` result.
ErrorResult == Answer("error", "none")

Init ==
    /\ DiffInit
    /\ up = TRUE
    /\ queue = <<>>
    /\ current = NoCall
    /\ st = [c \in Call |-> "unsent"]
    /\ tool = [c \in Call |-> "quick"]
    /\ tabArg = [c \in Call |-> NoTab]
    /\ peer = [c \in Call |-> TRUE]
    /\ reviewOf = [c \in Call |-> NoPane]
    /\ reply = [c \in Call |-> NoReply]

-----------------------------------------------------------------------------
(* The connection side. *)

\* handle_tools_call: put the call on the channel and await its oneshot.
HandleToolsCall(c, name, t) ==
    /\ up
    /\ st[c] = "unsent"
    /\ st' = [st EXCEPT ![c] = "queued"]
    /\ tool' = [tool EXCEPT ![c] = name]
    /\ tabArg' = [tabArg EXCEPT ![c] = t]
    /\ queue' = Append(queue, c)
    /\ UNCHANGED <<diffVars, up, current, peer, reviewOf, reply>>

\* The client goes away while its call is queued or running.  Nothing in the
\* server notices before the response is written.
Disconnect(c) ==
    /\ st[c] \in {"queued", "running"}
    /\ peer[c]
    /\ peer' = [peer EXCEPT ![c] = FALSE]
    /\ UNCHANGED <<diffVars, up, queue, current, st, tool, tabArg, reviewOf, reply>>

\* The loop puts `r` into the oneshot and the connection writes the response,
\* to a client that may have gone.
Respond(c, r) ==
    /\ reply' = [reply EXCEPT ![c] = r]
    /\ st' = [st EXCEPT ![c] = IF peer[c] THEN "answered" ELSE "lost"]

-----------------------------------------------------------------------------
(* run_tool_loop, one suspension point to the next. *)

\* Mutant: the loop does not await the running tool before it takes a call.
ReceiveAnyTime(c) ==
    /\ queue # <<>>
    /\ c = Head(queue)
    /\ queue' = Tail(queue)
    /\ UNCHANGED <<up, tool, tabArg, peer>>

\* The next call, when the loop is ready for it.
Receive(c) ==
    /\ current = NoCall
    /\ queue # <<>>
    /\ c = Head(queue)
    /\ queue' = Tail(queue)
    /\ UNCHANGED <<up, tool, tabArg, peer>>

RunQuickTool(c) ==
    /\ Receive(c)
    /\ tool[c] = "quick"
    /\ Respond(c, TextResult)
    /\ UNCHANGED <<diffVars, current, reviewOf>>

\* tool_close_diff, for a name the registry holds or not, or for arguments
\* that do not parse.
RunCloseDiff(c) ==
    LET found == tabArg[c] # NoTab /\ openDiffs[tabArg[c]] # NoPane IN
    /\ Receive(c)
    /\ tool[c] = "close_diff"
    /\ IF found THEN CloseDiffByTabName(tabArg[c]) ELSE UNCHANGED diffVars
    /\ Respond(c, CloseDiffResponse(found))
    /\ UNCHANGED <<current, reviewOf>>

\* tool_open_diff returns before its first await: bad arguments, or a path
\* outside every visible worktree.
RejectOpenDiff(c) ==
    /\ Receive(c)
    /\ tool[c] = "open_diff"
    /\ Respond(c, ErrorResult)
    /\ UNCHANGED <<diffVars, current, reviewOf>>

\* tool_open_diff awaits the read of the original file.
StartOpenDiff(c) ==
    /\ Receive(c)
    /\ tool[c] = "open_diff"
    /\ tabArg[c] # NoTab
    /\ current' = c
    /\ st' = [st EXCEPT ![c] = "running"]
    /\ UNCHANGED <<diffVars, reviewOf, reply>>

ReadingFile == current # NoCall /\ reviewOf[current] = NoPane

\* The file is read (or does not exist) and open_diff_for_review shows it.
OpenDiffForReview(p) ==
    /\ ReadingFile
    /\ SpawnDiffReview(p, tabArg[current])
    /\ reviewOf' = [reviewOf EXCEPT ![current] = p]
    /\ UNCHANGED <<up, queue, current, st, tool, tabArg, peer, reply>>

\* The read failed, or the workspace or its window is gone.
FailOpenDiff ==
    /\ ReadingFile
    /\ Respond(current, ErrorResult)
    /\ current' = NoCall
    /\ UNCHANGED <<diffVars, up, queue, tool, tabArg, peer, reviewOf>>

\* Mutant: only the buttons end the wait, not a closed tab.
FinishOnButton ==
    /\ current # NoCall
    /\ reviewOf[current] # NoPane
    /\ oneshot[reviewOf[current]] \in {"Accept", "Reject"}
    /\ Respond(current, OpenDiffResponse[oneshot[reviewOf[current]]])
    /\ current' = NoCall
    /\ UNCHANGED <<diffVars, up, queue, tool, tabArg, peer, reviewOf>>

\* The decision arrived; the reply is sent and the loop turns around.
FinishOpenDiff ==
    /\ current # NoCall
    /\ reviewOf[current] # NoPane
    /\ oneshot[reviewOf[current]] \in Decision
    /\ Respond(current, OpenDiffResponse[oneshot[reviewOf[current]]])
    /\ current' = NoCall
    /\ UNCHANGED <<diffVars, up, queue, tool, tabArg, peer, reviewOf>>

-----------------------------------------------------------------------------

\* The attachment is dropped: connection tasks and the loop are cancelled,
\* and with the loop the receiver of a pending decision.  Panes stay.
DropAttachment ==
    /\ up
    /\ up' = FALSE
    /\ queue' = <<>>
    /\ current' = NoCall
    /\ st' = [c \in Call |-> IF st[c] \in {"queued", "running"} THEN "aborted" ELSE st[c]]
    /\ oneshot' = [p \in Pane |->
                     IF current # NoCall /\ p = reviewOf[current] /\ oneshot[p] = "waiting"
                     THEN "abandoned" ELSE oneshot[p]]
    /\ UNCHANGED <<pane, sender, deregister, openDiffs, verdict>>
    /\ UNCHANGED <<tool, tabArg, peer, reviewOf, reply>>

RunTool ==
    \/ \E c \in Call :
          RunQuickTool(c) \/ RunCloseDiff(c) \/ RejectOpenDiff(c) \/ StartOpenDiff(c)
    \/ \E p \in Pane : OpenDiffForReview(p)
    \/ FailOpenDiff
    \/ FinishOpenDiff

Next ==
    \/ \E c \in Call, name \in Tool, t \in TabName \cup {NoTab} : HandleToolsCall(c, name, t)
    \/ \E c \in Call : Disconnect(c)
    \/ RunTool
    \/ UserStep /\ UNCHANGED toolVars
    \/ DropAttachment

\* The foreground executor keeps polling the loop, and the workspace handles
\* the CloseItems it is sent.  Nothing makes the user decide.
Fairness ==
    /\ WF_vars(RunTool)
    /\ WF_vars(\E p \in Pane : pane[p] = "closing" /\ DropPane(p) /\ UNCHANGED toolVars)

Spec == Init /\ [][Next]_vars /\ Fairness

-----------------------------------------------------------------------------
(* Properties. *)

\* Type invariant of the tool loop and of the panes under it.
TypeOK ==
    /\ DiffTypeOK
    /\ up \in BOOLEAN
    /\ queue \in Seq(Call)
    /\ current \in Call \cup {NoCall}
    /\ st \in [Call -> {"unsent", "queued", "running", "answered", "lost", "aborted"}]
    /\ tool \in [Call -> Tool]
    /\ tabArg \in [Call -> TabName \cup {NoTab}]
    /\ peer \in [Call -> BOOLEAN]
    /\ reviewOf \in [Call -> Pane \cup {NoPane}]
    /\ reply \in [Call -> [result : {"none", "SAVED", "REJECTED", "closed",
                                     "already_closed", "text", "error"},
                           trigger : {"none", "user_accepted", "user_rejected",
                                      "tab_closed", "closed_via_tool"}]]

\* What the agent is told about a review is what first happened to that very
\* pane: SAVED only if the user accepted before anything else, whatever tab
\* close or second click follows, and whichever call the answer reaches.
ReplyIsFirstEvent ==
    \A c \in Call :
        tool[c] = "open_diff" /\ reply[c].result \in {"SAVED", "REJECTED"} =>
            /\ reviewOf[c] # NoPane
            /\ verdict[reviewOf[c]] # "none"
            /\ reply[c] = OpenDiffResponse[verdict[reviewOf[c]]]

\* While the attachment lives, a diff that waits for the user belongs to the
\* call the loop is running: at most one review is pending per workspace, and
\* its answer has somebody to go to.
PendingDiffIsCurrent ==
    up => \A p \in Pane : sender[p] =>
              current # NoCall /\ reviewOf[current] = p /\ oneshot[p] = "waiting"

\* Part of the inductive invariant, and no promise of the code: the loop is
\* serial, so close_diff never meets a pending diff of its own attachment, no
\* review ends as ClosedByModel, and no close_diff reports that it closed
\* something.  The comments on DiffDecision::ClosedByModel, close_from_model and
\* open_diff_response, and the description of the tool, present just that as
\* what close_diff is for.
NeverClosedByModel ==
    /\ \A p \in Pane : verdict[p] # "ClosedByModel" /\ oneshot[p] # "ClosedByModel"
    /\ \A c \in Call : reply[c].result # "closed" /\ reply[c].trigger # "closed_via_tool"

\* The inductive invariant behind PendingDiffIsCurrent and ReplyIsFirstEvent.
ToolInv ==
    /\ TypeOK /\ DiffInv
    /\ ReplyIsFirstEvent /\ PendingDiffIsCurrent /\ NeverClosedByModel
    /\ ~up => queue = <<>> /\ current = NoCall
    /\ \A c \in Call : st[c] = "unsent" => reply[c] = NoReply

\* If no review is left undecided for ever, every posted call is answered, or
\* ends with the attachment: nothing else can wedge the queue.
AnsweredIfReviewsEnd ==
    (\A p \in Pane : (pane[p] = "open") ~> (pane[p] # "open")) =>
        (\A c \in Call : (st[c] = "queued") ~> (st[c] \in {"answered", "lost", "aborted"}))
=============================================================================
