--------------------------- MODULE ClaudeConnection ---------------------------
(***************************************************************************)
(* One Claude Code attachment (crates/claude_code_ide): its WebSocket      *)
(* connections (server.rs), the foreground dispatcher they share (mcp.rs), *)
(* the broadcaster of selection notifications (broadcaster.rs), and the    *)
(* diff-review panes, which this protocol opens without a tab_name.        *)
(*                                                                         *)
(* A connection handles one frame at a time: while a request of its client *)
(* is with the dispatcher it neither reads the socket nor writes what is   *)
(* queued for it.  Connections run on background threads, the dispatcher   *)
(* on the foreground thread.                                               *)
(***************************************************************************)
EXTENDS AgentDiff, Sequences

CONSTANTS
    Conn,           \* connections whose handshake succeeds
    Request,        \* the frames clients send
    NoRequest,      \* the dispatcher, or a connection, has none in hand
    Selection,      \* a selection_changed frame of the observer
    Initial,        \* the selection_changed frame pushed after tools/list
    MaxSelection    \* bound: selection changes broadcast by the observer

ASSUME NoRequestAssumption == NoRequest \notin Request
ASSUME FrameAssumption == Selection \notin Request /\ Initial \notin Request
ASSUME MaxSelectionAssumption == MaxSelection \in Nat

VARIABLES
    conn,           \* unopened, loop, awaiting (a reply), or gone
    peer,           \* is the client still at the other end
    inbox,          \* frames of the client that the connection has not read
    awaited,        \* the request a connection waits for
    out,            \* its channel of outgoing frames
    wrote,          \* what has been written to the client
    subscribers,    \* the broadcaster's senders
    method,         \* what kind of frame each request is
    calls,          \* the McpCall channel
    current,        \* the call run_dispatch_loop is dispatching
    step,           \* how far it is: idle, running, review, push
    reply,          \* what the call's oneshot has got
    reviewOf,       \* the pane of an openDiff
    dispatcherUp,   \* the dispatcher task exists
    serverUp,       \* the connection tasks exist
    selections,     \* how many selection changes have been broadcast
    sent            \* ghost: what each client has sent, in order

connVars == <<conn, peer, inbox, awaited, out, wrote, subscribers>>
callVars == <<method, calls, current, step, reply, reviewOf>>
upVars == <<dispatcherUp, serverUp, selections>>
serverVars == <<connVars, callVars, upVars, sent>>
vars == <<diffVars, serverVars>>

\* "quick": a method or tool that does not wait for the user, successful or
\* not.  "initialized": a notification that is dispatched but never answered.
\* "malformed": no JSON, or no method.  "ignored": an unknown notification, a
\* ping, a binary frame.
Method == {"openDiff", "toolsList", "quick", "initialized", "malformed", "ignored"}

\* Mutant: the decision is passed on as it is.
PlainResponse == [d \in Decision |-> d]

\* open_diff_response.
OpenDiffResponse ==
    [d \in Decision |-> IF d = "Accept" THEN "FILE_SAVED"
                        ELSE IF d = "Reject" THEN "DIFF_REJECTED" ELSE "TAB_CLOSED"]

Init ==
    /\ DiffInit
    /\ conn = [c \in Conn |-> "unopened"]
    /\ peer = [c \in Conn |-> FALSE]
    /\ inbox = [c \in Conn |-> <<>>]
    /\ awaited = [c \in Conn |-> NoRequest]
    /\ out = [c \in Conn |-> <<>>]
    /\ wrote = [c \in Conn |-> <<>>]
    /\ subscribers = {}
    /\ method = [r \in Request |-> "unsent"]
    /\ calls = <<>>
    /\ current = NoRequest
    /\ step = "idle"
    /\ reply = [r \in Request |-> "none"]
    /\ reviewOf = [r \in Request |-> NoPane]
    /\ dispatcherUp = TRUE
    /\ serverUp = TRUE
    /\ selections = 0
    /\ sent = [c \in Conn |-> <<>>]

-----------------------------------------------------------------------------
(* The clients. *)

ClientSend(c, r, m) ==
    /\ peer[c]
    /\ method[r] = "unsent"
    /\ method' = [method EXCEPT ![r] = m]
    /\ inbox' = [inbox EXCEPT ![c] = Append(@, r)]
    /\ sent' = [sent EXCEPT ![c] = Append(@, r)]
    /\ UNCHANGED <<diffVars, conn, peer, awaited, out, wrote, subscribers>>
    /\ UNCHANGED <<calls, current, step, reply, reviewOf, upVars>>

ClientGone(c) ==
    /\ peer[c]
    /\ peer' = [peer EXCEPT ![c] = FALSE]
    /\ UNCHANGED <<diffVars, conn, inbox, awaited, out, wrote, subscribers, callVars, upVars, sent>>

-----------------------------------------------------------------------------
(* handle_connection. *)

\* The handshake has succeeded: the connection subscribes and enters its loop.
Subscribe(c) ==
    /\ serverUp
    /\ conn[c] = "unopened"
    /\ conn' = [conn EXCEPT ![c] = "loop"]
    /\ peer' = [peer EXCEPT ![c] = TRUE]
    /\ subscribers' = subscribers \cup {c}
    /\ UNCHANGED <<diffVars, inbox, awaited, out, wrote, callVars, upVars, sent>>

\* The first branch of select_biased: write the next outgoing frame.  For a
\* client that is gone the write may fail, which ends the connection.
WriteOutgoing(c) ==
    /\ conn[c] = "loop"
    /\ out[c] # <<>>
    /\ out' = [out EXCEPT ![c] = Tail(@)]
    /\ \/ /\ wrote' = [wrote EXCEPT ![c] = Append(@, Head(out[c]))]
          /\ UNCHANGED conn
       \/ /\ ~peer[c]
          /\ conn' = [conn EXCEPT ![c] = "gone"]
          /\ UNCHANGED wrote
    /\ UNCHANGED <<diffVars, peer, inbox, awaited, subscribers, callVars, upVars, sent>>

\* The second branch is taken when nothing is queued to be written.  (A frame
\* queued between the two polls might as well be queued after the read.)
ReadFrame(c) ==
    /\ conn[c] = "loop"
    /\ out[c] = <<>>
    /\ inbox[c] # <<>>
    /\ inbox' = [inbox EXCEPT ![c] = Tail(@)]

\* A frame without an id is never answered.
Answered(r) == method[r] \notin {"ignored", "initialized"}

\* The frame is answered on the spot, or ignored.
HandleFrameInline(c) ==
    LET r == Head(inbox[c]) IN
    /\ ReadFrame(c)
    /\ \/ method[r] = "malformed"
       \/ method[r] = "ignored"
       \/ ~dispatcherUp
    /\ out' = IF Answered(r) THEN [out EXCEPT ![c] = Append(@, r)] ELSE out
    /\ UNCHANGED <<diffVars, conn, peer, awaited, wrote, subscribers, callVars, upVars, sent>>

\* The frame goes to the dispatcher, and the connection waits for its oneshot.
ForwardFrame(c) ==
    LET r == Head(inbox[c]) IN
    /\ ReadFrame(c)
    /\ method[r] \in {"openDiff", "toolsList", "quick", "initialized"}
    /\ dispatcherUp
    /\ calls' = Append(calls, r)
    /\ conn' = [conn EXCEPT ![c] = "awaiting"]
    /\ awaited' = [awaited EXCEPT ![c] = r]
    /\ UNCHANGED <<diffVars, peer, out, wrote, subscribers>>
    /\ UNCHANGED <<method, current, step, reply, reviewOf, upVars, sent>>

\* Mutant: notifications are answered too.
TakeReplyAlways(c) ==
    LET r == awaited[c] IN
    /\ conn[c] = "awaiting"
    /\ reply[r] # "none" \/ ~dispatcherUp
    /\ conn' = [conn EXCEPT ![c] = "loop"]
    /\ awaited' = [awaited EXCEPT ![c] = NoRequest]
    /\ out' = [out EXCEPT ![c] = Append(@, r)]
    /\ UNCHANGED <<diffVars, peer, inbox, wrote, subscribers, callVars, upVars, sent>>

\* The oneshot has its result, or was dropped with the dispatcher.  The
\* response goes through the connection's own outgoing channel.
TakeReply(c) ==
    LET r == awaited[c] IN
    /\ conn[c] = "awaiting"
    /\ reply[r] # "none" \/ ~dispatcherUp
    /\ conn' = [conn EXCEPT ![c] = "loop"]
    /\ awaited' = [awaited EXCEPT ![c] = NoRequest]
    /\ out' = IF Answered(r) THEN [out EXCEPT ![c] = Append(@, r)] ELSE out
    /\ UNCHANGED <<diffVars, peer, inbox, wrote, subscribers, callVars, upVars, sent>>

\* End of input, a Close frame, a read error, or a Pong that cannot be
\* written: the last two may leave frames unread.
EndConnection(c) ==
    /\ conn[c] = "loop"
    /\ out[c] = <<>>
    /\ ~peer[c]
    /\ conn' = [conn EXCEPT ![c] = "gone"]
    /\ UNCHANGED <<diffVars, peer, inbox, awaited, out, wrote, subscribers, callVars, upVars, sent>>

ConnectionStep(c) ==
    \/ WriteOutgoing(c)
    \/ HandleFrameInline(c)
    \/ ForwardFrame(c)
    \/ TakeReply(c)
    \/ EndConnection(c)

-----------------------------------------------------------------------------
(* The broadcaster. *)

\* broadcast_frame: to every subscriber; the ones whose receiver is gone are
\* pruned on the way.
Broadcast(f) ==
    LET live == {c \in subscribers : conn[c] # "gone"} IN
    /\ subscribers' = live
    /\ out' = [c \in Conn |-> IF c \in live THEN Append(out[c], f) ELSE out[c]]

\* The debounced observer flushes a selection.  Its task is not tied to the
\* attachment and may still fire after it.
SelectionChanged ==
    /\ selections < MaxSelection
    /\ selections' = selections + 1
    /\ Broadcast(Selection)
    /\ UNCHANGED <<diffVars, conn, peer, inbox, awaited, wrote>>
    /\ UNCHANGED <<callVars, dispatcherUp, serverUp, sent>>

-----------------------------------------------------------------------------
(* run_dispatch_loop, one call at a time for all connections. *)

\* Mutant: the loop takes the next call while a review is open.
TakeAnyCall ==
    /\ dispatcherUp
    /\ step \in {"idle", "review"}
    /\ calls # <<>>
    /\ current' = Head(calls)
    /\ calls' = Tail(calls)
    /\ step' = "running"
    /\ UNCHANGED <<diffVars, connVars, method, reply, reviewOf, upVars, sent>>

TakeCall ==
    /\ dispatcherUp
    /\ step = "idle"
    /\ calls # <<>>
    /\ current' = Head(calls)
    /\ calls' = Tail(calls)
    /\ step' = "running"
    /\ UNCHANGED <<diffVars, connVars, method, reply, reviewOf, upVars, sent>>

\* respond_to.send, which the connection may already have given up on.
RespondTo(result, next) ==
    /\ reply' = [reply EXCEPT ![current] = result]
    /\ step' = next
    /\ current' = IF next = "idle" THEN NoRequest ELSE current
    /\ UNCHANGED <<method, calls, reviewOf>>

\* dispatch, for everything that does not wait for the user.  An openDiff ends
\* here when its arguments are wrong, the file cannot be read, or the window is
\* gone.  After tools/list the loop goes on to push the selection.
Dispatch ==
    /\ step = "running"
    /\ RespondTo(IF method[current] = "openDiff" THEN "error" ELSE "result",
                 IF method[current] = "toolsList" THEN "push" ELSE "idle")
    /\ UNCHANGED <<diffVars, connVars, upVars, sent>>

PushInitialSelection ==
    /\ step = "push"
    /\ Broadcast(Initial)
    /\ step' = "idle"
    /\ current' = NoRequest
    /\ UNCHANGED <<diffVars, conn, peer, inbox, awaited, wrote>>
    /\ UNCHANGED <<method, calls, reply, reviewOf, upVars, sent>>

\* The file is read, or does not exist: open_diff_for_review without a name.
OpenDiffForReview(p) ==
    /\ step = "running"
    /\ method[current] = "openDiff"
    /\ SpawnDiffReview(p, NoTab)
    /\ reviewOf' = [reviewOf EXCEPT ![current] = p]
    /\ step' = "review"
    /\ UNCHANGED <<connVars, method, calls, current, reply, upVars, sent>>

\* The decision has arrived.
FinishOpenDiff ==
    /\ step = "review"
    /\ oneshot[reviewOf[current]] \in Decision
    /\ RespondTo(OpenDiffResponse[oneshot[reviewOf[current]]], "idle")
    /\ UNCHANGED <<diffVars, connVars, upVars, sent>>

DispatcherStep ==
    \/ TakeCall
    \/ Dispatch
    \/ PushInitialSelection
    \/ \E p \in Pane : OpenDiffForReview(p)
    \/ FinishOpenDiff

-----------------------------------------------------------------------------
(* The attachment is dropped, field by field: the dispatcher first, the     *)
(* server last.                                                             *)

\* The dispatcher task goes, with the call it is in and the ones queued; the
\* receiver of a pending decision goes with it, the pane stays.
DropDispatcher ==
    /\ dispatcherUp
    /\ dispatcherUp' = FALSE
    /\ calls' = <<>>
    /\ current' = NoRequest
    /\ step' = "idle"
    /\ IF step = "review" /\ oneshot[reviewOf[current]] = "waiting"
       THEN AbandonReview(reviewOf[current]) ELSE UNCHANGED diffVars
    /\ UNCHANGED <<connVars, method, reply, reviewOf, serverUp, selections, sent>>

\* Every connection task is cancelled, and no other will be accepted.
DropServer ==
    /\ ~dispatcherUp
    /\ serverUp
    /\ serverUp' = FALSE
    /\ conn' = [c \in Conn |-> "gone"]
    /\ UNCHANGED <<diffVars, peer, inbox, awaited, out, wrote, subscribers>>
    /\ UNCHANGED <<callVars, dispatcherUp, selections, sent>>

-----------------------------------------------------------------------------

Next ==
    \/ \E c \in Conn, r \in Request, m \in Method : ClientSend(c, r, m)
    \/ \E c \in Conn : ClientGone(c) \/ Subscribe(c) \/ ConnectionStep(c)
    \/ SelectionChanged
    \/ DispatcherStep
    \/ UserStep /\ UNCHANGED serverVars
    \/ DropDispatcher
    \/ DropServer

\* The executors keep polling the connection tasks and the dispatcher, and the
\* workspace handles the CloseItems it is sent.  Nothing makes the user decide,
\* a client send, or the attachment go away.
Fairness ==
    /\ \A c \in Conn : WF_vars(ConnectionStep(c))
    /\ WF_vars(DispatcherStep)
    /\ WF_vars(\E p \in Pane : pane[p] = "closing" /\ DropPane(p) /\ UNCHANGED serverVars)

Spec == Init /\ [][Next]_vars /\ Fairness

-----------------------------------------------------------------------------
(* Properties. *)

Frame == Request \cup {Selection, Initial}

\* Type invariant of the connections, the dispatcher and the panes.
TypeOK ==
    /\ DiffTypeOK
    /\ conn \in [Conn -> {"unopened", "loop", "awaiting", "gone"}]
    /\ peer \in [Conn -> BOOLEAN]
    /\ inbox \in [Conn -> Seq(Request)]
    /\ awaited \in [Conn -> Request \cup {NoRequest}]
    /\ out \in [Conn -> Seq(Frame)]
    /\ wrote \in [Conn -> Seq(Frame)]
    /\ subscribers \subseteq Conn
    /\ method \in [Request -> Method \cup {"unsent"}]
    /\ calls \in Seq(Request)
    /\ current \in Request \cup {NoRequest}
    /\ step \in {"idle", "running", "review", "push"}
    /\ reply \in [Request -> {"none", "result", "error",
                             "FILE_SAVED", "DIFF_REJECTED", "TAB_CLOSED"}]
    /\ reviewOf \in [Request -> Pane \cup {NoPane}]
    /\ dispatcherUp \in BOOLEAN
    /\ serverUp \in BOOLEAN
    /\ selections \in 0..MaxSelection
    /\ sent \in [Conn -> Seq(Request)]

\* A client gets the responses to its own requests, each once and in the order
\* it sent them, with none for a notification and none left out, although every
\* connection's calls pass through one dispatcher, errors are answered on the
\* spot, and the dispatcher may go away in the middle.
RepliesInOrder ==
    \A c \in Conn :
        LET w == wrote[c] \o out[c] IN
        \A i \in DOMAIN w : w[i] \in Request =>
            /\ Answered(w[i])
            /\ \A g \in 1..(i - 1) : w[g] # w[i]
            /\ \E j \in DOMAIN sent[c] :
                  /\ sent[c][j] = w[i]
                  /\ \A h \in 1..(j - 1) : Answered(sent[c][h]) =>
                        \E g \in 1..(i - 1) : w[g] = sent[c][h]

\* What an openDiff is answered is what first happened to its own pane.
ReplyIsFirstEvent ==
    \A r \in Request :
        reply[r] \in {"FILE_SAVED", "DIFF_REJECTED", "TAB_CLOSED"} =>
            /\ reviewOf[r] # NoPane
            /\ verdict[reviewOf[r]] # "none"
            /\ reply[r] = OpenDiffResponse[verdict[reviewOf[r]]]

\* At most one review of the attachment waits for the user, whatever its
\* connections do: while the dispatcher lives, an undecided pane is the one the
\* dispatcher is in, and the connection whose request it is still awaits it.
PendingDiffIsCurrent ==
    dispatcherUp => \A p \in Pane : sender[p] =>
        /\ step = "review"
        /\ reviewOf[current] = p
        /\ \E c \in Conn : conn[c] = "awaiting" /\ awaited[c] = current

-----------------------------------------------------------------------------
(* The inductive invariants behind the safety properties. *)

\* How many of the client's frames the connection has read, and which.
Seen(c) == Len(sent[c]) - Len(inbox[c])

Read(r) == \E c \in Conn : \E i \in 1..Seen(c) : sent[c][i] = r

\* A call that is on its way has its connection waiting for it.
Awaited(r) ==
    /\ reply[r] = "none"
    /\ \E c \in Conn : conn[c] = "awaiting" /\ awaited[c] = r

\* No frame is sent twice, what has not been read is the rest of what was
\* sent, and a connection waits for the last frame that it has read.
SentSound ==
    /\ \A c, d \in Conn : \A i \in DOMAIN sent[c], j \in DOMAIN sent[d] :
          sent[c][i] = sent[d][j] => c = d /\ i = j
    /\ \A c \in Conn :
          /\ \A i \in DOMAIN sent[c] : method[sent[c][i]] # "unsent"
          /\ conn[c] = "unopened" => ~peer[c] /\ sent[c] = <<>>
          /\ Len(inbox[c]) <= Len(sent[c])
          /\ \A i \in DOMAIN inbox[c] : inbox[c][i] = sent[c][Seen(c) + i]
          /\ conn[c] = "awaiting" => Seen(c) >= 1 /\ awaited[c] = sent[c][Seen(c)]

\* The dispatcher and its calls.
CallsSound ==
    /\ step = "idle" <=> current = NoRequest
    /\ ~dispatcherUp => step = "idle" /\ calls = <<>>
    /\ current # NoRequest => Read(current)
    /\ step \in {"running", "review"} => Awaited(current)
    /\ step = "review" => reviewOf[current] # NoPane
    /\ \A r \in Request : reply[r] # "none" => Read(r)
    /\ \A i \in DOMAIN calls : Read(calls[i]) /\ Awaited(calls[i]) /\ calls[i] # current
    /\ \A i, j \in DOMAIN calls : calls[i] = calls[j] => i = j
    /\ dispatcherUp => \A p \in Pane : sender[p] => step = "review" /\ reviewOf[current] = p

Wrote(c, r) == \E g \in DOMAIN wrote[c] : wrote[c][g] = r

\* What has been written to a client is in order.
WroteInOrder(c) ==
    \A i \in DOMAIN wrote[c] : wrote[c][i] \in Request =>
        /\ Answered(wrote[c][i])
        /\ \A g \in 1..(i - 1) : wrote[c][g] # wrote[c][i]
        /\ \E j \in 1..Seen(c) :
              /\ sent[c][j] = wrote[c][i]
              /\ \A h \in 1..(j - 1) : Answered(sent[c][h]) =>
                    \E g \in 1..(i - 1) : wrote[c][g] = sent[c][h]

\* What waits to be written holds at most one response, to the last frame that
\* was read.
QueuedIsLast(c) ==
    \A i \in DOMAIN out[c] : out[c][i] \in Request =>
        /\ conn[c] \in {"loop", "gone"}
        /\ Seen(c) >= 1
        /\ out[c][i] = sent[c][Seen(c)]
        /\ Answered(out[c][i])
        /\ ~Wrote(c, out[c][i])
        /\ \A j \in DOMAIN out[c] : out[c][j] \in Request => j = i

\* Every earlier response has been written, and the one to the last frame too
\* before another is read.
EarlierWritten(c) ==
    /\ \A h \in 1..(Seen(c) - 1) : Answered(sent[c][h]) => Wrote(c, sent[c][h])
    /\ conn[c] = "awaiting" => ~Wrote(c, sent[c][Seen(c)])
    /\ conn[c] = "loop" /\ Seen(c) >= 1 /\ Answered(sent[c][Seen(c)]) =>
          \/ Wrote(c, sent[c][Seen(c)])
          \/ \E i \in DOMAIN out[c] : out[c][i] = sent[c][Seen(c)]

Ordered(c) == WroteInOrder(c) /\ QueuedIsLast(c) /\ EarlierWritten(c)

OrderSound == \A c \in Conn : Ordered(c)

DispatchInv == TypeOK /\ DiffInv /\ SentSound /\ CallsSound /\ ReplyIsFirstEvent
=============================================================================
