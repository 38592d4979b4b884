---------------------------- MODULE CopilotServer ----------------------------
(***************************************************************************)
(* The Unix-socket HTTP server of a Copilot CLI attachment: one background *)
(* task per connection (transport/server.rs), the SessionStore they share  *)
(* (transport/session.rs) and the broadcasting tasks that push             *)
(* notifications into the attached SSE streams (broadcaster.rs).           *)
(*                                                                         *)
(* The store's methods hold its mutex, so each is one step; everything     *)
(* between two of them interleaves.  A connection that attaches a stream   *)
(* is dedicated to it until it closes, so the channel of a stream is named *)
(* by its connection.                                                      *)
(***************************************************************************)
EXTENDS Naturals, Sequences, FiniteSets

CONSTANTS
    Session,    \* the session ids clients choose
    Conn,       \* connections ever accepted, and the channels of their streams
    Frame,      \* the notifications that the flushes ever broadcast
    NoConn,     \* `sse_sender: None`
    NoSession   \* no session id yet

ASSUME NoConnAssumption == NoConn \notin Conn
ASSUME NoSessionAssumption == NoSession \notin Session

VARIABLES
    live,       \* the session ids in the store
    sseSender,  \* SessionEntry::sse_sender
    pc,         \* where each connection's handler is
    peer,       \* is the client still at the other end of the socket
    sid,        \* the session whose stream the connection carries
    chan,       \* the unbounded channel between store and GET handler
    begun,      \* the frames whose broadcast has collected its senders
    held,       \* <<f, c>>: the broadcast of f holds a clone of c's sender
    owed,       \* ghost: the frames whose broadcast has collected c's sender
    written,    \* ghost: how often each frame has been written to the client
    revoked     \* ghost: streams whose session was deleted after they attached

vars == <<live, sseSender, pc, peer, sid, chan, begun, held, owed, written, revoked>>
frameVars == <<begun, held, owed, written>>

\* The receiver lives in the GET handler, from attach until it returns.
ReceiverAlive(c) == pc[c] \in {"preamble", "streaming", "ended"}

\* Some clone of the channel's sender is left.
SenderAlive(c) ==
    \/ \E s \in Session : sseSender[s] = c
    \/ \E f \in Frame : <<f, c>> \in held

Init ==
    /\ live = {}
    /\ sseSender = [s \in Session |-> NoConn]
    /\ pc = [c \in Conn |-> "unopened"]
    /\ peer = [c \in Conn |-> FALSE]
    /\ sid = [c \in Conn |-> NoSession]
    /\ chan = [c \in Conn |-> <<>>]
    /\ begun = {}
    /\ held = {}
    /\ owed = [c \in Conn |-> {}]
    /\ written = [c \in Conn |-> [f \in Frame |-> 0]]
    /\ revoked = {}

-----------------------------------------------------------------------------
(* The connection loop. *)

\* run_accept_loop takes a new connection.
Accept(c) ==
    /\ pc[c] = "unopened"
    /\ pc' = [pc EXCEPT ![c] = "reading"]
    /\ peer' = [peer EXCEPT ![c] = TRUE]
    /\ UNCHANGED <<live, sseSender, sid, chan, frameVars, revoked>>

\* The client closes its socket, at any moment.
Hangup(c) ==
    /\ peer[c]
    /\ peer' = [peer EXCEPT ![c] = FALSE]
    /\ UNCHANGED <<live, sseSender, pc, sid, chan, frameVars, revoked>>

\* A plain response is written: the loop reads on, or the write fails.
WriteResponse(c) ==
    pc' = [pc EXCEPT ![c] = IF peer[c] THEN "reading" ELSE "closed"]

\* End of input, a request that does not parse, or a wrong nonce.  Requests
\* that are answered without touching the store (404, 405, 406, 415,
\* notifications, tools/list) leave everything as it is.
EndConnection(c) ==
    /\ pc[c] = "reading"
    /\ pc' = [pc EXCEPT ![c] = "closed"]
    /\ UNCHANGED <<live, sseSender, peer, sid, chan, frameVars, revoked>>

\* POST initialize: try_create, or 409 for an id that is in the store.
Initialize(c, s) ==
    /\ pc[c] = "reading"
    /\ live' = live \cup {s}
    /\ sseSender' = IF s \in live THEN sseSender ELSE [sseSender EXCEPT ![s] = NoConn]
    /\ WriteResponse(c)
    /\ UNCHANGED <<peer, sid, chan, frameVars, revoked>>

\* Mutant: the stream of a deleted session stays in the store.
DeleteKeepsSender(c, s) ==
    /\ pc[c] = "reading"
    /\ live' = live \ {s}
    /\ revoked' = revoked \cup {d \in Conn : s \in live /\ sid[d] = s}
    /\ WriteResponse(c)
    /\ UNCHANGED <<sseSender, peer, sid, chan, frameVars>>

\* DELETE: the entry goes, and the store's sender with it; 200 or 404.
Delete(c, s) ==
    /\ pc[c] = "reading"
    /\ live' = live \ {s}
    /\ sseSender' = [sseSender EXCEPT ![s] = NoConn]
    /\ revoked' = revoked \cup {d \in Conn : s \in live /\ sid[d] = s}
    /\ WriteResponse(c)
    /\ UNCHANGED <<peer, sid, chan, frameVars>>

\* Mutant: a sender whose receiver is gone still counts as a stream.
CanAttachIfEmpty(s) == s \in live /\ sseSender[s] = NoConn

\* The check of try_attach_sse: the session has no stream that still receives.
CanAttach(s) ==
    /\ s \in live
    /\ sseSender[s] # NoConn => ~ReceiverAlive(sseSender[s])

\* GET, refused with 404 or 409.
RefuseStream(c, s) ==
    /\ pc[c] = "reading"
    /\ ~CanAttach(s)
    /\ WriteResponse(c)
    /\ UNCHANGED <<live, sseSender, peer, sid, chan, frameVars, revoked>>

\* GET, attached: a new channel whose sender replaces what the entry held.
AttachSse(c, s) ==
    /\ pc[c] = "reading"
    /\ CanAttach(s)
    /\ sseSender' = [sseSender EXCEPT ![s] = c]
    /\ sid' = [sid EXCEPT ![c] = s]
    /\ pc' = [pc EXCEPT ![c] = "preamble"]
    /\ UNCHANGED <<live, peer, chan, frameVars, revoked>>

\* The preamble is written; if that fails the handler returns at once and
\* leaves the entry with a closed sender.
WritePreamble(c) ==
    /\ pc[c] = "preamble"
    /\ pc' = [pc EXCEPT ![c] = IF peer[c] THEN "streaming" ELSE "closed"]
    /\ UNCHANGED <<live, sseSender, peer, sid, chan, frameVars, revoked>>

\* Mutant: a failed write is ignored.
WriteFrameIgnoresError(c) ==
    /\ pc[c] = "streaming"
    /\ chan[c] # <<>>
    /\ chan' = [chan EXCEPT ![c] = Tail(@)]
    /\ written' = IF peer[c] THEN [written EXCEPT ![c][Head(chan[c])] = @ + 1] ELSE written
    /\ UNCHANGED <<live, sseSender, pc, peer, sid, begun, held, owed, revoked>>

\* The handler takes a frame and writes it; a failed write ends the stream.
\* This is the only place where a client that has gone is noticed.
WriteFrame(c) ==
    /\ pc[c] = "streaming"
    /\ chan[c] # <<>>
    /\ chan' = [chan EXCEPT ![c] = Tail(@)]
    /\ IF peer[c]
       THEN /\ written' = [written EXCEPT ![c][Head(chan[c])] = @ + 1]
            /\ UNCHANGED pc
       ELSE /\ pc' = [pc EXCEPT ![c] = "ended"]
            /\ UNCHANGED written
    /\ UNCHANGED <<live, sseSender, peer, sid, begun, held, owed, revoked>>

\* recv fails: the channel is drained and its last sender is gone.
StreamClosed(c) ==
    /\ pc[c] = "streaming"
    /\ chan[c] = <<>>
    /\ ~SenderAlive(c)
    /\ pc' = [pc EXCEPT ![c] = "ended"]
    /\ UNCHANGED <<live, sseSender, peer, sid, chan, frameVars, revoked>>

\* After the final chunk: detach_sse by session id, whoever's sender the
\* entry holds by now, and the handler returns.
DetachSse(c) ==
    /\ pc[c] = "ended"
    /\ sseSender' = [sseSender EXCEPT ![sid[c]] = NoConn]
    /\ pc' = [pc EXCEPT ![c] = "closed"]
    /\ UNCHANGED <<live, peer, sid, chan, frameVars, revoked>>

-----------------------------------------------------------------------------
(* SessionStore::broadcast.  A flush clears its task slot before it          *)
(* broadcasts, so that the next one of its kind may overlap with it.         *)

\* Mutant: entries without a stream are not filtered out.
CollectEveryEntry(f) ==
    LET streams == {sseSender[s] : s \in live} IN
    /\ f \notin begun
    /\ begun' = begun \cup {f}
    /\ held' = held \cup ({f} \X streams)
    /\ owed' = [c \in Conn |-> IF c \in streams THEN owed[c] \cup {f} ELSE owed[c]]
    /\ UNCHANGED <<live, sseSender, pc, peer, sid, chan, written, revoked>>

\* Under the lock: clone the sender of every entry that has one.
CollectSenders(f) ==
    LET streams == {sseSender[s] : s \in live} \ {NoConn} IN
    /\ f \notin begun
    /\ begun' = begun \cup {f}
    /\ held' = held \cup ({f} \X streams)
    /\ owed' = [c \in Conn |-> IF c \in streams THEN owed[c] \cup {f} ELSE owed[c]]
    /\ UNCHANGED <<live, sseSender, pc, peer, sid, chan, written, revoked>>

\* Mutant: the channel has room for one frame only.
TrySendBounded(f, c) ==
    /\ <<f, c>> \in held
    /\ chan' = IF ReceiverAlive(c) /\ chan[c] = <<>> THEN [chan EXCEPT ![c] = <<f>>] ELSE chan
    /\ held' = held \ {<<f, c>>}
    /\ UNCHANGED <<live, sseSender, pc, peer, sid, begun, owed, written, revoked>>

\* Outside the lock: try_send to one of them, and drop the clone.
TrySend(f, c) ==
    /\ <<f, c>> \in held
    /\ chan' = IF ReceiverAlive(c) THEN [chan EXCEPT ![c] = Append(@, f)] ELSE chan
    /\ held' = held \ {<<f, c>>}
    /\ UNCHANGED <<live, sseSender, pc, peer, sid, begun, owed, written, revoked>>

-----------------------------------------------------------------------------

Request(c) ==
    \/ EndConnection(c)
    \/ \E s \in Session :
          Initialize(c, s) \/ Delete(c, s) \/ RefuseStream(c, s) \/ AttachSse(c, s)

Stream(c) == WritePreamble(c) \/ WriteFrame(c) \/ StreamClosed(c) \/ DetachSse(c)

Next ==
    \/ \E c \in Conn : Accept(c) \/ Hangup(c) \/ Request(c) \/ Stream(c)
    \/ \E f \in Frame : CollectSenders(f)
    \/ \E f \in Frame, c \in Conn : TrySend(f, c)

\* The executor runs every stream handler and every broadcast that has begun;
\* clients and broadcasts come as they like.
Fairness ==
    /\ \A c \in Conn : WF_vars(Stream(c))
    /\ \A f \in Frame : WF_vars(\E c \in Conn : TrySend(f, c))

Spec == Init /\ [][Next]_vars /\ Fairness

-----------------------------------------------------------------------------
(* Properties. *)

\* Type invariant of the server.
TypeOK ==
    /\ live \subseteq Session
    /\ sseSender \in [Session -> Conn \cup {NoConn}]
    /\ pc \in [Conn -> {"unopened", "reading", "preamble", "streaming", "ended", "closed"}]
    /\ peer \in [Conn -> BOOLEAN]
    /\ sid \in [Conn -> Session \cup {NoSession}]
    /\ chan \in [Conn -> Seq(Frame)]
    /\ begun \subseteq Frame
    /\ held \subseteq Frame \X Conn
    /\ owed \in [Conn -> SUBSET Frame]
    /\ written \in [Conn -> [Frame -> Nat]]
    /\ revoked \subseteq Conn

\* A stream that is being served, and whose session has not been deleted.
Attached(c) == ReceiverAlive(c) /\ c \notin revoked

\* A served stream stays the one its session's entry names: an initialize, a
\* GET or the end of another handler does not take it away from its consumer
\* ("must NOT ... tear down any attached SSE stream out from under a legitimate
\* consumer").  detach_sse goes by the session id alone.
ServedStreamKeepsEntry ==
    \A c \in Conn : Attached(c) => sid[c] \in live /\ sseSender[sid[c]] = c

\* What a session's entry names is a stream of that very session, attached
\* since the session was last created; a stream whose session was deleted is
\* never named again, so it gets nothing that is broadcast afterwards.
EntryNamesItsOwnStream ==
    \A s \in Session : sseSender[s] # NoConn =>
        s \in live /\ sid[sseSender[s]] = s /\ sseSender[s] \notin revoked

\* The inductive invariant behind it: a session id is remembered exactly from
\* the attach on.
ServerInv ==
    /\ TypeOK
    /\ EntryNamesItsOwnStream
    /\ \A c \in Conn :
          /\ pc[c] \in {"unopened", "reading"} => sid[c] = NoSession /\ c \notin revoked
          /\ ReceiverAlive(c) => sid[c] \in Session

\* When a stream ends because nobody can send to it any more (a DELETE, a stale
\* detach), its client has got every frame whose broadcast had found the stream
\* attached, once, and no other: whatever attaches, detaches or is deleted while
\* overlapping broadcasts are sending outside the lock, nothing is lost on the
\* way out.
EveryFrameOnce ==
    [][\A c \in Conn : pc[c] = "streaming" /\ pc'[c] = "ended" /\ peer[c] =>
          \A f \in Frame : written[c][f] = IF f \in owed[c] THEN 1 ELSE 0]_vars

InChannel(c, f) == \E i \in DOMAIN chan[c] : chan[c][i] = f

\* The inductive invariant behind EveryFrameOnce: a frame that a stream is owed
\* is in one place, with its broadcast, in the channel or on the wire.
FrameInv ==
    /\ \A f \in Frame, c \in Conn : <<f, c>> \in held \/ f \in owed[c] => f \in begun
    /\ \A c \in Conn : pc[c] \in {"unopened", "reading"} =>
          /\ chan[c] = <<>> /\ owed[c] = {}
          /\ \A f \in Frame : written[c][f] = 0 /\ <<f, c>> \notin held
    /\ \A c \in Conn : pc[c] \in {"preamble", "streaming"} =>
          /\ \A i, j \in DOMAIN chan[c] : chan[c][i] = chan[c][j] => i = j
          /\ \A f \in Frame :
                /\ written[c][f] \in {0, 1}
                /\ f \in owed[c] <=> written[c][f] = 1 \/ InChannel(c, f) \/ <<f, c>> \in held
                /\ InChannel(c, f) => written[c][f] = 0
                /\ <<f, c>> \in held => written[c][f] = 0 /\ ~InChannel(c, f)

\* A stream whose last sender is gone, or that has a frame for a client that
\* is gone, runs to its end: its connection closes.
EndedStreamCloses ==
    \A c \in Conn :
        (pc[c] = "streaming" /\ (~SenderAlive(c) \/ (~peer[c] /\ chan[c] # <<>>)))
            ~> (pc[c] = "closed")

\* A session whose client has hung up is not lost to it: once the handler has
\* the preamble or a frame to write, the session comes to accept another GET,
\* whether or not the handler has detached.
HungUpStreamFreesSession ==
    \A s \in Session, c \in Conn :
        (sseSender[s] = c /\ ~peer[c] /\ (pc[c] = "preamble" \/ chan[c] # <<>>))
            ~> (sseSender[s] # c \/ CanAttach(s))
=============================================================================
