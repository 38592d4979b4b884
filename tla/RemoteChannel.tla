---------------------------- MODULE RemoteChannel ----------------------------
(***************************************************************************)
(* The message channel between the editor and the remote development       *)
(* server (ChannelClient, crates/remote/src/remote_client.rs, at both      *)
(* ends; start_server, crates/remote_server/src/server.rs, between them).  *)
(*                                                                         *)
(* Every message has an id from its sender's counter, is kept in a buffer  *)
(* until the peer acknowledges it, and carries the last id its sender has  *)
(* received.  When the connection is lost the client connects again, asks  *)
(* the server to send its buffer (FlushBufferedMessages) and, on the       *)
(* answer, sends its own.                                                  *)
(*                                                                         *)
(* Losing a connection and replacing it is one step, Reconnect: what an    *)
(* end does in between is what it may also do just before.                 *)
(***************************************************************************)
EXTENDS Naturals, Sequences, FiniteSets

CONSTANTS
    MaxSend,        \* bound: messages each end sends
    MaxReconnect    \* bound: connections lost

ASSUME MaxSendAssumption == MaxSend \in Nat
ASSUME MaxReconnectAssumption == MaxReconnect \in Nat

VARIABLES
    nextId,         \* next_message_id of each end
    buffer,         \* sent and not known to be received, oldest first
    maxReceived,    \* max_received: the id of the last message received
    wire,           \* envelopes an end has sent and the peer not yet received
    resync,         \* the client's resync: idle, waiting for the Ack, or answered
    flushId,        \* the id of the client's last FlushBufferedMessages
    reconnects,     \* how many connections have been replaced
    sent,           \* ghost: ids of the messages each end has sent
    handled         \* ghost: ids each end has received and handled

vars == <<nextId, buffer, maxReceived, wire, resync, flushId, reconnects, sent, handled>>

End == {"client", "server"}

Peer(e) == IF e = "client" THEN "server" ELSE "client"

\* Acks and RemoteStarted carry no ack_id; buffered ids start at 1.
NoAck == 0

Envelope(kind, id, ack) == [kind |-> kind, id |-> id, ack |-> ack, re |-> 0]

\* The Ack that answers the control message with id `re`.
AckEnvelope(id, re) == [kind |-> "ack", id |-> id, ack |-> NoAck, re |-> re]

\* The client has just become Connected: each end has answered RemoteStarted
\* with an Ack (id 0), and the ping (id 1) has been answered (id 1), which
\* acknowledged the ping.
Init ==
    /\ nextId = [e \in End |-> 2]
    /\ buffer = [e \in End |-> IF e = "client" THEN <<>> ELSE <<Envelope("message", 1, 1)>>]
    /\ maxReceived = [e \in End |-> 1]
    /\ wire = [e \in End |-> <<>>]
    /\ resync = "idle"
    /\ flushId = 0
    /\ reconnects = 0
    /\ sent = [e \in End |-> {1}]
    /\ handled = [e \in End |-> {1}]

-----------------------------------------------------------------------------

\* send_buffered, for requests, responses and notifications alike.
Send(e) ==
    LET m == Envelope("message", nextId[e], maxReceived[e]) IN
    /\ Cardinality(sent[e]) <= MaxSend
    /\ nextId' = [nextId EXCEPT ![e] = @ + 1]
    /\ buffer' = [buffer EXCEPT ![e] = Append(@, m)]
    /\ wire' = [wire EXCEPT ![e] = Append(@, m)]
    /\ sent' = [sent EXCEPT ![e] = @ \cup {m.id}]
    /\ UNCHANGED <<maxReceived, resync, flushId, reconnects, handled>>

\* Mutant: one message too many is popped.
DropOneMore(buf, ack) ==
    LET acked == {i \in 1..Len(buf) : \A j \in 1..i : buf[j].id <= ack + 1} IN
    SubSeq(buf, Cardinality(acked) + 1, Len(buf))

\* Messages are popped off the front as long as their id is acknowledged.
DropAcked(buf, ack) ==
    LET acked == {i \in 1..Len(buf) : \A j \in 1..i : buf[j].id <= ack} IN
    SubSeq(buf, Cardinality(acked) + 1, Len(buf))

\* The next envelope is taken off the wire and its ack_id applied.  After the
\* answer to its resync the client takes no other before it has resent.
Incoming(e) == Head(wire[Peer(e)])

TakeIn(e) ==
    /\ wire[Peer(e)] # <<>>
    /\ e = "client" => resync # "answered"
    /\ buffer' = [buffer EXCEPT ![e] = DropAcked(@, Incoming(e).ack)]

\* An ordinary message: noted as received, and handed to its handler.
Receive(e) ==
    /\ TakeIn(e)
    /\ Incoming(e).kind = "message"
    /\ maxReceived' = [maxReceived EXCEPT ![e] = Incoming(e).id]
    /\ handled' = [handled EXCEPT ![e] = @ \cup {Incoming(e).id}]
    /\ wire' = [wire EXCEPT ![Peer(e)] = Tail(@)]
    /\ UNCHANGED <<nextId, resync, flushId, reconnects, sent>>

\* The server answers a control message with `resent` and an Ack; a control
\* message does not count as received.
Answer(kind, resent) ==
    /\ TakeIn("server")
    /\ Incoming("server").kind = kind
    /\ nextId' = [nextId EXCEPT !["server"] = @ + 1]
    /\ wire' = [wire EXCEPT
                  !["client"] = Tail(@),
                  !["server"] = @ \o resent
                                \o <<AckEnvelope(nextId["server"], Incoming("server").id)>>]
    /\ UNCHANGED <<maxReceived, resync, flushId, reconnects, sent, handled>>

AnswerStarted == Answer("started", <<>>)

\* FlushBufferedMessages: everything in the buffer goes out again.
AnswerFlush == Answer("flush", DropAcked(buffer["server"], Incoming("server").ack))

\* An Ack reaches the client.  It counts as received, and may be the answer
\* its resync is waiting for; that of an abandoned resync has no effect.
ReceiveAck ==
    /\ TakeIn("client")
    /\ Incoming("client").kind = "ack"
    /\ maxReceived' = [maxReceived EXCEPT !["client"] = Incoming("client").id]
    /\ resync' = IF resync = "waiting" /\ Incoming("client").re = flushId
                 THEN "answered" ELSE resync
    /\ wire' = [wire EXCEPT !["server"] = Tail(@)]
    /\ UNCHANGED <<nextId, flushId, reconnects, sent, handled>>

\* Mutant: the client does not send its own buffer again.
ResendNothing ==
    /\ resync = "answered"
    /\ resync' = "idle"
    /\ UNCHANGED <<nextId, buffer, maxReceived, wire, flushId, reconnects, sent, handled>>

\* resync goes on: the client sends what is in its buffer again.
Resend ==
    /\ resync = "answered"
    /\ resync' = "idle"
    /\ wire' = [wire EXCEPT !["client"] = @ \o buffer["client"]]
    /\ UNCHANGED <<nextId, buffer, maxReceived, flushId, reconnects, sent, handled>>

\* start_server keeps one outgoing queue for all its connections: what had been
\* written to the old one is gone, the rest goes out on the new one.
Unwritten(written) == SubSeq(wire["server"], written + 1, Len(wire["server"]))

\* Mutant: the client numbers its messages from the start on each connection.
ReconnectRestartsIds ==
    /\ reconnects < MaxReconnect
    /\ reconnects' = reconnects + 1
    /\ \E written \in 0..Len(wire["server"]) :
          wire' = [wire EXCEPT
                     !["client"] = <<Envelope("flush", 0, maxReceived["client"]),
                                     Envelope("started", 0, NoAck)>>,
                     !["server"] = Unwritten(written)]
    /\ flushId' = 0
    /\ nextId' = [nextId EXCEPT !["client"] = 1]
    /\ resync' = "waiting"
    /\ UNCHANGED <<buffer, maxReceived, sent, handled>>

\* The connection is lost and replaced.  All that was on its way to the
\* server is gone.  A resync that had not finished is abandoned, and a new one
\* begins: its request overtakes the RemoteStarted of the new message loop.
Reconnect ==
    /\ reconnects < MaxReconnect
    /\ reconnects' = reconnects + 1
    /\ \E written \in 0..Len(wire["server"]) :
          wire' = [wire EXCEPT
                     !["client"] = <<Envelope("flush", nextId["client"], maxReceived["client"]),
                                     Envelope("started", 0, NoAck)>>,
                     !["server"] = Unwritten(written)]
    /\ flushId' = nextId["client"]
    /\ nextId' = [nextId EXCEPT !["client"] = @ + 1]
    /\ resync' = "waiting"
    /\ UNCHANGED <<buffer, maxReceived, sent, handled>>

Deliver ==
    \/ \E e \in End : Receive(e)
    \/ AnswerStarted
    \/ AnswerFlush
    \/ ReceiveAck
    \/ Resend

Next ==
    \/ \E e \in End : Send(e)
    \/ Deliver
    \/ Reconnect

\* A connection that stays up delivers what is on it.
Fairness == WF_vars(Deliver)

Spec == Init /\ [][Next]_vars /\ Fairness

-----------------------------------------------------------------------------
(* Properties. *)

Ids(s) == {s[i].id : i \in {j \in 1..Len(s) : s[j].kind = "message"}}

EnvelopeType ==
    [kind : {"message", "ack", "started", "flush"}, id : Nat, ack : Nat, re : Nat]

\* Type invariant of the channel.
TypeOK ==
    /\ nextId \in [End -> Nat]
    /\ buffer \in [End -> Seq(EnvelopeType)]
    /\ maxReceived \in [End -> Nat]
    /\ wire \in [End -> Seq(EnvelopeType)]
    /\ resync \in {"idle", "waiting", "answered"}
    /\ flushId \in Nat
    /\ reconnects \in Nat
    /\ sent \in [End -> SUBSET Nat]
    /\ handled \in [End -> SUBSET Nat]

\* No message is lost: until the peer has handled it, a message is in its
\* sender's buffer or on the way.
NothingLost ==
    \A e \in End : sent[e] \subseteq handled[Peer(e)] \cup Ids(buffer[e]) \cup Ids(wire[e])

\* After a lost connection every message is handled all the same: the resync
\* brings over what the connection swallowed, in both directions.  This is
\* claimed of one lost connection only (MaxReconnect = 1): a message that is
\* lost as NothingLost describes when a second one fails is never handled.
EventuallyHandled ==
    \A e \in End, id \in 1..(MaxSend + 2 * MaxReconnect + 1) :
        (id \in sent[e]) ~> (id \in handled[Peer(e)])

-----------------------------------------------------------------------------
(* When nothing is lost, and the inductive invariant behind it. *)

\* The last resync is complete: its answer has arrived, and the server has
\* handled all that the client had sent before it.
Settled ==
    /\ resync # "waiting"
    /\ \A id \in sent["client"] : id < flushId => id \in handled["server"]

Unhandled(e) == sent[e] \ handled[Peer(e)]

\* A message with this id is in the sequence.
Holds(s, id) == \E i \in 1..Len(s) : s[i].kind = "message" /\ s[i].id = id

\* The acknowledgements in the sequence are below the id.
AcksBelow(s, id) == \A i \in 1..Len(s) : s[i].ack < id

\* So is every one that an end has given or will give next.
Above(e, id) == maxReceived[e] < id /\ AcksBelow(wire[e], id) /\ AcksBelow(buffer[e], id)

\* The message is in the sequence, and nothing with a later id before it.
InTurn(s, id) ==
    /\ Holds(s, id)
    /\ \A i \in 1..Len(s) : s[i].id >= id =>
          \E j \in 1..i : s[j].kind = "message" /\ s[j].id = id

\* The message is safe whatever becomes of the connection: it is buffered, on
\* its way and not overtaken, and its receiver has acknowledged less.
Fresh(e, id) == Holds(buffer[e], id) /\ InTurn(wire[e], id) /\ Above(Peer(e), id)

FlushPending == wire["client"] # <<>> /\ wire["client"][1].kind = "flush"

\* Ids come from the counters, those that are acknowledged too.
CountersSound ==
    \A e \in End :
        /\ nextId[e] > 0
        /\ \A id \in sent[e] : 0 < id /\ id < nextId[e]
        /\ maxReceived[e] < nextId[Peer(e)]

EnvelopesSound ==
    \A e \in End :
        /\ \A i \in 1..Len(wire[e]) :
              wire[e][i].id < nextId[e] /\ wire[e][i].ack < nextId[Peer(e)]
        /\ \A i \in 1..Len(buffer[e]) :
              /\ buffer[e][i].kind = "message" /\ buffer[e][i].re = 0
              /\ buffer[e][i].id < nextId[e] /\ buffer[e][i].ack < nextId[Peer(e)]

\* No end has received, holds or acknowledges an id that its sender has not given
\* out: DropAcked takes an acknowledgement at its word, and one that is too
\* high would take the messages still to come out of the peer's buffer.  The
\* counters and max_received outlive the connections, the envelopes do not.
IdsAssigned == CountersSound /\ EnvelopesSound

\* A flush is the first thing the server reads of a new connection.
FlushSound ==
    /\ \A i \in 1..Len(wire["client"]) : wire["client"][i].kind = "flush" =>
          i = 1 /\ resync = "waiting" /\ wire["client"][i].id = flushId
    /\ \A i \in 1..Len(wire["server"]) : wire["server"][i].re < nextId["client"]
    /\ flushId < nextId["client"] /\ flushId \notin sent["client"]
    /\ resync = "waiting" => flushId > 0

IdsSound == IdsAssigned /\ FlushSound

\* The first answer to the flush with this id is the p-th envelope.
AnswerAt(s, flush, p) ==
    /\ s[p].kind = "ack" /\ s[p].re = flush
    /\ \A j \in 1..(p - 1) : s[j].re # flush

\* An answer is there, and up to it the acknowledgements are below the id.
AnswerAbove(s, flush, id) ==
    \E p \in 1..Len(s) : AnswerAt(s, flush, p) /\ \A j \in 1..p : s[j].ack < id

\* The client's messages.  Those sent since the flush are safe; of the older
\* ones, until they are sent again, no acknowledgement that the client may see
\* before the answer is a false one.
ClientSafe(id) ==
    /\ id > flushId => Fresh("client", id)
    /\ id < flushId /\ resync = "idle" => Holds(wire["client"], id)
    /\ id < flushId /\ resync # "idle" => Holds(buffer["client"], id)
    /\ id < flushId /\ FlushPending => Above("server", id)
    /\ id < flushId /\ resync = "waiting" /\ ~FlushPending =>
          AnswerAbove(wire["server"], flushId, id)

ClientSound == \A id \in Unhandled("client") : ClientSafe(id)

\* All that the client has not handled comes before the answer, or is safe.
ServedAt(p) ==
    LET s == wire["server"] IN
    /\ AnswerAt(s, flushId, p)
    /\ Above("client", s[p].id)
    /\ \A j \in 1..(p - 1) : s[j].id < s[p].id
    /\ \A id \in Unhandled("server") :
          \/ \E j \in 1..(p - 1) : s[j].kind = "message" /\ s[j].id = id
          \/ s[p].id < id /\ Fresh("server", id)

\* The server's messages.  Until it has read the flush it buffers what the
\* client has not handled; then those are on the wire before the answer.
ServerSound ==
    /\ FlushPending =>
          /\ \A i \in 1..Len(wire["server"]) : wire["server"][i].re # flushId
          /\ \A id \in Unhandled("server") :
                Holds(buffer["server"], id) /\ wire["client"][1].ack < id
    /\ resync = "waiting" /\ ~FlushPending =>
          \E p \in 1..Len(wire["server"]) : ServedAt(p)
    /\ resync # "waiting" => \A id \in Unhandled("server") : Fresh("server", id)

ChannelInv == TypeOK /\ IdsSound /\ ClientSound /\ ServerSound
=============================================================================
