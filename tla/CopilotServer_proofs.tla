------------------------- MODULE CopilotServer_proofs -------------------------
(***************************************************************************)
(* The bookkeeping of sessions and streams is right for any number of      *)
(* connections, sessions and notifications: an entry names a stream of its *)
(* own session, attached since that was created, and what is broadcast to  *)
(* a stream reaches it once, however the broadcasts overlap with each      *)
(* other and with attaching, detaching and writing (FrameInv: a frame is   *)
(* in one place on its way).                                               *)
(***************************************************************************)
EXTENDS CopilotServer, TLAPS

\* The part of the invariant that is not about types.
Book ==
    /\ EntryNamesItsOwnStream
    /\ \A c \in Conn :
          /\ pc[c] \in {"unopened", "reading"} => sid[c] = NoSession /\ c \notin revoked
          /\ ReceiverAlive(c) => sid[c] \in Session

\* Types and bookkeeping are proved one after the other.
LEMMA ServerInvSplit == ServerInv <=> TypeOK /\ Book
BY DEF ServerInv, Book

\* A server starts without sessions and without connections.
LEMMA ServerInitHolds == Init => ServerInv
BY NoConnAssumption, NoSessionAssumption
   DEF Init, ServerInv, TypeOK, EntryNamesItsOwnStream, ReceiverAlive

\* Types are kept by every step.
LEMMA TypesKept == ServerInv /\ [Next]_vars => TypeOK'
<1> SUFFICES ASSUME ServerInv, [Next]_vars PROVE TypeOK'
    OBVIOUS
<1> USE DEF ServerInv, TypeOK, frameVars
<1>1. ASSUME NEW c \in Conn, Accept(c) \/ Hangup(c) \/ EndConnection(c) \/ WritePreamble(c)
      PROVE  TypeOK'
    BY <1>1 DEF Accept, Hangup, EndConnection, WritePreamble
<1>2. ASSUME NEW c \in Conn, NEW s \in Session,
             Initialize(c, s) \/ Delete(c, s) \/ RefuseStream(c, s) \/ AttachSse(c, s)
      PROVE  TypeOK'
    <2>1. CASE Initialize(c, s)
        BY <2>1 DEF Initialize, WriteResponse
    <2>2. CASE Delete(c, s)
        BY <2>2 DEF Delete, WriteResponse
    <2>3. CASE RefuseStream(c, s)
        BY <2>3 DEF RefuseStream, WriteResponse
    <2>4. CASE AttachSse(c, s)
        BY <2>4 DEF AttachSse
    <2> QED BY <1>2, <2>1, <2>2, <2>3, <2>4
<1>3. ASSUME NEW c \in Conn, WriteFrame(c)
      PROVE  TypeOK'
    <2>1. chan[c] \in Seq(Frame) /\ chan[c] # <<>>
        BY <1>3 DEF WriteFrame
    <2>2. Head(chan[c]) \in Frame /\ Tail(chan[c]) \in Seq(Frame)
        BY <2>1
    <2>3. chan' \in [Conn -> Seq(Frame)]
        BY <1>3, <2>2 DEF WriteFrame
    <2>4. written' \in [Conn -> [Frame -> Nat]]
        <3>1. PICK f \in Frame : f = Head(chan[c])
            BY <2>2
        <3>2. written' = written \/ written' = [written EXCEPT ![c][f] = @ + 1]
            BY <1>3, <3>1 DEF WriteFrame
        <3>3. [written[c] EXCEPT ![f] = @ + 1] \in [Frame -> Nat]
            BY <3>1
        <3> QED BY <3>2, <3>3
    <2> QED BY <1>3, <2>3, <2>4 DEF WriteFrame
<1>4. ASSUME NEW c \in Conn, StreamClosed(c) \/ DetachSse(c)
      PROVE  TypeOK'
    BY <1>4 DEF StreamClosed, DetachSse
<1>5. ASSUME NEW f \in Frame, CollectSenders(f)
      PROVE  TypeOK'
    <2>1. {sseSender[s] : s \in live} \ {NoConn} \subseteq Conn
        OBVIOUS
    <2> QED BY <1>5, <2>1 DEF CollectSenders
<1>6. ASSUME NEW f \in Frame, NEW c \in Conn, TrySend(f, c)
      PROVE  TypeOK'
    <2>1. Append(chan[c], f) \in Seq(Frame)
        OBVIOUS
    <2> QED BY <1>6, <2>1 DEF TrySend
<1>7. CASE UNCHANGED vars
    BY <1>7 DEF vars
<1> QED BY <1>1, <1>2, <1>3, <1>4, <1>5, <1>6, <1>7 DEF Next, Request, Stream

\* Steps that leave the store, the ghost and the stream of every connection
\* as they are, and at most end a handler or advance it within its stream.
LEMMA QuietStepsKeepBook ==
    ASSUME ServerInv, NEW c \in Conn, UNCHANGED <<live, sseSender, sid, revoked>>,
           \/ UNCHANGED pc
           \/ pc[c] = "unopened" /\ pc' = [pc EXCEPT ![c] = "reading"]
           \/ pc[c] = "reading" /\ pc' = [pc EXCEPT ![c] = "reading"]
           \/ pc' = [pc EXCEPT ![c] = "closed"]
           \/ ReceiverAlive(c) /\ pc' = [pc EXCEPT ![c] = "streaming"]
           \/ ReceiverAlive(c) /\ pc' = [pc EXCEPT ![c] = "ended"]
    PROVE  Book'
<1> USE NoConnAssumption, NoSessionAssumption DEF ServerInv, TypeOK, Book, ReceiverAlive
<1>1. EntryNamesItsOwnStream'
    BY DEF EntryNamesItsOwnStream
<1> QED BY <1>1

\* initialize: a new id had no entry, so it named nothing before either.
LEMMA InitializeKeepsBook ==
    ASSUME ServerInv, NEW c \in Conn, NEW s \in Session, Initialize(c, s)
    PROVE  Book'
<1> USE NoConnAssumption, NoSessionAssumption
    DEF ServerInv, TypeOK, Book, ReceiverAlive, Initialize, WriteResponse
<1>1. sseSender' = sseSender
    BY DEF EntryNamesItsOwnStream
<1>2. EntryNamesItsOwnStream'
    BY <1>1 DEF EntryNamesItsOwnStream
<1> QED BY <1>2

\* DELETE: every stream of the session is revoked with its entry.
LEMMA DeleteKeepsBook ==
    ASSUME ServerInv, NEW c \in Conn, NEW s \in Session, Delete(c, s)
    PROVE  Book'
<1> USE NoConnAssumption, NoSessionAssumption
    DEF ServerInv, TypeOK, Book, ReceiverAlive, Delete, WriteResponse
<1>1. EntryNamesItsOwnStream'
    BY DEF EntryNamesItsOwnStream
<1>2. \A d \in Conn : pc'[d] \in {"unopened", "reading"} => sid'[d] = NoSession /\ d \notin revoked'
    OBVIOUS
<1> QED BY <1>1, <1>2

\* A GET that attaches names its own connection.
LEMMA AttachKeepsBook ==
    ASSUME ServerInv, NEW c \in Conn, NEW s \in Session, AttachSse(c, s)
    PROVE  Book'
<1> USE NoConnAssumption, NoSessionAssumption
    DEF ServerInv, TypeOK, Book, ReceiverAlive, AttachSse, CanAttach
<1>1. EntryNamesItsOwnStream'
    BY DEF EntryNamesItsOwnStream
<1> QED BY <1>1

\* A handler that detaches by session id names nothing new.
LEMMA DetachKeepsBook ==
    ASSUME ServerInv, NEW c \in Conn, DetachSse(c)
    PROVE  Book'
<1> USE NoConnAssumption, NoSessionAssumption
    DEF ServerInv, TypeOK, Book, ReceiverAlive, DetachSse
<1>1. EntryNamesItsOwnStream'
    BY DEF EntryNamesItsOwnStream
<1> QED BY <1>1

-----------------------------------------------------------------------------

\* Every step keeps the inductive invariant.
THEOREM ServerInvariance == Spec => []ServerInv
<1>1. ServerInv /\ [Next]_vars => ServerInv'
    <2> SUFFICES ASSUME ServerInv, [Next]_vars PROVE Book'
        BY TypesKept, ServerInvSplit DEF ServerInv, Book
    <2>1. ASSUME NEW c \in Conn, Accept(c) \/ Hangup(c) \/ EndConnection(c)
          PROVE  Book'
        BY <2>1, QuietStepsKeepBook DEF Accept, Hangup, EndConnection
    <2>2. ASSUME NEW c \in Conn, NEW s \in Session, RefuseStream(c, s)
          PROVE  Book'
        BY <2>2, QuietStepsKeepBook DEF RefuseStream, WriteResponse
    <2>3. ASSUME NEW c \in Conn, WritePreamble(c) \/ WriteFrame(c) \/ StreamClosed(c)
          PROVE  Book'
        <3>1. ReceiverAlive(c)
            BY <2>3 DEF WritePreamble, WriteFrame, StreamClosed, ReceiverAlive
        <3> QED BY <2>3, <3>1, QuietStepsKeepBook DEF WritePreamble, WriteFrame, StreamClosed
    <2>4. ASSUME NEW c \in Conn, NEW s \in Session,
                 Initialize(c, s) \/ Delete(c, s) \/ AttachSse(c, s)
          PROVE  Book'
        BY <2>4, InitializeKeepsBook, DeleteKeepsBook, AttachKeepsBook
    <2>5. ASSUME NEW c \in Conn, DetachSse(c)
          PROVE  Book'
        BY <2>5, DetachKeepsBook
    <2>6. ASSUME UNCHANGED <<live, sseSender, pc, sid, revoked>>
          PROVE  Book'
        BY <2>6 DEF ServerInv, Book, EntryNamesItsOwnStream, ReceiverAlive
    <2>7. ASSUME NEW f \in Frame, CollectSenders(f) \/ \E c \in Conn : TrySend(f, c)
          PROVE  Book'
        BY <2>6, <2>7 DEF CollectSenders, TrySend
    <2>8. CASE UNCHANGED vars
        BY <2>6, <2>8 DEF vars
    <2> QED BY <2>1, <2>2, <2>3, <2>4, <2>5, <2>7, <2>8 DEF Next, Request, Stream
<1> QED BY <1>1, ServerInitHolds, PTL DEF Spec

\* An entry of the store names a stream of that very session, attached since
\* the session was last created.
THEOREM EntriesNameTheirOwnStreams == Spec => []EntryNamesItsOwnStream
<1>1. ServerInv => EntryNamesItsOwnStream
    BY DEF ServerInv
<1> QED BY <1>1, ServerInvariance, PTL

-----------------------------------------------------------------------------
(* Frames on their way. *)

\* What FrameInv says of one connection.
FramesOf(c) ==
    /\ \A f \in Frame : <<f, c>> \in held \/ f \in owed[c] => f \in begun
    /\ pc[c] \in {"unopened", "reading"} =>
          /\ chan[c] = <<>> /\ owed[c] = {}
          /\ \A f \in Frame : written[c][f] = 0 /\ <<f, c>> \notin held
    /\ pc[c] \in {"preamble", "streaming"} =>
          /\ \A i, j \in DOMAIN chan[c] : chan[c][i] = chan[c][j] => i = j
          /\ \A f \in Frame :
                /\ written[c][f] \in {0, 1}
                /\ f \in owed[c] <=> written[c][f] = 1 \/ InChannel(c, f) \/ <<f, c>> \in held
                /\ InChannel(c, f) => written[c][f] = 0
                /\ <<f, c>> \in held => written[c][f] = 0 /\ ~InChannel(c, f)

LEMMA FrameInvSplit == FrameInv <=> \A c \in Conn : FramesOf(c)
BY DEF FrameInv, FramesOf

\* Steps that leave a connection's frames alone, and do not bring it forward
\* from before its stream or back into it.
LEMMA QuietStepsKeepFrames ==
    ASSUME NEW c \in Conn, FramesOf(c), begun \subseteq begun',
           chan'[c] = chan[c], owed'[c] = owed[c], written'[c] = written[c],
           \A f \in Frame : <<f, c>> \in held' <=> <<f, c>> \in held,
           \/ pc'[c] = pc[c] \/ pc'[c] \in {"ended", "closed"}
           \/ pc[c] = "unopened" /\ pc'[c] = "reading"
           \/ pc[c] = "reading" /\ pc'[c] = "preamble"
           \/ pc[c] = "preamble" /\ pc'[c] = "streaming"
    PROVE  FramesOf(c)'
<1>1. \A f \in Frame : InChannel(c, f)' <=> InChannel(c, f)
  BY DEF InChannel
<1>2. CASE pc[c] = "reading" /\ pc'[c] = "preamble"
  <2>1. chan[c] = <<>> /\ \A f \in Frame : ~InChannel(c, f)
    BY <1>2 DEF FramesOf, InChannel
  <2> QED BY <1>1, <1>2, <2>1 DEF FramesOf
<1>3. CASE ~(pc[c] = "reading" /\ pc'[c] = "preamble")
  BY <1>1, <1>3 DEF FramesOf
<1> QED BY <1>2, <1>3

\* The handler moves a frame from its channel to the wire.
LEMMA WriteFrameKeepsFrames ==
    ASSUME ServerInv, FrameInv, NEW c \in Conn, WriteFrame(c)
    PROVE  FrameInv'
<1>0. TypeOK /\ \A d \in Conn : FramesOf(d)
  BY FrameInvSplit DEF ServerInv
<1> SUFFICES ASSUME NEW d \in Conn PROVE FramesOf(d)'
  BY FrameInvSplit DEF FrameInv, FramesOf
<1>1. CASE d # c \/ ~peer[c]
  <2>1. CASE d # c
    BY <1>0, <2>1, QuietStepsKeepFrames DEF WriteFrame, TypeOK
  <2>2. CASE d = c /\ ~peer[c]
    <3>1. pc'[c] = "ended" /\ owed' = owed /\ held' = held /\ begun' = begun
      BY <1>0, <2>2 DEF WriteFrame, TypeOK
    <3> QED BY <1>0, <2>2, <3>1 DEF FramesOf
  <2> QED BY <1>1, <2>1, <2>2
<1>2. CASE d = c /\ peer[c]
  <2> DEFINE q == chan[c]
             h == Head(q)
  <2>1. /\ q \in Seq(Frame) /\ q # <<>> /\ DOMAIN q = 1..Len(q) /\ Len(q) \in Nat \ {0}
        /\ h = q[1] /\ h \in Frame /\ DOMAIN Tail(q) = 1..(Len(q) - 1)
        /\ \A i \in 1..(Len(q) - 1) : Tail(q)[i] = q[i + 1]
    BY <1>0 DEF WriteFrame, TypeOK
  <2>2. /\ chan'[c] = Tail(q) /\ pc'[c] = "streaming" /\ pc[c] = "streaming"
        /\ owed' = owed /\ held' = held /\ begun' = begun
    BY <1>0, <1>2 DEF WriteFrame, TypeOK
  <2>3. \A f \in Frame : written'[c][f] = IF f = h THEN written[c][f] + 1 ELSE written[c][f]
    <3>1. written[c] \in [Frame -> Nat] /\ written \in [Conn -> [Frame -> Nat]]
      BY <1>0 DEF TypeOK
    <3>2. PICK g \in Frame : g = h
      BY <2>1
    <3>3. written' = [written EXCEPT ![c][g] = @ + 1]
      BY <1>0, <1>2, <3>2 DEF WriteFrame
    <3> HIDE DEF h
    <3> QED BY <3>1, <3>2, <3>3
  <2>4. InChannel(c, h)
    BY <2>1 DEF InChannel
  <2>5. \A i, j \in 1..Len(q) : q[i] = q[j] => i = j
    BY <1>0, <2>1, <2>2 DEF FramesOf
  <2> HIDE DEF q, h
  <2>6. \A f \in Frame : InChannel(c, f) <=> \E i \in 1..Len(q) : q[i] = f
    BY <2>1 DEF InChannel, q
  <2>7. \A f \in Frame : InChannel(c, f)' <=> \E i \in 1..(Len(q) - 1) : q[i + 1] = f
    BY <2>1, <2>2 DEF InChannel
  <2>8. ASSUME NEW f \in Frame
        PROVE  InChannel(c, f)' <=> InChannel(c, f) /\ f # h
    <3>1. ASSUME NEW i \in 1..(Len(q) - 1), q[i + 1] = f
          PROVE  InChannel(c, f) /\ f # h
      <4>1. i + 1 \in 1..Len(q) /\ 1 \in 1..Len(q) /\ i + 1 # 1
        BY <2>1
      <4> QED BY <2>1, <2>5, <2>6, <3>1, <4>1
    <3>2. ASSUME NEW i \in 1..Len(q), q[i] = f, f # h
          PROVE  \E j \in 1..(Len(q) - 1) : q[j + 1] = f
      <4>1. i - 1 \in 1..(Len(q) - 1) /\ (i - 1) + 1 = i
        BY <2>1, <3>2
      <4>2. q[(i - 1) + 1] = f
        BY <3>2, <4>1
      <4> QED BY <4>1, <4>2
    <3> QED BY <2>6, <2>7, <3>1, <3>2
  <2>9. \A i, j \in DOMAIN chan'[c] : chan'[c][i] = chan'[c][j] => i = j
    <3>0. /\ DOMAIN chan'[c] = 1..(Len(q) - 1)
          /\ \A i \in 1..(Len(q) - 1) : chan'[c][i] = q[i + 1]
      BY <2>1, <2>2
    <3> SUFFICES ASSUME NEW i \in 1..(Len(q) - 1), NEW j \in 1..(Len(q) - 1),
                        q[i + 1] = q[j + 1]
                 PROVE  i = j
      BY <3>0
    <3>1. i + 1 \in 1..Len(q) /\ j + 1 \in 1..Len(q)
      BY <2>1
    <3>2. i + 1 = j + 1
      BY <2>5, <3>1
    <3> QED BY <2>1, <3>2
  <2>10. \A f \in Frame :
            /\ f \in owed[c] => f \in begun
            /\ <<f, c>> \in held => f \in begun
            /\ written[c][f] \in {0, 1}
            /\ f \in owed[c] <=> written[c][f] = 1 \/ InChannel(c, f) \/ <<f, c>> \in held
            /\ InChannel(c, f) => written[c][f] = 0
            /\ <<f, c>> \in held => written[c][f] = 0 /\ ~InChannel(c, f)
    BY <1>0, <2>2 DEF FramesOf
  <2>11. ASSUME NEW f \in Frame
         PROVE  /\ written'[c][f] \in {0, 1}
                /\ f \in owed[c] <=> written'[c][f] = 1 \/ InChannel(c, f)' \/ <<f, c>> \in held
                /\ InChannel(c, f)' => written'[c][f] = 0
                /\ <<f, c>> \in held => written'[c][f] = 0 /\ ~InChannel(c, f)'
    <3>1. CASE f = h
      <4>1. written[c][f] = 0 /\ written'[c][f] = 1 /\ ~InChannel(c, f)' /\ f \in owed[c]
            /\ <<f, c>> \notin held
        BY <2>3, <2>4, <2>8, <2>10, <3>1
      <4> QED BY <4>1
    <3>2. CASE f # h
      <4>1. written'[c][f] = written[c][f] /\ (InChannel(c, f)' <=> InChannel(c, f))
        BY <2>3, <2>8, <3>2
      <4> QED BY <2>10, <4>1
    <3> QED BY <3>1, <3>2
  <2> QED BY <1>2, <2>2, <2>9, <2>10, <2>11 DEF FramesOf
<1> QED BY <1>1, <1>2

\* A broadcast takes charge of its frame for every stream it finds.
LEMMA CollectKeepsFrames ==
    ASSUME ServerInv, FrameInv, NEW g \in Frame, CollectSenders(g)
    PROVE  FrameInv'
<1> DEFINE streams == {sseSender[s] : s \in live} \ {NoConn}
<1>0. TypeOK /\ \A d \in Conn : FramesOf(d)
  BY FrameInvSplit DEF ServerInv
<1> SUFFICES ASSUME NEW d \in Conn PROVE FramesOf(d)'
  BY FrameInvSplit DEF FrameInv, FramesOf
<1>1. /\ UNCHANGED <<pc, chan, written>> /\ g \notin begun /\ begun' = begun \cup {g}
      /\ held' = held \cup ({g} \X streams)
      /\ owed'[d] = IF d \in streams THEN owed[d] \cup {g} ELSE owed[d]
  BY DEF CollectSenders
<1>2. d \in streams => pc[d] \notin {"unopened", "reading"}
  BY <1>0, NoConnAssumption, NoSessionAssumption
     DEF ServerInv, EntryNamesItsOwnStream, TypeOK
<1>3. \A f \in Frame : <<f, d>> \in held' <=> <<f, d>> \in held \/ (f = g /\ d \in streams)
  BY <1>1
<1>4. \A f \in Frame : InChannel(d, f)' <=> InChannel(d, f)
  BY <1>1 DEF InChannel
<1>5. g \notin owed[d] /\ <<g, d>> \notin held
  BY <1>0, <1>1 DEF FramesOf
<1> HIDE DEF streams
<1> QED BY <1>0, <1>1, <1>2, <1>3, <1>4, <1>5 DEF FramesOf

\* The broadcast puts its frame into a channel.
LEMMA TrySendKeepsFrames ==
    ASSUME ServerInv, FrameInv, NEW g \in Frame, NEW c \in Conn, TrySend(g, c)
    PROVE  FrameInv'
<1>0. TypeOK /\ \A d \in Conn : FramesOf(d)
  BY FrameInvSplit DEF ServerInv
<1> SUFFICES ASSUME NEW d \in Conn PROVE FramesOf(d)'
  BY FrameInvSplit DEF FrameInv, FramesOf
<1>1. /\ UNCHANGED <<pc, owed, written, begun>> /\ <<g, c>> \in held
      /\ \A f \in Frame : <<f, d>> \in held' <=> <<f, d>> \in held /\ ~(f = g /\ d = c)
  BY DEF TrySend
<1>2. CASE d # c
  <2>1. chan'[d] = chan[d]
    BY <1>0, <1>2 DEF TrySend, TypeOK
  <2> QED BY <1>0, <1>1, <1>2, <2>1, QuietStepsKeepFrames
<1>3. CASE d = c /\ pc[c] \notin {"preamble", "streaming"}
  BY <1>0, <1>1, <1>3 DEF FramesOf
<1>4. CASE d = c /\ pc[c] \in {"preamble", "streaming"}
  <2> DEFINE q == chan[c]
  <2>1. /\ q \in Seq(Frame) /\ DOMAIN q = 1..Len(q) /\ Len(q) \in Nat
        /\ DOMAIN Append(q, g) = 1..(Len(q) + 1)
        /\ \A i \in 1..Len(q) : Append(q, g)[i] = q[i]
        /\ Append(q, g)[Len(q) + 1] = g
    BY <1>0 DEF TypeOK
  <2>2. chan'[c] = Append(q, g)
    BY <1>0, <1>4 DEF TrySend, TypeOK, ReceiverAlive
  <2>3. ~InChannel(c, g) /\ \A i, j \in 1..Len(q) : q[i] = q[j] => i = j
    BY <1>0, <1>1, <1>4, <2>1 DEF FramesOf
  <2> HIDE DEF q
  <2>4. \A i \in 1..Len(q) : q[i] # g
    BY <2>1, <2>3 DEF InChannel, q
  <2>5. \A f \in Frame : InChannel(c, f)' <=> InChannel(c, f) \/ f = g
    <3>1. \A f \in Frame : InChannel(c, f) <=> \E i \in 1..Len(q) : q[i] = f
      BY <2>1 DEF InChannel, q
    <3>2. \A f \in Frame : InChannel(c, f)' <=> \E i \in 1..(Len(q) + 1) : Append(q, g)[i] = f
      BY <2>1, <2>2 DEF InChannel
    <3>3. \A i \in 1..(Len(q) + 1) : i \in 1..Len(q) \/ i = Len(q) + 1
      BY <2>1
    <3>4. \A i \in 1..Len(q) : i \in 1..(Len(q) + 1)
      BY <2>1
    <3>5. Len(q) + 1 \in 1..(Len(q) + 1)
      BY <2>1
    <3> QED BY <2>1, <3>1, <3>2, <3>3, <3>4, <3>5
  <2>6. \A i, j \in DOMAIN chan'[c] : chan'[c][i] = chan'[c][j] => i = j
    <3> SUFFICES ASSUME NEW i \in 1..(Len(q) + 1), NEW j \in 1..(Len(q) + 1),
                        Append(q, g)[i] = Append(q, g)[j]
                 PROVE  i = j
      BY <2>1, <2>2
    <3>1. CASE i \in 1..Len(q) /\ j \in 1..Len(q)
      BY <2>1, <2>3, <3>1
    <3>2. CASE i = Len(q) + 1 \/ j = Len(q) + 1
      BY <2>1, <2>4, <3>2
    <3> QED BY <2>1, <3>1, <3>2
  <2> QED BY <1>0, <1>1, <1>4, <2>5, <2>6 DEF FramesOf
<1> QED BY <1>2, <1>3, <1>4

\* Every step keeps what is known of the frames on their way.
LEMMA FramesKept == ServerInv /\ FrameInv /\ [Next]_vars => FrameInv'
<1> SUFFICES ASSUME ServerInv, FrameInv, [Next]_vars PROVE FrameInv'
  OBVIOUS
<1>0. TypeOK /\ \A d \in Conn : FramesOf(d)
  BY FrameInvSplit DEF ServerInv
<1>f. (\A d \in Conn : FramesOf(d)') => FrameInv'
  BY DEF FrameInv, FramesOf
<1>1. ASSUME NEW c \in Conn, Accept(c) \/ Hangup(c) \/ EndConnection(c) \/ WritePreamble(c)
                              \/ StreamClosed(c) \/ DetachSse(c)
      PROVE  FrameInv'
  <2>1. ASSUME NEW d \in Conn
        PROVE  /\ UNCHANGED <<chan, held, owed, written, begun>>
               /\ \/ pc'[d] = pc[d] \/ pc'[d] \in {"ended", "closed"}
                  \/ pc[d] = "unopened" /\ pc'[d] = "reading"
                  \/ pc[d] = "preamble" /\ pc'[d] = "streaming"
    BY <1>0, <1>1 DEF TypeOK, Accept, Hangup, EndConnection, WritePreamble, StreamClosed,
                      DetachSse, frameVars
  <2> QED BY <1>0, <1>f, <2>1, QuietStepsKeepFrames
<1>2. ASSUME NEW c \in Conn, NEW s \in Session,
             Initialize(c, s) \/ Delete(c, s) \/ RefuseStream(c, s) \/ AttachSse(c, s)
      PROVE  FrameInv'
  <2>1. ASSUME NEW d \in Conn
        PROVE  /\ UNCHANGED <<chan, held, owed, written, begun>>
               /\ \/ pc'[d] = pc[d] \/ pc'[d] = "closed"
                  \/ pc[d] = "reading" /\ pc'[d] = "preamble"
    BY <1>0, <1>2 DEF TypeOK, Initialize, Delete, RefuseStream, AttachSse, WriteResponse, frameVars
  <2> QED BY <1>0, <1>f, <2>1, QuietStepsKeepFrames
<1>3. CASE UNCHANGED vars
  <2>1. UNCHANGED <<pc, chan, held, owed, written, begun>>
    BY <1>3 DEF vars
  <2> QED BY <1>0, <1>f, <2>1, QuietStepsKeepFrames
<1> QED BY <1>1, <1>2, <1>3, WriteFrameKeepsFrames, CollectKeepsFrames, TrySendKeepsFrames
        DEF Next, Request, Stream

\* A stream whose client is there ends only when its channel is empty and
\* nobody holds its sender.
LEMMA EndedIsComplete ==
    ASSUME ServerInv, FrameInv, [Next]_vars, NEW c \in Conn,
           pc[c] = "streaming", pc'[c] = "ended", peer[c], NEW f \in Frame
    PROVE  written[c][f] = IF f \in owed[c] THEN 1 ELSE 0
<1>0. TypeOK /\ FramesOf(c)
  BY FrameInvSplit DEF ServerInv
<1>1. StreamClosed(c)
  <2>1. ASSUME NEW d \in Conn, NEW s \in Session,
               Initialize(d, s) \/ Delete(d, s) \/ RefuseStream(d, s) \/ AttachSse(d, s)
        PROVE  FALSE
    BY <1>0, <2>1 DEF TypeOK, Initialize, Delete, RefuseStream, AttachSse, WriteResponse
  <2>2. ASSUME NEW d \in Conn, Accept(d) \/ Hangup(d) \/ EndConnection(d) \/ WritePreamble(d)
                               \/ DetachSse(d) \/ WriteFrame(d)
        PROVE  FALSE
    BY <1>0, <2>2 DEF TypeOK, Accept, Hangup, EndConnection, WritePreamble, DetachSse, WriteFrame
  <2>3. ASSUME NEW d \in Conn, StreamClosed(d)
        PROVE  StreamClosed(c)
    BY <1>0, <2>3 DEF TypeOK, StreamClosed
  <2>4. ~UNCHANGED pc
    OBVIOUS
  <2> QED BY <2>1, <2>2, <2>3, <2>4 DEF Next, Request, Stream, vars, CollectSenders, TrySend
<1>2. ~InChannel(c, f) /\ <<f, c>> \notin held
  BY <1>1 DEF StreamClosed, SenderAlive, InChannel
<1> QED BY <1>0, <1>2 DEF FramesOf

\* What is broadcast reaches the streams it finds, once each.
THEOREM FramesArriveOnce == Spec => EveryFrameOnce
<1>1. Init => FrameInv
  BY DEF Init, FrameInv
<1>2. ServerInv /\ FrameInv /\ [Next]_vars => FrameInv'
  BY FramesKept
<1>3. ServerInv /\ FrameInv /\ [Next]_vars =>
        [\A c \in Conn : pc[c] = "streaming" /\ pc'[c] = "ended" /\ peer[c] =>
          \A f \in Frame : written[c][f] = IF f \in owed[c] THEN 1 ELSE 0]_vars
  BY EndedIsComplete
<1> QED BY <1>1, <1>2, <1>3, ServerInvariance, PTL DEF Spec, EveryFrameOnce

\* The server keeps its types.
THEOREM ServerTypeCorrect == Spec => []TypeOK
<1>1. ServerInv => TypeOK
  BY DEF ServerInv
<1> QED BY <1>1, ServerInvariance, PTL
=============================================================================
