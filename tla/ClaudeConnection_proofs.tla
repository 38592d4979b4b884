------------------------ MODULE ClaudeConnection_proofs ------------------------
(***************************************************************************)
(* Proofs about one Claude Code attachment, for any number of connections, *)
(* requests, panes and selection changes.                                  *)
(*                                                                         *)
(* DispatchInv says what a request is while it is on its way: every frame  *)
(* is sent once, what a connection has not read is the rest of what its    *)
(* client sent, a connection waits for the last frame it read, and every   *)
(* call that is queued or being dispatched is the one some connection      *)
(* waits for.  OrderSound, which rests on it, says of each connection that *)
(* its responses are written in order, that at most one waits, and that a  *)
(* frame is read only when every earlier one has had its response.         *)
(***************************************************************************)
EXTENDS ClaudeConnection, AgentDiff_proofs, SequenceTheorems

\* The broadcaster appends the frame to channels and removes subscribers.
LEMMA BroadcastFacts ==
    ASSUME TypeOK, NEW f \in Frame, Broadcast(f)
    PROVE  /\ out' \in [Conn -> Seq(Frame)]
           /\ subscribers' \subseteq Conn
           /\ \A c \in Conn : out'[c] = out[c] \/ out'[c] = Append(out[c], f)
<1>1. \A c \in Conn : Append(out[c], f) \in Seq(Frame)
  BY DEF TypeOK
<1> QED BY <1>1 DEF TypeOK, Broadcast

\* Whatever happens to the panes, they stay consistent.
LEMMA DiffKept == DispatchInv /\ [Next]_vars => DiffInv'
<1> SUFFICES ASSUME DispatchInv, [Next]_vars PROVE DiffInv'
  OBVIOUS
<1>1. DiffInv
  BY DEF DispatchInv
<1>2. ASSUME NEW p \in Pane, OpenDiffForReview(p)
      PROVE  DiffInv'
  BY <1>1, <1>2, SpawnKeepsDiffInv DEF OpenDiffForReview
<1>3. CASE UserStep
  BY <1>1, <1>3, UserKeepsDiffInv
<1>4. CASE DropDispatcher
  <2>1. CASE step = "review" /\ oneshot[reviewOf[current]] = "waiting"
    <3>1. reviewOf[current] \in Pane
      BY <2>1 DEF DispatchInv, CallsSound, TypeOK, DropDispatcher
    <3> QED BY <1>1, <1>4, <2>1, <3>1, AbandonKeepsDiffInv DEF DropDispatcher
  <2>2. CASE ~(step = "review" /\ oneshot[reviewOf[current]] = "waiting")
    BY <1>1, <1>4, <2>2, StutterKeepsDiffInv DEF DropDispatcher
  <2> QED BY <2>1, <2>2
<1>5. CASE UNCHANGED diffVars
  BY <1>1, <1>5, StutterKeepsDiffInv
<1>6. CASE \E c \in Conn, r \in Request, m \in Method : ClientSend(c, r, m)
  BY <1>5, <1>6 DEF ClientSend
<1>7. CASE \E c \in Conn : ClientGone(c) \/ Subscribe(c) \/ ConnectionStep(c)
  BY <1>5, <1>7 DEF ClientGone, Subscribe, ConnectionStep, WriteOutgoing, HandleFrameInline,
                    ForwardFrame, TakeReply, EndConnection
<1>8. CASE TakeCall \/ Dispatch \/ PushInitialSelection \/ FinishOpenDiff \/ SelectionChanged
           \/ DropServer \/ UNCHANGED vars
  BY <1>5, <1>8 DEF TakeCall, Dispatch, PushInitialSelection, FinishOpenDiff, SelectionChanged,
                    DropServer, vars
<1> QED BY <1>2, <1>3, <1>4, <1>6, <1>7, <1>8 DEF Next, DispatcherStep

\* Types are kept by every step.
LEMMA TypesKept == DispatchInv /\ [Next]_vars => TypeOK'
<1> SUFFICES ASSUME DispatchInv, [Next]_vars PROVE TypeOK'
  OBVIOUS
<1>0. TypeOK /\ DiffTypeOK'
  BY DiffKept DEF DispatchInv, DiffInv
<1> USE <1>0
<1>1. ASSUME NEW c \in Conn, NEW r \in Request, NEW m \in Method, ClientSend(c, r, m)
      PROVE  TypeOK'
  <2>1. Append(inbox[c], r) \in Seq(Request) /\ Append(sent[c], r) \in Seq(Request)
    BY DEF TypeOK
  <2> QED BY <1>1, <2>1 DEF TypeOK, ClientSend, upVars
<1>2. ASSUME NEW c \in Conn, ClientGone(c) \/ Subscribe(c) \/ EndConnection(c)
      PROVE  TypeOK'
  BY <1>2 DEF TypeOK, ClientGone, Subscribe, EndConnection, callVars, upVars
<1>3. ASSUME NEW c \in Conn, WriteOutgoing(c)
      PROVE  TypeOK'
  <2>1. out[c] \in Seq(Frame) /\ out[c] # <<>> /\ wrote[c] \in Seq(Frame)
    BY <1>3 DEF TypeOK, WriteOutgoing
  <2>2. Tail(out[c]) \in Seq(Frame) /\ Append(wrote[c], Head(out[c])) \in Seq(Frame)
    BY <2>1
  <2> QED BY <1>3, <2>2 DEF TypeOK, WriteOutgoing, callVars, upVars
<1>4. ASSUME NEW c \in Conn, ReadFrame(c)
      PROVE  inbox' \in [Conn -> Seq(Request)] /\ Head(inbox[c]) \in Request
  <2>1. inbox[c] \in Seq(Request) /\ inbox[c] # <<>>
    BY <1>4 DEF TypeOK, ReadFrame
  <2>2. Tail(inbox[c]) \in Seq(Request) /\ Head(inbox[c]) \in Request
    BY <2>1
  <2> QED BY <1>4, <2>2 DEF TypeOK, ReadFrame
<1>5. ASSUME NEW c \in Conn, HandleFrameInline(c)
      PROVE  TypeOK'
  <2>1. ReadFrame(c)
    BY <1>5 DEF HandleFrameInline
  <2>2. Append(out[c], Head(inbox[c])) \in Seq(Frame)
    BY <1>4, <2>1 DEF TypeOK, Frame
  <2> QED BY <1>4, <1>5, <2>1, <2>2 DEF TypeOK, HandleFrameInline, callVars, upVars
<1>6. ASSUME NEW c \in Conn, ForwardFrame(c)
      PROVE  TypeOK'
  <2>1. ReadFrame(c)
    BY <1>6 DEF ForwardFrame
  <2>2. Append(calls, Head(inbox[c])) \in Seq(Request)
    BY <1>4, <2>1 DEF TypeOK
  <2> QED BY <1>4, <1>6, <2>1, <2>2 DEF TypeOK, ForwardFrame, upVars
<1>7. ASSUME NEW c \in Conn, TakeReply(c)
      PROVE  TypeOK'
  <2>1. awaited[c] \in Request
    <3>1. Seen(c) \in 1..Len(sent[c]) /\ awaited[c] = sent[c][Seen(c)]
      BY <1>7 DEF DispatchInv, TypeOK, SentSound, TakeReply, Seen
    <3> QED BY <3>1 DEF TypeOK
  <2>2. Append(out[c], awaited[c]) \in Seq(Frame)
    BY <2>1 DEF TypeOK, Frame
  <2> QED BY <1>7, <2>2 DEF TypeOK, TakeReply, callVars, upVars
<1>8. CASE SelectionChanged
  <2>1. Selection \in Frame
    BY DEF Frame
  <2>2. selections' \in 0..MaxSelection
    BY <1>8, MaxSelectionAssumption DEF TypeOK, SelectionChanged
  <2> QED BY <1>8, <2>1, <2>2, BroadcastFacts DEF TypeOK, SelectionChanged, callVars
<1>9. CASE PushInitialSelection
  <2>1. Initial \in Frame
    BY DEF Frame
  <2> QED BY <1>9, <2>1, BroadcastFacts DEF TypeOK, PushInitialSelection, upVars
<1>10. CASE TakeCall
  <2>1. Head(calls) \in Request /\ Tail(calls) \in Seq(Request)
    BY <1>10 DEF TypeOK, TakeCall
  <2> QED BY <1>10, <2>1 DEF TypeOK, TakeCall, connVars, upVars
<1>11. CASE Dispatch
  BY <1>11 DEF TypeOK, Dispatch, RespondTo, connVars, upVars
<1>12. ASSUME NEW p \in Pane, OpenDiffForReview(p)
       PROVE  TypeOK'
  BY <1>12 DEF TypeOK, OpenDiffForReview, connVars, upVars
<1>13. CASE FinishOpenDiff
  <2>1. OpenDiffResponse[oneshot[reviewOf[current]]] \in {"FILE_SAVED", "DIFF_REJECTED", "TAB_CLOSED"}
    BY <1>13 DEF FinishOpenDiff, OpenDiffResponse
  <2> QED BY <1>13, <2>1 DEF TypeOK, FinishOpenDiff, RespondTo, connVars, upVars
<1>14. CASE UserStep /\ UNCHANGED serverVars
  BY <1>14 DEF TypeOK, serverVars, connVars, callVars, upVars
<1>15. CASE DropDispatcher
  <2>1. <<>> \in Seq(Request)
    OBVIOUS
  <2> QED BY <1>15, <2>1 DEF TypeOK, DropDispatcher, connVars
<1>16. CASE DropServer
  BY <1>16 DEF TypeOK, DropServer, callVars
<1>17. CASE UNCHANGED vars
  BY <1>17 DEF TypeOK, vars, serverVars, connVars, callVars, upVars
<1> QED BY <1>1, <1>2, <1>3, <1>5, <1>6, <1>7, <1>8, <1>9, <1>10, <1>11, <1>12, <1>13, <1>14,
           <1>15, <1>16, <1>17 DEF Next, ConnectionStep, DispatcherStep

-----------------------------------------------------------------------------
(* The frames of the clients. *)

\* The arithmetic of what has been sent and what has not been read.
LEMMA Difference ==
    ASSUME NEW a \in Nat, NEW b \in Nat, b <= a
    PROVE  /\ a - b \in Nat /\ a - b <= a /\ a = (a - b) + b
           /\ (a + 1) - (b + 1) = a - b
           /\ b >= 1 => a - (b - 1) = (a - b) + 1 /\ (a - b) + 1 \in 1..a
OBVIOUS

\* How many frames a connection has read.
LEMMA SeenType ==
    ASSUME DispatchInv, NEW c \in Conn
    PROVE  /\ sent[c] \in Seq(Request) /\ inbox[c] \in Seq(Request)
           /\ Seen(c) \in Nat /\ Seen(c) <= Len(sent[c])
           /\ DOMAIN sent[c] = 1..Len(sent[c]) /\ Len(sent[c]) \in Nat
           /\ DOMAIN inbox[c] = 1..Len(inbox[c]) /\ Len(inbox[c]) \in Nat
           /\ Len(sent[c]) = Seen(c) + Len(inbox[c])
<1>1. sent[c] \in Seq(Request) /\ inbox[c] \in Seq(Request) /\ Len(inbox[c]) <= Len(sent[c])
  BY DEF DispatchInv, TypeOK, SentSound
<1>2. Len(sent[c]) \in Nat /\ Len(inbox[c]) \in Nat
  BY <1>1
<1>3. DOMAIN sent[c] = 1..Len(sent[c]) /\ DOMAIN inbox[c] = 1..Len(inbox[c])
  BY <1>1
<1>4. Seen(c) \in Nat /\ Seen(c) <= Len(sent[c]) /\ Len(sent[c]) = Seen(c) + Len(inbox[c])
  BY <1>1, <1>2, Difference DEF Seen
<1> QED BY <1>1, <1>2, <1>3, <1>4

\* A frame is sent: it is a new one, and nothing more has been read.
LEMMA SendFacts ==
    ASSUME DispatchInv, NEW c \in Conn, NEW r \in Request, NEW m \in Method, ClientSend(c, r, m)
    PROVE  /\ \A d \in Conn : Seen(d)' = Seen(d)
           /\ \A d \in Conn : d # c => sent'[d] = sent[d] /\ inbox'[d] = inbox[d]
           /\ sent'[c] = Append(sent[c], r) /\ inbox'[c] = Append(inbox[c], r)
           /\ \A d \in Conn : \A i \in 1..Len(sent[d]) : sent'[d][i] = sent[d][i] /\ sent[d][i] # r
           /\ \A x : Read(x) => Read(x)'
<1>1. /\ \A d \in Conn : d # c => sent'[d] = sent[d] /\ inbox'[d] = inbox[d]
      /\ sent'[c] = Append(sent[c], r) /\ inbox'[c] = Append(inbox[c], r)
  BY DEF DispatchInv, TypeOK, ClientSend
<1>2. \A d \in Conn : Seen(d)' = Seen(d)
  <2> SUFFICES ASSUME NEW d \in Conn PROVE Len(sent'[d]) - Len(inbox'[d]) = Len(sent[d]) - Len(inbox[d])
    BY DEF Seen
  <2>1. CASE d # c
    BY <1>1, <2>1
  <2>2. CASE d = c
    <3>1. Len(Append(sent[c], r)) = Len(sent[c]) + 1 /\ Len(Append(inbox[c], r)) = Len(inbox[c]) + 1
      BY SeenType
    <3>2. Len(sent[c]) \in Nat /\ Len(inbox[c]) \in Nat
      BY SeenType
    <3>3. Len(inbox[c]) <= Len(sent[c])
      BY DEF DispatchInv, SentSound
    <3>4. Len(sent'[c]) = Len(sent[c]) + 1 /\ Len(inbox'[c]) = Len(inbox[c]) + 1
      BY <1>1, <3>1
    <3>5. (Len(sent[c]) + 1) - (Len(inbox[c]) + 1) = Len(sent[c]) - Len(inbox[c])
      BY <3>2, <3>3, Difference
    <3> QED BY <2>2, <3>4, <3>5
  <2> QED BY <2>1, <2>2
<1>3. \A d \in Conn : \A i \in 1..Len(sent[d]) : sent[d][i] # r
  BY SeenType DEF DispatchInv, SentSound, ClientSend
<1>4. \A d \in Conn : \A i \in 1..Len(sent[d]) : sent'[d][i] = sent[d][i]
  <2>1. \A i \in 1..Len(sent[c]) : Append(sent[c], r)[i] = sent[c][i]
    <3>1. sent[c] \in Seq(Request)
      BY SeenType
    <3> QED BY <3>1
  <2> QED BY <1>1, <2>1
<1>5. \A d \in Conn : \A i \in 1..Seen(d) : i \in 1..Len(sent[d])
  BY SeenType
<1>6. \A x : Read(x) => Read(x)'
  BY <1>2, <1>4, <1>5 DEF Read
<1> QED BY <1>1, <1>2, <1>3, <1>4, <1>6

\* A frame is read: it is the next one, and has not been read before.
LEMMA ReadFacts ==
    ASSUME DispatchInv, NEW c \in Conn, ReadFrame(c), UNCHANGED sent
    PROVE  LET r == Head(inbox[c]) IN
           /\ r \in Request
           /\ Seen(c)' = Seen(c) + 1 /\ Seen(c) + 1 \in 1..Len(sent[c]) /\ r = sent[c][Seen(c) + 1]
           /\ \A d \in Conn : d # c => Seen(d)' = Seen(d) /\ inbox'[d] = inbox[d]
           /\ inbox'[c] = Tail(inbox[c]) /\ inbox[c] # <<>>
           /\ ~Read(r)
           /\ \A x : Read(x) \/ x = r => Read(x)'
<1> DEFINE r == Head(inbox[c])
<1>1. /\ inbox'[c] = Tail(inbox[c]) /\ inbox[c] # <<>>
      /\ \A d \in Conn : d # c => inbox'[d] = inbox[d]
  BY DEF DispatchInv, TypeOK, ReadFrame
<1>2. 1 \in DOMAIN inbox[c] /\ r = inbox[c][1] /\ Len(Tail(inbox[c])) = Len(inbox[c]) - 1
  BY <1>1, SeenType
<1>3. Seen(c)' = Seen(c) + 1 /\ Seen(c) + 1 \in 1..Len(sent[c])
  <2>1. /\ Len(sent[c]) \in Nat /\ Len(inbox[c]) \in Nat /\ 1 <= Len(inbox[c]) /\ Seen(c) \in Nat
        /\ Len(sent[c]) = Seen(c) + Len(inbox[c])
    BY <1>2, SeenType
  <2>2. Len(inbox'[c]) = Len(inbox[c]) - 1
    BY <1>1, <1>2
  <2>3. Len(inbox[c]) <= Len(sent[c])
    BY DEF DispatchInv, SentSound
  <2>4. Len(inbox[c]) >= 1
    BY <2>1
  <2>5. /\ Len(sent[c]) - (Len(inbox[c]) - 1) = (Len(sent[c]) - Len(inbox[c])) + 1
        /\ (Len(sent[c]) - Len(inbox[c])) + 1 \in 1..Len(sent[c])
    BY <2>1, <2>3, <2>4, Difference
  <2>6. Seen(c)' = Len(sent[c]) - (Len(inbox[c]) - 1)
    BY <2>2 DEF Seen
  <2> QED BY <2>5, <2>6 DEF Seen
<1>4. r = sent[c][Seen(c) + 1]
  BY <1>2 DEF DispatchInv, SentSound
<1>5. r \in Request
  BY <1>3, <1>4, SeenType
<1>6. \A d \in Conn : d # c => Seen(d)' = Seen(d)
  BY <1>1 DEF Seen
<1>7. ~Read(r)
  <2> SUFFICES ASSUME NEW d \in Conn, NEW i \in 1..Seen(d), sent[d][i] = r
               PROVE  FALSE
    BY DEF Read
  <2>1. i \in DOMAIN sent[d] /\ Seen(c) + 1 \in DOMAIN sent[c]
    BY <1>3, SeenType
  <2>2. d = c /\ i = Seen(c) + 1
    BY <1>4, <2>1 DEF DispatchInv, SentSound
  <2> QED BY <2>2, SeenType
<1>8. \A d \in Conn : \A i \in 1..Seen(d) : i \in 1..Seen(d)'
  BY <1>3, <1>6, SeenType
<1>9. \A x : Read(x) => Read(x)'
  BY <1>8 DEF Read
<1>10. \A x : x = r => Read(x)'
  <2>1. Seen(c) + 1 \in 1..Seen(c)' /\ sent'[c][Seen(c) + 1] = r
    <3>1. Seen(c) + 1 \in 1..(Seen(c) + 1)
      BY SeenType
    <3>2. Seen(c) + 1 \in 1..Seen(c)'
      BY <1>3, <3>1
    <3> QED BY <1>4, <3>2
  <2> QED BY <2>1 DEF Read
<1> QED BY <1>1, <1>3, <1>4, <1>5, <1>6, <1>7, <1>9, <1>10

\* Nothing is sent or read.
LEMMA SameRead ==
    ASSUME UNCHANGED <<sent, inbox>>
    PROVE  (\A c \in Conn : Seen(c)' = Seen(c)) /\ \A x : Read(x)' <=> Read(x)
<1>1. \A c \in Conn : Seen(c)' = Seen(c)
  BY DEF Seen
<1> QED BY <1>1 DEF Read

\* Steps that send and read nothing, and let no connection begin to wait.
LEMMA QuietSent ==
    ASSUME DispatchInv, UNCHANGED <<sent, inbox, method>>,
           \A c \in Conn :
              /\ conn'[c] = "unopened" => conn[c] = "unopened" /\ (peer'[c] => peer[c])
              /\ conn'[c] = "awaiting" => conn[c] = "awaiting" /\ awaited'[c] = awaited[c]
    PROVE  SentSound'
BY SameRead DEF DispatchInv, SentSound

\* No step sends a frame twice, loses one that has not been read, or makes a
\* connection wait for any but the last frame that it has read.
LEMMA SentKept == DispatchInv /\ [Next]_vars => SentSound'
<1> SUFFICES ASSUME DispatchInv, [Next]_vars PROVE SentSound'
  OBVIOUS
<1>0. TypeOK /\ SentSound
  BY DEF DispatchInv
<1>1. ASSUME NEW c \in Conn, NEW r \in Request, NEW m \in Method, ClientSend(c, r, m)
      PROVE  SentSound'
  <2>1. /\ peer[c] /\ method' = [method EXCEPT ![r] = m] /\ m # "unsent"
        /\ UNCHANGED <<conn, peer, awaited>>
    BY <1>1 DEF ClientSend, Method
  <2>2. \A d \in Conn : DOMAIN sent'[d] = IF d = c THEN 1..(Len(sent[c]) + 1) ELSE DOMAIN sent[d]
    BY <1>1, SendFacts, SeenType
  <2>3. sent'[c][Len(sent[c]) + 1] = r
    BY <1>1, SendFacts, SeenType
  <2>4. \A d, e \in Conn : \A i \in DOMAIN sent'[d], j \in DOMAIN sent'[e] :
          sent'[d][i] = sent'[e][j] => d = e /\ i = j
    <3> SUFFICES ASSUME NEW d \in Conn, NEW e \in Conn,
                        NEW i \in DOMAIN sent'[d], NEW j \in DOMAIN sent'[e],
                        sent'[d][i] = sent'[e][j]
                 PROVE  d = e /\ i = j
      OBVIOUS
    <3>1. i \in 1..Len(sent[d]) \/ (d = c /\ i = Len(sent[c]) + 1)
      BY <2>2, SeenType
    <3>2. j \in 1..Len(sent[e]) \/ (e = c /\ j = Len(sent[c]) + 1)
      <4>1. Len(sent[c]) \in Nat /\ DOMAIN sent[e] = 1..Len(sent[e])
        BY SeenType
      <4> QED BY <2>2, <4>1
    <3>3. CASE i \in 1..Len(sent[d]) /\ j \in 1..Len(sent[e])
      <4>1. sent'[d][i] = sent[d][i] /\ sent'[e][j] = sent[e][j]
        BY <1>1, <3>3, SendFacts
      <4>2. i \in DOMAIN sent[d] /\ j \in DOMAIN sent[e]
        BY <3>3, SeenType
      <4>3. sent[d][i] = sent[e][j]
        BY <4>1
      <4> QED BY <1>0, <4>2, <4>3 DEF SentSound
    <3>4. CASE i \in 1..Len(sent[d]) /\ e = c /\ j = Len(sent[c]) + 1
      BY <1>1, <2>3, <3>4, SendFacts
    <3>5. CASE j \in 1..Len(sent[e]) /\ d = c /\ i = Len(sent[c]) + 1
      BY <1>1, <2>3, <3>5, SendFacts
    <3> QED BY <3>1, <3>2, <3>3, <3>4, <3>5
  <2>5. \A d \in Conn : \A i \in DOMAIN sent'[d] : method'[sent'[d][i]] # "unsent"
    <3> SUFFICES ASSUME NEW d \in Conn, NEW i \in DOMAIN sent'[d]
                 PROVE  method'[sent'[d][i]] # "unsent"
      OBVIOUS
    <3>1. i \in 1..Len(sent[d]) \/ (d = c /\ i = Len(sent[c]) + 1)
      BY <2>2, SeenType, SMTT(30)
    <3>2. CASE i \in 1..Len(sent[d])
      <4>1. sent'[d][i] = sent[d][i] /\ sent[d][i] # r /\ sent[d][i] \in Request
        BY <1>1, <3>2, SendFacts, SeenType
      <4>2. method[sent[d][i]] # "unsent"
        BY <1>0, <3>2, SeenType DEF SentSound
      <4> QED BY <1>0, <2>1, <4>1, <4>2 DEF TypeOK
    <3>3. CASE d = c /\ i = Len(sent[c]) + 1
      BY <1>0, <2>1, <2>3, <3>3 DEF TypeOK
    <3> QED BY <3>1, <3>2, <3>3
  <2>6. \A d \in Conn : Len(inbox'[d]) <= Len(sent'[d])
    <3>1. \A d \in Conn : /\ Len(inbox[d]) <= Len(sent[d])
                           /\ Len(inbox[d]) \in Nat /\ Len(sent[d]) \in Nat
      BY SeenType
    <3>2. /\ Len(Append(sent[c], r)) = Len(sent[c]) + 1
          /\ Len(Append(inbox[c], r)) = Len(inbox[c]) + 1
      BY SeenType
    <3> QED BY <1>1, <3>1, <3>2, SendFacts, SMTT(30)
  <2>7. \A d \in Conn : \A i \in DOMAIN inbox'[d] : inbox'[d][i] = sent'[d][Seen(d)' + i]
    <3> SUFFICES ASSUME NEW d \in Conn, NEW i \in DOMAIN inbox'[d]
                 PROVE  inbox'[d][i] = sent'[d][Seen(d) + i]
      BY <1>1, SendFacts
    <3>1. CASE d # c
      <4>1. inbox'[d] = inbox[d] /\ sent'[d] = sent[d]
        BY <1>1, <3>1, SendFacts
      <4> QED BY <1>0, <4>1 DEF SentSound
    <3>2. CASE d = c /\ i \in 1..Len(inbox[c])
      <4>1. Seen(c) + i \in 1..Len(sent[c])
        BY <3>2, SeenType
      <4>2. inbox'[c][i] = inbox[c][i]
        BY <1>1, <3>2, SendFacts, SeenType
      <4>3. sent'[c][Seen(c) + i] = sent[c][Seen(c) + i]
        BY <1>1, <4>1, SendFacts
      <4>4. inbox[c][i] = sent[c][Seen(c) + i]
        BY <1>0, <3>2, SeenType DEF SentSound
      <4> QED BY <3>2, <4>2, <4>3, <4>4
    <3>3. CASE d = c /\ i = Len(inbox[c]) + 1
      <4>1. inbox'[c][i] = r
        BY <1>1, <3>3, SendFacts, SeenType
      <4>2. Seen(c) + i = Len(sent[c]) + 1
        <5>1. Seen(c) \in Nat /\ Len(inbox[c]) \in Nat /\ Len(sent[c]) = Seen(c) + Len(inbox[c])
          BY SeenType
        <5> QED BY <3>3, <5>1
      <4> QED BY <2>3, <3>3, <4>1, <4>2
    <3>4. d = c => i \in 1..(Len(inbox[c]) + 1)
      BY <1>1, SendFacts, SeenType
    <3>5. d = c => i \in 1..Len(inbox[c]) \/ i = Len(inbox[c]) + 1
      BY <3>4, SeenType
    <3> QED BY <3>1, <3>2, <3>3, <3>5
  <2>8. \A d \in Conn : conn'[d] = "awaiting" =>
          Seen(d)' >= 1 /\ awaited'[d] = sent'[d][Seen(d)']
    <3> SUFFICES ASSUME NEW d \in Conn, conn[d] = "awaiting"
                 PROVE  Seen(d) >= 1 /\ awaited[d] = sent'[d][Seen(d)]
      BY <1>1, <2>1, SendFacts
    <3>1. Seen(d) >= 1 /\ awaited[d] = sent[d][Seen(d)]
      BY <1>0 DEF SentSound
    <3>2. Seen(d) \in 1..Len(sent[d])
      BY <3>1, SeenType
    <3> QED BY <1>1, <3>1, <3>2, SendFacts
  <2>9. \A d \in Conn : conn'[d] = "unopened" => ~peer'[d] /\ sent'[d] = <<>>
    BY <1>0, <1>1, <2>1, SendFacts DEF SentSound
  <2> QED BY <2>4, <2>5, <2>6, <2>7, <2>8, <2>9 DEF SentSound
<1>2. ASSUME NEW c \in Conn, ClientGone(c) \/ Subscribe(c) \/ EndConnection(c)
                             \/ WriteOutgoing(c) \/ TakeReply(c)
      PROVE  SentSound'
  BY <1>0, <1>2, QuietSent DEF TypeOK, ClientGone, Subscribe, EndConnection, WriteOutgoing,
     TakeReply, callVars
<1>3. ASSUME NEW c \in Conn, ReadFrame(c), UNCHANGED <<sent, method, peer>>,
             \A d \in Conn : d # c => conn'[d] = conn[d] /\ awaited'[d] = awaited[d],
             conn'[c] = "loop" \/ (conn'[c] = "awaiting" /\ awaited'[c] = Head(inbox[c]))
      PROVE  SentSound'
  <2>1. \A d \in Conn : Len(inbox'[d]) <= Len(sent'[d])
    <3>1. inbox[c] # <<>> /\ inbox'[c] = Tail(inbox[c])
      BY <1>3, ReadFacts
    <3>2. Len(inbox'[c]) <= Len(sent'[c])
      BY <1>3, <3>1, SeenType
    <3> QED BY <1>3, <3>2, ReadFacts, SeenType
  <2>2. \A d \in Conn : \A i \in DOMAIN inbox'[d] : inbox'[d][i] = sent'[d][Seen(d)' + i]
    <3> SUFFICES ASSUME NEW d \in Conn, NEW i \in DOMAIN inbox'[d]
                 PROVE  inbox'[d][i] = sent[d][Seen(d)' + i]
      BY <1>3
    <3>1. CASE d # c
      <4>1. inbox'[d] = inbox[d] /\ Seen(d)' = Seen(d)
        BY <1>3, <3>1, ReadFacts
      <4> QED BY <1>0, <4>1 DEF SentSound
    <3>2. CASE d = c
      <4>1. inbox'[c] = Tail(inbox[c]) /\ inbox[c] # <<>> /\ Seen(c)' = Seen(c) + 1
        BY <1>3, ReadFacts
      <4>2. i \in Nat /\ i + 1 \in DOMAIN inbox[c] /\ inbox'[c][i] = inbox[c][i + 1]
        BY <3>2, <4>1, SeenType
      <4>3. inbox[c][i + 1] = sent[c][Seen(c) + (i + 1)]
        BY <1>0, <4>2 DEF SentSound
      <4>4. Seen(c) + (i + 1) = Seen(c)' + i
        BY <4>1, <4>2, SeenType
      <4> QED BY <3>2, <4>2, <4>3, <4>4
    <3> QED BY <3>1, <3>2
  <2>3. \A d \in Conn : conn'[d] = "awaiting" =>
          Seen(d)' >= 1 /\ awaited'[d] = sent'[d][Seen(d)']
    <3> SUFFICES ASSUME NEW d \in Conn, conn'[d] = "awaiting"
                 PROVE  Seen(d)' >= 1 /\ awaited'[d] = sent[d][Seen(d)']
      BY <1>3
    <3>1. CASE d # c
      BY <1>0, <1>3, <3>1, ReadFacts DEF SentSound
    <3>2. CASE d = c
      BY <1>3, <3>2, ReadFacts, SeenType
    <3> QED BY <3>1, <3>2
  <2>4. \A d \in Conn : conn'[d] = "unopened" => ~peer'[d] /\ sent'[d] = <<>>
    BY <1>0, <1>3 DEF SentSound
  <2> QED BY <1>0, <1>3, <2>1, <2>2, <2>3, <2>4 DEF SentSound
<1>4. ASSUME NEW c \in Conn, HandleFrameInline(c) \/ ForwardFrame(c)
      PROVE  SentSound'
  BY <1>0, <1>3, <1>4 DEF HandleFrameInline, ForwardFrame, ReadFrame, callVars, TypeOK
<1>5. CASE SelectionChanged \/ DispatcherStep \/ (UserStep /\ UNCHANGED serverVars)
           \/ DropDispatcher \/ UNCHANGED vars
  BY <1>5, QuietSent DEF SelectionChanged, DispatcherStep, TakeCall, Dispatch, RespondTo,
     PushInitialSelection, OpenDiffForReview, FinishOpenDiff, DropDispatcher, vars, serverVars,
     connVars, callVars
<1>6. CASE DropServer
  BY <1>6, QuietSent DEF DropServer, callVars
<1> QED BY <1>1, <1>2, <1>4, <1>5, <1>6 DEF Next, ConnectionStep

-----------------------------------------------------------------------------
(* The dispatcher. *)

\* Steps of others: what is on its way stays awaited.
LEMMA QuietCalls ==
    ASSUME DispatchInv, UNCHANGED <<step, current, dispatcherUp, calls, reply, reviewOf>>,
           \A x : Read(x) => Read(x)',
           dispatcherUp => \A c \in Conn : conn[c] = "awaiting" /\ reply[awaited[c]] = "none" =>
               conn'[c] = "awaiting" /\ awaited'[c] = awaited[c],
           \A p \in Pane : sender'[p] => sender[p]
    PROVE  CallsSound'
<1>1. CallsSound /\ calls \in Seq(Request)
  BY DEF DispatchInv, TypeOK
<1>2. dispatcherUp => \A x : Awaited(x) => Awaited(x)'
  BY DEF Awaited
<1>3. CASE dispatcherUp
  BY <1>1, <1>2, <1>3 DEF CallsSound
<1>4. CASE ~dispatcherUp
  <2>1. step = "idle" /\ calls = <<>> /\ DOMAIN calls = {}
    BY <1>1, <1>4 DEF CallsSound
  <2> QED BY <1>1, <1>4, <2>1 DEF CallsSound
<1> QED BY <1>3, <1>4

\* A frame is forwarded: it is in no other call, and its connection waits.
LEMMA ForwardKeepsCalls ==
    ASSUME DispatchInv, NEW c \in Conn, ForwardFrame(c)
    PROVE  CallsSound'
<1> DEFINE r == Head(inbox[c])
<1>1. /\ ReadFrame(c) /\ dispatcherUp /\ calls' = Append(calls, r) /\ conn[c] = "loop"
      /\ UNCHANGED <<step, current, dispatcherUp, reply, reviewOf, sender, sent>>
  BY DEF ForwardFrame, ReadFrame, upVars, diffVars
<1>2. /\ conn'[c] = "awaiting" /\ awaited'[c] = r
      /\ \A d \in Conn : d # c => conn'[d] = conn[d] /\ awaited'[d] = awaited[d]
  BY DEF ForwardFrame, DispatchInv, TypeOK
<1>3. r \in Request /\ ~Read(r) /\ \A x : Read(x) \/ x = r => Read(x)'
  BY <1>1, ReadFacts
<1>4. CallsSound /\ calls \in Seq(Request) /\ TypeOK
  BY DEF DispatchInv, TypeOK
<1> HIDE DEF r
<1>5. reply[r] = "none" /\ current # r /\ \A i \in DOMAIN calls : calls[i] # r
  BY <1>3, <1>4, NoRequestAssumption DEF CallsSound
<1>6. \A x : Awaited(x) \/ x = r => Awaited(x)'
  BY <1>1, <1>2, <1>5 DEF Awaited
<1>7. /\ DOMAIN calls' = 1..(Len(calls) + 1) /\ DOMAIN calls = 1..Len(calls) /\ Len(calls) \in Nat
      /\ calls'[Len(calls) + 1] = r
      /\ \A i \in 1..Len(calls) : calls'[i] = calls[i]
  BY <1>1, <1>3, <1>4
<1>8. \A i \in DOMAIN calls' : i \in DOMAIN calls \/ i = Len(calls) + 1
  BY <1>7
<1>9. \A i \in DOMAIN calls' : (Read(calls[i]) /\ Awaited(calls[i]) /\ calls[i] # current)'
  BY <1>1, <1>3, <1>4, <1>5, <1>6, <1>7, <1>8 DEF CallsSound
<1>10. \A i, j \in DOMAIN calls' : calls'[i] = calls'[j] => i = j
  BY <1>4, <1>5, <1>7, <1>8 DEF CallsSound
<1> QED BY <1>1, <1>3, <1>4, <1>6, <1>9, <1>10 DEF CallsSound

\* The next call is taken.
LEMMA TakeCallKeepsCalls ==
    ASSUME DispatchInv, TakeCall
    PROVE  CallsSound'
<1>1. /\ dispatcherUp /\ step = "idle" /\ calls # <<>> /\ current' = Head(calls)
      /\ calls' = Tail(calls) /\ step' = "running"
      /\ UNCHANGED <<dispatcherUp, reply, reviewOf, sender, sent, inbox, conn, awaited>>
  BY DEF TakeCall, connVars, upVars, diffVars
<1>2. CallsSound /\ calls \in Seq(Request)
  BY DEF DispatchInv, TypeOK
<1>3. /\ DOMAIN calls = 1..Len(calls) /\ Len(calls) \in Nat /\ 1 \in DOMAIN calls
      /\ current' = calls[1] /\ calls[1] \in Request
      /\ DOMAIN calls' = 1..(Len(calls) - 1)
      /\ \A i \in 1..(Len(calls) - 1) : i + 1 \in DOMAIN calls /\ calls'[i] = calls[i + 1] /\ i \in Nat
  BY <1>1, <1>2
<1>4. \A x : (Read(x)' <=> Read(x)) /\ (Awaited(x)' <=> Awaited(x))
  BY <1>1, SameRead DEF Awaited
<1>5. \A i \in DOMAIN calls' : (Read(calls[i]) /\ Awaited(calls[i]) /\ calls[i] # current)'
  <2> SUFFICES ASSUME NEW i \in 1..(Len(calls) - 1)
               PROVE  (Read(calls[i]) /\ Awaited(calls[i]) /\ calls[i] # current)'
    BY <1>3
  <2>1. i + 1 \in DOMAIN calls /\ calls'[i] = calls[i + 1] /\ i + 1 # 1
    BY <1>3
  <2>2. Read(calls[i + 1]) /\ Awaited(calls[i + 1]) /\ calls[i + 1] # calls[1]
    BY <1>2, <1>3, <2>1 DEF CallsSound
  <2> QED BY <1>3, <1>4, <2>1, <2>2
<1>6. \A i, j \in DOMAIN calls' : calls'[i] = calls'[j] => i = j
  <2> SUFFICES ASSUME NEW i \in 1..(Len(calls) - 1), NEW j \in 1..(Len(calls) - 1),
                      calls'[i] = calls'[j]
               PROVE  i = j
    BY <1>3
  <2>1. i + 1 \in DOMAIN calls /\ j + 1 \in DOMAIN calls /\ calls[i + 1] = calls[j + 1]
    BY <1>3
  <2>2. i + 1 = j + 1
    BY <1>2, <2>1 DEF CallsSound
  <2> QED BY <1>3, <2>2
<1>7. (current # NoRequest /\ Read(current) /\ Awaited(current))'
  BY <1>2, <1>3, <1>4, NoRequestAssumption DEF CallsSound
<1>8. \A p \in Pane : ~sender'[p]
  BY <1>1, <1>2 DEF CallsSound
<1> QED BY <1>1, <1>2, <1>4, <1>5, <1>6, <1>7, <1>8 DEF CallsSound

\* A call is answered, and the loop is done with it or has only to push.
LEMMA RespondKeepsCalls ==
    ASSUME DispatchInv, NEW x, x # "none", NEW next \in {"idle", "push"}, RespondTo(x, next),
           step \in {"running", "review"},
           \A p \in Pane : ~sender[p],
           UNCHANGED <<diffVars, connVars, upVars, sent>>
    PROVE  CallsSound'
<1>1. CallsSound /\ calls \in Seq(Request) /\ reply \in [Request -> {"none", "result", "error",
                             "FILE_SAVED", "DIFF_REJECTED", "TAB_CLOSED"}] /\ dispatcherUp
  BY DEF DispatchInv, TypeOK, CallsSound
<1>2. current # NoRequest /\ current \in Request /\ Read(current)
  BY <1>1 DEF DispatchInv, TypeOK, CallsSound
<1>3. /\ reply' = [reply EXCEPT ![current] = x] /\ step' = next
      /\ current' = IF next = "idle" THEN NoRequest ELSE current
      /\ UNCHANGED <<calls, reviewOf, dispatcherUp, sender, sent, inbox, conn, awaited>>
  BY DEF RespondTo, connVars, upVars, diffVars
<1>4. \A r : Read(r)' <=> Read(r)
  BY <1>3, SameRead
<1>5. \A r \in Request : r # current => (Awaited(r)' <=> Awaited(r))
  BY <1>1, <1>3 DEF Awaited
<1>6. \A i \in DOMAIN calls : calls[i] \in Request
  BY <1>1
<1>7. \A i \in DOMAIN calls' : (Read(calls[i]) /\ Awaited(calls[i]) /\ calls[i] # current)'
  BY <1>1, <1>3, <1>4, <1>5, <1>6, NoRequestAssumption DEF CallsSound
<1>8. \A r \in Request : reply'[r] # "none" => Read(r)'
  BY <1>1, <1>2, <1>3, <1>4 DEF CallsSound
<1> QED BY <1>1, <1>2, <1>3, <1>4, <1>7, <1>8 DEF CallsSound

\* The loop has pushed the selection and is ready.
LEMMA PushKeepsCalls ==
    ASSUME DispatchInv, PushInitialSelection
    PROVE  CallsSound'
<1>1. CallsSound /\ calls \in Seq(Request)
  BY DEF DispatchInv, TypeOK
<1>2. /\ step = "push" /\ step' = "idle" /\ current' = NoRequest
      /\ UNCHANGED <<calls, reply, reviewOf, dispatcherUp, sender, sent, inbox, conn, awaited>>
  BY DEF PushInitialSelection, upVars, diffVars
<1>3. \A x : (Read(x)' <=> Read(x)) /\ (Awaited(x)' <=> Awaited(x))
  BY <1>2, SameRead DEF Awaited
<1>4. \A i \in DOMAIN calls : calls[i] \in Request
  BY <1>1
<1>5. \A i \in DOMAIN calls' : (Read(calls[i]) /\ Awaited(calls[i]) /\ calls[i] # current)'
  BY <1>1, <1>2, <1>3, <1>4, NoRequestAssumption DEF CallsSound
<1> QED BY <1>1, <1>2, <1>3, <1>5 DEF CallsSound

\* A pane is opened for the call that the loop is in.
LEMMA OpenKeepsCalls ==
    ASSUME DispatchInv, NEW p \in Pane, OpenDiffForReview(p)
    PROVE  CallsSound'
<1>1. CallsSound /\ TypeOK
  BY DEF DispatchInv
<1>2. /\ step = "running" /\ step' = "review" /\ SpawnDiffReview(p, NoTab)
      /\ reviewOf' = [reviewOf EXCEPT ![current] = p]
      /\ UNCHANGED <<calls, current, reply, dispatcherUp, sent, inbox, conn, awaited>>
  BY DEF OpenDiffForReview, connVars, upVars
<1>3. \A x : (Read(x)' <=> Read(x)) /\ (Awaited(x)' <=> Awaited(x))
  BY <1>2, SameRead DEF Awaited
<1>4. current # NoRequest /\ current \in Request
  BY <1>1, <1>2 DEF CallsSound, TypeOK
<1>5. reviewOf'[current'] = p /\ p # NoPane
  BY <1>1, <1>2, <1>4, NoPaneAssumption DEF TypeOK
<1>6. \A q \in Pane : sender'[q] => q = p
  BY <1>1, <1>2 DEF CallsSound, SpawnDiffReview, TypeOK, DiffTypeOK
<1>7. dispatcherUp
  BY <1>1, <1>2 DEF CallsSound
<1> QED BY <1>1, <1>2, <1>3, <1>4, <1>5, <1>6, <1>7 DEF CallsSound

\* Every call that is queued or being dispatched stays one that is waited for.
LEMMA CallsKept == DispatchInv /\ [Next]_vars => CallsSound'
<1> SUFFICES ASSUME DispatchInv, [Next]_vars PROVE CallsSound'
  OBVIOUS
<1>0. TypeOK /\ CallsSound /\ DiffInv
  BY DEF DispatchInv
<1>1. ASSUME NEW c \in Conn, NEW r \in Request, NEW m \in Method, ClientSend(c, r, m)
      PROVE  CallsSound'
  <2>1. \A x : Read(x) => Read(x)'
    BY <1>1, SendFacts
  <2> QED BY <1>1, <2>1, QuietCalls DEF ClientSend, upVars, diffVars
<1>2. ASSUME NEW c \in Conn, ClientGone(c) \/ Subscribe(c) \/ EndConnection(c)
                             \/ WriteOutgoing(c)
      PROVE  CallsSound'
  <2>1. /\ UNCHANGED <<step, current, dispatcherUp, calls, reply, reviewOf, sender, sent, inbox,
                       awaited>>
        /\ \A d \in Conn : conn[d] = "awaiting" => conn'[d] = "awaiting"
    BY <1>0, <1>2 DEF TypeOK, ClientGone, Subscribe, EndConnection, WriteOutgoing, callVars,
                      upVars, diffVars
  <2> QED BY <2>1, SameRead, QuietCalls
<1>3. ASSUME NEW c \in Conn, TakeReply(c)
      PROVE  CallsSound'
  <2>1. /\ UNCHANGED <<step, current, dispatcherUp, calls, reply, reviewOf, sender, sent, inbox>>
        /\ \A d \in Conn : d # c => conn'[d] = conn[d] /\ awaited'[d] = awaited[d]
        /\ reply[awaited[c]] # "none" \/ ~dispatcherUp
    BY <1>0, <1>3 DEF TypeOK, TakeReply, callVars, upVars, diffVars
  <2> QED BY <2>1, SameRead, QuietCalls
<1>4. ASSUME NEW c \in Conn, HandleFrameInline(c)
      PROVE  CallsSound'
  <2>1. /\ ReadFrame(c)
        /\ UNCHANGED <<step, current, dispatcherUp, calls, reply, reviewOf, sender, sent, conn,
                       awaited>>
    BY <1>4 DEF HandleFrameInline, callVars, upVars, diffVars
  <2>2. \A x : Read(x) => Read(x)'
    BY <2>1, ReadFacts
  <2> QED BY <2>1, <2>2, QuietCalls
<1>5. CASE SelectionChanged \/ DropServer \/ UNCHANGED vars
  <2>1. /\ UNCHANGED <<step, current, dispatcherUp, calls, reply, reviewOf, sender, sent, inbox,
                       awaited>>
        /\ dispatcherUp => UNCHANGED conn
    BY <1>5 DEF SelectionChanged, DropServer, vars, serverVars, connVars, callVars, upVars, diffVars
  <2> QED BY <2>1, SameRead, QuietCalls
<1>6. CASE UserStep /\ UNCHANGED serverVars
  <2>1. \A p \in Pane : sender'[p] => sender[p]
    BY <1>0, <1>6 DEF UserStep, Resolve, DropPane, TakeAndSend, TypeOK, DiffTypeOK
  <2>2. UNCHANGED <<step, current, dispatcherUp, calls, reply, reviewOf, sent, inbox, awaited, conn>>
    BY <1>6 DEF serverVars, connVars, callVars, upVars
  <2> QED BY <2>1, <2>2, SameRead, QuietCalls
<1>7. CASE Dispatch
  <2>1. \A p \in Pane : ~sender[p]
    BY <1>0, <1>7 DEF Dispatch, CallsSound
  <2> QED BY <1>7, <2>1, RespondKeepsCalls DEF Dispatch
<1>8. CASE FinishOpenDiff
  <2> DEFINE p == reviewOf[current]
  <2>1. step = "review" /\ dispatcherUp /\ p \in Pane /\ oneshot[p] \in Decision
    BY <1>0, <1>8 DEF FinishOpenDiff, CallsSound, TypeOK
  <2>2. ~sender[p]
    BY <1>0, <2>1 DEF DiffInv, DecisionIsFirstEvent, SlotsConsistent, Decision
  <2>3. \A q \in Pane : ~sender[q]
    BY <1>0, <2>1, <2>2 DEF CallsSound
  <2>4. OpenDiffResponse[oneshot[p]] # "none"
    BY <2>1 DEF OpenDiffResponse
  <2> QED BY <1>8, <2>1, <2>3, <2>4, RespondKeepsCalls DEF FinishOpenDiff
<1>9. CASE DropDispatcher
  <2>1. /\ ~dispatcherUp' /\ step' = "idle" /\ calls' = <<>> /\ current' = NoRequest
        /\ UNCHANGED <<reply, sent, inbox>>
    BY <1>9 DEF DropDispatcher, connVars
  <2> QED BY <1>0, <2>1, SameRead DEF CallsSound
<1> QED BY <1>1, <1>2, <1>3, <1>4, <1>5, <1>6, <1>7, <1>8, <1>9, ForwardKeepsCalls,
           TakeCallKeepsCalls, PushKeepsCalls, OpenKeepsCalls
        DEF Next, ConnectionStep, DispatcherStep

\* What is said of the replies: a decision is passed on as it was made, and the
\* first event of a pane stays the first.
LEMMA RepliesKept == DispatchInv /\ [Next]_vars => ReplyIsFirstEvent'
<1> SUFFICES ASSUME DispatchInv, [Next]_vars PROVE ReplyIsFirstEvent'
  OBVIOUS
<1>0. TypeOK /\ CallsSound /\ DiffInv /\ ReplyIsFirstEvent
  BY DEF DispatchInv
<1>1. ASSUME UNCHANGED <<reply, reviewOf>>,
             \A p \in Pane : verdict[p] # "none" => verdict'[p] = verdict[p]
      PROVE  ReplyIsFirstEvent'
  BY <1>0, <1>1, ZenonT(60) DEF ReplyIsFirstEvent, TypeOK
<1>2. CASE Dispatch
  <2>1. /\ UNCHANGED <<verdict, reviewOf>> /\ current \in Request
        /\ reply' = [reply EXCEPT ![current] = IF method[current] = "openDiff" THEN "error"
                                               ELSE "result"]
    BY <1>0, <1>2 DEF Dispatch, RespondTo, diffVars, CallsSound, TypeOK
  <2> QED BY <1>0, <2>1 DEF ReplyIsFirstEvent, TypeOK
<1>3. CASE FinishOpenDiff
  <2> DEFINE p == reviewOf[current]
  <2>1. /\ UNCHANGED <<verdict, reviewOf>> /\ current \in Request /\ p # NoPane /\ p \in Pane
        /\ reply' = [reply EXCEPT ![current] = OpenDiffResponse[oneshot[p]]]
        /\ oneshot[p] \in Decision
    BY <1>0, <1>3 DEF FinishOpenDiff, RespondTo, diffVars, CallsSound, TypeOK
  <2>2. oneshot[p] = verdict[p] /\ verdict[p] # "none"
    BY <1>0, <2>1 DEF DiffInv, DecisionIsFirstEvent, Decision
  <2> QED BY <1>0, <2>1, <2>2 DEF ReplyIsFirstEvent, TypeOK
<1>4. ASSUME NEW p \in Pane, OpenDiffForReview(p)
      PROVE  ReplyIsFirstEvent'
  <2>1. /\ UNCHANGED <<verdict, reply>> /\ current \in Request /\ reply[current] = "none"
        /\ reviewOf' = [reviewOf EXCEPT ![current] = p]
    BY <1>0, <1>4 DEF OpenDiffForReview, SpawnDiffReview, CallsSound, TypeOK, Awaited
  <2> QED BY <1>0, <2>1 DEF ReplyIsFirstEvent, TypeOK
<1>5. CASE UserStep /\ UNCHANGED serverVars
  <2>1. \A p \in Pane : verdict[p] # "none" => verdict'[p] = verdict[p]
    BY <1>0, <1>5 DEF UserStep, Resolve, DropPane, Judge, TypeOK, DiffTypeOK
  <2> QED BY <1>1, <1>5, <2>1 DEF serverVars, callVars
<1>6. CASE DropDispatcher
  BY <1>1, <1>6 DEF DropDispatcher, AbandonReview, diffVars
<1>7. CASE \/ \E c \in Conn, r \in Request, m \in Method : ClientSend(c, r, m)
           \/ \E c \in Conn : ClientGone(c) \/ Subscribe(c) \/ ConnectionStep(c)
           \/ SelectionChanged \/ TakeCall \/ PushInitialSelection \/ DropServer \/ UNCHANGED vars
  <2>1. UNCHANGED <<reply, reviewOf, verdict>>
    BY <1>7 DEF ClientSend, ClientGone, Subscribe, ConnectionStep, WriteOutgoing, HandleFrameInline,
       ForwardFrame, TakeReply, EndConnection, SelectionChanged, TakeCall, PushInitialSelection,
       DropServer, vars, serverVars, callVars, diffVars
  <2> QED BY <1>1, <2>1
<1> QED BY <1>2, <1>3, <1>4, <1>5, <1>6, <1>7 DEF Next, DispatcherStep

\* Nothing has been sent and no pane is open.
LEMMA DispatchInitHolds == Init => DispatchInv
<1> SUFFICES ASSUME Init PROVE DispatchInv
  OBVIOUS
<1>1. DiffInv
  BY DiffInitHolds DEF Init
<1>2. <<>> \in Seq(Request) /\ <<>> \in Seq(Frame)
  OBVIOUS
<1>3. TypeOK
  BY <1>1, <1>2, MaxSelectionAssumption DEF Init, TypeOK, DiffInv
<1>4. SentSound
  BY DEF Init, SentSound, Seen
<1>5. CallsSound
  BY DEF Init, DiffInit, CallsSound
<1>6. ReplyIsFirstEvent
  BY DEF Init, ReplyIsFirstEvent
<1> QED BY <1>1, <1>3, <1>4, <1>5, <1>6 DEF DispatchInv

\* Every step keeps what is known of the requests, the dispatcher and the panes.
THEOREM DispatchInvariance == Spec => []DispatchInv
<1>1. DispatchInv /\ [Next]_vars => DispatchInv'
  BY TypesKept, DiffKept, SentKept, CallsKept, RepliesKept DEF DispatchInv
<1> QED BY <1>1, DispatchInitHolds, PTL DEF Spec

\* The connections, the dispatcher and the panes keep their types.
THEOREM ClaudeTypeCorrect == Spec => []TypeOK
<1>1. DispatchInv => TypeOK
  BY DEF DispatchInv
<1> QED BY <1>1, DispatchInvariance, PTL

\* What an openDiff is answered is what first happened to its own pane.
THEOREM ClaudeRepliesAreFirstEvents == Spec => []ReplyIsFirstEvent
<1>1. DispatchInv => ReplyIsFirstEvent
  BY DEF DispatchInv
<1> QED BY <1>1, DispatchInvariance, PTL

\* At most one review of the attachment waits for the user, and the connection
\* that asked for it is still there.
THEOREM ClaudePendingDiffsAreCurrent == Spec => []PendingDiffIsCurrent
<1>1. DispatchInv => PendingDiffIsCurrent
  BY DEF DispatchInv, CallsSound, PendingDiffIsCurrent, Awaited
<1> QED BY <1>1, DispatchInvariance, PTL

-----------------------------------------------------------------------------
(* The order of the responses. *)

\* Nothing is read, written or answered on the connection: at most a frame
\* that is no response is queued, or the connection ends or begins.
LEMMA QuietOrder ==
    ASSUME DispatchInv, NEW c \in Conn, Ordered(c),
           wrote'[c] = wrote[c], Seen(c)' = Seen(c),
           \A i \in 1..Len(sent[c]) : /\ sent'[c][i] = sent[c][i]
                                      /\ method'[sent[c][i]] = method[sent[c][i]],
           \/ out'[c] = out[c]
           \/ \E f : f \notin Request /\ out'[c] = Append(out[c], f),
           \/ conn'[c] \in {conn[c], "gone"}
           \/ conn[c] = "unopened" /\ conn'[c] = "loop"
    PROVE  Ordered(c)'
<1>1. \A i \in 1..Seen(c) : i \in 1..Len(sent[c])
  BY SeenType
<1>2. \A i \in 1..Seen(c) : /\ sent'[c][i] = sent[c][i] /\ sent[c][i] \in Request
                            /\ (\A x : x = sent[c][i] => (Answered(x)' <=> Answered(x)))
  BY <1>1, SeenType DEF Answered
<1>3. Seen(c) \in Nat /\ out[c] \in Seq(Frame)
  BY SeenType DEF DispatchInv, TypeOK
<1>4. WroteInOrder(c)'
  <2> SUFFICES ASSUME NEW i \in DOMAIN wrote[c], wrote[c][i] \in Request
               PROVE  /\ Answered(wrote[c][i])'
                      /\ \A g \in 1..(i - 1) : wrote[c][g] # wrote[c][i]
                      /\ \E j \in 1..Seen(c) :
                            /\ sent'[c][j] = wrote[c][i]
                            /\ \A h \in 1..(j - 1) : Answered(sent[c][h])' =>
                                  \E g \in 1..(i - 1) : wrote[c][g] = sent'[c][h]
    BY DEF WroteInOrder
  <2>1. /\ Answered(wrote[c][i])
        /\ \A g \in 1..(i - 1) : wrote[c][g] # wrote[c][i]
    BY DEF Ordered, WroteInOrder
  <2>2. PICK j \in 1..Seen(c) :
            /\ sent[c][j] = wrote[c][i]
            /\ \A h \in 1..(j - 1) : Answered(sent[c][h]) =>
                  \E g \in 1..(i - 1) : wrote[c][g] = sent[c][h]
    BY DEF Ordered, WroteInOrder
  <2>3. Answered(wrote[c][i])'
    BY <1>2, <2>1, <2>2
  <2>4. \A h \in 1..(j - 1) : h \in 1..Seen(c)
    BY <1>3
  <2>5. \A h \in 1..(j - 1) : Answered(sent[c][h])' => \E g \in 1..(i - 1) : wrote[c][g] = sent'[c][h]
    BY <1>2, <2>2, <2>4
  <2> QED BY <1>2, <2>1, <2>2, <2>3, <2>5
<1>5. \A i \in DOMAIN out'[c] : out'[c][i] \in Request => i \in DOMAIN out[c] /\ out'[c][i] = out[c][i]
  BY <1>3, SMTT(30)
<1>6. \A i \in DOMAIN out[c] : i \in DOMAIN out'[c] /\ out'[c][i] = out[c][i]
  BY <1>3, SMTT(30)
<1>7. \A x : Wrote(c, x)' <=> Wrote(c, x)
  BY DEF Wrote
<1>8. QueuedIsLast(c)'
  <2> SUFFICES ASSUME NEW i \in DOMAIN out'[c], out'[c][i] \in Request
               PROVE  /\ conn'[c] \in {"loop", "gone"}
                      /\ Seen(c) >= 1
                      /\ out'[c][i] = sent'[c][Seen(c)]
                      /\ Answered(out[c][i])'
                      /\ ~Wrote(c, out[c][i])'
                      /\ \A j \in DOMAIN out'[c] : out'[c][j] \in Request => j = i
    BY DEF QueuedIsLast
  <2>1. i \in DOMAIN out[c] /\ out'[c][i] = out[c][i]
    BY <1>5
  <2>2. /\ conn[c] \in {"loop", "gone"}
        /\ Seen(c) >= 1
        /\ out[c][i] = sent[c][Seen(c)]
        /\ Answered(out[c][i])
        /\ ~Wrote(c, out[c][i])
        /\ \A j \in DOMAIN out[c] : out[c][j] \in Request => j = i
    BY <2>1 DEF Ordered, QueuedIsLast
  <2>3. Seen(c) \in 1..Seen(c)
    BY <1>3, <2>2
  <2>4. out'[c][i] = sent'[c][Seen(c)] /\ Answered(out[c][i])'
    BY <1>2, <2>1, <2>2, <2>3
  <2>5. ~Wrote(c, out[c][i])'
    BY <1>7, <2>1, <2>2
  <2>6. conn'[c] \in {"loop", "gone"}
    BY <2>2
  <2> QED BY <1>5, <2>2, <2>4, <2>5, <2>6
<1>9. EarlierWritten(c)'
  <2>1. \A h \in 1..(Seen(c) - 1) : Answered(sent[c][h])' => Wrote(c, sent[c][h])'
    <3>1. \A h \in 1..(Seen(c) - 1) : h \in 1..Seen(c)
      BY <1>3
    <3> QED BY <1>2, <1>7, <3>1 DEF Ordered, EarlierWritten
  <2>2. CASE Seen(c) >= 1
    <3>1. /\ sent'[c][Seen(c)] = sent[c][Seen(c)]
          /\ \A x : x = sent[c][Seen(c)] => (Answered(x)' <=> Answered(x))
      BY <1>2, <1>3, <2>2
    <3>2. conn'[c] = "awaiting" => ~Wrote(c, sent[c][Seen(c)])'
      BY <1>7, <3>1 DEF Ordered, EarlierWritten
    <3>3. ASSUME conn'[c] = "loop", Answered(sent[c][Seen(c)])'
          PROVE  \/ Wrote(c, sent[c][Seen(c)])'
                 \/ \E i \in DOMAIN out'[c] : out'[c][i] = sent'[c][Seen(c)]
      <4>1. conn[c] = "loop"
        <5>1. conn[c] = "unopened" => Len(sent[c]) = 0
          BY DEF DispatchInv, SentSound
        <5>2. conn[c] # "unopened"
          BY <1>3, <2>2, <5>1, SeenType
        <5> QED BY <3>3, <5>2
      <4>2. Answered(sent[c][Seen(c)])
        BY <3>1, <3>3
      <4>3. \/ Wrote(c, sent[c][Seen(c)])
            \/ \E i \in DOMAIN out[c] : out[c][i] = sent[c][Seen(c)]
        BY <2>2, <4>1, <4>2 DEF Ordered, EarlierWritten
      <4> QED BY <1>6, <1>7, <3>1, <4>3
    <3> QED BY <2>1, <3>2, <3>3 DEF EarlierWritten
  <2>3. CASE ~(Seen(c) >= 1)
    <3>1. conn'[c] # "awaiting"
      BY <2>3 DEF DispatchInv, SentSound
    <3> QED BY <2>1, <2>3, <3>1 DEF EarlierWritten
  <2> QED BY <2>2, <2>3
<1> QED BY <1>4, <1>8, <1>9 DEF Ordered

-----------------------------------------------------------------------------
(* The steps that move responses. *)

\* A queued frame is written, or the write fails and ends the connection.
LEMMA WriteOrder ==
    ASSUME DispatchInv, NEW c \in Conn, Ordered(c), WriteOutgoing(c)
    PROVE  Ordered(c)'
<1> DEFINE x == Head(out[c])
           w == wrote[c]
           q == out[c]
<1>1. /\ q \in Seq(Frame) /\ w \in Seq(Frame) /\ q # <<>> /\ conn[c] = "loop"
      /\ out'[c] = Tail(q) /\ UNCHANGED <<method, sent, inbox>>
      /\ \/ wrote'[c] = Append(w, x) /\ conn'[c] = "loop"
         \/ wrote'[c] = w /\ conn'[c] = "gone"
  BY DEF DispatchInv, TypeOK, WriteOutgoing, callVars
<1>2. /\ DOMAIN q = 1..Len(q) /\ Len(q) \in Nat /\ 1 \in DOMAIN q /\ x = q[1] /\ x \in Frame
      /\ DOMAIN Tail(q) = 1..(Len(q) - 1)
      /\ \A i \in 1..(Len(q) - 1) : i \in Nat /\ i + 1 \in DOMAIN q /\ Tail(q)[i] = q[i + 1]
  BY <1>1
<1>3. DOMAIN w = 1..Len(w) /\ Len(w) \in Nat
  BY <1>1
<1>4. (\A d \in Conn : Seen(d)' = Seen(d)) /\ \A y : Answered(y)' <=> Answered(y)
  BY <1>1, SameRead DEF Answered
<1>5. Seen(c) \in Nat
  BY SeenType
<1>6. WroteInOrder(c) /\ QueuedIsLast(c) /\ EarlierWritten(c)
  BY DEF Ordered
<1>7. x \in Request => /\ Seen(c) >= 1 /\ x = sent[c][Seen(c)] /\ Answered(x) /\ ~Wrote(c, x)
                       /\ \A j \in DOMAIN q : q[j] \in Request => j = 1
  BY <1>2, <1>6 DEF QueuedIsLast
<1>8. CASE wrote'[c] = Append(w, x) /\ conn'[c] = "loop"
  <2>1. /\ DOMAIN wrote'[c] = 1..(Len(w) + 1)
        /\ \A i \in 1..Len(w) : wrote'[c][i] = w[i]
        /\ wrote'[c][Len(w) + 1] = x
    BY <1>1, <1>2, <1>8
  <2>2. \A y : Wrote(c, y)' <=> Wrote(c, y) \/ y = x
    <3> SUFFICES ASSUME NEW y PROVE Wrote(c, y)' <=> Wrote(c, y) \/ y = x
      OBVIOUS
    <3>1. ASSUME NEW g \in DOMAIN w, w[g] = y PROVE g \in DOMAIN wrote'[c] /\ wrote'[c][g] = y
      BY <1>3, <2>1, <3>1
    <3>2. ASSUME NEW g \in DOMAIN wrote'[c], wrote'[c][g] = y
          PROVE  (g \in DOMAIN w /\ w[g] = y) \/ y = x
      BY <1>3, <2>1, <3>2
    <3>3. Len(w) + 1 \in DOMAIN wrote'[c]
      BY <1>3, <2>1
    <3> QED BY <2>1, <3>1, <3>2, <3>3 DEF Wrote
  <2>3. WroteInOrder(c)'
    <3> SUFFICES ASSUME NEW i \in DOMAIN wrote'[c], wrote'[c][i] \in Request
                 PROVE  /\ Answered(wrote'[c][i])
                        /\ \A g \in 1..(i - 1) : wrote'[c][g] # wrote'[c][i]
                        /\ \E j \in 1..Seen(c) :
                              /\ sent[c][j] = wrote'[c][i]
                              /\ \A h \in 1..(j - 1) : Answered(sent[c][h]) =>
                                    \E g \in 1..(i - 1) : wrote'[c][g] = sent[c][h]
      BY <1>1, <1>4 DEF WroteInOrder
    <3>1. CASE i \in 1..Len(w)
      <4>1. w[i] \in Request /\ wrote'[c][i] = w[i] /\ \A g \in 1..(i - 1) : wrote'[c][g] = w[g]
        BY <1>3, <2>1, <3>1
      <4>2. i \in DOMAIN w
        BY <1>3, <3>1
      <4> QED BY <1>6, <4>1, <4>2 DEF WroteInOrder
    <3>2. CASE i = Len(w) + 1
      <4>1. x \in Request /\ wrote'[c][i] = x /\ i - 1 = Len(w)
        BY <1>3, <2>1, <3>2
      <4>2. \A g \in 1..(i - 1) : wrote'[c][g] # x
        BY <1>3, <1>7, <2>1, <4>1 DEF Wrote
      <4>3. \A h \in 1..(Seen(c) - 1) : Answered(sent[c][h]) =>
                \E g \in 1..(i - 1) : wrote'[c][g] = sent[c][h]
        BY <1>3, <1>6, <2>1, <4>1 DEF EarlierWritten, Wrote
      <4>4. Seen(c) \in 1..Seen(c)
        BY <1>5, <1>7, <4>1
      <4> QED BY <1>7, <4>1, <4>2, <4>3, <4>4
    <3> QED BY <1>3, <2>1, <3>1, <3>2
  <2>4. QueuedIsLast(c)'
    <3> SUFFICES ASSUME NEW i \in 1..(Len(q) - 1), Tail(q)[i] \in Request
                 PROVE  /\ Seen(c) >= 1
                        /\ Tail(q)[i] = sent[c][Seen(c)]
                        /\ Answered(Tail(q)[i])
                        /\ ~(Wrote(c, Tail(q)[i]) \/ Tail(q)[i] = x)
                        /\ \A j \in 1..(Len(q) - 1) : Tail(q)[j] \in Request => j = i
      BY <1>1, <1>2, <1>4, <1>8, <2>2 DEF QueuedIsLast
    <3>1. i \in Nat /\ i + 1 \in DOMAIN q /\ Tail(q)[i] = q[i + 1]
      BY <1>2
    <3>2. /\ Seen(c) >= 1 /\ q[i + 1] = sent[c][Seen(c)] /\ Answered(q[i + 1])
          /\ ~Wrote(c, q[i + 1])
          /\ \A j \in DOMAIN q : q[j] \in Request => j = i + 1
      BY <1>6, <3>1 DEF QueuedIsLast
    <3>3. q[i + 1] # x
      BY <1>2, <3>1, <3>2
    <3>4. \A j \in 1..(Len(q) - 1) : Tail(q)[j] \in Request => j = i
      <4> SUFFICES ASSUME NEW j \in 1..(Len(q) - 1), Tail(q)[j] \in Request PROVE j = i
        OBVIOUS
      <4>1. j + 1 = i + 1
        BY <1>2, <3>2
      <4> QED BY <1>2, <4>1
    <3> QED BY <3>1, <3>2, <3>3, <3>4
  <2>5. EarlierWritten(c)'
    <3>1. \A h \in 1..(Seen(c) - 1) : Answered(sent[c][h])' => Wrote(c, sent[c][h])'
      BY <1>1, <1>4, <1>6, <2>2 DEF EarlierWritten
    <3>2. ASSUME Seen(c) >= 1, Answered(sent[c][Seen(c)])
          PROVE  \/ Wrote(c, sent[c][Seen(c)]) \/ sent[c][Seen(c)] = x
                 \/ \E i \in 1..(Len(q) - 1) : Tail(q)[i] = sent[c][Seen(c)]
      <4>1. CASE Wrote(c, sent[c][Seen(c)])
        BY <4>1
      <4>2. ASSUME NEW i \in DOMAIN q, q[i] = sent[c][Seen(c)], i # 1
            PROVE  \E k \in 1..(Len(q) - 1) : Tail(q)[k] = sent[c][Seen(c)]
        <5>1. i - 1 \in 1..(Len(q) - 1) /\ (i - 1) + 1 = i
          BY <1>2, <4>2
        <5> QED BY <1>2, <4>2, <5>1
      <4> QED BY <1>1, <1>2, <1>6, <3>2, <4>1, <4>2 DEF EarlierWritten
    <3> QED BY <1>1, <1>2, <1>4, <1>8, <2>2, <3>1, <3>2 DEF EarlierWritten
  <2> QED BY <2>3, <2>4, <2>5 DEF Ordered
<1>9. CASE wrote'[c] = w /\ conn'[c] = "gone"
  <2>1. \A y : Wrote(c, y)' <=> Wrote(c, y)
    BY <1>9 DEF Wrote
  <2>2. WroteInOrder(c)'
    BY <1>1, <1>4, <1>6, <1>9 DEF WroteInOrder
  <2>3. QueuedIsLast(c)'
    <3> SUFFICES ASSUME NEW i \in 1..(Len(q) - 1), Tail(q)[i] \in Request
                 PROVE  /\ Seen(c) >= 1
                        /\ Tail(q)[i] = sent[c][Seen(c)]
                        /\ Answered(Tail(q)[i])
                        /\ ~Wrote(c, Tail(q)[i])
                        /\ \A j \in 1..(Len(q) - 1) : Tail(q)[j] \in Request => j = i
      BY <1>1, <1>2, <1>4, <1>9, <2>1 DEF QueuedIsLast
    <3>1. i \in Nat /\ i + 1 \in DOMAIN q /\ Tail(q)[i] = q[i + 1]
      BY <1>2
    <3>2. /\ Seen(c) >= 1 /\ q[i + 1] = sent[c][Seen(c)] /\ Answered(q[i + 1])
          /\ ~Wrote(c, q[i + 1])
          /\ \A j \in DOMAIN q : q[j] \in Request => j = i + 1
      BY <1>6, <3>1 DEF QueuedIsLast
    <3>4. \A j \in 1..(Len(q) - 1) : Tail(q)[j] \in Request => j = i
      <4> SUFFICES ASSUME NEW j \in 1..(Len(q) - 1), Tail(q)[j] \in Request PROVE j = i
        OBVIOUS
      <4>1. j + 1 = i + 1
        BY <1>2, <3>2
      <4> QED BY <1>2, <4>1
    <3> QED BY <3>1, <3>2, <3>4
  <2>4. EarlierWritten(c)'
    BY <1>1, <1>4, <1>6, <1>9, <2>1 DEF EarlierWritten
  <2> QED BY <2>2, <2>3, <2>4 DEF Ordered
<1> QED BY <1>1, <1>8, <1>9

\* A frame is read: every earlier one has had its response.
LEMMA ReadOrder ==
    ASSUME DispatchInv, NEW c \in Conn, Ordered(c), ReadFrame(c),
           UNCHANGED <<sent, method>>, wrote'[c] = wrote[c],
           LET r == Head(inbox[c]) IN
           \/ /\ conn'[c] = "loop"
              /\ out'[c] = IF Answered(r) THEN Append(out[c], r) ELSE out[c]
           \/ conn'[c] = "awaiting" /\ out'[c] = out[c]
    PROVE  Ordered(c)'
<1> DEFINE r == Head(inbox[c])
           n == Seen(c)
<1>1. /\ r \in Request /\ Seen(c)' = n + 1 /\ r = sent[c][n + 1] /\ ~Read(r)
      /\ \A y : Answered(y)' <=> Answered(y)
  BY ReadFacts DEF Answered
<1>2. n \in Nat /\ conn[c] = "loop" /\ out[c] = <<>>
  BY SeenType DEF ReadFrame
<1>3. WroteInOrder(c) /\ QueuedIsLast(c) /\ EarlierWritten(c)
  BY DEF Ordered
<1>4. out'[c] = IF conn'[c] = "loop" /\ Answered(r) THEN <<r>> ELSE <<>>
  BY <1>2
<1>a. \A y : Wrote(c, y)' <=> Wrote(c, y)
  BY DEF Wrote
<1> HIDE DEF r, n
<1>5. ~Wrote(c, r)
  <2> SUFFICES ASSUME NEW i \in DOMAIN wrote[c], wrote[c][i] = r PROVE FALSE
    BY DEF Wrote
  <2>1. PICK j \in 1..Seen(c) : sent[c][j] = r
    BY <1>1, <1>3 DEF WroteInOrder
  <2> QED BY <1>1, <2>1 DEF Read
<1>6. \A h \in 1..n : Answered(sent[c][h]) => Wrote(c, sent[c][h])
  <2> SUFFICES ASSUME NEW h \in 1..n, Answered(sent[c][h]) PROVE Wrote(c, sent[c][h])
    OBVIOUS
  <2>1. CASE h \in 1..(n - 1)
    BY <1>3, <2>1 DEF EarlierWritten, n
  <2>2. CASE h = n
    <3>1. n >= 1
      BY <1>2
    <3> QED BY <1>2, <1>3, <2>2, <3>1 DEF EarlierWritten, n
  <2>3. h \in 1..(n - 1) \/ h = n
    BY <1>2
  <2> QED BY <2>1, <2>2, <2>3
<1>7. WroteInOrder(c)'
  <2>1. \A j \in 1..n : j \in 1..(n + 1)
    BY <1>2
  <2> QED BY <1>1, <1>3, <2>1 DEF WroteInOrder, n
<1>8. QueuedIsLast(c)'
  <2>1. n + 1 >= 1
    BY <1>2
  <2>2. CASE conn'[c] = "loop" /\ Answered(r)
    <3>1. DOMAIN out'[c] = {1} /\ out'[c][1] = r
      BY <1>4, <2>2
    <3> QED BY <1>1, <1>a, <1>5, <2>1, <2>2, <3>1 DEF QueuedIsLast
  <2>3. CASE ~(conn'[c] = "loop" /\ Answered(r))
    <3>1. DOMAIN out'[c] = {}
      BY <1>4, <2>3
    <3> QED BY <3>1 DEF QueuedIsLast
  <2> QED BY <2>2, <2>3
<1>9. EarlierWritten(c)'
  <2>1. (n + 1) - 1 = n
    BY <1>2
  <2>2. conn'[c] = "loop" /\ Answered(r) => 1 \in DOMAIN out'[c] /\ out'[c][1] = r
    BY <1>4
  <2> QED BY <1>1, <1>a, <1>5, <1>6, <2>1, <2>2 DEF EarlierWritten
<1> QED BY <1>7, <1>8, <1>9 DEF Ordered

\* The awaited reply is queued, unless the frame was a notification.
LEMMA ReplyOrder ==
    ASSUME DispatchInv, NEW c \in Conn, Ordered(c), TakeReply(c)
    PROVE  Ordered(c)'
<1> DEFINE r == awaited[c]
<1>1. /\ conn[c] = "awaiting" /\ conn'[c] = "loop" /\ wrote'[c] = wrote[c]
      /\ out'[c] = IF Answered(r) THEN Append(out[c], r) ELSE out[c]
      /\ out[c] \in Seq(Frame) /\ UNCHANGED <<sent, inbox, method>>
  BY DEF TakeReply, DispatchInv, TypeOK, callVars
<1>2. Seen(c) >= 1 /\ r = sent[c][Seen(c)] /\ Seen(c) \in Nat
  BY <1>1, SeenType DEF DispatchInv, SentSound
<1>3. /\ Seen(c)' = Seen(c) /\ (\A y : Answered(y)' <=> Answered(y))
      /\ (\A y : Wrote(c, y)' <=> Wrote(c, y))
  BY <1>1, SameRead DEF Answered, Wrote
<1>4. WroteInOrder(c) /\ QueuedIsLast(c) /\ EarlierWritten(c)
  BY DEF Ordered
<1>5. \A i \in DOMAIN out[c] : out[c][i] \notin Request
  BY <1>1, <1>4 DEF QueuedIsLast
<1>6. ~Wrote(c, r)
  BY <1>1, <1>2, <1>4 DEF EarlierWritten
<1> HIDE DEF r
<1>7. CASE Answered(r)
  <2>1. /\ DOMAIN out[c] = 1..Len(out[c]) /\ Len(out[c]) \in Nat
        /\ DOMAIN out'[c] = 1..(Len(out[c]) + 1)
        /\ out'[c][Len(out[c]) + 1] = r
        /\ \A i \in 1..Len(out[c]) : out'[c][i] = out[c][i]
    BY <1>1, <1>7
  <2>2. \A i \in DOMAIN out'[c] : out'[c][i] \in Request => i = Len(out[c]) + 1
    BY <1>5, <2>1
  <2>3. WroteInOrder(c)'
    BY <1>1, <1>3, <1>4 DEF WroteInOrder
  <2>4. QueuedIsLast(c)'
    <3> SUFFICES ASSUME NEW i \in DOMAIN out'[c], out'[c][i] \in Request
                 PROVE  /\ out'[c][i] = r
                        /\ \A j \in DOMAIN out'[c] : out'[c][j] \in Request => j = i
      BY <1>1, <1>2, <1>3, <1>6, <1>7 DEF QueuedIsLast
    <3> QED BY <2>1, <2>2
  <2>5. EarlierWritten(c)'
    <3>1. Len(out[c]) + 1 \in DOMAIN out'[c]
      BY <2>1
    <3> QED BY <1>1, <1>2, <1>3, <1>4, <2>1, <3>1 DEF EarlierWritten
  <2> QED BY <2>3, <2>4, <2>5 DEF Ordered
<1>8. CASE ~Answered(r)
  <2>1. WroteInOrder(c)'
    BY <1>1, <1>3, <1>4 DEF WroteInOrder
  <2>2. QueuedIsLast(c)'
    BY <1>1, <1>5, <1>8 DEF QueuedIsLast
  <2>3. EarlierWritten(c)'
    BY <1>1, <1>2, <1>3, <1>4, <1>8 DEF EarlierWritten
  <2> QED BY <2>1, <2>2, <2>3 DEF Ordered
<1> QED BY <1>7, <1>8

-----------------------------------------------------------------------------
(* Every step keeps the order. *)

\* The same for a connection whose client sends nothing.
LEMMA UntouchedOrder ==
    ASSUME DispatchInv, NEW c \in Conn, Ordered(c), UNCHANGED <<sent, method>>,
           inbox'[c] = inbox[c], wrote'[c] = wrote[c],
           \/ out'[c] = out[c]
           \/ \E f : f \notin Request /\ out'[c] = Append(out[c], f),
           \/ conn'[c] \in {conn[c], "gone"}
           \/ conn[c] = "unopened" /\ conn'[c] = "loop"
    PROVE  Ordered(c)'
<1>1. Seen(c)' = Seen(c)
  BY DEF Seen
<1> QED BY <1>1, QuietOrder

\* Whichever actor takes a step, the responses of every connection stay in
\* order: it is one of the four steps above, or it is quiet.
LEMMA OrderKept == DispatchInv /\ OrderSound /\ [Next]_vars => OrderSound'
<1> SUFFICES ASSUME DispatchInv, OrderSound, [Next]_vars, NEW d \in Conn
             PROVE  Ordered(d)'
  BY DEF OrderSound
<1>0. TypeOK /\ Ordered(d)
  BY DEF DispatchInv, OrderSound
<1>1. ASSUME NEW c \in Conn, NEW r \in Request, NEW m \in Method, ClientSend(c, r, m)
      PROVE  Ordered(d)'
  <2>1. UNCHANGED <<conn, out, wrote>> /\ method' = [method EXCEPT ![r] = m]
    BY <1>1 DEF ClientSend
  <2>2. Seen(d)' = Seen(d)
    BY <1>1, SendFacts
  <2>3. \A i \in 1..Len(sent[d]) : sent'[d][i] = sent[d][i] /\ sent[d][i] # r
    BY <1>1, SendFacts
  <2>4. \A i \in 1..Len(sent[d]) : sent[d][i] \in Request
    BY SeenType
  <2>5. \A i \in 1..Len(sent[d]) : /\ sent'[d][i] = sent[d][i]
                                   /\ method'[sent[d][i]] = method[sent[d][i]]
    BY <1>0, <2>1, <2>3, <2>4 DEF TypeOK
  <2> QED BY <1>0, <2>1, <2>2, <2>5, QuietOrder
<1>2. ASSUME NEW c \in Conn, ClientGone(c) \/ Subscribe(c) \/ EndConnection(c)
      PROVE  Ordered(d)'
  <2>1. UNCHANGED <<sent, method, inbox, wrote, out>>
    BY <1>2 DEF ClientGone, Subscribe, EndConnection, callVars
  <2>2. \/ conn'[d] \in {conn[d], "gone"}
        \/ conn[d] = "unopened" /\ conn'[d] = "loop"
    BY <1>0, <1>2 DEF TypeOK, ClientGone, Subscribe, EndConnection
  <2> QED BY <1>0, <2>1, <2>2, UntouchedOrder
<1>3. ASSUME NEW c \in Conn, WriteOutgoing(c) \/ HandleFrameInline(c) \/ ForwardFrame(c) \/ TakeReply(c),
             c # d
      PROVE  Ordered(d)'
  <2>1. /\ UNCHANGED <<sent, method>> /\ conn'[d] = conn[d]
        /\ inbox'[d] = inbox[d] /\ wrote'[d] = wrote[d] /\ out'[d] = out[d]
    BY <1>0, <1>3 DEF TypeOK, WriteOutgoing, HandleFrameInline, ForwardFrame, TakeReply, ReadFrame, callVars
  <2> QED BY <1>0, <2>1, UntouchedOrder
<1>4. CASE WriteOutgoing(d)
  BY <1>0, <1>4, WriteOrder
<1>5. CASE HandleFrameInline(d) \/ ForwardFrame(d)
  <2>1. ReadFrame(d) /\ UNCHANGED <<sent, method>> /\ wrote'[d] = wrote[d] /\ conn[d] = "loop"
    BY <1>5 DEF HandleFrameInline, ForwardFrame, ReadFrame, callVars
  <2>2. LET r == Head(inbox[d]) IN
        \/ /\ conn'[d] = "loop"
           /\ out'[d] = IF Answered(r) THEN Append(out[d], r) ELSE out[d]
        \/ conn'[d] = "awaiting" /\ out'[d] = out[d]
    BY <1>0, <1>5, <2>1 DEF TypeOK, HandleFrameInline, ForwardFrame
  <2> QED BY <1>0, <2>1, <2>2, ReadOrder
<1>6. CASE TakeReply(d)
  BY <1>0, <1>6, ReplyOrder
<1>7. CASE SelectionChanged \/ PushInitialSelection
  <2>1. UNCHANGED <<sent, method, inbox, wrote, conn>>
    BY <1>7 DEF SelectionChanged, PushInitialSelection, callVars
  <2>2. PICK f \in {Selection, Initial} : Broadcast(f)
    BY <1>7 DEF SelectionChanged, PushInitialSelection
  <2>3. f \in Frame /\ f \notin Request
    BY <2>2, FrameAssumption DEF Frame
  <2>4. out'[d] = out[d] \/ out'[d] = Append(out[d], f)
    BY <1>0, <2>2, <2>3, BroadcastFacts
  <2> QED BY <1>0, <2>1, <2>3, <2>4, UntouchedOrder
<1>8. CASE TakeCall \/ Dispatch \/ (\E p \in Pane : OpenDiffForReview(p)) \/ FinishOpenDiff
           \/ (UserStep /\ UNCHANGED serverVars) \/ DropDispatcher \/ DropServer \/ UNCHANGED vars
  <2>1. /\ UNCHANGED <<sent, method, inbox, wrote, out>>
        /\ conn'[d] \in {conn[d], "gone"}
    BY <1>8 DEF TakeCall, Dispatch, RespondTo, OpenDiffForReview, FinishOpenDiff, DropDispatcher,
                DropServer, vars, serverVars, connVars, callVars
  <2> QED BY <1>0, <2>1, UntouchedOrder
<1> QED BY <1>1, <1>2, <1>3, <1>4, <1>5, <1>6, <1>7, <1>8 DEF Next, ConnectionStep, DispatcherStep

\* At the start there is nothing to order.
LEMMA OrderInitHolds == Init => OrderSound
<1> SUFFICES ASSUME Init, NEW c \in Conn PROVE Ordered(c)
  BY DEF OrderSound
<1>1. /\ sent[c] = <<>> /\ inbox[c] = <<>> /\ out[c] = <<>> /\ wrote[c] = <<>>
      /\ conn[c] = "unopened"
  BY DEF Init
<1>2. Seen(c) = 0 /\ DOMAIN wrote[c] = {} /\ DOMAIN out[c] = {}
  BY <1>1 DEF Seen
<1> QED BY <1>1, <1>2 DEF Ordered, WroteInOrder, QueuedIsLast, EarlierWritten

\* The elements of two sequences one after the other.
LEMMA ConcatFacts ==
    ASSUME NEW S, NEW a \in Seq(S), NEW q \in Seq(S)
    PROVE  /\ DOMAIN a = 1..Len(a) /\ Len(a) \in Nat /\ DOMAIN q = 1..Len(q) /\ Len(q) \in Nat
           /\ DOMAIN (a \o q) = 1..(Len(a) + Len(q))
           /\ \A k \in 1..Len(a) : (a \o q)[k] = a[k]
           /\ \A k \in 1..(Len(a) + Len(q)) : k > Len(a) => (a \o q)[k] = q[k - Len(a)]
<1>1. /\ DOMAIN a = 1..Len(a) /\ Len(a) \in Nat /\ DOMAIN q = 1..Len(q) /\ Len(q) \in Nat
  OBVIOUS
<1>2. a \o q \in Seq(S) /\ Len(a \o q) = Len(a) + Len(q)
  OBVIOUS
<1>3. \A k \in 1..(Len(a) + Len(q)) : (a \o q)[k] = IF k <= Len(a) THEN a[k] ELSE q[k - Len(a)]
  BY ConcatProperties
<1>4. DOMAIN (a \o q) = 1..(Len(a) + Len(q))
  BY <1>1, <1>2
<1>5. \A k \in 1..Len(a) : k \in 1..(Len(a) + Len(q)) /\ k <= Len(a)
  BY <1>1
<1> QED BY <1>1, <1>3, <1>4, <1>5

\* A connection's responses, the written ones and the one that waits, are in
\* the order of the requests.
LEMMA OrderImpliesRepliesInOrder == DispatchInv /\ OrderSound => RepliesInOrder
<1> SUFFICES ASSUME DispatchInv, OrderSound, NEW c \in Conn,
                    NEW i \in DOMAIN (wrote[c] \o out[c]), (wrote[c] \o out[c])[i] \in Request
             PROVE  /\ Answered((wrote[c] \o out[c])[i])
                    /\ \A g \in 1..(i - 1) : (wrote[c] \o out[c])[g] # (wrote[c] \o out[c])[i]
                    /\ \E j \in DOMAIN sent[c] :
                          /\ sent[c][j] = (wrote[c] \o out[c])[i]
                          /\ \A h \in 1..(j - 1) : Answered(sent[c][h]) =>
                                \E g \in 1..(i - 1) : (wrote[c] \o out[c])[g] = sent[c][h]
  BY DEF RepliesInOrder
<1> DEFINE a == wrote[c]
           q == out[c]
           w == a \o q
           n == Seen(c)
<1>1. a \in Seq(Frame) /\ q \in Seq(Frame)
  BY DEF DispatchInv, TypeOK
<1>2. /\ DOMAIN a = 1..Len(a) /\ Len(a) \in Nat /\ DOMAIN q = 1..Len(q) /\ Len(q) \in Nat
      /\ DOMAIN w = 1..(Len(a) + Len(q))
      /\ \A k \in 1..Len(a) : w[k] = a[k]
      /\ \A k \in 1..(Len(a) + Len(q)) : k > Len(a) => w[k] = q[k - Len(a)]
  BY <1>1, ConcatFacts, ZenonT(60)
<1>3. n \in Nat /\ \A j \in 1..n : j \in DOMAIN sent[c]
  BY SeenType
<1>4. WroteInOrder(c) /\ QueuedIsLast(c) /\ EarlierWritten(c)
  BY DEF OrderSound, Ordered
<1>5. CASE i \in 1..Len(a)
  <2>1. w[i] = a[i] /\ i \in DOMAIN a /\ \A g \in 1..(i - 1) : w[g] = a[g]
    <3> HIDE DEF a, q, w
    <3>1. i \in DOMAIN a
      BY <1>2, <1>5
    <3>2. \A g \in 1..(i - 1) : g \in 1..Len(a)
      BY <1>2, <1>5
    <3> QED BY <1>2, <1>5, <3>1, <3>2
  <2>2. a[i] \in Request
    BY <2>1
  <2>3. PICK j \in 1..n : /\ sent[c][j] = a[i]
                          /\ \A h \in 1..(j - 1) : Answered(sent[c][h]) =>
                                \E g \in 1..(i - 1) : a[g] = sent[c][h]
    BY <1>4, <2>1, <2>2 DEF WroteInOrder
  <2>4. Answered(a[i]) /\ \A g \in 1..(i - 1) : a[g] # a[i]
    BY <1>4, <2>1, <2>2 DEF WroteInOrder
  <2> HIDE DEF a, w, n
  <2>5. /\ sent[c][j] = w[i] /\ j \in DOMAIN sent[c]
        /\ \A h \in 1..(j - 1) : Answered(sent[c][h]) => \E g \in 1..(i - 1) : w[g] = sent[c][h]
    BY <1>3, <2>1, <2>3
  <2>6. Answered(w[i]) /\ \A g \in 1..(i - 1) : w[g] # w[i]
    BY <2>1, <2>4
  <2> QED BY <2>5, <2>6 DEF w, a
<1>6. CASE i \notin 1..Len(a)
  <2> DEFINE k == i - Len(a)
  <2>1. i > Len(a) /\ k \in DOMAIN q /\ w[i] = q[k] /\ \A g \in 1..Len(a) : g \in 1..(i - 1) /\ w[g] = a[g]
    <3>1. i \in DOMAIN w
      OBVIOUS
    <3> HIDE DEF a, q, w
    <3>2. i \in 1..(Len(a) + Len(q)) /\ i > Len(a)
      BY <1>2, <1>6, <3>1
    <3>3. k \in 1..Len(q) /\ \A g \in 1..Len(a) : g \in 1..(i - 1)
      BY <1>2, <3>2
    <3> QED BY <1>2, <3>2, <3>3
  <2>2. q[k] \in Request
    BY <2>1
  <2>3. /\ n >= 1 /\ q[k] = sent[c][n] /\ Answered(q[k]) /\ ~Wrote(c, q[k])
        /\ \A j \in DOMAIN q : q[j] \in Request => j = k
    BY <1>4, <2>1, <2>2 DEF QueuedIsLast
  <2>4. \A h \in 1..(n - 1) : Answered(sent[c][h]) => \E g \in DOMAIN a : a[g] = sent[c][h]
    BY <1>4 DEF EarlierWritten, Wrote
  <2>5. \A g \in DOMAIN a : a[g] # q[k]
    BY <2>3 DEF Wrote
  <2> HIDE DEF a, q, w, n
  <2>6. \A g \in 1..(i - 1) : w[g] # w[i]
    <3> SUFFICES ASSUME NEW g \in 1..(i - 1), w[g] = w[i] PROVE FALSE
      OBVIOUS
    <3>1. CASE g \in 1..Len(a)
      BY <1>2, <2>1, <2>5, <3>1
    <3>2. CASE g \notin 1..Len(a)
      <4>1. g - Len(a) \in DOMAIN q /\ w[g] = q[g - Len(a)] /\ g - Len(a) # k
        BY <1>2, <2>1, <3>2 DEF w
      <4> QED BY <2>1, <2>2, <2>3, <4>1
    <3> QED BY <3>1, <3>2
  <2>7. \A h \in 1..(n - 1) : Answered(sent[c][h]) => \E g \in 1..(i - 1) : w[g] = sent[c][h]
    BY <1>2, <2>1, <2>4
  <2>8. n \in DOMAIN sent[c]
    BY <1>3, <2>3
  <2>9. Answered(w[i]) /\ sent[c][n] = w[i]
    BY <2>1, <2>3
  <2> QED BY <2>6, <2>7, <2>8, <2>9 DEF w, a, q
<1> QED BY <1>5, <1>6

\* On every connection, what has been written is in order, at most one response
\* waits to be written, and every earlier request has had its own.
THEOREM OrderInvariance == Spec => []OrderSound
<1> QED BY DispatchInvariance, OrderInitHolds, OrderKept, PTL DEF Spec

\* A client gets the responses to its own requests, each once and in the order
\* it sent them, with none for a notification and none left out, although all
\* connections share one dispatcher, errors are answered on the spot and the
\* dispatcher may go away in the middle.
THEOREM ClaudeRepliesAreInOrder == Spec => []RepliesInOrder
BY DispatchInvariance, OrderInvariance, OrderImpliesRepliesInOrder, PTL
==============================================================================
