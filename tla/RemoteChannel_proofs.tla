------------------------ MODULE RemoteChannel_proofs ------------------------
(***************************************************************************)
(* Proofs about the message channel of remote development, for any number  *)
(* of messages and of lost connections.                                    *)
(*                                                                         *)
(* NothingLost does not hold of every behaviour: a connection that is lost *)
(* before the resync after the previous loss is complete may lose a        *)
(* message, as the instance MCRemoteChannelTwice shows.  What holds is     *)
(* that nothing is lost as long as every connection is lost in a Settled   *)
(* state, and so that one loss never loses anything.  ChannelInv is the    *)
(* invariant behind it.  Of a message that its receiver has not handled it *)
(* says where it is: in the sender's buffer and on the wire with no later  *)
(* id before it, or, while a resync is under way, in the buffer and above  *)
(* every acknowledgement that can still take it out of there, or on the    *)
(* wire before the answer.                                                 *)
(***************************************************************************)
EXTENDS RemoteChannel, FiniteSetTheorems, SequenceTheorems, TLAPS

-----------------------------------------------------------------------------
(* Sequences of envelopes. *)

\* The elements of two sequences one after the other.
LEMMA ConcatFacts ==
    ASSUME NEW S, NEW a \in Seq(S), NEW b \in Seq(S)
    PROVE  /\ a \o b \in Seq(S)
           /\ Len(a) \in Nat /\ Len(b) \in Nat /\ Len(a \o b) = Len(a) + Len(b)
           /\ \A k \in 1..Len(a) : k \in 1..Len(a \o b) /\ (a \o b)[k] = a[k]
           /\ \A k \in 1..Len(b) : Len(a) + k \in 1..Len(a \o b) /\ (a \o b)[Len(a) + k] = b[k]
           /\ \A k \in 1..Len(a \o b) :
                 k \in 1..Len(a) \/ \E j \in 1..Len(b) : k = Len(a) + j
<1>1. /\ Len(a) \in Nat /\ Len(b) \in Nat
      /\ a \o b \in Seq(S) /\ Len(a \o b) = Len(a) + Len(b)
  OBVIOUS
<1>2. \A k \in 1..(Len(a) + Len(b)) : (a \o b)[k] = IF k <= Len(a) THEN a[k] ELSE b[k - Len(a)]
  BY ConcatProperties
<1>3. \A k \in 1..Len(a) : k \in 1..(Len(a) + Len(b)) /\ k <= Len(a)
  BY <1>1
<1>4. \A k \in 1..Len(b) : /\ Len(a) + k \in 1..(Len(a) + Len(b)) /\ ~(Len(a) + k <= Len(a))
                           /\ (Len(a) + k) - Len(a) = k
  BY <1>1
<1>5. ASSUME NEW k \in 1..(Len(a) + Len(b)), k \notin 1..Len(a)
      PROVE  \E j \in 1..Len(b) : k = Len(a) + j
  <2>1. k - Len(a) \in 1..Len(b) /\ k = Len(a) + (k - Len(a))
    BY <1>1, <1>5
  <2> QED BY <2>1
<1> QED BY <1>1, <1>2, <1>3, <1>4, <1>5

\* What is left when the head of a sequence has been taken.
LEMMA TailFacts ==
    ASSUME NEW S, NEW s \in Seq(S), s # <<>>
    PROVE  /\ Tail(s) \in Seq(S) /\ Head(s) \in S /\ Head(s) = s[1] /\ 1 \in 1..Len(s)
           /\ Len(s) \in Nat /\ Len(Tail(s)) = Len(s) - 1
           /\ \A i \in 1..Len(Tail(s)) : i \in Nat /\ i + 1 \in 1..Len(s) /\ Tail(s)[i] = s[i + 1]
           /\ \A i \in 1..Len(s) : i # 1 => /\ i - 1 \in 1..Len(Tail(s)) /\ (i - 1) + 1 = i
                                            /\ Tail(s)[i - 1] = s[i]
<1>1. /\ Tail(s) \in Seq(S) /\ Head(s) \in S /\ Head(s) = s[1] /\ 1 \in 1..Len(s)
      /\ Len(s) \in Nat /\ Len(Tail(s)) = Len(s) - 1
  OBVIOUS
<1>2. \A i \in 1..(Len(s) - 1) : i \in Nat /\ i + 1 \in 1..Len(s) /\ Tail(s)[i] = s[i + 1]
  OBVIOUS
<1>3. \A i \in 1..Len(s) : i # 1 => i - 1 \in 1..(Len(s) - 1) /\ (i - 1) + 1 = i
  BY <1>1
<1> QED BY <1>1, <1>2, <1>3

\* A sequence without its first elements.
LEMMA SuffixFacts ==
    ASSUME NEW S, NEW s \in Seq(S), NEW k \in 0..Len(s)
    PROVE  LET d == SubSeq(s, k + 1, Len(s)) IN
           /\ d \in Seq(S) /\ Len(d) = Len(s) - k /\ Len(s) \in Nat
           /\ \A i \in 1..Len(d) : k + i \in 1..Len(s) /\ d[i] = s[k + i]
           /\ \A i \in 1..Len(s) : i > k => i - k \in 1..Len(d) /\ d[i - k] = s[i]
<1> DEFINE d == SubSeq(s, k + 1, Len(s))
<1>1. d \in Seq(S) /\ Len(s) \in Nat
  OBVIOUS
<1>2. Len(d) = Len(s) - k
  BY <1>1
<1>3. \A i \in 1..(Len(s) - k) : k + i \in 1..Len(s) /\ d[i] = s[k + i]
  <2>1. \A i \in 1..(Len(s) - k) : d[i] = s[(k + 1) + i - 1] /\ (k + 1) + i - 1 = k + i
    OBVIOUS
  <2> QED BY <1>1, <2>1
<1>4. \A i \in 1..Len(s) : i > k => i - k \in 1..(Len(s) - k) /\ k + (i - k) = i
  BY <1>1
<1> HIDE DEF d
<1>5. \A i \in 1..Len(s) : i > k => d[i - k] = s[i]
  BY <1>3, <1>4
<1> QED BY <1>1, <1>2, <1>3, <1>4, <1>5 DEF d

-----------------------------------------------------------------------------
(* Messages in sequences. *)

\* A message is in one of the two parts.
LEMMA HoldsConcat ==
    ASSUME NEW a \in Seq(EnvelopeType), NEW b \in Seq(EnvelopeType), NEW id
    PROVE  Holds(a \o b, id) <=> Holds(a, id) \/ Holds(b, id)
<1>1. ASSUME Holds(a \o b, id) PROVE Holds(a, id) \/ Holds(b, id)
  <2>1. PICK k \in 1..Len(a \o b) : (a \o b)[k].kind = "message" /\ (a \o b)[k].id = id
    BY <1>1 DEF Holds
  <2>2. CASE k \in 1..Len(a)
    BY <2>1, <2>2, ConcatFacts DEF Holds
  <2>3. ASSUME NEW j \in 1..Len(b), k = Len(a) + j PROVE Holds(b, id)
    <3>1. (a \o b)[Len(a) + j] = b[j]
      BY ConcatFacts
    <3> QED BY <2>1, <2>3, <3>1 DEF Holds
  <2> QED BY <2>2, <2>3, ConcatFacts
<1>2. ASSUME Holds(a, id) PROVE Holds(a \o b, id)
  BY <1>2, ConcatFacts DEF Holds
<1>3. ASSUME Holds(b, id) PROVE Holds(a \o b, id)
  <2>1. PICK k \in 1..Len(b) : b[k].kind = "message" /\ b[k].id = id
    BY <1>3 DEF Holds
  <2>2. Len(a) + k \in 1..Len(a \o b) /\ (a \o b)[Len(a) + k] = b[k]
    BY ConcatFacts
  <2> QED BY <2>1, <2>2 DEF Holds
<1> QED BY <1>1, <1>2, <1>3

\* A message is the head or in the rest.
LEMMA HoldsTail ==
    ASSUME NEW s \in Seq(EnvelopeType), s # <<>>, NEW id, Holds(s, id)
    PROVE  (Head(s).kind = "message" /\ Head(s).id = id) \/ Holds(Tail(s), id)
BY TailFacts DEF Holds

\* Acknowledgements of two parts.
LEMMA BelowConcat ==
    ASSUME NEW a \in Seq(EnvelopeType), NEW b \in Seq(EnvelopeType), NEW id
    PROVE  AcksBelow(a \o b, id) <=> AcksBelow(a, id) /\ AcksBelow(b, id)
<1>1. ASSUME AcksBelow(a \o b, id) PROVE AcksBelow(a, id) /\ AcksBelow(b, id)
  BY <1>1, ConcatFacts DEF AcksBelow
<1>2. ASSUME AcksBelow(a, id), AcksBelow(b, id) PROVE AcksBelow(a \o b, id)
  BY <1>2, ConcatFacts DEF AcksBelow
<1> QED BY <1>1, <1>2

\* Acknowledgements of the head and the rest.
LEMMA BelowTail ==
    ASSUME NEW s \in Seq(EnvelopeType), s # <<>>, NEW id, AcksBelow(s, id)
    PROVE  AcksBelow(Tail(s), id) /\ Head(s).ack < id
BY TailFacts DEF AcksBelow

\* Nothing that is put behind a message overtakes it.
LEMMA InTurnConcat ==
    ASSUME NEW a \in Seq(EnvelopeType), NEW b \in Seq(EnvelopeType), NEW id, InTurn(a, id)
    PROVE  InTurn(a \o b, id)
<1>1. Holds(a \o b, id)
  BY HoldsConcat DEF InTurn
<1>2. ASSUME NEW i \in 1..Len(a \o b), (a \o b)[i].id >= id
      PROVE  \E j \in 1..i : (a \o b)[j].kind = "message" /\ (a \o b)[j].id = id
  <2>1. CASE i \in 1..Len(a)
    <3>1. PICK j \in 1..i : a[j].kind = "message" /\ a[j].id = id
      <4>1. a[i].id >= id
        BY <1>2, <2>1, ConcatFacts
      <4> QED BY <2>1, <4>1 DEF InTurn
    <3>2. j \in 1..Len(a)
      BY <2>1, ConcatFacts
    <3>3. (a \o b)[j] = a[j]
      BY <3>2, ConcatFacts
    <3> QED BY <3>1, <3>3
  <2>2. CASE i \notin 1..Len(a)
    <3>1. PICK j \in 1..Len(a) : a[j].kind = "message" /\ a[j].id = id
      BY DEF InTurn, Holds
    <3>2. j \in 1..i
      BY <2>2, ConcatFacts
    <3>3. (a \o b)[j] = a[j]
      BY <3>1, ConcatFacts
    <3> QED BY <3>1, <3>2, <3>3
  <2> QED BY <2>1, <2>2
<1> QED BY <1>1, <1>2 DEF InTurn

\* A message with the highest id is put at the end.
LEMMA InTurnNew ==
    ASSUME NEW s \in Seq(EnvelopeType), NEW m \in EnvelopeType, m.kind = "message",
           \A i \in 1..Len(s) : s[i].id < m.id
    PROVE  InTurn(s \o <<m>>, m.id)
<1>1. <<m>> \in Seq(EnvelopeType) /\ Len(<<m>>) = 1 /\ <<m>>[1] = m /\ 1 \in 1..1
  OBVIOUS
<1>2. Len(s) + 1 \in 1..Len(s \o <<m>>) /\ (s \o <<m>>)[Len(s) + 1] = m /\ Len(s) \in Nat
  BY <1>1, ConcatFacts
<1>3. Holds(s \o <<m>>, m.id)
  BY <1>2 DEF Holds
<1>4. ASSUME NEW i \in 1..Len(s \o <<m>>), (s \o <<m>>)[i].id >= m.id
      PROVE  i = Len(s) + 1
  <2>1. CASE i \in 1..Len(s)
    <3>1. (s \o <<m>>)[i] = s[i] /\ s[i].id < m.id /\ s[i].id \in Nat /\ m.id \in Nat
      <4>1. (s \o <<m>>)[i] = s[i]
        BY <1>1, <2>1, ConcatFacts
      <4>2. s[i] \in EnvelopeType
        BY <2>1
      <4> QED BY <2>1, <4>1, <4>2 DEF EnvelopeType
    <3> QED BY <1>4, <3>1
  <2>2. CASE i \notin 1..Len(s)
    BY <1>1, <2>2, ConcatFacts
  <2> QED BY <2>1, <2>2
<1>5. Len(s) + 1 \in 1..(Len(s) + 1)
  BY <1>2
<1> QED BY <1>2, <1>3, <1>4, <1>5 DEF InTurn

\* A message that is in turn is the head, or its id is above that of the head
\* and it is in turn in the rest.
LEMMA InTurnTail ==
    ASSUME NEW s \in Seq(EnvelopeType), s # <<>>, NEW id \in Nat, InTurn(s, id)
    PROVE  \/ Head(s).kind = "message" /\ Head(s).id = id
           \/ InTurn(Tail(s), id) /\ Head(s).id < id
<1> SUFFICES ASSUME ~(Head(s).kind = "message" /\ Head(s).id = id)
             PROVE  InTurn(Tail(s), id) /\ Head(s).id < id
  OBVIOUS
<1>1. Holds(Tail(s), id)
  BY HoldsTail DEF InTurn
<1>2. ~(s[1].id >= id)
  BY TailFacts DEF InTurn
<1>3. Head(s).id < id
  <2>1. Head(s) \in EnvelopeType /\ Head(s) = s[1]
    BY TailFacts
  <2>2. Head(s).id \in Nat
    BY <2>1 DEF EnvelopeType
  <2> QED BY <1>2, <2>1, <2>2
<1>4. ASSUME NEW i \in 1..Len(Tail(s)), Tail(s)[i].id >= id
      PROVE  \E j \in 1..i : Tail(s)[j].kind = "message" /\ Tail(s)[j].id = id
  <2>1. i \in Nat /\ i + 1 \in 1..Len(s) /\ s[i + 1].id >= id
    BY <1>4, TailFacts
  <2>2. PICK j \in 1..(i + 1) : s[j].kind = "message" /\ s[j].id = id
    BY <2>1 DEF InTurn
  <2>3. j # 1
    BY <2>2, TailFacts
  <2>4. j - 1 \in 1..i /\ j \in 1..Len(s)
    BY <2>1, <2>3, TailFacts
  <2> QED BY <2>2, <2>3, <2>4, TailFacts
<1> QED BY <1>1, <1>3, <1>4 DEF InTurn

\* The answer does not move when something is put behind it.
LEMMA AnswerConcat ==
    ASSUME NEW a \in Seq(EnvelopeType), NEW b \in Seq(EnvelopeType), NEW f, NEW p \in 1..Len(a),
           AnswerAt(a, f, p)
    PROVE  /\ AnswerAt(a \o b, f, p) /\ p \in 1..Len(a \o b)
           /\ \A j \in 1..p : (a \o b)[j] = a[j]
<1>1. \A j \in 1..p : j \in 1..Len(a)
  BY ConcatFacts
<1>2. \A j \in 1..(p - 1) : j \in 1..p
  BY ConcatFacts
<1> QED BY <1>1, <1>2, ConcatFacts DEF AnswerAt

\* It moves forward when the head, which it is not, is taken.
LEMMA AnswerTail ==
    ASSUME NEW s \in Seq(EnvelopeType), s # <<>>, NEW f, NEW p \in 1..Len(s),
           AnswerAt(s, f, p), ~(Head(s).kind = "ack" /\ Head(s).re = f)
    PROVE  /\ p # 1 /\ p - 1 \in 1..Len(Tail(s)) /\ AnswerAt(Tail(s), f, p - 1)
           /\ Tail(s)[p - 1] = s[p]
           /\ \A j \in 1..(p - 1) : j \in 1..Len(Tail(s)) /\ Tail(s)[j] = s[j + 1] /\ j + 1 \in 1..p
<1>1. p # 1
  BY TailFacts DEF AnswerAt
<1>2. p - 1 \in 1..Len(Tail(s)) /\ Tail(s)[p - 1] = s[p]
  BY <1>1, TailFacts
<1>3. \A j \in 1..(p - 1) : j \in 1..Len(Tail(s)) /\ Tail(s)[j] = s[j + 1] /\ j + 1 \in 1..p
  <2>1. Len(s) \in Nat /\ Len(Tail(s)) = Len(s) - 1
    BY TailFacts
  <2>2. \A j \in 1..(p - 1) : j \in 1..(Len(s) - 1) /\ j + 1 \in 1..p
    BY <2>1
  <2> QED BY <2>1, <2>2, TailFacts
<1>4. \A j \in 1..((p - 1) - 1) : j \in 1..(p - 1) /\ j + 1 \in 1..(p - 1)
  BY TailFacts
<1>5. \A j \in 1..((p - 1) - 1) : Tail(s)[j].re # f
  BY <1>3, <1>4 DEF AnswerAt
<1> QED BY <1>1, <1>2, <1>3, <1>5 DEF AnswerAt

\* The head is the answer.
LEMMA AnswerHead ==
    ASSUME NEW s \in Seq(EnvelopeType), s # <<>>, NEW f, NEW p \in 1..Len(s),
           AnswerAt(s, f, p), Head(s).re = f
    PROVE  p = 1
<1> SUFFICES ASSUME p # 1 PROVE FALSE
  OBVIOUS
<1>1. 1 \in 1..(p - 1)
  BY TailFacts
<1> QED BY <1>1, TailFacts DEF AnswerAt

\* Both for the acknowledgements up to the answer.
LEMMA AnswerAboveKept ==
    ASSUME NEW s \in Seq(EnvelopeType), NEW f, NEW id, AnswerAbove(s, f, id)
    PROVE  /\ \A b \in Seq(EnvelopeType) : AnswerAbove(s \o b, f, id)
           /\ s # <<>> => Head(s).ack < id
           /\ s # <<>> /\ ~(Head(s).kind = "ack" /\ Head(s).re = f) => AnswerAbove(Tail(s), f, id)
<1>1. PICK p \in 1..Len(s) : AnswerAt(s, f, p) /\ \A j \in 1..p : s[j].ack < id
  BY DEF AnswerAbove
<1>2. \A b \in Seq(EnvelopeType) : AnswerAbove(s \o b, f, id)
  BY <1>1, AnswerConcat DEF AnswerAbove
<1>3. ASSUME s # <<>> PROVE Head(s).ack < id
  <2>1. 1 \in 1..p
    BY <1>3, TailFacts
  <2> QED BY <1>1, <1>3, <2>1, TailFacts
<1>4. ASSUME s # <<>>, ~(Head(s).kind = "ack" /\ Head(s).re = f) PROVE AnswerAbove(Tail(s), f, id)
  BY <1>1, <1>4, AnswerTail, SMTT(30) DEF AnswerAbove
<1> QED BY <1>2, <1>3, <1>4

\* Messages are popped off the buffer only if they are acknowledged.
LEMMA DropFacts ==
    ASSUME NEW buf \in Seq(EnvelopeType), NEW ack \in Nat
    PROVE  LET d == DropAcked(buf, ack) IN
           /\ d \in Seq(EnvelopeType)
           /\ \A i \in 1..Len(d) : \E j \in 1..Len(buf) : d[i] = buf[j]
           /\ \A id \in Nat : Holds(buf, id) /\ ack < id => Holds(d, id)
           /\ \A id : AcksBelow(buf, id) => AcksBelow(d, id)
<1> DEFINE acked == {i \in 1..Len(buf) : \A j \in 1..i : buf[j].id <= ack}
           k == Cardinality(acked)
           d == SubSeq(buf, k + 1, Len(buf))
<1>1. Len(buf) \in Nat
  OBVIOUS
<1>2. /\ IsFiniteSet(1..Len(buf)) /\ Cardinality(1..Len(buf)) = Len(buf)
  <2>1. Cardinality(1..Len(buf)) = IF 1 > Len(buf) THEN 0 ELSE Len(buf) - 1 + 1
    BY <1>1, FS_Interval, SMTT(30)
  <2> QED BY <1>1, <2>1, FS_Interval, SMTT(30)
<1>3. k \in 0..Len(buf)
  <2>1. acked \subseteq 1..Len(buf)
    OBVIOUS
  <2> HIDE DEF acked
  <2>2. IsFiniteSet(acked) /\ Cardinality(acked) <= Len(buf)
    BY <1>2, <2>1, FS_Subset
  <2>3. k \in Nat
    BY <2>2, FS_CardinalityType
  <2> QED BY <1>1, <2>2, <2>3
<1>4. \A i \in 1..k : buf[i].id <= ack
  <2> SUFFICES ASSUME NEW i \in 1..k, ~(buf[i].id <= ack) PROVE FALSE
    OBVIOUS
  <2>1. i \in Nat /\ i >= 1
    BY <1>3
  <2>2. acked \subseteq 1..(i - 1)
    <3> SUFFICES ASSUME NEW x \in acked PROVE x \in 1..(i - 1)
      OBVIOUS
    <3>1. x \in 1..Len(buf) /\ \A j \in 1..x : buf[j].id <= ack
      OBVIOUS
    <3>2. i \notin 1..x
      BY <3>1
    <3> QED BY <1>1, <2>1, <3>1, <3>2
  <2>3. IsFiniteSet(1..(i - 1)) /\ Cardinality(1..(i - 1)) = i - 1
    <3>1. Cardinality(1..(i - 1)) = IF 1 > i - 1 THEN 0 ELSE (i - 1) - 1 + 1
      BY <2>1, FS_Interval
    <3> QED BY <2>1, <3>1, FS_Interval
  <2> HIDE DEF acked
  <2>4. k <= i - 1
    BY <2>2, <2>3, FS_Subset, ZenonT(60)
  <2> QED BY <1>3, <2>1, <2>4
<1> HIDE DEF acked, k
<1>5. /\ d \in Seq(EnvelopeType)
      /\ \A i \in 1..Len(d) : k + i \in 1..Len(buf) /\ d[i] = buf[k + i]
      /\ \A i \in 1..Len(buf) : i > k => i - k \in 1..Len(d) /\ d[i - k] = buf[i]
  BY <1>3, SuffixFacts
<1>6. ASSUME NEW id \in Nat, Holds(buf, id), ack < id PROVE Holds(d, id)
  <2>1. PICK i \in 1..Len(buf) : buf[i].kind = "message" /\ buf[i].id = id
    BY <1>6 DEF Holds
  <2>2. i > k
    BY <1>1, <1>3, <1>4, <1>6, <2>1
  <2> QED BY <1>5, <2>1, <2>2 DEF Holds
<1>7. ASSUME NEW id, AcksBelow(buf, id) PROVE AcksBelow(d, id)
  BY <1>5, <1>7 DEF AcksBelow
<1>8. d = DropAcked(buf, ack)
  BY DEF d, k, acked, DropAcked
<1> HIDE DEF d
<1> QED BY <1>5, <1>6, <1>7, <1>8

-----------------------------------------------------------------------------
(* What each step does. *)

\* Appending is putting a sequence of one behind.
LEMMA AppendConcat ==
    ASSUME NEW s \in Seq(EnvelopeType), NEW m \in EnvelopeType
    PROVE  Append(s, m) = s \o <<m>> /\ <<m>> \in Seq(EnvelopeType)
OBVIOUS

\* The types of what is sent.
LEMMA EnvelopeFacts ==
    ASSUME NEW k \in {"message", "ack", "started", "flush"}, NEW i \in Nat, NEW a \in Nat
    PROVE  /\ Envelope(k, i, a) \in EnvelopeType /\ AckEnvelope(i, a) \in EnvelopeType
           /\ Envelope(k, i, a).kind = k /\ Envelope(k, i, a).id = i
           /\ Envelope(k, i, a).ack = a /\ Envelope(k, i, a).re = 0
           /\ AckEnvelope(i, a).kind = "ack" /\ AckEnvelope(i, a).id = i
           /\ AckEnvelope(i, a).ack = 0 /\ AckEnvelope(i, a).re = a
BY DEF Envelope, AckEnvelope, EnvelopeType, NoAck

\* An end sends.
LEMMA SendFacts ==
    ASSUME TypeOK, NEW e \in End, Send(e)
    PROVE  LET m == Envelope("message", nextId[e], maxReceived[e]) IN
           /\ m \in EnvelopeType /\ m.kind = "message" /\ m.id = nextId[e]
           /\ m.ack = maxReceived[e] /\ m.re = 0 /\ <<m>> \in Seq(EnvelopeType)
           /\ wire'[e] = wire[e] \o <<m>> /\ buffer'[e] = buffer[e] \o <<m>>
           /\ nextId'[e] = nextId[e] + 1 /\ sent'[e] = sent[e] \cup {nextId[e]}
           /\ wire'[Peer(e)] = wire[Peer(e)] /\ buffer'[Peer(e)] = buffer[Peer(e)]
           /\ nextId'[Peer(e)] = nextId[Peer(e)] /\ sent'[Peer(e)] = sent[Peer(e)]
           /\ UNCHANGED <<maxReceived, resync, flushId, handled, reconnects>>
           /\ wire' \in [End -> Seq(EnvelopeType)] /\ buffer' \in [End -> Seq(EnvelopeType)]
           /\ nextId' \in [End -> Nat] /\ sent' \in [End -> SUBSET Nat]
<1> DEFINE m == Envelope("message", nextId[e], maxReceived[e])
<1>1. nextId[e] \in Nat /\ maxReceived[e] \in Nat /\ Peer(e) \in End /\ Peer(e) # e
  BY DEF TypeOK, End, Peer
<1>2. /\ m \in EnvelopeType /\ m.kind = "message" /\ m.id = nextId[e]
      /\ m.ack = maxReceived[e] /\ m.re = 0
  BY <1>1, EnvelopeFacts
<1> HIDE DEF m
<1>3. /\ Append(wire[e], m) = wire[e] \o <<m>> /\ Append(buffer[e], m) = buffer[e] \o <<m>>
      /\ <<m>> \in Seq(EnvelopeType)
  BY <1>2, AppendConcat DEF TypeOK
<1>4. Append(wire[e], m) \in Seq(EnvelopeType) /\ Append(buffer[e], m) \in Seq(EnvelopeType)
  BY <1>2 DEF TypeOK
<1>5. /\ wire' = [wire EXCEPT ![e] = Append(wire[e], m)]
      /\ buffer' = [buffer EXCEPT ![e] = Append(buffer[e], m)]
      /\ nextId' = [nextId EXCEPT ![e] = nextId[e] + 1]
      /\ sent' = [sent EXCEPT ![e] = sent[e] \cup {nextId[e]}]
      /\ UNCHANGED <<maxReceived, resync, flushId, handled, reconnects>>
  BY <1>2 DEF Send, m
<1>6. wire' \in [End -> Seq(EnvelopeType)] /\ buffer' \in [End -> Seq(EnvelopeType)]
  BY <1>4, <1>5 DEF TypeOK
<1>7. nextId' \in [End -> Nat] /\ sent' \in [End -> SUBSET Nat]
  BY <1>1, <1>5 DEF TypeOK
<1>8. /\ wire'[e] = wire[e] \o <<m>> /\ buffer'[e] = buffer[e] \o <<m>>
      /\ nextId'[e] = nextId[e] + 1 /\ sent'[e] = sent[e] \cup {nextId[e]}
  BY <1>3, <1>5 DEF TypeOK
<1>9. /\ wire'[Peer(e)] = wire[Peer(e)] /\ buffer'[Peer(e)] = buffer[Peer(e)]
      /\ nextId'[Peer(e)] = nextId[Peer(e)] /\ sent'[Peer(e)] = sent[Peer(e)]
  BY <1>1, <1>5 DEF TypeOK
<1> QED BY <1>2, <1>3, <1>5, <1>6, <1>7, <1>8, <1>9 DEF m

\* An envelope is taken off the wire and its acknowledgement applied.
LEMMA TakeFacts ==
    ASSUME TypeOK, NEW e \in End, TakeIn(e)
    PROVE  /\ wire[Peer(e)] \in Seq(EnvelopeType) /\ wire[Peer(e)] # <<>>
           /\ Incoming(e) = Head(wire[Peer(e)]) /\ Incoming(e) = wire[Peer(e)][1]
           /\ Incoming(e) \in EnvelopeType
           /\ Incoming(e).id \in Nat /\ Incoming(e).ack \in Nat /\ Incoming(e).re \in Nat
           /\ Tail(wire[Peer(e)]) \in Seq(EnvelopeType)
           /\ buffer'[e] = DropAcked(buffer[e], Incoming(e).ack)
           /\ buffer'[e] \in Seq(EnvelopeType)
           /\ buffer'[Peer(e)] = buffer[Peer(e)]
           /\ buffer' \in [End -> Seq(EnvelopeType)]
<1>1. Peer(e) \in End /\ Peer(e) # e
  BY DEF End, Peer
<1>2. wire[Peer(e)] \in Seq(EnvelopeType) /\ wire[Peer(e)] # <<>>
  BY <1>1 DEF TypeOK, TakeIn
<1>3. /\ Incoming(e) = Head(wire[Peer(e)]) /\ Incoming(e) = wire[Peer(e)][1]
      /\ Incoming(e) \in EnvelopeType /\ Tail(wire[Peer(e)]) \in Seq(EnvelopeType)
  BY <1>2, TailFacts DEF Incoming
<1>4. Incoming(e).id \in Nat /\ Incoming(e).ack \in Nat /\ Incoming(e).re \in Nat
  BY <1>3 DEF EnvelopeType
<1>5. buffer' = [buffer EXCEPT ![e] = DropAcked(buffer[e], Incoming(e).ack)]
  BY DEF TakeIn
<1>6. DropAcked(buffer[e], Incoming(e).ack) \in Seq(EnvelopeType)
  BY <1>4, DropFacts DEF TypeOK
<1> QED BY <1>1, <1>2, <1>3, <1>4, <1>5, <1>6 DEF TypeOK

\* The buffer loses only what the envelope acknowledges.
LEMMA TakeDrops ==
    ASSUME TypeOK, NEW e \in End, TakeIn(e)
    PROVE  /\ \A i \in 1..Len(buffer'[e]) : \E j \in 1..Len(buffer[e]) : buffer'[e][i] = buffer[e][j]
           /\ \A id \in Nat : Holds(buffer[e], id) /\ Incoming(e).ack < id => Holds(buffer'[e], id)
           /\ \A id : AcksBelow(buffer[e], id) => AcksBelow(buffer'[e], id)
<1> DEFINE b == buffer[e]
           a == Incoming(e).ack
           d == DropAcked(b, a)
<1>1. b \in Seq(EnvelopeType) /\ a \in Nat /\ buffer'[e] = d
  BY TakeFacts DEF TypeOK
<1> HIDE DEF a, b
<1>2. /\ \A i \in 1..Len(d) : \E j \in 1..Len(b) : d[i] = b[j]
      /\ \A id \in Nat : Holds(b, id) /\ a < id => Holds(d, id)
      /\ \A id : AcksBelow(b, id) => AcksBelow(d, id)
  BY <1>1, DropFacts
<1> HIDE DEF d
<1> QED BY <1>1, <1>2 DEF a, b

\* The client receives a message or an Ack.
LEMMA ClientTakes ==
    ASSUME TypeOK, Receive("client") \/ ReceiveAck
    PROVE  LET h == Incoming("client") IN
           /\ TakeIn("client") /\ resync # "answered" /\ h.kind \in {"message", "ack"}
           /\ wire'["server"] = Tail(wire["server"]) /\ wire'["client"] = wire["client"]
           /\ maxReceived'["client"] = h.id /\ maxReceived'["server"] = maxReceived["server"]
           /\ handled'["server"] = handled["server"]
           /\ handled'["client"] = IF h.kind = "message" THEN handled["client"] \cup {h.id}
                                   ELSE handled["client"]
           /\ resync' = IF h.kind = "ack" /\ resync = "waiting" /\ h.re = flushId
                        THEN "answered" ELSE resync
           /\ UNCHANGED <<nextId, flushId, sent, reconnects>>
           /\ wire' \in [End -> Seq(EnvelopeType)] /\ maxReceived' \in [End -> Nat]
           /\ handled' \in [End -> SUBSET Nat]
<1> DEFINE h == Incoming("client")
<1>1. Peer("client") = "server" /\ "client" \in End /\ "server" \in End
  BY DEF Peer, End
<1>2. TakeIn("client")
  BY DEF Receive, ReceiveAck
<1>3. h.id \in Nat /\ Tail(wire["server"]) \in Seq(EnvelopeType)
  BY <1>1, <1>2, TakeFacts
<1>4. wire' = [wire EXCEPT !["server"] = Tail(wire["server"])]
  BY <1>1 DEF Receive, ReceiveAck
<1>5. maxReceived' = [maxReceived EXCEPT !["client"] = h.id]
  BY DEF Receive, ReceiveAck
<1>6. CASE Receive("client")
  <2>1. /\ h.kind = "message" /\ handled' = [handled EXCEPT !["client"] = @ \cup {h.id}]
        /\ UNCHANGED <<nextId, resync, flushId, sent, reconnects>>
    BY <1>6 DEF Receive
  <2> QED BY <1>1, <1>2, <1>3, <1>4, <1>5, <2>1 DEF TypeOK, TakeIn
<1>7. CASE ReceiveAck
  <2>1. /\ h.kind = "ack" /\ UNCHANGED <<nextId, flushId, sent, handled, reconnects>>
        /\ resync' = IF resync = "waiting" /\ h.re = flushId THEN "answered" ELSE resync
    BY <1>7 DEF ReceiveAck
  <2> QED BY <1>1, <1>2, <1>3, <1>4, <1>5, <2>1 DEF TypeOK, TakeIn
<1> QED BY <1>6, <1>7

\* The server receives a message.
LEMMA ServerTakes ==
    ASSUME TypeOK, Receive("server")
    PROVE  LET h == Incoming("server") IN
           /\ TakeIn("server") /\ h.kind = "message"
           /\ wire'["client"] = Tail(wire["client"]) /\ wire'["server"] = wire["server"]
           /\ maxReceived'["server"] = h.id /\ maxReceived'["client"] = maxReceived["client"]
           /\ handled'["client"] = handled["client"]
           /\ handled'["server"] = handled["server"] \cup {h.id}
           /\ UNCHANGED <<nextId, flushId, resync, sent, reconnects>>
           /\ wire' \in [End -> Seq(EnvelopeType)] /\ maxReceived' \in [End -> Nat]
           /\ handled' \in [End -> SUBSET Nat]
<1> DEFINE h == Incoming("server")
<1>1. Peer("server") = "client" /\ "client" \in End /\ "server" \in End
  BY DEF Peer, End
<1>2. TakeIn("server")
  BY DEF Receive
<1>3. h.id \in Nat /\ Tail(wire["client"]) \in Seq(EnvelopeType)
  BY <1>1, <1>2, TakeFacts
<1>4. wire' = [wire EXCEPT !["client"] = Tail(wire["client"])]
  BY <1>1 DEF Receive
<1>5. /\ maxReceived' = [maxReceived EXCEPT !["server"] = h.id]
      /\ h.kind = "message" /\ handled' = [handled EXCEPT !["server"] = @ \cup {h.id}]
      /\ UNCHANGED <<nextId, resync, flushId, sent, reconnects>>
  BY DEF Receive
<1> QED BY <1>1, <1>2, <1>3, <1>4, <1>5 DEF TypeOK

\* The server answers a control message.
LEMMA AnswerFacts ==
    ASSUME TypeOK, NEW k, NEW resent \in Seq(EnvelopeType), Answer(k, resent)
    PROVE  LET h == Incoming("server")
               a == AckEnvelope(nextId["server"], h.id) IN
           /\ TakeIn("server") /\ h.kind = k
           /\ wire'["client"] = Tail(wire["client"])
           /\ wire'["server"] = (wire["server"] \o resent) \o <<a>>
           /\ wire["server"] \o resent \in Seq(EnvelopeType)
           /\ a \in EnvelopeType /\ <<a>> \in Seq(EnvelopeType)
           /\ a.kind = "ack" /\ a.id = nextId["server"] /\ a.ack = 0 /\ a.re = h.id
           /\ nextId'["server"] = nextId["server"] + 1 /\ nextId'["client"] = nextId["client"]
           /\ UNCHANGED <<maxReceived, resync, flushId, sent, handled, reconnects>>
           /\ wire' \in [End -> Seq(EnvelopeType)] /\ nextId' \in [End -> Nat]
<1> DEFINE h == Incoming("server")
           a == AckEnvelope(nextId["server"], h.id)
<1>1. Peer("server") = "client" /\ "client" \in End /\ "server" \in End
  BY DEF Peer, End
<1>2. TakeIn("server") /\ h.kind = k
  BY DEF Answer
<1>3. h.id \in Nat /\ Tail(wire["client"]) \in Seq(EnvelopeType) /\ nextId["server"] \in Nat
  BY <1>1, <1>2, TakeFacts DEF TypeOK
<1>4. /\ a \in EnvelopeType
      /\ a.kind = "ack" /\ a.id = nextId["server"] /\ a.ack = 0 /\ a.re = h.id
  BY <1>3, EnvelopeFacts
<1>5. /\ nextId' = [nextId EXCEPT !["server"] = nextId["server"] + 1]
      /\ UNCHANGED <<maxReceived, resync, flushId, sent, handled, reconnects>>
      /\ wire' = [wire EXCEPT !["client"] = Tail(wire["client"]),
                              !["server"] = wire["server"] \o resent \o <<a>>]
  BY DEF Answer
<1> HIDE DEF a, h
<1>6. <<a>> \in Seq(EnvelopeType) /\ wire["server"] \o resent \in Seq(EnvelopeType)
  BY <1>1, <1>4 DEF TypeOK
<1>7. (wire["server"] \o resent) \o <<a>> \in Seq(EnvelopeType)
  BY <1>6
<1>8. wire'["client"] = Tail(wire["client"]) /\ wire'["server"] = (wire["server"] \o resent) \o <<a>>
  BY <1>1, <1>5 DEF TypeOK
<1>9. wire' \in [End -> Seq(EnvelopeType)]
  BY <1>1, <1>3, <1>5, <1>7 DEF TypeOK
<1>10. nextId' \in [End -> Nat] /\ nextId'["server"] = nextId["server"] + 1 /\ nextId'["client"] = nextId["client"]
  BY <1>1, <1>3, <1>5, SMTT(30) DEF TypeOK
<1> QED BY <1>2, <1>4, <1>5, <1>6, <1>8, <1>9, <1>10 DEF a, h

\* The server answers the RemoteStarted of a new connection.
LEMMA StartedFacts ==
    ASSUME TypeOK, AnswerStarted
    PROVE  /\ TakeIn("server") /\ Incoming("server").kind = "started"
           /\ wire'["client"] = Tail(wire["client"])
           /\ nextId'["server"] = nextId["server"] + 1 /\ nextId'["client"] = nextId["client"]
           /\ UNCHANGED <<maxReceived, resync, flushId, sent, handled, reconnects>>
           /\ \E a \in EnvelopeType :
                 /\ a.kind = "ack" /\ a.id = nextId["server"] /\ a.ack = 0
                 /\ a.re = Incoming("server").id
                 /\ wire'["server"] = wire["server"] \o <<a>> /\ <<a>> \in Seq(EnvelopeType)
<1>1. <<>> \in Seq(EnvelopeType)
  OBVIOUS
<1>2. Answer("started", <<>>)
  BY DEF AnswerStarted
<1>3. wire["server"] \o <<>> = wire["server"]
  BY DEF TypeOK, End
<1> QED BY <1>1, <1>2, <1>3, AnswerFacts

\* The server answers a flush: what is left in its buffer, and an Ack.
LEMMA FlushFacts ==
    ASSUME TypeOK, AnswerFlush
    PROVE  /\ TakeIn("server") /\ Incoming("server").kind = "flush"
           /\ wire'["client"] = Tail(wire["client"])
           /\ nextId'["server"] = nextId["server"] + 1 /\ nextId'["client"] = nextId["client"]
           /\ UNCHANGED <<maxReceived, resync, flushId, sent, handled, reconnects>>
           /\ buffer'["server"] \in Seq(EnvelopeType)
           /\ \A i \in 1..Len(buffer'["server"]) :
                 \E j \in 1..Len(buffer["server"]) : buffer'["server"][i] = buffer["server"][j]
           /\ wire["server"] \o buffer'["server"] \in Seq(EnvelopeType)
           /\ \E a \in EnvelopeType :
                 /\ a.kind = "ack" /\ a.id = nextId["server"] /\ a.ack = 0
                 /\ a.re = Incoming("server").id /\ <<a>> \in Seq(EnvelopeType)
                 /\ wire'["server"] = (wire["server"] \o buffer'["server"]) \o <<a>>
<1>1. "server" \in End /\ buffer["server"] \in Seq(EnvelopeType)
  BY DEF TypeOK, End
<1>2. TakeIn("server")
  BY DEF AnswerFlush, Answer
<1>3. /\ buffer'["server"] = DropAcked(buffer["server"], Incoming("server").ack)
      /\ buffer'["server"] \in Seq(EnvelopeType) /\ Incoming("server").ack \in Nat
  BY <1>1, <1>2, TakeFacts
<1>4. \A i \in 1..Len(buffer'["server"]) :
        \E j \in 1..Len(buffer["server"]) : buffer'["server"][i] = buffer["server"][j]
  BY <1>1, <1>2, TakeDrops
<1>5. Answer("flush", buffer'["server"])
  BY <1>3 DEF AnswerFlush
<1> QED BY <1>3, <1>4, <1>5, AnswerFacts

\* The client sends its buffer again.
LEMMA ResendFacts ==
    ASSUME TypeOK, Resend
    PROVE  /\ resync = "answered" /\ resync' = "idle"
           /\ wire'["client"] = wire["client"] \o buffer["client"]
           /\ wire'["server"] = wire["server"]
           /\ wire["client"] \in Seq(EnvelopeType) /\ buffer["client"] \in Seq(EnvelopeType)
           /\ UNCHANGED <<nextId, buffer, maxReceived, flushId, sent, handled, reconnects>>
           /\ wire' \in [End -> Seq(EnvelopeType)]
<1>1. "client" \in End /\ "server" \in End
  BY DEF End
<1>2. wire["client"] \in Seq(EnvelopeType) /\ buffer["client"] \in Seq(EnvelopeType)
  BY <1>1 DEF TypeOK
<1>3. wire["client"] \o buffer["client"] \in Seq(EnvelopeType)
  BY <1>2
<1> QED BY <1>1, <1>2, <1>3 DEF TypeOK, Resend

\* A connection is lost and replaced.
LEMMA ReconnectFacts ==
    ASSUME TypeOK, Reconnect
    PROVE  LET f == Envelope("flush", nextId["client"], maxReceived["client"])
               g == Envelope("started", 0, 0) IN
           /\ f \in EnvelopeType /\ f.kind = "flush" /\ f.id = nextId["client"]
           /\ f.ack = maxReceived["client"] /\ f.re = 0
           /\ g \in EnvelopeType /\ g.kind = "started" /\ g.id = 0 /\ g.ack = 0 /\ g.re = 0
           /\ wire'["client"] = <<f, g>>
           /\ wire'["server"] \in Seq(EnvelopeType)
           /\ \A i \in 1..Len(wire'["server"]) :
                 \E j \in 1..Len(wire["server"]) : wire'["server"][i] = wire["server"][j]
           /\ flushId' = nextId["client"] /\ resync' = "waiting"
           /\ nextId'["client"] = nextId["client"] + 1 /\ nextId'["server"] = nextId["server"]
           /\ UNCHANGED <<buffer, maxReceived, sent, handled>>
           /\ reconnects < MaxReconnect /\ reconnects' = reconnects + 1
           /\ wire' \in [End -> Seq(EnvelopeType)] /\ nextId' \in [End -> Nat]
<1> DEFINE f == Envelope("flush", nextId["client"], maxReceived["client"])
           g == Envelope("started", 0, 0)
<1>1. "client" \in End /\ "server" \in End /\ nextId["client"] \in Nat /\ maxReceived["client"] \in Nat
  BY DEF End, TypeOK
<1>2. /\ f \in EnvelopeType /\ f.kind = "flush" /\ f.id = nextId["client"]
      /\ f.ack = maxReceived["client"] /\ f.re = 0
  BY <1>1, EnvelopeFacts
<1>3. g \in EnvelopeType /\ g.kind = "started" /\ g.id = 0 /\ g.ack = 0 /\ g.re = 0
  BY EnvelopeFacts
<1>4. PICK w \in 0..Len(wire["server"]) :
          wire' = [wire EXCEPT !["client"] = <<f, g>>, !["server"] = Unwritten(w)]
  BY DEF Reconnect, NoAck
<1>5. /\ Unwritten(w) \in Seq(EnvelopeType)
      /\ \A i \in 1..Len(Unwritten(w)) : \E j \in 1..Len(wire["server"]) : Unwritten(w)[i] = wire["server"][j]
  <2>1. wire["server"] \in Seq(EnvelopeType)
    BY <1>1 DEF TypeOK
  <2> QED BY <2>1, SuffixFacts DEF Unwritten
<1> HIDE DEF f, g
<1>6. <<f, g>> \in Seq(EnvelopeType)
  BY <1>2, <1>3
<1>7. wire'["client"] = <<f, g>> /\ wire'["server"] = Unwritten(w)
  BY <1>1, <1>4 DEF TypeOK
<1>8. wire' \in [End -> Seq(EnvelopeType)]
  BY <1>1, <1>4, <1>5, <1>6 DEF TypeOK
<1>9. /\ flushId' = nextId["client"] /\ resync' = "waiting"
      /\ nextId' = [nextId EXCEPT !["client"] = nextId["client"] + 1]
      /\ UNCHANGED <<buffer, maxReceived, sent, handled>>
      /\ reconnects < MaxReconnect /\ reconnects' = reconnects + 1
  BY DEF Reconnect
<1>10. nextId' \in [End -> Nat] /\ nextId'["client"] = nextId["client"] + 1 /\ nextId'["server"] = nextId["server"]
  BY <1>1, <1>9 DEF TypeOK
<1> QED BY <1>2, <1>3, <1>5, <1>7, <1>8, <1>9, <1>10 DEF f, g

\* Types are kept by every step.
LEMMA TypesKept == TypeOK /\ [Next]_vars => TypeOK'
<1> SUFFICES ASSUME TypeOK, [Next]_vars PROVE TypeOK'
  OBVIOUS
<1>0. "client" \in End /\ "server" \in End
  BY DEF End
<1>1. ASSUME NEW e \in End, Send(e) PROVE TypeOK'
  BY <1>1, SendFacts DEF TypeOK
<1>2. CASE Receive("client") \/ ReceiveAck
  <2>1. TakeIn("client")
    BY <1>2, ClientTakes
  <2>2. buffer' \in [End -> Seq(EnvelopeType)]
    BY <1>0, <2>1, TakeFacts
  <2> QED BY <1>2, <2>2, ClientTakes DEF TypeOK
<1>3. CASE Receive("server")
  <2>1. buffer' \in [End -> Seq(EnvelopeType)]
    BY <1>0, <1>3, ServerTakes, TakeFacts
  <2> QED BY <1>3, <2>1, ServerTakes DEF TypeOK
<1>4. ASSUME NEW k, NEW resent \in Seq(EnvelopeType), Answer(k, resent) PROVE TypeOK'
  <2>1. buffer' \in [End -> Seq(EnvelopeType)]
    BY <1>0, <1>4, AnswerFacts, TakeFacts
  <2> QED BY <1>4, <2>1, AnswerFacts DEF TypeOK
<1>5. CASE AnswerStarted
  <2>1. <<>> \in Seq(EnvelopeType)
    OBVIOUS
  <2> QED BY <1>4, <1>5, <2>1 DEF AnswerStarted
<1>6. CASE AnswerFlush
  <2>1. DropAcked(buffer["server"], Incoming("server").ack) \in Seq(EnvelopeType)
    <3>1. TakeIn("server")
      BY <1>6 DEF AnswerFlush, Answer
    <3> QED BY <1>0, <3>1, TakeFacts
  <2> QED BY <1>4, <1>6, <2>1 DEF AnswerFlush
<1>7. CASE Resend
  BY <1>7, ResendFacts DEF TypeOK
<1>8. CASE Reconnect
  <2>1. nextId["client"] \in Nat /\ reconnects + 1 \in Nat
    BY <1>0 DEF TypeOK
  <2> QED BY <1>8, <2>1, ReconnectFacts DEF TypeOK
<1>9. CASE UNCHANGED vars
  BY <1>9 DEF TypeOK, vars
<1> QED BY <1>1, <1>2, <1>3, <1>5, <1>6, <1>7, <1>8, <1>9 DEF Next, Deliver, End

-----------------------------------------------------------------------------
(* Ids. *)

\* Counters, ids and acknowledgements are numbers.
LEMMA NumFacts ==
    ASSUME TypeOK, NEW e \in End
    PROVE  /\ nextId[e] \in Nat /\ maxReceived[e] \in Nat /\ flushId \in Nat
           /\ wire[e] \in Seq(EnvelopeType) /\ buffer[e] \in Seq(EnvelopeType)
           /\ \A id \in sent[e] : id \in Nat
           /\ \A i \in 1..Len(wire[e]) :
                 wire[e][i].id \in Nat /\ wire[e][i].ack \in Nat /\ wire[e][i].re \in Nat
           /\ \A i \in 1..Len(buffer[e]) : buffer[e][i].id \in Nat /\ buffer[e][i].ack \in Nat
           /\ Peer(e) \in End /\ nextId[Peer(e)] \in Nat
<1>1. Peer(e) \in End
  BY DEF Peer, End
<1>2. wire[e] \in Seq(EnvelopeType) /\ buffer[e] \in Seq(EnvelopeType)
  BY DEF TypeOK
<1>3. \A i \in 1..Len(wire[e]) : wire[e][i] \in EnvelopeType
  BY <1>2
<1>4. \A i \in 1..Len(buffer[e]) : buffer[e][i] \in EnvelopeType
  BY <1>2
<1> QED BY <1>1, <1>2, <1>3, <1>4 DEF TypeOK, EnvelopeType

\* An element of two sequences one after the other is an element of one.
LEMMA ElementOfConcat ==
    ASSUME NEW S, NEW a \in Seq(S), NEW b \in Seq(S), NEW i \in 1..Len(a \o b)
    PROVE  \/ i \in 1..Len(a) /\ (a \o b)[i] = a[i]
           \/ \E j \in 1..Len(b) : i = Len(a) + j /\ (a \o b)[i] = b[j]
BY ConcatFacts

\* The counters go up, and what is received was sent.
LEMMA CountersKept == TypeOK /\ IdsAssigned /\ [Next]_vars => CountersSound'
<1> SUFFICES ASSUME TypeOK, IdsAssigned, [Next]_vars PROVE CountersSound'
  OBVIOUS
<1>0. /\ "client" \in End /\ "server" \in End /\ Peer("client") = "server" /\ Peer("server") = "client"
      /\ \A e \in End : e = "client" \/ e = "server"
  BY DEF End, Peer
<1>a. CountersSound /\ EnvelopesSound
  BY DEF IdsAssigned
<1>1. ASSUME NEW e \in End, Send(e) PROVE CountersSound'
  <2> SUFFICES ASSUME NEW d \in End
               PROVE  /\ nextId'[d] > 0
                      /\ \A id \in sent'[d] : 0 < id /\ id < nextId'[d]
                      /\ maxReceived[d] < nextId'[Peer(d)]
    BY <1>1, SendFacts DEF CountersSound
  <2>1. /\ nextId[d] \in Nat /\ nextId[Peer(d)] \in Nat /\ maxReceived[d] \in Nat
        /\ \A id \in sent[d] : id \in Nat
    BY NumFacts
  <2>2. /\ nextId'[d] \in {nextId[d], nextId[d] + 1} /\ nextId'[Peer(d)] \in {nextId[Peer(d)], nextId[Peer(d)] + 1}
        /\ \/ sent'[d] = sent[d]
           \/ sent'[d] = sent[d] \cup {nextId[d]} /\ nextId'[d] = nextId[d] + 1
    <3>1. /\ nextId'[e] = nextId[e] + 1 /\ sent'[e] = sent[e] \cup {nextId[e]}
          /\ nextId'[Peer(e)] = nextId[Peer(e)] /\ sent'[Peer(e)] = sent[Peer(e)]
      BY <1>1, SendFacts
    <3>2. d = e \/ d = Peer(e)
      BY <1>0
    <3>3. Peer(Peer(e)) = e
      BY <1>0
    <3> QED BY <3>1, <3>2, <3>3
  <2>3. /\ nextId[d] > 0 /\ (\A id \in sent[d] : 0 < id /\ id < nextId[d])
        /\ maxReceived[d] < nextId[Peer(d)]
    BY <1>a DEF CountersSound
  <2> QED BY <2>1, <2>2, <2>3
<1>2. CASE Receive("client") \/ ReceiveAck
  <2>1. Incoming("client").id < nextId["server"]
    <3>1. TakeIn("client")
      BY <1>2, ClientTakes
    <3>2. 1 \in 1..Len(wire["server"]) /\ Incoming("client") = wire["server"][1]
      BY <1>0, <3>1, TakeFacts, TailFacts
    <3> QED BY <1>0, <1>a, <3>2 DEF EnvelopesSound
  <2> QED BY <1>0, <1>2, <1>a, <2>1, ClientTakes DEF CountersSound
<1>3. CASE Receive("server")
  <2>1. Incoming("server").id < nextId["client"]
    <3>1. 1 \in 1..Len(wire["client"]) /\ Incoming("server") = wire["client"][1]
      BY <1>0, <1>3, ServerTakes, TakeFacts, TailFacts
    <3> QED BY <1>0, <1>a, <3>1 DEF EnvelopesSound
  <2> QED BY <1>0, <1>3, <1>a, <2>1, ServerTakes DEF CountersSound
<1>4. ASSUME UNCHANGED <<maxReceived, sent>>,
             \/ nextId'["server"] = nextId["server"] + 1 /\ nextId'["client"] = nextId["client"]
             \/ nextId'["client"] = nextId["client"] + 1 /\ nextId'["server"] = nextId["server"]
      PROVE  CountersSound'
  <2> SUFFICES ASSUME NEW d \in End
               PROVE  /\ nextId'[d] > 0
                      /\ \A id \in sent[d] : 0 < id /\ id < nextId'[d]
                      /\ maxReceived[d] < nextId'[Peer(d)]
    BY <1>4 DEF CountersSound
  <2>1. /\ nextId[d] \in Nat /\ nextId[Peer(d)] \in Nat /\ maxReceived[d] \in Nat
        /\ \A id \in sent[d] : id \in Nat
    BY NumFacts
  <2>2. nextId'[d] \in {nextId[d], nextId[d] + 1} /\ nextId'[Peer(d)] \in {nextId[Peer(d)], nextId[Peer(d)] + 1}
    BY <1>0, <1>4
  <2>3. /\ nextId[d] > 0 /\ (\A id \in sent[d] : 0 < id /\ id < nextId[d])
        /\ maxReceived[d] < nextId[Peer(d)]
    BY <1>a DEF CountersSound
  <2> QED BY <2>1, <2>2, <2>3
<1>5. CASE AnswerStarted
  BY <1>4, <1>5, StartedFacts
<1>6. CASE AnswerFlush
  BY <1>4, <1>6, FlushFacts
<1>7. CASE Reconnect
  BY <1>4, <1>7, ReconnectFacts
<1>8. CASE Resend \/ UNCHANGED vars
  <2>1. UNCHANGED <<maxReceived, sent, nextId>>
    BY <1>8 DEF Resend, vars
  <2> QED BY <1>a, <2>1 DEF CountersSound
<1> QED BY <1>0, <1>1, <1>2, <1>3, <1>5, <1>6, <1>7, <1>8 DEF Next, Deliver

\* Nothing is sent or acknowledged but ids of the counters.
LEMMA EnvelopesKept == TypeOK /\ IdsAssigned /\ [Next]_vars => EnvelopesSound'
<1> SUFFICES ASSUME TypeOK, IdsAssigned, [Next]_vars PROVE EnvelopesSound'
  OBVIOUS
<1>0. /\ "client" \in End /\ "server" \in End /\ Peer("client") = "server" /\ Peer("server") = "client"
      /\ \A e \in End : e = "client" \/ e = "server"
  BY DEF End, Peer
<1>a. CountersSound /\ EnvelopesSound
  BY DEF IdsAssigned
<1> DEFINE Sound(m, e) == m.id < nextId[e] /\ m.ack < nextId[Peer(e)]
           Sound1(m, e) == m.id < nextId'[e] /\ m.ack < nextId'[Peer(e)]
           Plain(m) == m.kind = "message" /\ m.re = 0
<1>b. \A e \in End : \A i \in 1..Len(wire[e]) : Sound(wire[e][i], e)
  BY <1>a DEF EnvelopesSound
<1>c. \A e \in End : \A i \in 1..Len(buffer[e]) : Sound(buffer[e][i], e) /\ Plain(buffer[e][i])
  BY <1>a DEF EnvelopesSound
<1>d. ASSUME \A e \in End : \A i \in 1..Len(wire'[e]) : Sound1(wire'[e][i], e),
             \A e \in End : \A i \in 1..Len(buffer'[e]) : Sound1(buffer'[e][i], e) /\ Plain(buffer'[e][i])
      PROVE  EnvelopesSound'
  BY <1>d DEF EnvelopesSound
<1>e. ASSUME \A e \in End : nextId'[e] \in {nextId[e], nextId[e] + 1},
             NEW e \in End, NEW m \in EnvelopeType, Sound(m, e)
      PROVE  Sound1(m, e)
  <2>1. /\ nextId[e] \in Nat /\ nextId[Peer(e)] \in Nat /\ m.id \in Nat /\ m.ack \in Nat /\ Peer(e) \in End
    BY NumFacts DEF EnvelopeType
  <2>2. nextId'[e] \in {nextId[e], nextId[e] + 1} /\ nextId'[Peer(e)] \in {nextId[Peer(e)], nextId[Peer(e)] + 1}
    BY <1>e, <2>1
  <2> QED BY <1>e, <2>1, <2>2
<1>f. \A e \in End : /\ wire[e] \in Seq(EnvelopeType) /\ buffer[e] \in Seq(EnvelopeType)
                     /\ \A i \in 1..Len(wire[e]) : wire[e][i] \in EnvelopeType
                     /\ \A i \in 1..Len(buffer[e]) : buffer[e][i] \in EnvelopeType
  <2>1. \A e \in End : wire[e] \in Seq(EnvelopeType) /\ buffer[e] \in Seq(EnvelopeType)
    BY NumFacts
  <2> QED BY <2>1
<1> HIDE DEF Sound, Sound1, Plain
\* What was there is still bounded.
<1>g. ASSUME \A e \in End : nextId'[e] \in {nextId[e], nextId[e] + 1}, NEW e \in End
      PROVE  /\ \A i \in 1..Len(wire[e]) : Sound1(wire[e][i], e)
             /\ \A i \in 1..Len(buffer[e]) : Sound1(buffer[e][i], e) /\ Plain(buffer[e][i])
  BY <1>b, <1>c, <1>e, <1>f, <1>g
<1>h. ASSUME NEW e \in End, TakeIn(e), \A d \in End : nextId'[d] \in {nextId[d], nextId[d] + 1}
      PROVE  \A d \in End : \A i \in 1..Len(buffer'[d]) : Sound1(buffer'[d][i], d) /\ Plain(buffer'[d][i])
  <2>1. \A i \in 1..Len(buffer'[e]) : \E j \in 1..Len(buffer[e]) : buffer'[e][i] = buffer[e][j]
    BY <1>h, TakeDrops
  <2>2. \A i \in 1..Len(buffer'[e]) : Sound1(buffer'[e][i], e) /\ Plain(buffer'[e][i])
    BY <1>g, <1>h, <2>1
  <2>3. Peer(e) \in End /\ buffer'[Peer(e)] = buffer[Peer(e)]
    BY <1>0, <1>h, TakeFacts
  <2>4. \A i \in 1..Len(buffer'[Peer(e)]) : Sound1(buffer'[Peer(e)][i], Peer(e)) /\ Plain(buffer'[Peer(e)][i])
    BY <1>g, <1>h, <2>3
  <2> QED BY <1>0, <2>2, <2>4
<1>i. ASSUME NEW s \in Seq(EnvelopeType), s # <<>>, NEW e, \A i \in 1..Len(s) : Sound1(s[i], e)
      PROVE  \A i \in 1..Len(Tail(s)) : Sound1(Tail(s)[i], e)
  BY <1>i, TailFacts
<1>j. ASSUME NEW s \in Seq(EnvelopeType), NEW t \in Seq(EnvelopeType), NEW e,
             \A i \in 1..Len(s) : Sound1(s[i], e), \A i \in 1..Len(t) : Sound1(t[i], e)
      PROVE  \A i \in 1..Len(s \o t) : Sound1((s \o t)[i], e)
  <2> SUFFICES ASSUME NEW i \in 1..Len(s \o t) PROVE Sound1((s \o t)[i], e)
    OBVIOUS
  <2> QED BY <1>j, ElementOfConcat
<1>1. ASSUME NEW e \in End, Send(e) PROVE EnvelopesSound'
  <2> DEFINE m == Envelope("message", nextId[e], maxReceived[e])
  <2>1. /\ \A d \in End : nextId'[d] \in {nextId[d], nextId[d] + 1}
        /\ nextId'[e] = nextId[e] + 1 /\ nextId'[Peer(e)] = nextId[Peer(e)]
    <3>1. nextId'[e] = nextId[e] + 1 /\ nextId'[Peer(e)] = nextId[Peer(e)]
      BY <1>1, SendFacts
    <3> QED BY <1>0, <3>1
  <2>2. Sound1(m, e) /\ Plain(m) /\ <<m>> \in Seq(EnvelopeType)
    <3>1. m.id = nextId[e] /\ m.ack = maxReceived[e] /\ m.kind = "message" /\ m.re = 0 /\ <<m>> \in Seq(EnvelopeType)
      BY <1>1, SendFacts
    <3>2. nextId[e] < nextId[e] + 1 /\ maxReceived[e] < nextId[Peer(e)]
      BY <1>a, NumFacts DEF CountersSound
    <3> QED BY <2>1, <3>1, <3>2 DEF Sound1, Plain
  <2>3. wire'[e] = wire[e] \o <<m>> /\ buffer'[e] = buffer[e] \o <<m>>
    BY <1>1, SendFacts
  <2> HIDE DEF m
  <2>4. \A i \in 1..Len(<<m>>) : <<m>>[i] = m
    OBVIOUS
  <2>5. \A i \in 1..Len(wire'[e]) : Sound1(wire'[e][i], e)
    BY <1>f, <1>g, <1>j, <2>1, <2>2, <2>3, <2>4
  <2>6. ASSUME NEW i \in 1..Len(buffer'[e]) PROVE Sound1(buffer'[e][i], e) /\ Plain(buffer'[e][i])
    BY <1>f, <1>g, <2>1, <2>2, <2>3, <2>4, ElementOfConcat
  <2>7. wire'[Peer(e)] = wire[Peer(e)] /\ buffer'[Peer(e)] = buffer[Peer(e)] /\ Peer(e) \in End
    <3>1. wire'[Peer(e)] = wire[Peer(e)] /\ buffer'[Peer(e)] = buffer[Peer(e)]
      BY <1>1, SendFacts
    <3> QED BY <1>0, <3>1
  <2>8. /\ \A i \in 1..Len(wire'[Peer(e)]) : Sound1(wire'[Peer(e)][i], Peer(e))
        /\ \A i \in 1..Len(buffer'[Peer(e)]) : Sound1(buffer'[Peer(e)][i], Peer(e)) /\ Plain(buffer'[Peer(e)][i])
    BY <1>g, <2>1, <2>7
  <2> QED BY <1>0, <1>d, <2>5, <2>6, <2>8
<1>2. CASE Receive("client") \/ ReceiveAck
  <2>1. /\ TakeIn("client") /\ UNCHANGED nextId
        /\ wire'["server"] = Tail(wire["server"]) /\ wire'["client"] = wire["client"]
    BY <1>2, ClientTakes
  <2>2. wire["server"] # <<>> /\ wire["server"] \in Seq(EnvelopeType)
    BY <1>0, <2>1, TakeFacts
  <2>3. \A e \in End : \A i \in 1..Len(wire'[e]) : Sound1(wire'[e][i], e)
    BY <1>0, <1>g, <1>i, <2>1, <2>2
  <2> QED BY <1>0, <1>d, <1>h, <2>1, <2>3
<1>3. CASE Receive("server")
  <2>1. /\ TakeIn("server") /\ UNCHANGED nextId
        /\ wire'["client"] = Tail(wire["client"]) /\ wire'["server"] = wire["server"]
    BY <1>3, ServerTakes
  <2>2. wire["client"] # <<>> /\ wire["client"] \in Seq(EnvelopeType)
    BY <1>0, <2>1, TakeFacts
  <2>3. \A e \in End : \A i \in 1..Len(wire'[e]) : Sound1(wire'[e][i], e)
    BY <1>0, <1>g, <1>i, <2>1, <2>2
  <2> QED BY <1>0, <1>d, <1>h, <2>1, <2>3
<1>4. ASSUME NEW a \in EnvelopeType, NEW resent \in Seq(EnvelopeType), TakeIn("server"),
             a.id = nextId["server"], a.ack = 0,
             \A i \in 1..Len(resent) : \E j \in 1..Len(buffer["server"]) : resent[i] = buffer["server"][j],
             wire'["client"] = Tail(wire["client"]),
             wire'["server"] = (wire["server"] \o resent) \o <<a>>,
             nextId'["server"] = nextId["server"] + 1, nextId'["client"] = nextId["client"]
      PROVE  EnvelopesSound'
  <2>1. \A d \in End : nextId'[d] \in {nextId[d], nextId[d] + 1}
    BY <1>0, <1>4
  <2>2. wire["client"] # <<>> /\ wire["client"] \in Seq(EnvelopeType)
    BY <1>0, <1>4, TakeFacts
  <2>3. Sound1(a, "server")
    <3>1. nextId["server"] < nextId["server"] + 1 /\ 0 < nextId["client"]
      BY <1>0, <1>a, NumFacts DEF CountersSound
    <3> QED BY <1>0, <1>4, <3>1 DEF Sound1
  <2>4. <<a>> \in Seq(EnvelopeType) /\ \A i \in 1..Len(<<a>>) : <<a>>[i] = a
    OBVIOUS
  <2>5. \A i \in 1..Len(resent) : Sound1(resent[i], "server")
    BY <1>0, <1>4, <1>g, <2>1
  <2>6. wire["server"] \o resent \in Seq(EnvelopeType)
    BY <1>0, <1>f
  <2>7. \A i \in 1..Len(wire["server"] \o resent) : Sound1((wire["server"] \o resent)[i], "server")
    BY <1>0, <1>f, <1>g, <1>j, <2>1, <2>5
  <2>8. \A i \in 1..Len(wire'["server"]) : Sound1(wire'["server"][i], "server")
    BY <1>4, <1>j, <2>3, <2>4, <2>6, <2>7
  <2>9. \A i \in 1..Len(wire'["client"]) : Sound1(wire'["client"][i], "client")
    BY <1>0, <1>4, <1>g, <1>i, <2>1, <2>2
  <2> QED BY <1>0, <1>4, <1>d, <1>h, <2>1, <2>8, <2>9
<1>5. CASE AnswerStarted
  <2>1. \A i \in 1..Len(<<>>) : \E j \in 1..Len(buffer["server"]) : <<>>[i] = buffer["server"][j]
    OBVIOUS
  <2>2. <<>> \in Seq(EnvelopeType) /\ wire["server"] \o <<>> = wire["server"]
    BY <1>0, <1>f
  <2> QED BY <1>4, <1>5, <2>1, <2>2, StartedFacts
<1>6. CASE AnswerFlush
  BY <1>4, <1>6, FlushFacts
<1>7. CASE Resend
  <2>1. /\ wire'["client"] = wire["client"] \o buffer["client"] /\ wire'["server"] = wire["server"]
        /\ UNCHANGED <<nextId, buffer>>
    BY <1>7, ResendFacts
  <2>2. /\ \A i \in 1..Len(wire'["client"]) : Sound1(wire'["client"][i], "client")
        /\ \A i \in 1..Len(wire'["server"]) : Sound1(wire'["server"][i], "server")
    BY <1>0, <1>f, <1>g, <1>j, <2>1
  <2> QED BY <1>0, <1>d, <1>g, <2>1, <2>2
<1>8. CASE Reconnect
  <2> DEFINE f == Envelope("flush", nextId["client"], maxReceived["client"])
             g == Envelope("started", 0, 0)
  <2>1. /\ f.id = nextId["client"] /\ f.ack = maxReceived["client"] /\ g.id = 0 /\ g.ack = 0
        /\ wire'["client"] = <<f, g>>
        /\ nextId'["client"] = nextId["client"] + 1 /\ nextId'["server"] = nextId["server"]
        /\ UNCHANGED buffer
        /\ \A i \in 1..Len(wire'["server"]) :
                 \E j \in 1..Len(wire["server"]) : wire'["server"][i] = wire["server"][j]
    BY <1>8, ReconnectFacts
  <2>2. Sound1(f, "client") /\ Sound1(g, "client")
    <3>1. /\ nextId["client"] < nextId["client"] + 1 /\ 0 < nextId["client"] + 1
          /\ 0 < nextId["server"] /\ maxReceived["client"] < nextId["server"]
      BY <1>0, <1>a, NumFacts DEF CountersSound
    <3> QED BY <1>0, <2>1, <3>1 DEF Sound1
  <2> HIDE DEF f, g
  <2>3. \A i \in 1..Len(wire'["client"]) : wire'["client"][i] \in {f, g}
    BY <2>1
  <2>4. \A d \in End : nextId'[d] \in {nextId[d], nextId[d] + 1}
    BY <1>0, <2>1
  <2>5. \A i \in 1..Len(wire'["server"]) : Sound1(wire'["server"][i], "server")
    BY <1>0, <1>g, <2>1, <2>4
  <2>6. \A i \in 1..Len(wire'["client"]) : Sound1(wire'["client"][i], "client")
    BY <2>2, <2>3
  <2> QED BY <1>0, <1>d, <1>g, <2>1, <2>4, <2>5, <2>6
<1>9. CASE UNCHANGED vars
  BY <1>a, <1>9 DEF EnvelopesSound, vars
<1> QED BY <1>0, <1>1, <1>2, <1>3, <1>5, <1>6, <1>7, <1>8, <1>9 DEF Next, Deliver

-----------------------------------------------------------------------------
(* The flush. *)

\* The names of the ends.
LEMMA Ends ==
    /\ "client" \in End /\ "server" \in End /\ Peer("client") = "server" /\ Peer("server") = "client"
    /\ \A e \in End : e = "client" \/ e = "server"
BY DEF End, Peer

\* The flush stays in front, and answers carry the ids of the client.
LEMMA FlushKept == ChannelInv /\ [Next]_vars => FlushSound'
<1> SUFFICES ASSUME ChannelInv, [Next]_vars PROVE FlushSound'
  OBVIOUS
<1> DEFINE WC == wire["client"]
           WS == wire["server"]
           BC == buffer["client"]
           BS == buffer["server"]
           n == nextId["client"]
<1>a. TypeOK /\ CountersSound /\ EnvelopesSound /\ FlushSound /\ ServerSound
  BY DEF ChannelInv, IdsSound, IdsAssigned
<1>b. /\ WC \in Seq(EnvelopeType) /\ WS \in Seq(EnvelopeType) /\ BC \in Seq(EnvelopeType)
      /\ BS \in Seq(EnvelopeType) /\ n \in Nat /\ flushId \in Nat
      /\ \A i \in 1..Len(WS) : WS[i].re \in Nat
  BY <1>a, Ends, NumFacts
<1>c. /\ \A i \in 1..Len(WC) : WC[i].kind = "flush" => i = 1 /\ resync = "waiting" /\ WC[i].id = flushId
      /\ \A i \in 1..Len(WS) : WS[i].re < n
      /\ flushId < n /\ flushId \notin sent["client"] /\ (resync = "waiting" => flushId > 0)
  BY <1>a DEF FlushSound
<1>d. n > 0 /\ (\A id \in sent["client"] : id < n) /\ \A i \in 1..Len(WC) : WC[i].id < n
  BY <1>a, Ends DEF CountersSound, EnvelopesSound
<1>e. /\ \A i \in 1..Len(BC) : BC[i].kind = "message"
      /\ \A i \in 1..Len(BS) : BS[i].re = 0
  BY <1>a, Ends DEF EnvelopesSound
<1>f. ASSUME WC # <<>>
      PROVE  \A i \in 1..Len(Tail(WC)) : Tail(WC)[i].kind # "flush"
  <2> SUFFICES ASSUME NEW i \in 1..Len(Tail(WC)), Tail(WC)[i].kind = "flush" PROVE FALSE
    OBVIOUS
  <2>1. i \in Nat /\ i >= 1 /\ i + 1 \in 1..Len(WC) /\ WC[i + 1].kind = "flush"
    BY <1>b, <1>f, TailFacts
  <2>2. i + 1 = 1
    BY <1>c, <2>1
  <2> QED BY <2>1, <2>2
<1>g. ASSUME NEW s \in Seq(EnvelopeType), \A i \in 1..Len(s) : s[i].re < n
      PROVE  \A i \in 1..Len(WS \o s) : (WS \o s)[i].re < n
  <2> SUFFICES ASSUME NEW i \in 1..Len(WS \o s) PROVE (WS \o s)[i].re < n
    OBVIOUS
  <2> HIDE DEF WS, n
  <2>1. \/ i \in 1..Len(WS) /\ (WS \o s)[i] = WS[i]
        \/ \E j \in 1..Len(s) : (WS \o s)[i] = s[j]
    BY <1>b, ElementOfConcat
  <2> QED BY <1>c, <1>g, <2>1
<1>h. ASSUME NEW s \in Seq(EnvelopeType), \A i \in 1..Len(s) : s[i].kind # "flush",
             NEW i \in 1..Len(WC \o s), (WC \o s)[i].kind = "flush"
      PROVE  i \in 1..Len(WC) /\ (WC \o s)[i] = WC[i]
  BY <1>b, <1>h, ElementOfConcat, SMTT(30)
<1> HIDE DEF WC, WS, BC, BS, n
<1>1. CASE Send("client")
  <2>1. PICK m \in EnvelopeType :
            /\ wire'["client"] = WC \o <<m>> /\ m.kind = "message" /\ <<m>> \in Seq(EnvelopeType)
            /\ wire'["server"] = WS /\ nextId'["client"] = n + 1
            /\ sent'["client"] = sent["client"] \cup {n} /\ UNCHANGED <<resync, flushId>>
    BY <1>1, <1>a, Ends, SendFacts, ZenonT(60) DEF WC, WS, n
  <2>2. \A i \in 1..Len(<<m>>) : <<m>>[i].kind # "flush"
    BY <2>1
  <2>3. \A i \in 1..Len(wire'["client"]) : wire'["client"][i].kind = "flush" =>
            i = 1 /\ resync = "waiting" /\ wire'["client"][i].id = flushId
    BY <1>c, <1>h, <2>1, <2>2
  <2>4. \A i \in 1..Len(WS) : WS[i].re < n + 1
    BY <1>b, <1>c
  <2>5. flushId < n + 1 /\ flushId # n
    BY <1>b, <1>c
  <2> QED BY <1>c, <2>1, <2>3, <2>4, <2>5 DEF FlushSound
<1>2. CASE Send("server")
  <2>1. PICK m \in EnvelopeType :
            /\ wire'["server"] = WS \o <<m>> /\ m.re = 0 /\ <<m>> \in Seq(EnvelopeType)
            /\ wire'["client"] = WC /\ nextId'["client"] = n
            /\ sent'["client"] = sent["client"] /\ UNCHANGED <<resync, flushId>>
    <3> DEFINE m0 == Envelope("message", nextId["server"], maxReceived["server"])
    <3>1. /\ m0 \in EnvelopeType /\ m0.re = 0 /\ <<m0>> \in Seq(EnvelopeType)
          /\ wire'["server"] = WS \o <<m0>>
      BY <1>2, <1>a, Ends, SendFacts DEF WS
    <3>2. /\ wire'["client"] = WC /\ nextId'["client"] = n
          /\ sent'["client"] = sent["client"] /\ UNCHANGED <<resync, flushId>>
      <4>1. /\ wire'[Peer("server")] = wire[Peer("server")] /\ nextId'[Peer("server")] = nextId[Peer("server")]
            /\ sent'[Peer("server")] = sent[Peer("server")] /\ UNCHANGED <<resync, flushId>>
        BY <1>2, <1>a, Ends, SendFacts
      <4> QED BY <4>1, Ends DEF WC, n
    <3> HIDE DEF m0
    <3> QED BY <3>1, <3>2
  <2>2. \A i \in 1..Len(<<m>>) : <<m>>[i].re < n
    BY <1>d, <2>1
  <2> QED BY <1>c, <1>g, <2>1, <2>2 DEF FlushSound
<1>3. CASE Receive("client") \/ ReceiveAck
  <2> DEFINE h == Incoming("client")
  <2>1. /\ TakeIn("client") /\ wire'["server"] = Tail(WS) /\ wire'["client"] = WC
        /\ UNCHANGED <<nextId, flushId, sent>>
        /\ resync' = IF h.kind = "ack" /\ resync = "waiting" /\ h.re = flushId THEN "answered" ELSE resync
    BY <1>3, <1>a, ClientTakes DEF WC, WS
  <2>2. WS # <<>> /\ h = WS[1] /\ 1 \in 1..Len(WS)
    BY <1>a, <1>b, <2>1, Ends, TakeFacts, TailFacts DEF WS
  <2>3. \A i \in 1..Len(Tail(WS)) : Tail(WS)[i].re < n
    BY <1>b, <1>c, <2>2, TailFacts
  <2>4. \A i \in 1..Len(WC) : WC[i].kind = "flush" => h.re # flushId
    <3> SUFFICES ASSUME NEW i \in 1..Len(WC), WC[i].kind = "flush" PROVE h.re # flushId
      OBVIOUS
    <3>1. i = 1 /\ WC # <<>>
      BY <1>b, <1>c
    <3>2. FlushPending
      BY <3>1 DEF FlushPending, WC
    <3> QED BY <1>a, <2>2, <3>2 DEF ServerSound, WS
  <2>5. \A i \in 1..Len(WC) : WC[i].kind = "flush" => i = 1 /\ resync' = "waiting" /\ WC[i].id = flushId
    BY <1>c, <2>1, <2>4
  <2> QED BY <1>c, <2>1, <2>3, <2>5 DEF FlushSound, n
<1>4. CASE Receive("server")
  <2>1. /\ TakeIn("server") /\ wire'["server"] = WS /\ wire'["client"] = Tail(WC)
        /\ UNCHANGED <<nextId, flushId, sent, resync>>
    BY <1>4, <1>a, ServerTakes DEF WC, WS
  <2>2. WC # <<>>
    BY <1>a, <2>1, Ends, TakeFacts DEF WC
  <2> QED BY <1>c, <1>f, <2>1, <2>2 DEF FlushSound, n
<1>5. ASSUME NEW a \in EnvelopeType, NEW s \in Seq(EnvelopeType), TakeIn("server"),
             a.re = Incoming("server").id, \A i \in 1..Len(s) : s[i].re = 0,
             wire'["client"] = Tail(WC), wire'["server"] = (WS \o s) \o <<a>>,
             nextId'["client"] = n, UNCHANGED <<resync, flushId, sent>>
      PROVE  FlushSound'
  <2>1. WC # <<>> /\ Incoming("server") = WC[1] /\ 1 \in 1..Len(WC)
    BY <1>5, <1>a, <1>b, Ends, TakeFacts, TailFacts, SMTT(30) DEF WC
  <2>2. a.re < n
    BY <1>5, <1>d, <2>1
  <2>3. \A i \in 1..Len(WS \o s) : (WS \o s)[i].re < n
    BY <1>5, <1>d, <1>g
  <2>4. WS \o s \in Seq(EnvelopeType) /\ <<a>> \in Seq(EnvelopeType) /\ \A i \in 1..Len(<<a>>) : <<a>>[i] = a
    BY <1>b
  <2>5. \A i \in 1..Len((WS \o s) \o <<a>>) : ((WS \o s) \o <<a>>)[i].re < n
    <3> SUFFICES ASSUME NEW i \in 1..Len((WS \o s) \o <<a>>) PROVE ((WS \o s) \o <<a>>)[i].re < n
      OBVIOUS
    <3> QED BY <2>2, <2>3, <2>4, ElementOfConcat
  <2> QED BY <1>5, <1>c, <1>f, <2>1, <2>5 DEF FlushSound
<1>6. CASE AnswerStarted
  <2>1. <<>> \in Seq(EnvelopeType) /\ WS \o <<>> = WS /\ \A i \in 1..Len(<<>>) : <<>>[i].re = 0
    BY <1>b
  <2> QED BY <1>5, <1>6, <1>a, <2>1, StartedFacts DEF WC, WS, n
<1>7. CASE AnswerFlush
  <2>1. \A i \in 1..Len(buffer'["server"]) : buffer'["server"][i].re = 0
    BY <1>7, <1>a, <1>e, FlushFacts DEF BS
  <2> QED BY <1>5, <1>7, <1>a, <2>1, FlushFacts DEF WC, WS, n
<1>8. CASE Resend
  <2>1. /\ wire'["client"] = WC \o BC /\ wire'["server"] = WS /\ resync = "answered" /\ resync' = "idle"
        /\ UNCHANGED <<nextId, flushId, sent>>
    BY <1>8, <1>a, ResendFacts DEF WC, WS, BC
  <2>2. \A i \in 1..Len(WC \o BC) : (WC \o BC)[i].kind # "flush"
    BY <1>b, <1>c, <1>e, <1>h, <2>1
  <2> QED BY <1>c, <2>1, <2>2 DEF FlushSound, n
<1>9. CASE Reconnect
  <2>1. PICK f \in EnvelopeType, g \in EnvelopeType :
            /\ f.kind = "flush" /\ f.id = n /\ g.kind = "started" /\ wire'["client"] = <<f, g>>
            /\ \A i \in 1..Len(wire'["server"]) : \E j \in 1..Len(WS) : wire'["server"][i] = WS[j]
            /\ flushId' = n /\ resync' = "waiting" /\ nextId'["client"] = n + 1 /\ UNCHANGED sent
    BY <1>9, <1>a, ReconnectFacts DEF WS, n
  <2>2. \A i \in 1..Len(<<f, g>>) : <<f, g>>[i].kind = "flush" => i = 1 /\ <<f, g>>[i].id = n
    BY <2>1
  <2>3. \A i \in 1..Len(wire'["server"]) : wire'["server"][i].re < n + 1
    <3> SUFFICES ASSUME NEW i \in 1..Len(wire'["server"]) PROVE wire'["server"][i].re < n + 1
      OBVIOUS
    <3>1. PICK j \in 1..Len(WS) : wire'["server"][i] = WS[j]
      BY <2>1
    <3> QED BY <1>b, <1>c, <3>1, SMTT(30)
  <2>4. n < n + 1 /\ n \notin sent["client"] /\ n > 0
    BY <1>b, <1>d
  <2> QED BY <2>1, <2>2, <2>3, <2>4 DEF FlushSound
<1>10. CASE UNCHANGED vars
  BY <1>a, <1>10 DEF FlushSound, vars
<1> QED BY <1>1, <1>2, <1>3, <1>4, <1>6, <1>7, <1>8, <1>9, <1>10, Ends DEF Next, Deliver

-----------------------------------------------------------------------------
(* The messages of the client. *)

\* The client sends.
LEMMA ClientSends ==
    ASSUME TypeOK, Send("client")
    PROVE  \E m \in EnvelopeType :
           /\ m.kind = "message" /\ m.id = nextId["client"] /\ m.ack = maxReceived["client"]
           /\ m.re = 0 /\ <<m>> \in Seq(EnvelopeType)
           /\ wire'["client"] = wire["client"] \o <<m>>
           /\ buffer'["client"] = buffer["client"] \o <<m>>
           /\ wire'["server"] = wire["server"] /\ buffer'["server"] = buffer["server"]
           /\ nextId'["client"] = nextId["client"] + 1 /\ nextId'["server"] = nextId["server"]
           /\ sent'["client"] = sent["client"] \cup {nextId["client"]}
           /\ sent'["server"] = sent["server"]
           /\ UNCHANGED <<maxReceived, resync, flushId, handled>>
<1> DEFINE e == "client"
           m == Envelope("message", nextId[e], maxReceived[e])
<1>1. /\ m \in EnvelopeType /\ m.kind = "message" /\ m.id = nextId[e]
      /\ m.ack = maxReceived[e] /\ m.re = 0 /\ <<m>> \in Seq(EnvelopeType)
      /\ wire'[e] = wire[e] \o <<m>> /\ buffer'[e] = buffer[e] \o <<m>>
      /\ nextId'[e] = nextId[e] + 1 /\ sent'[e] = sent[e] \cup {nextId[e]}
      /\ wire'[Peer(e)] = wire[Peer(e)] /\ buffer'[Peer(e)] = buffer[Peer(e)]
      /\ nextId'[Peer(e)] = nextId[Peer(e)] /\ sent'[Peer(e)] = sent[Peer(e)]
      /\ UNCHANGED <<maxReceived, resync, flushId, handled>>
  BY Ends, SendFacts
<1> HIDE DEF m
<1> QED BY <1>1, Ends

\* The server sends.
LEMMA ServerSends ==
    ASSUME TypeOK, Send("server")
    PROVE  \E m \in EnvelopeType :
           /\ m.kind = "message" /\ m.id = nextId["server"] /\ m.ack = maxReceived["server"]
           /\ m.re = 0 /\ <<m>> \in Seq(EnvelopeType)
           /\ wire'["server"] = wire["server"] \o <<m>>
           /\ buffer'["server"] = buffer["server"] \o <<m>>
           /\ wire'["client"] = wire["client"] /\ buffer'["client"] = buffer["client"]
           /\ nextId'["server"] = nextId["server"] + 1 /\ nextId'["client"] = nextId["client"]
           /\ sent'["server"] = sent["server"] \cup {nextId["server"]}
           /\ sent'["client"] = sent["client"]
           /\ UNCHANGED <<maxReceived, resync, flushId, handled>>
<1> DEFINE e == "server"
           m == Envelope("message", nextId[e], maxReceived[e])
<1>1. /\ m \in EnvelopeType /\ m.kind = "message" /\ m.id = nextId[e]
      /\ m.ack = maxReceived[e] /\ m.re = 0 /\ <<m>> \in Seq(EnvelopeType)
      /\ wire'[e] = wire[e] \o <<m>> /\ buffer'[e] = buffer[e] \o <<m>>
      /\ nextId'[e] = nextId[e] + 1 /\ sent'[e] = sent[e] \cup {nextId[e]}
      /\ wire'[Peer(e)] = wire[Peer(e)] /\ buffer'[Peer(e)] = buffer[Peer(e)]
      /\ nextId'[Peer(e)] = nextId[Peer(e)] /\ sent'[Peer(e)] = sent[Peer(e)]
      /\ UNCHANGED <<maxReceived, resync, flushId, handled>>
  BY Ends, SendFacts
<1> HIDE DEF m
<1> QED BY <1>1, Ends

\* A sequence of one.
LEMMA OneFacts ==
    ASSUME NEW m \in EnvelopeType
    PROVE  /\ <<m>> \in Seq(EnvelopeType) /\ Len(<<m>>) = 1 /\ <<m>>[1] = m
           /\ \A i \in 1..Len(<<m>>) : <<m>>[i] = m
           /\ \A id : AcksBelow(<<m>>, id) <=> m.ack < id
           /\ m.kind = "message" => Holds(<<m>>, m.id)
BY DEF AcksBelow, Holds

\* What the client puts behind is no flush.
LEMMA PendingConcat ==
    ASSUME TypeOK, NEW s \in Seq(EnvelopeType), \A i \in 1..Len(s) : s[i].kind # "flush",
           wire'["client"] = wire["client"] \o s
    PROVE  (FlushPending' <=> FlushPending) /\ (FlushPending => wire'["client"][1] = wire["client"][1])
<1>1. wire["client"] \in Seq(EnvelopeType)
  BY Ends, NumFacts
<1>2. CASE wire["client"] = <<>>
  <2>1. wire'["client"] = s
    BY <1>2
  <2>2. s # <<>> => 1 \in 1..Len(s)
    OBVIOUS
  <2> QED BY <1>2, <2>1, <2>2 DEF FlushPending
<1>3. CASE wire["client"] # <<>>
  <2>1. 1 \in 1..Len(wire["client"])
    BY <1>1, <1>3
  <2>2. (wire["client"] \o s)[1] = wire["client"][1] /\ 1 \in 1..Len(wire["client"] \o s)
    BY <1>1, <2>1, ConcatFacts
  <2>3. wire["client"] \o s # <<>>
    BY <2>2
  <2> QED BY <1>3, <2>2, <2>3 DEF FlushPending
<1> QED BY <1>2, <1>3

\* Once the server has read the first envelope there is no flush.
LEMMA PendingTail ==
    ASSUME TypeOK, FlushSound, wire["client"] # <<>>, wire'["client"] = Tail(wire["client"])
    PROVE  ~FlushPending'
<1>1. wire["client"] \in Seq(EnvelopeType)
  BY Ends, NumFacts
<1> SUFFICES ASSUME Tail(wire["client"]) # <<>>, Tail(wire["client"])[1].kind = "flush" PROVE FALSE
  BY DEF FlushPending
<1>2. Tail(wire["client"]) \in Seq(EnvelopeType)
  BY <1>1, TailFacts
<1>3. 1 \in 1..Len(Tail(wire["client"]))
  BY <1>2
<1>4. 1 + 1 \in 1..Len(wire["client"]) /\ wire["client"][1 + 1].kind = "flush"
  BY <1>1, <1>3, TailFacts
<1>5. 1 + 1 = 1
  BY <1>4 DEF FlushSound
<1> QED BY <1>5

\* A message that is safe stays so while its sender puts more behind it and its
\* receiver acknowledges nothing new.
LEMMA FreshConcat ==
    ASSUME TypeOK, NEW e \in End, NEW id \in Nat, Fresh(e, id),
           NEW b \in Seq(EnvelopeType), NEW w \in Seq(EnvelopeType),
           buffer'[e] = buffer[e] \o b, wire'[e] = wire[e] \o w, Above(Peer(e), id)'
    PROVE  Fresh(e, id)'
<1>1. wire[e] \in Seq(EnvelopeType) /\ buffer[e] \in Seq(EnvelopeType)
  BY NumFacts
<1>2. Holds(buffer'[e], id) /\ InTurn(wire'[e], id)
  BY <1>1, HoldsConcat, InTurnConcat DEF Fresh
<1> QED BY <1>2 DEF Fresh

\* A message has just been sent.
LEMMA FreshNew ==
    ASSUME TypeOK, CountersSound, EnvelopesSound, NEW e \in End,
           NEW m \in EnvelopeType, m.kind = "message", m.id = nextId[e],
           buffer'[e] = buffer[e] \o <<m>>, wire'[e] = wire[e] \o <<m>>,
           wire'[Peer(e)] = wire[Peer(e)], buffer'[Peer(e)] = buffer[Peer(e)], UNCHANGED maxReceived
    PROVE  Fresh(e, m.id)'
<1>1. wire[e] \in Seq(EnvelopeType) /\ buffer[e] \in Seq(EnvelopeType) /\ Peer(e) \in End /\ Peer(Peer(e)) = e
  BY NumFacts, Ends
<1>2. Holds(buffer'[e], m.id)
  <2>1. <<m>> \in Seq(EnvelopeType) /\ Holds(<<m>>, m.id)
    BY OneFacts
  <2>2. Holds(buffer[e] \o <<m>>, m.id)
    BY <1>1, <2>1, HoldsConcat
  <2> QED BY <2>2
<1>3. \A i \in 1..Len(wire[e]) : wire[e][i].id < m.id
  BY DEF EnvelopesSound
<1>4. InTurn(wire'[e], m.id)
  BY <1>1, <1>3, InTurnNew
<1>5. /\ maxReceived[Peer(e)] < nextId[e]
      /\ \A i \in 1..Len(wire[Peer(e)]) : wire[Peer(e)][i].ack < nextId[e]
      /\ \A i \in 1..Len(buffer[Peer(e)]) : buffer[Peer(e)][i].ack < nextId[e]
  BY <1>1 DEF CountersSound, EnvelopesSound
<1>6. Above(Peer(e), m.id)'
  BY <1>5 DEF Above, AcksBelow
<1> QED BY <1>2, <1>4, <1>6 DEF Fresh

\* The receiver takes an envelope that is not the message.
LEMMA FreshTail ==
    ASSUME TypeOK, NEW e \in End, NEW id \in Nat, Fresh(e, id),
           TakeIn(Peer(e)), ~(Incoming(Peer(e)).kind = "message" /\ Incoming(Peer(e)).id = id),
           NEW w \in Seq(EnvelopeType), AcksBelow(w, id),
           wire'[e] = Tail(wire[e]), wire'[Peer(e)] = wire[Peer(e)] \o w,
           maxReceived'[Peer(e)] \in {maxReceived[Peer(e)], Incoming(Peer(e)).id}
    PROVE  Fresh(e, id)'
<1>1. /\ wire[e] \in Seq(EnvelopeType) /\ buffer[e] \in Seq(EnvelopeType) /\ Peer(e) \in End /\ Peer(Peer(e)) = e
      /\ wire[Peer(e)] \in Seq(EnvelopeType)
  BY NumFacts, Ends
<1>2. wire[e] # <<>> /\ Incoming(Peer(e)) = Head(wire[e]) /\ buffer'[e] = buffer[e]
  BY <1>1, TakeFacts
<1>3. InTurn(wire'[e], id) /\ Incoming(Peer(e)).id < id
  BY <1>1, <1>2, InTurnTail DEF Fresh
<1>4. AcksBelow(wire'[Peer(e)], id)
  BY <1>1, BelowConcat DEF Fresh, Above
<1>5. AcksBelow(buffer'[Peer(e)], id)
  BY <1>1, TakeDrops DEF Fresh, Above
<1>6. maxReceived'[Peer(e)] < id
  BY <1>3 DEF Fresh, Above
<1>7. Above(Peer(e), id)'
  BY <1>4, <1>5, <1>6 DEF Above
<1> QED BY <1>2, <1>3, <1>7 DEF Fresh

\* The sender takes an envelope.
LEMMA FreshTaken ==
    ASSUME TypeOK, NEW e \in End, NEW id \in Nat, Fresh(e, id), TakeIn(e),
           NEW w \in Seq(EnvelopeType), wire'[e] = wire[e] \o w,
           wire'[Peer(e)] = Tail(wire[Peer(e)]), maxReceived'[Peer(e)] = maxReceived[Peer(e)]
    PROVE  Fresh(e, id)'
<1>1. /\ wire[e] \in Seq(EnvelopeType) /\ buffer[e] \in Seq(EnvelopeType) /\ Peer(e) \in End
  BY NumFacts
<1>2. /\ wire[Peer(e)] # <<>> /\ Incoming(e) = Head(wire[Peer(e)]) /\ buffer'[Peer(e)] = buffer[Peer(e)]
      /\ wire[Peer(e)] \in Seq(EnvelopeType)
  BY TakeFacts
<1>3. AcksBelow(wire'[Peer(e)], id) /\ Incoming(e).ack < id
  BY <1>2, BelowTail DEF Fresh, Above
<1>4. Holds(buffer'[e], id)
  BY <1>3, TakeDrops DEF Fresh
<1>5. InTurn(wire'[e], id)
  BY <1>1, InTurnConcat DEF Fresh
<1>6. Above(Peer(e), id)'
  BY <1>2, <1>3 DEF Above, Fresh
<1> QED BY <1>4, <1>5, <1>6 DEF Fresh

\* The server answers a flush: the answer is the last envelope on its wire.
LEMMA AnswerIsLast ==
    ASSUME TypeOK, EnvelopesSound, FlushSound, ServerSound, AnswerFlush
    PROVE  LET s == wire'["server"] IN
           /\ AnswerAt(s, flushId, Len(s)) /\ Len(s) \in 1..Len(s)
           /\ s[Len(s)].id = nextId["server"]
           /\ \A i \in 1..(Len(s) - 1) : s[i].id < nextId["server"]
           /\ \A id : Holds(buffer'["server"], id) =>
                 \E i \in 1..(Len(s) - 1) : s[i].kind = "message" /\ s[i].id = id
<1> DEFINE WC == wire["client"]
           WS == wire["server"]
           B == buffer'["server"]
           t == WS \o B
           s == wire'["server"]
<1>1. PICK a \in EnvelopeType :
          /\ a.kind = "ack" /\ a.id = nextId["server"] /\ a.re = Incoming("server").id
          /\ <<a>> \in Seq(EnvelopeType) /\ s = t \o <<a>>
  BY FlushFacts
<1>2. /\ TakeIn("server") /\ Incoming("server").kind = "flush"
      /\ B \in Seq(EnvelopeType) /\ t \in Seq(EnvelopeType)
      /\ \A i \in 1..Len(B) : \E j \in 1..Len(buffer["server"]) : B[i] = buffer["server"][j]
  BY FlushFacts
<1>3. WC \in Seq(EnvelopeType) /\ WS \in Seq(EnvelopeType) /\ flushId \in Nat
  BY Ends, NumFacts
<1>4. WC # <<>> /\ Incoming("server") = WC[1] /\ 1 \in 1..Len(WC)
  BY <1>2, <1>3, Ends, TakeFacts, TailFacts
<1>5. FlushPending
  BY <1>2, <1>4 DEF FlushPending
<1>6. resync = "waiting" /\ Incoming("server").id = flushId /\ flushId > 0
  BY <1>2, <1>4 DEF FlushSound
<1>7. \A i \in 1..Len(WS) : WS[i].re # flushId /\ WS[i].id < nextId["server"]
  BY <1>5, Ends DEF ServerSound, EnvelopesSound
<1>8. \A i \in 1..Len(B) : B[i].re # flushId /\ B[i].id < nextId["server"]
  <2>1. \A j \in 1..Len(buffer["server"]) : buffer["server"][j].re = 0 /\ buffer["server"][j].id < nextId["server"]
    BY Ends DEF EnvelopesSound
  <2>2. flushId # 0
    BY <1>3, <1>6
  <2> QED BY <1>2, <2>1, <2>2
<1> HIDE DEF WC, WS, B, t, s
<1>9. \A i \in 1..Len(t) : t[i].re # flushId /\ t[i].id < nextId["server"]
  <2> SUFFICES ASSUME NEW i \in 1..Len(t) PROVE t[i].re # flushId /\ t[i].id < nextId["server"]
    OBVIOUS
  <2>1. \/ i \in 1..Len(WS) /\ t[i] = WS[i]
        \/ \E j \in 1..Len(B) : t[i] = B[j]
    BY <1>2, <1>3, ElementOfConcat DEF t
  <2> QED BY <1>7, <1>8, <2>1
<1>10. /\ Len(t) \in Nat /\ Len(s) = Len(t) + 1 /\ s[Len(t) + 1] = a
       /\ \A i \in 1..Len(t) : s[i] = t[i]
  <2>1. Len(<<a>>) = 1 /\ <<a>>[1] = a /\ 1 \in 1..Len(<<a>>)
    OBVIOUS
  <2> QED BY <1>1, <1>2, <2>1, ConcatFacts
<1>11. Len(s) - 1 = Len(t) /\ Len(s) \in 1..Len(s) /\ s[Len(s)] = a
  BY <1>10
<1>12. \A id : Holds(B, id) => \E i \in 1..Len(t) : s[i].kind = "message" /\ s[i].id = id
  <2> SUFFICES ASSUME NEW id, Holds(B, id)
               PROVE  \E i \in 1..Len(t) : s[i].kind = "message" /\ s[i].id = id
    OBVIOUS
  <2>1. Holds(t, id)
    BY <1>2, <1>3, HoldsConcat DEF t
  <2> QED BY <1>10, <2>1 DEF Holds
<1>13. AnswerAt(s, flushId, Len(s))
  BY <1>1, <1>6, <1>9, <1>10, <1>11 DEF AnswerAt
<1> QED BY <1>1, <1>9, <1>10, <1>11, <1>12, <1>13 DEF s, B

\* The connection is only lost when the last resync is complete.
SettledNext == Next /\ (Reconnect => Settled)

\* Every step keeps the messages of the client that the server has not handled.
LEMMA ClientKept == ChannelInv /\ [SettledNext]_vars => ClientSound'
<1> SUFFICES ASSUME ChannelInv, [SettledNext]_vars, NEW id \in Unhandled("client")'
             PROVE  ClientSafe(id)'
  BY DEF ClientSound
<1> DEFINE WC == wire["client"]
           WS == wire["server"]
           BC == buffer["client"]
           BS == buffer["server"]
<1>a. TypeOK /\ CountersSound /\ EnvelopesSound /\ FlushSound /\ ServerSound /\ ClientSound
  BY DEF ChannelInv, IdsSound, IdsAssigned
<1>b. /\ WC \in Seq(EnvelopeType) /\ WS \in Seq(EnvelopeType) /\ BC \in Seq(EnvelopeType)
      /\ BS \in Seq(EnvelopeType) /\ flushId \in Nat /\ nextId["client"] \in Nat
  BY <1>a, Ends, NumFacts
<1>c. id \in sent'["client"] /\ id \notin handled'["server"]
  BY Ends DEF Unhandled
<1>d. ASSUME id \in sent["client"], id \notin handled["server"]
      PROVE  ClientSafe(id) /\ id \in Nat /\ 0 < id
  <2>1. id \in Unhandled("client")
    BY <1>d, Ends DEF Unhandled
  <2> QED BY <1>a, <1>d, <2>1, Ends, NumFacts DEF ClientSound, CountersSound
<1>1. CASE Send("client")
  <2>1. PICK m \in EnvelopeType :
           /\ m.kind = "message" /\ m.id = nextId["client"] /\ m.ack = maxReceived["client"]
           /\ m.re = 0 /\ <<m>> \in Seq(EnvelopeType)
           /\ wire'["client"] = WC \o <<m>> /\ buffer'["client"] = BC \o <<m>>
           /\ wire'["server"] = WS /\ buffer'["server"] = BS
           /\ sent'["client"] = sent["client"] \cup {nextId["client"]}
           /\ UNCHANGED <<maxReceived, resync, flushId, handled>>
    BY <1>1, <1>a, ClientSends
  <2>2. FlushPending' <=> FlushPending
    <3>1. \A i \in 1..Len(<<m>>) : <<m>>[i].kind # "flush"
      BY <2>1, OneFacts
    <3> QED BY <1>a, <2>1, <3>1, PendingConcat
  <2>3. \A x : Above("server", x) => Above("server", x)'
    BY <2>1 DEF Above
  <2>4. CASE id \in sent["client"]
    <3>1. ClientSafe(id) /\ id \in Nat
      BY <1>c, <1>d, <2>1, <2>4
    <3>2. id > flushId => Fresh("client", id)'
      <4> SUFFICES ASSUME id > flushId PROVE Fresh("client", id)'
        OBVIOUS
      <4>1. Fresh("client", id) /\ Above("server", id)'
        BY <2>3, <3>1, Ends DEF ClientSafe, Fresh
      <4> QED BY <1>a, <2>1, <3>1, <4>1, FreshConcat, Ends, ZenonT(60)
    <3>3. Holds(WC, id) => Holds(wire'["client"], id)
      <4>1. Holds(WC, id) => Holds(WC \o <<m>>, id)
        BY <1>b, <2>1, HoldsConcat
      <4> QED BY <2>1, <4>1
    <3>4. Holds(BC, id) => Holds(buffer'["client"], id)
      <4>1. Holds(BC, id) => Holds(BC \o <<m>>, id)
        BY <1>b, <2>1, HoldsConcat
      <4> QED BY <2>1, <4>1
    <3> QED BY <2>1, <2>2, <2>3, <3>1, <3>2, <3>3, <3>4 DEF ClientSafe
  <2>5. CASE id = nextId["client"]
    <3>1. Fresh("client", id)'
      BY <1>a, <2>1, <2>5, FreshNew, Ends
    <3>2. id > flushId
      BY <1>a, <1>b, <2>5 DEF FlushSound
    <3>3. ~(id < flushId)
      BY <1>b, <2>5, <3>2
    <3> QED BY <2>1, <3>1, <3>3 DEF ClientSafe
  <2> QED BY <1>c, <2>1, <2>4, <2>5
<1>2. CASE Send("server")
  <2>1. PICK m \in EnvelopeType :
           /\ m.ack = maxReceived["server"] /\ <<m>> \in Seq(EnvelopeType)
           /\ wire'["server"] = WS \o <<m>> /\ buffer'["server"] = BS \o <<m>>
           /\ wire'["client"] = WC /\ buffer'["client"] = BC
           /\ sent'["client"] = sent["client"]
           /\ UNCHANGED <<maxReceived, resync, flushId, handled>>
    BY <1>2, <1>a, ServerSends
  <2>2. FlushPending' <=> FlushPending
    BY <2>1 DEF FlushPending
  <2>3. ClientSafe(id) /\ id \in Nat
    BY <1>c, <1>d, <2>1
  <2>4. Above("server", id) => Above("server", id)'
    <3> SUFFICES ASSUME Above("server", id) PROVE Above("server", id)'
      OBVIOUS
    <3>1. AcksBelow(WS, id) /\ AcksBelow(BS, id) /\ m.ack < id
      BY <2>1 DEF Above
    <3>2. AcksBelow(<<m>>, id)
      BY <3>1, OneFacts
    <3>3. AcksBelow(WS \o <<m>>, id) /\ AcksBelow(BS \o <<m>>, id)
      BY <1>b, <2>1, <3>1, <3>2, BelowConcat
    <3> QED BY <2>1, <3>1, <3>3 DEF Above
  <2>5. Fresh("client", id) => Fresh("client", id)'
    BY <2>1, <2>4, Ends DEF Fresh
  <2>6. AnswerAbove(WS, flushId, id) => AnswerAbove(wire'["server"], flushId, id)
    BY <1>b, <2>1, AnswerAboveKept
  <2> QED BY <2>1, <2>2, <2>3, <2>4, <2>5, <2>6 DEF ClientSafe
<1>3. CASE Receive("client") \/ ReceiveAck
  <2> DEFINE h == Incoming("client")
  <2>1. /\ TakeIn("client") /\ wire'["server"] = Tail(WS) /\ wire'["client"] = WC
        /\ maxReceived'["server"] = maxReceived["server"] /\ handled'["server"] = handled["server"]
        /\ UNCHANGED <<nextId, flushId, sent>> /\ resync # "answered"
        /\ resync' = IF h.kind = "ack" /\ resync = "waiting" /\ h.re = flushId THEN "answered" ELSE resync
    BY <1>3, <1>a, ClientTakes
  <2>2. WS # <<>> /\ h = Head(WS) /\ buffer'["server"] = BS
    BY <1>a, <2>1, Ends, TakeFacts
  <2>3. FlushPending' <=> FlushPending
    BY <2>1 DEF FlushPending
  <2>4. ClientSafe(id) /\ id \in Nat
    BY <1>c, <1>d, <2>1
  <2>5. Above("server", id) => Above("server", id)' /\ h.ack < id
    BY <1>b, <2>1, <2>2, BelowTail DEF Above
  <2>6. Fresh("client", id) => Fresh("client", id)'
    <3> SUFFICES ASSUME Fresh("client", id) PROVE Fresh("client", id)'
      OBVIOUS
    <3>1. WC \o <<>> = WC /\ <<>> \in Seq(EnvelopeType)
      BY <1>b
    <3> QED BY <1>a, <2>1, <2>4, <3>1, FreshTaken, Ends
  <2>7. AnswerAbove(WS, flushId, id) =>
            h.ack < id /\ (~(h.kind = "ack" /\ h.re = flushId) => AnswerAbove(wire'["server"], flushId, id))
    BY <1>b, <2>1, <2>2, AnswerAboveKept
  <2>8. Holds(BC, id) /\ h.ack < id => Holds(buffer'["client"], id)
    BY <1>a, <2>1, <2>4, TakeDrops, Ends
  <2>9. resync \in {"idle", "waiting", "answered"}
    BY <1>a DEF TypeOK
  <2>10. resync' # "idle" => resync = "waiting"
    BY <2>1, <2>9
  <2>11. id < flushId /\ resync' # "idle" => Holds(buffer'["client"], id)
    BY <2>4, <2>5, <2>7, <2>8, <2>10 DEF ClientSafe
  <2>12. resync' = "waiting" => ~(h.kind = "ack" /\ h.re = flushId)
    BY <2>1, <2>10
  <2> QED BY <2>1, <2>3, <2>4, <2>5, <2>6, <2>7, <2>10, <2>11, <2>12 DEF ClientSafe
\* The server takes something that is not a flush.
<1>4. ASSUME TakeIn("server"), Incoming("server").kind # "flush", wire'["client"] = Tail(WC),
             NEW w \in Seq(EnvelopeType), wire'["server"] = WS \o w, \A i \in 1..Len(w) : w[i].ack = 0,
             maxReceived'["server"] \in {maxReceived["server"], Incoming("server").id},
             id \in sent["client"], id \notin handled["server"],
             ~(Incoming("server").kind = "message" /\ Incoming("server").id = id),
             UNCHANGED <<resync, flushId>>
      PROVE  ClientSafe(id)'
  <2>1. ClientSafe(id) /\ id \in Nat /\ 0 < id
    BY <1>4, <1>d
  <2>2. WC # <<>> /\ Incoming("server") = Head(WC) /\ Incoming("server") = WC[1] /\ buffer'["client"] = BC
    BY <1>4, <1>a, Ends, TakeFacts
  <2>3. ~FlushPending /\ ~FlushPending'
    BY <1>4, <1>a, <2>2, PendingTail DEF FlushPending
  <2>4. AcksBelow(w, id)
    BY <1>4, <2>1 DEF AcksBelow
  <2>5. Fresh("client", id) => Fresh("client", id)'
    BY <1>4, <1>a, <2>1, <2>4, FreshTail, Ends
  <2>6. Holds(WC, id) => Holds(wire'["client"], id)
    BY <1>4, <1>b, <2>2, HoldsTail
  <2>7. AnswerAbove(WS, flushId, id) => AnswerAbove(wire'["server"], flushId, id)
    BY <1>4, <1>b, AnswerAboveKept
  <2> QED BY <1>4, <2>1, <2>2, <2>3, <2>5, <2>6, <2>7 DEF ClientSafe
<1>5. CASE Receive("server")
  <2> DEFINE h == Incoming("server")
  <2>1. /\ TakeIn("server") /\ h.kind = "message" /\ wire'["client"] = Tail(WC) /\ wire'["server"] = WS
        /\ maxReceived'["server"] = h.id /\ handled'["server"] = handled["server"] \cup {h.id}
        /\ UNCHANGED <<resync, flushId, sent>>
    BY <1>5, <1>a, ServerTakes
  <2>2. <<>> \in Seq(EnvelopeType) /\ WS \o <<>> = WS /\ \A i \in 1..Len(<<>>) : <<>>[i].ack = 0
    BY <1>b
  <2> QED BY <1>4, <1>c, <2>1, <2>2
<1>6. CASE AnswerStarted
  <2>1. PICK a \in EnvelopeType : /\ a.ack = 0 /\ wire'["server"] = WS \o <<a>> /\ <<a>> \in Seq(EnvelopeType)
    BY <1>6, <1>a, StartedFacts
  <2>2. /\ TakeIn("server") /\ Incoming("server").kind = "started" /\ wire'["client"] = Tail(WC)
        /\ UNCHANGED <<maxReceived, resync, flushId, sent, handled>>
    BY <1>6, <1>a, StartedFacts
  <2>3. \A i \in 1..Len(<<a>>) : <<a>>[i].ack = 0
    BY <2>1, OneFacts
  <2> QED BY <1>4, <1>c, <2>1, <2>2, <2>3
<1>7. CASE AnswerFlush
  <2>1. PICK a \in EnvelopeType :
            /\ a.kind = "ack" /\ a.ack = 0 /\ a.re = Incoming("server").id /\ <<a>> \in Seq(EnvelopeType)
            /\ wire'["server"] = (WS \o buffer'["server"]) \o <<a>>
    BY <1>7, <1>a, FlushFacts
  <2>2. /\ TakeIn("server") /\ Incoming("server").kind = "flush" /\ wire'["client"] = Tail(WC)
        /\ UNCHANGED <<maxReceived, resync, flushId, sent, handled>>
        /\ buffer'["server"] \in Seq(EnvelopeType) /\ WS \o buffer'["server"] \in Seq(EnvelopeType)
        /\ \A i \in 1..Len(buffer'["server"]) : \E j \in 1..Len(BS) : buffer'["server"][i] = BS[j]
    BY <1>7, <1>a, FlushFacts
  <2>3. /\ WC # <<>> /\ Incoming("server") = Head(WC) /\ Incoming("server") = WC[1] /\ 1 \in 1..Len(WC)
        /\ buffer'["client"] = BC
    BY <1>a, <1>b, <2>2, Ends, TakeFacts, TailFacts
  <2>4. FlushPending /\ ~FlushPending'
    BY <1>a, <2>2, <2>3, PendingTail DEF FlushPending
  <2>5. resync = "waiting" /\ Incoming("server").id = flushId
    BY <1>a, <2>2, <2>3 DEF FlushSound
  <2>6. ClientSafe(id) /\ id \in Nat /\ 0 < id
    BY <1>c, <1>d, <2>2
  <2>7. Above("server", id) => AcksBelow(wire'["server"], id) /\ Above("server", id)'
    <3> SUFFICES ASSUME Above("server", id) PROVE AcksBelow(wire'["server"], id) /\ Above("server", id)'
      OBVIOUS
    <3>1. AcksBelow(buffer'["server"], id)
      BY <1>a, <2>2, TakeDrops, Ends DEF Above
    <3>2. AcksBelow(WS \o buffer'["server"], id)
      BY <1>b, <2>2, <3>1, BelowConcat DEF Above
    <3>3. AcksBelow(<<a>>, id)
      BY <2>1, <2>6, OneFacts
    <3>4. AcksBelow(wire'["server"], id)
      <4>1. AcksBelow((WS \o buffer'["server"]) \o <<a>>, id)
        BY <2>1, <2>2, <3>2, <3>3, BelowConcat
      <4> QED BY <2>1, <4>1
    <3> QED BY <2>2, <3>1, <3>4 DEF Above
  <2>8. Fresh("client", id) => Fresh("client", id)'
    <3> SUFFICES ASSUME Fresh("client", id) PROVE Fresh("client", id)'
      OBVIOUS
    <3>1. InTurn(wire'["client"], id)
      BY <1>b, <2>2, <2>3, <2>6, InTurnTail DEF Fresh
    <3> QED BY <2>3, <2>7, <3>1, Ends DEF Fresh
  <2>9. AnswerAt(wire'["server"], flushId, Len(wire'["server"])) /\ Len(wire'["server"]) \in 1..Len(wire'["server"])
    BY <1>7, <1>a, AnswerIsLast
  <2>10. Above("server", id) => AnswerAbove(wire'["server"], flushId, id)
    BY <2>7, <2>9 DEF AnswerAbove, AcksBelow
  <2> QED BY <2>2, <2>3, <2>4, <2>5, <2>6, <2>8, <2>10 DEF ClientSafe
<1>8. CASE Resend
  <2>1. /\ resync = "answered" /\ resync' = "idle" /\ wire'["client"] = WC \o BC /\ wire'["server"] = WS
        /\ UNCHANGED <<buffer, maxReceived, flushId, sent, handled>>
    BY <1>8, <1>a, ResendFacts
  <2>2. ClientSafe(id) /\ id \in Nat
    BY <1>c, <1>d, <2>1
  <2>3. Fresh("client", id) => Fresh("client", id)'
    BY <1>b, <2>1, InTurnConcat, Ends DEF Fresh, Above
  <2>4. Holds(BC, id) => Holds(wire'["client"], id)
    BY <1>b, <2>1, HoldsConcat
  <2>5. ~FlushPending'
    <3>1. \A i \in 1..Len(BC) : BC[i].kind # "flush"
      BY <1>a, Ends DEF EnvelopesSound
    <3>2. ~FlushPending
      <4> SUFFICES ASSUME FlushPending PROVE FALSE
        OBVIOUS
      <4>1. 1 \in 1..Len(WC)
        BY <1>b DEF FlushPending
      <4> QED BY <1>a, <2>1, <4>1 DEF FlushPending, FlushSound
    <3> QED BY <1>a, <1>b, <2>1, <3>1, <3>2, PendingConcat
  <2> QED BY <2>1, <2>2, <2>3, <2>4, <2>5 DEF ClientSafe
<1>9. CASE Reconnect /\ Settled
  <2>1. PICK f \in EnvelopeType, g \in EnvelopeType :
            f.kind = "flush" /\ wire'["client"] = <<f, g>>
    BY <1>9, <1>a, ReconnectFacts
  <2>2. /\ wire'["server"] \in Seq(EnvelopeType)
        /\ \A i \in 1..Len(wire'["server"]) : \E j \in 1..Len(WS) : wire'["server"][i] = WS[j]
        /\ flushId' = nextId["client"] /\ resync' = "waiting"
        /\ UNCHANGED <<buffer, maxReceived, sent, handled>>
    BY <1>9, <1>a, ReconnectFacts
  <2>3. FlushPending'
    BY <2>1 DEF FlushPending
  <2>4. ClientSafe(id) /\ id \in Nat /\ id \in sent["client"] /\ id \notin handled["server"]
    BY <1>c, <1>d, <2>2
  <2>5. id > flushId
    <3>1. ~(id < flushId) /\ id # flushId
      BY <1>9, <1>a, <2>4 DEF Settled, FlushSound
    <3> QED BY <1>b, <2>4, <3>1
  <2>6. Holds(BC, id) /\ Above("server", id)
    BY <2>4, <2>5, Ends DEF ClientSafe, Fresh
  <2>7. Above("server", id)'
    <3>1. AcksBelow(wire'["server"], id)
      BY <2>2, <2>6 DEF Above, AcksBelow
    <3> QED BY <2>2, <2>6, <3>1 DEF Above
  <2>8. id < flushId' /\ ~(id > flushId')
    <3>1. id < nextId["client"]
      BY <1>a, <2>4, Ends DEF CountersSound
    <3> QED BY <1>b, <2>2, <2>4, <3>1
  <2> QED BY <2>2, <2>3, <2>6, <2>7, <2>8 DEF ClientSafe
<1>10. CASE UNCHANGED vars
  <2>1. id \in sent["client"] /\ id \notin handled["server"]
    BY <1>10, <1>c DEF vars
  <2>2. ClientSafe(id)
    BY <1>d, <2>1
  <2> QED BY <1>10, <2>2 DEF vars, ClientSafe, Fresh, Above, FlushPending
<1> QED BY <1>1, <1>2, <1>3, <1>5, <1>6, <1>7, <1>8, <1>9, <1>10, Ends DEF SettledNext, Next, Deliver

-----------------------------------------------------------------------------
(* The messages of the server. *)

\* While the resync waits, an acknowledgement of the client stays below the
\* answer: a bound on what it has given and would give is kept by a step in
\* which it puts its own envelopes on the wire or the server takes one.
LEMMA AboveClientConcat ==
    ASSUME TypeOK, NEW x, Above("client", x), NEW s \in Seq(EnvelopeType), NEW b \in Seq(EnvelopeType),
           AcksBelow(s, x), AcksBelow(b, x), UNCHANGED maxReceived,
           wire'["client"] = wire["client"] \o s, buffer'["client"] = buffer["client"] \o b
    PROVE  Above("client", x)'
<1>1. wire["client"] \in Seq(EnvelopeType) /\ buffer["client"] \in Seq(EnvelopeType)
  BY Ends, NumFacts
<1>2. AcksBelow(wire["client"] \o s, x) /\ AcksBelow(buffer["client"] \o b, x)
  BY <1>1, BelowConcat DEF Above
<1> QED BY <1>2 DEF Above

\* What is served stays served when the server puts more behind the answer.
LEMMA ServedConcat ==
    ASSUME TypeOK, NEW p \in 1..Len(wire["server"]), ServedAt(p),
           NEW w \in Seq(EnvelopeType), wire'["server"] = wire["server"] \o w, UNCHANGED flushId,
           NEW x, x = wire["server"][p].id, Above("client", x)',
           \A id \in Unhandled("server")' :
              \/ /\ id \in Unhandled("server")
                 /\ Fresh("server", id) => Fresh("server", id)'
              \/ wire["server"][p].id < id /\ Fresh("server", id)'
    PROVE  p \in 1..Len(wire'["server"]) /\ ServedAt(p)'
<1> DEFINE s == wire["server"]
           t == wire'["server"]
<1>1. s \in Seq(EnvelopeType)
  BY Ends, NumFacts
<1>2. p \in 1..Len(t) /\ AnswerAt(t, flushId, p) /\ \A j \in 1..p : t[j] = s[j]
  BY <1>1, AnswerConcat DEF ServedAt
<1>3. p \in 1..p /\ \A j \in 1..(p - 1) : j \in 1..p
  BY <1>1
<1>4. t[p] = s[p] /\ \A j \in 1..(p - 1) : t[j] = s[j]
  BY <1>2, <1>3
<1>5. Above("client", wire["server"][p].id)'
  BY <1>4 DEF Above
<1>6. \A j \in 1..(p - 1) : t[j].id < t[p].id
  BY <1>4 DEF ServedAt
<1>7. \A id \in Unhandled("server") :
          \/ \E j \in 1..(p - 1) : s[j].kind = "message" /\ s[j].id = id
          \/ s[p].id < id /\ Fresh("server", id)
  BY DEF ServedAt
<1>8. \A id \in Unhandled("server")' :
          \/ \E j \in 1..(p - 1) : t[j].kind = "message" /\ t[j].id = id
          \/ t[p].id < id /\ Fresh("server", id)'
  BY <1>4, <1>7
<1> QED BY <1>2, <1>5, <1>6, <1>8 DEF ServedAt

\* The client takes an envelope before the answer, or the answer itself.
LEMMA ServedTail ==
    ASSUME TypeOK, NEW p \in 1..Len(wire["server"]), ServedAt(p), TakeIn("client"),
           wire'["server"] = Tail(wire["server"]), wire'["client"] = wire["client"],
           maxReceived'["client"] = Incoming("client").id, UNCHANGED flushId,
           \A id \in Unhandled("server")' :
              /\ id \in Unhandled("server")
              /\ ~(Incoming("client").kind = "message" /\ Incoming("client").id = id)
              /\ Fresh("server", id) => Fresh("server", id)'
    PROVE  IF Incoming("client").kind = "ack" /\ Incoming("client").re = flushId
           THEN \A id \in Unhandled("server")' : Fresh("server", id)'
           ELSE \E q \in 1..Len(wire'["server"]) : ServedAt(q)'
<1> DEFINE s == wire["server"]
           t == wire'["server"]
           h == Incoming("client")
<1>1. s \in Seq(EnvelopeType) /\ s # <<>> /\ h = Head(s) /\ h = s[1]
  BY Ends, TakeFacts
<1>2. \A id \in Unhandled("server") :
          \/ \E j \in 1..(p - 1) : s[j].kind = "message" /\ s[j].id = id
          \/ s[p].id < id /\ Fresh("server", id)
  BY DEF ServedAt
<1>3. CASE h.kind = "ack" /\ h.re = flushId
  <2>1. p = 1
    BY <1>1, <1>3, AnswerHead DEF ServedAt
  <2>2. 1..(p - 1) = {}
    BY <2>1
  <2> QED BY <1>2, <1>3, <2>2
<1>4. CASE ~(h.kind = "ack" /\ h.re = flushId)
  <2>1. /\ p # 1 /\ p - 1 \in 1..Len(t) /\ AnswerAt(t, flushId, p - 1) /\ t[p - 1] = s[p]
        /\ \A j \in 1..(p - 1) : j \in 1..Len(t) /\ t[j] = s[j + 1] /\ j + 1 \in 1..p
    BY <1>1, <1>4, AnswerTail DEF ServedAt
  <2>2. \A j \in 1..(p - 1) : s[j].id < s[p].id
    BY DEF ServedAt
  <2>3. 1 \in 1..(p - 1) /\ \A j \in 1..((p - 1) - 1) : j \in 1..(p - 1) /\ j + 1 \in 1..(p - 1)
    BY <1>1, <2>1
  <2>4. \A j \in 1..((p - 1) - 1) : t[j].id < t[p - 1].id
    BY <2>1, <2>2, <2>3
  <2>5. Above("client", wire["server"][p - 1].id)'
    <3>0. PICK x : x = s[p].id
      OBVIOUS
    <3>1. maxReceived'["client"] < x
      BY <1>1, <2>2, <2>3, <3>0
    <3>2. AcksBelow(buffer["client"], x) /\ AcksBelow(wire["client"], x)
      BY <3>0 DEF ServedAt, Above
    <3>3. AcksBelow(buffer'["client"], x)
      BY <3>2, TakeDrops, Ends
    <3> QED BY <2>1, <3>0, <3>1, <3>2, <3>3 DEF Above
  <2>6. ASSUME NEW id \in Unhandled("server")'
        PROVE  \/ \E j \in 1..((p - 1) - 1) : t[j].kind = "message" /\ t[j].id = id
               \/ t[p - 1].id < id /\ Fresh("server", id)'
    <3>1. id \in Unhandled("server") /\ ~(h.kind = "message" /\ h.id = id)
      BY <2>6
    <3>2. CASE s[p].id < id /\ Fresh("server", id)
      BY <2>1, <2>6, <3>2
    <3>3. ASSUME NEW j \in 1..(p - 1), s[j].kind = "message", s[j].id = id
          PROVE  \E k \in 1..((p - 1) - 1) : t[k].kind = "message" /\ t[k].id = id
      <4>1. j # 1
        BY <1>1, <3>1, <3>3
      <4>2. j - 1 \in 1..((p - 1) - 1) /\ j - 1 \in 1..(p - 1) /\ (j - 1) + 1 = j
        BY <1>1, <4>1
      <4> QED BY <2>1, <3>3, <4>2
    <3> QED BY <1>2, <3>1, <3>2, <3>3
  <2>7. ServedAt(p - 1)'
    BY <2>1, <2>4, <2>5, <2>6 DEF ServedAt
  <2> QED BY <1>4, <2>1, <2>7
<1> QED BY <1>3, <1>4

\* Every step keeps the messages of the server that the client has not handled.
LEMMA ServerKept == ChannelInv /\ [SettledNext]_vars => ServerSound'
<1> SUFFICES ASSUME ChannelInv, [SettledNext]_vars PROVE ServerSound'
  OBVIOUS
<1> DEFINE WC == wire["client"]
           WS == wire["server"]
           BC == buffer["client"]
           BS == buffer["server"]
           U == Unhandled("server")
<1>a. TypeOK /\ CountersSound /\ EnvelopesSound /\ FlushSound /\ ServerSound
  BY DEF ChannelInv, IdsSound, IdsAssigned
<1>b. /\ WC \in Seq(EnvelopeType) /\ WS \in Seq(EnvelopeType) /\ BC \in Seq(EnvelopeType)
      /\ BS \in Seq(EnvelopeType) /\ flushId \in Nat /\ nextId["server"] \in Nat
      /\ \A i \in 1..Len(WS) : WS[i].id \in Nat
      /\ resync \in {"idle", "waiting", "answered"}
  BY <1>a, Ends, NumFacts DEF TypeOK
<1>c. /\ U = sent["server"] \ handled["client"]
      /\ \A id : id \in Unhandled("server")' <=> id \in sent'["server"] /\ id \notin handled'["client"]
  BY Ends DEF Unhandled
<1>d. \A id \in U : id \in Nat /\ 0 < id /\ id < nextId["server"]
  BY <1>a, <1>c, Ends, NumFacts DEF CountersSound
<1>e. FlushPending => resync = "waiting" /\ 1 \in 1..Len(WC) /\ WC[1].kind = "flush" /\ WC # <<>>
  <2> SUFFICES ASSUME FlushPending PROVE resync = "waiting" /\ 1 \in 1..Len(WC) /\ WC[1].kind = "flush" /\ WC # <<>>
    OBVIOUS
  <2>1. 1 \in 1..Len(WC) /\ WC[1].kind = "flush" /\ WC # <<>>
    BY <1>b DEF FlushPending
  <2> QED BY <1>a, <2>1 DEF FlushSound
<1>f. /\ FlushPending => /\ \A i \in 1..Len(WS) : WS[i].re # flushId
                         /\ \A id \in U : Holds(BS, id) /\ WC[1].ack < id
      /\ resync = "waiting" /\ ~FlushPending => \E p \in 1..Len(WS) : ServedAt(p)
      /\ resync # "waiting" => \A id \in U : Fresh("server", id)
  BY <1>a DEF ServerSound
<1>1. CASE Send("client")
  <2>1. PICK m \in EnvelopeType :
           /\ m.kind = "message" /\ m.ack = maxReceived["client"] /\ <<m>> \in Seq(EnvelopeType)
           /\ wire'["client"] = WC \o <<m>> /\ buffer'["client"] = BC \o <<m>>
           /\ wire'["server"] = WS /\ buffer'["server"] = BS /\ sent'["server"] = sent["server"]
           /\ UNCHANGED <<maxReceived, resync, flushId, handled>>
    BY <1>1, <1>a, ClientSends
  <2>2. (FlushPending' <=> FlushPending) /\ (FlushPending => wire'["client"][1] = WC[1])
    <3>1. \A i \in 1..Len(<<m>>) : <<m>>[i].kind # "flush"
      BY <2>1, OneFacts
    <3> QED BY <1>a, <2>1, <3>1, PendingConcat
  <2>3. \A id : id \in Unhandled("server")' <=> id \in U
    BY <1>c, <2>1
  <2>4. \A x : Above("client", x) => Above("client", x)'
    <3> SUFFICES ASSUME NEW x, Above("client", x) PROVE Above("client", x)'
      OBVIOUS
    <3>1. AcksBelow(<<m>>, x)
      BY <2>1, OneFacts DEF Above
    <3> QED BY <1>a, <2>1, <3>1, AboveClientConcat
  <2>5. \A id : Fresh("server", id) => Fresh("server", id)'
    BY <2>1, <2>4, Ends DEF Fresh
  <2>6. ASSUME NEW p \in 1..Len(WS), ServedAt(p) PROVE p \in 1..Len(wire'["server"]) /\ ServedAt(p)'
    <3>1. WS \o <<>> = WS /\ <<>> \in Seq(EnvelopeType)
      BY <1>b
    <3>2. PICK x : x = WS[p].id
      OBVIOUS
    <3>3. Above("client", x)'
      BY <2>4, <2>6, <3>2 DEF ServedAt
    <3> QED BY <1>a, <2>1, <2>3, <2>5, <2>6, <3>1, <3>2, <3>3, ServedConcat
  <2>7. FlushPending' => /\ \A i \in 1..Len(wire'["server"]) : wire'["server"][i].re # flushId'
                         /\ \A id \in Unhandled("server")' : Holds(buffer'["server"], id) /\ wire'["client"][1].ack < id
    BY <1>f, <2>1, <2>2, <2>3
  <2>8. resync' = "waiting" /\ ~FlushPending' => \E p \in 1..Len(wire'["server"]) : ServedAt(p)'
    BY <1>f, <2>1, <2>2, <2>6
  <2>9. resync' # "waiting" => \A id \in Unhandled("server")' : Fresh("server", id)'
    BY <1>f, <2>1, <2>3, <2>5
  <2> QED BY <2>7, <2>8, <2>9 DEF ServerSound
<1>2. CASE Send("server")
  <2>1. PICK m \in EnvelopeType :
           /\ m.kind = "message" /\ m.id = nextId["server"] /\ m.re = 0 /\ <<m>> \in Seq(EnvelopeType)
           /\ wire'["server"] = WS \o <<m>> /\ buffer'["server"] = BS \o <<m>>
           /\ wire'["client"] = WC /\ buffer'["client"] = BC
           /\ sent'["server"] = sent["server"] \cup {nextId["server"]}
           /\ UNCHANGED <<maxReceived, resync, flushId, handled>>
    BY <1>2, <1>a, ServerSends
  <2>2. FlushPending' <=> FlushPending
    BY <2>1 DEF FlushPending
  <2>3. \A id : id \in Unhandled("server")' => id \in U \/ id = nextId["server"]
    BY <1>c, <2>1
  <2>4. \A x : Above("client", x) => Above("client", x)'
    BY <2>1 DEF Above
  <2>5. ASSUME NEW id \in U, Fresh("server", id) PROVE Fresh("server", id)'
    <3>1. Above("client", id)'
      BY <2>4, <2>5, Ends DEF Fresh
    <3>2. id \in Nat /\ TypeOK /\ "server" \in End
      BY <1>a, <1>d, Ends
    <3>3. buffer'["server"] = buffer["server"] \o <<m>> /\ wire'["server"] = wire["server"] \o <<m>>
      BY <2>1
    <3>4. Above(Peer("server"), id)'
      BY <3>1, Ends
    <3>5. Fresh("server", id) /\ <<m>> \in Seq(EnvelopeType)
      BY <2>1, <2>5
    <3> HIDE DEF WC, WS, BC, BS, U
    <3> QED BY <3>2, <3>3, <3>4, <3>5, FreshConcat
  <2>6. ASSUME NEW id, id = nextId["server"] PROVE Fresh("server", id)'
    BY <1>a, <2>1, <2>6, FreshNew, Ends
  <2>7. ASSUME NEW p \in 1..Len(WS), ServedAt(p) PROVE p \in 1..Len(wire'["server"]) /\ ServedAt(p)'
    <3>1. PICK x : x = WS[p].id
      OBVIOUS
    <3>2. Above("client", x)'
      BY <2>4, <2>7, <3>1 DEF ServedAt
    <3>3. WS[p].id < nextId["server"]
      BY <1>a, Ends DEF EnvelopesSound
    <3>4. \A id \in Unhandled("server")' :
              \/ id \in U /\ (Fresh("server", id) => Fresh("server", id)')
              \/ WS[p].id < id /\ Fresh("server", id)'
      BY <2>3, <2>5, <2>6, <3>3
    <3> QED BY <1>a, <2>1, <2>7, <3>1, <3>2, <3>4, ServedConcat
  <2>8. ASSUME FlushPending
        PROVE  /\ \A i \in 1..Len(wire'["server"]) : wire'["server"][i].re # flushId
               /\ \A id \in Unhandled("server")' : Holds(buffer'["server"], id) /\ WC[1].ack < id
    <3>1. flushId # 0
      BY <1>a, <1>b, <1>e, <2>8 DEF FlushSound
    <3>2. \A i \in 1..Len(WS \o <<m>>) : (WS \o <<m>>)[i].re # flushId
      <4> SUFFICES ASSUME NEW i \in 1..Len(WS \o <<m>>) PROVE (WS \o <<m>>)[i].re # flushId
        OBVIOUS
      <4>1. \/ i \in 1..Len(WS) /\ (WS \o <<m>>)[i] = WS[i]
            \/ \E j \in 1..Len(<<m>>) : (WS \o <<m>>)[i] = <<m>>[j]
        BY <1>b, <2>1, ElementOfConcat
      <4>2. \A j \in 1..Len(<<m>>) : <<m>>[j] = m
        BY OneFacts
      <4> QED BY <1>f, <2>1, <2>8, <3>1, <4>1, <4>2
    <3>3. ASSUME NEW id \in U PROVE Holds(buffer'["server"], id) /\ WC[1].ack < id
      <4>1. Holds(BS, id) /\ WC[1].ack < id
        BY <1>f, <2>8
      <4>2. Holds(BS \o <<m>>, id)
        BY <1>b, <2>1, <4>1, HoldsConcat
      <4> QED BY <2>1, <4>1, <4>2
    <3>4. Holds(buffer'["server"], nextId["server"])
      BY <2>6 DEF Fresh
    <3>5. WC[1].ack < nextId["server"]
      BY <1>a, <1>e, <2>8, Ends DEF EnvelopesSound
    <3> QED BY <2>1, <2>3, <3>2, <3>3, <3>4, <3>5
  <2>9. resync' = "waiting" /\ ~FlushPending' => \E p \in 1..Len(wire'["server"]) : ServedAt(p)'
    BY <1>f, <2>1, <2>2, <2>7
  <2>10. resync' # "waiting" => \A id \in Unhandled("server")' : Fresh("server", id)'
    BY <1>f, <2>1, <2>3, <2>5, <2>6
  <2> QED BY <2>1, <2>2, <2>8, <2>9, <2>10 DEF ServerSound
<1>3. CASE Receive("client") \/ ReceiveAck
  <2> DEFINE h == Incoming("client")
  <2>1. /\ TakeIn("client") /\ wire'["server"] = Tail(WS) /\ wire'["client"] = WC
        /\ maxReceived'["client"] = h.id /\ UNCHANGED <<flushId, sent>> /\ resync # "answered"
        /\ handled'["client"] = IF h.kind = "message" THEN handled["client"] \cup {h.id}
                                ELSE handled["client"]
        /\ resync' = IF h.kind = "ack" /\ resync = "waiting" /\ h.re = flushId THEN "answered" ELSE resync
    BY <1>3, <1>a, ClientTakes
  <2>2. WS # <<>> /\ h = Head(WS) /\ h = WS[1] /\ buffer'["server"] = BS /\ 1 \in 1..Len(WS)
    BY <1>a, <1>b, <2>1, Ends, TakeFacts, TailFacts
  <2>3. FlushPending' <=> FlushPending
    BY <2>1 DEF FlushPending
  <2>4. \A id \in Unhandled("server")' : id \in U /\ ~(h.kind = "message" /\ h.id = id)
    BY <1>c, <2>1
  <2>5. ASSUME NEW id \in Unhandled("server")', Fresh("server", id) PROVE Fresh("server", id)'
    <3>1. WC \o <<>> = WC /\ <<>> \in Seq(EnvelopeType) /\ AcksBelow(<<>>, id)
      BY <1>b DEF AcksBelow
    <3>2. id \in Nat /\ ~(h.kind = "message" /\ h.id = id)
      BY <1>d, <2>4, <2>5
    <3> QED BY <1>a, <2>1, <2>5, <3>1, <3>2, FreshTail, Ends
  <2>6. CASE FlushPending
    <3>1. resync' = "waiting" /\ h.re # flushId
      BY <1>e, <1>f, <2>1, <2>2, <2>6
    <3>2. \A i \in 1..Len(Tail(WS)) : Tail(WS)[i].re # flushId
      BY <1>b, <1>f, <2>2, <2>6, TailFacts
    <3>3. \A id \in Unhandled("server")' : Holds(BS, id) /\ WC[1].ack < id
      BY <1>f, <2>4, <2>6
    <3> QED BY <2>1, <2>2, <2>3, <2>6, <3>1, <3>2, <3>3 DEF ServerSound
  <2>7. CASE ~FlushPending /\ resync = "waiting"
    <3>1. PICK p \in 1..Len(WS) : ServedAt(p)
      BY <1>f, <2>7
    <3>2. IF h.kind = "ack" /\ h.re = flushId
          THEN \A id \in Unhandled("server")' : Fresh("server", id)'
          ELSE \E q \in 1..Len(wire'["server"]) : ServedAt(q)'
      BY <1>a, <2>1, <2>4, <2>5, <3>1, ServedTail
    <3> QED BY <2>1, <2>3, <2>7, <3>2 DEF ServerSound
  <2>8. CASE ~FlushPending /\ resync # "waiting"
    <3>1. resync' # "waiting"
      BY <2>1, <2>8
    <3>2. \A id \in Unhandled("server")' : Fresh("server", id)'
      BY <1>f, <2>4, <2>5, <2>8
    <3> QED BY <2>3, <2>8, <3>1, <3>2 DEF ServerSound
  <2> QED BY <2>6, <2>7, <2>8
\* The server takes something that is not a flush.
<1>4. ASSUME TakeIn("server"), Incoming("server").kind # "flush", wire'["client"] = Tail(WC),
             NEW w \in Seq(EnvelopeType), wire'["server"] = WS \o w,
             maxReceived'["client"] = maxReceived["client"], handled'["client"] = handled["client"],
             UNCHANGED <<resync, flushId, sent>>
      PROVE  ServerSound'
  <2>1. WC # <<>> /\ Incoming("server") = Head(WC) /\ Incoming("server") = WC[1] /\ buffer'["client"] = BC
    BY <1>4, <1>a, Ends, TakeFacts
  <2>2. ~FlushPending /\ ~FlushPending'
    BY <1>4, <1>a, <2>1, PendingTail DEF FlushPending
  <2>3. \A id : id \in Unhandled("server")' <=> id \in U
    BY <1>4, <1>c
  <2>4. ASSUME NEW id \in U, Fresh("server", id) PROVE Fresh("server", id)'
    BY <1>4, <1>a, <1>d, <2>4, FreshTaken, Ends
  <2>5. \A x : Above("client", x) => Above("client", x)'
    <3> SUFFICES ASSUME NEW x, Above("client", x) PROVE Above("client", x)'
      OBVIOUS
    <3>1. AcksBelow(Tail(WC), x)
      BY <1>b, <2>1, BelowTail DEF Above
    <3> QED BY <1>4, <2>1, <3>1 DEF Above
  <2>6. ASSUME NEW p \in 1..Len(WS), ServedAt(p) PROVE p \in 1..Len(wire'["server"]) /\ ServedAt(p)'
    <3>1. PICK x : x = WS[p].id
      OBVIOUS
    <3>2. Above("client", x)'
      BY <2>5, <2>6, <3>1 DEF ServedAt
    <3> QED BY <1>4, <1>a, <2>3, <2>4, <2>6, <3>1, <3>2, ServedConcat
  <2>7. resync' = "waiting" => \E p \in 1..Len(wire'["server"]) : ServedAt(p)'
    BY <1>4, <1>f, <2>2, <2>6
  <2>8. resync' # "waiting" => \A id \in Unhandled("server")' : Fresh("server", id)'
    BY <1>4, <1>f, <2>3, <2>4
  <2> QED BY <2>2, <2>7, <2>8 DEF ServerSound
<1>5. CASE Receive("server")
  <2>1. /\ TakeIn("server") /\ Incoming("server").kind = "message" /\ wire'["client"] = Tail(WC)
        /\ wire'["server"] = WS /\ maxReceived'["client"] = maxReceived["client"]
        /\ handled'["client"] = handled["client"] /\ UNCHANGED <<resync, flushId, sent>>
    BY <1>5, <1>a, ServerTakes
  <2>2. <<>> \in Seq(EnvelopeType) /\ WS \o <<>> = WS
    BY <1>b
  <2> QED BY <1>4, <2>1, <2>2
<1>6. CASE AnswerStarted
  <2>1. PICK a \in EnvelopeType : wire'["server"] = WS \o <<a>> /\ <<a>> \in Seq(EnvelopeType)
    BY <1>6, <1>a, StartedFacts
  <2>2. /\ TakeIn("server") /\ Incoming("server").kind = "started" /\ wire'["client"] = Tail(WC)
        /\ UNCHANGED <<maxReceived, resync, flushId, sent, handled>>
    BY <1>6, <1>a, StartedFacts
  <2> QED BY <1>4, <2>1, <2>2
<1>7. CASE AnswerFlush
  <2>1. /\ TakeIn("server") /\ Incoming("server").kind = "flush" /\ wire'["client"] = Tail(WC)
        /\ UNCHANGED <<maxReceived, resync, flushId, sent, handled>>
    BY <1>7, <1>a, FlushFacts
  <2>2. /\ WC # <<>> /\ Incoming("server") = WC[1] /\ buffer'["client"] = BC
    BY <1>a, <2>1, Ends, TakeFacts
  <2>3. FlushPending /\ ~FlushPending' /\ resync' = "waiting"
    <3>1. FlushPending /\ ~FlushPending'
      BY <1>a, <2>1, <2>2, PendingTail DEF FlushPending
    <3> QED BY <1>e, <2>1, <3>1
  <2>4. ASSUME NEW id \in Unhandled("server")' PROVE Holds(buffer'["server"], id)
    <3>1. id \in U
      BY <1>c, <2>1, <2>4
    <3>2. Holds(BS, id) /\ Incoming("server").ack < id /\ id \in Nat
      BY <1>d, <1>f, <2>2, <2>3, <3>1
    <3> QED BY <1>a, <2>1, <3>2, TakeDrops, Ends
  <2> DEFINE s == wire'["server"]
             p == Len(s)
  <2>5. /\ AnswerAt(s, flushId, p) /\ p \in 1..Len(s) /\ s[p].id = nextId["server"]
        /\ \A i \in 1..(p - 1) : s[i].id < nextId["server"]
        /\ \A id : Holds(buffer'["server"], id) =>
              \E i \in 1..(p - 1) : s[i].kind = "message" /\ s[i].id = id
    BY <1>7, <1>a, AnswerIsLast
  <2>6. /\ maxReceived'["client"] < nextId["server"]
        /\ AcksBelow(buffer'["client"], nextId["server"])
        /\ AcksBelow(wire'["client"], nextId["server"])
    <3>1. /\ maxReceived["client"] < nextId["server"]
          /\ AcksBelow(BC, nextId["server"]) /\ AcksBelow(WC, nextId["server"])
      BY <1>a, Ends DEF CountersSound, EnvelopesSound, AcksBelow
    <3>2. AcksBelow(Tail(WC), nextId["server"])
      BY <1>b, <2>2, <3>1, BelowTail
    <3> QED BY <2>1, <2>2, <3>1, <3>2
  <2>7. PICK k : k = p
    OBVIOUS
  <2>8. Above("client", wire["server"][k].id)'
    BY <2>5, <2>6, <2>7 DEF Above
  <2>9. ServedAt(k)'
    BY <2>1, <2>4, <2>5, <2>7, <2>8 DEF ServedAt
  <2> QED BY <2>3, <2>5, <2>7, <2>9 DEF ServerSound
<1>8. CASE Resend
  <2>1. /\ resync = "answered" /\ resync' = "idle" /\ wire'["client"] = WC \o BC /\ wire'["server"] = WS
        /\ UNCHANGED <<buffer, maxReceived, flushId, sent, handled>>
    BY <1>8, <1>a, ResendFacts
  <2>2. \A id : id \in Unhandled("server")' <=> id \in U
    BY <1>c, <2>1
  <2>3. ~FlushPending'
    <3>1. \A i \in 1..Len(BC) : BC[i].kind # "flush"
      BY <1>a, Ends DEF EnvelopesSound
    <3> QED BY <1>a, <1>b, <1>e, <2>1, <3>1, PendingConcat
  <2>4. ASSUME NEW id \in U PROVE Fresh("server", id)'
    <3>1. Fresh("server", id)
      BY <1>f, <2>1
    <3>2. AcksBelow(WC \o BC, id)
      BY <1>b, <3>1, BelowConcat, Ends DEF Fresh, Above
    <3> QED BY <2>1, <3>1, <3>2, Ends DEF Fresh, Above
  <2> QED BY <2>1, <2>2, <2>3, <2>4 DEF ServerSound
<1>9. CASE Reconnect /\ Settled
  <2>1. PICK f \in EnvelopeType, g \in EnvelopeType :
            f.kind = "flush" /\ f.ack = maxReceived["client"] /\ wire'["client"] = <<f, g>>
    BY <1>9, <1>a, ReconnectFacts
  <2>2. /\ \A i \in 1..Len(wire'["server"]) : \E j \in 1..Len(WS) : wire'["server"][i] = WS[j]
        /\ flushId' = nextId["client"] /\ resync' = "waiting"
        /\ UNCHANGED <<buffer, maxReceived, sent, handled>>
    BY <1>9, <1>a, ReconnectFacts
  <2>3. FlushPending' /\ wire'["client"][1] = f
    BY <2>1 DEF FlushPending
  <2>4. \A i \in 1..Len(WS) : WS[i].re # nextId["client"]
    <3> SUFFICES ASSUME NEW i \in 1..Len(WS) PROVE WS[i].re # nextId["client"]
      OBVIOUS
    <3>1. WS[i].re \in Nat /\ nextId["client"] \in Nat /\ WS[i].re < nextId["client"]
      BY <1>a, Ends, NumFacts DEF FlushSound
    <3> QED BY <3>1
  <2>5. \A i \in 1..Len(wire'["server"]) : wire'["server"][i].re # flushId'
    BY <2>2, <2>4
  <2>6. ASSUME NEW id \in Unhandled("server")' PROVE Holds(buffer'["server"], id) /\ f.ack < id
    <3>1. Fresh("server", id)
      BY <1>9, <1>c, <1>f, <2>2, <2>6 DEF Settled
    <3> QED BY <2>1, <2>2, <3>1, Ends DEF Fresh, Above
  <2> QED BY <2>2, <2>3, <2>5, <2>6 DEF ServerSound
<1>10. CASE UNCHANGED vars
  BY <1>a, <1>10 DEF vars, ServerSound, ServedAt, Unhandled, Fresh, Above, FlushPending
<1> QED BY <1>1, <1>2, <1>3, <1>5, <1>6, <1>7, <1>8, <1>9, <1>10, Ends DEF SettledNext, Next, Deliver

-----------------------------------------------------------------------------
(* Theorems. *)

\* The client has just connected, and all that was sent has been handled.
LEMMA ChannelInitHolds == Init => ChannelInv
<1> SUFFICES ASSUME Init PROVE ChannelInv
  OBVIOUS
<1>1. PICK m \in EnvelopeType : /\ m = Envelope("message", 1, 1) /\ m.kind = "message"
                                /\ m.id = 1 /\ m.ack = 1 /\ m.re = 0
  BY EnvelopeFacts
<1>2. /\ nextId = [e \in End |-> 2] /\ maxReceived = [e \in End |-> 1]
      /\ wire["client"] = <<>> /\ wire["server"] = <<>>
      /\ buffer["client"] = <<>> /\ buffer["server"] = <<m>>
      /\ resync = "idle" /\ flushId = 0 /\ reconnects = 0
      /\ sent = [e \in End |-> {1}] /\ handled = [e \in End |-> {1}]
  BY <1>1, Ends DEF Init
<1>3. <<>> \in Seq(EnvelopeType) /\ <<m>> \in Seq(EnvelopeType) /\ \A i \in 1..Len(<<m>>) : <<m>>[i] = m
  OBVIOUS
<1>4. TypeOK
  <2>1. buffer \in [End -> Seq(EnvelopeType)] /\ wire \in [End -> Seq(EnvelopeType)]
    BY <1>1, <1>3 DEF Init
  <2> QED BY <1>2, <2>1 DEF TypeOK
<1>5. CountersSound
  BY <1>2, Ends DEF CountersSound
<1>6. EnvelopesSound
  <2>1. \A i \in 1..Len(<<>>) : FALSE
    OBVIOUS
  <2> SUFFICES ASSUME NEW e \in End
               PROVE  /\ \A i \in 1..Len(wire[e]) :
                            wire[e][i].id < nextId[e] /\ wire[e][i].ack < nextId[Peer(e)]
                      /\ \A i \in 1..Len(buffer[e]) :
                            /\ buffer[e][i].kind = "message" /\ buffer[e][i].re = 0
                            /\ buffer[e][i].id < nextId[e] /\ buffer[e][i].ack < nextId[Peer(e)]
    BY DEF EnvelopesSound
  <2>2. wire[e] = <<>> /\ nextId[e] = 2 /\ nextId[Peer(e)] = 2 /\ buffer[e] \in {<<>>, <<m>>}
    BY <1>2, Ends
  <2> QED BY <1>1, <1>3, <2>1, <2>2
<1>7. FlushSound
  <2>1. \A i \in 1..Len(<<>>) : FALSE
    OBVIOUS
  <2> QED BY <1>2, <2>1, Ends DEF FlushSound
<1>8. Unhandled("client") = {} /\ Unhandled("server") = {} /\ ~FlushPending
  BY <1>2, Ends DEF Unhandled, FlushPending
<1>9. ClientSound /\ ServerSound
  BY <1>2, <1>8 DEF ClientSound, ServerSound
<1> QED BY <1>4, <1>5, <1>6, <1>7, <1>9 DEF ChannelInv, IdsSound, IdsAssigned

\* Every step keeps the invariant, as long as no connection is lost before the
\* last resync is complete.
LEMMA ChannelStep == ChannelInv /\ [SettledNext]_vars => ChannelInv'
<1> SUFFICES ASSUME ChannelInv, [SettledNext]_vars PROVE ChannelInv'
  OBVIOUS
<1>1. [Next]_vars /\ TypeOK /\ IdsSound
  BY DEF SettledNext, ChannelInv
<1>2. TypeOK'
  BY <1>1, TypesKept
<1>3. IdsSound'
  BY <1>1, CountersKept, EnvelopesKept, FlushKept DEF IdsSound, IdsAssigned
<1>4. ClientSound' /\ ServerSound'
  BY ClientKept, ServerKept
<1> QED BY <1>2, <1>3, <1>4 DEF ChannelInv

\* A message that is held by a sequence has its id among those of the sequence.
LEMMA HoldsIds ==
    ASSUME NEW s, NEW id, Holds(s, id)
    PROVE  id \in Ids(s)
BY DEF Holds, Ids

\* The invariant accounts for every message.
LEMMA ChannelInvImpliesNothingLost == ChannelInv => NothingLost
<1> SUFFICES ASSUME ChannelInv, NEW e \in End, NEW id \in Unhandled(e)
             PROVE  Holds(buffer[e], id) \/ Holds(wire[e], id)
  BY HoldsIds DEF NothingLost, Unhandled
<1>1. CASE e = "client"
  <2>1. ClientSafe(id)
    BY <1>1 DEF ChannelInv, ClientSound
  <2>2. id > flushId \/ id < flushId
    <3>1. id \in Nat /\ flushId \in Nat /\ id # flushId
      BY <1>1, NumFacts DEF ChannelInv, IdsSound, IdsAssigned, FlushSound, Unhandled
    <3> QED BY <3>1
  <2> QED BY <1>1, <2>1, <2>2 DEF ClientSafe, Fresh
<1>2. CASE e = "server"
  <2>0. ServerSound /\ TypeOK
    BY DEF ChannelInv
  <2>1. CASE FlushPending
    BY <1>2, <2>0, <2>1 DEF ServerSound
  <2>2. CASE resync = "waiting" /\ ~FlushPending
    <3>1. PICK p \in 1..Len(wire["server"]) : ServedAt(p)
      BY <2>0, <2>2 DEF ServerSound
    <3>2. \/ \E j \in 1..(p - 1) : wire["server"][j].kind = "message" /\ wire["server"][j].id = id
          \/ Fresh("server", id)
      BY <1>2, <3>1 DEF ServedAt
    <3>3. \A j \in 1..(p - 1) : j \in 1..Len(wire["server"])
      <4>1. Len(wire["server"]) \in Nat
        BY <2>0, NumFacts, Ends
      <4> QED BY <4>1
    <3> QED BY <1>2, <3>2, <3>3 DEF Fresh, Holds
  <2>3. CASE resync # "waiting"
    BY <1>2, <2>0, <2>3 DEF ServerSound, Fresh
  <2> QED BY <2>1, <2>2, <2>3
<1> QED BY <1>1, <1>2, Ends

\* The buffers, the wires and the counters keep their types, however often the
\* connection is lost and whenever.
THEOREM ChannelTypeCorrect == Spec => []TypeOK
<1>1. Init => TypeOK
  BY ChannelInitHolds DEF ChannelInv
<1> QED BY <1>1, TypesKept, PTL DEF Spec

\* Acknowledgements never run ahead of what their receiver has sent, however
\* many connections are lost and at whatever point of a resync.
THEOREM IdsAreAssigned == Spec => []IdsAssigned
<1>1. Init => TypeOK /\ IdsAssigned
  BY ChannelInitHolds DEF ChannelInv, IdsSound
<1>2. TypeOK /\ IdsAssigned /\ [Next]_vars => TypeOK' /\ IdsAssigned'
  BY TypesKept, CountersKept, EnvelopesKept DEF IdsAssigned
<1> QED BY <1>1, <1>2, PTL DEF Spec

\* No message is lost, in either direction and however many connections are,
\* as long as none is lost before the resync of the one before it is complete:
\* every message is handled, in its sender's buffer, or on the way.
THEOREM NothingLostIfSettled == Spec /\ [][Reconnect => Settled]_vars => []NothingLost
<1>1. [Next]_vars /\ [Reconnect => Settled]_vars => [SettledNext]_vars
  BY DEF SettledNext
<1> QED BY <1>1, ChannelInitHolds, ChannelStep, ChannelInvImpliesNothingLost, PTL DEF Spec

\* Before a connection has been lost there is no resync to complete.
LEMMA FirstIsSettled ==
    ASSUME MaxReconnect <= 1
    PROVE  Spec => [][Reconnect => Settled]_vars
<1> DEFINE First == TypeOK /\ (reconnects = 0 => Settled /\ flushId = 0 /\ resync = "idle")
<1>1. Init => First
  <2> SUFFICES ASSUME Init PROVE First
    OBVIOUS
  <2>1. TypeOK
    BY ChannelInitHolds DEF ChannelInv
  <2>2. flushId = 0 /\ resync = "idle" /\ sent["client"] = {1}
    BY Ends DEF Init
  <2> QED BY <2>1, <2>2 DEF Settled
<1>2. First /\ [Next]_vars => First'
  <2> SUFFICES ASSUME First, [Next]_vars, reconnects' = 0 PROVE (Settled /\ flushId = 0 /\ resync = "idle")'
    BY TypesKept
  <2>1. CASE Reconnect
    BY <2>1 DEF Reconnect, TypeOK
  <2>2. CASE ~Reconnect
    <3>1. reconnects = 0 /\ flushId' = flushId /\ resync' = "idle"
      BY <2>2 DEF Next, Deliver, Send, Receive, AnswerStarted, AnswerFlush, Answer, ReceiveAck, Resend, vars
    <3>2. \A id \in sent'["client"] : ~(id < 0)
      <4>1. TypeOK'
        BY TypesKept
      <4>2. sent'["client"] \subseteq Nat
        BY <4>1, Ends DEF TypeOK
      <4> QED BY <4>2
    <3> QED BY <3>1, <3>2 DEF Settled
  <2> QED BY <2>1, <2>2
<1>3. First /\ [Next]_vars => [Reconnect => Settled]_vars
  <2> SUFFICES ASSUME First, Reconnect PROVE Settled
    OBVIOUS
  <2>1. reconnects = 0
    BY MaxReconnectAssumption DEF Reconnect, TypeOK
  <2> QED BY <2>1
<1> QED BY <1>1, <1>2, <1>3, PTL DEF Spec

\* In particular, one lost connection loses no message, however many have been
\* sent and whenever it is lost.
THEOREM NothingLostOnce ==
    ASSUME MaxReconnect <= 1
    PROVE  Spec => []NothingLost
BY FirstIsSettled, NothingLostIfSettled, PTL
==============================================================================
