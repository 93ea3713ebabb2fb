----------------------- MODULE MessageTransfer_proofs -----------------------
(***************************************************************************)
(* Proofs about MessageTransfer, for every number and length of messages   *)
(* and every slice size: take_recvd never panics, and what the receiving   *)
(* user gets is what the sending user gave, in order and once.             *)
(*                                                                         *)
(* The invariant says that the receiver keeps no buffer below last_ack.0.  *)
(* Then the messages take_recvd takes are exactly those the loop of recv   *)
(* has just found complete, an interval that starts where the messages     *)
(* delivered before end.  Nothing is needed about which bytes the slices   *)
(* hold, which is why the argument survives the merging of ranges across a *)
(* gap (WholeMessages does not).                                           *)
(*                                                                         *)
(* The second half shows that what the receiver says it has never goes     *)
(* back, and that the sender drops no byte the receiver lacks.             *)
(***************************************************************************)
EXTENDS MessageTransfer, SliceManager_proofs, FiniteSetTheorems, SequenceTheorems

(* A function on 1..n, which is what a sequence of length n is. *)
IsSeqOfLength(f, n) == f = [i \in 1..n |-> f[i]]

SenderInv ==
  /\ sent \in Seq(Lengths)
  /\ DOMAIN outgoing \subseteq 0..(Len(sent) - 1)
  /\ \A m \in net : m.kind = "slice" => m.seq \in 0..(Len(sent) - 1)

ReceiverInv ==
  /\ last_ack[1] \in 0..Len(sent)
  /\ DOMAIN incoming \subseteq last_ack[1]..(Len(sent) - 1)
  /\ panicked = FALSE
  /\ IsSeqOfLength(delivered, last_ack[1])
  /\ \A i \in 1..last_ack[1] : delivered[i].seq = i - 1

IInv == SenderInv /\ ReceiverInv

-----------------------------------------------------------------------------
(* Facts about the operators. *)

(* Ascending lists an interval from its start. *)
LEMMA AscendingInterval ==
  ASSUME NEW a \in Nat, NEW b \in Nat, a <= b
  PROVE  Ascending(a..(b - 1)) = [i \in 1..(b - a) |-> a + i - 1]
<1> DEFINE S == a..(b - 1)
<1>1. Cardinality(S) = b - a
  <2>1. a \in Int /\ b - 1 \in Int
    OBVIOUS
  <2>2. Cardinality(a..(b - 1)) = IF a > b - 1 THEN 0 ELSE (b - 1) - a + 1
    BY <2>1, FS_Interval
  <2>3. QED
    BY <2>2
<1>2. ASSUME NEW s \in S PROVE Cardinality({t \in S : t < s}) = s - a
  <2> DEFINE below == {t \in S : t < s}
  <2>1. below = a..(s - 1)
    OBVIOUS
  <2>2. a \in Int /\ s - 1 \in Int
    OBVIOUS
  <2>3. Cardinality(a..(s - 1)) = IF a > s - 1 THEN 0 ELSE (s - 1) - a + 1
    BY <2>2, FS_Interval
  <2> HIDE DEF below
  <2>4. Cardinality(below) = s - a
    BY <2>1, <2>3
  <2>5. QED
    BY <2>4 DEF below
<1>3. ASSUME NEW i \in 1..(b - a)
      PROVE  (CHOOSE s \in S : Cardinality({t \in S : t < s}) = i - 1) = a + i - 1
  <2>1. a + i - 1 \in S /\ Cardinality({t \in S : t < a + i - 1}) = i - 1
    BY <1>2
  <2>2. \A s \in S : Cardinality({t \in S : t < s}) = i - 1 => s = a + i - 1
    BY <1>2
  <2> HIDE DEF S
  <2>3. QED
    BY <2>1, <2>2
<1>4. QED
  BY <1>1, <1>3 DEF Ascending

(* Appending to a sequence given as a function. *)
IsConcat(h, f, m, g, n) ==
  /\ IsSeqOfLength(h, m + n)
  /\ \A i \in 1..m : h[i] = f[i]
  /\ \A i \in 1..n : h[m + i] = g[i]

LEMMA ConcatFunctions ==
  ASSUME NEW m \in Nat, NEW n \in Nat, NEW f, NEW g,
         IsSeqOfLength(f, m), IsSeqOfLength(g, n)
  PROVE  IsConcat(f \o g, f, m, g, n)
<1> DEFINE S == {f[i] : i \in 1..m} \cup {g[i] : i \in 1..n}
<1>1. f \in [1..m -> S] /\ g \in [1..n -> S]
  BY DEF IsSeqOfLength
<1> HIDE DEF S
<1>2. f \in Seq(S) /\ Len(f) = m /\ g \in Seq(S) /\ Len(g) = n
  BY <1>1
<1>3. /\ f \o g \in Seq(S) /\ Len(f \o g) = m + n
      /\ \A i \in 1..(m + n) : (f \o g)[i] = IF i <= m THEN f[i] ELSE g[i - m]
  BY <1>2, ConcatProperties
<1>4. f \o g \in [1..(m + n) -> S]
  BY <1>3, LenProperties
<1>5. QED
  BY <1>3, <1>4 DEF IsSeqOfLength, IsConcat

LEMMA LenOfFunction ==
  ASSUME NEW n \in Nat, NEW f, IsSeqOfLength(f, n)
  PROVE  Len(f) = n /\ DOMAIN f = 1..n
  BY DEF IsSeqOfLength

-----------------------------------------------------------------------------
(* The sending side and the links. *)

LEMMA InitIInv == ASSUME Init PROVE IInv
  BY DEF Init, IInv, SenderInv, ReceiverInv, IsSeqOfLength, NoSlices

(* What a sent message adds to the network are slices of that message. *)
LEMMA SliceFramesSeq ==
  ASSUME NEW seq, NEW size, NEW m \in SliceFrames(seq, size)
  PROVE  m.kind = "slice" /\ m.seq = seq
  BY DEF SliceFrames

LEMMA SendIInv ==
  ASSUME IInv, NEW len \in Lengths, Send(len)
  PROVE  IInv'
<1> USE DEF IInv
<1>1. sent' \in Seq(Lengths) /\ Len(sent') = Len(sent) + 1 /\ Len(sent) \in Nat
  BY DEF Send, SenderInv
<1>2. DOMAIN outgoing' = DOMAIN outgoing \cup {Len(sent)}
  BY DEF Send, InsertMsg, With
<1>3. \A m \in net' : m \in net \/ (m.kind = "slice" /\ m.seq = Len(sent))
  BY SliceFramesSeq DEF Send
<1>4. SenderInv'
  BY <1>1, <1>2, <1>3 DEF SenderInv
<1>5. ReceiverInv'
  BY <1>1 DEF Send, ReceiverInv, receiver
<1>6. QED
  BY <1>4, <1>5

LEMMA ResendIInv == ASSUME IInv, ResendEarliest PROVE IInv'
<1> USE DEF IInv
<1>1. Min(DOMAIN outgoing) \in DOMAIN outgoing
  <2>1. DOMAIN outgoing \in SUBSET Nat /\ DOMAIN outgoing # {}
    BY DEF ResendEarliest, SenderInv
  <2>2. QED
    BY <2>1, MinInSet
<1>2. \A m \in net' : m \in net \/ (m.kind = "slice" /\ m.seq = Min(DOMAIN outgoing))
  BY SliceFramesSeq DEF ResendEarliest
<1>3. SenderInv'
  BY <1>1, <1>2 DEF ResendEarliest, SenderInv
<1>4. ReceiverInv'
  BY DEF ResendEarliest, ReceiverInv, receiver
<1>5. QED
  BY <1>3, <1>4

LEMMA AckIInv ==
  ASSUME IInv, NEW m \in net, DeliverAck(m)
  PROVE  IInv'
<1> USE DEF IInv
<1>1. DOMAIN outgoing' \subseteq DOMAIN outgoing
  BY DEF DeliverAck, RecvAck, Without, With
<1>2. SenderInv'
  BY <1>1 DEF DeliverAck, SenderInv
<1>3. ReceiverInv'
  BY DEF DeliverAck, ReceiverInv, receiver
<1>4. QED
  BY <1>2, <1>3

LEMMA LinkIInv ==
  ASSUME IInv,
         \/ \E m \in net : Lose(m)
         \/ \E side \in Flaky : LinksLost(side) \/ LinkAdded(side)
  PROVE  IInv'
  BY DEF IInv, SenderInv, ReceiverInv, Lose, LinksLost, LinkAdded, receiver

-----------------------------------------------------------------------------
(* The receiving side. *)

(* take_recvd, after last_ack.0 moved from a to b over complete messages:  *)
(* it takes a..b-1, all of them whole, and delivers them in that order.    *)
LEMMA TakeRecvdInv ==
  ASSUME IInv, UNCHANGED sent, NEW stored,
         last_ack'[1] \in last_ack[1]..Len(sent),
         DOMAIN stored \subseteq last_ack[1]..(Len(sent) - 1),
         \A s \in last_ack[1]..(last_ack'[1] - 1) : Complete(stored, s),
         TakeRecvd(stored)
  PROVE  ReceiverInv'
<1> DEFINE a == last_ack[1]
           b == last_ack'[1]
           taken == Taken(stored, last_ack')
           order == Ascending(taken)
           new == [i \in DOMAIN order |-> [seq |-> order[i], data |-> stored[order[i]].data]]
<1>1. a \in Nat /\ b \in Nat /\ a <= b /\ Len(sent) \in Nat
  BY DEF IInv, SenderInv, ReceiverInv
<1>2. taken = a..(b - 1)
  BY <1>1 DEF Taken, Complete
<1>3. \A s \in taken : IsFull(stored[s])
  BY <1>2 DEF Complete
<1>4. /\ incoming' = Without(stored, taken)
      /\ delivered' = delivered \o new
      /\ panicked' = panicked
  BY <1>3 DEF TakeRecvd
<1>5. order = [i \in 1..(b - a) |-> a + i - 1]
  BY <1>1, <1>2, AscendingInterval
<1>6. IsSeqOfLength(new, b - a) /\ \A i \in 1..(b - a) : new[i].seq = a + i - 1
  BY <1>1, <1>5 DEF IsSeqOfLength
<1> HIDE DEF new, order
<1>7. /\ IsSeqOfLength(delivered', b)
      /\ \A i \in 1..a : delivered'[i] = delivered[i]
      /\ \A i \in 1..(b - a) : delivered'[a + i] = new[i]
  <2> DEFINE k == b - a
  <2>1. a \in Nat /\ k \in Nat /\ IsSeqOfLength(delivered, a) /\ a + k = b
    BY <1>1 DEF IInv, ReceiverInv
  <2>2. IsSeqOfLength(new, k)
    BY <1>6
  <2> HIDE DEF k, a
  <2>3. IsConcat(delivered \o new, delivered, a, new, k)
    BY <2>1, <2>2, ConcatFunctions
  <2>4. IsConcat(delivered', delivered, a, new, k)
    BY <1>4, <2>3
  <2>5. QED
    BY <2>1, <2>4 DEF IsConcat, k
<1>8. ASSUME NEW i \in 1..b PROVE delivered'[i].seq = i - 1
  <2>1. CASE i <= a
    BY <1>1, <1>7, <2>1 DEF IInv, ReceiverInv
  <2>2. CASE i > a
    <3>1. i - a \in 1..(b - a) /\ a + (i - a) = i
      BY <1>1, <2>2
    <3>2. delivered'[i] = new[i - a] /\ new[i - a].seq = a + (i - a) - 1
      BY <1>6, <1>7, <3>1
    <3>3. QED
      BY <1>1, <3>1, <3>2
  <2>3. QED
    BY <1>1, <2>1, <2>2
<1>9. DOMAIN incoming' \subseteq b..(Len(sent) - 1)
  BY <1>1, <1>2, <1>4 DEF Without
<1>10. panicked' = FALSE
  BY <1>4 DEF IInv, ReceiverInv
<1>11. last_ack'[1] \in 0..Len(sent')
  BY <1>1
<1>12. QED
  BY <1>7, <1>8, <1>9, <1>10, <1>11 DEF ReceiverInv

(* A slice that is delivered: last_ack.0 stays, or moves over complete     *)
(* messages.                                                               *)
LEMMA DeliverSliceIInv ==
  ASSUME IInv, NEW m \in net, DeliverSlice(m)
  PROVE  IInv' /\ last_ack'[1] >= last_ack[1]
<1> DEFINE stored == Store(incoming, m.seq, m.seq_len, m.first, m.len)
<1>1. /\ m.kind = "slice" /\ m.seq \in 0..(Len(sent) - 1)
      /\ last_ack[1] \in 0..Len(sent) /\ Len(sent) \in Nat
      /\ DOMAIN incoming \subseteq last_ack[1]..(Len(sent) - 1)
      /\ UNCHANGED <<outgoing, sent>>
  BY DEF DeliverSlice, IInv, SenderInv, ReceiverInv
<1>2. DOMAIN stored = DOMAIN incoming \cup {m.seq}
  BY DEF Store, With
<1> HIDE DEF stored
<1>3. \A f \in net' : f \in net \/ f.kind = "ack"
  BY DEF DeliverSlice, RecvOld, RecvAhead, RecvNext, Acknowledge, AckFrame
<1>4. SenderInv'
  BY <1>1, <1>3 DEF IInv, SenderInv
<1>5. CASE RecvOld(m)
  <2>1. last_ack' = last_ack /\ TakeRecvd(incoming)
    BY <1>5 DEF RecvOld
  <2>2. /\ last_ack'[1] \in last_ack[1]..Len(sent)
        /\ \A s \in last_ack[1]..(last_ack'[1] - 1) : Complete(incoming, s)
    BY <1>1, <2>1
  <2>3. ReceiverInv'
    BY <1>1, <2>1, <2>2, TakeRecvdInv
  <2>4. QED
    BY <1>1, <1>4, <2>1, <2>3 DEF IInv
<1>6. CASE RecvAhead(m)
  <2>1. last_ack' = last_ack /\ TakeRecvd(stored) /\ m.seq > last_ack[1]
    BY <1>6 DEF RecvAhead, stored
  <2>2. /\ last_ack'[1] \in last_ack[1]..Len(sent)
        /\ \A s \in last_ack[1]..(last_ack'[1] - 1) : Complete(stored, s)
        /\ DOMAIN stored \subseteq last_ack[1]..(Len(sent) - 1)
    BY <1>1, <1>2, <2>1
  <2>3. ReceiverInv'
    BY <1>1, <2>1, <2>2, TakeRecvdInv
  <2>4. QED
    BY <1>1, <1>4, <2>1, <2>3 DEF IInv
<1>7. CASE RecvNext(m)
  <2>1. PICK stop \in m.seq..Len(sent) :
          StopsAt(stored, m.seq, stop) /\ last_ack' = AckAt(stored, stop)
    BY <1>7 DEF RecvNext, stored
  <2>2. TakeRecvd(stored) /\ m.seq = last_ack[1]
    BY <1>7 DEF RecvNext, stored
  <2>3. last_ack'[1] = stop
    BY <2>1 DEF AckAt
  <2>4. /\ last_ack'[1] \in last_ack[1]..Len(sent)
        /\ \A s \in last_ack[1]..(last_ack'[1] - 1) : Complete(stored, s)
        /\ DOMAIN stored \subseteq last_ack[1]..(Len(sent) - 1)
    BY <1>1, <1>2, <2>1, <2>2, <2>3 DEF StopsAt
  <2>5. ReceiverInv'
    BY <1>1, <2>2, <2>4, TakeRecvdInv
  <2>6. QED
    BY <1>1, <1>4, <2>4, <2>5 DEF IInv
<1>8. QED
  BY <1>5, <1>6, <1>7 DEF DeliverSlice

LEMMA NextIInv == ASSUME IInv, [Next]_vars PROVE IInv'
<1>1. CASE UNCHANGED vars
  BY <1>1 DEF IInv, SenderInv, ReceiverInv, vars
<1>2. QED
  BY <1>1, SendIInv, ResendIInv, AckIInv, DeliverSliceIInv, LinkIInv DEF Next

LEMMA Invariance == Spec => []IInv
<1>1. Init => IInv
  BY InitIInv
<1>2. IInv /\ [Next]_vars => IInv'
  BY NextIInv
<1>3. QED
  BY <1>1, <1>2, PTL DEF Spec

(* The unwrap in take_recvd (src/message_manager.rs:152) never meets an    *)
(* incomplete message, whatever is lost, repeated or reordered.            *)
THEOREM TakeRecvdNeverPanics == Spec => []NeverPanics
<1>1. IInv => NeverPanics
  BY DEF IInv, ReceiverInv, NeverPanics
<1>2. QED
  BY <1>1, Invariance, PTL

(* The receiving user gets message 0, 1, 2, ... each once, and last_ack.0  *)
(* counts them.                                                            *)
THEOREM DeliveredInOrderOnce == Spec => []InOrderOnce
<1>1. IInv => InOrderOnce
  <2> SUFFICES ASSUME IInv PROVE InOrderOnce
    OBVIOUS
  <2>1. Len(delivered) = last_ack[1] /\ DOMAIN delivered = 1..last_ack[1]
    BY LenOfFunction DEF IInv, SenderInv, ReceiverInv
  <2>2. QED
    BY <2>1 DEF IInv, ReceiverInv, InOrderOnce
<1>2. QED
  BY <1>1, Invariance, PTL

-----------------------------------------------------------------------------
(* The refinement.  In a state of the invariant both mapped sequences list *)
(* 0, 1, 2, ...; only Send and DeliverSlice change their lengths.          *)

Upto(n) == [i \in 1..n |-> i - 1]
Accepted == [i \in DOMAIN sent |-> i - 1]
Handed == [i \in DOMAIN delivered |-> delivered[i].seq]

LEMMA MappedState ==
  ASSUME IInv
  PROVE  /\ Len(sent) \in Nat /\ last_ack[1] \in 0..Len(sent)
         /\ Accepted = Upto(Len(sent)) /\ Handed = Upto(last_ack[1])
<1>1. Len(sent) \in Nat /\ DOMAIN sent = 1..Len(sent) /\ last_ack[1] \in 0..Len(sent)
  BY DEF IInv, SenderInv, ReceiverInv
<1>2. DOMAIN delivered = 1..last_ack[1]
  BY <1>1, LenOfFunction DEF IInv, ReceiverInv
<1>3. \A i \in 1..last_ack[1] : delivered[i].seq = i - 1
  BY DEF IInv, ReceiverInv
<1>4. QED
  BY <1>1, <1>2, <1>3 DEF Accepted, Handed, Upto

LEMMA MappedStatePrime ==
  ASSUME IInv'
  PROVE  /\ Len(sent') \in Nat /\ last_ack'[1] \in 0..Len(sent')
         /\ Accepted' = Upto(Len(sent')) /\ Handed' = Upto(last_ack'[1])
<1>1. (IInv => /\ Len(sent) \in Nat /\ last_ack[1] \in 0..Len(sent)
               /\ Accepted = Upto(Len(sent)) /\ Handed = Upto(last_ack[1]))'
  BY MappedState, PTL
<1>2. QED
  BY <1>1 DEF Upto

(* What a step does to the two lengths. *)
LEMMA StepLengths ==
  ASSUME IInv, [Next]_vars
  PROVE  \/ /\ Len(sent') = Len(sent) + 1 /\ Len(sent) < MaxMsgs
            /\ last_ack'[1] = last_ack[1]
         \/ Len(sent') = Len(sent) /\ last_ack'[1] >= last_ack[1]
<1>1. Len(sent) \in Nat /\ last_ack[1] \in Nat /\ sent \in Seq(Lengths)
  BY DEF IInv, SenderInv, ReceiverInv
<1>2. CASE \E len \in Lengths : Send(len)
  BY <1>1, <1>2 DEF Send, receiver
<1>3. CASE \E m \in net : DeliverSlice(m)
  <2>1. sent' = sent
    BY <1>3 DEF DeliverSlice
  <2>2. last_ack'[1] >= last_ack[1]
    BY <1>3, DeliverSliceIInv
  <2>3. QED
    BY <2>1, <2>2
<1>4. CASE ~(\E len \in Lengths : Send(len)) /\ ~(\E m \in net : DeliverSlice(m))
  <2>1. sent' = sent /\ last_ack' = last_ack
    BY <1>4
    DEF Next, vars, receiver, ResendEarliest, DeliverAck, Lose, LinksLost, LinkAdded
  <2>2. QED
    BY <1>1, <2>1
<1>5. QED
  BY <1>2, <1>3, <1>4

(* The protocol of an epoch implements OrderedDelivery. *)
THEOREM Refinement == Spec => ImplementsOrderedDelivery
<1>1. Init => Promise!Init
  BY DEF Init, Promise!Init
<1>2. ASSUME IInv, IInv', [Next]_vars
      PROVE  [Promise!Next]_<<Accepted, Handed>>
  <2> DEFINE n == Len(sent)
             k == last_ack[1]
  <2>1. /\ n \in Nat /\ k \in 0..n
        /\ Accepted = Upto(n) /\ Handed = Upto(k)
    BY <1>2, MappedState
  <2>2. /\ n' \in Nat /\ k' \in 0..n'
        /\ Accepted' = Upto(n') /\ Handed' = Upto(k')
    BY <1>2, MappedStatePrime DEF Upto
  <2>3. \/ n' = n + 1 /\ n < MaxMsgs /\ k' = k
        \/ n' = n /\ k' >= k
    BY <1>2, StepLengths
  <2> HIDE DEF n, k
  <2>4. CASE n' = n + 1 /\ n < MaxMsgs /\ k' = k
    <3>1. Accepted' = Append(Accepted, n) /\ Handed' = Handed
      BY <2>1, <2>2, <2>4 DEF Upto
    <3>2. n \in 0..(MaxMsgs - 1)
      BY <2>1, <2>4, TransferAssumption
    <3>3. QED
      BY <3>1, <3>2 DEF Promise!Next, Promise!Accept, Accepted, Handed
  <2>5. CASE n' = n /\ k' = k
    BY <2>1, <2>2, <2>5
  <2>6. CASE n' = n /\ k' > k
    <3>1. Accepted' = Accepted /\ Len(Accepted) = n /\ Len(Handed) = k
      BY <2>1, <2>2, <2>6 DEF Upto
    <3>2. Handed' = SubSeq(Accepted, 1, k')
      BY <2>1, <2>2, <2>6 DEF Upto
    <3>3. k' \in 1..Len(Accepted) /\ Len(Handed) < k'
      BY <2>1, <2>2, <2>6, <3>1
    <3>4. QED
      BY <3>1, <3>2, <3>3 DEF Promise!Next, Promise!HandOver, Accepted, Handed
  <2>7. QED
    BY <2>1, <2>2, <2>3, <2>4, <2>5, <2>6
<1>3. QED
  BY <1>1, <1>2, Invariance, PTL
  DEF Spec, ImplementsOrderedDelivery, Promise!Spec, Accepted, Handed

-----------------------------------------------------------------------------
(* A message outlives its acknowledgements.                                *)
(*                                                                         *)
(* The invariant says of the sender that the ranges of a message are its   *)
(* tail, of the receiver that last_ack is what its buffers show, and of    *)
(* every acknowledgement in flight, however old, that the receiver holds   *)
(* what it names.  The last needs that add_slice never forgets a byte and  *)
(* never moves the end of the first range back (AddSliceGrows).            *)

(* The receiver holds what an acknowledgement names. *)
AckHeld(seq, last) ==
  /\ seq \in Nat /\ last \in Nat /\ seq <= last_ack[1]
  /\ seq = last_ack[1] /\ last # 0 => 0..last \subseteq Held(seq)

TailsInv == \A seq \in DOMAIN outgoing : IsTail(outgoing[seq], sent[seq + 1])

BuffersInv ==
  /\ \A seq \in DOMAIN incoming : IsBuffer(incoming[seq], sent[seq + 1])
  /\ last_ack = AckAt(incoming, last_ack[1])

FramesInv ==
  \A m \in net :
    \/ m.kind = "slice" /\ m.seq_len = sent[m.seq + 1] /\ m.first \in Nat /\ m.len \in Nat
    \/ m.kind = "ack" /\ AckHeld(m.seq, m.last)

RInv == IInv /\ TailsInv /\ BuffersInv /\ FramesInv /\ NothingDroppedEarly

(* The numbers that the invariant speaks of. *)
LEMMA Numbers ==
  ASSUME IInv
  PROVE  /\ Len(sent) \in Nat /\ last_ack[1] \in 0..Len(sent)
         /\ \A seq \in 0..(Len(sent) - 1) : sent[seq + 1] \in Nat
         /\ DOMAIN outgoing \subseteq 0..(Len(sent) - 1)
         /\ DOMAIN incoming \subseteq 0..(Len(sent) - 1)
<1>1. sent \in Seq(Lengths) /\ Len(sent) \in Nat /\ last_ack[1] \in 0..Len(sent)
  BY DEF IInv, SenderInv, ReceiverInv
<1>2. ASSUME NEW seq \in 0..(Len(sent) - 1) PROVE sent[seq + 1] \in Nat
  <2>1. seq + 1 \in 1..Len(sent)
    BY <1>1
  <2>2. sent[seq + 1] \in Lengths
    BY <1>1, <2>1
  <2>3. QED
    BY <2>2, TransferAssumption, Zenon
<1>3. QED
  BY <1>1, <1>2 DEF IInv, SenderInv, ReceiverInv

LEMMA InitRInv == ASSUME Init PROVE RInv
<1>1. IInv
  BY InitIInv
<1>2. TailsInv /\ BuffersInv /\ FramesInv /\ NothingDroppedEarly
  BY DEF Init, TailsInv, BuffersInv, FramesInv, NothingDroppedEarly, NoSlices, AckAt
<1>3. QED
  BY <1>1, <1>2 DEF RInv

-----------------------------------------------------------------------------
(* Steps of the sender and of the links: the receiver stays as it is. *)

(* sent may have grown; what the receiver holds is the same. *)
LEMMA ReceiverIdle ==
  ASSUME RInv, UNCHANGED receiver, Len(sent') >= Len(sent), Len(sent') \in Nat,
         \A i \in 1..Len(sent) : sent'[i] = sent[i]
  PROVE  /\ BuffersInv'
         /\ \A seq \in 0..(Len(sent) - 1) : sent'[seq + 1] = sent[seq + 1]
         /\ \A seq \in 0..(Len(sent) - 1) : Held(seq)' = Held(seq)
         /\ \A seq, last : AckHeld(seq, last) => AckHeld(seq, last)'
<1>1. /\ Len(sent) \in Nat /\ last_ack[1] \in 0..Len(sent)
      /\ DOMAIN incoming \subseteq 0..(Len(sent) - 1)
  BY Numbers DEF RInv
<1>2. incoming' = incoming /\ last_ack' = last_ack
  BY DEF receiver
<1>3. \A seq \in 0..(Len(sent) - 1) : sent'[seq + 1] = sent[seq + 1]
  BY <1>1
<1>4. BuffersInv'
  BY <1>1, <1>2, <1>3 DEF RInv, BuffersInv
<1>5. \A seq \in 0..(Len(sent) - 1) : Held(seq)' = Held(seq)
  BY <1>2, <1>3 DEF Held
<1>6. ASSUME NEW seq, NEW last, AckHeld(seq, last) PROVE AckHeld(seq, last)'
  <2>1. CASE seq = last_ack[1] /\ last # 0
    <3>1. Held(seq)' = Held(seq)
      BY <1>2, <2>1, <1>1 DEF Held
    <3>2. QED
      BY <1>2, <1>6, <2>1, <3>1 DEF AckHeld
  <2>2. CASE ~(seq = last_ack[1] /\ last # 0)
    BY <1>2, <1>6, <2>2 DEF AckHeld
  <2>3. QED
    BY <2>1, <2>2
<1>7. QED
  BY <1>3, <1>4, <1>5, <1>6

(* The slices of a tail have an offset and a length. *)
LEMMA SlicesOfTail ==
  ASSUME NEW n \in Nat, NEW slices, IsTail(slices, n), NEW size \in Nat \ {0},
         NEW p \in GetSlices(slices, size)
  PROVE  p[1] \in Nat /\ p[2] \in Nat
<1>1. PICK s \in DOMAIN slices : p \in MakeSlices(s, slices[s], size)
  BY DEF GetSlices
<1>2. s \in 0..(n - 1) /\ slices[s] = n - 1
  BY <1>1, Zenon DEF IsTail, NoSlices
<1>3. PICK c \in s..(n - 1) : p = <<c, Min({size, n - 1 + 1 - c})>>
  BY <1>1, <1>2, Zenon DEF MakeSlices
<1>4. size \in Int /\ n - 1 + 1 - c \in Int /\ n - 1 + 1 - c >= 0 /\ c \in Nat
  BY <1>2
<1>5. Min({size, n - 1 + 1 - c}) \in Nat
  <2>1. Min({size, n - 1 + 1 - c}) = IF size <= n - 1 + 1 - c THEN size ELSE n - 1 + 1 - c
    BY <1>4, MinOfPair
  <2>2. QED
    BY <1>4, <2>1
<1>6. QED
  BY <1>3, <1>4, <1>5

(* Hence so have the frames that send_slices makes of them. *)
LEMMA NewFrames ==
  ASSUME NEW seq, NEW size \in Sizes, NEW m \in SliceFrames(seq, size),
         sent'[seq + 1] \in Nat, IsTail(outgoing'[seq], sent'[seq + 1])
  PROVE  /\ m.kind = "slice" /\ m.seq_len = sent'[m.seq + 1]
         /\ m.first \in Nat /\ m.len \in Nat
<1>1. PICK p \in GetSlices(outgoing'[seq], size) :
        m = [kind |-> "slice", seq |-> seq, seq_len |-> sent'[seq + 1],
             first |-> p[1], len |-> p[2]]
  BY DEF SliceFrames
<1>2. size \in Nat \ {0}
  BY TransferAssumption
<1>3. p[1] \in Nat /\ p[2] \in Nat
  BY <1>1, <1>2, SlicesOfTail
<1>4. QED
  BY <1>1, <1>3

LEMMA SendRInv ==
  ASSUME RInv, NEW len \in Lengths, Send(len)
  PROVE  RInv'
<1> DEFINE n == Len(sent)
<1>1. /\ n \in Nat /\ last_ack[1] \in 0..n
      /\ DOMAIN outgoing \subseteq 0..(n - 1) /\ DOMAIN incoming \subseteq 0..(n - 1)
  BY Numbers DEF RInv
<1>2. IInv'
  BY SendIInv DEF RInv
<1>3. /\ sent' = Append(sent, len) /\ sent \in Seq(Lengths) /\ UNCHANGED receiver
      /\ outgoing' = With(outgoing, n, FromVec(len)) /\ len \in Nat
  BY TransferAssumption DEF Send, InsertMsg, RInv, IInv, SenderInv
<1>4. Len(sent') = n + 1 /\ sent'[n + 1] = len /\ \A i \in 1..n : sent'[i] = sent[i]
  BY <1>3
<1>5. /\ BuffersInv'
      /\ \A seq \in 0..(n - 1) : sent'[seq + 1] = sent[seq + 1]
      /\ \A seq \in 0..(n - 1) : Held(seq)' = Held(seq)
      /\ \A seq, last : AckHeld(seq, last) => AckHeld(seq, last)'
  BY <1>1, <1>3, <1>4, ReceiverIdle
<1>6. /\ DOMAIN outgoing' = DOMAIN outgoing \cup {n}
      /\ outgoing'[n] = FromVec(len)
      /\ \A seq \in DOMAIN outgoing : outgoing'[seq] = outgoing[seq]
  BY <1>1, <1>3 DEF With
<1>7. IsTail(FromVec(len), len) /\ 0..(len - 1) \subseteq Span(FromVec(len))
  BY <1>3, FromVecTail
<1>8. TailsInv'
  BY <1>1, <1>4, <1>5, <1>6, <1>7 DEF RInv, TailsInv
<1>9. FramesInv'
  <2> SUFFICES ASSUME NEW m \in net'
               PROVE  \/ /\ m.kind = "slice" /\ m.seq_len = sent'[m.seq + 1]
                         /\ m.first \in Nat /\ m.len \in Nat
                      \/ m.kind = "ack" /\ AckHeld(m.seq, m.last)'
    BY DEF FramesInv
  <2>1. CASE m \in net
    <3>1. m.kind = "slice" => m.seq \in 0..(n - 1)
      BY <2>1 DEF RInv, IInv, SenderInv
    <3>2. QED
      BY <1>5, <2>1, <3>1 DEF RInv, FramesInv
  <2>2. CASE m \notin net
    <3>1. PICK size \in Sizes : m \in SliceFrames(n, size)
      BY <2>2 DEF Send
    <3>2. QED
      BY <1>3, <1>4, <1>6, <1>7, <3>1, NewFrames, Zenon
  <2>3. QED
    BY <2>1, <2>2
<1>10. NothingDroppedEarly'
  <2> SUFFICES ASSUME NEW seq \in 0..n
               PROVE  0..(sent'[seq + 1] - 1) \subseteq
                        Held(seq)' \cup (IF seq \in DOMAIN outgoing' THEN Span(outgoing'[seq]) ELSE {})
    BY <1>1, <1>4 DEF NothingDroppedEarly
  <2>1. CASE seq = n
    BY <1>4, <1>6, <1>7, <2>1
  <2>2. CASE seq # n
    <3>1. seq \in 0..(n - 1)
      BY <1>1, <2>2
    <3>2. /\ sent'[seq + 1] = sent[seq + 1] /\ Held(seq)' = Held(seq)
          /\ seq \in DOMAIN outgoing' <=> seq \in DOMAIN outgoing
          /\ seq \in DOMAIN outgoing => outgoing'[seq] = outgoing[seq]
      BY <1>5, <1>6, <2>2, <3>1
    <3>3. QED
      BY <3>1, <3>2 DEF RInv, NothingDroppedEarly
  <2>3. QED
    BY <2>1, <2>2
<1>11. QED
  BY <1>2, <1>5, <1>8, <1>9, <1>10 DEF RInv

(* The steps of the sender and the links that keep sent and the receiver,  *)
(* and put at most slices of known messages on the network.                *)
LEMMA QuietRInv ==
  ASSUME RInv, IInv', UNCHANGED <<sent, receiver>>, TailsInv', NothingDroppedEarly',
         \A m \in net' : \/ m \in net
                         \/ /\ m.kind = "slice" /\ m.seq_len = sent'[m.seq + 1]
                            /\ m.first \in Nat /\ m.len \in Nat
  PROVE  RInv'
<1>1. Len(sent) \in Nat
  BY Numbers DEF RInv
<1>2. BuffersInv' /\ \A seq, last : AckHeld(seq, last) => AckHeld(seq, last)'
  BY <1>1, ReceiverIdle
<1>3. FramesInv'
  <2> SUFFICES ASSUME NEW m \in net'
               PROVE  \/ /\ m.kind = "slice" /\ m.seq_len = sent'[m.seq + 1]
                         /\ m.first \in Nat /\ m.len \in Nat
                      \/ m.kind = "ack" /\ AckHeld(m.seq, m.last)'
    BY DEF FramesInv
  <2>1. QED
    BY <1>2 DEF RInv, FramesInv
<1>4. QED
  BY <1>2, <1>3 DEF RInv

LEMMA ResendRInv == ASSUME RInv, ResendEarliest PROVE RInv'
<1>1. IInv' /\ UNCHANGED <<outgoing, sent, receiver>>
  BY ResendIInv DEF RInv, ResendEarliest
<1>2. TailsInv' /\ NothingDroppedEarly'
  BY <1>1 DEF RInv, TailsInv, NothingDroppedEarly, Held, receiver
<1>3. ASSUME NEW m \in net'
      PROVE  \/ m \in net
             \/ /\ m.kind = "slice" /\ m.seq_len = sent'[m.seq + 1]
                /\ m.first \in Nat /\ m.len \in Nat
  <2> DEFINE seq == Min(DOMAIN outgoing)
  <2>1. seq \in DOMAIN outgoing /\ seq \in 0..(Len(sent) - 1)
    <3>1. DOMAIN outgoing \subseteq 0..(Len(sent) - 1) /\ Len(sent) \in Nat
      BY Numbers DEF RInv
    <3>2. DOMAIN outgoing \in SUBSET Nat /\ DOMAIN outgoing # {}
      BY <3>1 DEF ResendEarliest
    <3>3. QED
      BY <3>1, <3>2, MinInSet
  <2>2. m \in net \/ \E size \in Sizes : m \in SliceFrames(seq, size)
    BY DEF ResendEarliest
  <2> HIDE DEF seq
  <2>3. sent'[seq + 1] \in Nat /\ IsTail(outgoing'[seq], sent'[seq + 1])
    BY <1>1, <2>1, Numbers DEF RInv, TailsInv
  <2>4. QED
    BY <2>2, <2>3, NewFrames
<1>4. QED
  BY <1>1, <1>2, <1>3, QuietRInv

LEMMA LinkRInv ==
  ASSUME RInv,
         \/ \E m \in net : Lose(m)
         \/ \E side \in Flaky : LinksLost(side) \/ LinkAdded(side)
  PROVE  RInv'
<1>1. IInv' /\ UNCHANGED <<outgoing, sent, receiver>> /\ net' \subseteq net
  BY LinkIInv DEF RInv, Lose, LinksLost, LinkAdded
<1>2. TailsInv' /\ NothingDroppedEarly'
  BY <1>1 DEF RInv, TailsInv, NothingDroppedEarly, Held, receiver
<1>3. QED
  BY <1>1, <1>2, QuietRInv

(* An acknowledgement, however old: the sender drops messages before       *)
(* m.seq, which the receiver has delivered, and the head of message m.seq, *)
(* which the receiver holds.                                               *)
LEMMA AckRInv ==
  ASSUME RInv, NEW m \in net, DeliverAck(m)
  PROVE  RInv'
<1> DEFINE n == Len(sent)
           kept == Without(outgoing, {s \in DOMAIN outgoing : s < m.seq})
           acked == RemoveHead(kept[m.seq], m.last)
           gone == IF m.last = 0 THEN {} ELSE 0..m.last
<1>1. /\ n \in Nat /\ last_ack[1] \in 0..n
      /\ \A seq \in 0..(n - 1) : sent[seq + 1] \in Nat
      /\ DOMAIN outgoing \subseteq 0..(n - 1)
  BY Numbers DEF RInv
<1>2. IInv' /\ UNCHANGED <<sent, receiver, net>> /\ outgoing' = RecvAck(outgoing, m.seq, m.last)
  BY AckIInv DEF RInv, DeliverAck
<1>3. m.seq \in Nat /\ m.last \in Nat /\ AckHeld(m.seq, m.last) /\ m.seq <= last_ack[1]
  <2>1. AckHeld(m.seq, m.last)
    BY DEF RInv, FramesInv, DeliverAck
  <2>2. QED
    BY <2>1 DEF AckHeld
<1>4. /\ DOMAIN kept = {s \in DOMAIN outgoing : s >= m.seq}
      /\ \A s \in DOMAIN kept : kept[s] = outgoing[s]
  BY <1>1, <1>3 DEF Without
<1>5. \A seq : Held(seq)' = Held(seq)
  BY <1>2 DEF Held, receiver
<1>6. \A seq \in 0..(n - 1) : seq < last_ack[1] => 0..(sent[seq + 1] - 1) \subseteq Held(seq)
  BY DEF Held
<1>7. m.seq \in DOMAIN outgoing => gone \cap (0..(sent[m.seq + 1] - 1)) \subseteq Held(m.seq)
  <2>1. CASE m.seq < last_ack[1]
    BY <1>1, <1>6, <2>1
  <2>2. CASE m.seq = last_ack[1]
    BY <1>3, <2>2 DEF AckHeld
  <2>3. QED
    BY <1>1, <1>3, <2>1, <2>2
<1>8. m.seq \in DOMAIN outgoing =>
        /\ IsEmpty(acked) => 0..(sent[m.seq + 1] - 1) \subseteq gone
        /\ ~IsEmpty(acked) => IsTail(acked, sent[m.seq + 1])
        /\ Span(outgoing[m.seq]) \subseteq Span(acked) \cup gone
  <2> SUFFICES ASSUME m.seq \in DOMAIN outgoing
               PROVE  /\ IsEmpty(acked) => 0..(sent[m.seq + 1] - 1) \subseteq gone
                      /\ ~IsEmpty(acked) => IsTail(acked, sent[m.seq + 1])
                      /\ Span(outgoing[m.seq]) \subseteq Span(acked) \cup gone
    BY Zenon
  <2> HIDE DEF kept
  <2>1. IsTail(outgoing[m.seq], sent[m.seq + 1])
    BY DEF RInv, TailsInv
  <2>2. kept[m.seq] = outgoing[m.seq] /\ sent[m.seq + 1] \in Nat
    BY <1>1, <1>3, <1>4
  <2>3. QED
    BY <1>3, <2>1, <2>2, RemoveHeadTail, Zenon
<1> HIDE DEF kept, acked, gone
<1>9. outgoing' = IF m.seq \notin DOMAIN kept THEN kept
                  ELSE IF IsEmpty(acked) THEN Without(kept, {m.seq})
                  ELSE With(kept, m.seq, acked)
  BY <1>2 DEF RecvAck, kept, acked
<1>10. /\ DOMAIN outgoing' \subseteq DOMAIN kept
       /\ \A s \in DOMAIN kept : s # m.seq => s \in DOMAIN outgoing' /\ outgoing'[s] = outgoing[s]
       /\ m.seq \in DOMAIN outgoing' => ~IsEmpty(acked) /\ outgoing'[m.seq] = acked
       /\ m.seq \in DOMAIN kept /\ m.seq \notin DOMAIN outgoing' => IsEmpty(acked)
  <2>1. CASE m.seq \notin DOMAIN kept
    BY <1>4, <1>9, <2>1
  <2>2. CASE m.seq \in DOMAIN kept /\ IsEmpty(acked)
    BY <1>4, <1>9, <2>2 DEF Without
  <2>3. CASE m.seq \in DOMAIN kept /\ ~IsEmpty(acked)
    BY <1>4, <1>9, <2>3 DEF With
  <2>4. QED
    BY <2>1, <2>2, <2>3
<1>11. TailsInv'
  BY <1>2, <1>4, <1>8, <1>10 DEF RInv, TailsInv
<1>12. NothingDroppedEarly'
  <2> SUFFICES ASSUME NEW seq \in 0..(n - 1), NEW x \in 0..(sent[seq + 1] - 1), x \notin Held(seq)
               PROVE  seq \in DOMAIN outgoing' /\ x \in Span(outgoing'[seq])
    BY <1>2, <1>5 DEF NothingDroppedEarly
  <2>1. seq \in DOMAIN outgoing /\ x \in Span(outgoing[seq])
    BY DEF RInv, NothingDroppedEarly
  <2>2. seq \in DOMAIN kept
    <3>1. ~(seq < last_ack[1])
      BY <1>6
    <3>2. QED
      BY <1>1, <1>3, <1>4, <2>1, <3>1
  <2>3. CASE seq # m.seq
    BY <1>10, <2>1, <2>2, <2>3
  <2>4. CASE seq = m.seq
    <3>1. x \notin gone
      BY <1>7, <2>1, <2>4
    <3>2. ~IsEmpty(acked) /\ x \in Span(acked)
      BY <1>8, <2>1, <2>4, <3>1
    <3>3. QED
      BY <1>10, <2>2, <2>4, <3>2
  <2>5. QED
    BY <2>3, <2>4
<1>13. QED
  BY <1>2, <1>11, <1>12, QuietRInv

-----------------------------------------------------------------------------
(* A slice reaches the receiver. *)

(* The buffers after recv, before take_recvd: none has lost anything. *)
Stored(stored) ==
  /\ DOMAIN incoming \subseteq DOMAIN stored
  /\ \A s \in DOMAIN stored : s \in 0..(Len(sent) - 1) /\ IsBuffer(stored[s], sent[s + 1])
  /\ \A s \in DOMAIN incoming : Grows(incoming[s].slices, stored[s].slices)

LEMMA IncomingStored == ASSUME RInv PROVE Stored(incoming)
<1>1. ASSUME NEW s \in DOMAIN incoming
      PROVE  /\ s \in 0..(Len(sent) - 1) /\ IsBuffer(incoming[s], sent[s + 1])
             /\ Grows(incoming[s].slices, incoming[s].slices)
  <2>1. s \in 0..(Len(sent) - 1) /\ IsBuffer(incoming[s], sent[s + 1])
    BY Numbers DEF RInv, BuffersInv
  <2>2. LastHeadIndex(incoming[s].slices) \in Nat
    BY <2>1 DEF IsBuffer, Ranges, LastHeadIndex
  <2>3. QED
    BY <2>1, <2>2 DEF Grows
<1>2. QED
  BY <1>1 DEF Stored

LEMMA StoreStored ==
  ASSUME RInv, NEW m \in net, m.kind = "slice"
  PROVE  LET stored == Store(incoming, m.seq, m.seq_len, m.first, m.len)
         IN  /\ Stored(stored)
             /\ \A s \in DOMAIN incoming : s # m.seq => stored[s] = incoming[s]
             /\ DOMAIN stored = DOMAIN incoming \cup {m.seq}
<1> DEFINE n == sent[m.seq + 1]
           buf == IF m.seq \in DOMAIN incoming THEN incoming[m.seq] ELSE NewBuffer(m.seq_len)
           new == RecvSlice(buf, m.first, m.len)
           stored == Store(incoming, m.seq, m.seq_len, m.first, m.len)
<1>1. /\ m.seq \in 0..(Len(sent) - 1) /\ m.seq_len = n
      /\ m.first \in Nat /\ m.len \in Nat
  BY DEF RInv, IInv, SenderInv, FramesInv
<1>2. n \in Nat
  BY <1>1, Numbers DEF RInv
<1>3. IsBuffer(buf, n)
  <2>1. IsBuffer(NewBuffer(n), n)
    BY DEF NewBuffer, IsBuffer, Ranges, NoSlices
  <2>2. QED
    BY <1>1, <2>1 DEF RInv, BuffersInv
<1> HIDE DEF buf
<1>4. IsBuffer(new, n) /\ Grows(buf.slices, new.slices)
  BY <1>1, <1>2, <1>3, RecvSliceGrows, Zenon
<1> HIDE DEF new
<1>5. stored = With(incoming, m.seq, new)
  BY DEF Store, new, buf
<1> HIDE DEF stored
<1>6. /\ DOMAIN stored = DOMAIN incoming \cup {m.seq} /\ stored[m.seq] = new
      /\ \A s \in DOMAIN incoming : s # m.seq => stored[s] = incoming[s]
  BY <1>5 DEF With
<1>7. m.seq \in DOMAIN incoming => buf = incoming[m.seq]
  BY DEF buf
<1>8. Stored(incoming)
  BY IncomingStored
<1>9. Stored(stored)
  BY <1>1, <1>4, <1>6, <1>7, <1>8 DEF Stored
<1>10. QED
  BY <1>6, <1>9 DEF stored

(* The three ways of recv have this in common. *)
LEMMA SliceStored ==
  ASSUME RInv, NEW m \in net, DeliverSlice(m)
  PROVE  \E stored : /\ Stored(stored) /\ TakeRecvd(stored)
                     /\ last_ack' = AckAt(stored, last_ack'[1])
                     /\ last_ack'[1] \in last_ack[1]..Len(sent)
<1> DEFINE stored == Store(incoming, m.seq, m.seq_len, m.first, m.len)
<1>1. m.kind = "slice" /\ Len(sent) \in Nat /\ last_ack[1] \in 0..Len(sent)
  BY Numbers DEF RInv, DeliverSlice
<1>2. /\ Stored(stored)
      /\ \A s \in DOMAIN incoming : s # m.seq => stored[s] = incoming[s]
      /\ DOMAIN stored = DOMAIN incoming \cup {m.seq}
  BY <1>1, StoreStored, Zenon
<1> HIDE DEF stored
<1>3. Stored(incoming) /\ last_ack = AckAt(incoming, last_ack[1])
  BY IncomingStored DEF RInv, BuffersInv
<1>4. CASE RecvOld(m)
  BY <1>1, <1>3, <1>4 DEF RecvOld
<1>5. CASE RecvAhead(m)
  <2>1. m.seq > last_ack[1] /\ last_ack' = last_ack /\ TakeRecvd(stored)
    BY <1>5 DEF RecvAhead, stored
  <2>2. AckAt(stored, last_ack[1]) = AckAt(incoming, last_ack[1])
    <3>1. m.seq # last_ack[1]
      BY <1>1, <2>1
    <3>2. QED
      BY <1>2, <3>1 DEF AckAt
  <2>3. QED
    BY <1>1, <1>2, <1>3, <2>1, <2>2
<1>6. CASE RecvNext(m)
  <2>1. PICK stop \in m.seq..Len(sent) : last_ack' = AckAt(stored, stop)
    BY <1>6 DEF RecvNext, stored
  <2>2. m.seq = last_ack[1] /\ TakeRecvd(stored)
    BY <1>6 DEF RecvNext, stored
  <2>3. last_ack'[1] = stop
    BY <2>1 DEF AckAt
  <2>4. QED
    BY <1>2, <2>1, <2>2, <2>3
<1>7. QED
  BY <1>4, <1>5, <1>6 DEF DeliverSlice

LEMMA DeliverSliceRInv ==
  ASSUME RInv, NEW m \in net, DeliverSlice(m)
  PROVE  RInv'
<1> DEFINE a == last_ack[1]
           b == last_ack'[1]
<1>1. PICK stored : /\ Stored(stored) /\ TakeRecvd(stored)
                    /\ last_ack' = AckAt(stored, b)
                    /\ b \in a..Len(sent)
  BY SliceStored
<1>2. /\ Len(sent) \in Nat /\ a \in 0..Len(sent) /\ b \in Nat /\ a <= b
      /\ \A seq \in 0..(Len(sent) - 1) : sent[seq + 1] \in Nat
      /\ DOMAIN incoming \subseteq 0..(Len(sent) - 1)
  BY <1>1, Numbers DEF RInv
<1>3. IInv' /\ UNCHANGED <<outgoing, sent>>
  BY DeliverSliceIInv DEF RInv, DeliverSlice
<1>4. /\ DOMAIN incoming' = {s \in DOMAIN stored : ~(s < b)}
      /\ \A s \in DOMAIN incoming' : incoming'[s] = stored[s]
  BY <1>1 DEF TakeRecvd, Without, Taken
<1> HIDE DEF a, b
<1>5. BuffersInv'
  <2>1. \A s \in DOMAIN incoming' : IsBuffer(incoming'[s], sent'[s + 1])
    BY <1>1, <1>3, <1>4 DEF Stored
  <2>2. AckAt(incoming', b) = AckAt(stored, b)
    BY <1>2, <1>4 DEF AckAt
  <2>3. QED
    BY <1>1, <2>1, <2>2 DEF BuffersInv, b
<1>6. ASSUME NEW seq \in Nat PROVE Held(seq) \subseteq Held(seq)'
  <2>1. CASE seq < a
    <3>1. seq < b
      BY <1>2, <2>1
    <3>2. QED
      BY <1>3, <2>1, <3>1 DEF Held, a, b
  <2>2. CASE ~(seq < a) /\ seq \notin DOMAIN incoming
    BY <2>2 DEF Held, a
  <2>3. CASE ~(seq < a) /\ seq \in DOMAIN incoming
    <3>1. Held(seq) = Span(incoming[seq].slices)
      BY <2>3 DEF Held, a
    <3>2. CASE seq < b
      <4>1. Held(seq)' = 0..(sent[seq + 1] - 1)
        BY <1>3, <3>2 DEF Held, b
      <4>2. Ranges(incoming[seq].slices, sent[seq + 1]) /\ sent[seq + 1] \in Nat
        BY <1>2, <2>3 DEF RInv, BuffersInv, IsBuffer
      <4>3. Span(incoming[seq].slices) \subseteq 0..(sent[seq + 1] - 1)
        BY <4>2 DEF Ranges, Span
      <4>4. QED
        BY <3>1, <4>1, <4>3
    <3>3. CASE ~(seq < b)
      <4>1. seq \in DOMAIN stored /\ Span(incoming[seq].slices) \subseteq Span(stored[seq].slices)
        BY <1>1, <2>3 DEF Stored, Grows
      <4>2. Held(seq)' = Span(stored[seq].slices)
        BY <1>4, <3>3, <4>1 DEF Held, b
      <4>3. QED
        BY <3>1, <4>1, <4>2
    <3>4. QED
      BY <3>2, <3>3
  <2>4. QED
    BY <2>1, <2>2, <2>3
<1>7. ASSUME NEW seq, NEW last, AckHeld(seq, last) PROVE AckHeld(seq, last)'
  <2>1. seq \in Nat /\ last \in Nat /\ seq <= a /\ seq <= b
    BY <1>2, <1>7 DEF AckHeld, a
  <2>2. ASSUME seq = b, last # 0 PROVE 0..last \subseteq Held(seq)'
    <3>1. seq = a
      BY <1>2, <2>1, <2>2
    <3>2. 0..last \subseteq Held(seq)
      BY <1>7, <2>2, <3>1 DEF AckHeld, a
    <3>3. QED
      BY <1>6, <2>1, <3>2
  <2>3. QED
    BY <2>1, <2>2 DEF AckHeld, b
<1>8. ASSUME NEW seq, NEW last, seq = last_ack'[1], last = last_ack'[2]
      PROVE  AckHeld(seq, last)'
  <2>1. seq = b /\ last = IF seq \in DOMAIN stored THEN LastHeadIndex(stored[seq].slices) ELSE 0
    BY <1>1, <1>8 DEF AckAt, b
  <2>2. seq \in DOMAIN stored => Ranges(stored[seq].slices, sent[seq + 1])
    BY <1>1 DEF Stored, IsBuffer
  <2>3. seq \in Nat /\ last \in Nat /\ seq <= last_ack'[1]
    BY <1>2, <1>8, <2>1, <2>2 DEF LastHeadIndex, Ranges
  <2>4. ASSUME last # 0 PROVE 0..last \subseteq Held(seq)'
    <3>1. /\ seq \in DOMAIN stored
          /\ 0 \in DOMAIN stored[seq].slices /\ stored[seq].slices[0] = last
      BY <2>1, <2>4 DEF LastHeadIndex
    <3>2. Held(seq)' = Span(stored[seq].slices)
      <4>1. ~(seq < seq)
        BY <2>3
      <4>2. seq \in DOMAIN incoming' /\ incoming'[seq] = stored[seq] /\ ~(seq < last_ack'[1])
        BY <1>4, <1>8, <2>1, <3>1, <4>1
      <4>3. QED
        BY <4>2 DEF Held
    <3>3. QED
      BY <3>1, <3>2 DEF Span
  <2>5. QED
    BY <2>3, <2>4 DEF AckHeld
<1>9. FramesInv'
  <2> SUFFICES ASSUME NEW f \in net'
               PROVE  \/ /\ f.kind = "slice" /\ f.seq_len = sent'[f.seq + 1]
                         /\ f.first \in Nat /\ f.len \in Nat
                      \/ f.kind = "ack" /\ AckHeld(f.seq, f.last)'
    BY DEF FramesInv
  <2>1. CASE f \in net
    BY <1>3, <1>7, <2>1 DEF RInv, FramesInv
  <2>2. CASE f \notin net
    <3>1. f = AckFrame(last_ack')
      BY <2>2 DEF DeliverSlice, RecvOld, RecvAhead, RecvNext, Acknowledge
    <3>2. f.kind = "ack" /\ f.seq = last_ack'[1] /\ f.last = last_ack'[2]
      BY <3>1 DEF AckFrame
    <3>3. QED
      BY <1>8, <3>2
  <2>3. QED
    BY <2>1, <2>2
<1>10. TailsInv'
  BY <1>3 DEF RInv, TailsInv
<1>11. NothingDroppedEarly'
  <2> SUFFICES ASSUME NEW seq \in 0..(Len(sent) - 1)
               PROVE  0..(sent[seq + 1] - 1) \subseteq
                        Held(seq)' \cup (IF seq \in DOMAIN outgoing THEN Span(outgoing[seq]) ELSE {})
    BY <1>3 DEF NothingDroppedEarly
  <2>1. Held(seq) \subseteq Held(seq)'
    BY <1>2, <1>6
  <2>2. QED
    BY <2>1 DEF RInv, NothingDroppedEarly
<1>12. QED
  BY <1>3, <1>5, <1>9, <1>10, <1>11 DEF RInv

LEMMA NextRInv == ASSUME RInv, [Next]_vars PROVE RInv'
<1>1. CASE UNCHANGED vars
  <2>1. IInv'
    BY <1>1, NextIInv DEF RInv
  <2>2. UNCHANGED <<sent, receiver, outgoing, net>>
    BY <1>1 DEF vars, receiver
  <2>3. TailsInv' /\ NothingDroppedEarly'
    BY <2>2 DEF RInv, TailsInv, NothingDroppedEarly, Held, receiver
  <2>4. QED
    BY <2>1, <2>2, <2>3, QuietRInv
<1>2. QED
  BY <1>1, SendRInv, ResendRInv, AckRInv, DeliverSliceRInv, LinkRInv DEF Next

LEMMA RetentionInvariance == Spec => []RInv
<1>1. Init => RInv
  BY InitRInv
<1>2. RInv /\ [Next]_vars => RInv'
  BY NextRInv
<1>3. QED
  BY <1>1, <1>2, PTL DEF Spec

(* No acknowledgement, late, repeated or reordered, makes the sender drop  *)
(* a byte that the receiver does not hold.                                 *)
THEOREM SenderKeepsWhatIsMissing == Spec => []NothingDroppedEarly
<1>1. RInv => NothingDroppedEarly
  BY DEF RInv
<1>2. QED
  BY <1>1, RetentionInvariance, PTL

(* last_ack only moves forward, whatever slices arrive and in what order.  *)
THEOREM AcknowledgementsAdvance == Spec => AckNeverRegresses
<1>1. ASSUME RInv, [Next]_vars
      PROVE  [\/ last_ack'[1] > last_ack[1]
              \/ last_ack'[1] = last_ack[1] /\ last_ack'[2] >= last_ack[2]]_last_ack
  <2>1. CASE \E m \in net : DeliverSlice(m)
    <3>1. PICK stored : /\ Stored(stored)
                        /\ last_ack' = AckAt(stored, last_ack'[1])
                        /\ last_ack'[1] \in last_ack[1]..Len(sent)
      BY <1>1, <2>1, SliceStored
    <3>2. Len(sent) \in Nat /\ last_ack[1] \in 0..Len(sent)
      BY <1>1, Numbers DEF RInv
    <3>3. ASSUME last_ack'[1] = last_ack[1] PROVE last_ack'[2] >= last_ack[2]
      <4> DEFINE a == last_ack[1]
      <4>1. /\ last_ack[2] = IF a \in DOMAIN incoming THEN LastHeadIndex(incoming[a].slices) ELSE 0
            /\ last_ack'[2] = IF a \in DOMAIN stored THEN LastHeadIndex(stored[a].slices) ELSE 0
        BY <1>1, <3>1, <3>3 DEF RInv, BuffersInv, AckAt
      <4> HIDE DEF a
      <4>2. a \in DOMAIN incoming =>
              a \in DOMAIN stored /\ LastHeadIndex(incoming[a].slices) <= LastHeadIndex(stored[a].slices)
        BY <3>1 DEF Stored, Grows
      <4>3. a \in DOMAIN stored => LastHeadIndex(stored[a].slices) \in Nat
        BY <3>1, Zenon DEF Stored, IsBuffer, Ranges, LastHeadIndex
      <4>4. a \in DOMAIN incoming => LastHeadIndex(incoming[a].slices) \in Nat
        BY <1>1, Zenon DEF RInv, BuffersInv, IsBuffer, Ranges, LastHeadIndex
      <4>5. QED
        BY <4>1, <4>2, <4>3, <4>4
    <3>4. QED
      BY <3>1, <3>2, <3>3
  <2>2. CASE ~(\E m \in net : DeliverSlice(m))
    <3>1. last_ack' = last_ack
      BY <1>1, <2>2
      DEF Next, vars, receiver, Send, ResendEarliest, DeliverAck, Lose, LinksLost, LinkAdded
    <3>2. QED
      BY <3>1
  <2>3. QED
    BY <2>1, <2>2
<1>2. QED
  BY <1>1, RetentionInvariance, PTL DEF Spec, AckNeverRegresses

=============================================================================
