---------------------------- MODULE Data_proofs ----------------------------
(***************************************************************************)
(* A message in pieces and a frame in bytes: the reassembly of one message *)
(* (Reassembly), the loops of the slice manager (SliceManagerLoops) and    *)
(* the frames of the protocol (WireFormat).                                *)
(***************************************************************************)
EXTENDS SliceManagerLoops, WireFormat, SliceManager_proofs, SequenceTheorems

-----------------------------------------------------------------------------
(* Reassembly *)

(* A receiver's buffer with its ranges, and a sender's tail. *)
SlicesInv ==
  /\ IsBuffer(buf, Size)
  /\ Separated(buf.slices)
  /\ buf.data \subseteq Span(buf.slices)
  /\ IsTail(outgoing, Size)
  /\ acked \in Nat
  /\ (acked + 1)..(Size - 1) \subseteq Span(outgoing)

LEMMA SlicesInit == Init => SlicesInv
<1> SUFFICES ASSUME Init PROVE SlicesInv
  OBVIOUS
<1> USE SizeAssumption
<1>1. buf = [size |-> Size, slices |-> NoSlices, data |-> {}]
  BY DEF Init, NewBuffer
<1>2. IsBuffer(buf, Size) /\ Separated(buf.slices) /\ buf.data \subseteq Span(buf.slices)
  BY <1>1 DEF IsBuffer, Ranges, Separated, NoSlices
<1>3. outgoing = FromVec(Size) /\ acked = 0
  BY DEF Init
<1>4. IsTail(outgoing, Size) /\ 0..(Size - 1) \subseteq Span(outgoing)
  BY <1>3, FromVecTail
<1>5. (acked + 1)..(Size - 1) \subseteq 0..(Size - 1)
  BY <1>3
<1>6. QED
  BY <1>2, <1>3, <1>4, <1>5 DEF SlicesInv

LEMMA RecvSliceStepInv ==
  ASSUME SlicesInv, NEW first \in Indices, NEW len \in 1..Size, RecvSliceStep(first, len)
  PROVE  SlicesInv'
<1> USE SizeAssumption
<1>1. first \in Nat /\ len \in Nat
  BY DEF Indices
<1>2. buf' = RecvSlice(buf, first, len) /\ UNCHANGED <<outgoing, acked>>
  BY DEF RecvSliceStep
<1>3. IsBuffer(buf', Size)
  BY <1>1, <1>2, RecvSliceGrows DEF SlicesInv
<1>4. Separated(buf.slices)' /\ (buf.data \subseteq Span(buf.slices))'
  BY <1>1, <1>2, RecvSliceRecords DEF SlicesInv
<1>5. QED
  BY <1>2, <1>3, <1>4 DEF SlicesInv

LEMMA AckStepInv ==
  ASSUME SlicesInv, NEW last \in 0..(Size - 2), AckStep(last)
  PROVE  SlicesInv'
<1> USE SizeAssumption
<1> DEFINE new == RemoveHead(outgoing, last)
<1>1. last \in Nat /\ Size - 1 \in 0..(Size - 1) /\ Size - 1 \notin 0..last /\ Size \in Nat
  OBVIOUS
<1>2. outgoing' = new /\ acked' = Max({acked, last}) /\ UNCHANGED buf
  BY DEF AckStep
<1>3. acked \in Nat /\ IsTail(outgoing, Size)
  BY DEF SlicesInv
<1>4. /\ IsEmpty(new) => 0..(Size - 1) \subseteq (IF last = 0 THEN {} ELSE 0..last)
      /\ ~IsEmpty(new) => IsTail(new, Size)
      /\ Span(outgoing) \subseteq Span(new) \cup (IF last = 0 THEN {} ELSE 0..last)
  BY <1>1, <1>3, RemoveHeadTail
<1>5. acked' \in Nat /\ acked <= acked' /\ last <= acked'
  <2> DEFINE bound == acked + last
  <2>1. {acked, last} \in SUBSET (0..bound) /\ bound \in Nat /\ {acked, last} # {}
    BY <1>1, <1>3
  <2>2. Max({acked, last}) \in {acked, last} /\ \A y \in {acked, last} : y <= Max({acked, last})
    BY <2>1, MaxInSet
  <2>3. QED
    BY <1>1, <1>2, <1>3, <2>2
<1> HIDE DEF new
<1>6. IsTail(new, Size)
  BY <1>1, <1>4
<1>7. Span(outgoing) \subseteq Span(new) \cup 0..last
  BY <1>4
<1>8. ASSUME NEW furthest \in Nat, acked <= furthest, last <= furthest,
             NEW x \in (furthest + 1)..(Size - 1)
      PROVE  x \in Span(new)
  <2>1. x \in (acked + 1)..(Size - 1) /\ x \notin 0..last
    BY <1>1, <1>3, <1>8
  <2>2. QED
    BY <1>7, <2>1 DEF SlicesInv
<1>9. QED
  BY <1>2, <1>5, <1>6, <1>8 DEF SlicesInv

LEMMA SlicesInductive == Spec => []SlicesInv
<1>1. SlicesInv /\ [Next]_vars => SlicesInv'
  <2> SUFFICES ASSUME SlicesInv, [Next]_vars PROVE SlicesInv'
    OBVIOUS
  <2>1. CASE Next
    BY <2>1, RecvSliceStepInv, AckStepInv DEF Next
  <2>2. CASE UNCHANGED vars
    <3>1. buf' = buf /\ outgoing' = outgoing /\ acked' = acked
      BY <2>2, Zenon DEF vars
    <3>2. QED
      BY <3>1 DEF SlicesInv
  <2>3. QED
    BY <2>1, <2>2
<1>2. QED
  BY <1>1, SlicesInit, PTL DEF Spec

(* src/slice_manager.rs, add_slice: after any series of slices of a        *)
(* message of any size, in any order and overlapping in any way, the       *)
(* receiver's ranges are not empty, do not overlap and do not touch.       *)
THEOREM RangesStaySeparated == Spec => []SlicesSeparated
<1>1. SlicesInv => SlicesSeparated
  BY DEF SlicesInv, Separated, SlicesSeparated
<1>2. QED
  BY <1>1, SlicesInductive, PTL

(* recv_slice and ack: a byte that was copied into the receiver's buffer   *)
(* is always in one of its ranges, and a byte after the furthest one       *)
(* acknowledged is always in one of the sender's, for a message of any     *)
(* size and acknowledgements in any order.                                 *)
THEOREM NoByteForgotten == Spec => []NothingForgotten
<1>1. SlicesInv => NothingForgotten
  BY DEF SlicesInv, NothingForgotten
<1>2. QED
  BY <1>1, SlicesInductive, PTL

(* add_slice: in every reachable state of the receiver, a slice that no    *)
(* gap follows adds exactly its own bytes to the ranges.                   *)
THEOREM AddSliceIsExact == Spec => []ExactWithoutRightGap
<1>1. SlicesInv => ExactWithoutRightGap
  <2> SUFFICES ASSUME SlicesInv, NEW first \in Indices, NEW last \in first..(Size - 1),
                      \/ \A s \in DOMAIN buf.slices : s <= last + 1
                      \/ \E s \in DOMAIN buf.slices :
                           s \in first..(last + 1) /\ buf.slices[s] > last
               PROVE  Span(AddSlice(buf.slices, first, last)) =
                        Span(buf.slices) \cup (first..last)
    BY DEF ExactWithoutRightGap
  <2>1. first \in Nat /\ last \in Nat /\ first <= last /\ last < Size /\ Size \in Nat
    BY SizeAssumption DEF Indices
  <2>2. Ranges(buf.slices, Size) /\ Separated(buf.slices)
    BY DEF SlicesInv, IsBuffer
  <2>3. QED
    BY <2>1, <2>2, AddSliceExact
<1>2. QED
  BY <1>1, SlicesInductive, PTL

-----------------------------------------------------------------------------
(* The loops of the slice manager *)

(* What add_slice's loop has taken away so far, of the ranges it found. *)
Gone(old, new) == DOMAIN old \ DOMAIN new

(* The ranges right of start are taken away from the left, one by one. *)
TakenInOrder(old, new, start, cur) ==
  /\ DOMAIN new \subseteq DOMAIN old
  /\ new = Without(old, Gone(old, new))
  /\ \A s \in Gone(old, new) : s >= start
  /\ \A s \in Gone(old, new), t \in DOMAIN new : t >= start => s < t
  /\ \A t \in DOMAIN new : t >= start => t >= cur

(* The state of add_slice in its loop, and behind the loop once a range    *)
(* that ends further right has been taken away.                            *)
AddingInside(old, new, start, last, cur) ==
  /\ TakenInOrder(old, new, start, cur)
  /\ \A s \in Gone(old, new) : old[s] <= last

AddingBeyond(old, new, start, last, far) ==
  /\ TakenInOrder(old, new, start, start)
  /\ far > last
  /\ \E m \in Gone(old, new) :
       /\ old[m] = far
       /\ \A s \in Gone(old, new) : s = m \/ (s < m /\ old[s] <= last)

(* One iteration of add_slice takes away the leftmost range. *)
LEMMA WithoutOne ==
  ASSUME NEW n \in Nat, NEW old, Ranges(old, n), Separated(old),
         NEW start \in Nat, NEW cur \in Nat, start <= cur, NEW last,
         NEW new, AddingInside(old, new, start, last, cur),
         NEW m \in DOMAIN new, m >= cur, \A t \in DOMAIN new : t >= cur => m <= t,
         NEW left, left = Without(new, {m})
  PROVE  /\ Gone(old, left) = Gone(old, new) \cup {m}
         /\ TakenInOrder(old, left, start, old[m])
         /\ new[m] = old[m] /\ m \in DOMAIN old
         /\ \A s \in Gone(old, new) : s < m
<1> DEFINE G == Gone(old, new)
<1>1. /\ DOMAIN new \subseteq DOMAIN old /\ new = Without(old, G)
      /\ \A s \in G : s >= start
      /\ \A s \in G, t \in DOMAIN new : t >= start => s < t
      /\ \A t \in DOMAIN new : t >= start => t >= cur
  BY Zenon DEF AddingInside, TakenInOrder
<1>2. \A s \in DOMAIN old : s \in Nat /\ old[s] \in Nat
  BY Zenon DEF Ranges
<1>3. DOMAIN left = DOMAIN new \ {m} /\ \A s \in DOMAIN left : left[s] = new[s]
  BY Zenon DEF Without
<1>4. \A s \in DOMAIN new : new[s] = old[s]
  BY <1>1, Zenon DEF Without
<1>5. Gone(old, left) = G \cup {m}
  BY <1>1, <1>3, Zenon DEF Gone
<1>6. left = Without(old, G \cup {m})
  <2>1. DOMAIN old \ (G \cup {m}) = DOMAIN left
    BY <1>1, <1>3, Zenon DEF Gone
  <2>2. left = [s \in DOMAIN left |-> old[s]]
    BY <1>3, <1>4, Zenon DEF Without
  <2> QED BY <2>1, <2>2, Zenon DEF Without
<1>7. m \in DOMAIN old /\ m \in Nat /\ m >= start
  BY <1>1, <1>2
<1>8. \A s \in G : s < m
  BY <1>1, <1>7
<1>9. \A t \in DOMAIN left : t >= start => m < t /\ t >= old[m]
  <2> SUFFICES ASSUME NEW t \in DOMAIN left, t >= start PROVE m < t /\ t >= old[m]
    OBVIOUS
  <2>1. t \in DOMAIN new /\ t # m /\ t \in DOMAIN old /\ t \in Nat
    BY <1>1, <1>2, <1>3
  <2>2. m <= t
    BY <1>1, <2>1
  <2>3. m < t
    BY <1>7, <2>1, <2>2
  <2>4. old[m] + 1 < t
    BY <1>7, <2>1, <2>3 DEF Separated
  <2> QED BY <1>2, <1>7, <2>1, <2>3, <2>4
<1>10. \A s \in G \cup {m} : s >= start
  BY <1>1, <1>7
<1>11. \A s \in G \cup {m}, t \in DOMAIN left : t >= start => s < t
  BY <1>1, <1>3, <1>9
<1> HIDE DEF G
<1>12. TakenInOrder(old, left, start, old[m])
  BY <1>1, <1>3, <1>5, <1>6, <1>9, <1>10, <1>11, Zenon DEF TakenInOrder
<1>13. new[m] = old[m]
  BY <1>4
<1> QED BY <1>3, <1>5, <1>7, <1>8, <1>12, <1>13, Zenon DEF G

(* What the loop has taken away when it ends is what Swallowed names, and  *)
(* `end` is then the end of the joined range: first when no range to the   *)
(* right is left, then when the last one ran past the slice.               *)
LEMMA SwallowedInside ==
  ASSUME NEW n \in Nat, NEW old, Ranges(old, n), NEW start \in Nat, NEW last \in Nat,
         NEW cur, NEW new, AddingInside(old, new, start, last, cur),
         \A t \in DOMAIN new : ~(t >= start)
  PROVE  Swallowed(old, start, last) = Gone(old, new) /\ NewEnd(old, start, last) = last
<1> DEFINE G == Gone(old, new)
           right == {s \in DOMAIN old : s >= start}
           ends == {last} \cup {old[s] : s \in G}
<1>1. /\ DOMAIN new \subseteq DOMAIN old
      /\ \A s \in G : s >= start /\ old[s] <= last
  BY Zenon DEF AddingInside, TakenInOrder
<1>2. right = G
  BY <1>1 DEF Gone
<1>3. \A s \in DOMAIN old : s \in Nat /\ old[s] \in Nat
  BY Zenon DEF Ranges
<1>4. {s \in right : old[s] > last} = {}
  BY <1>1, <1>2, <1>3 DEF Gone
<1>5. Swallowed(old, start, last) = G
  BY <1>2, <1>4, Zenon DEF Swallowed
<1>6. NewEnd(old, start, last) = Max(ends)
  BY <1>5, Zenon DEF NewEnd
<1>7. last \in ends /\ \A y \in ends : y \in Nat /\ y <= last
  BY <1>1, <1>3 DEF Gone
<1> HIDE DEF ends
<1>8. \A x \in ends : (\A y \in ends : x >= y) => x = last
  BY <1>7
<1>9. \A y \in ends : last >= y
  BY <1>7
<1>10. Max(ends) = last
  BY <1>7, <1>8, <1>9, Zenon DEF Max
<1> QED BY <1>5, <1>6, <1>10

LEMMA SwallowedBeyond ==
  ASSUME NEW n \in Nat, NEW old, Ranges(old, n), NEW start \in Nat, NEW last \in Nat,
         NEW far \in Nat, NEW new, AddingBeyond(old, new, start, last, far)
  PROVE  Swallowed(old, start, last) = Gone(old, new) /\ NewEnd(old, start, last) = far
<1> DEFINE G == Gone(old, new)
           right == {s \in DOMAIN old : s >= start}
           beyond == {s \in right : old[s] > last}
           ends == {last} \cup {old[s] : s \in G}
<1>1. /\ DOMAIN new \subseteq DOMAIN old
      /\ \A s \in G : s >= start
      /\ \A s \in G, t \in DOMAIN new : t >= start => s < t
  BY Zenon DEF AddingBeyond, TakenInOrder
<1>2. PICK m \in G : old[m] = far /\ \A s \in G : s = m \/ (s < m /\ old[s] <= last)
  BY Zenon DEF AddingBeyond
<1>3. far > last
  BY Zenon DEF AddingBeyond
<1>4. \A s \in DOMAIN old : s \in Nat /\ old[s] \in Nat /\ (s \in G \/ s \in DOMAIN new)
  BY Zenon DEF Ranges, Gone
<1>5. G \subseteq DOMAIN old /\ m \in right /\ m \in beyond
  BY <1>1, <1>2, <1>3 DEF Gone
<1>6. \A s \in beyond : m <= s
  <2> SUFFICES ASSUME NEW s \in beyond PROVE m <= s
    OBVIOUS
  <2>1. s \in DOMAIN old /\ s >= start /\ old[s] > last /\ m \in DOMAIN old
    BY <1>5
  <2>2. CASE s \in G
    BY <1>2, <1>4, <2>1, <2>2
  <2>3. CASE s \in DOMAIN new
    BY <1>1, <1>4, <2>1, <2>3
  <2> QED BY <1>4, <2>1, <2>2, <2>3
<1>7. Min(beyond) = m
  <2>1. \A x \in beyond : (\A y \in beyond : x <= y) => x = m
    <3>1. \A x \in beyond : x \in Nat /\ m \in Nat
      BY <1>4, <1>5
    <3> QED BY <1>5, <1>6, <3>1
  <2> HIDE DEF beyond
  <2> QED BY <1>5, <1>6, <2>1, Zenon DEF Min
<1>8. {s \in right : s <= m} = G
  <2>1. ASSUME NEW s \in right, s <= m PROVE s \in G
    BY <1>1, <1>2, <1>4, <1>5, <2>1
  <2>2. ASSUME NEW s \in G PROVE s \in right /\ s <= m
    BY <1>1, <1>2, <1>4, <1>5
  <2> HIDE DEF right, G
  <2> QED BY <2>1, <2>2
<1>9. Swallowed(old, start, last) = G
  BY <1>5, <1>7, <1>8, Zenon DEF Swallowed
<1>10. NewEnd(old, start, last) = Max(ends)
  BY <1>9, Zenon DEF NewEnd
<1>11. far \in ends /\ \A y \in ends : y \in Nat /\ y <= far
  BY <1>2, <1>3, <1>4, <1>5
<1> HIDE DEF ends
<1>12. \A x \in ends : (\A y \in ends : x >= y) => x = far
  BY <1>11
<1>13. \A y \in ends : far >= y
  BY <1>11
<1>14. Max(ends) = far
  BY <1>11, <1>12, <1>13, Zenon DEF Max
<1> QED BY <1>9, <1>10, <1>14

(* The state of a call of each of the three. *)
Adding ==
  LET old == call.slices IN
  /\ pc = "loop" => /\ end = call.end /\ cursor \in Nat /\ call.start <= cursor
                    /\ AddingInside(old, slices, call.start, call.end, cursor)
  /\ pc = "left" => end \in Nat /\ AddingBeyond(old, slices, call.start, call.end, end)
  /\ pc = "done" => slices = AddSlice(old, call.start, call.end)

Removing ==
  /\ pc = "loop" => /\ end = call.end /\ end # 0
                    /\ \/ cursor = 0 /\ slices = call.slices
                       \/ slices = NoSlices /\ Size - 1 <= end
  /\ pc # "left"
  /\ pc = "done" => slices = RemoveHead(call.slices, call.end)

(* The pieces of make_slices up to the cursor. *)
Pieces(start, last, size, cur) ==
  {<<c, Min({size, last + 1 - c})>> :
     c \in {i \in start..last : (i - start) % size = 0 /\ i < cur}}

Making ==
  /\ pc = "loop" => /\ end = Size - 1 /\ call.size > 0
                    /\ cursor \in call.start..end /\ (cursor - call.start) % call.size = 0
                    /\ ret = Pieces(call.start, Size - 1, call.size, cursor)
  /\ pc # "left"
  /\ pc = "done" => ret = GetSlices(call.slices, call.size)

(* The inductive invariant. *)
LoopInv ==
  /\ call \in Calls /\ call.start <= call.end
  /\ call.fn = "make" => call.start \in DOMAIN call.slices
  /\ pc \in {"loop", "left", "done"}
  /\ call.fn = "add" => Adding
  /\ call.fn = "remove" => Removing
  /\ call.fn = "make" => Making

(* What the arguments of a call are. *)
LEMMA CallTypes ==
  ASSUME NEW c \in Calls
  PROVE  /\ c.fn \in {"add", "remove", "make"}
         /\ c.start \in Nat /\ c.end \in 0..(Size - 1)
         /\ c.fn = "add" => Ranges(c.slices, Size) /\ Separated(c.slices)
         /\ c.fn # "add" => \E a \in 0..(Size - 1) : c.slices = [s \in {a} |-> Size - 1]
         /\ c.fn = "remove" => c.start = 0
         /\ c.fn = "make" => c.start \in 0..(Size - 1) /\ c.end = Size - 1 /\ c.size \in Nat
<1> USE SizeAssumption
<1>0. ASSUME NEW u \in Unsent PROVE \E a \in 0..(Size - 1) : u = [s \in {a} |-> Size - 1]
  BY Zenon DEF Unsent, Indices
<1>1. CASE c \in [fn : {"add"}, slices : Received, start : Indices, end : Indices, size : {0}]
  <2>1. c.fn = "add" /\ c.slices \in Received /\ c.start \in Indices /\ c.end \in Indices
    BY <1>1
  <2>2. PICK starts \in SUBSET Indices : c.slices \in [starts -> Indices]
    BY <2>1 DEF Received
  <2>3. Separated(c.slices)
    BY <2>1, Zenon DEF Received, Separated
  <2>4. Ranges(c.slices, Size)
    <3> DEFINE r == c.slices
    <3>1. r = [s \in starts |-> r[s]] /\ DOMAIN r = starts
      BY <2>2, Zenon
    <3>2. \A s \in starts : r[s] \in Indices
      BY <2>2, Zenon
    <3> HIDE DEF r
    <3>3. r = [s \in DOMAIN r |-> r[s]]
      BY <3>1, Zenon
    <3>4. \A s \in DOMAIN r : s \in Nat /\ r[s] \in Nat /\ r[s] < Size
      BY <3>1, <3>2 DEF Indices
    <3> QED BY <3>3, <3>4, Zenon DEF Ranges, r
  <2>5. c.start \in Nat /\ c.end \in 0..(Size - 1)
    BY <2>1 DEF Indices
  <2> QED BY <2>1, <2>3, <2>4, <2>5
<1>2. CASE c \in [fn : {"remove"}, slices : Unsent, start : {0}, end : Indices, size : {0}]
  <2>1. c.fn = "remove" /\ c.slices \in Unsent /\ c.start = 0 /\ c.end \in Indices
    BY <1>2
  <2>2. c.start \in Nat /\ c.end \in 0..(Size - 1)
    BY <2>1 DEF Indices
  <2> QED BY <1>0, <2>1, <2>2
<1>3. CASE c \in [fn : {"make"}, slices : Unsent, start : Indices, end : {Size - 1}, size : 0..Size]
  <2>1. /\ c.fn = "make" /\ c.slices \in Unsent /\ c.start \in Indices /\ c.end = Size - 1
        /\ c.size \in 0..Size
    BY <1>3
  <2>2. /\ c.start \in Nat /\ c.start \in 0..(Size - 1) /\ c.end \in 0..(Size - 1)
        /\ c.size \in Nat
    BY <2>1 DEF Indices
  <2> QED BY <1>0, <2>1, <2>2
<1> QED BY <1>1, <1>2, <1>3 DEF Calls

(* The multiples of b are b apart. *)
LEMMA NextPiece ==
  ASSUME NEW a \in Nat, NEW b \in Nat, b > 0
  PROVE  /\ 0 % b = 0
         /\ a % b = 0 => (a + b) % b = 0
         /\ \A c \in Nat : a % b = 0 /\ c % b = 0 /\ a <= c /\ c < a + b => c = a
<1>1. \A c \in Nat : c \div b \in Nat /\ c % b \in 0..(b - 1) /\ c = b * (c \div b) + (c % b)
  OBVIOUS
<1>2. 0 % b = 0
  BY <1>1
<1>3. ASSUME NEW p \in Nat, NEW q \in Nat, b * p <= b * q, b * q < b * p + b PROVE p = q
  <2>1. ASSUME q >= p + 1 PROVE FALSE
    <3>1. b * q >= b * (p + 1) /\ b * (p + 1) = b * p + b
      BY <2>1
    <3> QED BY <1>3, <3>1
  <2>2. ASSUME p >= q + 1 PROVE FALSE
    <3>1. b * p >= b * (q + 1) /\ b * (q + 1) = b * q + b
      BY <2>2
    <3> QED BY <1>3, <3>1
  <2> QED BY <2>1, <2>2
<1>4. ASSUME a % b = 0, NEW c \in Nat, c % b = 0, a <= c, c < a + b PROVE c = a
  <2>1. a \div b \in Nat /\ c \div b \in Nat /\ a = b * (a \div b) /\ c = b * (c \div b)
    BY <1>1, <1>4
  <2>2. a \div b = c \div b
    BY <1>3, <1>4, <2>1
  <2> QED BY <2>1, <2>2, Zenon
<1>5. ASSUME a % b = 0 PROVE (a + b) % b = 0
  <2> DEFINE p == a \div b
             q == (a + b) \div b
             r == (a + b) % b
  <2>1. p \in Nat /\ a = b * p /\ q \in Nat /\ r \in 0..(b - 1) /\ a + b = b * q + r
    BY <1>1, <1>5
  <2> HIDE DEF p, q, r
  <2>2. b * (p + 1) = a + b
    BY <2>1
  <2>3. b * q <= b * (p + 1) /\ b * (p + 1) < b * q + b
    BY <2>1, <2>2
  <2>4. q = p + 1
    BY <1>3, <2>1, <2>3
  <2>5. r = 0
    BY <2>1, <2>2, <2>4
  <2> QED BY <2>5 DEF r
<1> QED BY <1>2, <1>4, <1>5

AndPiece(start, last, size, cur) ==
  Pieces(start, last, size, cur) \cup {<<cur, Min({size, last + 1 - cur})>>}

LEMMA OnePieceMore ==
  ASSUME NEW start \in Nat, NEW last \in Nat, NEW size \in Nat, size > 0,
         NEW cur \in start..last, (cur - start) % size = 0
  PROVE  Pieces(start, last, size, cur + size) = AndPiece(start, last, size, cur)
<1> DEFINE upto(k) == {i \in start..last : (i - start) % size = 0 /\ i < k}
           piece(c) == <<c, Min({size, last + 1 - c})>>
<1>1. \A i \in start..last : i >= cur /\ i < cur + size /\ (i - start) % size = 0 => i = cur
  <2> SUFFICES ASSUME NEW i \in start..last, i >= cur, i < cur + size, (i - start) % size = 0
               PROVE  i = cur
    OBVIOUS
  <2> DEFINE a == cur - start
             c == i - start
  <2>1. a \in Nat /\ c \in Nat /\ a <= c /\ c < a + size /\ a % size = 0 /\ c % size = 0
    OBVIOUS
  <2>2. c = a
    <3> HIDE DEF a, c
    <3> QED BY <2>1, NextPiece
  <2> QED BY <2>2
<1>2. upto(cur + size) = upto(cur) \cup {cur}
  <2>1. \A i \in start..last : i < cur + size <=> i < cur \/ (i >= cur /\ i < cur + size)
    OBVIOUS
  <2>2. cur < cur + size
    OBVIOUS
  <2>3. \A i \in start..last : (i >= cur /\ i < cur + size /\ (i - start) % size = 0) <=> i = cur
    BY <1>1, <2>2
  <2> QED BY <2>1, <2>3, Zenon
<1>3. Pieces(start, last, size, cur + size) = {piece(c) : c \in upto(cur + size)}
  BY Zenon DEF Pieces
<1>4. Pieces(start, last, size, cur) = {piece(c) : c \in upto(cur)}
  BY Zenon DEF Pieces
<1> HIDE DEF upto
<1>5. {piece(c) : c \in upto(cur) \cup {cur}} = {piece(c) : c \in upto(cur)} \cup {piece(cur)}
  <2> HIDE DEF piece
  <2> QED OBVIOUS
<1> QED BY <1>2, <1>3, <1>4, <1>5, Zenon DEF AndPiece

LEMMA InitLoopInv == InitCall => LoopInv
<1> SUFFICES ASSUME InitCall PROVE LoopInv
  OBVIOUS
<1> USE SizeAssumption
<1>1. /\ call \in Calls /\ call.start <= call.end
      /\ call.fn = "make" => call.start \in DOMAIN call.slices
      /\ slices = call.slices /\ cursor = call.start /\ end = call.end /\ ret = {}
      /\ pc = IF \/ call.fn = "remove" /\ call.start = call.end
                 \/ call.fn = "make" /\ call.size = 0
              THEN "done" ELSE "loop"
  BY DEF InitCall
<1>2. pc \in {"loop", "done"}
  BY <1>1
<1>3. CASE call.fn = "add"
  <2>1. pc = "loop" /\ call.start \in Nat
    BY <1>1, <1>3, CallTypes
  <2>2. call.slices = [s \in DOMAIN call.slices |-> call.slices[s]]
    BY <1>1, <1>3, CallTypes, Zenon DEF Ranges
  <2>3. Gone(call.slices, call.slices) = {} /\ Without(call.slices, {}) = call.slices
    BY <2>2 DEF Gone, Without
  <2>4. AddingInside(call.slices, slices, call.start, call.end, cursor)
    BY <1>1, <2>3 DEF AddingInside, TakenInOrder
  <2> QED BY <1>1, <1>3, <2>1, <2>4 DEF LoopInv, Adding
<1>4. CASE call.fn = "remove"
  <2>1. call.start = 0
    BY <1>1, <1>4, CallTypes
  <2>2. pc = "done" => slices = RemoveHead(call.slices, call.end)
    BY <1>1, <1>4, <2>1 DEF RemoveHead
  <2>3. pc = "loop" => end # 0
    BY <1>1, <1>4, <2>1
  <2> QED BY <1>1, <1>2, <1>4, <2>1, <2>2, <2>3 DEF LoopInv, Removing
<1>5. CASE call.fn = "make"
  <2>1. call.start \in 0..(Size - 1) /\ call.size \in Nat /\ call.end = Size - 1
    BY <1>1, <1>5, CallTypes
  <2>2. pc = "done" => ret = GetSlices(call.slices, call.size)
    BY <1>1, <1>5 DEF GetSlices
  <2>3. pc = "loop" => call.size > 0
    BY <1>1, <1>5, <2>1
  <2>4. pc = "loop" => (cursor - call.start) % call.size = 0
    <3>1. cursor - call.start = 0
      BY <1>1, <2>1
    <3> QED BY <2>1, <2>3, <3>1, NextPiece
  <2>5. Pieces(call.start, Size - 1, call.size, cursor) = {}
    <3>1. \A i \in call.start..(Size - 1) : ~(i < cursor)
      BY <1>1, <2>1
    <3> QED BY <3>1 DEF Pieces
  <2> QED BY <1>1, <1>2, <1>5, <2>1, <2>2, <2>3, <2>4, <2>5 DEF LoopInv, Making
<1> QED BY <1>1, <1>3, <1>4, <1>5, CallTypes

LEMMA AddIterationInv == LoopInv /\ AddIteration => LoopInv'
<1> SUFFICES ASSUME LoopInv, AddIteration PROVE LoopInv'
  OBVIOUS
<1> USE SizeAssumption
<1> DEFINE old == call.slices
           m == next_start
           left == Without(slices, {m})
<1>1. pc = "loop" /\ call.fn = "add" /\ Right # {}
  BY Zenon DEF AddIteration, In
<1>2. /\ cursor' = next_end /\ slices' = left /\ UNCHANGED <<call, ret>>
      /\ IF next_end <= end THEN UNCHANGED <<end, pc>> ELSE end' = next_end /\ pc' = "left"
  BY Zenon DEF AddIteration
<1>3. /\ call \in Calls /\ call.start <= call.end
      /\ end = call.end /\ cursor \in Nat /\ call.start <= cursor
      /\ AddingInside(old, slices, call.start, call.end, cursor)
  BY <1>1, Zenon DEF LoopInv, Adding
<1>4. /\ Ranges(old, Size) /\ Separated(old) /\ call.start \in Nat /\ call.end \in Nat
  BY <1>1, <1>3, CallTypes
<1>5. DOMAIN slices \subseteq DOMAIN old /\ \A s \in DOMAIN old : s \in Nat /\ old[s] \in Nat
  BY <1>3, <1>4, Zenon DEF AddingInside, TakenInOrder, Ranges
<1>6. m \in Right /\ \A t \in Right : m <= t
  <2>1. Right \in SUBSET Nat
    BY <1>5 DEF Right
  <2> QED BY <1>1, <2>1, MinInSet, Zenon DEF next_start
<1>7. m \in DOMAIN slices /\ m >= cursor /\ \A t \in DOMAIN slices : t >= cursor => m <= t
  BY <1>6, Zenon DEF Right
<1> HIDE DEF m
<1>8. /\ Gone(old, left) = Gone(old, slices) \cup {m}
      /\ TakenInOrder(old, left, call.start, old[m])
      /\ slices[m] = old[m] /\ m \in DOMAIN old
      /\ \A s \in Gone(old, slices) : s < m
  <2>1. Size \in Nat /\ left = Without(slices, {m})
    OBVIOUS
  <2> HIDE DEF old, left
  <2> QED BY <1>3, <1>4, <1>7, <2>1, WithoutOne
<1>9. next_end = old[m] /\ m \in Nat /\ old[m] \in Nat /\ m <= old[m]
  BY <1>4, <1>5, <1>8 DEF next_end, m, Separated
<1>10. \A s \in Gone(old, slices) : old[s] <= call.end
  BY <1>3, Zenon DEF AddingInside
<1> HIDE DEF left
<1>11. CASE old[m] <= call.end
  <2>1. end' = end /\ pc' = pc /\ cursor' = old[m]
    BY <1>2, <1>3, <1>9, <1>11
  <2>2. \A s \in Gone(old, left) : old[s] <= call.end
    BY <1>8, <1>10, <1>11
  <2>3. AddingInside(old, left, call.start, call.end, old[m])
    BY <1>8, <2>2, Zenon DEF AddingInside
  <2>4. call.start <= old[m]
    BY <1>3, <1>4, <1>7, <1>9
  <2>5. Adding'
    BY <1>1, <1>2, <1>3, <1>9, <2>1, <2>3, <2>4 DEF Adding
  <2> QED BY <1>1, <1>2, <1>3, <2>1, <2>5 DEF LoopInv
<1>12. CASE ~(old[m] <= call.end)
  <2>1. end' = old[m] /\ pc' = "left"
    BY <1>2, <1>3, <1>9, <1>12
  <2>2. old[m] > call.end
    BY <1>4, <1>9, <1>12
  <2>3. \A t \in DOMAIN left : t >= call.start => t >= call.start
    OBVIOUS
  <2>4. TakenInOrder(old, left, call.start, call.start)
    BY <1>8, <2>3, Zenon DEF TakenInOrder
  <2>5. m \in Gone(old, left) /\ \A s \in Gone(old, left) : s = m \/ (s < m /\ old[s] <= call.end)
    BY <1>8, <1>10, Zenon
  <2>6. AddingBeyond(old, left, call.start, call.end, old[m])
    BY <2>2, <2>4, <2>5, Zenon DEF AddingBeyond
  <2>7. Adding'
    BY <1>1, <1>2, <1>9, <2>1, <2>6 DEF Adding
  <2> QED BY <1>1, <1>2, <1>3, <2>1, <2>7 DEF LoopInv
<1> QED BY <1>11, <1>12

LEMMA AddLeftInv == LoopInv /\ AddLeft => LoopInv'
<1> SUFFICES ASSUME LoopInv, AddLeft PROVE LoopInv'
  OBVIOUS
<1> USE SizeAssumption
<1> DEFINE old == call.slices
           G == Gone(old, slices)
<1>1. /\ pc' = "done" /\ UNCHANGED <<call, cursor, end, ret>>
      /\ pc = "left" \/ (pc = "loop" /\ call.fn = "add" /\ Right = {})
  BY Zenon DEF AddLeft, In
<1>2. call.fn = "add"
  <2>1. call \in Calls /\ call.fn \in {"add", "remove", "make"}
    BY CallTypes DEF LoopInv
  <2> QED BY <1>1, <2>1 DEF LoopInv, Removing, Making
<1>3. call \in Calls /\ call.start <= call.end /\ Adding
  BY <1>2 DEF LoopInv
<1>4. Ranges(old, Size) /\ Separated(old) /\ call.start \in Nat /\ call.end \in Nat
  BY <1>2, <1>3, CallTypes
<1>5. Swallowed(old, call.start, call.end) = G /\ NewEnd(old, call.start, call.end) = end
  <2>1. CASE pc = "left"
    <3>1. end \in Nat /\ AddingBeyond(old, slices, call.start, call.end, end)
      BY <1>3, <2>1 DEF Adding
    <3> HIDE DEF old
    <3> QED BY <1>4, <3>1, SwallowedBeyond
  <2>2. CASE pc = "loop" /\ Right = {}
    <3>1. /\ end = call.end /\ cursor \in Nat
          /\ AddingInside(old, slices, call.start, call.end, cursor)
      BY <1>3, <2>2 DEF Adding
    <3>2. \A t \in DOMAIN slices : t >= call.start => t >= cursor
      BY <3>1, Zenon DEF AddingInside, TakenInOrder
    <3>3. \A t \in DOMAIN slices : ~(t >= call.start)
      BY <2>2, <3>2, Zenon DEF Right
    <3>4. Size \in Nat
      OBVIOUS
    <3> HIDE DEF old
    <3> QED BY <1>4, <3>1, <3>3, <3>4, SwallowedInside
  <2> QED BY <1>1, <2>1, <2>2
<1>6. slices = Without(old, G)
  BY <1>1, <1>3, Zenon DEF Adding, AddingInside, AddingBeyond, TakenInOrder
<1>7. slices' = AddSlice(old, call.start, call.end)
  <2>1. Max({call.end} \cup {old[s] : s \in G}) = end
    BY <1>5, Zenon DEF NewEnd
  <2> DEFINE before == {s \in DOMAIN slices : s < call.start}
             prev == Max(before)
             result == IF before # {} /\ slices[prev] >= end THEN slices
                       ELSE IF before # {} /\ slices[prev] >= call.start - 1
                            THEN [slices EXCEPT ![prev] = end]
                            ELSE With(slices, call.start, end)
  <2>2. slices' = result
    BY Zenon DEF AddLeft
  <2>3. AddSlice(old, call.start, call.end) = result
    <3> DEFINE gone == Swallowed(old, call.start, call.end)
               newEnd == Max({call.end} \cup {old[s] : s \in gone})
               rest == Without(old, gone)
               lower == {s \in DOMAIN rest : s < call.start}
    <3>1. AddSlice(old, call.start, call.end) =
            IF lower # {} /\ rest[Max(lower)] >= newEnd THEN rest
            ELSE IF lower # {} /\ rest[Max(lower)] >= call.start - 1
                 THEN [rest EXCEPT ![Max(lower)] = newEnd]
                 ELSE With(rest, call.start, newEnd)
      BY Zenon DEF AddSlice
    <3>2. gone = G /\ rest = slices /\ newEnd = end /\ lower = before
      BY <1>5, <1>6, <2>1, Zenon
    <3> HIDE DEF gone, newEnd, rest, lower, before
    <3> QED BY <3>1, <3>2, Zenon
  <2> QED BY <2>2, <2>3, Zenon
<1>8. Adding'
  BY <1>1, <1>7 DEF Adding
<1> QED BY <1>1, <1>2, <1>3, <1>8 DEF LoopInv

LEMMA RemoveInv == LoopInv /\ (RemoveIteration \/ RemoveReturn) => LoopInv'
<1> SUFFICES ASSUME LoopInv, RemoveIteration \/ RemoveReturn PROVE LoopInv'
  OBVIOUS
<1> USE SizeAssumption
<1> DEFINE old == call.slices
<1>1. pc = "loop" /\ call.fn = "remove" /\ UNCHANGED <<call, end, ret>>
  BY Zenon DEF RemoveIteration, RemoveReturn, In
<1>2. /\ call \in Calls /\ call.start <= call.end /\ end = call.end /\ end # 0
      /\ \/ cursor = 0 /\ slices = old
         \/ slices = NoSlices /\ Size - 1 <= end
  BY <1>1 DEF LoopInv, Removing
<1>3. end \in 0..(Size - 1) /\ \E a \in 0..(Size - 1) : old = [s \in {a} |-> Size - 1]
  BY <1>1, <1>2, CallTypes
<1>4. PICK a \in 0..(Size - 1) : old = [s \in {a} |-> Size - 1]
  BY <1>3
<1>5. a \in Nat /\ DOMAIN old = {a} /\ old[a] = Size - 1
  BY <1>4
<1> DEFINE beyond == {s \in DOMAIN old : old[s] > end}
<1>6. RemoveHead(old, end) =
        IF beyond = {} THEN NoSlices
        ELSE With(Without(old, {s \in DOMAIN old : s <= Min(beyond)}), end + 1, old[Min(beyond)])
  BY <1>2, Zenon DEF RemoveHead
<1>7. Min({a}) = a
  BY <1>5, MinOfPair
<1>8. CASE slices = NoSlices /\ Size - 1 <= end
  <2>1. Right = {}
    BY <1>8 DEF Right, NoSlices
  <2>2. pc' = "done" /\ slices' = slices
    BY <2>1 DEF RemoveIteration, RemoveReturn
  <2>3. beyond = {}
    BY <1>3, <1>5, <1>8
  <2>4. slices' = RemoveHead(old, end)
    BY <1>6, <1>8, <2>2, <2>3, Zenon
  <2> QED BY <1>1, <1>2, <2>2, <2>4 DEF LoopInv, Removing
<1>9. CASE cursor = 0 /\ slices = old
  <2>1. Right = {a} /\ next_start = a /\ next_end = Size - 1
    BY <1>5, <1>7, <1>9 DEF Right, next_start, next_end
  <2>2. /\ IF Size - 1 <= end
            THEN slices' = Without(old, {a}) /\ UNCHANGED pc
            ELSE slices' = With(Without(old, {a}), end + 1, Size - 1) /\ pc' = "done"
    BY <1>9, <2>1, Zenon DEF RemoveIteration, RemoveReturn
  <2>3. CASE Size - 1 <= end
    <3>1. Without(old, {a}) = NoSlices
      BY <1>5 DEF Without, NoSlices
    <3> QED BY <1>1, <1>2, <2>2, <2>3, <3>1 DEF LoopInv, Removing
  <2>4. CASE ~(Size - 1 <= end)
    <3>1. beyond = {a}
      BY <1>3, <1>5, <2>4
    <3>2. {s \in DOMAIN old : s <= a} = {a}
      BY <1>5
    <3>3. RemoveHead(old, end) = With(Without(old, {a}), end + 1, Size - 1)
      BY <1>5, <1>6, <1>7, <3>1, <3>2, Zenon
    <3> QED BY <1>1, <1>2, <2>2, <2>4, <3>3 DEF LoopInv, Removing
  <2> QED BY <2>3, <2>4
<1> QED BY <1>2, <1>8, <1>9

LEMMA MakeIterationInv == LoopInv /\ MakeIteration => LoopInv'
<1> SUFFICES ASSUME LoopInv, MakeIteration PROVE LoopInv'
  OBVIOUS
<1> USE SizeAssumption
<1> DEFINE size == call.size
           start == call.start
           slice_end == Min({Min({cursor + size - 1, end}), Size - 1})
<1>1. pc = "loop" /\ call.fn = "make" /\ UNCHANGED <<call, slices, end>>
  BY Zenon DEF MakeIteration, In
<1>2. /\ call \in Calls /\ start <= call.end /\ start \in DOMAIN call.slices
      /\ end = Size - 1 /\ size > 0 /\ cursor \in start..end /\ (cursor - start) % size = 0
      /\ ret = Pieces(start, Size - 1, size, cursor)
  BY <1>1 DEF LoopInv, Making
<1>3. start \in 0..(Size - 1) /\ size \in Nat /\ cursor \in Nat /\ call.slices = [s \in {start} |-> Size - 1]
  <2>1. start \in 0..(Size - 1) /\ size \in Nat
    BY <1>1, <1>2, CallTypes
  <2>2. cursor \in Nat
    BY <1>2, <2>1
  <2>3. PICK a \in 0..(Size - 1) : call.slices = [s \in {a} |-> Size - 1]
    BY <1>1, <1>2, CallTypes
  <2>4. a = start
    BY <1>2, <2>3
  <2> QED BY <2>1, <2>2, <2>3, <2>4
<1>4. slice_end = IF cursor + size - 1 <= end THEN cursor + size - 1 ELSE end
  <2>1. Min({cursor + size - 1, end}) = IF cursor + size - 1 <= end THEN cursor + size - 1 ELSE end
    BY <1>2, <1>3, MinOfPair
  <2> DEFINE inner == Min({cursor + size - 1, end})
  <2>2. inner \in Int /\ Size - 1 \in Int /\ inner <= Size - 1
    BY <1>2, <1>3, <2>1
  <2>3. Min({inner, Size - 1}) = inner
    <3> HIDE DEF inner
    <3> QED BY <2>2, MinOfPair
  <2> QED BY <2>1, <2>3
<1>5. slice_end >= cursor /\ slice_end + 1 - cursor = Min({size, Size - cursor})
  <2>1. Min({size, Size - cursor}) = IF size <= Size - cursor THEN size ELSE Size - cursor
    BY <1>2, <1>3, MinOfPair
  <2> QED BY <1>2, <1>3, <1>4, <2>1
<1>6. /\ ret' = ret \cup {<<cursor, slice_end + 1 - cursor>>}
      /\ cursor' = cursor + size
      /\ pc' = IF cursor' > end THEN "done" ELSE pc
  <2>1. ~(slice_end < cursor)
    BY <1>2, <1>3, <1>4
  <2> QED BY <2>1, Zenon DEF MakeIteration
<1> HIDE DEF slice_end
<1>7. ret' = Pieces(start, Size - 1, size, cursor + size)
  <2> DEFINE last == Size - 1
  <2>1. /\ start \in Nat /\ last \in Nat /\ size \in Nat /\ size > 0
        /\ cursor \in start..last /\ (cursor - start) % size = 0
    BY <1>2, <1>3
  <2>2. last + 1 - cursor = Size - cursor
    BY <1>3
  <2> HIDE DEF size, start, last
  <2>3. Pieces(start, last, size, cursor + size) = AndPiece(start, last, size, cursor)
    BY <2>1, OnePieceMore, Zenon
  <2> QED BY <1>2, <1>5, <1>6, <2>2, <2>3, Zenon DEF last, AndPiece
<1>8. ((cursor + size) - start) % size = 0
  <2>1. cursor - start \in Nat /\ (cursor + size) - start = (cursor - start) + size
    <3>1. \A a, b, c \in Nat : b \in a..end => b - a \in Nat /\ (b + c) - a = (b - a) + c
      BY <1>2
    <3>2. start \in Nat
      BY <1>3
    <3> HIDE DEF size, start
    <3> QED BY <1>2, <1>3, <3>1, <3>2, Zenon
  <2> HIDE DEF size, start
  <2> QED BY <1>2, <1>3, <2>1, NextPiece
<1>9. CASE cursor' > end
  <2>1. Pieces(start, Size - 1, size, cursor + size) = MakeSlices(start, Size - 1, size)
    <3>1. \A i \in start..(Size - 1) : i < cursor + size
      BY <1>2, <1>3, <1>6, <1>9
    <3>2. {i \in start..(Size - 1) : (i - start) % size = 0 /\ i < cursor + size}
           = {i \in start..(Size - 1) : (i - start) % size = 0}
      BY <3>1, Zenon
    <3> QED BY <3>2, Zenon DEF Pieces, MakeSlices
  <2>2. GetSlices(call.slices, size) = MakeSlices(start, Size - 1, size)
    <3>1. DOMAIN call.slices = {start} /\ call.slices[start] = Size - 1 /\ size # 0
      BY <1>2, <1>3
    <3> HIDE DEF size, start
    <3>2. GetSlices(call.slices, size) = UNION {MakeSlices(s, call.slices[s], size) : s \in {start}}
      BY <3>1, Zenon DEF GetSlices
    <3> QED BY <3>1, <3>2
  <2>3. Making'
    BY <1>1, <1>6, <1>7, <1>9, <2>1, <2>2 DEF Making
  <2> QED BY <1>1, <1>2, <1>6, <1>9, <2>3 DEF LoopInv
<1>10. CASE ~(cursor' > end)
  <2>1. pc' = "loop" /\ cursor' \in start..end
    BY <1>1, <1>2, <1>3, <1>6, <1>10
  <2>2. call' = call /\ end' = end
    BY <1>1
  <2> DEFINE reached == cursor + size
  <2>3. reached \in start..end /\ cursor' = reached
    BY <1>6, <2>1
  <2>4. (reached - start) % size = 0 /\ ret' = Pieces(start, Size - 1, size, reached)
    BY <1>7, <1>8
  <2> HIDE DEF reached
  <2>5. Making'
    BY <1>2, <2>1, <2>2, <2>3, <2>4 DEF Making
  <2> QED BY <1>1, <1>2, <2>1, <2>5 DEF LoopInv
<1> QED BY <1>9, <1>10

(* add_slice, remove_slice and make_slices: for a message of any size, any *)
(* ranges that do not touch and any arguments, a loop that has ended has   *)
(* computed the closed form that every other module uses in its place.     *)
THEOREM LoopsComputeClosedForms == SpecCall => []ClosedFormsAgree
<1>1. LoopInv /\ [NextCall]_callvars => LoopInv'
  <2> SUFFICES ASSUME LoopInv, [NextCall]_callvars PROVE LoopInv'
    OBVIOUS
  <2>1. CASE UNCHANGED callvars
    <3>1. UNCHANGED <<call, slices, cursor, end, ret, pc>>
      BY <2>1 DEF callvars
    <3> QED BY <3>1 DEF LoopInv, Adding, Removing, Making
  <2> QED BY <2>1, AddIterationInv, AddLeftInv, RemoveInv, MakeIterationInv DEF NextCall
<1>2. LoopInv => ClosedFormsAgree
  <2> SUFFICES ASSUME LoopInv, pc = "done" PROVE ClosedFormsAgree
    BY DEF ClosedFormsAgree
  <2>1. call.fn \in {"add", "remove", "make"}
    BY CallTypes DEF LoopInv
  <2> QED BY <2>1 DEF LoopInv, Adding, Removing, Making, ClosedFormsAgree
<1> QED BY <1>1, <1>2, InitLoopInv, PTL DEF SpecCall

-----------------------------------------------------------------------------
(* WireFormat *)

LEMMA Division ==
  ASSUME NEW n \in Nat, NEW b \in Nat, b > 0
  PROVE  n \div b \in Nat /\ n % b \in 0..(b - 1) /\ n = b * (n \div b) + (n % b)
OBVIOUS

LEMMA QuotientBelow ==
  ASSUME NEW n \in Nat, NEW b \in Nat, b > 0, NEW p \in Nat, n < b * p
  PROVE  n \div b < p
<1> DEFINE q == n \div b
<1>1. q \in Nat /\ b * q <= n
  BY Division
<1> HIDE DEF q
<1>2. ASSUME q >= p PROVE b * q >= b * p
  BY <1>1, <1>2
<1> QED BY <1>1, <1>2 DEF q

(* What is left of a number byte by byte, and the recursion of ToBytes. *)
IsLeft(f, n) ==
  f = [k \in 0..8 |-> IF k = 0 THEN n ELSE f[k - 1] \div Base]

LEMMA Eight == \A k : k \in 0..8 <=> k \in {0, 1, 2, 3, 4, 5, 6, 7, 8}
OBVIOUS

LEMMA LeftExists ==
  ASSUME NEW n \in Nat PROVE \E f : IsLeft(f, n) /\ f \in [0..8 -> Nat]
<1> DEFINE d1 == n \div Base
           d2 == d1 \div Base
           d3 == d2 \div Base
           d4 == d3 \div Base
           d5 == d4 \div Base
           d6 == d5 \div Base
           d7 == d6 \div Base
           d8 == d7 \div Base
           f == [k \in 0..8 |-> CASE k = 0 -> n [] k = 1 -> d1 [] k = 2 -> d2 [] k = 3 -> d3
                   [] k = 4 -> d4 [] k = 5 -> d5 [] k = 6 -> d6 [] k = 7 -> d7 [] OTHER -> d8]
<1>0. \A m \in Nat : m \div Base \in Nat
  BY Division, BaseAssumption
<1>1. /\ d1 \in Nat /\ d2 \in Nat /\ d3 \in Nat /\ d4 \in Nat
      /\ d5 \in Nat /\ d6 \in Nat /\ d7 \in Nat /\ d8 \in Nat
  BY <1>0, Zenon
<1>2. /\ f[0] = n /\ f[1] = d1 /\ f[2] = d2 /\ f[3] = d3 /\ f[4] = d4 
      /\ f[5] = d5 /\ f[6] = d6 /\ f[7] = d7 /\ f[8] = d8
  <2> HIDE DEF d1, d2, d3, d4, d5, d6, d7, d8
  <2> QED BY <1>1
<1>3. f = [k \in 0..8 |-> f[k]]
  OBVIOUS
<1> HIDE DEF f
<1>4. /\ f[0] = n /\ f[1] = f[0] \div Base /\ f[2] = f[1] \div Base /\ f[3] = f[2] \div Base
      /\ f[4] = f[3] \div Base /\ f[5] = f[4] \div Base /\ f[6] = f[5] \div Base
      /\ f[7] = f[6] \div Base /\ f[8] = f[7] \div Base
  BY <1>2, Zenon
<1>5. /\ f[0] \in Nat /\ f[1] \in Nat /\ f[2] \in Nat /\ f[3] \in Nat /\ f[4] \in Nat
      /\ f[5] \in Nat /\ f[6] \in Nat /\ f[7] \in Nat /\ f[8] \in Nat
  BY <1>1, <1>2, Zenon
<1>6. f \in [0..8 -> Nat]
  BY <1>3, <1>5, Eight
<1>7. \A k \in 0..8 : f[k] = IF k = 0 THEN n ELSE f[k - 1] \div Base
  <2> SUFFICES ASSUME NEW k \in 0..8 PROVE f[k] = IF k = 0 THEN n ELSE f[k - 1] \div Base
    OBVIOUS
  <2>1. k \in {0, 1, 2, 3, 4, 5, 6, 7, 8}
    OBVIOUS
  <2>2. CASE k = 0
    BY <1>4, <2>2
  <2>3. CASE k # 0
    <3>1. <<k, k - 1>> \in {<<1, 0>>, <<2, 1>>, <<3, 2>>, <<4, 3>>, <<5, 4>>, <<6, 5>>, <<7, 6>>, <<8, 7>>}
      BY <2>1, <2>3
    <3>2. f[k] = f[k - 1] \div Base
      BY <1>4, <3>1, Zenon
    <3> QED BY <2>3, <3>2, Zenon
  <2> QED BY <2>2, <2>3
<1>8. f = [k \in 0..8 |-> IF k = 0 THEN n ELSE f[k - 1] \div Base]
  BY <1>3, <1>7, Zenon
<1> QED BY <1>6, <1>8 DEF IsLeft

LEMMA LeftOf ==
  ASSUME NEW n \in U64
  PROVE  \E f \in [0..8 -> Nat] :
           /\ ToBytes(n) = [i \in 1..8 |-> f[8 - i] % Base]
           /\ f[0] = n /\ f[8] = 0
           /\ \A k \in 1..8 : f[k] = f[k - 1] \div Base
<1>1. Base \in Nat /\ Base > 0 /\ Limit \in Nat /\ n \in Nat
  BY BaseAssumption DEF Limit, U64
<1> DEFINE f == CHOOSE g : g = [k \in 0..8 |-> IF k = 0 THEN n ELSE g[k - 1] \div Base]
<1>2. PICK g : g = [k \in 0..8 |-> IF k = 0 THEN n ELSE g[k - 1] \div Base]
  BY <1>1, LeftExists DEF IsLeft
<1>3. f = [k \in 0..8 |-> IF k = 0 THEN n ELSE f[k - 1] \div Base]
  BY <1>2, Zenon
<1>4. ToBytes(n) = [i \in 1..8 |-> f[8 - i] % Base]
  BY Zenon DEF ToBytes, IntBytes
<1> HIDE DEF f
<1>5. f[0] = n /\ \A k \in 1..8 : f[k] = f[k - 1] \div Base
  <2>1. \A k \in 1..8 : k \in 0..8 /\ k # 0 
    OBVIOUS
  <2>2. 0 \in 0..8
    OBVIOUS
  <2>3. \A k \in 0..8 : f[k] = IF k = 0 THEN n ELSE f[k - 1] \div Base
    BY <1>3, Zenon
  <2> QED BY <2>1, <2>2, <2>3, Zenon
<1> DEFINE p1 == Base
           p2 == Base * p1
           p3 == Base * p2
           p4 == Base * p3
           p5 == Base * p4
           p6 == Base * p5
           p7 == Base * p6
<1>6. /\ p1 \in Nat /\ p2 \in Nat /\ p3 \in Nat /\ p4 \in Nat
      /\ p5 \in Nat /\ p6 \in Nat /\ p7 \in Nat
  BY <1>1
<1>7. f[0] \in Nat /\ f[0] < Base * p7
  BY <1>1, <1>5 DEF Limit, U64
<1>8. ASSUME NEW k \in 1..8, NEW p \in Nat, f[k - 1] \in Nat, f[k - 1] < Base * p
      PROVE  f[k] \in Nat /\ f[k] < p
  <2>1. f[k] = f[k - 1] \div Base
    BY <1>5
  <2> DEFINE m == f[k - 1]
  <2> HIDE DEF m
  <2>2. m \div Base \in Nat /\ m \div Base < p
    <3>1. m \in Nat /\ m < Base * p
      BY <1>8 DEF m
    <3> QED BY <1>1, <3>1, Division, QuotientBelow
  <2> QED BY <2>1, <2>2 DEF m
<1> HIDE DEF p1, p2, p3, p4, p5, p6, p7
<1>11. f[1] \in Nat /\ f[1] < p7
  BY <1>6, <1>7, <1>8
<1>12. f[2] \in Nat /\ f[2] < p6
  BY <1>6, <1>8, <1>11 DEF p7
<1>13. f[3] \in Nat /\ f[3] < p5
  BY <1>6, <1>8, <1>12 DEF p6
<1>14. f[4] \in Nat /\ f[4] < p4
  BY <1>6, <1>8, <1>13 DEF p5
<1>15. f[5] \in Nat /\ f[5] < p3
  BY <1>6, <1>8, <1>14 DEF p4
<1>16. f[6] \in Nat /\ f[6] < p2
  BY <1>6, <1>8, <1>15 DEF p3
<1>17. f[7] \in Nat /\ f[7] < p1
  BY <1>6, <1>8, <1>16 DEF p2
<1>18. f[8] \in Nat /\ f[8] < 1
  BY <1>1, <1>8, <1>17 DEF p1
<1>19. f \in [0..8 -> Nat]
  <2>1. \A k \in 0..8 : f[k] \in Nat
    BY <1>7, <1>11, <1>12, <1>13, <1>14, <1>15, <1>16, <1>17, <1>18, Eight
  <2>2. f = [k \in 0..8 |-> f[k]]
    BY <1>3, Zenon
  <2> QED BY <2>1, <2>2, Zenon
<1>20. f[8] = 0
  BY <1>18
<1> QED BY <1>4, <1>5, <1>19, <1>20, Zenon

LEMMA EightElements ==
  ASSUME NEW S, NEW t \in [1..8 -> S]
  PROVE  t \in Seq(S) /\ Len(t) = 8
<1>1. t \in Seq(S)
  BY SeqDef
<1>2. DOMAIN t = 1..8 /\ DOMAIN t = 1..Len(t) /\ Len(t) \in Nat
  BY <1>1, LenProperties
<1> QED BY <1>1, <1>2

(* An integer has 8 bytes. *)
LEMMA BytesOf ==
  ASSUME NEW n \in U64
  PROVE  ToBytes(n) \in [1..8 -> Byte] /\ ToBytes(n) \in Seq(Byte) /\ Len(ToBytes(n)) = 8
<1>1. PICK f \in [0..8 -> Nat] : ToBytes(n) = [i \in 1..8 |-> f[8 - i] % Base]
  BY LeftOf, Zenon
<1>2. \A i \in 1..8 : f[8 - i] % Base \in Byte
  <2> SUFFICES ASSUME NEW i \in 1..8 PROVE f[8 - i] % Base \in Byte
    OBVIOUS
  <2>1. Base \in Nat /\ Base > 0
    BY BaseAssumption
  <2>2. 8 - i \in 0..8
    OBVIOUS
  <2>3. f[8 - i] \in Nat
    BY <2>2, Zenon
  <2> QED BY <2>1, <2>3, Division DEF Byte
<1>3. ToBytes(n) \in [1..8 -> Byte]
  BY <1>1, <1>2, Zenon
<1> QED BY <1>3, EightElements, Zenon

(* from_be_bytes undoes to_be_bytes. *)
LEMMA ReadBack ==
  ASSUME NEW n \in U64
  PROVE  FromBytes(ToBytes(n)) = n
<1> DEFINE b == ToBytes(n)
<1>1. PICK f \in [0..8 -> Nat] :
           /\ b = [i \in 1..8 |-> f[8 - i] % Base]
           /\ f[0] = n /\ f[8] = 0
           /\ \A k \in 1..8 : f[k] = f[k - 1] \div Base
  BY LeftOf, Zenon
<1> DEFINE Is(g) == g = [k \in 0..8 |-> IF k = 0 THEN 0 ELSE Base * g[k - 1] + b[k]]
           h == [k \in 0..8 |-> f[8 - k]]
           r == CHOOSE g : Is(g)
<1>2. FromBytes(b) = r[8]
  BY Zenon DEF FromBytes, IntBytes
<1> HIDE DEF b
<1>3. \A k \in 1..8 : f[8 - k] = Base * f[8 - (k - 1)] + b[k]
  <2> SUFFICES ASSUME NEW k \in 1..8 PROVE f[8 - k] = Base * f[8 - (k - 1)] + b[k]
    OBVIOUS
  <2> DEFINE m == f[8 - k]
  <2>1. m \in Nat /\ Base \in Nat /\ Base > 0 /\ b[k] = m % Base
    <3>1. Base \in Nat /\ Base > 0
      BY BaseAssumption
    <3>2. 8 - k \in 0..8
      OBVIOUS
    <3> QED BY <1>1, <3>1, <3>2, Zenon
  <2>2. f[8 - (k - 1)] = m \div Base
    <3>1. 9 - k \in 1..8 /\ (9 - k) - 1 = 8 - k /\ 8 - (k - 1) = 9 - k
      OBVIOUS
    <3> QED BY <1>1, <3>1
  <2> HIDE DEF m
  <2>3. m = Base * (m \div Base) + (m % Base)
    BY <2>1, Division
  <2> QED BY <2>1, <2>2, <2>3 DEF m
<1>4. Is(h)
  <2>1. \A k \in 0..8 : h[k] = IF k = 0 THEN 0 ELSE Base * h[k - 1] + b[k]
    <3> SUFFICES ASSUME NEW k \in 0..8 PROVE h[k] = IF k = 0 THEN 0 ELSE Base * h[k - 1] + b[k]
      OBVIOUS
    <3>1. CASE k = 0
      BY <1>1, <3>1
    <3>2. CASE k # 0
      <4>1. k \in 1..8 /\ k - 1 \in 0..8
        BY <3>2
      <4>2. h[k] = f[8 - k] /\ h[k - 1] = f[8 - (k - 1)]
        BY <4>1, Zenon
      <4> QED BY <1>3, <3>2, <4>1, <4>2, Zenon
    <3> QED BY <3>1, <3>2
  <2> HIDE DEF h
  <2>2. h = [k \in 0..8 |-> h[k]]
    BY DEF h
  <2> QED BY <2>1, <2>2, Zenon
<1>5. Is(r)
  <2> HIDE DEF Is, h
  <2> QED BY <1>4, Zenon
<1>6. r[0] = 0 /\ h[0] = 0 /\ \A k \in 1..8 : r[k] = Base * r[k - 1] + b[k] /\ h[k] = Base * h[k - 1] + b[k]
  <2>1. \A g : Is(g) => g[0] = 0 /\ \A k \in 1..8 : g[k] = Base * g[k - 1] + b[k]
    <3> SUFFICES ASSUME NEW g, Is(g) PROVE g[0] = 0 /\ \A k \in 1..8 : g[k] = Base * g[k - 1] + b[k]
      OBVIOUS
    <3>1. \A k \in 1..8 : k \in 0..8 /\ k # 0
      OBVIOUS
    <3>2. 0 \in 0..8
      OBVIOUS
    <3>3. \A k \in 0..8 : g[k] = IF k = 0 THEN 0 ELSE Base * g[k - 1] + b[k]
      BY Zenon
    <3> QED BY <3>1, <3>2, <3>3, Zenon
  <2> HIDE DEF Is, r, h
  <2> QED BY <1>4, <1>5, <2>1, Zenon
<1>7. h[8] = n
  BY <1>1
<1> HIDE DEF r, h
<1>8. \A k \in 1..8 : r[k - 1] = h[k - 1] => r[k] = h[k]
  BY <1>6, Zenon
<1>9. r[8] = h[8]
  <2>1. r[1] = h[1]
    BY <1>6, <1>8
  <2>2. r[2] = h[2]
    BY <1>8, <2>1
  <2>3. r[3] = h[3]
    BY <1>8, <2>2
  <2>4. r[4] = h[4]
    BY <1>8, <2>3
  <2>5. r[5] = h[5]
    BY <1>8, <2>4
  <2>6. r[6] = h[6]
    BY <1>8, <2>5
  <2>7. r[7] = h[7]
    BY <1>8, <2>6
  <2> QED BY <1>8, <2>7
<1> QED BY <1>2, <1>7, <1>9 DEF b

Encodes(s, v, ns) ==
  /\ s \in Seq(Byte) /\ 1 + 8 * Len(ns) <= Len(s) /\ s[1] = v
  /\ \A k \in 1..Len(ns) : \A i \in 1..8 : s[1 + (k - 1) * 8 + i] = ToBytes(ns[k])[i]

LEMMA FieldPlaces ==
  ASSUME NEW m \in Nat, NEW k \in 1..m, NEW i \in 1..8
  PROVE  1 + (k - 1) * 8 + i \in 1..(1 + 8 * m) /\ 1 + (k - 1) * 8 + i > 1
OBVIOUS

LEMMA FirstPart ==
  ASSUME NEW S, NEW s \in Seq(S), NEW t \in Seq(S)
  PROVE  /\ s \o t \in Seq(S)
         /\ Len(s \o t) = Len(s) + Len(t)
         /\ \A i \in 1..Len(s) : (s \o t)[i] = s[i]
OBVIOUS

LEMMA SecondPart ==
  ASSUME NEW S, NEW s \in Seq(S), NEW t \in Seq(S)
  PROVE  \A i \in 1..Len(t) : (s \o t)[Len(s) + i] = t[i]
OBVIOUS

LEMMA EncodesMore ==
  ASSUME NEW s, NEW v, NEW ns \in Seq(U64), Encodes(s, v, ns), NEW t \in Seq(Byte)
  PROVE  Encodes(s \o t, v, ns)
<1> DEFINE u == s \o t
           m == Len(ns)
<1>1. m \in Nat /\ s \in Seq(Byte) /\ Len(s) \in Nat /\ 1 + 8 * m <= Len(s)
  BY LenProperties DEF Encodes
<1>2. u \in Seq(Byte) /\ Len(u) = Len(s) + Len(t) /\ Len(t) \in Nat /\ \A i \in 1..Len(s) : u[i] = s[i]
  BY <1>1, FirstPart, LenProperties
<1> HIDE DEF u
<1>3. \A k \in 1..m : \A i \in 1..8 : 1 + (k - 1) * 8 + i \in 1..Len(s)
  BY <1>1, FieldPlaces
<1>4. \A k \in 1..m : \A i \in 1..8 : u[1 + (k - 1) * 8 + i] = ToBytes(ns[k])[i]
  BY <1>2, <1>3, Zenon DEF Encodes
<1>5. s[1] = v
  BY Zenon DEF Encodes
<1>6. u[1] = v /\ 1 + 8 * m <= Len(u)
  BY <1>1, <1>2, <1>5
<1> QED BY <1>2, <1>4, <1>6, Zenon DEF Encodes, u

LEMMA EncodesNext ==
  ASSUME NEW s, NEW v, NEW ns \in Seq(U64), Encodes(s, v, ns), Len(s) = 1 + 8 * Len(ns),
         NEW ms \in Seq(U64), Len(ms) = Len(ns) + 1, \A k \in 1..Len(ns) : ms[k] = ns[k],
         NEW n, n = ms[Len(ms)]
  PROVE  Encodes(s \o ToBytes(n), v, ms) /\ Len(s \o ToBytes(n)) = 1 + 8 * Len(ms)
<1> DEFINE t == ToBytes(n)
           u == s \o t
           m == Len(ns)
<1>1. m \in Nat /\ s \in Seq(Byte) /\ Len(s) \in Nat /\ 1 + 8 * m = Len(s) /\ s[1] = v
  BY LenProperties DEF Encodes
<1>2. t \in Seq(Byte) /\ Len(t) = 8
  <2>1. Len(ms) \in 1..Len(ms)
    BY <1>1
  <2>2. n \in U64
    BY <2>1, ElementOfSeq
  <2> QED BY <2>2, BytesOf
<1>3. Len(ms) = m + 1 /\ ms[m + 1] = n /\ \A k \in 1..m : ms[k] = ns[k]
  OBVIOUS
<1> HIDE DEF t
<1>4. u \in Seq(Byte) /\ Len(u) = Len(s) + Len(t)
  BY <1>1, <1>2, FirstPart, Zenon
<1>5. \A i \in 1..Len(s) : u[i] = s[i]
  BY <1>1, <1>2, FirstPart
<1>6. \A i \in 1..8 : u[Len(s) + i] = t[i]
  <2>1. \A i \in 1..Len(t) : u[Len(s) + i] = t[i]
    <3>1. s \in Seq(Byte) /\ t \in Seq(Byte)
      BY <1>1, <1>2
    <3> QED BY ONLY <3>1, SecondPart, Zenon DEF u
  <2> QED BY <1>2, <2>1
<1> HIDE DEF u
<1>7. \A k \in 1..m : \A i \in 1..8 : 1 + (k - 1) * 8 + i \in 1..Len(s)
  BY <1>1, FieldPlaces
<1>8. \A k \in 1..m : \A i \in 1..8 : u[1 + (k - 1) * 8 + i] = ToBytes(ms[k])[i]
  BY <1>3, <1>5, <1>7, Zenon DEF Encodes
<1>9. \A i \in 1..8 : u[1 + ((m + 1) - 1) * 8 + i] = ToBytes(ms[m + 1])[i]
  <2>1. \A i \in 1..8 : 1 + ((m + 1) - 1) * 8 + i = Len(s) + i
    BY <1>1
  <2> QED BY <1>3, <1>6, <2>1, Zenon DEF t
<1>10. \A k \in 1..Len(ms) : k \in 1..m \/ k = m + 1
  BY <1>1, <1>3
<1>11. \A k \in 1..Len(ms) : \A i \in 1..8 : u[1 + (k - 1) * 8 + i] = ToBytes(ms[k])[i]
  BY <1>8, <1>9, <1>10, Zenon
<1>12. u[1] = v /\ 1 + 8 * Len(ms) <= Len(u) /\ Len(u) = 1 + 8 * Len(ms)
  BY <1>1, <1>2, <1>3, <1>4, <1>5
<1>13. Encodes(u, v, ms) /\ Len(u) = 1 + 8 * Len(ms)
  BY <1>4, <1>11, <1>12, Zenon DEF Encodes
<1> QED BY <1>13 DEF u, t

LEMMA EncodesCut ==
  ASSUME NEW s, NEW v, NEW ns \in Seq(U64), Encodes(s, v, ns),
         NEW n \in Nat, 1 + 8 * Len(ns) <= n, n <= Len(s)
  PROVE  Encodes(SubSeq(s, 1, n), v, ns)
<1> DEFINE u == SubSeq(s, 1, n)
           m == Len(ns)
<1>1. m \in Nat /\ s \in Seq(Byte) /\ Len(s) \in Nat
  BY LenProperties DEF Encodes
<1>2. u \in Seq(Byte) /\ Len(u) = n /\ \A i \in 1..n : u[i] = s[i]
  BY <1>1
<1> HIDE DEF u
<1>3. \A k \in 1..m : \A i \in 1..8 : 1 + (k - 1) * 8 + i \in 1..n
  BY <1>1, FieldPlaces
<1>4. \A k \in 1..m : \A i \in 1..8 : u[1 + (k - 1) * 8 + i] = ToBytes(ns[k])[i]
  BY <1>2, <1>3, Zenon DEF Encodes
<1>5. u[1] = v /\ 1 + 8 * m <= Len(u)
  BY <1>1, <1>2 DEF Encodes
<1> QED BY <1>2, <1>4, <1>5, Zenon DEF Encodes, u

LEMMA FieldRead ==
  ASSUME NEW s, NEW v, NEW ns \in Seq(U64), Encodes(s, v, ns), NEW k \in 1..Len(ns)
  PROVE  Field(s, k) = ns[k] 
<1> DEFINE t == SubSeq(s, 2 + (k - 1) * 8, 1 + k * 8)
           b == ToBytes(ns[k])
<1>1. s \in Seq(Byte) /\ Len(s) \in Nat /\ Len(ns) \in Nat /\ 1 + 8 * Len(ns) <= Len(s)
  BY LenProperties DEF Encodes
<1>2. ns[k] \in U64
  BY ElementOfSeq
<1>3. b \in [1..8 -> Byte] /\ FromBytes(b) = ns[k]
  BY <1>2, BytesOf, ReadBack
<1>4. 2 + (k - 1) * 8 \in 1..Len(s) /\ 1 + k * 8 \in 1..Len(s) /\ 1 + k * 8 = 2 + (k - 1) * 8 + 7
  BY <1>1
<1>5. t = [i \in 1..8 |-> s[1 + (k - 1) * 8 + i]]
  <2> DEFINE lo == 2 + (k - 1) * 8
             hi == 1 + k * 8
  <2>1. lo \in Nat /\ hi \in Nat /\ hi = lo + 7 /\ t = SubSeq(s, lo, hi)
    BY <1>4
  <2>2. t = [i \in 1..(1 + hi - lo) |-> s[i + lo - 1]]
    BY <2>1
  <2>3. 1 + hi - lo = 8 /\ \A i \in 1..8 : i + lo - 1 = 1 + (k - 1) * 8 + i
    BY <2>1
  <2> QED BY <2>2, <2>3
<1> HIDE DEF b, t
<1>6. \A i \in 1..8 : s[1 + (k - 1) * 8 + i] = b[i]
  BY Zenon DEF Encodes, b
<1>7. b = [i \in 1..8 |-> b[i]]
  BY <1>3
<1>8. t = b
  BY <1>5, <1>6, <1>7, Zenon
<1>9. Field(s, k) = FromBytes(t)
  BY DEF Field, IntBytes, t
<1> QED BY <1>3, <1>8, <1>9

LEMMA LimitNat ==
  Limit \in Nat /\ Limit > 1 /\ U64 \subseteq Nat
BY BaseAssumption DEF Limit, U64

LEMMA EncodesHead ==
  ASSUME NEW v \in 0..4
  PROVE  Encodes(<<v>>, v, <<>>) /\ Len(<<v>>) = 1 + 8 * Len(<<>>) /\ <<>> \in Seq(U64)
<1>1. v \in Byte
  BY BaseAssumption DEF Byte
<1>2. <<v>> \in Seq(Byte)
  BY <1>1
<1>3. Len(<<>>) = 0 /\ Len(<<v>>) = 1 /\ <<v>>[1] = v /\ <<>> \in Seq(U64)
  OBVIOUS
<1>4. 1..Len(<<>>) = {} /\ 1 + 8 * Len(<<>>) = 1
  BY <1>3
<1> QED BY <1>2, <1>3, <1>4 DEF Encodes

Ints1(v, a) == <<v>> \o ToBytes(a)
Ints2(v, a, b) == Ints1(v, a) \o ToBytes(b)
Ints3(v, a, b, c) == Ints2(v, a, b) \o ToBytes(c)
Ints4(v, a, b, c, d) == Ints3(v, a, b, c) \o ToBytes(d)
Ints5(v, a, b, c, d, e) == Ints4(v, a, b, c, d) \o ToBytes(e)

LEMMA Encodes1 ==
  ASSUME NEW v \in 0..4, NEW a \in U64
  PROVE  /\ Encodes(Ints1(v, a), v, <<a>>) /\ <<a>> \in Seq(U64)
         /\ Len(Ints1(v, a)) = 1 + 8 * Len(<<a>>) /\ Len(<<a>>) = 1
<1> DEFINE s == <<v>>
           ns == <<>>
           ms == <<a>>
<1>1. ms \in Seq(U64) /\ Len(ns) = 0 /\ Len(ms) = 1 /\ ms[1] = a
  OBVIOUS
<1>2. \A k \in 1..0 : ms[k] = ns[k]
  OBVIOUS
<1>3. Encodes(s, v, ns) /\ Len(s) = 1 + 8 * Len(ns) /\ ns \in Seq(U64)
  BY EncodesHead
<1> HIDE DEF s, ns, ms
<1>4. Len(ms) = Len(ns) + 1 /\ a = ms[Len(ms)] /\ \A k \in 1..Len(ns) : ms[k] = ns[k]
  BY <1>1, <1>2
<1>5. Encodes(s \o ToBytes(a), v, ms) /\ Len(s \o ToBytes(a)) = 1 + 8 * Len(ms)
  <2>1. ms \in Seq(U64) /\ ns \in Seq(U64) /\ Encodes(s, v, ns) /\ Len(s) = 1 + 8 * Len(ns)
    BY <1>1, <1>3
  <2> QED BY ONLY <2>1, <1>4, EncodesNext
<1> QED BY <1>1, <1>5, Zenon DEF Ints1, s, ms

LEMMA Encodes2 ==
  ASSUME NEW v \in 0..4, NEW a \in U64, NEW b \in U64
  PROVE  /\ Encodes(Ints2(v, a, b), v, <<a, b>>) /\ <<a, b>> \in Seq(U64)
         /\ Len(Ints2(v, a, b)) = 1 + 8 * Len(<<a, b>>) /\ Len(<<a, b>>) = 2
<1> DEFINE s == Ints1(v, a)
           ns == <<a>>
           ms == <<a, b>>
<1>1. ms \in Seq(U64) /\ Len(ns) = 1 /\ Len(ms) = 2 /\ ms[2] = b
  OBVIOUS
<1>2. \A k \in 1..1 : ms[k] = ns[k]
  OBVIOUS
<1>3. Encodes(s, v, ns) /\ Len(s) = 1 + 8 * Len(ns) /\ ns \in Seq(U64)
  BY Encodes1
<1> HIDE DEF s, ns, ms
<1>4. Len(ms) = Len(ns) + 1 /\ b = ms[Len(ms)] /\ \A k \in 1..Len(ns) : ms[k] = ns[k]
  BY <1>1, <1>2
<1>5. Encodes(s \o ToBytes(b), v, ms) /\ Len(s \o ToBytes(b)) = 1 + 8 * Len(ms)
  <2>1. ms \in Seq(U64) /\ ns \in Seq(U64) /\ Encodes(s, v, ns) /\ Len(s) = 1 + 8 * Len(ns)
    BY <1>1, <1>3
  <2> QED BY ONLY <2>1, <1>4, EncodesNext
<1> QED BY <1>1, <1>5, Zenon DEF Ints2, s, ms

LEMMA Encodes3 ==
  ASSUME NEW v \in 0..4, NEW a \in U64, NEW b \in U64, NEW c \in U64
  PROVE  /\ Encodes(Ints3(v, a, b, c), v, <<a, b, c>>) /\ <<a, b, c>> \in Seq(U64)
         /\ Len(Ints3(v, a, b, c)) = 1 + 8 * Len(<<a, b, c>>) /\ Len(<<a, b, c>>) = 3
<1> DEFINE s == Ints2(v, a, b)
           ns == <<a, b>>
           ms == <<a, b, c>>
<1>1. ms \in Seq(U64) /\ Len(ns) = 2 /\ Len(ms) = 3 /\ ms[3] = c
  OBVIOUS
<1>2. \A k \in 1..2 : ms[k] = ns[k]
  OBVIOUS
<1>3. Encodes(s, v, ns) /\ Len(s) = 1 + 8 * Len(ns) /\ ns \in Seq(U64)
  BY Encodes2
<1> HIDE DEF s, ns, ms
<1>4. Len(ms) = Len(ns) + 1 /\ c = ms[Len(ms)] /\ \A k \in 1..Len(ns) : ms[k] = ns[k]
  BY <1>1, <1>2
<1>5. Encodes(s \o ToBytes(c), v, ms) /\ Len(s \o ToBytes(c)) = 1 + 8 * Len(ms)
  <2>1. ms \in Seq(U64) /\ ns \in Seq(U64) /\ Encodes(s, v, ns) /\ Len(s) = 1 + 8 * Len(ns)
    BY <1>1, <1>3
  <2> QED BY ONLY <2>1, <1>4, EncodesNext
<1> QED BY <1>1, <1>5, Zenon DEF Ints3, s, ms

LEMMA Encodes4 ==
  ASSUME NEW v \in 0..4, NEW a \in U64, NEW b \in U64, NEW c \in U64, NEW d \in U64
  PROVE  /\ Encodes(Ints4(v, a, b, c, d), v, <<a, b, c, d>>) /\ <<a, b, c, d>> \in Seq(U64)
         /\ Len(Ints4(v, a, b, c, d)) = 1 + 8 * Len(<<a, b, c, d>>) /\ Len(<<a, b, c, d>>) = 4
<1> DEFINE s == Ints3(v, a, b, c)
           ns == <<a, b, c>>
           ms == <<a, b, c, d>>
<1>1. ms \in Seq(U64) /\ Len(ns) = 3 /\ Len(ms) = 4 /\ ms[4] = d
  OBVIOUS
<1>2. \A k \in 1..3 : ms[k] = ns[k]
  OBVIOUS
<1>3. Encodes(s, v, ns) /\ Len(s) = 1 + 8 * Len(ns) /\ ns \in Seq(U64)
  BY Encodes3
<1> HIDE DEF s, ns, ms
<1>4. Len(ms) = Len(ns) + 1 /\ d = ms[Len(ms)] /\ \A k \in 1..Len(ns) : ms[k] = ns[k]
  BY <1>1, <1>2
<1>5. Encodes(s \o ToBytes(d), v, ms) /\ Len(s \o ToBytes(d)) = 1 + 8 * Len(ms)
  <2>1. ms \in Seq(U64) /\ ns \in Seq(U64) /\ Encodes(s, v, ns) /\ Len(s) = 1 + 8 * Len(ns)
    BY <1>1, <1>3
  <2> QED BY ONLY <2>1, <1>4, EncodesNext
<1> QED BY <1>1, <1>5, Zenon DEF Ints4, s, ms

LEMMA Encodes5 ==
  ASSUME NEW v \in 0..4, NEW a \in U64, NEW b \in U64, NEW c \in U64, NEW d \in U64, NEW e \in U64
  PROVE  /\ Encodes(Ints5(v, a, b, c, d, e), v, <<a, b, c, d, e>>) /\ <<a, b, c, d, e>> \in Seq(U64)
         /\ Len(Ints5(v, a, b, c, d, e)) = 1 + 8 * Len(<<a, b, c, d, e>>) /\ Len(<<a, b, c, d, e>>) = 5
<1> DEFINE s == Ints4(v, a, b, c, d)
           ns == <<a, b, c, d>>
           ms == <<a, b, c, d, e>>
<1>1. ms \in Seq(U64) /\ Len(ns) = 4 /\ Len(ms) = 5 /\ ms[5] = e
  OBVIOUS
<1>2. \A k \in 1..4 : ms[k] = ns[k]
  OBVIOUS
<1>3. Encodes(s, v, ns) /\ Len(s) = 1 + 8 * Len(ns) /\ ns \in Seq(U64)
  BY Encodes4
<1> HIDE DEF s, ns, ms
<1>4. Len(ms) = Len(ns) + 1 /\ e = ms[Len(ms)] /\ \A k \in 1..Len(ns) : ms[k] = ns[k]
  BY <1>1, <1>2
<1>5. Encodes(s \o ToBytes(e), v, ms) /\ Len(s \o ToBytes(e)) = 1 + 8 * Len(ms)
  <2>1. ms \in Seq(U64) /\ ns \in Seq(U64) /\ Encodes(s, v, ns) /\ Len(s) = 1 + 8 * Len(ns)
    BY <1>1, <1>3
  <2> QED BY ONLY <2>1, <1>4, EncodesNext
<1> QED BY <1>1, <1>5, Zenon DEF Ints5, s, ms


LEMMA LengthFacts ==
  ASSUME NEW u \in Seq(Byte)
  PROVE  /\ Len(u) \in Nat
         /\ u = <<>> <=> Len(u) = 0
         /\ Holds(u, 1) <=> Len(u) >= 9
         /\ Holds(u, 3) <=> Len(u) >= 25
         /\ Holds(u, 5) <=> Len(u) >= 41
<1>1. Len(u) \in Nat /\ (u = <<>> <=> Len(u) = 0)
  OBVIOUS
<1>2. /\ Holds(u, 1) <=> Len(u) >= 9
      /\ Holds(u, 3) <=> Len(u) >= 25
      /\ Holds(u, 5) <=> Len(u) >= 41
  BY <1>1 DEF Holds, IntBytes
<1> QED BY <1>1, <1>2

LEMMA ReadReset ==
  ASSUME NEW u, NEW a \in U64, Encodes(u, 0, <<a>>), Len(u) >= 10
  PROVE  Deserialize(u) = [kind |-> "Reset", epoch |-> FromInt(a), request |-> u[10] # 0]
<1>1. u \in Seq(Byte) /\ u[1] = 0
  BY Zenon DEF Encodes
<1>2. Len(u) \in Nat /\ u # <<>> /\ Holds(u, 1)
  BY <1>1, LengthFacts
<1>3. Field(u, 1) = a
  <2> DEFINE ns == <<a>>
  <2>1. ns \in Seq(U64) /\ Len(ns) = 1 /\ ns[1] = a
    OBVIOUS
  <2> HIDE DEF ns
  <2>2. \A k \in 1..1 : Field(u, k) = ns[k]
    BY <2>1, FieldRead DEF ns
  <2> QED BY <2>1, <2>2
<1>4. Behind(u, 1) # <<>> /\ Behind(u, 1)[1] = u[10]
  <2>1. Behind(u, 1) = SubSeq(u, 10, Len(u))
    BY DEF Behind, IntBytes
  <2>2. Len(SubSeq(u, 10, Len(u))) = Len(u) - 9 /\ SubSeq(u, 10, Len(u))[1] = u[10]
    BY <1>1, <1>2
  <2> QED BY <1>2, <2>1, <2>2
<1> QED BY <1>1, <1>2, <1>3, <1>4 DEF Deserialize

LEMMA ReadAck ==
  ASSUME NEW u, NEW a \in U64, NEW b \in U64, NEW c \in U64, Encodes(u, 1, <<a, b, c>>),
         Len(u) >= 25
  PROVE  Deserialize(u) = [kind |-> "Ack", epoch |-> a, seq |-> b, last_index |-> c]
<1>1. u \in Seq(Byte) /\ u[1] = 1
  BY Zenon DEF Encodes
<1>2. Len(u) \in Nat /\ u # <<>> /\ Holds(u, 3)
  BY <1>1, LengthFacts
<1>3. Field(u, 1) = a /\ Field(u, 2) = b /\ Field(u, 3) = c
  <2> DEFINE ns == <<a, b, c>>
  <2>1. ns \in Seq(U64) /\ Len(ns) = 3 /\ ns[1] = a /\ ns[2] = b /\ ns[3] = c
    OBVIOUS
  <2> HIDE DEF ns
  <2>2. \A k \in 1..3 : Field(u, k) = ns[k]
    BY <2>1, FieldRead DEF ns
  <2> QED BY <2>1, <2>2
<1> QED BY <1>1, <1>2, <1>3 DEF Deserialize

LEMMA SliceFields ==
  ASSUME NEW u, NEW a \in U64, NEW b \in U64, NEW c \in U64, NEW d \in U64, NEW e \in U64,
         Encodes(u, 2, <<a, b, c, d, e>>)
  PROVE  /\ u \in Seq(Byte) /\ u[1] = 2 /\ u # <<>> /\ Holds(u, 5) /\ Len(u) >= 41
         /\ Field(u, 1) = a /\ Field(u, 2) = b /\ Field(u, 3) = c /\ Field(u, 4) = d
         /\ Field(u, 5) = e
<1> DEFINE ns == <<a, b, c, d, e>>
<1>1. ns \in Seq(U64) /\ Len(ns) = 5 /\ ns[1] = a /\ ns[2] = b /\ ns[3] = c
  OBVIOUS
<1>2. ns[4] = d /\ ns[5] = e
  OBVIOUS
<1> HIDE DEF ns
<1>3. u \in Seq(Byte) /\ u[1] = 2 /\ 1 + 8 * Len(ns) <= Len(u)
  BY Zenon DEF Encodes, ns
<1>4. Len(u) \in Nat /\ u # <<>> /\ Holds(u, 5) /\ Len(u) >= 41
  BY <1>1, <1>3, LengthFacts
<1>5. \A k \in 1..5 : Field(u, k) = ns[k]
  BY <1>1, FieldRead DEF ns
<1> QED BY <1>1, <1>2, <1>3, <1>4, <1>5

LEMMA ReadSlice ==
  ASSUME NEW u, NEW a \in U64, NEW b \in U64, NEW c \in U64, NEW d \in U64,
         NEW data \in Seq(Byte), Len(data) \in U64, Len(data) > 0,
         Encodes(u, 2, <<a, b, c, d, Len(data)>>), Len(u) >= 41 + Len(data),
         \A i \in 1..Len(data) : u[41 + i] = data[i]
  PROVE  Deserialize(u) = [kind |-> "MsgSlice", epoch |-> a, seq |-> b, seq_len |-> c,
                           first_index |-> d, data |-> data]
<1> DEFINE l == Len(data)
           rest == SubSeq(u, 42, Len(u))
<1>1. u \in Seq(Byte) /\ Len(u) \in Nat /\ l \in Nat
  BY SliceFields, LenProperties
<1>2. Behind(u, 5) = rest
  BY DEF Behind, IntBytes
<1>3. rest \in Seq(Byte) /\ Len(rest) = Len(u) - 41 /\ \A i \in 1..l : rest[i] = u[41 + i]
  BY <1>1
<1> HIDE DEF rest
<1>4. SubSeq(rest, 1, l) = data
  <2> DEFINE t == SubSeq(rest, 1, l)
  <2>1. t \in Seq(Byte) /\ Len(t) = l /\ \A i \in 1..l : t[i] = rest[i]
    BY <1>1, <1>3
  <2> HIDE DEF t
  <2>2. \A i \in 1..l : t[i] = data[i]
    BY <1>3, <2>1
  <2>3. t = data
    BY <2>1, <2>2, SeqEqual
  <2> QED BY <2>3 DEF t
<1>5. ~(Len(rest) < l) /\ l # 0
  BY <1>1, <1>3
<1> HIDE DEF l
<1>6. DeserializeMsgSlice(u) =
        [kind |-> "MsgSlice", epoch |-> a, seq |-> b, seq_len |-> c, first_index |-> d,
         data |-> data]
  <2>1. /\ Holds(u, 5) /\ Field(u, 1) = a /\ Field(u, 2) = b /\ Field(u, 3) = c
        /\ Field(u, 4) = d /\ Field(u, 5) = l
    BY SliceFields, Zenon DEF l
  <2> QED BY <2>1, <1>2, <1>4, <1>5 DEF DeserializeMsgSlice
<1>7. u # <<>> /\ u[1] = 2
  BY SliceFields
<1>8. Deserialize(u) = DeserializeMsgSlice(u)
  BY <1>7 DEF Deserialize
<1> QED BY <1>6, <1>8

LEMMA CutShort ==
  ASSUME NEW u \in Seq(Byte), NEW v \in 0..2,
         Len(u) = 0 \/ u[1] = v,
         v = 0 => Len(u) < 10, v = 1 => Len(u) < 25, v = 2 => Len(u) < 41
  PROVE  Deserialize(u) = Error("EOF")
<1>1. /\ Len(u) \in Nat
      /\ u = <<>> <=> Len(u) = 0
      /\ Holds(u, 1) <=> Len(u) >= 9
      /\ Holds(u, 3) <=> Len(u) >= 25
      /\ Holds(u, 5) <=> Len(u) >= 41
  BY LengthFacts
<1>2. CASE u = <<>>
  BY <1>2 DEF Deserialize
<1>3. CASE u # <<>> /\ v = 0
  <2>1. u[1] = 0 /\ Len(u) < 10
    BY <1>1, <1>3
  <2>2. Holds(u, 1) => Len(u) = 9
    <3>1. Len(u) \in Nat /\ Len(u) < 10
      BY <1>1, <2>1
    <3>2. \A n \in Nat : n < 10 /\ n >= 9 => n = 9
      OBVIOUS
    <3> QED BY <1>1, <3>1, <3>2, Zenon
  <2>3. Len(u) = 9 => Behind(u, 1) = <<>>
    <3>1. Behind(u, 1) = SubSeq(u, 10, Len(u))
      BY DEF Behind, IntBytes
    <3> QED BY <3>1
  <2> QED BY <1>3, <2>1, <2>2, <2>3 DEF Deserialize
<1>4. CASE u # <<>> /\ v = 1
  <2>1. u[1] = 1 /\ ~Holds(u, 3)
    BY <1>1, <1>4
  <2> QED BY <1>4, <2>1 DEF Deserialize
<1>5. CASE u # <<>> /\ v = 2
  <2>1. u[1] = 2 /\ ~Holds(u, 5)
    BY <1>1, <1>5
  <2> QED BY <1>5, <2>1 DEF Deserialize, DeserializeMsgSlice
<1> QED BY <1>2, <1>3, <1>4, <1>5

LEMMA CutSlice ==
  ASSUME NEW u, NEW a \in U64, NEW b \in U64, NEW c \in U64, NEW d \in U64, NEW e \in U64,
         Encodes(u, 2, <<a, b, c, d, e>>), e > 0, Len(u) < 41 + e
  PROVE  Deserialize(u) = Error("EOF")
<1>1. u \in Seq(Byte) /\ u[1] = 2 /\ u # <<>> /\ Holds(u, 5) /\ Len(u) >= 41 /\ Field(u, 5) = e
  BY SliceFields
<1>2. Len(Behind(u, 5)) = Len(u) - 41
  <2>1. Behind(u, 5) = SubSeq(u, 42, Len(u))
    BY DEF Behind, IntBytes
  <2> QED BY <1>1, <2>1
<1>3. e \in Nat /\ e # 0 /\ Len(Behind(u, 5)) < e
  BY <1>1, <1>2, LimitNat DEF U64
<1>4. DeserializeMsgSlice(u) = Error("EOF")
  BY <1>1, <1>3 DEF DeserializeMsgSlice
<1> QED BY <1>1, <1>4 DEF Deserialize

LEMMA Prefix ==
  ASSUME NEW s \in Seq(Byte), NEW n \in 0..(Len(s) - 1)
  PROVE  LET u == SubSeq(s, 1, n)
         IN  u \in Seq(Byte) /\ Len(u) = n /\ (n > 0 => u[1] = s[1]) /\ n \in Nat /\ n < Len(s)
OBVIOUS

(* What FramesReadBack says of a frame, for any bytes behind it. *)
ReadsBack(p) ==
  /\ Serialize(p) \in Seq(Byte)
  /\ \A t \in Seq(Byte) : Deserialize(Serialize(p) \o t) = p
  /\ \A n \in 0..(Len(Serialize(p)) - 1) : Deserialize(SubSeq(Serialize(p), 1, n)) = Error("EOF")

LEMMA ResetReadsBack ==
  ASSUME NEW epoch \in OptEpoch(U64), NEW request \in BOOLEAN
  PROVE  ReadsBack([kind |-> "Reset", epoch |-> epoch, request |-> request])
<1> DEFINE p == [kind |-> "Reset", epoch |-> epoch, request |-> request]
           a == OptEpochToInt(epoch)
           r == IF request THEN 1 ELSE 0
           h == Ints1(0, a)
           s == h \o <<r>>
<1>1. a \in U64 /\ FromInt(a) = epoch
  BY BaseAssumption, LimitNat DEF OptEpoch, OptEpochToInt, FromInt, U64
<1>2. r \in Byte /\ (r # 0) = request
  BY BaseAssumption DEF Byte
<1>3. Serialize(p) = s
  BY DEF Serialize, Ints1
<1> HIDE DEF a, r, p
<1>4. Encodes(h, 0, <<a>>) /\ Len(h) = 9 /\ <<a>> \in Seq(U64) /\ h \in Seq(Byte)
  <2>1. Encodes(h, 0, <<a>>) /\ Len(h) = 1 + 8 * Len(<<a>>) /\ Len(<<a>>) = 1 /\ <<a>> \in Seq(U64)
    BY <1>1, Encodes1
  <2>2. Len(h) = 9
    BY <2>1
  <2>3. h \in Seq(Byte)
    BY <2>1, Zenon DEF Encodes
  <2> QED BY <2>1, <2>2, <2>3, Zenon
<1>5. <<r>> \in Seq(Byte) /\ Len(<<r>>) = 1 /\ <<r>>[1] = r
  BY <1>2
<1>6. Encodes(s, 0, <<a>>)
  BY <1>4, <1>5, EncodesMore
<1> HIDE DEF h
<1>7. s \in Seq(Byte) /\ Len(s) = 10 /\ s[10] = r
  <2> DEFINE t == <<r>>
  <2>1. t \in Seq(Byte) /\ Len(t) = 1 /\ t[1] = r /\ h \in Seq(Byte) /\ Len(h) = 9
    BY <1>4, <1>5
  <2>2. s = h \o t
    OBVIOUS
  <2> HIDE DEF t, s
  <2>3. s \in Seq(Byte) /\ Len(s) = Len(h) + Len(t) /\ \A i \in 1..Len(t) : s[Len(h) + i] = t[i]
    <3>1. h \in Seq(Byte) /\ t \in Seq(Byte)
      BY <2>1
    <3>2. h \o t \in Seq(Byte) /\ Len(h \o t) = Len(h) + Len(t)
      BY ONLY <3>1, FirstPart, Zenon
    <3>3. \A i \in 1..Len(t) : (h \o t)[Len(h) + i] = t[i]
      BY ONLY <3>1, SecondPart, Zenon
    <3> QED BY ONLY <2>2, <3>2, <3>3, Zenon
  <2>4. Len(s) = 10 /\ s[9 + 1] = t[1]
    BY <2>1, <2>3
  <2> QED BY <2>1, <2>3, <2>4
<1>8. s[1] = 0
  BY <1>6, Zenon DEF Encodes
<1> HIDE DEF s
<1>9. ASSUME NEW t \in Seq(Byte)
      PROVE  Deserialize(s \o t) = p
  <2> DEFINE u == s \o t
  <2>1. Encodes(u, 0, <<a>>)
    BY <1>4, <1>6, EncodesMore
  <2>2. Len(u) >= 10 /\ u[10] = r
    <3>1. Len(u) = Len(s) + Len(t) /\ Len(t) \in Nat /\ \A i \in 1..Len(s) : u[i] = s[i]
      BY <1>7, FirstPart, LenProperties
    <3> QED BY <1>7, <3>1
  <2> HIDE DEF u
  <2>3. Deserialize(u) = [kind |-> "Reset", epoch |-> FromInt(a), request |-> u[10] # 0]
    BY <1>1, <2>1, <2>2, ReadReset
  <2>4. Deserialize(u) = p
    BY <1>1, <1>2, <2>2, <2>3, Zenon DEF p
  <2> QED BY <2>4 DEF u
<1>10. ASSUME NEW n \in 0..(Len(s) - 1)
       PROVE  Deserialize(SubSeq(s, 1, n)) = Error("EOF")
  <2> DEFINE u == SubSeq(s, 1, n)
  <2>1. u \in Seq(Byte) /\ Len(u) = n /\ (n > 0 => u[1] = s[1]) /\ n \in Nat /\ n < Len(s)
    BY <1>7, Prefix, Zenon
  <2> HIDE DEF u
  <2>2. (Len(u) = 0 \/ u[1] = 0) /\ Len(u) < 10
    BY <1>7, <1>8, <2>1
  <2>3. Deserialize(u) = Error("EOF")
    BY <2>1, <2>2, CutShort
  <2> QED BY <2>3 DEF u
<1>11. Serialize(p) \in Seq(Byte) /\ Serialize(p) = s
  BY <1>3, <1>7 DEF s
<1>12. ReadsBack(p)
  BY <1>9, <1>10, <1>11, Zenon DEF ReadsBack
<1> QED BY <1>12 DEF p

LEMMA AckReadsBack ==
  ASSUME NEW a \in U64, NEW b \in U64, NEW c \in U64
  PROVE  ReadsBack([kind |-> "Ack", epoch |-> a, seq |-> b, last_index |-> c])
<1> DEFINE p == [kind |-> "Ack", epoch |-> a, seq |-> b, last_index |-> c]
           s == Ints3(1, a, b, c)
<1>1. Serialize(p) = s
  BY DEF Serialize, Ints3, Ints2, Ints1
<1> HIDE DEF p
<1>2. Encodes(s, 1, <<a, b, c>>) /\ Len(s) = 25 /\ <<a, b, c>> \in Seq(U64)
  BY Encodes3
<1> HIDE DEF s
<1>3. s \in Seq(Byte) /\ s[1] = 1
  BY <1>2, Zenon DEF Encodes
<1>4. ASSUME NEW t \in Seq(Byte)
      PROVE  Deserialize(s \o t) = p
  <2> DEFINE u == s \o t
  <2>1. Encodes(u, 1, <<a, b, c>>)
    BY <1>2, EncodesMore, Zenon
  <2>2. Len(u) >= 25
    <3>1. Len(u) = Len(s) + Len(t) /\ Len(t) \in Nat
      BY <1>3, FirstPart, LenProperties
    <3> QED BY <1>2, <3>1
  <2> HIDE DEF u
  <2>3. Deserialize(u) = p
    BY <2>1, <2>2, ReadAck DEF p
  <2> QED BY <2>3 DEF u
<1>5. ASSUME NEW n \in 0..(Len(s) - 1)
      PROVE  Deserialize(SubSeq(s, 1, n)) = Error("EOF")
  <2> DEFINE u == SubSeq(s, 1, n)
  <2>1. u \in Seq(Byte) /\ Len(u) = n /\ (n > 0 => u[1] = s[1]) /\ n \in Nat /\ n < Len(s)
    BY <1>3, Prefix, Zenon
  <2> HIDE DEF u
  <2>2. (Len(u) = 0 \/ u[1] = 1) /\ Len(u) < 25
    BY <1>2, <1>3, <2>1
  <2>3. Deserialize(u) = Error("EOF")
    BY <2>1, <2>2, CutShort
  <2> QED BY <2>3 DEF u
<1>6. ReadsBack(p)
  BY <1>1, <1>3, <1>4, <1>5, Zenon DEF ReadsBack
<1> QED BY <1>6 DEF p

SliceOf(a, b, c, d, data) == Ints5(2, a, b, c, d, Len(data)) \o data

MsgSlice(a, b, c, d, data) ==
  [kind |-> "MsgSlice", epoch |-> a, seq |-> b, seq_len |-> c, first_index |-> d,
   data |-> data]

LEMMA SliceBytes ==
  ASSUME NEW a \in U64, NEW b \in U64, NEW c \in U64, NEW d \in U64, NEW data \in Seq(Byte),
         Len(data) \in U64
  PROVE  /\ Encodes(SliceOf(a, b, c, d, data), 2, <<a, b, c, d, Len(data)>>)
         /\ <<a, b, c, d, Len(data)>> \in Seq(U64) /\ Len(<<a, b, c, d, Len(data)>>) = 5
         /\ SliceOf(a, b, c, d, data) \in Seq(Byte)
         /\ Len(SliceOf(a, b, c, d, data)) = 41 + Len(data)
         /\ SliceOf(a, b, c, d, data)[1] = 2
         /\ \A i \in 1..Len(data) : SliceOf(a, b, c, d, data)[41 + i] = data[i]
<1> DEFINE l == Len(data)
           ns == <<a, b, c, d, l>>
           h == Ints5(2, a, b, c, d, l)
           s == h \o data
<1>1. Encodes(h, 2, ns) /\ Len(h) = 41 /\ ns \in Seq(U64) /\ Len(ns) = 5
  <2>1. /\ Encodes(h, 2, ns) /\ ns \in Seq(U64)
        /\ Len(h) = 1 + 8 * Len(ns) /\ Len(ns) = 5
    BY Encodes5
  <2> QED BY <2>1
<1>2. h \in Seq(Byte)
  BY <1>1, Zenon DEF Encodes
<1> HIDE DEF h, ns, l
<1>3. Encodes(s, 2, ns)
  BY <1>1, EncodesMore, Zenon
<1>4. s[1] = 2
  BY <1>3, Zenon DEF Encodes
<1>5. s \in Seq(Byte) /\ Len(s) = 41 + l
  <2>1. s \in Seq(Byte) /\ Len(s) = Len(h) + Len(data)
    BY ONLY <1>2, data \in Seq(Byte), FirstPart, Zenon
  <2> QED BY <1>1, <2>1 DEF l
<1>6. \A i \in 1..l : s[41 + i] = data[i]
  <2>1. \A i \in 1..Len(data) : s[Len(h) + i] = data[i]
    BY ONLY <1>2, data \in Seq(Byte), SecondPart, Zenon
  <2> QED BY <1>1, <2>1 DEF l
<1>7. /\ Encodes(s, 2, ns) /\ ns \in Seq(U64) /\ Len(ns) = 5 /\ s \in Seq(Byte)
      /\ Len(s) = 41 + l /\ s[1] = 2 /\ \A i \in 1..l : s[41 + i] = data[i]
  BY <1>1, <1>3, <1>4, <1>5, <1>6, Zenon
<1> QED BY <1>7, Zenon DEF SliceOf, h, ns, l

LEMMA MsgSliceReadsBack ==
  ASSUME NEW a \in U64, NEW b \in U64, NEW c \in U64, NEW d \in U64, NEW data \in Seq(Byte),
         Len(data) \in U64, Len(data) > 0
  PROVE  /\ ReadsBack(MsgSlice(a, b, c, d, data))
         /\ Len(Serialize(MsgSlice(a, b, c, d, data))) = 41 + Len(data)
<1> DEFINE p == MsgSlice(a, b, c, d, data)
           l == Len(data)
           ns == <<a, b, c, d, l>>
           s == SliceOf(a, b, c, d, data)
<1>1. Serialize(p) = s
  BY DEF Serialize, MsgSlice, SliceOf, Ints5, Ints4, Ints3, Ints2, Ints1
<1>2. /\ Encodes(s, 2, ns) /\ ns \in Seq(U64) /\ Len(ns) = 5 /\ s \in Seq(Byte)
      /\ Len(s) = 41 + l /\ s[1] = 2 /\ \A i \in 1..l : s[41 + i] = data[i]
  BY SliceBytes
<1>3. l \in Nat /\ l > 0
  BY LenProperties
<1> HIDE DEF s, p, ns
<1>4. ASSUME NEW t \in Seq(Byte)
      PROVE  Deserialize(s \o t) = p
  <2> DEFINE u == s \o t
  <2>1. Encodes(u, 2, ns)
    BY <1>2, EncodesMore, Zenon
  <2>2. Len(u) = Len(s) + Len(t) /\ Len(t) \in Nat /\ \A i \in 1..Len(s) : u[i] = s[i]
    <3>1. s \in Seq(Byte)
      BY <1>2
    <3> QED BY ONLY <3>1, t \in Seq(Byte), FirstPart, LenProperties DEF u
  <2> HIDE DEF u
  <2>3. Len(u) >= 41 + l
    BY <1>2, <1>3, <2>2
  <2>4. \A i \in 1..l : u[41 + i] = data[i]
    <3>1. \A i \in 1..l : 41 + i \in 1..Len(s)
      BY <1>2, <1>3
    <3> QED BY <1>2, <2>2, <3>1, Zenon
  <2>5. Deserialize(u) = p
    BY <2>1, <2>3, <2>4, ReadSlice DEF p, ns, MsgSlice
  <2> QED BY <2>5 DEF u
<1>5. ASSUME NEW n \in 0..(Len(s) - 1)
      PROVE  Deserialize(SubSeq(s, 1, n)) = Error("EOF")
  <2> DEFINE u == SubSeq(s, 1, n)
  <2>1. u \in Seq(Byte) /\ Len(u) = n /\ (n > 0 => u[1] = s[1]) /\ n \in Nat /\ n < Len(s)
    BY <1>2, Prefix, Zenon
  <2>2. n >= 41 => Encodes(u, 2, ns)
    <3>1. 1 + 8 * Len(ns) = 41
      BY <1>2
    <3>2. n <= Len(s)
      BY <1>2, <1>3, <2>1
    <3> QED BY <1>2, <2>1, <3>1, <3>2, EncodesCut
  <2> HIDE DEF u
  <2>3. CASE n < 41
    <3>1. (Len(u) = 0 \/ u[1] = 2) /\ Len(u) < 41
      BY <1>2, <2>1, <2>3
    <3>2. Deserialize(u) = Error("EOF")
      BY <2>1, <3>1, CutShort
    <3> QED BY <3>2 DEF u
  <2>4. CASE n >= 41
    <3>1. Encodes(u, 2, ns) /\ Len(u) < 41 + l
      BY <1>2, <2>1, <2>2, <2>4
    <3>2. Deserialize(u) = Error("EOF")
      BY <1>3, <3>1, CutSlice DEF ns
    <3> QED BY <3>2 DEF u
  <2> QED BY <2>1, <2>3, <2>4
<1>6. ReadsBack(p) /\ Len(Serialize(p)) = 41 + l
  BY <1>1, <1>2, <1>4, <1>5, Zenon DEF ReadsBack
<1> QED BY <1>6 DEF p

LEMMA PingReadsBack ==
  ASSUME NEW kind \in {"Ping", "Pong"}
  PROVE  ReadsBack([kind |-> kind])
<1> DEFINE p == [kind |-> kind]
           v == IF kind = "Ping" THEN 3 ELSE 4
           s == <<v>>
<1>1. Serialize(p) = s
  BY DEF Serialize
<1>2. v \in Byte
  BY BaseAssumption DEF Byte
<1>3. s \in Seq(Byte) /\ Len(s) = 1 /\ s[1] = v
  BY <1>2
<1> HIDE DEF s
<1>4. ASSUME NEW t \in Seq(Byte)
      PROVE  Deserialize(s \o t) = p
  <2> DEFINE u == s \o t
  <2>1. u # <<>> /\ u[1] = v
    <3>1. /\ u \in Seq(Byte) /\ Len(u) = Len(s) + Len(t) /\ Len(t) \in Nat
          /\ \A i \in 1..Len(s) : u[i] = s[i]
      BY <1>3, FirstPart, LenProperties
    <3> HIDE DEF u, v
    <3>2. Len(u) > 0 /\ u[1] = v
      BY <1>3, <3>1
    <3> QED BY <3>1, <3>2
  <2> HIDE DEF u
  <2>2. Deserialize(u) = p
    BY <2>1 DEF Deserialize
  <2> QED BY <2>2 DEF u
<1>5. ASSUME NEW n \in 0..(Len(s) - 1)
      PROVE  Deserialize(SubSeq(s, 1, n)) = Error("EOF")
  <2>1. SubSeq(s, 1, n) = <<>>
    BY <1>3
  <2> QED BY <2>1 DEF Deserialize
<1>6. ReadsBack(p)
  BY <1>1, <1>3, <1>4, <1>5, Zenon DEF ReadsBack
<1> QED BY <1>6

(* LinkProtocol::serialize and deserialize: whatever the 64-bit numbers in *)
(* a frame and the bytes of a slice are, deserialize reads the frame back, *)
(* with any bytes behind it, and fails with DeserializeEOF on every proper *)
(* prefix of it.                                                           *)
THEOREM FrameReadsBack ==
  ASSUME NEW p \in Frame(U64, SliceData)
  PROVE  ReadsBack(p) /\ (p.kind = "MsgSlice" => Len(Serialize(p)) = 41 + Len(p.data))
<1>2. CASE p \in [kind : {"Reset"}, epoch : OptEpoch(U64), request : BOOLEAN]
  <2>1. /\ p = [kind |-> "Reset", epoch |-> p.epoch, request |-> p.request]
        /\ p.epoch \in OptEpoch(U64) /\ p.request \in BOOLEAN
    BY <1>2
  <2>2. ReadsBack([kind |-> "Reset", epoch |-> p.epoch, request |-> p.request])
    BY <2>1, ResetReadsBack, Zenon
  <2>3. p.kind # "MsgSlice"
    BY <1>2
  <2> QED BY <2>1, <2>2, <2>3, Zenon
<1>3. CASE p \in [kind : {"Ack"}, epoch : U64, seq : U64, last_index : U64]
  <2>1. /\ p = [kind |-> "Ack", epoch |-> p.epoch, seq |-> p.seq, last_index |-> p.last_index]
        /\ p.epoch \in U64 /\ p.seq \in U64 /\ p.last_index \in U64
    BY <1>3
  <2>2. ReadsBack([kind |-> "Ack", epoch |-> p.epoch, seq |-> p.seq,
                   last_index |-> p.last_index])
    BY <2>1, AckReadsBack, Zenon
  <2>3. p.kind # "MsgSlice"
    BY <1>3
  <2> QED BY <2>1, <2>2, <2>3, Zenon
<1>4. CASE p \in [kind : {"MsgSlice"}, epoch : U64, seq : U64, seq_len : U64,
                  first_index : U64, data : SliceData]
  <2> DEFINE a == p.epoch
             b == p.seq
             c == p.seq_len
             d == p.first_index
             data == p.data
  <2>1. p = MsgSlice(a, b, c, d, data)
    BY <1>4 DEF MsgSlice
  <2>2. a \in U64 /\ b \in U64 /\ c \in U64 /\ d \in U64 /\ data \in SliceData
    BY <1>4
  <2> HIDE DEF a, b, c, d, data
  <2>3. data \in Seq(Byte) /\ Len(data) \in U64 /\ Len(data) # 0
    BY <2>2 DEF SliceData
  <2>4. Len(data) > 0
    BY <2>3, LenProperties
  <2>5. /\ ReadsBack(MsgSlice(a, b, c, d, data))
        /\ Len(Serialize(MsgSlice(a, b, c, d, data))) = 41 + Len(data)
    BY ONLY <2>2, <2>3, <2>4, MsgSliceReadsBack
  <2> QED BY <2>1, <2>5, Zenon DEF data
<1>5. CASE p \in [kind : {"Ping", "Pong"}]
  <2>1. p = [kind |-> p.kind] /\ p.kind \in {"Ping", "Pong"}
    BY <1>5
  <2>2. ReadsBack([kind |-> p.kind])
    BY <2>1, PingReadsBack, Zenon
  <2> QED BY <2>1, <2>2
<1> QED BY <1>2, <1>3, <1>4, <1>5, Zenon DEF Frame

LEMMA FrameProperties ==
  ASSUME NEW p \in Frame(U64, SliceData)
  PROVE  /\ RoundTrips(p) /\ FailsWhenCut(p)
         /\ p.kind = "MsgSlice" =>
              \A max_size \in Nat :
                Len(p.data) <= max_size - OVERHEAD => Len(Serialize(p)) <= max_size
<1> DEFINE s == Serialize(p)
<1>1. ReadsBack(p) /\ (p.kind = "MsgSlice" => Len(s) = 41 + Len(p.data))
  BY FrameReadsBack
<1>2. s \in Seq(Byte)
  BY <1>1 DEF ReadsBack
<1>3. s \o <<>> = s
  BY <1>2
<1>4. <<>> \in Seq(Byte) /\ <<1>> \in Seq(Byte)
  <2>1. 1 \in Byte
    BY BaseAssumption DEF Byte
  <2> QED BY <2>1
<1>5. RoundTrips(p)
  BY <1>1, <1>3, <1>4, Zenon DEF ReadsBack, RoundTrips
<1>6. FailsWhenCut(p)
  BY <1>1 DEF ReadsBack, FailsWhenCut, Error
<1>7. ASSUME p.kind = "MsgSlice", NEW max_size \in Nat,
             Len(p.data) <= max_size - OVERHEAD
      PROVE  Len(s) <= max_size
  <2>1. p.data \in SliceData
    BY <1>7 DEF Frame
  <2>2. Len(p.data) \in Nat
    BY <2>1, LenProperties DEF SliceData
  <2> QED BY <1>1, <1>7, <2>2 DEF OVERHEAD
<1> QED BY <1>5, <1>6, <1>7

LEMMA FrameOfMore ==
  ASSUME NEW N, NEW P, N \subseteq U64, P \subseteq SliceData
  PROVE  Frame(N, P) \subseteq Frame(U64, SliceData)
<1>1. OptEpoch(N) \subseteq OptEpoch(U64)
  BY DEF OptEpoch
<1> SUFFICES ASSUME NEW p \in Frame(N, P) PROVE p \in Frame(U64, SliceData)
  OBVIOUS
<1>2. CASE p \in [kind : {"Reset"}, epoch : OptEpoch(N), request : BOOLEAN]
  BY <1>1, <1>2 DEF Frame
<1>3. CASE p \in [kind : {"Ack"}, epoch : N, seq : N, last_index : N]
  BY <1>3 DEF Frame
<1>4. CASE p \in [kind : {"MsgSlice"}, epoch : N, seq : N, seq_len : N, first_index : N, data : P]
  BY <1>4 DEF Frame
<1>5. CASE p \in [kind : {"Ping", "Pong"}]
  BY <1>5, Zenon DEF Frame
<1> QED BY <1>2, <1>3, <1>4, <1>5, Zenon DEF Frame

LEMMA PingIsFrame == [kind |-> "Ping"] \in Frame(U64, SliceData)
<1>1. [kind |-> "Ping"] \in [kind : {"Ping", "Pong"}]
  OBVIOUS
<1> QED BY <1>1, Zenon DEF Frame

=============================================================================
