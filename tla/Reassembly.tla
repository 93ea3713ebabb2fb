----------------------------- MODULE Reassembly -----------------------------
(***************************************************************************)
(* One message of Size bytes between the SliceManager of its sender and    *)
(* the SliceManager of its receiver.  Slices arrive in any order, any      *)
(* number of times, cut at any offset (links have different sizes and a    *)
(* resend starts after the acknowledged part); acknowledgements arrive in  *)
(* any order too.                                                          *)
(***************************************************************************)
EXTENDS SliceManager

CONSTANT Size

ASSUME SizeAssumption == Size \in Nat \ {0}

VARIABLES
  buf,        \* the receiver's SliceManager
  outgoing,   \* the ranges of the sender's SliceManager
  acked       \* history: the furthest last_index the sender was told of

vars == <<buf, outgoing, acked>>

Indices == 0..(Size - 1)

Init ==
  /\ buf = NewBuffer(Size)
  /\ outgoing = FromVec(Size)
  /\ acked = 0

RecvSliceStep(first, len) ==
  /\ buf' = RecvSlice(buf, first, len)
  /\ UNCHANGED <<outgoing, acked>>

(* SliceManager::ack.  A whole message is acknowledged with the number of  *)
(* the next one, so last_index is never that of the last byte.             *)
AckStep(last) ==
  /\ outgoing' = RemoveHead(outgoing, last)
  /\ acked' = Max({acked, last})
  /\ UNCHANGED buf

Next ==
  \/ \E first \in Indices, len \in 1..Size : RecvSliceStep(first, len)
  \/ \E last \in 0..(Size - 2) : AckStep(last)

Spec == Init /\ [][Next]_vars

-----------------------------------------------------------------------------

(* BTreeMap of src/slice_manager.rs:10: after any series of add_slice      *)
(* calls the ranges are non-empty, disjoint and not even adjacent, so      *)
(* is_full's test for a single range recognises a complete message.        *)
SlicesSeparated ==
  \A s \in DOMAIN buf.slices :
    /\ s <= buf.slices[s]
    /\ \A t \in DOMAIN buf.slices : s < t => buf.slices[s] + 1 < t

(* Neither side forgets a byte.  What was copied into the buffer stays     *)
(* inside the ranges of the receiver, however slices overlap or repeat,    *)
(* and every byte after the furthest acknowledged one stays in those of    *)
(* the sender, however acknowledgements are repeated or reordered.         *)
NothingForgotten ==
  /\ buf.data \subseteq Span(buf.slices)
  /\ ((acked + 1)..(Size - 1)) \subseteq Span(outgoing)

(* add_slice is exact when no gap follows the new slice: no range starts   *)
(* beyond the next byte, or a range that starts within reach runs past the *)
(* slice.  Then the recorded ranges grow by exactly the bytes of the       *)
(* slice.  (Without that condition they do not: see WholeMessages of       *)
(* MessageTransfer.)                                                       *)
ExactWithoutRightGap ==
  \A first \in Indices : \A last \in first..(Size - 1) :
    (\/ \A s \in DOMAIN buf.slices : s <= last + 1
     \/ \E s \in DOMAIN buf.slices : s \in first..(last + 1) /\ buf.slices[s] > last)
       => Span(AddSlice(buf.slices, first, last)) = Span(buf.slices) \cup (first..last)

=============================================================================
