--------------------------- MODULE MessageManager ---------------------------
(***************************************************************************)
(* src/message_manager.rs: the messages of one epoch.  `outgoing` maps the *)
(* sequence number of a message to the ranges still to be acknowledged,    *)
(* `incoming` maps it to the buffer it is reassembled in, `last_ack` is    *)
(* the pair (seq, offset) acknowledged last.  The operators return the new *)
(* value of the field they update.                                         *)
(***************************************************************************)
EXTENDS SliceManager

(* insert_msg: the new message gets the next sequence number. *)
InsertMsg(outgoing, next_seq, len) == With(outgoing, next_seq, FromVec(len))

(* Mutant: message seq itself is taken for done. *)
RecvAckDone(outgoing, seq, last_index) ==
  Without(outgoing, {s \in DOMAIN outgoing : s <= seq})

(* recv_ack: messages before seq are done, message seq is done up to and   *)
(* including last_index.                                                   *)
RecvAck(outgoing, seq, last_index) ==
  LET kept  == Without(outgoing, {s \in DOMAIN outgoing : s < seq})
      acked == RemoveHead(kept[seq], last_index)
  IN  IF seq \notin DOMAIN kept THEN kept
      ELSE IF IsEmpty(acked) THEN Without(kept, {seq})
      ELSE With(kept, seq, acked)

(* recv_in_range *)
RecvInRange(last_ack, seq, first_index, seq_len) ==
  /\ seq >= last_ack[1]
  /\ seq > last_ack[1] \/ first_index + seq_len > last_ack[2]

(* Mutant: every slice starts a new buffer. *)
StoreAnew(incoming, seq, seq_len, first_index, len) ==
  With(incoming, seq, RecvSlice(NewBuffer(seq_len), first_index, len))

(* recv, lines 85-90: the buffer of the message, created on its first      *)
(* slice, takes the slice.                                                 *)
Store(incoming, seq, seq_len, first_index, len) ==
  LET buf == IF seq \in DOMAIN incoming THEN incoming[seq] ELSE NewBuffer(seq_len)
  IN  With(incoming, seq, RecvSlice(buf, first_index, len))

Complete(incoming, seq) == seq \in DOMAIN incoming /\ IsFull(incoming[seq])

(* recv, lines 109-132: starting at `seq`, the loop passes over complete   *)
(* consecutive messages and stops at message `stop`.                       *)
StopsAt(incoming, seq, stop) ==
  /\ stop >= seq
  /\ \A s \in seq..(stop - 1) : Complete(incoming, s)
  /\ ~Complete(incoming, stop)

(* The last_ack it leaves there. *)
AckAt(incoming, stop) ==
  <<stop, IF stop \in DOMAIN incoming THEN LastHeadIndex(incoming[stop].slices) ELSE 0>>

(* did_change, the value recv returns when the slice was for last_ack.0:   *)
(* TRUE when a message was completed, otherwise when the pair is the same  *)
(* as before (line 127 compares with `==`).                                *)
DidChange(last_ack, new_ack) == new_ack[1] # last_ack[1] \/ new_ack = last_ack

(* Mutant: take_recvd takes the message that last_ack.0 names too. *)
TakenInclusive(incoming, last_ack) == {s \in DOMAIN incoming : s <= last_ack[1]}

(* take_recvd: the messages before last_ack.0, in the order of the map.    *)
Taken(incoming, last_ack) == {s \in DOMAIN incoming : s < last_ack[1]}

(* Mutant: the last key of the map first. *)
Descending(S) ==
  [i \in 1..Cardinality(S) |-> CHOOSE s \in S : Cardinality({t \in S : t > s}) = i - 1]

Ascending(S) ==
  [i \in 1..Cardinality(S) |-> CHOOSE s \in S : Cardinality({t \in S : t < s}) = i - 1]

=============================================================================
