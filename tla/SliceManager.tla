---------------------------- MODULE SliceManager ----------------------------
(***************************************************************************)
(* The byte ranges of one message, src/slice_manager.rs.                   *)
(*                                                                         *)
(* `slices` is the BTreeMap of the source: a function from the first index *)
(* of a range to its last index.  A sender keeps in it the ranges it still *)
(* has to send, a receiver the ranges it believes it holds.  The payload   *)
(* is not modelled byte by byte: a receiver's buffer is the set `data` of  *)
(* the indices a slice was really copied to, which is what tells a whole   *)
(* message from one with a hole in it.                                     *)
(*                                                                         *)
(* The loops of add_slice, remove_slice and make_slices are written in     *)
(* closed form.  SliceManagerLoops holds the loops step by step, and       *)
(* Data_proofs shows that they compute the closed forms.                   *)
(***************************************************************************)
EXTENDS Naturals, FiniteSets, FiniteSetsExt

NoSlices == [s \in {} |-> 0]

(* SliceManager::new(epoch, seq, size): a buffer nothing was written to. *)
NewBuffer(size) == [size |-> size, slices |-> NoSlices, data |-> {}]

(* SliceManager::from_vec: one range for the whole message, none if empty. *)
FromVec(len) == IF len = 0 THEN NoSlices ELSE [s \in {0} |-> len - 1]

(* is_empty *)
IsEmpty(slices) == DOMAIN slices = {}

(* is_full: the only range is the whole message. *)
IsFull(buf) == buf.size > 0 /\ buf.slices = [s \in {0} |-> buf.size - 1]

(* last_head_index().unwrap_or_default(): the end of the range that starts *)
(* at index 0, or 0 when there is no such range.                           *)
LastHeadIndex(slices) == IF 0 \in DOMAIN slices THEN slices[0] ELSE 0

Without(slices, starts) == [s \in DOMAIN slices \ starts |-> slices[s]]

With(slices, start, end) ==
  [s \in DOMAIN slices \cup {start} |-> IF s = start THEN end ELSE slices[s]]

(* The indices the ranges span. *)
Span(slices) == UNION {s..slices[s] : s \in DOMAIN slices}

-----------------------------------------------------------------------------

(* The ranges that add_slice's first loop removes: those that start inside *)
(* or after the new one, up to and including the first that ends beyond it.*)
Swallowed(slices, start, end) ==
  LET right  == {s \in DOMAIN slices : s >= start}
      beyond == {s \in right : slices[s] > end}
  IN  IF beyond = {} THEN right ELSE {s \in right : s <= Min(beyond)}

(* Mutant: ranges that only touch are not joined. *)
AddSliceNoTouch(slices, start, end) ==
  LET gone   == Swallowed(slices, start, end)
      newEnd == Max({end} \cup {slices[s] : s \in gone})
      rest   == Without(slices, gone)
      before == {s \in DOMAIN rest : s < start}
      prev   == Max(before)
  IN  IF before # {} /\ rest[prev] >= newEnd THEN rest
      ELSE IF before # {} /\ rest[prev] >= start
           THEN [rest EXCEPT ![prev] = newEnd]
           ELSE With(rest, start, newEnd)

(* Mutant: the end of the ranges that were swallowed is not carried over. *)
AddSliceCut(slices, start, end) ==
  LET rest   == Without(slices, Swallowed(slices, start, end))
      before == {s \in DOMAIN rest : s < start}
      prev   == Max(before)
  IN  IF before # {} /\ rest[prev] >= end THEN rest
      ELSE IF before # {} /\ rest[prev] >= start - 1
           THEN [rest EXCEPT ![prev] = end]
           ELSE With(rest, start, end)

(* Mutant: the range to the left is extended whether or not it reaches. *)
AddSliceReach(slices, start, end) ==
  LET gone   == Swallowed(slices, start, end)
      newEnd == Max({end} \cup {slices[s] : s \in gone})
      rest   == Without(slices, gone)
      before == {s \in DOMAIN rest : s < start}
      prev   == Max(before)
  IN  IF before = {} THEN With(rest, start, newEnd)
      ELSE IF rest[prev] >= newEnd THEN rest
      ELSE [rest EXCEPT ![prev] = newEnd]

AddSlice(slices, start, end) ==
  LET gone   == Swallowed(slices, start, end)
      newEnd == Max({end} \cup {slices[s] : s \in gone})
      rest   == Without(slices, gone)
      before == {s \in DOMAIN rest : s < start}
      prev   == Max(before)
  IN  IF before # {} /\ rest[prev] >= newEnd THEN rest
      ELSE IF before # {} /\ rest[prev] >= start - 1
           THEN [rest EXCEPT ![prev] = newEnd]
           ELSE With(rest, start, newEnd)

(* Mutant: what is left of a range that runs past `end` is not put back. *)
RemoveHeadAll(slices, end) ==
  IF end = 0 THEN slices ELSE Without(slices, {s \in DOMAIN slices : s <= end})

(* remove_slice(0, end), the only way it is called (by ack): no range can  *)
(* start before 0, so the branch for a range to the left is never taken.   *)
(* The call does nothing when end = 0, "empty slices should be ignored".   *)
RemoveHead(slices, end) ==
  LET beyond == {s \in DOMAIN slices : slices[s] > end}
      first  == Min(beyond)
  IN  IF end = 0 THEN slices
      ELSE IF beyond = {} THEN NoSlices
      ELSE With(Without(slices, {s \in DOMAIN slices : s <= first}),
                end + 1, slices[first])

(* recv_slice: the data is capped at the end of the buffer, a slice that   *)
(* starts past the end is ignored.                                         *)
RecvSlice(buf, first, len) ==
  LET last == Min({first + len - 1, buf.size - 1})
  IN  IF last < first THEN buf
      ELSE [buf EXCEPT !.slices = AddSlice(@, first, last),
                       !.data = @ \cup (first..last)]

(* Mutant: the loop stops one index short. *)
MakeSlicesShort(start, end, size) ==
  {<<c, Min({size, end - c})>> : c \in {i \in start..(end - 1) : (i - start) % size = 0}}

(* make_slices and get_slices: every range is cut into pieces of at most   *)
(* `size` bytes, given here as <<first index, length>>.                    *)
MakeSlices(start, end, size) ==
  {<<c, Min({size, end + 1 - c})>> : c \in {i \in start..end : (i - start) % size = 0}}

GetSlices(slices, size) ==
  IF size = 0 THEN {}
  ELSE UNION {MakeSlices(s, slices[s], size) : s \in DOMAIN slices}

=============================================================================
