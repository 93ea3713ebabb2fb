-------------------------- MODULE SliceManagerLoops --------------------------
(***************************************************************************)
(* One call of add_slice, remove_slice or make_slices of                   *)
(* src/slice_manager.rs, one iteration of its loop at a time, as the       *)
(* reference for the closed forms of SliceManager.                         *)
(* `call` and the variables below it live on the stack of the call, Size   *)
(* is data.len().                                                          *)
(***************************************************************************)
EXTENDS Reassembly

VARIABLES
  call,    \* the function, the ranges it finds and its arguments
  slices,  \* self.slices
  cursor,
  end,
  ret,     \* the pieces that make_slices has pushed, as in MakeSlices
  pc       \* in the loop, behind it in add_slice ("left"), or "done"

callvars == <<call, slices, cursor, end, ret, pc>>

(* What a receiver's ranges can be: any that do not touch. *)
Received ==
  {ranges \in UNION {[starts -> Indices] : starts \in SUBSET Indices} :
     \A s \in DOMAIN ranges :
       s <= ranges[s] /\ \A t \in DOMAIN ranges : s < t => ranges[s] + 1 < t}

(* What a sender's can be: what is left of the message behind the ack; an  *)
(* ack of index 0 takes nothing away.                                      *)
Unsent == {[s \in {first} |-> Size - 1] : first \in Indices \ {1}}

(* recv_slice calls add_slice with a range inside the buffer, ack calls    *)
(* remove_slice from 0 and get_slices calls make_slices for each range;    *)
(* a size beyond Size cuts as Size does.                                   *)
Calls ==
  [fn : {"add"}, slices : Received, start : Indices, end : Indices, size : {0}]
    \cup [fn : {"remove"}, slices : Unsent, start : {0}, end : Indices, size : {0}]
    \cup [fn : {"make"}, slices : Unsent, start : Indices, end : {Size - 1}, size : 0..Size]

(* remove_slice returns when start = end, make_slices when size = 0. *)
InitCall ==
  /\ call \in Calls /\ call.start <= call.end
  /\ call.fn = "make" => call.start \in DOMAIN call.slices
  /\ slices = call.slices /\ cursor = call.start /\ end = call.end /\ ret = {}
  /\ pc = IF \/ call.fn = "remove" /\ call.start = call.end
             \/ call.fn = "make" /\ call.size = 0
          THEN "done" ELSE "loop"

(* self.slices.range_mut(cursor..).next() *)
Right == {s \in DOMAIN slices : s >= cursor}
next_start == Min(Right)
next_end == slices[next_start]

In(fn) == pc = "loop" /\ call.fn = fn

(* The body of add_slice's `while let`.  Its last test, cursor > end, is   *)
(* true only of a range that has left the loop already.                    *)
AddIteration ==
  /\ In("add") /\ Right # {}
  /\ cursor' = next_end
  /\ slices' = Without(slices, {next_start})
  /\ IF next_end <= end THEN UNCHANGED <<end, pc>> ELSE end' = next_end /\ pc' = "left"
  /\ UNCHANGED <<call, ret>>

(* What follows that loop: the range to the left. *)
AddLeft ==
  LET before == {s \in DOMAIN slices : s < call.start}
      prev   == Max(before)
  IN  /\ pc = "left" \/ (In("add") /\ Right = {})
      /\ slices' = IF before # {} /\ slices[prev] >= end THEN slices
                   ELSE IF before # {} /\ slices[prev] >= call.start - 1
                        THEN [slices EXCEPT ![prev] = end]
                        ELSE With(slices, call.start, end)
      /\ pc' = "done"
      /\ UNCHANGED <<call, cursor, end, ret>>

(* The body of remove_slice's `while let`.  Its last test, cursor > end,   *)
(* is true just when the rest of the range has been put back.              *)
RemoveIteration ==
  /\ In("remove") /\ Right # {}
  /\ cursor' = next_end
  /\ IF next_end <= end
     THEN slices' = Without(slices, {next_start}) /\ UNCHANGED pc
     ELSE slices' = With(Without(slices, {next_start}), end + 1, next_end) /\ pc' = "done"
  /\ UNCHANGED <<call, end, ret>>

RemoveReturn ==
  /\ In("remove") /\ Right = {}
  /\ pc' = "done"
  /\ UNCHANGED <<call, slices, cursor, end, ret>>

(* The body of make_slices's `loop`. *)
MakeIteration ==
  LET slice_end == Min({Min({cursor + call.size - 1, end}), Size - 1})
  IN  /\ In("make")
      /\ IF slice_end < cursor THEN pc' = "done" /\ UNCHANGED <<cursor, ret>>
         ELSE /\ ret' = ret \cup {<<cursor, slice_end + 1 - cursor>>}
              /\ cursor' = cursor + call.size
              /\ pc' = IF cursor' > end THEN "done" ELSE pc
      /\ UNCHANGED <<call, slices, end>>

NextCall == AddIteration \/ AddLeft \/ RemoveIteration \/ RemoveReturn \/ MakeIteration

SpecCall == InitCall /\ [][NextCall]_callvars

-----------------------------------------------------------------------------
(* When a call returns, its loop has computed the closed form: add_slice   *)
(* AddSlice, remove_slice RemoveHead and make_slices what GetSlices has    *)
(* for that range.                                                         *)
ClosedFormsAgree ==
  pc = "done" =>
    /\ call.fn = "add" => slices = AddSlice(call.slices, call.start, call.end)
    /\ call.fn = "remove" => slices = RemoveHead(call.slices, call.end)
    /\ call.fn = "make" => ret = GetSlices(call.slices, call.size)

=============================================================================
