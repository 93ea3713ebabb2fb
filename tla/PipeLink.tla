------------------------------ MODULE PipeLink ------------------------------
(***************************************************************************)
(* One direction of a PipeLink pair: src/link_impls/pipe_link.rs.  A chunk *)
(* is one element of a channel, the number of the send it comes from.  The *)
(* link may lose chunks (reliability), delay them (latency), expire, or be *)
(* cancelled; the PipeLinkReader is read through recv or take_reader, and  *)
(* the future of a read may be dropped at each of its awaits.              *)
(***************************************************************************)
EXTENDS Naturals, Sequences

CONSTANT MaxSends   \* bound on the chunks sent

VARIABLES
  latency,     \* PipeLinkBuilder: is there a latency?
  sends,       \* number of sends
  tx,          \* does the sending PipeLink exist?
  rx,          \* the channel; its capacity of 1000 is not reached
  closed,      \* rx.close() was called or rx dropped: is_closed of the sender
  peeked,      \* Option of the reader, as a sequence
  read,        \* the future of read: "none", the await it is at, or "gone" with the reader
  held,        \* the chunk in a local variable of that future
  expiration,  \* "unset", "set", or "due" when its time has passed
  cancel_rx,   \* is there a message of the canceler?
  got          \* the chunks that read has returned

vars == <<latency, sends, tx, rx, closed, peeked, read, held, expiration, cancel_rx, got>>

(* create_pair, as the PipeLinkBuilder says. *)
Init ==
  /\ latency \in BOOLEAN
  /\ sends = 0 /\ tx = TRUE /\ rx = <<>> /\ closed = FALSE
  /\ peeked = <<>> /\ read = "none" /\ held = <<>>
  /\ expiration \in {"unset", "set"}
  /\ cancel_rx = FALSE
  /\ got = <<>>

(* read returns a chunk, or Err(Closed). *)
Returns(chunk) ==
  /\ got' = Append(got, chunk)
  /\ read' = "none"

Fails ==
  /\ read' = "none"
  /\ UNCHANGED got

-----------------------------------------------------------------------------
(* PipeLink::send, with or without the luck of its reliability. *)
Send(succeeds) ==
  /\ tx /\ sends < MaxSends /\ ~closed
  /\ sends' = sends + 1
  /\ rx' = IF succeeds THEN Append(rx, sends + 1) ELSE rx
  /\ UNCHANGED <<latency, tx, closed, peeked, read, held, expiration, cancel_rx, got>>

(* The sending PipeLink is dropped; what it has sent can still be read. *)
DropSender ==
  /\ tx
  /\ tx' = FALSE
  /\ UNCHANGED <<latency, sends, rx, closed, peeked, read, held, expiration, cancel_rx, got>>

(* PipeLinkCanceler::cancel, or the last canceler is dropped. *)
Cancel ==
  /\ cancel_rx' = TRUE
  /\ UNCHANGED <<latency, sends, tx, rx, closed, peeked, read, held, expiration, got>>

Expire ==
  /\ expiration = "set"
  /\ expiration' = "due"
  /\ UNCHANGED <<latency, sends, tx, rx, closed, peeked, read, held, cancel_rx, got>>

(* Mutant: the peeked chunk is cloned and stays. *)
StartReadClone ==
  /\ read = "none"
  /\ read' = IF peeked # <<>> THEN "again" ELSE "select"
  /\ held' = peeked
  /\ UNCHANGED <<latency, sends, tx, rx, closed, peeked, expiration, cancel_rx, got>>

(* read: a chunk that was peeked is taken first. *)
StartRead ==
  /\ read = "none"
  /\ read' = IF peeked # <<>> THEN "again" ELSE "select"
  /\ held' = peeked
  /\ peeked' = <<>>
  /\ UNCHANGED <<latency, sends, tx, rx, closed, expiration, cancel_rx, got>>

(* The latency of the peeked chunk is over. *)
ReadAgain ==
  /\ read = "again"
  /\ held' = <<>>
  /\ IF expiration = "due"
     THEN closed' = TRUE /\ Fails
     ELSE closed' = closed /\ Returns(Head(held))
  /\ UNCHANGED <<latency, sends, tx, rx, peeked, expiration, cancel_rx>>

(* The branches of the biased select. *)
SelectCancel ==
  /\ read = "select"
  /\ cancel_rx
  /\ cancel_rx' = FALSE
  /\ closed' = TRUE
  /\ Fails
  /\ UNCHANGED <<latency, sends, tx, rx, peeked, held, expiration>>

(* Mutant: the channel stays open. *)
SelectExpiredOpen ==
  /\ read = "select"
  /\ ~cancel_rx /\ expiration = "due"
  /\ expiration' = "unset"
  /\ Fails
  /\ UNCHANGED <<latency, sends, tx, rx, closed, peeked, held, cancel_rx>>

SelectExpired ==
  /\ read = "select"
  /\ ~cancel_rx /\ expiration = "due"
  /\ expiration' = "unset"
  /\ closed' = TRUE
  /\ Fails
  /\ UNCHANGED <<latency, sends, tx, rx, peeked, held, cancel_rx>>

SelectChunk ==
  /\ read = "select"
  /\ ~cancel_rx /\ expiration # "due"
  /\ rx # <<>>
  /\ rx' = Tail(rx)
  /\ IF latency
     THEN peeked' = <<Head(rx)>> /\ read' = "sleep" /\ UNCHANGED got
     ELSE peeked' = <<>> /\ Returns(Head(rx))
  /\ UNCHANGED <<latency, sends, tx, closed, held, expiration, cancel_rx>>

(* rx is empty, and closed or without a sender. *)
SelectClosed ==
  /\ read = "select"
  /\ ~cancel_rx /\ expiration # "due"
  /\ closed \/ ~tx
  /\ rx = <<>>
  /\ Fails
  /\ UNCHANGED <<latency, sends, tx, rx, closed, peeked, held, expiration, cancel_rx>>

(* The latency of the chunk from rx is over. *)
ReadSleeps ==
  /\ read = "sleep"
  /\ Returns(Head(peeked))
  /\ peeked' = <<>>
  /\ UNCHANGED <<latency, sends, tx, rx, closed, held, expiration, cancel_rx>>

(* The future of read is dropped at an await. *)
DropRead ==
  /\ read \notin {"none", "gone"}
  /\ read' = "none"
  /\ held' = <<>>
  /\ UNCHANGED <<latency, sends, tx, rx, closed, peeked, expiration, cancel_rx, got>>

(* The PipeLinkReader is dropped, by the reader task of the LinkEntry or   *)
(* with the PipeLink.                                                      *)
DropReader ==
  /\ read = "none"
  /\ read' = "gone"
  /\ closed' = TRUE
  /\ rx' = <<>> /\ peeked' = <<>>
  /\ UNCHANGED <<latency, sends, tx, held, expiration, cancel_rx, got>>

Step ==
  \/ ReadAgain
  \/ SelectCancel
  \/ SelectExpired
  \/ SelectChunk
  \/ SelectClosed
  \/ ReadSleeps

Next ==
  \/ \E succeeds \in BOOLEAN : Send(succeeds)
  \/ DropSender
  \/ Cancel
  \/ Expire
  \/ StartRead
  \/ Step
  \/ DropRead
  \/ DropReader

Spec == Init /\ [][Next]_vars

(* The reader task of the LinkEntry reads again and again and drops no     *)
(* future: StartRead is weakly fair, and Step strongly, since it is a Link *)
(* still read with recv that drops them.                                   *)

-----------------------------------------------------------------------------
(* The chunks read are chunks that were sent, in their order and at most   *)
(* once, also when futures of read are dropped while they hold one.        *)
ReadOnceInOrder ==
  /\ \A i \in DOMAIN got : got[i] \in 1..sends
  /\ \A i, j \in DOMAIN got : i < j => got[i] < got[j]

(* A link that was cancelled, or has expired, is found closed by the other *)
(* end (is_closed), if it is read: also when futures of read are dropped,  *)
(* and whatever chunk they hold.                                           *)
CloseIsNoticed == (cancel_rx \/ expiration = "due") ~> closed

=============================================================================
