--------------------------- MODULE MessageTransfer ---------------------------
(***************************************************************************)
(* One direction of an established session: the MessageManager of the      *)
(* sending side, the MessageManager of the receiving side, and the links   *)
(* between them.  A link promises neither order nor delivery               *)
(* (src/links/link.rs:14-16), and the timer resends, so what is in flight  *)
(* is a set from which a frame may be read any number of times.            *)
(*                                                                         *)
(* Both sides stay in one epoch.  A side that loses its links goes to      *)
(* Reconnecting or GracePeriod and comes back to Connected with the same   *)
(* MessageManager; `up` tells which sides are Connected.                   *)
(***************************************************************************)
EXTENDS MessageManager, Sequences

CONSTANTS
  MaxMsgs,    \* bound on the messages sent in the epoch
  Lengths,    \* lengths of the messages the user sends
  Sizes,      \* payload sizes of the links (LinkEntry::max_size)
  Flaky       \* the sides that may lose all their links

ASSUME TransferAssumption ==
  /\ MaxMsgs \in Nat
  /\ Lengths \subseteq Nat
  /\ Sizes \subseteq Nat \ {0}
  /\ Flaky \subseteq {"sender", "receiver"}

VARIABLES
  outgoing,   \* sender: MessageManager.outgoing_slices
  sent,       \* sender, history: length of every message; Len(sent) is next_seq
  incoming,   \* receiver: MessageManager.incoming_slices
  last_ack,   \* receiver: MessageManager.last_ack
  delivered,  \* receiver, history: the messages handed to the user
  panicked,   \* receiver: the unwrap of take_recvd failed
  net,        \* the frames in flight
  up          \* the sides that are Connected

vars == <<outgoing, sent, incoming, last_ack, delivered, panicked, net, up>>
receiver == <<incoming, last_ack, delivered, panicked>>

Sides == {"sender", "receiver"}

SliceFrames(seq, size) ==
  {[kind |-> "slice", seq |-> seq, seq_len |-> sent'[seq + 1], first |-> s[1], len |-> s[2]]
     : s \in GetSlices(outgoing'[seq], size)}

AckFrame(ack) == [kind |-> "ack", seq |-> ack[1], last |-> ack[2]]

Init ==
  /\ outgoing = NoSlices
  /\ sent = <<>>
  /\ incoming = NoSlices
  /\ last_ack = <<0, 0>>
  /\ delivered = <<>>
  /\ panicked = FALSE
  /\ net = {}
  /\ up = Sides

-----------------------------------------------------------------------------
(* The sending side. *)

(* ctrl_msg(Message): Connected inserts the message and sends its slices,  *)
(* Reconnecting and GracePeriod only insert it.                            *)
Send(len) ==
  /\ Len(sent) < MaxMsgs
  /\ outgoing' = InsertMsg(outgoing, Len(sent), len)
  /\ sent' = Append(sent, len)
  /\ IF "sender" \in up
     THEN \E size \in Sizes : net' = net \cup SliceFrames(Len(sent), size)
     ELSE UNCHANGED net
  /\ UNCHANGED <<receiver, up>>

(* Mutant: the latest outstanding message is sent again instead. *)
ResendLatest ==
  /\ "sender" \in up
  /\ DOMAIN outgoing # {}
  /\ UNCHANGED <<outgoing, sent>>
  /\ \E size \in Sizes : net' = net \cup SliceFrames(Max(DOMAIN outgoing), size)
  /\ UNCHANGED <<receiver, up>>

(* Connected::timer: only the earliest outstanding message is sent again.  *)
ResendEarliest ==
  /\ "sender" \in up
  /\ DOMAIN outgoing # {}
  /\ UNCHANGED <<outgoing, sent>>
  /\ \E size \in Sizes : net' = net \cup SliceFrames(Min(DOMAIN outgoing), size)
  /\ UNCHANGED <<receiver, up>>

(* link_msg(Ack), in Connected, Reconnecting and GracePeriod. *)
DeliverAck(m) ==
  /\ m \in net
  /\ m.kind = "ack"
  /\ UNCHANGED <<sent, receiver, net, up>>
  /\ outgoing' = RecvAck(outgoing, m.seq, m.last)

-----------------------------------------------------------------------------
(* The receiving side. *)

(* Mutant: the messages handed over stay in the map. *)
TakeRecvdKeeps(stored) ==
  LET taken == Taken(stored, last_ack')
      order == Ascending(taken)
  IN  /\ incoming' = stored
      /\ delivered' = delivered \o
           [i \in DOMAIN order |-> [seq |-> order[i], data |-> stored[order[i]].data]]
      /\ UNCHANGED panicked

(* take_recvd and the loop that hands its messages to the user. *)
TakeRecvd(stored) ==
  LET taken == Taken(stored, last_ack')
      order == Ascending(taken)
  IN  /\ incoming' = Without(stored, taken)
      /\ IF \A s \in taken : IsFull(stored[s])
         THEN /\ delivered' = delivered \o
                   [i \in DOMAIN order |-> [seq |-> order[i], data |-> stored[order[i]].data]]
              /\ UNCHANGED panicked
         ELSE /\ panicked' = TRUE
              /\ UNCHANGED delivered

(* Connected sends an Ack when recv returned TRUE, Reconnecting and        *)
(* GracePeriod have no link to send it on.                                 *)
Acknowledge(should_ack) ==
  IF "receiver" \in up /\ should_ack
  THEN net' = net \cup {AckFrame(last_ack')}
  ELSE UNCHANGED net

(* Mutant: a slice with nothing new is not acknowledged. *)
RecvOldSilent(m) ==
  /\ ~RecvInRange(last_ack, m.seq, m.first, m.seq_len)
  /\ UNCHANGED last_ack
  /\ Acknowledge(FALSE)
  /\ TakeRecvd(incoming)

(* recv, lines 80-82: nothing new in the slice, acknowledge again. *)
RecvOld(m) ==
  /\ ~RecvInRange(last_ack, m.seq, m.first, m.seq_len)
  /\ UNCHANGED last_ack
  /\ Acknowledge(TRUE)
  /\ TakeRecvd(incoming)

(* recv, lines 95-98: a message after the one waited for. *)
RecvAhead(m) ==
  /\ RecvInRange(last_ack, m.seq, m.first, m.seq_len)
  /\ m.seq > last_ack[1]
  /\ UNCHANGED last_ack
  /\ Acknowledge(FALSE)
  /\ TakeRecvd(Store(incoming, m.seq, m.seq_len, m.first, m.len))

(* recv, lines 100-136: the message waited for; last_ack moves as far as   *)
(* it can.                                                                 *)
RecvNext(m) ==
  LET stored == Store(incoming, m.seq, m.seq_len, m.first, m.len)
  IN  /\ RecvInRange(last_ack, m.seq, m.first, m.seq_len)
      /\ m.seq = last_ack[1]
      /\ \E stop \in m.seq..Len(sent) :
           /\ StopsAt(stored, m.seq, stop)
           /\ last_ack' = AckAt(stored, stop)
      /\ Acknowledge(DidChange(last_ack, last_ack'))
      /\ TakeRecvd(stored)

(* link_msg(MsgSlice).  A panic ends the task of the core. *)
DeliverSlice(m) ==
  /\ m \in net
  /\ m.kind = "slice"
  /\ ~panicked
  /\ UNCHANGED <<outgoing, sent, up>>
  /\ RecvOld(m) \/ RecvAhead(m) \/ RecvNext(m)

-----------------------------------------------------------------------------
(* The links. *)

Lose(m) ==
  /\ m \in net
  /\ net' = net \ {m}
  /\ UNCHANGED <<outgoing, sent, receiver, up>>

(* Every link of a side is gone: determine_state moves it to Reconnecting  *)
(* or GracePeriod.  A new link brings it back to Connected.                *)
LinksLost(side) ==
  /\ side \in up
  /\ up' = up \ {side}
  /\ UNCHANGED <<outgoing, sent, receiver, net>>

LinkAdded(side) ==
  /\ side \notin up
  /\ up' = up \cup {side}
  /\ UNCHANGED <<outgoing, sent, receiver, net>>

Next ==
  \/ \E len \in Lengths : Send(len)
  \/ ResendEarliest
  \/ \E m \in net : DeliverAck(m)
  \/ \E m \in net : DeliverSlice(m)
  \/ \E m \in net : Lose(m)
  \/ \E side \in Flaky : LinksLost(side) \/ LinkAdded(side)

Spec == Init /\ [][Next]_vars

Frames ==
  [kind : {"slice"}, seq : 0..(MaxMsgs - 1), seq_len : Lengths,
     first : 0..Max(Lengths), len : 1..Max(Sizes)]
    \cup [kind : {"ack"}, seq : 0..MaxMsgs, last : 0..Max(Lengths)]

DeliverSliceAt(seq, first) ==
  \E m \in net : m.kind = "slice" /\ m.seq = seq /\ m.first = first /\ DeliverSlice(m)

DeliverAckOf(seq) == \E m \in net : m.kind = "ack" /\ m.seq = seq /\ DeliverAck(m)

(* The 5 s repeat timer of Connected keeps firing while the state lasts,   *)
(* so resending is weakly fair.  A link that is used again and again       *)
(* carries something in the end: reading the slice at an offset, or the    *)
(* acknowledgement of a whole message, is strongly fair.  Sending, losing  *)
(* frames and losing links are never obliged to happen.                    *)
Fairness ==
  /\ WF_vars(ResendEarliest)
  /\ \A seq \in 0..(MaxMsgs - 1), size \in Sizes :
       \A first \in {i \in 0..(Max(Lengths) - 1) : i % size = 0} :
         SF_vars(DeliverSliceAt(seq, first))
  /\ \A seq \in 1..MaxMsgs : SF_vars(DeliverAckOf(seq))

FairSpec == Spec /\ Fairness

-----------------------------------------------------------------------------
(* Properties *)

(* take_recvd (src/message_manager.rs:152) unwraps the data of every       *)
(* message before last_ack.0: each of them is complete whenever it runs.   *)
NeverPanics == ~panicked

(* What the user receives is message 0, 1, 2, ... of the epoch, each once, *)
(* and exactly those the receiver acknowledges as done: last_ack.0 is the  *)
(* number of messages delivered.                                           *)
InOrderOnce ==
  /\ Len(delivered) = last_ack[1]
  /\ \A i \in DOMAIN delivered : delivered[i].seq = i - 1

(* Every message handed to the user is whole: each of its bytes came from  *)
(* a slice of that message.                                                *)
WholeMessages ==
  \A i \in DOMAIN delivered : delivered[i].data = 0..(sent[i] - 1)

(* The protocol of an epoch, seen by its users: message i is the i-th one. *)
Promise == INSTANCE OrderedDelivery WITH
  Message  <- 0..(MaxMsgs - 1),
  accepted <- [i \in DOMAIN sent |-> i - 1],
  handed   <- [i \in DOMAIN delivered |-> delivered[i].seq]

(* The protocol implements OrderedDelivery: slicing, acknowledging,        *)
(* resending and losing links are invisible to the users, and every other  *)
(* step is an Accept or a HandOver.                                        *)
ImplementsOrderedDelivery == Promise!Spec

(* The bytes of message seq the receiver has on record. *)
Held(seq) ==
  IF seq < last_ack[1] THEN 0..(sent[seq + 1] - 1)
  ELSE IF seq \in DOMAIN incoming THEN Span(incoming[seq].slices) ELSE {}

(* Late, duplicated and reordered acknowledgements never make the sender   *)
(* drop something the receiver still lacks: every byte of every message    *)
(* is held by the receiver or is still to be resent by the sender.         *)
NothingDroppedEarly ==
  \A seq \in 0..(Len(sent) - 1) :
    0..(sent[seq + 1] - 1) \subseteq
      Held(seq) \cup (IF seq \in DOMAIN outgoing THEN Span(outgoing[seq]) ELSE {})

(* What the receiver acknowledges never goes back, whatever arrives.       *)
AckNeverRegresses ==
  [][\/ last_ack'[1] > last_ack[1]
     \/ last_ack'[1] = last_ack[1] /\ last_ack'[2] >= last_ack[2]]_last_ack

(* recv's contract (src/message_manager.rs:78): "returns if the last_ack   *)
(* updated because of this addition".  Connected sends an Ack exactly when *)
(* it returns TRUE.                                                        *)
AckWhenUpdated ==
  [][last_ack' # last_ack /\ "receiver" \in up => AckFrame(last_ack') \in net']_vars

AllUp == up = Sides

(* Once both sides keep a link, everything that was sent is delivered,     *)
(* although frames are lost, repeated and reordered and Connected::timer   *)
(* only ever resends the earliest message.                                 *)
EverythingDelivered == <>[]AllUp => []<>(Len(delivered) = Len(sent))

(* The sender comes to know it: acknowledgements are lost as well, and     *)
(* recv repeats them for slices that hold nothing new.                     *)
SenderLearns == <>[]AllUp => []<>(outgoing = NoSlices)

=============================================================================
