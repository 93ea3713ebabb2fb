--------------------------- MODULE OrderedDelivery ---------------------------
(***************************************************************************)
(* What an epoch of a LinkSet promises its user (README.md): the messages  *)
(* accepted for sending come out at the other side in order and each once. *)
(* Nothing is said of slices, acknowledgements or links.                   *)
(***************************************************************************)
EXTENDS Naturals, Sequences

CONSTANT Message

VARIABLES
  accepted,    \* the messages taken from the sending user
  handed       \* the messages given to the receiving user

Init ==
  /\ accepted = <<>>
  /\ handed = <<>>

Accept(m) ==
  /\ accepted' = Append(accepted, m)
  /\ UNCHANGED handed

(* One frame can complete several messages at once. *)
HandOver(upto) ==
  /\ Len(handed) < upto
  /\ handed' = SubSeq(accepted, 1, upto)
  /\ UNCHANGED accepted

Next ==
  \/ \E m \in Message : Accept(m)
  \/ \E upto \in 1..Len(accepted) : HandOver(upto)

Spec == Init /\ [][Next]_<<accepted, handed>>

=============================================================================
