---------------------------- MODULE CoreSessions ----------------------------
(***************************************************************************)
(* What the core of a LinkSet promises its user about sessions.  A session *)
(* is one epoch with one MessageManager; it outlives the links it runs on. *)
(* The user hears of it through Connected(epoch) and Disconnected.         *)
(* LinkSetCore implements this module, LinkSetHandle is built on it.       *)
(***************************************************************************)
EXTENDS Epochs

VARIABLES
  session,   \* the epoch of the session, None between sessions
  told,      \* the epoch that the notifications so far tell the user
  last       \* the epoch of the latest session

core == <<session, told, last>>

Init ==
  /\ session = None
  /\ told = None
  /\ last = None

(* A new session has a later epoch than every one before, until the last   *)
(* epoch there is, and Connected(e) is sent.                               *)
Establish(e) ==
  /\ session = None
  /\ e # None
  /\ e > last \/ e = MaxEpoch
  /\ session' = e
  /\ told' = e
  /\ last' = e

(* A session ends for good.  Disconnected is sent, except on the way       *)
(* through EpochMismatch.                                                  *)
Finish(tell) ==
  /\ session # None
  /\ session' = None
  /\ told' = IF tell THEN None ELSE told
  /\ UNCHANGED last

Next ==
  \/ \E e \in OptEpoch : Establish(e)
  \/ \E tell \in BOOLEAN : Finish(tell)

Spec == Init /\ [][Next]_core

=============================================================================
