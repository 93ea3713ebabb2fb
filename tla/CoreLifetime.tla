---------------------------- MODULE CoreLifetime ----------------------------
(***************************************************************************)
(* How long the task of a core lives: src/core.rs:19-91.  The task reads   *)
(* commands from a channel and returns when the channel is closed, which   *)
(* tokio does once every Sender of it is dropped and it is empty.          *)
(***************************************************************************)
EXTENDS Naturals

CONSTANTS
  Handles,   \* names for LinkSet values: the first one and its clones
  Capacity   \* of the channel; 10 in the code

VARIABLES
  senders,   \* owners of a Sender of the channel
  queue,     \* number of commands in the channel
  core       \* "running" or "quit"

vars == <<senders, queue, core>>

(* CommonState keeps the clone of to_core it is created with, for the      *)
(* connectors it will start.                                               *)
Common == "CommonState"

Init ==
  /\ \E first \in Handles : senders = {first, Common}
  /\ queue = 0
  /\ core = "running"

CloneSender(old, new) ==
  /\ old \in senders
  /\ senders' = senders \cup {new}
  /\ UNCHANGED <<queue, core>>

Drop(handle) ==
  /\ senders' = senders \ {handle}
  /\ UNCHANGED <<queue, core>>

Command(handle) ==
  /\ handle \in senders
  /\ core = "running"
  /\ queue < Capacity
  /\ queue' = queue + 1
  /\ UNCHANGED <<senders, core>>

(* from_ctrl.recv() returns a command: its handler runs. *)
Handle ==
  /\ core = "running"
  /\ queue > 0
  /\ queue' = queue - 1
  /\ UNCHANGED <<senders, core>>

(* from_ctrl.recv() returns None: the task ends and drops CommonState. *)
Quit ==
  /\ core = "running"
  /\ queue = 0
  /\ senders = {}
  /\ core' = "quit"
  /\ UNCHANGED <<senders, queue>>

Next ==
  \/ \E old, new \in Handles : CloneSender(old, new)
  \/ \E handle \in Handles : Drop(handle) \/ Command(handle)
  \/ Handle
  \/ Quit

(* The core's loop takes what recv returns, again and again. *)
FairSpec == Init /\ [][Next]_vars /\ WF_vars(Handle) /\ WF_vars(Quit)

(* core.rs:47: "The handle has been dropped, quit".  Once the user holds   *)
(* no LinkSet any more, the task ends.                                     *)
DroppedHandlesQuit == (senders \cap Handles = {}) ~> (core = "quit")

=============================================================================
