---------------------------- MODULE LinkSetHandle ----------------------------
(***************************************************************************)
(* What a user holds of a LinkSet: src/link_set/controller.rs and          *)
(* reader.rs, with the two bounded channels of src/core.rs between the     *)
(* user's tasks and the task of the core.                                  *)
(*                                                                         *)
(* LinkSet values (the first one and its clones) send commands; one of     *)
(* them, or the LinkSetReader made by take_recv, owns the receiver of the  *)
(* notifications.  All share the mutex with the current epoch, which is    *)
(* written by whoever reads a notification.  The core is CoreSessions with *)
(* the notifications it sends, in the order the handlers send them.        *)
(*                                                                         *)
(* A handler that finds the channel of notifications full waits inside its *)
(* send, and the core takes nothing else meanwhile: the notifications      *)
(* beyond Capacity are those its handler has still to send.                *)
(***************************************************************************)
EXTENDS CoreSessions, Sequences

CONSTANTS
  Handles,    \* names for LinkSet values
  Calls,      \* names for the futures of their calls: bounds those that wait
  Capacity,   \* of each channel; 10 in the code
  Burst       \* bound on the messages one frame completes

VARIABLES
  handles,    \* the LinkSet values that exist
  receiver,   \* the owner of from_core: a handle, Reader or Dropped
  epoch,      \* the mutex the handles and the reader share
  read,       \* sequence of at most one notification: taken by recv, not yet noted
  commands,   \* the channel to the core
  waiting,    \* the calls that wait for room in it, first come first served
  events,     \* the channel to the user, then what the core's handler has still to send
  debug,      \* DebugHandle: "idle" or "asked"
  running     \* does the task of the core exist?

user == <<handles, receiver, epoch, read>>
channels == <<commands, waiting, events, debug>>
vars == <<core, user, channels, running>>

Reader == "LinkSetReader"
Dropped == "dropped"

ASSUME HandleAssumption ==
  /\ Capacity \in Nat \ {0} /\ Burst \in Nat
  /\ Reader \notin Handles /\ Dropped \notin Handles

(* LinkSetControl: only Disconnect is told apart. *)
Commands == {"Disconnect", "other"}

(* LinkSetMessageInner *)
Connected(e) == [kind |-> "Connected", epoch |-> e]
Disconnected == [kind |-> "Disconnected", epoch |-> None]
AttemptingConnection == [kind |-> "AttemptingConnection", epoch |-> None]
Message(e) == [kind |-> "Message", epoch |-> e]

Without(s, i) == [j \in 1..(Len(s) - 1) |-> s[IF j < i THEN j ELSE j + 1]]

Callers == {waiting[i].from : i \in DOMAIN waiting}
Pending == {waiting[i].call : i \in DOMAIN waiting}
Blocked == Len(events) > Capacity

-----------------------------------------------------------------------------
(* The user's tasks. *)

(* clone_sender *)
CloneSender(h, new) ==
  /\ h \in handles /\ new \notin handles
  /\ handles' = handles \cup {new}
  /\ UNCHANGED <<receiver, epoch, read, channels, running, core>>

(* take_recv needs the LinkSet for itself: no call of it is under way. *)
TakeRecv(h) ==
  /\ receiver = h /\ h \notin Callers /\ read = <<>>
  /\ receiver' = Reader
  /\ UNCHANGED <<handles, epoch, read, channels, running, core>>

(* A LinkSet is dropped.  With it goes the receiver it owns, and the sends *)
(* of the core fail from then on; the mutex stays as it is.                *)
DropHandle(h) ==
  /\ h \in handles \ Callers
  /\ receiver = h => read = <<>>
  /\ handles' = handles \ {h}
  /\ receiver' = IF receiver = h THEN Dropped ELSE receiver
  /\ events' = IF receiver = h THEN <<>> ELSE events
  /\ UNCHANGED <<epoch, read, commands, waiting, debug, running, core>>

(* Drop of LinkSetReader *)
DropReader ==
  /\ receiver = Reader /\ read = <<>>
  /\ receiver' = Dropped
  /\ epoch' = None
  /\ events' = <<>>
  /\ UNCHANGED <<handles, read, commands, waiting, debug, running, core>>

(* connect, disconnect, add_..., set_... and send: the command enters the  *)
(* channel, or the call waits.  They borrow the LinkSet shared, so several *)
(* calls of one LinkSet may wait.  Without a core they return Terminated.  *)
Call(h, c, cmd) ==
  /\ h \in handles /\ c \notin Pending
  /\ running
  /\ receiver = h => read = <<>>
  /\ IF Len(commands) < Capacity
     THEN commands' = Append(commands, cmd) /\ UNCHANGED waiting
     ELSE waiting' = Append(waiting, [call |-> c, from |-> h, cmd |-> cmd]) /\ UNCHANGED commands
  /\ UNCHANGED <<user, events, debug, running, core>>

(* The user drops the future of a call that waits. *)
CancelCall(c) ==
  /\ \E i \in DOMAIN waiting :
       /\ waiting[i].call = c
       /\ waiting' = Without(waiting, i)
  /\ UNCHANGED <<user, commands, events, debug, running, core>>

(* DebugHandle: a request, until its oneshot is answered or dropped. *)
Ask ==
  /\ running /\ debug = "idle"
  /\ debug' = "asked"
  /\ UNCHANGED <<user, commands, waiting, events, running, core>>

(* recv: the notification leaves the channel ...  LinkSet::recv borrows    *)
(* the LinkSet for itself, so no call of its owner is under way.           *)
Recv ==
  /\ events # <<>> /\ read = <<>>
  /\ receiver \notin Callers \cup {Dropped}
  /\ read' = <<Head(events)>>
  /\ events' = Tail(events)
  /\ UNCHANGED <<handles, receiver, epoch, commands, waiting, debug, running, core>>

(* Mutant: an epoch that is set stays until Disconnected. *)
NotedOnce(e, n) ==
  IF n.kind = "Connected" THEN (IF e = None THEN n.epoch ELSE e)
  ELSE IF n.kind = "Disconnected" THEN None
  ELSE e

(* ... and the mutex is written before recv returns it. *)
Noted(e, n) ==
  IF n.kind = "Connected" THEN n.epoch
  ELSE IF n.kind = "Disconnected" THEN None
  ELSE e

Note ==
  /\ read # <<>>
  /\ epoch' = Noted(epoch, Head(read))
  /\ read' = <<>>
  /\ UNCHANGED <<handles, receiver, channels, running, core>>

(* Mutant: as LinkSet::recv, which returns Terminated and no more. *)
RecvTerminatedKeeps ==
  /\ receiver = Reader /\ read = <<>>
  /\ ~running /\ events = <<>>
  /\ UNCHANGED vars

(* LinkSetReader::recv on the channel of a core that is gone. *)
RecvTerminated ==
  /\ receiver = Reader /\ read = <<>>
  /\ ~running /\ events = <<>>
  /\ epoch' = None
  /\ UNCHANGED <<handles, receiver, read, channels, running, core>>

(* LinkSet::current_epoch, and LinkSetReader's with h = Reader. *)
CurrentEpoch(h) == IF receiver = h /\ ~running /\ events = <<>> THEN None ELSE epoch

-----------------------------------------------------------------------------
(* The task of the core. *)

(* Mutant: a send waits for room although nobody will read. *)
EmitWaits(notifications) == events' = events \o notifications

(* Awaits to_ctrl.send for each; the results are ignored, so notifications *)
(* for a receiver that is gone are lost.                                   *)
Emit(notifications) ==
  events' = IF receiver = Dropped THEN <<>> ELSE events \o notifications

(* The transitions out of a session that tell the user: on the way to      *)
(* Disconnected or Connecting, with or without AttemptingConnection.       *)
Leaves ==
  /\ Finish(TRUE)
  /\ \E sent \in {<<Disconnected>>, <<AttemptingConnection, Disconnected>>,
                  <<Disconnected, AttemptingConnection>>} : Emit(sent)

(* Other transitions and handlers, within a session or without one. *)
Stays ==
  /\ UNCHANGED core
  /\ \E sent \in {<<>>, <<AttemptingConnection>>} : Emit(sent)

(* Mutant: the messages that came with the handshake are handed out first. *)
EstablishesLate(e) ==
  /\ Establish(e)
  /\ Emit(<<Message(e), Connected(e)>>)

(* EpochMismatch to Connected *)
Establishes(e) ==
  /\ Establish(e)
  /\ Emit(<<Connected(e)>>)

(* The messages that a MsgSlice completes, with the epoch of the session. *)
Delivers(n) ==
  /\ session # None
  /\ UNCHANGED core
  /\ Emit([i \in 1..n |-> Message(session)])

(* A frame or the timer.  Connected to EpochMismatch sends nothing. *)
HandleLinkOrTimer ==
  /\ running /\ ~Blocked
  /\ \/ \E e \in Epoch : Establishes(e)
     \/ Leaves
     \/ Finish(FALSE) /\ Emit(<<>>)
     \/ \E n \in 1..Burst : Delivers(n)
     \/ UNCHANGED core /\ Emit(<<AttemptingConnection>>)
  /\ UNCHANGED <<user, commands, waiting, debug, running>>

(* A command leaves the channel, and the first call that waits gets the    *)
(* room.  Disconnect leaves any session; another command leaves one when   *)
(* it finds that no link is left.                                          *)
HandleCommand ==
  /\ running /\ ~Blocked
  /\ commands # <<>>
  /\ \/ Leaves
     \/ Stays /\ (Head(commands) = "Disconnect" => session = None)
  /\ IF waiting = <<>>
     THEN commands' = Tail(commands) /\ UNCHANGED waiting
     ELSE /\ commands' = Append(Tail(commands), Head(waiting).cmd)
          /\ waiting' = Tail(waiting)
  /\ UNCHANGED <<user, debug, running>>

(* A snapshot is taken or a link is evicted, and the oneshot answered. *)
HandleDebug ==
  /\ running /\ ~Blocked
  /\ debug = "asked"
  /\ debug' = "idle"
  /\ UNCHANGED <<core, user, commands, waiting, events, running>>

(* The runtime drops the task: calls that wait return Terminated, and what *)
(* is in the channel of notifications can still be read.                   *)
Stop ==
  /\ running
  /\ running' = FALSE
  /\ commands' = <<>> /\ waiting' = <<>> /\ debug' = "idle"
  /\ events' = IF Blocked THEN SubSeq(events, 1, Capacity) ELSE events
  /\ UNCHANGED <<core, user>>

-----------------------------------------------------------------------------
(* LinkSet::new_debug; no core has a session yet. *)
InitHandle ==
  /\ Init
  /\ \E first \in Handles : handles = {first} /\ receiver = first
  /\ epoch = None
  /\ read = <<>>
  /\ commands = <<>> /\ waiting = <<>> /\ events = <<>>
  /\ debug = "idle"
  /\ running = TRUE

NextHandle ==
  \/ \E h, new \in Handles : CloneSender(h, new)
  \/ \E h \in Handles : TakeRecv(h) \/ DropHandle(h)
  \/ \E h \in Handles, c \in Calls, cmd \in Commands : Call(h, c, cmd)
  \/ \E c \in Calls : CancelCall(c)
  \/ DropReader
  \/ Ask
  \/ Recv
  \/ Note
  \/ RecvTerminated
  \/ HandleLinkOrTimer
  \/ HandleCommand
  \/ HandleDebug
  \/ Stop

SpecHandle == InitHandle /\ [][NextHandle]_vars

(* tokio's select picks among the branches that are ready at random, so a  *)
(* command or a request that is there whenever the loop comes round is     *)
(* taken in the end.  A recv that has its notification returns.  Of the    *)
(* user it is assumed that a LinkSetReader is read.                        *)
FairSpecHandle ==
  /\ SpecHandle
  /\ SF_vars(HandleCommand) /\ SF_vars(HandleDebug)
  /\ WF_vars(Note)
  /\ WF_vars(receiver = Reader /\ (Recv \/ RecvTerminated))

-----------------------------------------------------------------------------
(* Properties *)

(* The epoch is e once the first k of these notifications have been read, *)
(* and the mutex holds e0 now.                                             *)
Changes(s) == {i \in DOMAIN s : s[i].kind \in {"Connected", "Disconnected"}}
StandsAt(s, e0, k, e) ==
  \/ e = e0 /\ \A i \in Changes(s) : i > k
  \/ \E i \in Changes(s) : i <= k /\ s[i].epoch = e /\ \A j \in Changes(s) : j <= i \/ j > k

(* Whoever owned the receiver so far, and through every hand-over: once    *)
(* the notifications that are under way are read, current_epoch is the     *)
(* epoch the core has announced.                                           *)
EpochCatchesUp ==
  running /\ receiver # Dropped =>
    StandsAt(read \o events, epoch, Len(read \o events), told)

(* A message is handed to the user while current_epoch is the epoch it was *)
(* sent in, for every clone that looks: messages and changes of epoch go   *)
(* through one channel and the mutex follows it.                           *)
MessagesInTheirEpoch ==
  [][read # <<>> /\ read' = <<>> /\ Head(read).kind = "Message" =>
       epoch' = Head(read).epoch]_vars

(* core.rs:24: both channels are bounded and the core waits inside its     *)
(* sends.  Calls on the LinkSets and debug requests still return, unless   *)
(* the receiver stays with a LinkSet: whose owner may be inside a call.    *)
CallsReturn ==
  /\ \A c \in Calls : c \in Pending ~> (c \notin Pending \/ receiver \in Handles)
  /\ debug = "asked" ~> (debug = "idle" \/ receiver \in Handles)

(* When the core is gone, and the reader has been taken, no LinkSet names  *)
(* an epoch for ever, whether the reader reads to the end or is dropped.   *)
EpochEndsWithCore ==
  ~running /\ receiver = Reader ~> \A h \in handles : CurrentEpoch(h) = None

=============================================================================
