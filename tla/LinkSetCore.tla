----------------------------- MODULE LinkSetCore -----------------------------
(***************************************************************************)
(* The core of one LinkSet: src/core.rs and the six states of src/state.   *)
(* The core is one task that takes one event at a time (a user command, a  *)
(* frame from a link, the timer, a debug command) and runs its handler to  *)
(* the end, so every handler is one action.                                *)
(*                                                                         *)
(* The peer, the links and the user are the environment: links come, fail, *)
(* slow down and recover at any time, and any Reset may arrive on any      *)
(* reader that is still attached, including the readers of links that the  *)
(* core has dropped.                                                       *)
(*                                                                         *)
(* Abstracted: the content of messages (MessageTransfer models the         *)
(* MessageManager), the numbers behind a link's latency (a link is `up`    *)
(* when it is not closed and not too slow), the durations of the timeouts, *)
(* and the connectors and addresses that the states hand to each other.    *)
(* Ack, Ping and Pong change nothing that is kept here.                    *)
(***************************************************************************)
EXTENDS Epochs, Deadline, FiniteSets, Sequences

CONSTANTS
  LinkIds,     \* identities of the links; an id is reused once it is unknown
  MaxQueued    \* bound on the messages queued before a connection

ASSUME CoreAssumption == MaxQueued \in Nat \ {0}

VARIABLES
  state,       \* the variant of States
  epoch,       \* the epoch field of the state (None = 0)
  links,       \* LinkManager.links: [id, up] records, the newest first
  readers,     \* CommonState.readers: ids of the links frames may come from
  queued,      \* number of queued_msgs
  accepted,    \* epoch tags of the messages in the MessageManager
  config,      \* auto_connect and the three timeouts of CommonState
  timer,       \* CommonState.timer
  is_active,   \* the flag shared with the user
  told,        \* the epoch the Connected and Disconnected sent so far tell the user
  attempting,  \* the latest AttemptingConnection
  last,        \* history: the epoch of the latest Connected notification
  out          \* the Reset frames the last handler put on a link

status == <<is_active, told, attempting, last>>
session == <<state, epoch, links, queued, accepted, timer, status>>
vars == <<session, readers, config, out>>

States ==
  {"Disconnected", "Connecting", "EpochMismatch", "Connected", "Reconnecting", "GracePeriod"}

(* The states that hold the MessageManager of an epoch. *)
InSession == {"Connected", "Reconnecting", "GracePeriod"}

Link == [id : LinkIds, up : BOOLEAN]
Reset(e, request) == [epoch |-> e, request |-> request]

(* Option<Duration>: Some(ZERO), Some(d) and None.  Connecting arms a      *)
(* deadline for both of the first: it does not tell them apart.            *)
Timeouts == {"zero", "some", "never"}
Config ==
  [auto_connect : BOOLEAN, connecting : Timeouts \ {"zero"},
   reconnecting : Timeouts, grace : Timeouts]

-----------------------------------------------------------------------------
(* LinkManager: src/links/link_manager.rs. *)

Live(ls) == {i \in DOMAIN ls : ls[i].up}
Ids(ls) == {ls[i].id : i \in DOMAIN ls}

AddLinkTo(ls, link) == <<link>> \o ls

(* Mutant: the link that takes the frame is taken off the list as well. *)
AfterSendTaken(ls) ==
  IF Live(ls) = {} THEN <<>>
  ELSE SubSeq(ls, 1 + CHOOSE i \in Live(ls) : \A j \in Live(ls) : i <= j, Len(ls))

(* send_proto and send_slices drop the links that are closed or too slow   *)
(* until the first is usable; the rest stays as it is.                     *)
AfterSend(ls) ==
  IF Live(ls) = {} THEN <<>>
  ELSE SubSeq(ls, CHOOSE i \in Live(ls) : \A j \in Live(ls) : i <= j, Len(ls))

(* The frame that reset hands to that link, if there is one. *)
ResetSent(ls, e, request) == IF Live(ls) = {} THEN {} ELSE {Reset(e, request)}

(* Vec::retain: the links at these places of the list, in its order. *)
Retain(ls, places) ==
  [n \in 1..Cardinality(places) |->
     ls[CHOOSE i \in places : Cardinality({j \in places : j <= i}) = n]]

Upkeep(ls) == Retain(ls, Live(ls))
Evict(ls, id) == Retain(ls, {i \in DOMAIN ls : ls[i].id # id})

(* ping_all closes the previous ping of a link that never answered it: any *)
(* link may turn out to be too slow.  These are the lists it may leave.    *)
PingAll(ls) ==
  {[i \in DOMAIN ls |-> IF i \in slow THEN [ls[i] EXCEPT !.up = FALSE] ELSE ls[i]] :
     slow \in SUBSET DOMAIN ls}

-----------------------------------------------------------------------------
(* The transition_from implementations, named after the two states. *)

Enter(s, e, ls, n, tags) ==
  /\ state' = s
  /\ epoch' = e
  /\ links' = ls
  /\ queued' = n
  /\ accepted' = tags

(* Mutant: no timeout leaves the timer of the state before. *)
ConnectingTimerKept(t) ==
  IF config.connecting = "never" THEN t
  ELSE ModifyDeadline(ClearRepeat(t), "Connecting")

(* determine_timer of src/state/states/connecting.rs *)
ConnectingTimer(t) ==
  IF config.connecting = "never" THEN Clear
  ELSE ModifyDeadline(ClearRepeat(t), "Connecting")

ConnectingToDisconnected ==
  /\ Enter("Disconnected", epoch, <<>>, 0, {})
  /\ timer' = Clear
  /\ attempting' = FALSE
  /\ UNCHANGED <<is_active, told, last>>

EpochMismatchToDisconnected ==
  /\ Enter("Disconnected", OptIncrement(epoch), <<>>, 0, {})
  /\ timer' = Clear
  /\ UNCHANGED status

ConnectedToDisconnected ==
  /\ Enter("Disconnected", Increment(epoch), <<>>, 0, {})
  /\ told' = None
  /\ timer' = Clear
  /\ is_active' = FALSE
  /\ UNCHANGED <<attempting, last>>

ReconnectingToDisconnected ==
  /\ Enter("Disconnected", Increment(epoch), <<>>, 0, {})
  /\ told' = None
  /\ attempting' = FALSE
  /\ timer' = Clear
  /\ UNCHANGED <<is_active, last>>

GracePeriodToDisconnected ==
  /\ Enter("Disconnected", Increment(epoch), <<>>, 0, {})
  /\ told' = None
  /\ timer' = Clear
  /\ UNCHANGED <<is_active, attempting, last>>

(* With n = 1 message queued when a Message caused it, n = 0 otherwise. *)
DisconnectedToConnecting(n) ==
  /\ Enter("Connecting", epoch, <<>>, n, {})
  /\ attempting' = TRUE
  /\ timer' = ConnectingTimer(timer)
  /\ UNCHANGED <<is_active, told, last>>

EpochMismatchToConnecting(t) ==
  /\ Enter("Connecting", epoch, <<>>, 0, {})
  /\ attempting' = TRUE
  /\ timer' = ConnectingTimer(t)
  /\ UNCHANGED <<is_active, told, last>>

ReconnectingToConnecting(t) ==
  /\ Enter("Connecting", Increment(epoch), <<>>, 0, {})
  /\ told' = None
  /\ timer' = ConnectingTimer(t)
  /\ UNCHANGED <<is_active, attempting, last>>

GracePeriodToConnecting(t) ==
  /\ Enter("Connecting", Increment(epoch), <<>>, 0, {})
  /\ told' = None
  /\ attempting' = TRUE
  /\ timer' = ConnectingTimer(t)
  /\ UNCHANGED <<is_active, last>>

DisconnectedToEpochMismatch(link) ==
  /\ Enter("EpochMismatch", epoch, AfterSend(<<link>>), 0, {})
  /\ out' = ResetSent(<<link>>, epoch, TRUE)
  /\ timer' = ModifyRepeat(timer, "EpochMismatch")
  /\ UNCHANGED status

ConnectingToEpochMismatch(link) ==
  /\ Enter("EpochMismatch", epoch, AfterSend(<<link>>), queued, {})
  /\ out' = ResetSent(<<link>>, epoch, TRUE)
  /\ attempting' = FALSE
  /\ timer' = ModifyRepeat(timer, "EpochMismatch")
  /\ UNCHANGED <<is_active, told, last>>

(* Mutant: the epoch is not incremented. *)
ConnectedToEpochMismatchSame ==
  /\ Enter("EpochMismatch", epoch, AfterSend(links), 0, {})
  /\ out' = ResetSent(links, epoch, TRUE)
  /\ timer' = ModifyRepeat(timer, "EpochMismatch")
  /\ is_active' = FALSE
  /\ UNCHANGED <<told, attempting, last>>

ConnectedToEpochMismatch ==
  /\ Enter("EpochMismatch", Increment(epoch), AfterSend(links), 0, {})
  /\ out' = ResetSent(links, Increment(epoch), TRUE)
  /\ timer' = ModifyRepeat(timer, "EpochMismatch")
  /\ is_active' = FALSE
  /\ UNCHANGED <<told, attempting, last>>

(* The queued messages are inserted and sent: none of them has a tag. *)
EpochMismatchToConnected(e, ls) ==
  /\ Enter("Connected", e, IF queued > 0 THEN AfterSend(ls) ELSE ls, 0,
           IF queued > 0 THEN {None} ELSE {})
  /\ told' = e
  /\ last' = e
  /\ timer' = ModifyRepeat(Clear, "Connected")
  /\ is_active' = TRUE
  /\ UNCHANGED attempting

(* Mutant: the end of the attempt is not announced. *)
ReconnectingToConnectedSilent(link) ==
  /\ Enter("Connected", epoch, <<link>>, 0, accepted)
  /\ timer' = ModifyRepeat(Clear, "Connected")
  /\ is_active' = TRUE
  /\ UNCHANGED <<told, attempting, last>>

ReconnectingToConnected(link) ==
  /\ Enter("Connected", epoch, <<link>>, 0, accepted)
  /\ attempting' = FALSE
  /\ timer' = ModifyRepeat(Clear, "Connected")
  /\ is_active' = TRUE
  /\ UNCHANGED <<told, last>>

GracePeriodToConnected(link) ==
  /\ Enter("Connected", epoch, <<link>>, 0, accepted)
  /\ timer' = ModifyRepeat(Clear, "Connected")
  /\ is_active' = TRUE
  /\ UNCHANGED <<told, attempting, last>>

ConnectedToReconnecting(tags, t) ==
  /\ Enter("Reconnecting", epoch, <<>>, 0, tags)
  /\ attempting' = TRUE
  /\ timer' = IF config.reconnecting = "never" THEN Clear
              ELSE ModifyDeadline(t, "Reconnecting")
  /\ is_active' = FALSE
  /\ UNCHANGED <<told, last>>

ConnectedToGracePeriod(tags, t) ==
  /\ Enter("GracePeriod", epoch, <<>>, 0, tags)
  /\ timer' = IF config.grace = "never" THEN Clear ELSE ModifyDeadline(t, "GracePeriod")
  /\ is_active' = FALSE
  /\ UNCHANGED <<told, attempting, last>>

(* Connected::determine_state, with the links that are left. *)
DetermineState(ls, tags, t) ==
  \/ /\ ls # <<>>
     /\ Enter("Connected", epoch, ls, 0, tags)
     /\ timer' = t
     /\ UNCHANGED status
  \/ /\ ls = <<>> /\ config.reconnecting # "zero"
     /\ ConnectedToReconnecting(tags, t)
  \/ /\ ls = <<>> /\ config.reconnecting = "zero" /\ config.grace # "zero"
     /\ ConnectedToGracePeriod(tags, t)
  \/ /\ ls = <<>> /\ config.reconnecting = "zero" /\ config.grace = "zero"
     /\ ConnectedToDisconnected

-----------------------------------------------------------------------------
(* User commands: the ctrl_msg handlers.  A command that a state ignores   *)
(* changes nothing and is left out.                                        *)

Connect ==
  /\ state = "Disconnected"
  /\ DisconnectedToConnecting(0)
  /\ out' = {}
  /\ UNCHANGED <<readers, config>>

Disconnect ==
  /\ \/ state = "Connecting" /\ ConnectingToDisconnected
     \/ state = "EpochMismatch" /\ EpochMismatchToDisconnected
     \/ state = "Connected" /\ ConnectedToDisconnected
     \/ state = "Reconnecting" /\ ReconnectingToDisconnected
     \/ state = "GracePeriod" /\ GracePeriodToDisconnected
  /\ out' = {}
  /\ UNCHANGED <<readers, config>>

(* A link from the user or from a connector.  wrap_link attaches its       *)
(* reader before the state sees it; the link may already have failed.      *)
AddLinkWith(link) ==
  \/ state = "Disconnected" /\ DisconnectedToEpochMismatch(link)
  \/ state = "Connecting" /\ ConnectingToEpochMismatch(link)
  \/ /\ state \in {"EpochMismatch", "Connected"}
     /\ links' = AddLinkTo(links, link)
     /\ out' = {}
     /\ UNCHANGED <<state, epoch, queued, accepted, timer, status>>
  \/ state = "Reconnecting" /\ ReconnectingToConnected(link) /\ out' = {}
  \/ state = "GracePeriod" /\ GracePeriodToConnected(link) /\ out' = {}

AddLink(id, up) ==
  /\ id \notin readers \cup Ids(links)
  /\ readers' = readers \cup {id}
  /\ AddLinkWith([id |-> id, up |-> up])
  /\ UNCHANGED config

(* send (tag = None) and send_with_epoch: the message starts a connection, *)
(* waits for one, or joins the epoch it was meant for; else it is dropped. *)
MessageDisconnected(tag) ==
  /\ state = "Disconnected"
  /\ config.auto_connect /\ tag = None
  /\ DisconnectedToConnecting(1)

MessageQueued(tag) ==
  /\ state \in {"Connecting", "EpochMismatch"}
  /\ tag = None
  /\ queued < MaxQueued
  /\ queued' = queued + 1
  /\ UNCHANGED <<state, epoch, links, accepted, timer, status>>

MessageConnected(tag) ==
  /\ state = "Connected"
  /\ tag \in {None, epoch}
  /\ DetermineState(AfterSend(links), accepted \cup {tag}, timer)

(* Mutant: without the test of the epoch. *)
MessageKeptAny(tag) ==
  /\ state \in {"Reconnecting", "GracePeriod"}
  /\ accepted' = accepted \cup {tag}
  /\ UNCHANGED <<state, epoch, links, queued, timer, status>>

MessageKept(tag) ==
  /\ state \in {"Reconnecting", "GracePeriod"}
  /\ tag \in {None, epoch}
  /\ accepted' = accepted \cup {tag}
  /\ UNCHANGED <<state, epoch, links, queued, timer, status>>

Message(tag) ==
  /\ \/ MessageDisconnected(tag)
     \/ MessageQueued(tag)
     \/ MessageConnected(tag)
     \/ MessageKept(tag)
  /\ out' = {}
  /\ UNCHANGED <<readers, config>>

(* LinkSetControl::Config: the new value is read by later transitions. *)
Configure(new) ==
  /\ \E key \in DOMAIN config : new = [config EXCEPT ![key] = new[key]]
  /\ new # config
  /\ config' = new
  /\ out' = {}
  /\ UNCHANGED <<session, readers>>

-----------------------------------------------------------------------------
(* Frames: the link_msg handlers. *)

(* Any frame in Disconnected: "clear the readers as a precaution". *)
FrameDisconnected ==
  /\ state = "Disconnected"
  /\ readers # {}
  /\ readers' = {}
  /\ out' = {}
  /\ UNCHANGED <<session, config>>

(* Mutant: the side that is ahead does not wait for the other to follow. *)
ResetEpochMismatchEager(e, request) ==
  /\ state = "EpochMismatch"
  /\ LET new == IF Compare(epoch, e) # "Less" THEN epoch ELSE IF e = None THEN ONE ELSE e
     IN  /\ out' = ResetSent(links, new, FALSE)
         /\ EpochMismatchToConnected(new, AfterSend(links))

ResetEpochMismatch(e, request) ==
  /\ state = "EpochMismatch"
  /\ \/ /\ Compare(epoch, e) = "Greater"
        /\ links' = AfterSend(links)
        /\ out' = ResetSent(links, epoch, FALSE)
        /\ UNCHANGED <<state, epoch, queued, accepted, timer, status>>
     \/ /\ Compare(epoch, e) = "Equal"
        /\ out' = IF request THEN ResetSent(links, epoch, FALSE) ELSE {}
        /\ EpochMismatchToConnected(epoch, IF request THEN AfterSend(links) ELSE links)
     \/ /\ Compare(epoch, e) = "Less"
        /\ LET new == IF e = None THEN ONE ELSE e
           IN  /\ out' = ResetSent(links, new, FALSE)
               /\ EpochMismatchToConnected(new, AfterSend(links))

(* Mutants: a request for the epoch of the session is not answered; or it  *)
(* starts a new session.                                                   *)
ResetConnectedSilent(e, request) ==
  /\ state = "Connected"
  /\ request
  /\ \/ e = epoch /\ DetermineState(links, accepted, timer) /\ out' = {}
     \/ e # epoch /\ ConnectedToEpochMismatch

ResetConnectedAnew(e, request) ==
  /\ state = "Connected"
  /\ request
  /\ ConnectedToEpochMismatch

ResetConnected(e, request) ==
  /\ state = "Connected"
  /\ request
  /\ \/ /\ e = epoch
        /\ out' = ResetSent(links, epoch, FALSE)
        /\ DetermineState(AfterSend(links), accepted, timer)
     \/ /\ e # epoch
        /\ ConnectedToEpochMismatch

ResetReconnecting(e, request) ==
  /\ state = "Reconnecting"
  /\ request /\ e = epoch
  /\ ReconnectingToConnecting(timer)
  /\ out' = {}

ResetGracePeriod(e, request) ==
  /\ state = "GracePeriod"
  /\ request /\ e = epoch
  /\ GracePeriodToDisconnected
  /\ out' = {}

LinkReset(e, request) ==
  /\ readers # {}
  /\ \/ ResetEpochMismatch(e, request)
     \/ ResetConnected(e, request)
     \/ ResetReconnecting(e, request)
     \/ ResetGracePeriod(e, request)
  /\ UNCHANGED <<readers, config>>

(* Every other Reset changes nothing. *)
IgnoresReset(e, request) ==
  \/ state = "Connecting"
  \/ state = "Connected" /\ ~request
  \/ state \in {"Reconnecting", "GracePeriod"} /\ ~(request /\ e = epoch)

(* A MsgSlice of the current epoch; it is acknowledged over a link or not. *)
LinkMsgSlice(should_ack) ==
  /\ state = "Connected"
  /\ readers # {}
  /\ DetermineState(IF should_ack THEN AfterSend(links) ELSE links, accepted, timer)
  /\ out' = {}
  /\ UNCHANGED <<readers, config>>

-----------------------------------------------------------------------------
(* The timer: Deadline's poll, then the timer handler of the state.  The   *)
(* Disconnected handler is left out: it never runs (TimerOfState).         *)

TimerConnecting ==
  /\ state = "Connecting"
  /\ ConnectingToDisconnected
  /\ out' = {}

(* ping_all runs between upkeep and reset, and can make a link too slow.   *)
TimerEpochMismatch ==
  /\ state = "EpochMismatch"
  /\ \/ /\ Live(links) = {} /\ config.auto_connect
        /\ EpochMismatchToConnecting(Elapsed(timer))
        /\ out' = {}
     \/ /\ Live(links) = {} /\ ~config.auto_connect
        /\ EpochMismatchToDisconnected
        /\ out' = {}
     \/ /\ Live(links) # {}
        /\ \E ls \in PingAll(Upkeep(links)) :
             links' = AfterSend(ls) /\ out' = ResetSent(ls, epoch, TRUE)
        /\ timer' = Elapsed(timer)
        /\ UNCHANGED <<state, epoch, queued, accepted, status>>

(* ping_all, upkeep, and the resend over what upkeep has kept. *)
TimerConnected ==
  /\ state = "Connected"
  /\ out' = {}
  /\ \E ls \in {Upkeep(pinged) : pinged \in PingAll(links)} :
       DetermineState(ls, accepted, Elapsed(timer))

TimerReconnecting ==
  /\ state = "Reconnecting"
  /\ \/ config.auto_connect /\ ReconnectingToConnecting(Elapsed(timer))
     \/ ~config.auto_connect /\ ReconnectingToDisconnected
  /\ out' = {}

(* Mutant: without auto_connect the state waits on. *)
TimerGracePeriodWaits ==
  /\ state = "GracePeriod"
  /\ \/ config.auto_connect /\ GracePeriodToConnecting(Elapsed(timer))
     \/ /\ ~config.auto_connect
        /\ timer' = Elapsed(timer)
        /\ UNCHANGED <<state, epoch, links, queued, accepted, status>>
  /\ out' = {}

TimerGracePeriod ==
  /\ state = "GracePeriod"
  /\ \/ config.auto_connect /\ GracePeriodToConnecting(Elapsed(timer))
     \/ ~config.auto_connect /\ GracePeriodToDisconnected
  /\ out' = {}

Timer ==
  /\ HasDeadline(timer)
  /\ UNCHANGED <<readers, config>>
  /\ \/ TimerConnecting
     \/ TimerEpochMismatch
     \/ TimerConnected
     \/ TimerReconnecting
     \/ TimerGracePeriod

-----------------------------------------------------------------------------
(* DebugCommand::EvictLink: the reader stays, and Connected does not look  *)
(* at what is left before its next event.                                  *)
EvictLink(id) ==
  /\ id \in Ids(links)
  /\ links' = Evict(links, id)
  /\ out' = {}
  /\ UNCHANGED <<state, epoch, queued, accepted, timer, status, readers, config>>

(* The stream of a reader ends, and SelectAll forgets it. *)
ReaderEnds(id) ==
  /\ id \in readers
  /\ readers' = readers \ {id}
  /\ out' = {}
  /\ UNCHANGED <<session, config>>

(* A link closes or becomes too slow, or answers its pings quickly again.  *)
LinkChanges(i) ==
  /\ links' = [links EXCEPT ![i].up = ~links[i].up]
  /\ out' = {}
  /\ UNCHANGED <<state, epoch, queued, accepted, timer, status, readers, config>>

-----------------------------------------------------------------------------
(* CommonState::new and States::new; the configuration is apart. *)
Fresh ==
  /\ state = "Disconnected"
  /\ epoch = None
  /\ links = <<>>
  /\ readers = {}
  /\ queued = 0
  /\ accepted = {}
  /\ timer = Clear
  /\ is_active = FALSE
  /\ told = None
  /\ attempting = FALSE
  /\ last = None
  /\ out = {}

Default ==
  [auto_connect |-> TRUE, connecting |-> "some", reconnecting |-> "zero", grace |-> "zero"]

Init == Fresh /\ config = Default

(* The process is started again, with the same configuration: LinkSet::new *)
(* keeps nothing of the LinkSet before.  LinkSetPair uses it.              *)
Restart ==
  /\ Enter("Disconnected", None, <<>>, 0, {})
  /\ readers' = {}
  /\ timer' = Clear
  /\ is_active' = FALSE
  /\ told' = None
  /\ attempting' = FALSE
  /\ last' = None
  /\ out' = {}
  /\ UNCHANGED config

Next ==
  \/ Connect
  \/ Disconnect
  \/ \E id \in LinkIds, up \in BOOLEAN : AddLink(id, up)
  \/ \E tag \in OptEpoch : Message(tag)
  \/ \E new \in Config : Configure(new)
  \/ FrameDisconnected
  \/ \E e \in OptEpoch, request \in BOOLEAN : LinkReset(e, request)
  \/ \E should_ack \in BOOLEAN : LinkMsgSlice(should_ack)
  \/ Timer
  \/ \E id \in LinkIds : EvictLink(id) \/ ReaderEnds(id)
  \/ \E i \in DOMAIN links : LinkChanges(i)

Spec == Init /\ [][Next]_vars

(* The core polls its timer on every turn of its loop, and tokio's select  *)
(* picks among the ready branches at random: a deadline that has passed is *)
(* handled in the end.                                                     *)
FairSpec == Spec /\ WF_vars(Timer)

-----------------------------------------------------------------------------
(* Properties *)

(* The types of the fields other than the list of links. *)
FieldsTyped ==
  /\ state \in States
  /\ epoch \in OptEpoch
  /\ readers \subseteq LinkIds
  /\ queued \in 0..MaxQueued
  /\ accepted \subseteq OptEpoch
  /\ config \in Config
  /\ timer \in [deadline : States \cup {Unset}, repeat : States \cup {Unset}]
  /\ is_active \in BOOLEAN
  /\ told \in OptEpoch
  /\ attempting \in BOOLEAN
  /\ last \in OptEpoch
  /\ out \subseteq [epoch : OptEpoch, request : BOOLEAN]

(* The type invariant. *)
TypeOK == FieldsTyped /\ links \in Seq(Link)

(* LinkSet::is_active is true exactly while the core is Connected: the     *)
(* flag is stored by the transitions into and out of Connected, and no     *)
(* path through the other states leaves it behind.                         *)
ActiveMeansConnected == is_active <=> state = "Connected"

(* A user whom the last AttemptingConnection tells of an attempt can help  *)
(* it with addresses, and is told of every reconnection, although each     *)
(* transition emits its own subset of the notifications.                   *)
AttemptingTruth ==
  /\ attempting => state \in {"Connecting", "Reconnecting"}
  /\ state = "Reconnecting" => attempting

(* While the core holds the MessageManager of an epoch (through lost and   *)
(* replaced links too) the user's current_epoch is that epoch.             *)
SessionEpochTold ==
  state \in InSession => epoch # None /\ told = epoch /\ last = epoch

(* What the user sees of the core (is_active, AttemptingConnection and     *)
(* current_epoch) is true of it in every state and on every path.          *)
UserView == ActiveMeansConnected /\ AttemptingTruth /\ SessionEpochTold

(* A message sent with send_with_epoch is only ever in the MessageManager  *)
(* of that epoch, however the core got there.                              *)
OnlyItsEpoch ==
  /\ accepted \subseteq {None, epoch}
  /\ accepted # {} => state \in InSession

(* Outside a session the core stands at an epoch later than every epoch it *)
(* has announced (or at the last one there is): increments on the way out  *)
(* of a session are never lost on the way back in.                         *)
NextEpochFresh ==
  state \notin InSession /\ last # None => epoch > last \/ epoch = MaxEpoch

(* The one timer belongs to the state that is entered: Disconnected has    *)
(* none, EpochMismatch and Connected beat, and no other state runs on the  *)
(* deadline of the one before.                                             *)
TimerOfState ==
  /\ state = "Disconnected" => timer = Clear
  /\ state \in {"EpochMismatch", "Connected"} => HasDeadline(timer) /\ timer.repeat = state
  /\ state \in {"Connected", "Connecting", "Reconnecting", "GracePeriod"} =>
       timer.deadline \in {Unset, state}

(* A link that would take a frame stays in the list through whatever the   *)
(* core sends, receives and adds, through a new session over the old links *)
(* and through the failure of the links in front of it: only the user, an  *)
(* eviction or a beat that finds it slow takes it away.                    *)
UsableLinkIsKept ==
  [][\A i \in Live(links) :
       \/ links[i].id \in Ids(links')
       \/ Disconnect \/ EvictLink(links[i].id) \/ Timer]_vars

(* A new session never reuses an epoch: each Connected(e) the user gets is *)
(* for an epoch later than the one before, until u64 is used up.           *)
EpochsNeverReused ==
  [][state = "EpochMismatch" /\ state' = "Connected" =>
       epoch' > last \/ last = MaxEpoch]_vars

(* The sessions of the core, as its user is told of them. *)
Sessions == INSTANCE CoreSessions WITH
  session <- IF state \in InSession THEN epoch ELSE None

(* The core implements CoreSessions: lost and replaced links, handshakes,  *)
(* waits and their timeouts are invisible, and whatever begins or ends a   *)
(* session does so with the notifications that belong to it.               *)
ImplementsSessions == Sessions!Spec

(* Liveness.  A core that has lost every usable link does not stay in      *)
(* EpochMismatch or Connected: the repeating timer runs upkeep.            *)
DeadSessionEnds == []<>~(state \in {"EpochMismatch", "Connected"} /\ Live(links) = {})

(* Liveness.  Connecting, Reconnecting and GracePeriod end once their      *)
(* timeout is armed, whatever happens to the configuration meanwhile.      *)
WaitsAreBounded ==
  []<>~(state \in {"Connecting", "Reconnecting", "GracePeriod"} /\ HasDeadline(timer))

-----------------------------------------------------------------------------
(* What comments and documentation say, and the code does not do. *)

(* controller.rs: "The LinkSet has disconnected".  A user who was told of  *)
(* an epoch is told when the core is no longer connected nor trying to     *)
(* keep the session: not so after Connected -> EpochMismatch.              *)
DisconnectionTold ==
  state \in {"Disconnected", "Connecting"} => told = None

(* reconnecting.rs: "if a request for a mismatched epoch arrives, return   *)
(* to Connecting".  Without a deadline a Reset is the only step from       *)
(* Reconnecting to Connecting, and it should be for another epoch.         *)
MismatchEndsReconnecting ==
  [][state = "Reconnecting" /\ state' = "Connecting" /\ ~HasDeadline(timer) =>
       \A e \in OptEpoch : LinkReset(e, TRUE) => e # epoch]_vars

=============================================================================
