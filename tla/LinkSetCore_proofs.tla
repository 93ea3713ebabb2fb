------------------------- MODULE LinkSetCore_proofs -------------------------
(***************************************************************************)
(* Proofs about LinkSetCore, for every MaxEpoch, MaxQueued and LinkIds.    *)
(*                                                                         *)
(* Inv is inductive: the flags and notifications are tied to the state,    *)
(* and freshness of the next epoch rests on SessionEpochTold (a session is *)
(* left from the epoch that was announced).  Every handler ends either in  *)
(* one of the transition_from implementations or in the state it started   *)
(* from, so there is one lemma per state entered and one for staying.      *)
(* The list of links has an invariant of its own, LInv.                    *)
(***************************************************************************)
EXTENDS LinkSetCore, TLAPS, FiniteSetTheorems, NaturalsInduction, WellFoundedInduction

(* The latest AttemptingConnection tells exactly whether the core connects *)
(* or reconnects: the inductive form of AttemptingTruth.                   *)
AttemptingExact == attempting <=> state \in {"Connecting", "Reconnecting"}

Inv ==
  /\ FieldsTyped
  /\ ActiveMeansConnected
  /\ AttemptingExact
  /\ SessionEpochTold
  /\ OnlyItsEpoch
  /\ NextEpochFresh
  /\ TimerOfState

Timers == [deadline : States \cup {Unset}, repeat : States \cup {Unset}]

(* FieldsTyped in parts: the provers take Booleans and records apart from  *)
(* the rest.                                                               *)
FieldTypes ==
  /\ state \in States
  /\ epoch \in OptEpoch
  /\ queued \in 0..MaxQueued
  /\ accepted \subseteq OptEpoch
  /\ told \in OptEpoch
  /\ last \in OptEpoch

FlagTypes == is_active \in BOOLEAN /\ attempting \in BOOLEAN

(* What the handlers do outside the state itself. *)
Surroundings ==
  /\ readers \subseteq LinkIds
  /\ config \in Config
  /\ out \subseteq [epoch : OptEpoch, request : BOOLEAN]

LEMMA TypeParts == FieldsTyped <=> FieldTypes /\ FlagTypes /\ timer \in Timers /\ Surroundings
  BY DEF FieldsTyped, FieldTypes, FlagTypes, Timers, Surroundings

LEMMA TypePartsPrime ==
  FieldsTyped' <=> FieldTypes' /\ FlagTypes' /\ timer' \in Timers /\ Surroundings'
  BY DEF FieldsTyped, FieldTypes, FlagTypes, Timers, Surroundings

(* CommonState::new and States::new establish the invariant. *)
LEMMA InitInv == ASSUME Init PROVE Inv
<1>1. FieldsTyped
  <2>1. FieldTypes
    BY EpochAssumption, CoreAssumption DEF Init, Fresh, FieldTypes, States, OptEpoch, None
  <2>2. FlagTypes
    BY DEF Init, Fresh, FlagTypes
  <2>3. timer \in Timers
    BY DEF Init, Fresh, Timers, Clear, Unset
  <2>4. Surroundings
    BY DEF Init, Fresh, Surroundings, Config, Default, Timeouts
  <2>5. QED
    BY <2>1, <2>2, <2>3, <2>4, TypeParts
<1>2. ActiveMeansConnected /\ AttemptingExact
  BY DEF Init, Fresh, ActiveMeansConnected, AttemptingExact
<1>3. SessionEpochTold /\ OnlyItsEpoch /\ NextEpochFresh
  BY DEF Init, Fresh, SessionEpochTold, OnlyItsEpoch, NextEpochFresh, InSession
<1>4. TimerOfState
  BY DEF Init, Fresh, TimerOfState
<1>5. QED
  BY <1>1, <1>2, <1>3, <1>4 DEF Inv

(* The five ways into Disconnected. *)
LEMMA EnterDisconnected ==
  ASSUME Inv, Surroundings',
         \/ state = "Connecting" /\ ConnectingToDisconnected
         \/ state = "EpochMismatch" /\ EpochMismatchToDisconnected
         \/ state = "Connected" /\ ConnectedToDisconnected
         \/ state = "Reconnecting" /\ ReconnectingToDisconnected
         \/ state = "GracePeriod" /\ GracePeriodToDisconnected
  PROVE  Inv'
<1> USE DEF ConnectingToDisconnected, EpochMismatchToDisconnected, ConnectedToDisconnected,
            ReconnectingToDisconnected, GracePeriodToDisconnected, Enter, status, Inv
<1>1. FieldsTyped'
  <2>1. FieldTypes'
    BY TypeParts, EpochAssumption, CoreAssumption
    DEF FieldTypes, States, OptEpoch, None, Increment, OptIncrement
  <2>2. FlagTypes'
    BY TypeParts DEF FlagTypes
  <2>3. timer' \in Timers
    BY DEF Timers, Clear, Unset
  <2>4. QED
    BY <2>1, <2>2, <2>3, TypePartsPrime
<1>2. ActiveMeansConnected' /\ AttemptingExact'
  BY DEF FieldsTyped, ActiveMeansConnected, AttemptingExact
<1>3. SessionEpochTold' /\ OnlyItsEpoch'
  BY DEF SessionEpochTold, OnlyItsEpoch, InSession
<1>4. NextEpochFresh'
  BY EpochAssumption
  DEF FieldsTyped, NextEpochFresh, SessionEpochTold, InSession, OptEpoch, None, Increment, OptIncrement
<1>5. TimerOfState'
  BY DEF TimerOfState, Clear
<1>6. QED
  BY <1>1, <1>2, <1>3, <1>4, <1>5

(* The four ways into Connecting; t is the timer when determine_timer runs. *)
LEMMA EnterConnecting ==
  ASSUME Inv, Surroundings', NEW n \in {0, 1}, NEW t \in Timers,
         \/ state = "Disconnected" /\ DisconnectedToConnecting(n)
         \/ state = "EpochMismatch" /\ EpochMismatchToConnecting(t)
         \/ state = "Reconnecting" /\ ReconnectingToConnecting(t)
         \/ state = "GracePeriod" /\ GracePeriodToConnecting(t)
  PROVE  Inv'
<1> USE DEF DisconnectedToConnecting, EpochMismatchToConnecting, ReconnectingToConnecting,
            GracePeriodToConnecting, Enter, status, Inv
<1>1. timer' \in Timers /\ timer'.deadline \in {Unset, "Connecting"}
  BY DEF FieldsTyped, Timers, ConnectingTimer, Clear, ClearRepeat, ModifyDeadline, Unset, States
<1>2. FieldsTyped'
  <2>1. FieldTypes'
    BY TypeParts, EpochAssumption, CoreAssumption
    DEF FieldTypes, States, OptEpoch, None, Increment
  <2>2. FlagTypes'
    BY TypeParts DEF FlagTypes
  <2>3. QED
    BY <1>1, <2>1, <2>2, TypePartsPrime
<1>3. ActiveMeansConnected' /\ AttemptingExact'
  BY DEF FieldsTyped, ActiveMeansConnected, AttemptingExact
<1>4. SessionEpochTold' /\ OnlyItsEpoch'
  BY DEF SessionEpochTold, OnlyItsEpoch, InSession
<1>5. NextEpochFresh'
  BY EpochAssumption
  DEF FieldsTyped, NextEpochFresh, SessionEpochTold, InSession, OptEpoch, None, Increment
<1>6. TimerOfState'
  BY <1>1 DEF TimerOfState
<1>7. QED
  BY <1>2, <1>3, <1>4, <1>5, <1>6

(* The three ways into EpochMismatch. *)
LEMMA EnterEpochMismatch ==
  ASSUME Inv, Surroundings', NEW link,
         \/ state = "Disconnected" /\ DisconnectedToEpochMismatch(link)
         \/ state = "Connecting" /\ ConnectingToEpochMismatch(link)
         \/ state = "Connected" /\ ConnectedToEpochMismatch
  PROVE  Inv'
<1> USE DEF Inv
<1>1. /\ state' = "EpochMismatch" /\ accepted' = {} /\ told' = told /\ last' = last
      /\ timer' = ModifyRepeat(timer, "EpochMismatch")
  BY Zenon DEF DisconnectedToEpochMismatch, ConnectingToEpochMismatch, ConnectedToEpochMismatch,
               Enter, status
<1>2. \/ /\ state = "Disconnected" /\ epoch' = epoch /\ queued' = 0
         /\ is_active' = is_active /\ attempting' = attempting
      \/ /\ state = "Connecting" /\ epoch' = epoch /\ queued' = queued
         /\ is_active' = is_active /\ attempting' = FALSE
      \/ /\ state = "Connected" /\ epoch' = Increment(epoch) /\ queued' = 0
         /\ is_active' = FALSE /\ attempting' = attempting
  BY Zenon DEF DisconnectedToEpochMismatch, ConnectingToEpochMismatch, ConnectedToEpochMismatch,
               Enter, status
<1>3. timer' \in Timers /\ timer'.deadline # Unset /\ timer'.repeat = "EpochMismatch"
  BY <1>1, TypeParts DEF Timers, ModifyRepeat, Unset, States
<1>4. FieldsTyped'
  <2>1. FieldTypes'
    BY <1>1, <1>2, TypeParts, EpochAssumption, CoreAssumption
    DEF FieldTypes, States, OptEpoch, None, Increment
  <2>2. FlagTypes'
    BY <1>2, TypeParts DEF FlagTypes
  <2>3. QED
    BY <1>3, <2>1, <2>2, TypePartsPrime
<1>5. ActiveMeansConnected' /\ AttemptingExact'
  BY <1>1, <1>2, TypeParts DEF FlagTypes, ActiveMeansConnected, AttemptingExact
<1>6. SessionEpochTold' /\ OnlyItsEpoch'
  BY <1>1 DEF SessionEpochTold, OnlyItsEpoch, InSession
<1>7. NextEpochFresh'
  BY <1>1, <1>2, TypeParts, EpochAssumption
  DEF FieldTypes, NextEpochFresh, SessionEpochTold, InSession, OptEpoch, None, Increment
<1>8. TimerOfState'
  BY <1>1, <1>3 DEF TimerOfState, HasDeadline
<1>9. QED
  BY <1>4, <1>5, <1>6, <1>7, <1>8

(* The three ways into Connected.  The epoch of EpochMismatch is replaced; *)
(* the other two come back to the session they left.                       *)
LEMMA EnterConnected ==
  ASSUME Inv, Surroundings', NEW e \in Epoch, NEW ls, NEW link,
         \/ state = "EpochMismatch" /\ EpochMismatchToConnected(e, ls)
         \/ state = "Reconnecting" /\ ReconnectingToConnected(link)
         \/ state = "GracePeriod" /\ GracePeriodToConnected(link)
  PROVE  Inv'
<1> USE DEF Inv
<1>1. state' = "Connected" /\ queued' = 0 /\ is_active' = TRUE
      /\ timer' = ModifyRepeat(Clear, "Connected")
  BY Zenon DEF EpochMismatchToConnected, ReconnectingToConnected, GracePeriodToConnected, Enter
<1>2. \/ /\ state = "EpochMismatch" /\ epoch' = e /\ told' = e /\ last' = e
         /\ accepted' \subseteq {None} /\ attempting' = attempting
      \/ /\ state = "Reconnecting" /\ epoch' = epoch /\ told' = told /\ last' = last
         /\ accepted' = accepted /\ attempting' = FALSE
      \/ /\ state = "GracePeriod" /\ epoch' = epoch /\ told' = told /\ last' = last
         /\ accepted' = accepted /\ attempting' = attempting
  BY Zenon DEF EpochMismatchToConnected, ReconnectingToConnected, GracePeriodToConnected, Enter
<1>3. timer' = [deadline |-> "Connected", repeat |-> "Connected"]
  BY <1>1 DEF ModifyRepeat, Clear, Unset
<1>4. FieldsTyped'
  <2>1. FieldTypes'
    BY <1>1, <1>2, TypeParts, EpochAssumption, CoreAssumption
    DEF FieldTypes, States, OptEpoch, Epoch, None
  <2>2. FlagTypes'
    BY <1>1, <1>2, TypeParts DEF FlagTypes
  <2>3. timer' \in Timers
    BY <1>3 DEF Timers, States
  <2>4. QED
    BY <2>1, <2>2, <2>3, TypePartsPrime
<1>5. ActiveMeansConnected' /\ AttemptingExact'
  BY <1>1, <1>2, TypeParts DEF FlagTypes, ActiveMeansConnected, AttemptingExact
<1>6. SessionEpochTold' /\ OnlyItsEpoch' /\ NextEpochFresh'
  <2>1. e # None
    BY EpochAssumption DEF Epoch, None
  <2>2. SessionEpochTold'
    BY <1>1, <1>2, <2>1 DEF SessionEpochTold, InSession
  <2>3. OnlyItsEpoch'
    BY <1>1, <1>2 DEF OnlyItsEpoch, InSession
  <2>4. NextEpochFresh'
    BY <1>1 DEF NextEpochFresh, InSession
  <2>5. QED
    BY <2>2, <2>3, <2>4
<1>7. TimerOfState'
  BY <1>1, <1>3 DEF TimerOfState, HasDeadline, Unset
<1>8. QED
  BY <1>4, <1>5, <1>6, <1>7

(* determine_state: stay in Connected or leave it for one of three states. *)
LEMMA DetermineStateInv ==
  ASSUME Inv, Surroundings', state = "Connected",
         NEW ls, NEW tags \in SUBSET {None, epoch},
         NEW t \in Timers, t = [deadline |-> "Connected", repeat |-> "Connected"],
         DetermineState(ls, tags, t)
  PROVE  Inv'
<1> USE DEF Inv
<1>1. CASE ConnectedToDisconnected
  BY <1>1, EnterDisconnected
<1>2. CASE ~ConnectedToDisconnected
  <2>1. /\ state' \in {"Connected", "Reconnecting", "GracePeriod"}
        /\ epoch' = epoch /\ queued' = 0 /\ accepted' = tags
        /\ told' = told /\ last' = last
    BY <1>2, Zenon DEF DetermineState, ConnectedToReconnecting, ConnectedToGracePeriod, Enter, status
  <2>2. \/ state' = "Connected" /\ is_active' = is_active /\ attempting' = attempting
        \/ state' = "Reconnecting" /\ is_active' = FALSE /\ attempting' = TRUE
        \/ state' = "GracePeriod" /\ is_active' = FALSE /\ attempting' = attempting
    BY <1>2, Zenon DEF DetermineState, ConnectedToReconnecting, ConnectedToGracePeriod, Enter, status
  <2>3. \/ state' = "Connected" /\ timer' = t
        \/ timer' = Clear /\ state' # "Connected"
        \/ timer' = ModifyDeadline(t, state') /\ state' # "Connected"
    BY <1>2, <2>2, Zenon DEF DetermineState, ConnectedToReconnecting, ConnectedToGracePeriod, Enter
  <2>4. timer' \in Timers /\ TimerOfState'
    BY <2>1, <2>3 DEF Timers, TimerOfState, HasDeadline, ModifyDeadline, Clear, Unset, States
  <2>5. FieldsTyped'
    <3>1. FieldTypes'
      BY <2>1, TypeParts, EpochAssumption, CoreAssumption
      DEF FieldTypes, States, OptEpoch, None
    <3>2. FlagTypes'
      BY <2>2, TypeParts DEF FlagTypes
    <3>3. QED
      BY <2>4, <3>1, <3>2, TypePartsPrime
  <2>6. ActiveMeansConnected' /\ AttemptingExact'
    <3>1. is_active = TRUE /\ attempting = FALSE
      BY TypeParts DEF FlagTypes, ActiveMeansConnected, AttemptingExact
    <3>2. CASE state' = "Connected"
      BY <2>2, <3>1, <3>2 DEF ActiveMeansConnected, AttemptingExact
    <3>3. CASE state' = "Reconnecting"
      BY <2>2, <3>1, <3>3 DEF ActiveMeansConnected, AttemptingExact
    <3>4. CASE state' = "GracePeriod"
      BY <2>2, <3>1, <3>4 DEF ActiveMeansConnected, AttemptingExact
    <3>5. QED
      BY <2>1, <3>2, <3>3, <3>4
  <2>7. SessionEpochTold' /\ OnlyItsEpoch' /\ NextEpochFresh'
    BY <2>1 DEF SessionEpochTold, OnlyItsEpoch, NextEpochFresh, InSession
  <2>8. QED
    BY <2>4, <2>5, <2>6, <2>7
<1>3. QED
  BY <1>1, <1>2

(* The core stays in its state: links, queued messages, the messages of    *)
(* the session and the surroundings change, and a beating timer is armed.  *)
LEMMA Stay ==
  ASSUME Inv, Surroundings',
         UNCHANGED <<state, epoch, status>>,
         queued' \in 0..MaxQueued,
         \/ UNCHANGED accepted
         \/ state \in InSession /\ accepted' \subseteq {None, epoch},
         \/ UNCHANGED timer
         \/ state = "EpochMismatch" /\ timer' = Elapsed(timer)
  PROVE  Inv'
<1> USE DEF Inv
<1>1. timer' \in Timers /\ TimerOfState'
  BY TypeParts DEF Timers, TimerOfState, HasDeadline, Elapsed, Unset, status
<1>2. FieldsTyped'
  <2>1. FieldTypes'
    BY TypeParts, EpochAssumption DEF FieldTypes, OptEpoch, None, status
  <2>2. FlagTypes'
    BY TypeParts DEF FlagTypes, status
  <2>3. QED
    BY <1>1, <2>1, <2>2, TypePartsPrime
<1>3. ActiveMeansConnected' /\ AttemptingExact'
  BY DEF ActiveMeansConnected, AttemptingExact, status
<1>4. SessionEpochTold' /\ OnlyItsEpoch' /\ NextEpochFresh'
  BY DEF SessionEpochTold, OnlyItsEpoch, NextEpochFresh, status
<1>5. QED
  BY <1>1, <1>2, <1>3, <1>4

LEMMA ResetSentType ==
  ASSUME NEW ls, NEW e \in OptEpoch, NEW request \in BOOLEAN
  PROVE  ResetSent(ls, e, request) \subseteq [epoch : OptEpoch, request : BOOLEAN]
  BY DEF ResetSent, Reset

LEMMA EpochFacts ==
  ASSUME Inv
  PROVE  /\ None \in OptEpoch /\ epoch \in OptEpoch /\ ONE \in Epoch
         /\ Increment(epoch) \in OptEpoch
         /\ \A e \in OptEpoch : e # None => e \in Epoch
         /\ Epoch \subseteq OptEpoch
  BY EpochAssumption, TypeParts DEF Inv, FieldTypes, OptEpoch, Epoch, None, ONE, Increment

(* The timer of Connected is the same before and after it elapses. *)
LEMMA ConnectedBeat ==
  ASSUME Inv, state = "Connected"
  PROVE  /\ timer \in Timers
         /\ timer = [deadline |-> "Connected", repeat |-> "Connected"]
         /\ Elapsed(timer) = timer
  BY TypeParts DEF Inv, Timers, TimerOfState, HasDeadline, Elapsed, Unset

LEMMA ElapsedType == ASSUME NEW t \in Timers PROVE Elapsed(t) \in Timers
  BY DEF Timers, Elapsed

LEMMA CommandsInv ==
  ASSUME Inv,
         \/ Connect \/ Disconnect
         \/ \E id \in LinkIds, up \in BOOLEAN : AddLink(id, up)
         \/ \E tag \in OptEpoch : Message(tag)
         \/ \E new \in Config : Configure(new)
  PROVE  Inv'
<1> USE DEF Inv
<1>1. CASE Connect
  <2>1. Surroundings'
    BY <1>1, TypeParts DEF Connect, Surroundings
  <2>2. timer \in Timers
    BY TypeParts
  <2>3. QED
    BY <1>1, <2>1, <2>2, EnterConnecting DEF Connect
<1>2. CASE Disconnect
  <2>1. Surroundings'
    BY <1>2, TypeParts DEF Disconnect, Surroundings
  <2>2. QED
    BY <1>2, <2>1, EnterDisconnected DEF Disconnect
<1>3. CASE \E id \in LinkIds, up \in BOOLEAN : AddLink(id, up)
  <2>1. PICK id \in LinkIds, up \in BOOLEAN : AddLink(id, up)
    BY <1>3
  <2> DEFINE link == [id |-> id, up |-> up]
  <2>2. AddLinkWith(link) /\ config' = config /\ readers' = readers \cup {id}
    BY <2>1 DEF AddLink
  <2> HIDE DEF link
  <2>3. out' \subseteq [epoch : OptEpoch, request : BOOLEAN]
    <3>1. out' = {} \/ out' = ResetSent(<<link>>, epoch, TRUE)
      BY <2>2, Zenon DEF AddLinkWith, DisconnectedToEpochMismatch, ConnectingToEpochMismatch
    <3>2. ResetSent(<<link>>, epoch, TRUE) \subseteq [epoch : OptEpoch, request : BOOLEAN]
      BY ResetSentType, EpochFacts
    <3>3. QED
      BY <3>1, <3>2
  <2>4. Surroundings'
    BY <2>2, <2>3, TypeParts DEF Surroundings
  <2>5. CASE state \in {"Disconnected", "Connecting"}
    BY <2>2, <2>4, <2>5, EnterEpochMismatch DEF AddLinkWith
  <2>6. CASE state \in {"EpochMismatch", "Connected"}
    <3>1. UNCHANGED <<state, epoch, queued, accepted, timer, status>>
      BY <2>2, <2>6 DEF AddLinkWith
    <3>2. QED
      BY <3>1, <2>4, Stay, TypeParts DEF FieldTypes
  <2>7. CASE state \in {"Reconnecting", "GracePeriod"}
    <3>1. ONE \in Epoch
      BY EpochFacts
    <3>2. QED
      BY <2>2, <2>4, <2>7, <3>1, EnterConnected DEF AddLinkWith
  <2>8. QED
    BY <2>5, <2>6, <2>7, TypeParts DEF FieldTypes, States
<1>4. CASE \E tag \in OptEpoch : Message(tag)
  <2>1. PICK tag \in OptEpoch : Message(tag)
    BY <1>4
  <2>2. Surroundings'
    BY <2>1, TypeParts DEF Message, Surroundings
  <2>3. CASE MessageDisconnected(tag)
    <3>1. timer \in Timers
      BY TypeParts
    <3>2. QED
      BY <2>2, <2>3, <3>1, EnterConnecting DEF MessageDisconnected
  <2>4. CASE MessageQueued(tag)
    <3>1. UNCHANGED <<state, epoch, accepted, timer, status>> /\ queued' \in 0..MaxQueued
      BY <2>4, TypeParts, CoreAssumption DEF MessageQueued, FieldTypes
    <3>2. QED
      BY <2>2, <3>1, Stay
  <2>5. CASE MessageConnected(tag)
    <3>1. accepted \cup {tag} \in SUBSET {None, epoch}
      BY <2>5 DEF MessageConnected, OnlyItsEpoch
    <3>2. state = "Connected" /\ DetermineState(AfterSend(links), accepted \cup {tag}, timer)
      BY <2>5 DEF MessageConnected
    <3>3. QED
      BY <2>2, <3>1, <3>2, ConnectedBeat, DetermineStateInv
  <2>6. CASE MessageKept(tag)
    <3>1. UNCHANGED <<state, epoch, queued, timer, status>> /\ state \in InSession
          /\ accepted' \subseteq {None, epoch}
      BY <2>6 DEF MessageKept, OnlyItsEpoch, InSession
    <3>2. QED
      BY <2>2, <3>1, Stay, TypeParts DEF FieldTypes
  <2>7. QED
    BY <2>1, <2>3, <2>4, <2>5, <2>6 DEF Message
<1>5. CASE \E new \in Config : Configure(new)
  <2>1. Surroundings' /\ UNCHANGED session
    BY <1>5, TypeParts DEF Configure, Surroundings
  <2>2. QED
    BY <2>1, Stay, TypeParts DEF session, FieldTypes
<1>6. QED
  BY <1>1, <1>2, <1>3, <1>4, <1>5

LEMMA FramesInv ==
  ASSUME Inv,
         \/ FrameDisconnected
         \/ \E e \in OptEpoch, request \in BOOLEAN : LinkReset(e, request)
         \/ \E should_ack \in BOOLEAN : LinkMsgSlice(should_ack)
  PROVE  Inv'
<1> USE DEF Inv
<1>1. CASE FrameDisconnected
  <2>1. Surroundings' /\ UNCHANGED session
    BY <1>1, TypeParts DEF FrameDisconnected, Surroundings
  <2>2. QED
    BY <2>1, Stay, TypeParts DEF session, FieldTypes
<1>2. CASE \E e \in OptEpoch, request \in BOOLEAN : LinkReset(e, request)
  <2>1. PICK e \in OptEpoch, request \in BOOLEAN : LinkReset(e, request)
    BY <1>2
  <2>2. readers' = readers /\ config' = config
    BY <2>1 DEF LinkReset
  <2> DEFINE Frames == [epoch : OptEpoch, request : BOOLEAN]
  <2>3. CASE ResetEpochMismatch(e, request)
    <3>1. CASE Compare(epoch, e) = "Greater"
      <4>1. /\ out' = ResetSent(links, epoch, FALSE)
            /\ UNCHANGED <<state, epoch, queued, accepted, timer, status>>
        BY <2>3, <3>1 DEF ResetEpochMismatch
      <4>2. ResetSent(links, epoch, FALSE) \subseteq Frames
        BY ResetSentType, EpochFacts
      <4>3. Surroundings'
        BY <2>2, <4>1, <4>2, TypeParts DEF Surroundings
      <4>4. QED
        BY <4>1, <4>3, Stay, TypeParts DEF FieldTypes
    <3>2. CASE Compare(epoch, e) = "Equal"
      <4>1. PICK ls : /\ state = "EpochMismatch"
                      /\ out' = {} \/ out' = ResetSent(links, epoch, FALSE)
                      /\ EpochMismatchToConnected(epoch, ls)
        BY <2>3, <3>2 DEF ResetEpochMismatch
      <4>2. ResetSent(links, epoch, FALSE) \subseteq Frames
        BY ResetSentType, EpochFacts
      <4>3. Surroundings'
        BY <2>2, <4>1, <4>2, TypeParts DEF Surroundings
      <4>4. epoch \in Epoch
        BY <3>2, EpochFacts DEF Compare
      <4>5. QED
        BY <4>1, <4>3, <4>4, EnterConnected
    <3>3. CASE Compare(epoch, e) = "Less"
      <4> DEFINE new == IF e = None THEN ONE ELSE e
      <4>1. /\ state = "EpochMismatch"
            /\ out' = ResetSent(links, new, FALSE)
            /\ EpochMismatchToConnected(new, AfterSend(links))
        BY <2>3, <3>3 DEF ResetEpochMismatch
      <4>2. new \in Epoch /\ new \in OptEpoch
        BY EpochFacts
      <4> HIDE DEF new
      <4>3. ResetSent(links, new, FALSE) \subseteq Frames
        BY <4>2, ResetSentType
      <4>4. Surroundings'
        BY <2>2, <4>1, <4>3, TypeParts DEF Surroundings
      <4>5. QED
        BY <4>1, <4>2, <4>4, EnterConnected
    <3>4. QED
      BY <3>1, <3>2, <3>3 DEF Compare
  <2>4. CASE ResetConnected(e, request)
    <3>1. CASE e = epoch
      <4>1. /\ state = "Connected"
            /\ out' = ResetSent(links, epoch, FALSE)
            /\ DetermineState(AfterSend(links), accepted, timer)
        BY <2>4, <3>1 DEF ResetConnected
      <4>2. ResetSent(links, epoch, FALSE) \subseteq Frames
        BY ResetSentType, EpochFacts
      <4>3. Surroundings'
        BY <2>2, <4>1, <4>2, TypeParts DEF Surroundings
      <4>4. accepted \in SUBSET {None, epoch}
        BY DEF OnlyItsEpoch
      <4>5. QED
        BY <4>1, <4>3, <4>4, ConnectedBeat, DetermineStateInv
    <3>2. CASE e # epoch
      <4>1. state = "Connected" /\ ConnectedToEpochMismatch
        BY <2>4, <3>2 DEF ResetConnected
      <4>2. out' = ResetSent(links, Increment(epoch), TRUE)
        BY <4>1 DEF ConnectedToEpochMismatch
      <4>3. ResetSent(links, Increment(epoch), TRUE) \subseteq Frames
        BY ResetSentType, EpochFacts
      <4>4. Surroundings'
        BY <2>2, <4>2, <4>3, TypeParts DEF Surroundings
      <4>5. QED
        BY <4>1, <4>4, EnterEpochMismatch
    <3>3. QED
      BY <3>1, <3>2
  <2>5. CASE ResetReconnecting(e, request)
    <3>1. Surroundings'
      BY <2>2, <2>5, TypeParts DEF Surroundings, ResetReconnecting
    <3>2. QED
      BY <2>5, <3>1, EnterConnecting, TypeParts DEF ResetReconnecting
  <2>6. CASE ResetGracePeriod(e, request)
    <3>1. Surroundings'
      BY <2>2, <2>6, TypeParts DEF Surroundings, ResetGracePeriod
    <3>2. QED
      BY <2>6, <3>1, EnterDisconnected DEF ResetGracePeriod
  <2>7. QED
    BY <2>1, <2>3, <2>4, <2>5, <2>6 DEF LinkReset
<1>3. CASE \E should_ack \in BOOLEAN : LinkMsgSlice(should_ack)
  <2>1. PICK ls : state = "Connected" /\ DetermineState(ls, accepted, timer)
    BY <1>3 DEF LinkMsgSlice
  <2>2. Surroundings'
    BY <1>3, TypeParts DEF LinkMsgSlice, Surroundings
  <2>3. accepted \in SUBSET {None, epoch}
    BY DEF OnlyItsEpoch
  <2>4. QED
    BY <2>1, <2>2, <2>3, ConnectedBeat, DetermineStateInv
<1>4. QED
  BY <1>1, <1>2, <1>3

LEMMA TimerInv == ASSUME Inv, Timer PROVE Inv'
<1> USE DEF Inv
<1>1. readers' = readers /\ config' = config
  BY DEF Timer
<1>2. Elapsed(timer) \in Timers
  BY TypeParts, ElapsedType
<1>3. CASE TimerEpochMismatch /\ Live(links) # {}
  <2>1. PICK ls : out' = ResetSent(ls, epoch, TRUE)
    BY <1>3, Zenon DEF TimerEpochMismatch
  <2>2. state = "EpochMismatch" /\ timer' = Elapsed(timer)
        /\ UNCHANGED <<state, epoch, queued, accepted, status>>
    BY <1>3, Zenon DEF TimerEpochMismatch
  <2>3. ResetSent(ls, epoch, TRUE) \subseteq [epoch : OptEpoch, request : BOOLEAN]
    BY ResetSentType, EpochFacts
  <2>4. Surroundings'
    BY <1>1, <2>1, <2>3, TypeParts DEF Surroundings
  <2>5. QED
    BY <2>2, <2>4, Stay, TypeParts DEF FieldTypes
<1>4. CASE ~(TimerEpochMismatch /\ Live(links) # {})
  <2>1. out' = {}
    BY <1>4, Zenon DEF Timer, TimerConnecting, TimerEpochMismatch, TimerConnected,
                TimerReconnecting, TimerGracePeriod
  <2>2. Surroundings'
    BY <1>1, <2>1, TypeParts DEF Surroundings
  <2>3. CASE TimerConnecting
    BY <2>2, <2>3, EnterDisconnected DEF TimerConnecting
  <2>4. CASE TimerEpochMismatch
    <3>1. /\ state = "EpochMismatch"
          /\ EpochMismatchToConnecting(Elapsed(timer)) \/ EpochMismatchToDisconnected
      BY <1>4, <2>4, Zenon DEF TimerEpochMismatch
    <3>2. QED
      BY <1>2, <2>2, <3>1, EnterConnecting, EnterDisconnected
  <2>5. CASE TimerConnected
    <3>1. PICK ls : state = "Connected" /\ DetermineState(ls, accepted, Elapsed(timer))
      BY <2>5, Zenon DEF TimerConnected
    <3>2. accepted \in SUBSET {None, epoch}
      BY DEF OnlyItsEpoch
    <3>3. QED
      BY <2>2, <3>1, <3>2, ConnectedBeat, DetermineStateInv
  <2>6. CASE TimerReconnecting
    BY <1>2, <2>2, <2>6, EnterConnecting, EnterDisconnected DEF TimerReconnecting
  <2>7. CASE TimerGracePeriod
    BY <1>2, <2>2, <2>7, EnterConnecting, EnterDisconnected DEF TimerGracePeriod
  <2>8. QED
    BY <2>3, <2>4, <2>5, <2>6, <2>7 DEF Timer
<1>5. QED
  BY <1>3, <1>4

(* Every handler preserves the invariant. *)
LEMMA NextInv == ASSUME Inv, [Next]_vars PROVE Inv'
<1>1. CASE \/ \E id \in LinkIds : EvictLink(id) \/ ReaderEnds(id)
           \/ \E i \in DOMAIN links : LinkChanges(i)
           \/ UNCHANGED vars
  <2>1. Surroundings' /\ UNCHANGED <<state, epoch, queued, accepted, timer, status>>
    BY <1>1, TypeParts
    DEF Inv, EvictLink, ReaderEnds, LinkChanges, vars, session, Surroundings
  <2>2. QED
    BY <2>1, Stay, TypeParts DEF Inv, FieldTypes
<1>2. QED
  BY <1>1, CommandsInv, FramesInv, TimerInv DEF Next

(* The core's bookkeeping is right whatever the user, the links and the    *)
(* peer do: the flag, the notifications, the epoch and the timer agree     *)
(* with the state it is in.                                                *)
THEOREM CoreInvariant == Spec => []Inv
<1>1. Init => Inv
  BY InitInv
<1>2. Inv /\ [Next]_vars => Inv'
  BY NextInv
<1>3. QED
  BY <1>1, <1>2, PTL DEF Spec

(* Outside a session the core stands at an epoch it has never announced.   *)
THEOREM NextEpochIsFresh == Spec => []NextEpochFresh
  BY CoreInvariant, PTL DEF Inv

(* What is_active, the latest AttemptingConnection and current_epoch tell  *)
(* the user is true of the core and of its session.                        *)
THEOREM UserSeesTheCore == Spec => []UserView
<1>1. Inv => UserView
  BY DEF Inv, UserView, AttemptingTruth, AttemptingExact
<1>2. QED
  BY <1>1, CoreInvariant, PTL

(* Every state runs on its own timer, and Disconnected on none.            *)
THEOREM TimerIsOwned == Spec => []TimerOfState
  BY CoreInvariant, PTL DEF Inv

(* A message for one epoch is never in the MessageManager of another.      *)
THEOREM MessagesKeepTheirEpoch == Spec => []OnlyItsEpoch
  BY CoreInvariant, PTL DEF Inv

(* The handshake ends in a later epoch than every epoch announced before. *)
LEMMA LaterEpoch ==
  ASSUME Inv, [Next]_vars, state = "EpochMismatch", state' = "Connected"
  PROVE  epoch' > last \/ epoch' = MaxEpoch
<1>1. PICK e \in OptEpoch, request \in BOOLEAN : ResetEpochMismatch(e, request)
  BY DEF Next, vars, session, Connect, Disconnect, AddLink, AddLinkWith, Message,
      MessageDisconnected, MessageQueued, MessageConnected, MessageKept, Configure,
      FrameDisconnected, LinkReset, ResetConnected, ResetReconnecting, ResetGracePeriod,
      LinkMsgSlice, Timer, TimerConnecting, TimerEpochMismatch, TimerConnected,
      TimerReconnecting, TimerGracePeriod, EvictLink, ReaderEnds, LinkChanges,
      EpochMismatchToDisconnected, EpochMismatchToConnecting, Enter
<1>2. \/ Compare(epoch, e) = "Equal" /\ epoch' = epoch
      \/ Compare(epoch, e) = "Less" /\ epoch' = IF e = None THEN ONE ELSE e
  BY <1>1 DEF ResetEpochMismatch, EpochMismatchToConnected, Enter
<1>3. epoch \in OptEpoch /\ last \in OptEpoch /\ (last # None => epoch > last \/ epoch = MaxEpoch)
  BY TypeParts DEF Inv, FieldTypes, NextEpochFresh, InSession
<1>4. QED
  BY <1>2, <1>3, EpochAssumption DEF Compare, OptEpoch, None, ONE

(* The handshake never opens a second session with an epoch that has been  *)
(* used, until the last epoch: increments done when a session is left are  *)
(* kept through Disconnected, Connecting and EpochMismatch.                *)
THEOREM NoEpochIsReused == Spec => EpochsNeverReused
<1> DEFINE Later ==
      state = "EpochMismatch" /\ state' = "Connected" => epoch' > last \/ last = MaxEpoch
<1>1. ASSUME Inv, Inv', [Next]_vars PROVE [Later]_vars
  <2>1. epoch' \in OptEpoch /\ last \in OptEpoch
    BY <1>1 DEF Inv, FieldsTyped
  <2>2. QED
    BY <1>1, <2>1, LaterEpoch, EpochAssumption DEF OptEpoch
<1>2. QED
  BY <1>1, CoreInvariant, PTL DEF Spec, EpochsNeverReused

(* How a step changes the session: not at all, by leaving it, or by the    *)
(* end of the handshake.                                                   *)
LEMMA SessionSteps ==
  ASSUME Inv, [Next]_vars
  PROVE  \/ /\ state' \in InSession <=> state \in InSession
            /\ state \in InSession => epoch' = epoch
            /\ told' = told /\ last' = last
         \/ /\ state \in InSession /\ state' \notin InSession
            /\ told' \in {None, told} /\ last' = last
         \/ state = "EpochMismatch" /\ state' = "Connected"
<1> USE DEF Enter, status, InSession
<1>1. ASSUME NEW ls, NEW tags, NEW t, state = "Connected", DetermineState(ls, tags, t)
      PROVE  \/ state' \in InSession /\ epoch' = epoch /\ told' = told /\ last' = last
             \/ state' \notin InSession /\ told' = None /\ last' = last
  BY <1>1 DEF DetermineState, ConnectedToReconnecting, ConnectedToGracePeriod, ConnectedToDisconnected
<1>2. CASE \/ Connect \/ Disconnect \/ FrameDisconnected \/ \E new \in Config : Configure(new)
           \/ \E id \in LinkIds : EvictLink(id) \/ ReaderEnds(id)
           \/ \E i \in DOMAIN links : LinkChanges(i)
           \/ UNCHANGED vars
  BY <1>2
  DEF Connect, Disconnect, FrameDisconnected, Configure, EvictLink, ReaderEnds, LinkChanges, vars,
      session, DisconnectedToConnecting, ConnectingToDisconnected, EpochMismatchToDisconnected,
      ConnectedToDisconnected, ReconnectingToDisconnected, GracePeriodToDisconnected
<1>3. CASE \E id \in LinkIds, up \in BOOLEAN : AddLink(id, up)
  <2>1. PICK id \in LinkIds, up \in BOOLEAN : AddLinkWith([id |-> id, up |-> up])
    BY <1>3 DEF AddLink
  <2> DEFINE link == [id |-> id, up |-> up]
  <2> HIDE DEF link
  <2>2. AddLinkWith(link)
    BY <2>1 DEF link
  <2>3. CASE state = "Disconnected" /\ DisconnectedToEpochMismatch(link)
    BY <2>3 DEF DisconnectedToEpochMismatch
  <2>4. CASE state = "Connecting" /\ ConnectingToEpochMismatch(link)
    BY <2>4 DEF ConnectingToEpochMismatch
  <2>5. CASE UNCHANGED <<state, epoch, status>>
    BY <2>5
  <2>6. CASE state = "Reconnecting" /\ ReconnectingToConnected(link)
    BY <2>6 DEF ReconnectingToConnected
  <2>7. CASE state = "GracePeriod" /\ GracePeriodToConnected(link)
    BY <2>7 DEF GracePeriodToConnected
  <2>8. QED
    BY <2>2, <2>3, <2>4, <2>5, <2>6, <2>7 DEF AddLinkWith
<1>4. CASE \E tag \in OptEpoch : Message(tag)
  BY <1>1, <1>4
  DEF Message, MessageDisconnected, MessageQueued, MessageConnected, MessageKept,
      DisconnectedToConnecting
<1>5. CASE \E e \in OptEpoch, request \in BOOLEAN : LinkReset(e, request)
  <2>1. PICK e \in OptEpoch, request \in BOOLEAN : LinkReset(e, request)
    BY <1>5
  <2>2. CASE ResetEpochMismatch(e, request)
    <3>1. state = "EpochMismatch"
      BY <2>2 DEF ResetEpochMismatch
    <3>2. state' = "Connected" \/ UNCHANGED <<state, told, last>>
      BY <2>2 DEF ResetEpochMismatch, EpochMismatchToConnected
    <3>3. QED
      BY <3>1, <3>2
  <2>3. CASE ResetConnected(e, request)
    BY <1>1, <2>3 DEF ResetConnected, ConnectedToEpochMismatch
  <2>4. CASE ResetReconnecting(e, request)
    BY <2>4 DEF ResetReconnecting, ReconnectingToConnecting
  <2>5. CASE ResetGracePeriod(e, request)
    BY <2>5 DEF ResetGracePeriod, GracePeriodToDisconnected
  <2>6. QED
    BY <2>1, <2>2, <2>3, <2>4, <2>5 DEF LinkReset
<1>6. CASE \E should_ack \in BOOLEAN : LinkMsgSlice(should_ack)
  BY <1>1, <1>6 DEF LinkMsgSlice
<1>7. CASE Timer
  BY <1>1, <1>7
  DEF Timer, TimerConnecting, TimerEpochMismatch, TimerConnected, TimerReconnecting,
      TimerGracePeriod, ConnectingToDisconnected, EpochMismatchToDisconnected,
      EpochMismatchToConnecting, ReconnectingToConnecting, ReconnectingToDisconnected,
      GracePeriodToConnecting, GracePeriodToDisconnected
<1>8. QED
  BY <1>2, <1>3, <1>4, <1>5, <1>6, <1>7 DEF Next

(* The core implements CoreSessions: a session outlives the links it runs  *)
(* on with its epoch and what the user was told, every new session has a   *)
(* later epoch, and the user is told of it in the same step.               *)
THEOREM CoreImplementsSessions == Spec => ImplementsSessions
<1> DEFINE mapped == IF state \in InSession THEN epoch ELSE None
<1>1. Init => Sessions!Init
  BY DEF Init, Fresh, Sessions!Init, InSession, Sessions!None, None
<1>2. ASSUME Inv, Inv', [Next]_vars PROVE [Sessions!Next]_(Sessions!core)
  <2>1. None = Sessions!None /\ OptEpoch = Sessions!OptEpoch
    BY DEF None, Sessions!None, OptEpoch, Sessions!OptEpoch
  <2>2. /\ state \in InSession => epoch # None
        /\ state' \in InSession => epoch' # None /\ told' = epoch' /\ last' = epoch'
        /\ epoch' \in OptEpoch
    BY <1>2 DEF Inv, SessionEpochTold, FieldsTyped
  <2>3. CASE /\ state' \in InSession <=> state \in InSession
             /\ state \in InSession => epoch' = epoch
             /\ told' = told /\ last' = last
    BY <2>3 DEF Sessions!core
  <2>4. CASE /\ state \in InSession /\ state' \notin InSession
             /\ told' \in {None, told} /\ last' = last
    <3>1. mapped # None /\ mapped' = None
      BY <2>2, <2>4
    <3>2. PICK tell \in BOOLEAN : told' = IF tell THEN None ELSE told
      BY <2>4
    <3>3. Sessions!Finish(tell)
      BY <2>1, <2>4, <3>1, <3>2 DEF Sessions!Finish
    <3>4. QED
      BY <3>3 DEF Sessions!Next
  <2>5. CASE state = "EpochMismatch" /\ state' = "Connected"
    <3>1. mapped = None /\ mapped' = epoch'
      BY <2>5 DEF InSession
    <3>2. epoch' # None /\ told' = epoch' /\ last' = epoch'
      BY <2>2, <2>5 DEF InSession
    <3>3. epoch' > last \/ epoch' = MaxEpoch
      BY <1>2, <2>5, LaterEpoch DEF Inv, FieldsTyped
    <3>4. Sessions!Establish(epoch')
      BY <2>1, <3>1, <3>2, <3>3 DEF Sessions!Establish
    <3>5. QED
      BY <2>1, <2>2, <3>4 DEF Sessions!Next
  <2>6. QED
    BY <1>2, <2>3, <2>4, <2>5, SessionSteps
<1>3. QED
  BY <1>1, <1>2, CoreInvariant, PTL DEF Spec, ImplementsSessions, Sessions!Spec

-----------------------------------------------------------------------------
(* The list of links. *)

(* A list of links holds each of them once. *)
IsList(ls) ==
  /\ ls \in Seq(Link)
  /\ \A i, j \in DOMAIN ls : ls[i].id = ls[j].id => i = j

LEMMA EmptyList == IsList(<<>>)
  BY DEF IsList

LEMMA OneLinkList == ASSUME NEW link \in Link PROVE IsList(<<link>>)
  BY DEF IsList

LEMMA AddLinkList ==
  ASSUME NEW ls, IsList(ls), NEW link \in Link, link.id \notin Ids(ls)
  PROVE  IsList(AddLinkTo(ls, link))
<1> DEFINE new == AddLinkTo(ls, link)
<1>1. ls \in Seq(Link) /\ Len(ls) \in Nat /\ DOMAIN ls = 1..Len(ls)
  BY DEF IsList
<1>2. /\ new \in Seq(Link) /\ DOMAIN new = 1..(Len(ls) + 1)
      /\ new[1] = link
      /\ \A i \in 2..(Len(ls) + 1) : new[i] = ls[i - 1] /\ i - 1 \in DOMAIN ls
  BY <1>1 DEF AddLinkTo
<1> HIDE DEF new
<1>3. \A i \in DOMAIN ls : ls[i].id # link.id
  BY DEF Ids
<1>4. ASSUME NEW i \in DOMAIN new, NEW j \in DOMAIN new, new[i].id = new[j].id PROVE i = j
  <2>1. CASE i = 1 \/ j = 1
    <3>1. i \in 2..(Len(ls) + 1) => new[i].id # link.id
      BY <1>2, <1>3
    <3>2. j \in 2..(Len(ls) + 1) => new[j].id # link.id
      BY <1>2, <1>3
    <3>3. QED
      BY <1>1, <1>2, <1>4, <2>1, <3>1, <3>2
  <2>2. CASE i # 1 /\ j # 1
    <3>1. i \in 2..(Len(ls) + 1) /\ j \in 2..(Len(ls) + 1)
      BY <1>1, <1>2, <2>2
    <3>2. i - 1 = j - 1
      BY <1>2, <1>4, <3>1 DEF IsList
    <3>3. QED
      BY <1>1, <3>1, <3>2
  <2>3. QED
    BY <2>1, <2>2
<1>5. QED
  BY <1>2, <1>4 DEF IsList, new

(* A set of numbers has a least element. *)
LEMMA LeastOf ==
  ASSUME NEW S \in SUBSET Nat, S # {}
  PROVE  \E i \in S : \A j \in S : i <= j
<1> DEFINE Less == {ss \in Nat \X Nat : ss[1] < ss[2]}
<1>1. IsWellFoundedOn(Less, Nat)
  BY NatLessThanWellFounded, Zenon DEF OpToRel
<1> HIDE DEF Less
<1>2. PICK i \in S : \A j \in S : ~(<<j, i>> \in Less)
  BY <1>1, WFMin, Zenon
<1>3. \A x, y \in Nat : y < x => <<y, x>> \in Less
  BY DEF Less
<1>4. ASSUME NEW j \in S PROVE i <= j
  <2>1. i \in Nat /\ j \in Nat /\ ~(j < i)
    BY <1>2, <1>3
  <2>2. QED
    BY <2>1
<1>5. QED
  BY <1>4

(* What a send leaves is a tail of the list. *)
LEMMA AfterSendList == ASSUME NEW ls, IsList(ls) PROVE IsList(AfterSend(ls))
<1>1. ls \in Seq(Link) /\ Len(ls) \in Nat /\ DOMAIN ls = 1..Len(ls)
  BY DEF IsList
<1>2. CASE Live(ls) = {}
  BY <1>2, EmptyList DEF AfterSend
<1>3. CASE Live(ls) # {}
  <2> DEFINE first == CHOOSE i \in Live(ls) : \A j \in Live(ls) : i <= j
             new == SubSeq(ls, first, Len(ls))
  <2>1. Live(ls) \in SUBSET Nat
    BY <1>1 DEF Live
  <2>2. first \in Live(ls)
    BY <1>3, <2>1, LeastOf
  <2>3. first \in 1..Len(ls)
    BY <1>1, <2>2 DEF Live
  <2> HIDE DEF first
  <2>4. /\ new \in Seq(Link) /\ DOMAIN new = 1..(Len(ls) - first + 1)
        /\ \A i \in DOMAIN new : new[i] = ls[first + i - 1] /\ first + i - 1 \in DOMAIN ls
    BY <1>1, <2>3
  <2>5. AfterSend(ls) = new
    BY <1>3 DEF AfterSend, first
  <2> HIDE DEF new
  <2>6. ASSUME NEW i \in DOMAIN new, NEW j \in DOMAIN new, new[i].id = new[j].id PROVE i = j
    <3>1. first + i - 1 = first + j - 1
      BY <2>4, <2>6 DEF IsList
    <3>2. QED
      BY <2>3, <2>4, <3>1
  <2>7. QED
    BY <2>4, <2>5, <2>6 DEF IsList
<1>4. QED
  BY <1>2, <1>3

(* A send leaves every usable link where it is. *)
LiveIds(ls) == {ls[i].id : i \in Live(ls)}

LEMMA AfterSendKeeps ==
  ASSUME NEW ls, IsList(ls)
  PROVE  LiveIds(ls) \subseteq LiveIds(AfterSend(ls))
<1>1. ls \in Seq(Link) /\ Len(ls) \in Nat /\ DOMAIN ls = 1..Len(ls)
  BY DEF IsList
<1> SUFFICES ASSUME NEW i \in Live(ls) PROVE ls[i].id \in LiveIds(AfterSend(ls))
  BY DEF LiveIds
<1> DEFINE first == CHOOSE j \in Live(ls) : \A k \in Live(ls) : j <= k
           new == SubSeq(ls, first, Len(ls))
<1>2. Live(ls) \in SUBSET Nat
  BY <1>1 DEF Live
<1>3. first \in Live(ls) /\ first <= i
  BY <1>2, LeastOf
<1>4. first \in 1..Len(ls) /\ i \in 1..Len(ls)
  BY <1>1, <1>3 DEF Live
<1>5. AfterSend(ls) = new
  BY DEF AfterSend
<1> HIDE DEF first
<1>6. i - first + 1 \in DOMAIN new /\ new[i - first + 1] = ls[i]
  BY <1>1, <1>3, <1>4
<1> HIDE DEF new
<1>7. i - first + 1 \in Live(new)
  BY <1>6 DEF Live
<1>8. QED
  BY <1>5, <1>6, <1>7 DEF LiveIds

(* retain numbers the places it keeps: each number up to their count       *)
(* belongs to exactly one of them.                                         *)
Rank(S, i) == Cardinality({j \in S : j <= i})

LEMMA Ranks ==
  ASSUME NEW k \in Nat, NEW S \in SUBSET (1..k)
  PROVE  /\ IsFiniteSet(S) /\ Cardinality(S) \in Nat
         /\ \A i \in S : Rank(S, i) \in 1..Cardinality(S)
         /\ \A i, j \in S : Rank(S, i) = Rank(S, j) => i = j
<1> DEFINE Upto(i) == {j \in S : j <= i}
<1>1. IsFiniteSet(S) /\ Cardinality(S) \in Nat
  <2>1. IsFiniteSet(1..k)
    BY FS_Interval
  <2>2. QED
    BY <2>1, FS_Subset, FS_CardinalityType
<1>2. \A i \in S : /\ IsFiniteSet(Upto(i)) /\ Cardinality(Upto(i)) \in Nat
                   /\ Cardinality(Upto(i)) <= Cardinality(S)
                   /\ Cardinality(Upto(i)) # 0
  <2> SUFFICES ASSUME NEW i \in S
               PROVE  /\ IsFiniteSet(Upto(i)) /\ Cardinality(Upto(i)) \in Nat
                      /\ Cardinality(Upto(i)) <= Cardinality(S)
                      /\ Cardinality(Upto(i)) # 0
    OBVIOUS
  <2>1. Upto(i) \in SUBSET S /\ i \in Upto(i)
    OBVIOUS
  <2> HIDE DEF Upto
  <2>2. QED
    BY <1>1, <2>1, FS_Subset, FS_CardinalityType, FS_EmptySet
<1>3. ASSUME NEW i \in S, NEW j \in S, i < j PROVE Cardinality(Upto(i)) # Cardinality(Upto(j))
  <2>1. Upto(i) \in SUBSET Upto(j) /\ j \in Upto(j) /\ j \notin Upto(i)
    <3>1. i \in Nat /\ j \in Nat
      OBVIOUS
    <3>2. \A x \in S : x \in Nat
      OBVIOUS
    <3>3. j \in Upto(j) /\ j \notin Upto(i)
      BY <1>3, <3>1
    <3>4. \A x \in Upto(i) : x \in Upto(j)
      BY <1>3, <3>1, <3>2
    <3>5. QED
      BY <3>3, <3>4
  <2> HIDE DEF Upto
  <2>2. QED
    BY <1>2, <2>1, FS_Subset
<1>4. \A i \in S : Rank(S, i) = Cardinality(Upto(i))
  BY DEF Rank
<1> HIDE DEF Upto
<1>5. \A i \in S : Rank(S, i) \in 1..Cardinality(S)
  BY <1>1, <1>2, <1>4
<1>6. \A i, j \in S : Rank(S, i) = Rank(S, j) => i = j
  BY <1>3, <1>4
<1>7. QED
  BY <1>1, <1>5, <1>6

LEMMA RankOfPlace ==
  ASSUME NEW k \in Nat, NEW S \in SUBSET (1..k),
         NEW n \in 1..Cardinality(S)
  PROVE  \E i \in S : Rank(S, i) = n
<1> DEFINE rank == [i \in S |-> Rank(S, i)]
<1>1. rank \in [S -> 1..Cardinality(S)] /\ \A i, j \in S : rank[i] = rank[j] => i = j
  BY Ranks
<1> HIDE DEF rank
<1>2. rank \in Injection(S, 1..Cardinality(S))
  BY <1>1 DEF Injection, IsInjective
<1>3. IsFiniteSet(S) /\ Cardinality(S) \in Nat
  BY Ranks
<1>4. IsFiniteSet(1..Cardinality(S)) /\ Cardinality(1..Cardinality(S)) = Cardinality(S)
  BY <1>3, FS_Interval
<1>5. rank \in Surjection(S, 1..Cardinality(S))
  BY <1>2, <1>4, FS_Injection
<1>6. PICK i \in S : rank[i] = n
  BY <1>5 DEF Surjection
<1>7. QED
  BY <1>6 DEF rank

(* What upkeep and evict_link retain is a list again. *)
LEMMA RetainList ==
  ASSUME NEW ls, IsList(ls), NEW places \in SUBSET DOMAIN ls
  PROVE  IsList(Retain(ls, places))
<1> DEFINE Place(n) == CHOOSE i \in places : Rank(places, i) = n
           new == Retain(ls, places)
<1>1. ls \in Seq(Link) /\ Len(ls) \in Nat /\ DOMAIN ls = 1..Len(ls)
  BY DEF IsList
<1>2. Cardinality(places) \in Nat
  <2>1. IsFiniteSet(1..Len(ls)) /\ places \in SUBSET (1..Len(ls))
    BY <1>1, FS_Interval
  <2>2. QED
    BY <2>1, FS_Subset, FS_CardinalityType
<1>3. \A n \in 1..Cardinality(places) : \E i \in places : Rank(places, i) = n
  BY <1>1, RankOfPlace
<1>4. new = [n \in 1..Cardinality(places) |-> ls[Place(n)]]
  BY DEF Retain, Rank
<1> HIDE DEF new
<1>5. \A n \in 1..Cardinality(places) : Place(n) \in places /\ Rank(places, Place(n)) = n
  BY <1>3
<1> HIDE DEF Place
<1>6. \A n \in 1..Cardinality(places) : Place(n) \in 1..Len(ls) /\ ls[Place(n)] \in Link
  BY <1>1, <1>5
<1>7. new \in Seq(Link) /\ DOMAIN new = 1..Cardinality(places)
  BY <1>2, <1>4, <1>6
<1>8. ASSUME NEW m \in DOMAIN new, NEW n \in DOMAIN new, new[m].id = new[n].id PROVE m = n
  <2>1. Place(m) = Place(n)
    BY <1>1, <1>4, <1>6, <1>7, <1>8 DEF IsList
  <2>2. QED
    BY <1>5, <1>7, <2>1
<1>9. QED
  BY <1>7, <1>8 DEF IsList, new

(* retain keeps every link it is to keep. *)
LEMMA RetainKeeps ==
  ASSUME NEW ls, IsList(ls), NEW places \in SUBSET DOMAIN ls, NEW i \in places
  PROVE  ls[i].id \in Ids(Retain(ls, places))
<1> DEFINE Place(n) == CHOOSE p \in places : Rank(places, p) = n
           new == Retain(ls, places)
           n == Rank(places, i)
<1>1. Len(ls) \in Nat /\ places \in SUBSET (1..Len(ls))
  BY DEF IsList
<1>2. new = [m \in 1..Cardinality(places) |-> ls[Place(m)]]
  BY DEF Retain, Rank
<1>3. n \in 1..Cardinality(places)
  BY <1>1, Ranks
<1>4. Place(n) \in places /\ Rank(places, Place(n)) = n
  OBVIOUS
<1>5. Place(n) = i
  BY <1>1, <1>4, Ranks
<1> HIDE DEF Place, n, new
<1>6. n \in DOMAIN new /\ new[n] = ls[i]
  BY <1>2, <1>3, <1>5
<1>7. QED
  BY <1>6 DEF Ids, new

LEMMA PingedList ==
  ASSUME NEW ls, IsList(ls), NEW pinged \in PingAll(ls)
  PROVE  IsList(pinged)
<1>1. ls \in Seq(Link) /\ Len(ls) \in Nat /\ DOMAIN ls = 1..Len(ls)
  BY DEF IsList
<1>2. PICK slow \in SUBSET DOMAIN ls : pinged =
        [i \in DOMAIN ls |-> IF i \in slow THEN [ls[i] EXCEPT !.up = FALSE] ELSE ls[i]]
  BY DEF PingAll
<1>3. \A i \in DOMAIN ls : pinged[i] \in Link /\ pinged[i].id = ls[i].id
  <2> SUFFICES ASSUME NEW i \in DOMAIN ls PROVE pinged[i] \in Link /\ pinged[i].id = ls[i].id
    OBVIOUS
  <2>1. ls[i] \in Link
    BY <1>1
  <2>2. pinged[i] = IF i \in slow THEN [ls[i] EXCEPT !.up = FALSE] ELSE ls[i]
    BY <1>2
  <2>3. QED
    BY <2>1, <2>2 DEF Link
<1>4. DOMAIN pinged = 1..Len(ls) /\ pinged = [i \in 1..Len(ls) |-> pinged[i]]
  BY <1>1, <1>2
<1>5. pinged \in Seq(Link)
  BY <1>1, <1>3, <1>4
<1>6. QED
  BY <1>1, <1>3, <1>4, <1>5 DEF IsList

LEMMA ChangedList ==
  ASSUME NEW ls, IsList(ls), NEW i \in DOMAIN ls
  PROVE  IsList([ls EXCEPT ![i].up = ~ls[i].up])
<1> DEFINE new == [ls EXCEPT ![i].up = ~ls[i].up]
<1>1. ls \in Seq(Link) /\ Len(ls) \in Nat /\ DOMAIN ls = 1..Len(ls)
  BY DEF IsList
<1>2. \A j \in DOMAIN ls : new[j] \in Link /\ new[j].id = ls[j].id
  <2> SUFFICES ASSUME NEW j \in DOMAIN ls PROVE new[j] \in Link /\ new[j].id = ls[j].id
    OBVIOUS
  <2>1. ls[j] \in Link /\ ls[i] \in Link
    BY <1>1
  <2>2. [ls[i] EXCEPT !.up = ~ls[i].up] \in Link /\ [ls[i] EXCEPT !.up = ~ls[i].up].id = ls[i].id
    BY <2>1 DEF Link
  <2>3. new[j] = IF j = i THEN [ls[i] EXCEPT !.up = ~ls[i].up] ELSE ls[j]
    BY <1>1
  <2>4. QED
    BY <2>1, <2>2, <2>3
<1>3. DOMAIN new = 1..Len(ls) /\ new = [j \in 1..Len(ls) |-> new[j]]
  BY <1>1
<1> HIDE DEF new
<1>4. new \in Seq(Link)
  BY <1>1, <1>2, <1>3
<1>5. QED
  BY <1>1, <1>2, <1>3, <1>4 DEF IsList, new

(* No link is twice in the list, and only EpochMismatch and Connected hold *)
(* links.                                                                  *)
LInv == IsList(links) /\ (links # <<>> => state \in {"EpochMismatch", "Connected"})

LEMMA DetermineStateLinks ==
  ASSUME NEW ls, IsList(ls), NEW tags, NEW t, DetermineState(ls, tags, t)
  PROVE  LInv'
  BY EmptyList
  DEF DetermineState, ConnectedToReconnecting, ConnectedToGracePeriod, ConnectedToDisconnected,
      Enter, LInv, IsList

LEMMA CommandsLinks ==
  ASSUME LInv,
         \/ Connect \/ Disconnect
         \/ \E id \in LinkIds, up \in BOOLEAN : AddLink(id, up)
         \/ \E tag \in OptEpoch : Message(tag)
  PROVE  LInv'
<1>1. CASE Connect \/ Disconnect
  BY <1>1, EmptyList
  DEF Connect, Disconnect, DisconnectedToConnecting, ConnectingToDisconnected,
      EpochMismatchToDisconnected, ConnectedToDisconnected, ReconnectingToDisconnected,
      GracePeriodToDisconnected, Enter, LInv, IsList
<1>2. CASE \E id \in LinkIds, up \in BOOLEAN : AddLink(id, up)
  <2>1. PICK id \in LinkIds, up \in BOOLEAN : AddLink(id, up)
    BY <1>2
  <2> DEFINE link == [id |-> id, up |-> up]
  <2>2. link \in Link /\ link.id = id /\ id \notin Ids(links) /\ AddLinkWith(link)
    BY <2>1 DEF AddLink, Link
  <2> HIDE DEF link
  <2>3. IsList(<<link>>) /\ IsList(AfterSend(<<link>>)) /\ IsList(AddLinkTo(links, link))
    BY <2>2, OneLinkList, AfterSendList, AddLinkList DEF LInv
  <2>4. \/ links' \in {<<link>>, AfterSend(<<link>>)} /\ state' \in {"EpochMismatch", "Connected"}
        \/ /\ state \in {"EpochMismatch", "Connected"} /\ state' = state
           /\ links' = AddLinkTo(links, link)
    BY <2>2, Zenon
    DEF AddLinkWith, DisconnectedToEpochMismatch, ConnectingToEpochMismatch,
        ReconnectingToConnected, GracePeriodToConnected, Enter
  <2>5. QED
    BY <2>3, <2>4 DEF LInv, IsList
<1>3. CASE \E tag \in OptEpoch : Message(tag)
  <2>1. PICK tag \in OptEpoch : Message(tag)
    BY <1>3
  <2>2. CASE MessageConnected(tag)
    BY <2>2, AfterSendList, DetermineStateLinks DEF MessageConnected, LInv
  <2>3. CASE MessageDisconnected(tag) \/ MessageQueued(tag) \/ MessageKept(tag)
    BY <2>3, EmptyList
    DEF MessageDisconnected, MessageQueued, MessageKept, DisconnectedToConnecting, Enter, LInv, IsList
  <2>4. QED
    BY <2>1, <2>2, <2>3 DEF Message
<1>4. QED
  BY <1>1, <1>2, <1>3

LEMMA FramesLinks ==
  ASSUME LInv,
         \/ \E e \in OptEpoch, request \in BOOLEAN : LinkReset(e, request)
         \/ \E should_ack \in BOOLEAN : LinkMsgSlice(should_ack)
  PROVE  LInv'
<1>1. IsList(links) /\ IsList(AfterSend(links)) /\ IsList(AfterSend(AfterSend(links)))
  BY AfterSendList DEF LInv
<1>2. CASE \E should_ack \in BOOLEAN : LinkMsgSlice(should_ack)
  <2>1. PICK should_ack \in BOOLEAN : LinkMsgSlice(should_ack)
    BY <1>2
  <2>2. CASE should_ack
    BY <1>1, <2>1, <2>2, DetermineStateLinks DEF LinkMsgSlice
  <2>3. CASE ~should_ack
    BY <1>1, <2>1, <2>3, DetermineStateLinks DEF LinkMsgSlice
  <2>4. QED
    BY <2>2, <2>3
<1>3. ASSUME NEW e, NEW request, LinkReset(e, request) PROVE LInv'
  <2>1. CASE ResetEpochMismatch(e, request)
    <3>1. state' \in {"EpochMismatch", "Connected"}
      BY <2>1, Zenon DEF ResetEpochMismatch, EpochMismatchToConnected, Enter
    <3>2. links' \in {links, AfterSend(links), AfterSend(AfterSend(links))}
      BY <2>1, Zenon DEF ResetEpochMismatch, EpochMismatchToConnected, Enter
    <3>3. QED
      BY <1>1, <3>1, <3>2 DEF LInv, IsList
  <2>2. CASE ResetConnected(e, request)
    <3>1. CASE DetermineState(AfterSend(links), accepted, timer)
      BY <1>1, <3>1, DetermineStateLinks
    <3>2. CASE ConnectedToEpochMismatch
      BY <1>1, <3>2 DEF ConnectedToEpochMismatch, Enter, LInv, IsList
    <3>3. QED
      BY <2>2, <3>1, <3>2 DEF ResetConnected
  <2>3. CASE ResetReconnecting(e, request) \/ ResetGracePeriod(e, request)
    BY <2>3, EmptyList
    DEF ResetReconnecting, ResetGracePeriod, ReconnectingToConnecting, GracePeriodToDisconnected,
        Enter, LInv, IsList
  <2>4. QED
    BY <1>3, <2>1, <2>2, <2>3 DEF LinkReset
<1>4. QED
  BY <1>2, <1>3

LEMMA TimerLinks == ASSUME LInv, Timer PROVE LInv'
<1>1. \A ls : IsList(ls) => IsList(Upkeep(ls))
  BY RetainList DEF Upkeep, Live
<1>2. CASE \/ TimerConnecting \/ TimerReconnecting \/ TimerGracePeriod
           \/ TimerEpochMismatch /\ Live(links) = {}
  <2>1. links' = <<>>
    BY <1>2, Zenon
    DEF TimerConnecting, TimerReconnecting, TimerGracePeriod, TimerEpochMismatch,
        ConnectingToDisconnected, ReconnectingToConnecting, ReconnectingToDisconnected,
        GracePeriodToConnecting, GracePeriodToDisconnected, EpochMismatchToConnecting,
        EpochMismatchToDisconnected, Enter
  <2>2. QED
    BY <2>1, EmptyList DEF LInv, IsList
<1>3. CASE TimerEpochMismatch /\ Live(links) # {}
  <2>1. state = "EpochMismatch" /\ state' = state
    BY <1>3, Zenon DEF TimerEpochMismatch
  <2>2. PICK ls \in PingAll(Upkeep(links)) : links' = AfterSend(ls)
    BY <1>3, Zenon DEF TimerEpochMismatch
  <2>3. IsList(ls)
    BY <1>1, PingedList DEF LInv
  <2>4. QED
    BY <2>1, <2>2, <2>3, AfterSendList DEF LInv, IsList
<1>4. CASE TimerConnected
  <2>1. PICK pinged \in PingAll(links) : DetermineState(Upkeep(pinged), accepted, Elapsed(timer))
    BY <1>4, Zenon DEF TimerConnected
  <2>2. IsList(Upkeep(pinged))
    BY <1>1, PingedList DEF LInv
  <2>3. QED
    BY <2>1, <2>2, DetermineStateLinks
<1>5. QED
  BY <1>2, <1>3, <1>4 DEF Timer

LEMMA NextLinks == ASSUME LInv, [Next]_vars PROVE LInv'
<1>1. CASE \E id \in LinkIds : EvictLink(id)
  <2>1. PICK id \in LinkIds : EvictLink(id)
    BY <1>1
  <2>2. IsList(Evict(links, id))
    BY RetainList DEF Evict, LInv
  <2>3. id \in Ids(links) /\ links' = Evict(links, id) /\ state' = state
    BY <2>1 DEF EvictLink
  <2>4. links # <<>>
    BY <2>3 DEF Ids
  <2>5. QED
    BY <2>2, <2>3, <2>4 DEF LInv, IsList
<1>2. CASE \E i \in DOMAIN links : LinkChanges(i)
  <2>1. PICK i \in DOMAIN links : LinkChanges(i)
    BY <1>2
  <2>2. IsList(links')
    BY <2>1, ChangedList DEF LinkChanges, LInv
  <2>3. links # <<>> /\ state' = state
    BY <2>1 DEF LinkChanges
  <2>4. QED
    BY <2>2, <2>3 DEF LInv, IsList
<1>3. CASE \/ \E new \in Config : Configure(new)
           \/ FrameDisconnected
           \/ \E id \in LinkIds : ReaderEnds(id)
           \/ UNCHANGED vars
  BY <1>3 DEF Configure, FrameDisconnected, ReaderEnds, vars, session, LInv, IsList
<1>4. QED
  BY <1>1, <1>2, <1>3, CommandsLinks, FramesLinks, TimerLinks DEF Next

LEMMA LinkListHolds == Spec => []LInv
<1>1. Init => LInv
  BY EmptyList DEF Init, Fresh, LInv, IsList
<1>2. LInv /\ [Next]_vars => LInv'
  BY NextLinks
<1>3. QED
  BY <1>1, <1>2, PTL DEF Spec

(* The fields of the core and its list of links keep their types.          *)
THEOREM TypesHold == Spec => []TypeOK
<1>1. Inv /\ LInv => TypeOK
  BY DEF Inv, LInv, IsList, TypeOK
<1>2. QED
  BY <1>1, CoreInvariant, LinkListHolds, PTL

LEMMA KeptBySends ==
  ASSUME LInv, links' \in {links, AfterSend(links), AfterSend(AfterSend(links))}
  PROVE  LiveIds(links) \subseteq Ids(links')
<1>1. IsList(links) /\ IsList(AfterSend(links))
  BY AfterSendList DEF LInv
<1>2. /\ LiveIds(links) \subseteq LiveIds(AfterSend(links))
      /\ LiveIds(AfterSend(links)) \subseteq LiveIds(AfterSend(AfterSend(links)))
  BY <1>1, AfterSendKeeps
<1>3. \A ls : LiveIds(ls) \subseteq Ids(ls)
  BY DEF LiveIds, Ids, Live
<1>4. QED
  BY <1>2, <1>3, Zenon

LEMMA KeptOutside ==
  ASSUME LInv, state \notin {"EpochMismatch", "Connected"}
  PROVE  LiveIds(links) = {}
<1>1. links = <<>>
  BY DEF LInv
<1>2. QED
  BY <1>1 DEF LiveIds, Live

LEMMA DeterminedLinks ==
  ASSUME NEW ls, NEW tags, NEW t, DetermineState(ls, tags, t)
  PROVE  links' = ls
BY Zenon
DEF DetermineState, ConnectedToReconnecting, ConnectedToGracePeriod, ConnectedToDisconnected, Enter

LEMMA FramesKeep ==
  ASSUME LInv, NEW e, NEW request, LinkReset(e, request)
  PROVE  LiveIds(links) \subseteq Ids(links')
<1>1. CASE ResetEpochMismatch(e, request)
  <2>1. links' \in {links, AfterSend(links), AfterSend(AfterSend(links))}
    BY <1>1, Zenon DEF ResetEpochMismatch, EpochMismatchToConnected, Enter
  <2>2. QED
    BY <2>1, KeptBySends
<1>2. CASE ResetConnected(e, request)
  <2>1. links' = AfterSend(links)
    BY <1>2, DeterminedLinks, Zenon DEF ResetConnected, ConnectedToEpochMismatch, Enter
  <2>2. QED
    BY <2>1, KeptBySends
<1>3. CASE ResetReconnecting(e, request) \/ ResetGracePeriod(e, request)
  BY <1>3, KeptOutside DEF ResetReconnecting, ResetGracePeriod
<1>4. QED
  BY <1>1, <1>2, <1>3 DEF LinkReset

LEMMA CommandsKeep ==
  ASSUME LInv,
         \/ Connect
         \/ \E id \in LinkIds, up \in BOOLEAN : AddLink(id, up)
         \/ \E tag \in OptEpoch : Message(tag)
  PROVE  LiveIds(links) \subseteq Ids(links')
<1>1. CASE state \notin {"EpochMismatch", "Connected"}
  BY <1>1, KeptOutside
<1>2. CASE state \in {"EpochMismatch", "Connected"}
  <2>1. CASE \E id \in LinkIds, up \in BOOLEAN : AddLink(id, up)
    <3>1. PICK link : links' = <<link>> \o links
      BY <1>2, <2>1 DEF AddLink, AddLinkWith, AddLinkTo
    <3>2. \A i \in DOMAIN links : i + 1 \in DOMAIN links' /\ links'[i + 1] = links[i]
      BY <3>1 DEF LInv, IsList
    <3>3. QED
      BY <3>2 DEF LiveIds, Live, Ids
  <2>2. CASE \E tag \in OptEpoch : Message(tag)
    <3>1. links' \in {links, AfterSend(links)}
      BY <1>2, <2>2, DeterminedLinks
      DEF Message, MessageDisconnected, MessageQueued, MessageConnected, MessageKept
    <3>2. QED
      BY <3>1, KeptBySends
  <2>3. QED
    BY <1>2, <2>1, <2>2 DEF Connect
<1>3. QED
  BY <1>1, <1>2

LEMMA StepKeeps ==
  ASSUME LInv, [Next]_vars, NEW i \in Live(links)
  PROVE  \/ links[i].id \in Ids(links')
         \/ Disconnect \/ EvictLink(links[i].id) \/ Timer
<1>1. IsList(links) /\ i \in DOMAIN links /\ links[i].id \in LiveIds(links)
  BY DEF LInv, Live, LiveIds
<1>2. CASE \E id \in LinkIds : EvictLink(id)
  <2>1. PICK id \in LinkIds : EvictLink(id)
    BY <1>2
  <2>2. CASE links[i].id = id
    BY <2>1, <2>2
  <2>3. CASE links[i].id # id
    <3> DEFINE places == {j \in DOMAIN links : links[j].id # id}
    <3>1. places \in SUBSET DOMAIN links /\ i \in places
      BY <1>1, <2>3
    <3>2. links' = Retain(links, places)
      BY <2>1 DEF EvictLink, Evict
    <3> HIDE DEF places
    <3>3. QED
      BY <1>1, <3>1, <3>2, RetainKeeps
  <2>4. QED
    BY <2>2, <2>3
<1>3. CASE \E j \in DOMAIN links : LinkChanges(j)
  <2>1. PICK j \in DOMAIN links : links' = [links EXCEPT ![j].up = ~links[j].up]
    BY <1>3 DEF LinkChanges
  <2>2. links \in Seq(Link) /\ links[i] \in Link
    BY <1>1 DEF IsList
  <2>3. i \in DOMAIN links' /\ links'[i].id = links[i].id
    BY <1>1, <2>1, <2>2 DEF Link
  <2>4. QED
    BY <2>3 DEF Ids
<1>4. CASE \/ \E new \in Config : Configure(new)
           \/ FrameDisconnected
           \/ \E id \in LinkIds : ReaderEnds(id)
           \/ UNCHANGED vars
  <2>1. links' = links
    BY <1>4 DEF Configure, FrameDisconnected, ReaderEnds, vars, session
  <2>2. QED
    BY <1>1, <2>1, KeptBySends
<1>5. CASE \E should_ack \in BOOLEAN : LinkMsgSlice(should_ack)
  <2>1. links' \in {links, AfterSend(links)}
    BY <1>5, DeterminedLinks DEF LinkMsgSlice
  <2>2. QED
    BY <1>1, <2>1, KeptBySends
<1>6. QED
  BY <1>1, <1>2, <1>3, <1>4, <1>5, CommandsKeep, FramesKeep DEF Next

(* Whatever the core sends, receives or adds and whichever links fail, a   *)
(* link that would take a frame is not dropped by send_proto, send_slices, *)
(* add_link, evict_link of another link or the start of a new session.     *)
THEOREM UsableLinksStay == Spec => UsableLinkIsKept
<1>1. LInv /\ [Next]_vars =>
        [\A i \in Live(links) :
           \/ links[i].id \in Ids(links')
           \/ Disconnect \/ EvictLink(links[i].id) \/ Timer]_vars
  BY StepKeeps
<1>2. QED
  BY <1>1, LinkListHolds, PTL DEF Spec, UsableLinkIsKept
=============================================================================
