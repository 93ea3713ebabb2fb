------------------------- MODULE LinkSetPair_proofs -------------------------
(***************************************************************************)
(* Two sides never stand in different sessions, for every number of links, *)
(* faults, restarts and epochs, as long as no Reset outlives the LinkSet   *)
(* that has sent it.                                                       *)
(*                                                                         *)
(* A session is entered with an epoch the peer has named, or with epoch 1  *)
(* when neither had one.  Between restarts epochs only rise, and a frame   *)
(* on its way carries at most the epoch its sender has by now.  So while a *)
(* side is in a session its peer's epoch is at least as high, unless the   *)
(* peer has none yet; two sides that are both in a session are each at     *)
(* least as high as the other.                                             *)
(*                                                                         *)
(* A restart is the one step that lowers an epoch.  It leaves the peer in  *)
(* a session alone, with a side that is in none and with nothing on its    *)
(* way to it but frames of that session, which lead it back there.         *)
(***************************************************************************)
EXTENDS LinkSetPair, SequenceTheorems, TLAPS

-----------------------------------------------------------------------------
(* Steps of core A. *)

(* The epoch never falls, and no Reset that is sent carries a later one;   *)
(* in a session it carries that of the session.                            *)
RisesA ==
  /\ a_epoch' \in a_epoch..MaxEpoch
  /\ out' \subseteq [epoch : 0..a_epoch', request : BOOLEAN]
  /\ a_state' \in A!InSession => out' \subseteq [epoch : {a_epoch'}, request : BOOLEAN]

StaysA == a_state' \in A!InSession => a_state \in A!InSession /\ a_epoch' = a_epoch

(* A session that begins with a Reset has the epoch it names. *)
JoinsA(e) ==
  a_state' \in A!InSession =>
    \/ a_state \in A!InSession /\ a_epoch' = a_epoch
    \/ a_epoch' # 0 /\ (a_epoch' = e \/ (e = 0 /\ a_epoch' = 1))

LEMMA ResetOfA ==
  ASSUME NEW ls, NEW e, NEW request \in BOOLEAN
  PROVE  A!ResetSent(ls, e, request) \subseteq [epoch : {e}, request : BOOLEAN]
  BY DEF A!ResetSent, A!Reset

LEMMA RisesIfA ==
  ASSUME NEW e \in Nat, a_epoch \in 0..MaxEpoch, a_epoch' \in a_epoch..MaxEpoch, e <= a_epoch',
         out' \subseteq [epoch : {e}, request : BOOLEAN],
         a_state' \in A!InSession => a_epoch' = e
  PROVE  RisesA
  BY PairAssumption DEF RisesA

LEMMA EpochRisesA ==
  ASSUME a_epoch \in 0..MaxEpoch,
         a_epoch' \in {a_epoch, A!Increment(a_epoch), A!OptIncrement(a_epoch)}
  PROVE  a_epoch' \in a_epoch..MaxEpoch
  BY PairAssumption DEF A!Increment, A!OptIncrement, A!None

LEMMA DetermineA ==
  ASSUME NEW ls, NEW tags, NEW t, a_epoch \in 0..MaxEpoch, a_state = "Connected",
         A!DetermineState(ls, tags, t)
  PROVE  a_epoch' \in a_epoch..MaxEpoch /\ StaysA
  BY PairAssumption
  DEF A!DetermineState, A!ConnectedToReconnecting, A!ConnectedToGracePeriod,
      A!ConnectedToDisconnected, A!Enter, A!Increment, StaysA, A!InSession

LEMMA TimerStepA == ASSUME a_epoch \in 0..MaxEpoch, A!Timer PROVE RisesA /\ StaysA
<1>1. CASE A!TimerConnecting
  BY <1>1 DEF A!TimerConnecting, A!ConnectingToDisconnected, A!Enter, RisesA, StaysA, A!InSession
<1>2. CASE A!TimerEpochMismatch
  <2>1. a_epoch' \in {a_epoch, A!OptIncrement(a_epoch)} /\ StaysA
    BY <1>2
    DEF A!TimerEpochMismatch, A!EpochMismatchToConnecting, A!EpochMismatchToDisconnected,
        A!Enter, StaysA, A!InSession
  <2>2. out' = {} \/ (a_epoch' = a_epoch /\ \E ls : out' = A!ResetSent(ls, a_epoch, TRUE))
    BY <1>2, Zenon DEF A!TimerEpochMismatch
  <2>3. a_epoch' \in a_epoch..MaxEpoch
    BY <2>1, EpochRisesA
  <2>4. CASE out' = {}
    BY <2>1, <2>3, <2>4 DEF RisesA
  <2>5. CASE out' # {}
    <3>1. a_epoch' = a_epoch /\ out' \subseteq [epoch : {a_epoch}, request : BOOLEAN]
      BY <2>2, <2>5, ResetOfA
    <3>2. QED
      BY <2>1, <2>3, <3>1, RisesIfA, PairAssumption
  <2>6. QED
    BY <2>4, <2>5
<1>3. CASE A!TimerConnected
  <2>1. PICK ls : A!DetermineState(ls, a_accepted, A!Elapsed(a_timer))
    BY <1>3, Zenon DEF A!TimerConnected
  <2>2. QED
    BY <1>3, <2>1, DetermineA DEF A!TimerConnected, RisesA
<1>4. CASE A!TimerReconnecting
  BY <1>4, PairAssumption
  DEF A!TimerReconnecting, A!ReconnectingToConnecting, A!ReconnectingToDisconnected,
      A!Increment, A!Enter, RisesA, StaysA, A!InSession
<1>5. CASE A!TimerGracePeriod
  BY <1>5, PairAssumption
  DEF A!TimerGracePeriod, A!GracePeriodToConnecting, A!GracePeriodToDisconnected,
      A!Increment, A!Enter, RisesA, StaysA, A!InSession
<1>6. QED
  BY <1>1, <1>2, <1>3, <1>4, <1>5 DEF A!Timer

LEMMA DisconnectStepA == ASSUME a_epoch \in 0..MaxEpoch, A!Disconnect PROVE RisesA /\ StaysA
  BY PairAssumption
  DEF A!Disconnect, A!ConnectingToDisconnected, A!EpochMismatchToDisconnected,
      A!ConnectedToDisconnected, A!ReconnectingToDisconnected, A!GracePeriodToDisconnected,
      A!Enter, A!Increment, A!OptIncrement, A!None, RisesA, StaysA, A!InSession

LEMMA AddLinkStepA ==
  ASSUME a_epoch \in 0..MaxEpoch, NEW id, NEW up, A!AddLink(id, up)
  PROVE  RisesA /\ StaysA
<1> DEFINE link == [id |-> id, up |-> up]
<1>1. A!AddLinkWith(link)
  BY DEF A!AddLink
<1> HIDE DEF link
<1>2. a_epoch' = a_epoch /\ StaysA
  BY <1>1
  DEF A!AddLinkWith, A!DisconnectedToEpochMismatch, A!ConnectingToEpochMismatch,
      A!ReconnectingToConnected, A!GracePeriodToConnected, A!Enter, StaysA, A!InSession
<1>3. out' = {} \/ out' = A!ResetSent(<<link>>, a_epoch, TRUE)
  BY <1>1 DEF A!AddLinkWith, A!DisconnectedToEpochMismatch, A!ConnectingToEpochMismatch
<1>4. A!ResetSent(<<link>>, a_epoch, TRUE) \subseteq [epoch : {a_epoch}, request : BOOLEAN]
  BY ResetOfA
<1>5. out' \subseteq [epoch : {a_epoch}, request : BOOLEAN]
  BY <1>3, <1>4
<1>6. QED
  BY <1>2, <1>5, RisesIfA, PairAssumption

LEMMA QuietStepA ==
  ASSUME a_epoch \in 0..MaxEpoch,
         \/ A!Connect \/ A!FrameDisconnected
         \/ \E i : A!LinkChanges(i)
         \/ \E id : A!ReaderEnds(id)
  PROVE  RisesA /\ StaysA
<1>1. out' = {} /\ a_epoch' = a_epoch
  BY DEF A!Connect, A!DisconnectedToConnecting, A!Enter, A!FrameDisconnected, A!LinkChanges,
         A!ReaderEnds, A!session
<1>2. a_state' \in {a_state, "Connecting"}
  BY DEF A!Connect, A!DisconnectedToConnecting, A!Enter, A!FrameDisconnected, A!LinkChanges,
         A!ReaderEnds, A!session
<1>3. QED
  BY <1>1, <1>2 DEF RisesA, StaysA, A!InSession

LEMMA ResetStepA ==
  ASSUME a_epoch \in 0..MaxEpoch, NEW e \in 0..MaxEpoch, NEW request \in BOOLEAN,
         A!LinkReset(e, request)
  PROVE  RisesA /\ JoinsA(e)
<1>1. CASE A!ResetEpochMismatch(e, request)
  <2>1. \/ a_state' = a_state /\ a_epoch' = a_epoch
        \/ A!Compare(a_epoch, e) = "Equal" /\ a_epoch' = a_epoch
        \/ A!Compare(a_epoch, e) = "Less" /\ a_epoch' = (IF e = A!None THEN A!ONE ELSE e)
    BY <1>1 DEF A!ResetEpochMismatch, A!EpochMismatchToConnected, A!Enter
  <2>2. a_epoch' \in a_epoch..MaxEpoch
    BY <2>1, PairAssumption DEF A!Compare, A!None, A!ONE
  <2>3. a_state' # a_state => a_epoch' # 0 /\ (a_epoch' = e \/ (e = 0 /\ a_epoch' = 1))
    BY <2>1, PairAssumption DEF A!Compare, A!None, A!ONE
  <2>4. JoinsA(e)
    <3>1. a_state = "EpochMismatch"
      BY <1>1 DEF A!ResetEpochMismatch
    <3>2. QED
      BY <3>1, <2>3 DEF JoinsA, A!InSession
  <2>5. out' = {} \/ \E ls : out' = A!ResetSent(ls, a_epoch', FALSE)
    BY <1>1 DEF A!ResetEpochMismatch, A!EpochMismatchToConnected, A!Enter
  <2>6. out' \subseteq [epoch : {a_epoch'}, request : BOOLEAN]
    BY <2>5, ResetOfA, ZenonT(30)
  <2>7. QED
    BY <2>2, <2>4, <2>6, RisesIfA, PairAssumption
<1>2. CASE A!ResetConnected(e, request) /\ e = a_epoch
  <2>1. a_state = "Connected" /\ out' = A!ResetSent(a_links, a_epoch, FALSE)
    BY <1>2 DEF A!ResetConnected
  <2>2. A!DetermineState(A!AfterSend(a_links), a_accepted, a_timer)
    BY <1>2 DEF A!ResetConnected
  <2>3. a_epoch' \in a_epoch..MaxEpoch /\ StaysA
    BY <2>1, <2>2, DetermineA
  <2>4. out' \subseteq [epoch : {a_epoch}, request : BOOLEAN]
    BY <2>1, ResetOfA
  <2>5. RisesA
    BY <2>3, <2>4, RisesIfA, PairAssumption DEF StaysA
  <2>6. QED
    BY <2>3, <2>5 DEF StaysA, JoinsA
<1>3. CASE A!ResetConnected(e, request) /\ e # a_epoch
  <2>1. A!ConnectedToEpochMismatch
    BY <1>3 DEF A!ResetConnected
  <2>2. /\ a_epoch' = A!Increment(a_epoch) /\ a_state' = "EpochMismatch"
        /\ out' = A!ResetSent(a_links, a_epoch', TRUE)
    BY <2>1 DEF A!ConnectedToEpochMismatch, A!Enter
  <2>3. QED
    <3>1. a_epoch' \in a_epoch..MaxEpoch
      BY <2>2, EpochRisesA
    <3>2. out' \subseteq [epoch : {a_epoch'}, request : BOOLEAN]
      BY <2>2, ResetOfA
    <3>3. RisesA
      BY <3>1, <3>2, RisesIfA, PairAssumption
    <3>4. QED
      BY <2>2, <3>3 DEF JoinsA, A!InSession
<1>4. CASE A!ResetReconnecting(e, request) \/ A!ResetGracePeriod(e, request)
  BY <1>4, PairAssumption
  DEF A!ResetReconnecting, A!ResetGracePeriod, A!ReconnectingToConnecting,
      A!GracePeriodToDisconnected, A!Enter, A!Increment, RisesA, JoinsA, A!InSession
<1>5. QED
  BY <1>1, <1>2, <1>3, <1>4 DEF A!LinkReset

-----------------------------------------------------------------------------
(* Steps of core B. *)

(* The epoch never falls, and no Reset that is sent carries a later one;   *)
(* in a session it carries that of the session.                            *)
RisesB ==
  /\ b_epoch' \in b_epoch..MaxEpoch
  /\ out' \subseteq [epoch : 0..b_epoch', request : BOOLEAN]
  /\ b_state' \in B!InSession => out' \subseteq [epoch : {b_epoch'}, request : BOOLEAN]

StaysB == b_state' \in B!InSession => b_state \in B!InSession /\ b_epoch' = b_epoch

(* A session that begins with a Reset has the epoch it names. *)
JoinsB(e) ==
  b_state' \in B!InSession =>
    \/ b_state \in B!InSession /\ b_epoch' = b_epoch
    \/ b_epoch' # 0 /\ (b_epoch' = e \/ (e = 0 /\ b_epoch' = 1))

LEMMA ResetOfB ==
  ASSUME NEW ls, NEW e, NEW request \in BOOLEAN
  PROVE  B!ResetSent(ls, e, request) \subseteq [epoch : {e}, request : BOOLEAN]
  BY DEF B!ResetSent, B!Reset

LEMMA RisesIfB ==
  ASSUME NEW e \in Nat, b_epoch \in 0..MaxEpoch, b_epoch' \in b_epoch..MaxEpoch, e <= b_epoch',
         out' \subseteq [epoch : {e}, request : BOOLEAN],
         b_state' \in B!InSession => b_epoch' = e
  PROVE  RisesB
  BY PairAssumption DEF RisesB

LEMMA EpochRisesB ==
  ASSUME b_epoch \in 0..MaxEpoch,
         b_epoch' \in {b_epoch, B!Increment(b_epoch), B!OptIncrement(b_epoch)}
  PROVE  b_epoch' \in b_epoch..MaxEpoch
  BY PairAssumption DEF B!Increment, B!OptIncrement, B!None

LEMMA DetermineB ==
  ASSUME NEW ls, NEW tags, NEW t, b_epoch \in 0..MaxEpoch, b_state = "Connected",
         B!DetermineState(ls, tags, t)
  PROVE  b_epoch' \in b_epoch..MaxEpoch /\ StaysB
  BY PairAssumption
  DEF B!DetermineState, B!ConnectedToReconnecting, B!ConnectedToGracePeriod,
      B!ConnectedToDisconnected, B!Enter, B!Increment, StaysB, B!InSession

LEMMA TimerStepB == ASSUME b_epoch \in 0..MaxEpoch, B!Timer PROVE RisesB /\ StaysB
<1>1. CASE B!TimerConnecting
  BY <1>1 DEF B!TimerConnecting, B!ConnectingToDisconnected, B!Enter, RisesB, StaysB, B!InSession
<1>2. CASE B!TimerEpochMismatch
  <2>1. b_epoch' \in {b_epoch, B!OptIncrement(b_epoch)} /\ StaysB
    BY <1>2
    DEF B!TimerEpochMismatch, B!EpochMismatchToConnecting, B!EpochMismatchToDisconnected,
        B!Enter, StaysB, B!InSession
  <2>2. out' = {} \/ (b_epoch' = b_epoch /\ \E ls : out' = B!ResetSent(ls, b_epoch, TRUE))
    BY <1>2, Zenon DEF B!TimerEpochMismatch
  <2>3. b_epoch' \in b_epoch..MaxEpoch
    BY <2>1, EpochRisesB
  <2>4. CASE out' = {}
    BY <2>1, <2>3, <2>4 DEF RisesB
  <2>5. CASE out' # {}
    <3>1. b_epoch' = b_epoch /\ out' \subseteq [epoch : {b_epoch}, request : BOOLEAN]
      BY <2>2, <2>5, ResetOfB
    <3>2. QED
      BY <2>1, <2>3, <3>1, RisesIfB, PairAssumption
  <2>6. QED
    BY <2>4, <2>5
<1>3. CASE B!TimerConnected
  <2>1. PICK ls : B!DetermineState(ls, b_accepted, B!Elapsed(b_timer))
    BY <1>3, Zenon DEF B!TimerConnected
  <2>2. QED
    BY <1>3, <2>1, DetermineB DEF B!TimerConnected, RisesB
<1>4. CASE B!TimerReconnecting
  BY <1>4, PairAssumption
  DEF B!TimerReconnecting, B!ReconnectingToConnecting, B!ReconnectingToDisconnected,
      B!Increment, B!Enter, RisesB, StaysB, B!InSession
<1>5. CASE B!TimerGracePeriod
  BY <1>5, PairAssumption
  DEF B!TimerGracePeriod, B!GracePeriodToConnecting, B!GracePeriodToDisconnected,
      B!Increment, B!Enter, RisesB, StaysB, B!InSession
<1>6. QED
  BY <1>1, <1>2, <1>3, <1>4, <1>5 DEF B!Timer

LEMMA DisconnectStepB == ASSUME b_epoch \in 0..MaxEpoch, B!Disconnect PROVE RisesB /\ StaysB
  BY PairAssumption
  DEF B!Disconnect, B!ConnectingToDisconnected, B!EpochMismatchToDisconnected,
      B!ConnectedToDisconnected, B!ReconnectingToDisconnected, B!GracePeriodToDisconnected,
      B!Enter, B!Increment, B!OptIncrement, B!None, RisesB, StaysB, B!InSession

LEMMA AddLinkStepB ==
  ASSUME b_epoch \in 0..MaxEpoch, NEW id, NEW up, B!AddLink(id, up)
  PROVE  RisesB /\ StaysB
<1> DEFINE link == [id |-> id, up |-> up]
<1>1. B!AddLinkWith(link)
  BY DEF B!AddLink
<1> HIDE DEF link
<1>2. b_epoch' = b_epoch /\ StaysB
  BY <1>1
  DEF B!AddLinkWith, B!DisconnectedToEpochMismatch, B!ConnectingToEpochMismatch,
      B!ReconnectingToConnected, B!GracePeriodToConnected, B!Enter, StaysB, B!InSession
<1>3. out' = {} \/ out' = B!ResetSent(<<link>>, b_epoch, TRUE)
  BY <1>1 DEF B!AddLinkWith, B!DisconnectedToEpochMismatch, B!ConnectingToEpochMismatch
<1>4. B!ResetSent(<<link>>, b_epoch, TRUE) \subseteq [epoch : {b_epoch}, request : BOOLEAN]
  BY ResetOfB
<1>5. out' \subseteq [epoch : {b_epoch}, request : BOOLEAN]
  BY <1>3, <1>4
<1>6. QED
  BY <1>2, <1>5, RisesIfB, PairAssumption

LEMMA QuietStepB ==
  ASSUME b_epoch \in 0..MaxEpoch,
         \/ B!Connect \/ B!FrameDisconnected
         \/ \E i : B!LinkChanges(i)
         \/ \E id : B!ReaderEnds(id)
  PROVE  RisesB /\ StaysB
<1>1. out' = {} /\ b_epoch' = b_epoch
  BY DEF B!Connect, B!DisconnectedToConnecting, B!Enter, B!FrameDisconnected, B!LinkChanges,
         B!ReaderEnds, B!session
<1>2. b_state' \in {b_state, "Connecting"}
  BY DEF B!Connect, B!DisconnectedToConnecting, B!Enter, B!FrameDisconnected, B!LinkChanges,
         B!ReaderEnds, B!session
<1>3. QED
  BY <1>1, <1>2 DEF RisesB, StaysB, B!InSession

LEMMA ResetStepB ==
  ASSUME b_epoch \in 0..MaxEpoch, NEW e \in 0..MaxEpoch, NEW request \in BOOLEAN,
         B!LinkReset(e, request)
  PROVE  RisesB /\ JoinsB(e)
<1>1. CASE B!ResetEpochMismatch(e, request)
  <2>1. \/ b_state' = b_state /\ b_epoch' = b_epoch
        \/ B!Compare(b_epoch, e) = "Equal" /\ b_epoch' = b_epoch
        \/ B!Compare(b_epoch, e) = "Less" /\ b_epoch' = (IF e = B!None THEN B!ONE ELSE e)
    BY <1>1 DEF B!ResetEpochMismatch, B!EpochMismatchToConnected, B!Enter
  <2>2. b_epoch' \in b_epoch..MaxEpoch
    BY <2>1, PairAssumption DEF B!Compare, B!None, B!ONE
  <2>3. b_state' # b_state => b_epoch' # 0 /\ (b_epoch' = e \/ (e = 0 /\ b_epoch' = 1))
    BY <2>1, PairAssumption DEF B!Compare, B!None, B!ONE
  <2>4. JoinsB(e)
    <3>1. b_state = "EpochMismatch"
      BY <1>1 DEF B!ResetEpochMismatch
    <3>2. QED
      BY <3>1, <2>3 DEF JoinsB, B!InSession
  <2>5. out' = {} \/ \E ls : out' = B!ResetSent(ls, b_epoch', FALSE)
    BY <1>1 DEF B!ResetEpochMismatch, B!EpochMismatchToConnected, B!Enter
  <2>6. out' \subseteq [epoch : {b_epoch'}, request : BOOLEAN]
    BY <2>5, ResetOfB, ZenonT(30)
  <2>7. QED
    BY <2>2, <2>4, <2>6, RisesIfB, PairAssumption
<1>2. CASE B!ResetConnected(e, request) /\ e = b_epoch
  <2>1. b_state = "Connected" /\ out' = B!ResetSent(b_links, b_epoch, FALSE)
    BY <1>2 DEF B!ResetConnected
  <2>2. B!DetermineState(B!AfterSend(b_links), b_accepted, b_timer)
    BY <1>2 DEF B!ResetConnected
  <2>3. b_epoch' \in b_epoch..MaxEpoch /\ StaysB
    BY <2>1, <2>2, DetermineB
  <2>4. out' \subseteq [epoch : {b_epoch}, request : BOOLEAN]
    BY <2>1, ResetOfB
  <2>5. RisesB
    BY <2>3, <2>4, RisesIfB, PairAssumption DEF StaysB
  <2>6. QED
    BY <2>3, <2>5 DEF StaysB, JoinsB
<1>3. CASE B!ResetConnected(e, request) /\ e # b_epoch
  <2>1. B!ConnectedToEpochMismatch
    BY <1>3 DEF B!ResetConnected
  <2>2. /\ b_epoch' = B!Increment(b_epoch) /\ b_state' = "EpochMismatch"
        /\ out' = B!ResetSent(b_links, b_epoch', TRUE)
    BY <2>1 DEF B!ConnectedToEpochMismatch, B!Enter
  <2>3. QED
    <3>1. b_epoch' \in b_epoch..MaxEpoch
      BY <2>2, EpochRisesB
    <3>2. out' \subseteq [epoch : {b_epoch'}, request : BOOLEAN]
      BY <2>2, ResetOfB
    <3>3. RisesB
      BY <3>1, <3>2, RisesIfB, PairAssumption
    <3>4. QED
      BY <2>2, <3>3 DEF JoinsB, B!InSession
<1>4. CASE B!ResetReconnecting(e, request) \/ B!ResetGracePeriod(e, request)
  BY <1>4, PairAssumption
  DEF B!ResetReconnecting, B!ResetGracePeriod, B!ReconnectingToConnecting,
      B!GracePeriodToDisconnected, B!Enter, B!Increment, RisesB, JoinsB, B!InSession
<1>5. QED
  BY <1>1, <1>2, <1>3, <1>4 DEF B!LinkReset

-----------------------------------------------------------------------------
(* The two sides together. *)

Frame(epochs) == [link : LinkIds, epoch : epochs, request : BOOLEAN]

(* A side in a session has an epoch that its peer has reached, unless the  *)
(* peer has none.                                                          *)
Reached(epoch, peer) == epoch # 0 /\ (epoch <= peer \/ (epoch = 1 /\ peer = 0))

(* Or the peer has fallen out of the session, and hears of nothing else.   *)
FallenA == b_epoch # 0 /\ a_state \notin A!InSession /\ toA \in Seq(Frame({b_epoch}))
FallenB == a_epoch # 0 /\ b_state \notin B!InSession /\ toB \in Seq(Frame({a_epoch}))

(* What holds until a Reset outlives its sender. *)
Sound ==
  /\ a_epoch \in 0..MaxEpoch /\ b_epoch \in 0..MaxEpoch
  /\ toB \in Seq(Frame(0..a_epoch)) /\ toA \in Seq(Frame(0..b_epoch))
  /\ a_state \in A!InSession => Reached(a_epoch, b_epoch) \/ FallenB
  /\ b_state \in B!InSession => Reached(b_epoch, a_epoch) \/ FallenA

Inv == stale \/ Sound

LEMMA FrameGrows ==
  ASSUME NEW S, NEW T, S \subseteq T, NEW frames \in Seq(Frame(S))
  PROVE  frames \in Seq(Frame(T))
<1>1. Frame(S) \subseteq Frame(T)
  BY DEF Frame
<1>2. QED
  BY <1>1

LEMMA RemoveFrame ==
  ASSUME NEW S, NEW frames \in Seq(S), NEW i \in DOMAIN frames
  PROVE  Without(frames, i) \in Seq(S) /\ frames[i] \in S
<1>1. i \in 1..Len(frames)
  OBVIOUS
<1>2. SubSeq(frames, 1, i - 1) \in Seq(S) /\ SubSeq(frames, i + 1, Len(frames)) \in Seq(S)
  BY <1>1, SubSeqProperties
<1>3. QED
  BY <1>1, <1>2, ConcatProperties DEF Without

LEMMA SentFrame ==
  ASSUME NEW links, NEW S, out' \subseteq [epoch : S, request : BOOLEAN]
  PROVE  Sent(links) \in Seq(Frame(S))
<1>1. CASE Sent(links) = <<>>
  BY <1>1
<1>2. CASE Sent(links) # <<>>
  <2> DEFINE f == CHOOSE f \in out' : TRUE
  <2>1. /\ out' # {} /\ links[1].id \in LinkIds
        /\ Sent(links) = <<[link |-> links[1].id, epoch |-> f.epoch, request |-> f.request]>>
    BY <1>2 DEF Sent
  <2>2. f \in out'
    BY <2>1
  <2> HIDE DEF f
  <2>3. [link |-> links[1].id, epoch |-> f.epoch, request |-> f.request] \in Frame(S)
    BY <2>1, <2>2 DEF Frame
  <2>4. QED
    BY <2>1, <2>3
<1>3. QED
  BY <1>1, <1>2

(* A step of core A that was caused by a frame with epoch e, or by none. *)
LEMMA AfterStepA ==
  ASSUME Sound, RisesA, UNCHANGED b_vars, toB' = toB \o Sent(a_links'),
         toA' \in Seq(Frame(0..b_epoch)),
         NEW e \in 0..b_epoch, JoinsA(e),
         toA \in Seq(Frame({b_epoch})) => toA' \in Seq(Frame({b_epoch})) /\ e = b_epoch
  PROVE  Sound'
<1>1. /\ a_epoch \in Nat /\ a_epoch' \in 0..MaxEpoch /\ a_epoch <= a_epoch' /\ a_epoch' \in Nat
      /\ b_epoch \in 0..MaxEpoch /\ b_epoch \in Nat
  BY PairAssumption DEF Sound, RisesA
<1>2. b_epoch' = b_epoch /\ b_state' = b_state
  BY DEF b_vars
<1>3. toB' \in Seq(Frame(0..a_epoch'))
  <2>1. 0..a_epoch \subseteq 0..a_epoch' /\ toB \in Seq(Frame(0..a_epoch))
    BY <1>1 DEF Sound
  <2>2. Sent(a_links') \in Seq(Frame(0..a_epoch'))
    BY <1>1, SentFrame DEF RisesA
  <2>3. QED
    BY <2>1, <2>2, FrameGrows, ConcatProperties
<1>4. ASSUME a_state' \in A!InSession PROVE Reached(a_epoch', b_epoch') \/ FallenB'
  <2>1. CASE a_state \in A!InSession /\ a_epoch' = a_epoch /\ Reached(a_epoch, b_epoch)
    BY <1>2, <2>1
  <2>2. CASE a_state \in A!InSession /\ a_epoch' = a_epoch /\ FallenB
    <3>1. Sent(a_links') \in Seq(Frame({a_epoch}))
      BY <1>4, <2>2, SentFrame DEF RisesA
    <3>2. toB' \in Seq(Frame({a_epoch}))
      BY <2>2, <3>1, ConcatProperties DEF FallenB
    <3>3. QED
      BY <1>2, <2>2, <3>2 DEF FallenB
  <2>3. CASE a_epoch' # 0 /\ (a_epoch' = e \/ (e = 0 /\ a_epoch' = 1))
    BY <1>1, <1>2, <2>3 DEF Reached
  <2>4. QED
    BY <1>4, <2>1, <2>2, <2>3 DEF JoinsA, Sound
<1>5. ASSUME b_state' \in B!InSession PROVE Reached(b_epoch', a_epoch') \/ FallenA'
  <2>1. CASE Reached(b_epoch, a_epoch)
    BY <1>1, <1>2, <2>1 DEF Reached
  <2>2. CASE FallenA /\ a_state' \notin A!InSession
    BY <1>2, <2>2 DEF FallenA
  <2>3. CASE FallenA /\ a_state' \in A!InSession
    <3>1. b_epoch # 0 /\ e = b_epoch /\ a_epoch' = e
      BY <2>3 DEF FallenA, JoinsA
    <3>2. QED
      BY <1>1, <1>2, <3>1 DEF Reached
  <2>4. QED
    BY <1>2, <1>5, <2>1, <2>2, <2>3 DEF Sound
<1>6. toA' \in Seq(Frame(0..b_epoch'))
  BY <1>2
<1>7. QED
  BY <1>1, <1>2, <1>3, <1>4, <1>5, <1>6 DEF Sound

LEMMA QuietInvA ==
  ASSUME Sound, RisesA, StaysA, UNCHANGED <<b_vars, toA>>, toB' = toB \o Sent(a_links')
  PROVE  Sound'
<1>1. JoinsA(b_epoch) /\ b_epoch \in 0..b_epoch /\ toA' = toA /\ toA \in Seq(Frame(0..b_epoch))
  BY PairAssumption DEF Sound, StaysA, JoinsA
<1>2. QED
  BY <1>1, AfterStepA

LEMMA SideA ==
  ASSUME Sound,
         \/ UserA \/ NoticeA \/ TickA
         \/ \E id \in LinkIds : GotA(id) \/ PingA(id)
  PROVE  Sound'
<1>1. a_epoch \in 0..MaxEpoch
  BY DEF Sound
<1>2. UNCHANGED <<b_vars, toA>> /\ toB' = toB \o Sent(a_links')
  BY Zenon DEF UserA, NoticeA, TickA, GotA, PingA, StepA
<1>3. \/ A!Connect \/ A!FrameDisconnected \/ A!Disconnect \/ A!Timer
      \/ \E i : A!LinkChanges(i)
      \/ \E id : A!ReaderEnds(id)
      \/ \E id, up : A!AddLink(id, up)
  BY Zenon DEF UserA, NoticeA, TickA, GotA, PingA, StepA
<1>4. RisesA /\ StaysA
  BY <1>1, <1>3, QuietStepA, DisconnectStepA, TimerStepA, AddLinkStepA
<1>5. QED
  BY <1>2, <1>4, QuietInvA

LEMMA ReceiveInvA == ASSUME Sound, NEW i \in DOMAIN toA, ReceiveA(i) PROVE Sound'
<1> DEFINE f == toA[i]
<1>1. f \in Frame(0..b_epoch) /\ toA' \in Seq(Frame(0..b_epoch))
  BY RemoveFrame DEF Sound, ReceiveA
<1>2. /\ a_epoch \in 0..MaxEpoch /\ f.epoch \in 0..b_epoch
      /\ f.epoch \in 0..MaxEpoch /\ f.request \in BOOLEAN
  BY <1>1, PairAssumption DEF Sound, Frame
<1>3. ASSUME toA \in Seq(Frame({b_epoch}))
      PROVE  toA' \in Seq(Frame({b_epoch})) /\ f.epoch = b_epoch
  <2>1. f \in Frame({b_epoch}) /\ toA' \in Seq(Frame({b_epoch}))
    BY <1>3, RemoveFrame DEF ReceiveA
  <2>2. QED
    BY <2>1 DEF Frame
<1>4. CASE StepA(A!LinkReset(f.epoch, f.request))
  <2>1. RisesA /\ JoinsA(f.epoch)
    BY <1>2, <1>4, ResetStepA DEF StepA
  <2>2. QED
    BY <1>1, <1>2, <1>3, <1>4, <2>1, AfterStepA DEF StepA
<1>5. CASE StepA(A!FrameDisconnected)
  <2>1. RisesA /\ JoinsA(f.epoch)
    BY <1>2, <1>5, QuietStepA DEF StepA, StaysA, JoinsA
  <2>2. QED
    BY <1>1, <1>2, <1>3, <1>5, <2>1, AfterStepA DEF StepA
<1>6. CASE UNCHANGED <<cores, toB>>
  <2>1. UNCHANGED <<a_epoch, a_state, b_epoch, b_state, toB>>
    BY <1>6 DEF cores, a_vars, b_vars
  <2>2. FallenA => FallenA'
    BY <1>3, <2>1 DEF FallenA
  <2>3. FallenB => FallenB'
    BY <2>1 DEF FallenB
  <2>4. QED
    BY <1>1, <2>1, <2>2, <2>3 DEF Sound
<1>7. QED
  BY <1>4, <1>5, <1>6 DEF ReceiveA

(* Side A is restarted with no frame of it on its way. *)
LEMMA CrashInvA == ASSUME Sound, CrashA, toB = <<>> PROVE Sound'
<1>1. /\ a_state' = "Disconnected" /\ a_epoch' = 0 /\ out' = {}
      /\ UNCHANGED b_vars /\ toB' = toB \o Sent(a_links') /\ toA' = <<>>
  BY DEF CrashA, StepA, A!Restart, A!Enter, A!None
<1>2. toB' = <<>>
  BY <1>1 DEF Sent
<1>3. b_epoch' = b_epoch /\ b_state' = b_state
  BY <1>1 DEF b_vars
<1>4. b_state \in B!InSession => b_epoch # 0
  BY DEF Sound, Reached, FallenA
<1>5. a_state' \notin A!InSession
  BY <1>1 DEF A!InSession
<1>6. b_state' \in B!InSession => FallenA'
  BY <1>1, <1>3, <1>4, <1>5 DEF FallenA
<1>7. QED
  BY <1>1, <1>2, <1>3, <1>5, <1>6, PairAssumption DEF Sound

(* A step of core B that was caused by a frame with epoch e, or by none. *)
LEMMA AfterStepB ==
  ASSUME Sound, RisesB, UNCHANGED a_vars, toA' = toA \o Sent(b_links'),
         toB' \in Seq(Frame(0..a_epoch)),
         NEW e \in 0..a_epoch, JoinsB(e),
         toB \in Seq(Frame({a_epoch})) => toB' \in Seq(Frame({a_epoch})) /\ e = a_epoch
  PROVE  Sound'
<1>1. /\ b_epoch \in Nat /\ b_epoch' \in 0..MaxEpoch /\ b_epoch <= b_epoch' /\ b_epoch' \in Nat
      /\ a_epoch \in 0..MaxEpoch /\ a_epoch \in Nat
  BY PairAssumption DEF Sound, RisesB
<1>2. a_epoch' = a_epoch /\ a_state' = a_state
  BY DEF a_vars
<1>3. toA' \in Seq(Frame(0..b_epoch'))
  <2>1. 0..b_epoch \subseteq 0..b_epoch' /\ toA \in Seq(Frame(0..b_epoch))
    BY <1>1 DEF Sound
  <2>2. Sent(b_links') \in Seq(Frame(0..b_epoch'))
    BY <1>1, SentFrame DEF RisesB
  <2>3. QED
    BY <2>1, <2>2, FrameGrows, ConcatProperties
<1>4. ASSUME b_state' \in B!InSession PROVE Reached(b_epoch', a_epoch') \/ FallenA'
  <2>1. CASE b_state \in B!InSession /\ b_epoch' = b_epoch /\ Reached(b_epoch, a_epoch)
    BY <1>2, <2>1
  <2>2. CASE b_state \in B!InSession /\ b_epoch' = b_epoch /\ FallenA
    <3>1. Sent(b_links') \in Seq(Frame({b_epoch}))
      BY <1>4, <2>2, SentFrame DEF RisesB
    <3>2. toA' \in Seq(Frame({b_epoch}))
      BY <2>2, <3>1, ConcatProperties DEF FallenA
    <3>3. QED
      BY <1>2, <2>2, <3>2 DEF FallenA
  <2>3. CASE b_epoch' # 0 /\ (b_epoch' = e \/ (e = 0 /\ b_epoch' = 1))
    BY <1>1, <1>2, <2>3 DEF Reached
  <2>4. QED
    BY <1>4, <2>1, <2>2, <2>3 DEF JoinsB, Sound
<1>5. ASSUME a_state' \in A!InSession PROVE Reached(a_epoch', b_epoch') \/ FallenB'
  <2>1. CASE Reached(a_epoch, b_epoch)
    BY <1>1, <1>2, <2>1 DEF Reached
  <2>2. CASE FallenB /\ b_state' \notin B!InSession
    BY <1>2, <2>2 DEF FallenB
  <2>3. CASE FallenB /\ b_state' \in B!InSession
    <3>1. a_epoch # 0 /\ e = a_epoch /\ b_epoch' = e
      BY <2>3 DEF FallenB, JoinsB
    <3>2. QED
      BY <1>1, <1>2, <3>1 DEF Reached
  <2>4. QED
    BY <1>2, <1>5, <2>1, <2>2, <2>3 DEF Sound
<1>6. toB' \in Seq(Frame(0..a_epoch'))
  BY <1>2
<1>7. QED
  BY <1>1, <1>2, <1>3, <1>4, <1>5, <1>6 DEF Sound

LEMMA QuietInvB ==
  ASSUME Sound, RisesB, StaysB, UNCHANGED <<a_vars, toB>>, toA' = toA \o Sent(b_links')
  PROVE  Sound'
<1>1. JoinsB(a_epoch) /\ a_epoch \in 0..a_epoch /\ toB' = toB /\ toB \in Seq(Frame(0..a_epoch))
  BY PairAssumption DEF Sound, StaysB, JoinsB
<1>2. QED
  BY <1>1, AfterStepB

LEMMA SideB ==
  ASSUME Sound,
         \/ UserB \/ NoticeB \/ TickB
         \/ \E id \in LinkIds : GotB(id) \/ PingB(id)
  PROVE  Sound'
<1>1. b_epoch \in 0..MaxEpoch
  BY DEF Sound
<1>2. UNCHANGED <<a_vars, toB>> /\ toA' = toA \o Sent(b_links')
  BY Zenon DEF UserB, NoticeB, TickB, GotB, PingB, StepB
<1>3. \/ B!Connect \/ B!FrameDisconnected \/ B!Disconnect \/ B!Timer
      \/ \E i : B!LinkChanges(i)
      \/ \E id : B!ReaderEnds(id)
      \/ \E id, up : B!AddLink(id, up)
  BY Zenon DEF UserB, NoticeB, TickB, GotB, PingB, StepB
<1>4. RisesB /\ StaysB
  BY <1>1, <1>3, QuietStepB, DisconnectStepB, TimerStepB, AddLinkStepB
<1>5. QED
  BY <1>2, <1>4, QuietInvB

LEMMA ReceiveInvB == ASSUME Sound, NEW i \in DOMAIN toB, ReceiveB(i) PROVE Sound'
<1> DEFINE f == toB[i]
<1>1. f \in Frame(0..a_epoch) /\ toB' \in Seq(Frame(0..a_epoch))
  BY RemoveFrame DEF Sound, ReceiveB
<1>2. /\ b_epoch \in 0..MaxEpoch /\ f.epoch \in 0..a_epoch
      /\ f.epoch \in 0..MaxEpoch /\ f.request \in BOOLEAN
  BY <1>1, PairAssumption DEF Sound, Frame
<1>3. ASSUME toB \in Seq(Frame({a_epoch}))
      PROVE  toB' \in Seq(Frame({a_epoch})) /\ f.epoch = a_epoch
  <2>1. f \in Frame({a_epoch}) /\ toB' \in Seq(Frame({a_epoch}))
    BY <1>3, RemoveFrame DEF ReceiveB
  <2>2. QED
    BY <2>1 DEF Frame
<1>4. CASE StepB(B!LinkReset(f.epoch, f.request))
  <2>1. RisesB /\ JoinsB(f.epoch)
    BY <1>2, <1>4, ResetStepB DEF StepB
  <2>2. QED
    BY <1>1, <1>2, <1>3, <1>4, <2>1, AfterStepB DEF StepB
<1>5. CASE StepB(B!FrameDisconnected)
  <2>1. RisesB /\ JoinsB(f.epoch)
    BY <1>2, <1>5, QuietStepB DEF StepB, StaysB, JoinsB
  <2>2. QED
    BY <1>1, <1>2, <1>3, <1>5, <2>1, AfterStepB DEF StepB
<1>6. CASE UNCHANGED <<cores, toA>>
  <2>1. UNCHANGED <<b_epoch, b_state, a_epoch, a_state, toA>>
    BY <1>6 DEF cores, b_vars, a_vars
  <2>2. FallenB => FallenB'
    BY <1>3, <2>1 DEF FallenB
  <2>3. FallenA => FallenA'
    BY <2>1 DEF FallenA
  <2>4. QED
    BY <1>1, <2>1, <2>2, <2>3 DEF Sound
<1>7. QED
  BY <1>4, <1>5, <1>6 DEF ReceiveB

(* Side B is restarted with no frame of it on its way. *)
LEMMA CrashInvB == ASSUME Sound, CrashB, toA = <<>> PROVE Sound'
<1>1. /\ b_state' = "Disconnected" /\ b_epoch' = 0 /\ out' = {}
      /\ UNCHANGED a_vars /\ toA' = toA \o Sent(b_links') /\ toB' = <<>>
  BY DEF CrashB, StepB, B!Restart, B!Enter, B!None
<1>2. toA' = <<>>
  BY <1>1 DEF Sent
<1>3. a_epoch' = a_epoch /\ a_state' = a_state
  BY <1>1 DEF a_vars
<1>4. a_state \in A!InSession => a_epoch # 0
  BY DEF Sound, Reached, FallenB
<1>5. b_state' \notin B!InSession
  BY <1>1 DEF B!InSession
<1>6. a_state' \in A!InSession => FallenB'
  BY <1>1, <1>3, <1>4, <1>5 DEF FallenB
<1>7. QED
  BY <1>1, <1>2, <1>3, <1>5, <1>6, PairAssumption DEF Sound

(* What the network does leaves the cores alone. *)
LEMMA NetworkInv ==
  ASSUME Sound,
         \/ Dial \/ Unread \/ Lose \/ Repeat
         \/ \E id \in LinkIds : Cut(id) \/ HangUp(id)
  PROVE  Sound'
<1>1. UNCHANGED cores /\ UNCHANGED <<a_epoch, a_state, b_epoch, b_state>>
  BY Zenon DEF Dial, Unread, Lose, Repeat, Cut, HangUp, cores, a_vars, b_vars
<1>2. \/ UNCHANGED <<toA, toB>>
      \/ UNCHANGED toB /\ \E i \in DOMAIN toA : toA' \in {Without(toA, i), Append(toA, toA[i])}
      \/ UNCHANGED toA /\ \E i \in DOMAIN toB : toB' \in {Without(toB, i), Append(toB, toB[i])}
  BY Zenon DEF Dial, Unread, Lose, Repeat, Cut, HangUp
<1>3. ASSUME NEW S, NEW frames \in Seq(S), NEW i \in DOMAIN frames
      PROVE  Without(frames, i) \in Seq(S) /\ Append(frames, frames[i]) \in Seq(S)
  BY RemoveFrame, AppendProperties
<1>4. ASSUME NEW S, toA \in Seq(S) PROVE toA' \in Seq(S)
  BY <1>2, <1>3, <1>4
<1>5. ASSUME NEW S, toB \in Seq(S) PROVE toB' \in Seq(S)
  BY <1>2, <1>3, <1>5
<1>6. (FallenA => FallenA') /\ (FallenB => FallenB')
  BY <1>1, <1>4, <1>5 DEF FallenA, FallenB
<1>7. toA' \in Seq(Frame(0..b_epoch)) /\ toB' \in Seq(Frame(0..a_epoch))
  BY <1>4, <1>5 DEF Sound
<1>8. QED
  BY <1>1, <1>6, <1>7 DEF Sound

LEMMA NextInv == ASSUME Inv, [Next]_vars PROVE Inv'
<1>1. CASE stale
  <2>1. stale'
    BY <1>1, Zenon
    DEF Next, vars, net, UserA, UserB, Dial, GotA, GotB, Cut, HangUp, PingA, PingB, NoticeA,
        NoticeB, ReceiveA, ReceiveB, Unread, Lose, Repeat, TickA, TickB, CrashA, CrashB
  <2>2. QED
    BY <2>1 DEF Inv
<1>2. CASE Sound /\ UNCHANGED vars
  BY <1>2 DEF vars, cores, net, a_vars, b_vars, Inv, Sound, FallenA, FallenB
<1>3. CASE Sound /\ (CrashA \/ CrashB)
  <2>1. CASE CrashA
    BY <1>3, <2>1, CrashInvA DEF CrashA, Inv
  <2>2. CASE CrashB
    BY <1>3, <2>2, CrashInvB DEF CrashB, Inv
  <2>3. QED
    BY <1>3, <2>1, <2>2
<1>4. CASE Sound /\ Next /\ ~(CrashA \/ CrashB)
  BY <1>4, SideA, SideB, ReceiveInvA, ReceiveInvB, NetworkInv DEF Next, Inv
<1>5. QED
  BY <1>1, <1>2, <1>3, <1>4 DEF Inv

LEMMA InitInv == ASSUME Init PROVE Inv
<1>1. /\ a_epoch = 0 /\ b_epoch = 0 /\ toA = <<>> /\ toB = <<>>
      /\ a_state = "Disconnected" /\ b_state = "Disconnected"
  BY DEF Init, A!Fresh, B!Fresh, A!None, B!None
<1>2. QED
  BY <1>1, PairAssumption DEF Inv, Sound, A!InSession, B!InSession

(* Two sides that are in a session are in the same one, whatever the links *)
(* lose, repeat, delay or reorder, however often they break, and whichever *)
(* side is restarted, unless a Reset outlives the side that has sent it.   *)
THEOREM SessionsAgree == Spec => []SessionEpochsAgree
<1>1. Init => Inv
  BY InitInv
<1>2. Inv /\ [Next]_vars => Inv'
  BY NextInv
<1>3. Inv => SessionEpochsAgree
  BY PairAssumption DEF Inv, Sound, FallenA, FallenB, Reached, SessionEpochsAgree
<1>4. QED
  BY <1>1, <1>2, <1>3, PTL DEF Spec

=============================================================================
