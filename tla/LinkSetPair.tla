----------------------------- MODULE LinkSetPair -----------------------------
(***************************************************************************)
(* Two LinkSets that talk to each other: two instances of LinkSetCore and  *)
(* the Reset frames between them.  A link is made by a connector of side A *)
(* or of side B, and each side gets its end of it in a step of its own.    *)
(* Frames are read in any order, or are lost; links break, and a side may  *)
(* be restarted with nothing of what it knew.                              *)
(*                                                                         *)
(* Without faults the frames of a link are read in order, each once, and   *)
(* no timer elapses while frames are on their way: the timer of            *)
(* EpochMismatch runs for 2 s, and a link that is as slow is dropped       *)
(* (MAX_LATENCY).  link.rs promises none of this, so each exception is a   *)
(* fault that may happen at any time; `faults` counts them.                *)
(*                                                                         *)
(* The user's messages (MessageTransfer), and changes of configuration     *)
(* after the start, are left out.                                          *)
(***************************************************************************)
EXTENDS Naturals, Sequences

CONSTANTS
  MaxEpoch,    \* u64::MAX
  LinkIds,     \* links between the two, the same names on both sides
  MaxQueued,   \* constant of LinkSetCore; no message is queued here
  MaxFaults,   \* bound on what goes wrong
  Crashing     \* the sides that may be restarted

ASSUME PairAssumption == MaxEpoch \in Nat \ {0} /\ MaxFaults \in Nat

VARIABLES
  a_state, a_epoch, a_links, a_readers, a_queued, a_accepted, a_config,
  a_timer, a_is_active, a_told, a_attempting, a_last,
  b_state, b_epoch, b_links, b_readers, b_queued, b_accepted, b_config,
  b_timer, b_is_active, b_told, b_attempting, b_last,
  out,         \* the frames that the last handler has put on a link
  toA, toB,    \* Reset frames on their way, with the link they are on
  wire,        \* of each link: "none", "live" or "cut"
  pending,     \* <<side, link>>: an end of a link that its core has not got yet
  faults,      \* faults so far
  stale        \* history: a side was restarted with frames of it on their way

A == INSTANCE LinkSetCore WITH
  state <- a_state, epoch <- a_epoch, links <- a_links, readers <- a_readers,
  queued <- a_queued, accepted <- a_accepted, config <- a_config, timer <- a_timer,
  is_active <- a_is_active, told <- a_told, attempting <- a_attempting, last <- a_last,
  out <- out

B == INSTANCE LinkSetCore WITH
  state <- b_state, epoch <- b_epoch, links <- b_links, readers <- b_readers,
  queued <- b_queued, accepted <- b_accepted, config <- b_config, timer <- b_timer,
  is_active <- b_is_active, told <- b_told, attempting <- b_attempting, last <- b_last,
  out <- out

a_vars ==
  <<a_state, a_epoch, a_links, a_readers, a_queued, a_accepted, a_config,
    a_timer, a_is_active, a_told, a_attempting, a_last>>
b_vars ==
  <<b_state, b_epoch, b_links, b_readers, b_queued, b_accepted, b_config,
    b_timer, b_is_active, b_told, b_attempting, b_last>>
net == <<toA, toB, wire, pending, faults, stale>>
cores == <<a_vars, b_vars, out>>
vars == <<cores, net>>

Sides == {"a", "b"}

-----------------------------------------------------------------------------
(* What a handler of one core does to the rest. *)

(* The frame a handler has sent: send_proto uses the first link that is    *)
(* left in the list.  A link that is cut carries nothing.                  *)
Sent(links) ==
  IF out' # {} /\ links[1].id \in {id \in LinkIds : wire[id] = "live"}
  THEN LET frame == CHOOSE f \in out' : TRUE
       IN  <<[link |-> links[1].id, epoch |-> frame.epoch, request |-> frame.request]>>
  ELSE <<>>

StepA(act) == act /\ toB' = toB \o Sent(a_links') /\ UNCHANGED b_vars
StepB(act) == act /\ toA' = toA \o Sent(b_links') /\ UNCHANGED a_vars

Without(frames, i) == SubSeq(frames, 1, i - 1) \o SubSeq(frames, i + 1, Len(frames))

Fault == faults < MaxFaults /\ faults' = faults + 1
FaultUnless(fine) == IF fine THEN UNCHANGED faults ELSE Fault

-----------------------------------------------------------------------------
(* The users: connect() and disconnect(). *)

UserA ==
  /\ \/ StepA(A!Connect) /\ UNCHANGED faults
     \/ StepA(A!Disconnect) /\ Fault
  /\ UNCHANGED <<toA, wire, pending, stale>>

UserB ==
  /\ \/ StepB(B!Connect) /\ UNCHANGED faults
     \/ StepB(B!Disconnect) /\ Fault
  /\ UNCHANGED <<toB, wire, pending, stale>>

-----------------------------------------------------------------------------
(* Links. *)

ReadBy(side, id) ==
  \/ <<side, id>> \in pending
  \/ side = "a" /\ id \in a_readers
  \/ side = "b" /\ id \in b_readers

Carries(frames, id) == \E i \in DOMAIN frames : frames[i].link = id

Unknown ==
  {id \in LinkIds :
     /\ \A side \in Sides : ~ReadBy(side, id)
     /\ id \notin A!Ids(a_links) \cup B!Ids(b_links)
     /\ ~Carries(toA, id) /\ ~Carries(toB, id)}

(* A connector of a side that is connecting makes a link; its other end    *)
(* comes out of a listener.  The link gets a name that neither side knows  *)
(* any more.  It counts as a fault to make a second one beside the first.  *)
Dial ==
  /\ a_state \in {"Connecting", "Reconnecting"} \/ b_state \in {"Connecting", "Reconnecting"}
  /\ Unknown # {}
  /\ FaultUnless(Unknown = LinkIds)
  /\ LET id == CHOOSE i \in Unknown : TRUE
     IN  /\ wire' = [wire EXCEPT ![id] = "live"]
         /\ pending' = pending \cup {<<side, id>> : side \in Sides}
  /\ UNCHANGED <<cores, toA, toB, stale>>

(* AddLink reaches the core, however late. *)
GotA(id) ==
  /\ <<"a", id>> \in pending
  /\ StepA(A!AddLink(id, wire[id] = "live"))
  /\ pending' = pending \ {<<"a", id>>}
  /\ UNCHANGED <<toA, wire, faults, stale>>

GotB(id) ==
  /\ <<"b", id>> \in pending
  /\ StepB(B!AddLink(id, wire[id] = "live"))
  /\ pending' = pending \ {<<"b", id>>}
  /\ UNCHANGED <<toB, wire, faults, stale>>

Cut(id) ==
  /\ wire[id] = "live"
  /\ Fault
  /\ wire' = [wire EXCEPT ![id] = "cut"]
  /\ UNCHANGED <<cores, toA, toB, pending, stale>>

(* A side has dropped its LinkEntry: the other end closes. *)
HangUp(id) ==
  /\ wire[id] = "live"
  /\ \/ <<"a", id>> \notin pending /\ id \notin A!Ids(a_links)
     \/ <<"b", id>> \notin pending /\ id \notin B!Ids(b_links)
  /\ wire' = [wire EXCEPT ![id] = "cut"]
  /\ UNCHANGED <<cores, toA, toB, pending, faults, stale>>

(* The end of a link that is cut finds out: is_closed turns true, and the  *)
(* reader's stream ends.                                                   *)
NoticeA ==
  /\ \/ \E i \in A!Live(a_links) : wire[a_links[i].id] = "cut" /\ StepA(A!LinkChanges(i))
     \/ \E id \in LinkIds : wire[id] = "cut" /\ StepA(A!ReaderEnds(id))
  /\ UNCHANGED <<toA, wire, pending, faults, stale>>

NoticeB ==
  /\ \/ \E i \in B!Live(b_links) : wire[b_links[i].id] = "cut" /\ StepB(B!LinkChanges(i))
     \/ \E id \in LinkIds : wire[id] = "cut" /\ StepB(B!ReaderEnds(id))
  /\ UNCHANGED <<toB, wire, pending, faults, stale>>

-----------------------------------------------------------------------------
(* Frames. *)

ReceiveA(i) ==
  LET f == toA[i] IN
  /\ f.link \in a_readers
  /\ FaultUnless(i = 1)
  /\ \/ StepA(A!LinkReset(f.epoch, f.request))
     \/ StepA(A!FrameDisconnected)
     \/ A!IgnoresReset(f.epoch, f.request) /\ UNCHANGED <<cores, toB>>
  /\ toA' = Without(toA, i)
  /\ UNCHANGED <<wire, pending, stale>>

ReceiveB(i) ==
  LET f == toB[i] IN
  /\ f.link \in b_readers
  /\ FaultUnless(i = 1)
  /\ \/ StepB(B!LinkReset(f.epoch, f.request))
     \/ StepB(B!FrameDisconnected)
     \/ B!IgnoresReset(f.epoch, f.request) /\ UNCHANGED <<cores, toA>>
  /\ toB' = Without(toB, i)
  /\ UNCHANGED <<wire, pending, stale>>

(* A Ping, an Ack or a slice reaches a core that is Disconnected. *)
PingA(id) ==
  /\ id \in a_readers \cap B!Ids(b_links)
  /\ StepA(A!FrameDisconnected)
  /\ UNCHANGED <<toA, wire, pending, faults, stale>>

PingB(id) ==
  /\ id \in b_readers \cap A!Ids(a_links)
  /\ StepB(B!FrameDisconnected)
  /\ UNCHANGED <<toB, wire, pending, faults, stale>>

(* No fault: nobody will read the frame any more. *)
Unread ==
  /\ \/ /\ \E i \in DOMAIN toA : ~ReadBy("a", toA[i].link) /\ toA' = Without(toA, i)
        /\ UNCHANGED toB
     \/ /\ \E i \in DOMAIN toB : ~ReadBy("b", toB[i].link) /\ toB' = Without(toB, i)
        /\ UNCHANGED toA
  /\ UNCHANGED <<cores, wire, pending, faults, stale>>

Lose ==
  /\ \/ \E i \in DOMAIN toA : toA' = Without(toA, i) /\ UNCHANGED toB
     \/ \E i \in DOMAIN toB : toB' = Without(toB, i) /\ UNCHANGED toA
  /\ Fault
  /\ UNCHANGED <<cores, wire, pending, stale>>

Repeat ==
  /\ \/ \E i \in DOMAIN toA : toA' = Append(toA, toA[i]) /\ UNCHANGED toB
     \/ \E i \in DOMAIN toB : toB' = Append(toB, toB[i]) /\ UNCHANGED toA
  /\ Fault
  /\ UNCHANGED <<cores, wire, pending, stale>>

-----------------------------------------------------------------------------
(* The timer of a core.  It is a fault if frames are on their way, or if a *)
(* link that is live seems too slow.                                       *)

InTime == toA = <<>> /\ toB = <<>>

TickA ==
  /\ StepA(A!Timer)
  /\ FaultUnless(InTime /\ \A i \in A!Live(a_links) : wire[a_links[i].id] = "live" =>
       \E j \in A!Live(a_links') : a_links'[j].id = a_links[i].id)
  /\ UNCHANGED <<toA, wire, pending, stale>>

TickB ==
  /\ StepB(B!Timer)
  /\ FaultUnless(InTime /\ \A i \in B!Live(b_links) : wire[b_links[i].id] = "live" =>
       \E j \in B!Live(b_links') : b_links'[j].id = b_links[i].id)
  /\ UNCHANGED <<toB, wire, pending, stale>>

(* A side is restarted: its links are gone, and what it had sent may still *)
(* arrive.                                                                 *)
CrashA ==
  /\ "a" \in Crashing
  /\ StepA(A!Restart)
  /\ Fault
  /\ wire' = [id \in LinkIds |-> IF wire[id] = "live" THEN "cut" ELSE wire[id]]
  /\ pending' = {p \in pending : p[1] # "a"}
  /\ toA' = <<>>
  /\ stale' = (stale \/ toB # <<>>)

CrashB ==
  /\ "b" \in Crashing
  /\ StepB(B!Restart)
  /\ Fault
  /\ wire' = [id \in LinkIds |-> IF wire[id] = "live" THEN "cut" ELSE wire[id]]
  /\ pending' = {p \in pending : p[1] # "b"}
  /\ toB' = <<>>
  /\ stale' = (stale \/ toA # <<>>)

-----------------------------------------------------------------------------
(* The configurations the README describes: a side that reconnects on its  *)
(* own, and a "server" that can only wait.                                 *)
Client == [A!Default EXCEPT !.reconnecting = "some"]
Server == [A!Default EXCEPT !.auto_connect = FALSE, !.grace = "some"]

Init ==
  /\ A!Fresh /\ a_config = Client
  /\ B!Fresh /\ b_config = Server
  /\ toA = <<>> /\ toB = <<>>
  /\ wire = [id \in LinkIds |-> "none"]
  /\ pending = {}
  /\ faults = 0
  /\ stale = FALSE

Next ==
  \/ UserA \/ UserB
  \/ Dial
  \/ \E id \in LinkIds :
       GotA(id) \/ GotB(id) \/ Cut(id) \/ HangUp(id) \/ PingA(id) \/ PingB(id)
  \/ NoticeA \/ NoticeB
  \/ \E i \in DOMAIN toA : ReceiveA(i)
  \/ \E i \in DOMAIN toB : ReceiveB(i)
  \/ Unread \/ Lose \/ Repeat
  \/ TickA \/ TickB
  \/ CrashA \/ CrashB

Spec == Init /\ [][Next]_vars

(* The tasks of a link get their turn: a link that was made is handed to   *)
(* both cores, and one that is dropped or broken closes on both sides.     *)
LinkTasks ==
  \/ \E id \in LinkIds : GotA(id) \/ GotB(id) \/ HangUp(id)
  \/ NoticeA \/ NoticeB

(* So do the cores, which poll the timer and the readers on every turn. *)
Frames ==
  \/ \E i \in DOMAIN toA : ReceiveA(i)
  \/ \E i \in DOMAIN toB : ReceiveB(i)
  \/ Unread

FairSpec ==
  /\ Spec
  /\ WF_vars(TickA) /\ WF_vars(TickB)
  /\ WF_vars(Frames) /\ WF_vars(LinkTasks)

-----------------------------------------------------------------------------
(* Properties *)

(* Two sides that are each in a session are in the same one: however the   *)
(* Resets of several handshakes cross, and whichever side is restarted,    *)
(* the slices and acknowledgements of one session never meet the           *)
(* MessageManager of another.  The exception is a Reset that outlives the  *)
(* LinkSet that has sent it: the peer may follow it into a session that    *)
(* the restarted side knows nothing of.                                    *)
SessionEpochsAgree ==
  ~stale /\ a_state \in A!InSession /\ b_state \in B!InSession => a_epoch = b_epoch

(* The handshake does not run away: whatever goes wrong costs one epoch at *)
(* most, and the two sides do not bid each other up.                       *)
EpochsPerFault ==
  a_epoch <= 1 + faults /\ b_epoch <= 1 + faults

(* Liveness.  Two sides that have a link to each other end up in a session *)
(* of one epoch and stay there, whichever Reset or reply was lost.         *)
Linked == \E id \in A!Ids(a_links) \cap B!Ids(b_links) : wire[id] = "live"
Joined == a_state = "Connected" /\ b_state = "Connected" /\ a_epoch = b_epoch
Converges == <>[](Linked => Joined)

=============================================================================
