----------------------------- MODULE LinkEntry ------------------------------
(***************************************************************************)
(* The latency of one link: src/links/link_entry.rs, with the tests of     *)
(* src/links/link_manager.rs and the timers of EpochMismatch and           *)
(* Connected.  Time is in units of 100 ms.  The core pings a link again    *)
(* and again and drops it when the average of the recent latencies is too  *)
(* high; a ping without an answer counts with the time until the next.     *)
(* Links that close or are evicted are in LinkSetCore.                     *)
(***************************************************************************)
EXTENDS Naturals, Sequences

CONSTANTS
  Latencies,   \* how long a pong may take, after a ping or after a beat
  Moments,     \* how long it may be until a Reset changes the state
  Delays,      \* by how much a beat may be late
  Leftovers    \* what may be left of a running deadline when the link comes

VARIABLES
  recent,   \* the latencies kept, the newest first
  ping,     \* the age of a ping without its pong, as a sequence: none or one
  listed,   \* is the link still in the LinkManager?
  state,    \* "EpochMismatch" or "Connected"
  due,      \* is last_ping more than PING_INTERVAL ago?
  left,     \* the time until the timer elapses
  silent    \* history: number of pings in a row that got no answer

vars == <<recent, ping, listed, state, due, left, silent>>

HISTORY_LEN == 6
DEFAULT_LATENCY == 1
MAX_LATENCY == 20
EPOCH_MISMATCH_TIMER_INTERVAL == 20
CONNECTED_TIMER_INTERVAL == 50

Interval(s) ==
  IF s = "Connected" THEN CONNECTED_TIMER_INTERVAL ELSE EPOCH_MISMATCH_TIMER_INTERVAL

(* Ages are not told apart from here on: one sample of this size is too    *)
(* much by itself.                                                         *)
MaxAge == MAX_LATENCY * HISTORY_LEN + 1

(* LinkEntry::new *)
NewEntry ==
  /\ recent = [i \in 1..HISTORY_LEN |-> DEFAULT_LATENCY]
  /\ listed = TRUE
  /\ silent = 0

(* Disconnected or Connecting to EpochMismatch: the link is pinged, and    *)
(* what is left of a connecting deadline keeps running.                    *)
StartsHandshake ==
  /\ state = "EpochMismatch"
  /\ ping = <<0>> /\ due = FALSE
  /\ left \in {EPOCH_MISMATCH_TIMER_INTERVAL} \cup Leftovers

(* Reconnecting or GracePeriod to Connected: the timer is cleared first.   *)
TakesUpSession ==
  /\ state = "Connected"
  /\ ping = <<0>> /\ due = FALSE
  /\ left = CONNECTED_TIMER_INTERVAL

(* AddLink, where there are links: it waits for their next beat. *)
JoinsOthers ==
  /\ state \in {"EpochMismatch", "Connected"}
  /\ ping = <<>> /\ due \in BOOLEAN
  /\ left \in {Interval(state)} \cup {t \in Leftovers : state = "Connected" => t <= Interval(state)}

Init == NewEntry /\ (StartsHandshake \/ TakesUpSession \/ JoinsOthers)

(* add_latency *)
AddLatency(latencies, latency) == SubSeq(<<latency>> \o latencies, 1, HISTORY_LEN)

(* LinkEntry::latency, times HISTORY_LEN: a Duration keeps the fraction of *)
(* the average.                                                            *)
Latency(latencies) ==
  latencies[1] + latencies[2] + latencies[3] + latencies[4] + latencies[5] + latencies[6]

(* Mutant: the limit itself is still good enough. *)
StaysAtMost(latencies) == Latency(latencies) <= MAX_LATENCY * HISTORY_LEN

(* Mutant: the latencies are added up and not divided by their number. *)
StaysSum(latencies) == Latency(latencies) < MAX_LATENCY

(* LinkManager::upkeep *)
Stays(latencies) == Latency(latencies) < MAX_LATENCY * HISTORY_LEN

(* send_proto, for the first link of the list. *)
Sendable(latencies) == Latency(latencies) <= MAX_LATENCY * HISTORY_LEN

Older(age, time) == IF age + time < MaxAge THEN age + time ELSE MaxAge

(* Time passes until the next event.  No handler sets last_ping again, so  *)
(* it is due from some time on.                                            *)
Aged(time) == [i \in DOMAIN ping |-> Older(ping[i], time)]
Passes(time) ==
  /\ left' = IF time < left THEN left - time ELSE 0
  /\ due' \in {due, TRUE}

(* end_ping, when a pong comes. *)
Pong(time) ==
  /\ listed /\ ping # <<>>
  /\ recent' = AddLatency(recent, Aged(time)[1])
  /\ ping' = <<>>
  /\ silent' = 0
  /\ Passes(time)
  /\ UNCHANGED <<listed, state>>

(* send_ping ends the ping before. *)
SendPing(time) ==
  /\ recent' = IF ping = <<>> THEN recent ELSE AddLatency(recent, Aged(time)[1])
  /\ silent' = IF ping = <<>> THEN silent ELSE silent + 1
  /\ ping' = <<0>>

(* The timer of EpochMismatch: upkeep, ping_all, and a Reset over the      *)
(* first link.  The deadline repeats from the time it is polled.           *)
BeatEpochMismatch(delay, first) ==
  /\ state = "EpochMismatch" /\ listed
  /\ IF Stays(recent)
     THEN /\ SendPing(left + delay)
          /\ listed' = (first => Sendable(recent'))
     ELSE /\ listed' = FALSE
          /\ UNCHANGED <<recent, ping, silent>>
  /\ due' \in {due, TRUE}
  /\ left' = Interval(state)
  /\ UNCHANGED state

(* The timer of Connected: ping_all if it is due, upkeep, and a resend     *)
(* over the first link.                                                    *)
BeatConnected(delay, first) ==
  /\ state = "Connected" /\ listed
  /\ due' \in {due, TRUE}
  /\ IF due' THEN SendPing(left + delay)
     ELSE ping' = Aged(left + delay) /\ UNCHANGED <<recent, silent>>
  /\ listed' = (Stays(recent') /\ (first => Sendable(recent')))
  /\ left' = Interval(state)
  /\ UNCHANGED state

(* Any frame that is sent between the beats goes over the first link that  *)
(* will do.                                                                *)
SendOver ==
  /\ listed /\ ~Sendable(recent)
  /\ listed' = FALSE
  /\ UNCHANGED <<recent, ping, state, due, left, silent>>

(* EpochMismatch to Connected: links and last_ping are kept, the timer is  *)
(* armed anew.  Queued messages go over the first link.                    *)
Establish(time, first) ==
  /\ state = "EpochMismatch" /\ listed
  /\ state' = "Connected"
  /\ ping' = Aged(time)
  /\ due' \in {due, TRUE}
  /\ left' = CONNECTED_TIMER_INTERVAL
  /\ listed' = (first => Sendable(recent))
  /\ UNCHANGED <<recent, silent>>

(* Connected to EpochMismatch: a Reset goes over the first link, and       *)
(* modify_repeat does not touch the deadline that is running.              *)
Mismatch(time, first) ==
  /\ state = "Connected" /\ listed
  /\ state' = "EpochMismatch"
  /\ ping' = Aged(time)
  /\ Passes(time)
  /\ listed' = (first => Sendable(recent))
  /\ UNCHANGED <<recent, silent>>

Next ==
  \/ \E time \in Latencies : Pong(time)
  \/ \E delay \in Delays, first \in BOOLEAN :
       BeatEpochMismatch(delay, first) \/ BeatConnected(delay, first)
  \/ \E time \in Moments, first \in BOOLEAN :
       Establish(time, first) \/ Mismatch(time, first)
  \/ SendOver

Spec == Init /\ [][Next]_vars

-----------------------------------------------------------------------------
(* A link whose peer has gone silent is dropped, although each ping it     *)
(* does not answer counts with no more than the time to the next, which    *)
(* may be exactly MAX_LATENCY: upkeep's `<` is needed.  Six such pings are *)
(* enough.  The first ping of all may count with much less, when it is     *)
(* sent just before a connecting deadline would have elapsed, and then one *)
(* more is needed to push it out.                                          *)
SilentIsDropped == listed => silent <= HISTORY_LEN + 1

(* One late answer among quick ones does not cost a link its place, unless *)
(* it took 11.5 s or more.                                                 *)
OneLateIsForgiven ==
  listed /\ ~listed' =>
    \/ \E i, j \in DOMAIN recent' :
         i # j /\ recent'[i] > DEFAULT_LATENCY /\ recent'[j] > DEFAULT_LATENCY
    \/ \E i \in DOMAIN recent' : recent'[i] >= MAX_LATENCY * HISTORY_LEN - 5

=============================================================================
