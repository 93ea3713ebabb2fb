# A TLA+ model of link_set

`link_set` joins several unreliable links between two endpoints into one
connection that delivers messages in order and survives the loss of links.
This directory models its core in TLA+: TLC checks the models on small
instances, TLAPS proves the main safety results for all instances.

## The system and its parts

| Part | Source (`src/src/`) | Here |
| --- | --- | --- |
| `SliceManager`: byte ranges of one message | `slice_manager.rs` | `SliceManager`, `SliceManagerLoops`, `Reassembly` |
| `MessageManager`: messages of one epoch | `message_manager.rs` | `MessageManager`, `MessageTransfer`, `OrderedDelivery` |
| `Epoch`, `compare_epochs` | `epoch.rs` | `Epochs` |
| `Deadline`: the core's only timer | `deadline.rs` | `Deadline` |
| Core task and its six states | `core.rs`, `state/` | `LinkSetCore`, `CoreSessions`, `CoreLifetime` |
| Two cores and the links between them | the same | `LinkSetPair` |
| `LinkManager`, `LinkEntry` | `links/` | inside `LinkSetCore` with latency abstracted; latency in `LinkEntry` |
| `LinkSet`, `LinkSetReader` | `link_set/` | `LinkSetHandle` |
| `ConnectorManager`: attempts to connect | `connector_manager.rs` | `ConnectorManager` |
| Wire format, addresses | `protocol.rs`, `links/address.rs` | `WireFormat`, `Address` |
| `TcpLink`, `PipeLink` | `link_impls/` | `TcpLink`, `PipeLink` |
| Debug handle | `debug.rs` | `EvictLink` in `LinkSetCore`, `Ask` in `LinkSetHandle`; a snapshot only reads |
| Errors, serde adaptor, `Peekable` | `error.rs`, `link_set/serde.rs`, `adaptors/` | not modelled: no state (`Peekable` is not compiled) |

A user's `LinkSet` sends commands over a channel to the core task. The core
handles one event at a time: a command, a frame from a link's reader, the
timer, a debug command. It is in one of six states:

* *Disconnected*, *Connecting*: no links; connectors may be at work.
* *EpochMismatch*: links exist and the two sides agree on an epoch with `Reset` frames.
* *Connected*: a `MessageManager` of that epoch sends slices and acknowledgements.
* *Reconnecting*, *GracePeriod*: all links are lost, the `MessageManager` is kept.

What is hard to test here: the user's view (`Connected`, `Disconnected`,
`AttemptingConnection`, `is_active`) is produced piecemeal by sixteen
transitions; one timer is shared by all states; readers outlive their links, so
old frames arrive in any state; slices and acknowledgements are lost, repeated
and reordered, and slices are cut at different sizes by different links; two
sides agree on an epoch over frames that may be lost or late, while links break
and sides restart; user and core wait for each other through bounded channels;
futures are dropped at any await.
`PROJECT.json` lists these hazards line by line with the properties that cover them.

## Modules

**SliceManager.** Operators on `slices`, the `BTreeMap` from the first to the
last index of a range. Bytes are not modelled; a receive buffer keeps in `data`
the indices really written, which tells a whole message from one with a hole.
`AddSlice`, `RemoveHead` and `MakeSlices` are closed forms of the loops in
`add_slice`, `remove_slice` and `make_slices`. `SliceManagerLoops` has the loops
themselves: a call starts with any ranges and arguments, a step is one iteration,
and `ClosedFormsAgree` compares what a finished call leaves with the closed form.
`remove_slice` is only ever called with start 0 (by `ack`), and is modelled so.

**Reassembly** runs both `SliceManager`s of one message under all slices and
acknowledgements.

**MessageManager.** One operator per step of `insert_msg`, `recv_ack`, `recv`
and `take_recvd`. The inverted comparison of `recv` (line 127) is kept in
`DidChange`.

**MessageTransfer.** One direction of a session: `Send` is `ctrl_msg(Message)`,
`ResendEarliest` is `Connected::timer`, `DeliverAck` and `DeliverSlice` are
`link_msg`. `DeliverSlice` is the whole handler: `recv` (its three exits are
`RecvOld`, `RecvAhead` and `RecvNext`), the acknowledgement if one is due, and
`take_recvd` with the hand-over. `link.rs` promises neither order nor delivery,
so the network is a set from which frames are read any number of times or lost.
`up` holds the sides that are Connected; a side that is not is in Reconnecting
or GracePeriod, where it receives but cannot send.

**OrderedDelivery.** What the user is promised: accepted messages come out in
order, each once. `MessageTransfer` implements it under the mapping `Promise`,
where a message is its sequence number. Whether its bytes are all there is
`WholeMessages`, which the code does not satisfy (finding 1).

**Epochs, Deadline.** `None` is 0, as on the wire; `MaxEpoch` stands for
`u64::MAX`, where `Increment` saturates. A `Deadline` names the state whose
interval is running and the state whose interval is armed next.

**LinkSetCore.** One core against an environment that may do anything: links
come, fail, slow down and recover; any `Reset` arrives on any attached reader.
Every `transition_from` in use is an operator named after its two states
(`EpochMismatchToConnected`, ...), every handler an action. `told` and
`attempting` hold what the notifications sent so far tell the user; `last` is
the epoch announced last. A handler is one step because the core runs it to its
end before it takes the next event. Links that fail while a handler waits are
covered by `LinkChanges` just before it, and by `PingAll`, which yields every list
that pinging may leave. A connecting timeout of zero is not told apart from
another: Connecting arms a deadline for both. `Ack`, `Ping` and `Pong` change nothing that is kept.

**CoreSessions.** What a core promises its user of sessions: each begins with a
later epoch and a `Connected`, and ends, with a `Disconnected` except on the way
through EpochMismatch (finding 4). `LinkSetCore` implements it, and
`LinkSetHandle` is built on it.

**LinkSetPair.** Two instances of `LinkSetCore`, a client that reconnects and a
server that waits, as the README of the crate describes them. `out` of the core
hands the `Reset` that a handler sends to the link it is sent on; each side gets
its end of a link in a step of its own (`GotA`, `GotB`), and notices later that
it is cut. `link.rs` promises neither order nor delivery. Here frames are read
in order, and timers elapse only when no frame is under way, unless a *fault*
is counted: a frame lost, repeated or overtaken, a timer before a frame, a live
link that seems slow, a link cut, a second link, a disconnect, a restart that
forgets everything. Faults come at any time; their number is bounded. `stale`
records that a side was restarted while frames of it were on their way: its peer
may follow such a `Reset` into a session that the restarted side knows nothing
of, and with three faults the two can be in different sessions for a while.
`SessionEpochsAgree` speaks of all other behaviours, `Converges` of all.

**LinkSetHandle.** LinkSet values and clones, who owns the receiver, the mutex
with the epoch, the two bounded channels, and calls that wait for room: the
methods take `&self`, so several futures of one LinkSet may wait (`Calls` names
them), while `recv`, `take_recv` and the drop of a LinkSet need it to themselves. `Recv`
and `Note` are apart, since the notification leaves the channel before the mutex
is written. Notifications beyond `Capacity` are those the core's handler is
still waiting to send; until they fit the core takes nothing else.

**LinkEntry.** The last six latencies of a link in units of 100 ms, a ping and
what its missing answer counts for, against the tests in `upkeep` and in sending,
with the timers of EpochMismatch and Connected and changes between them. There is
no clock: an event says how much time has passed before it (`time`, or `left` and
`delay` for a beat), and `left` is the time until the timer elapses. A link that
starts a handshake (`StartsHandshake`) or takes up a session (`TakesUpSession`) is
pinged at once; one that joins others (`JoinsOthers`) waits for their next beat.
`modify_repeat` does not touch a deadline that is running, so the first beat of
EpochMismatch may come as soon or as late as the connecting deadline would have,
and a change from Connected keeps the deadline (`Mismatch`); a change to Connected
arms a new one (`Establish`). The
average is compared as a sum, without division, since a `Duration` keeps its
fraction. Ages are cut at 12.1 s, where one sample alone is too much.

**TcpLink.** One direction of a connection. A byte is `<<k, i>>`; the stream comes
in pieces of any size and breaks at any byte. `RecvChunk` is `recv_chunk` from
one await to the next. `TakeReader` moves the socket, the length and the bytes
that were read into the reader task, which forwards chunks over a channel.

**PipeLink.** One direction of a pair made for tests: loss, latency, expiry,
cancellation, and the `biased` select of a read, whose future may be dropped at
each of its awaits.

**WireFormat, Address.** `serialize` and `deserialize` of the five frames byte by
byte. `Base` is the number of values of a byte, 256 in the code, and a `u64` is a
number below `Base^8`. The text of an address is its words between colons, with
base64 as a table.

**Links, Parts, MCParts.** `Links` puts `TcpLink`, `PipeLink`, `LinkEntry` and
`Address` side by side with what each promises. `Parts` adds `Reassembly`,
`SliceManagerLoops` and `WireFormat` and runs one of them at a time, the pure ones
on one value per initial state. `MCParts` names the payloads and the decodings.

**ConnectorManager.** The manager that Connecting and Reconnecting run
(`active`), and the addresses and connectors the other states keep for it. A
task goes from await to await; `TaskAcquires` is the semaphore, which gives a
permit to a waiting task before the task is polled. Aborting returns the permit
a task holds. `start`, `cancel`, `add_addr` and `add_connector` are one step
each: the core waits for the tasks it aborts, and what such a task still does
between `abort` and its end is the step it would have taken just before.
`tried` and `spent` count what the user asked for and what was used up. The
module is not composed with `LinkSetCore`; `Start` and `Cancel` stand for its
transitions, which may come at any time.

**CoreLifetime.** Who holds a `Sender` of the command channel, and when the
core's loop may end.

Operators marked "Mutant" are plausible mistakes in the code they stand before.
Replacing the definition by its mutant violates a property; no module uses them.

## Runs that pass

| Run | Bounds | States | Shows |
| --- | --- | --- | --- |
| `MCParts` | 6 bytes; 2 TCP chunks of 0 or 2 bytes; 3 pipe chunks; pongs after 0.1 s or 11.4 s, 0 or 10 s left of a deadline; numbers 0, 1, 7 and the largest of 8 bytes | 118 911 | ranges stay separated and forget nothing, closed forms equal loops; chunks are read once, in order, with their boundaries, or the link is found closed; a silent link is dropped and one late answer forgiven; frames and addresses read back |
| `MessageTransfer` | 2 messages of 1 or 3 bytes, links of 2, both sides flaky | 18 684 | no panic, in order once, nothing dropped early, acknowledgements never go back, implements `OrderedDelivery`, all is delivered and the sender learns it |
| `LinkSetCore` | 2 links, epochs to 2, queue of 1 | 97 632 | the user's view, timer and epochs agree with the state; no usable link is dropped; implements `CoreSessions`; dead sessions and bounded waits end |
| `LinkSetPair` | 2 links, epochs to 4, 2 faults, both sides restart | 188 088 | sessions of the two sides agree unless a `Reset` outlives its sender, a fault costs one epoch, linked sides join |
| `ConnectorManager` | 2 schemes with 1 address each, 3 tries, 2 connectors, `RETRIES_MAX` 1, channel of 1 | 250 600 | one task per address, no permit lost or used twice, attempts are made |
| `LinkSetHandle` | 2 LinkSets, 2 calls that wait, channels of 1, 2 messages per frame, epochs to 2 | 214 472 | `current_epoch` follows the core, messages come in their epoch, calls return while a reader reads, the epoch ends with the core |

Bounds. Six bytes hold two separate ranges with a gap before, between and after
them, and every way a new slice can touch, overlap, cover or miss them. Three
bytes over links of 2 give slices of two lengths, and in a message of one byte
the first index is also the last; two messages let the later one
finish first, and one frame then release both. Two links are enough for one to
fail while the other is kept; epochs up to 2 let a core pass through two sessions
and then saturate. One queued message tells an empty queue from a filled one, the
only test the code makes. Two faults allow a lost reply and a restart, or a late
Reset and a broken link; with them epochs reach 3 (`EpochsPerFault`), and 4 shows
that saturation plays no part. Three tries go beyond the cap of one permit and the one more that an
attempt can hold; two connectors let one be replaced while a task of the other
scheme goes on. The bound on connectors also matters to `AttemptMade`: a user who
replaces a connector for ever restarts its tasks for ever. Channels of 1 are full
after one element, two messages of one frame make the core wait inside its
handler, and two calls may be of one LinkSet or of two. A chunk of no bytes
and one of two, read in pieces of up to six bytes,
let a read end inside a length, inside a chunk and behind it. A pong after 11.4 s is
too late for every timer, and the latest that is forgiven. Of a deadline nothing
may be left, so that the first ping counts with nothing, or more than any
interval. `Moments` is 0: the time that passes before a change of state is told
apart by nothing but the age of a ping, which beats and pongs vary already. 390624 fills all
8 bytes of base 5.

`MCParts` and `LinkSetHandle` run with `CHECK_DEADLOCK FALSE`: a link that is
closed and read to its end is done, and so is a user whose handles and core are gone.

Fairness. `LinkSetCore`: `WF(Timer)`, since the loop polls the timer on every turn
and `select!` picks among ready branches at random. `MessageTransfer`:
`WF(ResendEarliest)`, as Connected's timer repeats every 5 s; `SF` on reading the
slice at an offset, and on reading an acknowledgement of whole messages: a link
that is used again and again carries something in the end. Delivery is claimed
only if from some point on both sides keep a link (`<>[]AllUp`); sending, losing
and link failures are never fair. `EverythingDelivered` is checked with messages
that are not empty (finding 2). `LinkSetPair`: `WF` on each timer, on reading the
frames that are there, and on the tasks of a link; no user, connector or fault is
fair, so `Converges` speaks of sides that have a link, and faults end because they
are counted. `ConnectorManager`: `WF` on a task outside `connect`, and on the core
taking an `AddLink`: tokio polls what is ready, while an attempt to connect may
hang. `LinkSetHandle`: `SF` on commands and debug requests (a random `select!`
that comes round again and again), `WF` on the end of a `recv`, and of the user
that a taken reader is read. A LinkSet that owns its receiver and waits in a call
cannot read, and then the core and the user can block each other for ever;
`CallsReturn` claims nothing for it. `TcpLink`: `WF` on the task, its send and its
reader. `PipeLink`: `WF` on starting a read, `SF` on its steps, which a dropped
future starts over.

## Where the code and its documentation disagree

Each is a run that TLC ends with a counterexample.

1. `MessageTransfer_hole`: `add_slice` takes over the end of a range further right even when a gap lies between. A message with a hole is handed to the user.
2. `MessageTransfer_empty`: an empty message has no slice. It is never delivered and no later message of the epoch is.
3. `MessageTransfer_ack`: `recv` returns false when the offset inside a message advances, true when it does not (`==` on line 127), against its doc comment.
4. `LinkSetCore_untold`: Connected, EpochMismatch, Disconnected: the user is never told that the session ended, and `current_epoch` keeps its value.
5. `LinkSetCore_reset`: Reconnecting (and GracePeriod) ends the session on a `Reset` for its *own* epoch and ignores a mismatched one, against the comment.
6. `CoreLifetime`: the core holds a `Sender` of its own channel, so the task outlives every handle.

## Proofs

All results hold for every value of the constants that the named `ASSUME`s allow.

`LinkSetCore_proofs`: `CoreInvariant`, `Spec => []Inv` (`EpochAssumption`,
`CoreAssumption`). `Inv` conjoins the types of the fields, the three parts of `UserView`
(with `AttemptingExact`, which is inductive, for `AttemptingTruth`),
`OnlyItsEpoch`, `NextEpochFresh` and `TimerOfState`. The conjunction is needed:
that the user was told the right epoch at the end of a handshake says nothing of
the next one unless the epoch has moved past it meanwhile (`NextEpochFresh`), and
that is only kept if inside a session the epoch is the one announced last
(`SessionEpochTold`). The argument is one lemma per state that can be entered
(`EnterDisconnected`, ...), one for `determine_state`, then one each for commands,
frames and the timer. From it follow `NoEpochIsReused` and
`CoreImplementsSessions`, the refinement to `CoreSessions`.

The list of links has an invariant of its own, `LInv`: it is a sequence of different
links, and only EpochMismatch and Connected hold any. With it `TypesHold` is complete,
and `UsableLinksStay` (`UsableLinkIsKept`) follows: what a send leaves is the part of
the list from its first usable link on (`AfterSendKeeps`), twice if a handshake ends
and queued messages are sent; `evict_link` keeps all other places (`RetainKeeps`); and
the transitions that start a new list start from states that hold no link.

`LinkSetPair_proofs`: `SessionsAgree` says that two sides in a session are in the
same one (`PairAssumption`), for every number of links, faults and restarts.
Between restarts epochs only rise, and a frame carries at most the epoch its
sender has by now; so a side in a session has a peer at least as high, or one
without an epoch, and two such sides are equal. A restart leaves the peer alone
in its session, with nothing on its way to the restarted side but frames of that
session. The one
hypothesis is `~stale` (see above).

`MessageTransfer_proofs`: `TakeRecvdNeverPanics`, `DeliveredInOrderOnce` and
`Refinement` to `OrderedDelivery` (`TransferAssumption`). The inductive invariant
`IInv` says that the receiver holds no message before `last_ack.0`, that message
`last_ack.0` itself is not complete in `incoming`, and that what was delivered is
exactly 0 up to `last_ack.0 - 1`. Without the second part a complete message
could be left behind. Byte ranges play no part: the results hold although
finding 1 makes `is_full` too generous.

In the second half, `SenderKeepsWhatIsMissing` (`NothingDroppedEarly`) and
`AcknowledgementsAdvance` (`AckNeverRegresses`). The invariant says that the
sender's ranges of a message are a tail of it, that `last_ack` is what the
receiver's buffers show, and that the receiver holds what any acknowledgement in
flight names, however old. The last needs that `add_slice` never forgets a byte
nor moves the end of the first range back (`AddSliceGrows`).

`CoreClients_proofs`: the two users of the core's command channel.

For the LinkSets, `EpochFollows` (`EpochCatchesUp`) and
`MessagesMeetTheirEpoch` (`MessagesInTheirEpoch`) (`HandleAssumption`). The mutex
lags behind the core, so the invariant is about the whole way between them: the
notification `recv` has taken, the channel, and what a handler has still to send.
Read from the mutex on, it ends at the epoch announced, and stands at the epoch
of each message when that message is reached.

For the tasks of the connectors, `OneTask`, `NoTryLost` and `PermitsAreBounded`
(`ManagerAssumption`). A permit is in the semaphore, in the one task of its
address, or spent, and every step moves it between these places. The invariant
adds that a task at the top of its loop, or asleep, holds none; without it the
start of a loop could drop a permit.

`SliceManager_proofs`: lemmas about the closed forms, for any ranges: what
`AddSlice` merges, that it loses no byte and keeps ranges apart, what it adds when
no gap follows (`AddSliceExact`), and what `recv_slice`, `from_vec` and `ack` keep.
`MessageTransfer_proofs` and `Data_proofs` rest on them.

`Data_proofs`, about one message in pieces and one frame in bytes:
* `RangesStaySeparated`, `NoByteForgotten` and `AddSliceIsExact` for a message of
  any size (`SizeAssumption`). The invariant `SlicesInv` holds a receiver's ranges
  and a sender's tail together with what has been acknowledged.
* `LoopsComputeClosedForms` (`ClosedFormsAgree`, `SizeAssumption`). The invariant
  `LoopInv` says what each loop has done so far. `add_slice` (`Adding`) has taken away
  the leftmost ranges from the start of the slice on; all of them end inside the
  slice, except the one that ends the loop. The ranges are apart, so these are the
  ranges the closed form swallows, and `end` is its furthest index. `make_slices`
  (`Making`) has pushed the pieces that begin before the cursor, and the cursor is a
  whole number of pieces into its range. A call starts with any ranges a receiver
  (`Received`) or a sender (`Unsent`) can have. So every other module may use the
  closed forms.
* `FrameReadsBack` (`BaseAssumption`). `FromBytes` undoes `ToBytes` for every number
  below `Base^8`, by induction on the number of bytes; each field is read where it was
  written, whatever follows; and a frame that is cut short anywhere is cut inside or
  before some field, whose reader reports it.

`Parts_proofs`: `PartsKeepTheirPromises` says that a behaviour of `SpecParts` is one of
each part, so that the theorems about the parts hold of what the run checks.
`FramesAreReadBack` (`FramesReadBack`, `FieldsAssumption`) and `AddressIsReadBack`
are the same for the values that do not change. A slice that was cut for a link fits
it as a frame because what `serialize` puts before the data is 41 bytes.

`Links_proofs`, each about the specification of its own part:
* `TcpReadsAPrefix` (`LengthsAssumption`). The bytes not yet parsed, those of
  `read_buffer` and then those of the socket, are a run: within a chunk byte
  follows byte, after its last comes the first of the next (`Run`), and the first
  of all is the one that must come after `c` chunks and perhaps a length
  (`Layout`). Until the connection ends the run also reaches the end of what was
  sent (`Complete`), which is what lets `Send` go on from it. `RecvChunkPolls` shows
  that `recv_chunk` takes from such a run the next chunk or nothing. The number `c`
  counts the chunks received, in the channel and pending; once the reader is
  dropped chunks are thrown away, and only those received before count.
* `PipeReadsOnceInOrder`. What has been read, what a read holds,
  what is peeked and what is queued are rising, each before the next.
* `SilentLinkIsDropped`, `OneLateAnswerIsForgiven` (`TimesAssumption`). The first ping
  of a link may be ended by a beat that comes at once. From then on the age of a
  ping and the time left until the timer are together at least one interval of
  EpochMismatch, which is exactly `MAX_LATENCY`, through changes of state too
  (`LongEnough`). So with `n` unanswered pings in a row, the `n - 1` newest latencies
  are that much, and seven pings leave no other among the six; TLC shows that
  six may not be enough.
* `AddressesReadBack`. Splitting at the first two colons gives back what was put
  before them, whatever words follow.

Only model-checked:
* liveness under fairness (`EverythingDelivered`, `SenderLearns`, `DeadSessionEnds`,
  `WaitsAreBounded`, `Converges`, `AttemptMade`, `CallsReturn`, `EpochEndsWithCore`,
  `ReadOrClosed`, `CloseIsNoticed`): out of the prover's reach;
* `EpochsPerFault`: a frame that is late may raise the epoch when it is read, but only
  if the frames read before it have led the core into a session. An inductive
  invariant has to bound what the whole queue of frames can still cause, read in
  its order between the losses of links; that is a recursion over the queue, and
  needs an induction over it. TLC also finds it true of 3 faults and epochs up to 6
  (4 211 421 states, too long for a run that is kept).

## Not modelled

* The accept loop of `TcpLink::listen` and socket addresses: I/O. `PipeLinkHub`,
  which hands out pairs in tests. `Address::to_bytes` and `from_bytes`, which put
  one byte where the text has a word.
* The link traits are interfaces. Errors and the serde adaptor convert values and
  keep no state. `Peekable` is not compiled.
* A link whose `send` never returns holds up the core; the models let it return.
* Durations, except in `LinkEntry`: which deadline is running matters, how long
  it is does not.
* `ConnectorManager` is not composed with `LinkSetCore`, nor `MessageTransfer`
  with `LinkSetPair`. Each sees the other as a transition or a link that may come
  at any time; together they are out of TLC's reach.
* `Epoch::random` and `Connecting::transition_from(Connected)` are never called.

Met while modelling, of little consequence, and without a run of their own:

* `connected.rs:201` never sets `last_ping` again. After 30 s in Connected every 5 s
  beat sends a ping.
* `LinkSet::recv` that returns `Terminated`, or a LinkSet dropped with its receiver,
  leaves the epoch its clones read. Only `LinkSetReader` clears it.
* A peeked chunk of a `PipeLinkReader` is lost if a second read is dropped while it
  sleeps. Chunks that are buffered are still returned after `Err(Closed)`, while
  an error of `recv` "should indicate that further retries will also fail"
  (`links/link.rs:28`).
* Messages queued while connecting are dropped when EpochMismatch falls back to
  Connecting, although `send` returned `Ok`.
* `AttemptingConnection` is "not sent unless the LinkSet's reconnect feature is
  enabled" (`link_set/controller.rs:120`), but every way into Connecting from
  Disconnected, EpochMismatch and GracePeriod sends it, whatever `auto_connect` and
  the reconnecting timeout are (`connecting.rs:122`, `:143`, `:160`, `:215`), as the doc of
  the inner type says (`link_set/controller.rs:86-91`). `AttemptingTruth` claims only
  what both say: an announced attempt is going on, and a reconnection is announced.
