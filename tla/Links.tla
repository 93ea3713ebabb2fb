-------------------------------- MODULE Links --------------------------------
(***************************************************************************)
(* The parts below the core that share no state with each other: a TcpLink *)
(* and a PipeLink, the latency of a LinkEntry, and the text of an Address, *)
(* with what each of them promises.                                        *)
(***************************************************************************)
EXTENDS Naturals, Sequences

CONSTANTS Lengths, MaxChunks, ReadSize, ChanSize, MaxSends, Latencies, Moments, Delays, Leftovers,
  Words, Decodings

ASSUME LengthsAssumption == Lengths \subseteq Nat
ASSUME TimesAssumption ==
  Latencies \subseteq Nat /\ Moments \subseteq Nat /\ Delays \subseteq Nat /\ Leftovers \subseteq Nat

VARIABLES
  sent, stream, broken, read_len, read_buffer, recving, mode, pending, chan, reader, received,
  is_closed, send_closed,
  latency, sends, tx, rx, closed, peeked, read, held, expiration, cancel_rx, got,
  recent, ping, listed, state, due, left, silent

T == INSTANCE TcpLink
P == INSTANCE PipeLink
E == INSTANCE LinkEntry
A == INSTANCE Address

tcp == <<sent, stream, broken, read_len, read_buffer, recving, mode, pending, chan, reader,
         received, is_closed, send_closed>>
pipe == <<latency, sends, tx, rx, closed, peeked, read, held, expiration, cancel_rx, got>>
entry == <<recent, ping, listed, state, due, left, silent>>

-----------------------------------------------------------------------------
(* TcpLink: the chunks read are the first ones sent, with their boundaries. *)
ReadIsPrefix == T!ReadIsPrefix

(* TcpLink: a chunk is read in the end, or the link is found closed. *)
ReadOrClosed == T!ReadOrClosed

(* PipeLink: chunks are read in order and at most once. *)
ReadOnceInOrder == P!ReadOnceInOrder

(* PipeLink: a link that is to be closed is closed in the end. *)
CloseIsNoticed == P!CloseIsNoticed

(* LinkEntry: a silent peer costs a link its place. *)
SilentIsDropped == E!SilentIsDropped

(* LinkEntry: one late answer does not. *)
OneLateIsForgiven == [][E!OneLateIsForgiven]_entry

=============================================================================
