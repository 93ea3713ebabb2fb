----------------------------- MODULE WireFormat -----------------------------
(***************************************************************************)
(* src/protocol.rs: LinkProtocol as bytes.  An integer has 8 bytes, the    *)
(* first the most significant; a byte has Base values (256 in the code).   *)
(* Some(e) is <<e>> and None is <<>>.                                      *)
(***************************************************************************)
EXTENDS Naturals, Sequences, FiniteSetsExt

CONSTANT Base  \* number of values of a byte

(* A byte tells the five variants apart. *)
ASSUME BaseAssumption == Base \in Nat /\ Base >= 5

IntBytes == 8

Byte == 0..(Base - 1)

(* 2^64, and the numbers that 8 bytes hold. *)
Limit == Base * (Base * (Base * (Base * (Base * (Base * (Base * Base))))))
U64 == 0..(Limit - 1)

(* LinkEntry::OVERHEAD *)
OVERHEAD == 56

OptEpoch(numbers) == {<<>>} \cup {<<e>> : e \in numbers \ {0}}

(* LinkProtocol, with these numbers in its fields and these bytes in a slice. *)
Frame(numbers, payloads) ==
  [kind : {"Reset"}, epoch : OptEpoch(numbers), request : BOOLEAN]
    \cup [kind : {"Ack"}, epoch : numbers, seq : numbers, last_index : numbers]
    \cup [kind : {"MsgSlice"}, epoch : numbers, seq : numbers, seq_len : numbers,
          first_index : numbers, data : payloads]
    \cup [kind : {"Ping", "Pong"}]

(* What the data of a slice may be: deserialize accepts none without bytes. *)
SliceData == {data \in Seq(Byte) : Len(data) \in U64 \ {0}}

Error(reason) == [kind |-> "Err", reason |-> reason]

-----------------------------------------------------------------------------
(* opt_epoch_to_int and Epoch::from_int *)
OptEpochToInt(epoch) == IF epoch = <<>> THEN 0 ELSE epoch[1]
FromInt(value) == IF value = 0 THEN <<>> ELSE <<value>>

(* u64::to_be_bytes: byte i holds what is left of n above the bytes behind *)
(* it; and u64::from_be_bytes.                                             *)
ToBytes(n) ==
  LET left[k \in 0..IntBytes] == IF k = 0 THEN n ELSE left[k - 1] \div Base
  IN  [i \in 1..IntBytes |-> left[IntBytes - i] % Base]

FromBytes(bytes) ==
  LET read[k \in 0..IntBytes] == IF k = 0 THEN 0 ELSE Base * read[k - 1] + bytes[k]
  IN  read[IntBytes]

(* LinkProtocol::serialize *)
Serialize(p) ==
  CASE p.kind = "Reset" ->
         <<0>> \o ToBytes(OptEpochToInt(p.epoch)) \o <<IF p.request THEN 1 ELSE 0>>
    [] p.kind = "Ack" -> <<1>> \o ToBytes(p.epoch) \o ToBytes(p.seq) \o ToBytes(p.last_index)
    [] p.kind = "MsgSlice" ->
         <<2>> \o ToBytes(p.epoch) \o ToBytes(p.seq) \o ToBytes(p.seq_len)
           \o ToBytes(p.first_index) \o ToBytes(Len(p.data)) \o p.data
    [] p.kind = "Ping" -> <<3>>
    [] p.kind = "Pong" -> <<4>>

(* The k-th integer behind the variant byte, and what follows n of them. *)
Field(bytes, k) == FromBytes(SubSeq(bytes, 2 + (k - 1) * IntBytes, 1 + k * IntBytes))
Behind(bytes, n) == SubSeq(bytes, 2 + n * IntBytes, Len(bytes))
Holds(bytes, n) == Len(bytes) >= 1 + n * IntBytes

(* Mutant: take() stops at the end of the bytes. *)
DeserializeMsgSliceShort(bytes) ==
  IF ~Holds(bytes, 5) THEN Error("EOF")
  ELSE LET len == Field(bytes, 5)
           rest == Behind(bytes, 5)
       IN  IF len = 0 THEN Error("InvalidLen")
           ELSE [kind |-> "MsgSlice", epoch |-> Field(bytes, 1), seq |-> Field(bytes, 2),
                 seq_len |-> Field(bytes, 3), first_index |-> Field(bytes, 4),
                 data |-> SubSeq(rest, 1, Min({len, Len(rest)}))]

DeserializeMsgSlice(bytes) ==
  IF ~Holds(bytes, 5) THEN Error("EOF")
  ELSE LET len == Field(bytes, 5)
           rest == Behind(bytes, 5)
       IN  IF len = 0 THEN Error("InvalidLen")
           ELSE IF Len(rest) < len THEN Error("EOF")
           ELSE [kind |-> "MsgSlice", epoch |-> Field(bytes, 1), seq |-> Field(bytes, 2),
                 seq_len |-> Field(bytes, 3), first_index |-> Field(bytes, 4),
                 data |-> SubSeq(rest, 1, len)]

(* LinkProtocol::deserialize; bytes behind the frame are left alone. *)
Deserialize(bytes) ==
  IF bytes = <<>> THEN Error("EOF")
  ELSE CASE bytes[1] = 0 ->
              IF ~Holds(bytes, 1) \/ Behind(bytes, 1) = <<>> THEN Error("EOF")
              ELSE [kind |-> "Reset", epoch |-> FromInt(Field(bytes, 1)),
                    request |-> Behind(bytes, 1)[1] # 0]
         [] bytes[1] = 1 ->
              IF ~Holds(bytes, 3) THEN Error("EOF")
              ELSE [kind |-> "Ack", epoch |-> Field(bytes, 1), seq |-> Field(bytes, 2),
                    last_index |-> Field(bytes, 3)]
         [] bytes[1] = 2 -> DeserializeMsgSlice(bytes)
         [] bytes[1] = 3 -> [kind |-> "Ping"]
         [] bytes[1] = 4 -> [kind |-> "Pong"]
         [] OTHER -> Error("Invalid")

-----------------------------------------------------------------------------
(* A frame that a link delivers whole is the frame that was sent, whatever *)
(* follows it.                                                             *)
RoundTrips(p) == Deserialize(Serialize(p)) = p /\ Deserialize(Serialize(p) \o <<1>>) = p

(* A frame of which a link delivers only the beginning is an error in each *)
(* case, never another frame.                                              *)
FailsWhenCut(p) ==
  LET bytes == Serialize(p)
  IN  \A n \in 0..(Len(bytes) - 1) : Deserialize(SubSeq(bytes, 1, n)).kind = "Err"

(* A slice cut for a link (LinkEntry::max_size, the link's less OVERHEAD)  *)
(* fits that link once it is a frame, for the smallest link that wrap_link *)
(* accepts too.                                                            *)
Fits(p) ==
  p.kind = "MsgSlice" =>
    \A max_size \in (OVERHEAD + 1)..(OVERHEAD + 4) :
      Len(p.data) <= max_size - OVERHEAD => Len(Serialize(p)) <= max_size

=============================================================================
