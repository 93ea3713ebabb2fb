-------------------------------- MODULE Parts --------------------------------
(***************************************************************************)
(* The parts that share no state with each other, checked in one run: the  *)
(* reassembly of one message (Reassembly), one call of the slice manager   *)
(* in its loop (SliceManagerLoops), a TcpLink, a PipeLink and the latency  *)
(* of a LinkEntry.  `part` is the one that runs; the others stay as they   *)
(* are.  WireFormat and Address are pure functions, tried on every frame   *)
(* and every address of an initial state.                                  *)
(***************************************************************************)
EXTENDS SliceManagerLoops, Links, WireFormat

CONSTANTS
  Numbers,  \* what the fields of a frame are tried with
  Payloads  \* and its data

VARIABLES part, frame, address

ASSUME FieldsAssumption == Numbers \subseteq U64 /\ Payloads \subseteq SliceData

values == <<frame, address>>
allvars == <<part, vars, callvars, tcp, pipe, entry, values>>

(* An acknowledgement of index 0, which returns at once. *)
NoCall == [fn |-> "remove", slices |-> FromVec(Size), start |-> 0, end |-> 0, size |-> 0]

InitParts ==
  /\ part \in {"slices", "loops", "tcp", "pipe", "entry", "wire", "address"}
  /\ InitCall /\ (part # "loops" => call = NoCall)
  /\ Init /\ T!Init /\ P!Init /\ E!Init
  /\ part # "pipe" => latency = FALSE /\ expiration = "unset"
  /\ part # "entry" => state = "Connected" /\ ping = <<0>>
  /\ frame \in IF part = "wire" THEN Frame(Numbers, Payloads) ELSE {[kind |-> "Ping"]}
  /\ address \in IF part = "address" THEN A!Addresses ELSE {A!AddressParseError}

OnlySlices == part = "slices" /\ UNCHANGED <<part, callvars, tcp, pipe, entry, values>>
OnlyLoops == part = "loops" /\ UNCHANGED <<part, vars, tcp, pipe, entry, values>>
OnlyTcp == part = "tcp" /\ UNCHANGED <<part, vars, callvars, pipe, entry, values>>
OnlyPipe == part = "pipe" /\ UNCHANGED <<part, vars, callvars, tcp, entry, values>>
OnlyEntry == part = "entry" /\ UNCHANGED <<part, vars, callvars, tcp, pipe, values>>

NextParts ==
  \/ OnlySlices /\ Next
  \/ OnlyLoops /\ NextCall
  \/ OnlyTcp /\ T!Next
  \/ OnlyPipe /\ P!Next
  \/ OnlyEntry /\ E!Next

SpecParts ==
  /\ InitParts /\ [][NextParts]_allvars
  /\ WF_allvars(T!ReaderTask /\ OnlyTcp)
  /\ WF_allvars(T!Forward /\ OnlyTcp)
  /\ WF_allvars(T!ReadChunk /\ OnlyTcp)
  /\ WF_allvars(P!StartRead /\ OnlyPipe)
  /\ SF_allvars(P!Step /\ OnlyPipe)

-----------------------------------------------------------------------------
(* WireFormat: a frame is read back as it was sent, fails if it is cut     *)
(* short, and a slice cut for a link fits it as a frame.                   *)
FramesReadBack == RoundTrips(frame) /\ FailsWhenCut(frame) /\ Fits(frame)

(* Address: Display and FromStr are inverse. *)
AddressRoundTrip == part = "address" => A!RoundTrips(address)

=============================================================================
