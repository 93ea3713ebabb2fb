---------------------------- MODULE Parts_proofs ----------------------------
(***************************************************************************)
(* What the proofs about the parts say of Parts, the specification that    *)
(* runs them beside each other.                                            *)
(***************************************************************************)
EXTENDS Parts, Data_proofs, Links_proofs

(* A behaviour of the parts is one of each part. *)
LEMMA PartsAreParts == SpecParts => Spec /\ SpecCall /\ T!Spec /\ P!Spec /\ E!Spec
<1>1. InitParts => Init /\ InitCall /\ T!Init /\ P!Init /\ E!Init
  BY DEF InitParts
<1>2. [NextParts]_allvars => [Next]_vars
  BY DEF NextParts, allvars, OnlySlices, OnlyLoops, OnlyTcp, OnlyPipe, OnlyEntry
<1>3. [NextParts]_allvars => [T!Next]_(T!vars)
  BY DEF NextParts, allvars, OnlySlices, OnlyLoops, OnlyTcp, OnlyPipe, OnlyEntry, tcp, T!vars
<1>4. [NextParts]_allvars => [P!Next]_(P!vars)
  BY DEF NextParts, allvars, OnlySlices, OnlyLoops, OnlyTcp, OnlyPipe, OnlyEntry, pipe, P!vars
<1>5. [NextParts]_allvars => [E!Next]_(E!vars)
  BY DEF NextParts, allvars, OnlySlices, OnlyLoops, OnlyTcp, OnlyPipe, OnlyEntry, entry, E!vars
<1>6. [NextParts]_allvars => [NextCall]_callvars
  BY DEF NextParts, allvars, OnlySlices, OnlyLoops, OnlyTcp, OnlyPipe, OnlyEntry, callvars
<1>7. QED
  BY <1>1, <1>2, <1>3, <1>4, <1>5, <1>6, PTL
  DEF SpecParts, Spec, SpecCall, T!Spec, P!Spec, E!Spec

(* The parts of the system keep their promises when they run beside each   *)
(* other, for messages and chunks of any size and any number of them.      *)
THEOREM PartsKeepTheirPromises ==
  SpecParts => /\ [](SlicesSeparated /\ NothingForgotten /\ ExactWithoutRightGap)
               /\ []ClosedFormsAgree
               /\ [](ReadIsPrefix /\ ReadOnceInOrder /\ SilentIsDropped)
               /\ OneLateIsForgiven
<1>1. SpecParts => [](SlicesSeparated /\ NothingForgotten /\ ExactWithoutRightGap)
  BY PartsAreParts, RangesStaySeparated, NoByteForgotten, AddSliceIsExact, PTL
<1>2. SpecParts => [](ReadIsPrefix /\ ReadOnceInOrder /\ SilentIsDropped)
  BY PartsAreParts, TcpReadsAPrefix, PipeReadsOnceInOrder, SilentLinkIsDropped, PTL
<1>3. SpecParts => OneLateIsForgiven
  BY PartsAreParts, OneLateAnswerIsForgiven, PTL
<1>4. SpecParts => []ClosedFormsAgree
  BY PartsAreParts, LoopsComputeClosedForms, PTL
<1>5. QED
  BY <1>1, <1>2, <1>3, <1>4, PTL

(* WireFormat, as the run checks it: whichever of the 64-bit numbers and   *)
(* of the payloads the frames have in their fields.                        *)
THEOREM FramesAreReadBack == SpecParts => []FramesReadBack
<1> DEFINE Inv == frame \in Frame(U64, SliceData)
<1>1. InitParts => Inv
  <2>1. Frame(Numbers, Payloads) \subseteq Frame(U64, SliceData)
    BY FieldsAssumption, FrameOfMore
  <2>2. [kind |-> "Ping"] \in Frame(U64, SliceData)
    BY PingIsFrame
  <2>3. QED
    BY <2>1, <2>2 DEF InitParts
<1>2. Inv /\ [NextParts]_allvars => Inv'
  <2>1. [NextParts]_allvars => frame' = frame
    BY DEF NextParts, allvars, OnlySlices, OnlyLoops, OnlyTcp, OnlyPipe, OnlyEntry, values
  <2>2. QED
    BY <2>1
<1>3. Inv => FramesReadBack
  <2>1. \A max_size \in (OVERHEAD + 1)..(OVERHEAD + 4) : max_size \in Nat
    BY DEF OVERHEAD
  <2>2. QED
    BY <2>1, FrameProperties, Zenon DEF FramesReadBack, Fits
<1>4. QED
  BY <1>1, <1>2, <1>3, PTL DEF SpecParts

(* Address, as the run checks it. *)
THEOREM AddressIsReadBack == SpecParts => []AddressRoundTrip
<1> DEFINE Inv == part = "address" => address \in A!Addresses
<1>1. InitParts => Inv
  BY DEF InitParts
<1>2. Inv /\ [NextParts]_allvars => Inv'
  BY DEF NextParts, allvars, OnlySlices, OnlyLoops, OnlyTcp, OnlyPipe, OnlyEntry, values
<1>3. Inv => AddressRoundTrip
  BY AddressesReadBack DEF AddressRoundTrip
<1>4. QED
  BY <1>1, <1>2, <1>3, PTL DEF SpecParts

=============================================================================
