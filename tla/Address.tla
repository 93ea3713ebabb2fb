------------------------------ MODULE Address -------------------------------
(***************************************************************************)
(* src/links/address.rs: an Address and its text.  A text is the sequence  *)
(* of the words between its colons, so that it has one word more than      *)
(* colons; a text without a colon is one word.                             *)
(***************************************************************************)
EXTENDS Naturals, Sequences

CONSTANTS
  Words,     \* the words to try, "txt", "b64" and the encodings among them
  Decodings  \* base64: the bytes of each word that is an encoding

Encoding(bytes) == CHOOSE word \in DOMAIN Decodings : Decodings[word] = bytes

(* A string may hold colons, a scheme should not ("scheme:addr"). *)
Addresses ==
  [scheme : Words, repr : {"String"}, addr : UNION {[1..n -> Words] : n \in 1..3}]
    \cup [scheme : Words, repr : {"Bytes"}, addr : {Decodings[word] : word \in DOMAIN Decodings}]

String(scheme, text) == [scheme |-> scheme, repr |-> "String", addr |-> text]
Bytes(scheme, bytes) == [scheme |-> scheme, repr |-> "Bytes", addr |-> bytes]
AddressParseError == [repr |-> "Err"]

(* Mutant: the representation of a string is left out. *)
DisplayPlain(a) ==
  IF a.repr = "String" THEN <<a.scheme>> \o a.addr
  ELSE <<a.scheme, "b64", Encoding(a.addr)>>

(* Display for Address *)
Display(a) ==
  IF a.repr = "String" THEN <<a.scheme, "txt">> \o a.addr
  ELSE <<a.scheme, "b64", Encoding(a.addr)>>

(* FromStr for Address *)
FromStr(text) ==
  LET remainder == Tail(text)
      addr == Tail(remainder)
  IN  IF Len(text) = 1 THEN AddressParseError
      ELSE IF Len(remainder) = 1 THEN String(text[1], remainder)
      ELSE CASE remainder[1] = "txt" -> String(text[1], addr)
             [] remainder[1] = "b64" ->
                  IF Len(addr) = 1 /\ addr[1] \in DOMAIN Decodings
                  THEN Bytes(text[1], Decodings[addr[1]])
                  ELSE AddressParseError
             [] OTHER -> String(text[1], remainder)

-----------------------------------------------------------------------------
(* An address printed and parsed again is the same address, of the same    *)
(* representation, also when its string has colons or itself begins with   *)
(* the name of a representation.                                           *)
RoundTrips(a) == FromStr(Display(a)) = a

=============================================================================
