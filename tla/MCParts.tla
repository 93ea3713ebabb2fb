------------------------------- MODULE MCParts -------------------------------
(* Parts on a small instance. *)
EXTENDS Parts

MCPayloads == {<<1>>, <<0, 3>>}
MCDecodings == [word \in {"", "AQ=="} |-> IF word = "" THEN <<>> ELSE <<1>>]

=============================================================================
