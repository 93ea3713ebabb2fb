------------------------------- MODULE Epochs -------------------------------
(***************************************************************************)
(* src/epoch.rs.  An Epoch is a non-zero u64; an Option<Epoch> is written  *)
(* as opt_epoch_to_int puts it on the wire, with None = 0.                 *)
(***************************************************************************)
EXTENDS Naturals

CONSTANT MaxEpoch   \* u64::MAX

ASSUME EpochAssumption == MaxEpoch \in Nat \ {0}

None == 0
ONE == 1

Epoch == 1..MaxEpoch
OptEpoch == 0..MaxEpoch

(* Mutant: the increment does not saturate. *)
IncrementPast(e) == e + 1

(* Epoch::increment: saturating_add(1) *)
Increment(e) == IF e = MaxEpoch THEN MaxEpoch ELSE e + 1

(* opt_epoch_increment *)
OptIncrement(e) == IF e = None THEN None ELSE Increment(e)

(* compare_epochs: None is less than everything, another None included.   *)
Compare(a, b) ==
  IF a = None THEN "Less"
  ELSE IF b = None \/ a > b THEN "Greater"
  ELSE IF a = b THEN "Equal"
  ELSE "Less"

=============================================================================
