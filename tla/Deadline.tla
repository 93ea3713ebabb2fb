------------------------------ MODULE Deadline ------------------------------
(***************************************************************************)
(* src/deadline.rs: the one timer of the core.  Durations are abstracted   *)
(* to the name of the state that asked for them: `deadline` names whose    *)
(* interval is running, `repeat` whose interval will be armed next.        *)
(***************************************************************************)

Unset == "unset"

(* new, clear *)
Clear == [deadline |-> Unset, repeat |-> Unset]

(* modify_deadline_from_now *)
ModifyDeadline(timer, owner) == [deadline |-> owner, repeat |-> timer.repeat]

(* modify_repeat: a deadline that is already running is left running. *)
ModifyRepeat(timer, owner) ==
  [deadline |-> IF timer.deadline = Unset THEN owner ELSE timer.deadline,
   repeat   |-> owner]

(* clear_repeat *)
ClearRepeat(timer) == [deadline |-> timer.deadline, repeat |-> Unset]

(* has_deadline *)
HasDeadline(timer) == timer.deadline # Unset

(* Mutant: the repeat interval is not armed again. *)
ElapsedOnce(timer) == [deadline |-> Unset, repeat |-> timer.repeat]

(* poll, when the deadline has passed: arm the repeat interval, if any. *)
Elapsed(timer) == [deadline |-> timer.repeat, repeat |-> timer.repeat]

=============================================================================
