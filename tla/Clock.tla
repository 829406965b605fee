------------------------------- MODULE Clock -------------------------------
(***************************************************************************)
(* Simulated time (pkg/clock/clock.go), in seconds, as what the modules    *)
(* that share it need of it: the clock advances by the tick of the         *)
(* configuration (config.go:32), 10 by default (kubesim.go:272).  With a   *)
(* tick that is not positive time would not pass.                          *)
(***************************************************************************)
EXTENDS Integers

CONSTANT Tick       \* the clock advances by it

ASSUME TickAssumption == Tick \in Nat \ {0}
=============================================================================
