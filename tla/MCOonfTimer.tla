---------------------------- MODULE MCOonfTimer ----------------------------
(***************************************************************************)
(* OonfTimer for TLC: two timers of a periodic class, one of them with     *)
(* jitter.  A timer started with the interval 0 is a one-shot timer.       *)
(***************************************************************************)
EXTENDS OonfTimer, TLC

CONSTANTS tick, poll, rounds

MCInfoOf == [t \in {tick, poll} |-> rounds]
MCPeriodic == rounds :> TRUE
MCJitter == (tick :> 0) @@ (poll :> 50)
=============================================================================
