-------------------------- MODULE MCOonfScheduler --------------------------
(***************************************************************************)
(* OonfScheduler for TLC: a one-shot timer, three sockets, and fewer       *)
(* descriptors than sockets so that a closed one is used again.            *)
(***************************************************************************)
EXTENDS OonfScheduler

CONSTANTS alarm, once

MCInfoOf == [t \in {alarm} |-> once]
MCPeriodic == [i \in {once} |-> FALSE]
MCWants == {{"read"}, {"read", "write"}}
MCJitter == [t \in {alarm} |-> 0]
=============================================================================
