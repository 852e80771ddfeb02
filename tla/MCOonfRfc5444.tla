----------------------------- MODULE MCOonfRfc5444 -----------------------------
(* An instance of OonfRfc5444: the interface goes down and comes back with    *)
(* one other address and without the second one, or the other way round.      *)
EXTENDS OonfRfc5444

Both == {"v4", "v6"}
InterfaceStates ==
  {[up |-> TRUE, addr |-> [f \in Both |-> IF f = "v4" THEN 1 ELSE 3]],
   [up |-> FALSE, addr |-> [f \in Both |-> IF f = "v4" THEN 2 ELSE 0]]}
MulticastChoices == {{}, {"v4"}, {"v4", "v6"}}
=============================================================================
