----------------------------- MODULE OonfLayer2 -----------------------------
(***************************************************************************)
(* The layer-2 database (subsystems/oonf_layer2.c): networks, their        *)
(* neighbors, and for each of them values that are marked with the number  *)
(* of the plugin that set them, the origin.                                *)
(*                                                                         *)
(* Only the origins are modelled, a value that is not set has none.  The   *)
(* operators work on one object and yield the object they leave behind,    *)
(* None if they removed it.  The events for listeners are left out.        *)
(***************************************************************************)
EXTENDS Integers

CONSTANTS
  Macs,        \* the addresses of networks and of neighbors
  Origins,     \* what oonf_layer2_register_origin() has handed out
  Unset,       \* the origin 0, of a value that is not set
  None,        \* no object
  NetCount,    \* OONF_LAYER2_NET_COUNT
  NeighCount   \* OONF_LAYER2_NEIGH_COUNT

ASSUME Layer2Assumption ==
  /\ NetCount \in Nat \ {0}
  /\ NeighCount \in Nat
  /\ NetCount <= NeighCount
  /\ Unset \notin Origins

NetIdx == 0..(NetCount - 1)
NeighIdx == 0..(NeighCount - 1)

VARIABLE db   \* oonf_layer2_net_tree

NeighData == [NeighIdx -> Origins \cup {Unset}]

NetType == [if_type   : {"undefined", "wireless", "ethernet"},
            data      : [NetIdx -> Origins \cup {Unset}],
            neighdata : NeighData,
            neighbors : [Macs -> NeighData \cup {None}]]

ASSUME NoneAssumption == None \notin NeighData /\ None \notin NetType

NoNeighData == [i \in NeighIdx |-> Unset]

NewNet == [if_type   |-> "undefined",
           data      |-> [i \in NetIdx |-> Unset],
           neighdata |-> NoNeighData,
           neighbors |-> [x \in Macs |-> None]]

\* The object with its values of origin o taken away (oonf_layer2_reset_value)
Without(values, o) ==
  [i \in DOMAIN values |-> IF values[i] = o THEN Unset ELSE values[i]]

-----------------------------------------------------------------------------
oonf_layer2_net_add(n) == IF db[n] = None THEN NewNet ELSE db[n]

oonf_layer2_neigh_add(net, x) ==
  IF net.neighbors[x] = None THEN NoNeighData ELSE net.neighbors[x]

\* A neighbor without values is removed.  The loop ends at the number of
\* values of a network, though a neighbor has more of them.
oonf_layer2_neigh_commit(neigh) ==
  IF \E i \in NetIdx : neigh[i] # Unset THEN neigh ELSE None

oonf_layer2_neigh_remove(neigh, o) == oonf_layer2_neigh_commit(Without(neigh, o))

\* _commit(): neither the neighbors' default values nor the IP defaults count.
oonf_layer2_net_commit(net) ==
  IF \/ \E x \in Macs : net.neighbors[x] # None
     \/ \E i \in NetIdx : net.data[i] # Unset
    THEN net ELSE None

oonf_layer2_net_remove(net, o) ==
  oonf_layer2_net_commit(
    [net EXCEPT
       !.neighbors = [x \in Macs |-> IF @[x] = None THEN None
                                     ELSE oonf_layer2_neigh_remove(@[x], o)],
       !.data = Without(@, o)])

\* The database that oonf_layer2_cleanup_origin() leaves behind.
oonf_layer2_cleanup_origin(nets, o) ==
  [n \in Macs |-> IF nets[n] = None THEN None ELSE oonf_layer2_net_remove(nets[n], o)]
=============================================================================
