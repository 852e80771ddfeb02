---------------------------- MODULE Layer2Proofs ----------------------------
(***************************************************************************)
(* Proofs about the layer-2 database and the plugins that fill it, for     *)
(* every set of addresses and every number of values.                      *)
(***************************************************************************)
EXTENDS Layer2Plugins, TLAPS

-----------------------------------------------------------------------------
(* The operators of the database *)

\* What a network or a neighbor keeps of its values has the same type.
LEMMA WithoutType ==
  ASSUME NEW o, NEW I, NEW v \in [I -> Origins \cup {Unset}]
  PROVE  Without(v, o) \in [I -> Origins \cup {Unset}]
BY DEF Without

\* A commit leaves the neighbor alone or removes it, and a second commit finds
\* nothing more to remove.
LEMMA NeighCommit ==
  ASSUME NEW d \in NeighData
  PROVE  /\ oonf_layer2_neigh_commit(d) \in {d, None}
         /\ oonf_layer2_neigh_commit(d) # None =>
              oonf_layer2_neigh_commit(oonf_layer2_neigh_commit(d)) # None
BY NoneAssumption DEF oonf_layer2_neigh_commit

\* The neighbors of the network after oonf_layer2_net_remove(net, o)
Kept(net, o) ==
  [x \in Macs |-> IF net.neighbors[x] = None THEN None
                  ELSE oonf_layer2_neigh_remove(net.neighbors[x], o)]

\* Each of them is gone, or it has lost the values of o and would survive
\* another commit.
LEMMA KeptNeighbors ==
  ASSUME NEW net \in NetType, NEW o, NEW x \in Macs, Kept(net, o)[x] # None
  PROVE  /\ net.neighbors[x] \in NeighData
         /\ Kept(net, o)[x] = Without(net.neighbors[x], o)
         /\ Kept(net, o)[x] \in NeighData
         /\ oonf_layer2_neigh_commit(Kept(net, o)[x]) # None
<1>1. net.neighbors[x] \in NeighData
  BY DEF Kept, NetType
<1>2. Without(net.neighbors[x], o) \in NeighData
  BY <1>1, WithoutType DEF NeighData
<1>3. Kept(net, o)[x] = oonf_layer2_neigh_commit(Without(net.neighbors[x], o))
  BY DEF Kept, oonf_layer2_neigh_remove
<1> QED BY <1>1, <1>2, <1>3, NeighCommit

\* oonf_layer2_net_remove() removes the network, or leaves it with the kept
\* neighbors and such that another commit would not remove it.
LEMMA NetRemove ==
  ASSUME NEW net \in NetType, NEW o, oonf_layer2_net_remove(net, o) # None
  PROVE  /\ oonf_layer2_net_remove(net, o) \in NetType
         /\ oonf_layer2_net_remove(net, o).neighbors = Kept(net, o)
         /\ oonf_layer2_net_remove(net, o).data = Without(net.data, o)
         /\ oonf_layer2_net_commit(oonf_layer2_net_remove(net, o)) # None
<1> DEFINE rest == [net EXCEPT !.neighbors = Kept(net, o), !.data = Without(@, o)]
<1>1. Without(net.data, o) \in [NetIdx -> Origins \cup {Unset}]
  BY WithoutType DEF NetType
<1>2. Kept(net, o) \in [Macs -> NeighData \cup {None}]
  <2>1. \A x \in Macs : Kept(net, o)[x] \in NeighData \cup {None}
    BY KeptNeighbors
  <2> QED BY <2>1 DEF Kept
<1>3. rest \in NetType /\ rest.neighbors = Kept(net, o) /\ rest.data = Without(net.data, o)
  BY <1>1, <1>2 DEF NetType
<1>4. oonf_layer2_net_remove(net, o) = oonf_layer2_net_commit(rest)
  BY DEF oonf_layer2_net_remove, Kept, NetType
<1>5. oonf_layer2_net_commit(rest) \in {rest, None}
  BY DEF oonf_layer2_net_commit
<1> HIDE DEF rest
<1> QED BY <1>3, <1>4, <1>5

\* A database and its values
Nets == [Macs -> NetType \cup {None}]
AllFrom(nets, S) == \A n \in Macs : nets[n] # None => OnlyFrom(nets[n], S)

\* Removing the values of o from a network leaves none of o behind.
LEMMA NetRemoveOnlyFrom ==
  ASSUME NEW net \in NetType, NEW o, NEW S, OnlyFrom(net, S), o # Unset,
         oonf_layer2_net_remove(net, o) # None
  PROVE  OnlyFrom(oonf_layer2_net_remove(net, o), S \ {o})
<1> DEFINE r == oonf_layer2_net_remove(net, o)
<1>1. r.data = Without(net.data, o) /\ r.neighbors = Kept(net, o)
  BY NetRemove
<1>2. \A i \in NetIdx : r.data[i] \in (S \ {o}) \cup {Unset}
  <2>1. net.data \in [NetIdx -> Origins \cup {Unset}]
    BY DEF NetType
  <2> QED BY <1>1, <2>1 DEF OnlyFrom, Without
<1>3. ASSUME NEW x \in Macs, r.neighbors[x] # None, NEW i \in NeighIdx
      PROVE  r.neighbors[x][i] \in (S \ {o}) \cup {Unset}
  <2>1. /\ net.neighbors[x] \in NeighData
        /\ r.neighbors[x] = Without(net.neighbors[x], o)
    BY <1>1, <1>3, KeptNeighbors
  <2>2. net.neighbors[x][i] \in S \cup {Unset}
    BY <2>1, NoneAssumption DEF OnlyFrom
  <2> QED BY <2>1, <2>2 DEF Without, NeighData
<1> HIDE DEF r
<1>4. OnlyFrom(r, S \ {o})
  BY <1>2, <1>3 DEF OnlyFrom
<1> QED BY <1>4 DEF r

\* oonf_layer2_cleanup_origin() leaves no value of o in any network or
\* neighbor, and no object that a commit would remove.
LEMMA Cleanup ==
  ASSUME NEW nets \in Nets, NEW o, o # Unset, NEW S, AllFrom(nets, S)
  PROVE  /\ oonf_layer2_cleanup_origin(nets, o) \in Nets
         /\ AllFrom(oonf_layer2_cleanup_origin(nets, o), S \ {o})
         /\ ~CommitRemoves(oonf_layer2_cleanup_origin(nets, o))
<1> DEFINE clean == oonf_layer2_cleanup_origin(nets, o)
<1>1. ASSUME NEW n \in Macs, clean[n] # None
      PROVE  /\ nets[n] \in NetType /\ nets[n] # None
             /\ clean[n] = oonf_layer2_net_remove(nets[n], o)
  BY <1>1 DEF oonf_layer2_cleanup_origin, Nets
<1>2. \A n \in Macs : clean[n] # None => clean[n] \in NetType
  BY <1>1, NetRemove
<1>3. clean \in Nets
  BY <1>2 DEF Nets, oonf_layer2_cleanup_origin
<1>4. AllFrom(clean, S \ {o})
  <2> SUFFICES ASSUME NEW n \in Macs, clean[n] # None
               PROVE  OnlyFrom(clean[n], S \ {o})
    BY DEF AllFrom
  <2> QED BY <1>1, NetRemoveOnlyFrom DEF AllFrom
<1>5. ~CommitRemoves(clean)
  <2>1. ASSUME NEW n \in Macs, clean[n] # None
        PROVE  oonf_layer2_net_commit(clean[n]) # None
    BY <1>1, <2>1, NetRemove
  <2>2. ASSUME NEW n \in Macs, clean[n] # None, NEW x \in Macs,
               clean[n].neighbors[x] # None
        PROVE  oonf_layer2_neigh_commit(clean[n].neighbors[x]) # None
    BY <1>1, <2>2, NetRemove, KeptNeighbors
  <2> HIDE DEF clean
  <2> QED BY <2>1, <2>2 DEF CommitRemoves
<1> QED BY <1>3, <1>4, <1>5

-----------------------------------------------------------------------------
(* The plugins *)

\* The two origins of link_config differ, and all origins differ from Unset.
LEMMA OriginFacts ==
  ASSUME TypeOK
  PROVE  /\ current \in Origins /\ old \in Origins /\ current # old
         /\ Unset \notin Origins
         /\ EthOrigin \in Origins /\ NlOrigin \in Origins
         /\ EthOrigin \notin {current, old} /\ NlOrigin \notin {current, old}
         /\ NlOrigin # EthOrigin
BY PluginsAssumption, Layer2Assumption DEF TypeOK

\* oonf_layer2_net_add() yields a network with no other values than before.
LEMMA NetAdd ==
  ASSUME TypeOK, NEW n \in Macs, NEW S, AllFrom(db, S)
  PROVE  oonf_layer2_net_add(n) \in NetType /\ OnlyFrom(oonf_layer2_net_add(n), S)
<1>1. CASE db[n] = None
  <2>1. NewNet \in NetType
    BY DEF NewNet, NetType, NoNeighData, NeighData
  <2>2. OnlyFrom(NewNet, S)
    BY DEF OnlyFrom, NewNet
  <2> QED BY <1>1, <2>1, <2>2 DEF oonf_layer2_net_add
<1>2. CASE db[n] # None
  BY <1>2 DEF oonf_layer2_net_add, TypeOK, AllFrom
<1> QED BY <1>1, <1>2

\* The configured network holds values of earlier origins and of the current
\* one of link_config.
LEMMA ParsedFrom ==
  ASSUME TypeOK, NEW S, AllFrom(db, S),
         NEW n \in Macs, NEW wide, NEW links
  PROVE  /\ parse_strarray(n, wide, links) \in NetType
         /\ OnlyFrom(parse_strarray(n, wide, links), S \cup {current})
<1> DEFINE net == oonf_layer2_net_add(n)
           new == parse_strarray(n, wide, links)
<1>1. net \in NetType /\ OnlyFrom(net, S)
  BY NetAdd
<1>2. \A v \in Origins \cup {Unset} :
        /\ set_l2value(v) \in Origins \cup {Unset}
        /\ v \in S \cup {Unset} => set_l2value(v) \in S \cup {current} \cup {Unset}
  BY OriginFacts DEF set_l2value
<1> DEFINE neigh(x) == oonf_layer2_neigh_add(net, x)
           newNeigh(x) == IF links[x] = {} THEN net.neighbors[x]
                          ELSE [i \in NeighIdx |-> IF i \in links[x] THEN set_l2value(neigh(x)[i])
                                                   ELSE neigh(x)[i]]
           newDefaults == [i \in NeighIdx |-> IF i \in wide THEN set_l2value(net.neighdata[i])
                                              ELSE net.neighdata[i]]
<1>3. new = [net EXCEPT !.neighdata = newDefaults, !.neighbors = [x \in Macs |-> newNeigh(x)]]
  BY DEF parse_strarray
<1>4. newDefaults \in NeighData
  BY <1>1, <1>2 DEF NetType, NeighData
<1>5. ASSUME NEW x \in Macs
      PROVE  /\ neigh(x) \in NeighData
             /\ \A i \in NeighIdx : neigh(x)[i] \in S \cup {Unset}
  BY <1>1, NoneAssumption DEF oonf_layer2_neigh_add, NoNeighData, NetType, NeighData, OnlyFrom
<1>6. ASSUME NEW x \in Macs
      PROVE  /\ newNeigh(x) \in NeighData \cup {None}
             /\ newNeigh(x) # None =>
                  \A i \in NeighIdx : newNeigh(x)[i] \in S \cup {current} \cup {Unset}
  <2>1. CASE links[x] = {}
    BY <1>1, <2>1 DEF NetType, OnlyFrom
  <2>2. CASE links[x] # {}
    <3> DEFINE d == [i \in NeighIdx |-> IF i \in links[x] THEN set_l2value(neigh(x)[i])
                                        ELSE neigh(x)[i]]
    <3>1. \A i \in NeighIdx : /\ d[i] \in Origins \cup {Unset}
                              /\ d[i] \in S \cup {current} \cup {Unset}
      BY <1>2, <1>5 DEF NeighData
    <3>2. d \in NeighData
      BY <3>1 DEF NeighData
    <3>3. newNeigh(x) = d
      BY <2>2
    <3> HIDE DEF d, newNeigh
    <3> QED BY <3>1, <3>2, <3>3
  <2> QED BY <2>1, <2>2
<1> HIDE DEF net, new, newNeigh, newDefaults
<1>7. /\ new \in NetType
      /\ new.data = net.data
      /\ new.neighbors = [x \in Macs |-> newNeigh(x)]
  BY <1>1, <1>3, <1>4, <1>6 DEF NetType
<1>8. OnlyFrom(new, S \cup {current})
  BY <1>1, <1>6, <1>7 DEF OnlyFrom
<1> QED BY <1>7, <1>8 DEF new

\* A section of the configuration adds values of the current origin only.
LEMMA ConfiguredFrom ==
  ASSUME TypeOK, NEW S, AllFrom(db, S),
         NEW n \in Macs, NEW wide, NEW links
  PROVE  /\ Configured(n, wide, links) \in Nets
         /\ AllFrom(Configured(n, wide, links), S \cup {current})
<1> DEFINE new == parse_strarray(n, wide, links)
<1>1. new \in NetType /\ OnlyFrom(new, S \cup {current})
  BY ParsedFrom
<1> HIDE DEF new
<1>2. CASE Configured(n, wide, links) = db
  BY <1>2 DEF TypeOK, Nets, AllFrom, OnlyFrom
<1>3. CASE Configured(n, wide, links) = [db EXCEPT ![n] = new]
  <2>1. db \in Nets
    BY DEF TypeOK, Nets
  <2>2. [db EXCEPT ![n] = new] \in Nets
    BY <1>1, <2>1 DEF Nets
  <2>3. ASSUME NEW m \in Macs, [db EXCEPT ![n] = new][m] # None
        PROVE  OnlyFrom([db EXCEPT ![n] = new][m], S \cup {current})
    BY <1>1, <2>1, <2>3 DEF Nets, AllFrom, OnlyFrom
  <2> QED BY <1>3, <2>2, <2>3 DEF AllFrom
<1> QED BY <1>2, <1>3 DEF Configured, new

\* The inductive invariant: the three invariants support each other only
\* through the type, the two removals of link_config do the rest.
IInv == TypeOK /\ OnlyLiveOrigins /\ CommitLoopKeepsObjects

\* The invariant in terms of the lemmas above, and back.
LEMMA Unfold == IInv => db \in Nets /\ AllFrom(db, Live) /\ ~undefined
BY DEF IInv, TypeOK, OnlyLiveOrigins, CommitLoopKeepsObjects, Nets, AllFrom

LEMMA Fold ==
  ASSUME db' \in Nets, AllFrom(db', Live'), ~undefined', undefined' \in BOOLEAN,
         {current', old'} = LinkOrigins,
         loaded' \subseteq {"link_config", "eth_listener", "nl80211_listener"}
  PROVE  IInv'
BY DEF IInv, TypeOK, OnlyLiveOrigins, CommitLoopKeepsObjects, Nets, AllFrom

\* More origins allow more.
LEMMA AllFromMonotone ==
  ASSUME NEW nets, NEW S, NEW T, S \subseteq T, AllFrom(nets, S)
  PROVE  AllFrom(nets, T)
BY DEF AllFrom, OnlyFrom

\* The database starts empty.
LEMMA InitIInv == Init => IInv
<1> SUFFICES ASSUME Init PROVE IInv
  OBVIOUS
<1>1. {current, old} = LinkOrigins
  BY PluginsAssumption DEF Init
<1>2. db \in [Macs -> NetType \cup {None}] /\ \A n \in Macs : db[n] = None
  BY DEF Init
<1>3. undefined = FALSE /\ loaded \subseteq {"link_config", "eth_listener", "nl80211_listener"}
  BY DEF Init
<1>4. TypeOK
  BY <1>1, <1>2, <1>3 DEF TypeOK
<1>5. OnlyLiveOrigins
  BY <1>2 DEF OnlyLiveOrigins
<1>6. CommitLoopKeepsObjects
  BY <1>3 DEF CommitLoopKeepsObjects
<1> QED BY <1>4, <1>5, <1>6 DEF IInv

\* A reconfiguration keeps the invariant: the old origin is cleaned up, and is
\* the one that is not in use after the switch.
LEMMA ConfigKeepsIInv ==
  ASSUME IInv, NEW n \in Macs, NEW wide, NEW links, cb_config_changed(n, wide, links)
  PROVE  IInv'
<1> DEFINE new == Configured(n, wide, links)
<1>1. TypeOK /\ db \in Nets /\ AllFrom(db, Live) /\ ~undefined
  BY Unfold DEF IInv
<1>2. new \in Nets /\ AllFrom(new, Live \cup {current})
  BY <1>1, ConfiguredFrom
<1>3. old # Unset
  BY <1>1, OriginFacts
<1> HIDE DEF new
<1>4. /\ db' = oonf_layer2_cleanup_origin(new, old)
      /\ undefined' = (undefined \/ CommitRemoves(db'))
      /\ current' = old /\ old' = current /\ loaded' = loaded
      /\ "link_config" \in loaded
  BY DEF cb_config_changed, new
<1>5. /\ db' \in Nets
      /\ AllFrom(db', (Live \cup {current}) \ {old})
      /\ ~CommitRemoves(db')
  BY <1>2, <1>3, <1>4, Cleanup
<1>6. (Live \cup {current}) \ {old} \subseteq Live'
  <2>1. Live' = (UNION {OriginsOf(p) : p \in loaded}) \ {old}
    BY <1>4 DEF Live, OriginsOf
  <2>2. current \in OriginsOf("link_config")
    BY <1>1 DEF TypeOK, OriginsOf
  <2> QED BY <1>4, <2>1, <2>2 DEF Live
<1>7. AllFrom(db', Live')
  BY <1>5, <1>6, AllFromMonotone
<1>8. ~undefined' /\ undefined' \in BOOLEAN
  BY <1>1, <1>4, <1>5
<1> QED BY <1>1, <1>4, <1>5, <1>7, <1>8, Fold DEF TypeOK

\* A poll of ethtool adds values of eth_listener, which is loaded, and removes
\* others.
LEMMA EthKeepsIInv ==
  ASSUME IInv, NEW ok \in SUBSET Interfaces, eth_transmission_event(ok)
  PROVE  IInv'
<1>1. TypeOK /\ db \in Nets /\ AllFrom(db, Live) /\ ~undefined
  BY Unfold DEF IInv
<1>2. EthOrigin \in Live
  BY <1>1, OriginFacts DEF eth_transmission_event, Live, OriginsOf
<1>3. Live' = Live
  BY DEF eth_transmission_event, Live, OriginsOf
<1>4. NetCount - 1 \in NetIdx
  BY Layer2Assumption DEF NetIdx
<1>5. ASSUME NEW n \in Macs
      PROVE  EthUpdated(n) \in NetType /\ OnlyFrom(EthUpdated(n), Live)
  <2> DEFINE net == oonf_layer2_net_add(n)
             defaults == [i \in NeighIdx |-> IF i \in SpeedIdx THEN EthOrigin
                                             ELSE net.neighdata[i]]
             data == [net.data EXCEPT ![NetCount - 1] = EthOrigin]
             type == IF db[n] = None THEN "ethernet" ELSE net.if_type
  <2>1. net \in NetType /\ OnlyFrom(net, Live)
    BY <1>1, NetAdd
  <2>2. EthUpdated(n) = [net EXCEPT !.if_type = type, !.neighdata = defaults,
                                    !.data = data]
    BY DEF EthUpdated
  <2>3. EthOrigin \in Origins
    BY <1>1, OriginFacts
  <2>4. defaults \in NeighData
    BY <2>1, <2>3 DEF NetType, NeighData
  <2>5. data \in [NetIdx -> Origins \cup {Unset}]
    BY <2>1, <2>3 DEF NetType
  <2>6. \A i \in NetIdx : data[i] \in Live \cup {Unset}
    BY <1>2, <2>1 DEF NetType, OnlyFrom
  <2>7. type \in {"undefined", "wireless", "ethernet"}
    BY <2>1 DEF NetType
  <2> HIDE DEF net, defaults, data, type
  <2>8. /\ EthUpdated(n) \in NetType
        /\ EthUpdated(n).data = data
        /\ EthUpdated(n).neighbors = net.neighbors
    BY <2>1, <2>2, <2>4, <2>5, <2>7 DEF NetType
  <2> QED BY <2>1, <2>6, <2>8 DEF OnlyFrom
<1>6. ASSUME NEW n \in Macs, db'[n] # None
      PROVE  db'[n] \in NetType /\ OnlyFrom(db'[n], Live)
  <2>1. \/ db'[n] = EthUpdated(n)
        \/ db[n] # None /\ db'[n] = oonf_layer2_net_remove(db[n], EthOrigin)
        \/ db'[n] = db[n]
    BY DEF eth_transmission_event
  <2>2. CASE db'[n] = EthUpdated(n)
    BY <1>5, <2>2
  <2>3. CASE db[n] # None /\ db'[n] = oonf_layer2_net_remove(db[n], EthOrigin)
    <3>1. db[n] \in NetType /\ OnlyFrom(db[n], Live)
      BY <1>1, <2>3 DEF Nets, AllFrom
    <3>2. EthOrigin # Unset
      BY <1>1, OriginFacts
    <3>3. OnlyFrom(db'[n], Live \ {EthOrigin})
      BY <1>6, <2>3, <3>1, <3>2, NetRemoveOnlyFrom
    <3> QED BY <1>6, <2>3, <3>1, <3>3, NetRemove DEF OnlyFrom
  <2>4. CASE db'[n] = db[n]
    BY <1>1, <1>6, <2>4 DEF Nets, AllFrom
  <2> QED BY <2>1, <2>2, <2>3, <2>4
<1>7. db' \in Nets /\ AllFrom(db', Live')
  <2>1. \A n \in Macs : db'[n] \in NetType \cup {None}
    BY <1>6
  <2> QED BY <1>3, <1>6, <2>1 DEF Nets, AllFrom, eth_transmission_event
<1> QED BY <1>1, <1>7, Fold DEF eth_transmission_event, TypeOK

\* A step that replaces one network by one with values of live origins keeps
\* the invariant.
LEMMA OneNetKeepsIInv ==
  ASSUME IInv, NEW n \in Macs, NEW r \in NetType \cup {None},
         r # None => OnlyFrom(r, Live),
         db' = [db EXCEPT ![n] = r], UNCHANGED <<current, old, loaded, undefined>>
  PROVE  IInv'
<1>1. TypeOK /\ db \in Nets /\ AllFrom(db, Live) /\ ~undefined
  BY Unfold DEF IInv
<1>2. Live' = Live
  BY DEF Live, OriginsOf
<1>3. db' \in Nets
  BY <1>1 DEF Nets
<1>4. AllFrom(db', Live')
  BY <1>1, <1>2 DEF AllFrom, Nets
<1> QED BY <1>1, <1>3, <1>4, Fold DEF TypeOK

\* _create_l2net() adds no values.
LEMMA CreateNet ==
  ASSUME IInv, NEW n \in Macs
  PROVE  create_l2net(n) \in NetType /\ OnlyFrom(create_l2net(n), Live)
<1> DEFINE net == oonf_layer2_net_add(n)
           type == IF net.if_type = "undefined" THEN "wireless" ELSE net.if_type
<1>1. net \in NetType /\ OnlyFrom(net, Live)
  BY Unfold, NetAdd DEF IInv
<1>2. create_l2net(n) = [net EXCEPT !.if_type = type]
  BY DEF create_l2net
<1>3. type \in {"undefined", "wireless", "ethernet"}
  BY <1>1 DEF NetType
<1> HIDE DEF net, type
<1>4. /\ create_l2net(n) \in NetType
      /\ create_l2net(n).data = net.data
      /\ create_l2net(n).neighbors = net.neighbors
  BY <1>1, <1>2, <1>3 DEF NetType
<1> QED BY <1>1, <1>4 DEF OnlyFrom

\* Values a loaded nl80211_listener sets have a live origin.
LEMMA NlIsLive ==
  ASSUME IInv, "nl80211_listener" \in loaded
  PROVE  NlOrigin \in Live /\ NlOrigin \in Origins /\ NlOrigin # Unset
BY OriginFacts DEF IInv, Live, OriginsOf

\* A new station has values of nl80211_listener only.
LEMMA NewStationKeepsIInv ==
  ASSUME IInv, NEW x \in Macs, NEW given, parse_cmd_new_station(x, given)
  PROVE  IInv'
<1> DEFINE net == create_l2net(x)
           d == [i \in NeighIdx |-> IF i \in given THEN NlOrigin ELSE Unset]
           c == oonf_layer2_neigh_commit(d)
           r == [net EXCEPT !.neighbors = [@ EXCEPT ![x] = c]]
<1>1. net \in NetType /\ OnlyFrom(net, Live)
  BY CreateNet
<1>2. NlOrigin \in Live /\ NlOrigin \in Origins
  BY NlIsLive DEF parse_cmd_new_station
<1>3. d \in NeighData /\ \A i \in NeighIdx : d[i] \in Live \cup {Unset}
  BY <1>2 DEF NeighData
<1>4. c \in {d, None}
  BY <1>3, NeighCommit
<1>5. db' = [db EXCEPT ![x] = r] /\ UNCHANGED <<current, old, loaded, undefined>>
  BY DEF parse_cmd_new_station
<1> HIDE DEF net, d, c
<1>6. /\ r \in NetType
      /\ r.data = net.data
      /\ \A y \in Macs : r.neighbors[y] = IF y = x THEN c ELSE net.neighbors[y]
  BY <1>1, <1>3, <1>4 DEF NetType
<1> HIDE DEF r
<1>7. OnlyFrom(r, Live)
  BY <1>1, <1>3, <1>4, <1>6 DEF OnlyFrom
<1> QED BY <1>5, <1>6, <1>7, OneNetKeepsIInv

\* A lost station loses values only.
LEMMA DelStationKeepsIInv ==
  ASSUME IInv, NEW n \in Macs, NEW x \in Macs, parse_cmd_del_station(n, x)
  PROVE  IInv'
<1> DEFINE net == db[n]
           d == Without(net.neighbors[x], NlOrigin)
           c == oonf_layer2_neigh_commit(d)
           r == [net EXCEPT !.neighbors = [@ EXCEPT ![x] = c]]
<1>1. net \in NetType /\ OnlyFrom(net, Live) /\ net.neighbors[x] # None
  BY DEF parse_cmd_del_station, IInv, TypeOK, OnlyLiveOrigins
<1>2. net.neighbors[x] \in NeighData
  BY <1>1 DEF NetType
<1>3. d \in NeighData
  BY <1>2, WithoutType DEF NeighData
<1>4. \A i \in NeighIdx : d[i] \in Live \cup {Unset}
  BY <1>1, <1>2 DEF OnlyFrom, Without, NeighData
<1>5. c \in {d, None}
  BY <1>3, NeighCommit
<1>6. db' = [db EXCEPT ![n] = r] /\ UNCHANGED <<current, old, loaded, undefined>>
  BY DEF parse_cmd_del_station, oonf_layer2_neigh_remove
<1> HIDE DEF net, d, c
<1>7. /\ r \in NetType
      /\ r.data = net.data
      /\ \A y \in Macs : r.neighbors[y] = IF y = x THEN c ELSE net.neighbors[y]
  BY <1>1, <1>3, <1>5 DEF NetType
<1> HIDE DEF r
<1>8. OnlyFrom(r, Live)
  BY <1>1, <1>3, <1>4, <1>5, <1>7 DEF OnlyFrom
<1> QED BY <1>6, <1>7, <1>8, OneNetKeepsIInv

\* A scan result replaces the values of a network by those of nl80211_listener.
LEMMA ScanKeepsIInv ==
  ASSUME IInv, NEW b \in Macs, NEW given, parse_cmd_new_scan_result(b, given)
  PROVE  IInv'
<1> DEFINE net == create_l2net(b)
           d == [i \in NetIdx |-> IF i \in given THEN NlOrigin ELSE Unset]
           r == [net EXCEPT !.data = d]
           c == oonf_layer2_net_commit(r)
<1>1. net \in NetType /\ OnlyFrom(net, Live)
  BY CreateNet
<1>2. NlOrigin \in Live /\ NlOrigin \in Origins
  BY NlIsLive DEF parse_cmd_new_scan_result
<1>3. /\ d \in [NetIdx -> Origins \cup {Unset}]
      /\ \A i \in NetIdx : d[i] \in Live \cup {Unset}
  BY <1>2
<1>4. db' = [db EXCEPT ![b] = c] /\ UNCHANGED <<current, old, loaded, undefined>>
  BY DEF parse_cmd_new_scan_result
<1> HIDE DEF net, d
<1>5. r \in NetType /\ r.data = d /\ r.neighbors = net.neighbors
  BY <1>1, <1>3 DEF NetType
<1>6. c \in {r, None}
  BY DEF oonf_layer2_net_commit
<1> HIDE DEF r, c
<1>7. OnlyFrom(r, Live)
  BY <1>1, <1>3, <1>5 DEF OnlyFrom
<1> QED BY <1>4, <1>5, <1>6, <1>7, OneNetKeepsIInv

\* An unloaded plugin takes its values away.
LEMMA CleanupKeepsIInv ==
  ASSUME IInv, NEW p \in loaded, cleanup(p)
  PROVE  IInv'
<1>1. TypeOK /\ db \in Nets /\ AllFrom(db, Live) /\ ~undefined
  BY Unfold DEF IInv
<1>2. /\ loaded' = loaded \ {p}
      /\ UNCHANGED <<current, old, undefined>>
  BY DEF cleanup
<1>3. Live \ OriginsOf(p) \subseteq Live'
  <2>1. Live' = (UNION {OriginsOf(q) : q \in loaded \ {p}}) \ {current}
    BY <1>2 DEF Live, OriginsOf
  <2> QED BY <2>1 DEF Live
<1>4. db' \in Nets /\ AllFrom(db', Live \ OriginsOf(p))
  <2>1. CASE p = "link_config"
    <3> DEFINE first == oonf_layer2_cleanup_origin(db, current)
    <3>1. first \in Nets /\ AllFrom(first, Live \ {current})
      BY <1>1, OriginFacts, Cleanup
    <3> HIDE DEF first
    <3>2. /\ oonf_layer2_cleanup_origin(first, old) \in Nets
          /\ AllFrom(oonf_layer2_cleanup_origin(first, old), (Live \ {current}) \ {old})
      BY <1>1, <3>1, OriginFacts, Cleanup
    <3>3. db' = oonf_layer2_cleanup_origin(first, old)
      BY <2>1 DEF cleanup, first
    <3>4. (Live \ {current}) \ {old} = Live \ OriginsOf(p)
      BY <1>1, <2>1 DEF TypeOK, OriginsOf
    <3> QED BY <3>2, <3>3, <3>4
  <2>2. CASE p = "eth_listener"
    <3>1. db' = oonf_layer2_cleanup_origin(db, EthOrigin) /\ OriginsOf(p) = {EthOrigin}
      BY <2>2 DEF cleanup, OriginsOf
    <3> QED BY <1>1, <3>1, OriginFacts, Cleanup
  <2>3. CASE p = "nl80211_listener"
    <3>1. db' = oonf_layer2_cleanup_origin(db, NlOrigin) /\ OriginsOf(p) = {NlOrigin}
      BY <2>3 DEF cleanup, OriginsOf
    <3> QED BY <1>1, <3>1, OriginFacts, Cleanup
  <2> QED BY <1>1, <2>1, <2>2, <2>3 DEF TypeOK
<1>5. AllFrom(db', Live')
  BY <1>3, <1>4, AllFromMonotone
<1> QED BY <1>1, <1>2, <1>4, <1>5, Fold DEF TypeOK

\* Every step keeps the invariant.
LEMMA NextKeepsIInv ==
  ASSUME IInv, [Next]_vars
  PROVE  IInv'
<1>1. CASE LinkConfig
  BY <1>1, ConfigKeepsIInv, PluginsAssumption DEF LinkConfig
<1>2. CASE \E ok \in SUBSET Interfaces : eth_transmission_event(ok)
  BY <1>2, EthKeepsIInv
<1>3. CASE Nl80211
  BY <1>3, NewStationKeepsIInv, DelStationKeepsIInv, ScanKeepsIInv, PluginsAssumption
     DEF Nl80211
<1>4. CASE \E p \in loaded : cleanup(p)
  BY <1>4, CleanupKeepsIInv
<1>5. CASE UNCHANGED vars
  <2>1. Live' = Live
    BY <1>5 DEF vars, Live, OriginsOf
  <2> QED BY <1>5, <2>1, Unfold, Fold DEF vars, IInv, TypeOK
<1> QED BY <1>1, <1>2, <1>3, <1>4, <1>5 DEF Next

-----------------------------------------------------------------------------
(* Theorems *)

\* The three invariants hold together.
THEOREM Layer2Invariant == Spec => []IInv
<1>1. IInv /\ [Next]_vars => IInv'
  BY NextKeepsIInv
<1> QED BY <1>1, InitIInv, PTL DEF Spec

\* The objects of the database are well formed.
THEOREM Layer2TypeOK == Spec => []TypeOK
<1>1. IInv => TypeOK
  BY DEF IInv
<1> QED BY <1>1, Layer2Invariant, PTL

\* No value of an earlier configuration or of an unloaded plugin is left in a
\* network or a neighbor.
THEOREM Layer2OnlyLiveOrigins == Spec => []OnlyLiveOrigins
<1>1. IInv => OnlyLiveOrigins
  BY DEF IInv
<1> QED BY <1>1, Layer2Invariant, PTL

\* The loops of link_config over networks and neighbors never continue from an
\* object that a commit has freed.
THEOREM Layer2CommitLoopKeepsObjects == Spec => []CommitLoopKeepsObjects
<1>1. IInv => CommitLoopKeepsObjects
  BY DEF IInv
<1> QED BY <1>1, Layer2Invariant, PTL

\* A neighbor keeps the value i of nl80211_listener
KeepsNl(nets, n, x, i) ==
  nets[n] # None /\ nets[n].neighbors[x] # None /\ nets[n].neighbors[x][i] = NlOrigin

\* The settings of link_config do not replace a value of nl80211_listener.
LEMMA ConfiguredKeepsNl ==
  ASSUME TypeOK, NEW m \in Macs, NEW wide, NEW links,
         NEW n \in Macs, NEW x \in Macs, NEW i \in NeighIdx, KeepsNl(db, n, x, i)
  PROVE  KeepsNl(Configured(m, wide, links), n, x, i)
<1>1. CASE n = m /\ Configured(m, wide, links) # db
  <2> DEFINE net == db[n]
             new == parse_strarray(n, wide, links)
             newNeigh == IF links[x] = {} THEN net.neighbors[x]
                         ELSE [j \in NeighIdx |->
                                 IF j \in links[x] THEN set_l2value(net.neighbors[x][j])
                                 ELSE net.neighbors[x][j]]
  <2>1. net \in NetType /\ oonf_layer2_net_add(n) = net
    BY DEF TypeOK, KeepsNl, oonf_layer2_net_add
  <2>2. oonf_layer2_neigh_add(net, x) = net.neighbors[x]
    BY DEF KeepsNl, oonf_layer2_neigh_add
  <2>3. new # None /\ new.neighbors[x] = newNeigh
    <3>1. new \in NetType
      <4>1. AllFrom(db, Origins)
        BY Layer2Assumption DEF TypeOK, AllFrom, OnlyFrom, NetType, NeighData
      <4> QED BY <4>1, ParsedFrom
    <3> QED BY <2>1, <2>2, <3>1, NoneAssumption DEF parse_strarray, NetType
  <2>4. set_l2value(NlOrigin) = NlOrigin
    BY OriginFacts, Layer2Assumption DEF set_l2value
  <2>5. newNeigh # None /\ newNeigh[i] = NlOrigin
    <3>1. net.neighbors[x] \in NeighData /\ net.neighbors[x][i] = NlOrigin
      BY <2>1 DEF KeepsNl, NetType
    <3>2. CASE links[x] = {}
      BY <3>1, <3>2, NoneAssumption
    <3>3. CASE links[x] # {}
      <4> DEFINE d == [j \in NeighIdx |->
                         IF j \in links[x] THEN set_l2value(net.neighbors[x][j])
                         ELSE net.neighbors[x][j]]
      <4>1. d \in NeighData
        BY <3>1, OriginFacts DEF set_l2value, NeighData
      <4>2. d[i] = NlOrigin
        BY <2>4, <3>1
      <4> QED BY <3>3, <4>1, <4>2, NoneAssumption
    <3> QED BY <3>2, <3>3
  <2>6. Configured(m, wide, links)[n] = new
    BY <1>1 DEF Configured, TypeOK
  <2> HIDE DEF new, newNeigh
  <2> QED BY <2>3, <2>5, <2>6 DEF KeepsNl
<1>2. CASE n # m \/ Configured(m, wide, links) = db
  <2>1. Configured(m, wide, links)[n] = db[n]
    BY <1>2 DEF Configured, TypeOK
  <2> QED BY <2>1 DEF KeepsNl
<1> QED BY <1>1, <1>2

\* Removing the values of another origin spares a neighbor that has a value of
\* nl80211_listener where a commit looks, and all such values of it.
LEMMA CleanupKeepsNl ==
  ASSUME NEW nets \in Nets, NEW o, o # NlOrigin, NlOrigin # Unset,
         NEW n \in Macs, NEW x \in Macs,
         NEW k \in NetIdx, KeepsNl(nets, n, x, k),
         NEW i \in NeighIdx, KeepsNl(nets, n, x, i)
  PROVE  KeepsNl(oonf_layer2_cleanup_origin(nets, o), n, x, i)
<1> DEFINE net == nets[n]
           d == net.neighbors[x]
           rest == [net EXCEPT !.neighbors = Kept(net, o), !.data = Without(@, o)]
<1>1. net \in NetType /\ d \in NeighData
  BY DEF Nets, KeepsNl, NetType
<1>2. k \in NeighIdx
  BY Layer2Assumption DEF NetIdx, NeighIdx
<1>3. Without(d, o) \in NeighData /\ Without(d, o)[k] = NlOrigin /\ Without(d, o)[i] = NlOrigin
  BY <1>1, <1>2, WithoutType DEF Without, NeighData, KeepsNl
<1>4. Kept(net, o)[x] = Without(d, o) /\ Kept(net, o)[x] # None
  BY <1>1, <1>3, NoneAssumption
     DEF Kept, oonf_layer2_neigh_remove, oonf_layer2_neigh_commit, KeepsNl
<1>5. oonf_layer2_net_remove(net, o) = oonf_layer2_net_commit(rest)
  BY <1>1 DEF oonf_layer2_net_remove, Kept, NetType
<1>6. rest.neighbors = Kept(net, o) /\ rest \in NetType
  <2>1. Kept(net, o) \in [Macs -> NeighData \cup {None}]
    <3>1. \A y \in Macs : Kept(net, o)[y] \in NeighData \cup {None}
      BY <1>1, KeptNeighbors
    <3> QED BY <3>1 DEF Kept
  <2>2. Without(net.data, o) \in [NetIdx -> Origins \cup {Unset}]
    BY <1>1, WithoutType DEF NetType
  <2> QED BY <1>1, <2>1, <2>2 DEF NetType
<1>7. oonf_layer2_cleanup_origin(nets, o)[n] = oonf_layer2_net_remove(net, o)
  BY DEF oonf_layer2_cleanup_origin, KeepsNl
<1> HIDE DEF rest
<1>8. oonf_layer2_net_commit(rest) = rest
  BY <1>4, <1>6 DEF oonf_layer2_net_commit
<1> QED BY <1>3, <1>4, <1>5, <1>6, <1>7, <1>8, NoneAssumption DEF KeepsNl

\* No reconfiguration loses what the kernel reported of a neighbor.
THEOREM Layer2KernelDataKept == Spec => KernelDataKept
<1> DEFINE Kernel == (current' # current) =>
       \A n, x \in Macs :
         /\ db[n] # None /\ db[n].neighbors[x] # None
         /\ \E i \in NetIdx : db[n].neighbors[x][i] = NlOrigin
         => /\ db'[n] # None /\ db'[n].neighbors[x] # None
            /\ \A i \in NeighIdx : db[n].neighbors[x][i] = NlOrigin =>
                 db'[n].neighbors[x][i] = NlOrigin
<1>1. ASSUME IInv, Next, current' # current
      PROVE  Kernel
  <2>1. PICK m \in Interfaces, wide \in SUBSET ConfigIdx, links \in [Macs -> SUBSET ConfigIdx] :
          cb_config_changed(m, wide, links)
    BY <1>1 DEF Next, LinkConfig, Nl80211, eth_transmission_event, parse_cmd_new_station,
                parse_cmd_del_station, parse_cmd_new_scan_result, cleanup
  <2> DEFINE new == Configured(m, wide, links)
  <2>2. m \in Macs /\ TypeOK
    BY <1>1, PluginsAssumption DEF IInv
  <2>3. new \in Nets
    BY <1>1, <2>2, Unfold, ConfiguredFrom
  <2>4. db' = oonf_layer2_cleanup_origin(new, old)
    BY <2>1 DEF cb_config_changed
  <2>5. old # NlOrigin /\ NlOrigin # Unset
    BY <2>2, OriginFacts
  <2> SUFFICES ASSUME NEW n \in Macs, NEW x \in Macs,
                      db[n] # None, db[n].neighbors[x] # None,
                      NEW k \in NetIdx, db[n].neighbors[x][k] = NlOrigin
               PROVE  \A i \in NeighIdx : db[n].neighbors[x][i] = NlOrigin =>
                        KeepsNl(db', n, x, i)
    <3>1. \A k \in NetIdx : k \in NeighIdx
      BY Layer2Assumption DEF NetIdx, NeighIdx
    <3> QED BY <3>1 DEF KeepsNl
  <2>6. k \in NeighIdx /\ KeepsNl(db, n, x, k)
    BY Layer2Assumption DEF NetIdx, NeighIdx, KeepsNl
  <2>7. KeepsNl(new, n, x, k)
    BY <2>2, <2>6, ConfiguredKeepsNl
  <2>8. ASSUME NEW i \in NeighIdx, db[n].neighbors[x][i] = NlOrigin
        PROVE  KeepsNl(new, n, x, i)
    BY <2>2, <2>8, ConfiguredKeepsNl DEF KeepsNl
  <2> HIDE DEF new
  <2> QED BY <2>3, <2>4, <2>5, <2>7, <2>8, CleanupKeepsNl
<1>2. IInv /\ [Next]_vars => [Kernel]_vars
  BY <1>1
<1> QED BY <1>2, Layer2Invariant, PTL DEF Spec, KernelDataKept
=============================================================================
