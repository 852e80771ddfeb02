--------------------------- MODULE Layer2Plugins ---------------------------
(***************************************************************************)
(* The plugins that fill the layer-2 database: link_config from the        *)
(* configuration, eth_listener from ethtool, nl80211_listener from the     *)
(* messages of the kernel's wireless stack.  They share the objects of     *)
(* the database and each one removes what is its own.                      *)
(*                                                                         *)
(* A callback of a plugin is one step: nothing else runs in between.  Out  *)
(* of memory has the effect of a shorter configuration or message.         *)
(***************************************************************************)
EXTENDS OonfLayer2

CONSTANTS
  Interfaces,   \* the addresses of the interfaces with a listener
  LinkOrigins,  \* the two origins of link_config
  EthOrigin,
  NlOrigin,
  SpeedIdx,     \* OONF_LAYER2_NEIGH_RX_BITRATE and _TX_BITRATE
  ConfigIdx     \* the values link_config has settings for

ASSUME PluginsAssumption ==
  /\ Interfaces \subseteq Macs
  /\ Origins = LinkOrigins \cup {EthOrigin, NlOrigin}
  /\ \E a, b \in LinkOrigins : a # b /\ LinkOrigins = {a, b}
  /\ LinkOrigins \cap {EthOrigin, NlOrigin} = {}
  /\ EthOrigin # NlOrigin
  /\ SpeedIdx \subseteq NeighIdx
  /\ ConfigIdx \subseteq NeighIdx

VARIABLES
  current,   \* _l2_origin_current of link_config
  old,       \* _l2_origin_old
  loaded,    \* the plugins that are loaded
  undefined  \* freed memory was used

vars == <<db, current, old, loaded, undefined>>

Init ==
  /\ db = [n \in Macs |-> None]
  /\ current \in LinkOrigins
  /\ old \in LinkOrigins \ {current}
  /\ loaded = {"link_config", "eth_listener", "nl80211_listener"}
  /\ undefined = FALSE

-----------------------------------------------------------------------------
(* link_config *)

\* _set_l2value(): the origin a configured value has afterwards
set_l2value(o) == IF o \in {Unset, current, old} THEN current ELSE o

\* _parse_strarray() for the settings of interface n: wide are the values
\* configured for the whole interface, links[x] those for neighbor x.
parse_strarray(n, wide, links) ==
  LET net == oonf_layer2_net_add(n)
      neigh(x) == oonf_layer2_neigh_add(net, x)
  IN [net EXCEPT
        !.neighdata = [i \in NeighIdx |-> IF i \in wide THEN set_l2value(@[i]) ELSE @[i]],
        !.neighbors = [x \in Macs |->
           IF links[x] = {} THEN @[x]
           ELSE [i \in NeighIdx |-> IF i \in links[x] THEN set_l2value(neigh(x)[i])
                                    ELSE neigh(x)[i]]]]

Configured(n, wide, links) ==
  IF wide = {} /\ \A x \in Macs : links[x] = {} THEN db
  ELSE [db EXCEPT ![n] = parse_strarray(n, wide, links)]

\* Whether one of the commits that trigger the change events removes its
\* object; the loops around them go on from the object.
CommitRemoves(nets) ==
  \E n \in Macs :
    /\ nets[n] # None
    /\ \/ /\ \E i \in NetIdx : nets[n].neighdata[i] = current
          /\ oonf_layer2_net_commit(nets[n]) = None
       \/ \E x \in Macs :
            /\ nets[n].neighbors[x] # None
            /\ \E i \in NeighIdx : nets[n].neighbors[x][i] = current
            /\ oonf_layer2_neigh_commit(nets[n].neighbors[x]) = None

\* Mutant of cb_config_changed: change events before the old values are removed.
EventsFirst(n, wide, links) ==
  LET new == Configured(n, wide, links)
  IN /\ "link_config" \in loaded
     /\ undefined' = (undefined \/ CommitRemoves(new))
     /\ db' = oonf_layer2_cleanup_origin(new, old)
     /\ current' = old
     /\ old' = current
     /\ UNCHANGED loaded

\* _cb_config_changed(), called for the section of one interface
cb_config_changed(n, wide, links) ==
  LET clean == oonf_layer2_cleanup_origin(Configured(n, wide, links), old)
  IN /\ "link_config" \in loaded
     /\ undefined' = (undefined \/ CommitRemoves(clean))
     /\ db' = clean
     /\ current' = old
     /\ old' = current
     /\ UNCHANGED loaded

-----------------------------------------------------------------------------
(* eth_listener *)

EthUpdated(n) ==
  LET net == oonf_layer2_net_add(n)
  IN [net EXCEPT
        !.if_type = IF db[n] = None THEN "ethernet" ELSE @,
        !.neighdata = [i \in NeighIdx |-> IF i \in SpeedIdx THEN EthOrigin ELSE @[i]],
        !.data[NetCount - 1] = EthOrigin]    \* OONF_LAYER2_NET_MAX_BITRATE

\* _cb_transmission_event(): the ioctl works for the interfaces in ok.
eth_transmission_event(ok) ==
  /\ "eth_listener" \in loaded
  /\ db' = [n \in Macs |->
              IF n \in ok THEN EthUpdated(n)
              ELSE IF n \in Interfaces /\ db[n] # None
                THEN oonf_layer2_net_remove(db[n], EthOrigin)
              ELSE db[n]]
  /\ UNCHANGED <<current, old, loaded, undefined>>

-----------------------------------------------------------------------------
(* nl80211_listener *)

\* _create_l2net(), where it does not give up
create_l2net(n) ==
  LET net == oonf_layer2_net_add(n)
  IN [net EXCEPT !.if_type = IF @ = "undefined" THEN "wireless" ELSE @]

\* A message about station x with some of the values.  The network is looked
\* up by the address of the station.
parse_cmd_new_station(x, given) ==
  LET net == create_l2net(x)
      neigh == [i \in NeighIdx |-> IF i \in given THEN NlOrigin ELSE Unset]
  IN /\ "nl80211_listener" \in loaded
     /\ net.if_type = "wireless"
     /\ db' = [db EXCEPT ![x] =
                 [net EXCEPT !.neighbors[x] = oonf_layer2_neigh_commit(neigh)]]
     /\ UNCHANGED <<current, old, loaded, undefined>>

\* Station x of interface n is gone.
parse_cmd_del_station(n, x) ==
  /\ "nl80211_listener" \in loaded
  /\ db[n] # None
  /\ db[n].neighbors[x] # None
  /\ db' = [db EXCEPT ![n].neighbors[x] = oonf_layer2_neigh_remove(@, NlOrigin)]
  /\ UNCHANGED <<current, old, loaded, undefined>>

\* A scan result for the network b, with some of the values.
parse_cmd_new_scan_result(b, given) ==
  LET net == create_l2net(b)
      data == [i \in NetIdx |-> IF i \in given THEN NlOrigin ELSE Unset]
  IN /\ "nl80211_listener" \in loaded
     /\ net.if_type = "wireless"
     /\ db' = [db EXCEPT ![b] = oonf_layer2_net_commit([net EXCEPT !.data = data])]
     /\ UNCHANGED <<current, old, loaded, undefined>>

-----------------------------------------------------------------------------
\* The origins of a plugin
OriginsOf(p) == CASE p = "link_config" -> LinkOrigins
                  [] p = "eth_listener" -> {EthOrigin}
                  [] p = "nl80211_listener" -> {NlOrigin}

\* Mutant of cleanup: the origin of the last reconfiguration is forgotten.
CleanupCurrentOnly(p) ==
  /\ p \in loaded
  /\ loaded' = loaded \ {p}
  /\ db' = CASE p = "link_config" -> oonf_layer2_cleanup_origin(db, current)
             [] p = "eth_listener" -> oonf_layer2_cleanup_origin(db, EthOrigin)
             [] p = "nl80211_listener" -> oonf_layer2_cleanup_origin(db, NlOrigin)
  /\ UNCHANGED <<current, old, undefined>>

\* _cleanup() of a plugin that is unloaded
cleanup(p) ==
  /\ p \in loaded
  /\ loaded' = loaded \ {p}
  /\ db' = CASE p = "link_config" ->
                  oonf_layer2_cleanup_origin(oonf_layer2_cleanup_origin(db, current), old)
             [] p = "eth_listener" -> oonf_layer2_cleanup_origin(db, EthOrigin)
             [] p = "nl80211_listener" -> oonf_layer2_cleanup_origin(db, NlOrigin)
  /\ UNCHANGED <<current, old, undefined>>

LinkConfig ==
  \E n \in Interfaces, wide \in SUBSET ConfigIdx, links \in [Macs -> SUBSET ConfigIdx] :
    cb_config_changed(n, wide, links)

Nl80211 ==
  \/ \E x \in Macs, given \in SUBSET NeighIdx : parse_cmd_new_station(x, given)
  \/ \E n \in Interfaces, x \in Macs : parse_cmd_del_station(n, x)
  \/ \E b \in Macs, given \in SUBSET NetIdx : parse_cmd_new_scan_result(b, given)

Next == \/ LinkConfig
        \/ \E ok \in SUBSET Interfaces : eth_transmission_event(ok)
        \/ Nl80211
        \/ \E p \in loaded : cleanup(p)

Spec == Init /\ [][Next]_vars

-----------------------------------------------------------------------------
(* Properties *)

\* Objects and values have their types.
TypeOK ==
  /\ db \in [Macs -> NetType \cup {None}]
  /\ {current, old} = LinkOrigins
  /\ loaded \subseteq {"link_config", "eth_listener", "nl80211_listener"}
  /\ undefined \in BOOLEAN

\* The loops of link_config that trigger the change events are not the safe
\* ones, and a commit may remove its object: it never does there, because the
\* removal of the old values has committed every object just before.
CommitLoopKeepsObjects == ~undefined

\* The origins whose values may be found: those of loaded plugins, and of the
\* two of link_config only the one it used last.
Live == (UNION {OriginsOf(p) : p \in loaded}) \ {current}

\* The values of a network and of its neighbors come from the origins S.
OnlyFrom(net, S) ==
  /\ \A i \in NetIdx : net.data[i] \in S \cup {Unset}
  /\ \A x \in Macs : net.neighbors[x] # None =>
       \A i \in NeighIdx : net.neighbors[x][i] \in S \cup {Unset}

\* Neither an earlier configuration nor an unloaded plugin leaves a value in
\* a network or in a neighbor.
OnlyLiveOrigins == \A n \in Macs : db[n] # None => OnlyFrom(db[n], Live)

\* What the kernel reported of a neighbor survives every reconfiguration of
\* link_config, if it is among the values a commit looks at.
KernelDataKept ==
  [][(current' # current) =>
       \A n, x \in Macs :
         /\ db[n] # None /\ db[n].neighbors[x] # None
         /\ \E i \in NetIdx : db[n].neighbors[x][i] = NlOrigin
         => /\ db'[n] # None /\ db'[n].neighbors[x] # None
            /\ \A i \in NeighIdx : db[n].neighbors[x][i] = NlOrigin =>
                 db'[n].neighbors[x][i] = NlOrigin]_vars

\* The help texts of link_config: a setting with a list of addresses sets the
\* value for these neighbors (unless another plugin has set it).
ConfiguredLinkDataKept ==
  [][\A n \in Interfaces, x \in Macs, i \in ConfigIdx :
       cb_config_changed(n, {}, [y \in Macs |-> IF y = x THEN {i} ELSE {}])
         => /\ db'[n] # None /\ db'[n].neighbors[x] # None
            /\ db'[n].neighbors[x][i] # Unset]_vars

\* The comment of oonf_layer2_cleanup_origin(): all data of the origin is removed.
CleanupRemovesAll ==
  [][\A p \in loaded \ loaded', n \in Macs, i \in NeighIdx :
       db'[n] # None => db'[n].neighdata[i] \notin OriginsOf(p)]_vars
=============================================================================
