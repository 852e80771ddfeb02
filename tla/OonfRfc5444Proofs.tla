--------------------------- MODULE OonfRfc5444Proofs ---------------------------
(* Proofs about the RFC 5444 session for every set of ports and multicast     *)
(* choices, every interface the kernel can report and any number of           *)
(* references, failures and changes.  The invariant has a part for the        *)
(* targets, one for the sockets, two for the interface object and one for the *)
(* references; each is an operator of a session, so that what an operation    *)
(* does to it can be stated for the intermediate states of a handler too.     *)
EXTENDS OonfRfc5444, TLAPS, FiniteSetTheorems, SequenceTheorems

SocketStates == [addr : Int, port : Nat, backlog : BOOLEAN]
SocketMaps == [Kinds -> [Families -> SocketStates \cup {Closed}]]
Configs == [mc : SUBSET Families, port : Nat, mcport : Nat]
Interfaces == [exists : BOOLEAN, usage : Nat, data : IfData, timer : BOOLEAN]

Sessions ==
  [exists : BOOLEAN, refs : Nat, cfg : Configs, man : Configs, named : BOOLEAN,
   target : [Targets -> TargetStates \cup {None}],
   listener : {"none", "on", "off", "dangling"}, socks : SocketMaps,
   port : Nat, osif : Interfaces, undefined : {"none", "freed", "recursion"}]

TypeOK ==
  /\ s \in Sessions /\ kernel \in IfData /\ note \in Seq(BOOLEAN)
  /\ user \in [iface : Nat, target : Nat] /\ other \in BOOLEAN
  /\ section \in {"none", "took", "found"}

\* A target that holds an own message has a running timer.
Timed(x) ==
  \A t \in Targets : x.target[t] # None /\ x.target[t].holds = "own" => x.target[t].timer

\* The unicast sockets of the session agree with an address and a port each.
Bind(socks, data, port) ==
  \A f \in Families : socks["unicast"][f] # Closed =>
     SameBinding(socks["unicast"][f], data.addr[f], port)

Follows(x) == x.listener = "on" => Bind(x.socks, x.osif.data, x.man.port)

One(b) == IF b THEN 1 ELSE 0

\* The interface object counts the session and the other listener.
Counted(x, oth) ==
  /\ x.osif.usage = One(oth) + One(x.listener = "on")
  /\ x.osif.exists <=> x.osif.usage > 0

\* Stale data is noticed.
Noticed(x, k, n) == x.osif.exists /\ x.osif.data # k => n # <<>> \/ x.osif.timer

\* A section that took a reference is counted beside the user's references and
\* the one of the unicast target; without a session nobody holds a reference.
Referenced(x, u, sec) ==
  /\ u.target = 0 <=> x.target["unicast"] = None
  /\ x.target["unicast"] # None => x.target["unicast"].refs = u.target
  /\ ~ x.exists => u = NoReferences /\ sec # "took"
  /\ x.exists => x.refs > 0
  /\ sec = "took" => x.refs = 1 + u.iface + One(u.target > 0)

\* The inductive invariant.
Inv ==
  /\ TypeOK
  /\ Running => /\ Timed(s) /\ Follows(s) /\ Counted(s, other)
                /\ Noticed(s, kernel, note) /\ Referenced(s, user, section)

-----------------------------------------------------------------------------
(* Sockets *)

\* A socket that _apply_managed_socket() leaves open is bound as asked.
LEMMA ApplySocket ==
  ASSUME NEW sock \in SocketStates \cup {Closed}, NEW addr \in Int, NEW port \in Nat,
         NEW data, NEW fails
  PROVE  LET r == apply_managed_socket(sock, addr, port, data, fails)
         IN /\ r[1] \in SocketStates \cup {Closed}
            /\ r[1] # Closed => SameBinding(r[1], addr, port)
<1>1. CASE SameBinding(sock, addr, port) \/ (sock = Closed /\ ~ data.up)
  BY <1>1 DEF apply_managed_socket
<1>2. CASE ~ (SameBinding(sock, addr, port) \/ (sock = Closed /\ ~ data.up))
  <2>1. Bound(addr, port) \in SocketStates
    BY DEF Bound, SocketStates
  <2>2. Bound(addr, port).addr = addr /\ Bound(addr, port).port = port
    BY DEF Bound
  <2>3. \/ apply_managed_socket(sock, addr, port, data, fails)[1] = Closed
        \/ apply_managed_socket(sock, addr, port, data, fails)[1] = Bound(addr, port)
    BY <1>2 DEF apply_managed_socket
  <2> QED BY <2>1, <2>2, <2>3 DEF SameBinding
<1> QED BY <1>1, <1>2

\* _apply_managed_socketpair() leaves the unicast socket of its family closed or
\* bound to the address of the interface, and those of the other family alone.
LEMMA ApplyPair ==
  ASSUME NEW socks \in SocketMaps, NEW f \in Families, NEW data \in IfData,
         NEW conf \in Configs, NEW fails,
         NEW r, r = apply_managed_socketpair(socks, f, data, conf, fails).socks
  PROVE  /\ r \in SocketMaps
         /\ r["unicast"][f] # Closed => SameBinding(r["unicast"][f], data.addr[f], conf.port)
         /\ \A g \in Families \ {f} : r["unicast"][g] = socks["unicast"][g]
<1> DEFINE uni == apply_managed_socket(socks["unicast"][f], data.addr[f], conf.port,
                                       data, "unicast" \in fails)
           mcs == apply_managed_socket(socks["multicast"][f], Group, conf.mcport,
                                       data, "multicast" \in fails)
           mc == IF f \in conf.mc THEN mcs ELSE <<Closed, 1>>
<1>1. data.addr[f] \in Int /\ Group \in Int /\ conf.port \in Nat /\ conf.mcport \in Nat
  BY DEF IfData, Group, Configs
<1>2. socks["unicast"][f] \in SocketStates \cup {Closed} /\ socks["multicast"][f] \in SocketStates \cup {Closed}
  BY DEF SocketMaps, Kinds
<1>3. uni[1] \in SocketStates \cup {Closed} /\ (uni[1] # Closed => SameBinding(uni[1], data.addr[f], conf.port))
  BY <1>1, <1>2, ApplySocket
<1>4. mc[1] \in SocketStates \cup {Closed}
  <2>1. mcs[1] \in SocketStates \cup {Closed}
    BY <1>1, <1>2, ApplySocket
  <2> QED BY <2>1
<1> HIDE DEF uni, mc
<1>5. CASE data.addr[f] = 0
  <2>1. r = [k \in Kinds |-> [socks[k] EXCEPT ![f] = Closed]]
    BY <1>5 DEF apply_managed_socketpair
  <2> QED BY <2>1 DEF SocketMaps, Kinds
<1>6. CASE data.addr[f] # 0
  <2>1. r = [k \in Kinds |-> [socks[k] EXCEPT ![f] =
               IF k = "multicast" THEN mc[1] ELSE IF mc[2] = -1 THEN Closed ELSE uni[1]]]
    BY <1>6 DEF apply_managed_socketpair, uni, mc
  <2> QED BY <2>1, <1>3, <1>4 DEF SocketMaps, Kinds
<1> QED BY <1>5, <1>6

\* The session differs in its sockets, targets, managed configuration or fate.
Alike(y, x) ==
  /\ y.exists = x.exists /\ y.refs = x.refs /\ y.osif = x.osif
  /\ y.listener = x.listener /\ y.target["unicast"] = x.target["unicast"]

\* One pass over both families leaves every unicast socket closed or bound.
LEMMA SocketsBind ==
  ASSUME NEW x \in Sessions, NEW fails, NEW y, y = Sockets(x, fails).x
  PROVE  /\ y \in Sessions /\ Alike(y, x) /\ y.target = x.target /\ y.man = x.man
         /\ y.cfg = x.cfg /\ y.undefined = x.undefined /\ Follows(y)
<1> DEFINE data == IF x.listener = "none" THEN NoData ELSE x.osif.data
           v4 == apply_managed_socketpair(x.socks, "v4", data, x.man, fails).socks
           v6 == apply_managed_socketpair(v4, "v6", data, x.man, fails).socks
<1>1. data \in IfData /\ x.man \in Configs /\ x.socks \in SocketMaps
  BY Rfc5444Assumption DEF IfData, NoData, Sessions, Interfaces
<1>2. Families = {"v4", "v6"}
  BY Rfc5444Assumption
<1> HIDE DEF data
<1>3. /\ v4 \in SocketMaps
      /\ v4["unicast"]["v4"] # Closed => SameBinding(v4["unicast"]["v4"], data.addr["v4"], x.man.port)
  BY <1>1, <1>2, ApplyPair
<1> HIDE DEF v4
<1>4. /\ v6 \in SocketMaps
      /\ v6["unicast"]["v6"] # Closed => SameBinding(v6["unicast"]["v6"], data.addr["v6"], x.man.port)
      /\ v6["unicast"]["v4"] = v4["unicast"]["v4"]
  BY <1>1, <1>2, <1>3, ApplyPair
<1>5. y = [x EXCEPT !.socks = v6]
  BY DEF Sockets, v4, data
<1> HIDE DEF v6
<1>6. Bind(v6, data, x.man.port)
  BY <1>2, <1>3, <1>4 DEF Bind
<1>7. y \in Sessions /\ y.socks = v6 /\ y.man = x.man /\ y.osif = x.osif /\ y.listener = x.listener
  BY <1>4, <1>5 DEF Sessions
<1>8. Follows(y)
  BY <1>6, <1>7 DEF Follows, data
<1>9. Alike(y, x) /\ y.target = x.target /\ y.cfg = x.cfg /\ y.undefined = x.undefined
  BY <1>5 DEF Sessions, Alike
<1> QED BY <1>7, <1>8, <1>9
-----------------------------------------------------------------------------
(* Targets and configurations *)

LEMMA UndefinedIsTyped ==
  ASSUME NEW x \in Sessions, NEW why \in {"freed", "recursion"}
  PROVE  /\ Undefined(x, why) \in Sessions /\ Undefined(x, why).undefined # "none"
         /\ Undefined(x, why).exists = x.exists
<1>1. Undefined(x, why) \in Sessions /\ Undefined(x, why).undefined # "none"
  BY DEF Undefined, Sessions
<1>2. Undefined(x, why).exists = x.exists
  BY DEF Undefined, Sessions
<1> QED BY <1>1, <1>2

LEMMA NewTargetIsTyped ==
  NewTarget \in TargetStates /\ NewTarget.holds # "own" /\ NewTarget # None /\ NewTarget.refs = 1
<1>1. NewTarget \in TargetStates /\ NewTarget.holds = "nothing" /\ NewTarget.refs = 1
  BY DEF NewTarget, TargetStates
<1> QED BY <1>1, Rfc5444Assumption

\* The replacement of the multicast targets keeps the unicast target and never
\* leaves a message without a timer.
LEMMA ReplaceKeeps ==
  ASSUME NEW x \in Sessions, NEW mc, NEW memory, x.undefined = "none",
         NEW y, y = ReplaceTargets(x, mc, memory)
  PROVE  /\ y \in Sessions /\ y.exists = x.exists
         /\ y.undefined = "none" => /\ Alike(y, x) /\ y.socks = x.socks /\ y.man = x.man
                                /\ (Timed(x) => Timed(y)) /\ (Follows(x) => Follows(y))
<1> DEFINE replaced(f) == IF f \in mc THEN IF memory THEN NewTarget ELSE x.target[f] ELSE None
           old4 == x.target["v4"] # None /\ ~ ("v4" \in mc /\ ~ memory)
           twice == old4 /\ x.target["v6"] = None
           target == [t \in Targets |-> IF t = "unicast" THEN x.target[t] ELSE replaced(t)]
<1>1. y = IF twice THEN Undefined(x, "freed") ELSE [x EXCEPT !.target = target]
  BY DEF ReplaceTargets
<1>2. x.target \in [Targets -> TargetStates \cup {None}]
  BY DEF Sessions
<1>3. target \in [Targets -> TargetStates \cup {None}] /\ target["unicast"] = x.target["unicast"]
  BY <1>2, NewTargetIsTyped DEF Targets
<1>4. Timed(x) => \A t \in Targets : target[t] # None /\ target[t].holds = "own" => target[t].timer
  BY <1>2, NewTargetIsTyped DEF Timed
<1> HIDE DEF target, twice
<1>5. CASE twice
  BY <1>1, <1>5, UndefinedIsTyped
<1>6. CASE ~ twice
  <2>1. y = [x EXCEPT !.target = target]
    BY <1>1, <1>6
  <2>2. y \in Sessions /\ y.target = target /\ y.socks = x.socks /\ y.man = x.man
        /\ y.listener = x.listener /\ y.osif = x.osif
    BY <2>1, <1>3 DEF Sessions
  <2>3. Alike(y, x)
    BY <2>1, <1>3 DEF Alike, Sessions
  <2>4. Timed(x) => Timed(y)
    BY <2>2, <1>4 DEF Timed
  <2>5. Follows(x) => Follows(y)
    BY <2>2 DEF Follows
  <2> QED BY <2>2, <2>3, <2>4, <2>5 DEF Alike
<1> QED BY <1>5, <1>6

\* _apply_managed() with its callback: afterwards the sockets follow the
\* interface, whatever failed, unless the program is in an undefined state.
LEMMA ApplyFollows ==
  ASSUME NEW x \in Sessions, NEW fails, NEW memory, x.undefined = "none",
         NEW y, y = apply_managed(x, fails, memory)
  PROVE  /\ y \in Sessions /\ y.exists = x.exists
         /\ y.undefined = "none" => /\ Alike(y, x) /\ Follows(y) /\ (Timed(x) => Timed(y))
<1> DEFINE first == Sockets(x, fails)
           x2 == [first.x EXCEPT !.man = x.cfg]
           again == Sockets(x2, fails)
<1>1. /\ first.x \in Sessions /\ Alike(first.x, x) /\ first.x.target = x.target
      /\ first.x.cfg = x.cfg /\ first.x.undefined = "none" /\ Follows(first.x)
  <2>1. PICK z : z = Sockets(x, fails).x
    OBVIOUS
  <2>2. z \in Sessions /\ Alike(z, x) /\ z.target = x.target
      /\ z.cfg = x.cfg /\ z.undefined = "none" /\ Follows(z)
    BY <2>1, SocketsBind
  <2> QED BY <2>1, <2>2
<1>2. y = IF x.listener = "dangling" THEN Undefined(x, "freed")
          ELSE IF ~ first.changed THEN first.x
          ELSE IF again.changed THEN Undefined(x, "recursion")
          ELSE ReplaceTargets(again.x, x.cfg.mc, memory)
  BY DEF apply_managed
<1> HIDE DEF first
<1>3. x2 \in Sessions /\ Alike(x2, x) /\ x2.target = x.target /\ x2.undefined = "none"
  BY <1>1 DEF Sessions, Alike
<1> HIDE DEF x2
<1>4. again.x \in Sessions /\ Alike(again.x, x2) /\ again.x.target = x2.target
      /\ again.x.undefined = "none" /\ Follows(again.x)
  BY <1>3, SocketsBind
<1> HIDE DEF again
<1>5. Timed(x) => Timed(first.x) /\ Timed(again.x)
  BY <1>1, <1>3, <1>4 DEF Timed
<1>6. Alike(again.x, x)
  BY <1>3, <1>4 DEF Alike
<1>7. CASE x.listener = "dangling"
  BY <1>2, <1>7, UndefinedIsTyped
<1>8. CASE x.listener # "dangling" /\ ~ first.changed
  BY <1>1, <1>2, <1>5, <1>8 DEF Alike
<1>9. CASE x.listener # "dangling" /\ first.changed /\ again.changed
  BY <1>2, <1>9, UndefinedIsTyped
<1>10. CASE x.listener # "dangling" /\ first.changed /\ ~ again.changed
  <2>1. y = ReplaceTargets(again.x, x.cfg.mc, memory)
    BY <1>2, <1>10
  <2>2. /\ y \in Sessions /\ y.exists = again.x.exists
        /\ y.undefined = "none" => /\ Alike(y, again.x) /\ (Timed(again.x) => Timed(y))
                               /\ (Follows(again.x) => Follows(y))
    BY <2>1, <1>4, ReplaceKeeps
  <2>3. Alike(y, again.x) => Alike(y, x)
    BY <1>6 DEF Alike
  <2>4. y.exists = x.exists
    BY <2>2, <1>6 DEF Alike
  <2> QED BY <2>2, <2>3, <2>4, <1>4, <1>5
<1> QED BY <1>7, <1>8, <1>9, <1>10
-----------------------------------------------------------------------------
(* The interface object and its listeners *)

LEMMA InterfaceAdd ==
  ASSUME NEW o \in Interfaces, o.exists <=> o.usage > 0, NEW k \in IfData,
         NEW readable \in BOOLEAN, NEW p, p = interface_add(o, k, readable)
  PROVE  /\ p \in Interfaces /\ p.exists /\ p.usage = o.usage + 1
         /\ p.data = k \/ p.timer
         /\ o.exists => p.data = o.data
<1>0. NoData \in IfData
  BY Rfc5444Assumption DEF NoData, IfData
<1>1. CASE o.exists
  <2>1. p = [exists |-> TRUE, usage |-> o.usage + 1, data |-> o.data, timer |-> TRUE]
    BY <1>1 DEF interface_add
  <2>2. p \in Interfaces
    BY <2>1 DEF Interfaces
  <2> QED BY <2>1, <2>2
<1>2. CASE ~ o.exists /\ readable
  <2>1. p = [exists |-> TRUE, usage |-> 1, timer |-> FALSE, data |-> k]
    BY <1>2 DEF interface_add
  <2>2. o.usage = 0
    BY <1>2 DEF Interfaces
  <2>3. p \in Interfaces
    BY <2>1 DEF Interfaces
  <2> QED BY <2>1, <2>2, <2>3, <1>2
<1>3. CASE ~ o.exists /\ ~ readable
  <2>1. p = [exists |-> TRUE, usage |-> 1, timer |-> TRUE, data |-> NoData]
    BY <1>3 DEF interface_add
  <2>2. o.usage = 0
    BY <1>3 DEF Interfaces
  <2>3. p \in Interfaces
    BY <2>1, <1>0 DEF Interfaces
  <2> QED BY <2>1, <2>2, <2>3, <1>3
<1> QED BY <1>1, <1>2, <1>3

LEMMA InterfaceRemove ==
  ASSUME NEW o \in Interfaces, o.exists, o.usage > 0, NEW p, p = interface_remove(o)
  PROVE  /\ p \in Interfaces /\ p.usage = o.usage - 1
         /\ p.exists <=> p.usage > 0
         /\ p.exists => p.data = o.data /\ p.timer = o.timer
<1>1. CASE o.usage > 1
  <2>1. p = [o EXCEPT !.usage = o.usage - 1]
    BY <1>1 DEF interface_remove
  <2>2. p \in Interfaces /\ p.usage = o.usage - 1 /\ p.data = o.data
    BY <1>1, <2>1 DEF Interfaces
  <2>3. p.exists = o.exists /\ p.timer = o.timer
    BY <2>1 DEF Interfaces
  <2>4. p.usage > 0
    BY <1>1, <2>2 DEF Interfaces
  <2> QED BY <2>2, <2>3, <2>4
<1>2. CASE ~ (o.usage > 1)
  <2>1. p = NoInterface
    BY <1>2 DEF interface_remove
  <2>2. o.usage = 1
    BY <1>2 DEF Interfaces
  <2>3. NoInterface \in Interfaces
    BY Rfc5444Assumption DEF NoInterface, Interfaces, NoData, IfData
  <2> QED BY <2>1, <2>2, <2>3 DEF NoInterface
<1> QED BY <1>1, <1>2

\* Nothing about the session's references, targets, configuration or fate.
SameSession(y, x) ==
  /\ y.exists = x.exists /\ y.refs = x.refs /\ y.target = x.target
  /\ y.cfg = x.cfg /\ y.port = x.port /\ y.undefined = x.undefined

\* A session that gives its registration up is no longer counted.
LEMMA DropListenerKeeps ==
  ASSUME NEW x \in Sessions, NEW oth \in BOOLEAN, Counted(x, oth), NEW k, NEW n,
         Noticed(x, k, n), NEW y, y = DropListener(x)
  PROVE  /\ y \in Sessions /\ Counted(y, oth) /\ Noticed(y, k, n) /\ y.listener # "on"
         /\ SameSession(y, x)
<1>1. CASE x.listener # "on"
  BY <1>1 DEF DropListener, SameSession
<1>2. CASE x.listener = "on"
  <2> DEFINE o == interface_remove(x.osif)
             l == IF o.exists THEN "off" ELSE "dangling"
  <2>0. x.osif \in Interfaces /\ x.osif.usage \in Nat
    BY DEF Sessions, Interfaces
  <2>1. x.osif.usage = One(oth) + 1 /\ x.osif.usage > 0 /\ x.osif.exists
    BY <1>2, <2>0 DEF Counted, One
  <2>2. /\ o \in Interfaces /\ o.usage = x.osif.usage - 1 /\ (o.exists <=> o.usage > 0)
        /\ o.exists => o.data = x.osif.data /\ o.timer = x.osif.timer
    BY <2>0, <2>1, InterfaceRemove
  <2>3. y = [x EXCEPT !.osif = o, !.listener = l]
    BY <1>2 DEF DropListener
  <2>4. l \in {"off", "dangling"}
    OBVIOUS
  <2> HIDE DEF o, l
  <2>5. y \in Sessions /\ y.listener = l /\ y.osif = o
    BY <2>2, <2>3, <2>4 DEF Sessions
  <2>6. SameSession(y, x)
    BY <2>3 DEF Sessions, SameSession
  <2>7. Counted(y, oth)
    <3>1. y.osif.usage = One(oth)
      BY <2>1, <2>2, <2>5 DEF One
    <3>2. y.listener # "on"
      BY <2>4, <2>5
    <3> QED BY <3>1, <3>2, <2>2, <2>5 DEF Counted, One
  <2>8. Noticed(y, k, n)
    BY <2>1, <2>2, <2>5 DEF Noticed
  <2> QED BY <2>4, <2>5, <2>6, <2>7, <2>8
<1> QED BY <1>1, <1>2

LEMMA AllClosedIsTyped == AllClosed \in SocketMaps
BY DEF AllClosed, SocketMaps

LEMMA RemoveManagedKeeps ==
  ASSUME NEW x \in Sessions, NEW oth \in BOOLEAN, Counted(x, oth), NEW k, NEW n,
         Noticed(x, k, n), NEW y, y = oonf_packet_remove_managed(x)
  PROVE  /\ y \in Sessions /\ Counted(y, oth) /\ Noticed(y, k, n) /\ y.listener # "on"
         /\ SameSession(y, x)
<1> DEFINE d == DropListener(x)
<1>1. /\ d \in Sessions /\ Counted(d, oth) /\ Noticed(d, k, n) /\ d.listener # "on"
      /\ SameSession(d, x)
  BY DropListenerKeeps
<1>2. y = [d EXCEPT !.socks = AllClosed]
  BY DEF oonf_packet_remove_managed
<1> HIDE DEF d
<1>3. y \in Sessions /\ y.listener = d.listener /\ y.osif = d.osif
  BY <1>1, <1>2, AllClosedIsTyped DEF Sessions
<1>4. SameSession(y, x)
  BY <1>1, <1>2 DEF SameSession, Sessions
<1> QED BY <1>1, <1>3, <1>4 DEF Counted, Noticed
-----------------------------------------------------------------------------
(* Configurations and references *)

\* What the invariant says of a session beside its references.
Sound(x, oth, k, n) == Timed(x) /\ Follows(x) /\ Counted(x, oth) /\ Noticed(x, k, n)

\* What the references depend on.
SameHold(y, x) ==
  /\ y.exists = x.exists /\ y.refs = x.refs
  /\ y.target["unicast"] = x.target["unicast"]

LEMMA ReferencedSame ==
  ASSUME NEW x, NEW y, SameHold(y, x), NEW u, NEW sec, Referenced(x, u, sec)
  PROVE  Referenced(y, u, sec)
BY DEF SameHold, Referenced

\* oonf_packet_apply_managed() registers the session, if the name is new, and
\* leaves sockets that follow the interface as it was read.
LEMMA PacketApplyKeeps ==
  ASSUME NEW x \in Sessions, x.undefined = "none", kernel \in IfData,
         NEW fails, NEW memory, NEW readable \in BOOLEAN, NEW oth \in BOOLEAN, NEW n,
         Timed(x), Counted(x, oth), Noticed(x, kernel, n),
         NEW y, y = oonf_packet_apply_managed(x, fails, memory, readable)
  PROVE  /\ y \in Sessions /\ y.exists = x.exists
         /\ y.undefined = "none" => Sound(y, oth, kernel, n) /\ SameHold(y, x)
<1> DEFINE d == DropListener(x)
           o == interface_add(d.osif, kernel, readable)
           named == [d EXCEPT !.man = x.cfg, !.named = TRUE, !.listener = "on", !.osif = o]
           z == IF x.named THEN [x EXCEPT !.man = x.cfg] ELSE named
<1>1. y = apply_managed(z, fails, memory)
  BY DEF oonf_packet_apply_managed
<1>2. /\ z \in Sessions /\ z.undefined = "none" /\ z.exists = x.exists /\ z.refs = x.refs
      /\ z.target = x.target /\ Counted(z, oth) /\ Noticed(z, kernel, n)
  <2>1. CASE x.named
    <3>1. z = [x EXCEPT !.man = x.cfg]
      BY <2>1
    <3> HIDE DEF z
    <3>2. z \in Sessions /\ z.undefined = "none" /\ z.refs = x.refs /\ z.target = x.target
          /\ z.osif = x.osif /\ z.listener = x.listener
      BY <3>1 DEF Sessions
    <3>3. z.exists = x.exists
      BY <3>1 DEF Sessions
    <3> QED BY <3>2, <3>3 DEF Counted, Noticed
  <2>2. CASE ~ x.named
    <3>1. z = named
      BY <2>2
    <3> HIDE DEF z
    <3>2. /\ d \in Sessions /\ Counted(d, oth) /\ Noticed(d, kernel, n) /\ d.listener # "on"
          /\ SameSession(d, x)
      BY DropListenerKeeps
    <3> HIDE DEF d
    <3>3. d.osif \in Interfaces /\ d.osif.usage = One(oth) /\ (d.osif.exists <=> d.osif.usage > 0)
      BY <3>2 DEF Sessions, Counted, One
    <3>4. o \in Interfaces /\ o.exists /\ o.usage = d.osif.usage + 1 /\ (o.data = kernel \/ o.timer)
      BY <3>3, InterfaceAdd
    <3> HIDE DEF o
    <3>5. x.cfg \in Configs
      BY DEF Sessions
    <3>6. z \in Sessions /\ z.listener = "on" /\ z.osif = o /\ z.target = d.target
          /\ z.refs = d.refs /\ z.undefined = d.undefined
      BY <3>1, <3>2, <3>4, <3>5 DEF Sessions
    <3>7. z.exists = d.exists
      BY <3>1, <3>2 DEF Sessions
    <3>8. z.osif.usage = One(oth) + One(z.listener = "on") /\ z.osif.usage > 0
      BY <3>3, <3>4, <3>6 DEF One
    <3>9. Counted(z, oth)
      BY <3>4, <3>6, <3>8 DEF Counted
    <3>10. Noticed(z, kernel, n)
      BY <3>4, <3>6 DEF Noticed
    <3> QED BY <3>2, <3>6, <3>7, <3>9, <3>10 DEF SameSession
  <2> QED BY <2>1, <2>2
<1> HIDE DEF z
<1>3. Timed(z)
  BY <1>2 DEF Timed
<1>4. /\ y \in Sessions /\ y.exists = z.exists
      /\ y.undefined = "none" => Alike(y, z) /\ Follows(y) /\ Timed(y)
  BY <1>1, <1>2, <1>3, ApplyFollows
<1>5. Alike(y, z) => Counted(y, oth) /\ Noticed(y, kernel, n) /\ SameHold(y, x)
  BY <1>2 DEF Alike, Counted, Noticed, SameHold
<1> QED BY <1>2, <1>4, <1>5 DEF Sound

\* oonf_rfc5444_reconfigure_interface(), with or without a port of the protocol.
LEMMA ReconfigureKeeps ==
  ASSUME NEW x \in Sessions, x.undefined = "none", kernel \in IfData, NEW cfg \in Configs,
         NEW fails, NEW memory, NEW readable \in BOOLEAN, NEW oth \in BOOLEAN, NEW n,
         Sound(x, oth, kernel, n),
         NEW y, y = Reconfigure(x, cfg, fails, memory, readable)
  PROVE  /\ y \in Sessions /\ y.exists = x.exists
         /\ y.undefined = "none" => Sound(y, oth, kernel, n) /\ SameHold(y, x)
<1> DEFINE full == [mc |-> cfg.mc, port |-> IF cfg.port = 0 THEN x.port ELSE cfg.port,
                    mcport |-> IF cfg.mcport = 0 THEN x.port ELSE cfg.mcport]
           x2 == [x EXCEPT !.cfg = full]
           z == oonf_packet_apply_managed(x2, fails, memory, readable)
<1>1. y = IF x.port = 0 THEN x2
          ELSE IF z.undefined # "none" THEN z ELSE ReplaceTargets(z, cfg.mc, memory)
  BY DEF Reconfigure
<1>2. full \in Configs
  BY DEF Configs, Sessions
<1> HIDE DEF full
<1>3. x2 \in Sessions /\ x2.undefined = "none" /\ x2.refs = x.refs /\ x2.target = x.target
      /\ x2.osif = x.osif /\ x2.listener = x.listener /\ x2.socks = x.socks /\ x2.man = x.man
  BY <1>2 DEF Sessions
<1>4. x2.exists = x.exists
  BY DEF Sessions
<1> HIDE DEF x2
<1>5. Sound(x2, oth, kernel, n) /\ SameHold(x2, x)
  BY <1>3, <1>4 DEF Sound, Timed, Follows, Counted, Noticed, SameHold
<1>6. /\ z \in Sessions /\ z.exists = x2.exists
      /\ z.undefined = "none" => Sound(z, oth, kernel, n) /\ SameHold(z, x2)
  BY <1>3, <1>5, PacketApplyKeeps DEF Sound
<1> HIDE DEF z
<1>7. CASE x.port = 0
  BY <1>1, <1>3, <1>4, <1>5, <1>7
<1>8. CASE x.port # 0 /\ z.undefined # "none"
  BY <1>1, <1>4, <1>6, <1>8
<1>9. CASE x.port # 0 /\ z.undefined = "none"
  <2>1. y = ReplaceTargets(z, cfg.mc, memory)
    BY <1>1, <1>9
  <2>2. /\ y \in Sessions /\ y.exists = z.exists
        /\ y.undefined = "none" => /\ Alike(y, z) /\ (Timed(z) => Timed(y))
                                   /\ (Follows(z) => Follows(y))
    BY <2>1, <1>6, <1>9, ReplaceKeeps
  <2>3. Alike(y, z) => /\ Counted(z, oth) => Counted(y, oth)
                       /\ Noticed(z, kernel, n) => Noticed(y, kernel, n)
                       /\ SameHold(z, x2) => SameHold(y, x)
    BY <1>5 DEF Alike, Counted, Noticed, SameHold
  <2> QED BY <2>2, <2>3, <1>4, <1>6, <1>9 DEF Sound
<1> QED BY <1>7, <1>8, <1>9

LEMMA AddInterfaceKeeps ==
  ASSUME NEW x \in Sessions, NEW oth, NEW k, NEW n, Sound(x, oth, k, n),
         NEW y, y = AddInterface(x)
  PROVE  /\ y \in Sessions /\ Sound(y, oth, k, n) /\ y.undefined = x.undefined
         /\ y.exists /\ y.refs = (IF x.exists THEN x.refs + 1 ELSE 1)
         /\ y.target = x.target
<1>1. y = IF x.exists THEN [x EXCEPT !.refs = x.refs + 1] ELSE [x EXCEPT !.exists = TRUE, !.refs = 1]
  BY DEF AddInterface
<1>2. /\ y \in Sessions /\ y.refs = (IF x.exists THEN x.refs + 1 ELSE 1) /\ y.target = x.target
      /\ y.osif = x.osif /\ y.listener = x.listener /\ y.socks = x.socks /\ y.man = x.man
      /\ y.undefined = x.undefined
  <2>1. CASE x.exists
    <3>1. y = [x EXCEPT !.refs = x.refs + 1]
      BY <1>1, <2>1
    <3> QED BY <2>1, <3>1 DEF Sessions
  <2>2. CASE ~ x.exists
    <3>1. y = [x EXCEPT !.exists = TRUE, !.refs = 1]
      BY <1>1, <2>2
    <3>2. y \in Sessions
      <4>1. TRUE \in BOOLEAN /\ 1 \in Nat
        OBVIOUS
      <4> QED BY <3>1, <4>1 DEF Sessions
    <3>3. /\ y.refs = 1 /\ y.target = x.target /\ y.osif = x.osif /\ y.listener = x.listener
          /\ y.socks = x.socks /\ y.man = x.man /\ y.undefined = x.undefined
      BY <3>1 DEF Sessions
    <3> QED BY <2>2, <3>2, <3>3
  <2> QED BY <2>1, <2>2
<1>3. y.exists
  BY <1>1 DEF Sessions
<1> QED BY <1>2, <1>3 DEF Sound, Timed, Follows, Counted, Noticed

\* oonf_rfc5444_remove_interface(): one reference less, or no session.
LEMMA RemoveInterfaceKeeps ==
  ASSUME NEW x \in Sessions, NEW oth \in BOOLEAN, NEW k, NEW n, Sound(x, oth, k, n),
         NEW y, y = RemoveInterface(x)
  PROVE  /\ y \in Sessions /\ Sound(y, oth, k, n) /\ y.undefined = x.undefined
         /\ x.refs > 1 => /\ y.exists = x.exists /\ y.refs = x.refs - 1 /\ y.target = x.target
         /\ ~ (x.refs > 1) => ~ y.exists /\ y.target["unicast"] = None
<1>1. CASE x.refs > 1
  <2>1. y = [x EXCEPT !.refs = x.refs - 1]
    BY <1>1 DEF RemoveInterface
  <2>2. /\ y \in Sessions /\ y.refs = x.refs - 1 /\ y.target = x.target
        /\ y.osif = x.osif /\ y.listener = x.listener /\ y.socks = x.socks /\ y.man = x.man
        /\ y.undefined = x.undefined
    BY <1>1, <2>1 DEF Sessions
  <2>3. y.exists = x.exists
    BY <2>1 DEF Sessions
  <2> QED BY <1>1, <2>2, <2>3 DEF Sound, Timed, Follows, Counted, Noticed
<1>2. CASE ~ (x.refs > 1)
  <2> DEFINE d == oonf_packet_remove_managed(x)
  <2>1. /\ d \in Sessions /\ Counted(d, oth) /\ Noticed(d, k, n) /\ d.listener # "on"
        /\ SameSession(d, x)
    BY RemoveManagedKeeps DEF Sound
  <2>2. y = NoSession(d.port, d.osif, d.undefined)
    BY <1>2 DEF RemoveInterface, Destroyed
  <2> HIDE DEF d
  <2>3. NoConfig \in Configs
    BY DEF NoConfig, Configs
  <2>4. d.port \in Nat /\ d.osif \in Interfaces /\ d.undefined \in {"none", "freed", "recursion"}
    BY <2>1 DEF Sessions
  <2>5. y \in Sessions
    BY <2>2, <2>3, <2>4, AllClosedIsTyped DEF Sessions, NoSession
  <2>6. /\ y.exists = FALSE /\ y.osif = d.osif /\ y.undefined = d.undefined
        /\ y.target = [t \in Targets |-> None] /\ y.listener = "none"
    BY <2>2 DEF NoSession
  <2>7. Timed(y) /\ y.target["unicast"] = None
    BY <2>6 DEF Timed, Targets
  <2>8. Follows(y)
    BY <2>6 DEF Follows
  <2>9. Counted(y, oth) /\ Noticed(y, k, n)
    BY <2>1, <2>6 DEF Counted, Noticed, One
  <2> QED BY <1>2, <2>1, <2>5, <2>6, <2>7, <2>8, <2>9 DEF Sound, SameSession
<1> QED BY <1>1, <1>2
-----------------------------------------------------------------------------
(* Actions: each keeps the invariant of a running program *)

\* The invariant while the program runs, apart from the types.
RunningInv == Sound(s, other, kernel, note) /\ Referenced(s, user, section)

LEMMA InitInv == Init => Inv
<1> SUFFICES ASSUME Init PROVE Inv
  OBVIOUS
<1>1. NoData \in IfData
  BY Rfc5444Assumption DEF NoData, IfData
<1>2. NoInterface \in Interfaces
  BY <1>1 DEF NoInterface, Interfaces
<1>3. NoConfig \in Configs
  BY DEF NoConfig, Configs
<1>4. s = NoSession(0, NoInterface, "none")
  BY DEF Init
<1>5. s \in Sessions
  BY <1>2, <1>3, <1>4, AllClosedIsTyped DEF NoSession, Sessions
<1>6. /\ s.exists = FALSE /\ s.osif = NoInterface /\ s.target = [t \in Targets |-> None]
      /\ s.listener = "none"
  BY <1>4 DEF NoSession
<1>7. TypeOK
  BY <1>5, KernelDataAssumption, EmptySeq DEF Init, TypeOK, NoReferences
<1>8. Timed(s)
  BY <1>6 DEF Timed
<1>9. Follows(s)
  BY <1>6 DEF Follows
<1>10. Counted(s, other)
  BY <1>6 DEF Counted, One, NoInterface, Init
<1>11. Noticed(s, kernel, note)
  BY <1>6 DEF Noticed, NoInterface
<1>12. Referenced(s, user, section)
  BY <1>6 DEF Referenced, Init, NoReferences, Targets
<1> QED BY <1>7, <1>8, <1>9, <1>10, <1>11, <1>12 DEF Inv

LEMMA OutcomeIsTyped ==
  ASSUME NEW o \in Outcomes
  PROVE  o.readable \in BOOLEAN
BY DEF Outcomes

LEMMA SectionChangedKeeps ==
  ASSUME TypeOK, Running, RunningInv, NEW mc \in McChoices, NEW o \in Outcomes,
         cb_cfg_interface_changed(mc, o)
  PROVE  Inv' /\ s'.exists
<1> DEFINE x == IF s.exists THEN s ELSE AddInterface(s)
           cfg == [NoConfig EXCEPT !.mc = mc]
<1>1. /\ s' = Reconfigure(x, cfg, o.fails, o.memory, o.readable)
      /\ section' = IF ~ s.exists THEN "took" ELSE IF section = "none" THEN "found" ELSE section
      /\ kernel' = kernel /\ note' = note /\ user' = user /\ other' = other
  BY DEF cb_cfg_interface_changed
<1>2. cfg \in Configs
  BY Rfc5444Assumption DEF NoConfig, Configs
<1>3. s \in Sessions /\ s.undefined = "none" /\ kernel \in IfData /\ other \in BOOLEAN
      /\ Sound(s, other, kernel, note) /\ Referenced(s, user, section)
  BY DEF TypeOK, Running, RunningInv
<1>4. x \in Sessions /\ x.undefined = "none" /\ Sound(x, other, kernel, note)
      /\ Referenced(x, user, section') /\ x.exists
  <2>1. CASE s.exists
    BY <1>1, <1>3, <2>1 DEF Referenced
  <2>2. CASE ~ s.exists
    <3>1. x = AddInterface(s)
      BY <2>2
    <3> HIDE DEF x
    <3>2. /\ x \in Sessions /\ Sound(x, other, kernel, note) /\ x.undefined = "none"
          /\ x.exists /\ x.refs = 1 /\ x.target = s.target
      BY <1>3, <2>2, <3>1, AddInterfaceKeeps
    <3>3. user = NoReferences /\ section' = "took"
      BY <1>1, <1>3, <2>2 DEF Referenced
    <3>4. user.target = 0 /\ user.iface = 0
      BY <3>3 DEF NoReferences
    <3>5. Referenced(x, user, section')
      BY <1>3, <3>2, <3>3, <3>4 DEF Referenced, One
    <3> QED BY <3>2, <3>5
  <2> QED BY <2>1, <2>2
<1> HIDE DEF x, cfg
<1>5. /\ s' \in Sessions /\ s'.exists
      /\ s'.undefined = "none" => Sound(s', other, kernel, note) /\ SameHold(s', x)
  <2>1. o.readable \in BOOLEAN
    BY OutcomeIsTyped
  <2>2. /\ s' \in Sessions
        /\ s'.undefined = "none" => Sound(s', other, kernel, note) /\ SameHold(s', x)
    BY <1>1, <1>2, <1>3, <1>4, <2>1, ReconfigureKeeps
  <2>3. s'.exists
    BY <1>1, <1>2, <1>3, <1>4, <2>1, ReconfigureKeeps
  <2> QED BY <2>2, <2>3
<1>6. s'.undefined = "none" => Referenced(s', user, section')
  BY <1>4, <1>5, ReferencedSame
<1>7. TypeOK'
  BY <1>1, <1>5 DEF TypeOK
<1> QED BY <1>1, <1>4, <1>5, <1>6, <1>7 DEF Inv, Running, Sound

\* Everything but the session stays as it is.
LEMMA SessionStep ==
  ASSUME TypeOK, s' \in Sessions, kernel' = kernel, note' = note, user' = user,
         other' = other, section' = section,
         s'.undefined = "none" => Sound(s', other, kernel, note) /\ Referenced(s', user, section)
  PROVE  Inv'
BY DEF Inv, TypeOK, Running, Sound

LEMMA ProtocolKeeps ==
  ASSUME TypeOK, Running, RunningInv, NEW p \in Ports, NEW o \in Outcomes,
         oonf_rfc5444_reconfigure_protocol(p, o)
  PROVE  Inv'
<1> DEFINE x == [s EXCEPT !.port = p]
           d == oonf_packet_remove_managed(x)
<1>1. /\ s' = IF ~ s.exists THEN x ELSE Reconfigure(d, s.cfg, o.fails, o.memory, o.readable)
      /\ kernel' = kernel /\ note' = note /\ user' = user /\ other' = other /\ section' = section
  BY DEF oonf_rfc5444_reconfigure_protocol
<1>2. s \in Sessions /\ s.undefined = "none" /\ kernel \in IfData /\ other \in BOOLEAN
      /\ Sound(s, other, kernel, note) /\ Referenced(s, user, section) /\ s.cfg \in Configs
  BY DEF TypeOK, Running, RunningInv, Sessions
<1>3. p \in Nat
  BY Rfc5444Assumption
<1>4. x \in Sessions /\ x.undefined = "none" /\ x.refs = s.refs /\ x.target = s.target
      /\ x.osif = s.osif /\ x.listener = s.listener /\ x.socks = s.socks /\ x.man = s.man
  BY <1>2, <1>3 DEF Sessions
<1>5. x.exists = s.exists
  BY <1>2 DEF Sessions
<1> HIDE DEF x
<1>6. Sound(x, other, kernel, note)
  BY <1>2, <1>4 DEF Sound, Timed, Follows, Counted, Noticed
<1>7. SameHold(x, s)
  BY <1>4, <1>5 DEF SameHold
<1>8. CASE ~ s.exists
  BY <1>1, <1>2, <1>4, <1>6, <1>7, <1>8, ReferencedSame, SessionStep
<1>9. CASE s.exists
  <2>1. /\ d \in Sessions /\ Counted(d, other) /\ Noticed(d, kernel, note) /\ d.listener # "on"
        /\ SameSession(d, x)
    BY <1>2, <1>4, <1>6, RemoveManagedKeeps DEF Sound
  <2> HIDE DEF d
  <2>2. Sound(d, other, kernel, note) /\ SameHold(d, s) /\ d.undefined = "none"
    BY <1>4, <1>5, <1>6, <2>1 DEF Sound, Timed, Follows, SameSession, SameHold
  <2>3. s' = Reconfigure(d, s.cfg, o.fails, o.memory, o.readable)
    BY <1>1, <1>9
  <2>4. /\ s' \in Sessions
        /\ s'.undefined = "none" => Sound(s', other, kernel, note) /\ SameHold(s', d)
    BY <1>2, <2>1, <2>2, <2>3, OutcomeIsTyped, ReconfigureKeeps
  <2>5. SameHold(s', d) => Referenced(s', user, section)
    BY <1>2, <2>2, ReferencedSame
  <2> QED BY <1>1, <2>4, <2>5, SessionStep
<1> QED BY <1>8, <1>9
LEMMA AddKeeps ==
  ASSUME TypeOK, Running, RunningInv, oonf_rfc5444_add_interface
  PROVE  Inv'
<1>1. /\ s' = AddInterface(s) /\ user' = [user EXCEPT !.iface = user.iface + 1]
      /\ kernel' = kernel /\ note' = note /\ other' = other /\ section' = section
  BY DEF oonf_rfc5444_add_interface, environment
<1>2. s \in Sessions /\ s.undefined = "none" /\ user \in [iface : Nat, target : Nat]
      /\ Sound(s, other, kernel, note) /\ Referenced(s, user, section)
  BY DEF TypeOK, Running, RunningInv
<1>3. /\ s' \in Sessions /\ Sound(s', other, kernel, note) /\ s'.undefined = "none"
      /\ s'.exists /\ s'.refs = (IF s.exists THEN s.refs + 1 ELSE 1) /\ s'.target = s.target
  BY <1>1, <1>2, AddInterfaceKeeps
<1>4. user' \in [iface : Nat, target : Nat] /\ user'.iface = user.iface + 1 /\ user'.target = user.target
  BY <1>1, <1>2
<1>5. s.refs \in Nat
  BY <1>2 DEF Sessions
<1>6. Referenced(s', user', section')
  <2>1. CASE s.exists
    BY <1>1, <1>2, <1>3, <1>4, <1>5, <2>1 DEF Referenced, One
  <2>2. CASE ~ s.exists
    BY <1>1, <1>2, <1>3, <1>4, <2>2 DEF Referenced
  <2> QED BY <2>1, <2>2
<1>7. TypeOK'
  BY <1>1, <1>3, <1>4 DEF TypeOK
<1> QED BY <1>1, <1>3, <1>6, <1>7 DEF Inv, Running, Sound

LEMMA RemoveKeeps ==
  ASSUME TypeOK, Running, RunningInv, oonf_rfc5444_remove_interface
  PROVE  Inv'
<1> DEFINE u == [user EXCEPT !.iface = user.iface - 1]
<1>1. /\ s' = RemoveInterface(s) /\ user' = (IF s'.exists THEN u ELSE NoReferences)
      /\ kernel' = kernel /\ note' = note /\ other' = other /\ section' = section
      /\ user.iface > 0
  BY DEF oonf_rfc5444_remove_interface, UserKeeps, environment
<1>2. s \in Sessions /\ s.undefined = "none" /\ user \in [iface : Nat, target : Nat]
      /\ Sound(s, other, kernel, note) /\ Referenced(s, user, section) /\ other \in BOOLEAN
  BY DEF TypeOK, Running, RunningInv
<1>3. /\ s' \in Sessions /\ Sound(s', other, kernel, note) /\ s'.undefined = "none"
      /\ s.refs > 1 => /\ s'.exists = s.exists /\ s'.refs = s.refs - 1 /\ s'.target = s.target
      /\ ~ (s.refs > 1) => ~ s'.exists /\ s'.target["unicast"] = None
  BY <1>1, <1>2, RemoveInterfaceKeeps
<1>4. u \in [iface : Nat, target : Nat] /\ u.iface = user.iface - 1 /\ u.target = user.target
  BY <1>1, <1>2
<1> HIDE DEF u
<1>5. s.refs \in Nat /\ s.exists
  BY <1>1, <1>2 DEF Sessions, Referenced, NoReferences
<1>6. NoReferences \in [iface : Nat, target : Nat] /\ NoReferences.target = 0
  BY DEF NoReferences
<1>7. Referenced(s', user', section')
  <2>1. CASE s.refs > 1
    <3>1. s'.exists /\ s'.refs = s.refs - 1 /\ s'.target = s.target
      BY <1>3, <1>5, <2>1
    <3>2. user' = u
      BY <1>1, <3>1
    <3>3. /\ u.target = 0 <=> s'.target["unicast"] = None
          /\ s'.target["unicast"] # None => s'.target["unicast"].refs = u.target
          /\ s'.refs > 0
      BY <1>2, <1>4, <1>5, <2>1, <3>1 DEF Referenced
    <3>4. section = "took" => s'.refs = 1 + u.iface + One(u.target > 0)
      BY <1>2, <1>4, <1>5, <3>1 DEF Referenced, One
    <3> QED BY <1>1, <3>1, <3>2, <3>3, <3>4 DEF Referenced
  <2>2. CASE ~ (s.refs > 1)
    <3>1. section # "took"
      BY <1>1, <1>2, <2>2 DEF Referenced, One
    <3> QED BY <1>1, <1>3, <1>6, <2>2, <3>1 DEF Referenced
  <2> QED BY <2>1, <2>2
<1>8. user' \in [iface : Nat, target : Nat]
  BY <1>1, <1>4, <1>6
<1>9. TypeOK'
  BY <1>1, <1>3, <1>8 DEF TypeOK
<1> QED BY <1>1, <1>3, <1>7, <1>9 DEF Inv, Running, Sound

LEMMA SectionRemovedKeeps ==
  ASSUME TypeOK, Running, RunningInv, SectionRemoved
  PROVE  Inv' /\ (section = "took" /\ user.iface > 0 => s'.exists)
<1>1. /\ s' = (IF s.exists THEN RemoveInterface(s) ELSE s)
      /\ user' = (IF s'.exists THEN user ELSE NoReferences)
      /\ kernel' = kernel /\ note' = note /\ other' = other /\ section' = "none"
  BY DEF SectionRemoved, UserKeeps, environment
<1>2. s \in Sessions /\ s.undefined = "none" /\ user \in [iface : Nat, target : Nat]
      /\ Sound(s, other, kernel, note) /\ Referenced(s, user, section) /\ other \in BOOLEAN
  BY DEF TypeOK, Running, RunningInv
<1>3. NoReferences \in [iface : Nat, target : Nat] /\ NoReferences.target = 0
  BY DEF NoReferences
<1>4. user' \in [iface : Nat, target : Nat]
  BY <1>1, <1>2, <1>3
<1>5. CASE ~ s.exists
  <2>1. s' = s /\ user' = user
    BY <1>1, <1>2, <1>5 DEF Referenced
  <2>2. Referenced(s', user', section')
    BY <1>1, <1>2, <1>5, <2>1 DEF Referenced
  <2>3. TypeOK'
    BY <1>1, <1>2, <2>1 DEF TypeOK
  <2>4. section # "took"
    BY <1>2, <1>5 DEF Referenced
  <2> QED BY <1>1, <1>2, <2>1, <2>2, <2>3, <2>4 DEF Inv, Sound
<1>6. CASE s.exists
  <2>1. /\ s' \in Sessions /\ Sound(s', other, kernel, note) /\ s'.undefined = "none"
        /\ s.refs > 1 => /\ s'.exists = s.exists /\ s'.refs = s.refs - 1 /\ s'.target = s.target
        /\ ~ (s.refs > 1) => ~ s'.exists /\ s'.target["unicast"] = None
    <3>1. s' = RemoveInterface(s)
      BY <1>1, <1>6
    <3> QED BY <1>2, <3>1, RemoveInterfaceKeeps
  <2>2. s.refs \in Nat
    BY <1>2 DEF Sessions
  <2>3. Referenced(s', user', section')
    <3>1. CASE s.refs > 1
      <4>1. s'.exists /\ s'.refs > 0 /\ s'.target = s.target
        <5>1. s'.refs = s.refs - 1 /\ s'.target = s.target /\ s'.exists = s.exists
          BY <2>1, <3>1
        <5>2. s'.refs > 0
          BY <2>2, <3>1, <5>1
        <5> QED BY <1>6, <5>1, <5>2
      <4>2. user' = user
        BY <1>1, <4>1
      <4> QED BY <1>1, <1>2, <4>1, <4>2 DEF Referenced
    <3>2. CASE ~ (s.refs > 1)
      BY <1>1, <1>3, <2>1, <3>2 DEF Referenced
    <3> QED BY <3>1, <3>2
  <2>4. section = "took" /\ user.iface > 0 => s.refs > 1
    BY <1>2, <2>2 DEF Referenced, One
  <2>5. TypeOK'
    BY <1>1, <1>4, <2>1 DEF TypeOK
  <2> QED BY <1>1, <1>6, <2>1, <2>3, <2>4, <2>5 DEF Inv, Sound
<1> QED BY <1>5, <1>6
\* The session with another unicast target.
LEMMA WithUnicastKeeps ==
  ASSUME NEW x \in Sessions, NEW oth, NEW k, NEW n, Sound(x, oth, k, n),
         NEW target \in TargetStates \cup {None},
         target # None /\ target.holds = "own" => target.timer,
         NEW y, y = WithUnicast(x, target)
  PROVE  /\ y \in Sessions /\ Sound(y, oth, k, n) /\ y.undefined = x.undefined
         /\ y.exists = x.exists /\ y.refs = x.refs /\ y.target["unicast"] = target
<1> DEFINE all == [x.target EXCEPT !["unicast"] = target]
<1>1. y = [x EXCEPT !.target = all]
  BY DEF WithUnicast
<1>2. x.target \in [Targets -> TargetStates \cup {None}] /\ "unicast" \in Targets
  BY DEF Sessions, Targets
<1>3. all \in [Targets -> TargetStates \cup {None}] /\ all["unicast"] = target
      /\ \A t \in Targets : t # "unicast" => all[t] = x.target[t]
  BY <1>2
<1> HIDE DEF all
<1>4. /\ y \in Sessions /\ y.refs = x.refs /\ y.target = all /\ y.undefined = x.undefined
      /\ y.osif = x.osif /\ y.listener = x.listener /\ y.socks = x.socks /\ y.man = x.man
  BY <1>1, <1>3 DEF Sessions
<1>5. y.exists = x.exists
  BY <1>1 DEF Sessions
<1>6. Timed(y)
  BY <1>2, <1>3, <1>4 DEF Sound, Timed
<1>7. Follows(y) /\ Counted(y, oth) /\ Noticed(y, k, n)
  BY <1>4 DEF Sound, Follows, Counted, Noticed
<1> QED BY <1>3, <1>4, <1>5, <1>6, <1>7 DEF Sound

\* The number of users of a target, without anything else of it.
LEMMA TargetUsers ==
  ASSUME NEW v \in TargetStates, NEW r \in Nat, NEW w, w = [v EXCEPT !.refs = r],
         v.holds = "own" => v.timer
  PROVE  w \in TargetStates /\ w # None /\ w.refs = r /\ (w.holds = "own" => w.timer)
<1>1. w \in TargetStates /\ w.refs = r /\ w.holds = v.holds
  BY DEF TargetStates
<1>2. w.timer = v.timer
  BY DEF TargetStates
<1>3. None \notin TargetStates
  BY Rfc5444Assumption
<1> QED BY <1>1, <1>2, <1>3

LEMMA AddTargetKeeps ==
  ASSUME TypeOK, Running, RunningInv, oonf_rfc5444_add_target
  PROVE  Inv'
<1> DEFINE unicast == s.target["unicast"]
<1>1. /\ s' = (IF unicast # None THEN WithUnicast(s, [unicast EXCEPT !.refs = unicast.refs + 1])
               ELSE WithUnicast([s EXCEPT !.refs = s.refs + 1], NewTarget))
      /\ user' = [user EXCEPT !.target = user.target + 1] /\ user.iface > 0
      /\ kernel' = kernel /\ note' = note /\ other' = other /\ section' = section
  BY DEF oonf_rfc5444_add_target, environment
<1>2. s \in Sessions /\ s.undefined = "none" /\ user \in [iface : Nat, target : Nat]
      /\ Sound(s, other, kernel, note) /\ Referenced(s, user, section)
  BY DEF TypeOK, Running, RunningInv
<1>3. user' \in [iface : Nat, target : Nat] /\ user'.iface = user.iface /\ user'.target = user.target + 1
  BY <1>1, <1>2
<1>4. s.refs \in Nat /\ unicast \in TargetStates \cup {None} /\ "unicast" \in Targets
  BY <1>2 DEF Sessions, Targets
<1>5. s.exists
  BY <1>1, <1>2 DEF Referenced, NoReferences
<1>6. /\ s' \in Sessions /\ Sound(s', other, kernel, note) /\ s'.undefined = "none"
      /\ s'.exists = s.exists /\ s'.target["unicast"] # None
      /\ s'.target["unicast"].refs = user.target + 1
      /\ s'.refs = s.refs + One(user.target = 0)
  <2>1. CASE unicast # None
    <3> DEFINE w == [unicast EXCEPT !.refs = unicast.refs + 1]
    <3>1. unicast \in TargetStates /\ unicast.refs = user.target /\ user.target # 0
          /\ unicast.refs + 1 \in Nat
      BY <1>2, <1>4, <2>1 DEF Referenced, TargetStates
    <3>2. unicast.holds = "own" => unicast.timer
      BY <1>2, <1>4, <2>1 DEF Sound, Timed
    <3>3. w \in TargetStates /\ w # None /\ w.refs = unicast.refs + 1 /\ (w.holds = "own" => w.timer)
      BY <3>1, <3>2, TargetUsers
    <3>4. s' = WithUnicast(s, w)
      BY <1>1, <2>1
    <3> HIDE DEF w
    <3>5. /\ s' \in Sessions /\ Sound(s', other, kernel, note) /\ s'.undefined = s.undefined
          /\ s'.exists = s.exists /\ s'.refs = s.refs /\ s'.target["unicast"] = w
      BY <1>2, <3>3, <3>4, WithUnicastKeeps
    <3>6. One(user.target = 0) = 0
      BY <3>1 DEF One
    <3> QED BY <1>2, <1>4, <3>1, <3>3, <3>5, <3>6
  <2>2. CASE unicast = None
    <3> DEFINE x == [s EXCEPT !.refs = s.refs + 1]
    <3>1. user.target = 0
      BY <1>2, <2>2 DEF Referenced
    <3>2. /\ x \in Sessions /\ x.refs = s.refs + 1 /\ x.target = s.target /\ x.osif = s.osif
          /\ x.listener = s.listener /\ x.socks = s.socks /\ x.man = s.man
          /\ x.undefined = s.undefined
      BY <1>2, <1>4 DEF Sessions
    <3>3. x.exists = s.exists
      BY <1>2 DEF Sessions
    <3>4. s' = WithUnicast(x, NewTarget)
      BY <1>1, <2>2
    <3> HIDE DEF x
    <3>5. Sound(x, other, kernel, note)
      BY <1>2, <3>2 DEF Sound, Timed, Follows, Counted, Noticed
    <3>6. /\ s' \in Sessions /\ Sound(s', other, kernel, note) /\ s'.undefined = x.undefined
          /\ s'.exists = x.exists /\ s'.refs = x.refs /\ s'.target["unicast"] = NewTarget
      BY <3>2, <3>4, <3>5, NewTargetIsTyped, WithUnicastKeeps
    <3>7. One(user.target = 0) = 1
      BY <3>1 DEF One
    <3>8. s'.target["unicast"].refs = user.target + 1
      BY <3>1, <3>6, NewTargetIsTyped
    <3> QED BY <1>2, <3>2, <3>3, <3>6, <3>7, <3>8, NewTargetIsTyped
  <2> QED BY <2>1, <2>2
<1>7. Referenced(s', user', section')
  <2>1. s'.exists /\ s'.refs > 0
    <3>1. s'.refs > 0
      BY <1>2, <1>4, <1>5, <1>6 DEF Referenced, One
    <3> QED BY <1>5, <1>6, <3>1
  <2>2. section = "took" => s'.refs = 1 + user'.iface + One(user'.target > 0)
    BY <1>2, <1>3, <1>4, <1>6 DEF Referenced, One
  <2> QED BY <1>1, <1>2, <1>3, <1>6, <2>1, <2>2 DEF Referenced
<1>8. TypeOK'
  BY <1>1, <1>3, <1>6 DEF TypeOK
<1> QED BY <1>1, <1>6, <1>7, <1>8 DEF Inv, Running, Sound

LEMMA RemoveTargetKeeps ==
  ASSUME TypeOK, Running, RunningInv, oonf_rfc5444_remove_target
  PROVE  Inv'
<1> DEFINE unicast == s.target["unicast"]
           x == WithUnicast(s, None)
<1>1. /\ s' = (IF unicast.refs > 1 THEN WithUnicast(s, [unicast EXCEPT !.refs = unicast.refs - 1])
               ELSE IF s.refs = 1 THEN Undefined(s, "freed") ELSE RemoveInterface(x))
      /\ user' = [user EXCEPT !.target = user.target - 1] /\ user.target > 0
      /\ kernel' = kernel /\ note' = note /\ other' = other /\ section' = section
  BY DEF oonf_rfc5444_remove_target, environment
<1>2. s \in Sessions /\ s.undefined = "none" /\ user \in [iface : Nat, target : Nat]
      /\ Sound(s, other, kernel, note) /\ Referenced(s, user, section) /\ other \in BOOLEAN
  BY DEF TypeOK, Running, RunningInv
<1>3. user' \in [iface : Nat, target : Nat] /\ user'.iface = user.iface /\ user'.target = user.target - 1
  BY <1>1, <1>2
<1>4. /\ s.refs \in Nat /\ unicast # None /\ unicast.refs = user.target
      /\ unicast \in TargetStates /\ "unicast" \in Targets
  BY <1>1, <1>2 DEF Sessions, Targets, Referenced
<1>5. s.exists /\ s.refs > 0
  BY <1>1, <1>2 DEF Referenced, NoReferences
<1>6. TypeOK' <=> s' \in Sessions
  BY <1>1, <1>3 DEF TypeOK
<1>7. CASE unicast.refs > 1
  <2> DEFINE w == [unicast EXCEPT !.refs = unicast.refs - 1]
  <2>1. unicast.refs - 1 \in Nat /\ (unicast.holds = "own" => unicast.timer)
    BY <1>2, <1>4, <1>7 DEF Sound, Timed, TargetStates
  <2>2. w \in TargetStates /\ w # None /\ w.refs = unicast.refs - 1 /\ (w.holds = "own" => w.timer)
    BY <1>4, <2>1, TargetUsers
  <2>3. s' = WithUnicast(s, w)
    BY <1>1, <1>7
  <2> HIDE DEF w
  <2>4. /\ s' \in Sessions /\ Sound(s', other, kernel, note) /\ s'.undefined = s.undefined
        /\ s'.exists = s.exists /\ s'.refs = s.refs /\ s'.target["unicast"] = w
    BY <1>2, <2>2, <2>3, WithUnicastKeeps
  <2>5. /\ user'.target # 0 /\ user'.target > 0 /\ user.target > 0
        /\ s'.target["unicast"].refs = user'.target
    BY <1>2, <1>3, <1>4, <1>7, <2>2, <2>4
  <2>6. section = "took" => s'.refs = 1 + user'.iface + One(user'.target > 0)
    BY <1>2, <1>3, <2>4, <2>5 DEF Referenced, One
  <2>7. s'.exists /\ s'.refs > 0
    BY <1>5, <2>4
  <2>8. Referenced(s', user', section')
    BY <1>1, <2>2, <2>4, <2>5, <2>6, <2>7 DEF Referenced
  <2> QED BY <1>1, <1>6, <2>4, <2>8 DEF Inv, Sound
<1>8. CASE ~ (unicast.refs > 1) /\ s.refs = 1
  <2>1. s' = Undefined(s, "freed")
    BY <1>1, <1>8
  <2> QED BY <1>2, <1>6, <2>1, UndefinedIsTyped DEF Inv, Running
<1>9. CASE ~ (unicast.refs > 1) /\ s.refs # 1
  <2>1. s' = RemoveInterface(x)
    BY <1>1, <1>9
  <2>2. /\ x \in Sessions /\ Sound(x, other, kernel, note) /\ x.undefined = s.undefined
        /\ x.exists = s.exists /\ x.refs = s.refs /\ x.target["unicast"] = None
    BY <1>2, WithUnicastKeeps
  <2> HIDE DEF x
  <2>3. x.refs > 1
    BY <1>4, <1>5, <1>9, <2>2
  <2>4. /\ s' \in Sessions /\ Sound(s', other, kernel, note) /\ s'.undefined = x.undefined
        /\ s'.exists = x.exists /\ s'.refs = x.refs - 1 /\ s'.target = x.target
    BY <1>2, <2>1, <2>2, <2>3, RemoveInterfaceKeeps
  <2>5. user'.target = 0 /\ user.target = 1
    BY <1>1, <1>2, <1>3, <1>4, <1>9
  <2>6. s'.refs > 0
    BY <1>4, <2>2, <2>3, <2>4
  <2>7. section = "took" => s'.refs = 1 + user'.iface + One(user'.target > 0)
    BY <1>2, <1>3, <1>4, <2>2, <2>4, <2>5 DEF Referenced, One
  <2>8. s'.exists
    BY <1>5, <2>2, <2>4
  <2>9. Referenced(s', user', section')
    BY <1>1, <2>2, <2>4, <2>5, <2>6, <2>7, <2>8 DEF Referenced
  <2> QED BY <1>1, <1>2, <1>6, <2>2, <2>4, <2>9 DEF Inv, Sound
<1> QED BY <1>7, <1>8, <1>9
-----------------------------------------------------------------------------
(* Messages *)

\* What waits in the targets and their timers change, not who uses them.
LEMMA RetargetKeeps ==
  ASSUME NEW x \in Sessions, NEW oth, NEW k, NEW n, Sound(x, oth, k, n),
         NEW u, NEW sec, Referenced(x, u, sec),
         NEW all \in [Targets -> TargetStates \cup {None}],
         \A t \in Targets : all[t] # None /\ all[t].holds = "own" => all[t].timer,
         all["unicast"] = None <=> x.target["unicast"] = None,
         all["unicast"] # None => all["unicast"].refs = x.target["unicast"].refs,
         NEW y, y = [x EXCEPT !.target = all]
  PROVE  /\ y \in Sessions /\ Sound(y, oth, k, n) /\ Referenced(y, u, sec)
         /\ y.undefined = x.undefined /\ y.socks = x.socks /\ y.listener = x.listener
<1>1. /\ y \in Sessions /\ y.refs = x.refs /\ y.target = all /\ y.undefined = x.undefined
      /\ y.osif = x.osif /\ y.listener = x.listener /\ y.socks = x.socks /\ y.man = x.man
  BY DEF Sessions
<1>2. y.exists = x.exists
  BY DEF Sessions
<1>3. Timed(y)
  BY <1>1 DEF Timed
<1>4. Follows(y) /\ Counted(y, oth) /\ Noticed(y, k, n)
  BY <1>1 DEF Sound, Follows, Counted, Noticed
<1>5. Referenced(y, u, sec)
  BY <1>1, <1>2 DEF Referenced
<1> QED BY <1>1, <1>3, <1>4, <1>5 DEF Sound

\* A message is put into a target and the timer of the target runs.
LEMMA SentTarget ==
  ASSUME NEW v \in TargetStates, NEW created \in BOOLEAN,
         NEW w, w = [v EXCEPT !.timer = TRUE, !.holds = IF created THEN "own" ELSE v.holds]
  PROVE  w \in TargetStates /\ w.timer /\ w.refs = v.refs
<1>1. CASE created
  BY <1>1 DEF TargetStates
<1>2. CASE ~ created
  BY <1>2 DEF TargetStates
<1> QED BY <1>1, <1>2

LEMMA SendKeeps ==
  ASSUME TypeOK, Running, RunningInv, Send
  PROVE  Inv'
<1>1. kernel' = kernel /\ note' = note /\ user' = user /\ other' = other /\ section' = section
  BY DEF Send, environment
<1>2. PICK ts \in SUBSET Targets, created \in BOOLEAN : s' = SendTo(ts, created)
  BY DEF Send
<1>3. s \in Sessions /\ s.undefined = "none" /\ Sound(s, other, kernel, note)
      /\ Referenced(s, user, section)
  BY DEF TypeOK, Running, RunningInv
<1> DEFINE put(t) == [s.target[t] EXCEPT !.timer = TRUE,
                                         !.holds = IF created THEN "own" ELSE s.target[t].holds]
           all == [t \in Targets |-> IF t \in ts /\ Active(t) THEN put(t) ELSE s.target[t]]
<1>4. s' = [s EXCEPT !.target = all]
  BY <1>2 DEF SendTo
<1>5. s.target \in [Targets -> TargetStates \cup {None}] /\ "unicast" \in Targets
  BY <1>3 DEF Sessions, Targets
<1>6. ASSUME NEW t \in Targets
      PROVE  /\ all[t] \in TargetStates \cup {None}
             /\ all[t] # None /\ all[t].holds = "own" => all[t].timer
             /\ all[t] = None <=> s.target[t] = None
             /\ all[t] # None => all[t].refs = s.target[t].refs
  <2>1. CASE t \in ts /\ Active(t)
    <3>1. s.target[t] \in TargetStates /\ s.target[t] # None
      BY <1>5, <2>1 DEF Active
    <3>2. put(t) \in TargetStates /\ put(t).timer /\ put(t).refs = s.target[t].refs
      <4>1. PICK w : w = put(t)
        OBVIOUS
      <4>2. PICK v \in TargetStates : v = s.target[t]
        BY <3>1
      <4>3. w = [v EXCEPT !.timer = TRUE, !.holds = IF created THEN "own" ELSE v.holds]
        BY <4>1, <4>2
      <4>4. w \in TargetStates /\ w.timer /\ w.refs = v.refs
        BY <4>3, SentTarget
      <4> QED BY <4>1, <4>2, <4>4
    <3>3. all[t] = put(t)
      BY <2>1
    <3> HIDE DEF all, put
    <3> QED BY <3>1, <3>2, <3>3, Rfc5444Assumption
  <2>2. CASE ~ (t \in ts /\ Active(t))
    <3>1. all[t] = s.target[t]
      BY <2>2
    <3> HIDE DEF all
    <3> QED BY <1>3, <1>5, <3>1 DEF Sound, Timed
  <2> QED BY <2>1, <2>2
<1>7. all \in [Targets -> TargetStates \cup {None}]
  BY <1>6
<1> HIDE DEF all
<1>8. /\ s' \in Sessions /\ Sound(s', other, kernel, note) /\ Referenced(s', user, section)
  BY <1>3, <1>4, <1>5, <1>6, <1>7, RetargetKeeps
<1> QED BY <1>1, <1>8, SessionStep

LEMMA ForwardKeeps ==
  ASSUME TypeOK, Running, RunningInv, Forward
  PROVE  Inv'
<1>1. kernel' = kernel /\ note' = note /\ user' = user /\ other' = other /\ section' = section
  BY DEF Forward, environment
<1>2. PICK ts \in SUBSET Targets :
        s' = [s EXCEPT !.target = [t \in Targets |->
               IF t \in ts /\ s.target[t] # None /\ s.target[t].holds = "nothing"
               THEN [s.target[t] EXCEPT !.holds = "forwarded"] ELSE s.target[t]]]
  BY DEF Forward
<1>3. s \in Sessions /\ s.undefined = "none" /\ Sound(s, other, kernel, note)
      /\ Referenced(s, user, section)
  BY DEF TypeOK, Running, RunningInv
<1> DEFINE put(t) == [s.target[t] EXCEPT !.holds = "forwarded"]
           taken(t) == t \in ts /\ s.target[t] # None /\ s.target[t].holds = "nothing"
           all == [t \in Targets |-> IF taken(t) THEN put(t) ELSE s.target[t]]
<1>4. s' = [s EXCEPT !.target = all]
  BY <1>2
<1>5. s.target \in [Targets -> TargetStates \cup {None}] /\ "unicast" \in Targets
  BY <1>3 DEF Sessions, Targets
<1>6. ASSUME NEW t \in Targets
      PROVE  /\ all[t] \in TargetStates \cup {None}
             /\ all[t] # None /\ all[t].holds = "own" => all[t].timer
             /\ all[t] = None <=> s.target[t] = None
             /\ all[t] # None => all[t].refs = s.target[t].refs
  <2>1. CASE taken(t)
    <3>1. s.target[t] \in TargetStates /\ s.target[t] # None
      BY <1>5, <2>1
    <3>2. put(t) \in TargetStates /\ put(t).holds = "forwarded" /\ put(t).refs = s.target[t].refs
      BY <3>1 DEF TargetStates
    <3>3. all[t] = put(t)
      BY <2>1
    <3> HIDE DEF all, put
    <3> QED BY <3>1, <3>2, <3>3, Rfc5444Assumption
  <2>2. CASE ~ taken(t)
    <3>1. all[t] = s.target[t]
      BY <2>2
    <3> HIDE DEF all
    <3> QED BY <1>3, <1>5, <3>1 DEF Sound, Timed
  <2> QED BY <2>1, <2>2
<1>7. all \in [Targets -> TargetStates \cup {None}]
  BY <1>6
<1> HIDE DEF all
<1>8. /\ s' \in Sessions /\ Sound(s', other, kernel, note) /\ Referenced(s', user, section)
  BY <1>3, <1>4, <1>5, <1>6, <1>7, RetargetKeeps
<1> QED BY <1>1, <1>8, SessionStep

\* A backlog changes no binding.
LEMMA BacklogKeeps ==
  ASSUME NEW socks \in SocketMaps, NEW f \in Families, socks["unicast"][f] # Closed,
         NEW left \in BOOLEAN, NEW data, NEW port, NEW r, r = WithBacklog(socks, f, left)
  PROVE  r \in SocketMaps /\ (Bind(socks, data, port) => Bind(r, data, port))
<1> DEFINE old == socks["unicast"][f]
           new == [old EXCEPT !.backlog = left]
<1>1. old \in SocketStates /\ socks["unicast"] \in [Families -> SocketStates \cup {Closed}]
  BY DEF SocketMaps, Kinds
<1>2. new \in SocketStates /\ new.addr = old.addr /\ new.port = old.port
  BY <1>1 DEF SocketStates
<1>3. r = [socks EXCEPT !["unicast"] = [socks["unicast"] EXCEPT ![f] = new]]
  BY DEF WithBacklog
<1> HIDE DEF new
<1>4. r \in SocketMaps /\ r["unicast"] = [socks["unicast"] EXCEPT ![f] = new]
  BY <1>1, <1>2, <1>3 DEF SocketMaps, Kinds
<1>5. r["unicast"][f] = new /\ \A g \in Families : g # f => r["unicast"][g] = socks["unicast"][g]
  BY <1>1, <1>4
<1>6. ASSUME Bind(socks, data, port) PROVE Bind(r, data, port)
  BY <1>2, <1>5, <1>6 DEF Bind, SameBinding
<1> QED BY <1>4, <1>6

\* Only the sockets change, and none is bound anew.
LEMMA ResocketKeeps ==
  ASSUME NEW x \in Sessions, NEW oth, NEW k, NEW n, Sound(x, oth, k, n),
         NEW u, NEW sec, Referenced(x, u, sec), NEW r \in SocketMaps,
         Bind(x.socks, x.osif.data, x.man.port) => Bind(r, x.osif.data, x.man.port),
         NEW y, y = [x EXCEPT !.socks = r]
  PROVE  y \in Sessions /\ Sound(y, oth, k, n) /\ Referenced(y, u, sec)
<1>1. /\ y \in Sessions /\ y.refs = x.refs /\ y.target = x.target
      /\ y.osif = x.osif /\ y.listener = x.listener /\ y.socks = r /\ y.man = x.man
  BY DEF Sessions
<1>2. y.exists = x.exists
  BY DEF Sessions
<1>3. Timed(y) /\ Counted(y, oth) /\ Noticed(y, k, n)
  BY <1>1 DEF Sound, Timed, Counted, Noticed
<1>4. Follows(y)
  BY <1>1 DEF Sound, Follows
<1>5. Referenced(y, u, sec)
  BY <1>1, <1>2 DEF Referenced
<1> QED BY <1>1, <1>3, <1>4, <1>5 DEF Sound

LEMMA AggregationKeeps ==
  ASSUME TypeOK, Running, RunningInv, NEW t \in Targets, NEW answer \in Answers,
         cb_aggregation_event(t, answer)
  PROVE  Inv'
<1> DEFINE flushed == [s.target[t] EXCEPT !.holds = "nothing", !.timer = FALSE]
           all == [s.target EXCEPT ![t] = flushed]
           x == [s EXCEPT !.target = all]
           f == FamilyOf(t)
<1>1. /\ s' = (IF s.target[t].holds = "nothing" THEN x
               ELSE IF s.listener = "dangling" THEN Undefined(x, "freed")
               ELSE [x EXCEPT !.socks = oonf_packet_send(s.socks, f, answer)])
      /\ s.target[t] # None
      /\ kernel' = kernel /\ note' = note /\ user' = user /\ other' = other /\ section' = section
  BY DEF cb_aggregation_event
<1>2. s \in Sessions /\ s.undefined = "none" /\ Sound(s, other, kernel, note)
      /\ Referenced(s, user, section)
  BY DEF TypeOK, Running, RunningInv
<1>3. s.target \in [Targets -> TargetStates \cup {None}] /\ "unicast" \in Targets
      /\ s.target[t] \in TargetStates
  BY <1>1, <1>2 DEF Sessions, Targets
<1>4. flushed \in TargetStates /\ flushed.holds = "nothing" /\ flushed.refs = s.target[t].refs
      /\ flushed # None
  BY <1>3, Rfc5444Assumption DEF TargetStates
<1> HIDE DEF flushed
<1>5. /\ all \in [Targets -> TargetStates \cup {None}]
      /\ \A g \in Targets : all[g] # None /\ all[g].holds = "own" => all[g].timer
      /\ all["unicast"] = None <=> s.target["unicast"] = None
      /\ all["unicast"] # None => all["unicast"].refs = s.target["unicast"].refs
  BY <1>1, <1>2, <1>3, <1>4 DEF Sound, Timed
<1> HIDE DEF all
<1>6. /\ x \in Sessions /\ Sound(x, other, kernel, note) /\ Referenced(x, user, section)
      /\ x.undefined = "none" /\ x.socks \in SocketMaps /\ x.socks = s.socks
  <2>1. /\ x \in Sessions /\ Sound(x, other, kernel, note) /\ Referenced(x, user, section)
        /\ x.undefined = s.undefined /\ x.socks = s.socks
    BY <1>2, <1>5, RetargetKeeps
  <2> QED BY <1>2, <2>1 DEF Sessions
<1> HIDE DEF x
<1>7. CASE s.target[t].holds = "nothing"
  BY <1>1, <1>6, <1>7, SessionStep
<1>8. CASE s.target[t].holds # "nothing" /\ s.listener = "dangling"
  BY <1>1, <1>6, <1>8, UndefinedIsTyped, SessionStep
<1>9. CASE s.target[t].holds # "nothing" /\ s.listener # "dangling"
  <2> DEFINE r == oonf_packet_send(x.socks, f, answer)
  <2>1. s' = [x EXCEPT !.socks = r]
    BY <1>1, <1>6, <1>9
  <2>2. f \in Families
    BY Rfc5444Assumption DEF FamilyOf, Targets
  <2>3. /\ r \in SocketMaps
        /\ Bind(x.socks, x.osif.data, x.man.port) => Bind(r, x.osif.data, x.man.port)
    <3>1. CASE is_active(x.socks, f) /\ answer = "again"
      <4>1. r = WithBacklog(x.socks, f, TRUE) /\ x.socks["unicast"][f] # Closed
        BY <3>1 DEF oonf_packet_send, is_active
      <4> HIDE DEF r, f
      <4>2. PICK left \in BOOLEAN : r = WithBacklog(x.socks, f, left)
        BY <4>1, Zenon
      <4> QED BY <1>6, <2>2, <4>1, <4>2, BacklogKeeps
    <3>2. CASE ~ (is_active(x.socks, f) /\ answer = "again")
      BY <1>6, <3>2 DEF oonf_packet_send
    <3> QED BY <3>1, <3>2
  <2> HIDE DEF r
  <2>4. s' \in Sessions /\ Sound(s', other, kernel, note) /\ Referenced(s', user, section)
    BY <1>6, <2>1, <2>3, ResocketKeeps
  <2> QED BY <1>1, <2>4, SessionStep
<1> QED BY <1>7, <1>8, <1>9

LEMMA WritableKeeps ==
  ASSUME TypeOK, Running, RunningInv, NEW f \in Families, NEW answer \in Answers,
         PacketWritable(f, answer)
  PROVE  Inv'
<1>1. /\ kernel' = kernel /\ note' = note /\ user' = user /\ other' = other /\ section' = section
      /\ s.socks["unicast"][f] # Closed
  BY DEF PacketWritable, environment
<1>2. PICK left \in BOOLEAN : s' = [s EXCEPT !.socks = WithBacklog(s.socks, f, left)]
  BY DEF PacketWritable
<1>3. s \in Sessions /\ Sound(s, other, kernel, note) /\ Referenced(s, user, section)
      /\ s.socks \in SocketMaps
  BY DEF TypeOK, RunningInv, Sessions
<1> DEFINE r == WithBacklog(s.socks, f, left)
<1>4. /\ r \in SocketMaps
      /\ Bind(s.socks, s.osif.data, s.man.port) => Bind(r, s.osif.data, s.man.port)
  BY <1>1, <1>3, BacklogKeeps
<1>5. s' = [s EXCEPT !.socks = r]
  BY <1>2
<1> HIDE DEF r
<1>6. s' \in Sessions /\ Sound(s', other, kernel, note) /\ Referenced(s', user, section)
  BY <1>3, <1>4, <1>5, ResocketKeeps
<1> QED BY <1>1, <1>6, SessionStep
-----------------------------------------------------------------------------
(* The interface *)

\* Only the interface object changes, with the sockets still in agreement.
LEMMA ReinterfaceKeeps ==
  ASSUME NEW x \in Sessions, NEW o \in Interfaces, NEW y, y = [x EXCEPT !.osif = o]
  PROVE  /\ y \in Sessions /\ y.undefined = x.undefined /\ y.osif = o
         /\ y.listener = x.listener /\ y.socks = x.socks /\ y.man = x.man
         /\ y.target = x.target /\ SameHold(y, x)
<1>1. /\ y \in Sessions /\ y.refs = x.refs /\ y.target = x.target /\ y.undefined = x.undefined
      /\ y.osif = o /\ y.listener = x.listener /\ y.socks = x.socks /\ y.man = x.man
  BY DEF Sessions
<1>2. y.exists = x.exists
  BY DEF Sessions
<1> QED BY <1>1, <1>2 DEF SameHold

\* An event marks the object for another reading; its addresses stay.
LEMMA TriggerChange ==
  ASSUME NEW o \in Interfaces, NEW down \in BOOLEAN,
         NEW p, p = oonf_interface_trigger_change(o, down)
  PROVE  /\ p \in Interfaces /\ p.usage = o.usage /\ p.exists = o.exists
         /\ p.data.addr = o.data.addr /\ (p.exists => p.timer)
<1>1. CASE ~ o.exists
  BY <1>1 DEF oonf_interface_trigger_change
<1>2. CASE o.exists
  <2> DEFINE d == [up |-> o.data.up /\ ~ down, addr |-> o.data.addr]
  <2>1. o.data \in IfData
    BY DEF Interfaces
  <2>2. d \in IfData /\ d.addr = o.data.addr
    BY <2>1 DEF IfData
  <2>3. p = [o EXCEPT !.timer = TRUE, !.data = d]
    BY <1>2 DEF oonf_interface_trigger_change
  <2> HIDE DEF d
  <2>4. p \in Interfaces /\ p.usage = o.usage /\ p.data = d
    BY <2>2, <2>3 DEF Interfaces
  <2>5. p.exists = o.exists /\ p.timer
    BY <2>3 DEF Interfaces
  <2> QED BY <2>2, <2>4, <2>5
<1> QED BY <1>1, <1>2

\* The sockets of a session follow an object with the same addresses.
LEMMA SameAddresses ==
  ASSUME NEW x, NEW y, Follows(x), y.listener = x.listener, y.socks = x.socks,
         y.man = x.man, y.osif.data.addr = x.osif.data.addr
  PROVE  Follows(y)
BY DEF Follows, Bind

LEMMA NotifiedKeeps ==
  ASSUME TypeOK, Running, RunningInv, Notified
  PROVE  Inv'
<1> DEFINE o == oonf_interface_trigger_change(s.osif, Head(note))
<1>1. /\ s' = [s EXCEPT !.osif = o] /\ note # <<>> /\ note' = Tail(note)
      /\ kernel' = kernel /\ user' = user /\ other' = other /\ section' = section
  BY DEF Notified
<1>2. s \in Sessions /\ Sound(s, other, kernel, note) /\ Referenced(s, user, section)
      /\ s.osif \in Interfaces /\ note \in Seq(BOOLEAN)
  BY DEF TypeOK, RunningInv, Sessions
<1>3. Head(note) \in BOOLEAN /\ Tail(note) \in Seq(BOOLEAN)
  BY <1>1, <1>2, HeadTailProperties
<1>4. /\ o \in Interfaces /\ o.usage = s.osif.usage /\ o.exists = s.osif.exists
      /\ o.data.addr = s.osif.data.addr /\ (o.exists => o.timer)
  BY <1>2, <1>3, TriggerChange
<1> HIDE DEF o
<1>5. /\ s' \in Sessions /\ s'.osif = o /\ s'.listener = s.listener /\ s'.socks = s.socks
      /\ s'.man = s.man /\ s'.target = s.target /\ SameHold(s', s)
  BY <1>1, <1>2, <1>4, ReinterfaceKeeps
<1>6. Timed(s')
  BY <1>2, <1>5 DEF Sound, Timed
<1>7. Follows(s')
  BY <1>2, <1>4, <1>5, SameAddresses DEF Sound
<1>8. Counted(s', other)
  BY <1>2, <1>4, <1>5 DEF Sound, Counted
<1>9. Noticed(s', kernel, note')
  BY <1>4, <1>5 DEF Noticed
<1>10. Referenced(s', user, section)
  BY <1>2, <1>5, ReferencedSame
<1>11. TypeOK'
  BY <1>1, <1>3, <1>5 DEF TypeOK
<1> QED BY <1>1, <1>6, <1>7, <1>8, <1>9, <1>10, <1>11 DEF Inv

\* A reading that succeeds brings the object up to date, one that fails leaves
\* the timer running.
LEMMA ChangeHandler ==
  ASSUME NEW o \in Interfaces, NEW k \in IfData, NEW readable \in BOOLEAN,
         NEW p, p = change_handler(o, k, readable)
  PROVE  /\ p \in Interfaces /\ p.usage = o.usage /\ p.exists = o.exists
         /\ p.data = (IF readable THEN k ELSE o.data) /\ (~ readable => p.timer)
<1>1. CASE readable
  <2>1. p = [o EXCEPT !.timer = FALSE, !.data = k]
    BY <1>1 DEF change_handler
  <2>2. p \in Interfaces /\ p.usage = o.usage /\ p.data = k
    BY <2>1 DEF Interfaces
  <2>3. p.exists = o.exists
    BY <2>1 DEF Interfaces
  <2> QED BY <1>1, <2>2, <2>3
<1>2. CASE ~ readable
  <2>1. p = [o EXCEPT !.timer = TRUE, !.data = o.data]
    BY <1>2 DEF change_handler
  <2>2. p \in Interfaces /\ p.usage = o.usage /\ p.data = o.data
    BY <2>1 DEF Interfaces
  <2>3. p.exists = o.exists /\ p.timer
    BY <2>1 DEF Interfaces
  <2> QED BY <1>2, <2>2, <2>3
<1> QED BY <1>1, <1>2

LEMMA ChangeTimerKeeps ==
  ASSUME TypeOK, Running, RunningInv, NEW o \in Outcomes, ChangeTimer(o)
  PROVE  Inv'
<1> DEFINE p == change_handler(s.osif, kernel, o.readable)
           x == [s EXCEPT !.osif = p]
<1>1. /\ s' = (IF o.readable /\ s.listener = "on" THEN apply_managed(x, o.fails, o.memory) ELSE x)
      /\ kernel' = kernel /\ note' = note /\ user' = user /\ other' = other /\ section' = section
  BY DEF ChangeTimer
<1>2. s \in Sessions /\ Sound(s, other, kernel, note) /\ Referenced(s, user, section)
      /\ s.osif \in Interfaces /\ kernel \in IfData /\ s.undefined = "none"
  BY DEF TypeOK, Running, RunningInv, Sessions
<1>3. /\ p \in Interfaces /\ p.usage = s.osif.usage /\ p.exists = s.osif.exists
      /\ p.data = (IF o.readable THEN kernel ELSE s.osif.data) /\ (~ o.readable => p.timer)
  BY <1>2, OutcomeIsTyped, ChangeHandler
<1> HIDE DEF p
<1>4. /\ x \in Sessions /\ x.osif = p /\ x.listener = s.listener /\ x.socks = s.socks
      /\ x.man = s.man /\ x.target = s.target /\ SameHold(x, s) /\ x.undefined = "none"
  BY <1>2, <1>3, ReinterfaceKeeps
<1> HIDE DEF x
<1>5. Timed(x) /\ Counted(x, other)
  BY <1>2, <1>3, <1>4 DEF Sound, Timed, Counted
<1>6. Noticed(x, kernel, note)
  BY <1>3, <1>4 DEF Noticed
<1>7. Referenced(x, user, section)
  BY <1>2, <1>4, ReferencedSame
<1>8. CASE o.readable /\ s.listener = "on"
  <2>1. s' = apply_managed(x, o.fails, o.memory)
    BY <1>1, <1>8
  <2>2. /\ s' \in Sessions
        /\ s'.undefined = "none" => Alike(s', x) /\ Follows(s') /\ Timed(s')
    BY <1>4, <1>5, <2>1, ApplyFollows
  <2>3. Alike(s', x) => Counted(s', other) /\ Noticed(s', kernel, note) /\ SameHold(s', x)
    BY <1>5, <1>6 DEF Alike, Counted, Noticed, SameHold
  <2>4. SameHold(s', x) => Referenced(s', user, section)
    BY <1>7, ReferencedSame
  <2>5. s'.undefined = "none" => Sound(s', other, kernel, note) /\ Referenced(s', user, section)
    BY <2>2, <2>3, <2>4 DEF Sound
  <2> QED BY <1>1, <2>2, <2>5, SessionStep
<1>9. CASE ~ (o.readable /\ s.listener = "on")
  <2>1. s' = x
    BY <1>1, <1>9
  <2>2. Follows(x)
    <3>1. CASE s.listener # "on"
      BY <1>4, <3>1 DEF Follows
    <3>2. CASE ~ o.readable
      BY <1>2, <1>3, <1>4, <3>2, SameAddresses DEF Sound
    <3> QED BY <1>9, <3>1, <3>2
  <2> QED BY <1>1, <1>4, <1>5, <1>6, <1>7, <2>1, <2>2, SessionStep DEF Sound
<1> QED BY <1>8, <1>9
LEMMA OtherListensKeeps ==
  ASSUME TypeOK, Running, RunningInv, NEW o \in Outcomes, OtherListens(o)
  PROVE  Inv'
<1> DEFINE p == interface_add(s.osif, kernel, o.readable)
<1>1. /\ s' = [s EXCEPT !.osif = p] /\ ~ other /\ other' = TRUE
      /\ kernel' = kernel /\ note' = note /\ user' = user /\ section' = section
  BY DEF OtherListens
<1>2. s \in Sessions /\ Sound(s, other, kernel, note) /\ Referenced(s, user, section)
      /\ s.osif \in Interfaces /\ kernel \in IfData /\ s.osif.usage \in Nat
  BY DEF TypeOK, RunningInv, Sessions, Interfaces
<1>3. /\ s.osif.usage = One(s.listener = "on")
      /\ s.osif.exists <=> s.osif.usage > 0
  BY <1>1, <1>2 DEF Sound, Counted, One
<1>4. /\ p \in Interfaces /\ p.exists /\ p.usage = s.osif.usage + 1 /\ (p.data = kernel \/ p.timer)
      /\ s.osif.exists => p.data = s.osif.data
  BY <1>2, <1>3, OutcomeIsTyped, InterfaceAdd
<1> HIDE DEF p
<1>5. /\ s' \in Sessions /\ s'.osif = p /\ s'.listener = s.listener /\ s'.socks = s.socks
      /\ s'.man = s.man /\ s'.target = s.target /\ SameHold(s', s)
  BY <1>1, <1>2, <1>4, ReinterfaceKeeps
<1>6. Timed(s')
  BY <1>2, <1>5 DEF Sound, Timed
<1>7. Follows(s')
  <2>1. CASE s.listener # "on"
    BY <1>5, <2>1 DEF Follows
  <2>2. CASE s.listener = "on"
    <3>1. s.osif.exists
      BY <1>3, <2>2 DEF One
    <3> QED BY <1>2, <1>4, <1>5, <3>1, SameAddresses DEF Sound
  <2> QED BY <2>1, <2>2
<1>8. Counted(s', other')
  <2>1. p.usage = One(other') + One(s.listener = "on") /\ p.usage > 0
    BY <1>1, <1>3, <1>4 DEF One
  <2> QED BY <1>4, <1>5, <2>1 DEF Counted
<1>9. Noticed(s', kernel, note)
  BY <1>4, <1>5 DEF Noticed
<1>10. Referenced(s', user, section)
  BY <1>2, <1>5, ReferencedSame
<1>11. TypeOK'
  BY <1>1, <1>5 DEF TypeOK
<1> QED BY <1>1, <1>6, <1>7, <1>8, <1>9, <1>10, <1>11 DEF Inv

LEMMA OtherLeavesKeeps ==
  ASSUME TypeOK, Running, RunningInv, OtherLeaves
  PROVE  Inv'
<1> DEFINE p == interface_remove(s.osif)
           l == IF ~ p.exists /\ s.listener = "off" THEN "dangling" ELSE s.listener
<1>1. /\ s' = [s EXCEPT !.osif = p, !.listener = l] /\ other /\ other' = FALSE
      /\ kernel' = kernel /\ note' = note /\ user' = user /\ section' = section
  BY DEF OtherLeaves, DropOther, environment
<1>2. s \in Sessions /\ Sound(s, other, kernel, note) /\ Referenced(s, user, section)
      /\ s.osif \in Interfaces /\ s.osif.usage \in Nat
      /\ s.listener \in {"none", "on", "off", "dangling"}
  BY DEF TypeOK, RunningInv, Sessions, Interfaces
<1>3. s.osif.usage = 1 + One(s.listener = "on") /\ s.osif.usage > 0 /\ s.osif.exists
  BY <1>1, <1>2 DEF Sound, Counted, One
<1>4. /\ p \in Interfaces /\ p.usage = s.osif.usage - 1 /\ (p.exists <=> p.usage > 0)
      /\ p.exists => p.data = s.osif.data /\ p.timer = s.osif.timer
  BY <1>2, <1>3, InterfaceRemove
<1>5. l \in {"none", "on", "off", "dangling"} /\ (l = "on" <=> s.listener = "on")
  BY <1>2
<1> HIDE DEF p, l
<1>6. /\ s' \in Sessions /\ s'.osif = p /\ s'.listener = l /\ s'.socks = s.socks
      /\ s'.man = s.man /\ s'.target = s.target /\ s'.refs = s.refs
  BY <1>1, <1>2, <1>4, <1>5 DEF Sessions
<1>7. SameHold(s', s)
  <2>1. s'.exists = s.exists
    BY <1>1, <1>2 DEF Sessions
  <2> QED BY <1>6, <2>1 DEF SameHold
<1>8. Timed(s')
  BY <1>2, <1>6 DEF Sound, Timed
<1>9. Follows(s')
  <2>1. CASE s.listener # "on"
    BY <1>5, <1>6, <2>1 DEF Follows
  <2>2. CASE s.listener = "on"
    <3>1. p.exists
      BY <1>3, <1>4, <2>2 DEF One
    <3>2. l = s.listener
      BY <1>5, <2>2
    <3> QED BY <1>2, <1>4, <1>6, <3>1, <3>2, SameAddresses DEF Sound
  <2> QED BY <2>1, <2>2
<1>10. Counted(s', other')
  <2>1. p.usage = One(other') + One(l = "on")
    BY <1>1, <1>3, <1>4, <1>5 DEF One
  <2> QED BY <1>4, <1>6, <2>1 DEF Counted
<1>11. Noticed(s', kernel, note)
  BY <1>2, <1>3, <1>4, <1>6 DEF Noticed, Sound
<1>12. Referenced(s', user, section)
  BY <1>2, <1>7, ReferencedSame
<1>13. TypeOK'
  BY <1>1, <1>6 DEF TypeOK
<1> QED BY <1>1, <1>8, <1>9, <1>10, <1>11, <1>12, <1>13 DEF Inv

\* The kernel's interface changes while the program does something else: an
\* event is on its way from then on.
LEMMA KernelChangesKeeps ==
  ASSUME Inv, NEW d \in KernelData, KernelChanges(d)
  PROVE  Inv'
<1>1. /\ kernel' = d /\ note' = Append(note, ~ d.up)
      /\ s' = s /\ user' = user /\ other' = other /\ section' = section
  BY DEF KernelChanges
<1>2. d \in IfData /\ d.up \in BOOLEAN
  BY KernelDataAssumption DEF IfData
<1>3. PICK b \in BOOLEAN : note' = Append(note, b)
  BY <1>1, <1>2
<1>4. note' \in Seq(BOOLEAN) /\ Len(note') > 0
  BY <1>3, AppendProperties, LenProperties DEF Inv, TypeOK
<1>5. note' # <<>>
  BY <1>4, EmptySeq
<1>6. TypeOK'
  BY <1>1, <1>2, <1>4 DEF Inv, TypeOK
<1>7. Running' => Noticed(s', kernel', note')
  BY <1>5 DEF Noticed
<1> QED BY <1>1, <1>6, <1>7 DEF Inv, Running

-----------------------------------------------------------------------------
(* The theorems *)

LEMMA NextKeepsInv == Inv /\ [Next]_vars => Inv'
<1> SUFFICES ASSUME Inv, [Next]_vars PROVE Inv'
  OBVIOUS
<1>1. CASE UNCHANGED vars
  BY <1>1 DEF Inv, TypeOK, Running, vars
<1>2. ASSUME NEW d \in KernelData, KernelChanges(d) PROVE Inv'
  BY <1>2, KernelChangesKeeps
<1>3. ASSUME Running PROVE TypeOK /\ RunningInv
  BY <1>3 DEF Inv, RunningInv, Sound
<1>4. ASSUME NEW o \in Outcomes, NEW mc \in McChoices, cb_cfg_interface_changed(mc, o) PROVE Inv'
  BY <1>3, <1>4, SectionChangedKeeps DEF cb_cfg_interface_changed
<1>5. ASSUME NEW o \in Outcomes, NEW p \in Ports, oonf_rfc5444_reconfigure_protocol(p, o) PROVE Inv'
  BY <1>3, <1>5, ProtocolKeeps DEF oonf_rfc5444_reconfigure_protocol
<1>6. ASSUME NEW o \in Outcomes, ChangeTimer(o) PROVE Inv'
  BY <1>3, <1>6, ChangeTimerKeeps DEF ChangeTimer
<1>7. ASSUME NEW o \in Outcomes, OtherListens(o) PROVE Inv'
  BY <1>3, <1>7, OtherListensKeeps DEF OtherListens
<1>8. CASE SectionRemoved
  BY <1>3, <1>8, SectionRemovedKeeps DEF SectionRemoved
<1>9. CASE OtherLeaves
  BY <1>3, <1>9, OtherLeavesKeeps DEF OtherLeaves
<1>10. CASE Halted
  BY <1>1, <1>10 DEF Halted
<1>11. CASE oonf_rfc5444_add_interface
  BY <1>3, <1>11, AddKeeps DEF oonf_rfc5444_add_interface
<1>12. CASE oonf_rfc5444_remove_interface
  BY <1>3, <1>12, RemoveKeeps DEF oonf_rfc5444_remove_interface
<1>13. CASE oonf_rfc5444_add_target
  BY <1>3, <1>13, AddTargetKeeps DEF oonf_rfc5444_add_target
<1>14. CASE oonf_rfc5444_remove_target
  BY <1>3, <1>14, RemoveTargetKeeps DEF oonf_rfc5444_remove_target
<1>15. CASE Send
  BY <1>3, <1>15, SendKeeps DEF Send
<1>16. CASE Forward
  BY <1>3, <1>16, ForwardKeeps DEF Forward
<1>17. ASSUME NEW t \in Targets, NEW a \in Answers, cb_aggregation_event(t, a) PROVE Inv'
  BY <1>3, <1>17, AggregationKeeps DEF cb_aggregation_event
<1>18. ASSUME NEW f \in Families, NEW a \in Answers, PacketWritable(f, a) PROVE Inv'
  BY <1>3, <1>18, WritableKeeps DEF PacketWritable
<1>19. CASE Notified
  BY <1>3, <1>19, NotifiedKeeps DEF Notified
<1> QED
  BY <1>1, <1>2, <1>4, <1>5, <1>6, <1>7, <1>8, <1>9, <1>10, <1>11, <1>12, <1>13, <1>14,
     <1>15, <1>16, <1>17, <1>18, <1>19 DEF Next

\* The inductive invariant holds: beside the properties below, no reference count
\* of a session, target or interface object is ever taken below zero, and a
\* section that took its reference is counted until it is removed.
THEOREM SessionInvariant == Spec => []Inv
<1>1. Init => Inv
  BY InitInv
<1>2. Inv /\ [Next]_vars => Inv'
  BY NextKeepsInv
<1> QED BY <1>1, <1>2, PTL DEF Spec

\* An own message never waits in a target without the aggregation timer that
\* flushes it (oonf_rfc5444_send_if, oonf_rfc5444_reconfigure_interface).
THEOREM QueuedTimer == Spec => []QueuedHasTimer
<1>1. Inv => QueuedHasTimer
  BY DEF Inv, QueuedHasTimer, Timed
<1> QED BY <1>1, SessionInvariant, PTL

\* While the session listens, an open unicast socket is bound to the address of
\* the interface object and the configured port (_apply_managed_socketpair).
THEOREM SocketsFollow == Spec => []SocketsFollowInterface
<1>1. Inv => SocketsFollowInterface
  BY DEF Inv, SocketsFollowInterface, Follows, Bind
<1> QED BY <1>1, SessionInvariant, PTL

\* The interface object lives exactly as long as a listener is registered with
\* it (_interface_add, _interface_remove).
THEOREM UsageCounts == Spec => []UsageCountsListeners
<1>1. ASSUME Inv, Running PROVE UsageCountsListeners
  <2> DEFINE ls == {l \in {"session", "other"} : IF l = "other" THEN other ELSE s.listener = "on"}
  <2>1. other \in BOOLEAN /\ Counted(s, other)
    BY <1>1 DEF Inv, TypeOK
  <2>2. Cardinality(ls) = One(other) + One(s.listener = "on")
    <3>1. CASE other /\ s.listener = "on"
      <4>1. ls = {"session", "other"} /\ "session" # "other"
        BY <3>1
      <4>2. Cardinality({"session", "other"}) = 2
        <5>1. IsFiniteSet({"session"}) /\ Cardinality({"session"}) = 1
          BY FS_Singleton
        <5>2. "other" \notin {"session"} /\ {"session"} \cup {"other"} = {"session", "other"}
          OBVIOUS
        <5> QED BY <5>1, <5>2, FS_AddElement
      <4> QED BY <3>1, <4>1, <4>2 DEF One
    <3>2. CASE other /\ s.listener # "on"
      <4>1. ls = {"other"}
        BY <3>2
      <4> QED BY <3>2, <4>1, FS_Singleton DEF One
    <3>3. CASE ~ other /\ s.listener = "on"
      <4>1. ls = {"session"}
        BY <3>3
      <4> QED BY <3>3, <4>1, FS_Singleton DEF One
    <3>4. CASE ~ other /\ s.listener # "on"
      <4>1. ls = {}
        BY <3>4
      <4> QED BY <3>4, <4>1, FS_EmptySet DEF One
    <3> QED BY <2>1, <3>1, <3>2, <3>3, <3>4
  <2> HIDE DEF ls
  <2>3. s.osif.usage = Cardinality(ls) /\ (s.osif.exists <=> s.osif.usage > 0)
    BY <2>1, <2>2 DEF Counted
  <2> QED BY <2>3 DEF UsageCountsListeners, ls
<1>2. Inv => UsageCountsListeners
  BY <1>1 DEF UsageCountsListeners
<1> QED BY <1>2, SessionInvariant, PTL

\* The cached interface data is behind the kernel only while an event is on its
\* way or the timer will read it again (oonf_interface_trigger_change,
\* _cb_change_handler).
THEOREM StaleNoticed == Spec => []StaleIsNoticed
<1>1. Inv => StaleIsNoticed
  BY DEF Inv, StaleIsNoticed, Noticed
<1> QED BY <1>1, SessionInvariant, PTL

\* A session is taken from a user that holds a reference only by the removal of
\* a section that had found the session (_cb_cfg_interface_changed).
THEOREM HeldAlive == Spec => HeldIsAlive
<1> DEFINE A == section' # section /\ user.iface > 0 /\ s.exists /\ ~ s'.exists => section = "found"
<1>1. Inv /\ [Next]_vars => [A]_vars
  <2> SUFFICES ASSUME Inv, Next, section' # section, user.iface > 0, s.exists, ~ s'.exists
               PROVE  section = "found"
    OBVIOUS
  <2>1. CASE SectionRemoved
    <3>1. TypeOK /\ Running /\ RunningInv /\ section # "none"
      BY <2>1 DEF SectionRemoved, Inv, RunningInv, Sound
    <3>2. section # "took"
      BY <2>1, <3>1, SectionRemovedKeeps
    <3> QED BY <3>1, <3>2 DEF TypeOK
  <2>2. ASSUME NEW o \in Outcomes, NEW mc \in McChoices, cb_cfg_interface_changed(mc, o)
        PROVE  section = "found"
    <3>1. TypeOK /\ Running /\ RunningInv
      BY <2>2 DEF cb_cfg_interface_changed, Inv, RunningInv, Sound
    <3> QED BY <2>2, <3>1, SectionChangedKeeps
  <2>3. CASE UNCHANGED section
    BY <2>3
  <2> QED
    BY <2>1, <2>2, <2>3 DEF Next, oonf_rfc5444_reconfigure_protocol, ChangeTimer, OtherListens,
       OtherLeaves, Halted, oonf_rfc5444_add_interface, oonf_rfc5444_remove_interface,
       oonf_rfc5444_add_target, oonf_rfc5444_remove_target, Send, Forward, cb_aggregation_event,
       PacketWritable, KernelChanges, Notified, vars
<1> QED BY <1>1, SessionInvariant, PTL DEF Spec, HeldIsAlive
=============================================================================
