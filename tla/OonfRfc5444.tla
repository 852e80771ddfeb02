------------------------------ MODULE OonfRfc5444 ------------------------------
(* The RFC 5444 session of subsystems/oonf_rfc5444.c on one named interface,  *)
(* with the managed sockets and the interface object below it: references of  *)
(* users, the configuration section and targets; multicast targets that are   *)
(* replaced with every reconfiguration; messages that wait in a target for    *)
(* its aggregation timer.  's' is the state of the program; once it has used  *)
(* an object it has freed (or recursed without end) nothing more is said.     *)
EXTENDS OonfPacketSocket, TLC

CONSTANTS Ports,          \* the UDP ports the configuration may choose
          McChoices,      \* multicast families a section may ask for
          None,           \* no target
          MaxUserRefs,    \* bound: references a user takes on one object
          MaxChanges,     \* bound: changes of the kernel's interface
          MaxFailures,    \* bound: handlers in which the system fails
          MaxBusy         \* bound: targets that hold a message or run a timer

\* A target: what waits in it ("own" covers forwarded messages beside own
\* ones), whether its aggregation timer runs and who uses it.
TargetStates == [holds : {"nothing", "own", "forwarded"}, timer : BOOLEAN, refs : Nat]

ASSUME Rfc5444Assumption ==
  /\ Families = {"v4", "v6"} /\ Ports \subseteq Nat \ {0}
  /\ McChoices \subseteq SUBSET Families
  /\ None \notin TargetStates

VARIABLES s,         \* the program: protocol, interface, targets, sockets
          kernel,    \* the kernel's interface
          note,      \* interface events on their way to the program
          changes, failures,
          user,      \* references a user of the API holds: interface, target
          other,     \* another subsystem listens to the same interface
          section    \* the configuration: "none", "took" or "found"

vars == <<s, kernel, note, changes, failures, user, other, section>>
environment == <<kernel, note, changes, failures>>

NewTarget == [holds |-> "nothing", timer |-> FALSE, refs |-> 1]
Targets == {"v4", "v6", "unicast"}
FamilyOf(t) == IF t = "unicast" THEN "v4" ELSE t

NoReferences == [iface |-> 0, target |-> 0]
NoConfig == [mc |-> {}, port |-> 0, mcport |-> 0]

\* No session: what stays is the port of the protocol, the interface object and
\* the fate of the program.
NoSession(port, osif, undefined) ==
  [exists |-> FALSE, refs |-> 0, cfg |-> NoConfig, man |-> NoConfig,
   named |-> FALSE, target |-> [t \in Targets |-> None],
   listener |-> "none", socks |-> AllClosed,
   port |-> port, osif |-> osif, undefined |-> undefined]

\* The listener of the session points to an interface object: registered (on),
\* unregistered but still pointing (off), pointing to freed memory (dangling).
DropListener(x) ==
  IF x.listener # "on" THEN x
  ELSE LET o == interface_remove(x.osif)
       IN [x EXCEPT !.osif = o, !.listener = IF o.exists THEN "off" ELSE "dangling"]

\* The other subsystem leaves: a pointer that is not counted starts to dangle.
DropOther(x) ==
  LET o == interface_remove(x.osif)
  IN [x EXCEPT !.osif = o,
               !.listener = IF ~ o.exists /\ @ = "off" THEN "dangling" ELSE @]

Undefined(x, why) == [x EXCEPT !.undefined = why]

-----------------------------------------------------------------------------
(* Targets *)

\* The replacement of the multicast targets at the end of
\* oonf_rfc5444_reconfigure_interface().  'old' is not reset between the two
\* families: without an IPv6 target the destroyed IPv4 target is destroyed once
\* more, or becomes the IPv6 target when there is no memory.
ReplaceTargets(x, mc, memory) ==
  LET replaced(f) == IF f \in mc THEN IF memory THEN NewTarget ELSE x.target[f] ELSE None
      old4 == x.target["v4"] # None /\ ~ ("v4" \in mc /\ ~ memory)
      twice == old4 /\ x.target["v6"] = None
  IN IF twice THEN Undefined(x, "freed")
     ELSE [x EXCEPT !.target = [t \in Targets |-> IF t = "unicast" THEN x.target[t] ELSE replaced(t)]]

-----------------------------------------------------------------------------
(* Sockets *)

\* One pass of _apply_managed() over both families.
Sockets(x, fails) ==
  LET data == IF x.listener = "none" THEN NoData ELSE x.osif.data
      v4 == apply_managed_socketpair(x.socks, "v4", data, x.man, fails)
      v6 == apply_managed_socketpair(v4.socks, "v6", data, x.man, fails)
  IN [x |-> [x EXCEPT !.socks = v6.socks], changed |-> v4.changed \/ v6.changed]

\* _apply_managed() with its callback: _cb_interface_changed() reconfigures the
\* session if a socket changed, which applies the same configuration again and
\* replaces the targets.  When that changes a socket too (the multicast socket
\* fails and takes the unicast socket with it) the recursion has no end.
apply_managed(x, fails, memory) ==
  LET first == Sockets(x, fails)
      again == Sockets([first.x EXCEPT !.man = x.cfg], fails)
  IN IF x.listener = "dangling" THEN Undefined(x, "freed")
     ELSE IF ~ first.changed THEN first.x
     ELSE IF again.changed THEN Undefined(x, "recursion")
     ELSE ReplaceTargets(again.x, x.cfg.mc, memory)

\* oonf_packet_apply_managed(): the listener is only renewed when the name of
\* the interface differs from the one applied before.
oonf_packet_apply_managed(x, fails, memory, readable) ==
  LET y == IF x.named THEN [x EXCEPT !.man = x.cfg]
           ELSE LET d == DropListener(x)
                IN [d EXCEPT !.man = x.cfg, !.named = TRUE, !.listener = "on",
                             !.osif = interface_add(d.osif, kernel, readable)]
  IN apply_managed(y, fails, memory)

\* Mutant: the sockets are closed, the listener stays registered.
RemoveManagedKeepsListener(x) == [x EXCEPT !.socks = AllClosed]

\* oonf_packet_remove_managed()
oonf_packet_remove_managed(x) == [DropListener(x) EXCEPT !.socks = AllClosed]

-----------------------------------------------------------------------------
(* Interfaces of the session *)

\* oonf_rfc5444_reconfigure_interface() with the port filled in where the
\* configuration has none; without a protocol port nothing is applied yet.
Reconfigure(x, cfg, fails, memory, readable) ==
  LET full == [mc |-> cfg.mc, port |-> IF cfg.port = 0 THEN x.port ELSE cfg.port,
               mcport |-> IF cfg.mcport = 0 THEN x.port ELSE cfg.mcport]
      y == oonf_packet_apply_managed([x EXCEPT !.cfg = full], fails, memory, readable)
  IN IF x.port = 0 THEN [x EXCEPT !.cfg = full]
     ELSE IF y.undefined # "none" THEN y
     ELSE ReplaceTargets(y, cfg.mc, memory)

AddInterface(x) ==
  IF x.exists THEN [x EXCEPT !.refs = @ + 1]
  ELSE [x EXCEPT !.exists = TRUE, !.refs = 1]

\* The session is gone: its targets, its sockets and its listener.
Destroyed(x) ==
  LET y == oonf_packet_remove_managed(x)
  IN NoSession(y.port, y.osif, y.undefined)

RemoveInterface(x) ==
  IF x.refs > 1 THEN [x EXCEPT !.refs = @ - 1] ELSE Destroyed(x)

-----------------------------------------------------------------------------
(* Actions of the configuration *)

Init ==
  /\ s = NoSession(0, NoInterface, "none")
  /\ kernel \in KernelData /\ note = <<>> /\ changes = 0 /\ failures = 0
  /\ user = NoReferences /\ other = FALSE
  /\ section = "none"

Running == s.undefined = "none"

\* The kernel answers the attempts of one handler alike: which kinds of sockets
\* cannot be opened, whether there is memory, whether the interface can be read.
Outcomes == [fails : SUBSET Kinds, memory : BOOLEAN, readable : BOOLEAN]
Fine == [fails |-> {}, memory |-> TRUE, readable |-> TRUE]
Spent(ok) == /\ ok \/ failures < MaxFailures
             /\ failures' = IF ok THEN failures ELSE failures + 1

\* _cb_cfg_interface_changed() for a section that is new or has changed: the
\* section takes a reference only if it creates the interface.
cb_cfg_interface_changed(mc, o) ==
  /\ Running /\ Spent(o = Fine)
  /\ s' = Reconfigure(IF s.exists THEN s ELSE AddInterface(s),
                      [NoConfig EXCEPT !.mc = mc], o.fails, o.memory, o.readable)
  /\ section' = IF ~ s.exists THEN "took"
                ELSE IF section = "none" THEN "found" ELSE section
  /\ UNCHANGED <<kernel, note, changes, user, other>>

\* A user whose session is gone, with the section or with a reference that was
\* not its last one, must forget its references: nothing tells it.
UserKeeps(references) == user' = IF s'.exists THEN references ELSE NoReferences

\* ... and for a section that was removed.
SectionRemoved ==
  /\ Running /\ section # "none"
  /\ s' = IF s.exists THEN RemoveInterface(s) ELSE s
  /\ section' = "none" /\ UserKeeps(user)
  /\ UNCHANGED <<environment, other>>

\* oonf_rfc5444_reconfigure_protocol(), called by _cb_cfg_rfc5444_changed().
oonf_rfc5444_reconfigure_protocol(p, o) ==
  /\ Running /\ p # s.port /\ Spent(o = Fine)
  /\ LET x == [s EXCEPT !.port = p]
     IN s' = IF ~ s.exists THEN x
             ELSE Reconfigure(oonf_packet_remove_managed(x), s.cfg,
                              o.fails, o.memory, o.readable)
  /\ UNCHANGED <<kernel, note, changes, user, other, section>>

-----------------------------------------------------------------------------
(* Actions of a user of the API *)

oonf_rfc5444_add_interface ==
  /\ Running /\ user.iface < MaxUserRefs
  /\ s' = AddInterface(s) /\ user' = [user EXCEPT !.iface = @ + 1]
  /\ UNCHANGED <<environment, other, section>>

oonf_rfc5444_remove_interface ==
  /\ Running /\ user.iface > 0
  /\ s' = RemoveInterface(s) /\ UserKeeps([user EXCEPT !.iface = @ - 1])
  /\ UNCHANGED <<environment, other, section>>

\* The session with another state of its unicast target.
WithUnicast(x, target) == [x EXCEPT !.target = [@ EXCEPT !["unicast"] = target]]

\* Mutant: the target does not count as a user of the interface.
AddTargetUncounted ==
  /\ Running /\ user.iface > 0 /\ user.target < MaxUserRefs
  /\ LET unicast == s.target["unicast"]
     IN s' = IF unicast # None THEN WithUnicast(s, [unicast EXCEPT !.refs = @ + 1])
             ELSE WithUnicast(s, NewTarget)
  /\ user' = [user EXCEPT !.target = @ + 1]
  /\ UNCHANGED <<environment, other, section>>

\* A target holds a reference of its interface.
oonf_rfc5444_add_target ==
  /\ Running /\ user.iface > 0 /\ user.target < MaxUserRefs
  /\ LET unicast == s.target["unicast"]
     IN s' = IF unicast # None THEN WithUnicast(s, [unicast EXCEPT !.refs = @ + 1])
             ELSE WithUnicast([s EXCEPT !.refs = @ + 1], NewTarget)
  /\ user' = [user EXCEPT !.target = @ + 1]
  /\ UNCHANGED <<environment, other, section>>

\* The last reference drops the interface first and the target then, through
\* its pointer to the interface.
oonf_rfc5444_remove_target ==
  /\ Running /\ user.target > 0
  /\ LET unicast == s.target["unicast"]
     IN s' = IF unicast.refs > 1 THEN WithUnicast(s, [unicast EXCEPT !.refs = @ - 1])
             ELSE IF s.refs = 1 THEN Undefined(s, "freed")
             ELSE RemoveInterface(WithUnicast(s, None))
  /\ user' = [user EXCEPT !.target = @ - 1]
  /\ UNCHANGED <<environment, other, section>>

-----------------------------------------------------------------------------
(* Messages *)

Active(t) == s.target[t] # None /\ is_active(s.socks, FamilyOf(t))

\* Mutant: no timer for a target whose socket was idle.
SendWithoutTimer(ts, created) ==
  [s EXCEPT !.target = [t \in Targets |->
     IF t \in ts /\ Active(t)
     THEN [@[t] EXCEPT !.timer = @ \/ s.target[t].holds = "forwarded",
                       !.holds = IF created THEN "own" ELSE @] ELSE @[t]]]

\* oonf_rfc5444_send_if() for one target and oonf_rfc5444_send_all() for those a
\* user selects: inactive targets are skipped, the timer of the others is
\* started unless it runs already.
SendTo(ts, created) ==
  [s EXCEPT !.target = [t \in Targets |->
     IF t \in ts /\ Active(t)
     THEN [s.target[t] EXCEPT !.timer = TRUE, !.holds = IF created THEN "own" ELSE @]
     ELSE s.target[t]]]

FewBusy == Cardinality({t \in Targets : s'.target[t] # None /\
              (s'.target[t].timer \/ s'.target[t].holds # "nothing")}) <= MaxBusy

Send ==
  /\ Running
  /\ \E ts \in SUBSET Targets \ {{}} : \E created \in BOOLEAN : s' = SendTo(ts, created)
  /\ FewBusy
  /\ UNCHANGED <<environment, user, other, section>>

\* A message arrives through one of the sockets and the reader forwards it: the
\* writer puts it into the selected targets, whatever their state, and no timer
\* is started.
Forward ==
  /\ Running /\ \E k \in Kinds, f \in Families : s.socks[k][f] # Closed
  /\ \E ts \in SUBSET Targets \ {{}} :
       s' = [s EXCEPT !.target = [t \in Targets |->
               IF t \in ts /\ s.target[t] # None /\ s.target[t].holds = "nothing"
               THEN [s.target[t] EXCEPT !.holds = "forwarded"] ELSE s.target[t]]]
  /\ FewBusy
  /\ UNCHANGED <<environment, user, other, section>>

\* _cb_aggregation_event(): flush the target.  The packet goes out through the
\* socket of the family, waits for it, or is dropped with a closed socket.
cb_aggregation_event(t, answer) ==
  /\ Running /\ s.target[t] # None /\ s.target[t].timer /\ Spent(answer = "sent")
  /\ LET flushed == [s.target[t] EXCEPT !.holds = "nothing", !.timer = FALSE]
         x == [s EXCEPT !.target = [s.target EXCEPT ![t] = flushed]]
     IN s' = IF s.target[t].holds = "nothing" THEN x
             ELSE IF s.listener = "dangling" THEN Undefined(x, "freed")
             ELSE [x EXCEPT !.socks = oonf_packet_send(s.socks, FamilyOf(t), answer)]
  /\ UNCHANGED <<kernel, note, changes, user, other, section>>

\* _cb_packet_event() for a socket with a backlog that can be written again: the
\* bytes of the socket structure are sent, with a length found there, and as
\* many bytes are taken off the backlog.
PacketWritable(f, answer) ==
  /\ Running /\ s.socks["unicast"][f] # Closed /\ s.socks["unicast"][f].backlog
  /\ \E left \in IF answer = "again" THEN {TRUE} ELSE BOOLEAN :
       s' = [s EXCEPT !.socks = WithBacklog(@, f, left)]
  /\ UNCHANGED <<environment, user, other, section>>

-----------------------------------------------------------------------------
(* The interface *)

KernelChanges(d) ==
  /\ changes < MaxChanges /\ d # kernel
  /\ kernel' = d /\ changes' = changes + 1 /\ note' = Append(note, ~ d.up)
  /\ UNCHANGED <<s, failures, user, other, section>>

\* _cb_rtnetlink_message()
Notified ==
  /\ Running /\ note # <<>> /\ note' = Tail(note)
  /\ s' = [s EXCEPT !.osif = oonf_interface_trigger_change(@, Head(note))]
  /\ UNCHANGED <<kernel, changes, failures, user, other, section>>

\* Mutant: a reading that fails is not repeated.
ChangeTimerGivesUp(o) ==
  /\ Running /\ s.osif.timer /\ Spent(o = Fine)
  /\ LET x == [s EXCEPT !.osif = [change_handler(@, kernel, o.readable) EXCEPT !.timer = FALSE]]
     IN s' = IF o.readable /\ s.listener = "on" THEN apply_managed(x, o.fails, o.memory) ELSE x
  /\ UNCHANGED <<kernel, note, changes, user, other, section>>

\* _cb_change_handler() with the listener of the session, whose handler is
\* _cb_interface_listener().
ChangeTimer(o) ==
  /\ Running /\ s.osif.timer /\ Spent(o = Fine)
  /\ LET x == [s EXCEPT !.osif = change_handler(@, kernel, o.readable)]
     IN s' = IF o.readable /\ s.listener = "on" THEN apply_managed(x, o.fails, o.memory) ELSE x
  /\ UNCHANGED <<kernel, note, changes, user, other, section>>

\* oonf_interface_add_listener() and oonf_interface_remove_listener() of another
\* subsystem.  Adding reads the interface but tells nobody, or starts the timer.
OtherListens(o) ==
  /\ Running /\ ~ other /\ Spent(o = Fine) /\ other' = TRUE
  /\ s' = [s EXCEPT !.osif = interface_add(@, kernel, o.readable)]
  /\ UNCHANGED <<kernel, note, changes, user, section>>

OtherLeaves ==
  /\ Running /\ other /\ other' = FALSE
  /\ s' = DropOther(s)
  /\ UNCHANGED <<environment, user, section>>

Halted == ~ Running /\ UNCHANGED vars

Answers == {"sent", "again", "error"}

Next ==
  \/ \E o \in Outcomes :
       \/ \E mc \in McChoices : cb_cfg_interface_changed(mc, o)
       \/ \E p \in Ports : oonf_rfc5444_reconfigure_protocol(p, o)
       \/ ChangeTimer(o) \/ OtherListens(o)
  \/ SectionRemoved \/ OtherLeaves \/ Halted
  \/ oonf_rfc5444_add_interface \/ oonf_rfc5444_remove_interface
  \/ oonf_rfc5444_add_target \/ oonf_rfc5444_remove_target
  \/ Send \/ Forward
  \/ \E t \in Targets, a \in Answers : cb_aggregation_event(t, a)
  \/ \E f \in Families, a \in Answers : PacketWritable(f, a)
  \/ \E d \in KernelData : KernelChanges(d)
  \/ Notified

Spec == Init /\ [][Next]_vars

-----------------------------------------------------------------------------
(* Properties *)

\* An own message never waits in a target without the aggregation timer that
\* flushes it: not after the target was replaced, its socket closed or reopened.
QueuedHasTimer ==
  \A t \in Targets : Running /\ s.target[t] # None /\ s.target[t].holds = "own" => s.target[t].timer

\* While the session listens, an open unicast socket is bound to the address
\* the interface object has for its family and to the configured port.
SocketsFollowInterface ==
  Running /\ s.listener = "on" =>
    \A f \in Families : s.socks["unicast"][f] # Closed =>
       SameBinding(s.socks["unicast"][f], s.osif.data.addr[f], s.man.port)

\* The interface object lives exactly as long as a listener is registered with
\* it, so that no registered listener points to freed memory.
UsageCountsListeners ==
  Running => /\ s.osif.usage = Cardinality({l \in {"session", "other"} :
                                   IF l = "other" THEN other ELSE s.listener = "on"})
             /\ s.osif.exists <=> s.osif.usage > 0

\* A session is taken from a user that holds a reference only by the removal of
\* a configuration section that had found the session and took no reference.
HeldIsAlive ==
  [][section' # section /\ user.iface > 0 /\ s.exists /\ ~ s'.exists => section = "found"]_vars

\* The cached interface data is behind the kernel only while an event is on its
\* way or the timer will read it again, although readings fail in between.
StaleIsNoticed ==
  Running /\ s.osif.exists /\ s.osif.data # kernel => note # <<>> \/ s.osif.timer
=============================================================================
