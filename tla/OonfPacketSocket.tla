---------------------------- MODULE OonfPacketSocket ----------------------------
(* The sockets of a managed packet socket, subsystems/oonf_packet_socket.c:   *)
(* for each address family one unicast socket and one for multicast.  A       *)
(* socket is closed or bound to an address and a port and then may    *)
(* have a backlog of packets the kernel did not take at once.                 *)
EXTENDS OonfInterface, Sequences

CONSTANTS Closed   \* a socket that is not open

Kinds == {"unicast", "multicast"}

\* The multicast group, in the place of an address of the interface.
Group == -1

AllClosed == [k \in Kinds |-> [f \in Families |-> Closed]]

Bound(addr, port) == [addr |-> addr, port |-> port, backlog |-> FALSE]
SameBinding(sock, addr, port) == sock # Closed /\ sock.addr = addr /\ sock.port = port

\* _apply_managed_socket(): the new socket and the return value, 1 for 'not
\* touched', 0 for 'changed', -1 for an error.
apply_managed_socket(sock, addr, port, data, fails) ==
  IF SameBinding(sock, addr, port) \/ (sock = Closed /\ ~ data.up) THEN <<sock, 1>>
  ELSE IF ~ data.up THEN <<Closed, 0>>
  ELSE IF fails THEN <<Closed, -1>>
  ELSE <<Bound(addr, port), 0>>

\* Mutant: a socket whose interface has lost its address is left alone.
SocketpairKeepsOrphan(socks, f, data, conf, fails) ==
  IF data.addr[f] = 0 THEN [socks |-> socks, changed |-> FALSE]
  ELSE LET uni == apply_managed_socket(socks["unicast"][f], data.addr[f], conf.port,
                                       data, "unicast" \in fails)
       IN [socks |-> [socks EXCEPT !["unicast"][f] = uni[1]], changed |-> uni[2] = 0]

\* _apply_managed_socketpair().  Without an address to bind to both sockets are
\* closed, which is no change; a multicast socket that cannot be opened closes
\* the unicast socket.
apply_managed_socketpair(socks, f, data, conf, fails) ==
  LET uni == apply_managed_socket(socks["unicast"][f], data.addr[f], conf.port,
                                  data, "unicast" \in fails)
      mc == IF f \in conf.mc
            THEN apply_managed_socket(socks["multicast"][f], Group, conf.mcport,
                                      data, "multicast" \in fails)
            ELSE <<Closed, 1>>
  IN IF data.addr[f] = 0
     THEN [socks |-> [k \in Kinds |-> [socks[k] EXCEPT ![f] = Closed]], changed |-> FALSE]
     ELSE [socks |-> [k \in Kinds |-> [socks[k] EXCEPT ![f] =
                        IF k = "multicast" THEN mc[1]
                        ELSE IF mc[2] = -1 THEN Closed ELSE uni[1]]],
           changed |-> uni[2] = 0 \/ mc[2] = 0]

\* oonf_packet_managed_is_active()
is_active(socks, f) == socks["unicast"][f] # Closed

\* The unicast socket of a family, whose backlog has changed.
WithBacklog(socks, f, left) ==
  [socks EXCEPT !["unicast"] = [socks["unicast"] EXCEPT ![f] =
                                  [socks["unicast"][f] EXCEPT !.backlog = left]]]

\* oonf_packet_send_managed() and oonf_packet_send(): through the unicast socket
\* of the family, if it is open.  'answer' is what the kernel says to a packet;
\* with a backlog it is not asked.
oonf_packet_send(socks, f, answer) ==
  IF is_active(socks, f) /\ answer = "again"
  THEN WithBacklog(socks, f, TRUE) ELSE socks
=============================================================================
