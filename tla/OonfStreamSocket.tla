--------------------------- MODULE OonfStreamSocket ---------------------------
(* Stream sockets and their sessions (subsystems/oonf_stream_socket.c), with  *)
(* the telnet and the http server on top of them and one outgoing socket      *)
(* ("user") whose owner uses the whole interface.  One event of the socket    *)
(* scheduler or of a timer is one step; what the peer or the kernel answers   *)
(* to a call is chosen by the step.                                           *)
EXTENDS OonfHttp, FiniteSets

CONSTANTS Slots,          \* sessions that can exist at the same time
          Peers,          \* addresses of peers
          Bindings,       \* the configurations of a managed socket pair
          SessionLimit,   \* allowed_sessions of every socket
          Chunks,         \* what one read can return, by kind of socket
          Acl,            \* the acl of a socket, by kind (None: no acl)
          MaxChanges      \* bound: configuration changes and interface calls

VARIABLES st,             \* the program
          changes

streamVars == <<st, changes>>

Kinds == {"telnet", "http", "user"}
Families == {"v4", "v6"}
Sockets == {<<k, f>> : k \in {"telnet", "http"}, f \in Families} \union {<<"user", "v4">>}
KindOf(sock) == sock[1]

ASSUME StreamAssumption ==
  /\ Bindings \subseteq [Families -> Nat] /\ SessionLimit \in Nat \ {0}
  /\ MaxInput \in Nat /\ MaxChanges \in Nat
  /\ IsFiniteSet(Slots)
  /\ \A k \in Kinds : Chunks[k] \subseteq Seq(STRING)
  /\ None \notin Nat /\ None \notin Sockets

ClosedSocket == [open |-> FALSE, port |-> 0, allowed |-> 0, remove |-> FALSE]
Closed == [sock |-> None]

Open(s) == st.ses[s] # Closed
SessionsOf(x, sock) == {s \in Slots : x.ses[s] # Closed /\ x.ses[s].sock = sock}

\* Servers have a session timeout, the outgoing socket has none.
session_timeout(sock) == KindOf(sock) # "user"

------------------------------------------------------------------------------
(* Sessions *)

\* Mutant: the place is not given back.
CloseUncounted(x, s) ==
  LET told == IF KindOf(x.ses[s].sock) = "telnet" THEN cb_telnet_cleanup(x, s) ELSE x
  IN [told EXCEPT !.ses[s] = Closed]

\* The application cleans up, the timeout stops, the place is given back.
oonf_stream_close(x, s) ==
  LET told == IF KindOf(x.ses[s].sock) = "telnet" THEN cb_telnet_cleanup(x, s) ELSE x
  IN [told EXCEPT !.ses[s] = Closed, !.sock[x.ses[s].sock].allowed = @ + 1]

SessionFields(sock, peer, waiting, timer) ==
  [sock |-> sock, peer |-> peer, state |-> "active", in |-> <<>>, out |-> None,
   write |-> TRUE, wait |-> waiting, removed |-> FALSE, timer |-> timer, cut |-> FALSE,
   echo |-> FALSE, stop |-> None, timeout |-> FALSE, again |-> None, rc |-> FALSE]

\* Mutant: no timeout.
SessionWithoutTimer(sock, peer, waiting) == SessionFields(sock, peer, waiting, FALSE)

NewSession(sock, peer, waiting) ==
  SessionFields(sock, peer, waiting, session_timeout(sock))

\* A session beyond the limit is created too, to tell its peer.
create_session(x, s, sock, peer, waiting) ==
  LET new == NewSession(sock, peer, waiting)
      placed == [x EXCEPT !.ses[s] = IF KindOf(sock) = "telnet" THEN cb_telnet_init(new)
                                                              ELSE new,
                          !.sock[sock].allowed = @ - 1]
  IN IF x.sock[sock].allowed > 0 THEN placed
     ELSE IF KindOf(sock) = "user" THEN [placed EXCEPT !.ses[s].state = "send_and_quit"]
     ELSE create_error([placed EXCEPT !.ses[s].state = "send_and_quit"], s, 503, KindOf(sock))

------------------------------------------------------------------------------
(* Sockets *)

\* The sessions are walked in the order of their list.
CloseAll(x, ends) ==
  LET order == SetToSeq(ends)
      left[k \in 0..Len(order)] ==
        IF k = 0 THEN x ELSE oonf_stream_close(left[k - 1], order[k])
  IN left[Len(order)]

\* Closing stops at nothing when forced, else spares sessions with output.
oonf_stream_remove(x, sock, force) ==
  LET ends == {s \in SessionsOf(x, sock) : force \/ x.ses[s].out = None}
      left == CloseAll(x, ends)
  IN IF ~ x.sock[sock].open THEN x
     ELSE IF SessionsOf(left, sock) # {} THEN left
     ELSE [left EXCEPT !.sock[sock].open = FALSE]

oonf_stream_add(x, sock, port, fails) ==
  IF fails THEN [x EXCEPT !.sock[sock] = ClosedSocket]
  ELSE [x EXCEPT !.sock[sock] = [open |-> TRUE, port |-> port,
                                 allowed |-> SessionLimit, remove |-> FALSE]]

\* One socket of a pair: gone without an address, kept with the same one.
apply_managed_socket(x, sock, port, fails) ==
  IF port = 0 THEN oonf_stream_remove(x, sock, TRUE)
  ELSE IF x.sock[sock].open /\ x.sock[sock].port = port THEN x
  ELSE oonf_stream_add(oonf_stream_remove(x, sock, TRUE), sock, port, fails)

\* The second socket is not touched when the first cannot be opened.
oonf_stream_apply_managed(x, k, binding, failing) ==
  LET first == apply_managed_socket(x, <<k, "v4">>, binding["v4"], "v4" \in failing)
      failed == binding["v4"] # 0 /\ ~ first.sock[<<k, "v4">>].open
  IN IF failed THEN first
     ELSE apply_managed_socket(first, <<k, "v6">>, binding["v6"], "v6" \in failing)

oonf_stream_remove_managed(x, k) ==
  oonf_stream_remove(oonf_stream_remove(x, <<k, "v4">>, TRUE), <<k, "v6">>, TRUE)

------------------------------------------------------------------------------
(* The event handler of a session.  'ev' holds what the calls in it return:   *)
(*   read    "none" (also EAGAIN), "error", "eof" or "data" (in ev.chunk)     *)
(*   write   "none" (also EAGAIN), "error", "some" or "all"                   *)
(*   connect the pending error of an outgoing connection is none              *)
(*   user    what the owner of the outgoing socket does with new input        *)
(*   refused netlink does not take a routing request                          *)

Connect(x, s, ev) ==
  IF ~ x.ses[s].wait \/ ev.write = "none" THEN x
  ELSE IF ev.connect THEN [x EXCEPT !.ses[s].wait = FALSE]
  ELSE [x EXCEPT !.ses[s].state = "cleanup"]

Read(x, s, ev) ==
  LET sock == x.ses[s].sock
      filled == [x EXCEPT !.ses[s].in = @ \o ev.chunk]
  IN IF x.ses[s].state # "active" \/ ev.read = "none" THEN x
     ELSE IF ev.read = "error" THEN [x EXCEPT !.ses[s].state = "cleanup"]
     ELSE IF ev.read = "eof" THEN [x EXCEPT !.ses[s].state = "send_and_quit"]
     ELSE IF Len(filled.ses[s].in) > MaxInput
          THEN LET full == [filled EXCEPT !.ses[s].state = "send_and_quit"]
               IN IF KindOf(sock) = "user" THEN full
                  ELSE create_error(full, s, 413, KindOf(sock))
     ELSE [filled EXCEPT !.ses[s].timer = session_timeout(sock)]

\* The owner of the outgoing socket answers, ends the session, or calls
\* oonf_stream_close() or oonf_stream_remove() for the busy session or socket.
UserReceives(x, s, choice) ==
  LET used == [x EXCEPT !.ses[s].in = <<>>]
  IN CASE choice = "answer" -> Put(used, s)
       [] choice = "quit" -> [Put(used, s) EXCEPT !.ses[s].state = "send_and_quit"]
       [] choice = "close" -> [used EXCEPT !.ses[s].removed = TRUE]
       [] choice = "remove" -> [used EXCEPT !.sock[x.ses[s].sock].remove = TRUE]

Receive(x, s, ev) ==
  IF x.ses[s].state # "active" \/ x.ses[s].in = <<>> THEN x
  ELSE CASE KindOf(x.ses[s].sock) = "telnet" -> cb_telnet_receive_data(x, s, ev.refused)
         [] KindOf(x.ses[s].sock) = "http" -> cb_http_receive_data(x, s)
         [] OTHER -> UserReceives(x, s, ev.user)

\* Every successful send sets the timeout of the socket, whatever a telnet
\* user has asked for.
Send(x, s, ev) ==
  IF x.ses[s].state = "cleanup" \/ x.ses[s].out = None THEN x
  ELSE CASE ev.write = "none" -> [x EXCEPT !.ses[s].write = TRUE]
         [] ev.write = "error" -> [x EXCEPT !.ses[s].state = "cleanup"]
         [] OTHER -> [x EXCEPT !.ses[s] =
                        [@ EXCEPT !.timer = session_timeout(x.ses[s].sock),
                                  !.out = IF ev.write = "all" THEN None ELSE x.ses[s].out]]

Idle(x, s) ==
  LET state == x.ses[s].state
  IN IF x.ses[s].out # None THEN x
     ELSE [x EXCEPT !.ses[s] =
             [@ EXCEPT !.write = FALSE,
                       !.state = IF state = "send_and_quit" THEN "cleanup" ELSE state]]

\* The session has been served: it is closed if it has ended or was removed
\* meanwhile, and then its socket if that was removed.
Served(x, s, sock) ==
  LET RemoveSocket(y) == IF y.sock[sock].remove THEN oonf_stream_remove(y, sock, FALSE) ELSE y
  IN IF x.broken THEN x
     ELSE RemoveSocket(IF x.ses[s].state = "cleanup" \/ x.ses[s].removed
                       THEN oonf_stream_close(x, s) ELSE x)

cb_parse_connection(x, s, ev) ==
  LET Serve(y) ==
        IF y.ses[s].wait THEN y
        ELSE Served(Idle(Send(Receive(Read(y, s, ev), s, ev), s, ev), s), s, y.ses[s].sock)
  IN Serve(Connect(x, s, ev))

------------------------------------------------------------------------------
StreamInit ==
  /\ st = [sock |-> [k \in Sockets |-> ClosedSocket],
           ses |-> [s \in Slots |-> Closed],
           repeat |-> {}, lost |-> {}, routes |-> {}, plugin |-> TRUE,
           sites |-> {}, broken |-> FALSE]
  /\ changes = 0

FreeSlot == CHOOSE s \in Slots : ~ Open(s)
HasSlot == \E s \in Slots : ~ Open(s)
Alive == ~ st.broken

Counted == changes < MaxChanges /\ changes' = changes + 1

\* A configuration is applied to one of the servers.
cb_config_changed ==
  \E k \in {"telnet", "http"}, b \in Bindings, failing \in SUBSET Families :
    /\ Alive /\ Counted
    /\ st' = oonf_stream_apply_managed(st, k, b, failing)

\* The server is shut down.
ServerCleanup ==
  \E k \in {"telnet", "http"} :
    /\ Alive /\ Counted
    /\ st' = oonf_stream_remove_managed(st, k)

\* The listening socket is readable: one connection is accepted.
cb_parse_request ==
  \E sock \in Sockets, peer \in Peers :
    /\ Alive /\ HasSlot
    /\ KindOf(sock) # "user" /\ st.sock[sock].open
    /\ Acl[KindOf(sock)] # None => netaddr_acl_check_accept(Acl[KindOf(sock)], peer)
    /\ st' = create_session(st, FreeSlot, sock, peer, FALSE)
    /\ UNCHANGED changes

\* The owner of the outgoing socket adds it, connects with it, sends,
\* and removes it.
UserAdd ==
  /\ Alive /\ Counted /\ ~ st.sock[<<"user", "v4">>].open
  /\ st' = oonf_stream_add(st, <<"user", "v4">>, 0, FALSE)

oonf_stream_connect_to ==
  \E waiting \in BOOLEAN, peer \in Peers :
    /\ Alive /\ Counted /\ HasSlot /\ st.sock[<<"user", "v4">>].open
    /\ st' = create_session(st, FreeSlot, <<"user", "v4">>, peer, waiting)

UserSends ==
  \E s \in Slots :
    /\ Alive /\ Open(s) /\ KindOf(st.ses[s].sock) = "user"
    /\ st' = oonf_stream_flush(Put(st, s), s)
    /\ UNCHANGED changes

UserRemove ==
  \E force \in BOOLEAN :
    /\ Alive /\ Counted
    /\ st' = oonf_stream_remove(st, <<"user", "v4">>, force)

\* A peer finishes the line or the request it has begun.
Follows(in, chunk) ==
  chunk[1] = "eol" \/ (in # <<>> <=> chunk[1] \in {"more", "blank", "body"})

AsksForRoute(chunk) ==
  \E w \in Tokens(chunk) \intersect DOMAIN CommandOf, i \in 1..2 :
    i \in DOMAIN CommandOf[w] /\ "route" \in {CommandOf[w][i].name, CommandOf[w][i].again}

\* A session is ready to read, to write, or both.
SessionEvent ==
  \E s \in Slots :
    /\ Alive /\ Open(s)
    /\ LET x == st.ses[s]
           kind == KindOf(x.sock)
           user == kind = "user"
       IN \E read \in {"none", "error", "eof", "data"},
             write \in IF x.write THEN {"none", "error", "some", "all"} ELSE {"none"} :
          \E chunk \in IF read # "data" THEN {<<>>}
                       ELSE {c \in Chunks[kind] : Follows(x.in, c)} :
          \E connect \in IF user THEN BOOLEAN ELSE {TRUE},
             choice \in IF user THEN {"answer", "quit", "close", "remove"} ELSE {"answer"},
             refused \in IF AsksForRoute(chunk) THEN BOOLEAN ELSE {FALSE} :
            st' = cb_parse_connection(st, s,
                    [read |-> read, write |-> write, chunk |-> chunk,
                     connect |-> connect, refused |-> refused, user |-> choice])
    /\ UNCHANGED changes

cb_timeout_handler ==
  \E s \in Slots :
    /\ Alive /\ Open(s) /\ st.ses[s].timer
    /\ st' = oonf_stream_close(st, s)
    /\ UNCHANGED changes

\* The timer of a session that is gone works on freed memory.
RepeatTimer ==
  \E s \in st.repeat \union st.lost, refused \in BOOLEAN :
    /\ Alive
    /\ st' = IF Open(s) THEN cb_telnet_repeat_timer(st, s, refused)
                        ELSE [st EXCEPT !.broken = TRUE]
    /\ UNCHANGED changes

\* The kernel answers a routing request; the session's stop handler, still
\* set, finds the request gone.
RouteFinished ==
  \E s \in st.routes :
    /\ Alive
    /\ st' = oonf_telnet_stop([st EXCEPT !.routes = @ \ {s}], s)
    /\ UNCHANGED changes

\* One route of a query.
cb_route_get ==
  \E s \in st.routes :
    /\ Alive
    /\ st' = oonf_stream_flush(Put(st, s), s)
    /\ UNCHANGED changes

UnloadRemotecontrol ==
  /\ Alive /\ Counted /\ st.plugin
  /\ st' = remotecontrol_cleanup(st, {s \in Slots : Open(s) /\ st.ses[s].rc})

\* Plugins register and remove their sites.
ChangeSites ==
  \E p \in Paths :
    /\ Alive /\ \A s \in Slots : ~ Open(s)
    /\ st' = IF p \in st.sites THEN oonf_http_remove(st, p) ELSE oonf_http_add(st, p)
    /\ UNCHANGED changes

StreamNext ==
  \/ cb_config_changed \/ ServerCleanup \/ cb_parse_request
  \/ UserAdd \/ oonf_stream_connect_to \/ UserSends \/ UserRemove
  \/ SessionEvent \/ cb_timeout_handler
  \/ RepeatTimer \/ RouteFinished \/ cb_route_get \/ UnloadRemotecontrol
  \/ ChangeSites

StreamSpec == StreamInit /\ [][StreamNext]_streamVars

------------------------------------------------------------------------------
(* Properties *)

\* Every place of a socket is free or taken by an open session, whichever of
\* the many ways the sessions have ended: no place is lost and none is given
\* out twice.
SessionsAreCounted ==
  \A k \in Sockets :
    st.sock[k].open =>
      st.sock[k].allowed + Cardinality(SessionsOf(st, k)) = SessionLimit

\* Output never lies in a buffer that the scheduler does not look at: whoever
\* writes to a session, its own handler, a repeat timer, the kernel's answer
\* to a routing request or its owner, asks for the write event.
OutputIsSent ==
  Alive => \A s \in Slots : Open(s) /\ st.ses[s].out # None => st.ses[s].write

\* What a continuous command has started ends with its session: a repeat
\* timer or a routing request that can still call back belongs to an open
\* session that will stop it.  (A timer whose stop handler a repeated 'route'
\* has taken is the exception.)
ContinuousHasOwner ==
  Alive =>
    /\ \A s \in st.repeat : Open(s) /\ st.ses[s].stop = "repeat"
    /\ \A s \in st.routes : Open(s) /\ st.ses[s].stop = "route"

\* No server session can stay for ever: its timeout runs unless the telnet
\* user has switched it off.
OpenHasTimeout ==
  Alive => \A s \in Slots :
    Open(s) /\ session_timeout(st.ses[s].sock) =>
      st.ses[s].timer \/ (KindOf(st.ses[s].sock) = "telnet" /\ ~ st.ses[s].timeout)

\* A request is answered as soon as its header is complete, and its session
\* then ends with that answer, unless it has begun to wait for the content
\* of a POST.
RequestIsAnswered ==
  Alive => \A s \in Slots :
    Open(s) /\ KindOf(st.ses[s].sock) = "http" /\ "blank" \in Tokens(st.ses[s].in) =>
      \/ st.ses[s].cut
      \/ st.ses[s].state = "send_and_quit" /\ st.ses[s].out # None

\* What serves a path: the site itself, a directory above it, or the
\* directory it names without the slash.
Serves(p, uri) ==
  p = uri \/ p = Append(uri, 1) \/ (directory(p) /\ IsPrefix(p, uri))

\* A site is hidden from a path by one ordered between the two.
Hides(q, p, uri) ==
  \/ IsBelow(p, q) /\ IsBelow(q, uri)
  \/ IsBelow(uri, q) /\ IsBelow(q, p)

\* The lookup never finds a site that does not serve the path, and it finds
\* none only if every site that does is hidden by another one.
SiteIsServed ==
  \A uri \in Paths :
    LET found == get_site_handler(st.sites, uri)
    IN /\ \A p \in found : Serves(p, uri)
       /\ found = {} => \A p \in st.sites :
                          Serves(p, uri) => \E q \in st.sites : Hides(q, p, uri)
=============================================================================
