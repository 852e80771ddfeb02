----------------------------- MODULE MCOonfStream -----------------------------
(* Telnet servers, http servers or the outgoing socket with their sessions,   *)
(* one kind in every behaviour: sessions of different kinds share nothing     *)
(* but the sites, which are changed in behaviours of their own.               *)
EXTENDS OonfStreamSocket

VARIABLE part

MCBindings == {[v4 |-> 1, v6 |-> 0], [v4 |-> 2, v6 |-> 0], [v4 |-> 0, v6 |-> 1]}

MCCommandOf ==
  [echo |-> <<Simple("echo")>>, quit |-> <<Simple("quit")>>,
   timeout |-> <<Simple("timeout")>>, log |-> <<Simple("log")>>,
   route |-> <<Simple("route")>>, more |-> <<Simple("unknown")>>,
   chain |-> <<Repeated("echo"), Simple("route")>>,
   again |-> <<Repeated("echo")>>, stack |-> <<Repeated("route")>>]

RemoteAclEntries == <<Signed("+", {"near"}), Signed("-", {"near", "far"}),
                      Keyword("default_reject")>>
MCRemoteAcl == netaddr_acl_from_strarray(RemoteAclEntries)

Root == <<1>>
Dir == <<1, 2, 1>>
Page == <<1, 2>>
Deep == <<1, 2, 1, 3>>
Other == <<1, 3, 1>>
Beside == <<1, 2, 0>>
MCPaths == {Root, Dir, Page, Deep, Other, Beside}

OpenSite == [fixed |-> TRUE, acl |-> netaddr_acl_add, auth |-> FALSE]
BridgeSite == [fixed |-> FALSE, auth |-> TRUE,
               acl |-> netaddr_acl_from_strarray(<<Keyword("first_reject"),
                         Signed("-", {"far"}), Keyword("default_accept")>>)]
MCSiteOf == [p \in MCPaths |-> IF p = Page THEN BridgeSite ELSE OpenSite]

MCRequest ==
  [get |-> Req(FALSE, TRUE, "GET", Page, "echo", None, TRUE),
   getLf |-> Req(TRUE, TRUE, "GET", Dir, None, None, FALSE),
   post |-> Req(FALSE, TRUE, "POST", Page, "echo", "long", TRUE),
   bad |-> Req(FALSE, FALSE, "GET", Page, None, None, FALSE)]

Line(w) == <<w, "eol">>
MCChunks ==
  [telnet |-> {Line(w) : w \in DOMAIN MCCommandOf}
               \union {<<"again">>, <<"more", "more">>, <<"eol">>, <<"echo", "eol", "chain", "eol">>},
   http |-> {<<r, "blank">> : r \in DOMAIN MCRequest}
             \union {<<"getLf">>, <<"post">>, <<"blank">>, <<"body">>, <<"post", "blank", "body">>},
   user |-> {<<"again", "eol">>}]

MCAcl == [telnet |-> None, http |-> None,
          user |-> None]

TwoSlots == {1, 2}

Init ==
  /\ StreamInit /\ part \in Kinds \union {"sites"}

Registered == {Dir, Page, Deep}

Prepare == /\ part = "http" /\ st.sites # Registered
           /\ st' = [st EXCEPT !.sites = Registered] /\ UNCHANGED changes

Next ==
  /\ UNCHANGED part
  /\ \/ part = "sites" /\ ChangeSites
     \/ Prepare
     \/ /\ part # "sites" /\ (part = "http" => st.sites = Registered)
        /\ StreamNext
        /\ st'.sites = st.sites
        /\ \A k \in Sockets : st'.sock[k].open => KindOf(k) = part

Spec == Init /\ [][Next]_<<streamVars, part>>
=============================================================================
