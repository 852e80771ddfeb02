------------------------------- MODULE OonfHttp -------------------------------
(* The http application of subsystems/oonf_http.c with the telnet bridge of   *)
(* plugins/httptelnet.  The input of a session is a sequence of tokens: the   *)
(* name of a request (request line and header fields), "blank" for the empty  *)
(* line behind them and "body" for the content of a POST.  A path is a        *)
(* sequence of numbers ordered like their characters; 1 is '/'.               *)
EXTENDS OonfTelnet

CONSTANTS Request,       \* the requests a peer can send, by name
          Paths,         \* the paths sites are registered under
          SiteOf         \* what a site is: acl, auth, and what it calls

ASSUME HttpAssumption == Paths \subseteq Seq(Nat)

\* A request: the kind of its line ends, whether its header can be parsed
\* and has a supported version, its method, path and parameters, the content
\* a POST announces, and its authorization.
Req(lf, valid, method, uri, cmd, content, auth) ==
  [lf |-> lf, valid |-> valid, method |-> method, uri |-> uri, cmd |-> cmd,
   content |-> content, auth |-> auth]

------------------------------------------------------------------------------
(* Sites *)

IsBelow(p, q) ==
  \/ IsStrictPrefix(p, q)
  \/ \E i \in 1..Len(p) : /\ i <= Len(q) /\ p[i] < q[i]
                          /\ \A j \in 1..(i - 1) : p[j] = q[j]

directory(site) == site[Len(site)] = 1

\* The neighbours of a path among the registered sites.
avl_find_le(sites, uri) ==
  {p \in sites : IsBelow(p, uri) /\ ~ \E q \in sites : IsBelow(p, q) /\ IsBelow(q, uri)}
avl_find_ge(sites, uri) ==
  {p \in sites : IsBelow(uri, p) /\ ~ \E q \in sites : IsBelow(uri, q) /\ IsBelow(q, p)}

\* Mutant: a site without the test that its whole path begins the uri.
AnyDirectoryBelow(sites, uri) ==
  IF uri \in sites THEN {uri}
  ELSE LET below == {p \in avl_find_le(sites, uri) : directory(p)}
       IN IF below # {} THEN below
          ELSE {p \in avl_find_ge(sites, uri) : p = Append(uri, 1)}

\* The exact site, else the next lower one if it is a directory above the
\* uri, else the uri with the slash the user left out.
get_site_handler(sites, uri) ==
  IF uri \in sites THEN {uri}
  ELSE LET below == {p \in avl_find_le(sites, uri) : directory(p) /\ IsPrefix(p, uri)}
       IN IF below # {} THEN below
          ELSE {p \in avl_find_ge(sites, uri) : p = Append(uri, 1)}

oonf_http_add(st, p) == [st EXCEPT !.sites = @ \union {p}]
oonf_http_remove(st, p) == [st EXCEPT !.sites = @ \ {p}]

------------------------------------------------------------------------------
(* Requests *)

auth_okay(site, req) == SiteOf[site].auth => req.auth

NoCode == 0   \* the program does not live to answer

\* The bridge's site: the result code of the command it runs.
cb_generate_site(st, req) ==
  IF req.cmd = None THEN 404
  ELSE LET r == oonf_telnet_execute(st, req.cmd)
       IN CASE r = "active" -> 200
            [] r = "unknown" -> 404
            [] r = "broken" -> NoCode
            [] OTHER -> 400

create_http_response(st, s, code) ==
  [st EXCEPT !.ses[s] = [@ EXCEPT !.out = code, !.state = "send_and_quit"]]

create_error(st, s, code, kind) ==
  IF kind = "http" THEN [st EXCEPT !.ses[s].out = code] ELSE Put(st, s)

\* The answer to a request whose input is complete.
ResponseCode(st, s, req) ==
  LET found == get_site_handler(st.sites, req.uri)
      site == CHOOSE p \in found : TRUE
  IN IF ~ req.valid THEN 400
     ELSE IF req.method = "POST" /\ req.content = None THEN 400
     ELSE IF req.method \notin {"GET", "POST"} THEN 501
     ELSE IF found = {} THEN 404
     ELSE IF SiteOf[site].fixed THEN 200
     ELSE IF ~ netaddr_acl_check_accept(SiteOf[site].acl, st.ses[s].peer) THEN 403
     ELSE IF ~ auth_okay(site, req) THEN 401
     ELSE cb_generate_site(st, req)

Tokens(in) == {in[i] : i \in DOMAIN in}

\* Mutant: an empty line that ends with a line feed only is not seen.
OnlyCrlfEndsHeader(in) == "blank" \in Tokens(in) /\ ~ Request[in[1]].lf

\* The header is complete when an empty line has arrived, with either kind of
\* line end.
HeaderEnds(in) == "blank" \in Tokens(in)

\* Parsing the header puts zeros into the buffer, behind which the next call
\* does not look: a request that then has to wait for its content is not
\* found again.  The content is thought complete when the whole input is at
\* least as long as it.
cb_http_receive_data(st, s) ==
  LET x == st.ses[s]
      req == Request[x.in[1]]
      waits == /\ req.valid /\ req.method = "POST"
               /\ req.content = "long" /\ "body" \notin Tokens(x.in)
      code == ResponseCode(st, s, req)
  IN IF x.cut \/ ~ HeaderEnds(x.in) THEN st
     ELSE IF waits THEN [st EXCEPT !.ses[s].cut = TRUE]
     ELSE IF code = NoCode THEN [st EXCEPT !.broken = TRUE]
     ELSE create_http_response(st, s, code)
=============================================================================
