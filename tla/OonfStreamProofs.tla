-------------------------- MODULE OonfStreamProofs --------------------------
(***************************************************************************)
(* Proofs about the stream sockets with the telnet and http servers, for   *)
(* any number of sessions, any limit, any commands, requests and sites:    *)
(* whatever the peers, the kernel, the timers and the configuration do,    *)
(* places are counted, output is sent, timeouts run, continuous commands   *)
(* end with their session and complete requests are answered.              *)
(*                                                                         *)
(* Every operator of the model takes a program and returns one, so the     *)
(* lemmas speak of programs x (before) and y (after).  A command run for   *)
(* session s is 'Good' and 'Keeps' the rest; a stage of the event handler  *)
(* 'Steps' and hands on what the next stage needs; a socket that goes      *)
(* leaves 'Less'.  The proofs of the theorems stand at the end.            *)
(***************************************************************************)
EXTENDS OonfStreamSocket, ListProofs

-----------------------------------------------------------------------------
(* The invariant.  That places are counted is not inductive by itself: a      *)
(* session that is closed must be on an open socket and must be open itself,  *)
(* which needs the owner of every timer and routing request to be known.      *)

\* The types of a session's fields.
States == {"active", "send_and_quit", "cleanup"}
Outs == {None, "text"} \union Nat
Stops == {None, "repeat", "route", "log"}
Again == STRING \union {None}

SessionType ==
  [sock : Sockets, peer : Peers, state : States, in : Seq(STRING), out : Outs,
   write : BOOLEAN, wait : BOOLEAN, removed : BOOLEAN, timer : BOOLEAN, cut : BOOLEAN,
   echo : BOOLEAN, stop : Stops, timeout : BOOLEAN, again : Again, rc : BOOLEAN]

\* A listening socket is counted below zero when peers come beyond the limit.
SocketType == [open : BOOLEAN, port : Nat, allowed : Int, remove : BOOLEAN]

Program ==
  [sock : [Sockets -> SocketType], ses : [Slots -> SessionType \union {Closed}],
   repeat : SUBSET Slots, lost : SUBSET Slots, routes : SUBSET Slots,
   plugin : BOOLEAN, sites : SUBSET Paths, broken : BOOLEAN]

\* What a continuous command has started belongs to a session that knows it.
Owned(x, s) ==
  /\ s \in x.repeat => x.ses[s].stop = "repeat"
  /\ s \in x.routes => x.ses[s].stop = "route"

\* Only a telnet session runs commands, only an outgoing one waits for its
\* connection.
Fit(a) ==
  /\ KindOf(a.sock) # "telnet" => a.stop = None /\ a.again = None /\ ~ a.rc
  /\ a.wait => KindOf(a.sock) = "user"

\* The places of an open socket are free or taken; a closed one has no session.
Places(x, k) ==
  IF x.sock[k].open THEN x.sock[k].allowed + Cardinality(SessionsOf(x, k)) = SessionLimit
  ELSE SessionsOf(x, k) = {}

\* What is true even of a program that has gone wrong.
Sound(x) ==
  /\ x \in Program
  /\ \A s \in Slots : IF x.ses[s] = Closed THEN s \notin x.repeat /\ s \notin x.routes
                      ELSE Owned(x, s) /\ Fit(x.ses[s])
  /\ \A k \in Sockets : Places(x, k)

\* The timeout runs, unless a telnet user has switched it off.
Timed(a) ==
  session_timeout(a.sock) => a.timer \/ (KindOf(a.sock) = "telnet" /\ ~ a.timeout)

\* A complete request has its answer, unless its content is missing.
Answered(a) ==
  KindOf(a.sock) = "http" /\ "blank" \in Tokens(a.in) =>
    a.cut \/ (a.state = "send_and_quit" /\ a.out # None)

\* No session waits in vain.
LiveSession(a) == (a.out # None => a.write) /\ Timed(a) /\ Answered(a)

Live(x) == \A s \in Slots : x.ses[s] # Closed => LiveSession(x.ses[s])

\* The inductive invariant: the program is sound, and unless it is broken no
\* session waits in vain.
Right(x) == Sound(x) /\ (x.broken \/ Live(x))

StreamInv == Right(st)

-----------------------------------------------------------------------------
(* Continuous commands *)

\* A session that can run commands.
Good(x, s) == x \in Program /\ x.ses[s] \in SessionType /\ Owned(x, s)

\* What commands leave alone in the session they run in.
Like(a, b) ==
  /\ b.sock = a.sock /\ b.state = a.state /\ b.wait = a.wait /\ b.removed = a.removed
  /\ b.timer = a.timer /\ b.cut = a.cut
  /\ a.write => b.write
  /\ a.out # None => b.out # None
  /\ b.timeout => a.timeout

\* ... and in the program.
Keeps(x, y, s) ==
  /\ y.sock = x.sock /\ y.sites = x.sites
  /\ x.broken => y.broken
  /\ \A r \in Slots \ {s} :
       /\ y.ses[r] = x.ses[r]
       /\ r \in y.repeat <=> r \in x.repeat
       /\ r \in y.routes <=> r \in x.routes
  /\ Like(x.ses[s], y.ses[s])

\* Doing nothing keeps everything.
LEMMA KeepsSelf ==
  ASSUME NEW x, NEW s PROVE Keeps(x, x, s)
BY DEF Keeps, Like

\* Two commands after one another keep what each keeps.
LEMMA KeepsOn ==
  ASSUME NEW x, NEW y, NEW z, NEW s, Keeps(x, y, s), Keeps(y, z, s)
  PROVE  Keeps(x, z, s)
BY DEF Keeps, Like

\* No handler, and no output.
LEMMA Nones == None \notin {"text", "repeat", "route", "log"}
BY TelnetAssumption

\* What the fields of a session may be set to.
LEMMA Values ==
  /\ None \in Outs /\ "text" \in Outs /\ None \in Again
  /\ None \in Stops /\ "repeat" \in Stops /\ "route" \in Stops /\ "log" \in Stops
BY DEF Outs, Stops, Again

\* Writing text to a session.
LEMMA PutGood ==
  ASSUME NEW s \in Slots, NEW x, Good(x, s), NEW y, y = Put(x, s)
  PROVE  Good(y, s) /\ Keeps(x, y, s) /\ y.ses[s].out # None /\ y.ses[s].stop = x.ses[s].stop
BY Nones DEF Put, Good, Keeps, Like, Program, SessionType, Outs, Owned

\* Asking for the write event of a session.
LEMMA FlushGood ==
  ASSUME NEW s \in Slots, NEW x, Good(x, s), NEW y, y = oonf_stream_flush(x, s)
  PROVE  Good(y, s) /\ Keeps(x, y, s) /\ y.ses[s].write
BY DEF oonf_stream_flush, Good, Keeps, Like, Program, SessionType, Owned


\* The stop handler of a repeat timer.
LEMMA RepeatStopped ==
  ASSUME NEW s \in Slots, NEW x, Good(x, s),
         s \notin x.routes, NEW y,
         y = cb_telnet_repeat_stophandler([x EXCEPT !.ses[s].stop = None], s)
  PROVE  /\ Good(y, s) /\ Keeps(x, y, s)
         /\ y.ses[s].stop = None
         /\ y.ses[s].again \in {None, x.ses[s].again}
<1>1. y.ses[s] \in SessionType
  BY Values DEF cb_telnet_repeat_stophandler, Good, Program, SessionType
<1>2. y \in Program
  BY Values, <1>1 DEF cb_telnet_repeat_stophandler, Good, Program
<1>3. Owned(y, s)
  BY Nones DEF cb_telnet_repeat_stophandler, Good, Program, SessionType, Owned
<1>4. Keeps(x, y, s)
  BY Nones DEF cb_telnet_repeat_stophandler, Good, Keeps, Like, Program, SessionType
<1>5. y.ses[s].stop = None
  BY Nones DEF cb_telnet_repeat_stophandler, Good, Program, SessionType
<1>6. y.ses[s].again \in {None, x.ses[s].again}
  BY Nones DEF cb_telnet_repeat_stophandler, Good, Program, SessionType
<1> QED BY <1>1, <1>2, <1>3, <1>4, <1>5, <1>6 DEF Good

\* The stop handler of a routing request that has already been answered.
LEMMA RouteGone ==
  ASSUME NEW s \in Slots, NEW x, Good(x, s),
         s \notin x.repeat, s \notin x.routes, NEW y,
         y = [x EXCEPT !.ses[s].stop = None]
  PROVE  /\ Good(y, s) /\ Keeps(x, y, s)
         /\ y.ses[s].stop = None
         /\ y.ses[s].again \in {None, x.ses[s].again}
<1>1. y.ses[s] \in SessionType
  BY Values DEF Good, Program, SessionType
<1>2. y \in Program
  BY Values, <1>1 DEF Good, Program
<1>3. Owned(y, s)
  BY Nones DEF Good, Program, SessionType, Owned
<1>4. Keeps(x, y, s)
  BY Nones DEF Good, Keeps, Like, Program, SessionType
<1>5. y.ses[s].stop = None
  BY Nones DEF Good, Program, SessionType
<1>6. y.ses[s].again \in {None, x.ses[s].again}
  BY Nones DEF Good, Program, SessionType
<1> QED BY <1>1, <1>2, <1>3, <1>4, <1>5, <1>6 DEF Good

\* The stop handler of a routing request.
LEMMA RouteStopped ==
  ASSUME NEW s \in Slots, NEW x, Good(x, s),
         s \notin x.repeat, NEW y,
         y = cb_route_finished([[x EXCEPT !.ses[s].stop = None] EXCEPT !.routes = x.routes \ {s}], s)
  PROVE  /\ Good(y, s) /\ Keeps(x, y, s)
         /\ y.ses[s].stop = None
         /\ y.ses[s].again \in {None, x.ses[s].again}
<1>1. y.ses[s] \in SessionType
  BY Values DEF cb_route_finished, Good, Program, SessionType
<1>2. y \in Program
  BY Values, <1>1 DEF cb_route_finished, Good, Program
<1>3. Owned(y, s)
  BY Nones DEF cb_route_finished, Good, Program, SessionType, Owned
<1>4. Keeps(x, y, s)
  BY Nones DEF cb_route_finished, Good, Keeps, Like, Program, SessionType
<1>5. y.ses[s].stop = None
  BY Nones DEF cb_route_finished, Good, Program, SessionType
<1>6. y.ses[s].again \in {None, x.ses[s].again}
  BY Nones DEF cb_route_finished, Good, Program, SessionType
<1> QED BY <1>1, <1>2, <1>3, <1>4, <1>5, <1>6 DEF Good

\* The stop handler of a log.
LEMMA LogStopped ==
  ASSUME NEW s \in Slots, NEW x, Good(x, s),
         s \notin x.repeat, s \notin x.routes, NEW y,
         y = stop_logging([x EXCEPT !.ses[s].stop = None], s)
  PROVE  /\ Good(y, s) /\ Keeps(x, y, s)
         /\ y.ses[s].stop = None
         /\ y.ses[s].again \in {None, x.ses[s].again}
<1>1. y.ses[s] \in SessionType
  BY Values DEF stop_logging, Good, Program, SessionType
<1>2. y \in Program
  BY Values, <1>1 DEF stop_logging, Good, Program
<1>3. Owned(y, s)
  BY Nones DEF stop_logging, Good, Program, SessionType, Owned
<1>4. Keeps(x, y, s)
  BY Nones DEF stop_logging, Good, Keeps, Like, Program, SessionType
<1>5. y.ses[s].stop = None
  BY Nones DEF stop_logging, Good, Program, SessionType
<1>6. y.ses[s].again \in {None, x.ses[s].again}
  BY Nones DEF stop_logging, Good, Program, SessionType
<1> QED BY <1>1, <1>2, <1>3, <1>4, <1>5, <1>6 DEF Good

\* The prompt is back.
LEMMA Prompted ==
  ASSUME NEW s \in Slots, NEW x, Good(x, s), NEW y,
         y = [x EXCEPT !.ses[s] = [x.ses[s] EXCEPT !.echo = TRUE, !.out = "text", !.write = TRUE]]
  PROVE  /\ Good(y, s) /\ Keeps(x, y, s)
         /\ y.ses[s].write
         /\ y.ses[s].stop = x.ses[s].stop /\ y.ses[s].again = x.ses[s].again
<1>1. y.ses[s] \in SessionType
  BY Values DEF Good, Program, SessionType
<1>2. y \in Program
  BY Values, <1>1 DEF Good, Program
<1>3. Owned(y, s)
  BY Nones DEF Good, Program, SessionType, Owned
<1>4. Keeps(x, y, s)
  BY Nones DEF Good, Keeps, Like, Program, SessionType
<1>5. y.ses[s].write
  BY Nones DEF Good, Program, SessionType
<1>6. y.ses[s].stop = x.ses[s].stop /\ y.ses[s].again = x.ses[s].again
  BY Nones DEF Good, Program, SessionType
<1> QED BY <1>1, <1>2, <1>3, <1>4, <1>5, <1>6 DEF Good

\* call_stop_handler: whatever runs for the session is over, and its handler is
\* gone.
LEMMA CallStopGood ==
  ASSUME NEW s \in Slots, NEW x, Good(x, s), NEW y, y = call_stop_handler(x, s)
  PROVE  /\ Good(y, s) /\ Keeps(x, y, s)
         /\ y.ses[s].stop = None
         /\ y.ses[s].again \in {None, x.ses[s].again}
<1>1. x.ses[s].stop \in Stops
  BY DEF Good, SessionType
<1>2. CASE x.ses[s].stop = None
  <2>1. y = x
    BY <1>2, Nones DEF call_stop_handler
  <2> QED BY <1>2, <2>1, KeepsSelf
<1>3. CASE x.ses[s].stop = "repeat"
  <2>1. y = cb_telnet_repeat_stophandler([x EXCEPT !.ses[s].stop = None], s)
    BY <1>3 DEF call_stop_handler
  <2>2. s \notin x.routes
    BY <1>3 DEF Good, Owned
  <2> QED BY <2>1, <2>2, RepeatStopped
<1>4. CASE x.ses[s].stop = "route"
  <2>1. y = os_routing_interrupt([x EXCEPT !.ses[s].stop = None], s)
    BY <1>4 DEF call_stop_handler
  <2>2. s \notin x.repeat
    BY <1>4 DEF Good, Owned
  <2>3. CASE s \notin x.routes
    <3>1. y = [x EXCEPT !.ses[s].stop = None]
      BY <2>1, <2>3 DEF os_routing_interrupt, Good, Program
    <3> QED BY <3>1, <2>2, <2>3, RouteGone
  <2>4. CASE s \in x.routes
    <3>1. y = cb_route_finished([[x EXCEPT !.ses[s].stop = None]
                                 EXCEPT !.routes = x.routes \ {s}], s)
      BY <2>1, <2>4 DEF os_routing_interrupt, Good, Program
    <3> QED BY <3>1, <2>2, <2>4, RouteStopped
  <2> QED BY <2>3, <2>4
<1>5. CASE x.ses[s].stop = "log"
  <2>1. y = stop_logging([x EXCEPT !.ses[s].stop = None], s)
    BY <1>5 DEF call_stop_handler
  <2>2. s \notin x.repeat /\ s \notin x.routes
    BY <1>5 DEF Good, Owned
  <2> QED BY <2>1, <2>2, LogStopped
<1> QED BY <1>1, <1>2, <1>3, <1>4, <1>5 DEF Stops

\* oonf_telnet_stop: the same, and the prompt is on its way to the user.
LEMMA TelnetStopGood ==
  ASSUME NEW s \in Slots, NEW x, Good(x, s), NEW y, y = oonf_telnet_stop(x, s)
  PROVE  /\ Good(y, s) /\ Keeps(x, y, s)
         /\ y.ses[s].stop = None
         /\ y.ses[s].again \in {None, x.ses[s].again}
         /\ y.ses[s].write
<1> DEFINE z == call_stop_handler(x, s)
<1>1. /\ Good(z, s) /\ Keeps(x, z, s)
      /\ z.ses[s].stop = None /\ z.ses[s].again \in {None, x.ses[s].again}
  BY CallStopGood
<1>2. y = [z EXCEPT !.ses[s] = [z.ses[s] EXCEPT !.echo = TRUE, !.out = "text", !.write = TRUE]]
  BY DEF oonf_telnet_stop
<1> HIDE DEF z
<1>3. /\ Good(y, s) /\ Keeps(z, y, s) /\ y.ses[s].write
      /\ y.ses[s].stop = z.ses[s].stop /\ y.ses[s].again = z.ses[s].again
  BY <1>1, <1>2, Prompted
<1> QED BY <1>1, <1>3, KeepsOn

-----------------------------------------------------------------------------
(* Commands *)

\* What a command may say.
Results == {"active", "continuous", "unknown", "quit"}

\* The answer of a command is good: what the program looks like behind it.
Answers(x, r, s) ==
  /\ Good(r.st, s) /\ Keeps(x, r.st, s) /\ r.result \in Results

\* The plugin knows the session.
LEMMA Known ==
  ASSUME NEW s \in Slots, NEW x, Good(x, s), NEW y,
         y = [x EXCEPT !.ses[s].rc = TRUE]
  PROVE  /\ Good(y, s) /\ Keeps(x, y, s)
         /\ y.ses[s].stop = x.ses[s].stop
<1>1. y.ses[s] \in SessionType
  BY Values DEF Good, Program, SessionType
<1>2. y \in Program
  BY Values, <1>1 DEF Good, Program
<1>3. Owned(y, s)
  BY Nones DEF Good, Program, SessionType, Owned
<1>4. Keeps(x, y, s)
  BY Nones DEF Good, Keeps, Like, Program, SessionType
<1>5. y.ses[s].stop = x.ses[s].stop
  BY Nones DEF Good, Program, SessionType
<1> QED BY <1>1, <1>2, <1>3, <1>4, <1>5 DEF Good

\* Netlink takes a routing request.
LEMMA RouteTaken ==
  ASSUME NEW s \in Slots, NEW x, Good(x, s), NEW lost, lost \in SUBSET Slots, NEW y,
         y = [x EXCEPT !.routes = x.routes \union {s}, !.ses[s].stop = "route",
                        !.lost = lost, !.repeat = x.repeat \ {s}]
  PROVE  Good(y, s) /\ Keeps(x, y, s)
<1>1. y.ses[s] \in SessionType
  BY Values DEF Good, Program, SessionType
<1>2. y \in Program
  BY Values, <1>1 DEF Good, Program
<1>3. Owned(y, s)
  BY Nones DEF Good, Program, SessionType, Owned
<1>4. Keeps(x, y, s)
  BY Nones DEF Good, Keeps, Like, Program, SessionType
<1> QED BY <1>1, <1>2, <1>3, <1>4 DEF Good

\* A log begins where nothing runs.
LEMMA LogTaken ==
  ASSUME NEW s \in Slots, NEW x, Good(x, s), x.ses[s].stop = None, NEW y,
         y = [x EXCEPT !.ses[s].stop = "log"]
  PROVE  Good(y, s) /\ Keeps(x, y, s)
<1>1. y.ses[s] \in SessionType
  BY Values DEF Good, Program, SessionType
<1>2. y \in Program
  BY Values, <1>1 DEF Good, Program
<1>3. Owned(y, s)
  BY Nones DEF Good, Program, SessionType, Owned
<1>4. Keeps(x, y, s)
  BY Nones DEF Good, Keeps, Like, Program, SessionType
<1> QED BY <1>1, <1>2, <1>3, <1>4 DEF Good

\* A repetition begins where nothing runs.
LEMMA RepeatTaken ==
  ASSUME NEW s \in Slots, NEW x, Good(x, s), x.ses[s].stop = None,
         NEW c, c \in Again, NEW y,
         y = [x EXCEPT !.repeat = x.repeat \union {s},
                        !.ses[s] = [x.ses[s] EXCEPT !.stop = "repeat", !.again = c]]
  PROVE  Good(y, s) /\ Keeps(x, y, s)
<1>1. y.ses[s] \in SessionType
  BY Values DEF Good, Program, SessionType
<1>2. y \in Program
  BY Values, <1>1 DEF Good, Program
<1>3. Owned(y, s)
  BY Nones DEF Good, Program, SessionType, Owned
<1>4. Keeps(x, y, s)
  BY Nones DEF Good, Keeps, Like, Program, SessionType
<1> QED BY <1>1, <1>2, <1>3, <1>4 DEF Good

\* A line leaves the input.
LEMMA LineTaken ==
  ASSUME NEW s \in Slots, NEW x, Good(x, s), NEW rest, rest \in Seq(STRING), NEW y,
         y = [x EXCEPT !.ses[s].in = rest]
  PROVE  Good(y, s) /\ Keeps(x, y, s)
<1>1. y.ses[s] \in SessionType
  BY Values DEF Good, Program, SessionType
<1>2. y \in Program
  BY Values, <1>1 DEF Good, Program
<1>3. Owned(y, s)
  BY Nones DEF Good, Program, SessionType, Owned
<1>4. Keeps(x, y, s)
  BY Nones DEF Good, Keeps, Like, Program, SessionType
<1> QED BY <1>1, <1>2, <1>3, <1>4 DEF Good

\* No prompt while a command goes on.
LEMMA Silenced ==
  ASSUME NEW s \in Slots, NEW x, Good(x, s), NEW y,
         y = [x EXCEPT !.ses[s].echo = FALSE]
  PROVE  Good(y, s) /\ Keeps(x, y, s)
<1>1. y.ses[s] \in SessionType
  BY Values DEF Good, Program, SessionType
<1>2. y \in Program
  BY Values, <1>1 DEF Good, Program
<1>3. Owned(y, s)
  BY Nones DEF Good, Program, SessionType, Owned
<1>4. Keeps(x, y, s)
  BY Nones DEF Good, Keeps, Like, Program, SessionType
<1> QED BY <1>1, <1>2, <1>3, <1>4 DEF Good

\* cb_handle_route: a request taken by netlink belongs to its session.
LEMMA RouteGood ==
  ASSUME NEW s \in Slots, NEW x, Good(x, s), NEW refused, NEW r,
         r = cb_handle_route(x, s, refused)
  PROVE  Answers(x, r, s)
<1> DEFINE z == [x EXCEPT !.ses[s].rc = TRUE]
<1>1. Good(z, s) /\ Keeps(x, z, s)
  BY Known
<1>2. CASE refused
  <2>1. r.st = Put(z, s) /\ r.result = "active"
    BY <1>2 DEF cb_handle_route, Answer
  <2> HIDE DEF z
  <2>2. Good(r.st, s) /\ Keeps(z, r.st, s)
    BY <1>1, <2>1, PutGood
  <2> QED BY <1>1, <2>1, <2>2, KeepsOn DEF Answers, Results
<1>3. CASE ~ refused
  <2> DEFINE lost == IF s \in x.repeat THEN z.lost \union {s} ELSE z.lost
  <2>3. lost \in SUBSET Slots
    BY <1>1 DEF Good, Program
  <2>1. /\ r.result = "continuous"
        /\ r.st = [z EXCEPT !.routes = z.routes \union {s}, !.ses[s].stop = "route",
                            !.lost = lost, !.repeat = z.repeat \ {s}]
    BY <1>3 DEF cb_handle_route, Answer
  <2> HIDE DEF z, lost
  <2>2. Good(r.st, s) /\ Keeps(z, r.st, s)
    BY <1>1, <2>1, <2>3, RouteTaken
  <2> QED BY <1>1, <2>1, <2>2, KeepsOn DEF Answers, Results
<1> QED BY <1>2, <1>3

\* cb_handle_log.
LEMMA LogGood ==
  ASSUME NEW s \in Slots, NEW x, Good(x, s), NEW r, r = cb_handle_log(x, s)
  PROVE  Answers(x, r, s)
<1> DEFINE z == [x EXCEPT !.ses[s].rc = TRUE]
<1>1. Good(z, s) /\ Keeps(x, z, s) /\ z.ses[s].stop = x.ses[s].stop
  BY Known
<1>2. CASE x.ses[s].stop # None
  <2>1. r.st = Put(z, s) /\ r.result = "active"
    BY <1>2 DEF cb_handle_log, Answer
  <2> HIDE DEF z
  <2>2. Good(r.st, s) /\ Keeps(z, r.st, s)
    BY <1>1, <2>1, PutGood
  <2> QED BY <1>1, <2>1, <2>2, KeepsOn DEF Answers, Results
<1>3. CASE x.ses[s].stop = None
  <2>1. r.result = "continuous" /\ r.st = [z EXCEPT !.ses[s].stop = "log"]
    BY <1>3 DEF cb_handle_log, Answer
  <2> HIDE DEF z
  <2>2. Good(r.st, s) /\ Keeps(z, r.st, s)
    BY <1>1, <1>3, <2>1, LogTaken
  <2> QED BY <1>1, <2>1, <2>2, KeepsOn DEF Answers, Results
<1> QED BY <1>2, <1>3

\* All commands but repeat.
LEMMA SimpleGood ==
  ASSUME NEW s \in Slots, NEW x, Good(x, s), NEW c, NEW refused, NEW r,
         r = SimpleCommand(x, s, c, refused)
  PROVE  Answers(x, r, s)
<1>1. Answers(x, Answer(x, "unknown"), s) /\ Answers(x, Answer(x, "quit"), s)
  BY KeepsSelf DEF Answers, Answer, Results
<1>2. Answers(x, Answer([x EXCEPT !.ses[s].timeout = FALSE], "active"), s)
  BY DEF Answers, Answer, Results, Good, Keeps, Like, Program, SessionType, Owned
<1>3. Answers(x, Answer(Put(x, s), "active"), s)
  BY PutGood DEF Answers, Answer, Results
<1>4. Answers(x, cb_handle_route(x, s, refused), s) /\ Answers(x, cb_handle_log(x, s), s)
  BY RouteGood, LogGood
<1> QED BY <1>1, <1>2, <1>3, <1>4 DEF SimpleCommand

\* A repeated command, which may take the stop handler or end the repetition.
LEMMA RunAgainGood ==
  ASSUME NEW s \in Slots, NEW x, Good(x, s), NEW refused, NEW y, y = RunAgain(x, s, refused)
  PROVE  Good(y, s) /\ Keeps(x, y, s)
<1> DEFINE r == SimpleCommand(x, s, x.ses[s].again, refused)
<1>1. Good(r.st, s) /\ Keeps(x, r.st, s)
  BY SimpleGood DEF Answers
<1>2. y = r.st \/ y = call_stop_handler(r.st, s)
  BY DEF RunAgain
<1> HIDE DEF r
<1> QED BY <1>1, <1>2, CallStopGood, KeepsOn

\* cb_telnet_repeat.
LEMMA RepeatGood ==
  ASSUME NEW s \in Slots, NEW x, Good(x, s), NEW c \in Again, NEW refused, NEW r,
         r = cb_telnet_repeat(x, s, c, refused)
  PROVE  Answers(x, r, s)
<1>1. CASE x.ses[s].stop # None
  <2>1. r.st = Put(x, s) /\ r.result = "active"
    BY <1>1 DEF cb_telnet_repeat, Answer
  <2> QED BY <2>1, PutGood DEF Answers, Results
<1>2. CASE x.ses[s].stop = None
  <2> DEFINE z == [x EXCEPT !.repeat = x.repeat \union {s},
                            !.ses[s] = [x.ses[s] EXCEPT !.stop = "repeat", !.again = c]]
  <2>1. Good(z, s) /\ Keeps(x, z, s)
    BY <1>2, RepeatTaken
  <2>2. r.st = RunAgain(z, s, refused) /\ r.result = "continuous"
    BY <1>2 DEF cb_telnet_repeat, Answer
  <2> HIDE DEF z
  <2>3. Good(r.st, s) /\ Keeps(z, r.st, s)
    BY <2>1, <2>2, RunAgainGood
  <2> QED BY <2>1, <2>2, <2>3, KeepsOn DEF Answers, Results
<1> QED BY <1>1, <1>2

\* cb_telnet_repeat_timer: the program has followed a null pointer, or the
\* output of the repeated command is sent.
LEMMA RepeatTimerGood ==
  ASSUME NEW s \in Slots, NEW x, Good(x, s), NEW refused, NEW y,
         y = cb_telnet_repeat_timer(x, s, refused)
  PROVE  /\ Good(y, s) /\ Keeps(x, y, s)
         /\ y.broken \/ (y.ses[s].write /\ x.ses[s].again # None)
<1>1. CASE x.ses[s].again = None
  <2>1. y = [x EXCEPT !.broken = TRUE]
    BY <1>1 DEF cb_telnet_repeat_timer
  <2> QED BY <2>1 DEF Good, Keeps, Like, Program, SessionType, Owned
<1>2. CASE x.ses[s].again # None
  <2>1. y = oonf_stream_flush(RunAgain(x, s, refused), s)
    BY <1>2 DEF cb_telnet_repeat_timer
  <2> QED BY <1>2, <2>1, RunAgainGood, FlushGood, KeepsOn
<1> QED BY <1>1, <1>2

\* telnet_handle_command.
LEMMA HandleGood ==
  ASSUME NEW s \in Slots, NEW x, Good(x, s), NEW c, c.again \in Again,
         NEW refused, NEW r, r = telnet_handle_command(x, s, c, refused)
  PROVE  Answers(x, r, s)
BY RepeatGood, SimpleGood DEF telnet_handle_command

-----------------------------------------------------------------------------
(* Input *)

\* What a line or a part of it makes of the program, and whether it has ended
\* the session.
Runs(x, s) == {r \in [st : Program, quit : BOOLEAN] : Good(r.st, s) /\ Keeps(x, r.st, s)}

\* One command of a line, behind the commands before it.
LEMMA RunCommandGood ==
  ASSUME NEW s \in Slots, NEW x, NEW a \in Runs(x, s), NEW refused,
         NEW c, c.again \in Again, NEW r, r = RunCommand(a, s, c, refused)
  PROVE  r \in Runs(x, s)
<1> DEFINE z == call_stop_handler(a.st, s)
           b == telnet_handle_command(z, s, c, refused)
<1>1. Good(a.st, s) /\ Keeps(x, a.st, s) /\ a \in [st : Program, quit : BOOLEAN]
  BY DEF Runs
<1>2. Good(z, s) /\ Keeps(x, z, s)
  BY <1>1, CallStopGood, KeepsOn
<1> HIDE DEF z
<1>3. Answers(z, b, s)
  BY <1>2, HandleGood
<1> HIDE DEF b
<1>4. Good(b.st, s) /\ Keeps(x, b.st, s) /\ b.result \in Results
  BY <1>2, <1>3, KeepsOn DEF Answers
<1>5. ASSUME NEW y, Good(y, s), Keeps(x, y, s)
      PROVE  [a EXCEPT !.st = y] \in Runs(x, s) /\ [a EXCEPT !.st = y, !.quit = TRUE] \in Runs(x, s)
  <2>1. y \in Program
    BY <1>5 DEF Good
  <2> QED BY <1>1, <1>5, <2>1 DEF Runs
<1>6. CASE a.quit
  BY <1>6 DEF RunCommand
<1>7. CASE ~ a.quit /\ b.result = "active"
  <2>1. r = [a EXCEPT !.st = b.st]
    BY <1>7 DEF RunCommand, z, b
  <2> QED BY <2>1, <1>4, <1>5
<1>8. CASE ~ a.quit /\ b.result = "continuous"
  <2>1. r = [a EXCEPT !.st = [b.st EXCEPT !.ses[s].echo = FALSE]]
    BY <1>8 DEF RunCommand, z, b
  <2>2. ASSUME NEW y, y = [b.st EXCEPT !.ses[s].echo = FALSE]
        PROVE  Good(y, s) /\ Keeps(x, y, s)
    BY <1>4, <2>2, Silenced, KeepsOn
  <2> QED BY <2>1, <2>2, <1>5
<1>9. CASE ~ a.quit /\ b.result = "unknown"
  <2>1. r = [a EXCEPT !.st = Put(z, s)]
    BY <1>9 DEF RunCommand, z, b
  <2>2. ASSUME NEW y, y = Put(z, s)
        PROVE  Good(y, s) /\ Keeps(x, y, s)
    BY <1>2, <2>2, PutGood, KeepsOn
  <2> QED BY <2>1, <2>2, <1>5
<1>10. CASE ~ a.quit /\ b.result = "quit"
  <2>1. r = [a EXCEPT !.st = b.st, !.quit = TRUE]
    BY <1>10 DEF RunCommand, z, b
  <2> QED BY <2>1, <1>4, <1>5
<1> QED BY <1>4, <1>6, <1>7, <1>8, <1>9, <1>10 DEF Results

\* A word is known or not: it stands for commands.
LEMMA CommandsTyped ==
  ASSUME NEW w, NEW q, q = CommandsOf(w)
  PROVE  Len(q) \in Nat /\ \A k \in 1..Len(q) : q[k].again \in Again
<1>1. CASE w \in DOMAIN CommandOf
  <2>1. q \in Seq([name : STRING, again : Again])
    BY <1>1, TelnetAssumption DEF CommandsOf, Again
  <2>2. Len(q) \in Nat /\ \A k \in 1..Len(q) : q[k] \in [name : STRING, again : Again]
    BY <2>1, LenProperties
  <2> QED BY <2>2
<1>2. CASE w \notin DOMAIN CommandOf
  <2>1. q = <<[name |-> "unknown", again |-> None]>>
    BY <1>2 DEF CommandsOf, Simple
  <2>2. Len(q) = 1 /\ q[1].again = None
    BY <2>1
  <2> QED BY <2>2 DEF Again
<1> QED BY <1>1, <1>2

\* All commands of a line, one after the other (_cb_telnet_receive_data).
LEMMA RunLineGood ==
  ASSUME NEW s \in Slots, NEW x, Good(x, s), NEW line, NEW refused,
         NEW r, r = RunLine(x, s, line, refused)
  PROVE  r \in Runs(x, s)
<1> DEFINE commands == CommandsOf(line[1])
           n == Len(commands)
           start == [st |-> x, quit |-> FALSE]
           F == [k \in 1..n |-> [a \in Runs(x, s) |-> RunCommand(a, s, commands[k], refused)]]
           R == [k \in 0..n |-> Runs(x, s)]
           Is(f) == f = [k \in 0..n |->
                          IF k = 0 THEN [st |-> x, quit |-> FALSE]
                          ELSE RunCommand(f[k - 1], s, commands[k], refused)]
           ran == CHOOSE f : Is(f)
<1>1. r = IF line = <<>> THEN [st |-> call_stop_handler(x, s), quit |-> FALSE] ELSE ran[n]
  BY DEF RunLine
<1>2. CASE line = <<>>
  <2> DEFINE z == call_stop_handler(x, s)
  <2>1. Good(z, s) /\ Keeps(x, z, s)
    BY CallStopGood
  <2>2. r = [st |-> z, quit |-> FALSE]
    BY <1>1, <1>2
  <2> HIDE DEF z
  <2>3. z \in Program
    BY <2>1 DEF Good
  <2> QED BY <2>1, <2>2, <2>3 DEF Runs
<1>3. CASE line # <<>>
  <2> HIDE DEF ran
  <2>1. r = ran[n]
    BY <1>1, <1>3
  <2>3. n \in Nat /\ \A k \in 1..n : commands[k].again \in Again
    BY CommandsTyped
  <2> HIDE DEF commands
  <2> HIDE DEF n
  <2>4. start \in Runs(x, s)
    <3>1. x \in Program
      BY DEF Good
    <3> QED BY <3>1, KeepsSelf DEF Runs
  <2>5. \A k \in 1..n : \A a \in Runs(x, s) :
          RunCommand(a, s, commands[k], refused) \in Runs(x, s)
    BY <2>3, RunCommandGood
  <2>6. PICK g : IsWalk(g, R, start, n, F)
    <3>1. start \in R[0]
      BY <2>3, <2>4
    <3>2. \A k \in 1..n : F[k] \in [R[k - 1] -> R[k]]
      <4>1. \A k \in 1..n : k - 1 \in 0..n /\ k \in 0..n
        BY <2>3
      <4> QED BY <2>5, <4>1
    <3> HIDE DEF F, R, start
    <3> QED BY <2>3, <3>1, <3>2, WalkThrough
  <2>7. \A k \in 1..n : k - 1 \in 0..n /\ k \in 0..n
    BY <2>3
  <2>8. \A k \in 1..n : g[k] = RunCommand(g[k - 1], s, commands[k], refused)
    BY <2>6, <2>7 DEF IsWalk
  <2>9. Is(g)
    <3>1. \A k \in 0..n : k = 0 \/ k \in 1..n
      BY <2>3
    <3> QED BY <2>6, <2>8, <3>1 DEF IsWalk
  <2>10. Is(ran)
    BY <2>9 DEF ran
  <2>11. /\ ran[0] = start
         /\ \A k \in 1..n : ran[k] = RunCommand(ran[k - 1], s, commands[k], refused)
    <3>1. \A k \in 0..n : ran[k] = IF k = 0 THEN start
                                   ELSE RunCommand(ran[k - 1], s, commands[k], refused)
      BY <2>10
    <3>2. 0 \in 0..n /\ \A k \in 1..n : k # 0
      BY <2>3
    <3> QED BY <2>7, <3>1, <3>2
  <2>12. \A k \in 1..n : ran[k - 1] \in Runs(x, s) => ran[k] \in Runs(x, s)
    BY <2>5, <2>11
  <2>13. ran[0] \in Runs(x, s)
    BY <2>4, <2>11
  <2>14. \A k \in 0..n : ran[k] \in Runs(x, s)
    <3> HIDE DEF Is, F, R, start
    <3> QED BY <2>3, <2>12, <2>13, StaysIn
  <2>15. n \in 0..n
    BY <2>3
  <2> QED BY <2>1, <2>14, <2>15
<1> QED BY <1>2, <1>3

\* The end of a line is a place of the input, or 0.
LEMMA EndOfLineIsIn ==
  ASSUME NEW in \in Seq(STRING), NEW eol, eol = EndOfLine(in)
  PROVE  eol \in 0..Len(in)
<1> DEFINE I == {i \in 1..Len(in) : in[i] = "eol"}
<1>1. eol = IF I # {} THEN Min(I) ELSE 0
  BY DEF EndOfLine, SelectInSeq
<1>2. Len(in) \in Nat
  BY LenProperties
<1>3. CASE I = {}
  <2> HIDE DEF I
  <2> QED BY <1>1, <1>2, <1>3
<1>4. CASE I # {}
  <2>1. I \subseteq Nat
    BY <1>2
  <2>2. \A i \in I : i \in 0..Len(in)
    BY <1>2
  <2> HIDE DEF I
  <2>3. \E m \in I : \A i \in I : m <= i
    BY <1>4, <2>1, LeastElement
  <2>4. eol = CHOOSE m \in I : \A i \in I : m <= i
    BY <1>1, <1>4 DEF Min
  <2>5. eol \in I
    BY <2>3, <2>4
  <2> QED BY <2>2, <2>5
<1> QED BY <1>3, <1>4

\* The same of the turns of the loop over the input.
Turns(x, s) ==
  {r \in [st : Program, quit : BOOLEAN, done : BOOLEAN] : Good(r.st, s) /\ Keeps(x, r.st, s)}

\* One turn of the loop over the input.
LEMMA NextLineGood ==
  ASSUME NEW s \in Slots, NEW x, NEW a \in Turns(x, s), NEW refused,
         NEW r, r = NextLine(a, s, refused)
  PROVE  r \in Turns(x, s)
<1> DEFINE in == a.st.ses[s].in
           eol == EndOfLine(in)
           b == RunLine(a.st, s, SubSeq(in, 1, eol - 1), refused)
           rest == SubSeq(in, eol + 1, Len(in))
<1>1. Good(a.st, s) /\ Keeps(x, a.st, s)
  BY DEF Turns
<1>2. in \in Seq(STRING)
  BY <1>1 DEF Good, SessionType
<1>3. rest \in Seq(STRING)
  <2>1. eol \in 0..Len(in) /\ Len(in) \in Nat
    BY <1>2, EndOfLineIsIn, LenProperties
  <2> HIDE DEF eol, in
  <2>2. \A i \in (eol + 1)..Len(in) : in[i] \in STRING
    BY <1>2, <2>1, ElementOfSeq
  <2> QED BY <1>2, <2>1, <2>2, SubSeqProperties
<1>4. b \in Runs(a.st, s)
  BY <1>1, RunLineGood
<1>5. r = IF a.quit \/ eol = 0 THEN a
          ELSE IF b.quit THEN [st |-> b.st, quit |-> TRUE, done |-> TRUE]
          ELSE [st |-> [b.st EXCEPT !.ses[s].in = rest], done |-> TRUE,
                quit |-> rest # <<>> /\ rest[1] = "chain"]
  BY DEF NextLine
<1> HIDE DEF in, eol, b, rest
<1>6. Good(b.st, s) /\ Keeps(x, b.st, s)
  BY <1>1, <1>4, KeepsOn DEF Runs
<1>7. CASE a.quit \/ eol = 0
  BY <1>5, <1>7
<1>8. CASE ~ (a.quit \/ eol = 0) /\ b.quit
  <2>1. r = [st |-> b.st, quit |-> TRUE, done |-> TRUE]
    BY <1>5, <1>8
  <2> QED BY <1>6, <2>1 DEF Turns, Good
<1>9. CASE ~ (a.quit \/ eol = 0) /\ ~ b.quit
  <2>1. PICK q \in BOOLEAN : q = (rest # <<>> /\ rest[1] = "chain")
    OBVIOUS
  <2>2. PICK y : y = [b.st EXCEPT !.ses[s].in = rest]
    OBVIOUS
  <2>3. Good(y, s) /\ Keeps(x, y, s)
    BY <1>3, <1>6, <2>2, LineTaken, KeepsOn
  <2>4. r = [st |-> y, done |-> TRUE, quit |-> q]
    BY <1>5, <1>9, <2>1, <2>2
  <2> QED BY <2>3, <2>4 DEF Turns, Good
<1> QED BY <1>7, <1>8, <1>9

\* The whole loop, for an input of any length.
LEMMA ReceiveLinesGood ==
  ASSUME NEW s \in Slots, NEW x, Good(x, s), NEW refused, NEW r, r = ReceiveLines(x, s, refused)
  PROVE  r \in Turns(x, s)
<1> DEFINE n == Len(x.ses[s].in)
           start == [st |-> x, quit |-> FALSE, done |-> FALSE]
           F == [k \in 1..n |-> [a \in Turns(x, s) |-> NextLine(a, s, refused)]]
           R == [k \in 0..n |-> Turns(x, s)]
           Is(f) == f = [k \in 0..n |->
                          IF k = 0 THEN [st |-> x, quit |-> FALSE, done |-> FALSE]
                          ELSE NextLine(f[k - 1], s, refused)]
           turn == CHOOSE f : Is(f)
<1>1. r = turn[n]
  BY DEF ReceiveLines
<1>2. n \in Nat
  <2>1. x.ses[s].in \in Seq(STRING)
    BY DEF Good, SessionType
  <2> QED BY <2>1, LenProperties
<1> HIDE DEF turn, n
<1>3. start \in Turns(x, s)
  <2>1. x \in Program
    BY DEF Good
  <2> QED BY <2>1, KeepsSelf DEF Turns
<1>4. \A a \in Turns(x, s) : NextLine(a, s, refused) \in Turns(x, s)
  BY NextLineGood
<1>5. \A k \in 1..n : k - 1 \in 0..n /\ k \in 0..n /\ k # 0
  BY <1>2
<1>6. PICK g : IsWalk(g, R, start, n, F)
  <2>1. start \in R[0]
    BY <1>2, <1>3
  <2>2. \A k \in 1..n : F[k] \in [R[k - 1] -> R[k]]
    BY <1>4, <1>5
  <2> HIDE DEF F, R, start
  <2> QED BY <1>2, <2>1, <2>2, WalkThrough
<1>7. \A k \in 1..n : g[k] = NextLine(g[k - 1], s, refused)
  BY <1>5, <1>6 DEF IsWalk
<1>8. Is(g)
  <2>1. \A k \in 0..n : k = 0 \/ k \in 1..n
    BY <1>2
  <2> QED BY <1>6, <1>7, <2>1 DEF IsWalk
<1>9. Is(turn)
  BY <1>8 DEF turn
<1>10. turn[0] = start /\ \A k \in 1..n : turn[k] = NextLine(turn[k - 1], s, refused)
  <2>1. \A k \in 0..n : turn[k] = IF k = 0 THEN start ELSE NextLine(turn[k - 1], s, refused)
    BY <1>9
  <2>2. 0 \in 0..n
    BY <1>2
  <2> QED BY <1>5, <2>1, <2>2
<1>11. /\ turn[0] \in Turns(x, s)
       /\ \A k \in 1..n : turn[k - 1] \in Turns(x, s) => turn[k] \in Turns(x, s)
  BY <1>3, <1>4, <1>10
<1>12. \A k \in 0..n : turn[k] \in Turns(x, s)
  <2> HIDE DEF Is, F, R, start
  <2> QED BY <1>2, <1>11, StaysIn
<1>13. n \in 0..n
  BY <1>2
<1> QED BY <1>1, <1>12, <1>13

-----------------------------------------------------------------------------
(* Programs that differ in little *)

\* Only session s has changed, and it is still on its socket.
Within(x, y, s) ==
  /\ \A k \in Sockets : y.sock[k].open = x.sock[k].open /\ y.sock[k].allowed = x.sock[k].allowed
  /\ x.broken => y.broken
  /\ \A r \in Slots \ {s} :
       /\ y.ses[r] = x.ses[r]
       /\ r \in y.repeat <=> r \in x.repeat
       /\ r \in y.routes <=> r \in x.routes
  /\ y.ses[s].sock = x.ses[s].sock

\* Sessions have at most been closed.
Less(x, y) ==
  /\ \A r \in Slots : y.ses[r] \in {x.ses[r], Closed}
  /\ x.broken => y.broken

\* An open session has all its fields.
LEMMA OpenIsSession ==
  ASSUME NEW x, x \in Program, NEW s \in Slots
  PROVE  x.ses[s] # Closed <=> x.ses[s] \in SessionType
<1>1. \A a \in SessionType : a # Closed
  BY StreamAssumption DEF SessionType, Closed
<1>2. x.ses[s] \in SessionType \union {Closed}
  BY DEF Program
<1> QED BY <1>1, <1>2

\* The sessions of a socket can be counted.
LEMMA SessionsFinite ==
  ASSUME NEW x, NEW k
  PROVE  /\ IsFiniteSet(SessionsOf(x, k)) /\ Cardinality(SessionsOf(x, k)) \in Nat
         /\ SessionsOf(x, k) \subseteq Slots
<1>1. SessionsOf(x, k) \subseteq Slots
  BY DEF SessionsOf
<1>2. IsFiniteSet(Slots)
  BY StreamAssumption
<1> QED BY <1>1, <1>2, FS_Subset, FS_CardinalityType

\* An open session of a sound program can run commands.
LEMMA SoundIsGood ==
  ASSUME NEW x, Sound(x), NEW s \in Slots, x.ses[s] # Closed
  PROVE  Good(x, s) /\ Fit(x.ses[s])
BY OpenIsSession DEF Sound, Good

\* What happens within a session that stays fit leaves the program sound.
LEMMA WithinSound ==
  ASSUME NEW x, Sound(x), NEW s \in Slots, x.ses[s] # Closed,
         NEW y, Good(y, s), Within(x, y, s), Fit(y.ses[s])
  PROVE  Sound(y) /\ y.ses[s] # Closed
<1>1. y \in Program /\ y.ses[s] # Closed
  BY OpenIsSession DEF Good
<1>2. ASSUME NEW r \in Slots
      PROVE  IF y.ses[r] = Closed THEN r \notin y.repeat /\ r \notin y.routes
             ELSE Owned(y, r) /\ Fit(y.ses[r])
  <2>1. CASE r = s
    BY <1>1, <2>1 DEF Good
  <2>2. CASE r # s
    BY <2>2 DEF Sound, Within, Owned
  <2> QED BY <2>1, <2>2
<1>3. ASSUME NEW k \in Sockets PROVE Places(y, k)
  <2>1. SessionsOf(y, k) = SessionsOf(x, k)
    BY <1>1 DEF SessionsOf, Within
  <2> QED BY <2>1 DEF Places, Within, Sound
<1> QED BY <1>1, <1>2, <1>3 DEF Sound

\* What commands keep includes all that lies outside of their session.
LEMMA KeepsWithin ==
  ASSUME NEW x, NEW y, NEW s, Keeps(x, y, s)
  PROVE  Within(x, y, s)
BY DEF Keeps, Within, Like

\* Doing nothing changes one session only.
LEMMA WithinSelf ==
  ASSUME NEW x, NEW s PROVE Within(x, x, s)
BY DEF Within

\* Two changes of one session are one.
LEMMA WithinOn ==
  ASSUME NEW x, NEW y, NEW z, NEW s, Within(x, y, s), Within(y, z, s)
  PROVE  Within(x, z, s)
BY DEF Within

\* Closing sessions makes none of the others wait.
LEMMA LessIsLive ==
  ASSUME NEW x, NEW y, Live(x), Less(x, y)
  PROVE  Live(y)
BY DEF Live, Less

\* Nothing is closed.
LEMMA LessSelf == ASSUME NEW x PROVE Less(x, x)
BY DEF Less

\* Sessions are closed in turns.
LEMMA LessOn ==
  ASSUME NEW x, NEW y, NEW z, Less(x, y), Less(y, z)
  PROVE  Less(x, z)
BY DEF Less

-----------------------------------------------------------------------------
(* End of sessions *)

\* What is told before a session goes: nothing runs for it any more.
LEMMA TelnetCleanupGood ==
  ASSUME NEW s \in Slots, NEW x, Good(x, s), NEW y, y = cb_telnet_cleanup(x, s)
  PROVE  Good(y, s) /\ Keeps(x, y, s) /\ s \notin y.repeat /\ s \notin y.routes
<1> DEFINE z == oonf_telnet_stop(x, s)
           b == z.broken \/ (x.ses[s].rc /\ ~ x.plugin)
<1>1. Good(z, s) /\ Keeps(x, z, s) /\ z.ses[s].stop = None
  BY TelnetStopGood
<1>2. s \notin z.repeat /\ s \notin z.routes
  BY <1>1, Nones DEF Good, Owned
<1>3. y = [z EXCEPT !.broken = b]
  BY DEF cb_telnet_cleanup
<1>4. PICK c \in BOOLEAN : c = b
  OBVIOUS
<1>5. z.broken => c
  BY <1>4
<1> HIDE DEF z, b
<1>6. y = [z EXCEPT !.broken = c]
  BY <1>3, <1>4
<1>7. Good(y, s) /\ Keeps(z, y, s) /\ y.repeat = z.repeat /\ y.routes = z.routes
  BY <1>1, <1>5, <1>6 DEF Good, Keeps, Like, Program, Owned
<1> QED BY <1>1, <1>2, <1>7, KeepsOn

\* One session is closed, and nothing else.
Closes(x, y, s) ==
  /\ y.ses[s] = Closed
  /\ \A r \in Slots \ {s} : y.ses[r] = x.ses[r]
  /\ \A k \in Sockets : y.sock[k].open = x.sock[k].open
  /\ x.broken => y.broken

\* oonf_stream_close: the session is gone, its place is given back, and nothing
\* that runs for it is left.
LEMMA CloseSound ==
  ASSUME NEW x, Sound(x), NEW s \in Slots, x.ses[s] # Closed,
         NEW y, y = oonf_stream_close(x, s)
  PROVE  Sound(y) /\ Closes(x, y, s)
<1> DEFINE sock == x.ses[s].sock
           told == IF KindOf(sock) = "telnet" THEN cb_telnet_cleanup(x, s) ELSE x
<1>1. Good(x, s) /\ Fit(x.ses[s])
  BY SoundIsGood
<1>2. Good(told, s) /\ Keeps(x, told, s) /\ s \notin told.repeat /\ s \notin told.routes
  <2>1. CASE KindOf(sock) = "telnet"
    BY <1>1, <2>1, TelnetCleanupGood
  <2>2. CASE KindOf(sock) # "telnet"
    <3>1. s \notin x.repeat /\ s \notin x.routes
      BY <1>1, <2>2, Nones DEF Good, Owned, Fit
    <3> QED BY <1>1, <2>2, <3>1, KeepsSelf
  <2> QED BY <2>1, <2>2
<1>3. sock \in Sockets
  BY <1>1 DEF Good, SessionType
<1>4. y = [told EXCEPT !.ses[s] = Closed, !.sock[sock].allowed = told.sock[sock].allowed + 1]
  BY DEF oonf_stream_close
<1> HIDE DEF told
<1>5. told.sock = x.sock /\ told.sock \in [Sockets -> SocketType]
  BY <1>2 DEF Good, Keeps, Program
<1> HIDE DEF sock
<1>6. told.sock[sock].allowed + 1 \in Int
  BY <1>3, <1>5 DEF SocketType
<1>7. y \in Program
  <2>1. PICK a \in Int : a = told.sock[sock].allowed + 1
    BY <1>6
  <2>2. PICK v \in SocketType : v = [told.sock[sock] EXCEPT !.allowed = a]
    BY <1>3, <1>5 DEF SocketType
  <2>3. y = [told EXCEPT !.ses = [told.ses EXCEPT ![s] = Closed],
                         !.sock = [told.sock EXCEPT ![sock] = v]]
    BY <1>2, <1>4, <2>1, <2>2 DEF Good, Program
  <2>4. told \in Program
    BY <1>2 DEF Good
  <2>5. PICK f \in [Sockets -> SocketType] : f = [told.sock EXCEPT ![sock] = v]
    BY <1>3, <1>5, <2>2
  <2>6. PICK g \in [Slots -> SessionType \union {Closed}] : g = [told.ses EXCEPT ![s] = Closed]
    BY <2>4 DEF Program
  <2>7. y = [told EXCEPT !.ses = g, !.sock = f]
    BY <2>3, <2>5, <2>6
  <2> QED BY <2>4, <2>7 DEF Program
<1>8. /\ y.ses[s] = Closed /\ \A r \in Slots \ {s} : y.ses[r] = x.ses[r]
      /\ y.repeat = told.repeat /\ y.routes = told.routes /\ y.broken = told.broken
  BY <1>2, <1>4 DEF Good, Keeps, Program
<1>9. \A k \in Sockets :
        /\ y.sock[k].open = x.sock[k].open
        /\ y.sock[k].allowed = IF k = sock THEN x.sock[k].allowed + 1 ELSE x.sock[k].allowed
  <2>1. y.sock = [x.sock EXCEPT ![sock] = [x.sock[sock] EXCEPT !.allowed = x.sock[sock].allowed + 1]]
    BY <1>2, <1>4, <1>5 DEF Good, Program
  <2> QED BY <1>3, <1>5, <2>1 DEF SocketType
<1>10. ASSUME NEW r \in Slots
       PROVE  IF y.ses[r] = Closed THEN r \notin y.repeat /\ r \notin y.routes
              ELSE Owned(y, r) /\ Fit(y.ses[r])
  <2>1. CASE r = s
    BY <1>2, <1>8, <2>1
  <2>2. CASE r # s
    BY <1>2, <1>8, <2>2 DEF Sound, Keeps, Owned
  <2> QED BY <2>1, <2>2
<1>11. ASSUME NEW k \in Sockets PROVE Places(y, k)
  <2>1. CASE k # sock
    <3>1. SessionsOf(y, k) = SessionsOf(x, k)
      BY <1>8, <2>1 DEF SessionsOf, sock
    <3> QED BY <1>9, <2>1, <3>1 DEF Places, Sound
  <2>2. CASE k = sock
    <3>1. s \in SessionsOf(x, k) /\ SessionsOf(y, k) = SessionsOf(x, k) \ {s}
      BY <1>8, <2>2 DEF SessionsOf, sock
    <3>2. Cardinality(SessionsOf(y, k)) = Cardinality(SessionsOf(x, k)) - 1
      BY <3>1, SessionsFinite, FS_RemoveElement
    <3>3. /\ x.sock[k].open
          /\ x.sock[k].allowed + Cardinality(SessionsOf(x, k)) = SessionLimit
      BY <3>1 DEF Places, Sound
    <3>4. PICK m \in Nat : m = Cardinality(SessionsOf(x, k))
      BY SessionsFinite
    <3>5. PICK a \in Int : a = x.sock[k].allowed
      BY <1>5 DEF SocketType
    <3>6. y.sock[k].allowed = a + 1 /\ Cardinality(SessionsOf(y, k)) = m - 1
      BY <1>9, <2>2, <3>2, <3>4, <3>5
    <3>7. a + 1 + (m - 1) = a + m
      OBVIOUS
    <3> QED BY <1>9, <3>3, <3>4, <3>5, <3>6, <3>7 DEF Places
  <2> QED BY <2>1, <2>2
<1>12. x.broken => y.broken
  BY <1>2, <1>8 DEF Keeps
<1> QED BY <1>7, <1>8, <1>9, <1>10, <1>11, <1>12 DEF Sound, Closes

\* All these sessions are closed, and nothing else.
ClosesAll(x, y, ends) ==
  /\ Sound(y) /\ Less(x, y)
  /\ \A r \in ends : y.ses[r] = Closed
  /\ \A r \in Slots \ ends : y.ses[r] = x.ses[r]
  /\ \A k \in Sockets : y.sock[k].open = x.sock[k].open

\* One more session of a list is closed.
LEMMA CloseNext ==
  ASSUME NEW x, Sound(x), NEW done \in SUBSET Slots, NEW y, ClosesAll(x, y, done),
         NEW s \in Slots \ done, x.ses[s] # Closed, NEW z, z = oonf_stream_close(y, s)
  PROVE  ClosesAll(x, z, done \union {s})
<1>1. Sound(y) /\ y.ses[s] # Closed
  BY DEF ClosesAll
<1>2. Sound(z) /\ Closes(y, z, s)
  BY <1>1, CloseSound
<1>3. \A r \in Slots : z.ses[r] \in {y.ses[r], Closed}
  BY <1>2 DEF Closes
<1> QED BY <1>2, <1>3 DEF ClosesAll, Closes, Less

\* The sessions of a list of any length are closed.
LEMMA CloseAllSound ==
  ASSUME NEW x, Sound(x), NEW ends \in SUBSET Slots, \A s \in ends : x.ses[s] # Closed,
         NEW y, y = CloseAll(x, ends)
  PROVE  ClosesAll(x, y, ends)
<1> DEFINE order == SetToSeq(ends)
           n == Len(order)
           done(k) == {order[j] : j \in 1..k}
           R == [k \in 0..n |-> {z \in Program : ClosesAll(x, z, done(k))}]
           F == [k \in 1..n |-> [z \in R[k - 1] |-> oonf_stream_close(z, order[k])]]
           Is(f) == f = [k \in 0..n |-> IF k = 0 THEN x
                                        ELSE oonf_stream_close(f[k - 1], order[k])]
           left == CHOOSE f : Is(f)
<1>1. y = left[n]
  BY DEF CloseAll
<1>2. IsFiniteSet(ends)
  BY StreamAssumption, FS_Subset
<1>3. /\ order \in Seq(ends) /\ n \in Nat
      /\ \A i, j \in 1..n : order[i] = order[j] => i = j
      /\ \A r \in ends : \E i \in 1..n : order[i] = r
  BY <1>2, ListOfSet
<1> HIDE DEF order
<1>4. \A k \in 1..n : order[k] \in ends
  BY <1>3, ElementOfSeq
<1> HIDE DEF left, n
<1>5. \A k \in 1..n : k - 1 \in 0..n /\ k \in 0..n /\ k # 0
  BY <1>3
<1>6. done(0) = {} /\ done(n) = ends
  BY <1>3, <1>4
<1>7. \A k \in 0..n : done(k) \in SUBSET Slots
  BY <1>3, <1>4
<1>8. ASSUME NEW k \in 1..n
      PROVE  order[k] \in Slots \ done(k - 1) /\ done(k) = done(k - 1) \union {order[k]}
  <2>1. \A j \in 1..(k - 1) : j \in 1..n /\ j # k
    BY <1>3
  <2>2. order[k] \notin done(k - 1)
    BY <1>3, <2>1
  <2>3. 1..k = (1..(k - 1)) \union {k}
    BY <1>3
  <2>4. done(k) = done(k - 1) \union {order[k]}
    BY <2>3
  <2> QED BY <1>4, <2>2, <2>4
<1> HIDE DEF done
<1>20. \A k \in 0..n : \A v : v \in R[k] <=> v \in Program /\ ClosesAll(x, v, done(k))
  OBVIOUS
<1> HIDE DEF R
<1>9. ASSUME NEW k \in 1..n, NEW z \in R[k - 1]
      PROVE  oonf_stream_close(z, order[k]) \in R[k]
  <2>1. ClosesAll(x, z, done(k - 1))
    BY <1>5, <1>20
  <2>2. PICK v : v = oonf_stream_close(z, order[k])
    OBVIOUS
  <2>3. x.ses[order[k]] # Closed
    BY <1>4
  <2>4. ClosesAll(x, v, done(k - 1) \union {order[k]})
    BY <1>5, <1>7, <1>8, <2>1, <2>2, <2>3, CloseNext
  <2>5. v \in Program
    BY <2>4 DEF ClosesAll, Sound
  <2>6. k \in 0..n /\ done(k) = done(k - 1) \union {order[k]}
    BY <1>5, <1>8
  <2>7. ClosesAll(x, v, done(k))
    BY <2>4, <2>6
  <2>8. v \in R[k]
    BY <1>20, <2>5, <2>6, <2>7
  <2> QED BY <2>2, <2>8
<1>10. x \in R[0]
  <2>1. ClosesAll(x, x, {})
    BY LessSelf DEF ClosesAll
  <2>2. x \in Program /\ 0 \in 0..n
    BY <1>3 DEF Sound
  <2> QED BY <1>6, <1>20, <2>1, <2>2
<1>11. PICK g : IsWalk(g, R, x, n, F)
  <2>1. \A k \in 1..n : F[k] \in [R[k - 1] -> R[k]]
    BY <1>9
  <2> HIDE DEF F
  <2> QED BY <1>3, <1>10, <2>1, WalkThrough
<1>12. \A k \in 1..n : g[k] = oonf_stream_close(g[k - 1], order[k])
  BY <1>5, <1>11 DEF IsWalk
<1>13. Is(g)
  <2>1. \A k \in 0..n : k = 0 \/ k \in 1..n
    BY <1>3
  <2> HIDE DEF F
  <2> QED BY <1>11, <1>12, <2>1 DEF IsWalk
<1>14. Is(left)
  BY <1>13 DEF left
<1>15. left[0] = x /\ \A k \in 1..n : left[k] = oonf_stream_close(left[k - 1], order[k])
  <2>1. \A k \in 0..n : left[k] = IF k = 0 THEN x ELSE oonf_stream_close(left[k - 1], order[k])
    BY <1>14
  <2>2. 0 \in 0..n
    BY <1>3
  <2> QED BY <1>5, <2>1, <2>2
<1>16. left[0] \in R[0] /\ \A k \in 1..n : left[k - 1] \in R[k - 1] => left[k] \in R[k]
  BY <1>9, <1>10, <1>15
<1>17. \A k \in 0..n : left[k] \in R[k]
  <2> HIDE DEF Is, F
  <2> QED BY <1>3, <1>16, StaysAlong
<1>18. left[n] \in R[n] /\ n \in 0..n
  BY <1>3, <1>17
<1> QED BY <1>1, <1>6, <1>18, <1>20

-----------------------------------------------------------------------------
(* Sockets *)

\* A socket without sessions can be set to anything with all its places.
LEMMA SocketClosed ==
  ASSUME NEW x, Sound(x), NEW sock \in Sockets, SessionsOf(x, sock) = {},
         NEW v \in SocketType, v.open => v.allowed = SessionLimit,
         NEW y, y = [x EXCEPT !.sock[sock] = v]
  PROVE  Sound(y) /\ Less(x, y) /\ SessionsOf(y, sock) = {}
<1>1. x \in Program
  BY DEF Sound
<1>2. y \in Program
  BY <1>1 DEF Program
<1>3. /\ y.ses = x.ses /\ y.repeat = x.repeat /\ y.routes = x.routes /\ y.broken = x.broken
      /\ y.sock[sock] = v /\ \A k \in Sockets \ {sock} : y.sock[k] = x.sock[k]
  BY <1>1 DEF Program
<1>4. \A k \in Sockets : SessionsOf(y, k) = SessionsOf(x, k)
  BY <1>3 DEF SessionsOf
<1>5. Less(x, y)
  BY <1>3 DEF Less
<1>6. ASSUME NEW k \in Sockets PROVE Places(y, k)
  <2>1. CASE k = sock
    <3>1. Cardinality({}) = 0 /\ SessionLimit + 0 = SessionLimit
      BY FS_EmptySet, StreamAssumption
    <3> QED BY <1>3, <1>4, <2>1, <3>1 DEF Places
  <2>2. CASE k # sock
    BY <1>3, <1>4, <2>2 DEF Places, Sound
  <2> QED BY <2>1, <2>2
<1>7. ASSUME NEW s \in Slots
      PROVE  IF y.ses[s] = Closed THEN s \notin y.repeat /\ s \notin y.routes
             ELSE Owned(y, s) /\ Fit(y.ses[s])
  BY <1>3 DEF Sound, Owned
<1> QED BY <1>2, <1>4, <1>5, <1>6, <1>7 DEF Sound

\* However a socket goes, its sessions are closed or left alone.
LEMMA RemoveSound ==
  ASSUME NEW x, Sound(x), NEW sock \in Sockets, NEW force,
         NEW y, y = oonf_stream_remove(x, sock, force)
  PROVE  /\ Sound(y) /\ Less(x, y)
         /\ force => SessionsOf(y, sock) = {}
<1> DEFINE ends == {s \in SessionsOf(x, sock) : force \/ x.ses[s].out = None}
           left == CloseAll(x, ends)
<1>1. CASE ~ x.sock[sock].open
  <2>1. y = x
    BY <1>1 DEF oonf_stream_remove
  <2> QED BY <1>1, <2>1, LessSelf DEF Sound, Places
<1>2. CASE x.sock[sock].open
  <2>1. ends \in SUBSET Slots /\ \A s \in ends : x.ses[s] # Closed
    BY DEF SessionsOf
  <2>2. force => ends = SessionsOf(x, sock)
    OBVIOUS
  <2>3. y = IF SessionsOf(left, sock) # {} THEN left
            ELSE [left EXCEPT !.sock[sock].open = FALSE]
    BY <1>2 DEF oonf_stream_remove
  <2>4. ClosesAll(x, left, ends)
    <3> HIDE DEF ends
    <3> QED BY <2>1, CloseAllSound
  <2> HIDE DEF ends, left
  <2>5. force => SessionsOf(left, sock) = {}
    BY <2>2, <2>4 DEF ClosesAll, SessionsOf
  <2>6. CASE SessionsOf(left, sock) # {}
    BY <2>3, <2>4, <2>5, <2>6 DEF ClosesAll
  <2>7. CASE SessionsOf(left, sock) = {}
    <3>1. Sound(left) /\ Less(x, left)
      BY <2>4 DEF ClosesAll
    <3>2. left.sock[sock] \in SocketType
      BY <3>1 DEF Sound, Program
    <3>3. PICK v : v = [left.sock[sock] EXCEPT !.open = FALSE]
      OBVIOUS
    <3>4. v \in SocketType /\ ~ v.open
      BY <3>2, <3>3 DEF SocketType
    <3>5. y = [left EXCEPT !.sock[sock] = v]
      BY <2>3, <2>7, <3>3
    <3>6. Sound(y) /\ Less(left, y) /\ SessionsOf(y, sock) = {}
      BY <2>7, <3>1, <3>4, <3>5, SocketClosed
    <3> QED BY <3>1, <3>6, LessOn
  <2> QED BY <2>6, <2>7
<1> QED BY <1>1, <1>2

\* oonf_stream_add: a socket that is opened has all its places.
LEMMA AddSound ==
  ASSUME NEW x, Sound(x), NEW sock \in Sockets, SessionsOf(x, sock) = {},
         NEW port \in Nat, NEW fails, NEW y, y = oonf_stream_add(x, sock, port, fails)
  PROVE  Sound(y) /\ Less(x, y)
<1>1. SessionLimit \in Int
  BY StreamAssumption
<1>2. CASE fails
  <2>1. ClosedSocket \in SocketType /\ ~ ClosedSocket.open
    BY DEF ClosedSocket, SocketType
  <2>2. y = [x EXCEPT !.sock[sock] = ClosedSocket]
    BY <1>2 DEF oonf_stream_add
  <2> QED BY <2>1, <2>2, SocketClosed
<1>3. CASE ~ fails
  <2>1. PICK v : v = [open |-> TRUE, port |-> port, allowed |-> SessionLimit, remove |-> FALSE]
    OBVIOUS
  <2>2. v \in SocketType /\ v.allowed = SessionLimit
    BY <1>1, <2>1 DEF SocketType
  <2>3. y = [x EXCEPT !.sock[sock] = v]
    BY <1>3, <2>1 DEF oonf_stream_add
  <2> QED BY <2>2, <2>3, SocketClosed
<1> QED BY <1>2, <1>3

\* apply_managed_socket: the sessions of the old socket are gone before the new
\* one is opened.
LEMMA ApplySocketSound ==
  ASSUME NEW x, Sound(x), NEW sock \in Sockets, NEW port \in Nat, NEW fails,
         NEW y, y = apply_managed_socket(x, sock, port, fails)
  PROVE  Sound(y) /\ Less(x, y)
<1> DEFINE z == oonf_stream_remove(x, sock, TRUE)
<1>1. Sound(z) /\ Less(x, z) /\ SessionsOf(z, sock) = {}
  <2>1. PICK force \in BOOLEAN : force = TRUE
    OBVIOUS
  <2>2. PICK v : v = oonf_stream_remove(x, sock, force)
    OBVIOUS
  <2>3. Sound(v) /\ Less(x, v) /\ (force => SessionsOf(v, sock) = {})
    BY <2>2, RemoveSound
  <2>4. v = z
    BY <2>1, <2>2
  <2>5. force
    BY <2>1
  <2> HIDE DEF z
  <2> QED BY <2>3, <2>4, <2>5
<1> HIDE DEF z
<1>2. CASE port = 0
  BY <1>1, <1>2 DEF apply_managed_socket, z
<1>3. CASE port # 0 /\ x.sock[sock].open /\ x.sock[sock].port = port
  BY <1>3, LessSelf DEF apply_managed_socket
<1>4. CASE port # 0 /\ ~ (x.sock[sock].open /\ x.sock[sock].port = port)
  <2>1. y = oonf_stream_add(z, sock, port, fails)
    BY <1>4 DEF apply_managed_socket, z
  <2> QED BY <1>1, <2>1, AddSound, LessOn
<1> QED BY <1>2, <1>3, <1>4

\* Both sockets of a server.
LEMMA ServerSockets ==
  ASSUME NEW k \in {"telnet", "http"}
  PROVE  <<k, "v4">> \in Sockets /\ <<k, "v6">> \in Sockets
BY DEF Sockets, Families

\* oonf_stream_apply_managed, also when one of the two sockets fails.
LEMMA ApplySound ==
  ASSUME NEW x, Sound(x), NEW k \in {"telnet", "http"}, NEW b \in Bindings, NEW failing,
         NEW y, y = oonf_stream_apply_managed(x, k, b, failing)
  PROVE  Sound(y) /\ Less(x, y)
<1> DEFINE first == apply_managed_socket(x, <<k, "v4">>, b["v4"], "v4" \in failing)
           second == apply_managed_socket(first, <<k, "v6">>, b["v6"], "v6" \in failing)
<1>1. b["v4"] \in Nat /\ b["v6"] \in Nat
  BY StreamAssumption DEF Families
<1>2. Sound(first) /\ Less(x, first)
  BY <1>1, ServerSockets, ApplySocketSound
<1>3. y = first \/ y = second
  BY DEF oonf_stream_apply_managed
<1> HIDE DEF first
<1>4. Sound(second) /\ Less(first, second)
  BY <1>1, <1>2, ServerSockets, ApplySocketSound
<1> QED BY <1>2, <1>3, <1>4, LessOn

\* oonf_stream_remove_managed.
LEMMA RemoveManagedSound ==
  ASSUME NEW x, Sound(x), NEW k \in {"telnet", "http"},
         NEW y, y = oonf_stream_remove_managed(x, k)
  PROVE  Sound(y) /\ Less(x, y)
<1>1. PICK force \in BOOLEAN : force = TRUE
  OBVIOUS
<1>2. PICK z : z = oonf_stream_remove(x, <<k, "v4">>, force)
  OBVIOUS
<1>3. Sound(z) /\ Less(x, z)
  BY <1>2, ServerSockets, RemoveSound
<1>4. PICK v : v = oonf_stream_remove(z, <<k, "v6">>, force)
  OBVIOUS
<1>5. Sound(v) /\ Less(z, v)
  BY <1>3, <1>4, ServerSockets, RemoveSound
<1>6. y = v
  BY <1>1, <1>2, <1>4 DEF oonf_stream_remove_managed
<1> QED BY <1>3, <1>5, <1>6, LessOn

-----------------------------------------------------------------------------
(* New sessions *)

\* A session is changed.
Edit(x, s, v) == [x EXCEPT !.ses[s] = v]

\* What a session may be turned into while its socket and what runs in it stay.
LEMMA SessionEdited ==
  ASSUME NEW x, NEW s \in Slots, Good(x, s), NEW v \in SessionType,
         v.sock = x.ses[s].sock, v.stop = x.ses[s].stop,
         NEW y, y = Edit(x, s, v)
  PROVE  /\ Good(y, s) /\ Within(x, y, s) /\ y.ses[s] = v /\ y.broken = x.broken
         /\ y.sock = x.sock
<1>1. y.ses[s] = v /\ y.broken = x.broken /\ y.sock = x.sock
  BY DEF Edit, Good, Program
<1>2. y \in Program
  BY DEF Edit, Good, Program
<1>3. y.repeat = x.repeat /\ y.routes = x.routes /\ \A r \in Slots \ {s} : y.ses[r] = x.ses[r]
  BY DEF Edit, Good, Program
<1> QED BY <1>1, <1>2, <1>3 DEF Good, Within, Owned

\* A session on its first day.
Fresh(a) ==
  /\ a.write /\ a.in = <<>> /\ a.stop = None /\ a.again = None /\ ~ a.rc
  /\ a.wait => KindOf(a.sock) = "user"
  /\ Timed(a)

\* A new session waits for nothing.
LEMMA FreshIsFit ==
  ASSUME NEW a, Fresh(a)
  PROVE  Fit(a) /\ LiveSession(a)
<1>1. "blank" \notin Tokens(a.in)
  BY EmptySeq DEF Fresh, Tokens
<1> QED BY <1>1 DEF Fresh, Fit, LiveSession, Answered

\* Every kind of socket has a session timeout or has none.
LEMMA TimeoutTyped ==
  ASSUME NEW sock PROVE session_timeout(sock) \in BOOLEAN
BY DEF session_timeout

\* What create_session and cb_telnet_init make of a new session.
LEMMA NewIsFresh ==
  ASSUME NEW sock \in Sockets, NEW peer \in Peers, NEW waiting \in BOOLEAN,
         waiting => KindOf(sock) = "user",
         NEW v, v = IF KindOf(sock) = "telnet" THEN cb_telnet_init(NewSession(sock, peer, waiting))
                    ELSE NewSession(sock, peer, waiting)
  PROVE  v \in SessionType /\ Fresh(v) /\ v.sock = sock
<1>1. PICK t \in BOOLEAN : t = session_timeout(sock)
  BY TimeoutTyped
<1>2. PICK a : a = SessionFields(sock, peer, waiting, t)
  OBVIOUS
<1>3. a \in SessionType /\ Fresh(a) /\ a.sock = sock
  <2>1. a \in SessionType
    BY <1>2, Values, EmptySeq DEF SessionFields, SessionType, States
  <2>2. /\ a.write = TRUE /\ a.in = <<>> /\ a.stop = None /\ a.again = None /\ a.wait = waiting
        /\ a.sock = sock /\ a.timer = t /\ a.rc = FALSE
    BY <1>2 DEF SessionFields
  <2> QED BY <1>1, <2>1, <2>2 DEF Fresh, Timed
<1>4. NewSession(sock, peer, waiting) = a
  BY <1>1, <1>2 DEF NewSession
<1>5. CASE KindOf(sock) # "telnet"
  BY <1>3, <1>4, <1>5
<1>6. CASE KindOf(sock) = "telnet"
  <2>1. v = [a EXCEPT !.echo = TRUE, !.stop = None, !.timeout = TRUE]
    BY <1>4, <1>6 DEF cb_telnet_init
  <2>2. v \in SessionType
    BY <1>3, <2>1, Values DEF SessionType
  <2>3. /\ v.write = a.write /\ v.in = a.in /\ v.stop = None /\ v.again = a.again
        /\ v.wait = a.wait /\ v.sock = a.sock /\ v.timer = a.timer /\ v.rc = a.rc
    BY <1>3, <2>1 DEF SessionType
  <2>4. session_timeout(sock) /\ a.timer
    BY <1>1, <1>2, <1>6 DEF session_timeout, SessionFields
  <2>5. v.timer
    BY <2>3, <2>4
  <2>6. Timed(v)
    BY <2>5 DEF Timed
  <2>7. Fresh(v)
    <3>1. v.write
      BY <1>3, <2>3 DEF Fresh
    <3>2. v.wait => KindOf(v.sock) = "user"
      BY <1>3, <2>3 DEF Fresh
    <3>3. v.in = <<>> /\ v.stop = None /\ v.again = None
      BY <1>3, <2>3 DEF Fresh
    <3>4. ~ v.rc
      BY <1>3, <2>3 DEF Fresh
    <3> QED BY <2>6, <3>1, <3>2, <3>3, <3>4 DEF Fresh
  <2> QED BY <1>3, <2>2, <2>3, <2>7
<1> QED BY <1>5, <1>6

\* One session takes a place, and nothing else changes.
Opens(x, y, s) ==
  /\ \A r \in Slots \ {s} : y.ses[r] = x.ses[r]
  /\ y.broken = x.broken

\* A session takes a place of a socket.
Take(x, s, sock, v) ==
  [x EXCEPT !.ses[s] = v, !.sock[sock].allowed = x.sock[sock].allowed - 1]

\* A free slot and a place of an open socket.
LEMMA PlaceSound ==
  ASSUME NEW x, Sound(x), NEW s \in Slots, x.ses[s] = Closed,
         NEW sock \in Sockets, x.sock[sock].open,
         NEW v \in SessionType, Fresh(v), v.sock = sock,
         NEW y, y = Take(x, s, sock, v)
  PROVE  Sound(y) /\ Opens(x, y, s) /\ y.ses[s] = v
<1>1. x \in Program /\ x.sock \in [Sockets -> SocketType]
  BY DEF Sound, Program
<1>2. PICK a \in Int : a = x.sock[sock].allowed - 1
  BY <1>1 DEF SocketType
<1>3. PICK w \in SocketType : w = [x.sock[sock] EXCEPT !.allowed = a]
  BY <1>1, <1>2 DEF SocketType
<1>4. PICK f \in [Sockets -> SocketType] : f = [x.sock EXCEPT ![sock] = w]
  BY <1>1, <1>3
<1>5. PICK g \in [Slots -> SessionType \union {Closed}] : g = [x.ses EXCEPT ![s] = v]
  BY <1>1 DEF Program
<1>6. y = [x EXCEPT !.ses = g, !.sock = f]
  BY <1>2, <1>3, <1>4, <1>5 DEF Take
<1>7. y \in Program
  BY <1>1, <1>6 DEF Program
<1>8. /\ y.ses = g /\ y.sock = f /\ y.repeat = x.repeat /\ y.routes = x.routes
      /\ y.broken = x.broken
  BY <1>1, <1>6 DEF Program
<1>9. y.ses[s] = v /\ \A r \in Slots \ {s} : y.ses[r] = x.ses[r]
  BY <1>1, <1>5, <1>8 DEF Program
<1>10. \A k \in Sockets :
         /\ y.sock[k].open = x.sock[k].open
         /\ y.sock[k].allowed = IF k = sock THEN a ELSE x.sock[k].allowed
  BY <1>1, <1>3, <1>4, <1>8 DEF SocketType
<1>11. y.ses[s] # Closed
  BY <1>7, <1>9, OpenIsSession
<1>12. ASSUME NEW r \in Slots
       PROVE  IF y.ses[r] = Closed THEN r \notin y.repeat /\ r \notin y.routes
              ELSE Owned(y, r) /\ Fit(y.ses[r])
  <2>1. CASE r = s
    <3>1. s \notin x.repeat /\ s \notin x.routes
      BY DEF Sound
    <3>2. Owned(y, s)
      BY <1>8, <3>1 DEF Owned
    <3>3. Fit(y.ses[s])
      BY <1>9, FreshIsFit
    <3> QED BY <1>11, <2>1, <3>2, <3>3
  <2>2. CASE r # s
    BY <1>8, <1>9, <2>2 DEF Sound, Owned
  <2> QED BY <2>1, <2>2
<1>13. ASSUME NEW k \in Sockets PROVE Places(y, k)
  <2>1. CASE k # sock
    <3>1. SessionsOf(y, k) = SessionsOf(x, k)
      BY <1>9, <2>1 DEF SessionsOf
    <3> QED BY <1>10, <2>1, <3>1 DEF Places, Sound
  <2>2. CASE k = sock
    <3>1. s \notin SessionsOf(x, k) /\ SessionsOf(y, k) = SessionsOf(x, k) \union {s}
      BY <1>9, <1>11, <2>2 DEF SessionsOf
    <3>2. Cardinality(SessionsOf(y, k)) = Cardinality(SessionsOf(x, k)) + 1
      BY <3>1, SessionsFinite, FS_AddElement
    <3>3. x.sock[k].allowed + Cardinality(SessionsOf(x, k)) = SessionLimit
      BY <2>2 DEF Places, Sound
    <3>4. PICK m \in Nat : m = Cardinality(SessionsOf(x, k))
      BY SessionsFinite
    <3>5. PICK b \in Int : b = x.sock[k].allowed
      BY <1>1 DEF SocketType
    <3>6. y.sock[k].allowed = b - 1 /\ Cardinality(SessionsOf(y, k)) = m + 1
      BY <1>2, <1>10, <2>2, <3>2, <3>4, <3>5
    <3>7. (b - 1) + (m + 1) = b + m
      OBVIOUS
    <3>8. y.sock[k].open
      BY <1>10, <2>2
    <3> QED BY <3>3, <3>4, <3>5, <3>6, <3>7, <3>8 DEF Places
  <2> QED BY <2>1, <2>2
<1> QED BY <1>7, <1>8, <1>9, <1>12, <1>13 DEF Sound, Opens

\* A fresh session that must go is still fresh.
LEMMA RefusedIsFresh ==
  ASSUME NEW a \in SessionType, Fresh(a), NEW code \in Outs,
         NEW v, v = [a EXCEPT !.state = "send_and_quit", !.out = code]
  PROVE  v \in SessionType /\ Fresh(v) /\ v.sock = a.sock /\ v.stop = a.stop
<1>1. v \in SessionType
  BY DEF SessionType, States
<1>2. /\ v.in = a.in /\ v.stop = a.stop /\ v.again = a.again /\ v.sock = a.sock
      /\ v.write = a.write /\ v.wait = a.wait /\ v.timer = a.timer /\ v.timeout = a.timeout
      /\ v.rc = a.rc
  BY DEF SessionType
<1>3. v.write
  BY <1>2 DEF Fresh
<1>4. v.wait => KindOf(v.sock) = "user"
  BY <1>2 DEF Fresh
<1>5. Timed(a)
  BY DEF Fresh
<1>6. Timed(v)
  BY <1>2, <1>5 DEF Timed
<1>7. v.in = <<>> /\ v.stop = None /\ v.again = None
  BY <1>2 DEF Fresh
<1>8. ~ v.rc
  BY <1>2 DEF Fresh
<1> QED BY <1>1, <1>2, <1>3, <1>4, <1>6, <1>7, <1>8 DEF Fresh

\* A session is told why it must go.
Refuse(x, s, code) ==
  [[x EXCEPT !.ses[s].state = "send_and_quit"] EXCEPT !.ses[s].out = code]

\* A refused session is edited in two steps.
LEMMA RefusedEdit ==
  ASSUME NEW p, NEW s \in Slots, Good(p, s), NEW code,
         NEW v, v = [p.ses[s] EXCEPT !.state = "send_and_quit", !.out = code],
         NEW y, y = Refuse(p, s, code)
  PROVE  y = Edit(p, s, v)
<1>1. PICK f : f = [p.ses EXCEPT ![s] = [p.ses[s] EXCEPT !.state = "send_and_quit"]]
  OBVIOUS
<1>2. f[s] = [p.ses[s] EXCEPT !.state = "send_and_quit"] /\ DOMAIN f = Slots
  BY <1>1 DEF Good, Program
<1>3. y = [[p EXCEPT !.ses = f] EXCEPT !.ses[s].out = code]
  BY <1>1 DEF Refuse
<1>4. y = [p EXCEPT !.ses = [f EXCEPT ![s] = [f[s] EXCEPT !.out = code]]]
  BY <1>3 DEF Good, Program
<1>5. [f[s] EXCEPT !.out = code] = v
  BY <1>2 DEF Good, SessionType
<1>6. [f EXCEPT ![s] = v] = [p.ses EXCEPT ![s] = v]
  BY <1>1 DEF Good, Program
<1> QED BY <1>4, <1>5, <1>6 DEF Edit

\* What a fresh session may be turned into.
LEMMA FreshEdited ==
  ASSUME NEW p, Sound(p), NEW s \in Slots, p.ses[s] # Closed,
         NEW v \in SessionType, Fresh(v), v.sock = p.ses[s].sock, v.stop = p.ses[s].stop,
         NEW y, y = Edit(p, s, v)
  PROVE  Sound(y) /\ Opens(p, y, s) /\ y.ses[s] = v
<1>1. Good(p, s)
  BY SoundIsGood
<1>2. Good(y, s) /\ Within(p, y, s) /\ y.ses[s] = v /\ y.broken = p.broken
  BY <1>1, SessionEdited
<1>3. Fit(y.ses[s])
  BY <1>2, FreshIsFit
<1>4. Sound(y)
  BY <1>2, <1>3, WithinSound
<1> QED BY <1>2, <1>4 DEF Opens, Within

\* A session that gets an answer at once and must go.
LEMMA RefusedSound ==
  ASSUME NEW p, Sound(p), NEW s \in Slots, p.ses[s] # Closed, Fresh(p.ses[s]),
         NEW code \in Outs,
         NEW y, y = Refuse(p, s, code)
  PROVE  Sound(y) /\ Opens(p, y, s) /\ Fresh(y.ses[s])
<1>1. Good(p, s) /\ p.ses[s] \in SessionType
  BY SoundIsGood DEF Good
<1>2. PICK v : v = [p.ses[s] EXCEPT !.state = "send_and_quit", !.out = code]
  OBVIOUS
<1>3. v \in SessionType /\ Fresh(v) /\ v.sock = p.ses[s].sock /\ v.stop = p.ses[s].stop
  BY <1>1, <1>2, RefusedIsFresh
<1>4. y = Edit(p, s, v)
  BY <1>1, <1>2, RefusedEdit
<1> QED BY <1>3, <1>4, FreshEdited

\* A session that must go without an answer.
End(x, s) == [x EXCEPT !.ses[s].state = "send_and_quit"]

\* The refused session of an outgoing socket.
LEMMA EndedSound ==
  ASSUME NEW p, Sound(p), NEW s \in Slots, p.ses[s] # Closed, Fresh(p.ses[s]),
         NEW y, y = End(p, s)
  PROVE  Sound(y) /\ Opens(p, y, s) /\ Fresh(y.ses[s])
<1>1. Good(p, s) /\ p.ses[s] \in SessionType
  BY SoundIsGood DEF Good
<1>2. PICK v : v = [p.ses[s] EXCEPT !.state = "send_and_quit", !.out = p.ses[s].out]
  OBVIOUS
<1>3. p.ses[s].out \in Outs
  BY <1>1 DEF SessionType
<1>4. v \in SessionType /\ Fresh(v) /\ v.sock = p.ses[s].sock /\ v.stop = p.ses[s].stop
  BY <1>1, <1>2, <1>3, RefusedIsFresh
<1>5. v = [p.ses[s] EXCEPT !.state = "send_and_quit"]
  BY <1>1, <1>2 DEF SessionType
<1>6. y = Edit(p, s, v)
  BY <1>5 DEF Edit, End
<1> QED BY <1>4, <1>6, FreshEdited

\* The four ways a session is created.
LEMMA CreatedSound ==
  ASSUME NEW p, Sound(p), NEW s \in Slots, p.ses[s] # Closed, Fresh(p.ses[s]),
         NEW y, \/ y = p
                \/ y = End(p, s)
                \/ y = Refuse(p, s, 503)
                \/ y = Refuse(p, s, "text")
  PROVE  Sound(y) /\ Opens(p, y, s) /\ Fresh(y.ses[s])
<1>1. Opens(p, p, s)
  BY DEF Opens
<1>2. 503 \in Outs /\ "text" \in Outs
  BY Values DEF Outs
<1>3. PICK z : z = End(p, s)
  OBVIOUS
<1>4. Sound(z) /\ Opens(p, z, s) /\ Fresh(z.ses[s])
  BY <1>3, EndedSound
<1>5. \A code \in Outs : \A z1 :
        z1 = Refuse(p, s, code) =>
          Sound(z1) /\ Opens(p, z1, s) /\ Fresh(z1.ses[s])
  BY RefusedSound
<1>6. CASE y = p
  BY <1>1, <1>6
<1>7. CASE y = End(p, s)
  BY <1>3, <1>4, <1>7
<1>8. CASE y = Refuse(p, s, 503) \/ y = Refuse(p, s, "text")
  BY <1>2, <1>5, <1>8
<1> QED BY <1>6, <1>7, <1>8

\* Creating leaves the other sessions alone.
LEMMA OpensIsLive ==
  ASSUME NEW x, NEW p, NEW y, NEW s, Opens(x, p, s), Opens(p, y, s), Fresh(y.ses[s])
  PROVE  Live(x) => Live(y)
BY FreshIsFit DEF Live, Opens

\* A session of any kind takes its place.
LEMMA NewSound ==
  ASSUME NEW x, Sound(x), NEW s \in Slots, x.ses[s] = Closed,
         NEW sock \in Sockets, x.sock[sock].open,
         NEW v \in SessionType, Fresh(v), v.sock = sock,
         NEW y, y = Take(x, s, sock, v)
  PROVE  Sound(y) /\ Opens(x, y, s) /\ y.ses[s] # Closed /\ Fresh(y.ses[s])
<1>1. Sound(y) /\ Opens(x, y, s) /\ y.ses[s] = v
  BY PlaceSound
<1>2. y.ses[s] # Closed
  BY <1>1, OpenIsSession DEF Sound
<1> QED BY <1>1, <1>2

\* A new connection, within the limit of its socket or beyond it.
LEMMA CreateSound ==
  ASSUME NEW x, Sound(x), NEW s \in Slots, x.ses[s] = Closed,
         NEW sock \in Sockets, x.sock[sock].open, NEW peer \in Peers,
         NEW waiting \in BOOLEAN, waiting => KindOf(sock) = "user"
  PROVE  LET y == create_session(x, s, sock, peer, waiting)
         IN Sound(y) /\ (Live(x) => Live(y))
<1>1. PICK v : v = IF KindOf(sock) = "telnet" THEN cb_telnet_init(NewSession(sock, peer, waiting))
                   ELSE NewSession(sock, peer, waiting)
  OBVIOUS
<1>2. v \in SessionType /\ Fresh(v) /\ v.sock = sock
  BY <1>1, NewIsFresh
<1>3. PICK p : p = Take(x, s, sock, v)
  OBVIOUS
<1>4. Sound(p) /\ Opens(x, p, s) /\ p.ses[s] # Closed /\ Fresh(p.ses[s])
  BY <1>2, <1>3, NewSound
<1>5. PICK y : y = create_session(x, s, sock, peer, waiting)
  OBVIOUS
<1>6. \/ y = p
      \/ y = End(p, s)
      \/ y = Refuse(p, s, 503)
      \/ y = Refuse(p, s, "text")
  BY <1>1, <1>3, <1>5 DEF create_session, create_error, Put, Take, Refuse, End
<1>7. Sound(y) /\ Opens(p, y, s) /\ Fresh(y.ses[s])
  BY <1>4, <1>6, CreatedSound
<1>8. Live(x) => Live(y)
  BY <1>4, <1>7, OpensIsLive
<1> QED BY <1>5, <1>7, <1>8

-----------------------------------------------------------------------------
(* The event handler *)

\* What an event of a session leaves alone.
Calm(a, v) ==
  /\ v.sock = a.sock /\ v.stop = a.stop /\ v.again = a.again
  /\ v.wait = a.wait /\ v.timeout = a.timeout /\ v.rc = a.rc

\* A request has arrived.
Asked(a) == KindOf(a.sock) = "http" /\ "blank" \in Tokens(a.in)

\* Session s while it is served, with what the send will return: it is still
\* fit and timed, and a send has been asked for.
Busy(a, w) == Fit(a) /\ Timed(a) /\ (w # "none" => a.write)

\* Behind the read, the application, the send, and all of it.
Filled(a) ==
  Asked(a) => a.cut \/ a.state \in {"active", "cleanup"}
              \/ (a.state = "send_and_quit" /\ a.out # None)
Heard(a) ==
  Asked(a) => a.cut \/ a.state = "cleanup" \/ (a.state = "send_and_quit" /\ a.out # None)
Told(a) == Asked(a) => a.cut \/ a.state \in {"cleanup", "send_and_quit"}
Sendable(a) == a.out # None /\ a.state # "cleanup" => a.write
Rested(a) == a.state = "cleanup" \/ LiveSession(a)

\* A session stays fit.
LEMMA CalmIsFit ==
  ASSUME NEW a, NEW v, Calm(a, v), Fit(a)
  PROVE  Fit(v)
BY DEF Calm, Fit

\* A session stays timed, also when its timeout is set again.
LEMMA CalmIsTimed ==
  ASSUME NEW a, NEW v, Calm(a, v), Timed(a), v.timer = a.timer \/ v.timer = session_timeout(v.sock)
  PROVE  Timed(v)
<1>1. v.sock = a.sock /\ v.timeout = a.timeout
  BY DEF Calm
<1>2. CASE v.timer = a.timer
  BY <1>1, <1>2 DEF Timed
<1>3. CASE v.timer = session_timeout(v.sock)
  BY <1>1, <1>3 DEF Timed
<1> QED BY <1>2, <1>3

\* A session stays fit, timed and asked to send.
LEMMA CalmIsBusy ==
  ASSUME NEW a, NEW w, Busy(a, w), NEW v, Calm(a, v), v.write = a.write,
         v.timer = a.timer \/ v.timer = session_timeout(v.sock)
  PROVE  Busy(v, w)
<1>1. Fit(v) /\ Timed(v)
  BY CalmIsFit, CalmIsTimed DEF Busy
<1>2. w # "none" => v.write
  BY DEF Busy
<1> QED BY <1>1, <1>2 DEF Busy

\* Only a session whose request is answered, or none has come, waits for more.
LEMMA SameAsked ==
  ASSUME NEW a, NEW v, v.sock = a.sock, v.in = a.in
  PROVE  Asked(v) <=> Asked(a)
BY DEF Asked

\* Kinds of sessions.
LEMMA AskedIsHttp ==
  ASSUME NEW a, KindOf(a.sock) # "http" PROVE ~ Asked(a)
BY DEF Asked

\* What a step of the handler says of its session.
Steps(x, y, s) == Good(y, s) /\ Within(x, y, s) /\ y.broken = x.broken

\* A step that only edits its session.
LEMMA EditSteps ==
  ASSUME NEW x, NEW s \in Slots, Good(x, s), NEW v \in SessionType, Calm(x.ses[s], v),
         NEW y, y = Edit(x, s, v)
  PROVE  Steps(x, y, s) /\ y.ses[s] = v
BY SessionEdited DEF Calm, Steps

\* Two steps after one another.
LEMMA StepsOn ==
  ASSUME NEW x, NEW y, NEW z, NEW s, Steps(x, y, s), Steps(y, z, s)
  PROVE  Steps(x, z, s)
BY WithinOn DEF Steps

\* A step that does nothing.
LEMMA StepsSelf ==
  ASSUME NEW x, NEW s, Good(x, s)
  PROVE  Steps(x, x, s)
BY WithinSelf DEF Steps

\* The read.
LEMMA ReadSteps ==
  ASSUME NEW x, NEW s \in Slots, Good(x, s), NEW ev, ev.chunk \in Seq(STRING),
         Busy(x.ses[s], ev.write), Answered(x.ses[s]),
         NEW y, y = Read(x, s, ev)
  PROVE  Steps(x, y, s) /\ Busy(y.ses[s], ev.write) /\ Filled(y.ses[s])
<1> DEFINE a == x.ses[s]
           w == ev.write
<1>0. a \in SessionType /\ a.state \in States
  BY DEF Good, SessionType
<1>1. Filled(a)
  BY DEF Answered, Filled, Asked
<1>2. CASE a.state # "active" \/ ev.read = "none"
  <2>1. y = x
    BY <1>2 DEF Read
  <2> QED BY <1>1, <2>1, StepsSelf
<1>3. a.state = "active" => (Asked(a) => a.cut)
  BY DEF Answered, Asked
<1>4. ASSUME a.state = "active", NEW e \in {"cleanup", "send_and_quit"},
             NEW v, v = [a EXCEPT !.state = e], NEW z, z = Edit(x, s, v)
      PROVE  Steps(x, z, s) /\ Busy(z.ses[s], w) /\ Filled(z.ses[s])
  <2>1. v \in SessionType
    BY <1>0, <1>4 DEF SessionType, States
  <2>2. Calm(a, v)
    BY <1>0, <1>4 DEF SessionType, Calm
  <2>3. v.write = a.write /\ v.timer = a.timer /\ v.in = a.in /\ v.sock = a.sock /\ v.cut = a.cut
    BY <1>0, <1>4 DEF SessionType
  <2>4. Steps(x, z, s) /\ z.ses[s] = v
    BY <1>4, <2>1, <2>2, EditSteps
  <2>5. Busy(v, w)
    BY <2>2, <2>3, CalmIsBusy
  <2>6. Filled(v)
    BY <1>3, <1>4, <2>3, SameAsked DEF Filled
  <2> QED BY <2>4, <2>5, <2>6
<1>5. CASE a.state = "active" /\ ev.read \in {"error", "eof"}
  <2>1. PICK e \in {"cleanup", "send_and_quit"} : y = [x EXCEPT !.ses[s].state = e]
    BY <1>5 DEF Read
  <2>2. PICK v : v = [a EXCEPT !.state = e]
    OBVIOUS
  <2>3. y = Edit(x, s, v)
    BY <2>1, <2>2 DEF Edit
  <2> QED BY <1>4, <1>5, <2>2, <2>3
<1> DEFINE f == [x EXCEPT !.ses[s].in = x.ses[s].in \o ev.chunk]
<1>6. PICK v : v = [a EXCEPT !.in = a.in \o ev.chunk]
  OBVIOUS
<1>7. /\ v \in SessionType /\ Calm(a, v) /\ v.write = a.write /\ v.timer = a.timer
      /\ v.state = a.state
  <2>1. a.in \o ev.chunk \in Seq(STRING)
    BY <1>0, ConcatProperties DEF SessionType
  <2> QED BY <1>0, <1>6, <2>1 DEF SessionType, Calm
<1>8. f = Edit(x, s, v)
  BY <1>6 DEF Edit
<1> HIDE DEF f
<1>9. Steps(x, f, s) /\ f.ses[s] = v
  BY <1>7, <1>8, EditSteps
<1>10. Busy(v, w)
  BY <1>7, CalmIsBusy
<1>11. Good(f, s)
  BY <1>9 DEF Steps
<1>12. CASE a.state = "active" /\ y = [f EXCEPT !.ses[s].timer = session_timeout(a.sock)]
  <2>1. PICK t \in BOOLEAN : t = session_timeout(a.sock)
    BY TimeoutTyped
  <2>2. PICK u : u = [v EXCEPT !.timer = t]
    OBVIOUS
  <2>3. /\ u \in SessionType /\ Calm(v, u) /\ u.timer = t /\ u.write = v.write
        /\ u.state = v.state
    BY <1>7, <2>2 DEF SessionType, Calm
  <2>4. y = Edit(f, s, u)
    BY <1>9, <1>12, <2>1, <2>2 DEF Edit
  <2>5. Steps(f, y, s) /\ y.ses[s] = u
    BY <1>9, <1>11, <2>3, <2>4, EditSteps
  <2>6. u.sock = a.sock
    BY <1>7, <2>3 DEF Calm
  <2>7. Busy(u, w)
    BY <1>10, <2>1, <2>3, <2>6, CalmIsBusy
  <2>8. Filled(u)
    BY <1>7, <1>12, <2>3 DEF Filled
  <2> QED BY <1>9, <2>5, <2>7, <2>8, StepsOn
<1>13. ASSUME NEW code \in Outs, code # None, NEW z, z = Refuse(f, s, code)
       PROVE  Steps(f, z, s) /\ Busy(z.ses[s], w) /\ Filled(z.ses[s])
  <2>1. PICK u : u = [v EXCEPT !.state = "send_and_quit", !.out = code]
    OBVIOUS
  <2>2. /\ u \in SessionType /\ Calm(v, u) /\ u.timer = v.timer /\ u.write = v.write
        /\ u.state = "send_and_quit" /\ u.out = code
    BY <1>7, <1>13, <2>1 DEF SessionType, States, Calm
  <2>3. z = Edit(f, s, u)
    BY <1>9, <1>11, <1>13, <2>1, RefusedEdit
  <2>4. Steps(f, z, s) /\ z.ses[s] = u
    BY <1>9, <1>11, <2>2, <2>3, EditSteps
  <2>5. Busy(u, w)
    BY <1>10, <2>2, CalmIsBusy
  <2>6. Filled(u)
    BY <1>13, <2>2 DEF Filled
  <2> QED BY <2>4, <2>5, <2>6
<1>14. CASE y = End(f, s) /\ KindOf(a.sock) = "user"
  <2>1. PICK u : u = [v EXCEPT !.state = "send_and_quit"]
    OBVIOUS
  <2>2. /\ u \in SessionType /\ Calm(v, u) /\ u.timer = v.timer /\ u.write = v.write
    BY <1>7, <2>1 DEF SessionType, States, Calm
  <2>3. y = Edit(f, s, u)
    BY <1>9, <1>14, <2>1 DEF Edit, End
  <2>4. Steps(f, y, s) /\ y.ses[s] = u
    BY <1>9, <1>11, <2>2, <2>3, EditSteps
  <2>5. Busy(u, w)
    BY <1>10, <2>2, CalmIsBusy
  <2>6. u.sock = a.sock
    BY <1>7, <2>2 DEF Calm
  <2>7. Filled(u)
    BY <1>14, <2>6 DEF Filled, Asked
  <2> QED BY <1>9, <2>4, <2>5, <2>7, StepsOn
<1>15. 413 \in Outs /\ 413 # None /\ "text" \in Outs /\ "text" # None
  BY Values, Nones, StreamAssumption DEF Outs
<1>16. CASE y = Refuse(f, s, 413) \/ y = Refuse(f, s, "text")
  <2>1. Steps(f, y, s) /\ Busy(y.ses[s], w) /\ Filled(y.ses[s])
    BY <1>13, <1>15, <1>16
  <2> QED BY <1>9, <2>1, StepsOn
<1>17. CASE a.state = "active" /\ ev.read \notin {"none", "error", "eof"}
  <2>1. \/ y = [f EXCEPT !.ses[s].timer = session_timeout(a.sock)]
        \/ y = End(f, s) /\ KindOf(a.sock) = "user"
        \/ y = Refuse(f, s, 413) \/ y = Refuse(f, s, "text")
    BY <1>17 DEF Read, f, End, Refuse, create_error, Put
  <2> QED BY <1>12, <1>14, <1>16, <1>17, <2>1
<1> QED BY <1>2, <1>5, <1>17

\* What commands leave of a session that is served.
LEMMA KeepsBusy ==
  ASSUME NEW x, NEW y, NEW s, Keeps(x, y, s), NEW w, Busy(x.ses[s], w),
         KindOf(x.ses[s].sock) = "telnet"
  PROVE  Busy(y.ses[s], w) /\ KindOf(y.ses[s].sock) = "telnet"
<1> DEFINE a == x.ses[s]
           b == y.ses[s]
<1>1. Like(a, b)
  BY DEF Keeps
<1>2. b.sock = a.sock
  BY <1>1 DEF Like
<1>3. Fit(b)
  <2>1. b.wait => a.wait
    BY <1>1 DEF Like
  <2> QED BY <1>2, <2>1 DEF Fit, Busy
<1>4. Timed(b)
  <2>1. b.timer = a.timer /\ (b.timeout => a.timeout)
    BY <1>1 DEF Like
  <2> QED BY <1>2, <2>1 DEF Timed, Busy
<1>5. w # "none" => b.write
  BY <1>1 DEF Like, Busy
<1> QED BY <1>2, <1>3, <1>4, <1>5 DEF Busy

\* The telnet application reads its input.
LEMMA TelnetReceives ==
  ASSUME NEW x, NEW s \in Slots, Good(x, s), KindOf(x.ses[s].sock) = "telnet",
         NEW w, Busy(x.ses[s], w), NEW refused,
         NEW y, y = cb_telnet_receive_data(x, s, refused)
  PROVE  Good(y, s) /\ Within(x, y, s) /\ Busy(y.ses[s], w) /\ Heard(y.ses[s])
<1>1. PICK r : r = ReceiveLines(x, s, refused)
  OBVIOUS
<1>2. PICK z : z = r.st
  OBVIOUS
<1>3. Good(z, s) /\ Keeps(x, z, s)
  BY <1>1, <1>2, ReceiveLinesGood DEF Turns
<1>4. PICK a : a = z.ses[s]
  OBVIOUS
<1>5. a \in SessionType /\ Busy(a, w) /\ KindOf(a.sock) = "telnet" /\ Within(x, z, s)
  BY <1>3, <1>4, KeepsBusy, KeepsWithin DEF Good
<1>6. CASE r.quit
  <2>1. PICK v : v = [a EXCEPT !.state = "send_and_quit"]
    OBVIOUS
  <2>2. v \in SessionType /\ Calm(a, v) /\ v.write = a.write /\ v.timer = a.timer
    BY <1>5, <2>1 DEF SessionType, States, Calm
  <2>3. y = Edit(z, s, v)
    BY <1>1, <1>2, <1>4, <1>6, <2>1 DEF cb_telnet_receive_data, Edit
  <2>4. Steps(z, y, s) /\ y.ses[s] = v
    BY <1>3, <1>4, <2>2, <2>3, EditSteps
  <2>5. Busy(v, w) /\ KindOf(v.sock) = "telnet"
    BY <1>5, <2>2, CalmIsBusy DEF Calm
  <2>6. Heard(v)
    BY <2>5 DEF Heard, Asked
  <2> QED BY <1>5, <2>4, <2>5, <2>6, WithinOn DEF Steps
<1>7. CASE ~ r.quit
  <2>1. PICK o : o = IF r.done /\ a.echo THEN "text" ELSE a.out
    OBVIOUS
  <2>2. o \in Outs
    BY <1>5, <2>1, Values DEF SessionType
  <2>3. PICK v : v = [a EXCEPT !.timer = a.timeout, !.out = o]
    OBVIOUS
  <2>4. v \in SessionType /\ Calm(a, v) /\ v.write = a.write /\ v.timer = a.timeout
    BY <1>5, <2>2, <2>3 DEF SessionType, Calm
  <2>5. y = Edit(z, s, v)
    <3>1. y = [z EXCEPT !.ses[s] = [a EXCEPT !.timer = a.timeout,
                                             !.out = IF r.done /\ a.echo THEN "text" ELSE a.out]]
      BY <1>1, <1>2, <1>4, <1>7 DEF cb_telnet_receive_data
    <3>2. v = [a EXCEPT !.timer = a.timeout,
                        !.out = IF r.done /\ a.echo THEN "text" ELSE a.out]
      BY <2>1, <2>3
    <3> QED BY <3>1, <3>2 DEF Edit
  <2>6. Steps(z, y, s) /\ y.ses[s] = v
    BY <1>3, <1>4, <2>4, <2>5, EditSteps
  <2>7. Fit(v)
    BY <1>5, <2>4, CalmIsFit DEF Busy
  <2>8. v.timeout = a.timeout /\ v.sock = a.sock
    BY <2>4 DEF Calm
  <2>9. Timed(v)
    BY <1>5, <2>4, <2>8 DEF Timed
  <2>10. w # "none" => v.write
    BY <1>5, <2>4 DEF Busy
  <2>11. Heard(v)
    BY <1>5, <2>8 DEF Heard, Asked
  <2>12. Busy(v, w)
    BY <2>7, <2>9, <2>10 DEF Busy
  <2> QED BY <1>5, <2>6, <2>11, <2>12, WithinOn DEF Steps
<1> QED BY <1>6, <1>7

\* What the http application answers with.
LEMMA CodeTyped ==
  ASSUME NEW x, NEW s, NEW req
  PROVE  ResponseCode(x, s, req) \in Outs /\ ResponseCode(x, s, req) # None
<1>1. ResponseCode(x, s, req) \in {400, 501, 404, 200, 403, 401, 0}
  BY DEF ResponseCode, cb_generate_site, NoCode
<1> QED BY <1>1, StreamAssumption DEF Outs

\* The http application answers a request, or waits for the rest of it.
LEMMA HttpReceives ==
  ASSUME NEW x, NEW s \in Slots, Good(x, s), KindOf(x.ses[s].sock) = "http",
         NEW w, Busy(x.ses[s], w), NEW y, y = cb_http_receive_data(x, s)
  PROVE  Good(y, s) /\ Within(x, y, s) /\ Busy(y.ses[s], w) /\ (y.broken \/ Heard(y.ses[s]))
<1>1. PICK a : a = x.ses[s]
  OBVIOUS
<1>2. a \in SessionType /\ Busy(a, w)
  BY <1>1 DEF Good
<1>3. PICK code : code = ResponseCode(x, s, Request[a.in[1]])
  OBVIOUS
<1>4. code \in Outs /\ code # None
  BY <1>3, CodeTyped
<1>5. CASE y = x /\ (a.cut \/ ~ Asked(a))
  BY <1>1, <1>2, <1>5, WithinSelf DEF Heard
<1>6. CASE y = [x EXCEPT !.ses[s].cut = TRUE]
  <2>1. PICK v : v = [a EXCEPT !.cut = TRUE]
    OBVIOUS
  <2>2. /\ v \in SessionType /\ Calm(a, v) /\ v.write = a.write /\ v.timer = a.timer
        /\ v.cut
    BY <1>2, <2>1 DEF SessionType, Calm
  <2>3. y = Edit(x, s, v)
    BY <1>1, <1>6, <2>1 DEF Edit
  <2>4. Steps(x, y, s) /\ y.ses[s] = v
    BY <1>1, <2>2, <2>3, EditSteps
  <2>5. Busy(v, w) /\ Heard(v)
    BY <1>2, <2>2, CalmIsBusy DEF Heard
  <2> QED BY <2>4, <2>5 DEF Steps
<1>7. CASE y = [x EXCEPT !.broken = TRUE]
  <2>1. y \in Program /\ y.broken
    BY <1>7 DEF Good, Program
  <2>2. y.sock = x.sock /\ y.ses = x.ses /\ y.repeat = x.repeat /\ y.routes = x.routes
    BY <1>7 DEF Good, Program
  <2>3. Good(y, s) /\ Within(x, y, s)
    BY <2>1, <2>2 DEF Good, Owned, Within
  <2> QED BY <2>1, <2>2, <2>3
<1>8. CASE y = create_http_response(x, s, code)
  <2>1. PICK v : v = [a EXCEPT !.out = code, !.state = "send_and_quit"]
    OBVIOUS
  <2>2. /\ v \in SessionType /\ Calm(a, v) /\ v.write = a.write /\ v.timer = a.timer
        /\ v.state = "send_and_quit" /\ v.out = code
    BY <1>2, <1>4, <2>1 DEF SessionType, States, Calm
  <2>3. y = Edit(x, s, v)
    BY <1>1, <1>8, <2>1 DEF create_http_response, Edit
  <2>4. Steps(x, y, s) /\ y.ses[s] = v
    BY <1>1, <2>2, <2>3, EditSteps
  <2>5. Busy(v, w) /\ Heard(v)
    BY <1>2, <1>4, <2>2, CalmIsBusy DEF Heard
  <2> QED BY <2>4, <2>5 DEF Steps
<1> QED BY <1>1, <1>3, <1>5, <1>6, <1>7, <1>8 DEF cb_http_receive_data, HeaderEnds, Asked

\* Session s of the outgoing socket, served.
UserBusy(x, s, w) ==
  Good(x, s) /\ Busy(x.ses[s], w) /\ KindOf(x.ses[s].sock) = "user"

\* What its owner may do to it.
LEMMA UserEdited ==
  ASSUME NEW x, NEW s \in Slots, NEW w, UserBusy(x, s, w), NEW v \in SessionType,
         Calm(x.ses[s], v), v.write = x.ses[s].write, v.timer = x.ses[s].timer,
         NEW y, y = Edit(x, s, v)
  PROVE  UserBusy(y, s, w) /\ Within(x, y, s) /\ y.ses[s] = v
<1>1. Steps(x, y, s) /\ y.ses[s] = v
  BY EditSteps DEF UserBusy
<1>2. Busy(v, w)
  BY CalmIsBusy DEF UserBusy
<1>3. KindOf(v.sock) = "user"
  BY DEF UserBusy, Calm
<1> QED BY <1>1, <1>2, <1>3 DEF UserBusy, Steps

\* The owner answers.
LEMMA UserPut ==
  ASSUME NEW x, NEW s \in Slots, NEW w, UserBusy(x, s, w), NEW y, y = Put(x, s)
  PROVE  UserBusy(y, s, w) /\ Within(x, y, s)
<1>1. PICK v : v = [x.ses[s] EXCEPT !.out = "text"]
  OBVIOUS
<1>2. /\ v \in SessionType /\ Calm(x.ses[s], v) /\ v.write = x.ses[s].write
      /\ v.timer = x.ses[s].timer
  BY <1>1, Values DEF UserBusy, Good, SessionType, Calm
<1>3. y = Edit(x, s, v)
  BY <1>1 DEF Put, Edit
<1> QED BY <1>2, <1>3, UserEdited

\* The owner ends the session.
LEMMA UserEnds ==
  ASSUME NEW x, NEW s \in Slots, NEW w, UserBusy(x, s, w), NEW y, y = End(x, s)
  PROVE  UserBusy(y, s, w) /\ Within(x, y, s)
<1>1. PICK v : v = [x.ses[s] EXCEPT !.state = "send_and_quit"]
  OBVIOUS
<1>2. /\ v \in SessionType /\ Calm(x.ses[s], v) /\ v.write = x.ses[s].write
      /\ v.timer = x.ses[s].timer
  BY <1>1 DEF UserBusy, Good, SessionType, States, Calm
<1>3. y = Edit(x, s, v)
  BY <1>1 DEF End, Edit
<1> QED BY <1>2, <1>3, UserEdited

\* The owner closes the session it is called for.
LEMMA UserCloses ==
  ASSUME NEW x, NEW s \in Slots, NEW w, UserBusy(x, s, w),
         NEW y, y = [x EXCEPT !.ses[s].removed = TRUE]
  PROVE  UserBusy(y, s, w) /\ Within(x, y, s)
<1>1. PICK v : v = [x.ses[s] EXCEPT !.removed = TRUE]
  OBVIOUS
<1>2. /\ v \in SessionType /\ Calm(x.ses[s], v) /\ v.write = x.ses[s].write
      /\ v.timer = x.ses[s].timer
  BY <1>1 DEF UserBusy, Good, SessionType, Calm
<1>3. y = Edit(x, s, v)
  BY <1>1 DEF Edit
<1> QED BY <1>2, <1>3, UserEdited

\* The owner removes the socket whose session it is called for.
LEMMA UserRemoves ==
  ASSUME NEW x, NEW s \in Slots, NEW w, UserBusy(x, s, w), NEW k \in Sockets,
         NEW y, y = [x EXCEPT !.sock[k].remove = TRUE]
  PROVE  UserBusy(y, s, w) /\ Within(x, y, s)
<1>1. x \in Program /\ x.sock \in [Sockets -> SocketType]
  BY DEF UserBusy, Good, Program
<1>2. PICK u \in SocketType : u = [x.sock[k] EXCEPT !.remove = TRUE]
  BY <1>1 DEF SocketType
<1>3. u.open = x.sock[k].open /\ u.allowed = x.sock[k].allowed
  BY <1>1, <1>2 DEF SocketType
<1>4. PICK f \in [Sockets -> SocketType] : f = [x.sock EXCEPT ![k] = u]
  BY <1>1
<1>5. PICK z : z = [x EXCEPT !.sock = f]
  OBVIOUS
<1>6. y = z
  BY <1>2, <1>4, <1>5
<1>7. /\ z \in Program /\ z.ses = x.ses /\ z.repeat = x.repeat /\ z.routes = x.routes
      /\ z.broken = x.broken /\ z.sock = f
  BY <1>1, <1>5 DEF Program
<1>8. \A q \in Sockets : z.sock[q].open = x.sock[q].open /\ z.sock[q].allowed = x.sock[q].allowed
  BY <1>1, <1>3, <1>4, <1>7
<1>9. Within(x, z, s)
  BY <1>7, <1>8 DEF Within
<1>10. Good(z, s)
  BY <1>7 DEF UserBusy, Good, Owned
<1> QED BY <1>6, <1>7, <1>9, <1>10 DEF UserBusy

\* UserReceives, whatever the owner does.
LEMMA UserReceivesGood ==
  ASSUME NEW x, NEW s \in Slots, NEW w, UserBusy(x, s, w),
         NEW choice \in {"answer", "quit", "close", "remove"},
         NEW y, y = UserReceives(x, s, choice)
  PROVE  UserBusy(y, s, w) /\ Within(x, y, s)
<1>1. PICK v : v = [x.ses[s] EXCEPT !.in = <<>>]
  OBVIOUS
<1>2. /\ v \in SessionType /\ Calm(x.ses[s], v) /\ v.write = x.ses[s].write
      /\ v.timer = x.ses[s].timer
  BY <1>1, EmptySeq DEF UserBusy, Good, SessionType, Calm
<1>3. PICK z : z = Edit(x, s, v)
  OBVIOUS
<1>4. z = [x EXCEPT !.ses[s].in = <<>>]
  BY <1>1, <1>3 DEF Edit
<1>5. UserBusy(z, s, w) /\ Within(x, z, s)
  BY <1>2, <1>3, UserEdited
<1>6. x.ses[s].sock \in Sockets
  BY DEF UserBusy, Good, SessionType
<1>7. PICK p : p = Put(z, s)
  OBVIOUS
<1>8. UserBusy(p, s, w) /\ Within(z, p, s)
  BY <1>5, <1>7, UserPut
<1>9. \/ y = p \/ y = End(p, s) \/ y = [z EXCEPT !.ses[s].removed = TRUE]
      \/ y = [z EXCEPT !.sock[x.ses[s].sock].remove = TRUE]
  BY <1>4, <1>7 DEF UserReceives, End
<1>10. UserBusy(y, s, w) /\ (Within(z, y, s) \/ Within(p, y, s))
  <2>1. CASE y = p
    BY <1>8, <2>1
  <2>2. CASE y = End(p, s)
    BY <1>8, <2>2, UserEnds
  <2>3. CASE y = [z EXCEPT !.ses[s].removed = TRUE]
    BY <1>5, <2>3, UserCloses
  <2>4. CASE y = [z EXCEPT !.sock[x.ses[s].sock].remove = TRUE]
    BY <1>5, <1>6, <2>4, UserRemoves
  <2> QED BY <1>9, <2>1, <2>2, <2>3, <2>4
<1> QED BY <1>5, <1>8, <1>10, WithinOn

\* What an application leaves of the session.
Hears(x, y, s, w) ==
  Good(y, s) /\ Within(x, y, s) /\ Busy(y.ses[s], w) /\ (y.broken \/ Heard(y.ses[s]))

\* The application of the session, of any kind.
LEMMA ReceiveGood ==
  ASSUME NEW x, NEW s \in Slots, Good(x, s), NEW ev,
         ev.user \in {"answer", "quit", "close", "remove"},
         Busy(x.ses[s], ev.write), Filled(x.ses[s]),
         NEW y, y = Receive(x, s, ev)
  PROVE  Hears(x, y, s, ev.write)
<1>1. PICK a : a = x.ses[s]
  OBVIOUS
<1>2. CASE a.state # "active" \/ a.in = <<>>
  <2>1. y = x
    BY <1>1, <1>2 DEF Receive
  <2>2. a.in = <<>> => ~ Asked(a)
    BY EmptySeq DEF Asked, Tokens
  <2>3. Heard(a)
    BY <1>1, <1>2, <2>2 DEF Filled, Heard
  <2> QED BY <1>1, <2>1, <2>3, WithinSelf DEF Hears
<1>3. CASE a.state = "active" /\ a.in # <<>>
  <2>1. CASE KindOf(a.sock) = "telnet"
    <3>1. y = cb_telnet_receive_data(x, s, ev.refused)
      BY <1>1, <1>3, <2>1 DEF Receive
    <3> QED BY <1>1, <2>1, <3>1, TelnetReceives DEF Hears
  <2>2. CASE KindOf(a.sock) = "http"
    <3>1. y = cb_http_receive_data(x, s)
      BY <1>1, <1>3, <2>2 DEF Receive
    <3> QED BY <1>1, <2>2, <3>1, HttpReceives DEF Hears
  <2>3. CASE KindOf(a.sock) \notin {"telnet", "http"}
    <3>1. KindOf(a.sock) = "user"
      BY <1>1, <2>3 DEF Good, SessionType, Sockets, KindOf
    <3>2. y = UserReceives(x, s, ev.user)
      BY <1>1, <1>3, <2>3 DEF Receive
    <3>3. UserBusy(x, s, ev.write)
      BY <1>1, <3>1 DEF UserBusy
    <3>4. UserBusy(y, s, ev.write) /\ Within(x, y, s)
      BY <3>2, <3>3, UserReceivesGood
    <3>5. Heard(y.ses[s])
      BY <3>4 DEF UserBusy, Heard, Asked
    <3> QED BY <3>4, <3>5 DEF UserBusy, Hears
  <2> QED BY <2>1, <2>2, <2>3
<1> QED BY <1>2, <1>3

\* The send.
LEMMA SendGood ==
  ASSUME NEW x, NEW s \in Slots, Good(x, s), NEW ev, Busy(x.ses[s], ev.write),
         x.broken \/ Heard(x.ses[s]), NEW y, y = Send(x, s, ev)
  PROVE  /\ Steps(x, y, s) /\ Fit(y.ses[s]) /\ Timed(y.ses[s]) /\ Sendable(y.ses[s])
         /\ y.broken \/ Told(y.ses[s])
<1>1. PICK a : a = x.ses[s]
  OBVIOUS
<1>2. a \in SessionType /\ Busy(a, ev.write) /\ Fit(a) /\ Timed(a)
  BY <1>1 DEF Good, Busy
<1>3. x.broken \/ Told(a)
  BY <1>1 DEF Told, Heard
<1>4. CASE a.state = "cleanup" \/ a.out = None
  <2>1. y = x
    BY <1>1, <1>4 DEF Send
  <2>2. Sendable(a)
    BY <1>4 DEF Sendable
  <2> QED BY <1>1, <1>2, <1>3, <2>1, <2>2, StepsSelf
<1>5. CASE a.state # "cleanup" /\ a.out # None /\ ev.write = "none"
  <2>1. PICK v : v = [a EXCEPT !.write = TRUE]
    OBVIOUS
  <2>2. /\ v \in SessionType /\ Calm(a, v) /\ v.timer = a.timer /\ v.in = a.in
        /\ v.state = a.state /\ v.cut = a.cut /\ v.write
    BY <1>2, <2>1 DEF SessionType, Calm
  <2>3. y = Edit(x, s, v)
    BY <1>1, <1>5, <2>1 DEF Send, Edit
  <2>4. Steps(x, y, s) /\ y.ses[s] = v
    BY <1>1, <2>2, <2>3, EditSteps
  <2>5. Fit(v) /\ Timed(v) /\ Sendable(v)
    BY <1>2, <2>2, CalmIsFit, CalmIsTimed DEF Sendable
  <2>6. v.sock = a.sock
    BY <2>2 DEF Calm
  <2>7. x.broken \/ Told(v)
    BY <1>3, <2>2, <2>6, SameAsked DEF Told
  <2> QED BY <2>4, <2>5, <2>7 DEF Steps
<1>6. CASE a.state # "cleanup" /\ a.out # None /\ ev.write = "error"
  <2>1. PICK v : v = [a EXCEPT !.state = "cleanup"]
    OBVIOUS
  <2>2. /\ v \in SessionType /\ Calm(a, v) /\ v.timer = a.timer /\ v.state = "cleanup"
    BY <1>2, <2>1 DEF SessionType, States, Calm
  <2>3. y = Edit(x, s, v)
    BY <1>1, <1>6, <2>1 DEF Send, Edit
  <2>4. Steps(x, y, s) /\ y.ses[s] = v
    BY <1>1, <2>2, <2>3, EditSteps
  <2>5. Fit(v) /\ Timed(v) /\ Sendable(v) /\ Told(v)
    BY <1>2, <2>2, CalmIsFit, CalmIsTimed DEF Sendable, Told
  <2> QED BY <2>4, <2>5
<1>7. CASE a.state # "cleanup" /\ a.out # None /\ ev.write \notin {"none", "error"}
  <2>1. PICK t \in BOOLEAN : t = session_timeout(a.sock)
    BY TimeoutTyped
  <2>2. PICK o : o = IF ev.write = "all" THEN None ELSE a.out
    OBVIOUS
  <2>3. o \in Outs
    BY <1>2, <2>2, Values DEF SessionType
  <2>4. PICK v : v = [a EXCEPT !.timer = t, !.out = o]
    OBVIOUS
  <2>5. /\ v \in SessionType /\ Calm(a, v) /\ v.timer = t /\ v.in = a.in
        /\ v.state = a.state /\ v.cut = a.cut /\ v.write = a.write
    BY <1>2, <2>3, <2>4 DEF SessionType, Calm
  <2>6. y = Edit(x, s, v)
    <3>1. y = [x EXCEPT !.ses[s] = [a EXCEPT !.timer = session_timeout(a.sock),
                                             !.out = IF ev.write = "all" THEN None ELSE a.out]]
      BY <1>1, <1>7 DEF Send
    <3> QED BY <2>1, <2>2, <2>4, <3>1 DEF Edit
  <2>7. Steps(x, y, s) /\ y.ses[s] = v
    BY <1>1, <2>5, <2>6, EditSteps
  <2>8. v.sock = a.sock
    BY <2>5 DEF Calm
  <2>9. Fit(v) /\ Timed(v)
    BY <1>2, <2>1, <2>5, <2>8, CalmIsFit, CalmIsTimed
  <2>10. v.write
    BY <1>2, <1>7, <2>5 DEF Busy
  <2>11. x.broken \/ Told(v)
    BY <1>3, <2>5, <2>8, SameAsked DEF Told
  <2> QED BY <2>7, <2>9, <2>10, <2>11 DEF Steps, Sendable
<1> QED BY <1>4, <1>5, <1>6, <1>7

\* A session with nothing left to send has ended if it was to.
LEMMA IdleGood ==
  ASSUME NEW x, NEW s \in Slots, Good(x, s), Fit(x.ses[s]), Timed(x.ses[s]),
         Sendable(x.ses[s]), x.broken \/ Told(x.ses[s]), NEW y, y = Idle(x, s)
  PROVE  Steps(x, y, s) /\ Fit(y.ses[s]) /\ (y.broken \/ Rested(y.ses[s]))
<1>1. PICK a : a = x.ses[s]
  OBVIOUS
<1>2. a \in SessionType /\ Fit(a) /\ Timed(a) /\ Sendable(a) /\ (x.broken \/ Told(a))
  BY <1>1 DEF Good
<1>3. CASE a.out # None
  <2>1. y = x
    BY <1>1, <1>3 DEF Idle
  <2>2. Told(a) => a.state = "cleanup" \/ Answered(a)
    BY <1>3 DEF Told, Asked, Answered
  <2>3. x.broken \/ Rested(a)
    BY <1>2, <2>2 DEF Rested, LiveSession, Sendable
  <2> QED BY <1>1, <1>2, <2>1, <2>3, StepsSelf
<1>4. CASE a.out = None
  <2>1. PICK e : e = IF a.state = "send_and_quit" THEN "cleanup" ELSE a.state
    OBVIOUS
  <2>2. e \in States
    BY <1>2, <2>1 DEF SessionType, States
  <2>3. PICK v : v = [a EXCEPT !.write = FALSE, !.state = e]
    OBVIOUS
  <2>4. /\ v \in SessionType /\ Calm(a, v) /\ v.timer = a.timer /\ v.in = a.in
        /\ v.state = e /\ v.cut = a.cut /\ v.out = None
    BY <1>2, <1>4, <2>2, <2>3 DEF SessionType, Calm
  <2>5. y = Edit(x, s, v)
    <3>1. y = [x EXCEPT !.ses[s] =
                 [a EXCEPT !.write = FALSE,
                           !.state = IF a.state = "send_and_quit" THEN "cleanup" ELSE a.state]]
      BY <1>1, <1>4 DEF Idle
    <3> QED BY <2>1, <2>3, <3>1 DEF Edit
  <2>6. Steps(x, y, s) /\ y.ses[s] = v
    BY <1>1, <2>4, <2>5, EditSteps
  <2>7. Fit(v) /\ Timed(v) /\ v.sock = a.sock
    BY <1>2, <2>4, CalmIsFit, CalmIsTimed DEF Calm
  <2>8. Told(a) => v.state = "cleanup" \/ Answered(v)
    <3>1. Asked(v) <=> Asked(a)
      BY <2>4, <2>7, SameAsked
    <3>2. Told(a) /\ Asked(v) => v.cut \/ v.state = "cleanup"
      BY <2>1, <2>4, <3>1 DEF Told
    <3> QED BY <3>2 DEF Answered, Asked
  <2>9. x.broken \/ Rested(v)
    BY <1>2, <2>4, <2>7, <2>8 DEF Rested, LiveSession
  <2> QED BY <2>6, <2>7, <2>9 DEF Steps
<1> QED BY <1>3, <1>4

\* A connection that was waited for is there, or is not to be.
LEMMA ConnectGood ==
  ASSUME NEW x, NEW s \in Slots, Good(x, s), Fit(x.ses[s]), NEW ev,
         LiveSession(x.ses[s]), ev.write # "none" => x.ses[s].write,
         NEW y, y = Connect(x, s, ev)
  PROVE  /\ Steps(x, y, s) /\ Busy(y.ses[s], ev.write) /\ LiveSession(y.ses[s])
<1>1. PICK a : a = x.ses[s]
  OBVIOUS
<1>2. a \in SessionType /\ Busy(a, ev.write) /\ LiveSession(a)
  BY <1>1 DEF Good, Busy, LiveSession
<1>3. CASE ~ a.wait \/ ev.write = "none"
  <2>1. y = x
    BY <1>1, <1>3 DEF Connect
  <2> QED BY <1>1, <1>2, <2>1, StepsSelf
<1>4. CASE a.wait /\ ev.write # "none"
  <2>0. KindOf(a.sock) = "user"
    BY <1>2, <1>4 DEF Busy, Fit
  <2>1. PICK v : v = IF ev.connect THEN [a EXCEPT !.wait = FALSE] ELSE [a EXCEPT !.state = "cleanup"]
    OBVIOUS
  <2>2. /\ v \in SessionType /\ v.sock = a.sock /\ v.stop = a.stop /\ v.again = a.again
        /\ v.write = a.write /\ v.out = a.out /\ v.rc = a.rc
    BY <1>2, <2>1 DEF SessionType, States
  <2>3. y = Edit(x, s, v)
    BY <1>1, <1>4, <2>1 DEF Connect, Edit
  <2>4. Steps(x, y, s) /\ y.ses[s] = v
    BY <1>1, <2>2, <2>3, SessionEdited DEF Steps
  <2>5. KindOf(v.sock) = "user"
    BY <2>0, <2>2
  <2>6. Fit(v) /\ Timed(v) /\ Answered(v)
    BY <1>2, <2>0, <2>2, <2>5 DEF Busy, Fit, Timed, session_timeout, Answered
  <2>7. ev.write # "none" => v.write
    BY <1>2, <2>2 DEF Busy
  <2>8. v.out # None => v.write
    BY <1>2, <2>2 DEF LiveSession
  <2> QED BY <2>4, <2>6, <2>7, <2>8 DEF Busy, LiveSession
<1> QED BY <1>3, <1>4

\* The other sessions are live.
OthersLive(x, s) == \A r \in Slots \ {s} : x.ses[r] # Closed => LiveSession(x.ses[r])

\* Closing sessions keeps the invariant.
LEMMA LessIsRight ==
  ASSUME NEW x, Right(x), NEW y, Sound(y), Less(x, y)
  PROVE  Right(y)
<1>1. x.broken => y.broken
  BY DEF Less
<1> QED BY <1>1, LessIsLive DEF Right

\* Closing the only session that may wait restores the invariant.
LEMMA CloseRight ==
  ASSUME NEW x, Sound(x), NEW s \in Slots, x.ses[s] # Closed, x.broken \/ OthersLive(x, s),
         NEW y, y = oonf_stream_close(x, s)
  PROVE  Right(y)
<1>1. Sound(y) /\ Closes(x, y, s)
  BY CloseSound
<1>2. x.broken => y.broken
  BY <1>1 DEF Closes
<1>3. OthersLive(x, s) => Live(y)
  BY <1>1 DEF Closes, OthersLive, Live
<1> QED BY <1>1, <1>2, <1>3 DEF Right

\* The end of an event.
LEMMA ServedRight ==
  ASSUME NEW x, Sound(x), NEW s \in Slots, x.ses[s] # Closed,
         x.broken \/ (Rested(x.ses[s]) /\ OthersLive(x, s)),
         NEW sock \in Sockets, NEW y, y = Served(x, s, sock)
  PROVE  Right(y)
<1>1. CASE x.broken
  <2>1. y = x
    BY <1>1 DEF Served
  <2> QED BY <1>1, <2>1 DEF Right
<1>2. CASE ~ x.broken
  <2>1. PICK z : z = IF x.ses[s].state = "cleanup" \/ x.ses[s].removed
                     THEN oonf_stream_close(x, s) ELSE x
    OBVIOUS
  <2>2. Right(z)
    <3>1. CASE x.ses[s].state = "cleanup" \/ x.ses[s].removed
      BY <1>2, <2>1, <3>1, CloseRight
    <3>2. CASE ~ (x.ses[s].state = "cleanup" \/ x.ses[s].removed)
      BY <1>2, <2>1, <3>2 DEF Right, Rested, OthersLive, Live
    <3> QED BY <3>1, <3>2
  <2>3. PICK force \in BOOLEAN : force = FALSE
    OBVIOUS
  <2>4. y = z \/ y = oonf_stream_remove(z, sock, force)
    BY <1>2, <2>1, <2>3 DEF Served
  <2>5. PICK v : v = oonf_stream_remove(z, sock, force)
    OBVIOUS
  <2>6. Sound(v) /\ Less(z, v)
    BY <2>2, <2>5, RemoveSound DEF Right
  <2>7. Right(v)
    BY <2>2, <2>6, LessIsRight
  <2> QED BY <2>2, <2>4, <2>5, <2>7
<1> QED BY <1>1, <1>2

\* What the calls of an event return.
EventOf(x, s, ev) ==
  /\ ev.chunk \in Seq(STRING)
  /\ ev.user \in {"answer", "quit", "close", "remove"}
  /\ ev.write # "none" => x.ses[s].write

\* A step behind changes of the same session.
LEMMA StepsWithin ==
  ASSUME NEW x, NEW y, NEW z, NEW s, Within(x, y, s), Steps(y, z, s)
  PROVE  Within(x, z, s)
BY WithinOn DEF Steps

\* One event of a session.
LEMMA EventRight ==
  ASSUME NEW x, Sound(x), Live(x), NEW s \in Slots, x.ses[s] # Closed,
         NEW ev, EventOf(x, s, ev), NEW y, y = cb_parse_connection(x, s, ev)
  PROVE  Right(y)
<1> DEFINE w == ev.write
<1>1. Good(x, s) /\ Fit(x.ses[s]) /\ LiveSession(x.ses[s])
  BY SoundIsGood DEF Live
<1>2. PICK c : c = Connect(x, s, ev)
  OBVIOUS
<1>3. Steps(x, c, s) /\ Busy(c.ses[s], w) /\ LiveSession(c.ses[s])
  BY <1>1, <1>2, ConnectGood DEF EventOf
<1>4. \A z : Within(x, z, s) => OthersLive(z, s)
  BY DEF Within, OthersLive, Live
<1>5. CASE c.ses[s].wait
  <2>1. y = c
    BY <1>2, <1>5 DEF cb_parse_connection
  <2>2. Sound(c)
    BY <1>3, WithinSound DEF Steps, Busy
  <2>3. OthersLive(c, s)
    BY <1>3, <1>4 DEF Steps
  <2> QED BY <1>3, <2>1, <2>2, <2>3 DEF Right, Live, OthersLive
<1>6. CASE ~ c.ses[s].wait
  <2>1. PICK r : r = Read(c, s, ev)
    OBVIOUS
  <2>2. Steps(c, r, s) /\ Busy(r.ses[s], w) /\ Filled(r.ses[s])
    BY <1>3, <2>1, ReadSteps DEF Steps, EventOf, LiveSession
  <2>3. PICK h : h = Receive(r, s, ev)
    OBVIOUS
  <2>4. Hears(r, h, s, w)
    BY <2>2, <2>3, ReceiveGood DEF Steps, EventOf
  <2>5. PICK n : n = Send(h, s, ev)
    OBVIOUS
  <2>6. /\ Steps(h, n, s) /\ Fit(n.ses[s]) /\ Timed(n.ses[s]) /\ Sendable(n.ses[s])
        /\ n.broken \/ Told(n.ses[s])
    BY <2>4, <2>5, SendGood DEF Hears
  <2>7. PICK i : i = Idle(n, s)
    OBVIOUS
  <2>8. Steps(n, i, s) /\ Fit(i.ses[s]) /\ (i.broken \/ Rested(i.ses[s]))
    BY <2>6, <2>7, IdleGood DEF Steps
  <2>9. y = Served(i, s, c.ses[s].sock)
    BY <1>2, <1>6, <2>1, <2>3, <2>5, <2>7 DEF cb_parse_connection
  <2>10. Within(x, i, s) /\ Good(i, s)
    <3>1. Within(x, r, s)
      BY <1>3, <2>2, StepsOn DEF Steps
    <3>2. Within(x, h, s)
      BY <2>4, <3>1, WithinOn DEF Hears
    <3> QED BY <2>6, <2>8, <3>2, StepsWithin DEF Steps
  <2>11. Sound(i) /\ i.ses[s] # Closed
    BY <2>8, <2>10, WithinSound
  <2>12. c.ses[s].sock \in Sockets
    BY <1>3 DEF Steps, Good, SessionType
  <2>13. i.broken \/ (Rested(i.ses[s]) /\ OthersLive(i, s))
    BY <1>4, <2>8, <2>10
  <2> QED BY <2>9, <2>11, <2>12, <2>13, ServedRight
<1> QED BY <1>5, <1>6

-----------------------------------------------------------------------------
(* The other steps *)

\* Nothing but the plugin, the sites and the verdict on the program changes.
LEMMA SameRight ==
  ASSUME NEW x, Right(x), NEW y, y \in Program, y.ses = x.ses, y.sock = x.sock,
         y.repeat = x.repeat, y.routes = x.routes, x.broken => y.broken
  PROVE  Right(y)
<1>1. Sound(y)
  <2>1. \A s \in Slots : IF y.ses[s] = Closed THEN s \notin y.repeat /\ s \notin y.routes
                         ELSE Owned(y, s) /\ Fit(y.ses[s])
    BY DEF Right, Sound, Owned
  <2>2. \A k \in Sockets : SessionsOf(y, k) = SessionsOf(x, k)
    BY DEF SessionsOf
  <2>3. \A k \in Sockets : Places(y, k)
    BY <2>2 DEF Right, Sound, Places
  <2> QED BY <2>1, <2>3 DEF Sound
<1>2. Live(x) => Live(y)
  BY DEF Live
<1> QED BY <1>1, <1>2 DEF Right

\* A program that goes wrong stays sound.
LEMMA BrokenRight ==
  ASSUME NEW x, Right(x), NEW y, y = [x EXCEPT !.broken = TRUE]
  PROVE  Right(y)
<1>1. x \in Program
  BY DEF Right, Sound
<1>2. y \in Program /\ y.broken
  BY <1>1 DEF Program
<1>3. y.ses = x.ses /\ y.sock = x.sock /\ y.repeat = x.repeat /\ y.routes = x.routes
  BY <1>1 DEF Program
<1> QED BY <1>2, <1>3, SameRight

\* What a command may do to a telnet session outside of its events.
LEMMA TelnetRight ==
  ASSUME NEW x, Right(x), NEW s \in Slots, x.ses[s] # Closed,
         KindOf(x.ses[s].sock) = "telnet", NEW y, Good(y, s), Keeps(x, y, s),
         y.broken \/ y.ses[s].write
  PROVE  /\ Right(y)
         /\ \A r \in Slots : x.ses[r] # Closed => y.ses[r] # Closed /\ y.ses[r].sock = x.ses[r].sock
<1>1. Sound(x) /\ Fit(x.ses[s])
  BY SoundIsGood DEF Right
<1>2. Within(x, y, s)
  BY KeepsWithin
<1>3. Fit(y.ses[s]) /\ KindOf(y.ses[s].sock) = "telnet"
  <2>1. y.ses[s].sock = x.ses[s].sock /\ (y.ses[s].wait => x.ses[s].wait)
    BY DEF Keeps, Like
  <2> QED BY <1>1, <2>1 DEF Fit
<1>4. Sound(y) /\ y.ses[s] # Closed
  BY <1>1, <1>2, <1>3, WithinSound
<1>5. x.broken => y.broken
  BY <1>2 DEF Within
<1>6. CASE ~ y.broken
  <2>1. Live(x)
    BY <1>5, <1>6 DEF Right
  <2>2. Timed(y.ses[s])
    <3>1. /\ y.ses[s].sock = x.ses[s].sock /\ y.ses[s].timer = x.ses[s].timer
          /\ y.ses[s].timeout => x.ses[s].timeout
      BY DEF Keeps, Like
    <3>2. Timed(x.ses[s])
      BY <2>1 DEF Live, LiveSession
    <3> QED BY <3>1, <3>2 DEF Timed
  <2>3. Answered(y.ses[s])
    BY <1>3 DEF Answered
  <2>4. LiveSession(y.ses[s])
    BY <1>6, <2>2, <2>3 DEF LiveSession
  <2> QED BY <1>2, <1>4, <2>1, <2>4 DEF Right, Live, Within
<1>7. Right(y)
  BY <1>4, <1>6 DEF Right
<1> QED BY <1>2, <1>4, <1>7 DEF Within

\* oonf_telnet_stop outside of the session's events; no session ends by it.
LEMMA StopRight ==
  ASSUME NEW x, Right(x), NEW s \in Slots, x.ses[s] # Closed,
         KindOf(x.ses[s].sock) = "telnet", NEW y, y = oonf_telnet_stop(x, s)
  PROVE  /\ Right(y)
         /\ \A r \in Slots : x.ses[r] # Closed => y.ses[r] # Closed /\ y.ses[r].sock = x.ses[r].sock
<1>1. Good(x, s)
  BY SoundIsGood DEF Right
<1>2. Good(y, s) /\ Keeps(x, y, s) /\ y.ses[s].write
  BY <1>1, TelnetStopGood
<1> QED BY <1>2, TelnetRight

\* Whose routing request it is.
LEMMA RouteOwner ==
  ASSUME NEW x, Sound(x), NEW s \in x.routes
  PROVE  s \in Slots /\ x.ses[s] # Closed /\ KindOf(x.ses[s].sock) = "telnet" /\ Good(x, s)
<1>1. s \in Slots
  BY DEF Sound, Program
<1>2. x.ses[s] # Closed /\ x.ses[s].stop = "route"
  BY <1>1 DEF Sound, Owned
<1>3. KindOf(x.ses[s].sock) = "telnet"
  BY <1>1, <1>2, SoundIsGood, Nones DEF Fit
<1> QED BY <1>1, <1>2, <1>3, SoundIsGood

\* The kernel answers a routing request that has left the list.
LEMMA RouteFinishedRight ==
  ASSUME NEW x, Right(x), NEW s \in x.routes, NEW z, z = [x EXCEPT !.routes = x.routes \ {s}],
         NEW y, y = oonf_telnet_stop(z, s)
  PROVE  Right(y)
<1>1. s \in Slots /\ x.ses[s] # Closed /\ KindOf(x.ses[s].sock) = "telnet" /\ Good(x, s)
  BY RouteOwner DEF Right
<1>2. /\ z \in Program /\ z.ses = x.ses /\ z.sock = x.sock /\ z.repeat = x.repeat
      /\ z.routes = x.routes \ {s} /\ z.broken = x.broken /\ z.sites = x.sites
  BY <1>1 DEF Good, Program
<1>3. Good(z, s) /\ Keeps(x, z, s)
  BY <1>1, <1>2 DEF Good, Owned, Keeps, Like
<1>4. Good(y, s) /\ Keeps(z, y, s) /\ y.ses[s].write
  BY <1>1, <1>3, TelnetStopGood
<1>5. Keeps(x, y, s)
  BY <1>3, <1>4, KeepsOn
<1> QED BY <1>1, <1>4, <1>5, TelnetRight

\* The kernel reports one route.
LEMMA RouteGetRight ==
  ASSUME NEW x, Right(x), NEW s \in x.routes, NEW y, y = oonf_stream_flush(Put(x, s), s)
  PROVE  Right(y)
<1>1. s \in Slots /\ x.ses[s] # Closed /\ KindOf(x.ses[s].sock) = "telnet" /\ Good(x, s)
  BY RouteOwner DEF Right
<1>2. PICK z : z = Put(x, s)
  OBVIOUS
<1>3. Good(z, s) /\ Keeps(x, z, s)
  BY <1>1, <1>2, PutGood
<1>4. Good(y, s) /\ Keeps(z, y, s) /\ y.ses[s].write
  BY <1>1, <1>2, <1>3, FlushGood
<1>5. Keeps(x, y, s)
  BY <1>3, <1>4, KeepsOn
<1> QED BY <1>1, <1>4, <1>5, TelnetRight

\* The repeat timer of an open session fires.
LEMMA RepeatTimerRight ==
  ASSUME NEW x, Right(x), NEW s \in Slots, x.ses[s] # Closed, NEW refused,
         NEW y, y = cb_telnet_repeat_timer(x, s, refused)
  PROVE  Right(y)
<1>1. Good(x, s) /\ Fit(x.ses[s])
  BY SoundIsGood DEF Right
<1>2. CASE x.ses[s].again = None
  <2>1. y = [x EXCEPT !.broken = TRUE]
    BY <1>2 DEF cb_telnet_repeat_timer
  <2> QED BY <2>1, BrokenRight
<1>3. CASE x.ses[s].again # None
  <2>1. KindOf(x.ses[s].sock) = "telnet"
    BY <1>1, <1>3 DEF Fit
  <2>2. Good(y, s) /\ Keeps(x, y, s) /\ (y.broken \/ y.ses[s].write)
    BY <1>1, RepeatTimerGood
  <2> QED BY <2>1, <2>2, TelnetRight
<1> QED BY <1>2, <1>3

\* The owner of the outgoing socket sends.
LEMMA UserSendsRight ==
  ASSUME NEW x, Right(x), NEW s \in Slots, x.ses[s] # Closed,
         KindOf(x.ses[s].sock) = "user", ~ x.broken,
         NEW y, y = oonf_stream_flush(Put(x, s), s)
  PROVE  Right(y)
<1>1. Sound(x) /\ Live(x) /\ Good(x, s) /\ Fit(x.ses[s]) /\ LiveSession(x.ses[s])
  BY SoundIsGood DEF Right, Live
<1>2. UserBusy(x, s, "none")
  BY <1>1 DEF UserBusy, Busy, LiveSession
<1>3. PICK z : z = Put(x, s)
  OBVIOUS
<1>4. UserBusy(z, s, "none") /\ Within(x, z, s)
  BY <1>2, <1>3, UserPut
<1>5. PICK a : a = z.ses[s]
  OBVIOUS
<1>6. a \in SessionType /\ Fit(a) /\ Timed(a) /\ KindOf(a.sock) = "user" /\ Good(z, s)
  BY <1>4, <1>5 DEF UserBusy, Busy, Good
<1>7. PICK v : v = [a EXCEPT !.write = TRUE]
  OBVIOUS
<1>8. v \in SessionType /\ Calm(a, v) /\ v.timer = a.timer /\ v.write
  BY <1>6, <1>7 DEF SessionType, Calm
<1>9. y = Edit(z, s, v)
  BY <1>3, <1>5, <1>7 DEF oonf_stream_flush, Edit
<1>10. Steps(z, y, s) /\ y.ses[s] = v
  BY <1>5, <1>6, <1>8, <1>9, EditSteps
<1>11. Fit(v) /\ Timed(v) /\ KindOf(v.sock) = "user"
  BY <1>6, <1>8, CalmIsFit, CalmIsTimed DEF Calm
<1>12. LiveSession(v)
  BY <1>8, <1>11 DEF LiveSession, Answered
<1>13. Within(x, y, s) /\ Good(y, s)
  BY <1>4, <1>10, StepsWithin DEF Steps
<1>14. Sound(y)
  BY <1>1, <1>10, <1>11, <1>13, WithinSound
<1>15. Live(y)
  BY <1>1, <1>10, <1>12, <1>13 DEF Live, Within
<1> QED BY <1>14, <1>15 DEF Right

\* Programs in which all of these telnet sessions are open.
Serving(S) ==
  {z \in Program : Right(z) /\ \A r \in S : z.ses[r] # Closed /\ KindOf(z.ses[r].sock) = "telnet"}

\* One more of the sessions is stopped.
LEMMA StopServing ==
  ASSUME NEW S \in SUBSET Slots, NEW x \in Serving(S), NEW s \in S, NEW y, y = oonf_telnet_stop(x, s)
  PROVE  y \in Serving(S)
<1>1. Right(x) /\ x.ses[s] # Closed /\ KindOf(x.ses[s].sock) = "telnet" /\ s \in Slots
  BY DEF Serving
<1>2. /\ Right(y)
      /\ \A r \in Slots : x.ses[r] # Closed => y.ses[r] # Closed /\ y.ses[r].sock = x.ses[r].sock
  BY <1>1, StopRight
<1> QED BY <1>2 DEF Serving, Right, Sound

\* The plugin goes: the sessions it knows are stopped, one after the other.
LEMMA UnloadRight ==
  ASSUME NEW x, NEW S \in SUBSET Slots, x \in Serving(S), NEW y, y = remotecontrol_cleanup(x, S)
  PROVE  Right(y)
<1> DEFINE order == SetToSeq(S)
           n == Len(order)
           R == [k \in 0..n |-> Serving(S)]
           F == [k \in 1..n |-> [z \in Serving(S) |-> oonf_telnet_stop(z, order[k])]]
           Is(f) == f = [k \in 0..n |-> IF k = 0 THEN x ELSE oonf_telnet_stop(f[k - 1], order[k])]
           left == CHOOSE f : Is(f)
<1>1. y = [left[n] EXCEPT !.plugin = FALSE]
  BY DEF remotecontrol_cleanup
<1>2. IsFiniteSet(S)
  BY StreamAssumption, FS_Subset
<1>3. order \in Seq(S) /\ n \in Nat
  BY <1>2, ListOfSet
<1> HIDE DEF order
<1>4. \A k \in 1..n : order[k] \in S
  BY <1>3, ElementOfSeq
<1> HIDE DEF left, n
<1>5. \A k \in 1..n : k - 1 \in 0..n /\ k \in 0..n /\ k # 0
  BY <1>3
<1>6. \A k \in 0..n : R[k] = Serving(S)
  OBVIOUS
<1>7. 0 \in 0..n /\ n \in 0..n
  BY <1>3
<1>8. ASSUME NEW k \in 1..n, NEW z \in Serving(S)
      PROVE  oonf_telnet_stop(z, order[k]) \in Serving(S)
  <2>1. PICK v : v = oonf_telnet_stop(z, order[k])
    OBVIOUS
  <2>2. v \in Serving(S)
    BY <1>4, <2>1, StopServing
  <2> QED BY <2>1, <2>2
<1>9. PICK g : IsWalk(g, R, x, n, F)
  <2>1. \A k \in 1..n : F[k] \in [Serving(S) -> Serving(S)]
    BY <1>8
  <2>2. \A k \in 1..n : F[k] \in [R[k - 1] -> R[k]]
    BY <1>5, <1>6, <2>1
  <2>3. x \in R[0]
    BY <1>6, <1>7
  <2> HIDE DEF F, R
  <2> QED BY <1>3, <2>2, <2>3, WalkThrough
<1>10. \A k \in 1..n : g[k] = oonf_telnet_stop(g[k - 1], order[k])
  BY <1>5, <1>6, <1>9 DEF IsWalk
<1>11. Is(g)
  <2>1. \A k \in 0..n : k = 0 \/ k \in 1..n
    BY <1>3
  <2> HIDE DEF F, R
  <2> QED BY <1>9, <1>10, <2>1 DEF IsWalk
<1>12. Is(left)
  BY <1>11 DEF left
<1>13. left[0] = x /\ \A k \in 1..n : left[k] = oonf_telnet_stop(left[k - 1], order[k])
  <2>1. \A k \in 0..n : left[k] = IF k = 0 THEN x ELSE oonf_telnet_stop(left[k - 1], order[k])
    BY <1>12
  <2> QED BY <1>5, <1>7, <2>1
<1>14. \A k \in 0..n : left[k] \in Serving(S)
  <2>1. left[0] \in Serving(S)
    BY <1>13
  <2>2. \A k \in 1..n : left[k - 1] \in Serving(S) => left[k] \in Serving(S)
    BY <1>8, <1>13
  <2> HIDE DEF Is, F, R
  <2> QED BY <1>3, <2>1, <2>2, StaysIn
<1>15. PICK z : z = left[n]
  OBVIOUS
<1>16. Right(z) /\ z \in Program
  BY <1>7, <1>14, <1>15 DEF Serving
<1>17. /\ y \in Program /\ y.ses = z.ses /\ y.sock = z.sock /\ y.repeat = z.repeat
       /\ y.routes = z.routes /\ y.broken = z.broken
  BY <1>1, <1>15, <1>16 DEF Program
<1>18. PICK b \in BOOLEAN, c \in BOOLEAN : b = z.broken /\ c = y.broken
  BY <1>16, <1>17 DEF Program
<1> QED BY <1>16, <1>17, <1>18, SameRight

\* Plugins register and remove their sites.
LEMMA SitesRight ==
  ASSUME NEW x, Right(x), NEW p \in Paths,
         NEW y, y = oonf_http_add(x, p) \/ y = oonf_http_remove(x, p)
  PROVE  Right(y)
<1>1. x \in Program
  BY DEF Right, Sound
<1>2. PICK S \in SUBSET Paths : y = [x EXCEPT !.sites = S]
  BY <1>1 DEF Program, oonf_http_add, oonf_http_remove
<1>3. PICK z : z = [x EXCEPT !.sites = S]
  OBVIOUS
<1>4. /\ z \in Program /\ z.ses = x.ses /\ z.sock = x.sock /\ z.repeat = x.repeat
      /\ z.routes = x.routes /\ (x.broken => z.broken)
  BY <1>1, <1>3 DEF Program
<1> QED BY <1>2, <1>3, <1>4, SameRight

-----------------------------------------------------------------------------
(* The invariant holds initially and is kept by every step *)

\* Nothing is open at the start.
LEMMA StreamInitInv == StreamInit => StreamInv
<1> SUFFICES ASSUME StreamInit PROVE StreamInv
  OBVIOUS
<1>1. PICK f : f = [k \in Sockets |-> ClosedSocket]
  OBVIOUS
<1>2. PICK g : g = [s \in Slots |-> Closed]
  OBVIOUS
<1>3. st = [sock |-> f, ses |-> g, repeat |-> {}, lost |-> {}, routes |-> {}, plugin |-> TRUE,
            sites |-> {}, broken |-> FALSE]
  BY <1>1, <1>2 DEF StreamInit
<1>4. f \in [Sockets -> SocketType] /\ g \in [Slots -> SessionType \union {Closed}]
  BY <1>1, <1>2 DEF ClosedSocket, SocketType
<1>5. st \in Program
  BY <1>3, <1>4 DEF Program
<1>6. /\ \A s \in Slots : st.ses[s] = Closed
      /\ \A k \in Sockets : st.sock[k] = ClosedSocket
      /\ st.repeat = {} /\ st.routes = {}
  BY <1>1, <1>2, <1>3
<1>7. \A k \in Sockets : Places(st, k)
  BY <1>6 DEF Places, SessionsOf, ClosedSocket
<1>8. Sound(st)
  BY <1>5, <1>6, <1>7 DEF Sound
<1>9. Live(st)
  BY <1>6 DEF Live
<1> QED BY <1>8, <1>9 DEF StreamInv, Right

\* A new session never replaces an open one.
LEMMA FreeSlotIsFree ==
  ASSUME HasSlot
  PROVE  FreeSlot \in Slots /\ st.ses[FreeSlot] = Closed
BY DEF HasSlot, FreeSlot, Open

\* Every step of the system keeps the invariant.
LEMMA StreamStepInv == StreamInv /\ [StreamNext]_streamVars => StreamInv'
<1> SUFFICES ASSUME StreamInv, [StreamNext]_streamVars PROVE StreamInv'
  OBVIOUS
<1>1. Right(st) /\ Sound(st)
  BY DEF StreamInv, Right
<1> SUFFICES Right(st')
  BY DEF StreamInv
<1>2. CASE cb_config_changed
  <2>1. PICK k \in {"telnet", "http"}, b \in Bindings, failing \in SUBSET Families :
          st' = oonf_stream_apply_managed(st, k, b, failing)
    BY <1>2 DEF cb_config_changed
  <2>2. Sound(st') /\ Less(st, st')
    BY <1>1, <2>1, ApplySound
  <2> QED BY <1>1, <2>2, LessIsRight
<1>3. CASE ServerCleanup
  <2>1. PICK k \in {"telnet", "http"} : st' = oonf_stream_remove_managed(st, k)
    BY <1>3 DEF ServerCleanup
  <2>2. Sound(st') /\ Less(st, st')
    BY <1>1, <2>1, RemoveManagedSound
  <2> QED BY <1>1, <2>2, LessIsRight
<1>4. ASSUME Alive, HasSlot, NEW sock \in Sockets, st.sock[sock].open, NEW peer \in Peers,
             NEW waiting \in BOOLEAN, waiting => KindOf(sock) = "user",
             st' = create_session(st, FreeSlot, sock, peer, waiting)
      PROVE  Right(st')
  <2>1. Sound(st') /\ (Live(st) => Live(st'))
    BY <1>1, <1>4, FreeSlotIsFree, CreateSound
  <2>2. Live(st)
    BY <1>1, <1>4 DEF Right, Alive
  <2> QED BY <2>1, <2>2 DEF Right
<1>5. CASE cb_parse_request
  <2>1. PICK sock \in Sockets, peer \in Peers :
          /\ Alive /\ HasSlot /\ st.sock[sock].open
          /\ st' = create_session(st, FreeSlot, sock, peer, FALSE)
    BY <1>5 DEF cb_parse_request
  <2>2. PICK waiting \in BOOLEAN : waiting = FALSE
    OBVIOUS
  <2>3. st' = create_session(st, FreeSlot, sock, peer, waiting)
    BY <2>1, <2>2
  <2> QED BY <1>4, <2>1, <2>2, <2>3
<1>6. CASE oonf_stream_connect_to
  <2>1. PICK waiting \in BOOLEAN, peer \in Peers :
          /\ Alive /\ HasSlot /\ st.sock[<<"user", "v4">>].open
          /\ st' = create_session(st, FreeSlot, <<"user", "v4">>, peer, waiting)
    BY <1>6 DEF oonf_stream_connect_to
  <2>2. <<"user", "v4">> \in Sockets /\ KindOf(<<"user", "v4">>) = "user"
    BY DEF Sockets, KindOf
  <2> QED BY <1>4, <2>1, <2>2
<1>7. CASE UserAdd
  <2>1. /\ ~ st.sock[<<"user", "v4">>].open
        /\ st' = oonf_stream_add(st, <<"user", "v4">>, 0, FALSE)
    BY <1>7 DEF UserAdd
  <2>2. <<"user", "v4">> \in Sockets
    BY DEF Sockets
  <2>3. SessionsOf(st, <<"user", "v4">>) = {}
    BY <1>1, <2>1, <2>2 DEF Sound, Places
  <2>4. PICK fails \in BOOLEAN : fails = FALSE
    OBVIOUS
  <2>5. st' = oonf_stream_add(st, <<"user", "v4">>, 0, fails)
    BY <2>1, <2>4
  <2>6. Sound(st') /\ Less(st, st')
    BY <1>1, <2>2, <2>3, <2>5, AddSound
  <2> QED BY <1>1, <2>6, LessIsRight
<1>8. CASE UserSends
  <2>1. PICK s \in Slots : /\ Alive /\ Open(s) /\ KindOf(st.ses[s].sock) = "user"
                           /\ st' = oonf_stream_flush(Put(st, s), s)
    BY <1>8 DEF UserSends
  <2> QED BY <1>1, <2>1, UserSendsRight DEF Alive, Open
<1>9. CASE UserRemove
  <2>1. PICK force \in BOOLEAN : st' = oonf_stream_remove(st, <<"user", "v4">>, force)
    BY <1>9 DEF UserRemove
  <2>2. <<"user", "v4">> \in Sockets
    BY DEF Sockets
  <2>3. Sound(st') /\ Less(st, st')
    BY <1>1, <2>1, <2>2, RemoveSound
  <2> QED BY <1>1, <2>3, LessIsRight
<1>10. CASE SessionEvent
  <2>1. PICK s \in Slots : \E ev : /\ Alive /\ Open(s) /\ EventOf(st, s, ev)
                                   /\ st' = cb_parse_connection(st, s, ev)
    <3> DEFINE kind(s) == KindOf(st.ses[s].sock)
               Read4 == {"none", "error", "eof", "data"}
               Write4 == {"none", "error", "some", "all"}
               User4 == {"answer", "quit", "close", "remove"}
               Event(read, write, chunk, connect, choice, refused) ==
                 [read |-> read, write |-> write, chunk |-> chunk,
                  connect |-> connect, refused |-> refused, user |-> choice]
    <3>1. PICK s \in Slots, read \in Read4 :
            /\ Alive /\ Open(s)
            /\ \E write \in IF st.ses[s].write THEN Write4 ELSE {"none"} :
               \E chunk \in IF read # "data" THEN {<<>>}
                            ELSE {c \in Chunks[kind(s)] : Follows(st.ses[s].in, c)} :
               \E connect \in IF kind(s) = "user" THEN BOOLEAN ELSE {TRUE},
                  choice \in IF kind(s) = "user" THEN User4 ELSE {"answer"},
                  refused \in IF AsksForRoute(chunk) THEN BOOLEAN ELSE {FALSE} :
                 st' = cb_parse_connection(st, s, Event(read, write, chunk, connect, choice, refused))
      BY <1>10 DEF SessionEvent
    <3>2. PICK write \in IF st.ses[s].write THEN Write4 ELSE {"none"} :
          \E chunk \in IF read # "data" THEN {<<>>}
                       ELSE {c \in Chunks[kind(s)] : Follows(st.ses[s].in, c)} :
          \E connect \in IF kind(s) = "user" THEN BOOLEAN ELSE {TRUE},
             choice \in IF kind(s) = "user" THEN User4 ELSE {"answer"},
             refused \in IF AsksForRoute(chunk) THEN BOOLEAN ELSE {FALSE} :
            st' = cb_parse_connection(st, s, Event(read, write, chunk, connect, choice, refused))
      BY <3>1
    <3>3. PICK chunk \in IF read # "data" THEN {<<>>}
                         ELSE {c \in Chunks[kind(s)] : Follows(st.ses[s].in, c)} :
          \E connect \in IF kind(s) = "user" THEN BOOLEAN ELSE {TRUE},
             choice \in IF kind(s) = "user" THEN User4 ELSE {"answer"},
             refused \in IF AsksForRoute(chunk) THEN BOOLEAN ELSE {FALSE} :
            st' = cb_parse_connection(st, s, Event(read, write, chunk, connect, choice, refused))
      BY <3>2
    <3>4. PICK connect \in IF kind(s) = "user" THEN BOOLEAN ELSE {TRUE},
               choice \in IF kind(s) = "user" THEN User4 ELSE {"answer"},
               refused \in IF AsksForRoute(chunk) THEN BOOLEAN ELSE {FALSE} :
            st' = cb_parse_connection(st, s, Event(read, write, chunk, connect, choice, refused))
      BY <3>3
    <3>5. PICK ev : ev = Event(read, write, chunk, connect, choice, refused)
      OBVIOUS
    <3>6. ev.write = write /\ ev.chunk = chunk /\ ev.user = choice
      BY <3>5
    <3>7. chunk \in Seq(STRING)
      <4>1. st.ses[s] \in SessionType
        BY <1>1, <3>1, SoundIsGood DEF Open, Good
      <4>2. kind(s) \in Kinds
        BY <4>1 DEF SessionType, Sockets, KindOf, Kinds
      <4>3. Chunks[kind(s)] \subseteq Seq(STRING)
        BY <4>2, StreamAssumption
      <4> QED BY <3>3, <4>3, EmptySeq
    <3>8. choice \in User4 /\ (write # "none" => st.ses[s].write)
      BY <3>2, <3>4
    <3>9. EventOf(st, s, ev)
      BY <3>6, <3>7, <3>8 DEF EventOf
    <3> HIDE DEF Event
    <3> QED BY <3>1, <3>4, <3>5, <3>9
  <2>2. PICK ev : /\ Alive /\ Open(s) /\ EventOf(st, s, ev)
                  /\ st' = cb_parse_connection(st, s, ev)
    BY <2>1
  <2>3. Live(st)
    BY <1>1, <2>2 DEF Right, Alive
  <2> QED BY <1>1, <2>2, <2>3, EventRight DEF Open
<1>11. CASE cb_timeout_handler
  <2>1. PICK s \in Slots : Alive /\ Open(s) /\ st' = oonf_stream_close(st, s)
    BY <1>11 DEF cb_timeout_handler
  <2>2. OthersLive(st, s)
    BY <1>1, <2>1 DEF Right, Alive, Live, OthersLive
  <2> QED BY <1>1, <2>1, <2>2, CloseRight DEF Open
<1>12. CASE RepeatTimer
  <2>1. PICK s \in st.repeat \union st.lost, refused \in BOOLEAN :
          st' = IF Open(s) THEN cb_telnet_repeat_timer(st, s, refused)
                ELSE [st EXCEPT !.broken = TRUE]
    BY <1>12 DEF RepeatTimer
  <2>2. s \in Slots
    BY <1>1, <2>1 DEF Sound, Program
  <2>3. CASE Open(s)
    BY <1>1, <2>1, <2>2, <2>3, RepeatTimerRight DEF Open
  <2>4. CASE ~ Open(s)
    BY <1>1, <2>1, <2>4, BrokenRight
  <2> QED BY <2>3, <2>4
<1>13. CASE RouteFinished
  <2>1. PICK s \in st.routes : st' = oonf_telnet_stop([st EXCEPT !.routes = st.routes \ {s}], s)
    BY <1>13 DEF RouteFinished
  <2> QED BY <1>1, <2>1, RouteFinishedRight
<1>14. CASE cb_route_get
  <2>1. PICK s \in st.routes : st' = oonf_stream_flush(Put(st, s), s)
    BY <1>14 DEF cb_route_get
  <2> QED BY <1>1, <2>1, RouteGetRight
<1>15. CASE UnloadRemotecontrol
  <2>1. PICK S : S = {s \in Slots : Open(s) /\ st.ses[s].rc}
    OBVIOUS
  <2>2. st' = remotecontrol_cleanup(st, S)
    BY <1>15, <2>1 DEF UnloadRemotecontrol
  <2>3. \A s \in S : st.ses[s] # Closed /\ KindOf(st.ses[s].sock) = "telnet"
    BY <1>1, <2>1, SoundIsGood DEF Open, Fit
  <2>4. st \in Serving(S) /\ S \in SUBSET Slots
    BY <1>1, <2>1, <2>3 DEF Serving, Sound
  <2> QED BY <2>2, <2>4, UnloadRight
<1>16. CASE ChangeSites
  <2>1. PICK p \in Paths : st' = oonf_http_add(st, p) \/ st' = oonf_http_remove(st, p)
    BY <1>16 DEF ChangeSites
  <2> QED BY <1>1, <2>1, SitesRight
<1>17. CASE UNCHANGED streamVars
  BY <1>1, <1>17 DEF streamVars
<1> QED BY <1>2, <1>3, <1>5, <1>6, <1>7, <1>8, <1>9, <1>10, <1>11, <1>12, <1>13, <1>14, <1>15,
           <1>16, <1>17 DEF StreamNext

-----------------------------------------------------------------------------
(* Theorems *)

\* The stream sockets stay sound, and no session waits in vain while the
\* program is not broken.
THEOREM StreamInvariant == StreamSpec => []StreamInv
BY StreamInitInv, StreamStepInv, PTL DEF StreamSpec

\* The invariant counts the places.
LEMMA InvCounts == StreamInv => SessionsAreCounted
BY DEF StreamInv, Right, Sound, Places, SessionsAreCounted

\* Every place of a socket is free or taken by an open session.
THEOREM PlacesCounted == StreamSpec => []SessionsAreCounted
BY StreamInvariant, InvCounts, PTL

\* The invariant asks for the write event.
LEMMA InvSends == StreamInv => OutputIsSent
BY DEF StreamInv, Right, Live, LiveSession, Alive, Open, OutputIsSent

\* Whoever writes to a session, its own handler, a repeat timer, the kernel's
\* answer to a routing request or its owner, asks for the write event: output
\* never lies in a buffer that the scheduler does not look at.
THEOREM OutputSent == StreamSpec => []OutputIsSent
BY StreamInvariant, InvSends, PTL

\* The invariant knows the owner of what runs.
LEMMA InvOwns == StreamInv => ContinuousHasOwner
<1> SUFFICES ASSUME StreamInv PROVE ContinuousHasOwner
  OBVIOUS
<1>1. Sound(st) /\ st.repeat \in SUBSET Slots /\ st.routes \in SUBSET Slots
  BY DEF StreamInv, Right, Sound, Program
<1>2. \A s \in Slots : IF st.ses[s] = Closed THEN s \notin st.repeat /\ s \notin st.routes
                       ELSE Owned(st, s)
  BY <1>1 DEF Sound
<1> QED BY <1>1, <1>2 DEF ContinuousHasOwner, Owned, Open

\* A repeat timer that can still be stopped and a routing request belong to an
\* open session that will stop them (call_stop_handler, cb_telnet_cleanup).
THEOREM ContinuousOwned == StreamSpec => []ContinuousHasOwner
BY StreamInvariant, InvOwns, PTL

\* The invariant keeps timeouts running.
LEMMA InvTimes == StreamInv => OpenHasTimeout
BY DEF StreamInv, Right, Live, LiveSession, Timed, Alive, Open, OpenHasTimeout

\* No server session is without its timeout, unless a telnet user has switched
\* it off.
THEOREM TimeoutRuns == StreamSpec => []OpenHasTimeout
BY StreamInvariant, InvTimes, PTL

\* The invariant answers requests.
LEMMA InvAnswers == StreamInv => RequestIsAnswered
BY DEF StreamInv, Right, Live, LiveSession, Answered, Alive, Open, RequestIsAnswered

\* A request whose header is complete has been answered and its session ends
\* with the answer, unless it waits for the content of a POST
\* (cb_http_receive_data).
THEOREM RequestAnswered == StreamSpec => []RequestIsAnswered
BY StreamInvariant, InvAnswers, PTL

-----------------------------------------------------------------------------
(* Sites *)

\* A path stands before the directory it names.
LEMMA SlashIsBelow ==
  ASSUME NEW uri \in Seq(Nat)
  PROVE  IsBelow(uri, Append(uri, 1))
<1> DEFINE q == Append(uri, 1)
<1>1. /\ q \in Seq(Nat) /\ Len(uri) \in Nat /\ Len(q) = Len(uri) + 1
      /\ \A i \in 1..Len(uri) : q[i] = uri[i]
  BY LenProperties, AppendProperties
<1> HIDE DEF q
<1>2. SubSeq(q, 1, Len(uri)) = uri
  BY <1>1
<1>3. q # uri
  BY <1>1
<1>4. IsStrictPrefix(uri, q)
  BY <1>1, <1>2, <1>3 DEF IsStrictPrefix, IsPrefix
<1> QED BY <1>4 DEF IsBelow, q

\* The lookup in any set of sites.
LEMMA FoundServes ==
  ASSUME NEW sites, NEW uri \in Seq(Nat), NEW p \in get_site_handler(sites, uri)
  PROVE  Serves(p, uri)
<1> DEFINE below == {q \in avl_find_le(sites, uri) : directory(q) /\ IsPrefix(q, uri)}
<1>1. CASE uri \in sites
  BY <1>1 DEF get_site_handler, Serves
<1>2. CASE uri \notin sites /\ below # {}
  <2>1. p \in below
    BY <1>2 DEF get_site_handler
  <2> QED BY <2>1 DEF Serves
<1>3. CASE uri \notin sites /\ below = {}
  <2>1. p = Append(uri, 1)
    BY <1>3 DEF get_site_handler
  <2> QED BY <2>1 DEF Serves
<1> QED BY <1>1, <1>2, <1>3

\* get_site_handler overlooks a site only behind another one.
LEMMA UnfoundIsHidden ==
  ASSUME NEW sites, NEW uri \in Seq(Nat), get_site_handler(sites, uri) = {},
         NEW p \in sites, Serves(p, uri)
  PROVE  \E q \in sites : Hides(q, p, uri)
<1> DEFINE below == {q \in avl_find_le(sites, uri) : directory(q) /\ IsPrefix(q, uri)}
<1>1. uri \notin sites /\ below = {}
  BY DEF get_site_handler
<1>2. {q \in avl_find_ge(sites, uri) : q = Append(uri, 1)} = {}
  BY <1>1 DEF get_site_handler
<1>3. p # uri
  BY <1>1
<1>4. CASE p = Append(uri, 1)
  <2>1. IsBelow(uri, p)
    BY <1>4, SlashIsBelow
  <2>2. p \notin avl_find_ge(sites, uri)
    BY <1>2, <1>4
  <2>3. \E q \in sites : IsBelow(uri, q) /\ IsBelow(q, p)
    BY <2>1, <2>2 DEF avl_find_ge
  <2> QED BY <2>3 DEF Hides
<1>5. CASE directory(p) /\ IsPrefix(p, uri)
  <2>1. IsBelow(p, uri)
    BY <1>3, <1>5 DEF IsBelow, IsStrictPrefix
  <2>2. p \notin avl_find_le(sites, uri)
    BY <1>1, <1>5
  <2>3. \E q \in sites : IsBelow(p, q) /\ IsBelow(q, uri)
    BY <2>1, <2>2 DEF avl_find_le
  <2> QED BY <2>3 DEF Hides
<1> QED BY <1>3, <1>4, <1>5 DEF Serves

\* Both hold in every state.
LEMMA SitesServed == SiteIsServed
<1> SUFFICES ASSUME NEW uri \in Paths
             PROVE  LET found == get_site_handler(st.sites, uri)
                    IN /\ \A p \in found : Serves(p, uri)
                       /\ found = {} => \A p \in st.sites :
                            Serves(p, uri) => \E q \in st.sites : Hides(q, p, uri)
  BY DEF SiteIsServed
<1>1. uri \in Seq(Nat)
  BY HttpAssumption
<1> QED BY <1>1, FoundServes, UnfoundIsHidden

\* get_site_handler, with any sites registered: what is found serves the path,
\* and a path is not found only if another site stands between it and every
\* site that would serve it.
THEOREM SiteServed == StreamSpec => []SiteIsServed
BY SitesServed, PTL
=============================================================================
