------------------------------ MODULE OonfTelnet ------------------------------
(* The telnet application of subsystems/oonf_telnet.c and the commands that   *)
(* plugins/remotecontrol adds to it.  Every operator takes the state 'st' of  *)
(* the program and a session and returns the state after the call:            *)
(*   ses      the stream sessions (OonfStreamSocket)                          *)
(*   repeat   sessions whose repeat timer runs and can still be stopped       *)
(*   lost     sessions whose running repeat timer nobody points to any more   *)
(*   routes   sessions with a routing request at the kernel                   *)
(*   plugin   the remotecontrol plugin is loaded                              *)
(*   broken   the program has used freed memory or a null pointer             *)
EXTENDS NetaddrAcl, Integers

CONSTANTS None,
          CommandOf,      \* the commands behind each word a line can begin with
          RemoteAcl,      \* the configured acl of the remotecontrol commands
          MaxInput        \* maximum_input_buffer, in tokens

ASSUME TelnetAssumption ==
  /\ \A w \in DOMAIN CommandOf :
       CommandOf[w] \in Seq([name : STRING, again : STRING \union {None}])
  /\ None \notin {"text", "repeat", "route", "log"}

RemoteCommands == {"resources", "log", "config", "route"}
Builtin == {"quit", "help", "echo", "timeout", "version", "repeat"}

\* What a command needs to be told: its name and, for repeat, what it repeats.
Simple(c) == [name |-> c, again |-> None]
Repeated(c) == [name |-> "repeat", again |-> c]

Put(st, s) == [st EXCEPT !.ses[s].out = "text"]
oonf_stream_flush(st, s) == [st EXCEPT !.ses[s].write = TRUE]

cb_telnet_init(x) == [x EXCEPT !.echo = TRUE, !.stop = None, !.timeout = TRUE]

------------------------------------------------------------------------------
(* Continuous commands *)

\* Mutant: the handler forgets to stop the timer.
RepeatKeepsTimer(st, s) == [st EXCEPT !.ses[s].again = None]

cb_telnet_repeat_stophandler(st, s) ==
  [st EXCEPT !.repeat = @ \ {s}, !.ses[s].again = None]

\* The end of every routing request: a report, and the prompt is back.
cb_route_finished(st, s) ==
  [st EXCEPT !.ses[s] = [@ EXCEPT !.out = "text", !.echo = TRUE, !.write = TRUE]]

\* A request leaves the list before its owner is told, so that a second
\* interrupt finds nothing.
os_routing_interrupt(st, s) ==
  IF s \notin st.routes THEN st
  ELSE cb_route_finished([st EXCEPT !.routes = @ \ {s}], s)

\* The log handler was never added to the list it is now removed from.
stop_logging(st, s) == [st EXCEPT !.broken = TRUE]

call_stop_handler(st, s) ==
  LET handler == st.ses[s].stop
      cleared == [st EXCEPT !.ses[s].stop = None]
  IN CASE handler = "repeat" -> cb_telnet_repeat_stophandler(cleared, s)
       [] handler = "route" -> os_routing_interrupt(cleared, s)
       [] handler = "log" -> stop_logging(cleared, s)
       [] OTHER -> st

oonf_telnet_stop(st, s) ==
  LET stopped == call_stop_handler(st, s)
  IN [stopped EXCEPT !.ses[s] = [@ EXCEPT !.echo = TRUE, !.out = "text", !.write = TRUE]]

------------------------------------------------------------------------------
(* Commands: the state after the handler, and its result *)

Answer(st, result) == [st |-> st, result |-> result]

\* The commands a session may call: known, and not refused by their acl.
check_telnet_command(st, s, c) ==
  \/ c \in Builtin
  \/ /\ c \in RemoteCommands /\ st.plugin
     /\ netaddr_acl_check_accept(RemoteAcl, st.ses[s].peer)

\* A routing request that netlink accepts takes the stop handler without
\* asking whether a repeat timer depends on it.
cb_handle_route(st, s, refused) ==
  LET known == [st EXCEPT !.ses[s].rc = TRUE]
  IN IF refused THEN Answer(Put(known, s), "active")
     ELSE Answer([known EXCEPT !.routes = @ \union {s}, !.ses[s].stop = "route",
                               !.lost = IF s \in st.repeat THEN @ \union {s} ELSE @,
                               !.repeat = @ \ {s}], "continuous")

cb_handle_log(st, s) ==
  LET known == [st EXCEPT !.ses[s].rc = TRUE]
  IN IF st.ses[s].stop # None THEN Answer(Put(known, s), "active")
     ELSE Answer([known EXCEPT !.ses[s].stop = "log"], "continuous")

\* All commands but repeat; the ones that only write text are one.
SimpleCommand(st, s, c, refused) ==
  IF ~ check_telnet_command(st, s, c) THEN Answer(st, "unknown")
  ELSE CASE c = "quit" -> Answer(st, "quit")
         [] c = "timeout" -> Answer([st EXCEPT !.ses[s].timeout = FALSE], "active")
         [] c = "route" -> cb_handle_route(st, s, refused)
         [] c = "log" -> cb_handle_log(st, s)
         [] OTHER -> Answer(Put(st, s), "active")

\* The command of a repeat, at once and with every tick of its timer: any
\* result but "active" ends the repetition.
RunAgain(st, s, refused) ==
  LET r == SimpleCommand(st, s, st.ses[s].again, refused)
  IN IF r.result = "active" THEN r.st ELSE call_stop_handler(r.st, s)

cb_telnet_repeat(st, s, c, refused) ==
  IF st.ses[s].stop # None THEN Answer(Put(st, s), "active")
  ELSE Answer(RunAgain([st EXCEPT !.repeat = @ \union {s},
                                  !.ses[s] = [@ EXCEPT !.stop = "repeat", !.again = c]],
                       s, refused), "continuous")

telnet_handle_command(st, s, c, refused) ==
  IF c.name = "repeat" THEN cb_telnet_repeat(st, s, c.again, refused)
  ELSE SimpleCommand(st, s, c.name, refused)

\* Mutant: the timer writes without asking for the write event.
RepeatTimerUnflushed(st, s, refused) ==
  IF st.ses[s].again = None THEN [st EXCEPT !.broken = TRUE]
  ELSE RunAgain(st, s, refused)

\* The repeat timer of an open session.
cb_telnet_repeat_timer(st, s, refused) ==
  IF st.ses[s].again = None THEN [st EXCEPT !.broken = TRUE]
  ELSE oonf_stream_flush(RunAgain(st, s, refused), s)

------------------------------------------------------------------------------
(* Input *)

\* One command of a line.  The result goes to the session's state; an unknown
\* command is reported.
RunCommand(acc, s, c, refused) ==
  LET stopped == call_stop_handler(acc.st, s)
      Apply(r) ==
        CASE r.result = "active" -> [acc EXCEPT !.st = r.st]
          [] r.result = "continuous" ->
               [acc EXCEPT !.st = [r.st EXCEPT !.ses[s].echo = FALSE]]
          [] r.result = "unknown" -> [acc EXCEPT !.st = Put(stopped, s)]
          [] r.result = "quit" -> [acc EXCEPT !.st = r.st, !.quit = TRUE]
  IN IF acc.quit THEN acc ELSE Apply(telnet_handle_command(stopped, s, c, refused))

\* The commands a line asks for: its first word is a command or a chain of them.
CommandsOf(w) == IF w \in DOMAIN CommandOf THEN CommandOf[w] ELSE <<Simple("unknown")>>

\* One line; an empty one only stops what runs.
RunLine(st, s, line, refused) ==
  LET commands == CommandsOf(line[1])
      ran[k \in 0..Len(commands)] ==
        IF k = 0 THEN [st |-> st, quit |-> FALSE]
        ELSE RunCommand(ran[k - 1], s, commands[k], refused)
  IN IF line = <<>> THEN [st |-> call_stop_handler(st, s), quit |-> FALSE]
     ELSE ran[Len(commands)]

EndOfLine(in) == SelectInSeq(in, LAMBDA t : t = "eol")

\* One turn of the loop over the input: the first complete line is handled and
\* leaves the buffer.  A chain behind it ends the session.
NextLine(r, s, refused) ==
  LET in == r.st.ses[s].in
      eol == EndOfLine(in)
      ran == RunLine(r.st, s, SubSeq(in, 1, eol - 1), refused)
      rest == SubSeq(in, eol + 1, Len(in))
  IN IF r.quit \/ eol = 0 THEN r
     ELSE IF ran.quit THEN [st |-> ran.st, quit |-> TRUE, done |-> TRUE]
     ELSE [st |-> [ran.st EXCEPT !.ses[s].in = rest], done |-> TRUE,
           quit |-> rest # <<>> /\ rest[1] = "chain"]

ReceiveLines(st, s, refused) ==
  LET length == Len(st.ses[s].in)
      turn[k \in 0..length] ==
        IF k = 0 THEN [st |-> st, quit |-> FALSE, done |-> FALSE]
        ELSE NextLine(turn[k - 1], s, refused)
  IN turn[length]

cb_telnet_receive_data(st, s, refused) ==
  LET r == ReceiveLines(st, s, refused)
      x == r.st.ses[s]
  IN IF r.quit THEN [r.st EXCEPT !.ses[s].state = "send_and_quit"]
     ELSE [r.st EXCEPT !.ses[s] =
             [@ EXCEPT !.timer = x.timeout,
                       !.out = IF r.done /\ x.echo THEN "text" ELSE x.out]]

------------------------------------------------------------------------------
(* End of a session, and of the plugin *)

\* Continuous commands are stopped before the cleanup handlers run.  The
\* plugin's own handler is gone once the plugin is.
cb_telnet_cleanup(st, s) ==
  LET stopped == oonf_telnet_stop(st, s)
  IN [stopped EXCEPT !.broken = @ \/ (st.ses[s].rc /\ ~ st.plugin)]

\* The sessions are walked in the order of their list.
remotecontrol_cleanup(st, sessions) ==
  LET order == SetToSeq(sessions)
      left[k \in 0..Len(order)] ==
        IF k = 0 THEN st ELSE oonf_telnet_stop(left[k - 1], order[k])
  IN [left[Len(order)] EXCEPT !.plugin = FALSE]

\* The http bridge runs a command without a session: it knows no address to
\* check an acl with.
oonf_telnet_execute(st, c) ==
  IF c \in RemoteCommands /\ st.plugin THEN "broken"
  ELSE IF c \in Builtin \ {"repeat"} THEN "active"
  ELSE IF c = "repeat" THEN "continuous" ELSE "unknown"
=============================================================================
