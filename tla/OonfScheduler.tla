--------------------------- MODULE OonfScheduler ---------------------------
(***************************************************************************)
(* The main loop oonf_socket_handle() (subsystems/oonf_socket.c) composed  *)
(* with the timer subsystem: timers are walked, select() sleeps until the  *)
(* next timer, then the handlers of the sockets that are ready run one     *)
(* after the other.  Handlers and timer callbacks register and remove      *)
(* sockets and timers while the loop is inside its lists.                  *)
(*                                                                         *)
(* The loop over the sockets is list_for_each_element_safe(): it remembers *)
(* the successor before a handler runs.  Removing the remembered successor *)
(* is forbidden by the comment of that macro; the handlers of this model   *)
(* remove their own entry or one that stands before it.                    *)
(***************************************************************************)
EXTENDS OonfTimer, Sequences, SequencesExt

CONSTANTS
  Entries,    \* the socket entries
  Fds,        \* the file descriptors the operating system hands out
  ListHead,       \* the head of the list, where a loop over it ends
  Wants,      \* the event flags the code uses
  StopTimes,  \* the values of stop_time callers use (0: keep running)
  StopCallback \* whether the caller passes a stop_scheduler function

ASSUME SocketsAssumption ==
  /\ IsFiniteSet(Entries) /\ IsFiniteSet(Fds)
  /\ ListHead \notin Entries
  /\ None \notin Fds
  /\ StopTimes \subseteq 0..(Word - 2)
  /\ StopCallback \in BOOLEAN
  /\ Wants \subseteq SUBSET {"read", "write"}

Events == {"read", "write"}

VARIABLES
  sockets,    \* oonf_socket_head, the list of registered entries
  fd,         \* entry->fd, None for an entry that is not open
  want,       \* entry->event_read and entry->event_write
  bits,       \* the fd_sets: what was asked of select(), then what it reported
  at,         \* where oonf_socket_handle() is, "out" if it is not running
  entry,      \* the entry the dispatch loop has reached
  iterator,   \* the successor it remembered
  stopTime,   \* stop_time
  wakeTime,   \* next_event as an absolute time, when select() returns
  result,     \* the last return value
  asleep,     \* history: what each entry wanted when select() was called,
              \* None if it was not registered then or was removed since
  served      \* history: the entries called since then

listVars == <<sockets, fd, want>>
loopVars == <<bits, entry, iterator, stopTime, wakeTime, result, asleep, served>>
timerVars == <<now, registered, entryVars, walkVars, stopped>>
svars == <<timerVars, listVars, loopVars, at>>

Listed == ToSet(sockets)

\* list_next_element()
NextOf(e) == LET i == CHOOSE k \in DOMAIN sockets : sockets[k] = e
             IN IF i = Len(sockets) THEN ListHead ELSE sockets[i + 1]

FirstListed == IF sockets = <<>> THEN ListHead ELSE sockets[1]

\* The fd_sets built from the event flags of all entries.
Requested == [ev \in Events |-> {fd[e] : e \in {x \in Listed : ev \in want[x]}}]

Forever == Word - 1   \* ~0ull

SInit ==
  /\ Init
  /\ sockets = <<>>
  /\ fd = [e \in Entries |-> None]
  /\ want = [e \in Entries |-> {}]
  /\ bits = [ev \in Events |-> {}]
  /\ at = "out"
  /\ entry = ListHead /\ iterator = ListHead
  /\ stopTime = Forever /\ wakeTime = 0
  /\ result = 0
  /\ asleep = [e \in Entries |-> None] /\ served = {}

-----------------------------------------------------------------------------
(* Registering sockets: by the program, a handler or a timer callback *)

Running == at \in {"out", "handler"} \/ phase = "callback"

\* A socket is opened and registered at the end of the list.  A handler that
\* accepts connections registers a session that was not in this round before.
oonf_socket_add(e, f, ev) ==
  /\ Running
  /\ e \notin Listed
  /\ at = "handler" => e \notin served
  /\ f \notin {fd[x] : x \in Listed}
  /\ sockets' = Append(sockets, e)
  /\ fd' = [fd EXCEPT ![e] = f]
  /\ want' = [want EXCEPT ![e] = ev]
  /\ UNCHANGED <<timerVars, loopVars, at>>

\* A socket is closed and its entry removed.
oonf_socket_remove(e) ==
  /\ Running
  /\ \E i \in DOMAIN sockets :
       /\ sockets[i] = e
       /\ at = "handler" => \E j \in i .. Len(sockets) : sockets[j] = entry
       /\ sockets' = RemoveAt(sockets, i)
  /\ fd' = [fd EXCEPT ![e] = None]
  /\ want' = [want EXCEPT ![e] = {}]
  /\ asleep' = [asleep EXCEPT ![e] = None]
  /\ UNCHANGED <<timerVars, bits, entry, iterator, stopTime, wakeTime, result, served, at>>

\* oonf_socket_set_read(), oonf_socket_set_write()
oonf_socket_set(e, ev) ==
  /\ Running
  /\ e \in Listed
  /\ want' = [want EXCEPT ![e] = ev]
  /\ UNCHANGED <<timerVars, sockets, fd, loopVars, at>>

\* Timer calls of the same code.
TimerCall == Running /\ Call /\ UNCHANGED <<listVars, loopVars, at>>

-----------------------------------------------------------------------------
(* oonf_socket_handle() *)

Enter(stop) ==
  /\ at = "out"
  /\ at' = "top"
  /\ stopTime' = IF stop = 0 THEN Forever ELSE stop
  /\ result' = 0
  /\ UNCHANGED <<timerVars, listVars, bits, entry, iterator, wakeTime, asleep, served>>

\* The variables that are local to a round of the loop.
ForgetRound == /\ bits' = [ev \in Events |-> {}]
               /\ entry' = ListHead /\ iterator' = ListHead
               /\ asleep' = [e \in Entries |-> None] /\ served' = {}

\* wake is the time that has certainly passed when the function returns.
Return(r, wake) ==
  /\ at' = "out"
  /\ result' = r
  /\ wakeTime' = wake
  /\ stopTime' = Forever
  /\ ForgetRound
  /\ UNCHANGED listVars

ClockFails ==
  /\ at \in {"top", "woken"}
  /\ Return(-1, 0)
  /\ UNCHANGED timerVars

\* The time is updated and, if the stop time is not reached, timers are walked.
Top ==
  /\ at = "top"
  /\ \E n \in (IF wakeTime > now THEN wakeTime ELSE now)..MaxNow :
       /\ now' = n
       /\ IF n >= stopTime
            THEN Return(0, 0) /\ UNCHANGED phase
            ELSE /\ at' = "walk" /\ phase' = "walk"
                 /\ wakeTime' = 0
                 /\ UNCHANGED <<listVars, bits, entry, iterator, stopTime, result, asleep, served>>
  /\ UNCHANGED <<registered, entryVars, running, inCallback, stopped>>

TimerWalk ==
  /\ at = "walk"
  /\ Fire \/ WalkReturn \/ WalkEnd \/ WalkEmpty
  /\ at' = IF phase' = "idle" THEN "prepare" ELSE "walk"
  /\ UNCHANGED <<listVars, loopVars>>

\* stop_scheduler() says so, before or after the fd_sets were built.
Stopped ==
  /\ StopCallback
  /\ at \in {"prepare", "select"}
  /\ Return(0, 0)
  /\ UNCHANGED timerVars

\* Mutant of Prepare: the later one of the next timer and the stop time.
PrepareLate ==
  /\ at = "prepare"
  /\ at' = "select"
  /\ bits' = Requested
  /\ wakeTime' = IF oonf_timer_getNextEvent < stopTime THEN stopTime
                 ELSE oonf_timer_getNextEvent
  /\ asleep' = [e \in Entries |-> IF e \in Listed THEN want[e] ELSE None]
  /\ served' = {}
  /\ UNCHANGED <<timerVars, listVars, entry, iterator, stopTime, result>>

\* fd_sets and timeout are computed.
Prepare ==
  /\ at = "prepare"
  /\ at' = "select"
  /\ bits' = Requested
  /\ wakeTime' = IF oonf_timer_getNextEvent > stopTime THEN stopTime
                 ELSE oonf_timer_getNextEvent
  /\ asleep' = [e \in Entries |-> IF e \in Listed THEN want[e] ELSE None]
  /\ served' = {}
  /\ UNCHANGED <<timerVars, listVars, entry, iterator, stopTime, result>>

\* select() timed out, which it does no earlier than the next event; the loop
\* is left and the function returns.
SelectTimeout ==
  /\ at = "select"
  /\ wakeTime <= MaxNow
  /\ Return(0, wakeTime)
  /\ UNCHANGED timerVars

SelectError ==
  /\ at = "select"
  /\ Return(-1, 0)
  /\ UNCHANGED timerVars

\* Some of the descriptors are ready; only these stay in the fd_sets.
SelectReady ==
  /\ at = "select"
  /\ \E r \in SUBSET bits["read"], w \in SUBSET bits["write"] :
       /\ r \cup w # {}
       /\ bits' = [ev \in Events |-> IF ev = "read" THEN r ELSE w]
  /\ at' = "woken"
  /\ wakeTime' = 0
  /\ UNCHANGED <<timerVars, listVars, entry, iterator, stopTime, result, asleep, served>>

Woken ==
  /\ at = "woken"
  /\ \E n \in now..MaxNow : now' = n
  /\ at' = "dispatch"
  /\ entry' = FirstListed
  /\ iterator' = IF sockets = <<>> THEN ListHead ELSE NextOf(FirstListed)
  /\ UNCHANGED <<registered, entryVars, walkVars, stopped, listVars, bits, stopTime,
                 wakeTime, result, asleep, served>>

Ready(e) == {ev \in Events : fd[e] \in bits[ev]}

\* Mutant of Advance: it passes over an entry.
AdvanceTwice ==
  /\ entry' = IF iterator = ListHead THEN ListHead ELSE NextOf(iterator)
  /\ iterator' = ListHead

\* element = ptr, ptr = list_next_element(ptr)
Advance ==
  /\ entry' = iterator
  /\ iterator' = IF iterator = ListHead THEN FirstListed ELSE NextOf(iterator)

Dispatch ==
  /\ at = "dispatch"
  /\ entry # ListHead
  /\ IF Ready(entry) # {}
       THEN /\ at' = "handler"
            /\ served' = served \cup {entry}
            /\ UNCHANGED <<entry, iterator>>
       ELSE Advance /\ UNCHANGED <<at, served>>
  /\ UNCHANGED <<timerVars, listVars, bits, stopTime, wakeTime, result, asleep>>

HandlerReturns ==
  /\ at = "handler"
  /\ at' = "dispatch"
  /\ Advance
  /\ UNCHANGED <<timerVars, listVars, bits, stopTime, wakeTime, result, asleep, served>>

DispatchEnds ==
  /\ at = "dispatch"
  /\ entry = ListHead
  /\ at' = "top"
  /\ ForgetRound
  /\ UNCHANGED <<timerVars, listVars, stopTime, wakeTime, result>>

\* A walk over an empty timer tree went wrong.
Crashed == phase = "undefined" /\ UNCHANGED svars

Loop == \/ Top \/ TimerWalk \/ Prepare \/ Woken \/ Dispatch \/ HandlerReturns \/ DispatchEnds

SNext == \/ \E e \in Entries :
              \/ \E f \in Fds, ev \in Wants : oonf_socket_add(e, f, ev)
              \/ oonf_socket_remove(e)
              \/ \E ev \in Wants : oonf_socket_set(e, ev)
         \/ TimerCall
         \/ \E stop \in StopTimes : Enter(stop)
         \/ Loop
         \/ ClockFails \/ Stopped \/ SelectTimeout \/ SelectError \/ SelectReady
         \/ Crashed

\* The loop itself never waits except in select(); handlers and callbacks return.
SFairness == WF_svars(Loop)

SSpec == SInit /\ [][SNext]_svars /\ SFairness

-----------------------------------------------------------------------------
(* Properties *)

\* select() is called with a timeout in the future, and not one that would
\* sleep through a timer.
SelectWakesInTime ==
  at = "select" => /\ now < wakeTime
                   /\ \A t \in tree : wakeTime <= clock[t]

\* At the end of a round every entry that slept in select() and was reported
\* ready has been served, unless it was removed meanwhile.
ReadyIsServed ==
  at = "dispatch" /\ entry = ListHead =>
    \A e \in Entries : asleep[e] # None /\ Ready(e) # {} => e \in served

\* What the comment of oonf_socket_handle() says of stop_time: the function
\* keeps running until that time.
RunsUntilStopTime ==
  [][at # "out" /\ at' = "out" =>
       result' = -1 \/ now' >= stopTime \/ wakeTime' >= stopTime]_svars
=============================================================================
