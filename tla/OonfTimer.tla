----------------------------- MODULE OonfTimer -----------------------------
(***************************************************************************)
(* The timer subsystem (subsystems/oonf_timer.c) on top of the internal    *)
(* clock (subsystems/oonf_clock.c).                                        *)
(*                                                                         *)
(* A timer belongs to a timer class (struct oonf_timer_info); the running  *)
(* timers are in one tree ordered by _clock.  oonf_timer_walk() is not one *)
(* step: between its iterations the callbacks of the expired timers run,   *)
(* and they call back into this subsystem.                                 *)
(*                                                                         *)
(* The tree is modelled as the set of its members.  Its first element is   *)
(* any member with the least _clock: the order of timers with the same     *)
(* _clock is left open.  The "changes" statistics are left out.            *)
(***************************************************************************)
EXTENDS Integers, FiniteSets

CONSTANTS
  Timers,        \* the timer entries
  Infos,         \* the timer classes
  InfoOf,        \* timer->info
  Periodic,      \* info->periodic
  Jitter,        \* timer->jitter_pct
  Slice,         \* TIMESLICE, the granularity of the timers
  RandMax,       \* RAND_MAX
  RandomValues,  \* the results of os_core_random() the model uses
  Word,          \* the range of an uint64_t
  RelTimes,      \* the relative times and intervals callers use
  MaxNow,        \* bound on the internal clock
  None           \* a null pointer

ASSUME TimersAssumption ==
  /\ IsFiniteSet(Timers)
  /\ None \notin Timers
  /\ InfoOf \in [Timers -> Infos]
  /\ Periodic \in [Infos -> BOOLEAN]
  /\ Jitter \in [Timers -> 0..100]      \* assert(timer->jitter_pct <= 100)

ASSUME TimesAssumption ==
  /\ Slice \in Nat \ {0}
  /\ MaxNow \in Nat
  /\ RelTimes \subseteq Nat
  /\ Word \in Nat
  /\ \A rel \in RelTimes \cup {0} : MaxNow + rel + Slice < Word

ASSUME RandomAssumption ==
  /\ RandMax \in Nat
  /\ RandMax >= 100 * 101
  /\ RandomValues \subseteq 0..RandMax
  /\ RandomValues # {}

VARIABLES
  now,        \* now_times
  registered, \* oonf_timer_info_list
  tree,       \* _timer_tree
  clock,      \* timer->_clock, 0 for a timer that does not run
  period,     \* timer->_period
  random,     \* timer->_random
  usage,      \* info->usage
  inCallback, \* info->_timer_in_callback
  stopped,    \* info->_timer_stopped
  phase,      \* where oonf_timer_walk() is; "idle" iff ~_scheduling_now
  running,    \* the local variable "timer" of oonf_timer_walk()
  asked       \* history: when and for how long each timer was last started

entryVars == <<tree, clock, period, random, usage, asked>>
walkVars == <<phase, running, inCallback>>
vars == <<now, registered, entryVars, walkVars, stopped>>

-----------------------------------------------------------------------------
(* Helpers of the code *)

\* The percentage _calc_clock derives from the cached random number.
RandomJitter(t, rnd) ==
  IF Jitter[t] = 0 THEN 0 ELSE rnd \div (RandMax \div Jitter[t])

\* The value of t in _calc_clock.
JitterTime(t, rel, rnd) == (RandomJitter(t, rnd) * rel) \div 100

\* Mutant of calc_clock: rounded down to a timeslice.
RoundedDownClock(t, rel, rnd) ==
  LET raw == (now + rel - 2 * JitterTime(t, rel, rnd)) % Word
  IN raw - (raw % Slice)

\* rel_time is reduced by t before and again within the call of
\* oonf_clock_get_absolute(); then it is rounded up to the next timeslice.
calc_clock(t, rel, rnd) ==
  LET raw == (now + rel - 2 * JitterTime(t, rel, rnd) + Slice) % Word
  IN raw - (raw % Slice)

\* oonf_timer_is_active()
oonf_timer_is_active(t) == clock[t] # 0

\* Mutant of IsFirst: the comparator of the tree is reversed.
IsLast(t) == t \in tree /\ \A u \in tree : clock[t] >= clock[u]

\* avl_first_element(&_timer_tree), for a tree that is not empty
IsFirst(t) == t \in tree /\ \A u \in tree : clock[t] <= clock[u]

\* oonf_timer_getNextEvent(); Word - 1 is UINT64_MAX
oonf_timer_getNextEvent ==
  IF tree = {} THEN Word - 1 ELSE clock[CHOOSE t \in tree : IsFirst(t)]

\* The body of oonf_timer_start_ext(); rnd is the random number drawn.
StartEntry(t, first, interval, rnd) ==
  /\ usage' = IF clock[t] # 0 THEN usage
              ELSE [usage EXCEPT ![InfoOf[t]] = @ + 1]
  /\ random' = [random EXCEPT ![t] = rnd]
  /\ clock' = [clock EXCEPT ![t] = calc_clock(t, first, rnd)]
  /\ period' = [period EXCEPT ![t] = IF Periodic[InfoOf[t]] THEN interval ELSE 0]
  /\ tree' = tree \cup {t}
  /\ asked' = [asked EXCEPT ![t] = [at |-> now, rel |-> first]]

\* What oonf_timer_stop() does to each timer of S, all of them of class i.
StopEntries(S, i) ==
  /\ tree' = tree \ S
  /\ clock' = [t \in Timers |-> IF t \in S THEN 0 ELSE clock[t]]
  /\ random' = [t \in Timers |-> IF t \in S THEN 0 ELSE random[t]]
  /\ usage' = [usage EXCEPT ![i] = @ - Cardinality(S)]
  /\ UNCHANGED <<period, asked>>

\* Mutant of FlagStopped: stopping a timer does not tell the walk.
FlagNothing(S, i) == stopped' = stopped

\* ... and to the flag that tells the walk about it
FlagStopped(S, i) ==
  stopped' = IF inCallback[i] \in S THEN [stopped EXCEPT ![i] = TRUE] ELSE stopped

Init ==
  /\ now = 0
  /\ registered = {}
  /\ tree = {}
  /\ clock = [t \in Timers |-> 0]
  /\ period = [t \in Timers |-> 0]
  /\ random = [t \in Timers |-> 0]
  /\ usage = [i \in Infos |-> 0]
  /\ inCallback = [i \in Infos |-> None]
  /\ stopped = [i \in Infos |-> FALSE]
  /\ phase = "idle"
  /\ running = None
  /\ asked = [t \in Timers |-> [at |-> 0, rel |-> 0]]

-----------------------------------------------------------------------------
(* The interface: called by the program outside of the walk, and by the    *)
(* callbacks within it.                                                    *)

UserRuns == phase \in {"idle", "callback"}

oonf_clock_update(n) ==
  /\ phase = "idle"
  /\ n \in now..MaxNow
  /\ now' = n
  /\ UNCHANGED <<registered, entryVars, walkVars, stopped>>

oonf_timer_add(i) ==
  /\ UserRuns
  /\ i \notin registered
  /\ registered' = registered \cup {i}
  /\ UNCHANGED <<now, entryVars, walkVars, stopped>>

oonf_timer_remove(i) ==
  /\ UserRuns
  /\ i \in registered
  /\ registered' = registered \ {i}
  /\ LET S == {t \in tree : InfoOf[t] = i}
     IN StopEntries(S, i) /\ FlagStopped(S, i)
  /\ UNCHANGED <<now, walkVars>>

oonf_timer_start_ext(t, first, interval) ==
  /\ UserRuns
  /\ InfoOf[t] \in registered
  /\ \E r \in RandomValues :
       StartEntry(t, first, interval, IF random[t] = 0 THEN r ELSE random[t])
  /\ UNCHANGED <<now, registered, walkVars, stopped>>

oonf_timer_stop(t) ==
  /\ UserRuns
  /\ clock[t] # 0
  /\ StopEntries({t}, InfoOf[t])
  /\ FlagStopped({t}, InfoOf[t])
  /\ UNCHANGED <<now, registered, walkVars>>

oonf_timer_set_ext(t, first, interval) ==
  \/ first = 0 /\ oonf_timer_stop(t)
  \/ first # 0 /\ oonf_timer_start_ext(t, first, interval)

-----------------------------------------------------------------------------
(* oonf_timer_walk(), cut where control passes to and from a callback *)

WalkBegin ==
  /\ phase = "idle"
  /\ phase' = "walk"
  /\ UNCHANGED <<now, registered, entryVars, running, inCallback, stopped>>

\* The first timer is due: a one-shot timer is stopped before its callback.
WalkFire(t) ==
  /\ phase = "walk"
  /\ IsFirst(t)
  /\ clock[t] <= now
  /\ phase' = "callback"
  /\ running' = t
  /\ inCallback' = [inCallback EXCEPT ![InfoOf[t]] = t]
  /\ IF period[t] = 0 /\ clock[t] # 0
       THEN /\ StopEntries({t}, InfoOf[t])
            /\ stopped' = [stopped EXCEPT ![InfoOf[t]] = TRUE]
       ELSE /\ stopped' = [stopped EXCEPT ![InfoOf[t]] = FALSE]
            /\ UNCHANGED entryVars
  /\ UNCHANGED <<now, registered>>

\* Mutant of WalkReturn: every timer with a period is started again.
WalkReturnByPeriod ==
  /\ phase = "callback"
  /\ phase' = "walk"
  /\ running' = None
  /\ IF period[running] = 0
       THEN UNCHANGED entryVars
       ELSE \E r \in RandomValues :
              StartEntry(running, period[running], period[running], r)
  /\ UNCHANGED <<now, registered, inCallback, stopped>>

\* The callback returned; a timer that was not stopped is started again.
WalkReturn ==
  /\ phase = "callback"
  /\ phase' = "walk"
  /\ running' = None
  /\ IF stopped[InfoOf[running]]
       THEN UNCHANGED entryVars
       ELSE \E r \in RandomValues :
              StartEntry(running, period[running], period[running], r)
  /\ UNCHANGED <<now, registered, inCallback, stopped>>

\* The first timer is in the future: the walk is over.
WalkEnd ==
  /\ phase = "walk"
  /\ \E t \in tree : IsFirst(t) /\ clock[t] > now
  /\ phase' = "idle"
  /\ UNCHANGED <<now, registered, entryVars, running, inCallback, stopped>>

\* avl_first_element() of an empty tree is no timer at all: the comparison
\* reads whatever lies behind _timer_tree.  The loop ends if that looks like
\* a time in the future; otherwise garbage is called as a callback.
WalkEmpty ==
  /\ phase = "walk"
  /\ tree = {}
  /\ phase' \in {"idle", "undefined"}
  /\ UNCHANGED <<now, registered, entryVars, running, inCallback, stopped>>

-----------------------------------------------------------------------------
Call == \/ \E i \in Infos : oonf_timer_add(i) \/ oonf_timer_remove(i)
        \/ \E t \in Timers, first \in RelTimes, interval \in RelTimes :
              \/ oonf_timer_start_ext(t, first, interval)
              \/ oonf_timer_set_ext(t, first, interval)
        \/ \E t \in Timers : oonf_timer_stop(t)

Fire == \E t \in Timers : WalkFire(t)

Walk == WalkBegin \/ Fire \/ WalkReturn \/ WalkEnd \/ WalkEmpty

\* After undefined behaviour nothing is promised; the model stops there.
Halted == phase = "undefined" /\ UNCHANGED vars

Next == \/ \E n \in 0..MaxNow : oonf_clock_update(n)
        \/ Call
        \/ Walk
        \/ Halted

\* The main loop calls oonf_timer_walk() again and again, the walk is a loop
\* without waiting, and callbacks return.
Fairness == /\ WF_vars(WalkBegin)
            /\ WF_vars(Fire)
            /\ WF_vars(WalkReturn)
            /\ WF_vars(WalkEnd \/ WalkEmpty)

Spec == Init /\ [][Next]_vars /\ Fairness

-----------------------------------------------------------------------------
(* Properties *)

Phases == {"idle", "walk", "callback", "undefined"}

\* Every field holds a value of its C type, and a callback has its timer.
TypeOK ==
  /\ now \in 0..MaxNow
  /\ registered \in SUBSET Infos
  /\ tree \in SUBSET Timers
  /\ clock \in [Timers -> 0..(Word - 1)]
  /\ period \in [Timers -> RelTimes \cup {0}]
  /\ random \in [Timers -> 0..RandMax]
  /\ usage \in [Infos -> Nat]
  /\ inCallback \in [Infos -> Timers \cup {None}]
  /\ stopped \in [Infos -> BOOLEAN]
  /\ phase \in Phases
  /\ running \in Timers \cup {None}
  /\ asked \in [Timers -> [at : 0..MaxNow, rel : RelTimes \cup {0}]]
  /\ phase = "callback" <=> running # None

\* No jitter eats more than the delay it is taken from: _calc_clock takes the
\* jitter off twice, so this is what its callers have to respect.
HalfJitter == \A t \in Timers : Jitter[t] <= 50

\* _clock doubles as the "is running" flag (oonf_timer_is_active): it says so
\* exactly for the timers in the tree.
ActiveIffInTree == \A t \in Timers : t \in tree <=> oonf_timer_is_active(t)

\* info->usage counts the running timers of the class.
UsageIsCount ==
  \A i \in Infos :
    usage[i] = Cardinality({t \in tree : InfoOf[t] = i})

\* When a callback returns, the walk touches the timer again only if it still
\* runs (its memory may be gone otherwise): whatever the callback did with
\* this and other timers of the class, the flag has kept track of it.
RearmsOnlyLiveTimer ==
  phase = "callback" /\ ~stopped[InfoOf[running]] =>
    /\ running \in tree
    /\ inCallback[InfoOf[running]] = running

\* A running timer's class is registered: removing a class leaves none of its
\* timers behind, even when one of its own callbacks removes it.
RunningIsRegistered == \A t \in tree : InfoOf[t] \in registered

\* A timer without jitter is due in the timeslice after the time asked for.
WithinSlice ==
  \A t \in tree : Jitter[t] = 0 =>
    /\ clock[t] > asked[t].at + asked[t].rel
    /\ clock[t] <= asked[t].at + asked[t].rel + Slice

\* When the walk gives control back, no timer that is due is left behind, also
\* of those the callbacks have started: the main loop computes a positive
\* select() timeout from the next event.
WalkLeavesNoneDue ==
  [][phase = "walk" /\ phase' = "idle" => \A t \in tree : clock[t] > now]_vars

\* Every walk comes to its end, though callbacks keep starting timers.
WalkReturns == phase = "walk" ~> phase \in {"idle", "undefined"}

\* What the header says of jitter_pct: the timer fires at most that many
\* percent of its time early.
JitterWithinPercent ==
  \A t \in tree :
    clock[t] > asked[t].at + asked[t].rel - ((Jitter[t] * asked[t].rel) \div 100) - 1

\* The subsystem implements the alarm clock.
Alarm == INSTANCE AlarmClock WITH
           Alarms <- Timers,
           due    <- clock,
           every  <- period,
           mode   <- CASE phase = "idle" -> "client"
                       [] phase = "walk" -> "search"
                       [] phase = "callback" -> "ringing"
                       [] OTHER -> "undefined",
           again  <- IF phase = "callback" /\ ~stopped[InfoOf[running]]
                       THEN running ELSE None

ImplementsAlarmClock == Alarm!ASpec
=============================================================================
