----------------------------- MODULE AlarmClock -----------------------------
(***************************************************************************)
(* What the timer subsystem promises its users: a set of alarms, each off  *)
(* or due at a time in the future when it is set.  A search rings every    *)
(* alarm that is due, earliest first, and gives control back only when     *)
(* none is left.  An alarm with an interval is set again after it rang,    *)
(* unless somebody cancelled it while it was ringing.  With no alarm set   *)
(* at all a search has no defined outcome.                                 *)
(***************************************************************************)
EXTENDS Naturals

CONSTANTS Alarms, None

VARIABLES now,      \* the time
          due,      \* when each alarm rings, 0 if it is off
          every,    \* the interval of each alarm, 0 if it rings once
          mode,     \* "client", "search", "ringing" or "undefined"
          again     \* the ringing alarm that will be set again, or None

avars == <<now, due, every, mode, again>>

On(t) == due[t] # 0
IsDue(t) == On(t) /\ due[t] <= now

AInit == /\ now = 0
         /\ due = [t \in Alarms |-> 0]
         /\ every = [t \in Alarms |-> 0]
         /\ mode = "client"
         /\ again = None

ClientRuns == mode \in {"client", "ringing"}

ATick == /\ mode = "client"
         /\ now' >= now
         /\ UNCHANGED <<due, every, mode, again>>

ASet(t) == /\ ClientRuns
           /\ due'[t] > now
           /\ due' = [due EXCEPT ![t] = due'[t]]
           /\ every' = [every EXCEPT ![t] = every'[t]]
           /\ UNCHANGED <<now, mode, again>>

ACancel(S) == /\ ClientRuns
              /\ due' = [t \in Alarms |-> IF t \in S THEN 0 ELSE due[t]]
              /\ again' = IF again \in S THEN None ELSE again
              /\ UNCHANGED <<now, every, mode>>

ASearch == /\ mode = "client"
           /\ mode' = "search"
           /\ UNCHANGED <<now, due, every, again>>

ARing(t) == /\ mode = "search"
            /\ IsDue(t)
            /\ \A u \in Alarms : On(u) => due[t] <= due[u]
            /\ mode' = "ringing"
            /\ IF every[t] = 0
                 THEN due' = [due EXCEPT ![t] = 0] /\ again' = None
                 ELSE due' = due /\ again' = t
            /\ UNCHANGED <<now, every>>

ASilence == /\ mode = "ringing"
            /\ mode' = "search"
            /\ again' = None
            /\ IF again = None
                 THEN due' = due
                 ELSE /\ due'[again] > now
                      /\ due' = [due EXCEPT ![again] = due'[again]]
            /\ UNCHANGED <<now, every>>

AResume == /\ mode = "search"
           /\ \A t \in Alarms : ~IsDue(t)
           /\ mode' = "client"
           /\ UNCHANGED <<now, due, every, again>>

AUndefined == /\ mode = "search"
              /\ \A t \in Alarms : ~On(t)
              /\ mode' = "undefined"
              /\ UNCHANGED <<now, due, every, again>>

ANext == \/ ATick
         \/ \E t \in Alarms : ASet(t) \/ ARing(t)
         \/ \E S \in SUBSET Alarms : ACancel(S)
         \/ ASearch \/ ASilence \/ AResume \/ AUndefined

ASpec == AInit /\ [][ANext]_avars
=============================================================================
