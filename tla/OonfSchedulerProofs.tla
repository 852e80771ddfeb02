------------------------ MODULE OonfSchedulerProofs ------------------------
(***************************************************************************)
(* Proofs about the timers for every set of timers and classes, every time *)
(* slice and every jitter of at most 50 percent, and about the main loop   *)
(* around them for every number of timers, sockets and descriptors: it     *)
(* never sleeps through a timer, and it serves every socket that was       *)
(* reported ready, whatever the handlers do to the list.                   *)
(***************************************************************************)
EXTENDS OonfScheduler, ListProofs, FiniteSetTheorems

-----------------------------------------------------------------------------
(* Arithmetic of _calc_clock *)

\* The random percentage never exceeds the jitter it is scaled to.
LEMMA RandomPercent ==
  ASSUME NEW p \in 1..100, NEW R \in Nat, R >= 100 * 101, NEW r \in 0..R
  PROVE  r \div (R \div p) \in 0..p
<1> DEFINE k == R \div p
<1>1. k \in Nat /\ p * k <= R /\ R < p * k + p
  BY SMT
<1>2. k > p
  <2>1. SUFFICES ASSUME k <= p PROVE FALSE
    BY <1>1
  <2>2. p * k <= p * p /\ p * p <= 100 * p
    BY <1>1, <2>1
  <2> QED BY <1>1, <2>2
<1>3. r < (p + 1) * k
  <2>1. (p + 1) * k = p * k + k
    BY <1>1
  <2> QED BY <1>1, <1>2, <2>1
<1> HIDE DEF k
<1>4. r \div k \in Nat /\ k * (r \div k) <= r
  BY <1>1, <1>2
<1>5. r \div k <= p
  <2> DEFINE q == r \div k
  <2>1. SUFFICES ASSUME q >= p + 1 PROVE FALSE
    BY <1>4
  <2> HIDE DEF q
  <2>2. q \in Nat /\ k * q <= r
    BY <1>4 DEF q
  <2>3. k * q >= k * (p + 1)
    BY <2>1, <2>2, <1>1
  <2> QED BY <2>2, <2>3, <1>1, <1>3
<1> QED BY <1>4, <1>5 DEF k

\* Half of a time that was scaled by at most 50 percent, taken off twice.
LEMMA HalfTime ==
  ASSUME NEW j \in 0..50, NEW rel \in Nat
  PROVE  /\ (j * rel) \div 100 \in Nat
         /\ 2 * ((j * rel) \div 100) <= rel
<1>1. j * rel \in Nat /\ j * rel <= 50 * rel
  BY SMT
<1> QED BY <1>1

\* Rounding down to a multiple loses less than the modulus.
LEMMA RoundDown ==
  ASSUME NEW x \in Nat, NEW s \in Nat \ {0}
  PROVE  /\ x - (x % s) \in Nat
         /\ x - (x % s) <= x
         /\ x - (x % s) > x - s
<1>1. x % s \in 0..(s - 1) /\ x % s <= x
  BY SMT
<1> QED BY <1>1

\* A timer is always started for a time after now, and no later than one slice
\* after the time asked for; without jitter also not before that time.
LEMMA CalcClock ==
  ASSUME HalfJitter, now \in 0..MaxNow,
         NEW t \in Timers, NEW rel \in RelTimes \cup {0}, NEW rnd \in 0..RandMax
  PROVE  /\ calc_clock(t, rel, rnd) \in 0..(Word - 1)
         /\ calc_clock(t, rel, rnd) > now
         /\ calc_clock(t, rel, rnd) <= now + rel + Slice
         /\ Jitter[t] = 0 => calc_clock(t, rel, rnd) > now + rel
<1> DEFINE jt == JitterTime(t, rel, rnd)
           x == now + rel - 2 * jt + Slice
<1>1. rel \in Nat /\ MaxNow + rel + Slice < Word /\ Word \in Nat
  BY TimesAssumption
<1>2. Jitter[t] \in 0..50
  BY TimersAssumption DEF HalfJitter
<1>3. RandomJitter(t, rnd) \in 0..50 /\ (Jitter[t] = 0 => RandomJitter(t, rnd) = 0)
  <2>1. CASE Jitter[t] = 0
    BY <2>1 DEF RandomJitter
  <2>2. CASE Jitter[t] # 0
    <3>1. Jitter[t] \in 1..100
      BY <1>2, <2>2
    <3>2. rnd \div (RandMax \div Jitter[t]) \in 0..Jitter[t]
      BY <3>1, RandomPercent, RandomAssumption
    <3> QED BY <1>2, <2>2, <3>2 DEF RandomJitter
  <2> QED BY <2>1, <2>2
<1>4. jt \in Nat /\ 2 * jt <= rel /\ (Jitter[t] = 0 => jt = 0)
  <2>1. jt \in Nat /\ 2 * jt <= rel
    BY <1>1, <1>3, HalfTime DEF JitterTime
  <2>2. Jitter[t] = 0 => jt = 0
    BY <1>1, <1>3 DEF JitterTime
  <2> QED BY <2>1, <2>2
<1> HIDE DEF jt
<1>5. x \in Nat /\ x < Word /\ x >= now + Slice /\ x <= now + rel + Slice
  BY <1>1, <1>4, TimesAssumption
<1>6. x % Word = x
  BY <1>1, <1>5
<1>7. calc_clock(t, rel, rnd) = x - (x % Slice)
  BY <1>6 DEF calc_clock, jt
<1>8. Jitter[t] = 0 => x = now + rel + Slice
  BY <1>1, <1>4, TimesAssumption
<1> HIDE DEF x
<1>9. /\ x - (x % Slice) \in Nat
      /\ x - (x % Slice) <= x
      /\ x - (x % Slice) > x - Slice
  BY <1>5, RoundDown, TimesAssumption
<1> QED BY <1>1, <1>5, <1>7, <1>8, <1>9, TimesAssumption

-----------------------------------------------------------------------------
(* The inductive invariant.  ActiveIffInTree alone is not inductive: that a  *)
(* restart finds the timer in the tree, and that the walk restarts only a    *)
(* timer that runs, needs the other conjuncts.                               *)

\* The timers of a class that is not periodic have no period.
OneShotHasNoPeriod == \A t \in Timers : ~Periodic[InfoOf[t]] => period[t] = 0

IInv == /\ TypeOK
        /\ ActiveIffInTree
        /\ UsageIsCount
        /\ RearmsOnlyLiveTimer
        /\ RunningIsRegistered
        /\ WithinSlice
        /\ OneShotHasNoPeriod

\* The part of the invariant about the entries, without the walk.
EntryInv == /\ tree \in SUBSET Timers
            /\ clock \in [Timers -> 0..(Word - 1)]
            /\ period \in [Timers -> RelTimes \cup {0}]
            /\ random \in [Timers -> 0..RandMax]
            /\ usage \in [Infos -> Nat]
            /\ asked \in [Timers -> [at : 0..MaxNow, rel : RelTimes \cup {0}]]
            /\ ActiveIffInTree
            /\ UsageIsCount
            /\ WithinSlice
            /\ OneShotHasNoPeriod

\* The timers of a class in the tree are a finite set.
LEMMA ClassFinite ==
  ASSUME NEW T \in SUBSET Timers, NEW i
  PROVE  IsFiniteSet({t \in T : InfoOf[t] = i})
<1>1. {t \in T : InfoOf[t] = i} \in SUBSET Timers
  OBVIOUS
<1> QED BY <1>1, FS_Subset, TimersAssumption

\* oonf_timer_start_ext() keeps the entries consistent.
LEMMA StartKeepsEntries ==
  ASSUME HalfJitter, EntryInv, now \in 0..MaxNow,
         NEW t \in Timers, NEW first \in RelTimes \cup {0},
         NEW interval \in RelTimes \cup {0}, NEW rnd \in 0..RandMax,
         StartEntry(t, first, interval, rnd)
  PROVE  EntryInv' /\ tree' = tree \cup {t}
<1> DEFINE c == calc_clock(t, first, rnd)
<1>1. /\ c \in 0..(Word - 1)
      /\ c > now
      /\ c <= now + first + Slice
      /\ Jitter[t] = 0 => c > now + first
  BY CalcClock
<1>2. clock' = [clock EXCEPT ![t] = c]
  BY DEF StartEntry
<1> HIDE DEF c
<1>3. /\ tree' = tree \cup {t}
      /\ random' = [random EXCEPT ![t] = rnd]
      /\ period' = [period EXCEPT ![t] = IF Periodic[InfoOf[t]] THEN interval ELSE 0]
      /\ asked' = [asked EXCEPT ![t] = [at |-> now, rel |-> first]]
      /\ usage' = IF clock[t] # 0 THEN usage
                  ELSE [usage EXCEPT ![InfoOf[t]] = @ + 1]
  BY DEF StartEntry
<1>4. InfoOf[t] \in Infos
  BY TimersAssumption
<1>5. /\ tree' \in SUBSET Timers
      /\ clock' \in [Timers -> 0..(Word - 1)]
      /\ random' \in [Timers -> 0..RandMax]
      /\ usage' \in [Infos -> Nat]
  BY <1>1, <1>2, <1>3, <1>4 DEF EntryInv
<1>6. period' \in [Timers -> RelTimes \cup {0}]
  BY <1>3 DEF EntryInv
<1>7. asked' \in [Timers -> [at : 0..MaxNow, rel : RelTimes \cup {0}]]
  BY <1>3 DEF EntryInv
<1>8. ActiveIffInTree'
  <2>1. c # 0
    BY <1>1
  <2> QED BY <2>1, <1>2, <1>3 DEF EntryInv, ActiveIffInTree, oonf_timer_is_active
<1>9. WithinSlice'
  <2>1. SUFFICES ASSUME NEW u \in tree', Jitter[u] = 0
                 PROVE  /\ clock'[u] > asked'[u].at + asked'[u].rel
                        /\ clock'[u] <= asked'[u].at + asked'[u].rel + Slice
    BY DEF WithinSlice
  <2>2. CASE u = t
    BY <2>1, <2>2, <1>1, <1>2, <1>3 DEF EntryInv
  <2>3. CASE u # t
    BY <2>1, <2>3, <1>2, <1>3 DEF EntryInv, WithinSlice
  <2> QED BY <2>2, <2>3
<1>10. UsageIsCount'
  <2>1. SUFFICES ASSUME NEW i \in Infos
                 PROVE  usage'[i] = Cardinality({u \in tree' : InfoOf[u] = i})
    BY DEF UsageIsCount
  <2> DEFINE C == {u \in tree : InfoOf[u] = i}
  <2>2. IsFiniteSet(C) /\ usage[i] = Cardinality(C)
    BY ClassFinite DEF EntryInv, UsageIsCount
  <2>3. CASE i = InfoOf[t]
    <3>1. {u \in tree' : InfoOf[u] = i} = C \cup {t}
      BY <2>3, <1>3
    <3>2. t \in C <=> clock[t] # 0
      BY <2>3 DEF EntryInv, ActiveIffInTree, oonf_timer_is_active
    <3>3. Cardinality(C \cup {t}) = IF t \in C THEN Cardinality(C) ELSE Cardinality(C) + 1
      BY <2>2, FS_AddElement
    <3>4. usage'[i] = IF clock[t] # 0 THEN usage[i] ELSE usage[i] + 1
      BY <2>3, <1>3 DEF EntryInv
    <3> HIDE DEF C
    <3> QED BY <2>2, <3>1, <3>2, <3>3, <3>4
  <2>4. CASE i # InfoOf[t]
    <3>1. {u \in tree' : InfoOf[u] = i} = C
      BY <2>4, <1>3
    <3>2. usage'[i] = usage[i]
      BY <2>4, <1>3 DEF EntryInv
    <3> QED BY <2>2, <3>1, <3>2
  <2> QED BY <2>3, <2>4
<1>11. OneShotHasNoPeriod'
  BY <1>3 DEF EntryInv, OneShotHasNoPeriod
<1> QED BY <1>3, <1>5, <1>6, <1>7, <1>8, <1>9, <1>10, <1>11 DEF EntryInv

\* Stopping any running timers of one class keeps the entries consistent.
LEMMA StopKeepsEntries ==
  ASSUME EntryInv, NEW i \in Infos, NEW S \in SUBSET tree,
         \A t \in S : InfoOf[t] = i,
         StopEntries(S, i)
  PROVE  EntryInv' /\ tree' = tree \ S
<1>1. /\ tree' = tree \ S
      /\ clock' = [t \in Timers |-> IF t \in S THEN 0 ELSE clock[t]]
      /\ random' = [t \in Timers |-> IF t \in S THEN 0 ELSE random[t]]
      /\ usage' = [usage EXCEPT ![i] = @ - Cardinality(S)]
      /\ period' = period
      /\ asked' = asked
  BY DEF StopEntries
<1>2. /\ tree' \in SUBSET Timers
      /\ clock' \in [Timers -> 0..(Word - 1)]
      /\ random' \in [Timers -> 0..RandMax]
  BY <1>1, TimesAssumption, RandomAssumption DEF EntryInv
<1>3. ActiveIffInTree'
  BY <1>1 DEF EntryInv, ActiveIffInTree, oonf_timer_is_active
<1>4. WithinSlice'
  BY <1>1 DEF EntryInv, WithinSlice
<1>5. ASSUME NEW k \in Infos
      PROVE  /\ usage'[k] = Cardinality({u \in tree' : InfoOf[u] = k})
             /\ usage'[k] \in Nat
  <2> DEFINE C == {u \in tree : InfoOf[u] = k}
  <2>1. IsFiniteSet(C) /\ usage[k] = Cardinality(C)
    BY ClassFinite DEF EntryInv, UsageIsCount
  <2>2. CASE k = i
    <3>1. {u \in tree' : InfoOf[u] = k} = C \ S
      BY <1>1
    <3>2. C \cap S = S
      BY <2>2
    <3> HIDE DEF C
    <3>3. /\ IsFiniteSet(C \ S)
          /\ Cardinality(C \ S) = Cardinality(C) - Cardinality(S)
      <4>1. /\ IsFiniteSet(C \ S)
            /\ Cardinality(C \ S) = Cardinality(C) - Cardinality(C \cap S)
        BY ONLY <2>1, FS_Difference
      <4> QED BY <4>1, <3>2
    <3>4. Cardinality(C \ S) \in Nat
      BY <3>3, FS_CardinalityType
    <3>5. usage'[k] = usage[k] - Cardinality(S)
      BY <1>1, <2>2 DEF EntryInv
    <3> QED BY <2>1, <3>1, <3>3, <3>4, <3>5
  <2>3. CASE k # i
    <3>1. {u \in tree' : InfoOf[u] = k} = C
      BY <1>1, <2>3
    <3>2. usage'[k] = usage[k] /\ usage[k] \in Nat
      BY <1>1, <2>3 DEF EntryInv
    <3> QED BY <2>1, <3>1, <3>2
  <2> QED BY <2>2, <2>3
<1>6. usage' \in [Infos -> Nat]
  <2>1. usage' \in [Infos -> Int]
    <3>1. Cardinality(S) \in Nat
      <4>1. IsFiniteSet(S)
        BY FS_Subset, TimersAssumption DEF EntryInv
      <4> QED BY <4>1, FS_CardinalityType
    <3> QED BY <1>1, <3>1 DEF EntryInv
  <2> QED BY <1>5, <2>1
<1>7. OneShotHasNoPeriod'
  BY <1>1 DEF EntryInv, OneShotHasNoPeriod
<1> QED BY <1>1, <1>2, <1>3, <1>4, <1>5, <1>6, <1>7 DEF EntryInv, UsageIsCount

-----------------------------------------------------------------------------
(* The invariant holds initially and is kept by every step *)

\* Splitting the invariant into its part about the entries and the rest.
LEMMA IInvParts ==
  IInv <=> /\ EntryInv
           /\ now \in 0..MaxNow
           /\ registered \in SUBSET Infos
           /\ inCallback \in [Infos -> Timers \cup {None}]
           /\ stopped \in [Infos -> BOOLEAN]
           /\ phase \in Phases
           /\ running \in Timers \cup {None}
           /\ (phase = "callback" <=> running # None)
           /\ RearmsOnlyLiveTimer
           /\ RunningIsRegistered
BY DEF IInv, EntryInv, TypeOK

\* The same facts of the state after the step.
LEMMA IInvPartsPrime ==
  IInv' <=> /\ EntryInv'
            /\ now' \in 0..MaxNow
            /\ registered' \in SUBSET Infos
            /\ inCallback' \in [Infos -> Timers \cup {None}]
            /\ stopped' \in [Infos -> BOOLEAN]
            /\ phase' \in Phases
            /\ running' \in Timers \cup {None}
            /\ (phase' = "callback" <=> running' # None)
            /\ RearmsOnlyLiveTimer'
            /\ RunningIsRegistered'
BY DEF IInv, EntryInv, TypeOK

\* The subsystem starts with the invariant.
LEMMA InitIInv == Init => IInv
<1> SUFFICES ASSUME Init PROVE IInv
  OBVIOUS
<1>1. /\ ActiveIffInTree
      /\ WithinSlice
      /\ RunningIsRegistered
      /\ RearmsOnlyLiveTimer
      /\ OneShotHasNoPeriod
  BY DEF Init, OneShotHasNoPeriod, ActiveIffInTree, oonf_timer_is_active, WithinSlice,
         RunningIsRegistered, RearmsOnlyLiveTimer
<1>2. UsageIsCount
  <2>1. ASSUME NEW i \in Infos
        PROVE  {t \in tree : InfoOf[t] = i} = {} /\ usage[i] = 0
    BY DEF Init
  <2> QED BY <2>1, FS_EmptySet DEF UsageIsCount
<1>3. /\ now \in 0..MaxNow
      /\ registered \in SUBSET Infos
      /\ tree \in SUBSET Timers
      /\ clock \in [Timers -> 0..(Word - 1)]
      /\ period \in [Timers -> RelTimes \cup {0}]
      /\ random \in [Timers -> 0..RandMax]
      /\ usage \in [Infos -> Nat]
  BY TimesAssumption, RandomAssumption DEF Init
<1>4. /\ inCallback \in [Infos -> Timers \cup {None}]
      /\ stopped \in [Infos -> BOOLEAN]
      /\ phase \in Phases
      /\ running \in Timers \cup {None}
      /\ phase = "callback" <=> running # None
  BY DEF Init, Phases
<1>5. asked \in [Timers -> [at : 0..MaxNow, rel : RelTimes \cup {0}]]
  BY TimesAssumption DEF Init
<1> QED BY <1>1, <1>2, <1>3, <1>4, <1>5 DEF IInv, TypeOK

\* A step that leaves the entries and the walk alone.
LEMMA EntriesUnchanged ==
  ASSUME EntryInv, UNCHANGED entryVars
  PROVE  EntryInv' /\ tree' = tree
BY DEF EntryInv, entryVars, ActiveIffInTree, oonf_timer_is_active, UsageIsCount,
       WithinSlice, OneShotHasNoPeriod

\* oonf_timer_start_ext() keeps it, outside of the walk and in a callback.
LEMMA StartKeepsIInv ==
  ASSUME HalfJitter, IInv, NEW t \in Timers,
         NEW first \in RelTimes, NEW interval \in RelTimes,
         oonf_timer_start_ext(t, first, interval)
  PROVE  IInv'
<1>1. PICK r \in RandomValues :
        StartEntry(t, first, interval, IF random[t] = 0 THEN r ELSE random[t])
  BY DEF oonf_timer_start_ext
<1>2. (IF random[t] = 0 THEN r ELSE random[t]) \in 0..RandMax
  BY RandomAssumption DEF IInv, TypeOK
<1>3. EntryInv' /\ tree' = tree \cup {t}
  BY <1>1, <1>2, StartKeepsEntries, IInvParts
<1>4. /\ InfoOf[t] \in registered
      /\ UNCHANGED <<now, registered, walkVars, stopped>>
  BY DEF oonf_timer_start_ext
<1>5. RearmsOnlyLiveTimer' /\ RunningIsRegistered'
  BY <1>3, <1>4 DEF IInv, RearmsOnlyLiveTimer, RunningIsRegistered, walkVars
<1> QED BY <1>3, <1>4, <1>5, IInvParts, IInvPartsPrime DEF walkVars

\* Common to oonf_timer_stop() and oonf_timer_remove().
LEMMA StoppingKeepsIInv ==
  ASSUME IInv, NEW i \in Infos, NEW S \in SUBSET tree,
         \A t \in S : InfoOf[t] = i,
         StopEntries(S, i), FlagStopped(S, i),
         registered' \in SUBSET Infos,
         \A t \in tree \ S : InfoOf[t] \in registered',
         UNCHANGED <<now, walkVars>>
  PROVE  IInv'
<1>1. EntryInv' /\ tree' = tree \ S
  BY StopKeepsEntries, IInvParts
<1>2. /\ stopped' \in [Infos -> BOOLEAN]
      /\ \A k \in Infos : k # i => stopped'[k] = stopped[k]
      /\ inCallback[i] \in S => stopped'[i]
      /\ stopped[i] => stopped'[i]
  BY DEF FlagStopped, IInv, TypeOK
<1>3. RunningIsRegistered'
  BY <1>1 DEF RunningIsRegistered
<1>4. RearmsOnlyLiveTimer'
  <2>1. SUFFICES ASSUME phase = "callback", ~stopped'[InfoOf[running]]
                 PROVE  running \in tree' /\ inCallback[InfoOf[running]] = running
    BY DEF RearmsOnlyLiveTimer, walkVars
  <2>2. running \in Timers /\ InfoOf[running] \in Infos
    BY <2>1, TimersAssumption DEF IInv, TypeOK
  <2>3. ~stopped[InfoOf[running]]
    BY <2>1, <2>2, <1>2 DEF IInv, TypeOK
  <2>4. running \in tree /\ inCallback[InfoOf[running]] = running
    BY <2>1, <2>3 DEF IInv, RearmsOnlyLiveTimer
  <2>5. running \notin S
    BY <2>1, <2>4, <1>2
  <2> QED BY <2>4, <2>5, <1>1
<1> QED BY <1>1, <1>2, <1>3, <1>4, IInvParts, IInvPartsPrime DEF walkVars

\* oonf_timer_stop() keeps it.
LEMMA StopKeepsIInv ==
  ASSUME IInv, NEW t \in Timers, oonf_timer_stop(t)
  PROVE  IInv'
<1>1. InfoOf[t] \in Infos /\ {t} \in SUBSET tree
  BY TimersAssumption DEF oonf_timer_stop, IInv, ActiveIffInTree, oonf_timer_is_active
<1>2. /\ registered' \in SUBSET Infos
      /\ \A u \in tree \ {t} : InfoOf[u] \in registered'
  BY DEF oonf_timer_stop, IInv, TypeOK, RunningIsRegistered
<1> QED BY <1>1, <1>2, StoppingKeepsIInv DEF oonf_timer_stop

\* oonf_timer_remove() keeps it: it stops all timers of the class.
LEMMA RemoveKeepsIInv ==
  ASSUME IInv, NEW i \in Infos, oonf_timer_remove(i)
  PROVE  IInv'
<1> DEFINE S == {t \in tree : InfoOf[t] = i}
<1>1. S \in SUBSET tree /\ \A t \in S : InfoOf[t] = i
  OBVIOUS
<1>2. StopEntries(S, i) /\ FlagStopped(S, i) /\ UNCHANGED <<now, walkVars>>
  BY DEF oonf_timer_remove
<1>3. registered' = registered \ {i}
  BY DEF oonf_timer_remove
<1>4. registered' \in SUBSET Infos /\ \A t \in tree \ S : InfoOf[t] \in registered'
  BY <1>3 DEF IInv, TypeOK, RunningIsRegistered
<1> HIDE DEF S
<1> QED BY <1>1, <1>2, <1>4, StoppingKeepsIInv

\* The walk keeps it when it fires a timer, periodic or not.
LEMMA FireKeepsIInv ==
  ASSUME IInv, NEW t \in Timers, WalkFire(t)
  PROVE  IInv'
<1>1. InfoOf[t] \in Infos /\ t \in tree /\ clock[t] # 0
  BY TimersAssumption
     DEF WalkFire, IsFirst, IInv, ActiveIffInTree, oonf_timer_is_active
<1>2. /\ phase' = "callback"
      /\ running' = t
      /\ inCallback' = [inCallback EXCEPT ![InfoOf[t]] = t]
      /\ UNCHANGED <<now, registered>>
  BY DEF WalkFire
<1>3. CASE period[t] = 0
  <2>1. StopEntries({t}, InfoOf[t]) /\ stopped' = [stopped EXCEPT ![InfoOf[t]] = TRUE]
    BY <1>1, <1>3 DEF WalkFire
  <2>2. EntryInv' /\ tree' = tree \ {t}
    BY <1>1, <2>1, StopKeepsEntries, IInvParts
  <2>3. stopped' \in [Infos -> BOOLEAN] /\ stopped'[InfoOf[t]]
    BY <1>1, <2>1 DEF IInv, TypeOK
  <2>4. RearmsOnlyLiveTimer' /\ RunningIsRegistered'
    BY <1>2, <2>2, <2>3 DEF IInv, RearmsOnlyLiveTimer, RunningIsRegistered
  <2>5. inCallback' \in [Infos -> Timers \cup {None}]
    BY <1>1, <1>2 DEF IInv, TypeOK
  <2>6. phase' \in Phases /\ t # None
    BY <1>2, TimersAssumption DEF Phases
  <2> QED BY <1>2, <2>2, <2>3, <2>4, <2>5, <2>6, IInvParts, IInvPartsPrime
<1>4. CASE period[t] # 0
  <2>1. stopped' = [stopped EXCEPT ![InfoOf[t]] = FALSE] /\ UNCHANGED entryVars
    BY <1>1, <1>4 DEF WalkFire
  <2>2. EntryInv' /\ tree' = tree
    BY <2>1, EntriesUnchanged, IInvParts
  <2>3. stopped' \in [Infos -> BOOLEAN]
    BY <1>1, <2>1 DEF IInv, TypeOK
  <2>4. inCallback' \in [Infos -> Timers \cup {None}] /\ inCallback'[InfoOf[t]] = t
    BY <1>1, <1>2 DEF IInv, TypeOK
  <2>5. RearmsOnlyLiveTimer' /\ RunningIsRegistered'
    BY <1>1, <1>2, <2>2, <2>4 DEF IInv, RearmsOnlyLiveTimer, RunningIsRegistered
  <2>6. phase' \in Phases /\ t # None
    BY <1>2, TimersAssumption DEF Phases
  <2> QED BY <1>2, <2>2, <2>3, <2>4, <2>5, <2>6, IInvParts, IInvPartsPrime
<1> QED BY <1>3, <1>4

\* The walk keeps it when a callback returns: what is started again still runs.
LEMMA ReturnKeepsIInv ==
  ASSUME HalfJitter, IInv, WalkReturn
  PROVE  IInv'
<1>1. /\ phase' = "walk"
      /\ running' = None
      /\ UNCHANGED <<now, registered, inCallback, stopped>>
  BY DEF WalkReturn
<1>2. running \in Timers
  BY DEF WalkReturn, IInv, TypeOK
<1>3. EntryInv' /\ tree' = tree
  <2>1. CASE stopped[InfoOf[running]]
    BY <2>1, EntriesUnchanged, IInvParts DEF WalkReturn
  <2>2. CASE ~stopped[InfoOf[running]]
    <3>1. PICK r \in RandomValues :
            StartEntry(running, period[running], period[running], r)
      BY <2>2 DEF WalkReturn
    <3>2. r \in 0..RandMax /\ period[running] \in RelTimes \cup {0}
      BY <1>2, RandomAssumption DEF IInv, TypeOK
    <3>3. EntryInv' /\ tree' = tree \cup {running}
      BY <1>2, <3>1, <3>2, StartKeepsEntries, IInvParts
    <3>4. running \in tree
      BY <2>2 DEF WalkReturn, IInv, RearmsOnlyLiveTimer
    <3> QED BY <3>3, <3>4
  <2> QED BY <2>1, <2>2
<1>4. RearmsOnlyLiveTimer' /\ RunningIsRegistered'
  BY <1>1, <1>3 DEF IInv, RearmsOnlyLiveTimer, RunningIsRegistered
<1>5. phase' \in Phases
  BY <1>1 DEF Phases
<1> QED BY <1>1, <1>3, <1>4, <1>5, IInvParts, IInvPartsPrime

\* The steps of the walk that only move it on, the clock and registration.
LEMMA OtherStepsKeepIInv ==
  ASSUME IInv,
         \/ \E n \in 0..MaxNow : oonf_clock_update(n)
         \/ \E i \in Infos : oonf_timer_add(i)
         \/ WalkBegin \/ WalkEnd \/ WalkEmpty \/ Halted
         \/ UNCHANGED vars
  PROVE  IInv'
<1>1. UNCHANGED entryVars /\ UNCHANGED <<running, inCallback, stopped>>
  BY DEF oonf_clock_update, oonf_timer_add, WalkBegin, WalkEnd, WalkEmpty, Halted,
         vars, walkVars
<1>2. EntryInv' /\ tree' = tree
  BY <1>1, EntriesUnchanged, IInvParts
<1>3. now' \in 0..MaxNow /\ registered' \in SUBSET Infos /\ registered \subseteq registered'
  BY DEF oonf_clock_update, oonf_timer_add, WalkBegin, WalkEnd, WalkEmpty, Halted,
         vars, walkVars, IInv, TypeOK
<1>4. phase' \in Phases /\ (phase' = "callback" <=> phase = "callback")
  BY DEF oonf_clock_update, oonf_timer_add, WalkBegin, WalkEnd, WalkEmpty, Halted,
         vars, walkVars, IInv, TypeOK, Phases
<1>5. RearmsOnlyLiveTimer' /\ RunningIsRegistered'
  BY <1>1, <1>2, <1>3, <1>4 DEF IInv, RearmsOnlyLiveTimer, RunningIsRegistered
<1> QED BY <1>1, <1>2, <1>3, <1>4, <1>5, IInvParts, IInvPartsPrime

\* Every step keeps it.
LEMMA NextKeepsIInv ==
  ASSUME HalfJitter, IInv, [Next]_vars
  PROVE  IInv'
<1>1. CASE Call
  <2>1. ASSUME NEW t \in Timers, NEW first \in RelTimes, NEW interval \in RelTimes,
               oonf_timer_set_ext(t, first, interval)
        PROVE  IInv'
    BY <2>1, StartKeepsIInv, StopKeepsIInv DEF oonf_timer_set_ext
  <2> QED BY <1>1, <2>1, StartKeepsIInv, StopKeepsIInv, RemoveKeepsIInv,
             OtherStepsKeepIInv DEF Call
<1>2. CASE Walk
  BY <1>2, FireKeepsIInv, ReturnKeepsIInv, OtherStepsKeepIInv DEF Walk, Fire
<1>3. CASE \/ \E n \in 0..MaxNow : oonf_clock_update(n)
           \/ Halted
           \/ UNCHANGED vars
  BY <1>3, OtherStepsKeepIInv
<1> QED BY <1>1, <1>2, <1>3 DEF Next

\* Every reachable state of the timer subsystem satisfies the invariant, as
\* long as no timer uses more than 50 percent of jitter.
THEOREM TimerInvariant ==
  ASSUME HalfJitter PROVE Spec => []IInv
<1>1. Init => IInv
  BY InitIInv
<1>2. IInv /\ [Next]_vars => IInv'
  BY NextKeepsIInv
<1> QED BY <1>1, <1>2, PTL DEF Spec

\* oonf_timer_start_ext(), _stop() and _walk() keep every field in its range.
THEOREM TimerTypeOK ==
  ASSUME HalfJitter PROVE Spec => []TypeOK
<1>1. IInv => TypeOK
  BY DEF IInv
<1> QED BY <1>1, TimerInvariant, PTL

\* oonf_timer_is_active() tells the truth.
THEOREM TimerActiveIffInTree ==
  ASSUME HalfJitter PROVE Spec => []ActiveIffInTree
<1>1. IInv => ActiveIffInTree
  BY DEF IInv
<1> QED BY <1>1, TimerInvariant, PTL

\* info->usage is the number of running timers of the class.
THEOREM TimerUsageIsCount ==
  ASSUME HalfJitter PROVE Spec => []UsageIsCount
<1>1. IInv => UsageIsCount
  BY DEF IInv
<1> QED BY <1>1, TimerInvariant, PTL

\* The walk never touches a timer again that its callback stopped.
THEOREM TimerRearmsOnlyLiveTimer ==
  ASSUME HalfJitter PROVE Spec => []RearmsOnlyLiveTimer
<1>1. IInv => RearmsOnlyLiveTimer
  BY DEF IInv
<1> QED BY <1>1, TimerInvariant, PTL

\* A timer without jitter fires in the timeslice after the time asked for.
THEOREM TimerWithinSlice ==
  ASSUME HalfJitter PROVE Spec => []WithinSlice
<1>1. IInv => WithinSlice
  BY DEF IInv
<1> QED BY <1>1, TimerInvariant, PTL

-----------------------------------------------------------------------------
(* What a step may do *)

\* Whoever starts a timer starts it for the future.
LEMMA StartInFuture ==
  ASSUME HalfJitter, IInv, NEW t \in Timers, NEW first \in RelTimes \cup {0},
         NEW interval, NEW rnd \in 0..RandMax, StartEntry(t, first, interval, rnd)
  PROVE  /\ clock'[t] > now
         /\ clock' = [clock EXCEPT ![t] = clock'[t]]
         /\ period' = [period EXCEPT ![t] = period'[t]]
<1>1. clock' = [clock EXCEPT ![t] = calc_clock(t, first, rnd)]
  BY DEF StartEntry
<1>2. clock'[t] = calc_clock(t, first, rnd)
  BY <1>1 DEF IInv, TypeOK
<1>3. calc_clock(t, first, rnd) > now
  BY CalcClock DEF IInv, TypeOK
<1>4. period' = [period EXCEPT ![t] = period'[t]]
  BY DEF StartEntry, IInv, TypeOK
<1> QED BY <1>1, <1>2, <1>3, <1>4

\* A step that ends the walk finds no timer that is due.
LEMMA WalkLeavesNoneDueStep ==
  ASSUME IInv, [Next]_vars, phase = "walk", phase' = "idle"
  PROVE  \A t \in tree : clock[t] > now
<1>1. CASE WalkEnd
  <2>1. PICK t \in tree : IsFirst(t) /\ clock[t] > now
    BY <1>1 DEF WalkEnd
  <2>2. clock \in [Timers -> 0..(Word - 1)] /\ tree \subseteq Timers /\ now \in Int
    BY TimesAssumption DEF IInv, TypeOK
  <2> QED BY <2>1, <2>2, TimesAssumption DEF IsFirst
<1>2. CASE WalkEmpty
  BY <1>2 DEF WalkEmpty
<1>3. WalkEnd \/ WalkEmpty
  <2>1. ASSUME NEW t \in Timers, NEW first \in RelTimes, NEW interval \in RelTimes
        PROVE  /\ ~oonf_timer_start_ext(t, first, interval)
               /\ ~oonf_timer_stop(t)
               /\ ~oonf_timer_set_ext(t, first, interval)
    BY DEF oonf_timer_start_ext, oonf_timer_stop, oonf_timer_set_ext, UserRuns
  <2>2. ASSUME NEW t \in Timers PROVE ~oonf_timer_stop(t)
    BY DEF oonf_timer_stop, UserRuns
  <2>3. ~Call
    BY <2>1, <2>2 DEF Call, oonf_timer_add, oonf_timer_remove, UserRuns
  <2>4. ~Fire /\ ~WalkBegin /\ ~WalkReturn /\ ~Halted /\ phase' # phase
    BY DEF Fire, WalkFire, WalkBegin, WalkReturn, Halted
  <2>5. ~\E n \in 0..MaxNow : oonf_clock_update(n)
    BY DEF oonf_clock_update
  <2> QED BY <2>3, <2>4, <2>5 DEF Next, Walk, vars, walkVars
<1> QED BY <1>1, <1>2, <1>3

\* When oonf_timer_walk() returns, the next event is in the future.
THEOREM TimerWalkLeavesNoneDue ==
  ASSUME HalfJitter PROVE Spec => WalkLeavesNoneDue
<1>1. IInv /\ [Next]_vars =>
        [phase = "walk" /\ phase' = "idle" => \A t \in tree : clock[t] > now]_vars
  BY WalkLeavesNoneDueStep
<1> QED BY <1>1, TimerInvariant, PTL DEF Spec, WalkLeavesNoneDue

-----------------------------------------------------------------------------
(* The subsystem implements the alarm clock *)

USE DEF Alarm!avars, Alarm!On, Alarm!IsDue, Alarm!ClientRuns

\* The initial state is one of the alarm clock.
LEMMA InitRefines == Init => Alarm!AInit
BY DEF Init, Alarm!AInit

\* Starting a timer sets an alarm in the future.
LEMMA StartRefines ==
  ASSUME HalfJitter, IInv, NEW t \in Timers, NEW first \in RelTimes,
         NEW interval \in RelTimes, oonf_timer_start_ext(t, first, interval)
  PROVE  Alarm!ASet(t)
<1>1. PICK r \in RandomValues :
        StartEntry(t, first, interval, IF random[t] = 0 THEN r ELSE random[t])
  BY DEF oonf_timer_start_ext
<1>2. (IF random[t] = 0 THEN r ELSE random[t]) \in 0..RandMax
  BY RandomAssumption DEF IInv, TypeOK
<1>3. /\ clock'[t] > now
      /\ clock' = [clock EXCEPT ![t] = clock'[t]]
      /\ period' = [period EXCEPT ![t] = period'[t]]
  BY <1>1, <1>2, StartInFuture
<1>4. UserRuns /\ UNCHANGED <<now, phase, running, stopped>>
  BY DEF oonf_timer_start_ext, walkVars
<1> QED BY <1>3, <1>4 DEF Alarm!ASet, UserRuns

\* Stopping timers of one class switches these alarms off.
LEMMA StoppingRefines ==
  ASSUME IInv, UserRuns, NEW i \in Infos, NEW S \in SUBSET tree,
         \A t \in S : InfoOf[t] = i, StopEntries(S, i), FlagStopped(S, i),
         UNCHANGED <<now, walkVars>>
  PROVE  Alarm!ACancel(S)
<1>1. /\ clock' = [t \in Timers |-> IF t \in S THEN 0 ELSE clock[t]]
      /\ period' = period
  BY DEF StopEntries
<1>2. UNCHANGED <<now, phase, running, inCallback>>
  BY DEF walkVars
<1> DEFINE again == IF phase = "callback" /\ ~stopped[InfoOf[running]]
                      THEN running ELSE None
<1>3. again' = IF again \in S THEN None ELSE again
  <2>1. CASE phase # "callback"
    BY <2>1, <1>2
  <2>2. CASE phase = "callback" /\ stopped[InfoOf[running]]
    <3>1. stopped'[InfoOf[running]]
      BY <2>2, TimersAssumption DEF FlagStopped, IInv, TypeOK
    <3> QED BY <2>2, <3>1, <1>2
  <2>3. CASE phase = "callback" /\ ~stopped[InfoOf[running]]
    <3>1. running \in tree /\ inCallback[InfoOf[running]] = running /\ InfoOf[running] \in Infos
      BY <2>3, TimersAssumption DEF IInv, RearmsOnlyLiveTimer, TypeOK
    <3>2. CASE running \in S
      <4>1. InfoOf[running] = i /\ stopped'[i]
        BY <3>1, <3>2 DEF FlagStopped, IInv, TypeOK
      <4> QED BY <2>3, <3>2, <4>1, <1>2
    <3>3. CASE running \notin S
      <4>1. ~stopped'[InfoOf[running]]
        BY <2>3, <3>1, <3>3 DEF FlagStopped, IInv, TypeOK
      <4> QED BY <2>3, <3>3, <4>1, <1>2
    <3> QED BY <3>2, <3>3
  <2> QED BY <2>1, <2>2, <2>3
<1> QED BY <1>1, <1>2, <1>3 DEF Alarm!ACancel, UserRuns

\* oonf_timer_stop() switches one alarm off.
LEMMA StopRefines ==
  ASSUME IInv, NEW t \in Timers, oonf_timer_stop(t)
  PROVE  Alarm!ACancel({t})
<1>1. InfoOf[t] \in Infos /\ {t} \in SUBSET tree
  BY TimersAssumption DEF oonf_timer_stop, IInv, ActiveIffInTree, oonf_timer_is_active
<1> QED BY <1>1, StoppingRefines DEF oonf_timer_stop

\* oonf_timer_remove() switches the alarms of a class off.
LEMMA RemoveRefines ==
  ASSUME IInv, NEW i \in Infos, oonf_timer_remove(i)
  PROVE  \E S \in SUBSET Timers : Alarm!ACancel(S)
<1> DEFINE S == {t \in tree : InfoOf[t] = i}
<1>1. S \in SUBSET tree /\ \A t \in S : InfoOf[t] = i
  OBVIOUS
<1>2. UserRuns /\ StopEntries(S, i) /\ FlagStopped(S, i) /\ UNCHANGED <<now, walkVars>>
  BY DEF oonf_timer_remove
<1>3. S \in SUBSET Timers
  BY DEF IInv, TypeOK
<1> HIDE DEF S
<1> QED BY <1>1, <1>2, <1>3, StoppingRefines

\* Firing a timer is the ringing of the earliest alarm that is due.
LEMMA FireRefines ==
  ASSUME IInv, NEW t \in Timers, WalkFire(t)
  PROVE  Alarm!ARing(t)
<1>1. t \in tree /\ clock[t] # 0 /\ InfoOf[t] \in Infos
  BY TimersAssumption
     DEF WalkFire, IsFirst, IInv, ActiveIffInTree, oonf_timer_is_active
<1>2. /\ phase = "walk" /\ phase' = "callback" /\ running' = t
      /\ clock[t] <= now
      /\ now' = now
  BY DEF WalkFire
<1>3. \A u \in Timers : clock[u] # 0 => clock[t] <= clock[u]
  BY DEF WalkFire, IsFirst, IInv, ActiveIffInTree, oonf_timer_is_active
<1>4. period' = period
  BY DEF WalkFire, StopEntries, entryVars
<1>5. CASE period[t] = 0
  <2>1. /\ clock' = [u \in Timers |-> IF u \in {t} THEN 0 ELSE clock[u]]
        /\ stopped' = [stopped EXCEPT ![InfoOf[t]] = TRUE]
    BY <1>1, <1>5 DEF WalkFire, StopEntries
  <2>2. clock' = [clock EXCEPT ![t] = 0] /\ stopped'[InfoOf[t]]
    BY <1>1, <2>1 DEF IInv, TypeOK
  <2> QED BY <1>1, <1>2, <1>3, <1>4, <1>5, <2>2 DEF Alarm!ARing
<1>6. CASE period[t] # 0
  <2>1. clock' = clock /\ stopped' = [stopped EXCEPT ![InfoOf[t]] = FALSE]
    BY <1>1, <1>6 DEF WalkFire, entryVars
  <2>2. ~stopped'[InfoOf[t]]
    BY <1>1, <2>1 DEF IInv, TypeOK
  <2> QED BY <1>1, <1>2, <1>3, <1>4, <1>6, <2>1, <2>2 DEF Alarm!ARing
<1> QED BY <1>5, <1>6

\* The return of a callback ends the ringing, and sets a repeating alarm again.
LEMMA ReturnRefines ==
  ASSUME HalfJitter, IInv, WalkReturn
  PROVE  Alarm!ASilence
<1>1. /\ phase = "callback" /\ phase' = "walk"
      /\ UNCHANGED <<now, stopped>>
  BY DEF WalkReturn
<1>2. running \in Timers /\ running # None
  BY <1>1, TimersAssumption DEF IInv, TypeOK
<1>3. CASE stopped[InfoOf[running]]
  <2>1. clock' = clock /\ period' = period
    BY <1>3 DEF WalkReturn, entryVars
  <2> QED BY <1>1, <1>3, <2>1 DEF Alarm!ASilence
<1>4. CASE ~stopped[InfoOf[running]]
  <2>1. PICK r \in RandomValues :
          StartEntry(running, period[running], period[running], r)
    BY <1>4 DEF WalkReturn
  <2>2. r \in 0..RandMax /\ period[running] \in RelTimes \cup {0}
    BY <1>2, RandomAssumption DEF IInv, TypeOK
  <2>3. clock'[running] > now /\ clock' = [clock EXCEPT ![running] = clock'[running]]
    BY <1>2, <2>1, <2>2, StartInFuture
  <2>4. period' = period
    BY <1>2, <2>1 DEF StartEntry, IInv, TypeOK, OneShotHasNoPeriod
  <2> QED BY <1>1, <1>2, <1>4, <2>3, <2>4 DEF Alarm!ASilence
<1> QED BY <1>3, <1>4

\* Every step of the subsystem is a step of the alarm clock, or none.
LEMMA NextRefines ==
  ASSUME HalfJitter, IInv, [Next]_vars
  PROVE  [Alarm!ANext]_(Alarm!avars)
<1>1. CASE Call
  <2>1. ASSUME NEW i \in Infos, oonf_timer_add(i) PROVE UNCHANGED Alarm!avars
    BY <2>1 DEF oonf_timer_add, entryVars, walkVars
  <2>2. ASSUME NEW t \in Timers, NEW first \in RelTimes, NEW interval \in RelTimes,
               oonf_timer_set_ext(t, first, interval)
        PROVE  Alarm!ASet(t) \/ Alarm!ACancel({t})
    BY <2>2, StartRefines, StopRefines DEF oonf_timer_set_ext
  <2>3. \A t \in Timers : {t} \in SUBSET Timers
    OBVIOUS
  <2> HIDE DEF Alarm!avars
  <2> QED BY <1>1, <2>1, <2>2, <2>3, StartRefines, StopRefines, RemoveRefines
          DEF Call, Alarm!ANext
<1>2. CASE Walk
  <2>1. ASSUME WalkBegin PROVE Alarm!ASearch
    BY <2>1 DEF WalkBegin, Alarm!ASearch, entryVars
  <2>2. ASSUME WalkEnd PROVE Alarm!AResume
    <3>1. PICK t \in tree : IsFirst(t) /\ clock[t] > now
      BY <2>2 DEF WalkEnd
    <3>2. ASSUME NEW u \in Timers, clock[u] # 0 PROVE ~(clock[u] <= now)
      <4>1. clock[t] <= clock[u]
        BY <3>1, <3>2 DEF IsFirst, IInv, ActiveIffInTree, oonf_timer_is_active
      <4>2. clock[t] \in Int /\ clock[u] \in Int /\ now \in Int
        BY <3>1, TimesAssumption DEF IInv, TypeOK
      <4> QED BY <3>1, <4>1, <4>2
    <3> QED BY <2>2, <3>2 DEF WalkEnd, Alarm!AResume, entryVars
  <2>3. ASSUME WalkEmpty PROVE Alarm!AResume \/ Alarm!AUndefined
    <3>1. \A u \in Timers : clock[u] = 0
      BY <2>3 DEF WalkEmpty, IInv, ActiveIffInTree, oonf_timer_is_active
    <3> QED BY <2>3, <3>1 DEF WalkEmpty, Alarm!AResume, Alarm!AUndefined, entryVars
  <2> HIDE DEF Alarm!avars
  <2> QED BY <1>2, <2>1, <2>2, <2>3, FireRefines, ReturnRefines DEF Walk, Fire, Alarm!ANext
<1>3. CASE \E n \in 0..MaxNow : oonf_clock_update(n)
  <2>1. Alarm!ATick
    BY <1>3 DEF oonf_clock_update, Alarm!ATick, entryVars, walkVars, IInv, TypeOK
  <2> QED BY <2>1 DEF Alarm!ANext
<1>4. CASE Halted \/ UNCHANGED vars
  BY <1>4 DEF Halted, vars, entryVars, walkVars
<1> QED BY <1>1, <1>2, <1>3, <1>4 DEF Next

\* The timer subsystem implements the alarm clock: due timers fire earliest
\* first, none is left when the walk returns, a periodic timer is started again
\* exactly if nobody stopped it.
THEOREM TimerImplementsAlarmClock ==
  ASSUME HalfJitter PROVE Spec => ImplementsAlarmClock
<1>1. Init => Alarm!AInit
  BY InitRefines
<1>2. IInv /\ [Next]_vars => [Alarm!ANext]_(Alarm!avars)
  BY NextRefines
<1> HIDE DEF Alarm!avars
<1> QED BY <1>1, <1>2, TimerInvariant, PTL DEF Spec, ImplementsAlarmClock, Alarm!ASpec

-----------------------------------------------------------------------------
(* select() and the timers *)

Places == {"out", "top", "walk", "prepare", "select", "woken", "dispatch", "handler"}

\* The timer subsystem only runs while the loop walks the timers, and what the
\* walk has left is what the timeout of select() is computed from.
WakeInv ==
  /\ IInv
  /\ at \in Places
  /\ stopTime \in 0..(Word - 1) /\ wakeTime \in Nat
  /\ at # "walk" => phase = "idle"
  /\ at \in {"walk", "prepare"} => now < stopTime
  /\ at = "prepare" => /\ tree = {} \/ \E t \in tree : IsFirst(t)
                       /\ \A t \in tree : clock[t] > now
  /\ SelectWakesInTime

\* The calls of programs, handlers and callbacks keep the timers in order.
LEMMA CallKeepsIInv ==
  ASSUME HalfJitter, IInv, Call
  PROVE  IInv' /\ UNCHANGED <<now, phase>>
<1>1. IInv'
  BY NextKeepsIInv DEF Next
<1>2. UNCHANGED <<now, phase>>
  <2>1. ASSUME NEW t \in Timers, NEW first \in RelTimes, NEW interval \in RelTimes,
               oonf_timer_set_ext(t, first, interval) \/ oonf_timer_start_ext(t, first, interval)
        PROVE  UNCHANGED <<now, phase>>
    BY <2>1 DEF oonf_timer_set_ext, oonf_timer_start_ext, oonf_timer_stop, walkVars
  <2>2. ASSUME NEW t \in Timers, oonf_timer_stop(t)
        PROVE  UNCHANGED <<now, phase>>
    BY <2>2 DEF oonf_timer_stop, walkVars
  <2>3. ASSUME NEW i \in Infos, oonf_timer_add(i) \/ oonf_timer_remove(i)
        PROVE  UNCHANGED <<now, phase>>
    BY <2>3 DEF oonf_timer_add, oonf_timer_remove, walkVars
  <2> QED BY <2>1, <2>2, <2>3 DEF Call
<1> QED BY <1>1, <1>2

\* A step that leaves the timers alone.
LEMMA TimersAlone ==
  ASSUME IInv, UNCHANGED timerVars
  PROVE  IInv' /\ UNCHANGED <<now, phase, tree, clock>>
<1>1. UNCHANGED vars
  BY DEF timerVars, vars
<1> QED BY <1>1, OtherStepsKeepIInv DEF vars, entryVars, walkVars

\* A step that moves the clock on, and perhaps begins the walk.
LEMMA ClockKeepsIInv ==
  ASSUME IInv, now' \in 0..MaxNow, phase = "idle", phase' \in {"idle", "walk"},
         UNCHANGED <<registered, entryVars, running, inCallback, stopped>>
  PROVE  IInv' /\ UNCHANGED <<tree, clock>>
<1>1. EntryInv' /\ UNCHANGED <<tree, clock>>
  BY EntriesUnchanged, IInvParts DEF entryVars
<1>2. RearmsOnlyLiveTimer' /\ RunningIsRegistered'
  BY <1>1 DEF IInv, RearmsOnlyLiveTimer, RunningIsRegistered
<1>3. phase' \in Phases /\ running = None
  BY IInvParts DEF Phases
<1> QED BY <1>1, <1>2, <1>3, IInvParts, IInvPartsPrime

\* The program starts with the invariant.
LEMMA InitWakeInv == SInit => WakeInv
BY InitIInv, TimesAssumption DEF SInit, Init, WakeInv, SelectWakesInTime, Places, Forever

\* The walk ends with the first timer known, and none due.
LEMMA WalkKeepsWakeInv ==
  ASSUME HalfJitter, WakeInv, TimerWalk
  PROVE  WakeInv'
<1>1. Walk /\ UNCHANGED <<now, stopTime, wakeTime>>
  BY DEF TimerWalk, Walk, Fire, WalkFire, WalkReturn, WalkEnd, WalkEmpty, loopVars
<1>2. IInv'
  BY <1>1, NextKeepsIInv DEF WakeInv, Next
<1>3. CASE phase' # "idle"
  BY <1>1, <1>2, <1>3 DEF TimerWalk, WakeInv, SelectWakesInTime, Places
<1>4. CASE phase' = "idle"
  <2>1. at' = "prepare" /\ phase = "walk"
    BY <1>4 DEF TimerWalk, Fire, WalkFire, WalkReturn, WalkEnd, WalkEmpty
  <2>2. WalkEnd \/ WalkEmpty
    BY <1>4 DEF TimerWalk, Fire, WalkFire, WalkReturn
  <2>3. UNCHANGED <<tree, clock>>
    BY <2>2 DEF WalkEnd, WalkEmpty, entryVars
  <2>4. tree = {} \/ \E t \in tree : IsFirst(t)
    BY <2>2 DEF WalkEnd, WalkEmpty
  <2>5. \A t \in tree : clock[t] > now
    BY <1>1, <1>4, <2>1, WalkLeavesNoneDueStep DEF WakeInv, Next
  <2> QED BY <1>1, <1>2, <1>4, <2>1, <2>3, <2>4, <2>5
          DEF TimerWalk, WakeInv, SelectWakesInTime, Places, IsFirst
<1> QED BY <1>3, <1>4

\* The timeout of select() is the next timer or the stop time.
LEMMA PrepareKeepsWakeInv ==
  ASSUME WakeInv, Prepare
  PROVE  WakeInv'
<1>1. /\ IInv' /\ UNCHANGED <<now, phase, tree, clock>> /\ phase = "idle"
      /\ stopTime' = stopTime /\ at' = "select"
  BY TimersAlone DEF Prepare, WakeInv
<1>2. /\ now \in Nat /\ stopTime \in Nat /\ Word \in Nat /\ stopTime <= Word - 1
      /\ now < stopTime /\ tree \subseteq Timers /\ clock \in [Timers -> 0..(Word - 1)]
  BY TimesAssumption DEF Prepare, WakeInv, IInv, TypeOK
<1>3. CASE tree = {}
  BY <1>1, <1>2, <1>3 DEF Prepare, WakeInv, SelectWakesInTime, Places, oonf_timer_getNextEvent
<1>4. CASE tree # {}
  <2> DEFINE first == CHOOSE t \in tree : IsFirst(t)
  <2>1. first \in tree /\ IsFirst(first)
    BY <1>4 DEF Prepare, WakeInv
  <2>2. oonf_timer_getNextEvent = clock[first]
    BY <1>4 DEF oonf_timer_getNextEvent
  <2> HIDE DEF first
  <2>3. clock[first] \in Nat /\ clock[first] > now /\ \A u \in tree : clock[first] <= clock[u]
    BY <1>2, <2>1 DEF Prepare, WakeInv, IsFirst
  <2>4. /\ wakeTime' \in Nat /\ wakeTime' > now /\ wakeTime' <= clock[first]
    BY <1>2, <2>2, <2>3 DEF Prepare
  <2>5. \A u \in tree : wakeTime' <= clock[u]
    BY <1>2, <2>3, <2>4
  <2> QED BY <1>1, <2>4, <2>5 DEF WakeInv, SelectWakesInTime, Places
<1> QED BY <1>3, <1>4

\* The other steps of the loop neither look at the timers nor sleep.
LEMMA LoopKeepsWakeInv ==
  ASSUME WakeInv,
         \/ Top \/ Woken
         \/ ClockFails \/ Stopped \/ SelectTimeout \/ SelectError \/ SelectReady
         \/ Dispatch \/ HandlerReturns \/ DispatchEnds
         \/ \E stop \in StopTimes : Enter(stop)
  PROVE  WakeInv'
<1>1. CASE Top
  <2>1. PICK n \in (IF wakeTime > now THEN wakeTime ELSE now)..MaxNow :
          /\ now' = n
          /\ IF n >= stopTime
               THEN Return(0, 0) /\ UNCHANGED phase
               ELSE /\ at' = "walk" /\ phase' = "walk" /\ UNCHANGED stopTime
    BY <1>1 DEF Top
  <2>2. n \in 0..MaxNow
    BY <2>1, TimesAssumption DEF WakeInv, IInv, TypeOK
  <2>3. IInv'
    BY <1>1, <2>1, <2>2, ClockKeepsIInv DEF Top, Return, WakeInv
  <2>4. stopTime' \in 0..(Word - 1) /\ wakeTime' = 0
    BY <1>1, <2>1, TimesAssumption DEF Top, Return, Forever, WakeInv
  <2> QED BY <1>1, <2>1, <2>2, <2>3, <2>4 DEF Top, Return, WakeInv, SelectWakesInTime, Places
<1>2. CASE Woken
  <2>1. now' \in 0..MaxNow /\ phase = "idle" /\ UNCHANGED <<phase, stopTime, wakeTime>> /\ at' = "dispatch"
    BY <1>2, TimesAssumption DEF Woken, WakeInv, IInv, TypeOK, walkVars
  <2>2. IInv'
    BY <1>2, <2>1, ClockKeepsIInv DEF Woken, WakeInv, walkVars
  <2> QED BY <2>1, <2>2 DEF WakeInv, SelectWakesInTime, Places
<1>3. CASE \/ ClockFails \/ Stopped \/ SelectTimeout \/ SelectError \/ SelectReady
           \/ Dispatch \/ HandlerReturns \/ DispatchEnds
           \/ \E stop \in StopTimes : Enter(stop)
  <2>1. UNCHANGED timerVars /\ at # "walk" /\ at' \notin {"walk", "prepare", "select"}
    BY <1>3 DEF ClockFails, Stopped, SelectTimeout, SelectError, SelectReady, Dispatch,
                HandlerReturns, DispatchEnds, Enter, Return
  <2>2. at' \in Places
    BY <1>3 DEF ClockFails, Stopped, SelectTimeout, SelectError, SelectReady, Dispatch,
                HandlerReturns, DispatchEnds, Enter, Return, Places, WakeInv
  <2>3. stopTime' \in 0..(Word - 1) /\ wakeTime' \in Nat
    BY <1>3, TimesAssumption, SocketsAssumption
    DEF ClockFails, Stopped, SelectTimeout, SelectError, SelectReady, Dispatch,
        HandlerReturns, DispatchEnds, Enter, Return, Forever, WakeInv
  <2> QED BY <2>1, <2>2, <2>3, TimersAlone DEF WakeInv, SelectWakesInTime
<1> QED BY <1>1, <1>2, <1>3

\* What programs, handlers and timer callbacks do.
LEMMA UsersKeepWakeInv ==
  ASSUME HalfJitter, WakeInv,
         \/ \E e \in Entries :
              \/ \E f \in Fds, ev \in Wants : oonf_socket_add(e, f, ev)
              \/ oonf_socket_remove(e)
              \/ \E ev \in Wants : oonf_socket_set(e, ev)
         \/ TimerCall \/ Crashed \/ UNCHANGED svars
  PROVE  WakeInv'
<1>1. CASE TimerCall
  <2>1. IInv' /\ UNCHANGED <<now, phase, stopTime, wakeTime, at>>
    BY <1>1, CallKeepsIInv DEF TimerCall, WakeInv, loopVars
  <2>2. at \notin {"prepare", "select"}
    BY <1>1 DEF TimerCall, Running, WakeInv
  <2> QED BY <2>1, <2>2 DEF WakeInv, SelectWakesInTime
<1>2. CASE \/ \E e \in Entries :
                \/ \E f \in Fds, ev \in Wants : oonf_socket_add(e, f, ev)
                \/ oonf_socket_remove(e)
                \/ \E ev \in Wants : oonf_socket_set(e, ev)
           \/ Crashed \/ UNCHANGED svars
  <2>1. UNCHANGED timerVars /\ UNCHANGED <<stopTime, wakeTime, at>>
    BY <1>2 DEF oonf_socket_add, oonf_socket_remove, oonf_socket_set, Crashed, svars, loopVars
  <2>2. IInv' /\ UNCHANGED <<now, phase, tree, clock>>
    BY <2>1, TimersAlone DEF WakeInv
  <2> QED BY <2>1, <2>2 DEF WakeInv, SelectWakesInTime, IsFirst
<1> QED BY <1>1, <1>2

\* The loop and everything that may run in between.
LEMMA StepKeepsWakeInv ==
  ASSUME HalfJitter, WakeInv, [SNext]_svars
  PROVE  WakeInv'
BY WalkKeepsWakeInv, PrepareKeepsWakeInv, LoopKeepsWakeInv, UsersKeepWakeInv DEF SNext, Loop

\* oonf_socket_handle() never sleeps through a timer, nor past its stop time,
\* for any set of timers with at most 50 percent of jitter.
THEOREM SchedulerWakesInTime ==
  ASSUME HalfJitter PROVE SSpec => []SelectWakesInTime
<1>1. SInit => WakeInv
  BY InitWakeInv
<1>2. WakeInv /\ [SNext]_svars => WakeInv'
  BY StepKeepsWakeInv
<1>3. WakeInv => SelectWakesInTime
  BY DEF WakeInv
<1> QED BY <1>1, <1>2, <1>3, PTL DEF SSpec
-----------------------------------------------------------------------------
(* The list of sockets.  The loop holds two pointers into a list that the     *)
(* handlers change: what it has still to serve stands at or behind them.      *)

\* The entry at a position of the list, whose end is its head.
EntryAt(i) == IF i > Len(sockets) THEN ListHead ELSE sockets[i]

\* An entry that slept in select(), is ready and has not been served.
Waiting(e) == asleep[e] # None /\ Ready(e) # {} /\ e \notin served

\* Every waiting entry is on the list, at position k or behind it.
WaitingFrom(k) ==
  \A e \in Entries : Waiting(e) => \E j \in k..Len(sockets) : sockets[j] = e

ListInv ==
  /\ sockets \in Seq(Entries)
  /\ \A i, j \in DOMAIN sockets : sockets[i] = sockets[j] => i = j
  /\ fd \in [Entries -> Fds \cup {None}]
  /\ asleep = [e \in Entries |-> asleep[e]]
  /\ \A e \in Entries : asleep[e] # None => e \in Listed

\* Between two handlers the loop stands on the list, and knows what follows.
DispatchInv ==
  at = "dispatch" =>
    \E i \in 1..(Len(sockets) + 1) :
      /\ WaitingFrom(i)
      /\ entry = EntryAt(i)
      /\ i <= Len(sockets) => iterator = EntryAt(i + 1)

\* In a handler it only knows what followed, and the entry it came from is no
\* longer there or stands before that.
HandlerInv ==
  at = "handler" =>
    /\ entry \in Entries /\ entry \in served
    /\ \/ iterator = ListHead /\ WaitingFrom(Len(sockets) + 1)
       \/ \E k \in DOMAIN sockets :
            /\ iterator = sockets[k]
            /\ WaitingFrom(k)
            /\ \A j \in k..Len(sockets) : sockets[j] # entry

ServeInv == ListInv /\ DispatchInv /\ HandlerInv

\* The position of an entry is unique, and so is what follows it.
LEMMA FollowingEntry ==
  ASSUME ListInv, NEW i \in DOMAIN sockets
  PROVE  /\ sockets[i] \in Entries /\ sockets[i] # ListHead
         /\ NextOf(sockets[i]) = EntryAt(i + 1)
<1>1. Len(sockets) \in Nat /\ DOMAIN sockets = 1..Len(sockets) /\ sockets[i] \in Entries
  BY LenProperties DEF ListInv
<1> DEFINE p == CHOOSE k \in DOMAIN sockets : sockets[k] = sockets[i]
<1>2. p = i
  BY DEF ListInv
<1> HIDE DEF p
<1>3. NextOf(sockets[i]) = IF p = Len(sockets) THEN ListHead ELSE sockets[p + 1]
  BY DEF NextOf, p
<1> QED BY <1>1, <1>2, <1>3, SocketsAssumption DEF EntryAt

\* An entry that is added goes behind all that wait.
LEMMA AddKeepsServeInv ==
  ASSUME WakeInv, ServeInv, NEW e \in Entries, NEW f \in Fds, NEW ev, oonf_socket_add(e, f, ev)
  PROVE  ServeInv'
<1>1. /\ e \notin Listed /\ (at = "handler" => e \notin served) /\ at # "dispatch"
      /\ sockets' = Append(sockets, e) /\ fd' = [fd EXCEPT ![e] = f]
      /\ UNCHANGED <<bits, entry, iterator, asleep, served, at>>
  BY DEF oonf_socket_add, Running, WakeInv, loopVars
<1>2. /\ Len(sockets) \in Nat /\ DOMAIN sockets = 1..Len(sockets) /\ sockets \in Seq(Entries)
      /\ sockets' \in Seq(Entries) /\ Len(sockets') = Len(sockets) + 1
      /\ DOMAIN sockets' = 1..(Len(sockets) + 1)
      /\ sockets'[Len(sockets) + 1] = e
      /\ \A i \in 1..Len(sockets) : sockets'[i] = sockets[i]
  BY <1>1, LenProperties, AppendProperties DEF ServeInv, ListInv
<1>3. asleep[e] = None /\ \A x \in Entries : Waiting(x)' <=> Waiting(x)
  BY <1>1 DEF ServeInv, ListInv, Waiting, Ready
<1>4. ListInv'
  <2>1. \A i \in 1..Len(sockets) : sockets[i] # e
    BY <1>1, <1>2 DEF Listed, ToSet
  <2>2. \A i, j \in DOMAIN sockets' : sockets'[i] = sockets'[j] => i = j
    BY <1>2, <2>1 DEF ServeInv, ListInv
  <2>3. Listed \subseteq Listed'
    BY <1>2 DEF Listed, ToSet
  <2> QED BY <1>1, <1>2, <2>2, <2>3 DEF ServeInv, ListInv
<1>5. ASSUME NEW k \in 1..(Len(sockets) + 1), WaitingFrom(k)
      PROVE  WaitingFrom(k)'
  BY <1>2, <1>3, <1>5 DEF WaitingFrom
<1>6. HandlerInv'
  <2>1. CASE at = "handler" /\ iterator = ListHead /\ WaitingFrom(Len(sockets) + 1)
    BY <1>1, <1>2, <1>3, <2>1 DEF ServeInv, HandlerInv, WaitingFrom
  <2>2. CASE at = "handler" /\ \E k \in DOMAIN sockets :
               /\ iterator = sockets[k] /\ WaitingFrom(k)
               /\ \A j \in k..Len(sockets) : sockets[j] # entry
    <3>1. PICK k \in DOMAIN sockets : /\ iterator = sockets[k] /\ WaitingFrom(k)
                                      /\ \A j \in k..Len(sockets) : sockets[j] # entry
      BY <2>2
    <3>2. WaitingFrom(k)' /\ iterator' = sockets'[k] /\ k \in DOMAIN sockets'
      BY <1>1, <1>2, <1>5, <3>1
    <3>3. \A j \in k..Len(sockets') : sockets'[j] # entry
      BY <1>1, <1>2, <2>2, <3>1 DEF ServeInv, HandlerInv
    <3> QED BY <1>1, <2>2, <3>2, <3>3 DEF ServeInv, HandlerInv
  <2>3. CASE at # "handler"
    BY <1>1, <2>3 DEF HandlerInv
  <2> QED BY <2>1, <2>2, <2>3 DEF ServeInv, HandlerInv
<1>7. DispatchInv'
  BY <1>1 DEF DispatchInv
<1> QED BY <1>4, <1>6, <1>7 DEF ServeInv

\* An entry that is taken off stands before the one the loop has remembered.
LEMMA RemoveKeepsServeInv ==
  ASSUME WakeInv, ServeInv, NEW e \in Entries, oonf_socket_remove(e)
  PROVE  ServeInv'
<1>1. PICK i \in DOMAIN sockets :
        /\ sockets[i] = e
        /\ at = "handler" => \E j \in i .. Len(sockets) : sockets[j] = entry
        /\ sockets' = RemoveAt(sockets, i)
  BY DEF oonf_socket_remove
<1>2. /\ at # "dispatch" /\ fd' = [fd EXCEPT ![e] = None] /\ asleep' = [asleep EXCEPT ![e] = None]
      /\ UNCHANGED <<bits, entry, iterator, served, at>>
  BY DEF oonf_socket_remove, Running, WakeInv
<1>3. /\ Len(sockets) \in Nat /\ DOMAIN sockets = 1..Len(sockets) /\ sockets \in Seq(Entries)
      /\ sockets' \in Seq(Entries) /\ Len(sockets') = Len(sockets) - 1
      /\ DOMAIN sockets' = 1..(Len(sockets) - 1)
      /\ \A k \in 1..(Len(sockets) - 1) : sockets'[k] = IF k < i THEN sockets[k] ELSE sockets[k + 1]
  BY <1>1, RemoveAtList, LenProperties DEF ServeInv, ListInv
<1>4. /\ asleep'[e] = None
      /\ \A x \in Entries : x # e => asleep'[x] = asleep[x] /\ (Waiting(x)' <=> Waiting(x))
      /\ ~Waiting(e)'
  BY <1>2 DEF ServeInv, ListInv, Waiting, Ready
<1>5. ASSUME NEW x \in Entries, x # e, NEW j \in 1..Len(sockets), sockets[j] = x
      PROVE  /\ j < i => sockets'[j] = x /\ j \in 1..Len(sockets')
             /\ j >= i => sockets'[j - 1] = x /\ j - 1 \in i..Len(sockets')
  <2>1. j # i
    BY <1>1, <1>5
  <2>2. CASE j < i
    BY <1>1, <1>3, <1>5, <2>2
  <2>3. CASE j > i
    <3>1. j - 1 \in 1..(Len(sockets) - 1) /\ ~(j - 1 < i) /\ (j - 1) + 1 = j
      BY <1>1, <1>3, <2>3
    <3>2. sockets'[j - 1] = sockets[j]
      BY <1>3, <3>1
    <3> QED BY <1>1, <1>3, <1>5, <2>3, <3>1, <3>2
  <2> QED BY <1>1, <1>3, <2>1, <2>2, <2>3
<1>6. ListInv'
  <2>1. \A k, l \in DOMAIN sockets' : sockets'[k] = sockets'[l] => k = l
    <3> SUFFICES ASSUME NEW k \in DOMAIN sockets', NEW l \in DOMAIN sockets',
                        sockets'[k] = sockets'[l]
                 PROVE  k = l
      OBVIOUS
    <3> DEFINE old(n) == IF n < i THEN n ELSE n + 1
    <3>1. old(k) \in DOMAIN sockets /\ old(l) \in DOMAIN sockets
      BY <1>1, <1>3
    <3>2. sockets[old(k)] = sockets[old(l)]
      BY <1>3
    <3>3. old(k) = old(l)
      BY <3>1, <3>2 DEF ServeInv, ListInv
    <3> QED BY <1>1, <1>3, <3>3
  <2>2. \A x \in Entries : asleep'[x] # None => x \in Listed'
    <3> SUFFICES ASSUME NEW x \in Entries, asleep'[x] # None PROVE x \in Listed'
      OBVIOUS
    <3>1. x # e /\ x \in Listed
      BY <1>4 DEF ServeInv, ListInv
    <3>2. PICK j \in 1..Len(sockets) : sockets[j] = x
      BY <1>3, <3>1 DEF Listed, ToSet
    <3>3. /\ j < i => sockets'[j] = x /\ j \in 1..Len(sockets')
          /\ j >= i => sockets'[j - 1] = x /\ j - 1 \in i..Len(sockets')
      BY <1>5, <3>1, <3>2
    <3>4. \E k \in DOMAIN sockets' : sockets'[k] = x
      <4>1. CASE j < i
        BY <1>3, <3>3, <4>1
      <4>2. CASE j >= i
        <5>1. j - 1 \in DOMAIN sockets' /\ sockets'[j - 1] = x
          BY <1>1, <1>3, <3>3, <4>2
        <5> QED BY <5>1
      <4> QED BY <1>1, <1>3, <4>1, <4>2
    <3> QED BY <3>4 DEF Listed, ToSet
  <2>3. fd' \in [Entries -> Fds \cup {None}] /\ asleep' = [x \in Entries |-> asleep'[x]]
    BY <1>2 DEF ServeInv, ListInv
  <2> QED BY <1>3, <2>1, <2>2, <2>3 DEF ListInv
<1>7. CASE at = "handler"
  <2>1. PICK j \in i..Len(sockets) : sockets[j] = entry
    BY <1>1, <1>7
  <2>2. CASE iterator = ListHead /\ WaitingFrom(Len(sockets) + 1)
    <3>1. \A x \in Entries : ~Waiting(x)'
      BY <1>3, <1>4, <2>2 DEF WaitingFrom
    <3> QED BY <1>2, <1>6, <1>7, <2>2, <3>1 DEF ServeInv, HandlerInv, DispatchInv, WaitingFrom
  <2>3. CASE \E k \in DOMAIN sockets :
               /\ iterator = sockets[k] /\ WaitingFrom(k)
               /\ \A n \in k..Len(sockets) : sockets[n] # entry
    <3>1. PICK k \in DOMAIN sockets : /\ iterator = sockets[k] /\ WaitingFrom(k)
                                      /\ \A n \in k..Len(sockets) : sockets[n] # entry
      BY <2>3
    <3>2. j < k /\ i < k
      BY <1>1, <1>3, <2>1, <3>1
    <3>3. k - 1 \in DOMAIN sockets' /\ iterator' = sockets'[k - 1]
      BY <1>1, <1>2, <1>3, <3>1, <3>2
    <3>4. WaitingFrom(k - 1)'
      <4> SUFFICES ASSUME NEW x \in Entries, Waiting(x)'
                   PROVE  \E n \in (k - 1)..Len(sockets') : sockets'[n] = x
        BY DEF WaitingFrom
      <4>1. x # e /\ Waiting(x)
        BY <1>4
      <4>2. PICK n \in k..Len(sockets) : sockets[n] = x
        BY <3>1, <4>1 DEF WaitingFrom
      <4>3. n \in 1..Len(sockets) /\ n >= i
        BY <1>1, <1>3, <3>2
      <4>4. sockets'[n - 1] = x /\ n - 1 \in i..Len(sockets')
        BY <1>5, <4>1, <4>2, <4>3
      <4> QED BY <1>3, <4>2, <4>3, <4>4
    <3>5. \A n \in (k - 1)..Len(sockets') : sockets'[n] # entry
      <4> SUFFICES ASSUME NEW n \in (k - 1)..Len(sockets') PROVE sockets'[n] # entry
        OBVIOUS
      <4>1. n \in 1..(Len(sockets) - 1) /\ ~(n < i) /\ n + 1 \in k..Len(sockets)
        BY <1>1, <1>3, <3>1, <3>2
      <4> QED BY <1>3, <3>1, <4>1
    <3> QED BY <1>2, <1>6, <1>7, <3>3, <3>4, <3>5 DEF ServeInv, HandlerInv, DispatchInv
  <2> QED BY <1>7, <2>2, <2>3 DEF ServeInv, HandlerInv
<1>8. CASE at # "handler"
  BY <1>2, <1>6, <1>8 DEF ServeInv, HandlerInv, DispatchInv
<1> QED BY <1>7, <1>8

\* The loop moves on to the next entry.
LEMMA AdvanceKeepsServeInv ==
  ASSUME ListInv, NEW k \in 1..(Len(sockets) + 1), WaitingFrom(k)', iterator = EntryAt(k), Advance,
         at' = "dispatch", UNCHANGED listVars
  PROVE  DispatchInv'
<1>1. Len(sockets) \in Nat /\ DOMAIN sockets = 1..Len(sockets) /\ sockets' = sockets
  BY LenProperties DEF ListInv, listVars
<1>2. CASE k = Len(sockets) + 1
  BY <1>1, <1>2 DEF Advance, EntryAt, DispatchInv
<1>3. CASE k <= Len(sockets)
  <2>1. k \in DOMAIN sockets /\ iterator = sockets[k]
    BY <1>1, <1>3 DEF EntryAt
  <2>2. iterator # ListHead /\ NextOf(iterator) = EntryAt(k + 1)
    BY <2>1, FollowingEntry
  <2>3. entry' = EntryAt(k) /\ iterator' = EntryAt(k + 1)
    BY <2>2 DEF Advance
  <2> QED BY <1>1, <2>3 DEF DispatchInv, EntryAt
<1> QED BY <1>1, <1>2, <1>3

\* The steps of the loop over the sockets.
LEMMA DispatchKeepsServeInv ==
  ASSUME ServeInv, Dispatch
  PROVE  ServeInv'
<1>1. /\ Len(sockets) \in Nat /\ DOMAIN sockets = 1..Len(sockets)
      /\ UNCHANGED listVars /\ UNCHANGED <<sockets, fd, bits, asleep>>
      /\ at = "dispatch" /\ entry # ListHead
  BY LenProperties DEF ServeInv, ListInv, Dispatch, listVars
<1>2. ListInv'
  BY <1>1 DEF ServeInv, ListInv, Listed
<1>3. PICK i \in 1..(Len(sockets) + 1) :
        /\ WaitingFrom(i) /\ entry = EntryAt(i)
        /\ i <= Len(sockets) => iterator = EntryAt(i + 1)
  BY <1>1 DEF ServeInv, DispatchInv
<1>4. i \in 1..Len(sockets) /\ entry = sockets[i] /\ iterator = EntryAt(i + 1)
  BY <1>1, <1>3 DEF EntryAt
<1>5. \A x \in Entries : Ready(x)' = Ready(x)
  BY <1>1 DEF Ready
<1>6. CASE Ready(entry) # {}
  <2>1. at' = "handler" /\ served' = served \cup {entry} /\ UNCHANGED <<entry, iterator>>
    BY <1>6 DEF Dispatch
  <2>2. \A x \in Entries : Waiting(x)' => Waiting(x) /\ x # entry
    BY <1>1, <1>5, <2>1 DEF Waiting
  <2>3. WaitingFrom(i + 1)'
    <3> SUFFICES ASSUME NEW x \in Entries, Waiting(x)'
                 PROVE  \E j \in (i + 1)..Len(sockets) : sockets[j] = x
      BY <1>1 DEF WaitingFrom
    <3>1. PICK j \in i..Len(sockets) : sockets[j] = x
      BY <1>3, <2>2 DEF WaitingFrom
    <3> QED BY <1>1, <1>4, <2>2, <3>1
  <2>4. entry \in Entries
    BY <1>1, <1>4, FollowingEntry DEF ServeInv
  <2>5. ASSUME i = Len(sockets) PROVE HandlerInv'
    BY <1>1, <1>4, <2>1, <2>3, <2>4, <2>5 DEF HandlerInv, EntryAt
  <2>6. ASSUME i < Len(sockets) PROVE HandlerInv'
    <3>1. i + 1 \in DOMAIN sockets /\ iterator = sockets[i + 1]
      BY <1>1, <1>4, <2>6 DEF EntryAt
    <3>2. \A j \in (i + 1)..Len(sockets) : sockets[j] # entry
      BY <1>1, <1>4 DEF ServeInv, ListInv
    <3> QED BY <1>1, <2>1, <2>3, <2>4, <3>1, <3>2 DEF HandlerInv
  <2>7. i = Len(sockets) \/ i < Len(sockets)
    <3>1. Len(sockets) \in Nat /\ i \in 1..Len(sockets)
      BY <1>1, <1>4
    <3> QED BY <3>1
  <2>8. HandlerInv'
    BY <2>5, <2>6, <2>7
  <2> QED BY <1>2, <2>1, <2>8 DEF ServeInv, DispatchInv
<1>7. CASE Ready(entry) = {}
  <2>1. at' = "dispatch" /\ served' = served /\ Advance
    BY <1>1, <1>7 DEF Dispatch
  <2>2. \A x \in Entries : Waiting(x)' => Waiting(x) /\ x # entry
    BY <1>1, <1>5, <1>7, <2>1 DEF Waiting
  <2>3. WaitingFrom(i + 1)'
    <3> SUFFICES ASSUME NEW x \in Entries, Waiting(x)'
                 PROVE  \E j \in (i + 1)..Len(sockets) : sockets[j] = x
      BY <1>1 DEF WaitingFrom
    <3>1. PICK j \in i..Len(sockets) : sockets[j] = x
      BY <1>3, <2>2 DEF WaitingFrom
    <3> QED BY <1>1, <1>4, <2>2, <3>1
  <2>4. i + 1 \in 1..(Len(sockets) + 1)
    BY <1>1, <1>4
  <2>5. DispatchInv'
    BY <1>1, <1>4, <2>1, <2>3, <2>4, AdvanceKeepsServeInv DEF ServeInv
  <2> QED BY <1>2, <2>1, <2>5 DEF ServeInv, HandlerInv
<1> QED BY <1>6, <1>7

\* A handler returns to the entry the loop has remembered.
LEMMA HandlerReturnKeepsServeInv ==
  ASSUME ServeInv, HandlerReturns
  PROVE  ServeInv'
<1>1. /\ Len(sockets) \in Nat /\ DOMAIN sockets = 1..Len(sockets)
      /\ UNCHANGED listVars /\ UNCHANGED <<sockets, fd, bits, asleep, served>>
      /\ at = "handler" /\ at' = "dispatch" /\ Advance
  BY LenProperties DEF ServeInv, ListInv, HandlerReturns, listVars
<1>2. ListInv'
  BY <1>1 DEF ServeInv, ListInv, Listed
<1>3. \A x \in Entries : Waiting(x)' <=> Waiting(x)
  BY <1>1 DEF Waiting, Ready
<1>4. \E k \in 1..(Len(sockets) + 1) : WaitingFrom(k) /\ iterator = EntryAt(k)
  BY <1>1 DEF ServeInv, HandlerInv, EntryAt
<1>5. PICK k \in 1..(Len(sockets) + 1) : WaitingFrom(k) /\ iterator = EntryAt(k)
  BY <1>4
<1>6. WaitingFrom(k)'
  BY <1>1, <1>3, <1>5 DEF WaitingFrom
<1>7. DispatchInv'
  BY <1>1, <1>5, <1>6, AdvanceKeepsServeInv DEF ServeInv
<1> QED BY <1>1, <1>2, <1>7 DEF ServeInv, HandlerInv

\* After select() the loop begins with the first entry.
LEMMA WokenKeepsServeInv ==
  ASSUME ServeInv, Woken
  PROVE  ServeInv'
<1>1. /\ Len(sockets) \in Nat /\ DOMAIN sockets = 1..Len(sockets)
      /\ UNCHANGED <<sockets, fd, bits, asleep, served>> /\ at' = "dispatch"
      /\ entry' = FirstListed
      /\ iterator' = IF sockets = <<>> THEN ListHead ELSE NextOf(FirstListed)
  BY LenProperties DEF ServeInv, ListInv, Woken, listVars
<1>2. ListInv'
  BY <1>1 DEF ServeInv, ListInv, Listed
<1>3. WaitingFrom(1)'
  BY <1>1 DEF ServeInv, ListInv, WaitingFrom, Waiting, Listed, ToSet
<1>4. ASSUME sockets = <<>> PROVE DispatchInv'
  BY <1>1, <1>3, <1>4 DEF DispatchInv, EntryAt, FirstListed
<1>5. ASSUME sockets # <<>> PROVE DispatchInv'
  <2>1. 1 \in DOMAIN sockets /\ FirstListed = sockets[1]
    BY <1>1, <1>5, EmptySeq DEF FirstListed, ServeInv, ListInv
  <2>2. entry' = EntryAt(1) /\ iterator' = EntryAt(2)
    BY <1>1, <1>5, <2>1, FollowingEntry DEF EntryAt, ServeInv
  <2> QED BY <1>1, <1>3, <2>1, <2>2 DEF DispatchInv, EntryAt
<1> QED BY <1>1, <1>2, <1>4, <1>5 DEF ServeInv, HandlerInv

\* The other steps are not inside of the loop over the sockets.
LEMMA OtherStepsKeepServeInv ==
  ASSUME WakeInv, ServeInv,
         \/ TimerCall \/ Top \/ TimerWalk \/ Prepare \/ DispatchEnds
         \/ ClockFails \/ Stopped \/ SelectTimeout \/ SelectError \/ SelectReady
         \/ Crashed \/ UNCHANGED svars
         \/ \E stop \in StopTimes : Enter(stop)
         \/ \E e \in Entries, ev \in Wants : oonf_socket_set(e, ev)
  PROVE  ServeInv'
<1>1. UNCHANGED <<sockets, fd>>
  BY DEF TimerCall, Top, TimerWalk, Prepare, DispatchEnds, ClockFails, Stopped, SelectTimeout,
         SelectError, SelectReady, Crashed, svars, Enter, oonf_socket_set, Return, listVars
<1>2. CASE UNCHANGED <<bits, entry, iterator, asleep, served, at>>
  <2>1. ListInv'
    BY <1>1, <1>2 DEF ServeInv, ListInv, Listed
  <2>2. \A x \in Entries : Waiting(x)' <=> Waiting(x)
    BY <1>1, <1>2 DEF Waiting, Ready
  <2>3. \A k : WaitingFrom(k)' <=> WaitingFrom(k)
    BY <1>1, <2>2 DEF WaitingFrom
  <2> QED BY <1>1, <1>2, <2>1, <2>3 DEF ServeInv, DispatchInv, HandlerInv, EntryAt
<1>3. CASE /\ at' \notin {"dispatch", "handler"}
           /\ \/ asleep' = asleep
              \/ asleep' = [e \in Entries |-> None]
              \/ asleep' = [e \in Entries |-> IF e \in Listed THEN want[e] ELSE None]
  <2>1. ListInv'
    BY <1>1, <1>3 DEF ServeInv, ListInv, Listed
  <2> QED BY <1>3, <2>1 DEF ServeInv, DispatchInv, HandlerInv
<1>4. \/ UNCHANGED <<bits, entry, iterator, asleep, served, at>>
      \/ /\ at' \notin {"dispatch", "handler"}
         /\ \/ asleep' = asleep
            \/ asleep' = [e \in Entries |-> None]
            \/ asleep' = [e \in Entries |-> IF e \in Listed THEN want[e] ELSE None]
  BY DEF TimerCall, Top, TimerWalk, Prepare, DispatchEnds, ClockFails, Stopped, SelectTimeout,
         SelectError, SelectReady, Crashed, svars, Enter, oonf_socket_set, Return, ForgetRound,
         loopVars
<1> QED BY <1>2, <1>3, <1>4

\* The program starts with an empty list.
LEMMA InitServeInv == SInit => ServeInv
<1> SUFFICES ASSUME SInit PROVE ServeInv
  OBVIOUS
<1>1. sockets \in Seq(Entries) /\ DOMAIN sockets = {}
  BY DEF SInit
<1> QED BY <1>1 DEF SInit, ServeInv, ListInv, DispatchInv, HandlerInv

\* Whatever handlers add to the list or take off it behind the back of the
\* loop in oonf_socket_handle(), every entry that was reported ready and is
\* still registered is served, for any number of sockets and descriptors.
THEOREM SchedulerServesReady ==
  ASSUME HalfJitter PROVE SSpec => []ReadyIsServed
<1>1. SInit => WakeInv /\ ServeInv
  BY InitWakeInv, InitServeInv
<1>2. WakeInv /\ ServeInv /\ [SNext]_svars => WakeInv' /\ ServeInv'
  <2> SUFFICES ASSUME WakeInv, ServeInv, [SNext]_svars PROVE ServeInv'
    BY StepKeepsWakeInv
  <2>1. CASE \E e \in Entries : \/ \E f \in Fds, ev \in Wants : oonf_socket_add(e, f, ev)
                                \/ oonf_socket_remove(e)
                                \/ \E ev \in Wants : oonf_socket_set(e, ev)
    BY <2>1, AddKeepsServeInv, RemoveKeepsServeInv, OtherStepsKeepServeInv
  <2>2. CASE Loop
    BY <2>2, DispatchKeepsServeInv, HandlerReturnKeepsServeInv, WokenKeepsServeInv,
       OtherStepsKeepServeInv DEF Loop
  <2> QED BY <2>1, <2>2, OtherStepsKeepServeInv DEF SNext
<1>3. ServeInv => ReadyIsServed
  <2> SUFFICES ASSUME ServeInv, at = "dispatch", entry = ListHead, NEW e \in Entries,
                      asleep[e] # None, Ready(e) # {}
               PROVE  e \in served
    BY DEF ReadyIsServed
  <2>1. Len(sockets) \in Nat /\ DOMAIN sockets = 1..Len(sockets)
    BY LenProperties DEF ServeInv, ListInv
  <2>2. PICK i \in 1..(Len(sockets) + 1) : WaitingFrom(i) /\ entry = EntryAt(i)
    BY DEF ServeInv, DispatchInv
  <2>3. i = Len(sockets) + 1
    BY <2>1, <2>2, FollowingEntry DEF EntryAt, ServeInv
  <2> QED BY <2>1, <2>2, <2>3 DEF WaitingFrom, Waiting
<1> QED BY <1>1, <1>2, <1>3, PTL DEF SSpec
=============================================================================
