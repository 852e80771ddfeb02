----------------------- MODULE OonfDuplicateSetProofs -----------------------
(***************************************************************************)
(* Proofs about the duplicate set, for every size of the sequence number   *)
(* space, every window of at most half of it and every limit of too old    *)
(* numbers.  The arithmetic of the wrapping numbers comes first, then the  *)
(* inductive invariant and the properties that follow from it.             *)
(***************************************************************************)
EXTENDS OonfDuplicateSet, TLAPS

\* The space has an even size and the window is no longer than half of it.
LEMMA HalfFacts ==
  /\ SeqMod \in Nat /\ Half \in Nat /\ SeqMod = 2 * Half
  /\ Window \in Nat /\ Window > 0 /\ Window <= Half
  /\ Seqnos = 0..(SeqMod - 1)
BY SeqAssumption DEF Half, Seqnos

\* rfc5444_seqno_difference() lies within half of the space, and its sign says
\* on which side of c the number s lies.
LEMMA DifferenceFacts ==
  ASSUME NEW c \in Seqnos, NEW s \in Seqnos
  PROVE  LET diff == rfc5444_seqno_difference(s, c)
         IN /\ diff \in Int /\ -Half <= diff /\ diff <= Half
            /\ diff > 0 => Behind(s, c) = diff /\ Behind(c, s) >= Half
            /\ diff <= 0 => Behind(c, s) = -diff /\ Before(c, -diff) = s
BY HalfFacts DEF rfc5444_seqno_difference, Behind, Before

\* Before() inverts Behind() over the window.
LEMMA BeforeFacts ==
  ASSUME NEW c \in Seqnos, NEW d \in 0..(Window - 1)
  PROVE  Before(c, d) \in Seqnos /\ Behind(c, Before(c, d)) = d /\ d < Half
BY HalfFacts DEF Behind, Before

\* Two positions of the window are two numbers, and the first is current.
LEMMA BeforeInjective ==
  ASSUME NEW c \in Seqnos, NEW d \in 0..(Window - 1), NEW e \in 0..(Window - 1),
         Before(c, d) = Before(c, e)
  PROVE  d = e
BY BeforeFacts

\* Seen from s, the old window begins at the distance from c to s; what lies
\* before it is too new to have been within half of the space behind c.
LEMMA ShiftFacts ==
  ASSUME NEW c \in Seqnos, NEW s \in Seqnos, NEW diff \in 1..Half,
         diff = rfc5444_seqno_difference(s, c), NEW d \in 0..(Window - 1)
  PROVE  /\ d >= diff => Before(s, d) = Before(c, d - diff)
         /\ d > 0 /\ d < diff => Behind(c, Before(s, d)) >= Half
BY HalfFacts DEF rfc5444_seqno_difference, Behind, Before

-----------------------------------------------------------------------------
(* The inductive invariant *)

\* What an entry has accepted lies less than half of the space behind current:
\* older numbers would compare as newer, so Marked() forgets them.
SeenIsBehind ==
  \A k \in Keys : entry[k] # None =>
    \A x \in seen[k] : Behind(entry[k].current, x) < Half

IInv == TypeOK /\ HistoryIsSeen /\ SeenIsBehind

\* An entry e and the numbers S it has accepted agree.
Agrees(e, S) ==
  /\ e \in EntryType /\ S \in SUBSET Seqnos
  /\ 0 \in e.history
  /\ e.history = {d \in 0..(Window - 1) : Before(e.current, d) \in S}
  /\ \A x \in S : Behind(e.current, x) < Half

\* The invariant, one key at a time.
LEMMA IInvIsAgrees ==
  IInv <=> /\ entry \in [Keys -> EntryType \cup {None}]
           /\ vtime \in [Keys -> BOOLEAN]
           /\ seen \in [Keys -> SUBSET Seqnos]
           /\ \A k \in Keys : entry[k] # None => Agrees(entry[k], seen[k])
           /\ \A k \in Keys : vtime[k] => entry[k] # None
BY DEF IInv, TypeOK, HistoryIsSeen, SeenIsBehind, Agrees

\* An entry that starts with s has accepted s only.
LEMMA FreshAgrees ==
  ASSUME NEW s \in Seqnos
  PROVE  Agrees(Fresh(s), {s})
<1>1. Fresh(s) \in EntryType
  BY HalfFacts, SeqAssumption DEF Fresh, EntryType
<1>2. Before(s, 0) = s /\ Behind(s, s) = 0 /\ 0 < Half /\ 0 \in 0..(Window - 1)
  BY HalfFacts DEF Before, Behind
<1>3. \A d \in 0..(Window - 1) : Before(s, d) = s => d = 0
  BY <1>2, BeforeInjective
<1>4. {0} = {d \in 0..(Window - 1) : Before(s, d) \in {s}}
  BY <1>2, <1>3
<1>5. Fresh(s).current = s /\ Fresh(s).history = {0}
  BY DEF Fresh
<1> QED BY <1>1, <1>2, <1>4, <1>5 DEF Agrees

\* A number that is newer than current moves the window.
LEMMA NewestAgrees ==
  ASSUME NEW e, NEW S, Agrees(e, S), NEW s \in Seqnos, NEW diff \in 1..Half,
         diff = rfc5444_seqno_difference(s, e.current),
         NEW f, f = [current |-> s, history |-> Shifted(e.history, diff), too_old_count |-> 0]
  PROVE  Agrees(f, {x \in S \cup {s} : Behind(s, x) < Half})
<1> DEFINE T == {x \in S \cup {s} : Behind(s, x) < Half}
<1>1. /\ e.current \in Seqnos /\ e.history \in SUBSET (0..(Window - 1))
      /\ S \in SUBSET Seqnos /\ e \in EntryType
  BY DEF Agrees, EntryType
<1>2. f.current = s /\ f.history = Shifted(e.history, diff)
  OBVIOUS
<1>3. 0 \in Shifted(e.history, diff) /\ Shifted(e.history, diff) \subseteq 0..(Window - 1)
  BY HalfFacts DEF Shifted
<1>4. f \in EntryType
  BY <1>1, <1>3, SeqAssumption DEF EntryType
<1>5. ASSUME NEW d \in 0..(Window - 1)
      PROVE  d \in Shifted(e.history, diff) <=> Before(s, d) \in T
  <2>1. Behind(s, Before(s, d)) < Half /\ Before(s, d) \in Seqnos
    BY BeforeFacts
  <2>2. CASE d = 0
    <3>1. Before(s, d) = s
      BY <2>2, HalfFacts DEF Before
    <3> QED BY <2>1, <2>2, <3>1, <1>3
  <2>3. CASE d > 0 /\ d < diff
    <3>1. Behind(e.current, Before(s, d)) >= Half
      BY <2>3, <1>1, ShiftFacts
    <3>2. Before(s, d) \notin S
      <4>1. Behind(e.current, Before(s, d)) \in Int
        BY <1>1, <2>1, HalfFacts DEF Behind
      <4>2. Before(s, d) \in S => Behind(e.current, Before(s, d)) < Half
        BY DEF Agrees
      <4> QED BY <3>1, <4>1, <4>2, HalfFacts
    <3>3. Before(s, d) # s
      BY <2>3, BeforeFacts, HalfFacts DEF Behind
    <3>4. d \notin Shifted(e.history, diff)
      BY <2>3, <1>1, HalfFacts DEF Shifted
    <3> QED BY <3>2, <3>3, <3>4
  <2>4. CASE d >= diff
    <3>1. Before(s, d) = Before(e.current, d - diff) /\ d - diff \in 0..(Window - 1)
      BY <2>4, <1>1, ShiftFacts, HalfFacts
    <3>2. d - diff \in e.history <=> Before(s, d) \in S
      BY <3>1 DEF Agrees
    <3>3. Before(s, d) # s
      BY <2>4, BeforeFacts, HalfFacts DEF Behind
    <3>4. d \in Shifted(e.history, diff) <=> d - diff \in e.history
      BY <2>4, <1>1, HalfFacts DEF Shifted
    <3> QED BY <2>1, <3>2, <3>3, <3>4
  <2> QED BY <2>2, <2>3, <2>4, HalfFacts
<1>6. Shifted(e.history, diff) = {d \in 0..(Window - 1) : Before(s, d) \in T}
  BY <1>3, <1>5
<1>7. T \in SUBSET Seqnos /\ \A x \in T : Behind(s, x) < Half
  BY <1>1
<1> QED BY <1>2, <1>3, <1>4, <1>6, <1>7 DEF Agrees

\* A number of the window sets its bit.
LEMMA OlderAgrees ==
  ASSUME NEW e, NEW S, Agrees(e, S), NEW s \in Seqnos, NEW n \in 0..(Window - 1),
         n = -rfc5444_seqno_difference(s, e.current),
         NEW f, f = [current |-> e.current, history |-> e.history \cup {n},
                     too_old_count |-> 0]
  PROVE  Agrees(f, {x \in S \cup {s} : Behind(e.current, x) < Half})
<1> DEFINE T == {x \in S \cup {s} : Behind(e.current, x) < Half}
<1>1. /\ e.current \in Seqnos /\ e.history \in SUBSET (0..(Window - 1))
      /\ S \in SUBSET Seqnos /\ e \in EntryType
  BY DEF Agrees, EntryType
<1>2. f.current = e.current /\ f.history = e.history \cup {n}
  OBVIOUS
<1>3. f \in EntryType
  BY <1>1, SeqAssumption DEF EntryType
<1>4. Before(e.current, n) = s /\ Behind(e.current, s) < Half
  <2> DEFINE diff == rfc5444_seqno_difference(s, e.current)
  <2>1. diff \in Int /\ (diff <= 0 => Behind(e.current, s) = -diff /\ Before(e.current, -diff) = s)
    BY <1>1, DifferenceFacts
  <2>2. n = -diff
    OBVIOUS
  <2> HIDE DEF diff
  <2> QED BY <2>1, <2>2, HalfFacts
<1>5. T = S \cup {s}
  BY <1>4 DEF Agrees
<1>6. ASSUME NEW d \in 0..(Window - 1)
      PROVE  d \in e.history \cup {n} <=> Before(e.current, d) \in T
  <2>1. Before(e.current, d) = s => d = n
    BY <1>1, <1>4, BeforeInjective
  <2> QED BY <2>1, <1>4, <1>5 DEF Agrees
<1>7. e.history \cup {n} = {d \in 0..(Window - 1) : Before(e.current, d) \in T}
  BY <1>1, <1>6
<1> QED BY <1>1, <1>2, <1>3, <1>5, <1>7, <1>4 DEF Agrees

\* Only counting a number that is too old, or resetting the counter, leaves an
\* entry in agreement with what it has accepted.
LEMMA CountAgrees ==
  ASSUME NEW e, NEW S, Agrees(e, S), NEW n \in 0..MaxTooOld,
         NEW f, f = [e EXCEPT !.too_old_count = n]
  PROVE  Agrees(f, S)
<1>1. f = [current |-> e.current, history |-> e.history, too_old_count |-> n]
  BY DEF Agrees, EntryType
<1> QED BY <1>1 DEF Agrees, EntryType

\* What oonf_duplicate_entry_add() leaves of an entry and of what it accepted.
LEMMA AddAgrees ==
  ASSUME NEW e, NEW S, Agrees(e, S), NEW s \in Seqnos,
         NEW T, T = IF ~IsNew(Verdict(e, s)) THEN S
                    ELSE IF Resets(e, s) THEN {s}
                    ELSE {x \in S \cup {s} : Behind(Updated(e, s, TRUE).current, x) < Half}
  PROVE  Agrees(Updated(e, s, TRUE), T)
<1> DEFINE diff == rfc5444_seqno_difference(s, e.current)
           f == Updated(e, s, TRUE)
<1>1. /\ e.current \in Seqnos /\ e.too_old_count \in 0..MaxTooOld /\ e \in EntryType
      /\ diff \in Int /\ -Half <= diff /\ diff <= Half
  BY DifferenceFacts DEF Agrees, EntryType
<1>2. CASE s = e.current
  <2>1. f = e /\ Verdict(e, s) = "CURRENT"
    BY <1>2 DEF Updated, Verdict
  <2> QED BY <2>1 DEF IsNew
<1>3. CASE s # e.current /\ Resets(e, s)
  <2>1. f = Fresh(s) /\ Verdict(e, s) = "NEWEST"
    BY <1>3 DEF Updated, Verdict
  <2> QED BY <2>1, <1>3, FreshAgrees DEF IsNew
<1>4. CASE s # e.current /\ ~Resets(e, s) /\ TooOld(e, s)
  <2>1. f = [e EXCEPT !.too_old_count = e.too_old_count + 1] /\ Verdict(e, s) = "TOO_OLD"
    BY <1>4 DEF Updated, Verdict
  <2>2. e.too_old_count + 1 \in 0..MaxTooOld
    BY <1>1, <1>4, SeqAssumption DEF Resets
  <2> QED BY <2>1, <2>2, CountAgrees DEF IsNew
<1>5. CASE s # e.current /\ ~Resets(e, s) /\ ~TooOld(e, s) /\ diff > 0
  <2>1. Verdict(e, s) = "NEWEST"
    BY <1>5 DEF Verdict
  <2>3. f = [current |-> s, history |-> Shifted(e.history, diff), too_old_count |-> 0]
    BY <1>5 DEF Updated
  <2>4. diff \in 1..Half
    BY <1>1, <1>5, HalfFacts
  <2>5. Agrees(f, {x \in S \cup {s} : Behind(s, x) < Half})
    BY <2>3, <2>4, NewestAgrees
  <2>6. T = {x \in S \cup {s} : Behind(s, x) < Half}
    <3>1. T = {x \in S \cup {s} : Behind(f.current, x) < Half}
      BY <2>1, <1>5 DEF IsNew
    <3> HIDE DEF f
    <3>2. f.current = s
      BY <2>3
    <3> QED BY <3>1, <3>2
  <2> QED BY <2>5, <2>6
<1>6. CASE s # e.current /\ ~Resets(e, s) /\ ~TooOld(e, s) /\ ~(diff > 0)
  <2>1. -diff \in 0..(Window - 1)
    BY <1>1, <1>6, HalfFacts DEF TooOld
  <2>2. f = [e EXCEPT !.too_old_count = 0, !.history = e.history \cup {-diff}]
    BY <1>6 DEF Updated
  <2>3. f = [current |-> e.current, history |-> e.history \cup {-diff}, too_old_count |-> 0]
    BY <2>2, <1>1 DEF EntryType
  <2>4. Agrees(f, {x \in S \cup {s} : Behind(e.current, x) < Half})
    BY <2>1, <2>3, OlderAgrees
  <2>5. CASE -diff \in e.history
    <3>1. Verdict(e, s) = "DUPLICATE"
      BY <2>5, <1>6 DEF Verdict
    <3>2. s \in S
      BY <2>5, <2>1, <1>1, <1>6, DifferenceFacts DEF Agrees
    <3>3. {x \in S \cup {s} : Behind(e.current, x) < Half} = S
      BY <3>2 DEF Agrees
    <3> QED BY <3>1, <3>3, <2>4 DEF IsNew
  <2>6. CASE -diff \notin e.history
    <3>1. Verdict(e, s) = "NEW"
      BY <2>6, <1>6 DEF Verdict
    <3>2. T = {x \in S \cup {s} : Behind(e.current, x) < Half}
      <4>1. T = {x \in S \cup {s} : Behind(f.current, x) < Half}
        BY <3>1, <1>6 DEF IsNew
      <4> HIDE DEF f
      <4>2. f.current = e.current
        BY <2>3
      <4> QED BY <4>1, <4>2
    <3> QED BY <3>2, <2>4
  <2> QED BY <2>5, <2>6
<1> QED BY <1>2, <1>3, <1>4, <1>5, <1>6

\* What oonf_duplicate_test() leaves of them.
LEMMA TestAgrees ==
  ASSUME NEW e, NEW S, Agrees(e, S), NEW s \in Seqnos
  PROVE  Agrees(Updated(e, s, FALSE), IF Resets(e, s) THEN {s} ELSE S)
<1> DEFINE f == Updated(e, s, FALSE)
<1>1. e.too_old_count \in 0..MaxTooOld /\ 0 \in 0..MaxTooOld
  BY SeqAssumption DEF Agrees, EntryType
<1>2. CASE s = e.current
  <2>1. f = e /\ ~Resets(e, s)
    BY <1>2 DEF Updated, Resets, TooOld
  <2> QED BY <2>1
<1>3. CASE s # e.current /\ Resets(e, s)
  <2>1. f = Fresh(s)
    BY <1>3 DEF Updated
  <2> QED BY <2>1, <1>3, FreshAgrees
<1>4. CASE s # e.current /\ ~Resets(e, s) /\ TooOld(e, s)
  <2>1. f = [e EXCEPT !.too_old_count = e.too_old_count + 1]
    BY <1>4 DEF Updated
  <2>2. e.too_old_count + 1 \in 0..MaxTooOld
    BY <1>1, <1>4, SeqAssumption DEF Resets
  <2> QED BY <2>1, <2>2, <1>4, CountAgrees
<1>5. CASE s # e.current /\ ~Resets(e, s) /\ ~TooOld(e, s)
  <2>1. f = [e EXCEPT !.too_old_count = 0]
    BY <1>5 DEF Updated
  <2> QED BY <2>1, <1>1, <1>5, CountAgrees
<1> QED BY <1>2, <1>3, <1>4, <1>5

-----------------------------------------------------------------------------
(* The theorems *)

\* An empty duplicate set satisfies the invariant.
LEMMA InitIInv == Init => IInv
BY IInvIsAgrees DEF Init

\* What agrees with its history is an entry, and there is one.
LEMMA AgreesIsEntry ==
  ASSUME NEW e, NEW S, Agrees(e, S)
  PROVE  e \in EntryType /\ e # None /\ S \in SUBSET Seqnos
BY NoneAssumption DEF Agrees

\* Every operation on the set preserves it, one key at a time.
LEMMA NextIInv == IInv /\ [Next]_vars => IInv'
<1> SUFFICES ASSUME IInv, [Next]_vars PROVE IInv'
  OBVIOUS
<1> DEFINE Inv(en, vt, se) ==
      /\ en \in [Keys -> EntryType \cup {None}]
      /\ vt \in [Keys -> BOOLEAN]
      /\ se \in [Keys -> SUBSET Seqnos]
      /\ \A k \in Keys : en[k] # None => Agrees(en[k], se[k])
      /\ \A k \in Keys : vt[k] => en[k] # None
<1>1. Inv(entry, vtime, seen)
  BY IInvIsAgrees
<1> SUFFICES Inv(entry', vtime', seen')
  BY DEF IInv, TypeOK, HistoryIsSeen, SeenIsBehind, Agrees
<1>2. ASSUME NEW k \in Keys, NEW s \in Seqnos, NEW z \in BOOLEAN, AddFirst(k, s, z)
      PROVE  Inv(entry', vtime', seen')
  BY <1>1, <1>2, FreshAgrees, AgreesIsEntry DEF AddFirst
<1>3. ASSUME NEW k \in Keys, NEW s \in Seqnos, AddOutOfMemory(k, s)
      PROVE  Inv(entry', vtime', seen')
  BY <1>1, <1>3 DEF AddOutOfMemory
<1>4. ASSUME NEW k \in Keys, NEW s \in Seqnos, NEW z \in BOOLEAN, AddAgain(k, s, z)
      PROVE  Inv(entry', vtime', seen')
  <2> DEFINE e == entry[k]
             f == Updated(entry[k], s, TRUE)
             new == IsNew(Verdict(entry[k], s))
             T == IF ~new THEN seen[k]
                  ELSE IF Resets(e, s) THEN {s}
                  ELSE {x \in seen[k] \cup {s} : Behind(f.current, x) < Half}
  <2>1. entry[k] # None /\ Agrees(e, seen[k])
    BY <1>1, <1>4 DEF AddAgain
  <2>2. Agrees(f, T)
    BY <2>1, AddAgrees
  <2>3. f \in EntryType /\ f # None /\ T \in SUBSET Seqnos
    BY <2>2, AgreesIsEntry
  <2>4. entry' = [entry EXCEPT ![k] = f]
    BY <1>4 DEF AddAgain
  <2>5. seen' = [seen EXCEPT ![k] = T]
    BY <1>1, <1>4 DEF AddAgain, Marked
  <2>6. vtime' \in [Keys -> BOOLEAN] /\ \A j \in Keys : vtime'[j] => vtime[j] \/ j = k
    BY <1>1, <1>4 DEF AddAgain
  <2> HIDE DEF f, T
  <2> QED BY <1>1, <2>2, <2>3, <2>4, <2>5, <2>6
<1>5. ASSUME NEW k \in Keys, NEW s \in Seqnos, oonf_duplicate_test(k, s)
      PROVE  Inv(entry', vtime', seen')
  <2>1. CASE entry[k] = None
    BY <1>1, <1>5, <2>1 DEF oonf_duplicate_test
  <2>2. CASE entry[k] # None
    <3> DEFINE f == Updated(entry[k], s, FALSE)
               T == IF Resets(entry[k], s) THEN {s} ELSE seen[k]
    <3>1. Agrees(f, T)
      BY <1>1, <2>2, TestAgrees
    <3>2. f \in EntryType /\ f # None /\ T \in SUBSET Seqnos
      BY <3>1, AgreesIsEntry
    <3>3. entry' = [entry EXCEPT ![k] = f] /\ vtime' = vtime
      BY <1>5, <2>2 DEF oonf_duplicate_test
    <3>4. seen' = [seen EXCEPT ![k] = T]
      BY <1>1, <1>5, <2>2 DEF oonf_duplicate_test
    <3> HIDE DEF f, T
    <3> QED BY <1>1, <3>1, <3>2, <3>3, <3>4
  <2> QED BY <2>1, <2>2
<1>6. ASSUME NEW k \in Keys, cb_vtime(k)
      PROVE  Inv(entry', vtime', seen')
  BY <1>1, <1>6 DEF cb_vtime
<1>7. CASE oonf_duplicate_set_remove
  BY <1>1, <1>7 DEF oonf_duplicate_set_remove
<1>8. CASE UNCHANGED vars
  BY <1>1, <1>8 DEF vars
<1> QED BY <1>2, <1>3, <1>4, <1>5, <1>6, <1>7, <1>8 DEF Next, oonf_duplicate_entry_add

\* In every reachable state of oonf_duplicate_set.c the history bits of an entry
\* are exactly the numbers of the window it has accepted.
THEOREM DuplicateInvariant == Spec => []IInv
<1>1. Init => IInv
  BY InitIInv
<1>2. IInv /\ [Next]_vars => IInv'
  BY NextIInv
<1> QED BY <1>1, <1>2, PTL DEF Spec

\* The same, as the two invariants the model checker evaluates.
THEOREM DuplicateHistory == Spec => [](TypeOK /\ HistoryIsSeen)
<1>1. IInv => TypeOK /\ HistoryIsSeen
  BY DEF IInv
<1> QED BY <1>1, DuplicateInvariant, PTL

\* oonf_duplicate_entry_add() reports no number as new that the entry has
\* accepted and that is still within half of the space, however often the
\* numbers have wrapped around, unless the entry starts over.
THEOREM DuplicateNeverAcceptedTwice == Spec => NeverAcceptedTwice
<1> DEFINE Once(k) == /\ entry[k] # None
                      /\ last'.key = k /\ last'.new
                      /\ ~Resets(entry[k], last'.seqno)
                      => last'.seqno \notin seen[k]
<1>1. ASSUME IInv, [Next]_vars
      PROVE  [\A k \in Keys : Once(k)]_vars
  <2> SUFFICES ASSUME Next, NEW k \in Keys,
                      entry[k] # None, last'.key = k, last'.new,
                      ~Resets(entry[k], last'.seqno)
               PROVE  last'.seqno \notin seen[k]
    BY <1>1
  <2>1. ASSUME NEW j \in Keys, NEW s \in Seqnos, NEW z \in BOOLEAN, AddFirst(j, s, z)
        PROVE  FALSE
    <3>1. last'.key = j
      BY <2>1 DEF AddFirst
    <3> QED BY <2>1, <3>1 DEF AddFirst
  <2>2. ASSUME NEW j \in Keys, NEW s \in Seqnos, NEW z \in BOOLEAN, AddAgain(j, s, z)
        PROVE  last'.seqno \notin seen[k]
    <3> DEFINE e == entry[k]
               diff == rfc5444_seqno_difference(s, e.current)
    <3>1. j = k /\ last'.seqno = s /\ IsNew(Verdict(e, s)) /\ ~Resets(e, s)
      BY <2>2 DEF AddAgain
    <3>2. Agrees(e, seen[k]) /\ e.current \in Seqnos
      BY IInvIsAgrees, <1>1 DEF Agrees, EntryType
    <3>3. /\ diff \in Int
          /\ diff > 0 => Behind(e.current, s) >= Half
          /\ diff <= 0 => Before(e.current, -diff) = s
      BY <3>2, DifferenceFacts
    <3>4. s # e.current /\ ~TooOld(e, s) /\ (diff > 0 \/ -diff \notin e.history)
      BY <3>1 DEF Verdict, IsNew
    <3>5. CASE diff > 0
      <4>1. Behind(e.current, s) \in Int /\ Behind(e.current, s) >= Half
        BY <3>2, <3>3, <3>5, HalfFacts DEF Behind
      <4>2. s \in seen[k] => Behind(e.current, s) < Half
        BY <3>2 DEF Agrees
      <4> QED BY <3>1, <4>1, <4>2, HalfFacts
    <3>6. CASE ~(diff > 0)
      <4>1. -diff \in 0..(Window - 1)
        BY <3>3, <3>4, <3>6, HalfFacts DEF TooOld
      <4>2. -diff \notin e.history /\ Before(e.current, -diff) = s
        BY <3>3, <3>4, <3>6
      <4> HIDE DEF diff
      <4> QED BY <3>1, <3>2, <4>1, <4>2 DEF Agrees
    <3> QED BY <3>5, <3>6
  <2>3. ASSUME NEW j \in Keys, NEW s \in Seqnos,
               AddOutOfMemory(j, s) \/ oonf_duplicate_test(j, s) \/ cb_vtime(j)
                 \/ oonf_duplicate_set_remove
        PROVE  FALSE
    <3>1. \/ last' = [key |-> j, seqno |-> s, new |-> FALSE]
          \/ last' = [key |-> None, seqno |-> 0, new |-> FALSE]
      BY <2>3 DEF AddOutOfMemory, oonf_duplicate_test, cb_vtime, oonf_duplicate_set_remove
    <3> QED BY <3>1
  <2>4. 0 \in Seqnos
    BY HalfFacts
  <2> QED BY <2>1, <2>2, <2>3, <2>4 DEF Next, oonf_duplicate_entry_add
<1> QED BY <1>1, DuplicateInvariant, PTL DEF Spec, NeverAcceptedTwice

\* current never jumps back or ahead by more than half of the space, except
\* when MaxTooOld numbers in a row were too old.
THEOREM DuplicateMovesForward == Spec => CurrentMovesForward
<1> DEFINE Forward(e, f) == \/ Behind(f.current, e.current) <= Half
                            \/ e.too_old_count = MaxTooOld /\ f = Fresh(f.current)
<1>1. ASSUME NEW e, NEW S, Agrees(e, S), NEW s \in Seqnos, NEW set \in BOOLEAN
      PROVE  Forward(e, Updated(e, s, set))
  <2> DEFINE diff == rfc5444_seqno_difference(s, e.current)
             f == Updated(e, s, set)
  <2>1. /\ e.current \in Seqnos /\ e.too_old_count \in 0..MaxTooOld /\ e \in EntryType
        /\ Behind(e.current, e.current) <= Half
    BY <1>1, HalfFacts DEF Agrees, EntryType, Behind
  <2>2. CASE s # e.current /\ Resets(e, s)
    <3>1. f = Fresh(s) /\ f = Fresh(f.current)
      BY <2>2 DEF Updated, Fresh
    <3>2. e.too_old_count = MaxTooOld
      BY <2>1, <2>2, SeqAssumption DEF Resets
    <3> QED BY <3>1, <3>2
  <2>3. CASE s # e.current /\ ~Resets(e, s) /\ ~TooOld(e, s) /\ set /\ diff > 0
    <3>1. f = [current |-> s, history |-> Shifted(e.history, diff), too_old_count |-> 0]
      BY <2>3 DEF Updated
    <3>2. Behind(s, e.current) <= Half
      BY <2>1, <2>3, DifferenceFacts
    <3> HIDE DEF f
    <3>3. f.current = s
      BY <3>1
    <3>4. Forward(e, f)
      BY <3>2, <3>3
    <3> QED BY <3>4 DEF f
  <2>4. CASE s = e.current \/ ~(\/ Resets(e, s)
                                \/ ~TooOld(e, s) /\ set /\ diff > 0)
    <3>1. \/ f = e
          \/ f = [e EXCEPT !.too_old_count = @ + 1]
          \/ f = [e EXCEPT !.too_old_count = 0]
          \/ f = [e EXCEPT !.too_old_count = 0, !.history = @ \cup {-diff}]
      BY <2>4 DEF Updated
    <3> HIDE DEF f
    <3>2. f.current = e.current
      BY <3>1, <2>1 DEF EntryType
    <3>3. Forward(e, f)
      BY <3>2, <2>1
    <3> QED BY <3>3 DEF f
  <2> QED BY <2>2, <2>3, <2>4
<1>2. ASSUME IInv, [Next]_vars
      PROVE  [\A k \in Keys : entry[k] # None /\ entry'[k] # None
                => Forward(entry[k], entry'[k])]_vars
  <2> SUFFICES ASSUME Next, NEW k \in Keys, entry[k] # None, entry'[k] # None
               PROVE  Forward(entry[k], entry'[k])
    BY <1>2
  <2>1. Agrees(entry[k], seen[k]) /\ entry \in [Keys -> EntryType \cup {None}]
    BY <1>2, IInvIsAgrees
  <2>2. \/ entry'[k] = entry[k]
        \/ \E s \in Seqnos, set \in BOOLEAN : entry'[k] = Updated(entry[k], s, set)
    <3>1. ASSUME NEW j \in Keys, NEW s \in Seqnos, NEW z \in BOOLEAN,
                 AddFirst(j, s, z) \/ AddOutOfMemory(j, s) \/ AddAgain(j, s, z)
          PROVE  entry'[k] = entry[k] \/ entry'[k] = Updated(entry[k], s, TRUE)
      BY <3>1, <2>1 DEF AddFirst, AddOutOfMemory, AddAgain
    <3>2. ASSUME NEW j \in Keys, NEW s \in Seqnos, oonf_duplicate_test(j, s)
          PROVE  entry'[k] = entry[k] \/ entry'[k] = Updated(entry[k], s, FALSE)
      BY <3>2, <2>1 DEF oonf_duplicate_test
    <3>3. ASSUME NEW j \in Keys, cb_vtime(j)
          PROVE  entry'[k] = entry[k]
      BY <3>3, <2>1 DEF cb_vtime
    <3>4. ~oonf_duplicate_set_remove
      BY DEF oonf_duplicate_set_remove
    <3> QED BY <3>1, <3>2, <3>3, <3>4 DEF Next, oonf_duplicate_entry_add
  <2>3. Forward(entry[k], entry[k])
    BY <2>1, HalfFacts DEF Agrees, EntryType, Behind
  <2> QED BY <1>1, <2>1, <2>2, <2>3
<1> QED BY <1>2, DuplicateInvariant, PTL DEF Spec, CurrentMovesForward
=============================================================================
