-------------------------- MODULE OonfDuplicateSet --------------------------
(***************************************************************************)
(* The duplicate set (subsystems/oonf_duplicate_set.c): for every          *)
(* originator and message type it remembers which of the last sequence     *)
(* numbers were seen, in a sliding window over a sequence number space     *)
(* that wraps around.                                                      *)
(*                                                                         *)
(* The bit field entry->history is the set of the positions of its bits;   *)
(* bit d stands for the sequence number d before entry->current.  Time is  *)
(* left to the validity timer, which is running or not.                    *)
(***************************************************************************)
EXTENDS Integers, FiniteSets

CONSTANTS
  Keys,        \* originator and message type
  SeqMod,      \* the size of the sequence number space, 2^16
  Window,      \* the bits of the history, 32
  MaxTooOld,   \* OONF_DUPSET_MAXIMUM_TOO_OLD
  None         \* no entry

ASSUME SeqAssumption ==
  /\ SeqMod \in Nat /\ SeqMod % 2 = 0
  /\ Window \in Nat /\ Window > 0 /\ 2 * Window <= SeqMod
  /\ MaxTooOld \in Nat

Seqnos == 0..(SeqMod - 1)
Half == SeqMod \div 2

VARIABLES
  entry,    \* set->_tree: the entry of each key, or None
  vtime,    \* whether entry->_vtime is running
  seen,     \* history: numbers accepted for the entry, up to Half behind current
  last      \* the last call: key, number and whether it was reported new

vars == <<entry, vtime, seen, last>>

-----------------------------------------------------------------------------
(* Sequence numbers *)

rfc5444_seqno_difference(s1, s2) ==
  LET diff == s1 - s2
  IN IF diff > Half THEN diff - SeqMod
     ELSE IF diff < -Half THEN diff + SeqMod
     ELSE diff

\* How far the number s lies behind c, and the number d before c.
Behind(c, s) == IF s <= c THEN c - s ELSE c - s + SeqMod
Before(c, d) == IF d <= c THEN c - d ELSE c - d + SeqMod

-----------------------------------------------------------------------------
(* _test() *)

IsNew(res) == res \in {"NEW", "NEWEST", "FIRST"}

Fresh(s) == [current |-> s, history |-> {0}, too_old_count |-> 0]

\* Mutant of TooOld: the window is one number too long.
TooOldLate(e, s) == s # e.current /\ rfc5444_seqno_difference(s, e.current) < -Window

TooOld(e, s) == s # e.current /\ rfc5444_seqno_difference(s, e.current) < -(Window - 1)

Resets(e, s) == TooOld(e, s) /\ e.too_old_count + 1 > MaxTooOld

\* Mutant of Shifted: the old history is moved one position too little.
ShiftedShort(history, diff) ==
  IF diff >= Window THEN {0}
  ELSE {0} \cup ({d + diff - 1 : d \in history} \cap 0..(Window - 1))

\* The history after current has moved on by diff: history <<= diff, |= 1.
Shifted(history, diff) ==
  IF diff >= Window THEN {0}
  ELSE {0} \cup ({d + diff : d \in history} \cap 0..(Window - 1))

Verdict(e, s) ==
  LET diff == rfc5444_seqno_difference(s, e.current)
  IN IF s = e.current THEN "CURRENT"
     ELSE IF Resets(e, s) THEN "NEWEST"
     ELSE IF TooOld(e, s) THEN "TOO_OLD"
     ELSE IF diff > 0 THEN "NEWEST"
     ELSE IF -diff \in e.history THEN "DUPLICATE"
     ELSE "NEW"

\* What _test() does to the entry; set is false for oonf_duplicate_test().
Updated(e, s, set) ==
  LET diff == rfc5444_seqno_difference(s, e.current)
  IN IF s = e.current THEN e
     ELSE IF Resets(e, s) THEN Fresh(s)
     ELSE IF TooOld(e, s) THEN [e EXCEPT !.too_old_count = @ + 1]
     ELSE IF ~set THEN [e EXCEPT !.too_old_count = 0]
     ELSE IF diff > 0
          THEN [current |-> s, history |-> Shifted(e.history, diff), too_old_count |-> 0]
     ELSE [e EXCEPT !.too_old_count = 0, !.history = @ \cup {-diff}]

\* History: what the entry has accepted, s included.
Marked(k, s) ==
  LET c == Updated(entry[k], s, TRUE).current
  IN IF Resets(entry[k], s) THEN {s}
     ELSE {x \in seen[k] \cup {s} : Behind(c, x) < Half}

-----------------------------------------------------------------------------
Init == /\ entry = [k \in Keys |-> None]
        /\ vtime = [k \in Keys |-> FALSE]
        /\ seen = [k \in Keys |-> {}]
        /\ last = [key |-> None, seqno |-> 0, new |-> FALSE]

\* The first number of a key; the timer is started, then set once more, which
\* stops it if the validity time is zero.
AddFirst(k, s, zeroTime) ==
  /\ entry[k] = None
  /\ entry' = [entry EXCEPT ![k] = Fresh(s)]
  /\ vtime' = [vtime EXCEPT ![k] = ~zeroTime]
  /\ seen' = [seen EXCEPT ![k] = {s}]
  /\ last' = [key |-> k, seqno |-> s, new |-> TRUE]

\* oonf_class_malloc() failed: the number is reported as too old.
AddOutOfMemory(k, s) ==
  /\ entry[k] = None
  /\ last' = [key |-> k, seqno |-> s, new |-> FALSE]
  /\ UNCHANGED <<entry, vtime, seen>>

AddAgain(k, s, zeroTime) ==
  LET new == IsNew(Verdict(entry[k], s))
  IN /\ entry[k] # None
     /\ entry' = [entry EXCEPT ![k] = Updated(@, s, TRUE)]
     /\ vtime' = IF new THEN [vtime EXCEPT ![k] = ~zeroTime] ELSE vtime
     /\ seen' = IF new THEN [seen EXCEPT ![k] = Marked(k, s)] ELSE seen
     /\ last' = [key |-> k, seqno |-> s, new |-> new]

oonf_duplicate_entry_add(k, s, zeroTime) ==
  AddFirst(k, s, zeroTime) \/ AddOutOfMemory(k, s) \/ AddAgain(k, s, zeroTime)

\* Only looks, but counts numbers that are too old and may start over.
oonf_duplicate_test(k, s) ==
  /\ IF entry[k] = None THEN UNCHANGED <<entry, seen>>
     ELSE /\ entry' = [entry EXCEPT ![k] = Updated(@, s, FALSE)]
          /\ seen' = IF Resets(entry[k], s) THEN [seen EXCEPT ![k] = {s}] ELSE seen
  /\ last' = [key |-> None, seqno |-> 0, new |-> FALSE]
  /\ UNCHANGED vtime

\* The entry's validity ends.
cb_vtime(k) ==
  /\ vtime[k]
  /\ entry' = [entry EXCEPT ![k] = None]
  /\ vtime' = [vtime EXCEPT ![k] = FALSE]
  /\ seen' = [seen EXCEPT ![k] = {}]
  /\ last' = [key |-> None, seqno |-> 0, new |-> FALSE]

oonf_duplicate_set_remove ==
  /\ \E k \in Keys : entry[k] # None
  /\ entry' = [k \in Keys |-> None]
  /\ vtime' = [k \in Keys |-> FALSE]
  /\ seen' = [k \in Keys |-> {}]
  /\ last' = [key |-> None, seqno |-> 0, new |-> FALSE]

Next == \/ \E k \in Keys, s \in Seqnos, z \in BOOLEAN : oonf_duplicate_entry_add(k, s, z)
        \/ \E k \in Keys, s \in Seqnos : oonf_duplicate_test(k, s)
        \/ \E k \in Keys : cb_vtime(k)
        \/ oonf_duplicate_set_remove

Spec == Init /\ [][Next]_vars

-----------------------------------------------------------------------------
(* Properties *)

EntryType == [current : Seqnos, history : SUBSET (0..(Window - 1)),
              too_old_count : 0..MaxTooOld]

ASSUME NoneAssumption == None \notin EntryType

\* Entries are well formed, current itself is always in the history, and only
\* an entry has a validity timer.
TypeOK ==
  /\ entry \in [Keys -> EntryType \cup {None}]
  /\ vtime \in [Keys -> BOOLEAN]
  /\ seen \in [Keys -> SUBSET Seqnos]
  /\ \A k \in Keys : entry[k] # None => 0 \in entry[k].history
  /\ \A k \in Keys : vtime[k] => entry[k] # None

\* The bits of the history are exactly the accepted numbers of the window,
\* however often the space has wrapped around.
HistoryIsSeen ==
  \A k \in Keys : entry[k] # None =>
    entry[k].history = {d \in 0..(Window - 1) : Before(entry[k].current, d) \in seen[k]}

\* A number is not accepted again while it is not newer than current: neither
\* within the window nor behind it, unless the entry starts over.
NeverAcceptedTwice ==
  [][\A k \in Keys :
       /\ entry[k] # None
       /\ last'.key = k /\ last'.new
       /\ ~Resets(entry[k], last'.seqno)
       => last'.seqno \notin seen[k]]_vars

\* current only moves forward, by no more than half of the space, unless the
\* entry starts over after more than MaxTooOld numbers that were too old.
CurrentMovesForward ==
  [][\A k \in Keys : entry[k] # None /\ entry'[k] # None =>
       LET e == entry[k]
           f == entry'[k]
       IN \/ Behind(f.current, e.current) <= Half
          \/ e.too_old_count = MaxTooOld /\ f = Fresh(f.current)]_vars

\* The comment of _test(): with set false the entry is left unchanged.
TestLeavesEntryUnchanged ==
  [][\A k \in Keys : (\E s \in Seqnos : oonf_duplicate_test(k, s)) => entry' = entry]_vars
=============================================================================
