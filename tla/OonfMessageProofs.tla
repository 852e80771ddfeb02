-------------------------- MODULE OonfMessageProofs --------------------------
(***************************************************************************)
(* Proofs about what is exchanged with the outside.  RFC 5444: the reader   *)
(* and the registry of the writer, for all consumers, packets and answers  *)
(* of callbacks.  Netlink: the jobs, for every number of routes, addresses *)
(* and requests; whatever is lost, late, interrupted or repeated, a job is *)
(* told the fate of its own request, and told once.                        *)
(***************************************************************************)
EXTENDS OsNetlink, Rfc5444Writer, Rfc5444Reader, ListProofs, FiniteSetTheorems

-----------------------------------------------------------------------------
(* Lists into which the trees of the code are translated. *)

\* The least element of a set of places is one of them.
LEMMA MinIsIn ==
  ASSUME NEW n \in Nat, NEW I, I \subseteq 1..n, I # {}
  PROVE  Min(I) \in I
<1>1. I \subseteq Nat
  OBVIOUS
<1>2. \E x \in I : \A y \in I : x <= y
  BY <1>1, LeastElement
<1> QED BY <1>2 DEF Min

\* What a list is after something has been put into it.
LEMMA InsertAtList ==
  ASSUME NEW S, NEW s \in Seq(S), NEW i \in 1..Len(s), NEW e \in S
  PROVE  /\ InsertAt(s, i, e) \in Seq(S)
         /\ Len(InsertAt(s, i, e)) = Len(s) + 1
         /\ \A k \in 1..(Len(s) + 1) :
              InsertAt(s, i, e)[k] = IF k < i THEN s[k] ELSE IF k = i THEN e ELSE s[k - 1]
<1>1. Len(s) \in Nat /\ DOMAIN s = 1..Len(s)
  BY LenProperties
<1> DEFINE a == SubSeq(s, 1, i - 1)
           b == SubSeq(s, i, Len(s))
           f == a \o <<e>>
           g == f \o b
<1>2. /\ a \in Seq(S) /\ Len(a) = i - 1
      /\ \A k \in 1..(i - 1) : a[k] = s[k]
  BY <1>1
<1>3. /\ b \in Seq(S) /\ Len(b) = Len(s) - i + 1
      /\ \A k \in 1..(Len(s) - i + 1) : b[k] = s[i + k - 1]
  BY <1>1
<1>4. g = InsertAt(s, i, e)
  BY DEF InsertAt
<1> HIDE DEF a, b
<1>5. /\ f \in Seq(S) /\ Len(f) = i
      /\ \A k \in 1..i : f[k] = IF k < i THEN s[k] ELSE e
  BY <1>1, <1>2
<1> HIDE DEF f
<1>6. /\ g \in Seq(S) /\ Len(g) = Len(s) + 1
      /\ \A k \in 1..(Len(s) + 1) : g[k] = IF k <= i THEN f[k] ELSE b[k - i]
  <2>1. /\ f \o b \in Seq(S) /\ Len(f \o b) = Len(f) + Len(b)
        /\ \A k \in 1..(Len(f) + Len(b)) :
             (f \o b)[k] = IF k <= Len(f) THEN f[k] ELSE b[k - Len(f)]
    BY <1>3, <1>5, ConcatProperties
  <2>2. Len(f) + Len(b) = Len(s) + 1 /\ Len(f) = i
    BY <1>1, <1>3, <1>5
  <2> QED BY <2>1, <2>2
<1> HIDE DEF g
<1>7. ASSUME NEW k \in 1..(Len(s) + 1)
      PROVE  g[k] = IF k < i THEN s[k] ELSE IF k = i THEN e ELSE s[k - 1]
  <2>1. CASE k <= i
    <3>1. k \in 1..i
      BY <2>1
    <3> QED BY <1>5, <1>6, <2>1, <3>1
  <2>2. CASE k > i
    <3>1. k - i \in 1..(Len(s) - i + 1) /\ ~ (k <= i) /\ i + (k - i) - 1 = k - 1
      BY <1>1, <2>2
    <3> QED BY <1>3, <1>6, <2>2, <3>1
  <2> QED BY <1>1, <2>1, <2>2
<1> QED BY <1>4, <1>6, <1>7

\* An insertion in front of a place, or at the end, keeps what was there.
LEMMA InsertBeforeList ==
  ASSUME NEW S, NEW s \in Seq(S), NEW i \in 0..Len(s), NEW e \in S
  PROVE  /\ InsertBefore(s, i, e) \in Seq(S)
         /\ Len(InsertBefore(s, i, e)) = Len(s) + 1
<1>1. CASE i = 0
  BY <1>1, AppendProperties DEF InsertBefore
<1>2. CASE i # 0
  <2>1. i \in 1..Len(s)
    BY <1>2, LenProperties
  <2> QED BY <1>2, <2>1, InsertAtList DEF InsertBefore
<1> QED BY <1>1, <1>2

\* ... and what is new stays a list without repetition.
LEMMA InsertBeforeOnce ==
  ASSUME NEW S, NEW s \in Seq(S), Once(s), NEW i \in 0..Len(s), NEW e \in S, ~ Contains(s, e)
  PROVE  Once(InsertBefore(s, i, e))
<1>1. Len(s) \in Nat
  BY LenProperties
<1>2. CASE i = 0
  BY <1>2, AppendOnce DEF InsertBefore
<1>3. CASE i # 0
  <2> DEFINE r == InsertAt(s, i, e)
  <2>1. i \in 1..Len(s)
    BY <1>1, <1>3
  <2>2. /\ Len(r) = Len(s) + 1
        /\ \A k \in 1..(Len(s) + 1) : r[k] = IF k < i THEN s[k] ELSE IF k = i THEN e ELSE s[k - 1]
    BY <2>1, InsertAtList
  <2> HIDE DEF r
  <2>3. \A k \in 1..Len(s) : s[k] # e
    BY DEF Contains
  <2>4. Once(r)
    <3> SUFFICES ASSUME NEW k \in 1..Len(r), NEW l \in 1..Len(r), r[k] = r[l] PROVE k = l
      BY DEF Once
    <3> DEFINE old(n) == IF n < i THEN n ELSE n - 1
    <3>1. \A n \in 1..Len(r) : n # i => old(n) \in 1..Len(s) /\ r[n] = s[old(n)]
      BY <1>1, <2>1, <2>2
    <3>2. r[i] = e
      BY <1>1, <2>1, <2>2
    <3>3. k = i <=> l = i
      BY <2>3, <3>1, <3>2
    <3>4. CASE k # i
      <4>1. old(k) = old(l)
        BY <3>1, <3>3, <3>4 DEF Once
      <4>2. k \in Int /\ l \in Int /\ i \in Int
        BY <2>2, <1>1
      <4> QED BY <3>3, <3>4, <4>1, <4>2
    <3> QED BY <3>3, <3>4
  <2> QED BY <1>3, <2>4 DEF InsertBefore, r
<1> QED BY <1>2, <1>3

\* Where everything is afterwards.
LEMMA InsertBeforePlaces ==
  ASSUME NEW S, NEW s \in Seq(S), NEW i \in 0..Len(s), NEW e \in S,
         NEW p, p = IF i = 0 THEN Len(s) + 1 ELSE i
  PROVE  \A k \in 1..(Len(s) + 1) :
           InsertBefore(s, i, e)[k] = IF k < p THEN s[k] ELSE IF k = p THEN e ELSE s[k - 1]
<1>1. Len(s) \in Nat
  BY LenProperties
<1>2. CASE i = 0
  <2> DEFINE a == Append(s, e)
  <2>1. (\A k \in 1..Len(s) : a[k] = s[k]) /\ a[Len(s) + 1] = e
    BY AppendProperties
  <2>2. a = InsertBefore(s, i, e)
    BY <1>2 DEF InsertBefore
  <2> HIDE DEF a
  <2>3. \A k \in 1..(Len(s) + 1) : (k \in 1..Len(s) /\ k < p) \/ (k = Len(s) + 1 /\ k = p)
    BY <1>1, <1>2
  <2>4. p \in Int /\ ~ (p < p)
    BY <1>1, <1>2
  <2> QED BY <2>1, <2>2, <2>3, <2>4
<1>3. CASE i # 0
  <2>1. i \in 1..Len(s) /\ p = i
    BY <1>1, <1>3
  <2>2. InsertBefore(s, i, e) = InsertAt(s, i, e)
    BY <1>3 DEF InsertBefore
  <2> QED BY <2>1, <2>2, InsertAtList
<1> QED BY <1>2, <1>3

\* A list of pairwise related elements stays one if another one is put at its place.
LEMMA PlacesInOrder ==
  ASSUME NEW n \in Nat, NEW f, NEW x, NEW R, NEW p \in 1..(n + 1),
         NEW g, \A k \in 1..(n + 1) : g[k] = IF k < p THEN f[k] ELSE IF k = p THEN x ELSE f[k - 1],
         \A j, k \in 1..n : j < k => <<f[j], f[k]>> \in R,
         \A k \in 1..n : k < p => <<f[k], x>> \in R,
         \A k \in 1..n : p <= k => <<x, f[k]>> \in R
  PROVE  \A j, k \in 1..(n + 1) : j < k => <<g[j], g[k]>> \in R
<1> SUFFICES ASSUME NEW j \in 1..(n + 1), NEW k \in 1..(n + 1), j < k
    PROVE  <<g[j], g[k]>> \in R
  OBVIOUS
<1>1. CASE j < p /\ k < p
  <2>1. j \in 1..n /\ k \in 1..n /\ g[j] = f[j] /\ g[k] = f[k]
    BY <1>1
  <2> QED BY <2>1
<1>2. CASE j < p /\ k = p
  <2>1. j \in 1..n /\ g[j] = f[j] /\ g[k] = x
    BY <1>2
  <2> QED BY <1>2, <2>1
<1>3. CASE j < p /\ k > p
  <2>1. j \in 1..n /\ k - 1 \in 1..n /\ g[j] = f[j] /\ g[k] = f[k - 1] /\ j < k - 1
    BY <1>3
  <2> QED BY <2>1
<1>4. CASE j = p /\ k > p
  <2>1. k - 1 \in 1..n /\ g[j] = x /\ g[k] = f[k - 1] /\ p <= k - 1
    BY <1>4
  <2> QED BY <2>1
<1>5. CASE j > p /\ k > p
  <2>1. j - 1 \in 1..n /\ k - 1 \in 1..n /\ g[j] = f[j - 1] /\ g[k] = f[k - 1] /\ j - 1 < k - 1
    BY <1>5
  <2> QED BY <2>1
<1> QED BY <1>1, <1>2, <1>3, <1>4, <1>5

\* The place that SelectInSeq() finds: the first one of 'I', or 0.
LEMMA FirstPlace ==
  ASSUME NEW n \in Nat, NEW I \in SUBSET (1..n), NEW i, i = IF I # {} THEN Min(I) ELSE 0
  PROVE  /\ i \in 0..n
         /\ i = 0 => I = {}
         /\ i # 0 => i \in I /\ \A k \in 1..n : k < i => k \notin I
<1>1. CASE I = {}
  BY <1>1
<1>2. CASE I # {}
  <2>1. I \subseteq Nat
    OBVIOUS
  <2>2. \E x \in I : \A y \in I : x <= y
    BY <1>2, <2>1, LeastElement
  <2>3. i = CHOOSE x \in I : \A y \in I : x <= y
    BY <1>2 DEF Min
  <2>4. i \in I /\ \A y \in I : i <= y
    BY <2>2, <2>3
  <2> QED BY <2>1, <2>4
<1> QED BY <1>1, <1>2

\* What is put in front of a place, or at the end, is related to what stands
\* before and behind it.
LEMMA InsertBeforeInOrder ==
  ASSUME NEW S, NEW s \in Seq(S), NEW e \in S, NEW R, NEW i \in 0..Len(s),
         \A j, k \in 1..Len(s) : j < k => <<s[j], s[k]>> \in R,
         \A k \in 1..Len(s) : IF i = 0 \/ k < i THEN <<s[k], e>> \in R ELSE <<e, s[k]>> \in R,
         NEW r, r = InsertBefore(s, i, e)
  PROVE  \A j, k \in 1..(Len(s) + 1) : j < k => <<r[j], r[k]>> \in R
<1>1. Len(s) \in Nat
  BY LenProperties
<1>2. PICK n \in Nat : n = Len(s)
  BY <1>1
<1>3. PICK p \in 1..(n + 1) : p = IF i = 0 THEN n + 1 ELSE i
  BY <1>2
<1>4. \A k \in 1..(n + 1) : r[k] = IF k < p THEN s[k] ELSE IF k = p THEN e ELSE s[k - 1]
  BY <1>2, <1>3, InsertBeforePlaces
<1>5. \A k \in 1..n : k < p <=> i = 0 \/ k < i
  BY <1>2, <1>3
<1>6. \A k \in 1..n : k < p => <<s[k], e>> \in R
  BY <1>2, <1>5
<1>7. \A k \in 1..n : p <= k => <<e, s[k]>> \in R
  <2>1. \A k \in 1..n : p <= k => ~ (k < p)
    OBVIOUS
  <2> QED BY <1>2, <1>5, <2>1
<1>8. \A j, k \in 1..n : j < k => <<s[j], s[k]>> \in R
  BY <1>2
<1>9. \A j, k \in 1..(n + 1) : j < k => <<r[j], r[k]>> \in R
  BY <1>4, <1>6, <1>7, <1>8, PlacesInOrder
<1> QED BY <1>2, <1>9

-----------------------------------------------------------------------------
(* The registry of the writer. *)

\* What the creator is, registered or not, and who uses it.
Registries == [exists : BOOLEAN, registered : BOOLEAN, specific : BOOLEAN,
               users : SUBSET {"provider", "provider type", "single type"}]

Owned(r) == r \in Registries /\ ((r.users # {} \/ r.registered) <=> r.exists)

\* What is left when the creator is freed.
LEMMA NoCreatorOwned ==
  /\ Owned(NoCreator)
  /\ NoCreator \in Registries /\ NoCreator.users = {}
  /\ ~ NoCreator.exists /\ ~ NoCreator.registered
<1>1. NoCreator \in Registries
  BY SMT DEF Registries, NoCreator
<1>2. NoCreator.users = {} /\ NoCreator.exists = FALSE /\ NoCreator.registered = FALSE
  BY DEF NoCreator
<1> QED BY <1>1, <1>2 DEF Owned

\* _lazy_free_message() leaves a creator that is used or registered, and no
\* other one.
LEMMA LazyFreeOwned ==
  ASSUME NEW r \in Registries, NEW q, q = lazy_free_message(r), r.exists
  PROVE  Owned(q) /\ (r.users # {} => q = r)
<1>1. CASE ~ r.registered /\ r.users = {}
  <2>1. q = NoCreator
    BY <1>1 DEF lazy_free_message
  <2> QED BY <1>1, <2>1, NoCreatorOwned
<1>2. CASE ~ (~ r.registered /\ r.users = {})
  <2>1. q = r
    BY <1>2 DEF lazy_free_message
  <2>2. r.registered \in BOOLEAN
    BY DEF Registries
  <2> QED BY <1>2, <2>1, <2>2 DEF Owned
<1> QED BY <1>1, <1>2

\* Nothing is freed that is still in use, and nothing that is freed is in use:
\* every step of the registry keeps the creator with its users.
LEMMA RegistryStep ==
  ASSUME Owned(registry), [WriterNext]_writerVars
  PROVE  Owned(registry')
<1>1. registry \in Registries /\ ((registry.users # {} \/ registry.registered) <=> registry.exists)
  BY DEF Owned
<1>2. ASSUME NEW c, NEW s, create_message(s, c) PROVE Owned(registry')
  BY <1>2 DEF create_message
<1>3. ASSUME NEW m, NEW s, forward_msg(s, m) PROVE Owned(registry')
  BY <1>3 DEF forward_msg
<1>4. ASSUME NEW t, NEW force, Flush(t, force) PROVE Owned(registry')
  BY <1>4 DEF Flush
<1>5. ASSUME NEW specific \in BOOLEAN, register_message(specific) PROVE Owned(registry')
  <2>1. registry' = [registry EXCEPT !.exists = TRUE, !.registered = TRUE, !.specific = specific]
    BY <1>5 DEF register_message, Registry
  <2> QED BY <1>1, <2>1 DEF Owned, Registries
<1>6. ASSUME unregister_message PROVE Owned(registry')
  <2> DEFINE r == [registry EXCEPT !.registered = FALSE]
  <2>1. registry' = lazy_free_message(r) /\ registry.exists
    BY <1>6 DEF unregister_message, Registry
  <2>2. r \in Registries /\ r.exists
    BY <1>1, <2>1 DEF Registries
  <2> QED BY <2>1, <2>2, LazyFreeOwned
<1>7. ASSUME register_msgcontentprovider PROVE Owned(registry')
  <2>1. registry' = [registry EXCEPT !.exists = TRUE, !.users = @ \cup {"provider", "provider type"}]
    BY <1>7 DEF register_msgcontentprovider, Registry
  <2> QED BY <1>1, <2>1 DEF Owned, Registries
<1>8. ASSUME unregister_content_provider PROVE Owned(registry')
  <2> DEFINE r == [registry EXCEPT !.users = @ \ {"provider type"}]
             typeless == lazy_free_message(r)
             q == [typeless EXCEPT !.users = @ \ {"provider"}]
  <2>1. registry' = lazy_free_message(q) /\ "provider" \in registry.users
    BY <1>8 DEF unregister_content_provider, Registry
  <2>2. r \in Registries /\ r.exists /\ "provider" \in r.users
    BY <1>1, <2>1 DEF Registries
  <2>3. typeless = r
    <3> HIDE DEF r
    <3> QED BY <2>2, LazyFreeOwned
  <2>4. q \in Registries /\ q.exists
    <3> HIDE DEF r, typeless
    <3> QED BY <2>2, <2>3 DEF Registries
  <2> HIDE DEF q
  <2> QED BY <2>1, <2>4, LazyFreeOwned
<1>9. ASSUME register_addrtlvtype PROVE Owned(registry')
  <2>1. registry' = [registry EXCEPT !.exists = TRUE, !.users = @ \cup {"single type"}]
    BY <1>9 DEF register_addrtlvtype, Registry
  <2> QED BY <1>1, <2>1 DEF Owned, Registries
<1>10. ASSUME unregister_addrtlvtype PROVE Owned(registry')
  <2> DEFINE r == [registry EXCEPT !.users = @ \ {"single type"}]
  <2>1. registry' = lazy_free_message(r) /\ "single type" \in registry.users
    BY <1>10 DEF unregister_addrtlvtype, Registry
  <2>2. r \in Registries /\ r.exists
    BY <1>1, <2>1 DEF Registries
  <2> QED BY <2>1, <2>2, LazyFreeOwned
<1>11. ASSUME NEW t, register_target(t) \/ unregister_target(t) PROVE Owned(registry')
  BY <1>11 DEF register_target, unregister_target
<1>12. ASSUME NEW on, register_pkthandler(on) PROVE Owned(registry')
  BY <1>12 DEF register_pkthandler
<1>13. ASSUME writer_cleanup PROVE Owned(registry')
  <2> DEFINE kept == [registry EXCEPT !.registered = registry.exists]
             k == [kept EXCEPT !.users = @ \ {"provider"}]
             typed == lazy_free_message(k)
             u == [typed EXCEPT !.users = {}]
             untyped == lazy_free_message(u)
             q == [untyped EXCEPT !.registered = FALSE]
  <2>1. registry' = lazy_free_message(q)
    BY <1>13 DEF writer_cleanup
  <2>2. k \in Registries /\ k.exists = registry.exists /\ k.registered = registry.exists
    BY <1>1 DEF Registries
  <2> HIDE DEF k
  <2>3. typed = k \/ typed = NoCreator
    BY DEF lazy_free_message
  <2>4. CASE registry.exists
    <3>1. typed = k
      BY <2>2, <2>4 DEF lazy_free_message
    <3>2. u \in Registries /\ u.registered
      <4> HIDE DEF typed
      <4> QED BY <2>2, <2>4, <3>1 DEF Registries
    <3> HIDE DEF u
    <3>3. untyped = u
      BY <3>2 DEF lazy_free_message
    <3> HIDE DEF untyped
    <3>4. q \in Registries /\ q.users = u.users /\ ~ q.registered
      BY <3>2, <3>3 DEF Registries
    <3>5. u.users = {}
      <4> HIDE DEF typed
      <4> QED BY <2>2, <3>1 DEF u, Registries
    <3> HIDE DEF q
    <3>6. registry' = NoCreator
      BY <2>1, <3>4, <3>5 DEF lazy_free_message
    <3> QED BY <3>6, NoCreatorOwned
  <2>5. CASE ~ registry.exists
    <3>1. typed \in Registries /\ ~ typed.registered
      BY <2>2, <2>3, <2>5, NoCreatorOwned DEF Registries
    <3> HIDE DEF typed
    <3>2. u \in Registries /\ ~ u.registered /\ u.users = {}
      BY <3>1 DEF Registries
    <3> HIDE DEF u
    <3>3. untyped = NoCreator
      BY <3>2 DEF lazy_free_message
    <3>4. q = NoCreator
      <4> HIDE DEF untyped
      <4>1. q = [NoCreator EXCEPT !.registered = FALSE]
        BY <3>3
      <4> HIDE DEF q
      <4> QED BY <4>1 DEF NoCreator
    <3> HIDE DEF q
    <3>5. registry' = NoCreator
      BY <2>1, <3>4 DEF lazy_free_message
    <3> QED BY <3>5, NoCreatorOwned
  <2> QED BY <2>4, <2>5
<1>14. ASSUME UNCHANGED writerVars PROVE Owned(registry')
  BY <1>14 DEF writerVars
<1> QED BY <1>2, <1>3, <1>4, <1>5, <1>6, <1>7, <1>8, <1>9, <1>10, <1>11, <1>12, <1>13, <1>14
        DEF WriterNext

\* A content provider or a TLV type that is registered always belongs to a
\* message creator that has not been freed (rfc5444_writer.c).
THEOREM WriterUsersHaveCreator == WriterSpec => []UsersHaveCreator
<1>1. ASSUME WriterInit PROVE Owned(registry)
  <2>1. CASE registry = NoCreator
    BY <2>1, NoCreatorOwned
  <2>2. ASSUME NEW specific \in BOOLEAN,
               registry = [exists |-> TRUE, registered |-> TRUE, specific |-> specific,
                           users |-> {"provider", "provider type"}]
        PROVE  Owned(registry)
    <3>1. registry \in Registries /\ registry.exists = TRUE /\ registry.registered = TRUE
      BY <2>2 DEF Registries
    <3> QED BY <3>1 DEF Owned
  <2> QED BY <1>1, <2>1, <2>2 DEF WriterInit
<1>2. Owned(registry) /\ [WriterNext]_writerVars => Owned(registry)'
  BY RegistryStep
<1>3. Owned(registry) => UsersHaveCreator
  BY DEF Owned, UsersHaveCreator
<1> QED BY <1>1, <1>2, <1>3, PTL DEF WriterSpec

-----------------------------------------------------------------------------
(* What the parser returns: lists, and places in the data. *)

\* What is read is a number, also behind the data.
LEMMA ReadOctets ==
  ASSUME NEW b \in Seq(Octet), NEW e \in 1..(Len(b) + 1), NEW p \in Int, p >= 1
  PROVE  get_u8(b, p, e) \in Nat /\ get_u16(b, p, e) \in Nat
<1>1. Octet \subseteq Nat
  BY DEF Octet
<1>2. Len(b) \in Nat /\ \A k \in 1..Len(b) : b[k] \in Octet
  BY ElementOfSeq
<1>3. ASSUME NEW q \in Int, q >= 1 PROVE get_u8(b, q, e) \in Nat
  <2>1. CASE q < e
    <3>1. q \in 1..Len(b)
      BY <1>2, <1>3, <2>1
    <3> QED BY <1>1, <1>2, <2>1, <3>1 DEF get_u8
  <2>2. CASE ~ (q < e)
    BY <2>2 DEF get_u8
  <2> QED BY <2>1, <2>2
<1>4. p + 1 \in Int /\ p + 1 >= 1
  OBVIOUS
<1>5. get_u8(b, p, e) \in Nat /\ get_u8(b, p + 1, e) \in Nat
  BY <1>3, <1>4
<1>6. PICK x \in Nat, y \in Nat : x = get_u8(b, p, e) /\ y = get_u8(b, p + 1, e)
  BY <1>5
<1>7. 256 * x + y \in Nat
  OBVIOUS
<1>8. get_u16(b, p, e) = 256 * x + y
  BY <1>6, Zenon DEF get_u16
<1> QED BY <1>5, <1>7, <1>8

\* A number of any size is one.
LEMMA ReadNumber ==
  ASSUME NEW b \in Seq(Octet), NEW e \in 1..(Len(b) + 1), NEW p \in Int, p >= 1, NEW size
  PROVE  get_number(b, p, e, size) \in Nat
BY ReadOctets DEF get_number

\* One octet stays one.
LEMMA ReadOctet ==
  ASSUME NEW b \in Seq(Octet), NEW e \in 1..(Len(b) + 1), NEW p \in Int, p >= 1
  PROVE  get_u8(b, p, e) \in Octet
<1>1. Len(b) \in Nat /\ \A k \in 1..Len(b) : b[k] \in Octet
  BY ElementOfSeq
<1>2. CASE p < e
  <2>1. p \in 1..Len(b)
    BY <1>1, <1>2
  <2> QED BY <1>1, <1>2, <2>1 DEF get_u8
<1>3. CASE ~ (p < e)
  <2>1. 0 \in Octet
    BY DEF Octet
  <2> QED BY <1>3, <2>1 DEF get_u8
<1> QED BY <1>2, <1>3

\* TLVs in their order, whose types are octets.
order(tlv) == intorder(tlv.type, tlv.ext)
IsTlv(tlv) == tlv.type \in Octet /\ tlv.ext \in Octet
TlvList(t) ==
  /\ Len(t) \in Nat /\ DOMAIN t = 1..Len(t)
  /\ \A k \in 1..Len(t) : IsTlv(t[k])
  /\ \A j, k \in 1..Len(t) : j < k => order(t[j]) <= order(t[k])

\* A TLV ends inside of the data it may use.
LEMMA TlvEnds ==
  ASSUME NEW b \in Seq(Octet), NEW e \in 1..(Len(b) + 1), NEW p \in 1..e, NEW n,
         parse_tlv(b, p, e, n) # Bad
  PROVE  parse_tlv(b, p, e, n).next \in 1..e /\ IsTlv(parse_tlv(b, p, e, n))
<1>1. PICK flags : flags = FlagsIn(get_u8(b, p + 1, e), TlvBit)
  OBVIOUS
<1>2. e \in Nat /\ p \in Nat /\ p >= 1
  BY LenProperties
<1>3. PICK q \in Nat, r \in Nat, v \in Nat :
        /\ q = p + 2 + ExtLen(flags) /\ r = q + IdxLen(flags) /\ v = r + LengthLen(flags)
        /\ r >= 1 /\ v >= 1
  <2>1. ExtLen(flags) \in Nat /\ IdxLen(flags) \in Nat /\ LengthLen(flags) \in Nat
    BY DEF ExtLen, IdxLen, LengthLen
  <2>2. PICK x \in Nat, y \in Nat, z \in Nat :
          x = ExtLen(flags) /\ y = IdxLen(flags) /\ z = LengthLen(flags)
    BY <2>1
  <2>3. /\ p + 2 + x \in Nat /\ p + 2 + x + y \in Nat /\ p + 2 + x + y + z \in Nat
        /\ p + 2 + x + y >= 1 /\ p + 2 + x + y + z >= 1
    BY <1>2
  <2> QED BY <2>2, <2>3
<1>4. PICK length \in Nat : length = get_number(b, r, e, LengthLen(flags))
  BY <1>3, ReadNumber
<1>5. parse_tlv(b, p, e, n) = TlvWith(b, p, q, r, v, e, n, flags)
  BY <1>1, <1>3 DEF parse_tlv
<1>6. ~ (v + length > e) /\ TlvWith(b, p, q, r, v, e, n, flags).next = v + length
  BY <1>4, <1>5 DEF TlvWith
<1>7. /\ TlvWith(b, p, q, r, v, e, n, flags).type = get_u8(b, p, e)
      /\ TlvWith(b, p, q, r, v, e, n, flags).ext = get_number(b, p + 2, e, ExtLen(flags))
  BY <1>4, <1>5 DEF TlvWith
<1>8. get_u8(b, p, e) \in Octet /\ get_number(b, p + 2, e, ExtLen(flags)) \in Octet
  <2>1. get_u8(b, p, e) \in Octet /\ get_u8(b, p + 2, e) \in Octet
    BY <1>2, ReadOctet
  <2>2. 0 \in Octet
    BY DEF Octet
  <2> QED BY <2>1, <2>2 DEF get_number, ExtLen
<1>9. IsTlv(parse_tlv(b, p, e, n))
  BY <1>5, <1>7, <1>8 DEF IsTlv
<1> QED BY <1>2, <1>3, <1>4, <1>5, <1>6, <1>9

\* The tree of TLVs stays in order.
LEMMA InsertTlvList ==
  ASSUME NEW U, NEW s \in Seq(U), TlvList(s), NEW tlv \in U, IsTlv(tlv)
  PROVE  InsertTlv(s, tlv) \in Seq(U) /\ TlvList(InsertTlv(s, tlv))
<1> DEFINE R == {x \in U \X U : order(x[1]) <= order(x[2])}
           I == {k \in 1..Len(s) : order(s[k]) > order(tlv)}
<1>1. Len(s) \in Nat /\ \A k \in 1..Len(s) : s[k] \in U /\ IsTlv(s[k])
  BY LenProperties, ElementOfSeq DEF TlvList
<1>2. ASSUME NEW u, IsTlv(u) PROVE order(u) \in Int
  <2>1. u.type \in Octet /\ u.ext \in Octet
    BY <1>2 DEF IsTlv
  <2>3. Octet \subseteq Int
    BY DEF Octet
  <2>2. PICK x \in Int, y \in Int : x = u.type /\ y = u.ext
    BY <2>1, <2>3
  <2> QED BY <2>2 DEF order, intorder
<1>3. PICK J \in SUBSET (1..Len(s)) : J = I
  OBVIOUS
<1>4. PICK i : i = IF J # {} THEN Min(J) ELSE 0
  OBVIOUS
<1>5. PICK r : r = InsertBefore(s, i, tlv)
  OBVIOUS
<1>6. InsertTlv(s, tlv) = r
  BY <1>3, <1>4, <1>5 DEF InsertTlv, SelectInSeq, order
<1>7. /\ i \in 0..Len(s)
      /\ i = 0 => J = {}
      /\ i # 0 => i \in J /\ \A k \in 1..Len(s) : k < i => k \notin J
  BY <1>1, <1>3, <1>4, FirstPlace
<1>8. \A k \in 1..Len(s) : order(s[k]) \in Int /\ order(tlv) \in Int
  BY <1>1, <1>2
<1>9. \A k \in 1..Len(s) : k \in J <=> order(s[k]) > order(tlv)
  BY <1>3
<1>10. \A j, k \in 1..Len(s) : j < k => order(s[j]) <= order(s[k])
  BY DEF TlvList
<1>11. \A k \in 1..Len(s) : IF i = 0 \/ k < i THEN <<s[k], tlv>> \in R ELSE <<tlv, s[k]>> \in R
  <2> SUFFICES ASSUME NEW k \in 1..Len(s)
      PROVE  IF i = 0 \/ k < i THEN order(s[k]) <= order(tlv) ELSE order(tlv) <= order(s[k])
    BY <1>1
  <2>1. CASE i = 0 \/ k < i
    <3>1. k \notin J
      BY <1>7, <2>1
    <3>2. ~ (order(s[k]) > order(tlv)) /\ order(s[k]) \in Int /\ order(tlv) \in Int
      BY <1>8, <1>9, <3>1
    <3>3. order(s[k]) <= order(tlv)
      BY <3>2
    <3> QED BY <2>1, <3>3
  <2>2. CASE ~ (i = 0 \/ k < i)
    <3>1. i \in J /\ i \in 1..Len(s) /\ (i = k \/ i < k)
      BY <1>3, <1>7, <2>2
    <3>2. order(s[i]) > order(tlv) /\ order(s[i]) <= order(s[k])
      BY <1>8, <1>9, <1>10, <3>1
    <3>3. order(s[i]) \in Int /\ order(s[k]) \in Int /\ order(tlv) \in Int
      BY <1>8, <3>1
    <3>4. order(tlv) <= order(s[k])
      BY <3>2, <3>3
    <3> QED BY <2>2, <3>4
  <2> QED BY <2>1, <2>2
<1>12. \A j, k \in 1..Len(s) : j < k => <<s[j], s[k]>> \in R
  BY <1>1, <1>10
<1>13. \A x, y : <<x, y>> \in R => order(x) <= order(y)
  OBVIOUS
<1> HIDE DEF R, I
<1>14. \A j, k \in 1..(Len(s) + 1) : j < k => <<r[j], r[k]>> \in R
  BY <1>5, <1>7, <1>11, <1>12, InsertBeforeInOrder
<1>15. \A j, k \in 1..(Len(s) + 1) : j < k => order(r[j]) <= order(r[k])
  BY <1>13, <1>14
<1>16. r \in Seq(U) /\ Len(r) = Len(s) + 1
  BY <1>5, <1>7, InsertBeforeList
<1>17. \A k \in 1..(Len(s) + 1) : IsTlv(r[k])
  <2>1. PICK p : p = IF i = 0 THEN Len(s) + 1 ELSE i
    OBVIOUS
  <2>2. \A k \in 1..(Len(s) + 1) : r[k] = IF k < p THEN s[k] ELSE IF k = p THEN tlv ELSE s[k - 1]
    BY <1>5, <1>7, <2>1, InsertBeforePlaces
  <2>3. \A k \in 1..(Len(s) + 1) : /\ k < p => k \in 1..Len(s)
                                   /\ ~ (k < p) /\ k # p => k - 1 \in 1..Len(s)
    BY <1>1, <1>7, <2>1
  <2> QED BY <1>1, <2>2, <2>3
<1>18. DOMAIN r = 1..Len(r) /\ Len(r) \in Nat
  BY <1>16, LenProperties
<1>19. TlvList(r)
  BY <1>15, <1>16, <1>17, <1>18 DEF TlvList
<1> QED BY <1>6, <1>16, <1>19

\* A TLV block that is no error is a list, and it ends inside of the data.
LEMMA TlvsFromList ==
  ASSUME NEW b \in Seq(Octet), NEW e \in 1..(Len(b) + 1), NEW p \in 1..e, NEW end,
         end - p \in Nat, NEW m, NEW room,
         TlvsFrom(b, p, end, e, m, room) # Bad
  PROVE  /\ TlvsFrom(b, p, end, e, m, room).next \in 1..e
         /\ TlvList(TlvsFrom(b, p, end, e, m, room).tlvs)
<1> DEFINE n == end - p
           U == {parse_tlv(b, q, e, m) : q \in 1..e}
           T == {Bad} \cup [next : 1..e, tlvs : {q \in Seq(U) : TlvList(q)}]
           s0 == [next |-> p, tlvs |-> <<>>]
           F == [k \in 1..n |-> [x \in T |-> NextTlv(x, b, end, e, m, room)]]
           Is(f) == f = [k \in 0..n |-> IF k = 0 THEN s0 ELSE NextTlv(f[k - 1], b, end, e, m, room)]
           turn == CHOOSE f : Is(f)
<1>1. TlvsFrom(b, p, end, e, m, room) = turn[n]
  BY DEF TlvsFrom
<1>2. n \in Nat /\ 0 \in 0..n /\ n \in 0..n /\ \A k \in 1..n : k - 1 \in 0..n /\ k \in 0..n /\ k # 0
  OBVIOUS
<1>3. ASSUME NEW x \in T PROVE NextTlv(x, b, end, e, m, room) \in T
  <2>1. CASE x = Bad
    BY <2>1 DEF NextTlv
  <2>2. CASE x # Bad
    <3>1. x.next \in 1..e /\ x.tlvs \in Seq(U) /\ TlvList(x.tlvs)
      <4> HIDE DEF U
      <4> QED BY <2>2
    <3>2. PICK tlv : tlv = parse_tlv(b, x.next, e, m)
      OBVIOUS
    <3>3. tlv \in U
      BY <3>1, <3>2
    <3>4. tlv # Bad => tlv.next \in 1..e /\ IsTlv(tlv)
      BY <3>1, <3>2, TlvEnds
    <3> HIDE DEF U
    <3>5. tlv # Bad => InsertTlv(x.tlvs, tlv) \in Seq(U) /\ TlvList(InsertTlv(x.tlvs, tlv))
      BY <3>1, <3>3, <3>4, InsertTlvList
    <3>6. \/ NextTlv(x, b, end, e, m, room) \in {x, Bad}
          \/ /\ tlv # Bad
             /\ NextTlv(x, b, end, e, m, room) = [next |-> tlv.next, tlvs |-> InsertTlv(x.tlvs, tlv)]
      BY <3>2 DEF NextTlv, TakeTlv
    <3> QED BY <3>4, <3>5, <3>6
  <2> QED BY <2>1, <2>2
<1>4. s0 \in T
  <2>1. TlvList(<<>>)
    BY DEF TlvList
  <2> HIDE DEF U
  <2> QED BY <2>1
<1> HIDE DEF n, T, s0
<1>5. PICK g : g \in Walks(T, s0, n, F)
  <2>1. F \in [1..n -> [T -> T]]
    BY <1>3
  <2> HIDE DEF F
  <2> QED BY <1>2, <1>4, <2>1, WalkExists
<1>6. g \in [0..n -> T] /\ g[0] = s0 /\ \A k \in 1..n : g[k] = F[k][g[k - 1]]
  BY <1>5 DEF Walks
<1>7. \A k \in 1..n : g[k] = NextTlv(g[k - 1], b, end, e, m, room)
  BY <1>2, <1>6
<1>8. Is(g)
  <2>1. \A k \in 0..n : k = 0 \/ k \in 1..n
    BY <1>2
  <2> HIDE DEF F
  <2> QED BY <1>6, <1>7, <2>1
<1>9. Is(turn)
  BY <1>8 DEF turn
<1> HIDE DEF turn
<1>10. turn[0] = s0 /\ \A k \in 1..n : turn[k] = NextTlv(turn[k - 1], b, end, e, m, room)
  <2>1. \A k \in 0..n : turn[k] = IF k = 0 THEN s0 ELSE NextTlv(turn[k - 1], b, end, e, m, room)
    BY <1>9
  <2> QED BY <1>2, <2>1
<1>11. \A k \in 1..n : turn[k - 1] \in T => turn[k] \in T
  BY <1>3, <1>10
<1>12. turn[0] \in T
  BY <1>4, <1>10
<1>13. turn[n] \in T
  <2> HIDE DEF Is, F
  <2> QED BY <1>2, <1>11, <1>12, StaysIn
<1>14. turn[n].next \in 1..e /\ TlvList(turn[n].tlvs)
  <2> HIDE DEF U
  <2> QED BY <1>1, <1>13 DEF T
<1> QED BY <1>1, <1>14

\* The same for the TLV block with its length in front.
LEMMA TlvblockList ==
  ASSUME NEW b \in Seq(Octet), NEW e \in 1..(Len(b) + 1), NEW p \in 1..e, NEW m, NEW room,
         NEW t, t = parse_tlvblock(b, p, e, m, room), t # Bad
  PROVE  t.next \in 1..e /\ TlvList(t.tlvs)
<1>1. Len(b) \in Nat /\ e \in Nat /\ p \in Nat /\ p >= 1
  BY LenProperties
<1>2. PICK size \in Nat : size = get_u16(b, p, e)
  BY <1>1, ReadOctets
<1>3. ~ (p + 2 + size > e) /\ t = TlvsFrom(b, p + 2, p + 2 + size, e, m, room)
  BY <1>2 DEF parse_tlvblock
<1>4. p + 2 \in 1..e /\ (p + 2 + size) - (p + 2) \in Nat
  BY <1>1, <1>3
<1> QED BY <1>3, <1>4, TlvsFromList

\* An address block that is no error is a list of addresses, and it ends inside
\* of the data.
LEMMA AddrblockList ==
  ASSUME NEW b \in Seq(Octet), NEW e \in 1..(Len(b) + 1), NEW p \in 1..e, NEW addr_len \in Nat,
         NEW block, block = parse_addrblock(b, p, e, addr_len), block # Bad
  PROVE  block.next \in 1..e /\ Len(block.addrs) \in Nat
<1> DEFINE num_addr == get_u8(b, p, e)
           flags == FlagsIn(get_u8(b, p + 1, e), BlockBit)
           head == IF "HEAD" \in flags THEN get_u8(b, p + 2, e) ELSE 0
           q == p + 2 + (IF "HEAD" \in flags THEN 1 + head ELSE 0)
           tail == IF flags \cap {"FULLTAIL", "ZEROTAIL"} # {} THEN get_u8(b, q, e) ELSE 0
           r == q + (IF "FULLTAIL" \in flags THEN 1 + tail
                     ELSE IF "ZEROTAIL" \in flags THEN 1 ELSE 0)
           mid == (addr_len - head - tail) % 256
           m == r + mid * num_addr
           end == m + (IF "SINGLEPLEN" \in flags THEN 1
                       ELSE IF "MULTIPLEN" \in flags THEN num_addr ELSE 0)
           address(i) == Octets(b, p + 3, head) \o Octets(b, r + mid * (i - 1), mid) \o
                         (IF "ZEROTAIL" \in flags THEN [j \in 1 .. tail |-> 0]
                          ELSE Octets(b, q + 1, tail))
           addrs == [i \in 1 .. num_addr |-> address(i)]
<1>1. /\ ~ (end > e)
      /\ block.next = end
      /\ block.addrs = addrs
  BY DEF parse_addrblock
<1>2. Len(b) \in Nat /\ e \in Nat /\ p \in Nat /\ p >= 1
  BY LenProperties
<1>3. num_addr \in Nat
  BY <1>2, ReadOctets
<1> HIDE DEF num_addr, flags
<1>4. head \in Nat
  BY <1>2, ReadOctets
<1> HIDE DEF head
<1>5. q \in Nat /\ q >= 1
  BY <1>2, <1>4
<1> HIDE DEF q
<1>6. tail \in Nat
  BY <1>2, <1>5, ReadOctets
<1> HIDE DEF tail
<1>7. r \in Nat /\ r >= 1
  BY <1>5, <1>6
<1> HIDE DEF r
<1>8. mid \in Nat
  BY <1>4, <1>6
<1> HIDE DEF mid
<1>9. mid * num_addr \in Nat
  BY <1>3, <1>8
<1>10. m \in Nat /\ m >= 1
  BY <1>7, <1>9
<1> HIDE DEF m
<1>11. end \in Nat /\ end >= 1
  BY <1>3, <1>10
<1> HIDE DEF end
<1>12. PICK A : addrs \in Seq(A)
  <2>1. PICK A : A = {address(i) : i \in 1..num_addr}
    OBVIOUS
  <2>2. addrs \in [1..num_addr -> A]
    <3> HIDE DEF address
    <3> QED BY <2>1
  <2> HIDE DEF address, addrs
  <2> QED BY <1>3, <2>2, SeqDef
<1> HIDE DEF addrs
<1> QED BY <1>1, <1>2, <1>11, <1>12, LenProperties

\* What the reader needs to know of a message: its blocks and TLVs are lists.
Block(v) == Len(v.addrs) \in Nat /\ TlvList(v.tlvs)
WellFormed(m) ==
  /\ TlvList(m.tlvs) /\ Len(m.blocks) \in Nat
  /\ \A k \in 1..Len(m.blocks) : Block(m.blocks[k])

\* The address blocks of a message that is no error.
LEMMA BlocksFromList ==
  ASSUME NEW b \in Seq(Octet), NEW e \in 1..(Len(b) + 1), NEW p \in 1..e, NEW addr_len \in Nat,
         NEW room, NEW blocks, blocks = BlocksFrom(b, p, e, addr_len, room), blocks # Bad
  PROVE  Len(blocks) \in Nat /\ \A k \in 1..Len(blocks) : Block(blocks[k])
<1> DEFINE n == e - p
           Parsed(q) == ParseBlock(b, parse_addrblock(b, q, e, addr_len), e, room)
           Shown(q) == [addrs |-> Parsed(q).block.addrs, prefixes |-> Parsed(q).block.prefixes,
                        tlvs |-> Parsed(q).tlvblock.tlvs]
           U == {v \in {Shown(q) : q \in 1..e} : Block(v)}
           T == {Bad} \cup [next : 1..e, blocks : Seq(U)]
           s0 == [next |-> p, blocks |-> <<>>]
           F == [k \in 1..n |-> [x \in T |-> NextBlock(x, b, e, addr_len, room)]]
           Is(f) == f = [k \in 0..n |-> IF k = 0 THEN s0
                                        ELSE NextBlock(f[k - 1], b, e, addr_len, room)]
           turn == CHOOSE f : Is(f)
<1>1. blocks = IF turn[n] = Bad THEN Bad ELSE turn[n].blocks
  BY DEF BlocksFrom
<1>2. n \in Nat /\ 0 \in 0..n /\ n \in 0..n /\ \A k \in 1..n : k - 1 \in 0..n /\ k \in 0..n /\ k # 0
  BY LenProperties
<1>3. ASSUME NEW x \in T PROVE NextBlock(x, b, e, addr_len, room) \in T
  <2>1. CASE x = Bad
    BY <2>1 DEF NextBlock
  <2>2. CASE x # Bad /\ NextBlock(x, b, e, addr_len, room) \notin {x, Bad}
    <3>1. x.next \in 1..e /\ x.blocks \in Seq(U)
      <4> HIDE DEF U
      <4> QED BY <2>2
    <3>2. PICK a : a = parse_addrblock(b, x.next, e, addr_len)
      OBVIOUS
    <3>3. PICK v : v = ParseBlock(b, a, e, room)
      OBVIOUS
    <3>4. /\ v # Bad /\ v.tlvblock # Bad
          /\ NextBlock(x, b, e, addr_len, room)
               = [next |-> v.tlvblock.next,
                  blocks |-> Append(x.blocks, [addrs |-> v.block.addrs, prefixes |-> v.block.prefixes,
                                               tlvs |-> v.tlvblock.tlvs])]
      BY <2>2, <3>2, <3>3 DEF NextBlock, TakeBlock
    <3>5. a # Bad
      BY <3>3, <3>4 DEF ParseBlock
    <3>6. v.block = a /\ v.tlvblock = parse_tlvblock(b, a.next, e, Len(a.addrs), room)
      BY <3>3, <3>5 DEF ParseBlock
    <3>7. a.next \in 1..e /\ Len(a.addrs) \in Nat
      BY <3>1, <3>2, <3>5, AddrblockList
    <3>8. v.tlvblock.next \in 1..e /\ TlvList(v.tlvblock.tlvs)
      BY <3>4, <3>6, <3>7, TlvblockList
    <3>9. PICK w : w = [addrs |-> v.block.addrs, prefixes |-> v.block.prefixes,
                        tlvs |-> v.tlvblock.tlvs]
      OBVIOUS
    <3>10. w \in U
      <4>1. w = Shown(x.next)
        BY <3>2, <3>3, <3>9
      <4>2. w.addrs = a.addrs /\ w.tlvs = v.tlvblock.tlvs
        BY <3>6, <3>9
      <4>3. Block(w)
        BY <3>7, <3>8, <4>2 DEF Block
      <4> HIDE DEF Shown
      <4> QED BY <3>1, <4>1, <4>3
    <3>11. Append(x.blocks, w) \in Seq(U)
      <4> HIDE DEF U
      <4> QED BY <3>1, <3>10, AppendProperties
    <3> HIDE DEF U
    <3> QED BY <3>4, <3>8, <3>9, <3>11
  <2> QED BY <2>1, <2>2
<1>4. s0 \in T
  <2> HIDE DEF U
  <2> QED OBVIOUS
<1> HIDE DEF n, T, s0
<1>5. PICK g : g \in Walks(T, s0, n, F)
  <2>1. F \in [1..n -> [T -> T]]
    BY <1>3
  <2> HIDE DEF F
  <2> QED BY <1>2, <1>4, <2>1, WalkExists
<1>6. g \in [0..n -> T] /\ g[0] = s0 /\ \A k \in 1..n : g[k] = F[k][g[k - 1]]
  BY <1>5 DEF Walks
<1>7. \A k \in 1..n : g[k] = NextBlock(g[k - 1], b, e, addr_len, room)
  BY <1>2, <1>6
<1>8. Is(g)
  <2>1. \A k \in 0..n : k = 0 \/ k \in 1..n
    BY <1>2
  <2> HIDE DEF F
  <2> QED BY <1>6, <1>7, <2>1
<1>9. Is(turn)
  BY <1>8 DEF turn
<1> HIDE DEF turn
<1>10. turn[0] = s0 /\ \A k \in 1..n : turn[k] = NextBlock(turn[k - 1], b, e, addr_len, room)
  <2>1. \A k \in 0..n : turn[k] = IF k = 0 THEN s0 ELSE NextBlock(turn[k - 1], b, e, addr_len, room)
    BY <1>9
  <2> QED BY <1>2, <2>1
<1>11. \A k \in 1..n : turn[k - 1] \in T => turn[k] \in T
  BY <1>3, <1>10
<1>12. turn[0] \in T
  BY <1>4, <1>10
<1>13. turn[n] \in T
  <2> HIDE DEF Is, F
  <2> QED BY <1>2, <1>11, <1>12, StaysIn
<1>14. blocks \in Seq(U)
  <2> HIDE DEF U
  <2> QED BY <1>1, <1>13 DEF T
<1>15. Len(blocks) \in Nat /\ \A k \in 1..Len(blocks) : blocks[k] \in U
  <2> HIDE DEF U
  <2> QED BY <1>14, LenProperties, ElementOfSeq
<1> QED BY <1>15

\* A message that is no error is well formed, and it ends inside of the packet.
LEMMA MessageWellFormed ==
  ASSUME NEW b \in Seq(Octet), NEW e \in 1..(Len(b) + 1), NEW p \in 1..e, NEW room,
         NEW msg, msg = parse_message(b, p, e, room), msg # Bad
  PROVE  msg.next \in 1..e /\ WellFormed(msg)
<1>1. Len(b) \in Nat /\ e \in Nat /\ p \in Nat /\ p >= 1
  BY LenProperties
<1>2. PICK size \in Nat, first \in Nat :
        size = get_u16(b, p + 2, e) /\ first = get_u8(b, p + 1, e)
  <2>1. p + 1 \in Int /\ p + 1 >= 1 /\ p + 2 \in Int /\ p + 2 >= 1
    BY <1>1
  <2>2. get_u16(b, p + 2, e) \in Nat /\ get_u8(b, p + 1, e) \in Nat
    BY <2>1, ReadOctets
  <2> QED BY <2>2
<1>3. PICK addr_len \in Nat : addr_len = AddrLenIn(first)
  BY <1>2 DEF AddrLenIn
<1>4. PICK flags, header : flags = FlagsIn(first, MessageBit) /\ header = HeaderSize(flags, addr_len)
  OBVIOUS
<1>5. header \in Nat
  BY <1>3, <1>4 DEF HeaderSize
<1>6. PICK body \in Nat, end \in Nat : body = p + header /\ end = p + size
  <2>1. p + header \in Nat /\ p + size \in Nat
    BY <1>1, <1>2, <1>5
  <2> QED BY <2>1
<1>7. PICK t, x : t = parse_tlvblock(b, body, end, 0, room) /\ x = ParseBody(b, t, end, addr_len, room)
  OBVIOUS
<1>8. ~ (body > e) /\ ~ (end > e) /\ msg = MessageWith(b, p, e, x)
  BY <1>2, <1>3, <1>4, <1>6, <1>7 DEF parse_message
<1>9. end \in 1..e /\ end \in 1..(Len(b) + 1) /\ body >= 1 /\ end >= 1
  <2>1. end >= 1 /\ body >= 1
    BY <1>1, <1>2, <1>5, <1>6
  <2> QED BY <1>1, <1>8, <2>1
<1>10. x # Bad /\ x.blocks # Bad
  BY <1>8 DEF MessageWith
<1>11. t # Bad
  BY <1>7, <1>10 DEF ParseBody
<1>12. x.tlvs = t.tlvs /\ x.blocks = BlocksFrom(b, t.next, end, addr_len, room)
  BY <1>7, <1>11 DEF ParseBody
<1>13. body \in 1..end
  <2>1. ~ (body + 2 > end)
    BY <1>7, <1>11 DEF parse_tlvblock
  <2> QED BY <1>6, <1>9, <2>1
<1>14. t.next \in 1..end /\ TlvList(t.tlvs)
  BY <1>7, <1>9, <1>11, <1>13, TlvblockList
<1>15. Len(x.blocks) \in Nat /\ \A k \in 1..Len(x.blocks) : Block(x.blocks[k])
  BY <1>9, <1>10, <1>12, <1>14, BlocksFromList
<1>16. msg.next = end /\ msg.tlvs = x.tlvs /\ msg.blocks = x.blocks
  BY <1>2, <1>6, <1>8, <1>10 DEF MessageWith
<1> QED BY <1>9, <1>12, <1>14, <1>15, <1>16 DEF WellFormed

\* The messages of a packet are a list, each of them well formed or an error.
LEMMA MessagesList ==
  ASSUME NEW b \in Seq(Octet), NEW p \in 1..(Len(b) + 1), NEW room,
         NEW msgs, msgs = MessagesFrom(b, p, room)
  PROVE  Len(msgs) \in Nat /\ \A k \in 1..Len(msgs) : msgs[k] = Bad \/ WellFormed(msgs[k])
<1> DEFINE n == Len(b)
           e == Len(b) + 1
           U == {v \in {parse_message(b, q, e, room) : q \in 1..e} : v = Bad \/ WellFormed(v)}
           T == [next : 1..e, msgs : Seq(U)]
           s0 == [next |-> p, msgs |-> <<>>]
           F == [k \in 1..n |-> [x \in T |-> NextMessage(x, b, room)]]
           Is(f) == f = [k \in 0..n |-> IF k = 0 THEN s0 ELSE NextMessage(f[k - 1], b, room)]
           turn == CHOOSE f : Is(f)
<1>1. msgs = turn[n].msgs
  BY DEF MessagesFrom
<1>2. n \in Nat /\ 0 \in 0..n /\ n \in 0..n /\ \A k \in 1..n : k - 1 \in 0..n /\ k \in 0..n /\ k # 0
  BY LenProperties
<1>3. ASSUME NEW x \in T PROVE NextMessage(x, b, room) \in T
  <2>1. x.next \in 1..e /\ x.msgs \in Seq(U)
    <3> HIDE DEF U
    <3> QED OBVIOUS
  <2>2. PICK m : m = parse_message(b, x.next, e, room)
    OBVIOUS
  <2>3. m # Bad => m.next \in 1..e /\ WellFormed(m)
    <3>1. e \in 1..(Len(b) + 1)
      BY <1>2
    <3> HIDE DEF e
    <3> QED BY <2>1, <2>2, <3>1, MessageWellFormed
  <2>4. m \in U
    BY <2>1, <2>2, <2>3
  <2>5. Append(x.msgs, m) \in Seq(U)
    <3> HIDE DEF U
    <3> QED BY <2>1, <2>4, AppendProperties
  <2>6. \/ NextMessage(x, b, room) = x
        \/ NextMessage(x, b, room) = [next |-> IF m = Bad THEN e ELSE m.next, msgs |-> Append(x.msgs, m)]
    BY <2>2 DEF NextMessage, TakeMessage
  <2>7. PICK q \in 1..e : q = IF m = Bad THEN e ELSE m.next
    <3>1. e \in 1..e
      BY <1>2
    <3> HIDE DEF e
    <3> QED BY <2>3, <3>1
  <2>8. [next |-> q, msgs |-> Append(x.msgs, m)] \in T
    <3> HIDE DEF U, e
    <3> QED BY <2>5
  <2>9. NextMessage(x, b, room) = x \/ NextMessage(x, b, room) = [next |-> q, msgs |-> Append(x.msgs, m)]
    BY <2>6, <2>7
  <2> HIDE DEF T
  <2> QED BY <2>8, <2>9
<1>4. s0 \in T
  <2> HIDE DEF U
  <2> QED OBVIOUS
<1> HIDE DEF n, T, s0
<1>5. PICK g : g \in Walks(T, s0, n, F)
  <2>1. F \in [1..n -> [T -> T]]
    BY <1>3
  <2> HIDE DEF F
  <2> QED BY <1>2, <1>4, <2>1, WalkExists
<1>6. g \in [0..n -> T] /\ g[0] = s0 /\ \A k \in 1..n : g[k] = F[k][g[k - 1]]
  BY <1>5 DEF Walks
<1>7. \A k \in 1..n : g[k] = NextMessage(g[k - 1], b, room)
  BY <1>2, <1>6
<1>8. Is(g)
  <2>1. \A k \in 0..n : k = 0 \/ k \in 1..n
    BY <1>2
  <2> HIDE DEF F
  <2> QED BY <1>6, <1>7, <2>1
<1>9. Is(turn)
  BY <1>8 DEF turn
<1> HIDE DEF turn
<1>10. turn[0] = s0 /\ \A k \in 1..n : turn[k] = NextMessage(turn[k - 1], b, room)
  <2>1. \A k \in 0..n : turn[k] = IF k = 0 THEN s0 ELSE NextMessage(turn[k - 1], b, room)
    BY <1>9
  <2> QED BY <1>2, <2>1
<1>11. \A k \in 1..n : turn[k - 1] \in T => turn[k] \in T
  BY <1>3, <1>10
<1>12. turn[0] \in T
  BY <1>4, <1>10
<1>13. turn[n] \in T
  <2> HIDE DEF Is, F
  <2> QED BY <1>2, <1>11, <1>12, StaysIn
<1>14. msgs \in Seq(U)
  <2> HIDE DEF U
  <2> QED BY <1>1, <1>13 DEF T
<1>15. Len(msgs) \in Nat /\ \A k \in 1..Len(msgs) : msgs[k] \in U
  <2> HIDE DEF U
  <2> QED BY <1>14, LenProperties, ElementOfSeq
<1> QED BY <1>15

\* The header of a packet that is no error.
LEMMA PacketHeader ==
  ASSUME NEW b \in Seq(Octet), NEW room, NEW header, header = parse_packet(b, room), header # Bad
  PROVE  header.next \in 1..(Len(b) + 1) /\ TlvList(header.tlvs)
<1> DEFINE e == Len(b) + 1
<1>1. Len(b) \in Nat /\ e \in 1..(Len(b) + 1)
  BY LenProperties
<1>2. PICK first : first = get_u8(b, 1, e)
  OBVIOUS
<1>3. PICK flags : flags = FlagsIn(first, PacketBit)
  OBVIOUS
<1>4. PICK p \in Nat : p = 2 + IF "SEQNO" \in flags THEN 2 ELSE 0
  OBVIOUS
<1>5. p >= 1
  BY <1>4
<1>6. PICK t : t = IF "TLV" \in flags THEN parse_tlvblock(b, p, e, 0, room)
                   ELSE [next |-> p, tlvs |-> <<>>]
  OBVIOUS
<1>7. ~ (p > e) /\ header = PacketWith(flags, get_u16(b, 2, e), t)
  BY <1>2, <1>3, <1>4, <1>6 DEF parse_packet
<1>8. t # Bad /\ header.next = t.next /\ header.tlvs = t.tlvs
  BY <1>7 DEF PacketWith
<1>9. p \in 1..e
  BY <1>1, <1>5, <1>7
<1>10. CASE "TLV" \in flags
  <2>1. t = parse_tlvblock(b, p, e, 0, room)
    BY <1>6, <1>10
  <2>2. t.next \in 1..e /\ TlvList(t.tlvs)
    <3> HIDE DEF e
    <3> QED BY <1>1, <1>8, <1>9, <2>1, TlvblockList
  <2> QED BY <1>8, <2>2
<1>11. CASE "TLV" \notin flags
  <2>1. t.next = p /\ t.tlvs = <<>>
    BY <1>6, <1>11
  <2>2. TlvList(<<>>)
    BY DEF TlvList
  <2> QED BY <1>8, <1>9, <2>1, <2>2
<1> QED BY <1>10, <1>11

-----------------------------------------------------------------------------
(* The lists of consumers, and the entries of one consumer. *)

\* Every place that is found on a list of consumers is on it.
LEMMA InsertConsumerOnce ==
  ASSUME NEW s \in Seq(Consumers), Once(s), NEW c \in Consumers, ~ Contains(s, c)
  PROVE  InsertConsumer(s, c) \in Seq(Consumers) /\ Once(InsertConsumer(s, c))
<1>1. PICK i : i = SelectInSeq(s, LAMBDA d : Behind(d, c))
  OBVIOUS
<1>2. i \in 0..Len(s)
  <2> DEFINE I == {k \in 1..Len(s) : Behind(s[k], c)}
  <2>1. i = IF I # {} THEN Min(I) ELSE 0
    BY <1>1 DEF SelectInSeq
  <2>2. I \subseteq 1..Len(s) /\ Len(s) \in Nat
    BY LenProperties
  <2> HIDE DEF I
  <2>3. I # {} => Min(I) \in 1..Len(s)
    BY <2>2, MinIsIn
  <2> QED BY <2>1, <2>2, <2>3
<1>3. InsertConsumer(s, c) = InsertBefore(s, i, c)
  BY <1>1 DEF InsertConsumer
<1> QED BY <1>2, <1>3, InsertBeforeList, InsertBeforeOnce

\* A consumer that is removed leaves the others on the list.
LEMMA RemoveConsumerOnce ==
  ASSUME NEW s \in Seq(Consumers), Once(s), NEW c
  PROVE  RemoveConsumer(s, c) \in Seq(Consumers) /\ Once(RemoveConsumer(s, c))
<1>1. PICK i : i = SelectInSeq(s, LAMBDA d : d = c)
  OBVIOUS
<1>2. i \in 0..Len(s)
  <2> DEFINE I == {k \in 1..Len(s) : s[k] = c}
  <2>1. i = IF I # {} THEN Min(I) ELSE 0
    BY <1>1 DEF SelectInSeq
  <2>2. I \subseteq 1..Len(s) /\ Len(s) \in Nat
    BY LenProperties
  <2> HIDE DEF I
  <2>3. I # {} => Min(I) \in 1..Len(s)
    BY <2>2, MinIsIn
  <2> QED BY <2>1, <2>2, <2>3
<1>3. RemoveConsumer(s, c) = IF i = 0 THEN s ELSE RemoveAt(s, i)
  BY <1>1 DEF RemoveConsumer
<1>4. CASE i # 0
  <2>1. i \in 1..Len(s)
    BY <1>2, <1>4, LenProperties
  <2> QED BY <1>3, <1>4, <2>1, RemoveAtOnce
<1> QED BY <1>3, <1>4

\* _add_consumer() leaves the entries a list.
LEMMA EntriesList ==
  ASSUME NEW c \in Consumers
  PROVE  EntriesOf(c) \in Seq(ConsumerEntry)
<1> DEFINE u == ConsumerOf[c].entries
           n == Len(u)
           T == Seq(ConsumerEntry)
           F == [k \in 1..n |-> [x \in T |-> InsertEntry(x, u[k])]]
           Is(f) == f = [k \in 0..n |-> IF k = 0 THEN <<>> ELSE InsertEntry(f[k - 1], u[k])]
           turn == CHOOSE f : Is(f)
<1>1. EntriesOf(c) = turn[n]
  BY DEF EntriesOf
<1>2. u \in Seq(ConsumerEntry)
  BY ReaderAssumption
<1> HIDE DEF u
<1>3. n \in Nat /\ 0 \in 0..n /\ n \in 0..n /\ \A k \in 1..n : k - 1 \in 0..n /\ k \in 0..n /\ k # 0
  BY <1>2, LenProperties
<1>4. \A k \in 1..n : u[k] \in ConsumerEntry
  BY <1>2, ElementOfSeq
<1>5. ASSUME NEW s \in T, NEW x \in ConsumerEntry PROVE InsertEntry(s, x) \in T
  <2>1. PICK i : i = SelectInSeq(s, LAMBDA y : entry_intorder(y) > entry_intorder(x))
    OBVIOUS
  <2>2. i \in 0..Len(s)
    <3> DEFINE I == {k \in 1..Len(s) : entry_intorder(s[k]) > entry_intorder(x)}
    <3>1. i = IF I # {} THEN Min(I) ELSE 0
      BY <2>1 DEF SelectInSeq
    <3>2. I \subseteq 1..Len(s) /\ Len(s) \in Nat
      BY LenProperties
    <3> HIDE DEF I
    <3>3. I # {} => Min(I) \in 1..Len(s)
      BY <3>2, MinIsIn
    <3> QED BY <3>1, <3>2, <3>3
  <2>3. PICK y : y = [x EXCEPT !.max = IF x.min > x.max THEN x.min ELSE x.max]
    OBVIOUS
  <2>4. y \in ConsumerEntry
    BY <2>3 DEF ConsumerEntry
  <2>5. InsertEntry(s, x) = InsertBefore(s, i, y)
    BY <2>1, <2>3 DEF InsertEntry
  <2> QED BY <2>2, <2>4, <2>5, InsertBeforeList
<1>6. <<>> \in T
  OBVIOUS
<1> HIDE DEF n, T
<1>7. PICK g : g \in Walks(T, <<>>, n, F)
  <2>1. F \in [1..n -> [T -> T]]
    BY <1>4, <1>5
  <2> HIDE DEF F
  <2> QED BY <1>3, <1>6, <2>1, WalkExists
<1>8. g \in [0..n -> T] /\ g[0] = <<>> /\ \A k \in 1..n : g[k] = F[k][g[k - 1]]
  BY <1>7 DEF Walks
<1>9. \A k \in 1..n : g[k] = InsertEntry(g[k - 1], u[k])
  BY <1>3, <1>8
<1>10. Is(g)
  <2>1. \A k \in 0..n : k = 0 \/ k \in 1..n
    BY <1>3
  <2> HIDE DEF F
  <2> QED BY <1>8, <1>9, <2>1
<1>11. Is(turn)
  BY <1>10 DEF turn
<1> HIDE DEF turn
<1>12. turn[0] = <<>> /\ \A k \in 1..n : turn[k] = InsertEntry(turn[k - 1], u[k])
  <2>1. \A k \in 0..n : turn[k] = IF k = 0 THEN <<>> ELSE InsertEntry(turn[k - 1], u[k])
    BY <1>11
  <2> QED BY <1>3, <2>1
<1>13. \A k \in 1..n : turn[k - 1] \in T => turn[k] \in T
  BY <1>4, <1>5, <1>12
<1>14. turn[0] \in T
  BY <1>6, <1>12
<1>15. turn[n] \in T
  <2> HIDE DEF Is, F
  <2> QED BY <1>3, <1>13, <1>14, StaysIn
<1> QED BY <1>1, <1>15 DEF T

-----------------------------------------------------------------------------
(* The callbacks of a packet, one after the other. *)

Addresses == Nat \X Nat
CallbackNames == {"start", "end", "tlv", "block", "failed", "forward"}
Details == Nat \cup BOOLEAN \cup Seq(Seq(Nat))
Callbacks == [consumer : Consumers \cup {"reader"}, cb : CallbackNames, message : Nat,
              addr : Addresses, detail : Details, answer : Int]

\* What a callback belongs to: a consumer and a packet, a message or an address.
Key(r) == <<r.consumer, r.message, r.addr>>

\* What a callback has dropped is not shown by a later one of another consumer.
Hides(a, b) ==
  a.message = b.message /\ a.consumer # b.consumer =>
    /\ a.addr # NoAddress /\ a.answer = DROP_ADDRESS => b.addr # a.addr
    /\ a.cb = "tlv" /\ a.answer = DROP_TLV /\ a.addr = b.addr =>
         /\ b.cb = "tlv" => b.detail # a.detail
         /\ b.cb = "block" => \A f \in Range(b.detail) : a.detail \notin Range(f)
    /\ a.message # 0 /\ a.answer \in {DROP_MESSAGE, DROP_MSG_BUT_FORWARD} =>
         b.cb \in {"end", "forward"}

Silent(l) == \A i, k \in 1..Len(l) : i < k => Hides(l[i], l[k])

\* The one end that was called for a key is the last callback for it.
Ended(l, key) ==
  \E j \in 1..Len(l) :
    /\ l[j].cb = "end" /\ Key(l[j]) = key
    /\ \A i \in 1..Len(l) : Key(l[i]) = key => i <= j /\ (l[i].cb = "end" => i = j)

\* What has been started has ended, but for the keys that are open.
Balanced(l, open) ==
  \A r \in Range(l) :
    /\ r.cb = "start" => r.consumer \in Consumers
    /\ r.cb = "start" /\ "end" \in ConsumerOf[r.consumer].cb => Key(r) \in open \/ Ended(l, Key(r))
    /\ Key(r) \in open => r.cb # "end"

\* One more callback.
LEMMA AppendCallback ==
  ASSUME NEW l \in Seq(Callbacks), NEW r \in Callbacks
  PROVE  /\ Append(l, r) \in Seq(Callbacks)
         /\ Len(l) \in Nat /\ Len(Append(l, r)) = Len(l) + 1
         /\ \A i \in 1..Len(l) : Append(l, r)[i] = l[i]
         /\ Append(l, r)[Len(l) + 1] = r
         /\ Range(Append(l, r)) = Range(l) \cup {r}
         /\ Range(l) = {l[i] : i \in 1..Len(l)} /\ Range(l) \subseteq Callbacks
<1>1. Len(l) \in Nat /\ DOMAIN l = 1..Len(l)
  BY LenProperties
<1> DEFINE a == Append(l, r)
<1>2. /\ a \in Seq(Callbacks) /\ Len(a) = Len(l) + 1
      /\ \A i \in 1..Len(l) : a[i] = l[i]
      /\ a[Len(l) + 1] = r
  BY AppendProperties
<1> HIDE DEF a
<1>3. DOMAIN a = 1..(Len(l) + 1)
  BY <1>2, LenProperties
<1>4. \A i : i \in 1..(Len(l) + 1) <=> i \in 1..Len(l) \/ i = Len(l) + 1
  BY <1>1
<1>5. Range(a) = {l[i] : i \in 1..Len(l)} \cup {r}
  BY <1>2, <1>3, <1>4 DEF Range
<1>6. Range(l) = {l[i] : i \in 1..Len(l)}
  BY <1>1 DEF Range
<1>7. Range(l) \subseteq Callbacks
  BY <1>6, ElementOfSeq
<1> QED BY <1>1, <1>2, <1>5, <1>6, <1>7 DEF a

\* A callback that shows nothing that was dropped.
LEMMA SilentAppend ==
  ASSUME NEW l \in Seq(Callbacks), NEW r \in Callbacks, Silent(l),
         \A q \in Range(l) : Hides(q, r)
  PROVE  Silent(Append(l, r))
<1> DEFINE a == Append(l, r)
<1>1. /\ Len(l) \in Nat /\ Len(a) = Len(l) + 1
      /\ \A i \in 1..Len(l) : a[i] = l[i]
      /\ a[Len(l) + 1] = r
      /\ Range(l) = {l[i] : i \in 1..Len(l)}
  BY AppendCallback
<1> HIDE DEF a
<1> SUFFICES ASSUME NEW i \in 1..Len(a), NEW k \in 1..Len(a), i < k PROVE Hides(a[i], a[k])
  BY DEF Silent, a
<1>2. i \in 1..Len(l) /\ (k \in 1..Len(l) \/ k = Len(l) + 1)
  BY <1>1
<1>3. CASE k \in 1..Len(l)
  BY <1>1, <1>2, <1>3 DEF Silent
<1>4. CASE k = Len(l) + 1
  BY <1>1, <1>2, <1>4
<1> QED BY <1>2, <1>3, <1>4

\* What has ended stays so as long as its key is not used again.
LEMMA EndedStays ==
  ASSUME NEW l \in Seq(Callbacks), NEW r \in Callbacks, NEW key, Ended(l, key), Key(r) # key
  PROVE  Ended(Append(l, r), key)
<1> DEFINE a == Append(l, r)
<1>1. /\ Len(l) \in Nat /\ Len(a) = Len(l) + 1
      /\ \A i \in 1..Len(l) : a[i] = l[i]
      /\ a[Len(l) + 1] = r
  BY AppendCallback
<1> HIDE DEF a
<1>2. PICK j \in 1..Len(l) :
        /\ l[j].cb = "end" /\ Key(l[j]) = key
        /\ \A i \in 1..Len(l) : Key(l[i]) = key => i <= j /\ (l[i].cb = "end" => i = j)
  BY DEF Ended
<1>3. j \in 1..Len(a) /\ a[j].cb = "end" /\ Key(a[j]) = key
  BY <1>1, <1>2
<1>4. \A i \in 1..Len(a) : i \in 1..Len(l) \/ i = Len(l) + 1
  BY <1>1
<1>5. \A i \in 1..Len(a) : Key(a[i]) = key => i <= j /\ (a[i].cb = "end" => i = j)
  BY <1>1, <1>2, <1>4
<1> QED BY <1>3, <1>5 DEF Ended, a

\* A callback for an open key, other than its end.
LEMMA BalancedAppend ==
  ASSUME NEW l \in Seq(Callbacks), NEW r \in Callbacks, NEW open, Balanced(l, open),
         Key(r) \in open, r.consumer \in Consumers, r.cb # "end"
  PROVE  Balanced(Append(l, r), open)
<1>1. Range(Append(l, r)) = Range(l) \cup {r}
  BY AppendCallback
<1>2. ASSUME NEW q \in Range(l), q.cb = "start", "end" \in ConsumerOf[q.consumer].cb, Key(q) \notin open
      PROVE  Ended(Append(l, r), Key(q))
  BY <1>2, EndedStays DEF Balanced
<1> QED BY <1>1, <1>2 DEF Balanced

\* The end of an open key.
LEMMA BalancedEnd ==
  ASSUME NEW l \in Seq(Callbacks), NEW r \in Callbacks, NEW open, Balanced(l, open),
         Key(r) \in open, r.cb = "end"
  PROVE  Balanced(Append(l, r), open \ {Key(r)})
<1> DEFINE a == Append(l, r)
<1>1. /\ Len(l) \in Nat /\ Len(a) = Len(l) + 1
      /\ \A i \in 1..Len(l) : a[i] = l[i]
      /\ a[Len(l) + 1] = r
      /\ Range(a) = Range(l) \cup {r}
      /\ Range(l) = {l[i] : i \in 1..Len(l)}
  BY AppendCallback
<1> HIDE DEF a
<1>2. Ended(a, Key(r))
  <2>1. \A i \in 1..Len(l) : Key(l[i]) = Key(r) => l[i].cb # "end"
    BY <1>1 DEF Balanced
  <2>2. Len(a) \in 1..Len(a) /\ a[Len(a)].cb = "end" /\ Key(a[Len(a)]) = Key(r)
    BY <1>1
  <2>3. ASSUME NEW i \in 1..Len(a), Key(a[i]) = Key(r)
        PROVE  i <= Len(a) /\ (a[i].cb = "end" => i = Len(a))
    <3>1. i \in 1..Len(l) \/ i = Len(a)
      BY <1>1
    <3>2. i \in 1..Len(l) => a[i].cb # "end"
      BY <1>1, <2>1, <2>3
    <3>3. i <= Len(a)
      BY <1>1
    <3> QED BY <3>1, <3>2, <3>3
  <2> QED BY <2>2, <2>3 DEF Ended
<1>3. ASSUME NEW q \in Range(a), q.cb = "start", "end" \in ConsumerOf[q.consumer].cb,
             Key(q) \notin open \ {Key(r)}
      PROVE  Ended(a, Key(q))
  <2>1. CASE Key(q) = Key(r)
    BY <1>2, <2>1
  <2>2. CASE Key(q) # Key(r)
    <3>1. q \in Range(l) /\ Key(q) \notin open
      BY <1>1, <1>3, <2>2
    <3>2. Ended(l, Key(q))
      BY <1>3, <3>1 DEF Balanced
    <3> QED BY <2>2, <3>2, EndedStays DEF a
  <2> QED BY <2>1, <2>2
<1>4. \A q \in Range(a) : q.cb = "start" => q.consumer \in Consumers
  BY <1>1 DEF Balanced
<1>5. \A q \in Range(a) : Key(q) \in open \ {Key(r)} => q.cb # "end"
  BY <1>1 DEF Balanced
<1>6. Balanced(a, open \ {Key(r)})
  BY <1>3, <1>4, <1>5 DEF Balanced
<1> QED BY <1>6 DEF a

\* A consumer without an end needs none.
LEMMA BalancedNoEnd ==
  ASSUME NEW l \in Seq(Callbacks), NEW c, NEW m, NEW a, NEW open, Balanced(l, open),
         "end" \notin ConsumerOf[c].cb
  PROVE  Balanced(l, open \ {<<c, m, a>>})
<1>1. ASSUME NEW q \in Range(l), q.cb = "start", "end" \in ConsumerOf[q.consumer].cb
      PROVE  Key(q) # <<c, m, a>>
  BY <1>1 DEF Key
<1> QED BY <1>1 DEF Balanced

\* A key that was not used can be opened.
LEMMA BalancedFresh ==
  ASSUME NEW l \in Seq(Callbacks), NEW key, NEW open, Balanced(l, open),
         \A q \in Range(l) : Key(q) # key
  PROVE  Balanced(l, open \cup {key})
BY DEF Balanced

\* A message that is forwarded.
LEMMA BalancedForward ==
  ASSUME NEW l \in Seq(Callbacks), NEW r \in Callbacks, NEW open, Balanced(l, open),
         Key(r) \notin open, r.consumer = "reader", r.cb = "forward"
  PROVE  Balanced(Append(l, r), open)
<1>1. Range(Append(l, r)) = Range(l) \cup {r}
  BY AppendCallback
<1>2. ASSUME NEW q \in Range(l), q.cb = "start", "end" \in ConsumerOf[q.consumer].cb, Key(q) \notin open
      PROVE  Ended(Append(l, r), Key(q))
  <2>1. q.consumer \in Consumers /\ Ended(l, Key(q))
    BY <1>2 DEF Balanced
  <2>2. Key(r) # Key(q)
    BY <2>1, ReaderAssumption DEF Key
  <2> QED BY <2>1, <2>2, EndedStays
<1> QED BY <1>1, <1>2 DEF Balanced

-----------------------------------------------------------------------------
(* The state while a packet is handled. *)

States == [script : Scripts, log : Seq(Callbacks), result : Int, message : Nat,
           addr : Addresses, dropTlv : SUBSET (Nat \X Addresses \X Nat),
           dropAddr : SUBSET (Nat \X Addresses)]

\* What the answer of a callback has dropped is remembered.
Kept(s, r) ==
  /\ r.addr # NoAddress /\ r.answer = DROP_ADDRESS => <<r.message, r.addr>> \in s.dropAddr
  /\ r.cb = "tlv" /\ r.answer = DROP_TLV => <<r.message, r.addr, r.detail>> \in s.dropTlv
  /\ r.message # 0 => r.answer \notin {DROP_MESSAGE, DROP_MSG_BUT_FORWARD}

\* Of the callbacks of this message, or the result of the last ones tells it.
Told(s, r) ==
  /\ r.addr # NoAddress /\ r.answer = DROP_ADDRESS =>
       <<r.message, r.addr>> \in s.dropAddr \/ (r.addr = s.addr /\ s.result >= DROP_ADDRESS)
  /\ r.cb = "tlv" /\ r.answer = DROP_TLV => <<r.message, r.addr, r.detail>> \in s.dropTlv
  /\ r.message # 0 /\ r.answer \in {DROP_MESSAGE, DROP_MSG_BUT_FORWARD} =>
       s.result >= DROP_MSG_BUT_FORWARD

Now(s) == {r \in Range(s.log) : r.message = s.message}

\* The log is as it should be, and its callbacks belong to this message or to
\* an earlier one.
Sound(s, open) ==
  /\ Silent(s.log) /\ Balanced(s.log, open)
  /\ \A r \in Range(s.log) : r.message <= s.message

\* While consumer c is served: what the others have dropped is remembered, and
\* what its own callbacks drop will be.  'seen' holds the consumers and addresses
\* that the callbacks of this message may belong to.
Serving(c, m, a, open, seen) ==
  {s \in States :
     /\ s.message = m /\ s.addr = a
     /\ Sound(s, open)
     /\ \A r \in Now(s) : /\ r.consumer # c => Kept(s, r)
                          /\ Told(s, r)
                          /\ <<r.consumer, r.addr>> \in seen
     /\ a # NoAddress => <<m, a>> \notin s.dropAddr}

\* Between two consumers.
Ready(m, open, seen) ==
  {s \in States :
     /\ s.message = m
     /\ Sound(s, open)
     /\ \A r \in Now(s) : /\ s.result < DROP_ADDRESS => Kept(s, r)
                          /\ <<r.consumer, r.addr>> \in seen}

\* Updates keep the fields that they do not name.
LEMMA StateUpdates ==
  ASSUME NEW s \in States
  PROVE  /\ \A r \in Int :
              LET t == [s EXCEPT !.result = r]
              IN /\ t \in States /\ t.log = s.log /\ t.result = r /\ t.message = s.message
                 /\ t.addr = s.addr /\ t.dropTlv = s.dropTlv /\ t.dropAddr = s.dropAddr
                 /\ t.script = s.script
         /\ \A a \in Addresses :
              LET t == [s EXCEPT !.addr = a]
              IN /\ t \in States /\ t.log = s.log /\ t.result = s.result /\ t.message = s.message
                 /\ t.addr = a /\ t.dropTlv = s.dropTlv /\ t.dropAddr = s.dropAddr
         /\ \A a \in Addresses, r \in Int :
              LET t == [s EXCEPT !.addr = a, !.result = r]
              IN /\ t \in States /\ t.log = s.log /\ t.result = r /\ t.message = s.message
                 /\ t.addr = a /\ t.dropTlv = s.dropTlv /\ t.dropAddr = s.dropAddr
BY DEF States

\* A callback: none if the consumer does not have it.
LEMMA CallFacts ==
  ASSUME NEW s \in States, NEW c \in Consumers, NEW cb \in CallbackNames, NEW detail \in Details,
         NEW t, t = Call(s, c, cb, detail)
  PROVE  /\ cb \notin ConsumerOf[c].cb => t = s
         /\ cb \in ConsumerOf[c].cb =>
              \E r \in Callbacks :
                /\ r.consumer = c /\ r.cb = cb /\ r.message = s.message /\ r.addr = s.addr
                /\ r.detail = detail /\ r.answer = t.result
                /\ t.log = Append(s.log, r)
         /\ t \in States /\ t.message = s.message /\ t.addr = s.addr
         /\ t.dropTlv = s.dropTlv /\ t.dropAddr = s.dropAddr
<1>1. CASE cb \notin ConsumerOf[c].cb
  BY <1>1 DEF Call
<1>2. CASE cb \in ConsumerOf[c].cb
  <2> DEFINE n == Len(s.log) + 1
             answer == IF n \in DOMAIN s.script THEN s.script[n] ELSE OKAY
             r == [consumer |-> c, cb |-> cb, message |-> s.message,
                   addr |-> s.addr, detail |-> detail, answer |-> answer]
  <2>1. s.script \in Scripts /\ s.log \in Seq(Callbacks) /\ s.message \in Nat /\ s.addr \in Addresses
    BY DEF States
  <2>2. answer \in Int
    BY <2>1, ReaderAssumption DEF OKAY
  <2>3. t = [s EXCEPT !.result = answer, !.log = Append(@, r)]
    BY <1>2 DEF Call
  <2> HIDE DEF answer
  <2>4. r \in Callbacks
    BY <2>1, <2>2 DEF Callbacks
  <2>5. r.consumer = c /\ r.cb = cb /\ r.message = s.message /\ r.addr = s.addr
        /\ r.detail = detail /\ r.answer = answer
    OBVIOUS
  <2> HIDE DEF r
  <2>6. PICK l : l = Append(s.log, r)
    OBVIOUS
  <2>7. l \in Seq(Callbacks)
    BY <2>1, <2>4, <2>6, AppendCallback
  <2>8. t = [s EXCEPT !.result = answer, !.log = l]
    BY <2>3, <2>6
  <2>9. /\ t \in States /\ t.log = l /\ t.result = answer /\ t.message = s.message
        /\ t.addr = s.addr /\ t.dropTlv = s.dropTlv /\ t.dropAddr = s.dropAddr
    BY <2>2, <2>7, <2>8 DEF States
  <2> QED BY <1>2, <2>4, <2>5, <2>6, <2>9
<1> QED BY <1>1, <1>2

\* Nothing that others have dropped for this address is among what was found.
Undropped(s, c, a, found) ==
  \A f \in Range(found) : \A q \in Now(s) :
    q.consumer # c /\ q.addr = a /\ q.cb = "tlv" /\ q.answer = DROP_TLV => q.detail \notin Range(f)

\* The result of a callback tells what it has dropped.
LEMMA AnswerTold ==
  ASSUME NEW t \in States, NEW r, r.answer = t.result, r.addr = t.addr,
         r.cb = "tlv" => t.result # DROP_TLV
  PROVE  Told(t, r)
<1>1. PICK n \in Int : n = t.result
  BY DEF States
<1>2. n = 2 => n >= 2
  OBVIOUS
<1>3. n \in {4, 3} => n >= 3
  OBVIOUS
<1> QED BY <1>1, <1>2, <1>3 DEF Told, DROP_ADDRESS, DROP_MESSAGE, DROP_MSG_BUT_FORWARD

\* What the others have dropped stays hidden from the consumer that is served.
LEMMA OthersHidden ==
  ASSUME NEW c, NEW m, NEW a, NEW open, NEW seen, NEW s \in Serving(c, m, a, open, seen),
         NEW r \in Callbacks, r.consumer = c, r.message = m, r.addr = a,
         r.cb = "tlv" => <<m, a, r.detail>> \notin s.dropTlv,
         r.cb = "block" => Undropped(s, c, a, r.detail)
  PROVE  \A q \in Range(s.log) : Hides(q, r)
<1> SUFFICES ASSUME NEW q \in Range(s.log), q.message = m, q.consumer # c PROVE Hides(q, r)
  BY DEF Hides
<1>1. q \in Now(s) /\ Kept(s, q)
  BY DEF Serving, Now
<1>2. q.addr # NoAddress /\ q.answer = DROP_ADDRESS => r.addr # q.addr
  BY <1>1 DEF Serving, Kept
<1>3. q.cb = "tlv" /\ q.answer = DROP_TLV /\ q.addr = a => <<m, a, q.detail>> \in s.dropTlv
  BY <1>1 DEF Kept
<1>4. q.message # 0 => q.answer \notin {DROP_MESSAGE, DROP_MSG_BUT_FORWARD}
  BY <1>1 DEF Kept
<1>5. r.cb = "block" /\ q.cb = "tlv" /\ q.answer = DROP_TLV /\ q.addr = a =>
        \A f \in Range(r.detail) : q.detail \notin Range(f)
  BY <1>1 DEF Undropped
<1> QED BY <1>1, <1>2, <1>3, <1>4, <1>5 DEF Hides

\* Another callback of the consumer that is served.
LEMMA ServingGrows ==
  ASSUME NEW c \in Consumers, NEW m, NEW a, NEW open, NEW seen,
         NEW s \in Serving(c, m, a, open, seen), s.result = OKAY,
         <<c, m, a>> \in open, <<c, a>> \in seen,
         NEW r \in Callbacks, r.consumer = c, r.message = m, r.addr = a, r.cb # "end",
         \A q \in Range(s.log) : Hides(q, r),
         NEW y \in States, y.log = Append(s.log, r), y.message = m, y.addr = a,
         s.dropTlv \subseteq y.dropTlv, y.dropAddr = s.dropAddr, Told(y, r)
  PROVE  /\ y \in Serving(c, m, a, open, seen)
         /\ \A q \in Now(y) : q.consumer # c => q \in Now(s)
<1>1. /\ s \in States /\ s.message = m /\ s.addr = a /\ Silent(s.log) /\ Balanced(s.log, open)
      /\ \A q \in Range(s.log) : q.message <= m
  BY DEF Serving, Sound
<1>2. s.log \in Seq(Callbacks)
  BY <1>1 DEF States
<1>3. Range(y.log) = Range(s.log) \cup {r}
  BY <1>2, AppendCallback
<1>4. Silent(y.log)
  BY <1>1, <1>2, SilentAppend
<1>5. Balanced(y.log, open)
  <2>1. Key(r) = <<c, m, a>>
    BY DEF Key
  <2> QED BY <1>1, <1>2, <2>1, BalancedAppend
<1>6. \A q \in Range(y.log) : q.message <= m
  <2>1. r.message <= m
    BY <1>1 DEF States
  <2> QED BY <1>1, <1>3, <2>1
<1>7. Now(y) = Now(s) \cup {r}
  BY <1>1, <1>3 DEF Now
<1>8. ASSUME NEW q \in Now(s)
      PROVE  /\ q.consumer # c => Kept(y, q)
             /\ Told(y, q)
             /\ <<q.consumer, q.addr>> \in seen
  <2>1. /\ q.consumer # c => Kept(s, q)
        /\ Told(s, q) /\ <<q.consumer, q.addr>> \in seen
    BY DEF Serving
  <2>2. q.consumer # c => Kept(y, q)
    BY <2>1 DEF Kept
  <2>3. Told(y, q)
    BY <2>1 DEF Told, OKAY, DROP_ADDRESS, DROP_MSG_BUT_FORWARD
  <2> QED BY <2>1, <2>2, <2>3
<1>9. /\ r.consumer = c /\ Told(y, r) /\ <<r.consumer, r.addr>> \in seen
  OBVIOUS
<1>10. a # NoAddress => <<m, a>> \notin y.dropAddr
  BY DEF Serving
<1>11. Sound(y, open)
  BY <1>4, <1>5, <1>6 DEF Sound
<1> QED BY <1>7, <1>8, <1>9, <1>10, <1>11 DEF Serving

\* A callback that is neither for a TLV nor the end.
LEMMA ServingCall ==
  ASSUME NEW c \in Consumers, NEW m, NEW a, NEW open, NEW seen,
         NEW s \in Serving(c, m, a, open, seen), s.result = OKAY,
         <<c, m, a>> \in open, <<c, a>> \in seen,
         NEW cb \in CallbackNames, cb \notin {"tlv", "end"}, NEW detail \in Details,
         cb = "block" => Undropped(s, c, a, detail),
         NEW t, t = Call(s, c, cb, detail)
  PROVE  t \in Serving(c, m, a, open, seen) /\ t.dropTlv = s.dropTlv /\ t.dropAddr = s.dropAddr
<1>1. s \in States /\ s.message = m /\ s.addr = a
  BY DEF Serving
<1>2. /\ cb \notin ConsumerOf[c].cb => t = s
      /\ t \in States /\ t.message = m /\ t.addr = a /\ t.dropTlv = s.dropTlv /\ t.dropAddr = s.dropAddr
  BY <1>1, CallFacts
<1>3. CASE cb \in ConsumerOf[c].cb
  <2>1. PICK r \in Callbacks :
          /\ r.consumer = c /\ r.cb = cb /\ r.message = m /\ r.addr = a
          /\ r.detail = detail /\ r.answer = t.result
          /\ t.log = Append(s.log, r)
    BY <1>1, <1>3, CallFacts
  <2>2. \A q \in Range(s.log) : Hides(q, r)
    <3>1. r.cb # "tlv"
      BY <2>1
    <3>2. r.cb = "block" => Undropped(s, c, a, r.detail)
      BY <2>1
    <3> QED BY <2>1, <3>1, <3>2, OthersHidden
  <2>3. Told(t, r)
    BY <1>2, <2>1, AnswerTold
  <2> QED BY <1>2, <2>1, <2>2, <2>3, ServingGrows
<1> QED BY <1>2, <1>3

\* The callback for a TLV that nobody has dropped, which may drop it.
LEMMA ServingTlv ==
  ASSUME NEW c \in Consumers, NEW m, NEW a, NEW open, NEW seen,
         NEW s \in Serving(c, m, a, open, seen), s.result = OKAY,
         <<c, m, a>> \in open, <<c, a>> \in seen,
         NEW i \in Nat, <<m, a, i>> \notin s.dropTlv,
         NEW t, t = Call(s, c, "tlv", i), NEW y, y = Marked(t, i)
  PROVE  /\ y \in Serving(c, m, a, open, seen)
         /\ s.dropTlv \subseteq y.dropTlv
         /\ \A q \in Now(y) : q.consumer # c => q \in Now(s)
         /\ t.result # DROP_TLV => y = t
<1>1. s \in States /\ s.message = m /\ s.addr = a
  BY DEF Serving
<1>2. i \in Details /\ "tlv" \in CallbackNames
  <2>1. i \in Details
    BY DEF Details
  <2>2. "tlv" \in CallbackNames
    BY DEF CallbackNames
  <2> QED BY <2>1, <2>2
<1>3. /\ "tlv" \notin ConsumerOf[c].cb => t = s
      /\ t \in States /\ t.message = m /\ t.addr = a /\ t.dropTlv = s.dropTlv /\ t.dropAddr = s.dropAddr
  BY <1>1, <1>2, CallFacts
<1>4. t.result # DROP_TLV => y = t
  BY DEF Marked
<1>5. CASE "tlv" \notin ConsumerOf[c].cb
  BY <1>3, <1>4, <1>5 DEF OKAY, DROP_TLV
<1>6. CASE "tlv" \in ConsumerOf[c].cb
  <2>1. PICK r \in Callbacks :
          /\ r.consumer = c /\ r.cb = "tlv" /\ r.message = m /\ r.addr = a
          /\ r.detail = i /\ r.answer = t.result
          /\ t.log = Append(s.log, r)
    BY <1>1, <1>2, <1>6, CallFacts
  <2>2. \A q \in Range(s.log) : Hides(q, r)
    BY <2>1, OthersHidden
  <2>3. CASE t.result # DROP_TLV
    <3>1. y = t /\ Told(y, r)
      BY <1>3, <1>4, <2>1, <2>3, AnswerTold
    <3> QED BY <1>3, <1>4, <2>1, <2>2, <3>1, ServingGrows
  <2>4. CASE t.result = DROP_TLV
    <3>1. y = [t EXCEPT !.dropTlv = @ \cup {<<t.message, t.addr, i>>}, !.result = OKAY]
      BY <2>4 DEF Marked
    <3>2. /\ y \in States /\ y.log = t.log /\ y.message = m /\ y.addr = a
          /\ y.dropTlv = s.dropTlv \cup {<<m, a, i>>} /\ y.dropAddr = s.dropAddr
      <4>1. t.message \in Nat /\ t.addr \in Addresses
            /\ t.dropTlv \in SUBSET (Nat \X Addresses \X Nat)
        BY <1>3 DEF States
      <4>2. PICK D : D = t.dropTlv \cup {<<m, a, i>>}
        OBVIOUS
      <4>3. D \in SUBSET (Nat \X Addresses \X Nat)
        <5>1. <<m, a, i>> \in Nat \X Addresses \X Nat
          BY <1>3, <4>1
        <5> QED BY <4>1, <4>2, <5>1
      <4>4. y = [t EXCEPT !.dropTlv = D, !.result = OKAY]
        BY <1>3, <3>1, <4>2
      <4>5. OKAY \in Int
        BY DEF OKAY
      <4>6. y \in States /\ y.log = t.log /\ y.message = t.message /\ y.addr = t.addr
            /\ y.dropTlv = D /\ y.dropAddr = t.dropAddr
        BY <1>3, <4>3, <4>4, <4>5 DEF States
      <4> QED BY <1>3, <4>2, <4>6
    <3>3. Told(y, r)
      BY <2>1, <2>4, <3>2 DEF Told, DROP_TLV, DROP_ADDRESS, DROP_MESSAGE, DROP_MSG_BUT_FORWARD
    <3> QED BY <2>1, <2>2, <2>4, <3>2, <3>3, ServingGrows
  <2> QED BY <2>3, <2>4
<1> QED BY <1>5, <1>6

-----------------------------------------------------------------------------
(* The TLVs of one context for one consumer. *)

\* What others have dropped for this message is in D.
Among(s, c, D) ==
  \A q \in Now(s) : q.consumer # c /\ q.cb = "tlv" /\ q.answer = DROP_TLV =>
    <<q.message, q.addr, q.detail>> \in D

\* In the loop over the TLVs nothing is found that was dropped before, in D; 'w'
\* is the number of entries.
Merging(c, m, a, open, seen, D, w) ==
  {x \in [s : Serving(c, m, a, open, seen), i : Nat, j : Nat, failed : BOOLEAN,
          found : [1..w -> Seq(Nat)]] :
     /\ x.j >= 1
     /\ D \subseteq x.s.dropTlv /\ Among(x.s, c, D)
     /\ \A n \in 1..w : \A v \in Range(x.found[n]) : <<m, a, v>> \notin D}

\* One turn of the loop, after the callback.
LEMMA ComparedMerging ==
  ASSUME NEW c, NEW m, NEW a, NEW open, NEW seen, NEW D, NEW entries, NEW w, w = Len(entries), w \in Nat,
         NEW tlvs, NEW x \in Merging(c, m, a, open, seen, D, w),
         NEW called \in BOOLEAN, called => <<m, a, x.i>> \notin D,
         NEW t, NEW z \in Serving(c, m, a, open, seen), z = Marked(t, x.i),
         t.result # DROP_TLV => z = t, x.s.dropTlv \subseteq z.dropTlv, Among(z, c, D),
         NEW u, u = [x EXCEPT !.s = t]
  PROVE  Compared(u, entries, tlvs, called) \in Merging(c, m, a, open, seen, D, w)
<1>1. /\ x.i \in Nat /\ x.j \in Nat /\ x.j >= 1 /\ x.failed \in BOOLEAN
      /\ x.found \in [1..w -> Seq(Nat)]
      /\ \A n \in 1..w : \A v \in Range(x.found[n]) : <<m, a, v>> \notin D
  BY DEF Merging
<1>2. D \subseteq z.dropTlv
  BY DEF Merging
<1>3. /\ u.s = t /\ u.i = x.i /\ u.j = x.j /\ u.failed = x.failed /\ u.found = x.found
      /\ u = [s |-> t, i |-> x.i, j |-> x.j, failed |-> x.failed, found |-> x.found]
  BY DEF Merging
<1>4. ASSUME NEW i \in Nat, NEW j \in Nat, j >= 1, NEW f \in BOOLEAN, NEW g \in [1..w -> Seq(Nat)],
             \A n \in 1..w : \A v \in Range(g[n]) : <<m, a, v>> \notin D
      PROVE  [s |-> z, i |-> i, j |-> j, failed |-> f, found |-> g] \in Merging(c, m, a, open, seen, D, w)
  BY <1>2, <1>4 DEF Merging
<1>5. CASE t.result \notin {OKAY, DROP_TLV}
  <2>1. Compared(u, entries, tlvs, called) = u /\ t = z
    BY <1>3, <1>5 DEF Compared
  <2>2. PICK f \in BOOLEAN : f = x.failed
    BY <1>1
  <2>3. u = [s |-> z, i |-> x.i, j |-> x.j, failed |-> f, found |-> x.found]
    BY <1>3, <2>1, <2>2
  <2>4. [s |-> z, i |-> x.i, j |-> x.j, failed |-> f, found |-> x.found]
          \in Merging(c, m, a, open, seen, D, w)
    BY <1>1, <1>4
  <2> QED BY <2>1, <2>3, <2>4
<1>6. CASE t.result \in {OKAY, DROP_TLV}
  <2> DEFINE first == CompareTypes(tlvs, entries, u.i, u.j)
             i == IF u.i <= Len(tlvs) /\ first <= 0 THEN u.i + 1 ELSE u.i
             advance == CompareTypes(tlvs, entries, i, u.j) > 0
             match == called /\ u.j <= Len(entries) /\ u.s.result # DROP_TLV /\ first = 0
             missing == u.j <= Len(entries) /\ entries[u.j].mandatory /\ ~ match
             length == match /\ ~ tlvs[u.i].length \in entries[u.j].min .. entries[u.j].max
             j == IF advance THEN u.j + 1 ELSE u.j
             failed == u.failed \/ (first >= 0 /\ (missing \/ length)) \/ (advance /\ missing)
             found == IF match THEN [u.found EXCEPT ![u.j] = Append(@, u.i)] ELSE u.found
  <2>1. Compared(u, entries, tlvs, called)
          = [s |-> Marked(u.s, u.i), i |-> i, j |-> j, failed |-> failed, found |-> found]
    BY <1>3, <1>6 DEF Compared
  <2>2. i \in Nat
    <3> HIDE DEF first
    <3> QED BY <1>1, <1>3
  <2>3. j \in Nat /\ j >= 1
    <3> HIDE DEF advance
    <3> QED BY <1>1, <1>3
  <2>4. failed \in BOOLEAN
    <3>1. PICK p \in BOOLEAN, q \in BOOLEAN, r \in BOOLEAN :
            p = u.failed /\ q = (first >= 0 /\ (missing \/ length)) /\ r = (advance /\ missing)
      BY <1>1, <1>3
    <3>2. failed = (p \/ q \/ r)
      BY <3>1
    <3> HIDE DEF failed
    <3> QED BY <3>2
  <2>5. match \in BOOLEAN /\ (match => u.j <= w /\ called)
    BY DEF match
  <2> HIDE DEF match
  <2>6. found \in [1..w -> Seq(Nat)] /\ \A n \in 1..w : \A v \in Range(found[n]) : <<m, a, v>> \notin D
    <3>1. CASE ~ match
      BY <1>1, <1>3, <3>1
    <3>2. CASE match
      <4>1. x.j \in 1..w /\ <<m, a, x.i>> \notin D
        BY <1>1, <1>3, <2>5, <3>2
      <4>2. PICK h : h = Append(x.found[x.j], x.i)
        OBVIOUS
      <4>3. found = [x.found EXCEPT ![x.j] = h]
        BY <1>3, <3>2, <4>2
      <4> HIDE DEF found
      <4>4. h \in Seq(Nat) /\ \A v \in Range(h) : v \in Range(x.found[x.j]) \/ v = x.i
        <5>1. x.found[x.j] \in Seq(Nat)
          BY <1>1, <4>1
        <5>2. PICK l \in Seq(Nat) : l = x.found[x.j]
          BY <5>1
        <5>3. /\ h = Append(l, x.i) /\ h \in Seq(Nat) /\ Len(h) = Len(l) + 1 /\ Len(l) \in Nat
              /\ \A k \in 1..Len(l) : h[k] = l[k]
              /\ h[Len(l) + 1] = x.i
          BY <1>1, <4>2, <5>2, AppendProperties, LenProperties
        <5>4. DOMAIN h = 1..(Len(l) + 1) /\ DOMAIN l = 1..Len(l)
          BY <5>3, LenProperties
        <5>5. \A k \in 1..(Len(l) + 1) : k \in 1..Len(l) \/ k = Len(l) + 1
          BY <5>3
        <5> QED BY <5>2, <5>3, <5>4, <5>5 DEF Range
      <4>5. found \in [1..w -> Seq(Nat)]
        BY <1>1, <4>3, <4>4
      <4>6. \A n \in 1..w : found[n] = IF n = x.j THEN h ELSE x.found[n]
        BY <1>1, <4>3
      <4>7. ASSUME NEW n \in 1..w, NEW v \in Range(found[n]) PROVE <<m, a, v>> \notin D
        <5>1. CASE n = x.j
          BY <1>1, <4>1, <4>4, <4>6, <4>7, <5>1
        <5>2. CASE n # x.j
          BY <1>1, <4>6, <4>7, <5>2
        <5> QED BY <5>1, <5>2
      <4> QED BY <4>5, <4>7
    <3> QED BY <3>1, <3>2
  <2>7. Marked(u.s, u.i) = z
    BY <1>3
  <2> HIDE DEF i, j, failed, found
  <2> QED BY <1>4, <2>1, <2>2, <2>3, <2>4, <2>6, <2>7
<1> QED BY <1>5, <1>6

\* One turn of the loop.
LEMMA NextTurnMerging ==
  ASSUME NEW c \in Consumers, NEW m, NEW a, NEW open, NEW seen,
         <<c, m, a>> \in open, <<c, a>> \in seen,
         NEW D, NEW entries, NEW w, w = Len(entries), w \in Nat, NEW tlvs, NEW idx,
         NEW x \in Merging(c, m, a, open, seen, D, w)
  PROVE  NextTurn(x, c, entries, tlvs, idx) \in Merging(c, m, a, open, seen, D, w)
<1>1. /\ x.s \in Serving(c, m, a, open, seen) /\ x.i \in Nat
      /\ D \subseteq x.s.dropTlv /\ Among(x.s, c, D)
  BY DEF Merging
<1>2. x.s \in States /\ x.s.message = m /\ x.s.addr = a
  BY <1>1 DEF Serving
<1>3. CASE x.s.result # OKAY \/ (x.i > Len(tlvs) /\ x.j > Len(entries))
  BY <1>3 DEF NextTurn
<1>4. CASE ~ (x.s.result # OKAY \/ (x.i > Len(tlvs) /\ x.j > Len(entries))) /\ IndexMatch(x, tlvs, idx)
  <2>1. x.s.result = OKAY /\ <<m, a, x.i>> \notin x.s.dropTlv
    BY <1>2, <1>4 DEF IndexMatch
  <2>2. PICK t : t = Call(x.s, c, "tlv", x.i)
    OBVIOUS
  <2>3. PICK z : z = Marked(t, x.i)
    OBVIOUS
  <2>4. /\ z \in Serving(c, m, a, open, seen)
        /\ x.s.dropTlv \subseteq z.dropTlv
        /\ \A q \in Now(z) : q.consumer # c => q \in Now(x.s)
        /\ t.result # DROP_TLV => z = t
    BY <1>1, <2>1, <2>2, <2>3, ServingTlv
  <2>5. Among(z, c, D)
    BY <1>1, <2>4 DEF Among
  <2>6. <<m, a, x.i>> \notin D
    BY <1>1, <2>1
  <2>7. NextTurn(x, c, entries, tlvs, idx) = Compared([x EXCEPT !.s = t], entries, tlvs, TRUE)
    BY <1>4, <2>2 DEF NextTurn
  <2>8. PICK u : u = [x EXCEPT !.s = t]
    OBVIOUS
  <2>9. Compared(u, entries, tlvs, TRUE) \in Merging(c, m, a, open, seen, D, w)
    BY <2>3, <2>4, <2>5, <2>6, <2>8, ComparedMerging
  <2> QED BY <2>7, <2>8, <2>9
<1>5. CASE ~ (x.s.result # OKAY \/ (x.i > Len(tlvs) /\ x.j > Len(entries))) /\ ~ IndexMatch(x, tlvs, idx)
  <2>1. NextTurn(x, c, entries, tlvs, idx) = Compared(x, entries, tlvs, FALSE)
    BY <1>5 DEF NextTurn
  <2>2. x.s = Marked(x.s, x.i)
    BY <1>5 DEF Marked, OKAY, DROP_TLV
  <2>3. PICK u : u = [x EXCEPT !.s = x.s]
    OBVIOUS
  <2>4. u = x
    BY <2>3 DEF Merging
  <2>5. Compared(u, entries, tlvs, FALSE) \in Merging(c, m, a, open, seen, D, w)
    BY <1>1, <2>2, <2>3, ComparedMerging
  <2> QED BY <2>1, <2>4, <2>5
<1> QED BY <1>3, <1>4, <1>5

\* The whole loop.
LEMMA MergeServing ==
  ASSUME NEW c \in Consumers, NEW m, NEW a, NEW open, NEW seen,
         <<c, m, a>> \in open, <<c, a>> \in seen,
         NEW s \in Serving(c, m, a, open, seen), s.result = OKAY,
         NEW entries, NEW w, w = Len(entries), w \in Nat, NEW tlvs, Len(tlvs) \in Nat, NEW idx
  PROVE  Merge(s, c, entries, tlvs, idx) \in Merging(c, m, a, open, seen, s.dropTlv, w)
<1> DEFINE n == Len(tlvs) + Len(entries)
           T == Merging(c, m, a, open, seen, s.dropTlv, w)
           s0 == [s |-> [s EXCEPT !.result = OKAY], i |-> 1, j |-> 1, failed |-> FALSE,
                  found |-> [k \in 1 .. Len(entries) |-> <<>>]]
           F == [k \in 1..n |-> [x \in T |-> NextTurn(x, c, entries, tlvs, idx)]]
           Is(f) == f = [k \in 0..n |-> IF k = 0 THEN s0 ELSE NextTurn(f[k - 1], c, entries, tlvs, idx)]
           turn == CHOOSE f : Is(f)
<1>1. Merge(s, c, entries, tlvs, idx) = turn[n]
  BY DEF Merge
<1>2. n \in Nat /\ 0 \in 0..n /\ n \in 0..n /\ \A k \in 1..n : k - 1 \in 0..n /\ k \in 0..n /\ k # 0
  OBVIOUS
<1>3. ASSUME NEW x \in T PROVE NextTurn(x, c, entries, tlvs, idx) \in T
  BY NextTurnMerging
<1>4. s0 \in T
  <2>1. s \in States /\ s.message = m /\ s.addr = a
    BY DEF Serving
  <2>2. [s EXCEPT !.result = OKAY] = s
    BY <2>1 DEF States
  <2>3. PICK g : g = [k \in 1 .. w |-> <<>>]
    OBVIOUS
  <2>4. g \in [1..w -> Seq(Nat)] /\ \A k \in 1..w : Range(g[k]) = {}
    BY <2>3 DEF Range
  <2>5. Among(s, c, s.dropTlv)
    BY DEF Among, Serving, Kept
  <2>6. s0 = [s |-> s, i |-> 1, j |-> 1, failed |-> FALSE, found |-> g]
    BY <2>2, <2>3
  <2> HIDE DEF s0
  <2> QED BY <2>4, <2>5, <2>6 DEF Merging
<1> HIDE DEF n, T, s0
<1>5. PICK g : g \in Walks(T, s0, n, F)
  <2>1. F \in [1..n -> [T -> T]]
    BY <1>3
  <2> HIDE DEF F
  <2> QED BY <1>2, <1>4, <2>1, WalkExists
<1>6. g \in [0..n -> T] /\ g[0] = s0 /\ \A k \in 1..n : g[k] = F[k][g[k - 1]]
  BY <1>5 DEF Walks
<1>7. \A k \in 1..n : g[k] = NextTurn(g[k - 1], c, entries, tlvs, idx)
  BY <1>2, <1>6
<1>8. Is(g)
  <2>1. \A k \in 0..n : k = 0 \/ k \in 1..n
    BY <1>2
  <2> HIDE DEF F
  <2> QED BY <1>6, <1>7, <2>1
<1>9. Is(turn)
  BY <1>8 DEF turn
<1> HIDE DEF turn
<1>10. turn[0] = s0 /\ \A k \in 1..n : turn[k] = NextTurn(turn[k - 1], c, entries, tlvs, idx)
  <2>1. \A k \in 0..n : turn[k] = IF k = 0 THEN s0 ELSE NextTurn(turn[k - 1], c, entries, tlvs, idx)
    BY <1>9
  <2> QED BY <1>2, <2>1
<1>11. \A k \in 1..n : turn[k - 1] \in T => turn[k] \in T
  BY <1>3, <1>10
<1>12. turn[0] \in T
  BY <1>4, <1>10
<1>13. turn[n] \in T
  <2> HIDE DEF Is, F
  <2> QED BY <1>2, <1>11, <1>12, StaysIn
<1> QED BY <1>1, <1>13 DEF T

\* A result that has been taken care of.
LEMMA ServingReset ==
  ASSUME NEW c, NEW m, NEW a, NEW open, NEW seen, NEW t \in Serving(c, m, a, open, seen),
         t.result < DROP_ADDRESS,
         NEW y \in States, y.log = t.log, y.message = m, y.addr = a,
         t.dropTlv \subseteq y.dropTlv, y.dropAddr = t.dropAddr
  PROVE  y \in Serving(c, m, a, open, seen)
<1>1. Now(y) = Now(t) /\ Sound(y, open)
  BY DEF Now, Serving, Sound
<1>2. PICK n \in Int : n = t.result
  BY DEF Serving, States
<1>3. ~ (n >= 2) /\ ~ (n >= 3)
  BY <1>2 DEF DROP_ADDRESS
<1>4. ASSUME NEW q \in Now(t)
      PROVE  (q.consumer # c => Kept(y, q)) /\ Told(y, q) /\ <<q.consumer, q.addr>> \in seen
  <2>1. (q.consumer # c => Kept(t, q)) /\ Told(t, q) /\ <<q.consumer, q.addr>> \in seen
    BY DEF Serving
  <2>2. Told(y, q)
    BY <1>2, <1>3, <2>1 DEF Told, DROP_ADDRESS, DROP_MSG_BUT_FORWARD
  <2> QED BY <2>1, <2>2 DEF Kept
<1> QED BY <1>1, <1>4 DEF Serving

\* The callback for the block, which may drop the first TLV of every entry.
LEMMA TellBlockServing ==
  ASSUME NEW c \in Consumers, NEW m, NEW a, NEW open, NEW seen,
         <<c, m, a>> \in open, <<c, a>> \in seen, NEW D, NEW w \in Nat,
         NEW x \in Merging(c, m, a, open, seen, D, w)
  PROVE  TellBlock(x, c) \in Serving(c, m, a, open, seen)
<1>1. /\ x.s \in Serving(c, m, a, open, seen) /\ x.found \in [1..w -> Seq(Nat)]
      /\ D \subseteq x.s.dropTlv /\ Among(x.s, c, D)
      /\ \A n \in 1..w : \A v \in Range(x.found[n]) : <<m, a, v>> \notin D
  BY DEF Merging
<1>2. CASE x.s.result # OKAY
  BY <1>1, <1>2 DEF TellBlock
<1>3. CASE x.s.result = OKAY
  <2>1. PICK cb \in {"failed", "block"} : cb = IF x.failed THEN "failed" ELSE "block"
    OBVIOUS
  <2>2. PICK t : t = Call(x.s, c, cb, x.found)
    OBVIOUS
  <2>3. TellBlock(x, c) = BlockDropped(t, x.found)
    BY <1>3, <2>1, <2>2 DEF TellBlock
  <2>4. x.found \in Details
    <3>1. x.found \in Seq(Seq(Nat))
      BY <1>1, SeqDef
    <3> QED BY <3>1 DEF Details
  <2>5. Undropped(x.s, c, a, x.found)
    <3>1. DOMAIN x.found = 1..w
      BY <1>1
    <3>2. \A f \in Range(x.found) : \A v \in Range(f) : <<m, a, v>> \notin D
      BY <1>1, <3>1 DEF Range
    <3>3. \A q \in Now(x.s) : q.message = m
      BY <1>1 DEF Now, Serving
    <3>4. \A q \in Now(x.s) : q.consumer # c /\ q.cb = "tlv" /\ q.answer = DROP_TLV /\ q.addr = a =>
            <<m, a, q.detail>> \in D
      BY <1>1, <3>3 DEF Among
    <3> QED BY <3>2, <3>4 DEF Undropped
  <2>6. cb \in CallbackNames /\ cb \notin {"tlv", "end"}
    BY <2>1 DEF CallbackNames
  <2>7. t \in Serving(c, m, a, open, seen)
    BY <1>1, <1>3, <2>2, <2>4, <2>5, <2>6, ServingCall
  <2>8. CASE t.result # DROP_TLV
    BY <2>3, <2>7, <2>8 DEF BlockDropped
  <2>9. CASE t.result = DROP_TLV
    <3>1. t \in States /\ t.message = m /\ t.addr = a
      BY <2>7 DEF Serving
    <3>2. PICK B : B = {<<t.message, t.addr, x.found[n][1]>> :
                          n \in {k \in DOMAIN x.found : x.found[k] # <<>>}}
      OBVIOUS
    <3>3. B \subseteq Nat \X Addresses \X Nat
      <4>1. \A n \in DOMAIN x.found : x.found[n] # <<>> => x.found[n][1] \in Nat
        <5> SUFFICES ASSUME NEW n \in 1..w, x.found[n] # <<>> PROVE x.found[n][1] \in Nat
          BY <1>1
        <5>1. PICK l \in Seq(Nat) : l = x.found[n]
          BY <1>1
        <5>2. Len(l) \in Nat /\ Len(l) # 0
          BY <5>1, EmptySeq, LenProperties
        <5>3. 1 \in 1..Len(l)
          BY <5>2
        <5> QED BY <5>1, <5>3, ElementOfSeq
      <4>2. t.message \in Nat /\ t.addr \in Addresses
        BY <3>1 DEF States
      <4> QED BY <3>2, <4>1, <4>2
    <3>4. PICK E : E = t.dropTlv \cup B
      OBVIOUS
    <3>5. E \in SUBSET (Nat \X Addresses \X Nat)
      BY <3>1, <3>3, <3>4 DEF States
    <3>6. TellBlock(x, c) = [t EXCEPT !.result = OKAY, !.dropTlv = E]
      BY <2>3, <2>9, <3>1, <3>2, <3>4 DEF BlockDropped
    <3>7. PICK y : y = [t EXCEPT !.result = OKAY, !.dropTlv = E]
      OBVIOUS
    <3>8. /\ y \in States /\ y.log = t.log /\ y.message = t.message /\ y.addr = t.addr
          /\ y.dropTlv = E /\ y.dropAddr = t.dropAddr
      <4>1. OKAY \in Int
        BY DEF OKAY
      <4> QED BY <3>1, <3>5, <3>7, <4>1 DEF States
    <3>9. t.result < DROP_ADDRESS
      BY <2>9 DEF DROP_TLV, DROP_ADDRESS
    <3>10. y \in Serving(c, m, a, open, seen)
      BY <2>7, <3>1, <3>4, <3>8, <3>9, ServingReset
    <3> QED BY <3>6, <3>7, <3>10
  <2> QED BY <2>8, <2>9
<1> QED BY <1>2, <1>3

\* _schedule_tlvblock()
LEMMA TlvblockServing ==
  ASSUME NEW c \in Consumers, NEW m, NEW a, NEW open, NEW seen,
         <<c, m, a>> \in open, <<c, a>> \in seen,
         NEW s \in Serving(c, m, a, open, seen), s.result = OKAY,
         NEW tlvs, Len(tlvs) \in Nat, NEW idx
  PROVE  schedule_tlvblock(s, c, tlvs, idx) \in Serving(c, m, a, open, seen)
<1>1. PICK w : w = Len(EntriesOf(c))
  OBVIOUS
<1>2. w \in Nat
  BY <1>1, EntriesList, LenProperties
<1>3. PICK x : x = Merge(s, c, EntriesOf(c), tlvs, idx)
  OBVIOUS
<1>4. x \in Merging(c, m, a, open, seen, s.dropTlv, w)
  BY <1>1, <1>2, <1>3, MergeServing
<1> QED BY <1>2, <1>3, <1>4, TellBlockServing DEF schedule_tlvblock

-----------------------------------------------------------------------------
(* The addresses of a message for one consumer. *)

\* The end of what is open, whatever it answers.
LEMMA EndSound ==
  ASSUME NEW c \in Consumers, NEW s \in States, NEW m, NEW a, s.message = m, s.addr = a,
         NEW open, Sound(s, open), <<c, m, a>> \in open, NEW detail \in BOOLEAN,
         \A r \in Callbacks : r.consumer = c /\ r.message = m /\ r.addr = a /\ r.cb = "end" =>
                                \A q \in Range(s.log) : Hides(q, r),
         NEW x, x = Call(s, c, "end", detail)
  PROVE  /\ x \in States /\ x.message = m /\ x.addr = a
         /\ x.dropTlv = s.dropTlv /\ x.dropAddr = s.dropAddr
         /\ Sound(x, open \ {<<c, m, a>>})
         /\ \/ x = s
            \/ \E r \in Callbacks : /\ r.consumer = c /\ r.message = m /\ r.addr = a /\ r.cb = "end"
                                    /\ r.answer = x.result
                                    /\ Now(x) = Now(s) \cup {r}
<1>1. detail \in Details /\ "end" \in CallbackNames
  <2>1. detail \in Details
    BY DEF Details
  <2>2. "end" \in CallbackNames
    BY DEF CallbackNames
  <2> QED BY <2>1, <2>2
<1>2. /\ "end" \notin ConsumerOf[c].cb => x = s
      /\ x \in States /\ x.message = m /\ x.addr = a
      /\ x.dropTlv = s.dropTlv /\ x.dropAddr = s.dropAddr
  BY <1>1, CallFacts
<1>3. /\ Silent(s.log) /\ Balanced(s.log, open)
      /\ \A r \in Range(s.log) : r.message <= m
  BY DEF Sound
<1>4. s.log \in Seq(Callbacks) /\ m \in Nat
  BY DEF States
<1>5. CASE "end" \notin ConsumerOf[c].cb
  <2>1. Balanced(s.log, open \ {<<c, m, a>>})
    BY <1>3, <1>4, <1>5, BalancedNoEnd
  <2>2. Sound(s, open \ {<<c, m, a>>})
    BY <1>3, <2>1 DEF Sound
  <2>3. x = s
    BY <1>2, <1>5
  <2>4. Sound(x, open \ {<<c, m, a>>})
    BY <2>2, <2>3
  <2> QED BY <1>2, <2>3, <2>4
<1>6. CASE "end" \in ConsumerOf[c].cb
  <2>1. PICK r \in Callbacks :
          /\ r.consumer = c /\ r.cb = "end" /\ r.message = m /\ r.addr = a
          /\ r.detail = detail /\ r.answer = x.result
          /\ x.log = Append(s.log, r)
    BY <1>1, <1>6, CallFacts
  <2>2. Range(x.log) = Range(s.log) \cup {r}
    <3>1. Range(Append(s.log, r)) = Range(s.log) \cup {r}
      BY <1>4, AppendCallback
    <3> QED BY <2>1, <3>1
  <2>3. Silent(x.log)
    BY <1>3, <1>4, <2>1, SilentAppend
  <2>4. Key(r) = <<c, m, a>>
    BY <2>1 DEF Key
  <2>5. Balanced(x.log, open \ {<<c, m, a>>})
    BY <1>3, <1>4, <2>1, <2>4, BalancedEnd
  <2>6. \A q \in Range(x.log) : q.message <= x.message
    BY <1>2, <1>3, <1>4, <2>1, <2>2
  <2>7. Sound(x, open \ {<<c, m, a>>})
    BY <2>3, <2>5, <2>6 DEF Sound
  <2>8. Now(x) = Now(s) \cup {r}
    BY <1>2, <2>1, <2>2 DEF Now
  <2> QED BY <1>2, <2>1, <2>7, <2>8
<1> QED BY <1>5, <1>6

\* An end callback raises the result.
LEMMA CallEndRaises ==
  ASSUME NEW c \in Consumers, NEW s \in States, NEW x \in States, x = Call(s, c, "end", s.result # OKAY),
         NEW t, t = CallEnd(s, c)
  PROVE  /\ t \in States /\ t.log = x.log /\ t.message = x.message /\ t.addr = x.addr
         /\ t.dropTlv = x.dropTlv /\ t.dropAddr = x.dropAddr
         /\ t.result \in Int /\ t.result >= x.result /\ t.result >= s.result
<1>1. PICK v : v = IF x.result > s.result THEN x.result ELSE s.result
  OBVIOUS
<1>2. x.result \in Int /\ s.result \in Int
  BY DEF States
<1>3. v \in Int /\ v >= x.result /\ v >= s.result
  BY <1>1, <1>2
<1>4. t = [x EXCEPT !.result = v]
  BY <1>1 DEF CallEnd
<1>5. /\ t \in States /\ t.log = x.log /\ t.result = v /\ t.message = x.message
      /\ t.addr = x.addr /\ t.dropTlv = x.dropTlv /\ t.dropAddr = x.dropAddr
  BY <1>3, <1>4 DEF States
<1> QED BY <1>3, <1>5

\* What is told stays so when the result is raised.
LEMMA ToldStays ==
  ASSUME NEW s \in States, NEW t \in States, t.addr = s.addr, t.result >= s.result,
         t.dropTlv = s.dropTlv, t.dropAddr = s.dropAddr, NEW q, Told(s, q)
  PROVE  Told(t, q)
<1>1. t.result \in Int /\ s.result \in Int
  BY DEF States
<1>2. s.result >= DROP_ADDRESS => t.result >= DROP_ADDRESS
  BY <1>1 DEF DROP_ADDRESS
<1>3. s.result >= DROP_MSG_BUT_FORWARD => t.result >= DROP_MSG_BUT_FORWARD
  BY <1>1 DEF DROP_MSG_BUT_FORWARD
<1> QED BY <1>2, <1>3 DEF Told

\* The end of an address.
LEMMA EndServing ==
  ASSUME NEW c \in Consumers, NEW m, NEW a, NEW open, NEW seen,
         <<c, m, a>> \in open, <<c, a>> \in seen,
         NEW s \in Serving(c, m, a, open, seen)
  PROVE  CallEnd(s, c) \in Serving(c, m, a, open \ {<<c, m, a>>}, seen)
<1>1. s \in States /\ s.message = m /\ s.addr = a /\ Sound(s, open)
  BY DEF Serving
<1>2. ASSUME NEW r \in Callbacks, r.consumer = c, r.message = m, r.addr = a, r.cb = "end"
      PROVE  \A q \in Range(s.log) : Hides(q, r)
  BY <1>2, OthersHidden
<1>3. PICK x : x = Call(s, c, "end", s.result # OKAY)
  OBVIOUS
<1>4. PICK d \in BOOLEAN : d = (s.result # OKAY)
  OBVIOUS
<1>5. x = Call(s, c, "end", d)
  BY <1>3, <1>4
<1>6. /\ x \in States /\ x.message = m /\ x.addr = a
      /\ x.dropTlv = s.dropTlv /\ x.dropAddr = s.dropAddr
      /\ Sound(x, open \ {<<c, m, a>>})
      /\ \/ x = s
         \/ \E r \in Callbacks : /\ r.consumer = c /\ r.message = m /\ r.addr = a /\ r.cb = "end"
                                 /\ r.answer = x.result
                                 /\ Now(x) = Now(s) \cup {r}
  BY <1>1, <1>2, <1>5, EndSound
<1>7. PICK t : t = CallEnd(s, c)
  OBVIOUS
<1>8. /\ t \in States /\ t.log = x.log /\ t.message = m /\ t.addr = a
      /\ t.dropTlv = s.dropTlv /\ t.dropAddr = s.dropAddr
      /\ t.result \in Int /\ t.result >= x.result /\ t.result >= s.result
  BY <1>1, <1>3, <1>6, <1>7, CallEndRaises
<1>9. Sound(t, open \ {<<c, m, a>>}) /\ Now(t) = Now(x)
  BY <1>6, <1>8 DEF Sound, Now
<1>10. ASSUME NEW q \in Now(s)
       PROVE  (q.consumer # c => Kept(t, q)) /\ Told(t, q) /\ <<q.consumer, q.addr>> \in seen
  <2>1. (q.consumer # c => Kept(s, q)) /\ Told(s, q) /\ <<q.consumer, q.addr>> \in seen
    BY DEF Serving
  <2>2. Told(t, q)
    BY <1>1, <1>8, <2>1, ToldStays
  <2> QED BY <1>8, <2>1, <2>2 DEF Kept
<1>11. ASSUME NEW q \in Now(t), q \notin Now(s)
       PROVE  q.consumer = c /\ q.addr = a /\ q.cb = "end" /\ q.answer = x.result
  BY <1>6, <1>9, <1>11
<1>12. ASSUME NEW q \in Now(t), q \notin Now(s) PROVE Told(t, q)
  <2>1. q.answer = x.result /\ q.cb # "tlv" /\ q.addr = a
    BY <1>11, <1>12
  <2>2. PICK u \in Int, v \in Int : u = x.result /\ v = t.result
    BY <1>6, <1>8 DEF States
  <2>3. v >= u
    BY <1>8, <2>2
  <2>4. (u = 2 => v >= 2) /\ (u \in {3, 4} => v >= 3)
    BY <2>3
  <2> QED BY <1>8, <2>1, <2>2, <2>4 DEF Told, DROP_ADDRESS, DROP_MESSAGE, DROP_MSG_BUT_FORWARD
<1>13. a # NoAddress => <<m, a>> \notin t.dropAddr
  BY <1>8 DEF Serving
<1>14. ASSUME NEW q \in Now(t)
       PROVE  (q.consumer # c => Kept(t, q)) /\ Told(t, q) /\ <<q.consumer, q.addr>> \in seen
  BY <1>10, <1>11, <1>12
<1> QED BY <1>7, <1>8, <1>9, <1>13, <1>14 DEF Serving

\* When the result does not tell of a drop, all is remembered.
LEMMA ServingReady ==
  ASSUME NEW c, NEW m, NEW a, NEW open, NEW seen, NEW s \in Serving(c, m, a, open, seen)
  PROVE  s \in Ready(m, open, seen)
<1>1. s \in States /\ s.message = m /\ s.addr = a /\ Sound(s, open)
  BY DEF Serving
<1>2. PICK v \in Int : v = s.result
  BY <1>1 DEF States
<1>3. ASSUME NEW q \in Now(s), s.result < DROP_ADDRESS PROVE Kept(s, q)
  <2>1. Told(s, q)
    BY DEF Serving
  <2>2. ~ (v >= 2) /\ ~ (v >= 3)
    BY <1>2, <1>3 DEF DROP_ADDRESS
  <2> QED BY <1>2, <2>1, <2>2 DEF Told, Kept, DROP_ADDRESS, DROP_MSG_BUT_FORWARD
<1>4. \A q \in Now(s) : <<q.consumer, q.addr>> \in seen
  BY DEF Serving
<1> QED BY <1>1, <1>3, <1>4 DEF Ready

\* ... and a drop of the address is remembered at its end.
LEMMA AddressEndedReady ==
  ASSUME NEW c, NEW m, NEW a, a # NoAddress, NEW open, NEW seen, NEW s \in Serving(c, m, a, open, seen)
  PROVE  AddressEnded(s) \in Ready(m, open, seen)
<1>1. s \in States /\ s.message = m /\ s.addr = a /\ Sound(s, open)
  BY DEF Serving
<1>2. CASE s.result # DROP_ADDRESS
  BY <1>2, ServingReady DEF AddressEnded
<1>3. CASE s.result = DROP_ADDRESS
  <2>1. m \in Nat /\ a \in Addresses /\ s.dropAddr \in SUBSET (Nat \X Addresses)
    BY <1>1 DEF States
  <2>2. PICK E : E = s.dropAddr \cup {<<m, a>>}
    OBVIOUS
  <2>3. E \in SUBSET (Nat \X Addresses)
    BY <2>1, <2>2
  <2>4. PICK y : y = [s EXCEPT !.result = OKAY, !.dropAddr = E]
    OBVIOUS
  <2>5. AddressEnded(s) = y
    BY <1>1, <1>3, <2>2, <2>4 DEF AddressEnded
  <2>6. OKAY \in Int
    BY DEF OKAY
  <2>7. /\ y \in States /\ y.log = s.log /\ y.message = m /\ y.dropAddr = E /\ y.dropTlv = s.dropTlv
    BY <1>1, <2>3, <2>4, <2>6 DEF States
  <2>8. Now(y) = Now(s) /\ Sound(y, open)
    BY <1>1, <2>7 DEF Now, Sound
  <2>9. ~ (s.result >= DROP_MSG_BUT_FORWARD)
    BY <1>3 DEF DROP_ADDRESS, DROP_MSG_BUT_FORWARD
  <2>10. ASSUME NEW q \in Now(s) PROVE Kept(y, q) /\ <<q.consumer, q.addr>> \in seen
    <3>1. Told(s, q) /\ <<q.consumer, q.addr>> \in seen /\ q.message = m
      BY <1>1 DEF Serving, Now
    <3>2. Kept(y, q)
      BY <1>1, <2>2, <2>7, <2>9, <3>1 DEF Told, Kept
    <3> QED BY <3>1, <3>2
  <2> QED BY <2>5, <2>7, <2>8, <2>10 DEF Ready
<1> QED BY <1>2, <1>3

\* A consumer is about to be served.
LEMMA OpenServing ==
  ASSUME NEW c, NEW m, NEW a, NEW open, NEW seen, <<c, a>> \notin seen,
         NEW s \in Ready(m, open, seen), s.result < DROP_ADDRESS,
         NEW x \in States, x.log = s.log, x.message = m, x.addr = a,
         x.dropTlv = s.dropTlv, x.dropAddr = s.dropAddr,
         a # NoAddress => <<m, a>> \notin s.dropAddr
  PROVE  x \in Serving(c, m, a, open \cup {<<c, m, a>>}, seen \cup {<<c, a>>})
<1>1. s \in States /\ s.message = m /\ Sound(s, open)
      /\ \A q \in Now(s) : Kept(s, q) /\ <<q.consumer, q.addr>> \in seen
  BY DEF Ready
<1>2. s.log \in Seq(Callbacks)
  BY <1>1 DEF States
<1>3. \A q \in Range(s.log) : Key(q) # <<c, m, a>>
  BY <1>1 DEF Key, Now
<1>4. Balanced(s.log, open \cup {<<c, m, a>>})
  BY <1>1, <1>2, <1>3, BalancedFresh DEF Sound
<1>5. Sound(x, open \cup {<<c, m, a>>}) /\ Now(x) = Now(s)
  BY <1>1, <1>4 DEF Sound, Now
<1>6. \A q \in Now(x) : Kept(x, q) /\ Told(x, q)
  BY <1>1, <1>5 DEF Kept, Told, Now
<1> QED BY <1>1, <1>5, <1>6 DEF Serving

\* More may have been seen.
LEMMA ReadyGrows ==
  ASSUME NEW m, NEW open, NEW seen, NEW more, seen \subseteq more, NEW s \in Ready(m, open, seen)
  PROVE  s \in Ready(m, open, more)
BY DEF Ready

\* Start, TLVs and end for one address.
LEMMA ShowAddressReady ==
  ASSUME NEW c \in Consumers, NEW m, NEW a \in Addresses, a # NoAddress,
         NEW open, <<c, m, a>> \notin open, NEW seen, <<c, a>> \notin seen,
         NEW s \in Ready(m, open, seen), s.result = OKAY, <<m, a>> \notin s.dropAddr,
         NEW tlvs, Len(tlvs) \in Nat
  PROVE  ShowAddress(s, c, a, tlvs) \in Ready(m, open, seen \cup {<<c, a>>})
<1> DEFINE key == <<c, m, a>>
           now == open \cup {key}
           all == seen \cup {<<c, a>>}
<1>1. PICK x : x = [s EXCEPT !.addr = a]
  OBVIOUS
<1>2. /\ s \in States /\ s.message = m /\ s.result < DROP_ADDRESS
  BY DEF Ready, OKAY, DROP_ADDRESS
<1>3. /\ x \in States /\ x.log = s.log /\ x.result = OKAY /\ x.message = m
      /\ x.addr = a /\ x.dropTlv = s.dropTlv /\ x.dropAddr = s.dropAddr
  BY <1>1, <1>2 DEF States
<1>4. x \in Serving(c, m, a, now, all)
  BY <1>2, <1>3, OpenServing
<1>5. key \in now /\ <<c, a>> \in all /\ now \ {key} = open
  OBVIOUS
<1> HIDE DEF now, all, key
<1>6. PICK y : y = Call(x, c, "start", 0)
  OBVIOUS
<1>7. y \in Serving(c, m, a, now, all)
  <2>1. 0 \in Details
    BY DEF Details
  <2>2. "start" \in CallbackNames /\ "start" \notin {"tlv", "end"}
    BY DEF CallbackNames
  <2> QED BY <1>3, <1>4, <1>5, <1>6, <2>1, <2>2, ServingCall DEF key
<1>8. PICK z : z = ServeAddress(y, c, tlvs)
  OBVIOUS
<1>9. z \in Serving(c, m, a, now, all)
  <2>1. CASE y.result # OKAY
    BY <1>7, <1>8, <2>1 DEF ServeAddress
  <2>2. CASE y.result = OKAY
    <3>1. z = schedule_tlvblock(y, c, tlvs, y.addr[2] - 1)
      BY <1>8, <2>2 DEF ServeAddress
    <3> QED BY <1>5, <1>7, <2>2, <3>1, TlvblockServing DEF key
  <2> QED BY <2>1, <2>2
<1>10. PICK e : e = CallEnd(z, c)
  OBVIOUS
<1>11. e \in Serving(c, m, a, now \ {key}, all)
  BY <1>5, <1>9, <1>10, EndServing DEF key
<1>12. AddressEnded(e) \in Ready(m, open, all)
  BY <1>5, <1>11, AddressEndedReady
<1>13. ShowAddress(s, c, a, tlvs) = AddressEnded(e)
  BY <1>1, <1>6, <1>8, <1>10 DEF ShowAddress
<1> QED BY <1>12, <1>13 DEF all

\* An address is shown unless it was dropped.
LEMMA NextShownReady ==
  ASSUME NEW c \in Consumers, NEW m, NEW a \in Addresses, a # NoAddress,
         NEW open, <<c, m, a>> \notin open, NEW seen, <<c, a>> \notin seen,
         NEW s \in Ready(m, open, seen), NEW tlvs, Len(tlvs) \in Nat
  PROVE  NextShown(s, c, a, tlvs) \in Ready(m, open, seen \cup {<<c, a>>})
<1>1. s.message = m
  BY DEF Ready
<1>2. CASE s.result # OKAY \/ <<m, a>> \in s.dropAddr
  <2>1. NextShown(s, c, a, tlvs) = s
    BY <1>1, <1>2 DEF NextShown
  <2> QED BY <2>1, ReadyGrows
<1>3. CASE s.result = OKAY /\ <<m, a>> \notin s.dropAddr
  <2>1. NextShown(s, c, a, tlvs) = ShowAddress(s, c, a, tlvs)
    BY <1>1, <1>3 DEF NextShown
  <2> QED BY <1>3, <2>1, ShowAddressReady
<1> QED BY <1>2, <1>3

\* The consumer c and the first addresses of block b.
Shown(c, b, i) == {<<c, <<b, k>>>> : k \in 1..i}

\* The addresses of one block.
LEMMA ServeBlockReady ==
  ASSUME NEW c \in Consumers, NEW m, NEW b \in Nat, b # 0, NEW block, Block(block),
         NEW open, \A k \in Nat : <<c, m, <<b, k>>>> \notin open,
         NEW seen, \A k \in Nat : <<c, <<b, k>>>> \notin seen,
         NEW s \in Ready(m, open, seen)
  PROVE  ServeBlock(s, c, b, block) \in Ready(m, open, seen \cup Shown(c, b, Len(block.addrs)))
<1> DEFINE n == Len(block.addrs)
           S == [k \in 0..n |-> Ready(m, open, seen \cup Shown(c, b, k))]
           F == [k \in 1..n |-> [x \in S[k - 1] |-> NextShown(x, c, <<b, k>>, block.tlvs)]]
           Is(f) == f = [k \in 0..n |-> IF k = 0 THEN s ELSE NextShown(f[k - 1], c, <<b, k>>, block.tlvs)]
           turn == CHOOSE f : Is(f)
<1>1. ServeBlock(s, c, b, block) = turn[n]
  BY DEF ServeBlock
<1>2. n \in Nat /\ 0 \in 0..n /\ n \in 0..n
      /\ \A k \in 1..n : k - 1 \in 0..n /\ k \in 0..n /\ k # 0
  BY DEF Block
<1>3. \A k \in 0..n : S[k] = Ready(m, open, seen \cup Shown(c, b, k))
  OBVIOUS
<1> HIDE DEF n, S
<1>4. s \in S[0]
  <2>1. s \in Ready(m, open, seen \cup Shown(c, b, 0))
    BY ReadyGrows
  <2> QED BY <1>2, <1>3, <2>1
<1>5. ASSUME NEW k \in 1..n, NEW x \in S[k - 1]
      PROVE  NextShown(x, c, <<b, k>>, block.tlvs) \in S[k]
  <2>1. k \in Nat /\ k - 1 \in Nat /\ x \in Ready(m, open, seen \cup Shown(c, b, k - 1))
    <3>1. k \in Nat /\ k - 1 \in Nat /\ k - 1 \in 0..n
      BY <1>2
    <3>2. S[k - 1] = Ready(m, open, seen \cup Shown(c, b, k - 1))
      BY <1>3, <3>1
    <3> QED BY <3>1, <3>2
  <2>2. <<b, k>> \in Addresses /\ <<b, k>> # NoAddress
    BY <2>1 DEF Addresses, NoAddress
  <2>3. <<c, <<b, k>>>> \notin seen \cup Shown(c, b, k - 1)
    BY <2>1 DEF Shown
  <2>4. PICK old : old = seen \cup Shown(c, b, k - 1)
    OBVIOUS
  <2>5. old \cup {<<c, <<b, k>>>>} = seen \cup Shown(c, b, k)
    <3>1. \A i : i \in 1..k <=> i \in 1..(k - 1) \/ i = k
      BY <2>1
    <3> QED BY <2>4, <3>1 DEF Shown
  <2>6. Len(block.tlvs) \in Nat
    BY DEF Block
  <2>7. PICK d : d = <<b, k>>
    OBVIOUS
  <2>8. NextShown(x, c, d, block.tlvs) \in Ready(m, open, old \cup {<<c, d>>})
    BY <2>1, <2>2, <2>3, <2>4, <2>6, <2>7, NextShownReady
  <2> QED BY <1>2, <1>3, <2>5, <2>7, <2>8
<1>6. PICK g : IsWalk(g, S, s, n, F)
  <2>1. \A k \in 1..n : F[k] \in [S[k - 1] -> S[k]]
    BY <1>5
  <2> HIDE DEF F
  <2> QED BY <1>2, <1>4, <2>1, WalkThrough
<1>7. \A k \in 1..n : g[k] = NextShown(g[k - 1], c, <<b, k>>, block.tlvs)
  BY <1>2, <1>6 DEF IsWalk
<1>8. Is(g)
  <2>1. \A k \in 0..n : k = 0 \/ k \in 1..n
    BY <1>2
  <2> HIDE DEF F
  <2> QED BY <1>6, <1>7, <2>1 DEF IsWalk
<1>9. Is(turn)
  BY <1>8 DEF turn
<1> HIDE DEF turn
<1>10. turn[0] = s /\ \A k \in 1..n : turn[k] = NextShown(turn[k - 1], c, <<b, k>>, block.tlvs)
  <2>1. \A k \in 0..n : turn[k] = IF k = 0 THEN s ELSE NextShown(turn[k - 1], c, <<b, k>>, block.tlvs)
    BY <1>9
  <2> QED BY <1>2, <2>1
<1>11. turn[n] \in S[n]
  <2>1. turn[0] \in S[0] /\ \A k \in 1..n : turn[k - 1] \in S[k - 1] => turn[k] \in S[k]
    BY <1>4, <1>5, <1>10
  <2> HIDE DEF Is, F
  <2> QED BY <1>2, <2>1, StaysAlong
<1> QED BY <1>1, <1>2, <1>3, <1>11 DEF n

\* The consumer c and the addresses of the first blocks.
ShownBlocks(c, b) == {<<c, d>> : d \in {e \in Addresses : e[1] \in 1..b}}

\* schedule_msgaddr_consumer()
LEMMA MsgaddrReady ==
  ASSUME NEW c \in Consumers, NEW m, NEW msg, WellFormed(msg),
         NEW open, \A d \in Addresses : d # NoAddress => <<c, m, d>> \notin open,
         NEW seen, \A d \in Addresses : <<c, d>> \notin seen,
         NEW s \in Ready(m, open, seen), s.result = OKAY
  PROVE  schedule_msgaddr_consumer(s, c, msg.blocks) \in Ready(m, open, seen \cup ({c} \X Addresses))
<1> DEFINE n == Len(msg.blocks)
           S == [k \in 0..n |-> Ready(m, open, seen \cup ShownBlocks(c, k))]
           F == [k \in 1..n |-> [x \in S[k - 1] |-> ServeBlock(x, c, k, msg.blocks[k])]]
           Is(f) == f = [k \in 0..n |-> IF k = 0 THEN [s EXCEPT !.result = OKAY] ELSE ServeBlock(f[k - 1], c, k, msg.blocks[k])]
           turn == CHOOSE f : Is(f)
<1>1. schedule_msgaddr_consumer(s, c, msg.blocks) = turn[n]
  BY DEF schedule_msgaddr_consumer
<1>2. n \in Nat /\ 0 \in 0..n /\ n \in 0..n
      /\ \A k \in 1..n : k - 1 \in 0..n /\ k \in 0..n /\ k # 0
  BY DEF WellFormed
<1>3. \A k \in 0..n : S[k] = Ready(m, open, seen \cup ShownBlocks(c, k))
  OBVIOUS
<1> HIDE DEF n, S
<1>4. [s EXCEPT !.result = OKAY] \in S[0]
  <2>1. s \in Ready(m, open, seen \cup ShownBlocks(c, 0))
    BY ReadyGrows
  <2>2. s \in States
    BY DEF Ready
  <2>3. [s EXCEPT !.result = OKAY] = s
    BY <2>2 DEF States
  <2> QED BY <1>2, <1>3, <2>1, <2>3
<1>5. ASSUME NEW k \in 1..n, NEW x \in S[k - 1]
      PROVE  ServeBlock(x, c, k, msg.blocks[k]) \in S[k]
  <2>1. k \in Nat /\ k - 1 \in Nat /\ k # 0 /\ x \in Ready(m, open, seen \cup ShownBlocks(c, k - 1))
    <3>1. k \in Nat /\ k - 1 \in Nat /\ k # 0 /\ k - 1 \in 0..n
      BY <1>2
    <3>2. S[k - 1] = Ready(m, open, seen \cup ShownBlocks(c, k - 1))
      BY <1>3, <3>1
    <3> QED BY <3>1, <3>2
  <2>2. \A i \in Nat : <<k, i>> \in Addresses /\ <<k, i>> # NoAddress
    BY <2>1 DEF Addresses, NoAddress
  <2>3. Block(msg.blocks[k])
    BY DEF WellFormed, n
  <2>4. PICK old : old = seen \cup ShownBlocks(c, k - 1)
    OBVIOUS
  <2>5. \A i \in Nat : <<c, <<k, i>>>> \notin old
    BY <2>1, <2>2, <2>4 DEF ShownBlocks
  <2>6. PICK block : block = msg.blocks[k]
    OBVIOUS
  <2>7. ServeBlock(x, c, k, block) \in Ready(m, open, old \cup Shown(c, k, Len(block.addrs)))
    BY <2>1, <2>2, <2>3, <2>4, <2>5, <2>6, ServeBlockReady
  <2>8. old \cup Shown(c, k, Len(block.addrs)) \subseteq seen \cup ShownBlocks(c, k)
    <3>1. \A d \in Addresses : d[1] \in 1..(k - 1) => d[1] \in 1..k
      BY <2>1
    <3>2. ShownBlocks(c, k - 1) \subseteq ShownBlocks(c, k)
      BY <3>1 DEF ShownBlocks
    <3>3. Shown(c, k, Len(block.addrs)) \subseteq ShownBlocks(c, k)
      <4>1. Len(block.addrs) \in Nat
        BY <2>3, <2>6 DEF Block
      <4>2. \A i \in 1..Len(block.addrs) : <<k, i>> \in {d \in Addresses : d[1] \in 1..k}
        BY <2>1, <2>2, <4>1
      <4> QED BY <4>2 DEF Shown, ShownBlocks
    <3> QED BY <2>4, <3>2, <3>3
  <2>9. ServeBlock(x, c, k, block) \in Ready(m, open, seen \cup ShownBlocks(c, k))
    BY <2>7, <2>8, ReadyGrows
  <2> QED BY <1>2, <1>3, <2>6, <2>9
<1>6. PICK g : IsWalk(g, S, [s EXCEPT !.result = OKAY], n, F)
  <2>1. \A k \in 1..n : F[k] \in [S[k - 1] -> S[k]]
    BY <1>5
  <2> HIDE DEF F
  <2> QED BY <1>2, <1>4, <2>1, WalkThrough
<1>7. \A k \in 1..n : g[k] = ServeBlock(g[k - 1], c, k, msg.blocks[k])
  BY <1>2, <1>6 DEF IsWalk
<1>8. Is(g)
  <2>1. \A k \in 0..n : k = 0 \/ k \in 1..n
    BY <1>2
  <2> HIDE DEF F
  <2> QED BY <1>6, <1>7, <2>1 DEF IsWalk
<1>9. Is(turn)
  BY <1>8 DEF turn
<1> HIDE DEF turn
<1>10. turn[0] = [s EXCEPT !.result = OKAY] /\ \A k \in 1..n : turn[k] = ServeBlock(turn[k - 1], c, k, msg.blocks[k])
  <2>1. \A k \in 0..n : turn[k] = IF k = 0 THEN [s EXCEPT !.result = OKAY] ELSE ServeBlock(turn[k - 1], c, k, msg.blocks[k])
    BY <1>9
  <2> QED BY <1>2, <2>1
<1>11. turn[n] \in S[n]
  <2>1. turn[0] \in S[0] /\ \A k \in 1..n : turn[k - 1] \in S[k - 1] => turn[k] \in S[k]
    BY <1>4, <1>5, <1>10
  <2> HIDE DEF Is, F
  <2> QED BY <1>2, <2>1, StaysAlong
<1>12. seen \cup ShownBlocks(c, n) \subseteq seen \cup ({c} \X Addresses)
  BY DEF ShownBlocks
<1>13. PICK z : z = turn[n]
  OBVIOUS
<1>14. z \in Ready(m, open, seen \cup ShownBlocks(c, n))
  BY <1>2, <1>3, <1>11, <1>13
<1>15. z \in Ready(m, open, seen \cup ({c} \X Addresses))
  BY <1>12, <1>14, ReadyGrows
<1> QED BY <1>1, <1>13, <1>15

-----------------------------------------------------------------------------
(* The consumers of a message. *)

\* schedule_msgtlv_consumer()
LEMMA MsgtlvReady ==
  ASSUME NEW c \in Consumers, NEW m, NEW open, NEW seen, <<c, NoAddress>> \notin seen,
         NEW s \in Ready(m, open, seen), s.result = OKAY, NEW tlvs, Len(tlvs) \in Nat
  PROVE  schedule_msgtlv_consumer(s, c, tlvs)
           \in Ready(m, open \cup {<<c, m, NoAddress>>}, seen \cup {<<c, NoAddress>>})
<1> DEFINE now == open \cup {<<c, m, NoAddress>>}
           all == seen \cup {<<c, NoAddress>>}
<1>1. PICK x : x = [s EXCEPT !.addr = NoAddress, !.result = OKAY]
  OBVIOUS
<1>2. /\ s \in States /\ s.message = m /\ s.result < DROP_ADDRESS
      /\ NoAddress \in Addresses /\ OKAY \in Int
  BY DEF Ready, OKAY, DROP_ADDRESS, NoAddress, Addresses
<1>3. /\ x \in States /\ x.log = s.log /\ x.result = OKAY /\ x.message = m
      /\ x.addr = NoAddress /\ x.dropTlv = s.dropTlv /\ x.dropAddr = s.dropAddr
  BY <1>1, <1>2 DEF States
<1>4. x \in Serving(c, m, NoAddress, now, all)
  BY <1>2, <1>3, OpenServing
<1>5. <<c, m, NoAddress>> \in now /\ <<c, NoAddress>> \in all
  OBVIOUS
<1> HIDE DEF now, all
<1>6. PICK y : y = Call(x, c, "start", 0)
  OBVIOUS
<1>7. y \in Serving(c, m, NoAddress, now, all)
  <2>1. 0 \in Details
    BY DEF Details
  <2>2. "start" \in CallbackNames /\ "start" \notin {"tlv", "end"}
    BY DEF CallbackNames
  <2> QED BY <1>3, <1>4, <1>5, <1>6, <2>1, <2>2, ServingCall
<1>8. PICK z : z = schedule_msgtlv_consumer(s, c, tlvs)
  OBVIOUS
<1>9. z \in Serving(c, m, NoAddress, now, all)
  <2>1. CASE y.result # OKAY
    BY <1>1, <1>6, <1>7, <1>8, <2>1 DEF schedule_msgtlv_consumer
  <2>2. CASE y.result = OKAY
    <3>1. z = schedule_tlvblock(y, c, tlvs, 0)
      BY <1>1, <1>6, <1>8, <2>2 DEF schedule_msgtlv_consumer
    <3> QED BY <1>5, <1>7, <2>2, <3>1, TlvblockServing
  <2> QED BY <2>1, <2>2
<1>10. z \in Ready(m, now, all)
  BY <1>9, ServingReady
<1> QED BY <1>8, <1>10 DEF now, all

\* Nothing of a message is hidden from the end of it, and from its forwarding.
LEMMA EndIsShown ==
  ASSUME NEW r \in Callbacks, r.addr = NoAddress, r.cb \in {"end", "forward"}, NEW q
  PROVE  Hides(q, r)
BY DEF Hides

\* The end of a message for one consumer.
LEMMA EndReady ==
  ASSUME NEW c \in Consumers, NEW m, NEW open, <<c, m, NoAddress>> \in open,
         NEW seen, <<c, NoAddress>> \in seen,
         NEW s \in Ready(m, open, seen), s.addr = NoAddress
  PROVE  /\ CallEnd(s, c) \in Ready(m, open \ {<<c, m, NoAddress>>}, seen)
         /\ CallEnd(s, c).addr = NoAddress
<1>1. s \in States /\ s.message = m /\ Sound(s, open)
  BY DEF Ready
<1>2. ASSUME NEW r \in Callbacks, r.consumer = c, r.message = m, r.addr = NoAddress, r.cb = "end"
      PROVE  \A q \in Range(s.log) : Hides(q, r)
  BY <1>2, EndIsShown
<1>3. PICK x : x = Call(s, c, "end", s.result # OKAY)
  OBVIOUS
<1>4. PICK d \in BOOLEAN : d = (s.result # OKAY)
  OBVIOUS
<1>5. x = Call(s, c, "end", d)
  BY <1>3, <1>4
<1>6. /\ x \in States /\ x.message = m /\ x.addr = NoAddress
      /\ x.dropTlv = s.dropTlv /\ x.dropAddr = s.dropAddr
      /\ Sound(x, open \ {<<c, m, NoAddress>>})
      /\ \/ x = s
         \/ \E r \in Callbacks : /\ r.consumer = c /\ r.message = m /\ r.addr = NoAddress /\ r.cb = "end"
                                 /\ r.answer = x.result
                                 /\ Now(x) = Now(s) \cup {r}
  <2>1. PICK a : a = NoAddress
    OBVIOUS
  <2>2. \A r \in Callbacks : r.consumer = c /\ r.message = m /\ r.addr = a /\ r.cb = "end" =>
                               \A q \in Range(s.log) : Hides(q, r)
    BY <1>2, <2>1
  <2>3. s.addr = a /\ <<c, m, a>> \in open
    BY <2>1
  <2> DEFINE EndMade(b) ==
        /\ x \in States /\ x.message = m /\ x.addr = b
        /\ x.dropTlv = s.dropTlv /\ x.dropAddr = s.dropAddr
        /\ Sound(x, open \ {<<c, m, b>>})
        /\ \/ x = s
           \/ \E r \in Callbacks : /\ r.consumer = c /\ r.message = m /\ r.addr = b /\ r.cb = "end"
                                   /\ r.answer = x.result
                                   /\ Now(x) = Now(s) \cup {r}
  <2>4. EndMade(a)
    BY <1>1, <1>5, <2>2, <2>3, EndSound
  <2> HIDE DEF EndMade
  <2>5. EndMade(NoAddress)
    BY <2>1, <2>4
  <2> QED BY <2>5 DEF EndMade
<1>7. PICK t : t = CallEnd(s, c)
  OBVIOUS
<1>8. /\ t \in States /\ t.log = x.log /\ t.message = m /\ t.addr = NoAddress
      /\ t.dropTlv = s.dropTlv /\ t.dropAddr = s.dropAddr
      /\ t.result \in Int /\ t.result >= x.result /\ t.result >= s.result
  BY <1>1, <1>3, <1>6, <1>7, CallEndRaises
<1>9. Sound(t, open \ {<<c, m, NoAddress>>}) /\ Now(t) = Now(x)
  BY <1>6, <1>8 DEF Sound, Now
<1>10. PICK u \in Int, v \in Int, w \in Int : u = s.result /\ v = x.result /\ w = t.result
  BY <1>1, <1>6, <1>8 DEF States
<1>11. w >= u /\ w >= v
  BY <1>8, <1>10
<1>12. ASSUME NEW q \in Now(s), t.result < DROP_ADDRESS PROVE Kept(t, q)
  <2>1. s.result < DROP_ADDRESS
    BY <1>10, <1>11, <1>12 DEF DROP_ADDRESS
  <2>2. Kept(s, q)
    BY <2>1 DEF Ready
  <2> QED BY <1>8, <2>2 DEF Kept
<1>13. ASSUME NEW q \in Now(t), q \notin Now(s)
       PROVE  q.consumer = c /\ q.addr = NoAddress /\ q.cb = "end" /\ q.answer = x.result
  BY <1>6, <1>9, <1>13
<1>14. ASSUME NEW q \in Now(t), q \notin Now(s), t.result < DROP_ADDRESS PROVE Kept(t, q)
  <2>1. q.answer = v /\ q.cb # "tlv" /\ q.addr = NoAddress
    BY <1>10, <1>13, <1>14
  <2>2. w < 2
    BY <1>10, <1>14 DEF DROP_ADDRESS
  <2>3. v \notin {3, 4}
    BY <1>11, <2>2
  <2> QED BY <2>1, <2>3 DEF Kept, DROP_MESSAGE, DROP_MSG_BUT_FORWARD
<1>15. ASSUME NEW q \in Now(t)
       PROVE  (t.result < DROP_ADDRESS => Kept(t, q)) /\ <<q.consumer, q.addr>> \in seen
  <2>1. CASE q \in Now(s)
    BY <1>12, <2>1 DEF Ready
  <2>2. CASE q \notin Now(s)
    BY <1>13, <1>14, <2>2
  <2> QED BY <2>1, <2>2
<1> QED BY <1>7, <1>8, <1>9, <1>15 DEF Ready

\* What the first consumers of a group have open.
Opened(m, group, k) == {<<group[i], m, NoAddress>> : i \in 1..k}

\* schedule_end_message_cbs() closes what a group has open.
LEMMA EndGroupReady ==
  ASSUME NEW group \in Seq(Consumers), Once(group), NEW m,
         NEW base, \A c \in Consumers : <<c, m, NoAddress>> \notin base,
         NEW seen, \A c \in Range(group) : <<c, NoAddress>> \in seen,
         NEW s \in Ready(m, base \cup Opened(m, group, Len(group)), seen)
  PROVE  schedule_end_message_cbs(s, group) \in Ready(m, base, seen)
<1> DEFINE n == Len(group)
           S == [k \in 0..n |-> {z \in Ready(m, base \cup Opened(m, group, n - k), seen) : z.addr = NoAddress}]
           F == [k \in 1..n |-> [x \in S[k - 1] |-> CallEnd(x, group[Len(group) + 1 - k])]]
           Is(f) == f = [k \in 0..n |-> IF k = 0 THEN [s EXCEPT !.addr = NoAddress] ELSE CallEnd(f[k - 1], group[Len(group) + 1 - k])]
           turn == CHOOSE f : Is(f)
<1>1. schedule_end_message_cbs(s, group) = turn[n]
  BY DEF schedule_end_message_cbs
<1>2. n \in Nat /\ 0 \in 0..n /\ n \in 0..n
      /\ \A k \in 1..n : k - 1 \in 0..n /\ k \in 0..n /\ k # 0
  BY LenProperties
<1>3. \A k \in 0..n : S[k] = {z \in Ready(m, base \cup Opened(m, group, n - k), seen) : z.addr = NoAddress}
  OBVIOUS
<1> HIDE DEF n, S
<1>4. [s EXCEPT !.addr = NoAddress] \in S[0]
  <2>1. s \in States /\ NoAddress \in Addresses
    BY DEF Ready, NoAddress, Addresses
  <2>2. PICK z : z = [s EXCEPT !.addr = NoAddress]
    OBVIOUS
  <2>3. /\ z \in States /\ z.log = s.log /\ z.result = s.result /\ z.message = s.message
        /\ z.addr = NoAddress /\ z.dropTlv = s.dropTlv /\ z.dropAddr = s.dropAddr
    BY <2>1, <2>2 DEF States
  <2>4. z \in Ready(m, base \cup Opened(m, group, n), seen)
    BY <2>3 DEF Ready, Sound, Now, Kept, n
  <2>5. n - 0 = n
    BY <1>2
  <2> QED BY <1>2, <1>3, <2>2, <2>3, <2>4, <2>5
<1>5. ASSUME NEW k \in 1..n, NEW x \in S[k - 1]
      PROVE  CallEnd(x, group[Len(group) + 1 - k]) \in S[k]
  <2>1. PICK i : i = n + 1 - k
    OBVIOUS
  <2>2. i \in 1..n /\ n - (k - 1) = i /\ n - k = i - 1
    BY <1>2, <2>1
  <2>3. x \in Ready(m, base \cup Opened(m, group, i), seen) /\ x.addr = NoAddress
    <3>1. PICK j : j = k - 1
      OBVIOUS
    <3>2. S[j] = {z \in Ready(m, base \cup Opened(m, group, n - j), seen) : z.addr = NoAddress}
      BY <1>2, <1>3, <3>1
    <3>3. n - j = i /\ x \in S[j]
      BY <2>2, <3>1
    <3> QED BY <3>2, <3>3
  <2>4. PICK c : c = group[i]
    OBVIOUS
  <2>5. c \in Consumers /\ c \in Range(group)
    <3>1. group[i] \in Consumers
      BY <2>2, ElementOfSeq DEF n
    <3>2. DOMAIN group = 1..n
      BY LenProperties DEF n
    <3> QED BY <2>2, <2>4, <3>1, <3>2 DEF Range
  <2>6. <<c, m, NoAddress>> \in Opened(m, group, i)
    <3>1. i \in 1..i
      BY <2>2
    <3> QED BY <2>4, <3>1 DEF Opened
  <2>7. Opened(m, group, i) \ {<<c, m, NoAddress>>} = Opened(m, group, i - 1)
    <3>1. \A j \in 1..i : group[j] = c => j = i
      BY <1>2, <2>2, <2>4 DEF Once, n
    <3>2. \A j : j \in 1..i <=> j \in 1..(i - 1) \/ j = i
      BY <1>2, <2>2
    <3>3. ~ (i \in 1..(i - 1))
      BY <1>2, <2>2
    <3> QED BY <2>4, <3>1, <3>2, <3>3 DEF Opened
  <2>8. <<c, m, NoAddress>> \notin base
    BY <2>5
  <2>9. (base \cup Opened(m, group, i)) \ {<<c, m, NoAddress>>} = base \cup Opened(m, group, i - 1)
    BY <2>7, <2>8
  <2>10. /\ CallEnd(x, c) \in Ready(m, base \cup Opened(m, group, i - 1), seen)
         /\ CallEnd(x, c).addr = NoAddress
    <3>1. <<c, NoAddress>> \in seen
      BY <2>5
    <3>2. PICK o : o = base \cup Opened(m, group, i)
      OBVIOUS
    <3>3. x \in Ready(m, o, seen) /\ <<c, m, NoAddress>> \in o
      BY <2>3, <2>6, <3>2
    <3>4. CallEnd(x, c) \in Ready(m, o \ {<<c, m, NoAddress>>}, seen) /\ CallEnd(x, c).addr = NoAddress
      BY <2>3, <2>5, <3>1, <3>3, EndReady
    <3> QED BY <2>9, <3>2, <3>4
  <2>11. group[Len(group) + 1 - k] = c
    BY <2>1, <2>4 DEF n
  <2> QED BY <1>2, <1>3, <2>2, <2>10, <2>11
<1>6. PICK g : IsWalk(g, S, [s EXCEPT !.addr = NoAddress], n, F)
  <2>1. \A k \in 1..n : F[k] \in [S[k - 1] -> S[k]]
    BY <1>5
  <2> HIDE DEF F
  <2> QED BY <1>2, <1>4, <2>1, WalkThrough
<1>7. \A k \in 1..n : g[k] = CallEnd(g[k - 1], group[Len(group) + 1 - k])
  BY <1>2, <1>6 DEF IsWalk
<1>8. Is(g)
  <2>1. \A k \in 0..n : k = 0 \/ k \in 1..n
    BY <1>2
  <2> HIDE DEF F
  <2> QED BY <1>6, <1>7, <2>1 DEF IsWalk
<1>9. Is(turn)
  BY <1>8 DEF turn
<1> HIDE DEF turn
<1>10. turn[0] = [s EXCEPT !.addr = NoAddress] /\ \A k \in 1..n : turn[k] = CallEnd(turn[k - 1], group[Len(group) + 1 - k])
  <2>1. \A k \in 0..n : turn[k] = IF k = 0 THEN [s EXCEPT !.addr = NoAddress] ELSE CallEnd(turn[k - 1], group[Len(group) + 1 - k])
    BY <1>9
  <2> QED BY <1>2, <2>1
<1>11. turn[n] \in S[n]
  <2>1. turn[0] \in S[0] /\ \A k \in 1..n : turn[k - 1] \in S[k - 1] => turn[k] \in S[k]
    BY <1>4, <1>5, <1>10
  <2> HIDE DEF Is, F
  <2> QED BY <1>2, <2>1, StaysAlong
<1>12. turn[n] \in Ready(m, base \cup Opened(m, group, n - n), seen)
  BY <1>2, <1>3, <1>11
<1>13. Opened(m, group, n - n) = {}
  <2>1. 1..(n - n) = {}
    BY <1>2
  <2> QED BY <2>1 DEF Opened
<1> QED BY <1>1, <1>12, <1>13

\* In the loop over the consumers: those in P have been served, and those of the
\* group have their end still to come.
Looping(m, base, P) ==
  {x \in [s : States, group : Seq(Consumers)] :
     /\ Once(x.group) /\ Range(x.group) \subseteq P
     /\ x.s \in Ready(m, base \cup Opened(m, x.group, Len(x.group)), P \X Addresses)}

\* One consumer is served.
LEMMA ServeLooping ==
  ASSUME NEW P, NEW c \in Consumers, c \notin P, NEW m,
         NEW base, \A e \in Consumers, d \in Addresses : <<e, m, d>> \notin base,
         NEW msg, WellFormed(msg),
         NEW group \in Seq(Consumers), Once(group), Range(group) \subseteq P,
         NEW s \in Ready(m, base \cup Opened(m, group, Len(group)), P \X Addresses),
         s.result = OKAY \/ group = <<>>
  PROVE  Serve(s, group, c, msg) \in Looping(m, base, P \cup {c})
<1> DEFINE open == base \cup Opened(m, group, Len(group))
           Q == P \cup {c}
<1>1. /\ \A d \in Addresses : <<c, d>> \notin P \X Addresses
      /\ (P \X Addresses) \cup ({c} \X Addresses) = Q \X Addresses
      /\ P \X Addresses \subseteq Q \X Addresses
      /\ NoAddress \in Addresses
  BY DEF NoAddress, Addresses
<1>2. \A z \in Ready(m, open, Q \X Addresses) : [s |-> z, group |-> group] \in Looping(m, base, Q)
  <2>1. \A z \in Ready(m, open, Q \X Addresses) : z \in States
    BY DEF Ready
  <2>2. Range(group) \subseteq Q
    OBVIOUS
  <2> HIDE DEF Q
  <2> QED BY <2>1, <2>2 DEF Looping
<1>3. s \in Ready(m, open, P \X Addresses)
  OBVIOUS
<1> HIDE DEF open
<1>4. CASE s.result # OKAY
  <2>1. Serve(s, group, c, msg) = [s |-> s, group |-> group]
    BY <1>4 DEF Serve
  <2>2. s \in Ready(m, open, Q \X Addresses)
    BY <1>1, <1>3, ReadyGrows
  <2> QED BY <1>2, <2>1, <2>2
<1>5. CASE s.result = OKAY /\ ConsumerOf[c].kind = "address"
  <2>1. PICK z : z = schedule_msgaddr_consumer(s, c, msg.blocks)
    OBVIOUS
  <2>2. Serve(s, group, c, msg) = [s |-> z, group |-> group]
    BY <1>5, <2>1 DEF Serve
  <2>3. \A d \in Addresses : d # NoAddress => <<c, m, d>> \notin open
    BY DEF open, Opened
  <2>4. PICK seen : seen = P \X Addresses
    OBVIOUS
  <2>5. z \in Ready(m, open, seen \cup ({c} \X Addresses))
    BY <1>1, <1>3, <1>5, <2>1, <2>3, <2>4, MsgaddrReady
  <2> QED BY <1>1, <1>2, <2>2, <2>4, <2>5
<1>6. CASE s.result = OKAY /\ ConsumerOf[c].kind # "address"
  <2>1. PICK z : z = schedule_msgtlv_consumer(s, c, msg.tlvs)
    OBVIOUS
  <2>2. PICK g : g = Append(group, c)
    OBVIOUS
  <2>3. Serve(s, group, c, msg) = [s |-> z, group |-> g]
    BY <1>6, <2>1, <2>2 DEF Serve
  <2>4. PICK seen : seen = P \X Addresses
    OBVIOUS
  <2>5. z \in Ready(m, open \cup {<<c, m, NoAddress>>}, seen \cup {<<c, NoAddress>>})
    <3>1. Len(msg.tlvs) \in Nat
      BY DEF WellFormed
    <3>2. <<c, NoAddress>> \notin seen
      BY <1>1, <2>4
    <3> QED BY <1>3, <1>6, <2>1, <2>4, <3>1, <3>2, MsgtlvReady
  <2>6. /\ Len(group) \in Nat /\ DOMAIN group = 1..Len(group)
        /\ g \in Seq(Consumers) /\ Len(g) = Len(group) + 1
        /\ \A i \in 1..Len(group) : g[i] = group[i]
        /\ g[Len(group) + 1] = c
    BY <2>2, AppendProperties, LenProperties
  <2>7. \A i : i \in 1..(Len(group) + 1) <=> i \in 1..Len(group) \/ i = Len(group) + 1
    BY <2>6
  <2>8. Once(g)
    <3>1. ~ Contains(group, c)
      BY <2>6 DEF Contains, Range
    <3> QED BY <2>2, <3>1, AppendOnce
  <2>9. DOMAIN g = 1..(Len(group) + 1)
    BY <2>6, LenProperties
  <2>10. Range(g) \subseteq Q
    BY <2>6, <2>7, <2>9 DEF Range
  <2>11. Opened(m, g, Len(g)) = Opened(m, group, Len(group)) \cup {<<c, m, NoAddress>>}
    BY <2>6, <2>7 DEF Opened
  <2>12. seen \cup {<<c, NoAddress>>} \subseteq Q \X Addresses
    BY <1>1, <2>4
  <2>13. open \cup {<<c, m, NoAddress>>} = base \cup Opened(m, g, Len(g))
    BY <2>11 DEF open
  <2>14. PICK o : o = base \cup Opened(m, g, Len(g))
    OBVIOUS
  <2>15. z \in Ready(m, o, Q \X Addresses)
    BY <2>5, <2>12, <2>13, <2>14, ReadyGrows
  <2>16. z \in States
    BY <2>15 DEF Ready
  <2> HIDE DEF Q
  <2>17. [s |-> z, group |-> g] \in Looping(m, base, Q)
    BY <2>6, <2>8, <2>10, <2>14, <2>15, <2>16 DEF Looping
  <2> QED BY <2>3, <2>17 DEF Q
<1> QED BY <1>4, <1>5, <1>6

\* The end of a group.
LEMMA GroupEnds ==
  ASSUME NEW P, NEW m, NEW base, \A e \in Consumers, d \in Addresses : <<e, m, d>> \notin base,
         NEW x \in Looping(m, base, P)
  PROVE  EndGroup(x) \in Ready(m, base, P \X Addresses)
<1>1. /\ x.group \in Seq(Consumers) /\ Once(x.group) /\ Range(x.group) \subseteq P
      /\ x.s \in Ready(m, base \cup Opened(m, x.group, Len(x.group)), P \X Addresses)
  BY DEF Looping
<1>2. NoAddress \in Addresses
  BY DEF NoAddress, Addresses
<1>3. PICK group \in Seq(Consumers) : group = x.group
  BY <1>1
<1>4. \A c \in Range(group) : <<c, NoAddress>> \in P \X Addresses
  BY <1>1, <1>2, <1>3
<1>5. \A c \in Consumers : <<c, m, NoAddress>> \notin base
  BY <1>2
<1>6. PICK s : s = x.s
  OBVIOUS
<1>7. schedule_end_message_cbs(s, group) \in Ready(m, base, P \X Addresses)
  BY <1>1, <1>3, <1>4, <1>5, <1>6, EndGroupReady
<1> QED BY <1>3, <1>6, <1>7 DEF EndGroup

\* One turn of the loop over the consumers.
LEMMA NextConsumerLooping ==
  ASSUME NEW P, NEW c \in Consumers, c \notin P, NEW m,
         NEW base, \A e \in Consumers, d \in Addresses : <<e, m, d>> \notin base,
         NEW msg, WellFormed(msg), NEW x \in Looping(m, base, P)
  PROVE  NextConsumer(x, c, msg) \in Looping(m, base, P \cup {c})
<1>1. /\ x.group \in Seq(Consumers) /\ Once(x.group) /\ Range(x.group) \subseteq P
      /\ x.s \in Ready(m, base \cup Opened(m, x.group, Len(x.group)), P \X Addresses)
      /\ x.s \in States /\ x = [s |-> x.s, group |-> x.group]
  BY DEF Looping
<1>2. CASE x.s.result # OKAY \/ ConsumerOf[c].type \notin {0, msg.type}
  <2>1. PICK o, z : o = base \cup Opened(m, x.group, Len(x.group)) /\ z = x.s
    OBVIOUS
  <2>2. P \X Addresses \subseteq (P \cup {c}) \X Addresses
    OBVIOUS
  <2>3. z \in Ready(m, o, (P \cup {c}) \X Addresses)
    BY <1>1, <2>1, <2>2, ReadyGrows
  <2>4. x \in Looping(m, base, P \cup {c})
    BY <1>1, <2>1, <2>3 DEF Looping
  <2> QED BY <1>2, <2>4 DEF NextConsumer
<1>3. CASE ~ (x.s.result # OKAY \/ ConsumerOf[c].type \notin {0, msg.type}) /\ Closes(x, c)
  <2>1. PICK z, g : z = EndGroup(x) /\ g = <<>>
    OBVIOUS
  <2>2. NextConsumer(x, c, msg) = Serve(z, g, c, msg)
    BY <1>3, <2>1 DEF NextConsumer
  <2>3. z \in Ready(m, base, P \X Addresses)
    BY <2>1, GroupEnds
  <2>4. g \in Seq(Consumers) /\ Len(g) = 0 /\ DOMAIN g = {}
    BY <2>1
  <2>5. Once(g) /\ Range(g) \subseteq P /\ Opened(m, g, Len(g)) = {}
    BY <2>4 DEF Once, Range, Opened
  <2>6. z \in Ready(m, base \cup Opened(m, g, Len(g)), P \X Addresses)
    BY <2>3, <2>5
  <2>7. Serve(z, g, c, msg) \in Looping(m, base, P \cup {c})
    BY <2>1, <2>4, <2>5, <2>6, ServeLooping
  <2> QED BY <2>2, <2>7
<1>4. CASE ~ (x.s.result # OKAY \/ ConsumerOf[c].type \notin {0, msg.type}) /\ ~ Closes(x, c)
  <2>1. PICK z, g : z = x.s /\ g = x.group
    OBVIOUS
  <2>2. NextConsumer(x, c, msg) = Serve(z, g, c, msg)
    BY <1>4, <2>1 DEF NextConsumer
  <2>3. Serve(z, g, c, msg) \in Looping(m, base, P \cup {c})
    BY <1>1, <1>4, <2>1, ServeLooping
  <2> QED BY <2>2, <2>3
<1> QED BY <1>2, <1>3, <1>4

\* The first message consumers.
Served(k) == {message_consumer[j] : j \in 1..k}

\* The loop over the consumers of a message, up to the end of the last group.
LEMMA ScheduleMessageReady ==
  ASSUME message_consumer \in Seq(Consumers), Once(message_consumer), NEW m,
         NEW base, \A e \in Consumers, d \in Addresses : <<e, m, d>> \notin base,
         NEW msg, WellFormed(msg), NEW s \in Ready(m, base, {})
  PROVE  ScheduleMessage(s, msg) \in Ready(m, base, Served(Len(message_consumer)) \X Addresses)
<1> DEFINE n == Len(message_consumer)
           S == [k \in 0..n |-> Looping(m, base, Served(k))]
           F == [k \in 1..n |-> [x \in S[k - 1] |-> NextConsumer(x, message_consumer[k], msg)]]
           Is(f) == f = [k \in 0..n |-> IF k = 0 THEN [s |-> s, group |-> <<>>] ELSE NextConsumer(f[k - 1], message_consumer[k], msg)]
           turn == CHOOSE f : Is(f)
<1>1. ScheduleMessage(s, msg) = EndGroup(turn[n])
  BY DEF ScheduleMessage
<1>2. n \in Nat /\ 0 \in 0..n /\ n \in 0..n
      /\ \A k \in 1..n : k - 1 \in 0..n /\ k \in 0..n /\ k # 0
  BY LenProperties
<1>3. \A k \in 0..n : S[k] = Looping(m, base, Served(k))
  OBVIOUS
<1> HIDE DEF n, S
<1>4. [s |-> s, group |-> <<>>] \in S[0]
  <2>1. PICK g : g = <<>>
    OBVIOUS
  <2>2. g \in Seq(Consumers) /\ Len(g) = 0 /\ DOMAIN g = {}
    BY <2>1
  <2>3. Once(g) /\ Range(g) \subseteq Served(0) /\ Opened(m, g, Len(g)) = {}
    BY <2>2 DEF Once, Range, Opened
  <2>4. s \in Ready(m, base, Served(0) \X Addresses) /\ s \in States
    <3>1. s \in Ready(m, base, Served(0) \X Addresses)
      BY ReadyGrows
    <3> QED BY <3>1 DEF Ready
  <2>5. [s |-> s, group |-> g] \in Looping(m, base, Served(0))
    BY <2>2, <2>3, <2>4 DEF Looping
  <2> QED BY <1>2, <1>3, <2>1, <2>5
<1>5. ASSUME NEW k \in 1..n, NEW x \in S[k - 1]
      PROVE  NextConsumer(x, message_consumer[k], msg) \in S[k]
  <2>1. x \in Looping(m, base, Served(k - 1))
    <3>1. k - 1 \in 0..n
      BY <1>2
    <3>2. S[k - 1] = Looping(m, base, Served(k - 1))
      BY <1>3, <3>1
    <3> QED BY <3>2
  <2>2. PICK c : c = message_consumer[k]
    OBVIOUS
  <2>3. c \in Consumers
    BY <2>2, ElementOfSeq DEF n
  <2>4. c \notin Served(k - 1) /\ Served(k - 1) \cup {c} = Served(k)
    <3>1. \A j : j \in 1..k <=> j \in 1..(k - 1) \/ j = k
      BY <1>2
    <3>2. \A j \in 1..(k - 1) : j \in 1..n /\ j # k
      BY <1>2
    <3>3. \A j \in 1..(k - 1) : message_consumer[j] # c
      BY <1>2, <2>2, <3>2 DEF Once, n
    <3> QED BY <2>2, <3>1, <3>3 DEF Served
  <2>5. PICK P : P = Served(k - 1)
    OBVIOUS
  <2>6. NextConsumer(x, c, msg) \in Looping(m, base, P \cup {c})
    BY <2>1, <2>3, <2>4, <2>5, NextConsumerLooping
  <2> QED BY <1>2, <1>3, <2>2, <2>4, <2>5, <2>6
<1>6. PICK g : IsWalk(g, S, [s |-> s, group |-> <<>>], n, F)
  <2>1. \A k \in 1..n : F[k] \in [S[k - 1] -> S[k]]
    BY <1>5
  <2> HIDE DEF F
  <2> QED BY <1>2, <1>4, <2>1, WalkThrough
<1>7. \A k \in 1..n : g[k] = NextConsumer(g[k - 1], message_consumer[k], msg)
  BY <1>2, <1>6 DEF IsWalk
<1>8. Is(g)
  <2>1. \A k \in 0..n : k = 0 \/ k \in 1..n
    BY <1>2
  <2> HIDE DEF F
  <2> QED BY <1>6, <1>7, <2>1 DEF IsWalk
<1>9. Is(turn)
  BY <1>8 DEF turn
<1> HIDE DEF turn
<1>10. turn[0] = [s |-> s, group |-> <<>>] /\ \A k \in 1..n : turn[k] = NextConsumer(turn[k - 1], message_consumer[k], msg)
  <2>1. \A k \in 0..n : turn[k] = IF k = 0 THEN [s |-> s, group |-> <<>>] ELSE NextConsumer(turn[k - 1], message_consumer[k], msg)
    BY <1>9
  <2> QED BY <1>2, <2>1
<1>11. turn[n] \in S[n]
  <2>1. turn[0] \in S[0] /\ \A k \in 1..n : turn[k - 1] \in S[k - 1] => turn[k] \in S[k]
    BY <1>4, <1>5, <1>10
  <2> HIDE DEF Is, F
  <2> QED BY <1>2, <2>1, StaysAlong
<1>12. PICK z, P : z = turn[n] /\ P = Served(n)
  OBVIOUS
<1>13. z \in Looping(m, base, P)
  BY <1>2, <1>3, <1>11, <1>12
<1>14. EndGroup(z) \in Ready(m, base, P \X Addresses)
  BY <1>13, GroupEnds
<1> QED BY <1>1, <1>12, <1>14 DEF n

-----------------------------------------------------------------------------
(* The messages of a packet, and the packet. *)

\* Between two messages.
Between(base) == {s \in States : Sound(s, base)}

\* What the packet has open belongs to no message.
OfPacket(base) == \A k \in base : k[1] \in Consumers /\ k[2] = 0

\* The end of a message.
LEMMA ForwardMessageBetween ==
  ASSUME NEW base, OfPacket(base), NEW s \in Between(base), s.message # 0, NEW msg
  PROVE  ForwardMessage(s, msg) \in Between(base)
<1>1. /\ s \in States /\ Silent(s.log) /\ Balanced(s.log, base) /\ s.log \in Seq(Callbacks)
      /\ s.message \in Nat /\ \A r \in Range(s.log) : r.message <= s.message
  BY DEF Between, Sound, States
<1> DEFINE forwarded == s.result \in {OKAY, DROP_MSG_BUT_FORWARD} /\ msg.hoplimit > 1
           r == [consumer |-> "reader", cb |-> "forward", message |-> s.message, addr |-> NoAddress,
                 detail |-> 0, answer |-> OKAY]
<1>2. PICK x : x = IF forwarded THEN [s EXCEPT !.log = Append(@, r)] ELSE s
  OBVIOUS
<1>3. ForwardMessage(s, msg) = IF x.result = DROP_MESSAGE THEN [x EXCEPT !.result = OKAY] ELSE x
  BY <1>2 DEF ForwardMessage
<1>4. OKAY \in Int /\ NoAddress \in Addresses /\ 0 \in Details
  BY DEF OKAY, NoAddress, Addresses, Details
<1>5. "forward" \in CallbackNames
  BY DEF CallbackNames
<1>6. r \in Callbacks
  BY <1>1, <1>4, <1>5 DEF Callbacks
<1>7. r.consumer = "reader" /\ r.cb = "forward" /\ r.message = s.message /\ r.addr = NoAddress
  OBVIOUS
<1> HIDE DEF forwarded, r
<1>8. x \in Between(base)
  <2>1. CASE ~ forwarded
    BY <1>2, <2>1
  <2>2. CASE forwarded
    <3>1. PICK l : l = Append(s.log, r)
      OBVIOUS
    <3>2. l \in Seq(Callbacks) /\ Range(l) = Range(s.log) \cup {r}
      BY <1>1, <1>6, <3>1, AppendCallback
    <3>3. x = [s EXCEPT !.log = l]
      BY <1>2, <2>2, <3>1
    <3>4. x \in States /\ x.log = l /\ x.message = s.message
      BY <1>1, <3>2, <3>3 DEF States
    <3>5. \A q \in Range(s.log) : Hides(q, r)
      BY <1>6, <1>7, EndIsShown
    <3>6. Silent(l)
      BY <1>1, <1>6, <3>1, <3>5, SilentAppend
    <3>7. Key(r) \notin base
      BY <1>1, <1>7 DEF OfPacket, Key
    <3>8. Balanced(l, base)
      BY <1>1, <1>6, <1>7, <3>1, <3>7, BalancedForward
    <3>9. \A q \in Range(l) : q.message <= s.message
      BY <1>1, <1>7, <3>2
    <3> QED BY <3>4, <3>6, <3>8, <3>9 DEF Between, Sound
  <2> QED BY <2>1, <2>2
<1>9. x \in States
  BY <1>8 DEF Between
<1>10. PICK y : y = [x EXCEPT !.result = OKAY]
  OBVIOUS
<1>11. y \in States /\ y.log = x.log /\ y.message = x.message
  BY <1>4, <1>9, <1>10 DEF States
<1>12. y \in Between(base)
  BY <1>8, <1>11 DEF Between, Sound
<1> QED BY <1>3, <1>8, <1>10, <1>12

\* _handle_message()
LEMMA HandleMessageBetween ==
  ASSUME message_consumer \in Seq(Consumers), Once(message_consumer),
         NEW base, OfPacket(base), NEW s \in Between(base), NEW msg, msg = Bad \/ WellFormed(msg)
  PROVE  handle_message(s, msg) \in Between(base)
<1>1. s \in States /\ Sound(s, base) /\ s.message \in Nat
      /\ \A r \in Range(s.log) : r.message <= s.message
  BY DEF Between, Sound, States
<1>2. s.log \in Seq(Callbacks)
  BY <1>1 DEF States
<1>3. \A r \in Range(s.log) : r.message \in Nat
  <2>1. DOMAIN s.log = 1..Len(s.log)
    BY <1>2, LenProperties
  <2>2. \A i \in 1..Len(s.log) : s.log[i] \in Callbacks
    BY <1>2, ElementOfSeq
  <2> QED BY <2>1, <2>2 DEF Range, Callbacks
<1>4. PICK m : m = s.message + 1
  OBVIOUS
<1>5. PICK x : x = [s EXCEPT !.message = m, !.addr = NoAddress]
  OBVIOUS
<1>6. m \in Nat /\ m # 0 /\ NoAddress \in Addresses
  BY <1>1, <1>4 DEF NoAddress, Addresses
<1>7. x \in States /\ x.log = s.log /\ x.message = m /\ x.result = s.result
  BY <1>1, <1>5, <1>6 DEF States
<1>8. \A r \in Range(x.log) : r.message <= m /\ r.message # m
  BY <1>1, <1>3, <1>4, <1>7
<1>9. Sound(x, base) /\ Now(x) = {}
  BY <1>1, <1>7, <1>8 DEF Sound, Now
<1>10. handle_message(s, msg) =
         IF s.result # OKAY THEN s
         ELSE IF msg = Bad THEN [x EXCEPT !.result = PARSE_ERROR]
         ELSE ForwardMessage(ScheduleMessage(x, msg), msg)
  BY <1>1, <1>4, <1>5 DEF handle_message
<1>11. [x EXCEPT !.result = PARSE_ERROR] \in Between(base)
  <2>1. PICK y : y = [x EXCEPT !.result = PARSE_ERROR]
    OBVIOUS
  <2>2. PARSE_ERROR \in Int
    BY DEF PARSE_ERROR
  <2>3. y \in States /\ y.log = x.log /\ y.message = x.message
    BY <1>7, <2>1, <2>2 DEF States
  <2> QED BY <1>9, <2>1, <2>3 DEF Between, Sound
<1>12. ASSUME WellFormed(msg) PROVE ForwardMessage(ScheduleMessage(x, msg), msg) \in Between(base)
  <2>1. x \in Ready(m, base, {})
    BY <1>7, <1>9 DEF Ready
  <2>2. \A e \in Consumers, d \in Addresses : <<e, m, d>> \notin base
    BY <1>6 DEF OfPacket
  <2>3. PICK z : z = ScheduleMessage(x, msg)
    OBVIOUS
  <2>4. z \in Ready(m, base, Served(Len(message_consumer)) \X Addresses)
    BY <1>12, <2>1, <2>2, <2>3, ScheduleMessageReady
  <2>5. z \in Between(base) /\ z.message # 0
    BY <1>6, <2>4 DEF Ready, Between
  <2> QED BY <2>3, <2>5, ForwardMessageBetween
<1> QED BY <1>10, <1>11, <1>12

\* One message after the other.
LEMMA HandleMessagesBetween ==
  ASSUME message_consumer \in Seq(Consumers), Once(message_consumer),
         NEW base, OfPacket(base), NEW s \in Between(base),
         NEW msgs, Len(msgs) \in Nat, \A k \in 1..Len(msgs) : msgs[k] = Bad \/ WellFormed(msgs[k])
  PROVE  handle_messages(s, msgs) \in Between(base)
<1> DEFINE n == Len(msgs)
           S == [k \in 0..n |-> Between(base)]
           F == [k \in 1..n |-> [x \in S[k - 1] |-> handle_message(x, msgs[k])]]
           Is(f) == f = [k \in 0..n |-> IF k = 0 THEN s ELSE handle_message(f[k - 1], msgs[k])]
           turn == CHOOSE f : Is(f)
<1>1. handle_messages(s, msgs) = turn[n]
  BY DEF handle_messages
<1>2. n \in Nat /\ 0 \in 0..n /\ n \in 0..n
      /\ \A k \in 1..n : k - 1 \in 0..n /\ k \in 0..n /\ k # 0
  OBVIOUS
<1>3. \A k \in 0..n : S[k] = Between(base)
  OBVIOUS
<1> HIDE DEF n, S
<1>4. s \in S[0]
  BY <1>2, <1>3
<1>5. ASSUME NEW k \in 1..n, NEW x \in S[k - 1]
      PROVE  handle_message(x, msgs[k]) \in S[k]
  <2>1. x \in Between(base)
    BY <1>2, <1>3
  <2>2. PICK msg : msg = msgs[k]
    OBVIOUS
  <2>3. msg = Bad \/ WellFormed(msg)
    BY <2>2 DEF n
  <2>4. handle_message(x, msg) \in Between(base)
    BY <2>1, <2>3, HandleMessageBetween
  <2> QED BY <1>2, <1>3, <2>2, <2>4
<1>6. PICK g : IsWalk(g, S, s, n, F)
  <2>1. \A k \in 1..n : F[k] \in [S[k - 1] -> S[k]]
    BY <1>5
  <2> HIDE DEF F
  <2> QED BY <1>2, <1>4, <2>1, WalkThrough
<1>7. \A k \in 1..n : g[k] = handle_message(g[k - 1], msgs[k])
  BY <1>2, <1>6 DEF IsWalk
<1>8. Is(g)
  <2>1. \A k \in 0..n : k = 0 \/ k \in 1..n
    BY <1>2
  <2> HIDE DEF F
  <2> QED BY <1>6, <1>7, <2>1 DEF IsWalk
<1>9. Is(turn)
  BY <1>8 DEF turn
<1> HIDE DEF turn
<1>10. turn[0] = s /\ \A k \in 1..n : turn[k] = handle_message(turn[k - 1], msgs[k])
  <2>1. \A k \in 0..n : turn[k] = IF k = 0 THEN s ELSE handle_message(turn[k - 1], msgs[k])
    BY <1>9
  <2> QED BY <1>2, <2>1
<1>11. turn[n] \in S[n]
  <2>1. turn[0] \in S[0] /\ \A k \in 1..n : turn[k - 1] \in S[k - 1] => turn[k] \in S[k]
    BY <1>4, <1>5, <1>10
  <2> HIDE DEF Is, F
  <2> QED BY <1>2, <2>1, StaysAlong
<1> QED BY <1>1, <1>2, <1>3, <1>11

\* While the packet begins: the consumers in P have been called, those that were
\* started have their end still to come.
Beginning(P) ==
  {x \in [s : States, started : Seq(Consumers)] :
     /\ Once(x.started) /\ Range(x.started) \subseteq P
     /\ x.s.addr = NoAddress
     /\ x.s \in Ready(0, Opened(0, x.started, Len(x.started)), P \X Addresses)}

\* The start of the packet for one consumer.
LEMMA NextStartedBeginning ==
  ASSUME NEW P, NEW c \in Consumers, c \notin P, NEW header, Len(header.tlvs) \in Nat,
         NEW x \in Beginning(P)
  PROVE  NextStarted(x, c, header) \in Beginning(P \cup {c})
<1> DEFINE Q == P \cup {c}
<1>1. PICK s, group, open, seen :
        /\ s = x.s /\ group = x.started /\ open = Opened(0, x.started, Len(x.started))
        /\ seen = P \X Addresses
  OBVIOUS
<1>2. /\ group \in Seq(Consumers) /\ Once(group) /\ Range(group) \subseteq P
      /\ s \in States /\ s.addr = NoAddress /\ s \in Ready(0, open, seen)
      /\ open = Opened(0, group, Len(group)) /\ x = [s |-> s, started |-> group]
  BY <1>1 DEF Beginning
<1>3. NoAddress \in Addresses
  BY DEF NoAddress, Addresses
<1>4. /\ <<c, NoAddress>> \notin seen
      /\ seen \cup {<<c, NoAddress>>} \subseteq Q \X Addresses
      /\ Range(group) \subseteq Q /\ c \in Q /\ P \subseteq Q
  BY <1>1, <1>2, <1>3
<1> HIDE DEF Q
<1>5. CASE s.result # OKAY
  <2>1. s \in Ready(0, open, Q \X Addresses)
    BY <1>2, <1>4, ReadyGrows
  <2>2. x \in Beginning(Q)
    BY <1>2, <1>4, <2>1 DEF Beginning
  <2> QED BY <1>1, <1>5, <2>2 DEF NextStarted, Q
<1>6. CASE s.result = OKAY
  <2>1. PICK now, all : now = open \cup {<<c, 0, NoAddress>>} /\ all = seen \cup {<<c, NoAddress>>}
    OBVIOUS
  <2>2. s.message = 0 /\ s.result < DROP_ADDRESS
    BY <1>2, <1>6 DEF Ready, OKAY, DROP_ADDRESS
  <2>3. s \in Serving(c, 0, NoAddress, now, all)
    BY <1>2, <1>4, <2>1, <2>2, OpenServing
  <2>4. <<c, 0, NoAddress>> \in now /\ <<c, NoAddress>> \in all
    BY <2>1
  <2>5. PICK y : y = Call(s, c, "start", 0)
    OBVIOUS
  <2>6. y \in Serving(c, 0, NoAddress, now, all)
    <3>1. 0 \in Details
      BY DEF Details
    <3>2. "start" \in CallbackNames /\ "start" \notin {"tlv", "end"}
      BY DEF CallbackNames
    <3> QED BY <1>6, <2>3, <2>4, <2>5, <3>1, <3>2, ServingCall
  <2>7. PICK z : z = StartPacket(y, c, header)
    OBVIOUS
  <2>8. z \in Serving(c, 0, NoAddress, now, all)
    <3>1. z = y \/ (y.result = OKAY /\ z = schedule_tlvblock(y, c, header.tlvs, 0))
      BY <2>7 DEF StartPacket
    <3> QED BY <2>4, <2>6, <3>1, TlvblockServing
  <2>9. PICK g : g = Append(group, c)
    OBVIOUS
  <2>10. NextStarted(x, c, header) = [s |-> z, started |-> g]
    BY <1>1, <1>6, <2>5, <2>7, <2>9 DEF NextStarted
  <2>11. /\ Len(group) \in Nat /\ DOMAIN group = 1..Len(group)
         /\ g \in Seq(Consumers) /\ Len(g) = Len(group) + 1
         /\ \A i \in 1..Len(group) : g[i] = group[i]
         /\ g[Len(group) + 1] = c
    BY <1>2, <2>9, AppendProperties, LenProperties
  <2>12. \A i : i \in 1..(Len(group) + 1) <=> i \in 1..Len(group) \/ i = Len(group) + 1
    BY <2>11
  <2>13. Once(g)
    <3>1. ~ Contains(group, c)
      BY <1>2, <2>11 DEF Contains, Range
    <3> QED BY <1>2, <2>9, <3>1, AppendOnce
  <2>14. Range(g) \subseteq Q
    <3>1. DOMAIN g = 1..(Len(group) + 1)
      BY <2>11, LenProperties
    <3> QED BY <1>4, <2>11, <2>12, <3>1 DEF Range
  <2>15. Opened(0, g, Len(g)) = now
    BY <1>2, <2>1, <2>11, <2>12 DEF Opened
  <2>16. z \in Ready(0, now, all) /\ z \in States /\ z.addr = NoAddress
    BY <2>8, ServingReady DEF Serving
  <2>17. z \in Ready(0, now, Q \X Addresses)
    BY <1>4, <2>1, <2>16, ReadyGrows
  <2>18. [s |-> z, started |-> g] \in Beginning(Q)
    BY <2>11, <2>13, <2>14, <2>15, <2>16, <2>17 DEF Beginning
  <2> QED BY <2>10, <2>18 DEF Q
<1> QED BY <1>5, <1>6

\* The first packet consumers.
Started(k) == {packet_consumer[j] : j \in 1..k}

\* The start of the packet for all its consumers.
LEMMA BeginPacketBeginning ==
  ASSUME packet_consumer \in Seq(Consumers), Once(packet_consumer),
         NEW header, Len(header.tlvs) \in Nat, NEW script \in Scripts
  PROVE  BeginPacket(header, script) \in Beginning(Started(Len(packet_consumer)))
<1> DEFINE n == Len(packet_consumer)
           S == [k \in 0..n |-> Beginning(Started(k))]
           F == [k \in 1..n |-> [x \in S[k - 1] |-> NextStarted(x, packet_consumer[k], header)]]
           Is(f) == f = [k \in 0..n |-> IF k = 0 THEN [s |-> Handling(script), started |-> <<>>] ELSE NextStarted(f[k - 1], packet_consumer[k], header)]
           turn == CHOOSE f : Is(f)
<1>1. BeginPacket(header, script) = turn[n]
  BY DEF BeginPacket
<1>2. n \in Nat /\ 0 \in 0..n /\ n \in 0..n
      /\ \A k \in 1..n : k - 1 \in 0..n /\ k \in 0..n /\ k # 0
  BY LenProperties
<1>3. \A k \in 0..n : S[k] = Beginning(Started(k))
  OBVIOUS
<1> HIDE DEF n, S
<1>4. [s |-> Handling(script), started |-> <<>>] \in S[0]
  <2>1. PICK g, s : g = <<>> /\ s = Handling(script)
    OBVIOUS
  <2>2. g \in Seq(Consumers) /\ Len(g) = 0 /\ DOMAIN g = {}
    BY <2>1
  <2>3. Once(g) /\ Range(g) \subseteq Started(0) /\ Opened(0, g, Len(g)) = {}
    BY <2>2 DEF Once, Range, Opened
  <2>4. NoAddress \in Addresses /\ OKAY \in Int
    BY DEF NoAddress, Addresses, OKAY
  <2>5. PICK l : l = <<>>
    OBVIOUS
  <2>6. l \in Seq(Callbacks) /\ Len(l) = 0 /\ Range(l) = {}
    BY <2>5 DEF Range
  <2>7. s = [script |-> script, log |-> l, result |-> OKAY, message |-> 0, addr |-> NoAddress,
             dropTlv |-> {}, dropAddr |-> {}]
    BY <2>1, <2>5 DEF Handling
  <2>8. s \in States /\ s.log = l /\ s.message = 0 /\ s.addr = NoAddress
    BY <2>4, <2>6, <2>7 DEF States
  <2>9. s \in Ready(0, {}, Started(0) \X Addresses)
    <3>1. Silent(l) /\ Balanced(l, {})
      BY <2>6 DEF Silent, Balanced
    <3>2. Sound(s, {}) /\ Now(s) = {}
      BY <2>6, <2>8, <3>1 DEF Sound, Now
    <3> QED BY <2>8, <3>2 DEF Ready
  <2>10. [s |-> s, started |-> g] \in Beginning(Started(0))
    BY <2>2, <2>3, <2>8, <2>9 DEF Beginning
  <2> QED BY <1>2, <1>3, <2>1, <2>10
<1>5. ASSUME NEW k \in 1..n, NEW x \in S[k - 1]
      PROVE  NextStarted(x, packet_consumer[k], header) \in S[k]
  <2>1. x \in Beginning(Started(k - 1))
    <3>1. k - 1 \in 0..n
      BY <1>2
    <3>2. S[k - 1] = Beginning(Started(k - 1))
      BY <1>3, <3>1
    <3> QED BY <3>2
  <2>2. PICK c : c = packet_consumer[k]
    OBVIOUS
  <2>3. c \in Consumers
    BY <2>2, ElementOfSeq DEF n
  <2>4. c \notin Started(k - 1) /\ Started(k - 1) \cup {c} = Started(k)
    <3>1. \A j : j \in 1..k <=> j \in 1..(k - 1) \/ j = k
      BY <1>2
    <3>2. \A j \in 1..(k - 1) : j \in 1..n /\ j # k
      BY <1>2
    <3>3. \A j \in 1..(k - 1) : packet_consumer[j] # c
      BY <1>2, <2>2, <3>2 DEF Once, n
    <3> QED BY <2>2, <3>1, <3>3 DEF Started
  <2>5. PICK P : P = Started(k - 1)
    OBVIOUS
  <2>6. NextStarted(x, c, header) \in Beginning(P \cup {c})
    BY <2>1, <2>3, <2>4, <2>5, NextStartedBeginning
  <2> QED BY <1>2, <1>3, <2>2, <2>4, <2>5, <2>6
<1>6. PICK g : IsWalk(g, S, [s |-> Handling(script), started |-> <<>>], n, F)
  <2>1. \A k \in 1..n : F[k] \in [S[k - 1] -> S[k]]
    BY <1>5
  <2> HIDE DEF F
  <2> QED BY <1>2, <1>4, <2>1, WalkThrough
<1>7. \A k \in 1..n : g[k] = NextStarted(g[k - 1], packet_consumer[k], header)
  BY <1>2, <1>6 DEF IsWalk
<1>8. Is(g)
  <2>1. \A k \in 0..n : k = 0 \/ k \in 1..n
    BY <1>2
  <2> HIDE DEF F
  <2> QED BY <1>6, <1>7, <2>1 DEF IsWalk
<1>9. Is(turn)
  BY <1>8 DEF turn
<1> HIDE DEF turn
<1>10. turn[0] = [s |-> Handling(script), started |-> <<>>] /\ \A k \in 1..n : turn[k] = NextStarted(turn[k - 1], packet_consumer[k], header)
  <2>1. \A k \in 0..n : turn[k] = IF k = 0 THEN [s |-> Handling(script), started |-> <<>>] ELSE NextStarted(turn[k - 1], packet_consumer[k], header)
    BY <1>9
  <2> QED BY <1>2, <2>1
<1>11. turn[n] \in S[n]
  <2>1. turn[0] \in S[0] /\ \A k \in 1..n : turn[k - 1] \in S[k - 1] => turn[k] \in S[k]
    BY <1>4, <1>5, <1>10
  <2> HIDE DEF Is, F
  <2> QED BY <1>2, <2>1, StaysAlong
<1> QED BY <1>1, <1>2, <1>3, <1>11 DEF n

\* While the packet ends.
Closing(open) == {s \in States : Silent(s.log) /\ Balanced(s.log, open)}

\* The end of the packet for one consumer.
LEMMA EndCallClosing ==
  ASSUME NEW c \in Consumers, NEW open, <<c, 0, NoAddress>> \in open, NEW s \in Closing(open)
  PROVE  EndCall(s, c) \in Closing(open \ {<<c, 0, NoAddress>>})
<1>1. s \in States /\ Silent(s.log) /\ Balanced(s.log, open) /\ s.result \in Int
  BY DEF Closing, States
<1>2. PICK x : x = [s EXCEPT !.message = 0, !.addr = NoAddress]
  OBVIOUS
<1>3. NoAddress \in Addresses
  BY DEF NoAddress, Addresses
<1>4. x \in States /\ x.log = s.log /\ x.message = 0 /\ x.addr = NoAddress /\ x.result = s.result
  BY <1>1, <1>2, <1>3 DEF States
<1>5. PICK d \in BOOLEAN : d = (s.result # OKAY)
  OBVIOUS
<1>6. d \in Details /\ "end" \in CallbackNames
  <2>1. d \in Details
    BY DEF Details
  <2>2. "end" \in CallbackNames
    BY DEF CallbackNames
  <2> QED BY <2>1, <2>2
<1>7. PICK t : t = Call(x, c, "end", d)
  OBVIOUS
<1>8. /\ "end" \notin ConsumerOf[c].cb => t = x
      /\ t \in States
  BY <1>4, <1>6, <1>7, CallFacts
<1>9. s.log \in Seq(Callbacks)
  BY <1>1 DEF States
<1>10. Silent(t.log) /\ Balanced(t.log, open \ {<<c, 0, NoAddress>>})
  <2>1. CASE "end" \notin ConsumerOf[c].cb
    BY <1>1, <1>4, <1>8, <1>9, <2>1, BalancedNoEnd
  <2>2. CASE "end" \in ConsumerOf[c].cb
    <3>1. PICK r \in Callbacks :
            /\ r.consumer = c /\ r.cb = "end" /\ r.message = 0 /\ r.addr = NoAddress
            /\ r.detail = d /\ r.answer = t.result
            /\ t.log = Append(x.log, r)
      BY <1>4, <1>6, <1>7, <2>2, CallFacts
    <3>2. \A q \in Range(s.log) : Hides(q, r)
      BY <3>1, EndIsShown
    <3>3. Silent(t.log)
      BY <1>1, <1>4, <1>9, <3>1, <3>2, SilentAppend
    <3>4. Key(r) = <<c, 0, NoAddress>>
      BY <3>1 DEF Key
    <3>5. Balanced(t.log, open \ {<<c, 0, NoAddress>>})
      BY <1>1, <1>4, <1>9, <3>1, <3>4, BalancedEnd
    <3> QED BY <3>3, <3>5
  <2> QED BY <2>1, <2>2
<1>11. PICK y : y = [t EXCEPT !.result = s.result]
  OBVIOUS
<1>12. y \in States /\ y.log = t.log
  BY <1>1, <1>8, <1>11 DEF States
<1>13. EndCall(s, c) = y
  BY <1>2, <1>5, <1>7, <1>11 DEF EndCall
<1> QED BY <1>10, <1>12, <1>13 DEF Closing

\* The end of the packet for all that were started.
LEMMA EndPacketClosing ==
  ASSUME NEW group \in Seq(Consumers), Once(group), NEW s \in Closing(Opened(0, group, Len(group)))
  PROVE  EndPacket(s, group) \in Closing({})
<1> DEFINE n == Len(group)
           S == [k \in 0..n |-> Closing(Opened(0, group, n - k))]
           F == [k \in 1..n |-> [x \in S[k - 1] |-> EndCall(x, group[Len(group) + 1 - k])]]
           Is(f) == f = [k \in 0..n |-> IF k = 0 THEN s ELSE EndCall(f[k - 1], group[Len(group) + 1 - k])]
           turn == CHOOSE f : Is(f)
<1>1. EndPacket(s, group) = turn[n]
  BY DEF EndPacket
<1>2. n \in Nat /\ 0 \in 0..n /\ n \in 0..n
      /\ \A k \in 1..n : k - 1 \in 0..n /\ k \in 0..n /\ k # 0
  BY LenProperties
<1>3. \A k \in 0..n : S[k] = Closing(Opened(0, group, n - k))
  OBVIOUS
<1> HIDE DEF n, S
<1>4. s \in S[0]
  <2>1. n - 0 = n
    BY <1>2
  <2>2. s \in Closing(Opened(0, group, n))
    BY DEF n
  <2> QED BY <1>2, <1>3, <2>1, <2>2
<1>5. ASSUME NEW k \in 1..n, NEW x \in S[k - 1]
      PROVE  EndCall(x, group[Len(group) + 1 - k]) \in S[k]
  <2>1. PICK i, j : i = n + 1 - k /\ j = k - 1
    OBVIOUS
  <2>2. i \in 1..n /\ n - j = i /\ n - k = i - 1
    BY <1>2, <2>1
  <2>3. x \in Closing(Opened(0, group, i))
    <3>1. S[j] = Closing(Opened(0, group, n - j)) /\ x \in S[j]
      BY <1>2, <1>3, <2>1
    <3> QED BY <2>2, <3>1
  <2>4. PICK c : c = group[i]
    OBVIOUS
  <2>5. c \in Consumers
    BY <2>2, <2>4, ElementOfSeq DEF n
  <2>6. <<c, 0, NoAddress>> \in Opened(0, group, i)
    <3>1. i \in 1..i
      BY <2>2
    <3> QED BY <2>4, <3>1 DEF Opened
  <2>7. Opened(0, group, i) \ {<<c, 0, NoAddress>>} = Opened(0, group, i - 1)
    <3>1. \A l \in 1..i : group[l] = c => l = i
      BY <1>2, <2>2, <2>4 DEF Once, n
    <3>2. \A l : l \in 1..i <=> l \in 1..(i - 1) \/ l = i
      BY <1>2, <2>2
    <3>3. ~ (i \in 1..(i - 1))
      BY <1>2, <2>2
    <3> QED BY <2>4, <3>1, <3>2, <3>3 DEF Opened
  <2>8. PICK o : o = Opened(0, group, i)
    OBVIOUS
  <2>9. EndCall(x, c) \in Closing(o \ {<<c, 0, NoAddress>>})
    BY <2>3, <2>5, <2>6, <2>8, EndCallClosing
  <2>10. group[Len(group) + 1 - k] = c
    BY <2>1, <2>4 DEF n
  <2> QED BY <1>2, <1>3, <2>2, <2>7, <2>8, <2>9, <2>10
<1>6. PICK g : IsWalk(g, S, s, n, F)
  <2>1. \A k \in 1..n : F[k] \in [S[k - 1] -> S[k]]
    BY <1>5
  <2> HIDE DEF F
  <2> QED BY <1>2, <1>4, <2>1, WalkThrough
<1>7. \A k \in 1..n : g[k] = EndCall(g[k - 1], group[Len(group) + 1 - k])
  BY <1>2, <1>6 DEF IsWalk
<1>8. Is(g)
  <2>1. \A k \in 0..n : k = 0 \/ k \in 1..n
    BY <1>2
  <2> HIDE DEF F
  <2> QED BY <1>6, <1>7, <2>1 DEF IsWalk
<1>9. Is(turn)
  BY <1>8 DEF turn
<1> HIDE DEF turn
<1>10. turn[0] = s /\ \A k \in 1..n : turn[k] = EndCall(turn[k - 1], group[Len(group) + 1 - k])
  <2>1. \A k \in 0..n : turn[k] = IF k = 0 THEN s ELSE EndCall(turn[k - 1], group[Len(group) + 1 - k])
    BY <1>9
  <2> QED BY <1>2, <2>1
<1>11. turn[n] \in S[n]
  <2>1. turn[0] \in S[0] /\ \A k \in 1..n : turn[k - 1] \in S[k - 1] => turn[k] \in S[k]
    BY <1>4, <1>5, <1>10
  <2> HIDE DEF Is, F
  <2> QED BY <1>2, <2>1, StaysAlong
<1>12. turn[n] \in Closing(Opened(0, group, n - n))
  BY <1>2, <1>3, <1>11
<1>13. Opened(0, group, n - n) = {}
  <2>1. 1..(n - n) = {}
    BY <1>2
  <2> QED BY <2>1 DEF Opened
<1> QED BY <1>1, <1>12, <1>13

\* The callbacks for a packet.
LEMMA CallsForClosing ==
  ASSUME packet_consumer \in Seq(Consumers), Once(packet_consumer),
         message_consumer \in Seq(Consumers), Once(message_consumer),
         NEW b \in Packets, NEW script \in Scripts,
         NEW calls, calls = CallsFor(parse_packet(b, TlvRoom), b, script)
  PROVE  calls \in Seq(Callbacks) /\ Silent(calls) /\ Balanced(calls, {})
<1>1. PICK header : header = parse_packet(b, TlvRoom)
  OBVIOUS
<1>2. CASE header = Bad
  <2>1. calls = <<>>
    BY <1>1, <1>2 DEF CallsFor
  <2>2. Len(calls) = 0 /\ Range(calls) = {} /\ calls \in Seq(Callbacks)
    BY <2>1 DEF Range
  <2> QED BY <2>2 DEF Silent, Balanced
<1>3. CASE header # Bad
  <2>1. b \in Seq(Octet)
    BY ReaderAssumption
  <2>2. header.next \in 1..(Len(b) + 1) /\ Len(header.tlvs) \in Nat
    BY <1>1, <1>3, <2>1, PacketHeader
  <2>3. PICK msgs, p : p = header.next /\ msgs = MessagesFrom(b, p, TlvRoom)
    OBVIOUS
  <2>4. Len(msgs) \in Nat /\ \A k \in 1..Len(msgs) : msgs[k] = Bad \/ WellFormed(msgs[k])
    BY <2>1, <2>2, <2>3, MessagesList
  <2>5. PICK x : x = BeginPacket(header, script)
    OBVIOUS
  <2>6. x \in Beginning(Started(Len(packet_consumer)))
    BY <2>2, <2>5, BeginPacketBeginning
  <2>7. PICK s, group, base : s = x.s /\ group = x.started /\ base = Opened(0, group, Len(group))
    OBVIOUS
  <2>8. /\ group \in Seq(Consumers) /\ Once(group) /\ s \in States /\ Sound(s, base)
    BY <2>6, <2>7 DEF Beginning, Ready
  <2>9. s \in Between(base)
    BY <2>8 DEF Between
  <2>10. OfPacket(base)
    <3>1. \A i \in 1..Len(group) : group[i] \in Consumers
      BY <2>8, ElementOfSeq
    <3> QED BY <2>7, <3>1 DEF OfPacket, Opened
  <2>11. PICK y : y = handle_messages(s, msgs)
    OBVIOUS
  <2>12. y \in Between(base)
    BY <2>4, <2>9, <2>10, <2>11, HandleMessagesBetween
  <2>13. y \in Closing(Opened(0, group, Len(group)))
    BY <2>7, <2>12 DEF Between, Sound, Closing
  <2>14. PICK z : z = EndPacket(y, group)
    OBVIOUS
  <2>15. z \in Closing({})
    BY <2>8, <2>13, <2>14, EndPacketClosing
  <2>16. calls = z.log
    BY <1>1, <1>3, <2>3, <2>5, <2>7, <2>11, <2>14 DEF CallsFor, ReadPacket
  <2>17. z.log \in Seq(Callbacks)
    BY <2>15 DEF Closing, States
  <2> QED BY <2>15, <2>16, <2>17 DEF Closing
<1> QED BY <1>2, <1>3

-----------------------------------------------------------------------------
(* The reader. *)

\* Every consumer stands in its tree once, and the callbacks of the packet are
\* as they should be.
ReaderInv ==
  /\ packet_consumer \in Seq(Consumers) /\ Once(packet_consumer)
  /\ message_consumer \in Seq(Consumers) /\ Once(message_consumer)
  /\ log \in Seq(Callbacks) /\ Silent(log) /\ Balanced(log, {})

\* There are no consumers at first.
LEMMA ReaderStart == ReaderInit => ReaderInv
<1> SUFFICES ASSUME ReaderInit PROVE ReaderInv
  OBVIOUS
<1>1. PICK e : e = <<>>
  OBVIOUS
<1>2. e \in Seq(Consumers) /\ e \in Seq(Callbacks) /\ Len(e) = 0 /\ Range(e) = {}
  BY <1>1 DEF Range
<1>3. Once(e) /\ Silent(e) /\ Balanced(e, {})
  BY <1>2 DEF Once, Silent, Balanced
<1> QED BY <1>1, <1>2, <1>3 DEF ReaderInit, ReaderInv

\* A consumer is added.
LEMMA AddConsumerKeeps ==
  ASSUME ReaderInv, NEW c \in Consumers, add_consumer(c)
  PROVE  ReaderInv'
<1>1. \A tree : tree \in Seq(Consumers) /\ c \notin Range(tree) => ~ Contains(tree, c)
  <2> SUFFICES ASSUME NEW tree \in Seq(Consumers), Contains(tree, c) PROVE c \in Range(tree)
    OBVIOUS
  <2>1. DOMAIN tree = 1..Len(tree)
    BY LenProperties
  <2> QED BY <2>1 DEF Contains, Range
<1>2. ~ Contains(packet_consumer, c) /\ ~ Contains(message_consumer, c)
  BY <1>1 DEF ReaderInv, add_consumer
<1>3. /\ InsertConsumer(packet_consumer, c) \in Seq(Consumers) /\ Once(InsertConsumer(packet_consumer, c))
      /\ InsertConsumer(message_consumer, c) \in Seq(Consumers) /\ Once(InsertConsumer(message_consumer, c))
  BY <1>2, InsertConsumerOnce DEF ReaderInv
<1>4. log' = log /\ \/ packet_consumer' = InsertConsumer(packet_consumer, c) /\ message_consumer' = message_consumer
                    \/ message_consumer' = InsertConsumer(message_consumer, c) /\ packet_consumer' = packet_consumer
  BY DEF add_consumer
<1> QED BY <1>3, <1>4 DEF ReaderInv

\* The steps of the reader keep it so.
LEMMA ReaderStep == ReaderInv /\ [ReaderNext]_readerVars => ReaderInv'
<1> SUFFICES ASSUME ReaderInv, [ReaderNext]_readerVars PROVE ReaderInv'
  OBVIOUS
<1>1. CASE UNCHANGED readerVars
  BY <1>1 DEF ReaderInv, readerVars
<1>2. ASSUME NEW c \in Consumers, add_consumer(c) PROVE ReaderInv'
  BY <1>2, AddConsumerKeeps
<1>3. ASSUME NEW c \in Consumers, remove_consumer(c) PROVE ReaderInv'
  <2>1. /\ packet_consumer' = RemoveConsumer(packet_consumer, c)
        /\ message_consumer' = RemoveConsumer(message_consumer, c)
        /\ log' = log
    BY <1>3 DEF remove_consumer
  <2>2. /\ RemoveConsumer(packet_consumer, c) \in Seq(Consumers) /\ Once(RemoveConsumer(packet_consumer, c))
        /\ RemoveConsumer(message_consumer, c) \in Seq(Consumers) /\ Once(RemoveConsumer(message_consumer, c))
    BY RemoveConsumerOnce DEF ReaderInv
  <2> QED BY <2>1, <2>2 DEF ReaderInv
<1>4. ASSUME NEW b \in Packets, NEW script \in Scripts, handle_packet(b, script) PROVE ReaderInv'
  <2>1. /\ packet_consumer' = packet_consumer /\ message_consumer' = message_consumer
        /\ log' = CallsFor(parse_packet(b, TlvRoom), b, script)
    BY <1>4 DEF handle_packet
  <2>2. PICK calls : calls = CallsFor(parse_packet(b, TlvRoom), b, script)
    OBVIOUS
  <2>3. calls \in Seq(Callbacks) /\ Silent(calls) /\ Balanced(calls, {})
    BY <2>2, CallsForClosing DEF ReaderInv
  <2> QED BY <2>1, <2>2, <2>3 DEF ReaderInv
<1>5. CASE PacketDone
  <2>1. PICK e : e = <<>>
    OBVIOUS
  <2>2. e \in Seq(Callbacks) /\ Len(e) = 0 /\ Range(e) = {}
    BY <2>1 DEF Range
  <2>3. Silent(e) /\ Balanced(e, {})
    BY <2>2 DEF Silent, Balanced
  <2>4. packet_consumer' = packet_consumer /\ message_consumer' = message_consumer /\ log' = e
    BY <1>5, <2>1 DEF PacketDone
  <2> QED BY <2>2, <2>3, <2>4 DEF ReaderInv
<1> QED BY <1>1, <1>2, <1>3, <1>4, <1>5 DEF ReaderNext

\* What a callback of rfc5444_reader.c has dropped is not shown to another
\* consumer later: an address, a TLV for this address or message, a message.
THEOREM ReaderDroppedIsSilent == ReaderSpec => []DroppedIsSilent
<1>1. ReaderInv => DroppedIsSilent
  <2> SUFFICES ASSUME ReaderInv PROVE DroppedIsSilent
    OBVIOUS
  <2>1. DOMAIN log = 1..Len(log)
    BY LenProperties DEF ReaderInv
  <2>2. \A i, k \in DOMAIN log : i < k => Hides(log[i], log[k])
    BY <2>1 DEF ReaderInv, Silent
  <2> QED BY <2>2 DEF DroppedIsSilent, Hides
<1> QED BY <1>1, ReaderStart, ReaderStep, PTL DEF ReaderSpec

\* A consumer of rfc5444_reader.c that got the start of a packet, a message or an
\* address gets its end, once, and nothing of it afterwards.
THEOREM ReaderStartedIsEnded == ReaderSpec => []StartedIsEnded
<1>1. ReaderInv => StartedIsEnded
  <2> SUFFICES ASSUME ReaderInv, NEW i \in DOMAIN log, log[i].cb = "start",
                      "end" \in ConsumerOf[log[i].consumer].cb,
                      NEW mine, mine = {k \in DOMAIN log : /\ log[k].consumer = log[i].consumer
                                                           /\ log[k].message = log[i].message
                                                           /\ log[k].addr = log[i].addr}
               PROVE  Cardinality({k \in mine : log[k].cb = "end"}) = 1 /\ log[Max(mine)].cb = "end"
    BY DEF StartedIsEnded
  <2>1. DOMAIN log = 1..Len(log) /\ Len(log) \in Nat
    BY LenProperties DEF ReaderInv
  <2>2. Ended(log, Key(log[i]))
    <3>1. log[i] \in Range(log)
      BY DEF Range
    <3> QED BY <3>1 DEF ReaderInv, Balanced
  <2>3. PICK j \in 1..Len(log) :
          /\ log[j].cb = "end" /\ Key(log[j]) = Key(log[i])
          /\ \A k \in 1..Len(log) : Key(log[k]) = Key(log[i]) => k <= j /\ (log[k].cb = "end" => k = j)
    BY <2>2 DEF Ended
  <2>4. \A k \in 1..Len(log) : k \in mine <=> Key(log[k]) = Key(log[i])
    BY <2>1 DEF Key
  <2>5. j \in mine /\ \A k \in mine : k \in 1..Len(log) /\ k <= j /\ (log[k].cb = "end" => k = j)
    BY <2>1, <2>3, <2>4
  <2>6. {k \in mine : log[k].cb = "end"} = {j}
    BY <2>3, <2>5
  <2>7. Cardinality({j}) = 1
    BY FS_Singleton
  <2>8. Max(mine) = j
    <3>1. j \in mine /\ \A k \in mine : j >= k
      BY <2>1, <2>5
    <3>2. \A v \in mine : (\A k \in mine : v >= k) => v = j
      BY <2>1, <2>5
    <3> QED BY <3>1, <3>2 DEF Max
  <2> QED BY <2>3, <2>6, <2>7, <2>8
<1> QED BY <1>1, ReaderStart, ReaderStep, PTL DEF ReaderSpec

-----------------------------------------------------------------------------
(* The entries of a consumer and the search for the entry of a TLV. *)

\* An entry stands before another one: it asks for a lower type, or for a lower
\* extension of the same.
Below(x, y) ==
  x.type < y.type \/ (x.type = y.type /\ x.ext # -1 /\ y.ext # -1 /\ x.ext < y.ext)

\* InsertEntry() keeps the entries in their order.
EntryList(e) ==
  /\ e \in Seq(ConsumerEntry) /\ Len(e) \in Nat /\ DOMAIN e = 1..Len(e)
  /\ \A k \in 1..Len(e) : e[k] \in ConsumerEntry
  /\ \A j, k \in 1..Len(e) : j < k => Below(e[j], e[k])

\* The numbers of an entry.
LEMMA EntryNumbers ==
  ASSUME NEW x \in ConsumerEntry
  PROVE  \E t \in 0..255 : \E a \in -1..255 : \E o \in Int :
           x.type = t /\ x.ext = a /\ entry_intorder(x) = o
           /\ o = IF a = -1 THEN 256 * t ELSE 256 * t + a
<1>1. x.type \in Octet /\ x.ext \in Octet \cup {-1}
  BY DEF ConsumerEntry
<1>5. PICK t, a : t = x.type /\ a = x.ext
  OBVIOUS
<1>2. t \in 0..255 /\ a \in -1..255 /\ t = x.type /\ a = x.ext
  <2>1. Octet = 0..255
    BY DEF Octet
  <2>3. (\A v \in 0..255 : v \in -1..255) /\ -1 \in -1..255
    OBVIOUS
  <2>2. t \in 0..255 /\ (a \in 0..255 \/ a = -1)
    BY <1>1, <1>5, <2>1
  <2> QED BY <1>5, <2>2, <2>3
<1>3. PICK o \in Int : o = IF a = -1 THEN 256 * t ELSE 256 * t + a
  BY <1>2
<1>4. entry_intorder(x) = o
  BY <1>2, <1>3 DEF entry_intorder, intorder
<1> QED BY <1>2, <1>3, <1>4

\* Entries for different TLVs that are sorted.
LEMMA ApartBelow ==
  ASSUME NEW x \in ConsumerEntry, NEW y \in ConsumerEntry
  PROVE  /\ Apart(x, y) /\ entry_intorder(x) <= entry_intorder(y) => Below(x, y)
         /\ Apart(x, y) /\ ~ (entry_intorder(y) > entry_intorder(x)) => Below(y, x)
         /\ Below(x, y) => entry_intorder(x) <= entry_intorder(y)
         /\ entry_intorder(x) \in Int
<1>1. PICK t \in 0..255, a \in -1..255, o \in Int :
        x.type = t /\ x.ext = a /\ entry_intorder(x) = o
        /\ o = IF a = -1 THEN 256 * t ELSE 256 * t + a
  BY EntryNumbers
<1>2. PICK u \in 0..255, b \in -1..255, p \in Int :
        y.type = u /\ y.ext = b /\ entry_intorder(y) = p
        /\ p = IF b = -1 THEN 256 * u ELSE 256 * u + b
  BY EntryNumbers
<1>3. Apart(x, y) => t # u \/ (a # -1 /\ b # -1 /\ a # b)
  BY <1>1, <1>2 DEF Apart
<1>4. /\ Below(x, y) <=> t < u \/ (t = u /\ a # -1 /\ b # -1 /\ a < b)
      /\ Below(y, x) <=> u < t \/ (t = u /\ a # -1 /\ b # -1 /\ b < a)
  BY <1>1, <1>2 DEF Below
<1>5. /\ t # u \/ (a # -1 /\ b # -1 /\ a # b)
      /\ o <= p
      => t < u \/ (t = u /\ a # -1 /\ b # -1 /\ a < b)
  BY <1>1, <1>2
<1>6. /\ t # u \/ (a # -1 /\ b # -1 /\ a # b)
      /\ ~ (p > o)
      => u < t \/ (t = u /\ a # -1 /\ b # -1 /\ b < a)
  BY <1>1, <1>2
<1>7. t < u \/ (t = u /\ a # -1 /\ b # -1 /\ a < b) => o <= p
  BY <1>1, <1>2
<1> QED BY <1>1, <1>2, <1>3, <1>4, <1>5, <1>6, <1>7

\* An entry is put at its place.
LEMMA InsertEntryList ==
  ASSUME NEW s, EntryList(s), NEW x \in ConsumerEntry, \A k \in 1..Len(s) : Apart(s[k], x),
         NEW r, r = InsertEntry(s, x)
  PROVE  /\ EntryList(r)
         /\ \A z : Apart(x, z) /\ (\A k \in 1..Len(s) : Apart(s[k], z)) =>
              \A k \in 1..Len(r) : Apart(r[k], z)
<1> DEFINE R == {q \in ConsumerEntry \X ConsumerEntry : Below(q[1], q[2])}
           I == {k \in 1..Len(s) : entry_intorder(s[k]) > entry_intorder(x)}
<1>1. /\ s \in Seq(ConsumerEntry) /\ Len(s) \in Nat
      /\ \A k \in 1..Len(s) : s[k] \in ConsumerEntry
      /\ \A j, k \in 1..Len(s) : j < k => Below(s[j], s[k])
  BY DEF EntryList
<1>2. PICK J \in SUBSET (1..Len(s)) : J = I
  OBVIOUS
<1>3. PICK i : i = IF J # {} THEN Min(J) ELSE 0
  OBVIOUS
<1>4. PICK y : y = [x EXCEPT !.max = IF x.min > x.max THEN x.min ELSE x.max]
  OBVIOUS
<1>5. y \in ConsumerEntry /\ y.type = x.type /\ y.ext = x.ext
  BY <1>4 DEF ConsumerEntry
<1>6. r = InsertBefore(s, i, y)
  BY <1>2, <1>3, <1>4 DEF InsertEntry, SelectInSeq
<1>7. /\ i \in 0..Len(s)
      /\ i = 0 => J = {}
      /\ i # 0 => i \in J /\ \A k \in 1..Len(s) : k < i => k \notin J
  BY <1>1, <1>2, <1>3, FirstPlace
<1>8. entry_intorder(y) = entry_intorder(x) /\ \A z : Apart(y, z) = Apart(x, z) /\ Apart(z, y) = Apart(z, x)
  BY <1>5 DEF entry_intorder, Apart
<1>9. \A k \in 1..Len(s) : k \in J <=> entry_intorder(s[k]) > entry_intorder(y)
  BY <1>2, <1>8
<1>10. \A k \in 1..Len(s) : Apart(s[k], y) /\ Apart(y, s[k])
  BY <1>8 DEF Apart
<1>11. \A k \in 1..Len(s) : IF i = 0 \/ k < i THEN <<s[k], y>> \in R ELSE <<y, s[k]>> \in R
  <2> SUFFICES ASSUME NEW k \in 1..Len(s)
      PROVE  IF i = 0 \/ k < i THEN Below(s[k], y) ELSE Below(y, s[k])
    BY <1>1, <1>5
  <2>1. CASE i = 0 \/ k < i
    <3>1. k \notin J
      BY <1>7, <2>1
    <3>2. ~ (entry_intorder(s[k]) > entry_intorder(y))
      BY <1>9, <3>1
    <3>3. Below(s[k], y)
      BY <1>1, <1>5, <1>10, <3>2, ApartBelow
    <3> QED BY <2>1, <3>3
  <2>2. CASE ~ (i = 0 \/ k < i)
    <3>1. i \in J /\ i \in 1..Len(s) /\ (i = k \/ i < k)
      BY <1>2, <1>7, <2>2
    <3>2. entry_intorder(s[i]) > entry_intorder(y) /\ entry_intorder(s[i]) <= entry_intorder(s[k])
      <4>1. i < k => entry_intorder(s[i]) <= entry_intorder(s[k])
        BY <1>1, <3>1, ApartBelow
      <4>2. entry_intorder(s[k]) \in Int
        BY <1>1, ApartBelow
      <4> QED BY <1>9, <3>1, <4>1, <4>2
    <3>3. entry_intorder(s[i]) \in Int /\ entry_intorder(s[k]) \in Int /\ entry_intorder(y) \in Int
      BY <1>1, <1>5, <3>1, ApartBelow
    <3>4. entry_intorder(y) <= entry_intorder(s[k])
      BY <3>2, <3>3
    <3>5. Below(y, s[k])
      BY <1>1, <1>5, <1>10, <3>4, ApartBelow
    <3> QED BY <2>2, <3>5
  <2> QED BY <2>1, <2>2
<1>12. \A j, k \in 1..Len(s) : j < k => <<s[j], s[k]>> \in R
  BY <1>1
<1>13. \A u, v : <<u, v>> \in R => Below(u, v)
  OBVIOUS
<1> HIDE DEF R, I
<1>14. \A j, k \in 1..(Len(s) + 1) : j < k => <<r[j], r[k]>> \in R
  BY <1>1, <1>5, <1>6, <1>7, <1>11, <1>12, InsertBeforeInOrder
<1>15. \A j, k \in 1..(Len(s) + 1) : j < k => Below(r[j], r[k])
  BY <1>13, <1>14
<1>16. r \in Seq(ConsumerEntry) /\ Len(r) = Len(s) + 1
  BY <1>1, <1>5, <1>6, <1>7, InsertBeforeList
<1>17. \A k \in 1..(Len(s) + 1) : (\E l \in 1..Len(s) : r[k] = s[l]) \/ r[k] = y
  <2>1. PICK p : p = IF i = 0 THEN Len(s) + 1 ELSE i
    OBVIOUS
  <2>2. \A k \in 1..(Len(s) + 1) : r[k] = IF k < p THEN s[k] ELSE IF k = p THEN y ELSE s[k - 1]
    BY <1>1, <1>5, <1>6, <1>7, <2>1, InsertBeforePlaces
  <2>3. \A k \in 1..(Len(s) + 1) : /\ k < p => k \in 1..Len(s)
                                   /\ ~ (k < p) /\ k # p => k - 1 \in 1..Len(s)
    BY <1>1, <1>7, <2>1
  <2> QED BY <2>2, <2>3
<1>18. DOMAIN r = 1..Len(r) /\ Len(r) \in Nat
  BY <1>16, LenProperties
<1>19. EntryList(r)
  <2>1. \A k \in 1..Len(r) : r[k] \in ConsumerEntry
    BY <1>1, <1>5, <1>16, <1>17
  <2> QED BY <1>15, <1>16, <1>18, <2>1 DEF EntryList
<1>20. ASSUME NEW z, Apart(x, z), \A k \in 1..Len(s) : Apart(s[k], z), NEW k \in 1..Len(r)
       PROVE  Apart(r[k], z)
  BY <1>8, <1>16, <1>17, <1>20
<1> QED BY <1>19, <1>20

\* _add_consumer() leaves the entries a list in their order.
LEMMA EntriesInOrder ==
  ASSUME NEW c \in Consumers
  PROVE  EntryList(EntriesOf(c))
<1> DEFINE u == ConsumerOf[c].entries
           n == Len(u)
           To(k) == {x \in Seq(ConsumerEntry) :
                       EntryList(x) /\ \A l \in (k + 1)..n : \A j \in 1..Len(x) : Apart(x[j], u[l])}
           S == [k \in 0..n |-> To(k)]
           F == [k \in 1..n |-> [x \in S[k - 1] |-> InsertEntry(x, u[k])]]
           Is(f) == f = [k \in 0..n |-> IF k = 0 THEN <<>> ELSE InsertEntry(f[k - 1], u[k])]
           turn == CHOOSE f : Is(f)
<1>1. EntriesOf(c) = turn[n]
  BY DEF EntriesOf
<1>2. u \in Seq(ConsumerEntry) /\ \A j, k \in DOMAIN u : j # k => Apart(u[j], u[k])
  BY ReaderAssumption, EntriesAssumption
<1> HIDE DEF u
<1>3. /\ n \in Nat /\ 0 \in 0..n /\ n \in 0..n
      /\ \A k \in 1..n : k - 1 \in 0..n /\ k \in 0..n /\ k # 0
      /\ DOMAIN u = 1..n
  BY <1>2, LenProperties
<1>4. \A k \in 1..n : u[k] \in ConsumerEntry
  BY <1>2, ElementOfSeq
<1>5. \A k \in 0..n : S[k] = To(k)
  OBVIOUS
<1> HIDE DEF n, S, To
<1>6. ASSUME NEW k \in 1..n, NEW x \in S[k - 1] PROVE InsertEntry(x, u[k]) \in S[k]
  <2>1. k \in Nat /\ k - 1 \in Nat /\ x \in To(k - 1)
    BY <1>3, <1>5
  <2>2. EntryList(x) /\ \A l \in k..n : \A j \in 1..Len(x) : Apart(x[j], u[l])
    <3>1. (k - 1) + 1 = k
      BY <2>1
    <3> QED BY <2>1, <3>1 DEF To
  <2>3. PICK e \in ConsumerEntry : e = u[k]
    BY <1>4
  <2>4. PICK r : r = InsertEntry(x, e)
    OBVIOUS
  <2>5. k \in k..n /\ \A l \in (k + 1)..n : l \in k..n /\ l \in 1..n /\ l # k
    BY <1>3, <2>1
  <2>6. \A j \in 1..Len(x) : Apart(x[j], e)
    BY <2>2, <2>3, <2>5
  <2>7. /\ EntryList(r)
        /\ \A z : Apart(e, z) /\ (\A j \in 1..Len(x) : Apart(x[j], z)) => \A j \in 1..Len(r) : Apart(r[j], z)
    BY <2>2, <2>4, <2>6, InsertEntryList
  <2>8. \A l \in (k + 1)..n : Apart(e, u[l])
    BY <1>2, <1>3, <2>3, <2>5
  <2>9. \A l \in (k + 1)..n : \A j \in 1..Len(r) : Apart(r[j], u[l])
    BY <2>2, <2>5, <2>7, <2>8
  <2>10. r \in To(k)
    <3>1. r \in Seq(ConsumerEntry)
      BY <2>7 DEF EntryList
    <3> QED BY <2>7, <2>9, <3>1 DEF To
  <2> QED BY <1>3, <1>5, <2>3, <2>4, <2>10
<1>7. <<>> \in S[0]
  <2>1. PICK e : e = <<>>
    OBVIOUS
  <2>2. e \in Seq(ConsumerEntry) /\ Len(e) = 0 /\ DOMAIN e = {}
    BY <2>1
  <2>3. EntryList(e)
    BY <2>2 DEF EntryList
  <2>4. e \in To(0)
    BY <2>2, <2>3 DEF To
  <2> QED BY <1>3, <1>5, <2>1, <2>4
<1>8. PICK g : IsWalk(g, S, <<>>, n, F)
  <2>1. \A k \in 1..n : F[k] \in [S[k - 1] -> S[k]]
    BY <1>6
  <2> HIDE DEF F
  <2> QED BY <1>3, <1>7, <2>1, WalkThrough
<1>9. \A k \in 1..n : g[k] = InsertEntry(g[k - 1], u[k])
  BY <1>3, <1>8 DEF IsWalk
<1>10. Is(g)
  <2>1. \A k \in 0..n : k = 0 \/ k \in 1..n
    BY <1>3
  <2> HIDE DEF F
  <2> QED BY <1>8, <1>9, <2>1 DEF IsWalk
<1>11. Is(turn)
  BY <1>10 DEF turn
<1> HIDE DEF turn
<1>12. turn[0] = <<>> /\ \A k \in 1..n : turn[k] = InsertEntry(turn[k - 1], u[k])
  <2>1. \A k \in 0..n : turn[k] = IF k = 0 THEN <<>> ELSE InsertEntry(turn[k - 1], u[k])
    BY <1>11
  <2> QED BY <1>3, <2>1
<1>13. turn[n] \in S[n]
  <2>1. turn[0] \in S[0] /\ \A k \in 1..n : turn[k - 1] \in S[k - 1] => turn[k] \in S[k]
    BY <1>6, <1>7, <1>12
  <2> HIDE DEF Is, F
  <2> QED BY <1>3, <2>1, StaysAlong
<1>14. EntryList(turn[n])
  BY <1>3, <1>5, <1>13 DEF To
<1> QED BY <1>1, <1>14

-----------------------------------------------------------------------------
(* A TLV and an entry are compared. *)

\* Does the entry x ask for TLVs of this type?
OfType(x, tlv) == tlv.type = x.type /\ x.ext \in {-1, tlv.ext}

\* The difference of a TLV and an entry with these types and extensions.
Difference(t, a, u, b) == IF b = -1 THEN t - u ELSE (256 * t + a) - (256 * u + b)

\* The extension of an entry; -1 for all.
AnyExt == Octet \cup {-1}

\* The numbers of a TLV and of an entry.
LEMMA NumbersOf ==
  ASSUME NEW tlvs, TlvList(tlvs), NEW entries, EntryList(entries)
  PROVE  /\ \A i \in 1..Len(tlvs) : /\ tlvs[i].type \in Octet /\ tlvs[i].ext \in Octet
                                    /\ order(tlvs[i]) = 256 * tlvs[i].type + tlvs[i].ext
         /\ \A j \in 1..Len(entries) : entries[j].type \in Octet /\ entries[j].ext \in AnyExt
<1>1. ASSUME NEW i \in 1..Len(tlvs)
      PROVE  /\ tlvs[i].type \in Octet /\ tlvs[i].ext \in Octet
             /\ order(tlvs[i]) = 256 * tlvs[i].type + tlvs[i].ext
  <2>1. tlvs[i].type \in Octet /\ tlvs[i].ext \in Octet
    BY DEF TlvList, IsTlv
  <2> QED BY <2>1 DEF order, intorder
<1>2. ASSUME NEW j \in 1..Len(entries)
      PROVE  entries[j].type \in Octet /\ entries[j].ext \in AnyExt
  <2>1. entries[j] \in ConsumerEntry
    BY DEF EntryList
  <2> QED BY <2>1 DEF ConsumerEntry, AnyExt
<1> QED BY <1>1, <1>2

\* _compare_tlvtypes() inside of the lists.
LEMMA CompareNumbers ==
  ASSUME NEW tlvs, TlvList(tlvs), NEW entries, EntryList(entries),
         NEW i \in 1..Len(tlvs), NEW j \in 1..Len(entries)
  PROVE  CompareTypes(tlvs, entries, i, j)
           = Difference(tlvs[i].type, tlvs[i].ext, entries[j].type, entries[j].ext)
<1>1. Len(tlvs) \in Nat /\ Len(entries) \in Nat
  BY DEF TlvList, EntryList
<1>2. ~ (i > Len(tlvs)) /\ ~ (j > Len(entries))
  BY <1>1
<1> QED BY <1>2 DEF CompareTypes, Difference, intorder

\* How numbers compare.
LEMMA Differences ==
  ASSUME NEW t \in Octet, NEW a \in Octet, NEW u \in Octet, NEW b \in AnyExt
  PROVE  /\ Difference(t, a, u, b) \in Int
         /\ Difference(t, a, u, b) = 0 <=> t = u /\ (b = -1 \/ b = a)
         /\ \A v, w \in Octet : Difference(t, a, u, b) > 0 /\ 256 * t + a <= 256 * v + w =>
              Difference(v, w, u, b) > 0
         /\ \A v \in Octet, w \in AnyExt :
              Difference(t, a, u, b) <= 0 /\ (u < v \/ (u = v /\ b # -1 /\ w # -1 /\ b < w)) =>
                Difference(t, a, v, w) < 0
<1>1. /\ \A v \in Octet : v \in Int /\ 0 <= v /\ v <= 255
      /\ \A v \in AnyExt : v \in Int /\ -1 <= v /\ v <= 255
  BY DEF Octet, AnyExt
<1>2. PICK x \in Int, y \in Int, z \in Int, c \in Int :
        /\ x = t /\ y = a /\ z = u /\ c = b
        /\ 0 <= x /\ x <= 255 /\ 0 <= y /\ y <= 255 /\ 0 <= z /\ z <= 255 /\ -1 <= c /\ c <= 255
  BY <1>1
<1>3. Difference(t, a, u, b) \in Int
  BY <1>2 DEF Difference
<1>4. Difference(t, a, u, b) = 0 <=> t = u /\ (b = -1 \/ b = a)
  BY <1>2 DEF Difference
<1>5. ASSUME NEW v \in Octet, NEW w \in Octet, Difference(t, a, u, b) > 0, 256 * t + a <= 256 * v + w
      PROVE  Difference(v, w, u, b) > 0
  BY <1>1, <1>2, <1>5 DEF Difference
<1>6. ASSUME NEW v \in Octet, NEW w \in AnyExt, Difference(t, a, u, b) <= 0,
             u < v \/ (u = v /\ b # -1 /\ w # -1 /\ b < w)
      PROVE  Difference(t, a, v, w) < 0
  BY <1>1, <1>2, <1>6 DEF Difference
<1> QED BY <1>3, <1>4, <1>5, <1>6

\* ... and behind their ends.
LEMMA CompareEnds ==
  ASSUME NEW tlvs, TlvList(tlvs), NEW entries, EntryList(entries),
         NEW i \in 1..(Len(tlvs) + 1), NEW j \in 1..(Len(entries) + 1)
  PROVE  /\ CompareTypes(tlvs, entries, i, j) \in Int
         /\ CompareTypes(tlvs, entries, i, j) > 0 => j \in 1..Len(entries)
         /\ i > Len(tlvs) /\ j \in 1..Len(entries) => CompareTypes(tlvs, entries, i, j) > 0
<1>1. Len(tlvs) \in Nat /\ Len(entries) \in Nat
  BY DEF TlvList, EntryList
<1>2. CASE j > Len(entries)
  <2>1. CompareTypes(tlvs, entries, i, j) \in {0, -1} /\ ~ (j \in 1..Len(entries))
    BY <1>1, <1>2 DEF CompareTypes
  <2> QED BY <2>1
<1>3. CASE ~ (j > Len(entries)) /\ i > Len(tlvs)
  <2>1. CompareTypes(tlvs, entries, i, j) = 1 /\ j \in 1..Len(entries)
    BY <1>1, <1>3 DEF CompareTypes
  <2> QED BY <2>1
<1>4. CASE ~ (j > Len(entries)) /\ ~ (i > Len(tlvs))
  <2>1. i \in 1..Len(tlvs) /\ j \in 1..Len(entries)
    BY <1>1, <1>4
  <2>2. PICK t, a, u, b : /\ t = tlvs[i].type /\ a = tlvs[i].ext
                          /\ u = entries[j].type /\ b = entries[j].ext
    OBVIOUS
  <2>3. t \in Octet /\ a \in Octet /\ u \in Octet /\ b \in AnyExt
    BY <2>1, <2>2, NumbersOf
  <2>4. CompareTypes(tlvs, entries, i, j) = Difference(t, a, u, b)
    BY <2>1, <2>2, CompareNumbers
  <2>5. Difference(t, a, u, b) \in Int
    BY <2>3, Differences
  <2> QED BY <1>4, <2>1, <2>4, <2>5
<1> QED BY <1>2, <1>3, <1>4

\* A TLV is asked for by the entry that is neither before nor behind it; what
\* stands behind an entry does so with all later TLVs, and what does not stand
\* behind it is before all later entries.
LEMMA CompareOrder ==
  ASSUME NEW tlvs, TlvList(tlvs), NEW entries, EntryList(entries),
         NEW i \in 1..Len(tlvs), NEW j \in 1..Len(entries)
  PROVE  /\ CompareTypes(tlvs, entries, i, j) \in Int
         /\ CompareTypes(tlvs, entries, i, j) = 0 <=> OfType(entries[j], tlvs[i])
         /\ CompareTypes(tlvs, entries, i, j) > 0 =>
              \A k \in 1..Len(tlvs) : i <= k => CompareTypes(tlvs, entries, k, j) > 0
         /\ CompareTypes(tlvs, entries, i, j) <= 0 =>
              \A k \in 1..Len(entries) : j < k => CompareTypes(tlvs, entries, i, k) < 0
<1>1. PICK t, a, u, b : /\ t = tlvs[i].type /\ a = tlvs[i].ext
                        /\ u = entries[j].type /\ b = entries[j].ext
  OBVIOUS
<1>2. /\ t \in Octet /\ a \in Octet /\ u \in Octet /\ b \in AnyExt
      /\ order(tlvs[i]) = 256 * t + a
  BY <1>1, NumbersOf
<1>3. CompareTypes(tlvs, entries, i, j) = Difference(t, a, u, b)
  BY <1>1, CompareNumbers
<1>4. OfType(entries[j], tlvs[i]) <=> t = u /\ (b = -1 \/ b = a)
  BY <1>1 DEF OfType
<1>5. ASSUME Difference(t, a, u, b) > 0, NEW k \in 1..Len(tlvs), i <= k
      PROVE  CompareTypes(tlvs, entries, k, j) > 0
  <2>1. PICK v, w : v = tlvs[k].type /\ w = tlvs[k].ext
    OBVIOUS
  <2>2. v \in Octet /\ w \in Octet /\ order(tlvs[k]) = 256 * v + w
    BY <2>1, NumbersOf
  <2>3. CompareTypes(tlvs, entries, k, j) = Difference(v, w, u, b)
    BY <1>1, <2>1, CompareNumbers
  <2>4. 256 * t + a <= 256 * v + w
    <3>1. i = k \/ i < k
      BY <1>5
    <3>2. CASE i = k
      <4>1. v = t /\ w = a
        BY <1>1, <2>1, <3>2
      <4>2. t \in Int /\ a \in Int
        BY <1>2 DEF Octet
      <4> QED BY <4>1, <4>2
    <3>3. CASE i < k
      <4>1. order(tlvs[i]) <= order(tlvs[k])
        BY <3>3 DEF TlvList
      <4> QED BY <1>2, <2>2, <4>1
    <3> QED BY <3>1, <3>2, <3>3
  <2> QED BY <1>2, <1>5, <2>2, <2>3, <2>4, Differences
<1>6. ASSUME Difference(t, a, u, b) <= 0, NEW k \in 1..Len(entries), j < k
      PROVE  CompareTypes(tlvs, entries, i, k) < 0
  <2>1. PICK v, w : v = entries[k].type /\ w = entries[k].ext
    OBVIOUS
  <2>2. v \in Octet /\ w \in AnyExt
    BY <2>1, NumbersOf
  <2>3. CompareTypes(tlvs, entries, i, k) = Difference(t, a, v, w)
    BY <1>1, <2>1, CompareNumbers
  <2>4. Below(entries[j], entries[k])
    BY <1>6 DEF EntryList
  <2>5. u < v \/ (u = v /\ b # -1 /\ w # -1 /\ b < w)
    BY <1>1, <2>1, <2>4 DEF Below
  <2>6. Difference(t, a, v, w) < 0
    BY <1>2, <1>6, <2>2, <2>5, Differences
  <2> QED BY <2>3, <2>6
<1>7. PICK d : d = Difference(t, a, u, b)
  OBVIOUS
<1>8. d \in Int /\ (d = 0 <=> t = u /\ (b = -1 \/ b = a))
  <2>1. Difference(t, a, u, b) \in Int
    BY <1>2, Differences
  <2>2. Difference(t, a, u, b) = 0 => t = u /\ (b = -1 \/ b = a)
    BY <1>2, Differences
  <2>3. t = u /\ (b = -1 \/ b = a) => Difference(t, a, u, b) = 0
    BY <1>2, Differences
  <2> QED BY <1>7, <2>1, <2>2, <2>3
<1>9. /\ CompareTypes(tlvs, entries, i, j) \in Int
      /\ CompareTypes(tlvs, entries, i, j) = 0 <=> OfType(entries[j], tlvs[i])
  BY <1>3, <1>4, <1>7, <1>8
<1>10. CompareTypes(tlvs, entries, i, j) > 0 =>
         \A k \in 1..Len(tlvs) : i <= k => CompareTypes(tlvs, entries, k, j) > 0
  BY <1>3, <1>5
<1>11. CompareTypes(tlvs, entries, i, j) <= 0 =>
         \A k \in 1..Len(entries) : j < k => CompareTypes(tlvs, entries, i, k) < 0
  BY <1>3, <1>6
<1> QED BY <1>9, <1>10, <1>11

-----------------------------------------------------------------------------
(* What the consumers are told of TLVs.  'tl' holds the TLVs of every context. *)

\* Exactly the TLVs which a callback has dropped are marked.
Marks(s) ==
  \A m \in Nat, a \in Addresses, t \in Nat :
    <<m, a, t>> \in s.dropTlv <=>
      \E r \in Range(s.log) : r.message = m /\ r.addr = a /\ Drops(r, t)

\* Every call of a block callback so far is complete.
Complete(l, tl) ==
  \A i \in 1..Len(l) : l[i].cb = "block" => BlockIsComplete(l, i, tl[<<l[i].message, l[i].addr>>])

\* The states the walk of the reader goes through.
Informed(tl) == {s \in States : Marks(s) /\ Complete(s.log, tl)}

\* Only the log and the marks matter.
LEMMA InformedSame ==
  ASSUME NEW tl, NEW s \in Informed(tl), NEW t \in States, t.log = s.log, t.dropTlv = s.dropTlv
  PROVE  t \in Informed(tl)
BY DEF Informed, Marks, Complete

\* What is complete stays so.
LEMMA CompleteAppend ==
  ASSUME NEW tl, NEW l \in Seq(Callbacks), Complete(l, tl), NEW r \in Callbacks,
         NEW a, a = Append(l, r),
         r.cb = "block" => BlockIsComplete(a, Len(l) + 1, tl[<<r.message, r.addr>>])
  PROVE  Complete(a, tl)
<1>1. /\ Len(l) \in Nat /\ Len(a) = Len(l) + 1
      /\ \A i \in 1..Len(l) : a[i] = l[i]
      /\ a[Len(l) + 1] = r
  BY AppendCallback
<1>2. ASSUME NEW i \in 1..Len(l), l[i].cb = "block"
      PROVE  BlockIsComplete(a, i, tl[<<l[i].message, l[i].addr>>])
  <2>1. PICK tlvs : tlvs = tl[<<l[i].message, l[i].addr>>]
    OBVIOUS
  <2>2. BlockIsComplete(l, i, tlvs)
    BY <1>2, <2>1 DEF Complete
  <2>3. a[i] = l[i] /\ \A n \in 1..(i - 1) : a[n] = l[n]
    BY <1>1
  <2>4. \A t : DroppedBefore(a, i, t) <=> DroppedBefore(l, i, t)
    BY <2>3 DEF DroppedBefore
  <2>5. {t \in DOMAIN tlvs : ~ DroppedBefore(a, i, t)} = {t \in DOMAIN tlvs : ~ DroppedBefore(l, i, t)}
    BY <2>4
  <2>6. BlockIsComplete(a, i, tlvs)
    BY <2>2, <2>3, <2>5 DEF BlockIsComplete
  <2> QED BY <2>1, <2>6
<1>3. ASSUME NEW i \in 1..Len(a), a[i].cb = "block"
      PROVE  BlockIsComplete(a, i, tl[<<a[i].message, a[i].addr>>])
  <2>1. i \in 1..Len(l) \/ i = Len(l) + 1
    BY <1>1
  <2>2. CASE i \in 1..Len(l)
    BY <1>1, <1>2, <1>3, <2>2
  <2>3. CASE i = Len(l) + 1
    BY <1>1, <1>3, <2>3
  <2> QED BY <2>1, <2>2, <2>3
<1> QED BY <1>3 DEF Complete

\* The marks of t are those of s and the drops of the callback r.
Marking(s, r, t) ==
  \A m \in Nat, a \in Addresses, v \in Nat :
    <<m, a, v>> \in t.dropTlv <=>
      <<m, a, v>> \in s.dropTlv \/ (r.message = m /\ r.addr = a /\ Drops(r, v))

\* A callback whose drops are marked.
LEMMA MarksAppend ==
  ASSUME NEW s \in States, Marks(s), NEW r \in Callbacks, NEW y \in States, y.log = Append(s.log, r),
         Marking(s, r, y)
  PROVE  Marks(y)
<1>1. Range(y.log) = Range(s.log) \cup {r}
  <2>1. s.log \in Seq(Callbacks)
    BY DEF States
  <2> QED BY <2>1, AppendCallback
<1>2. ASSUME NEW m \in Nat, NEW a \in Addresses, NEW t \in Nat
      PROVE  <<m, a, t>> \in y.dropTlv <=>
               \E q \in Range(y.log) : q.message = m /\ q.addr = a /\ Drops(q, t)
  <2>1. PICK key : key = <<m, a, t>>
    OBVIOUS
  <2>2. key \in s.dropTlv <=> \E q \in Range(s.log) : q.message = m /\ q.addr = a /\ Drops(q, t)
    BY <2>1 DEF Marks
  <2>3. key \in y.dropTlv <=>
          key \in s.dropTlv \/ (r.message = m /\ r.addr = a /\ Drops(r, t))
    BY <2>1 DEF Marking
  <2> QED BY <1>1, <2>1, <2>2, <2>3
<1> QED BY <1>2 DEF Marks

\* A callback that is not about TLVs.
LEMMA InformedCall ==
  ASSUME NEW tl, NEW s \in Informed(tl), NEW c \in Consumers,
         NEW cb \in CallbackNames, cb \notin {"tlv", "block", "failed"}, NEW detail \in Details,
         NEW t, t = Call(s, c, cb, detail)
  PROVE  t \in Informed(tl) /\ t.message = s.message /\ t.addr = s.addr
<1>1. s \in States /\ Marks(s) /\ Complete(s.log, tl)
  BY DEF Informed
<1>2. /\ cb \notin ConsumerOf[c].cb => t = s
      /\ t \in States /\ t.message = s.message /\ t.addr = s.addr
      /\ t.dropTlv = s.dropTlv /\ t.dropAddr = s.dropAddr
  BY <1>1, CallFacts
<1>3. CASE cb \notin ConsumerOf[c].cb
  BY <1>2, <1>3
<1>4. CASE cb \in ConsumerOf[c].cb
  <2>1. PICK r \in Callbacks : r.cb = cb /\ t.log = Append(s.log, r)
    BY <1>1, <1>4, CallFacts
  <2>2. \A v : ~ Drops(r, v)
    BY <2>1 DEF Drops
  <2>3. Marks(t)
    <3>1. Marking(s, r, t)
      BY <1>2, <2>2 DEF Marking
    <3> QED BY <1>1, <1>2, <2>1, <3>1, MarksAppend
  <2>4. s.log \in Seq(Callbacks) /\ r.cb # "block"
    BY <1>1, <2>1 DEF States
  <2>5. Complete(t.log, tl)
    BY <1>1, <2>1, <2>4, CompleteAppend
  <2> QED BY <1>2, <2>3, <2>5 DEF Informed
<1> QED BY <1>3, <1>4

\* From s to y: after the answer t to the callback for TLV i.
TlvAnswered(tl, s, i, t, y) ==
  /\ y \in Informed(tl) /\ y.message = s.message /\ y.addr = s.addr
  /\ y.dropTlv = IF t.result = DROP_TLV THEN s.dropTlv \cup {<<s.message, s.addr, i>>} ELSE s.dropTlv
  /\ t.result # DROP_TLV => y = t

\* The callback for a TLV.
LEMMA InformedTlv ==
  ASSUME NEW tl, NEW s \in Informed(tl), NEW c \in Consumers, s.result = OKAY, NEW i \in Nat,
         NEW t, t = Call(s, c, "tlv", i), NEW y, y = Marked(t, i)
  PROVE  TlvAnswered(tl, s, i, t, y)
<1>1. s \in States /\ Marks(s) /\ Complete(s.log, tl)
  BY DEF Informed
<1>2. i \in Details /\ "tlv" \in CallbackNames
  <2>1. i \in Details
    BY DEF Details
  <2>2. "tlv" \in CallbackNames
    BY DEF CallbackNames
  <2> QED BY <2>1, <2>2
<1>3. /\ "tlv" \notin ConsumerOf[c].cb => t = s
      /\ t \in States /\ t.message = s.message /\ t.addr = s.addr /\ t.dropTlv = s.dropTlv
      /\ t.dropAddr = s.dropAddr
  BY <1>1, <1>2, CallFacts
<1>4. t.result # DROP_TLV => y = t
  BY DEF Marked
<1>5. CASE "tlv" \notin ConsumerOf[c].cb
  BY <1>3, <1>4, <1>5 DEF OKAY, DROP_TLV, TlvAnswered
<1>6. CASE "tlv" \in ConsumerOf[c].cb
  <2>1. PICK r \in Callbacks :
          /\ r.cb = "tlv" /\ r.message = s.message /\ r.addr = s.addr
          /\ r.detail = i /\ r.answer = t.result
          /\ t.log = Append(s.log, r)
    BY <1>1, <1>2, <1>6, CallFacts
  <2>2. \A v : Drops(r, v) <=> t.result = DROP_TLV /\ v = i
    BY <2>1 DEF Drops
  <2>3. Complete(t.log, tl)
    <3>1. s.log \in Seq(Callbacks) /\ r.cb # "block"
      BY <1>1, <2>1 DEF States
    <3> QED BY <1>1, <2>1, <3>1, CompleteAppend
  <2>4. CASE t.result # DROP_TLV
    <3>1. Marks(t)
      <4>1. Marking(s, r, t)
        BY <1>3, <2>2, <2>4 DEF Marking
      <4> QED BY <1>1, <1>3, <2>1, <4>1, MarksAppend
    <3>2. y \in Informed(tl) /\ y.message = s.message /\ y.addr = s.addr /\ y = t
      BY <1>3, <1>4, <2>3, <2>4, <3>1 DEF Informed
    <3> QED BY <1>3, <2>4, <3>2 DEF TlvAnswered
  <2>5. CASE t.result = DROP_TLV
    <3>1. y = [t EXCEPT !.dropTlv = @ \cup {<<t.message, t.addr, i>>}, !.result = OKAY]
      BY <2>5 DEF Marked
    <3>2. PICK D : D = s.dropTlv \cup {<<s.message, s.addr, i>>}
      OBVIOUS
    <3>3. D \in SUBSET (Nat \X Addresses \X Nat)
      <4>1. s.message \in Nat /\ s.addr \in Addresses /\ s.dropTlv \in SUBSET (Nat \X Addresses \X Nat)
        BY <1>1 DEF States
      <4>2. <<s.message, s.addr, i>> \in Nat \X Addresses \X Nat
        BY <4>1
      <4> QED BY <3>2, <4>1, <4>2
    <3>4. y = [t EXCEPT !.dropTlv = D, !.result = OKAY]
      BY <1>3, <3>1, <3>2
    <3>5. OKAY \in Int
      BY DEF OKAY
    <3>6. y \in States /\ y.log = t.log /\ y.message = t.message /\ y.addr = t.addr
          /\ y.dropTlv = D /\ y.result = OKAY
      BY <1>3, <3>3, <3>4, <3>5 DEF States
    <3>7. Marks(y)
      <4>1. Marking(s, r, y)
        BY <2>1, <2>2, <2>5, <3>2, <3>6 DEF Marking
      <4> QED BY <1>1, <2>1, <3>6, <4>1, MarksAppend
    <3>8. y \in Informed(tl)
      BY <2>3, <3>6, <3>7 DEF Informed
    <3> QED BY <1>3, <2>5, <3>2, <3>6, <3>8 DEF TlvAnswered
  <2> QED BY <2>4, <2>5
<1> QED BY <1>5, <1>6

-----------------------------------------------------------------------------
(* What the merge of TLVs and entries finds. *)

\* What was dropped in the context of s.
DroppedIn(s) == {v \in Nat : <<s.message, s.addr, v>> \in s.dropTlv}

\* All TLVs before i for the entry x that are not in D were found, in their order.
FoundFor(D, f, x, tlvs, idx, i) ==
  /\ \A v : v \in Range(f) <=> v \in 1..(i - 1) /\ AsksFor(x, tlvs[v], idx) /\ v \notin D
  /\ \A p, q \in 1..Len(f) : p < q => f[p] < f[q]

\* The next TLV is found if the entry asks for it and if it is not dropped.
LEMMA FoundNext ==
  ASSUME NEW D, NEW E, NEW x, NEW tlvs, NEW idx, NEW i \in Nat, i >= 1,
         NEW f \in Seq(Nat), FoundFor(D, f, x, tlvs, idx, i),
         E = D \/ E = D \cup {i}, NEW g,
         g = IF AsksFor(x, tlvs[i], idx) /\ i \notin E THEN Append(f, i) ELSE f
  PROVE  FoundFor(E, g, x, tlvs, idx, i + 1) /\ g \in Seq(Nat)
<1>1. Len(f) \in Nat /\ DOMAIN f = 1..Len(f) /\ \A p \in 1..Len(f) : f[p] \in Nat
  BY LenProperties, ElementOfSeq
<1>2. /\ \A v : v \in Range(f) <=> v \in 1..(i - 1) /\ AsksFor(x, tlvs[v], idx) /\ v \notin D
      /\ \A p, q \in 1..Len(f) : p < q => f[p] < f[q]
  BY DEF FoundFor
<1>3. \A v : v \in 1..((i + 1) - 1) <=> v \in 1..(i - 1) \/ v = i
  OBVIOUS
<1>4. \A v : v \in E <=> v \in D \/ (v = i /\ i \in E)
  OBVIOUS
<1>5. i \notin 1..(i - 1)
  OBVIOUS
<1>6. CASE AsksFor(x, tlvs[i], idx) /\ i \notin E
  <2>1. /\ g = Append(f, i) /\ g \in Seq(Nat) /\ Len(g) = Len(f) + 1
        /\ \A p \in 1..Len(f) : g[p] = f[p]
        /\ g[Len(f) + 1] = i
    BY <1>6, AppendProperties
  <2>2. DOMAIN g = 1..(Len(f) + 1)
    BY <2>1, LenProperties
  <2>3. \A p \in 1..(Len(f) + 1) : p \in 1..Len(f) \/ p = Len(f) + 1
    BY <1>1
  <2>4. \A v : v \in Range(g) <=> v \in Range(f) \/ v = i
    <3>1. \A p \in 1..Len(f) : p \in 1..(Len(f) + 1)
      BY <1>1
    <3>2. Len(f) + 1 \in 1..(Len(f) + 1)
      BY <1>1
    <3> QED BY <1>1, <2>1, <2>2, <2>3, <3>1, <3>2 DEF Range
  <2>5. ASSUME NEW p \in 1..(Len(f) + 1), NEW q \in 1..(Len(f) + 1), p < q
        PROVE  g[p] < g[q]
    <3>1. p \in 1..Len(f)
      BY <1>1, <2>5
    <3>2. CASE q \in 1..Len(f)
      BY <1>2, <2>1, <2>5, <3>1, <3>2
    <3>3. CASE q = Len(f) + 1
      <4>1. f[p] \in Range(f)
        BY <1>1, <3>1 DEF Range
      <4>2. f[p] \in 1..(i - 1)
        BY <1>2, <4>1
      <4>3. f[p] < i
        BY <4>2
      <4> QED BY <2>1, <3>1, <3>3, <4>3
    <3> QED BY <2>3, <3>2, <3>3
  <2>6. ASSUME NEW v
        PROVE  v \in Range(g) <=> v \in 1..((i + 1) - 1) /\ AsksFor(x, tlvs[v], idx) /\ v \notin E
    <3>1. CASE v = i
      BY <1>3, <1>6, <2>4, <3>1
    <3>2. CASE v # i
      BY <1>2, <1>3, <1>4, <2>4, <3>2
    <3> QED BY <3>1, <3>2
  <2> QED BY <2>1, <2>5, <2>6 DEF FoundFor
<1>7. CASE ~ (AsksFor(x, tlvs[i], idx) /\ i \notin E)
  <2>1. g = f
    BY <1>7
  <2>2. ASSUME NEW v
        PROVE  v \in Range(g) <=> v \in 1..((i + 1) - 1) /\ AsksFor(x, tlvs[v], idx) /\ v \notin E
    <3>1. CASE v = i
      BY <1>2, <1>5, <1>7, <2>1, <3>1
    <3>2. CASE v # i
      BY <1>2, <1>3, <1>4, <2>1, <3>2
    <3> QED BY <3>1, <3>2
  <2> QED BY <1>2, <2>1, <2>2 DEF FoundFor
<1> QED BY <1>6, <1>7

\* What is found for an entry satisfies its constraints.
Satisfied(x, f, tlvs, behind) ==
  /\ behind /\ x.mandatory => f # <<>>
  /\ \A v \in Range(f) : tlvs[v].length \in x.min .. x.max

\* The loop stands where all TLVs before i and all entries before j have been
\* compared.
InStep(x, D, entries, tlvs, idx, k) ==
  /\ x.i + x.j >= k + 2 \/ (x.i = Len(tlvs) + 1 /\ x.j = Len(entries) + 1)
  /\ \A t \in 1..Len(tlvs), n \in 1..Len(entries) :
       /\ t >= x.i /\ n < x.j => CompareTypes(tlvs, entries, t, n) > 0
       /\ t < x.i /\ n > x.j => CompareTypes(tlvs, entries, t, n) < 0
  /\ \A n \in 1..Len(entries) : FoundFor(D, x.found[n], entries[n], tlvs, idx, x.i)
  /\ ~ x.failed => \A n \in 1..Len(entries) : Satisfied(entries[n], x.found[n], tlvs, n < x.j)

\* After k turns.
Merged(m, a, tl, entries, tlvs, idx, k) ==
  {x \in [s : Informed(tl), i : 1..(Len(tlvs) + 1), j : 1..(Len(entries) + 1), failed : BOOLEAN,
          found : [1..Len(entries) -> Seq(Nat)]] :
     /\ x.s.message = m /\ x.s.addr = a
     /\ x.s.result = OKAY => InStep(x, DroppedIn(x.s), entries, tlvs, idx, k)}

\* The entry is behind all TLVs that ask for it.
LEMMA EntryPassed ==
  ASSUME NEW tlvs, TlvList(tlvs), NEW entries, EntryList(entries), NEW idx, NEW D, NEW k \in Nat,
         NEW x, x.i \in 1..(Len(tlvs) + 1), x.j \in 1..Len(entries),
         InStep(x, D, entries, tlvs, idx, k),
         CompareTypes(tlvs, entries, x.i, x.j) > 0,
         NEW E, E = D \/ E = D \cup {x.i},
         NEW z, z.i = x.i, z.j = x.j + 1, z.found = x.found,
         ~ z.failed => ~ x.failed /\ ~ entries[x.j].mandatory
  PROVE  InStep(z, E, entries, tlvs, idx, k + 1)
<1>1. Len(tlvs) \in Nat /\ Len(entries) \in Nat
  BY DEF TlvList, EntryList
<1>2. PICK i \in Int, j \in Int : i = x.i /\ j = x.j
  OBVIOUS
<1>3. /\ i + j >= k + 2 \/ (i = Len(tlvs) + 1 /\ j = Len(entries) + 1)
      /\ \A t \in 1..Len(tlvs), n \in 1..Len(entries) :
           /\ t >= i /\ n < j => CompareTypes(tlvs, entries, t, n) > 0
           /\ t < i /\ n > j => CompareTypes(tlvs, entries, t, n) < 0
      /\ \A n \in 1..Len(entries) : FoundFor(D, x.found[n], entries[n], tlvs, idx, i)
      /\ ~ x.failed => \A n \in 1..Len(entries) : Satisfied(entries[n], x.found[n], tlvs, n < j)
  BY <1>2 DEF InStep
<1>4. i + (j + 1) >= (k + 1) + 2
  BY <1>1, <1>2, <1>3
<1>5. ASSUME NEW t \in 1..Len(tlvs), NEW n \in 1..Len(entries), t >= i, n < j + 1
      PROVE  CompareTypes(tlvs, entries, t, n) > 0
  <2>1. CASE n < j
    BY <1>3, <1>5, <2>1
  <2>2. CASE n = j
    <3>1. i \in 1..Len(tlvs) /\ i <= t
      BY <1>1, <1>2, <1>5
    <3> QED BY <1>2, <2>2, <3>1, CompareOrder
  <2> QED BY <1>5, <2>1, <2>2
<1>6. ASSUME NEW t \in 1..Len(tlvs), NEW n \in 1..Len(entries), t < i, n > j + 1
      PROVE  CompareTypes(tlvs, entries, t, n) < 0
  <2>1. n > j
    BY <1>6
  <2> QED BY <1>3, <1>6, <2>1
<1>7. ASSUME ~ z.failed, NEW n \in 1..Len(entries)
      PROVE  Satisfied(entries[n], x.found[n], tlvs, n < j + 1)
  <2>1. Satisfied(entries[n], x.found[n], tlvs, n < j) /\ ~ entries[j].mandatory
    BY <1>2, <1>3, <1>7
  <2>2. n < j \/ n = j \/ ~ (n < j + 1)
    OBVIOUS
  <2> QED BY <2>1, <2>2 DEF Satisfied
<1>8. ASSUME NEW n \in 1..Len(entries)
      PROVE  FoundFor(E, x.found[n], entries[n], tlvs, idx, i)
  <2>1. FoundFor(D, x.found[n], entries[n], tlvs, idx, i)
    BY <1>3
  <2>2. \A v \in 1..(i - 1) : v \in E <=> v \in D
    <3>1. i \notin 1..(i - 1)
      OBVIOUS
    <3> QED BY <1>2, <3>1
  <2> QED BY <2>1, <2>2 DEF FoundFor
<1> QED BY <1>2, <1>3, <1>4, <1>5, <1>6, <1>7, <1>8 DEF InStep

\* The entry before x asks for the TLV before x, which is not in E.
Matches(x, tlvs, entries, idx, E) ==
  x.j \in 1..Len(entries) /\ AsksFor(entries[x.j], tlvs[x.i], idx) /\ x.i \notin E

\* The turn from x to z compares it with the entry and goes on to the next TLV.
TakesTlv(x, z, tlvs, entries, idx, E) ==
  /\ z.i = x.i + 1
  /\ z.j = IF CompareTypes(tlvs, entries, x.i + 1, x.j) > 0 THEN x.j + 1 ELSE x.j
  /\ z.found = IF Matches(x, tlvs, entries, idx, E) THEN [x.found EXCEPT ![x.j] = Append(@, x.i)]
               ELSE x.found
  /\ ~ z.failed =>
       /\ ~ x.failed
       /\ z.j # x.j /\ entries[x.j].mandatory => Matches(x, tlvs, entries, idx, E)
       /\ Matches(x, tlvs, entries, idx, E) =>
            tlvs[x.i].length \in entries[x.j].min .. entries[x.j].max

\* The TLV has been compared with the entry, and it is before all later ones.
LEMMA TlvPassed ==
  ASSUME NEW tlvs, TlvList(tlvs), NEW entries, EntryList(entries), NEW idx, NEW D, NEW k \in Nat,
         NEW x, x.i \in 1..Len(tlvs), x.j \in 1..(Len(entries) + 1),
         x.found \in [1..Len(entries) -> Seq(Nat)],
         InStep(x, D, entries, tlvs, idx, k),
         ~ (CompareTypes(tlvs, entries, x.i, x.j) > 0),
         NEW E, E = D \/ E = D \cup {x.i},
         NEW z, TakesTlv(x, z, tlvs, entries, idx, E)
  PROVE  /\ InStep(z, E, entries, tlvs, idx, k + 1)
         /\ z.found \in [1..Len(entries) -> Seq(Nat)]
         /\ z.i \in 1..(Len(tlvs) + 1) /\ z.j \in 1..(Len(entries) + 1)
<1>1. Len(tlvs) \in Nat /\ Len(entries) \in Nat
  BY DEF TlvList, EntryList
<1>2. PICK i \in Int, j \in Int : i = x.i /\ j = x.j
  OBVIOUS
<1>3. /\ i + j >= k + 2 \/ (i = Len(tlvs) + 1 /\ j = Len(entries) + 1)
      /\ \A t \in 1..Len(tlvs), n \in 1..Len(entries) :
           /\ t >= i /\ n < j => CompareTypes(tlvs, entries, t, n) > 0
           /\ t < i /\ n > j => CompareTypes(tlvs, entries, t, n) < 0
      /\ \A n \in 1..Len(entries) : FoundFor(D, x.found[n], entries[n], tlvs, idx, i)
      /\ ~ x.failed => \A n \in 1..Len(entries) : Satisfied(entries[n], x.found[n], tlvs, n < j)
  BY <1>2 DEF InStep
<1>23. PICK match \in BOOLEAN : match <=> Matches(x, tlvs, entries, idx, E)
  OBVIOUS
<1>19. /\ z.i = x.i + 1
       /\ z.j = IF CompareTypes(tlvs, entries, x.i + 1, x.j) > 0 THEN x.j + 1 ELSE x.j
  BY DEF TakesTlv
<1>20. \A n \in 1..Len(entries) :
         z.found[n] = IF match /\ n = j THEN Append(x.found[n], i) ELSE x.found[n]
  <2>1. CASE match
    <3>1. z.found = [x.found EXCEPT ![j] = Append(@, i)]
      BY <1>2, <1>23, <2>1 DEF TakesTlv
    <3> QED BY <2>1, <3>1
  <2>2. CASE ~ match
    BY <1>23, <2>2 DEF TakesTlv
  <2> QED BY <2>1, <2>2
<1>21. z.found = [n \in 1..Len(entries) |-> z.found[n]]
  <2>1. CASE match
    <3>1. z.found = [x.found EXCEPT ![j] = Append(@, i)]
      BY <1>2, <1>23, <2>1 DEF TakesTlv
    <3> QED BY <3>1
  <2>2. CASE ~ match
    BY <1>23, <2>2 DEF TakesTlv
  <2> QED BY <2>1, <2>2
<1>22. match <=> j \in 1..Len(entries) /\ AsksFor(entries[j], tlvs[i], idx) /\ i \notin E
  BY <1>2, <1>23 DEF Matches
<1>4. PICK g \in Int : g = z.j
  BY <1>1, <1>2, <1>19
<1>5. /\ z.i = i + 1 /\ i \in 1..Len(tlvs) /\ i + 1 \in 1..(Len(tlvs) + 1)
      /\ j \in 1..(Len(entries) + 1) /\ (g = j \/ g = j + 1)
      /\ g = j + 1 => CompareTypes(tlvs, entries, i + 1, j) > 0
  BY <1>1, <1>2, <1>4, <1>19
<1>6. g = j + 1 => j \in 1..Len(entries)
  BY <1>1, <1>5, CompareEnds
<1>7. g \in 1..(Len(entries) + 1)
  BY <1>1, <1>5, <1>6
<1>8. (i + 1) + g >= (k + 1) + 2
  BY <1>1, <1>3, <1>5
<1>9. ASSUME NEW t \in 1..Len(tlvs), NEW n \in 1..Len(entries), t >= i + 1, n < g
      PROVE  CompareTypes(tlvs, entries, t, n) > 0
  <2>1. CASE n < j
    <3>1. t >= i
      BY <1>9
    <3> QED BY <1>3, <2>1, <3>1
  <2>2. CASE ~ (n < j)
    <3>1. n = j /\ g = j + 1 /\ i + 1 \in 1..Len(tlvs) /\ i + 1 <= t
      BY <1>1, <1>5, <1>9, <2>2
    <3>2. CompareTypes(tlvs, entries, i + 1, n) > 0
      BY <1>5, <3>1
    <3> QED BY <3>1, <3>2, CompareOrder
  <2> QED BY <2>1, <2>2
<1>10. \A n \in 1..Len(entries) : n > j => CompareTypes(tlvs, entries, i, n) < 0
  <2> SUFFICES ASSUME NEW n \in 1..Len(entries), n > j PROVE CompareTypes(tlvs, entries, i, n) < 0
    OBVIOUS
  <2>1. j \in 1..Len(entries) /\ j < n
    BY <1>5
  <2>2. CompareTypes(tlvs, entries, i, j) \in Int
    BY <1>5, <2>1, CompareOrder
  <2>3. CompareTypes(tlvs, entries, i, j) <= 0
    BY <1>2, <2>2
  <2> QED BY <1>5, <2>1, <2>3, CompareOrder
<1>11. ASSUME NEW t \in 1..Len(tlvs), NEW n \in 1..Len(entries), t < i + 1, n > g
       PROVE  CompareTypes(tlvs, entries, t, n) < 0
  <2>1. n > j
    BY <1>5, <1>11
  <2>2. t < i \/ t = i
    BY <1>5, <1>11
  <2> QED BY <1>3, <1>10, <2>1, <2>2
<1>12. ASSUME NEW n \in 1..Len(entries), n # j PROVE ~ OfType(entries[n], tlvs[i])
  <2>1. PICK d \in Int : d = CompareTypes(tlvs, entries, i, n)
    BY <1>5, CompareOrder
  <2>2. d > 0 \/ d < 0
    <3>1. n < j \/ n > j
      BY <1>12
    <3> QED BY <1>3, <1>5, <1>10, <2>1, <3>1
  <2>3. d # 0
    BY <2>2
  <2>4. CompareTypes(tlvs, entries, i, n) = 0 <=> OfType(entries[n], tlvs[i])
    BY <1>5, CompareOrder
  <2> QED BY <2>1, <2>3, <2>4
<1>13. \A n \in 1..Len(entries) : n # j => ~ AsksFor(entries[n], tlvs[i], idx)
  BY <1>12 DEF AsksFor, OfType
<1>14. \A n \in 1..Len(entries) :
         z.found[n] = IF AsksFor(entries[n], tlvs[i], idx) /\ i \notin E THEN Append(x.found[n], i)
                      ELSE x.found[n]
  <2> SUFFICES ASSUME NEW n \in 1..Len(entries)
      PROVE  z.found[n] = IF AsksFor(entries[n], tlvs[i], idx) /\ i \notin E THEN Append(x.found[n], i)
                          ELSE x.found[n]
    OBVIOUS
  <2>1. CASE n # j
    BY <1>13, <1>20, <2>1
  <2>2. CASE n = j
    BY <1>20, <1>22, <2>2
  <2> QED BY <2>1, <2>2
<1>15. \A n \in 1..Len(entries) :
         FoundFor(E, z.found[n], entries[n], tlvs, idx, i + 1) /\ z.found[n] \in Seq(Nat)
  <2> SUFFICES ASSUME NEW n \in 1..Len(entries)
      PROVE  FoundFor(E, z.found[n], entries[n], tlvs, idx, i + 1) /\ z.found[n] \in Seq(Nat)
    OBVIOUS
  <2>1. PICK f, h, e : f = x.found[n] /\ h = z.found[n] /\ e = entries[n]
    OBVIOUS
  <2>2. f \in Seq(Nat) /\ FoundFor(D, f, e, tlvs, idx, i) /\ (E = D \/ E = D \cup {i})
    BY <1>2, <1>3, <2>1
  <2>3. h = IF AsksFor(e, tlvs[i], idx) /\ i \notin E THEN Append(f, i) ELSE f
    BY <1>14, <2>1
  <2>4. i \in Nat /\ i >= 1
    BY <1>5
  <2>5. FoundFor(E, h, e, tlvs, idx, i + 1) /\ h \in Seq(Nat)
    BY <2>2, <2>3, <2>4, FoundNext
  <2> QED BY <2>1, <2>5
<1>16. z.found \in [1..Len(entries) -> Seq(Nat)]
  BY <1>15, <1>21
<1>17. ASSUME ~ z.failed, NEW n \in 1..Len(entries)
       PROVE  Satisfied(entries[n], z.found[n], tlvs, n < g)
  <2>1. /\ Satisfied(entries[n], x.found[n], tlvs, n < j)
        /\ g # j /\ entries[j].mandatory => match
        /\ match => tlvs[i].length \in entries[j].min .. entries[j].max
    <3>1. ~ x.failed
      BY <1>17 DEF TakesTlv
    <3> QED BY <1>2, <1>3, <1>4, <1>17, <1>23, <3>1 DEF TakesTlv
  <2>2. x.found[n] \in Seq(Nat)
    OBVIOUS
  <2>3. CASE n # j
    <3>1. z.found[n] = x.found[n]
      BY <1>20, <2>3
    <3>2. n < g => n < j
      BY <1>5, <2>3
    <3> QED BY <2>1, <3>1, <3>2 DEF Satisfied
  <2>4. CASE n = j /\ ~ match
    <3>1. z.found[n] = x.found[n]
      BY <1>20, <2>4
    <3>2. n < g => g # j
      BY <1>5, <2>4
    <3> QED BY <2>1, <2>4, <3>1, <3>2 DEF Satisfied
  <2>5. CASE n = j /\ match
    <3>1. PICK f, h : f = x.found[n] /\ h = z.found[n] /\ f \in Seq(Nat)
      BY <2>2
    <3>2. h = Append(f, i)
      <4>1. z.found[n] = Append(x.found[n], i)
        BY <1>20, <2>5
      <4> QED BY <3>1, <4>1
    <3>3. /\ h \in Seq(Nat) /\ Len(f) \in Nat /\ Len(h) = Len(f) + 1
          /\ \A p \in 1..Len(f) : h[p] = f[p]
          /\ h[Len(f) + 1] = i
      <4>1. i \in Nat
        BY <1>5
      <4>2. Append(f, i) \in Seq(Nat) /\ Len(Append(f, i)) = Len(f) + 1 /\ Append(f, i)[Len(f) + 1] = i
            /\ \A p \in 1..Len(f) : Append(f, i)[p] = f[p]
        BY <3>1, <4>1, AppendProperties
      <4>3. Len(f) \in Nat
        BY <3>1, LenProperties
      <4> QED BY <3>2, <4>2, <4>3
    <3>4. DOMAIN h = 1..(Len(f) + 1) /\ DOMAIN f = 1..Len(f)
      BY <3>3, LenProperties
    <3>5. \A p \in 1..(Len(f) + 1) : p \in 1..Len(f) \/ p = Len(f) + 1
      BY <3>3
    <3>6. \A v \in Range(h) : v \in Range(f) \/ v = i
      BY <3>3, <3>4, <3>5 DEF Range
    <3>7. h # <<>>
      BY <3>3
    <3>8. \A v \in Range(h) : tlvs[v].length \in entries[n].min .. entries[n].max
      BY <2>1, <2>5, <3>1, <3>6 DEF Satisfied
    <3> QED BY <3>1, <3>7, <3>8 DEF Satisfied
  <2> QED BY <2>3, <2>4, <2>5
<1>18. InStep(z, E, entries, tlvs, idx, k + 1)
  <2>1. z.i = i + 1 /\ z.j = g
    BY <1>2, <1>4, <1>19
  <2> QED BY <1>8, <1>9, <1>11, <1>15, <1>17, <2>1 DEF InStep
<1> QED BY <1>4, <1>5, <1>7, <1>16, <1>18

\* One turn of the loop, after the callback.  'D' was dropped before.
LEMMA ComparedMerged ==
  ASSUME NEW m, NEW a, NEW tl, NEW tlvs, TlvList(tlvs), NEW entries, EntryList(entries), NEW idx,
         NEW k \in Nat, NEW x \in Merged(m, a, tl, entries, tlvs, idx, k), x.s.result = OKAY,
         ~ (x.i > Len(tlvs) /\ x.j > Len(entries)),
         NEW called \in BOOLEAN, called <=> IndexMatch(x, tlvs, idx),
         NEW t, t.result = DROP_TLV => called,
         NEW y \in Informed(tl), y = Marked(t, x.i), y.message = m, y.addr = a,
         y.dropTlv = IF t.result = DROP_TLV THEN x.s.dropTlv \cup {<<m, a, x.i>>} ELSE x.s.dropTlv,
         t.result # DROP_TLV => y = t,
         NEW u, u = [x EXCEPT !.s = t]
  PROVE  Compared(u, entries, tlvs, called) \in Merged(m, a, tl, entries, tlvs, idx, k + 1)
<1> DEFINE D == DroppedIn(x.s)
           E == DroppedIn(y)
<1>1. /\ x.i \in 1..(Len(tlvs) + 1) /\ x.j \in 1..(Len(entries) + 1) /\ x.failed \in BOOLEAN
      /\ x.found \in [1..Len(entries) -> Seq(Nat)]
      /\ InStep(x, D, entries, tlvs, idx, k) /\ x.s.message = m /\ x.s.addr = a
  BY DEF Merged
<1>2. Len(tlvs) \in Nat /\ Len(entries) \in Nat
  BY DEF TlvList, EntryList
<1>3. /\ u.s = t /\ u.i = x.i /\ u.j = x.j /\ u.failed = x.failed /\ u.found = x.found
      /\ u = [s |-> t, i |-> x.i, j |-> x.j, failed |-> x.failed, found |-> x.found]
  BY DEF Merged
<1>4. E = IF t.result = DROP_TLV THEN D \cup {x.i} ELSE D
  <2>1. x.i \in Nat
    BY <1>1, <1>2
  <2>2. \A v \in Nat : <<m, a, v>> \in y.dropTlv <=>
                         <<m, a, v>> \in x.s.dropTlv \/ (t.result = DROP_TLV /\ v = x.i)
    OBVIOUS
  <2> QED BY <1>1, <2>1, <2>2 DEF DroppedIn
<1>5. called <=> x.i <= Len(tlvs) /\ x.i \notin D /\ idx \in tlvs[x.i].index1 .. tlvs[x.i].index2
  <2>1. x.i \in Nat
    BY <1>1, <1>2
  <2>2. x.i \in D <=> <<m, a, x.i>> \in x.s.dropTlv
    BY <1>1, <2>1 DEF DroppedIn
  <2> QED BY <1>1, <2>2 DEF IndexMatch
<1> HIDE DEF D, E
<1>6. CASE t.result \notin {OKAY, DROP_TLV}
  <2>1. Compared(u, entries, tlvs, called) = u /\ y = t
    BY <1>3, <1>6 DEF Compared
  <2>2. PICK f \in BOOLEAN : f = x.failed
    BY <1>1
  <2>3. u = [s |-> y, i |-> x.i, j |-> x.j, failed |-> f, found |-> x.found] /\ y.result # OKAY
    BY <1>3, <1>6, <2>1, <2>2
  <2>4. [s |-> y, i |-> x.i, j |-> x.j, failed |-> f, found |-> x.found]
          \in Merged(m, a, tl, entries, tlvs, idx, k + 1)
    BY <1>1, <2>3 DEF Merged
  <2> QED BY <2>1, <2>3, <2>4
<1>7. CASE t.result \in {OKAY, DROP_TLV}
  <2> DEFINE first == CompareTypes(tlvs, entries, u.i, u.j)
             i == IF u.i <= Len(tlvs) /\ first <= 0 THEN u.i + 1 ELSE u.i
             advance == CompareTypes(tlvs, entries, i, u.j) > 0
             match == called /\ u.j <= Len(entries) /\ u.s.result # DROP_TLV /\ first = 0
             missing == u.j <= Len(entries) /\ entries[u.j].mandatory /\ ~ match
             length == match /\ ~ tlvs[u.i].length \in entries[u.j].min .. entries[u.j].max
             j == IF advance THEN u.j + 1 ELSE u.j
             failed == u.failed \/ (first >= 0 /\ (missing \/ length)) \/ (advance /\ missing)
             found == IF match THEN [u.found EXCEPT ![u.j] = Append(@, u.i)] ELSE u.found
             z == [s |-> y, i |-> i, j |-> j, failed |-> failed, found |-> found]
  <2>1. Compared(u, entries, tlvs, called) = z
    BY <1>3, <1>7 DEF Compared
  <2>2. failed \in BOOLEAN
    <3>1. PICK p \in BOOLEAN, q \in BOOLEAN, r \in BOOLEAN :
            p = u.failed /\ q = (first >= 0 /\ (missing \/ length)) /\ r = (advance /\ missing)
      BY <1>1, <1>3
    <3>2. failed = (p \/ q \/ r)
      BY <3>1
    <3> HIDE DEF failed
    <3> QED BY <3>2
  <2>3. first = CompareTypes(tlvs, entries, x.i, x.j) /\ first \in Int
    BY <1>1, <1>3, CompareEnds
  <2>4. match \in BOOLEAN /\ (match <=> called /\ x.j <= Len(entries) /\ t.result # DROP_TLV /\ first = 0)
    BY <1>3
  <2>5. /\ z.s = y /\ z.i = i /\ z.j = j /\ z.failed = failed /\ z.found = found
    OBVIOUS
  <2> HIDE DEF z
  <2>6. failed <=> \/ x.failed
                   \/ first >= 0 /\ (missing \/ length)
                   \/ advance /\ missing
    BY <1>3
  <2>7. /\ missing <=> x.j <= Len(entries) /\ entries[x.j].mandatory /\ ~ match
        /\ length <=> match /\ ~ tlvs[x.i].length \in entries[x.j].min .. entries[x.j].max
    BY <1>3
  <2>8. found = IF match THEN [x.found EXCEPT ![x.j] = Append(@, x.i)] ELSE x.found
    BY <1>3
  <2>9. i = IF x.i <= Len(tlvs) /\ first <= 0 THEN x.i + 1 ELSE x.i
    BY <1>3
  <2>10. j = IF CompareTypes(tlvs, entries, i, x.j) > 0 THEN x.j + 1 ELSE x.j
    BY <1>3
  <2>11. advance <=> CompareTypes(tlvs, entries, i, x.j) > 0
    BY <1>3
  <2> HIDE DEF match, missing, length, failed, found, i, j, advance, first
  <2>14. ASSUME InStep(z, E, entries, tlvs, idx, k + 1), z.found \in [1..Len(entries) -> Seq(Nat)],
                z.i \in 1..(Len(tlvs) + 1), z.j \in 1..(Len(entries) + 1)
         PROVE  z \in Merged(m, a, tl, entries, tlvs, idx, k + 1)
    <3>1. z.s = y /\ z.failed \in BOOLEAN
      BY <2>2, <2>5
    <3>2. z \in [s : Informed(tl), i : 1..(Len(tlvs) + 1), j : 1..(Len(entries) + 1), failed : BOOLEAN,
                 found : [1..Len(entries) -> Seq(Nat)]]
      <4>1. z = [s |-> z.s, i |-> z.i, j |-> z.j, failed |-> z.failed, found |-> z.found]
        BY DEF z
      <4> QED BY <2>14, <3>1, <4>1
    <3> QED BY <2>14, <3>1, <3>2 DEF Merged, E
  <2>12. CASE first > 0
    <3>1. x.j \in 1..Len(entries)
      BY <1>1, <2>3, <2>12, CompareEnds
    <3>2. i = x.i /\ j = x.j + 1 /\ advance /\ ~ match /\ found = x.found
      <4>1. ~ (first <= 0) /\ first # 0
        BY <2>3, <2>12
      <4>2. i = x.i
        BY <2>9, <4>1
      <4> QED BY <2>3, <2>4, <2>8, <2>10, <2>11, <2>12, <4>1, <4>2
    <3>3. ~ failed => ~ x.failed /\ ~ entries[x.j].mandatory
      <4>1. x.j <= Len(entries)
        BY <3>1
      <4> QED BY <2>6, <2>7, <3>2, <4>1
    <3>4. E = D \/ E = D \cup {x.i}
      BY <1>4
    <3>5. InStep(z, E, entries, tlvs, idx, k + 1)
      BY <1>1, <2>3, <2>5, <2>12, <3>1, <3>2, <3>3, <3>4, EntryPassed
    <3>6. z.i \in 1..(Len(tlvs) + 1) /\ z.j \in 1..(Len(entries) + 1)
      BY <1>1, <1>2, <2>5, <3>1, <3>2
    <3>7. z.found \in [1..Len(entries) -> Seq(Nat)]
      BY <1>1, <2>5, <3>2
    <3> QED BY <2>1, <2>14, <3>5, <3>6, <3>7
  <2>13. CASE ~ (first > 0)
    <3>1. x.i \in 1..Len(tlvs)
      <4>1. x.i > Len(tlvs) => x.j \in 1..Len(entries)
        BY <1>1, <1>2
      <4>2. ~ (x.i > Len(tlvs))
        BY <1>1, <2>3, <2>13, <4>1, CompareEnds
      <4> QED BY <1>1, <1>2, <4>2
    <3>2. first <= 0 /\ i = x.i + 1
      <4>1. first <= 0
        BY <2>3, <2>13
      <4>2. x.i <= Len(tlvs)
        BY <3>1
      <4> QED BY <2>9, <4>1, <4>2
    <3>3. x.i \in E <=> x.i \in D \/ t.result = DROP_TLV
      BY <1>4
    <3>4. match <=> /\ x.j \in 1..Len(entries)
                    /\ AsksFor(entries[x.j], tlvs[x.i], idx) /\ x.i \notin E
      <4>1. CASE x.j \in 1..Len(entries)
        <5>1. first = 0 <=> OfType(entries[x.j], tlvs[x.i])
          BY <2>3, <3>1, <4>1, CompareOrder
        <5>2. AsksFor(entries[x.j], tlvs[x.i], idx)
                <=> OfType(entries[x.j], tlvs[x.i]) /\ idx \in tlvs[x.i].index1 .. tlvs[x.i].index2
          BY DEF AsksFor, OfType
        <5>3. x.j <= Len(entries) /\ x.i <= Len(tlvs)
          BY <3>1, <4>1
        <5> QED BY <1>5, <2>4, <3>3, <4>1, <5>1, <5>2, <5>3
      <4>2. CASE x.j \notin 1..Len(entries)
        <5>1. ~ (x.j <= Len(entries))
          BY <1>1, <4>2
        <5> QED BY <2>4, <4>2, <5>1
      <4> QED BY <4>1, <4>2
    <3>5. j = IF CompareTypes(tlvs, entries, x.i + 1, x.j) > 0 THEN x.j + 1 ELSE x.j
      BY <2>10, <3>2
    <3>6. j # x.j => advance /\ x.j <= Len(entries)
      <4>1. j # x.j => CompareTypes(tlvs, entries, x.i + 1, x.j) > 0
        BY <3>5
      <4>2. x.i + 1 \in 1..(Len(tlvs) + 1)
        BY <1>2, <3>1
      <4>3. j # x.j => x.j \in 1..Len(entries)
        BY <1>1, <4>1, <4>2, CompareEnds
      <4> QED BY <2>11, <3>2, <4>1, <4>3
    <3>7. ~ failed => ~ x.failed /\ ~ (advance /\ missing) /\ ~ (first >= 0 /\ (missing \/ length))
      BY <2>6
    <3>8. ~ failed /\ j # x.j /\ entries[x.j].mandatory => match
      BY <2>7, <3>6, <3>7
    <3>9. match => first >= 0
      BY <2>4
    <3>10. ~ failed /\ match => tlvs[x.i].length \in entries[x.j].min .. entries[x.j].max
      BY <2>7, <3>7, <3>9
    <3>11. E = D \/ E = D \cup {x.i}
      BY <1>4
    <3>12. /\ InStep(z, E, entries, tlvs, idx, k + 1)
           /\ z.found \in [1..Len(entries) -> Seq(Nat)]
           /\ z.i \in 1..(Len(tlvs) + 1) /\ z.j \in 1..(Len(entries) + 1)
      <4>2. match <=> Matches(x, tlvs, entries, idx, E)
        BY <3>4 DEF Matches
      <4>3. TakesTlv(x, z, tlvs, entries, idx, E)
        <5>1. z.i = x.i + 1
          BY <2>5, <3>2
        <5>2. z.j = IF CompareTypes(tlvs, entries, x.i + 1, x.j) > 0 THEN x.j + 1 ELSE x.j
          BY <2>5, <3>5
        <5>3. z.found = IF Matches(x, tlvs, entries, idx, E) THEN [x.found EXCEPT ![x.j] = Append(@, x.i)]
                        ELSE x.found
          BY <2>5, <2>8, <4>2
        <5>4. ~ z.failed => ~ x.failed
          BY <2>5, <3>7
        <5>5. ~ z.failed /\ Matches(x, tlvs, entries, idx, E) =>
                tlvs[x.i].length \in entries[x.j].min .. entries[x.j].max
          BY <2>5, <3>10, <4>2
        <5>6. ~ z.failed /\ z.j # x.j /\ entries[x.j].mandatory => Matches(x, tlvs, entries, idx, E)
          BY <2>5, <3>8, <4>2
        <5> QED BY <5>1, <5>2, <5>3, <5>4, <5>5, <5>6 DEF TakesTlv
      <4>4. ~ (CompareTypes(tlvs, entries, x.i, x.j) > 0)
        BY <2>3, <2>13
      <4>6. x.j \in 1..(Len(entries) + 1) /\ x.found \in [1..Len(entries) -> Seq(Nat)]
            /\ InStep(x, D, entries, tlvs, idx, k)
        BY <1>1
      <4> QED BY <3>1, <3>11, <4>3, <4>4, <4>6, TlvPassed
    <3> QED BY <2>1, <2>14, <3>12
  <2> QED BY <2>1, <2>12, <2>13
<1> QED BY <1>6, <1>7

\* One turn of the loop.
LEMMA NextTurnMerged ==
  ASSUME NEW m \in Nat, NEW a, NEW tl, NEW c \in Consumers,
         NEW tlvs, TlvList(tlvs), NEW entries, EntryList(entries), NEW idx,
         NEW k \in Nat, NEW x \in Merged(m, a, tl, entries, tlvs, idx, k)
  PROVE  NextTurn(x, c, entries, tlvs, idx) \in Merged(m, a, tl, entries, tlvs, idx, k + 1)
<1>1. /\ x.s \in Informed(tl) /\ x.s.message = m /\ x.s.addr = a
      /\ x.i \in 1..(Len(tlvs) + 1) /\ x.j \in 1..(Len(entries) + 1)
      /\ x.s.result = OKAY => InStep(x, DroppedIn(x.s), entries, tlvs, idx, k)
  BY DEF Merged
<1>2. Len(tlvs) \in Nat /\ Len(entries) \in Nat
  BY DEF TlvList, EntryList
<1>3. CASE x.s.result # OKAY \/ (x.i > Len(tlvs) /\ x.j > Len(entries))
  <2>1. NextTurn(x, c, entries, tlvs, idx) = x
    BY <1>3 DEF NextTurn
  <2>2. x.s.result = OKAY => InStep(x, DroppedIn(x.s), entries, tlvs, idx, k + 1)
    <3>1. x.i > Len(tlvs) /\ x.j > Len(entries) => x.i = Len(tlvs) + 1 /\ x.j = Len(entries) + 1
      BY <1>1, <1>2
    <3> QED BY <1>1, <1>3, <3>1 DEF InStep
  <2> QED BY <2>1, <2>2 DEF Merged
<1>4. CASE ~ (x.s.result # OKAY \/ (x.i > Len(tlvs) /\ x.j > Len(entries))) /\ IndexMatch(x, tlvs, idx)
  <2>1. PICK t : t = Call(x.s, c, "tlv", x.i)
    OBVIOUS
  <2>2. PICK y : y = Marked(t, x.i)
    OBVIOUS
  <2>3. x.s.result = OKAY /\ x.i \in Nat
    BY <1>1, <1>2, <1>4
  <2>4. /\ y \in Informed(tl) /\ y.message = m /\ y.addr = a
        /\ y.dropTlv = IF t.result = DROP_TLV THEN x.s.dropTlv \cup {<<m, a, x.i>>} ELSE x.s.dropTlv
        /\ t.result # DROP_TLV => y = t
    <3>1. PICK v \in Informed(tl), n \in Nat : v = x.s /\ n = x.i
      BY <1>1, <2>3
    <3>2. v.result = OKAY /\ t = Call(v, c, "tlv", n) /\ y = Marked(t, n)
      BY <2>1, <2>2, <2>3, <3>1
    <3>3. TlvAnswered(tl, v, n, t, y)
      BY <3>1, <3>2, InformedTlv
    <3>4. v.message = m /\ v.addr = a
      BY <1>1, <3>1
    <3> QED BY <3>1, <3>3, <3>4 DEF TlvAnswered
  <2>5. NextTurn(x, c, entries, tlvs, idx) = Compared([x EXCEPT !.s = t], entries, tlvs, TRUE)
    BY <1>4, <2>1 DEF NextTurn
  <2>6. PICK u : u = [x EXCEPT !.s = t]
    OBVIOUS
  <2>7. Compared(u, entries, tlvs, TRUE) \in Merged(m, a, tl, entries, tlvs, idx, k + 1)
    <3>1. PICK b \in BOOLEAN : b = TRUE
      OBVIOUS
    <3>2. (b <=> IndexMatch(x, tlvs, idx)) /\ (t.result = DROP_TLV => b)
      BY <1>4, <3>1
    <3>3. ~ (x.i > Len(tlvs) /\ x.j > Len(entries))
      BY <1>4
    <3>4. Compared(u, entries, tlvs, b) \in Merged(m, a, tl, entries, tlvs, idx, k + 1)
      BY <2>2, <2>3, <2>4, <2>6, <3>2, <3>3, ComparedMerged
    <3> QED BY <3>1, <3>4
  <2> QED BY <2>5, <2>6, <2>7
<1>5. CASE ~ (x.s.result # OKAY \/ (x.i > Len(tlvs) /\ x.j > Len(entries))) /\ ~ IndexMatch(x, tlvs, idx)
  <2>1. NextTurn(x, c, entries, tlvs, idx) = Compared(x, entries, tlvs, FALSE)
    BY <1>5 DEF NextTurn
  <2>2. x.s = Marked(x.s, x.i) /\ x.s.result = OKAY /\ x.s.result # DROP_TLV
    BY <1>5 DEF Marked, OKAY, DROP_TLV
  <2>3. PICK u : u = [x EXCEPT !.s = x.s]
    OBVIOUS
  <2>4. u = x
    BY <2>3 DEF Merged
  <2>5. Compared(u, entries, tlvs, FALSE) \in Merged(m, a, tl, entries, tlvs, idx, k + 1)
    BY <1>1, <1>5, <2>2, <2>3, ComparedMerged
  <2> QED BY <2>1, <2>4, <2>5
<1> QED BY <1>3, <1>4, <1>5

\* The whole loop.
LEMMA MergeMerged ==
  ASSUME NEW m \in Nat, NEW a, NEW tl, NEW c \in Consumers,
         NEW tlvs, TlvList(tlvs), NEW entries, EntryList(entries), NEW idx,
         NEW s \in Informed(tl), s.message = m, s.addr = a
  PROVE  Merge(s, c, entries, tlvs, idx)
           \in Merged(m, a, tl, entries, tlvs, idx, Len(tlvs) + Len(entries))
<1> DEFINE n == Len(tlvs) + Len(entries)
           S == [k \in 0..n |-> Merged(m, a, tl, entries, tlvs, idx, k)]
           s0 == [s |-> [s EXCEPT !.result = OKAY], i |-> 1, j |-> 1, failed |-> FALSE,
                  found |-> [k \in 1 .. Len(entries) |-> <<>>]]
           F == [k \in 1..n |-> [x \in S[k - 1] |-> NextTurn(x, c, entries, tlvs, idx)]]
           Is(f) == f = [k \in 0..n |-> IF k = 0 THEN s0 ELSE NextTurn(f[k - 1], c, entries, tlvs, idx)]
           turn == CHOOSE f : Is(f)
<1>1. Merge(s, c, entries, tlvs, idx) = turn[n]
  BY DEF Merge
<1>2. n \in Nat /\ 0 \in 0..n /\ n \in 0..n
      /\ \A k \in 1..n : k - 1 \in 0..n /\ k \in 0..n /\ k # 0 /\ k - 1 \in Nat /\ (k - 1) + 1 = k
  BY DEF TlvList, EntryList
<1>3. \A k \in 0..n : S[k] = Merged(m, a, tl, entries, tlvs, idx, k)
  OBVIOUS
<1>4. s0 \in Merged(m, a, tl, entries, tlvs, idx, 0)
  <2>1. PICK y : y = [s EXCEPT !.result = OKAY]
    OBVIOUS
  <2>2. y \in Informed(tl) /\ y.message = m /\ y.addr = a
    <3>1. s \in States /\ OKAY \in Int
      BY DEF Informed, OKAY
    <3>2. y \in States /\ y.log = s.log /\ y.dropTlv = s.dropTlv /\ y.message = m /\ y.addr = a
      BY <2>1, <3>1 DEF States
    <3> QED BY <3>2, InformedSame
  <2>3. PICK g : g = [k \in 1 .. Len(entries) |-> <<>>]
    OBVIOUS
  <2>4. /\ g \in [1..Len(entries) -> Seq(Nat)]
        /\ \A k \in 1..Len(entries) : g[k] = <<>> /\ Range(g[k]) = {} /\ Len(g[k]) = 0
    BY <2>3 DEF Range
  <2>5. s0 = [s |-> y, i |-> 1, j |-> 1, failed |-> FALSE, found |-> g]
    BY <2>1, <2>3
  <2>6. s0.s = y /\ s0.i = 1 /\ s0.j = 1 /\ s0.failed = FALSE /\ s0.found = g
    BY <2>5
  <2> HIDE DEF s0
  <2>7. Len(tlvs) \in Nat /\ Len(entries) \in Nat
    BY DEF TlvList, EntryList
  <2>8. PICK D : D = DroppedIn(y)
    OBVIOUS
  <2>9. \A k \in 1..Len(entries) : FoundFor(D, g[k], entries[k], tlvs, idx, 1)
    <3>1. \A v : v \notin 1..(1 - 1)
      OBVIOUS
    <3>2. \A v : v \notin 1..0
      OBVIOUS
    <3> QED BY <2>4, <3>1, <3>2 DEF FoundFor
  <2>10. \A k \in 1..Len(entries) : Satisfied(entries[k], g[k], tlvs, k < 1)
    <3>1. \A k \in 1..Len(entries) : ~ (k < 1)
      OBVIOUS
    <3> QED BY <2>4, <3>1 DEF Satisfied
  <2>11. \A t \in 1..Len(tlvs), k \in 1..Len(entries) : ~ (k < 1) /\ ~ (t < 1)
    OBVIOUS
  <2>12. InStep(s0, D, entries, tlvs, idx, 0)
    BY <2>6, <2>9, <2>10, <2>11 DEF InStep
  <2>13. 1 \in 1..(Len(tlvs) + 1) /\ 1 \in 1..(Len(entries) + 1)
    BY <2>7
  <2>14. s0 \in [s : Informed(tl), i : 1..(Len(tlvs) + 1), j : 1..(Len(entries) + 1), failed : BOOLEAN,
                 found : [1..Len(entries) -> Seq(Nat)]]
    BY <2>2, <2>4, <2>5, <2>13
  <2> QED BY <2>2, <2>6, <2>8, <2>12, <2>14 DEF Merged
<1> HIDE DEF n, S, s0
<1>5. s0 \in S[0]
  BY <1>2, <1>3, <1>4
<1>6. ASSUME NEW k \in 1..n, NEW x \in S[k - 1]
      PROVE  NextTurn(x, c, entries, tlvs, idx) \in S[k]
  <2>1. k - 1 \in 0..n /\ k \in 0..n /\ k - 1 \in Nat /\ (k - 1) + 1 = k
    BY <1>2
  <2>2. x \in Merged(m, a, tl, entries, tlvs, idx, k - 1)
    BY <1>3, <2>1
  <2>3. NextTurn(x, c, entries, tlvs, idx) \in Merged(m, a, tl, entries, tlvs, idx, (k - 1) + 1)
    BY <2>1, <2>2, NextTurnMerged
  <2> QED BY <1>3, <2>1, <2>3
<1>7. PICK g : IsWalk(g, S, s0, n, F)
  <2>1. \A k \in 1..n : F[k] \in [S[k - 1] -> S[k]]
    BY <1>6
  <2> HIDE DEF F
  <2> QED BY <1>2, <1>5, <2>1, WalkThrough
<1>8. \A k \in 1..n : g[k] = NextTurn(g[k - 1], c, entries, tlvs, idx)
  BY <1>2, <1>7 DEF IsWalk
<1>9. Is(g)
  <2>1. \A k \in 0..n : k = 0 \/ k \in 1..n
    BY <1>2
  <2> HIDE DEF F
  <2> QED BY <1>7, <1>8, <2>1 DEF IsWalk
<1>10. Is(turn)
  BY <1>9 DEF turn
<1> HIDE DEF turn
<1>11. turn[0] = s0 /\ \A k \in 1..n : turn[k] = NextTurn(turn[k - 1], c, entries, tlvs, idx)
  <2>1. \A k \in 0..n : turn[k] = IF k = 0 THEN s0 ELSE NextTurn(turn[k - 1], c, entries, tlvs, idx)
    BY <1>10
  <2> QED BY <1>2, <2>1
<1>12. turn[n] \in S[n]
  <2>1. turn[0] \in S[0] /\ \A k \in 1..n : turn[k - 1] \in S[k - 1] => turn[k] \in S[k]
    BY <1>5, <1>6, <1>11
  <2> HIDE DEF Is, F
  <2> QED BY <1>2, <2>1, StaysAlong
<1> QED BY <1>1, <1>2, <1>3, <1>12 DEF n

\* What the whole merge has found is what a block callback has to be told.
LEMMA FoundComplete ==
  ASSUME NEW tl, NEW s \in Informed(tl), NEW c \in Consumers,
         NEW tlvs, TlvList(tlvs), NEW entries, EntryList(entries), entries = EntriesOf(c),
         NEW idx, idx = IndexOf(s.addr),
         NEW x, x.s = s, InStep(x, DroppedIn(s), entries, tlvs, idx, Len(tlvs) + Len(entries)),
         x.i \in 1..(Len(tlvs) + 1), x.j \in 1..(Len(entries) + 1),
         x.found \in [1..Len(entries) -> Seq(Nat)], ~ x.failed,
         NEW r \in Callbacks, r.consumer = c, r.message = s.message, r.addr = s.addr, r.detail = x.found,
         NEW l, l = Append(s.log, r)
  PROVE  BlockIsComplete(l, Len(s.log) + 1, tlvs)
<1>1. Len(tlvs) \in Nat /\ Len(entries) \in Nat /\ DOMAIN tlvs = 1..Len(tlvs) /\ DOMAIN entries = 1..Len(entries)
  BY DEF TlvList, EntryList
<1>2. s \in States /\ Marks(s)
  BY DEF Informed
<1>3. s.log \in Seq(Callbacks) /\ s.message \in Nat /\ s.addr \in Addresses
  BY <1>2 DEF States
<1>4. PICK p : p = Len(s.log) + 1
  OBVIOUS
<1>5. /\ p \in Nat /\ l[p] = r /\ p - 1 = Len(s.log)
      /\ \A n \in 1..(p - 1) : l[n] = s.log[n]
      /\ Range(s.log) = {s.log[n] : n \in 1..(p - 1)}
  <2>1. /\ Len(s.log) \in Nat
        /\ \A n \in 1..Len(s.log) : l[n] = s.log[n]
        /\ l[Len(s.log) + 1] = r
        /\ Range(s.log) = {s.log[n] : n \in 1..Len(s.log)}
    BY <1>3, AppendCallback
  <2>2. p \in Nat /\ p - 1 = Len(s.log)
    BY <1>4, <2>1
  <2> QED BY <1>4, <2>1, <2>2
<1>6. x.i = Len(tlvs) + 1 /\ x.j = Len(entries) + 1
  BY <1>1 DEF InStep
<1>7. \A t \in 1..Len(tlvs) : DroppedBefore(l, p, t) <=> t \in DroppedIn(s)
  <2> SUFFICES ASSUME NEW t \in 1..Len(tlvs)
      PROVE  DroppedBefore(l, p, t) <=> t \in DroppedIn(s)
    OBVIOUS
  <2>1. t \in Nat
    OBVIOUS
  <2>2. t \in DroppedIn(s) <=>
          \E q \in Range(s.log) : q.message = s.message /\ q.addr = s.addr /\ Drops(q, t)
    <3>1. PICK m \in Nat, a \in Addresses : m = s.message /\ a = s.addr
      BY <1>3
    <3>2. <<m, a, t>> \in s.dropTlv <=> \E q \in Range(s.log) : q.message = m /\ q.addr = a /\ Drops(q, t)
      BY <1>2, <2>1 DEF Marks
    <3>3. t \in DroppedIn(s) <=> <<m, a, t>> \in s.dropTlv
      BY <2>1, <3>1 DEF DroppedIn
    <3> QED BY <3>1, <3>2, <3>3
  <2>3. DroppedBefore(l, p, t) <=>
          \E n \in 1..(p - 1) : s.log[n].message = s.message /\ s.log[n].addr = s.addr /\ Drops(s.log[n], t)
    BY <1>5 DEF DroppedBefore
  <2> QED BY <1>5, <2>2, <2>3
<1>8. PICK left : left = {t \in DOMAIN tlvs : ~ DroppedBefore(l, p, t)}
  OBVIOUS
<1>9. \A t : t \in left <=> t \in 1..Len(tlvs) /\ t \notin DroppedIn(s)
  BY <1>1, <1>7, <1>8
<1>10. ASSUME NEW j \in 1..Len(entries)
       PROVE  EntryIsComplete(entries[j], x.found[j], left, tlvs, idx)
  <2>1. /\ FoundFor(DroppedIn(s), x.found[j], entries[j], tlvs, idx, Len(tlvs) + 1)
        /\ Satisfied(entries[j], x.found[j], tlvs, j < x.j)
    BY <1>6 DEF InStep
  <2>2. j < x.j /\ (Len(tlvs) + 1) - 1 = Len(tlvs)
    BY <1>1, <1>6
  <2>3. PICK f, e : f = x.found[j] /\ e = entries[j] /\ f \in Seq(Nat)
    OBVIOUS
  <2>4. /\ \A v : v \in Range(f) <=> v \in 1..Len(tlvs) /\ AsksFor(e, tlvs[v], idx) /\ v \notin DroppedIn(s)
        /\ \A g, h \in 1..Len(f) : g < h => f[g] < f[h]
    BY <2>1, <2>2, <2>3 DEF FoundFor
  <2>5. DOMAIN f = 1..Len(f)
    BY <2>3, LenProperties
  <2>6. Range(f) = {t \in left : AsksFor(e, tlvs[t], idx)}
    BY <1>9, <2>4
  <2>7. /\ e.mandatory => f # <<>>
        /\ \A v \in Range(f) : tlvs[v].length \in e.min .. e.max
    BY <2>1, <2>2, <2>3 DEF Satisfied
  <2>8. EntryIsComplete(e, f, left, tlvs, idx)
    BY <2>4, <2>5, <2>6, <2>7 DEF EntryIsComplete
  <2> QED BY <2>3, <2>8
<1>11. BlockIsComplete(l, p, tlvs)
  BY <1>1, <1>5, <1>8, <1>10 DEF BlockIsComplete
<1> QED BY <1>4, <1>11

\* From s to t: after the callback cb that is told what was found.
BlockAnswered(tl, s, cb, found, t) ==
  /\ t \in States /\ t.message = s.message /\ t.addr = s.addr /\ t.dropTlv = s.dropTlv
  /\ Complete(t.log, tl)
  /\ \/ t = s
     \/ \E r \in Callbacks : /\ r.cb = cb /\ r.message = s.message /\ r.addr = s.addr
                             /\ r.detail = found /\ r.answer = t.result
                             /\ t.log = Append(s.log, r)

\* The callback for a block, or for one whose constraints have failed.
LEMMA BlockInformed ==
  ASSUME NEW tl, NEW s \in Informed(tl), NEW c \in Consumers,
         NEW tlvs, TlvList(tlvs), tlvs = tl[<<s.message, s.addr>>],
         NEW entries, EntryList(entries), entries = EntriesOf(c), NEW idx, idx = IndexOf(s.addr),
         NEW x, x.s = s, InStep(x, DroppedIn(s), entries, tlvs, idx, Len(tlvs) + Len(entries)),
         x.i \in 1..(Len(tlvs) + 1), x.j \in 1..(Len(entries) + 1),
         x.found \in [1..Len(entries) -> Seq(Nat)],
         NEW cb \in {"failed", "block"}, cb = "block" => ~ x.failed,
         NEW t, t = Call(s, c, cb, x.found)
  PROVE  BlockAnswered(tl, s, cb, x.found, t)
<1>1. s \in States /\ Marks(s) /\ Complete(s.log, tl)
  BY DEF Informed
<1>2. cb \in CallbackNames /\ x.found \in Details
  <2>1. cb \in CallbackNames
    BY DEF CallbackNames
  <2>2. Len(entries) \in Nat
    BY DEF EntryList
  <2>3. x.found \in Seq(Seq(Nat))
    BY <2>2, SeqDef
  <2> QED BY <2>1, <2>3 DEF Details
<1>3. /\ cb \notin ConsumerOf[c].cb => t = s
      /\ t \in States /\ t.message = s.message /\ t.addr = s.addr /\ t.dropTlv = s.dropTlv
  BY <1>1, <1>2, CallFacts
<1>4. CASE cb \notin ConsumerOf[c].cb
  BY <1>1, <1>3, <1>4 DEF BlockAnswered
<1>5. CASE cb \in ConsumerOf[c].cb
  <2>1. PICK r \in Callbacks :
          /\ r.consumer = c /\ r.cb = cb /\ r.message = s.message /\ r.addr = s.addr
          /\ r.detail = x.found /\ r.answer = t.result
          /\ t.log = Append(s.log, r)
    BY <1>1, <1>2, <1>5, CallFacts
  <2>2. PICK l : l = Append(s.log, r)
    OBVIOUS
  <2>3. cb = "block" => BlockIsComplete(l, Len(s.log) + 1, tlvs)
    <3>1. CASE cb = "block"
      <4>1. ~ x.failed
        BY <3>1
      <4>2. BlockIsComplete(l, Len(s.log) + 1, tlvs)
        BY <2>1, <2>2, <4>1, FoundComplete
      <4> QED BY <4>2
    <3> QED BY <3>1
  <2>4. s.log \in Seq(Callbacks)
    BY <1>1 DEF States
  <2>5. r.cb = "block" => BlockIsComplete(l, Len(s.log) + 1, tl[<<r.message, r.addr>>])
    BY <2>1, <2>3
  <2>6. Complete(l, tl)
    BY <1>1, <2>2, <2>4, <2>5, CompleteAppend
  <2>7. t.log = l
    BY <2>1, <2>2
  <2>8. Complete(t.log, tl)
    BY <2>6, <2>7
  <2> QED BY <1>3, <2>1, <2>8 DEF BlockAnswered
<1> QED BY <1>4, <1>5

\* From s to y: after what the callback dropped.
BlockEnded(s, t, y) ==
  /\ y \in States /\ Marks(y) /\ y.log = t.log /\ y.message = s.message /\ y.addr = s.addr

\* A block whose callback drops the first TLV of every entry.
LEMMA BlockMarked ==
  ASSUME NEW s \in States, Marks(s), NEW t \in States, t.message = s.message, t.addr = s.addr,
         t.dropTlv = s.dropTlv,
         NEW found \in Seq(Seq(Nat)), NEW r \in Callbacks, r.cb \in {"failed", "block"},
         r.message = s.message, r.addr = s.addr, r.detail = found, r.answer = t.result,
         t.log = Append(s.log, r),
         NEW y, y = BlockDropped(t, found)
  PROVE  BlockEnded(s, t, y)
<1> DEFINE V == {found[n][1] : n \in {k \in DOMAIN found : found[k] # <<>>}}
<1>1. \A v : (\E f \in Range(found) : f # <<>> /\ f[1] = v) <=> v \in V
  BY DEF Range
<1>2. \A v : Drops(r, v) <=> t.result = DROP_TLV /\ v \in V
  <2>1. r.cb # "tlv"
    OBVIOUS
  <2> QED BY <1>1, <2>1 DEF Drops
<1>3. CASE t.result # DROP_TLV
  <2>1. y = t
    BY <1>3 DEF BlockDropped
  <2>2. Marking(s, r, t)
    BY <1>2, <1>3 DEF Marking
  <2>3. Marks(t)
    BY <2>2, MarksAppend
  <2> QED BY <2>1, <2>3 DEF BlockEnded
<1>4. CASE t.result = DROP_TLV
  <2>1. PICK m \in Nat, a \in Addresses : m = s.message /\ a = s.addr
    BY DEF States
  <2>2. PICK B : B = {<<m, a, found[n][1]>> : n \in {k \in DOMAIN found : found[k] # <<>>}}
    OBVIOUS
  <2>3. B \subseteq Nat \X Addresses \X Nat
    <3> SUFFICES ASSUME NEW n \in DOMAIN found, found[n] # <<>>
        PROVE  <<m, a, found[n][1]>> \in Nat \X Addresses \X Nat
      BY <2>2
    <3>1. PICK l \in Seq(Nat) : l = found[n]
      BY LenProperties, ElementOfSeq
    <3>2. Len(l) \in Nat /\ Len(l) # 0
      BY <3>1, EmptySeq, LenProperties
    <3>3. 1 \in 1..Len(l)
      BY <3>2
    <3>4. l[1] \in Nat
      BY <3>1, <3>3, ElementOfSeq
    <3> QED BY <2>1, <3>1, <3>4
  <2>4. PICK E : E = s.dropTlv \cup B
    OBVIOUS
  <2>5. E \in SUBSET (Nat \X Addresses \X Nat)
    BY <2>3, <2>4 DEF States
  <2>6. y = [t EXCEPT !.result = OKAY, !.dropTlv = E]
    BY <1>4, <2>1, <2>2, <2>4 DEF BlockDropped
  <2>7. /\ y \in States /\ y.log = t.log /\ y.message = t.message /\ y.addr = t.addr
        /\ y.dropTlv = E
    <3>1. OKAY \in Int
      BY DEF OKAY
    <3> QED BY <2>5, <2>6, <3>1 DEF States
  <2>8. ASSUME NEW n \in Nat, NEW b \in Addresses, NEW v \in Nat
        PROVE  <<n, b, v>> \in y.dropTlv <=>
                 <<n, b, v>> \in s.dropTlv \/ (r.message = n /\ r.addr = b /\ Drops(r, v))
    <3>1. PICK key : key = <<n, b, v>>
      OBVIOUS
    <3>2. key \in B <=> n = m /\ b = a /\ v \in V
      BY <2>2, <3>1
    <3>3. key \in y.dropTlv <=> key \in s.dropTlv \/ key \in B
      BY <2>4, <2>7
    <3>4. Drops(r, v) <=> v \in V
      BY <1>2, <1>4
    <3> HIDE DEF V
    <3> QED BY <2>1, <3>1, <3>2, <3>3, <3>4
  <2>9. Marking(s, r, y)
    BY <2>8 DEF Marking
  <2>10. Marks(y)
    BY <2>7, <2>9, MarksAppend
  <2> QED BY <2>7, <2>10 DEF BlockEnded
<1> QED BY <1>3, <1>4

\* The end of _schedule_tlvblock().
LEMMA TellBlockInformed ==
  ASSUME NEW m \in Nat, NEW a \in Addresses, NEW tl, NEW c \in Consumers,
         NEW tlvs, TlvList(tlvs), tlvs = tl[<<m, a>>],
         NEW entries, EntryList(entries), entries = EntriesOf(c), NEW idx, idx = IndexOf(a),
         NEW x \in Merged(m, a, tl, entries, tlvs, idx, Len(tlvs) + Len(entries)),
         NEW y, y = TellBlock(x, c)
  PROVE  y \in Informed(tl) /\ y.message = m /\ y.addr = a
<1>1. PICK s \in Informed(tl) : s = x.s
  BY DEF Merged
<1>2. /\ s.message = m /\ s.addr = a
      /\ x.i \in 1..(Len(tlvs) + 1) /\ x.j \in 1..(Len(entries) + 1)
      /\ x.found \in [1..Len(entries) -> Seq(Nat)]
  BY <1>1 DEF Merged
<1>3. s \in States /\ Marks(s)
  BY DEF Informed
<1>4. CASE s.result # OKAY
  BY <1>1, <1>2, <1>4 DEF TellBlock
<1>5. CASE s.result = OKAY
  <2>1. InStep(x, DroppedIn(s), entries, tlvs, idx, Len(tlvs) + Len(entries))
    BY <1>1, <1>5 DEF Merged
  <2>2. PICK cb \in {"failed", "block"} : cb = IF x.failed THEN "failed" ELSE "block"
    OBVIOUS
  <2>3. cb = "block" => ~ x.failed
    BY <2>2
  <2>4. PICK t : t = Call(s, c, cb, x.found)
    OBVIOUS
  <2>5. PICK found \in [1..Len(entries) -> Seq(Nat)] : found = x.found
    BY <1>2
  <2>6. y = BlockDropped(t, found)
    BY <1>1, <1>5, <2>2, <2>4, <2>5 DEF TellBlock
  <2>7. idx = IndexOf(s.addr) /\ tlvs = tl[<<s.message, s.addr>>]
    BY <1>2
  <2>8. /\ t \in States /\ t.message = s.message /\ t.addr = s.addr /\ t.dropTlv = s.dropTlv
        /\ Complete(t.log, tl)
        /\ \/ t = s
           \/ \E r \in Callbacks : /\ r.cb = cb /\ r.message = s.message /\ r.addr = s.addr
                                   /\ r.detail = x.found /\ r.answer = t.result
                                   /\ t.log = Append(s.log, r)
    <3>1. BlockAnswered(tl, s, cb, x.found, t)
      <4>1. x.s = s
        BY <1>1
      <4>2. x.i \in 1..(Len(tlvs) + 1) /\ x.j \in 1..(Len(entries) + 1)
        BY <1>2
      <4>3. x.found \in [1..Len(entries) -> Seq(Nat)]
        BY <1>2
      <4> QED BY <1>1, <2>1, <2>2, <2>3, <2>4, <2>7, <4>1, <4>2, <4>3, BlockInformed
    <3> QED BY <3>1 DEF BlockAnswered
  <2>9. CASE t = s
    <3>1. y = t
      BY <1>5, <2>6, <2>9 DEF BlockDropped, OKAY, DROP_TLV
    <3> QED BY <1>2, <2>9, <3>1
  <2>10. CASE t # s
    <3>1. PICK r \in Callbacks : /\ r.cb = cb /\ r.message = s.message /\ r.addr = s.addr
                                 /\ r.detail = found /\ r.answer = t.result
                                 /\ t.log = Append(s.log, r)
      BY <2>5, <2>8, <2>10
    <3>2. found \in Seq(Seq(Nat))
      <4>1. Len(entries) \in Nat
        BY DEF EntryList
      <4> QED BY <4>1, SeqDef
    <3>3. r.cb \in {"failed", "block"}
      BY <3>1
    <3>4. BlockEnded(s, t, y)
      BY <1>1, <1>3, <2>5, <2>6, <2>8, <3>1, <3>2, <3>3, BlockMarked
    <3> QED BY <1>2, <2>8, <3>4 DEF Informed, BlockEnded
  <2> QED BY <2>9, <2>10
<1> QED BY <1>4, <1>5

\* _schedule_tlvblock()
LEMMA TlvblockInformed ==
  ASSUME NEW tl, NEW s \in Informed(tl), NEW c \in Consumers,
         NEW tlvs, TlvList(tlvs), tlvs = tl[<<s.message, s.addr>>], NEW idx, idx = IndexOf(s.addr),
         NEW y, y = schedule_tlvblock(s, c, tlvs, idx)
  PROVE  y \in Informed(tl) /\ y.message = s.message /\ y.addr = s.addr
<1>1. PICK m \in Nat, a \in Addresses : m = s.message /\ a = s.addr
  BY DEF Informed, States
<1>2. PICK entries : entries = EntriesOf(c)
  OBVIOUS
<1>3. EntryList(entries)
  BY <1>2, EntriesInOrder
<1>4. PICK x : x = Merge(s, c, entries, tlvs, idx)
  OBVIOUS
<1>5. x \in Merged(m, a, tl, entries, tlvs, idx, Len(tlvs) + Len(entries))
  BY <1>1, <1>3, <1>4, MergeMerged
<1>6. y = TellBlock(x, c)
  BY <1>2, <1>4 DEF schedule_tlvblock
<1>7. tlvs = tl[<<m, a>>] /\ idx = IndexOf(a)
  BY <1>1
<1>8. y \in Informed(tl) /\ y.message = m /\ y.addr = a
  BY <1>2, <1>3, <1>5, <1>6, <1>7, TellBlockInformed
<1> QED BY <1>1, <1>8

-----------------------------------------------------------------------------
(* The same for all callbacks of a message and of a packet. *)

\* ... for message m.
InformedOf(tl, m) == {s \in Informed(tl) : s.message = m}

\* Another result says nothing about TLVs.
LEMMA ResultInformed ==
  ASSUME NEW tl, NEW m, NEW s \in InformedOf(tl, m), NEW r \in Int, NEW t, t = [s EXCEPT !.result = r]
  PROVE  t \in InformedOf(tl, m)
<1>1. s \in States /\ s \in Informed(tl) /\ s.message = m
  BY DEF InformedOf, Informed
<1>2. t \in States /\ t.log = s.log /\ t.dropTlv = s.dropTlv /\ t.message = s.message
  BY <1>1 DEF States
<1> QED BY <1>1, <1>2, InformedSame DEF InformedOf

\* Neither does another address.
LEMMA AddressInformed ==
  ASSUME NEW tl, NEW m, NEW s \in InformedOf(tl, m), NEW a \in Addresses, NEW t, t = [s EXCEPT !.addr = a]
  PROVE  t \in InformedOf(tl, m) /\ t.addr = a
<1>1. s \in States /\ s \in Informed(tl) /\ s.message = m
  BY DEF InformedOf, Informed
<1>2. t \in States /\ t.log = s.log /\ t.dropTlv = s.dropTlv /\ t.message = s.message /\ t.addr = a
  BY <1>1 DEF States
<1> QED BY <1>1, <1>2, InformedSame DEF InformedOf

\* The start of something.
LEMMA StartInformed ==
  ASSUME NEW tl, NEW m, NEW s \in InformedOf(tl, m), NEW c \in Consumers,
         NEW t, t = Call(s, c, "start", 0)
  PROVE  t \in InformedOf(tl, m) /\ t.addr = s.addr
<1>1. s \in Informed(tl) /\ s.message = m
  BY DEF InformedOf
<1>2. 0 \in Details
  BY DEF Details
<1>3. "start" \in CallbackNames
  BY DEF CallbackNames
<1>4. "start" \notin {"tlv", "block", "failed"}
  OBVIOUS
<1>5. t \in Informed(tl) /\ t.message = s.message /\ t.addr = s.addr
  BY <1>1, <1>2, <1>3, <1>4, InformedCall
<1> QED BY <1>1, <1>5 DEF InformedOf

\* The end of something.
LEMMA EndInformed ==
  ASSUME NEW tl, NEW m, NEW s \in InformedOf(tl, m), NEW c \in Consumers, NEW d \in BOOLEAN,
         NEW t, t = Call(s, c, "end", d)
  PROVE  t \in InformedOf(tl, m)
<1>1. s \in Informed(tl) /\ s.message = m
  BY DEF InformedOf
<1>2. d \in Details
  BY DEF Details
<1>3. "end" \in CallbackNames
  BY DEF CallbackNames
<1>4. "end" \notin {"tlv", "block", "failed"}
  OBVIOUS
<1>5. t \in Informed(tl) /\ t.message = s.message
  BY <1>1, <1>2, <1>3, <1>4, InformedCall
<1> QED BY <1>1, <1>5 DEF InformedOf

\* The end of a message or an address for one consumer.
LEMMA CallEndInformed ==
  ASSUME NEW tl, NEW m, NEW s \in InformedOf(tl, m), NEW c \in Consumers
  PROVE  CallEnd(s, c) \in InformedOf(tl, m)
<1>1. PICK d \in BOOLEAN : d = (s.result # OKAY)
  OBVIOUS
<1>2. PICK x : x = Call(s, c, "end", d)
  OBVIOUS
<1>3. x \in InformedOf(tl, m)
  BY <1>2, EndInformed
<1>4. PICK r : r = IF x.result > s.result THEN x.result ELSE s.result
  OBVIOUS
<1>5. r \in Int
  BY <1>3, <1>4 DEF InformedOf, Informed, States
<1>6. CallEnd(s, c) = [x EXCEPT !.result = r]
  BY <1>1, <1>2, <1>4 DEF CallEnd
<1>7. PICK t : t = [x EXCEPT !.result = r]
  OBVIOUS
<1>8. t \in InformedOf(tl, m)
  BY <1>3, <1>5, <1>7, ResultInformed
<1> QED BY <1>6, <1>7, <1>8

\* A drop of the address.
LEMMA AddressEndedInformed ==
  ASSUME NEW tl, NEW m, NEW s \in InformedOf(tl, m)
  PROVE  AddressEnded(s) \in InformedOf(tl, m)
<1>1. s \in States /\ s \in Informed(tl) /\ s.message = m
  BY DEF InformedOf, Informed
<1>2. PICK D : D = s.dropAddr \cup {<<s.message, s.addr>>}
  OBVIOUS
<1>3. D \in SUBSET (Nat \X Addresses)
  <2>1. s.message \in Nat /\ s.addr \in Addresses /\ s.dropAddr \in SUBSET (Nat \X Addresses)
    BY <1>1 DEF States
  <2>2. <<s.message, s.addr>> \in Nat \X Addresses
    BY <2>1
  <2> QED BY <1>2, <2>1, <2>2
<1>4. PICK t : t = [s EXCEPT !.result = OKAY, !.dropAddr = D]
  OBVIOUS
<1>5. OKAY \in Int
  BY DEF OKAY
<1>6. t \in States /\ t.log = s.log /\ t.dropTlv = s.dropTlv /\ t.message = s.message
  BY <1>1, <1>3, <1>4, <1>5 DEF States
<1>7. t \in InformedOf(tl, m)
  BY <1>1, <1>6, InformedSame DEF InformedOf
<1>8. AddressEnded(s) \in {s, t}
  BY <1>2, <1>4 DEF AddressEnded
<1> QED BY <1>7, <1>8

\* Start, TLVs and end for one address.
LEMMA NextShownInformed ==
  ASSUME NEW tl, NEW m, NEW s \in InformedOf(tl, m), NEW c \in Consumers,
         NEW a \in Addresses, a # NoAddress, NEW tlvs, TlvList(tlvs), tlvs = tl[<<m, a>>]
  PROVE  NextShown(s, c, a, tlvs) \in InformedOf(tl, m)
<1>1. PICK x : x = [s EXCEPT !.addr = a]
  OBVIOUS
<1>2. x \in InformedOf(tl, m) /\ x.addr = a
  BY <1>1, AddressInformed
<1>3. PICK y : y = Call(x, c, "start", 0)
  OBVIOUS
<1>4. y \in InformedOf(tl, m) /\ y.addr = a
  BY <1>2, <1>3, StartInformed
<1>5. PICK z : z = ServeAddress(y, c, tlvs)
  OBVIOUS
<1>6. z \in InformedOf(tl, m)
  <2>1. CASE y.result # OKAY
    BY <1>4, <1>5, <2>1 DEF ServeAddress
  <2>2. CASE y.result = OKAY
    <3>1. z = schedule_tlvblock(y, c, tlvs, y.addr[2] - 1)
      BY <1>5, <2>2 DEF ServeAddress
    <3>2. PICK idx : idx = y.addr[2] - 1
      OBVIOUS
    <3>3. idx = IndexOf(y.addr)
      BY <1>4, <3>2 DEF IndexOf
    <3>4. y \in Informed(tl) /\ y.message = m
      BY <1>4 DEF InformedOf
    <3>5. tlvs = tl[<<y.message, y.addr>>]
      BY <1>4, <3>4
    <3>6. z \in Informed(tl) /\ z.message = y.message
      BY <3>1, <3>2, <3>3, <3>4, <3>5, TlvblockInformed
    <3> QED BY <3>4, <3>6 DEF InformedOf
  <2> QED BY <2>1, <2>2
<1>7. PICK e : e = CallEnd(z, c)
  OBVIOUS
<1>8. AddressEnded(e) \in InformedOf(tl, m)
  BY <1>6, <1>7, CallEndInformed, AddressEndedInformed
<1>9. ShowAddress(s, c, a, tlvs) = AddressEnded(e)
  BY <1>1, <1>3, <1>5, <1>7 DEF ShowAddress
<1> QED BY <1>8, <1>9 DEF NextShown

\* The contexts of message m have the TLVs that msg says.
TellsOf(tl, m, msg) == \A a \in Addresses : tl[<<m, a>>] = TlvsIn(msg, a)

\* The addresses of one block.
LEMMA ServeBlockInformed ==
  ASSUME NEW tl, NEW m, NEW s \in InformedOf(tl, m), NEW c \in Consumers,
         NEW b \in Nat, b # 0, NEW block, Block(block),
         \A i \in Nat : tl[<<m, <<b, i>>>>] = block.tlvs
  PROVE  ServeBlock(s, c, b, block) \in InformedOf(tl, m)
<1> DEFINE n == Len(block.addrs)
           S == [k \in 0..n |-> InformedOf(tl, m)]
           F == [k \in 1..n |-> [x \in S[k - 1] |-> NextShown(x, c, <<b, k>>, block.tlvs)]]
           Is(f) == f = [k \in 0..n |-> IF k = 0 THEN s ELSE NextShown(f[k - 1], c, <<b, k>>, block.tlvs)]
           turn == CHOOSE f : Is(f)
<1>1. ServeBlock(s, c, b, block) = turn[n]
  BY DEF ServeBlock
<1>2. n \in Nat /\ 0 \in 0..n /\ n \in 0..n
      /\ \A k \in 1..n : k - 1 \in 0..n /\ k \in 0..n /\ k # 0
  BY DEF Block
<1>3. \A k \in 0..n : S[k] = InformedOf(tl, m)
  OBVIOUS
<1> HIDE DEF n, S
<1>4. s \in S[0]
  BY <1>2, <1>3
<1>5. ASSUME NEW k \in 1..n, NEW x \in S[k - 1]
      PROVE  NextShown(x, c, <<b, k>>, block.tlvs) \in S[k]
  <2>1. x \in InformedOf(tl, m)
    BY <1>2, <1>3
  <2>2. PICK a : a = <<b, k>>
    OBVIOUS
  <2>3. a \in Addresses /\ a # NoAddress
    BY <1>2, <2>2 DEF Addresses, NoAddress
  <2>4. PICK tlvs : tlvs = block.tlvs
    OBVIOUS
  <2>5. TlvList(tlvs)
    BY <2>4 DEF Block
  <2>6. tlvs = tl[<<m, a>>]
    BY <1>2, <2>2, <2>4
  <2>7. NextShown(x, c, a, tlvs) \in InformedOf(tl, m)
    BY <2>1, <2>3, <2>5, <2>6, NextShownInformed
  <2> QED BY <1>2, <1>3, <2>2, <2>4, <2>7
<1>6. PICK g : IsWalk(g, S, s, n, F)
  <2>1. \A k \in 1..n : F[k] \in [S[k - 1] -> S[k]]
    BY <1>5
  <2> HIDE DEF F
  <2> QED BY <1>2, <1>4, <2>1, WalkThrough
<1>7. \A k \in 1..n : g[k] = NextShown(g[k - 1], c, <<b, k>>, block.tlvs)
  BY <1>2, <1>6 DEF IsWalk
<1>8. Is(g)
  <2>1. \A k \in 0..n : k = 0 \/ k \in 1..n
    BY <1>2
  <2> HIDE DEF F
  <2> QED BY <1>6, <1>7, <2>1 DEF IsWalk
<1>9. Is(turn)
  BY <1>8 DEF turn
<1> HIDE DEF turn
<1>10. turn[0] = s /\ \A k \in 1..n : turn[k] = NextShown(turn[k - 1], c, <<b, k>>, block.tlvs)
  <2>1. \A k \in 0..n : turn[k] = IF k = 0 THEN s ELSE NextShown(turn[k - 1], c, <<b, k>>, block.tlvs)
    BY <1>9
  <2> QED BY <1>2, <2>1
<1>11. turn[n] \in S[n]
  <2>1. turn[0] \in S[0] /\ \A k \in 1..n : turn[k - 1] \in S[k - 1] => turn[k] \in S[k]
    BY <1>4, <1>5, <1>10
  <2> HIDE DEF Is, F
  <2> QED BY <1>2, <2>1, StaysAlong
<1> QED BY <1>1, <1>2, <1>3, <1>11

\* schedule_msgaddr_consumer()
LEMMA MsgaddrInformed ==
  ASSUME NEW tl, NEW m, NEW s \in InformedOf(tl, m), NEW c \in Consumers,
         NEW msg, WellFormed(msg), TellsOf(tl, m, msg)
  PROVE  schedule_msgaddr_consumer(s, c, msg.blocks) \in InformedOf(tl, m)
<1> DEFINE n == Len(msg.blocks)
           S == [k \in 0..n |-> InformedOf(tl, m)]
           F == [k \in 1..n |-> [x \in S[k - 1] |-> ServeBlock(x, c, k, msg.blocks[k])]]
           Is(f) == f = [k \in 0..n |-> IF k = 0 THEN [s EXCEPT !.result = OKAY] ELSE ServeBlock(f[k - 1], c, k, msg.blocks[k])]
           turn == CHOOSE f : Is(f)
<1>1. schedule_msgaddr_consumer(s, c, msg.blocks) = turn[n]
  BY DEF schedule_msgaddr_consumer
<1>2. n \in Nat /\ 0 \in 0..n /\ n \in 0..n
      /\ \A k \in 1..n : k - 1 \in 0..n /\ k \in 0..n /\ k # 0
  BY DEF WellFormed
<1>3. \A k \in 0..n : S[k] = InformedOf(tl, m)
  OBVIOUS
<1> HIDE DEF n, S
<1>4. [s EXCEPT !.result = OKAY] \in S[0]
  <2>1. OKAY \in Int
    BY DEF OKAY
  <2>2. PICK t, r : r = OKAY /\ t = [s EXCEPT !.result = r]
    OBVIOUS
  <2>3. t \in InformedOf(tl, m)
    BY <2>1, <2>2, ResultInformed
  <2> QED BY <1>2, <1>3, <2>2, <2>3
<1>5. ASSUME NEW k \in 1..n, NEW x \in S[k - 1]
      PROVE  ServeBlock(x, c, k, msg.blocks[k]) \in S[k]
  <2>1. x \in InformedOf(tl, m)
    BY <1>2, <1>3
  <2>2. PICK block : block = msg.blocks[k]
    OBVIOUS
  <2>3. Block(block)
    BY <2>2 DEF WellFormed, n
  <2>4. k \in Nat /\ k # 0
    BY <1>2
  <2>5. ASSUME NEW i \in Nat PROVE tl[<<m, <<k, i>>>>] = block.tlvs
    <3>1. <<k, i>> \in Addresses /\ <<k, i>> # NoAddress /\ <<k, i>>[1] = k
      BY <2>4 DEF Addresses, NoAddress
    <3> QED BY <2>2, <3>1 DEF TellsOf, TlvsIn
  <2>6. ServeBlock(x, c, k, block) \in InformedOf(tl, m)
    BY <2>1, <2>3, <2>4, <2>5, ServeBlockInformed
  <2> QED BY <1>2, <1>3, <2>2, <2>6
<1>6. PICK g : IsWalk(g, S, [s EXCEPT !.result = OKAY], n, F)
  <2>1. \A k \in 1..n : F[k] \in [S[k - 1] -> S[k]]
    BY <1>5
  <2> HIDE DEF F
  <2> QED BY <1>2, <1>4, <2>1, WalkThrough
<1>7. \A k \in 1..n : g[k] = ServeBlock(g[k - 1], c, k, msg.blocks[k])
  BY <1>2, <1>6 DEF IsWalk
<1>8. Is(g)
  <2>1. \A k \in 0..n : k = 0 \/ k \in 1..n
    BY <1>2
  <2> HIDE DEF F
  <2> QED BY <1>6, <1>7, <2>1 DEF IsWalk
<1>9. Is(turn)
  BY <1>8 DEF turn
<1> HIDE DEF turn
<1>10. turn[0] = [s EXCEPT !.result = OKAY] /\ \A k \in 1..n : turn[k] = ServeBlock(turn[k - 1], c, k, msg.blocks[k])
  <2>1. \A k \in 0..n : turn[k] = IF k = 0 THEN [s EXCEPT !.result = OKAY] ELSE ServeBlock(turn[k - 1], c, k, msg.blocks[k])
    BY <1>9
  <2> QED BY <1>2, <2>1
<1>11. turn[n] \in S[n]
  <2>1. turn[0] \in S[0] /\ \A k \in 1..n : turn[k - 1] \in S[k - 1] => turn[k] \in S[k]
    BY <1>4, <1>5, <1>10
  <2> HIDE DEF Is, F
  <2> QED BY <1>2, <2>1, StaysAlong
<1> QED BY <1>1, <1>2, <1>3, <1>11

\* schedule_msgtlv_consumer()
LEMMA MsgtlvInformed ==
  ASSUME NEW tl, NEW m, NEW s \in InformedOf(tl, m), NEW c \in Consumers,
         NEW tlvs, TlvList(tlvs), tlvs = tl[<<m, NoAddress>>]
  PROVE  schedule_msgtlv_consumer(s, c, tlvs) \in InformedOf(tl, m)
<1>1. PICK x : x = [s EXCEPT !.addr = NoAddress, !.result = OKAY]
  OBVIOUS
<1>2. x \in InformedOf(tl, m) /\ x.addr = NoAddress
  <2>1. NoAddress \in Addresses /\ OKAY \in Int
    BY DEF NoAddress, Addresses, OKAY
  <2>2. s \in States /\ s \in Informed(tl) /\ s.message = m
    BY DEF InformedOf, Informed
  <2>3. /\ x \in States /\ x.log = s.log /\ x.dropTlv = s.dropTlv /\ x.message = s.message
        /\ x.addr = NoAddress
    BY <1>1, <2>1, <2>2 DEF States
  <2> QED BY <2>2, <2>3, InformedSame DEF InformedOf
<1>3. PICK y : y = Call(x, c, "start", 0)
  OBVIOUS
<1>4. y \in InformedOf(tl, m) /\ y.addr = NoAddress
  BY <1>2, <1>3, StartInformed
<1>5. PICK idx : idx = 0
  OBVIOUS
<1>6. PICK z : z = schedule_tlvblock(y, c, tlvs, idx)
  OBVIOUS
<1>7. z \in InformedOf(tl, m)
  <2>1. y \in Informed(tl) /\ y.message = m
    BY <1>4 DEF InformedOf
  <2>2. tlvs = tl[<<y.message, y.addr>>] /\ idx = IndexOf(y.addr)
    BY <1>4, <1>5, <2>1 DEF IndexOf
  <2>3. z \in Informed(tl) /\ z.message = y.message
    BY <1>6, <2>1, <2>2, TlvblockInformed
  <2> QED BY <2>1, <2>3 DEF InformedOf
<1>8. schedule_msgtlv_consumer(s, c, tlvs) \in {y, z}
  BY <1>1, <1>3, <1>5, <1>6 DEF schedule_msgtlv_consumer
<1> QED BY <1>4, <1>7, <1>8

\* schedule_end_message_cbs()
LEMMA EndGroupInformed ==
  ASSUME NEW tl, NEW m, NEW s \in InformedOf(tl, m), NEW group \in Seq(Consumers)
  PROVE  schedule_end_message_cbs(s, group) \in InformedOf(tl, m)
<1> DEFINE n == Len(group)
           S == [k \in 0..n |-> InformedOf(tl, m)]
           F == [k \in 1..n |-> [x \in S[k - 1] |-> CallEnd(x, group[Len(group) + 1 - k])]]
           Is(f) == f = [k \in 0..n |-> IF k = 0 THEN [s EXCEPT !.addr = NoAddress] ELSE CallEnd(f[k - 1], group[Len(group) + 1 - k])]
           turn == CHOOSE f : Is(f)
<1>1. schedule_end_message_cbs(s, group) = turn[n]
  BY DEF schedule_end_message_cbs
<1>2. n \in Nat /\ 0 \in 0..n /\ n \in 0..n
      /\ \A k \in 1..n : k - 1 \in 0..n /\ k \in 0..n /\ k # 0
  BY LenProperties
<1>3. \A k \in 0..n : S[k] = InformedOf(tl, m)
  OBVIOUS
<1> HIDE DEF n, S
<1>4. [s EXCEPT !.addr = NoAddress] \in S[0]
  <2>1. NoAddress \in Addresses
    BY DEF NoAddress, Addresses
  <2>2. PICK t, a : a = NoAddress /\ t = [s EXCEPT !.addr = a]
    OBVIOUS
  <2>3. t \in InformedOf(tl, m)
    BY <2>1, <2>2, AddressInformed
  <2> QED BY <1>2, <1>3, <2>2, <2>3
<1>5. ASSUME NEW k \in 1..n, NEW x \in S[k - 1]
      PROVE  CallEnd(x, group[Len(group) + 1 - k]) \in S[k]
  <2>1. x \in InformedOf(tl, m)
    BY <1>2, <1>3
  <2>2. PICK c : c = group[Len(group) + 1 - k]
    OBVIOUS
  <2>3. c \in Consumers
    <3>1. Len(group) + 1 - k \in 1..Len(group)
      BY <1>2 DEF n
    <3> QED BY <2>2, <3>1, ElementOfSeq
  <2>4. CallEnd(x, c) \in InformedOf(tl, m)
    BY <2>1, <2>3, CallEndInformed
  <2> QED BY <1>2, <1>3, <2>2, <2>4
<1>6. PICK g : IsWalk(g, S, [s EXCEPT !.addr = NoAddress], n, F)
  <2>1. \A k \in 1..n : F[k] \in [S[k - 1] -> S[k]]
    BY <1>5
  <2> HIDE DEF F
  <2> QED BY <1>2, <1>4, <2>1, WalkThrough
<1>7. \A k \in 1..n : g[k] = CallEnd(g[k - 1], group[Len(group) + 1 - k])
  BY <1>2, <1>6 DEF IsWalk
<1>8. Is(g)
  <2>1. \A k \in 0..n : k = 0 \/ k \in 1..n
    BY <1>2
  <2> HIDE DEF F
  <2> QED BY <1>6, <1>7, <2>1 DEF IsWalk
<1>9. Is(turn)
  BY <1>8 DEF turn
<1> HIDE DEF turn
<1>10. turn[0] = [s EXCEPT !.addr = NoAddress] /\ \A k \in 1..n : turn[k] = CallEnd(turn[k - 1], group[Len(group) + 1 - k])
  <2>1. \A k \in 0..n : turn[k] = IF k = 0 THEN [s EXCEPT !.addr = NoAddress] ELSE CallEnd(turn[k - 1], group[Len(group) + 1 - k])
    BY <1>9
  <2> QED BY <1>2, <2>1
<1>11. turn[n] \in S[n]
  <2>1. turn[0] \in S[0] /\ \A k \in 1..n : turn[k - 1] \in S[k - 1] => turn[k] \in S[k]
    BY <1>4, <1>5, <1>10
  <2> HIDE DEF Is, F
  <2> QED BY <1>2, <2>1, StaysAlong
<1> QED BY <1>1, <1>2, <1>3, <1>11

\* In the loop over the consumers of a message.
Scheduling(tl, m) == [s : InformedOf(tl, m), group : Seq(Consumers)]

\* One consumer is served.
LEMMA ServeInformed ==
  ASSUME NEW tl, NEW m, NEW s \in InformedOf(tl, m), NEW group \in Seq(Consumers), NEW c \in Consumers,
         NEW msg, WellFormed(msg), TellsOf(tl, m, msg)
  PROVE  Serve(s, group, c, msg) \in Scheduling(tl, m)
<1>1. PICK e : e = <<>>
  OBVIOUS
<1>2. e \in Seq(Consumers)
  BY <1>1
<1>3. PICK x, y, g : /\ x = schedule_msgaddr_consumer(s, c, msg.blocks)
                     /\ y = schedule_msgtlv_consumer(s, c, msg.tlvs)
                     /\ g = Append(group, c)
  OBVIOUS
<1>4. x \in InformedOf(tl, m)
  BY <1>3, MsgaddrInformed
<1>5. y \in InformedOf(tl, m)
  <2>1. PICK tlvs : tlvs = msg.tlvs
    OBVIOUS
  <2>2. NoAddress \in Addresses
    BY DEF NoAddress, Addresses
  <2>3. TlvList(tlvs) /\ tlvs = tl[<<m, NoAddress>>]
    BY <2>1, <2>2 DEF WellFormed, TellsOf, TlvsIn
  <2> QED BY <1>3, <2>1, <2>3, MsgtlvInformed
<1>6. g \in Seq(Consumers)
  BY <1>3, AppendProperties
<1>7. \/ Serve(s, group, c, msg) = [s |-> s, group |-> e]
      \/ Serve(s, group, c, msg) = [s |-> x, group |-> group]
      \/ Serve(s, group, c, msg) = [s |-> y, group |-> g]
  BY <1>1, <1>3 DEF Serve
<1> QED BY <1>2, <1>4, <1>5, <1>6, <1>7 DEF Scheduling

\* One turn of the loop over the consumers.
LEMMA NextConsumerInformed ==
  ASSUME NEW tl, NEW m, NEW x \in Scheduling(tl, m), NEW c \in Consumers,
         NEW msg, WellFormed(msg), TellsOf(tl, m, msg)
  PROVE  NextConsumer(x, c, msg) \in Scheduling(tl, m)
<1>1. PICK s \in InformedOf(tl, m), group \in Seq(Consumers) : s = x.s /\ group = x.group
  BY DEF Scheduling
<1>2. PICK z : z = EndGroup(x)
  OBVIOUS
<1>3. z \in InformedOf(tl, m)
  BY <1>1, <1>2, EndGroupInformed DEF EndGroup
<1>4. PICK e : e = <<>>
  OBVIOUS
<1>5. e \in Seq(Consumers)
  BY <1>4
<1>6. \/ NextConsumer(x, c, msg) = x
      \/ NextConsumer(x, c, msg) = Serve(z, e, c, msg)
      \/ NextConsumer(x, c, msg) = Serve(s, group, c, msg)
  BY <1>1, <1>2, <1>4 DEF NextConsumer
<1>7. Serve(z, e, c, msg) \in Scheduling(tl, m) /\ Serve(s, group, c, msg) \in Scheduling(tl, m)
  BY <1>3, <1>5, ServeInformed
<1> QED BY <1>6, <1>7

\* The loop over the consumers of a message.
LEMMA ScheduleInformed ==
  ASSUME message_consumer \in Seq(Consumers), NEW tl, NEW m, NEW s \in InformedOf(tl, m),
         NEW msg, WellFormed(msg), TellsOf(tl, m, msg)
  PROVE  ScheduleMessage(s, msg) \in InformedOf(tl, m)
<1> DEFINE n == Len(message_consumer)
           S == [k \in 0..n |-> Scheduling(tl, m)]
           F == [k \in 1..n |-> [x \in S[k - 1] |-> NextConsumer(x, message_consumer[k], msg)]]
           Is(f) == f = [k \in 0..n |-> IF k = 0 THEN [s |-> s, group |-> <<>>] ELSE NextConsumer(f[k - 1], message_consumer[k], msg)]
           turn == CHOOSE f : Is(f)
<1>1. ScheduleMessage(s, msg) = EndGroup(turn[n])
  BY DEF ScheduleMessage
<1>2. n \in Nat /\ 0 \in 0..n /\ n \in 0..n
      /\ \A k \in 1..n : k - 1 \in 0..n /\ k \in 0..n /\ k # 0
  BY LenProperties
<1>3. \A k \in 0..n : S[k] = Scheduling(tl, m)
  OBVIOUS
<1> HIDE DEF n, S
<1>4. [s |-> s, group |-> <<>>] \in S[0]
  <2>1. PICK e : e = <<>>
    OBVIOUS
  <2>2. e \in Seq(Consumers)
    BY <2>1
  <2>3. [s |-> s, group |-> e] \in Scheduling(tl, m)
    BY <2>2 DEF Scheduling
  <2> QED BY <1>2, <1>3, <2>1, <2>3
<1>5. ASSUME NEW k \in 1..n, NEW x \in S[k - 1]
      PROVE  NextConsumer(x, message_consumer[k], msg) \in S[k]
  <2>1. x \in Scheduling(tl, m)
    BY <1>2, <1>3
  <2>2. PICK c : c = message_consumer[k]
    OBVIOUS
  <2>3. c \in Consumers
    BY <2>2, ElementOfSeq DEF n
  <2>4. NextConsumer(x, c, msg) \in Scheduling(tl, m)
    BY <2>1, <2>3, NextConsumerInformed
  <2> QED BY <1>2, <1>3, <2>2, <2>4
<1>6. PICK g : IsWalk(g, S, [s |-> s, group |-> <<>>], n, F)
  <2>1. \A k \in 1..n : F[k] \in [S[k - 1] -> S[k]]
    BY <1>5
  <2> HIDE DEF F
  <2> QED BY <1>2, <1>4, <2>1, WalkThrough
<1>7. \A k \in 1..n : g[k] = NextConsumer(g[k - 1], message_consumer[k], msg)
  BY <1>2, <1>6 DEF IsWalk
<1>8. Is(g)
  <2>1. \A k \in 0..n : k = 0 \/ k \in 1..n
    BY <1>2
  <2> HIDE DEF F
  <2> QED BY <1>6, <1>7, <2>1 DEF IsWalk
<1>9. Is(turn)
  BY <1>8 DEF turn
<1> HIDE DEF turn
<1>10. turn[0] = [s |-> s, group |-> <<>>] /\ \A k \in 1..n : turn[k] = NextConsumer(turn[k - 1], message_consumer[k], msg)
  <2>1. \A k \in 0..n : turn[k] = IF k = 0 THEN [s |-> s, group |-> <<>>] ELSE NextConsumer(turn[k - 1], message_consumer[k], msg)
    BY <1>9
  <2> QED BY <1>2, <2>1
<1>11. turn[n] \in S[n]
  <2>1. turn[0] \in S[0] /\ \A k \in 1..n : turn[k - 1] \in S[k - 1] => turn[k] \in S[k]
    BY <1>4, <1>5, <1>10
  <2> HIDE DEF Is, F
  <2> QED BY <1>2, <2>1, StaysAlong
<1>12. PICK z : z = turn[n]
  OBVIOUS
<1>13. z \in Scheduling(tl, m)
  BY <1>2, <1>3, <1>11, <1>12
<1>14. z.s \in InformedOf(tl, m) /\ z.group \in Seq(Consumers)
  BY <1>13 DEF Scheduling
<1>15. EndGroup(z) \in InformedOf(tl, m)
  BY <1>14, EndGroupInformed DEF EndGroup
<1> QED BY <1>1, <1>12, <1>15

\* The end of a message.
LEMMA ForwardInformed ==
  ASSUME NEW tl, NEW m, NEW s \in InformedOf(tl, m), NEW msg
  PROVE  ForwardMessage(s, msg) \in InformedOf(tl, m)
<1> DEFINE forwarded == s.result \in {OKAY, DROP_MSG_BUT_FORWARD} /\ msg.hoplimit > 1
           r == [consumer |-> "reader", cb |-> "forward", message |-> s.message, addr |-> NoAddress,
                 detail |-> 0, answer |-> OKAY]
<1>1. PICK x : x = IF forwarded THEN [s EXCEPT !.log = Append(@, r)] ELSE s
  OBVIOUS
<1>2. ForwardMessage(s, msg) = IF x.result = DROP_MESSAGE THEN [x EXCEPT !.result = OKAY] ELSE x
  BY <1>1 DEF ForwardMessage
<1>3. s \in States /\ Marks(s) /\ Complete(s.log, tl) /\ s.message = m
  BY DEF InformedOf, Informed
<1>4. s.log \in Seq(Callbacks) /\ s.message \in Nat
  BY <1>3 DEF States
<1>5. OKAY \in Int /\ NoAddress \in Addresses /\ 0 \in Details
  BY DEF OKAY, NoAddress, Addresses, Details
<1>6. "forward" \in CallbackNames
  BY DEF CallbackNames
<1>7. r \in Callbacks
  BY <1>4, <1>5, <1>6 DEF Callbacks
<1>8. r.cb = "forward"
  OBVIOUS
<1> HIDE DEF forwarded, r
<1>9. x \in InformedOf(tl, m)
  <2>1. CASE ~ forwarded
    BY <1>1, <2>1
  <2>2. CASE forwarded
    <3>1. PICK l : l = Append(s.log, r)
      OBVIOUS
    <3>2. l \in Seq(Callbacks)
      BY <1>4, <1>7, <3>1, AppendCallback
    <3>3. x = [s EXCEPT !.log = l]
      BY <1>1, <2>2, <3>1
    <3>4. x \in States /\ x.log = l /\ x.message = s.message /\ x.dropTlv = s.dropTlv
      BY <1>3, <3>2, <3>3 DEF States
    <3>5. \A v : ~ Drops(r, v)
      BY <1>8 DEF Drops
    <3>6. Marking(s, r, x)
      BY <3>4, <3>5 DEF Marking
    <3>7. Marks(x)
      BY <1>3, <1>7, <3>1, <3>4, <3>6, MarksAppend
    <3>8. r.cb # "block"
      BY <1>8
    <3>9. Complete(l, tl)
      BY <1>3, <1>4, <1>7, <3>1, <3>8, CompleteAppend
    <3> QED BY <1>3, <3>4, <3>7, <3>9 DEF InformedOf, Informed
  <2> QED BY <2>1, <2>2
<1>10. PICK t, v : v = OKAY /\ t = [x EXCEPT !.result = v]
  OBVIOUS
<1>11. t \in InformedOf(tl, m)
  BY <1>5, <1>9, <1>10, ResultInformed
<1> QED BY <1>2, <1>9, <1>10, <1>11

-----------------------------------------------------------------------------
(* The messages of a packet. *)

\* After k messages, if all is well.
InformedAfter(tl, k) == {s \in Informed(tl) : s.result = OKAY => s.message = k}

\* _handle_message()
LEMMA HandleMessageInformed ==
  ASSUME message_consumer \in Seq(Consumers), NEW tl, NEW k \in Nat, k # 0,
         NEW s \in InformedAfter(tl, k - 1),
         NEW msg, msg = Bad \/ (WellFormed(msg) /\ TellsOf(tl, k, msg))
  PROVE  handle_message(s, msg) \in InformedAfter(tl, k)
<1>1. s \in Informed(tl) /\ s \in States
  BY DEF InformedAfter, Informed
<1>2. CASE s.result # OKAY
  BY <1>1, <1>2 DEF handle_message, InformedAfter
<1>3. CASE s.result = OKAY
  <2>1. s.message + 1 = k /\ k \in Nat /\ NoAddress \in Addresses
    BY <1>3 DEF InformedAfter, NoAddress, Addresses
  <2>2. PICK x : x = [s EXCEPT !.message = k, !.addr = NoAddress]
    OBVIOUS
  <2>3. x \in States /\ x.log = s.log /\ x.dropTlv = s.dropTlv /\ x.message = k
    BY <1>1, <2>1, <2>2 DEF States
  <2>4. x \in InformedOf(tl, k)
    BY <1>1, <2>3, InformedSame DEF InformedOf
  <2>5. handle_message(s, msg) =
          IF msg = Bad THEN [x EXCEPT !.result = PARSE_ERROR]
          ELSE ForwardMessage(ScheduleMessage(x, msg), msg)
    BY <1>3, <2>1, <2>2 DEF handle_message
  <2>6. \A y \in InformedOf(tl, k) : y \in InformedAfter(tl, k)
    BY DEF InformedOf, InformedAfter
  <2>7. CASE msg = Bad
    <3>1. PARSE_ERROR \in Int
      BY DEF PARSE_ERROR
    <3>2. PICK t, v : v = PARSE_ERROR /\ t = [x EXCEPT !.result = v]
      OBVIOUS
    <3>3. t \in InformedOf(tl, k)
      BY <2>4, <3>1, <3>2, ResultInformed
    <3> QED BY <2>5, <2>6, <2>7, <3>2, <3>3
  <2>8. CASE msg # Bad
    <3>1. PICK y : y = ScheduleMessage(x, msg)
      OBVIOUS
    <3>2. y \in InformedOf(tl, k)
      BY <2>4, <2>8, <3>1, ScheduleInformed
    <3>3. ForwardMessage(y, msg) \in InformedOf(tl, k)
      BY <3>2, ForwardInformed
    <3> QED BY <2>5, <2>6, <2>8, <3>1, <3>3
  <2> QED BY <2>7, <2>8
<1> QED BY <1>2, <1>3

\* One message after the other.
LEMMA HandleMessagesInformed ==
  ASSUME message_consumer \in Seq(Consumers), NEW tl, NEW s \in InformedAfter(tl, 0),
         NEW msgs, Len(msgs) \in Nat,
         \A k \in 1..Len(msgs) : msgs[k] = Bad \/ (WellFormed(msgs[k]) /\ TellsOf(tl, k, msgs[k]))
  PROVE  handle_messages(s, msgs) \in Informed(tl)
<1> DEFINE n == Len(msgs)
           S == [k \in 0..n |-> InformedAfter(tl, k)]
           F == [k \in 1..n |-> [x \in S[k - 1] |-> handle_message(x, msgs[k])]]
           Is(f) == f = [k \in 0..n |-> IF k = 0 THEN s ELSE handle_message(f[k - 1], msgs[k])]
           turn == CHOOSE f : Is(f)
<1>1. handle_messages(s, msgs) = turn[n]
  BY DEF handle_messages
<1>2. n \in Nat /\ 0 \in 0..n /\ n \in 0..n
      /\ \A k \in 1..n : k - 1 \in 0..n /\ k \in 0..n /\ k # 0
  OBVIOUS
<1>3. \A k \in 0..n : S[k] = InformedAfter(tl, k)
  OBVIOUS
<1> HIDE DEF n, S
<1>4. s \in S[0]
  BY <1>2, <1>3
<1>5. ASSUME NEW k \in 1..n, NEW x \in S[k - 1]
      PROVE  handle_message(x, msgs[k]) \in S[k]
  <2>1. k - 1 \in 0..n /\ k \in 0..n /\ k \in Nat /\ k # 0
    BY <1>2
  <2>2. x \in InformedAfter(tl, k - 1)
    <3>1. S[k - 1] = InformedAfter(tl, k - 1)
      BY <1>3, <2>1
    <3> QED BY <3>1
  <2>3. PICK msg : msg = msgs[k]
    OBVIOUS
  <2>4. msg = Bad \/ (WellFormed(msg) /\ TellsOf(tl, k, msg))
    BY <2>3 DEF n
  <2>5. handle_message(x, msg) \in InformedAfter(tl, k)
    BY <2>1, <2>2, <2>4, HandleMessageInformed
  <2> QED BY <1>3, <2>1, <2>3, <2>5
<1>6. PICK g : IsWalk(g, S, s, n, F)
  <2>1. \A k \in 1..n : F[k] \in [S[k - 1] -> S[k]]
    BY <1>5
  <2> HIDE DEF F
  <2> QED BY <1>2, <1>4, <2>1, WalkThrough
<1>7. \A k \in 1..n : g[k] = handle_message(g[k - 1], msgs[k])
  BY <1>2, <1>6 DEF IsWalk
<1>8. Is(g)
  <2>1. \A k \in 0..n : k = 0 \/ k \in 1..n
    BY <1>2
  <2> HIDE DEF F
  <2> QED BY <1>6, <1>7, <2>1 DEF IsWalk
<1>9. Is(turn)
  BY <1>8 DEF turn
<1> HIDE DEF turn
<1>10. turn[0] = s /\ \A k \in 1..n : turn[k] = handle_message(turn[k - 1], msgs[k])
  <2>1. \A k \in 0..n : turn[k] = IF k = 0 THEN s ELSE handle_message(turn[k - 1], msgs[k])
    BY <1>9
  <2> QED BY <1>2, <2>1
<1>11. turn[n] \in S[n]
  <2>1. turn[0] \in S[0] /\ \A k \in 1..n : turn[k - 1] \in S[k - 1] => turn[k] \in S[k]
    BY <1>4, <1>5, <1>10
  <2> HIDE DEF Is, F
  <2> QED BY <1>2, <2>1, StaysAlong
<1>12. turn[n] \in InformedAfter(tl, n)
  BY <1>2, <1>3, <1>11
<1> QED BY <1>1, <1>12 DEF InformedAfter

\* While the packet begins.
Starting(tl) == [s : {s \in InformedOf(tl, 0) : s.addr = NoAddress}, started : Seq(Consumers)]

\* The start of the packet for one consumer.
LEMMA NextStartedInformed ==
  ASSUME NEW tl, NEW x \in Starting(tl), NEW c \in Consumers,
         NEW header, TlvList(header.tlvs), header.tlvs = tl[<<0, NoAddress>>]
  PROVE  NextStarted(x, c, header) \in Starting(tl)
<1>1. PICK s \in InformedOf(tl, 0), group \in Seq(Consumers) :
        s = x.s /\ group = x.started /\ s.addr = NoAddress
  BY DEF Starting
<1>2. PICK y : y = Call(s, c, "start", 0)
  OBVIOUS
<1>3. y \in InformedOf(tl, 0) /\ y.addr = NoAddress
  BY <1>1, <1>2, StartInformed
<1>4. PICK idx, tlvs : idx = 0 /\ tlvs = header.tlvs
  OBVIOUS
<1>5. PICK z : z = schedule_tlvblock(y, c, tlvs, idx)
  OBVIOUS
<1>6. z \in InformedOf(tl, 0) /\ z.addr = NoAddress
  <2>1. y \in Informed(tl) /\ y.message = 0
    BY <1>3 DEF InformedOf
  <2>2. TlvList(tlvs) /\ tlvs = tl[<<y.message, y.addr>>] /\ idx = IndexOf(y.addr)
    BY <1>3, <1>4, <2>1 DEF IndexOf
  <2>3. z \in Informed(tl) /\ z.message = y.message /\ z.addr = y.addr
    BY <1>5, <2>1, <2>2, TlvblockInformed
  <2> QED BY <1>3, <2>1, <2>3 DEF InformedOf
<1>7. PICK u : u = StartPacket(y, c, header)
  OBVIOUS
<1>8. u \in {y, z}
  BY <1>4, <1>5, <1>7 DEF StartPacket
<1>9. PICK g : g = Append(group, c)
  OBVIOUS
<1>10. g \in Seq(Consumers)
  BY <1>9, AppendProperties
<1>11. NextStarted(x, c, header) = x \/ NextStarted(x, c, header) = [s |-> u, started |-> g]
  BY <1>1, <1>2, <1>7, <1>9 DEF NextStarted
<1>12. [s |-> u, started |-> g] \in Starting(tl)
  BY <1>3, <1>6, <1>8, <1>10 DEF Starting
<1> QED BY <1>11, <1>12

\* The start of the packet for all its consumers.
LEMMA BeginPacketInformed ==
  ASSUME packet_consumer \in Seq(Consumers), NEW tl, NEW script \in Scripts,
         NEW header, TlvList(header.tlvs), header.tlvs = tl[<<0, NoAddress>>]
  PROVE  BeginPacket(header, script) \in Starting(tl)
<1> DEFINE n == Len(packet_consumer)
           S == [k \in 0..n |-> Starting(tl)]
           F == [k \in 1..n |-> [x \in S[k - 1] |-> NextStarted(x, packet_consumer[k], header)]]
           Is(f) == f = [k \in 0..n |-> IF k = 0 THEN [s |-> Handling(script), started |-> <<>>] ELSE NextStarted(f[k - 1], packet_consumer[k], header)]
           turn == CHOOSE f : Is(f)
<1>1. BeginPacket(header, script) = turn[n]
  BY DEF BeginPacket
<1>2. n \in Nat /\ 0 \in 0..n /\ n \in 0..n
      /\ \A k \in 1..n : k - 1 \in 0..n /\ k \in 0..n /\ k # 0
  BY LenProperties
<1>3. \A k \in 0..n : S[k] = Starting(tl)
  OBVIOUS
<1> HIDE DEF n, S
<1>4. [s |-> Handling(script), started |-> <<>>] \in S[0]
  <2>1. PICK g, s : g = <<>> /\ s = Handling(script)
    OBVIOUS
  <2>2. g \in Seq(Consumers)
    BY <2>1
  <2>3. NoAddress \in Addresses /\ OKAY \in Int
    BY DEF NoAddress, Addresses, OKAY
  <2>4. PICK l : l = <<>>
    OBVIOUS
  <2>5. l \in Seq(Callbacks) /\ Len(l) = 0 /\ Range(l) = {}
    BY <2>4 DEF Range
  <2>6. s = [script |-> script, log |-> l, result |-> OKAY, message |-> 0, addr |-> NoAddress,
             dropTlv |-> {}, dropAddr |-> {}]
    BY <2>1, <2>4 DEF Handling
  <2>7. s \in States /\ s.log = l /\ s.message = 0 /\ s.addr = NoAddress /\ s.dropTlv = {}
    BY <2>3, <2>5, <2>6 DEF States
  <2>8. Marks(s)
    BY <2>5, <2>7 DEF Marks
  <2>9. Complete(s.log, tl)
    <3>1. \A i : i \notin 1..0
      OBVIOUS
    <3> QED BY <2>5, <2>7, <3>1 DEF Complete
  <2>10. [s |-> s, started |-> g] \in Starting(tl)
    BY <2>2, <2>7, <2>8, <2>9 DEF Starting, InformedOf, Informed
  <2> QED BY <1>2, <1>3, <2>1, <2>10
<1>5. ASSUME NEW k \in 1..n, NEW x \in S[k - 1]
      PROVE  NextStarted(x, packet_consumer[k], header) \in S[k]
  <2>1. x \in Starting(tl)
    BY <1>2, <1>3
  <2>2. PICK c : c = packet_consumer[k]
    OBVIOUS
  <2>3. c \in Consumers
    BY <2>2, ElementOfSeq DEF n
  <2>4. NextStarted(x, c, header) \in Starting(tl)
    BY <2>1, <2>3, NextStartedInformed
  <2> QED BY <1>2, <1>3, <2>2, <2>4
<1>6. PICK g : IsWalk(g, S, [s |-> Handling(script), started |-> <<>>], n, F)
  <2>1. \A k \in 1..n : F[k] \in [S[k - 1] -> S[k]]
    BY <1>5
  <2> HIDE DEF F
  <2> QED BY <1>2, <1>4, <2>1, WalkThrough
<1>7. \A k \in 1..n : g[k] = NextStarted(g[k - 1], packet_consumer[k], header)
  BY <1>2, <1>6 DEF IsWalk
<1>8. Is(g)
  <2>1. \A k \in 0..n : k = 0 \/ k \in 1..n
    BY <1>2
  <2> HIDE DEF F
  <2> QED BY <1>6, <1>7, <2>1 DEF IsWalk
<1>9. Is(turn)
  BY <1>8 DEF turn
<1> HIDE DEF turn
<1>10. turn[0] = [s |-> Handling(script), started |-> <<>>] /\ \A k \in 1..n : turn[k] = NextStarted(turn[k - 1], packet_consumer[k], header)
  <2>1. \A k \in 0..n : turn[k] = IF k = 0 THEN [s |-> Handling(script), started |-> <<>>] ELSE NextStarted(turn[k - 1], packet_consumer[k], header)
    BY <1>9
  <2> QED BY <1>2, <2>1
<1>11. turn[n] \in S[n]
  <2>1. turn[0] \in S[0] /\ \A k \in 1..n : turn[k - 1] \in S[k - 1] => turn[k] \in S[k]
    BY <1>4, <1>5, <1>10
  <2> HIDE DEF Is, F
  <2> QED BY <1>2, <2>1, StaysAlong
<1> QED BY <1>1, <1>2, <1>3, <1>11

\* The end of the packet for one consumer.
LEMMA EndCallInformed ==
  ASSUME NEW tl, NEW s \in Informed(tl), NEW c \in Consumers
  PROVE  EndCall(s, c) \in Informed(tl)
<1>1. s \in States /\ s.result \in Int
  BY DEF Informed, States
<1>2. PICK x : x = [s EXCEPT !.message = 0, !.addr = NoAddress]
  OBVIOUS
<1>3. NoAddress \in Addresses
  BY DEF NoAddress, Addresses
<1>4. x \in States /\ x.log = s.log /\ x.message = 0 /\ x.dropTlv = s.dropTlv
  BY <1>1, <1>2, <1>3 DEF States
<1>5. x \in InformedOf(tl, 0)
  BY <1>4, InformedSame DEF InformedOf
<1>6. PICK d \in BOOLEAN : d = (s.result # OKAY)
  OBVIOUS
<1>7. PICK t : t = Call(x, c, "end", d)
  OBVIOUS
<1>8. t \in InformedOf(tl, 0)
  BY <1>5, <1>7, EndInformed
<1>9. EndCall(s, c) = [t EXCEPT !.result = s.result]
  BY <1>2, <1>6, <1>7 DEF EndCall
<1>10. PICK y, v : v = s.result /\ y = [t EXCEPT !.result = v]
  OBVIOUS
<1>11. y \in InformedOf(tl, 0)
  BY <1>1, <1>8, <1>10, ResultInformed
<1> QED BY <1>9, <1>10, <1>11 DEF InformedOf

\* The end of the packet for all that were started.
LEMMA EndPacketInformed ==
  ASSUME NEW tl, NEW s \in Informed(tl), NEW group \in Seq(Consumers)
  PROVE  EndPacket(s, group) \in Informed(tl)
<1> DEFINE n == Len(group)
           S == [k \in 0..n |-> Informed(tl)]
           F == [k \in 1..n |-> [x \in S[k - 1] |-> EndCall(x, group[Len(group) + 1 - k])]]
           Is(f) == f = [k \in 0..n |-> IF k = 0 THEN s ELSE EndCall(f[k - 1], group[Len(group) + 1 - k])]
           turn == CHOOSE f : Is(f)
<1>1. EndPacket(s, group) = turn[n]
  BY DEF EndPacket
<1>2. n \in Nat /\ 0 \in 0..n /\ n \in 0..n
      /\ \A k \in 1..n : k - 1 \in 0..n /\ k \in 0..n /\ k # 0
  BY LenProperties
<1>3. \A k \in 0..n : S[k] = Informed(tl)
  OBVIOUS
<1> HIDE DEF n, S
<1>4. s \in S[0]
  BY <1>2, <1>3
<1>5. ASSUME NEW k \in 1..n, NEW x \in S[k - 1]
      PROVE  EndCall(x, group[Len(group) + 1 - k]) \in S[k]
  <2>1. x \in Informed(tl)
    BY <1>2, <1>3
  <2>2. PICK c : c = group[Len(group) + 1 - k]
    OBVIOUS
  <2>3. c \in Consumers
    <3>1. Len(group) + 1 - k \in 1..Len(group)
      BY <1>2 DEF n
    <3> QED BY <2>2, <3>1, ElementOfSeq
  <2>4. EndCall(x, c) \in Informed(tl)
    BY <2>1, <2>3, EndCallInformed
  <2> QED BY <1>2, <1>3, <2>2, <2>4
<1>6. PICK g : IsWalk(g, S, s, n, F)
  <2>1. \A k \in 1..n : F[k] \in [S[k - 1] -> S[k]]
    BY <1>5
  <2> HIDE DEF F
  <2> QED BY <1>2, <1>4, <2>1, WalkThrough
<1>7. \A k \in 1..n : g[k] = EndCall(g[k - 1], group[Len(group) + 1 - k])
  BY <1>2, <1>6 DEF IsWalk
<1>8. Is(g)
  <2>1. \A k \in 0..n : k = 0 \/ k \in 1..n
    BY <1>2
  <2> HIDE DEF F
  <2> QED BY <1>6, <1>7, <2>1 DEF IsWalk
<1>9. Is(turn)
  BY <1>8 DEF turn
<1> HIDE DEF turn
<1>10. turn[0] = s /\ \A k \in 1..n : turn[k] = EndCall(turn[k - 1], group[Len(group) + 1 - k])
  <2>1. \A k \in 0..n : turn[k] = IF k = 0 THEN s ELSE EndCall(turn[k - 1], group[Len(group) + 1 - k])
    BY <1>9
  <2> QED BY <1>2, <2>1
<1>11. turn[n] \in S[n]
  <2>1. turn[0] \in S[0] /\ \A k \in 1..n : turn[k - 1] \in S[k - 1] => turn[k] \in S[k]
    BY <1>4, <1>5, <1>10
  <2> HIDE DEF Is, F
  <2> QED BY <1>2, <2>1, StaysAlong
<1> QED BY <1>1, <1>2, <1>3, <1>11

\* The TLVs of all contexts of a packet.
ContextsOf(header, msgs) ==
  [k \in Nat \X Addresses |-> IF k[1] = 0 THEN header.tlvs ELSE TlvsIn(msgs[k[1]], k[2])]

\* The callbacks for a packet.
LEMMA CallsInformed ==
  ASSUME packet_consumer \in Seq(Consumers), message_consumer \in Seq(Consumers),
         NEW b \in Packets, NEW script \in Scripts,
         NEW header, header = parse_packet(b, TlvRoom), header # Bad,
         NEW msgs, msgs = MessagesFrom(b, header.next, TlvRoom),
         NEW calls, calls = CallsFor(header, b, script)
  PROVE  Complete(calls, ContextsOf(header, msgs))
<1>1. PICK tl : tl = ContextsOf(header, msgs)
  OBVIOUS
<1>2. /\ \A a \in Addresses : tl[<<0, a>>] = header.tlvs
      /\ \A k \in Nat : k # 0 => TellsOf(tl, k, msgs[k])
  <2>1. ASSUME NEW k \in Nat, NEW a \in Addresses
        PROVE  tl[<<k, a>>] = IF k = 0 THEN header.tlvs ELSE TlvsIn(msgs[k], a)
    <3>1. PICK key : key = <<k, a>>
      OBVIOUS
    <3>2. key \in Nat \X Addresses /\ key[1] = k /\ key[2] = a
      BY <3>1
    <3> QED BY <1>1, <3>1, <3>2 DEF ContextsOf
  <2> QED BY <2>1 DEF TellsOf
<1>3. b \in Seq(Octet)
  BY ReaderAssumption
<1>4. header.next \in 1..(Len(b) + 1) /\ TlvList(header.tlvs)
  BY <1>3, PacketHeader
<1>5. PICK p : p = header.next
  OBVIOUS
<1>6. Len(msgs) \in Nat /\ \A k \in 1..Len(msgs) : msgs[k] = Bad \/ WellFormed(msgs[k])
  BY <1>3, <1>4, <1>5, MessagesList
<1>7. PICK x : x = BeginPacket(header, script)
  OBVIOUS
<1>8. x \in Starting(tl)
  <2>1. NoAddress \in Addresses
    BY DEF NoAddress, Addresses
  <2>2. header.tlvs = tl[<<0, NoAddress>>]
    BY <1>2, <2>1
  <2> QED BY <1>4, <1>7, <2>2, BeginPacketInformed
<1>9. PICK s, group : s = x.s /\ group = x.started
  OBVIOUS
<1>10. s \in InformedAfter(tl, 0) /\ group \in Seq(Consumers)
  BY <1>8, <1>9 DEF Starting, InformedOf, InformedAfter
<1>11. PICK y : y = handle_messages(s, msgs)
  OBVIOUS
<1>12. y \in Informed(tl)
  <2>1. \A k \in 1..Len(msgs) : msgs[k] = Bad \/ (WellFormed(msgs[k]) /\ TellsOf(tl, k, msgs[k]))
    <3>1. \A k \in 1..Len(msgs) : k \in Nat /\ k # 0
      BY <1>6
    <3> QED BY <1>2, <1>6, <3>1
  <2> QED BY <1>6, <1>10, <1>11, <2>1, HandleMessagesInformed
<1>13. PICK z : z = EndPacket(y, group)
  OBVIOUS
<1>14. z \in Informed(tl)
  BY <1>10, <1>12, <1>13, EndPacketInformed
<1>15. calls = z.log
  BY <1>7, <1>9, <1>11, <1>13 DEF CallsFor, ReadPacket
<1> QED BY <1>1, <1>14, <1>15 DEF Informed

\* A packet is handled.
LEMMA HandlePacketTells ==
  ASSUME ReaderInv, ReaderInv', NEW b \in Packets, NEW script \in Scripts, handle_packet(b, script)
  PROVE  TlvsReachConsumer'
<1>1. PICK header : header = parse_packet(b, TlvRoom)
  OBVIOUS
<1>2. PICK calls : calls = CallsFor(header, b, script)
  OBVIOUS
<1>3. packet' = b /\ log' = calls
  BY <1>1, <1>2 DEF handle_packet
<1>4. calls \in Seq(Callbacks)
  BY <1>3 DEF ReaderInv
<1>5. DOMAIN calls = 1..Len(calls) /\ \A i \in 1..Len(calls) : calls[i] \in Callbacks
  BY <1>4, LenProperties, ElementOfSeq
<1>6. CASE header = Bad
  <2>1. calls = <<>>
    BY <1>2, <1>6 DEF CallsFor
  <2>2. DOMAIN calls = {}
    BY <2>1
  <2> QED BY <1>3, <2>2 DEF TlvsReachConsumer
<1>7. CASE header # Bad
  <2>1. PICK msgs : msgs = MessagesFrom(b, header.next, TlvRoom)
    OBVIOUS
  <2>2. Complete(calls, ContextsOf(header, msgs))
    BY <1>1, <1>2, <1>7, <2>1, CallsInformed DEF ReaderInv
  <2>3. ASSUME NEW i \in 1..Len(calls), calls[i].cb = "block"
        PROVE  BlockIsComplete(calls, i, IF calls[i].message = 0 THEN header.tlvs
                                         ELSE TlvsIn(msgs[calls[i].message], calls[i].addr))
    <3>1. PICK key : key = <<calls[i].message, calls[i].addr>>
      OBVIOUS
    <3>2. key \in Nat \X Addresses /\ key[1] = calls[i].message /\ key[2] = calls[i].addr
      BY <1>5, <3>1 DEF Callbacks
    <3>3. ContextsOf(header, msgs)[key] = IF calls[i].message = 0 THEN header.tlvs
                                          ELSE TlvsIn(msgs[calls[i].message], calls[i].addr)
      BY <3>2 DEF ContextsOf
    <3>4. BlockIsComplete(calls, i, ContextsOf(header, msgs)[key])
      BY <2>2, <2>3, <3>1 DEF Complete
    <3> QED BY <3>3, <3>4
  <2>4. \A call : ContextTlvs(call)' = IF call.message = 0 THEN header.tlvs
                                        ELSE TlvsIn(msgs[call.message], call.addr)
    BY <1>1, <1>3, <2>1 DEF ContextTlvs, Messages
  <2> QED BY <1>3, <1>5, <2>3, <2>4 DEF TlvsReachConsumer, ContextTlvs, Messages
<1> QED BY <1>6, <1>7

\* The steps of the reader keep it so.
LEMMA TellsStep ==
  ReaderInv /\ ReaderInv' /\ TlvsReachConsumer /\ [ReaderNext]_readerVars => TlvsReachConsumer'
<1> SUFFICES ASSUME ReaderInv, ReaderInv', TlvsReachConsumer, [ReaderNext]_readerVars
    PROVE  TlvsReachConsumer'
  OBVIOUS
<1>1. ASSUME packet' = packet, log' = log PROVE TlvsReachConsumer'
  BY <1>1 DEF TlvsReachConsumer, ContextTlvs, Messages
<1>2. CASE UNCHANGED readerVars
  BY <1>1, <1>2 DEF readerVars
<1>3. ASSUME NEW c \in Consumers, add_consumer(c) \/ remove_consumer(c) PROVE TlvsReachConsumer'
  BY <1>1, <1>3 DEF add_consumer, remove_consumer
<1>4. ASSUME NEW b \in Packets, NEW script \in Scripts, handle_packet(b, script) PROVE TlvsReachConsumer'
  BY <1>4, HandlePacketTells
<1>5. CASE PacketDone
  <2>1. log' = <<>>
    BY <1>5 DEF PacketDone
  <2>2. DOMAIN log' = {}
    BY <2>1
  <2> QED BY <2>2 DEF TlvsReachConsumer
<1> QED BY <1>2, <1>3, <1>4, <1>5 DEF ReaderNext

\* A block callback of rfc5444_reader.c is told, for every entry of its consumer,
\* all TLVs that the entry asks for and that no callback has dropped, in their
\* order, and only if the constraints of all entries hold.
THEOREM ReaderTlvsReachConsumer == ReaderSpec => []TlvsReachConsumer
<1>1. ReaderInit => TlvsReachConsumer
  <2> SUFFICES ASSUME ReaderInit PROVE TlvsReachConsumer
    OBVIOUS
  <2>1. DOMAIN log = {}
    BY DEF ReaderInit
  <2> QED BY <2>1 DEF TlvsReachConsumer
<1> QED BY <1>1, ReaderStart, ReaderStep, TellsStep, PTL DEF ReaderSpec

-----------------------------------------------------------------------------
(* Numbers in the buffers and at the kernel.  A number is used for one        *)
(* request, so it waits in one buffer, and the kernel has not seen it yet.    *)

Answer == [seq : Seqnos, result : {"ok", "error"}]

Netlink == [out : Seq(Seqnos), write : BOOLEAN, transit : Nat, timer : BOOLEAN]

NlType == [Socks -> Netlink]

QueuedOnce ==
  \A s, t \in Socks : \A m \in DOMAIN nl[s].out, n \in DOMAIN nl[t].out :
    nl[s].out[m] = nl[t].out[n] => s = t /\ m = n

KernelInv ==
  /\ nl \in NlType
  /\ rcv \in [Socks -> Seq(Answer)]
  /\ seq_used \in 0..MaxRequests
  /\ verdict \in [Seqnos -> {"none", "ok", "error", "lost"}]
  /\ QueuedOnce
  /\ \A s \in Socks : \A n \in DOMAIN nl[s].out :
       nl[s].out[n] <= seq_used /\ verdict[nl[s].out[n]] = "none"
  /\ \A s \in Socks : \A n \in DOMAIN rcv[s] : verdict[rcv[s][n].seq] = rcv[s][n].result
  /\ \A q \in Seqnos : q > seq_used => verdict[q] = "none"

(* Jobs on the list f wait for the answer to their last request n[j]; u         *)
(* numbers are used, r is what has been reported.                            *)

JobsOK(f, n, u, r) ==
  /\ f \in Seq(Jobs) /\ Once(f)
  /\ n \in [Jobs -> 0..MaxRequests]
  /\ u \in 0..MaxRequests
  /\ r \in [Seqnos -> Results]
  /\ \A j \in Jobs : n[j] <= u
  /\ \A j, k \in Jobs : n[j] # 0 /\ n[j] = n[k] => j = k
  /\ \A j \in Jobs : Contains(f, j) => n[j] # 0 /\ r[n[j]] = "none"
  /\ \A j \in Jobs : ~Contains(f, j) /\ n[j] # 0 => r[n[j]] # "none"
  /\ \A q \in Seqnos : q > u => r[q] = "none"

(* The timeout loop stands on such a job.                                     *)

WalkInv ==
  /\ walk \in Jobs \cup {Idle, ListHead}
  /\ undefined \in BOOLEAN
  /\ walk \in Jobs => Contains(feedback, walk)

NetInv ==
  /\ KernelInv
  /\ JobsOK(feedback, nl_seq, seq_used, reported)
  /\ WalkInv
  /\ ReportedIsTrue

-----------------------------------------------------------------------------
(* The buffers and the kernel *)

\* What the functions that change a socket make of it.
LEMMA NetlinkRecords ==
  ASSUME NEW n \in Netlink, NEW seq \in Seqnos, NEW oom \in BOOLEAN
  PROVE  /\ os_system_netlink_send(n, seq, oom) \in Netlink
         /\ \/ os_system_netlink_send(n, seq, oom).out = n.out
            \/ os_system_netlink_send(n, seq, oom).out = Append(n.out, seq)
<1>1. n.out \in Seq(Seqnos) /\ Append(n.out, seq) \in Seq(Seqnos)
  BY AppendProperties DEF Netlink
<1>2. CASE oom
  BY <1>1, <1>2 DEF Netlink, os_system_netlink_send
<1>3. CASE ~oom
  BY <1>1, <1>3 DEF Netlink, os_system_netlink_send
<1> QED BY <1>2, <1>3

LEMMA FinishedRecords ==
  ASSUME NEW n \in Netlink
  PROVE  /\ netlink_job_finished(n) \in Netlink /\ netlink_job_finished(n).out = n.out
         /\ TimerGone(n) \in Netlink /\ TimerGone(n).out = n.out
         /\ TransitGone(n) \in Netlink /\ TransitGone(n).out = n.out
<1>1. netlink_job_finished(n) \in Netlink /\ netlink_job_finished(n).out = n.out
  <2>1. CASE n.transit > 1
    BY <2>1 DEF Netlink, netlink_job_finished
  <2>2. CASE ~(n.transit > 1)
    BY <2>2 DEF Netlink, netlink_job_finished
  <2> QED BY <2>1, <2>2
<1>2. /\ TimerGone(n) \in Netlink /\ TimerGone(n).out = n.out
      /\ TransitGone(n) \in Netlink /\ TransitGone(n).out = n.out
  BY DEF Netlink, TimerGone, TransitGone
<1> QED BY <1>1, <1>2

\* A socket changes and keeps its buffer.
LEMMA OutsUnchanged ==
  ASSUME nl \in NlType, NEW s \in Socks, NEW n \in Netlink, n.out = nl[s].out,
         nl' = [nl EXCEPT ![s] = n]
  PROVE  nl' \in NlType /\ \A t \in Socks : nl'[t].out = nl[t].out
BY DEF NlType

\* Two places of the buffers with one number are the same place.
LEMMA QueuedSame ==
  ASSUME QueuedOnce, NEW s \in Socks, NEW t \in Socks,
         NEW m \in DOMAIN nl[s].out, NEW n \in DOMAIN nl[t].out, nl[s].out[m] = nl[t].out[n]
  PROVE  s = t /\ m = n
BY DEF QueuedOnce

\* Buffers that have not grown hold a number once.
LEMMA QueuedStays ==
  ASSUME QueuedOnce,
         \A t \in Socks : \A n \in DOMAIN nl'[t].out :
           n \in DOMAIN nl[t].out /\ nl'[t].out[n] = nl[t].out[n]
  PROVE  QueuedOnce'
<1> SUFFICES ASSUME NEW t \in Socks, NEW u \in Socks,
                    NEW m \in DOMAIN nl'[t].out, NEW n \in DOMAIN nl'[u].out,
                    nl'[t].out[m] = nl'[u].out[n]
             PROVE  t = u /\ m = n
  BY DEF QueuedOnce
<1>1. m \in DOMAIN nl[t].out /\ n \in DOMAIN nl[u].out /\ nl[t].out[m] = nl[u].out[n]
  OBVIOUS
<1> QED BY <1>1, QueuedSame

\* A request gets the next number and waits in one buffer, if there is memory.
LEMMA RequestKeepsKernel ==
  ASSUME KernelInv, NEW s \in Socks, seq_used < MaxRequests, seq_used' = seq_used + 1,
         nl' \in NlType, UNCHANGED <<rcv, verdict>>,
         nl'[s].out = nl[s].out \/ nl'[s].out = Append(nl[s].out, seq_used + 1),
         \A t \in Socks : t # s => nl'[t].out = nl[t].out
  PROVE  KernelInv'
<1>1. /\ seq_used \in Nat /\ seq_used' \in 0..MaxRequests /\ seq_used + 1 \in Seqnos
      /\ \A t \in Socks : nl[t].out \in Seq(Seqnos) /\ Len(nl[t].out) \in Nat
                          /\ DOMAIN nl[t].out = 1..Len(nl[t].out)
  BY JobsAssumption, LenProperties DEF KernelInv, NlType, Netlink, Seqnos
<1>2. ASSUME NEW t \in Socks, NEW n \in DOMAIN nl'[t].out
      PROVE  \/ n \in DOMAIN nl[t].out /\ nl'[t].out[n] = nl[t].out[n]
             \/ t = s /\ n = Len(nl[s].out) + 1 /\ nl'[t].out[n] = seq_used + 1
  <2>1. CASE nl'[t].out = nl[t].out
    BY <2>1
  <2>2. CASE t = s /\ nl'[s].out = Append(nl[s].out, seq_used + 1)
    BY <1>1, <2>2, AppendProperties
  <2> QED BY <2>1, <2>2
<1>3. QueuedOnce'
  <2> SUFFICES ASSUME NEW t \in Socks, NEW u \in Socks,
                      NEW m \in DOMAIN nl'[t].out, NEW n \in DOMAIN nl'[u].out,
                      nl'[t].out[m] = nl'[u].out[n]
               PROVE  t = u /\ m = n
    BY DEF QueuedOnce
  <2>1. \A x \in Socks : \A i \in DOMAIN nl[x].out : nl[x].out[i] \in Seqnos /\ nl[x].out[i] <= seq_used
    BY <1>1 DEF KernelInv
  <2>2. ASSUME NEW x \in Socks, NEW i \in DOMAIN nl[x].out PROVE nl[x].out[i] # seq_used + 1
    <3>1. nl[x].out[i] \in Seqnos /\ nl[x].out[i] <= seq_used
      BY <2>1
    <3> QED BY <1>1, <3>1 DEF Seqnos
  <2>3. CASE m \in DOMAIN nl[t].out /\ nl'[t].out[m] = nl[t].out[m]
    <3>1. n \in DOMAIN nl[u].out /\ nl'[u].out[n] = nl[u].out[n]
      BY <1>2, <2>2, <2>3
    <3>2. nl[t].out[m] = nl[u].out[n]
      BY <2>3, <3>1
    <3> QED BY <2>3, <3>1, <3>2, QueuedSame DEF KernelInv
  <2>4. CASE t = s /\ m = Len(nl[s].out) + 1 /\ nl'[t].out[m] = seq_used + 1
    <3>1. u = s /\ n = Len(nl[s].out) + 1
      BY <1>2, <2>2, <2>4
    <3> QED BY <2>4, <3>1
  <2> QED BY <1>2, <2>3, <2>4
<1>4. ASSUME NEW t \in Socks, NEW n \in DOMAIN nl'[t].out
      PROVE  nl'[t].out[n] <= seq_used' /\ verdict[nl'[t].out[n]] = "none"
  <2>1. CASE n \in DOMAIN nl[t].out /\ nl'[t].out[n] = nl[t].out[n]
    <3>1. nl[t].out[n] \in Seqnos /\ nl[t].out[n] <= seq_used /\ verdict[nl[t].out[n]] = "none"
      BY <1>1, <2>1 DEF KernelInv
    <3> QED BY <1>1, <2>1, <3>1 DEF Seqnos
  <2>2. CASE nl'[t].out[n] = seq_used + 1
    BY <1>1, <2>2 DEF KernelInv
  <2> QED BY <1>2, <2>1, <2>2
<1>5. \A q \in Seqnos : q > seq_used' => q > seq_used
  BY <1>1 DEF Seqnos
<1> QED BY <1>1, <1>3, <1>4, <1>5 DEF KernelInv

\* A batch is sent: its numbers get their verdicts, and the answers carry them.
LEMMA WriteKeepsKernel ==
  ASSUME KernelInv, NEW s \in Socks, NEW handed \in BOOLEAN,
         NEW what \in [DOMAIN nl[s].out -> {"ok", "error", "lost"}],
         HandleWrite(s, handed, what), UNCHANGED seq_used
  PROVE  /\ KernelInv'
         /\ \A q \in Seqnos : verdict[q] # "none" => verdict'[q] = verdict[q]
<1> DEFINE out == nl[s].out
<1>1. nl' = [nl EXCEPT ![s] = flush_netlink_buffer(nl[s], handed)]
  BY DEF HandleWrite
<1>2. /\ out \in Seq(Seqnos) /\ Len(out) \in Nat /\ DOMAIN out = 1..Len(out)
      /\ nl[s] \in Netlink
  BY LenProperties DEF KernelInv, NlType, Netlink
<1>3. CASE ~handed
  <2>1. nl' \in NlType /\ \A t \in Socks : nl'[t].out = nl[t].out
    BY <1>1, <1>2, <1>3 DEF flush_netlink_buffer, KernelInv, NlType, Netlink
  <2>2. UNCHANGED <<rcv, verdict>>
    BY <1>3 DEF HandleWrite
  <2>3. QueuedOnce'
    BY <2>1, QueuedStays DEF KernelInv
  <2> QED BY <2>1, <2>2, <2>3 DEF KernelInv
<1>4. CASE handed
  <2>1. PICK answers \in Answers(out, what) : rcv' = [rcv EXCEPT ![s] = @ \o answers]
    BY <1>4 DEF HandleWrite
  <2>2. verdict' = [q \in Seqnos |-> IF Contains(out, q)
                                     THEN what[CHOOSE i \in DOMAIN out : out[i] = q]
                                     ELSE verdict[q]]
    BY <1>4 DEF HandleWrite
  <2>3. /\ nl' \in NlType /\ nl'[s].out = <<>>
        /\ \A t \in Socks : t # s => nl'[t].out = nl[t].out
    <3>1. flush_netlink_buffer(nl[s], handed)
            = [out |-> <<>>, write |-> FALSE, transit |-> nl[s].transit + 1, timer |-> TRUE]
      BY <1>4 DEF flush_netlink_buffer
    <3>2. <<>> \in Seq(Seqnos) /\ nl[s].transit + 1 \in Nat
      BY <1>2 DEF Netlink
    <3>3. flush_netlink_buffer(nl[s], handed) \in Netlink
      BY <3>1, <3>2 DEF Netlink
    <3> QED BY <1>1, <3>1, <3>3 DEF KernelInv, NlType
  <2>4. ASSUME NEW i \in DOMAIN out PROVE out[i] \in Seqnos /\ verdict'[out[i]] = what[i]
    <3>1. out[i] \in Seqnos /\ Contains(out, out[i])
      BY <1>2 DEF Contains
    <3>2. (CHOOSE k \in DOMAIN out : out[k] = out[i]) = i
      BY QueuedSame DEF KernelInv
    <3> QED BY <2>2, <3>1, <3>2
  <2>5. ASSUME NEW q \in Seqnos, ~Contains(out, q) PROVE verdict'[q] = verdict[q]
    BY <2>2, <2>5
  <2>6. ASSUME NEW q \in Seqnos, Contains(out, q)
        PROVE  verdict[q] = "none" /\ q <= seq_used /\ verdict'[q] \in {"ok", "error", "lost"}
    <3>1. PICK i \in 1..Len(out) : out[i] = q
      BY <2>6 DEF Contains
    <3> QED BY <1>2, <2>4, <3>1 DEF KernelInv
  <2>7. verdict' \in [Seqnos -> {"none", "ok", "error", "lost"}]
    <3>1. \A q \in Seqnos : verdict'[q] \in {"none", "ok", "error", "lost"}
      BY <2>5, <2>6 DEF KernelInv
    <3> QED BY <2>2, <3>1
  <2>8. /\ answers \in Seq(Answer)
        /\ \A n \in DOMAIN answers : verdict'[answers[n].seq] = answers[n].result
    <3> DEFINE kept == {i \in DOMAIN out : what[i] # "lost"}
    <3>1. PICK pick \in [1..Cardinality(kept) -> kept] :
            answers = [n \in DOMAIN pick |-> [seq |-> out[pick[n]], result |-> what[pick[n]]]]
      BY <2>1 DEF Answers
    <3>2. Cardinality(kept) \in Nat
      <4>1. Len(out) \in Int /\ 1 \in Int
        BY <1>2
      <4> HIDE DEF out
      <4>2. IsFiniteSet(1..Len(out))
        BY <4>1, FS_Interval
      <4>3. IsFiniteSet(kept)
        BY <1>2, <4>2, FS_Subset
      <4> QED BY <4>3, FS_CardinalityType
    <3>3. \A n \in 1..Cardinality(kept) :
            /\ pick[n] \in DOMAIN out /\ what[pick[n]] \in {"ok", "error"}
            /\ out[pick[n]] \in Seqnos /\ verdict'[out[pick[n]]] = what[pick[n]]
      BY <2>4
    <3> HIDE DEF kept
    <3>4. \A n \in 1..Cardinality(kept) : answers[n] \in Answer
      BY <3>1, <3>3 DEF Answer
    <3>5. answers \in [1..Cardinality(kept) -> Answer]
      BY <3>1, <3>4
    <3>6. answers \in Seq(Answer)
      BY <3>2, <3>5, IsASeq
    <3> QED BY <3>1, <3>3, <3>5, <3>6
  <2> DEFINE both == rcv[s] \o answers
  <2>9. /\ both \in Seq(Answer)
        /\ \A n \in DOMAIN both : verdict'[both[n].seq] = both[n].result
    <3>1. rcv[s] \in Seq(Answer)
      BY DEF KernelInv
    <3>2. \A n \in DOMAIN rcv[s] : verdict'[rcv[s][n].seq] = rcv[s][n].result
      <4> SUFFICES ASSUME NEW n \in DOMAIN rcv[s]
                   PROVE  verdict'[rcv[s][n].seq] = rcv[s][n].result
        OBVIOUS
      <4>1. rcv[s][n] \in Answer
        BY <3>1, ElementOfSeq
      <4>2. verdict[rcv[s][n].seq] = rcv[s][n].result
        BY DEF KernelInv
      <4> QED BY <2>5, <2>6, <4>1, <4>2 DEF Answer
    <3>3. /\ both \in Seq(Answer)
          /\ Len(both) = Len(rcv[s]) + Len(answers)
          /\ \A n \in 1..(Len(rcv[s]) + Len(answers)) :
               both[n] = IF n <= Len(rcv[s]) THEN rcv[s][n] ELSE answers[n - Len(rcv[s])]
      BY <2>8, <3>1, ConcatProperties
    <3>4. /\ Len(rcv[s]) \in Nat /\ DOMAIN rcv[s] = 1..Len(rcv[s])
          /\ Len(answers) \in Nat /\ DOMAIN answers = 1..Len(answers)
          /\ DOMAIN both = 1..Len(both)
      BY <2>8, <3>1, <3>3, LenProperties
    <3> HIDE DEF both
    <3>5. ASSUME NEW n \in DOMAIN both PROVE verdict'[both[n].seq] = both[n].result
      <4>1. CASE n <= Len(rcv[s])
        BY <3>2, <3>3, <3>4, <4>1
      <4>2. CASE ~(n <= Len(rcv[s]))
        <5>1. n - Len(rcv[s]) \in DOMAIN answers
          BY <3>3, <3>4, <4>2
        <5> QED BY <2>8, <3>3, <3>4, <4>2, <5>1
      <4> QED BY <4>1, <4>2
    <3> QED BY <3>3, <3>5
  <2> HIDE DEF both
  <2>10. /\ rcv' \in [Socks -> Seq(Answer)]
         /\ \A t \in Socks : \A n \in DOMAIN rcv'[t] : verdict'[rcv'[t][n].seq] = rcv'[t][n].result
    <3>1. rcv' = [rcv EXCEPT ![s] = both]
      BY <2>1 DEF both
    <3>2. ASSUME NEW t \in Socks, t # s, NEW n \in DOMAIN rcv[t]
          PROVE  verdict'[rcv[t][n].seq] = rcv[t][n].result
      <4>1. rcv[t] \in Seq(Answer) /\ rcv[t][n] \in Answer
        BY ElementOfSeq DEF KernelInv
      <4>2. verdict[rcv[t][n].seq] = rcv[t][n].result
        BY DEF KernelInv
      <4> QED BY <2>5, <2>6, <4>1, <4>2 DEF Answer
    <3> QED BY <2>9, <3>1, <3>2 DEF KernelInv
  <2>11. ASSUME NEW t \in Socks, NEW n \in DOMAIN nl'[t].out
         PROVE  /\ t # s /\ n \in DOMAIN nl[t].out /\ nl'[t].out[n] = nl[t].out[n]
                /\ verdict'[nl[t].out[n]] = "none" /\ nl[t].out[n] <= seq_used
    <3>1. t # s /\ n \in DOMAIN nl[t].out /\ nl'[t].out[n] = nl[t].out[n]
      BY <2>3
    <3>2. nl[t].out \in Seq(Seqnos) /\ nl[t].out[n] \in Seqnos
      BY <3>1, ElementOfSeq DEF KernelInv, NlType, Netlink
    <3>3. ~Contains(out, nl[t].out[n])
      BY <1>2, <3>1, QueuedSame DEF Contains, KernelInv
    <3> QED BY <2>5, <3>1, <3>2, <3>3 DEF KernelInv
  <2>12. QueuedOnce'
    BY <2>11, QueuedStays DEF KernelInv
  <2>13. \A q \in Seqnos : q > seq_used' => verdict'[q] = "none"
    <3> SUFFICES ASSUME NEW q \in Seqnos, q > seq_used PROVE verdict'[q] = "none"
      OBVIOUS
    <3>1. ~Contains(out, q)
      BY <2>6, JobsAssumption DEF KernelInv, Seqnos
    <3> QED BY <2>5, <3>1 DEF KernelInv
  <2>14. KernelInv'
    <3>1. \A t \in Socks : \A n \in DOMAIN nl'[t].out :
            nl'[t].out[n] <= seq_used' /\ verdict'[nl'[t].out[n]] = "none"
      BY <2>11
    <3>2. seq_used' \in 0..MaxRequests
      BY DEF KernelInv
    <3> QED BY <2>3, <2>7, <2>10, <2>12, <2>13, <3>1, <3>2 DEF KernelInv
  <2>15. \A q \in Seqnos : verdict[q] # "none" => verdict'[q] = verdict[q]
    BY <2>5, <2>6
  <2> QED BY <2>14, <2>15
<1> QED BY <1>3, <1>4

\* A step that leaves buffers, numbers and the kernel alone.
LEMMA OtherStepsKeepKernel ==
  ASSUME KernelInv, nl' \in NlType, \A t \in Socks : nl'[t].out = nl[t].out,
         \/ rcv' = rcv
         \/ \E s \in Socks : rcv[s] # <<>> /\ rcv' = [rcv EXCEPT ![s] = Tail(rcv[s])],
         UNCHANGED <<seq_used, verdict>>
  PROVE  KernelInv'
<1>0. QueuedOnce'
  BY QueuedStays DEF KernelInv
<1>1. CASE rcv' = rcv
  BY <1>0, <1>1 DEF KernelInv
<1>2. ASSUME NEW s \in Socks, rcv[s] # <<>>, rcv' = [rcv EXCEPT ![s] = Tail(rcv[s])]
      PROVE  KernelInv'
  <2>1. rcv[s] \in Seq(Answer)
    BY DEF KernelInv
  <2>2. /\ Tail(rcv[s]) \in Seq(Answer)
        /\ Len(Tail(rcv[s])) = Len(rcv[s]) - 1
        /\ \A i \in 1..Len(Tail(rcv[s])) : Tail(rcv[s])[i] = rcv[s][i + 1]
    BY <1>2, <2>1, HeadTailProperties
  <2>3. /\ Len(rcv[s]) \in Nat /\ DOMAIN rcv[s] = 1..Len(rcv[s])
        /\ DOMAIN Tail(rcv[s]) = 1..Len(Tail(rcv[s]))
    BY <2>1, <2>2, LenProperties
  <2>4. \A n \in DOMAIN Tail(rcv[s]) : verdict[Tail(rcv[s])[n].seq] = Tail(rcv[s])[n].result
    <3> SUFFICES ASSUME NEW n \in DOMAIN Tail(rcv[s])
                 PROVE  verdict[Tail(rcv[s])[n].seq] = Tail(rcv[s])[n].result
      OBVIOUS
    <3>1. n + 1 \in DOMAIN rcv[s] /\ Tail(rcv[s])[n] = rcv[s][n + 1]
      BY <2>2, <2>3
    <3>2. verdict[rcv[s][n + 1].seq] = rcv[s][n + 1].result
      BY <3>1 DEF KernelInv
    <3> QED BY <3>1, <3>2
  <2>5. /\ rcv' \in [Socks -> Seq(Answer)]
        /\ \A t \in Socks : \A n \in DOMAIN rcv'[t] : verdict[rcv'[t][n].seq] = rcv'[t][n].result
    BY <1>2, <2>2, <2>4 DEF KernelInv
  <2>6. \A t \in Socks : \A n \in DOMAIN nl'[t].out :
          nl'[t].out[n] <= seq_used' /\ verdict'[nl'[t].out[n]] = "none"
    BY DEF KernelInv
  <2>7. /\ seq_used' \in 0..MaxRequests
        /\ verdict' \in [Seqnos -> {"none", "ok", "error", "lost"}]
        /\ \A q \in Seqnos : q > seq_used' => verdict'[q] = "none"
    BY DEF KernelInv
  <2> QED BY <1>0, <2>5, <2>6, <2>7 DEF KernelInv
<1> QED BY <1>1, <1>2

-----------------------------------------------------------------------------
(* The list of jobs *)

\* A job that ends leaves the list, and its own request is reported.
LEMMA FinishKeepsJobs ==
  ASSUME NEW f, NEW n, NEW u, NEW r, JobsOK(f, n, u, r),
         NEW i \in 1..Len(f), NEW result \in Results, result # "none"
  PROVE  /\ f[i] \in Jobs /\ n[f[i]] \in Seqnos /\ r[n[f[i]]] = "none"
         /\ JobsOK(RemoveAt(f, i), n, u, [r EXCEPT ![n[f[i]]] = result])
         /\ \A x : Contains(RemoveAt(f, i), x) <=> Contains(f, x) /\ x # f[i]
<1> DEFINE g == RemoveAt(f, i)
           j == f[i]
           p == [r EXCEPT ![n[f[i]]] = result]
<1>1. f \in Seq(Jobs) /\ Once(f)
  BY DEF JobsOK
<1>2. /\ g \in Seq(Jobs) /\ Once(g)
      /\ \A x : Contains(g, x) <=> Contains(f, x) /\ x # j
  BY <1>1, RemoveAtOnce
<1>3. j \in Jobs /\ Contains(f, j)
  BY <1>1, ElementOfSeq DEF Contains
<1>4. n[j] \in Seqnos /\ r[n[j]] = "none" /\ n[j] <= u
  BY <1>3, JobsAssumption DEF JobsOK, Seqnos
<1> HIDE DEF g, j
<1>5. p \in [Seqnos -> Results] /\ p[n[j]] = result /\ \A q \in Seqnos : q # n[j] => p[q] = r[q]
  BY <1>4 DEF JobsOK, j
<1> HIDE DEF p
<1>6. ASSUME NEW k \in Jobs, Contains(g, k) PROVE n[k] # 0 /\ p[n[k]] = "none"
  <2>1. Contains(f, k) /\ k # j
    BY <1>2, <1>6
  <2>2. n[k] # 0 /\ r[n[k]] = "none" /\ n[k] \in Seqnos
    BY <2>1, JobsAssumption DEF JobsOK, Seqnos
  <2>3. n[k] # n[j]
    BY <1>3, <2>1, <2>2 DEF JobsOK
  <2> QED BY <1>5, <2>2, <2>3
<1>7. ASSUME NEW k \in Jobs, ~Contains(g, k), n[k] # 0 PROVE p[n[k]] # "none"
  <2>1. n[k] \in Seqnos
    BY <1>7, JobsAssumption DEF JobsOK, Seqnos
  <2>2. CASE k = j
    BY <1>5, <2>2
  <2>3. CASE ~Contains(f, k)
    <3>1. r[n[k]] # "none"
      BY <1>7, <2>3 DEF JobsOK
    <3> QED BY <1>4, <1>5, <2>1, <3>1
  <2> QED BY <1>2, <1>7, <2>2, <2>3
<1>8. ASSUME NEW q \in Seqnos, q > u PROVE p[q] = "none"
  <2>1. q # n[j]
    BY <1>4, <1>8 DEF Seqnos, JobsOK
  <2> QED BY <1>5, <1>8, <2>1 DEF JobsOK
<1>9. JobsOK(g, n, u, p)
  BY <1>2, <1>5, <1>6, <1>7, <1>8 DEF JobsOK
<1> QED BY <1>2, <1>3, <1>4, <1>9 DEF g, j, p

\* A followed request puts its job on the list under a number nobody has used.
LEMMA RequestKeepsJobs ==
  ASSUME NEW f, NEW n, NEW u, NEW r, JobsOK(f, n, u, r), u < MaxRequests,
         NEW j \in Jobs, ~Contains(f, j)
  PROVE  /\ JobsOK(Append(f, j), [n EXCEPT ![j] = u + 1], u + 1, r)
         /\ \A x : Contains(Append(f, j), x) <=> Contains(f, x) \/ x = j
<1> DEFINE g == Append(f, j)
           m == [n EXCEPT ![j] = u + 1]
<1>1. f \in Seq(Jobs) /\ Once(f)
  BY DEF JobsOK
<1>2. g \in Seq(Jobs) /\ Once(g) /\ \A x : Contains(g, x) <=> Contains(f, x) \/ x = j
  BY <1>1, AppendOnce
<1> HIDE DEF g
<1>3. u + 1 \in Seqnos /\ u + 1 \in 0..MaxRequests /\ u \in Nat /\ u + 1 > u
  BY JobsAssumption DEF JobsOK, Seqnos
<1>4. m \in [Jobs -> 0..MaxRequests] /\ m[j] = u + 1 /\ \A k \in Jobs : k # j => m[k] = n[k]
  BY <1>3 DEF JobsOK
<1> HIDE DEF m
<1>5. \A k \in Jobs : n[k] \in 0..MaxRequests /\ n[k] <= u
  BY DEF JobsOK
<1>6. \A k \in Jobs : n[k] # u + 1 /\ m[k] <= u + 1
  BY <1>3, <1>4, <1>5, JobsAssumption
<1>7. r[u + 1] = "none"
  BY <1>3 DEF JobsOK
<1>8. \A k, l \in Jobs : m[k] # 0 /\ m[k] = m[l] => k = l
  BY <1>4, <1>6 DEF JobsOK
<1>9. \A k \in Jobs : Contains(g, k) => m[k] # 0 /\ r[m[k]] = "none"
  BY <1>2, <1>3, <1>4, <1>7 DEF JobsOK
<1>10. \A k \in Jobs : ~Contains(g, k) /\ m[k] # 0 => r[m[k]] # "none"
  BY <1>2, <1>4 DEF JobsOK
<1>11. \A q \in Seqnos : q > u + 1 => r[q] = "none"
  <2> SUFFICES ASSUME NEW q \in Seqnos, q > u + 1 PROVE r[q] = "none"
    OBVIOUS
  <2>1. q > u
    BY <1>3 DEF Seqnos
  <2> QED BY <2>1 DEF JobsOK
<1>12. r \in [Seqnos -> Results]
  BY DEF JobsOK
<1>13. JobsOK(g, m, u + 1, r)
  BY <1>2, <1>3, <1>4, <1>6, <1>8, <1>9, <1>10, <1>11, <1>12 DEF JobsOK
<1> QED BY <1>2, <1>13 DEF g, m

\* A request nobody follows only uses a number.
LEMMA NumberKeepsJobs ==
  ASSUME NEW f, NEW n, NEW u, NEW r, JobsOK(f, n, u, r), u < MaxRequests
  PROVE  JobsOK(f, n, u + 1, r)
<1>1. u \in Nat /\ u + 1 \in 0..MaxRequests
  BY JobsAssumption DEF JobsOK
<1>2. \A j \in Jobs : n[j] <= u + 1
  <2> SUFFICES ASSUME NEW j \in Jobs PROVE n[j] <= u + 1
    OBVIOUS
  <2>1. n[j] \in 0..MaxRequests /\ n[j] <= u
    BY DEF JobsOK
  <2> QED BY <1>1, <2>1, JobsAssumption
<1>3. \A q \in Seqnos : q > u + 1 => r[q] = "none"
  <2> SUFFICES ASSUME NEW q \in Seqnos, q > u + 1 PROVE r[q] = "none"
    OBVIOUS
  <2>1. q > u
    BY <1>1 DEF Seqnos
  <2> QED BY <2>1 DEF JobsOK
<1> QED BY <1>1, <1>2, <1>3 DEF JobsOK

\* list_remove() takes the job from the place where it stands.
LEMMA WithoutIsRemoved ==
  ASSUME feedback \in Seq(Jobs), NEW j, Contains(feedback, j)
  PROVE  \E i \in 1..Len(feedback) : feedback[i] = j /\ Without(j) = RemoveAt(feedback, i)
<1>1. DOMAIN feedback = 1..Len(feedback)
  BY LenProperties
<1>2. \E i \in DOMAIN feedback : feedback[i] = j
  BY <1>1 DEF Contains
<1> DEFINE i == CHOOSE i \in DOMAIN feedback : feedback[i] = j
<1>3. i \in DOMAIN feedback /\ feedback[i] = j
  BY <1>2
<1>4. Without(j) = RemoveAt(feedback, i)
  BY DEF Without
<1> HIDE DEF i
<1> QED BY <1>1, <1>3, <1>4

\* FinishKeepsJobs for a job of the list.
LEMMA JobEnds ==
  ASSUME JobsOK(feedback, nl_seq, seq_used, reported), NEW j, Contains(feedback, j),
         NEW result \in Results, result # "none"
  PROVE  /\ j \in Jobs /\ nl_seq[j] \in Seqnos /\ reported[nl_seq[j]] = "none"
         /\ JobsOK(Without(j), nl_seq, seq_used, [reported EXCEPT ![nl_seq[j]] = result])
         /\ \A x : Contains(Without(j), x) <=> Contains(feedback, x) /\ x # j
<1>1. feedback \in Seq(Jobs)
  BY DEF JobsOK
<1>2. PICK i \in 1..Len(feedback) : feedback[i] = j /\ Without(j) = RemoveAt(feedback, i)
  BY <1>1, WithoutIsRemoved
<1>3. /\ feedback[i] \in Jobs /\ nl_seq[feedback[i]] \in Seqnos
      /\ reported[nl_seq[feedback[i]]] = "none"
      /\ JobsOK(RemoveAt(feedback, i), nl_seq, seq_used,
                [reported EXCEPT ![nl_seq[feedback[i]]] = result])
      /\ \A x : Contains(RemoveAt(feedback, i), x) <=> Contains(feedback, x) /\ x # feedback[i]
  BY FinishKeepsJobs
<1> QED BY <1>2, <1>3

-----------------------------------------------------------------------------
(* The steps *)

\* A request uses a buffer.
LEMMA RequestBuffer ==
  ASSUME KernelInv, NEW j \in Jobs, NEW cb, NEW oom \in BOOLEAN,
         Request(j, cb, oom), UNCHANGED <<rcv, verdict>>
  PROVE  KernelInv'
<1> DEFINE s == SockOf(j)
           m == os_system_netlink_send(nl[s], seq_used + 1, oom)
<1>1. s \in Socks
  BY DEF SockOf, Socks
<1> HIDE DEF s
<1>2. /\ seq_used < MaxRequests /\ seq_used' = seq_used + 1 /\ seq_used + 1 \in Seqnos
      /\ nl' = [nl EXCEPT ![s] = m]
  BY JobsAssumption DEF Request, KernelInv, Seqnos, s
<1>3. nl[s].out \in Seq(Seqnos) /\ Append(nl[s].out, seq_used + 1) \in Seq(Seqnos)
  BY <1>1, <1>2, AppendProperties DEF KernelInv, NlType, Netlink
<1>4. /\ m \in Netlink
      /\ m.out = nl[s].out \/ m.out = Append(nl[s].out, seq_used + 1)
  <2>1. nl[s] \in Netlink
    BY <1>1 DEF KernelInv, NlType
  <2> QED BY <1>2, <2>1, NetlinkRecords
<1> HIDE DEF m
<1>5. /\ nl' \in NlType /\ nl'[s].out = m.out
      /\ \A t \in Socks : t # s => nl'[t].out = nl[t].out
  BY <1>1, <1>2, <1>4 DEF KernelInv, NlType
<1>6. nl'[s].out = nl[s].out \/ nl'[s].out = Append(nl[s].out, seq_used + 1)
  BY <1>4, <1>5
<1> QED BY <1>1, <1>2, <1>5, <1>6, RequestKeepsKernel

\* A failure is always a true report.
LEMMA FailureIsTrue ==
  ASSUME ReportedIsTrue, reported \in [Seqnos -> Results], NEW q \in Seqnos,
         reported' = [reported EXCEPT ![q] = "failed"], UNCHANGED verdict
  PROVE  ReportedIsTrue'
BY DEF ReportedIsTrue

\* New requests of clients.
LEMMA NewRequestStep ==
  ASSUME NetInv, NEW j \in Jobs, NEW cb \in BOOLEAN, NEW oom \in BOOLEAN, NewRequest(j, cb, oom)
  PROVE  NetInv'
<1>1. /\ Request(j, cb, oom) /\ seq_used < MaxRequests /\ seq_used' = seq_used + 1
      /\ ~Contains(feedback, j) /\ walk = Idle
      /\ rcv' = rcv /\ verdict' = verdict /\ reported' = reported
      /\ walk' = walk /\ undefined' = undefined
  BY DEF NewRequest, Request, Running
<1>2. KernelInv'
  BY <1>1, RequestBuffer DEF NetInv
<1>3. JobsOK(feedback, nl_seq, seq_used, reported)'
  <2>1. CASE cb
    <3>1. nl_seq' = [nl_seq EXCEPT ![j] = seq_used + 1] /\ feedback' = Append(feedback, j)
      BY <2>1 DEF NewRequest, Request
    <3> QED BY <1>1, <3>1, RequestKeepsJobs DEF NetInv
  <2>2. CASE ~cb
    <3>1. nl_seq' = nl_seq /\ feedback' = feedback
      BY <2>2 DEF NewRequest, Request
    <3> QED BY <1>1, <3>1, NumberKeepsJobs DEF NetInv
  <2> QED BY <2>1, <2>2
<1>4. WalkInv'
  BY <1>1, JobsAssumption DEF WalkInv, NetInv
<1>5. ReportedIsTrue'
  BY <1>1 DEF NetInv, ReportedIsTrue
<1> QED BY <1>2, <1>3, <1>4, <1>5 DEF NetInv

\* A client gives a job up.
LEMMA InterruptStep ==
  ASSUME NetInv, NEW j \in Jobs, interrupt(j)
  PROVE  NetInv' /\ \A q \in Seqnos : reported[q] # "none" => reported'[q] = reported[q]
<1>1. /\ Contains(feedback, j) /\ feedback' = Without(j) /\ walk = Idle
      /\ reported' = [reported EXCEPT ![nl_seq[j]] = "failed"]
      /\ nl' = nl /\ rcv' = rcv /\ nl_seq' = nl_seq /\ seq_used' = seq_used
      /\ walk' = walk /\ undefined' = undefined /\ verdict' = verdict
  BY DEF interrupt, Finished, Running
<1>2. "failed" \in Results /\ reported \in [Seqnos -> Results]
  BY DEF Results, NetInv, JobsOK
<1>3. /\ nl_seq[j] \in Seqnos /\ reported[nl_seq[j]] = "none"
      /\ JobsOK(Without(j), nl_seq, seq_used, [reported EXCEPT ![nl_seq[j]] = "failed"])
  BY <1>1, <1>2, JobEnds DEF NetInv
<1>4. JobsOK(feedback, nl_seq, seq_used, reported)'
  BY <1>1, <1>3
<1>5. KernelInv'
  BY <1>1, OtherStepsKeepKernel DEF NetInv, KernelInv
<1>6. WalkInv'
  BY <1>1, JobsAssumption DEF WalkInv, NetInv
<1>7. ReportedIsTrue'
  BY <1>1, <1>2, <1>3, FailureIsTrue DEF NetInv
<1>8. \A q \in Seqnos : reported[q] # "none" => reported'[q] = reported[q]
  BY <1>1, <1>2, <1>3
<1> QED BY <1>4, <1>5, <1>6, <1>7, <1>8 DEF NetInv

\* A batch is sent, or sending fails.
LEMMA WriteStep ==
  ASSUME NetInv, NEW s \in Socks, NEW handed \in BOOLEAN,
         NEW what \in [DOMAIN nl[s].out -> {"ok", "error", "lost"}],
         HandleWrite(s, handed, what), UNCHANGED <<seq_used, walk, undefined>>
  PROVE  NetInv' /\ reported' = reported
<1>1. /\ feedback' = feedback /\ nl_seq' = nl_seq /\ reported' = reported
      /\ seq_used' = seq_used /\ walk' = walk /\ undefined' = undefined
  BY DEF HandleWrite
<1>2. KernelInv' /\ \A q \in Seqnos : verdict[q] # "none" => verdict'[q] = verdict[q]
  BY WriteKeepsKernel DEF NetInv
<1>3. JobsOK(feedback, nl_seq, seq_used, reported)'
  BY <1>1 DEF NetInv
<1>4. WalkInv'
  BY <1>1 DEF NetInv, WalkInv
<1>5. ReportedIsTrue'
  BY <1>1, <1>2 DEF NetInv, ReportedIsTrue
<1> QED BY <1>1, <1>2, <1>3, <1>4, <1>5 DEF NetInv

\* An answer is read: it is reported to the job that has its number, if any.
LEMMA ReadStep ==
  ASSUME NetInv, NEW s \in Socks, HandleRead(s), Running,
         UNCHANGED <<seq_used, walk, undefined>>
  PROVE  NetInv' /\ \A q \in Seqnos : reported[q] # "none" => reported'[q] = reported[q]
<1> DEFINE answer == rcv[s][1]
<1>1. /\ rcv[s] # <<>> /\ rcv' = [rcv EXCEPT ![s] = Tail(rcv[s])]
      /\ nl' = [nl EXCEPT ![s] = netlink_job_finished(nl[s])]
      /\ nl_seq' = nl_seq /\ verdict' = verdict /\ walk = Idle
      /\ seq_used' = seq_used /\ walk' = walk /\ undefined' = undefined
  BY DEF HandleRead, Running
<1>2. /\ rcv[s] \in Seq(Answer)
      /\ nl[s] \in Netlink
  BY DEF NetInv, KernelInv, NlType
<1>3. 1 \in DOMAIN rcv[s] /\ answer \in Answer /\ verdict[answer.seq] = answer.result
  <2>1. Len(rcv[s]) \in Nat /\ DOMAIN rcv[s] = 1..Len(rcv[s]) /\ Len(rcv[s]) # 0
    BY <1>1, <1>2, LenProperties, EmptySeq
  <2>2. 1 \in DOMAIN rcv[s]
    BY <2>1
  <2>3. answer \in Answer
    BY <1>2, <2>1, <2>2, ElementOfSeq
  <2> QED BY <2>2, <2>3 DEF NetInv, KernelInv
<1>4. /\ netlink_job_finished(nl[s]).out = nl[s].out
      /\ netlink_job_finished(nl[s]) \in Netlink
  BY <1>2, FinishedRecords
<1>5. nl' \in NlType /\ \A t \in Socks : nl'[t].out = nl[t].out
  BY <1>1, <1>4, OutsUnchanged DEF NetInv, KernelInv
<1>6. KernelInv'
  BY <1>1, <1>5, OtherStepsKeepKernel DEF NetInv
<1>7. WalkInv'
  BY <1>1, JobsAssumption DEF WalkInv, NetInv
<1> HIDE DEF answer
<1>8. CASE UNCHANGED <<feedback, reported>>
  <2>1. JobsOK(feedback, nl_seq, seq_used, reported)' /\ ReportedIsTrue'
    BY <1>1, <1>8 DEF NetInv, ReportedIsTrue
  <2> QED BY <1>6, <1>7, <1>8, <2>1 DEF NetInv
<1>9. CASE \E i \in Match(s, answer.seq) : Finished(feedback[i], answer.result)
  <2>1. PICK i \in DOMAIN feedback : /\ nl_seq[feedback[i]] = answer.seq
                                     /\ Finished(feedback[i], answer.result)
    BY <1>9 DEF Match
  <2> DEFINE j == feedback[i]
  <2>2. Contains(feedback, j)
    BY LenProperties DEF Contains, NetInv, JobsOK
  <2> HIDE DEF j
  <2>3. /\ nl_seq[j] = answer.seq /\ feedback' = Without(j)
        /\ reported' = [reported EXCEPT ![nl_seq[j]] = answer.result]
    BY <2>1 DEF Finished, j
  <2>4. answer.result \in {"ok", "error"} /\ answer.result \in Results /\ answer.result # "none"
    BY <1>3 DEF Answer, Results
  <2>5. /\ nl_seq[j] \in Seqnos /\ reported[nl_seq[j]] = "none"
        /\ JobsOK(Without(j), nl_seq, seq_used, [reported EXCEPT ![nl_seq[j]] = answer.result])
    BY <2>2, <2>4, JobEnds DEF NetInv
  <2>6. JobsOK(feedback, nl_seq, seq_used, reported)'
    BY <1>1, <2>3, <2>5
  <2>7. reported \in [Seqnos -> Results]
    BY DEF NetInv, JobsOK
  <2>8. ReportedIsTrue'
    BY <1>1, <1>3, <2>3, <2>5, <2>7 DEF ReportedIsTrue, NetInv
  <2>9. \A q \in Seqnos : reported[q] # "none" => reported'[q] = reported[q]
    BY <2>3, <2>5, <2>7
  <2> QED BY <1>6, <1>7, <2>6, <2>8, <2>9 DEF NetInv
<1> QED BY <1>8, <1>9 DEF HandleRead, answer

\* A timeout without jobs.
LEMMA TimeoutOfNoneStep ==
  ASSUME NetInv, NEW s \in Socks, TimeoutOfNone(s)
  PROVE  NetInv'
<1>1. /\ nl' = [nl EXCEPT ![s] = TransitGone(TimerGone(nl[s]))]
      /\ rcv' = rcv /\ feedback' = feedback /\ nl_seq' = nl_seq /\ seq_used' = seq_used
      /\ walk' = walk /\ undefined' = undefined /\ verdict' = verdict /\ reported' = reported
  BY DEF TimeoutOfNone
<1>2. nl[s] \in Netlink /\ nl \in NlType
  BY DEF NetInv, KernelInv, NlType
<1>3. TransitGone(TimerGone(nl[s])) \in Netlink /\ TransitGone(TimerGone(nl[s])).out = nl[s].out
  BY <1>2, FinishedRecords
<1>4. nl' \in NlType /\ \A t \in Socks : nl'[t].out = nl[t].out
  BY <1>1, <1>2, <1>3, OutsUnchanged
<1>5. KernelInv'
  BY <1>1, <1>4, OtherStepsKeepKernel DEF NetInv
<1> QED BY <1>1, <1>5 DEF NetInv, WalkInv, ReportedIsTrue

\* The loop over the jobs of the routing socket starts and ends.
LEMMA TimeoutLoopStep ==
  ASSUME NetInv, TimeoutStarts \/ TimeoutEnds
  PROVE  NetInv' /\ reported' = reported
<1>1. /\ rcv' = rcv /\ feedback' = feedback /\ nl_seq' = nl_seq /\ seq_used' = seq_used
      /\ undefined' = undefined /\ verdict' = verdict /\ reported' = reported
  BY DEF TimeoutStarts, TimeoutEnds
<1>2. /\ nl' \in NlType
      /\ \A t \in Socks : nl'[t].out = nl[t].out
  <2>1. nl["routing"] \in Netlink /\ nl \in NlType /\ "routing" \in Socks
    BY DEF NetInv, KernelInv, NlType, Socks
  <2>2. \/ nl' = [nl EXCEPT !["routing"] = TimerGone(nl["routing"])]
        \/ nl' = [nl EXCEPT !["routing"] = TransitGone(nl["routing"])]
    BY DEF TimeoutStarts, TimeoutEnds
  <2> QED BY <2>1, <2>2, FinishedRecords, OutsUnchanged
<1>3. KernelInv'
  BY <1>1, <1>2, OtherStepsKeepKernel DEF NetInv
<1>4. WalkInv'
  <2>1. CASE TimeoutStarts
    <3>1. feedback \in Seq(Jobs) /\ feedback # <<>> /\ walk' = feedback[1]
      BY <2>1 DEF TimeoutStarts, NetInv, JobsOK
    <3>2. Len(feedback) \in Nat /\ Len(feedback) # 0 /\ DOMAIN feedback = 1..Len(feedback)
      BY <3>1, LenProperties, EmptySeq
    <3>3. 1 \in 1..Len(feedback) /\ feedback[1] \in Jobs
      BY <3>1, <3>2, ElementOfSeq
    <3>4. Contains(feedback, walk')
      BY <3>1, <3>3 DEF Contains
    <3> QED BY <1>1, <3>1, <3>3, <3>4 DEF WalkInv, NetInv
  <2>2. CASE TimeoutEnds
    BY <1>1, <2>2, JobsAssumption DEF TimeoutEnds, WalkInv, NetInv
  <2> QED BY <2>1, <2>2
<1> QED BY <1>1, <1>3, <1>4 DEF NetInv, ReportedIsTrue

\* The loop reports a job that stands on the list, and the one it moves to stays there,
\* whether or not the callback makes the request again.
LEMMA TimeoutReportsStep ==
  ASSUME NetInv, TimeoutReports
  PROVE  NetInv' /\ \A q \in Seqnos : reported[q] # "none" => reported'[q] = reported[q]
<1>1. /\ walk \in Jobs /\ Contains(feedback, walk) /\ walk' = NextOf(walk)
      /\ rcv' = rcv /\ undefined' = undefined /\ verdict' = verdict
      /\ reported' = [reported EXCEPT ![nl_seq[walk]] = "failed"]
  BY DEF TimeoutReports, ReportTimeout, NetInv, WalkInv, Jobs
<1>2. "failed" \in Results /\ "failed" # "none" /\ reported \in [Seqnos -> Results]
  BY DEF Results, NetInv, JobsOK
<1>3. /\ nl_seq[walk] \in Seqnos /\ reported[nl_seq[walk]] = "none"
      /\ JobsOK(Without(walk), nl_seq, seq_used, reported')
      /\ \A x : Contains(Without(walk), x) <=> Contains(feedback, x) /\ x # walk
  BY <1>1, <1>2, JobEnds DEF NetInv
<1>4. walk' = ListHead \/ (walk' \in Jobs /\ walk' # walk /\ Contains(feedback, walk'))
  <2> DEFINE i == CHOOSE i \in DOMAIN feedback : feedback[i] = walk
  <2>1. /\ feedback \in Seq(Jobs) /\ Once(feedback)
        /\ Len(feedback) \in Nat /\ DOMAIN feedback = 1..Len(feedback)
    BY LenProperties DEF NetInv, JobsOK
  <2>2. i \in 1..Len(feedback) /\ feedback[i] = walk
    BY <1>1, <2>1 DEF Contains
  <2>3. walk' = IF i = Len(feedback) THEN ListHead ELSE feedback[i + 1]
    BY <1>1 DEF NextOf
  <2> HIDE DEF i
  <2>4. CASE i # Len(feedback)
    <3>1. i + 1 \in 1..Len(feedback) /\ i + 1 # i
      <4>1. Len(feedback) \in Nat /\ i \in 1..Len(feedback)
        BY <2>1, <2>2
      <4> QED BY <2>4, <4>1
    <3>2. walk' = feedback[i + 1] /\ feedback[i + 1] \in Jobs
      BY <2>1, <2>3, <2>4, <3>1, ElementOfSeq
    <3>3. feedback[i + 1] # walk
      BY <2>1, <2>2, <3>1 DEF Once
    <3>4. Contains(feedback, walk')
      BY <3>1, <3>2 DEF Contains
    <3> QED BY <3>2, <3>3, <3>4
  <2> QED BY <2>3, <2>4
<1>5. /\ KernelInv' /\ JobsOK(feedback, nl_seq, seq_used, reported)'
      /\ \A x : Contains(feedback, x) /\ x # walk => Contains(feedback', x)
  <2>1. CASE feedback' = Without(walk) /\ UNCHANGED <<nl, nl_seq, seq_used>>
    <3>1. KernelInv'
      BY <1>1, <2>1, OtherStepsKeepKernel DEF NetInv, KernelInv
    <3> QED BY <1>3, <2>1, <3>1
  <2>2. ASSUME NEW oom \in BOOLEAN, Retry(walk, oom)
        PROVE  /\ KernelInv' /\ JobsOK(feedback, nl_seq, seq_used, reported)'
               /\ \A x : Contains(feedback, x) /\ x # walk => Contains(feedback', x)
    <3>1. /\ Request(walk, TRUE, oom) /\ seq_used < MaxRequests /\ seq_used' = seq_used + 1
          /\ nl_seq' = [nl_seq EXCEPT ![walk] = seq_used + 1]
          /\ feedback' = Append(Without(walk), walk)
      BY <2>2 DEF Retry, Request
    <3>2. KernelInv'
      BY <1>1, <3>1, RequestBuffer DEF NetInv
    <3>3. ~Contains(Without(walk), walk)
      BY <1>3
    <3>4. /\ JobsOK(Append(Without(walk), walk), [nl_seq EXCEPT ![walk] = seq_used + 1],
                    seq_used + 1, reported')
          /\ \A x : Contains(Append(Without(walk), walk), x)
                      <=> Contains(Without(walk), x) \/ x = walk
      <4> DEFINE g == Without(walk)
                 r == reported'
      <4>1. JobsOK(g, nl_seq, seq_used, r) /\ seq_used < MaxRequests /\ walk \in Jobs
        BY <1>1, <1>3, <3>1
      <4>2. ~Contains(g, walk)
        BY <3>3
      <4> HIDE DEF g, r
      <4>3. /\ JobsOK(Append(g, walk), [nl_seq EXCEPT ![walk] = seq_used + 1], seq_used + 1, r)
            /\ \A x : Contains(Append(g, walk), x) <=> Contains(g, x) \/ x = walk
        BY <4>1, <4>2, RequestKeepsJobs
      <4> QED BY <4>3 DEF g, r
    <3> QED BY <1>3, <3>1, <3>2, <3>4
  <2> QED BY <2>1, <2>2 DEF TimeoutReports, ReportTimeout
<1>6. WalkInv'
  BY <1>1, <1>4, <1>5, JobsAssumption DEF WalkInv, NetInv
<1>7. ReportedIsTrue'
  BY <1>1, <1>2, <1>3, FailureIsTrue DEF NetInv
<1>8. \A q \in Seqnos : reported[q] # "none" => reported'[q] = reported[q]
  BY <1>1, <1>2, <1>3
<1> QED BY <1>5, <1>6, <1>7, <1>8 DEF NetInv

\* The loop over the jobs of the address socket: the first is reported and asked again.
LEMMA AddressRetriedStep ==
  ASSUME NetInv, AddressTimeoutRetried
  PROVE  NetInv' /\ \A q \in Seqnos : reported[q] # "none" => reported'[q] = reported[q]
<1> DEFINE j == feedback[1]
<1>1. /\ feedback # <<>> /\ j \in Addrs /\ seq_used < MaxRequests /\ walk = Idle
      /\ reported' = [reported EXCEPT ![nl_seq[j]] = "failed"]
      /\ seq_used' = seq_used + 1
      /\ nl_seq' = [nl_seq EXCEPT ![j] = seq_used + 1]
      /\ feedback' = Append(Without(j), j)
      /\ rcv' = rcv /\ walk' = walk /\ undefined' = undefined /\ verdict' = verdict
  BY DEF AddressTimeoutRetried, TimerFired, Running
<1>2. Contains(feedback, j) /\ j \in Jobs
  <2>1. feedback \in Seq(Jobs)
    BY DEF NetInv, JobsOK
  <2>2. Len(feedback) \in Nat /\ Len(feedback) # 0
    BY <1>1, <2>1, LenProperties, EmptySeq
  <2>3. 1 \in 1..Len(feedback)
    BY <2>2
  <2> QED BY <1>1, <2>3 DEF Contains, Jobs
<1>3. PICK oom \in BOOLEAN :
        nl' = [nl EXCEPT !["system"] =
                 TransitGone(os_system_netlink_send(TimerGone(nl["system"]), seq_used + 1, oom))]
  BY DEF AddressTimeoutRetried
<1> HIDE DEF j
<1>4. "failed" \in Results /\ "failed" # "none" /\ reported \in [Seqnos -> Results]
  BY DEF Results, NetInv, JobsOK
<1>5. /\ nl_seq[j] \in Seqnos /\ reported[nl_seq[j]] = "none"
      /\ JobsOK(Without(j), nl_seq, seq_used, reported')
      /\ ~Contains(Without(j), j)
  BY <1>1, <1>2, <1>4, JobEnds DEF NetInv
<1>6. JobsOK(feedback, nl_seq, seq_used, reported)'
  <2> DEFINE g == Without(j)
             r == reported'
  <2>1. JobsOK(g, nl_seq, seq_used, r) /\ seq_used < MaxRequests /\ ~Contains(g, j)
    BY <1>1, <1>5
  <2> HIDE DEF g, r
  <2>2. JobsOK(Append(g, j), [nl_seq EXCEPT ![j] = seq_used + 1], seq_used + 1, r)
    BY <1>2, <2>1, RequestKeepsJobs
  <2> QED BY <1>1, <2>2 DEF g, r
<1>7. KernelInv'
  <2> DEFINE n == nl["system"]
             m == TransitGone(os_system_netlink_send(TimerGone(n), seq_used + 1, oom))
  <2>1. n \in Netlink /\ "system" \in Socks /\ seq_used + 1 \in Seqnos
    BY <1>1, JobsAssumption DEF NetInv, KernelInv, NlType, Socks, Seqnos
  <2>2. nl' = [nl EXCEPT !["system"] = m]
    BY <1>3
  <2>3. TimerGone(n) \in Netlink /\ TimerGone(n).out = n.out
    BY <2>1, FinishedRecords
  <2>4. m \in Netlink /\ (m.out = n.out \/ m.out = Append(n.out, seq_used + 1))
    <3> DEFINE o == os_system_netlink_send(TimerGone(n), seq_used + 1, oom)
    <3>1. o \in Netlink /\ (o.out = n.out \/ o.out = Append(n.out, seq_used + 1))
      BY <2>1, <2>3, NetlinkRecords
    <3> HIDE DEF o
    <3>2. TransitGone(o) \in Netlink /\ TransitGone(o).out = o.out
      BY <3>1, FinishedRecords
    <3> QED BY <3>1, <3>2 DEF o
  <2> HIDE DEF m
  <2>5. /\ nl' \in NlType /\ nl'["system"].out = m.out
        /\ \A t \in Socks : t # "system" => nl'[t].out = nl[t].out
    BY <2>1, <2>2, <2>4 DEF NetInv, KernelInv, NlType
  <2>6. nl'["system"].out = nl["system"].out \/ nl'["system"].out = Append(nl["system"].out, seq_used + 1)
    BY <2>4, <2>5
  <2> QED BY <1>1, <2>1, <2>5, <2>6, RequestKeepsKernel DEF NetInv
<1>8. WalkInv'
  BY <1>1, JobsAssumption DEF WalkInv, NetInv
<1>9. ReportedIsTrue'
  BY <1>1, <1>4, <1>5, FailureIsTrue DEF NetInv
<1>10. \A q \in Seqnos : reported[q] # "none" => reported'[q] = reported[q]
  BY <1>1, <1>4, <1>5
<1> QED BY <1>6, <1>7, <1>8, <1>9, <1>10 DEF NetInv

\* What follows a pointer of the wrong kind, or a NULL pointer, ends the behaviour.
LEMMA UndefinedStep ==
  ASSUME NetInv, TimeoutOfForeign \/ AddressTimeoutRunsOff
  PROVE  NetInv' /\ reported' = reported
<1>1. /\ nl' = nl /\ rcv' = rcv /\ feedback' = feedback /\ nl_seq' = nl_seq
      /\ seq_used' = seq_used /\ walk' = walk /\ undefined' = TRUE
      /\ verdict' = verdict /\ reported' = reported
  BY DEF TimeoutOfForeign, AddressTimeoutRunsOff
<1>2. KernelInv'
  BY <1>1, OtherStepsKeepKernel DEF NetInv, KernelInv
<1> QED BY <1>1, <1>2 DEF NetInv, WalkInv, ReportedIsTrue

-----------------------------------------------------------------------------
(* The inductive invariant *)

LEMMA InitNetInv == Init => NetInv
<1> SUFFICES ASSUME Init PROVE NetInv
  OBVIOUS
<1> USE JobsAssumption DEF Init
<1>1. nl \in NlType /\ \A s \in Socks : nl[s].out = <<>> /\ DOMAIN nl[s].out = {}
  BY DEF NlType, Netlink
<1>2. rcv \in [Socks -> Seq(Answer)] /\ \A s \in Socks : DOMAIN rcv[s] = {}
  OBVIOUS
<1>3. QueuedOnce
  BY <1>1 DEF QueuedOnce
<1>4. KernelInv
  BY <1>1, <1>2, <1>3 DEF KernelInv, Seqnos
<1>5. feedback \in Seq(Jobs) /\ Once(feedback) /\ \A j \in Jobs : ~Contains(feedback, j)
  BY DEF Once, Contains
<1>6. JobsOK(feedback, nl_seq, seq_used, reported)
  BY <1>5 DEF JobsOK, Results
<1>7. WalkInv /\ ReportedIsTrue
  BY DEF WalkInv, ReportedIsTrue
<1> QED BY <1>4, <1>6, <1>7 DEF NetInv

\* Every step keeps the invariant and the reports that were made.
LEMMA NextKeepsNetInv ==
  ASSUME NetInv, [Next]_vars
  PROVE  NetInv' /\ \A q \in Seqnos : reported[q] # "none" => reported'[q] = reported[q]
<1>1. CASE Client
  <2>1. ASSUME NEW j \in Jobs, NEW cb \in BOOLEAN, NEW oom \in BOOLEAN, NewRequest(j, cb, oom)
        PROVE  NetInv' /\ reported' = reported
    BY <2>1, NewRequestStep DEF NewRequest
  <2>2. PICK j \in Jobs, cb \in BOOLEAN, oom \in BOOLEAN :
          \/ NewRequest(j, cb, oom) \/ NewRequest(j, TRUE, oom) \/ interrupt(j)
    BY <1>1 DEF Client, os_routing_set, os_routing_query, os_system_ifaddr_set
  <2>3. CASE NewRequest(j, cb, oom)
    BY <2>1, <2>3
  <2>4. CASE NewRequest(j, TRUE, oom)
    BY <2>1, <2>4
  <2>5. CASE interrupt(j)
    BY <2>5, InterruptStep
  <2> QED BY <2>2, <2>3, <2>4, <2>5
<1>2. ASSUME NEW s \in Socks, netlink_handler(s)
      PROVE  NetInv' /\ \A q \in Seqnos : reported[q] # "none" => reported'[q] = reported[q]
  <2>1. Running /\ UNCHANGED <<seq_used, walk, undefined>>
    BY <1>2 DEF netlink_handler
  <2>2. CASE HandleRead(s)
    BY <2>1, <2>2, ReadStep
  <2>3. ASSUME NEW handed \in BOOLEAN,
               NEW what \in [DOMAIN nl[s].out -> {"ok", "error", "lost"}],
               HandleWrite(s, handed, what)
        PROVE  NetInv' /\ reported' = reported
    BY <2>1, <2>3, WriteStep
  <2> QED BY <1>2, <2>2, <2>3 DEF netlink_handler
<1>3. CASE cb_handle_netlink_timeout
  <2>1. ASSUME NEW s \in Socks, TimeoutOfNone(s) PROVE NetInv' /\ reported' = reported
    BY <2>1, TimeoutOfNoneStep DEF TimeoutOfNone
  <2>2. CASE TimeoutStarts \/ TimeoutEnds
    BY <2>2, TimeoutLoopStep
  <2>3. CASE TimeoutReports
    BY <2>3, TimeoutReportsStep
  <2>4. CASE AddressTimeoutRetried
    BY <2>4, AddressRetriedStep
  <2>5. CASE TimeoutOfForeign \/ AddressTimeoutRunsOff
    BY <2>5, UndefinedStep
  <2> QED BY <1>3, <2>1, <2>2, <2>3, <2>4, <2>5 DEF cb_handle_netlink_timeout
<1>4. CASE UNCHANGED vars
  <2>1. /\ nl' = nl /\ rcv' = rcv /\ feedback' = feedback /\ nl_seq' = nl_seq
        /\ seq_used' = seq_used /\ walk' = walk /\ undefined' = undefined
        /\ verdict' = verdict /\ reported' = reported
    BY <1>4 DEF vars
  <2>2. KernelInv'
    BY <2>1, OtherStepsKeepKernel DEF NetInv, KernelInv
  <2> QED BY <2>1, <2>2 DEF NetInv, WalkInv, ReportedIsTrue
<1> QED BY <1>1, <1>2, <1>3, <1>4 DEF Next

\* NetInv holds in every state.
LEMMA NetlinkInvariant == Spec => []NetInv
<1>1. NetInv /\ [Next]_vars => NetInv'
  BY NextKeepsNetInv
<1> QED BY <1>1, InitNetInv, PTL DEF Spec

-----------------------------------------------------------------------------
(* Theorems *)

\* For every number of routes, addresses and requests the variables of the
\* netlink sockets and of the feedback list keep their types.
THEOREM NetlinkTypeOK == Spec => []TypeOK
<1>1. NetInv => TypeOK
  BY DEF NetInv, KernelInv, JobsOK, WalkInv, TypeOK, NlType, Netlink, Answer
<1> QED BY <1>1, NetlinkInvariant, PTL

\* For every number of routes, addresses and requests, whatever is lost, late,
\* interrupted or repeated: cb_finished() is told what the kernel did with that
\* very request, or that it failed.
THEOREM NetlinkReportedIsTrue == Spec => []ReportedIsTrue
<1>1. NetInv => ReportedIsTrue
  BY DEF NetInv
<1> QED BY <1>1, NetlinkInvariant, PTL

\* The feedback list holds each job once, and exactly the requests on it are
\* still to be reported, also in the middle of the timeout loop.
THEOREM NetlinkPendingIsUnreported == Spec => []PendingIsUnreported
<1>1. NetInv => PendingIsUnreported
  <2> SUFFICES ASSUME NetInv PROVE PendingIsUnreported
    OBVIOUS
  <2>1. feedback \in Seq(Jobs) /\ Once(feedback) /\ DOMAIN feedback = 1..Len(feedback)
    BY LenProperties DEF NetInv, JobsOK
  <2>2. IsInjective(feedback)
    BY <2>1 DEF IsInjective, Once
  <2> QED BY <2>2 DEF NetInv, JobsOK, PendingIsUnreported
<1> QED BY <1>1, NetlinkInvariant, PTL

\* cb_finished() is called once for a request.
THEOREM NetlinkReportedOnce == Spec => ReportedOnce
<1>1. NetInv /\ [Next]_vars
        => [\A q \in Seqnos : reported[q] # "none" => reported'[q] = reported[q]]_vars
  BY NextKeepsNetInv
<1> QED BY <1>1, NetlinkInvariant, PTL DEF Spec, ReportedOnce
=============================================================================
