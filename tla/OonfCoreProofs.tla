--------------------------- MODULE OonfCoreProofs ---------------------------
(***************************************************************************)
(* Proofs about two services every other part is built on: the memory      *)
(* classes (subsystems/oonf_class.c), for any number and size of blocks    *)
(* and extensions, and the configuration (core/oonf_cfg.c, config/), for   *)
(* any schema, commands and files.  They share no state.                   *)
(***************************************************************************)
EXTENDS OonfClass, OonfCfg, ListProofs, FiniteSetTheorems

-----------------------------------------------------------------------------
(* Memory classes. *)

ClassTypeOK ==
  /\ added \in BOOLEAN /\ size \in Nat \ {0} /\ totalSize \in Nat
  /\ extensions \in Seq(Exts) /\ offset \in [Exts -> Nat]
  /\ freeList \in SUBSET Blocks /\ used \in SUBSET Blocks
  /\ blockSize \in [Blocks -> Nat] /\ allocated \in Nat

\* A block is in use or free; the usage counter is right, and memory exists only
\* once calloc() was called, also after the class was removed and added again.
Accounted ==
  /\ used \cap freeList = {} /\ currentUsage = Cardinality(used)
  /\ allocated = 0 => used = {} /\ freeList = {}
  /\ ~ added => extensions = <<>> /\ freeList = {}

\* The blocks hold at least the object, and a class that is added again starts
\* with no more than that.
ObjectsFit ==
  /\ added => roundup(size) <= totalSize
  /\ \A b \in used \cup freeList : roundup(size) <= blockSize[b]

ClassInv ==
  ClassTypeOK /\ Accounted /\ Once(extensions) /\ ObjectsFit /\ BlocksFit /\ ExtensionsApart

\* Sizes are only rounded upwards.
LEMMA RoundUp ==
  ASSUME NEW n \in Nat
  PROVE  roundup(n) \in Nat /\ n <= roundup(n)
<1> USE ClassAssumption
<1> DEFINE m == n + Unit - 1
           q == m \div Unit
           r == m % Unit
<1>1. m \in Nat /\ Unit \in Nat /\ Unit > 0
  OBVIOUS
<1>2. q \in Nat /\ r \in 0..(Unit - 1) /\ m = Unit * q + r
  BY <1>1
<1>3. roundup(n) = Unit * q
  BY DEF roundup
<1>4. Unit * q \in Nat
  BY <1>1, <1>2
<1> HIDE DEF q, r
<1> QED BY <1>1, <1>2, <1>3, <1>4

\* The sizes of a class with more and more extensions (oonf_class_resize).
LEMMA SizesGrow ==
  ASSUME NEW s \in Nat, extensions \in Seq(Exts), NEW u, u = SizeWith(s)
  PROVE  /\ u \in [0 .. Len(extensions) -> Nat] /\ s <= u[0]
         /\ u[0] = roundup(s)
         /\ \A k \in 1 .. Len(extensions) : u[k - 1] + ExtSize[extensions[k]] <= u[k]
         /\ \A j \in 0 .. Len(extensions) : \A i \in 0 .. j : u[i] <= u[j]
<1> USE ClassAssumption
<1> DEFINE n == Len(extensions)
           Is(f) == f = [k \in 0 .. n |->
                          IF k = 0 THEN roundup(s) ELSE roundup(f[k - 1] + ExtSize[extensions[k]])]
           F == [k \in 1..n |-> [x \in Nat |-> roundup(x + ExtSize[extensions[k]])]]
<1>1. n \in Nat /\ \A k \in 1..n : extensions[k] \in Exts /\ ExtSize[extensions[k]] \in Nat
  BY LenProperties
<1>2. roundup(s) \in Nat /\ s <= roundup(s)
  BY RoundUp
<1>3. ASSUME NEW k \in 1..n, NEW x \in Nat
      PROVE  roundup(x + ExtSize[extensions[k]]) \in Nat
             /\ x + ExtSize[extensions[k]] <= roundup(x + ExtSize[extensions[k]])
  <2>1. x + ExtSize[extensions[k]] \in Nat
    BY <1>1
  <2> QED BY <2>1, RoundUp
<1>4. F \in [1..n -> [Nat -> Nat]]
  BY <1>3
<1> HIDE DEF n
<1>5. PICK g \in [0..n -> Nat] : g[0] = roundup(s) /\ \A k \in 1..n : g[k] = F[k][g[k - 1]]
  <2> HIDE DEF F
  <2>1. n \in Nat /\ roundup(s) \in Nat /\ F \in [1..n -> [Nat -> Nat]]
    BY <1>1, <1>2, <1>4
  <2>2. Walks(Nat, roundup(s), n, F) # {}
    BY <2>1, WalkExists
  <2> QED BY <2>2 DEF Walks
<1>6. ASSUME NEW k \in 1..n PROVE g[k] = roundup(g[k - 1] + ExtSize[extensions[k]])
  <2>1. k - 1 \in 0..n
    BY <1>1
  <2> QED BY <1>5, <2>1
<1>7. Is(g)
  <2>1. \A k \in 0..n : k = 0 \/ k \in 1..n
    BY <1>1
  <2> QED BY <1>5, <1>6, <2>1
<1>8. u = CHOOSE f : Is(f)
  BY DEF SizeWith, n
<1>9. Is(u)
  BY <1>7, <1>8
<1>10. u[0] = roundup(s) /\ \A k \in 1..n : u[k] = roundup(u[k - 1] + ExtSize[extensions[k]])
  <2>1. \A k \in 0..n : u[k] = IF k = 0 THEN roundup(s) ELSE roundup(u[k - 1] + ExtSize[extensions[k]])
    BY <1>9
  <2> QED BY <1>1, <2>1
<1>11. \A k \in 0..n : u[k] \in Nat
  <2>1. \A k \in 1..n : u[k - 1] \in Nat => u[k] \in Nat
    BY <1>3, <1>10
  <2>2. u[0] \in Nat
    BY <1>2, <1>10
  <2> HIDE DEF F, Is
  <2> QED BY <1>1, <2>1, <2>2, StaysIn
<1>12. \A k \in 1..n : k - 1 \in 0..n
  BY <1>1
<1>13. u \in [0..n -> Nat]
  BY <1>9, <1>11
<1>14. \A k \in 1..n : u[k - 1] + ExtSize[extensions[k]] <= u[k]
  BY <1>3, <1>10, <1>11, <1>12
<1>15. \A j \in 0..n : \A i \in 0..j : u[i] <= u[j]
  <2> DEFINE Wrong == {j \in 0..n : ~ \A i \in 0..j : u[i] <= u[j]}
  <2> SUFFICES ASSUME Wrong # {} PROVE FALSE
    OBVIOUS
  <2>1. Wrong \subseteq Nat
    BY <1>1
  <2>2. PICK m \in Wrong : \A y \in Wrong : m <= y
    <3> HIDE DEF Wrong
    <3> QED BY <2>1, LeastElement
  <2>3. PICK i \in 0..m : ~ (u[i] <= u[m])
    OBVIOUS
  <2>4. m \in 0..n /\ i # m
    BY <1>1, <1>11, <2>3
  <2>5. m \in 1..n /\ m - 1 \in 0..n /\ i \in 0..(m - 1) /\ ~ (m <= m - 1)
    BY <1>1, <2>4
  <2>6. u[i] <= u[m - 1]
    BY <2>2, <2>5
  <2>7. u[m - 1] + ExtSize[extensions[m]] <= u[m] /\ ExtSize[extensions[m]] \in Nat
    BY <1>1, <1>14, <2>5
  <2>8. u[i] \in Nat /\ u[m - 1] \in Nat /\ u[m] \in Nat
    BY <1>1, <1>11, <2>4, <2>5
  <2> QED BY <2>3, <2>6, <2>7, <2>8
<1> QED BY <1>2, <1>10, <1>13, <1>14, <1>15 DEF n

LEMMA ClassInitInv == ClassInit => ClassInv
<1> SUFFICES ASSUME ClassInit PROVE ClassInv
  OBVIOUS
<1>1. extensions \in Seq(Exts) /\ Len(extensions) = 0
  BY EmptySeq DEF ClassInit
<1>2. Cardinality({}) = 0
  BY FS_EmptySet
<1>3. ClassTypeOK
  BY <1>1, ClassAssumption DEF ClassInit, ClassTypeOK
<1>4. Accounted /\ Once(extensions)
  BY <1>1, <1>2 DEF ClassInit, Accounted, Once
<1>5. ObjectsFit /\ BlocksFit /\ ExtensionsApart
  BY DEF ClassInit, ObjectsFit, BlocksFit, ExtensionsApart
<1> QED BY <1>3, <1>4, <1>5 DEF ClassInv

\* A list that is empty when the class comes or goes.
LEMMA ClassAddKeeps == ClassInv /\ oonf_class_add => ClassInv'
<1> SUFFICES ASSUME ClassInv, oonf_class_add PROVE ClassInv'
  OBVIOUS
<1>1. extensions' \in Seq(Exts) /\ Len(extensions') = 0
  BY EmptySeq DEF oonf_class_add
<1>2. roundup(size) \in Nat /\ size <= roundup(size)
  BY RoundUp DEF ClassInv, ClassTypeOK
<1> QED BY <1>1, <1>2 DEF ClassInv, ClassTypeOK, Accounted, ObjectsFit, BlocksFit, ExtensionsApart,
        Once, oonf_class_add, roundup

LEMMA ClassRemoveKeeps == ClassInv /\ oonf_class_remove => ClassInv'
<1> SUFFICES ASSUME ClassInv, oonf_class_remove PROVE ClassInv'
  OBVIOUS
<1>1. extensions' \in Seq(Exts) /\ Len(extensions') = 0
  BY EmptySeq DEF oonf_class_remove
<1>2. offset' \in [Exts -> Nat] /\ blockSize' \in [Blocks -> Nat]
  BY DEF ClassInv, ClassTypeOK, oonf_class_remove, FreeFreelist
<1>3. ASSUME NEW b \in used' PROVE blockSize'[b] = blockSize[b]
  BY <1>3 DEF ClassInv, ClassTypeOK, Accounted, oonf_class_remove, FreeFreelist
<1>4. ClassTypeOK'
  BY <1>1, <1>2 DEF ClassInv, ClassTypeOK, oonf_class_remove, FreeFreelist
<1>6. Accounted' /\ Once(extensions)'
  BY <1>1 DEF ClassInv, Accounted, Once, oonf_class_remove, FreeFreelist
<1>7. BlocksFit' /\ ExtensionsApart'
  BY DEF BlocksFit, ExtensionsApart, oonf_class_remove
<1>5. ObjectsFit'
  BY <1>3 DEF ClassInv, ClassTypeOK, Accounted, ObjectsFit, oonf_class_remove, FreeFreelist, roundup
<1> QED BY <1>4, <1>5, <1>6, <1>7 DEF ClassInv

\* An extension stands at one place.
LEMMA PlaceOf ==
  ASSUME extensions \in Seq(Exts), Once(extensions), NEW i \in 1 .. Len(extensions)
  PROVE  Place(extensions[i]) = i
BY DEF Place, Once

LEMMA ClassResizeKeeps ==
  ASSUME ClassInv, NEW s \in ClassSizes, oonf_class_resize(s) PROVE ClassInv'
<1> USE ClassAssumption
<1> DEFINE n == Len(extensions)
<1>1. PICK u : u = SizeWith(s)
  OBVIOUS
<1>2. s \in Nat \ {0} /\ n \in Nat /\ extensions \in Seq(Exts)
  BY LenProperties DEF ClassInv, ClassTypeOK
<1>3. /\ u \in [0..n -> Nat] /\ s <= u[0] /\ u[0] = roundup(s)
      /\ \A k \in 1..n : u[k - 1] + ExtSize[extensions[k]] <= u[k]
      /\ \A j \in 0..n : \A i \in 0..j : u[i] <= u[j]
  BY <1>1, <1>2, SizesGrow
<1>4. /\ added /\ added' = TRUE /\ size' = s /\ totalSize' = u[n] /\ extensions' = extensions
      /\ freeList' = {} /\ currentUsage = 0 /\ allocated' = allocated /\ used' = used
      /\ currentUsage' = currentUsage
  BY <1>1 DEF oonf_class_resize, FreeFreelist, ClassInv, ClassTypeOK
<1>5. used = {}
  <2>1. IsFiniteSet(used)
    BY FS_Subset DEF ClassInv, ClassTypeOK
  <2>2. Cardinality(used) = 0
    BY <1>4 DEF ClassInv, Accounted
  <2> QED BY <2>1, <2>2, FS_EmptySet
<1>6. ASSUME NEW i \in 1..n
      PROVE  offset'[extensions[i]] = u[i - 1] /\ extensions[i] \in Exts /\ i - 1 \in 0..n
  <2>1. Place(extensions[i]) = i /\ extensions[i] \in Registered /\ extensions[i] \in Exts
    BY <1>2, PlaceOf DEF ClassInv, Registered
  <2> QED BY <1>1, <1>2, <2>1 DEF oonf_class_resize
<1>7. offset' \in [Exts -> Nat]
  <2>1. ASSUME NEW e \in Registered PROVE SizeWith(s)[Place(e) - 1] \in Nat
    <3>1. PICK i \in 1..n : e = extensions[i]
      BY DEF Registered
    <3>2. Place(e) = i /\ i - 1 \in 0..n
      BY <1>2, <3>1, PlaceOf DEF ClassInv
    <3> QED BY <1>1, <1>3, <3>2
  <2> QED BY <2>1 DEF oonf_class_resize, ClassInv, ClassTypeOK
<1>8. blockSize' \in [Blocks -> Nat]
  BY DEF oonf_class_resize, FreeFreelist, ClassInv, ClassTypeOK
<1>9. u[n] \in Nat /\ roundup(s) <= u[n]
  BY <1>2, <1>3
<1>10. ClassTypeOK' /\ Accounted' /\ Once(extensions)' /\ BlocksFit'
  BY <1>2, <1>4, <1>5, <1>7, <1>8, <1>9 DEF ClassInv, ClassTypeOK, Accounted, Once, BlocksFit
<1>11. ObjectsFit'
  BY <1>4, <1>5, <1>9 DEF ObjectsFit, roundup
<1>12. ASSUME NEW i \in 1..n, NEW j \in 1..n
       PROVE  /\ s <= offset'[extensions[i]]
              /\ offset'[extensions[i]] + ExtSize[extensions[i]] <= u[n]
              /\ i < j => offset'[extensions[i]] + ExtSize[extensions[i]] <= offset'[extensions[j]]
  <2>1. /\ i - 1 \in 0..n /\ i \in 0..n /\ j - 1 \in 0..n /\ n \in 0..n /\ 0 \in 0..n
        /\ 0 \in 0..(i - 1) /\ (i < j => i \in 0..(j - 1))
    BY <1>2
  <2>2. /\ u[0] <= u[i - 1] /\ u[i - 1] + ExtSize[extensions[i]] <= u[i] /\ u[i] <= u[n]
        /\ i < j => u[i] <= u[j - 1]
    BY <1>3, <2>1
  <2>3. /\ offset'[extensions[i]] = u[i - 1] /\ offset'[extensions[j]] = u[j - 1]
        /\ ExtSize[extensions[i]] \in Nat
    BY <1>6
  <2>4. u[0] \in Nat /\ u[i - 1] \in Nat /\ u[i] \in Nat /\ u[j - 1] \in Nat /\ u[n] \in Nat
    BY <1>2, <1>3, <2>1
  <2>5. s \in Nat /\ s <= u[0]
    BY <1>2, <1>3
  <2>6. PICK x \in Nat : x = ExtSize[extensions[i]]
    BY <2>3
  <2>7. PICK a \in Nat, b \in Nat, c \in Nat, d \in Nat, f \in Nat :
           a = u[0] /\ b = u[i - 1] /\ c = u[i] /\ d = u[j - 1] /\ f = u[n]
    BY <2>4
  <2>8. s <= a /\ a <= b /\ b + x <= c /\ c <= f /\ (i < j => c <= d)
    BY <2>2, <2>5, <2>6, <2>7
  <2>9. s <= b /\ b + x <= f /\ (i < j => b + x <= d)
    BY <2>5, <2>8
  <2> QED BY <2>3, <2>6, <2>7, <2>9
<1>13. ExtensionsApart'
  BY <1>4, <1>12 DEF ExtensionsApart
<1> QED BY <1>10, <1>11, <1>13 DEF ClassInv

\* A block that was never given out holds nothing and so is neither in use nor
\* on the list (oonf_class_malloc, calloc).
LEMMA ClassFreshKeeps ==
  ASSUME ClassInv, NEW b \in Blocks, MallocFresh(b) PROVE ClassInv'
<1> USE ClassAssumption
<1>1. roundup(size) \in Nat /\ size <= roundup(size)
  BY RoundUp DEF ClassInv, ClassTypeOK
<1>2. roundup(size) <= totalSize /\ totalSize \in Nat
  BY DEF ClassInv, ObjectsFit, MallocFresh, ClassTypeOK
<1>3. b \notin used /\ b \notin freeList
  BY <1>1 DEF ClassInv, ClassTypeOK, ObjectsFit, MallocFresh
<1>4. ClassTypeOK'
  BY DEF ClassInv, ClassTypeOK, MallocFresh
<1>5. currentUsage' = Cardinality(used')
  <2>1. IsFiniteSet(used)
    BY FS_Subset DEF ClassInv, ClassTypeOK
  <2> QED BY <1>3, <2>1, FS_AddElement DEF ClassInv, Accounted, MallocFresh
<1>6. Accounted'
  BY <1>3, <1>5 DEF ClassInv, ClassTypeOK, Accounted, MallocFresh
<1>7. \A c \in used' \cup freeList' : blockSize'[c] = IF c = b THEN totalSize ELSE blockSize[c]
  BY DEF ClassInv, ClassTypeOK, MallocFresh
<1>8. \A c \in used' \cup freeList' : c # b => c \in used \cup freeList
  BY DEF MallocFresh
<1>9. ObjectsFit'
  BY <1>1, <1>2, <1>7, <1>8 DEF ClassInv, ObjectsFit, MallocFresh, roundup
<1>10. BlocksFit'
  BY <1>2, <1>7, <1>8 DEF ClassInv, BlocksFit, MallocFresh
<1>11. Once(extensions)' /\ ExtensionsApart'
  BY DEF ClassInv, Once, ExtensionsApart, MallocFresh
<1> QED BY <1>4, <1>6, <1>9, <1>10, <1>11 DEF ClassInv

LEMMA ClassRecycledKeeps ==
  ASSUME ClassInv, NEW b \in Blocks, MallocRecycled(b) PROVE ClassInv'
<1> USE ClassAssumption
<1>1. b \notin used
  BY DEF ClassInv, Accounted, MallocRecycled
<1>2. ClassTypeOK'
  BY DEF ClassInv, ClassTypeOK, MallocRecycled
<1>3. currentUsage' = Cardinality(used')
  <2>1. IsFiniteSet(used)
    BY FS_Subset DEF ClassInv, ClassTypeOK
  <2> QED BY <1>1, <2>1, FS_AddElement DEF ClassInv, Accounted, MallocRecycled
<1>4. Accounted'
  BY <1>1, <1>3 DEF ClassInv, Accounted, MallocRecycled
<1>5. ObjectsFit' /\ BlocksFit'
  BY DEF ClassInv, ObjectsFit, BlocksFit, MallocRecycled, roundup
<1>6. Once(extensions)' /\ ExtensionsApart'
  BY DEF ClassInv, Once, ExtensionsApart, MallocRecycled
<1> QED BY <1>2, <1>4, <1>5, <1>6 DEF ClassInv

LEMMA ClassFreeKeeps ==
  ASSUME ClassInv, NEW b \in Blocks, oonf_class_free(b) PROVE ClassInv'
<1> USE ClassAssumption
<1>1. b \in used /\ b \notin freeList
  BY DEF ClassInv, Accounted, oonf_class_free
<1>2. \/ freeList' = freeList \cup {b} /\ blockSize' = blockSize
      \/ freeList' = freeList /\ blockSize' = [blockSize EXCEPT ![b] = 0]
  BY DEF oonf_class_free
<1>3. ClassTypeOK'
  BY <1>2 DEF ClassInv, ClassTypeOK, oonf_class_free
<1>4. currentUsage' = Cardinality(used')
  <2>1. IsFiniteSet(used)
    BY FS_Subset DEF ClassInv, ClassTypeOK
  <2> QED BY <1>1, <2>1, FS_RemoveElement DEF ClassInv, Accounted, oonf_class_free
<1>5. used' = used \ {b} /\ allocated' = allocated /\ added /\ added' = added
  BY DEF oonf_class_free
<1>6. Accounted'
  BY <1>1, <1>2, <1>4, <1>5 DEF ClassInv, Accounted
<1>7. \A c \in used' \cup freeList' : c \in used \cup freeList /\ blockSize'[c] = blockSize[c]
  BY <1>1, <1>2, <1>5 DEF ClassInv, ClassTypeOK
<1>8. ObjectsFit' /\ BlocksFit'
  BY <1>7 DEF ClassInv, ObjectsFit, BlocksFit, oonf_class_free, roundup
<1>9. Once(extensions)' /\ ExtensionsApart'
  BY DEF ClassInv, Once, ExtensionsApart, oonf_class_free
<1> QED BY <1>3, <1>6, <1>8, <1>9 DEF ClassInv

\* An extension is put behind everything that is there, and none that needs
\* room comes after the first block.
LEMMA ClassExtensionAddKeeps ==
  ASSUME ClassInv, NEW e \in Exts, oonf_class_extension_add(e) PROVE ClassInv'
<1> USE ClassAssumption
<1> DEFINE n == Len(extensions)
<1>1. /\ n \in Nat /\ extensions \in Seq(Exts) /\ totalSize \in Nat /\ size \in Nat
      /\ offset \in [Exts -> Nat] /\ added /\ ExtSize[e] \in Nat
      /\ extensions' = Append(extensions, e)
  BY LenProperties DEF ClassInv, ClassTypeOK, oonf_class_extension_add
<1>2. ~ Contains(extensions, e)
  BY DEF oonf_class_extension_add, Registered, Contains
<1>3. Once(extensions)' /\ extensions' \in Seq(Exts)
  BY <1>1, <1>2, AppendOnce DEF ClassInv
<1>4. /\ Len(extensions') = n + 1 /\ extensions'[n + 1] = e
      /\ \A i \in 1..n : extensions'[i] = extensions[i] /\ extensions[i] # e
  BY <1>1, <1>2, AppendProperties DEF Contains
<1>5. \A i \in 1..(n + 1) : i \in 1..n \/ i = n + 1
  BY <1>1
<1>6. used' = used /\ currentUsage' = currentUsage /\ allocated' = allocated /\ added' = added
      /\ size' = size
  BY DEF oonf_class_extension_add
<1>7. CASE ExtSize[e] = 0
  <2>1. UNCHANGED <<offset, totalSize, freeList, blockSize>>
    BY <1>7 DEF oonf_class_extension_add
  <2>2. ClassTypeOK' /\ Accounted'
    BY <1>1, <1>3, <1>6, <2>1 DEF ClassInv, ClassTypeOK, Accounted
  <2>3. ObjectsFit' /\ BlocksFit'
    BY <1>6, <2>1 DEF ClassInv, ObjectsFit, BlocksFit, roundup
  <2>4. ASSUME NEW i \in 1..(n + 1), ExtSize[extensions'[i]] > 0
        PROVE  i \in 1..n /\ extensions'[i] = extensions[i]
    <3>1. CASE i = n + 1
      BY <1>4, <1>7, <2>4, <3>1
    <3> QED BY <1>4, <1>5, <3>1
  <2>5. ExtensionsApart
    BY DEF ClassInv
  <2>6. ExtensionsApart'
    BY <1>4, <1>6, <2>1, <2>4, <2>5 DEF ExtensionsApart
  <2> QED BY <1>3, <2>2, <2>3, <2>6 DEF ClassInv
<1>8. CASE ExtSize[e] > 0
  <2>1. /\ allocated = 0 /\ used = {} /\ freeList' = {}
        /\ offset' = [offset EXCEPT ![e] = totalSize]
        /\ totalSize' = roundup(totalSize + ExtSize[e])
        /\ blockSize' = [b \in Blocks |-> IF b \in freeList THEN 0 ELSE blockSize[b]]
    BY <1>8 DEF ClassInv, Accounted, oonf_class_extension_add, FreeFreelist
  <2>2. totalSize' \in Nat /\ totalSize + ExtSize[e] <= totalSize'
    <3>1. totalSize + ExtSize[e] \in Nat
      BY <1>1
    <3> QED BY <2>1, <3>1, RoundUp
  <2>3. blockSize' \in [Blocks -> Nat]
    BY <2>1 DEF ClassInv, ClassTypeOK
  <2>4. ClassTypeOK' /\ Accounted'
    BY <1>1, <1>3, <1>6, <2>1, <2>2, <2>3 DEF ClassInv, ClassTypeOK, Accounted
  <2>5. roundup(size) \in Nat /\ size <= roundup(size) /\ roundup(size) <= totalSize
    BY <1>1, RoundUp DEF ClassInv, ObjectsFit
  <2>6. ObjectsFit' /\ BlocksFit'
    BY <1>1, <1>6, <2>1, <2>2, <2>5 DEF ClassInv, ObjectsFit, BlocksFit, roundup
  <2>7. ASSUME NEW i \in 1..n
        PROVE  offset'[extensions[i]] = offset[extensions[i]] /\ offset[extensions[i]] \in Nat
               /\ ExtSize[extensions[i]] \in Nat
    BY <1>1, <1>4, <2>1
  <2>8. offset'[e] = totalSize
    BY <1>1, <2>1
  <2>9. ASSUME NEW i \in 1..n, ExtSize[extensions[i]] > 0
        PROVE  size <= offset[extensions[i]]
               /\ offset[extensions[i]] + ExtSize[extensions[i]] <= totalSize
    BY <1>1, <2>9 DEF ClassInv, ExtensionsApart
  <2>10. ASSUME NEW i \in 1..(n + 1), NEW j \in 1..(n + 1),
                ExtSize[extensions'[i]] > 0, ExtSize[extensions'[j]] > 0
         PROVE  /\ size <= offset'[extensions'[i]]
                /\ offset'[extensions'[i]] + ExtSize[extensions'[i]] <= totalSize'
                /\ i < j => offset'[extensions'[i]] + ExtSize[extensions'[i]]
                            <= offset'[extensions'[j]]
    <3>1. CASE i = n + 1
      BY <1>1, <1>4, <2>2, <2>5, <2>8, <3>1
    <3>2. CASE i \in 1..n /\ j = n + 1
      BY <1>1, <1>4, <2>2, <2>7, <2>8, <2>9, <2>10, <3>2
    <3>3. CASE i \in 1..n /\ j \in 1..n
      <4>2. extensions'[i] = extensions[i] /\ extensions'[j] = extensions[j]
        BY <1>4, <3>3
      <4>3. size <= offset[extensions[i]] /\ offset[extensions[i]] + ExtSize[extensions[i]] <= totalSize
        BY <2>9, <2>10, <3>3, <4>2
      <4>4. /\ offset'[extensions[i]] = offset[extensions[i]] /\ offset[extensions[i]] \in Nat
            /\ offset'[extensions[j]] = offset[extensions[j]] /\ offset[extensions[j]] \in Nat
            /\ ExtSize[extensions[i]] \in Nat
        BY <2>7, <3>3
      <4>1. i < j => offset[extensions[i]] + ExtSize[extensions[i]] <= offset[extensions[j]]
        BY <1>1, <1>4, <2>10, <3>3 DEF ClassInv, ExtensionsApart
      <4>5. totalSize <= totalSize' /\ totalSize \in Nat
        BY <1>1, <2>2
      <4>6. offset[extensions[i]] + ExtSize[extensions[i]] <= totalSize'
        BY <2>2, <4>3, <4>4, <4>5
      <4> QED BY <4>1, <4>2, <4>3, <4>4, <4>6
    <3> QED BY <1>5, <3>1, <3>2, <3>3
  <2>11. ExtensionsApart'
    BY <1>4, <1>6, <2>10 DEF ExtensionsApart
  <2> QED BY <1>3, <2>4, <2>6, <2>11 DEF ClassInv
<1> QED BY <1>1, <1>7, <1>8

LEMMA ClassExtensionRemoveKeeps ==
  ASSUME ClassInv, NEW e \in Exts, oonf_class_extension_remove(e) PROVE ClassInv'
<1> USE ClassAssumption
<1> DEFINE n == Len(extensions)
<1>1. n \in Nat /\ extensions \in Seq(Exts) /\ Once(extensions) /\ offset \in [Exts -> Nat]
  BY LenProperties DEF ClassInv, ClassTypeOK
<1>2. PICK p \in 1..n : e = extensions[p] /\ Place(e) = p
  BY <1>1, PlaceOf DEF oonf_class_extension_remove, Registered
<1>3. /\ extensions' \in Seq(Exts) /\ Len(extensions') = n - 1 /\ Once(extensions')
      /\ \A k \in 1..(n - 1) : extensions'[k] = IF k < p THEN extensions[k] ELSE extensions[k + 1]
  <2>1. extensions' = RemoveAt(extensions, p) /\ p \in DOMAIN extensions
    BY <1>1, <1>2, LenProperties DEF oonf_class_extension_remove
  <2>2. /\ RemoveAt(extensions, p) \in Seq(Exts) /\ Len(RemoveAt(extensions, p)) = n - 1
        /\ \A k \in 1..(n - 1) : RemoveAt(extensions, p)[k]
                                = IF k < p THEN extensions[k] ELSE extensions[k + 1]
    BY <1>1, <2>1, RemoveAtList
  <2>3. Once(RemoveAt(extensions, p))
    BY <1>1, <1>2, RemoveAtOnce
  <2> QED BY <2>1, <2>2, <2>3
<1>4. /\ offset' = [offset EXCEPT ![e] = 0] /\ UNCHANGED <<added, size, totalSize>>
      /\ UNCHANGED <<freeList, currentUsage, allocated, used, blockSize>>
  BY DEF oonf_class_extension_remove, memory
<1>5. added
  <2>1. ~ added => n = 0
    BY EmptySeq DEF ClassInv, Accounted
  <2> QED BY <1>1, <1>2, <2>1
<1>6. ClassTypeOK' /\ Accounted'
  BY <1>1, <1>3, <1>4, <1>5 DEF ClassInv, ClassTypeOK, Accounted
<1>7. ObjectsFit' /\ BlocksFit'
  BY <1>4 DEF ClassInv, ObjectsFit, BlocksFit, roundup
<1> DEFINE old(k) == IF k < p THEN k ELSE k + 1
<1>8. ASSUME NEW k \in 1..(n - 1)
      PROVE  old(k) \in 1..n /\ extensions'[k] = extensions[old(k)]
             /\ offset'[extensions'[k]] = offset[extensions[old(k)]]
  <2>1. old(k) \in 1..n /\ old(k) # p /\ extensions'[k] = extensions[old(k)]
    <3>1. CASE k < p
      <4>1. old(k) = k /\ k \in 1..n /\ k # p
        BY <1>1, <1>2, <3>1
      <4>2. extensions'[k] = extensions[k]
        BY <1>3, <3>1
      <4> QED BY <4>1, <4>2
    <3>2. CASE ~ (k < p)
      <4>1. old(k) = k + 1 /\ k + 1 \in 1..n /\ k + 1 # p
        BY <1>1, <1>2, <3>2
      <4>2. extensions'[k] = extensions[k + 1]
        BY <1>3, <3>2
      <4> QED BY <4>1, <4>2
    <3> QED BY <3>1, <3>2
  <2>2. extensions[old(k)] # e /\ extensions[old(k)] \in Exts
    BY <1>1, <1>2, <2>1 DEF Once
  <2> QED BY <1>1, <1>4, <2>1, <2>2
<1>9. ASSUME NEW i \in 1..(n - 1), NEW j \in 1..(n - 1), i < j PROVE old(i) < old(j)
  BY <1>1, <1>9
<1> HIDE DEF old
<1>10. ASSUME NEW i \in 1..(n - 1), NEW j \in 1..(n - 1),
             ExtSize[extensions'[i]] > 0, ExtSize[extensions'[j]] > 0
      PROVE  /\ size <= offset'[extensions'[i]]
             /\ offset'[extensions'[i]] + ExtSize[extensions'[i]] <= totalSize
             /\ i < j => offset'[extensions'[i]] + ExtSize[extensions'[i]]
                         <= offset'[extensions'[j]]
  <2>1. PICK a \in 1..n, b \in 1..n :
          /\ extensions'[i] = extensions[a] /\ extensions'[j] = extensions[b]
          /\ offset'[extensions'[i]] = offset[extensions[a]]
          /\ offset'[extensions'[j]] = offset[extensions[b]]
          /\ i < j => a < b
    BY <1>8, <1>9
  <2> QED BY <1>5, <1>10, <2>1 DEF ClassInv, ExtensionsApart
<1>11. ExtensionsApart'
  BY <1>3, <1>4, <1>10 DEF ExtensionsApart
<1> QED BY <1>3, <1>6, <1>7, <1>11 DEF ClassInv

LEMMA ClassNextKeeps == ClassInv /\ [ClassNext]_classVars => ClassInv'
<1> SUFFICES ASSUME ClassInv, [ClassNext]_classVars PROVE ClassInv'
  OBVIOUS
<1>1. CASE UNCHANGED classVars
  <2>1. ClassTypeOK' /\ Accounted' /\ Once(extensions)'
    BY <1>1 DEF ClassInv, ClassTypeOK, Accounted, Once, classVars
  <2>2. ObjectsFit' /\ BlocksFit' /\ ExtensionsApart'
    BY <1>1 DEF ClassInv, ObjectsFit, BlocksFit, ExtensionsApart, classVars, roundup
  <2> QED BY <2>1, <2>2 DEF ClassInv
<1>2. CASE ClassNext
  BY <1>2, ClassAddKeeps, ClassRemoveKeeps, ClassResizeKeeps, ClassFreshKeeps, ClassRecycledKeeps,
     ClassFreeKeeps, ClassExtensionAddKeeps, ClassExtensionRemoveKeeps DEF ClassNext
<1> QED BY <1>1, <1>2

\* The inductive invariant of a memory class.
THEOREM ClassInvariant == ClassSpec => []ClassInv
<1> QED BY ClassInitInv, ClassNextKeeps, PTL DEF ClassSpec

\* Every block in use or waiting for reuse is as large as the class is now
\* (oonf_class_malloc clears total_size bytes, oonf_class_resize and
\* oonf_class_extension_add change it).
THEOREM ClassBlocksFit == ClassSpec => []BlocksFit
<1>1. ClassInv => BlocksFit
  BY DEF ClassInv
<1> QED BY <1>1, ClassInvariant, PTL

\* The parts of the extensions lie behind the object, inside the block and apart
\* (oonf_class_extension_add, oonf_class_extension_remove, oonf_class_resize).
THEOREM ClassExtensionsApart == ClassSpec => []ExtensionsApart
<1>1. ClassInv => ExtensionsApart
  BY DEF ClassInv
<1> QED BY <1>1, ClassInvariant, PTL

-----------------------------------------------------------------------------
(* The configuration. *)

\* Functions from a part of A to B.
PFun(A, B) == UNION {[D -> B] : D \in SUBSET A}

Strings == STRING \cup {NoName}
ValueLists == Seq(Nat) \ {<<>>}
EntryMaps == PFun(Strings, ValueLists)
SectionMaps == PFun(Strings, EntryMaps)
TypeMaps == PFun(Strings, SectionMaps)
First(vals) == vals[1]
Dbs == [linked : BOOLEAN, types : TypeMaps]

LEMMA PFunUse ==
  ASSUME NEW A, NEW B, NEW f \in PFun(A, B)
  PROVE  /\ DOMAIN f \in SUBSET A /\ f \in [DOMAIN f -> B]
         /\ \A x \in DOMAIN f : x \in A /\ f[x] \in B
BY DEF PFun

LEMMA PFunMake ==
  ASSUME NEW A, NEW B, NEW D \in SUBSET A, NEW f \in [D -> B]
  PROVE  f \in PFun(A, B)
BY DEF PFun

LEMMA PutType ==
  ASSUME NEW A, NEW B, NEW f \in PFun(A, B), NEW x \in A, NEW v \in B
  PROVE  Put(f, x, v) \in PFun(A, B)
<1>1. DOMAIN f \in SUBSET A /\ \A y \in DOMAIN f : f[y] \in B
  BY PFunUse
<1>2. Put(f, x, v) \in [DOMAIN f \cup {x} -> B] /\ DOMAIN f \cup {x} \in SUBSET A
  BY <1>1 DEF Put
<1> QED BY <1>2, PFunMake

LEMMA WithoutType ==
  ASSUME NEW A, NEW B, NEW f \in PFun(A, B), NEW x
  PROVE  Without(f, x) \in PFun(A, B)
<1>1. DOMAIN f \in SUBSET A /\ \A y \in DOMAIN f : f[y] \in B
  BY PFunUse
<1>2. Without(f, x) \in [DOMAIN f \ {x} -> B] /\ DOMAIN f \ {x} \in SUBSET A
  BY <1>1 DEF Without
<1> QED BY <1>2, PFunMake

LEMMA NothingUse ==
  ASSUME NEW A, NEW B
  PROVE  Nothing \in PFun(A, B) /\ DOMAIN Nothing = {}
<1>1. Nothing \in [{} -> B] /\ {} \in SUBSET A
  BY DEF Nothing
<1>2. Nothing \in PFun(A, B)
  BY <1>1, PFunMake
<1> QED BY <1>1, <1>2

\* The parts of a database are typed, and an entry has at least one value.
LEMMA DbUse ==
  ASSUME NEW db \in Dbs, NEW t, NEW n, NEW k
  PROVE  /\ db.types \in TypeMaps /\ DOMAIN db.types \subseteq Strings
         /\ SectionsOf(db, t) \in SectionMaps /\ Names(db, t) = DOMAIN SectionsOf(db, t)
         /\ Names(db, t) \subseteq Strings
         /\ EntriesOf(db, t, n) \in EntryMaps /\ KeysOf(db, t, n) \subseteq Strings
         /\ ValuesOf(db, t, n, k) \in Seq(Nat)
         /\ cfg_db_find_entry(db, t, n, k) <=> k \in KeysOf(db, t, n)
         /\ cfg_db_find_entry(db, t, n, k) <=> ValuesOf(db, t, n, k) # <<>>
         /\ n \in Names(db, t) => EntriesOf(db, t, n) = db.types[t][n]
         /\ k \in KeysOf(db, t, n) => ValuesOf(db, t, n, k) = EntriesOf(db, t, n)[k]
<1>1. db.types \in TypeMaps
  BY DEF Dbs
<1>2. DOMAIN db.types \subseteq Strings /\ \A x \in DOMAIN db.types : db.types[x] \in SectionMaps
  BY <1>1, PFunUse DEF TypeMaps
<1>3. SectionsOf(db, t) \in SectionMaps /\ Names(db, t) = DOMAIN SectionsOf(db, t)
  BY <1>2, NothingUse DEF SectionsOf, SectionMaps, Names, Has
<1>4. Names(db, t) \subseteq Strings /\ \A x \in Names(db, t) : SectionsOf(db, t)[x] \in EntryMaps
  BY <1>3, PFunUse DEF SectionMaps
<1>5. n \in Names(db, t) => SectionsOf(db, t)[n] = db.types[t][n]
  BY DEF Names, SectionsOf
<1>6. EntriesOf(db, t, n) \in EntryMaps
  BY <1>4, <1>5, NothingUse DEF EntriesOf, EntryMaps, cfg_db_find_namedsection
<1>7. KeysOf(db, t, n) \subseteq Strings
      /\ \A x \in KeysOf(db, t, n) : EntriesOf(db, t, n)[x] \in ValueLists
  BY <1>6, PFunUse DEF EntryMaps, KeysOf
<1>8. n \in Names(db, t) => EntriesOf(db, t, n) = db.types[t][n]
  BY DEF EntriesOf, cfg_db_find_namedsection
<1>9. cfg_db_find_entry(db, t, n, k) <=> k \in KeysOf(db, t, n)
  BY <1>8, NothingUse DEF cfg_db_find_entry, KeysOf, EntriesOf, cfg_db_find_namedsection, Has
<1>10. k \in KeysOf(db, t, n) => ValuesOf(db, t, n, k) = EntriesOf(db, t, n)[k]
  BY <1>8, <1>9 DEF ValuesOf, cfg_db_find_entry, cfg_db_find_namedsection
<1>11. k \in KeysOf(db, t, n) => ValuesOf(db, t, n, k) \in ValueLists
  BY <1>7, <1>10
<1>12. k \notin KeysOf(db, t, n) => ValuesOf(db, t, n, k) = <<>>
  BY <1>9 DEF ValuesOf
<1>13. ValuesOf(db, t, n, k) \in Seq(Nat)
       /\ (cfg_db_find_entry(db, t, n, k) <=> ValuesOf(db, t, n, k) # <<>>)
  BY <1>9, <1>11, <1>12, EmptySeq DEF ValueLists
<1> QED BY <1>1, <1>2, <1>3, <1>4, <1>6, <1>7, <1>8, <1>9, <1>10, <1>13

\* Other entries in one section leave all other sections alone.
LEMMA WithSectionUse ==
  ASSUME NEW db \in Dbs, NEW t \in Strings, NEW n \in Strings, NEW e \in EntryMaps,
         NEW y, y = WithSection(db, t, n, e)
  PROVE  /\ y \in Dbs /\ EntriesOf(y, t, n) = e
         /\ \A u, m : u # t \/ m # n => EntriesOf(y, u, m) = EntriesOf(db, u, m)
<1> DEFINE sec == Put(SectionsOf(db, t), n, e)
           ty == Put(db.types, t, sec)
<1>1. /\ db.types \in TypeMaps /\ SectionsOf(db, t) \in SectionMaps
      /\ \A u : Names(db, u) = DOMAIN SectionsOf(db, u)
  BY DbUse
<1>2. /\ sec \in SectionMaps /\ DOMAIN sec = Names(db, t) \cup {n} /\ sec[n] = e
      /\ \A m \in Names(db, t) : m # n => sec[m] = SectionsOf(db, t)[m]
  <2>1. sec \in SectionMaps
    BY <1>1, PutType DEF SectionMaps
  <2> QED BY <1>1, <2>1 DEF Put
<1> HIDE DEF sec
<1>3. /\ ty \in TypeMaps /\ DOMAIN ty = DOMAIN db.types \cup {t} /\ ty[t] = sec
      /\ \A u \in DOMAIN db.types : u # t => ty[u] = db.types[u]
  <2>1. ty \in TypeMaps
    BY <1>1, <1>2, PutType DEF TypeMaps
  <2> QED BY <2>1 DEF Put
<1>4. y = [db EXCEPT !.types = ty]
  BY DEF WithSection, sec
<1> HIDE DEF ty
<1>5. y \in Dbs /\ y.types = ty
  BY <1>3, <1>4 DEF Dbs
<1>6. EntriesOf(y, t, n) = e
  BY <1>2, <1>3, <1>5 DEF EntriesOf, cfg_db_find_namedsection, Names, Has
<1>7. ASSUME NEW u, NEW m, u # t \/ m # n PROVE EntriesOf(y, u, m) = EntriesOf(db, u, m)
  <2>1. CASE u # t
    BY <1>3, <1>5, <2>1 DEF EntriesOf, cfg_db_find_namedsection, Names, Has
  <2>2. CASE u = t /\ m # n
    <3>1. m \in Names(y, t) <=> m \in Names(db, t)
      BY <1>2, <1>3, <1>5, <2>2 DEF Names, Has
    <3>2. m \in Names(db, t) => y.types[t][m] = db.types[t][m]
      BY <1>2, <1>3, <1>5, <2>2 DEF SectionsOf, Names
    <3> QED BY <2>2, <3>1, <3>2 DEF EntriesOf, cfg_db_find_namedsection
  <2> QED BY <1>7, <2>1, <2>2
<1> QED BY <1>5, <1>6, <1>7

\* Sections with the same entries have the same values.
LEMMA SameEntries ==
  ASSUME NEW db \in Dbs, NEW y \in Dbs, NEW t, NEW n, EntriesOf(y, t, n) = EntriesOf(db, t, n), NEW k
  PROVE  ValuesOf(y, t, n, k) = ValuesOf(db, t, n, k)
<1>1. KeysOf(y, t, n) = KeysOf(db, t, n)
  BY DEF KeysOf
<1>2. /\ k \in KeysOf(db, t, n) => ValuesOf(db, t, n, k) = EntriesOf(db, t, n)[k]
      /\ cfg_db_find_entry(db, t, n, k) <=> k \in KeysOf(db, t, n)
      /\ k \in KeysOf(y, t, n) => ValuesOf(y, t, n, k) = EntriesOf(y, t, n)[k]
      /\ cfg_db_find_entry(y, t, n, k) <=> k \in KeysOf(y, t, n)
  BY DbUse
<1> QED BY <1>1, <1>2 DEF ValuesOf

LEMMA AddSectionUse ==
  ASSUME NEW db \in Dbs, NEW t \in Strings, NEW n \in Strings,
         NEW y, y = cfg_db_add_section(db, t, n)
  PROVE  /\ y \in Dbs
         /\ \A u, m, k : ValuesOf(y, u, m, k) = ValuesOf(db, u, m, k)
<1>1. CASE cfg_db_find_namedsection(db, t, n)
  BY <1>1 DEF cfg_db_add_section
<1>2. CASE ~ cfg_db_find_namedsection(db, t, n)
  <2>1. Nothing \in EntryMaps /\ y = WithSection(db, t, n, Nothing)
    BY <1>2, NothingUse DEF EntryMaps, cfg_db_add_section
  <2>2. /\ y \in Dbs /\ EntriesOf(y, t, n) = Nothing
        /\ \A u, m : u # t \/ m # n => EntriesOf(y, u, m) = EntriesOf(db, u, m)
    BY <2>1, WithSectionUse
  <2>3. EntriesOf(db, t, n) = Nothing
    BY <1>2 DEF EntriesOf
  <2>4. \A u, m : EntriesOf(y, u, m) = EntriesOf(db, u, m)
    BY <2>2, <2>3
  <2> QED BY <2>2, <2>4, SameEntries
<1> QED BY <1>1, <1>2

\* A value that is set comes in front of those that are there.
LEMMA SetEntryUse ==
  ASSUME NEW db \in Dbs, NEW t \in Strings, NEW n \in Strings, NEW k \in Strings, NEW v \in Nat,
         NEW y, y = cfg_db_add_entry(db, t, n, k, v)
  PROVE  /\ y \in Dbs /\ ValuesOf(y, t, n, k) # <<>> /\ First(ValuesOf(y, t, n, k)) = v
         /\ \A u, m, j : u # t \/ m # n \/ j # k => ValuesOf(y, u, m, j) = ValuesOf(db, u, m, j)
<1> DEFINE vals == <<v>> \o ValuesOf(db, t, n, k)
           e == Put(EntriesOf(db, t, n), k, vals)
<1>1. ValuesOf(db, t, n, k) \in Seq(Nat) /\ EntriesOf(db, t, n) \in EntryMaps
  BY DbUse
<1>2. vals \in ValueLists /\ First(vals) = v
  <2>1. <<v>> \in Seq(Nat) /\ Len(<<v>>) = 1
    OBVIOUS
  <2>2. vals \in Seq(Nat) /\ Len(vals) = 1 + Len(ValuesOf(db, t, n, k))
    BY <1>1, <2>1, ConcatProperties
  <2>3. Len(ValuesOf(db, t, n, k)) \in Nat
    BY <1>1, LenProperties
  <2>4. Len(vals) # 0
    BY <2>2, <2>3
  <2>5. vals[1] = v
    BY <1>1, <2>1, <2>3, ConcatProperties
  <2> HIDE DEF vals
  <2> QED BY <2>2, <2>4, <2>5, EmptySeq DEF ValueLists, First
<1> HIDE DEF vals
<1>3. e \in EntryMaps
  BY <1>1, <1>2, PutType DEF EntryMaps
<1>4. y = WithSection(db, t, n, e)
  BY DEF cfg_db_add_entry, cfg_db_set_entry, cfg_db_set_entry_ext, vals
<1>5. DOMAIN e = KeysOf(db, t, n) \cup {k} /\ e[k] = vals
      /\ \A j \in KeysOf(db, t, n) : j # k => e[j] = EntriesOf(db, t, n)[j]
  BY DEF Put, KeysOf
<1> HIDE DEF e
<1>6. /\ y \in Dbs /\ EntriesOf(y, t, n) = e
      /\ \A u, m : u # t \/ m # n => EntriesOf(y, u, m) = EntriesOf(db, u, m)
  BY <1>3, <1>4, WithSectionUse
<1>7. KeysOf(y, t, n) = KeysOf(db, t, n) \cup {k}
  BY <1>5, <1>6 DEF KeysOf
<1>8. ValuesOf(y, t, n, k) = vals /\ vals # <<>>
  <2>1. k \in KeysOf(y, t, n) => ValuesOf(y, t, n, k) = EntriesOf(y, t, n)[k]
    BY <1>6, DbUse
  <2> QED BY <1>2, <1>5, <1>6, <1>7, <2>1 DEF ValueLists
<1>9. ASSUME NEW j, j # k PROVE ValuesOf(y, t, n, j) = ValuesOf(db, t, n, j)
  <2>1. CASE j \in KeysOf(db, t, n)
    <3>1. ValuesOf(y, t, n, j) = EntriesOf(y, t, n)[j]
      BY <1>6, <1>7, <2>1, DbUse
    <3>2. ValuesOf(db, t, n, j) = EntriesOf(db, t, n)[j]
      BY <2>1, DbUse
    <3> QED BY <1>5, <1>6, <1>9, <2>1, <3>1, <3>2
  <2>2. CASE j \notin KeysOf(db, t, n)
    <3>1. ~ cfg_db_find_entry(y, t, n, j)
      BY <1>6, <1>7, <1>9, <2>2, DbUse
    <3>2. ~ cfg_db_find_entry(db, t, n, j)
      BY <2>2, DbUse
    <3> QED BY <3>1, <3>2 DEF ValuesOf
  <2> QED BY <2>1, <2>2
<1>10. ASSUME NEW u, NEW m, NEW j, u # t \/ m # n
       PROVE  ValuesOf(y, u, m, j) = ValuesOf(db, u, m, j)
  BY <1>6, <1>10, SameEntries
<1>11. ASSUME NEW u, NEW m, NEW j, u # t \/ m # n \/ j # k
       PROVE  ValuesOf(y, u, m, j) = ValuesOf(db, u, m, j)
  BY <1>9, <1>10, <1>11
<1> QED BY <1>2, <1>6, <1>8, <1>11

\* Something is removed: what is left has the values it had.
Remains(y, db) ==
  /\ y \in Dbs
  /\ \A u, m, j : ValuesOf(y, u, m, j) # <<>> => ValuesOf(y, u, m, j) = ValuesOf(db, u, m, j)

LEMMA RemoveEntryUse ==
  ASSUME NEW db \in Dbs, NEW t \in Strings, NEW n \in Strings, NEW k
  PROVE  Remains(cfg_db_remove_entry(db, t, n, k), db)
<1>1. CASE ~ cfg_db_find_entry(db, t, n, k)
  BY <1>1 DEF cfg_db_remove_entry, Remains
<1>2. CASE cfg_db_find_entry(db, t, n, k)
  <2> DEFINE e == Without(EntriesOf(db, t, n), k)
             y == WithSection(db, t, n, e)
  <2>1. EntriesOf(db, t, n) \in EntryMaps
    BY DbUse
  <2>2. e \in EntryMaps
    BY <2>1, WithoutType DEF EntryMaps
  <2>3. DOMAIN e = KeysOf(db, t, n) \ {k} /\ \A j \in DOMAIN e : e[j] = EntriesOf(db, t, n)[j]
    BY DEF Without, KeysOf
  <2> HIDE DEF e
  <2>4. PICK z : z = y
    OBVIOUS
  <2>5. /\ z \in Dbs /\ EntriesOf(z, t, n) = e
        /\ \A u, m : u # t \/ m # n => EntriesOf(z, u, m) = EntriesOf(db, u, m)
    BY <2>2, <2>4, WithSectionUse
  <2>6. ASSUME NEW u, NEW m, NEW j, ValuesOf(z, u, m, j) # <<>>
        PROVE  ValuesOf(z, u, m, j) = ValuesOf(db, u, m, j)
    <3>1. CASE u = t /\ m = n
      <4>1. j \in KeysOf(z, t, n) /\ ValuesOf(z, t, n, j) = EntriesOf(z, t, n)[j]
        BY <2>5, <2>6, <3>1, DbUse
      <4>2. j \in KeysOf(db, t, n) /\ EntriesOf(z, t, n)[j] = EntriesOf(db, t, n)[j]
        BY <2>3, <2>5, <4>1 DEF KeysOf
      <4>3. ValuesOf(db, t, n, j) = EntriesOf(db, t, n)[j]
        BY <4>2, DbUse
      <4> QED BY <3>1, <4>1, <4>2, <4>3
    <3>2. CASE u # t \/ m # n
      BY <2>5, <3>2, SameEntries
    <3> QED BY <3>1, <3>2
  <2>7. cfg_db_remove_entry(db, t, n, k) = z
    BY <1>2, <2>4 DEF cfg_db_remove_entry, e
  <2> QED BY <2>5, <2>6, <2>7 DEF Remains
<1> QED BY <1>1, <1>2

\* A database whose sections are among those of another.
LEMMA FewerSections ==
  ASSUME NEW db \in Dbs, NEW y \in Dbs,
         \A u : \A m \in Names(y, u) : m \in Names(db, u) /\ y.types[u][m] = db.types[u][m]
  PROVE  Remains(y, db)
<1>1. ASSUME NEW u, NEW m, NEW j, ValuesOf(y, u, m, j) # <<>>
      PROVE  ValuesOf(y, u, m, j) = ValuesOf(db, u, m, j)
  <2>1. cfg_db_find_entry(y, u, m, j)
    BY <1>1 DEF ValuesOf
  <2>2. m \in Names(y, u)
    BY <2>1 DEF cfg_db_find_entry, cfg_db_find_namedsection
  <2>3. EntriesOf(y, u, m) = EntriesOf(db, u, m)
    BY <2>2 DEF EntriesOf, cfg_db_find_namedsection
  <2> QED BY <2>3, SameEntries
<1> QED BY <1>1 DEF Remains

LEMMA RemoveTypeUse ==
  ASSUME NEW db \in Dbs, NEW t
  PROVE  Remains(cfg_db_remove_sectiontype(db, t), db)
<1> DEFINE ty == Without(db.types, t)
           y == [db EXCEPT !.types = ty]
<1>1. db.types \in TypeMaps
  BY DEF Dbs
<1>2. ty \in TypeMaps
  BY <1>1, WithoutType DEF TypeMaps
<1>3. DOMAIN ty = DOMAIN db.types \ {t} /\ \A u \in DOMAIN ty : ty[u] = db.types[u]
  BY DEF Without
<1> HIDE DEF ty
<1>4. y \in Dbs /\ y.types = ty
  BY <1>2 DEF Dbs
<1>5. y = cfg_db_remove_sectiontype(db, t)
  BY DEF cfg_db_remove_sectiontype, ty
<1> HIDE DEF y
<1>6. \A u : \A m \in Names(y, u) : m \in Names(db, u) /\ y.types[u][m] = db.types[u][m]
  BY <1>3, <1>4 DEF Names, Has
<1> QED BY <1>4, <1>5, <1>6, FewerSections

LEMMA RemoveNamedUse ==
  ASSUME NEW db \in Dbs, NEW t, NEW n
  PROVE  Remains(cfg_db_remove_namedsection(db, t, n), db)
<1>1. CASE ~ cfg_db_find_namedsection(db, t, n)
  BY <1>1 DEF cfg_db_remove_namedsection, Remains
<1>2. CASE cfg_db_find_namedsection(db, t, n)
  <2> DEFINE sec == Without(db.types[t], n)
             ty == Put(db.types, t, sec)
             y == [db EXCEPT !.types = ty]
  <2>1. db.types \in TypeMaps /\ t \in DOMAIN db.types
    BY <1>2 DEF Dbs, cfg_db_find_namedsection, Names, Has
  <2>2. t \in Strings /\ db.types[t] \in SectionMaps
    BY <2>1, PFunUse DEF TypeMaps
  <2>3. sec \in SectionMaps
    BY <2>2, WithoutType DEF SectionMaps
  <2>4. DOMAIN sec = DOMAIN db.types[t] \ {n} /\ \A m \in DOMAIN sec : sec[m] = db.types[t][m]
    BY DEF Without
  <2> HIDE DEF sec
  <2>5. ty \in TypeMaps
    BY <2>1, <2>2, <2>3, PutType DEF TypeMaps
  <2>6. DOMAIN ty = DOMAIN db.types /\ ty[t] = sec
        /\ \A u \in DOMAIN db.types : u # t => ty[u] = db.types[u]
    BY <2>1 DEF Put
  <2> HIDE DEF ty
  <2>7. y \in Dbs /\ y.types = ty
    BY <2>5 DEF Dbs
  <2>8. y = cfg_db_remove_namedsection(db, t, n)
    BY <1>2 DEF cfg_db_remove_namedsection, ty, sec
  <2> HIDE DEF y
  <2>9. ASSUME NEW u, NEW m \in Names(y, u)
        PROVE  m \in Names(db, u) /\ y.types[u][m] = db.types[u][m]
    <3>1. u \in DOMAIN db.types /\ m \in DOMAIN ty[u]
      BY <2>6, <2>7 DEF Names, Has
    <3>2. m \in DOMAIN db.types[u] /\ ty[u][m] = db.types[u][m]
      BY <2>4, <2>6, <3>1
    <3> QED BY <2>7, <3>1, <3>2 DEF Names, Has
  <2> QED BY <2>7, <2>8, <2>9, FewerSections
<1> QED BY <1>1, <1>2

LEMMA Concat ==
  ASSUME NEW a \in Seq(Nat), NEW b \in Seq(Nat)
  PROVE  /\ a \o b \in Seq(Nat) /\ (a \o b = <<>> <=> a = <<>> /\ b = <<>>)
         /\ a # <<>> => (a \o b)[1] = a[1]
         /\ a \o <<>> = a /\ <<>> \o b = b
<1>1. /\ a \o b \in Seq(Nat) /\ Len(a \o b) = Len(a) + Len(b) /\ Len(a) \in Nat /\ Len(b) \in Nat
      /\ \A i \in 1..(Len(a) + Len(b)) : (a \o b)[i] = IF i <= Len(a) THEN a[i] ELSE b[i - Len(a)]
  BY ConcatProperties, LenProperties
<1>2. (a \o b = <<>> <=> Len(a \o b) = 0) /\ (a = <<>> <=> Len(a) = 0) /\ (b = <<>> <=> Len(b) = 0)
  BY <1>1, EmptySeq
<1>3. a \o b = <<>> <=> a = <<>> /\ b = <<>>
  BY <1>1, <1>2
<1>4. ASSUME a # <<>> PROVE (a \o b)[1] = a[1]
  <2>1. Len(a) > 0
    BY <1>1, <1>2, <1>4
  <2> QED BY <1>1, <2>1
<1>5. a \o <<>> = a /\ <<>> \o b = b
  OBVIOUS
<1> QED BY <1>1, <1>3, <1>4, <1>5

\* _cfg_db_append(): the values of src go behind those of dst.
LEMMA CopyUse ==
  ASSUME NEW dst \in Dbs, NEW src \in Dbs, NEW y, y = cfg_db_copy(dst, src)
  PROVE  /\ y \in Dbs /\ y.linked = dst.linked
         /\ DOMAIN y.types = DOMAIN dst.types \cup {t \in DOMAIN src.types : Names(src, t) # {}}
         /\ \A t : Names(y, t) = Names(dst, t) \cup Names(src, t)
         /\ \A t, n, k : ValuesOf(y, t, n, k) = ValuesOf(dst, t, n, k) \o ValuesOf(src, t, n, k)
<1> DEFINE types == DOMAIN dst.types \cup {t \in DOMAIN src.types : Names(src, t) # {}}
           keys(t, n) == KeysOf(dst, t, n) \cup KeysOf(src, t, n)
           vals(t, n, k) == ValuesOf(dst, t, n, k) \o ValuesOf(src, t, n, k)
           ent(t, n) == [k \in keys(t, n) |-> vals(t, n, k)]
           sec(t) == [n \in Names(dst, t) \cup Names(src, t) |-> ent(t, n)]
           ty == [t \in types |-> sec(t)]
<1>1. ASSUME NEW t, NEW n, NEW k
      PROVE  /\ vals(t, n, k) \in Seq(Nat)
             /\ vals(t, n, k) # <<>> <=> k \in keys(t, n)
  <2>1. /\ ValuesOf(dst, t, n, k) \in Seq(Nat) /\ ValuesOf(src, t, n, k) \in Seq(Nat)
        /\ k \in KeysOf(dst, t, n) <=> ValuesOf(dst, t, n, k) # <<>>
        /\ k \in KeysOf(src, t, n) <=> ValuesOf(src, t, n, k) # <<>>
    BY DbUse
  <2> QED BY <2>1, Concat
<1>2. ASSUME NEW t, NEW n PROVE ent(t, n) \in EntryMaps
  <2>1. keys(t, n) \in SUBSET Strings
    BY DbUse
  <2>2. \A k \in keys(t, n) : vals(t, n, k) \in ValueLists
    BY <1>1 DEF ValueLists
  <2> HIDE DEF vals, keys
  <2>3. ent(t, n) \in [keys(t, n) -> ValueLists]
    BY <2>2
  <2> HIDE DEF ent
  <2> QED BY <2>1, <2>3, PFunMake DEF EntryMaps
<1>3. ASSUME NEW t PROVE sec(t) \in SectionMaps
  <2>1. Names(dst, t) \cup Names(src, t) \in SUBSET Strings
    BY DbUse
  <2> HIDE DEF ent
  <2>2. sec(t) \in [Names(dst, t) \cup Names(src, t) -> EntryMaps]
    BY <1>2
  <2> HIDE DEF sec
  <2> QED BY <2>1, <2>2, PFunMake DEF SectionMaps
<1>4. ty \in TypeMaps
  <2>1. types \in SUBSET Strings
    BY DbUse
  <2> HIDE DEF sec, types
  <2>2. ty \in [types -> SectionMaps]
    BY <1>3
  <2> HIDE DEF ty
  <2> QED BY <2>1, <2>2, PFunMake DEF TypeMaps
<1>5. y = [dst EXCEPT !.types = ty]
  BY DEF cfg_db_copy
<1>6. DOMAIN ty = types /\ \A t \in types : ty[t] = sec(t)
  OBVIOUS
<1>7. \A t : DOMAIN sec(t) = Names(dst, t) \cup Names(src, t)
  OBVIOUS
<1>8. \A t, n : n \in Names(dst, t) \cup Names(src, t) => sec(t)[n] = ent(t, n)
  OBVIOUS
<1>9. \A t : t \in types \/ Names(dst, t) \cup Names(src, t) = {}
  BY DEF Names, Has
<1>10. /\ \A t, n : DOMAIN ent(t, n) = keys(t, n)
       /\ \A t, n : \A k \in keys(t, n) : ent(t, n)[k] = vals(t, n, k)
  OBVIOUS
<1>11. \A t, n : n \notin Names(dst, t) \cup Names(src, t) => keys(t, n) = {}
  BY NothingUse DEF KeysOf, EntriesOf, cfg_db_find_namedsection
<1> HIDE DEF ty, sec, ent, types, keys, vals
<1>12. y \in Dbs /\ y.types = ty
  BY <1>4, <1>5 DEF Dbs
<1>13. y.linked = dst.linked
  BY <1>5 DEF Dbs
<1>14. \A t : Names(y, t) = Names(dst, t) \cup Names(src, t)
  BY <1>6, <1>7, <1>9, <1>12 DEF Names, Has
<1>15. \A t, n : n \in Names(y, t) => EntriesOf(y, t, n) = ent(t, n)
  <2> SUFFICES ASSUME NEW t, NEW n, n \in Names(y, t) PROVE EntriesOf(y, t, n) = ent(t, n)
    OBVIOUS
  <2>1. EntriesOf(y, t, n) = ty[t][n] /\ t \in types
    BY <1>6, <1>12 DEF EntriesOf, cfg_db_find_namedsection, Names, Has
  <2> QED BY <1>6, <1>8, <1>14, <2>1
<1>16. ASSUME NEW t, NEW n, NEW k PROVE ValuesOf(y, t, n, k) = vals(t, n, k)
  <2>1. CASE k \in keys(t, n)
    <3>1. n \in Names(y, t)
      BY <1>11, <1>14, <2>1
    <3>2. EntriesOf(y, t, n) = ent(t, n) /\ k \in KeysOf(y, t, n)
      BY <1>10, <1>15, <2>1, <3>1 DEF KeysOf
    <3>3. ValuesOf(y, t, n, k) = EntriesOf(y, t, n)[k]
      BY <1>12, <3>2, DbUse
    <3> QED BY <1>10, <2>1, <3>2, <3>3
  <2>2. CASE k \notin keys(t, n)
    <3>1. k \notin KeysOf(y, t, n)
      <4>1. CASE n \in Names(y, t)
        BY <1>10, <1>15, <2>2, <4>1 DEF KeysOf
      <4>2. CASE n \notin Names(y, t)
        BY <4>2, NothingUse DEF KeysOf, EntriesOf, cfg_db_find_namedsection
      <4> QED BY <4>1, <4>2
    <3>2. ValuesOf(y, t, n, k) = <<>>
      BY <1>12, <3>1, DbUse
    <3>3. vals(t, n, k) = <<>>
      BY <1>1, <2>2
    <3> QED BY <3>2, <3>3
  <2> QED BY <2>1, <2>2
<1>17. DOMAIN y.types = types
  BY <1>6, <1>12
<1> QED BY <1>12, <1>13, <1>14, <1>16, <1>17 DEF types, vals

LEMMA AddUse == cfg_db_add \in Dbs /\ \A t, n, k : Names(cfg_db_add, t) = {} /\ ValuesOf(cfg_db_add, t, n, k) = <<>>
<1>1. Nothing \in TypeMaps /\ DOMAIN Nothing = {}
  BY NothingUse DEF TypeMaps
<1>2. cfg_db_add \in Dbs /\ cfg_db_add.types = Nothing
  BY <1>1 DEF cfg_db_add, Dbs
<1>3. \A t : Names(cfg_db_add, t) = {}
  BY <1>1, <1>2 DEF Names, Has
<1> QED BY <1>2, <1>3 DEF ValuesOf, cfg_db_find_entry, cfg_db_find_namedsection

LEMMA DuplicateUse ==
  ASSUME NEW src \in Dbs, NEW y, y = cfg_db_duplicate(src)
  PROVE  /\ y \in Dbs
         /\ DOMAIN y.types = {t \in DOMAIN src.types : Names(src, t) # {}}
         /\ \A t : Names(y, t) = Names(src, t)
         /\ \A t, n, k : ValuesOf(y, t, n, k) = ValuesOf(src, t, n, k)
<1>1. y = cfg_db_copy(cfg_db_add, src) /\ cfg_db_add \in Dbs
      /\ \A t, n, k : Names(cfg_db_add, t) = {} /\ ValuesOf(cfg_db_add, t, n, k) = <<>>
  BY AddUse DEF cfg_db_duplicate
<1>2. DOMAIN cfg_db_add.types = {}
  BY NothingUse DEF cfg_db_add
<1>3. /\ y \in Dbs
      /\ DOMAIN y.types = DOMAIN cfg_db_add.types \cup {t \in DOMAIN src.types : Names(src, t) # {}}
      /\ \A t : Names(y, t) = Names(cfg_db_add, t) \cup Names(src, t)
      /\ \A t, n, k : ValuesOf(y, t, n, k) = ValuesOf(cfg_db_add, t, n, k) \o ValuesOf(src, t, n, k)
  BY <1>1, CopyUse
<1>5. DOMAIN y.types = {t \in DOMAIN src.types : Names(src, t) # {}}
  BY <1>2, <1>3
<1>6. \A t : Names(y, t) = Names(src, t)
  BY <1>1, <1>3
<1>7. ASSUME NEW t, NEW n, NEW k PROVE ValuesOf(y, t, n, k) = ValuesOf(src, t, n, k)
  <2>1. ValuesOf(y, t, n, k) = ValuesOf(cfg_db_add, t, n, k) \o ValuesOf(src, t, n, k)
    BY <1>3
  <2>2. ValuesOf(cfg_db_add, t, n, k) = <<>>
    BY <1>1
  <2>3. PICK v : v = ValuesOf(src, t, n, k)
    OBVIOUS
  <2>4. v \in Seq(Nat)
    BY <2>3, DbUse
  <2> QED BY <2>1, <2>2, <2>3, <2>4
<1> QED BY <1>3, <1>5, <1>6, <1>7

LEMMA LinkUse ==
  ASSUME NEW db \in Dbs, NEW y, y = cfg_db_link_schema(db)
  PROVE  /\ y \in Dbs /\ y.types = db.types /\ y.linked
         /\ \A t : Names(y, t) = Names(db, t)
         /\ \A t, n, k : ValuesOf(y, t, n, k) = ValuesOf(db, t, n, k)
<1>1. y \in Dbs /\ y.types = db.types
  BY DEF Dbs, cfg_db_link_schema
<1>2. y.linked = TRUE
  BY DEF Dbs, cfg_db_link_schema
<1> QED BY <1>1, <1>2 DEF Names, ValuesOf, cfg_db_find_entry, cfg_db_find_namedsection

\* The lines a text may have and what a file may hold.
TextLines == [head : {TRUE}, type : Strings, name : Strings]
             \cup [head : {FALSE}, key : Strings, value : Nat]
Texts == [text : Seq(TextLines)] \cup {Failed}

\* The states of the compact parser.
Parses == [db : Dbs, type : Strings, name : Strings] \cup {Failed}

LEMMA ParseLineType ==
  ASSUME NEW p \in Parses, NEW line \in TextLines
  PROVE  parse_line(p, line) \in Parses
<1>1. CASE Fails(p)
  BY <1>1 DEF parse_line
<1>2. CASE ~ Fails(p)
  <2>1. p \in [db : Dbs, type : Strings, name : Strings]
    BY <1>2 DEF Parses, Failed, Fails
  <2>2. p.db \in Dbs /\ p.type \in Strings /\ p.name \in Strings
    BY <2>1
  <2>3. CASE line \in [head : {TRUE}, type : Strings, name : Strings]
    <3>1. line.head = TRUE
      BY <2>3
    <3>2. line.type \in Strings /\ line.name \in Strings
      BY <2>3
    <3>3. PICK y : y = cfg_db_add_section(p.db, line.type, line.name)
      OBVIOUS
    <3>4. y \in Dbs
      BY <2>2, <3>2, <3>3, AddSectionUse
    <3>5. parse_line(p, line) = [db |-> y, type |-> line.type, name |-> line.name]
      BY <1>2, <3>1, <3>3 DEF parse_line
    <3> QED BY <3>2, <3>4, <3>5 DEF Parses
  <2>4. CASE line \in [head : {FALSE}, key : Strings, value : Nat]
    <3>1. line.head = FALSE
      BY <2>4
    <3>2. line.key \in Strings /\ line.value \in Nat
      BY <2>4
    <3>3. CASE p.type = NoType \/ line.value = NoValue
      BY <1>2, <3>1, <3>3 DEF parse_line, Parses
    <3>4. CASE ~ (p.type = NoType \/ line.value = NoValue)
      <4>1. PICK y : y = cfg_db_add_entry(p.db, p.type, p.name, line.key, line.value)
        OBVIOUS
      <4>2. y \in Dbs
        BY <2>2, <3>2, <4>1, SetEntryUse
      <4>3. parse_line(p, line) = [p EXCEPT !.db = y]
        BY <1>2, <3>1, <3>4, <4>1 DEF parse_line
      <4> QED BY <2>1, <4>2, <4>3 DEF Parses
    <3> QED BY <3>3, <3>4
  <2> QED BY <2>3, <2>4 DEF TextLines
<1> QED BY <1>1, <1>2

\* What the compact parser makes of a text is a database, or it fails.
LEMMA ParseType ==
  ASSUME NEW text \in Seq(TextLines), NEW y, y = cb_compact_parse(text)
  PROVE  y \in Dbs \cup {Failed}
<1> DEFINE n == Len(text)
           s0 == [db |-> cfg_db_add, type |-> NoType, name |-> NoName]
           Is(f) == f = [i \in 0 .. n |-> IF i = 0 THEN s0 ELSE parse_line(f[i - 1], text[i])]
           F == [i \in 1..n |-> [p \in Parses |-> parse_line(p, text[i])]]
           u == CHOOSE f : Is(f)
<1>1. n \in Nat /\ \A i \in 1..n : text[i] \in TextLines
  BY LenProperties
<1>2. s0 \in Parses
  <2>1. NoType \in Strings /\ NoName \in Strings
    BY DEF Strings, NoType, NoName
  <2>2. cfg_db_add \in Dbs
    BY AddUse
  <2> QED BY <2>1, <2>2 DEF Parses
<1>3. y = IF Fails(u[n]) THEN Failed ELSE u[n].db
  BY DEF cb_compact_parse
<1> HIDE DEF n, s0
<1>4. F \in [1..n -> [Parses -> Parses]]
  BY <1>1, ParseLineType
<1>5. PICK g \in [0..n -> Parses] : g[0] = s0 /\ \A i \in 1..n : g[i] = F[i][g[i - 1]]
  <2> HIDE DEF F
  <2>1. Walks(Parses, s0, n, F) # {}
    BY <1>1, <1>2, <1>4, WalkExists
  <2> QED BY <2>1 DEF Walks
<1>6. \A i \in 1..n : i - 1 \in 0..n
  BY <1>1
<1>7. \A i \in 1..n : g[i] = parse_line(g[i - 1], text[i])
  BY <1>5, <1>6
<1>8. \A i \in 0..n : i = 0 \/ i \in 1..n
  BY <1>1
<1>9. Is(g)
  BY <1>5, <1>7, <1>8
<1>10. Is(u)
  BY <1>9
<1> HIDE DEF u
<1>11. u[0] = s0 /\ \A i \in 1..n : u[i] = parse_line(u[i - 1], text[i])
  <2>1. \A i \in 0..n : u[i] = IF i = 0 THEN s0 ELSE parse_line(u[i - 1], text[i])
    BY <1>10
  <2> QED BY <1>1, <2>1
<1>12. \A i \in 0..n : u[i] \in Parses
  <2>1. \A i \in 1..n : u[i - 1] \in Parses => u[i] \in Parses
    BY <1>1, <1>11, ParseLineType
  <2> HIDE DEF F, Is
  <2> QED BY <1>1, <1>2, <1>11, <2>1, StaysIn
<1>13. u[n] \in Parses
  BY <1>1, <1>12
<1> HIDE DEF F, Is
<1>14. CASE Fails(u[n])
  BY <1>3, <1>14
<1>15. CASE ~ Fails(u[n])
  <2>1. u[n] \in [db : Dbs, type : Strings, name : Strings]
    BY <1>13, <1>15 DEF Parses, Failed, Fails
  <2> QED BY <1>3, <1>15, <2>1
<1> QED BY <1>14, <1>15

LEMMA LoadUse ==
  ASSUME NEW r, NEW c, NEW db \in Dbs, NEW f \in Texts,
         NEW y, y = cfg_cmd_handle_load(r, c, db, f)
  PROVE  /\ y \in Dbs /\ y.linked = db.linked
         /\ y = db \/ \E src \in Dbs : y = cfg_db_copy(db, src)
<1>1. PICK new : new = cfg_io_load(r, c.format, f)
  OBVIOUS
<1>2. new \in Dbs \cup {Failed}
  <2>1. CASE f = Failed \/ find_parser(r, c.format) # "compact"
    BY <1>1, <2>1 DEF cfg_io_load
  <2>2. CASE ~ (f = Failed \/ find_parser(r, c.format) # "compact")
    <3>1. f.text \in Seq(TextLines)
      BY <2>2 DEF Texts
    <3>2. new = cb_compact_parse(f.text)
      BY <1>1, <2>2 DEF cfg_io_load
    <3> QED BY <3>1, <3>2, ParseType
  <2> QED BY <2>1, <2>2
<1>3. y = IF Fails(new) THEN db ELSE cfg_db_copy(db, new)
  BY <1>1 DEF cfg_cmd_handle_load
<1>4. CASE Fails(new)
  BY <1>3, <1>4
<1>5. CASE ~ Fails(new)
  <2>1. new \in Dbs
    BY <1>2, <1>5 DEF Failed, Fails
  <2>2. y = cfg_db_copy(db, new)
    BY <1>3, <1>5
  <2>3. y \in Dbs /\ y.linked = db.linked
    BY <2>1, <2>2, CopyUse
  <2> QED BY <2>1, <2>2, <2>3
<1> QED BY <1>4, <1>5

\* Texts put one after the other are a text.
LEMMA InOrderType ==
  ASSUME NEW T, NEW f, \A x \in DOMAIN f : f[x] \in Seq(T), NEW order \in Seq(STRING),
         NEW y, y = InOrder(f, order)
  PROVE  y \in Seq(T)
<1> DEFINE n == Len(order)
           Next1(s, i) == IF Has(f, order[i]) THEN s \o f[order[i]] ELSE s
           Is(g) == g = [i \in 0 .. n |-> IF i = 0 THEN <<>>
                                          ELSE IF Has(f, order[i]) THEN g[i - 1] \o f[order[i]] ELSE g[i - 1]]
           F == [i \in 1..n |-> [s \in Seq(T) |-> Next1(s, i)]]
           u == CHOOSE g : Is(g)
<1>1. n \in Nat
  BY LenProperties
<1>2. <<>> \in Seq(T)
  OBVIOUS
<1>3. y = u[n]
  BY DEF InOrder
<1> HIDE DEF n
<1>4. \A i \in 1..n : \A s \in Seq(T) : Next1(s, i) \in Seq(T)
  BY ConcatProperties DEF Has
<1> HIDE DEF Next1
<1>5. F \in [1..n -> [Seq(T) -> Seq(T)]]
  BY <1>4
<1>6. PICK g \in [0..n -> Seq(T)] : g[0] = <<>> /\ \A i \in 1..n : g[i] = F[i][g[i - 1]]
  <2> HIDE DEF F
  <2>1. Walks(Seq(T), <<>>, n, F) # {}
    BY <1>1, <1>2, <1>5, WalkExists
  <2> QED BY <2>1 DEF Walks
<1>7. \A i \in 1..n : i - 1 \in 0..n
  BY <1>1
<1>8. \A i \in 1..n : g[i] = Next1(g[i - 1], i)
  BY <1>6, <1>7
<1>9. \A i \in 0..n : i = 0 \/ i \in 1..n
  BY <1>1
<1>10. Is(g)
  BY <1>6, <1>8, <1>9 DEF Next1
<1>11. Is(u)
  BY <1>10
<1> HIDE DEF u, F
<1>12. u[0] = <<>> /\ \A i \in 1..n : u[i] = Next1(u[i - 1], i)
  <2>1. \A i \in 0..n : u[i] = IF i = 0 THEN <<>> ELSE Next1(u[i - 1], i)
    BY <1>11 DEF Next1
  <2> QED BY <1>1, <2>1
<1> HIDE DEF Is
<1>13. \A i \in 0..n : u[i] \in Seq(T)
  <2>1. \A i \in 1..n : u[i - 1] \in Seq(T) => u[i] \in Seq(T)
    BY <1>4, <1>12
  <2>2. u[0] \in Seq(T)
    BY <1>2, <1>12
  <2> QED BY <1>1, <2>1, <2>2, StaysIn
<1> QED BY <1>1, <1>3, <1>13

\* What is written is a text.
LEMMA SerializeType ==
  ASSUME NEW db \in Dbs
  PROVE  cb_compact_serialize(db) \in Seq(TextLines)
<1> DEFINE entry(t, n, k) == [i \in 1 .. Len(ValuesOf(db, t, n, k)) |->
                               [head |-> FALSE, key |-> k, value |-> ValuesOf(db, t, n, k)[i]]]
           lines(t, n) == [k \in KeysOf(db, t, n) |-> entry(t, n, k)]
           first(t, n) == <<[head |-> TRUE, type |-> t, name |-> n]>>
           sections(t) == [n \in Names(db, t) |-> first(t, n) \o InOrder(lines(t, n), KeyOrder)]
           all == [t \in DOMAIN db.types |-> InOrder(sections(t), NameOrder)]
<1>1. ASSUME NEW t, NEW n, NEW k \in KeysOf(db, t, n) PROVE entry(t, n, k) \in Seq(TextLines)
  <2>1. PICK vals : vals = ValuesOf(db, t, n, k)
    OBVIOUS
  <2>2. k \in Strings /\ vals \in Seq(Nat)
    BY <2>1, DbUse
  <2>3. Len(vals) \in Nat /\ \A i \in 1..Len(vals) : vals[i] \in Nat
    BY <2>2, LenProperties
  <2>4. \A i \in 1..Len(vals) : [head |-> FALSE, key |-> k, value |-> vals[i]] \in TextLines
    BY <2>2, <2>3 DEF TextLines
  <2>5. entry(t, n, k) = [i \in 1..Len(vals) |-> [head |-> FALSE, key |-> k, value |-> vals[i]]]
    BY <2>1
  <2>6. entry(t, n, k) \in [1..Len(vals) -> TextLines]
    BY <2>4, <2>5
  <2> HIDE DEF entry
  <2> QED BY <2>3, <2>6, SeqDef
<1> HIDE DEF entry
<1>2. ASSUME NEW t, NEW n PROVE InOrder(lines(t, n), KeyOrder) \in Seq(TextLines)
  <2>1. \A k \in DOMAIN lines(t, n) : lines(t, n)[k] \in Seq(TextLines)
    BY <1>1
  <2> HIDE DEF lines
  <2> QED BY <2>1, CfgCmdAssumption, InOrderType
<1> HIDE DEF lines
<1>3. ASSUME NEW t \in Strings, NEW n \in Strings PROVE first(t, n) \in Seq(TextLines)
  <2>1. PICK l : l = [head |-> TRUE, type |-> t, name |-> n]
    OBVIOUS
  <2>2. l \in TextLines
    BY <2>1 DEF TextLines
  <2> QED BY <2>1, <2>2
<1> HIDE DEF first
<1>4. ASSUME NEW t \in DOMAIN db.types PROVE InOrder(sections(t), NameOrder) \in Seq(TextLines)
  <2>1. t \in Strings /\ Names(db, t) \subseteq Strings
    BY DbUse
  <2>2. \A n \in DOMAIN sections(t) : sections(t)[n] \in Seq(TextLines)
    BY <1>2, <1>3, <2>1, ConcatProperties
  <2> HIDE DEF sections
  <2> QED BY <2>2, CfgCmdAssumption, InOrderType
<1> HIDE DEF sections
<1>5. \A t \in DOMAIN all : all[t] \in Seq(TextLines)
  BY <1>4
<1>6. cb_compact_serialize(db) = InOrder(all, TypeOrder)
  BY DEF cb_compact_serialize, sections, lines, first, entry
<1> HIDE DEF all
<1> QED BY <1>5, <1>6, CfgCmdAssumption, InOrderType

\* What cleaning up keeps of the values of an entry begins like them, and it is
\* all or the first of them if none is bad.
LEMMA KeptUse ==
  ASSUME NEW checks, NEW vals \in ValueLists, NEW y, y = Kept(checks, vals)
  PROVE  /\ y \in Seq(Nat)
         /\ Bad(checks, vals) = {} => /\ y # <<>> /\ y[1] = vals[1]
                                      /\ y = vals \/ Len(y) = 1
                                      /\ (\E c \in checks : ~c.list) => Len(y) = 1
         /\ y # <<>> => y[1] = vals[1]
<1>1. vals \in Seq(Nat) /\ Len(vals) \in Nat /\ Len(vals) # 0 /\ DOMAIN vals = 1..Len(vals)
  BY LenProperties, EmptySeq DEF ValueLists
<1>2. vals[1] \in Nat /\ \A i \in 1..Len(vals) : vals[i] \in Nat
  BY <1>1
<1>3. PICK bad : bad = Bad(checks, vals)
  OBVIOUS
<1>4. bad \subseteq 1..Len(vals)
  BY <1>1, <1>3 DEF Bad
<1>5. CASE bad # {}
  <2>1. \E x \in bad : \A z \in bad : x <= z
    <3>1. bad \subseteq Nat
      BY <1>1, <1>4
    <3> QED BY <1>5, <3>1, LeastElement
  <2>2. PICK m : m = CHOOSE i \in bad : \A j \in bad : i <= j
    OBVIOUS
  <2>3. m \in 1..Len(vals)
    BY <1>4, <2>1, <2>2
  <2>4. y = SubSeq(vals, 1, m - 1)
    BY <1>3, <1>5, <2>2 DEF Kept
  <2>5. y \in Seq(Nat) /\ Len(y) = m - 1 /\ \A i \in 1..(m - 1) : y[i] = vals[i]
    <3>1. y = [i \in 1..(m - 1) |-> vals[i]]
      BY <1>1, <2>3, <2>4
    <3>2. y \in [1..(m - 1) -> Nat] /\ m - 1 \in Nat
      BY <1>1, <1>2, <2>3, <3>1
    <3>3. y \in Seq(Nat)
      BY <3>2, SeqDef
    <3>4. Len(y) = m - 1
      BY <3>2, <3>3, LenProperties
    <3> QED BY <3>1, <3>3, <3>4
  <2>6. y # <<>> => 1 \in 1..(m - 1)
    BY <1>1, <2>3, <2>5, EmptySeq
  <2> QED BY <1>3, <1>5, <2>5, <2>6
<1>6. CASE bad = {}
  <2>1. CASE \E c \in checks : ~c.list
    <3>1. y = <<vals[1]>>
      BY <1>3, <1>6, <2>1 DEF Kept
    <3> QED BY <1>2, <3>1
  <2>2. CASE ~ \E c \in checks : ~c.list
    <3>1. y = vals
      BY <1>3, <1>6, <2>2 DEF Kept
    <3> QED BY <1>1, <2>2, <3>1, EmptySeq
  <2> QED BY <2>1, <2>2
<1> QED BY <1>5, <1>6

LEMMA CleanEntriesUse ==
  ASSUME NEW sch, NEW t, NEW e \in EntryMaps, NEW y, y = CleanEntries(sch, t, e)
  PROVE  /\ y \in EntryMaps
         /\ \A k : k \in DOMAIN y <=> k \in DOMAIN e /\ Kept(Checks(sch, t, k), e[k]) # <<>>
         /\ \A k \in DOMAIN y : y[k] = Kept(Checks(sch, t, k), e[k])
<1> DEFINE K(k) == Kept(Checks(sch, t, k), e[k])
           D == {k \in DOMAIN e : K(k) # <<>>}
<1>1. DOMAIN e \in SUBSET Strings /\ \A k \in DOMAIN e : e[k] \in ValueLists
  BY PFunUse DEF EntryMaps
<1>2. \A k \in DOMAIN e : K(k) \in Seq(Nat)
  BY <1>1, KeptUse
<1>3. y = [k \in D |-> K(k)]
  BY DEF CleanEntries
<1> HIDE DEF K
<1>4. y \in [D -> ValueLists] /\ D \in SUBSET Strings
  BY <1>1, <1>2, <1>3 DEF ValueLists
<1>5. y \in EntryMaps
  <2> HIDE DEF D
  <2> QED BY <1>4, PFunMake DEF EntryMaps
<1>6. DOMAIN y = D /\ \A k \in D : y[k] = K(k)
  BY <1>3
<1> QED BY <1>5, <1>6 DEF K

LEMMA CleanedUse ==
  ASSUME NEW sch, NEW db \in Dbs, NEW y, y = Cleaned(sch, db)
  PROVE  /\ y \in Dbs /\ y.linked = db.linked
         /\ \A t \in DOMAIN y.types : OfType(sch, t) # {}
         /\ \A t : Names(y, t) = {m \in Names(db, t) : OfType(sch, t) # {} /\ ~ BadName(sch, t, m)}
         /\ \A t : \A n \in Names(y, t) : y.types[t][n] = CleanEntries(sch, t, db.types[t][n])
<1> DEFINE good(t) == {m \in Names(db, t) : ~ BadName(sch, t, m)}
           ent(t, n) == CleanEntries(sch, t, db.types[t][n])
           sec(t) == [n \in good(t) |-> ent(t, n)]
           known == {t \in DOMAIN db.types : OfType(sch, t) # {} /\ DOMAIN sec(t) # {}}
           ty == [t \in known |-> sec(t)]
<1>1. ASSUME NEW t, NEW n \in Names(db, t) PROVE ent(t, n) \in EntryMaps
  <2>1. EntriesOf(db, t, n) \in EntryMaps
    BY DbUse
  <2>2. EntriesOf(db, t, n) = db.types[t][n]
    BY DEF EntriesOf, cfg_db_find_namedsection
  <2> QED BY <2>1, <2>2, CleanEntriesUse
<1> HIDE DEF ent
<1>2. ASSUME NEW t PROVE sec(t) \in SectionMaps
  <2>1. good(t) \in SUBSET Strings
    BY DbUse
  <2>2. sec(t) \in [good(t) -> EntryMaps]
    BY <1>1
  <2> HIDE DEF good, sec
  <2> QED BY <2>1, <2>2, PFunMake DEF SectionMaps
<1>3. \A t : DOMAIN sec(t) = good(t) /\ \A n \in good(t) : sec(t)[n] = ent(t, n)
  OBVIOUS
<1>4. y = [db EXCEPT !.types = ty]
  BY DEF Cleaned, ent
<1> HIDE DEF good, sec
<1>5. ty \in TypeMaps
  <2>1. known \in SUBSET Strings
    BY DbUse
  <2>2. ty \in [known -> SectionMaps]
    BY <1>2
  <2> HIDE DEF known, ty
  <2> QED BY <2>1, <2>2, PFunMake DEF TypeMaps
<1>6. DOMAIN ty = known /\ \A t \in known : ty[t] = sec(t)
  OBVIOUS
<1> HIDE DEF ty
<1>7. y \in Dbs /\ y.types = ty /\ y.linked = db.linked
  BY <1>4, <1>5 DEF Dbs
<1>8. \A t \in DOMAIN y.types : OfType(sch, t) # {}
  BY <1>6, <1>7
<1>9. ASSUME NEW t
      PROVE  Names(y, t) = {m \in Names(db, t) : OfType(sch, t) # {} /\ ~ BadName(sch, t, m)}
  <2>1. CASE t \in known
    BY <1>3, <1>6, <1>7, <2>1 DEF Names, Has, good
  <2>2. CASE t \notin known
    <3>1. Names(y, t) = {}
      BY <1>6, <1>7, <2>2 DEF Names, Has
    <3>2. t \notin DOMAIN db.types => Names(db, t) = {}
      BY DEF Names, Has
    <3>3. t \notin DOMAIN db.types \/ OfType(sch, t) = {} \/ good(t) = {}
      BY <1>3, <2>2
    <3> QED BY <3>1, <3>2, <3>3 DEF good
  <2> QED BY <2>1, <2>2
<1>10. ASSUME NEW t, NEW n \in Names(y, t) PROVE y.types[t][n] = ent(t, n)
  <2>1. t \in known /\ n \in DOMAIN sec(t)
    BY <1>6, <1>7 DEF Names, Has
  <2> QED BY <1>3, <1>6, <1>7, <2>1
<1> QED BY <1>7, <1>8, <1>9, <1>10 DEF ent

LEMMA NewWorkUse ==
  ASSUME NEW sch, NEW r \in Dbs, NEW y, y = NewWork(sch, r)
  PROVE  /\ y \in Dbs
         /\ \A t \in DOMAIN y.types : OfType(sch, t) # {}
         /\ \A t : Names(y, t) = {m \in Names(r, t) : OfType(sch, t) # {} /\ ~ BadName(sch, t, m)}
         /\ \A t : \A n \in Names(y, t) : \A k :
              ValuesOf(y, t, n, k) = IF k \in KeysOf(r, t, n)
                                     THEN Kept(Checks(sch, t, k), ValuesOf(r, t, n, k)) ELSE <<>>
<1>1. PICK d : d = cfg_db_duplicate(r)
  OBVIOUS
<1>2. PICK l : l = cfg_db_link_schema(d)
  OBVIOUS
<1>3. y = Cleaned(sch, l)
  BY <1>1, <1>2 DEF NewWork
<1>4. d \in Dbs /\ \A t, n, k : Names(d, t) = Names(r, t) /\ ValuesOf(d, t, n, k) = ValuesOf(r, t, n, k)
  BY <1>1, DuplicateUse
<1>5. l \in Dbs /\ \A t, n, k : Names(l, t) = Names(d, t) /\ ValuesOf(l, t, n, k) = ValuesOf(d, t, n, k)
  BY <1>2, <1>4, LinkUse
<1>6. \A t, n, k : Names(l, t) = Names(r, t) /\ ValuesOf(l, t, n, k) = ValuesOf(r, t, n, k)
  BY <1>4, <1>5
<1>7. /\ y \in Dbs
      /\ \A t \in DOMAIN y.types : OfType(sch, t) # {}
      /\ \A t : Names(y, t) = {m \in Names(l, t) : OfType(sch, t) # {} /\ ~ BadName(sch, t, m)}
      /\ \A t : \A n \in Names(y, t) : y.types[t][n] = CleanEntries(sch, t, l.types[t][n])
  BY <1>3, <1>5, CleanedUse
<1>8. \A t : Names(y, t) = {m \in Names(r, t) : OfType(sch, t) # {} /\ ~ BadName(sch, t, m)}
  BY <1>6, <1>7
<1>9. ASSUME NEW t, NEW n \in Names(y, t), NEW k
      PROVE  ValuesOf(y, t, n, k) = IF k \in KeysOf(r, t, n)
                                    THEN Kept(Checks(sch, t, k), ValuesOf(r, t, n, k)) ELSE <<>>
  <2>1. n \in Names(l, t)
    BY <1>7
  <2>2. PICK e : e = EntriesOf(l, t, n)
    OBVIOUS
  <2>3. e \in EntryMaps
    BY <1>5, <2>2, DbUse
  <2>4. e = l.types[t][n]
    BY <2>1, <2>2 DEF EntriesOf, cfg_db_find_namedsection
  <2>5. PICK c : c = CleanEntries(sch, t, e)
    OBVIOUS
  <2>6. /\ c \in EntryMaps
        /\ \A j : j \in DOMAIN c <=> j \in DOMAIN e /\ Kept(Checks(sch, t, j), e[j]) # <<>>
        /\ \A j \in DOMAIN c : c[j] = Kept(Checks(sch, t, j), e[j])
    BY <2>3, <2>5, CleanEntriesUse
  <2>7. EntriesOf(y, t, n) = c
    BY <1>7, <2>4, <2>5 DEF EntriesOf, cfg_db_find_namedsection
  <2>8. KeysOf(y, t, n) = DOMAIN c /\ KeysOf(l, t, n) = DOMAIN e
    BY <2>2, <2>7 DEF KeysOf
  <2>9. /\ k \in KeysOf(y, t, n) => ValuesOf(y, t, n, k) = EntriesOf(y, t, n)[k]
        /\ k \notin KeysOf(y, t, n) => ValuesOf(y, t, n, k) = <<>>
    BY <1>7, DbUse
  <2>10. /\ k \in KeysOf(l, t, n) => ValuesOf(l, t, n, k) = EntriesOf(l, t, n)[k]
         /\ k \in KeysOf(l, t, n) <=> ValuesOf(l, t, n, k) # <<>>
    BY <1>5, DbUse
  <2>11. k \in KeysOf(r, t, n) <=> ValuesOf(r, t, n, k) # <<>>
    BY DbUse
  <2>12. k \in KeysOf(l, t, n) <=> k \in KeysOf(r, t, n)
    BY <1>6, <2>10, <2>11
  <2>13. CASE k \in DOMAIN e
    <3>1. e[k] = ValuesOf(r, t, n, k) /\ k \in KeysOf(r, t, n)
      BY <1>6, <2>2, <2>8, <2>10, <2>12, <2>13
    <3> QED BY <2>6, <2>7, <2>8, <2>9, <2>13, <3>1
  <2>14. CASE k \notin DOMAIN e
    BY <2>6, <2>8, <2>9, <2>12, <2>14
  <2> QED BY <2>13, <2>14
<1> QED BY <1>7, <1>8, <1>9

\* What a validation that succeeds has looked at.
Validated(sch, r) ==
  \A t : OfType(sch, t) # {} =>
    \A n \in Names(r, t) :
      /\ ~ BadName(sch, t, n)
      /\ ~ check_missing_entries(sch, t, EntriesOf(r, t, n))
      /\ \A k \in KeysOf(r, t, n) : Bad(Checks(sch, t, k), ValuesOf(r, t, n, k)) = {}

LEMMA ApplyOkUse ==
  ASSUME NEW r \in Dbs, NEW loaded, ApplyOk(r, loaded)
  PROVE  Validated(loaded.schema, r)
<1> DEFINE sch == loaded.schema
<1>1. PICK b : b = TRUE
  OBVIOUS
<1>2. cfg_schema_validate(sch, r, b)
  BY <1>1 DEF ApplyOk
<1>3. \A t \in DOMAIN r.types : OfType(sch, t) # {} =>
        \A n \in Names(r, t) :
            /\ ~BadName(sch, t, n)
            /\ \A k \in DOMAIN r.types[t][n] :
                  ~validate_cfg_entry(sch, t, k, r.types[t][n][k])
            /\ ~check_missing_entries(sch, t, r.types[t][n])
  BY <1>2 DEF cfg_schema_validate
<1> HIDE DEF sch
<1> SUFFICES ASSUME NEW t, OfType(sch, t) # {}, NEW n \in Names(r, t)
             PROVE  /\ ~ BadName(sch, t, n)
                    /\ ~ check_missing_entries(sch, t, EntriesOf(r, t, n))
                    /\ \A k \in KeysOf(r, t, n) : Bad(Checks(sch, t, k), ValuesOf(r, t, n, k)) = {}
  BY DEF Validated, sch
<1>4. t \in DOMAIN r.types /\ EntriesOf(r, t, n) = r.types[t][n]
  BY DEF EntriesOf, cfg_db_find_namedsection, Names, Has
<1>5. \A k \in KeysOf(r, t, n) : ValuesOf(r, t, n, k) = r.types[t][n][k] /\ k \in DOMAIN r.types[t][n]
  BY <1>4, DbUse DEF KeysOf
<1> QED BY <1>3, <1>4, <1>5 DEF validate_cfg_entry

\* A raw database that passes validation makes a clean work database.
LEMMA NewWorkIsClean ==
  ASSUME NEW sch, NEW r \in Dbs, Validated(sch, r), NEW y, y = NewWork(sch, r)
  PROVE  Clean(sch, y)
<1>1. /\ y \in Dbs
      /\ \A t \in DOMAIN y.types : OfType(sch, t) # {}
      /\ \A t : Names(y, t) = {m \in Names(r, t) : OfType(sch, t) # {} /\ ~ BadName(sch, t, m)}
      /\ \A t : \A n \in Names(y, t) : \A k :
           ValuesOf(y, t, n, k) = IF k \in KeysOf(r, t, n)
                                  THEN Kept(Checks(sch, t, k), ValuesOf(r, t, n, k)) ELSE <<>>
  BY NewWorkUse
<1> SUFFICES ASSUME NEW t \in DOMAIN y.types, NEW n \in Names(y, t)
             PROVE  /\ ~BadName(sch, t, n)
                    /\ ~check_missing_entries(sch, t, y.types[t][n])
                    /\ \A k \in DOMAIN y.types[t][n] : \A c \in Checks(sch, t, k) :
                         /\ \A i \in DOMAIN y.types[t][n][k] : y.types[t][n][k][i] \in c.valid
                         /\ ~c.list => Len(y.types[t][n][k]) = 1
  BY <1>1 DEF Clean
<1>2. n \in Names(r, t) /\ OfType(sch, t) # {} /\ ~BadName(sch, t, n)
  BY <1>1
<1>3. /\ ~ check_missing_entries(sch, t, EntriesOf(r, t, n))
      /\ \A k \in KeysOf(r, t, n) : Bad(Checks(sch, t, k), ValuesOf(r, t, n, k)) = {}
  BY <1>2 DEF Validated
<1>4. EntriesOf(y, t, n) = y.types[t][n]
  BY DEF EntriesOf, cfg_db_find_namedsection
<1>5. ASSUME NEW k \in KeysOf(r, t, n)
      PROVE  /\ ValuesOf(r, t, n, k) \in ValueLists
             /\ ValuesOf(y, t, n, k) = Kept(Checks(sch, t, k), ValuesOf(r, t, n, k))
             /\ ValuesOf(y, t, n, k) # <<>>
  <2>1. ValuesOf(r, t, n, k) \in ValueLists
    BY DbUse DEF ValueLists
  <2>2. ValuesOf(y, t, n, k) = Kept(Checks(sch, t, k), ValuesOf(r, t, n, k))
    BY <1>1
  <2> QED BY <1>3, <2>1, <2>2, KeptUse
<1>6. KeysOf(y, t, n) = KeysOf(r, t, n)
  <2>1. \A k : k \in KeysOf(y, t, n) <=> ValuesOf(y, t, n, k) # <<>>
    BY <1>1, DbUse
  <2>2. \A k : k \notin KeysOf(r, t, n) => ValuesOf(y, t, n, k) = <<>>
    BY <1>1
  <2> QED BY <1>5, <2>1, <2>2
<1>7. ~check_missing_entries(sch, t, y.types[t][n])
  <2>1. DOMAIN y.types[t][n] = DOMAIN EntriesOf(r, t, n)
    BY <1>4, <1>6 DEF KeysOf
  <2> QED BY <1>3, <2>1 DEF check_missing_entries, Has
<1>8. ASSUME NEW k \in DOMAIN y.types[t][n], NEW c \in Checks(sch, t, k)
      PROVE  /\ \A i \in DOMAIN y.types[t][n][k] : y.types[t][n][k][i] \in c.valid
             /\ ~c.list => Len(y.types[t][n][k]) = 1
  <2>1. k \in KeysOf(y, t, n) /\ k \in KeysOf(r, t, n)
    BY <1>4, <1>6 DEF KeysOf
  <2>2. PICK v : v = ValuesOf(r, t, n, k)
    OBVIOUS
  <2>3. PICK w : w = ValuesOf(y, t, n, k)
    OBVIOUS
  <2>4. w = y.types[t][n][k]
    BY <1>1, <1>4, <2>1, <2>3, DbUse
  <2>5. PICK checks : checks = Checks(sch, t, k)
    OBVIOUS
  <2>6. v \in ValueLists /\ w = Kept(checks, v) /\ Bad(checks, v) = {}
    BY <1>3, <1>5, <2>1, <2>2, <2>3, <2>5
  <2>7. /\ w \in Seq(Nat) /\ w # <<>> /\ w[1] = v[1] /\ (w = v \/ Len(w) = 1)
        /\ (\E x \in checks : ~x.list) => Len(w) = 1
    BY <2>6, KeptUse
  <2>8. ~c.list => Len(w) = 1
    BY <2>5, <2>7
  <2>9. Len(v) \in Nat /\ Len(v) # 0 /\ DOMAIN v = 1..Len(v) /\ Len(w) \in Nat /\ DOMAIN w = 1..Len(w)
    BY <2>6, <2>7, LenProperties, EmptySeq DEF ValueLists
  <2>10. \A i \in DOMAIN v : (c.list \/ i = 1) => v[i] \in c.valid
    BY <2>5, <2>6 DEF Bad
  <2>11. ASSUME NEW i \in DOMAIN w PROVE w[i] \in c.valid
    <3>1. CASE Len(w) = 1
      <4>1. i = 1 /\ 1 \in DOMAIN v
        BY <2>9, <3>1
      <4> QED BY <2>7, <2>10, <4>1
    <3>2. CASE Len(w) # 1
      <4>1. c.list /\ w = v
        BY <2>7, <2>8, <3>2
      <4> QED BY <2>10, <4>1
    <3> QED BY <3>1, <3>2
  <2> QED BY <2>4, <2>8, <2>11
<1> QED BY <1>2, <1>7, <1>8

Formats == Range(ParserOrder) \cup {NoParser}
Triples == Strings \X Strings \X Strings

\* Each value of a comes first in its entry.
Wins(db, a) ==
  \A e \in DOMAIN a : /\ ValuesOf(db, e[1], e[2], e[3]) # <<>>
                      /\ First(ValuesOf(db, e[1], e[2], e[3])) = a[e]

LEMMA WinsSame ==
  ASSUME NEW db, NEW y, NEW a, Wins(db, a),
         \A t, n, k : ValuesOf(y, t, n, k) = ValuesOf(db, t, n, k)
  PROVE  Wins(y, a)
BY DEF Wins

\* Loading a file puts its values behind those that are there.
LEMMA WinsLoad ==
  ASSUME NEW r, NEW c, NEW db \in Dbs, NEW f \in Texts, NEW a, Wins(db, a),
         NEW y, y = cfg_cmd_handle_load(r, c, db, f)
  PROVE  Wins(y, a)
<1>1. y = db \/ \E src \in Dbs : y = cfg_db_copy(db, src)
  BY LoadUse
<1>2. CASE y = db
  BY <1>2
<1>3. CASE \E src \in Dbs : y = cfg_db_copy(db, src)
  <2>1. PICK src \in Dbs : y = cfg_db_copy(db, src)
    BY <1>3
  <2>2. \A t, n, k : ValuesOf(y, t, n, k) = ValuesOf(db, t, n, k) \o ValuesOf(src, t, n, k)
    BY <2>1, CopyUse
  <2>3. \A t, n, k : ValuesOf(db, t, n, k) \in Seq(Nat) /\ ValuesOf(src, t, n, k) \in Seq(Nat)
    BY DbUse
  <2>4. ASSUME NEW t, NEW n, NEW k, ValuesOf(db, t, n, k) # <<>>
        PROVE  ValuesOf(y, t, n, k) # <<>> /\ First(ValuesOf(y, t, n, k)) = First(ValuesOf(db, t, n, k))
    <3>1. PICK v \in Seq(Nat) : v = ValuesOf(db, t, n, k)
      BY <2>3
    <3>2. PICK w \in Seq(Nat) : w = ValuesOf(src, t, n, k)
      BY <2>3
    <3>3. ValuesOf(y, t, n, k) = v \o w
      BY <2>2, <3>1, <3>2
    <3> QED BY <2>4, <3>1, <3>3, Concat DEF First
  <2> QED BY <2>4 DEF Wins
<1> QED BY <1>1, <1>2, <1>3

\* A value that is set comes first, whatever came before.
LEMMA WinsSet ==
  ASSUME NEW db \in Dbs, NEW a, DOMAIN a \subseteq Triples, Wins(db, a),
         NEW t \in Strings, NEW n \in Strings, NEW k \in Strings, NEW v \in Nat,
         NEW y, y = cfg_db_add_entry(db, t, n, k, v),
         NEW b, b = Put(a, <<t, n, k>>, v)
  PROVE  Wins(y, b) /\ DOMAIN b \subseteq Triples
<1>1. /\ ValuesOf(y, t, n, k) # <<>> /\ First(ValuesOf(y, t, n, k)) = v
      /\ \A u, m, j : u # t \/ m # n \/ j # k => ValuesOf(y, u, m, j) = ValuesOf(db, u, m, j)
  BY SetEntryUse
<1>2. DOMAIN b = DOMAIN a \cup {<<t, n, k>>} /\ b[<<t, n, k>>] = v
      /\ \A e \in DOMAIN a : e # <<t, n, k>> => b[e] = a[e]
  BY DEF Put
<1>3. DOMAIN b \subseteq Triples
  BY <1>2 DEF Triples
<1>5. ASSUME NEW e \in DOMAIN b
      PROVE  ValuesOf(y, e[1], e[2], e[3]) # <<>> /\ First(ValuesOf(y, e[1], e[2], e[3])) = b[e]
  <2>1. CASE e = <<t, n, k>>
    BY <1>1, <1>2, <2>1
  <2>2. CASE e # <<t, n, k>>
    <3>1. e \in DOMAIN a /\ b[e] = a[e] /\ e \in Triples
      BY <1>2, <1>3, <2>2
    <3>2. e[1] # t \/ e[2] # n \/ e[3] # k
      BY <2>2, <3>1 DEF Triples
    <3>3. ValuesOf(y, e[1], e[2], e[3]) = ValuesOf(db, e[1], e[2], e[3])
      BY <1>1, <3>2
    <3> QED BY <3>1, <3>3 DEF Wins
  <2> QED BY <2>1, <2>2
<1> QED BY <1>3, <1>5 DEF Wins

\* What a commit accepts keeps its first value, also when the rest is cleaned up.
LEMMA WinsNewWork ==
  ASSUME NEW sch, NEW r \in Dbs, Validated(sch, r), NEW a, Wins(r, a),
         NEW y, y = NewWork(sch, r), NEW b, b = KnownAsked(a, sch)
  PROVE  Wins(y, b) /\ DOMAIN b \subseteq DOMAIN a
<1>1. /\ y \in Dbs
      /\ \A t : Names(y, t) = {m \in Names(r, t) : OfType(sch, t) # {} /\ ~ BadName(sch, t, m)}
      /\ \A t : \A n \in Names(y, t) : \A k :
           ValuesOf(y, t, n, k) = IF k \in KeysOf(r, t, n)
                                  THEN Kept(Checks(sch, t, k), ValuesOf(r, t, n, k)) ELSE <<>>
  BY NewWorkUse
<1>2. ASSUME NEW t, NEW n, NEW k, OfType(sch, t) # {}, ValuesOf(r, t, n, k) # <<>>
      PROVE  ValuesOf(y, t, n, k) # <<>> /\ First(ValuesOf(y, t, n, k)) = First(ValuesOf(r, t, n, k))
  <2>1. cfg_db_find_entry(r, t, n, k)
    BY <1>2 DEF ValuesOf
  <2>2. n \in Names(r, t)
    BY <2>1 DEF cfg_db_find_entry, cfg_db_find_namedsection
  <2>3. k \in KeysOf(r, t, n)
    BY <2>1, DbUse
  <2>4. ~ BadName(sch, t, n) /\ Bad(Checks(sch, t, k), ValuesOf(r, t, n, k)) = {}
    BY <1>2, <2>2, <2>3 DEF Validated
  <2>5. n \in Names(y, t)
    BY <1>1, <1>2, <2>2, <2>4
  <2>6. ValuesOf(y, t, n, k) = Kept(Checks(sch, t, k), ValuesOf(r, t, n, k))
    BY <1>1, <2>3, <2>5
  <2>7. ValuesOf(r, t, n, k) \in ValueLists
    <3>1. ValuesOf(r, t, n, k) \in Seq(Nat)
      BY DbUse
    <3> QED BY <1>2, <3>1 DEF ValueLists
  <2> QED BY <2>4, <2>6, <2>7, KeptUse DEF First
<1>3. DOMAIN b = {x \in DOMAIN a : OfType(sch, x[1]) # {}} /\ \A e \in DOMAIN b : b[e] = a[e]
  BY DEF KnownAsked
<1>4. ASSUME NEW e \in DOMAIN b
      PROVE  ValuesOf(y, e[1], e[2], e[3]) # <<>> /\ First(ValuesOf(y, e[1], e[2], e[3])) = b[e]
  <2>1. e \in DOMAIN a /\ OfType(sch, e[1]) # {} /\ b[e] = a[e]
    BY <1>3
  <2>2. ValuesOf(r, e[1], e[2], e[3]) # <<>> /\ First(ValuesOf(r, e[1], e[2], e[3])) = a[e]
    BY <2>1 DEF Wins
  <2> QED BY <1>2, <2>1, <2>2
<1> QED BY <1>3, <1>4 DEF Wins

CfgTypeOK ==
  /\ raw \in Dbs /\ work \in Dbs /\ file \in Texts
  /\ cmd \in [type : Strings, name : Strings, format : Formats]
  /\ DOMAIN asked \subseteq Triples /\ DOMAIN granted \subseteq Triples

\* The values asked for are first in the raw database, those granted at the last
\* commit in the work database.
CfgInv == CfgTypeOK /\ Wins(raw, asked) /\ Wins(work, granted)

LEMMA NothingWins == ASSUME NEW db PROVE Wins(db, Nothing) /\ DOMAIN Nothing \subseteq Triples
BY NothingUse DEF Wins

LEMMA FilesAreTexts == Files \subseteq Texts
<1>1. Lines \subseteq TextLines
  BY DEF Lines, TextLines, Strings
<1>2. \A s \in Seq(Lines) : s \in Seq(TextLines)
  BY <1>1, SeqMonotonic
<1> QED BY <1>2 DEF Files, Texts

LEMMA CfgInitInv == Init => CfgInv
<1> SUFFICES ASSUME Init PROVE CfgInv
  OBVIOUS
<1>1. raw = cfg_db_link_schema(cfg_db_add) /\ work = cfg_db_add
  BY DEF Init, oonf_cfg_init
<1>2. raw \in Dbs /\ work \in Dbs
  BY <1>1, AddUse, LinkUse
<1>3. cmd \in [type : Strings, name : Strings, format : Formats]
  BY DEF Init, cfg_cmd_clear_state, Strings, Formats, NoType, NoName
<1>4. file \in Texts
  <2>1. PICK s \in Scopes : file = s.file
    BY DEF Init
  <2>2. s.file \in Files
    BY OonfCfgAssumption
  <2> QED BY <2>1, <2>2, FilesAreTexts
<1>5. asked = Nothing /\ granted = Nothing
  BY DEF Init
<1> QED BY <1>2, <1>3, <1>4, <1>5, NothingWins DEF CfgInv, CfgTypeOK

LEMMA ApplyKeeps ==
  ASSUME CfgInv, NEW r \in Dbs, Wins(r, asked), NEW loaded, oonf_cfg_apply(r, asked, loaded),
         UNCHANGED <<cmd, file>>
  PROVE  CfgInv'
<1>1. CASE ApplyOk(r, loaded)
  <2> DEFINE sch == loaded.schema
             post == NewWork(sch, r)
             known == KnownAsked(asked, sch)
             dup == cfg_db_duplicate(post)
  <2>1. work' = post /\ raw' = cfg_db_link_schema(dup) /\ asked' = known /\ granted' = known
    BY <1>1 DEF oonf_cfg_apply
  <2>2. Validated(sch, r)
    BY <1>1, ApplyOkUse
  <2> HIDE DEF sch
  <2>3. post \in Dbs
    BY NewWorkUse
  <2>4. Wins(post, known) /\ DOMAIN known \subseteq DOMAIN asked
    BY <2>2, WinsNewWork
  <2> HIDE DEF post, known
  <2>5. dup \in Dbs /\ \A t, n, k : ValuesOf(dup, t, n, k) = ValuesOf(post, t, n, k)
    BY <2>3, DuplicateUse
  <2> HIDE DEF dup
  <2>6. raw' \in Dbs /\ \A t, n, k : ValuesOf(raw', t, n, k) = ValuesOf(dup, t, n, k)
    BY <2>1, <2>5, LinkUse
  <2>7. Wins(dup, known)
    BY <2>4, <2>5, WinsSame
  <2>8. Wins(raw', known)
    BY <2>6, <2>7, WinsSame
  <2>9. Wins(raw, asked)' /\ Wins(work, granted)'
    BY <2>1, <2>4, <2>8 DEF Wins
  <2> QED BY <2>1, <2>3, <2>4, <2>6, <2>9 DEF CfgInv, CfgTypeOK
<1>2. CASE ~ ApplyOk(r, loaded)
  <2>1. raw' = r /\ asked' = asked /\ work' = work /\ granted' = granted
    BY <1>2 DEF oonf_cfg_apply
  <2> QED BY <2>1 DEF CfgInv, CfgTypeOK, Wins
<1> QED BY <1>1, <1>2

LEMMA BootKeeps == CfgInv /\ Boot => CfgInv'
<1> SUFFICES ASSUME CfgInv, Boot PROVE CfgInv'
  OBVIOUS
<1>1. PICK r : r = cfg_cmd_handle_load(reg, cmd, raw, file)
  OBVIOUS
<1>2. raw \in Dbs /\ file \in Texts /\ Wins(raw, asked)
  BY DEF CfgInv, CfgTypeOK
<1>3. r \in Dbs
  BY <1>1, <1>2, LoadUse
<1>4. Wins(r, asked)
  BY <1>1, <1>2, WinsLoad
<1>5. \E loaded : oonf_cfg_apply(r, asked, loaded)
  BY <1>1 DEF Boot
<1>6. UNCHANGED <<cmd, file>>
  BY DEF Boot
<1> QED BY <1>3, <1>4, <1>5, <1>6, ApplyKeeps

LEMMA CommitKeeps == CfgInv /\ Commit => CfgInv'
<1> SUFFICES ASSUME CfgInv, Commit PROVE CfgInv'
  OBVIOUS
<1>1. raw \in Dbs /\ Wins(raw, asked)
  BY DEF CfgInv, CfgTypeOK
<1>2. \E loaded : oonf_cfg_apply(raw, asked, loaded)
  BY DEF Commit
<1>3. UNCHANGED <<cmd, file>>
  BY DEF Commit
<1> QED BY <1>1, <1>2, <1>3, ApplyKeeps

LEMMA ReloadKeeps == CfgInv /\ Reload => CfgInv'
<1> SUFFICES ASSUME CfgInv, Reload PROVE CfgInv'
  OBVIOUS
<1> DEFINE empty == cfg_db_link_schema(cfg_db_add)
<1>1. empty \in Dbs
  BY AddUse, LinkUse
<1>2. raw' = cfg_cmd_handle_load(reg, cmd, empty, file) /\ asked' = Nothing
  BY DEF Reload
<1> HIDE DEF empty
<1>3. raw' \in Dbs
  BY <1>1, <1>2, LoadUse DEF CfgInv, CfgTypeOK
<1>4. UNCHANGED <<work, granted, cmd, file>>
  BY DEF Reload
<1>5. Wins(raw', Nothing) /\ DOMAIN Nothing \subseteq Triples
  BY NothingWins
<1> QED BY <1>2, <1>3, <1>4, <1>5 DEF CfgInv, CfgTypeOK, Wins

LEMMA RollbackKeeps == CfgInv /\ oonf_cfg_rollback => CfgInv'
<1> SUFFICES ASSUME CfgInv, oonf_cfg_rollback PROVE CfgInv'
  OBVIOUS
<1>1. raw' = cfg_db_duplicate(work) /\ asked' = granted /\ UNCHANGED <<work, granted, cmd, file>>
  BY DEF oonf_cfg_rollback, dbvars
<1>2. work \in Dbs /\ Wins(work, granted)
  BY DEF CfgInv, CfgTypeOK
<1>3. raw' \in Dbs /\ \A t, n, k : ValuesOf(raw', t, n, k) = ValuesOf(work, t, n, k)
  BY <1>1, <1>2, DuplicateUse
<1>4. Wins(raw', granted)
  BY <1>2, <1>3, WinsSame
<1> QED BY <1>1, <1>2, <1>3, <1>4 DEF CfgInv, CfgTypeOK, Wins

\* The section an argument is about.
LEMMA ParseArgUse ==
  ASSUME CfgInv, NEW arg \in Args, NEW c, c = do_parse_arg(cmd, arg)
  PROVE  c \in [type : Strings, name : Strings, format : Formats]
<1>1. cmd \in [type : Strings, name : Strings, format : Formats]
  BY DEF CfgInv, CfgTypeOK
<1>2. arg.type \in Strings /\ arg.name \in Strings
  BY OonfCfgAssumption DEF Strings
<1> QED BY <1>1, <1>2 DEF do_parse_arg

LEMMA SetKeeps == ASSUME CfgInv, NEW arg \in Args, SetCommand(arg) PROVE CfgInv'
<1>1. PICK c : c = do_parse_arg(cmd, arg)
  OBVIOUS
<1>2. c \in [type : Strings, name : Strings, format : Formats]
  BY <1>1, ParseArgUse
<1>3. arg.key \in Strings /\ arg.value \in Nat
  BY OonfCfgAssumption DEF Strings
<1>4. /\ raw \in Dbs /\ work \in Dbs /\ file \in Texts /\ DOMAIN asked \subseteq Triples
      /\ DOMAIN granted \subseteq Triples /\ Wins(raw, asked) /\ Wins(work, granted)
  BY DEF CfgInv, CfgTypeOK
<1>5. cmd' = c /\ UNCHANGED <<work, granted, file>>
  BY <1>1 DEF SetCommand, Step, dbvars
<1>6. raw' \in Dbs /\ DOMAIN asked' \subseteq Triples /\ Wins(raw', asked')
  <2>1. CASE arg.value # NoValue
    <3>1. raw' = cfg_db_add_entry(raw, c.type, c.name, arg.key, arg.value)
      BY <1>1, <2>1 DEF SetCommand, cfg_cmd_handle_set, cfg_db_add_entry
    <3>2. asked' = Put(asked, <<c.type, c.name, arg.key>>, arg.value)
      BY <1>1, <2>1 DEF SetCommand, Target
    <3>3. raw' \in Dbs
      BY <1>2, <1>3, <1>4, <3>1, SetEntryUse
    <3>4. Wins(raw', asked') /\ DOMAIN asked' \subseteq Triples
      BY <1>2, <1>3, <1>4, <3>1, <3>2, WinsSet
    <3> QED BY <3>3, <3>4
  <2>2. CASE arg.value = NoValue
    <3>1. asked' = asked
      BY <2>2 DEF SetCommand
    <3>2. CASE arg.key # NoKey
      <4>1. raw' = raw
        BY <2>2, <3>2 DEF SetCommand, cfg_cmd_handle_set
      <4> QED BY <1>4, <3>1, <4>1
    <3>3. CASE arg.key = NoKey
      <4>1. raw' = cfg_db_add_section(raw, c.type, c.name)
        BY <1>1, <2>2, <3>3 DEF SetCommand, cfg_cmd_handle_set
      <4>2. raw' \in Dbs
        BY <1>2, <1>4, <4>1, AddSectionUse
      <4>3. \A u, m, k : ValuesOf(raw', u, m, k) = ValuesOf(raw, u, m, k)
        BY <1>2, <1>4, <4>1, AddSectionUse
      <4>4. Wins(raw', asked)
        BY <1>4, <4>3, WinsSame
      <4> QED BY <1>4, <3>1, <4>2, <4>4
    <3> QED BY <3>2, <3>3
  <2> QED BY <2>1, <2>2
<1> QED BY <1>2, <1>4, <1>5, <1>6 DEF CfgInv, CfgTypeOK, Wins

LEMMA RemoveKeeps == ASSUME CfgInv, NEW arg \in Args, RemoveCommand(arg) PROVE CfgInv'
<1>1. PICK c : c = do_parse_arg(cmd, arg)
  OBVIOUS
<1>2. c \in [type : Strings, name : Strings, format : Formats]
  BY <1>1, ParseArgUse
<1>3. /\ raw \in Dbs /\ work \in Dbs /\ file \in Texts /\ DOMAIN asked \subseteq Triples
      /\ DOMAIN granted \subseteq Triples /\ Wins(raw, asked) /\ Wins(work, granted)
  BY DEF CfgInv, CfgTypeOK
<1>4. cmd' = c /\ UNCHANGED <<work, granted, file>>
  BY <1>1 DEF RemoveCommand, Step, dbvars
<1>5. raw' = cfg_cmd_handle_remove(cmd, raw, arg) /\ arg.value = NoValue
  BY DEF RemoveCommand
<1>6. Remains(raw', raw)
  <2>1. CASE arg.key # NoKey
    <3>1. raw' = cfg_db_remove_entry(raw, c.type, c.name, arg.key)
      BY <1>1, <1>5, <2>1 DEF cfg_cmd_handle_remove
    <3> QED BY <1>2, <1>3, <3>1, RemoveEntryUse
  <2>2. CASE arg.key = NoKey
    <3>1. CASE c.name # NoName /\ ~cfg_db_find_namedsection(raw, c.type, c.name)
      <4>1. raw' = raw
        BY <1>1, <1>5, <2>2, <3>1 DEF cfg_cmd_handle_remove
      <4> QED BY <1>3, <4>1 DEF Remains
    <3>2. CASE ~ (c.name # NoName /\ ~cfg_db_find_namedsection(raw, c.type, c.name))
      <4>1. PICK y : y = cfg_db_remove_namedsection(raw, c.type, c.name)
        OBVIOUS
      <4>2. raw' = cfg_db_remove_sectiontype(y, c.type)
        BY <1>1, <1>5, <2>2, <3>2, <4>1 DEF cfg_cmd_handle_remove
      <4>3. Remains(y, raw)
        BY <1>3, <4>1, RemoveNamedUse
      <4>4. Remains(raw', y)
        BY <4>2, <4>3, RemoveTypeUse DEF Remains
      <4> QED BY <4>3, <4>4 DEF Remains
    <3> QED BY <3>1, <3>2
  <2> QED BY <2>1, <2>2
<1>7. raw' \in Dbs
  BY <1>6 DEF Remains
<1>8. DOMAIN asked' = {x \in DOMAIN asked : cfg_db_find_entry(raw', x[1], x[2], x[3])}
      /\ \A e \in DOMAIN asked' : asked'[e] = asked[e]
  BY DEF RemoveCommand
<1>9. ASSUME NEW e \in DOMAIN asked'
      PROVE  /\ ValuesOf(raw', e[1], e[2], e[3]) # <<>>
             /\ First(ValuesOf(raw', e[1], e[2], e[3])) = asked'[e]
  <2>1. e \in DOMAIN asked /\ cfg_db_find_entry(raw', e[1], e[2], e[3]) /\ asked'[e] = asked[e]
    BY <1>8
  <2>2. ValuesOf(raw', e[1], e[2], e[3]) # <<>>
    BY <1>7, <2>1, DbUse
  <2>3. ValuesOf(raw', e[1], e[2], e[3]) = ValuesOf(raw, e[1], e[2], e[3])
    BY <1>6, <2>2 DEF Remains
  <2> QED BY <1>3, <2>1, <2>2, <2>3 DEF Wins
<1>10. Wins(raw', asked') /\ DOMAIN asked' \subseteq Triples
  BY <1>3, <1>8, <1>9 DEF Wins
<1> QED BY <1>2, <1>3, <1>4, <1>7, <1>10 DEF CfgInv, CfgTypeOK, Wins

LEMMA GetKeeps == ASSUME CfgInv, NEW arg \in Args, GetCommand(arg) PROVE CfgInv'
<1>1. cmd' = do_parse_arg(cmd, arg) /\ UNCHANGED <<raw, asked, work, granted, file>>
  BY DEF GetCommand, Step, dbvars, cfg_cmd_handle_get
<1>2. cmd' \in [type : Strings, name : Strings, format : Formats]
  BY <1>1, ParseArgUse
<1> QED BY <1>1, <1>2 DEF CfgInv, CfgTypeOK, Wins

LEMMA LoadKeeps == CfgInv /\ LoadCommand => CfgInv'
<1> SUFFICES ASSUME CfgInv, LoadCommand PROVE CfgInv'
  OBVIOUS
<1>1. raw' = cfg_cmd_handle_load(reg, cmd, raw, file) /\ UNCHANGED <<asked, cmd, work, granted, file>>
  BY DEF LoadCommand, Step, dbvars
<1>2. raw \in Dbs /\ file \in Texts /\ Wins(raw, asked)
  BY DEF CfgInv, CfgTypeOK
<1>3. raw' \in Dbs
  BY <1>1, <1>2, LoadUse
<1>4. Wins(raw', asked)
  BY <1>1, <1>2, WinsLoad
<1> QED BY <1>1, <1>3, <1>4 DEF CfgInv, CfgTypeOK, Wins

LEMMA SaveKeeps == CfgInv /\ SaveCommand => CfgInv'
<1> SUFFICES ASSUME CfgInv, SaveCommand PROVE CfgInv'
  OBVIOUS
<1>1. file' = cfg_io_save(reg, cmd.format, raw, file) /\ UNCHANGED <<raw, asked, cmd, work, granted>>
  BY DEF SaveCommand, Step, dbvars, cfg_cmd_handle_save
<1>2. raw \in Dbs /\ file \in Texts
  BY DEF CfgInv, CfgTypeOK
<1>3. cb_compact_serialize(raw) \in Seq(TextLines)
  BY <1>2, SerializeType
<1>4. file' = file \/ file' = [text |-> cb_compact_serialize(raw)]
  BY <1>1 DEF cfg_io_save
<1>5. file' \in Texts
  BY <1>2, <1>3, <1>4 DEF Texts
<1> QED BY <1>1, <1>5 DEF CfgInv, CfgTypeOK, Wins

LEMMA FormatKeeps == ASSUME CfgInv, NEW f \in Formats, FormatCommand(f) PROVE CfgInv'
<1>1. cmd' = [cmd EXCEPT !.format = f] /\ UNCHANGED <<raw, asked, work, granted, file>>
  BY DEF FormatCommand, Step, dbvars, cfg_cmd_handle_format
<1>2. cmd' \in [type : Strings, name : Strings, format : Formats]
  BY <1>1 DEF CfgInv, CfgTypeOK
<1> QED BY <1>1, <1>2 DEF CfgInv, CfgTypeOK, Wins

LEMMA OthersKeep ==
  ASSUME CfgInv, UNCHANGED <<raw, asked, work, granted, cmd, file>> PROVE CfgInv'
BY DEF CfgInv, CfgTypeOK, Wins

LEMMA CfgNextKeeps == CfgInv /\ [Next]_vars => CfgInv'
<1> SUFFICES ASSUME CfgInv, [Next]_vars PROVE CfgInv'
  OBVIOUS
<1>1. CASE UNCHANGED vars
  BY <1>1, OthersKeep DEF vars
<1>2. ASSUME NEW arg \in InScope, SetCommand(arg) \/ RemoveCommand(arg) \/ GetCommand(arg)
      PROVE  CfgInv'
  BY <1>2, SetKeeps, RemoveKeeps, GetKeeps DEF InScope
<1>3. ASSUME NEW f \in Range(ParserOrder) \cup {NoParser}, FormatCommand(f) PROVE CfgInv'
  BY <1>3, FormatKeeps DEF Formats
<1>4. CASE CommitCommand \/ (\E p \in Installed : PluginCommand(p))
           \/ (\E p \in Range(ParserOrder) : ChangeParsers(p))
  BY <1>4, OthersKeep DEF CommitCommand, PluginCommand, ChangeParsers, Step, dbvars
<1> QED BY <1>1, <1>2, <1>3, <1>4, BootKeeps, CommitKeeps, ReloadKeeps, RollbackKeeps, LoadKeeps,
           SaveKeeps DEF Next

\* The inductive invariant of the configuration.
THEOREM CfgInvariant == Spec => []CfgInv
<1>1. Init => CfgInv
  BY CfgInitInv
<1>2. CfgInv /\ [Next]_vars => CfgInv'
  BY CfgNextKeeps
<1> QED BY <1>1, <1>2, PTL DEF Spec

\* The value set last comes first in its entry, for any schema, arguments and
\* files, through loads, failed commits, commits that clean up and rollbacks
\* (cfg_cmd_handle_set, _cfg_db_append, _validate_cfg_entry).
THEOREM LastSet == Spec => []LastSetWins
<1>1. ASSUME NEW db \in Dbs, NEW t, NEW n, NEW k, ValuesOf(db, t, n, k) # <<>>
      PROVE  /\ cfg_db_find_entry(db, t, n, k)
             /\ Head(db.types[t][n][k]) = First(ValuesOf(db, t, n, k))
  <2>1. cfg_db_find_entry(db, t, n, k)
    BY <1>1 DEF ValuesOf
  <2>2. PICK v \in Seq(Nat) : v = ValuesOf(db, t, n, k)
    BY DbUse
  <2>3. v = db.types[t][n][k]
    BY <2>1, <2>2 DEF ValuesOf
  <2>4. Head(v) = v[1]
    BY <1>1, <2>2, HeadTailProperties
  <2> QED BY <2>1, <2>2, <2>3, <2>4 DEF First
<1>2. CfgInv => LastSetWins
  <2> SUFFICES ASSUME CfgInv PROVE LastSetWins
    OBVIOUS
  <2>1. raw \in Dbs /\ work \in Dbs /\ Wins(raw, asked) /\ Wins(work, granted)
    BY DEF CfgInv, CfgTypeOK
  <2> QED BY <1>1, <2>1 DEF LastSetWins, Wins
<1> QED BY <1>2, CfgInvariant, PTL

\* A step that changes neither flag applies nothing.
LEMMA ApplyIsClean ==
  ASSUME NEW r \in Dbs, NEW loaded, oonf_cfg_apply(r, asked, loaded), Applied
  PROVE  Clean(schema', work')
<1>1. ApplyOk(r, loaded)
  BY DEF oonf_cfg_apply, Applied
<1>2. Validated(loaded.schema, r)
  BY <1>1, ApplyOkUse
<1>3. schema' = loaded.schema /\ work' = NewWork(loaded.schema, r)
  BY <1>1 DEF oonf_cfg_apply
<1> QED BY <1>2, <1>3, NewWorkIsClean

\* What a commit puts into the work database is what the schema allows, whatever
\* is in the raw database (oonf_cfg_apply, cfg_schema_validate).
THEOREM WorkClean == Spec => WorkIsClean
<1>1. CfgInv /\ [Next]_vars => [Applied => Clean(schema', work')]_vars
  <2> SUFFICES ASSUME CfgInv, Next, Applied PROVE Clean(schema', work')
    OBVIOUS
  <2>1. raw \in Dbs /\ file \in Texts
    BY DEF CfgInv, CfgTypeOK
  <2>2. CASE Boot
    <3>1. PICK r : r = cfg_cmd_handle_load(reg, cmd, raw, file)
      OBVIOUS
    <3>2. r \in Dbs
      BY <2>1, <3>1, LoadUse
    <3>3. \E loaded : oonf_cfg_apply(r, asked, loaded)
      BY <2>2, <3>1 DEF Boot
    <3> QED BY <3>2, <3>3, ApplyIsClean
  <2>3. CASE Commit
    <3>1. \E loaded : oonf_cfg_apply(raw, asked, loaded)
      BY <2>3 DEF Commit
    <3> QED BY <2>1, <3>1, ApplyIsClean
  <2>4. ASSUME ~ (Boot \/ Commit) PROVE ~ Applied
    <3>1. first_apply' = first_apply /\ (commit' = commit \/ commit' = TRUE)
      BY <2>4 DEF Next, Reload, oonf_cfg_rollback, SetCommand, RemoveCommand, GetCommand, LoadCommand,
           SaveCommand, CommitCommand, FormatCommand, PluginCommand, ChangeParsers, Step, dbvars
    <3> QED BY <3>1 DEF Applied
  <2> QED BY <2>2, <2>3, <2>4
<1> QED BY <1>1, CfgInvariant, PTL DEF Spec, WorkIsClean
-----------------------------------------------------------------------------
(* The parsers. *)

\* Only finitely many parsers are registered, all of them known in advance.
ParserInv == IsFiniteSet(reg.known) /\ reg.known \subseteq Range(ParserOrder) /\ DefaultIsRegistered

\* The first parser in the order of the tree.
LEMMA FirstOfUse ==
  ASSUME NEW known, known \subseteq Range(ParserOrder), known # {}
  PROVE  FirstOf(known) \in known
<1> DEFINE places == {i \in DOMAIN ParserOrder : ParserOrder[i] \in known}
           P(i) == ParserOrder[i] \in known /\ \A j \in 1 .. i - 1 : ParserOrder[j] \notin known
<1>1. ParserOrder \in Seq(STRING)
  BY CfgCmdAssumption
<1>2. DOMAIN ParserOrder = 1..Len(ParserOrder) /\ Len(ParserOrder) \in Nat
  BY <1>1, LenProperties
<1>3. places \subseteq Nat /\ places # {}
  <2>1. PICK x \in known : TRUE
    OBVIOUS
  <2>2. PICK i \in DOMAIN ParserOrder : ParserOrder[i] = x
    BY <2>1 DEF Range
  <2> QED BY <1>2, <2>1, <2>2
<1>4. PICK i \in places : \A j \in places : i <= j
  <2> HIDE DEF places
  <2> QED BY <1>3, LeastElement
<1>5. i \in DOMAIN ParserOrder /\ P(i)
  <2>1. \A j \in 1 .. i - 1 : j \in DOMAIN ParserOrder /\ ~ (i <= j)
    BY <1>2, <1>4
  <2> QED BY <1>4, <2>1
<1>6. FirstOf(known) = ParserOrder[CHOOSE j \in DOMAIN ParserOrder : P(j)]
  BY DEF FirstOf
<1> QED BY <1>5, <1>6

LEMMA ParserAddKeeps ==
  ASSUME ParserInv, NEW p \in Range(ParserOrder), reg' = cfg_parser_add(reg, p)
  PROVE  ParserInv'
<1> DEFINE known == reg.known \cup {p}
<1>1. /\ IsFiniteSet(reg.known) /\ reg.known \subseteq Range(ParserOrder)
      /\ reg.known # {} => reg.default \in reg.known
      /\ reg.known \cap DefParsers # {} => reg.default \in DefParsers
  BY DEF ParserInv, DefaultIsRegistered
<1>2. IsFiniteSet(known)
  BY <1>1, FS_AddElement
<1>3. reg'.known = known
      /\ reg'.default = IF p \in DefParsers \/ Cardinality(known) = 1 THEN p ELSE reg.default
  BY DEF cfg_parser_add
<1>4. p \in known
  OBVIOUS
<1>5. CASE p \in DefParsers
  BY <1>1, <1>2, <1>3, <1>5 DEF ParserInv, DefaultIsRegistered
<1>6. CASE p \notin DefParsers /\ Cardinality(known) = 1
  <2>1. known = {p}
    <3> HIDE DEF known
    <3> QED BY <1>2, <1>4, <1>6, FS_Singleton
  <2> QED BY <1>1, <1>2, <1>3, <1>6, <2>1 DEF ParserInv, DefaultIsRegistered
<1>7. CASE p \notin DefParsers /\ Cardinality(known) # 1
  <2>1. reg.known # {}
    <3>1. Cardinality({p}) = 1
      BY FS_Singleton
    <3> QED BY <1>7, <3>1
  <2> QED BY <1>1, <1>2, <1>3, <1>7, <2>1 DEF ParserInv, DefaultIsRegistered
<1> QED BY <1>5, <1>6, <1>7

LEMMA ParserRemoveKeeps ==
  ASSUME ParserInv, NEW p \in reg.known, reg' = cfg_parser_remove(reg, p)
  PROVE  ParserInv'
<1> DEFINE known == reg.known \ {p}
           flagged == known \cap DefParsers
<1>1. /\ IsFiniteSet(reg.known) /\ reg.known \subseteq Range(ParserOrder)
      /\ reg.default \in reg.known
      /\ reg.known \cap DefParsers # {} => reg.default \in DefParsers
  BY DEF ParserInv, DefaultIsRegistered
<1>2. IsFiniteSet(known) /\ known \subseteq Range(ParserOrder) /\ flagged \subseteq Range(ParserOrder)
  BY <1>1, FS_RemoveElement
<1>3. reg'.known = known
      /\ reg'.default = IF p \notin reg.known \/ reg.default # p THEN reg.default
                        ELSE IF flagged # {} THEN FirstOf(flagged) ELSE FirstOf(known)
  BY DEF cfg_parser_remove
<1>4. CASE reg.default # p
  BY <1>1, <1>2, <1>3, <1>4 DEF ParserInv, DefaultIsRegistered
<1>5. CASE reg.default = p /\ flagged # {}
  <2>1. FirstOf(flagged) \in flagged
    BY <1>2, <1>5, FirstOfUse
  <2> QED BY <1>2, <1>3, <1>5, <2>1 DEF ParserInv, DefaultIsRegistered
<1>6. CASE reg.default = p /\ flagged = {} /\ known # {}
  <2>1. FirstOf(known) \in known
    BY <1>2, <1>6, FirstOfUse
  <2> QED BY <1>2, <1>3, <1>6, <2>1 DEF ParserInv, DefaultIsRegistered
<1>7. CASE reg.default = p /\ known = {}
  <2>1. FirstOf(known) = NoParser
    BY <1>7 DEF FirstOf
  <2> QED BY <1>2, <1>3, <1>7, <2>1 DEF ParserInv, DefaultIsRegistered
<1> QED BY <1>4, <1>5, <1>6, <1>7

\* As long as there is a parser one of them is the default, and a flagged one if
\* there is such a one, whatever comes and goes (cfg_parser_add, cfg_parser_remove).
THEOREM DefaultRegistered == Spec => []DefaultIsRegistered
<1>1. Init => ParserInv
  <2> SUFFICES ASSUME Init PROVE ParserInv
    OBVIOUS
  <2>1. reg = cfg_parser_add(cfg_add, "compact")
    BY DEF Init
  <2>2. reg.known = {"compact"}
    BY <2>1 DEF cfg_parser_add, cfg_add
  <2>3. Cardinality(reg.known) = 1 /\ IsFiniteSet(reg.known)
    BY <2>2, FS_Singleton
  <2>4. reg.default = "compact"
    BY <2>1, <2>2, <2>3 DEF cfg_parser_add, cfg_add
  <2> QED BY <2>2, <2>3, <2>4, CfgCmdAssumption DEF ParserInv, DefaultIsRegistered
<1>2. ParserInv /\ [Next]_vars => ParserInv'
  <2> SUFFICES ASSUME ParserInv, [Next]_vars PROVE ParserInv'
    OBVIOUS
  <2>1. ASSUME NEW p \in Range(ParserOrder), ChangeParsers(p) PROVE ParserInv'
    <3>1. CASE p \in reg.known
      BY <2>1, <3>1, ParserRemoveKeeps DEF ChangeParsers
    <3>2. CASE p \notin reg.known
      BY <2>1, <3>2, ParserAddKeeps DEF ChangeParsers
    <3> QED BY <3>1, <3>2
  <2>2. CASE reg' = reg
    BY <2>2 DEF ParserInv, DefaultIsRegistered
  <2>3. (\E p \in Range(ParserOrder) : ChangeParsers(p)) \/ reg' = reg
    BY DEF Next, vars, Boot, Commit, Reload, oonf_cfg_rollback, SetCommand, RemoveCommand, GetCommand,
         LoadCommand, SaveCommand, CommitCommand, FormatCommand, PluginCommand
  <2> QED BY <2>1, <2>2, <2>3
<1>3. ParserInv => DefaultIsRegistered
  BY DEF ParserInv
<1> QED BY <1>1, <1>2, <1>3, PTL DEF Spec

-----------------------------------------------------------------------------
(* The delta handlers. *)

Unnamed(s) == Sections[s].mode \in UnnamedModes
TypeOf(s) == Sections[s].type
NamesOf(pre, post, s) == Names(pre, TypeOf(s)) \cup Names(post, TypeOf(s))

\* Whom a change of the database calls (_handle_db_changes).
LEMMA CallsUse ==
  ASSUME NEW sch, NEW pre, NEW post, NEW startup \in BOOLEAN
  PROVE  \A p : p \in handle_db_changes(sch, pre, post, startup) <=>
           \E s \in sch : \E n : /\ p = <<s, n>> /\ Sections[s].handler
                                 /\ n \in handle_named_section_change(sch, pre, post, s, startup)
BY DEF handle_db_changes

\* For which sections the handler of s is called: only for those that are or were
\* there, and for the default and the unnamed one; certainly for those that are or
\* were there and changed, at startup for all of them and for a missing unnamed one.
LEMMA CalledNames ==
  ASSUME NEW sch, NEW pre, NEW post, NEW startup \in BOOLEAN, NEW s,
         Sections[s].mode \in UnnamedModes \cup NamedModes
  PROVE  /\ \A n \in handle_named_section_change(sch, pre, post, s, startup) :
              /\ n = NoName => Unnamed(s)
              /\ Unnamed(s) => n \in NamesOf(pre, post, s) \cup {NoName}
         /\ \A n \in NamesOf(pre, post, s) :
              /\ Unnamed(s) \/ n # NoName
              /\ startup \/ ValuesDiffer(sch, pre, post, s, n)
              => n \in handle_named_section_change(sch, pre, post, s, startup)
         /\ /\ startup /\ Sections[s].mode = "unnamed"
            /\ ~ Has(pre.types, TypeOf(s)) /\ ~ Has(post.types, TypeOf(s))
            => NoName \in handle_named_section_change(sch, pre, post, s, startup)
<1> DEFINE forced == Forced(pre, post, s, startup)
<1>1. /\ NoName \in forced => Unnamed(s) \/ Sections[s].mode = "named_with_default"
      /\ Unnamed(s) => forced \subseteq {NoName}
  BY DEF Forced, Unnamed, UnnamedModes
<1>2. /\ startup /\ Sections[s].mode = "unnamed"
      /\ ~ Has(pre.types, TypeOf(s)) /\ ~ Has(post.types, TypeOf(s))
      => NoName \in forced
  BY DEF Forced, TypeOf
<1>3. \A n : n \in handle_named_section_change(sch, pre, post, s, startup) <=>
        /\ n \in NamesOf(pre, post, s) \cup forced
        /\ ~(Sections[s].mode \in NamedModes /\ n = NoName)
        /\ startup \/ n \in forced \/ ValuesDiffer(sch, pre, post, s, n)
  BY DEF handle_named_section_change, NamesOf, TypeOf
<1>4. Unnamed(s) <=> ~ (Sections[s].mode \in NamedModes)
  BY DEF Unnamed, UnnamedModes, NamedModes
<1> HIDE DEF forced
<1>5. ASSUME NEW n \in handle_named_section_change(sch, pre, post, s, startup)
      PROVE  /\ n = NoName => Unnamed(s)
             /\ Unnamed(s) => n \in NamesOf(pre, post, s) \cup {NoName}
  BY <1>1, <1>3, <1>4
<1>6. ASSUME NEW n \in NamesOf(pre, post, s), Unnamed(s) \/ n # NoName,
             startup \/ ValuesDiffer(sch, pre, post, s, n)
      PROVE  n \in handle_named_section_change(sch, pre, post, s, startup)
  BY <1>3, <1>4, <1>6
<1>7. ASSUME startup, Sections[s].mode = "unnamed",
             ~ Has(pre.types, TypeOf(s)), ~ Has(post.types, TypeOf(s))
      PROVE  NoName \in handle_named_section_change(sch, pre, post, s, startup)
  <2>1. Unnamed(s)
    BY <1>7 DEF Unnamed, UnnamedModes
  <2>2. NoName \in forced
    BY <1>2, <1>7
  <2> QED BY <1>3, <1>4, <2>1, <2>2
<1> QED BY <1>5, <1>6, <1>7

-----------------------------------------------------------------------------
(* What a section effectively has. *)

Effective(db, s, n, k) ==
  IF ValuesOf(db, TypeOf(s), n, k) # <<>> THEN ValuesOf(db, TypeOf(s), n, k)
  ELSE IF ValuesOf(db, TypeOf(s), NoName, k) # <<>> THEN ValuesOf(db, TypeOf(s), NoName, k)
  ELSE Entries(s)[k].def

Bin(db, s, n) == [k \in DOMAIN Entries(s) |-> tobin(Entries(s)[k], Effective(db, s, n, k))]

\* The sections of a type agree on the defaults, so it does not matter which one
\* the database asks, and which others there are in the schema.
LEMMA DefaultUse ==
  ASSUME NEW sch \in SUBSET DOMAIN Sections, NEW s \in sch, NEW k \in DOMAIN Entries(s)
  PROVE  DefaultOf(sch, TypeOf(s), k) = Entries(s)[k].def
<1> DEFINE having == {x \in OfType(sch, TypeOf(s)) : Has(Entries(x), k)}
<1>1. s \in having
  BY DEF OfType, TypeOf, Has
<1>2. PICK r : r = CHOOSE x \in having : TRUE
  OBVIOUS
<1>3. r \in having
  BY <1>1, <1>2
<1>4. r \in DOMAIN Sections /\ Sections[s].type = Sections[r].type /\ k \in DOMAIN Entries(r)
  BY <1>3 DEF OfType, TypeOf, Has
<1>5. Entries(r)[k].def = Entries(s)[k].def
  BY <1>4, SchemaAssumption
<1>6. DefaultOf(sch, TypeOf(s), k) = Entries(r)[k].def
  BY <1>1, <1>2 DEF DefaultOf
<1> QED BY <1>5, <1>6

LEMMA EffectiveUse ==
  ASSUME NEW sch \in SUBSET DOMAIN Sections, NEW s \in sch, NEW k \in DOMAIN Entries(s),
         NEW db \in Dbs, db.linked, NEW n
  PROVE  cfg_schema_tovalue(sch, db, s, n, k) = Effective(db, s, n, k)
<1>1. DefaultOf(sch, TypeOf(s), k) = Entries(s)[k].def
  BY DefaultUse
<1>2. ASSUME NEW m PROVE cfg_db_find_entry(db, TypeOf(s), m, k) <=> ValuesOf(db, TypeOf(s), m, k) # <<>>
  BY DbUse
<1>3. /\ cfg_db_find_entry(db, TypeOf(s), n, k) <=> ValuesOf(db, TypeOf(s), n, k) # <<>>
      /\ cfg_db_find_entry(db, TypeOf(s), NoName, k) <=> ValuesOf(db, TypeOf(s), NoName, k) # <<>>
  BY <1>2
<1>4. cfg_schema_tovalue(sch, db, s, n, k)
        = cfg_db_get_entry_value(db, TypeOf(s), n, k, Entries(s)[k].def)
  BY <1>1 DEF cfg_schema_tovalue, TypeOf
<1> QED BY <1>3, <1>4 DEF cfg_db_get_entry_value, Effective

LEMMA BinUse ==
  ASSUME NEW sch \in SUBSET DOMAIN Sections, NEW s \in sch,
         NEW db \in Dbs, db.linked, NEW n
  PROVE  cfg_schema_tobin(sch, db, s, n) = Bin(db, s, n)
<1>1. \A k \in DOMAIN Entries(s) : cfg_schema_tovalue(sch, db, s, n, k) = Effective(db, s, n, k)
  BY EffectiveUse
<1> QED BY <1>1 DEF cfg_schema_tobin, Bin

\* Without a section of that name and an unnamed one there are only defaults.
LEMMA BinOfNone ==
  ASSUME NEW s, NEW db \in Dbs, NoName \notin Names(db, TypeOf(s))
  PROVE  Bin(db, s, NoName) = Defaults(s)
<1>1. \A k : ValuesOf(db, TypeOf(s), NoName, k) = <<>>
  BY DEF ValuesOf, cfg_db_find_entry, cfg_db_find_namedsection
<1>2. \A k : Effective(db, s, NoName, k) = Entries(s)[k].def
  BY <1>1 DEF Effective
<1> QED BY <1>2 DEF Bin, Defaults

LEMMA BinSame ==
  ASSUME NEW sch \in SUBSET DOMAIN Sections, NEW s \in sch, NEW n,
         NEW pre \in Dbs, pre.linked, NEW post \in Dbs, post.linked,
         ~ ValuesDiffer(sch, pre, post, s, n)
  PROVE  Bin(pre, s, n) = Bin(post, s, n)
<1>1. \A k \in DOMAIN Entries(s) : /\ cfg_schema_tovalue(sch, pre, s, n, k) = Effective(pre, s, n, k)
                                   /\ cfg_schema_tovalue(sch, post, s, n, k) = Effective(post, s, n, k)
  BY EffectiveUse
<1>2. \A k \in DOMAIN Entries(s) : Effective(pre, s, n, k) = Effective(post, s, n, k)
  BY <1>1 DEF ValuesDiffer
<1> QED BY <1>2 DEF Bin

\* After a commit the work database has no names where the schema has none, and
\* no type without sections.
NoBadNames(db) == \A s \in DOMAIN Sections : Unnamed(s) => Names(db, TypeOf(s)) \subseteq {NoName}

LEMMA NewWorkNames ==
  ASSUME NEW sch \in SUBSET DOMAIN Sections, NEW r \in Dbs, NEW y, y = NewWork(sch, r)
  PROVE  /\ y.linked /\ NoBadNames(y)
         /\ \A t : Has(y.types, t) => Names(y, t) # {}
<1>1. PICK d : d = cfg_db_duplicate(r)
  OBVIOUS
<1>2. PICK l : l = cfg_db_link_schema(d)
  OBVIOUS
<1>3. y = Cleaned(sch, l)
  BY <1>1, <1>2 DEF NewWork
<1>4. d \in Dbs
  BY <1>1, DuplicateUse
<1>5. l \in Dbs /\ l.linked
  BY <1>2, <1>4, LinkUse
<1>6. y.linked
  BY <1>3, <1>5 DEF Cleaned, Dbs
<1>7. \A t : Names(y, t) = {m \in Names(r, t) : OfType(sch, t) # {} /\ ~ BadName(sch, t, m)}
  BY NewWorkUse
<1>8. ASSUME NEW s \in DOMAIN Sections, Unnamed(s), NEW n \in Names(y, TypeOf(s))
      PROVE  n = NoName
  <2>1. PICK x : x \in OfType(sch, TypeOf(s))
    BY <1>7
  <2>2. x \in DOMAIN Sections /\ Sections[x].type = Sections[s].type
    BY <2>1 DEF OfType, TypeOf
  <2>3. Sections[x].mode \in UnnamedModes
    BY <1>8, <2>2, SchemaAssumption DEF Unnamed
  <2>4. ~ BadName(sch, TypeOf(s), n)
    BY <1>7, <1>8
  <2> QED BY <2>1, <2>3, <2>4 DEF BadName
<1>9. ASSUME NEW t, Has(y.types, t) PROVE Names(y, t) # {}
  <2> DEFINE clean(u) == [n \in {m \in Names(l, u) : ~BadName(sch, u, m)} |->
                            CleanEntries(sch, u, l.types[u][n])]
             known == {u \in DOMAIN l.types : OfType(sch, u) # {} /\ DOMAIN clean(u) # {}}
  <2>1. y.types = [u \in known |-> clean(u)]
    BY <1>3, <1>5 DEF Cleaned, Dbs
  <2> HIDE DEF clean
  <2>2. t \in known /\ y.types[t] = clean(t)
    BY <1>9, <2>1 DEF Has
  <2> QED BY <1>9, <2>2 DEF Names
<1> QED BY <1>6, <1>8, <1>9 DEF NoBadNames

\* What the handlers of the schema have heard, view, is what the database db has,
\* and an unnamed section of the core they have not heard of has only defaults.
Heard(view, db, sch) ==
  \A p \in DOMAIN view :
    /\ p = <<p[1], p[2]>> /\ p[1] \in sch /\ Sections[p[1]].handler
    /\ Unnamed(p[1]) <=> p[2] = NoName
    /\ view[p] = Bin(db, p[1], p[2])

Unheard(view, db) ==
  \A s \in Core : Sections[s].handler /\ Unnamed(s) /\ <<s, NoName>> \notin DOMAIN view
    => Sections[s].mode = "unnamed_optional" /\ Bin(db, s, NoName) = Defaults(s)

LEMMA ToldUse ==
  ASSUME NEW view, NEW sch, NEW calls, NEW post, NEW y, y = Told(view, sch, calls, post)
  PROVE  /\ \A p : p \in DOMAIN y <=> /\ p \in DOMAIN view \cup calls
                                      /\ Unnamed(p[1]) \/ p[2] \in Names(post, TypeOf(p[1]))
         /\ \A p \in DOMAIN y : p \notin calls => y[p] = view[p]
         /\ \A p \in DOMAIN y : p \in calls =>
              y[p] = IF HasPost(post, p[1], p[2])
                     THEN cfg_schema_tobin(sch, post, p[1], p[2]) ELSE Defaults(p[1])
BY DEF Told, Unnamed, TypeOf

\* A call of a handler tells it what the new database has.
LEMMA CallTells ==
  ASSUME NEW sch \in SUBSET DOMAIN Sections, NEW pre \in Dbs, NoBadNames(pre),
         NEW post \in Dbs, post.linked, NoBadNames(post),
         NEW startup \in BOOLEAN, NEW s \in sch,
         NEW n \in handle_named_section_change(sch, pre, post, s, startup),
         Unnamed(s) \/ n \in Names(post, TypeOf(s))
  PROVE  /\ Unnamed(s) <=> n = NoName
         /\ (IF HasPost(post, s, n) THEN cfg_schema_tobin(sch, post, s, n) ELSE Defaults(s))
              = Bin(post, s, n)
<1>1. Sections[s].mode \in UnnamedModes \cup NamedModes
  BY SchemaAssumption
<1>2. /\ n = NoName => Unnamed(s)
      /\ Unnamed(s) => n \in NamesOf(pre, post, s) \cup {NoName}
  BY <1>1, CalledNames
<1>3. Unnamed(s) <=> n = NoName
  BY <1>2 DEF NamesOf, NoBadNames
<1>4. cfg_schema_tobin(sch, post, s, n) = Bin(post, s, n)
  BY BinUse
<1>5. CASE HasPost(post, s, n)
  BY <1>3, <1>4, <1>5
<1>6. CASE ~ HasPost(post, s, n)
  <2>1. n \notin Names(post, TypeOf(s))
    BY <1>6 DEF HasPost, cfg_db_find_namedsection, TypeOf
  <2>2. n = NoName
    BY <1>3, <2>1
  <2>3. Bin(post, s, NoName) = Defaults(s)
    BY <2>1, <2>2, BinOfNone
  <2> QED BY <1>3, <1>6, <2>2, <2>3
<1> QED BY <1>5, <1>6

\* A handler that is not called misses nothing.
LEMMA NoCallNoNews ==
  ASSUME NEW sch \in SUBSET DOMAIN Sections,
         NEW pre \in Dbs, pre.linked, NEW post \in Dbs, post.linked,
         NEW startup \in BOOLEAN, NEW s \in sch, NEW n,
         n \notin handle_named_section_change(sch, pre, post, s, startup),
         Unnamed(s) <=> n = NoName, Unnamed(s) \/ n \in Names(post, TypeOf(s))
  PROVE  Bin(pre, s, n) = Bin(post, s, n)
<1>1. Sections[s].mode \in UnnamedModes \cup NamedModes
  BY SchemaAssumption
<1>2. CASE n \in NamesOf(pre, post, s)
  <2>1. ~ ValuesDiffer(sch, pre, post, s, n)
    BY <1>1, <1>2, CalledNames
  <2> QED BY <2>1, BinSame
<1>3. CASE n \notin NamesOf(pre, post, s)
  <2>1. n = NoName /\ NoName \notin Names(pre, TypeOf(s)) /\ NoName \notin Names(post, TypeOf(s))
    BY <1>3 DEF NamesOf
  <2>2. Bin(pre, s, NoName) = Defaults(s) /\ Bin(post, s, NoName) = Defaults(s)
    BY <2>1, BinOfNone
  <2> QED BY <2>1, <2>2
<1> QED BY <1>2, <1>3

LEMMA TellsHeard ==
  ASSUME NEW sch \in SUBSET DOMAIN Sections, NEW view,
         NEW pre \in Dbs, pre.linked, NoBadNames(pre),
         NEW post \in Dbs, post.linked, NoBadNames(post),
         NEW startup \in BOOLEAN, Heard(view, pre, sch),
         NEW calls, calls = handle_db_changes(sch, pre, post, startup),
         NEW y, y = Told(view, sch, calls, post)
  PROVE  Heard(y, post, sch)
<1> SUFFICES ASSUME NEW p \in DOMAIN y
             PROVE  /\ p = <<p[1], p[2]>> /\ p[1] \in sch /\ Sections[p[1]].handler
                    /\ Unnamed(p[1]) <=> p[2] = NoName
                    /\ y[p] = Bin(post, p[1], p[2])
  BY DEF Heard
<1>1. /\ p \in DOMAIN view \cup calls
      /\ Unnamed(p[1]) \/ p[2] \in Names(post, TypeOf(p[1]))
      /\ p \notin calls => y[p] = view[p]
      /\ p \in calls => y[p] = IF HasPost(post, p[1], p[2])
                               THEN cfg_schema_tobin(sch, post, p[1], p[2]) ELSE Defaults(p[1])
  BY ToldUse
<1>2. CASE p \in calls
  <2> PICK s \in sch : \E n : /\ p = <<s, n>> /\ Sections[s].handler
                              /\ n \in handle_named_section_change(sch, pre, post, s, startup)
    BY <1>2, CallsUse
  <2>1. PICK n : /\ p = <<s, n>> /\ Sections[s].handler
                 /\ n \in handle_named_section_change(sch, pre, post, s, startup)
    OBVIOUS
  <2>2. p[1] = s /\ p[2] = n
    BY <2>1
  <2>3. Unnamed(s) \/ n \in Names(post, TypeOf(s))
    BY <1>1, <2>2
  <2>4. /\ Unnamed(s) <=> n = NoName
        /\ (IF HasPost(post, s, n) THEN cfg_schema_tobin(sch, post, s, n) ELSE Defaults(s))
             = Bin(post, s, n)
    BY <2>1, <2>3, CallTells
  <2>5. y[p] = IF HasPost(post, s, n) THEN cfg_schema_tobin(sch, post, s, n) ELSE Defaults(s)
    BY <1>1, <1>2, <2>2
  <2>6. y[p] = Bin(post, s, n)
    BY <2>4, <2>5
  <2> QED BY <2>1, <2>2, <2>4, <2>6
<1>3. CASE p \notin calls
  <2>1. /\ p = <<p[1], p[2]>> /\ p[1] \in sch /\ Sections[p[1]].handler
        /\ Unnamed(p[1]) <=> p[2] = NoName
        /\ y[p] = Bin(pre, p[1], p[2])
    BY <1>1, <1>3 DEF Heard
  <2>2. p[2] \notin handle_named_section_change(sch, pre, post, p[1], startup)
    BY <1>3, <2>1, CallsUse
  <2>3. Bin(pre, p[1], p[2]) = Bin(post, p[1], p[2])
    BY <1>1, <2>1, <2>2, NoCallNoNews
  <2> QED BY <2>1, <2>3
<1> QED BY <1>2, <1>3

\* Who is not called while the program runs had only defaults and still has.
LEMMA TellsUnheard ==
  ASSUME NEW sch \in SUBSET DOMAIN Sections, Core \subseteq sch, NEW view,
         NEW pre \in Dbs, pre.linked, NEW post \in Dbs, post.linked,
         NEW startup \in BOOLEAN, Unheard(view, pre),
         NEW calls, calls = handle_db_changes(sch, pre, post, startup),
         NEW y, y = Told(view, sch, calls, post)
  PROVE  Unheard(y, post)
<1> SUFFICES ASSUME NEW s \in Core, Sections[s].handler, Unnamed(s), <<s, NoName>> \notin DOMAIN y
             PROVE  Sections[s].mode = "unnamed_optional" /\ Bin(post, s, NoName) = Defaults(s)
  BY DEF Unheard
<1> DEFINE p == <<s, NoName>>
<1>1. p[1] = s /\ p[2] = NoName
  OBVIOUS
<1> HIDE DEF p
<1>2. p \notin DOMAIN view /\ p \notin calls
  BY <1>1, ToldUse DEF p
<1>3. NoName \notin handle_named_section_change(sch, pre, post, s, startup)
  BY <1>2, CallsUse DEF p
<1>4. Bin(pre, s, NoName) = Bin(post, s, NoName)
  BY <1>3, NoCallNoNews
<1> QED BY <1>2, <1>4 DEF Unheard, p

\* At startup every unnamed section is told that is there or has to be.
LEMMA StartTellsUnheard ==
  ASSUME NEW sch \in SUBSET DOMAIN Sections, Core \subseteq sch, NEW view,
         NEW pre \in Dbs, \A t : ~ Has(pre.types, t),
         NEW post \in Dbs, NoBadNames(post), \A t : Has(post.types, t) => Names(post, t) # {},
         NEW startup \in BOOLEAN,
         NEW calls, calls = handle_db_changes(sch, pre, post, startup),
         NEW y, y = Told(view, sch, calls, post)
  PROVE  startup => Unheard(y, post)
<1>1. \A p : p \in DOMAIN y <=> /\ p \in DOMAIN view \cup calls
                                /\ Unnamed(p[1]) \/ p[2] \in Names(post, TypeOf(p[1]))
  BY ToldUse
<1> SUFFICES ASSUME startup, NEW s \in Core, Sections[s].handler, Unnamed(s), <<s, NoName>> \notin DOMAIN y
             PROVE  Sections[s].mode = "unnamed_optional" /\ Bin(post, s, NoName) = Defaults(s)
  BY DEF Unheard
<1> DEFINE p == <<s, NoName>>
<1> HIDE DEF p
<1>2. p \notin calls
  <2>1. p[1] = s /\ p[2] = NoName
    BY DEF p
  <2> QED BY <1>1, <2>1 DEF p
<1>3. NoName \notin handle_named_section_change(sch, pre, post, s, startup)
  BY <1>2, CallsUse DEF p
<1>4. s \in DOMAIN Sections /\ Sections[s].mode \in UnnamedModes \cup NamedModes
  BY SchemaAssumption
<1>5. NoName \notin NamesOf(pre, post, s)
  BY <1>3, <1>4, CalledNames
<1>6. Names(post, TypeOf(s)) = {}
  BY <1>4, <1>5 DEF NamesOf, NoBadNames
<1>7. ~ (Sections[s].mode = "unnamed")
  BY <1>3, <1>4, <1>6, CalledNames
<1>8. Sections[s].mode = "unnamed_optional"
  BY <1>7 DEF Unnamed, UnnamedModes
<1>9. Bin(post, s, NoName) = Defaults(s)
  BY <1>6, BinOfNone
<1> QED BY <1>8, <1>9

\* The inductive invariant of the handlers' knowledge: nobody has heard anything
\* before the first commit, and afterwards everybody has heard what there is.
HandlersInv ==
  /\ schema \subseteq DOMAIN Sections /\ Core \subseteq schema
  /\ first_apply => DOMAIN seen = {} /\ ~ commit
  /\ ~ first_apply => /\ work.linked /\ NoBadNames(work)
                      /\ Heard(seen, work, schema) /\ Unheard(seen, work)

LEMMA HandlersInit == Init => HandlersInv
<1> SUFFICES ASSUME Init PROVE HandlersInv
  OBVIOUS
<1>1. schema = Core /\ seen = Nothing
  BY DEF Init, oonf_cfg_init
<1>2. first_apply /\ ~ commit
  BY DEF Init, oonf_cfg_init
<1>3. DOMAIN seen = {}
  BY <1>1, NothingUse
<1> QED BY <1>1, <1>2, <1>3 DEF HandlersInv, Core

\* The plugins bring sections of their own.
LEMMA LoadedUse ==
  ASSUME HandlersInv, NEW new
  PROVE  /\ schema \subseteq oonf_subsystem_configure(schema, new)
         /\ oonf_subsystem_configure(schema, new) \subseteq DOMAIN Sections
BY DEF HandlersInv, oonf_subsystem_configure

LEMMA HandlersApply ==
  ASSUME CfgInv, HandlersInv, NEW r \in Dbs, NEW loaded, oonf_cfg_apply(r, asked, loaded),
         ~ first_apply \/ ApplyOk(r, loaded),
         NEW sch, sch = loaded.schema, schema \subseteq sch, sch \subseteq DOMAIN Sections
  PROVE  HandlersInv'
<1>1. schema' = sch
  BY DEF oonf_cfg_apply
<1>2. CASE ApplyOk(r, loaded)
  <2> DEFINE post == NewWork(sch, r)
             start == handle_db_changes(sch, cfg_db_link_schema(cfg_db_add), post, TRUE)
             delta == handle_db_changes(sch, work, post, FALSE)
  <2>1. work' = post
    BY <1>2 DEF oonf_cfg_apply
  <2>2. seen' = Told(seen, sch, IF first_apply THEN start ELSE delta, post)
    BY <1>2 DEF oonf_cfg_apply, cfg_schema_handle_db_changes, cfg_schema_handle_db_startup_changes
  <2>3. ~ first_apply'
    BY <1>2 DEF oonf_cfg_apply
  <2>4. post \in Dbs
    BY NewWorkUse
  <2>5. /\ post.linked /\ NoBadNames(post)
        /\ \A t : Has(post.types, t) => Names(post, t) # {}
    BY NewWorkNames
  <2> HIDE DEF post
  <2>6. CASE first_apply
    <3>1. PICK e : e = cfg_db_link_schema(cfg_db_add)
      OBVIOUS
    <3>2. /\ e \in Dbs /\ e.linked /\ e.types = cfg_db_add.types
          /\ \A t : Names(e, t) = {}
      BY <3>1, AddUse, LinkUse
    <3>3. \A t : ~ Has(e.types, t)
      BY <3>2, NothingUse DEF cfg_db_add, Has
    <3>4. PICK b \in BOOLEAN : b = TRUE
      OBVIOUS
    <3>5. PICK calls : calls = handle_db_changes(sch, e, post, b)
      OBVIOUS
    <3>6. start = calls
      BY <3>1, <3>4, <3>5
    <3> HIDE DEF start, delta
    <3>7. seen' = Told(seen, sch, calls, post)
      BY <2>2, <2>6, <3>6
    <3>8. NoBadNames(e)
      BY <3>2 DEF NoBadNames
    <3>9. Heard(seen, e, sch)
      BY <2>6 DEF HandlersInv, Heard
    <3>10. Heard(seen', post, sch)
      BY <2>4, <2>5, <3>2, <3>5, <3>7, <3>8, <3>9, TellsHeard
    <3>11. Unheard(seen', post)
      BY <2>4, <2>5, <3>2, <3>3, <3>4, <3>5, <3>7, StartTellsUnheard DEF HandlersInv
    <3> QED BY <1>1, <2>1, <2>3, <2>5, <3>10, <3>11 DEF HandlersInv
  <2>7. CASE ~ first_apply
    <3>1. work \in Dbs /\ work.linked /\ NoBadNames(work)
      BY <2>7 DEF HandlersInv, CfgInv, CfgTypeOK
    <3>2. PICK b \in BOOLEAN : b = FALSE
      OBVIOUS
    <3>3. PICK calls : calls = handle_db_changes(sch, work, post, b)
      OBVIOUS
    <3>4. delta = calls
      BY <3>2, <3>3
    <3> HIDE DEF start, delta
    <3>5. seen' = Told(seen, sch, calls, post)
      BY <2>2, <2>7, <3>4
    <3>6. Heard(seen, work, sch) /\ Unheard(seen, work)
      BY <2>7 DEF HandlersInv, Heard
    <3>7. Heard(seen', post, sch)
      BY <2>4, <2>5, <3>1, <3>3, <3>5, <3>6, TellsHeard
    <3>8. Unheard(seen', post)
      BY <2>4, <2>5, <3>1, <3>3, <3>5, <3>6, TellsUnheard DEF HandlersInv
    <3> QED BY <1>1, <2>1, <2>3, <2>5, <3>7, <3>8 DEF HandlersInv
  <2> QED BY <2>6, <2>7
<1>3. CASE ~ ApplyOk(r, loaded)
  <2>1. work' = work /\ seen' = seen
    BY <1>3 DEF oonf_cfg_apply
  <2>2. ~ first_apply /\ (first_apply' <=> first_apply)
    BY <1>3 DEF oonf_cfg_apply
  <2>3. Heard(seen, work, sch)
    BY <2>2 DEF HandlersInv, Heard
  <2> QED BY <1>1, <2>1, <2>2, <2>3 DEF HandlersInv
<1> QED BY <1>2, <1>3

LEMMA HandlersBoot == CfgInv /\ HandlersInv /\ Boot => HandlersInv'
<1> SUFFICES ASSUME CfgInv, HandlersInv, Boot PROVE HandlersInv'
  OBVIOUS
<1> DEFINE r == cfg_cmd_handle_load(reg, cmd, raw, file)
           w == Wanted(oonf_cfg_update_globalcfg(r))
           sch == oonf_subsystem_configure(schema, w.names \ plugins)
           loaded == [plugins |-> plugins \cup w.names, schema |-> sch, ok |-> w.ok]
<1>1. ApplyOk(r, loaded) /\ oonf_cfg_apply(r, asked, loaded)
  BY DEF Boot
<1>2. r \in Dbs
  BY LoadUse DEF CfgInv, CfgTypeOK
<1>3. loaded.schema = sch
  OBVIOUS
<1>4. schema \subseteq sch /\ sch \subseteq DOMAIN Sections
  BY LoadedUse
<1> HIDE DEF loaded, sch, r
<1> QED BY <1>1, <1>2, <1>3, <1>4, HandlersApply

LEMMA HandlersCommit == CfgInv /\ HandlersInv /\ Commit => HandlersInv'
<1> SUFFICES ASSUME CfgInv, HandlersInv, Commit PROVE HandlersInv'
  OBVIOUS
<1> DEFINE w == Wanted(global)
           sch == oonf_subsystem_configure(schema, w.names \ plugins)
           loaded == oonf_cfg_loadplugins
<1>1. oonf_cfg_apply(raw, asked, loaded) /\ commit
  BY DEF Commit
<1>2. raw \in Dbs /\ ~ first_apply
  BY <1>1 DEF CfgInv, CfgTypeOK, HandlersInv
<1>3. loaded.schema = sch
  BY DEF oonf_cfg_loadplugins
<1>4. schema \subseteq sch /\ sch \subseteq DOMAIN Sections
  BY LoadedUse
<1> HIDE DEF loaded, sch
<1> QED BY <1>1, <1>2, <1>3, <1>4, HandlersApply

\* No other step changes the work database or calls a handler.
LEMMA HandlersOther ==
  ASSUME HandlersInv, UNCHANGED <<work, schema, first_apply, seen>>, first_apply => ~ commit'
  PROVE  HandlersInv'
BY DEF HandlersInv, NoBadNames, Heard, Unheard

LEMMA HandlersNext == CfgInv /\ HandlersInv /\ [Next]_vars => HandlersInv'
<1> SUFFICES ASSUME CfgInv, HandlersInv, [Next]_vars PROVE HandlersInv'
  OBVIOUS
<1>1. first_apply => ~ commit
  BY DEF HandlersInv
<1>2. CASE Boot
  BY <1>2, HandlersBoot
<1>3. CASE Commit
  BY <1>3, HandlersCommit
<1>4. CASE Reload \/ CommitCommand
  BY <1>4, HandlersOther DEF Reload, CommitCommand
<1>5. ASSUME UNCHANGED dbvars PROVE HandlersInv'
  BY <1>1, <1>5, HandlersOther DEF dbvars
<1>6. CASE oonf_cfg_rollback
  BY <1>5, <1>6 DEF oonf_cfg_rollback
<1>7. ASSUME NEW arg \in InScope, SetCommand(arg) \/ RemoveCommand(arg) \/ GetCommand(arg)
      PROVE  HandlersInv'
  BY <1>5, <1>7 DEF SetCommand, RemoveCommand, GetCommand, Step
<1>8. CASE LoadCommand \/ SaveCommand
  BY <1>5, <1>8 DEF LoadCommand, SaveCommand, Step
<1>9. ASSUME NEW f, FormatCommand(f) PROVE HandlersInv'
  BY <1>5, <1>9 DEF FormatCommand, Step
<1>10. ASSUME NEW p, PluginCommand(p) PROVE HandlersInv'
  BY <1>1, <1>10, HandlersOther DEF PluginCommand
<1>11. ASSUME NEW p, ChangeParsers(p) PROVE HandlersInv'
  BY <1>5, <1>11 DEF ChangeParsers, Step
<1>12. CASE UNCHANGED vars
  BY <1>1, <1>12, HandlersOther DEF vars
<1> QED
  BY <1>2, <1>3, <1>4, <1>6, <1>7, <1>8, <1>9, <1>10, <1>11, <1>12 DEF Next

LEMMA HandlersKnow == CfgInv /\ HandlersInv => HandlersAreCurrent
<1> SUFFICES ASSUME CfgInv, HandlersInv, ~ first_apply PROVE HandlersAreCurrent
  BY DEF HandlersAreCurrent
<1>1. schema \in SUBSET DOMAIN Sections /\ work \in Dbs /\ work.linked
  BY DEF CfgInv, CfgTypeOK, HandlersInv
<1>2. ASSUME NEW p \in DOMAIN seen PROVE seen[p] = cfg_schema_tobin(schema, work, p[1], p[2])
  <2>1. p[1] \in schema /\ seen[p] = Bin(work, p[1], p[2])
    BY DEF HandlersInv, Heard
  <2> QED BY <1>1, <2>1, BinUse
<1>3. ASSUME NEW s \in Core, Sections[s].handler, Sections[s].mode \in UnnamedModes,
             <<s, NoName>> \notin DOMAIN seen
      PROVE  /\ Sections[s].mode = "unnamed_optional"
             /\ cfg_schema_tobin(schema, work, s, NoName) = Defaults(s)
  <2>1. Sections[s].mode = "unnamed_optional" /\ Bin(work, s, NoName) = Defaults(s)
    BY <1>3 DEF HandlersInv, Unheard, Unnamed
  <2>2. s \in schema
    BY DEF HandlersInv
  <2> QED BY <1>1, <2>1, <2>2, BinUse
<1> QED BY <1>2, <1>3 DEF HandlersAreCurrent

\* Every delta handler has last been told what its section effectively has in the
\* work database, whatever was set, loaded, committed, refused or rolled back and
\* whichever plugins brought sections of the same type (cfg_schema.c:812-1098).
THEOREM HandlersCurrent == Spec => []HandlersAreCurrent
<1>1. Init => HandlersInv
  BY HandlersInit
<1>2. CfgInv /\ HandlersInv /\ [Next]_vars => HandlersInv'
  BY HandlersNext
<1>3. CfgInv /\ HandlersInv => HandlersAreCurrent
  BY HandlersKnow
<1> QED BY <1>1, <1>2, <1>3, CfgInvariant, PTL DEF Spec
=============================================================================
