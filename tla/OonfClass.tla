------------------------------- MODULE OonfClass -------------------------------
(* A memory class of subsystems/oonf_class.c: blocks of one size, a list of   *)
(* blocks kept for reuse, and extensions that claim room behind the object.   *)
(* Which of the blocks on the free list is reused first matters to nobody, so *)
(* the list is a set.                                                         *)
EXTENDS Integers, SequencesExt, FiniteSets

CONSTANTS Blocks,         \* what calloc() can return
          Exts,           \* the extensions other subsystems may register
          ExtSize,        \* their sizes, 0 for an extension that only listens
          ClassSizes,     \* the sizes the class may be given
          Unit,           \* sizeof(struct list_entity)
          MinFree,        \* min_free_count
          FreeThreshold,  \* OONF_CLASS_FREE_THRESHOLD
          MaxAllocations, \* bound: calls of calloc() in one behaviour
          MaxTotalSize    \* bound: a larger class is not extended

ASSUME ClassAssumption ==
  /\ IsFiniteSet(Blocks) /\ ExtSize \in [Exts -> Nat] /\ ClassSizes \subseteq Nat \ {0}
  /\ Unit \in Nat \ {0} /\ MinFree \in Nat /\ FreeThreshold \in Nat \ {0}

VARIABLES added,        \* hooked into the tree of classes
          size,         \* size of the object itself
          totalSize,    \* total_size, with the room of the extensions
          extensions,   \* _extensions, in the order of registration
          offset,       \* _offset of every extension
          freeList,     \* _free_list
          freeListSize, currentUsage, allocated,   \* the counters
          used,         \* blocks the users hold
          blockSize     \* how much calloc() gave for a block, 0 if none

memory == <<freeList, freeListSize, currentUsage, allocated, used, blockSize>>
classVars == <<added, size, totalSize, extensions, offset, freeList, freeListSize,
               currentUsage, allocated, used, blockSize>>

Registered == {extensions[i] : i \in 1 .. Len(extensions)}

roundup(n) == Unit * ((n + Unit - 1) \div Unit)

\* The place of a registered extension on the list.
Place(e) == CHOOSE i \in 1 .. Len(extensions) : extensions[i] = e

\* The size of a class of size s with the first k registered extensions.
SizeWith(s) ==
  LET upTo[k \in 0 .. Len(extensions)] ==
        IF k = 0 THEN roundup(s) ELSE roundup(upTo[k - 1] + ExtSize[extensions[k]])
  IN upTo

\* _free_freelist()
FreeFreelist ==
  /\ freeList' = {}
  /\ freeListSize' = 0
  /\ blockSize' = [b \in Blocks |-> IF b \in freeList THEN 0 ELSE blockSize[b]]

ClassInit ==
  /\ added = FALSE /\ size \in ClassSizes /\ totalSize = 0
  /\ extensions = <<>> /\ offset = [e \in Exts |-> 0]
  /\ freeList = {} /\ freeListSize = 0 /\ currentUsage = 0 /\ allocated = 0
  /\ used = {} /\ blockSize = [b \in Blocks |-> 0]

oonf_class_add ==
  /\ ~ added /\ added' = TRUE
  /\ totalSize' = roundup(size)
  /\ extensions' = <<>> /\ freeList' = {}
  /\ UNCHANGED <<size, offset, freeListSize, currentUsage, allocated, used, blockSize>>

\* The counters and the blocks in use survive the class.
oonf_class_remove ==
  /\ added /\ added' = FALSE
  /\ FreeFreelist
  /\ extensions' = <<>> /\ offset' = [e \in Exts |-> IF e \in Registered THEN 0 ELSE offset[e]]
  /\ UNCHANGED <<size, totalSize, currentUsage, allocated, used>>

\* Mutant: a resize that forgets that recycled blocks have the old size.
ResizeKeepsFreelist(s) ==
  /\ added /\ currentUsage = 0
  /\ size' = s /\ totalSize' = SizeWith(s)[Len(extensions)]
  /\ offset' = [e \in Exts |->
       IF e \in Registered THEN SizeWith(s)[Place(e) - 1] ELSE offset[e]]
  /\ UNCHANGED <<added, extensions, currentUsage, allocated, used, freeList, freeListSize,
                 blockSize>>

\* Mutant: a resize that leaves the extensions where they were.
ResizeKeepsOffsets(s) ==
  /\ added /\ currentUsage = 0
  /\ size' = s /\ totalSize' = SizeWith(s)[Len(extensions)]
  /\ FreeFreelist
  /\ UNCHANGED <<added, extensions, offset, currentUsage, allocated, used>>

\* Refused while objects exist (the caller then keeps the old size).
oonf_class_resize(s) ==
  /\ added /\ currentUsage = 0
  /\ size' = s /\ totalSize' = SizeWith(s)[Len(extensions)]
  /\ FreeFreelist
  /\ offset' = [e \in Exts |->
       IF e \in Registered THEN SizeWith(s)[Place(e) - 1] ELSE offset[e]]
  /\ UNCHANGED <<added, extensions, currentUsage, allocated, used>>

\* A fresh block; calloc() may also fail, which changes nothing.
MallocFresh(b) ==
  /\ added /\ freeList = {} /\ blockSize[b] = 0 /\ allocated < MaxAllocations
  /\ blockSize' = [blockSize EXCEPT ![b] = totalSize]
  /\ allocated' = allocated + 1
  /\ currentUsage' = currentUsage + 1 /\ used' = used \cup {b}
  /\ UNCHANGED <<freeList, freeListSize, added, size, totalSize, extensions, offset>>

\* A block of the free list, which is cleared over the whole total_size.
MallocRecycled(b) ==
  /\ added /\ b \in freeList
  /\ freeList' = freeList \ {b} /\ freeListSize' = freeListSize - 1
  /\ currentUsage' = currentUsage + 1 /\ used' = used \cup {b}
  /\ UNCHANGED <<blockSize, allocated, added, size, totalSize, extensions, offset>>

Keep == \/ freeListSize < MinFree
        \/ freeListSize < currentUsage \div FreeThreshold

oonf_class_free(b) ==
  /\ added /\ b \in used
  /\ IF Keep
     THEN /\ freeList' = freeList \cup {b} /\ freeListSize' = freeListSize + 1
          /\ UNCHANGED blockSize
     ELSE /\ blockSize' = [blockSize EXCEPT ![b] = 0]
          /\ UNCHANGED <<freeList, freeListSize>>
  /\ currentUsage' = currentUsage - 1 /\ used' = used \ {b}
  /\ UNCHANGED <<allocated, added, size, totalSize, extensions, offset>>

\* An extension that needs room is refused once the class has given out memory.
oonf_class_extension_add(e) ==
  /\ added /\ e \notin Registered /\ totalSize <= MaxTotalSize
  /\ ~ (allocated # 0 /\ ExtSize[e] > 0)
  /\ extensions' = Append(extensions, e)
  /\ IF ExtSize[e] > 0
     THEN /\ FreeFreelist
          /\ offset' = [offset EXCEPT ![e] = totalSize]
          /\ totalSize' = roundup(totalSize + ExtSize[e])
     ELSE UNCHANGED <<offset, totalSize, freeList, freeListSize, blockSize>>
  /\ UNCHANGED <<added, size, currentUsage, allocated, used>>

oonf_class_extension_remove(e) ==
  /\ e \in Registered
  /\ extensions' = RemoveAt(extensions, Place(e))
  /\ offset' = [offset EXCEPT ![e] = 0]
  /\ UNCHANGED <<added, size, totalSize, memory>>

ClassNext ==
  \/ oonf_class_add \/ oonf_class_remove
  \/ \E s \in ClassSizes : oonf_class_resize(s)
  \/ \E b \in Blocks : MallocFresh(b) \/ MallocRecycled(b) \/ oonf_class_free(b)
  \/ \E e \in Exts : oonf_class_extension_add(e) \/ oonf_class_extension_remove(e)

ClassSpec == ClassInit /\ [][ClassNext]_classVars

-----------------------------------------------------------------------------
(* Properties *)

\* Every block that is in use or waits for reuse is as large as the class is
\* now: oonf_class_malloc() clears total_size bytes of a recycled block, and an
\* extension reads its part of blocks that were allocated before it came.
BlocksFit == added => \A b \in used \cup freeList : blockSize[b] >= totalSize

\* The parts of the extensions lie behind the object, inside the block, and do
\* not overlap, whatever was registered, removed or resized before.
ExtensionsApart ==
  added => \A i, j \in 1 .. Len(extensions) :
    LET e == extensions[i]
        f == extensions[j]
    IN (ExtSize[e] > 0 /\ ExtSize[f] > 0) =>
         /\ size <= offset[e] /\ offset[e] + ExtSize[e] <= totalSize
         /\ i < j => offset[e] + ExtSize[e] <= offset[f]
=============================================================================
