CONSTANTS
  Nodes = {1, 2, 3, 4, 5, 6, 7, 8, 9}
  ListHead = ListHead
  Nil = Nil
  Key <- MCKey
  Blocks = {b1, b2, b3}
  Exts = {"ext1", "ext2", "listener"}
  ExtSize <- MCExtSize
  ClassSizes = {2, 5}
  Unit = 2
  MinFree = 1
  FreeThreshold = 2
  MaxAllocations = 4
  MaxTotalSize = 10
SPECIFICATION Spec
INVARIANTS
  TreeIsBalanced
  ListIsOrdered
  LookupsAgree
  LoopVisitsAll
  BlocksFit
  ExtensionsApart
