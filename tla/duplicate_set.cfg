SPECIFICATION Spec
CONSTANTS
  Keys = {k1}
  None = None
  SeqMod = 12
  Window = 4
  MaxTooOld = 2
INVARIANTS
  HistoryIsSeen
PROPERTIES
  NeverAcceptedTwice
