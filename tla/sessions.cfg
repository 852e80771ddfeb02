SPECIFICATION Spec
CONSTANTS
  Families <- Both
  KernelData <- InterfaceStates
  McChoices <- MulticastChoices
  Ports = {269, 270}
  Closed = Closed
  None = None
  MaxUserRefs = 1
  MaxChanges = 1
  MaxFailures = 1
  MaxBusy = 1
INVARIANTS
  QueuedHasTimer
  SocketsFollowInterface
  UsageCountsListeners
  StaleIsNoticed
PROPERTIES
  HeldIsAlive
