CONSTANTS
  None = None
  CommandOf <- MCCommandOf
  RemoteAcl <- MCRemoteAcl
  MaxInput = 4
  Request <- MCRequest
  Paths <- MCPaths
  SiteOf <- MCSiteOf
  Slots <- TwoSlots
  Peers = {"near", "far"}
  Bindings <- MCBindings
  SessionLimit = 1
  Chunks <- MCChunks
  Acl <- MCAcl
  MaxChanges = 3
SPECIFICATION Spec
INVARIANTS
  SessionsAreCounted
  OutputIsSent
  ContinuousHasOwner
  OpenHasTimeout
  RequestIsAnswered
  SiteIsServed
CHECK_DEADLOCK FALSE
