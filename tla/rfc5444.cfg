CONSTANTS
  Bad = Bad
  None = None
  AddrLen = 3
  TlvTypes <- MCTlvTypes
  Targets = {"t1", "t2"}
  PacketSize <- MCPacketSize
  HasSeqno = {"t1"}
  MsgSize = 60
  MsgType = 1
  Contents <- MCContents
  Later <- MCLater
  Forwards <- MCForwards
  PktTlv <- MCPktTlv
  MaxChanges = 1
  ConsumerOf <- MCConsumerOf
  Packets <- MCPackets
  Scripts <- MCScripts
  TlvRoom = 8
SPECIFICATION Spec
INVARIANTS
  RoundTrip
  PacketCarriesMessages
  UsersHaveCreator
  StartedIsEnded
  DroppedIsSilent
  TlvsReachConsumer
CHECK_DEADLOCK FALSE
