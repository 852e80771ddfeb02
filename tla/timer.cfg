SPECIFICATION Spec
CONSTANTS
  tick = tick
  poll = poll
  rounds = rounds
  None = None
  Timers = {tick, poll}
  Infos = {rounds}
  InfoOf <- MCInfoOf
  Periodic <- MCPeriodic
  Jitter <- MCJitter
  Slice = 2
  RandMax = 10100
  RandomValues = {0, 10100}
  Word = 32
  RelTimes = {0, 2}
  MaxNow = 4
INVARIANTS
  RearmsOnlyLiveTimer
PROPERTIES
  
  WalkReturns
  ImplementsAlarmClock
