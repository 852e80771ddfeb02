SPECIFICATION SSpec
CONSTANTS
  alarm = alarm
  once = once
  None = None
  ListHead = ListHead
  Timers = {alarm}
  Infos = {once}
  InfoOf <- MCInfoOf
  Periodic <- MCPeriodic
  Jitter <- MCJitter
  Slice = 1
  RandMax = 10100
  RandomValues = {10100}
  Word = 16
  RelTimes = {0}
  MaxNow = 2
  Entries = {e1, e2, e3}
  Fds = {f1, f2}
  Wants <- MCWants
  StopTimes = {0, 2}
  StopCallback = TRUE
INVARIANTS
  SelectWakesInTime
  ReadyIsServed
