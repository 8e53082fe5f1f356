SPECIFICATION TimersSpec
CONSTANTS
  q1 = q1  m1 = m1  s1 = s1  g1 = g1  b1 = b1  b2 = b2
  N = 3  MaxDelay = 2  MaxTicks = 0
  Queues = {q1}  Sems = {m1, s1}  Mutexes = {m1}  Groups = {g1}
  Bits = {b1, b2}  Needs <- Conditions
  Capacity <- Capacities  MaxCount <- Counts  Priority <- Priorities
  MaxNotify = 1  MaxStray = 1  Timeouts = {0, 2}  Delays = {0, 1}
  NTimers = 2  QueueLength = 1  Periods = {2}  MaxGen = 4
  Apps <- Applications
INVARIANTS DaemonIsOnTime AcceptedTakesEffect NoLostWakeup NoMissedEvent MutexIsExclusive DeadlineKept
CHECK_DEADLOCK FALSE
