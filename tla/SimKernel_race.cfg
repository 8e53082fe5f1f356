\* expected violation: an unlock or give meets a timeout of the same instant
SPECIFICATION Spec
CONSTANTS
  m1 = m1  m2 = m2  s1 = s1
  N = 3  MaxDelay = 2  MaxTicks = 0
  Mutexes = {m1}  Sems = {s1}  IsrSems = {}
  Delays = {1}  LockTimeouts = {0, 1}  TakeTimeouts = {0, 1}
  Faults = {}
INVARIANTS EventBeatsTimeout
