\* tasks deleted by others, tasks that end holding a mutex, restarts
SPECIFICATION Spec
CONSTANTS
  m1 = m1  m2 = m2  s1 = s1
  N = 3  MaxDelay = 1  MaxTicks = 2
  Mutexes = {m1}  Sems = {}  IsrSems = {}
  Delays = {1}  LockTimeouts = {0, 1}  TakeTimeouts = {0}
  Faults = {"kill", "die_holding", "restart"}
INVARIANTS MutualExclusion
PROPERTIES DeletedStaysDeleted
