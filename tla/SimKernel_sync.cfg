\* a mutex and a semaphore that an interrupt gives, too; clients that keep the
\* API's rules, fair: safety, refinement of FifoLock and liveness
SPECIFICATION FairSpec
CONSTANTS
  m1 = m1  m2 = m2  s1 = s1
  N = 3  MaxDelay = 1  MaxTicks = 0
  Mutexes = {m1}  Sems = {s1}  IsrSems = {s1}
  Delays = {1}  LockTimeouts = {0}  TakeTimeouts = {0, 1}
  Faults = {}
INVARIANTS NoLostWakeup
PROPERTIES RoundRobin IsFifoLock LockIsGranted
