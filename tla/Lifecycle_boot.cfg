\* resets at any step, faults from any task
SPECIFICATION LifeSpec
CONSTANTS
  a1 = a1  a2 = a2  a3 = a3
  Actuators = {a1, a2, a3}  Slots = 2
  Threshold = 3  HealthyTicks = 2  MaxCount = 4
INVARIANTS CrashLoopIsLocked LockIsDeserved
PROPERTIES FaultReachesAll
