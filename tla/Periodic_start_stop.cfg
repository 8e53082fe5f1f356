\* starts, stops, period changes, short and long callbacks, self-stops
SPECIFICATION FairSpec
CONSTANTS
  e1 = e1  e2 = e2  t1 = t1  t2 = t2
  Entries = {e1}  Tasks = {t1, t2}
  Periods = {4}  Durations = {1, 4, 5}  StopWait = 5
  SelfStop = TRUE  MaxStarts = 3  MaxChanges = 1
INVARIANTS HandshakeDeletesTask
PROPERTIES NoDriftNoBurst GivesUpOnlyOnLong KeepsFiring
CHECK_DEADLOCK FALSE
