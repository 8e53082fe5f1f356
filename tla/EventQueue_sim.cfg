\* host and WASM: two producers, a main loop and a task that wait
SPECIFICATION FairSpec
CONSTANTS
  p1 = p1  p2 = p2  c1 = c1  c2 = c2
  Target = "sim"
  Producers = {p1, p2}  Coalescing = {p2}
  Consumers = {c1, c2}  Timed = {c1}
  Capacity = 2  Ring = 3  MaxPosts = 3
INVARIANTS NotAllAsleep
PROPERTIES DeliveredInFull IsBoundedFifo EventIsDelivered
