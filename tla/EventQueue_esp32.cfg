\* expected violation: two events are queued when an ESP32 consumer pops
SPECIFICATION Spec
CONSTANTS
  p1 = p1  p2 = p2  c1 = c1  c2 = c2
  Target = "esp32"
  Producers = {p1}  Coalescing = {}
  Consumers = {c1}  Timed = {c1}
  Capacity = 2  Ring = 3  MaxPosts = 3
PROPERTIES DeliveredInFull
