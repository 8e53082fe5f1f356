\* interrupts, polling, enabling and disabling from the loop and from callbacks
SPECIFICATION Spec
CONSTANTS
  b1 = b1  b2 = b2  None = None
  Buttons = {b1, b2}  Drives <- DrivesOf
  NSlots = 2  NTimers = 3  Others = 1
  Debounce = 1  LongPress = 2  Samples = 2
  MaxFlips = 3  MaxEnables = 3
INVARIANTS TimersAreOwned NoEdgeForgotten EventsInOrder
