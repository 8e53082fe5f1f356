SPECIFICATION Spec
CONSTANTS
  Codes = {4000, 12, 19, 200, 300}
  Grips = {{}, {"onoff"}, {"func"}}
  Debounce = 1
  TicksPerControl = 1
  ControlsPerSecond = 2
  DwellSeconds = 2
  CooldownSeconds = 2
  RecoverTicks = 1
  BoilHoldTicks = 2
  OvertempSeconds = 2
  DryFireSeconds = 1
  BoilTimeout = 2
  SlopeWindow = 1
  SlopeArm = 2
  GlitchTrip = 2
  HeatWrap = 4
INVARIANTS ContactIsSafe DryFireIsBounded NoGhostPress
PROPERTIES ThermalFaultSticks BoilIsReal DwellAfterLongClosure
