SPECIFICATION FairSpec
CONSTANTS
  Uses <- Firmwares
  Reloading = {3}
  IEValues <- Enables
  IPValues <- Priorities
INVARIANTS NestingIsMasked NoRequestForgotten
PROPERTIES OncePerEvent MainlineRuns
