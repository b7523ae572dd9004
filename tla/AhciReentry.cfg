\* Two commands without NCQ, issued together.
SPECIFICATION Spec
CONSTANTS
  Reqs = {}
  OFF_MAX <- MCOffMax
  NSlots = 2
  IoReqs = 2
  Cmds <- MCReads
  RdOnly = FALSE
  Masks <- MCMasks
  Careful = FALSE
INVARIANT NoAssertionFails
CHECK_DEADLOCK FALSE
