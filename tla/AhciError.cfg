\* A refused command on a port that takes no FISes.
SPECIFICATION Spec
CONSTANTS
  Reqs = {}
  OFF_MAX <- MCOffMax
  NSlots = 2
  IoReqs = 2
  Cmds <- MCAborts
  RdOnly = FALSE
  Masks <- MCMasks
  Careful = FALSE
PROPERTY StopsOnError
CHECK_DEADLOCK FALSE
