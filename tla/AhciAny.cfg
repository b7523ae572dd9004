\* Any host, on two slots.  The device may stop: an assertion fails.
SPECIFICATION Spec
CONSTANTS
  Reqs = {}
  OFF_MAX <- MCOffMax
  NSlots = 2
  IoReqs = 2
  Cmds <- MCCmds
  RdOnly = FALSE
  Masks <- MCTwoMasks
  Careful = FALSE
INVARIANT AhciInv
INVARIANT InterruptLevel
PROPERTY CompletionInterrupts
CHECK_DEADLOCK FALSE
