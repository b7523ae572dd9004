\* A host that keeps to HostRule; or three requests on the two elements of a
\* free queue that runs empty, under the fairness of dm_loop.
SPECIFICATION MCSpec
CONSTANTS
  Reqs = {r1, r2, r3}
  OFF_MAX <- MCOffMax
  NSlots = 2
  IoReqs = 2
  Cmds <- MCCareful
  RdOnly = FALSE
  Masks <- MCMasks
  Careful = TRUE
  MaxReq = 2
  Offsets <- MCOffsets
  Lens <- MCLens
INVARIANT NoAssertionFails
PROPERTY StopsOnError
PROPERTY WritesAnswered
PROPERTY CommandsEnd
PROPERTY EventuallyAnswered
PROPERTY ServiceSpec
