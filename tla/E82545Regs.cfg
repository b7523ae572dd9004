\* A host that reads ICR after a reset.  An assertion may stop the device.
SPECIFICATION MCSpec
CONSTANTS
  Bits = {b1, b2, b3}
  Careful = TRUE
  AddrBits = 2
  DataBits = 2
  Size = 3
  Fixed <- MCFixed
  NVM_SUM = 2
  Regs <- MCRegs
  Bases <- MCBases
  Idx <- MCIdx
  Radix = 16
  MaxSegs = 4
  Slack = 40
  Vet = 129
  Contexts <- MCContexts
  Packets <- MCPackets
INVARIANT IntrInv
INVARIANT CausesReachHost
INVARIANT RingsCurrent
INVARIANT PacketCorrect
PROPERTY RateLimited
PROPERTY CausesDelivered
PROPERTY EepromSpec
CHECK_DEADLOCK FALSE
