\* The fields of a UDP header in the segments of a packet.
SPECIFICATION MCSpec
CONSTANTS
  Bits = {b1, b2, b3}
  Careful = TRUE
  AddrBits = 2
  DataBits = 2
  Size = 3
  Fixed <- MCFixed
  NVM_SUM = 2
  Regs <- MCRegs
  Bases <- MCBases
  Idx <- MCIdx
  Radix = 16
  MaxSegs = 4
  Slack = 40
  Vet = 129
  Contexts <- MCContexts
  Packets <- MCPackets
INVARIANT UdpLengths
CHECK_DEADLOCK FALSE
