\* A ring of eight, packets of one buffer and of two: a poll takes up to
\* three descriptors, of packets that arrive while it runs.  The frame of a
\* padded packet ends with its buffer.
SPECIFICATION RxFairSpec
CONSTANTS
  Bits <- MCBits
  Careful = TRUE
  RxSize = 8
  Buf = 3
  MaxPktSz = 6
  MinLen = 2
  CrcLen = 1
  Lens = {1, 4}
  RDMTS = 0
  MaxFifo = 1
INVARIANT RxInv
PROPERTY WritesOwnOnly
PROPERTY DeliveredInOrder
PROPERTY LengthsAddUp
PROPERTY FifoDrains
