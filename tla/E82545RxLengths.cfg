\* Frames that end with their buffer.
SPECIFICATION RxSpec
CONSTANTS
  Bits <- MCBits
  Careful = TRUE
  RxSize = 8
  Buf = 3
  MaxPktSz = 6
  MinLen = 2
  CrcLen = 1
  Lens = {1, 4}
  RDMTS = 0
  MaxFifo = 1
PROPERTY LengthsReported
