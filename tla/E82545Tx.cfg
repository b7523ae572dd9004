\* A ring of eight and up to three descriptors in flight: a poll, limited to
\* two descriptors, leaves some of them.  The system stops at "spin".
SPECIFICATION TxFairSpec
CONSTANTS
  Bits <- MCBits
  Careful = TRUE
  TxSize = 8
  MaxBatch = 2
  MaxOut = 3
INVARIANT TxInv
PROPERTY SentOnceInOrder
PROPERTY CompletionReported
PROPERTY PacketsSent
CHECK_DEADLOCK FALSE
