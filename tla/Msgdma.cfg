\* Three descriptors, of which the device has up to two.
SPECIFICATION FairSpec
CONSTANTS
  Size = 3
  MaxFifo = 2
  MaxSem = 2
INVARIANT MsgdmaInv
INVARIANT NotStranded
PROPERTY ReceivedInOrder
PROPERTY PacketsTaken
