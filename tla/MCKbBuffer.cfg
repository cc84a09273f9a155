SPECIFICATION FairSpec
CONSTANTS
  Byte = {make, break}
  KB_IN_BYTES = 3
  Unset <- NoSlot
PROPERTIES
  ImplementsByteQueue
  EveryByteIsRead
