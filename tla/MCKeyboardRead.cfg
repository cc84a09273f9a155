SPECIFICATION FairSpec
CONSTANTS
  Key <- SomeKeys
  KB_IN_BYTES = 2
  MaxDown = 2
  MaxLost = 1
INVARIANTS
  DecodedInOrder
  NothingForgotten
  WaitsOnlyForTheRest
PROPERTY LossIsNotForEver
