SPECIFICATION Spec
CONSTANTS
  OrderHintBits = 7
  RefreshBits = 8
  MaxSliceParams = 2
  MaxSliceDatas = 3
  OutputSize = 16
  KeyOrders = {0, 16, 32, 48}
  GopLengths = {4, 8, 16}
  LastOrder = 127
  Inputs <- MCInputs
INVARIANTS
  HeaderFlagsTrue
  SkipModeNearest
  ReferencesKept
  BitstreamWhole
  ReferencesListed
  ImagesTrue
