SPECIFICATION Spec
CONSTANTS
  Surfaces = {s1, s2, s3}
  Contexts = {1}
  Codec <- H264Only
  NumCap = 2
  NumCapAV1 = 2
  SmallCap = 1
  NumOut = 2
  Refs = {}
  ExpbufWanted = TRUE
  ListedOnly = TRUE
  Events = {"resize", "out_rebuild", "timeout", "expbuf", "reject"}
  NoSurface = NoSurface
  NoContext = NoContext
SYMMETRY SurfaceSymmetry
INVARIANTS SlotsExclusive OutputAccounted
PROPERTIES ExportedSlotKept
