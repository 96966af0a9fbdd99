SPECIFICATION Spec
CONSTANTS
  Surfaces = {s1, s2}
  Contexts = {1, 2}
  Codec <- TwoDecoders
  NumCap = 2
  NumCapAV1 = 2
  SmallCap = 1
  NumOut = 1
  Refs = {}
  ExpbufWanted = FALSE
  ListedOnly = TRUE
  Events = {"resize", "out_rebuild", "timeout", "corrupt", "pull", "reject", "qbuf_cap"}
  NoSurface = NoSurface
  NoContext = NoContext
SYMMETRY SurfaceSymmetry
INVARIANTS SlotsAccounted
PROPERTIES ImplementsPool RetargetedSlotReturned
