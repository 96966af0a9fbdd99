SPECIFICATION Spec
CONSTANTS
  Surfaces = {s1, s2, s3}
  Contexts = {1}
  Codec <- AV1Only
  NumCap = 3
  NumCapAV1 = 4
  SmallCap = 2
  NumOut = 1
  Refs = {0, 1}
  ExpbufWanted = FALSE
  ListedOnly = TRUE
  Events = {"qbuf_out", "qbuf_cap", "corrupt", "obu", "reject"}
  NoSurface = NoSurface
  NoContext = NoContext
SYMMETRY SurfaceSymmetry
INVARIANTS TypeOK SlotsMappable KernelRefsNotFree
PROPERTIES ImplementsPool
