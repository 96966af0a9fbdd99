SPECIFICATION Spec
CONSTANTS
  Surfaces = {s1, s2}
  Contexts = {1, 2}
  Codec <- DecodeAndJpeg
  NumCap = 2
  NumCapAV1 = 2
  SmallCap = 1
  NumOut = 1
  Refs = {}
  ExpbufWanted = FALSE
  ListedOnly = TRUE
  Events = {"resize", "reqbufs_zero", "reqalloc", "streamon", "reject", "qbuf_out", "qbuf_cap", "timeout", "corrupt", "late_out", "reinit", "pull"}
  NoSurface = NoSurface
  NoContext = NoContext
SYMMETRY SurfaceSymmetry
INVARIANTS SlotsExclusive CurrentSurfaceAlive
PROPERTIES NoForeignOverwrite
