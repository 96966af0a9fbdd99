SPECIFICATION Spec
CONSTANTS
  ExpbufWanted = FALSE
  MaxSize = 2
  Images = {i1, i2}
  Events = {"put", "vpp", "jpeg", "release", "teardown", "bind", "reject", "memfd", "mmap", "calloc", "bo_map"}
SYMMETRY ImageSymmetry
INVARIANT LastWriterTruthful
