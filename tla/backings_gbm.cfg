SPECIFICATION Spec
CONSTANTS
  ExpbufWanted = FALSE
  MaxSize = 2
  Images = {i1, i2, i3}
  Events = {"put", "vpp", "jpeg", "release", "teardown", "bind", "reject"}
SYMMETRY ImageSymmetry
INVARIANTS GetImageFresh DisplayFresh ImagesMapped BorrowsCounted
