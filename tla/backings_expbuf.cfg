SPECIFICATION Spec
CONSTANTS
  ExpbufWanted = TRUE
  MaxSize = 2
  Images = {i1, i2}
  Events = {"bind"}
SYMMETRY ImageSymmetry
INVARIANTS TypeOK DeriveFresh
