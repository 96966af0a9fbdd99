SPECIFICATION Spec
CONSTANTS
  Kinds = {"JPEG", "VPP"}
  Formats = {f1, f2}
  Controls = {c1, c2}
  Events = {"nv12m", "s_fmt", "reqbufs", "querybuf", "mmap", "streamoff", "qbuf", "streamon", "dqbuf", "out_first"}
  PollTicks = 2
  MaxSignals = 2
  NoSetup = NoSetup
INVARIANTS ResultAsAsked CopiesThroughLiveMaps SteadyFailureRecovers CompleteSetupsReleased
PROPERTY EveryJobReturns
