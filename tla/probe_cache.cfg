SPECIFICATION Spec
CONSTANTS
  Threads = {1, 2}
  Pid <- OwnPid
  NoCache = {}
  Codecs = {"h264"}
  Layout <- TwoBoots
  Inodes = {1, 2, 3, 4}
  LateNodes = {2}
  NoProc = {2}
  Events = {"store"}
INVARIANTS InitFindsDevices LaterProcessesDoNotProbe
PROPERTY InitReturns
