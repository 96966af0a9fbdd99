SPECIFICATION Spec
CONSTANTS
  Streams <- MCStreams
  OutSlots = {0, 1}
  Faults = {"reqalloc", "reject", "sequence", "cap_zero", "cap_alloc", "streamon", "controls", "qbuf", "timeout", "out_zero", "out_mmap", "reinit", "reinit_einval"}
INVARIANTS SequenceInForce CaptureFits FailuresHeal
