SPECIFICATION Spec
CONSTANTS
  limit = 2
  Total = 5
  SeqMod = 4
  MaxReaders = 2
  low_d = 30
INVARIANTS AttachSafe WaitNoGaps GapsExact PollLeavesOne UvReported
PROPERTIES WriterEnds ReaderEnds InprocEnds BenchEnds
CHECK_DEADLOCK FALSE
