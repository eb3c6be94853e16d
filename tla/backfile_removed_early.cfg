\* Compaction on: the compaction goroutine removes the previous file as soon
\* as its loop ends, before the snapshot entries it buffered are flushed.
\* FlushCount = 1 hands every write to the flush goroutine at once.
CONSTANTS
  k1 = k1
  k2 = k2
  Keys <- MCKeys
  Vals = {0, 1}
  DefaultVal = 0
  Cmds = {"set", "incr", "decr"}
  MaxCachePerGroupSize = 2
  FlushCount = 1
  MaxBinlogCount = 3
  MaxWrites = 2
  MaxCrashes = 0
  CrashPoints = {"running"}
  MaxLoads = 2
  Nil = Nil
SPECIFICATION Spec
SYMMETRY MCSymmetry
INVARIANT DurableAcks
