\* Compaction on (MaxBinlogCount = 3): a block queued before startSnapshot
\* is written into the new file, ahead of the snapshot entries of the
\* compaction goroutine, and the old file is then removed.
CONSTANTS
  k1 = k1
  k2 = k2
  Keys <- MCKeys
  Vals = {0}
  DefaultVal = 0
  Cmds = {"set"}
  MaxCachePerGroupSize = 2
  FlushCount = 2
  MaxBinlogCount = 3
  MaxWrites = 2
  MaxCrashes = 0
  CrashPoints = {"running"}
  MaxLoads = 2
  Nil = Nil
SPECIFICATION Spec
SYMMETRY MCSymmetry
INVARIANT LogMatchesCache
