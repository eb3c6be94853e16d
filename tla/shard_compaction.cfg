\* Compaction on (MaxBinlogCount = 3, above the two entries one compaction
\* logs, so compactions do not chain forever); no eviction, Del or crash.
\* Values are fixed (Vals = {0}) to keep the interleavings of the flush and
\* compaction goroutines in reach.
CONSTANTS
  k1 = k1
  k2 = k2
  Keys <- MCKeys
  Vals = {0}
  DefaultVal = 0
  Cmds = {"set"}
  MaxCachePerGroupSize = 2
  FlushCount = 2
  MaxBinlogCount = 3
  MaxWrites = 2
  MaxCrashes = 0
  CrashPoints = {"running"}
  MaxLoads = 2
  Nil = Nil
SPECIFICATION Spec
SYMMETRY MCSymmetry
PROPERTY RefinesAckQueue
