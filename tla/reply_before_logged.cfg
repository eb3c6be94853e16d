\* Compaction on: startSnapshot replaces binlogStr and keeps ctxs and
\* cacheBinlogCount, so a later block carries the reply of a write whose
\* entry was dropped.
CONSTANTS
  k1 = k1
  k2 = k2
  Keys <- MCKeys
  Vals = {0, 1}
  DefaultVal = 0
  Cmds = {"set", "incr", "decr"}
  MaxCachePerGroupSize = 2
  FlushCount = 2
  MaxBinlogCount = 3
  MaxWrites = 2
  MaxCrashes = 0
  CrashPoints = {"running"}
  MaxLoads = 2
  Nil = Nil
SPECIFICATION Spec
SYMMETRY MCSymmetry
PROPERTY ReplyAfterDurable
