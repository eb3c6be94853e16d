\* A shard with room for one record: kickCacheKey evicts, records are loaded
\* again; no compaction or crash.  Values are fixed (Vals = {0}) so that
\* three loads stay in reach.
CONSTANTS
  k1 = k1
  k2 = k2
  Keys <- MCKeys
  Vals = {0}
  DefaultVal = 0
  Cmds = {"set"}
  MaxCachePerGroupSize = 1
  FlushCount = 2
  MaxBinlogCount = 100
  MaxWrites = 2
  MaxCrashes = 0
  CrashPoints = {"running"}
  MaxLoads = 3
  Nil = Nil
SPECIFICATION Spec
INVARIANT LruMatchesMap
INVARIANT EvictedInSql
PROPERTY AckQueueSpec
