\* One crash while serving, then StartReplayBinlog: the replayed records
\* owe SQL their writes (sqlFlag insert_update) but nothing hands them to
\* the SQL update worker.  One write per key, fixed values; no symmetry,
\* since the property is a liveness property.
CONSTANTS
  k1 = k1
  k2 = k2
  Keys <- MCKeys
  Vals = {0}
  DefaultVal = 0
  Cmds = {"set"}
  MaxCachePerGroupSize = 2
  FlushCount = 2
  MaxBinlogCount = 100
  MaxWrites = 1
  MaxCrashes = 1
  CrashPoints = {"running"}
  MaxLoads = 2
  Nil = Nil
SPECIFICATION Spec
PROPERTY EventuallyWrittenBack
