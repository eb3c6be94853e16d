\* The binlog path (writes, tryFlush, the flush goroutine, the SQL worker)
\* with one crash while serving, then StartReplayBinlog (replay, remove the
\* files, start-up snapshot) and serving again; no compaction, eviction or
\* Del.  DurableAcks replays the files in every state, which stands for a
\* crash at every point.
CONSTANTS
  k1 = k1
  k2 = k2
  Keys <- MCKeys
  Vals = {0, 1}
  DefaultVal = 0
  Cmds = {"set", "incr", "decr"}
  MaxCachePerGroupSize = 2
  FlushCount = 2
  MaxBinlogCount = 100
  MaxWrites = 2
  MaxCrashes = 1
  CrashPoints = {"running"}
  MaxLoads = 2
  Nil = Nil
SPECIFICATION Spec
SYMMETRY MCSymmetry
INVARIANT AckedWritesVisible
INVARIANT LruMatchesMap
INVARIANT TypeOK
INVARIANT DurableAcks
INVARIANT LogMatchesCache
PROPERTY ReplyAfterDurable
PROPERTY RefinesAckQueue
