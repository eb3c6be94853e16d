----------------------------- MODULE ProcessUnit -----------------------------
(***************************************************************************)
(* One shard (processUnit) of the flyfish cache node: its records, its LRU *)
(* list, the binlog it appends to (writeBack, tryFlush, the flush          *)
(* goroutine), binlog compaction (startSnapshot and its goroutine),        *)
(* eviction (kickCacheKey), and a crash followed by StartReplayBinlog.     *)
(* Sources: src/writeBack.go, src/processUnit.go.  The record object, the  *)
(* command processor that loads records and picks a command's write-back   *)
(* flag, and the SQL update worker are not in the repository; they are     *)
(* modelled from spec.md (sections 3, 4.1, 4.2, 4.4).                      *)
(*                                                                         *)
(* Data is abstracted: a record has one field whose value is in Vals.  A   *)
(* ghost number `gen` counts the writes of a key; `hist[k][g+1]` is the    *)
(* state of k after its g-th write and `acked[k]` the last write whose     *)
(* reply was sent.                                                         *)
(***************************************************************************)
EXTENDS Integers, Sequences, FiniteSets, SequencesExt

CONSTANTS
  Keys,                 \* uniKeys that hash to this shard
  Vals,                 \* values of the record's field (int64 in the code)
  DefaultVal,           \* the field's default (setDefaultValueNoLock)
  Cmds,                 \* command kinds clients send: \subseteq {"set","incr","decr","del"}
  MaxCachePerGroupSize, \* conf.MaxCachePerGroupSize
  FlushCount,           \* conf.FlushCount
  MaxBinlogCount,       \* conf.MaxBinlogCount (MaxBinlogFileSize folded in)
  MaxWrites,            \* bound: writes per key
  MaxCrashes,           \* bound: process crashes
  CrashPoints,          \* phases in which the process may crash
  MaxLoads,             \* bound: loads of records from SQL
  Nil                   \* a model value: nil values / no block

ASSUME DefaultVal \in Vals /\ Nil \notin Vals
ASSUME Cmds \subseteq {"set", "incr", "decr", "del"}
ASSUME CrashPoints \subseteq {"running", "replayed", "cleaned"}
ASSUME FlushCount \in Nat \ {0} /\ MaxBinlogCount \in Nat \ {0}

VARIABLES
  cacheKeys,        \* keys present in processUnit.cacheKeys
  ckeys,            \* ckeys[k]: the current cacheKey object of k
  lru,              \* the LRU list, head (most recent) first
  binlogStr,        \* entries buffered since the last tryFlush
  ctxs,             \* reply contexts buffered with them
  cacheBinlogCount, \* entries counted since the last tryFlush
  binlogCount,      \* entries counted since the current file was started
  binlogQueue,      \* blocks handed to the flush goroutine
  flushing,         \* block written and synced, replies not yet released
  disk,             \* binlog files: file index -> entries
  f,                \* index of the current file (0 = nil)
  backFilePath,     \* index of the file a compaction will remove
  fileCounter,      \* the global fileCounter (reset by a restart)
  make_snapshot,    \* a compaction is in progress
  snapshotList,     \* records the compaction goroutine has still to log
  db,               \* the SQL row of each key
  phase,            \* "running", "crashed", "replayed", "cleaned", "failed"
  crashes,          \* number of crashes so far
  hist,             \* ghost: hist[k][g+1] is k's state after its g-th write
  acked,            \* ghost: gen of the last write of k that was replied to
  loads             \* bound counter: records loaded so far

vars == <<cacheKeys, ckeys, lru, binlogStr, ctxs, cacheBinlogCount, binlogCount,
          binlogQueue, flushing, disk, f, backFilePath, fileCounter,
          make_snapshot, snapshotList, db, phase, crashes, hist, acked, loads>>

-----------------------------------------------------------------------------
(* Data                                                                    *)

Status == {"ok", "missing"}
Flags  == {"none", "insert", "update", "delete", "insert_update"}
Value  == Vals \cup {Nil}

\* The observable state of a record: what a Get returns.
Row == [status: Status, values: Value, version: Nat]

\* A cacheKey object.
Rec == [status: Status, values: Value, version: Nat, sqlFlag: Flags,
        snapshot: BOOLEAN, writeBackLocked: BOOLEAN, gen: Nat]

\* A binlog entry as write() encodes it (gen is a ghost tag).
Entry == [op: {"snapshot", "update", "delete", "kick"}, key: Keys,
          version: Nat, values: Value, gen: Nat]

Ctx   == [key: Keys, gen: Nat]
Block == [entries: Seq(Entry), ctxs: Seq(Ctx)]

RowOf(r) == [status |-> r.status, values |-> r.values, version |-> r.version]

\* What SQL returns when a record is loaded (spec 4.4).
DbRow == [status: Status, values: Value, version: Nat, gen: Nat]
MissingRow(g) == [status |-> "missing", values |-> Nil, version |-> 0, gen |-> g]

\* A placeholder for keys without a cacheKey object.
NoRec == [status |-> "missing", values |-> Nil, version |-> 0, sqlFlag |-> "none",
          snapshot |-> FALSE, writeBackLocked |-> FALSE, gen |-> 0]

LatestGen(k) == Len(hist[k]) - 1

-----------------------------------------------------------------------------
(* Helpers translated from the code                                        *)

\* The sqlFlag coalescing of writeBack (writeBack.go:364-391); "err" is the
\* gotErr path.  There is no branch for a current flag of insert_update, so
\* the flag is left as it is.
FlagAfter(cur, in) ==
  CASE cur = "none"   -> in
    [] cur = "insert" -> IF in = "update" THEN "insert_update"
                         ELSE IF in = "delete" THEN "delete" ELSE "err"
    [] cur = "delete" -> IF in = "insert" THEN "insert" ELSE "err"
    [] cur = "update" -> IF in \in {"update", "delete"} THEN in ELSE "err"
    [] OTHER          -> cur

\* write(): one encoded entry.  An update carries only the command's
\* fields; a snapshot carries all values; delete and kick carry none.
SnapshotEntry(k, r) == [op |-> "snapshot", key |-> k, version |-> r.version,
                        values |-> r.values, gen |-> r.gen]
KickEntry(k) == [op |-> "kick", key |-> k, version |-> 0, values |-> Nil,
                 gen |-> ckeys[k].gen]

\* Mutants of TryFlushed: the counter is decremented instead of reset; the
\* block is queued in front; the timer condition is ignored.
TryFlushedSubtract(buf, cs, cnt, q, timeUp) ==
  IF cnt > 0 /\ (cnt >= FlushCount \/ timeUp)
  THEN [buf |-> <<>>, ctxs |-> <<>>, cnt |-> cnt - FlushCount,
        queue |-> Append(q, [entries |-> buf, ctxs |-> cs])]
  ELSE [buf |-> buf, ctxs |-> cs, cnt |-> cnt, queue |-> q]
TryFlushedPrepend(buf, cs, cnt, q, timeUp) ==
  IF cnt > 0 /\ (cnt >= FlushCount \/ timeUp)
  THEN [buf |-> <<>>, ctxs |-> <<>>, cnt |-> 0,
        queue |-> <<[entries |-> buf, ctxs |-> cs]>> \o q]
  ELSE [buf |-> buf, ctxs |-> cs, cnt |-> cnt, queue |-> q]
TryFlushedNoTimer(buf, cs, cnt, q, timeUp) ==
  IF cnt > 0 /\ cnt >= FlushCount
  THEN [buf |-> <<>>, ctxs |-> <<>>, cnt |-> 0,
        queue |-> Append(q, [entries |-> buf, ctxs |-> cs])]
  ELSE [buf |-> buf, ctxs |-> cs, cnt |-> cnt, queue |-> q]

\* tryFlush(): hand the buffer and its contexts to the flush goroutine when
\* something is buffered and FlushCount is reached or nextFlush has passed.
TryFlushed(buf, cs, cnt, q, timeUp) ==
  IF cnt > 0 /\ (cnt >= FlushCount \/ timeUp)
  THEN [buf |-> <<>>, ctxs |-> <<>>, cnt |-> 0,
        queue |-> Append(q, [entries |-> buf, ctxs |-> cs])]
  ELSE [buf |-> buf, ctxs |-> cs, cnt |-> cnt, queue |-> q]

SetBuffers(t) ==
  /\ binlogStr' = t.buf
  /\ ctxs' = t.ctxs
  /\ cacheBinlogCount' = t.cnt
  /\ binlogQueue' = t.queue

\* Mutant of KickAble: a record whose write-back is owed but not yet
\* handed to the worker is evictable.
KickAbleUnlockedOnly(r) == ~r.writeBackLocked

\* kickAble() of cacheKey (spec 4.1): no write-back owed or in flight.
KickAble(r) == r.sqlFlag = "none" /\ ~r.writeBackLocked

\* The keys kickCacheKey removes, tail first: it stops at the first record
\* that is not kickAble or once the map is small enough.
RECURSIVE Victims(_, _)
Victims(l, n) ==
  IF n <= 0 \/ l = <<>> \/ ~KickAble(ckeys[Last(l)]) THEN <<>>
  ELSE <<Last(l)>> \o Victims(Front(l), n - 1)

\* Mutant of UpdateLRU: the key is pushed on the head without being
\* unlinked from its old place.
UpdateLRUNoUnlink(l, k) == <<k>> \o l

\* updateLRU(): unlink the key if it is linked, then insert it at the head.
UpdateLRU(l, k) == <<k>> \o SelectSeq(l, LAMBDA x : x # k)

\* removeLRU(): unlink the key.
RemoveLRU(l, k) == SelectSeq(l, LAMBDA x : x # k)

\* replayBinLog(): apply one decoded entry to the shard being rebuilt.
\* st is [keys, rec, lru, fatal]; a rejected entry (Fatalln) sets fatal.

\* Mutant of ReplaySnapshotNew: the new record is not put on the LRU list.
ReplaySnapshotNewNoLRU(st, e) ==
  [st EXCEPT !.keys = @ \cup {e.key},
             !.rec[e.key] = [NoRec EXCEPT
                               !.values = e.values, !.version = e.version,
                               !.gen = e.gen,
                               !.sqlFlag = IF e.version = 0 THEN "delete"
                                           ELSE "insert_update",
                               !.status = IF e.version = 0 THEN "missing"
                                          ELSE "ok"]]

\* snapshot of a key not yet replayed: a new record, put on the LRU list;
\* version 0 is read as a pending delete.
ReplaySnapshotNew(st, e) ==
  [st EXCEPT !.keys = @ \cup {e.key},
             !.lru  = UpdateLRU(@, e.key),
             !.rec[e.key] = [NoRec EXCEPT
                               !.values  = e.values,
                               !.version = e.version,
                               !.gen     = e.gen,
                               !.sqlFlag = IF e.version = 0 THEN "delete"
                                           ELSE "insert_update",
                               !.status  = IF e.version = 0 THEN "missing"
                                           ELSE "ok"]]

\* Mutant of ReplayUpdate: the entry's version is not restored.
ReplayUpdateKeepVersion(st, e) ==
  LET r == st.rec[e.key] IN
  IF e.key \notin st.keys \/ r.status # "ok" \/ r.values = Nil
  THEN [st EXCEPT !.fatal = TRUE]
  ELSE [st EXCEPT !.rec[e.key] = [r EXCEPT
          !.values  = IF e.values = Nil THEN @ ELSE e.values,
          !.gen     = e.gen,
          !.sqlFlag = "insert_update"]]

\* update: merge the entry's fields into an ok record; fatal otherwise.
ReplayUpdate(st, e) ==
  LET r == st.rec[e.key] IN
  IF e.key \notin st.keys \/ r.status # "ok" \/ r.values = Nil
  THEN [st EXCEPT !.fatal = TRUE]
  ELSE [st EXCEPT !.rec[e.key] = [r EXCEPT
          !.values  = IF e.values = Nil THEN @ ELSE e.values,
          !.version = e.version,
          !.gen     = e.gen,
          !.sqlFlag = "insert_update"]]

\* The dispatch on the entry's opcode.  A snapshot of a replayed key
\* replaces its values and version; delete needs an ok record; kick
\* removes the record (removeLRU, delete) and needs one to exist.
ReplayEntry(st, e) ==
  LET k == e.key
      r == st.rec[k]
  IN
  CASE e.op = "snapshot" /\ k \notin st.keys -> ReplaySnapshotNew(st, e)
    [] e.op = "snapshot" ->
         [st EXCEPT !.rec[k] = [r EXCEPT !.values = e.values,
                                  !.version = e.version, !.gen = e.gen,
                                  !.sqlFlag = "insert_update", !.status = "ok"]]
    [] e.op = "update" -> ReplayUpdate(st, e)
    [] e.op = "delete" ->
         IF k \notin st.keys \/ r.status # "ok" THEN [st EXCEPT !.fatal = TRUE]
         ELSE [st EXCEPT !.rec[k] = [r EXCEPT !.values = Nil,
                                  !.version = e.version, !.gen = e.gen,
                                  !.status = "missing", !.sqlFlag = "delete"]]
    [] e.op = "kick" ->
         IF k \notin st.keys THEN [st EXCEPT !.fatal = TRUE]
         ELSE [st EXCEPT !.keys = @ \ {k}, !.lru = RemoveLRU(@, k)]

RECURSIVE ReplayAll(_, _)
ReplayAll(st, es) ==
  IF es = <<>> \/ st.fatal THEN st
  ELSE ReplayAll(ReplayEntry(st, Head(es)), Tail(es))

\* StartReplayBinlog(): the files in index order (sortFileList), replayed
\* from an empty shard.
DiskEntries(d) ==
  FlattenSeq([i \in 1..Cardinality(DOMAIN d) |->
                d[SetToSortSeq(DOMAIN d, <)[i]]])

Replayed(d) ==
  ReplayAll([keys |-> {}, rec |-> [k \in Keys |-> NoRec], lru |-> <<>>,
             fatal |-> FALSE], DiskEntries(d))

-----------------------------------------------------------------------------
(* Initial state: a fresh node whose binlog directory does not exist yet   *)
(* (StartReplayBinlog returns at once), in front of a database whose rows  *)
(* are absent or hold the default value.                                   *)

DbInit == {MissingRow(0),
           [status |-> "ok", values |-> DefaultVal, version |-> 1, gen |-> 0]}

Init ==
  /\ cacheKeys = {}
  /\ ckeys = [k \in Keys |-> NoRec]
  /\ lru = <<>>
  /\ binlogStr = <<>>
  /\ ctxs = <<>>
  /\ cacheBinlogCount = 0
  /\ binlogCount = 0
  /\ binlogQueue = <<>>
  /\ flushing = Nil
  /\ disk = [i \in {} |-> <<>>]
  /\ f = 0
  /\ backFilePath = 0
  /\ fileCounter = 0
  /\ make_snapshot = FALSE
  /\ snapshotList = <<>>
  /\ db \in [Keys -> DbInit]
  /\ phase = "running"
  /\ crashes = 0
  /\ hist = [k \in Keys |-> <<RowOf(db[k])>>]
  /\ acked = [k \in Keys |-> 0]
  /\ loads = 0

-----------------------------------------------------------------------------
(* Loading a record and the SQL update worker (not in src/; spec 3, 4.4)   *)

\* A key that is not cached is loaded from SQL and put at the LRU head.
Load(k) ==
  /\ phase = "running"
  /\ k \notin cacheKeys
  /\ loads < MaxLoads
  /\ loads' = loads + 1
  /\ cacheKeys' = cacheKeys \cup {k}
  /\ ckeys' = [ckeys EXCEPT ![k] = [NoRec EXCEPT !.status  = db[k].status,
                                                 !.values  = db[k].values,
                                                 !.version = db[k].version,
                                                 !.gen     = db[k].gen]]
  /\ lru' = UpdateLRU(lru, k)
  /\ UNCHANGED <<binlogStr, ctxs, cacheBinlogCount, binlogCount, binlogQueue,
                 flushing, disk, f, backFilePath, fileCounter, make_snapshot,
                 snapshotList, db, phase, crashes, hist, acked>>

\* The worker a record was pushed to (pushSqlWriteReq) executes the SQL
\* operation its sqlFlag owes, then clears the flag and the lock.
SqlWriteBack(k) ==
  LET r == ckeys[k] IN
  /\ phase = "running"
  /\ k \in cacheKeys
  /\ r.writeBackLocked
  /\ db' = [db EXCEPT ![k] =
              CASE r.sqlFlag = "none"   -> @
                [] r.sqlFlag = "delete" -> MissingRow(r.gen)
                [] OTHER -> [status |-> "ok", values |-> r.values,
                             version |-> r.version, gen |-> r.gen]]
  /\ ckeys' = [ckeys EXCEPT ![k].sqlFlag = "none", ![k].writeBackLocked = FALSE]
  /\ UNCHANGED <<cacheKeys, lru, binlogStr, ctxs, cacheBinlogCount, binlogCount,
                 binlogQueue, flushing, disk, f, backFilePath, fileCounter,
                 make_snapshot, snapshotList, phase, crashes, hist, acked, loads>>

-----------------------------------------------------------------------------
(* writeBack: a client command applied to a cached record                  *)

\* The write-back flag the command processor gives a command (spec 4.2):
\* delete for Del, insert when the record is missing, update otherwise.
CmdFlag(c, r) ==
  IF c = "del" THEN "delete" ELSE IF r.status = "missing" THEN "insert" ELSE "update"

\* The field value the command writes (ctx.fields); nil for Del.
CmdField(c, v, r) ==
  LET base == IF r.values = Nil THEN DefaultVal ELSE r.values IN
  CASE c = "set"  -> v
    [] c = "incr" -> base + 1
    [] c = "decr" -> base - 1
    [] c = "del"  -> Nil

\* The record after the command: setOKNoLock(version + 1), or for Del
\* setMissingNoLock (spec 4.2: missing, values nil, version + 1).
Applied(c, v, r) ==
  IF c = "del"
  THEN [r EXCEPT !.status = "missing", !.values = Nil, !.version = @ + 1]
  ELSE [r EXCEPT !.status = "ok", !.values = CmdField(c, v, r), !.version = @ + 1]

\* Mutant of LoggedEntry: the snapshot flag is not consulted, so the first
\* write after a load is logged as an update.
LoggedEntryNoSnapshotCheck(k, c, v, r, w) ==
  IF w.sqlFlag = "insert" THEN SnapshotEntry(k, w)
  ELSE IF w.sqlFlag = "delete"
       THEN [op |-> "delete", key |-> k, version |-> 0, values |-> Nil, gen |-> w.gen]
       ELSE [op |-> "update", key |-> k, version |-> w.version,
             values |-> CmdField(c, v, r), gen |-> w.gen]

\* The entry writeBack logs, chosen from the new sqlFlag and the record's
\* snapshot flag before the command (writeBack.go:446-463).
LoggedEntry(k, c, v, r, w) ==
  IF w.sqlFlag = "insert" \/ ~r.snapshot THEN SnapshotEntry(k, w)
  ELSE IF w.sqlFlag = "delete"
       THEN [op |-> "delete", key |-> k, version |-> 0, values |-> Nil, gen |-> w.gen]
       ELSE [op |-> "update", key |-> k, version |-> w.version,
             values |-> CmdField(c, v, r), gen |-> w.gen]

\* writeBack(ctx) with its trailing tryFlush, under the shard and record
\* locks.  The gotErr path replies ERR_ERROR and changes nothing, so it is
\* a guard here.  The command also moves the key to the LRU head.  The
\* ghost gen numbers every write of k, lost ones included.
WriteBack(k, c, v, timeUp) ==
  LET r    == ckeys[k]
      flag == FlagAfter(r.sqlFlag, CmdFlag(c, r))
      w    == [Applied(c, v, r) EXCEPT !.sqlFlag = flag, !.snapshot = TRUE,
                                       !.gen = LatestGen(k) + 1]
  IN
  /\ phase = "running"
  /\ k \in cacheKeys
  /\ LatestGen(k) < MaxWrites
  /\ c = "del" => r.status = "ok"
  /\ CmdField(c, v, r) \in Value
  /\ flag # "err"
  /\ ckeys' = [ckeys EXCEPT ![k] = w]
  /\ lru' = UpdateLRU(lru, k)
  /\ binlogCount' = binlogCount + 1
  /\ SetBuffers(TryFlushed(Append(binlogStr, LoggedEntry(k, c, v, r, w)),
                           Append(ctxs, [key |-> k, gen |-> w.gen]),
                           cacheBinlogCount + 1, binlogQueue, timeUp))
  /\ hist' = [hist EXCEPT ![k] = Append(@, RowOf(w))]
  /\ UNCHANGED <<cacheKeys, flushing, disk, f, backFilePath, fileCounter,
                 make_snapshot, snapshotList, db, phase, crashes, acked, loads>>

\* checkFlush(): the flush timer calls tryFlush under the shard lock.
CheckFlush ==
  /\ phase = "running"
  /\ \E timeUp \in BOOLEAN :
       SetBuffers(TryFlushed(binlogStr, ctxs, cacheBinlogCount, binlogQueue, timeUp))
  /\ UNCHANGED <<cacheKeys, ckeys, lru, binlogCount, flushing, disk, f,
                 backFilePath, fileCounter, make_snapshot, snapshotList, db,
                 phase, crashes, hist, acked, loads>>

-----------------------------------------------------------------------------
(* The flush goroutine (flush), one block at a time, in queue order        *)

\* Mutant of FlushWrite: the block is taken for its replies but its
\* entries are not written when the file had to be created first.
FlushWriteEmptyCreate ==
  /\ phase = "running" /\ flushing = Nil /\ binlogQueue # <<>>
  /\ LET blk == Head(binlogQueue)
         n   == IF f = 0 THEN fileCounter + 1 ELSE f
     IN /\ disk' = IF f = 0 THEN disk @@ (n :> <<>>)
                   ELSE [disk EXCEPT ![f] = @ \o blk.entries]
        /\ f' = n
        /\ fileCounter' = n
        /\ binlogQueue' = Tail(binlogQueue)
        /\ flushing' = blk
  /\ UNCHANGED <<cacheKeys, ckeys, lru, binlogStr, ctxs, cacheBinlogCount,
                 binlogCount, backFilePath, make_snapshot, snapshotList, db,
                 phase, crashes, hist, acked, loads>>

\* First lock hold, then the unlocked write and fsync: create the file if
\* f is nil (fileCounter + 1), then append the block to the current file.
FlushWrite ==
  /\ phase = "running"
  /\ flushing = Nil
  /\ binlogQueue # <<>>
  /\ LET blk == Head(binlogQueue)
         n   == IF f = 0 THEN fileCounter + 1 ELSE f
     IN /\ disk' = IF f = 0 THEN disk @@ (n :> blk.entries)
                   ELSE [disk EXCEPT ![f] = @ \o blk.entries]
        /\ f' = n
        /\ fileCounter' = n
        /\ binlogQueue' = Tail(binlogQueue)
        /\ flushing' = blk
  /\ UNCHANGED <<cacheKeys, ckeys, lru, binlogStr, ctxs, cacheBinlogCount,
                 binlogCount, backFilePath, make_snapshot, snapshotList, db,
                 phase, crashes, hist, acked, loads>>

\* startSnapshot() after its make_snapshot guard: the current file becomes
\* backFilePath, a new file is created and made current, binlogStr is
\* replaced by a new buffer (ctxs and cacheBinlogCount are kept),
\* binlogCount is reset, and the goroutine is given the records in map
\* order.  (Clearing their snapshot flags is done by the caller.)
StartSnapshot(order) ==
  LET n == fileCounter + 1 IN
  /\ make_snapshot' = TRUE
  /\ backFilePath' = f
  /\ fileCounter' = n
  /\ disk' = disk @@ (n :> <<>>)
  /\ f' = n
  /\ binlogStr' = <<>>
  /\ binlogCount' = 0
  /\ snapshotList' = [i \in 1..Len(order) |->
                        [key |-> order[i], live |-> TRUE, rec |-> NoRec]]

\* Whether the second lock hold of flush starts a compaction.
SnapshotDue == binlogCount >= MaxBinlogCount /\ ~make_snapshot

\* Second lock hold (maybe startSnapshot), then the replies: each context
\* of the block is answered and its record, unless already locked, is
\* locked and handed to the SQL update worker.
FlushEnd ==
  /\ phase = "running"
  /\ flushing # Nil
  /\ LET replied == {c.key : c \in Range(flushing.ctxs)}
         reset   == [k \in Keys |-> IF SnapshotDue /\ k \in cacheKeys
                                    THEN [ckeys[k] EXCEPT !.snapshot = FALSE]
                                    ELSE ckeys[k]]
     IN /\ ckeys' = [k \in Keys |-> IF k \in replied
                                    THEN [reset[k] EXCEPT !.writeBackLocked = TRUE]
                                    ELSE reset[k]]
        /\ acked' = [k \in Keys |->
                       Max({acked[k]} \cup {c.gen : c \in {d \in Range(flushing.ctxs) : d.key = k}})]
        /\ IF SnapshotDue
           THEN \E order \in SetToSeqs(cacheKeys) : StartSnapshot(order)
           ELSE UNCHANGED <<make_snapshot, backFilePath, fileCounter, disk, f,
                            binlogStr, binlogCount, snapshotList>>
        /\ flushing' = Nil
  /\ UNCHANGED <<cacheKeys, lru, ctxs, cacheBinlogCount, binlogQueue, db,
                 phase, crashes, hist, loads>>

-----------------------------------------------------------------------------
(* The compaction goroutine of startSnapshot                               *)

\* One iteration, under the shard lock: log a snapshot entry for the record
\* if it is ok or missing and not yet snapshotted since the compaction
\* began.  The goroutine holds the object, so a record kicked meanwhile is
\* still logged as it was when kicked (live = FALSE, rec frozen).
SnapshotStep ==
  /\ phase = "running"
  /\ snapshotList # <<>>
  /\ LET e == Head(snapshotList)
         v == IF e.live THEN ckeys[e.key] ELSE e.rec
     IN /\ snapshotList' = Tail(snapshotList)
        /\ IF v.status \in Status /\ ~v.snapshot
           THEN /\ binlogStr' = Append(binlogStr, SnapshotEntry(e.key, v))
                /\ binlogCount' = binlogCount + 1
                /\ cacheBinlogCount' = cacheBinlogCount + 1
                /\ ckeys' = IF e.live THEN [ckeys EXCEPT ![e.key].snapshot = TRUE]
                            ELSE ckeys
           ELSE UNCHANGED <<binlogStr, binlogCount, cacheBinlogCount, ckeys>>
  /\ UNCHANGED <<cacheKeys, lru, ctxs, binlogQueue, flushing, disk, f,
                 backFilePath, fileCounter, make_snapshot, db, phase, crashes,
                 hist, acked, loads>>

\* After the loop: os.Remove(backFilePath), then make_snapshot = false.
SnapshotFinish ==
  /\ phase = "running"
  /\ make_snapshot
  /\ snapshotList = <<>>
  /\ disk' = [i \in DOMAIN disk \ {backFilePath} |-> disk[i]]
  /\ make_snapshot' = FALSE
  /\ UNCHANGED <<cacheKeys, ckeys, lru, binlogStr, ctxs, cacheBinlogCount,
                 binlogCount, binlogQueue, flushing, f, backFilePath,
                 fileCounter, snapshotList, db, phase, crashes, hist, acked, loads>>

-----------------------------------------------------------------------------
(* Eviction (kickCacheKey, the eviction timer, under the shard lock)       *)

\* One pass of the loop over the victims, tail first: removeLRU, writeKick
\* (a kick entry, then tryFlush) and delete from the map.  A tryFlush that
\* hands a block over also moves nextFlush, so time is no longer up.
KickStep(acc, k) ==
  LET t == TryFlushed(Append(acc.buf, KickEntry(k)), acc.ctxs, acc.cnt + 1,
                      acc.queue, acc.up)
  IN [buf |-> t.buf, ctxs |-> t.ctxs, cnt |-> t.cnt, queue |-> t.queue,
      up |-> acc.up /\ t.queue = acc.queue]

KickCacheKey ==
  /\ phase = "running"
  /\ \E timeUp \in BOOLEAN :
       LET vs == Victims(lru, Cardinality(cacheKeys) - MaxCachePerGroupSize)
           gone == Range(vs)
       IN /\ cacheKeys' = cacheKeys \ gone
          /\ lru' = SelectSeq(lru, LAMBDA x : x \notin gone)
          /\ binlogCount' = binlogCount + Len(vs)
          /\ SetBuffers(FoldLeft(KickStep,
                                 [buf |-> binlogStr, ctxs |-> ctxs,
                                  cnt |-> cacheBinlogCount,
                                  queue |-> binlogQueue, up |-> timeUp], vs))
          /\ snapshotList' =
               [i \in DOMAIN snapshotList |->
                  IF snapshotList[i].key \in gone /\ snapshotList[i].live
                  THEN [snapshotList[i] EXCEPT !.live = FALSE,
                                               !.rec = ckeys[snapshotList[i].key]]
                  ELSE snapshotList[i]]
  /\ UNCHANGED <<ckeys, flushing, disk, f, backFilePath, fileCounter,
                 make_snapshot, db, phase, crashes, hist, acked, loads>>

-----------------------------------------------------------------------------
(* Crash and start-up (StartReplayBinlog)                                  *)

\* The process dies: memory and the unflushed buffers are lost, the files
\* and the database stay.  The global fileCounter starts again at 0.
Crash ==
  /\ phase \in CrashPoints
  /\ crashes < MaxCrashes
  /\ phase' = "crashed"
  /\ crashes' = crashes + 1
  /\ cacheKeys' = {}
  /\ ckeys' = [k \in Keys |-> NoRec]
  /\ lru' = <<>>
  /\ binlogStr' = <<>>
  /\ ctxs' = <<>>
  /\ cacheBinlogCount' = 0
  /\ binlogCount' = 0
  /\ binlogQueue' = <<>>
  /\ flushing' = Nil
  /\ f' = 0
  /\ backFilePath' = 0
  /\ fileCounter' = 0
  /\ make_snapshot' = FALSE
  /\ snapshotList' = <<>>
  /\ UNCHANGED <<disk, db, hist, acked, loads>>

\* replayBinLog over every file in index order; a rejected entry makes
\* StartReplayBinlog fail and the node does not start.
Replay ==
  /\ phase = "crashed"
  /\ LET st == Replayed(disk) IN
       IF st.fatal
       THEN /\ phase' = "failed"
            /\ UNCHANGED <<cacheKeys, ckeys, lru>>
       ELSE /\ phase' = "replayed"
            /\ cacheKeys' = st.keys
            /\ ckeys' = st.rec
            /\ lru' = st.lru
  /\ UNCHANGED <<binlogStr, ctxs, cacheBinlogCount, binlogCount, binlogQueue,
                 flushing, disk, f, backFilePath, fileCounter, make_snapshot,
                 snapshotList, db, crashes, hist, acked, loads>>

\* Replay done: every replayed file is removed.
RemoveReplayed ==
  /\ phase = "replayed"
  /\ disk' = [i \in {} |-> <<>>]
  /\ phase' = "cleaned"
  /\ UNCHANGED <<cacheKeys, ckeys, lru, binlogStr, ctxs, cacheBinlogCount,
                 binlogCount, binlogQueue, flushing, f, backFilePath,
                 fileCounter, make_snapshot, snapshotList, db, crashes, hist,
                 acked, loads>>

\* snapshot(): a new file holding one snapshot entry per ok record (missing
\* records are not logged), written and synced; it becomes the current file.
StartupSnapshot ==
  /\ phase = "cleaned"
  /\ \E order \in SetToSeqs({k \in cacheKeys : ckeys[k].status = "ok"}) :
       LET n == fileCounter + 1 IN
       /\ disk' = disk @@ (n :> [i \in 1..Len(order) |->
                                   SnapshotEntry(order[i], ckeys[order[i]])])
       /\ ckeys' = [k \in Keys |-> IF k \in Range(order)
                                   THEN [ckeys[k] EXCEPT !.snapshot = TRUE]
                                   ELSE ckeys[k]]
       /\ binlogCount' = Len(order)
       /\ f' = n
       /\ fileCounter' = n
  /\ binlogStr' = <<>>
  /\ cacheBinlogCount' = 0
  /\ phase' = "running"
  /\ UNCHANGED <<cacheKeys, lru, ctxs, binlogQueue, flushing, backFilePath,
                 make_snapshot, snapshotList, db, crashes, hist, acked, loads>>

-----------------------------------------------------------------------------
(* Specification                                                           *)

Next ==
  \/ \E k \in Keys, c \in Cmds, v \in Vals, up \in BOOLEAN : WriteBack(k, c, v, up)
  \/ CheckFlush
  \/ FlushWrite
  \/ FlushEnd
  \/ SnapshotStep
  \/ SnapshotFinish
  \/ KickCacheKey
  \/ \E k \in Keys : Load(k)
  \/ \E k \in Keys : SqlWriteBack(k)
  \/ Crash
  \/ Replay
  \/ RemoveReplayed
  \/ StartupSnapshot

\* The flush and eviction timers fire forever, the flush and compaction
\* goroutines run whenever they have work, and the SQL worker eventually
\* executes what it was handed; start-up runs to completion.
Fairness ==
  /\ WF_vars(CheckFlush)
  /\ WF_vars(FlushWrite)
  /\ WF_vars(FlushEnd)
  /\ WF_vars(SnapshotStep)
  /\ WF_vars(SnapshotFinish)
  /\ WF_vars(KickCacheKey)
  /\ \A k \in Keys : WF_vars(SqlWriteBack(k))
  /\ WF_vars(Replay)
  /\ WF_vars(RemoveReplayed)
  /\ WF_vars(StartupSnapshot)

Spec == Init /\ [][Next]_vars /\ Fairness

-----------------------------------------------------------------------------
(* Properties                                                              *)

TypeOK ==
  /\ cacheKeys \subseteq Keys
  /\ ckeys \in [Keys -> Rec]
  /\ lru \in Seq(Keys)
  /\ binlogStr \in Seq(Entry)
  /\ ctxs \in Seq(Ctx)
  /\ cacheBinlogCount \in Nat /\ binlogCount \in Nat
  /\ binlogQueue \in Seq(Block)
  /\ flushing \in Block \cup {Nil}
  /\ DOMAIN disk \subseteq Nat \ {0}
  /\ \A i \in DOMAIN disk : disk[i] \in Seq(Entry)
  /\ f \in Nat /\ backFilePath \in Nat /\ fileCounter \in Nat
  /\ make_snapshot \in BOOLEAN
  /\ db \in [Keys -> DbRow]
  /\ phase \in {"running", "crashed", "replayed", "cleaned", "failed"}
  /\ acked \in [Keys -> Nat]

\* The contexts whose replies are still owed, oldest first: the block the
\* flush goroutine holds, the queued blocks, then the buffer.
PendingCtxs ==
  (IF flushing = Nil THEN <<>> ELSE flushing.ctxs)
    \o FlattenSeq([i \in 1..Len(binlogQueue) |-> binlogQueue[i].ctxs])
    \o ctxs

\* Shard state st recovers key k when the record it holds for k, or the
\* SQL row if it holds none, is the state after some write of k at or
\* after the last acknowledged one.
Recovers(st, k) ==
  LET s == IF k \in st.keys THEN st.rec[k] ELSE db[k] IN
  /\ s.gen >= acked[k]
  /\ s.gen <= LatestGen(k)
  /\ RowOf(s) = hist[k][s.gen + 1]

\* DurableAcks: whenever the serving process dies, StartReplayBinlog over
\* the files on disk succeeds and gives back every write whose reply flush()
\* already sent (writeBack / flush / startSnapshot / kickCacheKey / replay).
\* A death during StartReplayBinlog itself is AckedWritesVisible's case.
DurableAcks ==
  LET st == Replayed(disk) IN
  phase = "running" =>
  /\ ~st.fatal
  /\ \A k \in Keys : Recovers(st, k)

\* AckedWritesVisible: whenever the node serves traffic (also after a
\* crash and StartReplayBinlog), a read of any key returns the state after
\* its last acknowledged write or a later one.
AckedWritesVisible ==
  phase = "running" =>
    \A k \in Keys : Recovers([keys |-> cacheKeys, rec |-> ckeys], k)

\* LruMatchesMap: updateLRU, removeLRU, kickCacheKey and the replay keep
\* the LRU list and the cacheKeys map holding the same keys, once each.
LruMatchesMap ==
  /\ Range(lru) = cacheKeys
  /\ Len(lru) = Cardinality(cacheKeys)

\* EvictedInSql: a key that kickCacheKey has dropped from the map has its
\* latest state in SQL, so the next load reads it back.
EvictedInSql ==
  phase = "running" =>
    \A k \in Keys \ cacheKeys :
      /\ db[k].gen = LatestGen(k)
      /\ RowOf(db[k]) = hist[k][LatestGen(k) + 1]

\* ReplyAfterDurable: flush() releases the reply of a write only when the
\* files on disk hold an entry of that key at least as new as the write
\* (writeBack buffers the entry with the context; startSnapshot swaps the
\* buffer while the contexts stay).
ReplyAfterDurable ==
  [][\A k \in Keys :
       acked'[k] > acked[k] =>
         \E e \in Range(DiskEntries(disk')) : e.key = k /\ e.gen >= acked'[k]]_vars

\* The entries not yet in a file, oldest first.
PendingEntries ==
  (IF flushing = Nil THEN <<>> ELSE flushing.entries)
    \o FlattenSeq([i \in 1..Len(binlogQueue) |-> binlogQueue[i].entries])
    \o binlogStr

\* LogMatchesCache: outside a compaction, the files followed by the blocks
\* and the buffer not yet written replay, without a rejected entry, to
\* exactly the cached records that have been logged since they were loaded
\* (snapshot set), with their current state.  startSnapshot drops the
\* buffer and clears every snapshot flag; its goroutine must log again
\* what was dropped before it ends.
LogMatchesCache ==
  (phase = "running" /\ ~make_snapshot) =>
    LET st == ReplayAll([keys |-> {}, rec |-> [k \in Keys |-> NoRec],
                         lru |-> <<>>, fatal |-> FALSE],
                        DiskEntries(disk) \o PendingEntries)
    IN /\ ~st.fatal
       /\ st.keys = {k \in cacheKeys : ckeys[k].snapshot}
       /\ \A k \in st.keys : /\ RowOf(st.rec[k]) = RowOf(ckeys[k])
                             /\ st.rec[k].gen = ckeys[k].gen

\* The reply queue of AckQueue as this shard holds it: the writes of k are
\* numbered by the ghost gen, the queue is PendingCtxs and the newest
\* answered write of k is acked[k].
AQ == INSTANCE AckQueue WITH issued  <- [k \in Keys |-> LatestGen(k)],
                             pending <- PendingCtxs,
                             replied <- acked

\* RefinesAckQueue: writeBack, tryFlush, the block queue, flush(), a crash,
\* kicks and startSnapshot's buffer swap together take only AckQueue's
\* steps: a reply is sent only for an accepted write, at most once, and in
\* the order writeBack accepted the writes, across keys as well.
RefinesAckQueue == AQ!Safety

\* AckQueueSpec: the same, and every context that stays queued is
\* answered, given the flush timer and the flush goroutine keep running.
AckQueueSpec == AQ!Spec

\* EventuallyWrittenBack: a cached record that owes SQL an operation
\* (sqlFlag # none) eventually has it executed by the SQL update worker,
\* also when the debt comes from replayBinLog rather than from a write
\* whose reply flush() released.
EventuallyWrittenBack ==
  \A k \in Keys :
    (phase = "running" /\ k \in cacheKeys /\ ckeys[k].sqlFlag # "none")
      ~> (k \notin cacheKeys \/ ckeys[k].sqlFlag = "none")

=============================================================================
