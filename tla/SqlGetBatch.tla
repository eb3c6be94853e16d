----------------------------- MODULE SqlGetBatch -----------------------------
(***************************************************************************)
(* One command processor of the SQL node (src/sqlnode/cmd_processor.go)    *)
(* draining its BlockQueue of Get commands, combining contiguous Gets of   *)
(* one key into one sqlTaskGet (get.go: makeSqlTask, combine, do, reply)   *)
(* and the cancellation and deadline checks of cmd.go.  The client         *)
(* connection (isCmdExist / remCmdBySeqNo) and sqlTaskBase.reply are not   *)
(* in the repository; they are modelled from spec.md 4.4 and 5.            *)
(* The table metadata (TableMeta) is read by get(), makeSqlTask and do(),  *)
(* each with its own getTableMeta, while dispatchMessage runs              *)
(* reloadTableMeta on the network goroutine (message.go).                  *)
(*                                                                         *)
(* do() builds "select <fields>where __key__ = '<key>'" with no FROM       *)
(* clause (get.go:171-186), so the query fails on every task and every     *)
(* Get that reaches the database is answered ERR_SQLERROR; the rows are    *)
(* therefore not modelled, only the query a task sends and the codes.      *)
(***************************************************************************)
EXTENDS TableMeta, SequencesExt

CONSTANTS
  Cmds,       \* the Get commands clients send (model values)
  Keys,       \* uniKeys
  Fields,     \* field names a Get may list
  TableOf,    \* TableOf[k]: the table part of uniKey k (SplitUniKey)
  Versions,   \* versions a request can carry
  NoVersion   \* a Get without a version (version == nil)

ASSUME NoVersion \notin Versions

VARIABLES
  req,      \* req[c]: what Get c asks for (fixed once chosen)
  sent,     \* Gets handed to pushCmd so far
  conn,     \* Gets the client connection still waits for (isCmdExist)
  expired,  \* Gets whose processDeadline has passed
  queue,    \* the processor's cmdQueue
  batch,    \* the list the last cmdQueue.Get returned
  i,        \* the loop index into batch
  task,     \* the task being built (Nil = nil)
  passed,   \* ghost: Gets the loop has gone past
  replies,  \* replies[c]: the error codes of the responses sent for c
  query,    \* the last task do() built its SELECT from (Nil = none yet)
  crashed   \* a nil dereference panicked the process

vars == <<req, sent, conn, expired, queue, batch, i, task, passed, replies,
          query, meta, crashed>>

-----------------------------------------------------------------------------
(* Data                                                                    *)

\* A GetReq: all fields, or a list of fields; an optional version.
Req == [key: Keys, getAll: BOOLEAN, fields: SUBSET Fields,
        version: Versions \cup {NoVersion}]

\* Requests a client can send: a getAll request lists no fields, a field
\* request lists at least one (get() rejects invalid fields).
ValidReq == {r \in Req : r.getAll = (r.fields = {})}

\* sqlTaskGet: the query it will run and the Gets it answers.
Task == [key: Keys, getAll: BOOLEAN, getFields: SUBSET Fields,
         getWithVersion: BOOLEAN, versionOp: {"!=", ">="},
         version: Versions \cup {0}, cmds: Seq(Cmds)]

\* The codes a Get can be answered with.  cmdGet.reply sends a code other
\* than ERR_OK without fields.
Codes == {"ERR_SQLERROR", "ERR_INVAILD_TABLE", "ERR_INVAILD_FIELD"}

-----------------------------------------------------------------------------
(* Helpers translated from the code                                        *)

\* isCancel(): the connection no longer holds the command.
IsCancel(c) == c \notin conn

\* isTimeout(): processDeadline.After(time.Now()), true while the deadline
\* is still ahead.
IsTimeout(c) == c \notin expired

\* Mutant of MakeSqlTask: the request's version is copied without the nil
\* check.
MakeSqlTaskRawVersion(c) ==
  [key |-> req[c].key, getAll |-> req[c].getAll, getFields |-> req[c].fields,
   getWithVersion |-> req[c].version # NoVersion, versionOp |-> "!=",
   version |-> req[c].version, cmds |-> <<c>>]

\* makeSqlTask(): a task for one Get; a versioned Get filters with "!=".
MakeSqlTask(c) ==
  [key |-> req[c].key, getAll |-> req[c].getAll, getFields |-> req[c].fields,
   getWithVersion |-> req[c].version # NoVersion, versionOp |-> "!=",
   version |-> IF req[c].version = NoVersion THEN 0 ELSE req[c].version,
   cmds |-> <<c>>]

\* combine(): a Get of another key is refused.  An unversioned Get drops the
\* version filter; a versioned Get with a smaller version than the task's
\* switches the filter to ">=" that version.  Fields are united, getAll wins.
Combinable(t, c) == req[c].key = t.key

\* Mutant of Combine: an unversioned Get leaves the version filter on.
CombineKeepFilter(t, c) ==
  LET r == req[c] IN
  [t EXCEPT
     !.version   = IF r.version # NoVersion /\ t.getWithVersion /\ r.version < t.version
                   THEN r.version ELSE @,
     !.versionOp = IF r.version # NoVersion /\ t.getWithVersion /\ r.version < t.version
                   THEN ">=" ELSE @,
     !.getAll    = @ \/ r.getAll,
     !.getFields = IF r.getAll THEN {} ELSE IF t.getAll THEN @ ELSE @ \cup r.fields,
     !.cmds      = Append(@, c)]

Combine(t, c) ==
  LET r == req[c] IN
  [t EXCEPT
     !.getWithVersion = IF r.version = NoVersion THEN FALSE ELSE @,
     !.version   = IF r.version # NoVersion /\ t.getWithVersion /\ r.version < t.version
                   THEN r.version ELSE @,
     !.versionOp = IF r.version # NoVersion /\ t.getWithVersion /\ r.version < t.version
                   THEN ">=" ELSE @,
     !.getAll    = @ \/ r.getAll,
     !.getFields = IF r.getAll THEN {} ELSE IF t.getAll THEN @ ELSE @ \cup r.fields,
     !.cmds      = Append(@, c)]

\* The installed metadata of the task's table, as do() loads it.
TaskMeta(t) == GetTableMeta(meta, TableOf[t.key])

\* do(): a getAll query selects every field of the metadata installed now;
\* otherwise the task's fields, each through getFieldMeta.  A missing table
\* or field meta is dereferenced (t_meta.getAllFields(),
\* fieldMeta.getReceiver()) and the process panics.
DoDerefsNil(t) ==
  IF TaskMeta(t) = Nil THEN TRUE
  ELSE ~t.getAll /\ ~CheckFields(TaskMeta(t), t.getFields)

\* do(): the SELECT fails (no FROM clause), row.Scan returns that error
\* and errCode is ERR_SQLERROR; cmdGet.reply passes it through unchanged.
RespFor(t, c) == "ERR_SQLERROR"

\* sqlTaskBase.reply over the task's Gets, each through beforeReply: a Get
\* still held by the connection is removed from it and answered unless
\* isTimeout(); a cancelled Get is not answered (beforeReply has no return
\* on that path; the spec drops such a Get).
Answered(t) == {c \in Range(t.cmds) : ~IsCancel(c) /\ ~IsTimeout(c)}

ReplyTask(t) ==
  /\ replies' = [c \in Cmds |-> IF c \in Answered(t)
                                THEN Append(replies[c], RespFor(t, c))
                                ELSE replies[c]]
  /\ conn' = conn \ Range(t.cmds)


-----------------------------------------------------------------------------
(* Initial state and actions                                               *)

Init ==
  /\ req \in [Cmds -> ValidReq]
  /\ sent = {}
  /\ conn = {}
  /\ expired = {}
  /\ queue = <<>>
  /\ batch = <<>>
  /\ i = 1
  /\ task = Nil
  /\ passed = {}
  /\ replies = [c \in Cmds |-> <<>>]
  /\ query = Nil
  /\ MetaInit
  /\ crashed = FALSE

Get(c) ==
  LET tm == GetTableMeta(meta, TableOf[req[c].key]) IN
  /\ c \notin sent
  /\ sent' = sent \cup {c}
  /\ IF tm = Nil \/ ~CheckFields(tm, req[c].fields)
     THEN /\ replies' = [replies EXCEPT ![c] = Append(@,
               IF tm = Nil THEN "ERR_INVAILD_TABLE" ELSE "ERR_INVAILD_FIELD")]
          /\ UNCHANGED <<conn, queue>>
     ELSE /\ conn' = conn \cup {c}
          /\ queue' = Append(queue, c)
          /\ UNCHANGED replies
  /\ UNCHANGED <<req, expired, batch, i, task, passed, query, meta, crashed>>

\* dispatchMessage runs reloadTableMeta on the network goroutine.
Reload ==
  /\ ReloadTableMeta
  /\ UNCHANGED <<req, sent, conn, expired, queue, batch, i, task, passed,
                 replies, query, crashed>>

\* The client gives up on a Get (the connection forgets its seqno).
Cancel(c) ==
  /\ c \in conn
  /\ conn' = conn \ {c}
  /\ UNCHANGED <<req, sent, expired, queue, batch, i, task, passed,
                 replies, query, meta, crashed>>

\* Time passes a Get's processDeadline.
Expire(c) ==
  /\ c \in sent \ expired
  /\ expired' = expired \cup {c}
  /\ UNCHANGED <<req, sent, conn, queue, batch, i, task, passed,
                 replies, query, meta, crashed>>

\* cmdQueue.Get(): once the previous list is done, take everything queued
\* (blocking while the queue is empty).  task is a fresh nil each round.
TakeBatch ==
  /\ i > Len(batch)
  /\ queue # <<>>
  /\ batch' = queue
  /\ queue' = <<>>
  /\ i' = 1
  /\ task' = Nil
  /\ UNCHANGED <<req, sent, conn, expired, passed, replies, query, meta,
                 crashed>>

\* The loop body of process() for list[i], as the helpers below split it:
\* a cancelled or timed-out Get is skipped; otherwise it starts a task
\* (makeSqlTask) or is combined into the current one; unless it was
\* combined and is not the last of the list, the task is executed (do).
Skipped(c) == IsCancel(c) \/ IsTimeout(c)

StepTask(c) ==
  IF task = Nil THEN MakeSqlTask(c)
  ELSE IF Combinable(task, c) THEN Combine(task, c) ELSE task

Executes(c) == ~((task = Nil \/ Combinable(task, c)) /\ i < Len(batch))

\* makeSqlTask reads getTableMeta(c.table).getFieldCount(); do() reads the
\* metadata again.
Panics(c) ==
  /\ ~Skipped(c)
  /\ \/ task = Nil /\ GetTableMeta(meta, TableOf[req[c].key]) = Nil
     \/ Executes(c) /\ DoDerefsNil(StepTask(c))

\* One pass of the loop body that does not panic: the task is built, or
\* executed, answered (reply) and dropped.  A Get that combine refuses is
\* not put in any task.
ProcessStep ==
  /\ i <= Len(batch)
  /\ ~Panics(batch[i])
  /\ LET c == batch[i] IN
     IF Skipped(c)
     THEN UNCHANGED <<task, conn, replies, query>>
     ELSE IF Executes(c)
          THEN /\ ReplyTask(StepTask(c))
               /\ query' = StepTask(c)
               /\ task' = Nil
          ELSE /\ task' = StepTask(c)
               /\ UNCHANGED <<conn, replies, query>>
  /\ passed' = passed \cup {batch[i]}
  /\ i' = i + 1
  /\ UNCHANGED <<req, sent, expired, queue, batch, meta, crashed>>

\* The pass of the loop body that dereferences a nil meta: the panic is not
\* recovered and the process dies.
ProcessPanic ==
  /\ i <= Len(batch)
  /\ Panics(batch[i])
  /\ crashed' = TRUE
  /\ UNCHANGED <<req, sent, conn, expired, queue, batch, i, task, passed,
                 replies, query, meta>>

Next ==
  /\ ~crashed
  /\ \/ \E c \in Cmds : Get(c) \/ Cancel(c) \/ Expire(c)
     \/ Reload
     \/ TakeBatch
     \/ ProcessStep
     \/ ProcessPanic

Spec == Init /\ [][Next]_vars

-----------------------------------------------------------------------------
(* Properties                                                              *)

TypeOK ==
  /\ req \in [Cmds -> ValidReq]
  /\ sent \subseteq Cmds /\ conn \subseteq sent /\ expired \subseteq sent
  /\ queue \in Seq(Cmds) /\ batch \in Seq(Cmds)
  /\ i \in 1..Len(batch) + 1
  /\ task \in Task \cup {Nil}
  /\ passed \subseteq sent
  /\ replies \in [Cmds -> Seq(Codes)]
  /\ query \in Task \cup {Nil}
  /\ meta \in {CreateTableMetasByTableDef(d) : d \in LoadableDefs}
  /\ crashed \in BOOLEAN

\* combine() merges Gets of one key into one SELECT: the query do() builds
\* for a task, however the Gets in it were ordered and whichever started
\* it, is for their key, drops the version filter if any of them has no
\* version, and selects every field each of them listed (all fields if one
\* asked for all).
QueryCoversGets ==
  query # Nil =>
    \A c \in Range(query.cmds) :
      /\ req[c].key = query.key
      /\ req[c].version = NoVersion => ~query.getWithVersion
      /\ req[c].getAll => query.getAll
      /\ query.getAll \/ req[c].fields \subseteq query.getFields

MetaLookupsSucceed == ~crashed

=============================================================================
