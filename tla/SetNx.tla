-------------------------------- MODULE SetNx --------------------------------
(***************************************************************************)
(* The SetNx transaction of the SQL node (src/sqlnode/set_nx.go): onSetNx  *)
(* builds the command, one worker runs sqlTaskSetNx.do (begin, SELECT,     *)
(* INSERT when there is no row, commit on success else roll back) and      *)
(* cmdSetNx.reply answers unless the response deadline has passed.  The    *)
(* worker runs the SetNx commands of one key one at a time (spec.md 4.4:   *)
(* a key's operations go to one worker); another writer of the same table  *)
(* (the cache node's write-back, another SQL node) changes the row between *)
(* the statements.  Any statement may fail, up to MaxFaults times.         *)
(*                                                                         *)
(* The insert helper appendInsertSqlStr is not in the repository: an       *)
(* INSERT that meets a row committed since the SELECT either fails (unique *)
(* key) or affects no row; the model allows both.                          *)
(***************************************************************************)
EXTENDS Integers, Sequences, FiniteSets

CONSTANTS
  Cmds,        \* SetNx commands of one key (model values)
  Vals,        \* the field values a command or a row can carry
  MaxFaults,   \* SQL statements that may fail
  MaxOther,    \* writes of the other writer
  Nil

VARIABLES
  req,         \* req[c]: the fields of SetNx c, or Nil for a request
               \* onSetNx rejects
  sent,        \* commands onSetNx has accepted
  queue,       \* the worker's queue
  cur,         \* the command the worker runs, or Nil
  step,        \* where do() is: "begin", "select", "insert", "end"
  tx,          \* do()'s locals: errCode, version, fields, success
  pending,     \* the row cur's uncommitted INSERT wrote, or Nil
  row,         \* the committed row: Nil or [version, val]
  rows,        \* ghost: every committed row state so far
  created,     \* ghost: commands whose INSERT committed
  respExpired, \* commands whose responseDeadline has passed
  replies,     \* replies[c]: responses sent for c
  faults, others

vars == <<req, sent, queue, cur, step, tx, pending, row, rows, created,
          respExpired, replies, faults, others>>

Row == [version: 1..MaxOther + 1, val: Vals]
\* The answers of onSetNx's checks: no table meta, no fields, a field the
\* table lacks or one given twice.
RejectCodes == {"ERR_INVAILD_TABLE", "ERR_MISSING_FIELDS", "ERR_INVAILD_FIELD"}
Codes == {"ERR_OK", "ERR_RECORD_EXIST", "ERR_SQLERROR"} \cup RejectCodes
Resp == [code: Codes, version: 0..MaxOther + 1, fields: Vals \cup {Nil}]
Locals == [errCode: Codes \cup {Nil}, version: 0..MaxOther + 1,
           fields: Vals \cup {Nil}, success: BOOLEAN, began: BOOLEAN]
NoLocals == [errCode |-> Nil, version |-> 0, fields |-> Nil, success |-> FALSE,
             began |-> FALSE]

-----------------------------------------------------------------------------
(* The worker: sqlTaskSetNx.do and cmdSetNx.reply                          *)

Init ==
  /\ req \in [Cmds -> Vals \cup {Nil}]
  /\ sent = {} /\ queue = <<>> /\ cur = Nil /\ step = "begin"
  /\ tx = NoLocals /\ pending = Nil
  /\ row \in {Nil} \cup [version: {1}, val: Vals]
  /\ rows = IF row = Nil THEN {} ELSE {row}
  /\ created = {} /\ respExpired = {}
  /\ replies = [c \in Cmds |-> <<>>]
  /\ faults = 0 /\ others = 0

\* onSetNx: a request that fails a check is answered at once with that
\* check's code (no deadline test); one with valid, distinct fields becomes
\* a command and is handed to the worker of its key.
OnSetNx(c) ==
  /\ c \notin sent /\ replies[c] = <<>>
  /\ IF req[c] = Nil
     THEN /\ \E code \in RejectCodes :
               replies' = [replies EXCEPT ![c] =
                             <<[code |-> code, version |-> 0, fields |-> Nil]>>]
          /\ UNCHANGED <<sent, queue>>
     ELSE /\ sent' = sent \cup {c}
          /\ queue' = Append(queue, c)
          /\ UNCHANGED replies
  /\ UNCHANGED <<req, cur, step, tx, pending, row, rows, created,
                 respExpired, faults, others>>

\* The worker takes the next command (makeSqlTask: a task of its own).
Take ==
  /\ cur = Nil /\ queue # <<>>
  /\ cur' = Head(queue) /\ queue' = Tail(queue)
  /\ step' = "begin" /\ tx' = NoLocals
  /\ UNCHANGED <<req, sent, pending, row, rows, created, respExpired,
                 replies, faults, others>>

Fail == faults < MaxFaults /\ faults' = faults + 1
NoFail == UNCHANGED faults

\* Mutant of Begin: a failing Beginx returns from do() before cmd.reply.
BeginFailReturns ==
  /\ cur # Nil /\ step = "begin"
  /\ \/ NoFail /\ step' = "select" /\ tx' = [tx EXCEPT !.began = TRUE]
        /\ UNCHANGED cur
     \/ Fail /\ cur' = Nil /\ UNCHANGED <<step, tx>>
  /\ UNCHANGED <<req, sent, queue, pending, row, rows, created,
                 respExpired, replies, others>>

\* db.Beginx(): on error the task replies ERR_SQLERROR at once, with no
\* commit or rollback.
Begin ==
  /\ cur # Nil /\ step = "begin"
  /\ \/ NoFail /\ step' = "select" /\ tx' = [tx EXCEPT !.began = TRUE]
     \/ Fail /\ step' = "end" /\ tx' = [tx EXCEPT !.errCode = "ERR_SQLERROR"]
  /\ UNCHANGED <<req, sent, queue, cur, pending, row, rows, created,
                 respExpired, replies, others>>

\* Mutant of ExistLocals: the answer echoes the request's fields.
ExistLocalsEcho(r) ==
  [errCode |-> "ERR_RECORD_EXIST", version |-> r.version,
   fields |-> req[cur], success |-> TRUE, began |-> TRUE]

\* The locals after a SELECT that found row r.
ExistLocals(r) ==
  [errCode |-> "ERR_RECORD_EXIST", version |-> r.version,
   fields |-> r.val, success |-> TRUE, began |-> TRUE]

\* SELECT version and the request's fields: a row means ERR_RECORD_EXIST
\* with the row's version and fields, and success; no row goes on to the
\* INSERT; any other error is ERR_SQLERROR.
Select ==
  /\ cur # Nil /\ step = "select"
  /\ \/ NoFail /\ row # Nil /\ step' = "end" /\ tx' = ExistLocals(row)
     \/ NoFail /\ row = Nil /\ step' = "insert" /\ UNCHANGED tx
     \/ Fail /\ step' = "end" /\ tx' = [tx EXCEPT !.errCode = "ERR_SQLERROR"]
  /\ UNCHANGED <<req, sent, queue, cur, pending, row, rows, created,
                 respExpired, replies, others>>

\* Mutant of InsertDone: success is set before RowsAffected is checked.
InsertDoneSuccessOnError(c) ==
  \/ /\ NoFail
     /\ tx' = [tx EXCEPT !.errCode = "ERR_OK", !.version = 1, !.success = TRUE]
  \/ /\ Fail
     /\ tx' = [tx EXCEPT !.errCode = "ERR_SQLERROR", !.version = 1, !.success = TRUE]

\* The INSERT went through: n > 0 is ERR_OK with version 1 and success;
\* RowsAffected failing is ERR_SQLERROR without success.
InsertDone(c) ==
  \/ /\ NoFail
     /\ tx' = [tx EXCEPT !.errCode = "ERR_OK", !.version = 1, !.success = TRUE]
  \/ /\ Fail
     /\ tx' = [tx EXCEPT !.errCode = "ERR_SQLERROR"]

\* Mutant of ConflictCodes: the no-row-affected case answers NOTEXIST.
ConflictCodesNotExist == {"ERR_SQLERROR", "ERR_RECORD_NOTEXIST"}

\* The answers of an INSERT that meets a committed row: the insert error, or
\* no row affected ("record exist - impossible").
ConflictCodes == {"ERR_SQLERROR", "ERR_RECORD_EXIST"}

\* INSERT the request's fields with version 1.  A row committed since the
\* SELECT makes it fail (ERR_SQLERROR) or affect no row ("record exist -
\* impossible": ERR_RECORD_EXIST, version 0, no fields); neither succeeds.
Insert ==
  /\ cur # Nil /\ step = "insert"
  /\ step' = "end"
  /\ \/ /\ row = Nil
        /\ pending' = [version |-> 1, val |-> req[cur]]
        /\ InsertDone(cur)
     \/ /\ row = Nil /\ Fail /\ UNCHANGED pending
        /\ tx' = [tx EXCEPT !.errCode = "ERR_SQLERROR"]
     \/ /\ row # Nil /\ NoFail /\ UNCHANGED pending
        /\ \E code \in ConflictCodes :
             tx' = [tx EXCEPT !.errCode = code]
  /\ UNCHANGED <<req, sent, queue, cur, row, rows, created, respExpired,
                 replies, others>>

\* Mutant of Answer: a failing commit leaves the answer as it was.
AnswerKeepOnCommitError(failed) == tx

\* What do() passes to cmd.reply after the commit or rollback: a failing
\* commit is ERR_SQLERROR with version 0 and no fields, a failing rollback
\* ERR_SQLERROR.
Answer(failed) ==
  IF ~failed THEN tx
  ELSE IF tx.success
       THEN [tx EXCEPT !.errCode = "ERR_SQLERROR", !.version = 0, !.fields = Nil]
       ELSE [tx EXCEPT !.errCode = "ERR_SQLERROR"]

\* Commit on success, else roll back; then cmd.reply sends the answer
\* unless the response deadline has passed.
End ==
  /\ cur # Nil /\ step = "end"
  /\ \E committed \in BOOLEAN, failed \in BOOLEAN :
       /\ failed => tx.began
       /\ committed = (tx.success /\ ~failed)
       /\ IF failed THEN Fail ELSE NoFail
       /\ LET ans == Answer(failed)
          IN replies' = IF cur \in respExpired THEN replies
                        ELSE [replies EXCEPT ![cur] = Append(@,
                               [code |-> ans.errCode, version |-> ans.version,
                                fields |-> ans.fields])]
       /\ IF committed /\ pending # Nil
          THEN /\ row' = pending /\ rows' = rows \cup {pending}
               /\ created' = created \cup {cur}
          ELSE UNCHANGED <<row, rows, created>>
  /\ pending' = Nil /\ cur' = Nil /\ tx' = NoLocals
  /\ UNCHANGED <<req, sent, queue, step, respExpired, others>>

-----------------------------------------------------------------------------
(* The environment                                                         *)

\* The other writer inserts, updates or deletes the row; an INSERT of ours
\* not yet committed holds the key, so it waits for it.
OtherWrite ==
  /\ others < MaxOther /\ pending = Nil
  /\ others' = others + 1
  /\ \/ row = Nil /\ \E v \in Vals : row' = [version |-> 1, val |-> v]
     \/ row # Nil /\ \E v \in Vals : row' = [version |-> row.version + 1, val |-> v]
     \/ row # Nil /\ row' = Nil
  /\ rows' = IF row' = Nil THEN rows ELSE rows \cup {row'}
  /\ UNCHANGED <<req, sent, queue, cur, step, tx, pending, created,
                 respExpired, replies, faults>>

\* A command's responseDeadline passes.
ResponseTimeout(c) ==
  /\ c \in sent \ respExpired
  /\ respExpired' = respExpired \cup {c}
  /\ UNCHANGED <<req, sent, queue, cur, step, tx, pending, row, rows,
                 created, replies, faults, others>>

Next ==
  \/ \E c \in Cmds : OnSetNx(c) \/ ResponseTimeout(c)
  \/ Take \/ Begin \/ Select \/ Insert \/ End
  \/ OtherWrite

\* The worker goroutine (processCmd, spec 4.4) keeps running the commands
\* it is given; clients, the other writer and the clock get no fairness.
Fairness == WF_vars(Take \/ Begin \/ Select \/ Insert \/ End)

Spec == Init /\ [][Next]_vars /\ Fairness

-----------------------------------------------------------------------------
(* Properties                                                              *)

TypeOK ==
  /\ req \in [Cmds -> Vals \cup {Nil}]
  /\ sent \subseteq Cmds /\ queue \in Seq(Cmds) /\ cur \in Cmds \cup {Nil}
  /\ step \in {"begin", "select", "insert", "end"}
  /\ tx \in Locals
  /\ pending \in Row \cup {Nil} /\ row \in Row \cup {Nil}
  /\ created \subseteq sent /\ respExpired \subseteq sent
  /\ replies \in [Cmds -> Seq(Resp)]
  /\ faults \in 0..MaxFaults /\ others \in 0..MaxOther

\* A SetNx answered ERR_OK created the row: its INSERT committed (commit and
\* RowsAffected errors in do() must not leave an OK answer behind).
OkMeansCreated ==
  \A c \in Cmds : \A j \in DOMAIN replies[c] :
    replies[c][j].code = "ERR_OK" => c \in created

\* A SetNx answered ERR_SQLERROR changed nothing: whatever statement failed,
\* its INSERT was rolled back, never committed.
ErrorWritesNothing ==
  \A c \in Cmds : \A j \in DOMAIN replies[c] :
    replies[c][j].code = "ERR_SQLERROR" => c \notin created

\* An ERR_RECORD_EXIST answer with a version carries a row the table really
\* held (version and fields of one committed state), never a mix of the
\* request and the row.
ExistShowsCommittedRow ==
  \A c \in Cmds : \A j \in DOMAIN replies[c] :
    (replies[c][j].code = "ERR_RECORD_EXIST" /\ replies[c][j].version > 0) =>
      [version |-> replies[c][j].version, val |-> replies[c][j].fields] \in rows

\* SetNxAnswered: every SetNx that onSetNx hands to the worker is answered,
\* whichever statement of do() fails and however the other writer changes
\* the row, unless its response deadline passes first (cmd.reply then
\* stays silent and the client's own timeout answers).
SetNxAnswered ==
  \A c \in Cmds : c \in sent ~> (replies[c] # <<>> \/ c \in respExpired)

=============================================================================
