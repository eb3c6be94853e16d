------------------------------- MODULE KvProxy -------------------------------
(***************************************************************************)
(* The KV proxy (src/kvproxy/proxy.go): a client request is numbered with  *)
(* the proxy-wide seqno (Start), handled by processor seqno % N (onReq:    *)
(* rewrite the seqno, forward to the kvnode, register a pendingReq with a  *)
(* deadline timer, all under the processor lock), and paired with the      *)
(* kvnode's response by seqno (kvproxy.onResp, reqProcessor.onResp: the    *)
(* response is sent only if the timer could still be cancelled); the timer *)
(* callback (onTimeout) removes the pendingReq.                            *)
(*                                                                         *)
(* A session first runs the login handshake (Start's goroutine):          *)
(* recvLoginReq reads the client's length-prefixed LoginReq into a         *)
(* 1024-byte buffer, sendLoginResp answers it, and only then does the      *)
(* session read requests.  A login frame stands for its payload length;   *)
(* the client's bytes may arrive split at the header or one byte short.   *)
(*                                                                         *)
(* A request stands for its session and its oriSeqno.  The router         *)
(* (forward2kvnode) and the kvnode are not in the repository: forwarding   *)
(* may fail, and the kvnode answers a forwarded request once or never (it  *)
(* drops it after the deadline of timeout/2 it is given).  The kendynet    *)
(* timer is modelled by its contract: Cancel returns TRUE exactly when the *)
(* callback has not been started.                                          *)
(***************************************************************************)
EXTENDS Integers, Sequences, FiniteSets

CONSTANTS
  Sessions,   \* client connections accepted by the listener
  SessionOf,  \* SessionOf[r]: the session request r arrives on
  PbSizes,    \* payload lengths of the login frames clients send
  BufSize,    \* len(buffer) in recvLoginReq (1024)
  Reqs,       \* client requests (a session and its oriSeqno)
  Malformed,  \* requests whose header fails to parse (or lenUnikey = 0)
  NProc,      \* len(this.processors)
  Nil

ASSUME /\ Malformed \subseteq Reqs /\ NProc \in Nat \ {0}
       /\ SessionOf \in [Reqs -> Sessions] /\ PbSizes \subseteq 0..65535

Procs   == 0..NProc - 1
Seqnos  == 1..Cardinality(Reqs)
Timers  == {"none", "armed", "fired", "cancelled", "done"}
\* The session goroutine: in recvLoginReq, in sendLoginResp, reading
\* requests (session.Start), or closed.
Phases  == {"reading", "responding", "started", "closed"}
\* A message between proxy and kvnode: its seqno, and (a ghost) the client
\* request it was made from.
Msg     == [seqno: Seqnos, req: Reqs]

VARIABLES
  login,     \* login[s]: where session s's goroutine is
  frame,     \* frame[s]: the payload length the client put in its header
  sent,      \* sent[s]: bytes of the login frame the client has written
  w,         \* w[s]: recvLoginReq's w, bytes read into the buffer
  seqno,     \* kvproxy.seqno
  sn,        \* sn[r]: the seqno Start gave r (0: not yet read)
  handled,   \* requests onReq has run for
  pending,   \* pending[p][s]: the request of processors[p].pendingReqs[s]
  timer,     \* timer[r]: the state of r's deadlineTimer
  toNode,    \* requests forwarded and not yet answered or dropped
  fromNode,  \* kvnode responses on their way to kvproxy.onResp
  replies    \* responses sent to clients: to whom, and made from which request

lvars == <<login, frame, sent, w>>
pvars == <<seqno, sn, handled, pending, timer, toNode, fromNode, replies>>
vars == <<login, frame, sent, w, seqno, sn, handled, pending, timer, toNode, fromNode, replies>>

Init ==
  /\ login = [x \in Sessions |-> "reading"]
  /\ frame \in [Sessions -> PbSizes]
  /\ sent = [x \in Sessions |-> 0]
  /\ w = [x \in Sessions |-> 0]
  /\ seqno = 0
  /\ sn = [r \in Reqs |-> 0]
  /\ handled = {}
  /\ pending = [p \in Procs |-> [s \in Seqnos |-> Nil]]
  /\ timer = [r \in Reqs |-> "none"]
  /\ toNode = {}
  /\ fromNode = {}
  /\ replies = <<>>

\* processors[seqno % len(processors)] (Start, kvproxy.onResp).
Route(s) == s % NProc

\* deadlineTimer.Cancel(): TRUE while the callback has not been started.
Cancelled(st) == st = "armed"

\* The login frame: a 2-byte big-endian payload length, then the payload.
FrameLen(x) == frame[x] + 2

\* recvLoginReq's pbsize after w bytes: read from the header once w >= 2.
PbSize(x, n) == IF n >= 2 THEN frame[x] ELSE 0

\* The client writes its login frame, possibly in two parts: cut inside the
\* header, right after it, or one byte short of the end.
ClientSend(x) ==
  /\ \E k \in {1, 2, FrameLen(x) - 1, FrameLen(x)} :
       /\ sent[x] < k /\ k <= FrameLen(x)
       /\ sent' = [sent EXCEPT ![x] = k]
  /\ UNCHANGED <<login, frame, w>>
  /\ UNCHANGED pvars

\* Mutant of ReadLogin: the frame is taken as complete only once more than
\* pbsize + 2 bytes are in.
ReadLoginOffByOne(x) ==
  LET n == IF sent[x] < BufSize THEN sent[x] ELSE BufSize IN
  /\ login[x] = "reading"
  /\ w[x] < BufSize /\ w[x] < sent[x]
  /\ w' = [w EXCEPT ![x] = n]
  /\ login' = [login EXCEPT ![x] =
                  IF n > PbSize(x, n) + 2 THEN "responding" ELSE "reading"]
  /\ UNCHANGED <<frame, sent>>
  /\ UNCHANGED pvars

\* One round of recvLoginReq's loop with bytes to read: conn.Read(buffer[w:])
\* reads what has arrived, as far as the buffer reaches; pbsize is taken
\* from the header once two bytes are in, and once w >= pbsize + 2 the
\* payload is unmarshalled and (either way the inverted check goes) no
\* error is returned, so verifyLogin and sendLoginResp follow.  Once w
\* reaches len(buffer), Read(buffer[w:]) returns 0 and nil at once and the
\* loop goes round without changing anything: no step of the model.
ReadLogin(x) ==
  LET n == IF sent[x] < BufSize THEN sent[x] ELSE BufSize IN
  /\ login[x] = "reading"
  /\ w[x] < BufSize /\ w[x] < sent[x]
  /\ w' = [w EXCEPT ![x] = n]
  /\ login' = [login EXCEPT ![x] =
                  IF n >= PbSize(x, n) + 2 THEN "responding" ELSE "reading"]
  /\ UNCHANGED <<frame, sent>>
  /\ UNCHANGED pvars

\* Nothing to read: Read fails when the 5-second read deadline passes or
\* the client has closed its end (a client that stops sending may do
\* either), recvLoginReq returns the error and the session is
\* closed ("login failed").
ReadFails(x) ==
  /\ login[x] = "reading"
  /\ w[x] < BufSize /\ w[x] = sent[x]
  /\ login' = [login EXCEPT ![x] = "closed"]
  /\ UNCHANGED <<frame, sent, w>>
  /\ UNCHANGED pvars

\* verifyLogin (always true), then sendLoginResp: its write may fail (5 s
\* write deadline, broken connection) and the session is closed; otherwise
\* the compress flag is stored and session.Start begins reading requests.
SendLoginResp(x) ==
  /\ login[x] = "responding"
  /\ \E ok \in BOOLEAN :
       login' = [login EXCEPT ![x] = IF ok THEN "started" ELSE "closed"]
  /\ UNCHANGED <<frame, sent, w>>
  /\ UNCHANGED pvars

\* Mutant of Number: a non-atomic increment of this.seqno; two sessions
\* may read the same value and one update is lost.
NumberRacy(r) ==
  /\ login[SessionOf[r]] = "started"
  /\ sn[r] = 0
  /\ seqno < Cardinality(Reqs)
  /\ sn' = [sn EXCEPT ![r] = seqno + 1]
  /\ seqno' \in {seqno, seqno + 1}
  /\ UNCHANGED <<lvars, handled, pending, timer, toNode, fromNode, replies>>

\* The session's receive callback, once session.Start has run:
\* atomic.AddInt64(&this.seqno, 1).
Number(r) ==
  /\ login[SessionOf[r]] = "started"
  /\ sn[r] = 0
  /\ seqno < Cardinality(Reqs)
  /\ sn' = [sn EXCEPT ![r] = seqno + 1]
  /\ seqno' = seqno + 1
  /\ UNCHANGED <<lvars, handled, pending, timer, toNode, fromNode, replies>>

\* onReq: a malformed header returns at once; otherwise, under the lock,
\* forward2kvnode and, if it succeeded, the pendingReq and its timer.  A
\* failed forward answers nothing (the error branch is empty).
OnReq(r) ==
  LET s == sn[r]
      p == Route(s)
  IN
  /\ s # 0
  /\ r \notin handled
  /\ handled' = handled \cup {r}
  /\ \/ /\ r \in Malformed
        /\ UNCHANGED <<pending, timer, toNode>>
     \/ /\ r \notin Malformed
        /\ \E forwarded \in BOOLEAN :
             IF forwarded
             THEN /\ toNode' = toNode \cup {[seqno |-> s, req |-> r]}
                  /\ pending' = [pending EXCEPT ![p][s] = r]
                  /\ timer' = [timer EXCEPT ![r] = "armed"]
             ELSE UNCHANGED <<pending, timer, toNode>>
  /\ UNCHANGED <<lvars, seqno, sn, fromNode, replies>>

\* The kvnode answers a forwarded request, or drops it.
NodeAnswer(m) ==
  /\ m \in toNode
  /\ toNode' = toNode \ {m}
  /\ fromNode' = fromNode \cup {m}
  /\ UNCHANGED <<lvars, seqno, sn, handled, pending, timer, replies>>

NodeDrop(m) ==
  /\ m \in toNode
  /\ toNode' = toNode \ {m}
  /\ UNCHANGED <<lvars, seqno, sn, handled, pending, timer, fromNode, replies>>

\* Mutant of OnResp: the `ok` of the map lookup is not checked.
OnRespNoLookupCheck(m) ==
  LET p == Route(m.seqno)
      r == pending[p][m.seqno]
  IN
  /\ m \in fromNode
  /\ fromNode' = fromNode \ {m}
  /\ IF r = Nil \/ Cancelled(timer[r])
     THEN /\ pending' = [pending EXCEPT ![p][m.seqno] = Nil]
          /\ timer' = IF r = Nil THEN timer ELSE [timer EXCEPT ![r] = "cancelled"]
          /\ replies' = Append(replies, [to |-> r, of |-> m.req])
     ELSE UNCHANGED <<pending, timer, replies>>
  /\ UNCHANGED <<lvars, seqno, sn, handled, toNode>>

\* Mutant of OnResp: the timer is cancelled and the response sent, but the
\* pendingReq is not deleted.
OnRespNoDelete(m) ==
  LET p == Route(m.seqno)
      r == pending[p][m.seqno]
  IN
  /\ m \in fromNode
  /\ fromNode' = fromNode \ {m}
  /\ IF r # Nil /\ Cancelled(timer[r])
     THEN /\ timer' = [timer EXCEPT ![r] = "cancelled"]
          /\ replies' = Append(replies, [to |-> r, of |-> m.req])
          /\ UNCHANGED pending
     ELSE UNCHANGED <<pending, timer, replies>>
  /\ UNCHANGED <<lvars, seqno, sn, handled, toNode>>

\* kvproxy.onResp and reqProcessor.onResp, under the processor lock: look
\* the seqno up; if the timer can still be cancelled, delete the entry,
\* restore oriSeqno and send to the request's session.
OnResp(m) ==
  LET p == Route(m.seqno)
      r == pending[p][m.seqno]
  IN
  /\ m \in fromNode
  /\ fromNode' = fromNode \ {m}
  /\ IF r # Nil /\ Cancelled(timer[r])
     THEN /\ pending' = [pending EXCEPT ![p][m.seqno] = Nil]
          /\ timer' = [timer EXCEPT ![r] = "cancelled"]
          /\ replies' = Append(replies, [to |-> r, of |-> m.req])
     ELSE UNCHANGED <<pending, timer, replies>>
  /\ UNCHANGED <<lvars, seqno, sn, handled, toNode>>

\* The timer manager starts the callback (before it takes the lock).
TimerFire(r) ==
  /\ timer[r] = "armed"
  /\ timer' = [timer EXCEPT ![r] = "fired"]
  /\ UNCHANGED <<lvars, seqno, sn, handled, pending, toNode, fromNode, replies>>

\* onTimeout, under the processor lock: delete pendingReqs[this.seqno].
OnTimeout(r) ==
  /\ timer[r] = "fired"
  /\ timer' = [timer EXCEPT ![r] = "done"]
  /\ pending' = [pending EXCEPT ![Route(sn[r])][sn[r]] = Nil]
  /\ UNCHANGED <<lvars, seqno, sn, handled, toNode, fromNode, replies>>

Next ==
  \/ \E x \in Sessions :
       ClientSend(x) \/ ReadLogin(x) \/ ReadFails(x)
         \/ SendLoginResp(x)
  \/ \E r \in Reqs : Number(r) \/ OnReq(r) \/ TimerFire(r) \/ OnTimeout(r)
  \/ \E m \in toNode : NodeAnswer(m) \/ NodeDrop(m)
  \/ \E m \in fromNode : OnResp(m)

\* Sessions read their requests, the connection to the kvnode delivers its
\* responses to onResp, and the timer manager runs every due timer.
Fairness ==
  /\ \A x \in Sessions :
       WF_vars(ReadLogin(x)) /\ WF_vars(ReadFails(x)) /\ WF_vars(SendLoginResp(x))
  /\ \A r \in Reqs : WF_vars(Number(r)) /\ WF_vars(OnReq(r))
  /\ \A r \in Reqs : WF_vars(TimerFire(r)) /\ WF_vars(OnTimeout(r))
  /\ \A m \in Msg : WF_vars(OnResp(m))

Spec == Init /\ [][Next]_vars /\ Fairness

-----------------------------------------------------------------------------
(* Properties                                                              *)

TypeOK ==
  /\ login \in [Sessions -> Phases]
  /\ frame \in [Sessions -> PbSizes]
  /\ sent \in [Sessions -> 0..65537] /\ w \in [Sessions -> 0..BufSize]
  /\ \A x \in Sessions : w[x] <= sent[x] /\ sent[x] <= FrameLen(x)
  /\ seqno \in 0..Cardinality(Reqs)
  /\ sn \in [Reqs -> 0..Cardinality(Reqs)]
  /\ handled \subseteq Reqs
  /\ pending \in [Procs -> [Seqnos -> Reqs \cup {Nil}]]
  /\ timer \in [Reqs -> Timers]
  /\ toNode \subseteq Msg /\ fromNode \subseteq Msg
  /\ replies \in Seq([to: Reqs, of: Reqs])

\* RepliesToOwnRequest: a client receives at most one response per
\* request, and it is the kvnode's answer to that request, however the
\* sessions' numbering (Start), onReq, timeouts and late kvnode responses
\* interleave.
RepliesToOwnRequest ==
  \A i \in 1..Len(replies) :
    /\ replies[i].to = replies[i].of
    /\ \A j \in 1..Len(replies) : j # i => replies[j].to # replies[i].to

\* PendingCleared: every pendingReq registered by onReq is eventually
\* removed, by onResp or by its timer's onTimeout, so the pendingReqs maps
\* do not grow without bound.
PendingCleared ==
  \A p \in Procs : \A s \in Seqnos :
    pending[p][s] # Nil ~> pending[p][s] = Nil

\* LoginDecided: the goroutine Start runs for a new connection eventually
\* leaves recvLoginReq and sendLoginResp: the session is started or closed,
\* whatever the client sends and however it is split, since a silent
\* client runs into the read deadline.
LoginDecided ==
  \A x \in Sessions : login[x] = "reading" ~> login[x] \in {"started", "closed"}

=============================================================================
