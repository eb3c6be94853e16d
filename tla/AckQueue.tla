------------------------------ MODULE AckQueue ------------------------------
(***************************************************************************)
(* What a shard promises about the replies to the writes it accepts,      *)
(* stated without files, blocks or timers.  writeBack accepts a write of   *)
(* a key and queues its reply context; flush() answers the oldest queued   *)
(* contexts, any number at a time, in the order they were accepted; a      *)
(* dying process loses every context still queued (the client's deadline *)
(* answers those).  ProcessUnit implements this specification under the   *)
(* mapping in MCProcessUnit.                                               *)
(***************************************************************************)
EXTENDS Integers, Sequences, SequencesExt

CONSTANTS Keys, MaxWrites

VARIABLES
  issued,   \* issued[k]: writes of k accepted so far
  pending,  \* contexts accepted and not yet answered, oldest first
  replied   \* replied[k]: the newest write of k that was answered

avars == <<issued, pending, replied>>

Ctx == [key: Keys, gen: Nat]

Init ==
  /\ issued = [k \in Keys |-> 0]
  /\ pending = <<>>
  /\ replied = [k \in Keys |-> 0]

\* writeBack: the write gets the next number of its key and its context is
\* queued behind every context accepted before it.
Accept(k) ==
  /\ issued[k] < MaxWrites
  /\ issued' = [issued EXCEPT ![k] = @ + 1]
  /\ pending' = Append(pending, [key |-> k, gen |-> issued[k] + 1])
  /\ UNCHANGED replied

\* flush(): the n oldest contexts are answered.
Reply(n) ==
  LET done == SubSeq(pending, 1, n) IN
  /\ n \in 1..Len(pending)
  /\ pending' = SubSeq(pending, n + 1, Len(pending))
  /\ replied' = [k \in Keys |->
                   Max({replied[k]} \cup {c.gen : c \in {d \in Range(done) : d.key = k}})]
  /\ UNCHANGED issued

\* The process dies: the queued contexts are never answered.
Lose ==
  /\ pending # <<>>
  /\ pending' = <<>>
  /\ UNCHANGED <<issued, replied>>

Next ==
  \/ \E k \in Keys : Accept(k)
  \/ \E n \in 1..Len(pending) : Reply(n)
  \/ Lose

Safety == Init /\ [][Next]_avars

\* A context that stays queued is eventually answered: the flush timer and
\* goroutine keep running while the process lives.
Spec == Safety /\ WF_avars(\E n \in 1..Len(pending) : Reply(n))

=============================================================================
