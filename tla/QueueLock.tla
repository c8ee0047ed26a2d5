------------------------------ MODULE QueueLock ------------------------------
(***************************************************************************)
(* What a FIFO lock promises: threads queue up in the order they ask, the  *)
(* head of the queue holds the lock, and only the head leaves.  A thread   *)
(* that asks is served before anyone who asks after it.                    *)
(***************************************************************************)
EXTENDS Sequences, SequencesExt

CONSTANT Threads

VARIABLE queue

Init == queue = <<>>

Enqueue(t) ==
  /\ t \notin Range(queue)
  /\ queue' = Append(queue, t)

Dequeue ==
  /\ queue # <<>>
  /\ queue' = Tail(queue)

Next == (\E t \in Threads : Enqueue(t)) \/ Dequeue

Spec == Init /\ [][Next]_queue

=============================================================================
