---------------------------- MODULE ThreadBarrier ---------------------------
(***************************************************************************)
(* base::Barrier (src/thread_barrier.hpp): a reusable barrier for          *)
(* num_participants_ threads built on two POSIX semaphores, arrival_       *)
(* (opened at 1) and departure_ (opened at 0), and counter_.  wait() has   *)
(* an arrival phase, which counts the thread in under arrival_ and opens   *)
(* departure_ for the last one, and a departure phase, which counts it out *)
(* under departure_ and opens arrival_ again for the next round after the  *)
(* last one.  sem_wait is a step that blocks while the semaphore is 0.     *)
(* The names that sem_open is given, and its failure, are left out.        *)
(*                                                                         *)
(* pc and ret follow the call convention of SpinlockMCS.                   *)
(***************************************************************************)
EXTENDS Naturals

CONSTANT NumParticipants

VARIABLES pc, ret, arrival, departure, counter

barrierVars == <<arrival, departure, counter>>

BarrierLabels == {"b_arrive", "b_count_in", "b_depart", "b_count_out"}

\* Barrier(num_participants): counter_(0), sem_open(arrival_, 1),
\* sem_open(departure_, 0).
barrierInit ==
  /\ arrival = 1
  /\ departure = 0
  /\ counter = 0

\* The call b->wait() by t, to go on at label r.
Wait(t, r) ==
  /\ pc' = [pc EXCEPT ![t] = "b_arrive"]
  /\ ret' = [ret EXCEPT ![t] = r]

\* sem_wait(arrival_);
WaitArrival(t) ==
  /\ pc[t] = "b_arrive"
  /\ arrival > 0
  /\ arrival' = arrival - 1
  /\ pc' = [pc EXCEPT ![t] = "b_count_in"]
  /\ UNCHANGED <<ret, departure, counter>>

\* counter_ += 1;  if (counter_ < num_participants_) sem_post(arrival_);
\* else sem_post(departure_);
CountIn(t) ==
  /\ pc[t] = "b_count_in"
  /\ counter' = counter + 1
  /\ IF counter + 1 < NumParticipants
     THEN arrival' = arrival + 1 /\ UNCHANGED departure
     ELSE departure' = departure + 1 /\ UNCHANGED arrival
  /\ pc' = [pc EXCEPT ![t] = "b_depart"]
  /\ UNCHANGED ret

\* sem_wait(departure_);
WaitDeparture(t) ==
  /\ pc[t] = "b_depart"
  /\ departure > 0
  /\ departure' = departure - 1
  /\ pc' = [pc EXCEPT ![t] = "b_count_out"]
  /\ UNCHANGED <<ret, arrival, counter>>

\* counter_ -= 1;  if (counter_ > 0) sem_post(departure_);
\* else sem_post(arrival_);  and wait() returns.
CountOut(t) ==
  /\ pc[t] = "b_count_out"
  /\ counter' = counter - 1
  /\ IF counter - 1 > 0
     THEN departure' = departure + 1 /\ UNCHANGED arrival
     ELSE arrival' = arrival + 1 /\ UNCHANGED departure
  /\ pc' = [pc EXCEPT ![t] = ret[t]]
  /\ UNCHANGED ret

barrierStep(t) ==
  WaitArrival(t) \/ CountIn(t) \/ WaitDeparture(t) \/ CountOut(t)

=============================================================================
