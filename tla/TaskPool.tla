------------------------------ MODULE TaskPool ------------------------------
(***************************************************************************)
(* What base::ThreadPool (src/thread_pool.hpp) promises its users: a task *)
(* handed to addTask "is executed on an undetermined worker thread", each *)
(* worker runs one task at a time, and a task that started runs to the    *)
(* end.  Nothing is promised about the order of tasks, nor that a pending *)
(* task is ever started once stop() has been called.                      *)
(***************************************************************************)
EXTENDS FiniteSets

CONSTANTS Workers, Tasks, NoTask

VARIABLES
  pending,   \* tasks added and not yet started
  active,    \* the task each worker is running, or NoTask
  done       \* tasks that have run

vars == <<pending, active, done>>

Running == {active[w] : w \in Workers} \ {NoTask}

Init ==
  /\ pending = {} /\ done = {}
  /\ active = [w \in Workers |-> NoTask]

Submit(t) ==
  /\ t \notin pending \cup Running \cup done
  /\ pending' = pending \cup {t}
  /\ UNCHANGED <<active, done>>

Start(w, t) ==
  /\ active[w] = NoTask /\ t \in pending
  /\ pending' = pending \ {t}
  /\ active' = [active EXCEPT ![w] = t]
  /\ UNCHANGED done

Finish(w) ==
  /\ active[w] # NoTask
  /\ done' = done \cup {active[w]}
  /\ active' = [active EXCEPT ![w] = NoTask]
  /\ UNCHANGED pending

Next ==
  \/ \E t \in Tasks : Submit(t)
  \/ \E w \in Workers : \E t \in Tasks : Start(w, t)
  \/ \E w \in Workers : Finish(w)

Spec == Init /\ [][Next]_vars /\ \A w \in Workers : WF_vars(Finish(w))

=============================================================================
