\* Three workers (one can run a request callback while another is in
\* doAccept and the third is stopping the service) and the callbacks: one
\* quit request, a doAccept run and two request callbacks; the other cfgs
\* use two workers, or two concurrent quit requests.
CONSTANTS
  NULL = NULL
  Workers = {w1, w2, w3}
  Tasks = {q1, a1, r1, r2}
  QuitTasks = {q1}
  AcceptTasks = {a1}
  AcceptErrors = TRUE

SPECIFICATION SvcSpec

INVARIANTS
  SvcTypeOK
  TasksRunBeforeTeardown

PROPERTIES
  StopEndsOrWorkerStuck

\* An accept error and /quit both call IOService::stop(), and the second
\* caller waits forever (the hang of the twoquits cfg): the system really
\* stops there.  StopEndsOrWorkerStuck checks that no other stuck state exists.
CHECK_DEADLOCK FALSE
