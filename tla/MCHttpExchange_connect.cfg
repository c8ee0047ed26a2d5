\* The thread in HTTPService::connect waits for the connect callback under
\* fairness of the connect steps: when socket() fails, startConnect returns
\* with in_error_ set and the callback is never issued.
CONSTANTS
  NumReqs <- MCNumReqs
  MaxRead <- MCMaxRead
  Files <- MCFiles
  Stray <- MCStray
  WriteErrors = TRUE
SPECIFICATION FairSpec
PROPERTY
  ConnectCompletes
CHECK_DEADLOCK FALSE
