CONSTANTS
  NumReqs <- MCNumReqs
  MaxRead <- MCMaxRead
  Files <- MCFilesEmpty
  Stray <- MCStray
  WriteErrors = TRUE
SPECIFICATION FairSpec
INVARIANTS
  TypeOK
  AddressesServedInOrder
  NothingLeftBehind
PROPERTY
  SendCompletes
\* Both doRead loops end for good once read() fails or returns 0, or a
\* readDone fails; a failed or crashed connect ends the client.
CHECK_DEADLOCK FALSE
