\* index.html is empty: a read that ends on the final '\r' of its 200,
\* with LF as the byte past the end of in_, completes the response a byte
\* early; the real '\n' then leads the next status line, and the client
\* hands the callback of the next request a response the server never wrote.
CONSTANTS
  NumReqs <- MCNumReqs
  MaxRead <- MCMaxRead
  Files <- MCFilesEmpty
  Stray <- MCStray
  WriteErrors = FALSE
SPECIFICATION Spec
INVARIANT
  ResponsesMatchCallbacks
CHECK_DEADLOCK FALSE
