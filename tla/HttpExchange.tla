---------------------------- MODULE HttpExchange ----------------------------
(***************************************************************************)
(* An HTTP client connection talking to a server connection over one TCP  *)
(* connection (src/http_connection.cpp, src/connection.cpp).  The client  *)
(* connects (Connection::startConnect, doConnect, connDone), then sends    *)
(* NumReqs requests with asyncSend, which queues the response callback     *)
(* and writes Request::toBuffer to out_.  The server's doRead appends the  *)
(* next bytes to its in_ and runs HTTPServerConnection::readDone, which    *)
(* parses requests and writes a response for each (handleRequest); the    *)
(* client's doRead does the same with HTTPClientConnection::readDone,      *)
(* which parses responses and hands each to the callback at the front of   *)
(* response_cbs_.                                                          *)
(*                                                                         *)
(* What a side writes to out_ is sent by startWrite and doWrite: the       *)
(* socket takes all of it, or, when WriteErrors, the write fails ("Error  *)
(* on write") and doWrite breaks with writing_ still set, so that every    *)
(* later startWrite returns at once and out_ is never sent again.  The     *)
(* socket's send buffer is not bounded here: EAGAIN, the write callback   *)
(* and the zero-byte write they allow are the Connection module's.  A read *)
(* returns the next 1..MaxRead bytes; getChar() past the end of in_ reads *)
(* a byte of Stray.                                                        *)
(***************************************************************************)
EXTENDS HttpParser

CONSTANTS
  NumReqs,   \* the requests the client sends
  MaxRead,   \* the most bytes one read() returns
  Files,     \* the server's files: name -> content
  Stray,     \* what the byte after the end of in_ may hold
  WriteErrors \* may a write on a connected socket fail?

\* "x" is any other byte, "q" spells the address "quit".
Addresses == {<<>>, <<"x">>, <<"q">>}
Quit == <<"q">>
IndexHtml == <<"i">>
Chars == {"x", "q", "i", "o", "e", SP, SL, CR, LF, LengthTag} \cup Digits

\* Request::toBuffer for "GET /<a> HTTP/1.1": method, address and version,
\* then "\r\n\r\n".
toBuffer(a) == <<"x", SP, SL>> \o a \o <<SP, "x", CR, LF, CR, LF>>

(* The Response handleRequest writes for address a: "" is expanded to     *)
(* index.html; a file it can open gives "200 OK" ("o") with the file as   *)
(* body, any other a "503 Bad Request" ("e") with a fixed HTML page.      *)
BadRequestHtml == <<"x", "x">>
Opened(a) == IF a = <<>> THEN IndexHtml ELSE a
Answer(a) ==
  IF Opened(a) \in DOMAIN Files
  THEN [statusLine |-> <<"o">>, body |-> Files[Opened(a)]]
  ELSE [statusLine |-> <<"e">>, body |-> BadRequestHtml]

\* Its bytes: the status line, the other headers (one line here),
\* Content-Length, the empty line, the body.
Digit(n) == CHOOSE d \in Digits : DigitValue[d] = n
ResponseBytes(r) ==
  r.statusLine \o <<CR, LF, "x", CR, LF, LengthTag, Digit(Len(r.body)), CR, LF, CR, LF>>
  \o r.body

VARIABLES
  reqs,       \* the address of each request the client will send
  nsent,      \* asyncSend calls made
  cbs,        \* response_cbs_: the callbacks waiting, by request number
  cout,       \* the client's out_
  cwriting,   \* the client's writing_, left set by a failed doWrite
  up,         \* the bytes the client's socket took, in order
  sread,      \* how many of them the server's read() returned
  sin,        \* the server's in_
  served,     \* the addresses the server's handleRequest was called with
  sconn,      \* the server connection: "reading", or why doRead stopped
  sout,       \* the server's out_
  swriting,   \* the server's writing_, left set by a failed doWrite
  down,       \* the bytes the server's socket took, in order
  cread,      \* how many of them the client's read() returned
  cin,        \* the client's in_
  delivered,  \* [cb, resp]: the responses handed to callbacks, in order
  cconn,      \* the client connection's state
  connectCb,  \* has connect_cb_ been called?
  user,       \* the thread in HTTPService::connect: "waiting", "returned", or
              \* "sending" in a later HTTPClientConnection::send
  waitsFor    \* the request whose response that send() waits for, or 0

vars == <<reqs, nsent, cbs, cout, cwriting, up, sread, sin, served, sconn,
          sout, swriting, down, cread, cin, delivered, cconn, connectCb, user,
          waitsFor>>
server == <<sread, sin, served, sconn, sout, swriting, down>>
clientOut == <<cout, cwriting, up>>
client == <<cread, cin, delivered>>
userThread == <<user, waitsFor>>

-----------------------------------------------------------------------------
(* Connection::startWrite after bytes were appended to out_, on one side's *)
(* [out, sock, writing]: it returns at once while writing_ is set;         *)
(* otherwise it sets writing_ and doWrite writes out_ until it is empty    *)
(* and clears writing_, or, when fail, the first write fails and the loop  *)
(* breaks with writing_ set and out_ unsent (connection.cpp:249-252).     *)
startWrite(w, fail) ==
  IF w.writing \/ fail THEN [w EXCEPT !.writing = TRUE]
  ELSE [out |-> <<>>, sock |-> w.sock \o w.out, writing |-> FALSE]

(* The server.  handleRequest: "quit" calls stop() and returns false;     *)
(* any other address gets its response appended to out_ under m_write_,   *)
(* then startWrite; fail says whether that startWrite's write fails.       *)
handleRequest(a, w, fail) ==
  IF a = Quit THEN [ok |-> FALSE, w |-> w]
  ELSE [ok |-> TRUE,
        w |-> startWrite([w EXCEPT !.out = @ \o ResponseBytes(Answer(a))], fail)]

(* readDone: parse, and on 0 consume bytesRead() and handle the request;   *)
(* -1 makes doRead stop with "error", +1 returns to reading, and a false  *)
(* handleRequest stops it with "quit".  w is the server's [out, sock,     *)
(* writing] and f the request whose startWrite fails (0 for none).  The   *)
(* result is [in, served, w, conn].                                        *)
\* Mutant: readDone returns after handling one request.
serverReadDoneOnce(s, srv, w, junk, f) ==
  LET r == parseRequest(s, junk)
      h == handleRequest(r.v, w, f = Len(srv) + 1)
  IN  IF r.x = "error" THEN [in |-> s, served |-> srv, w |-> w, conn |-> "error"]
      ELSE IF r.x = "incomplete" THEN [in |-> s, served |-> srv, w |-> w, conn |-> "reading"]
      ELSE [in |-> SubSeq(s, r.p + 1, Len(s)), served |-> Append(srv, r.v),
            w |-> h.w, conn |-> IF h.ok THEN "reading" ELSE "quit"]

RECURSIVE serverReadDone(_, _, _, _, _)
serverReadDone(s, srv, w, junk, f) ==
  LET r == parseRequest(s, junk)
      h == handleRequest(r.v, w, f = Len(srv) + 1)
      rest == SubSeq(s, r.p + 1, Len(s))
  IN  IF r.x = "error" THEN [in |-> s, served |-> srv, w |-> w, conn |-> "error"]
      ELSE IF r.x = "incomplete" THEN [in |-> s, served |-> srv, w |-> w, conn |-> "reading"]
      ELSE IF ~h.ok THEN [in |-> rest, served |-> Append(srv, r.v), w |-> w, conn |-> "quit"]
      ELSE serverReadDone(rest, Append(srv, r.v), h.w, junk, f)

\* The requests whose startWrite may fail.
Failures == IF WriteErrors THEN 0..NumReqs ELSE {0}

\* One turn of the server's doRead loop with bytes_read > 0.
ServerRead(k, junk, f) ==
  /\ sconn = "reading"
  /\ sread + k <= Len(up)
  /\ LET rd == serverReadDone(sin \o SubSeq(up, sread + 1, sread + k), served,
                             [out |-> sout, sock |-> down, writing |-> swriting],
                             junk, f)
     IN  /\ sin' = rd.in
         /\ served' = rd.served
         /\ sout' = rd.w.out /\ down' = rd.w.sock /\ swriting' = rd.w.writing
         /\ sconn' = rd.conn
  /\ sread' = sread + k
  /\ UNCHANGED <<reqs, nsent, cbs, clientOut, client, cconn, connectCb, userThread>>

\* read() returns 0 or fails with an error other than EAGAIN.
ServerReadEnds ==
  /\ sconn = "reading"
  /\ sconn' = "closed"
  /\ UNCHANGED <<reqs, nsent, cbs, clientOut, sread, sin, served, sout, swriting, down, client, cconn, connectCb, userThread>>

-----------------------------------------------------------------------------
(* The client.  connect() stores connect_cb_ and runs startConnect, whose  *)
(* connect() on the non-blocking socket has four outcomes.                 *)

(* HTTPService::asyncConnect finds the IOService stopped and returns      *)
(* before making the connection: connect_cb_ is never called.              *)
AsyncConnectStopped ==
  /\ cconn = "new"
  /\ cconn' = "none"
  /\ UNCHANGED <<reqs, nsent, cbs, clientOut, server, client, connectCb, userThread>>

\* socket() fails: in_error_ is set and startConnect returns at once.
StartConnectNoSocket ==
  /\ cconn = "new"
  /\ cconn' = "failed"
  /\ UNCHANGED <<reqs, nsent, cbs, clientOut, server, client, connectCb, userThread>>

(* connect() fails at once: the socket is closed and doConnect runs        *)
(* connDone, which does not start reading and calls connect_cb_; the       *)
(* release() that matches startConnect's acquire() deletes the Connection. *)
StartConnectFails ==
  /\ cconn = "new"
  /\ cconn' = "deleted"
  /\ connectCb' = TRUE
  /\ UNCHANGED <<reqs, nsent, cbs, clientOut, server, client, userThread>>

\* EINPROGRESS: a Descriptor is made with doConnect as its write upcall.
StartConnectPending ==
  /\ cconn = "new"
  /\ cconn' = "connecting"
  /\ UNCHANGED <<reqs, nsent, cbs, clientOut, server, client, connectCb, userThread>>

(* connect() succeeds at once (POSIX allows it): doConnect finds no error  *)
(* and calls io_desc_->setUpCalls with io_desc_ still NULL.                *)
StartConnectAtOnce ==
  /\ cconn = "new"
  /\ cconn' = "crashed"
  /\ UNCHANGED <<reqs, nsent, cbs, clientOut, server, client, connectCb, userThread>>

\* The socket turns writable and doConnect reads SO_ERROR: an error ends
\* as StartConnectFails does.
DoConnectFails ==
  /\ cconn = "connecting"
  /\ cconn' = "deleted"
  /\ connectCb' = TRUE
  /\ UNCHANGED <<reqs, nsent, cbs, clientOut, server, client, userThread>>

(* No error: setUpCalls(doRead, doWrite), connDone starts reading and     *)
(* calls connect_cb_, then release() leaves the read's reference.         *)
DoConnectOk ==
  /\ cconn = "connecting"
  /\ cconn' = "reading"
  /\ connectCb' = TRUE
  /\ UNCHANGED <<reqs, nsent, cbs, clientOut, server, client, userThread>>

(* HTTPService::connect: asyncConnect makes the HTTPClientConnection and  *)
(* calls connect() with connectInternal as connect_cb_, then n.wait().     *)
(* connectInternal stores the connection in *user_conn and notifies, and  *)
(* the waiting thread returns.                                            *)
ConnectReturns ==
  /\ user = "waiting"
  /\ connectCb
  /\ user' = "returned"
  /\ UNCHANGED <<reqs, nsent, cbs, clientOut, server, client, cconn, connectCb, waitsFor>>

(* asyncSend, once connected: under m_response_ it queues the callback    *)
(* and, under m_write_, writes the request to out_; then startWrite, whose *)
(* write fails when fail.                                                  *)
asyncSend(fail) ==
  /\ cconn = "reading"
  /\ nsent < NumReqs
  /\ cbs' = Append(cbs, nsent + 1)
  /\ LET w == startWrite([out |-> cout \o toBuffer(reqs[nsent + 1]), sock |-> up,
                          writing |-> cwriting], fail)
     IN  cout' = w.out /\ up' = w.sock /\ cwriting' = w.writing
  /\ nsent' = nsent + 1
  /\ UNCHANGED <<reqs, server, client, cconn, connectCb>>

\* Whether a client write may fail.
WriteFails == IF WriteErrors THEN BOOLEAN ELSE {FALSE}

\* asyncSend from any other thread.
AsyncSend == \E fail \in WriteFails : asyncSend(fail) /\ UNCHANGED userThread

(* send(), on the thread connect() returned to: asyncSend with             *)
(* receiveInternal as the callback, then n->wait().                        *)
Send ==
  /\ user = "returned"
  /\ \E fail \in WriteFails : asyncSend(fail)
  /\ user' = "sending" /\ waitsFor' = nsent + 1

(* receiveInternal stores the response and notifies under the             *)
(* Notification's mutex; wait() returns and send() deletes n.              *)
SendReturns ==
  /\ user = "sending"
  /\ \E i \in 1..Len(delivered) : delivered[i].cb = waitsFor
  /\ user' = "returned" /\ waitsFor' = 0
  /\ UNCHANGED <<reqs, nsent, cbs, clientOut, server, client, cconn, connectCb>>

\* handleResponse: pop the front callback, if any, and call it.
handleResponse(q, d, resp) ==
  IF q = <<>> THEN [cbs |-> q, dlv |-> d]
  ELSE [cbs |-> Tail(q), dlv |-> Append(d, [cb |-> Head(q), resp |-> resp])]

(* readDone: parse a response; -1 stops doRead with "error", +1 returns   *)
(* to reading; 0 consumes bytesRead(), hands the response over and, unless *)
(* the iterator was at the end of in_, parses again.                       *)
\* Mutant: readDone returns after one response, as if it.eob() held.
clientReadDoneOnce(s, q, d, junk) ==
  LET r == parseResponse(s, junk)
      h == handleResponse(q, d, r.v)
  IN  IF r.x = "error" THEN [in |-> s, cbs |-> q, dlv |-> d, conn |-> "error"]
      ELSE IF r.x = "incomplete" THEN [in |-> s, cbs |-> q, dlv |-> d, conn |-> "reading"]
      ELSE [in |-> SubSeq(s, r.p + 1, Len(s)), cbs |-> h.cbs, dlv |-> h.dlv, conn |-> "reading"]

RECURSIVE clientReadDone(_, _, _, _)
clientReadDone(s, q, d, junk) ==
  LET r == parseResponse(s, junk)
      h == handleResponse(q, d, r.v)
      rest == SubSeq(s, r.p + 1, Len(s))
  IN  IF r.x = "error" THEN [in |-> s, cbs |-> q, dlv |-> d, conn |-> "error"]
      ELSE IF r.x = "incomplete" THEN [in |-> s, cbs |-> q, dlv |-> d, conn |-> "reading"]
      ELSE IF eob(s, r.p) THEN [in |-> rest, cbs |-> h.cbs, dlv |-> h.dlv, conn |-> "reading"]
      ELSE clientReadDone(rest, h.cbs, h.dlv, junk)

\* One turn of the client's doRead loop with bytes_read > 0.
ClientRead(k, junk) ==
  /\ cconn = "reading"
  /\ cread + k <= Len(down)
  /\ LET rd == clientReadDone(cin \o SubSeq(down, cread + 1, cread + k), cbs, delivered, junk)
     IN  /\ cin' = rd.in
         /\ cbs' = rd.cbs
         /\ delivered' = rd.dlv
         /\ cconn' = rd.conn
  /\ cread' = cread + k
  /\ UNCHANGED <<reqs, nsent, clientOut, server, connectCb, userThread>>

\* read() returns 0 (the server closed) or fails.
ClientReadEnds ==
  /\ cconn = "reading"
  /\ cconn' = "closed"
  /\ UNCHANGED <<reqs, nsent, cbs, clientOut, server, client, connectCb, userThread>>

\* A read of 1..MaxRead bytes, on either side.
ServerReads == \E k \in 1..MaxRead, junk \in Stray, f \in Failures : ServerRead(k, junk, f)
ClientReads == \E k \in 1..MaxRead, junk \in Stray : ClientRead(k, junk)

-----------------------------------------------------------------------------
Init ==
  /\ reqs \in [1..NumReqs -> Addresses]
  /\ nsent = 0
  /\ cbs = <<>>
  /\ cout = <<>> /\ cwriting = FALSE
  /\ up = <<>>
  /\ sread = 0
  /\ sin = <<>>
  /\ served = <<>>
  /\ sconn = "reading"
  /\ sout = <<>> /\ swriting = FALSE
  /\ down = <<>>
  /\ cread = 0
  /\ cin = <<>>
  /\ delivered = <<>>
  /\ cconn = "new"
  /\ connectCb = FALSE
  /\ user = "waiting"
  /\ waitsFor = 0

\* Connection::startConnect: socket(), then connect() and its three outcomes.
StartConnect ==
  \/ StartConnectNoSocket \/ StartConnectFails \/ StartConnectPending
  \/ StartConnectAtOnce

Next ==
  \/ AsyncConnectStopped
  \/ StartConnect \/ DoConnectFails \/ DoConnectOk
  \/ ConnectReturns
  \/ AsyncSend \/ Send \/ SendReturns
  \/ ServerReads \/ ClientReads
  \/ ServerReadEnds
  \/ ClientReadEnds

Spec == Init /\ [][Next]_vars

ConnectSteps == StartConnect \/ DoConnectFails \/ DoConnectOk

(* Weak fairness of the reads, WF_vars(ServerReads) and                   *)
(* WF_vars(ClientReads), is written out with ENABLED spelled as the state  *)
(* predicate it equals (a read of one byte is always possible when a byte *)
(* is waiting), which spares TLC an ENABLED over the recursive readDone.  *)
ServerCanRead == sconn = "reading" /\ sread < Len(up)
ClientCanRead == cconn = "reading" /\ cread < Len(down)

(* Once a server connection has stopped reading, its release() closes     *)
(* the socket (or the process exits after /quit): the client's read()     *)
(* returns 0 once it has the bytes already sent.                           *)
PeerGone == sconn # "reading" /\ cread = Len(down)

(* startConnect runs inside connect(), and doConnect is the upcall the    *)
(* IOManager's loop makes once the socket turns writable; Notification's  *)
(* notify() wakes the thread in wait().  Bytes in a socket make epoll      *)
(* report the edge, and the pool runs doRead, which reads until EAGAIN.   *)
(* Nothing obliges a read to fail, a peer to close, or a user to send.    *)
FairSpec ==
  /\ Spec
  /\ WF_vars(ConnectSteps) /\ WF_vars(ConnectReturns) /\ WF_vars(SendReturns)
  /\ (<>[]ServerCanRead => []<><<ServerReads>>_vars)
  /\ (<>[]ClientCanRead => []<><<ClientReads>>_vars)
  /\ WF_vars(PeerGone /\ ClientReadEnds)

-----------------------------------------------------------------------------

TypeOK ==
  /\ reqs \in [1..NumReqs -> Addresses]
  /\ nsent \in 0..NumReqs
  /\ cbs \in Seq(1..NumReqs)
  /\ up \in Seq(Chars) /\ down \in Seq(Chars)
  /\ cout \in Seq(Chars) /\ sout \in Seq(Chars)
  /\ cwriting \in BOOLEAN /\ swriting \in BOOLEAN
  /\ sread \in 0..Len(up) /\ cread \in 0..Len(down)
  /\ sin \in Seq(Chars) /\ cin \in Seq(Chars)
  /\ served \in Seq(Addresses)
  /\ delivered \in Seq([cb : 1..NumReqs, resp : [statusLine : Seq(Chars), body : Seq(Chars)]])
  /\ sconn \in {"reading", "error", "quit", "closed"}
  /\ cconn \in {"new", "none", "failed", "connecting", "crashed", "deleted",
                "reading", "error", "closed"}
  /\ connectCb \in BOOLEAN
  /\ user \in {"waiting", "returned", "sending"}
  /\ waitsFor \in 0..NumReqs

\* The length of the first n requests the client wrote.
Boundary(n) == Len(FlattenSeq([i \in 1..n |-> toBuffer(reqs[i])]))

(* The server's handleRequest sees the client's addresses in the order    *)
(* asyncSend wrote them, none skipped, repeated or misread: each          *)
(* consume(bytesRead()) leaves in_ at the start of the next request, and  *)
(* the address is the bytes between "/" and the following space,         *)
(* whatever the split into reads.                                          *)
AddressesServedInOrder ==
  IsPrefix(served, [i \in 1..nsent |-> reqs[i]])

(* The server's readDone handles every request in_ holds before it goes   *)
(* back to reading: while the connection reads, the request after the     *)
(* last one handled has not fully arrived (parseRequest never answers     *)
(* "need more input" for a complete request, and the loop does not stop   *)
(* after one).                                                             *)
NothingLeftBehind ==
  sconn = "reading" /\ Len(served) < nsent => sread < Boundary(Len(served) + 1)

(* Each response the client's readDone parses goes to the callback of the *)
(* request it answers, with the status line and body handleRequest wrote: *)
(* asyncSend queues callbacks in the order it writes requests, the server *)
(* answers them in order, and handleResponse pops one callback per        *)
(* response, however the responses are split into reads.                  *)
ResponsesMatchCallbacks ==
  \A i \in 1..Len(delivered) : delivered[i] = [cb |-> i, resp |-> Answer(reqs[i])]

(* HTTPService::connect returns whatever the outcome of the connect: the   *)
(* connect callback "is always issued, independently of the result of the *)
(* connect itself" (http_connection.hpp), and connectInternal's notify()  *)
(* ends n.wait().  A connect that crashes the process is left aside.      *)
ConnectCompletes == <>(user = "returned" \/ cconn = "crashed")

(* A synchronous send() returns once the response to its request has come *)
(* back, whatever requests other threads pipelined before it and however  *)
(* the bytes are split into reads: both readDone loops parse everything    *)
(* their in_ holds, and handleResponse hands each response to the callback *)
(* at the front, receiveInternal's for this one.  There are two ways out.  *)
(* The connection ends: nothing calls the callbacks left in response_cbs_  *)
(* when the client's doRead stops, so a send() whose response never comes  *)
(* (a /quit, a reset, a parse error) waits for good.  Or a write failed on *)
(* either side: doWrite broke with writing_ set, the side keeps reading,   *)
(* and what it appends to out_ afterwards is never sent, so the peer waits *)
(* on an open connection.                                                  *)
SendCompletes ==
  user = "sending" ~> \/ user = "returned"
                      \/ cconn \in {"error", "closed"}
                      \/ cwriting /\ cout # <<>>
                      \/ swriting /\ sout # <<>>

=============================================================================
