--------------------------- MODULE MCHttpExchange ---------------------------
(* Two requests for "", "x" or "quit": requests of 9 or 10 bytes and      *)
(* responses of 13 or 14.  A read returns up to 16 bytes, enough to bring *)
(* the end of one message and the whole of the next in one read, so both  *)
(* readDone loops must go round.  index.html holds one byte and "x" is    *)
(* not a file, so one response is a 200 and the other a 503; MCFilesEmpty *)
(* gives index.html no body.  The byte past the end of in_ is LF or       *)
(* anything else: getChar()'s result is only compared with '\n'.          *)
EXTENDS HttpExchange

MCNumReqs == 2
MCMaxRead == 16
MCFiles == IndexHtml :> <<"x">>
MCFilesEmpty == IndexHtml :> <<>>
MCStray == {"x", LF}
=============================================================================
