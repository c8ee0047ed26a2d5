----------------------------- MODULE ByteStream -----------------------------
(***************************************************************************)
(* What a base::Buffer promises (buffer.hpp, and section 4.1 of the        *)
(* design): a FIFO of bytes.  Each step is one call, recorded in `call`    *)
(* with its buffer and argument: write appends its bytes, consume drops    *)
(* up to n bytes from the front, appendFrom moves the other buffer's bytes *)
(* to the back and empties it, copyFrom copies them; reserve leaves the    *)
(* bytes alone.                                                            *)
(***************************************************************************)
EXTENDS Naturals, Sequences

CONSTANTS
  Bufs,    \* the buffers
  Data     \* the byte values a producer writes

VARIABLES
  stream,  \* the bytes each buffer holds, front first
  call     \* the call that made the last step

Min2(a, b) == IF a < b THEN a ELSE b

Write(b, s) ==
  /\ call' = [op |-> "write", buf |-> b, data |-> s]
  /\ s \in Seq(Data)
  /\ stream' = [stream EXCEPT ![b] = @ \o s]

Consume(b, n) ==
  /\ call' = [op |-> "consume", buf |-> b, n |-> n]
  /\ stream' = [stream EXCEPT ![b] = SubSeq(@, Min2(n, Len(@)) + 1, Len(@))]

AppendFrom(b, o) ==
  /\ call' = [op |-> "appendFrom", buf |-> b, from |-> o]
  /\ stream' = [stream EXCEPT ![b] = @ \o stream[o], ![o] = <<>>]

CopyFrom(b, o) ==
  /\ call' = [op |-> "copyFrom", buf |-> b, from |-> o]
  /\ stream' = [stream EXCEPT ![b] = @ \o stream[o]]

Reserve(b) ==
  /\ call' = [op |-> "reserve", buf |-> b]
  /\ UNCHANGED stream

Init ==
  /\ stream = [b \in Bufs |-> <<>>]
  /\ call = [op |-> "none"]

Next ==
  \E b \in Bufs :
    \/ call'.op = "write" /\ Write(b, call'.data)
    \/ call'.op = "consume" /\ Consume(b, call'.n)
    \/ \E o \in Bufs \ {b} : AppendFrom(b, o) \/ CopyFrom(b, o)
    \/ Reserve(b)

Spec == Init /\ [][Next]_<<stream, call>>

=============================================================================
