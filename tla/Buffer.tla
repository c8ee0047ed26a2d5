------------------------------- MODULE Buffer -------------------------------
(***************************************************************************)
(* base::Buffer (src/buffer.cpp, src/buffer.hpp): a deque of chunks of     *)
(* BlockSize bytes with the bytes filled in each (sizes_), a write         *)
(* position wpos_ and a read position rpos_, each <chunk index, offset>.   *)
(* Every call is one step (the Buffer is used under its owner's lock or by *)
(* one thread), made by a client that may call anything in any order.     *)
(* A byte is a number: the producer writes 1, 2, 3, ... in order, and a    *)
(* fresh chunk (new char[BlockSize]) holds Junk.                           *)
(***************************************************************************)
EXTENDS Naturals, Sequences, SequencesExt

CONSTANTS
  Bufs,        \* the Buffer objects
  BlockSize,   \* Buffer::BlockSize
  MaxBytes,    \* bound on the bytes the producer writes
  MaxLen,      \* bound on the bytes two buffers hold together (copyFrom)
  Junk,        \* the contents of a byte nobody wrote
  IterBufs     \* the buffers a reader walks with an Iterator

ASSUME Junk \notin 1..MaxBytes /\ BlockSize >= 2 /\ IterBufs \subseteq Bufs

VARIABLES
  buf,         \* buf[b]: [chunks, sizes, w, r], chunk i of the code is chunks[i+1]
  nextByte,    \* the next byte the producer writes
  it,          \* it[b]: a Buffer::Iterator on b, or inactive
  call,        \* the call of the last step (ByteStream's input)
  halt         \* "no", "fatal" (LOG(FATAL) exits) or "ub" (out-of-range positions)

vars == <<buf, nextByte, it, call, halt>>

Min2(a, b) == IF a < b THEN a ELSE b

Pos(i, o) == [idx |-> i, off |-> o]

NoIterator == [active |-> FALSE, pos |-> Pos(0, 0), read |-> 0, total |-> 0,
               budget |-> 0, cstart |-> 0, clean |-> FALSE]

-----------------------------------------------------------------------------
(* Helpers on one Buffer's state st, named as in the code.                 *)

writeSize(st) == BlockSize - st.w.off

\* The positions name chunks that exist.
InRange(st) == st.r.idx <= st.w.idx /\ st.w.idx < Len(st.chunks)

readSize(st) == st.sizes[st.r.idx + 1] - st.r.off

\* addChunk(): push a fresh chunk; "wpos_ = addChunk()" is toNewChunk.
addChunk(st) ==
  [st EXCEPT !.chunks = Append(@, [k \in 1..BlockSize |-> Junk]), !.sizes = Append(@, 0)]

toNewChunk(st) ==
  LET s2 == addChunk(st) IN [s2 EXCEPT !.w = Pos(Len(s2.sizes) - 1, 0)]

dropChunks(st, n) ==
  IF n = 0 THEN st
  ELSE [st EXCEPT !.w.idx = @ - n, !.r.idx = @ - n,
                  !.chunks = SubSeq(@, n + 1, Len(@)), !.sizes = SubSeq(@, n + 1, Len(@))]

isConsumed(st) == st.r.idx # 0 \/ st.r.off # 0

\* Bytes s written into the current chunk at the write offset.
fill(st, s) ==
  [st EXCEPT !.chunks[st.w.idx + 1] =
     [k \in 1..BlockSize |-> IF k > st.w.off /\ k <= st.w.off + Len(s)
                             THEN s[k - st.w.off] ELSE @[k]]]

byteCount(st) ==
  readSize(st) + FoldLeft(+, 0, SubSeq(st.sizes, 2, Len(st.sizes)))

\* The bytes the Buffer holds: the rest of the read chunk, then every later
\* chunk up to its size.
Content(st) ==
  IF ~InRange(st) THEN <<>> ELSE
  SubSeq(st.chunks[st.r.idx + 1], st.r.off + 1, st.sizes[st.r.idx + 1])
  \o FlattenSeq([k \in 1..(Len(st.chunks) - st.r.idx - 1) |->
                   SubSeq(st.chunks[st.r.idx + 1 + k], 1, st.sizes[st.r.idx + 1 + k])])

\* rpos_ sits at the end of its chunk although later chunks follow.
Parked(st) == readSize(st) = 0 /\ st.r.idx < st.w.idx

-----------------------------------------------------------------------------
\* Buffer::write: fill the write chunk, add a chunk when data is left or
\* the chunk is full.
RECURSIVE writeLoop(_, _)
writeLoop(st, data) ==
  IF data = <<>> THEN st
  ELSE LET n    == Min2(writeSize(st), Len(data))
           s1   == [fill(st, SubSeq(data, 1, n)) EXCEPT !.sizes[st.w.idx + 1] = @ + n,
                                                        !.w.off = @ + n]
           rest == SubSeq(data, n + 1, Len(data))
       IN writeLoop(IF rest # <<>> \/ s1.w.off = BlockSize THEN toNewChunk(s1) ELSE s1, rest)

\* Mutant: the new chunk always takes rpos_ along, read or not.
reserveAlwaysAdvance(st, bytes) ==
  IF writeSize(st) >= bytes THEN st
  ELSE LET s2 == toNewChunk(st) IN dropChunks([s2 EXCEPT !.r = s2.w], 1)

\* Buffer::reserve for bytes <= BlockSize (larger requests return false).
reserve(st, bytes) ==
  IF writeSize(st) >= bytes THEN st
  ELSE LET s2 == toNewChunk(st)
       IN IF st.r = st.w THEN dropChunks([s2 EXCEPT !.r = s2.w], 1) ELSE s2

\* Buffer::consume: whole chunks before the write chunk, then the write chunk.
RECURSIVE consumeLoop(_, _, _)
consumeLoop(st, n, drop) ==
  IF n > 0 /\ st.r.idx < st.w.idx
  THEN LET k  == Min2(n, readSize(st))
           s1 == [st EXCEPT !.r.off = @ + k]
       IN IF readSize(s1) = 0
          THEN consumeLoop([s1 EXCEPT !.r = Pos(@.idx + 1, 0)], n - k, drop + 1)
          ELSE consumeLoop(s1, n - k, drop)
  ELSE dropChunks([st EXCEPT !.r.off = @ + Min2(n, readSize(st))], drop)

\* Buffer::maybeRemoveLastChunk: pop the write chunk if it is empty.
maybeRemoveLastChunk(st) ==
  IF st.sizes[st.w.idx + 1] = 0
  THEN [st EXCEPT !.chunks = Front(@), !.sizes = Front(@)]
  ELSE st

lastRemoved(st) == st.sizes[st.w.idx + 1] = 0

\* Buffer::appendFrom for a non-consumed other with something to read.
appendFrom(t, o) ==
  LET t1 == maybeRemoveLastChunk(t)
      o1 == maybeRemoveLastChunk(o)
      t2 == [t1 EXCEPT !.chunks = @ \o o1.chunks, !.sizes = @ \o o1.sizes]
      t3 == IF Last(t2.sizes) # BlockSize THEN t2
            ELSE IF ~lastRemoved(t) THEN addChunk(t2)
            ELSE [t2 EXCEPT !.chunks = Append(@, t.chunks[t.w.idx + 1]), !.sizes = Append(@, 0)]
      t4 == IF readSize(t3) = 0 THEN [t3 EXCEPT !.r = Pos(@.idx + 1, 0)] ELSE t3
  IN [t4 EXCEPT !.w = Pos(Len(t4.chunks) - 1, Last(t4.sizes))]

\* What appendFrom leaves in other: a fresh chunk, or its saved empty chunk
\* with wpos_ as it was.
appendedOther(o) ==
  LET chunk == IF ~lastRemoved(o) THEN [k \in 1..BlockSize |-> Junk] ELSE o.chunks[o.w.idx + 1]
      w     == IF ~lastRemoved(o) THEN Pos(0, 0) ELSE o.w
  IN [chunks |-> <<chunk>>, sizes |-> <<0>>, w |-> w, r |-> w]

\* Buffer::copyFrom: each chunk of other into a chunk of this.
RECURSIVE copyLoop(_, _, _)
copyLoop(st, o, i) ==
  IF i >= Len(o.chunks) THEN st
  ELSE LET len == o.sizes[i + 1]
           s1  == IF i # 0 \/ len > writeSize(st) THEN toNewChunk(st) ELSE st
           s2  == [fill(s1, SubSeq(o.chunks[i + 1], 1, len))
                     EXCEPT !.sizes[s1.w.idx + 1] = @ + len, !.w.off = @ + len]
       IN copyLoop(s2, o, i + 1)

copyFrom(t, o) ==
  LET s == copyLoop(t, o, 0) IN IF s.w.off = BlockSize THEN toNewChunk(s) ELSE s

-----------------------------------------------------------------------------
(* The calls.  Every call that changes a Buffer invalidates the iterators  *)
(* on it.                                                                  *)

Running == halt = "no"

update(b, st) ==
  /\ buf' = [buf EXCEPT ![b] = st]
  /\ it' = [it EXCEPT ![b] = NoIterator]

\* write(MemPiece) of n fresh bytes.
Write(b, n) ==
  /\ Running /\ nextByte + n - 1 <= MaxBytes
  /\ LET data == [k \in 1..n |-> nextByte + k - 1] IN
       /\ update(b, writeLoop(buf[b], data))
       /\ call' = [op |-> "write", buf |-> b, data |-> data]
  /\ nextByte' = nextByte + n
  /\ UNCHANGED halt

\* reserve(bytes) within a chunk (a larger request returns false at once).
Reserve(b, n) ==
  /\ Running
  /\ update(b, reserve(buf[b], n))
  /\ call' = [op |-> "reserve", buf |-> b]
  /\ UNCHANGED <<nextByte, halt>>

\* Mutant: advance() without its bytes <= writeSize() test.
AdvanceNoCheck(b, n) ==
  /\ Running /\ nextByte + n - 1 <= MaxBytes
  /\ LET data == [k \in 1..n |-> nextByte + k - 1]
         st   == buf[b] IN
       /\ update(b, [fill(st, data) EXCEPT !.w.off = @ + n, !.sizes[st.w.idx + 1] = @ + n])
       /\ call' = [op |-> "write", buf |-> b, data |-> data]
  /\ nextByte' = nextByte + n
  /\ UNCHANGED halt

(* The producer writes n <= writeSize() bytes through writePtr() and calls *)
(* advance(n), as doRead and handleRequest do after read().                *)
Advance(b, n) ==
  /\ Running /\ n <= writeSize(buf[b]) /\ nextByte + n - 1 <= MaxBytes
  /\ LET data == [k \in 1..n |-> nextByte + k - 1]
         st   == buf[b] IN
       /\ update(b, [fill(st, data) EXCEPT !.w.off = @ + n, !.sizes[st.w.idx + 1] = @ + n])
       /\ call' = [op |-> "write", buf |-> b, data |-> data]
  /\ nextByte' = nextByte + n
  /\ UNCHANGED halt

Consume(b, n) ==
  /\ Running
  /\ update(b, consumeLoop(buf[b], n, 0))
  /\ call' = [op |-> "consume", buf |-> b, n |-> n]
  /\ UNCHANGED <<nextByte, halt>>

(* appendFrom(other): LOG(FATAL) if other was consumed, nothing if it has  *)
(* nothing to read, else move its chunks.                                  *)
AppendFrom(b, o) ==
  /\ Running
  /\ IF isConsumed(buf[o])
       THEN halt' = "fatal" /\ UNCHANGED <<buf, it, call>>
     ELSE IF readSize(buf[o]) = 0
       THEN /\ call' = [op |-> "appendFrom", buf |-> b, from |-> o]
            /\ UNCHANGED <<buf, it, halt>>
     ELSE LET o2 == appendedOther(buf[o]) IN
          /\ buf' = [buf EXCEPT ![b] = appendFrom(buf[b], buf[o]), ![o] = o2]
          /\ it' = [it EXCEPT ![b] = NoIterator, ![o] = NoIterator]
          /\ call' = [op |-> "appendFrom", buf |-> b, from |-> o]
          /\ halt' = IF InRange(o2) THEN "no" ELSE "ub"
  /\ UNCHANGED nextByte

(* copyFrom(other): LOG(FATAL) if other was consumed, nothing if it has    *)
(* nothing to read, else copy its chunks.                                  *)
CopyFrom(b, o) ==
  /\ Running
  /\ Len(Content(buf[b])) + Len(Content(buf[o])) <= MaxLen
  /\ IF isConsumed(buf[o])
       THEN halt' = "fatal" /\ UNCHANGED <<buf, it, call>>
     ELSE /\ IF readSize(buf[o]) = 0 THEN UNCHANGED <<buf, it>>
             ELSE update(b, copyFrom(buf[b], buf[o]))
          /\ call' = [op |-> "copyFrom", buf |-> b, from |-> o]
          /\ UNCHANGED halt
  /\ UNCHANGED nextByte

-----------------------------------------------------------------------------
(* Buffer::Iterator: begin() starts at rpos_ with bytes_total_ =           *)
(* byteCount() and a budget of the rest of its chunk; next() takes the     *)
(* fast path while budget_ > 1, else slowNext().                           *)

\* Iterator::getBudget: the positions left in the chunk of p.
getBudget(st, p) == st.sizes[p.idx + 1] - p.off

eob(st, i) == IF i.budget # 0 THEN FALSE ELSE i.pos = st.w

\* getChar(): *(chunk_start_ + pos_.off); past the chunk it is stray memory.
getChar(st, i) ==
  IF i.pos.off < BlockSize THEN st.chunks[i.cstart + 1][i.pos.off + 1] ELSE Junk

\* Mutant: next() stays in a chunk it has read to the end.
slowNextSameChunk(st, i) ==
  IF i.pos.off >= st.sizes[i.pos.idx + 1] THEN i
  ELSE [i EXCEPT !.pos.off = @ + 1, !.read = @ + 1,
                 !.budget = st.sizes[i.pos.idx + 1] - (i.pos.off + 1)]

slowNext(st, i) ==
  IF i.pos.off >= st.sizes[i.pos.idx + 1] THEN i
  ELSE LET p1 == Pos(i.pos.idx, i.pos.off + 1)
           p2 == IF p1.off = st.sizes[p1.idx + 1] /\ p1.idx < st.w.idx
                 THEN Pos(p1.idx + 1, 0) ELSE p1
       IN [i EXCEPT !.pos = p2, !.read = @ + 1, !.cstart = p2.idx,
                    !.budget = getBudget(st, p2)]

IterBegin(b) ==
  LET st == buf[b] IN
  /\ Running /\ ~it[b].active
  /\ it' = [it EXCEPT ![b] = [active |-> TRUE, pos |-> st.r, read |-> 0,
                              total |-> byteCount(st), budget |-> getBudget(st, st.r),
                              cstart |-> st.r.idx, clean |-> ~Parked(st)]]
  /\ UNCHANGED <<buf, nextByte, call, halt>>

IterNext(b) ==
  LET i == it[b] IN
  /\ Running /\ i.active /\ ~eob(buf[b], i)
  /\ it' = [it EXCEPT ![b] =
              IF i.budget > 1
              THEN [i EXCEPT !.budget = @ - 1, !.pos.off = @ + 1, !.read = @ + 1]
              ELSE slowNext(buf[b], i)]
  /\ UNCHANGED <<buf, nextByte, call, halt>>

\* The parser's caller: consume(it.bytesRead()) once a request is parsed.
IterConsume(b) ==
  /\ Running /\ it[b].active /\ it[b].read > 0
  /\ update(b, consumeLoop(buf[b], it[b].read, 0))
  /\ call' = [op |-> "consume", buf |-> b, n |-> it[b].read]
  /\ UNCHANGED <<nextByte, halt>>

\* After LOG(FATAL) or undefined behaviour nothing more is modelled.
Halted ==
  /\ halt # "no"
  /\ UNCHANGED vars

-----------------------------------------------------------------------------
\* Buffer(): one empty chunk, both positions at its start.
Init ==
  /\ buf = [b \in Bufs |-> [chunks |-> <<[k \in 1..BlockSize |-> Junk]>>,
                            sizes |-> <<0>>, w |-> Pos(0, 0), r |-> Pos(0, 0)]]
  /\ nextByte = 1
  /\ it = [b \in Bufs |-> NoIterator]
  /\ call = [op |-> "none"]
  /\ halt = "no"

Next ==
  \/ \E b \in Bufs :
       \/ \E n \in 1..(BlockSize + 1) : Write(b, n) \/ Consume(b, n)
       \/ \E n \in 1..BlockSize : Reserve(b, n) \/ Advance(b, n)
       \/ \E o \in Bufs \ {b} : AppendFrom(b, o) \/ CopyFrom(b, o)
  \/ \E b \in IterBufs : IterBegin(b) \/ IterNext(b) \/ IterConsume(b)
  \/ Halted

Spec == Init /\ [][Next]_vars

-----------------------------------------------------------------------------
(* Properties                                                               *)

TypeOK ==
  /\ nextByte \in 1..(MaxBytes + 1)
  /\ halt \in {"no", "fatal", "ub"}
  /\ \A b \in Bufs :
       /\ buf[b].sizes \in Seq(0..BlockSize)
       /\ Len(buf[b].chunks) = Len(buf[b].sizes)
       /\ it[b].read \in Nat

(* Every call does to the bytes what its contract says (ByteStream):       *)
(* write appends, consume drops from the front, appendFrom moves other's   *)
(* bytes and empties it, copyFrom copies them, reserve keeps them, across  *)
(* chunk boundaries, full chunks and chunks dropped or reused.             *)
BS == INSTANCE ByteStream WITH
        stream <- [b \in Bufs |-> Content(buf[b])],
        Data <- 1..MaxBytes

ImplementsByteStream == BS!Spec

(* An iterator begun on a buffer whose rpos_ is not parked at a chunk's    *)
(* end yields the buffer's bytes in order, one per next(), over the fast   *)
(* and the slow path, and reports eob() exactly when all are read.         *)
IteratorReadsContent ==
  \A b \in Bufs :
    (it[b].active /\ it[b].clean) =>
      LET c == Content(buf[b]) IN
      /\ it[b].read <= Len(c)
      /\ eob(buf[b], it[b]) <=> it[b].read = Len(c)
      /\ it[b].read < Len(c) => getChar(buf[b], it[b]) = c[it[b].read + 1]

(* doWrite sends out_.readSize() bytes and takes 0 for a closed socket:    *)
(* a buffer holding bytes must offer some at its read position.            *)
ReadableWhenNonEmpty ==
  \A b \in Bufs : (Running /\ Content(buf[b]) # <<>>) => readSize(buf[b]) > 0

(* byteCount() is the number of bytes the buffer holds.                    *)
ByteCountExact ==
  \A b \in Bufs : Running => byteCount(buf[b]) = Len(Content(buf[b]))

=============================================================================
