---------------------------- MODULE RequestStats ----------------------------
(***************************************************************************)
(* base::RequestStats (src/request_stats.cpp): one Counts record per       *)
(* worker, a ring of kNumSlots per-slot counters starting at base_pos, the *)
(* slot that began at base_tick.  finishedRequest(i, now) is called only   *)
(* by worker i; getStats(now) runs on any thread and reads every record    *)
(* without synchronisation, one field at a time.                           *)
(*                                                                         *)
(* Ticks are small naturals: kTicksPerSlot is the ticks of one slot and    *)
(* ticksPerSecond the integer part of TicksClock::ticksPerSecond() (the    *)
(* code compares it, a double, with integer ticks, so only its floor       *)
(* matters).  Unsigned 64-bit subtraction is taken modulo 2^TickBits.      *)
(***************************************************************************)
EXTENDS Integers, Sequences, FiniteSets, FiniteSetsExt

CONSTANTS
  NumThreads,      \* num_threads_
  kNumSlots,       \* RequestStats::kNumSlots
  kTicksPerSlot,   \* RequestStats::kTicksPerSlot
  ticksPerSecond,  \* floor of TicksClock::ticksPerSecond()
  MaxTick,         \* bound on the clock
  MaxReq,          \* bound on the requests each worker finishes
  TickBits         \* width of TicksClock::Ticks

ASSUME /\ kTicksPerSlot > 0 /\ kNumSlots > 1
       /\ ticksPerSecond \div kNumSlots = kTicksPerSlot
       /\ 2^TickBits > MaxTick + ticksPerSecond

Tids == 0..(NumThreads - 1)
Slots == 0..(kNumSlots - 1)
TickMod == 2^TickBits

VARIABLES
  clock,      \* TicksClock::getTicks()
  basePos,    \* counts_[i].base_pos
  baseTick,   \* counts_[i].base_tick
  val,        \* counts_[i].val
  wpc,        \* where worker i is in finishedRequest
  wnow,       \* its argument now
  newPos,     \* its local new_pos
  wcurr,      \* its loop index (i of the reset loop, curr_pos otherwise)
  done,       \* history: ticks of the requests worker i has counted
  rpc,        \* where the reader is in getStats
  rnow,       \* getStats' argument now
  ri,         \* the thread index of getStats' loop
  rcurr,      \* getStats' curr_pos
  acc,        \* reqs_acc
  overtaken,  \* history: threads that entered a slot later than now's
  seen,       \* history: done when getStats read now
  rend,       \* history: the clock when getStats returned
  quiet       \* history: no finishedRequest step ran during this getStats

wvars == <<basePos, baseTick, val, wpc, wnow, newPos, wcurr, done>>
rvars == <<rpc, rnow, ri, rcurr, acc, overtaken, seen, rend, quiet>>
vars == <<clock, wvars, rvars>>

\* RequestStats::incPos, posForTick and roundTick.
incPos(p) == (p + 1) % kNumSlots

posForTick(t) == (t \div kTicksPerSlot) % kNumSlots

\* Mutant: rounds up to the start of the next slot.
roundTickUp(t) ==
  t + (kTicksPerSlot - (t % kTicksPerSlot))

roundTick(t) ==
  t - (t % kTicksPerSlot)

\* A step of a worker inside finishedRequest while getStats runs.
noteWrite == quiet' = (quiet /\ rpc \in {"idle", "ret"})

\* Worker i starts a request in a later slot than getStats' now.
noteOvertake(i) ==
  overtaken' = IF rpc \notin {"idle", "ret"} /\ clock \div kTicksPerSlot > rnow \div kTicksPerSlot
               THEN overtaken \cup {i} ELSE overtaken

-----------------------------------------------------------------------------
\* The clock advances.
Tick ==
  /\ clock < MaxTick
  /\ clock' = clock + 1
  /\ UNCHANGED <<wvars, rvars>>

(* finishedRequest(i, getTicks()): has a slot expired since base_tick?     *)
(* If not, go straight to the increment; if so, zero the whole ring when   *)
(* base_tick is more than a second old, else the slots up to new_pos.      *)
FinishedRequest(i) ==
  /\ wpc[i] = "idle" /\ Len(done[i]) < MaxReq
  /\ wnow' = [wnow EXCEPT ![i] = clock]
  /\ IF clock > baseTick[i] + kTicksPerSlot
       THEN /\ newPos' = [newPos EXCEPT ![i] = posForTick(clock)]
            /\ IF baseTick[i] + ticksPerSecond < clock
                 THEN /\ wpc' = [wpc EXCEPT ![i] = "zeroAll"]
                      /\ wcurr' = [wcurr EXCEPT ![i] = 0]
                 ELSE /\ wpc' = [wpc EXCEPT ![i] = "zeroRange"]
                      /\ wcurr' = [wcurr EXCEPT ![i] = basePos[i]]
       ELSE /\ wpc' = [wpc EXCEPT ![i] = "inc"]
            /\ UNCHANGED <<newPos, wcurr>>
  /\ noteWrite /\ noteOvertake(i)
  /\ UNCHANGED <<clock, basePos, baseTick, val, done>>
  /\ UNCHANGED <<rpc, rnow, ri, rcurr, acc, seen, rend>>

\* One turn of the loop that zeroes every slot.
ZeroAll(i) ==
  /\ wpc[i] = "zeroAll"
  /\ val' = [val EXCEPT ![i][wcurr[i]] = 0]
  /\ wcurr' = [wcurr EXCEPT ![i] = wcurr[i] + 1]
  /\ wpc' = [wpc EXCEPT ![i] = IF wcurr[i] + 1 = kNumSlots THEN "setPos" ELSE "zeroAll"]
  /\ noteWrite
  /\ UNCHANGED <<clock, basePos, baseTick, wnow, newPos, done>>
  /\ UNCHANGED <<rpc, rnow, ri, rcurr, acc, overtaken, seen, rend>>

\* Mutant: the loop zeroes base_pos itself first (a while loop, not a do-while).
ZeroRangeFromBase(i) ==
  /\ wpc[i] = "zeroRange"
  /\ val' = [val EXCEPT ![i][wcurr[i]] = 0]
  /\ wcurr' = [wcurr EXCEPT ![i] = incPos(wcurr[i])]
  /\ wpc' = [wpc EXCEPT ![i] = IF wcurr[i] = newPos[i] THEN "setPos" ELSE "zeroRange"]
  /\ noteWrite
  /\ UNCHANGED <<clock, basePos, baseTick, wnow, newPos, done>>
  /\ UNCHANGED <<rpc, rnow, ri, rcurr, acc, overtaken, seen, rend>>

\* One turn of the do-while that zeroes incPos(base_pos) .. new_pos.
ZeroRange(i) ==
  LET c == incPos(wcurr[i]) IN
  /\ wpc[i] = "zeroRange"
  /\ val' = [val EXCEPT ![i][c] = 0]
  /\ wcurr' = [wcurr EXCEPT ![i] = c]
  /\ wpc' = [wpc EXCEPT ![i] = IF c = newPos[i] THEN "setPos" ELSE "zeroRange"]
  /\ noteWrite
  /\ UNCHANGED <<clock, basePos, baseTick, wnow, newPos, done>>
  /\ UNCHANGED <<rpc, rnow, ri, rcurr, acc, overtaken, seen, rend>>

\* counts.base_pos = new_pos.
SetBasePos(i) ==
  /\ wpc[i] = "setPos"
  /\ basePos' = [basePos EXCEPT ![i] = newPos[i]]
  /\ wpc' = [wpc EXCEPT ![i] = "setTick"]
  /\ noteWrite
  /\ UNCHANGED <<clock, baseTick, val, wnow, newPos, wcurr, done>>
  /\ UNCHANGED <<rpc, rnow, ri, rcurr, acc, overtaken, seen, rend>>

\* counts.base_tick = roundTick(now).
SetBaseTick(i) ==
  /\ wpc[i] = "setTick"
  /\ baseTick' = [baseTick EXCEPT ![i] = roundTick(wnow[i])]
  /\ wpc' = [wpc EXCEPT ![i] = "inc"]
  /\ noteWrite
  /\ UNCHANGED <<clock, basePos, val, wnow, newPos, wcurr, done>>
  /\ UNCHANGED <<rpc, rnow, ri, rcurr, acc, overtaken, seen, rend>>

\* ++counts.val[counts.base_pos]; the request is now counted.
Increment(i) ==
  /\ wpc[i] = "inc"
  /\ val' = [val EXCEPT ![i][basePos[i]] = @ + 1]
  /\ done' = [done EXCEPT ![i] = Append(@, wnow[i])]
  /\ wpc' = [wpc EXCEPT ![i] = "idle"]
  /\ noteWrite
  /\ UNCHANGED <<clock, basePos, baseTick, wnow, newPos, wcurr>>
  /\ UNCHANGED <<rpc, rnow, ri, rcurr, acc, overtaken, seen, rend>>

-----------------------------------------------------------------------------
\* getStats(getTicks(), ...): reqs_acc = 0, the loop starts at thread 0.
StatsBegin ==
  /\ rpc = "idle"
  /\ rnow' = clock /\ acc' = 0 /\ ri' = 0
  /\ seen' = done
  /\ quiet' = \A i \in Tids : wpc[i] = "idle"
  /\ rpc' = "thread"
  /\ UNCHANGED <<clock, wvars, rcurr, overtaken, rend>>

\* Mutant: no thread is ever skipped.
StatsThreadNoSkip ==
  /\ rpc = "thread" /\ ri < NumThreads
  /\ rcurr' = posForTick(rnow) /\ rpc' = "slot" /\ UNCHANGED ri
  /\ UNCHANGED <<clock, wvars, rnow, acc, overtaken, seen, rend, quiet>>

(* The test on base_tick, an unsigned subtraction: a thread whose last     *)
(* request is "more than a second" old is skipped, otherwise curr_pos      *)
(* starts at posForTick(now).                                              *)
StatsThread ==
  /\ rpc = "thread" /\ ri < NumThreads
  /\ IF (rnow - baseTick[ri]) % TickMod > ticksPerSecond
       THEN ri' = ri + 1 /\ UNCHANGED <<rpc, rcurr>>
       ELSE rcurr' = posForTick(rnow) /\ rpc' = "slot" /\ UNCHANGED ri
  /\ UNCHANGED <<clock, wvars, rnow, acc, overtaken, seen, rend, quiet>>

\* do { curr_pos = incPos(curr_pos); reqs_acc += counts.val[curr_pos];
StatsSlot ==
  /\ rpc = "slot"
  /\ rcurr' = incPos(rcurr)
  /\ acc' = acc + val[ri][incPos(rcurr)]
  /\ rpc' = "check"
  /\ UNCHANGED <<clock, wvars, rnow, ri, overtaken, seen, rend, quiet>>

\* } while (curr_pos != counts.base_pos), base_pos read afresh.
StatsCheck ==
  /\ rpc = "check"
  /\ IF rcurr = basePos[ri]
       THEN rpc' = "thread" /\ ri' = ri + 1
       ELSE rpc' = "slot" /\ UNCHANGED ri
  /\ UNCHANGED <<clock, wvars, rnow, rcurr, acc, overtaken, seen, rend, quiet>>

\* *reqsLastSec = reqs_acc.
StatsEnd ==
  /\ rpc = "thread" /\ ri = NumThreads
  /\ rpc' = "ret" /\ rend' = clock
  /\ UNCHANGED <<clock, wvars, rnow, ri, rcurr, acc, overtaken, seen, quiet>>

\* The caller (the /stats handler) uses the result; the locals are gone.
StatsReturn ==
  /\ rpc = "ret"
  /\ rpc' = "idle" /\ rnow' = 0 /\ ri' = 0 /\ rcurr' = 0 /\ acc' = 0
  /\ overtaken' = {} /\ seen' = [i \in Tids |-> <<>>] /\ rend' = 0 /\ quiet' = TRUE
  /\ UNCHANGED <<clock, wvars>>

-----------------------------------------------------------------------------
\* The constructor zeroes every record.
Init ==
  /\ clock = 0
  /\ basePos = [i \in Tids |-> 0] /\ baseTick = [i \in Tids |-> 0]
  /\ val = [i \in Tids |-> [p \in Slots |-> 0]]
  /\ wpc = [i \in Tids |-> "idle"] /\ wnow = [i \in Tids |-> 0]
  /\ newPos = [i \in Tids |-> 0] /\ wcurr = [i \in Tids |-> 0]
  /\ done = [i \in Tids |-> <<>>]
  /\ rpc = "idle" /\ rnow = 0 /\ ri = 0 /\ rcurr = 0 /\ acc = 0
  /\ overtaken = {} /\ seen = [i \in Tids |-> <<>>] /\ rend = 0 /\ quiet = TRUE

Next ==
  \/ Tick
  \/ \E i \in Tids :
       \/ FinishedRequest(i) \/ ZeroAll(i) \/ ZeroRange(i)
       \/ SetBasePos(i) \/ SetBaseTick(i) \/ Increment(i)
  \/ StatsBegin \/ StatsThread \/ StatsSlot \/ StatsCheck
  \/ StatsEnd \/ StatsReturn

Spec == Init /\ [][Next]_vars

-----------------------------------------------------------------------------
(* Properties                                                               *)

TypeOK ==
  /\ clock \in 0..MaxTick
  /\ basePos \in [Tids -> Slots] /\ baseTick \in [Tids -> 0..MaxTick]
  /\ val \in [Tids -> [Slots -> 0..MaxReq]]
  /\ wpc \in [Tids -> {"idle", "zeroAll", "zeroRange", "setPos", "setTick", "inc"}]
  /\ newPos \in [Tids -> Slots] /\ wcurr \in [Tids -> 0..kNumSlots]
  /\ rpc \in {"idle", "thread", "slot", "check", "ret"}
  /\ rcurr \in Slots /\ ri \in 0..NumThreads /\ overtaken \subseteq Tids

\* The requests of a history finished after tick lo.
CountAfter(s, lo) == Len(SelectSeq(s, LAMBDA r : r > lo))

\* The requests of a history in the kNumSlots slots ending with now's slot.
InSlotWindow(s, now) ==
  Len(SelectSeq(s, LAMBDA r : r \div kTicksPerSlot > now \div kTicksPerSlot - kNumSlots))

(* getStats counts no request twice and none older than what a ring can   *)
(* hold, two seconds less a slot before its now, though the workers move   *)
(* base_pos and zero slots while it walks the rings.                       *)
StatsNoOvercount ==
  rpc = "ret" =>
    acc <= MapThenSumSet(LAMBDA i : CountAfter(done[i], rnow - 2 * ticksPerSecond + kTicksPerSlot - 1),
                         Tids)

(* getStats reports every request that had finished when it read now and  *)
(* lies within a second less a slot of its return, apart from the threads *)
(* whose worker moved on to a slot later than that now while it ran.      *)
RecentRequestsReported ==
  rpc = "ret" =>
    acc >= MapThenSumSet(LAMBDA i : CountAfter(seen[i], rend - ticksPerSecond + kTicksPerSlot),
                         Tids \ overtaken)

(* The same without the exception: a thread is left out only when its     *)
(* last request came "more than a second ago" (request_stats.cpp:76).     *)
RecentRequestsReportedAllThreads ==
  rpc = "ret" =>
    acc >= MapThenSumSet(LAMBDA i : CountAfter(seen[i], rend - ticksPerSecond + kTicksPerSlot), Tids)

(* With no finishedRequest running, getStats counts every request in the   *)
(* slots that have not expired: a request goes to the slot of its tick     *)
(* ("has at least one slot expired", request_stats.cpp:38).               *)
UnexpiredSlotsCounted ==
  (rpc = "ret" /\ quiet) =>
    acc >= MapThenSumSet(LAMBDA i : InSlotWindow(seen[i], rnow), Tids)

(* With no finishedRequest running, getStats leaves out the slot of        *)
(* now - 1sec, which shares its position with now's (request_stats.cpp:82).*)
ExpiredSlotNotCounted ==
  (rpc = "ret" /\ quiet) =>
    acc <= MapThenSumSet(LAMBDA i : InSlotWindow(seen[i], rnow), Tids)

=============================================================================
