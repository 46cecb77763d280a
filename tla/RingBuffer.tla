----------------------------- MODULE RingBuffer -----------------------------
(***************************************************************************)
(* dsp::buffer::RingBuffer<T> (core/src/dsp/buffer/ring_buffer.h): the     *)
(* steps of readAndSkip() (read() is the same without a skip), of write()  *)
(* and of stopReader() and stopWriter().  The two ends are mirror images:  *)
(* each has a count, a mutex over it, a condition variable and a stop      *)
(* flag, so one definition, with the end as a parameter, stands for both.  *)
(* Reshaper, its only user, supplies the threads that call it.             *)
(*                                                                         *)
(* One action is one critical section or one step outside; "hold" is the   *)
(* moment in condition_variable::wait when the predicate was false and the *)
(* mutex is not yet released, which the code can be interrupted in because *)
(* the stop flags are set without the mutex.                               *)
(***************************************************************************)
EXTENDS Integers, Sequences

CONSTANT Size        \* RING_BUF_SZ
ASSUME SizeAssumption == Size \in Nat \ {0}

VARIABLES
  cells,             \* _buffer; a sample is its number, 0 the cleared cell
  cursor,            \* readc and writec, one per end
  count,             \* readable and writable
  maxLatency,
  stop,              \* _stopReader and _stopWriter
  pc,                \* the step of the thread at each end
  left,              \* len - dataRead, or len - dataWritten
  n,                 \* toRead / toWrite
  skip, skipping,    \* readAndSkip(): its skip, and whether it is in its second loop
  data,              \* what readAndSkip() has put into the caller's array
  made               \* history: how many samples were written

ring == <<cells, cursor, count, maxLatency, stop, pc, left, n, skip, skipping, data, made>>
quiet == <<cells, cursor, count, maxLatency, stop, left, n, skip, skipping, data, made>>

Ends == {"read", "write"}
Other(e) == IF e = "read" THEN "write" ELSE "read"

CallSteps == {"look", "try", "check", "hold", "sleep", "copy", "readable", "writable", "notify"}

RingInit(latency) ==
  /\ cells = [i \in 0 .. Size - 1 |-> 0]
  /\ cursor = [e \in Ends |-> 0]
  /\ count = [e \in Ends |-> IF e = "read" THEN 0 ELSE Size]
  /\ maxLatency = latency
  /\ stop = [e \in Ends |-> FALSE]
  /\ left = [e \in Ends |-> 0] /\ n = [e \in Ends |-> 0]
  /\ skip = 0 /\ skipping = FALSE /\ data = <<>> /\ made = 0

-----------------------------------------------------------------------------
LeastOf(a, b) == IF a < b THEN a ELSE b

\* Mutant: the latency limit is forgotten.
Available_NoLatency(e, c) == c

\* getReadable() and getWritable(), of the count c read under the end's mutex.
Available(e, c) ==
  IF e = "read" THEN c
  ELSE LET w == LeastOf(c, maxLatency - count["read"]) IN IF w > 0 THEN w ELSE 0

\* The end's mutex is free: nobody else holds one from one action to the next.
Unlocked(e) == pc[e] # "hold"

Goto(e, step) == pc' = [pc EXCEPT ![e] = step]

\* Mutant: everything asked for is copied.
Granted_Asked(e, amount) == n' = [n EXCEPT ![e] = left[e]] /\ Goto(e, "copy")

\* waitUntilReadable() returned what is available: std::min with what is asked for.
Granted(e, amount) ==
  /\ n' = [n EXCEPT ![e] = LeastOf(amount, left[e])]
  /\ Goto(e, "copy")

Look(e) ==
  /\ pc[e] = "look" /\ ~stop[e]
  /\ n' = [n EXCEPT ![e] = count[e]]
  /\ Goto(e, "try")
  /\ UNCHANGED <<cells, cursor, count, maxLatency, stop, left, skip, skipping, data, made>>

Try(e) ==
  /\ pc[e] = "try"
  /\ e = "write" => Unlocked("read")
  /\ IF Available(e, n[e]) # 0 THEN Granted(e, Available(e, n[e]))
                               ELSE Goto(e, "check") /\ UNCHANGED n
  /\ UNCHANGED <<cells, cursor, count, maxLatency, stop, left, skip, skipping, data, made>>

\* The predicate of the wait, on entry and after each wake-up.
Check(e) ==
  /\ pc[e] = "check" /\ ~stop[e]
  /\ IF Available(e, count[e]) > 0 THEN Granted(e, Available(e, count[e]))
                                   ELSE Goto(e, "hold") /\ UNCHANGED n
  /\ UNCHANGED <<cells, cursor, count, maxLatency, stop, left, skip, skipping, data, made>>

Sleep(e) ==
  /\ pc[e] = "hold"
  /\ Goto(e, "sleep")
  /\ UNCHANGED quiet

SpuriousWake(e) ==
  /\ pc[e] = "sleep"
  /\ Goto(e, "check")
  /\ UNCHANGED quiet

\* The call returns -1: the stop flag was seen on entry or by the wait.
Stopped(e) == pc[e] \in {"look", "check"} /\ stop[e]

\* The i-th cell from the end's cursor on: the two memcpys of a copy that wraps around.
Cell(e, i) == (cursor[e] + i - 1) % Size
Slice(e) == {Cell(e, i) : i \in 1 .. n[e]}

CopyIn ==
  /\ pc["write"] = "copy"
  /\ cells' = [c \in 0 .. Size - 1 |->
                 IF c \in Slice("write")
                 THEN made + (CHOOSE i \in 1 .. n["write"] : Cell("write", i) = c)
                 ELSE cells[c]]
  /\ Goto("write", "readable")
  /\ UNCHANGED <<cursor, count, maxLatency, stop, left, n, skip, skipping, data, made>>

CopyOut ==
  /\ pc["read"] = "copy"
  /\ data' = IF skipping THEN data
              ELSE data \o [i \in 1 .. n["read"] |-> cells[Cell("read", i)]]
  /\ Goto("read", "readable")
  /\ UNCHANGED <<cells, cursor, count, maxLatency, stop, left, n, skip, skipping, made>>

\* By how much a copy of end e changes the count of end c.
Change(e, c) == IF e = c THEN -n[e] ELSE n[e]

CountReadable(e) ==
  /\ pc[e] = "readable" /\ Unlocked("read")
  /\ count' = [count EXCEPT !["read"] = @ + Change(e, "read")]
  /\ made' = IF e = "write" THEN made + n[e] ELSE made
  /\ Goto(e, "writable")
  /\ UNCHANGED <<cells, cursor, maxLatency, stop, left, n, skip, skipping, data>>

CountWritable(e) ==
  /\ pc[e] = "writable" /\ Unlocked("write")
  /\ count' = [count EXCEPT !["write"] = @ + Change(e, "write")]
  /\ cursor' = [cursor EXCEPT ![e] = (@ + n[e]) % Size]
  /\ Goto(e, "notify")
  /\ UNCHANGED <<cells, maxLatency, stop, left, n, skip, skipping, data, made>>

\* Mutant: nobody is notified.
Wake_Nobody(e, step) == pc[e]

\* notify_one on the condition variable of end e, of which one thread at most is a waiter.
Wake(e, step) == IF pc[e] = "sleep" THEN step ELSE pc[e]

\* Notify the other end and go round the loop; `done` is the caller's next step.
Notify(e, done) ==
  /\ pc[e] = "notify"
  /\ LET rest == left[e] - n[e]
         second == e = "read" /\ rest = 0 /\ ~skipping /\ skip > 0
     IN  /\ left' = [left EXCEPT ![e] = IF second THEN skip ELSE rest]
         /\ skipping' = IF e = "read" THEN skipping \/ second ELSE skipping
         /\ pc' = [pc EXCEPT ![Other(e)] = Wake(Other(e), "check"),
                             ![e] = IF rest = 0 /\ ~second THEN done ELSE "look"]
  /\ UNCHANGED <<cells, cursor, count, maxLatency, stop, n, skip, data, made>>

\* The steps of a call at end e, up to its return.
CallStep(e, done) == Look(e) \/ Try(e) \/ Check(e) \/ Sleep(e)
                     \/ CountReadable(e) \/ CountWritable(e) \/ Notify(e, done)
                     \/ (IF e = "read" THEN CopyOut ELSE CopyIn)
=============================================================================
