------------------------------ MODULE Reshaper ------------------------------
(***************************************************************************)
(* dsp::buffer::Reshaper<T> (core/src/dsp/buffer/reshaper.h): cuts the     *)
(* stream into frames of `keep` samples, the next one `keep + skip` samples *)
(* after the last (they overlap when skip is negative).  Its workThread    *)
(* moves what it reads into a RingBuffer, its bufferWorkerThread cuts the  *)
(* frames, and whoever stops it stops both ends of the ring in between.    *)
(* The two streams outside are reduced to when read() and swap() return.   *)
(***************************************************************************)
EXTENDS RingBuffer

CONSTANTS Keeps, Skips,   \* what init(), setKeep() and setSkip() are called with
          Lens,           \* the sizes of the frames that come in
          MaxMade         \* bound: how many samples come in
ASSUME ShapeAssumption == Keeps \subseteq Nat \ {0} /\ Skips \subseteq Int
\* write() returns from an empty frame at once, with nothing changed.
ASSUME LensAssumption == Lens \subseteq Nat \ {0}

VARIABLES
  keep, skipBy,           \* _keep and _skip
  inStop, outStop,        \* readerStop of _in, writerStop of out
  ctl,                    \* where the controlling thread is in doStop()
  last,                   \* the frame this bufferWorker committed before
  missed                  \* history: ends a stop was notified to between check and sleep

shape == <<keep, skipBy>>
vars  == <<ring, shape, inStop, outStop, ctl, last, missed>>

Init ==
  /\ keep \in Keeps /\ skipBy \in Skips
  /\ RingInit(keep * 2)
  /\ pc = [e \in Ends |-> "off"]
  /\ inStop = FALSE /\ outStop = FALSE
  /\ ctl = "idle" /\ last = <<>> /\ missed = {}

-----------------------------------------------------------------------------
(* workThread: read a frame, write it into the ring, flush, again.          *)

\* write()'s result is ignored: after a stopped write, too, the next thing is read().
ReadIn(len) ==
  /\ pc["write"] = "await" /\ ~inStop
  /\ made + len <= MaxMade
  /\ left' = [left EXCEPT !["write"] = len]
  /\ Goto("write", "look")
  /\ UNCHANGED <<cells, cursor, count, maxLatency, stop, n, skip, skipping, data, made,
                 shape, inStop, outStop, ctl, last, missed>>

WriteStopped ==
  /\ Stopped("write") /\ Goto("write", "await")
  /\ UNCHANGED <<quiet, shape, inStop, outStop, ctl, last, missed>>

ReadInStopped ==
  /\ pc["write"] = "await" /\ inStop
  /\ Goto("write", "exited")
  /\ UNCHANGED <<quiet, shape, inStop, outStop, ctl, last, missed>>

WorkThread == /\ \/ ReadInStopped \/ WriteStopped
                 \/ \E len \in Lens : ReadIn(len)
                 \/ /\ CallStep("write", "await")
                    /\ UNCHANGED <<shape, inStop, outStop, ctl, last, missed>>

-----------------------------------------------------------------------------
(* bufferWorkerThread: keep the overlap, read the rest of the frame, swap.  *)

\* Mutant: the overlap is the head of the frame before.
Overlap_Head == IF skipBy < 0 THEN SubSeq(data, 1, -skipBy) ELSE <<>>

\* The end of the frame before, moved to the front (its fading by 10 is left out).
Overlap == IF skipBy < 0 THEN SubSeq(data, keep + skipBy + 1, keep) ELSE <<>>

BeginFrame ==
  /\ pc["read"] = "begin"
  /\ data' = Overlap
  /\ left' = [left EXCEPT !["read"] = IF skipBy < 0 THEN keep + skipBy ELSE keep]
  /\ skip' = IF skipBy < 0 THEN 0 ELSE skipBy
  /\ skipping' = FALSE
  /\ Goto("read", "look")
  /\ UNCHANGED <<cells, cursor, count, maxLatency, stop, n, made,
                 shape, inStop, outStop, ctl, last, missed>>

\* out.swap() returns true once the reader behind has taken the frame before.
SwapOut ==
  /\ pc["read"] = "swap" /\ ~outStop
  /\ last' = data
  /\ Goto("read", "begin")
  /\ UNCHANGED <<quiet, shape, inStop, outStop, ctl, missed>>

FrameStopped ==
  /\ Stopped("read") \/ (pc["read"] = "swap" /\ outStop)
  /\ Goto("read", "exited")
  /\ UNCHANGED <<quiet, shape, inStop, outStop, ctl, last, missed>>

BufferWorker == \/ BeginFrame \/ FrameStopped
                \/ /\ CallStep("read", "swap")
                   /\ UNCHANGED <<shape, inStop, outStop, ctl, last, missed>>

-----------------------------------------------------------------------------
(* The thread that starts, stops and reconfigures the block.                *)

Off == ctl = "idle" /\ pc = [e \in Ends |-> "off"]

\* setKeep(), between tempStop() and tempStart(); what is in the ring stays there.
SetKeep(k) ==
  /\ Off /\ keep' = k
  /\ maxLatency' = k * 2
  /\ UNCHANGED <<cells, cursor, count, stop, pc, left, n, skip, skipping, data, made,
                 skipBy, inStop, outStop, ctl, last, missed>>

SetSkip(s) ==
  /\ Off /\ skipBy' = s
  /\ UNCHANGED <<ring, keep, inStop, outStop, ctl, last, missed>>

\* doStart(): two new threads; the frame array of the second is not initialised.
Start ==
  /\ Off /\ keep + skipBy > 0
  /\ pc' = [e \in Ends |-> IF e = "read" THEN "begin" ELSE "await"]
  /\ data' = [i \in 1 .. keep |-> 0]
  /\ UNCHANGED <<cells, cursor, count, maxLatency, stop, left, n, skip, skipping, made,
                 shape, inStop, outStop, ctl, last, missed>>

StopIn ==
  /\ ctl = "idle" /\ ~Off
  /\ inStop' = TRUE /\ ctl' = "readFlag"
  /\ UNCHANGED <<ring, shape, outStop, last, missed>>

\* stopReader() and stopWriter() of the ring: the flag, without the mutex ...
SetStop(e) ==
  /\ ctl = IF e = "read" THEN "readFlag" ELSE "writeFlag"
  /\ stop' = [stop EXCEPT ![e] = TRUE]
  /\ ctl' = IF e = "read" THEN "readNotify" ELSE "writeNotify"
  /\ UNCHANGED <<cells, cursor, count, maxLatency, pc, left, n, skip, skipping, data, made,
                 shape, inStop, outStop, last, missed>>

\* ... and then the notification, which a thread about to sleep misses.
NotifyStop(e) ==
  /\ ctl = IF e = "read" THEN "readNotify" ELSE "writeNotify"
  /\ pc' = [pc EXCEPT ![e] = Wake(e, "check")]
  /\ missed' = IF pc[e] = "hold" THEN missed \cup {e} ELSE missed
  /\ ctl' = IF e = "read" THEN "outStop" ELSE "join"
  /\ UNCHANGED <<quiet, shape, inStop, outStop, last>>

\* Mutant: the out stream is not stopped.
StopOut_Skipped == ctl = "outStop" /\ ctl' = "writeFlag"
                   /\ UNCHANGED <<ring, shape, inStop, outStop, last, missed>>

StopOut ==
  /\ ctl = "outStop"
  /\ outStop' = TRUE /\ ctl' = "writeFlag"
  /\ UNCHANGED <<ring, shape, inStop, last, missed>>

\* Both threads are joined, their locals gone, then the four stops are cleared.
Join ==
  /\ ctl = "join" /\ pc = [e \in Ends |-> "exited"]
  /\ data' = <<>> /\ last' = <<>>
  /\ left' = [e \in Ends |-> 0] /\ n' = [e \in Ends |-> 0] /\ skip' = 0 /\ skipping' = FALSE
  /\ pc' = [e \in Ends |-> "off"]
  /\ stop' = [e \in Ends |-> FALSE]
  /\ inStop' = FALSE /\ outStop' = FALSE
  /\ ctl' = "idle"
  /\ UNCHANGED <<cells, cursor, count, maxLatency, made, shape, missed>>

StopStep == StopOut \/ Join \/ \E e \in Ends : SetStop(e) \/ NotifyStop(e)

WakeUp(e) == SpuriousWake(e) /\ UNCHANGED <<shape, inStop, outStop, ctl, last, missed>>

Next == \/ WorkThread \/ BufferWorker \/ SwapOut
        \/ (\E k \in Keeps : SetKeep(k)) \/ (\E s \in Skips : SetSkip(s))
        \/ Start \/ StopIn \/ StopStep
        \/ \E e \in Ends : WakeUp(e)

Spec == Init /\ [][Next]_vars

\* The threads run; whether the reader behind ever takes a frame is its own affair.
LiveSpec == Spec /\ WF_vars(WorkThread) /\ WF_vars(BufferWorker) /\ WF_vars(StopStep)

-----------------------------------------------------------------------------
(* Properties.                                                              *)

\* The two memcpys run without a lock: the cells one end copies are not those the other
\* copies at the same time.
CopiesApart ==
  (\A e \in Ends : pc[e] \in {"copy", "readable"}) => Slice("read") \cap Slice("write") = {}

\* A frame is keep samples as they came in, without a gap in the part that is new, and lies
\* keep + skip samples after the frame before, whose end it begins with when they overlap -
\* over every wrap-around of the ring and every split of the reads.
FramesSlide ==
  LET d == IF skipBy < 0 THEN -skipBy ELSE 0
  IN  pc["read"] = "swap" =>
        /\ Len(data) = keep
        /\ \A i \in d + 1 .. keep - 1 : data[i + 1] = data[i] + 1
        /\ last # <<>> => /\ data[keep] = last[keep] + keep + skipBy
                          /\ \A i \in 1 .. d : data[i] = last[keep - d + i]

\* Whoever sleeps in the ring although there is something for it, or although it is told to
\* stop, is about to be notified - or was about to sleep when the stop was notified, which
\* is the one notification that can be missed.
NoLostWakeup ==
  \A e \in Ends :
    /\ pc[e] \in {"hold", "sleep"} /\ Available(e, count[e]) > 0
         => pc[Other(e)] \in {"readable", "writable", "notify"}
    /\ pc[e] = "sleep" /\ stop[e]
         => e \in missed \/ ctl = IF e = "read" THEN "readNotify" ELSE "writeNotify"

\* The samples from the reader's cursor on, of which the reader holds those it is copying.
Queued == [i \in 1 .. count["read"] |->
             cells[(cursor["read"] + i - 1
                    + IF pc["read"] = "writable" THEN n["read"] ELSE 0) % Size]]
Held == IF pc["read"] = "readable" THEN n["read"] ELSE 0

\* The ring implements a queue that keeps the latency limit.
Queue == INSTANCE SampleQueue WITH queue <- Queued, held <- Held, limit <- maxLatency
ImplementsQueue == Queue!QueueSpec

\* doStop() returns, whatever the block is doing and whether or not the reader behind takes
\* its frames - unless a stop was missed.
StopReturns == ctl # "idle" ~> ctl = "idle" \/ missed # {}
=============================================================================
