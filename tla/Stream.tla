------------------------------- MODULE Stream -------------------------------
(***************************************************************************)
(* dsp::stream<T> (core/src/dsp/stream.h), the double buffer every pair of *)
(* neighbouring DSP blocks shares, together with the only parts of its two *)
(* users that touch it: the worker thread of the block that writes it      *)
(* (swap), the worker thread of the block that reads it (read, flush), and *)
(* the two control threads that start those blocks and stop them           *)
(* (block::doStop: stopReader / stopWriter, join, clearReadStop /          *)
(* clearWriteStop).                                                        *)
(*                                                                         *)
(* One action is one critical section of swapMtx or rdyMtx, or one step    *)
(* outside them.  A notify_all comes after its mutex is released, so it is *)
(* an action of its own, and a thread inside condition_variable::wait      *)
(* ("...Wait") runs again only when notified or spuriously ("...Wake").    *)
(***************************************************************************)
EXTENDS Naturals, Sequences

CONSTANTS Frames,     \* the frames a writer may produce
          NoFrame,    \* a buffer nothing was written to yet, and read()'s -1
          MaxSent     \* bound: how many frames the writer commits

ASSUME NoFrameAssumption == NoFrame \notin Frames
ASSUME MaxSentAssumption == MaxSent \in Nat

VARIABLES
  canSwap, dataReady,        \* the two handshake flags, under swapMtx and rdyMtx
  writerStop, readerStop,
  dataSize,                  \* written under swapMtx, read under rdyMtx
  nReaders,                  \* threads inside read()
  writeBuf, readBuf,         \* which of the two buffers each pointer points to
  buf,                       \* what the two buffers hold
  writer, size,              \* the writing worker: its step and the frame it commits
  reader, count,             \* the reading worker: its step and what read() returned
  writerCtl, readerCtl,      \* where the two control threads are in doStart / doStop
  sent, got                  \* history: frames committed by swap, frames read() returned

flags == <<canSwap, dataReady, writerStop, readerStop, dataSize, nReaders>>
bufs  == <<writeBuf, readBuf, buf>>
vars  == <<flags, bufs, writer, size, reader, count, writerCtl, readerCtl, sent, got>>

Buffers == {"buf0", "buf1"}    \* writeBuf0 and readBuf0 of the constructor

\* The steps of the two workers; "off": there is no thread, "exited": it can be joined.
WriterSteps == {"off", "fill", "swap", "swapWait", "swapWake", "setReady", "notifyReady", "exited"}
ReaderSteps == {"off", "read", "readWait", "readWake", "process", "setCanSwap", "notifySwap", "exited"}
WriterCtlSteps == {"idle", "notify", "join", "clear"}
ReaderCtlSteps == {"idle", "notify", "spin", "join", "clear"}

-----------------------------------------------------------------------------
Init ==
  /\ canSwap = TRUE /\ dataReady = FALSE
  /\ writerStop = FALSE /\ readerStop = FALSE
  /\ dataSize = NoFrame /\ nReaders = 0
  /\ writeBuf = "buf0" /\ readBuf = "buf1"
  /\ buf = [b \in Buffers |-> NoFrame]
  /\ writer = "off" /\ size = NoFrame
  /\ reader = "off" /\ count = NoFrame
  /\ writerCtl = "idle" /\ readerCtl = "idle"
  /\ sent = <<>> /\ got = <<>>

-----------------------------------------------------------------------------
(* The writing worker: fill the write buffer, swap, again.                  *)

Fill(f) ==
  /\ writer = "fill"
  /\ buf' = [buf EXCEPT ![writeBuf] = f]
  /\ size' = f
  /\ writer' = "swap"
  /\ UNCHANGED <<flags, writeBuf, readBuf, reader, count, writerCtl, readerCtl, sent, got>>

\* Mutant: swap() does not wait for the reader.
MaySwap_Always == TRUE

\* The predicate of swapCV, evaluated under swapMtx on entry and after each wake-up.
MaySwap == canSwap \/ writerStop

SwapBlock ==
  /\ writer \in {"swap", "swapWake"} /\ ~MaySwap
  /\ writer' = "swapWait"
  /\ UNCHANGED <<flags, bufs, size, reader, count, writerCtl, readerCtl, sent, got>>

SwapAbandon ==
  /\ writer \in {"swap", "swapWake"} /\ writerStop
  /\ writer' = "exited"
  /\ UNCHANGED <<flags, bufs, size, reader, count, writerCtl, readerCtl, sent, got>>

SwapBuffers ==
  /\ writer \in {"swap", "swapWake"} /\ MaySwap /\ ~writerStop
  /\ Len(sent) < MaxSent    \* the bound: with it reached, the writer may still be stopped
  /\ dataSize' = size
  /\ writeBuf' = readBuf /\ readBuf' = writeBuf
  /\ canSwap' = FALSE
  /\ sent' = Append(sent, size)
  /\ writer' = "setReady"
  /\ UNCHANGED <<dataReady, writerStop, readerStop, nReaders, buf, size,
                 reader, count, writerCtl, readerCtl, got>>

SetReady ==
  /\ writer = "setReady"
  /\ dataReady' = TRUE
  /\ writer' = "notifyReady"
  /\ UNCHANGED <<canSwap, writerStop, readerStop, dataSize, nReaders, bufs, size,
                 reader, count, writerCtl, readerCtl, sent, got>>

\* Mutant: nobody is notified.
WakeReader_Nobody == UNCHANGED reader

\* notify_all on rdyCV
WakeReader == reader' = IF reader = "readWait" THEN "readWake" ELSE reader

NotifyReady ==
  /\ writer = "notifyReady"
  /\ writer' = "fill"
  /\ WakeReader
  /\ UNCHANGED <<flags, bufs, size, count, writerCtl, readerCtl, sent, got>>

-----------------------------------------------------------------------------
(* The reading worker: read, process the read buffer, flush, again.         *)

\* Mutant: the reader does not look at readerStop.
MayRead_IgnoresStop == dataReady

\* The predicate of rdyCV, evaluated under rdyMtx.
MayRead == dataReady \/ readerStop

ReadBlock ==
  /\ reader \in {"read", "readWake"} /\ ~MayRead
  /\ nReaders' = IF reader = "read" THEN nReaders + 1 ELSE nReaders
  /\ reader' = "readWait"
  /\ UNCHANGED <<canSwap, dataReady, writerStop, readerStop, dataSize, bufs,
                 writer, size, count, writerCtl, readerCtl, sent, got>>

\* nReaders is raised on entry and lowered on return, under one lock when no wait came between.
ReadReturn ==
  /\ reader \in {"read", "readWake"} /\ MayRead
  /\ nReaders' = IF reader = "read" THEN nReaders ELSE nReaders - 1
  /\ count' = IF readerStop THEN NoFrame ELSE dataSize
  /\ reader' = IF readerStop THEN "exited" ELSE "process"
  /\ got' = IF readerStop THEN got ELSE Append(got, dataSize)
  /\ UNCHANGED <<canSwap, dataReady, writerStop, readerStop, dataSize, bufs,
                 writer, size, writerCtl, readerCtl, sent>>

\* Mutant: flush() leaves dataReady set.
FlushReady_KeepsFlag ==
  /\ reader = "process"
  /\ reader' = "setCanSwap"
  /\ UNCHANGED <<flags, bufs, writer, size, count, writerCtl, readerCtl, sent, got>>

FlushReady ==
  /\ reader = "process"
  /\ dataReady' = FALSE
  /\ reader' = "setCanSwap"
  /\ UNCHANGED <<canSwap, writerStop, readerStop, dataSize, nReaders, bufs,
                 writer, size, count, writerCtl, readerCtl, sent, got>>

FlushCanSwap ==
  /\ reader = "setCanSwap"
  /\ canSwap' = TRUE
  /\ reader' = "notifySwap"
  /\ UNCHANGED <<dataReady, writerStop, readerStop, dataSize, nReaders, bufs,
                 writer, size, count, writerCtl, readerCtl, sent, got>>

\* Mutant: nobody is notified.
WakeWriter_Nobody == UNCHANGED writer

\* notify_all on swapCV
WakeWriter == writer' = IF writer = "swapWait" THEN "swapWake" ELSE writer

NotifySwap ==
  /\ reader = "notifySwap"
  /\ reader' = "read"
  /\ WakeWriter
  /\ UNCHANGED <<flags, bufs, size, count, writerCtl, readerCtl, sent, got>>

\* A wait may also end without a notification; the predicate is evaluated again.
SpuriousWake ==
  /\ \/ writer = "swapWait" /\ WakeWriter /\ UNCHANGED reader
     \/ reader = "readWait" /\ WakeReader /\ UNCHANGED writer
  /\ UNCHANGED <<flags, bufs, size, count, writerCtl, readerCtl, sent, got>>

-----------------------------------------------------------------------------
(* block::doStart and block::doStop of the writing block.                   *)

StartWriter ==
  /\ writerCtl = "idle" /\ writer = "off"
  /\ writer' = "fill"
  /\ UNCHANGED <<flags, bufs, size, reader, count, writerCtl, readerCtl, sent, got>>

StopWriter ==
  /\ writerCtl = "idle" /\ writer # "off"
  /\ writerStop' = TRUE
  /\ writerCtl' = "notify"
  /\ UNCHANGED <<canSwap, dataReady, readerStop, dataSize, nReaders, bufs,
                 writer, size, reader, count, readerCtl, sent, got>>

StopWriterNotify ==
  /\ writerCtl = "notify"
  /\ writerCtl' = "join"
  /\ WakeWriter
  /\ UNCHANGED <<flags, bufs, size, reader, count, readerCtl, sent, got>>

JoinWriter ==
  /\ writerCtl = "join" /\ writer = "exited"
  /\ writer' = "off"
  /\ writerCtl' = "clear"
  /\ UNCHANGED <<flags, bufs, size, reader, count, readerCtl, sent, got>>

ClearWriteStop ==
  /\ writerCtl = "clear"
  /\ writerStop' = FALSE
  /\ writerCtl' = "idle"
  /\ UNCHANGED <<canSwap, dataReady, readerStop, dataSize, nReaders, bufs,
                 writer, size, reader, count, readerCtl, sent, got>>

(* block::doStart and block::doStop of the reading block.                   *)

StartReader ==
  /\ readerCtl = "idle" /\ reader = "off"
  /\ reader' = "read"
  /\ UNCHANGED <<flags, bufs, writer, size, count, writerCtl, readerCtl, sent, got>>

StopReader ==
  /\ readerCtl = "idle" /\ reader # "off"
  /\ readerStop' = TRUE
  /\ readerCtl' = "notify"
  /\ UNCHANGED <<canSwap, dataReady, writerStop, dataSize, nReaders, bufs,
                 writer, size, reader, count, writerCtl, sent, got>>

StopReaderNotify ==
  /\ readerCtl = "notify"
  /\ readerCtl' = "spin"
  /\ WakeReader
  /\ UNCHANGED <<flags, bufs, writer, size, count, writerCtl, sent, got>>

\* Mutant: stopReader returns at once.
StopReaderSpin_Skipped ==
  /\ readerCtl = "spin"
  /\ readerCtl' = "join"
  /\ UNCHANGED <<flags, bufs, writer, size, reader, count, writerCtl, sent, got>>

\* stopReader polls nReaders until no thread is inside read().
StopReaderSpin ==
  /\ readerCtl = "spin" /\ nReaders = 0
  /\ readerCtl' = "join"
  /\ UNCHANGED <<flags, bufs, writer, size, reader, count, writerCtl, sent, got>>

JoinReader ==
  /\ readerCtl = "join" /\ reader = "exited"
  /\ reader' = "off"
  /\ readerCtl' = "clear"
  /\ UNCHANGED <<flags, bufs, writer, size, count, writerCtl, sent, got>>

ClearReadStop ==
  /\ readerCtl = "clear"
  /\ readerStop' = FALSE
  /\ readerCtl' = "idle"
  /\ UNCHANGED <<canSwap, dataReady, writerStop, dataSize, nReaders, bufs,
                 writer, size, reader, count, writerCtl, sent, got>>

-----------------------------------------------------------------------------
WriterStep == \/ \E f \in Frames : Fill(f)
              \/ SwapBlock \/ SwapAbandon \/ SwapBuffers \/ SetReady \/ NotifyReady
ReaderStep == \/ ReadBlock \/ ReadReturn \/ FlushReady \/ FlushCanSwap \/ NotifySwap
StopWriterStep == StopWriterNotify \/ JoinWriter \/ ClearWriteStop
StopReaderStep == StopReaderNotify \/ StopReaderSpin \/ JoinReader \/ ClearReadStop

Next == \/ WriterStep \/ ReaderStep \/ SpuriousWake
        \/ StartWriter \/ StopWriter \/ StopWriterStep
        \/ StartReader \/ StopReader \/ StopReaderStep

Spec == Init /\ [][Next]_vars

\* The threads are scheduled; a stop that has begun is carried on with.  Nobody has to
\* start or stop anything, and no wait has to end spuriously.
Fairness == /\ WF_vars(WriterStep) /\ WF_vars(ReaderStep)
            /\ WF_vars(StopWriterStep) /\ WF_vars(StopReaderStep)

FairSpec == Spec /\ Fairness

-----------------------------------------------------------------------------
(* Properties.                                                              *)

TypeOK ==
  /\ canSwap \in BOOLEAN /\ dataReady \in BOOLEAN
  /\ writerStop \in BOOLEAN /\ readerStop \in BOOLEAN
  /\ dataSize \in Frames \cup {NoFrame} /\ nReaders \in {0, 1}
  /\ writeBuf \in Buffers /\ readBuf \in Buffers
  /\ buf \in [Buffers -> Frames \cup {NoFrame}]
  /\ writer \in WriterSteps /\ size \in Frames \cup {NoFrame}
  /\ reader \in ReaderSteps /\ count \in Frames \cup {NoFrame}
  /\ writerCtl \in WriterCtlSteps /\ readerCtl \in ReaderCtlSteps
  /\ sent \in Seq(Frames) /\ got \in Seq(Frames)

\* While a block processes what read() returned, the buffer behind readBuf holds that very
\* frame, and the count belongs to it - although dataSize and the pointers are written
\* under swapMtx and read under rdyMtx or under no lock at all.
FrameIsStable == reader = "process" => count \in Frames /\ buf[readBuf] = count

\* No frame is lost, repeated or overtaken, over any number of stops and restarts of either
\* side: what has been read is what swap() reported as sent, but for the one in flight.
InOrder == \/ got = sent
           \/ sent # <<>> /\ got = SubSeq(sent, 1, Len(sent) - 1)

\* Nobody sleeps through the event it waits for: when the predicate of a sleeping thread
\* holds, somebody is about to notify it.
NoLostWakeup ==
  /\ reader = "readWait" /\ MayRead => writer = "notifyReady" \/ readerCtl = "notify"
  /\ writer = "swapWait" /\ MaySwap => reader = "notifySwap" \/ writerCtl = "notify"

\* stopReader() returns only when no thread is inside read(), and none can be before the
\* stop is cleared: what lets doStop go on to reconfigure the block.
StoppedIsOutside == readerCtl \in {"join", "clear"} => nReaders = 0 /\ reader # "readWait"

\* doStop returns: neither the join nor the polling of nReaders can hang, whatever the
\* other side of the stream does.
StopReturns == /\ writerCtl # "idle" ~> writerCtl = "idle"
               /\ readerCtl # "idle" ~> readerCtl = "idle"

\* A frame that was committed is read, and who waits for room to commit gets on, unless the
\* reading block is stopped.
BothGetOn == /\ (got # sent) ~> (got = sent \/ reader = "off" \/ readerStop)
             /\ (writer = "swapWait") ~> (writer # "swapWait" \/ reader = "off" \/ readerStop)

\* The channel this stream implements.
Channel == INSTANCE FrameChannel WITH
             slot  <- IF canSwap THEN <<>> ELSE <<dataSize>>,
             held  <- reader \in {"process", "setCanSwap"},
             taken <- got

ImplementsChannel == Channel!ChanSpec
=============================================================================
