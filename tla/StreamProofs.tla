---------------------------- MODULE StreamProofs ----------------------------
(***************************************************************************)
(* Proofs about Stream, for every set of frames and every bound:           *)
(* type correctness, the safety invariants TLC checks on MCStream.cfg, and *)
(* the refinement of FrameChannel.                                         *)
(*                                                                         *)
(* None of the invariants is inductive by itself.  What makes them so is   *)
(* that a frame in flight (~canSwap) is in exactly one of three hands: the *)
(* writer's, between its two critical sections; the channel's, while       *)
(* dataReady; the reader's, between the two critical sections of flush().  *)
(***************************************************************************)
EXTENDS Stream, TLAPS

\* A frame in flight is in exactly one place.
Custody ==
  /\ ~canSwap <=> (writer = "setReady" \/ dataReady \/ reader = "setCanSwap")
  /\ writer = "setReady" => ~dataReady /\ reader # "setCanSwap"
  /\ reader = "setCanSwap" => ~dataReady
  /\ reader = "process" => dataReady

\* What the two buffers, the size being committed and the count returned hold.
Contents ==
  /\ writeBuf # readBuf
  /\ ~canSwap => dataSize \in Frames /\ buf[readBuf] = dataSize
  /\ reader = "process" => count = dataSize
  /\ writer \in {"swap", "swapWait", "swapWake"} => size \in Frames /\ buf[writeBuf] = size

\* What has been sent and read so far differs by the frame in flight, until it is read.
History ==
  IF canSwap \/ reader \in {"process", "setCanSwap"}
  THEN got = sent
  ELSE sent = Append(got, dataSize)

\* The stop flags are raised exactly while a doStop is under way, and nReaders counts the
\* one thread that can be inside read().
Stopping ==
  /\ writerStop <=> writerCtl # "idle"
  /\ readerStop <=> readerCtl # "idle"
  /\ nReaders = IF reader \in {"readWait", "readWake"} THEN 1 ELSE 0
  /\ readerCtl \in {"join", "clear"} => nReaders = 0

\* The inductive invariant.
StreamInv == TypeOK /\ Custody /\ Contents /\ History /\ Stopping /\ NoLostWakeup

-----------------------------------------------------------------------------
(* Every action keeps the types; the sequences only grow by frames.         *)

\* The types of the state of Stream are kept by every step of Next.
LEMMA TypeStep == ASSUME Contents, TypeOK, Custody, Stopping, [Next]_vars PROVE TypeOK'
<1> USE NoFrameAssumption, MaxSentAssumption
    DEF TypeOK, vars, flags, bufs, Buffers, WriterSteps, ReaderSteps, WriterCtlSteps, ReaderCtlSteps
<1>1. ASSUME NEW f \in Frames, Fill(f) PROVE TypeOK'
  BY <1>1 DEF Fill
<1>2. CASE SwapBuffers
  <2>1. size \in Frames /\ sent' = Append(sent, size)
    BY <1>2 DEF SwapBuffers, Contents
  <2>2. sent' \in Seq(Frames)
    BY <2>1
  <2>3. canSwap' \in BOOLEAN
    BY <1>2, Zenon DEF SwapBuffers
  <2>. QED BY <1>2, <2>1, <2>2, <2>3 DEF SwapBuffers
<1>3. CASE ReadReturn
  <2>1. ~readerStop => dataSize \in Frames
    BY <1>3 DEF ReadReturn, MayRead, Contents, Custody
  <2>2. got' \in Seq(Frames)
    BY <1>3, <2>1 DEF ReadReturn
  <2>. QED BY <1>3, <2>2 DEF ReadReturn, Stopping
<1>4. CASE SwapBlock
  BY <1>4 DEF SwapBlock
<1>5. CASE SwapAbandon
  BY <1>5 DEF SwapAbandon
<1>6. CASE SetReady
  BY <1>6 DEF SetReady
<1>7. CASE NotifyReady
  BY <1>7 DEF NotifyReady, WakeReader
<1>8. CASE ReadBlock
  BY <1>8 DEF ReadBlock, Stopping
<1>9. CASE FlushReady
  <2>1. dataReady' \in BOOLEAN
    BY <1>9, Zenon DEF FlushReady
  <2>. QED BY <1>9, <2>1 DEF FlushReady
<1>10. CASE FlushCanSwap
  BY <1>10 DEF FlushCanSwap
<1>11. CASE NotifySwap
  BY <1>11 DEF NotifySwap, WakeWriter
<1>12. CASE SpuriousWake
  BY <1>12 DEF SpuriousWake, WakeReader, WakeWriter
<1>13. CASE StartWriter
  BY <1>13 DEF StartWriter
<1>14. CASE StopWriter
  BY <1>14 DEF StopWriter
<1>15. CASE StopWriterNotify
  BY <1>15 DEF StopWriterNotify, WakeWriter
<1>16. CASE JoinWriter
  BY <1>16 DEF JoinWriter
<1>17. CASE ClearWriteStop
  <2>1. writerStop' \in BOOLEAN
    BY <1>17, Zenon DEF ClearWriteStop
  <2>. QED BY <1>17, <2>1 DEF ClearWriteStop
<1>18. CASE StartReader
  BY <1>18 DEF StartReader
<1>19. CASE StopReader
  BY <1>19 DEF StopReader
<1>20. CASE StopReaderNotify
  BY <1>20 DEF StopReaderNotify, WakeReader
<1>21. CASE StopReaderSpin
  BY <1>21 DEF StopReaderSpin
<1>22. CASE JoinReader
  BY <1>22 DEF JoinReader
<1>23. CASE ClearReadStop
  <2>1. readerStop' \in BOOLEAN
    BY <1>23, Zenon DEF ClearReadStop
  <2>. QED BY <1>23, <2>1 DEF ClearReadStop
<1>24. CASE UNCHANGED vars
  BY <1>24
<1>. QED
  BY <1>1, <1>2, <1>3, <1>4, <1>5, <1>6, <1>7, <1>8, <1>9, <1>10, <1>11, <1>12, <1>13, <1>14,
     <1>15, <1>16, <1>17, <1>18, <1>19, <1>20, <1>21, <1>22, <1>23, <1>24
     DEF Next, WriterStep, ReaderStep, StopWriterStep, StopReaderStep

\* A frame in flight passes from hand to hand and is never in two.
LEMMA CustodyStep == ASSUME TypeOK, Custody, [Next]_vars PROVE Custody'
<1> USE DEF vars, flags, bufs, Custody, TypeOK
<1>1. ASSUME NEW f \in Frames, Fill(f) PROVE Custody'
  BY <1>1 DEF Fill
<1>2. CASE SwapBlock
  BY <1>2 DEF SwapBlock, MaySwap
<1>3. CASE SwapAbandon
  BY <1>3 DEF SwapAbandon
<1>4. CASE SwapBuffers
  BY <1>4 DEF SwapBuffers, MaySwap
<1>5. CASE SetReady
  BY <1>5 DEF SetReady
<1>6. CASE NotifyReady
  BY <1>6 DEF NotifyReady, WakeReader
<1>7. CASE ReadBlock
  BY <1>7 DEF ReadBlock, MayRead
<1>8. CASE ReadReturn
  BY <1>8 DEF ReadReturn, MayRead
<1>9. CASE FlushReady
  BY <1>9 DEF FlushReady
<1>10. CASE FlushCanSwap
  BY <1>10 DEF FlushCanSwap
<1>11. CASE NotifySwap
  BY <1>11 DEF NotifySwap, WakeWriter
<1>12. CASE SpuriousWake
  BY <1>12 DEF SpuriousWake, WakeReader, WakeWriter
<1>13. CASE StartWriter \/ StopWriter \/ StopWriterNotify \/ JoinWriter \/ ClearWriteStop
  BY <1>13 DEF StartWriter, StopWriter, StopWriterNotify, JoinWriter, ClearWriteStop, WakeWriter
<1>14. CASE StartReader \/ StopReader \/ StopReaderNotify \/ StopReaderSpin \/ JoinReader \/ ClearReadStop
  BY <1>14
     DEF StartReader, StopReader, StopReaderNotify, StopReaderSpin, JoinReader, ClearReadStop, WakeReader
<1>15. CASE UNCHANGED vars
  BY <1>15
<1>. QED
  BY <1>1, <1>2, <1>3, <1>4, <1>5, <1>6, <1>7, <1>8, <1>9, <1>10, <1>11, <1>12, <1>13, <1>14, <1>15
     DEF Next, WriterStep, ReaderStep, StopWriterStep, StopReaderStep

\* No buffer is written while the frame in it is in flight.
LEMMA ContentsStep == ASSUME TypeOK, Custody, Contents, [Next]_vars PROVE Contents'
<1> USE DEF vars, flags, bufs, Contents, Custody, TypeOK, Buffers
<1>1. ASSUME NEW f \in Frames, Fill(f) PROVE Contents'
  BY <1>1 DEF Fill
<1>2. CASE SwapBlock
  BY <1>2 DEF SwapBlock, MaySwap
<1>3. CASE SwapAbandon
  BY <1>3 DEF SwapAbandon
<1>4. CASE SwapBuffers
  BY <1>4 DEF SwapBuffers, MaySwap
<1>5. CASE SetReady
  BY <1>5 DEF SetReady
<1>6. CASE NotifyReady
  BY <1>6 DEF NotifyReady, WakeReader
<1>7. CASE ReadBlock
  BY <1>7 DEF ReadBlock, MayRead
<1>8. CASE ReadReturn
  BY <1>8 DEF ReadReturn, MayRead
<1>9. CASE FlushReady
  BY <1>9 DEF FlushReady
<1>10. CASE FlushCanSwap
  BY <1>10 DEF FlushCanSwap
<1>11. CASE NotifySwap
  BY <1>11 DEF NotifySwap, WakeWriter
<1>12. CASE SpuriousWake
  BY <1>12 DEF SpuriousWake, WakeReader, WakeWriter
<1>13. CASE StartWriter \/ StopWriter \/ StopWriterNotify \/ JoinWriter \/ ClearWriteStop
  BY <1>13 DEF StartWriter, StopWriter, StopWriterNotify, JoinWriter, ClearWriteStop, WakeWriter
<1>14. CASE StartReader \/ StopReader \/ StopReaderNotify \/ StopReaderSpin \/ JoinReader \/ ClearReadStop
  BY <1>14
     DEF StartReader, StopReader, StopReaderNotify, StopReaderSpin, JoinReader, ClearReadStop, WakeReader
<1>15. CASE UNCHANGED vars
  BY <1>15
<1>. QED
  BY <1>1, <1>2, <1>3, <1>4, <1>5, <1>6, <1>7, <1>8, <1>9, <1>10, <1>11, <1>12, <1>13, <1>14, <1>15
     DEF Next, WriterStep, ReaderStep, StopWriterStep, StopReaderStep

\* A frame is read once, and only when the one before it was released.
LEMMA HistoryStep == ASSUME TypeOK, Custody, Contents, History, [Next]_vars PROVE History'
<1> USE DEF vars, flags, bufs, History, Custody, Contents, TypeOK
<1>1. ASSUME NEW f \in Frames, Fill(f) PROVE History'
  BY <1>1 DEF Fill
<1>2. CASE SwapBlock
  BY <1>2 DEF SwapBlock, MaySwap
<1>3. CASE SwapAbandon
  BY <1>3 DEF SwapAbandon
<1>4. CASE SwapBuffers
  BY <1>4 DEF SwapBuffers, MaySwap
<1>5. CASE SetReady
  BY <1>5 DEF SetReady
<1>6. CASE NotifyReady
  BY <1>6 DEF NotifyReady, WakeReader
<1>7. CASE ReadBlock
  BY <1>7 DEF ReadBlock, MayRead
<1>8. CASE ReadReturn
  BY <1>8 DEF ReadReturn, MayRead
<1>9. CASE FlushReady
  BY <1>9 DEF FlushReady
<1>10. CASE FlushCanSwap
  BY <1>10 DEF FlushCanSwap
<1>11. CASE NotifySwap
  BY <1>11 DEF NotifySwap, WakeWriter
<1>12. CASE SpuriousWake
  BY <1>12 DEF SpuriousWake, WakeReader, WakeWriter
<1>13. CASE StartWriter \/ StopWriter \/ StopWriterNotify \/ JoinWriter \/ ClearWriteStop
  BY <1>13 DEF StartWriter, StopWriter, StopWriterNotify, JoinWriter, ClearWriteStop, WakeWriter
<1>14. CASE StartReader \/ StopReader \/ StopReaderNotify \/ StopReaderSpin \/ JoinReader \/ ClearReadStop
  BY <1>14
     DEF StartReader, StopReader, StopReaderNotify, StopReaderSpin, JoinReader, ClearReadStop, WakeReader
<1>15. CASE UNCHANGED vars
  BY <1>15
<1>. QED
  BY <1>1, <1>2, <1>3, <1>4, <1>5, <1>6, <1>7, <1>8, <1>9, <1>10, <1>11, <1>12, <1>13, <1>14, <1>15
     DEF Next, WriterStep, ReaderStep, StopWriterStep, StopReaderStep

\* The stop flags follow the two controllers, and nReaders the reader.
LEMMA StoppingStep == ASSUME TypeOK, Stopping, [Next]_vars PROVE Stopping'
<1> USE DEF vars, flags, bufs, Stopping, TypeOK, ReaderSteps
<1>1. ASSUME NEW f \in Frames, Fill(f) PROVE Stopping'
  BY <1>1 DEF Fill
<1>2. CASE SwapBlock
  BY <1>2 DEF SwapBlock, MaySwap
<1>3. CASE SwapAbandon
  BY <1>3 DEF SwapAbandon
<1>4. CASE SwapBuffers
  BY <1>4 DEF SwapBuffers, MaySwap
<1>5. CASE SetReady
  BY <1>5 DEF SetReady
<1>6. CASE NotifyReady
  BY <1>6 DEF NotifyReady, WakeReader
<1>7. CASE ReadBlock
  BY <1>7 DEF ReadBlock, MayRead
<1>8. CASE ReadReturn
  BY <1>8 DEF ReadReturn, MayRead
<1>9. CASE FlushReady
  BY <1>9 DEF FlushReady
<1>10. CASE FlushCanSwap
  BY <1>10 DEF FlushCanSwap
<1>11. CASE NotifySwap
  BY <1>11 DEF NotifySwap, WakeWriter
<1>12. CASE SpuriousWake
  BY <1>12 DEF SpuriousWake, WakeReader, WakeWriter
<1>13. CASE StartWriter
  BY <1>13 DEF StartWriter
<1>14. CASE StopWriter
  BY <1>14 DEF StopWriter
<1>15. CASE StopWriterNotify
  BY <1>15 DEF StopWriterNotify, WakeWriter
<1>16. CASE JoinWriter
  BY <1>16 DEF JoinWriter
<1>17. CASE ClearWriteStop
  BY <1>17 DEF ClearWriteStop
<1>18. CASE StartReader
  BY <1>18 DEF StartReader
<1>19. CASE StopReader
  BY <1>19 DEF StopReader
<1>20. CASE StopReaderNotify
  BY <1>20 DEF StopReaderNotify, WakeReader
<1>21. CASE StopReaderSpin
  BY <1>21 DEF StopReaderSpin
<1>22. CASE JoinReader
  BY <1>22 DEF JoinReader
<1>23. CASE ClearReadStop
  BY <1>23 DEF ClearReadStop
<1>24. CASE UNCHANGED vars
  BY <1>24
<1>. QED
  BY <1>1, <1>2, <1>3, <1>4, <1>5, <1>6, <1>7, <1>8, <1>9, <1>10, <1>11, <1>12, <1>13, <1>14,
     <1>15, <1>16, <1>17, <1>18, <1>19, <1>20, <1>21, <1>22, <1>23, <1>24
     DEF Next, WriterStep, ReaderStep, StopWriterStep, StopReaderStep

\* Whoever makes a predicate true has yet to notify.
LEMMA WakeupStep == ASSUME TypeOK, Stopping, NoLostWakeup, [Next]_vars PROVE NoLostWakeup'
<1> USE DEF vars, flags, bufs, NoLostWakeup, Stopping, TypeOK, MayRead, MaySwap
<1>1. ASSUME NEW f \in Frames, Fill(f) PROVE NoLostWakeup'
  BY <1>1 DEF Fill
<1>2. CASE SwapBlock
  BY <1>2 DEF SwapBlock, MaySwap
<1>3. CASE SwapAbandon
  BY <1>3 DEF SwapAbandon
<1>4. CASE SwapBuffers
  BY <1>4 DEF SwapBuffers, MaySwap
<1>5. CASE SetReady
  BY <1>5 DEF SetReady
<1>6. CASE NotifyReady
  BY <1>6 DEF NotifyReady, WakeReader
<1>7. CASE ReadBlock
  BY <1>7 DEF ReadBlock, MayRead
<1>8. CASE ReadReturn
  BY <1>8 DEF ReadReturn, MayRead
<1>9. CASE FlushReady
  BY <1>9 DEF FlushReady
<1>10. CASE FlushCanSwap
  BY <1>10 DEF FlushCanSwap
<1>11. CASE NotifySwap
  BY <1>11 DEF NotifySwap, WakeWriter
<1>12. CASE SpuriousWake
  BY <1>12 DEF SpuriousWake, WakeReader, WakeWriter
<1>13. CASE StartWriter
  BY <1>13 DEF StartWriter
<1>14. CASE StopWriter
  BY <1>14 DEF StopWriter
<1>15. CASE StopWriterNotify
  BY <1>15 DEF StopWriterNotify, WakeWriter
<1>16. CASE JoinWriter
  BY <1>16 DEF JoinWriter
<1>17. CASE ClearWriteStop
  BY <1>17 DEF ClearWriteStop
<1>18. CASE StartReader
  BY <1>18 DEF StartReader
<1>19. CASE StopReader
  BY <1>19 DEF StopReader
<1>20. CASE StopReaderNotify
  BY <1>20 DEF StopReaderNotify, WakeReader
<1>21. CASE StopReaderSpin
  BY <1>21 DEF StopReaderSpin
<1>22. CASE JoinReader
  BY <1>22 DEF JoinReader
<1>23. CASE ClearReadStop
  BY <1>23 DEF ClearReadStop
<1>24. CASE UNCHANGED vars
  BY <1>24
<1>. QED
  BY <1>1, <1>2, <1>3, <1>4, <1>5, <1>6, <1>7, <1>8, <1>9, <1>10, <1>11, <1>12, <1>13, <1>14,
     <1>15, <1>16, <1>17, <1>18, <1>19, <1>20, <1>21, <1>22, <1>23, <1>24
     DEF Next, WriterStep, ReaderStep, StopWriterStep, StopReaderStep

-----------------------------------------------------------------------------
\* StreamInv is an inductive invariant of the specification.
THEOREM Invariance == Spec => []StreamInv
<1>1. ASSUME Init PROVE StreamInv
  <2>1. TypeOK
    <3>1. canSwap \in BOOLEAN /\ dataReady \in BOOLEAN /\ writerStop \in BOOLEAN /\ readerStop \in BOOLEAN
      BY <1>1, Zenon DEF Init
    <3>2. buf \in [Buffers -> Frames \cup {NoFrame}]
      BY <1>1 DEF Init
    <3>. QED
      BY <1>1, <3>1, <3>2
         DEF Init, TypeOK, Buffers, WriterSteps, ReaderSteps, WriterCtlSteps, ReaderCtlSteps
  <2>2. Custody /\ Contents
    BY <1>1 DEF Init, Custody, Contents
  <2>3. History /\ Stopping /\ NoLostWakeup
    BY <1>1 DEF Init, History, Stopping, NoLostWakeup
  <2>. QED BY <2>1, <2>2, <2>3 DEF StreamInv
<1>2. StreamInv /\ [Next]_vars => StreamInv'
  BY TypeStep, CustodyStep, ContentsStep, HistoryStep, StoppingStep, WakeupStep DEF StreamInv
<1>. QED BY <1>1, <1>2, PTL DEF Spec

\* Every variable of the stream and of its four threads keeps its type.
THEOREM TypeCorrect == Spec => []TypeOK
<1>1. StreamInv => TypeOK
  BY DEF StreamInv
<1>. QED BY <1>1, Invariance, PTL

\* The frame a block processes is the one read() announced, and stays in its read buffer.
THEOREM Stability == Spec => []FrameIsStable
<1>1. StreamInv => FrameIsStable
  BY DEF StreamInv, FrameIsStable, Custody, Contents
<1>. QED BY <1>1, Invariance, PTL

\* No frame is lost, repeated or overtaken, however often either side is stopped.
THEOREM Order == Spec => []InOrder
<1>1. StreamInv => InOrder
  <2> SUFFICES ASSUME StreamInv, got # sent
               PROVE  sent # <<>> /\ got = SubSeq(sent, 1, Len(sent) - 1)
    BY DEF InOrder
  <2>1. sent = Append(got, dataSize) /\ got \in Seq(Frames) /\ dataSize \in Frames
    BY DEF StreamInv, History, Contents, TypeOK
  <2>. QED BY <2>1
<1>. QED BY <1>1, Invariance, PTL

\* A thread asleep in swap() or read() whose predicate holds is about to be notified.
THEOREM Wakeups == Spec => []NoLostWakeup
<1>1. StreamInv => NoLostWakeup
  BY DEF StreamInv
<1>. QED BY <1>1, Invariance, PTL

\* When stopReader() has returned, nobody is inside read().
THEOREM StoppedOutside == Spec => []StoppedIsOutside
<1>1. StreamInv => StoppedIsOutside
  BY DEF StreamInv, Stopping, StoppedIsOutside
<1>. QED BY <1>1, Invariance, PTL

-----------------------------------------------------------------------------
(* The refinement.  Only three steps of Stream are visible in the channel:  *)
(* SwapBuffers puts, ReadReturn takes unless stopped, FlushCanSwap          *)
(* releases; everything else is a stutter.                                  *)

\* Stream starts as an empty channel.
LEMMA ChannelInit == Init => Channel!ChanInit
BY DEF Init, Channel!ChanInit

\* Every step of Stream is a step of the channel or leaves it unchanged.
LEMMA ChannelStep ==
  ASSUME StreamInv, [Next]_vars
  PROVE  [Channel!ChanNext]_(Channel!chanVars)
<1> USE DEF StreamInv, TypeOK, vars, flags, bufs, Channel!ChanNext, Channel!chanVars
<1>1. ASSUME NEW f \in Frames, Fill(f) PROVE UNCHANGED Channel!chanVars
  BY <1>1 DEF Fill
<1>2. CASE SwapBuffers
  <2>1. canSwap /\ ~canSwap' /\ dataSize' = size /\ size \in Frames
    BY <1>2 DEF SwapBuffers, MaySwap, Contents
  <2>2. Channel!Put(size)
    BY <1>2, <2>1 DEF SwapBuffers, Channel!Put
  <2>. QED BY <2>1, <2>2
<1>3. CASE ReadReturn /\ ~readerStop
  <2>1. ~canSwap
    BY <1>3 DEF ReadReturn, MayRead, Custody
  <2>2. Channel!Take
    BY <1>3, <2>1 DEF ReadReturn, Channel!Take
  <2>. QED BY <2>2
<1>4. CASE FlushCanSwap
  <2>1. canSwap'
    BY <1>4 DEF FlushCanSwap
  <2>2. Channel!Release
    BY <1>4, <2>1 DEF FlushCanSwap, Channel!Release
  <2>. QED BY <2>2
<1>5. CASE ReadReturn /\ readerStop
  BY <1>5 DEF ReadReturn
<1>6. CASE SwapBlock \/ SwapAbandon \/ SetReady
  BY <1>6 DEF SwapBlock, SwapAbandon, SetReady
<1>7. CASE NotifyReady \/ SpuriousWake
  BY <1>7 DEF NotifyReady, SpuriousWake, WakeReader, WakeWriter
<1>8. CASE ReadBlock \/ FlushReady \/ NotifySwap
  BY <1>8 DEF ReadBlock, FlushReady, NotifySwap, WakeWriter
<1>9. CASE StartWriter \/ StopWriter \/ StopWriterStep
  BY <1>9 DEF StartWriter, StopWriter, StopWriterStep, StopWriterNotify, JoinWriter,
              ClearWriteStop, WakeWriter
<1>10. CASE StartReader \/ StopReader \/ StopReaderStep
  BY <1>10 DEF StartReader, StopReader, StopReaderStep, StopReaderNotify, StopReaderSpin,
               JoinReader, ClearReadStop, WakeReader
<1>11. CASE UNCHANGED vars
  BY <1>11
<1>. QED
  BY <1>1, <1>2, <1>3, <1>4, <1>5, <1>6, <1>7, <1>8, <1>9, <1>10, <1>11
     DEF Next, WriterStep, ReaderStep

\* The stream implements the one-frame channel.
THEOREM Refinement == Spec => ImplementsChannel
<1>1. Init => Channel!ChanInit
  BY ChannelInit
<1>2. StreamInv /\ [Next]_vars => [Channel!ChanNext]_(Channel!chanVars)
  BY ChannelStep
<1>. QED BY <1>1, <1>2, Invariance, PTL DEF Spec, ImplementsChannel, Channel!ChanSpec
=============================================================================
