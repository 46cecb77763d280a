----------------------------- MODULE FrameBuffer ----------------------------
(***************************************************************************)
(* dsp::buffer::SampleFrameBuffer<T> (core/src/dsp/buffer/frame_buffer.h), *)
(* the input buffer of the IQ front end: a ring of whole frames between    *)
(* two threads.  workerThread puts in what it reads, readWorkerThread      *)
(* takes out and swaps; both under bufMtx.  The user interface flushes it  *)
(* whenever the radio is started or stopped, stops and restarts it to      *)
(* change its input, and switches its bypass while it runs when the file   *)
(* source is selected or deselected.  The two streams outside are reduced  *)
(* to when read() and swap() return.                                       *)
(*                                                                         *)
(* Both threads fill out.writeBuf and swap it: workerThread with the       *)
(* bypass, readWorkerThread without, and nothing keeps one from doing so   *)
(* while the other does once the bypass is switched over frames that wait. *)
(*                                                                         *)
(* "hold" is the moment in condition_variable::wait between the predicate  *)
(* and the release of bufMtx; stopWorker is set without bufMtx.            *)
(***************************************************************************)
EXTENDS Integers, Sequences

CONSTANTS Size,      \* TEST_BUFFER_SIZE
          MaxMade    \* bound: how many frames come in
ASSUME SizeAssumption == Size \in Nat \ {0} /\ MaxMade \in Nat

VARIABLES
  buffers,           \* the ring; a frame is its number, 0 one never written
  writeCur, readCur,
  bypass,            \* FALSE from IQFrontEnd::init(), switched by setBuffering()
  run, reader,       \* the steps of workerThread and of readWorkerThread
  made, latest,      \* history: how many frames came in, and the last put into out.writeBuf
  inStop, outStop,   \* readerStop of _in, writerStop of out
  stopWorker,
  ctl,               \* where the user interface is in doStop()
  missed             \* history: the stop was notified between check and sleep

ringVars == <<buffers, writeCur, readCur>>
stops    == <<inStop, outStop, stopWorker>>
history  == <<made, latest, missed>>
vars     == <<ringVars, bypass, run, reader, history, stops, ctl>>

Init ==
  /\ buffers = [i \in 0 .. Size - 1 |-> 0] /\ writeCur = 0 /\ readCur = 0
  /\ bypass = FALSE
  /\ run = "off" /\ reader = "off"
  /\ made = 0 /\ latest = 0 /\ missed = FALSE
  /\ inStop = FALSE /\ outStop = FALSE /\ stopWorker = FALSE /\ ctl = "idle"

-----------------------------------------------------------------------------
(* workerThread.                                                            *)

\* Nobody holds bufMtx from one action to the next but a waiter about to sleep.
Unlocked == reader # "hold"

Following(i) == (i + 1) % Size

ReadIn ==
  /\ run = "read" /\ ~inStop /\ made < MaxMade
  /\ run' = IF bypass THEN "pass" ELSE "push"
  /\ UNCHANGED <<ringVars, bypass, reader, history, stops, ctl>>

\* Mutant: the frame is put in without bufMtx.
Push_Unlocked ==
  /\ run = "push"
  /\ buffers' = [buffers EXCEPT ![writeCur] = made + 1]
  /\ writeCur' = Following(writeCur)
  /\ made' = made + 1 /\ run' = "notify"
  /\ UNCHANGED <<readCur, bypass, reader, latest, missed, stops, ctl>>

\* Nothing looks at readCur: the frame that fills the ring makes it empty.
Push ==
  /\ run = "push" /\ Unlocked
  /\ buffers' = [buffers EXCEPT ![writeCur] = made + 1]
  /\ writeCur' = Following(writeCur)
  /\ made' = made + 1 /\ run' = "notify"
  /\ UNCHANGED <<readCur, bypass, reader, latest, missed, stops, ctl>>

Woken(step) == IF step = "sleep" THEN "check" ELSE step

\* notify_all() and the flush of the input.
NotifyPushed ==
  /\ run = "notify"
  /\ reader' = Woken(reader) /\ run' = "read"
  /\ UNCHANGED <<ringVars, bypass, history, stops, ctl>>

\* With the bypass the frame is copied to out.writeBuf, whatever waits in the ring and
\* whether or not the other thread has put a frame there it has not swapped ...
Pass ==
  /\ run = "pass"
  /\ made' = made + 1 /\ latest' = made' /\ run' = "passed"
  /\ UNCHANGED <<ringVars, bypass, reader, missed, stops, ctl>>

\* ... and swapped by this thread.
Passed ==
  /\ run = "passed" /\ ~outStop
  /\ run' = "read"
  /\ UNCHANGED <<ringVars, bypass, reader, history, stops, ctl>>

RunStopped ==
  /\ \/ run = "read" /\ inStop
     \/ run = "passed" /\ outStop
  /\ run' = "exited"
  /\ UNCHANGED <<ringVars, bypass, reader, history, stops, ctl>>

RunStep == ReadIn \/ Push \/ NotifyPushed \/ Pass \/ RunStopped

-----------------------------------------------------------------------------
(* readWorkerThread.                                                        *)

Waiting == (writeCur - readCur + Size) % Size

\* Mutant: the cursor moves on before the frame is copied.
Take_CursorFirst ==
  /\ reader = "check" /\ ~stopWorker /\ Waiting > 0
  /\ readCur' = Following(readCur)
  /\ latest' = buffers[readCur']
  /\ reader' = "swap"
  /\ UNCHANGED <<buffers, writeCur, bypass, run, made, missed, stops, ctl>>

Take ==
  /\ reader = "check" /\ ~stopWorker /\ Waiting > 0
  /\ latest' = buffers[readCur]
  /\ readCur' = Following(readCur)
  /\ reader' = "swap"
  /\ UNCHANGED <<buffers, writeCur, bypass, run, made, missed, stops, ctl>>

Hold ==
  /\ reader = "check" /\ ~stopWorker /\ Waiting = 0
  /\ reader' = "hold"
  /\ UNCHANGED <<ringVars, bypass, run, history, stops, ctl>>

Sleep ==
  /\ reader = "hold"
  /\ reader' = "sleep"
  /\ UNCHANGED <<ringVars, bypass, run, history, stops, ctl>>

SpuriousWake ==
  /\ reader = "sleep"
  /\ reader' = "check"
  /\ UNCHANGED <<ringVars, bypass, run, history, stops, ctl>>

Swap ==
  /\ reader = "swap" /\ ~outStop
  /\ reader' = "check"
  /\ UNCHANGED <<ringVars, bypass, run, history, stops, ctl>>

ReaderStopped ==
  /\ \/ reader = "check" /\ stopWorker
     \/ reader = "swap" /\ outStop
  /\ reader' = "exited"
  /\ UNCHANGED <<ringVars, bypass, run, history, stops, ctl>>

ReaderStep == Take \/ Hold \/ Sleep \/ ReaderStopped

-----------------------------------------------------------------------------
(* The user interface.                                                      *)

Off == run = "off" /\ reader = "off"

\* flushInputBuffer(), from setPlayState().
Flush ==
  /\ ctl = "idle" /\ Unlocked
  /\ readCur' = writeCur
  /\ UNCHANGED <<buffers, writeCur, bypass, run, reader, history, stops, ctl>>

\* IQFrontEnd::setBuffering(), from the file source's menuSelected() and menuDeselected():
\* an assignment, with no look at the ring and no stop of the two threads.
SetBuffering(enabled) ==
  /\ ctl = "idle" /\ ~Off
  /\ bypass' = ~enabled
  /\ UNCHANGED <<ringVars, run, reader, history, stops, ctl>>

\* doStart(): what was in the ring is still there.
Start ==
  /\ ctl = "idle" /\ Off
  /\ run' = "read" /\ reader' = "check"
  /\ UNCHANGED <<ringVars, bypass, history, stops, ctl>>

StopIn ==
  /\ ctl = "idle" /\ ~Off
  /\ inStop' = TRUE /\ ctl' = "outStop"
  /\ UNCHANGED <<ringVars, bypass, run, reader, history, outStop, stopWorker>>

\* Mutant: out.stopWriter() is not called.
StopOut_Skipped ==
  /\ ctl = "outStop" /\ ctl' = "stopWorker"
  /\ UNCHANGED <<ringVars, bypass, run, reader, history, stops>>

StopOut ==
  /\ ctl = "outStop"
  /\ outStop' = TRUE /\ ctl' = "stopWorker"
  /\ UNCHANGED <<ringVars, bypass, run, reader, history, inStop, stopWorker>>

StopWorker ==
  /\ ctl = "stopWorker"
  /\ stopWorker' = TRUE /\ ctl' = "notify"
  /\ UNCHANGED <<ringVars, bypass, run, reader, history, inStop, outStop>>

NotifyStop ==
  /\ ctl = "notify"
  /\ reader' = Woken(reader) /\ ctl' = "join"
  /\ missed' = (missed \/ reader = "hold")
  /\ UNCHANGED <<ringVars, bypass, run, made, latest, stops>>

Join ==
  /\ ctl = "join" /\ run = "exited" /\ reader = "exited"
  /\ run' = "off" /\ reader' = "off" /\ ctl' = "idle"
  /\ inStop' = FALSE /\ outStop' = FALSE /\ stopWorker' = FALSE
  /\ UNCHANGED <<ringVars, bypass, history>>

StopStep == StopOut \/ StopWorker \/ NotifyStop \/ Join

Next == \/ RunStep \/ ReaderStep \/ Passed \/ Swap \/ SpuriousWake
        \/ Flush \/ Start \/ StopIn \/ StopStep
        \/ \E enabled \in BOOLEAN : SetBuffering(enabled)

Spec == Init /\ [][Next]_vars

\* The threads run; whether the block behind takes a frame is its own affair.
LiveSpec == Spec /\ WF_vars(RunStep) /\ WF_vars(ReaderStep) /\ WF_vars(StopStep)

-----------------------------------------------------------------------------
(* Properties.                                                              *)

\* readWorkerThread does not sleep over a frame that waits unless it is about to be
\* notified, nor over a stop, unless that was notified between its check and its sleep.
NoLostWakeup ==
  /\ reader \in {"hold", "sleep"} /\ Waiting > 0 => run = "notify"
  /\ reader = "sleep" /\ stopWorker => missed \/ ctl = "notify"

Queue == [i \in 1 .. Waiting |-> buffers[(readCur + i - 1) % Size]]

\* A frame in out.writeBuf that is not swapped, of either thread.
Leaving == reader = "swap" \/ run = "passed"

\* What run() passes, or will pass, meets frames that came before it.
Mixed == /\ bypass \/ run \in {"pass", "passed"}
         /\ Waiting > 0 \/ reader = "swap" \/ run = "push"

\* Frames come out in order, none twice and no two in out.writeBuf at once, through
\* wrap-arounds, overflows, flushes, restarts and changes of the bypass, and none is missing
\* that was not thrown away with a full ring or by a flush - but while frames from before
\* the bypass was switched on are still inside, which no other step brings about.
Lossy == INSTANCE LossyQueue WITH Limit <- Size - 1, queue <- Queue, leaving <- Leaving,
                                  mixed <- Mixed
ImplementsLossyQueue == Lossy!LossySpec

\* doStop() returns, wherever the two threads are and whether or not the block behind takes
\* its frame - unless the stop was missed.
StopReturns == ctl # "idle" ~> ctl = "idle" \/ missed
=============================================================================
