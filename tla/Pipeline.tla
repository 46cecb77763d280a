------------------------------ MODULE Pipeline ------------------------------
(***************************************************************************)
(* A line of DSP blocks (core/src/dsp/block.h) joined by streams: a source *)
(* block, processors (dsp/processor.h), a sink block.  Each block has a    *)
(* worker thread running run() until it returns -1; any thread of the      *)
(* program may start a block, stop it, or change its settings between      *)
(* tempStop() and tempStart(), at any time and on any block, in particular *)
(* while the neighbours wait for each other's data.                        *)
(*                                                                         *)
(* The streams are those of Stream, one step per critical section; a       *)
(* condition variable is a guard here, because Stream shows that no wakeup *)
(* is ever lost.  Stream s connects block s to block s + 1.                *)
(***************************************************************************)
EXTENDS Naturals, Sequences, FiniteSets

CONSTANTS N,          \* the number of blocks
          Threads,    \* the threads that control them
          MaxNest,    \* bound: how deep tempStop() brackets nest (a setter calling a setter)
          MaxFrames,  \* bound: how many frames the source produces
          MaxOps      \* bound: how many control operations are begun

ASSUME NAssumption == N \in Nat /\ N >= 2
ASSUME ThreadsAssumption == "none" \notin Threads
ASSUME BoundsAssumption == MaxNest \in Nat \ {0} /\ MaxFrames \in Nat /\ MaxOps \in Nat

Blocks  == 1..N
Streams == 1..(N - 1)

VARIABLES
  canSwap, dataReady, readerStop, writerStop,  \* the flags of each stream
  inFlight,           \* the frame in the read buffer of each stream; 0: none yet
  got,                \* history: what the reader of each stream was given
  worker, frame,      \* each block's worker: its step, and the frame in its hands (0: none)
  running, tempStopped, tempStopDepth,         \* the members of block
  ctrlMtx,            \* which thread holds each block's mutex ("none": nobody)
  op,                 \* what each control thread is doing: kind, block, step, and how
                      \* many further tempStop() brackets it is going to open
  produced, dropped,  \* history: how many frames the source made; those a stopped swap dropped
  crashed,            \* a joinable std::thread was assigned over: std::terminate
  begun               \* number of operations begun

streamVars == <<canSwap, dataReady, readerStop, writerStop, inFlight, got>>
workVars   == <<worker, frame, produced, dropped>>
ctlVars    == <<running, tempStopped, tempStopDepth, ctrlMtx, op, crashed, begun>>
vars == <<streamVars, workVars, ctlVars>>

WorkerSteps == {"off", "read", "inside", "process", "flushed", "swap", "setReady", "exited"}
Idle == [kind |-> "none", block |-> 1, step |-> "idle", nest |-> 0]

Init ==
  /\ canSwap = [s \in Streams |-> TRUE]
  /\ dataReady = [s \in Streams |-> FALSE]
  /\ readerStop = [s \in Streams |-> FALSE]
  /\ writerStop = [s \in Streams |-> FALSE]
  /\ inFlight = [s \in Streams |-> 0]
  /\ got = [s \in Streams |-> <<>>]
  /\ worker = [b \in Blocks |-> "off"]
  /\ frame = [b \in Blocks |-> 0]
  /\ running = [b \in Blocks |-> FALSE]
  /\ tempStopped = [b \in Blocks |-> FALSE]
  /\ tempStopDepth = [b \in Blocks |-> 0]
  /\ ctrlMtx = [b \in Blocks |-> "none"]
  /\ op = [t \in Threads |-> Idle]
  /\ produced = 0 /\ dropped = {} /\ crashed = FALSE /\ begun = 0

-----------------------------------------------------------------------------
(* The workers.  In(b) and Out(b) are the streams a block reads and writes. *)

HasIn(b)  == b > 1
HasOut(b) == b < N
In(b)  == b - 1
Out(b) == b

Goto(b, step) == worker' = [worker EXCEPT ![b] = step]

\* run() of a processor or a sink: read() waits ("inside", counted in nReaders) ...
Await(b) ==
  /\ worker[b] = "read" /\ HasIn(b)
  /\ ~dataReady[In(b)] /\ ~readerStop[In(b)]
  /\ Goto(b, "inside")
  /\ UNCHANGED <<streamVars, frame, produced, dropped, ctlVars>>

\* ... and returns the frame ...
Read(b) ==
  /\ worker[b] \in {"read", "inside"} /\ HasIn(b)
  /\ dataReady[In(b)] /\ ~readerStop[In(b)]
  /\ frame' = [frame EXCEPT ![b] = inFlight[In(b)]]
  /\ got' = [got EXCEPT ![In(b)] = Append(@, inFlight[In(b)])]
  /\ Goto(b, "process")
  /\ UNCHANGED <<canSwap, dataReady, readerStop, writerStop, inFlight, produced, dropped, ctlVars>>

\* ... or -1, which ends the worker.
ReadStopped(b) ==
  /\ worker[b] \in {"read", "inside"} /\ HasIn(b) /\ readerStop[In(b)]
  /\ Goto(b, "exited")
  /\ UNCHANGED <<streamVars, frame, produced, dropped, ctlVars>>

\* Mutant: flush() leaves dataReady set.
FlushReady_KeepsFlag(b) ==
  /\ worker[b] = "process"
  /\ Goto(b, "flushed")
  /\ UNCHANGED <<streamVars, frame, produced, dropped, ctlVars>>

\* _in->flush(), in its two critical sections.
FlushReady(b) ==
  /\ worker[b] = "process"
  /\ dataReady' = [dataReady EXCEPT ![In(b)] = FALSE]
  /\ Goto(b, "flushed")
  /\ UNCHANGED <<canSwap, readerStop, writerStop, inFlight, got, frame, produced, dropped, ctlVars>>

\* A sink has no output: the frame is consumed.
FlushCanSwap(b) ==
  /\ worker[b] = "flushed"
  /\ canSwap' = [canSwap EXCEPT ![In(b)] = TRUE]
  /\ frame' = IF HasOut(b) THEN frame ELSE [frame EXCEPT ![b] = 0]
  /\ Goto(b, IF HasOut(b) THEN "swap" ELSE "read")
  /\ UNCHANGED <<dataReady, readerStop, writerStop, inFlight, got, produced, dropped, ctlVars>>

\* run() of the source: make the next frame.
Produce(b) ==
  /\ worker[b] = "read" /\ ~HasIn(b)
  /\ produced' = produced + 1
  /\ frame' = [frame EXCEPT ![b] = produced + 1]
  /\ Goto(b, "swap")
  /\ UNCHANGED <<streamVars, dropped, ctlVars>>

\* Mutant: swap() does not wait for the reader.
MaySwap_Always(b) == TRUE

MaySwap(b) == canSwap[Out(b)]

\* out.swap(): its first critical section, under swapMtx ...
Swap(b) ==
  /\ worker[b] = "swap" /\ ~writerStop[Out(b)] /\ MaySwap(b)
  /\ frame[b] <= MaxFrames    \* the bound: a frame beyond it is only ever dropped by a stop
  /\ canSwap' = [canSwap EXCEPT ![Out(b)] = FALSE]
  /\ inFlight' = [inFlight EXCEPT ![Out(b)] = frame[b]]
  /\ frame' = [frame EXCEPT ![b] = 0]
  /\ Goto(b, "setReady")
  /\ UNCHANGED <<dataReady, readerStop, writerStop, got, produced, dropped, ctlVars>>

\* ... false when the writer was stopped: run() returns -1 and the frame is gone ...
SwapStopped(b) ==
  /\ worker[b] = "swap" /\ writerStop[Out(b)]
  /\ dropped' = dropped \cup {frame[b]}
  /\ frame' = [frame EXCEPT ![b] = 0]
  /\ Goto(b, "exited")
  /\ UNCHANGED <<streamVars, produced, ctlVars>>

\* ... and its second, under rdyMtx.
SetReady(b) ==
  /\ worker[b] = "setReady"
  /\ dataReady' = [dataReady EXCEPT ![Out(b)] = TRUE]
  /\ Goto(b, "read")
  /\ UNCHANGED <<canSwap, readerStop, writerStop, inFlight, got, frame, produced, dropped, ctlVars>>

WorkerStep(b) ==
  \/ Await(b) \/ Read(b) \/ ReadStopped(b) \/ FlushReady(b) \/ FlushCanSwap(b)
  \/ Produce(b) \/ Swap(b) \/ SwapStopped(b) \/ SetReady(b)

-----------------------------------------------------------------------------
(* The control operations.  op[t] says where thread t is in start(), stop() *)
(* or in a setter's tempStop() ... tempStart() bracket, all of which hold   *)
(* ctrlMtx from the first step to the last.                                 *)

At(t, step) == op[t].step = step
Step(t, step) == op' = [op EXCEPT ![t].step = step]

Begin(t, kind, b, nest) ==
  /\ At(t, "idle") /\ ctrlMtx[b] = "none" /\ begun < MaxOps
  /\ begun' = begun + 1
  /\ ctrlMtx' = [ctrlMtx EXCEPT ![b] = t]
  /\ op' = [op EXCEPT ![t] = [kind |-> kind, block |-> b, step |-> kind, nest |-> nest]]
  /\ UNCHANGED <<streamVars, workVars, running, tempStopped, tempStopDepth, crashed>>

Return(t) ==
  /\ ctrlMtx' = [ctrlMtx EXCEPT ![op[t].block] = "none"]
  /\ op' = [op EXCEPT ![t] = Idle]

\* doStart(): the new thread begins at run(); over a joinable thread it is std::terminate.
DoStart(b) ==
  /\ crashed' = (crashed \/ worker[b] # "off")
  /\ Goto(b, "read")

\* Mutant: start() does not look at running.
Start_Again(t) ==
  /\ At(t, "start")
  /\ running' = [running EXCEPT ![op[t].block] = TRUE]
  /\ DoStart(op[t].block)
  /\ Return(t)
  /\ UNCHANGED <<streamVars, frame, produced, dropped, tempStopped, tempStopDepth, begun>>

Start(t) ==
  /\ At(t, "start")
  /\ LET b == op[t].block IN
       IF running[b]
       THEN UNCHANGED <<running, worker, crashed>>
       ELSE running' = [running EXCEPT ![b] = TRUE] /\ DoStart(b)
  /\ Return(t)
  /\ UNCHANGED <<streamVars, frame, produced, dropped, tempStopped, tempStopDepth, begun>>

Stop(t) ==
  /\ At(t, "stop")
  /\ IF running[op[t].block]
     THEN Step(t, "stopReader") /\ UNCHANGED ctrlMtx
     ELSE Return(t)
  /\ UNCHANGED <<streamVars, workVars, running, tempStopped, tempStopDepth, crashed, begun>>

\* Mutant: the outermost tempStop() stops the block whether it runs or not.
MustStop_Always(b) == tempStopDepth[b] = 0

\* Only the outermost tempStop() stops the block, and only a running one.
MustStop(b) == tempStopDepth[b] = 0 /\ running[b] /\ ~tempStopped[b]

TempStop(t) ==
  /\ At(t, "tempStop")
  /\ LET b == op[t].block IN
       /\ tempStopDepth' = [tempStopDepth EXCEPT ![b] = @ + 1]
       /\ Step(t, IF MustStop(b) THEN "stopReader" ELSE "change")
  /\ UNCHANGED <<streamVars, workVars, running, tempStopped, ctrlMtx, crashed, begun>>

\* A setter called inside the bracket opens one of its own.
Nest(t) ==
  /\ At(t, "change") /\ op[t].nest > 0
  /\ op' = [op EXCEPT ![t].step = "tempStop", ![t].nest = @ - 1]
  /\ UNCHANGED <<streamVars, workVars, running, tempStopped, tempStopDepth, ctrlMtx, crashed, begun>>

\* Mutant: an inner tempStart() restarts the block.
IsOutermost_Any(b) == TRUE

IsOutermost(b) == tempStopDepth[b] = 1
Unnest(b) == tempStopDepth' = [tempStopDepth EXCEPT ![b] = @ - 1]

\* The thread leaves the setter, and drops the mutex, with the bracket it opened first.
TempStart(t) ==
  /\ At(t, "change") /\ op[t].nest = 0
  /\ LET b == op[t].block IN
       /\ Unnest(b)
       /\ IF IsOutermost(b) /\ tempStopped[b]
          THEN DoStart(b) /\ tempStopped' = [tempStopped EXCEPT ![b] = FALSE]
          ELSE UNCHANGED <<worker, crashed, tempStopped>>
       /\ IF tempStopDepth[b] = 1 THEN Return(t) ELSE UNCHANGED <<ctrlMtx, op>>
  /\ UNCHANGED <<streamVars, frame, produced, dropped, running, begun>>

(* doStop(): stopReader() on the input, stopWriter() on the output, join,   *)
(* then clear both flags (nobody looks at them between the two stores).     *)

StopReader(t) ==
  /\ At(t, "stopReader")
  /\ readerStop' = [s \in Streams |-> readerStop[s] \/ (HasIn(op[t].block) /\ s = In(op[t].block))]
  /\ Step(t, "spin")
  /\ UNCHANGED <<canSwap, dataReady, writerStop, inFlight, got, workVars,
                 running, tempStopped, tempStopDepth, ctrlMtx, crashed, begun>>

\* Mutant: nobody tells the writer.
StopWriter_Skipped(t) ==
  /\ At(t, "spin")
  /\ worker[op[t].block] # "inside"
  /\ Step(t, "join")
  /\ UNCHANGED <<streamVars, workVars, running, tempStopped, tempStopDepth, ctrlMtx, crashed, begun>>

\* stopReader() polls until nobody is inside read(); then stopWriter().
StopWriter(t) ==
  /\ At(t, "spin")
  /\ worker[op[t].block] # "inside"
  /\ writerStop' = [s \in Streams |-> writerStop[s] \/ (HasOut(op[t].block) /\ s = Out(op[t].block))]
  /\ Step(t, "join")
  /\ UNCHANGED <<canSwap, dataReady, readerStop, inFlight, got, workVars,
                 running, tempStopped, tempStopDepth, ctrlMtx, crashed, begun>>

\* workerThread.join(), skipped when there is no thread.
Join(t) ==
  /\ At(t, "join")
  /\ worker[op[t].block] \in {"exited", "off"}
  /\ Goto(op[t].block, "off")
  /\ Step(t, "clear")
  /\ UNCHANGED <<streamVars, frame, produced, dropped,
                 running, tempStopped, tempStopDepth, ctrlMtx, crashed, begun>>

\* Mutant: clearWriteStop() is forgotten.
ClearStops_Reader(b) ==
  /\ readerStop' = [s \in Streams |-> readerStop[s] /\ s # In(b)]
  /\ UNCHANGED writerStop

ClearStops(b) ==
  /\ readerStop' = [s \in Streams |-> readerStop[s] /\ s # In(b)]
  /\ writerStop' = [s \in Streams |-> writerStop[s] /\ s # Out(b)]

\* The flags are cleared and doStop() returns to stop() or to tempStop().
Clear(t) ==
  /\ At(t, "clear")
  /\ LET b == op[t].block IN
       /\ ClearStops(b)
       /\ IF op[t].kind = "stop"
          THEN running' = [running EXCEPT ![b] = FALSE] /\ UNCHANGED tempStopped /\ Return(t)
          ELSE /\ tempStopped' = [tempStopped EXCEPT ![b] = TRUE]
               /\ Step(t, "change") /\ UNCHANGED <<running, ctrlMtx>>
  /\ UNCHANGED <<canSwap, dataReady, inFlight, got, workVars, tempStopDepth, crashed, begun>>

ControlStep(t) ==
  \/ Start(t) \/ Stop(t) \/ TempStop(t) \/ Nest(t) \/ TempStart(t)
  \/ StopReader(t) \/ StopWriter(t) \/ Join(t) \/ Clear(t)

Next == \/ \E b \in Blocks : WorkerStep(b)
        \/ \E t \in Threads : ControlStep(t)
        \/ \E t \in Threads, b \in Blocks :
             \/ \E kind \in {"start", "stop"} : Begin(t, kind, b, 0)
             \/ \E nest \in 0..MaxNest : Begin(t, "tempStop", b, nest)

Spec == Init /\ [][Next]_vars

\* Threads that can run do run; nobody has to begin an operation.
Fairness == /\ \A b \in Blocks : WF_vars(WorkerStep(b))
            /\ \A t \in Threads : WF_vars(ControlStep(t))

FairSpec == Spec /\ Fairness
-----------------------------------------------------------------------------
(* Properties.                                                              *)

TypeOK ==
  /\ {canSwap, dataReady, readerStop, writerStop} \subseteq [Streams -> BOOLEAN]
  /\ inFlight \in [Streams -> Nat] /\ \A s \in Streams : got[s] \in Seq(Nat)
  /\ worker \in [Blocks -> WorkerSteps] /\ frame \in [Blocks -> Nat]
  /\ {running, tempStopped} \subseteq [Blocks -> BOOLEAN]
  /\ tempStopDepth \in [Blocks -> 0..(MaxNest + 1)]
  /\ ctrlMtx \in [Blocks -> Threads \cup {"none"}]
  /\ produced \in Nat /\ dropped \subseteq 1..produced /\ crashed \in BOOLEAN

\* Between operations a block has a worker exactly when it is running - however starts,
\* stops and nested brackets of several threads followed each other.
WorkerIffRunning ==
  \A b \in Blocks : ctrlMtx[b] = "none" =>
    /\ (worker[b] # "off") = running[b]
    /\ ~tempStopped[b] /\ tempStopDepth[b] = 0

\* No operation assigns a new thread over one that was not joined.
NeverTerminates == ~crashed

\* What a setter changes inside its bracket, no worker is using.
QuietInsideBracket == \A t \in Threads : At(t, "change") => worker[op[t].block] = "off"

\* The frames a stream keeps for its reader.
Waiting(s) == IF canSwap[s] \/ worker[s + 1] \in {"process", "flushed"} THEN {} ELSE {inFlight[s]}
InHands(b) == {frame[b]} \ {0}
Delivered  == {got[N - 1][i] : i \in DOMAIN got[N - 1]} \ InHands(N)

\* Every frame the source ever made is in exactly one place: in the hands of a block, in a
\* stream, dropped by a swap() that was stopped, or delivered - so a restart in the middle of
\* the line neither repeats a frame nor loses one that nobody dropped.  Nor do frames overtake
\* each other.
FramesConserved ==
  /\ \A f \in 1..produced :
       Cardinality({b \in Blocks : f \in InHands(b)}) + Cardinality({s \in Streams : f \in Waiting(s)})
         + (IF f \in dropped THEN 1 ELSE 0) + (IF f \in Delivered THEN 1 ELSE 0) = 1
  /\ \A s \in Streams : \A i, j \in DOMAIN got[s] : i < j => got[s][i] < got[s][j]

\* Whatever the neighbours wait for, start(), stop() and the setters return: no join and no
\* stopReader() waits for ever.
OperationsReturn == \A t \in Threads : ~At(t, "idle") ~> At(t, "idle")

\* After any history of operations, a line whose blocks all run and are left alone delivers
\* every frame that was not dropped: no stop flag and no handshake flag is left behind.
LeftAlone == \A b \in Blocks : running[b] /\ ctrlMtx[b] = "none"
FlowsAgain == <>[]LeftAlone => <>(\A f \in 1..MaxFrames : f \in dropped \cup Delivered)

\* Every stream of the line is a one-frame channel: the first ...
First == INSTANCE FrameChannel WITH
           Frames <- 1..MaxFrames,
           slot   <- IF canSwap[1] THEN <<>> ELSE <<inFlight[1]>>,
           held   <- worker[2] \in {"process", "flushed"},
           taken  <- got[1]

\* ... and the last, whose writer is a block that reads another stream.
Last == INSTANCE FrameChannel WITH
          Frames <- 1..MaxFrames,
          slot   <- IF canSwap[N - 1] THEN <<>> ELSE <<inFlight[N - 1]>>,
          held   <- worker[N] \in {"process", "flushed"},
          taken  <- got[N - 1]

StreamsAreChannels == First!ChanSpec /\ Last!ChanSpec
=============================================================================
