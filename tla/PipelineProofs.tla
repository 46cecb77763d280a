--------------------------- MODULE PipelineProofs ---------------------------
(***************************************************************************)
(* Proofs about the blocks of Pipeline and the frames between them, for    *)
(* any number of blocks and control threads, any depth of nested brackets, *)
(* any number of operations and of frames.                                 *)
(*                                                                         *)
(* The life cycle (LifeInv): a worker exists exactly while its block runs, *)
(* no std::thread is assigned over a joinable one, and a setter finds its  *)
(* block's worker stopped.  The properties speak of blocks nobody holds,   *)
(* or of one step of an operation; the invariant says what every step of   *)
(* an operation knows of the block it holds, and that no two threads hold  *)
(* the same block.                                                         *)
(*                                                                         *)
(* The frames (LineInv, which rests on LifeInv: only a block without a     *)
(* worker is started): who has a stream's buffers, and where in the line   *)
(* each frame is.  Frames are numbered as the source makes them, so that   *)
(* "in one place" follows from "the nearer to the sink, the older".        *)
(***************************************************************************)
EXTENDS Pipeline, FiniteSetTheorems, TLAPS

\* Types of what the operations are made of.
Steps == {"idle", "start", "stop", "tempStop", "stopReader", "spin", "join", "clear", "change"}
Ops   == [kind : {"none", "start", "stop", "tempStop"}, block : Blocks, step : Steps, nest : Nat]

CtlType ==
  /\ op \in [Threads -> Ops]
  /\ worker \in [Blocks -> WorkerSteps]
  /\ running \in [Blocks -> BOOLEAN] /\ tempStopped \in [Blocks -> BOOLEAN]
  /\ tempStopDepth \in [Blocks -> Nat]
  /\ ctrlMtx \in [Blocks -> Threads \cup {"none"}]

\* A thread inside an operation holds the block's mutex, and only such a thread does.
Holding ==
  /\ \A t \in Threads : op[t].step # "idle" => ctrlMtx[op[t].block] = t
  /\ \A b \in Blocks : ctrlMtx[b] # "none" =>
       op[ctrlMtx[b]].step # "idle" /\ op[ctrlMtx[b]].block = b

\* What the invariant says of a block depends on these four members of it.
Life(b) == [worker |-> worker[b], running |-> running[b],
            tempStopped |-> tempStopped[b], depth |-> tempStopDepth[b]]

HasWorker(l) == l.worker # "off"

\* A block outside of any bracket.
Settled(l) == (HasWorker(l) <=> l.running) /\ ~l.tempStopped /\ l.depth = 0

\* A block inside a bracket.
Bracketed(l) == ~HasWorker(l) /\ (l.tempStopped <=> l.running) /\ l.depth > 0

\* A block that doStop() is stopping, for stop() or for the outermost tempStop().
Stopping(o, l) == l.running /\ ~l.tempStopped /\ l.depth = IF o.kind = "stop" THEN 0 ELSE 1

\* What each step of an operation o knows of its block.
Knows(o, l) ==
  /\ o.step \in {"start", "stop"} => Settled(l)
  /\ o.step = "stop" => o.kind = "stop"
  /\ o.step = "tempStop" => o.kind # "stop" /\ (Settled(l) \/ Bracketed(l))
  /\ o.step \in {"stopReader", "spin", "join"} => Stopping(o, l) /\ HasWorker(l)
  /\ o.step = "clear" => Stopping(o, l) /\ ~HasWorker(l)
  /\ o.step = "change" => o.kind # "stop" /\ Bracketed(l)

LifeCycle ==
  /\ \A b \in Blocks : ctrlMtx[b] = "none" => Settled(Life(b))
  /\ \A t \in Threads : op[t].step # "idle" => Knows(op[t], Life(op[t].block))
  /\ ~crashed

\* The inductive invariant.
LifeInv == CtlType /\ Holding /\ LifeCycle

-----------------------------------------------------------------------------
(* The steps of the workers.                                                *)

\* A step of a worker leaves the operations alone, and nobody's worker appears or is gone.
LEMMA WorkerKeeps ==
  ASSUME LifeInv, NEW b \in Blocks, WorkerStep(b)
  PROVE  LifeInv'
<1>1. /\ worker[b] # "off"
      /\ UNCHANGED ctlVars
      /\ \E x \in WorkerSteps \ {"off"} : worker' = [worker EXCEPT ![b] = x]
  BY DEF WorkerStep, Await, Read, ReadStopped, FlushReady, FlushCanSwap, Produce, Swap,
         SwapStopped, SetReady, Goto, WorkerSteps, ctlVars
<1>2. worker' \in [Blocks -> WorkerSteps]
  BY <1>1 DEF LifeInv, CtlType
<1>3. \A c \in Blocks : /\ Settled(Life(c)) => Settled(Life(c))'
                        /\ \A o \in Ops : Knows(o, Life(c)) => Knows(o, Life(c)')
  BY <1>1 DEF LifeInv, CtlType, ctlVars, Life, HasWorker, Settled, Bracketed, Stopping, Knows
<1>4. CtlType'
  BY <1>1, <1>2 DEF LifeInv, CtlType, ctlVars
<1>5. Holding'
  BY <1>1 DEF LifeInv, Holding, ctlVars
<1>6. LifeCycle'
  BY <1>1, <1>3 DEF LifeInv, LifeCycle, CtlType, Ops, ctlVars
<1>. QED BY <1>4, <1>5, <1>6 DEF LifeInv

-----------------------------------------------------------------------------
(* The steps of the control threads.                                        *)

\* A step concerns thread t and block b only.
OthersUntouched(t, b) ==
  /\ \A u \in Threads \ {t} : op'[u] = op[u]
  /\ \A c \in Blocks \ {b} : ctrlMtx'[c] = ctrlMtx[c] /\ Life(c)' = Life(c)

\* How the step leaves the operation of thread t on block b: over, or to be continued.
Returned(t, b)  == op'[t].step = "idle" /\ ctrlMtx'[b] = "none" /\ Settled(Life(b)')
Continues(t, b) == /\ op'[t].step # "idle" /\ op'[t].block = b
                   /\ ctrlMtx'[b] = t /\ Knows(op'[t], Life(b)')

\* A step of thread t that touches only the block b, which it holds or is about to, keeps the
\* invariant if it leaves what the invariant says of t and b.
LEMMA Local ==
  ASSUME LifeInv, CtlType', NEW t \in Threads, NEW b \in Blocks,
         \/ ctrlMtx[b] = t
         \/ ctrlMtx[b] = "none" /\ op[t].step = "idle",
         OthersUntouched(t, b), ~crashed', Returned(t, b) \/ Continues(t, b)
  PROVE  LifeInv'
<1>a. CtlType /\ Holding /\ LifeCycle
  BY DEF LifeInv
<1>b. /\ \A u \in Threads \ {t} : op'[u] = op[u]
      /\ \A c \in Blocks \ {b} : ctrlMtx'[c] = ctrlMtx[c] /\ Life(c)' = Life(c)
  BY DEF OthersUntouched
<1>c. \/ op'[t].step = "idle" /\ ctrlMtx'[b] = "none" /\ Settled(Life(b)')
      \/ /\ op'[t].step # "idle" /\ op'[t].block = b
         /\ ctrlMtx'[b] = t /\ Knows(op'[t], Life(b)')
  BY DEF Returned, Continues
<1> USE <1>a, <1>b, <1>c
<1>1. \A u \in Threads \ {t} : op[u].step # "idle" => op[u].block # b
  BY ThreadsAssumption DEF Holding
<1>2. \A c \in Blocks \ {b} : ctrlMtx[c] # t
  BY ThreadsAssumption DEF Holding
<1>3. \A u \in Threads : op[u].block \in Blocks
  BY DEF CtlType, Ops
<1>4. Holding'
  <2>1. ASSUME NEW u \in Threads, op'[u].step # "idle"
        PROVE  ctrlMtx'[op'[u].block] = u
    BY <1>1, <1>3, <2>1 DEF Holding
  <2>2. ASSUME NEW c \in Blocks, ctrlMtx'[c] # "none"
        PROVE  op'[ctrlMtx'[c]].step # "idle" /\ op'[ctrlMtx'[c]].block = c
    <3>1. CASE c = b
      BY <2>2, <3>1
    <3>2. CASE c # b
      <4>1. ctrlMtx'[c] = ctrlMtx[c] /\ ctrlMtx[c] \in Threads \ {t}
        BY <1>2, <2>2, <3>2 DEF CtlType
      <4>. QED BY <2>2, <4>1 DEF Holding
    <3>. QED BY <3>1, <3>2
  <2>. QED BY <2>1, <2>2 DEF Holding
<1>5. LifeCycle'
  <2>1. ASSUME NEW c \in Blocks, ctrlMtx'[c] = "none" PROVE Settled(Life(c)')
    BY <2>1, ThreadsAssumption DEF LifeCycle
  <2>2. ASSUME NEW u \in Threads, op'[u].step # "idle"
        PROVE  Knows(op'[u], Life(op[u].block)')
    <3>1. CASE u = t
      BY <2>2, <3>1 DEF Life
    <3>2. CASE u # t
      <4>1. op'[u] = op[u] /\ op[u].block \in Blocks \ {b} /\ Knows(op[u], Life(op[u].block))
        BY <1>1, <1>3, <2>2, <3>2 DEF LifeCycle
      <4>. QED BY <4>1 DEF Life
    <3>. QED BY <3>1, <3>2
  <2>. QED BY <2>1, <2>2 DEF LifeCycle, Life
<1>. QED BY <1>4, <1>5 DEF LifeInv

\* A thread at a step of an operation: the block it holds, and what it knows.
LEMMA AtStep ==
  ASSUME LifeInv, NEW t \in Threads, op[t].step # "idle"
  PROVE  \E b \in Blocks : b = op[t].block /\ ctrlMtx[b] = t /\ Knows(op[t], Life(b))
BY DEF LifeInv, CtlType, Holding, LifeCycle, Ops

\* A thread outside of any operation.
LEMMA IdleType == Idle \in Ops
BY NAssumption DEF Idle, Ops, Steps, Blocks

\* start(): a settled block gets its worker, if it has none.
LEMMA StartKeeps ==
  ASSUME LifeInv, NEW t \in Threads, Start(t)
  PROVE  LifeInv'
<1>1. PICK b \in Blocks : b = op[t].block /\ ctrlMtx[b] = t /\ Knows(op[t], Life(b))
  BY AtStep DEF Start, At
<1>2. Settled(Life(b))
  BY <1>1 DEF Start, At, Knows
<1>3. CtlType'
  BY <1>1, IdleType DEF LifeInv, CtlType, Start, DoStart, Goto, Return, WorkerSteps
<1>4. OthersUntouched(t, b)
  BY <1>1 DEF LifeInv, CtlType, OthersUntouched, Life, Start, DoStart, Goto, Return
<1>5. Settled(Life(b)') /\ ~crashed'
  BY <1>1, <1>2 DEF LifeInv, CtlType, LifeCycle, Settled, HasWorker, Life, Start, DoStart, Goto
<1>6. op'[t].step = "idle" /\ ctrlMtx'[b] = "none"
  BY <1>1 DEF LifeInv, CtlType, Start, Return, Idle
<1>7. Returned(t, b)
  BY <1>5, <1>6 DEF Returned
<1>. QED BY <1>1, <1>3, <1>4, <1>5, <1>7, Local

\* stop(): a block that does not run is left alone; for one that runs doStop() begins.
LEMMA StopKeeps ==
  ASSUME LifeInv, NEW t \in Threads, Stop(t)
  PROVE  LifeInv'
<1>1. PICK b \in Blocks : b = op[t].block /\ ctrlMtx[b] = t /\ Knows(op[t], Life(b))
  BY AtStep DEF Stop, At
<1>2. Settled(Life(b)) /\ op[t].kind = "stop"
  BY <1>1 DEF Stop, At, Knows
<1>3. CtlType'
  BY <1>1, IdleType DEF LifeInv, CtlType, Stop, Step, Return, workVars, Ops, Steps
<1>4. OthersUntouched(t, b) /\ Life(b)' = Life(b) /\ ~crashed'
  BY <1>1 DEF LifeInv, CtlType, LifeCycle, OthersUntouched, Life, Stop, Step, Return, workVars
<1>5. CASE running[b]
  <2>1. /\ op'[t] = [op[t] EXCEPT !.step = "stopReader"]
        /\ ctrlMtx'[b] = t
    BY <1>1, <1>5 DEF LifeInv, CtlType, Stop, Step
  <2>2. Knows(op'[t], Life(b))
    BY <1>2, <1>5, <2>1 DEF LifeInv, CtlType, Ops, Knows, Stopping, Settled, HasWorker, Life
  <2>3. Continues(t, b)
    BY <1>1, <1>4, <2>1, <2>2 DEF LifeInv, CtlType, Ops, Continues
  <2>. QED BY <1>1, <1>3, <1>4, <2>3, Local
<1>6. CASE ~running[b]
  <2>1. op'[t].step = "idle" /\ ctrlMtx'[b] = "none"
    BY <1>1, <1>6 DEF LifeInv, CtlType, Stop, Return, Idle
  <2>2. Returned(t, b)
    BY <1>2, <1>4, <2>1 DEF Returned
  <2>. QED BY <1>1, <1>3, <1>4, <2>2, Local
<1>. QED BY <1>5, <1>6

\* tempStop(): the bracket counts, and only the outermost one of a running block stops it.
LEMMA TempStopKeeps ==
  ASSUME LifeInv, NEW t \in Threads, TempStop(t)
  PROVE  LifeInv'
<1>1. PICK b \in Blocks : b = op[t].block /\ ctrlMtx[b] = t /\ Knows(op[t], Life(b))
  BY AtStep DEF TempStop, At
<1>2. (Settled(Life(b)) \/ Bracketed(Life(b))) /\ op[t].kind # "stop"
  BY <1>1 DEF TempStop, At, Knows
<1>3. CtlType'
  BY <1>1 DEF LifeInv, CtlType, TempStop, Step, workVars, Ops, Steps
<1>4. OthersUntouched(t, b) /\ ~crashed'
  BY <1>1 DEF LifeInv, CtlType, LifeCycle, OthersUntouched, Life, TempStop, Step, workVars
<1>5. /\ op'[t] = [op[t] EXCEPT !.step = IF MustStop(b) THEN "stopReader" ELSE "change"]
      /\ ctrlMtx'[b] = t
      /\ Life(b)' = [Life(b) EXCEPT !.depth = @ + 1]
  BY <1>1 DEF LifeInv, CtlType, TempStop, Step, workVars, Life
<1>6. Knows(op'[t], Life(b)')
  BY <1>2, <1>5 DEF LifeInv, CtlType, Ops, Knows, MustStop, Stopping, Settled, Bracketed,
                    HasWorker, Life
<1>7. Continues(t, b)
  BY <1>1, <1>5, <1>6 DEF LifeInv, CtlType, Ops, Continues
<1>. QED BY <1>1, <1>3, <1>4, <1>7, Local

\* A bracket inside a bracket.
LEMMA NestKeeps ==
  ASSUME LifeInv, NEW t \in Threads, Nest(t)
  PROVE  LifeInv'
<1>1. PICK b \in Blocks : b = op[t].block /\ ctrlMtx[b] = t /\ Knows(op[t], Life(b))
  BY AtStep DEF Nest, At
<1>2. Bracketed(Life(b)) /\ op[t].kind # "stop"
  BY <1>1 DEF Nest, At, Knows
<1>3. CtlType'
  BY <1>1 DEF LifeInv, CtlType, Nest, workVars, Ops, Steps
<1>4. OthersUntouched(t, b) /\ Life(b)' = Life(b) /\ ~crashed'
  BY <1>1 DEF LifeInv, CtlType, LifeCycle, OthersUntouched, Life, Nest, workVars
<1>5. op'[t] = [op[t] EXCEPT !.step = "tempStop", !.nest = @ - 1] /\ ctrlMtx'[b] = t
  BY <1>1 DEF LifeInv, CtlType, Nest
<1>6. Knows(op'[t], Life(b))
  BY <1>2, <1>5 DEF LifeInv, CtlType, Ops, Knows
<1>7. Continues(t, b)
  BY <1>1, <1>4, <1>5, <1>6 DEF LifeInv, CtlType, Ops, Continues
<1>. QED BY <1>1, <1>3, <1>4, <1>7, Local

\* tempStart(): an inner bracket only counts; the outermost leaves the block settled.
LEMMA TempStartKeeps ==
  ASSUME LifeInv, NEW t \in Threads, TempStart(t)
  PROVE  LifeInv'
<1>1. PICK b \in Blocks : b = op[t].block /\ ctrlMtx[b] = t /\ Knows(op[t], Life(b))
  BY AtStep DEF TempStart, At
<1>2. Bracketed(Life(b)) /\ op[t].kind # "stop" /\ op[t].step = "change"
  BY <1>1 DEF TempStart, At, Knows
<1>3. CtlType'
  <2>1. op' \in [Threads -> Ops] /\ ctrlMtx' \in [Blocks -> Threads \cup {"none"}]
    BY <1>1, IdleType DEF LifeInv, CtlType, TempStart, Return
  <2>2. /\ worker' \in [Blocks -> WorkerSteps]
        /\ running' \in [Blocks -> BOOLEAN] /\ tempStopped' \in [Blocks -> BOOLEAN]
    BY <1>1 DEF LifeInv, CtlType, TempStart, DoStart, Goto, WorkerSteps
  <2>3. tempStopDepth[b] - 1 \in Nat
    BY <1>1, <1>2 DEF LifeInv, CtlType, Bracketed, Life
  <2>4. tempStopDepth' \in [Blocks -> Nat]
    BY <1>1, <2>3 DEF LifeInv, CtlType, TempStart, Unnest
  <2>. QED BY <2>1, <2>2, <2>4 DEF CtlType
<1>4. OthersUntouched(t, b)
  BY <1>1 DEF LifeInv, CtlType, OthersUntouched, Life, TempStart, Unnest, DoStart, Goto, Return
<1>5. ~crashed'
  BY <1>1, <1>2 DEF LifeInv, LifeCycle, Bracketed, HasWorker, Life, TempStart, DoStart
<1>6. CASE tempStopDepth[b] = 1
  <2>1. op'[t].step = "idle" /\ ctrlMtx'[b] = "none"
    BY <1>1, <1>6 DEF LifeInv, CtlType, TempStart, Return, Idle
  <2>2. /\ tempStopDepth'[b] = 0 /\ running'[b] = running[b]
        /\ tempStopped'[b] = FALSE
        /\ worker'[b] = IF running[b] THEN "read" ELSE worker[b]
    BY <1>1, <1>2, <1>6 DEF LifeInv, CtlType, TempStart, Unnest, IsOutermost, DoStart, Goto,
                            Bracketed, HasWorker, Life
  <2>3. Settled(Life(b)')
    BY <1>2, <2>2 DEF Settled, Bracketed, HasWorker, Life
  <2>4. Returned(t, b)
    BY <2>1, <2>3 DEF Returned
  <2>. QED BY <1>1, <1>3, <1>4, <1>5, <2>4, Local
<1>7. CASE tempStopDepth[b] # 1
  <2>1. op' = op /\ ctrlMtx' = ctrlMtx /\ Life(b)' = [Life(b) EXCEPT !.depth = @ - 1]
    BY <1>1, <1>7 DEF LifeInv, CtlType, TempStart, Unnest, IsOutermost, Life
  <2>2. tempStopDepth[b] - 1 > 0
    BY <1>2, <1>7 DEF LifeInv, CtlType, Bracketed, Life
  <2>3. Knows(op'[t], Life(b)')
    BY <1>2, <2>1, <2>2 DEF Knows, Bracketed, HasWorker, Life
  <2>4. Continues(t, b)
    BY <1>1, <1>2, <2>1, <2>3 DEF Continues
  <2>. QED BY <1>1, <1>3, <1>4, <1>5, <2>4, Local
<1>. QED BY <1>6, <1>7

\* A thread that goes on to its next step.
LEMMA StepTypes ==
  ASSUME op \in [Threads -> Ops], NEW t \in Threads, NEW step \in Steps, Step(t, step)
  PROVE  op' \in [Threads -> Ops]
<1>1. op[t] \in Ops
  OBVIOUS
<1>2. [op[t] EXCEPT !.step = step] \in Ops
  BY <1>1 DEF Ops
<1>. QED BY <1>2 DEF Step

\* doStop(): stopReader() has set its flag ...
LEMMA StopReaderKeeps ==
  ASSUME LifeInv, NEW t \in Threads, StopReader(t)
  PROVE  LifeInv'
<1>1. PICK b \in Blocks : b = op[t].block /\ ctrlMtx[b] = t /\ Knows(op[t], Life(b))
  BY AtStep DEF StopReader, At
<1>2. Stopping(op[t], Life(b)) /\ HasWorker(Life(b))
  BY <1>1 DEF StopReader, At, Knows
<1>3. CtlType'
  <2>1. op \in [Threads -> Ops] /\ Step(t, "spin") /\ "spin" \in Steps
    BY DEF LifeInv, CtlType, StopReader, Steps
  <2>2. op' \in [Threads -> Ops]
    BY <2>1, StepTypes, Zenon
  <2>. QED BY <2>2 DEF LifeInv, CtlType, StopReader, workVars
<1>4. OthersUntouched(t, b) /\ Life(b)' = Life(b) /\ ~crashed'
  BY <1>1 DEF LifeInv, CtlType, LifeCycle, OthersUntouched, Life, StopReader, Step, workVars
<1>5. op'[t] = [op[t] EXCEPT !.step = "spin"] /\ ctrlMtx'[b] = t
  BY <1>1 DEF LifeInv, CtlType, StopReader, Step
<1>6. Knows(op'[t], Life(b))
  BY <1>2, <1>5 DEF LifeInv, CtlType, Ops, Knows, Stopping
<1>7. Continues(t, b)
  BY <1>1, <1>4, <1>5, <1>6 DEF LifeInv, CtlType, Ops, Continues
<1>. QED BY <1>1, <1>3, <1>4, <1>7, Local

\* ... nobody is inside read(), and stopWriter() has set its own ...
LEMMA StopWriterKeeps ==
  ASSUME LifeInv, NEW t \in Threads, StopWriter(t)
  PROVE  LifeInv'
<1>1. PICK b \in Blocks : b = op[t].block /\ ctrlMtx[b] = t /\ Knows(op[t], Life(b))
  BY AtStep DEF StopWriter, At
<1>2. Stopping(op[t], Life(b)) /\ HasWorker(Life(b))
  BY <1>1 DEF StopWriter, At, Knows
<1>3. CtlType'
  <2>1. op \in [Threads -> Ops] /\ Step(t, "join") /\ "join" \in Steps
    BY DEF LifeInv, CtlType, StopWriter, Steps
  <2>2. op' \in [Threads -> Ops]
    BY <2>1, StepTypes, Zenon
  <2>. QED BY <2>2 DEF LifeInv, CtlType, StopWriter, workVars
<1>4. OthersUntouched(t, b) /\ Life(b)' = Life(b) /\ ~crashed'
  BY <1>1 DEF LifeInv, CtlType, LifeCycle, OthersUntouched, Life, StopWriter, Step, workVars
<1>5. op'[t] = [op[t] EXCEPT !.step = "join"] /\ ctrlMtx'[b] = t
  BY <1>1 DEF LifeInv, CtlType, StopWriter, Step
<1>6. Knows(op'[t], Life(b))
  BY <1>2, <1>5 DEF LifeInv, CtlType, Ops, Knows, Stopping
<1>7. Continues(t, b)
  BY <1>1, <1>4, <1>5, <1>6 DEF LifeInv, CtlType, Ops, Continues
<1>. QED BY <1>1, <1>3, <1>4, <1>7, Local

\* ... the worker is joined ...
LEMMA JoinKeeps ==
  ASSUME LifeInv, NEW t \in Threads, Join(t)
  PROVE  LifeInv'
<1>1. PICK b \in Blocks : b = op[t].block /\ ctrlMtx[b] = t /\ Knows(op[t], Life(b))
  BY AtStep DEF Join, At
<1>2. Stopping(op[t], Life(b))
  BY <1>1 DEF Join, At, Knows
<1>3. CtlType'
  BY <1>1 DEF LifeInv, CtlType, Join, Goto, Step, Ops, Steps, WorkerSteps
<1>4. OthersUntouched(t, b) /\ ~crashed'
  BY <1>1 DEF LifeInv, CtlType, LifeCycle, OthersUntouched, Life, Join, Goto, Step
<1>5. /\ op'[t] = [op[t] EXCEPT !.step = "clear"] /\ ctrlMtx'[b] = t
      /\ Life(b)' = [Life(b) EXCEPT !.worker = "off"]
  BY <1>1 DEF LifeInv, CtlType, Join, Goto, Step, Life
<1>6. Knows(op'[t], Life(b)')
  BY <1>2, <1>5 DEF LifeInv, CtlType, Ops, Knows, Stopping, HasWorker, Life
<1>7. Continues(t, b)
  BY <1>1, <1>5, <1>6 DEF LifeInv, CtlType, Ops, Continues
<1>. QED BY <1>1, <1>3, <1>4, <1>7, Local

\* ... and its caller notes that the block is stopped, for good or for the bracket.
LEMMA ClearKeeps ==
  ASSUME LifeInv, NEW t \in Threads, Clear(t)
  PROVE  LifeInv'
<1>1. PICK b \in Blocks : b = op[t].block /\ ctrlMtx[b] = t /\ Knows(op[t], Life(b))
  BY AtStep DEF Clear, At
<1>2. Stopping(op[t], Life(b)) /\ ~HasWorker(Life(b))
  BY <1>1 DEF Clear, At, Knows
<1>3. CtlType'
  <2>1. op' \in [Threads -> Ops] /\ ctrlMtx' \in [Blocks -> Threads \cup {"none"}]
    BY <1>1, IdleType DEF LifeInv, CtlType, Clear, Step, Return, Ops, Steps
  <2>2. running' \in [Blocks -> BOOLEAN] /\ tempStopped' \in [Blocks -> BOOLEAN]
    BY <1>1 DEF LifeInv, CtlType, Clear
  <2>3. worker' \in [Blocks -> WorkerSteps] /\ tempStopDepth' \in [Blocks -> Nat]
    BY DEF LifeInv, CtlType, Clear, workVars
  <2>. QED BY <2>1, <2>2, <2>3 DEF CtlType
<1>4. OthersUntouched(t, b) /\ ~crashed'
  BY <1>1 DEF LifeInv, CtlType, LifeCycle, OthersUntouched, Life, Clear, Step, Return, workVars
<1>5. CASE op[t].kind = "stop"
  <2>1. op'[t].step = "idle" /\ ctrlMtx'[b] = "none"
    BY <1>1, <1>5 DEF LifeInv, CtlType, Clear, Return, Idle
  <2>2. /\ ~running'[b] /\ worker'[b] = worker[b]
        /\ tempStopped'[b] = tempStopped[b] /\ tempStopDepth'[b] = tempStopDepth[b]
    BY <1>1, <1>5 DEF LifeInv, CtlType, Clear, workVars
  <2>3. Settled(Life(b)')
    BY <1>2, <1>5, <2>2 DEF Stopping, Settled, HasWorker, Life
  <2>4. Returned(t, b)
    BY <2>1, <2>3 DEF Returned
  <2>. QED BY <1>1, <1>3, <1>4, <2>4, Local
<1>6. CASE op[t].kind # "stop"
  <2>1. op'[t] = [op[t] EXCEPT !.step = "change"] /\ ctrlMtx'[b] = t
    BY <1>1, <1>6 DEF LifeInv, CtlType, Clear, Step
  <2>2. /\ tempStopped'[b] /\ running'[b] = running[b]
        /\ worker'[b] = worker[b] /\ tempStopDepth'[b] = tempStopDepth[b]
    BY <1>1, <1>6 DEF LifeInv, CtlType, Clear, workVars
  <2>3. Bracketed(Life(b)')
    BY <1>2, <1>6, <2>2 DEF Stopping, Bracketed, HasWorker, Life
  <2>4. Knows(op'[t], Life(b)')
    BY <1>6, <2>1, <2>3 DEF LifeInv, CtlType, Ops, Knows
  <2>5. Continues(t, b)
    BY <1>1, <2>1, <2>4 DEF LifeInv, CtlType, Ops, Continues
  <2>. QED BY <1>1, <1>3, <1>4, <2>5, Local
<1>. QED BY <1>5, <1>6

\* A thread that enters an operation finds the block it locks settled.
LEMMA BeginKeeps ==
  ASSUME LifeInv, NEW t \in Threads, NEW b \in Blocks,
         NEW kind \in {"start", "stop", "tempStop"}, NEW nest \in Nat, Begin(t, kind, b, nest)
  PROVE  LifeInv'
<1>1. ctrlMtx[b] = "none" /\ op[t].step = "idle" /\ Settled(Life(b))
  BY DEF LifeInv, LifeCycle, Begin, At
<1>2. CtlType'
  BY DEF LifeInv, CtlType, Begin, workVars, Ops, Steps
<1>3. OthersUntouched(t, b) /\ Life(b)' = Life(b) /\ ~crashed'
  BY DEF LifeInv, CtlType, LifeCycle, OthersUntouched, Life, Begin, workVars
<1>4. /\ op'[t] = [kind |-> kind, block |-> b, step |-> kind, nest |-> nest]
      /\ ctrlMtx'[b] = t
  BY DEF LifeInv, CtlType, Begin
<1>5. Knows(op'[t], Life(b))
  BY <1>1, <1>4 DEF Knows
<1>6. Continues(t, b)
  BY <1>3, <1>4, <1>5 DEF Continues
<1>. QED BY <1>1, <1>2, <1>3, <1>6, Local

-----------------------------------------------------------------------------
(* The frames.  A frame is in a block's hands (frame[b], 0: none) or waits  *)
(* in a stream; a line of frames is well ordered when the frames nearer to  *)
(* the sink are the older ones.                                             *)

\* The frame that waits in each stream; 0: none.
IsWaiting(s) == ~canSwap[s] /\ worker[s + 1] \notin {"process", "flushed"}
WaitingFrames == [s \in Streams |-> IF IsWaiting(s) THEN inFlight[s] ELSE 0]

\* hands, waits: the frames of the blocks and of the streams; taken: what each stream's reader
\* was given; made: how many frames the source made; lost: those dropped.
LineType(hands, waits, taken, made) ==
  /\ hands \in [Blocks -> Nat] /\ waits \in [Streams -> Nat]
  /\ taken \in [Streams -> Seq(Nat)] /\ made \in Nat

InOrder(hands, waits) ==
  /\ \A b, c \in Blocks  : b < c /\ hands[b] # 0 /\ hands[c] # 0 => hands[c] < hands[b]
  /\ \A r, s \in Streams : r < s /\ waits[r] # 0 /\ waits[s] # 0 => waits[s] < waits[r]
  /\ \A b \in Blocks, s \in Streams : b <= s /\ hands[b] # 0 /\ waits[s] # 0 => waits[s] < hands[b]
  /\ \A b \in Blocks, s \in Streams : s < b /\ hands[b] # 0 /\ waits[s] # 0 => hands[b] < waits[s]

Numbered(hands, waits, taken, made) ==
  /\ \A b \in Blocks : hands[b] <= made
  /\ \A s \in Streams : waits[s] <= made
  /\ \A s \in Streams : \A i \in 1..Len(taken[s]) : taken[s][i] \in 1..made

\* What a stream delivered is older than all that is still before it.
TakenInOrder(hands, waits, taken) ==
  \A s \in Streams : \A i \in 1..Len(taken[s]) :
    /\ \A j \in 1..Len(taken[s]) : i < j => taken[s][i] < taken[s][j]
    /\ \A b \in Blocks  : b <= s /\ hands[b] # 0 => taken[s][i] < hands[b]
    /\ \A r \in Streams : r <= s /\ waits[r] # 0 => taken[s][i] < waits[r]

\* What left the last stream, whether the sink still holds it or not.
Arrived(taken) == {taken[N - 1][i] : i \in 1..Len(taken[N - 1])}

\* A frame is somewhere, and a dropped frame nowhere else.
Accounted(hands, waits, taken, lost, made) ==
  /\ lost \subseteq 1..made
  /\ \A f \in lost : /\ \A b \in Blocks : hands[b] # f
                     /\ \A s \in Streams : waits[s] # f
                     /\ f \notin Arrived(taken)
  /\ hands[N] # 0 => hands[N] \in Arrived(taken)
  /\ \A f \in 1..made : \/ \E b \in Blocks : hands[b] = f
                        \/ \E s \in Streams : waits[s] = f
                        \/ f \in lost \cup Arrived(taken)

LineOK(hands, waits, taken, lost, made) ==
  /\ LineType(hands, waits, taken, made)
  /\ InOrder(hands, waits)
  /\ Numbered(hands, waits, taken, made)
  /\ TakenInOrder(hands, waits, taken)
  /\ Accounted(hands, waits, taken, lost, made)

\* Who has a stream's buffers: canSwap is the writer's turn; otherwise the writer is about to
\* set dataReady, or it is set, or the reader is about to hand the buffer back.
Custody(s) ==
  /\ canSwap[s] <=> ~(dataReady[s] \/ worker[s] = "setReady" \/ worker[s + 1] = "flushed")
  /\ ~(dataReady[s] /\ worker[s] = "setReady")
  /\ ~(worker[s + 1] = "flushed" /\ (dataReady[s] \/ worker[s] = "setReady"))
  /\ worker[s + 1] = "process" => dataReady[s]
  /\ ~canSwap[s] => inFlight[s] # 0

FlagType ==
  /\ canSwap \in [Streams -> BOOLEAN] /\ dataReady \in [Streams -> BOOLEAN]
  /\ inFlight \in [Streams -> Nat] /\ worker \in [Blocks -> WorkerSteps]

\* The source reads no stream, the sink writes none; a block has a frame in its hands from
\* read() or from its own making to the end of swap().
Roles ==
  /\ worker[1] \notin {"inside", "process", "flushed"}
  /\ worker[N] \notin {"swap", "setReady"}
  /\ \A b \in Blocks : frame[b] # 0 <=> worker[b] \in {"process", "flushed", "swap"}

\* The inductive invariant, on top of LifeInv.
LineInv ==
  /\ FlagType
  /\ Roles
  /\ \A s \in Streams : Custody(s)
  /\ LineOK(frame, WaitingFrames, got, dropped, produced)

-----------------------------------------------------------------------------
(* How a line of frames moves.                                              *)

\* What a sequence is after one element was appended.
LEMMA Appended ==
  ASSUME NEW q \in Seq(Nat), NEW x \in Nat
  PROVE  /\ Append(q, x) \in Seq(Nat)
         /\ Len(Append(q, x)) = Len(q) + 1
         /\ Append(q, x)[Len(q) + 1] = x
         /\ \A i \in 1..Len(q) : Append(q, x)[i] = q[i]
OBVIOUS

\* Blocks and streams are neighbours of each other.
LEMMA Neighbours ==
  /\ N \in Nat /\ 1 \in Blocks /\ N \in Blocks /\ 1 \in Streams /\ N - 1 \in Streams
  /\ \A s \in Streams : s \in Blocks /\ s + 1 \in Blocks /\ s \in Nat
  /\ \A b \in Blocks : /\ b \in Nat
                       /\ b # 1 => b - 1 \in Streams
                       /\ b # N => b \in Streams
BY NAssumption DEF Blocks, Streams

\* read(): the frame that waits in stream s comes into the hands of the block behind it.
LEMMA LineRead ==
  ASSUME NEW h, NEW w, NEW g, NEW d, NEW p, LineOK(h, w, g, d, p),
         NEW s \in Streams, w[s] # 0, h[s + 1] = 0
  PROVE  LineOK([h EXCEPT ![s + 1] = w[s]], [w EXCEPT ![s] = 0],
                [g EXCEPT ![s] = Append(@, w[s])], d, p)
<1> DEFINE hh == [h EXCEPT ![s + 1] = w[s]]
           ww == [w EXCEPT ![s] = 0]
           gg == [g EXCEPT ![s] = Append(@, w[s])]
<1>1. LineType(h, w, g, p) /\ InOrder(h, w) /\ Numbered(h, w, g, p) /\ TakenInOrder(h, w, g)
      /\ Accounted(h, w, g, d, p)
  BY DEF LineOK
<1>2. w[s] \in Nat /\ g[s] \in Seq(Nat) /\ s + 1 \in Blocks /\ s \in Nat
  BY <1>1, Neighbours DEF LineType
<1>3. /\ gg[s] \in Seq(Nat) /\ Len(gg[s]) = Len(g[s]) + 1 /\ gg[s][Len(g[s]) + 1] = w[s]
      /\ \A i \in 1..Len(g[s]) : gg[s][i] = g[s][i]
      /\ \A r \in Streams \ {s} : gg[r] = g[r]
  BY <1>1, <1>2, Appended DEF LineType
<1>4. /\ hh[s + 1] = w[s] /\ \A b \in Blocks \ {s + 1} : hh[b] = h[b]
      /\ ww[s] = 0 /\ \A r \in Streams \ {s} : ww[r] = w[r]
  BY <1>1, <1>2 DEF LineType
<1>5. LineType(hh, ww, gg, p)
  BY <1>1, <1>2, <1>3 DEF LineType
<1>a. /\ h \in [Blocks -> Nat] /\ w \in [Streams -> Nat] /\ p \in Nat
      /\ \A r \in Streams : g[r] \in Seq(Nat) /\ Len(g[r]) \in Nat
  BY <1>1 DEF LineType
<1> HIDE DEF hh, ww, gg
<1>6. InOrder(hh, ww)
  <2>1. ASSUME NEW b \in Blocks, NEW c \in Blocks, b < c, hh[b] # 0, hh[c] # 0
        PROVE  hh[c] < hh[b]
    <3>1. b \in Nat /\ c \in Nat
      BY Neighbours
    <3>2. CASE b = s + 1
      <4>1. s < c /\ c # s + 1
        BY <1>2, <2>1, <3>1, <3>2
      <4>. QED BY <1>1, <1>4, <2>1, <3>2, <4>1 DEF InOrder
    <3>3. CASE c = s + 1
      <4>1. b <= s /\ b # s + 1
        BY <1>2, <2>1, <3>1, <3>3
      <4>. QED BY <1>1, <1>4, <2>1, <3>3, <4>1 DEF InOrder
    <3>4. CASE b # s + 1 /\ c # s + 1
      BY <1>1, <1>4, <2>1, <3>4 DEF InOrder
    <3>. QED BY <3>2, <3>3, <3>4
  <2>2. ASSUME NEW q \in Streams, NEW r \in Streams, q < r, ww[q] # 0, ww[r] # 0
        PROVE  ww[r] < ww[q]
    BY <1>1, <1>4, <2>2 DEF InOrder
  <2>3. ASSUME NEW b \in Blocks, NEW r \in Streams, b <= r, hh[b] # 0, ww[r] # 0
        PROVE  ww[r] < hh[b]
    <3>1. b \in Nat /\ r \in Nat /\ r # s
      BY <1>4, <2>3, Neighbours
    <3>2. CASE b = s + 1
      <4>1. s < r
        BY <1>2, <2>3, <3>1, <3>2
      <4>. QED BY <1>1, <1>4, <2>3, <3>1, <3>2, <4>1 DEF InOrder
    <3>3. CASE b # s + 1
      BY <1>1, <1>4, <2>3, <3>1, <3>3 DEF InOrder
    <3>. QED BY <3>2, <3>3
  <2>4. ASSUME NEW b \in Blocks, NEW r \in Streams, r < b, hh[b] # 0, ww[r] # 0
        PROVE  hh[b] < ww[r]
    <3>1. b \in Nat /\ r \in Nat /\ r # s
      BY <1>4, <2>4, Neighbours
    <3>2. CASE b = s + 1
      <4>1. r < s
        BY <1>2, <2>4, <3>1, <3>2
      <4>. QED BY <1>1, <1>4, <2>4, <3>1, <3>2, <4>1 DEF InOrder
    <3>3. CASE b # s + 1
      BY <1>1, <1>4, <2>4, <3>1, <3>3 DEF InOrder
    <3>. QED BY <3>2, <3>3
  <2>. QED BY <2>1, <2>2, <2>3, <2>4 DEF InOrder
<1>7. Numbered(hh, ww, gg, p)
  <2>1. \A b \in Blocks : hh[b] <= p
    BY <1>1, <1>4 DEF Numbered
  <2>2. \A r \in Streams : ww[r] <= p
    BY <1>1, <1>4, <1>a DEF Numbered
  <2>3. \A i \in 1..Len(gg[s]) : i \in 1..Len(g[s]) \/ i = Len(g[s]) + 1
    BY <1>3, <1>a
  <2>4. w[s] \in 1..p
    BY <1>1, <1>2, <1>a DEF Numbered
  <2>5. \A r \in Streams : \A i \in 1..Len(gg[r]) : gg[r][i] \in 1..p
    BY <1>1, <1>3, <2>3, <2>4 DEF Numbered
  <2>. QED BY <2>1, <2>2, <2>5 DEF Numbered
<1>8. TakenInOrder(hh, ww, gg)
  <2>1. \A i \in 1..Len(gg[s]) : i \in 1..Len(g[s]) \/ i = Len(g[s]) + 1
    BY <1>3, <1>a
  <2>2. ASSUME NEW r \in Streams, NEW i \in 1..Len(gg[r]), NEW j \in 1..Len(gg[r]), i < j
        PROVE  gg[r][i] < gg[r][j]
    <3>1. CASE r # s
      BY <1>1, <1>3, <2>2, <3>1 DEF TakenInOrder
    <3>2. CASE r = s /\ j \in 1..Len(g[s])
      <4>1. i \in 1..Len(g[s])
        BY <1>a, <2>2, <3>2
      <4>. QED BY <1>1, <1>3, <2>2, <3>2, <4>1 DEF TakenInOrder
    <3>3. CASE r = s /\ j = Len(g[s]) + 1
      <4>1. i \in 1..Len(g[s])
        BY <1>3, <1>a, <2>2, <3>3
      <4>2. g[s][i] < w[s]
        BY <1>1, <1>2, <4>1 DEF TakenInOrder
      <4>. QED BY <1>3, <3>3, <4>1, <4>2
    <3>. QED BY <2>1, <3>1, <3>2, <3>3
  <2>3. ASSUME NEW r \in Streams, NEW i \in 1..Len(gg[r]), NEW b \in Blocks, b <= r, hh[b] # 0
        PROVE  gg[r][i] < hh[b]
    <3>1. CASE r # s
      <4>1. gg[r] = g[r] /\ i \in 1..Len(g[r])
        BY <1>3, <3>1
      <4>2. CASE b = s + 1
        BY <1>1, <1>2, <1>4, <2>3, <4>1, <4>2, Neighbours DEF TakenInOrder
      <4>3. CASE b # s + 1
        BY <1>1, <1>4, <2>3, <4>1, <4>3 DEF TakenInOrder
      <4>. QED BY <4>2, <4>3
    <3>2. CASE r = s
      <4>1. b # s + 1 /\ hh[b] = h[b] /\ h[b] # 0 /\ b <= s
        BY <1>2, <1>4, <2>3, <3>2, Neighbours
      <4>2. CASE i \in 1..Len(g[s])
        BY <1>1, <1>3, <3>2, <4>1, <4>2 DEF TakenInOrder
      <4>3. CASE i = Len(g[s]) + 1
        BY <1>1, <1>3, <3>2, <4>1, <4>3 DEF InOrder
      <4>. QED BY <2>1, <3>2, <4>2, <4>3
    <3>. QED BY <3>1, <3>2
  <2>4. ASSUME NEW r \in Streams, NEW i \in 1..Len(gg[r]), NEW q \in Streams, q <= r, ww[q] # 0
        PROVE  gg[r][i] < ww[q]
    <3>1. q # s /\ ww[q] = w[q]
      BY <1>4, <2>4
    <3>2. CASE r # s \/ i \in 1..Len(g[s])
      <4>1. gg[r][i] = g[r][i] /\ i \in 1..Len(g[r])
        BY <1>3, <3>2
      <4>. QED BY <1>1, <2>4, <3>1, <4>1 DEF TakenInOrder
    <3>3. CASE r = s /\ i = Len(g[s]) + 1
      <4>1. q < s
        BY <2>4, <3>1, <3>3, Neighbours
      <4>. QED BY <1>1, <1>3, <2>4, <3>1, <3>3, <4>1 DEF InOrder
    <3>. QED BY <2>1, <3>2, <3>3
  <2>. QED BY <2>2, <2>3, <2>4 DEF TakenInOrder
<1>9. Accounted(hh, ww, gg, d, p)
  <2>1. ASSUME NEW x
        PROVE  x \in Arrived(gg) <=> x \in Arrived(g) \/ (s = N - 1 /\ x = w[s])
    <3>1. /\ x \in Arrived(gg) <=> \E i \in 1..Len(gg[N - 1]) : x = gg[N - 1][i]
          /\ x \in Arrived(g) <=> \E i \in 1..Len(g[N - 1]) : x = g[N - 1][i]
      BY DEF Arrived
    <3>2. CASE s = N - 1
      <4>1. 1..Len(gg[s]) = (1..Len(g[s])) \cup {Len(g[s]) + 1}
        BY <1>3, <1>a
      <4>2. (\E i \in 1..Len(gg[s]) : x = gg[s][i])
              <=> (\E i \in 1..Len(g[s]) : x = g[s][i]) \/ x = w[s]
        BY <1>3, <4>1
      <4>3. /\ x \in Arrived(gg) <=> \E i \in 1..Len(gg[s]) : x = gg[s][i]
            /\ x \in Arrived(g) <=> \E i \in 1..Len(g[s]) : x = g[s][i]
        BY <3>1, <3>2
      <4>. QED BY <3>2, <4>2, <4>3
    <3>3. CASE s # N - 1
      <4>1. gg[N - 1] = g[N - 1]
        BY <1>3, <3>3, Neighbours
      <4>. QED BY <3>1, <3>3, <4>1
    <3>. QED BY <3>2, <3>3
  <2>2. hh[N] # 0 => hh[N] \in Arrived(gg)
    BY <1>1, <1>2, <1>4, <2>1, Neighbours DEF Accounted
  <2>3. ASSUME NEW f \in d
        PROVE  /\ \A b \in Blocks : hh[b] # f
               /\ \A r \in Streams : ww[r] # f
               /\ f \notin Arrived(gg)
    <3>1. f # w[s] /\ f # 0
      BY <1>1, <1>a DEF Accounted
    <3>. QED BY <1>1, <1>4, <2>1, <2>3, <3>1 DEF Accounted
  <2>4. ASSUME NEW f \in 1..p
        PROVE  \/ \E b \in Blocks : hh[b] = f
               \/ \E r \in Streams : ww[r] = f
               \/ f \in d \cup Arrived(gg)
    <3>1. CASE \E b \in Blocks : h[b] = f
      <4>1. PICK b \in Blocks : h[b] = f
        BY <3>1
      <4>2. b # s + 1
        BY <4>1, <1>a
      <4>. QED BY <1>4, <4>1, <4>2
    <3>2. CASE \E r \in Streams : w[r] = f
      BY <1>2, <1>4, <3>2
    <3>3. CASE f \in d \cup Arrived(g)
      BY <2>1, <3>3
    <3>. QED BY <1>1, <3>1, <3>2, <3>3 DEF Accounted
  <2>5. d \subseteq 1..p
    BY <1>1 DEF Accounted
  <2>. QED BY <2>2, <2>3, <2>4, <2>5 DEF Accounted
<1>10. LineOK(hh, ww, gg, d, p)
  BY <1>5, <1>6, <1>7, <1>8, <1>9 DEF LineOK
<1>. QED BY <1>10 DEF hh, ww, gg

\* swap(): the frame in the hands of block b waits in the stream behind it.
LEMMA LineSwap ==
  ASSUME NEW h, NEW w, NEW g, NEW d, NEW p, LineOK(h, w, g, d, p),
         NEW b \in Streams, h[b] # 0, w[b] = 0
  PROVE  LineOK([h EXCEPT ![b] = 0], [w EXCEPT ![b] = h[b]], g, d, p)
<1> DEFINE hh == [h EXCEPT ![b] = 0]
           ww == [w EXCEPT ![b] = h[b]]
<1>1. LineType(h, w, g, p) /\ InOrder(h, w) /\ Numbered(h, w, g, p) /\ TakenInOrder(h, w, g)
      /\ Accounted(h, w, g, d, p)
  BY DEF LineOK
<1>2. h[b] \in Nat /\ b \in Blocks /\ b \in Nat /\ b # N
  BY <1>1, NAssumption DEF LineType, Blocks, Streams
<1>3. /\ hh[b] = 0 /\ \A c \in Blocks \ {b} : hh[c] = h[c]
      /\ ww[b] = h[b] /\ \A r \in Streams \ {b} : ww[r] = w[r]
  BY <1>1, <1>2 DEF LineType
<1>4. LineType(hh, ww, g, p)
  BY <1>1, <1>2 DEF LineType
<1>a. /\ h \in [Blocks -> Nat] /\ w \in [Streams -> Nat] /\ p \in Nat
      /\ \A r \in Streams : g[r] \in Seq(Nat) /\ Len(g[r]) \in Nat
  BY <1>1 DEF LineType
<1> HIDE DEF hh, ww
<1>5. InOrder(hh, ww)
  <2>1. ASSUME NEW a \in Blocks, NEW c \in Blocks, a < c, hh[a] # 0, hh[c] # 0
        PROVE  hh[c] < hh[a]
    BY <1>1, <1>3, <2>1 DEF InOrder
  <2>2. ASSUME NEW q \in Streams, NEW r \in Streams, q < r, ww[q] # 0, ww[r] # 0
        PROVE  ww[r] < ww[q]
    <3>1. q \in Nat /\ r \in Nat
      BY Neighbours
    <3>2. CASE q = b
      <4>1. b <= r /\ r # b
        BY <1>2, <2>2, <3>1, <3>2
      <4>. QED BY <1>1, <1>2, <1>3, <2>2, <3>2, <4>1 DEF InOrder
    <3>3. CASE r = b
      <4>1. q < b /\ q # b
        BY <1>2, <2>2, <3>1, <3>3
      <4>. QED BY <1>1, <1>2, <1>3, <2>2, <3>3, <4>1 DEF InOrder
    <3>4. CASE q # b /\ r # b
      BY <1>1, <1>3, <2>2, <3>4 DEF InOrder
    <3>. QED BY <3>2, <3>3, <3>4
  <2>3. ASSUME NEW c \in Blocks, NEW r \in Streams, c <= r, hh[c] # 0, ww[r] # 0
        PROVE  ww[r] < hh[c]
    <3>1. c \in Nat /\ r \in Nat /\ c # b
      BY <1>3, <2>3, Neighbours
    <3>2. CASE r = b
      <4>1. c < b
        BY <1>2, <2>3, <3>1, <3>2
      <4>. QED BY <1>1, <1>2, <1>3, <2>3, <3>1, <3>2, <4>1 DEF InOrder
    <3>3. CASE r # b
      BY <1>1, <1>3, <2>3, <3>1, <3>3 DEF InOrder
    <3>. QED BY <3>2, <3>3
  <2>4. ASSUME NEW c \in Blocks, NEW r \in Streams, r < c, hh[c] # 0, ww[r] # 0
        PROVE  hh[c] < ww[r]
    <3>1. c \in Nat /\ r \in Nat /\ c # b
      BY <1>3, <2>4, Neighbours
    <3>2. CASE r = b
      BY <1>1, <1>2, <1>3, <2>4, <3>1, <3>2 DEF InOrder
    <3>3. CASE r # b
      BY <1>1, <1>3, <2>4, <3>1, <3>3 DEF InOrder
    <3>. QED BY <3>2, <3>3
  <2>. QED BY <2>1, <2>2, <2>3, <2>4 DEF InOrder
<1>6. Numbered(hh, ww, g, p)
  BY <1>1, <1>2, <1>3, <1>a DEF Numbered
<1>7. TakenInOrder(hh, ww, g)
  BY <1>1, <1>2, <1>3, <1>a DEF TakenInOrder
<1>8. Accounted(hh, ww, g, d, p)
  <2>1. hh[N] # 0 => hh[N] \in Arrived(g)
    BY <1>1, <1>2, <1>3, Neighbours DEF Accounted
  <2>2. ASSUME NEW f \in d
        PROVE  /\ \A c \in Blocks : hh[c] # f
               /\ \A r \in Streams : ww[r] # f
               /\ f \notin Arrived(g)
    <3>1. f # 0 /\ f # h[b]
      BY <1>1, <1>2, <1>a DEF Accounted
    <3>. QED BY <1>1, <1>3, <2>2, <3>1 DEF Accounted
  <2>3. ASSUME NEW f \in 1..p
        PROVE  \/ \E c \in Blocks : hh[c] = f
               \/ \E r \in Streams : ww[r] = f
               \/ f \in d \cup Arrived(g)
    <3>1. CASE \E c \in Blocks : h[c] = f
      BY <1>3, <3>1
    <3>2. CASE \E r \in Streams : w[r] = f
      <4>1. PICK r \in Streams : w[r] = f
        BY <3>2
      <4>2. r # b
        BY <4>1, <1>a
      <4>. QED BY <1>3, <4>1, <4>2
    <3>. QED BY <1>1, <3>1, <3>2 DEF Accounted
  <2>4. d \subseteq 1..p
    BY <1>1 DEF Accounted
  <2>. QED BY <2>1, <2>2, <2>3, <2>4 DEF Accounted
<1>9. LineOK(hh, ww, g, d, p)
  BY <1>4, <1>5, <1>6, <1>7, <1>8 DEF LineOK
<1>. QED BY <1>9 DEF hh, ww

\* A stopped swap(): the frame in the hands of block b is dropped.
LEMMA LineDrop ==
  ASSUME NEW h, NEW w, NEW g, NEW d, NEW p, LineOK(h, w, g, d, p),
         NEW b \in Streams, h[b] # 0
  PROVE  LineOK([h EXCEPT ![b] = 0], w, g, d \cup {h[b]}, p)
<1> DEFINE hh == [h EXCEPT ![b] = 0]
           dd == d \cup {h[b]}
<1>1. LineType(h, w, g, p) /\ InOrder(h, w) /\ Numbered(h, w, g, p) /\ TakenInOrder(h, w, g)
      /\ Accounted(h, w, g, d, p)
  BY DEF LineOK
<1>2. h[b] \in Nat /\ b \in Blocks /\ b \in Nat /\ b # N /\ b <= N - 1
  BY <1>1, NAssumption DEF LineType, Blocks, Streams
<1>3. hh[b] = 0 /\ \A c \in Blocks \ {b} : hh[c] = h[c]
  BY <1>1, <1>2 DEF LineType
<1>4. LineType(hh, w, g, p)
  BY <1>1, <1>2 DEF LineType
<1>a. /\ h \in [Blocks -> Nat] /\ w \in [Streams -> Nat] /\ p \in Nat
      /\ \A r \in Streams : g[r] \in Seq(Nat) /\ Len(g[r]) \in Nat
  BY <1>1 DEF LineType
<1> HIDE DEF hh
<1>5. InOrder(hh, w)
  BY <1>1, <1>2, <1>3 DEF InOrder
<1>6. Numbered(hh, w, g, p)
  BY <1>1, <1>2, <1>3, <1>a DEF Numbered
<1>7. TakenInOrder(hh, w, g)
  <2>1. \A c \in Blocks : hh[c] # 0 => h[c] # 0 /\ hh[c] = h[c]
    BY <1>3
  <2>. QED BY <1>1, <2>1, Zenon DEF TakenInOrder
<1>8. Accounted(hh, w, g, dd, p)
  <2>1. hh[N] # 0 => hh[N] \in Arrived(g)
    BY <1>1, <1>2, <1>3, Neighbours DEF Accounted
  <2>2. h[b] \in 1..p
    BY <1>1, <1>2, <1>a DEF Numbered
  <2>3. ASSUME NEW c \in Blocks PROVE hh[c] # h[b]
    <3>1. CASE c = b \/ h[c] = 0
      BY <1>3, <3>1
    <3>2. CASE c # b /\ h[c] # 0
      <4>1. c < b \/ b < c
        BY <1>2, <3>2, Neighbours
      <4>2. h[b] < h[c] \/ h[c] < h[b]
        BY <1>1, <1>2, <3>2, <4>1 DEF InOrder
      <4>. QED BY <1>2, <1>3, <1>a, <3>2, <4>2
    <3>. QED BY <3>1, <3>2
  <2>4. ASSUME NEW r \in Streams PROVE w[r] # h[b]
    <3>1. CASE w[r] = 0
      BY <3>1
    <3>2. CASE w[r] # 0
      <4>1. r < b \/ b <= r
        BY <1>2, Neighbours
      <4>2. h[b] < w[r] \/ w[r] < h[b]
        BY <1>1, <1>2, <3>2, <4>1 DEF InOrder
      <4>. QED BY <1>2, <1>a, <4>2
    <3>. QED BY <3>1, <3>2
  <2>5. ASSUME NEW f \in Arrived(g) PROVE f # h[b]
    <3>1. PICK i \in 1..Len(g[N - 1]) : f = g[N - 1][i]
      BY <2>5 DEF Arrived
    <3>2. f < h[b]
      BY <1>1, <1>2, <3>1, Neighbours DEF TakenInOrder
    <3>3. f \in 1..p
      BY <1>1, <3>1, Neighbours DEF Numbered
    <3>. QED BY <1>2, <1>a, <3>2, <3>3
  <2>6. ASSUME NEW f \in dd
        PROVE  /\ \A c \in Blocks : hh[c] # f
               /\ \A r \in Streams : w[r] # f
               /\ f \notin Arrived(g)
    <3>1. CASE f = h[b]
      BY <2>3, <2>4, <2>5, <3>1
    <3>2. CASE f \in d
      <4>1. f # 0
        BY <1>1, <1>a, <3>2 DEF Accounted
      <4>. QED BY <1>1, <1>3, <3>2, <4>1 DEF Accounted
    <3>. QED BY <2>6, <3>1, <3>2
  <2>7. ASSUME NEW f \in 1..p
        PROVE  \/ \E c \in Blocks : hh[c] = f
               \/ \E r \in Streams : w[r] = f
               \/ f \in dd \cup Arrived(g)
    <3>1. CASE \E c \in Blocks : h[c] = f
      BY <1>3, <3>1
    <3>. QED BY <1>1, <3>1 DEF Accounted
  <2>8. dd \subseteq 1..p
    BY <1>1, <2>2 DEF Accounted
  <2>. QED BY <2>1, <2>6, <2>7, <2>8 DEF Accounted
<1>9. LineOK(hh, w, g, dd, p)
  BY <1>4, <1>5, <1>6, <1>7, <1>8 DEF LineOK
<1>. QED BY <1>9 DEF hh

\* run() of the source: the newest frame comes into the hands of the first block.
LEMMA LineProduce ==
  ASSUME NEW h, NEW w, NEW g, NEW d, NEW p, LineOK(h, w, g, d, p), h[1] = 0
  PROVE  LineOK([h EXCEPT ![1] = p + 1], w, g, d, p + 1)
<1> DEFINE hh == [h EXCEPT ![1] = p + 1]
<1>1. LineType(h, w, g, p) /\ InOrder(h, w) /\ Numbered(h, w, g, p) /\ TakenInOrder(h, w, g)
      /\ Accounted(h, w, g, d, p)
  BY DEF LineOK
<1>2. /\ h \in [Blocks -> Nat] /\ w \in [Streams -> Nat] /\ p \in Nat
      /\ \A r \in Streams : g[r] \in Seq(Nat) /\ Len(g[r]) \in Nat
  BY <1>1 DEF LineType
<1>3. hh[1] = p + 1 /\ \A c \in Blocks \ {1} : hh[c] = h[c]
  BY <1>2, Neighbours
<1>4. LineType(hh, w, g, p + 1)
  <2>1. p + 1 \in Nat
    BY <1>2
  <2>2. hh \in [Blocks -> Nat]
    BY <1>2, <2>1
  <2> HIDE DEF hh
  <2>. QED BY <1>1, <2>1, <2>2 DEF LineType
<1> HIDE DEF hh
<1>5. InOrder(hh, w)
  <2>1. ASSUME NEW b \in Blocks, NEW c \in Blocks, b < c, hh[b] # 0, hh[c] # 0
        PROVE  hh[c] < hh[b]
    <3>1. c # 1 /\ hh[c] = h[c] /\ h[c] \in Nat
      BY <1>2, <1>3, <2>1 DEF Blocks
    <3>2. CASE b = 1
      BY <1>1, <1>2, <1>3, <3>1, <3>2 DEF Numbered
    <3>3. CASE b # 1
      BY <1>1, <1>3, <2>1, <3>1, <3>3 DEF InOrder
    <3>. QED BY <3>2, <3>3
  <2>2. ASSUME NEW b \in Blocks, NEW s \in Streams, b <= s, hh[b] # 0, w[s] # 0
        PROVE  w[s] < hh[b]
    <3>1. CASE b = 1
      BY <1>1, <1>2, <1>3, <3>1 DEF Numbered
    <3>2. CASE b # 1
      BY <1>1, <1>3, <2>2, <3>2 DEF InOrder
    <3>. QED BY <3>1, <3>2
  <2>3. ASSUME NEW b \in Blocks, NEW s \in Streams, s < b, hh[b] # 0, w[s] # 0
        PROVE  hh[b] < w[s]
    <3>1. b # 1
      BY <2>3 DEF Streams
    <3>. QED BY <1>1, <1>3, <2>3, <3>1 DEF InOrder
  <2>. QED BY <1>1, <2>1, <2>2, <2>3 DEF InOrder
<1>6. Numbered(hh, w, g, p + 1)
  BY <1>1, <1>2, <1>3 DEF Numbered
<1>7. TakenInOrder(hh, w, g)
  <2>1. \A s \in Streams : \A i \in 1..Len(g[s]) : g[s][i] \in Nat /\ g[s][i] < p + 1
    BY <1>1, <1>2 DEF Numbered
  <2>. QED BY <1>1, <1>3, <2>1 DEF TakenInOrder
<1>8. Accounted(hh, w, g, d, p + 1)
  <2>1. hh[N] # 0 => hh[N] \in Arrived(g)
    BY <1>1, <1>3, Neighbours, NAssumption DEF Accounted
  <2>2. ASSUME NEW f \in d
        PROVE  /\ \A c \in Blocks : hh[c] # f
               /\ \A r \in Streams : w[r] # f
               /\ f \notin Arrived(g)
    BY <1>1, <1>2, <1>3 DEF Accounted
  <2>3. ASSUME NEW f \in 1..(p + 1)
        PROVE  \/ \E c \in Blocks : hh[c] = f
               \/ \E r \in Streams : w[r] = f
               \/ f \in d \cup Arrived(g)
    <3>1. CASE f = p + 1
      BY <1>3, <3>1, Neighbours
    <3>2. CASE f \in 1..p
      <4>1. CASE \E c \in Blocks : h[c] = f
        <5>1. PICK c \in Blocks : h[c] = f
          BY <4>1
        <5>2. c # 1
          BY <3>2, <5>1
        <5>. QED BY <1>3, <5>1, <5>2
      <4>. QED BY <1>1, <3>2, <4>1 DEF Accounted
    <3>. QED BY <1>2, <3>1, <3>2
  <2>4. d \subseteq 1..(p + 1)
    BY <1>1, <1>2 DEF Accounted
  <2>. QED BY <2>1, <2>2, <2>3, <2>4 DEF Accounted
<1>9. LineOK(hh, w, g, d, p + 1)
  BY <1>4, <1>5, <1>6, <1>7, <1>8 DEF LineOK
<1>. QED BY <1>9 DEF hh

\* The sink is done with its frame, which is among those that arrived.
LEMMA LineConsume ==
  ASSUME NEW h, NEW w, NEW g, NEW d, NEW p, LineOK(h, w, g, d, p), h[N] # 0
  PROVE  LineOK([h EXCEPT ![N] = 0], w, g, d, p)
<1> DEFINE hh == [h EXCEPT ![N] = 0]
<1>1. LineType(h, w, g, p) /\ InOrder(h, w) /\ Numbered(h, w, g, p) /\ TakenInOrder(h, w, g)
      /\ Accounted(h, w, g, d, p)
  BY DEF LineOK
<1>2. /\ h \in [Blocks -> Nat] /\ w \in [Streams -> Nat] /\ p \in Nat
  BY <1>1 DEF LineType
<1>3. hh[N] = 0 /\ \A c \in Blocks \ {N} : hh[c] = h[c]
  BY <1>2, Neighbours
<1>4. LineType(hh, w, g, p)
  BY <1>1, <1>2 DEF LineType
<1> HIDE DEF hh
<1>5. InOrder(hh, w)
  BY <1>1, <1>3 DEF InOrder
<1>6. Numbered(hh, w, g, p)
  BY <1>1, <1>2, <1>3 DEF Numbered
<1>7. TakenInOrder(hh, w, g)
  BY <1>1, <1>3 DEF TakenInOrder
<1>8. Accounted(hh, w, g, d, p)
  <2>1. ASSUME NEW f \in d PROVE \A c \in Blocks : hh[c] # f
    BY <1>1, <1>2, <1>3 DEF Accounted
  <2>2. ASSUME NEW f \in 1..p
        PROVE  \/ \E c \in Blocks : hh[c] = f
               \/ \E r \in Streams : w[r] = f
               \/ f \in d \cup Arrived(g)
    BY <1>1, <1>3 DEF Accounted
  <2>. QED BY <1>1, <1>3, <2>1, <2>2 DEF Accounted
<1>9. LineOK(hh, w, g, d, p)
  BY <1>4, <1>5, <1>6, <1>7, <1>8 DEF LineOK
<1>. QED BY <1>9 DEF hh

-----------------------------------------------------------------------------
(* The frames under the steps of the workers and of the control threads.    *)

\* What LineInv says, in pieces.
LEMMA LineParts ==
  ASSUME LineInv
  PROVE  /\ FlagType /\ Roles /\ \A s \in Streams : Custody(s)
         /\ LineOK(frame, WaitingFrames, got, dropped, produced)
         /\ LineType(frame, WaitingFrames, got, produced)
         /\ frame \in [Blocks -> Nat] /\ got \in [Streams -> Seq(Nat)]
         /\ produced \in Nat
         /\ \A s \in Streams : WaitingFrames[s] = IF IsWaiting(s) THEN inFlight[s] ELSE 0
         /\ \A s \in Streams : IsWaiting(s) => inFlight[s] # 0
BY DEF LineInv, LineOK, LineType, WaitingFrames, Custody, IsWaiting

\* The waiting frames are the same as long as the streams that have one keep it.
LEMMA SameWaiting ==
  ASSUME \A s \in Streams : /\ IsWaiting(s)' <=> IsWaiting(s)
                            /\ IsWaiting(s) => inFlight'[s] = inFlight[s]
  PROVE  WaitingFrames' = WaitingFrames
BY DEF WaitingFrames

\* Steps between two moves of a frame.
LEMMA QuietLine ==
  ASSUME LineInv, NEW b \in Blocks,
         \/ Await(b) \/ ReadStopped(b) \/ FlushReady(b) \/ SetReady(b)
         \/ FlushCanSwap(b) /\ HasOut(b)
  PROVE  LineInv'
<1>1. /\ frame' = frame /\ got' = got /\ dropped' = dropped /\ produced' = produced
      /\ inFlight' = inFlight
  BY DEF Await, ReadStopped, FlushReady, FlushCanSwap, SetReady, streamVars
<1>2. \/ /\ worker[b] = "read" /\ HasIn(b) /\ worker' = [worker EXCEPT ![b] = "inside"]
         /\ canSwap' = canSwap /\ dataReady' = dataReady
      \/ /\ worker[b] \in {"read", "inside"} /\ HasIn(b)
         /\ worker' = [worker EXCEPT ![b] = "exited"]
         /\ canSwap' = canSwap /\ dataReady' = dataReady
      \/ /\ worker[b] = "process" /\ worker' = [worker EXCEPT ![b] = "flushed"]
         /\ canSwap' = canSwap /\ dataReady' = [dataReady EXCEPT ![In(b)] = FALSE]
      \/ /\ worker[b] = "setReady" /\ worker' = [worker EXCEPT ![b] = "read"]
         /\ canSwap' = canSwap /\ dataReady' = [dataReady EXCEPT ![Out(b)] = TRUE]
      \/ /\ worker[b] = "flushed" /\ HasOut(b) /\ worker' = [worker EXCEPT ![b] = "swap"]
         /\ canSwap' = [canSwap EXCEPT ![In(b)] = TRUE] /\ dataReady' = dataReady
  BY DEF Await, ReadStopped, FlushReady, FlushCanSwap, SetReady, streamVars, Goto
<1>3. FlagType'
  BY <1>1, <1>2, LineParts DEF FlagType, WorkerSteps
<1>4. Roles'
  <2>1. FlagType /\ Roles /\ (HasIn(b) => b # 1) /\ (HasOut(b) => b # N)
    BY LineParts, Neighbours DEF HasIn, HasOut
  <2>2. worker'[1] \notin {"inside", "process", "flushed"}
    BY <1>2, <2>1, Neighbours DEF FlagType, Roles
  <2>3. worker'[N] \notin {"swap", "setReady"}
    BY <1>2, <2>1, Neighbours DEF FlagType, Roles
  <2>4. \A c \in Blocks : frame'[c] # 0 <=> worker'[c] \in {"process", "flushed", "swap"}
    BY <1>1, <1>2, <2>1 DEF FlagType, Roles
  <2>. QED BY <2>2, <2>3, <2>4 DEF Roles
<1>5. ASSUME NEW s \in Streams
      PROVE  Custody(s)' /\ (IsWaiting(s)' <=> IsWaiting(s))
  <2>1. /\ s \in Blocks /\ s + 1 \in Blocks /\ s \in Nat /\ s + 1 # s /\ b \in Nat
        /\ In(b) = s <=> s + 1 = b
        /\ Out(b) = s <=> s = b
    BY Neighbours DEF In, Out
  <2>2. Custody(s) /\ FlagType /\ Roles
    BY LineParts
  <2>3. CASE b = s
    BY <1>1, <1>2, <2>1, <2>2, <2>3, NAssumption DEF Custody, IsWaiting, FlagType, Roles
  <2>4. CASE b = s + 1
    BY <1>1, <1>2, <2>1, <2>2, <2>4, NAssumption DEF Custody, IsWaiting, FlagType, Roles
  <2>5. CASE b # s /\ b # s + 1
    BY <1>1, <1>2, <2>1, <2>2, <2>5 DEF Custody, IsWaiting, FlagType
  <2>. QED BY <2>3, <2>4, <2>5
<1>6. WaitingFrames' = WaitingFrames
  BY <1>1, <1>5, SameWaiting
<1>7. LineOK(frame, WaitingFrames, got, dropped, produced)'
  BY <1>1, <1>6, LineParts
<1>. QED BY <1>3, <1>4, <1>5, <1>7 DEF LineInv

\* read() returns a frame.
LEMMA ReadLine ==
  ASSUME LineInv, NEW b \in Blocks, Read(b)
  PROVE  LineInv'
<1>1. PICK s \in Streams : s = In(b) /\ b = s + 1 /\ b \in Nat /\ s \in Nat
  BY Neighbours DEF Read, HasIn, In
<1>2. /\ worker[b] \in {"read", "inside"} /\ dataReady[s]
      /\ worker' = [worker EXCEPT ![b] = "process"]
      /\ frame' = [frame EXCEPT ![b] = inFlight[s]]
      /\ got' = [got EXCEPT ![s] = Append(@, inFlight[s])]
      /\ UNCHANGED <<canSwap, dataReady, inFlight, produced, dropped>>
  BY <1>1 DEF Read, Goto
<1>3. Custody(s) /\ FlagType /\ Roles
  BY LineParts
<1>4. IsWaiting(s) /\ WaitingFrames[s] = inFlight[s] /\ inFlight[s] # 0 /\ frame[b] = 0
  BY <1>1, <1>2, <1>3, LineParts DEF Custody, IsWaiting, FlagType, Roles
<1>5. FlagType'
  BY <1>2, <1>3 DEF FlagType, WorkerSteps
<1>6. Roles'
  <2>1. b # 1
    BY <1>1 DEF Streams
  <2>2. worker'[1] = worker[1] /\ (worker'[N] = worker[N] \/ worker'[N] = "process")
    BY <1>2, <1>3, <2>1, Neighbours DEF FlagType
  <2>3. \A c \in Blocks : frame'[c] # 0 <=> worker'[c] \in {"process", "flushed", "swap"}
    BY <1>2, <1>3, <1>4, LineParts DEF FlagType, Roles
  <2>. QED BY <1>3, <2>2, <2>3 DEF Roles
<1>7. ASSUME NEW r \in Streams
      PROVE  Custody(r)' /\ (IsWaiting(r)' <=> IsWaiting(r) /\ r # s)
  <2>1. /\ r \in Blocks /\ r + 1 \in Blocks /\ r \in Nat
        /\ r + 1 = b <=> r = s
    BY <1>1, Neighbours
  <2>2. Custody(r)
    BY LineParts
  <2>. QED BY <1>2, <1>3, <2>1, <2>2 DEF Custody, IsWaiting, FlagType
<1>8. WaitingFrames' = [WaitingFrames EXCEPT ![s] = 0]
  BY <1>2, <1>7 DEF WaitingFrames
<1>9. LineOK(frame, WaitingFrames, got, dropped, produced)'
  BY <1>1, <1>2, <1>4, <1>8, LineParts, LineRead
<1>. QED BY <1>5, <1>6, <1>7, <1>9 DEF LineInv

\* A sink's flush() ends its work on the frame.
LEMMA ConsumeLine ==
  ASSUME LineInv, NEW b \in Blocks, FlushCanSwap(b), ~HasOut(b)
  PROVE  LineInv'
<1>0. b = N /\ b # 1
  BY LineParts, NAssumption DEF FlushCanSwap, HasOut, Blocks, Roles
<1>1. PICK s \in Streams : s = In(b) /\ b = s + 1 /\ b \in Nat /\ s \in Nat
  BY <1>0, Neighbours DEF In
<1>2. /\ worker[b] = "flushed"
      /\ worker' = [worker EXCEPT ![b] = "read"]
      /\ canSwap' = [canSwap EXCEPT ![s] = TRUE]
      /\ frame' = [frame EXCEPT ![N] = 0]
      /\ UNCHANGED <<dataReady, inFlight, got, produced, dropped>>
  BY <1>0, <1>1 DEF FlushCanSwap, Goto
<1>3. Custody(s) /\ FlagType /\ Roles
  BY LineParts
<1>4. FlagType'
  BY <1>2, <1>3 DEF FlagType, WorkerSteps
<1>5. Roles'
  BY <1>0, <1>2, <1>3, LineParts, Neighbours DEF FlagType, Roles
<1>6. ASSUME NEW r \in Streams
      PROVE  Custody(r)' /\ (IsWaiting(r)' <=> IsWaiting(r))
  <2>1. /\ r \in Blocks /\ r + 1 \in Blocks /\ r \in Nat /\ r # b
        /\ r + 1 = b <=> r = s
    BY <1>0, <1>1, Neighbours DEF Streams
  <2>2. Custody(r)
    BY LineParts
  <2>. QED BY <1>2, <1>3, <2>1, <2>2 DEF Custody, IsWaiting, FlagType
<1>7. WaitingFrames' = WaitingFrames
  BY <1>2, <1>6, SameWaiting
<1>8. frame[N] # 0
  BY <1>0, <1>2, <1>3 DEF Roles
<1>9. LineOK(frame, WaitingFrames, got, dropped, produced)'
  BY <1>2, <1>7, <1>8, LineParts, LineConsume
<1>. QED BY <1>4, <1>5, <1>6, <1>9 DEF LineInv

\* The source makes a frame.
LEMMA ProduceLine ==
  ASSUME LineInv, NEW b \in Blocks, Produce(b)
  PROVE  LineInv'
<1>1. b = 1 /\ 1 # N
  BY NAssumption DEF Produce, HasIn, Blocks
<1>2. /\ worker[1] = "read"
      /\ worker' = [worker EXCEPT ![1] = "swap"]
      /\ frame' = [frame EXCEPT ![1] = produced + 1]
      /\ produced' = produced + 1
      /\ UNCHANGED <<canSwap, dataReady, inFlight, got, dropped>>
  BY <1>1 DEF Produce, Goto, streamVars
<1>3. FlagType /\ Roles /\ frame \in [Blocks -> Nat] /\ produced \in Nat /\ produced + 1 # 0
  BY LineParts
<1>4. FlagType'
  BY <1>2, <1>3 DEF FlagType, WorkerSteps
<1>5. Roles'
  BY <1>1, <1>2, <1>3, Neighbours DEF FlagType, Roles
<1>6. ASSUME NEW r \in Streams
      PROVE  Custody(r)' /\ (IsWaiting(r)' <=> IsWaiting(r))
  <2>1. r \in Blocks /\ r + 1 \in Blocks /\ r + 1 # 1
    BY Neighbours DEF Streams
  <2>2. Custody(r)
    BY LineParts
  <2>. QED BY <1>2, <1>3, <2>1, <2>2 DEF Custody, IsWaiting, FlagType
<1>7. WaitingFrames' = WaitingFrames
  BY <1>2, <1>6, SameWaiting
<1>8. frame[1] = 0
  BY <1>2, <1>3, Neighbours DEF Roles
<1>9. LineOK(frame, WaitingFrames, got, dropped, produced)'
  BY <1>2, <1>7, <1>8, LineParts, LineProduce
<1>. QED BY <1>4, <1>5, <1>6, <1>9 DEF LineInv

\* swap() hands a frame to the stream.
LEMMA SwapLine ==
  ASSUME LineInv, NEW b \in Blocks, Swap(b)
  PROVE  LineInv'
<1>1. FlagType /\ Roles /\ frame \in [Blocks -> Nat]
  BY LineParts
<1>2. b \in Streams /\ b \in Nat /\ b # N /\ Out(b) = b
  BY <1>1, Neighbours DEF Swap, Roles, Out
<1>3. /\ worker[b] = "swap" /\ canSwap[b]
      /\ worker' = [worker EXCEPT ![b] = "setReady"]
      /\ canSwap' = [canSwap EXCEPT ![b] = FALSE]
      /\ inFlight' = [inFlight EXCEPT ![b] = frame[b]]
      /\ frame' = [frame EXCEPT ![b] = 0]
      /\ UNCHANGED <<dataReady, got, produced, dropped>>
  BY <1>2 DEF Swap, MaySwap, Goto
<1>4. Custody(b) /\ frame[b] # 0 /\ frame[b] \in Nat
  BY <1>1, <1>2, <1>3, LineParts DEF Roles
<1>5. ~IsWaiting(b) /\ WaitingFrames[b] = 0
  BY <1>2, <1>3, LineParts DEF IsWaiting
<1>6. FlagType'
  BY <1>1, <1>2, <1>3, <1>4 DEF FlagType, WorkerSteps
<1>7. Roles'
  BY <1>1, <1>2, <1>3, Neighbours DEF FlagType, Roles
<1>8. ASSUME NEW r \in Streams
      PROVE  Custody(r)' /\ (IsWaiting(r)' <=> IsWaiting(r) \/ r = b)
  <2>1. /\ r \in Blocks /\ r + 1 \in Blocks /\ r \in Nat /\ r + 1 # r
        /\ b \in Blocks
    BY <1>2, Neighbours
  <2>2. Custody(r)
    BY LineParts
  <2>3. CASE r = b
    BY <1>1, <1>2, <1>3, <1>4, <2>1, <2>2, <2>3 DEF Custody, IsWaiting, FlagType
  <2>4. CASE r # b
    BY <1>1, <1>2, <1>3, <2>1, <2>2, <2>4 DEF Custody, IsWaiting, FlagType
  <2>. QED BY <2>3, <2>4
<1>9. inFlight'[b] = frame[b] /\ \A r \in Streams \ {b} : inFlight'[r] = inFlight[r]
  BY <1>1, <1>2, <1>3 DEF FlagType
<1>10. WaitingFrames' = [WaitingFrames EXCEPT ![b] = frame[b]]
  BY <1>2, <1>8, <1>9 DEF WaitingFrames
<1>11. LineOK(frame, WaitingFrames, got, dropped, produced)'
  BY <1>2, <1>3, <1>4, <1>5, <1>10, LineParts, LineSwap
<1>. QED BY <1>6, <1>7, <1>8, <1>11 DEF LineInv

\* swap() returns false.
LEMMA DropLine ==
  ASSUME LineInv, NEW b \in Blocks, SwapStopped(b)
  PROVE  LineInv'
<1>1. FlagType /\ Roles /\ frame \in [Blocks -> Nat]
  BY LineParts
<1>2. b \in Streams /\ b \in Nat /\ b # N
  BY <1>1, Neighbours DEF SwapStopped, Roles
<1>3. /\ worker[b] = "swap"
      /\ worker' = [worker EXCEPT ![b] = "exited"]
      /\ frame' = [frame EXCEPT ![b] = 0]
      /\ dropped' = dropped \cup {frame[b]}
      /\ UNCHANGED <<canSwap, dataReady, inFlight, got, produced>>
  BY DEF SwapStopped, Goto, streamVars
<1>4. frame[b] # 0
  BY <1>1, <1>3 DEF Roles
<1>5. FlagType'
  BY <1>1, <1>3 DEF FlagType, WorkerSteps
<1>6. Roles'
  BY <1>1, <1>2, <1>3, Neighbours DEF FlagType, Roles
<1>7. ASSUME NEW r \in Streams
      PROVE  Custody(r)' /\ (IsWaiting(r)' <=> IsWaiting(r))
  <2>1. r \in Blocks /\ r + 1 \in Blocks
    BY Neighbours
  <2>2. Custody(r)
    BY LineParts
  <2>. QED BY <1>1, <1>3, <2>1, <2>2 DEF Custody, IsWaiting, FlagType
<1>8. WaitingFrames' = WaitingFrames
  BY <1>3, <1>7, SameWaiting
<1>9. LineOK(frame, WaitingFrames, got, dropped, produced)'
  BY <1>2, <1>3, <1>4, <1>8, LineParts, LineDrop
<1>. QED BY <1>5, <1>6, <1>7, <1>9 DEF LineInv

\* What a control operation does to the workers: it starts one that is not there, at run(),
\* or removes one that has returned.
LEMMA ControlWorkers ==
  ASSUME LifeInv, NEW t \in Threads, ControlStep(t), NEW b \in Blocks, b = op[t].block
  PROVE  \/ worker' = worker
         \/ worker[b] = "off" /\ worker' = [worker EXCEPT ![b] = "read"]
         \/ worker[b] \in {"exited", "off"} /\ worker' = [worker EXCEPT ![b] = "off"]
<1>1. op[t].step # "idle" => Knows(op[t], Life(b))
  BY AtStep
<1>2. CASE Start(t)
  <2>1. Settled(Life(b))
    BY <1>1, <1>2 DEF Start, At, Knows
  <2>. QED BY <1>2, <2>1 DEF Start, DoStart, Goto, Settled, HasWorker, Life
<1>3. CASE TempStart(t)
  <2>1. Bracketed(Life(b))
    BY <1>1, <1>3 DEF TempStart, At, Knows
  <2>. QED BY <1>3, <2>1 DEF TempStart, DoStart, Goto, Bracketed, HasWorker, Life
<1>4. CASE Join(t)
  BY <1>4 DEF Join, Goto
<1>. QED BY <1>2, <1>3, <1>4 DEF ControlStep, Stop, TempStop, Nest, StopReader, StopWriter,
                                 Clear, workVars

\* Control operations touch no frame and no handshake.
LEMMA ControlLine ==
  ASSUME LifeInv, LineInv, NEW t \in Threads, ControlStep(t)
  PROVE  LineInv'
<1>1. PICK b \in Blocks : b = op[t].block
  BY DEF LifeInv, CtlType, Ops
<1>2. /\ frame' = frame /\ got' = got /\ dropped' = dropped /\ produced' = produced
      /\ inFlight' = inFlight /\ canSwap' = canSwap /\ dataReady' = dataReady
  BY DEF ControlStep, Start, Stop, TempStop, Nest, TempStart, StopReader, StopWriter, Join, Clear,
         streamVars, workVars
<1>3. \/ worker' = worker
      \/ worker[b] = "off" /\ worker' = [worker EXCEPT ![b] = "read"]
      \/ worker[b] \in {"exited", "off"} /\ worker' = [worker EXCEPT ![b] = "off"]
  BY <1>1, ControlWorkers
<1>4. FlagType /\ Roles
  BY LineParts
<1>5. FlagType'
  BY <1>2, <1>3, <1>4 DEF FlagType, WorkerSteps
<1>6. Roles'
  BY <1>2, <1>3, <1>4, Neighbours DEF FlagType, Roles
<1>7. ASSUME NEW r \in Streams
      PROVE  Custody(r)' /\ (IsWaiting(r)' <=> IsWaiting(r))
  <2>1. r \in Blocks /\ r + 1 \in Blocks
    BY Neighbours
  <2>2. Custody(r)
    BY LineParts
  <2>. QED BY <1>2, <1>3, <1>4, <2>1, <2>2 DEF Custody, IsWaiting, FlagType
<1>8. WaitingFrames' = WaitingFrames
  BY <1>2, <1>7, SameWaiting
<1>9. LineOK(frame, WaitingFrames, got, dropped, produced)'
  BY <1>2, <1>8, LineParts
<1>. QED BY <1>5, <1>6, <1>7, <1>9 DEF LineInv

\* Nothing of a frame changes when all that it depends on is unchanged.
LEMMA LineUnchanged ==
  ASSUME LineInv,
         UNCHANGED <<canSwap, dataReady, inFlight, got, worker, frame, produced, dropped>>
  PROVE  LineInv'
BY DEF LineInv, FlagType, Roles, Custody, WaitingFrames, IsWaiting, LineOK, LineType, InOrder,
       Numbered, TakenInOrder, Accounted, Arrived

\* Before anything is started there is no frame.
LEMMA LineInit == Init => LineInv
<1> SUFFICES ASSUME Init PROVE LineInv
  OBVIOUS
<1>1. /\ \A s \in Streams : canSwap[s] /\ ~dataReady[s] /\ inFlight[s] = 0 /\ got[s] = <<>>
      /\ \A b \in Blocks : worker[b] = "off" /\ frame[b] = 0
      /\ produced = 0 /\ dropped = {} /\ got \in [Streams -> Seq(Nat)] /\ frame \in [Blocks -> Nat]
  BY DEF Init
<1>2. FlagType
  BY DEF Init, FlagType, WorkerSteps
<1>3. Roles
  BY <1>1, Neighbours DEF Roles
<1>4. \A s \in Streams : Custody(s) /\ ~IsWaiting(s)
  BY <1>1, Neighbours DEF Custody, IsWaiting
<1>5. WaitingFrames = [s \in Streams |-> 0]
  BY <1>4 DEF WaitingFrames
<1>6. LineOK(frame, WaitingFrames, got, dropped, produced)
  BY <1>1, <1>5, Neighbours DEF LineOK, LineType, InOrder, Numbered, TakenInOrder, Accounted
<1>. QED BY <1>2, <1>3, <1>4, <1>6 DEF LineInv

\* Every step keeps the invariant.
LEMMA LineStep == LifeInv /\ LineInv /\ [Next]_vars => LineInv'
<1> SUFFICES ASSUME LifeInv, LineInv, [Next]_vars PROVE LineInv'
  OBVIOUS
<1>1. CASE \E b \in Blocks : WorkerStep(b)
  BY <1>1, QuietLine, ReadLine, ConsumeLine, ProduceLine, SwapLine, DropLine DEF WorkerStep
<1>2. CASE \E t \in Threads : ControlStep(t)
  BY <1>2, ControlLine
<1>3. ASSUME NEW t \in Threads, NEW b \in Blocks,
             \/ \E kind \in {"start", "stop"} : Begin(t, kind, b, 0)
             \/ \E nest \in 0..MaxNest : Begin(t, "tempStop", b, nest)
      PROVE  LineInv'
  BY <1>3, LineUnchanged DEF Begin, streamVars, workVars
<1>4. CASE UNCHANGED vars
  BY <1>4, LineUnchanged DEF vars, streamVars, workVars
<1>. QED BY <1>1, <1>2, <1>3, <1>4 DEF Next

-----------------------------------------------------------------------------
(* Each stream is a channel.                                                *)

Slot(s) == IF canSwap[s] THEN <<>> ELSE <<inFlight[s]>>
Held(s) == worker[s + 1] \in {"process", "flushed"}

Puts(s)     == /\ Slot(s) = <<>> /\ \E f \in 1..MaxFrames : Slot(s)' = <<f>>
               /\ Held(s)' = Held(s) /\ got'[s] = got[s]
Takes(s)    == /\ Slot(s) # <<>> /\ ~Held(s) /\ Held(s)' /\ Slot(s)' = Slot(s)
               /\ got'[s] = Append(got[s], Slot(s)[1])
Releases(s) == Held(s) /\ ~Held(s)' /\ Slot(s)' = <<>> /\ got'[s] = got[s]
Stays(s)    == Slot(s)' = Slot(s) /\ Held(s)' = Held(s) /\ got'[s] = got[s]

\* What a worker's step does to any stream: swap() of its writer puts, read() of its reader
\* takes, the end of its reader's flush() releases.
LEMMA WorkerMoves ==
  ASSUME LineInv, NEW b \in Blocks, WorkerStep(b), NEW s \in Streams
  PROVE  Puts(s) \/ Takes(s) \/ Releases(s) \/ Stays(s)
<1>1. /\ s \in Blocks /\ s + 1 \in Blocks /\ s \in Nat /\ b \in Nat /\ s + 1 # s
      /\ In(b) = s <=> b = s + 1
      /\ Out(b) = s <=> b = s
  BY Neighbours DEF In, Out
<1>2. FlagType /\ Roles /\ Custody(s) /\ frame \in [Blocks -> Nat] /\ got \in [Streams -> Seq(Nat)]
  BY LineParts
<1>3. CASE Await(b) \/ ReadStopped(b) \/ FlushReady(b) \/ SetReady(b)
  <2>1. /\ canSwap' = canSwap /\ inFlight' = inFlight /\ got' = got
        /\ (worker'[s + 1] = worker[s + 1] \/ b = s + 1)
    BY <1>1, <1>2, <1>3
       DEF Await, ReadStopped, FlushReady, SetReady, Goto, streamVars, FlagType
  <2>2. Held(s)' = Held(s)
    BY <1>1, <1>2, <1>3, <2>1
       DEF Await, ReadStopped, FlushReady, SetReady, Goto, FlagType, Held
  <2>. QED BY <2>1, <2>2 DEF Stays, Slot
<1>4. CASE Read(b)
  <2>1. /\ worker[b] \in {"read", "inside"} /\ dataReady[In(b)]
        /\ worker' = [worker EXCEPT ![b] = "process"]
        /\ got' = [got EXCEPT ![In(b)] = Append(@, inFlight[In(b)])]
        /\ canSwap' = canSwap /\ inFlight' = inFlight
    BY <1>4 DEF Read, Goto
  <2>2. CASE b = s + 1
    <3>1. ~canSwap[s] /\ ~Held(s) /\ Held(s)'
      BY <1>1, <1>2, <2>1, <2>2 DEF Custody, Held, FlagType
    <3>2. got'[s] = Append(got[s], inFlight[s])
      BY <1>1, <1>2, <2>1, <2>2
    <3>. QED BY <2>1, <3>1, <3>2 DEF Takes, Slot
  <2>3. CASE b # s + 1
    <3>1. got'[s] = got[s] /\ worker'[s + 1] = worker[s + 1]
      BY <1>1, <1>2, <2>1, <2>3 DEF FlagType
    <3>. QED BY <2>1, <3>1 DEF Stays, Slot, Held
  <2>. QED BY <2>2, <2>3
<1>5. CASE FlushCanSwap(b)
  <2>1. /\ worker[b] = "flushed" /\ got' = got /\ inFlight' = inFlight
        /\ canSwap' = [canSwap EXCEPT ![In(b)] = TRUE]
        /\ \/ worker' = [worker EXCEPT ![b] = "swap"]
           \/ worker' = [worker EXCEPT ![b] = "read"]
    BY <1>5 DEF FlushCanSwap, Goto
  <2>2. CASE b = s + 1
    <3>1. canSwap'[s] /\ Held(s) /\ ~Held(s)'
      BY <1>1, <1>2, <2>1, <2>2 DEF Held, FlagType
    <3>. QED BY <2>1, <3>1 DEF Releases, Slot
  <2>3. CASE b # s + 1
    <3>1. canSwap'[s] = canSwap[s] /\ worker'[s + 1] = worker[s + 1]
      BY <1>1, <1>2, <2>1, <2>3 DEF FlagType
    <3>. QED BY <2>1, <3>1 DEF Stays, Slot, Held
  <2>. QED BY <2>2, <2>3
<1>6. CASE Produce(b) \/ SwapStopped(b)
  <2>1. /\ canSwap' = canSwap /\ inFlight' = inFlight /\ got' = got
        /\ (worker'[s + 1] = worker[s + 1] \/ b = s + 1)
    BY <1>1, <1>2, <1>6 DEF Produce, SwapStopped, Goto, streamVars, FlagType
  <2>2. Held(s)' = Held(s)
    BY <1>1, <1>2, <1>6, <2>1 DEF Produce, SwapStopped, Goto, FlagType, Held
  <2>. QED BY <2>1, <2>2 DEF Stays, Slot
<1>7. CASE Swap(b)
  <2>1. /\ worker[b] = "swap" /\ canSwap[Out(b)] /\ got' = got /\ frame[b] <= MaxFrames
        /\ canSwap' = [canSwap EXCEPT ![Out(b)] = FALSE]
        /\ inFlight' = [inFlight EXCEPT ![Out(b)] = frame[b]]
        /\ worker' = [worker EXCEPT ![b] = "setReady"]
    BY <1>7 DEF Swap, MaySwap, Goto
  <2>2. Held(s)' = Held(s)
    BY <1>1, <1>2, <2>1 DEF Held, FlagType
  <2>3. CASE b = s
    <3>1. canSwap[s] /\ ~canSwap'[s] /\ inFlight'[s] = frame[b]
      BY <1>1, <1>2, <2>1, <2>3 DEF FlagType
    <3>2. frame[b] \in 1..MaxFrames
      BY <1>2, <2>1, BoundsAssumption DEF Roles
    <3>3. Slot(s)' = <<frame[b]>> /\ Slot(s) = <<>>
      BY <3>1 DEF Slot
    <3>. QED BY <2>1, <2>2, <3>2, <3>3 DEF Puts
  <2>4. CASE b # s
    <3>1. (canSwap'[s] <=> canSwap[s]) /\ inFlight'[s] = inFlight[s]
      BY <1>1, <1>2, <2>1, <2>4 DEF FlagType
    <3>2. Slot(s)' = Slot(s)
      BY <3>1 DEF Slot
    <3>. QED BY <2>1, <2>2, <3>2 DEF Stays
  <2>. QED BY <2>3, <2>4
<1>. QED BY <1>3, <1>4, <1>5, <1>6, <1>7 DEF WorkerStep

\* The control threads move nothing in or out of a stream.
LEMMA ControlMoves ==
  ASSUME LifeInv, LineInv, NEW t \in Threads, ControlStep(t), NEW s \in Streams
  PROVE  Stays(s)
<1>1. PICK b \in Blocks : b = op[t].block
  BY DEF LifeInv, CtlType, Ops
<1>2. got' = got /\ inFlight' = inFlight /\ canSwap' = canSwap
  BY DEF ControlStep, Start, Stop, TempStop, Nest, TempStart, StopReader, StopWriter, Join, Clear,
         streamVars
<1>3. \/ worker' = worker
      \/ worker[b] = "off" /\ worker' = [worker EXCEPT ![b] = "read"]
      \/ worker[b] \in {"exited", "off"} /\ worker' = [worker EXCEPT ![b] = "off"]
  BY <1>1, ControlWorkers
<1>4. worker'[s + 1] = worker[s + 1] \/ (~Held(s) /\ ~Held(s)')
  BY <1>1, <1>3, LineParts, Neighbours DEF FlagType, Held
<1>5. Held(s)' = Held(s)
  BY <1>4 DEF Held
<1>. QED BY <1>2, <1>5 DEF Stays, Slot

\* Every step puts into, takes from, releases or leaves alone any given stream.
LEMMA StreamMoves ==
  ASSUME LifeInv, LineInv, [Next]_vars, NEW s \in Streams
  PROVE  Puts(s) \/ Takes(s) \/ Releases(s) \/ Stays(s)
<1>1. CASE \E b \in Blocks : WorkerStep(b)
  BY <1>1, WorkerMoves
<1>2. CASE \E t \in Threads : ControlStep(t)
  BY <1>2, ControlMoves
<1>3. ASSUME NEW t \in Threads, NEW b \in Blocks,
             \/ \E kind \in {"start", "stop"} : Begin(t, kind, b, 0)
             \/ \E nest \in 0..MaxNest : Begin(t, "tempStop", b, nest)
      PROVE  Stays(s)
  BY <1>3 DEF Begin, streamVars, workVars, Stays, Slot, Held
<1>4. CASE UNCHANGED vars
  BY <1>4 DEF vars, streamVars, workVars, Stays, Slot, Held
<1>. QED BY <1>1, <1>2, <1>3, <1>4 DEF Next

-----------------------------------------------------------------------------
(* The theorems.                                                            *)

\* Before anything is started every block is settled.
LEMMA LifeInit == Init => LifeInv
<1> SUFFICES ASSUME Init PROVE LifeInv
  OBVIOUS
<1>1. CtlType
  BY IdleType DEF Init, CtlType, WorkerSteps
<1>2. Holding
  BY DEF Init, Holding, Idle
<1>3. LifeCycle
  BY DEF Init, LifeCycle, Idle, Settled, HasWorker, Life
<1>. QED BY <1>1, <1>2, <1>3 DEF LifeInv

\* Every step keeps the invariant.
LEMMA LifeStep == LifeInv /\ [Next]_vars => LifeInv'
<1> SUFFICES ASSUME LifeInv, [Next]_vars PROVE LifeInv'
  OBVIOUS
<1>1. CASE \E b \in Blocks : WorkerStep(b)
  BY <1>1, WorkerKeeps
<1>2. CASE \E t \in Threads : ControlStep(t)
  BY <1>2, StartKeeps, StopKeeps, TempStopKeeps, NestKeeps, TempStartKeeps, StopReaderKeeps,
     StopWriterKeeps, JoinKeeps, ClearKeeps DEF ControlStep
<1>3. ASSUME NEW t \in Threads, NEW b \in Blocks,
             \/ \E kind \in {"start", "stop"} : Begin(t, kind, b, 0)
             \/ \E nest \in 0..MaxNest : Begin(t, "tempStop", b, nest)
      PROVE  LifeInv'
  BY <1>3, BeginKeeps, BoundsAssumption
<1>4. CASE UNCHANGED vars
  BY <1>4 DEF vars, workVars, ctlVars, LifeInv, CtlType, Holding, LifeCycle, Life
<1>. QED BY <1>1, <1>2, <1>3, <1>4 DEF Next

\* However many threads start, stop and reconfigure the blocks, the invariant holds.
THEOREM LifeCycleHolds == Spec => []LifeInv
<1>. QED BY LifeInit, LifeStep, PTL DEF Spec

\* A block that nobody holds has a worker exactly when it is running, and is in no bracket.
THEOREM WorkerIffRunningHolds == Spec => []WorkerIffRunning
<1>1. LifeInv => WorkerIffRunning
  BY DEF LifeInv, LifeCycle, Settled, HasWorker, Life, WorkerIffRunning, CtlType
<1>. QED BY <1>1, LifeCycleHolds, PTL

\* doStart() never assigns over a std::thread that is still joinable.
THEOREM NeverTerminatesHolds == Spec => []NeverTerminates
<1>1. LifeInv => NeverTerminates
  BY DEF LifeInv, LifeCycle, NeverTerminates
<1>. QED BY <1>1, LifeCycleHolds, PTL

\* What a setter changes between tempStop() and tempStart(), no worker is using.
THEOREM QuietInsideBracketHolds == Spec => []QuietInsideBracket
<1>1. ASSUME LifeInv, NEW t \in Threads, At(t, "change")
      PROVE  worker[op[t].block] = "off"
  <2>1. PICK b \in Blocks : b = op[t].block /\ Knows(op[t], Life(b))
    BY <1>1, AtStep DEF At
  <2>. QED BY <1>1, <2>1 DEF At, Knows, Bracketed, HasWorker, Life
<1>2. LifeInv => QuietInsideBracket
  BY <1>1 DEF QuietInsideBracket
<1>. QED BY <1>2, LifeCycleHolds, PTL

\* However the blocks are stopped and started, the frames in the line stay in order, and each
\* is in one place.
THEOREM LineHolds == Spec => []LineInv
<1>. QED BY LineInit, LineStep, LifeCycleHolds, PTL DEF Spec

\* A set of at most one element.
LEMMA AtMostOne ==
  ASSUME NEW S, \A x, y \in S : x = y
  PROVE  Cardinality(S) = IF S = {} THEN 0 ELSE 1
<1>1. CASE S = {}
  BY <1>1, FS_EmptySet
<1>2. CASE S # {}
  <2>1. PICK x : S = {x}
    BY <1>2
  <2>. QED BY <1>2, <2>1, FS_Singleton
<1>. QED BY <1>1, <1>2

\* A restart in the middle of the line neither repeats a frame nor loses one that no stopped
\* swap() dropped, and the frames come out of every stream in the order they were made.
THEOREM FramesConservedHolds == Spec => []FramesConserved
<1>1. ASSUME LineInv, NEW f \in 1..produced
      PROVE  Cardinality({b \in Blocks : f \in InHands(b)})
               + Cardinality({s \in Streams : f \in Waiting(s)})
               + (IF f \in dropped THEN 1 ELSE 0) + (IF f \in Delivered THEN 1 ELSE 0) = 1
  <2> DEFINE HandSet == {b \in Blocks : f \in InHands(b)}
             WaitSet == {s \in Streams : f \in Waiting(s)}
  <2>1. /\ InOrder(frame, WaitingFrames) /\ Numbered(frame, WaitingFrames, got, produced)
        /\ TakenInOrder(frame, WaitingFrames, got)
        /\ Accounted(frame, WaitingFrames, got, dropped, produced)
        /\ frame \in [Blocks -> Nat] /\ WaitingFrames \in [Streams -> Nat]
        /\ f \in Nat /\ f # 0 /\ produced \in Nat
    BY <1>1, LineParts DEF LineOK, LineType
  <2>2. \A b \in Blocks : b \in HandSet <=> frame[b] = f
    BY <2>1 DEF InHands
  <2>3. \A s \in Streams : s \in WaitSet <=> WaitingFrames[s] = f
    BY <1>1, <2>1, LineParts DEF Waiting, IsWaiting
  <2>4. f \in Delivered <=> f \in Arrived(got) /\ frame[N] # f
    <3>1. f \in {got[N - 1][i] : i \in DOMAIN got[N - 1]} <=> f \in Arrived(got)
      <4>1. got \in [Streams -> Seq(Nat)] /\ N - 1 \in Streams
        BY <1>1, LineParts, NAssumption DEF LineOK, LineType, Streams
      <4>2. PICK q \in Seq(Nat) : q = got[N - 1]
        BY <4>1
      <4>3. DOMAIN q = 1..Len(q)
        OBVIOUS
      <4>. QED BY <4>2, <4>3, Zenon DEF Arrived
    <3>. QED BY <2>1, <3>1 DEF Delivered, InHands
  <2> HIDE DEF HandSet, WaitSet
  <2>5. \A b, c \in HandSet : b = c
    <3>1. SUFFICES ASSUME NEW b \in HandSet, NEW c \in HandSet, b # c PROVE FALSE
      OBVIOUS
    <3>2. b \in Blocks /\ c \in Blocks /\ frame[b] = f /\ frame[c] = f
      BY <2>2 DEF HandSet
    <3>3. b < c \/ c < b
      BY <3>1, <3>2, Neighbours
    <3>. QED BY <2>1, <3>2, <3>3 DEF InOrder
  <2>6. \A r, s \in WaitSet : r = s
    <3>1. SUFFICES ASSUME NEW r \in WaitSet, NEW s \in WaitSet, r # s PROVE FALSE
      OBVIOUS
    <3>2. r \in Streams /\ s \in Streams /\ WaitingFrames[r] = f /\ WaitingFrames[s] = f
      BY <2>3 DEF WaitSet
    <3>3. r < s \/ s < r
      BY <3>1, <3>2, Neighbours
    <3>. QED BY <2>1, <3>2, <3>3 DEF InOrder
  <2>7. HandSet = {} \/ WaitSet = {}
    <3>1. SUFFICES ASSUME NEW b \in HandSet, NEW s \in WaitSet PROVE FALSE
      OBVIOUS
    <3>2. b \in Blocks /\ s \in Streams /\ frame[b] = f /\ WaitingFrames[s] = f
      BY <2>2, <2>3 DEF HandSet, WaitSet
    <3>3. b <= s \/ s < b
      BY <3>2, Neighbours
    <3>. QED BY <2>1, <3>2, <3>3 DEF InOrder
  <2>8. HandSet # {} => f \notin dropped /\ f \notin Delivered
    <3>1. SUFFICES ASSUME NEW b \in HandSet PROVE f \notin dropped /\ f \notin Delivered
      OBVIOUS
    <3>2. b \in Blocks /\ frame[b] = f
      BY <2>2 DEF HandSet
    <3>3. f \notin dropped
      BY <2>1, <3>2 DEF Accounted
    <3>4. CASE b = N
      BY <2>4, <3>2, <3>3, <3>4
    <3>5. CASE b # N
      <4>1. b <= N - 1
        BY <3>2, <3>5, Neighbours DEF Streams
      <4>2. \A i \in 1..Len(got[N - 1]) : got[N - 1][i] < f
        BY <2>1, <3>2, <4>1, Neighbours DEF TakenInOrder
      <4>3. f \notin Arrived(got)
        BY <2>1, <4>2 DEF Arrived
      <4>. QED BY <2>4, <3>3, <4>3
    <3>. QED BY <3>4, <3>5
  <2>9. WaitSet # {} => f \notin dropped /\ f \notin Delivered
    <3>1. SUFFICES ASSUME NEW s \in WaitSet PROVE f \notin dropped /\ f \notin Delivered
      OBVIOUS
    <3>2. s \in Streams /\ WaitingFrames[s] = f /\ s <= N - 1
      BY <2>3, NAssumption DEF WaitSet, Streams
    <3>3. f \notin dropped
      BY <2>1, <3>2 DEF Accounted
    <3>4. \A i \in 1..Len(got[N - 1]) : got[N - 1][i] < f
      BY <2>1, <3>2, Neighbours DEF TakenInOrder
    <3>5. f \notin Arrived(got)
      BY <2>1, <3>4 DEF Arrived
    <3>. QED BY <2>4, <3>3, <3>5
  <2>10. f \in dropped => f \notin Delivered
    BY <2>1, <2>4 DEF Accounted
  <2>11. HandSet # {} \/ WaitSet # {} \/ f \in dropped \/ f \in Delivered
    BY <2>1, <2>2, <2>3, <2>4, Neighbours DEF Accounted
  <2>12. /\ Cardinality(HandSet) = IF HandSet = {} THEN 0 ELSE 1
         /\ Cardinality(WaitSet) = IF WaitSet = {} THEN 0 ELSE 1
    BY <2>5, <2>6, AtMostOne
  <2>13. Cardinality(HandSet) + Cardinality(WaitSet)
           + (IF f \in dropped THEN 1 ELSE 0) + (IF f \in Delivered THEN 1 ELSE 0) = 1
    BY <2>7, <2>8, <2>9, <2>10, <2>11, <2>12
  <2>. QED BY <2>13 DEF HandSet, WaitSet
<1>2. ASSUME LineInv
      PROVE  \A s \in Streams : \A i, j \in DOMAIN got[s] : i < j => got[s][i] < got[s][j]
  <2>1. got \in [Streams -> Seq(Nat)] /\ TakenInOrder(frame, WaitingFrames, got)
    BY <1>2, LineParts DEF LineOK
  <2>. SUFFICES ASSUME NEW s \in Streams
                PROVE  \A i, j \in DOMAIN got[s] : i < j => got[s][i] < got[s][j]
    OBVIOUS
  <2>2. PICK q \in Seq(Nat) : q = got[s]
    BY <2>1
  <2>3. DOMAIN q = 1..Len(q)
    OBVIOUS
  <2>4. \A i \in 1..Len(q) : \A j \in 1..Len(q) : i < j => q[i] < q[j]
    BY <2>1, <2>2 DEF TakenInOrder
  <2>. QED BY <2>2, <2>3, <2>4, Zenon
<1>3. LineInv => FramesConserved
  BY <1>1, <1>2 DEF FramesConserved
<1>. QED BY <1>3, LineHolds, PTL

\* The first stream of the line and the last are one-frame channels, whoever starts and stops
\* the blocks at their ends.
THEOREM StreamsAreChannelsHolds == Spec => StreamsAreChannels
<1>1. Init => First!ChanInit
  BY NAssumption DEF Init, Blocks, Streams, First!ChanInit
<1>2. Init => Last!ChanInit
  BY NAssumption DEF Init, Blocks, Streams, Last!ChanInit
<1>3. LifeInv /\ LineInv /\ [Next]_vars => [First!ChanNext]_(First!chanVars)
  <2> SUFFICES ASSUME LifeInv, LineInv, [Next]_vars PROVE [First!ChanNext]_(First!chanVars)
    OBVIOUS
  <2>1. 1 \in Streams /\ 1 + 1 = 2
    BY Neighbours
  <2>2. CASE Puts(1)
    BY <2>1, <2>2 DEF Puts, Slot, Held, First!ChanNext, First!Put
  <2>3. CASE Takes(1)
    BY <2>1, <2>3 DEF Takes, Slot, Held, First!ChanNext, First!Take
  <2>4. CASE Releases(1)
    BY <2>1, <2>4 DEF Releases, Slot, Held, First!ChanNext, First!Release
  <2>5. CASE Stays(1)
    BY <2>1, <2>5 DEF Stays, Slot, Held, First!chanVars
  <2>. QED BY <2>1, <2>2, <2>3, <2>4, <2>5, StreamMoves
<1>4. LifeInv /\ LineInv /\ [Next]_vars => [Last!ChanNext]_(Last!chanVars)
  <2> SUFFICES ASSUME LifeInv, LineInv, [Next]_vars PROVE [Last!ChanNext]_(Last!chanVars)
    OBVIOUS
  <2>1. N - 1 \in Streams /\ N - 1 + 1 = N
    BY Neighbours
  <2>2. CASE Puts(N - 1)
    BY <2>1, <2>2 DEF Puts, Slot, Held, Last!ChanNext, Last!Put
  <2>3. CASE Takes(N - 1)
    BY <2>1, <2>3 DEF Takes, Slot, Held, Last!ChanNext, Last!Take
  <2>4. CASE Releases(N - 1)
    BY <2>1, <2>4 DEF Releases, Slot, Held, Last!ChanNext, Last!Release
  <2>5. CASE Stays(N - 1)
    BY <2>1, <2>5 DEF Stays, Slot, Held, Last!chanVars
  <2>. QED BY <2>1, <2>2, <2>3, <2>4, <2>5, StreamMoves
<1>. QED BY <1>1, <1>2, <1>3, <1>4, LifeCycleHolds, LineHolds, PTL
         DEF Spec, StreamsAreChannels, First!ChanSpec, Last!ChanSpec
=============================================================================
