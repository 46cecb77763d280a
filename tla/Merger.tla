-------------------------------- MODULE Merger --------------------------------
(***************************************************************************)
(* dsp::routing::Merger (core/src/dsp/routing/merger.h), which every audio *)
(* stream of the SinkManager starts with: the radio's audio is bound to it *)
(* with priority 0, what the user plays back with -10.  A detached feeder  *)
(* thread per bound stream collects its data; the merger's worker picks    *)
(* the stream to forward and clears what the others have.  bindStream(),   *)
(* unbindStream() and stop() come from other threads, one at a time        *)
(* (ctrlMtx).                                                              *)
(*                                                                         *)
(* The worker waits without a predicate, so a notification that comes      *)
(* while it is at work is lost.  Data is a number of pieces, 1024 samples  *)
(* or less each.                                                           *)
(***************************************************************************)
EXTENDS Integers, SequencesExt

CONSTANTS Main,          \* the radio's stream
          Played,        \* the streams the user plays back
          MaxBinds,      \* bound: how often bindStream() is called
          None,
          MaxReceived    \* bound: pieces of data a feeder collects; more look the same

ASSUME InputsAssumption == Main \notin Played /\ None \notin Played \cup {Main}
ASSUME BoundAssumption == MaxReceived \in Nat \ {0} /\ MaxBinds \in Nat \ {0}

\* The feeders, numbered in the order bindStream() started them.
Feeders == 1 .. MaxBinds
Nobody  == 0

VARIABLES
  secondary,             \* secondaryStreams, each known by its feeder
  source,                \* the stream of each feeder
  feeder,                \* the step of each feeder
  received,              \* receivedData
  run,                   \* the step of the merger's worker
  best,                  \* bestStream
  proceedWithoutWait, running,
  lastPriority, recent,  \* lastSeenBestPriority; lastSeenBestTime is less than SWITCH_DELAY ago
  readStop, outStop,     \* the streams whose readerStop is set; writerStop of out
  ctl, leaving,          \* the step of the thread in unbindStream() or doStop()
  missed                 \* history: doStop()'s notification came before the wait

bound  == <<secondary, source, readStop>>
choice == <<best, proceedWithoutWait, lastPriority, recent>>
stops  == <<running, outStop, ctl, leaving, missed>>
vars   == <<bound, feeder, received, run, choice, stops>>

IsBound(s) == \E f \in ToSet(secondary) : source[f] = s
Unused     == {f \in Feeders : feeder[f] = "unused"}

Init ==
  /\ secondary = <<1>>
  /\ source = [f \in Feeders |-> IF f = 1 THEN Main ELSE None]
  /\ feeder = [f \in Feeders |-> IF f = 1 THEN "read" ELSE "unused"]
  /\ received = [f \in Feeders |-> 0]
  /\ run = "check" /\ best = Nobody
  /\ proceedWithoutWait = FALSE /\ running = TRUE
  /\ lastPriority = 0 /\ recent = FALSE
  /\ readStop = {} /\ outStop = FALSE
  /\ ctl = "idle" /\ leaving = Nobody /\ missed = FALSE

-----------------------------------------------------------------------------
(* A feeder.                                                                *)

FeederAt(f, step) == feeder' = [feeder EXCEPT ![f] = step]

Read(f) ==
  /\ feeder[f] = "read" /\ source[f] \notin readStop
  /\ FeederAt(f, "append")
  /\ UNCHANGED <<bound, received, run, choice, stops>>

ReadStopped(f) ==
  /\ feeder[f] = "read" /\ source[f] \in readStop
  /\ FeederAt(f, "exited")
  /\ UNCHANGED <<bound, received, run, choice, stops>>

\* The worker holds the dataLock of what it swaps.  Nobody looks at what comes after unbindStream().
DataLocked(f) == run = "swap" /\ best = f

AppendData(f) ==
  /\ feeder[f] = "append" /\ ~DataLocked(f)
  /\ received' = [received EXCEPT ![f] = IF f \in ToSet(secondary) /\ @ < MaxReceived THEN @ + 1 ELSE @]
  /\ FeederAt(f, "notify")
  /\ UNCHANGED <<bound, run, choice, stops>>

WakeWorker == run' = IF run = "waiting" THEN "woken" ELSE run

Notify(f) ==
  /\ feeder[f] = "notify"
  /\ WakeWorker
  /\ FeederAt(f, "read")
  /\ UNCHANGED <<bound, received, choice, stops>>

FeederStep(f) == ReadStopped(f) \/ AppendData(f) \/ Notify(f)

-----------------------------------------------------------------------------
(* The worker: run().                                                       *)

RunAt(step, next) == run = step /\ run' = next

Check ==
  /\ RunAt("check", IF running THEN "decide" ELSE "exited")
  /\ UNCHANGED <<bound, feeder, received, choice, stops>>

Decide ==
  /\ RunAt("decide", IF proceedWithoutWait THEN "choose" ELSE "enter")
  /\ UNCHANGED <<bound, feeder, received, choice, stops>>

\* wait() begins; whoever notifies holds dataReadyMutex.
Enter ==
  /\ RunAt("enter", "waiting")
  /\ UNCHANGED <<bound, feeder, received, choice, stops>>

SpuriousWake ==
  /\ RunAt("waiting", "woken")
  /\ UNCHANGED <<bound, feeder, received, choice, stops>>

Woken ==
  /\ RunAt("woken", IF running THEN "choose" ELSE "exited")
  /\ UNCHANGED <<bound, feeder, received, choice, stops>>

Priority(f) == IF source[f] = Main THEN 0 ELSE -10

\* Within the delay the last stream that is no worse than the last forwarded one, with data or not ...
NoWorse == SelectSeq(secondary, LAMBDA f : Priority(f) <= lastPriority)

\* Mutant: a stream without data is preferred, too.
WithData_OrNot == secondary

\* ... and after it the first of the best that have data.
WithData == SelectSeq(secondary, LAMBDA f : received[f] > 0)
Preferred == SelectSeq(WithData, LAMBDA f : \A g \in ToSet(WithData) : Priority(f) <= Priority(g))

BestStream == IF recent THEN IF NoWorse = <<>> THEN Nobody ELSE Last(NoWorse)
              ELSE IF Preferred = <<>> THEN Nobody ELSE Head(Preferred)

Choose ==
  /\ run = "choose"
  /\ IF BestStream # Nobody /\ received[BestStream] > 0
     THEN /\ run' = "forward" /\ best' = BestStream
          /\ lastPriority' = Priority(BestStream) /\ recent' = TRUE
          /\ UNCHANGED proceedWithoutWait
     ELSE /\ run' = "check" /\ proceedWithoutWait' = FALSE
          /\ UNCHANGED <<best, lastPriority, recent>>
  /\ UNCHANGED <<bound, feeder, received, stops>>

Cleared(fs) == [f \in Feeders |-> IF f \in fs THEN 0 ELSE received[f]]

Ahead  == {secondary[i] : i \in {j \in DOMAIN secondary : \E k \in DOMAIN secondary : k > j /\ secondary[k] = best}}
Behind == ToSet(secondary) \ (Ahead \cup {best})

\* What the streams before the best have is cleared, and that of all if it was unbound.
Forward ==
  /\ run = "forward"
  /\ IF best \in ToSet(secondary)
     THEN run' = "swap" /\ received' = Cleared(Ahead) /\ UNCHANGED best
     ELSE run' = "check" /\ received' = Cleared(ToSet(secondary)) /\ best' = Nobody
  /\ UNCHANGED <<bound, feeder, proceedWithoutWait, lastPriority, recent, stops>>

\* out takes as much as fits, and what the streams behind have is cleared.
Swap ==
  /\ run = "swap" /\ ~outStop
  /\ \E k \in 1 .. received[best] :
       /\ received' = [Cleared(Behind) EXCEPT ![best] = @ - k]
       /\ proceedWithoutWait' = (k < received[best])
  /\ run' = "check" /\ best' = Nobody
  /\ UNCHANGED <<bound, feeder, lastPriority, recent, stops>>

SwapStopped ==
  /\ RunAt("swap", "exited") /\ outStop
  /\ UNCHANGED <<bound, feeder, received, choice, stops>>

MergerStep == Check \/ Decide \/ Enter \/ Woken \/ Choose \/ Forward \/ SwapStopped

DelayPasses ==
  /\ recent /\ recent' = FALSE
  /\ UNCHANGED <<bound, feeder, received, run, best, proceedWithoutWait, lastPriority, stops>>

-----------------------------------------------------------------------------
(* bindStream(), unbindStream() and stop().                                 *)

\* The players clear the stop that the last unbindStream() left behind, then bind.
Bind(s) ==
  /\ ctl = "idle" /\ ~IsBound(s) /\ Unused # {}
  /\ readStop' = readStop \ {s}
  /\ LET f == Min(Unused)
     IN  /\ source' = [source EXCEPT ![f] = s]
         /\ secondary' = Append(secondary, f)
         /\ FeederAt(f, "read")
  /\ UNCHANGED <<received, run, choice, stops>>

Unbind(f) ==
  /\ ctl = "idle" /\ f \in ToSet(secondary)
  /\ readStop' = readStop \cup {source[f]}
  /\ ctl' = "unbind" /\ leaving' = f
  /\ UNCHANGED <<secondary, source, feeder, received, run, choice, running, outStop, missed>>

\* stopReader() returns when nobody is in read().
NobodyReads(ss) == \A f \in Feeders : source[f] \in ss => feeder[f] # "read"

Unbound ==
  /\ ctl = "unbind" /\ NobodyReads({source[leaving]})
  /\ secondary' = SelectSeq(secondary, LAMBDA f : f # leaving)
  /\ ctl' = "idle" /\ leaving' = Nobody
  /\ UNCHANGED <<source, readStop, feeder, received, run, choice, running, outStop, missed>>

BoundInputs == {source[f] : f \in ToSet(secondary)}

StopInputs ==
  /\ ctl = "idle" /\ ctl' = "stopInputs"
  /\ readStop' = readStop \cup BoundInputs
  /\ UNCHANGED <<secondary, source, feeder, received, run, choice, running, outStop, leaving, missed>>

StopRunning ==
  /\ ctl = "stopInputs" /\ NobodyReads(BoundInputs)
  /\ running' = FALSE /\ ctl' = "proceed"
  /\ UNCHANGED <<bound, feeder, received, run, choice, outStop, leaving, missed>>

\* Mutant: the worker is only notified.
Proceed_Not ==
  /\ ctl = "proceed" /\ ctl' = "notify"
  /\ UNCHANGED <<bound, feeder, received, run, choice, running, outStop, leaving, missed>>

Proceed ==
  /\ ctl = "proceed" /\ ctl' = "notify"
  /\ proceedWithoutWait' = TRUE
  /\ UNCHANGED <<bound, feeder, received, run, best, lastPriority, recent, running, outStop, leaving, missed>>

NotifyStop ==
  /\ ctl = "notify" /\ ctl' = "stopOut"
  /\ WakeWorker
  /\ missed' = (run = "enter")
  /\ UNCHANGED <<bound, feeder, received, choice, running, outStop, leaving>>

StopOut ==
  /\ ctl = "stopOut" /\ ctl' = "join"
  /\ outStop' = TRUE
  /\ UNCHANGED <<bound, feeder, received, run, choice, running, leaving, missed>>

\* A merger that was stopped is not started again.
Join ==
  /\ ctl = "join" /\ run = "exited"
  /\ ctl' = "stopped"
  /\ UNCHANGED <<bound, feeder, received, run, choice, running, outStop, leaving, missed>>

CtlStep == Unbound \/ StopRunning \/ Proceed \/ NotifyStop \/ StopOut \/ Join

Next == \/ \E f \in Feeders : Read(f) \/ FeederStep(f) \/ Unbind(f)
        \/ \E s \in Played \cup {Main} : Bind(s)
        \/ MergerStep \/ Swap \/ SpuriousWake \/ DelayPasses
        \/ StopInputs \/ CtlStep

Spec == Init /\ [][Next]_vars

\* The threads run and time passes; whether data comes and is taken is others' affair.
LiveSpec == /\ Spec
            /\ WF_vars(MergerStep) /\ WF_vars(CtlStep) /\ WF_vars(DelayPasses)
            /\ \A f \in Feeders : WF_vars(FeederStep(f))

-----------------------------------------------------------------------------
(* Properties.                                                              *)

\* stop() and unbindStream() return, wherever the worker is, whether out is read or not -
\* unless the one notification of the stop came between the worker's look and its wait.
StopReturns == ctl # "idle" ~> ctl \in {"idle", "stopped"} \/ missed

\* As long as any bound stream brings data, the worker keeps forwarding, although it misses
\* notifications and may wait for a stream it prefers and that is silent.
Brings == \E f \in Feeders : f \in ToSet(secondary) /\ AppendData(f)
KeepsFlowing == ([]<><<Brings>>_vars) => []<>(run = "swap")
=============================================================================
