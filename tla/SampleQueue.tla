---------------------------- MODULE SampleQueue -----------------------------
(***************************************************************************)
(* What a RingBuffer promises the two threads at its ends: a queue of at   *)
(* most `limit` samples.  The writer appends the samples it was given in   *)
(* their order, the reader works on the oldest ones and then gives their   *)
(* room back.  Samples are numbered in the order they were written.        *)
(***************************************************************************)
EXTENDS Naturals, Sequences

VARIABLES queue,    \* the samples inside, oldest first
          held,     \* how many of the oldest the reader is at work on
          made,     \* how many samples were ever appended
          limit     \* the latency that is allowed

queueVars == <<queue, held, made, limit>>

QueueInit == queue = <<>> /\ held = 0 /\ made = 0 /\ limit \in Nat

Put == /\ made' > made
       /\ queue' = queue \o [i \in 1 .. made' - made |-> made + i]
       /\ Len(queue') <= limit
       /\ UNCHANGED <<held, limit>>

Take == /\ held = 0 /\ held' \in 1 .. Len(queue)
        /\ UNCHANGED <<queue, made, limit>>

Release == /\ held > 0 /\ held' = 0
           /\ queue' = SubSeq(queue, held + 1, Len(queue))
           /\ UNCHANGED <<made, limit>>

SetLimit == limit' \in Nat /\ UNCHANGED <<queue, held, made>>

QueueSpec == QueueInit /\ [][Put \/ Take \/ Release \/ SetLimit]_queueVars
=============================================================================
