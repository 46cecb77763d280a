----------------------------- MODULE LossyQueue -----------------------------
(***************************************************************************)
(* What the SampleFrameBuffer promises the signal path behind it.  Frames  *)
(* leave in the order they came in, by a place where only one of them is   *)
(* at a time; up to Limit of them wait; one more throws all of them away,  *)
(* itself included, and so does a flush.  With the bypass a frame goes     *)
(* past the queue, but only while no other is inside.  That is promised    *)
(* until the bypass is switched on over frames that are still inside:      *)
(* while "mixed", those that pass overtake them and share the one place.   *)
(* Frames are numbered in the order they came in.                          *)
(***************************************************************************)
EXTENDS Naturals, Sequences

CONSTANT Limit

VARIABLES queue,    \* the frames that wait
          leaving,  \* the one taken or passed last has not gone
          bypass,   \* whether frames go past the queue
          mixed,    \* the bypass was switched on over frames that are still inside
          made,     \* how many came in
          latest    \* the one taken or passed last, 0 if none was

lossyVars == <<queue, leaving, bypass, mixed, made, latest>>

LossyInit == /\ queue = <<>> /\ made = 0 /\ latest = 0
             /\ ~leaving /\ ~bypass /\ ~mixed

\* It can end with every frame that leaves or is thrown away, and no frame starts it.
MixedNoMore == mixed' => mixed

Put == /\ made' = made + 1
       /\ queue' = IF Len(queue) < Limit THEN Append(queue, made') ELSE <<>>
       /\ MixedNoMore
       /\ UNCHANGED <<leaving, bypass, latest>>

Take == /\ queue # <<>> /\ (mixed \/ ~leaving)
        /\ latest' = Head(queue) /\ queue' = Tail(queue)
        /\ leaving' = TRUE /\ MixedNoMore
        /\ UNCHANGED <<bypass, made>>

\* The buffer is bypassed.
Pass == /\ mixed \/ (queue = <<>> /\ ~leaving)
        /\ made' = made + 1 /\ latest' = made'
        /\ leaving' = TRUE /\ MixedNoMore
        /\ UNCHANGED <<queue, bypass>>

\* The frame is handed on, or lost with a stop; while mixed there may be another.
Leave == /\ leaving /\ (mixed \/ ~leaving')
         /\ MixedNoMore
         /\ UNCHANGED <<queue, bypass, made, latest>>

Flush == queue' = <<>> /\ MixedNoMore /\ UNCHANGED <<leaving, bypass, made, latest>>

Switch == /\ bypass' \in BOOLEAN
          /\ mixed' => mixed \/ bypass'
          /\ UNCHANGED <<queue, leaving, made, latest>>

LossyNext == Put \/ Take \/ Pass \/ Leave \/ Flush \/ Switch

LossySpec == LossyInit /\ [][LossyNext]_lossyVars
=============================================================================
