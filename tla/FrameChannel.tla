---------------------------- MODULE FrameChannel ----------------------------
(***************************************************************************)
(* What a dsp::stream promises the two blocks it connects: a channel of    *)
(* one frame.  A frame is put into the empty slot by the writer, taken by  *)
(* the reader exactly once, stays in place while the reader works on it,   *)
(* and only its release makes room for the next one.  Nothing is said of   *)
(* buffers, condition variables or stopping: Stream implements this        *)
(* channel with two buffers and two mutexes, Pipeline with one stream      *)
(* between any two neighbouring blocks.                                    *)
(***************************************************************************)
EXTENDS Sequences

CONSTANT Frames     \* what a writer may put: samples together with their count

VARIABLES slot,     \* <<>>, or <<f>> while the frame f is in the channel
          held,     \* the reader works on the frame in the slot
          taken     \* the frames the reader has been given, in order

chanVars == <<slot, held, taken>>

ChanInit == slot = <<>> /\ held = FALSE /\ taken = <<>>

Put(f) == slot = <<>> /\ slot' = <<f>> /\ UNCHANGED <<held, taken>>

Take == /\ slot # <<>> /\ ~held
        /\ held' = TRUE
        /\ taken' = Append(taken, slot[1])
        /\ UNCHANGED slot

Release == held /\ held' = FALSE /\ slot' = <<>> /\ UNCHANGED taken

ChanNext == (\E f \in Frames : Put(f)) \/ Take \/ Release

ChanSpec == ChanInit /\ [][ChanNext]_chanVars
=============================================================================
