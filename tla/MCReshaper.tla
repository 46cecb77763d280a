----------------------------- MODULE MCReshaper -----------------------------
(* Reshaper for TLC: frames that overlap by a sample, and frames with one left out between. *)
EXTENDS Reshaper

OverlapOrGap == {-1, 1}
=============================================================================
