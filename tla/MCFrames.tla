------------------------------ MODULE MCFrames ------------------------------
(* Model values for the frames of a window.                                *)
EXTENDS WindowFramesInv, TLC

=============================================================================
