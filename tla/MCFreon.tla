------------------------------ MODULE MCFreon ------------------------------
(* Model values for the display lock: three X servers and Chromium OS.     *)
EXTENDS FreonLockProofs, TLC

CONSTANTS x1, x2, x3

MCServers == {x1, x2, x3}
MCSymmetry == Permutations(MCServers)
============================================================================
