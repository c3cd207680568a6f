------------------------------ MODULE MCInput ------------------------------
(* Model values for the input of a window.                                 *)
EXTENDS WindowInputDelivery, TLC

============================================================================
