------------------------------ MODULE MCMounts ------------------------------
(***************************************************************************)
(* TLC instances of the life of a chroot: terminals and a few submounts.   *)
(***************************************************************************)
EXTENDS ChrootMountsProofs

CONSTANTS t1, t2

\* One submount that enter-chroot makes before /var/run, which marks a
\* started chroot; the others behave alike.
MarkerLast == <<"dev", "run">>
=============================================================================
