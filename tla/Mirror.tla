------------------------------- MODULE Mirror -------------------------------
(***************************************************************************)
(* What a crouton window promises about the screen of the chroot: it may   *)
(* be blank or late, but it shows what the screen really was at some time  *)
(* and never goes back to something older than it has already shown.       *)
(***************************************************************************)
EXTENDS Naturals

VARIABLES
    content,   \* version of what the X server has drawn
    shown,     \* version on the window, 0 when it is blank
    newest     \* the latest version this window has shown

vars == <<content, shown, newest>>

Init == content = 1 /\ shown = 0 /\ newest = 0

Draw ==
    /\ content' = content + 1
    /\ UNCHANGED <<shown, newest>>

Show ==
    /\ shown' \in newest..content
    /\ newest' = shown'
    /\ UNCHANGED content

Blank ==
    /\ shown' = 0
    /\ UNCHANGED <<content, newest>>

NewWindow ==
    /\ shown' = 0
    /\ newest' = 0
    /\ UNCHANGED content

Next == Draw \/ Show \/ Blank \/ NewWindow

Spec == Init /\ [][Next]_vars
=============================================================================
