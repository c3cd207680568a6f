---------------------------- MODULE RequestReply ----------------------------
(***************************************************************************)
(* What websocketcommand promises to the scripts that call it: "Write a    *)
(* command to croutonwebsocket, and read back response"                    *)
(* (installer/functions:228).  Commands are carried out one at a time and  *)
(* at most once; a caller reads the response to its own command, after it  *)
(* was carried out; an error means that the command was not and never will *)
(* be; without either nothing is promised.                                 *)
(***************************************************************************)
CONSTANT Callers

VARIABLES call,      \* "none", "asking" or "ended" for each caller
          reply,     \* "none", "own" or "error" for each caller
          heard      \* the callers whose commands were carried out

vars == <<call, reply, heard>>

Init ==
    /\ call = [c \in Callers |-> "none"]
    /\ reply = [c \in Callers |-> "none"]
    /\ heard = {}

Ask(c) ==
    /\ call[c] = "none"
    /\ call' = [call EXCEPT ![c] = "asking"]
    /\ UNCHANGED <<reply, heard>>

\* A command can still be carried out when its caller has given up.
Hear(c) ==
    /\ call[c] # "none"
    /\ reply[c] = "none"
    /\ c \notin heard
    /\ \A d \in heard : call[d] = "ended"
    /\ heard' = heard \cup {c}
    /\ UNCHANGED <<call, reply>>

Answer(c) ==
    /\ call[c] = "asking"
    /\ reply[c] = "none"
    /\ c \in heard
    /\ reply' = [reply EXCEPT ![c] = "own"]
    /\ UNCHANGED <<call, heard>>

Refuse(c) ==
    /\ call[c] = "asking"
    /\ reply[c] = "none"
    /\ c \notin heard
    /\ reply' = [reply EXCEPT ![c] = "error"]
    /\ UNCHANGED <<call, heard>>

End(c) ==
    /\ call[c] = "asking"
    /\ call' = [call EXCEPT ![c] = "ended"]
    /\ UNCHANGED <<reply, heard>>

Next == \E c \in Callers : Ask(c) \/ Hear(c) \/ Answer(c) \/ Refuse(c) \/ End(c)

Spec == Init /\ [][Next]_vars
============================================================================
