-------------------------- MODULE WebsocketCommand --------------------------
(***************************************************************************)
(* websocketcommand (installer/functions:229-241), the shell side of the   *)
(* bridge:                                                                 *)
(*     timeout 3 sh -c "flock 5; cat > in; cat out" 5>lock                 *)
(* One action per system call another process can notice.                  *)
(***************************************************************************)
EXTENDS BridgeState

Becomes(c, step) == pc' = [pc EXCEPT ![c] = step]

\* The kernel throws a pipe's data away when nobody has it open any more.
DropIn(writers) == IF inReader \/ writers # {} THEN inBuf ELSE <<>>
DropOut(readers) == IF outWriter \/ readers # {} THEN outBuf ELSE <<>>

----------------------------------------------------------------------------
\* croutoncycle takes the cycle lock (croutoncycle:59-62) and sends "X..."
\* while it holds it; the other callers hold nothing.
Start(c) ==
    /\ pc[c] = "idle"
    /\ IF Kind[c] = "X"
       THEN cycleLock = {} /\ cycleLock' = {c}
       ELSE UNCHANGED cycleLock
    /\ Becomes(c, "lock")
    /\ UNCHANGED <<lock, listed, got, pipeVars, serverVars, extVars, netVars>>

\* Mutant: websocketcommand without its flock.
FlockSkipped(c) ==
    /\ pc[c] = "lock"
    /\ lock' = {c}
    /\ Becomes(c, "inOpen")
    /\ UNCHANGED <<cycleLock, listed, got, pipeVars, serverVars, extVars, netVars>>

\* flock 5
Flock(c) ==
    /\ pc[c] = "lock"
    /\ lock = {}
    /\ lock' = {c}
    /\ Becomes(c, "inOpen")
    /\ UNCHANGED <<cycleLock, listed, got, pipeVars, serverVars, extVars, netVars>>

\* The open() of cat > in blocks while the server has the pipe closed.
OpenIn(c) ==
    /\ pc[c] = "inOpen"
    /\ Becomes(c, IF inReader THEN "opened" ELSE "inBlocked")
    /\ inSeen' = TRUE
    /\ UNCHANGED <<lock, cycleLock, listed, got, inBuf, inReader, outBuf, outWriter,
                   serverVars, extVars, netVars>>

\* xiwi pipes the output of croutoncycle l into websocketcommand: it waits for
\* the cycle lock, beside the call, and the end of cat > in waits for it.
ListWindows(c) ==
    /\ Kind[c] = "C"
    /\ pc[c] \in Running
    /\ c \notin listed
    /\ cycleLock = {}
    /\ listed' = listed \cup {c}
    /\ UNCHANGED <<pc, lock, cycleLock, got, pipeVars, serverVars, extVars, netVars>>

\* cat writes the request; with no reader left it dies of SIGPIPE and the shell
\* goes on to cat out.
WriteIn(c) ==
    /\ pc[c] = "opened"
    /\ IF inReader
       THEN Becomes(c, "wrote") /\ inBuf' = Append(inBuf, c)
       ELSE Becomes(c, "outOpen") /\ inBuf' = DropIn(InWriters \ {c})
    /\ UNCHANGED <<lock, cycleLock, listed, got, inReader, inSeen, outBuf, outWriter,
                   serverVars, extVars, netVars>>

CloseIn(c) ==
    /\ pc[c] = "wrote"
    /\ Kind[c] = "C" => c \in listed
    /\ Becomes(c, "outOpen")
    /\ inBuf' = DropIn(InWriters \ {c})
    /\ UNCHANGED <<lock, cycleLock, listed, got, inReader, inSeen, outBuf, outWriter,
                   serverVars, extVars, netVars>>

\* The open() of cat out blocks until the server opens the pipe.
OpenOut(c) ==
    /\ pc[c] = "outOpen"
    /\ Becomes(c, IF outWriter THEN "outRead" ELSE "outBlocked")
    /\ UNCHANGED <<lock, cycleLock, listed, got, pipeVars, serverVars, extVars, netVars>>

ReadOut(c) ==
    /\ pc[c] = "outRead"
    /\ outBuf # <<>>
    /\ got' = [got EXCEPT ![c] = Append(@, Head(outBuf))]
    /\ outBuf' = Tail(outBuf)
    /\ UNCHANGED <<pc, lock, cycleLock, listed, inBuf, inReader, inSeen, outWriter,
                   serverVars, extVars, netVars>>

\* End of file: cat and sh exit, and the lock goes with them.
Finish(c) ==
    /\ pc[c] = "outRead"
    /\ outBuf = <<>>
    /\ ~outWriter
    /\ Becomes(c, "done")
    /\ lock' = lock \ {c}
    /\ UNCHANGED <<cycleLock, listed, got, pipeVars, serverVars, extVars, netVars>>

\* timeout(1) signals its process group: every process of the call dies, and
\* with them the lock and the ends of the pipes they had.
Expire(c) ==
    /\ c \in Slow
    /\ pc[c] \in Running
    /\ Becomes(c, "expired")
    /\ lock' = lock \ {c}
    /\ inBuf' = DropIn(InWriters \ {c})
    /\ outBuf' = DropOut(OutReaders \ {c})
    /\ UNCHANGED <<cycleLock, listed, got, inReader, inSeen, outWriter, serverVars,
                   extVars, netVars>>

\* croutoncycle reads the status and exits.
Leave(c) ==
    /\ pc[c] \in {"done", "expired"}
    /\ c \in cycleLock
    /\ cycleLock' = {}
    /\ UNCHANGED <<pc, lock, listed, got, pipeVars, serverVars, extVars, netVars>>

CallerProgress(c) ==
    \/ Flock(c) \/ OpenIn(c) \/ ListWindows(c) \/ WriteIn(c) \/ CloseIn(c)
    \/ OpenOut(c) \/ ReadOut(c) \/ Finish(c) \/ Leave(c)

CallerNext == \E c \in Callers : Start(c) \/ CallerProgress(c) \/ Expire(c)
============================================================================
