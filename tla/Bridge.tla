------------------------------- MODULE Bridge -------------------------------
(***************************************************************************)
(* The bridge: callers of websocketcommand, the croutonwebsocket server    *)
(* and the extension, over two named pipes and a WebSocket.                *)
(***************************************************************************)
EXTENDS WebsocketCommand, CroutonWebsocket, Extension

Next == CallerNext \/ ServerNext \/ ExtensionNext

\* Processes that can run do run; every call that may run out of time does so
\* if nothing else ends it; the extension handles its events and retries.
\* Nothing makes a user disconnect, change the focus or start a command.
Fairness ==
    /\ WF_vars(ServerNext)
    /\ WF_vars(ExtensionProgress)
    /\ \A c \in Callers : /\ WF_vars(CallerProgress(c))
                          /\ WF_vars(Expire(c))

Spec == BridgeInit /\ [][Next]_vars

FairSpec == Spec /\ Fairness

\* The same with somebody at the keyboard: while the extension is connected and
\* the server reads what it sends, the focus changes again some time.
AttendedSpec == FairSpec /\ WF_vars(FocusChanged)

----------------------------------------------------------------------------
(* Safety *)

\* flock 5 keeps the calls apart: at most one process writes to the pipe in or
\* reads the pipe out, and it is the holder of the lock (functions:236-238).
OneCallAtATime == \A c \in Callers : pc[c] \in Locked => lock = {c}

\* No answer is left unread on a connection when the server goes back to
\* poll(): every way out of the search for the answer that has not found it
\* closes the connection (websocket.c:217-271).  A later request would read a
\* left-over answer as its own.
NoStaleAnswer ==
    spc = "poll" /\ clientFd # 0 =>
        \A i \in DOMAIN Received : Received[i].tag # "ans"

\* What the server passes to the pipe out as the answer to a request is what
\* the extension answered to that very message, whatever calls run out of time
\* and whatever connections end in between.  Only "C", which the extension
\* never answers, gets an unrequested frame for an answer.
AnswersItsRequest ==
    [][spc = "answer" /\ Len(outBuf') > Len(outBuf)
          => LET reply == outBuf'[Len(outBuf')]
             IN  \/ reply.tag = "ans" /\ reply.body = msg
                 \/ reply.tag \in {"Cs", "Cl"} /\ FirstChar(msg) = "C"]_vars

\* "Write a command to croutonwebsocket, and read back response"
\* (functions:228): what a caller reads is the response to its own command or
\* an error.
OwnReply ==
    \A c \in Callers :
        \A i \in DOMAIN got[c] :
            \/ got[c][i] = [tag |-> "ans", body |-> <<c>>]
            \/ got[c][i].tag = "error"

\* Reopening the pipe in before anything is written to the pipe out must not
\* "flush out legitimate data from a second process" (websocket.c:132-136):
\* after a request that was read to its end there is nothing to flush.
FlushesNoRequest == [][spc = "flush" /\ then = "fin" => inBuf' = inBuf]_vars

\* The server never meets an event that it has no handler for, and so never
\* leaves its loop (websocket.c:561-566): it reopens the pipe after every
\* request, so that the end of one caller is not reported for ever.
NeverStops == spc \notin {"stopping", "stopped"}

----------------------------------------------------------------------------
(* Liveness *)

\* With somebody at the keyboard the server comes back to poll() from whatever
\* it was doing: a stall - on a connection where poll() saw a frame that is no
\* longer there, or for the answer to "C" - ends at the next focus change, and
\* a wait for the cycle lock when its holder runs out of time.
ServerReturns == []<>(spc \in {"poll", "stopped"})

\* A call that nobody cuts short ends, with an answer, an error or nothing.
CallsEnd == \A c \in Callers : pc[c] = "lock" ~> pc[c] = "done"

\* The extension answers "C": it is the "C back-and-forth" whose OK response
\* the server is ready to disregard (websocket.c:381-383).
ListAnswered ==
    spc = "answer" /\ FirstChar(msg) = "C" ~> spc # "answer"

----------------------------------------------------------------------------
(* The bridge keeps the promise of RequestReply as long as no call runs out *)
(* of time and xiwi stays silent.                                           *)

CallOf(c) ==
    CASE pc[c] = "idle" -> "none"
      [] pc[c] = "done" -> "ended"
      [] OTHER -> "asking"

ReplyOf(c) ==
    CASE got[c] = <<>> -> "none"
      [] got[c] = <<[tag |-> "ans", body |-> <<c>>]>> -> "own"
      [] got[c] = <<Signal("error")>> -> "error"
      [] OTHER -> "garbled"

Promise == INSTANCE RequestReply WITH
    call  <- [c \in Callers |-> CallOf(c)],
    reply <- [c \in Callers |-> ReplyOf(c)],
    heard <- {c \in Callers : \E body \in heard : \E i \in DOMAIN body : body[i] = c}

\* A caller reads the response to its own command, once carried out, and an
\* error only for a command that never is; commands are carried out one by one
\* and at most once (functions:228-241 with websocket.c:151-271).
KeepsPromise == Promise!Spec
============================================================================
