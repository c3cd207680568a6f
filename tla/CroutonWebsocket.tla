-------------------------- MODULE CroutonWebsocket --------------------------
(***************************************************************************)
(* The croutonwebsocket server (src/src/websocket.c, websocket.h): one     *)
(* thread that polls three descriptors and serves them one after the       *)
(* other with blocking calls.  A step ends where another process can       *)
(* notice or where the call can block.  Frames and the fragments of a      *)
(* message are whole; a write to a connection the extension has closed may *)
(* fail or not.                                                            *)
(***************************************************************************)
EXTENDS BridgeState

\* The other end of a connection is closed when the extension has moved on.
PeerClosed(k) == sock # k

\* First character of a request and of a frame.  An "E" answer to a request
\* takes the same way as one that starts like the request (websocket.c:236).
FirstChar(m) == IF m = <<>> THEN "" ELSE Kind[Head(m)]
Letter(f) ==
    CASE f.tag = "VOK" -> "V"
      [] f.tag = "ans" -> FirstChar(f.body)
      [] f.tag \in {"Cs", "Cl"} -> "C"

\* The handlers main() runs for what the last poll reported and is still to
\* be handled; what no handler takes ends the loop.
Handler(events) ==
    CASE "server" \in events -> "accept"
      [] "server" \notin events /\ "in" \in events -> "pipein"
      [] events \cap {"server", "in"} = {} /\ "client" \in events -> "client"
      [] events = {"hup"} -> "stopping"
      [] events = {} -> "poll"

Handled(event) ==
    /\ ready' = ready \ {event}
    /\ spc' = Handler(ready \ {event})

Goto(step) == spc' = step /\ UNCHANGED ready

Received == toServer[clientFd]
TakeFrame == toServer' = [toServer EXCEPT ![clientFd] = Tail(@)]

----------------------------------------------------------------------------
(* main()                                                                  *)

PollEvents ==
    (IF accepted < conn THEN {"server"} ELSE {})
    \cup (IF inBuf # <<>> THEN {"in"}
          ELSE IF inSeen /\ InWriters = {} THEN {"hup"} ELSE {})
    \cup (IF clientFd = 0 THEN {}
          ELSE IF Received # <<>> \/ PeerClosed(clientFd) THEN {"client"} ELSE {})

Poll ==
    /\ spc = "poll"
    /\ PollEvents # {}
    /\ ready' = PollEvents
    /\ spc' = Handler(PollEvents)
    /\ UNCHANGED <<then, msg, clientFd, accepted, callerVars, pipeVars, extVars, netVars>>

\* After the loop: the client gets a close frame, and the process ends.
Stop ==
    /\ spc = "stopping"
    /\ spc' = "stopped"
    /\ ready' = {}
    /\ clientFd' = 0
    /\ inReader' = FALSE
    /\ inBuf' = IF InWriters = {} THEN <<>> ELSE inBuf
    /\ UNCHANGED <<then, msg, accepted, inSeen, outBuf, outWriter, callerVars, extVars,
                   netVars>>

----------------------------------------------------------------------------
(* socket_server_accept(): the handshake, then the old client is closed,   *)
(* and the version is sent.  client_fd changes while events of the old one *)
(* are still to be handled.                                                *)

Accept ==
    /\ spc = "accept"
    /\ accepted' = accepted + 1
    /\ clientFd' = accepted + 1
    /\ toExt' = [toExt EXCEPT ![accepted + 1] = Append(@, Signal("V"))]
    /\ Goto("vok")
    /\ UNCHANGED <<then, msg, callerVars, pipeVars, extVars, toServer>>

\* The browser has gone away: the handshake fails, the old client stays.
AcceptFails ==
    /\ spc = "accept"
    /\ PeerClosed(accepted + 1)
    /\ accepted' = accepted + 1
    /\ Handled("server")
    /\ UNCHANGED <<then, msg, clientFd, callerVars, pipeVars, extVars, netVars>>

\* socket_client_sendversion() waits for "VOK"; anything else, or the end of
\* the connection, closes it.
ReadVersionOk ==
    /\ spc = "vok"
    /\ \/ /\ Received # <<>>
          /\ TakeFrame
          /\ clientFd' = IF Head(Received).tag = "VOK" THEN clientFd ELSE 0
       \/ /\ Received = <<>>
          /\ PeerClosed(clientFd)
          /\ clientFd' = 0
          /\ UNCHANGED toServer
    /\ Handled("server")
    /\ UNCHANGED <<then, msg, accepted, callerVars, pipeVars, extVars, toExt>>

----------------------------------------------------------------------------
(* pipein_reopen(): flush until end of file, close, open again.            *)

Reopen(next) == spc' = "flush" /\ then' = next /\ UNCHANGED ready

\* read() returns data, or blocks while a writer has the pipe open.
PipeinFlush ==
    /\ spc = "flush"
    /\ \/ inBuf # <<>> /\ inBuf' = <<>> /\ Goto("flush")
       \/ inBuf = <<>> /\ InWriters = {} /\ Goto("close") /\ UNCHANGED inBuf
    /\ UNCHANGED <<then, msg, clientFd, accepted, inReader, inSeen, outBuf, outWriter,
                   callerVars, extVars, netVars>>

PipeinClose ==
    /\ spc = "close"
    /\ inReader' = FALSE
    /\ inBuf' = IF InWriters = {} THEN <<>> ELSE inBuf
    /\ Goto("reopen")
    /\ UNCHANGED <<then, msg, clientFd, accepted, inSeen, outBuf, outWriter, callerVars,
                   extVars, netVars>>

\* Mutant: the pipe is not closed and opened again, and its end stays reported.
PipeinOpenKept ==
    /\ spc = "reopen"
    /\ inReader' = TRUE
    /\ pc' = [c \in Callers |-> IF pc[c] = "inBlocked" THEN "opened" ELSE pc[c]]
    /\ Goto(then)
    /\ then' = "poll"
    /\ UNCHANGED <<msg, clientFd, accepted, inBuf, inSeen, outBuf, outWriter, lock,
                   cycleLock, listed, got, extVars, netVars>>

\* open() lets the writers that wait for a reader go on.
PipeinOpen ==
    /\ spc = "reopen"
    /\ inReader' = TRUE
    /\ inSeen' = (InWriters # {})
    /\ pc' = [c \in Callers |-> IF pc[c] = "inBlocked" THEN "opened" ELSE pc[c]]
    /\ Goto(then)
    /\ then' = "poll"
    /\ UNCHANGED <<msg, clientFd, accepted, inBuf, outBuf, outWriter, lock,
                   cycleLock, listed, got, extVars, netVars>>

----------------------------------------------------------------------------
(* pipein_read(): forward the pipe to the extension up to its end.         *)

Pipein ==
    /\ spc = "pipein"
    /\ msg' = <<>>
    /\ IF clientFd = 0
       THEN Reopen("errOpen")
       ELSE Goto("read") /\ UNCHANGED then
    /\ UNCHANGED <<clientFd, accepted, callerVars, pipeVars, extVars, netVars>>

\* One read() and the frame it makes.  The chunk is lost if the frame cannot
\* be sent, and so is the rest of what is in the pipe.
Forward ==
    /\ spc = "read"
    /\ inBuf # <<>>
    /\ inBuf' = Tail(inBuf)
    /\ \/ /\ msg' = Append(msg, Head(inBuf))
          /\ Goto("read")
          /\ UNCHANGED <<then, clientFd>>
       \/ /\ PeerClosed(clientFd)
          /\ clientFd' = 0
          /\ Reopen("errOpen")
          /\ UNCHANGED msg
    /\ UNCHANGED <<accepted, inReader, inSeen, outBuf, outWriter, callerVars, extVars,
                   netVars>>

EndOfRequest ==
    /\ spc = "read"
    /\ inBuf = <<>>
    /\ InWriters = {}
    /\ Reopen("fin")
    /\ UNCHANGED <<msg, clientFd, accepted, callerVars, pipeVars, extVars, netVars>>

\* The empty last frame completes the message.
SendFin ==
    /\ spc = "fin"
    /\ \/ /\ toExt' = [toExt EXCEPT ![clientFd] =
                           Append(@, [tag |-> "req", body |-> msg])]
          /\ Goto("outOpen")
          /\ UNCHANGED clientFd
       \/ /\ PeerClosed(clientFd)
          /\ clientFd' = 0
          /\ Goto("errOpen")
          /\ UNCHANGED toExt
    /\ UNCHANGED <<then, msg, accepted, callerVars, pipeVars, extVars, toServer>>

----------------------------------------------------------------------------
(* pipeout_open(): every 10 ms, for 3 s, until somebody reads the pipe.    *)

Opening == {"outOpen", "errOpen"}
Opened(step) == IF step = "outOpen" THEN "answer" ELSE "errWrite"

PipeoutOpen ==
    /\ spc \in Opening
    /\ OutReaders # {}
    /\ outWriter' = TRUE
    /\ pc' = [c \in Callers |-> IF pc[c] = "outBlocked" THEN "outRead" ELSE pc[c]]
    /\ Goto(Opened(spc))
    /\ UNCHANGED <<then, msg, clientFd, accepted, inBuf, inReader, inSeen, outBuf, lock,
                   cycleLock, listed, got, extVars, netVars>>

\* Mutant: with nobody to read the answer, it is not looked for.
PipeoutTimeoutGivesUp ==
    /\ spc \in Opening
    /\ OutReaders = {}
    /\ lock \subseteq Slow
    /\ Goto("outClose")
    /\ UNCHANGED <<then, msg, clientFd, accepted, callerVars, pipeVars, extVars, netVars>>

\* Mutant: the retries go on until there is a caller.
PipeoutTimeoutWaits ==
    /\ spc \in Opening
    /\ OutReaders = {}
    /\ lock \subseteq Slow
    /\ lock # {}
    /\ Goto(Opened(spc))
    /\ UNCHANGED <<then, msg, clientFd, accepted, callerVars, pipeVars, extVars, netVars>>

\* The 3 s run out before a reader comes: none will, or it is a slow one.
PipeoutTimeout ==
    /\ spc \in Opening
    /\ OutReaders = {}
    /\ lock \subseteq Slow
    /\ Goto(Opened(spc))
    /\ UNCHANGED <<then, msg, clientFd, accepted, callerVars, pipeVars, extVars, netVars>>

\* pipeout_write(): nothing without a descriptor; EPIPE closes it.
PipeoutWrite(reply) ==
    IF outWriter /\ OutReaders # {}
    THEN outBuf' = Append(outBuf, reply) /\ UNCHANGED outWriter
    ELSE outWriter' = FALSE /\ UNCHANGED outBuf

\* pipeout_error()
WriteError ==
    /\ spc = "errWrite"
    /\ PipeoutWrite(Signal("error"))
    /\ Goto("outClose")
    /\ UNCHANGED <<then, msg, clientFd, accepted, inBuf, inReader, inSeen, callerVars,
                   extVars, netVars>>

\* Mutant: the pipe out is left open.
PipeoutCloseSkipped ==
    /\ spc = "outClose"
    /\ Handled("in")
    /\ msg' = <<>>
    /\ UNCHANGED <<then, clientFd, accepted, callerVars, pipeVars, extVars, netVars>>

PipeoutClose ==
    /\ spc = "outClose"
    /\ outWriter' = FALSE
    /\ outBuf' = IF OutReaders = {} THEN <<>> ELSE outBuf
    /\ Handled("in")
    /\ msg' = <<>>
    /\ UNCHANGED <<then, clientFd, accepted, inBuf, inReader, inSeen, callerVars,
                   extVars, netVars>>

----------------------------------------------------------------------------
(* socket_client_handle_unrequested(), from either of the two places that  *)
(* read frames.  Ok and Failed say where each goes on.                     *)

\* Mutant: the first frame ends the search for the answer.
OkEnds(from) == IF from = "answer" THEN Goto("outClose") ELSE Handled("client")

\* Mutant: the search for the answer goes on without a connection.
FailedGoesOn(from) == IF from = "answer" THEN Goto("answer") ELSE Handled("client")

Ok(from) == IF from = "answer" THEN Goto("answer") ELSE Handled("client")
Failed(from) == IF from = "answer" THEN Goto("outClose") ELSE Handled("client")

\* The reply "C" goes to the extension, which has nothing to do for it but to
\* refresh its window list (see Extension); it is not kept in toExt.
ReplyC(from) ==
    \/ Ok(from) /\ UNCHANGED clientFd
    \/ PeerClosed(clientFd) /\ clientFd' = 0 /\ Failed(from)

\* "Cs" starts croutoncycle in the background, "Cl" waits for its output,
\* anything else closes the connection.
Unrequested(from) ==
    LET frame == Head(Received) IN
    /\ TakeFrame
    /\ \/ frame.tag = "Cs" /\ ReplyC(from) /\ UNCHANGED then
       \/ frame.tag = "Cl" /\ Goto("list") /\ then' = from /\ UNCHANGED clientFd
       \/ Letter(frame) # "C" /\ clientFd' = 0 /\ Failed(from) /\ UNCHANGED then

\* croutoncycle l needs the cycle lock (croutoncycle:59-62); it may fail.
List ==
    /\ spc = "list"
    /\ cycleLock = {}
    /\ \/ ReplyC(then)
       \/ clientFd' = 0 /\ Failed(then)
    /\ then' = "poll"
    /\ UNCHANGED <<msg, accepted, callerVars, pipeVars, extVars, netVars>>

\* Mutant: the first character of the frame is not compared.
ReadAnswerUnchecked ==
    /\ spc = "answer"
    /\ Received # <<>>
    /\ TakeFrame
    /\ PipeoutWrite(Head(Received))
    /\ Goto("outClose")
    /\ UNCHANGED <<then, clientFd, msg, accepted, inBuf, inReader, inSeen, callerVars,
                   extVars, toExt>>

\* The loop of pipein_read() that looks for the answer: a frame that starts
\* like the request is the answer, any other is an unrequested one.
ReadAnswer ==
    /\ spc = "answer"
    /\ Received # <<>>
    /\ IF Letter(Head(Received)) = FirstChar(msg)
       THEN /\ TakeFrame
            /\ PipeoutWrite(Head(Received))
            /\ Goto("outClose")
            /\ UNCHANGED <<then, clientFd>>
       ELSE /\ Unrequested("answer")
            /\ UNCHANGED <<outBuf, outWriter>>
    /\ UNCHANGED <<msg, accepted, inBuf, inReader, inSeen, callerVars, extVars, toExt>>

\* The connection ends instead: the pipe out is closed with nothing written.
AnswerLost ==
    /\ spc = "answer"
    /\ Received = <<>>
    /\ PeerClosed(clientFd)
    /\ clientFd' = 0
    /\ Goto("outClose")
    /\ UNCHANGED <<then, msg, accepted, callerVars, pipeVars, extVars, netVars>>

\* socket_client_read(): called for what poll() said of client_fd, which
\* accept or pipein_read may have read, closed or replaced since.
ClientRead ==
    /\ spc = "client"
    /\ IF clientFd = 0
       THEN Handled("client") /\ UNCHANGED <<then, clientFd, toServer>>
       ELSE IF Received # <<>>
            THEN Unrequested("client")
            ELSE /\ PeerClosed(clientFd)
                 /\ clientFd' = 0
                 /\ Handled("client")
                 /\ UNCHANGED <<then, toServer>>
    /\ UNCHANGED <<msg, accepted, callerVars, pipeVars, extVars, toExt>>

----------------------------------------------------------------------------
ServerNext ==
    \/ Poll \/ Stop \/ Accept \/ AcceptFails \/ ReadVersionOk
    \/ PipeinFlush \/ PipeinClose \/ PipeinOpen
    \/ Pipein \/ Forward \/ EndOfRequest \/ SendFin
    \/ PipeoutOpen \/ PipeoutTimeout \/ WriteError \/ PipeoutClose
    \/ List \/ ReadAnswer \/ AnswerLost \/ ClientRead
============================================================================
