---------------------------- MODULE BridgeInTime ----------------------------
(***************************************************************************)
(* Theorems about the bridge when no call of websocketcommand runs out of  *)
(* time, for any callers and numbers of connections: the server never      *)
(* leaves its loop and never flushes a request, and without the window     *)
(* list of xiwi, which is not answered, the bridge keeps the promise of    *)
(* RequestReply.                                                           *)
(***************************************************************************)
EXTENDS BridgeProofs

\* The steps of the server between two requests; from poll()'s POLLIN on the
\* pipe in until the pipe out is open; and until it is closed.
Listening == {"poll", "accept", "vok", "client"}
Taking == {"pipein", "read", "flush", "close", "reopen", "fin", "outOpen", "errOpen"}
Answering == spc \in {"answer", "errWrite", "outClose"} \/ (spc = "list" /\ then = "answer")
AtRest == spc \in Listening \/ (spc = "list" /\ then = "client")

\* A call that has written its request and waits for the pipe out.
Waiting == {"outOpen", "outBlocked"}
Asked == {"wrote"} \cup Waiting

\* The lock is held by a process that runs, and none is cut short.
LockHeld == \A c \in Callers : (c \in lock => pc[c] \in Locked) /\ pc[c] # "expired"

\* Between two requests the pipes are as pipe_init() left them, but for the
\* request of a caller whose turn it is; poll() reports the end of a caller
\* only after that caller's request.
Rested ==
    AtRest =>
        /\ inReader /\ ~outWriter
        /\ \A c \in Callers : pc[c] # "inBlocked"
        /\ \A c \in Callers : pc[c] \in Asked => inBuf = <<c>>
        /\ inBuf # <<>> => \E c \in Callers : pc[c] \in Asked
        /\ inSeen => InWriters # {} \/ inBuf # <<>>
        /\ "in" \in ready => inBuf # <<>>

\* The request of c goes to the extension.
Forwarding ==
    \/ spc \in {"flush", "close", "reopen"} /\ then = "fin"
    \/ spc = "fin"
    \/ Expecting

\* While the server is busy with a request, its caller waits for it.
Serves(c) ==
    /\ pc[c] \in IF Answering THEN {"outRead"}
                 ELSE IF spc \in {"pipein", "read"} \/ (spc = "flush" /\ then = "errOpen")
                 THEN Asked
                 ELSE Waiting
    /\ inReader <=> spc # "reopen"
    /\ outWriter <=> Answering
    /\ Answering \/ spc \in {"fin", "outOpen", "errOpen"} => ~inSeen
    /\ CASE spc = "pipein" -> inBuf = <<c>>
         [] spc = "read" -> \/ inBuf = <<c>> /\ msg = <<>>
                            \/ inBuf = <<>> /\ msg = <<c>>
         [] spc = "flush" /\ then = "errOpen" -> inBuf \in {<<>>, <<c>>}
         [] OTHER -> inBuf = <<>>
    /\ Forwarding => msg = <<c>>

Served == Answering \/ spc \in Taking => \E c \in Callers : Serves(c)

\* Nothing is left for main() but the events that it has handlers for.
InLoop == NeverStops /\ "hup" \notin ready

\* The server is at rest or serves the one caller that waits for it, and nothing
\* ends its loop (websocket.c:92-271, 520-570, functions:229-241).
InTimeInv == BridgeInv /\ LockHeld /\ Rested /\ Served /\ InLoop

----------------------------------------------------------------------------
(* Replies.                                                                *)

Own(c) == <<AnswerTo(<<c>>)>>
Refusal == <<Signal("error")>>

\* The callers whose requests the extension has carried out, will carry out
\* unless the connection ends, and either.
Heard == {c \in Callers : <<c>> \in heard}
Queued(c) == sock # 0 /\ Only(toExt[sock], Requests, RequestOf(<<c>>))
Sent(c) == c \in Heard \/ Queued(c)

\* Answers to what was never carried out.
NotHeard == {f \in Answers : f.body \notin heard}

\* At most one request waits for the extension, on its newest connection, and
\* what it answers it has carried out.
OneQueued ==
    /\ sock \in {0, conn}
    /\ sock # 0 => \/ None(toExt[sock], Requests)
                   \/ \E c \in Callers : Queued(c)
    /\ \A m \in heard : \E c \in Callers : m = <<c>>
    /\ \A k \in Conns : None(toServer[k], NotHeard)

\* Commands are carried out one by one: whoever was heard before a request that
\* waits has ended.
OneByOne ==
    \A c \in Callers : Queued(c) =>
        c \notin Heard /\ \A d \in Heard : pc[d] = "done"

\* c has read an error or is about to.
Refused(c) == got[c] = Refusal \/ (pc[c] = "outRead" /\ outBuf = Refusal)

\* A caller whose request was sent never gets an error for it.
NoRefusal ==
    \A c \in Callers : Sent(c) =>
        /\ pc[c] \in Waiting \cup {"outRead", "done"}
        /\ pc[c] \in Waiting => spc = "outOpen"
        /\ pc[c] = "outRead" => spc # "errWrite"
        /\ ~Refused(c)

\* What a caller reads is one reply, its own or an error, or nothing.
OneReply ==
    /\ \A c \in Callers :
           /\ got[c] \in {<<>>, Own(c), Refusal}
           /\ got[c] = Own(c) => c \in Heard
           /\ pc[c] \notin {"outRead", "done"} => got[c] = <<>>
           /\ pc[c] = "outRead" =>
                  /\ outBuf \in {<<>>, Own(c), Refusal}
                  /\ outBuf = Own(c) => c \in Heard
                  /\ Answering /\ spc # "outClose" => outBuf = <<>> /\ got[c] = <<>>
                  /\ got[c] = <<>> \/ outBuf = <<>>
    /\ outBuf # <<>> => \E c \in Callers : pc[c] = "outRead"

\* Nobody sends "C", the window list of xiwi, which the extension never answers.
NoWindowList == \A c \in Callers : Kind[c] # "C"

Promised == OneQueued /\ OneByOne /\ NoRefusal /\ OneReply

\* From a request in the pipe to the reply in its caller's hands: at most one is
\* under way, it is carried out before it is answered, and what is answered or
\* still may be is never refused (websocket.c:151-271, background.js:340-562).
PromiseInv == InTimeInv /\ Promised

----------------------------------------------------------------------------
(* The server is always listening or busy with one request.                *)

LEMMA Phases ==
    ASSUME InTimeInv
    PROVE  /\ AtRest \/ Answering \/ spc \in Taking
           /\ AtRest => ~Answering /\ spc \notin Taking
           /\ spc = "list" => then \in {"answer", "client"}
BY DEF InTimeInv, BridgeInv, BridgeTypeOK, ServerTypeOK, ServerSteps, ServerControl, InLoop,
       NeverStops, AtRest, Listening, Answering, Taking

\* There is one caller inside the lock.
LEMMA Alone ==
    ASSUME InTimeInv, NEW c \in Callers, pc[c] \in Locked, NEW d \in Callers, pc[d] \in Locked
    PROVE  d = c /\ lock = {c}
BY DEF InTimeInv, BridgeInv, OneCallAtATime

LEMMA HandlerListens ==
    ASSUME NEW events \in SUBSET Events, "hup" \notin events
    PROVE  /\ Handler(events) \in {"accept", "pipein", "client", "poll"}
           /\ Handler(events) = "pipein" => "in" \in events
<1>1. \/ "server" \in events
      \/ "server" \notin events /\ "in" \in events
      \/ events \cap {"server", "in"} = {} /\ "client" \in events
      \/ events = {}
      BY DEF Events
<1> QED BY <1>1 DEF Handler

LEMMA LockHeldKept ==
    ASSUME Slow = {}, InTimeInv, [Next]_vars
    PROVE  LockHeld'
<1>0. pc \in [Callers -> CallerSteps] /\ LockHeld
      BY DEF InTimeInv, BridgeInv, BridgeTypeOK, CallerTypeOK
<1>1. ASSUME NEW d \in Callers, Flock(d)
      PROVE  LockHeld'
      BY <1>0, <1>1 DEF Flock, Becomes, LockHeld, Locked
<1>2. ASSUME NEW d \in Callers, Start(d) \/ OpenIn(d) \/ WriteIn(d) \/ CloseIn(d) \/ OpenOut(d)
      PROVE  LockHeld'
      BY <1>0, <1>2
      DEF Start, OpenIn, WriteIn, CloseIn, OpenOut, Becomes, LockHeld, Locked, Writing, Reading
<1>3. ASSUME NEW d \in Callers, Finish(d)
      PROVE  LockHeld'
      BY <1>0, <1>3 DEF Finish, Becomes, LockHeld
<1>4. ASSUME NEW d \in Callers, Expire(d)
      PROVE  FALSE
      BY <1>4 DEF Expire
<1>5. CASE PipeinOpen \/ PipeoutOpen
      BY <1>0, <1>5 DEF PipeinOpen, PipeoutOpen, LockHeld, Locked, Writing, Reading
<1>6. CASE UNCHANGED <<pc, lock>>
      BY <1>0, <1>6 DEF LockHeld
<1>7. ASSUME NEW d \in Callers, ListWindows(d) \/ ReadOut(d) \/ Leave(d)
      PROVE  UNCHANGED <<pc, lock>>
      BY <1>7 DEF ListWindows, ReadOut, Leave
<1>8. ASSUME ServerNext, ~PipeinOpen, ~PipeoutOpen
      PROVE  UNCHANGED <<pc, lock>>
      BY <1>8 DEF ServerNext, Poll, Stop, Accept, AcceptFails, ReadVersionOk, PipeinFlush,
             PipeinClose, Pipein, Forward, EndOfRequest, SendFin, PipeoutTimeout,
             WriteError, PipeoutClose, List, ReadAnswer, AnswerLost, ClientRead, callerVars
<1>9. ASSUME ExtensionNext \/ UNCHANGED vars
      PROVE  UNCHANGED <<pc, lock>>
      BY <1>9 DEF ExtensionNext, ExtensionProgress, Connect, Disconnect, ConnectionClosed,
             HandleVersion, HandleRequest, FocusChanged, callerVars, vars
<1> QED BY <1>1, <1>2, <1>3, <1>4, <1>5, <1>6, <1>7, <1>8, <1>9
        DEF Next, CallerNext, CallerProgress

----------------------------------------------------------------------------
(* What the callers do.                                                    *)

\* Between two requests: the caller in the lock opens the pipe, writes and waits.
LEMMA CallersRest ==
    ASSUME Slow = {}, InTimeInv, AtRest, CallerNext
    PROVE  Rested'
<1>0. /\ pc \in [Callers -> CallerSteps] /\ Rested /\ inReader /\ ~outWriter
      BY DEF InTimeInv, BridgeInv, BridgeTypeOK, CallerTypeOK, Rested
<1>1. UNCHANGED <<inReader, outWriter, spc, ready, then>>
      BY DEF CallerNext, CallerProgress, Start, Flock, OpenIn, ListWindows, WriteIn, CloseIn,
         OpenOut, ReadOut, Finish, Expire, Leave, pipeVars, serverVars
<1>2. PICK d \in Callers : Start(d) \/ CallerProgress(d)
      BY DEF CallerNext, Expire
<1>3. CASE OpenIn(d)
  <2>1. /\ pc' = [pc EXCEPT ![d] = "opened"] /\ UNCHANGED inBuf
        /\ pc[d] \notin Asked
        BY <1>0, <1>3 DEF OpenIn, Becomes, Asked, Waiting
  <2>2. d \in InWriters'
        BY <1>0, <2>1 DEF InWriters, Writing
  <2> QED BY <1>0, <1>1, <2>1, <2>2 DEF Rested, AtRest, Asked, Waiting
<1>4. CASE WriteIn(d)
  <2>1. \A c \in Callers : c # d => pc[c] \notin Locked
        BY <1>4, Alone DEF WriteIn, Locked, Writing
  <2>2. pc[d] \notin Asked /\ Asked \subseteq Locked
        BY <1>4 DEF WriteIn, Asked, Waiting, Locked, Writing, Reading
  <2>3. inBuf = <<>>
        BY <1>0, <2>1, <2>2 DEF Rested
  <2>4. pc' = [pc EXCEPT ![d] = "wrote"] /\ inBuf' = <<d>>
        BY <1>0, <1>4, <2>3 DEF WriteIn, Becomes
  <2>5. \A c \in Callers : pc'[c] \in Asked => c = d
        BY <1>0, <2>1, <2>2, <2>4
  <2>6. pc'[d] \in Asked
        BY <1>0, <2>4 DEF Asked
  <2>7. \A c \in Callers : pc'[c] # "inBlocked"
        BY <1>0, <2>4 DEF Rested
  <2> QED BY <1>0, <1>1, <2>4, <2>5, <2>6, <2>7 DEF Rested, AtRest
<1>5. CASE CloseIn(d) \/ OpenOut(d)
  <2>1. /\ pc[d] \in Asked /\ pc'[d] \in Waiting
        /\ \A c \in Callers : c # d => pc'[c] = pc[c]
        /\ inBuf' = inBuf
        BY <1>0, <1>5 DEF CloseIn, OpenOut, Becomes, DropIn, pipeVars, Asked, Waiting
  <2>2. inBuf = <<d>>
        BY <1>0, <2>1 DEF Rested
  <2> QED BY <1>0, <1>1, <2>1, <2>2 DEF Rested, AtRest, Asked, Waiting
<1>6. CASE Start(d) \/ Flock(d) \/ ListWindows(d) \/ ReadOut(d) \/ Finish(d) \/ Leave(d)
  <2>1. /\ UNCHANGED <<inBuf, inSeen>>
        /\ \A c \in Callers :
               /\ pc'[c] \in Asked <=> pc[c] \in Asked
               /\ pc'[c] \in Writing <=> pc[c] \in Writing
               /\ pc'[c] = "inBlocked" => pc[c] = "inBlocked"
        BY <1>0, <1>6
        DEF Start, Flock, ListWindows, ReadOut, Finish, Leave, Becomes, pipeVars, Asked,
            Waiting, Writing
  <2>2. InWriters' = InWriters
        BY <2>1 DEF InWriters
  <2> QED BY <1>0, <1>1, <2>1, <2>2 DEF Rested, AtRest
<1> QED BY <1>2, <1>3, <1>4, <1>5, <1>6 DEF CallerProgress

\* While the server is busy the caller that it serves closes the pipe in and
\* opens the pipe out, and no other gets past the lock.
LEMMA CallersServed ==
    ASSUME Slow = {}, InTimeInv, NEW c \in Callers, Serves(c), CallerNext
    PROVE  Serves(c)'
<1>0. pc \in [Callers -> CallerSteps]
      BY DEF InTimeInv, BridgeInv, BridgeTypeOK, CallerTypeOK
<1>1. UNCHANGED <<inReader, outWriter, spc, ready, then, msg>>
      BY DEF CallerNext, CallerProgress, Start, Flock, OpenIn, ListWindows, WriteIn, CloseIn,
         OpenOut, ReadOut, Finish, Expire, Leave, pipeVars, serverVars
<1>2. PICK d \in Callers : Start(d) \/ CallerProgress(d)
      BY DEF CallerNext, Expire
<1>3. /\ pc[c] \in Asked \cup {"outRead"} /\ pc[c] \in Locked
      /\ pc[c] \in {"wrote", "opened"} => inReader
      /\ pc[c] = "outRead" <=> outWriter
      /\ \A e \in Callers : pc[e] \in Locked => e = c
      /\ lock = {c}
  <2>1. pc[c] \in Asked \cup {"outRead"} /\ pc[c] \in Locked
        BY DEF Serves, Asked, Waiting, Locked, Writing, Reading
  <2> QED BY <2>1, Alone DEF Serves, Asked, Waiting
<1>4. /\ UNCHANGED <<inBuf, inSeen>>
      /\ \/ pc'[c] = pc[c]
         \/ pc[c] = "wrote" /\ pc'[c] \in Waiting
         \/ pc[c] \in Waiting /\ pc'[c] \in Waiting
  <2>1. CASE CloseIn(d)
        BY <1>0, <1>3, <2>1 DEF CloseIn, Becomes, DropIn, Waiting, Locked, Writing
  <2>2. CASE OpenOut(d)
        BY <1>0, <1>3, <2>2 DEF OpenOut, Becomes, Waiting, Locked, pipeVars
  <2>3. CASE Flock(d) \/ OpenIn(d) \/ WriteIn(d) \/ Finish(d)
        BY <1>3, <2>3 DEF Flock, OpenIn, WriteIn, Finish, Locked, Writing, Reading, Asked, Waiting
  <2>4. CASE Start(d)
        BY <1>0, <1>3, <2>4 DEF Start, Becomes, pipeVars, Asked, Waiting
  <2>5. CASE ListWindows(d) \/ ReadOut(d) \/ Leave(d)
        BY <2>5 DEF ListWindows, ReadOut, Leave, pipeVars
  <2> QED BY <1>2, <2>1, <2>2, <2>3, <2>4, <2>5 DEF CallerProgress
<1> QED BY <1>1, <1>4 DEF Serves, Answering, Forwarding, Expecting, Asked, Waiting

----------------------------------------------------------------------------
(* What the server does.                                                   *)

\* From poll() on, until it takes a request.
LEMMA ServerRests ==
    ASSUME InTimeInv, AtRest, ServerNext
    PROVE  Rested' /\ Served' /\ InLoop' /\ (AtRest' \/ spc' = "pipein")
<1>0. /\ ready \in SUBSET Events /\ "hup" \notin ready /\ Rested
      /\ spc \in Listening \cup {"list"} /\ (spc = "list" => then = "client")
      BY DEF InTimeInv, BridgeInv, BridgeTypeOK, ServerTypeOK, InLoop, AtRest, Listening
<1>1. UNCHANGED <<pc, inBuf, inReader, inSeen, outWriter>>
      BY <1>0
      DEF ServerNext, Poll, Stop, Accept, AcceptFails, ReadVersionOk, PipeinFlush,
          PipeinClose, PipeinOpen, Pipein, Forward, EndOfRequest, SendFin, PipeoutOpen,
          PipeoutTimeout, WriteError, PipeoutClose, List, ReadAnswer, AnswerLost,
          ClientRead, callerVars, pipeVars, Listening, Opening
<1>2. InWriters' = InWriters
      BY <1>1 DEF InWriters
<1>3. /\ ready' \in SUBSET Events /\ "hup" \notin ready'
      /\ "in" \in ready' => inBuf # <<>>
      /\ \/ spc' \in {"vok", "accept", "client", "poll"}
         \/ spc' = "list" /\ then' = "client"
         \/ spc' = "pipein" /\ "in" \in ready'
  <2>1. CASE Poll
    <3>1. PollEvents \in SUBSET Events /\ "hup" \notin PollEvents
          /\ ("in" \in PollEvents => inBuf # <<>>)
          BY <1>0, <2>1 DEF PollEvents, Events, Rested, AtRest, Listening, Poll
    <3> QED BY <2>1, <3>1, HandlerListens DEF Poll
  <2>2. CASE Accept
        BY <1>0, <2>2 DEF Accept, Goto, Rested
  <2>3. ASSUME NEW event, Handled(event)
        PROVE  /\ ready' \in SUBSET Events /\ "hup" \notin ready'
               /\ "in" \in ready' => inBuf # <<>>
               /\ \/ spc' \in {"vok", "accept", "client", "poll"}
                  \/ spc' = "pipein" /\ "in" \in ready'
    <3>1. ready \ {event} \in SUBSET Events /\ "hup" \notin ready \ {event}
          BY <1>0
    <3> QED BY <1>0, <2>3, <3>1, HandlerListens DEF Handled, Rested
  <2>4. CASE AcceptFails \/ ReadVersionOk
        BY <2>3, <2>4 DEF AcceptFails, ReadVersionOk
  <2>5. CASE spc = "client"
    <3>1. Handled("client") \/ (Goto("list") /\ then' = "client")
          BY <2>5
          DEF ServerNext, Poll, Stop, Accept, AcceptFails, ReadVersionOk, PipeinFlush,
              PipeinClose, PipeinOpen, Pipein, Forward, EndOfRequest, SendFin, PipeoutOpen,
              PipeoutTimeout, WriteError, PipeoutClose, List, ReadAnswer, AnswerLost,
              ClientRead, Opening, Unrequested, ReplyC, Ok, Failed
    <3>2. CASE Handled("client")
          BY <2>3, <3>2
    <3>3. CASE Goto("list") /\ then' = "client"
          BY <1>0, <3>3 DEF Goto, Rested
    <3> QED BY <3>1, <3>2, <3>3
  <2>6. CASE spc = "list"
    <3>1. Handled("client")
          BY <1>0, <2>6
          DEF ServerNext, Poll, Stop, Accept, AcceptFails, ReadVersionOk, PipeinFlush,
              PipeinClose, PipeinOpen, Pipein, Forward, EndOfRequest, SendFin, PipeoutOpen,
              PipeoutTimeout, WriteError, PipeoutClose, List, ReadAnswer, AnswerLost,
              ClientRead, Opening, ReplyC, Ok, Failed
    <3> QED BY <2>3, <3>1
  <2> QED BY <1>0, <2>1, <2>2, <2>4, <2>5, <2>6
      DEF ServerNext, Stop, PipeinFlush, PipeinClose, PipeinOpen, Pipein, Forward,
          EndOfRequest, SendFin, PipeoutOpen, PipeoutTimeout, WriteError, PipeoutClose,
          List, ReadAnswer, AnswerLost, ClientRead, Listening, Opening
<1>4. Rested'
      BY <1>0, <1>1, <1>2, <1>3 DEF Rested
<1>5. Served'
  <2>1. CASE spc' = "pipein"
    <3>1. PICK c \in Callers : pc[c] \in Asked
          BY <1>3, <2>1 DEF Rested, InTimeInv
    <3>2. inBuf = <<c>> /\ inReader /\ ~outWriter
          BY <3>1 DEF Rested, InTimeInv
    <3>3. Serves(c)'
          BY <1>1, <2>1, <3>1, <3>2 DEF Serves, Answering, Forwarding, Expecting
    <3> QED BY <3>3 DEF Served
  <2>2. CASE spc' # "pipein"
        BY <1>3, <2>2 DEF Served, Answering, Taking
  <2> QED BY <2>1, <2>2
<1>6. InLoop'
      BY <1>3 DEF InLoop, NeverStops
<1>7. AtRest' \/ spc' = "pipein"
      BY <1>3 DEF AtRest, Listening
<1> QED BY <1>4, <1>5, <1>6, <1>7

\* A busy server goes on serving its caller or returns with the pipes at rest.
LEMMA ServerServes ==
    ASSUME Slow = {}, InTimeInv, ServerNext, Answering \/ spc \in Taking,
           NEW c \in Callers, Serves(c)
    PROVE  \/ (Answering \/ spc \in Taking)' /\ Serves(c)' /\ UNCHANGED ready
           \/ /\ spc = "outClose" /\ Handled("in")
              /\ UNCHANGED <<pc, inBuf, inReader, inSeen>> /\ ~outWriter'
<1>0. /\ pc \in [Callers -> CallerSteps]
      /\ spc \in InReopen => then \in {"fin", "errOpen"}
      /\ pc[c] \in Locked /\ (\A d \in Callers : pc[d] \in Locked => d = c) /\ lock = {c}
  <2>1. pc[c] \in Locked
        BY DEF Serves, Asked, Waiting, Locked, Writing, Reading
  <2> QED BY <2>1, Alone DEF InTimeInv, BridgeInv, BridgeTypeOK, CallerTypeOK, ServerControl
<1>1. CASE Pipein
      BY <1>1 DEF Pipein, Reopen, Goto, Serves, Answering, Forwarding, Expecting, Taking,
         callerVars, pipeVars
<1>2. CASE Forward
      BY <1>2 DEF Forward, Reopen, Goto, Serves, Answering, Forwarding, Expecting, Taking,
         callerVars
<1>3. CASE EndOfRequest
  <2>1. pc[c] \in Waiting
        BY <1>3 DEF EndOfRequest, Serves, Answering, Asked, InWriters, Writing
  <2> QED BY <1>3, <2>1
      DEF EndOfRequest, Reopen, Serves, Answering, Forwarding, Expecting, Taking,
          callerVars, pipeVars
<1>4. CASE PipeinFlush
  <2>1. InWriters = {} => pc[c] \notin Writing
        BY DEF InWriters
  <2> QED BY <1>0, <1>4, <2>1
      DEF PipeinFlush, Goto, InReopen, Serves, Answering, Forwarding, Expecting, Taking,
          Asked, Waiting, Writing, callerVars
<1>5. CASE PipeinClose
      BY <1>0, <1>5
      DEF PipeinClose, Goto, InReopen, Serves, Answering, Forwarding, Expecting, Taking,
          callerVars
<1>6. CASE PipeinOpen
  <2>1. InWriters = {}
        BY <1>0, <1>6
        DEF PipeinOpen, InWriters, Writing, Locked, Serves, Answering, Waiting
  <2> QED BY <1>0, <1>6, <2>1
      DEF PipeinOpen, Goto, InReopen, Serves, Answering, Forwarding, Expecting, Taking,
          Waiting
<1>7. CASE SendFin
      BY <1>7 DEF SendFin, Goto, Serves, Answering, Forwarding, Expecting, Taking,
         callerVars, pipeVars
<1>8. CASE PipeoutOpen
  <2>1. pc[c] = "outBlocked" /\ pc'[c] = "outRead"
        BY <1>0, <1>8
        DEF PipeoutOpen, OutReaders, Reading, Locked, Serves, Answering, Opening, Waiting
  <2> QED BY <1>0, <1>8, <2>1
      DEF PipeoutOpen, Opening, Opened, Goto, Serves, Answering, Forwarding, Expecting, Taking
<1>9. ~PipeoutTimeout
      BY <1>0 DEF PipeoutTimeout
<1>10. c \in OutReaders \/ ~Answering
       BY DEF OutReaders, Reading, Serves
<1>11. CASE WriteError
       BY <1>10, <1>11 DEF WriteError, PipeoutWrite, Goto, Serves, Answering, Forwarding,
          Expecting, Taking, callerVars
<1>12. CASE ReadAnswer
       BY <1>10, <1>12
       DEF ReadAnswer, Unrequested, ReplyC, Ok, Failed, PipeoutWrite, Goto, Serves, Answering,
           Forwarding, Expecting, Taking, callerVars
<1>13. CASE AnswerLost
       BY <1>13 DEF AnswerLost, Goto, Serves, Answering, Forwarding, Expecting, Taking,
          callerVars, pipeVars
<1>14. CASE List
       BY <1>14 DEF List, ReplyC, Ok, Failed, Goto, Serves, Answering, Forwarding, Expecting,
          Taking, callerVars, pipeVars
<1>15. CASE PipeoutClose
       BY <1>15 DEF PipeoutClose, callerVars
<1> QED BY <1>1, <1>2, <1>3, <1>4, <1>5, <1>6, <1>7, <1>8, <1>9, <1>11, <1>12, <1>13, <1>14,
           <1>15
        DEF ServerNext, Poll, Stop, Accept, AcceptFails, ReadVersionOk, ClientRead, Answering,
            Taking

\* The request is over.
LEMMA RequestOver ==
    ASSUME InTimeInv, NEW c \in Callers, Serves(c), spc = "outClose", Handled("in"),
           UNCHANGED <<pc, inBuf, inReader, inSeen>>, ~outWriter'
    PROVE  Rested' /\ Served' /\ InLoop'
<1>1. /\ pc[c] = "outRead" /\ inBuf = <<>> /\ inReader /\ ~inSeen
      /\ \A d \in Callers : d # c => pc[d] \notin Locked
  <2>1. pc[c] = "outRead" /\ inBuf = <<>> /\ inReader /\ ~inSeen
        BY DEF Serves, Answering
  <2> QED BY <2>1, Alone DEF Locked, Reading
<1>2. \A d \in Callers : pc[d] # "inBlocked" /\ pc[d] \notin Asked
      BY <1>1 DEF Locked, Writing, Reading, Asked, Waiting
<1>3. /\ ready \ {"in"} \in SUBSET Events /\ "hup" \notin ready \ {"in"}
      /\ ready' = ready \ {"in"}
      /\ spc' \in {"accept", "client", "poll"}
  <2>1. ready \ {"in"} \in SUBSET Events /\ "hup" \notin ready \ {"in"}
        BY DEF InTimeInv, InLoop, BridgeInv, BridgeTypeOK, ServerTypeOK
  <2> QED BY <2>1, HandlerListens DEF Handled
<1>4. Rested'
      BY <1>1, <1>2, <1>3 DEF Rested
<1> QED BY <1>3, <1>4 DEF Served, Answering, Taking, InLoop, NeverStops

----------------------------------------------------------------------------
(* The server in time.                                                     *)

LEMMA InTimeInit ==
    ASSUME BridgeInit
    PROVE  InTimeInv
<1>1. LockHeld /\ Rested /\ Served /\ InLoop
      BY DEF BridgeInit, LockHeld, Rested, Asked, Waiting, Served, Answering, Taking, InLoop,
         NeverStops
<1> QED BY <1>1, InvInit DEF InTimeInv

LEMMA InTimeStep ==
    ASSUME Slow = {}, InTimeInv, [Next]_vars
    PROVE  InTimeInv'
<1>1. BridgeInv' /\ LockHeld'
      BY InvKept, LockHeldKept DEF InTimeInv
<1>2. CASE CallerNext
  <2>1. UNCHANGED <<spc, ready, then>>
        BY <1>2 DEF CallerNext, CallerProgress, Start, Flock, OpenIn, ListWindows, WriteIn,
           CloseIn, OpenOut, ReadOut, Finish, Expire, Leave, serverVars
  <2>2. Rested'
        BY <1>2, <2>1, CallersRest DEF Rested, AtRest
  <2>3. Served'
        BY <1>2, <2>1, CallersServed DEF Served, InTimeInv, Answering
  <2> QED BY <1>1, <2>1, <2>2, <2>3 DEF InTimeInv, InLoop, NeverStops
<1>3. CASE ServerNext
  <2>1. CASE AtRest
        BY <1>1, <1>3, <2>1, ServerRests DEF InTimeInv
  <2>2. CASE Answering \/ spc \in Taking
    <3>1. PICK c \in Callers : Serves(c)
          BY <2>2 DEF InTimeInv, Served
    <3>2. CASE (Answering \/ spc \in Taking)' /\ Serves(c)' /\ UNCHANGED ready
      <4>1. ~AtRest' /\ spc' \notin {"stopping", "stopped"}
            BY <3>2 DEF AtRest, Listening, Answering, Taking
      <4> QED BY <1>1, <3>2, <4>1 DEF InTimeInv, Rested, Served, InLoop, NeverStops
    <3>3. CASE /\ spc = "outClose" /\ Handled("in")
               /\ UNCHANGED <<pc, inBuf, inReader, inSeen>> /\ ~outWriter'
          BY <1>1, <3>1, <3>3, RequestOver DEF InTimeInv
    <3> QED BY <1>3, <2>2, <3>1, <3>2, <3>3, ServerServes
  <2> QED BY <2>1, <2>2, Phases
<1>4. CASE ExtensionNext \/ UNCHANGED vars
  <2>1. UNCHANGED <<pc, lock, inBuf, inReader, inSeen, outWriter, spc, ready, then, msg>>
        BY <1>4 DEF ExtensionNext, ExtensionProgress, Connect, Disconnect, ConnectionClosed,
           HandleVersion, HandleRequest, FocusChanged, callerVars, pipeVars, serverVars, vars
  <2>2. /\ AtRest' = AtRest /\ Answering' = Answering /\ Forwarding' = Forwarding
        /\ InWriters' = InWriters
        BY <2>1 DEF AtRest, Answering, Forwarding, Expecting, InWriters
  <2>3. Rested'
        BY <2>1, <2>2 DEF InTimeInv, Rested
  <2>4. ASSUME NEW c \in Callers, Serves(c)
        PROVE  Serves(c)'
        BY <2>1, <2>2, <2>4 DEF Serves
  <2>5. Served'
        BY <2>1, <2>2, <2>4 DEF InTimeInv, Served
  <2> QED BY <1>1, <2>1, <2>3, <2>5 DEF InTimeInv, InLoop, NeverStops
<1> QED BY <1>2, <1>3, <1>4 DEF Next

\* When no call runs out of time the server is at rest or serves the one caller
\* that waits for it (websocket.c:92-268, 520-570, functions:229-241).
THEOREM BridgeServes ==
    ASSUME Slow = {}
    PROVE  Spec => []InTimeInv
<1>1. BridgeInit => InTimeInv
      BY InTimeInit
<1>2. InTimeInv /\ [Next]_vars => InTimeInv'
      BY InTimeStep
<1> QED BY <1>1, <1>2, PTL DEF Spec

\* The server never meets an event that it has no handler for, and so never
\* leaves its loop (websocket.c:561-566).
THEOREM BridgeNeverStops ==
    ASSUME Slow = {}
    PROVE  Spec => []NeverStops
<1>1. InTimeInv => NeverStops
      BY DEF InTimeInv, InLoop
<1> QED BY <1>1, BridgeServes, PTL

\* After a request that was read to its end nothing is in the pipe that reopening
\* it could throw away (websocket.c:132-136).
THEOREM BridgeFlushesNoRequest ==
    ASSUME Slow = {}
    PROVE  Spec => FlushesNoRequest
<1>1. ASSUME InTimeInv, [Next]_vars, spc = "flush", then = "fin"
      PROVE  inBuf' = inBuf
  <2>1. PICK c \in Callers : Serves(c)
        BY <1>1 DEF InTimeInv, Served, Taking
  <2>2. inBuf = <<>> /\ pc[c] \in Waiting
        BY <1>1, <2>1 DEF Serves, Answering
  <2>3. \A d \in Callers : pc[d] # "opened"
        BY <1>1, <2>2, Alone DEF Waiting, Locked, Writing, Reading
  <2> QED BY <1>1, <2>2, <2>3
      DEF Next, CallerNext, CallerProgress, Start, Flock, OpenIn, ListWindows, WriteIn,
          CloseIn, OpenOut, ReadOut, Finish, Expire, Leave, DropIn, ServerNext, Poll, Stop,
          Accept, AcceptFails, ReadVersionOk, PipeinFlush, PipeinClose, PipeinOpen, Pipein,
          Forward, EndOfRequest, SendFin, PipeoutOpen, PipeoutTimeout, WriteError,
          PipeoutClose, List, ReadAnswer, AnswerLost, ClientRead, ExtensionNext,
          ExtensionProgress, Connect, Disconnect, ConnectionClosed, HandleVersion,
          HandleRequest, FocusChanged, pipeVars, Opening, vars
<1>2. InTimeInv /\ [Next]_vars => [spc = "flush" /\ then = "fin" => inBuf' = inBuf]_vars
      BY <1>1
<1> QED BY <1>2, BridgeServes, PTL DEF Spec, FlushesNoRequest

----------------------------------------------------------------------------
(* Requests on their way to the extension.                                 *)

LEMMA NeverC ==
    ASSUME NoWindowList, NEW m \in Seq(Callers)
    PROVE  /\ FirstChar(m) # "C"
           /\ RequestOf(m) \in Requests /\ RequestOf(m) \in Messages
           /\ RequestOf(m).body = m
<1>1. m # <<>> => Head(m) \in Callers
      BY SequenceTypes
<1>2. FirstChar(m) # "C"
      BY <1>1 DEF FirstChar, NoWindowList
<1> QED BY <1>2 DEF RequestOf, Requests, Messages

LEMMA RequestOfOne ==
    ASSUME NoWindowList, NEW c \in Callers
    PROVE  /\ RequestOf(<<c>>) \in Requests /\ RequestOf(<<c>>) \in Messages
           /\ RequestOf(<<c>>).tag = "req" /\ RequestOf(<<c>>).body = <<c>>
<1>1. <<c>> \in Seq(Callers)
      OBVIOUS
<1> QED BY <1>1, NeverC DEF RequestOf

LEMMA Types ==
    ASSUME InTimeInv
    PROVE  /\ pc \in [Callers -> CallerSteps] /\ got \in [Callers -> Seq(Replies)]
           /\ outBuf \in Seq(Replies) /\ msg \in Seq(Callers)
           /\ sock \in 0..MaxConn /\ (sock # 0 => sock \in Conns) /\ conn \in 0..MaxConn
           /\ clientFd \in 0..MaxConn /\ (clientFd # 0 => clientFd \in Conns)
           /\ accepted \in 0..MaxConn /\ MaxConn \in Nat
           /\ toServer \in [Conns -> Seq(Frames)] /\ toExt \in [Conns -> Seq(Messages)]
BY BridgeAssumption
DEF InTimeInv, BridgeInv, BridgeTypeOK, CallerTypeOK, PipeTypeOK, ServerTypeOK, ExtensionTypeOK,
    NetTypeOK, Conns

\* The request that the extension handles was the only one.
LEMMA HandledRequest ==
    ASSUME NoWindowList, PromiseInv, HandleRequest
    PROVE  \E c \in Callers :
               /\ Queued(c)
               /\ Head(toExt[sock]) = RequestOf(<<c>>)
               /\ None(Tail(toExt[sock]), Requests)
<1> DEFINE s == toExt[sock]
<1>1. s \in Seq(Messages) /\ s # <<>> /\ Head(s) \in Messages /\ Head(s).tag = "req"
  <2>1. s \in Seq(Messages) /\ s # <<>> /\ Head(s).tag = "req"
        BY Types DEF PromiseInv, HandleRequest
  <2> QED BY <2>1, SequenceTypes
<1>2. Head(s) \in Requests
  <2>1. Head(s).body \in Seq(Callers)
        BY <1>1 DEF Messages
  <2> QED BY <1>1, <2>1, NeverC DEF Requests
<1>3. ~None(s, Requests)
      BY <1>1, <1>2, NoneTail
<1>4. PICK c \in Callers : Queued(c)
      BY <1>3 DEF PromiseInv, Promised, OneQueued, HandleRequest
<1>5. RequestOf(<<c>>) \in Requests
      BY NeverC
<1>6. Head(s) = RequestOf(<<c>>) /\ None(Tail(s), Requests)
      BY <1>1, <1>2, <1>4, <1>5, OnlyTail DEF Queued
<1> QED BY <1>4, <1>6

\* At "fin" the request of the caller served has not been sent yet.
LEMMA NotSentYet ==
    ASSUME NoWindowList, PromiseInv, spc = "fin"
    PROVE  \E c \in Callers :
               /\ msg = <<c>> /\ pc[c] \in Waiting /\ ~Sent(c)
               /\ clientFd # 0 /\ None(toExt[clientFd], Requests)
               /\ \A d \in Heard : pc[d] = "done"
<1>1. PICK c \in Callers : Serves(c)
      BY DEF PromiseInv, InTimeInv, Served, Taking
<1>2. msg = <<c>> /\ pc[c] \in Waiting
      BY <1>1 DEF Serves, Forwarding, Answering
<1>3. ~Sent(c)
      BY <1>2 DEF PromiseInv, Promised, NoRefusal
<1>4. clientFd # 0 /\ None(toExt[clientFd], Requests)
  <2>1. clientFd # 0 /\ ~Expecting
        BY DEF PromiseInv, InTimeInv, BridgeInv, ServerControl, NeedsClient, Expecting
  <2> QED BY <2>1 DEF PromiseInv, InTimeInv, BridgeInv, OneOutstanding
<1>5. ASSUME NEW d \in Heard
      PROVE  pc[d] = "done"
  <2>1. d \in Callers /\ pc[d] \in Waiting \cup {"outRead", "done"}
        BY <1>5 DEF PromiseInv, Promised, NoRefusal, Sent, Heard
  <2>2. CASE pc[d] # "done"
    <3>1. pc[d] \in Locked /\ pc[c] \in Locked
          BY <1>2, <2>1, <2>2 DEF Waiting, Locked, Reading
    <3>2. d = c
          BY <2>1, <3>1, Alone DEF PromiseInv
    <3> QED BY <1>3, <1>5, <3>2 DEF Sent
  <2> QED BY <2>2
<1> QED BY <1>2, <1>3, <1>4, <1>5

\* What a step may do with the requests on their way and with those carried out.
Forwards == \A c \in Callers :
    Queued(c)' => Queued(c) \/ (spc = "fin" /\ spc' = "outOpen" /\ msg = <<c>>)
Carries == /\ Heard \subseteq Heard'
           /\ Heard' # Heard => \A c \in Callers : ~Queued(c)'
           /\ \A c \in Heard' \ Heard : Queued(c) /\ UNCHANGED <<callerVars, pipeVars, serverVars>>

LEMMA RequestsMove ==
    ASSUME NoWindowList, PromiseInv, [Next]_vars
    PROVE  /\ sock' # 0 => None(toExt'[sock'], Requests) \/ \E c \in Callers : Queued(c)'
           /\ Forwards
<1> DEFINE Queue(s) == None(s, Requests) \/ \E c \in Callers : Only(s, Requests, RequestOf(<<c>>))
           InOrder == /\ sock' # 0 => Queue(toExt'[sock'])
                      /\ Forwards
<1> SUFFICES InOrder
    BY DEF Queued
<1>0. /\ sock # 0 => Queue(toExt[sock])
      /\ sock \in {0, conn}
      BY DEF PromiseInv, Promised, OneQueued, Queued
<1>1. ASSUME sock' = sock, sock # 0 => toExt'[sock] = toExt[sock]
      PROVE  InOrder
      BY <1>0, <1>1 DEF Forwards, Queued
<1>2. CASE CallerNext \/ FocusChanged \/ UNCHANGED vars
  <2>1. sock' = sock /\ toExt' = toExt
        BY <1>2 DEF CallerNext, CallerProgress, Start, Flock, OpenIn, ListWindows, WriteIn,
           CloseIn, OpenOut, ReadOut, Finish, Expire, Leave, extVars, netVars, FocusChanged, vars
  <2> QED BY <1>1, <2>1
<1>3. CASE Connect
  <2>1. sock' = conn + 1 /\ conn + 1 \in Conns /\ toExt' = toExt /\ accepted < conn + 1
        BY <1>3, Types DEF Connect, Conns, PromiseInv, InTimeInv, BridgeInv, ConnectionsInOrder,
           netVars
  <2>2. toExt'[sock'] = <<>>
        BY <2>1 DEF PromiseInv, InTimeInv, BridgeInv, ConnectionsInOrder
  <2>3. None(toExt'[sock'], Requests) /\ \A c \in Callers : ~Queued(c)'
        BY <2>2 DEF None, Queued, Only
  <2> QED BY <2>3 DEF Forwards
<1>4. CASE Disconnect \/ ConnectionClosed
      BY <1>4 DEF Disconnect, ConnectionClosed, Forwards, Queued
<1>5. CASE HandleVersion
  <2> DEFINE s == toExt[sock]
  <2>1. /\ s \in Seq(Messages) /\ s # <<>> /\ Head(s).tag = "V" /\ sock' = sock
        /\ toExt'[sock] = Tail(s) /\ sock \in Conns
        BY <1>5, Types DEF HandleVersion, Receive, PromiseInv
  <2>2. \A c \in Callers : RequestOf(<<c>>) # Head(s) /\ RequestOf(<<c>>) \in Requests
        BY <2>1, RequestOfOne
  <2>3. None(s, Requests) => None(Tail(s), Requests)
        BY <2>1, NoneTail
  <2>4. ASSUME NEW c \in Callers, Only(s, Requests, RequestOf(<<c>>))
        PROVE  Only(Tail(s), Requests, RequestOf(<<c>>))
        BY <2>1, <2>2, <2>4, OnlyTail
  <2>5. Head(s) \notin Requests
        BY <2>1 DEF Requests
  <2>6. ASSUME NEW c \in Callers, Only(Tail(s), Requests, RequestOf(<<c>>))
        PROVE  Only(s, Requests, RequestOf(<<c>>))
    <3>1. /\ s = <<Head(s)>> \o Tail(s)
          /\ <<Head(s)>> \in Seq(Messages) /\ Tail(s) \in Seq(Messages)
          BY <2>1
    <3>2. None(<<Head(s)>>, Requests)
          BY <2>5 DEF None
    <3> HIDE DEF s
    <3> QED BY <2>2, <2>6, <3>1, <3>2, OnlyConcat
  <2> QED BY <1>0, <2>1, <2>3, <2>4, <2>6 DEF Forwards, Queued
<1>6. CASE HandleRequest
  <2>1. /\ sock' = sock /\ sock \in Conns /\ toExt'[sock] = Tail(toExt[sock])
        /\ toExt[sock] # <<>>
        BY <1>6, Types DEF HandleRequest, Receive, PromiseInv
  <2>2. None(Tail(toExt[sock]), Requests)
        BY <1>6, HandledRequest
  <2>3. ASSUME NEW c \in Callers
        PROVE  ~Queued(c)'
        BY <2>1, <2>2, RequestOfOne DEF Queued, None, Only
  <2> QED BY <2>1, <2>2, <2>3 DEF Forwards
<1>7. CASE Accept
  <2>1. /\ sock' = sock /\ toExt' = [toExt EXCEPT ![accepted + 1] = Append(@, Signal("V"))]
        BY <1>7 DEF Accept, extVars
  <2>2. CASE sock = accepted + 1 /\ sock # 0
    <3>1. toExt[sock] = <<>> /\ toExt'[sock] = <<Signal("V")>>
      <4>1. sock \in Conns /\ accepted < sock /\ toExt \in [Conns -> Seq(Messages)]
            BY <2>2, Types DEF PromiseInv
      <4>2. toExt[sock] = <<>>
            BY <4>1 DEF PromiseInv, InTimeInv, BridgeInv, ConnectionsInOrder
      <4> QED BY <2>1, <2>2, <4>1, <4>2
    <3>2. Signal("V") \notin Requests
          BY DEF Signal, Requests
    <3>3. None(toExt'[sock], Requests) /\ \A c \in Callers : ~Only(toExt'[sock], Requests, RequestOf(<<c>>))
          BY <3>1, <3>2, RequestOfOne DEF None, Only
    <3> QED BY <2>1, <3>3 DEF Forwards, Queued
  <2>3. CASE ~(sock = accepted + 1 /\ sock # 0)
        BY <1>1, <2>1, <2>3, Types DEF PromiseInv
  <2> QED BY <2>2, <2>3
<1>8. CASE SendFin
  <2>1. PICK c \in Callers : /\ msg = <<c>> /\ clientFd # 0
                             /\ None(toExt[clientFd], Requests)
        BY <1>8, NotSentYet DEF SendFin
  <2>2. sock' = sock
        BY <1>8 DEF SendFin, extVars
  <2>3. CASE toExt' = toExt
        BY <1>1, <2>2, <2>3
  <2>4. CASE /\ toExt' = [toExt EXCEPT ![clientFd] = Append(@, RequestOf(msg))]
             /\ spc' = "outOpen"
    <3>1. CASE sock # clientFd
          BY <1>1, <2>2, <2>4, <3>1, Types DEF PromiseInv
    <3>2. CASE sock = clientFd
      <4>1. toExt'[sock] = Append(toExt[sock], RequestOf(<<c>>)) /\ toExt[sock] \in Seq(Messages)
            BY <2>1, <2>4, <3>2, Types DEF PromiseInv
      <4>2. Only(toExt'[sock], Requests, RequestOf(<<c>>))
            BY <2>1, <3>2, <4>1, RequestOfOne, AppendNoneOnly
      <4>3. ASSUME NEW d \in Callers, Queued(d)'
            PROVE  d = c
        <5>1. RequestOf(<<d>>) \in Requests
              BY RequestOfOne
        <5>2. RequestOf(<<d>>) = RequestOf(<<c>>)
              BY <2>2, <4>2, <4>3, <5>1 DEF Queued, Only
        <5> QED BY <5>2 DEF RequestOf
      <4> QED BY <1>8, <2>1, <2>2, <2>4, <4>2, <4>3 DEF Forwards, SendFin
    <3> QED BY <3>1, <3>2
  <2> QED BY <1>8, <2>3, <2>4 DEF SendFin, Goto, RequestOf
<1>9. ASSUME ServerNext, ~Accept, ~SendFin
      PROVE  InOrder
  <2>1. sock' = sock /\ toExt' = toExt
        BY <1>9 DEF ServerNext, Poll, Stop, AcceptFails, ReadVersionOk, PipeinFlush, PipeinClose,
           PipeinOpen, Pipein, Forward, EndOfRequest, PipeoutOpen, PipeoutTimeout, WriteError,
           PipeoutClose, List, ReadAnswer, AnswerLost, ClientRead, extVars, netVars
  <2> QED BY <1>1, <2>1
<1> QED BY <1>2, <1>3, <1>4, <1>5, <1>6, <1>7, <1>8, <1>9 DEF Next, ExtensionNext, ExtensionProgress

LEMMA NoneOf ==
    ASSUME NEW s, NEW A, None(s, A)
    PROVE  /\ \A x \in A : ~Only(s, A, x)
           /\ \A B \in SUBSET A : None(s, B)
BY DEF None, Only

LEMMA RequestsCarried ==
    ASSUME NoWindowList, PromiseInv, [Next]_vars
    PROVE  Carries
<1>1. CASE HandleRequest
  <2>1. PICK c \in Callers : /\ Queued(c)
                             /\ Head(toExt[sock]) = RequestOf(<<c>>)
                             /\ None(Tail(toExt[sock]), Requests)
        BY <1>1, HandledRequest
  <2>2. heard' = heard \cup {<<c>>}
        BY <1>1, <2>1 DEF HandleRequest, RequestOf
  <2>3. Heard' = Heard \cup {c}
        BY <2>2 DEF Heard
  <2>4. \A d \in Callers : ~Queued(d)'
    <3>1. sock' = sock /\ sock \in Conns /\ toExt'[sock] = Tail(toExt[sock])
          BY <1>1, Types DEF HandleRequest, Receive, PromiseInv
    <3> QED BY <2>1, <3>1, RequestOfOne, NoneOf DEF Queued
  <2>5. UNCHANGED <<callerVars, pipeVars, serverVars>>
        BY <1>1 DEF HandleRequest
  <2> QED BY <2>1, <2>3, <2>4, <2>5 DEF Carries
<1>2. ASSUME ~HandleRequest
      PROVE  heard' = heard
      BY <1>2
      DEF Next, CallerNext, CallerProgress, Start, Flock, OpenIn, ListWindows, WriteIn,
          CloseIn, OpenOut, ReadOut, Finish, Expire, Leave, ServerNext, Poll, Stop, Accept,
          AcceptFails, ReadVersionOk, PipeinFlush, PipeinClose, PipeinOpen, Pipein, Forward,
          EndOfRequest, SendFin, PipeoutOpen, PipeoutTimeout, WriteError, PipeoutClose, List,
          ReadAnswer, AnswerLost, ClientRead, ExtensionNext, ExtensionProgress, Connect,
          Disconnect, ConnectionClosed, HandleVersion, FocusChanged, extVars, vars
<1>3. CASE heard' = heard
      BY <1>3 DEF Carries, Heard
<1> QED BY <1>1, <1>2, <1>3

\* The version's answer and what is sent unrequested contain no answer.
LEMMA NoAnswerSent ==
    ASSUME HandleVersion \/ FocusChanged
    PROVE  \E frames \in Seq(Frames) : Send(sock, frames) /\ None(frames, Answers)
<1>1. \A s, t \in Seq(Frames) : None(s, Answers) /\ None(t, Answers)
                                  => s \o t \in Seq(Frames) /\ None(s \o t, Answers)
      BY NoneConcat, SequenceTypes
<1>2. \A tag \in {"VOK", "Cs", "Cl"} :
          <<Signal(tag)>> \in Seq(Frames) /\ None(<<Signal(tag)>>, Answers)
      BY SignalTypes DEF Signal, Answers, None
<1>3. WindowList \in Seq(Frames) /\ None(WindowList, Answers)
      BY SignalTypes DEF WindowList, Signal, Answers, None
<1>4. CASE HandleVersion
  <2>1. PICK lists \in {WindowList, WindowList \o WindowList} :
            Send(sock, <<Signal("VOK")>> \o lists)
        BY <1>4 DEF HandleVersion
  <2>2. lists \in Seq(Frames) /\ None(lists, Answers)
        BY <1>1, <1>3
  <2> QED BY <1>1, <1>2, <2>1, <2>2
<1>5. CASE FocusChanged
      BY <1>2, <1>3, <1>5 DEF FocusChanged
<1> QED BY <1>4, <1>5

LEMMA OneQueuedKept ==
    ASSUME NoWindowList, PromiseInv, [Next]_vars
    PROVE  OneQueued'
<1>1. sock' \in {0, conn'}
      BY DEF PromiseInv, Promised, OneQueued,
          Next, CallerNext, CallerProgress, Start, Flock, OpenIn, ListWindows, WriteIn,
          CloseIn, OpenOut, ReadOut, Finish, Expire, Leave, ServerNext, Poll, Stop, Accept,
          AcceptFails, ReadVersionOk, PipeinFlush, PipeinClose, PipeinOpen, Pipein, Forward,
          EndOfRequest, SendFin, PipeoutOpen, PipeoutTimeout, WriteError, PipeoutClose, List,
          ReadAnswer, AnswerLost, ClientRead, ExtensionNext, ExtensionProgress, Connect,
          Disconnect, ConnectionClosed, HandleVersion, HandleRequest, FocusChanged, extVars,
          vars
<1>2. /\ \A m \in heard : \E c \in Callers : m = <<c>>
      /\ \A k \in Conns : None(toServer[k], NotHeard)
      /\ toServer \in [Conns -> Seq(Frames)]
      BY Types DEF PromiseInv, Promised, OneQueued
<1>3. CASE HandleRequest
  <2>1. PICK c \in Callers : /\ Queued(c) /\ Head(toExt[sock]) = RequestOf(<<c>>)
        BY <1>3, HandledRequest
  <2>2. heard' = heard \cup {<<c>>}
        BY <1>3, <2>1 DEF HandleRequest, RequestOf
  <2> DEFINE answer == <<AnswerTo(<<c>>)>>
  <2>3. \/ toServer' = toServer
        \/ Send(sock, answer) \/ Send(sock, answer \o WindowList)
        \/ Send(sock, WindowList)
        BY <1>3, <2>1 DEF HandleRequest, AnswerTo, RequestOf
  <2>4. AnswerTo(<<c>>) \in Frames /\ AnswerTo(<<c>>) \notin NotHeard'
    <3>1. <<c>> \in Seq(Callers)
          OBVIOUS
    <3> QED BY <2>2, <3>1 DEF AnswerTo, Frames, NotHeard
  <2>5. NotHeard' \in SUBSET NotHeard
        BY <2>2 DEF NotHeard
  <2>6. \A f \in {answer, answer \o WindowList, WindowList} :
            f \in Seq(Frames) /\ None(f, NotHeard')
    <3>1. answer \in Seq(Frames) /\ None(answer, NotHeard')
          BY <2>4 DEF None
    <3>2. WindowList \in Seq(Frames) /\ None(WindowList, NotHeard')
          BY SignalTypes DEF WindowList, Signal, Answers, NotHeard, None
    <3> HIDE DEF answer
    <3>3. answer \o WindowList \in Seq(Frames)
          BY <3>1, <3>2, SequenceTypes
    <3>4. None(answer \o WindowList, NotHeard')
          BY <3>1, <3>2, NoneConcat
    <3> QED BY <3>1, <3>2, <3>3, <3>4
  <2> HIDE DEF answer
  <2>7. ASSUME NEW k \in Conns
        PROVE  None(toServer'[k], NotHeard')
    <3>1. toServer[k] \in Seq(Frames) /\ None(toServer[k], NotHeard')
          BY <1>2, <2>5, NoneOf
    <3>2. \/ toServer'[k] = toServer[k]
          \/ \E f \in {answer, answer \o WindowList, WindowList} :
                 toServer'[k] = toServer[k] \o f
          BY <1>2, <2>3 DEF Send
    <3> QED BY <2>6, <3>1, <3>2, NoneConcat
  <2>8. \A m \in heard' : \E d \in Callers : m = <<d>>
        BY <1>2, <2>2
  <2> QED BY <1>1, <2>7, <2>8, RequestsMove DEF OneQueued
<1>4. CASE HandleVersion \/ FocusChanged
  <2>1. heard' = heard
        BY <1>4 DEF HandleVersion, FocusChanged, extVars
  <2>2. PICK frames \in Seq(Frames) : Send(sock, frames) /\ None(frames, Answers)
        BY <1>4, NoAnswerSent
  <2>3. ASSUME NEW k \in Conns
        PROVE  None(toServer'[k], NotHeard')
    <3>1. toServer[k] \in Seq(Frames) /\ None(toServer[k], NotHeard) /\ NotHeard' = NotHeard
          BY <1>2, <2>1 DEF NotHeard
    <3>2. toServer'[k] = toServer[k] \/ toServer'[k] = toServer[k] \o frames
          BY <1>2, <2>2 DEF Send
    <3>3. None(frames, NotHeard)
          BY <2>2, NoneOf DEF NotHeard
    <3> QED BY <2>2, <3>1, <3>2, <3>3, NoneConcat
  <2> QED BY <1>1, <1>2, <2>1, <2>3, RequestsMove DEF OneQueued
<1>5. ASSUME ~HandleRequest, ~HandleVersion, ~FocusChanged
      PROVE  /\ heard' = heard
             /\ toServer' = toServer \/ (clientFd # 0 /\ Received # <<>> /\ TakeFrame)
      BY <1>5
      DEF Next, CallerNext, CallerProgress, Start, Flock, OpenIn, ListWindows, WriteIn,
          CloseIn, OpenOut, ReadOut, Finish, Expire, Leave, ServerNext, Poll, Stop, Accept,
          AcceptFails, ReadVersionOk, PipeinFlush, PipeinClose, PipeinOpen, Pipein, Forward,
          EndOfRequest, SendFin, PipeoutOpen, PipeoutTimeout, WriteError, PipeoutClose, List,
          ReadAnswer, AnswerLost, ClientRead, ExtensionNext, ExtensionProgress, Connect,
          Disconnect, ConnectionClosed, Unrequested, extVars, netVars, vars,
          PromiseInv, InTimeInv, BridgeInv, ServerControl, NeedsClient
<1>6. CASE heard' = heard /\ toServer' = toServer
      BY <1>1, <1>2, <1>6, RequestsMove DEF OneQueued, NotHeard
<1>7. CASE heard' = heard /\ clientFd # 0 /\ Received # <<>> /\ TakeFrame
  <2>1. ASSUME NEW k \in Conns
        PROVE  None(toServer'[k], NotHeard')
    <3>1. toServer[k] \in Seq(Frames) /\ None(toServer[k], NotHeard) /\ NotHeard' = NotHeard
          BY <1>2, <1>7 DEF NotHeard
    <3>2. \/ toServer'[k] = toServer[k]
          \/ toServer[k] # <<>> /\ toServer'[k] = Tail(toServer[k])
          BY <1>2, <1>7 DEF Received, TakeFrame
    <3> QED BY <3>1, <3>2, NoneTail
  <2> QED BY <1>1, <1>2, <1>7, <2>1, RequestsMove DEF OneQueued
<1> QED BY <1>3, <1>4, <1>5, <1>6, <1>7

----------------------------------------------------------------------------
(* What the callers read.                                                  *)

\* The answer that the server passes on is that of the caller it serves.
LEMMA AnswerPassed ==
    ASSUME NoWindowList, PromiseInv, ReadAnswer, Letter(Head(Received)) = FirstChar(msg)
    PROVE  \E c \in Heard : Serves(c) /\ Head(Received) = AnswerTo(<<c>>)
<1> DEFINE f == Head(Received)
<1>1. /\ msg \in Seq(Callers) /\ clientFd \in Conns /\ Received \in Seq(Frames)
      /\ Received # <<>> /\ f \in Frames
  <2>1. clientFd \in Conns
        BY Types DEF PromiseInv, InTimeInv, BridgeInv, ServerControl, NeedsClient, ReadAnswer
  <2>2. Received \in Seq(Frames) /\ Received # <<>>
        BY <2>1, Types DEF PromiseInv, Received, ReadAnswer
  <2> QED BY <2>1, <2>2, Types, SequenceTypes DEF PromiseInv
<1>2. f \in Answers
      BY <1>1, FrameLetters, FirstChars, NeverC DEF Kinds
<1>3. Only(Received, Answers, AnswerTo(msg))
  <2>1. ~None(Received, Answers)
        BY <1>1, <1>2, NoneTail
  <2>2. clientFd # 0
        BY <1>1 DEF Conns
  <2> QED BY <2>1, <2>2 DEF PromiseInv, InTimeInv, BridgeInv, OneOutstanding, Received
<1>4. f = AnswerTo(msg)
  <2>1. AnswerTo(msg) \in Answers
        BY <1>1 DEF AnswerTo, Answers, Frames
  <2> QED BY <1>1, <1>2, <1>3, <2>1, OnlyTail
<1>5. PICK c \in Callers : Serves(c) /\ msg = <<c>>
  <2>1. PICK c \in Callers : Serves(c)
        BY DEF PromiseInv, InTimeInv, Served, Answering, ReadAnswer
  <2> QED BY <2>1 DEF Serves, Forwarding, Expecting, ReadAnswer
<1>6. c \in Heard
  <2>1. None(Received, NotHeard)
        BY <1>1 DEF PromiseInv, Promised, OneQueued, Received
  <2>2. f \notin NotHeard
        BY <1>1, <2>1, NoneTail
  <2> QED BY <1>2, <1>4, <1>5, <2>2 DEF NotHeard, AnswerTo, Heard
<1> QED BY <1>4, <1>5, <1>6

\* The server, in between, opens pipes for its callers and passes on one reply.
LEMMA ServerReplies ==
    ASSUME Slow = {}, NoWindowList, PromiseInv, ServerNext
    PROVE  /\ got' = got
           /\ \/ outBuf' \in {outBuf, <<>>}
              \/ /\ spc = "errWrite" /\ spc' = "outClose"
                 /\ outBuf' = Append(outBuf, Signal("error"))
              \/ /\ spc = "answer" /\ spc' = "outClose"
                 /\ \E c \in Heard : Serves(c) /\ outBuf' = Append(outBuf, AnswerTo(<<c>>))
           /\ \A c \in Callers :
                  \/ pc'[c] = pc[c]
                  \/ pc[c] = "inBlocked" /\ pc'[c] = "opened"
                  \/ /\ pc[c] = "outBlocked" /\ pc'[c] = "outRead"
                     /\ spc' = Opened(spc) /\ spc \in Opening
                     /\ outBuf' = outBuf
           /\ spc = "outOpen" => spc' = "answer" /\ \E c \in Callers : pc[c] = "outBlocked"
                                                    /\ pc'[c] = "outRead"
           /\ spc' = "errWrite" => spc = "errOpen"
           /\ (Answering /\ spc # "outClose")' =>
                  (Answering /\ spc # "outClose") \/ spc \in Opening
<1>0. pc \in [Callers -> CallerSteps]
      BY Types DEF PromiseInv
<1>1. got' = got
      BY DEF ServerNext, Poll, Stop, Accept, AcceptFails, ReadVersionOk, PipeinFlush,
         PipeinClose, PipeinOpen, Pipein, Forward, EndOfRequest, SendFin, PipeoutOpen,
         PipeoutTimeout, WriteError, PipeoutClose, List, ReadAnswer, AnswerLost, ClientRead,
         callerVars
<1>2. ~PipeoutTimeout
  <2>1. ASSUME PipeoutTimeout
        PROVE  FALSE
    <3>1. PICK c \in Callers : Serves(c)
          BY <2>1 DEF PipeoutTimeout, Opening, PromiseInv, InTimeInv, Served, Taking
    <3>2. pc[c] \in Locked
          BY <3>1 DEF Serves, Asked, Waiting, Locked, Writing, Reading
    <3> QED BY <2>1, <3>2, Alone DEF PipeoutTimeout, PromiseInv
  <2> QED BY <2>1
<1>3. CASE ReadAnswer
  <2>1. UNCHANGED pc /\ spc = "answer" /\ spc' # "errWrite"
        BY <1>3 DEF ReadAnswer, callerVars, Unrequested, ReplyC, Ok, Failed, Goto
  <2>2. \/ outBuf' = outBuf
        \/ /\ spc' = "outClose" /\ Letter(Head(Received)) = FirstChar(msg)
           /\ outBuf' = Append(outBuf, Head(Received))
        BY <1>3 DEF ReadAnswer, PipeoutWrite, Goto
  <2>3. \/ outBuf' = outBuf
        \/ /\ spc' = "outClose"
           /\ \E c \in Heard : Serves(c) /\ outBuf' = Append(outBuf, AnswerTo(<<c>>))
        BY <1>3, <2>2, AnswerPassed
  <2> QED BY <1>1, <2>1, <2>3 DEF Answering
<1>4. CASE PipeoutOpen
  <2>1. \E c \in Callers : pc[c] = "outBlocked"
    <3>1. PICK c \in Callers : pc[c] \in Reading
          BY <1>4 DEF PipeoutOpen, OutReaders
    <3>2. PICK d \in Callers : Serves(d)
          BY <1>4 DEF PipeoutOpen, Opening, PromiseInv, InTimeInv, Served, Taking
    <3>3. pc[d] \in Waiting
          BY <1>4, <3>2 DEF PipeoutOpen, Opening, Serves, Answering
    <3>4. c = d
          BY <3>1, <3>3, Alone DEF PromiseInv, Reading, Waiting, Locked
    <3> QED BY <3>1, <3>3, <3>4 DEF Reading, Waiting
  <2> QED BY <1>0, <1>1, <1>4, <2>1 DEF PipeoutOpen, Opening, Opened, Goto, Answering
<1>5. CASE WriteError
      BY <1>1, <1>5 DEF WriteError, PipeoutWrite, Goto, callerVars, Answering
<1>6. CASE PipeinOpen
  <2>1. then \in {"fin", "errOpen"}
        BY <1>6 DEF PipeinOpen, PromiseInv, InTimeInv, BridgeInv, ServerControl, InReopen
  <2> QED BY <1>0, <1>1, <1>6, <2>1 DEF PipeinOpen, Goto, Answering
<1>7. CASE PipeoutClose
  <2>1. spc' \notin {"errWrite", "answer", "list"}
    <3>1. ready \ {"in"} \in SUBSET Events /\ "hup" \notin ready \ {"in"}
          BY DEF PromiseInv, InTimeInv, InLoop, BridgeInv, BridgeTypeOK, ServerTypeOK
    <3> QED BY <1>7, <3>1, HandlerListens DEF PipeoutClose, Handled
  <2> QED BY <1>1, <1>7, <2>1 DEF PipeoutClose, Answering, callerVars
<1>8. ASSUME ServerNext, ~ReadAnswer, ~PipeoutOpen, ~WriteError, ~PipeinOpen, ~PipeoutClose,
             ~PipeoutTimeout
      PROVE  /\ UNCHANGED <<pc, outBuf>> /\ spc \notin {"outOpen", "errWrite"}
             /\ spc' # "errWrite"
             /\ (Answering /\ spc # "outClose")' => Answering /\ spc # "outClose"
  <2>1. CASE AtRest
    <3>1. UNCHANGED <<pc, outBuf>>
          BY <1>8 DEF ServerNext, Poll, Stop, Accept, AcceptFails, ReadVersionOk, PipeinFlush,
             PipeinClose, Pipein, Forward, EndOfRequest, SendFin, List, AnswerLost, ClientRead,
             callerVars, pipeVars
    <3>2. AtRest' \/ spc' = "pipein"
          BY <2>1, ServerRests DEF PromiseInv
    <3> QED BY <2>1, <3>1, <3>2 DEF AtRest, Listening, Answering
  <2>2. CASE Answering \/ spc \in Taking
    <3>1. spc \notin Listening /\ (spc = "list" => then = "answer") /\ spc # "stopping"
          BY <2>2 DEF Answering, Taking, Listening
    <3> QED BY <1>8, <3>1
        DEF ServerNext, Poll, Stop, Accept, AcceptFails, ReadVersionOk, PipeinFlush, PipeinClose,
            Pipein, Forward, EndOfRequest, SendFin, List, AnswerLost, ClientRead, callerVars,
            pipeVars, Listening, Answering, Goto, Reopen, ReplyC, Ok, Failed
  <2> QED BY <2>1, <2>2, Phases DEF PromiseInv
<1> QED BY <1>1, <1>2, <1>3, <1>4, <1>5, <1>6, <1>7, <1>8

\* What a caller does: nothing to the replies, the first read, or the last.
Reads(c) ==
    /\ pc[c] = "outRead" /\ outBuf # <<>> /\ got[c] = <<>>
    /\ pc' = pc /\ got' = [got EXCEPT ![c] = outBuf] /\ outBuf' = <<>>
Ends(c) ==
    /\ pc[c] = "outRead" /\ outBuf = <<>> /\ ~outWriter
    /\ pc' = [pc EXCEPT ![c] = "done"] /\ UNCHANGED <<got, outBuf>>
Proceeds(c) ==
    /\ pc[c] \notin {"outRead", "done"}
    /\ \E step \in Running \ {"outRead"} :
           /\ pc' = [pc EXCEPT ![c] = step]
           /\ pc[c] \in Waiting => step \in Waiting
    /\ UNCHANGED <<got, outBuf>>

LEMMA CallersRead ==
    ASSUME Slow = {}, PromiseInv, CallerNext
    PROVE  /\ UNCHANGED <<serverVars, extVars, netVars, outWriter>>
           /\ \/ UNCHANGED <<pc, got, outBuf>>
              \/ \E c \in Callers : Reads(c) \/ Ends(c) \/ Proceeds(c)
<1>0. pc \in [Callers -> CallerSteps] /\ got \in [Callers -> Seq(Replies)]
      BY Types DEF PromiseInv
<1>1. UNCHANGED <<serverVars, extVars, netVars, outWriter>>
      BY DEF CallerNext, CallerProgress, Start, Flock, OpenIn, ListWindows, WriteIn, CloseIn,
         OpenOut, ReadOut, Finish, Expire, Leave, pipeVars
<1>2. PICK c \in Callers : Start(c) \/ CallerProgress(c)
      BY DEF CallerNext, Expire
<1>3. CASE OpenOut(c)
  <2>1. ~outWriter
    <3>1. ASSUME outWriter
          PROVE  FALSE
      <4>1. Answering
            BY <3>1, Phases DEF PromiseInv, InTimeInv, Rested, Served, Serves
      <4>2. PICK d \in Callers : Serves(d)
            BY <4>1 DEF PromiseInv, InTimeInv, Served
      <4>3. pc[d] = "outRead"
            BY <4>1, <4>2 DEF Serves
      <4>4. pc[c] = "outOpen"
            BY <1>3 DEF OpenOut
      <4>5. d = c
            BY <4>3, <4>4, Alone DEF PromiseInv, Locked, Reading
      <4> QED BY <4>3, <4>4, <4>5
    <3> QED BY <3>1
  <2> QED BY <1>0, <1>1, <1>3, <2>1
      DEF OpenOut, Becomes, Proceeds, Waiting, pipeVars, Running, Locked, Reading
<1>4. CASE ReadOut(c)
  <2>1. outBuf \in {Own(c), Refusal} /\ got[c] = <<>>
        BY <1>4 DEF ReadOut, PromiseInv, Promised, OneReply
  <2>2. PICK r : outBuf = <<r>>
        BY <2>1 DEF Own, Refusal
  <2>3. Head(outBuf) = r /\ Tail(outBuf) = <<>> /\ Append(got[c], r) = outBuf
        BY <2>1, <2>2
  <2>4. Reads(c)
        BY <1>4, <2>1, <2>3 DEF ReadOut, Reads
  <2> QED BY <1>1, <2>4
<1>5. CASE Finish(c)
      BY <1>1, <1>5 DEF Finish, Becomes, Ends, pipeVars
<1>6. CASE Start(c) \/ Flock(c) \/ OpenIn(c) \/ WriteIn(c) \/ CloseIn(c)
  <2>1. /\ \E step \in Running \ {"outRead"} : pc' = [pc EXCEPT ![c] = step]
        /\ pc[c] \notin Waiting \cup {"outRead", "done"}
        /\ UNCHANGED <<got, outBuf>>
        BY <1>6 DEF Start, Flock, OpenIn, WriteIn, CloseIn, Becomes, pipeVars, Waiting,
           Running, Locked, Writing
  <2> QED BY <1>1, <2>1 DEF Proceeds
<1>7. CASE ListWindows(c) \/ Leave(c)
      BY <1>1, <1>7 DEF ListWindows, Leave, pipeVars
<1> QED BY <1>2, <1>3, <1>4, <1>5, <1>6, <1>7 DEF CallerProgress

LEMMA OthersLeaveReplies ==
    ASSUME ExtensionNext \/ UNCHANGED vars
    PROVE  UNCHANGED <<callerVars, pipeVars, serverVars>>
BY DEF ExtensionNext, ExtensionProgress, Connect, Disconnect, ConnectionClosed, HandleVersion,
   HandleRequest, FocusChanged, vars

\* A call that has ended stays so.
LEMMA DoneStays ==
    ASSUME Slow = {}, NoWindowList, PromiseInv, [Next]_vars, NEW d \in Callers, pc[d] = "done"
    PROVE  pc'[d] = "done"
<1>0. pc \in [Callers -> CallerSteps]
      BY Types DEF PromiseInv
<1>1. CASE CallerNext
      BY <1>0, <1>1, CallersRead DEF Reads, Ends, Proceeds
<1>2. CASE ServerNext
      BY <1>2, ServerReplies
<1>3. CASE ExtensionNext \/ UNCHANGED vars
      BY <1>3, OthersLeaveReplies DEF callerVars
<1> QED BY <1>1, <1>2, <1>3 DEF Next

LEMMA OneByOneKept ==
    ASSUME Slow = {}, NoWindowList, PromiseInv, [Next]_vars
    PROVE  OneByOne'
<1> SUFFICES ASSUME NEW c \in Callers, Queued(c)'
             PROVE  c \notin Heard' /\ \A d \in Heard' : pc'[d] = "done"
    BY DEF OneByOne
<1>1. Heard' = Heard
      BY RequestsCarried DEF Carries
<1>2. c \notin Heard /\ \A d \in Heard : pc[d] = "done"
  <2>1. CASE Queued(c)
        BY <2>1 DEF PromiseInv, Promised, OneByOne
  <2>2. CASE spc = "fin" /\ msg = <<c>>
    <3>1. PICK d \in Callers : msg = <<d>> /\ ~Sent(d) /\ \A e \in Heard : pc[e] = "done"
          BY <2>2, NotSentYet
    <3>2. d = c
          BY <2>2, <3>1
    <3> QED BY <3>1, <3>2 DEF Sent
  <2> QED BY <2>1, <2>2, RequestsMove DEF Forwards
<1>3. Heard \subseteq Callers
      BY DEF Heard
<1> QED BY <1>1, <1>2, <1>3, DoneStays

LEMMA NoRefusalKept ==
    ASSUME Slow = {}, NoWindowList, PromiseInv, [Next]_vars
    PROVE  NoRefusal'
<1> SUFFICES ASSUME NEW c \in Callers, Sent(c)'
             PROVE  /\ pc'[c] \in Waiting \cup {"outRead", "done"}
                    /\ pc'[c] \in Waiting => spc' = "outOpen"
                    /\ pc'[c] = "outRead" => spc' # "errWrite"
                    /\ ~Refused(c)'
    BY DEF NoRefusal
<1>0. /\ pc \in [Callers -> CallerSteps] /\ got \in [Callers -> Seq(Replies)]
      /\ OneReply /\ <<>> # Refusal /\ (\A d \in Callers : Own(d) # Refusal)
      /\ \A d \in Callers : pc[d] = "outRead" => pc[d] \in Locked
      /\ Waiting \subseteq Locked
      BY Types DEF PromiseInv, Promised, Own, Refusal, AnswerTo, Signal, Waiting, Locked, Reading
<1>1. Sent(c) \/ (spc = "fin" /\ spc' = "outOpen" /\ msg = <<c>>)
  <2>1. c \in Heard' \ Heard => Queued(c)
        BY RequestsCarried DEF Carries
  <2> QED BY <2>1, RequestsMove DEF Sent, Forwards
<1>2. Sent(c) => /\ pc[c] \in Waiting \cup {"outRead", "done"}
                 /\ pc[c] \in Waiting => spc = "outOpen"
                 /\ pc[c] = "outRead" => spc # "errWrite"
                 /\ ~Refused(c)
      BY DEF PromiseInv, Promised, NoRefusal
<1>3. CASE CallerNext
  <2>1. spc' = spc
        BY <1>3, CallersRead DEF serverVars
  <2>2. CASE UNCHANGED <<pc, got, outBuf>>
        BY <1>1, <1>2, <2>1, <2>2 DEF Refused
  <2>3. ASSUME NEW d \in Callers, Reads(d)
        PROVE  /\ pc' = pc /\ ~Refused(c)'
        BY <1>0, <1>1, <1>2, <2>1, <2>3 DEF Reads, Refused
  <2>4. ASSUME NEW d \in Callers, Ends(d)
        PROVE  /\ pc'[c] \in {pc[c], "done"} /\ ~Refused(c)'
        BY <1>0, <1>1, <1>2, <2>1, <2>4 DEF Ends, Refused
  <2>5. ASSUME NEW d \in Callers, Proceeds(d)
        PROVE  /\ pc'[c] = pc[c] \/ (pc[c] \in Waiting /\ pc'[c] \in Waiting)
               /\ ~Refused(c)'
        BY <1>0, <1>1, <1>2, <2>1, <2>5 DEF Proceeds, Refused
  <2> QED BY <1>1, <1>2, <1>3, <2>1, <2>2, <2>3, <2>4, <2>5, CallersRead DEF Waiting
<1>4. CASE ServerNext /\ ~Sent(c)
  <2>1. spc = "fin" /\ spc' = "outOpen" /\ msg = <<c>>
        BY <1>1, <1>4
  <2>2. PICK d \in Callers : msg = <<d>> /\ pc[d] \in Waiting
        BY <2>1, NotSentYet
  <2>3. pc[c] \in Waiting
        BY <2>1, <2>2
  <2>4. pc'[c] = pc[c] /\ got' = got
        BY <1>4, <2>1, <2>3, ServerReplies DEF Waiting, Opening
  <2>5. got[c] # Refusal
        BY <1>0, <2>3 DEF OneReply, Waiting
  <2> QED BY <2>1, <2>3, <2>4, <2>5 DEF Refused, Waiting
<1>5. CASE ServerNext /\ Sent(c)
  <2>1. pc'[c] = pc[c] \/ (pc[c] = "outBlocked" /\ pc'[c] = "outRead")
        BY <1>2, <1>5, ServerReplies DEF Waiting
  <2>2. ASSUME pc'[c] \in Waiting
        PROVE  FALSE
    <3>1. pc[c] \in Waiting /\ spc = "outOpen"
          BY <1>2, <1>5, <2>1, <2>2 DEF Waiting
    <3>2. PICK d \in Callers : pc[d] = "outBlocked" /\ pc'[d] = "outRead"
          BY <1>5, <3>1, ServerReplies
    <3>3. d = c
          BY <1>0, <3>1, <3>2, Alone DEF PromiseInv, Waiting
    <3> QED BY <2>2, <3>2, <3>3 DEF Waiting
  <2>3. ASSUME pc'[c] = "outRead", spc' = "errWrite"
        PROVE  FALSE
    <3>1. spc = "errOpen"
          BY <1>5, <2>3, ServerReplies
    <3>2. pc[c] = "outRead"
          BY <1>2, <1>5, <2>1, <2>3, <3>1 DEF Waiting
    <3>3. PICK d \in Callers : Serves(d)
          BY <3>1 DEF PromiseInv, InTimeInv, Served, Taking
    <3>4. pc[d] \in Waiting
          BY <3>1, <3>3 DEF Serves, Answering
    <3>5. d = c
          BY <1>0, <3>2, <3>4, Alone DEF PromiseInv
    <3> QED BY <3>2, <3>4, <3>5 DEF Waiting
  <2>4. ASSUME pc'[c] = "outRead", outBuf' = Refusal
        PROVE  FALSE
    <3>1. CASE pc[c] = "outBlocked"
      <4>1. outBuf = Refusal
            BY <1>5, <2>4, <3>1, ServerReplies
      <4>2. PICK d \in Callers : pc[d] = "outRead"
            BY <1>0, <4>1 DEF OneReply
      <4>3. d = c
            BY <1>0, <3>1, <4>2, Alone DEF PromiseInv, Waiting
      <4> QED BY <3>1, <4>2, <4>3
    <3>2. CASE pc[c] = "outRead"
      <4>1. outBuf # Refusal /\ spc # "errWrite"
            BY <1>2, <1>5, <3>2 DEF Refused
      <4>2. PICK d \in Heard : spc = "answer" /\ Serves(d) /\ outBuf' = Append(outBuf, AnswerTo(<<d>>))
            BY <1>0, <1>5, <2>4, <4>1, ServerReplies
      <4>3. outBuf = <<>>
            BY <1>0, <3>2, <4>2 DEF OneReply, Answering
      <4>4. outBuf' = Own(d) /\ d \in Callers
            BY <4>2, <4>3 DEF Own, Heard
      <4> QED BY <1>0, <2>4, <4>4
    <3> QED BY <2>1, <2>4, <3>1, <3>2
  <2>5. got' = got
        BY <1>5, ServerReplies
  <2> QED BY <1>2, <1>5, <2>1, <2>2, <2>3, <2>4, <2>5 DEF Refused
<1>6. CASE ExtensionNext \/ UNCHANGED vars
      BY <1>1, <1>2, <1>6, OthersLeaveReplies DEF Refused, callerVars, pipeVars, serverVars
<1> QED BY <1>3, <1>4, <1>5, <1>6 DEF Next

LEMMA OneReplyKept ==
    ASSUME Slow = {}, NoWindowList, PromiseInv, [Next]_vars
    PROVE  OneReply'
<1>0. /\ pc \in [Callers -> CallerSteps] /\ got \in [Callers -> Seq(Replies)]
      /\ OneReply /\ Refusal # <<>> /\ (\A c \in Callers : Own(c) # Refusal /\ Own(c) # <<>>)
      /\ Heard \subseteq Heard' /\ Heard \subseteq Callers
      /\ \A c \in Callers : pc[c] \in Waiting \cup {"outRead"} => pc[c] \in Locked
      BY Types, RequestsCarried
      DEF PromiseInv, Promised, Carries, Own, Refusal, AnswerTo, Signal, Heard, Waiting, Locked,
          Reading
<1>1. CASE CallerNext
  <2>1. /\ Heard' = Heard
        /\ (Answering /\ spc # "outClose")' = (Answering /\ spc # "outClose")
        BY <1>1, CallersRead DEF serverVars, extVars, Heard, Answering
  <2>2. CASE UNCHANGED <<pc, got, outBuf>>
        BY <1>0, <2>1, <2>2 DEF OneReply
  <2>3. ASSUME NEW c \in Callers, Reads(c)
        PROVE  OneReply'
        BY <1>0, <2>1, <2>3 DEF OneReply, Reads
  <2>4. ASSUME NEW c \in Callers, Ends(c)
        PROVE  OneReply'
        BY <1>0, <2>1, <2>4 DEF OneReply, Ends
  <2>5. ASSUME NEW c \in Callers, Proceeds(c)
        PROVE  OneReply'
        BY <1>0, <2>1, <2>5 DEF OneReply, Proceeds
  <2> QED BY <1>1, <2>2, <2>3, <2>4, <2>5, CallersRead
<1>2. CASE ServerNext
  <2>1. got' = got /\ \A c \in Callers :
            pc'[c] \in {"outRead", "done"} <=>
                \/ pc[c] \in {"outRead", "done"}
                \/ pc[c] = "outBlocked" /\ pc'[c] = "outRead" /\ spc \in Opening /\ outBuf' = outBuf
        BY <1>2, ServerReplies
  <2>2. \/ outBuf' \in {outBuf, <<>>}
        \/ /\ spc \in {"errWrite", "answer"} /\ spc' = "outClose"
           /\ \E c \in Callers : /\ pc[c] = "outRead" /\ got[c] = <<>>
                                 /\ outBuf' = Refusal \/ (outBuf' = Own(c) /\ c \in Heard)
    <3>1. CASE spc = "errWrite" /\ spc' = "outClose" /\ outBuf' = Append(outBuf, Signal("error"))
      <4>1. PICK c \in Callers : Serves(c)
            BY <3>1 DEF PromiseInv, InTimeInv, Served, Answering
      <4>2. pc[c] = "outRead"
            BY <3>1, <4>1 DEF Serves, Answering
      <4>3. outBuf = <<>> /\ got[c] = <<>>
            BY <1>0, <3>1, <4>2 DEF OneReply, Answering
      <4> QED BY <3>1, <4>2, <4>3 DEF Refusal
    <3>2. CASE /\ spc = "answer" /\ spc' = "outClose"
               /\ \E c \in Heard : Serves(c) /\ outBuf' = Append(outBuf, AnswerTo(<<c>>))
      <4>1. PICK c \in Heard : Serves(c) /\ outBuf' = Append(outBuf, AnswerTo(<<c>>))
            BY <3>2
      <4>2. c \in Callers /\ pc[c] = "outRead"
            BY <1>0, <3>2, <4>1 DEF Serves, Answering
      <4>3. outBuf = <<>> /\ got[c] = <<>>
            BY <1>0, <3>2, <4>2 DEF OneReply, Answering
      <4> QED BY <3>2, <4>1, <4>2, <4>3 DEF Own
    <3> QED BY <1>2, <3>1, <3>2, ServerReplies
  <2>3. ASSUME NEW c \in Callers
        PROVE  /\ got'[c] \in {<<>>, Own(c), Refusal}
               /\ got'[c] = Own(c) => c \in Heard'
               /\ pc'[c] \notin {"outRead", "done"} => got'[c] = <<>>
        BY <1>0, <2>1 DEF OneReply
  <2>4. ASSUME NEW c \in Callers, pc'[c] = "outRead"
        PROVE  /\ outBuf' \in {<<>>, Own(c), Refusal}
               /\ outBuf' = Own(c) => c \in Heard'
               /\ (Answering /\ spc # "outClose")' => outBuf' = <<>> /\ got'[c] = <<>>
               /\ got'[c] = <<>> \/ outBuf' = <<>>
    <3>1. CASE pc[c] = "outBlocked" /\ outBuf' = outBuf
      <4>1. outBuf = <<>>
        <5>1. ASSUME NEW d \in Callers, pc[d] = "outRead"
              PROVE  FALSE
          <6>1. pc[c] \in Locked /\ pc[d] \in Locked
                BY <1>0, <3>1, <5>1 DEF Waiting
          <6> QED BY <3>1, <5>1, <6>1, Alone DEF PromiseInv
        <5> QED BY <1>0, <5>1 DEF OneReply
      <4> QED BY <1>0, <2>1, <3>1, <4>1 DEF OneReply
    <3>2. CASE pc[c] = "outRead"
      <4>1. spc \notin Opening
        <5>1. ASSUME spc \in Opening
              PROVE  FALSE
          <6>1. PICK d \in Callers : Serves(d)
                BY <5>1 DEF PromiseInv, InTimeInv, Served, Taking, Opening
          <6>2. pc[d] \in Waiting
                BY <5>1, <6>1 DEF Serves, Answering, Opening
          <6>3. d = c
                BY <1>0, <3>2, <6>2, Alone DEF PromiseInv
          <6> QED BY <3>2, <6>2, <6>3 DEF Waiting
        <5> QED BY <5>1
      <4>2. (Answering /\ spc # "outClose")' => Answering /\ spc # "outClose"
            BY <1>2, <4>1, ServerReplies
      <4>3. CASE outBuf' \in {outBuf, <<>>}
            BY <1>0, <2>1, <3>2, <4>2, <4>3 DEF OneReply
      <4>4. ASSUME NEW d \in Callers, spc' = "outClose", pc[d] = "outRead", got[d] = <<>>,
                   outBuf' = Refusal \/ (outBuf' = Own(d) /\ d \in Heard)
            PROVE  /\ outBuf' \in {Own(c), Refusal} /\ got'[c] = <<>>
                   /\ outBuf' = Own(c) => c \in Heard'
        <5>1. d = c
              BY <1>0, <3>2, <4>4, Alone DEF PromiseInv
        <5> QED BY <1>0, <2>1, <4>4, <5>1
      <4> QED BY <2>2, <4>3, <4>4
    <3> QED BY <2>1, <2>4, <3>1, <3>2, DoneStays
  <2>5. outBuf' # <<>> => \E c \in Callers : pc'[c] = "outRead"
    <3>1. \A c \in Callers : pc[c] = "outRead" => pc'[c] = "outRead"
          BY <1>2, ServerReplies
    <3> QED BY <1>0, <2>2, <3>1 DEF OneReply
  <2> QED BY <2>3, <2>4, <2>5 DEF OneReply
<1>3. CASE ExtensionNext \/ UNCHANGED vars
  <2>1. UNCHANGED <<pc, got, outBuf, spc, then>> /\ Answering' = Answering
        BY <1>3, OthersLeaveReplies DEF callerVars, pipeVars, serverVars, Answering
  <2> QED BY <1>0, <2>1 DEF OneReply
<1> QED BY <1>1, <1>2, <1>3 DEF Next

----------------------------------------------------------------------------
(* The promise.                                                            *)

LEMMA PromiseInit ==
    ASSUME BridgeInit
    PROVE  PromiseInv
<1>1. NotHeard = Answers /\ \A k \in Conns : toServer[k] = <<>>
      BY DEF BridgeInit, NotHeard, Answers
<1>2. OneQueued
      BY <1>1 DEF BridgeInit, OneQueued, None
<1>3. \A c \in Callers : ~Sent(c)
      BY DEF BridgeInit, Sent, Heard, Queued
<1>4. OneByOne /\ NoRefusal
      BY <1>3 DEF OneByOne, NoRefusal, Sent
<1>5. OneReply
      BY DEF BridgeInit, OneReply, Own
<1> QED BY <1>2, <1>4, <1>5, InTimeInit DEF PromiseInv, Promised

LEMMA PromiseStep ==
    ASSUME Slow = {}, NoWindowList, PromiseInv, [Next]_vars
    PROVE  PromiseInv'
BY InTimeStep, OneQueuedKept, OneByOneKept, NoRefusalKept, OneReplyKept DEF PromiseInv, Promised

\* Every step is a step of the promise or none.
LEMMA PromiseKept ==
    ASSUME Slow = {}, NoWindowList, PromiseInv, [Next]_vars
    PROVE  [Promise!Next]_(Promise!vars)
<1> DEFINE call == [c \in Callers |-> CallOf(c)]
           reply == [c \in Callers |-> ReplyOf(c)]
           carried == {c \in Callers : \E body \in heard : \E i \in DOMAIN body : body[i] = c}
<1>0. /\ pc \in [Callers -> CallerSteps] /\ got \in [Callers -> Seq(Replies)]
      /\ OneReply /\ Refusal # <<>> /\ (\A c \in Callers : Own(c) # Refusal /\ Own(c) # <<>>)
      BY Types DEF PromiseInv, Promised, Own, Refusal, AnswerTo, Signal
<1>1. carried = Heard /\ carried' = Heard'
  <2>1. ASSUME OneQueued
        PROVE  carried = Heard
        BY <2>1 DEF OneQueued, Heard
  <2>2. ASSUME OneQueued'
        PROVE  carried' = Heard'
        BY <2>2 DEF OneQueued, Heard
  <2> QED BY <2>1, <2>2, OneQueuedKept DEF PromiseInv, Promised
<1> DEFINE replyTo(c, read) == IF read = <<>> THEN "none"
                               ELSE IF read = Own(c) THEN "own"
                               ELSE IF read = Refusal THEN "error" ELSE "garbled"
<1>2. ASSUME NEW c \in Callers
      PROVE  ReplyOf(c) = replyTo(c, got[c]) /\ ReplyOf(c)' = replyTo(c, got'[c])
  <2>1. /\ Own(c) = <<[tag |-> "ans", body |-> <<c>>]>> /\ Refusal = <<Signal("error")>>
        /\ Own(c) # <<>> /\ Refusal # <<>> /\ Own(c) # Refusal
        BY <1>0 DEF Own, Refusal, AnswerTo
  <2>2. ReplyOf(c) = CASE got[c] = <<>> -> "none" [] got[c] = Own(c) -> "own"
                       [] got[c] = Refusal -> "error" [] OTHER -> "garbled"
        BY <2>1, Zenon DEF ReplyOf
  <2>3. ReplyOf(c)' = CASE got'[c] = <<>> -> "none" [] got'[c] = Own(c) -> "own"
                        [] got'[c] = Refusal -> "error" [] OTHER -> "garbled"
        BY <2>1, Zenon DEF ReplyOf
  <2> QED BY <2>1, <2>2, <2>3
<1>3. /\ \A c \in Callers : CallOf(c) = IF pc[c] = "idle" THEN "none"
                                         ELSE IF pc[c] = "done" THEN "ended" ELSE "asking"
      /\ \A c \in Callers : CallOf(c)' = IF pc'[c] = "idle" THEN "none"
                                          ELSE IF pc'[c] = "done" THEN "ended" ELSE "asking"
      BY DEF CallOf
<1>4. CASE UNCHANGED <<call, reply, carried>>
      BY <1>4 DEF Promise!vars
<1>5. CASE HandleRequest
  <2>1. PICK c \in Callers : Queued(c) /\ Head(toExt[sock]) = RequestOf(<<c>>)
        BY <1>5, HandledRequest
  <2>2. UNCHANGED <<call, reply>>
        BY <1>5 DEF HandleRequest, callerVars, CallOf, ReplyOf
  <2>3. heard' = heard \cup {<<c>>}
        BY <1>5, <2>1 DEF HandleRequest, RequestOf
  <2>4. Heard' = Heard \cup {c}
        BY <2>3 DEF Heard
  <2>5. c \notin Heard /\ \A d \in Heard : pc[d] = "done"
        BY <2>1 DEF PromiseInv, Promised, OneByOne
  <2>6. pc[c] # "idle" /\ got[c] = <<>>
        BY <1>0, <2>1, <2>5 DEF PromiseInv, Promised, NoRefusal, OneReply, Sent, Waiting, Refused
  <2>7. call[c] # "none" /\ reply[c] = "none" /\ \A d \in Heard : call[d] = "ended"
    <3>1. Heard \subseteq Callers
          BY DEF Heard
    <3> QED BY <1>2, <1>3, <2>5, <2>6, <3>1
  <2>8. Promise!Hear(c)
        BY <1>1, <2>2, <2>4, <2>5, <2>7 DEF Promise!Hear
  <2> QED BY <2>8 DEF Promise!Next
<1>6. ASSUME ~HandleRequest
      PROVE  carried' = carried
      BY <1>6
      DEF Next, CallerNext, CallerProgress, Start, Flock, OpenIn, ListWindows, WriteIn,
          CloseIn, OpenOut, ReadOut, Finish, Expire, Leave, ServerNext, Poll, Stop, Accept,
          AcceptFails, ReadVersionOk, PipeinFlush, PipeinClose, PipeinOpen, Pipein, Forward,
          EndOfRequest, SendFin, PipeoutOpen, PipeoutTimeout, WriteError, PipeoutClose, List,
          ReadAnswer, AnswerLost, ClientRead, ExtensionNext, ExtensionProgress, Connect,
          Disconnect, ConnectionClosed, HandleVersion, FocusChanged, extVars, vars
<1>7. CASE (ExtensionNext \/ UNCHANGED vars) /\ ~HandleRequest
  <2>1. UNCHANGED <<pc, got>>
        BY <1>7, OthersLeaveReplies DEF callerVars
  <2> QED BY <1>4, <1>6, <1>7, <2>1 DEF CallOf, ReplyOf
<1>8. CASE ServerNext /\ ~HandleRequest
  <2>1. got' = got /\ \A c \in Callers : pc'[c] = pc[c] \/ {pc[c], pc'[c]} \cap {"idle", "done"} = {}
        BY <1>8, ServerReplies
  <2>2. \A c \in Callers : CallOf(c)' = CallOf(c) /\ ReplyOf(c)' = ReplyOf(c)
        BY <1>3, <2>1 DEF ReplyOf
  <2> QED BY <1>4, <1>6, <1>8, <2>2
<1>9. CASE CallerNext /\ ~HandleRequest
  <2>1. CASE UNCHANGED <<pc, got, outBuf>>
        BY <1>4, <1>6, <1>9, <2>1 DEF CallOf, ReplyOf
  <2>2. ASSUME NEW c \in Callers, Reads(c)
        PROVE  [Promise!Next]_(Promise!vars)
    <3>1. /\ outBuf \in {Own(c), Refusal}
          /\ outBuf = Own(c) => c \in Heard
          /\ outBuf = Refusal => c \notin Heard
          BY <1>0, <2>2 DEF Reads, OneReply, PromiseInv, Promised, NoRefusal, Sent, Refused
    <3>2. call' = call /\ call[c] = "asking"
          BY <1>3, <2>2 DEF Reads
    <3>3. reply[c] = "none"
          BY <1>2, <2>2 DEF Reads
    <3>4. reply' = [reply EXCEPT ![c] = IF outBuf = Own(c) THEN "own" ELSE "error"]
          BY <1>0, <1>2, <2>2, <3>1 DEF Reads
    <3>5. CASE outBuf = Own(c)
      <4>1. Promise!Answer(c)
            BY <1>1, <1>6, <1>9, <3>1, <3>2, <3>3, <3>4, <3>5 DEF Promise!Answer
      <4> QED BY <4>1 DEF Promise!Next
    <3>6. CASE outBuf = Refusal
      <4>1. Promise!Refuse(c)
            BY <1>0, <1>1, <1>6, <1>9, <3>1, <3>2, <3>3, <3>4, <3>6 DEF Promise!Refuse
      <4> QED BY <4>1 DEF Promise!Next
    <3> QED BY <3>1, <3>5, <3>6
  <2>3. ASSUME NEW c \in Callers, Ends(c)
        PROVE  [Promise!Next]_(Promise!vars)
    <3>1. /\ call[c] = "asking" /\ call' = [call EXCEPT ![c] = "ended"]
          /\ reply' = reply
          BY <1>0, <1>2, <1>3, <2>3 DEF Ends
    <3>2. Promise!End(c)
          BY <1>6, <1>9, <3>1 DEF Promise!End
    <3> QED BY <3>2 DEF Promise!Next
  <2>4. ASSUME NEW c \in Callers, Proceeds(c)
        PROVE  [Promise!Next]_(Promise!vars)
    <3>1. reply' = reply
          BY <1>2, <2>4 DEF Proceeds
    <3>2. /\ call' = [call EXCEPT ![c] = "asking"]
          /\ call[c] = "none" \/ call[c] = "asking"
          BY <1>0, <1>3, <2>4 DEF Proceeds, Running, Locked, Writing, Reading
    <3>3. CASE call[c] = "none"
      <4>1. Promise!Ask(c)
            BY <1>6, <1>9, <3>1, <3>2, <3>3 DEF Promise!Ask
      <4> QED BY <4>1 DEF Promise!Next
    <3>4. CASE call[c] = "asking"
      <4>1. call' = call
            BY <3>2, <3>4
      <4> QED BY <1>4, <1>6, <1>9, <3>1, <4>1
    <3> QED BY <3>2, <3>3, <3>4
  <2> QED BY <1>9, <2>1, <2>2, <2>3, <2>4, CallersRead
<1> QED BY <1>5, <1>7, <1>8, <1>9 DEF Next

\* When no call runs out of time and nobody sends the window list, one request at
\* most waits for the extension and nobody reads an error for a request that was
\* sent (functions:228-241, websocket.c:151-271).
THEOREM BridgePromiseInvariant ==
    ASSUME Slow = {}, NoWindowList
    PROVE  Spec => []PromiseInv
<1>1. BridgeInit => PromiseInv
      BY PromiseInit
<1>2. PromiseInv /\ [Next]_vars => PromiseInv'
      BY PromiseStep
<1> QED BY <1>1, <1>2, PTL DEF Spec

\* The bridge then implements RequestReply: a caller reads the response to its own
\* command, once carried out, and an error only for a command that never is;
\* commands are carried out one by one and at most once.
THEOREM BridgeKeepsPromise ==
    ASSUME Slow = {}, NoWindowList
    PROVE  Spec => KeepsPromise
<1>1. BridgeInit => Promise!Init
      BY DEF BridgeInit, Promise!Init, CallOf, ReplyOf
<1>2. PromiseInv /\ [Next]_vars => [Promise!Next]_(Promise!vars)
      BY PromiseKept
<1> QED BY <1>1, <1>2, BridgePromiseInvariant, PTL DEF Spec, KeepsPromise, Promise!Spec

\* What a caller reads is then the response to its own command or an error, once:
\* what bridge_misdelivered refutes for calls that run out of time (functions:228).
THEOREM BridgeOwnReply ==
    ASSUME Slow = {}, NoWindowList
    PROVE  Spec => []OwnReply
<1>1. PromiseInv => OwnReply
  <2> SUFFICES ASSUME PromiseInv, NEW c \in Callers, NEW i \in DOMAIN got[c]
               PROVE  got[c][i] \in {AnswerTo(<<c>>), Signal("error")}
      BY DEF OwnReply, AnswerTo, Signal
  <2>1. got[c] \in {<<>>, Own(c), Refusal}
        BY DEF PromiseInv, Promised, OneReply
  <2> QED BY <2>1 DEF Own, Refusal
<1> QED BY <1>1, BridgePromiseInvariant, PTL
=============================================================================
