---------------------------- MODULE BridgeProofs ----------------------------
(***************************************************************************)
(* Theorems about the bridge, for any callers, kinds of requests, calls    *)
(* that run out of time and numbers of connections.                        *)
(***************************************************************************)
EXTENDS Bridge, TLAPS

\* The connections are numbered in the order in which they are opened; what is
\* not accepted yet has carried nothing, and only an accepted one is active.
ConnectionsInOrder ==
    /\ accepted <= conn
    /\ clientFd <= accepted
    /\ sock <= conn
    /\ active => sock # 0 /\ sock <= accepted
    /\ \A k \in Conns : accepted < k => toServer[k] = <<>> /\ toExt[k] = <<>>

\* What the server knows at each of its steps.
NeedsClient == {"vok", "read", "fin", "outOpen", "answer", "list"}
InReopen == {"flush", "close", "reopen"}
ServerControl ==
    /\ spc \in NeedsClient => clientFd # 0
    /\ spc \in InReopen => then \in {"fin", "errOpen"}
    /\ spc \in InReopen /\ then = "fin" => clientFd # 0
    /\ spc = "list" => then \in {"answer", "client"}
    /\ spc = "accept" => accepted < conn
    /\ "server" \in ready => spc \in {"accept", "vok"}

\* The server is looking for the answer to msg.
Expecting == spc \in {"outOpen", "answer"} \/ (spc = "list" /\ then = "answer")

Answers == {f \in Frames : f.tag = "ans"}
AnswerTo(body) == [tag |-> "ans", body |-> body]

\* The messages that the extension will answer.
Requests == {m \in Messages : m.tag = "req" /\ FirstChar(m.body) # "C"}
RequestOf(body) == [tag |-> "req", body |-> body]

\* A sequence with no element of A; with x as its only element of A.
None(s, A) == \A i \in DOMAIN s : s[i] \notin A
Only(s, A, x) ==
    \E i \in DOMAIN s : s[i] = x /\ \A j \in DOMAIN s : s[j] \in A => j = i

\* On the connection of client_fd there is no request to answer and no answer
\* to read, except for the one that the server is looking for, which is one or
\* the other.
OneOutstanding ==
    LET frames == toServer[clientFd]
        messages == toExt[clientFd]
    IN  clientFd # 0 =>
            \/ None(frames, Answers) /\ None(messages, Requests)
            \/ /\ Expecting
               /\ FirstChar(msg) # "C"
               /\ \/ /\ Only(frames, Answers, AnswerTo(msg))
                     /\ None(messages, Requests)
                  \/ /\ None(frames, Answers)
                     /\ Only(messages, Requests, RequestOf(msg))

\* The inductive invariant of the bridge: on the server's connection there is at
\* most one request or answer, that of the message being forwarded
\* (websocket.c:151-271).
BridgeInv ==
    /\ BridgeTypeOK
    /\ OneCallAtATime
    /\ ConnectionsInOrder
    /\ ServerControl
    /\ OneOutstanding

----------------------------------------------------------------------------
(* Types                                                                   *)

LEMMA SequenceTypes ==
    ASSUME NEW S
    PROVE  /\ <<>> \in Seq(S)
           /\ \A s \in Seq(S), e \in S : Append(s, e) \in Seq(S)
           /\ \A s \in Seq(S) : s # <<>> => Head(s) \in S /\ Tail(s) \in Seq(S)
           /\ \A s, t \in Seq(S) : s \o t \in Seq(S)
OBVIOUS

LEMMA SignalTypes ==
    /\ \A tag \in {"VOK", "Cs", "Cl"} : Signal(tag) \in Frames
    /\ Signal("V") \in Messages
    /\ Signal("error") \in Replies
    /\ Frames \subseteq Replies
    /\ WindowList \in Seq(Frames)
BY DEF Signal, Frames, Messages, Replies, WindowList

LEMMA HandlerTypes ==
    ASSUME NEW events \in SUBSET Events
    PROVE  /\ "server" \in events => Handler(events) = "accept"
           /\ "server" \notin events =>
                  Handler(events) \in {"pipein", "client", "stopping", "poll"}
<1>1. \/ "server" \in events
      \/ "server" \notin events /\ "in" \in events
      \/ events \cap {"server", "in"} = {} /\ "client" \in events
      \/ events = {"hup"}
      \/ events = {}
      BY DEF Events
<1> QED BY <1>1 DEF Handler

LEMMA FirstChars ==
    ASSUME NEW m \in Seq(Callers)
    PROVE  FirstChar(m) \in {""} \cup Kinds
<1>1. m # <<>> => Head(m) \in Callers
      BY SequenceTypes
<1> QED BY <1>1, BridgeAssumption DEF FirstChar

LEMMA FrameLetters ==
    ASSUME NEW f \in Frames
    PROVE  /\ f \in Answers => Letter(f) = FirstChar(f.body)
           /\ f \notin Answers => Letter(f) \in {"V", "C"}
           /\ f.tag \notin {"Cs", "Cl"} /\ f \notin Answers => Letter(f) = "V"
<1>1. f.tag \in {"VOK", "ans", "Cs", "Cl"} /\ (f \in Answers <=> f.tag = "ans")
      BY DEF Frames, Answers
<1>2. CASE f.tag = "VOK"
      BY <1>1, <1>2 DEF Letter
<1>3. CASE f.tag = "ans"
      BY <1>1, <1>3 DEF Letter
<1>4. CASE f.tag \in {"Cs", "Cl"}
      BY <1>1, <1>4 DEF Letter
<1> QED BY <1>1, <1>2, <1>3, <1>4

\* Types are kept by the callers.
LEMMA CallerTypes ==
    ASSUME BridgeTypeOK, CallerNext
    PROVE  BridgeTypeOK'
<1>0. /\ pc \in [Callers -> CallerSteps] /\ got \in [Callers -> Seq(Replies)]
      /\ inBuf \in Seq(Callers) /\ outBuf \in Seq(Replies)
      BY DEF BridgeTypeOK, CallerTypeOK, PipeTypeOK
<1>1. ServerTypeOK' /\ ExtensionTypeOK' /\ NetTypeOK'
      BY DEF CallerNext, CallerProgress, Start, Flock, OpenIn, ListWindows, WriteIn,
             CloseIn, OpenOut, ReadOut, Finish, Expire, Leave, serverVars, extVars,
             netVars, BridgeTypeOK, ServerTypeOK, ExtensionTypeOK, NetTypeOK
<1>2. inBuf' \in Seq(Callers)
  <2>1. \/ inBuf' \in {inBuf, <<>>}
        \/ \E c \in Callers : inBuf' = Append(inBuf, c)
        BY DEF CallerNext, CallerProgress, Start, Flock, OpenIn, ListWindows, WriteIn,
               CloseIn, OpenOut, ReadOut, Finish, Expire, Leave,
               pipeVars, DropIn
  <2> QED BY <1>0, <2>1, SequenceTypes
<1>3. outBuf' \in Seq(Replies)
  <2>1. \/ outBuf' \in {outBuf, <<>>}
        \/ outBuf # <<>> /\ outBuf' = Tail(outBuf)
        BY DEF CallerNext, CallerProgress, Start, Flock, OpenIn, ListWindows, WriteIn,
               CloseIn, OpenOut, ReadOut, Finish, Expire, Leave,
               pipeVars, DropOut
  <2> QED BY <1>0, <2>1, SequenceTypes
<1>4. got' \in [Callers -> Seq(Replies)]
  <2>1. \/ got' = got
        \/ /\ outBuf # <<>>
           /\ \E c \in Callers :
                  got' = [got EXCEPT ![c] = Append(got[c], Head(outBuf))]
        BY DEF CallerNext, CallerProgress, Start, Flock, OpenIn, ListWindows, WriteIn,
               CloseIn, OpenOut, ReadOut, Finish, Expire, Leave
  <2>2. ASSUME NEW c \in Callers, outBuf # <<>>
        PROVE  [got EXCEPT ![c] = Append(got[c], Head(outBuf))] \in [Callers -> Seq(Replies)]
    <3>1. Append(got[c], Head(outBuf)) \in Seq(Replies)
          BY <1>0, <2>2, SequenceTypes
    <3> QED BY <1>0, <3>1
  <2> QED BY <1>0, <2>1, <2>2
<1>5. pc' \in [Callers -> CallerSteps]
      BY <1>0 DEF CallerNext, CallerProgress, Start, Flock, OpenIn, ListWindows, WriteIn,
             CloseIn, OpenOut, ReadOut, Finish, Expire, Leave, Becomes,
             CallerSteps, Running, Locked, Writing, Reading
<1>6. /\ lock' \subseteq Callers /\ cycleLock' \subseteq Callers
      /\ listed' \subseteq Callers
      BY DEF CallerNext, CallerProgress, Start, Flock, OpenIn, ListWindows, WriteIn,
             CloseIn, OpenOut, ReadOut, Finish, Expire, Leave, BridgeTypeOK, CallerTypeOK
<1>7. inReader' \in BOOLEAN /\ inSeen' \in BOOLEAN /\ outWriter' \in BOOLEAN
      BY DEF CallerNext, CallerProgress, Start, Flock, OpenIn, ListWindows, WriteIn,
             CloseIn, OpenOut, ReadOut, Finish, Expire, Leave, pipeVars,
             BridgeTypeOK, PipeTypeOK
<1> QED BY <1>1, <1>2, <1>3, <1>4, <1>5, <1>6, <1>7 DEF BridgeTypeOK, CallerTypeOK, PipeTypeOK

\* ... and by the extension.
LEMMA ExtensionTypes ==
    ASSUME BridgeTypeOK, ExtensionNext
    PROVE  BridgeTypeOK'
<1>0. /\ conn \in 0..MaxConn /\ sock \in 0..MaxConn /\ heard \subseteq Seq(Callers)
      /\ toServer \in [Conns -> Seq(Frames)] /\ toExt \in [Conns -> Seq(Messages)]
      BY DEF BridgeTypeOK, ExtensionTypeOK, NetTypeOK
<1>1. CallerTypeOK' /\ PipeTypeOK' /\ ServerTypeOK'
      BY DEF ExtensionNext, ExtensionProgress, Connect, Disconnect, ConnectionClosed,
             HandleVersion, HandleRequest, FocusChanged, callerVars, pipeVars,
             serverVars, BridgeTypeOK, CallerTypeOK, PipeTypeOK, ServerTypeOK
<1>2. conn' \in 0..MaxConn /\ sock' \in 0..MaxConn
      BY <1>0, BridgeAssumption DEF ExtensionNext, ExtensionProgress, Connect,
             Disconnect, ConnectionClosed, HandleVersion, HandleRequest,
             FocusChanged, extVars
<1>3. active' \in BOOLEAN
      BY DEF ExtensionNext, ExtensionProgress, Connect, Disconnect, ConnectionClosed,
             HandleVersion, HandleRequest, FocusChanged, extVars, BridgeTypeOK,
             ExtensionTypeOK
<1>4. ASSUME sock \in Conns, toExt[sock] # <<>>
      PROVE  /\ Head(toExt[sock]) \in Messages
             /\ Head(toExt[sock]).body \in Seq(Callers)
             /\ Tail(toExt[sock]) \in Seq(Messages)
  <2>1. Head(toExt[sock]) \in Messages /\ Tail(toExt[sock]) \in Seq(Messages)
        BY <1>0, <1>4, SequenceTypes
  <2> QED BY <2>1 DEF Messages
<1>5. sock # 0 => sock \in Conns
      BY <1>0, BridgeAssumption DEF Conns
<1>6. heard' \subseteq Seq(Callers)
      BY <1>0, <1>4, <1>5 DEF ExtensionNext, ExtensionProgress, Connect, Disconnect,
             ConnectionClosed, HandleVersion, HandleRequest, FocusChanged, extVars
<1>7. toExt' \in [Conns -> Seq(Messages)]
      BY <1>0, <1>4, <1>5 DEF ExtensionNext, ExtensionProgress, Connect, Disconnect,
             ConnectionClosed, HandleVersion, HandleRequest, FocusChanged, netVars, Receive
<1>8. ASSUME NEW frames \in Seq(Frames), NEW k, Send(k, frames)
      PROVE  toServer' \in [Conns -> Seq(Frames)]
  <2>1. k \in Conns => toServer[k] \o frames \in Seq(Frames)
        BY <1>0, SequenceTypes
  <2> QED BY <1>0, <1>8, <2>1 DEF Send
<1>9. toServer' \in [Conns -> Seq(Frames)]
  <2>1. CASE Connect \/ Disconnect \/ ConnectionClosed
        BY <1>0, <2>1 DEF Connect, Disconnect, ConnectionClosed, netVars
  <2>2. CASE HandleVersion
    <3>1. <<Signal("VOK")>> \in Seq(Frames)
          BY SignalTypes
    <3>2. \A lists \in {WindowList, WindowList \o WindowList} :
              <<Signal("VOK")>> \o lists \in Seq(Frames)
          BY <3>1, SignalTypes, SequenceTypes
    <3> QED BY <1>8, <2>2, <3>2 DEF HandleVersion
  <2>3. CASE HandleRequest
    <3>1. Head(toExt[sock]).body \in Seq(Callers)
          BY <1>4, <1>5, <2>3 DEF HandleRequest
    <3> DEFINE answer == <<[tag |-> "ans", body |-> Head(toExt[sock]).body]>>
    <3>2. answer \in Seq(Frames)
          BY <3>1 DEF Frames
    <3>3. answer \o WindowList \in Seq(Frames)
          BY <3>2, SignalTypes, SequenceTypes
    <3>4. \/ toServer' = toServer
          \/ Send(sock, answer) \/ Send(sock, answer \o WindowList)
          \/ Send(sock, WindowList)
          BY <2>3 DEF HandleRequest
    <3> HIDE DEF answer
    <3>5. CASE Send(sock, answer)
          BY <1>8, <3>2, <3>5
    <3>6. CASE Send(sock, answer \o WindowList)
          BY <1>8, <3>3, <3>6
    <3>7. CASE Send(sock, WindowList)
          BY <1>8, <3>7, SignalTypes
    <3> QED BY <1>0, <3>4, <3>5, <3>6, <3>7
  <2>4. CASE FocusChanged
    <3>1. <<Signal("Cs")>> \in Seq(Frames) /\ WindowList \in Seq(Frames)
          BY SignalTypes
    <3>2. PICK frames \in Seq(Frames) : Send(sock, frames)
          BY <2>4, <3>1 DEF FocusChanged
    <3> QED BY <1>8, <3>2
  <2> QED BY <2>1, <2>2, <2>3, <2>4 DEF ExtensionNext, ExtensionProgress
<1> QED BY <1>1, <1>2, <1>3, <1>6, <1>7, <1>9 DEF BridgeTypeOK, ExtensionTypeOK, NetTypeOK

\* ... and by the server, which counts on its control state.
LEMMA ServerTypes ==
    ASSUME BridgeTypeOK, ConnectionsInOrder, ServerControl, ServerNext
    PROVE  BridgeTypeOK'
<1>0. /\ pc \in [Callers -> CallerSteps] /\ inBuf \in Seq(Callers)
      /\ outBuf \in Seq(Replies) /\ ready \in SUBSET Events /\ then \in ServerSteps
      /\ spc \in ServerSteps /\ msg \in Seq(Callers) /\ clientFd \in 0..MaxConn
      /\ accepted \in 0..MaxConn /\ conn \in 0..MaxConn
      /\ toServer \in [Conns -> Seq(Frames)] /\ toExt \in [Conns -> Seq(Messages)]
      BY DEF BridgeTypeOK, CallerTypeOK, PipeTypeOK, ServerTypeOK, ExtensionTypeOK, NetTypeOK
<1>1. ExtensionTypeOK'
      BY DEF ServerNext, Poll, Stop, Accept, AcceptFails, ReadVersionOk, PipeinFlush,
             PipeinClose, PipeinOpen, Pipein, Forward, EndOfRequest, SendFin,
             PipeoutOpen, PipeoutTimeout, WriteError, PipeoutClose, List, ReadAnswer,
             AnswerLost, ClientRead, extVars, BridgeTypeOK, ExtensionTypeOK
<1>2. pc' \in [Callers -> CallerSteps]
  <2>1. CASE PipeinOpen
        BY <1>0, <2>1 DEF PipeinOpen, CallerSteps, Running, Locked, Writing
  <2>2. CASE PipeoutOpen
        BY <1>0, <2>2 DEF PipeoutOpen, CallerSteps, Running, Locked, Reading
  <2>3. CASE UNCHANGED pc
        BY <1>0, <2>3
  <2> QED BY <2>1, <2>2, <2>3
       DEF ServerNext, Poll, Stop, Accept, AcceptFails, ReadVersionOk, PipeinFlush,
           PipeinClose, Pipein, Forward, EndOfRequest, SendFin,
           PipeoutTimeout, WriteError, PipeoutClose, List, ReadAnswer,
           AnswerLost, ClientRead, callerVars
<1>3. UNCHANGED <<lock, cycleLock, listed, got>>
      BY DEF ServerNext, Poll, Stop, Accept, AcceptFails, ReadVersionOk, PipeinFlush,
             PipeinClose, PipeinOpen, Pipein, Forward, EndOfRequest, SendFin,
             PipeoutOpen, PipeoutTimeout, WriteError, PipeoutClose, List, ReadAnswer,
             AnswerLost, ClientRead, callerVars
<1>4. CallerTypeOK'
      BY <1>2, <1>3 DEF BridgeTypeOK, CallerTypeOK
<1>5. inBuf' \in Seq(Callers)
  <2>1. \/ inBuf' \in {inBuf, <<>>}
        \/ inBuf # <<>> /\ inBuf' = Tail(inBuf)
        BY DEF ServerNext, Poll, Stop, Accept, AcceptFails, ReadVersionOk, PipeinFlush,
               PipeinClose, PipeinOpen, Pipein, Forward, EndOfRequest, SendFin,
               PipeoutOpen, PipeoutTimeout, WriteError, PipeoutClose, List, ReadAnswer,
               AnswerLost, ClientRead, pipeVars
  <2> QED BY <1>0, <2>1, SequenceTypes
<1>6. Received # <<>> /\ clientFd # 0 =>
          Head(Received) \in Frames /\ Tail(Received) \in Seq(Frames)
  <2>1. clientFd # 0 => clientFd \in Conns
        BY <1>0, BridgeAssumption DEF Conns
  <2> QED BY <1>0, <2>1, SequenceTypes DEF Received
<1>7. outBuf' \in Seq(Replies)
  <2>1. \/ outBuf' \in {outBuf, <<>>}
        \/ outBuf' = Append(outBuf, Signal("error"))
        \/ /\ spc = "answer" /\ Received # <<>>
           /\ outBuf' = Append(outBuf, Head(Received))
        BY DEF ServerNext, Poll, Stop, Accept, AcceptFails, ReadVersionOk, PipeinFlush,
               PipeinClose, PipeinOpen, Pipein, Forward, EndOfRequest, SendFin,
               PipeoutOpen, PipeoutTimeout, WriteError, PipeoutClose, List, ReadAnswer,
               AnswerLost, ClientRead, pipeVars, PipeoutWrite
  <2>2. spc = "answer" => clientFd # 0
        BY DEF ServerControl, NeedsClient
  <2>3. \A r \in Replies : Append(outBuf, r) \in Seq(Replies)
        BY <1>0, SequenceTypes
  <2>4. spc = "answer" /\ Received # <<>> => Head(Received) \in Replies
        BY <1>6, <2>2, SignalTypes
  <2>5. Signal("error") \in Replies /\ <<>> \in Seq(Replies)
        BY SignalTypes
  <2> QED BY <1>0, <2>1, <2>3, <2>4, <2>5
<1>8. inReader' \in BOOLEAN /\ inSeen' \in BOOLEAN /\ outWriter' \in BOOLEAN
      BY DEF ServerNext, Poll, Stop, Accept, AcceptFails, ReadVersionOk, PipeinFlush,
             PipeinClose, PipeinOpen, Pipein, Forward, EndOfRequest, SendFin,
             PipeoutOpen, PipeoutTimeout, WriteError, PipeoutClose, List, ReadAnswer,
             AnswerLost, ClientRead, pipeVars, PipeoutWrite, BridgeTypeOK, PipeTypeOK
<1>9. PipeTypeOK'
      BY <1>5, <1>7, <1>8 DEF PipeTypeOK
<1>10. PollEvents \in SUBSET Events
       BY DEF PollEvents, Events
<1>11. ready' \subseteq Events
       BY <1>0, <1>10 DEF ServerNext, Poll, Stop, Accept, AcceptFails, ReadVersionOk, PipeinFlush,
             PipeinClose, PipeinOpen, Pipein, Forward, EndOfRequest, SendFin,
             PipeoutOpen, PipeoutTimeout, WriteError, PipeoutClose, List, ReadAnswer,
             AnswerLost, ClientRead, Handled, Goto, Reopen, Unrequested, ReplyC, Ok, Failed
<1>12. spc' \in ServerSteps
  <2>1. \A event : Handler(ready \ {event}) \in ServerSteps
        BY <1>0, HandlerTypes DEF ServerSteps
  <2>2. Handler(PollEvents) \in ServerSteps
        BY <1>10, HandlerTypes DEF ServerSteps
  <2> HIDE DEF Handler
  <2>3. \/ spc' \in {"stopped", "vok", "flush", "close", "reopen", "read", "fin", "outOpen",
                     "errOpen", "answer", "errWrite", "outClose", "list"}
        \/ spc' \in {spc, then}
        \/ spc' = Handler(PollEvents)
        \/ \E event : spc' = Handler(ready \ {event})
        BY DEF ServerNext, Poll, Stop, Accept, AcceptFails, ReadVersionOk, PipeinFlush,
               PipeinClose, PipeinOpen, Pipein, Forward, EndOfRequest, SendFin,
               PipeoutOpen, PipeoutTimeout, WriteError, PipeoutClose, List, ReadAnswer,
               AnswerLost, ClientRead, Handled, Goto, Reopen, Unrequested, ReplyC, Ok,
               Failed, Opened
  <2> QED BY <1>0, <2>1, <2>2, <2>3 DEF ServerSteps
<1>13. then' \in ServerSteps
  <2>1. then' \in {then, "poll", "errOpen", "fin", "answer", "client"}
        BY DEF ServerNext, Poll, Stop, Accept, AcceptFails, ReadVersionOk, PipeinFlush,
               PipeinClose, PipeinOpen, Pipein, Forward, EndOfRequest, SendFin,
               PipeoutOpen, PipeoutTimeout, WriteError, PipeoutClose, List, ReadAnswer,
               AnswerLost, ClientRead, Reopen, Unrequested
  <2> QED BY <1>0, <2>1 DEF ServerSteps
<1>14. msg' \in Seq(Callers)
  <2>1. \/ msg' \in {msg, <<>>}
        \/ inBuf # <<>> /\ msg' = Append(msg, Head(inBuf))
        BY DEF ServerNext, Poll, Stop, Accept, AcceptFails, ReadVersionOk, PipeinFlush,
               PipeinClose, PipeinOpen, Pipein, Forward, EndOfRequest, SendFin,
               PipeoutOpen, PipeoutTimeout, WriteError, PipeoutClose, List, ReadAnswer,
               AnswerLost, ClientRead
  <2>2. /\ <<>> \in Seq(Callers)
        /\ inBuf # <<>> => Append(msg, Head(inBuf)) \in Seq(Callers)
        BY <1>0, SequenceTypes
  <2> QED BY <1>0, <2>1, <2>2
<1>15. clientFd' \in 0..MaxConn /\ accepted' \in 0..MaxConn
  <2>1. \/ clientFd' \in {clientFd, 0} /\ accepted' = accepted
        \/ /\ spc = "accept"
           /\ clientFd' \in {clientFd, accepted + 1} /\ accepted' = accepted + 1
        BY DEF ServerNext, Poll, Stop, Accept, AcceptFails, ReadVersionOk, PipeinFlush,
               PipeinClose, PipeinOpen, Pipein, Forward, EndOfRequest, SendFin,
               PipeoutOpen, PipeoutTimeout, WriteError, PipeoutClose, List, ReadAnswer,
               AnswerLost, ClientRead, Unrequested, ReplyC
  <2>2. spc = "accept" => accepted + 1 \in 0..MaxConn
        BY <1>0, BridgeAssumption DEF ServerControl
  <2> QED BY <1>0, <2>1, <2>2, BridgeAssumption
<1>16. toServer' \in [Conns -> Seq(Frames)]
  <2>1. \/ toServer' = toServer
        \/ Received # <<>> /\ TakeFrame
        BY DEF ServerNext, Poll, Stop, Accept, AcceptFails, ReadVersionOk, PipeinFlush,
               PipeinClose, PipeinOpen, Pipein, Forward, EndOfRequest, SendFin,
               PipeoutOpen, PipeoutTimeout, WriteError, PipeoutClose, List, ReadAnswer,
               AnswerLost, ClientRead, Unrequested, netVars
  <2>2. CASE Received # <<>> /\ TakeFrame
    <3>1. clientFd \in Conns => Tail(toServer[clientFd]) \in Seq(Frames)
          BY <1>6, <2>2 DEF Received, Conns
    <3> QED BY <1>0, <2>2, <3>1 DEF TakeFrame
  <2> QED BY <1>0, <2>1, <2>2
<1>17. toExt' \in [Conns -> Seq(Messages)]
  <2>1. ASSUME NEW m \in Messages, NEW k, toExt' = [toExt EXCEPT ![k] = Append(@, m)]
        PROVE  toExt' \in [Conns -> Seq(Messages)]
    <3>1. k \in Conns => Append(toExt[k], m) \in Seq(Messages)
          BY <1>0, SequenceTypes
    <3> QED BY <1>0, <2>1, <3>1
  <2>2. [tag |-> "req", body |-> msg] \in Messages
        BY <1>0 DEF Messages
  <2>3. \/ toExt' = toExt
        \/ toExt' = [toExt EXCEPT ![accepted + 1] = Append(@, Signal("V"))]
        \/ toExt' = [toExt EXCEPT ![clientFd] = Append(@, [tag |-> "req", body |-> msg])]
        BY DEF ServerNext, Poll, Stop, Accept, AcceptFails, ReadVersionOk, PipeinFlush,
               PipeinClose, PipeinOpen, Pipein, Forward, EndOfRequest, SendFin,
               PipeoutOpen, PipeoutTimeout, WriteError, PipeoutClose, List, ReadAnswer,
               AnswerLost, ClientRead, netVars
  <2> QED BY <1>0, <2>1, <2>2, <2>3, SignalTypes
<1> QED BY <1>1, <1>4, <1>9, <1>11, <1>12, <1>13, <1>14, <1>15, <1>16, <1>17
        DEF BridgeTypeOK, ServerTypeOK, NetTypeOK

----------------------------------------------------------------------------
(* None and Only, when a sequence grows at one end and shrinks at the other. *)

LEMMA NoneTail ==
    ASSUME NEW S, NEW A, NEW s \in Seq(S), s # <<>>, None(s, A)
    PROVE  Head(s) \notin A /\ None(Tail(s), A)
BY DEF None

LEMMA OnlyTail ==
    ASSUME NEW S, NEW A, NEW x \in A, NEW s \in Seq(S), s # <<>>, Only(s, A, x)
    PROVE  \/ Head(s) = x /\ None(Tail(s), A)
           \/ Head(s) \notin A /\ Only(Tail(s), A, x)
<1>1. PICK i \in 1..Len(s) : s[i] = x /\ \A j \in 1..Len(s) : s[j] \in A => j = i
      BY DEF Only
<1>2. /\ Len(Tail(s)) = Len(s) - 1
      /\ \A j \in 1..Len(Tail(s)) : Tail(s)[j] = s[j + 1]
      /\ Head(s) = s[1] /\ Len(s) \in Nat \ {0}
      /\ DOMAIN Tail(s) = 1..Len(Tail(s))
      OBVIOUS
<1>3. CASE i = 1
      BY <1>1, <1>2, <1>3 DEF None
<1>4. CASE i # 1
  <2>1. PICK k \in 1..Len(Tail(s)) : i = k + 1
    <3>1. i - 1 \in 1..Len(Tail(s)) /\ i = (i - 1) + 1
          BY <1>1, <1>2, <1>4
    <3> QED BY <3>1
  <2>2. Tail(s)[k] = x
        BY <1>1, <1>2, <2>1
  <2>3. \A j \in 1..Len(Tail(s)) : Tail(s)[j] \in A => j = k
        BY <1>1, <1>2, <2>1
  <2>4. Only(Tail(s), A, x)
        BY <1>2, <2>1, <2>2, <2>3 DEF Only
  <2> QED BY <1>1, <1>2, <1>4, <2>4
<1> QED BY <1>3, <1>4

LEMMA NoneConcat ==
    ASSUME NEW S, NEW A, NEW s \in Seq(S), NEW t \in Seq(S), None(s, A), None(t, A)
    PROVE  None(s \o t, A)
BY DEF None

LEMMA OnlyConcat ==
    ASSUME NEW S, NEW A, NEW x \in A, NEW s \in Seq(S), NEW t \in Seq(S),
           \/ Only(s, A, x) /\ None(t, A)
           \/ None(s, A) /\ Only(t, A, x)
    PROVE  Only(s \o t, A, x)
<1>1. CASE Only(s, A, x) /\ None(t, A)
  <2>1. PICK i \in 1..Len(s) : s[i] = x /\ \A j \in 1..Len(s) : s[j] \in A => j = i
        BY <1>1 DEF Only
  <2> QED BY <1>1, <2>1 DEF Only, None
<1>2. CASE None(s, A) /\ Only(t, A, x)
  <2>1. PICK i \in 1..Len(t) : t[i] = x /\ \A j \in 1..Len(t) : t[j] \in A => j = i
        BY <1>2 DEF Only
  <2>2. i + Len(s) \in 1..Len(s \o t) /\ (s \o t)[i + Len(s)] = x
        BY <2>1
  <2>3. \A j \in 1..Len(s \o t) : (s \o t)[j] \in A => j = i + Len(s)
        BY <1>2, <2>1 DEF None
  <2> QED BY <2>2, <2>3 DEF Only
<1> QED BY <1>1, <1>2

LEMMA AppendNoneOnly ==
    ASSUME NEW S, NEW A, NEW s \in Seq(S), NEW e \in S, None(s, A)
    PROVE  /\ e \notin A => None(Append(s, e), A)
           /\ e \in A => Only(Append(s, e), A, e)
<1>1. /\ Append(s, e) = s \o <<e>> /\ <<e>> \in Seq(S)
      /\ Len(<<e>>) = 1 /\ <<e>>[1] = e
      OBVIOUS
<1>2. e \notin A => None(<<e>>, A)
      BY <1>1 DEF None
<1>3. e \in A => Only(<<e>>, A, e)
      BY <1>1 DEF Only
<1> QED BY <1>1, <1>2, <1>3, NoneConcat, OnlyConcat

----------------------------------------------------------------------------
(* The parts of the invariant, one lemma for each.                         *)

\* The lock: no step but Flock makes a call Locked, and no call loses the lock
\* before it has left.
LEMMA LockKept ==
    ASSUME BridgeTypeOK, OneCallAtATime, [Next]_vars
    PROVE  OneCallAtATime'
<1>0. pc \in [Callers -> CallerSteps]
      BY DEF BridgeTypeOK, CallerTypeOK
<1>1. ASSUME NEW c \in Callers, Flock(c)
      PROVE  OneCallAtATime'
      BY <1>0, <1>1 DEF Flock, Becomes, OneCallAtATime
<1>2. ASSUME NEW c \in Callers, \/ Start(c) \/ OpenIn(c) \/ ListWindows(c) \/ WriteIn(c)
                                \/ CloseIn(c) \/ OpenOut(c) \/ ReadOut(c) \/ Leave(c)
      PROVE  OneCallAtATime'
  <2>1. UNCHANGED lock
        BY <1>2 DEF Start, OpenIn, ListWindows, WriteIn, CloseIn, OpenOut, ReadOut, Leave
  <2>2. \A d \in Callers : pc'[d] \in Locked => pc[d] \in Locked
        BY <1>0, <1>2 DEF Start, OpenIn, ListWindows, WriteIn, CloseIn, OpenOut, ReadOut,
           Leave, Becomes, Locked, Writing, Reading
  <2> QED BY <2>1, <2>2 DEF OneCallAtATime
<1>3. ASSUME NEW c \in Callers, Finish(c) \/ Expire(c)
      PROVE  OneCallAtATime'
  <2>1. /\ pc'[c] \notin Locked /\ lock' = lock \ {c}
        /\ \A d \in Callers : d # c => pc'[d] = pc[d]
        BY <1>0, <1>3 DEF Finish, Expire, Becomes, Locked, Writing, Reading
  <2> QED BY <2>1 DEF OneCallAtATime
<1>4. CASE ServerNext
  <2>1. UNCHANGED lock
        BY <1>4 DEF ServerNext, Poll, Stop, Accept, AcceptFails, ReadVersionOk, PipeinFlush,
             PipeinClose, PipeinOpen, Pipein, Forward, EndOfRequest, SendFin,
             PipeoutOpen, PipeoutTimeout, WriteError, PipeoutClose, List, ReadAnswer,
             AnswerLost, ClientRead, callerVars
  <2>2. CASE PipeinOpen \/ PipeoutOpen
        BY <1>0, <2>1, <2>2 DEF PipeinOpen, PipeoutOpen, OneCallAtATime, Locked, Writing, Reading
  <2>3. CASE UNCHANGED pc
        BY <2>1, <2>3 DEF OneCallAtATime
  <2> QED BY <1>4, <2>2, <2>3
       DEF ServerNext, Poll, Stop, Accept, AcceptFails, ReadVersionOk, PipeinFlush,
           PipeinClose, Pipein, Forward, EndOfRequest, SendFin,
           PipeoutTimeout, WriteError, PipeoutClose, List, ReadAnswer,
           AnswerLost, ClientRead, callerVars
<1>5. CASE ExtensionNext \/ UNCHANGED vars
  <2>1. UNCHANGED <<pc, lock>>
        BY <1>5 DEF ExtensionNext, ExtensionProgress, Connect, Disconnect, ConnectionClosed,
             HandleVersion, HandleRequest, FocusChanged, callerVars, vars
  <2> QED BY <2>1 DEF OneCallAtATime
<1> QED BY <1>1, <1>2, <1>3, <1>4, <1>5 DEF Next, CallerNext, CallerProgress

LEMMA ConnectionsKept ==
    ASSUME BridgeTypeOK, ConnectionsInOrder, ServerControl, [Next]_vars
    PROVE  ConnectionsInOrder'
<1>0. /\ clientFd \in 0..MaxConn /\ accepted \in 0..MaxConn /\ conn \in 0..MaxConn
      /\ sock \in 0..MaxConn /\ MaxConn \in Nat
      /\ toServer \in [Conns -> Seq(Frames)] /\ toExt \in [Conns -> Seq(Messages)]
      BY BridgeAssumption DEF BridgeTypeOK, ServerTypeOK, ExtensionTypeOK, NetTypeOK
<1>1. CASE CallerNext \/ UNCHANGED vars
  <2>1. UNCHANGED <<accepted, clientFd, conn, sock, active, toServer, toExt>>
        BY <1>1 DEF CallerNext, CallerProgress, Start, Flock, OpenIn, ListWindows, WriteIn,
               CloseIn, OpenOut, ReadOut, Finish, Expire, Leave, serverVars, extVars,
               netVars, vars
  <2> QED BY <2>1 DEF ConnectionsInOrder
<1>2. CASE Accept \/ AcceptFails
  <2>1. accepted < conn
        BY <1>2 DEF Accept, AcceptFails, ServerControl
  <2>2. /\ conn' = conn /\ sock' = sock /\ active' = active /\ toServer' = toServer
        /\ accepted' = accepted + 1
        /\ clientFd' \in {clientFd, accepted + 1}
        /\ \A k \in Conns : k # accepted + 1 => toExt'[k] = toExt[k]
        BY <1>0, <1>2 DEF Accept, AcceptFails, extVars, netVars
  <2>3. ASSUME NEW k \in Conns, accepted' < k
        PROVE  toServer'[k] = <<>> /\ toExt'[k] = <<>>
    <3>1. k # accepted + 1 /\ accepted < k
          BY <1>0, <2>2, <2>3 DEF Conns
    <3> QED BY <2>2, <3>1 DEF ConnectionsInOrder
  <2> QED BY <1>0, <2>1, <2>2, <2>3 DEF ConnectionsInOrder
<1>3. CASE SendFin
  <2>1. clientFd # 0
        BY <1>3 DEF SendFin, ServerControl, NeedsClient
  <2>2. /\ UNCHANGED <<accepted, conn, sock, active, toServer>>
        /\ clientFd' \in {clientFd, 0}
        /\ \A k \in Conns : k # clientFd => toExt'[k] = toExt[k]
        BY <1>0, <1>3 DEF SendFin, extVars
  <2> QED BY <1>0, <2>1, <2>2 DEF ConnectionsInOrder
<1>4. ASSUME accepted' = accepted, conn' = conn, sock' = sock, active' = active,
             toExt' = toExt, clientFd' \in {clientFd, 0},
             toServer' = toServer \/ (TakeFrame /\ clientFd # 0)
      PROVE  ConnectionsInOrder'
  <2>1. \A k \in Conns : k # clientFd => toServer'[k] = toServer[k]
        BY <1>0, <1>4 DEF TakeFrame
  <2>2. clientFd = 0 => UNCHANGED toServer
        BY <1>4
  <2> QED BY <1>0, <1>4, <2>1, <2>2 DEF ConnectionsInOrder
<1>5. CASE ServerNext
  <2>1. CASE ReadVersionOk \/ ReadAnswer \/ ClientRead
    <3>1. toServer' = toServer \/ (TakeFrame /\ clientFd # 0)
          BY <2>1 DEF ReadVersionOk, ReadAnswer, ClientRead, Unrequested, ServerControl,
             NeedsClient
    <3>2. /\ accepted' = accepted /\ conn' = conn /\ sock' = sock /\ active' = active
          /\ toExt' = toExt /\ clientFd' \in {clientFd, 0}
          BY <2>1 DEF ReadVersionOk, ReadAnswer, ClientRead, Unrequested, ReplyC, extVars
    <3> QED BY <1>4, <3>1, <3>2
  <2>2. \/ Accept \/ AcceptFails \/ SendFin \/ ReadVersionOk \/ ReadAnswer \/ ClientRead
        \/ /\ accepted' = accepted /\ conn' = conn /\ sock' = sock /\ active' = active
           /\ toExt' = toExt /\ toServer' = toServer /\ clientFd' \in {clientFd, 0}
        BY <1>5 DEF ServerNext, Poll, Stop, PipeinFlush,
           PipeinClose, PipeinOpen, Pipein, Forward, EndOfRequest,
           PipeoutOpen, PipeoutTimeout, WriteError, PipeoutClose, List,
           AnswerLost, ReplyC, extVars, netVars
  <2> QED BY <1>2, <1>3, <1>4, <2>1, <2>2
<1>6. CASE Connect \/ Disconnect \/ ConnectionClosed
      BY <1>0, <1>6 DEF Connect, Disconnect, ConnectionClosed, serverVars, netVars,
         ConnectionsInOrder
<1>7. CASE HandleVersion \/ HandleRequest \/ FocusChanged
  <2>1. /\ UNCHANGED <<accepted, clientFd, conn, sock>>
        /\ \A k \in Conns : k # sock => toServer'[k] = toServer[k] /\ toExt'[k] = toExt[k]
        BY <1>0, <1>7 DEF HandleVersion, HandleRequest, FocusChanged, Send, Receive,
           serverVars, extVars
  <2>2. sock # 0 /\ sock <= accepted
        BY <1>0, <1>7 DEF HandleVersion, HandleRequest, FocusChanged, ConnectionsInOrder, Conns
  <2> QED BY <1>0, <2>1, <2>2 DEF ConnectionsInOrder
<1> QED BY <1>1, <1>5, <1>6, <1>7 DEF Next, ExtensionNext, ExtensionProgress

LEMMA ControlKept ==
    ASSUME BridgeTypeOK, ConnectionsInOrder, ServerControl, [Next]_vars
    PROVE  ServerControl'
<1>0. /\ ready \in SUBSET Events /\ accepted \in Nat /\ conn \in Nat /\ clientFd \in Nat
      BY BridgeAssumption DEF BridgeTypeOK, ServerTypeOK, ExtensionTypeOK
<1>1. CASE CallerNext \/ UNCHANGED vars
  <2>1. /\ spc' = spc /\ ready' = ready /\ then' = then /\ clientFd' = clientFd
        /\ accepted' = accepted /\ conn' = conn
        BY <1>1 DEF CallerNext, CallerProgress, Start, Flock, OpenIn, ListWindows, WriteIn,
               CloseIn, OpenOut, ReadOut, Finish, Expire, Leave, serverVars, extVars, vars
  <2> QED BY <2>1 DEF ServerControl
<1>2. CASE ExtensionNext
  <2>1. /\ spc' = spc /\ ready' = ready /\ then' = then /\ clientFd' = clientFd
        /\ accepted' = accepted /\ conn' \in {conn, conn + 1}
        BY <1>2 DEF ExtensionNext, ExtensionProgress, Connect, Disconnect, ConnectionClosed,
             HandleVersion, HandleRequest, FocusChanged, serverVars, extVars
  <2> QED BY <1>0, <2>1 DEF ServerControl
\* The steps that go on with the events of the last poll.
<1>3. ASSUME NEW event, spc \in {"accept", "vok"} => event = "server", Handled(event)
      PROVE  ServerControl'
  <2>1. ready \ {event} \in SUBSET Events /\ "server" \notin ready \ {event}
        BY <1>0, <1>3 DEF ServerControl
  <2>2. Handler(ready \ {event}) \in {"pipein", "client", "stopping", "poll"}
        BY <2>1, HandlerTypes
  <2> QED BY <1>3, <2>1, <2>2 DEF Handled, ServerControl, NeedsClient, InReopen
<1>4. CASE Poll
  <2>1. PollEvents \in SUBSET Events /\ ("server" \in PollEvents => accepted < conn)
        BY DEF PollEvents, Events
  <2>2. CASE "server" \in PollEvents
    <3>1. Handler(PollEvents) = "accept"
          BY <2>1, <2>2, HandlerTypes
    <3> QED BY <1>4, <2>1, <2>2, <3>1 DEF Poll, ServerControl, NeedsClient, InReopen, extVars
  <2>3. CASE "server" \notin PollEvents
    <3>1. Handler(PollEvents) \in {"pipein", "client", "stopping", "poll"}
          BY <2>1, <2>3, HandlerTypes
    <3> QED BY <1>4, <2>3, <3>1 DEF Poll, ServerControl, NeedsClient, InReopen, extVars
  <2> QED BY <2>2, <2>3
<1>5. CASE Stop \/ Accept
      BY <1>0, <1>5 DEF Stop, Accept, Goto, ServerControl, NeedsClient, InReopen, extVars
<1>6. CASE AcceptFails \/ ReadVersionOk
      BY <1>3, <1>6 DEF AcceptFails, ReadVersionOk
<1>7. CASE PipeoutClose
      BY <1>3, <1>7 DEF PipeoutClose
<1>8. CASE PipeinFlush \/ PipeinClose \/ PipeinOpen
  <2>1. spc \in InReopen /\ clientFd' = clientFd /\ ready' = ready
        BY <1>8 DEF PipeinFlush, PipeinClose, PipeinOpen, InReopen, Goto
  <2>2. \/ spc' \in InReopen /\ then' = then
        \/ spc' = then
        BY <1>8 DEF PipeinFlush, PipeinClose, PipeinOpen, InReopen, Goto
  <2> QED BY <2>1, <2>2 DEF ServerControl, InReopen, NeedsClient
<1>9. CASE Pipein \/ Forward \/ EndOfRequest \/ SendFin
  <2>1. ready' = ready /\ spc \in {"pipein", "read", "fin"}
        BY <1>9 DEF Pipein, Forward, EndOfRequest, SendFin, Goto, Reopen
  <2>2. \/ spc' = "flush" /\ then' = "errOpen"
        \/ spc' = "flush" /\ then' = "fin" /\ clientFd # 0 /\ clientFd' = clientFd
        \/ spc' \in {"read", "outOpen"} /\ clientFd # 0 /\ clientFd' = clientFd
        \/ spc' = "errOpen"
        BY <1>9 DEF Pipein, Forward, EndOfRequest, SendFin, Goto, Reopen, ServerControl,
           NeedsClient
  <2> QED BY <2>1, <2>2 DEF ServerControl, InReopen, NeedsClient
<1>10. CASE PipeoutOpen \/ PipeoutTimeout \/ WriteError \/ AnswerLost
  <2>1. /\ ready' = ready /\ spc \in {"outOpen", "errOpen", "errWrite", "answer"}
        /\ \/ spc' = "answer" /\ clientFd # 0 /\ clientFd' = clientFd
           \/ spc' \in {"errWrite", "outClose"}
        BY <1>10 DEF PipeoutOpen, PipeoutTimeout, WriteError, AnswerLost, Goto, Opened, Opening,
           ServerControl, NeedsClient
  <2> QED BY <2>1 DEF ServerControl, InReopen, NeedsClient
<1>11. CASE List \/ ReadAnswer \/ ClientRead
  <2>1. spc \in {"list", "answer", "client"}
        BY <1>11 DEF List, ReadAnswer, ClientRead
  <2>2. \/ Handled("client")
        \/ /\ ready' = ready
           /\ \/ spc' = "outClose"
              \/ spc' = "answer" /\ clientFd # 0 /\ clientFd' = clientFd
              \/ /\ spc' = "list" /\ then' \in {"answer", "client"}
                 /\ clientFd # 0 /\ clientFd' = clientFd
        BY <1>11 DEF List, ReadAnswer, ClientRead, Unrequested, ReplyC, Ok, Failed, Goto,
           ServerControl, NeedsClient
  <2> QED BY <1>3, <2>1, <2>2 DEF ServerControl, InReopen, NeedsClient
<1> QED BY <1>1, <1>2, <1>4, <1>5, <1>6, <1>7, <1>8, <1>9, <1>10, <1>11
       DEF Next, ServerNext

\* At most one request or answer is under way: the server takes it off the
\* connection before it stops expecting it, or drops the connection.
LEMMA OutstandingKept ==
    ASSUME BridgeTypeOK, ConnectionsInOrder, ServerControl, OneOutstanding, [Next]_vars
    PROVE  OneOutstanding'
<1>0. /\ spc \in ServerSteps /\ msg \in Seq(Callers)
      /\ clientFd \in 0..MaxConn /\ accepted \in 0..MaxConn /\ MaxConn \in Nat
      /\ sock \in 0..MaxConn
      /\ toServer \in [Conns -> Seq(Frames)] /\ toExt \in [Conns -> Seq(Messages)]
      BY BridgeAssumption DEF BridgeTypeOK, ServerTypeOK, ExtensionTypeOK, NetTypeOK
\* Steps that leave the connection alone, or drop it.
<1>1. ASSUME clientFd' = 0
      PROVE  OneOutstanding'
      BY <1>1 DEF OneOutstanding
<1>2. ASSUME clientFd' = clientFd, toServer' = toServer, toExt' = toExt,
             Expecting => Expecting' /\ msg' = msg
      PROVE  OneOutstanding'
      BY <1>2 DEF OneOutstanding
<1>3. CASE CallerNext \/ UNCHANGED vars
  <2>1. /\ spc' = spc /\ then' = then /\ msg' = msg /\ clientFd' = clientFd
        /\ toServer' = toServer /\ toExt' = toExt
        BY <1>3 DEF CallerNext, CallerProgress, Start, Flock, OpenIn, ListWindows, WriteIn,
               CloseIn, OpenOut, ReadOut, Finish, Expire, Leave, serverVars, netVars, vars
  <2> QED BY <1>2, <2>1 DEF Expecting
<1>4. CASE Connect \/ Disconnect \/ ConnectionClosed
  <2>1. /\ spc' = spc /\ then' = then /\ msg' = msg /\ clientFd' = clientFd
        /\ toServer' = toServer /\ toExt' = toExt
        BY <1>4 DEF Connect, Disconnect, ConnectionClosed, serverVars, netVars
  <2> QED BY <1>2, <2>1 DEF Expecting
\* Steps of the server that neither read a frame nor send a message.
<1>5. CASE \/ Poll \/ Stop \/ AcceptFails \/ PipeinFlush \/ PipeinClose \/ PipeinOpen
           \/ Pipein \/ Forward \/ EndOfRequest \/ PipeoutOpen \/ PipeoutTimeout
           \/ WriteError \/ PipeoutClose \/ List \/ AnswerLost
  <2>1. /\ toServer' = toServer /\ toExt' = toExt
        /\ clientFd' \in {clientFd, 0}
        BY <1>5 DEF Poll, Stop, AcceptFails, PipeinFlush, PipeinClose, PipeinOpen,
           Pipein, Forward, EndOfRequest, PipeoutOpen, PipeoutTimeout, WriteError,
           PipeoutClose, List, AnswerLost, ReplyC, netVars
  <2>2. clientFd' = 0 \/ (Expecting => Expecting' /\ msg' = msg)
        BY <1>5 DEF Poll, Stop, AcceptFails, PipeinFlush, PipeinClose, PipeinOpen,
           Pipein, Forward, EndOfRequest, PipeoutOpen, PipeoutTimeout, WriteError,
           PipeoutClose, List, AnswerLost, ReplyC, Ok, Goto, Opened, Opening, Expecting
  <2> QED BY <1>1, <1>2, <2>1, <2>2
<1>6. CASE Accept
  <2>1. accepted + 1 \in Conns
        BY <1>0, <1>6 DEF Accept, ServerControl, ConnectionsInOrder, BridgeTypeOK,
           ExtensionTypeOK, Conns
  <2>2. toServer[accepted + 1] = <<>> /\ toExt[accepted + 1] = <<>>
        BY <1>0, <2>1 DEF ConnectionsInOrder
  <2>3. /\ clientFd' = accepted + 1
        /\ toServer'[accepted + 1] = <<>>
        /\ toExt'[accepted + 1] = Append(<<>>, Signal("V"))
        BY <1>0, <1>6, <2>1, <2>2 DEF Accept
  <2>4. None(<<>>, Answers) /\ None(<<>>, Requests)
        BY DEF None
  <2>5. None(Append(<<>>, Signal("V")), Requests)
    <3>1. Signal("V") \in Messages /\ Signal("V") \notin Requests
          BY SignalTypes DEF Signal, Requests
    <3>2. <<>> \in Seq(Messages)
          BY SequenceTypes
    <3> QED BY <2>4, <3>1, <3>2, AppendNoneOnly
  <2> QED BY <2>3, <2>4, <2>5 DEF OneOutstanding
<1>7. CASE SendFin /\ clientFd' # 0
  <2>1. clientFd \in Conns /\ spc = "fin"
        BY <1>0, <1>7 DEF SendFin, ServerControl, NeedsClient, Conns
  <2>2. None(toServer[clientFd], Answers) /\ None(toExt[clientFd], Requests)
        BY <1>0, <2>1 DEF OneOutstanding, Expecting, Conns
  <2>3. /\ clientFd' = clientFd /\ toServer' = toServer /\ msg' = msg /\ spc' = "outOpen"
        /\ toExt'[clientFd] = Append(toExt[clientFd], RequestOf(msg))
        BY <1>0, <1>7, <2>1 DEF SendFin, Goto, RequestOf
  <2>4. RequestOf(msg) \in Messages
        BY <1>0 DEF RequestOf, Messages
  <2>5. CASE FirstChar(msg) = "C"
    <3>1. RequestOf(msg) \notin Requests
          BY <2>5 DEF RequestOf, Requests
    <3>2. None(toExt'[clientFd], Requests)
          BY <1>0, <2>1, <2>2, <2>3, <2>4, <3>1, AppendNoneOnly
    <3> QED BY <2>2, <2>3, <3>2 DEF OneOutstanding
  <2>6. CASE FirstChar(msg) # "C"
    <3>1. RequestOf(msg) \in Requests
          BY <2>4, <2>6 DEF RequestOf, Requests
    <3>2. Only(toExt'[clientFd], Requests, RequestOf(msg))
          BY <1>0, <2>1, <2>2, <2>3, <2>4, <3>1, AppendNoneOnly
    <3>3. Expecting' /\ FirstChar(msg)' # "C"
          BY <2>3, <2>6 DEF Expecting, FirstChar
    <3> QED BY <2>2, <2>3, <3>2, <3>3 DEF OneOutstanding
  <2> QED BY <2>5, <2>6
\* The server takes a frame while it expects nothing.
<1>8. CASE (ReadVersionOk \/ ClientRead) /\ clientFd' # 0
  <2>1. clientFd \in Conns /\ ~Expecting /\ clientFd' = clientFd /\ toExt' = toExt
        BY <1>0, <1>8 DEF ReadVersionOk, ClientRead, Unrequested, ReplyC, ServerControl,
           NeedsClient, Expecting, Conns
  <2>2. None(toServer[clientFd], Answers) /\ None(toExt[clientFd], Requests)
        BY <1>0, <2>1 DEF OneOutstanding, Conns
  <2>3. Received # <<>> /\ TakeFrame
        BY <1>8, <2>1 DEF ReadVersionOk, ClientRead, Unrequested, Conns
  <2>4. toServer'[clientFd] = Tail(toServer[clientFd])
        BY <1>0, <2>1, <2>3 DEF TakeFrame
  <2>5. None(toServer'[clientFd], Answers)
        BY <1>0, <2>1, <2>2, <2>3, <2>4, NoneTail DEF Received
  <2> QED BY <2>1, <2>2, <2>5 DEF OneOutstanding
\* The server takes a frame while it looks for the answer: if the frame is the
\* answer, nothing is left to expect.
<1>9. CASE ReadAnswer /\ clientFd' # 0
  <2> DEFINE f == Head(Received)
             frames == toServer[clientFd]
             messages == toExt[clientFd]
  <2>1. /\ spc = "answer" /\ clientFd \in Conns /\ Received # <<>> /\ TakeFrame
        /\ clientFd' = clientFd /\ toExt' = toExt /\ msg' = msg
        BY <1>0, <1>9 DEF ReadAnswer, Unrequested, ReplyC, ServerControl, NeedsClient, Conns
  <2>2. /\ frames \in Seq(Frames) /\ f \in Frames /\ frames = Received
        /\ toServer'[clientFd] = Tail(frames)
        BY <1>0, <2>1, SequenceTypes DEF TakeFrame, Received
  <2>3. AnswerTo(msg) \in Answers
        BY <1>0 DEF AnswerTo, Answers, Frames
  <2>4. CASE None(frames, Answers) /\ None(messages, Requests)
        BY <2>1, <2>2, <2>4, NoneTail DEF OneOutstanding
  <2>5. CASE /\ FirstChar(msg) # "C"
             /\ Only(frames, Answers, AnswerTo(msg)) /\ None(messages, Requests)
    <3>1. CASE f = AnswerTo(msg) /\ None(Tail(frames), Answers)
          BY <2>1, <2>2, <2>5, <3>1 DEF OneOutstanding
    <3>2. CASE f \notin Answers /\ Only(Tail(frames), Answers, AnswerTo(msg))
      <4>1. Letter(f) # FirstChar(msg)
            BY <1>0, <2>2, <2>5, <3>2, FirstChars, FrameLetters DEF Kinds
      <4>2. Expecting'
            BY <1>9, <2>1, <4>1 DEF ReadAnswer, Unrequested, ReplyC, Ok, Goto, Expecting
      <4> QED BY <2>1, <2>2, <2>5, <3>2, <4>2 DEF OneOutstanding, FirstChar
    <3> QED BY <2>1, <2>2, <2>3, <2>5, <3>1, <3>2, OnlyTail
  <2>6. CASE /\ FirstChar(msg) # "C"
             /\ None(frames, Answers) /\ Only(messages, Requests, RequestOf(msg))
    <3>1. f \notin Answers /\ None(Tail(frames), Answers)
          BY <2>1, <2>2, <2>6, NoneTail
    <3>2. Letter(f) # FirstChar(msg)
          BY <1>0, <2>2, <2>6, <3>1, FirstChars, FrameLetters DEF Kinds
    <3>3. Expecting'
          BY <1>9, <2>1, <3>2 DEF ReadAnswer, Unrequested, ReplyC, Ok, Goto, Expecting
    <3> QED BY <2>1, <2>2, <2>6, <3>1, <3>3 DEF OneOutstanding, FirstChar
  <2> QED BY <2>1, <2>4, <2>5, <2>6 DEF OneOutstanding, Conns
\* Unrequested frames change nothing, nor does the answer to the version.
<1>10. CASE HandleVersion \/ FocusChanged
  <2>1. PICK frames \in Seq(Frames) : Send(sock, frames) /\ None(frames, Answers)
    <3>1. \A s, t \in Seq(Frames) : None(s, Answers) /\ None(t, Answers)
                                      => s \o t \in Seq(Frames) /\ None(s \o t, Answers)
          BY NoneConcat, SequenceTypes
    <3>2. \A tag \in {"VOK", "Cs", "Cl"} :
              <<Signal(tag)>> \in Seq(Frames) /\ None(<<Signal(tag)>>, Answers)
          BY SignalTypes DEF Signal, Answers, None
    <3>3. WindowList \in Seq(Frames) /\ None(WindowList, Answers)
          BY SignalTypes DEF WindowList, Signal, Answers, None
    <3>4. CASE HandleVersion
      <4>1. PICK lists \in {WindowList, WindowList \o WindowList} :
                Send(sock, <<Signal("VOK")>> \o lists)
            BY <3>4 DEF HandleVersion
      <4>2. lists \in Seq(Frames) /\ None(lists, Answers)
            BY <3>1, <3>3
      <4> QED BY <3>1, <3>2, <4>1, <4>2
    <3>5. CASE FocusChanged
          BY <3>2, <3>3, <3>5 DEF FocusChanged
    <3> QED BY <1>10, <3>4, <3>5
  <2>2. \/ toExt' = toExt
        \/ /\ toExt[sock] # <<>> /\ Receive(sock)
           /\ Head(toExt[sock]).tag = "V"
        BY <1>10 DEF HandleVersion, FocusChanged
  <2>3. /\ spc' = spc /\ then' = then /\ msg' = msg /\ clientFd' = clientFd
        BY <1>10 DEF HandleVersion, FocusChanged, serverVars
  <2>4. CASE clientFd \in Conns /\ sock = clientFd
    <3> DEFINE old == toServer[clientFd]
               messages == toExt[clientFd]
    <3>1. /\ old \in Seq(Frames) /\ messages \in Seq(Messages)
          /\ toServer'[clientFd] = old \o frames
          BY <1>0, <2>1, <2>4 DEF Send
    <3>2. /\ None(old, Answers) => None(toServer'[clientFd], Answers)
          /\ Only(old, Answers, AnswerTo(msg))
                 => Only(toServer'[clientFd], Answers, AnswerTo(msg))
      <4>1. AnswerTo(msg) \in Answers
            BY <1>0 DEF AnswerTo, Answers, Frames
      <4> QED BY <2>1, <3>1, <4>1, NoneConcat, OnlyConcat
    <3>3. \/ toExt'[clientFd] = messages
          \/ /\ messages # <<>> /\ toExt'[clientFd] = Tail(messages)
             /\ Head(messages).tag = "V"
          BY <1>0, <2>2, <2>4 DEF Receive
    <3>4. /\ None(messages, Requests) => None(toExt'[clientFd], Requests)
          /\ FirstChar(msg) # "C" /\ Only(messages, Requests, RequestOf(msg))
                 => Only(toExt'[clientFd], Requests, RequestOf(msg))
      <4>1. /\ FirstChar(msg) # "C" => RequestOf(msg) \in Requests
            /\ Head(messages).tag = "V" => Head(messages) # RequestOf(msg)
            BY <1>0 DEF RequestOf, Requests, Messages
      <4> QED BY <3>1, <3>3, <4>1, NoneTail, OnlyTail
    <3>5. (Expecting => Expecting') /\ FirstChar(msg)' = FirstChar(msg)
          BY <2>3 DEF Expecting, FirstChar
    <3> QED BY <2>3, <3>2, <3>4, <3>5 DEF OneOutstanding
  <2>5. CASE clientFd \in Conns /\ sock # clientFd
    <3>1. toServer'[clientFd] = toServer[clientFd] /\ toExt'[clientFd] = toExt[clientFd]
          BY <1>0, <2>1, <2>2, <2>5 DEF Send, Receive
    <3>2. (Expecting => Expecting') /\ FirstChar(msg)' = FirstChar(msg)
          BY <2>3 DEF Expecting, FirstChar
    <3> QED BY <2>3, <3>1, <3>2 DEF OneOutstanding
  <2> QED BY <1>0, <1>1, <2>3, <2>4, <2>5 DEF Conns
\* A request that will be answered becomes its answer.
<1>11. CASE HandleRequest
  <2> DEFINE m == Head(toExt[sock])
             answer == <<AnswerTo(m.body)>>
             frames == toServer[clientFd]
             messages == toExt[clientFd]
  <2>1. /\ spc' = spc /\ then' = then /\ msg' = msg /\ clientFd' = clientFd
        /\ toExt[sock] # <<>> /\ m.tag = "req" /\ Receive(sock)
        BY <1>11 DEF HandleRequest, serverVars
  <2>2. /\ FirstChar(msg)' = FirstChar(msg)
        /\ Expecting => Expecting'
        BY <2>1 DEF Expecting, FirstChar
  <2>3. CASE clientFd \in Conns /\ sock # clientFd
    <3>1. toServer'[clientFd] = toServer[clientFd] /\ toExt'[clientFd] = toExt[clientFd]
          BY <1>0, <1>11, <2>1, <2>3 DEF HandleRequest, Send, Receive
    <3> QED BY <2>1, <2>2, <3>1 DEF OneOutstanding
  <2>4. CASE clientFd \in Conns /\ sock = clientFd
    <3>1. /\ frames \in Seq(Frames) /\ messages \in Seq(Messages) /\ m \in Messages
          /\ messages # <<>> /\ m = Head(messages) /\ m.body \in Seq(Callers)
          /\ toExt'[clientFd] = Tail(messages)
      <4>1. m \in Messages
            BY <1>0, <2>1, <2>4, SequenceTypes
      <4> QED BY <1>0, <2>1, <2>4, <4>1 DEF Receive, Messages
    <3>2. CASE m \in Requests
      <4>1. /\ Expecting /\ FirstChar(msg) # "C" /\ None(frames, Answers)
            /\ m = RequestOf(msg) /\ None(Tail(messages), Requests)
        <5>1. ~None(messages, Requests)
              BY <3>1, <3>2, NoneTail
        <5>2. /\ Expecting /\ FirstChar(msg) # "C" /\ None(frames, Answers)
              /\ Only(messages, Requests, RequestOf(msg))
              BY <2>4, <5>1 DEF OneOutstanding, Conns
        <5>3. RequestOf(msg) \in Requests
              BY <1>0, <5>2 DEF RequestOf, Requests, Messages
        <5> QED BY <3>1, <3>2, <5>2, <5>3, OnlyTail
      <4>2. \/ toServer' = toServer
            \/ Send(sock, answer) \/ Send(sock, answer \o WindowList)
            \/ Send(sock, WindowList)
            BY <1>11 DEF HandleRequest, AnswerTo
      <4>3. /\ AnswerTo(msg) \in Answers /\ m.body = msg
            /\ answer \in Seq(Frames) /\ Only(answer, Answers, AnswerTo(msg))
        <5>1. AnswerTo(msg) \in Answers /\ m.body = msg /\ AnswerTo(msg) \in Frames
              BY <1>0, <4>1 DEF AnswerTo, Answers, Frames, RequestOf
        <5> QED BY <5>1 DEF Only
      <4>4. /\ answer \o WindowList \in Seq(Frames)
            /\ Only(answer \o WindowList, Answers, AnswerTo(msg))
            /\ WindowList \in Seq(Frames) /\ None(WindowList, Answers)
        <5>1. WindowList \in Seq(Frames) /\ None(WindowList, Answers)
              BY SignalTypes DEF WindowList, Signal, Answers, None
        <5> QED BY <4>3, <5>1, OnlyConcat, SequenceTypes
      <4> HIDE DEF answer
      <4>5. \/ toServer'[clientFd] = frames
            \/ toServer'[clientFd] = frames \o answer
            \/ toServer'[clientFd] = frames \o (answer \o WindowList)
            \/ toServer'[clientFd] = frames \o WindowList
            BY <1>0, <2>4, <4>2 DEF Send
      <4>6. None(toServer'[clientFd], Answers) \/ Only(toServer'[clientFd], Answers, AnswerTo(msg))
            BY <3>1, <4>1, <4>3, <4>4, <4>5, NoneConcat, OnlyConcat
      <4> QED BY <2>1, <2>2, <3>1, <4>1, <4>6 DEF OneOutstanding
    <3>3. CASE m \notin Requests
      <4>1. Kind[Head(m.body)] = "C"
            BY <2>1, <3>1, <3>3 DEF Requests, FirstChar
      <4>2. toServer'[clientFd] = frames \/ toServer'[clientFd] = frames \o WindowList
            BY <1>0, <1>11, <2>4, <4>1 DEF HandleRequest, Send
      <4>3. FirstChar(msg) # "C" => RequestOf(msg) \in Requests
            BY <1>0 DEF RequestOf, Requests, Messages
      <4>4. /\ None(messages, Requests) => None(Tail(messages), Requests)
            /\ FirstChar(msg) # "C" /\ Only(messages, Requests, RequestOf(msg))
                   => Only(Tail(messages), Requests, RequestOf(msg))
            BY <3>1, <3>3, <4>3, NoneTail, OnlyTail
      <4>5. WindowList \in Seq(Frames) /\ None(WindowList, Answers)
            BY SignalTypes DEF WindowList, Signal, Answers, None
      <4>6. FirstChar(msg) # "C" => AnswerTo(msg) \in Answers
            BY <1>0 DEF AnswerTo, Answers, Frames
      <4>7. /\ None(frames, Answers) => None(toServer'[clientFd], Answers)
            /\ FirstChar(msg) # "C" /\ Only(frames, Answers, AnswerTo(msg))
                   => Only(toServer'[clientFd], Answers, AnswerTo(msg))
            BY <3>1, <4>2, <4>5, <4>6, NoneConcat, OnlyConcat
      <4> QED BY <2>1, <2>2, <3>1, <4>4, <4>7 DEF OneOutstanding
    <3> QED BY <3>2, <3>3
  <2> QED BY <1>0, <1>1, <2>1, <2>3, <2>4 DEF Conns
<1> QED BY <1>1, <1>3, <1>4, <1>5, <1>6, <1>7, <1>8, <1>9, <1>10, <1>11
        DEF Next, ServerNext, ExtensionNext, ExtensionProgress, SendFin, ReadVersionOk, ClientRead,
            ReadAnswer

----------------------------------------------------------------------------
(* The theorems.                                                           *)

LEMMA InvInit ==
    ASSUME BridgeInit
    PROVE  BridgeInv
<1>1. BridgeTypeOK
  <2>1. CallerTypeOK /\ PipeTypeOK
        BY SequenceTypes DEF BridgeInit, CallerTypeOK, PipeTypeOK, CallerSteps
  <2>2. ServerTypeOK /\ ExtensionTypeOK
    <3>1. 0 \in 0..MaxConn /\ <<>> \in Seq(Callers)
          BY SequenceTypes, BridgeAssumption
    <3> QED BY <3>1 DEF BridgeInit, ServerTypeOK, ExtensionTypeOK, ServerSteps
  <2>3. NetTypeOK
        BY SequenceTypes DEF BridgeInit, NetTypeOK
  <2> QED BY <2>1, <2>2, <2>3 DEF BridgeTypeOK
<1>2. OneCallAtATime
      BY DEF BridgeInit, OneCallAtATime, Locked, Writing, Reading
<1>3. ConnectionsInOrder /\ ServerControl /\ OneOutstanding
      BY BridgeAssumption DEF BridgeInit, ConnectionsInOrder, ServerControl, OneOutstanding,
         NeedsClient, InReopen
<1> QED BY <1>1, <1>2, <1>3 DEF BridgeInv

LEMMA InvKept ==
    ASSUME BridgeInv, [Next]_vars
    PROVE  BridgeInv'
<1>1. BridgeTypeOK'
  <2>1. CASE UNCHANGED vars
        BY <2>1 DEF BridgeInv, BridgeTypeOK, CallerTypeOK, PipeTypeOK, ServerTypeOK,
           ExtensionTypeOK, NetTypeOK, vars, callerVars, pipeVars, serverVars, extVars,
           netVars
  <2> QED BY <2>1, CallerTypes, ServerTypes, ExtensionTypes DEF BridgeInv, Next
<1>2. OneCallAtATime'
      BY LockKept DEF BridgeInv
<1>3. ConnectionsInOrder' /\ ServerControl' /\ OneOutstanding'
      BY ConnectionsKept, ControlKept, OutstandingKept DEF BridgeInv
<1> QED BY <1>1, <1>2, <1>3 DEF BridgeInv

\* The invariant that the properties rest on holds for any set of callers and
\* kinds of requests, whichever calls run out of time, with any number of
\* connections (websocket.c:92-609, functions:229-241, background.js).
THEOREM BridgeInvariant == Spec => []BridgeInv
<1>1. BridgeInit => BridgeInv
      BY InvInit
<1>2. BridgeInv /\ [Next]_vars => BridgeInv'
      BY InvKept
<1> QED BY <1>1, <1>2, PTL DEF Spec

\* flock keeps the calls apart, timeouts included (functions:236-238).
THEOREM BridgeOneCall == Spec => []OneCallAtATime
<1>1. BridgeInv => OneCallAtATime
      BY DEF BridgeInv
<1> QED BY <1>1, BridgeInvariant, PTL

\* When the server polls, no answer waits on the connection to be taken for the
\* answer to a later request (websocket.c:217-271).
THEOREM BridgeNoStaleAnswer == Spec => []NoStaleAnswer
<1>1. ASSUME BridgeInv, spc = "poll", clientFd # 0, NEW i \in DOMAIN Received
      PROVE  Received[i].tag # "ans"
  <2>1. Received \in Seq(Frames)
        BY <1>1, BridgeAssumption DEF BridgeInv, BridgeTypeOK, ServerTypeOK, NetTypeOK,
           Conns, Received
  <2>2. None(Received, Answers)
        BY <1>1 DEF BridgeInv, OneOutstanding, Expecting, Received
  <2>3. Received[i] \in Frames
        BY <1>1, <2>1
  <2> QED BY <1>1, <2>2, <2>3 DEF None, Answers
<1>2. BridgeInv => NoStaleAnswer
      BY <1>1 DEF NoStaleAnswer
<1> QED BY <1>2, BridgeInvariant, PTL

\* What the server passes on as the answer to a request is the extension's
\* answer to that message, except to "C" (websocket.c:217-254).
THEOREM BridgeAnswersItsRequest == Spec => AnswersItsRequest
<1> DEFINE Passed == outBuf'[Len(outBuf')]
           ItsAnswer == \/ Passed.tag = "ans" /\ Passed.body = msg
                        \/ Passed.tag \in {"Cs", "Cl"} /\ FirstChar(msg) = "C"
<1>1. ASSUME BridgeInv, [Next]_vars, spc = "answer", Len(outBuf') > Len(outBuf)
      PROVE  ItsAnswer
  <2> DEFINE f == Head(Received)
  <2>0. /\ outBuf \in Seq(Replies) /\ msg \in Seq(Callers) /\ clientFd \in Conns
        /\ Received \in Seq(Frames)
        BY <1>1, BridgeAssumption DEF BridgeInv, BridgeTypeOK, PipeTypeOK, ServerTypeOK, NetTypeOK,
           ServerControl, NeedsClient, Conns, Received
  <2>1. ReadAnswer /\ Letter(f) = FirstChar(msg) /\ outBuf' = Append(outBuf, f)
    <3>1. CASE CallerNext
      <4>1. \/ outBuf' \in {outBuf, <<>>}
            \/ outBuf # <<>> /\ outBuf' = Tail(outBuf)
            BY <3>1 DEF CallerNext, CallerProgress, Start, Flock, OpenIn, ListWindows, WriteIn,
               CloseIn, OpenOut, ReadOut, Finish, Expire, Leave, pipeVars, DropOut
      <4> QED BY <1>1, <2>0, <4>1
    <3>2. CASE ExtensionNext \/ UNCHANGED vars
      <4>1. outBuf' = outBuf
            BY <3>2 DEF ExtensionNext, ExtensionProgress, Connect, Disconnect, ConnectionClosed,
               HandleVersion, HandleRequest, FocusChanged, vars, pipeVars
      <4> QED BY <1>1, <2>0, <4>1
    <3>3. CASE ServerNext
      <4>1. ReadAnswer \/ outBuf' = outBuf
            BY <1>1, <3>3 DEF ServerNext, Poll, Stop, Accept, AcceptFails, ReadVersionOk,
               PipeinFlush, PipeinClose, PipeinOpen, Pipein, Forward, EndOfRequest, SendFin,
               PipeoutOpen, PipeoutTimeout, WriteError, PipeoutClose, List, AnswerLost,
               ClientRead, pipeVars, Opening
      <4>2. ReadAnswer /\ outBuf' # outBuf
            BY <1>1, <2>0, <4>1
      <4> QED BY <4>2 DEF ReadAnswer, PipeoutWrite
    <3> QED BY <1>1, <3>1, <3>2, <3>3 DEF Next
  <2>2. f \in Frames /\ Received # <<>>
        BY <2>0, <2>1, SequenceTypes DEF ReadAnswer
  <2>3. Passed = f
        BY <2>0, <2>1, <2>2, SignalTypes
  <2>4. CASE f \in Answers
    <3>1. Only(Received, Answers, AnswerTo(msg))
      <4>1. ~None(Received, Answers)
            BY <2>0, <2>2, <2>4, NoneTail
      <4>2. clientFd # 0
            BY <2>0, BridgeAssumption DEF Conns
      <4> QED BY <1>1, <4>1, <4>2 DEF BridgeInv, OneOutstanding, Received
    <3>2. f = AnswerTo(msg)
      <4>1. AnswerTo(msg) \in Answers
            BY <2>0 DEF AnswerTo, Answers, Frames
      <4> QED BY <2>0, <2>2, <2>4, <3>1, <4>1, OnlyTail
    <3> QED BY <2>3, <3>2 DEF AnswerTo
  <2>5. CASE f \notin Answers
        BY <2>0, <2>1, <2>2, <2>3, <2>5, FirstChars, FrameLetters DEF Kinds
  <2> QED BY <2>4, <2>5
<1>2. BridgeInv /\ [Next]_vars
        => [spc = "answer" /\ Len(outBuf') > Len(outBuf)
              => LET reply == outBuf'[Len(outBuf')]
                 IN  \/ reply.tag = "ans" /\ reply.body = msg
                     \/ reply.tag \in {"Cs", "Cl"} /\ FirstChar(msg) = "C"]_vars
      BY <1>1
<1> QED BY <1>2, BridgeInvariant, PTL DEF Spec, AnswersItsRequest
============================================================================
