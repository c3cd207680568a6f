-------------------------- MODULE WindowFramesProofs --------------------------
(***************************************************************************)
(* The picture a window shows: every step of WindowFrames keeps the        *)
(* inductive invariant FramesInv, for any buffers, sizes, cursors and      *)
(* bounds, and what follows from it.                                       *)
(***************************************************************************)
EXTENDS WindowFramesTypes

----------------------------------------------------------------------------
(* Steps.                                                                   *)

\* What the module does not see of the server.
LEMMA ServerLeavesModule ==
    ASSUME ServerStep
    PROVE  UNCHANGED <<sock, retry, connected, fps, flying, timers, force, view, size,
                       context, img, flush, shown, newest, kcursor, cursors, bufs>>
<1>1. CASE WriteImage
      BY <1>1 DEF WriteImage, Writes, Dies, moduleVars
<1>2. CASE GrabImage
      BY <1>2 DEF GrabImage, Writes, Dies, OutputRest
<1>3. CASE WriteCursor
      BY <1>3 DEF WriteCursor, Writes, Dies, moduleVars
<1>4. CASE SetResolution
      BY <1>4 DEF SetResolution, Writes, Dies, moduleVars
<1>5. CASE EndOfConnection /\ UNCHANGED moduleVars
      BY <1>5 DEF EndOfConnection, moduleVars
<1>6. CASE (ReadVersion \/ ReadVersionFails \/ CloseKilled) /\ UNCHANGED moduleVars
      BY <1>6 DEF ReadVersion, ReadVersionFails, CloseKilled, Writes, Dies, moduleVars
<1> QED BY <1>1, <1>2, <1>3, <1>4, <1>5, <1>6 DEF ServerStep

\* Frames other than the version come to a connected module.
LEMMA ReceivesConnected ==
    ASSUME FramesTypeOK, Exchange, NEW type, Receives(type), type # "V"
    PROVE  connected
<1>1. sock = "open" /\ Head(toKiwi).t = type
      BY Received
<1>2. toKiwi = <<Version>> => Head(toKiwi).t = "V"
      BY FrameTags
<1> QED BY <1>1, <1>2 DEF Exchange

\* A handler of the module leaves the socket open.
LEMMA HandlerSocket ==
    ASSUME Handler
    PROVE  sock = "open" /\ UNCHANGED <<sock, retry, fpc, line, announced>>
<1>1. CASE ReceiveVersion
      BY <1>1 DEF ReceiveVersion, Receives
<1>2. CASE OnFlush \/ TimerFires \/ SetTargetFPS
      BY <1>2 DEF OnFlush, TimerFires, SetTargetFPS, Attached, SockRest
<1>3. CASE ReceiveScreen \/ ReceiveCursor \/ ReceiveResolution
      BY <1>3 DEF ReceiveScreen, ReceiveCursor, ReceiveResolution, Receives, SockRest
<1>4. CASE DidChangeView \/ Rebind
      BY <1>4 DEF DidChangeView, Rebind, InitContext, Attached, socketVars
<1>5. CASE ChangeResolution
      BY <1>5 DEF ChangeResolution, Attached, SockRest
<1> QED BY <1>1, <1>2, <1>3, <1>4, <1>5 DEF Handler

\* The steps that leave a live connection behind: the one that makes it, and those
\* on a connection that was live already.
LEMMA LiveSteps ==
    ASSUME FramesTypeOK, Connected, Exchange, Next, line' = "live"
    PROVE  \/ Connection /\ Accept
           \/ /\ line = "live"
              /\ \/ XStep
                 \/ ReceiveInit /\ UNCHANGED <<moduleVars, cache, events>> /\ UNCHANGED ServerRest
                 \/ Handler /\ UNCHANGED ServerRest
                 \/ WriteImage \/ GrabImage \/ WriteCursor \/ SetResolution
                 \/ ReadVersion /\ UNCHANGED <<moduleVars, screenVars, serverVars, events>>
<1>1. CASE XStep
      BY <1>1 DEF XStep, socketVars
<1>2. CASE KiwiStep /\ UNCHANGED ServerRest
  <2>1. ~OpenWindow /\ ~ConnectFails /\ ~ConnectAgain
        BY DEF OpenWindow, ConnectFails, ConnectAgain, Connected
  <2>2. ~CloseWindow /\ ~OnSocketClosed
        BY DEF CloseWindow, OnSocketClosed, Hangup, Connected
  <2>3. ~ReceiveError
        BY DEF ReceiveError, SocketClose
  <2>4. ReceiveInit => line = "live"
        BY DEF ReceiveInit, SocketClose
  <2> QED BY <1>2, <2>1, <2>2, <2>3, <2>4 DEF KiwiStep
<1>3. CASE Handler /\ UNCHANGED ServerRest
      BY <1>3, HandlerSocket
<1>4. CASE ServerStep
  <2>1. ~EndOfConnection /\ ~ReadVersionFails /\ ~CloseKilled
        BY DEF EndOfConnection, ReadVersionFails, CloseKilled, Dies
  <2>2. WriteImage \/ WriteCursor \/ ReadVersion \/ GrabImage => line = "live"
        BY DEF WriteImage, WriteCursor, ReadVersion, GrabImage, Writes, Dies
  <2>3. SetResolution => line = "live"
        BY DEF SetResolution, Writes, Dies
  <2> QED BY <1>4, <2>1, <2>2, <2>3 DEF ServerStep
<1>5. CASE Connection
      BY <1>5 DEF Connection, AcceptFails, Connected
<1> QED BY <1>1, <1>2, <1>3, <1>4, <1>5 DEF Next, WindowStep

----------------------------------------------------------------------------
(* A module that is not connected yet.                                      *)

\* Every step keeps Fresh.
LEMMA FreshStep ==
    ASSUME FramesTypeOK, Connected, Exchange, Fresh, Next
    PROVE  Fresh'
<1>1. CASE XStep
      BY <1>1 DEF XStep, socketVars, moduleVars, Fresh
<1>2. CASE KiwiStep
  <2>1. CASE OpenWindow /\ NewModule
        BY <2>1 DEF OpenWindow, NewModule, Fresh
  <2>2. CASE (CloseWindow \/ ReceiveError) /\ ModuleGone
        BY <2>2 DEF CloseWindow, ReceiveError, SocketClose, ModuleGone, Fresh
  <2>3. CASE (ConnectFails \/ ConnectAgain) /\ UNCHANGED moduleVars
        BY <2>3 DEF ConnectFails, ConnectAgain, moduleVars, Fresh, Connected
  <2>4. CASE (ReceiveInit \/ OnSocketClosed) /\ UNCHANGED moduleVars
        BY <2>4 DEF ReceiveInit, OnSocketClosed, SocketClose, moduleVars, Fresh
  <2> QED BY <1>2, <2>1, <2>2, <2>3, <2>4 DEF KiwiStep
<1>3. CASE Handler
  <2>1. CASE ReceiveVersion
        BY <2>1, HandlerSocket, <1>3 DEF ReceiveVersion, OutputRest, Fresh
  <2>2. CASE OnFlush
        BY <2>2, HandlerSocket, <1>3 DEF OnFlush, SockRest, OutputRest, Fresh
  <2>3. CASE TimerFires
        BY <2>3, HandlerSocket, <1>3 DEF TimerFires, SockRest, OutputRest, Fresh
  <2>4. CASE SetTargetFPS
    <3>1. /\ sock = "open" /\ sock' = sock /\ connected' = connected /\ flush' = flush
          /\ view' = view /\ size' = size
          BY <2>4, SetTargetFPSCases DEF Attached, SockRest, OutputRest, BufferRest
    <3>2. ~connected => /\ flying' = flying /\ timers' = timers
                        /\ (force' = force \/ force' = TRUE)
          BY <2>4, SetTargetFPSCases DEF AsksFor
    <3> QED BY <3>1, <3>2 DEF Fresh
  <2>5. CASE ReceiveScreen \/ ReceiveCursor
    <3>1. connected /\ UNCHANGED <<connected, view, size>>
          BY <2>5, ReceivesConnected DEF ReceiveScreen, ReceiveCursor, SockRest
    <3> QED BY <1>3, <3>1, HandlerSocket DEF Fresh
  <2>6. CASE ReceiveResolution
    <3>1. connected /\ UNCHANGED <<connected, size>>
          BY <2>6, ReceivesConnected DEF ReceiveResolution, SockRest
    <3>2. view' \in Sizes
          BY <2>6, Received, KiwiMsgCases DEF ReceiveResolution
    <3> QED BY <1>3, <3>1, <3>2, HandlerSocket DEF Fresh
  <2>7. CASE DidChangeView \/ Rebind
        BY <2>7, HandlerSocket, <1>3 DEF DidChangeView, Rebind, InitContext, socketVars,
        Fresh
  <2>8. CASE ChangeResolution
        BY <2>8, HandlerSocket, <1>3 DEF ChangeResolution, SockRest, moduleVars, Fresh
  <2> QED BY <1>3, <2>1, <2>2, <2>3, <2>4, <2>5, <2>6, <2>7, <2>8 DEF Handler
<1>4. CASE ServerStep
      BY <1>4, ServerLeavesModule DEF Fresh
<1>5. CASE Connection
      BY <1>5 DEF Connection, Accept, AcceptFails, moduleVars, Fresh
<1> QED BY <1>1, <1>2, <1>3, <1>4, <1>5 DEF Next, WindowStep

----------------------------------------------------------------------------
(* One frame at a time.                                                     *)

\* One frame more in a queue.
LEMMA ScreensAppend ==
    ASSUME NEW S, NEW q \in Seq(S), NEW m \in S
    PROVE  ScreensIn(q \o <<m>>) = ScreensIn(q) + (IF m.t = "S" THEN 1 ELSE 0)
<1>1. <<m>> \in Seq(S)
      OBVIOUS
<1> QED BY <1>1, ScreensConcat, ScreensShort

\* What the window sends first.
LEMMA ScreensFirst ==
    ASSUME NEW x, NEW y, NEW z, x.t # "S", y.t # "S", z.t = "S"
    PROVE  ScreensIn(<<x, y>>) = 0 /\ ScreensIn(<<x, y, z>>) = 1
<1>1. /\ {i \in DOMAIN <<x, y>> : <<x, y>>[i].t = "S"} = {}
      /\ {i \in DOMAIN <<x, y, z>> : <<x, y, z>>[i].t = "S"} = {3}
      OBVIOUS
<1>2. Cardinality({3}) = 1 /\ Cardinality({}) = 0
      BY FS_Singleton, FS_EmptySet
<1> QED BY <1>1, <1>2 DEF ScreensIn

\* Where the frames are that are counted.
LEMMA AskedParts ==
    ASSUME FramesTypeOK, FramesTypeOK'
    PROVE  /\ ScreensIn(toFb) \in Nat /\ ScreensIn(toKiwi) \in Nat
           /\ ScreensIn(toFb') \in Nat /\ ScreensIn(toKiwi') \in Nat
           /\ Asked = ScreensIn(toFb) + (IF fpc = "grab" THEN 1 ELSE 0) + ScreensIn(toKiwi)
           /\ Asked' = ScreensIn(toFb') + (IF fpc' = "grab" THEN 1 ELSE 0)
                         + ScreensIn(toKiwi')
<1>1. /\ toFb \in Seq(FbMsgs) /\ toKiwi \in Seq(KiwiMsgs)
      /\ toFb' \in Seq(FbMsgs') /\ toKiwi' \in Seq(KiwiMsgs')
      BY DEF FramesTypeOK, SocketTypeOK
<1>2. /\ ScreensIn(toFb) \in Nat /\ ScreensIn(toKiwi) \in Nat
      /\ ScreensIn(toFb') \in Nat /\ ScreensIn(toKiwi') \in Nat
      BY <1>1, ScreensFinite
<1> QED BY <1>2 DEF Asked, ScreensIn

\* At most one, and one less.
LEMMA OneLess ==
    ASSUME NEW a \in Nat, NEW b \in Nat, a = b + 1,
           NEW waits \in BOOLEAN, a <= (IF waits THEN 1 ELSE 0)
    PROVE  waits = TRUE /\ a = 1 /\ b = 0
OBVIOUS

\* A request is served with one reply, and no other frame counts.
LEMMA ServerAsked ==
    ASSUME FramesTypeOK, FramesTypeOK', Connected, Buffers, Mappings,
           line = "live", line' = "live",
           WriteImage \/ GrabImage \/ WriteCursor \/ SetResolution \/ ReadVersion
    PROVE  Asked' <= Asked /\ (sock = "open" => Asked' = Asked)
<1>1. toFb \in Seq(FbMsgs) /\ toKiwi \in Seq(KiwiMsgs)
      BY QueueTypes
<1>2. ASSUME NEW m \in KiwiMsgs, NEW rest, Written(m, "serve", rest)
      PROVE  /\ toFb' = rest /\ fpc' = "serve"
             /\ ScreensIn(toKiwi') = ScreensIn(toKiwi)
                  + (IF sock = "open" /\ m.t = "S" THEN 1 ELSE 0)
  <2>1. CASE sock = "open"
        BY <1>1, <1>2, <2>1, ScreensAppend DEF Written
  <2>2. CASE sock # "open"
        BY <1>2, <2>2, AskedParts DEF Written
  <2> QED BY <1>2, <2>1, <2>2 DEF Written
<1>3. ASSUME toFb # <<>>
      PROVE  ScreensIn(toFb) = (IF Head(toFb).t = "S" THEN 1 ELSE 0) + ScreensIn(Tail(toFb))
      BY <1>1, <1>3, ScreensTail
<1>4. CASE WriteImage
  <2> DEFINE m == Reply(FALSE, FALSE, IF moved THEN cursor ELSE 0)
  <2>1. fpc = "serve" /\ toFb # <<>> /\ Head(toFb).t = "S"
        BY <1>4, WriteImageCases DEF Request
  <2>2. m \in KiwiMsgs /\ m.t = "S"
    <3>1. (IF moved THEN cursor ELSE 0) \in Serials \cup {0}
          BY DEF FramesTypeOK, ScreenTypeOK
    <3> QED BY <3>1, KiwiMsgTypes DEF Reply
  <2> HIDE DEF m
  <2>3. \/ fpc' = "grab" /\ toFb' = Tail(toFb) /\ toKiwi' = toKiwi
        \/ Written(m, "serve", Tail(toFb))
        BY <1>4, WriteImageCases DEF m
  <2>4. CASE fpc' = "grab" /\ toFb' = Tail(toFb) /\ toKiwi' = toKiwi
        BY <1>3, <2>1, <2>4, AskedParts
  <2>5. CASE Written(m, "serve", Tail(toFb))
        BY <1>2, <1>3, <2>1, <2>2, <2>5, AskedParts
  <2> QED BY <2>3, <2>4, <2>5
<1>5. CASE GrabImage
  <2>1. PICK done \in BOOLEAN : Written(Reply(TRUE, ~done, req.cursor), "serve", toFb)
        BY <1>5, GrabImageCases
  <2> DEFINE m == Reply(TRUE, ~done, req.cursor)
  <2>2. fpc = "grab"
        BY <1>5, GrabImageCases
  <2>3. m \in KiwiMsgs /\ m.t = "S"
    <3>1. req.cursor \in Serials \cup {0} /\ (~done) \in BOOLEAN
          BY DEF FramesTypeOK, ServerTypeOK
    <3> QED BY <3>1, KiwiMsgTypes DEF Reply
  <2>4. Written(m, "serve", toFb)
        BY <2>1
  <2> HIDE DEF m
  <2> QED BY <1>2, <2>2, <2>3, <2>4, AskedParts
<1>6. CASE WriteCursor
  <2> DEFINE m == [t |-> "P", cursor |-> cursor]
  <2>1. m \in KiwiMsgs /\ m.t # "S"
        BY KiwiMsgTypes DEF FramesTypeOK, ScreenTypeOK
  <2>2. fpc = "serve" /\ toFb # <<>> /\ Head(toFb).t # "S"
        BY <1>6 DEF WriteCursor, Request
  <2>3. Written(m, "serve", Tail(toFb))
        BY <1>6, WritesCases DEF WriteCursor
  <2> QED BY <1>2, <1>3, <2>1, <2>2, <2>3, AskedParts
<1>7. CASE SetResolution
  <2>1. fpc = "serve" /\ toFb # <<>> /\ Head(toFb).t # "S"
        BY <1>7 DEF SetResolution, Request
  <2>2. PICK s \in Sizes : Writes(<<Resolution(s)>>, "serve", Tail(toFb))
        BY <1>7, SetResolutionCases DEF Dies
  <2>3. Resolution(s) \in KiwiMsgs /\ Resolution(s).t # "S"
        BY KiwiMsgTypes, FrameTags
  <2>4. Written(Resolution(s), "serve", Tail(toFb))
        BY <2>2, WritesCases
  <2> QED BY <1>2, <1>3, <2>1, <2>3, <2>4, AskedParts
<1>8. CASE ReadVersion
  <2>1. /\ fpc = "version" /\ toFb # <<>> /\ Head(toFb) = VersionOk
        /\ Writes(<<InitInfo>>, "serve", Tail(toFb))
        BY <1>8 DEF ReadVersion
  <2>2. InitInfo \in KiwiMsgs /\ InitInfo.t # "S" /\ VersionOk.t # "S"
        BY KiwiMsgTypes, FrameTags
  <2>3. Written(InitInfo, "serve", Tail(toFb))
        BY <2>1, WritesCases
  <2> QED BY <1>2, <1>3, <2>1, <2>2, <2>3, AskedParts
<1> QED BY <1>4, <1>5, <1>6, <1>7, <1>8

\* A connection that begins has no frame on it, and one that ends loses them.
LEMMA FlowQuiet ==
    ASSUME FramesTypeOK, FramesTypeOK', Connected, Exchange, Fresh, Flow, line' = "live",
           \/ Connection /\ Accept
           \/ XStep /\ line = "live"
           \/ ReceiveInit /\ UNCHANGED moduleVars /\ line = "live"
    PROVE  Flow'
<1>1. toFb \in Seq(FbMsgs) /\ toKiwi \in Seq(KiwiMsgs)
      BY QueueTypes
<1>2. CASE Connection /\ Accept
  <2>1. /\ sock = "connecting" /\ fpc' = "version" /\ toFb' = <<>> /\ toKiwi' = <<Version>>
        /\ UNCHANGED <<connected, moduleVars>>
        BY <1>2 DEF Connection, Accept
  <2>2. ScreensIn(toFb') = 0 /\ ScreensIn(toKiwi') = 0
        BY <2>1, ScreensShort, FrameTags
  <2>3. ~connected /\ flying = FALSE /\ flush = "none"
        BY <2>1 DEF Connected, Fresh
  <2> QED BY <2>1, <2>2, <2>3, AskedParts DEF Flow, moduleVars
<1>3. CASE XStep
      BY <1>3 DEF XStep, socketVars, moduleVars, Flow, Asked
<1>4. CASE ReceiveInit /\ UNCHANGED moduleVars /\ line = "live"
  <2>1. toKiwi # <<>> /\ Head(toKiwi).t # "S" /\ fpc' = fpc /\ connected' = connected
        BY <1>4, FrameTags DEF ReceiveInit, SocketClose
  <2>2. ScreensIn(toKiwi) = ScreensIn(Tail(toKiwi))
    <3>1. ScreensIn(toKiwi) = 0 + ScreensIn(Tail(toKiwi))
          BY <1>1, <2>1, ScreensTail
    <3>2. Tail(toKiwi) \in Seq(KiwiMsgs)
          BY <1>1, <2>1, TailQueue
    <3>3. ScreensIn(Tail(toKiwi)) \in Nat
          BY <3>2, ScreensFinite
    <3> QED BY <3>1, <3>3
  <2>3. CASE toKiwi' = Tail(toKiwi) /\ UNCHANGED <<sock, toFb>>
        BY <1>4, <2>1, <2>2, <2>3, AskedParts DEF Flow, moduleVars
  <2>4. CASE SocketClose
    <3>1. toKiwi' = <<>> /\ sock' = "closing"
          BY <2>4 DEF SocketClose
    <3>2. toFb' = toFb \/ toFb' = toFb \o <<CloseFrame>>
          BY <2>4 DEF SocketClose, Sends
    <3>3. ScreensIn(toFb') = ScreensIn(toFb)
      <4>1. CloseFrame \in FbMsgs /\ CloseFrame.t # "S"
            BY FbMsgTypes, FrameTags
      <4>2. ScreensIn(toFb \o <<CloseFrame>>) = ScreensIn(toFb) + 0
            BY <1>1, <4>1, ScreensAppend
      <4>3. ScreensIn(toFb) \in Nat
            BY AskedParts
      <4>4. ScreensIn(toFb \o <<CloseFrame>>) = ScreensIn(toFb)
            BY <4>2, <4>3
      <4> QED BY <3>2, <4>4
    <3>4. ScreensIn(toKiwi') = 0
          BY <3>1, ScreensShort
    <3>5. Asked' <= Asked /\ Asked' \in Nat /\ Asked \in Nat
          BY <2>1, <3>3, <3>4, AskedParts
    <3> QED BY <1>4, <3>1, <3>5 DEF Flow, moduleVars
  <2> QED BY <1>4, <2>3, <2>4 DEF ReceiveInit
<1> QED BY <1>2, <1>3, <1>4

\* The frames of the handlers: the next request follows the flush of the last
\* frame, and nothing else asks while one is flying.
LEMMA FlowHandler ==
    ASSUME FramesTypeOK, FramesTypeOK', Connected, Exchange, Fresh, Mappings, Flow,
           Handler, line = "live"
    PROVE  Flow'
<1>1. /\ toFb \in Seq(FbMsgs) /\ toKiwi \in Seq(KiwiMsgs)
      /\ fps \in {Full, Blurred, Hidden} /\ flying \in BOOLEAN
      /\ Cursor \in FbMsgs /\ Cursor.t = "P"
      BY QueueTypes, FbMsgTypes, FrameTags DEF FramesTypeOK, ModuleTypeOK
<1>2. sock = "open" /\ UNCHANGED <<sock, fpc, line>>
      BY HandlerSocket
<1>3. ASSUME toKiwi # <<>>
      PROVE  ScreensIn(toKiwi)
               = (IF Head(toKiwi).t = "S" THEN 1 ELSE 0) + ScreensIn(Tail(toKiwi))
      BY <1>1, <1>3, ScreensTail
<1>4. ASSUME NEW image \in Images, NEW refresh \in BOOLEAN,
             toFb' = toFb \o <<Screen(image, refresh)>>, UNCHANGED toKiwi
      PROVE  Asked' = Asked + 1
  <2>1. Screen(image, refresh) \in FbMsgs /\ Screen(image, refresh).t = "S"
        BY ScreenFrame
  <2>2. ScreensIn(toFb') = ScreensIn(toFb) + 1
        BY <1>1, <1>4, <2>1, ScreensAppend
  <2> QED BY <1>2, <1>4, <2>2, AskedParts
<1>5. ASSUME UNCHANGED <<toFb, toKiwi>>
      PROVE  Asked' = Asked
      BY <1>2, <1>5, AskedParts
<1>6. Asked \in Nat
      BY AskedParts
<1>7. CASE ReceiveVersion
  <2>1. /\ fpc = "version" /\ toKiwi' = <<>>
        /\ flush' = "none" /\ connected' = TRUE
        /\ fps' = fps /\ size \in Sizes
        /\ \/ /\ toFb' = <<VersionOk, Resolution(size), Screen(img', TRUE)>>
              /\ flying' = TRUE
           \/ /\ toFb' = <<VersionOk, Resolution(size)>>
              /\ flying' = FALSE
              /\ timers' = IF fps > Hidden THEN {"current"} ELSE {}
        BY <1>7, ReceiveVersionCases
  <2>2. ScreensIn(<<VersionOk, Resolution(size)>>) = 0
        /\ ScreensIn(<<VersionOk, Resolution(size), Screen(img', TRUE)>>) = 1
    <3>1. /\ VersionOk.t # "S" /\ Resolution(size).t # "S"
          /\ Screen(img', TRUE).t = "S"
          BY DEF VersionOk, Resolution, Screen
    <3> QED BY <3>1, ScreensFirst
  <2>3. ScreensIn(toKiwi') = 0
        BY <2>1, ScreensShort
  <2>4. Asked' = IF flying' THEN 1 ELSE 0
    <3>1. fpc' = "version"
          BY <1>2, <2>1
    <3>2. Asked' = ScreensIn(toFb') + 0 + 0
          BY <2>3, <3>1, AskedParts
    <3>3. ScreensIn(toFb') = IF flying' THEN 1 ELSE 0
          BY <2>1, <2>2
    <3> QED BY <3>2, <3>3
  <2>5. flying' \in BOOLEAN /\ (fps' > Hidden => flying' \/ "current" \in timers')
        BY <2>1
  <2> QED BY <2>1, <2>4, <2>5 DEF Flow
<1>8. CASE OnFlush
  <2>1. connected /\ img' \in Images
        BY <1>8, OnFlushImage
  <2>2. /\ UNCHANGED <<connected, toKiwi, fps>>
        /\ flush # "none" /\ flush' = "none"
        /\ \/ /\ toFb' = toFb \o <<Screen(img', force)>>
              /\ flying' = TRUE
           \/ /\ UNCHANGED toFb /\ flying' = FALSE
              /\ fps > Hidden => "current" \in timers'
        BY <1>8, <2>1, OnFlushCases DEF SockRest
  <2>3. Asked = 0
        BY <2>2 DEF Flow
  <2>4. force \in BOOLEAN
        BY DEF FramesTypeOK, ModuleTypeOK
  <2> QED BY <1>2, <1>4, <1>5, <2>1, <2>2, <2>3, <2>4 DEF Flow
<1>9. CASE TimerFires
  <2>1. /\ UNCHANGED <<connected, toKiwi, fps, flush>>
        /\ \/ AsksFor(img, force)
           \/ /\ UNCHANGED <<toFb, flying>>
              /\ connected /\ "current" \in timers => flying \/ "current" \in timers'
        BY <1>9, TimerFiresCases DEF SockRest, BufferRest
  <2>2. force \in BOOLEAN /\ img \in Images
        BY DEF FramesTypeOK, ModuleTypeOK
  <2>3. CASE AsksFor(img, force)
        BY <1>2, <1>4, <1>6, <2>1, <2>2, <2>3 DEF Flow, AsksFor
  <2>4. CASE /\ UNCHANGED <<toFb, flying>>
             /\ connected /\ "current" \in timers => flying \/ "current" \in timers'
        BY <1>2, <1>5, <2>1, <2>4 DEF Flow
  <2> QED BY <2>1, <2>3, <2>4
<1>10. CASE SetTargetFPS
  <2>1. /\ UNCHANGED <<connected, toKiwi, flush>> /\ fps' \in {Full, Blurred, Hidden}
        /\ \/ AsksFor(img, TRUE)
           \/ /\ UNCHANGED <<toFb, flying, timers>>
              /\ connected /\ fps' > fps => flying
        BY <1>10, SetTargetFPSCases DEF SockRest, BufferRest
  <2>2. TRUE \in BOOLEAN /\ img \in Images
        BY DEF FramesTypeOK, ModuleTypeOK
  <2>3. CASE AsksFor(img, TRUE)
    <3>1. Asked = 0 /\ flush = "none"
          BY <1>6, <2>3 DEF Flow, AsksFor
    <3>2. Asked' = 1 /\ flying' = TRUE
      <4>1. toFb' = toFb \o <<Screen(img, TRUE)>> /\ flying' = TRUE
            BY <2>3 DEF AsksFor
      <4>2. Asked' = Asked + 1
            BY <1>4, <2>1, <2>2, <4>1
      <4> QED BY <3>1, <4>1, <4>2
    <3> QED BY <2>1, <3>1, <3>2 DEF Flow
  <2>4. CASE /\ UNCHANGED <<toFb, flying, timers>>
             /\ connected /\ fps' > fps => flying
    <3>1. connected /\ fps' > Hidden => flying \/ fps > Hidden
          BY <1>1, <2>1, <2>4 DEF Full, Blurred, Hidden
    <3> QED BY <1>2, <1>5, <2>1, <2>4, <3>1 DEF Flow
  <2> QED BY <2>1, <2>3, <2>4
<1>11. CASE ReceiveScreen
  <2>1. /\ connected /\ UNCHANGED <<connected, fps>>
        /\ toKiwi # <<>> /\ Head(toKiwi).t = "S" /\ toKiwi' = Tail(toKiwi)
        /\ UNCHANGED toFb \/ toFb' = toFb \o <<Cursor>>
        /\ Frame(Head(toKiwi).failed) \/ NoUpdate
        BY <1>11, ReceiveScreenCases, Received DEF SockRest
  <2>2. ScreensIn(toFb') = ScreensIn(toFb)
    <3>1. ScreensIn(toFb \o <<Cursor>>) = ScreensIn(toFb) + 0
          BY <1>1, ScreensAppend
    <3>2. ScreensIn(toFb) \in Nat
          BY AskedParts
    <3>3. ScreensIn(toFb \o <<Cursor>>) = ScreensIn(toFb)
          BY <3>1, <3>2
    <3> QED BY <2>1, <3>3
  <2>3. Asked = Asked' + 1 /\ Asked' \in Nat
        BY <1>2, <1>3, <2>1, <2>2, AskedParts
  <2>4. flying = TRUE /\ flush = "none" /\ Asked' = 0
    <3>1. Asked <= (IF flying THEN 1 ELSE 0) /\ (flush # "none" => Asked = 0)
          BY DEF Flow
    <3>2. flying = TRUE /\ Asked = 1 /\ Asked' = 0
          BY <1>1, <1>6, <2>3, <3>1, OneLess
    <3> QED BY <3>1, <3>2
  <2>5. CASE Frame(Head(toKiwi).failed)
        BY <1>2, <2>1, <2>4, <2>5 DEF Frame, Paint, Flow
  <2>6. CASE NoUpdate
        BY <1>2, <2>1, <2>4, <2>6 DEF NoUpdate, Flow
  <2> QED BY <2>1, <2>5, <2>6
<1>12. CASE ReceiveCursor \/ ReceiveResolution
  <2>1. /\ toKiwi # <<>> /\ Head(toKiwi).t # "S" /\ toKiwi' = Tail(toKiwi)
        /\ UNCHANGED <<connected, toFb, fps, flying, timers, flush>>
        BY <1>12, Received DEF ReceiveCursor, ReceiveResolution, SockRest, BufferRest
  <2>2. Asked' = Asked
        BY <1>2, <1>3, <2>1, AskedParts
  <2> QED BY <1>2, <2>1, <2>2 DEF Flow
<1>13. CASE DidChangeView \/ Rebind
  <2>1. /\ UNCHANGED <<connected, toFb, toKiwi, fps, flying, timers>>
        /\ flush' = IF flush = "pending" THEN "old" ELSE flush
        BY <1>13 DEF DidChangeView, Rebind, InitContext, socketVars
  <2> QED BY <1>2, <1>5, <2>1 DEF Flow
<1>14. CASE ChangeResolution
  <2>1. PICK s \in Sizes : Sends(<<Resolution(s)>>)
        BY <1>14 DEF ChangeResolution
  <2>2. /\ UNCHANGED <<connected, toKiwi, fps, flying, timers, flush>>
        /\ toFb' = toFb \o <<Resolution(s)>>
        BY <1>14, <2>1 DEF ChangeResolution, Sends, SockRest, moduleVars, Attached
  <2>3. ScreensIn(toFb') = ScreensIn(toFb)
        BY <1>1, <2>2, ScreensAppend, FbMsgTypes, FrameTags, AskedParts
  <2>4. Asked' = Asked
        BY <1>2, <2>2, <2>3, AskedParts
  <2> QED BY <1>2, <2>2, <2>4 DEF Flow
<1> QED BY <1>7, <1>8, <1>9, <1>10, <1>11, <1>12, <1>13, <1>14 DEF Handler

\* Every step keeps the flow.
LEMMA FlowStep ==
    ASSUME FramesTypeOK, FramesTypeOK', Connected, Exchange, Fresh, Buffers, Mappings, Flow,
           Next
    PROVE  Flow'
<1>1. CASE line' # "live"
      BY <1>1 DEF Flow
<1>2. CASE line' = "live"
  <2>1. CASE \/ Connection /\ Accept
             \/ XStep /\ line = "live"
             \/ ReceiveInit /\ UNCHANGED moduleVars /\ line = "live"
        BY <1>2, <2>1, FlowQuiet
  <2>2. CASE Handler /\ line = "live"
        BY <2>2, FlowHandler
  <2>3. CASE /\ line = "live"
             /\ WriteImage \/ GrabImage \/ WriteCursor \/ SetResolution \/ ReadVersion
             /\ ServerStep
    <3>1. UNCHANGED <<sock, connected, flying, flush, fps, timers>>
          BY <2>3, ServerLeavesModule
    <3>2. Asked' <= Asked /\ (sock = "open" => Asked' = Asked)
          BY <1>2, <2>3, ServerAsked
    <3>3. Asked \in Nat /\ Asked' \in Nat
          BY AskedParts
    <3> QED BY <2>3, <3>1, <3>2, <3>3 DEF Flow
  <2>4. ReadVersion /\ UNCHANGED <<moduleVars, screenVars, serverVars, events>> => ServerStep
        BY DEF ServerStep
  <2> QED BY <1>2, <2>1, <2>2, <2>3, <2>4, LiveSteps DEF ServerStep
<1> QED BY <1>1, <1>2

----------------------------------------------------------------------------
(* The memory.                                                              *)

\* One frame at the end of a queue.
LEMMA AppendQueue ==
    ASSUME NEW S, NEW q \in Seq(S), NEW m \in S
    PROVE  /\ DOMAIN q = 1..Len(q) /\ DOMAIN (q \o <<m>>) = 1..Len(q) + 1
           /\ Len(q) \in Nat
           /\ \A i \in DOMAIN q : (q \o <<m>>)[i] = q[i]
           /\ (q \o <<m>>)[Len(q) + 1] = m
           /\ \A i \in DOMAIN (q \o <<m>>) :
                  \/ i \in DOMAIN q /\ (q \o <<m>>)[i] = q[i]
                  \/ i = Len(q) + 1 /\ (q \o <<m>>)[i] = m
<1>1. <<m>> \in Seq(S) /\ Len(<<m>>) = 1 /\ <<m>>[1] = m
      OBVIOUS
<1> DEFINE r == <<m>>
<1>2. /\ DOMAIN q = 1..Len(q) /\ Len(q) \in Nat
      /\ DOMAIN (q \o r) = 1..Len(q) + 1
      /\ \A i \in 1..Len(q) : (q \o r)[i] = q[i]
      /\ \A i \in 1..1 : (q \o r)[i + Len(q)] = r[i]
      BY <1>1, ConcatQueue
<1>3. (q \o r)[Len(q) + 1] = m
      BY <1>1, <1>2
<1>4. \A i \in 1..Len(q) + 1 : i \in 1..Len(q) \/ i = Len(q) + 1
      BY <1>2
<1> QED BY <1>2, <1>3, <1>4

\* What a handler sends besides the request that follows a flush.
LEMMA HandlerSends ==
    ASSUME FramesTypeOK, Exchange, Handler, ~ReceiveVersion, ~OnFlush, line = "live"
    PROVE  /\ UNCHANGED <<img, bufs, connected, newest, cache>>
           /\ \/ UNCHANGED toFb
              \/ /\ connected
                 /\ \E m \in FbMsgs : /\ m.t = "S" => m.image = img
                                      /\ toFb' = toFb \o <<m>>
<1>1. CASE TimerFires \/ SetTargetFPS
  <2>1. UNCHANGED <<img, bufs, connected, newest>>
        BY <1>1, TimerFiresCases, SetTargetFPSCases DEF BufferRest, SockRest
  <2>2. ASSUME NEW refresh \in BOOLEAN, AsksFor(img, refresh)
        PROVE  connected /\ \E m \in FbMsgs : /\ m.t = "S" => m.image = img
                                              /\ toFb' = toFb \o <<m>>
    <3>1. /\ Screen(img, refresh) \in FbMsgs /\ Screen(img, refresh).image = img
          BY FbMsgTypes, FrameTags DEF FramesTypeOK, ModuleTypeOK
    <3> QED BY <2>2, <3>1 DEF AsksFor
  <2>3. UNCHANGED toFb \/ AsksFor(img, force) \/ AsksFor(img, TRUE)
        BY <1>1, TimerFiresCases, SetTargetFPSCases
  <2>4. force \in BOOLEAN
        BY DEF FramesTypeOK, ModuleTypeOK
  <2> QED BY <1>1, <2>1, <2>2, <2>3, <2>4 DEF Handler
<1>2. CASE ReceiveScreen
  <2>1. Cursor \in FbMsgs /\ Cursor.t # "S"
        BY FbMsgTypes, FrameTags
  <2>2. /\ UNCHANGED <<img, bufs, connected, newest>>
        /\ connected
        /\ UNCHANGED toFb \/ toFb' = toFb \o <<Cursor>>
        BY <1>2, ReceiveScreenCases DEF SockRest
  <2> QED BY <1>2, <2>1, <2>2 DEF Handler
<1>3. CASE ReceiveCursor \/ ReceiveResolution
      BY <1>3 DEF ReceiveCursor, ReceiveResolution, SockRest, BufferRest, Handler
<1>4. CASE DidChangeView \/ Rebind
      BY <1>4 DEF DidChangeView, Rebind, InitContext, socketVars, Handler
<1>5. CASE ChangeResolution
  <2>1. PICK s \in Sizes : Sends(<<Resolution(s)>>)
        BY <1>5 DEF ChangeResolution
  <2>2. /\ UNCHANGED <<img, bufs, connected, newest>> /\ connected
        /\ toFb' = toFb \o <<Resolution(s)>>
        BY <1>5, <2>1 DEF ChangeResolution, Sends, SockRest, moduleVars, Attached
  <2>3. Resolution(s) \in FbMsgs /\ Resolution(s).t # "S"
        BY FbMsgTypes, FrameTags
  <2> QED BY <1>5, <2>2, <2>3 DEF Handler
<1> QED BY <1>1, <1>2, <1>3, <1>4, <1>5 DEF Handler

\* What the server reads it takes from the front.
LEMMA ServerReads ==
    ASSUME FramesTypeOK, Connected, Buffers, Mappings, line' = "live",
           WriteImage \/ GrabImage \/ WriteCursor \/ SetResolution \/ ReadVersion
    PROVE  /\ toFb' = toFb \/ (toFb # <<>> /\ toFb' = Tail(toFb))
           /\ fpc' = "grab" => WriteImage /\ req'.image = Head(toFb).image
                                  /\ Head(toFb).t = "S" /\ toFb # <<>>
<1>1. CASE WriteImage
      BY <1>1, WriteImageCases DEF Request, Written, DeathEffect
<1>2. CASE GrabImage
      BY <1>2, GrabImageCases DEF Written, DeathEffect
<1>3. CASE WriteCursor \/ SetResolution \/ ReadVersion
      BY <1>3 DEF WriteCursor, SetResolution, ReadVersion, Request, Writes, Dies
<1> QED BY <1>1, <1>2, <1>3

\* Every step keeps the buffer the frames are asked for with.
LEMMA BuffersStep ==
    ASSUME FramesTypeOK, FramesTypeOK', Connected, Exchange, Fresh, Buffers, Mappings, Flow,
           Next
    PROVE  Buffers'
<1>1. toFb \in Seq(FbMsgs)
      BY QueueTypes
<1>2. CASE line' # "live"
      BY <1>2 DEF Buffers
<1>3. CASE Connection /\ Accept
      BY <1>3 DEF Connection, Accept, Connected, Buffers
<1>4. CASE XStep
      BY <1>4 DEF XStep, socketVars, moduleVars, serverVars, Buffers
<1>5. ASSUME line = "live", UNCHANGED <<line, fpc, connected, img, bufs, req>>,
             NEW m \in FbMsgs, m.t = "S" => m.image = img, toFb' = toFb \o <<m>>
      PROVE  Buffers'
  <2>1. ASSUME NEW i \in DOMAIN toFb', toFb'[i].t = "S"
        PROVE  toFb'[i].image = img
        BY <1>1, <1>5, <2>1, AppendQueue DEF Buffers
  <2> QED BY <1>5, <2>1 DEF Buffers
<1>6. CASE ReceiveInit /\ UNCHANGED moduleVars /\ UNCHANGED ServerRest /\ line = "live"
  <2>1. UNCHANGED <<line, fpc, connected, img, bufs, req>>
        BY <1>6 DEF ReceiveInit, SocketClose, moduleVars, ServerRest
  <2>2. toFb' = toFb \/ toFb' = toFb \o <<CloseFrame>>
        BY <1>6 DEF ReceiveInit, SocketClose, Sends
  <2>3. CloseFrame \in FbMsgs /\ CloseFrame.t # "S"
        BY FbMsgTypes, FrameTags
  <2>4. CASE toFb' = toFb
        BY <2>1, <2>4 DEF Buffers
  <2>5. CASE toFb' = toFb \o <<CloseFrame>>
        BY <1>5, <1>6, <2>1, <2>3, <2>5
  <2> QED BY <2>2, <2>4, <2>5
<1>7. CASE Handler /\ UNCHANGED ServerRest /\ line = "live"
  <2>1. UNCHANGED <<line, fpc, req>>
        BY <1>7, HandlerSocket DEF ServerRest
  <2>2. ASSUME NEW a \in Addrs, NEW reused \in BOOLEAN, Allocate(a, reused)
        PROVE  /\ img'.addr \in Addrs /\ img' \in Images
               /\ bufs'[img'.addr] = img'.size
        BY <2>2, AllocateCases
  <2>3. CASE ReceiveVersion
    <3>1. /\ img'.addr \in Addrs /\ img' \in Images
          /\ bufs'[img'.addr] = img'.size
      <4>1. PICK a \in Addrs : Allocate(a, FALSE)
            BY <2>3 DEF ReceiveVersion
      <4> QED BY <2>2, <4>1
    <3>2. /\ fpc = "version"
          /\ \/ toFb' = <<VersionOk, Resolution(size), Screen(img', TRUE)>>
             \/ toFb' = <<VersionOk, Resolution(size)>>
          BY <2>3, ReceiveVersionCases
    <3>3. VersionOk.t # "S" /\ Resolution(size).t # "S" /\ Screen(img', TRUE).image = img'
          BY DEF VersionOk, Resolution, Screen
    <3>4. ASSUME NEW x, NEW y, NEW z, x.t # "S", y.t # "S", z.image = img',
                 toFb' = <<x, y, z>> \/ toFb' = <<x, y>>,
                 NEW i \in DOMAIN toFb', toFb'[i].t = "S"
          PROVE  toFb'[i].image = img'
          BY <3>4
    <3>5. \A i \in DOMAIN toFb' : toFb'[i].t = "S" => toFb'[i].image = img'
          BY <3>2, <3>3, <3>4
    <3> QED BY <2>1, <3>1, <3>2, <3>5 DEF Buffers
  <2>4. CASE OnFlush
    <3>1. connected /\ connected' = connected /\ force \in BOOLEAN
          BY <2>4, OnFlushImage DEF OnFlush, SockRest, FramesTypeOK, ModuleTypeOK
    <3>2. /\ img'.addr \in Addrs /\ img' \in Images
          /\ bufs'[img'.addr] = img'.size
      <4>1. PICK a \in Addrs, reused \in BOOLEAN : Allocate(a, reused)
            BY <2>4 DEF OnFlush
      <4> QED BY <2>2, <4>1
    <3>3. /\ flush # "none"
          /\ UNCHANGED toFb \/ toFb' = toFb \o <<Screen(img', force)>>
          BY <2>4, <3>1, <3>2, OnFlushCases
    <3>4. Asked = 0
          BY <1>7, <3>3 DEF Flow
    <3>5. fpc # "grab" /\ ScreensIn(toFb) = 0
          BY <3>4, AskedParts
    <3>6. \A i \in DOMAIN toFb : toFb[i].t # "S"
          BY <1>1, <3>5, ScreensFinite
    <3>7. Screen(img', force) \in FbMsgs /\ Screen(img', force).image = img'
          BY <3>1, <3>2, FbMsgTypes, FrameTags
    <3>8. ASSUME NEW i \in DOMAIN toFb', toFb'[i].t = "S"
          PROVE  toFb'[i].image = img'
          BY <1>1, <3>3, <3>6, <3>7, <3>8, AppendQueue
    <3> QED BY <2>1, <3>2, <3>5, <3>8 DEF Buffers
  <2>5. CASE ~ReceiveVersion /\ ~OnFlush
    <3>1. UNCHANGED <<img, bufs, connected>>
          BY <1>7, <2>5, HandlerSends
    <3>2. CASE UNCHANGED toFb
          BY <2>1, <3>1, <3>2 DEF Buffers
    <3>3. CASE \E m \in FbMsgs : /\ m.t = "S" => m.image = img
                                 /\ toFb' = toFb \o <<m>>
          BY <1>5, <1>7, <2>1, <3>1, <3>3
    <3> QED BY <1>7, <2>5, <3>2, <3>3, HandlerSends
  <2> QED BY <2>3, <2>4, <2>5
<1>8. CASE /\ line = "live" /\ line' = "live" /\ ServerStep
           /\ WriteImage \/ GrabImage \/ WriteCursor \/ SetResolution \/ ReadVersion
  <2>1. UNCHANGED <<img, bufs, connected>>
        BY <1>8, ServerLeavesModule
  <2>2. /\ toFb' = toFb \/ (toFb # <<>> /\ toFb' = Tail(toFb))
        /\ fpc' = "grab" => WriteImage /\ req'.image = Head(toFb).image
                               /\ Head(toFb).t = "S" /\ toFb # <<>>
        BY <1>8, ServerReads
  <2>3. ASSUME NEW i \in DOMAIN toFb', toFb'[i].t = "S"
        PROVE  toFb'[i].image = img
        BY <1>1, <1>8, <2>2, <2>3, TailQueue DEF Buffers
  <2>4. fpc' = "grab" => req'.image = img
        BY <1>1, <1>8, <2>2, TailQueue DEF Buffers
  <2> QED BY <1>8, <2>1, <2>3, <2>4 DEF Buffers
<1>9. ReadVersion /\ UNCHANGED <<moduleVars, screenVars, serverVars, events>> => ServerStep
      BY DEF ServerStep
<1> QED BY <1>2, <1>3, <1>4, <1>6, <1>7, <1>8, <1>9, LiveSteps DEF ServerStep

\* Every step keeps the mappings.
LEMMA MappingsStep ==
    ASSUME FramesTypeOK, Connected, Exchange, Fresh, Buffers, Mappings, Next
    PROVE  Mappings'
<1>1. ASSUME UNCHANGED <<cache, bufs>>
      PROVE  Mappings'
      BY <1>1 DEF Mappings
<1>2. CASE XStep
      BY <1>1, <1>2 DEF XStep, moduleVars, serverVars
<1>3. CASE KiwiStep
  <2>1. CASE ModuleGone
    <3>1. \A i \in {0, 1} : cache'[i].map # "live"
          BY <2>1 DEF ModuleGone, FramesTypeOK, ServerTypeOK
    <3> QED BY <3>1 DEF Mappings
  <2> QED BY <1>1, <1>3, <2>1 DEF KiwiStep, NewModule, moduleVars
<1>4. CASE Handler
  <2>1. CASE ReceiveVersion
    <3>1. PICK a \in Addrs : Allocate(a, FALSE)
          BY <2>1 DEF ReceiveVersion
    <3> QED BY <3>1, AllocateCases
  <2>2. CASE OnFlush
        BY <2>2, AllocateCases DEF OnFlush
  <2>3. CASE ~ReceiveVersion /\ ~OnFlush
        BY <1>1, <1>4, <2>3
        DEF Handler, TimerFires, ReceiveScreen, ReceiveCursor, ReceiveResolution,
            SetTargetFPS, DidChangeView, Rebind, ChangeResolution, InitContext,
            BufferRest, moduleVars
  <2> QED BY <2>1, <2>2, <2>3
<1>5. CASE ServerStep
  <2>1. bufs' = bufs
        BY <1>5, ServerLeavesModule
  <2>2. CASE GrabImage
        BY <2>2, GrabImageCases
  <2>3. CASE CloseMaps
    <3>1. \A i \in {0, 1} : cache'[i].map = "none"
          BY <2>3 DEF CloseMaps, FramesTypeOK, ServerTypeOK
    <3> QED BY <3>1 DEF Mappings
  <2>4. CASE ~GrabImage /\ ~CloseMaps
    <3>1. cache' = cache
          BY <1>5, <2>4 DEF ServerStep, WriteImage, WriteCursor, SetResolution, serverVars
    <3> QED BY <1>1, <2>1, <3>1
  <2> QED BY <2>2, <2>3, <2>4
<1>6. CASE Connection
      BY <1>1, <1>6 DEF Connection, moduleVars, serverVars
<1> QED BY <1>2, <1>3, <1>4, <1>5, <1>6 DEF Next, WindowStep

----------------------------------------------------------------------------
(* The copy.                                                                *)

\* Where a frame that is on its way can be: in one place only.
LEMMA OneAtATime ==
    ASSUME FramesTypeOK, Flow, line = "live"
    PROVE  /\ flush # "none" =>
                  /\ fpc # "grab"
                  /\ \A i \in DOMAIN toFb : toFb[i].t # "S"
                  /\ \A i \in DOMAIN toKiwi : toKiwi[i].t # "S"
           /\ fpc = "grab" =>
                  /\ flush = "none" /\ flying = TRUE
                  /\ \A i \in DOMAIN toFb : toFb[i].t # "S"
                  /\ \A i \in DOMAIN toKiwi : toKiwi[i].t # "S"
           /\ toFb # <<>> /\ Head(toFb).t = "S" =>
                  /\ flush = "none" /\ fpc # "grab" /\ flying = TRUE
                  /\ \A i \in DOMAIN Tail(toFb) : Tail(toFb)[i].t # "S"
                  /\ \A i \in DOMAIN toKiwi : toKiwi[i].t # "S"
           /\ toKiwi # <<>> /\ Head(toKiwi).t = "S" =>
                  /\ flush = "none" /\ fpc # "grab" /\ flying = TRUE
                  /\ \A i \in DOMAIN toFb : toFb[i].t # "S"
                  /\ \A i \in DOMAIN Tail(toKiwi) : Tail(toKiwi)[i].t # "S"
<1> DEFINE a == ScreensIn(toFb)
           g == IF fpc = "grab" THEN 1 ELSE 0
           k == ScreensIn(toKiwi)
<1>1. toFb \in Seq(FbMsgs) /\ toKiwi \in Seq(KiwiMsgs) /\ flying \in BOOLEAN
      BY QueueTypes DEF FramesTypeOK, ModuleTypeOK
<1>2. /\ a \in Nat /\ (a = 0 <=> \A i \in DOMAIN toFb : toFb[i].t # "S")
      /\ k \in Nat /\ (k = 0 <=> \A i \in DOMAIN toKiwi : toKiwi[i].t # "S")
      BY <1>1, ScreensFinite
<1>3. g \in {0, 1} /\ (g = 0 <=> fpc # "grab")
      OBVIOUS
<1>4. a + g + k <= (IF flying THEN 1 ELSE 0) /\ (flush # "none" => a + g + k = 0)
      BY Zenon DEF Flow, Asked
<1>5. ASSUME toFb # <<>>, Head(toFb).t = "S"
      PROVE  LET n == ScreensIn(Tail(toFb))
             IN  /\ n \in Nat /\ a = 1 + n
                 /\ n = 0 <=> \A i \in DOMAIN Tail(toFb) : Tail(toFb)[i].t # "S"
  <2>1. Tail(toFb) \in Seq(FbMsgs)
        BY <1>1, <1>5, TailQueue
  <2>2. a = 1 + ScreensIn(Tail(toFb))
        BY <1>1, <1>5, ScreensTail
  <2> QED BY <2>1, <2>2, ScreensFinite
<1>6. ASSUME toKiwi # <<>>, Head(toKiwi).t = "S"
      PROVE  LET n == ScreensIn(Tail(toKiwi))
             IN  /\ n \in Nat /\ k = 1 + n
                 /\ n = 0 <=> \A i \in DOMAIN Tail(toKiwi) : Tail(toKiwi)[i].t # "S"
  <2>1. Tail(toKiwi) \in Seq(KiwiMsgs)
        BY <1>1, <1>6, TailQueue
  <2>2. k = 1 + ScreensIn(Tail(toKiwi))
        BY <1>1, <1>6, ScreensTail
  <2> QED BY <2>1, <2>2, ScreensFinite
<1> HIDE DEF a, g, k
<1>7. flush # "none" => a = 0 /\ g = 0 /\ k = 0
      BY <1>2, <1>3, <1>4
<1>8. g # 0 => a = 0 /\ k = 0 /\ flying = TRUE /\ flush = "none"
      BY <1>1, <1>2, <1>3, <1>4
<1>9. a # 0 => a = 1 /\ g = 0 /\ k = 0 /\ flying = TRUE /\ flush = "none"
       BY <1>1, <1>2, <1>3, <1>4
<1>10. k # 0 => k = 1 /\ g = 0 /\ a = 0 /\ flying = TRUE /\ flush = "none"
       BY <1>1, <1>2, <1>3, <1>4
<1>11. ASSUME toFb # <<>>, Head(toFb).t = "S"
       PROVE  a # 0 /\ \A i \in DOMAIN Tail(toFb) : Tail(toFb)[i].t # "S"
       BY <1>2, <1>5, <1>9, <1>11
<1>12. ASSUME toKiwi # <<>>, Head(toKiwi).t = "S"
       PROVE  k # 0 /\ \A i \in DOMAIN Tail(toKiwi) : Tail(toKiwi)[i].t # "S"
       BY <1>2, <1>6, <1>10, <1>12
<1> QED BY <1>2, <1>3, <1>7, <1>8, <1>9, <1>10, <1>11, <1>12

\* What a step of the connection, of the X server or of the version does to it.
LEMMA CopiesQuiet ==
    ASSUME FramesTypeOK, Connected, Exchange, Fresh, Copies, line' = "live",
           \/ Connection /\ Accept
           \/ XStep /\ line = "live"
           \/ ReceiveInit /\ UNCHANGED moduleVars /\ UNCHANGED ServerRest /\ line = "live"
    PROVE  Copies'
<1>1. toKiwi \in Seq(KiwiMsgs)
      BY QueueTypes
<1>2. CASE Connection /\ Accept
  <2>1. /\ sock = "connecting" /\ fpc' = "version" /\ toKiwi' = <<Version>>
        /\ UNCHANGED moduleVars
        BY <1>2 DEF Connection, Accept
  <2>2. flush = "none" /\ flush' = "none"
        BY <2>1 DEF Connected, Fresh, moduleVars
  <2>3. \A i \in DOMAIN toKiwi' : toKiwi'[i].t # "S"
        BY <2>1, FrameTags
  <2> QED BY <2>1, <2>2, <2>3 DEF Copies, Answered
<1>3. CASE XStep /\ line = "live"
      BY <1>3 DEF XStep, socketVars, moduleVars, serverVars, Copies
<1>4. CASE ReceiveInit /\ UNCHANGED moduleVars /\ UNCHANGED ServerRest /\ line = "live"
  <2>1. fpc' = fpc /\ UNCHANGED <<flush, pix, img, shmimg>>
        BY <1>4 DEF ReceiveInit, SocketClose, moduleVars, ServerRest
  <2>2. toKiwi # <<>> /\ (toKiwi' = Tail(toKiwi) \/ toKiwi' = <<>>)
        BY <1>4 DEF ReceiveInit, SocketClose
  <2>3. ASSUME NEW i \in DOMAIN toKiwi'
        PROVE  \E j \in DOMAIN toKiwi : toKiwi'[i] = toKiwi[j]
        BY <1>1, <2>2, <2>3, TailQueue
  <2> QED BY <1>4, <2>1, <2>3 DEF Copies
<1> QED BY <1>2, <1>3, <1>4

\* A flush shows the copy, and nothing is copied under it.
LEMMA CopiesHandler ==
    ASSUME FramesTypeOK, Connected, Exchange, Fresh, Buffers, Mappings, Flow, Copies,
           Handler, UNCHANGED ServerRest, line = "live"
    PROVE  Copies'
<1>1. toKiwi \in Seq(KiwiMsgs)
      BY QueueTypes
<1>2. UNCHANGED <<fpc, line, shmimg>>
      BY HandlerSocket DEF ServerRest
<1>3. CASE ReceiveVersion
  <2>1. fpc = "version" /\ toKiwi' = <<>> /\ flush' = "none"
        BY <1>3, ReceiveVersionCases
  <2>2. DOMAIN toKiwi' = {}
        BY <2>1
  <2> QED BY <1>2, <2>1, <2>2 DEF Copies
<1>4. CASE OnFlush
  <2>1. flush # "none" /\ flush' = "none" /\ toKiwi' = toKiwi
        BY <1>4 DEF OnFlush
  <2>2. fpc # "grab" /\ \A i \in DOMAIN toKiwi' : toKiwi'[i].t # "S"
        BY <2>1, OneAtATime
  <2> QED BY <1>2, <2>1, <2>2 DEF Copies, Answered
<1>5. CASE ReceiveScreen
  <2> DEFINE reply == Head(toKiwi)
  <2>1. /\ toKiwi # <<>> /\ reply.t = "S" /\ toKiwi' = Tail(toKiwi)
        /\ 1 \in DOMAIN toKiwi /\ reply = toKiwi[1]
        /\ connected /\ img' = img
        /\ \/ reply.updated /\ Frame(reply.failed)
           \/ ~reply.updated /\ NoUpdate
        BY <1>5, ReceiveScreenCases, Received
  <2>2. /\ fpc # "grab" /\ flush = "none"
        /\ \A i \in DOMAIN toKiwi' : toKiwi'[i].t # "S"
        BY <2>1, OneAtATime
  <2>3. CASE ~reply.updated /\ NoUpdate
        BY <1>2, <2>2, <2>3 DEF NoUpdate, Copies, Answered
  <2>4. CASE reply.updated /\ Frame(reply.failed)
    <3>1. /\ shmimg.size = img.size
          /\ ~reply.failed => pix[img.addr] = shmimg.content
          BY <2>1, <2>4 DEF Copies, Answered
    <3>2. flush' = "pending" => pix'[img.addr] \in {0, shmimg.content}
      <4>1. CASE reply.failed /\ context = "ok"
        <5>1. pix' = [pix EXCEPT ![img.addr] = 0]
              BY <2>4, <4>1 DEF Frame, Paint
        <5>2. img.addr \in Addrs /\ pix \in [Addrs -> Versions]
              BY <2>1 DEF Buffers, FramesTypeOK, ModuleTypeOK
        <5> QED BY <5>1, <5>2
      <4>2. CASE ~(reply.failed /\ context = "ok")
        <5>1. pix' = pix /\ (flush' = "pending" => context = "ok")
              BY <2>4, <4>2 DEF Frame, Paint
        <5> QED BY <3>1, <4>2, <5>1
      <4> QED BY <4>1, <4>2
    <3> QED BY <1>2, <2>1, <2>2, <3>1, <3>2 DEF Copies, Answered
  <2> QED BY <2>1, <2>3, <2>4
<1>6. ASSUME UNCHANGED <<img, pix>>, flush' = flush \/ (flush = "pending" /\ flush' = "old"),
             toKiwi' = toKiwi \/ (toKiwi # <<>> /\ toKiwi' = Tail(toKiwi))
      PROVE  Copies'
  <2>1. ASSUME NEW i \in DOMAIN toKiwi'
        PROVE  \E j \in DOMAIN toKiwi : toKiwi'[i] = toKiwi[j]
        BY <1>1, <1>6, <2>1, TailQueue
  <2> QED BY <1>2, <1>6, <2>1 DEF Copies
<1>7. CASE TimerFires \/ SetTargetFPS
      BY <1>6, <1>7 DEF TimerFires, SetTargetFPS, BufferRest
<1>8. CASE ReceiveCursor \/ ReceiveResolution
      BY <1>6, <1>8 DEF ReceiveCursor, ReceiveResolution, Receives, BufferRest
<1>9. CASE DidChangeView \/ Rebind
      BY <1>6, <1>9 DEF DidChangeView, Rebind, InitContext, socketVars
<1>10. CASE ChangeResolution
       BY <1>6, <1>10 DEF ChangeResolution, moduleVars
<1> QED BY <1>3, <1>4, <1>5, <1>7, <1>8, <1>9, <1>10 DEF Handler

\* The server copies what it answers.
LEMMA CopiesServer ==
    ASSUME FramesTypeOK, Connected, Exchange, Buffers, Mappings, Flow, Copies,
           line = "live", line' = "live", ServerStep,
           WriteImage \/ GrabImage \/ WriteCursor \/ SetResolution \/ ReadVersion
    PROVE  Copies'
<1>1. toKiwi \in Seq(KiwiMsgs) /\ toFb \in Seq(FbMsgs)
      BY QueueTypes
<1>2. UNCHANGED <<flush, img>>
      BY ServerLeavesModule
<1>3. ASSUME NEW m \in KiwiMsgs, NEW then, NEW rest, Written(m, then, rest),
             NEW i \in DOMAIN toKiwi'
      PROVE  toKiwi'[i] = m \/ \E j \in DOMAIN toKiwi : toKiwi'[i] = toKiwi[j]
      BY <1>1, <1>3, AppendQueue DEF Written
<1>4. CASE WriteImage
  <2> DEFINE m == Reply(FALSE, FALSE, IF moved THEN cursor ELSE 0)
  <2>1. m \in KiwiMsgs /\ ~m.updated
    <3>1. (IF moved THEN cursor ELSE 0) \in Serials \cup {0}
          BY DEF FramesTypeOK, ScreenTypeOK
    <3> QED BY <3>1, KiwiMsgTypes DEF Reply
  <2> HIDE DEF m
  <2>2. /\ toFb # <<>> /\ Head(toFb).t = "S" /\ Head(toFb).image = img
        BY <1>1, <1>4, WriteImageCases, TailQueue DEF Request, Buffers
  <2>3. /\ flush = "none" /\ \A i \in DOMAIN toKiwi : toKiwi[i].t # "S"
        BY <2>2, OneAtATime
  <2>4. shmimg'.size = img.size
        BY <1>4, <2>2, WriteImageCases
  <2>5. CASE toKiwi' = toKiwi
        BY <1>2, <2>3, <2>4, <2>5 DEF Copies, Answered
  <2>6. CASE Written(m, "serve", Tail(toFb))
    <3>1. \A i \in DOMAIN toKiwi' : ~Answered(toKiwi'[i])
          BY <1>3, <2>1, <2>3, <2>6 DEF Answered
    <3> QED BY <1>2, <2>3, <2>4, <3>1 DEF Copies
  <2> QED BY <1>4, <2>5, <2>6, WriteImageCases DEF m, DeathEffect
<1>5. CASE GrabImage
  <2>1. PICK done \in BOOLEAN :
            /\ pix' = IF done THEN [pix EXCEPT ![req.image.addr] = Grabbed] ELSE pix
            /\ \/ line = "reset" /\ DeathEffect
               \/ Written(Reply(TRUE, ~done, req.cursor), "serve", toFb)
        BY <1>5, GrabImageCases
  <2> DEFINE m == Reply(TRUE, ~done, req.cursor)
  <2>2. Written(m, "serve", toFb) /\ m \in KiwiMsgs /\ m.t = "S" /\ m.failed = ~done
    <3>1. req.cursor \in Serials \cup {0} /\ (~done) \in BOOLEAN
          BY DEF FramesTypeOK, ServerTypeOK
    <3> QED BY <2>1, <3>1, KiwiMsgTypes DEF Reply
  <2> HIDE DEF m
  <2>3. fpc = "grab" /\ fpc' = "serve"
        BY <1>5, <2>2, GrabImageCases DEF Written
  <2>4. /\ flush = "none" /\ \A i \in DOMAIN toKiwi : toKiwi[i].t # "S"
        BY <2>3, OneAtATime
  <2>5. /\ req.image.addr = img.addr /\ img.addr \in Addrs /\ shmimg.size = img.size
        BY <2>3 DEF Connected, Buffers, Copies
  <2>6. shmimg'.size = img.size /\ shmimg'.content = Grabbed
    <3>1. shmimg' = [shmimg EXCEPT !.content = Grabbed]
          BY <1>5 DEF GrabImage
    <3> QED BY <2>5, <3>1 DEF FramesTypeOK, ServerTypeOK
  <2>7. done => pix'[img.addr] = shmimg'.content
        BY <2>1, <2>5, <2>6 DEF FramesTypeOK, ModuleTypeOK
  <2>8. ASSUME NEW i \in DOMAIN toKiwi', Answered(toKiwi'[i])
        PROVE  toKiwi'[i] = m
        BY <1>3, <2>2, <2>4, <2>8 DEF Answered
  <2> QED BY <1>2, <2>2, <2>3, <2>4, <2>6, <2>7, <2>8 DEF Copies
<1>6. ASSUME NEW m \in KiwiMsgs, m.t # "S", Writes(<<m>>, "serve", Tail(toFb)),
             UNCHANGED <<shmimg, pix>>, fpc # "grab"
      PROVE  Copies'
  <2>1. Written(m, "serve", Tail(toFb))
        BY <1>6, WritesCases
  <2>2. ASSUME NEW i \in DOMAIN toKiwi', Answered(toKiwi'[i])
        PROVE  \E j \in DOMAIN toKiwi : toKiwi'[i] = toKiwi[j]
        BY <1>3, <1>6, <2>1, <2>2 DEF Answered
  <2>3. fpc' = "serve"
        BY <2>1 DEF Written
  <2> QED BY <1>2, <1>6, <2>2, <2>3 DEF Copies
<1>7. CASE WriteCursor
  <2> DEFINE m == [t |-> "P", cursor |-> cursor]
  <2>1. m \in KiwiMsgs /\ m.t # "S"
        BY KiwiMsgTypes DEF FramesTypeOK, ScreenTypeOK
  <2> QED BY <1>6, <1>7, <2>1 DEF WriteCursor, Request, moduleVars, serverVars
<1>8. CASE SetResolution
  <2>1. PICK s \in Sizes : Writes(<<Resolution(s)>>, "serve", Tail(toFb))
        BY <1>8, SetResolutionCases DEF Dies
  <2>2. Resolution(s) \in KiwiMsgs /\ Resolution(s).t # "S"
        BY KiwiMsgTypes, FrameTags
  <2> QED BY <1>6, <1>8, <2>1, <2>2 DEF SetResolution, Request, moduleVars, serverVars
<1>9. CASE ReadVersion
  <2>1. Writes(<<InitInfo>>, "serve", Tail(toFb)) /\ fpc # "grab"
        BY <1>9 DEF ReadVersion
  <2>2. InitInfo \in KiwiMsgs /\ InitInfo.t # "S"
        BY KiwiMsgTypes, FrameTags
  <2>3. ~WriteImage /\ ~GrabImage /\ ~WriteCursor /\ ~SetResolution
        BY <1>9 DEF ReadVersion, WriteImage, GrabImage, WriteCursor, SetResolution, Request
  <2>4. UNCHANGED <<shmimg, pix>>
        BY <2>3 DEF ServerStep, moduleVars, serverVars
  <2> QED BY <1>6, <2>1, <2>2, <2>4
<1> QED BY <1>4, <1>5, <1>7, <1>8, <1>9

\* Every step keeps the copies.
LEMMA CopiesStep ==
    ASSUME FramesTypeOK, Connected, Exchange, Fresh, Buffers, Mappings, Flow, Copies, Next
    PROVE  Copies'
<1>1. CASE line' # "live"
      BY <1>1 DEF Copies
<1>2. CASE line' = "live"
  <2>1. ReadVersion /\ UNCHANGED <<moduleVars, screenVars, serverVars, events>> => ServerStep
        BY DEF ServerStep
  <2> QED BY <1>2, <2>1, LiveSteps, CopiesQuiet, CopiesHandler, CopiesServer DEF ServerStep
<1> QED BY <1>1, <1>2

\* Every step keeps the ages: what is flushed was copied, what is copied was drawn.
LEMMA AgesStep ==
    ASSUME FramesTypeOK, Connected, Exchange, Fresh, Buffers, Mappings, Flow, Copies, Ages,
           Next
    PROVE  Ages'
<1>1. /\ MaxContent \in Nat /\ content \in Nat /\ newest \in Nat /\ shmimg.content \in Nat
      /\ shmimg \in [size : Sizes \cup {0}, content : Versions]
      BY FramesAssumption
      DEF FramesTypeOK, ModuleTypeOK, ServerTypeOK, ScreenTypeOK, Versions, Garbage
<1>2. ASSUME UNCHANGED <<content, newest>>, shmimg'.content \in {0, shmimg.content}
      PROVE  Ages'
      BY <1>1, <1>2 DEF Ages
<1>3. CASE XStep
  <2>1. CASE content < MaxContent /\ content' = content + 1
    <3>1. UNCHANGED <<newest, shmimg>>
          BY <1>3 DEF XStep, moduleVars, serverVars
    <3> QED BY <1>1, <2>1, <3>1 DEF Ages
  <2>2. CASE content' = content
        BY <1>2, <1>3, <2>2 DEF XStep, moduleVars, serverVars
  <2> QED BY <1>3, <2>1, <2>2 DEF XStep, Draw, DrawInNewWindow, ChangeCursor
<1>4. CASE WindowStep
  <2>1. UNCHANGED <<content, shmimg>>
        BY <1>4 DEF WindowStep, ServerRest, screenVars
  <2>2. CASE newest' = newest
        BY <1>2, <2>1, <2>2
  <2>3. CASE newest' = 0
        BY <1>1, <2>1, <2>3 DEF Ages
  <2>4. CASE OnFlush /\ newest' # newest
    <3>1. /\ line = "live" /\ flush = "pending" /\ pix[img.addr] # 0
          /\ newest' = pix[img.addr]
          BY <2>4 DEF OnFlush, Attached
    <3>2. newest' = shmimg.content
          BY <3>1 DEF Copies
    <3> QED BY <1>1, <2>1, <3>2 DEF Ages
  <2>5. newest' = newest \/ newest' = 0 \/ OnFlush
    <3>1. CASE KiwiStep
          BY <3>1 DEF KiwiStep, NewModule, ModuleGone, moduleVars
    <3>2. CASE Handler
          BY <3>2
          DEF Handler, ReceiveVersion, TimerFires, ReceiveScreen, ReceiveCursor,
              ReceiveResolution, SetTargetFPS, DidChangeView, Rebind, ChangeResolution,
              InitContext, BufferRest, moduleVars
    <3> QED BY <1>4, <3>1, <3>2 DEF WindowStep
  <2> QED BY <2>2, <2>3, <2>4, <2>5
<1>5. CASE ServerStep
  <2>1. newest' = newest
        BY <1>5, ServerLeavesModule
  <2>2. content' = content
        BY <1>5 DEF ServerStep, WriteImage, GrabImage, WriteCursor, SetResolution, screenVars
  <2>3. CASE GrabImage
    <3>1. shmimg'.content = Grabbed
          BY <1>1, <2>3 DEF GrabImage
    <3>2. Grabbed = content \/ Grabbed = shmimg.content
          BY DEF Grabbed
    <3> QED BY <1>1, <2>1, <2>2, <3>1, <3>2 DEF Ages
  <2>4. CASE WriteImage
    <3>1. shmimg'.content \in {0, shmimg.content}
          BY <2>4, WriteImageCases
    <3> QED BY <1>2, <2>1, <2>2, <3>1
  <2>5. CASE ~GrabImage /\ ~WriteImage
    <3>1. shmimg' = shmimg
          BY <1>5, <2>5 DEF ServerStep, WriteCursor, SetResolution, serverVars
    <3> QED BY <1>2, <2>1, <2>2, <3>1
  <2> QED BY <2>3, <2>4, <2>5
<1>6. CASE Connection
      BY <1>2, <1>6 DEF Connection, moduleVars, serverVars
<1> QED BY <1>3, <1>4, <1>5, <1>6 DEF Next

\* What is flushed is not older than what was shown before, or blank.
LEMMA MirrorStep ==
    ASSUME FramesTypeOK, Connected, Copies, Ages, [Next]_vars
    PROVE  [Screens!Next]_(Screens!vars)
<1> USE DEF Screens!Next, Screens!vars
<1>1. /\ content \in Nat /\ newest \in Nat /\ shmimg.content \in Nat
      BY FramesAssumption
      DEF FramesTypeOK, ModuleTypeOK, ServerTypeOK, ScreenTypeOK, Versions, Garbage
<1>2. CASE UNCHANGED vars
      BY <1>2 DEF vars, moduleVars, screenVars
<1>3. CASE XStep
  <2>1. UNCHANGED <<shown, newest>>
        BY <1>3 DEF XStep, moduleVars
  <2>2. content' = content + 1 \/ content' = content
        BY <1>3 DEF XStep, Draw, DrawInNewWindow, ChangeCursor
  <2> QED BY <2>1, <2>2 DEF Screens!Draw
<1>4. CASE WindowStep
  <2>1. content' = content
        BY <1>4 DEF WindowStep, ServerRest, screenVars
  <2>2. CASE OnFlush
    <3>1. CASE flush # "pending"
          BY <2>1, <2>2, <3>1 DEF OnFlush
    <3>2. CASE flush = "pending"
      <4>1. /\ shown' = pix[img.addr]
            /\ newest' = IF shown' = 0 THEN newest ELSE shown'
            /\ shown' \in {0, shmimg.content}
            BY <2>2, <3>2 DEF OnFlush, Attached, Copies
      <4>2. CASE shown' = 0
            BY <2>1, <4>1, <4>2 DEF Screens!Blank
      <4>3. CASE shown' # 0
        <5>1. shown' = shmimg.content /\ newest' = shown'
              BY <4>1, <4>3
        <5>2. shown' \in newest..content
              BY <1>1, <4>3, <5>1 DEF Ages
        <5> QED BY <2>1, <5>1, <5>2 DEF Screens!Show
      <4> QED BY <4>2, <4>3
    <3> QED BY <3>1, <3>2
  <2>3. CASE ModuleGone
        BY <2>1, <2>3 DEF ModuleGone, Screens!NewWindow
  <2>4. CASE DidChangeView \/ Rebind
        BY <2>1, <2>4 DEF DidChangeView, Rebind, InitContext, Screens!Blank
  <2>5. CASE ~OnFlush /\ ~ModuleGone /\ ~DidChangeView /\ ~Rebind
    <3>1. UNCHANGED <<shown, newest>>
      <4>1. CASE KiwiStep
            BY <2>5, <4>1 DEF KiwiStep, NewModule, moduleVars
      <4>2. CASE Handler
            BY <2>5, <4>2
            DEF Handler, ReceiveVersion, TimerFires, ReceiveScreen, ReceiveCursor,
                ReceiveResolution, SetTargetFPS, ChangeResolution, BufferRest, moduleVars
      <4> QED BY <1>4, <4>1, <4>2 DEF WindowStep
    <3> QED BY <2>1, <3>1
  <2> QED BY <2>2, <2>3, <2>4, <2>5
<1>5. CASE ServerStep
  <2>1. UNCHANGED <<shown, newest>>
        BY <1>5, ServerLeavesModule
  <2>2. content' = content
        BY <1>5 DEF ServerStep, WriteImage, GrabImage, WriteCursor, SetResolution, screenVars
  <2> QED BY <2>1, <2>2
<1>6. CASE Connection
      BY <1>6 DEF Connection, moduleVars
<1> QED BY <1>2, <1>3, <1>4, <1>5, <1>6 DEF Next

----------------------------------------------------------------------------
(* The cursor.                                                              *)

\* One frame more: with the news, or without any other.
LEMMA TellsAppend ==
    ASSUME NEW S, NEW q \in Seq(S), NEW m \in S, NEW c
    PROVE  /\ Carries(m) /\ m.cursor = c => Tells(q \o <<m>>, c)
           /\ (~Carries(m) \/ m.cursor \in {0, c}) /\ Tells(q, c) => Tells(q \o <<m>>, c)
           /\ (~Carries(m) \/ m.cursor \in {0, c}) /\ Only(q, c) => Only(q \o <<m>>, c)
<1> DEFINE r == q \o <<m>>
           n == Len(q) + 1
<1>1. /\ DOMAIN q = 1..Len(q) /\ DOMAIN r = 1..n /\ Len(q) \in Nat
      /\ \A i \in DOMAIN q : r[i] = q[i]
      /\ r[n] = m
      /\ \A i \in DOMAIN r : \/ i \in DOMAIN q /\ r[i] = q[i]
                             \/ i = n /\ r[i] = m
      BY AppendQueue
<1> HIDE DEF r
<1>2. ASSUME Carries(m), m.cursor = c
      PROVE  Tells(r, c)
  <2>1. n \in DOMAIN r /\ \A j \in DOMAIN r : ~(j > n)
        BY <1>1
  <2> QED BY <1>1, <1>2, <2>1 DEF Tells
<1>3. ASSUME ~Carries(m) \/ m.cursor \in {0, c}, Tells(q, c)
      PROVE  Tells(r, c)
  <2>1. PICK i \in DOMAIN q :
            /\ Carries(q[i]) /\ q[i].cursor = c
            /\ \A j \in DOMAIN q : j > i /\ Carries(q[j]) => q[j].cursor \in {0, c}
        BY <1>3 DEF Tells
  <2>2. i \in DOMAIN r /\ r[i] = q[i]
        BY <1>1
  <2>3. ASSUME NEW j \in DOMAIN r, j > i, Carries(r[j])
        PROVE  r[j].cursor \in {0, c}
        BY <1>1, <1>3, <2>1, <2>3
  <2> QED BY <2>1, <2>2, <2>3 DEF Tells
<1>4. ASSUME ~Carries(m) \/ m.cursor \in {0, c}, Only(q, c)
      PROVE  Only(r, c)
      BY <1>1, <1>4 DEF Only
<1> QED BY <1>2, <1>3, <1>4 DEF r

\* One frame less: the news is still to come, or has just come.
LEMMA TellsTail ==
    ASSUME NEW S, NEW q \in Seq(S), q # <<>>, NEW c
    PROVE  /\ Tells(q, c) =>
                  \/ Tells(Tail(q), c)
                  \/ Carries(Head(q)) /\ Head(q).cursor = c /\ Only(Tail(q), c)
           /\ Only(q, c) =>
                  Only(Tail(q), c) /\ (Carries(Head(q)) => Head(q).cursor \in {0, c})
<1> DEFINE r == Tail(q)
<1>1. /\ DOMAIN q = 1..Len(q) /\ Len(q) \in Nat /\ Head(q) = q[1] /\ 1 \in DOMAIN q
      /\ \A i \in DOMAIN r : i + 1 \in DOMAIN q /\ r[i] = q[i + 1]
      /\ \A i \in DOMAIN q : i # 1 => i - 1 \in DOMAIN r /\ r[i - 1] = q[i]
      BY TailQueue
<1>2. DOMAIN r \subseteq Int
  <2>1. r \in Seq(S)
        BY TailQueue
  <2> HIDE DEF r
  <2> QED BY <2>1
<1> HIDE DEF r
<1>3. ASSUME Tells(q, c)
      PROVE  \/ Tells(r, c)
             \/ Carries(Head(q)) /\ Head(q).cursor = c /\ Only(r, c)
  <2>1. PICK i \in DOMAIN q :
            /\ Carries(q[i]) /\ q[i].cursor = c
            /\ \A j \in DOMAIN q : j > i /\ Carries(q[j]) => q[j].cursor \in {0, c}
        BY <1>3 DEF Tells
  <2>2. ASSUME NEW j \in DOMAIN r, j + 1 > i, Carries(r[j])
        PROVE  r[j].cursor \in {0, c}
        BY <1>1, <2>1, <2>2
  <2>3. CASE i = 1
    <3>1. \A j \in DOMAIN r : j + 1 > 1
      <4>1. \A j \in DOMAIN r : j + 1 \in 1..Len(q) /\ j \in DOMAIN r
            BY <1>1
      <4>2. r \in Seq(S)
            BY TailQueue DEF r
      <4> QED BY <4>2
    <3> QED BY <1>1, <2>1, <2>2, <2>3, <3>1 DEF Only
  <2>4. CASE i # 1
    <3>1. i - 1 \in DOMAIN r /\ r[i - 1] = q[i]
          BY <1>1, <2>4
    <3>2. ASSUME NEW j \in DOMAIN r, j > i - 1, Carries(r[j])
          PROVE  r[j].cursor \in {0, c}
      <4>1. j + 1 > i
            BY <1>1, <1>2, <3>2
      <4> QED BY <2>2, <3>2, <4>1
    <3> QED BY <2>1, <3>1, <3>2 DEF Tells
  <2> QED BY <2>3, <2>4
<1>4. Only(q, c) => Only(r, c) /\ (Carries(Head(q)) => Head(q).cursor \in {0, c})
      BY <1>1 DEF Only
<1> QED BY <1>3, <1>4 DEF r

\* Where the news of the cursor is.
Under ==
    \/ fpc = "grab" /\ req.cursor # 0
    \/ \E i \in DOMAIN toFb : toFb[i].t = "P"
    \/ Tells(toKiwi, cursor)
    \/ kcursor = cursor /\ Only(toKiwi, cursor)

\* What the window does with the news: it shows the cursor, or asks for its data.
LEMMA CursorHandler ==
    ASSUME FramesTypeOK, Connected, Exchange, Fresh, Mappings, Under,
           Handler, UNCHANGED ServerRest, line = "live"
    PROVE  Under'
<1>1. /\ toFb \in Seq(FbMsgs) /\ toKiwi \in Seq(KiwiMsgs) /\ cursor \in Serials
      /\ 0 \notin Serials
      BY QueueTypes, FramesAssumption DEF FramesTypeOK, ScreenTypeOK
<1>2. sock = "open" /\ UNCHANGED <<fpc, req, cursor>>
      BY HandlerSocket DEF ServerRest, screenVars
<1>3. ASSUME toFb' = toFb \/ \E m \in FbMsgs : toFb' = toFb \o <<m>>,
             \E i \in DOMAIN toFb : toFb[i].t = "P"
      PROVE  \E i \in DOMAIN toFb' : toFb'[i].t = "P"
  <2>1. PICK i \in DOMAIN toFb : toFb[i].t = "P"
        BY <1>3
  <2>2. CASE toFb' = toFb
        BY <2>1, <2>2
  <2>3. ASSUME NEW m \in FbMsgs, toFb' = toFb \o <<m>>
        PROVE  i \in DOMAIN toFb' /\ toFb'[i] = toFb[i]
        BY <1>1, <2>3, AppendQueue
  <2> QED BY <1>3, <2>1, <2>2, <2>3
<1>4. ASSUME toFb' = toFb \/ \E m \in FbMsgs : toFb' = toFb \o <<m>>, UNCHANGED <<toKiwi, kcursor>>
      PROVE  Under'
      BY <1>2, <1>3, <1>4 DEF Under
<1>5. CASE ReceiveVersion
  <2>1. /\ fpc = "version" /\ toFb = <<>> /\ toKiwi = <<Version>> /\ toKiwi' = <<>>
        /\ kcursor' = kcursor
        BY <1>5, ReceiveVersionCases DEF OutputRest
  <2>2. ~Tells(toKiwi, cursor)
        BY <2>1, FrameTags DEF Tells, Carries
  <2>3. kcursor = cursor
        BY <2>1, <2>2 DEF Under
  <2>4. Only(toKiwi', cursor)
        BY <2>1 DEF Only
  <2> QED BY <1>2, <2>1, <2>3, <2>4 DEF Under
<1>6. CASE OnFlush
  <2>1. connected /\ img' \in Images /\ force \in BOOLEAN
        BY <1>6, OnFlushImage DEF FramesTypeOK, ModuleTypeOK
  <2>2. Screen(img', force) \in FbMsgs
        BY <2>1, FbMsgTypes
  <2>3. toFb' = toFb \/ toFb' = toFb \o <<Screen(img', force)>>
        BY <1>6, <2>1, OnFlushCases
  <2>4. UNCHANGED <<toKiwi, kcursor>>
        BY <1>6 DEF OnFlush, OutputRest
  <2> QED BY <1>4, <2>2, <2>3, <2>4
<1>7. ASSUME ~ReceiveVersion, ~OnFlush
      PROVE  toFb' = toFb \/ \E m \in FbMsgs : toFb' = toFb \o <<m>>
      BY <1>7, HandlerSends
<1>8. CASE TimerFires \/ SetTargetFPS \/ DidChangeView \/ Rebind \/ ChangeResolution
  <2>1. UNCHANGED <<toKiwi, kcursor>>
        BY <1>8
        DEF TimerFires, SetTargetFPS, DidChangeView, Rebind, ChangeResolution,
            InitContext, OutputRest, socketVars, moduleVars
  <2>2. CASE OnFlush \/ ReceiveVersion
        BY <1>5, <1>6, <2>2
  <2> QED BY <1>4, <1>7, <2>1, <2>2
<1>9. CASE ReceiveScreen \/ ReceiveCursor \/ ReceiveResolution
  <2> SUFFICES ASSUME ~ReceiveVersion, ~OnFlush
               PROVE  Under'
      BY <1>5, <1>6
  <2> DEFINE m == Head(toKiwi)
  <2>1. /\ toKiwi # <<>> /\ toKiwi' = Tail(toKiwi) /\ m \in KiwiMsgs
        /\ m.t = "S" \/ m.t = "P" \/ m.t = "R"
        BY <1>9, Received DEF ReceiveScreen, ReceiveCursor, ReceiveResolution
  <2>2. toFb' = toFb \/ \E f \in FbMsgs : toFb' = toFb \o <<f>>
        BY <1>7
  <2>3. \/ kcursor' = kcursor /\ (Carries(m) => m.cursor = 0)
        \/ kcursor' = m.cursor /\ Carries(m) /\ m.cursor # 0
        \/ \E i \in DOMAIN toFb' : toFb'[i].t = "P"
    <3>1. CASE ReceiveScreen
      <4>1. \/ m.cursor = 0 /\ kcursor' = kcursor
            \/ m.cursor # 0 /\ kcursor' = m.cursor
            \/ toFb' = toFb \o <<Cursor>>
            BY <3>1, ReceiveScreenCases
      <4>2. m.t = "S"
            BY <3>1, ReceiveScreenCases, Received
      <4>3. ASSUME toFb' = toFb \o <<Cursor>>
            PROVE  \E i \in DOMAIN toFb' : toFb'[i].t = "P"
            BY <1>1, <4>3, AppendQueue, FbMsgTypes, FrameTags
      <4> QED BY <4>1, <4>2, <4>3 DEF Carries
    <3>2. CASE ReceiveCursor
      <4>1. m.t = "P" /\ kcursor' = m.cursor
            BY <3>2, Received DEF ReceiveCursor
      <4> QED BY <1>1, <2>1, <4>1, KiwiMsgCases DEF Carries
    <3>3. CASE ReceiveResolution
      <4>1. m.t = "R" /\ kcursor' = kcursor
            BY <3>3, Received DEF ReceiveResolution
      <4> QED BY <4>1 DEF Carries
    <3> QED BY <1>9, <3>1, <3>2, <3>3
  <2>4. /\ Tells(toKiwi, cursor) =>
               \/ Tells(toKiwi', cursor)
               \/ Carries(m) /\ m.cursor = cursor /\ Only(toKiwi', cursor)
        /\ Only(toKiwi, cursor) =>
               Only(toKiwi', cursor) /\ (Carries(m) => m.cursor \in {0, cursor})
        BY <1>1, <2>1, TellsTail
  <2> HIDE DEF m
  <2>5. (\E i \in DOMAIN toFb : toFb[i].t = "P") => \E i \in DOMAIN toFb' : toFb'[i].t = "P"
        BY <1>3, <2>2
  <2> QED BY <1>1, <1>2, <2>3, <2>4, <2>5 DEF Under
<1> QED BY <1>5, <1>6, <1>8, <1>9 DEF Handler

\* What the server does with it: it copies the cursor into its next reply.
LEMMA CursorServer ==
    ASSUME FramesTypeOK, Connected, Exchange, Buffers, Mappings, CursorNews,
           moved \/ untold \/ Under,
           sock = "open", line = "live", line' = "live", ~moved', ~untold', ServerStep,
           WriteImage \/ GrabImage \/ WriteCursor \/ SetResolution \/ ReadVersion
    PROVE  Under'
<1>1. /\ toFb \in Seq(FbMsgs) /\ toKiwi \in Seq(KiwiMsgs) /\ cursor \in Serials
      /\ 0 \notin Serials
      BY QueueTypes, FramesAssumption DEF FramesTypeOK, ScreenTypeOK
<1>2. UNCHANGED <<sock, kcursor, cursor, untold>> /\ (~WriteImage => moved' = moved)
      BY ServerLeavesModule
      DEF ServerStep, WriteImage, GrabImage, WriteCursor, SetResolution, screenVars
<1>3. ASSUME toFb # <<>>, Head(toFb).t # "P", \E i \in DOMAIN toFb : toFb[i].t = "P"
      PROVE  \E i \in DOMAIN Tail(toFb) : Tail(toFb)[i].t = "P"
  <2>1. PICK i \in DOMAIN toFb : toFb[i].t = "P"
        BY <1>3
  <2>2. i # 1
        BY <1>1, <1>3, <2>1, TailQueue
  <2>3. i - 1 \in DOMAIN Tail(toFb) /\ Tail(toFb)[i - 1] = toFb[i]
        BY <1>1, <1>3, <2>2, TailQueue
  <2> QED BY <2>1, <2>3
<1>4. ASSUME NEW m \in KiwiMsgs, NEW rest, Written(m, "serve", rest)
      PROVE  /\ toKiwi' = toKiwi \o <<m>> /\ toFb' = rest /\ fpc' = "serve"
             /\ Carries(m) /\ m.cursor = cursor => Tells(toKiwi', cursor)
             /\ ~Carries(m) \/ m.cursor \in {0, cursor} =>
                    /\ Tells(toKiwi, cursor) => Tells(toKiwi', cursor)
                    /\ Only(toKiwi, cursor) => Only(toKiwi', cursor)
  <2>1. toKiwi' = toKiwi \o <<m>> /\ toFb' = rest /\ fpc' = "serve"
        BY <1>4 DEF Written
  <2> QED BY <1>1, <2>1, TellsAppend
<1>5. CASE WriteImage
  <2> DEFINE m == Reply(FALSE, FALSE, IF moved THEN cursor ELSE 0)
  <2>1. fpc = "serve" /\ toFb # <<>> /\ Head(toFb).t = "S"
        BY <1>5, WriteImageCases DEF Request
  <2>2. m \in KiwiMsgs /\ Carries(m) /\ m.cursor = IF moved THEN cursor ELSE 0
    <3>1. (IF moved THEN cursor ELSE 0) \in Serials \cup {0}
          BY <1>1
    <3> QED BY <3>1, KiwiMsgTypes DEF Reply, Carries
  <2> HIDE DEF m
  <2>3. CASE fpc' = "grab" /\ toFb' = Tail(toFb) /\ toKiwi' = toKiwi
             /\ req'.cursor = IF moved THEN cursor ELSE 0
    <3>1. CASE moved
          BY <1>1, <2>3, <3>1 DEF Under
    <3>2. CASE ~moved
          BY <1>2, <1>3, <2>1, <2>3, <3>2 DEF Under
    <3> QED BY <3>1, <3>2
  <2>4. CASE Written(m, "serve", Tail(toFb))
    <3>1. CASE moved
          BY <1>4, <2>2, <2>4, <3>1, <1>2 DEF Under
    <3>2. CASE ~moved
          BY <1>2, <1>3, <1>4, <2>1, <2>2, <2>4, <3>2 DEF Under
    <3> QED BY <3>1, <3>2
  <2> QED BY <1>5, <2>3, <2>4, WriteImageCases DEF m, DeathEffect
<1>6. CASE GrabImage
  <2>1. PICK done \in BOOLEAN : Written(Reply(TRUE, ~done, req.cursor), "serve", toFb)
        BY <1>6, GrabImageCases DEF DeathEffect
  <2> DEFINE m == Reply(TRUE, ~done, req.cursor)
  <2>2. m \in KiwiMsgs /\ Carries(m) /\ m.cursor = req.cursor
    <3>1. req.cursor \in Serials \cup {0} /\ (~done) \in BOOLEAN
          BY DEF FramesTypeOK, ServerTypeOK
    <3> QED BY <3>1, KiwiMsgTypes DEF Reply, Carries
  <2>3. fpc = "grab" /\ ~moved /\ Written(m, "serve", toFb)
    <3>1. fpc = "grab"
          BY <1>6 DEF GrabImage
    <3>2. ~WriteImage
          BY <3>1 DEF WriteImage, Request
    <3>3. ~moved
          BY <1>2, <3>2
    <3> QED BY <2>1, <3>1, <3>3
  <2> HIDE DEF m
  <2>4. req.cursor # 0 => req.cursor = cursor
        BY <2>3 DEF CursorNews
  <2> QED BY <1>2, <1>4, <2>2, <2>3, <2>4 DEF Under
<1>7. CASE WriteCursor
  <2> DEFINE m == [t |-> "P", cursor |-> cursor]
  <2>1. m \in KiwiMsgs /\ Carries(m) /\ m.cursor = cursor
        BY <1>1, KiwiMsgTypes DEF Carries
  <2>2. Written(m, "serve", Tail(toFb))
        BY <1>7, WritesCases DEF WriteCursor, DeathEffect
  <2> HIDE DEF m
  <2> QED BY <1>2, <1>4, <2>1, <2>2 DEF Under
<1>8. ASSUME NEW m \in KiwiMsgs, ~Carries(m), Writes(<<m>>, "serve", Tail(toFb)),
             toFb # <<>>, Head(toFb).t # "P", fpc # "grab", ~WriteImage
      PROVE  Under'
  <2>1. Written(m, "serve", Tail(toFb))
        BY <1>8, WritesCases DEF DeathEffect
  <2> QED BY <1>2, <1>3, <1>4, <1>8, <2>1 DEF Under
<1>9. CASE SetResolution
  <2>1. PICK s \in Sizes : Writes(<<Resolution(s)>>, "serve", Tail(toFb))
        BY <1>9, SetResolutionCases DEF Dies
  <2>2. Resolution(s) \in KiwiMsgs /\ ~Carries(Resolution(s))
        BY KiwiMsgTypes, FrameTags DEF Carries
  <2>3. toFb # <<>> /\ Head(toFb).t = "R" /\ fpc = "serve" /\ ~WriteImage
        BY <1>9 DEF SetResolution, WriteImage, Request
  <2> QED BY <1>8, <2>1, <2>2, <2>3
<1>10. CASE ReadVersion
  <2>1. InitInfo \in KiwiMsgs /\ ~Carries(InitInfo) /\ VersionOk.t = "VOK"
        BY KiwiMsgTypes, FrameTags DEF Carries
  <2>2. /\ Writes(<<InitInfo>>, "serve", Tail(toFb))
        /\ toFb # <<>> /\ Head(toFb).t = "VOK" /\ fpc = "version" /\ ~WriteImage
        BY <1>10, <2>1 DEF ReadVersion, WriteImage, Request
  <2> QED BY <1>8, <2>1, <2>2
<1> QED BY <1>5, <1>6, <1>7, <1>9, <1>10

\* Every step keeps the news.
LEMMA CursorStep ==
    ASSUME FramesTypeOK, Connected, Exchange, Fresh, Buffers, Mappings, CursorNews, Next
    PROVE  CursorNews'
<1>1. ASSUME fpc' = "grab", req'.cursor # 0, ~moved'
      PROVE  req'.cursor = cursor'
  <2>1. CASE XStep
        BY <1>1, <2>1
        DEF XStep, Draw, DrawInNewWindow, ChangeCursor, socketVars, serverVars, CursorNews
  <2>2. CASE WindowStep
    <3>1. UNCHANGED <<req, cursor, moved>>
          BY <2>2 DEF WindowStep, ServerRest, screenVars
    <3>2. fpc' = fpc
      <4>1. CASE Handler
            BY <4>1, HandlerSocket
      <4>2. CASE KiwiStep
            BY <4>2
            DEF KiwiStep, OpenWindow, CloseWindow, ReceiveError, ConnectFails, ConnectAgain,
                ReceiveInit, OnSocketClosed, SocketClose
      <4> QED BY <2>2, <4>1, <4>2 DEF WindowStep
    <3> QED BY <1>1, <3>1, <3>2 DEF CursorNews
  <2>3. CASE ServerStep
    <3>1. CASE WriteImage
      <4>1. cursor' = cursor /\ (fpc' = "grab" => req'.cursor = IF moved THEN cursor ELSE 0)
            BY <3>1, WriteImageCases DEF DeathEffect, Dead, Written
      <4> QED BY <1>1, <4>1
    <3>2. CASE ~WriteImage
          BY <1>1, <2>3, <3>2
          DEF ServerStep, GrabImage, WriteCursor, SetResolution, EndOfConnection,
              ReadVersion, ReadVersionFails, CloseKilled, Writes, Dies
    <3> QED BY <3>1, <3>2
  <2>4. CASE Connection
        BY <1>1, <2>4 DEF Connection, Accept, AcceptFails
  <2> QED BY <2>1, <2>2, <2>3, <2>4 DEF Next
<1>2. ASSUME sock' = "open", line' = "live", ~moved', ~untold'
      PROVE  Under'
  <2>1. CursorNews => (sock = "open" /\ line = "live" => moved \/ untold \/ Under)
        BY DEF CursorNews, Under
  <2>2. CASE Connection /\ Accept
        BY <1>2, <2>2 DEF Connection, Accept, AcceptFails
  <2>3. CASE XStep /\ line = "live"
    <3>1. UNCHANGED <<socketVars, kcursor, req>>
          BY <2>3 DEF XStep, moduleVars, serverVars
    <3>2. UNCHANGED <<cursor, moved, untold>>
          BY <1>2, <2>3 DEF XStep, Draw, DrawInNewWindow, ChangeCursor
    <3> QED BY <1>2, <2>1, <2>3, <3>1, <3>2 DEF Under, socketVars
  <2>4. CASE ReceiveInit /\ UNCHANGED moduleVars /\ UNCHANGED ServerRest /\ line = "live"
    <3>1. /\ toKiwi # <<>> /\ Head(toKiwi) = InitInfo /\ toKiwi' = Tail(toKiwi)
          /\ sock = "open" /\ UNCHANGED <<toFb, fpc, kcursor, req, cursor, moved, untold>>
          BY <1>2, <2>4 DEF ReceiveInit, SocketClose, moduleVars, ServerRest, screenVars
    <3>2. toKiwi \in Seq(KiwiMsgs) /\ ~Carries(Head(toKiwi))
          BY <3>1, QueueTypes, FrameTags DEF Carries
    <3>3. /\ Tells(toKiwi, cursor) => Tells(toKiwi', cursor)
          /\ Only(toKiwi, cursor) => Only(toKiwi', cursor)
          BY <3>1, <3>2, TellsTail
    <3> QED BY <1>2, <2>1, <2>4, <3>1, <3>3 DEF Under
  <2>5. CASE Handler /\ UNCHANGED ServerRest /\ line = "live"
    <3>1. sock = "open" /\ UNCHANGED <<moved, untold>>
          BY <2>5, HandlerSocket DEF ServerRest, screenVars
    <3> QED BY <1>2, <2>1, <2>5, <3>1, CursorHandler
  <2>6. CASE /\ line = "live" /\ ServerStep
             /\ WriteImage \/ GrabImage \/ WriteCursor \/ SetResolution \/ ReadVersion
    <3>1. sock = "open"
          BY <1>2, <2>6, ServerLeavesModule
    <3> QED BY <1>2, <2>1, <2>6, <3>1, CursorServer
  <2>7. ReadVersion /\ UNCHANGED <<moduleVars, screenVars, serverVars, events>> => ServerStep
        BY DEF ServerStep
  <2> QED BY <1>2, <2>2, <2>3, <2>4, <2>5, <2>6, <2>7, LiveSteps DEF ServerStep
<1> QED BY <1>1, <1>2 DEF CursorNews, Under

----------------------------------------------------------------------------
(* Updates.                                                                 *)

\* The requests that ask for a complete frame, and the replies that bring one.
Refreshing == \E i \in DOMAIN toFb : toFb[i].t = "S" /\ toFb[i].refresh
Bringing ==
    \E i \in DOMAIN toKiwi :
        \/ toKiwi[i].t = "R"
        \/ Answered(toKiwi[i]) /\ (pix[img.addr] = content \/ toKiwi[i].failed)

\* A request that is added asks for no less.
LEMMA RefreshingAppend ==
    ASSUME FramesTypeOK, NEW m \in FbMsgs, toFb' = toFb \o <<m>>
    PROVE  Refreshing \/ (m.t = "S" /\ m.refresh = TRUE) => Refreshing'
<1>1. toFb \in Seq(FbMsgs)
      BY QueueTypes
<1>2. /\ \A i \in DOMAIN toFb : i \in DOMAIN toFb' /\ toFb'[i] = toFb[i]
      /\ Len(toFb) + 1 \in DOMAIN toFb' /\ toFb'[Len(toFb) + 1] = m
      BY <1>1, AppendQueue
<1> QED BY <1>2 DEF Refreshing

\* A reply that is added brings no less, and only an update replaces a picture.
LEMMA BringingAppend ==
    ASSUME FramesTypeOK, NEW m \in KiwiMsgs, toKiwi' = toKiwi \o <<m>>,
           UNCHANGED <<pix, img, content, flush>>
    PROVE  /\ Bringing \/ m.t = "R" => Bringing'
           /\ Settled /\ ~Answered(m) => Settled'
<1>1. toKiwi \in Seq(KiwiMsgs)
      BY QueueTypes
<1>2. /\ \A i \in DOMAIN toKiwi : i \in DOMAIN toKiwi' /\ toKiwi'[i] = toKiwi[i]
      /\ Len(toKiwi) + 1 \in DOMAIN toKiwi' /\ toKiwi'[Len(toKiwi) + 1] = m
      /\ \A i \in DOMAIN toKiwi' : toKiwi'[i] = m
                                      \/ \E j \in DOMAIN toKiwi : toKiwi'[i] = toKiwi[j]
      BY <1>1, AppendQueue
<1> QED BY <1>2 DEF Bringing, Settled

\* A reply that is taken leaves the others.
LEMMA BringingTail ==
    ASSUME FramesTypeOK, toKiwi # <<>>, toKiwi' = Tail(toKiwi),
           UNCHANGED <<pix, img, content>>
    PROVE  /\ Bringing =>
                  \/ Bringing'
                  \/ Head(toKiwi).t = "R"
                  \/ Answered(Head(toKiwi))
                        /\ (pix[img.addr] = content \/ Head(toKiwi).failed)
           /\ Settled /\ UNCHANGED flush => Settled' /\ ~Answered(Head(toKiwi))
<1>1. toKiwi \in Seq(KiwiMsgs)
      BY QueueTypes
<1>2. /\ Head(toKiwi) = toKiwi[1] /\ 1 \in DOMAIN toKiwi
      /\ \A i \in DOMAIN toKiwi' : i + 1 \in DOMAIN toKiwi /\ toKiwi'[i] = toKiwi[i + 1]
      /\ \A i \in DOMAIN toKiwi : i # 1 => i - 1 \in DOMAIN toKiwi'
                                              /\ toKiwi'[i - 1] = toKiwi[i]
      BY <1>1, TailQueue
<1>3. ASSUME Bringing
      PROVE  \/ Bringing'
             \/ Head(toKiwi).t = "R"
             \/ Answered(Head(toKiwi)) /\ (pix[img.addr] = content \/ Head(toKiwi).failed)
  <2>1. PICK i \in DOMAIN toKiwi :
            \/ toKiwi[i].t = "R"
            \/ Answered(toKiwi[i]) /\ (pix[img.addr] = content \/ toKiwi[i].failed)
        BY <1>3 DEF Bringing
  <2>2. CASE i = 1
        BY <1>2, <2>1, <2>2
  <2>3. CASE i # 1
    <3>1. i - 1 \in DOMAIN toKiwi' /\ toKiwi'[i - 1] = toKiwi[i]
          BY <1>2, <2>3
    <3>2. \/ toKiwi'[i - 1].t = "R"
          \/ Answered(toKiwi'[i - 1])
                /\ (pix'[img'.addr] = content' \/ toKiwi'[i - 1].failed)
          BY <2>1, <3>1
    <3> QED BY <3>1, <3>2 DEF Bringing, Answered
  <2> QED BY <2>2, <2>3
<1>4. ASSUME Settled, UNCHANGED flush
      PROVE  Settled' /\ ~Answered(Head(toKiwi))
      BY <1>2, <1>4 DEF Settled
<1> QED BY <1>3, <1>4

\* The parts of Due.
LEMMA DueParts ==
    Due <=> \/ shown = content /\ Settled
            \/ damaged \/ mapped \/ force \/ fpc = "grab"
            \/ img.size # shmimg.size
            \/ img.size > root
            \/ Refreshing \/ Bringing
            \/ flush = "pending" /\ pix[img.addr] = content
            \/ flush = "void" \/ context = "null"
BY DEF Due, Refreshing, Bringing

\* A handler does not lose an update: a flush shows it, and a frame that is asked
\* for brings what was forced.
LEMMA DueHandler ==
    ASSUME FramesTypeOK, Connected, Exchange, Fresh, Buffers, Mappings, Flow, Copies,
           UpdateDue, Handler, UNCHANGED ServerRest, line = "live", Live'
    PROVE  Due'
<1>1. /\ toFb \in Seq(FbMsgs) /\ toKiwi \in Seq(KiwiMsgs) /\ force \in BOOLEAN
      /\ img \in Images
      BY QueueTypes DEF FramesTypeOK, ModuleTypeOK
<1>2. sock = "open" /\ UNCHANGED <<fpc, shmimg, content, root, damaged, mapped>>
      BY HandlerSocket DEF ServerRest, screenVars
<1>3. connected => Due
      BY <1>2 DEF UpdateDue, Live
<1>4. CASE ReceiveVersion
  <2>1. force = TRUE /\ \/ toFb' = <<VersionOk, Resolution(size), Screen(img', TRUE)>>
                        \/ force' = force
        BY <1>4, ReceiveVersionCases
  <2>2. ASSUME NEW x, NEW y, NEW z, toFb' = <<x, y, z>>
        PROVE  3 \in DOMAIN toFb' /\ toFb'[3] = z
        BY <2>2
  <2>3. Screen(img', TRUE).t = "S" /\ Screen(img', TRUE).refresh = TRUE
        BY DEF Screen
  <2>4. CASE toFb' = <<VersionOk, Resolution(size), Screen(img', TRUE)>>
    <3>1. 3 \in DOMAIN toFb' /\ toFb'[3] = Screen(img', TRUE)
          BY <2>2, <2>4
    <3> QED BY <2>3, <3>1 DEF Due
  <2> QED BY <2>1, <2>4 DEF Due
<1>5. ASSUME NEW image \in Images, NEW refresh \in BOOLEAN,
             toFb' = toFb \o <<Screen(image, refresh)>>
      PROVE  refresh \/ Refreshing => Refreshing'
  <2>1. Screen(image, refresh) \in FbMsgs
        BY FbMsgTypes
  <2>2. Screen(image, refresh).t = "S" /\ Screen(image, refresh).refresh = refresh
        BY DEF Screen
  <2> QED BY <1>5, <2>1, <2>2, RefreshingAppend
<1>6. CASE OnFlush
  <2>1. connected /\ img' \in Images /\ img'.size = size
        BY <1>6, OnFlushImage, AllocateCases DEF OnFlush
  <2>2. /\ flush \in {"pending", "old"} /\ flush' = "none" /\ UNCHANGED <<toKiwi, context>>
        /\ \/ toFb' = toFb \o <<Screen(img', force)>>
           \/ UNCHANGED <<toFb, force>>
        BY <1>6, <2>1, OnFlushCases DEF OutputRest
  <2>3. /\ fpc # "grab" /\ shmimg.size = img.size
        /\ \A i \in DOMAIN toKiwi : toKiwi[i].t # "S"
        BY <2>2, OneAtATime DEF Copies
  <2>4. Settled' /\ (Bringing => Bringing')
        BY <2>2, <2>3 DEF Settled, Bringing, Answered
  <2>5. force \/ Refreshing => force' \/ Refreshing'
        BY <1>1, <1>5, <2>1, <2>2 DEF Refreshing
  <2>6. /\ flush = "pending" => shown' = pix[img.addr]
        /\ flush = "old" => shown' = shown
        BY <1>6 DEF OnFlush
  <2>7. \/ shown = content /\ flush # "pending"
        \/ damaged \/ mapped \/ force \/ img.size > root \/ Refreshing \/ Bringing
        \/ flush = "pending" /\ pix[img.addr] = content
        \/ context = "null"
        BY <1>3, <2>1, <2>2, <2>3, DueParts DEF Settled
  <2>8. CASE img.size > root
        BY <1>2, <2>3, <2>8 DEF Due
  <2>9. CASE ~(img.size > root)
        BY <1>2, <2>2, <2>4, <2>5, <2>6, <2>7, <2>9 DEF Due, Refreshing, Bringing
  <2> QED BY <2>8, <2>9
<1>7. CASE ReceiveScreen
  <2> DEFINE reply == Head(toKiwi)
  <2>1. /\ toKiwi # <<>> /\ reply.t = "S" /\ toKiwi' = Tail(toKiwi)
        /\ connected /\ UNCHANGED <<img, shown, context>>
        /\ \/ reply.updated /\ Frame(reply.failed)
           \/ ~reply.updated /\ NoUpdate
        /\ toFb' = toFb \/ toFb' = toFb \o <<Cursor>>
        BY <1>7, ReceiveScreenCases, Received
  <2>2. fpc # "grab" /\ flush = "none"
        BY <2>1, OneAtATime
  <2>3. Refreshing => Refreshing'
        BY <2>1, RefreshingAppend, FbMsgTypes DEF Refreshing
  <2>4. CASE ~reply.updated /\ NoUpdate
    <3>1. UNCHANGED <<pix, flush, force>>
          BY <2>4 DEF NoUpdate
    <3>2. /\ Bringing => Bringing'
          /\ Settled => Settled'
          BY <1>2, <2>1, <2>4, <3>1, BringingTail DEF Answered
    <3> QED BY <1>2, <1>3, <2>1, <2>3, <3>1, <3>2, DueParts DEF Due, Refreshing, Bringing
  <2>5. CASE reply.updated /\ Frame(reply.failed)
    <3>1. /\ force' = (force \/ reply.failed)
          /\ flush' = IF context = "ok" THEN "pending" ELSE "void"
          /\ ~reply.failed => pix' = pix
          BY <2>5 DEF Frame, Paint
    <3>2. CASE reply.failed \/ context # "ok"
          BY <3>1, <3>2 DEF Due
    <3>3. CASE ~reply.failed /\ context = "ok"
      <4>1. flush' = "pending" /\ pix' = pix /\ force' = force
            BY <1>1, <3>1, <3>3
      <4>2. /\ Bringing => Bringing' \/ pix[img.addr] = content
            /\ ~Settled
        <5>1. Answered(reply) /\ reply = toKiwi[1] /\ 1 \in DOMAIN toKiwi
              BY <1>1, <2>1, <2>5, TailQueue DEF Answered
        <5> HIDE DEF reply
        <5>2. ~Settled
              BY <5>1 DEF Settled
        <5>3. Bringing => Bringing' \/ pix[img.addr] = content
              BY <1>2, <2>1, <3>3, <4>1, BringingTail DEF reply
        <5> QED BY <5>2, <5>3
      <4> QED BY <1>2, <1>3, <2>1, <2>2, <2>3, <3>3, <4>1, <4>2, DueParts
          DEF Due, Refreshing, Bringing
    <3> QED BY <3>2, <3>3
  <2> QED BY <2>1, <2>4, <2>5
<1>8. CASE TimerFires \/ SetTargetFPS
  <2>1. /\ UNCHANGED <<connected, toKiwi, context, img, flush, shown, pix>>
        /\ \/ AsksFor(img, force)
           \/ AsksFor(img, TRUE)
           \/ UNCHANGED toFb /\ (force' = force \/ force' = TRUE)
    <3>1. CASE TimerFires
      <4>1. UNCHANGED <<connected, toKiwi, context, img, flush, shown, pix>>
            BY <3>1, TimerFiresCases DEF SockRest, OutputRest, BufferRest
      <4>2. AsksFor(img, force) \/ UNCHANGED <<toFb, force>>
            BY <3>1, TimerFiresCases
      <4> QED BY <4>1, <4>2
    <3>2. CASE SetTargetFPS
      <4>1. UNCHANGED <<connected, toKiwi, context, img, flush, shown, pix>>
            BY <3>2, SetTargetFPSCases DEF SockRest, OutputRest, BufferRest
      <4>2. \/ AsksFor(img, TRUE)
            \/ UNCHANGED <<toFb, flying, timers>> /\ force' \in {force, TRUE}
            BY <3>2, SetTargetFPSCases
      <4>3. force' \in {force, TRUE} => force' = force \/ force' = TRUE
            BY Zenon
      <4> QED BY <4>1, <4>2, <4>3
    <3> QED BY <1>8, <3>1, <3>2
  <2>2. force \/ Refreshing => force' \/ Refreshing'
    <3>1. ASSUME NEW refresh \in BOOLEAN, force => refresh, AsksFor(img, refresh)
          PROVE  force \/ Refreshing => Refreshing'
          BY <1>1, <1>5, <3>1 DEF AsksFor
    <3> QED BY <1>1, <2>1, <3>1 DEF Refreshing
  <2>3. (Bringing => Bringing') /\ (Settled => Settled')
        BY <1>2, <2>1 DEF Bringing, Settled
  <2>4. connected
        BY <2>1 DEF Live
  <2> QED BY <1>2, <1>3, <2>1, <2>2, <2>3, <2>4, DueParts DEF Due, Refreshing, Bringing
<1>9. CASE ReceiveResolution \/ DidChangeView \/ Rebind
      BY <1>9 DEF ReceiveResolution, DidChangeView, Rebind, InitContext, Due
<1>10. CASE ReceiveCursor
  <2>1. /\ toKiwi # <<>> /\ toKiwi' = Tail(toKiwi) /\ Head(toKiwi).t = "P"
        /\ UNCHANGED <<connected, toFb, force, context, img, flush, shown, pix>>
        BY <1>10, Received DEF ReceiveCursor, SockRest, BufferRest
  <2>2. (Bringing => Bringing') /\ (Settled => Settled')
        BY <1>2, <2>1, BringingTail DEF Answered
  <2>3. connected
        BY <2>1 DEF Live
  <2> QED BY <1>2, <1>3, <2>1, <2>2, <2>3, DueParts DEF Due, Refreshing, Bringing
<1>11. CASE ChangeResolution
  <2>1. PICK s \in Sizes : Sends(<<Resolution(s)>>)
        BY <1>11 DEF ChangeResolution
  <2>2. /\ UNCHANGED <<toKiwi, force, context, img, flush, shown, pix>> /\ connected
        /\ toFb' = toFb \o <<Resolution(s)>>
        BY <1>11, <2>1 DEF ChangeResolution, Sends, moduleVars, Attached
  <2>3. Refreshing => Refreshing'
        BY <2>2, RefreshingAppend, FbMsgTypes
  <2>4. (Bringing => Bringing') /\ (Settled => Settled')
        BY <1>2, <2>2 DEF Bringing, Settled
  <2> QED BY <1>2, <1>3, <2>2, <2>3, <2>4, DueParts DEF Due, Refreshing, Bringing
<1> QED BY <1>4, <1>6, <1>7, <1>8, <1>9, <1>10, <1>11 DEF Handler

LEMMA SizesNat ==
    ASSUME FramesTypeOK
    PROVE  img.size \in Nat /\ root \in Nat
<1>1. img \in Images /\ root \in Sizes
      BY DEF FramesTypeOK, ModuleTypeOK, ScreenTypeOK
<1>2. img.size \in Sizes \cup {0}
      BY <1>1 DEF Images
<1>3. \A s \in Sizes \cup {0} : s \in Nat
      BY FramesAssumption
<1> QED BY <1>1, <1>2, <1>3

\* Nor does the server: what it does not copy now it has heard nothing of.
LEMMA DueServer ==
    ASSUME FramesTypeOK, Connected, Exchange, Buffers, Mappings, Flow, Copies, UpdateDue,
           line = "live", Live', ServerStep,
           WriteImage \/ GrabImage \/ WriteCursor \/ SetResolution \/ ReadVersion
    PROVE  Due'
<1>1. /\ toFb \in Seq(FbMsgs) /\ toKiwi \in Seq(KiwiMsgs)
      /\ shmimg \in [size : Sizes \cup {0}, content : Versions]
      /\ pix \in [Addrs -> Versions]
      BY QueueTypes DEF FramesTypeOK, ServerTypeOK, ModuleTypeOK
<1>2. /\ sock = "open" /\ connected
      /\ UNCHANGED <<sock, connected, force, context, img, flush, shown>>
      BY ServerLeavesModule DEF Live
<1>3. fpc \notin Dead
      BY DEF WriteImage, GrabImage, WriteCursor, SetResolution, ReadVersion, Request, Dead
<1>4. Due
      BY <1>2, <1>3 DEF UpdateDue, Live
<1>5. line' = "live" /\ fpc' \notin Dead
      BY DEF Live
<1>6. ASSUME NEW m \in KiwiMsgs, NEW rest, Written(m, "serve", rest)
      PROVE  toKiwi' = toKiwi \o <<m>> /\ toFb' = rest
      BY <1>2, <1>6 DEF Written
<1>7. ASSUME toFb # <<>>, Refreshing, toFb' = Tail(toFb),
             Head(toFb).t # "S" \/ ~Head(toFb).refresh
      PROVE  Refreshing'
  <2>1. PICK i \in DOMAIN toFb : toFb[i].t = "S" /\ toFb[i].refresh
        BY <1>7 DEF Refreshing
  <2>2. Head(toFb) = toFb[1]
        BY <1>1, <1>7, TailQueue
  <2>3. i # 1
        BY <1>7, <2>1, <2>2
  <2>4. i - 1 \in DOMAIN toFb' /\ toFb'[i - 1] = toFb[i]
        BY <1>1, <1>7, <2>3, TailQueue
  <2> QED BY <2>1, <2>4 DEF Refreshing
<1>8. CASE WriteImage
  <2> DEFINE m == Reply(FALSE, FALSE, IF moved THEN cursor ELSE 0)
  <2>1. /\ toFb # <<>> /\ Head(toFb).t = "S" /\ Head(toFb).image = img /\ fpc = "serve"
        BY <1>1, <1>8, WriteImageCases, TailQueue DEF Request, Buffers
  <2>2. m \in KiwiMsgs /\ ~Answered(m)
    <3>1. (IF moved THEN cursor ELSE 0) \in Serials \cup {0}
          BY DEF FramesTypeOK, ScreenTypeOK
    <3> QED BY <3>1, KiwiMsgTypes DEF Reply, Answered
  <2> HIDE DEF m
  <2>3. \/ fpc' = "grab"
        \/ /\ shmimg.size = img.size
           /\ ~Head(toFb).refresh /\ ~mapped /\ ~damaged
           /\ Written(m, "serve", Tail(toFb))
        BY <1>5, <1>8, <2>1, WriteImageCases DEF m, DeathEffect
  <2>4. CASE /\ shmimg.size = img.size
             /\ ~Head(toFb).refresh /\ ~mapped /\ ~damaged
             /\ Written(m, "serve", Tail(toFb))
    <3>1. UNCHANGED <<content, root, pix>>
          BY <1>8, WriteImageCases DEF moduleVars
    <3>2. Refreshing => Refreshing'
          BY <1>6, <1>7, <2>1, <2>2, <2>4
    <3>3. (Bringing => Bringing') /\ (Settled => Settled')
          BY <1>2, <1>6, <2>2, <2>4, <3>1, BringingAppend
    <3> QED BY <1>2, <1>4, <2>1, <2>4, <3>1, <3>2, <3>3, DueParts
        DEF Due, Refreshing, Bringing
  <2> QED BY <2>3, <2>4 DEF Due
<1>9. CASE GrabImage
  <2>1. PICK done \in BOOLEAN :
            /\ pix' = IF done THEN [pix EXCEPT ![req.image.addr] = Grabbed] ELSE pix
            /\ Written(Reply(TRUE, ~done, req.cursor), "serve", toFb)
        BY <1>5, <1>9, GrabImageCases DEF DeathEffect
  <2> DEFINE m == Reply(TRUE, ~done, req.cursor)
  <2>2. m \in KiwiMsgs /\ Answered(m) /\ m.failed = ~done
    <3>1. req.cursor \in Serials \cup {0} /\ (~done) \in BOOLEAN
          BY DEF FramesTypeOK, ServerTypeOK
    <3> QED BY <3>1, KiwiMsgTypes DEF Reply, Answered
  <2>3. Written(m, "serve", toFb)
        BY <2>1
  <2> HIDE DEF m
  <2>4. toKiwi' = toKiwi \o <<m>>
        BY <1>6, <2>2, <2>3
  <2>5. Len(toKiwi) + 1 \in DOMAIN toKiwi' /\ toKiwi'[Len(toKiwi) + 1] = m
        BY <1>1, <2>2, <2>4, AppendQueue
  <2>6. /\ UNCHANGED <<content, root>> /\ shmimg'.size = shmimg.size
        BY <1>1, <1>9 DEF GrabImage, screenVars
  <2>7. /\ req.image.addr = img.addr /\ img.addr \in Addrs /\ shmimg.size = img.size
        BY <1>9 DEF GrabImage, Connected, Buffers, Copies
  <2>8. CASE ~done
        BY <2>2, <2>5, <2>8 DEF Due
  <2>9. CASE done
    <3>1. pix'[img.addr] = Grabbed
          BY <1>1, <2>1, <2>7, <2>9
    <3>2. CASE shmimg.size <= root
      <4>1. pix'[img'.addr] = content'
            BY <1>2, <2>6, <3>1, <3>2 DEF Grabbed
      <4> QED BY <2>2, <2>5, <4>1 DEF Due, Answered
    <3>3. CASE ~(shmimg.size <= root)
      <4>1. img'.size > root'
        <5>1. img.size \in Nat /\ root \in Nat
              BY SizesNat
        <5> QED BY <1>2, <2>6, <2>7, <3>3, <5>1
      <4> QED BY <4>1 DEF Due
    <3> QED BY <3>2, <3>3
  <2> QED BY <2>8, <2>9
<1>10. ASSUME NEW m \in KiwiMsgs, ~Answered(m), Writes(<<m>>, "serve", Tail(toFb)),
              toFb # <<>>, Head(toFb).t # "S", fpc # "grab",
              UNCHANGED <<content, damaged, mapped, shmimg, root, pix>>
       PROVE  Due'
  <2>1. Written(m, "serve", Tail(toFb))
        BY <1>5, <1>10, WritesCases DEF DeathEffect
  <2>2. Refreshing => Refreshing'
        BY <1>6, <1>7, <1>10, <2>1
  <2>3. (Bringing => Bringing') /\ (Settled => Settled')
        BY <1>2, <1>6, <1>10, <2>1, BringingAppend
  <2> QED BY <1>2, <1>4, <1>10, <2>2, <2>3, DueParts DEF Due, Refreshing, Bringing
<1>11. CASE WriteCursor
  <2> DEFINE m == [t |-> "P", cursor |-> cursor]
  <2>1. m \in KiwiMsgs /\ ~Answered(m)
        BY KiwiMsgTypes DEF FramesTypeOK, ScreenTypeOK, Answered
  <2>2. /\ Writes(<<m>>, "serve", Tail(toFb))
        /\ toFb # <<>> /\ Head(toFb).t # "S" /\ fpc # "grab"
        /\ UNCHANGED <<content, damaged, mapped, shmimg, root, pix>>
        BY <1>11 DEF WriteCursor, Request, moduleVars, screenVars, serverVars
  <2> HIDE DEF m
  <2> QED BY <1>10, <2>1, <2>2
<1>12. CASE SetResolution
  <2>1. PICK s \in Sizes : Writes(<<Resolution(s)>>, "serve", Tail(toFb))
        BY <1>5, <1>12, SetResolutionCases DEF Dies
  <2>2. Resolution(s) \in KiwiMsgs /\ Resolution(s).t = "R"
        BY KiwiMsgTypes, FrameTags
  <2>3. Written(Resolution(s), "serve", Tail(toFb))
        BY <1>5, <2>1, WritesCases DEF DeathEffect
  <2>4. toKiwi' = toKiwi \o <<Resolution(s)>>
        BY <1>6, <2>2, <2>3
  <2>5. Len(toKiwi) + 1 \in DOMAIN toKiwi' /\ toKiwi'[Len(toKiwi) + 1] = Resolution(s)
        BY <1>1, <2>2, <2>4, AppendQueue
  <2> QED BY <2>2, <2>5 DEF Due
<1>13. CASE ReadVersion
  <2>1. InitInfo \in KiwiMsgs /\ ~Answered(InitInfo) /\ VersionOk.t = "VOK"
        BY KiwiMsgTypes, FrameTags DEF Answered
  <2>2. /\ Writes(<<InitInfo>>, "serve", Tail(toFb)) /\ fpc = "version"
        /\ toFb # <<>> /\ Head(toFb).t = "VOK"
        BY <1>13, <2>1 DEF ReadVersion
  <2>3. ~WriteImage /\ ~GrabImage /\ ~WriteCursor /\ ~SetResolution
        BY <2>2 DEF WriteImage, GrabImage, WriteCursor, SetResolution, Request
  <2>4. UNCHANGED <<content, damaged, mapped, shmimg, root, pix>>
        BY <2>3 DEF ServerStep, moduleVars, screenVars, serverVars
  <2> QED BY <1>10, <2>1, <2>2, <2>4
<1> QED BY <1>8, <1>9, <1>11, <1>12, <1>13

\* Every step keeps the updates.
LEMMA UpdateStep ==
    ASSUME FramesTypeOK, Connected, Exchange, Fresh, Buffers, Mappings, Flow, Copies,
           UpdateDue, Next
    PROVE  UpdateDue'
<1> SUFFICES ASSUME Live'
             PROVE  Due'
    BY DEF UpdateDue
<1>1. connected' /\ sock' = "open" /\ line' = "live" /\ fpc' \notin Dead
      BY DEF Live
<1>2. CASE Connection /\ Accept
      BY <1>1, <1>2 DEF Accept, Connected
<1>3. CASE XStep /\ line = "live"
  <2>1. UNCHANGED <<socketVars, moduleVars, serverVars>>
        BY <1>3 DEF XStep
  <2>2. Due
        BY <1>1, <2>1 DEF UpdateDue, Live, socketVars
  <2>3. \/ damaged' \/ mapped'
        \/ UNCHANGED <<content, damaged, mapped, root>>
        BY <1>3 DEF XStep, Draw, DrawInNewWindow, ChangeCursor
  <2>4. CASE damaged' \/ mapped'
        BY <2>4 DEF Due
  <2>5. CASE UNCHANGED <<content, damaged, mapped, root>>
        BY <2>1, <2>2, <2>5 DEF Due, Settled, socketVars, moduleVars, serverVars
  <2> QED BY <2>3, <2>4, <2>5
<1>4. CASE ReceiveInit /\ UNCHANGED moduleVars /\ UNCHANGED ServerRest /\ line = "live"
  <2>1. /\ toKiwi # <<>> /\ Head(toKiwi) = InitInfo /\ toKiwi' = Tail(toKiwi)
        /\ UNCHANGED <<sock, connected, line, fpc, toFb>>
        BY <1>1, <1>4 DEF ReceiveInit, SocketClose
  <2>2. UNCHANGED <<moduleVars, content, damaged, mapped, root, shmimg>>
        BY <1>4 DEF ServerRest, screenVars
  <2>3. Due
        BY <1>1, <2>1 DEF UpdateDue, Live
  <2>4. Head(toKiwi).t = "I"
        BY <2>1, FrameTags
  <2>5. (Bringing => Bringing') /\ (Settled => Settled')
        BY <2>1, <2>2, <2>4, BringingTail DEF Answered, moduleVars
  <2> QED BY <2>1, <2>2, <2>3, <2>5, DueParts DEF Due, Refreshing, Bringing, moduleVars
<1>5. ReadVersion /\ UNCHANGED <<moduleVars, screenVars, serverVars, events>> => ServerStep
      BY DEF ServerStep
<1> QED BY <1>1, <1>2, <1>3, <1>4, <1>5, LiveSteps, DueHandler, DueServer DEF ServerStep

\* The invariant holds at the start, before there is a window.
LEMMA FramesInvInit == Init => FramesInv
<1> SUFFICES ASSUME Init
             PROVE  FramesInv
    OBVIOUS
<1>1. /\ sock = "none" /\ connected = FALSE /\ fpc = "accept" /\ line = "none"
      /\ toKiwi = <<>> /\ toFb = <<>> /\ flying = FALSE /\ timers = {} /\ flush = "none"
      BY DEF Init, SocketInit
<1>2. SocketTypeOK(FbMsgs, KiwiMsgs)
  <2>1. <<>> \in Seq(FbMsgs) /\ <<>> \in Seq(KiwiMsgs)
        OBVIOUS
  <2>2. 0 \in 0..MaxRetry
        BY SocketAssumption
  <2> QED BY <2>1, <2>2
      DEF Init, SocketInit, SocketTypeOK, SockStates, ServerSteps, Lines
<1>3. 1 \in Versions /\ 0 \in Versions /\ MaxContent \in Nat \ {0} /\ 1 \in Serials
      BY FramesAssumption DEF Versions, Garbage
<1>4. NoImage \in Images /\ NoEntry \in [addr : Addrs \cup {0},
                                         map : {"none", "live", "stale"},
                                         size : Sizes \cup {0}]
      BY DEF NoImage, NoEntry, Images
<1>5. ModuleTypeOK
      BY <1>3, <1>4 DEF Init, ModuleTypeOK
<1>6. ServerTypeOK /\ ScreenTypeOK
  <2>1. shmimg \in [size : Sizes \cup {0}, content : Versions]
        BY <1>3 DEF Init
  <2>2. req \in [image : Images, cursor : Serials \cup {0}]
        BY <1>4 DEF Init, NoRequest
  <2> QED BY <1>3, <1>4, <2>1, <2>2 DEF Init, ServerTypeOK, ScreenTypeOK
<1>7. FramesTypeOK
      BY <1>2, <1>5, <1>6, FramesAssumption DEF Init, FramesTypeOK
<1>8. Connected /\ Exchange /\ Fresh
      BY <1>1 DEF Connected, Exchange, Fresh
<1>9. Flow /\ Buffers /\ Copies
      BY <1>1 DEF Flow, Buffers, Copies
<1>10. Mappings
       BY DEF Init, Mappings, NoEntry
<1>11. Ages
  <2>1. content = 1 /\ shmimg.content = 0 /\ newest = 0
        BY DEF Init
  <2> QED BY <1>3, <2>1 DEF Ages
<1>12. CursorNews /\ UpdateDue
       BY <1>1 DEF CursorNews, UpdateDue, Live
<1> QED BY <1>7, <1>8, <1>9, <1>10, <1>11, <1>12 DEF FramesInv

\* And every step keeps it.
LEMMA FramesInvStep == FramesInv /\ [Next]_vars => FramesInv'
<1> SUFFICES ASSUME FramesInv, [Next]_vars
             PROVE  FramesInv'
    OBVIOUS
<1>1. /\ FramesTypeOK /\ Connected /\ Exchange /\ Fresh /\ Flow /\ Buffers /\ Mappings
      /\ Copies /\ Ages /\ CursorNews /\ UpdateDue
      BY DEF FramesInv
<1>2. CASE Next
  <2>1. FramesTypeOK'
        BY <1>1, <1>2, TypesStep
  <2>2. Connected' /\ Exchange'
        BY <1>1, <1>2, ConnectionStep DEF ConnectionOK
  <2>3. Fresh'
        BY <1>1, <1>2, FreshStep
  <2>4. Flow' /\ Buffers' /\ Mappings'
        BY <1>1, <1>2, <2>1, FlowStep, BuffersStep, MappingsStep
  <2>5. Copies' /\ Ages'
        BY <1>1, <1>2, CopiesStep, AgesStep
  <2>6. CursorNews' /\ UpdateDue'
        BY <1>1, <1>2, CursorStep, UpdateStep
  <2> QED BY <2>1, <2>2, <2>3, <2>4, <2>5, <2>6 DEF FramesInv
<1>3. CASE UNCHANGED vars
      BY <1>1, <1>3 DEF FramesInv, vars, socketVars, moduleVars, screenVars, serverVars,
         FramesTypeOK, SocketTypeOK, ModuleTypeOK, ServerTypeOK, ScreenTypeOK, Connected,
         Exchange, Fresh, Flow, Asked, ScreensIn, Buffers, Mappings, Copies, Answered,
         Ages, CursorNews, Only, Tells, Carries, UpdateDue, Live, Due, Settled
<1> QED BY <1>2, <1>3

----------------------------------------------------------------------------
(* What follows for every run, whatever the constants.                      *)

\* The invariant holds of every run: it is what the handlers of kiwi.cc and the
\* requests of fbserver.c rely on of one another.
THEOREM FramesInvariant == Spec => []FramesInv
<1> QED BY FramesInvInit, FramesInvStep, PTL DEF Spec

\* The state of the window, the server and the screen keeps its type: at no time is
\* there a message, an image or a cache entry the code does not expect.
THEOREM FramesTypes == Spec => []FramesTypeOK
<1>1. FramesInv => FramesTypeOK
      BY DEF FramesInv
<1> QED BY <1>1, FramesInvariant, PTL

\* Timers, changes of the frame rate and flushes never have two frames asked for
\* at a time, although each may ask for one (kiwi.cc:909-927).
THEOREM OneFrameAtATime == Spec => []OneRequest
<1>1. FramesInv => OneRequest
      BY DEF FramesInv, Flow, OneRequest, Live
<1> QED BY <1>1, FramesInvariant, PTL

\* No order of replies, flushes, timers and changes of the rate leaves a window that
\* is not hidden without a next frame (kiwi.cc:297-308, 954-994, 999-1004).
THEOREM FlowGoesOn == Spec => []FlowAlive
<1>1. FramesInv => FlowAlive
      BY DEF FramesInv, Flow, FlowAlive, Live
<1> QED BY <1>1, FramesInvariant, PTL

\* What has been drawn and is not shown is never forgotten: by the X server, which
\* reports damage once, by the server, which asks for it once, or by the module,
\* which blanks its window when it gets another size (fbserver.c:356-450,
\* kiwi.cc:282-308, 839-842).
THEOREM NoUpdateIsLost == Spec => []NoLostUpdate
<1>1. FramesInv => NoLostUpdate
      BY DEF FramesInv, UpdateDue, Due, NoLostUpdate, Answered
<1> QED BY <1>1, FramesInvariant, PTL

\* Nor is the latest cursor, which the server tells of once, with a frame, and the
\* module has to ask for when it does not have it (fbserver.c:399-410, 463-492,
\* kiwi.cc:310-321).
THEOREM CursorIsNotLost == Spec => []CursorArrives
<1>1. FramesInv => CursorArrives
      BY DEF FramesInv, CursorNews, Tells, Carries, CursorArrives, Live
<1> QED BY <1>1, FramesInvariant, PTL

\* A mapping whose signature is right has the length of the request, whatever
\* buffers were allocated, reused and freed since it was made (fbserver.c:434-441).
THEOREM NoMappingIsOutdated == Spec => []NeverOutdated
<1>1. FramesInv => NeverOutdated
  <2> SUFFICES ASSUME FramesInv, NEW i \in {0, 1}, fpc = "grab", line = "live",
                      sock = "open", cache[i].addr = req.image.addr, Matches(cache[i])
               PROVE  cache[i].size = req.image.size
      BY DEF NeverOutdated
  <2>1. connected /\ req.image = img /\ bufs[img.addr] = img.size
        BY DEF FramesInv, Connected, Buffers
  <2>2. cache[i].size = bufs[cache[i].addr]
        BY DEF FramesInv, Mappings, Matches
  <2> QED BY <2>1, <2>2
<1> QED BY <1>1, FramesInvariant, PTL

\* The window implements Mirror: through all copies, mappings and contexts it shows
\* only what the screen was, and never something older than it has shown
\* (fbserver.c:412-450, kiwi.cc:930-994).
THEOREM WindowMirrorsScreen == Spec => NeverGoesBack
<1>1. Init => Screens!Init
      BY DEF Init, Screens!Init
<1>2. FramesInv /\ [Next]_vars => [Screens!Next]_(Screens!vars)
      BY MirrorStep DEF FramesInv
<1> QED BY <1>1, <1>2, FramesInvariant, PTL DEF Spec, NeverGoesBack, Screens!Spec
=============================================================================
