-------------------------- MODULE WindowFramesTypes --------------------------
(***************************************************************************)
(* Lemmas about the queues of a window, and that every step of             *)
(* WindowFrames keeps the types and the state of the connection, for any   *)
(* buffers, sizes, cursors and bounds.                                     *)
(***************************************************************************)
EXTENDS WindowFramesInv, FiniteSetTheorems, SequenceTheorems, TLAPS

----------------------------------------------------------------------------
(* Queues.                                                                  *)

\* Short queues, one frame after the other.
LEMMA ShortQueues ==
    ASSUME NEW S, NEW x \in S, NEW y \in S, NEW z \in S
    PROVE  /\ <<>> \in Seq(S) /\ <<x>> \in Seq(S) /\ <<x, y>> \in Seq(S)
           /\ <<x, y, z>> \in Seq(S)
<1>1. <<>> \in Seq(S) /\ <<x>> \in Seq(S)
      OBVIOUS
<1>2. <<x, y>> \in Seq(S)
      OBVIOUS
<1>3. <<x, y, z>> \in Seq(S)
      OBVIOUS
<1> QED BY <1>1, <1>2, <1>3

\* Two frames and then one.
LEMMA TwoAndOne ==
    ASSUME NEW x, NEW y, NEW z
    PROVE  <<x, y>> \o <<z>> = <<x, y, z>>
<1> DEFINE S == {x, y, z}
           l == <<x, y>> \o <<z>>
           r == <<x, y, z>>
<1>1. <<z>> \in Seq(S) /\ <<x, y>> \in Seq(S) /\ r \in Seq(S)
      BY ShortQueues
<1>2. /\ l \in Seq(S) /\ Len(l) = 3 /\ Len(r) = 3
      /\ l[1] = x /\ l[2] = y /\ l[3] = z
      BY <1>1
<1>3. \A i \in 1..Len(l) : l[i] = r[i]
      BY <1>2
<1> HIDE DEF l, r
<1>4. l = r
      BY <1>1, <1>2, <1>3, SeqEqual
<1> QED BY <1>4 DEF l, r

\* What has been read of a queue, and what is left.
LEMMA TailQueue ==
    ASSUME NEW S, NEW q \in Seq(S), q # <<>>
    PROVE  /\ Head(q) \in S /\ Tail(q) \in Seq(S)
           /\ Head(q) = q[1] /\ 1 \in DOMAIN q
           /\ q = <<Head(q)>> \o Tail(q)
           /\ \A i \in DOMAIN Tail(q) : i + 1 \in DOMAIN q /\ Tail(q)[i] = q[i + 1]
           /\ \A i \in DOMAIN q : i # 1 => i - 1 \in DOMAIN Tail(q)
                                           /\ Tail(q)[i - 1] = q[i]
<1>1. Len(q) \in Nat \ {0} /\ DOMAIN q = 1..Len(q)
      OBVIOUS
<1>2. /\ Tail(q) \in Seq(S) /\ DOMAIN Tail(q) = 1..Len(q) - 1
      /\ \A i \in 1..Len(q) - 1 : Tail(q)[i] = q[i + 1]
      BY <1>1
<1>3. Head(q) = q[1] /\ q[1] \in S
      BY <1>1
<1>4. q = <<Head(q)>> \o Tail(q)
      OBVIOUS
<1> QED BY <1>1, <1>2, <1>3, <1>4

\* Positions in a concatenation.
LEMMA ConcatQueue ==
    ASSUME NEW S, NEW q \in Seq(S), NEW r \in Seq(S)
    PROVE  /\ q \o r \in Seq(S)
           /\ DOMAIN q = 1..Len(q) /\ DOMAIN r = 1..Len(r)
           /\ Len(q) \in Nat /\ Len(r) \in Nat
           /\ DOMAIN (q \o r) = 1..Len(q) + Len(r)
           /\ \A i \in 1..Len(q) : (q \o r)[i] = q[i]
           /\ \A i \in 1..Len(r) : (q \o r)[i + Len(q)] = r[i]
OBVIOUS

\* How many frames of a queue are about the screen.
LEMMA ScreensFinite ==
    ASSUME NEW S, NEW q \in Seq(S)
    PROVE  /\ IsFiniteSet({i \in DOMAIN q : q[i].t = "S"})
           /\ ScreensIn(q) \in Nat
           /\ ScreensIn(q) = 0 <=> \A i \in DOMAIN q : q[i].t # "S"
<1> DEFINE screens == {i \in DOMAIN q : q[i].t = "S"}
<1>1. 1 \in Int /\ Len(q) \in Int /\ DOMAIN q = 1..Len(q)
      OBVIOUS
<1>2. IsFiniteSet(DOMAIN q)
      BY <1>1, FS_Interval
<1>3. screens \in SUBSET DOMAIN q
      OBVIOUS
<1>4. IsFiniteSet(screens)
      BY <1>2, <1>3, FS_Subset
<1>5. Cardinality(screens) \in Nat /\ (Cardinality(screens) = 0 <=> screens = {})
      BY <1>4, FS_CardinalityType, FS_EmptySet
<1>6. screens = {} <=> \A i \in DOMAIN q : q[i].t # "S"
      OBVIOUS
<1> QED BY <1>4, <1>5, <1>6 DEF ScreensIn

\* The empty queue, and one frame.
LEMMA ScreensShort ==
    /\ ScreensIn(<<>>) = 0
    /\ \A x : ScreensIn(<<x>>) = IF x.t = "S" THEN 1 ELSE 0
<1>1. ScreensIn(<<>>) = 0
  <2>1. {i \in DOMAIN <<>> : <<>>[i].t = "S"} = {}
        OBVIOUS
  <2> QED BY <2>1, FS_EmptySet DEF ScreensIn
<1>2. ASSUME NEW x
      PROVE  ScreensIn(<<x>>) = IF x.t = "S" THEN 1 ELSE 0
  <2>1. {i \in DOMAIN <<x>> : <<x>>[i].t = "S"} = IF x.t = "S" THEN {1} ELSE {}
        OBVIOUS
  <2>2. Cardinality({1}) = 1 /\ Cardinality({}) = 0
        BY FS_Singleton, FS_EmptySet
  <2> QED BY <2>1, <2>2 DEF ScreensIn
<1> QED BY <1>1, <1>2

\* Queues add up.
LEMMA ScreensConcat ==
    ASSUME NEW S, NEW q \in Seq(S), NEW r \in Seq(S)
    PROVE  ScreensIn(q \o r) = ScreensIn(q) + ScreensIn(r)
<1> DEFINE n == Len(q)
           inQ == {i \in DOMAIN q : q[i].t = "S"}
           inR == {i \in DOMAIN r : r[i].t = "S"}
           later == {i \in DOMAIN (q \o r) : i > n /\ (q \o r)[i].t = "S"}
           shift == [i \in inR |-> i + n]
<1>1. IsFiniteSet(inQ) /\ IsFiniteSet(inR)
      BY ScreensFinite
<1>2. {i \in DOMAIN (q \o r) : (q \o r)[i].t = "S"} = inQ \cup later
      BY ConcatQueue
<1>3. inQ \cap later = {}
      BY ConcatQueue
<1>4. IsFiniteSet(later) /\ Cardinality(later) = Cardinality(inR)
  <2>1. shift \in [inR -> later]
        BY ConcatQueue
  <2>2. \A i, j \in inR : shift[i] = shift[j] => i = j
        BY ConcatQueue
  <2>3. \A k \in later : \E i \in inR : shift[i] = k
    <3>1. ASSUME NEW k \in later
          PROVE  k - n \in inR /\ shift[k - n] = k
      <4>1. k - n \in 1..Len(r) /\ (k - n) + n = k
            BY ConcatQueue
      <4>2. r[k - n] = (q \o r)[k]
            BY <4>1, ConcatQueue
      <4> QED BY <4>1, <4>2, ConcatQueue
    <3> QED BY <3>1
  <2>4. shift \in Bijection(inR, later)
        BY <2>1, <2>2, <2>3 DEF Bijection, Injection, Surjection, IsInjective
  <2>5. ExistsBijection(inR, later)
        BY <2>4 DEF ExistsBijection
  <2> QED BY <1>1, <2>5, FS_Bijection
<1>5. Cardinality(inQ \cup later) = Cardinality(inQ) + Cardinality(inR)
  <2>1. Cardinality(inQ \cup later)
          = Cardinality(inQ) + Cardinality(later) - Cardinality(inQ \cap later)
        BY <1>1, <1>4, FS_Union
  <2>2. Cardinality(inQ \cap later) = 0
        BY <1>3, FS_EmptySet
  <2>3. Cardinality(inQ) \in Nat /\ Cardinality(inR) \in Nat
        BY <1>1, FS_CardinalityType
  <2> HIDE DEF inQ, inR, later
  <2> QED BY <1>4, <2>1, <2>2, <2>3
<1>6. ScreensIn(q) = Cardinality(inQ) /\ ScreensIn(r) = Cardinality(inR)
      BY Zenon DEF ScreensIn
<1>7. ScreensIn(q \o r) = Cardinality(inQ \cup later)
  <2>1. ScreensIn(q \o r) = Cardinality({i \in DOMAIN (q \o r) : (q \o r)[i].t = "S"})
        BY Zenon DEF ScreensIn
  <2> QED BY <1>2, <2>1, Zenon
<1> QED BY <1>5, <1>6, <1>7, Zenon

\* A frame is taken from the front.
LEMMA ScreensTail ==
    ASSUME NEW S, NEW q \in Seq(S), q # <<>>
    PROVE  ScreensIn(q) = (IF Head(q).t = "S" THEN 1 ELSE 0) + ScreensIn(Tail(q))
<1>1. <<Head(q)>> \in Seq(S) /\ Tail(q) \in Seq(S) /\ q = <<Head(q)>> \o Tail(q)
      BY TailQueue
<1>2. ScreensIn(q) = ScreensIn(<<Head(q)>>) + ScreensIn(Tail(q))
      BY <1>1, ScreensConcat
<1> QED BY <1>2, ScreensShort

----------------------------------------------------------------------------
(* Frames.                                                                  *)

\* What the window sends.
LEMMA FbMsgTypes ==
    /\ VersionOk \in FbMsgs /\ CloseFrame \in FbMsgs /\ Cursor \in FbMsgs
    /\ \A s \in Sizes : Resolution(s) \in FbMsgs
    /\ \A image \in Images, refresh \in BOOLEAN : Screen(image, refresh) \in FbMsgs
BY DEF FbMsgs, Asks, VersionOk, CloseFrame, Cursor, Resolution, Screen

\* What it may have sent, by the type.
LEMMA FbMsgCases ==
    ASSUME NEW m \in FbMsgs
    PROVE  /\ m.t \in {"S", "R", "P", "VOK", "close"}
           /\ m.t = "S" => m.image \in Images /\ m.refresh \in BOOLEAN
           /\ m.t = "R" => m.size \in Sizes
BY DEF FbMsgs, Asks, VersionOk, CloseFrame

\* What the server sends.
LEMMA KiwiMsgTypes ==
    /\ Version \in KiwiMsgs /\ InitInfo \in KiwiMsgs
    /\ \A s \in Sizes : Resolution(s) \in KiwiMsgs
    /\ \A updated, failed \in BOOLEAN, c \in Serials \cup {0} :
           Reply(updated, failed, c) \in KiwiMsgs
    /\ \A c \in Serials : [t |-> "P", cursor |-> c] \in KiwiMsgs
BY DEF KiwiMsgs, Answers, Version, InitInfo, Resolution, Reply

\* What it may have sent.
LEMMA KiwiMsgCases ==
    ASSUME NEW m \in KiwiMsgs
    PROVE  /\ m.t \in {"S", "R", "P", "V", "I"}
           /\ m.t = "S" => /\ m.updated \in BOOLEAN /\ m.failed \in BOOLEAN
                           /\ m.cursor \in Serials \cup {0}
           /\ m.t = "R" => m.size \in Sizes
           /\ m.t = "P" => m.cursor \in Serials
           /\ m.t = "I" => m = InitInfo
BY DEF KiwiMsgs, Answers, Version, InitInfo

\* The types of the frames.
LEMMA FrameTags ==
    /\ VersionOk.t = "VOK" /\ CloseFrame.t = "close" /\ Cursor.t = "P"
    /\ Version.t = "V" /\ InitInfo.t = "I"
    /\ \A s : Resolution(s).t = "R" /\ Resolution(s).size = s
    /\ \A image, refresh : /\ Screen(image, refresh).t = "S"
                           /\ Screen(image, refresh).image = image
                           /\ Screen(image, refresh).refresh = refresh
    /\ \A updated, failed, c : /\ Reply(updated, failed, c).t = "S"
                               /\ Reply(updated, failed, c).updated = updated
                               /\ Reply(updated, failed, c).failed = failed
                               /\ Reply(updated, failed, c).cursor = c
BY DEF VersionOk, CloseFrame, Cursor, Version, InitInfo, Resolution, Screen, Reply

\* A queue of the type of the model.
LEMMA QueueTypes ==
    ASSUME FramesTypeOK
    PROVE  toFb \in Seq(FbMsgs) /\ toKiwi \in Seq(KiwiMsgs)
BY DEF FramesTypeOK, SocketTypeOK

\* The frame the window receives, and what is left.
LEMMA Received ==
    ASSUME FramesTypeOK, NEW type, Receives(type)
    PROVE  /\ sock = "open" /\ toKiwi # <<>> /\ toKiwi' = Tail(toKiwi)
           /\ Head(toKiwi) \in KiwiMsgs /\ Head(toKiwi).t = type
           /\ Head(toKiwi) = toKiwi[1] /\ 1 \in DOMAIN toKiwi
           /\ Tail(toKiwi) \in Seq(KiwiMsgs)
BY QueueTypes, TailQueue DEF Receives

\* The frame the server reads.
LEMMA Requested ==
    ASSUME FramesTypeOK, NEW type, Request(type)
    PROVE  /\ fpc = "serve" /\ toFb # <<>>
           /\ Head(toFb) \in FbMsgs /\ Head(toFb).t = type
           /\ Head(toFb) = toFb[1] /\ 1 \in DOMAIN toFb
           /\ Tail(toFb) \in Seq(FbMsgs)
BY QueueTypes, TailQueue DEF Request

----------------------------------------------------------------------------
(* The connection.                                                          *)

\* What a handler of a connected module does to the connection.
WindowEffect ==
    /\ sock = "open" /\ UNCHANGED SockRest
    /\ \/ UNCHANGED toKiwi
       \/ toKiwi # <<>> /\ Head(toKiwi).t # "V" /\ toKiwi' = Tail(toKiwi)
    /\ \/ UNCHANGED toFb
       \/ /\ line = "live" /\ connected
          /\ \E msgs \in Seq(FbMsgs) :
                 toFb' = toFb \o msgs /\ \A i \in DOMAIN msgs : msgs[i].t # "close"

\* What serving a frame does to it, unless the server dies.
ServeEffect ==
    /\ UNCHANGED <<sock, retry, connected>>
    /\ fpc = "grab" \/ (fpc \in {"serve", "version"} /\ toFb # <<>>)
    /\ fpc' \in {"serve", "grab"} /\ line # "reset"
    /\ line' = line \/ (line = "gone" /\ line' = "reset")
    /\ toFb' = toFb \/ (toFb # <<>> /\ toFb' = Tail(toFb))
    /\ \/ UNCHANGED toKiwi
       \/ /\ line = "live" /\ sock = "open"
          /\ \E m \in KiwiMsgs : m.t # "V" /\ toKiwi' = toKiwi \o <<m>>

DeathEffect ==
    /\ UNCHANGED <<sock, retry, connected, toKiwi>>
    /\ fpc' \in Dead /\ line' = "none" /\ toFb' = <<>>

ConnectionOK == SocketTypeOK(FbMsgs, KiwiMsgs) /\ Connected /\ Exchange

\* It keeps the connection whatever frames it sends, as long as it does not close.
LEMMA WindowEffectOK ==
    ASSUME FramesTypeOK, Connected, Exchange, WindowEffect
    PROVE  ConnectionOK'
<1>1. toFb \in Seq(FbMsgs) /\ toKiwi \in Seq(KiwiMsgs)
      BY QueueTypes
<1>2. UNCHANGED <<sock, retry, connected, fpc, line, announced>> /\ sock = "open"
      BY DEF WindowEffect, SockRest
<1>3. toKiwi' \in Seq(KiwiMsgs)
      BY <1>1, TailQueue DEF WindowEffect
<1>4. toFb' \in Seq(FbMsgs)
  <2>1. CASE \E msgs \in Seq(FbMsgs) : toFb' = toFb \o msgs
        BY <1>1, <2>1, ConcatQueue
  <2> QED BY <1>1, <2>1 DEF WindowEffect
<1>5. SocketTypeOK(FbMsgs, KiwiMsgs)' /\ Connected'
      BY <1>2, <1>3, <1>4 DEF FramesTypeOK, SocketTypeOK, Connected
<1>6. ASSUME ~connected
      PROVE  UNCHANGED <<toFb, toKiwi>>
  <2>1. toKiwi = <<Version>>
        BY <1>2, <1>6 DEF Exchange
  <2>2. Head(toKiwi).t = "V"
        BY <2>1, FrameTags
  <2> QED BY <1>6, <2>2 DEF WindowEffect
<1>7. ASSUME connected, NEW i \in DOMAIN toKiwi'
      PROVE  toKiwi'[i].t # "V"
      BY <1>1, <1>2, <1>7, TailQueue DEF Exchange, WindowEffect
<1>8. ASSUME line = "live", NEW i \in DOMAIN toFb'
      PROVE  toFb'[i].t # "close"
  <2>1. \A j \in DOMAIN toFb : toFb[j].t # "close"
        BY <1>2, <1>8 DEF Exchange
  <2>2. CASE UNCHANGED toFb
        BY <1>8, <2>1, <2>2
  <2>3. CASE \E msgs \in Seq(FbMsgs) :
                 toFb' = toFb \o msgs /\ \A j \in DOMAIN msgs : msgs[j].t # "close"
    <3>1. PICK msgs \in Seq(FbMsgs) :
              toFb' = toFb \o msgs /\ \A j \in DOMAIN msgs : msgs[j].t # "close"
          BY <2>3
    <3>2. CASE i \in 1..Len(toFb)
          BY <1>1, <2>1, <3>1, <3>2, ConcatQueue
    <3>3. CASE i \notin 1..Len(toFb)
      <4>1. i - Len(toFb) \in 1..Len(msgs) /\ i = (i - Len(toFb)) + Len(toFb)
            BY <1>1, <1>8, <3>1, <3>3, ConcatQueue
      <4>2. toFb'[i] = msgs[i - Len(toFb)]
            BY <1>1, <3>1, <4>1, ConcatQueue
      <4> QED BY <3>1, <4>1, <4>2, ConcatQueue
    <3> QED BY <3>2, <3>3
  <2> QED BY <2>2, <2>3 DEF WindowEffect
<1>9. Exchange'
      BY <1>2, <1>6, <1>7, <1>8 DEF Exchange
<1> QED BY <1>5, <1>9 DEF ConnectionOK

\* So does the server while it serves a window, there or not.
LEMMA ServeEffectOK ==
    ASSUME FramesTypeOK, Connected, Exchange, ServeEffect, announced' \in BOOLEAN
    PROVE  ConnectionOK'
<1>1. toFb \in Seq(FbMsgs) /\ toKiwi \in Seq(KiwiMsgs)
      BY QueueTypes
<1>2. toFb' \in Seq(FbMsgs)
      BY <1>1, TailQueue DEF ServeEffect
<1>3. toKiwi' \in Seq(KiwiMsgs)
  <2>1. ASSUME NEW m \in KiwiMsgs
        PROVE  toKiwi \o <<m>> \in Seq(KiwiMsgs)
        BY <1>1, ShortQueues, ConcatQueue
  <2> QED BY <1>1, <2>1 DEF ServeEffect
<1>4. fpc' \in ServerSteps /\ line' \in Lines
      BY DEF ServeEffect, ServerSteps, Lines, FramesTypeOK, SocketTypeOK
<1>5. SocketTypeOK(FbMsgs, KiwiMsgs)'
      BY <1>2, <1>3, <1>4 DEF ServeEffect, FramesTypeOK, SocketTypeOK
<1>6. sock = "open" => line = "live"
      BY DEF ServeEffect, Connected, Dead
<1>7. line = "live" => connected
  <2>1. fpc = "version" => toFb # <<>>
        BY DEF ServeEffect
  <2> QED BY <2>1 DEF ServeEffect, Connected, Exchange
<1>8. Connected'
  <2>1. line' = "live" => line = "live"
        BY DEF ServeEffect
  <2>2. fpc' \notin Dead /\ fpc' # "accept"
        BY DEF ServeEffect, Dead
  <2>3. sock # "open" => toKiwi' = <<>>
        BY DEF ServeEffect, Connected
  <2>4. sock = "open" => line' = "live"
        BY <1>6 DEF ServeEffect
  <2>5. UNCHANGED <<sock, retry, connected>> /\ fpc' \in {"serve", "grab"}
        BY DEF ServeEffect
  <2> QED BY <1>7, <2>1, <2>2, <2>3, <2>4, <2>5 DEF Connected
<1>9. ASSUME sock = "open", NEW i \in DOMAIN toKiwi'
      PROVE  toKiwi'[i].t # "V"
  <2>1. \A j \in DOMAIN toKiwi : toKiwi[j].t # "V"
        BY <1>6, <1>7, <1>9 DEF Exchange
  <2>2. CASE UNCHANGED toKiwi
        BY <1>9, <2>1, <2>2
  <2>3. CASE \E m \in KiwiMsgs : m.t # "V" /\ toKiwi' = toKiwi \o <<m>>
        BY <1>1, <1>9, <2>1, <2>3, ConcatQueue
  <2> QED BY <2>2, <2>3 DEF ServeEffect
<1>10. ASSUME sock = "open", NEW i \in DOMAIN toFb'
       PROVE  toFb'[i].t # "close"
       BY <1>1, <1>6, <1>10, TailQueue DEF ServeEffect, Exchange
<1>11. Exchange'
       BY <1>6, <1>7, <1>9, <1>10 DEF Exchange, ServeEffect
<1> QED BY <1>5, <1>8, <1>11 DEF ConnectionOK

\* A dead server leaves the window with a connection that is closed.
LEMMA DeathEffectOK ==
    ASSUME FramesTypeOK, Connected, Exchange, DeathEffect, announced' \in BOOLEAN,
           sock = "open" => connected
    PROVE  ConnectionOK'
<1>1. toFb' \in Seq(FbMsgs) /\ toKiwi' \in Seq(KiwiMsgs)
      BY QueueTypes, ShortQueues, FbMsgTypes DEF DeathEffect
<1>2. fpc' \in ServerSteps /\ line' \in Lines
      BY DEF DeathEffect, ServerSteps, Lines
<1>3. SocketTypeOK(FbMsgs, KiwiMsgs)'
      BY <1>1, <1>2 DEF DeathEffect, FramesTypeOK, SocketTypeOK
<1>4. Connected' /\ Exchange'
      BY DEF DeathEffect, Connected, Exchange, Dead
<1> QED BY <1>3, <1>4 DEF ConnectionOK

----------------------------------------------------------------------------
(* The handlers of the module.                                              *)

\* A frame is asked for at once, or not now.
AsksFor(image, refresh) ==
    /\ connected /\ ~flying
    /\ toFb' = toFb \o <<Screen(image, refresh)>>
    /\ flying' = TRUE /\ force' = FALSE
    /\ timers' \subseteq {"stale"}

\* The two branches of RequestScreen.
LEMMA RequestScreenCases ==
    ASSUME FramesTypeOK, NEW calls, NEW image \in Images, NEW refresh \in BOOLEAN,
           NEW waits \in BOOLEAN, Attached,
           RequestScreen(<<>>, calls, image, refresh, waits)
    PROVE  \/ /\ connected /\ ~waits
              /\ toFb' = toFb \o <<Screen(image, refresh)>>
              /\ flying' = TRUE /\ force' = FALSE /\ timers' \subseteq {"stale"}
           \/ /\ ~connected \/ waits
              /\ toFb' = toFb /\ flying' = waits /\ force' = refresh /\ timers' = calls
<1> DEFINE frame == Screen(image, refresh)
<1>1. toFb \in Seq(FbMsgs) /\ frame \in FbMsgs
      BY QueueTypes, FbMsgTypes
<1>2. toFb \o <<>> = toFb /\ <<>> \o <<frame>> = <<frame>>
      BY <1>1
<1>3. CASE connected /\ ~waits
  <2>1. toFb' = toFb \o (<<>> \o <<frame>>) /\ timers' = Outdated(calls)
        BY <1>3 DEF RequestScreen, Sends, Attached
  <2>2. timers' \subseteq {"stale"}
        BY <2>1 DEF Outdated
  <2> QED BY <1>2, <1>3, <2>1, <2>2 DEF RequestScreen
<1>4. CASE ~(connected /\ ~waits)
  <2>1. toFb' = toFb \o <<>> \/ toFb' = toFb
        BY <1>4 DEF RequestScreen, Sends
  <2> QED BY <1>2, <1>4, <2>1 DEF RequestScreen
<1> QED BY <1>3, <1>4

\* A call of the timer.
LEMMA TimerFiresCases ==
    ASSUME FramesTypeOK, TimerFires
    PROVE  /\ Attached /\ UNCHANGED <<SockRest, toKiwi, fps, OutputRest, BufferRest>>
           /\ timers' \subseteq {"current", "stale"}
           /\ \/ AsksFor(img, force)
              \/ /\ UNCHANGED <<toFb, flying, force>>
                 /\ connected /\ "current" \in timers => flying \/ "current" \in timers'
<1>1. Attached /\ UNCHANGED <<SockRest, toKiwi, fps, OutputRest, BufferRest>>
      BY DEF TimerFires
<1>2. /\ img \in Images /\ force \in BOOLEAN /\ flying \in BOOLEAN
      /\ timers \subseteq {"current", "stale"}
      BY DEF FramesTypeOK, ModuleTypeOK
<1>3. PICK token \in timers :
           IF token = "current"
           THEN RequestScreen(<<>>, timers \ {token}, img, force, flying)
           ELSE timers' = timers \ {token} /\ UNCHANGED <<toFb, flying, force>>
      BY DEF TimerFires
<1>4. CASE token = "current"
  <2>1. RequestScreen(<<>>, timers \ {token}, img, force, flying)
        BY <1>3, <1>4
  <2>2. \/ AsksFor(img, force)
        \/ /\ ~connected \/ flying
           /\ toFb' = toFb /\ flying' = flying /\ force' = force
           /\ timers' = timers \ {token}
        BY <1>1, <1>2, <2>1, RequestScreenCases DEF AsksFor
  <2>3. timers' \subseteq {"current", "stale"}
        BY <1>2, <2>2 DEF AsksFor
  <2> QED BY <1>1, <2>2, <2>3
<1>5. CASE token # "current"
      BY <1>1, <1>2, <1>3, <1>5
<1> QED BY <1>4, <1>5

\* A new frame rate.
LEMMA SetTargetFPSCases ==
    ASSUME FramesTypeOK, SetTargetFPS
    PROVE  /\ Attached /\ UNCHANGED <<SockRest, toKiwi, OutputRest, BufferRest>>
           /\ fps' \in {Full, Blurred, Hidden}
           /\ \/ AsksFor(img, TRUE)
              \/ /\ UNCHANGED <<toFb, flying, timers>> /\ force' \in {force, TRUE}
                 /\ connected /\ fps' > fps => flying
<1>1. Attached /\ UNCHANGED <<SockRest, toKiwi, OutputRest, BufferRest>>
      BY DEF SetTargetFPS
<1>2. img \in Images /\ flying \in BOOLEAN
      BY DEF FramesTypeOK, ModuleTypeOK
<1>3. PICK target \in {Full, Blurred, Hidden} \ {fps} :
           /\ fps' = target
           /\ IF target > fps
              THEN RequestScreen(<<>>, timers, img, TRUE, flying)
              ELSE UNCHANGED <<toFb, flying, force, timers>>
      BY DEF SetTargetFPS
<1>4. CASE target > fps
      BY <1>1, <1>2, <1>3, <1>4, RequestScreenCases DEF AsksFor
<1>5. CASE ~(target > fps)
      BY <1>1, <1>3, <1>5
<1> QED BY <1>4, <1>5

\* The end of a flush.
LEMMA OnFlushCases ==
    ASSUME FramesTypeOK, OnFlush, img' \in Images, connected
    PROVE  /\ Attached /\ UNCHANGED <<SockRest, toKiwi, fps, OutputRest>>
           /\ flush \in {"pending", "old"} /\ flush' = "none"
           /\ timers' \subseteq {"current", "stale"}
           /\ \/ /\ toFb' = toFb \o <<Screen(img', force)>>
                 /\ flying' = TRUE /\ force' = FALSE
              \/ /\ UNCHANGED <<toFb, force>> /\ flying' = FALSE
                 /\ fps > Hidden => "current" \in timers'
<1>1. /\ Attached /\ UNCHANGED <<SockRest, toKiwi, fps, OutputRest>>
      /\ flush \in {"pending", "old"} /\ flush' = "none"
      BY DEF OnFlush
<1>2. force \in BOOLEAN /\ timers \subseteq {"current", "stale"} /\ toFb \in Seq(FbMsgs)
      BY QueueTypes DEF FramesTypeOK, ModuleTypeOK
<1>3. CASE fps > Hidden
  <2>1. NextRequest(<<>>, force)
        BY <1>3 DEF OnFlush
  <2>2. CASE RequestScreen(<<>>, timers, img', force, FALSE)
        BY <1>1, <1>2, <2>2, RequestScreenCases
  <2>3. CASE Sends(<<>>) /\ flying' = FALSE /\ force' = force
             /\ timers' = timers \cup {"current"}
    <3>1. toFb' = toFb
          BY <1>2, <2>3 DEF Sends
    <3> QED BY <1>1, <1>2, <2>3, <3>1
  <2> QED BY <2>1, <2>2, <2>3 DEF NextRequest
<1>4. CASE ~(fps > Hidden)
      BY <1>1, <1>2, <1>4 DEF OnFlush
<1> QED BY <1>3, <1>4

\* A new image: in another buffer, which has the size of the window.
LEMMA AllocateCases ==
    ASSUME FramesTypeOK, Mappings, NEW a \in Addrs, NEW reused \in BOOLEAN,
           Allocate(a, reused)
    PROVE  /\ img' \in Images /\ img'.addr \in Addrs /\ img'.size = size
           /\ bufs' \in [Addrs -> Sizes \cup {0}] /\ bufs'[img'.addr] = size
           /\ pix' \in [Addrs -> Versions]
           /\ cache' \in [{0, 1} -> [addr : Addrs \cup {0}, map : {"none", "live", "stale"},
                                     size : Sizes \cup {0}]]
           /\ Mappings'
<1> USE DEF FramesTypeOK, ModuleTypeOK, ServerTypeOK
<1>1. img' = [addr |-> a, size |-> size] /\ size \in Sizes \cup {0}
      BY DEF Allocate
<1>2. img' \in Images /\ img'.addr = a /\ img'.size = size
      BY <1>1 DEF Images
<1>3. CASE reused
      BY <1>2, <1>3 DEF Allocate, Mappings
<1>4. CASE ~reused
  <2>1. /\ bufs' = [bufs EXCEPT ![a] = size]
        /\ pix' = [pix EXCEPT ![a] = Garbage]
        /\ cache' = [i \in {0, 1} |->
                        IF cache[i].addr = a /\ cache[i].map = "live"
                        THEN [cache[i] EXCEPT !.map = "stale"] ELSE cache[i]]
        BY <1>4 DEF Allocate
  <2>2. Garbage \in Versions
        BY FramesAssumption DEF Garbage, Versions
  <2>3. bufs' \in [Addrs -> Sizes \cup {0}] /\ pix' \in [Addrs -> Versions]
        BY <1>1, <2>1, <2>2
  <2>4. ASSUME NEW i \in {0, 1}
        PROVE  /\ cache'[i] \in [addr : Addrs \cup {0}, map : {"none", "live", "stale"},
                                 size : Sizes \cup {0}]
               /\ cache'[i].map = "live" => cache'[i] = cache[i] /\ cache[i].addr # a
        BY <2>1
  <2>5. Mappings'
        BY <2>1, <2>4 DEF Mappings
  <2>6. cache' \in [{0, 1} -> [addr : Addrs \cup {0}, map : {"none", "live", "stale"},
                               size : Sizes \cup {0}]]
        BY <2>1, <2>4
  <2>7. bufs'[a] = size
        BY <2>1
  <2> QED BY <1>2, <2>3, <2>5, <2>6, <2>7
<1> QED BY <1>3, <1>4

\* The version comes first, and once; the module answers and asks for a frame.
LEMMA ReceiveVersionCases ==
    ASSUME FramesTypeOK, Exchange, Fresh, Mappings, ReceiveVersion
    PROVE  /\ sock = "open" /\ line = "live" /\ fpc = "version"
           /\ ~connected /\ connected' = TRUE
           /\ toFb = <<>> /\ toKiwi = <<Version>> /\ toKiwi' = <<>>
           /\ flush = "none" /\ flying = FALSE /\ timers = {} /\ force = TRUE
           /\ UNCHANGED <<sock, retry, fpc, line, announced, fps, OutputRest, flush, shown,
                          newest>>
           /\ size \in Sizes /\ \E a \in Addrs : Allocate(a, FALSE)
           /\ \/ /\ toFb' = <<VersionOk, Resolution(size), Screen(img', TRUE)>>
                 /\ flying' = TRUE /\ force' = FALSE /\ timers' = {}
              \/ /\ toFb' = <<VersionOk, Resolution(size)>>
                 /\ UNCHANGED <<flying, force>>
                 /\ timers' = IF fps > Hidden THEN {"current"} ELSE {}
<1>1. Receives("V") /\ connected' = TRUE
      BY DEF ReceiveVersion
<1>2. sock = "open" /\ toKiwi[1].t = "V" /\ 1 \in DOMAIN toKiwi /\ toKiwi' = Tail(toKiwi)
      BY <1>1, Received
<1>3. ~connected
      BY <1>2 DEF Exchange
<1>4. line = "live" /\ fpc = "version" /\ toKiwi = <<Version>> /\ toFb = <<>>
      BY <1>2, <1>3 DEF Exchange
<1>5. /\ flying = FALSE /\ timers = {} /\ flush = "none" /\ force = TRUE
      /\ size \in Sizes
      BY <1>2, <1>3 DEF Fresh
<1>6. toKiwi' = <<>>
      BY <1>2, <1>4
<1>7. <<VersionOk, Resolution(size)>> \o <<Screen(img', force)>>
        = <<VersionOk, Resolution(size), Screen(img', TRUE)>>
  <2>1. Screen(img', force) = Screen(img', TRUE)
        BY <1>5
  <2> QED BY <2>1, TwoAndOne
<1>8. \/ /\ toFb' = <<VersionOk, Resolution(size), Screen(img', TRUE)>>
         /\ flying' = TRUE /\ force' = FALSE /\ UNCHANGED timers
      \/ /\ toFb' = <<VersionOk, Resolution(size)>>
         /\ timers' = IF fps > Hidden THEN {"current"} ELSE timers
         /\ UNCHANGED <<flying, force>>
      BY <1>4, <1>7 DEF ReceiveVersion
<1> QED BY <1>1, <1>2, <1>3, <1>4, <1>5, <1>6, <1>8 DEF ReceiveVersion

\* A frame, or the news that there is none.
LEMMA ReceiveScreenCases ==
    ASSUME FramesTypeOK, Exchange, ReceiveScreen
    PROVE  /\ Receives("S") /\ connected
           /\ \/ Head(toKiwi).updated /\ Frame(Head(toKiwi).failed)
              \/ ~Head(toKiwi).updated /\ NoUpdate
           /\ \/ UNCHANGED toFb
              \/ line = "live" /\ toFb' = toFb \o <<Cursor>>
           /\ \/ Head(toKiwi).cursor = 0 /\ kcursor' = kcursor
              \/ Head(toKiwi).cursor # 0 /\ kcursor' = Head(toKiwi).cursor
              \/ line = "live" => toFb' = toFb \o <<Cursor>>
           /\ UNCHANGED <<SockRest, fps, view, size, context, img, shown, newest, cursors,
                          bufs>>
<1>1. Receives("S") /\ NewCursor(Head(toKiwi).cursor)
      BY DEF ReceiveScreen
<1>2. sock = "open" /\ Head(toKiwi).t = "S"
      BY <1>1, Received
<1>3. connected
  <2>1. toKiwi = <<Version>> => Head(toKiwi).t = "V"
        BY FrameTags
  <2> QED BY <1>2, <2>1 DEF Exchange
<1>4. /\ \/ UNCHANGED toFb
         \/ line = "live" /\ toFb' = toFb \o <<Cursor>>
      /\ \/ Head(toKiwi).cursor = 0 /\ kcursor' = kcursor
         \/ Head(toKiwi).cursor # 0 /\ kcursor' = Head(toKiwi).cursor
         \/ line = "live" => toFb' = toFb \o <<Cursor>>
  <2> DEFINE c == Head(toKiwi).cursor
  <2>1. CASE c = 0
        BY <1>1, <2>1 DEF NewCursor
  <2>2. CASE c # 0 /\ c \in cursors
        BY <1>1, <2>2 DEF NewCursor
  <2>3. CASE c # 0 /\ c \notin cursors
    <3>1. Sends(<<Cursor>>)
          BY <1>1, <2>3 DEF NewCursor
    <3> QED BY <1>2, <1>3, <3>1 DEF Sends
  <2> QED BY <2>1, <2>2, <2>3
<1> QED BY <1>1, <1>3, <1>4 DEF ReceiveScreen

----------------------------------------------------------------------------
(* The server.                                                              *)

\* What has become of the connection after a frame was written to it.
Written(m, then, rest) ==
    /\ UNCHANGED <<sock, retry, connected>>
    /\ line # "reset" /\ fpc' = then /\ toFb' = rest
    /\ line' = line \/ (line = "gone" /\ line' = "reset")
    /\ toKiwi' = IF line = "live" /\ sock = "open" THEN toKiwi \o <<m>> ELSE toKiwi

\* The second write to a window that has gone ends the server.
LEMMA WritesCases ==
    ASSUME NEW m, NEW then, NEW rest, Writes(<<m>>, then, rest)
    PROVE  (line = "reset" /\ DeathEffect) \/ Written(m, then, rest)
BY DEF Writes, Dies, DeathEffect, Dead, Written

\* setres sets a size of the model and the server tells the window, or it ends.
LEMMA SetResolutionCases ==
    ASSUME FramesTypeOK, SetResolution
    PROVE  \/ Dies("aborted") /\ UNCHANGED root
           \/ root' \in Sizes /\ Writes(<<Resolution(root')>>, "serve", Tail(toFb))
<1>1. toFb # <<>> /\ Head(toFb).t = "R" /\ Head(toFb) \in FbMsgs
  <2>1. toFb # <<>> /\ Head(toFb).t = "R"
        BY DEF SetResolution, Request
  <2> QED BY <2>1, QueueTypes, TailQueue
<1>2. Head(toFb).size \in Sizes
      BY <1>1, FbMsgCases
<1> QED BY <1>2 DEF SetResolution

\* A frame that has been served is a step of the connection.
LEMMA WrittenServes ==
    ASSUME FramesTypeOK, NEW m \in KiwiMsgs, m.t # "V", NEW then \in {"serve", "grab"},
           NEW rest, Written(m, then, rest),
           fpc = "grab" \/ (fpc \in {"serve", "version"} /\ toFb # <<>>),
           rest = toFb \/ (toFb # <<>> /\ rest = Tail(toFb))
    PROVE  ServeEffect
BY DEF Written, ServeEffect

\* A request for a frame: the screen is to be copied, or nothing has changed.
LEMMA WriteImageCases ==
    ASSUME FramesTypeOK, WriteImage
    PROVE  /\ Request("S")
           /\ Head(toFb).image \in Images /\ Head(toFb).refresh \in BOOLEAN
           /\ shmimg' \in [size : Sizes \cup {0}, content : Versions]
           /\ shmimg'.size = Head(toFb).image.size
           /\ shmimg'.content = IF shmimg.size # Head(toFb).image.size
                                THEN 0 ELSE shmimg.content
           /\ \/ /\ fpc' = "grab" /\ toFb' = Tail(toFb)
                 /\ UNCHANGED <<sock, retry, connected, line, announced, toKiwi>>
                 /\ req'.image = Head(toFb).image
                 /\ req'.cursor = (IF moved THEN cursor ELSE 0)
                 /\ req' \in [image : Images, cursor : Serials \cup {0}]
              \/ /\ shmimg.size = Head(toFb).image.size
                 /\ ~Head(toFb).refresh /\ ~mapped /\ ~damaged
                 /\ UNCHANGED <<announced, req>>
                 /\ \/ line = "reset" /\ DeathEffect
                    \/ Written(Reply(FALSE, FALSE, IF moved THEN cursor ELSE 0), "serve",
                               Tail(toFb))
           /\ mapped' = FALSE /\ damaged' = FALSE /\ moved' = FALSE
           /\ UNCHANGED <<content, cursor, root, untold, moduleVars, cache, next, events>>
<1> DEFINE ask == Head(toFb)
           c == IF moved THEN cursor ELSE 0
           resized == shmimg.size # ask.image.size
<1>1. Request("S")
      BY DEF WriteImage
<1>2. ask \in FbMsgs /\ ask.t = "S" /\ ask.image \in Images /\ ask.refresh \in BOOLEAN
      BY <1>1, Requested, FbMsgCases
<1>3. ask.image.size \in Sizes \cup {0}
      BY <1>2 DEF Images
<1>4. /\ shmimg \in [size : Sizes \cup {0}, content : Versions]
      /\ c \in Serials \cup {0} /\ 0 \in Versions
      BY FramesAssumption
      DEF FramesTypeOK, ServerTypeOK, ScreenTypeOK, Versions, Garbage
<1>5. shmimg' = IF resized THEN [size |-> ask.image.size, content |-> 0] ELSE shmimg
      BY DEF WriteImage
<1>6. /\ shmimg' \in [size : Sizes \cup {0}, content : Versions]
      /\ shmimg'.size = ask.image.size
      /\ shmimg'.content = IF resized THEN 0 ELSE shmimg.content
      BY <1>3, <1>4, <1>5
<1>7. CASE resized \/ ask.refresh \/ mapped \/ damaged
  <2>1. /\ fpc' = "grab" /\ toFb' = Tail(toFb) /\ req' = [image |-> ask.image, cursor |-> c]
        /\ UNCHANGED <<sock, retry, connected, line, announced, toKiwi>>
        BY <1>7 DEF WriteImage
  <2>2. /\ req'.image = ask.image /\ req'.cursor = c
        /\ req' \in [image : Images, cursor : Serials \cup {0}]
        BY <1>2, <1>4, <2>1
  <2> QED BY <1>1, <1>2, <1>6, <2>1, <2>2 DEF WriteImage
<1>8. CASE ~(resized \/ ask.refresh \/ mapped \/ damaged)
  <2>1. /\ Writes(<<Reply(FALSE, FALSE, c)>>, "serve", Tail(toFb))
        /\ UNCHANGED <<announced, req>>
        BY <1>8 DEF WriteImage
  <2>2. (line = "reset" /\ DeathEffect) \/ Written(Reply(FALSE, FALSE, c), "serve", Tail(toFb))
        BY <2>1, WritesCases
  <2> QED BY <1>1, <1>2, <1>6, <1>8, <2>1, <2>2 DEF WriteImage
<1> QED BY <1>7, <1>8

\* The copy: into the shared memory that was found, or not at all.
LEMMA GrabImageCases ==
    ASSUME FramesTypeOK, Connected, Buffers, Mappings, GrabImage
    PROVE  /\ fpc = "grab"
           /\ events' \in 0..MaxEvents
           /\ \E done \in BOOLEAN :
                  /\ pix' = IF done THEN [pix EXCEPT ![req.image.addr] = Grabbed] ELSE pix
                  /\ \/ line = "reset" /\ DeathEffect
                     \/ Written(Reply(TRUE, ~done, req.cursor), "serve", toFb)
           /\ cache' \in [{0, 1} -> [addr : Addrs \cup {0}, map : {"none", "live", "stale"},
                                     size : Sizes \cup {0}]]
           /\ next' \in {0, 1}
           /\ Mappings'
           /\ shmimg' = [shmimg EXCEPT !.content = Grabbed] /\ Grabbed \in Versions
           /\ req' = NoRequest
           /\ UNCHANGED <<announced, screenVars, fps, flying, timers, force, OutputRest,
                          img, flush, shown, newest, bufs>>
<1> DEFINE i == EntryOf(req.image.addr)
           entry == cache'[i]
           done == CanWrite(entry, req.image)
           CacheType == [{0, 1} -> [addr : Addrs \cup {0}, map : {"none", "live", "stale"},
                                    size : Sizes \cup {0}]]
<1>1. /\ cache \in CacheType /\ next \in {0, 1}
      /\ req.image.addr \in Addrs \cup {0} /\ req.image.size \in Sizes \cup {0}
      BY DEF FramesTypeOK, ServerTypeOK, Images
<1>2. PICK helped \in BOOLEAN :
          /\ helped => line = "live"
          /\ IF line = "live" /\ ~helped THEN Event ELSE UNCHANGED events
          /\ FindShm(req.image, helped)
          /\ pix' = IF done /\ entry.map = "live"
                    THEN [pix EXCEPT ![req.image.addr] = Grabbed] ELSE pix
          /\ Writes(<<Reply(TRUE, ~done, req.cursor)>>, "serve", toFb)
      BY Zenon DEF GrabImage
<1>3. i \in {0, 1}
  <2>1. CASE Found(req.image.addr)
        BY <2>1 DEF EntryOf, Found
  <2>2. CASE ~Found(req.image.addr)
        BY <1>1, <2>2 DEF EntryOf
  <2> QED BY <2>1, <2>2
<1> HIDE DEF i
<1>4. /\ cache' \in CacheType
      /\ \A k \in {0, 1} \ {i} : cache'[k] = cache[k]
      /\ \/ cache'[i] = cache[i] /\ cache[i].map = "live"
         \/ helped /\ cache'[i] = [addr |-> req.image.addr, map |-> "live",
                                   size |-> req.image.size]
         \/ cache'[i].map = "none"
  <2>1. PICK addr \in {cache[i].addr, req.image.addr} :
            cache' = [cache EXCEPT ![i] =
                     IF Found(req.image.addr) /\ Matches(cache[i]) THEN cache[i]
                     ELSE IF helped
                     THEN [addr |-> req.image.addr, map |-> "live", size |-> req.image.size]
                     ELSE [addr |-> addr, map |-> "none", size |-> cache[i].size]]
        BY <1>2 DEF FindShm, i
  <2>2. CASE Found(req.image.addr) /\ Matches(cache[i])
        BY <1>1, <1>3, <2>1, <2>2 DEF Matches
  <2>3. CASE ~(Found(req.image.addr) /\ Matches(cache[i])) /\ helped
        BY <1>1, <1>3, <2>1, <2>3
  <2>4. CASE ~(Found(req.image.addr) /\ Matches(cache[i])) /\ ~helped
        BY <1>1, <1>3, <2>1, <2>4
  <2> QED BY <2>2, <2>3, <2>4
<1>5. fpc = "grab" /\ UNCHANGED <<img, bufs>>
      BY DEF GrabImage
<1>6. helped => req.image = img /\ img.addr \in Addrs /\ bufs[img.addr] = img.size
      BY <1>2, <1>5 DEF Connected, Buffers
<1>7. Mappings'
      BY <1>3, <1>4, <1>5, <1>6 DEF Mappings
<1>8. done => entry.map = "live"
      BY <1>4 DEF CanWrite
<1>9. next' \in {0, 1}
      BY <1>1, <1>2 DEF FindShm
<1>10. events' \in 0..MaxEvents
       BY <1>2, FramesAssumption DEF Event, FramesTypeOK
<1>11. Grabbed \in Versions
       BY DEF Grabbed, FramesTypeOK, ServerTypeOK, ScreenTypeOK
<1>12. done \in BOOLEAN
       BY DEF CanWrite
<1>13. /\ pix' = IF done THEN [pix EXCEPT ![req.image.addr] = Grabbed] ELSE pix
       /\ \/ line = "reset" /\ DeathEffect
          \/ Written(Reply(TRUE, ~done, req.cursor), "serve", toFb)
       BY <1>2, <1>8, WritesCases
<1> HIDE DEF done
<1> QED BY <1>4, <1>5, <1>7, <1>9, <1>10, <1>11, <1>12, <1>13 DEF GrabImage

----------------------------------------------------------------------------
(* The connection, step by step.                                            *)

\* A module whose image is being flushed is connected, and gets another buffer.
LEMMA OnFlushImage ==
    ASSUME FramesTypeOK, Fresh, Mappings, OnFlush
    PROVE  connected /\ img' \in Images /\ \E a \in Addrs, reused \in BOOLEAN : Allocate(a, reused)
<1>1. PICK a \in Addrs, reused \in BOOLEAN : Allocate(a, reused)
      BY DEF OnFlush
<1>2. img' \in Images
      BY <1>1, AllocateCases
<1>3. connected
      BY DEF OnFlush, Attached, Fresh
<1> QED BY <1>1, <1>2, <1>3

\* One frame that is no close frame.
LEMMA OneFrame ==
    ASSUME NEW m \in FbMsgs, m.t # "close", toFb' = toFb \o <<m>>
    PROVE  \E msgs \in Seq(FbMsgs) :
               toFb' = toFb \o msgs /\ \A i \in DOMAIN msgs : msgs[i].t # "close"
<1>1. <<m>> \in Seq(FbMsgs) /\ \A i \in DOMAIN <<m>> : <<m>>[i].t # "close"
      BY ShortQueues
<1> QED BY <1>1

\* A request for a frame is no close frame.
LEMMA ScreenFrame ==
    ASSUME NEW image \in Images, NEW refresh \in BOOLEAN
    PROVE  Screen(image, refresh) \in FbMsgs /\ Screen(image, refresh).t = "S"
BY FbMsgTypes, FrameTags

\* What the handlers do to the connection.
LEMMA HandlerEffect ==
    ASSUME FramesTypeOK, Exchange, Fresh, Mappings,
           \/ OnFlush \/ TimerFires \/ ReceiveScreen \/ ReceiveCursor \/ ReceiveResolution
           \/ SetTargetFPS \/ DidChangeView \/ Rebind \/ ChangeResolution
    PROVE  WindowEffect
<1>1. /\ img \in Images /\ force \in BOOLEAN /\ toFb \in Seq(FbMsgs)
      /\ TRUE \in BOOLEAN
      BY QueueTypes DEF FramesTypeOK, ModuleTypeOK
<1>2. CASE OnFlush
  <2>1. connected /\ img' \in Images
        BY <1>2, OnFlushImage
  <2>2. Screen(img', force) \in FbMsgs /\ Screen(img', force).t = "S"
        BY <1>1, <2>1, ScreenFrame
  <2>3. /\ Attached /\ UNCHANGED <<SockRest, toKiwi>>
        /\ toFb' = toFb \o <<Screen(img', force)>> \/ toFb' = toFb
        BY <1>2, <2>1, OnFlushCases
  <2> QED BY <2>1, <2>2, <2>3, OneFrame DEF WindowEffect, Attached
<1>3. CASE TimerFires \/ SetTargetFPS
  <2>1. /\ Attached /\ UNCHANGED <<SockRest, toKiwi>>
        /\ toFb' = toFb \/ AsksFor(img, force) \/ AsksFor(img, TRUE)
        BY <1>3, TimerFiresCases, SetTargetFPSCases
  <2>2. ASSUME NEW refresh \in BOOLEAN, AsksFor(img, refresh)
        PROVE  WindowEffect
    <3>1. Screen(img, refresh) \in FbMsgs /\ Screen(img, refresh).t = "S"
          BY <1>1, ScreenFrame
    <3>2. connected /\ toFb' = toFb \o <<Screen(img, refresh)>>
          BY <2>2 DEF AsksFor
    <3> QED BY <2>1, <3>1, <3>2, OneFrame DEF WindowEffect, Attached
  <2>3. CASE toFb' = toFb
        BY <2>1, <2>3 DEF WindowEffect, Attached
  <2> QED BY <1>1, <2>1, <2>2, <2>3
<1>4. CASE ReceiveScreen
  <2>1. /\ Receives("S") /\ connected /\ UNCHANGED SockRest
        /\ UNCHANGED toFb \/ (line = "live" /\ toFb' = toFb \o <<Cursor>>)
        BY <1>4, ReceiveScreenCases
  <2>2. Cursor \in FbMsgs /\ Cursor.t # "close"
        BY FbMsgTypes, FrameTags
  <2>3. sock = "open" /\ toKiwi # <<>> /\ Head(toKiwi).t # "V" /\ toKiwi' = Tail(toKiwi)
        BY <2>1, Received
  <2> QED BY <2>1, <2>2, <2>3, OneFrame DEF WindowEffect
<1>5. CASE ReceiveCursor \/ ReceiveResolution
  <2>1. /\ Receives("P") \/ Receives("R")
        /\ UNCHANGED <<SockRest, toFb>>
        BY <1>5 DEF ReceiveCursor, ReceiveResolution
  <2>2. sock = "open" /\ toKiwi # <<>> /\ Head(toKiwi).t # "V" /\ toKiwi' = Tail(toKiwi)
        BY <2>1, Received
  <2> QED BY <2>1, <2>2 DEF WindowEffect
<1>6. CASE DidChangeView \/ Rebind
      BY <1>6 DEF DidChangeView, Rebind, InitContext, Attached, WindowEffect, SockRest,
         socketVars
<1>7. CASE ChangeResolution
  <2>1. PICK s \in Sizes : Sends(<<Resolution(s)>>)
        BY <1>7 DEF ChangeResolution
  <2>2. Attached /\ connected /\ UNCHANGED <<SockRest, toKiwi>>
        BY <1>7 DEF ChangeResolution
  <2>3. Resolution(s) \in FbMsgs /\ Resolution(s).t # "close"
        BY FbMsgTypes, FrameTags
  <2>4. toFb' = toFb \o <<Resolution(s)>>
        BY <2>1, <2>2 DEF Sends, Attached
  <2> QED BY <2>2, <2>3, <2>4, OneFrame DEF WindowEffect, Attached
<1> QED BY <1>2, <1>3, <1>4, <1>5, <1>6, <1>7

\* The version makes the connection.
LEMMA ReceiveVersionOK ==
    ASSUME FramesTypeOK, Connected, Exchange, Fresh, Mappings, ReceiveVersion
    PROVE  ConnectionOK'
<1>1. /\ sock = "open" /\ line = "live" /\ fpc = "version" /\ connected' = TRUE
      /\ UNCHANGED <<sock, retry, fpc, line, announced>>
      /\ toKiwi' = <<>> /\ size \in Sizes
      /\ \/ toFb' = <<VersionOk, Resolution(size), Screen(img', TRUE)>>
         \/ toFb' = <<VersionOk, Resolution(size)>>
      BY ReceiveVersionCases
<1>2. img' \in Images
      BY ReceiveVersionCases, AllocateCases
<1>3. /\ VersionOk \in FbMsgs /\ Resolution(size) \in FbMsgs
      /\ Screen(img', TRUE) \in FbMsgs
      /\ VersionOk.t = "VOK" /\ Resolution(size).t = "R" /\ Screen(img', TRUE).t = "S"
  <2>1. VersionOk \in FbMsgs /\ Resolution(size) \in FbMsgs
        BY <1>1, FbMsgTypes
  <2>2. Screen(img', TRUE) \in FbMsgs /\ Screen(img', TRUE).t = "S"
        BY <1>2, ScreenFrame
  <2>3. VersionOk.t = "VOK" /\ Resolution(size).t = "R"
        BY FrameTags
  <2> QED BY <2>1, <2>2, <2>3
<1>4. ASSUME NEW x \in FbMsgs, NEW y \in FbMsgs, NEW z \in FbMsgs,
             x.t # "close", y.t # "close", z.t # "close"
      PROVE  /\ <<x, y>> \in Seq(FbMsgs) /\ <<x, y, z>> \in Seq(FbMsgs)
             /\ \A i \in DOMAIN <<x, y>> : <<x, y>>[i].t # "close"
             /\ \A i \in DOMAIN <<x, y, z>> : <<x, y, z>>[i].t # "close"
      BY <1>4, ShortQueues
<1>5. /\ toFb' \in Seq(FbMsgs) /\ \A i \in DOMAIN toFb' : toFb'[i].t # "close"
      BY <1>1, <1>3, <1>4
<1>6. toKiwi' \in Seq(KiwiMsgs) /\ DOMAIN toKiwi' = {}
      BY <1>1
<1>7. SocketTypeOK(FbMsgs, KiwiMsgs)'
      BY <1>1, <1>5, <1>6 DEF FramesTypeOK, SocketTypeOK
<1>8. Connected'
      BY <1>1 DEF Connected
<1>9. Exchange'
      BY <1>1, <1>5, <1>6 DEF Exchange
<1> QED BY <1>7, <1>8, <1>9 DEF ConnectionOK

\* The steps of a window that has no connection, or gives it up.
LEMMA KiwiConnection ==
    ASSUME FramesTypeOK, Connected, Exchange,
           \/ OpenWindow \/ CloseWindow \/ ReceiveError \/ ConnectFails \/ ConnectAgain
           \/ ReceiveInit \/ OnSocketClosed
    PROVE  ConnectionOK'
<1> USE DEF ConnectionOK
<1>1. toFb \in Seq(FbMsgs) /\ toKiwi \in Seq(KiwiMsgs) /\ <<>> \in Seq(KiwiMsgs)
      BY QueueTypes, ShortQueues, KiwiMsgTypes
<1>2. CASE OpenWindow
      BY <1>2, SocketAssumption
      DEF OpenWindow, FramesTypeOK, SocketTypeOK, Connected, Exchange, SockStates
<1>3. CASE ConnectFails
  <2>1. retry + 1 \in 0..MaxRetry /\ sock' \in {"waiting", "closed"}
        /\ (sock' = "waiting" => retry + 1 < MaxRetry)
        BY <1>3, SocketAssumption DEF ConnectFails, FramesTypeOK, SocketTypeOK, Connected
  <2> QED BY <1>3, <2>1
      DEF ConnectFails, FramesTypeOK, SocketTypeOK, Connected, Exchange, SockStates
<1>4. CASE ConnectAgain
      BY <1>4
      DEF ConnectAgain, FramesTypeOK, SocketTypeOK, Connected, Exchange, SockStates
<1>5. CASE CloseWindow \/ OnSocketClosed
  <2>1. /\ sock' \in {"none", "closed"} /\ connected' = FALSE
        /\ retry' \in 0..MaxRetry /\ toKiwi' = <<>>
        /\ UNCHANGED <<fpc, announced, toFb>>
        BY <1>5, SocketAssumption
        DEF CloseWindow, OnSocketClosed, FramesTypeOK, SocketTypeOK, Connected
  <2>2. line' \in Lines /\ line' # "live" /\ (line = "none" => line' = "none")
        BY <1>5 DEF CloseWindow, OnSocketClosed, Hangup, Lines, FramesTypeOK, SocketTypeOK,
        Connected
  <2> QED BY <1>1, <2>1, <2>2
      DEF FramesTypeOK, SocketTypeOK, Connected, Exchange, SockStates
<1>6. ASSUME SocketClose, sock = "open", connected
      PROVE  ConnectionOK'
  <2>1. toFb' \in Seq(FbMsgs)
    <3>1. toFb \o <<CloseFrame>> \in Seq(FbMsgs)
          BY <1>1, ShortQueues, ConcatQueue, FbMsgTypes
    <3> QED BY <1>1, <1>6, <3>1 DEF SocketClose, Sends
  <2>2. /\ sock' = "closing" /\ toKiwi' = <<>>
        /\ UNCHANGED <<retry, connected, fpc, line, announced>>
        BY <1>6 DEF SocketClose
  <2> QED BY <1>1, <1>6, <2>1, <2>2
      DEF FramesTypeOK, SocketTypeOK, Connected, Exchange, SockStates
<1>7. CASE ReceiveError
  <2>1. SocketClose /\ sock = "open" /\ connected
        BY <1>7 DEF ReceiveError, Exchange
  <2> QED BY <1>6, <2>1
<1>8. CASE ReceiveInit
  <2>1. sock = "open" /\ toKiwi # <<>> /\ Head(toKiwi) = InitInfo
        BY <1>8 DEF ReceiveInit
  <2>2. Head(toKiwi).t # "V"
        BY <2>1, FrameTags
  <2>3. connected
    <3>1. Head(<<Version>>) = Version /\ Version.t = "V"
          BY FrameTags
    <3> QED BY <2>1, <2>2, <3>1 DEF Exchange
  <2>4. CASE "I" \in Understood
    <3>1. /\ toKiwi' = Tail(toKiwi)
          /\ UNCHANGED <<sock, retry, connected, fpc, line, announced, toFb>>
          BY <1>8, <2>4 DEF ReceiveInit
    <3>2. WindowEffect
          BY <2>1, <2>2, <3>1 DEF WindowEffect, SockRest
    <3> QED BY <3>2, WindowEffectOK
  <2>5. CASE "I" \notin Understood
        BY <1>6, <1>8, <2>1, <2>3, <2>5 DEF ReceiveInit
  <2> QED BY <2>4, <2>5
<1> QED BY <1>2, <1>3, <1>4, <1>5, <1>7, <1>8

\* A frame that was written, or the end of the server.
LEMMA WrittenOK ==
    ASSUME FramesTypeOK, Connected, Exchange, NEW m \in KiwiMsgs, m.t # "V", NEW rest,
           announced' = announced \/ announced' \in BOOLEAN,
           (line = "reset" /\ DeathEffect) \/ Written(m, "serve", rest),
           fpc = "grab" \/ (fpc \in {"serve", "version"} /\ toFb # <<>>),
           rest = toFb \/ (toFb # <<>> /\ rest = Tail(toFb))
    PROVE  ConnectionOK'
<1>1. announced' \in BOOLEAN
      BY DEF FramesTypeOK, SocketTypeOK
<1>2. CASE line = "reset" /\ DeathEffect
  <2>1. sock # "open"
        BY <1>2 DEF Connected, Dead
  <2> QED BY <1>1, <1>2, <2>1, DeathEffectOK
<1>3. CASE Written(m, "serve", rest)
      BY <1>1, <1>3, WrittenServes, ServeEffectOK
<1> QED BY <1>2, <1>3

\* The steps of the server.
LEMMA ServerConnection ==
    ASSUME FramesTypeOK, Connected, Exchange, Buffers, Mappings, ServerStep
    PROVE  ConnectionOK'
<1>1. toFb \in Seq(FbMsgs) /\ toKiwi \in Seq(KiwiMsgs) /\ announced \in BOOLEAN
      BY QueueTypes DEF FramesTypeOK, SocketTypeOK
<1>3. CASE WriteImage
  <2> DEFINE m == Reply(FALSE, FALSE, IF moved THEN cursor ELSE 0)
  <2>1. fpc = "serve" /\ toFb # <<>> /\ UNCHANGED announced
        BY <1>3, WriteImageCases DEF Request
  <2>2. m \in KiwiMsgs /\ m.t # "V"
        BY KiwiMsgTypes, FrameTags DEF FramesTypeOK, ScreenTypeOK
  <2> HIDE DEF m
  <2>3. CASE /\ fpc' = "grab" /\ toFb' = Tail(toFb)
             /\ UNCHANGED <<sock, retry, connected, line, announced, toKiwi>>
    <3>1. CASE line = "reset"
      <4>1. sock # "open"
            BY <2>1, <3>1 DEF Connected, Dead
      <4>2. Tail(toFb) \in Seq(FbMsgs)
            BY <1>1, <2>1, TailQueue
      <4> QED BY <2>1, <2>3, <3>1, <4>1, <4>2
          DEF ConnectionOK, FramesTypeOK, SocketTypeOK, Connected, Exchange, ServerSteps
    <3>2. CASE line # "reset"
      <4>1. ServeEffect
            BY <2>1, <2>3, <3>2 DEF ServeEffect
      <4> QED BY <1>1, <2>3, <4>1, ServeEffectOK
    <3> QED BY <3>1, <3>2
  <2>4. CASE (line = "reset" /\ DeathEffect) \/ Written(m, "serve", Tail(toFb))
        BY <1>1, <2>1, <2>2, <2>4, WrittenOK
  <2> QED BY <1>3, <2>3, <2>4, WriteImageCases DEF m
<1>4. CASE GrabImage
  <2>1. PICK done \in BOOLEAN :
            \/ line = "reset" /\ DeathEffect
            \/ Written(Reply(TRUE, ~done, req.cursor), "serve", toFb)
        BY <1>4, GrabImageCases
  <2>2. fpc = "grab" /\ UNCHANGED announced
        BY <1>4, GrabImageCases
  <2>3. Reply(TRUE, ~done, req.cursor) \in KiwiMsgs
        /\ Reply(TRUE, ~done, req.cursor).t # "V"
        BY KiwiMsgTypes, FrameTags DEF FramesTypeOK, ServerTypeOK
  <2> QED BY <1>1, <2>1, <2>2, <2>3, WrittenOK
<1>5. CASE WriteCursor
  <2> DEFINE m == [t |-> "P", cursor |-> cursor]
  <2>1. m \in KiwiMsgs /\ m.t # "V"
        BY KiwiMsgTypes DEF FramesTypeOK, ScreenTypeOK
  <2>2. fpc = "serve" /\ toFb # <<>> /\ UNCHANGED announced
        BY <1>5 DEF WriteCursor, Request
  <2>3. (line = "reset" /\ DeathEffect) \/ Written(m, "serve", Tail(toFb))
        BY <1>5, WritesCases DEF WriteCursor
  <2> QED BY <1>1, <2>1, <2>2, <2>3, WrittenOK
<1>6. CASE SetResolution
  <2>1. fpc = "serve" /\ toFb # <<>> /\ UNCHANGED announced
        BY <1>6 DEF SetResolution, Request
  <2>2. sock = "open" => connected
        BY <2>1 DEF Exchange
  <2>3. CASE Dies("aborted")
    <3>1. DeathEffect
          BY <2>3 DEF Dies, DeathEffect, Dead
    <3> QED BY <1>1, <2>1, <2>2, <3>1, DeathEffectOK
  <2>4. CASE root' \in Sizes /\ Writes(<<Resolution(root')>>, "serve", Tail(toFb))
    <3>1. Resolution(root') \in KiwiMsgs /\ Resolution(root').t # "V"
          BY <2>4, KiwiMsgTypes, FrameTags
    <3>2. (line = "reset" /\ DeathEffect) \/ Written(Resolution(root'), "serve", Tail(toFb))
          BY <2>4, WritesCases
    <3> QED BY <1>1, <2>1, <3>1, <3>2, WrittenOK
  <2> QED BY <1>6, <2>3, <2>4, SetResolutionCases
<1>7. CASE ReadVersion
  <2>1. /\ fpc = "version" /\ toFb # <<>> /\ announced' \in BOOLEAN
        /\ Writes(<<InitInfo>>, "serve", Tail(toFb))
        BY <1>7 DEF ReadVersion
  <2>2. InitInfo \in KiwiMsgs /\ InitInfo.t # "V"
        BY KiwiMsgTypes, FrameTags
  <2>3. (line = "reset" /\ DeathEffect) \/ Written(InitInfo, "serve", Tail(toFb))
        BY <2>1, WritesCases
  <2> QED BY <1>1, <2>1, <2>2, <2>3, WrittenOK
<1>8. CASE ReadVersionFails
      BY <1>1, <1>8
      DEF ReadVersionFails, ConnectionOK, FramesTypeOK, SocketTypeOK, Connected, Exchange,
          ServerSteps, Lines, Dead
<1>9. CASE CloseKilled
  <2>1. Request("close") /\ line = "reset" /\ Dies("killed") /\ UNCHANGED announced
        BY <1>9 DEF CloseKilled
  <2>2. sock # "open"
        BY <2>1 DEF Request, Connected, Dead
  <2>3. DeathEffect
        BY <2>1 DEF Dies, DeathEffect, Dead
  <2> QED BY <1>1, <2>1, <2>2, <2>3, DeathEffectOK
<1>10. CASE EndOfConnection
  <2>1. /\ fpc = "serve" /\ fpc' = "accept" /\ line' = "none" /\ announced' = FALSE
        /\ toFb' = <<>> /\ UNCHANGED <<sock, retry, connected, toKiwi>>
        BY <1>10 DEF EndOfConnection
  <2>2. sock # "open"
    <3>1. CloseFrame.t = "close" /\ (toFb # <<>> => 1 \in DOMAIN toFb /\ Head(toFb) = toFb[1])
          BY <1>1, FrameTags, TailQueue
    <3> QED BY <1>10, <2>1, <3>1 DEF EndOfConnection, Connected, Exchange, Dead
  <2>3. toFb' \in Seq(FbMsgs)
        BY <2>1, ShortQueues, FbMsgTypes
  <2> QED BY <1>1, <2>1, <2>2, <2>3
      DEF ConnectionOK, FramesTypeOK, SocketTypeOK, Connected, Exchange, ServerSteps, Lines
<1> QED BY <1>3, <1>4, <1>5, <1>6, <1>7, <1>8, <1>9, <1>10 DEF ServerStep

\* A new connection, or none.
LEMMA AcceptConnection ==
    ASSUME FramesTypeOK, Connected, Exchange, Connection
    PROVE  ConnectionOK'
<1>1. toFb \in Seq(FbMsgs) /\ toKiwi \in Seq(KiwiMsgs)
      BY QueueTypes
<1>2. CASE Accept
  <2>1. /\ sock' = "open" /\ line' = "live" /\ fpc' = "version"
        /\ toFb' = <<>> /\ toKiwi' = <<Version>>
        /\ sock = "connecting" /\ UNCHANGED <<retry, connected, announced>>
        BY <1>2 DEF Accept
  <2>2. ~connected
        BY <2>1 DEF Connected
  <2>3. toFb' \in Seq(FbMsgs) /\ toKiwi' \in Seq(KiwiMsgs) /\ DOMAIN toFb' = {}
        BY <2>1, ShortQueues, FbMsgTypes, KiwiMsgTypes
  <2> QED BY <2>1, <2>2, <2>3
      DEF ConnectionOK, FramesTypeOK, SocketTypeOK, Connected, Exchange, SockStates,
          ServerSteps, Lines, Dead
<1>3. CASE AcceptFails
  <2>1. /\ fpc = "accept" /\ fpc' = "serve" /\ announced' = TRUE
        /\ UNCHANGED <<sock, retry, connected, line, toFb, toKiwi>>
        BY <1>3 DEF AcceptFails
  <2>2. line = "none" /\ sock # "open"
        BY <2>1 DEF Connected, Dead
  <2> QED BY <1>1, <2>1, <2>2
      DEF ConnectionOK, FramesTypeOK, SocketTypeOK, Connected, Exchange, ServerSteps
<1> QED BY <1>2, <1>3 DEF Connection

\* Every step keeps the connection.
LEMMA ConnectionStep ==
    ASSUME FramesTypeOK, Connected, Exchange, Fresh, Buffers, Mappings, Next
    PROVE  ConnectionOK'
<1>1. CASE XStep
  <2>1. UNCHANGED socketVars
        BY <1>1 DEF XStep
  <2> QED BY <2>1
      DEF socketVars, ConnectionOK, FramesTypeOK, SocketTypeOK, Connected, Exchange
<1>2. CASE KiwiStep
      BY <1>2, KiwiConnection DEF KiwiStep
<1>3. CASE Handler
  <2>1. CASE ReceiveVersion
        BY <2>1, ReceiveVersionOK
  <2>2. CASE \/ OnFlush \/ TimerFires \/ ReceiveScreen \/ ReceiveCursor
             \/ ReceiveResolution \/ SetTargetFPS \/ DidChangeView \/ Rebind
             \/ ChangeResolution
        BY <2>2, HandlerEffect, WindowEffectOK
  <2> QED BY <1>3, <2>1, <2>2 DEF Handler
<1>4. CASE ServerStep
      BY <1>4, ServerConnection
<1>5. CASE Connection
      BY <1>5, AcceptConnection
<1> QED BY <1>1, <1>2, <1>3, <1>4, <1>5 DEF Next, WindowStep

----------------------------------------------------------------------------
(* Types.                                                                   *)

EventsOK == events \in 0..MaxEvents

\* One more event.
LEMMA EventType ==
    ASSUME FramesTypeOK, Event \/ UNCHANGED events
    PROVE  EventsOK'
BY FramesAssumption DEF FramesTypeOK, Event, EventsOK

\* A window that opens, and one that closes.
LEMMA KiwiTypes ==
    ASSUME FramesTypeOK, KiwiStep
    PROVE  ModuleTypeOK' /\ EventsOK'
           /\ cache' \in [{0, 1} -> [addr : Addrs \cup {0}, map : {"none", "live", "stale"},
                                     size : Sizes \cup {0}]]
<1> USE DEF FramesTypeOK, ModuleTypeOK, ServerTypeOK
<1>1. CASE OpenWindow /\ NewModule /\ Event
      BY <1>1, EventType DEF NewModule
<1>2. CASE ModuleGone /\ UNCHANGED events
  <2>1. 0 \in Versions /\ NoImage \in Images
        BY FramesAssumption DEF Versions, Garbage, NoImage, Images
  <2>2. ModuleTypeOK'
        BY <1>2, <2>1 DEF ModuleGone
  <2>3. cache' \in [{0, 1} -> [addr : Addrs \cup {0}, map : {"none", "live", "stale"},
                               size : Sizes \cup {0}]]
        BY <1>2 DEF ModuleGone
  <2> QED BY <1>2, <2>2, <2>3, EventType
<1>3. CASE UNCHANGED <<moduleVars, cache, events>>
      BY <1>3, EventType DEF moduleVars
<1> QED BY <1>1, <1>2, <1>3 DEF KiwiStep

\* What is shown has been in a buffer.
LEMMA HandlerTypes ==
    ASSUME FramesTypeOK, Exchange, Fresh, Buffers, Mappings, Handler
    PROVE  ModuleTypeOK' /\ EventsOK'
           /\ cache' \in [{0, 1} -> [addr : Addrs \cup {0}, map : {"none", "live", "stale"},
                                     size : Sizes \cup {0}]]
<1> DEFINE CacheOK == cache \in [{0, 1} -> [addr : Addrs \cup {0},
                                            map : {"none", "live", "stale"},
                                            size : Sizes \cup {0}]]
<1>1. ModuleTypeOK /\ CacheOK /\ 0 \in Versions
      BY FramesAssumption DEF FramesTypeOK, ServerTypeOK, Versions, Garbage
<1> HIDE DEF CacheOK
<1>2. CASE ReceiveVersion /\ UNCHANGED events
  <2>1. PICK a \in Addrs : Allocate(a, FALSE)
        BY <1>2 DEF ReceiveVersion
  <2>2. /\ img' \in Images /\ bufs' \in [Addrs -> Sizes \cup {0}]
        /\ pix' \in [Addrs -> Versions] /\ CacheOK'
        BY <2>1, AllocateCases DEF CacheOK
  <2>3. /\ UNCHANGED <<fps, OutputRest, flush, shown, newest>>
        /\ flying' \in BOOLEAN /\ force' \in BOOLEAN
        /\ timers' \subseteq {"current", "stale"}
        BY <1>1, <1>2, ReceiveVersionCases DEF ModuleTypeOK
  <2>4. ModuleTypeOK'
        BY <1>1, <2>2, <2>3 DEF ModuleTypeOK, OutputRest
  <2> QED BY <1>2, <2>2, <2>4, EventType DEF CacheOK
<1>3. CASE OnFlush /\ UNCHANGED events
  <2>1. connected /\ img' \in Images
        BY <1>3, OnFlushImage
  <2>2. PICK a \in Addrs, reused \in BOOLEAN : Allocate(a, reused)
        BY <1>3 DEF OnFlush
  <2>3. /\ bufs' \in [Addrs -> Sizes \cup {0}]
        /\ pix' \in [Addrs -> Versions] /\ CacheOK'
        BY <2>2, AllocateCases DEF CacheOK
  <2>4. /\ UNCHANGED <<fps, OutputRest>> /\ flush' = "none"
        /\ flying' \in BOOLEAN /\ force' \in BOOLEAN
        /\ timers' \subseteq {"current", "stale"}
        BY <1>1, <1>3, <2>1, OnFlushCases DEF ModuleTypeOK
  <2>5. pix[img.addr] \in Versions
        BY <1>1, <1>3, <2>1 DEF OnFlush, Attached, Buffers, ModuleTypeOK
  <2>6. shown' \in Versions /\ newest' \in Versions
        BY <1>1, <1>3, <2>5 DEF OnFlush, ModuleTypeOK
  <2>7. ModuleTypeOK'
        BY <1>1, <2>1, <2>3, <2>4, <2>6 DEF ModuleTypeOK, OutputRest
  <2> QED BY <1>3, <2>3, <2>7, EventType DEF CacheOK
<1>4. CASE TimerFires /\ UNCHANGED <<cache, events>>
  <2>1. /\ UNCHANGED <<fps, OutputRest, BufferRest>>
        /\ flying' \in BOOLEAN /\ force' \in BOOLEAN
        /\ timers' \subseteq {"current", "stale"}
        BY <1>1, <1>4, TimerFiresCases DEF AsksFor, ModuleTypeOK
  <2> QED BY <1>1, <1>4, <2>1, EventType DEF ModuleTypeOK, OutputRest, BufferRest, CacheOK
<1>5. CASE ReceiveScreen /\ UNCHANGED <<cache, events>>
  <2>1. /\ UNCHANGED <<fps, view, size, context, img, shown, newest, cursors, bufs>>
        /\ Head(toKiwi) \in KiwiMsgs /\ Head(toKiwi).t = "S"
        /\ NewCursor(Head(toKiwi).cursor)
        /\ IF Head(toKiwi).updated THEN Frame(Head(toKiwi).failed) ELSE NoUpdate
        BY <1>5, Received DEF ReceiveScreen
  <2>2. Head(toKiwi).failed \in BOOLEAN /\ Head(toKiwi).cursor \in Serials \cup {0}
        BY <2>1, KiwiMsgCases
  <2>3. kcursor' \in Serials \cup {0}
        BY <1>1, <2>1, <2>2 DEF NewCursor, ModuleTypeOK
  <2>4. /\ pix' \in [Addrs -> Versions] /\ flush' \in {"none", "pending", "old", "void"}
        /\ flying' \in BOOLEAN /\ force' \in BOOLEAN
        /\ timers' \subseteq {"current", "stale"}
    <3>1. CASE Frame(Head(toKiwi).failed)
          BY <1>1, <2>2, <3>1 DEF Frame, Paint, ModuleTypeOK
    <3>2. CASE NoUpdate
          BY <1>1, <3>2 DEF NoUpdate, ModuleTypeOK
    <3> QED BY <2>1, <3>1, <3>2
  <2> QED BY <1>1, <1>5, <2>1, <2>3, <2>4, EventType DEF ModuleTypeOK, CacheOK
<1>6. CASE ReceiveCursor /\ UNCHANGED <<cache, events>>
  <2>1. /\ Receives("P")
        /\ kcursor' = Head(toKiwi).cursor /\ cursors' = cursors \cup {Head(toKiwi).cursor}
        /\ UNCHANGED <<fps, flying, timers, force, view, size, context, BufferRest>>
        BY <1>6 DEF ReceiveCursor
  <2>2. Head(toKiwi).cursor \in Serials
        BY <2>1, Received, KiwiMsgCases
  <2> QED BY <1>1, <1>6, <2>1, <2>2, EventType DEF ModuleTypeOK, BufferRest, CacheOK
<1>7. CASE ReceiveResolution /\ UNCHANGED <<cache, events>>
  <2>1. /\ Receives("R")
        /\ view' = Head(toKiwi).size /\ force' = TRUE
        /\ UNCHANGED <<fps, flying, timers, size, context, kcursor, cursors, BufferRest>>
        BY <1>7 DEF ReceiveResolution
  <2>2. Head(toKiwi).size \in Sizes
        BY <2>1, Received, KiwiMsgCases
  <2> QED BY <1>1, <1>7, <2>1, <2>2, EventType DEF ModuleTypeOK, BufferRest, CacheOK
<1>8. CASE SetTargetFPS /\ UNCHANGED cache
  <2>1. /\ UNCHANGED <<OutputRest, BufferRest>> /\ fps' \in {Full, Blurred, Hidden}
        /\ flying' \in BOOLEAN /\ force' \in BOOLEAN
        /\ timers' \subseteq {"current", "stale"}
        BY <1>1, <1>8, SetTargetFPSCases DEF AsksFor, ModuleTypeOK
  <2>2. EventsOK'
        BY <1>8, EventType DEF SetTargetFPS
  <2> QED BY <1>1, <1>8, <2>1, <2>2 DEF ModuleTypeOK, OutputRest, BufferRest, CacheOK
<1>9. CASE (DidChangeView \/ Rebind) /\ UNCHANGED cache
  <2>1. PICK bound \in BOOLEAN : InitContext(bound)
        BY <1>9 DEF DidChangeView, Rebind
  <2>2. ModuleTypeOK'
        BY <1>1, <2>1 DEF InitContext, ModuleTypeOK
  <2> QED BY <1>1, <1>9, <2>2, EventType DEF DidChangeView, Rebind, CacheOK
<1>10. CASE ChangeResolution /\ UNCHANGED cache
       BY <1>1, <1>10, EventType DEF ChangeResolution, moduleVars, ModuleTypeOK, CacheOK
<1> QED BY <1>2, <1>3, <1>4, <1>5, <1>6, <1>7, <1>8, <1>9, <1>10 DEF Handler, CacheOK

\* What the server copies has been on the screen, into a buffer of that size.
LEMMA ServerTypes ==
    ASSUME FramesTypeOK, Connected, Exchange, Buffers, Mappings, ServerStep
    PROVE  ModuleTypeOK' /\ ServerTypeOK' /\ ScreenTypeOK' /\ EventsOK'
<1>1. ModuleTypeOK /\ ServerTypeOK /\ ScreenTypeOK
      /\ NoRequest \in [image : Images, cursor : Serials \cup {0}]
      BY DEF FramesTypeOK, NoRequest, NoImage, Images
<1>2. ASSUME UNCHANGED moduleVars
      PROVE  ModuleTypeOK'
      BY <1>1, <1>2 DEF ModuleTypeOK, moduleVars
<1>3. CASE WriteImage
  <2>1. /\ shmimg' \in [size : Sizes \cup {0}, content : Versions]
        /\ req' \in [image : Images, cursor : Serials \cup {0}]
        /\ mapped' = FALSE /\ damaged' = FALSE /\ moved' = FALSE
        /\ UNCHANGED <<content, cursor, root, untold, moduleVars, cache, next, events>>
        BY <1>1, <1>3, WriteImageCases DEF ServerTypeOK
  <2> QED BY <1>1, <1>2, <2>1, EventType DEF ServerTypeOK, ScreenTypeOK
<1>4. CASE GrabImage
  <2>1. PICK done \in BOOLEAN :
            pix' = IF done THEN [pix EXCEPT ![req.image.addr] = Grabbed] ELSE pix
        BY <1>4, GrabImageCases
  <2>2. /\ events' \in 0..MaxEvents
        /\ cache' \in [{0, 1} -> [addr : Addrs \cup {0}, map : {"none", "live", "stale"},
                                  size : Sizes \cup {0}]]
        /\ next' \in {0, 1} /\ Grabbed \in Versions
        /\ shmimg' = [shmimg EXCEPT !.content = Grabbed] /\ req' = NoRequest
        /\ UNCHANGED <<screenVars, fps, flying, timers, force, OutputRest, img, flush,
                       shown, newest, bufs>>
        BY <1>4, GrabImageCases
  <2>3. pix' \in [Addrs -> Versions]
        BY <1>1, <2>1, <2>2 DEF ModuleTypeOK
  <2>4. ModuleTypeOK'
        BY <1>1, <2>2, <2>3 DEF ModuleTypeOK, OutputRest
  <2>5. ServerTypeOK'
        BY <1>1, <2>2 DEF ServerTypeOK
  <2>6. ScreenTypeOK'
        BY <1>1, <2>2 DEF ScreenTypeOK, screenVars
  <2> QED BY <2>2, <2>4, <2>5, <2>6 DEF EventsOK
<1>5. CASE WriteCursor
      BY <1>1, <1>2, <1>5, EventType
      DEF WriteCursor, ServerTypeOK, ScreenTypeOK, screenVars, serverVars
<1>6. CASE SetResolution
  <2>1. /\ root' \in Sizes
        /\ UNCHANGED <<content, cursor, damaged, mapped, moved, untold, moduleVars,
                       serverVars, events>>
        BY <1>1, <1>6, SetResolutionCases DEF SetResolution, ScreenTypeOK
  <2> QED BY <1>1, <1>2, <2>1, EventType DEF ServerTypeOK, ScreenTypeOK, serverVars
<1>7. CASE EndOfConnection /\ CloseMaps
           /\ UNCHANGED <<moduleVars, screenVars, shmimg, next, req, events>>
  <2>1. ServerTypeOK'
        BY <1>1, <1>7 DEF ServerTypeOK, CloseMaps
  <2> QED BY <1>1, <1>2, <1>7, <2>1, EventType DEF ScreenTypeOK, screenVars
<1>8. CASE UNCHANGED <<moduleVars, screenVars, serverVars, events>>
      BY <1>1, <1>2, <1>8, EventType
      DEF ServerTypeOK, ScreenTypeOK, screenVars, serverVars
<1> QED BY <1>3, <1>4, <1>5, <1>6, <1>7, <1>8 DEF ServerStep

\* Every step keeps the types.
LEMMA TypesStep ==
    ASSUME FramesTypeOK, Connected, Exchange, Fresh, Buffers, Mappings, Next
    PROVE  FramesTypeOK'
<1>1. SocketTypeOK(FbMsgs, KiwiMsgs)'
      BY ConnectionStep DEF ConnectionOK
<1>2. ModuleTypeOK /\ ServerTypeOK /\ ScreenTypeOK
      BY DEF FramesTypeOK
<1>3. CASE XStep
  <2>1. ScreenTypeOK'
    <3>1. content < MaxContent => content + 1 \in Versions
          BY <1>2, FramesAssumption DEF ScreenTypeOK, Versions, Garbage
    <3>2. CASE Draw \/ DrawInNewWindow
          BY <1>2, <3>1, <3>2 DEF Draw, DrawInNewWindow, ScreenTypeOK
    <3>3. CASE ChangeCursor
          BY <1>2, <3>3 DEF ChangeCursor, ScreenTypeOK
    <3> QED BY <1>3, <3>2, <3>3 DEF XStep
  <2>2. UNCHANGED <<moduleVars, serverVars>> /\ EventsOK'
        BY <1>3, EventType DEF XStep, ChangeCursor
  <2> QED BY <1>1, <1>2, <2>1, <2>2
      DEF FramesTypeOK, ModuleTypeOK, ServerTypeOK, moduleVars, serverVars, EventsOK
<1>4. CASE WindowStep
  <2>1. ModuleTypeOK' /\ EventsOK'
        /\ cache' \in [{0, 1} -> [addr : Addrs \cup {0}, map : {"none", "live", "stale"},
                                  size : Sizes \cup {0}]]
        BY <1>4, KiwiTypes, HandlerTypes DEF WindowStep
  <2>2. UNCHANGED <<screenVars, shmimg, next, req>>
        BY <1>4 DEF WindowStep, ServerRest
  <2> QED BY <1>1, <1>2, <2>1, <2>2
      DEF FramesTypeOK, ServerTypeOK, ScreenTypeOK, screenVars, EventsOK
<1>5. CASE ServerStep
      BY <1>1, <1>5, ServerTypes DEF FramesTypeOK, EventsOK
<1>6. CASE Connection
  <2>1. /\ untold' \in BOOLEAN
        /\ UNCHANGED <<content, cursor, root, damaged, mapped, moved, moduleVars,
                       serverVars, events>>
        BY <1>2, <1>6 DEF Connection, ScreenTypeOK
  <2> QED BY <1>1, <1>2, <2>1
      DEF FramesTypeOK, ModuleTypeOK, ServerTypeOK, ScreenTypeOK, moduleVars, serverVars
<1> QED BY <1>3, <1>4, <1>5, <1>6 DEF Next
=============================================================================
