------------------------- MODULE WindowInputProofs --------------------------
(***************************************************************************)
(* Theorems about the input of a window, for any keys, buttons, fingers,   *)
(* number of attempts to connect and size of the table of pressed keys.    *)
(***************************************************************************)
EXTENDS WindowInput, FiniteSetTheorems, TLAPS

\* Each key is in the table once.
Distinct(table) == \A i, j \in DOMAIN table : table[i] = table[j] => i = j

\* Whoever is about to connect has an attempt left.
RetriesLeft == sock \in {"connecting", "waiting"} => retry < MaxRetry

\* The inductive invariant: between windows nothing is down because the table
\* has held everything that was, and the table cannot be full because it holds
\* nothing twice.
InputInv ==
    /\ InputTypeOK
    /\ RetriesLeft
    /\ Distinct(pressed)
    /\ fpc \notin Dead => Codes(pressed) = xdown
    /\ CleanBetweenWindows
    /\ TableSuffices

----------------------------------------------------------------------------
(* The table.                                                               *)

\* kb_add adds the key and keeps the entries distinct.
LEMMA KbAddTable ==
    ASSUME NEW S, NEW table \in Seq(S), NEW k \in S, Distinct(table)
    PROVE  /\ KbAdd(table, k) \in Seq(S)
           /\ Distinct(KbAdd(table, k))
           /\ Codes(KbAdd(table, k)) = Codes(table) \cup {k}
<1>1. CASE k \in Codes(table)
      BY <1>1 DEF KbAdd
<1>2. CASE k \notin Codes(table)
  <2> DEFINE longer == Append(table, k)
  <2>1. longer \in Seq(S) /\ DOMAIN longer = 1..Len(table) + 1
        OBVIOUS
  <2>2. \A i \in DOMAIN table : longer[i] = table[i]
        OBVIOUS
  <2>3. longer[Len(table) + 1] = k
        OBVIOUS
  <2>4. DOMAIN longer = DOMAIN table \cup {Len(table) + 1}
        BY <2>1
  <2>5. Distinct(longer)
        BY <1>2, <2>2, <2>3, <2>4 DEF Distinct, Codes
  <2>6. Codes(longer) = Codes(table) \cup {k}
        BY <2>2, <2>3, <2>4, Zenon DEF Codes
  <2> QED BY <1>2, <2>1, <2>5, <2>6 DEF KbAdd
<1> QED BY <1>1, <1>2

\* kb_remove removes the key, and only it, from a table with distinct entries.
LEMMA KbRemoveTable ==
    ASSUME NEW S, NEW table \in Seq(S), NEW k, Distinct(table)
    PROVE  /\ KbRemove(table, k) \in Seq(S)
           /\ Distinct(KbRemove(table, k))
           /\ Codes(KbRemove(table, k)) = Codes(table) \ {k}
<1>1. CASE k \notin Codes(table)
      BY <1>1 DEF KbRemove
<1>2. CASE k \in Codes(table)
  <2> DEFINE i == CHOOSE j \in DOMAIN table : table[j] = k
             last == Len(table)
             shorter == [j \in 1..last - 1 |-> IF j = i THEN table[last] ELSE table[j]]
  <2>1. i \in 1..last /\ table[i] = k
        BY <1>2 DEF Codes
  <2>2. last \in Nat /\ last >= 1
        BY <2>1
  <2> HIDE DEF i
  <2>3. shorter \in Seq(S) /\ DOMAIN shorter = 1..last - 1
        BY <2>2
  <2>4. \A j \in 1..last - 1 :
            shorter[j] = IF j = i THEN table[last] ELSE table[j]
        OBVIOUS
  <2> HIDE DEF shorter
  <2>5. Distinct(shorter)
    <3> SUFFICES ASSUME NEW a \in 1..last - 1, NEW b \in 1..last - 1,
                        shorter[a] = shorter[b]
                 PROVE  a = b
        BY <2>3 DEF Distinct
    <3> QED BY <2>2, <2>4 DEF Distinct
  <2>6. ASSUME NEW j \in 1..last - 1
        PROVE  shorter[j] \in Codes(table) \ {k}
    <3>1. CASE j = i
          BY <2>1, <2>2, <2>4, <3>1 DEF Distinct, Codes
    <3>2. CASE j # i
          BY <2>1, <2>2, <2>4, <3>2 DEF Distinct, Codes
    <3> QED BY <3>1, <3>2
  <2>7. ASSUME NEW c \in Codes(table) \ {k}
        PROVE  \E j \in 1..last - 1 : shorter[j] = c
    <3>1. PICK j \in 1..last : table[j] = c
          BY <2>7 DEF Codes
    <3>2. j # i
          BY <2>1, <3>1
    <3>3. CASE j = last
          BY <2>1, <2>2, <2>4, <3>1, <3>2, <3>3
    <3>4. CASE j # last
          BY <2>2, <2>4, <3>1, <3>2, <3>4
    <3> QED BY <3>3, <3>4
  <2>8. Codes(shorter) = Codes(table) \ {k}
        BY <2>3, <2>6, <2>7 DEF Codes
  <2>9. KbRemove(table, k) = shorter
        BY <1>2 DEF KbRemove, shorter, i
  <2> QED BY <2>3, <2>5, <2>8, <2>9
<1> QED BY <1>1, <1>2

\* A table without repetitions is not longer than there are keys.
LEMMA TableLength ==
    ASSUME NEW S, IsFiniteSet(S), NEW table \in Seq(S), Distinct(table)
    PROVE  Len(table) <= Cardinality(S)
<1>1. table \in Injection(1..Len(table), S)
      BY DEF Distinct, Injection, IsInjective
<1>2. Cardinality(1..Len(table)) <= Cardinality(S)
      BY <1>1, FS_Injection
<1>3. Len(table) \in Nat
      OBVIOUS
<1>4. ASSUME NEW n \in Nat
      PROVE  Cardinality(1..n) = n
  <2>1. 1 \in Int /\ n \in Int
        OBVIOUS
  <2>2. Cardinality(1..n) = IF 1 > n THEN 0 ELSE n - 1 + 1
        BY <2>1, FS_Interval
  <2> QED BY <2>2
<1> QED BY <1>2, <1>3, <1>4

----------------------------------------------------------------------------
(* Types.                                                                   *)

\* Frames one by one.
LEMMA ShortSequences ==
    ASSUME NEW S, NEW x \in S, NEW y \in S
    PROVE  <<x>> \in Seq(S) /\ <<x, y>> \in Seq(S)
<1>1. <<x>> \in Seq(S)
      OBVIOUS
<1>2. <<x, y>> \in Seq(S)
      OBVIOUS
<1> QED BY <1>1, <1>2

\* What is left of a queue.
LEMMA TailType ==
    ASSUME NEW S, NEW s \in Seq(S), s # <<>>
    PROVE  Head(s) \in S /\ Tail(s) \in Seq(S)
OBVIOUS

\* A frame that may go before others.
LEMMA OptionalFirst ==
    ASSUME NEW S, NEW x \in S, NEW c, NEW s \in Seq(S)
    PROVE  (IF c THEN <<x>> ELSE <<>>) \o s \in Seq(S)
<1>1. CASE c
  <2>1. <<x>> \in Seq(S)
        OBVIOUS
  <2> QED BY <1>1, <2>1
<1>2. CASE ~c
  <2>1. <<>> \in Seq(S)
        OBVIOUS
  <2> QED BY <1>2, <2>1
<1> QED BY <1>1, <1>2

\* What a handler sends are frames.
LEMMA SendsType ==
    ASSUME InputTypeOK, NEW msgs \in Seq(ToFbMsgs), Sends(msgs)
    PROVE  toFb' \in Seq(ToFbMsgs)
<1>1. toFb \in Seq(ToFbMsgs)
      BY DEF InputTypeOK, SocketTypeOK
<1>2. CASE toFb' = toFb \o msgs
      BY <1>1, <1>2
<1>3. CASE toFb' = toFb
      BY <1>1, <1>3
<1> QED BY <1>2, <1>3 DEF Sends

\* So is a move of the mouse that goes before it.
LEMMA SendsAtType ==
    ASSUME InputTypeOK, NEW p \in Points \cup {0}, NEW pend \in BOOLEAN,
           NEW msgs \in Seq(ToFbMsgs), SendsAt(p, pend, msgs)
    PROVE  toFb' \in Seq(ToFbMsgs) /\ pending' \in BOOLEAN
<1> DEFINE move == [t |-> "M", at |-> p]
           all == (IF connected /\ pend THEN <<move>> ELSE <<>>) \o msgs
<1>1. move \in ToFbMsgs
      BY DEF ToFbMsgs, MoveMsgs
<1>2. all \in Seq(ToFbMsgs)
      BY <1>1, OptionalFirst
<1>3. Sends(all) /\ pending' = (pend /\ ~connected)
      BY DEF SendsAt
<1>4. connected \in BOOLEAN
      BY DEF InputTypeOK, SocketTypeOK
<1> HIDE DEF all
<1> QED BY <1>2, <1>3, <1>4, SendsType

\* A frame about a key.
LEMMA KeyType ==
    ASSUME NEW k \in AllCodes, NEW down \in BOOLEAN
    PROVE  Key(k, down) \in ToFbMsgs
BY DEF Key, ToFbMsgs, KeyMsgs

\* The codes of the keys and buttons.
LEMMA CodesType ==
    /\ Typed \subseteq AllCodes /\ Super \in AllCodes
    /\ Left \in AllCodes /\ Wheel \in AllCodes
BY DEF AllCodes, UserKeys

\* A click, and the Search key it may press.
LEMMA SendClickType ==
    ASSUME InputTypeOK, NEW b \in AllCodes, NEW downs \in Seq(BOOLEAN),
           NEW p \in Points \cup {0}, NEW pend \in BOOLEAN,
           SendClick(b, downs, p, pend)
    PROVE  /\ toFb' \in Seq(ToFbMsgs) /\ pending' \in BOOLEAN
           /\ search' \in {search, "down"}
<1> DEFINE clicks == [i \in DOMAIN downs |-> Click(b, downs[i], p)]
           waits == search \in {"upfirst", "up"} /\ downs[1]
           all == (IF waits THEN <<Key(Super, TRUE)>> ELSE <<>>) \o clicks
<1>1. \A i \in DOMAIN downs : Click(b, downs[i], p) \in ToFbMsgs
      BY DEF Click, ToFbMsgs, ClickMsgs
<1>2. clicks \in Seq(ToFbMsgs)
      BY <1>1
<1>3. Key(Super, TRUE) \in ToFbMsgs
      BY KeyType, CodesType
<1> HIDE DEF clicks
<1>4. all \in Seq(ToFbMsgs)
      BY <1>2, <1>3, OptionalFirst
<1>5. SendsAt(p, pend, all) /\ search' = IF waits THEN "down" ELSE search
      BY DEF SendClick, clicks
<1> HIDE DEF all
<1>6. toFb' \in Seq(ToFbMsgs) /\ pending' \in BOOLEAN
      BY <1>4, <1>5, SendsAtType
<1> QED BY <1>5, <1>6

\* A key other than Search, with what it does to Search.
LEMMA KeyEventType ==
    ASSUME InputTypeOK, NEW k \in Typed, NEW down \in BOOLEAN, KeyEvent(k, down)
    PROVE  /\ toFb' \in Seq(ToFbMsgs) /\ pending' \in BOOLEAN
           /\ search' \in {search, "up", "down"}
<1>1. /\ Key(k, down) \in ToFbMsgs
      /\ Key(Super, TRUE) \in ToFbMsgs /\ Key(Super, FALSE) \in ToFbMsgs
      BY KeyType, CodesType
<1>5. <<Key(k, down)>> \in Seq(ToFbMsgs)
      BY <1>1
<1>2. pos \in Points \cup {0} /\ pending \in BOOLEAN
      BY DEF InputTypeOK
<1>3. PICK msgs \in Seq(ToFbMsgs) : SendsAt(pos, pending, msgs)
  <2>1. CASE k \in Letters
    <3> DEFINE all == (IF down /\ search \in {"upfirst", "up"}
                       THEN <<Key(Super, TRUE)>> ELSE <<>>) \o <<Key(k, down)>>
    <3>1. all \in Seq(ToFbMsgs)
          BY <1>1, <1>5, OptionalFirst, Zenon
    <3>2. SendsAt(pos, pending, all)
          BY <2>1 DEF KeyEvent
    <3> QED BY <3>1, <3>2
  <2>2. CASE k \notin Letters
    <3> DEFINE all == (IF search = "down" THEN <<Key(Super, FALSE)>> ELSE <<>>)
                      \o <<Key(k, down)>>
    <3>1. all \in Seq(ToFbMsgs)
          BY <1>1, <1>5, OptionalFirst, Zenon
    <3>2. SendsAt(pos, pending, all)
          BY <2>2 DEF KeyEvent
    <3> QED BY <3>1, <3>2
  <2> QED BY <2>1, <2>2
<1>4. search' \in {search, "up", "down"}
      BY DEF KeyEvent
<1> QED BY <1>2, <1>3, <1>4, SendsAtType

\* What the user does keeps the types, and leaves the server and X alone.
LEMMA UserType ==
    ASSUME InputTypeOK, UserStep
    PROVE  /\ InputTypeOK'
           /\ UNCHANGED <<sock, retry, connected, fpc, line, announced, toKiwi, xVars>>
<1> USE DEF vars, socketVars, SockRest, xVars, InputTypeOK, SocketTypeOK
<1>1. ASSUME NEW k \in Typed, KeyDown(k) \/ KeyUp(k)
      PROVE  InputTypeOK' /\ UNCHANGED <<SockRest, xVars>>
  <2>1. k \in UserKeys
        BY DEF UserKeys
  <2>2. PICK down \in BOOLEAN : KeyEvent(k, down)
        BY <1>1 DEF KeyDown, KeyUp
  <2>3. toFb' \in Seq(ToFbMsgs) /\ pending' \in BOOLEAN
        /\ search' \in {search, "up", "down"}
        BY <2>2, KeyEventType
  <2>4. held' \subseteq UserKeys /\ UNCHANGED xVars
        BY <1>1, <2>1 DEF KeyDown, KeyUp
  <2> QED BY <2>2, <2>3, <2>4 DEF KeyEvent
<1>2. ASSUME SearchDown
      PROVE  InputTypeOK' /\ UNCHANGED <<SockRest, xVars>>
  <2>1. lost' \subseteq {Super, Left}
        BY <1>2 DEF SearchDown, LoseTrack
  <2>2. held' \subseteq UserKeys
        BY <1>2 DEF SearchDown, UserKeys
  <2> QED BY <1>2, <2>1, <2>2 DEF SearchDown
<1>3. ASSUME SearchUp
      PROVE  InputTypeOK' /\ UNCHANGED <<SockRest, xVars>>
  <2>1. /\ <<Key(Super, TRUE), Key(Super, FALSE)>> \in Seq(ToFbMsgs)
        /\ <<Key(Super, FALSE)>> \in Seq(ToFbMsgs)
    <3>1. Key(Super, TRUE) \in ToFbMsgs /\ Key(Super, FALSE) \in ToFbMsgs
          BY KeyType, CodesType
    <3> QED BY <3>1, ShortSequences, Zenon
  <2>2. toFb' \in Seq(ToFbMsgs) /\ pending' \in BOOLEAN
        BY <1>3, <2>1, SendsAtType DEF SearchUp
  <2> QED BY <1>3, <2>2 DEF SearchUp
<1>4. ASSUME NEW p \in Points, MouseMove(p)
      PROVE  InputTypeOK' /\ UNCHANGED <<SockRest, xVars>>
      BY <1>4 DEF MouseMove
<1>5. ASSUME NEW p \in Points, NEW down \in BOOLEAN, MouseButton(p, down)
      PROVE  InputTypeOK' /\ UNCHANGED <<SockRest, xVars>>
  <2>1. Moved(p) \in BOOLEAN /\ <<down>> \in Seq(BOOLEAN)
        BY DEF Moved
  <2>2. toFb' \in Seq(ToFbMsgs) /\ pending' \in BOOLEAN /\ search' \in {search, "down"}
        BY <1>5, <2>1, SendClickType, CodesType DEF MouseButton
  <2>3. held' \subseteq UserKeys
        BY <1>5 DEF MouseButton, UserKeys
  <2> QED BY <1>5, <2>2, <2>3 DEF MouseButton
<1>6. ASSUME WheelTurn
      PROVE  InputTypeOK' /\ UNCHANGED <<SockRest, xVars>>
  <2>1. <<TRUE, FALSE>> \in Seq(BOOLEAN)
        OBVIOUS
  <2>2. toFb' \in Seq(ToFbMsgs) /\ pending' \in BOOLEAN /\ search' \in {search, "down"}
        BY <1>6, <2>1, SendClickType, CodesType DEF WheelTurn
  <2> QED BY <1>6, <2>2 DEF WheelTurn
<1>7. ASSUME NEW fs \in SUBSET Fingers, NEW p \in Points, TouchStart(fs, p)
      PROVE  InputTypeOK' /\ UNCHANGED <<SockRest, xVars>>
  <2>1. Moved(p) \in BOOLEAN /\ <<TRUE>> \in Seq(BOOLEAN)
        BY DEF Moved
  <2>2. Cardinality(fs) \in Nat
    <3>1. IsFiniteSet(fs)
          BY FS_Subset, InputAssumption
    <3> QED BY <3>1, FS_CardinalityType
  <2>3. toFb' \in Seq(ToFbMsgs) /\ pending' \in BOOLEAN /\ search' \in {search, "down"}
    <3>1. CASE SendClick(Left, <<TRUE>>, p, Moved(p))
          BY <1>7, <2>1, <3>1, SendClickType, CodesType
    <3>2. CASE UNCHANGED <<toFb, pending, pos, search>>
          BY <1>7, <3>2 DEF InputTypeOK, SocketTypeOK
    <3> QED BY <1>7, <3>1, <3>2 DEF TouchStart
  <2>4. touchId' \in Fingers \cup {0} /\ pos' \in Points \cup {0}
        BY <1>7 DEF TouchStart
  <2>5. touchCount' \in Int /\ touching' \subseteq Fingers
        BY <1>7, <2>2 DEF TouchStart
  <2> QED BY <1>7, <2>3, <2>4, <2>5 DEF TouchStart
<1>8. ASSUME NEW f \in Fingers, NEW p \in Points, TouchMove(f, p)
      PROVE  InputTypeOK' /\ UNCHANGED <<SockRest, xVars>>
      BY <1>8 DEF TouchMove
<1>9. ASSUME NEW f \in Fingers, NEW p \in Points, TouchEnd(f, p)
      PROVE  InputTypeOK' /\ UNCHANGED <<SockRest, xVars>>
  <2>1. Moved(p) \in BOOLEAN /\ <<FALSE>> \in Seq(BOOLEAN)
        BY DEF Moved
  <2>2. toFb' \in Seq(ToFbMsgs) /\ pending' \in BOOLEAN /\ search' \in {search, "down"}
        BY <1>9, <2>1, SendClickType, CodesType DEF TouchEnd
  <2>3. pos' \in Points \cup {0}
        BY <1>9 DEF TouchEnd
  <2> QED BY <1>9, <2>2, <2>3 DEF TouchEnd
<1>10. ASSUME TouchCancel
       PROVE  InputTypeOK' /\ UNCHANGED <<SockRest, xVars>>
       BY <1>10 DEF TouchCancel, LoseTrack
<1>11. ASSUME Blur
       PROVE  InputTypeOK' /\ UNCHANGED <<SockRest, xVars>>
  <2>1. <<Quit>> \in Seq(ToFbMsgs)
        BY DEF ToFbMsgs
  <2>2. toFb' \in Seq(ToFbMsgs)
        BY <1>11, <2>1, SendsType DEF Blur
  <2> QED BY <1>11, <2>2 DEF Blur
<1>12. ASSUME Focus
       PROVE  InputTypeOK' /\ UNCHANGED <<SockRest, xVars>>
       BY <1>12 DEF Focus
<1> QED BY <1>1, <1>2, <1>3, <1>4, <1>5, <1>6, <1>7, <1>8, <1>9, <1>10, <1>11,
           <1>12, Zenon
        DEF UserStep

\* The conjuncts about the connection alone.
SocketOK ==
    /\ SocketTypeOK(ToFbMsgs, {Version, InitInfo})
    /\ RetriesLeft

\* The frames of the connection itself.
LEMMA FramesType ==
    /\ VersionOk \in ToFbMsgs /\ CloseFrame \in ToFbMsgs /\ Ask \in ToFbMsgs
BY DEF ToFbMsgs

\* SocketClose keeps the types of the connection.
LEMMA SocketCloseType ==
    ASSUME InputTypeOK, RetriesLeft, SocketClose
    PROVE  SocketOK'
<1>1. <<CloseFrame>> \in Seq(ToFbMsgs)
      BY FramesType
<1>2. toFb' \in Seq(ToFbMsgs)
      BY <1>1, SendsType DEF SocketClose
<1>3. <<>> \in Seq({Version, InitInfo})
      OBVIOUS
<1> QED BY <1>2, <1>3
        DEF SocketClose, SocketOK, SocketTypeOK, InputTypeOK, RetriesLeft, SockStates

\* So does every step of the window.
LEMMA KiwiType ==
    ASSUME InputTypeOK, RetriesLeft, KiwiStep
    PROVE  /\ InputTypeOK' /\ RetriesLeft'
           /\ UNCHANGED <<fpc, xVars>>
<1> USE DEF InputTypeOK, SocketTypeOK, RetriesLeft, SocketOK, SockRest
<1>1. CASE OpenWindow /\ NewModule /\ UNCHANGED xVars
  <2>1. 0..MaxTouch - 1 \subseteq Int
        BY InputAssumption
  <2>2. InputTypeOK'
        BY <1>1, <2>1, SocketAssumption DEF OpenWindow, NewModule, xVars, SockStates
  <2> QED BY <1>1, <2>2, SocketAssumption DEF OpenWindow
<1>2. CASE /\ ConnectFails \/ ConnectAgain \/ ReceiveInit \/ ReceiveError
              \/ OnSocketClosed
           /\ UNCHANGED <<kiwiVars, xVars>>
  <2>1. SocketOK' /\ fpc' = fpc
    <3>1. CASE ConnectFails
      <4>1. retry + 1 \in 0..MaxRetry
            BY <3>1, SocketAssumption DEF ConnectFails
      <4>2. sock' = "waiting" => retry + 1 < MaxRetry
            BY <3>1 DEF ConnectFails
      <4>3. sock' \in {"waiting", "closed"}
            BY <3>1 DEF ConnectFails
      <4> QED BY <3>1, <4>1, <4>2, <4>3 DEF ConnectFails, SockStates
    <3>2. CASE ConnectAgain
          BY <3>2 DEF ConnectAgain, SockStates
    <3>3. CASE ReceiveInit
      <4>1. CASE "I" \notin Understood
            BY <3>3, <4>1, SocketCloseType DEF ReceiveInit, SocketClose
      <4>2. CASE "I" \in Understood
        <5>1. toKiwi' \in Seq({Version, InitInfo})
              BY <3>3, <4>2, TailType, Zenon DEF ReceiveInit
        <5> QED BY <3>3, <4>2, <5>1 DEF ReceiveInit
      <4> QED BY <3>3, <4>1, <4>2 DEF ReceiveInit
    <3>4. CASE ReceiveError
          BY <3>4, SocketCloseType DEF ReceiveError, SocketClose
    <3>5. CASE OnSocketClosed
      <4>1. line' \in Lines
            BY <3>5 DEF OnSocketClosed, Hangup, Lines
      <4> QED BY <3>5, <4>1 DEF OnSocketClosed, SockStates
    <3> QED BY <1>2, <3>1, <3>2, <3>3, <3>4, <3>5
  <2> QED BY <1>2, <2>1 DEF kiwiVars, xVars
<1>3. CASE CloseWindow /\ ModuleGone /\ UNCHANGED xVars
  <2>1. line' \in Lines
        BY <1>3 DEF CloseWindow, Hangup, Lines
  <2>2. toKiwi' \in Seq({Version, InitInfo})
        BY <1>3 DEF CloseWindow
  <2>3. retry' \in 0..MaxRetry
        BY <1>3, SocketAssumption DEF CloseWindow
  <2>4. SocketOK' /\ fpc' = fpc
        BY <1>3, <2>1, <2>2, <2>3 DEF CloseWindow, SockStates
  <2>5. /\ focus' \in BOOLEAN /\ held' \subseteq UserKeys /\ pending' \in BOOLEAN
        /\ search' \in {"inactive", "upfirst", "up", "down"}
        /\ pos' \in Points \cup {0} /\ touching' \subseteq Fingers
        /\ touchCount' \in Int /\ touchId' \in Fingers \cup {0}
        /\ lost' \subseteq {Super, Left}
    <3>1. ModuleGone
          BY <1>3
    <3>2. /\ focus' \in BOOLEAN /\ pending' \in BOOLEAN
          /\ search' \in {"inactive", "upfirst", "up", "down"}
          BY <3>1, Zenon DEF ModuleGone
    <3>3. held' \subseteq UserKeys /\ touching' \subseteq Fingers
          /\ lost' \subseteq {Super, Left}
          BY <3>1, Zenon DEF ModuleGone
    <3>4. /\ pos' \in Points \cup {0} /\ touchCount' \in Int
          /\ touchId' \in Fingers \cup {0}
          BY <3>1 DEF ModuleGone
    <3> QED BY <3>2, <3>3, <3>4
  <2> QED BY <1>3, <2>4, <2>5 DEF xVars
<1>4. CASE ReceiveVersion
  <2>1. <<VersionOk, Ask>> \in Seq(ToFbMsgs)
        BY FramesType
  <2>2. toFb' \in Seq(ToFbMsgs)
        BY <1>4, <2>1 DEF ReceiveVersion
  <2>3. toKiwi' \in Seq({Version, InitInfo})
        BY <1>4 DEF ReceiveVersion
  <2> QED BY <1>4, <2>2, <2>3 DEF ReceiveVersion, kiwiVars, xVars
<1>5. CASE AskServer
  <2>1. <<Ask>> \in Seq(ToFbMsgs)
        BY FramesType
  <2>2. toFb' \in Seq(ToFbMsgs) /\ pending' \in BOOLEAN
        BY <1>5, <2>1, SendsType, SendsAtType DEF AskServer
  <2> QED BY <1>5, <2>2 DEF AskServer, xVars
<1> QED BY <1>1, <1>2, <1>3, <1>4, <1>5 DEF KiwiStep

\* What a write leaves behind, also one that ends the server.
LEMMA WritesType ==
    ASSUME InputTypeOK, NEW frames \in Seq({Version, InitInfo}),
           NEW next \in ServerSteps, NEW rest \in Seq(ToFbMsgs),
           Writes(frames, next, rest)
    PROVE  /\ UNCHANGED <<sock, retry, connected>>
           /\ fpc' \in {next, "killed"} /\ fpc' \in ServerSteps
           /\ line' \in Lines
           /\ toFb' \in Seq(ToFbMsgs)
           /\ toKiwi' \in Seq({Version, InitInfo})
<1>1. toKiwi \in Seq({Version, InitInfo}) /\ line \in Lines
      BY DEF InputTypeOK, SocketTypeOK
<1>2. CASE line = "reset"
  <2>1. Dies("killed")
        BY <1>2 DEF Writes
  <2>2. toFb' \in Seq(ToFbMsgs)
        BY <2>1 DEF Dies
  <2> QED BY <1>1, <2>1, <2>2 DEF Dies, Lines, ServerSteps, Dead
<1>3. CASE line # "reset"
  <2>1. toKiwi' = toKiwi \o frames \/ toKiwi' = toKiwi
        BY <1>3 DEF Writes
  <2>2. toKiwi' \in Seq({Version, InitInfo})
    <3>1. toKiwi \o frames \in Seq({Version, InitInfo})
          BY <1>1
    <3> QED BY <1>1, <2>1, <3>1
  <2> QED BY <1>1, <1>3, <2>2 DEF Writes, Lines
<1> QED BY <1>2, <1>3

\* What the server knows when it serves a frame.
LEMMA RequestType ==
    ASSUME InputTypeOK, NEW type, Request(type)
    PROVE  /\ Head(toFb) \in ToFbMsgs /\ Head(toFb).t = type
           /\ Tail(toFb) \in Seq(ToFbMsgs)
<1>1. toFb \in Seq(ToFbMsgs) /\ toFb # <<>> /\ Head(toFb).t = type
      BY DEF Request, InputTypeOK, SocketTypeOK
<1> QED BY <1>1, TailType

\* A frame about a key or a button names one.
LEMMA KeyRequestType ==
    ASSUME InputTypeOK, Request("K") \/ Request("C")
    PROVE  /\ Head(toFb).k \in AllCodes /\ Head(toFb).down \in BOOLEAN
           /\ Tail(toFb) \in Seq(ToFbMsgs)
<1>1. Head(toFb) \in ToFbMsgs /\ Head(toFb).t \in {"K", "C"}
      /\ Tail(toFb) \in Seq(ToFbMsgs)
      BY RequestType
<1>2. Head(toFb) \in KeyMsgs \cup ClickMsgs
      BY <1>1 DEF ToFbMsgs, KeyMsgs, ClickMsgs, MoveMsgs, VersionOk, CloseFrame,
                  Quit, Ask
<1> QED BY <1>1, <1>2 DEF KeyMsgs, ClickMsgs

\* A frame about the mouse names a place.
LEMMA MoveRequestType ==
    ASSUME InputTypeOK, Request("M")
    PROVE  Head(toFb).at \in Points \cup {0} /\ Tail(toFb) \in Seq(ToFbMsgs)
<1>1. Head(toFb) \in ToFbMsgs /\ Head(toFb).t = "M"
      /\ Tail(toFb) \in Seq(ToFbMsgs)
      BY RequestType
<1>2. Head(toFb) \in MoveMsgs
      BY <1>1 DEF ToFbMsgs, KeyMsgs, ClickMsgs, MoveMsgs, VersionOk, CloseFrame,
                  Quit, Ask
<1> QED BY <1>1, <1>2 DEF MoveMsgs

\* The end of a connection.
LEMMA EndType ==
    ASSUME InputTypeOK, EndOfConnection
    PROVE  SocketTypeOK(ToFbMsgs, {Version, InitInfo})' /\ fpc' = "accept" /\ fpc = "serve"
<1>1. toFb' \in Seq(ToFbMsgs)
      BY DEF EndOfConnection
<1> QED BY <1>1 DEF EndOfConnection, InputTypeOK, SocketTypeOK, ServerSteps, Lines

\* Steps that leave the table alone and do not end in the loop of accept() keep
\* the rest of the invariant.
TableKept ==
    /\ UNCHANGED <<pressed, xdown>>
    /\ fpc \notin Dead
    /\ fpc' \in ServerSteps \ {"accept", "full"}

LEMMA TableKeptInv ==
    ASSUME InputInv, InputTypeOK', RetriesLeft', TableKept
    PROVE  InputInv'
BY DEF TableKept, InputInv, Distinct, Codes, CleanBetweenWindows, TableSuffices,
       Dead

----------------------------------------------------------------------------
(* The invariant.                                                           *)

\* The initial state satisfies it.
LEMMA InputInitInv == Init => InputInv
<1> SUFFICES ASSUME Init
             PROVE  InputInv
    OBVIOUS
<1> USE DEF Init, SocketInit
<1>1. SocketTypeOK(ToFbMsgs, {Version, InitInfo})
  <2>1. /\ sock \in SockStates /\ connected \in BOOLEAN /\ fpc \in ServerSteps
        /\ line \in Lines /\ announced \in BOOLEAN
        BY Zenon DEF SockStates, ServerSteps, Lines
  <2>2. retry \in 0..MaxRetry
        BY SocketAssumption
  <2>3. toFb \in Seq(ToFbMsgs) /\ toKiwi \in Seq({Version, InitInfo})
        OBVIOUS
  <2> QED BY <2>1, <2>2, <2>3 DEF SocketTypeOK
<1>2. pressed \in Seq(AllCodes) /\ xdown \subseteq AllCodes /\ Codes(pressed) = xdown
      BY DEF Codes
<1>3. focus \in BOOLEAN /\ pending \in BOOLEAN
      BY Zenon
<1>4. touchCount \in Int
      OBVIOUS
<1>5. InputTypeOK
      BY <1>1, <1>2, <1>3, <1>4 DEF InputTypeOK
<1>6. RetriesLeft /\ Distinct(pressed) /\ CleanBetweenWindows /\ TableSuffices
      BY DEF RetriesLeft, Distinct, CleanBetweenWindows, TableSuffices
<1> QED BY <1>2, <1>5, <1>6 DEF InputInv

\* There are finitely many keys and buttons.
LEMMA CodesFinite == IsFiniteSet(AllCodes)
<1>1. IsFiniteSet(Typed)
      BY InputAssumption, FS_Union DEF Typed
<1>2. IsFiniteSet({Super, Left}) /\ IsFiniteSet({Wheel})
  <2>1. IsFiniteSet({Super}) /\ IsFiniteSet({Left}) /\ IsFiniteSet({Wheel})
        BY FS_Singleton
  <2>2. {Super, Left} = {Super} \cup {Left}
        OBVIOUS
  <2>3. IsFiniteSet({Super} \cup {Left})
        BY <2>1, FS_Union
  <2> QED BY <2>1, <2>2, <2>3
<1>3. IsFiniteSet(UserKeys)
      BY <1>1, <1>2, FS_Union DEF UserKeys
<1> QED BY <1>2, <1>3, FS_Union DEF AllCodes

\* A press, of a key that is already down or not.
LEMMA FbPressInv ==
    ASSUME InputInv, FbKey, Head(toFb).down
    PROVE  InputInv'
<1> DEFINE k == Head(toFb).k
<1>1. k \in AllCodes /\ Tail(toFb) \in Seq(ToFbMsgs) /\ Press(k)
      BY KeyRequestType DEF FbKey, InputInv
<1>2. fpc = "serve" /\ UNCHANGED <<kiwiVars, xpos, announced>>
      BY <1>1 DEF FbKey, Request, Press
<1>3. Distinct(pressed) /\ Codes(pressed) = xdown /\ pressed \in Seq(AllCodes)
      BY <1>2 DEF InputInv, InputTypeOK, Dead
<1>4. xdown' = xdown \cup {k} /\ xdown' \subseteq AllCodes
      BY <1>1 DEF Press, InputInv, InputTypeOK
<1> HIDE DEF k
<1>5. CASE Len(pressed) < TableSize
  <2>1. pressed' = KbAdd(pressed, k) /\ Serving
        BY <1>1, <1>5 DEF Press
  <2>2. /\ pressed' \in Seq(AllCodes) /\ Distinct(pressed')
        /\ Codes(pressed') = xdown'
        BY <1>1, <1>3, <1>4, <2>1, KbAddTable
  <2>3. InputTypeOK' /\ RetriesLeft' /\ fpc' = "serve"
        BY <1>1, <1>2, <1>4, <2>1, <2>2
        DEF Serving, InputInv, InputTypeOK, SocketTypeOK, RetriesLeft, kiwiVars
  <2> QED BY <2>2, <2>3
          DEF InputInv, Distinct, Codes, CleanBetweenWindows, TableSuffices
<1>6. CASE ~(Len(pressed) < TableSize)
  <2>1. pressed' = pressed /\ Dies("full")
        BY <1>1, <1>6 DEF Press
  <2>2. Len(pressed) <= Cardinality(AllCodes)
        BY <1>3, CodesFinite, TableLength
  <2>3. ~(TableSize > Cardinality(AllCodes))
    <3>1. Len(pressed) \in Nat /\ Cardinality(AllCodes) \in Nat /\ TableSize \in Nat
          BY <1>3, CodesFinite, FS_CardinalityType, InputAssumption
    <3> QED BY <1>6, <2>2, <3>1
  <2>4. toFb' \in Seq(ToFbMsgs)
        BY <2>1 DEF Dies
  <2>5. InputTypeOK' /\ RetriesLeft' /\ fpc' = "full"
        BY <1>2, <1>4, <2>1, <2>4
        DEF Dies, InputInv, InputTypeOK, SocketTypeOK, RetriesLeft, kiwiVars, Lines,
            ServerSteps, Dead
  <2> QED BY <1>3, <2>1, <2>3, <2>5
          DEF InputInv, Distinct, CleanBetweenWindows, TableSuffices, Dead
<1> QED BY <1>5, <1>6

\* A release, of a key that is down or not.
LEMMA FbReleaseInv ==
    ASSUME InputInv, FbKey, ~Head(toFb).down
    PROVE  InputInv'
<1> DEFINE k == Head(toFb).k
<1>1. k \in AllCodes /\ Tail(toFb) \in Seq(ToFbMsgs) /\ Release(k)
      BY KeyRequestType DEF FbKey, InputInv
<1>2. fpc = "serve" /\ UNCHANGED <<kiwiVars, xpos>>
      BY DEF FbKey, Request
<1>3. Distinct(pressed) /\ Codes(pressed) = xdown /\ pressed \in Seq(AllCodes)
      BY <1>2 DEF InputInv, InputTypeOK, Dead
<1> HIDE DEF k
<1>4. /\ xdown' = xdown \ {k} /\ xdown' \subseteq AllCodes
      /\ pressed' = KbRemove(pressed, k) /\ Serving
      BY <1>1 DEF Release, InputInv, InputTypeOK
<1>5. /\ pressed' \in Seq(AllCodes) /\ Distinct(pressed')
      /\ Codes(pressed') = xdown'
      BY <1>3, <1>4, KbRemoveTable
<1>6. InputTypeOK' /\ RetriesLeft' /\ fpc' = "serve"
      BY <1>1, <1>2, <1>4, <1>5
      DEF Serving, InputInv, InputTypeOK, SocketTypeOK, RetriesLeft, kiwiVars
<1> QED BY <1>5, <1>6
        DEF InputInv, Distinct, Codes, CleanBetweenWindows, TableSuffices

\* Releasing what is in the table releases everything.
LEMMA ReleaseAllClean ==
    ASSUME InputInv, fpc \notin Dead, ReleaseAll
    PROVE  xdown' = {} /\ pressed' = <<>> /\ Codes(pressed') = {} /\ Distinct(pressed')
BY DEF InputInv, ReleaseAll, Codes, Distinct

\* A quit of the window, and the end of its connection.
LEMMA FbReleaseAllInv ==
    ASSUME InputInv, FbQuit \/ FbEnd
    PROVE  InputInv'
<1>1. fpc = "serve" /\ ReleaseAll /\ UNCHANGED <<kiwiVars, xpos>>
      BY EndType DEF FbQuit, FbEnd, Request, InputInv
<1>2. xdown' = {} /\ pressed' = <<>> /\ Codes(pressed') = {} /\ Distinct(pressed')
      BY <1>1, ReleaseAllClean DEF Dead
<1>3. SocketTypeOK(ToFbMsgs, {Version, InitInfo})' /\ fpc' \in {"serve", "accept"}
      /\ RetriesLeft'
  <2>1. CASE FbQuit
    <3>1. Tail(toFb) \in Seq(ToFbMsgs)
          BY <2>1, RequestType DEF FbQuit, InputInv
    <3> QED BY <1>1, <2>1, <3>1
            DEF FbQuit, Serving, InputInv, InputTypeOK, SocketTypeOK, RetriesLeft
  <2>2. CASE FbEnd
        BY <2>2, EndType DEF FbEnd, EndOfConnection, InputInv, RetriesLeft
  <2> QED BY <1>1, <2>1, <2>2
<1>4. InputTypeOK'
      BY <1>1, <1>2, <1>3 DEF InputInv, InputTypeOK, kiwiVars
<1> QED BY <1>2, <1>3, <1>4
        DEF InputInv, Distinct, CleanBetweenWindows, TableSuffices, Dead

\* Every other step of the server leaves the table alone.
LEMMA ServerRestInv ==
    ASSUME InputInv,
           \/ ReadVersion /\ UNCHANGED <<kiwiVars, xVars>>
           \/ ReadVersionFails /\ UNCHANGED <<kiwiVars, xVars>>
           \/ CloseKilled /\ UNCHANGED <<kiwiVars, xVars>>
           \/ Accept /\ UNCHANGED <<kiwiVars, xVars>>
           \/ AcceptFails /\ UNCHANGED <<kiwiVars, xVars>>
           \/ FbMove \/ FbAsk
    PROVE  InputInv'
<1> SUFFICES InputTypeOK' /\ RetriesLeft' /\ TableKept
    BY TableKeptInv
<1> USE DEF InputInv
<1>1. CASE ReadVersion /\ UNCHANGED <<kiwiVars, xVars>>
  <2>1. Writes(<<InitInfo>>, "serve", Tail(toFb)) /\ announced' \in BOOLEAN
        /\ fpc = "version" /\ toFb # <<>>
        BY <1>1 DEF ReadVersion
  <2>2. /\ <<InitInfo>> \in Seq({Version, InitInfo}) /\ "serve" \in ServerSteps
        /\ Tail(toFb) \in Seq(ToFbMsgs)
        BY <2>1, TailType DEF ServerSteps, InputTypeOK, SocketTypeOK
  <2>3. /\ UNCHANGED <<sock, retry, connected>>
        /\ fpc' \in {"serve", "killed"} /\ fpc' \in ServerSteps /\ line' \in Lines
        /\ toFb' \in Seq(ToFbMsgs) /\ toKiwi' \in Seq({Version, InitInfo})
        BY <2>1, <2>2, WritesType
  <2> QED BY <1>1, <2>1, <2>3
          DEF InputTypeOK, SocketTypeOK, RetriesLeft, TableKept, kiwiVars, xVars, Dead
<1>2. CASE ReadVersionFails /\ UNCHANGED <<kiwiVars, xVars>>
      BY <1>2
      DEF ReadVersionFails, InputTypeOK, SocketTypeOK, RetriesLeft, TableKept, kiwiVars,
          xVars, Dead, ServerSteps, Lines
<1>3. CASE CloseKilled /\ UNCHANGED <<kiwiVars, xVars>>
  <2>1. Dies("killed") /\ fpc = "serve" /\ UNCHANGED announced
        BY <1>3 DEF CloseKilled, Request
  <2>2. toFb' \in Seq(ToFbMsgs)
        BY <2>1 DEF Dies
  <2> QED BY <1>3, <2>1, <2>2
          DEF Dies, InputTypeOK, SocketTypeOK, RetriesLeft, TableKept, kiwiVars, xVars,
              Dead, ServerSteps, Lines
<1>4. CASE Accept /\ UNCHANGED <<kiwiVars, xVars>>
  <2>1. toFb' \in Seq(ToFbMsgs) /\ toKiwi' \in Seq({Version, InitInfo})
        BY <1>4 DEF Accept
  <2> QED BY <1>4, <2>1
          DEF Accept, InputTypeOK, SocketTypeOK, RetriesLeft, TableKept, kiwiVars, xVars,
              Dead, ServerSteps, Lines, SockStates
<1>5. CASE AcceptFails /\ UNCHANGED <<kiwiVars, xVars>>
      BY <1>5
      DEF AcceptFails, InputTypeOK, SocketTypeOK, RetriesLeft, TableKept, kiwiVars, xVars,
          Dead, ServerSteps
<1>6. CASE FbMove
  <2>1. xpos' \in Points \cup {0} /\ Tail(toFb) \in Seq(ToFbMsgs)
        BY <1>6, MoveRequestType DEF FbMove
  <2>2. fpc = "serve" /\ InputTypeOK' /\ RetriesLeft' /\ fpc' = "serve"
        BY <1>6, <2>1
        DEF FbMove, Request, Serving, InputTypeOK, SocketTypeOK, RetriesLeft, kiwiVars
  <2> QED BY <1>6, <2>2
          DEF FbMove, TableKept, ServerSteps, Dead
<1>7. CASE FbAsk
  <2>1. fpc = "serve" /\ UNCHANGED <<announced, kiwiVars, xVars>>
        BY <1>7 DEF FbAsk, Request
  <2>2. /\ UNCHANGED <<sock, retry, connected>>
        /\ fpc' \in {"serve", "killed", "aborted"} /\ line' \in Lines
        /\ toFb' \in Seq(ToFbMsgs) /\ toKiwi' \in Seq({Version, InitInfo})
    <3>1. CASE Writes(<<>>, "serve", Tail(toFb))
      <4>1. /\ <<>> \in Seq({Version, InitInfo}) /\ "serve" \in ServerSteps
            /\ Tail(toFb) \in Seq(ToFbMsgs)
            BY <1>7, RequestType DEF FbAsk, ServerSteps
      <4> QED BY <3>1, <4>1, WritesType
    <3>2. CASE Dies("aborted")
      <4>1. toFb' \in Seq(ToFbMsgs)
            BY <3>2 DEF Dies
      <4> QED BY <3>2, <4>1 DEF Dies, InputTypeOK, SocketTypeOK, Lines
    <3> QED BY <1>7, <3>1, <3>2 DEF FbAsk
  <2> QED BY <2>1, <2>2
          DEF InputTypeOK, SocketTypeOK, RetriesLeft, TableKept, kiwiVars, xVars, Dead,
              ServerSteps
<1> HIDE DEF InputInv
<1> QED BY <1>1, <1>2, <1>3, <1>4, <1>5, <1>6, <1>7

\* Every step keeps the invariant.
LEMMA InputStepInv ==
    ASSUME InputInv, Next
    PROVE  InputInv'
<1>1. CASE UserStep
  <2>1. InputTypeOK' /\ UNCHANGED <<sock, retry, fpc, xVars>>
        BY <1>1, UserType DEF InputInv
  <2> QED BY <2>1
          DEF InputInv, RetriesLeft, xVars, Distinct, Codes, CleanBetweenWindows,
              TableSuffices
<1>2. CASE KiwiStep
  <2>1. InputTypeOK' /\ RetriesLeft' /\ UNCHANGED <<fpc, xVars>>
        BY <1>2, KiwiType DEF InputInv
  <2> QED BY <2>1
          DEF InputInv, xVars, Distinct, Codes, CleanBetweenWindows, TableSuffices
<1>3. CASE FbKey
      BY <1>3, FbPressInv, FbReleaseInv, Zenon
<1>4. CASE FbQuit \/ FbEnd
      BY <1>4, FbReleaseAllInv, Zenon
<1>5. CASE FbMove \/ FbAsk
      BY <1>5, ServerRestInv, Zenon
<1>6. CASE (ReadVersion \/ ReadVersionFails \/ CloseKilled)
              /\ UNCHANGED <<kiwiVars, xVars>>
      BY <1>6, ServerRestInv, Zenon
<1>7. CASE (Accept \/ AcceptFails) /\ UNCHANGED <<kiwiVars, xVars>>
      BY <1>7, ServerRestInv, Zenon
<1> QED BY <1>1, <1>2, <1>3, <1>4, <1>5, <1>6, <1>7, Zenon DEF Next, ServerStep

\* The inductive invariant of the input of a window holds in every state.
THEOREM InputInvariant == Spec => []InputInv
<1>1. InputInv /\ [Next]_vars => InputInv'
  <2>1. ASSUME InputInv, UNCHANGED vars
        PROVE  InputInv'
    <3>1. InputTypeOK'
          BY <2>1
          DEF vars, socketVars, kiwiVars, xVars, InputInv, InputTypeOK, SocketTypeOK
    <3> QED BY <2>1, <3>1
            DEF vars, socketVars, xVars, InputInv, RetriesLeft, Distinct, Codes,
                CleanBetweenWindows, TableSuffices
  <2> QED BY <2>1, InputStepInv
<1> QED BY <1>1, InputInitInv, PTL DEF Spec

\* The state of the window, of the connection and of X keeps its types, whatever
\* arrives and whoever goes away.
THEOREM InputTypes == Spec => []InputTypeOK
<1>1. InputInv => InputTypeOK
      BY DEF InputInv
<1> QED BY <1>1, InputInvariant, PTL

\* The table of pressed keys holds exactly what is down in X, each key once
\* (fbserver.c:49-98).
THEOREM InputKeysTracked == Spec => []KeysTracked
<1>1. InputInv => KeysTracked
      BY DEF InputInv, KeysTracked, Distinct
<1> QED BY <1>1, InputInvariant, PTL

\* No key is down when the server waits for the next window (fbserver.c:628-629).
THEOREM InputCleanBetweenWindows == Spec => []CleanBetweenWindows
<1>1. InputInv => CleanBetweenWindows
      BY DEF InputInv
<1> QED BY <1>1, InputInvariant, PTL

\* A table with one entry more than there are keys never ends the server
\* (fbserver.c:56-63).
THEOREM InputTableSuffices == Spec => []TableSuffices
<1>1. InputInv => TableSuffices
      BY DEF InputInv
<1> QED BY <1>1, InputInvariant, PTL
=============================================================================
