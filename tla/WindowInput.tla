---------------------------- MODULE WindowInput -----------------------------
(***************************************************************************)
(* Keyboard, mouse and touch from a window to the X server of a chroot:    *)
(* the input handlers of kiwi.cc turn events into frames, croutonfbserver  *)
(* plays them into X with XTest and keeps a table of what it has pressed,  *)
(* to release it when the window loses the focus or goes away.  Requests   *)
(* for frames, cursors and resolutions appear only as traffic: they flush  *)
(* the mouse position, and their answers may find the window gone.         *)
(***************************************************************************)
EXTENDS WindowSocket, Integers, FiniteSets

CONSTANTS
    Letters, Others,  \* keys that press a pending Search key, and that do not
    Super,            \* the Search key (OSLeft), Super_L in X
    Left, Wheel,      \* the buttons: left (also a touch), and the wheel
    Fingers,
    Points,           \* positions in the window
    TableSize,        \* entries of pressed[]
    MaxQueue, MaxTouch,  \* bounds: frames on their way, touches,
    MaxHeld              \* keys, buttons and fingers down at a time

Typed == Letters \cup Others
UserKeys == Typed \cup {Super, Left}
AllCodes == UserKeys \cup {Wheel}

ASSUME InputAssumption ==
    /\ TableSize \in Nat /\ MaxTouch \in Nat
    /\ IsFiniteSet(Letters) /\ IsFiniteSet(Others) /\ IsFiniteSet(Fingers)
    /\ Super \notin Typed /\ Left \notin Typed /\ Wheel \notin UserKeys
    /\ Left # Super
    /\ 0 \notin Points /\ 0 \notin Fingers

VARIABLES
    focus,     \* the window has the focus
    held,      \* keys and button the user holds down, wherever the focus is
    search,    \* search_state_
    pos,       \* mouse_pos_, 0 before the first event
    pending,   \* pending_mouse_move_
    touching,  \* fingers on the screen
    touchCount, touchId,   \* touch_count_, touch_id_
    lost,         \* history: of what the module has lost track (LoseTrack)
    pressed,   \* pressed[0..pressed_len-1]
    xdown,     \* keys and buttons down in X
    xpos       \* the pointer in X

kiwiVars == <<focus, held, search, pos, pending, touching, touchCount, touchId,
              lost>>
xVars == <<pressed, xdown, xpos>>
vars == <<socketVars, kiwiVars, xVars>>

KeyMsgs == [t : {"K"}, k : AllCodes, down : BOOLEAN]
\* at: where the window had the mouse at the click (not in the frame).
ClickMsgs == [t : {"C"}, k : AllCodes, down : BOOLEAN, at : Points \cup {0}]
MoveMsgs == [t : {"M"}, at : Points \cup {0}]
\* S, P and R: requests the server answers.
Quit == [t |-> "Q"]
Ask == [t |-> "ask"]
ToFbMsgs == KeyMsgs \cup ClickMsgs \cup MoveMsgs
                \cup {VersionOk, CloseFrame, Quit, Ask}

InputTypeOK ==
    /\ SocketTypeOK(ToFbMsgs, {Version, InitInfo})
    /\ focus \in BOOLEAN
    /\ held \subseteq UserKeys
    /\ search \in {"inactive", "upfirst", "up", "down"}
    /\ pos \in Points \cup {0}
    /\ pending \in BOOLEAN
    /\ touching \subseteq Fingers
    /\ touchCount \in Int
    /\ touchId \in Fingers \cup {0}
    /\ lost \subseteq {Super, Left}
    /\ pressed \in Seq(AllCodes)
    /\ xdown \subseteq AllCodes
    /\ xpos \in Points \cup {0}

\* touch_count_ and touch_id_ have no initial value: any will do.
NewModule ==
    /\ focus' \in BOOLEAN
    /\ touchCount' \in 0..MaxTouch - 1
    /\ touchId' \in Fingers \cup {0}
    /\ UNCHANGED <<held, search, pos, pending, touching, lost>>

ModuleGone ==
    /\ focus' = FALSE /\ held' = {} /\ search' = "inactive"
    /\ pos' = 0 /\ pending' = FALSE
    /\ touching' = {} /\ touchCount' = 0 /\ touchId' = 0 /\ lost' = {}

Init ==
    /\ SocketInit
    /\ focus = FALSE /\ held = {} /\ search = "inactive"
    /\ pos = 0 /\ pending = FALSE
    /\ touching = {} /\ touchCount = 0 /\ touchId = 0 /\ lost = {}
    /\ pressed = <<>> /\ xdown = {} /\ xpos = 0

----------------------------------------------------------------------------
(* The module in the window.                                                *)

\* SocketSend(msgs, flushmouse): a pending move at p goes first.
SendsAt(p, pend, msgs) ==
    LET flush == connected /\ pend IN
    /\ Sends((IF flush THEN <<[t |-> "M", at |-> p]>> ELSE <<>>) \o msgs)
    /\ pending' = (pend /\ ~connected)

Key(k, down) == [t |-> "K", k |-> k, down |-> down]
Click(k, down, p) == [t |-> "C", k |-> k, down |-> down, at |-> p]

SockRest == <<sock, retry, connected, fpc, line, announced, toKiwi>>

\* Input counts as long as the connection stands, what a module does after that
\* goes nowhere and ends with it.  MaxQueue bounds the frames on their way.
Attentive ==
    /\ sock = "open" /\ line = "live"
    /\ connected => toKiwi = <<>>
    /\ Len(toFb) <= MaxQueue

\* A letter presses a waiting Search key first, anything else releases it.
KeyEvent(k, down) ==
    LET waits == search \in {"upfirst", "up"} IN
    /\ IF k \in Letters
       THEN /\ SendsAt(pos, pending,
                       (IF down /\ waits THEN <<Key(Super, TRUE)>> ELSE <<>>)
                       \o <<Key(k, down)>>)
            /\ search' = IF down /\ waits THEN "down" ELSE search
       ELSE /\ SendsAt(pos, pending,
                       (IF search = "down" THEN <<Key(Super, FALSE)>> ELSE <<>>)
                       \o <<Key(k, down)>>)
            /\ search' = IF search \in {"down", "upfirst"} THEN "up" ELSE search
    /\ UNCHANGED <<SockRest, focus, pos, touching, touchCount, touchId, lost>>

\* The first event of a key, or a repetition.
KeyDown(k) ==
    /\ Attentive /\ focus
    /\ held' = held \cup {k}
    /\ KeyEvent(k, TRUE)
    /\ UNCHANGED xVars

KeyUp(k) ==
    /\ Attentive /\ focus
    /\ k \in held
    /\ held' = held \ {k}
    /\ KeyEvent(k, FALSE)
    /\ UNCHANGED xVars

\* Until everything is released; no handler reads it.
LoseTrack(k) == lost' = IF connected THEN lost \cup {k} ELSE lost

\* The Search key itself is only remembered: a repetition of the event also
\* after it has been pressed in X, which is forgotten.
SearchDown ==
    /\ Attentive /\ focus
    /\ held' = held \cup {Super}
    /\ search' = "upfirst"
    /\ IF search = "down" THEN LoseTrack(Super) ELSE UNCHANGED lost
    /\ UNCHANGED <<socketVars, focus, pos, pending, touching, touchCount, touchId,
                   xVars>>

\* Released without another key it is a press of its own.
SearchUp ==
    /\ Attentive /\ focus
    /\ Super \in held
    /\ held' = held \ {Super}
    /\ search' = "inactive"
    /\ CASE search = "upfirst" ->
              SendsAt(pos, pending, <<Key(Super, TRUE), Key(Super, FALSE)>>)
         [] search = "down" -> SendsAt(pos, pending, <<Key(Super, FALSE)>>)
         [] OTHER -> UNCHANGED <<toFb, pending>>
    /\ UNCHANGED <<SockRest, focus, pos, touching, touchCount, touchId, lost,
                   xVars>>

\* Mutant: the click does not flush the mouse position.
SendClickUnflushed(b, downs, p, pend) ==
    /\ Sends([i \in DOMAIN downs |-> Click(b, downs[i], p)])
    /\ pending' = pend
    /\ UNCHANGED search

\* SendClick: a press of a button also presses a waiting Search key.
SendClick(b, downs, p, pend) ==
    LET waits == search \in {"upfirst", "up"} /\ downs[1] IN
    /\ SendsAt(p, pend,
               (IF waits THEN <<Key(Super, TRUE)>> ELSE <<>>)
               \o [i \in DOMAIN downs |-> Click(b, downs[i], p)])
    /\ search' = IF waits THEN "down" ELSE search

Moved(p) == pending \/ pos # p

MouseMove(p) ==
    /\ Attentive
    /\ pos # p
    /\ pos' = p
    /\ pending' = TRUE
    /\ UNCHANGED <<socketVars, focus, held, search, touching, touchCount, touchId,
                   lost, xVars>>

MouseButton(p, down) ==
    /\ Attentive /\ focus
    /\ down \/ Left \in held
    /\ held' = IF down THEN held \cup {Left} ELSE held \ {Left}
    /\ pos' = p
    /\ SendClick(Left, <<down>>, p, Moved(p))
    /\ UNCHANGED <<SockRest, focus, touching, touchCount, touchId, lost, xVars>>

\* One notch of the wheel: a click where the mouse was last seen.
WheelTurn ==
    /\ Attentive
    /\ SendClick(Wheel, <<TRUE, FALSE>>, pos, pending)
    /\ UNCHANGED <<SockRest, focus, held, pos, touching, touchCount, touchId,
                   lost, xVars>>

\* Only the finger that touched an untouched screen clicks.
TouchStart(fs, p) ==
    LET id == IF touchCount = 0 /\ Cardinality(fs) = 1
              THEN CHOOSE f \in fs : TRUE ELSE touchId IN
    /\ Attentive /\ focus
    /\ fs # {} /\ fs \cap touching = {}
    /\ touching' = touching \cup fs
    /\ touchCount + Cardinality(fs) <= MaxTouch
    /\ touchCount' = touchCount + Cardinality(fs)
    /\ touchId' = id
    /\ IF id \in fs
       THEN pos' = p /\ SendClick(Left, <<TRUE>>, p, Moved(p))
       ELSE UNCHANGED <<toFb, pending, pos, search>>
    /\ UNCHANGED <<SockRest, focus, held, lost, xVars>>

TouchMove(f, p) ==
    /\ Attentive
    /\ f \in touching /\ f = touchId /\ pos # p
    /\ pos' = p
    /\ pending' = TRUE
    /\ UNCHANGED <<socketVars, focus, held, search, touching, touchCount, touchId,
                   lost, xVars>>

TouchEnd(f, p) ==
    /\ Attentive
    /\ f \in touching
    /\ touching' = touching \ {f}
    /\ touchCount' = touchCount - 1
    /\ IF f = touchId
       THEN pos' = p /\ SendClick(Left, <<FALSE>>, p, Moved(p))
       ELSE UNCHANGED <<toFb, pending, pos, search>>
    /\ UNCHANGED <<SockRest, focus, held, touchId, lost, xVars>>

\* A gesture of the browser takes the touch over: no handler for that event.
TouchCancel ==
    /\ touching # {}
    /\ touching' = {}
    /\ LoseTrack(Left)
    /\ UNCHANGED <<socketVars, focus, held, search, pos, pending, touchCount,
                   touchId, xVars>>

\* Mutant: the keys are not released when the window is left.
BlurKeepsKeys ==
    /\ Attentive /\ focus
    /\ focus' = FALSE
    /\ held' = {}
    /\ UNCHANGED <<socketVars, search, pos, pending, touching, touchCount, touchId,
                   lost, xVars>>

\* blur: and hide: release all keys.  What the user does elsewhere we are not told.
Blur ==
    /\ Attentive /\ focus
    /\ focus' = FALSE
    /\ held' = {}
    /\ Sends(<<Quit>>)
    /\ lost' = {}
    /\ UNCHANGED <<SockRest, search, pos, pending, touching, touchCount, touchId,
                   xVars>>

Focus ==
    /\ Attentive /\ ~focus
    /\ focus' = TRUE
    /\ held' \in SUBSET UserKeys
    /\ UNCHANGED <<socketVars, search, pos, pending, touching, touchCount, touchId,
                   lost, xVars>>

\* RequestScreen, ChangeResolution or the request for a cursor.
AskServer ==
    /\ Attentive /\ connected
    /\ \E flush \in BOOLEAN :
           IF flush THEN SendsAt(pos, pending, <<Ask>>)
                    ELSE Sends(<<Ask>>) /\ UNCHANGED pending
    /\ UNCHANGED <<SockRest, focus, held, search, pos, touching, touchCount,
                   touchId, lost, xVars>>

\* SocketParseVersion: connected_, VOK, the resolution and the first request.
ReceiveVersion ==
    /\ sock = "open" /\ toKiwi # <<>> /\ Head(toKiwi) = Version
    /\ toKiwi' = Tail(toKiwi)
    /\ connected' = TRUE
    /\ toFb' = IF line = "live" THEN toFb \o <<VersionOk, Ask>> ELSE toFb
    /\ UNCHANGED <<sock, retry, fpc, line, announced, kiwiVars, xVars>>

KiwiStep ==
    \/ OpenWindow /\ NewModule /\ UNCHANGED xVars
    \/ /\ ConnectFails \/ ConnectAgain \/ ReceiveInit \/ ReceiveError
          \/ OnSocketClosed
       /\ UNCHANGED <<kiwiVars, xVars>>
    \/ CloseWindow /\ ModuleGone /\ UNCHANGED xVars
    \/ ReceiveVersion \/ AskServer

UserStep ==
    /\ \/ \E k \in Typed : KeyDown(k) \/ KeyUp(k)
       \/ SearchDown \/ SearchUp
       \/ \E p \in Points : MouseMove(p) \/ \E d \in BOOLEAN : MouseButton(p, d)
       \/ WheelTurn
       \/ \E p \in Points :
              \/ \E fs \in SUBSET Fingers : TouchStart(fs, p)
              \/ \E f \in Fingers : TouchMove(f, p) \/ TouchEnd(f, p)
       \/ TouchCancel
       \/ Blur \/ Focus
    /\ Cardinality(held') + Cardinality(touching') <= MaxHeld

----------------------------------------------------------------------------
(* croutonfbserver: XTest and the table of what it has pressed.             *)

Codes(table) == {table[i] : i \in DOMAIN table}

\* Mutant: every repetition is a new entry.
KbAddTwice(table, k) == Append(table, k)

\* kb_add: once per key, however often it repeats.
KbAdd(table, k) == IF k \in Codes(table) THEN table ELSE Append(table, k)

\* Mutant: the last entry is dropped, but not moved to the free place.
KbRemoveLast(table, k) ==
    IF k \in Codes(table) THEN [j \in 1..Len(table) - 1 |-> table[j]] ELSE table

\* kb_remove: the last entry takes the place of the one removed.
KbRemove(table, k) ==
    IF k \in Codes(table)
    THEN LET i == CHOOSE j \in DOMAIN table : table[j] = k
             last == Len(table)
         IN  [j \in 1..last - 1 |-> IF j = i THEN table[last] ELSE table[j]]
    ELSE table

\* The abort of kb_add comes before it looks for the key.
Press(k) ==
    /\ xdown' = xdown \cup {k}
    /\ UNCHANGED announced
    /\ IF Len(pressed) < TableSize
       THEN pressed' = KbAdd(pressed, k) /\ Serving
       ELSE pressed' = pressed /\ Dies("full")

Release(k) ==
    /\ xdown' = xdown \ {k}
    /\ pressed' = KbRemove(pressed, k)
    /\ Serving

\* kb_release_all
ReleaseAll ==
    /\ xdown' = xdown \ Codes(pressed)
    /\ pressed' = <<>>

FbKey ==
    /\ Request("K") \/ Request("C")
    /\ IF Head(toFb).down THEN Press(Head(toFb).k) ELSE Release(Head(toFb).k)
    /\ UNCHANGED <<kiwiVars, xpos>>

FbMove ==
    /\ Request("M")
    /\ xpos' = Head(toFb).at
    /\ Serving
    /\ UNCHANGED <<kiwiVars, pressed, xdown>>

FbQuit ==
    /\ Request("Q")
    /\ ReleaseAll
    /\ Serving
    /\ UNCHANGED <<kiwiVars, xpos>>

\* The answer is not part of this module; setres may fail and end the server.
FbAsk ==
    /\ Request("ask")
    /\ Writes(<<>>, "serve", Tail(toFb)) \/ Dies("aborted")
    /\ UNCHANGED <<announced, kiwiVars, xVars>>

\* Mutant: the keys stay down when the connection ends.
FbEndKeepsKeys ==
    /\ EndOfConnection
    /\ UNCHANGED <<kiwiVars, xVars>>

FbEnd ==
    /\ EndOfConnection
    /\ ReleaseAll
    /\ UNCHANGED <<kiwiVars, xpos>>

ServerStep ==
    \/ (ReadVersion \/ ReadVersionFails \/ CloseKilled)
          /\ UNCHANGED <<kiwiVars, xVars>>
    \/ FbKey \/ FbMove \/ FbQuit \/ FbAsk \/ FbEnd

Next ==
    \/ UserStep \/ KiwiStep \/ ServerStep
    \/ (Accept \/ AcceptFails) /\ UNCHANGED <<kiwiVars, xVars>>

\* The server is a process of its own and waits only for the next frame.
Spec == Init /\ [][Next]_vars /\ WF_vars(ServerStep)

----------------------------------------------------------------------------
(* Properties *)

\* The table holds exactly what is down in X, each key once, however presses,
\* repetitions and releases follow each other (fbserver.c:49-98); so releasing
\* what is in the table releases everything.
KeysTracked ==
    fpc \notin Dead =>
        /\ Codes(pressed) = xdown
        /\ \A i, j \in DOMAIN pressed : pressed[i] = pressed[j] => i = j

\* The next window never finds a key of the last one down (fbserver.c:628-629).
CleanBetweenWindows == fpc = "accept" => xdown = {}

\* The table is large enough as soon as it has one entry more than there are
\* keys: kb_add aborts before it looks whether it needs an entry
\* (fbserver.c:56-63).
TableSuffices == TableSize > Cardinality(AllCodes) => fpc # "full"

\* A frame that presses or releases a key, or releases everything.
Decides(msg, k) == msg.t = "Q" \/ (msg.t \in {"K", "C"} /\ msg.k = k)

Silent(queue, k) == \A i \in DOMAIN queue : ~Decides(queue[i], k)

\* The last frame of a queue that decides presses.
Presses(queue, k) ==
    \E i \in DOMAIN queue :
        /\ Decides(queue[i], k) /\ queue[i].t # "Q" /\ queue[i].down
        /\ \A j \in DOMAIN queue : j > i => ~Decides(queue[j], k)

\* What will be down once the server has handled the frames on their way.
DownAfter(k) == (k \in xdown /\ Silent(toFb, k)) \/ Presses(toFb, k)

\* No key is stuck: with everything delivered, what is down in X the user holds
\* down, in the window and with the focus - but for a touch taken over by the
\* browser, and Super_L, which is down while the module believes Search is
\* (kiwi.cc:82-86, 526-561, 1066-1074).
NoStuckKey ==
    (connected /\ sock = "open" /\ line = "live") =>
        \A k \in AllCodes : DownAfter(k) =>
            \/ k \in held
            \/ k = Super /\ search = "down"
            \/ k = Left /\ focus /\ touchId \in touching
            \/ k \in lost

\* A click happens where the mouse of the window was when the user clicked, not
\* where X had it: the move that is pending goes first (kiwi.cc:454-475).
ClicksLand ==
    [][(Request("C") /\ toFb' = Tail(toFb) /\ Head(toFb).at # 0)
            => xpos = Head(toFb).at]_vars

\* What the server says after the version is part of the protocol: the window does
\* not close the connection to a server that is there (fbserver-proto.h:84-88,
\* fbserver.c:494-504, kiwi.cc:424-444).
StaysConnected == [][sock = "open" /\ sock' = "closing" => line # "live"]_vars

\* When a window goes away with keys down they are released, unless the server
\* dies of it (fbserver.c:559-562, 628-631).
KeysReleased ==
    line \in {"gone", "reset"} ~> (xdown = {} \/ fpc \in Dead)
=============================================================================
