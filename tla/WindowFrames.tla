---------------------------- MODULE WindowFrames ----------------------------
(***************************************************************************)
(* The picture of a chroot on its way to a window: kiwi.cc asks for one    *)
(* frame at a time and paints it, croutonfbserver (fbserver.c) asks the X  *)
(* server what has changed and copies the screen into the shared memory of *)
(* the window.  Versions of the picture stand for its contents, serial     *)
(* numbers for cursors.  Input appears only as what sets the frame rate.   *)
(***************************************************************************)
EXTENDS WindowSocket, FiniteSets

CONSTANTS
    Addrs,        \* where the module finds its image buffers
    Sizes,        \* sizes of windows and of the X screen
    Serials,      \* of cursors
    MaxContent,   \* bounds: pictures drawn,
    MaxEvents     \* windows, new cursors, frame rates and sizes, and failures

ASSUME FramesAssumption ==
    /\ Addrs \subseteq Nat \ {0}
    /\ Sizes \subseteq Nat \ {0}
    /\ Serials \subseteq Nat \ {0} /\ 1 \in Serials
    /\ MaxContent \in Nat \ {0} /\ MaxEvents \in Nat

VARIABLES
    \* the module
    fps,          \* target_fps_: 2 full, 1 blurred, 0 hidden
    flying,       \* screen_flying_
    timers,       \* calls of RequestScreen: with the "current" token, or "stale"
    force,        \* force_refresh_
    view, size,   \* view_rect_, size_
    context,      \* context_: "ok" or "null"
    img,          \* image_data_
    flush,        \* Flush of the image: "pending", of an "old" context, "void"
    shown, newest,   \* the window: what it shows, and the latest it has (history)
    kcursor,      \* its cursor
    cursors,      \* cursor_cache_
    \* the memory it shares
    bufs, pix,    \* per address: size of the buffer, its content
    \* croutonfbserver
    shmimg,       \* img: its size and content
    cache, next,  \* cache[], next_entry
    req,          \* the request it is serving
    \* the X server
    content, cursor,
    root,         \* size of the screen
    damaged, mapped, moved,   \* events waiting: damage, MapNotify, cursor
    untold,       \* history: the cursor event went to an earlier window
    events        \* how many so far

moduleVars == <<fps, flying, timers, force, view, size, context, img, flush, shown,
                newest, kcursor, cursors, bufs, pix>>
screenVars == <<content, cursor, root, damaged, mapped, moved, untold>>
serverVars == <<shmimg, cache, next, req>>
vars == <<socketVars, moduleVars, screenVars, serverVars, events>>

Full == 2
Blurred == 1
Hidden == 0

NoImage == [addr |-> 0, size |-> 0]
NoRequest == [image |-> NoImage, cursor |-> 0]
NoEntry == [addr |-> 0, map |-> "none", size |-> 0]

Images == [addr : Addrs \cup {0}, size : Sizes \cup {0}]
\* In a buffer that is new.
Garbage == MaxContent + 1
Versions == 0..Garbage
Asks == [t : {"S"}, image : Images, refresh : BOOLEAN]
          \cup [t : {"R"}, size : Sizes] \cup [t : {"P"}]
\* cursor: 0 when it has not changed.
Answers == [t : {"S"}, updated : BOOLEAN, failed : BOOLEAN, cursor : Serials \cup {0}]
             \cup [t : {"R"}, size : Sizes] \cup [t : {"P"}, cursor : Serials]

FbMsgs == Asks \cup {VersionOk, CloseFrame}
KiwiMsgs == Answers \cup {Version, InitInfo}

ModuleTypeOK ==
    /\ fps \in {Full, Blurred, Hidden}
    /\ flying \in BOOLEAN /\ force \in BOOLEAN
    /\ timers \subseteq {"current", "stale"}
    /\ view \in Sizes \cup {0} /\ size \in Sizes \cup {0}
    /\ context \in {"ok", "null"}
    /\ img \in Images
    /\ flush \in {"none", "pending", "old", "void"}
    /\ shown \in Versions /\ newest \in Versions
    /\ kcursor \in Serials \cup {0} /\ cursors \subseteq Serials
    /\ bufs \in [Addrs -> Sizes \cup {0}] /\ pix \in [Addrs -> Versions]

ServerTypeOK ==
    /\ shmimg \in [size : Sizes \cup {0}, content : Versions]
    /\ cache \in [{0, 1} -> [addr : Addrs \cup {0}, map : {"none", "live", "stale"},
                             size : Sizes \cup {0}]]
    /\ next \in {0, 1}
    /\ req \in [image : Images, cursor : Serials \cup {0}]

ScreenTypeOK ==
    /\ content \in Versions /\ cursor \in Serials /\ root \in Sizes
    /\ damaged \in BOOLEAN /\ mapped \in BOOLEAN
    /\ moved \in BOOLEAN /\ untold \in BOOLEAN

FramesTypeOK ==
    /\ SocketTypeOK(FbMsgs, KiwiMsgs)
    /\ ModuleTypeOK /\ ServerTypeOK /\ ScreenTypeOK
    /\ events \in 0..MaxEvents

Init ==
    /\ SocketInit
    /\ fps = Full /\ flying = FALSE /\ timers = {} /\ force = FALSE
    /\ view = 0 /\ size = 0 /\ context = "null" /\ img = NoImage
    /\ flush = "none" /\ shown = 0 /\ newest = 0 /\ kcursor = 0 /\ cursors = {}
    /\ bufs = [a \in Addrs |-> 0] /\ pix = [a \in Addrs |-> 0]
    /\ shmimg = [size |-> 0, content |-> 0]
    /\ cache = [i \in {0, 1} |-> NoEntry] /\ next = 0
    /\ req = NoRequest
    /\ content = 1 /\ cursor = 1 /\ root \in Sizes
    /\ damaged = FALSE /\ mapped = FALSE /\ moved = FALSE /\ untold = TRUE
    /\ events = 0

----------------------------------------------------------------------------
(* The X server and its clients.                                            *)

Draw ==
    /\ content < MaxContent
    /\ content' = content + 1
    /\ damaged' = TRUE
    /\ UNCHANGED <<cursor, root, mapped, moved, untold>>

Event == events < MaxEvents /\ events' = events + 1

\* A new window, and what is drawn in it before damage is registered for it.
DrawInNewWindow ==
    /\ content < MaxContent
    /\ content' = content + 1
    /\ mapped' = TRUE
    /\ UNCHANGED <<cursor, root, damaged, moved, untold>>

ChangeCursor ==
    /\ Event
    /\ \E c \in Serials \ {cursor} : cursor' = c
    /\ moved' = TRUE
    /\ untold' = FALSE
    /\ UNCHANGED <<content, root, damaged, mapped>>

XStep ==
    /\ fpc \notin Dead
    /\ \/ (Draw \/ DrawInNewWindow) /\ UNCHANGED events
       \/ ChangeCursor
    /\ UNCHANGED <<socketVars, moduleVars, serverVars>>

----------------------------------------------------------------------------
(* The module in the window.                                                *)

Screen(image, refresh) == [t |-> "S", image |-> image, refresh |-> refresh]
Resolution(s) == [t |-> "R", size |-> s]
Cursor == [t |-> "P"]

\* What a module does when the other end has gone goes nowhere and ends with it.
Attached == sock = "open" /\ line = "live"

SockRest == <<sock, retry, connected, fpc, line, announced>>
OutputRest == <<view, size, context, kcursor, cursors>>
BufferRest == <<img, flush, shown, newest, bufs, pix>>

\* request_token_++
Outdated(calls) == IF calls = {} THEN {} ELSE {"stale"}

\* Mutant: a request does not wait for the one that is flying.
RequestScreenTwice(sent, calls, image, refresh, waits) ==
    IF connected
    THEN /\ Sends(sent \o <<Screen(image, refresh)>>)
         /\ flying' = TRUE
         /\ force' = FALSE
         /\ timers' = Outdated(calls)
    ELSE UNCHANGED <<toFb, flying, force, timers>>

\* RequestScreen with the current token, after the frames sent, while calls are
\* scheduled; waits: another one is flying.
RequestScreen(sent, calls, image, refresh, waits) ==
    IF connected /\ ~waits
    THEN /\ Sends(sent \o <<Screen(image, refresh)>>)
         /\ flying' = TRUE
         /\ force' = FALSE
         /\ timers' = Outdated(calls)
    ELSE /\ Sends(sent)
         /\ flying' = waits
         /\ force' = refresh
         /\ timers' = calls

TimerFires ==
    /\ Attached
    /\ \E token \in timers :
           IF token = "current"
           THEN RequestScreen(<<>>, timers \ {token}, img, force, flying)
           ELSE /\ timers' = timers \ {token}
                /\ UNCHANGED <<toFb, flying, force>>
    /\ UNCHANGED <<SockRest, toKiwi, fps, OutputRest, BufferRest>>

\* SetTargetFPS, from the focus of the window or from input.
SetTargetFPS ==
    /\ Attached
    /\ Event
    /\ \E target \in {Full, Blurred, Hidden} \ {fps} :
           /\ fps' = target
           /\ IF target > fps
              THEN RequestScreen(<<>>, timers, img, TRUE, flying)
              ELSE UNCHANGED <<toFb, flying, force, timers>>
    /\ UNCHANGED <<SockRest, toKiwi, OutputRest, BufferRest>>

\* A new buffer, or an earlier one again, before the present one is let go.
Allocate(a, reused) ==
    /\ a # img.addr
    /\ img' = [addr |-> a, size |-> size]
    /\ IF reused
       THEN /\ bufs[a] = size
            /\ UNCHANGED <<bufs, pix, cache>>
       ELSE /\ bufs' = [bufs EXCEPT ![a] = size]
            /\ pix' = [pix EXCEPT ![a] = Garbage]
            /\ cache' = [i \in {0, 1} |->
                  IF cache[i].addr = a /\ cache[i].map = "live"
                  THEN [cache[i] EXCEPT !.map = "stale"] ELSE cache[i]]

\* The part of OnFlush after the allocation: now, or after a delay.
NextRequest(sent, refresh) ==
    \/ RequestScreen(sent, timers, img', refresh, FALSE)
    \/ /\ Sends(sent)
       /\ flying' = FALSE
       /\ force' = refresh
       /\ timers' = timers \cup {"current"}

OnFlush ==
    /\ Attached
    /\ flush \in {"pending", "old"}
    /\ flush' = "none"
    /\ IF flush = "pending"
       THEN /\ shown' = pix[img.addr]
            /\ newest' = IF shown' = 0 THEN newest ELSE shown'
       ELSE UNCHANGED <<shown, newest>>
    /\ \E a \in Addrs, reused \in BOOLEAN : Allocate(a, reused)
    /\ IF fps > Hidden
       THEN NextRequest(<<>>, force)
       ELSE /\ flying' = FALSE
            /\ UNCHANGED <<toFb, force, timers>>
    /\ UNCHANGED <<SockRest, toKiwi, fps, OutputRest>>

\* SocketParseVersion: connected_, VOK, the resolution, and OnFlush.
ReceiveVersion ==
    /\ Receives("V")
    /\ connected' = TRUE
    /\ \E a \in Addrs : Allocate(a, FALSE)
    /\ LET sent == <<VersionOk, Resolution(size)>> IN
       \/ /\ fps > Hidden
          /\ toFb' = IF line = "live" THEN sent \o <<Screen(img', force)>> ELSE toFb
          /\ flying' = TRUE /\ force' = FALSE /\ UNCHANGED timers
       \/ /\ toFb' = IF line = "live" THEN sent ELSE toFb
          /\ timers' = IF fps > Hidden THEN {"current"} ELSE timers
          /\ UNCHANGED <<flying, force>>
    /\ UNCHANGED <<sock, retry, fpc, line, announced, fps, OutputRest, flush, shown,
                   newest>>

\* Paint: nothing is flushed in a context that is null.
Paint(blank) ==
    /\ flush' = IF context = "ok" THEN "pending" ELSE "void"
    /\ pix' = IF blank /\ context = "ok" THEN [pix EXCEPT ![img.addr] = 0] ELSE pix

\* Mutant: after a frame without an update no other is asked for.
NoUpdateStops ==
    /\ flying' = FALSE
    /\ UNCHANGED <<timers, flush, pix, force>>

NoUpdate ==
    /\ flying' = FALSE
    /\ timers' = IF fps > Hidden THEN timers \cup {"current"} ELSE timers
    /\ UNCHANGED <<flush, pix, force>>

\* Mutant: the blank frame is not followed by a refresh.
FrameWithoutForce(failed) ==
    /\ Paint(failed)
    /\ UNCHANGED <<flying, timers, force>>

Frame(failed) ==
    /\ Paint(failed)
    /\ force' = (force \/ failed)
    /\ UNCHANGED <<flying, timers>>

\* Mutant: the data of an unknown cursor is not asked for.
NewCursorUnasked(c) ==
    /\ kcursor' = IF c \in cursors THEN c ELSE kcursor
    /\ UNCHANGED toFb

\* From the cache, or to be asked for.
NewCursor(c) ==
    IF c = 0 THEN UNCHANGED <<kcursor, toFb>>
    ELSE IF c \in cursors THEN kcursor' = c /\ UNCHANGED toFb
    ELSE Sends(<<Cursor>>) /\ UNCHANGED kcursor

\* SocketParseScreen
ReceiveScreen ==
    /\ Receives("S")
    /\ LET reply == Head(toKiwi) IN
       /\ IF reply.updated THEN Frame(reply.failed) ELSE NoUpdate
       /\ NewCursor(reply.cursor)
    /\ UNCHANGED <<SockRest, fps, view, size, context, img, shown, newest, cursors, bufs>>

\* SocketParseCursor
ReceiveCursor ==
    /\ Receives("P")
    /\ kcursor' = Head(toKiwi).cursor
    /\ cursors' = cursors \cup {Head(toKiwi).cursor}
    /\ UNCHANGED <<SockRest, toFb, fps, flying, timers, force, view, size, context,
                   BufferRest>>

\* SocketParseResolution; window.js makes the module that large.
ReceiveResolution ==
    /\ Receives("R")
    /\ view' = Head(toKiwi).size
    /\ force' = TRUE
    /\ UNCHANGED <<SockRest, toFb, fps, flying, timers, size, context, kcursor, cursors,
                   BufferRest>>

\* DidChangeView or hidpi: a new context, blank until it is flushed.
InitContext(bound) ==
    /\ context' = IF bound THEN "ok" ELSE "null"
    /\ IF bound THEN size' = view /\ force' = TRUE ELSE UNCHANGED <<size, force>>
    /\ shown' = 0
    /\ flush' = IF flush = "pending" THEN "old" ELSE flush
    /\ UNCHANGED <<socketVars, fps, flying, timers, view, img, newest, kcursor, cursors,
                   bufs, pix>>

DidChangeView ==
    /\ Attached /\ (size # view \/ context = "null")
    /\ InitContext(TRUE)
    /\ UNCHANGED events

\* The view changes in another way, as when it is hidden and shown, or the new
\* context cannot be bound.
Rebind ==
    /\ Attached /\ Event
    /\ \E bound \in BOOLEAN : InitContext(bound)

\* The user gives the window another size.
ChangeResolution ==
    /\ Attached /\ connected
    /\ Event
    /\ \E s \in Sizes : Sends(<<Resolution(s)>>)
    /\ UNCHANGED <<SockRest, toKiwi, moduleVars>>

\* DidChangeView comes before the window learns its display.
NewModule ==
    /\ view' \in Sizes
    /\ size' = view'
    /\ context' = "ok"
    /\ force' = TRUE
    /\ UNCHANGED <<fps, flying, timers, img, flush, shown, newest, kcursor, cursors,
                   bufs, pix, cache>>

\* Its memory goes with it, what the server has mapped of it stays.
ModuleGone ==
    /\ fps' = Full /\ flying' = FALSE /\ timers' = {} /\ force' = FALSE
    /\ view' = 0 /\ size' = 0 /\ context' = "null" /\ img' = NoImage
    /\ flush' = "none" /\ shown' = 0 /\ newest' = 0 /\ kcursor' = 0 /\ cursors' = {}
    /\ bufs' = [a \in Addrs |-> 0] /\ pix' = [a \in Addrs |-> 0]
    /\ cache' = [i \in {0, 1} |-> IF cache[i].map = "live"
                                  THEN [cache[i] EXCEPT !.map = "stale"] ELSE cache[i]]

\* From the end of the connection on the window is blank, and of its module only
\* the state of the connection still matters.
KiwiStep ==
    \/ OpenWindow /\ NewModule /\ Event
    \/ (CloseWindow \/ ReceiveError) /\ ModuleGone /\ UNCHANGED events
    \/ /\ ConnectFails \/ ConnectAgain \/ ReceiveInit \/ OnSocketClosed
       /\ UNCHANGED <<moduleVars, cache, events>>

Handler ==
    \/ ReceiveVersion /\ UNCHANGED events
    \/ OnFlush /\ UNCHANGED events
    \/ /\ \/ TimerFires \/ ReceiveScreen \/ ReceiveCursor \/ ReceiveResolution
       /\ UNCHANGED <<cache, events>>
    \/ (SetTargetFPS \/ DidChangeView \/ Rebind \/ ChangeResolution)
       /\ UNCHANGED cache

ServerRest == <<screenVars, shmimg, next, req>>

WindowStep == (KiwiStep \/ Handler) /\ UNCHANGED ServerRest

----------------------------------------------------------------------------
(* croutonfbserver.                                                         *)

Reply(updated, failed, c) ==
    [t |-> "S", updated |-> updated, failed |-> failed, cursor |-> c]

\* The first half of write_image: an image of the right size, and the events.
WriteImage ==
    /\ Request("S")
    /\ LET ask == Head(toFb)
           c == IF moved THEN cursor ELSE 0
           resized == shmimg.size # ask.image.size
       IN  /\ shmimg' = IF resized THEN [size |-> ask.image.size, content |-> 0]
                                   ELSE shmimg
           /\ IF resized \/ ask.refresh \/ mapped \/ damaged
              THEN /\ fpc' = "grab"
                   /\ req' = [image |-> ask.image, cursor |-> c]
                   /\ toFb' = Tail(toFb)
                   /\ UNCHANGED <<sock, retry, connected, line, announced, toKiwi>>
              ELSE /\ Writes(<<Reply(FALSE, FALSE, c)>>, "serve", Tail(toFb))
                   /\ UNCHANGED <<announced, req>>
    /\ mapped' = FALSE /\ damaged' = FALSE /\ moved' = FALSE
    /\ UNCHANGED <<content, cursor, root, untold, moduleVars, cache, next, events>>

Found(a) == \E i \in {0, 1} : cache[i].addr = a
EntryOf(a) == IF Found(a) THEN CHOOSE i \in {0, 1} : cache[i].addr = a ELSE next

\* Mutant: a mapping is used without a look at the signature.
MatchesAnything(entry) == entry.map # "none"

\* The signature is there when the mapping is of the buffer now at this address.
Matches(entry) == entry.map = "live"

\* find_shm: the entry of the cache, or the next one; helped: croutonfindnacl
\* has found the buffer.  The entry has the new address already when open() fails.
FindShm(image, helped) ==
    LET i == EntryOf(image.addr)
        entry == cache[i]
        known == Found(image.addr) /\ Matches(entry)
    IN  /\ next' = IF Found(image.addr) THEN next ELSE 1 - next
        /\ \E addr \in {entry.addr, image.addr} :
              cache' = [cache EXCEPT ![i] =
                  IF known THEN entry
                  ELSE IF helped
                  THEN [addr |-> image.addr, map |-> "live", size |-> image.size]
                  ELSE [addr |-> addr, map |-> "none", size |-> entry.size]]

\* XShmGetImage fails when the image is larger than the screen.
Grabbed == IF shmimg.size <= root THEN content ELSE shmimg.content

CanWrite(entry, image) == entry.map # "none" /\ entry.size = image.size

\* The second half: the screen, the shared memory and the reply.
GrabImage ==
    /\ fpc = "grab"
    /\ \E helped \in BOOLEAN :
           LET i == EntryOf(req.image.addr)
               entry == cache'[i]
               done == CanWrite(entry, req.image)
           IN  /\ helped => line = "live"
               /\ IF line = "live" /\ ~helped THEN Event ELSE UNCHANGED events
               /\ FindShm(req.image, helped)
               /\ pix' = IF done /\ entry.map = "live"
                         THEN [pix EXCEPT ![req.image.addr] = Grabbed] ELSE pix
               /\ Writes(<<Reply(TRUE, ~done, req.cursor)>>, "serve", toFb)
    /\ shmimg' = [shmimg EXCEPT !.content = Grabbed]
    /\ req' = NoRequest
    /\ UNCHANGED <<announced, screenVars, fps, flying, timers, force,
                   OutputRest, img, flush, shown, newest, bufs>>

\* write_cursor
WriteCursor ==
    /\ Request("P")
    /\ Writes(<<[t |-> "P", cursor |-> cursor]>>, "serve", Tail(toFb))
    /\ UNCHANGED <<announced, moduleVars, screenVars, serverVars, events>>

\* change_resolution: setres sets the mode that was asked for, or prints nothing,
\* which ends the server.
SetResolution ==
    /\ Request("R")
    /\ \/ /\ root' = Head(toFb).size
          /\ Writes(<<Resolution(root')>>, "serve", Tail(toFb))
       \/ Dies("aborted") /\ UNCHANGED root
    /\ UNCHANGED <<announced, content, cursor, damaged, mapped, moved, untold, moduleVars,
                   serverVars, events>>

CloseMaps ==
    cache' = [i \in {0, 1} |-> [cache[i] EXCEPT !.map = "none"]]

ServerStep ==
    \/ WriteImage \/ GrabImage \/ WriteCursor \/ SetResolution
    \/ /\ EndOfConnection /\ CloseMaps
       /\ UNCHANGED <<moduleVars, screenVars, shmimg, next, req, events>>
    \/ /\ ReadVersion \/ ReadVersionFails \/ CloseKilled
       /\ UNCHANGED <<moduleVars, screenVars, serverVars, events>>

\* A cursor event the server has already taken is not repeated to a new window.
Connection ==
    /\ \/ Accept /\ untold' = ~moved
       \/ AcceptFails /\ UNCHANGED untold
    /\ UNCHANGED <<content, cursor, root, damaged, mapped, moved, moduleVars, serverVars,
                   events>>

Next == XStep \/ WindowStep \/ ServerStep \/ Connection

Reading == WindowStep /\ toKiwi # <<>> /\ toKiwi' = Tail(toKiwi)
Flushing == OnFlush /\ UNCHANGED <<events, ServerRest>>
Waiting == TimerFires /\ UNCHANGED <<cache, events, ServerRest>>
Viewing == DidChangeView /\ UNCHANGED <<cache, ServerRest>>

\* Each process goes on; the browser calls the module when a frame has come or has
\* been flushed, when a timer has run out, and when its view has changed.
Fairness ==
    /\ WF_vars(ServerStep) /\ WF_vars(Reading) /\ WF_vars(Flushing)
    /\ WF_vars(Waiting) /\ WF_vars(Viewing)

Spec == Init /\ [][Next]_vars /\ Fairness

----------------------------------------------------------------------------
(* Properties *)

Live == connected /\ sock = "open" /\ line = "live" /\ fpc \notin Dead

ScreensIn(queue) == Cardinality({i \in DOMAIN queue : queue[i].t = "S"})

Asked == ScreensIn(toFb) + (IF fpc = "grab" THEN 1 ELSE 0) + ScreensIn(toKiwi)

\* At any time at most one frame is asked for and not yet answered, whatever
\* timers, frame rates and flushes ask for it (kiwi.cc:909-927).
OneRequest == Live => Asked <= (IF flying THEN 1 ELSE 0)

\* While the window is not hidden the next frame is always on its way: asked for,
\* flushed, or due by a timer that still counts - unless a frame came when there
\* was no context, which ends the flow (kiwi.cc:297-308, 954-994, 999-1004).
FlowAlive ==
    (Live /\ fps > Hidden /\ flush # "void")
        => Asked = 1 \/ flush # "none" \/ "current" \in timers

\* A window that does not show the latest picture is about to hear of it: the
\* news waits at the X server, in the server, on the line or in the flush, or
\* the next request will bring it whatever the X server says
\* (fbserver.c:356-450, kiwi.cc:282-308, 839-842).
NoLostUpdate ==
    Live =>
        \/ shown = content
        \/ damaged \/ mapped \/ force \/ fpc = "grab"
        \/ img.size # shmimg.size
        \/ img.size > root
        \/ \E i \in DOMAIN toFb : toFb[i].t = "S" /\ toFb[i].refresh
        \/ \E i \in DOMAIN toKiwi :
               \/ toKiwi[i].t = "R"
               \/ toKiwi[i].t = "S" /\ toKiwi[i].updated
                     /\ (pix[img.addr] = content \/ toKiwi[i].failed)
        \/ flush = "pending" /\ pix[img.addr] = content
        \/ flush = "void" \/ context = "null"

\* The same for the cursor, unless its event went to an earlier window
\* (fbserver.c:399-410, 463-492, kiwi.cc:310-321).
CursorArrives ==
    Live =>
        \/ kcursor = cursor \/ moved \/ untold
        \/ fpc = "grab" /\ req.cursor # 0
        \/ \E i \in DOMAIN toFb : toFb[i].t = "P"
        \/ \E i \in DOMAIN toKiwi : toKiwi[i].t \in {"S", "P"} /\ toKiwi[i].cursor = cursor

\* The branch of write_image that "should never happen": a mapping with the right
\* signature always has the length of the request (fbserver.c:434-441).
NeverOutdated ==
    \A i \in {0, 1} :
        (fpc = "grab" /\ line = "live" /\ sock = "open" /\ cache[i].addr = req.image.addr
             /\ Matches(cache[i]))
            => cache[i].size = req.image.size

\* The window never shows garbage or goes back to an older picture: it
\* implements Mirror.
Screens == INSTANCE Mirror
NeverGoesBack == Screens!Spec

\* Whoever keeps watching sees the last picture in the end.
Watched ==
    /\ Live /\ fps > Hidden /\ flush # "void" /\ context = "ok"
    /\ root >= size
CatchesUp == <>[]Watched => <>[](shown = content)
=============================================================================
