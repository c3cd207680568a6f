# crouton in TLA+

crouton runs Linux distributions in chroots on Chromium OS.  Most of it is
shell; the parts that run concurrently are a WebSocket server in C that joins
the chroots to a Chromium extension, a preloaded library that arbitrates the
display, and scripts that lock, mount, unmount and switch.  This directory holds
TLA+ models of those parts, TLC configurations that check them on small
instances, and proofs that TLAPS checks for every instance.

Paths below are relative to the repository; `PROJECT.json` gives the lines every
definition stands for.

## 1. Inventory

| Component | State | Operations | Talks to |
|---|---|---|---|
| croutonwebsocket server (`src/websocket.c`, `websocket.h`) | the descriptors of two named pipes, of the server socket and of the one client | poll, accept with handshake and version, forward a request, find its answer, handle what the extension sends unasked | callers (pipes), extension (WebSocket), croutoncycle (child process) |
| websocketcommand callers (`installer/functions`, used by croutonclip, croutoncycle, croutonnotify, croutonurlhandler, xiwi) | the lock file, the ends of the pipes | one command and its answer, within three seconds | server |
| Chromium extension (`host-ext/crouton/background.js`) | `websocket_`, `active_`, `enabled_`, the clipboard last sent, the windows | connect and retry, version exchange, handlers for R, W, U, N, C, X and P, focus changes | server, kiwi windows |
| freon display lock (`src/freon.c`) | `lockfd`, the descriptors of two terminals, the lock file, who drives the display | claim and release in the `ioctl()` hook, the `open()` and `close()` hooks | other X servers, Chromium OS (D-Bus) |
| fbserver (`src/fbserver.c`) | the connection, pressed keys, two shared memory mappings, X events waiting | screen, resolution, cursor, key, mouse and quit requests | X server, kiwi (WebSocket and shared memory), croutonfindnacl, setres |
| kiwi (`host-ext/nacl_src/kiwi.cc`, `window.js`) | the connection, the buffer in flight, timers, frame rate, Search key, touches, cursors | connect with retries, input handlers, screen flow, focus, resize | fbserver, the browser |
| chroot life cycle (`host-bin/enter-chroot`, `mount-chroot`, `unmount-chroot`) | the mount table, the processes inside; no lock | enter, mount, set up, unmount with retries and signals | each other, the kernel |
| chroot encryption (`mount-chroot`) | the key file, the staging directory | create a key, move files into the encrypted directory | the life cycle |
| edit-chroot | chroot directories, archives | unmount, backup, restore, move, encrypt, delete | the life cycle |
| croutonclip | the clipboard of each display, the current display | follow the focus, copy from one display to the next | extension, croutoncycle |
| croutoncycle | the display list, the cycle lock | next, previous, n-th, list, command | extension, kiwi, freon |
| croutontriggerd | keys that are down | recognise the key combinations | croutoncycle |
| croutonpowerd | an event listener, a timer | ping powerd while a display is busy | powerd |
| crash_reporter_wrapper | the kernel's core pattern, the saved one | register, pass a crash on | kernel, chroots |
| shell support (`installer/functions`) | traps | option parsing, nested traps, releases | everything |
| xiwi, installer, targets, small X tools, test harness | none that survives | sequential glue | |

What is hard here, and why tests hardly reach it:

* **Concurrency in the bridge.** Several scripts share one pair of named pipes
  under a lock that a timeout takes away; the server is a single thread that
  serves three descriptors with blocking calls; the extension speaks without
  being asked.  Correct: a caller reads the answer to its own command, no answer
  survives to be taken for another, the server always comes back to its loop.
* **The display.** X servers of different chroots and Chromium OS share one GPU
  through a lock file and two D-Bus calls, each of which can fail.  Correct: at
  most one of them drives the display, and one always does.
* **Mounts and processes.** enter, mount and unmount run at the same time from
  different terminals and find each other only through the mount table and the
  process table.  Correct: an unmount never disturbs a session it could have
  seen, and the last to leave unmounts everything.
* **Crashes.** Encryption moves a user's files; a crash at any step must lose none.
* **Windows.** The picture of a chroot is pulled one frame at a time through memory
  that the browser may free; timers cannot be cancelled, and damage, cursor and size
  change while a frame is on its way.  Correct: the window always gets the last
  picture in the end, and never an older one than it has shown.
* **Devices.** Keys that are down when a window loses the focus or a connection
  ends must come up again, and clicks must land where the mouse was.

The hazards, each at its line, are listed in `PROJECT.json`.

## 2. Modules

### The bridge

```
 callers                        server                        extension
 WebsocketCommand  -- pipe in -> CroutonWebsocket -- toExt --> Extension
                   <- pipe out -                  <- toServer-
```

| Module | What it is |
|---|---|
| `BridgeState` | constants, variables, types and the initial state |
| `WebsocketCommand` | one call of `websocketcommand`: `flock`, both `cat`s, the timeout |
| `CroutonWebsocket` | the server: `main()`, `socket_server_accept`, `pipein_read` and what they call |
| `Extension` | the handlers of the background page |
| `Bridge` | the three together, fairness, properties |
| `RequestReply` | the abstract specification: what `websocketcommand` promises a script |
| `BridgeProofs` | the inductive invariant and the theorems for any calls |
| `BridgeInTime` | the same for calls that do not run out of time |
| `MCBridge` | instances for TLC |

An action is one system call that another process can notice; for the server, a
step ends where the code can block or where another process can see the
difference.  The server's program counter `spc` names the function it is in
(`pipein` and `read`: `pipein_read`; `flush`, `close`, `reopen`: `pipein_reopen`;
`outOpen`, `errOpen`: `pipeout_open`; `errWrite`: `pipeout_error`; `answer`: the
second loop of `pipein_read`; `client`: `socket_client_read`; `list`: the wait for
`croutoncycle l`), `then` is the return address of the functions called from
two places, `ready` the events of the last `poll()` not yet handled (they are
kept, and become stale, exactly as `fds[].revents` do), `clientFd` is the
connection of `client_fd`.  The pipes keep what decides about them in the kernel:
who has them open, whether a writer has come since the server opened
(`POLLHUP`), and that data is freed when nobody has the pipe open.

A caller, its request and the answer to it have one name, so that a chunk in a
pipe or a body in a message is the name of the caller that wrote it; a message in which
the requests of two callers have run together is a sequence of two.  The `Kind`
of a caller is the first character of its request, the only one the server looks at.

What is abstracted:

* requests and answers are one chunk and one frame; WebSocket fragments and
  control frames in the middle of a message are not modelled, nor is the text of
  the handshake;
* R, W, U, N and P are one kind (`"R"`): the extension answers each of them with
  the same first character or with `E`, and the server treats both alike
  (`websocket.c:236`);
* the `C` that the server sends back after a window list is not kept in `toExt`:
  the extension only refreshes its own list for it;
* time: `refreshUI()` asks for the window list when it last did so more than 15
  seconds ago (`background.js:102-107`), in the model at any time or never, after a `C`
  packet (`HandleRequest`) as on its own (`FocusChanged`);
* a write to a connection that the extension has closed may fail or not;
* SIGTERM to the server, a second server and local programs that connect to its
  port are not modelled;
* `croutoncycle` in the background (`Cs`) starts and ends without a trace: the
  lock it may take for a moment is left out.

### The display lock

`FreonLock` models the three hooks in every X server: `open()` and `close()` of the
two terminals (`OpenTty`, `CloseTty`; only a server with `tty7` open makes claims and
releases), and in `ioctl()` a claim (`Claim`, `Flock`, `WritePid`, `DropChrome`) and a
release (`Release`, `TakeChrome`, `ClearAndClose`), each with its failing variants, and
the death of a server.  `lockfd`, `holder` (the kernel's lock) and `using` (the servers
whose last claim did not return -1) are separate, which is the point: they come apart.
A claim ends with the status of `dbus-send`: when that fails it is positive, and the
server, which has the lock, counts itself as the user although Chromium OS may not have
been told (`DropChromeFails`; only a failing `system()` gives -1).  The history variable
`unheard` holds the servers in that position.  Any call may fail and any server may die
in every run; the history variable `faults` remembers which kinds of faults have
happened, and each property says which of them it survives.  `FreonLockProofs` has the theorems, `MCFreon` the instance.

### The window

```
  browser, user          host-ext/nacl_src/kiwi.cc          src/fbserver.c        X server
                    ---- keys, mouse, requests (toFb) ---->                 <-->
                    <--- replies (toKiwi) -----------------
                    ==== image buffers in shared memory ===
```

| Module | What it is |
|---|---|
| `WindowSocket` | the connection between the module of one window and `croutonfbserver`: retries, handshake and version, the ways either end goes away |
| `WindowInput` | on it, keyboard, mouse and touch: the input handlers of kiwi and the table of pressed keys |
| `WindowFrames` | on it, the frames: the flow of requests, damage, buffers and mappings, cursors and sizes |
| `Mirror` | the abstract specification of the frames: what a window promises to show |
| `WindowInputProofs` | the inductive invariant of the table of pressed keys and the theorems |
| `WindowInputDelivery` | the same of the input frames on their way: what they leave down and where they click |
| `WindowFramesInv` | the inductive invariant of the frames |
| `WindowFramesTypes`, `WindowFramesProofs` | its proof: types and connection; flow, memory, news and the refinement of `Mirror` |
| `MCInput`, `MCFrames` | instances for TLC |

`WindowInput` and `WindowFrames` are two compositions over the same connection: input
and frames share nothing but the socket, the frame rate that input raises and the
mouse position that requests flush.  Each has the other's traffic as an environment:
`AskServer`/`FbAsk` are the screen, cursor and resolution requests in `WindowInput`,
`SetTargetFPS` is what focus and input do in `WindowFrames`.

The socket: `sock` is what the browser says of `websocket_`, `line` what the server's
kernel knows of the other end of `client_fd`.  A window that goes away leaves the
frames it has sent (`"gone"`); the first write after that is answered with a reset
(`"reset"`), the next raises SIGPIPE, which `croutonfbserver` does not block, and
it dies (`fpc = "killed"`).  `"aborted"` and `"full"` are the two `trueorabort` that the
window can cause.  `AcceptFails` is what `main()` does after an accept that has
failed: it greets nobody, says it is connected, and comes back when the first read fails.

Input: a key is a member of `Letters` (keys that press a pending Search key) or
`Others`; `Super` is Search, `Left` the left button and the emulated click of a touch,
`Wheel` one notch of the wheel.  `held` is what the user really holds down, `xdown` what is
down in X, `pressed` the table of the server, `search` is `search_state_`.  While the window
is not in focus the user may press and release anything, unseen (`Focus`).  `lost` is a
history variable for two events of which kiwi loses track: a touch that the browser
cancels, and a repetition of the Search key after it has been pressed in X.

Frames: a picture is a version number, and an image buffer is an address, a size and a
version.  The signature that `RequestScreen` writes into a buffer is modelled by what it
decides: a mapping is `"live"` as long as the buffer at its address is the one it was
made for, `"stale"` afterwards, and only a live one passes the check.
`timers` are the scheduled calls of `RequestScreen`; all of those with an old token behave
alike.  `flush` is a flush in progress: of the current context, of one that has been
replaced (`"old"`: its callback still comes), or the one that never happens because the context was null
(`"void"`).  `write_image` is two steps because clients of X draw between the moment it
takes the damage events and the copy.

What is abstracted: contents of packets and their size checks; the VF1 protocol; delays
(a timer fires at any time); the scale of hidpi windows; croutonfindnacl finds the
buffer or does not; setres sets the size it is asked for or prints nothing, which ends
the server (`setres:60-90`); an `mmap()` of the frame that fails (`fbserver.c:322-325` looks
for 0, not for `MAP_FAILED`); a write that fails with ECONNRESET before any SIGPIPE
(`websocket.h:359-363`), which is taken for the death of the server; pixels and cursor images.  In the passing runs `Understood` includes the type `I`, that is, the
module accepts the frame the server sends after the handshake; `window_init` is the
module as it is in the repository (see the disagreements below).

### The life of a chroot

`ChrootMounts` models every instance of `enter-chroot` (with the `mount-chroot` it
starts and the `unmount-chroot` in its exit trap) and of `unmount-chroot` started by
hand.  One action is one command that reads or changes the mount table or the
process table, so that everything between two commands can be interrupted:

| Step `pc` | Code | Actions |
|---|---|---|
| `check`, `bind` | `mount-chroot:127-131` | `CheckMounted`, `Bind` |
| `prepare` | `enter-chroot:192-270` | `Prepare` |
| `firstrun` | `enter-chroot:349-354` | `CheckFirstRun` |
| `target`, `mount` | `bindmount`, `tmpfsmount` and their calls | `CheckTarget`, `MountTarget` |
| `start`, `session` | `enter-chroot:606-718` | `StartSession`, `EndSession`, `EndLingering` |
| `usage` | `checkusage` | `CheckUsage` |
| `list`, `umount` | the condition of the loop, `unmount-chroot:241-243` | `ListMounts`, `Umount`, `UmountFails`, `EndPass` |
| `failed` | the body of the loop | `Wait`, `Kill`, `Decline` |

`layers` is the stack of mounts at the chroot's mount point: two instances that
both find it unmounted both mount it, and a process belongs to the layer in which
it was started (`inside`, `orphan`).  `todo` is the list that one pass has read from
`/proc/mounts` and that may be out of date when `umount` is called: how often each
mount point is on it, in the order in which `sort -r` puts them.  `ChrootMountsProofs` has
the theorems, `MCMounts` the instance.  `late` is a
history variable: the sessions that have begun since an unmounter's last check.

What is abstracted: the submounts are a sequence, `MountOrder`, of which `run` is
`/var/run`; a signal to a script (`Interrupt`) starts the trap or, once the trap
runs and has reset itself (`functions:54`), ends it; `TERM` may or may not end a
process, `KILL` does.  The scan of the process table is one step, although it takes
time; a mount or bind mount that fails, the system's dbus daemon, the set-up
script, encryption, the options `-f`, `-x`, `-k` and `-t inf` and mounts of old
versions are not modelled.

## 3. Runs

Three X servers, two callers, one or two connections and at most one unread
frame before the focus changes again are the smallest numbers in which
every interesting case happens: a caller that dies and one that inherits its
lock, an old connection and the one that replaces it, a frame read by the wrong
reader.  Calls, messages and connections are used up, so state spaces are finite
without other bounds: `MaxConn` bounds the connections, `MaxQueue` only how many
unasked frames the user adds.

| Run | Shows | States |
|---|---|---|
| `bridge_timeouts` | both callers may be killed anywhere, two connections may end anywhere: `OneCallAtATime`, `NoStaleAnswer`, `AnswersItsRequest`, and the inductive invariant `BridgeInv` | 435 000 |
| `bridge_intime` | no call runs out of time: the bridge implements `RequestReply` (`KeepsPromise`), never leaves its loop (`NeverStops`), flushes nobody's request (`FlushesNoRequest`), and every call ends (`CallsEnd`); the inductive invariant `PromiseInv` | 150 000 |
| `bridge_attended` | a caller inside croutoncycle, the window list of xiwi, timeouts, somebody at the keyboard: the server always comes back to `poll()` (`ServerReturns`) | 202 000 |
| `bridge_misdelivered` | violates `OwnReply`: see below | |
| `bridge_unanswered` | violates `ListAnswered`: see below | |
| `freon_faults` | every call fails, servers die, in any order: `OneOwner`, `ChromeYields`, `FileNamesUser`, `NotOrphaned`, and the inductive invariant `FreonInv` | 1 001 000 |
| `freon_flock` | violates `Arbitrates` (`OneOwner` without its exemption for a failed `flock()`): see below | |
| `chroot_leave` | two terminals: `CleanAtEnd`, `OnlyLateDisturbed`, `LeavesInTheEnd`, and the inductive invariants `MountsInv` and `CleanInv` | 500 000 |
| `chroot_firstrun` | violates `OneFirstRun`: see below | |
| `window_input` | `KeysTracked`, `CleanBetweenWindows`, `TableSuffices`, `NoStuckKey`, `ClicksLand`, `KeysReleased`, and the inductive invariant `DeliveryInv` | 731 000 |
| `window_frames` | `OneRequest`, `FlowAlive`, `NoLostUpdate`, `CursorArrives`, `NeverOutdated`; the frames implement `Mirror` (`NeverGoesBack`); who keeps watching sees the last picture (`CatchesUp`); the inductive invariant `FramesInv` | 665 000 |
| `window_init` | violates `StaysConnected`: see below | |

In `chroot_leave` each terminal runs one script; one of them may leave processes
behind and be interrupted, and the patience is one pass instead of five.  That is
enough for two mounts one over the other, a session that begins during a pass, both
kinds of signals and an unmounter that leaves the work to the other; a third
terminal makes more than twenty million states, and the theorems cover it.  Of the
submounts there are two: `/var/run` and one that is mounted before it, so that a
second instance can look between the two.

In `window_input` there are one letter, one other key, Search, the left button and the
wheel, one finger and one position besides the unknown first one; the table has six
entries, one more than there are codes.  The user holds two things at a time
(`MaxHeld`), so that Search combines with a letter, a key, a click or a touch; the count of
touches, which starts at any value below `MaxTouch`, stays small; a handler runs when
at most `MaxQueue` frames are waiting, and adds up to three.  Windows open and close
without a bound.  One attempt to connect (`MaxRetry`) is enough for its failure; the
theorems are for any number of attempts and positions; a second position was explored without a
violation (2.7 million states) and takes too long to keep.

In `window_frames` there are two buffers, two sizes, two pictures (the second may be drawn
in a new window) and two cursors.  `MaxEvents` bounds what the surroundings do: three
of windows opened, cursors, frame rates, sizes asked for, refused contexts and failing helpers, in
any order.  Two buffers are what the flow alternates between; a third, which makes
the cache of the server evict an entry in use, was explored for the invariants
without a violation (6.8 million states) and is too large to keep.  Two pictures are
enough for an old one to overwrite a new one.

The bridge's and the chroot's runs say `CHECK_DEADLOCK FALSE`: every call happens once, so a
behaviour ends when all have, and the server may wait for ever for a frame.  So does
`window_frames`: the server may die and the events are used up.
Symmetry is used only in runs without liveness properties.

**Fairness.** `FairSpec` assumes that the server runs when it can, that a
caller's processes run and its timeout fires, and that the extension handles its
events and retries its connection (`background.js:291-318`): the scheduler and
the browser's event loop.  It does not assume that anybody changes the focus,
starts a command or disconnects.  `AttendedSpec` adds that the focus changes again
some time while the extension is connected; `ServerReturns` and `CallsEnd` need it,
because the server does wait for an unrelated frame (below).  `FairSpec` of
`ChrootMounts` assumes that a script that can go on does; it does not assume that
anybody starts a script or leaves a session.  A session is left by itself or by
`KILL`, which `LeavesInTheEnd` relies on: after a failed pass that nobody interrupts,
the trap's `unmount-chroot -y` escalates.  `KeysReleased` needs only that
`croutonfbserver` runs: it is one process that waits for the next frame and for helpers
that end.  `Fairness` of `WindowFrames` adds the browser: a frame that has come, a
flush, a timer and a change of the view reach the module, each on its own, since the
event loop loses no callback.  Nothing is assumed about the user, about new connections, or about
helpers finding anything.  `CatchesUp` asks that from some time on somebody watches: connected, not
hidden, a context that is not null, and a screen at least as large as the window; without
the last `XShmGetImage` fails, and the old picture is what the window keeps.

**Disagreements with what the repository says**

* `bridge_misdelivered`: `timeout 3` kills a call and frees its lock while the
  server still works on the request.  The next caller opens the pipe out and
  reads the answer to the previous command.
* `bridge_unanswered`: the extension handles a `C` packet (the window list of
  xiwi) and sends nothing (`background.js:461-488`), while `pipein_read` waits for
  an answer that starts with `C`.  The server blocks until a focus change, or the
  extension's next request for the window list (which follows the packet at once only
  when the last one is older than 15 seconds), sends an unrelated frame that does.
* `freon_flock`: when `flock()` fails, for instance interrupted by a signal,
  `lockfd` stays open, so the next claim goes straight to writing the pid.
* `window_init`: after the handshake the server writes an `I` frame
  (`fbserver.c:494-504`, declared in `fbserver-proto.h:84`); the switch of kiwi has no
  case for it, falls through to the error and closes the connection
  (`kiwi.cc:424-444`).  Both are built with the same version, so nothing warns.
* `chroot_firstrun`: the check whether `/var/run` is mounted and the mount itself
  are some commands apart (`enter-chroot:349-361`); two terminals that enter at the
  same time are both the first and both run `rc.local`.

Others that the same models show and that have no run of their own: after a
timeout the next caller's request can be flushed by `pipein_reopen`
(`FlushesNoRequest` fails with slow callers); the server waits in
`croutoncycle l` for the cycle lock whose holder waits for the server, until its
timeout (`websocket.c:371`); `socket_client_read` runs for an event that
`pipein_read` has consumed and blocks (`websocket.c:555`); a caller killed between
the open and the write of the pipe in leaves an end of file without data, which
ends the server's loop (`websocket.c:561-566`; `NeverStops` fails with slow
callers); `set_display_lock` does not rewind the file it truncates, so that a
second write through one descriptor is preceded by NUL bytes (`freon.c:72-85`), of which
the model keeps the pid; and a claim whose `dbus-send` fails returns its positive wait
status (`freon.c:133`), not the -1 of a claim whose lock fails (`freon.c:136`), so the
server may use the display together with Chromium OS (`chromeOwns => using = {}` fails).
A session that begins after the check of a pass does lose mounts or is signalled:
`OnlyLateDisturbed` is the most that the scripts guarantee.

In the window: a repetition of Search after it has been pressed in X is taken for a new
press, and its release is not sent (`kiwi.cc:531`); a cancelled touch leaves the button down, and
`touch_count_` is neither initialised nor corrected (`kiwi.cc:625`, `1077`); both are
what `lost` exempts from `NoStuckKey`.  A frame that meets a null context ends the flow for good (`kiwi.cc:999`; the
exemption of `FlowAlive`).  A new window does not learn the cursor until it changes
(`untold` in `CursorArrives`).  A window closed by the user while the server has
two replies to write kills the server with its keys down (`KeysReleased` exempts a dead server).

## 4. Theorems

| Theorem | Property |
|---|---|
| `BridgeInvariant` | `Spec => []BridgeInv` |
| `BridgeOneCall`, `BridgeNoStaleAnswer` | `Spec => []OneCallAtATime`, `[]NoStaleAnswer` |
| `BridgeAnswersItsRequest` | `Spec => AnswersItsRequest` |
| `BridgeServes`, `BridgeNeverStops`, `BridgeFlushesNoRequest` | if `Slow = {}`: `Spec => []InTimeInv`, `[]NeverStops`, `FlushesNoRequest` |
| `BridgePromiseInvariant`, `BridgeKeepsPromise`, `BridgeOwnReply` | if `Slow = {}` and `NoWindowList`: `Spec => []PromiseInv`, `KeepsPromise`, `[]OwnReply` |
| `FreonInvariant` | `Spec => []FreonInv` |
| `FreonOneOwner`, `FreonChromeYields`, `FreonFileNamesUser`, `FreonNotOrphaned` | `Spec => []OneOwner`, `[]ChromeYields`, `[]FileNamesUser`, `[]NotOrphaned` |
| `MountsInvariant`, `MountsOnlyLateDisturbed` | `Spec => []MountsInv`, `[]OnlyLateDisturbed` |
| `MountsAttended`, `MountsCleanAtEnd` | `Spec => []CleanInv`, `[]CleanAtEnd` |
| `InputInvariant`, `InputTypes` | `Spec => []InputInv`, `[]InputTypeOK` |
| `InputKeysTracked`, `InputCleanBetweenWindows`, `InputTableSuffices` | `Spec => []KeysTracked`, `[]CleanBetweenWindows`, `[]TableSuffices` |
| `DeliveryInvariant`, `InputNoStuckKey`, `InputClicksLand` | `Spec => []DeliveryInv`, `[]NoStuckKey`, `ClicksLand` |
| `FramesInvariant`, `FramesTypes` | `Spec => []FramesInv`, `[]FramesTypeOK` |
| `OneFrameAtATime`, `FlowGoesOn`, `NoUpdateIsLost`, `CursorIsNotLost`, `NoMappingIsOutdated` | `Spec => []OneRequest`, `[]FlowAlive`, `[]NoLostUpdate`, `[]CursorArrives`, `[]NeverOutdated` |
| `WindowMirrorsScreen` | `Spec => NeverGoesBack` |

They hold for any set of callers, whichever of them run out of time, any number of connections
and any bound on unread frames; for any set of X servers, whichever of them die
and whatever calls fail; for any set of instances, any submounts and
any patience; for any finite sets of keys and fingers, any points on the screen, any
number of attempts to connect and any size of the table; for any addresses of buffers, sizes,
cursors, pictures and any number of events.  The assumptions are `BridgeAssumption`,
`FreonAssumption`, `MountsAssumption`, `SocketAssumption`, `InputAssumption` and
`FramesAssumption`: the types of the constants, that `/var/run` is among the submounts,
that buttons and keys are different, that there is a first cursor.  The
theorems of `BridgeInTime` have hypotheses of their own, explained below.

**The bridge.**  `NoStaleAnswer` and `AnswersItsRequest` say that a single
thread never confuses answers although callers come and go.  They are not inductive: one has to
know that on the open connection there is at most one request or answer, that it
belongs to the message being forwarded, and where it can be for each value of
`spc`.  `BridgeInv` is the conjunction of

* `BridgeTypeOK`;
* `OneCallAtATime`, with the lock's holder known to be in a call;
* `ConnectionsInOrder`: the server accepts connections in the order in which the
  extension opens them, and nothing is on one that is not open yet;
* `ServerControl`: which of `clientFd`, `msg` and `then` are set at each `spc`;
* `OneOutstanding`: on the server's connection the answers under way, the
  requests under way and the server's wait for one add up to at most one, and
  all of them are `msg`; on a connection that waits for `VOK` there is none.

`BridgeProofs` shows that `BridgeInit` implies it and that every action keeps it,
by one lemma per conjunct and a case per action; lemmas on sequences
(`NoneTail`, `OnlyTail`, `NoneConcat`, ...) carry the argument on queues.

**The bridge in time.**  What `websocketcommand` promises does not hold of all calls:
`bridge_misdelivered` is a call that runs out of time and `bridge_unanswered` one with the
window list of xiwi.  `BridgeInTime` shows that nothing else breaks the promise, with
hypotheses on two constants: `Slow = {}`, and for the replies `NoWindowList`, no
call of kind `"C"`.  Connections may still end and be replaced at any step and requests be lost
with them.  `InTimeInv` adds to `BridgeInv` that

* the lock's holder is a process that runs (`LockHeld`);
* between two requests the pipes are as `pipe_init` left them, but for the request
  of a caller whose turn it is, and `poll` reports the end of a caller only behind its
  request (`Rested`);
* the server is at rest or busy with exactly one caller, which waits for it, and for each
  step of `spc` what is in the pipe and in `msg` (`Serves`, `Served`);
* no event is left without a handler (`InLoop`).

So the server never stops, and what it flushes is a request that it refuses.  `Promised`
follows a request on from there: at most one waits for the extension and what is answered
has been heard (`OneQueued`); before a request that waits is heard all that were have ended
(`OneByOne`); a caller whose request was sent, and may still be heard, is not refused
(`NoRefusal`, which says through which steps the server must not come while it waits);
what a caller has read or is about to read is one reply (`OneReply`).  `RequestsMove` and
`RequestsCarried` say where requests go in a step, `CallersRead` and `ServerReplies`
where replies do, and `PromiseKept` maps every step of the bridge to one of
`RequestReply`: `Start` to `Ask`, `HandleRequest` to `Hear`, `ReadOut` to `Answer` or `Refuse`,
`Finish` to `End`, all others to none.

**The display lock.**  `FreonInv` says that, unless a `flock()` has failed, a server past
it holds the lock alone and that what the file and Chromium OS were told follows from
where it is (`LockHeld`, `HolderState`; of Chromium OS as far as the `dbus-send` of the
server's own claim went through, `unheard`), and that, unless something else has failed, a
display that Chromium OS has dropped has a user or one that is giving it back
(`SomebodyDrives`).  A failing `flock()` breaks exactly the second conjunct of `LockHeld`,
but not `SomebodyDrives`.

**The life of a chroot.**  `OnlyLateDisturbed` is about two steps of a pass;
`CheckedFirst`, its strengthening in `MountsInv`, says from the check on, through all
of a pass, that the sessions an unmounter has not found are `late`.  A session that
starts is added for everybody in a pass, a check that goes on has found none, and
nothing else starts a session or a pass (`NothingStarts`).  The types are needed
because a session is where `inside` is not 0, the number of a layer: `SetTopKept` and
`LayersKept` show that the stack never loses the bare directory.

`CleanAtEnd` is about instances that have all ended, so its strengthening has to say, while they
run, who is going to clean up.  `Attended` does: unless nothing is mounted there is an
instance that was cut short, one that will read the mount table again (`WillList`: it
mounts, has a session, or its `umount` has failed and it will start over), or one in a
pass whose list covers all that is mounted, without a failure so far (`Clears`).  A list may be out of date:
what another instance mounts after it was read is covered by that instance, which has not
left; what another has unmounted makes `umount` fail, and there is a next pass.  An
instance that finds a session leaves everything to it, which `Placed` makes an instance
of its own whose pass is still to come.  `UmountTakes` and `NothingMounted` count: what one
`umount` takes from the stack it takes from the list of its pass, and from nobody else's.

**The input of a window.**  `CleanBetweenWindows` and `TableSuffices` are not inductive:
that nothing is down after `kb_release_all` needs that the table held all that was
down, and that needs that a key is never in it twice, since `kb_remove` takes out one entry.
`InputInv` adds both (`Distinct`, `KeysTracked`) and that whoever connects has an attempt left
(`RetriesLeft`, for the type of `retry`).  `KbAddTable` and `KbRemoveTable` say what the
two helpers do to a table without repetitions, `TableLength` that such a table is an
injection into the keys and so not longer than there are keys.  The actions of the
window and the user keep the table and what is down (`UserType`, `KiwiType`).

`NoStuckKey` and `ClicksLand` are about what is still in the socket: what will be down, and
where the pointer will be, once the server has read it.  `DeliveryInv` says so of the whole queue:
what it leaves down the user holds, or Search does, or a touch (`Releases`); each click finds the pointer where it was made, with the
moves before it (`Aimed`); and a module that holds no move back has sent the
last (`Followed`, without which a click after it could land elsewhere).  `Unconnected` is
what makes a new connection start from nothing.  Lemmas on two queues one after the other
(`ConcatPresses` and those after it) reduce each handler to the frames it adds, and each step
of the server to the frame it takes.

**The frames of a window.**  Frames, buffers and news depend on each other in
a circle: the copy is right because the buffer has not been replaced, it has not because a
frame is still asked for, and that is known from where the frame is.  `FramesInv` is the
conjunction of

* `FramesTypeOK`, `Connected` and `Exchange`: which states of the two ends go together, and that
  the version comes before everything else;
* `Fresh`: a module that is not connected asks for nothing, and owes a whole picture;
* `Flow`: the frames asked for, in either queue or being copied, are one if `flying` and none
  otherwise, a flush stands for an answered one, and a visible window has
  one of these or a timer that counts;
* `Buffers` and `Mappings`: a request is for the buffer the module has now, and a mapping that passes the
  check has its length;
* `Copies` and `Ages`: what is in a buffer when its reply is read is what the server has
  copied last, and that is never older than what was shown;
* `CursorNews` and `UpdateDue`: the latest cursor is the last that the window will hear of, and a picture that
  is not shown is in one of the places from which it will be.

The theorems on the frames follow from these without further induction.
`MirrorStep` maps every step to one of `Mirror`; the step that shows a picture is the
end of a flush.

**Only model-checked:** liveness (`ServerReturns`, `CallsEnd`, `LeavesInTheEnd`, `KeysReleased`,
`CatchesUp`), which with `ENABLED` is out of the prover's reach.  Every invariant and every action
property of the passing runs, and both refinements, are proved.

## 5. Plan

1. Proofs: done for all safety properties of the models there are; those of new models.
2. `EncryptMove`: key creation and the staged move, with a crash at every step.
3. `Clipboard`: croutonclip with croutoncycle.
4. `TriggerKeys`, `CrashHandler`, `CycleList`, option parsing and traps.

## 6. Not modelled

Chroot encryption, edit-chroot, croutonclip, the selection in croutoncycle,
croutontriggerd, croutonpowerd, the crash handler and the shell's option parsing and
traps are not modelled yet; each has its entry in `PROJECT.json` with the reason, and
the hazards of the encryption, the clipboard and the crash handler are listed.  The installer, the targets, the small X tools and the test
harness are sequential input and output without state of their own and stay out.
