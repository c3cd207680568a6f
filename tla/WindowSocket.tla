---------------------------- MODULE WindowSocket ----------------------------
(***************************************************************************)
(* The connection between a window on Chromium OS (the NaCl module         *)
(* host-ext/nacl_src/kiwi.cc) and croutonfbserver (src/src/fbserver.c),    *)
(* which serves one window at a time: connect with retries, version        *)
(* exchange, two ordered streams, the ways either end goes away, and what  *)
(* happens to a server that writes to a window that has gone.  WindowInput *)
(* and WindowFrames put the traffic on it.                                 *)
(***************************************************************************)
EXTENDS Naturals, Sequences

CONSTANTS
    MaxRetry,     \* kMaxRetry: attempts to connect
    Understood    \* types of server frames the module handles after the version

ASSUME SocketAssumption == MaxRetry \in Nat \ {0}

VARIABLES
    sock,         \* the websocket_ of the window
    retry,        \* retry_
    connected,    \* connected_
    fpc,          \* where croutonfbserver is, or how it has died
    line,         \* its client_fd: -1, or what has become of the other end
    announced,    \* CROUTON_CONNECTED on the root window
    toFb,         \* frames the server has not read
    toKiwi        \* frames the window has not handled

socketVars == <<sock, retry, connected, fpc, line, announced, toFb, toKiwi>>

SockStates == {"none", "connecting", "waiting", "open", "closing", "closed"}
\* "killed" by SIGPIPE, "aborted" when setres fails, "full": too many keys.
Dead == {"killed", "aborted", "full"}
ServerSteps == {"accept", "version", "serve", "grab"} \cup Dead
\* The other end of client_fd: a "gone" window answers the first write with a
\* reset, a write after a "reset" raises SIGPIPE, which nothing blocks.
Lines == {"none", "live", "gone", "reset"}

SocketTypeOK(ToFbMsg, ToKiwiMsg) ==
    /\ sock \in SockStates
    /\ retry \in 0..MaxRetry
    /\ connected \in BOOLEAN
    /\ fpc \in ServerSteps
    /\ line \in Lines
    /\ announced \in BOOLEAN
    /\ toFb \in Seq(ToFbMsg)
    /\ toKiwi \in Seq(ToKiwiMsg)

SocketInit ==
    /\ sock = "none"
    /\ retry = 0
    /\ connected = FALSE
    /\ fpc = "accept"
    /\ line = "none"
    /\ announced = FALSE
    /\ toFb = <<>>
    /\ toKiwi = <<>>

Version == [t |-> "V"]
VersionOk == [t |-> "VOK"]
InitInfo == [t |-> "I"]
CloseFrame == [t |-> "close"]

----------------------------------------------------------------------------
(* The window.                                                              *)

\* The frames of one handler; without a connection they are dropped.
Sends(msgs) ==
    toFb' = IF connected /\ sock = "open" /\ line = "live"
            THEN toFb \o msgs ELSE toFb

OpenWindow ==
    /\ sock = "none"
    /\ sock' = "connecting"
    /\ retry' = 0
    /\ UNCHANGED <<connected, fpc, line, announced, toFb, toKiwi>>

\* Mutant: the attempts are counted, but never end.
ConnectFailsForever ==
    /\ sock = "connecting"
    /\ retry' = retry + 1
    /\ sock' = "waiting"
    /\ UNCHANGED <<connected, fpc, line, announced, toFb, toKiwi>>

\* A second later the next attempt, kMaxRetry in all.
ConnectFails ==
    /\ sock = "connecting"
    /\ retry' = retry + 1
    /\ sock' = IF retry + 1 < MaxRetry THEN "waiting" ELSE "closed"
    /\ UNCHANGED <<connected, fpc, line, announced, toFb, toKiwi>>

ConnectAgain ==
    /\ sock = "waiting"
    /\ sock' = "connecting"
    /\ UNCHANGED <<retry, connected, fpc, line, announced, toFb, toKiwi>>

Receives(type) ==
    /\ sock = "open"
    /\ toKiwi # <<>>
    /\ Head(toKiwi).t = type
    /\ toKiwi' = Tail(toKiwi)

\* SocketClose: what has not been handled is not delivered any more.
SocketClose ==
    /\ Sends(<<CloseFrame>>)
    /\ sock' = "closing"
    /\ toKiwi' = <<>>
    /\ UNCHANGED <<retry, connected, fpc, line, announced>>

\* OnSocketReceiveCompletion when the server has closed or died.
ReceiveError ==
    /\ sock = "open"
    /\ toKiwi = <<>>
    /\ line # "live"
    /\ SocketClose

\* A frame of a type the switch does not know closes the connection.
ReceiveInit ==
    /\ sock = "open"
    /\ toKiwi # <<>>
    /\ Head(toKiwi) = InitInfo
    /\ IF "I" \in Understood
       THEN /\ toKiwi' = Tail(toKiwi)
            /\ UNCHANGED <<sock, retry, connected, fpc, line, announced, toFb>>
       ELSE SocketClose

\* The window goes, its frames stay in the receive queue of the server.
Hangup ==
    IF line = "live" /\ sock \in {"open", "closing"}
    THEN line' \in {"gone", "reset"} ELSE UNCHANGED line

OnSocketClosed ==
    /\ sock = "closing"
    /\ sock' = "closed"
    /\ connected' = FALSE
    /\ Hangup
    /\ UNCHANGED <<retry, fpc, announced, toFb, toKiwi>>

\* By the user at any time, or by window.js after a disconnection.
CloseWindow ==
    /\ sock # "none"
    /\ sock' = "none"
    /\ retry' = 0
    /\ connected' = FALSE
    /\ toKiwi' = <<>>
    /\ Hangup
    /\ UNCHANGED <<fpc, announced, toFb>>

----------------------------------------------------------------------------
(* croutonfbserver.                                                         *)

Dies(how) ==
    /\ fpc' = how
    /\ line' = "none"
    /\ toFb' = <<>>
    /\ UNCHANGED <<sock, retry, connected, toKiwi>>

\* socket_client_write_frame: the frames of a handler that leaves the server at
\* next and the queue of requests at rest.
Writes(frames, next, rest) ==
    IF line = "reset"
    THEN Dies("killed")
    ELSE /\ toKiwi' = IF line = "live" /\ sock = "open"
                      THEN toKiwi \o frames ELSE toKiwi
         /\ line' = IF line = "gone" THEN "reset" ELSE line
         /\ fpc' = next
         /\ toFb' = rest
         /\ UNCHANGED <<sock, retry, connected>>

\* accept(), the HTTP handshake and the version, to which the window answers.
Accept ==
    /\ fpc = "accept"
    /\ sock = "connecting"
    /\ sock' = "open"
    /\ line' = "live"
    /\ fpc' = "version"
    /\ toFb' = <<>>
    /\ toKiwi' = <<Version>>
    /\ UNCHANGED <<retry, connected, announced>>

\* socket_server_accept fails (not a WebSocket, not this path): main() does not
\* look at its result and goes on with client_fd = -1.
AcceptFails ==
    /\ fpc = "accept"
    /\ fpc' = "serve"
    /\ announced' = TRUE
    /\ UNCHANGED <<sock, retry, connected, line, toFb, toKiwi>>

\* The answer to the version, then write_init and set_connected(True).
ReadVersion ==
    /\ fpc = "version"
    /\ toFb # <<>> /\ Head(toFb) = VersionOk
    /\ Writes(<<InitInfo>>, "serve", Tail(toFb))
    /\ announced' = (line # "reset")

\* The window went before it answered: like AcceptFails.
ReadVersionFails ==
    /\ fpc = "version"
    /\ line # "live" /\ toFb = <<>>
    /\ line' = "none"
    /\ fpc' = "serve"
    /\ announced' = TRUE
    /\ UNCHANGED <<sock, retry, connected, toFb, toKiwi>>

Request(type) ==
    /\ fpc = "serve"
    /\ toFb # <<>>
    /\ Head(toFb).t = type

Serving ==
    /\ toFb' = Tail(toFb)
    /\ UNCHANGED <<sock, retry, connected, fpc, line, announced, toKiwi>>

\* The read fails, or finds a close frame, which is answered with another; then
\* the server waits for the next window.
EndOfConnection ==
    /\ fpc = "serve"
    /\ \/ line # "live" /\ toFb = <<>>
       \/ line # "reset" /\ toFb # <<>> /\ Head(toFb) = CloseFrame
    /\ fpc' = "accept"
    /\ line' = "none"
    /\ announced' = FALSE
    /\ toFb' = <<>>
    /\ UNCHANGED <<sock, retry, connected, toKiwi>>

\* The answer to the close frame of a window that has gone since.
CloseKilled ==
    /\ Request("close")
    /\ line = "reset"
    /\ Dies("killed")
    /\ UNCHANGED announced
=============================================================================
