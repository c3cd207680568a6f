---------------------------- MODULE BridgeState ----------------------------
(***************************************************************************)
(* The state shared by the three parts of the crouton bridge: the shell    *)
(* callers of websocketcommand (installer/functions), the croutonwebsocket *)
(* server (src/websocket.c) and the Chromium extension (background.js).    *)
(*                                                                         *)
(* A caller is one call of websocketcommand; what it writes and what the   *)
(* extension answers to it are identified with the caller.  The kind of a  *)
(* caller is the first character of its request: "R" stands for R, W, U, N *)
(* and P, "X" is sent by croutoncycle while it holds the cycle lock, "C"   *)
(* is the window list sent by xiwi.                                        *)
(***************************************************************************)
EXTENDS Naturals, Sequences, FiniteSets

CONSTANTS
    Callers,       \* the calls of websocketcommand
    Kind,          \* first character of each caller's request
    Slow,          \* callers whose three seconds may run out
    MaxConn,       \* bound: connections the extension opens
    MaxQueue       \* bound: unread frames at which focus changes are not sent

Kinds == {"R", "X", "C"}

ASSUME BridgeAssumption ==
    /\ Kind \in [Callers -> Kinds]
    /\ Slow \subseteq Callers
    /\ MaxConn \in Nat
    /\ MaxQueue \in Nat

VARIABLES
    \* callers
    pc,            \* where each call is
    lock,          \* holder of /tmp/crouton-ext/lock (empty or one caller)
    cycleLock,     \* holder of /tmp/crouton-lock/cycle (empty or one caller)
    listed,        \* "C" callers whose croutoncycle l has run
    got,           \* what each caller has read from the pipe out
    \* pipes
    inBuf,         \* chunks in the pipe in, by writer
    inReader,      \* the server has the pipe in open
    inSeen,        \* a writer has opened it since: poll can report POLLHUP
    outBuf,        \* data in the pipe out
    outWriter,     \* the server has the pipe out open
    \* server
    spc,           \* where the server is
    ready,         \* events of the last poll that are not handled yet
    then,          \* where the server goes on after a call it is in
    msg,           \* chunks of the request being forwarded
    clientFd,      \* connection of client_fd, 0 for -1
    accepted,      \* connections accepted so far
    \* extension and sockets
    conn,          \* connections opened by the extension so far
    sock,          \* the extension's websocket_, 0 for null
    active,        \* active_: the version exchange is over
    toServer,      \* frames on each connection, extension to server
    toExt,         \* messages on each connection, server to extension
    heard          \* history: the requests the extension has carried out

callerVars == <<pc, lock, cycleLock, listed, got>>
pipeVars   == <<inBuf, inReader, inSeen, outBuf, outWriter>>
serverVars == <<spc, ready, then, msg, clientFd, accepted>>
extVars    == <<conn, sock, active, heard>>
netVars    == <<toServer, toExt>>
vars       == <<callerVars, pipeVars, serverVars, extVars, netVars>>

----------------------------------------------------------------------------
Conns == 1..MaxConn

\* "VOK" answers the version, "ans" a request; "Cs" (focus changed) and "Cl"
\* (list the windows) are sent unrequested.
Frames == [tag : {"VOK", "ans", "Cs", "Cl"}, body : Seq(Callers)]

\* "V" is the version packet, "req" a forwarded request.
Messages == [tag : {"V", "req"}, body : Seq(Callers)]

\* What a caller can read: a frame the server passed on or its error string.
Replies == Frames \cup [tag : {"error"}, body : Seq(Callers)]

Signal(tag) == [tag |-> tag, body |-> <<>>]

----------------------------------------------------------------------------
(* Who has the pipes open, by program counter.                             *)

\* A caller blocked in open() for writing already counts as a writer.
Writing == {"inBlocked", "opened", "wrote"}
InWriters == {c \in Callers : pc[c] \in Writing}

\* A caller blocked in open() for reading already counts as a reader.
Reading == {"outBlocked", "outRead"}
OutReaders == {c \in Callers : pc[c] \in Reading}

\* Inside sh -c: the lock is held from "inOpen" to "outRead".
Locked == {"inOpen"} \cup Writing \cup {"outOpen"} \cup Reading

\* Inside timeout(1).
Running == {"lock"} \cup Locked

CallerSteps == {"idle", "done", "expired"} \cup Running

ServerSteps == {"poll", "accept", "vok", "pipein", "read", "flush", "close",
                "reopen", "fin", "outOpen", "answer", "errOpen", "errWrite",
                "outClose", "client", "list", "stopping", "stopped"}

Events == {"server", "in", "hup", "client"}

CallerTypeOK ==
    /\ pc \in [Callers -> CallerSteps]
    /\ lock \subseteq Callers
    /\ cycleLock \subseteq Callers
    /\ listed \subseteq Callers
    /\ got \in [Callers -> Seq(Replies)]

PipeTypeOK ==
    /\ inBuf \in Seq(Callers)
    /\ inReader \in BOOLEAN
    /\ inSeen \in BOOLEAN
    /\ outBuf \in Seq(Replies)
    /\ outWriter \in BOOLEAN

ServerTypeOK ==
    /\ spc \in ServerSteps
    /\ ready \subseteq Events
    /\ then \in ServerSteps
    /\ msg \in Seq(Callers)
    /\ clientFd \in 0..MaxConn
    /\ accepted \in 0..MaxConn

ExtensionTypeOK ==
    /\ conn \in 0..MaxConn
    /\ sock \in 0..MaxConn
    /\ active \in BOOLEAN
    /\ heard \subseteq Seq(Callers)

NetTypeOK ==
    /\ toServer \in [Conns -> Seq(Frames)]
    /\ toExt \in [Conns -> Seq(Messages)]

BridgeTypeOK ==
    CallerTypeOK /\ PipeTypeOK /\ ServerTypeOK /\ ExtensionTypeOK /\ NetTypeOK

\* pipe_init() has run and the server is about to poll; nobody has called yet.
BridgeInit ==
    /\ pc = [c \in Callers |-> "idle"]
    /\ lock = {}
    /\ cycleLock = {}
    /\ listed = {}
    /\ got = [c \in Callers |-> <<>>]
    /\ inBuf = <<>>
    /\ inReader = TRUE
    /\ inSeen = FALSE
    /\ outBuf = <<>>
    /\ outWriter = FALSE
    /\ spc = "poll"
    /\ ready = {}
    /\ then = "poll"
    /\ msg = <<>>
    /\ clientFd = 0
    /\ accepted = 0
    /\ conn = 0
    /\ sock = 0
    /\ active = FALSE
    /\ toServer = [k \in Conns |-> <<>>]
    /\ toExt = [k \in Conns |-> <<>>]
    /\ heard = {}
============================================================================
