----------------------------- MODULE Extension -----------------------------
(***************************************************************************)
(* The background page of the Chromium extension (host-ext/crouton/        *)
(* background.js): one WebSocket at a time, handlers that run one after    *)
(* the other.  A handler is one action.                                    *)
(***************************************************************************)
EXTENDS BridgeState

\* The server has closed this connection, or has gone away.
ServerClosed(k) == \/ k <= accepted /\ k # clientFd
                   \/ k > accepted /\ spc = "stopped"

Send(k, frames) == toServer' = [toServer EXCEPT ![k] = @ \o frames]
Receive(k) == toExt' = [toExt EXCEPT ![k] = Tail(@)]

\* updateWindowList(): both frames, one after the other.
WindowList == <<Signal("Cs"), Signal("Cl")>>

----------------------------------------------------------------------------
\* websocketConnect(), when the page is loaded or the retry timer fires; the
\* connection is refused when nobody listens.
Connect ==
    /\ sock = 0
    /\ spc # "stopped"
    /\ conn < MaxConn
    /\ conn' = conn + 1
    /\ sock' = conn + 1
    /\ UNCHANGED <<active, heard, callerVars, pipeVars, serverVars, netVars>>

\* The user disables the extension, the page is reloaded, an error closes the
\* socket: nothing sent to it is handled any more.
Disconnect ==
    /\ sock # 0
    /\ sock' = 0
    /\ active' = FALSE
    /\ UNCHANGED <<conn, heard, callerVars, pipeVars, serverVars, netVars>>

\* websocketClose(), after the messages that came before the end.
ConnectionClosed ==
    /\ sock # 0
    /\ ServerClosed(sock)
    /\ toExt[sock] = <<>>
    /\ sock' = 0
    /\ active' = FALSE
    /\ UNCHANGED <<conn, heard, callerVars, pipeVars, serverVars, netVars>>

\* websocketMessage() for the version packet: "VOK", then setStatus() and
\* updateWindowList(true) send the window list once or twice.
HandleVersion ==
    /\ sock # 0
    /\ toExt[sock] # <<>>
    /\ Head(toExt[sock]).tag = "V"
    /\ ~active
    /\ active' = TRUE
    /\ Receive(sock)
    /\ \E lists \in {WindowList, WindowList \o WindowList} :
           Send(sock, <<Signal("VOK")>> \o lists)
    /\ UNCHANGED <<conn, sock, heard, callerVars, pipeVars, serverVars>>

\* websocketMessage() for a request: "X" is answered and forces a window list,
\* "C" updates the list of windows and is not answered at all; refreshUI() asks
\* for the list again when the last request for it is some time ago.
HandleRequest ==
    /\ sock # 0
    /\ active
    /\ toExt[sock] # <<>>
    /\ Head(toExt[sock]).tag = "req"
    /\ LET body   == Head(toExt[sock]).body
           answer == <<[tag |-> "ans", body |-> body]>>
       IN  /\ heard' = heard \cup {body}
           /\ \/ Kind[Head(body)] = "R" /\ Send(sock, answer)
              \/ Kind[Head(body)] = "X" /\ Send(sock, answer \o WindowList)
              \/ Kind[Head(body)] = "C" /\ (UNCHANGED toServer \/ Send(sock, WindowList))
    /\ Receive(sock)
    /\ UNCHANGED <<conn, sock, active, callerVars, pipeVars, serverVars>>

\* windowFocusChanged(), or the window list that refreshUI() asks for from
\* time to time.
FocusChanged ==
    /\ active
    /\ Len(toServer[sock]) < MaxQueue
    /\ \E frames \in {<<Signal("Cs")>>, WindowList} : Send(sock, frames)
    /\ UNCHANGED <<toExt, extVars, callerVars, pipeVars, serverVars>>

ExtensionProgress == Connect \/ ConnectionClosed \/ HandleVersion \/ HandleRequest

ExtensionNext == ExtensionProgress \/ Disconnect \/ FocusChanged
============================================================================
