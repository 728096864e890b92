-------------------------------- MODULE WsConn --------------------------------
(***************************************************************************)
(* One WebSocket session of the console: the request that opens it         *)
(* (serveWS), the connection it is upgraded to, the goroutine that reads   *)
(* what the browser sends (wsReadClientCtx) and the way every session      *)
(* handler ends (sendWsCloseMessage, then the deferred close).             *)
(*                                                                         *)
(* The body of the session, startTraceInfo, startConsoleLog, startWatch,   *)
(* startHealthInfo or startHeal, is in the modules that extend this one.   *)
(* The connection itself is gorilla/websocket over TCP and the peer is a   *)
(* browser: both are external and modelled from how this code uses them.   *)
(***************************************************************************)
EXTENDS Naturals, Sequences

CONSTANTS
  Requests,   \* paths under /ws that browsers ask for, one session each
  WireCap     \* frames the transport holds before a write blocks

ASSUME WireCapAssumption == WireCap \in Nat \ {0}

VARIABLES
  hpc,        \* where the goroutine that serves the session is
  request,    \* the path that was asked for
  api,        \* the handler serveWS dispatched to
  result,     \* what the session's body returned
  reader,     \* the goroutine of wsReadClientCtx
  canceled,   \* ctx.Done() is closed
  peer,       \* the browser's end of the connection
  closed,     \* conn.Close() was called
  text,       \* the text frames the connection accepted, in order
  closeCode,  \* the close frame the connection accepted
  unread      \* frames written that the peer has not read

connVars == <<hpc, request, api, result, reader, canceled, peer, closed,
              text, closeCode, unread>>

NoApi == "none"
Routes == <<"trace", "console", "health-info", "heal", "watch">>
Apis == {Routes[i] : i \in 1..Len(Routes)}
Results == {"nil", "error", "timeout"}
Codes == {"normal", "policy", "internal", "echo"}

ConnTypeOK ==
  /\ hpc \in {"serve", "accepted", "run", "closing", "deferred", "done"}
  /\ request \in Requests \cup {NoApi}
  /\ api \in Apis \cup {NoApi}
  /\ result \in Results \cup {"none"}
  /\ reader \in {"none", "reading", "done"}
  /\ canceled \in BOOLEAN
  /\ peer \in {"up", "closing", "gone"}
  /\ closed \in BOOLEAN
  /\ closeCode \in Codes \cup {"none"}
  /\ unread \in 0..WireCap

ConnInit ==
  /\ hpc = "serve"
  /\ request = NoApi
  /\ api = NoApi
  /\ result = "none"
  /\ reader = "none"
  /\ canceled = FALSE
  /\ peer = "up"
  /\ closed = FALSE
  /\ text = <<>>
  /\ closeCode = "none"
  /\ unread = 0

-----------------------------------------------------------------------------
(* The connection. *)

\* A write goes through while no close frame was written (after one, every
\* write returns ErrCloseSent), the connection is open and there is room.
WriteGoes == ~closed /\ closeCode = "none" /\ unread < WireCap

\* A write fails at once on a connection that is closed or has sent its close
\* frame, and sooner or later on one whose peer is gone.
WriteFails == closed \/ closeCode # "none" \/ peer = "gone"

WriteText(m) ==
  /\ WriteGoes
  /\ text' = Append(text, m)
  /\ unread' = unread + 1
  /\ UNCHANGED closeCode

WriteClose(code) ==
  /\ WriteGoes
  /\ closeCode' = code
  /\ unread' = unread + 1
  /\ UNCHANGED text

\* The peer reads a frame; it is a browser, which buffers what arrives.
PeerRead ==
  /\ peer # "gone"
  /\ unread > 0
  /\ unread' = unread - 1
  /\ UNCHANGED <<hpc, request, api, result, reader, canceled, peer, closed,
                 text, closeCode>>

\* The peer sends a close frame, or its connection breaks.
PeerLeaves ==
  /\ hpc # "serve"
  /\ \/ peer = "up" /\ peer' = "closing"
     \/ peer # "gone" /\ peer' = "gone"
  /\ UNCHANGED <<hpc, request, api, result, reader, canceled, closed, text,
                 closeCode, unread>>

-----------------------------------------------------------------------------
(* serveWS. *)

\* strings.HasPrefix(path, route): "health-info" also has the prefix "heal".
HasPrefix(path, route) ==
  path = route \/ (path = "health-info" /\ route = "heal")

MatchesOf(path) == {i \in 1..Len(Routes) : HasPrefix(path, Routes[i])}

\* The switch takes the first case that matches.
Dispatch(path) ==
  LET hits == MatchesOf(path)
  IN  IF hits = {} THEN NoApi
      ELSE Routes[CHOOSE i \in hits : \A j \in hits : i <= j]

\* The session token is refused or the upgrade fails: an HTTP error.
Refuse ==
  /\ hpc' = "done"
  /\ UNCHANGED <<api, closed, text, closeCode, unread>>

\* closeWsConn: the options do not parse, the client cannot be created, or the
\* path is unknown. The close frame says "normal".
CloseAtOnce ==
  /\ WriteClose("normal")
  /\ closed' = TRUE
  /\ hpc' = "done"
  /\ UNCHANGED api

Start(route) ==
  /\ api' = route
  /\ hpc' = "accepted"
  /\ UNCHANGED <<closed, text, closeCode, unread>>

ServeWS ==
  /\ hpc = "serve"
  /\ \E path \in Requests :
       /\ request' = path
       /\ \/ Refuse
          \/ CloseAtOnce
          \/ Dispatch(path) # NoApi /\ Start(Dispatch(path))
  /\ UNCHANGED <<result, reader, canceled, peer>>

-----------------------------------------------------------------------------
(* The reader goroutine. *)

StartReader ==
  /\ hpc = "accepted"
  /\ hpc' = "run"
  /\ reader' = "reading"
  /\ UNCHANGED <<request, api, result, canceled, peer, closed, text, closeCode,
                 unread>>

EndReader ==
  /\ reader' = "done"
  /\ canceled' = TRUE

\* readMessage returns an error: the peer's close frame arrived, which the
\* library answers with a close frame of its own when it still can, or the
\* connection is gone. Text the peer sends is read and dropped.
ReadFails ==
  /\ reader = "reading"
  /\ \/ /\ peer = "closing"
        /\ IF WriteGoes THEN WriteClose("echo")
                        ELSE UNCHANGED <<text, closeCode, unread>>
     \/ /\ closed \/ peer = "gone"
        /\ UNCHANGED <<text, closeCode, unread>>
  /\ EndReader
  /\ UNCHANGED <<hpc, request, api, result, peer, closed>>

-----------------------------------------------------------------------------
(* The end of every session handler. *)

\* The session's body returns r.
ReturnBody(r) ==
  /\ hpc' = "closing"
  /\ result' = r

\* Mutated form of CloseCodeOf: the error is not looked at.
CloseCodeAlwaysNormal(r) == "normal"

CloseCodeOf(r) ==
  CASE r = "timeout" -> "policy"
    [] r = "error"   -> "internal"
    [] OTHER         -> "normal"

\* Mutated form of SendCloseMessage: only a body that succeeded says goodbye.
SendCloseOnSuccess ==
  /\ hpc = "closing"
  /\ \/ result = "nil" /\ WriteClose("normal")
     \/ /\ WriteFails \/ result # "nil"
        /\ UNCHANGED <<text, closeCode, unread>>
  /\ hpc' = "deferred"
  /\ UNCHANGED <<request, api, result, reader, canceled, peer, closed>>

\* sendWsCloseMessage: the error of the write is dropped.
SendCloseMessage ==
  /\ hpc = "closing"
  /\ \/ WriteClose(CloseCodeOf(result))
     \/ WriteFails /\ UNCHANGED <<text, closeCode, unread>>
  /\ hpc' = "deferred"
  /\ UNCHANGED <<request, api, result, reader, canceled, peer, closed>>

CloseConn ==
  /\ hpc = "deferred"
  /\ closed' = TRUE
  /\ hpc' = "done"
  /\ UNCHANGED <<request, api, result, reader, canceled, peer, text, closeCode,
                 unread>>

\* Steps of the session's goroutine, of its reader and of its peer.
SessionStep == StartReader \/ SendCloseMessage \/ CloseConn
PeerStep == PeerRead \/ PeerLeaves
=============================================================================
