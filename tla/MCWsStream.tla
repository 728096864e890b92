------------------------------ MODULE MCWsStream ------------------------------
(* WsStream for TLC: one session, every handler but heal. *)
EXTENDS WsStream

\* The paths asked for; "other" is a path serveWS does not know.
MCRequests == {"trace", "console", "health-info", "watch", "other"}
=============================================================================
