---------------------------- MODULE StreamContract ----------------------------
(***************************************************************************)
(* What a WebSocket session of the console promises the browser: the       *)
(* records MinIO handed over arrive in that order, each once, nothing      *)
(* follows the close frame, and a "normal" close frame is sent only when   *)
(* nothing handed over is missing.                                         *)
(***************************************************************************)
EXTENDS Naturals, Sequences

VARIABLES
  taken,      \* records handed over to the session
  text,       \* records sent to the browser
  closeCode   \* the close frame, "none" before it

vars == <<taken, text, closeCode>>

Init ==
  /\ taken = <<>>
  /\ text = <<>>
  /\ closeCode = "none"

\* A batch is handed over when the one before it is sent.
HandOver ==
  /\ text = taken
  /\ Len(taken') >= Len(taken)
  /\ SubSeq(taken', 1, Len(taken)) = taken
  /\ UNCHANGED <<text, closeCode>>

Forward ==
  /\ closeCode = "none"
  /\ Len(text) < Len(taken)
  /\ text' = Append(text, taken[Len(text) + 1])
  /\ UNCHANGED <<taken, closeCode>>

CloseNormal ==
  /\ closeCode = "none"
  /\ text = taken
  /\ closeCode' = "normal"
  /\ UNCHANGED <<taken, text>>

CloseEarly ==
  /\ closeCode = "none"
  /\ closeCode' \in {"policy", "internal", "echo"}
  /\ UNCHANGED <<taken, text>>

Next == HandOver \/ Forward \/ CloseNormal \/ CloseEarly

Spec == Init /\ [][Next]_vars
=============================================================================
