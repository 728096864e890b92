------------------------------- MODULE MCWsHeal -------------------------------
(* WsHeal for TLC: a handful of items that go through every case. *)
EXTENDS WsHeal

\* Of one set, with so many drives that have it before and after.
Item(type, data, parity, before, after) ==
  [type |-> type, data |-> data, parity |-> parity, sets |-> 1,
   before |-> <<before>>, after |-> <<after>>]

\* An object that is healed, a bucket that needs no healing, and an object
\* without parity, which has no colour.
MCItems ==
  {Item("object", 2, 2, 3, 4), Item("bucket", 2, 2, 4, 4), Item("object", 2, 0, 2, 2)}

MCRequests == {"heal"}
=============================================================================
