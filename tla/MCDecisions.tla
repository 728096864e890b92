------------------------------ MODULE MCDecisions ------------------------------
(***************************************************************************)
(* The decisions the console makes by itself, for TLC: the colour of a     *)
(* healed item, whether a traced call is shown, who is listed as having    *)
(* access to a bucket, the memory and the parity of a tenant. They share   *)
(* nothing: a behaviour is about one and leaves the others as they are.    *)
(***************************************************************************)
EXTENDS HealColor, TraceFilter, BucketAccess, ClusterMemory, ErasureSets, TLC

VARIABLE about

vars == <<about, item, traceVars, accessVars, memoryVars, parityVars>>

\* Users, groups and policies are interchangeable.
Symmetry == Permutations(Accounts) \cup Permutations(Teams) \cup Permutations(PolicyNames)

MCDocuments == {<<"Other">>, <<"Allow">>, <<"Other", "Deny">>, <<"Allow", "Deny">>}

AnyItem == [type |-> "object", data |-> 1, parity |-> 1, sets |-> 1,
            before |-> <<2>>, after |-> <<2>>]
AnyTrace == [path |-> {}, statusCode |-> 200, method |-> "GET", funcName |-> {}]

NoItem == item = AnyItem
NoTrace == opts = NoFilter /\ trace = AnyTrace
NoAccess ==
  /\ policy = [p \in PolicyNames |-> <<"Other">>]
  /\ attached = [u \in Accounts |-> {}] /\ mapped = [g \in Teams |-> {}]
  /\ members = [g \in Teams |-> {}]
  /\ AccessStart

NoMemory == MemoryInit /\ numNodes = 0
NoParity == ParityInit /\ pool = [servers |-> 1, drives |-> 1]

Init ==
  \/ about = "color" /\ HealInit /\ NoTrace /\ NoAccess /\ NoMemory /\ NoParity
  \/ about = "filter" /\ TraceInit /\ NoItem /\ NoAccess /\ NoMemory /\ NoParity
  \/ about = "access" /\ AccessInit /\ NoItem /\ NoTrace /\ NoMemory /\ NoParity
  \/ about = "memory" /\ MemoryInit /\ NoItem /\ NoTrace /\ NoAccess /\ NoParity
  \/ about = "parity" /\ ParityInit /\ NoItem /\ NoTrace /\ NoAccess /\ NoMemory

Next ==
  /\ UNCHANGED about
  /\ \/ about = "color" /\ Heal /\ UNCHANGED <<traceVars, accessVars, memoryVars, parityVars>>
     \/ about = "filter" /\ AddFilter /\ UNCHANGED <<item, accessVars, memoryVars, parityVars>>
     \/ about = "access" /\ AccessNext /\ UNCHANGED <<item, traceVars, memoryVars, parityVars>>
     \/ about = "memory" /\ MemoryNext /\ UNCHANGED <<item, traceVars, accessVars, parityVars>>
     \/ about = "parity" /\ ParityNext /\ UNCHANGED <<item, traceVars, accessVars, memoryVars>>

Spec == Init /\ [][Next]_vars
=============================================================================
