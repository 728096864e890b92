---------------------------- MODULE GkeIntegration ----------------------------
(***************************************************************************)
(* The GKE integration of tenants created at once: gkeIntegration waits    *)
(* for a pod or for a timer, two goroutines that both may end the wait,    *)
(* then creates a certificate and two services for the tenant and adds     *)
(* its hosts to the one ingress that all tenants share.                    *)
(***************************************************************************)
EXTENDS Naturals, FiniteSets

CONSTANTS
  GkeTenants,   \* the tenants created, a request each
  PrefixOf   \* pairs of tenants: the name of the first starts the second's

ASSUME PrefixAssumption ==
  /\ IsFiniteSet(GkeTenants)
  /\ PrefixOf \subseteq GkeTenants \X GkeTenants /\ \A t \in GkeTenants : <<t, t>> \in PrefixOf

VARIABLES
  pods,       \* the tenants with a pod
  objects,    \* the certificates and services, by tenant
  ingress,    \* console-ingress: the tenants with hosts in it, its version
  pc,
  flag,       \* flag[t]: informerClosed
  closed,     \* closed[t]: doneCh is closed
  timer,
  handler,    \* handler[t]: the handler of pod events, one goroutine
  seen,       \* seen[t]: the pods it was told of
  read,       \* read[t]: the ingress that was read, as a set
  answer,
  alive       \* FALSE once a goroutine panicked: the process is gone

kubernetes == <<pods, objects, ingress>>
waiting == <<flag, closed, timer, handler, seen>>
gkeVars == <<kubernetes, pc, waiting, read, answer, alive>>

Kinds == <<"certificate", "service", "console">>
KindNames == {Kinds[k] : k \in DOMAIN Kinds}

GkeTypeOK ==
  /\ pods \subseteq GkeTenants
  /\ objects \subseteq GkeTenants \X KindNames
  /\ ingress.hosts \subseteq GkeTenants /\ ingress.version \in 0 .. Cardinality(GkeTenants)
  /\ pc \in [GkeTenants -> {"wait", "read", "update", "done"} \cup KindNames]
  /\ flag \in [GkeTenants -> BOOLEAN] /\ closed \in [GkeTenants -> BOOLEAN]
  /\ timer \in [GkeTenants -> {"sleeps", "sets", "closes", "over"}]
  /\ handler \in [GkeTenants -> {"idle", "sets", "closes"}]
  /\ seen \in [GkeTenants -> SUBSET pods]
  /\ answer \in [GkeTenants -> {"none", "ok", "error"}]
  /\ \A t \in GkeTenants : pc[t] = "done" <=> answer[t] # "none"
  /\ \A t \in GkeTenants : pc[t] # "wait" => closed[t]
  /\ alive \in BOOLEAN

GkeInit ==
  /\ pods \in SUBSET GkeTenants
  /\ objects = {}
  /\ ingress = [hosts |-> {}, version |-> 0]
  /\ pc = [t \in GkeTenants |-> "wait"]
  /\ flag = [t \in GkeTenants |-> FALSE] /\ closed = [t \in GkeTenants |-> FALSE]
  /\ timer = [t \in GkeTenants |-> "sleeps"] /\ handler = [t \in GkeTenants |-> "idle"]
  /\ seen = [t \in GkeTenants |-> {}]
  /\ read = [t \in GkeTenants |-> {}]
  /\ answer = [t \in GkeTenants |-> "none"]
  /\ alive = TRUE

Goto(t, l) == pc' = [pc EXCEPT ![t] = l] /\ UNCHANGED answer
Finish(t, a) == pc' = [pc EXCEPT ![t] = "done"] /\ answer' = [answer EXCEPT ![t] = a]

-----------------------------------------------------------------------------
(* The wait. Nothing orders the two goroutines: each reads informerClosed,  *)
(* then sets it, then closes the channel.                                   *)

\* The MinIO operator starts the first pod of a tenant.
PodStarts(t) ==
  /\ t \notin pods
  /\ pods' = pods \cup {t}
  /\ UNCHANGED <<objects, ingress, pc, waiting, read, answer>>

\* To close a channel that is closed panics.
CloseDone(t) ==
  /\ closed' = [closed EXCEPT ![t] = TRUE]
  /\ alive' = ~closed[t]

TimerFires(t) ==
  /\ timer[t] = "sleeps"
  /\ timer' = [timer EXCEPT ![t] = IF flag[t] THEN "over" ELSE "sets"]
  /\ UNCHANGED <<kubernetes, pc, flag, closed, handler, seen, read, answer, alive>>

\* Mutated form of TimerCloses: the timer raises the flag and closes nothing.
TimerForgets(t) ==
  /\ timer[t] = "sets"
  /\ flag' = [flag EXCEPT ![t] = TRUE]
  /\ timer' = [timer EXCEPT ![t] = "over"]
  /\ UNCHANGED <<kubernetes, pc, closed, handler, seen, read, answer, alive>>

TimerCloses(t) ==
  \/ /\ timer[t] = "sets"
     /\ flag' = [flag EXCEPT ![t] = TRUE]
     /\ timer' = [timer EXCEPT ![t] = "closes"]
     /\ UNCHANGED <<kubernetes, pc, closed, handler, seen, read, answer, alive>>
  \/ /\ timer[t] = "closes"
     /\ CloseDone(t)
     /\ timer' = [timer EXCEPT ![t] = "over"]
     /\ UNCHANGED <<kubernetes, pc, flag, handler, seen, read, answer>>

\* The informer tells of the pods of every namespace, also of those there were
\* before; what it has queued is still delivered after its end.
AddFunc(t) ==
  \E u \in pods \ seen[t] :
    /\ handler[t] = "idle"
    /\ seen' = [seen EXCEPT ![t] = @ \cup {u}]
    /\ handler' = [handler EXCEPT ![t] =
                     IF <<t, u>> \in PrefixOf /\ ~flag[t] THEN "sets" ELSE "idle"]
    /\ UNCHANGED <<kubernetes, pc, flag, closed, timer, read, answer, alive>>

AddFuncCloses(t) ==
  \/ /\ handler[t] = "sets"
     /\ flag' = [flag EXCEPT ![t] = TRUE]
     /\ handler' = [handler EXCEPT ![t] = "closes"]
     /\ UNCHANGED <<kubernetes, pc, closed, timer, seen, read, answer, alive>>
  \/ /\ handler[t] = "closes"
     /\ CloseDone(t)
     /\ handler' = [handler EXCEPT ![t] = "idle"]
     /\ UNCHANGED <<kubernetes, pc, flag, timer, seen, read, answer>>

WaitOver(t) ==
  /\ pc[t] = "wait" /\ closed[t]
  /\ Goto(t, "certificate")
  /\ UNCHANGED <<kubernetes, waiting, read>>

-----------------------------------------------------------------------------
(* The calls. Each may fail, before or after it took effect.                *)

After(kind) ==
  CASE kind = "certificate" -> "service" [] kind = "service" -> "console"
    [] OTHER -> "read"

\* Mutated form of CreateObject: what cannot be created is not missed.
CreateObjectOrNot(t) ==
  /\ pc[t] \in KindNames
  /\ objects' \in {objects, objects \cup {<<t, pc[t]>>}}
  /\ Goto(t, After(pc[t]))
  /\ UNCHANGED <<pods, ingress, waiting, read>>

CreateObject(t) ==
  /\ pc[t] \in KindNames
  /\ LET created == objects \cup {<<t, pc[t]>>} IN
       \/ objects' = created /\ Goto(t, After(pc[t]))
       \/ objects' \in {objects, created} /\ Finish(t, "error")
  /\ UNCHANGED <<pods, ingress, waiting, read>>

ReadIngress(t) ==
  /\ pc[t] = "read"
  /\ \/ read' = [read EXCEPT ![t] = {ingress}] /\ Goto(t, "update")
     \/ Finish(t, "error") /\ UNCHANGED read
  /\ UNCHANGED <<kubernetes, waiting>>

\* Kubernetes refuses an update of another version than the one it has.
Unchanged(t) == ingress \in read[t]

UpdateIngress(t) ==
  /\ pc[t] = "update"
  /\ \/ /\ Unchanged(t)
        /\ \E old \in read[t] :
             ingress' = [hosts |-> old.hosts \cup {t}, version |-> ingress.version + 1]
        /\ Finish(t, "ok") \/ Finish(t, "error")
     \/ Finish(t, "error") /\ UNCHANGED ingress
  /\ UNCHANGED <<pods, objects, waiting, read>>

Goroutines(t) == TimerFires(t) \/ TimerCloses(t) \/ AddFuncCloses(t)
Request(t) ==
  (WaitOver(t) \/ CreateObject(t) \/ ReadIngress(t) \/ UpdateIngress(t)) /\ UNCHANGED alive

GkeNext ==
  /\ alive
  /\ \E t \in GkeTenants :
       \/ PodStarts(t) /\ UNCHANGED alive
       \/ AddFunc(t)
       \/ Goroutines(t)
       \/ Request(t)

GkeSpec == GkeInit /\ [][GkeNext]_gkeVars

\* Sleeping goroutines wake up and calls are answered; pods may never come.
\* (What goes on here is bounded, so that it need not be fair to each by itself.)
GkeProgress ==
  alive /\ \E t \in GkeTenants : Goroutines(t) \/ Request(t)
GkeFairness == WF_gkeVars(GkeProgress)

FairGkeSpec == GkeSpec /\ GkeFairness

-----------------------------------------------------------------------------
\* Every tenant whose integration succeeded is served: its certificate and both
\* services are there and its hosts are in the ingress, whatever the others,
\* who read and wrote the same ingress, did in between.
IntegratedIsServed ==
  \A t \in GkeTenants : answer[t] = "ok" =>
    t \in ingress.hosts /\ {t} \X KindNames \subseteq objects

\* Each wait ends without a pod and each integration is answered, or the
\* process is gone.
IntegrationsAnswered == <>[](~alive \/ \A t \in GkeTenants : pc[t] = "done")
=============================================================================
