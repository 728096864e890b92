-------------------------------- MODULE License --------------------------------
(***************************************************************************)
(* The SUBNET licence of the operator console: a secret of the cluster has *)
(* it, tenants have copies, and a loop in the background and requests that *)
(* refresh, validate and activate it read and write both at once, while    *)
(* others edit the tenants and the console may restart.                    *)
(***************************************************************************)
EXTENDS Naturals, Sequences, FiniteSets

CONSTANTS
  Licensees,    \* the tenants of the cluster
  Configured,   \* those with a configuration secret
  Requests,     \* the requests about the licence
  Scenarios,    \* what the requests are about, whether the loop still runs, and how
                \* many restarts may come
  MaxLicense,   \* bound: licences are numbered as SUBNET issues them
  MaxEdits      \* bound: edits of a tenant by others

\* A request of kind "none" does not come.
Tasks == [kind : {"refresh", "validate", "activate", "none"}, tenant : Licensees]

ASSUME LicenseAssumption ==
  /\ Licensees # {} /\ Configured \subseteq Licensees /\ "loop" \notin Requests
  /\ Scenarios \subseteq [tasks : [Requests -> Tasks], loop : BOOLEAN, restarts : Nat]
  /\ MaxLicense \in Nat \ {0} /\ MaxEdits \in Nat

VARIABLES
  issued,     \* the last licence SUBNET has issued
  stored,     \* the secret of the cluster: the licence (0: no secret), and who has
              \* read the version it has
  holder,     \* holder[t]: what has the licence of tenant t, its configuration
              \* secret or itself: licence, content, readers likewise
  task,       \* task[r]: what a request is about, and for which tenant
  work,       \* work[p]: where the loop, or a request, is
  license,    \* license[p]: the licence it has
  copy,       \* copy[p][t]: the content of the holder it read
  todo,       \* todo[p]: the tenants it still has to update
  current,    \* current[p]: the tenant it is at, as a set
  outcome,    \* outcome[r]: the answer
  failures,   \* failedAttempts of the loop
  restarts,   \* how many more restarts may come
  recent,     \* history: whether the last three attempts of the loop succeeded
  everStored, \* history: the licences the cluster has had
  updaters    \* history: updaters[t]: the requests that wrote the licence of t

cluster == <<issued, stored, holder, everStored, updaters>>
local == <<license, copy, todo, current>>
loopVars == <<failures, recent>>
licenseVars == <<cluster, task, work, local, outcome, loopVars, restarts>>

Processes == Requests \cup {"loop"}
Secrets == [license : 0 .. MaxLicense, readers : SUBSET Processes]
\* The edits of others: to the tenant or the entries of config.env, and to the rest of
\* a configuration secret, its other keys and the lines that are no entries.
Contents == [entries : 0 .. MaxEdits, rest : 0 .. MaxEdits]
Unedited == [entries |-> 0, rest |-> 0]
Holders == [license : 0 .. MaxLicense, content : Contents, readers : SUBSET Processes]
ThreeFailed == Len(recent) = 3 /\ \A k \in 1 .. 3 : ~recent[k]

LicenseTypeOK ==
  /\ issued \in 0 .. MaxLicense
  /\ stored \in Secrets
  /\ holder \in [Licensees -> Holders]
  /\ task \in [Requests -> Tasks]
  /\ work \in [Processes -> {"idle", "tenant", "retrieve", "renew", "get", "write", "list",
                             "configuration", "update", "done"}]
  /\ license \in [Processes -> 0 .. MaxLicense]
  /\ copy \in [Processes -> [Licensees -> Contents]]
  /\ todo \in [Processes -> SUBSET Licensees] /\ current \in [Processes -> SUBSET Licensees]
  /\ outcome \in [Requests -> {"none", "ok", "error", "lost"}]
  /\ \A r \in Requests : work[r] = "done" <=> outcome[r] # "none"
  /\ failures \in 0 .. 3 /\ recent \in Seq(BOOLEAN) /\ Len(recent) <= 3
  /\ work["loop"] = "done" <=> ThreeFailed
  /\ restarts \in Nat
  /\ everStored \subseteq 1 .. MaxLicense
  /\ updaters \in [Licensees -> SUBSET Requests]

LicenseInit ==
  /\ issued \in 0 .. 1
  /\ stored = [license |-> issued, readers |-> {}]
  /\ everStored = {issued} \ {0}
  /\ holder = [t \in Licensees |-> [license |-> 0, content |-> Unedited, readers |-> {}]]
  /\ updaters = [t \in Licensees |-> {}]
  /\ \E s \in Scenarios :
       /\ task = s.tasks /\ restarts = s.restarts
       /\ work = [p \in Processes |-> IF p = "loop" /\ ~s.loop THEN "done" ELSE "idle"]
       /\ failures = IF s.loop THEN 0 ELSE 3
       /\ recent = IF s.loop THEN <<>> ELSE <<FALSE, FALSE, FALSE>>
  /\ license = [p \in Processes |-> 0]
  /\ copy = [p \in Processes |-> [t \in Licensees |-> Unedited]]
  /\ todo = [p \in Processes |-> {}] /\ current = [p \in Processes |-> {}]
  /\ outcome = [r \in Requests |-> "none"]

-----------------------------------------------------------------------------
(* The end of an attempt of the loop, and of a request.                      *)

Remembered(ok) ==
  LET all == Append(recent, ok) IN IF Len(all) <= 3 THEN all ELSE Tail(all)

\* Mutated form of EndAttempt: the failures are never forgotten.
EndAttemptCounting(ok) ==
  /\ failures' = IF ok THEN failures ELSE failures + 1
  /\ work' = [work EXCEPT !["loop"] = IF failures' >= 3 THEN "done" ELSE "idle"]
  /\ recent' = Remembered(ok)
  /\ UNCHANGED outcome

\* After the third failure in a row the loop ends; else it sleeps.
EndAttempt(ok) ==
  /\ failures' = IF ok THEN 0 ELSE failures + 1
  /\ work' = [work EXCEPT !["loop"] = IF failures' >= 3 THEN "done" ELSE "idle"]
  /\ recent' = Remembered(ok)
  /\ UNCHANGED outcome

Return(p, ok) ==
  IF p = "loop"
    THEN EndAttempt(ok)
    ELSE /\ work' = [work EXCEPT ![p] = "done"]
         /\ outcome' = [outcome EXCEPT ![p] = IF ok THEN "ok" ELSE "error"]
         /\ UNCHANGED loopVars

Then(p, l) == work' = [work EXCEPT ![p] = l] /\ UNCHANGED <<outcome, loopVars>>

\* A call fails and has had no effect.
Fails(p) == Return(p, FALSE) /\ UNCHANGED <<cluster, local>>

-----------------------------------------------------------------------------
(* The licence: read, renewed, saved.                                        *)

Begin(p) ==
  /\ work[p] = "idle" /\ (p # "loop" => task[p].kind # "none")
  /\ Then(p, IF p = "loop" THEN "retrieve"
             ELSE CASE task[p].kind = "refresh" -> "retrieve"
                    [] task[p].kind = "validate" -> "renew"
                    [] OTHER -> "tenant")
  /\ UNCHANGED <<cluster, local>>

\* getSubscriptionLicense: without the secret there is no licence.
RetrieveLicense(p) ==
  /\ work[p] = "retrieve"
  /\ \/ /\ stored.license # 0
        /\ license' = [license EXCEPT ![p] = stored.license]
        /\ IF p \in Requests /\ task[p].kind = "activate"
             THEN /\ todo' = [todo EXCEPT ![p] = {task[p].tenant}]
                  /\ Then(p, "configuration")
             ELSE Then(p, "renew") /\ UNCHANGED todo
        /\ UNCHANGED <<cluster, copy, current>>
     \/ Fails(p)

\* SUBNET gives the licence there is, or issues one.
RenewLicense(p) ==
  /\ work[p] = "renew"
  /\ \/ \E n \in {issued, issued + 1} \cap (1 .. MaxLicense) :
          /\ issued' = n
          /\ license' = [license EXCEPT ![p] = n]
          /\ Then(p, "get")
          /\ UNCHANGED <<stored, holder, everStored, updaters, copy, todo, current>>
     \/ Fails(p)

\* saveSubscriptionLicense reads the secret, which may not be there.
GetSecret(p) ==
  /\ work[p] = "get"
  /\ \/ /\ stored' = [stored EXCEPT !.readers = @ \cup {p}]
        /\ Then(p, "write")
        /\ UNCHANGED <<issued, holder, everStored, updaters, local>>
     \/ Fails(p)

\* Kubernetes creates what is still not there, and updates what was read.
SecretWritten(p) ==
  /\ p \in stored.readers
  /\ stored' = [license |-> license[p], readers |-> {}]
  /\ everStored' = everStored \cup {license[p]}
  /\ UNCHANGED <<issued, holder, updaters>>

\* Mutated form of WriteSecret: a failed save does not keep the tenants from
\* being given the licence.
WriteSecretTolerated(p) ==
  /\ work[p] = "write"
  /\ SecretWritten(p) \/ UNCHANGED cluster
  /\ IF p \in Requests /\ task[p].kind = "refresh" THEN Then(p, "list") ELSE Return(p, TRUE)
  /\ UNCHANGED local

WriteSecret(p) ==
  /\ work[p] = "write"
  /\ \/ /\ SecretWritten(p)
        /\ \/ IF p \in Requests /\ task[p].kind = "refresh" THEN Then(p, "list")
              ELSE Return(p, TRUE)
           \/ Return(p, FALSE)
        /\ UNCHANGED local
     \/ Fails(p)

-----------------------------------------------------------------------------
(* The tenants.                                                              *)

Read(p, ts) ==
  /\ holder' = [t \in Licensees |->
                  IF t \in ts THEN [holder[t] EXCEPT !.readers = @ \cup {p}] ELSE holder[t]]
  /\ copy' = [copy EXCEPT ![p] = [t \in Licensees |->
                                    IF t \in ts THEN holder[t].content ELSE copy[p][t]]]
  /\ UNCHANGED <<issued, stored, everStored, updaters, license>>

\* getTenant of an activation, which then reads the licence.
GetTenantOf(p) ==
  /\ work[p] = "tenant"
  /\ \/ /\ Read(p, {task[p].tenant})
        /\ Then(p, "retrieve")
        /\ UNCHANGED <<todo, current>>
     \/ Fails(p)

ListTenants(p) ==
  /\ work[p] = "list"
  /\ \/ /\ Read(p, Licensees)
        /\ todo' = [todo EXCEPT ![p] = Licensees]
        /\ Then(p, "configuration")
        /\ UNCHANGED current
     \/ Fails(p)

\* addSubscriptionLicenseToTenant reads a configuration secret anew; the tenant
\* itself is the one that was read or listed.
ReadConfiguration(p) ==
  /\ work[p] = "configuration"
  /\ \E t \in todo[p] :
       \/ /\ current' = [current EXCEPT ![p] = {t}]
          /\ todo' = [todo EXCEPT ![p] = @ \ {t}]
          /\ Read(p, {t} \cap Configured)
          /\ Then(p, "update")
       \/ t \in Configured /\ Fails(p)

\* A tenant is written as it was read; a configuration secret has nothing in it any
\* more but config.env, generated anew from the entries that were found in it.
Regenerated(t, c) == IF t \in Configured THEN [entries |-> c.entries, rest |-> 0] ELSE c

Written(p, t) ==
  /\ holder' = [holder EXCEPT ![t] = [license |-> license[p],
                                      content |-> Regenerated(t, copy[p][t]),
                                      readers |-> {}]]
  /\ updaters' = [updaters EXCEPT ![t] = @ \cup {p}]
  /\ UNCHANGED <<issued, stored, everStored>>

\* Mutated form of HolderWritten: it is written over whatever there is now.
HolderOverwritten(p, t) == Written(p, t)

\* Kubernetes refuses an update of another version than the one it has.
HolderWritten(p, t) == p \in holder[t].readers /\ Written(p, t)

\* Mutated form of UpdateHolder: a tenant that cannot be updated is passed over.
UpdateHolderOrNot(p) ==
  /\ work[p] = "update"
  /\ \E t \in current[p] : HolderWritten(p, t) \/ UNCHANGED cluster
  /\ IF todo[p] = {} THEN Return(p, TRUE) ELSE Then(p, "configuration")
  /\ UNCHANGED local

\* The first tenant that cannot be updated ends the request.
UpdateHolder(p) ==
  /\ work[p] = "update"
  /\ \/ /\ \E t \in current[p] : HolderWritten(p, t)
        /\ \/ IF todo[p] = {} THEN Return(p, TRUE) ELSE Then(p, "configuration")
           \/ Return(p, FALSE)
        /\ UNCHANGED local
     \/ Fails(p)

-----------------------------------------------------------------------------
(* Others.                                                                   *)

Edited(t, c) ==
  {[c EXCEPT !.entries = @ + 1]} \cup {[c EXCEPT !.rest = @ + 1] : s \in {t} \cap Configured}

EditTenant(t) ==
  /\ holder[t].content.entries + holder[t].content.rest < MaxEdits
  /\ \E c \in Edited(t, holder[t].content) :
       holder' = [holder EXCEPT ![t] = [license |-> holder[t].license, content |-> c,
                                        readers |-> {}]]
  /\ UNCHANGED <<issued, stored, everStored, updaters, task, work, local, outcome, loopVars, restarts>>

\* The console starts again: its requests are gone with what they had read, its
\* loop begins anew.
RestartConsole ==
  LET over(p) == p \in Requests /\ work[p] = "done" IN
  /\ restarts > 0
  /\ restarts' = restarts - 1
  /\ work' = [p \in Processes |->
                IF p = "loop" \/ work[p] = "idle" THEN "idle" ELSE "done"]
  /\ outcome' = [r \in Requests |->
                   IF work[r] \in {"idle", "done"} THEN outcome[r] ELSE "lost"]
  /\ license' = [p \in Processes |-> IF over(p) THEN license[p] ELSE 0]
  /\ stored' = [stored EXCEPT !.readers = {}]
  /\ holder' = [t \in Licensees |-> [holder[t] EXCEPT !.readers = {}]]
  /\ copy' = [p \in Processes |-> [t \in Licensees |-> Unedited]]
  /\ todo' = [p \in Processes |-> {}] /\ current' = [p \in Processes |-> {}]
  /\ failures' = 0 /\ recent' = <<>>
  /\ UNCHANGED <<issued, everStored, updaters, task>>

ProcessStep(p) ==
  \/ RetrieveLicense(p) \/ RenewLicense(p) \/ GetSecret(p) \/ WriteSecret(p)
  \/ GetTenantOf(p) \/ ListTenants(p) \/ ReadConfiguration(p) \/ UpdateHolder(p)

LicenseNext ==
  \/ \E p \in Processes : (Begin(p) \/ ProcessStep(p)) /\ UNCHANGED <<task, restarts>>
  \/ \E t \in Licensees : EditTenant(t)
  \/ RestartConsole

LicenseSpec == LicenseInit /\ [][LicenseNext]_licenseVars

\* The loop wakes up, and its calls return.
LoopProgress == (Begin("loop") \/ ProcessStep("loop")) /\ UNCHANGED <<task, restarts>>
LicenseFairness == WF_licenseVars(LoopProgress)

FairLicenseSpec == LicenseSpec /\ LicenseFairness
-----------------------------------------------------------------------------
\* A tenant only ever has a licence the cluster has had: what could not be
\* saved reaches no tenant, also when the console restarts in between.
TenantsFollowCluster ==
  \A t \in Licensees : holder[t].license \in everStored \cup {0}

\* A refresh that was answered without an error has given every tenant its
\* licence, and the tenant still has it unless another request gave it one at some
\* time. (Tenants created meanwhile are not among those that were listed.)
RefreshReachesTenants ==
  \A r \in Requests : task[r].kind = "refresh" /\ outcome[r] = "ok" =>
    \A t \in Licensees :
      /\ r \in updaters[t]
      /\ updaters[t] = {r} => holder[t].license = license[r]

\* Giving a tenant its licence undoes no edit made by others in between to the
\* tenant or to the entries of its configuration: both are read, changed and written
\* whole. The rest of a configuration secret, its other keys and the lines that are
\* no entries, goes with a licence the tenant is given and with nothing else.
EditsAreKept ==
  [][\A t \in Licensees :
       /\ holder'[t].content.entries >= holder[t].content.entries
       /\ \/ holder'[t].content.rest >= holder[t].content.rest
          \/ \E r \in Requests : r \in updaters'[t] /\ work[r] = "update"]_licenseVars

\* The loop attempts again and again, whatever fails, requests save meanwhile
\* and however the console restarts; only three failures in a row end it.
LoopGoesOn == []<>(work["loop"] = "retrieve" \/ ThreeFailed)
=============================================================================
