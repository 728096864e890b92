----------------------------- MODULE TenantSecrets -----------------------------
(***************************************************************************)
(* Tenants of the operator console and the Kubernetes secrets they need: a *)
(* tenant is created secret by secret, its certificates are replaced, it   *)
(* is deleted with its volumes and secrets, by requests that run at once   *)
(* and whose calls may fail or lose their reply.                           *)
(***************************************************************************)
EXTENDS Naturals, Sequences, FiniteSets

CONSTANTS
  Tenants,      \* names of tenants, of one namespace
  Requests,
  Scenarios     \* what the requests ask for, the tenants there are first, and
                \* whether the GKE integration is on

Options == {"users", "tls", "kes", "ca", "registry"}

\* Certificates of authorities have one name in the namespace, whichever tenant
\* they were created with.
CA == <<"", "ca">>

\* A request of kind "none" does not come. A change of certificates removes the
\* ones it names, of its own tenant or not, and those of authorities.
Jobs == [kind : {"create", "delete", "security", "certificates", "none"},
         tenant : Tenants, options : SUBSET Options,
         pvcs : BOOLEAN, remove : SUBSET ((Tenants \X {"cert"}) \cup {CA})]

ASSUME ScenariosAssumption ==
  Scenarios \subseteq [jobs : [Requests -> Jobs], first : SUBSET Tenants,
                       integration : BOOLEAN]

\* The secrets a request names itself have names of their own, and no request is
\* what wrote the first secrets.
ASSUME NamesAssumption == Tenants \cap Requests = {} /\ "first" \notin Requests

VARIABLES
  secrets,  \* the secrets: name, label of its tenant, and the request that wrote it
  tenants,  \* the tenants: name, the secrets it refers to, its resource version: who
            \* created it and how often it was updated since
  claims,   \* the volume claims
  integration,
  job,      \* job[r]: what request r asks for
  pc,
  step,     \* step[r]: the secret it is at, or the claim
  read,     \* read[r]: the tenant it read, as a set
  answer

cluster == <<secrets, tenants, claims>>
vars == <<cluster, integration, job, pc, step, read, answer>>

SecretNames ==
  {CA} \cup (Tenants \X {"secret", "user", "cert", "kes", "regcred", "env"})
       \cup (Requests \X {"cert", "authority"})

Writers == Requests \cup {"first"}
Secrets == [name : SecretNames, tenant : Tenants, by : Writers]
StoredTenants == [name : Tenants, refs : SUBSET SecretNames, version : Writers \X Nat]
Claims  == <<"minio", "log", "prometheus">>

Exists(n)     == \E s \in secrets : s.name = n
Without(n)    == {s \in secrets : s.name # n}
Labelled(t)   == {s \in secrets : s.tenant = t}
Live(t)       == {tn \in tenants : tn.name = t}

\* What a deletion of the secrets of a tenant that fails may leave.
Swept(t) == {secrets \ gone : gone \in SUBSET Labelled(t)}

TypeOK ==
  /\ secrets \subseteq Secrets
  /\ \A s, u \in secrets : s.name = u.name => s = u
  /\ tenants \subseteq StoredTenants
  /\ \A tn, un \in tenants : tn.name = un.name => tn = un
  /\ claims \subseteq Tenants \X {"minio", "log", "prometheus"}
  /\ integration \in BOOLEAN
  /\ job \in [Requests -> Jobs]
  /\ pc \in [Requests -> {"start", "replace", "secret", "tenant", "integrate", "cleanup",
                          "delete", "claims", "secrets", "update", "remove", "restart", "done"}]
  /\ step \in [Requests -> Nat \ {0}]
  /\ read \in [Requests -> SUBSET StoredTenants]
  /\ \A r \in Requests : \A tn, un \in read[r] : tn = un
  /\ answer \in [Requests -> {"none", "ok", "error"}]
  /\ \A r \in Requests : pc[r] = "done" <=> answer[r] # "none"

-----------------------------------------------------------------------------
(* The secrets a request writes, in order. *)

Item(n, how) == [name |-> n, how |-> how]

\* Mutated form of CreationSecrets: the root credentials are replaced too.
CreationSecretsReplaced(t, os) ==
  LET When(option, i) == IF option \in os THEN <<i>> ELSE <<>> IN
  <<Item(<<t, "secret">>, "replace")>>
    \o When("users", Item(<<t, "user">>, "create")) \o When("tls", Item(<<t, "cert">>, "replace"))
    \o When("kes", Item(<<t, "kes">>, "replace")) \o When("ca", Item(CA, "replace"))
    \o When("registry", Item(<<t, "regcred">>, "upsert")) \o <<Item(<<t, "env">>, "replace")>>

\* "create" fails when there is a secret of the name, "replace" deletes it
\* first, "upsert" writes over it.
CreationSecrets(t, os) ==
  LET When(option, i) == IF option \in os THEN <<i>> ELSE <<>> IN
  <<Item(<<t, "secret">>, "create")>>
    \o When("users", Item(<<t, "user">>, "create")) \o When("tls", Item(<<t, "cert">>, "replace"))
    \o When("kes", Item(<<t, "kes">>, "replace")) \o When("ca", Item(CA, "replace"))
    \o When("registry", Item(<<t, "regcred">>, "upsert")) \o <<Item(<<t, "env">>, "replace")>>

\* A change of certificates adds some under names drawn at random.
NewCertificates(r, os) ==
  (IF "tls" \in os THEN <<Item(<<r, "cert">>, "replace")>> ELSE <<>>)
    \o (IF "ca" \in os THEN <<Item(<<r, "authority">>, "replace")>> ELSE <<>>)

Plan(r) ==
  LET j == job[r] IN
  CASE j.kind = "create" -> CreationSecrets(j.tenant, j.options)
    [] j.kind = "security" -> NewCertificates(r, j.options)
    [] j.kind = "certificates" ->
         IF \E tn \in read[r] : \E n \in tn.refs : n[2] = "cert"
           THEN <<Item(<<j.tenant, "cert">>, "replace")>> ELSE <<>>
    [] OTHER -> <<>>

NamesOf(items) == {items[k].name : k \in DOMAIN items}

Init ==
  /\ \E s \in Scenarios :
       /\ job = s.jobs
       /\ integration = s.integration
       /\ secrets = {[name |-> <<t, k>>, tenant |-> t, by |-> "first"] :
                       t \in s.first, k \in {"secret", "cert", "env"}}
       /\ tenants = {[name |-> t, refs |-> {t} \X {"secret", "cert", "env"},
                      version |-> <<"first", 0>>] : t \in s.first}
       /\ claims = s.first \X {"minio", "log", "prometheus"}
  /\ pc = [r \in Requests |-> "start"]
  /\ step = [r \in Requests |-> 1]
  /\ read = [r \in Requests |-> {}]
  /\ answer = [r \in Requests |-> "none"]

Goto(r, l) == pc' = [pc EXCEPT ![r] = l] /\ UNCHANGED answer
Finish(r, a) == pc' = [pc EXCEPT ![r] = "done"] /\ answer' = [answer EXCEPT ![r] = a]

\* Mutated form of Fail: the deletion is deferred before the first secret.
FailDeferred(r) == IF job[r].kind = "create" THEN Goto(r, "cleanup") ELSE Finish(r, "error")

\* An error. The deletion of the secrets of a failed tenant is deferred once
\* the first secret, of the root credentials, is created.
Fail(r) ==
  IF job[r].kind = "create" /\ step[r] > 1 THEN Goto(r, "cleanup") ELSE Finish(r, "error")

\* Item k of the plan, or what follows the secrets.
ToItem(r, k) ==
  LET plan == Plan(r)' IN
  /\ step' = [step EXCEPT ![r] = k]
  /\ Goto(r, IF k <= Len(plan) THEN IF plan[k].how = "replace" THEN "replace" ELSE "secret"
             ELSE CASE job[r].kind = "create" -> "tenant"
                    [] job[r].kind = "security" -> "update"
                    [] OTHER -> "restart")

-----------------------------------------------------------------------------
(* Each request but a creation reads its tenant. *)

BeginCreation(r) ==
  /\ pc[r] = "start" /\ job[r].kind = "create"
  /\ UNCHANGED <<cluster, read>>
  /\ ToItem(r, 1)

GetTenant(r) ==
  /\ pc[r] = "start" /\ job[r].kind \notin {"create", "none"}
  /\ UNCHANGED cluster
  /\ \/ /\ Live(job[r].tenant) # {}
        /\ read' = [read EXCEPT ![r] = Live(job[r].tenant)]
        /\ IF job[r].kind = "delete" THEN Goto(r, "delete") /\ UNCHANGED step ELSE ToItem(r, 1)
     \/ Finish(r, "error") /\ UNCHANGED <<read, step>>

\* A tenant without certificates of its own has none to replace.
NoCertificates(r) ==
  /\ pc[r] = "restart" /\ Plan(r) = <<>>
  /\ Finish(r, "ok")
  /\ UNCHANGED <<cluster, step, read>>

-----------------------------------------------------------------------------
(* createOrReplaceSecrets and its like, and what is created as it is. *)

DeleteOldSecret(r) ==
  /\ pc[r] = "replace"
  /\ secrets' \in {secrets, Without(Plan(r)[step[r]].name)}
  /\ Goto(r, "secret")
  /\ UNCHANGED <<tenants, claims, step, read>>

\* A certificate, a parity or a pool of the request is not valid.
InvalidInput(r) ==
  /\ pc[r] \in {"secret", "replace"}
  /\ step[r] > 1 \/ job[r].kind # "create"
  /\ Fail(r)
  /\ UNCHANGED <<cluster, step, read>>

CreateSecret(r) ==
  /\ pc[r] = "secret"
  /\ UNCHANGED <<tenants, claims, read>>
  /\ LET i == Plan(r)[step[r]]
         written == Without(i.name) \cup {[name |-> i.name, tenant |-> job[r].tenant, by |-> r]}
         refused == i.how # "upsert" /\ Exists(i.name) IN
       \/ ~refused /\ secrets' = written /\ ToItem(r, step[r] + 1)
       \/ /\ secrets' \in IF refused THEN {secrets} ELSE {secrets, written}
          /\ Fail(r)
          /\ UNCHANGED step

-----------------------------------------------------------------------------
(* getTenantCreatedResponse after the secrets. *)

CreateTenant(r) ==
  /\ pc[r] = "tenant"
  /\ LET t == job[r].tenant IN
       \/ /\ Live(t) = {}
          /\ tenants' = tenants \cup {[name |-> t, refs |-> NamesOf(Plan(r)), version |-> <<r, 0>>]}
          /\ claims' = claims \cup ({t} \X {"minio", "log", "prometheus"})
          /\ \/ IF integration THEN Goto(r, "integrate") ELSE Finish(r, "ok")
             \/ Fail(r)
       \/ Fail(r) /\ UNCHANGED <<tenants, claims>>
  /\ UNCHANGED <<secrets, step, read>>

Integrate(r) ==
  /\ pc[r] = "integrate"
  /\ Finish(r, "ok") \/ Fail(r)
  /\ UNCHANGED <<cluster, step, read>>

\* The deferred function: all secrets with the label of the tenant go.
Cleanup(r) ==
  /\ pc[r] = "cleanup"
  /\ secrets' \in Swept(job[r].tenant)
  /\ Finish(r, "error")
  /\ UNCHANGED <<tenants, claims, step, read>>

-----------------------------------------------------------------------------
(* deleteTenantAction. *)

\* Mutated form of DeleteTenant: with volumes, it goes on after every error.
DeleteTenantGoesOn(r) ==
  /\ pc[r] = "delete"
  /\ \/ tenants' = tenants \ Live(job[r].tenant)
     \/ UNCHANGED tenants
  /\ IF job[r].pvcs THEN Goto(r, "claims") ELSE Finish(r, "ok") \/ Finish(r, "error")
  /\ UNCHANGED <<secrets, claims, step, read>>

\* Another error than NotFound ends the deletion; NotFound, without volumes.
DeleteTenant(r) ==
  /\ pc[r] = "delete"
  /\ LET t == job[r].tenant IN
       \/ /\ Live(t) # {}
          /\ tenants' = tenants \ Live(t)
          /\ \/ IF job[r].pvcs THEN Goto(r, "claims") ELSE Finish(r, "ok")
             \/ Finish(r, "error")
       \/ Live(t) = {} /\ job[r].pvcs /\ Goto(r, "claims") /\ UNCHANGED tenants
       \/ Finish(r, "error") /\ UNCHANGED tenants
  /\ UNCHANGED <<secrets, claims, step, read>>

DeleteClaims(r) ==
  /\ pc[r] = "claims"
  /\ \/ /\ claims' = claims \ {<<job[r].tenant, Claims[step[r]]>>}
        /\ IF step[r] < Len(Claims)
             THEN step' = [step EXCEPT ![r] = @ + 1] /\ UNCHANGED <<pc, answer>>
             ELSE Goto(r, "secrets") /\ UNCHANGED step
     \/ /\ claims' \in {claims, claims \ {<<job[r].tenant, Claims[step[r]]>>}}
        /\ Finish(r, "error")
        /\ UNCHANGED step
  /\ UNCHANGED <<secrets, tenants, read>>

DeleteSecrets(r) ==
  /\ pc[r] = "secrets"
  /\ \/ secrets' = secrets \ Labelled(job[r].tenant) /\ Finish(r, "ok")
     \/ secrets' \in Swept(job[r].tenant) /\ Finish(r, "error")
  /\ UNCHANGED <<tenants, claims, step, read>>

-----------------------------------------------------------------------------
(* updateTenantSecurity and tenantUpdateCertificates after the secrets. *)

\* Kubernetes refuses an update of another version than the one it has.
Unchanged(r, tn) == tn \in read[r]

\* The certificates of the tenant and of its authorities without the removed ones,
\* and the new ones.
NewRefs(r, refs) == (refs \ job[r].remove) \cup NamesOf(Plan(r))

UpdateTenant(r) ==
  /\ pc[r] = "update"
  /\ \/ /\ \E tn \in Live(job[r].tenant), old \in read[r] :
             /\ Unchanged(r, tn)
             /\ tenants' = (tenants \ {tn}) \cup
                  {[tn EXCEPT !.refs = NewRefs(r, old.refs), !.version = <<@[1], @[2] + 1>>]}
        /\ Goto(r, "remove") \/ Finish(r, "error")
     \/ Finish(r, "error") /\ UNCHANGED tenants
  /\ UNCHANGED <<secrets, claims, step, read>>

\* What cannot be deleted is logged.
RemoveSecrets(r) ==
  /\ pc[r] = "remove"
  /\ \E gone \in SUBSET job[r].remove : secrets' = {s \in secrets : s.name \notin gone}
  /\ Finish(r, "ok")
  /\ UNCHANGED <<tenants, claims, step, read>>

RestartPods(r) ==
  /\ pc[r] = "restart" /\ Plan(r) # <<>>
  /\ Finish(r, "ok") \/ Finish(r, "error")
  /\ UNCHANGED <<cluster, step, read>>

Step(r) ==
  \/ BeginCreation(r) \/ GetTenant(r) \/ NoCertificates(r)
  \/ DeleteOldSecret(r) \/ InvalidInput(r) \/ CreateSecret(r)
  \/ CreateTenant(r) \/ Integrate(r) \/ Cleanup(r)
  \/ DeleteTenant(r) \/ DeleteClaims(r) \/ DeleteSecrets(r)
  \/ UpdateTenant(r) \/ RemoveSecrets(r) \/ RestartPods(r)

Next == UNCHANGED <<integration, job>> /\ \E r \in Requests : Step(r)

Spec == Init /\ [][Next]_vars

-----------------------------------------------------------------------------
Creates(r, t) == job[r].kind = "create" /\ job[r].tenant = t
Deletes(r, t) == job[r].kind = "delete" /\ job[r].tenant = t
Removes(r, t) == job[r].kind = "security" /\ <<t, "cert">> \in job[r].remove
RemovesCA(r) == job[r].kind = "security" /\ CA \in job[r].remove
Deleted(t) == \E r \in Requests : Deletes(r, t)
AsksForCA(t) == \E c \in Requests : Creates(c, t) /\ "ca" \in job[c].options

\* What takes secrets looks at their names or labels, not at whose they are: a
\* request for another tenant may remove the certificate of t, and where t is
\* deleted and created again, another deletion or a removal may come late.
Contested(t) ==
  \E e \in Requests :
    \/ Removes(e, t) /\ job[e].tenant # t
    \/ /\ Removes(e, t) \/ Deletes(e, t)
       /\ \E c, d \in Requests : Creates(c, t) /\ Deletes(d, t) /\ d # e

\* Tenants share the certificates of authorities: the deletion of another tenant
\* that asked for them takes them, and so does another tenant's change of
\* certificates that removes them, or one of t that comes late, as above.
Shared(t) ==
  \E d \in Requests :
    \/ job[d].kind = "delete" /\ job[d].tenant # t /\ AsksForCA(job[d].tenant)
    \/ RemovesCA(d) /\ (job[d].tenant # t \/ Deleted(t))

\* A request has failed, or cleans up and is answered so.
Trouble(r) == answer[r] = "error" \/ pc[r] = "cleanup"

\* Request r has deleted the secret n to create it again.
Replacing(r, n) ==
  pc[r] = "secret" /\ step[r] \in DOMAIN Plan(r) /\ Plan(r)[step[r]].name = n

\* A tenant that lacks a secret it refers to has a request to show for it that
\* failed, or that is just replacing the secret: requests that succeed, however
\* they overlap, leave every tenant with its secrets, but for a contested tenant
\* and shared certificates of authorities. For those it may be a request for
\* another tenant.
LossIsReported ==
  \A tn \in tenants : \A n \in tn.refs :
    \/ Exists(n) \/ Contested(tn.name) \/ (n = CA /\ Shared(tn.name))
    \/ \E r \in Requests :
         /\ job[r].tenant = tn.name \/ n = CA
         /\ Trouble(r) \/ Replacing(r, n)

Creating(r) ==
  job[r].kind = "create" /\ step[r] > 1 /\ pc[r] # "done"

\* The secret of the root credentials is a lock: two requests are never both
\* past it with one tenant to create, unless the tenant is deleted meanwhile.
OneCreator ==
  \A r, q \in Requests :
    Creating(r) /\ Creating(q) /\ job[r].tenant = job[q].tenant =>
      r = q \/ Deleted(job[r].tenant)

\* Though the cleanup after a failed creation selects the secrets by label only,
\* it deletes what this very request wrote, or what the cleanup of an earlier
\* one, that failed as well, has left: nothing of a tenant there was, of a
\* creation that succeeded or of one that goes on. Unless the tenant is deleted
\* meanwhile; and it takes the certificates another request gave the tenant once it
\* was created.
CleanupIsOwn ==
  [][\A r \in Requests :
       pc[r] = "cleanup" /\ pc'[r] # "cleanup" /\ ~Deleted(job[r].tenant) =>
         \A s \in secrets \ secrets' :
           \/ s.by = r
           \/ \E q \in Requests :
                s.by = q /\ (answer[q] = "error" \/ job[q].kind \in {"security", "certificates"})]_vars
=============================================================================
