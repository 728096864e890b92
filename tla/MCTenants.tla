------------------------------- MODULE MCTenants -------------------------------
(***************************************************************************)
(* Requests of the operator console for tenants, for TLC: creations,       *)
(* recreations and certificates, the encryption of a tenant, changes of    *)
(* its specification. They share nothing: a behaviour is about one of them *)
(* and leaves the others as they are.                                      *)
(***************************************************************************)
EXTENDS TenantSecrets, KesSecrets, TenantSpec, TLC

VARIABLE about

tenantVars == <<about, vars, kesVars, specVars>>

Job(kind, t, os, on, ns) ==
  [kind |-> kind, tenant |-> t, options |-> os, pvcs |-> on, remove |-> ns]
Create(t, os) == Job("create", t, os, FALSE, {})
Delete(t, on) == Job("delete", t, {}, on, {})
None == Job("none", "t", {}, FALSE, {})

\* Creations of two tenants of one namespace, and a deletion of one of them.
CreateJobs == {Create("t", {"users", "registry"}), Create("t", {"tls", "ca"}),
               Create("u", {"kes", "ca"}), Delete("t", TRUE)}

\* Deletions beside each other, and beside creations of the tenant.
RecreateJobs == {Create("t", {"tls", "registry"}), Delete("t", TRUE), Delete("t", FALSE)}

\* Certificates added, removed and renewed, and a deletion.
SecurityJobs ==
  {Job("security", "t", os, FALSE, ns) : os \in {{}, {"tls", "ca"}}, ns \in {{}, {<<"t", "cert">>}}}
    \cup {Job("certificates", "t", {"tls"}, FALSE, {}), Delete("t", TRUE)}

\* The certificates of authorities removed beside a recreation of the tenant; or of
\* one of two tenants that may share them, which may get new ones as well.
LateJobs == {Create("t", {"ca"}), Delete("t", TRUE), Job("security", "t", {}, FALSE, {CA})}
AuthorityJobs ==
  LateJobs \cup
    {Create("u", {"ca"}), Job("security", "t", {"ca"}, FALSE, {CA, <<"t", "cert">>})}

\* Creations of a tenant whose integration fails, and a change of its certificates.
FailedJobs == {Create("t", {"registry"}), Job("security", "t", {"tls"}, FALSE, {})}

Scenario(js, first, on) == [jobs |-> js, first |-> first, integration |-> on]

MCScenarios ==
  {Scenario(js, {}, FALSE) : js \in [Requests -> CreateJobs]}
    \cup {Scenario(js, {"t"}, TRUE) :
             js \in [Requests -> RecreateJobs \cup {None}]}
    \cup {Scenario(js, {}, TRUE) : js \in [Requests -> FailedJobs]}
    \cup {Scenario(js, {}, FALSE) : js \in [Requests -> AuthorityJobs]}
    \cup {Scenario(js, {"t"}, FALSE) : js \in [Requests -> LateJobs]}
    \cup {Scenario(js, {"t"}, FALSE) : js \in [Requests -> SecurityJobs]}

\* KES without more, with certificates of its own, and with those of MinIO and for
\* the KMS.
MCShapes == {{}, {"kes", "config"}, {"kes", "config", "server"}, {"kes", "config", "client", "kms"}}

Asks(kind, credentials) ==
  [kind |-> kind, image |-> credentials, registry |-> credentials, prometheus |-> credentials]
MCChanges ==
  {Asks("update", TRUE), Asks("update", FALSE), Asks("addPool", FALSE), Asks("setPools", FALSE),
   Asks("yaml", FALSE)}

\* The requests are interchangeable.
Symmetry == Permutations(Requests)

-----------------------------------------------------------------------------
\* The state of a part the behaviour is not about.
NoSecrets == Init /\ job = [r \in Requests |-> None]
NoKes == KesInit /\ spec = {} /\ keyFiles = [r \in Updates |-> {}]
NoEdit ==
  SpecInit /\ ~tenant.annotations /\ change = [r \in Edits |-> Asks("addPool", FALSE)]

TenantsInit ==
  \/ about = "secrets" /\ Init /\ NoKes /\ NoEdit
  \/ about = "encryption" /\ KesInit /\ NoSecrets /\ NoEdit
  \/ about = "specification" /\ SpecInit /\ NoSecrets /\ NoKes

TenantsNext ==
  /\ UNCHANGED about
  /\ \/ about = "secrets" /\ Next /\ UNCHANGED <<kesVars, specVars>>
     \/ about = "encryption" /\ KesNext /\ UNCHANGED <<vars, specVars>>
     \/ about = "specification" /\ SpecNext /\ UNCHANGED <<vars, kesVars>>

TenantsSpec == TenantsInit /\ [][TenantsNext]_tenantVars
=============================================================================
