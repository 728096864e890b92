------------------------------- MODULE KesSecrets -------------------------------
(***************************************************************************)
(* The encryption of a tenant is updated (tenantUpdateEncryption): its     *)
(* certificates, the certificates KES has for the KMS and its              *)
(* configuration are secrets that cannot be changed, so each is deleted    *)
(* and created anew, and the pods that mount it are restarted. Requests    *)
(* run at once, and their calls may fail or lose their reply.              *)
(***************************************************************************)
EXTENDS Naturals, Sequences

CONSTANTS
  Updates,  \* requests to update the encryption of the tenant
  Shapes    \* what the tenant may refer to, and "kes" when it has KES at all

First == "first"
Nothing == "nothing"

\* The certificate of the KES server, that of MinIO, the configuration of KES, and
\* its certificates for the KMS.
KesNames == {"server", "client", "config", "kms"}

ASSUME UpdatesAssumption ==
  /\ {First, Nothing} \cap Updates = {}
  /\ \A S \in Shapes : S = {} \/ ({"kes", "config"} \subseteq S /\ S \subseteq KesNames \cup {"kes"})

VARIABLES
  spec,      \* what the tenant refers to
  stored,    \* stored[n]: who created the secret there is, or Nothing
  mounted,   \* mounted[n]: which one the pods have
  up,        \* up[k]: the pods of kind k run
  keyFiles,  \* keyFiles[r]: the secrets whose files request r comes with
  kesStep,   \* kesStep[r]: where it is in its plan
  kesAnswer

kesVars == <<spec, stored, mounted, up, keyFiles, kesStep, kesAnswer>>

PodKinds == {"kes", "minio"}
MountedBy(k) == spec \cap (IF k = "minio" THEN {"client"} ELSE {"server", "config", "kms"})

KesTypeOK ==
  /\ spec \in Shapes
  /\ stored \in [KesNames -> Updates \cup {First, Nothing}]
  /\ mounted \in [KesNames -> Updates \cup {First, Nothing}]
  /\ up \in [PodKinds -> BOOLEAN]
  /\ keyFiles \in [Updates -> SUBSET {"server", "client", "kms"}]
  /\ kesStep \in [Updates -> 0 .. 10]
  /\ kesAnswer \in [Updates -> {"none", "ok", "error"}]

\* Files for a certificate that is not the tenant's own are as good as none.
KesInit ==
  /\ spec \in Shapes
  /\ stored = [n \in KesNames |-> IF n \in spec THEN First ELSE Nothing]
  /\ mounted = stored
  /\ up = [k \in PodKinds |-> TRUE]
  /\ keyFiles \in [Updates -> SUBSET ((spec \cap {"server", "client"}) \cup {"kms"})]
  /\ kesStep = [r \in Updates |-> 0]
  /\ kesAnswer = [r \in Updates |-> "none"]

-----------------------------------------------------------------------------
Drop(n) == [do |-> "delete", what |-> n]
Make(n) == [do |-> "create", what |-> n]
Restart(k) == [do |-> "restart", what |-> k]
If(condition, steps) == IF condition THEN steps ELSE <<>>

\* Mutated form of UpdatePlan: KES is restarted before its configuration is there.
UpdatePlanRestartsEarly(r) ==
  If("server" \in spec \cap keyFiles[r], <<Drop("server"), Make("server")>>)
    \o If("client" \in spec \cap keyFiles[r], <<Drop("client"), Make("client"), Restart("minio")>>)
    \o <<Drop("config"), Drop("kms")>>
    \o If("kms" \in keyFiles[r], <<Make("kms")>>)
    \o <<Restart("kes"), Make("config")>>

\* The calls of request r. The certificates for the KMS are written or not as the
\* request says, whatever the tenant refers to.
UpdatePlan(r) ==
  If("server" \in spec \cap keyFiles[r], <<Drop("server"), Make("server")>>)
    \o If("client" \in spec \cap keyFiles[r], <<Drop("client"), Make("client"), Restart("minio")>>)
    \o <<Drop("config"), Drop("kms")>>
    \o If("kms" \in keyFiles[r], <<Make("kms")>>)
    \o <<Make("config"), Restart("kes")>>

NextCall(r) == UpdatePlan(r)[kesStep[r]]
Calls(r, do) == kesStep[r] # 0 /\ kesAnswer[r] = "none" /\ NextCall(r).do = do

KesEnds(r, a) == kesAnswer' = [kesAnswer EXCEPT ![r] = a] /\ UNCHANGED kesStep
KesGoesOn(r) ==
  IF kesStep[r] = Len(UpdatePlan(r)) THEN KesEnds(r, "ok")
  ELSE kesStep' = [kesStep EXCEPT ![r] = @ + 1] /\ UNCHANGED kesAnswer

GetEncryptedTenant(r) ==
  /\ kesStep[r] = 0 /\ kesAnswer[r] = "none"
  /\ IF "kes" \in spec THEN KesGoesOn(r) ELSE KesEnds(r, "ok")
  /\ UNCHANGED <<stored, mounted, up>>

EncryptionFails(r) ==
  /\ kesAnswer[r] = "none" /\ kesStep[r] = 0
  /\ KesEnds(r, "error")
  /\ UNCHANGED <<stored, mounted, up>>

\* An error of the deletion is logged.
DeleteKesSecret(r) ==
  /\ Calls(r, "delete")
  /\ stored' \in {stored, [stored EXCEPT ![NextCall(r).what] = Nothing]}
  /\ KesGoesOn(r)
  /\ UNCHANGED <<mounted, up>>

\* The files of a certificate are looked at before and after the old one is
\* deleted, what the configuration says after that.
InvalidFiles(r) ==
  /\ Calls(r, "create") \/ (Calls(r, "delete") /\ NextCall(r).what \in {"server", "client"})
  /\ KesEnds(r, "error")
  /\ UNCHANGED <<stored, mounted, up>>

\* Mutated form of CreateKesSecret: a secret that exists is no error.
CreateOrKeep(r) ==
  /\ Calls(r, "create")
  /\ LET n == NextCall(r).what
         written == [stored EXCEPT ![n] = IF @ = Nothing THEN r ELSE @] IN
       \/ stored' = written /\ KesGoesOn(r)
       \/ stored' \in {stored, written} /\ KesEnds(r, "error")
  /\ UNCHANGED <<mounted, up>>

CreateKesSecret(r) ==
  /\ Calls(r, "create")
  /\ LET n == NextCall(r).what
         written == [stored EXCEPT ![n] = IF @ = Nothing THEN r ELSE @] IN
       \/ stored[n] = Nothing /\ stored' = written /\ KesGoesOn(r)
       \/ stored' \in {stored, written} /\ KesEnds(r, "error")
  /\ UNCHANGED <<mounted, up>>

DeletePods(r) ==
  /\ Calls(r, "restart")
  /\ \/ up' = [up EXCEPT ![NextCall(r).what] = FALSE] /\ KesGoesOn(r)
     \/ up' \in {up, [up EXCEPT ![NextCall(r).what] = FALSE]} /\ KesEnds(r, "error")
  /\ UNCHANGED <<stored, mounted>>

-----------------------------------------------------------------------------
(* Kubernetes. *)

\* Pods that stopped start once all they mount is there.
PodsStart(k) ==
  /\ ~up[k] /\ \A n \in MountedBy(k) : stored[n] # Nothing
  /\ up' = [up EXCEPT ![k] = TRUE]
  /\ mounted' = [n \in KesNames |-> IF n \in MountedBy(k) THEN stored[n] ELSE mounted[n]]
  /\ UNCHANGED <<stored, kesStep, kesAnswer>>

PodsStop(k) ==
  /\ up[k]
  /\ up' = [up EXCEPT ![k] = FALSE]
  /\ UNCHANGED <<stored, mounted, kesStep, kesAnswer>>

KesNext ==
  /\ UNCHANGED <<spec, keyFiles>>
  /\ \/ \E r \in Updates :
          \/ GetEncryptedTenant(r) \/ EncryptionFails(r) \/ DeleteKesSecret(r)
          \/ InvalidFiles(r) \/ CreateKesSecret(r) \/ DeletePods(r)
     \/ \E k \in PodKinds : PodsStart(k) \/ PodsStop(k)

KesSpec == KesInit /\ [][KesNext]_kesVars

-----------------------------------------------------------------------------
\* Some request runs, or answered with an error.
Reported == \E r \in Updates : kesStep[r] # 0 /\ kesAnswer[r] # "ok"

\* Requests that succeed, however they overlap and though a deletion that fails is
\* only logged, leave KES with a configuration and, if the request that wrote it
\* brought certificates for the KMS, with the very ones it brought. Only a request
\* that comes without them may leave a tenant that refers to them without any; it may
\* as well leave it with older ones, when it could not delete them.
KesAgrees ==
  "kes" \in spec /\ ~Reported =>
    LET w == stored["config"] IN
    /\ w # Nothing
    /\ w # First /\ "kms" \in keyFiles[w] => stored["kms"] = w
    /\ stored["kms"] = Nothing => "kms" \notin spec \/ (w # First /\ "kms" \notin keyFiles[w])

\* A secret written by a request that succeeded, and still there, is the one the
\* pods that mount it have, whatever other requests deleted, wrote and restarted
\* meanwhile.
WrittenIsMounted ==
  \A k \in PodKinds : up[k] => \A n \in MountedBy(k), r \in Updates :
    stored[n] = r /\ kesAnswer[r] = "ok" => mounted[n] = r
=============================================================================
