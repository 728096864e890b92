----------------------------- MODULE TenantsProofs -----------------------------
(***************************************************************************)
(* Proofs about the requests for tenants that MCTenants checks: the        *)
(* changes of the specification of a tenant (TenantSpec), the updates of   *)
(* its encryption (KesSecrets) and the secrets of the tenants that are     *)
(* created and deleted (TenantSecrets), for any number of requests at      *)
(* once.                                                                   *)
(***************************************************************************)
EXTENDS TenantSecrets, TenantSpec, KesSecrets, Integers, SequenceTheorems, TLAPS

-----------------------------------------------------------------------------
(* Changes of the specification.                                           *)

(* What holds the changes together is the version of the tenant: a request   *)
(* whose copy has the version of the tenant has the tenant itself, so a      *)
(* write that Kubernetes takes replaces nothing its author did not see.      *)

CopiesAreDated ==
  \A r \in Edits :
    /\ seen[r].version <= tenant.version
    /\ seen[r].version = tenant.version => seen[r] = tenant

\* Every update asks for an image and for the credentials to pull it.
AllWithImage ==
  \A r \in Edits : change[r].kind # "yaml" /\ (change[r].kind = "update" => change[r].image /\ change[r].registry)

Succeeded(q) == editPc[q] = "done" /\ editAnswer[q] = "ok"

\* Once the request the credentials are of has written the tenant, its image is
\* there, and no other update is left that read the tenant since and has not
\* written credentials of its own.
CredentialsOwner ==
  AllWithImage =>
    /\ registry = Unset =>
         tenant.image = Unset /\ \A w \in Edits : change[w].kind = "update" => editPc[w] # "write"
    /\ \A q \in Edits : registry = q /\ Succeeded(q) =>
         /\ tenant.image = q
         /\ \A w \in Edits : change[w].kind = "update" /\ editPc[w] = "write" =>
              seen[w].version # tenant.version

\* Credentials are written by updates that ask for it, and an answered request
\* does nothing more.
CredentialsByUpdates ==
  /\ \A r \in Edits : editAnswer[r] # "none" => editPc[r] = "done"
  /\ \A r \in Edits : editPc[r] = "registry" => change[r].registry
  /\ \A r \in Edits : registry = r => change[r].kind = "update"

SpecIInv == SpecTypeOK /\ CopiesAreDated /\ CredentialsOwner /\ CredentialsByUpdates

-----------------------------------------------------------------------------
LEMMA InitialSpecIInv == SpecInit => SpecIInv
  <1> SUFFICES ASSUME SpecInit PROVE SpecIInv
    OBVIOUS
  <1>1. PICK on \in BOOLEAN, scraped \in BOOLEAN :
          tenant = [version |-> 0, image |-> Unset, pools |-> FirstPools,
                    annotated |-> IF scraped THEN FirstPools ELSE {},
                    annotations |-> on, scraped |-> scraped, by |-> Unset]
    BY DEF SpecInit
  <1>2. tenant \in TenantRecords
    <2> DEFINE pooled == IF scraped THEN FirstPools ELSE {}
    <2>1. FirstPools \in SUBSET PoolsOf /\ pooled \in SUBSET PoolsOf
      BY DEF PoolsOf
    <2>2. tenant = [version |-> 0, image |-> Unset, pools |-> FirstPools, annotated |-> pooled,
                    annotations |-> on, scraped |-> scraped, by |-> Unset]
      BY <1>1
    <2> HIDE DEF pooled
    <2> QED BY <2>1, <2>2 DEF TenantRecords
  <1>3. SpecTypeOK
    BY <1>2 DEF SpecInit, SpecTypeOK
  <1>4. CopiesAreDated
    <2>1. \A r \in Edits : seen[r] = tenant
      BY DEF SpecInit
    <2>2. tenant.version = 0
      BY <1>1
    <2>3. \A r \in Edits : seen[r].version = 0
      BY <2>1, <2>2
    <2>4. 0 <= 0
      OBVIOUS
    <2> QED BY <2>1, <2>2, <2>3, <2>4, Zenon DEF CopiesAreDated
  <1>5. CredentialsOwner
    BY <1>1 DEF SpecInit, CredentialsOwner, Succeeded
  <1>6. CredentialsByUpdates
    BY ChangesAssumption DEF SpecInit, CredentialsByUpdates
  <1> QED BY <1>3, <1>4, <1>5, <1>6 DEF SpecIInv

\* What a write makes of the tenant is a tenant, with the next version; only an
\* update sets the image, a YAML whatever it was opened with.
LEMMA WriteIsTyped ==
  ASSUME SpecTypeOK, NEW r \in Edits, NEW t \in Wanted(r)
  PROVE  /\ Merged(r, t) \in TenantRecords
         /\ Merged(r, t).version = tenant.version + 1
         /\ Merged(r, t).image = t.image /\ Merged(r, t).pools = t.pools
  <1>1. change[r] \in Change /\ seen[r] \in TenantRecords /\ view[r] \in TenantRecords
        /\ tenant \in TenantRecords /\ r \in PoolsOf
    BY ChangesAssumption DEF SpecTypeOK, PoolsOf
  <1>2. t \in TenantRecords
    <2>1. CASE change[r].kind = "update"
      <3>1. PICK i \in (IF change[r].image THEN {r} ELSE {r, seen[r].image}) : t = Updated(r, i)
        BY <2>1 DEF Wanted
      <3>2. i \in Edits \cup {Unset}
        BY <1>1, <3>1 DEF TenantRecords
      <3> QED BY <1>1, <3>1, <3>2 DEF Updated, TenantRecords, Change
    <2>2. CASE change[r].kind = "addPool"
      BY <1>1, <2>2 DEF Wanted, TenantRecords
    <2>3. CASE change[r].kind = "setPools"
      <3>1. {r} \in SUBSET PoolsOf /\ {} \in SUBSET PoolsOf
        BY <1>1
      <3>2. t = [seen[r] EXCEPT !.pools = {r}, !.annotated = {}]
        BY <2>3 DEF Wanted
      <3> QED BY <1>1, <3>1, <3>2 DEF TenantRecords
    <2>4. CASE change[r].kind = "yaml"
      BY <1>1, <2>4 DEF Wanted, TenantRecords
    <2> QED BY <1>1, <2>1, <2>2, <2>3, <2>4 DEF Change
  <1>3. tenant.version + 1 \in Nat
    BY <1>1 DEF TenantRecords
  <1>4. (t.scraped \/ (change[r].kind # "yaml" /\ tenant.scraped)) \in BOOLEAN
    OBVIOUS
  <1> QED BY <1>1, <1>2, <1>3, <1>4 DEF Merged, TenantRecords

LEMMA OpenYAMLKeeps == ASSUME SpecIInv, NEW r \in Edits, OpenYAML(r), UNCHANGED change PROVE SpecIInv'
  <1>1. SpecTypeOK'
    BY DEF SpecIInv, SpecTypeOK, OpenYAML, EditGoto
  <1>2. CopiesAreDated'
    BY DEF SpecIInv, CopiesAreDated, OpenYAML
  <1>3. CredentialsOwner'
    BY DEF SpecIInv, SpecTypeOK, CredentialsOwner, AllWithImage, Succeeded, OpenYAML, EditGoto
  <1>4. CredentialsByUpdates'
    BY ChangesAssumption DEF SpecIInv, SpecTypeOK, CredentialsByUpdates, OpenYAML, EditGoto, EditEnds
  <1> QED BY <1>1, <1>2, <1>3, <1>4 DEF SpecIInv

LEMMA ReadTenantKeeps == ASSUME SpecIInv, NEW r \in Edits, ReadTenant(r), UNCHANGED change PROVE SpecIInv'
  <1>1. SpecTypeOK'
    BY DEF SpecIInv, SpecTypeOK, ReadTenant, EditGoto, EditEnds
  <1>2. CopiesAreDated'
    BY DEF SpecIInv, SpecTypeOK, TenantRecords, CopiesAreDated, ReadTenant
  <1>3. CredentialsOwner'
    BY DEF SpecIInv, SpecTypeOK, CredentialsOwner, AllWithImage, Succeeded, ReadTenant, EditGoto, EditEnds
  <1>4. CredentialsByUpdates'
    BY ChangesAssumption DEF SpecIInv, SpecTypeOK, CredentialsByUpdates, ReadTenant, EditGoto, EditEnds
  <1> QED BY <1>1, <1>2, <1>3, <1>4 DEF SpecIInv

LEMMA SetImageRegistryKeeps ==
  ASSUME SpecIInv, NEW r \in Edits, SetImageRegistry(r), UNCHANGED change PROVE SpecIInv'
  <1>1. SpecTypeOK'
    BY DEF SpecIInv, SpecTypeOK, SetImageRegistry, EditGoto, EditEnds
  <1>2. CopiesAreDated'
    BY DEF SpecIInv, CopiesAreDated, SetImageRegistry
  <1>3. CredentialsOwner'
    BY ChangesAssumption DEF SpecIInv, SpecTypeOK, CredentialsOwner, AllWithImage, Succeeded, SetImageRegistry,
      EditGoto, EditEnds
  <1>4. CredentialsByUpdates'
    BY ChangesAssumption DEF SpecIInv, SpecTypeOK, CredentialsByUpdates, SetImageRegistry, EditGoto, EditEnds
  <1> QED BY <1>1, <1>2, <1>3, <1>4 DEF SpecIInv

\* A write that is taken is of the tenant there is: everybody else's copy is old
\* from then on.
LEMMA WriteTenantKeeps ==
  ASSUME SpecIInv, NEW r \in Edits, WriteTenant(r), UNCHANGED change PROVE SpecIInv'
  <1>1. CASE UNCHANGED tenant
    <2>1. editPc[r] = "write" /\ EditEnds(r, "error") /\ UNCHANGED <<registry, view, seen>>
      <3>1. SUFFICES ASSUME SameVersion(r), NEW t \in Wanted(r), tenant' = Merged(r, t) PROVE FALSE
        BY DEF WriteTenant
      <3>2. Merged(r, t).version = tenant.version + 1 /\ tenant.version \in Nat
        BY WriteIsTyped DEF SpecIInv, SpecTypeOK, TenantRecords
      <3> QED BY <1>1, <3>1, <3>2
    <2> QED BY <1>1, <2>1 DEF SpecIInv, SpecTypeOK, CopiesAreDated, CredentialsOwner, AllWithImage, Succeeded,
          EditEnds, CredentialsByUpdates
  <1>2. ASSUME SameVersion(r), NEW t \in Wanted(r), tenant' = Merged(r, t),
               EditEnds(r, "ok") \/ EditEnds(r, "error")
        PROVE  SpecIInv'
    <2>0. editPc[r] = "write" /\ UNCHANGED <<registry, view, seen, change>>
      BY DEF WriteTenant
    <2>1. /\ tenant' \in TenantRecords /\ tenant'.version = tenant.version + 1
          /\ tenant'.image = t.image
      BY <1>2, WriteIsTyped DEF SpecIInv
    <2>2. SpecTypeOK'
      BY <1>2, <2>0, <2>1 DEF SpecIInv, SpecTypeOK, EditEnds, TenantRecords
    <2>3. \A w \in Edits : seen[w].version < tenant'.version
      BY <2>1 DEF SpecIInv, SpecTypeOK, TenantRecords, CopiesAreDated
    <2>4. CopiesAreDated'
      BY <2>0, <2>1, <2>3 DEF SpecIInv, SpecTypeOK, TenantRecords, CopiesAreDated
    <2>5. CredentialsOwner'
      <3> SUFFICES ASSUME AllWithImage PROVE CredentialsOwner'
        BY <2>0 DEF CredentialsOwner, AllWithImage
      <3>1. seen[r] = tenant /\ change[r] \in Change
        BY <1>2, ChangesAssumption DEF SpecIInv, SpecTypeOK, CopiesAreDated, SameVersion
      <3>2. tenant'.image = IF change[r].kind = "update" THEN r ELSE tenant.image
        <4>1. CASE change[r].kind = "update"
          <5>1. change[r].image
            BY <4>1 DEF AllWithImage
          <5>2. t = Updated(r, r)
            BY <4>1, <5>1 DEF Wanted
          <5> QED BY <2>1, <3>1, <4>1, <5>2 DEF Updated, SpecIInv, SpecTypeOK, TenantRecords
        <4>2. CASE change[r].kind # "update"
          <5>1. change[r].kind \in {"addPool", "setPools"}
            BY <3>1, <4>2 DEF AllWithImage, Change
          <5> QED BY <2>1, <3>1, <5>1 DEF Wanted, SpecIInv, SpecTypeOK, TenantRecords
        <4> QED BY <4>1, <4>2
      <3>3. registry = Unset => change[r].kind # "update" /\ tenant.image = Unset
        BY <2>0 DEF SpecIInv, CredentialsOwner
      <3>4. \A w \in Edits : editPc'[w] = "write" => editPc[w] = "write"
        BY <1>2 DEF SpecIInv, SpecTypeOK, EditEnds
      <3>5. ASSUME NEW q \in Edits, registry = q, Succeeded(q)' PROVE tenant'.image = q
        <4>1. CASE q = r
          <5>1. CASE change[r].kind = "update"
            BY <3>2, <4>1, <5>1
          <5>2. CASE change[r].kind # "update"
            BY <3>5, <4>1, <5>2 DEF SpecIInv, CredentialsByUpdates
          <5> QED BY <5>1, <5>2
        <4>2. CASE q # r
          <5>1. Succeeded(q)
            BY <1>2, <3>5, <4>2 DEF SpecIInv, SpecTypeOK, EditEnds, Succeeded
          <5>2. change[r].kind # "update" /\ tenant.image = q
            BY <1>2, <2>0, <3>5, <5>1 DEF SpecIInv, CredentialsOwner, SameVersion
          <5> QED BY <3>2, <5>2
        <4> QED BY <4>1, <4>2
      <3> QED BY <2>0, <2>3, <3>2, <3>3, <3>4, <3>5 DEF CredentialsOwner, SpecIInv, SpecTypeOK, TenantRecords
    <2>6. CredentialsByUpdates'
      BY <1>2, <2>0 DEF SpecIInv, SpecTypeOK, CredentialsByUpdates, EditEnds
    <2> QED BY <2>2, <2>4, <2>5, <2>6 DEF SpecIInv
  <1> QED BY <1>1, <1>2 DEF WriteTenant

LEMMA StepKeepsSpecIInv == SpecIInv /\ [SpecNext]_specVars => SpecIInv'
  <1> SUFFICES ASSUME SpecIInv, [SpecNext]_specVars PROVE SpecIInv'
    OBVIOUS
  <1>1. CASE UNCHANGED specVars
    BY <1>1 DEF SpecIInv, SpecTypeOK, TenantRecords, CopiesAreDated, CredentialsOwner, AllWithImage, Succeeded,
      CredentialsByUpdates, specVars
  <1>2. ASSUME NEW r \in Edits, UNCHANGED change,
               OpenYAML(r) \/ ReadTenant(r) \/ SetImageRegistry(r) \/ WriteTenant(r)
        PROVE  SpecIInv'
    BY <1>2, OpenYAMLKeeps, ReadTenantKeeps, SetImageRegistryKeeps, WriteTenantKeeps
  <1> QED BY <1>1, <1>2 DEF SpecNext

LEMMA SpecInvariant == SpecSpec => []SpecIInv
  BY InitialSpecIInv, StepKeepsSpecIInv, PTL DEF SpecSpec

\* Every variable of TenantSpec keeps its type, whatever the requests ask for.
THEOREM SpecTypeCorrect == SpecSpec => []SpecTypeOK
  <1>1. SpecIInv => SpecTypeOK
    BY DEF SpecIInv
  <1> QED BY <1>1, SpecInvariant, PTL

\* When all the updates ask for an image and for the credentials to pull it and all
\* requests succeed, the tenant has the image and the credentials of the same one
\* (updateTenantAction), however many there are.
THEOREM ImageHasItsCredentials == SpecSpec => []ImageAndRegistryAgree
  <1>1. ASSUME SpecIInv PROVE ImageAndRegistryAgree
    <2> SUFFICES ASSUME \A r \in Edits : editAnswer[r] = "ok" /\ change[r].kind # "yaml",
                        \A r \in Edits : change[r].kind = "update" => change[r].registry /\ change[r].image
                 PROVE  tenant.image = registry
      BY DEF ImageAndRegistryAgree
    <2>1. AllWithImage
      BY DEF AllWithImage
    <2>2. CASE registry = Unset
      BY <1>1, <2>1, <2>2 DEF SpecIInv, CredentialsOwner
    <2>3. CASE registry \in Edits
      BY <1>1, <2>1, <2>3 DEF SpecIInv, CredentialsOwner, CredentialsByUpdates, Succeeded
    <2> QED BY <1>1, <2>2, <2>3 DEF SpecIInv, SpecTypeOK
  <1> QED BY <1>1, SpecInvariant, PTL

\* Pools disappear only when the pools are replaced, or by a YAML opened before
\* they were there (TenantAddPool, tenantUpdatePools, updateTenantAction and
\* PutTenantYAML writing the copy they read).
THEOREM PoolsAreKept == SpecSpec => PoolsGoOnRequest
  <1> DEFINE Kept == \A p \in tenant.pools \ tenant'.pools : \E r \in Edits :
                       /\ editPc[r] = "write" /\ editPc'[r] = "done"
                       /\ \/ change[r].kind = "setPools"
                          \/ change[r].kind = "yaml" /\ p \notin view[r].pools
  <1>1. ASSUME SpecIInv, [SpecNext]_specVars PROVE Kept
    <2> SUFFICES ASSUME NEW p \in tenant.pools \ tenant'.pools
                 PROVE  \E r \in Edits :
                          /\ editPc[r] = "write" /\ editPc'[r] = "done"
                          /\ \/ change[r].kind = "setPools"
                             \/ change[r].kind = "yaml" /\ p \notin view[r].pools
      BY DEF Kept
    <2>1. PICK r \in Edits : WriteTenant(r) /\ UNCHANGED change
      BY <1>1 DEF SpecNext, specVars, OpenYAML, ReadTenant, SetImageRegistry
    <2>2. PICK t \in Wanted(r) : SameVersion(r) /\ tenant' = Merged(r, t)
      BY <2>1 DEF WriteTenant
    <2>3. editPc[r] = "write" /\ editPc'[r] = "done"
      BY <1>1, <2>1 DEF WriteTenant, EditEnds, SpecIInv, SpecTypeOK
    <2>4. seen[r] = tenant /\ change[r] \in Change /\ seen[r] \in TenantRecords /\ view[r] \in TenantRecords
      BY <1>1, <2>2, ChangesAssumption DEF SpecIInv, SpecTypeOK, CopiesAreDated, SameVersion
    <2>5. p \notin t.pools /\ p \in seen[r].pools
      BY <1>1, <2>2, <2>4, WriteIsTyped DEF SpecIInv
    <2>6. CASE change[r].kind = "update"
      <3>1. PICK i \in (IF change[r].image THEN {r} ELSE {r, seen[r].image}) : t = Updated(r, i)
        BY <2>2, <2>6 DEF Wanted
      <3> QED BY <2>4, <2>5, <3>1 DEF Updated, TenantRecords
    <2>7. CASE change[r].kind = "addPool"
      BY <2>2, <2>4, <2>5, <2>7 DEF Wanted, TenantRecords
    <2>8. CASE change[r].kind = "setPools"
      BY <2>3, <2>8
    <2>9. CASE change[r].kind = "yaml"
      <3>1. t = [view[r] EXCEPT !.image = r]
        BY <2>2, <2>9 DEF Wanted
      <3>2. t.pools = view[r].pools
        BY <2>4, <3>1 DEF TenantRecords
      <3> QED BY <2>3, <2>5, <2>9, <3>2
    <2> QED BY <2>4, <2>6, <2>7, <2>8, <2>9 DEF Change
  <1>2. SpecIInv /\ [SpecNext]_specVars => [Kept]_specVars
    BY <1>1
  <1> QED BY <1>2, SpecInvariant, PTL DEF SpecSpec, PoolsGoOnRequest

-----------------------------------------------------------------------------
(* Updates of the encryption. The calls a request makes one after the other *)
(* are a sequence; what follows is about which call comes after which.      *)

KesCalls == [do : {"delete", "create", "restart"}, what : KesNames \cup PodKinds]

\* The call after a call.
Follows(r, c, d) ==
  \/ c = Drop("server") /\ d = Make("server")
  \/ c = Make("server") /\ d \in {Drop("client"), Drop("config")}
  \/ c = Drop("client") /\ d = Make("client")
  \/ c = Make("client") /\ d = Restart("minio")
  \/ c = Restart("minio") /\ d = Drop("config")
  \/ c = Drop("config") /\ d = Drop("kms")
  \/ c = Drop("kms") /\ "kms" \in keyFiles[r] /\ d = Make("kms")
  \/ c = Drop("kms") /\ "kms" \notin keyFiles[r] /\ d = Make("config")
  \/ c = Make("kms") /\ d = Make("config")
  \/ c = Make("config") /\ d = Restart("kes")

Chain(r, p) ==
  /\ p \in Seq(KesCalls)
  /\ \A i \in 1 .. Len(p) - 1 : Follows(r, p[i], p[i + 1])

\* Concatenation and length, which the provers need not look into everywhere.
Joined(p, q) == p \o q
Size(p) == Len(p)

Joinable(r, p, q) ==
  Chain(r, p) /\ Chain(r, q) /\ Size(q) > 0 /\ (Size(p) = 0 \/ Follows(r, p[Size(p)], q[1]))

IsJoined(r, p, q, z) ==
  /\ Chain(r, z) /\ Size(z) = Size(p) + Size(q)
  /\ Size(p) = 0 => z[1] = q[1]
  /\ Size(p) # 0 => z[1] = p[1]
  /\ z[Size(z)] = q[Size(q)]

LEMMA ChainConcat ==
  ASSUME NEW r, NEW p, NEW q, Joinable(r, p, q)
  PROVE  IsJoined(r, p, q, Joined(p, q))
<1> USE DEF Joinable, Size
<1>1. p \in Seq(KesCalls) /\ q \in Seq(KesCalls)
  BY DEF Chain
<1>2. /\ p \o q \in Seq(KesCalls) /\ Len(p \o q) = Len(p) + Len(q)
      /\ \A i \in 1 .. Len(p) + Len(q) : (p \o q)[i] = IF i <= Len(p) THEN p[i] ELSE q[i - Len(p)]
  BY <1>1, ConcatProperties
<1>3. Len(p) \in Nat /\ Len(q) \in Nat
  BY <1>1, LenProperties
<1>4. ASSUME NEW i \in 1 .. Len(p \o q) - 1
      PROVE  Follows(r, (p \o q)[i], (p \o q)[i + 1])
  <2>1. CASE i < Len(p)
    <3>1. Follows(r, p[i], p[i + 1])
      BY <1>3, <2>1 DEF Chain
    <3>2. (p \o q)[i] = p[i] /\ (p \o q)[i + 1] = p[i + 1]
      BY <1>2, <1>3, <2>1
    <3> QED
      BY <3>1, <3>2
  <2>2. CASE i = Len(p)
    <3>1. Follows(r, p[Len(p)], q[1])
      BY <2>2
    <3>2. (p \o q)[i] = p[Len(p)] /\ (p \o q)[i + 1] = q[1]
      BY <1>2, <1>3, <2>2
    <3> QED
      BY <3>1, <3>2
  <2>3. CASE i > Len(p)
    <3>1. i - Len(p) \in 1 .. Len(q) - 1
      BY <1>2, <1>3, <2>3
    <3>2. Follows(r, q[i - Len(p)], q[i - Len(p) + 1])
      BY <3>1 DEF Chain
    <3>3. (p \o q)[i] = q[i - Len(p)] /\ (p \o q)[i + 1] = q[i - Len(p) + 1]
      BY <1>2, <1>3, <2>3, <3>1
    <3> QED
      BY <3>2, <3>3
  <2> QED
    BY <1>2, <1>3, <2>1, <2>2, <2>3
<1>5. Chain(r, p \o q)
  BY <1>2, <1>4 DEF Chain
<1>6. /\ Len(p) = 0 => (p \o q)[1] = q[1]
      /\ Len(p) # 0 => (p \o q)[1] = p[1]
      /\ (p \o q)[Len(p) + Len(q)] = q[Len(q)]
  BY <1>2, <1>3
<1> QED
  BY <1>2, <1>5, <1>6 DEF Joined, IsJoined

LEMMA FollowsAre ==
  ASSUME NEW r
  PROVE  /\ Follows(r, Drop("server"), Make("server"))
         /\ Follows(r, Make("server"), Drop("client")) /\ Follows(r, Make("server"), Drop("config"))
         /\ Follows(r, Drop("client"), Make("client")) /\ Follows(r, Make("client"), Restart("minio"))
         /\ Follows(r, Restart("minio"), Drop("config")) /\ Follows(r, Drop("config"), Drop("kms"))
         /\ IF "kms" \in keyFiles[r] THEN Follows(r, Drop("kms"), Make("kms"))
                                      ELSE Follows(r, Drop("kms"), Make("config"))
         /\ Follows(r, Make("kms"), Make("config")) /\ Follows(r, Make("config"), Restart("kes"))
  BY DEF Follows

LEMMA ChainOfTwo ==
  ASSUME NEW r, NEW c \in KesCalls, NEW d \in KesCalls, Follows(r, c, d)
  PROVE  Chain(r, <<>>) /\ Chain(r, <<c>>) /\ Chain(r, <<c, d>>)
  BY DEF Chain

LEMMA ChainOfThree ==
  ASSUME NEW r, NEW c \in KesCalls, NEW d \in KesCalls, NEW e \in KesCalls,
         Follows(r, c, d), Follows(r, d, e)
  PROVE  Chain(r, <<c, d, e>>)
  BY DEF Chain

LEMMA ConcatNothing == ASSUME NEW r, NEW p, Chain(r, p) PROVE Joined(p, <<>>) = p
  BY ConcatEmptySeq DEF Chain, Joined

LEMMA PlanIs ==
  ASSUME NEW r
  PROVE  LET p == UpdatePlan(r) IN
         /\ Chain(r, p) /\ Size(p) \in 4 .. 10
         /\ p[1] \in {Drop("server"), Drop("client"), Drop("config")}
         /\ p[Size(p)] = Restart("kes")
<1> DEFINE a == If("server" \in spec \cap keyFiles[r], <<Drop("server"), Make("server")>>)
           b == If("client" \in spec \cap keyFiles[r], <<Drop("client"), Make("client"), Restart("minio")>>)
           c == <<Drop("config"), Drop("kms")>>
           d == If("kms" \in keyFiles[r], <<Make("kms")>>)
           e == <<Make("config"), Restart("kes")>>
           ab == Joined(a, b)
           abc == Joined(ab, c)
           abcd == Joined(abc, d)
<1>0. UpdatePlan(r) = Joined(abcd, e)
  BY DEF UpdatePlan, Joined
<1>1. /\ Drop("server") \in KesCalls /\ Make("server") \in KesCalls
      /\ Drop("client") \in KesCalls /\ Make("client") \in KesCalls /\ Restart("minio") \in KesCalls
      /\ Drop("config") \in KesCalls /\ Drop("kms") \in KesCalls /\ Make("kms") \in KesCalls
      /\ Make("config") \in KesCalls /\ Restart("kes") \in KesCalls
  BY DEF KesCalls, KesNames, PodKinds, Drop, Make, Restart
<1>2. Chain(r, a) /\ (a = <<>> \/ (Size(a) = 2 /\ a[1] = Drop("server") /\ a[2] = Make("server")))
  BY <1>1, FollowsAre, ChainOfTwo DEF If, Size
<1>3. Chain(r, b) /\ (b = <<>> \/ (Size(b) = 3 /\ b[1] = Drop("client") /\ b[3] = Restart("minio")))
  BY <1>1, FollowsAre, ChainOfTwo, ChainOfThree DEF If, Size
<1>4. Chain(r, c) /\ Size(c) = 2 /\ c[1] = Drop("config") /\ c[2] = Drop("kms")
  BY <1>1, FollowsAre, ChainOfTwo DEF Size
<1>5. IF "kms" \in keyFiles[r] THEN Chain(r, d) /\ Size(d) = 1 /\ d[1] = Make("kms") ELSE d = <<>>
  <2>1. Chain(r, <<Make("kms")>>)
    BY <1>1, FollowsAre, ChainOfTwo
  <2> QED
    BY <2>1 DEF If, Size
<1>6. Chain(r, e) /\ Size(e) = 2 /\ e[1] = Make("config") /\ e[2] = Restart("kes")
  BY <1>1, FollowsAre, ChainOfTwo DEF Size
<1> HIDE DEF a, b, c, d, e
<1>7. /\ Size(a) \in {0, 2} /\ (Size(a) # 0 => a[1] = Drop("server") /\ a[Size(a)] = Make("server"))
      /\ b # <<>> => Size(b) = 3 /\ b[1] = Drop("client") /\ b[Size(b)] = Restart("minio")
  BY <1>2, <1>3 DEF Size
<1>8. /\ Chain(r, ab) /\ Size(ab) \in {0, 2, 3, 5}
      /\ Size(ab) # 0 => /\ ab[1] \in {Drop("server"), Drop("client")}
                        /\ ab[Size(ab)] \in {Make("server"), Restart("minio")}
  <2>1. CASE b = <<>>
    <3>1. ab = a
      BY <1>2, <2>1, ConcatNothing
    <3> QED
      BY <1>2, <1>7, <3>1
  <2>2. CASE b # <<>>
    <3>1. Joinable(r, a, b)
      BY <1>2, <1>3, <1>7, <2>2, FollowsAre DEF Joinable
    <3>2. IsJoined(r, a, b, ab)
      BY <3>1, ChainConcat
    <3> HIDE DEF ab
    <3>3. Size(ab) \in {3, 5}
      BY <1>7, <2>2, <3>2 DEF IsJoined
    <3>4. ab[1] \in {Drop("server"), Drop("client")} /\ ab[Size(ab)] = Restart("minio")
      BY <1>7, <2>2, <3>2 DEF IsJoined
    <3>5. Chain(r, ab)
      BY <3>2 DEF IsJoined
    <3> QED
      BY <3>3, <3>4, <3>5
  <2> QED
    BY <2>1, <2>2
<1> HIDE DEF ab
<1>9. IsJoined(r, ab, c, abc)
  <2>1. Joinable(r, ab, c)
    BY <1>4, <1>8, FollowsAre DEF Joinable
  <2> QED
    BY <2>1, ChainConcat
<1> HIDE DEF abc
<1>10. /\ Chain(r, abc) /\ Size(abc) = Size(ab) + 2
       /\ abc[1] \in {Drop("server"), Drop("client"), Drop("config")}
       /\ abc[Size(abc)] = Drop("kms")
  BY <1>4, <1>8, <1>9 DEF IsJoined
<1>11. /\ Chain(r, abcd) /\ Size(abcd) \in 2 .. 8 /\ abcd[1] = abc[1]
       /\ Follows(r, abcd[Size(abcd)], Make("config"))
  <2>0. Size(abc) \in {2, 4, 5, 7}
    BY <1>8, <1>10
  <2>1. CASE "kms" \notin keyFiles[r]
    <3>1. abcd = abc
      BY <1>5, <1>10, <2>1, ConcatNothing
    <3>2. Follows(r, abc[Size(abc)], Make("config"))
      BY <1>10, <2>1, FollowsAre
    <3> QED
      BY <1>10, <2>0, <3>1, <3>2
  <2>2. CASE "kms" \in keyFiles[r]
    <3>1. Joinable(r, abc, d)
      <4>1. Follows(r, abc[Size(abc)], d[1])
        BY <1>5, <1>10, <2>2, FollowsAre
      <4> QED
        BY <1>5, <1>10, <2>2, <4>1 DEF Joinable
    <3>2. IsJoined(r, abc, d, abcd)
      BY <3>1, ChainConcat
    <3>3. Follows(r, d[Size(d)], Make("config"))
      BY <1>5, <2>2, FollowsAre
    <3> HIDE DEF abcd
    <3> QED
      BY <1>5, <2>0, <2>2, <3>2, <3>3 DEF IsJoined
  <2> QED
    BY <2>1, <2>2
<1> HIDE DEF abcd
<1> DEFINE p == Joined(abcd, e)
<1>12. IsJoined(r, abcd, e, p)
  <2>1. Joinable(r, abcd, e)
    BY <1>6, <1>11 DEF Joinable
  <2> QED
    BY <2>1, ChainConcat
<1>13. UpdatePlan(r) = p
  BY <1>0
<1> HIDE DEF p
<1> QED
  BY <1>6, <1>10, <1>11, <1>12, <1>13 DEF IsJoined

-----------------------------------------------------------------------------
(* The inductive invariant. *)

Started(r) == kesStep[r] # 0
At(r, do, n) == NextCall(r).do = do /\ NextCall(r).what = n

\* r has deleted the configuration, or tried to, and not written its own yet.
Between(r) ==
  /\ Started(r) /\ kesAnswer[r] = "none"
  /\ At(r, "delete", "kms") \/ At(r, "create", "kms") \/ At(r, "create", "config")
SomeBetween == \E r \in Updates : Between(r)
Failed == \E r \in Updates : Started(r) /\ kesAnswer[r] = "error"

StepsOK ==
  \A r \in Updates :
    /\ kesStep[r] \in 0 .. Size(UpdatePlan(r))
    /\ Started(r) => "kes" \in spec
    /\ kesAnswer[r] = "ok" => IF Started(r) THEN At(r, "restart", "kes") ELSE "kes" \notin spec

\* r has restarted the pods of kind k.
Restarted(r, k) ==
  IF k = "kes" THEN kesAnswer[r] = "ok"
  ELSE \/ At(r, "delete", "config") \/ At(r, "delete", "kms") \/ At(r, "create", "kms")
       \/ At(r, "create", "config") \/ At(r, "restart", "kes")

\* Whose certificate of MinIO there is has its pods to restart next or has done so;
\* whose configuration there is has only the restart of KES left.
WritersOK ==
  \A r \in Updates :
    /\ \A n \in KesNames : stored[n] = r => Started(r)
    /\ stored["client"] = r =>
         kesAnswer[r] = "error" \/ At(r, "restart", "minio") \/ Restarted(r, "minio")
    /\ stored["config"] = r => kesAnswer[r] = "error" \/ At(r, "restart", "kes")

\* The configuration and the certificates for the KMS belong together unless some
\* request is between the two, and about to write both.
NoConfigBetween == stored["config"] = Nothing => SomeBetween
FirstConfigOK == stored["config"] = First /\ "kms" \in spec => stored["kms"] # Nothing \/ SomeBetween
ConfigOK ==
  \A w \in Updates :
    stored["config"] = w /\ "kms" \in keyFiles[w] => stored["kms"] = w \/ SomeBetween
AboutToConfigOK ==
  \A w \in Updates :
    Started(w) /\ kesAnswer[w] = "none" /\ At(w, "create", "config") /\ "kms" \in keyFiles[w] =>
      \/ stored["kms"] = w \/ stored["config"] # Nothing
      \/ \E p \in Updates \ {w} : Between(p)

Together ==
  "kes" \in spec /\ ~Failed => NoConfigBetween /\ FirstConfigOK /\ ConfigOK /\ AboutToConfigOK

MountedOK ==
  \A k \in PodKinds : up[k] => \A n \in MountedBy(k), r \in Updates :
    stored[n] = r /\ Restarted(r, k) => mounted[n] = r

KesIInv == KesTypeOK /\ StepsOK /\ WritersOK /\ Together /\ MountedOK

-----------------------------------------------------------------------------
(* Where a request goes. *)

\* What does not change for the requests that take no step.
OthersStay(r) ==
  \A q \in Updates \ {r} :
    kesStep'[q] = kesStep[q] /\ kesAnswer'[q] = kesAnswer[q] /\ NextCall(q)' = NextCall(q)

LEMMA PlanStays == ASSUME NEW r, UNCHANGED <<spec, keyFiles>> PROVE UpdatePlan(r)' = UpdatePlan(r)
  BY DEF UpdatePlan, If, Drop, Make, Restart

LEMMA Ending ==
  ASSUME KesTypeOK, StepsOK, NEW r \in Updates, NEW a \in {"ok", "error"}, KesEnds(r, a),
         UNCHANGED <<spec, keyFiles>>
  PROVE  /\ OthersStay(r) /\ kesStep' = kesStep /\ NextCall(r)' = NextCall(r)
         /\ kesAnswer' = [kesAnswer EXCEPT ![r] = a] /\ kesAnswer'[r] = a
         /\ kesAnswer' \in [Updates -> {"none", "ok", "error"}]
<1>1. \A q \in Updates : NextCall(q)' = NextCall(q)
  BY PlanStays DEF NextCall, KesEnds
<1> QED
  BY <1>1 DEF KesEnds, OthersStay, KesTypeOK

LEMMA GoingOn ==
  ASSUME KesTypeOK, StepsOK, NEW r \in Updates, KesGoesOn(r), UNCHANGED <<spec, keyFiles>>
  PROVE  /\ OthersStay(r)
         /\ kesStep' \in [Updates -> 0 .. 10] /\ kesAnswer' \in [Updates -> {"none", "ok", "error"}]
         /\ kesStep'[r] \in 1 .. Size(UpdatePlan(r))
         /\ \/ /\ Started(r) /\ NextCall(r) = Restart("kes") /\ NextCall(r)' = NextCall(r)
               /\ kesAnswer'[r] = "ok"
            \/ /\ kesAnswer'[r] = kesAnswer[r]
               /\ ~Started(r) => NextCall(r)' \in {Drop("server"), Drop("client"), Drop("config")}
               /\ Started(r) => Follows(r, NextCall(r), NextCall(r)')
<1> DEFINE p == UpdatePlan(r)
<1>1. /\ Chain(r, p) /\ Size(p) \in 4 .. 10
      /\ p[1] \in {Drop("server"), Drop("client"), Drop("config")}
      /\ p[Size(p)] = Restart("kes")
  BY PlanIs
<1>2. kesStep[r] \in 0 .. Size(p)
  BY DEF StepsOK
<1>3. \A q \in Updates : UpdatePlan(q)' = UpdatePlan(q)
  BY PlanStays
<1> HIDE DEF p
<1>4. CASE kesStep[r] = Size(p)
  <2>1. KesEnds(r, "ok")
    BY <1>4 DEF KesGoesOn, Size, p
  <2>2. Started(r) /\ NextCall(r) = Restart("kes")
    BY <1>1, <1>2, <1>4 DEF Started, NextCall, p
  <2>3. kesStep'[r] \in 1 .. Size(p) /\ kesStep' \in [Updates -> 0 .. 10]
    BY <1>1, <1>4, <2>1 DEF KesEnds, KesTypeOK
  <2> QED
    BY <2>1, <2>2, <2>3, Ending DEF p
<1>5. CASE kesStep[r] # Size(p)
  <2>1. kesStep' = [kesStep EXCEPT ![r] = @ + 1] /\ UNCHANGED kesAnswer
    BY <1>5 DEF KesGoesOn, Size, p
  <2>2. kesStep[r] + 1 \in 1 .. Size(p) /\ kesStep[r] + 1 \in 0 .. 10
    BY <1>1, <1>2, <1>5
  <2>3. kesStep'[r] = kesStep[r] + 1 /\ kesStep' \in [Updates -> 0 .. 10]
    BY <2>1, <2>2 DEF KesTypeOK
  <2>4. OthersStay(r)
    BY <1>3, <2>1 DEF OthersStay, NextCall, KesTypeOK
  <2>5. NextCall(r)' = p[kesStep[r] + 1]
    BY <1>3, <2>3 DEF NextCall, p
  <2>6. ~Started(r) => NextCall(r)' \in {Drop("server"), Drop("client"), Drop("config")}
    BY <1>1, <2>5 DEF Started
  <2>7. ASSUME Started(r)
        PROVE  Follows(r, NextCall(r), NextCall(r)')
    <3>1. kesStep[r] \in 1 .. Size(p) - 1
      BY <1>1, <1>2, <1>5, <2>7 DEF Started
    <3>2. Follows(r, p[kesStep[r]], p[kesStep[r] + 1])
      BY <1>1, <3>1 DEF Chain, Size
    <3> QED
      BY <2>5, <3>2 DEF NextCall, p
  <2>8. KesTypeOK /\ kesAnswer' = kesAnswer
    BY <2>1
  <2> QED
    BY <2>2, <2>3, <2>4, <2>6, <2>7, <2>8 DEF KesTypeOK, p
<1> QED
  BY <1>4, <1>5

\* The other requests are between their two writes as they were, or failed.
LEMMA OthersBetween ==
  ASSUME NEW r \in Updates, OthersStay(r), kesAnswer[r] = "none"
  PROVE  /\ \A q \in Updates \ {r} : Between(q)' <=> Between(q)
         /\ Failed => Failed'
<1>1. \A q \in Updates \ {r} : (Between(q)' <=> Between(q)) /\ (Started(q)' <=> Started(q))
  BY DEF OthersStay, Between, Started, At
<1> QED
  BY <1>1 DEF Failed, OthersStay

LEMMA StepsAfterGoingOn ==
  ASSUME KesTypeOK, StepsOK, NEW r \in Updates, KesGoesOn(r), UNCHANGED <<spec, keyFiles>>,
         kesAnswer[r] = "none", "kes" \in spec
  PROVE  StepsOK'
<1>1. OthersStay(r) /\ kesStep'[r] \in 1 .. Size(UpdatePlan(r))
  BY GoingOn
<1>2. kesAnswer'[r] = "ok" => NextCall(r)' = Restart("kes")
  BY GoingOn
<1>3. \A q \in Updates : UpdatePlan(q)' = UpdatePlan(q)
  BY PlanStays
<1>4. ASSUME NEW q \in Updates
      PROVE  /\ kesStep'[q] \in 0 .. Size(UpdatePlan(q)')
             /\ Started(q)' => "kes" \in spec'
             /\ kesAnswer'[q] = "ok" => IF Started(q)' THEN At(q, "restart", "kes")' ELSE "kes" \notin spec'
  <2>1. CASE q = r
    <3>1. kesStep'[r] \in 0 .. Size(UpdatePlan(r)') /\ kesStep'[r] # 0
      <4> DEFINE n == Size(UpdatePlan(r))
      <4> HIDE DEF n
      <4>1. kesStep'[r] \in 1 .. n
        BY <1>1 DEF n
      <4>2. n \in 4 .. 10
        BY PlanIs DEF n
      <4>3. kesStep'[r] \in 0 .. n /\ kesStep'[r] # 0
        BY <4>1, <4>2
      <4> QED
        BY <1>3, <4>3 DEF n
    <3> QED
      BY <1>2, <2>1, <3>1 DEF Started, At, Restart
  <2>2. CASE q # r
    <3>1. kesStep'[q] = kesStep[q] /\ kesAnswer'[q] = kesAnswer[q] /\ NextCall(q)' = NextCall(q)
      BY <1>1, <2>2 DEF OthersStay
    <3> QED
      BY <1>3, <3>1 DEF StepsOK, Started, At
  <2> QED
    BY <2>1, <2>2
<1> QED
  BY <1>4 DEF StepsOK

LEMMA StepsAfterEnding ==
  ASSUME KesTypeOK, StepsOK, NEW r \in Updates, NEW a \in {"ok", "error"}, KesEnds(r, a),
         UNCHANGED <<spec, keyFiles>>, a = "error" \/ (~Started(r) /\ "kes" \notin spec)
  PROVE  StepsOK'
<1>1. /\ OthersStay(r) /\ kesStep' = kesStep /\ NextCall(r)' = NextCall(r) /\ kesAnswer'[r] = a
  BY Ending
<1>2. \A q \in Updates : UpdatePlan(q)' = UpdatePlan(q)
  BY PlanStays
<1> QED
  BY <1>1, <1>2 DEF StepsOK, Started, At, OthersStay
-----------------------------------------------------------------------------
(* Each action keeps the invariant. *)

LEMMA InitialKesIInv == KesInit => KesIInv
<1> SUFFICES ASSUME KesInit PROVE KesIInv
  OBVIOUS
<1>1. KesTypeOK
  <2>1. spec \in Shapes /\ spec \subseteq KesNames \cup {"kes"}
    BY UpdatesAssumption DEF KesInit
  <2>2. keyFiles \in [Updates -> SUBSET {"server", "client", "kms"}]
    BY DEF KesInit
  <2>3. stored \in [KesNames -> Updates \cup {First, Nothing}]
    BY DEF KesInit
  <2> QED
    BY <2>1, <2>2, <2>3 DEF KesInit, KesTypeOK
<1>2. \A r \in Updates : ~Started(r) /\ kesAnswer[r] = "none"
  BY DEF KesInit, Started
<1>3. StepsOK
  <2>1. ASSUME NEW r \in Updates PROVE 0 \in 0 .. Size(UpdatePlan(r))
    <3> DEFINE n == Size(UpdatePlan(r))
    <3>1. n \in 4 .. 10
      BY PlanIs
    <3> HIDE DEF n
    <3>2. 0 \in 0 .. n
      BY <3>1
    <3> QED
      BY <3>2 DEF n
  <2> QED
    BY <1>2, <2>1 DEF StepsOK, Started
<1>4. \A r \in Updates, n \in KesNames : stored[n] # r
  BY UpdatesAssumption DEF KesInit
<1>5. Together
  <2>1. "kes" \in spec => stored["config"] = First
    BY UpdatesAssumption DEF KesInit, KesNames
  <2>2. "kms" \in spec => stored["kms"] = First
    BY DEF KesInit, KesNames
  <2> QED
    BY <1>2, <1>4, <2>1, <2>2, UpdatesAssumption
       DEF Together, NoConfigBetween, FirstConfigOK, ConfigOK, AboutToConfigOK, KesNames, First, Nothing
<1>6. WritersOK /\ MountedOK
  BY <1>4 DEF WritersOK, MountedOK, MountedBy, KesNames
<1> QED
  BY <1>1, <1>3, <1>5, <1>6 DEF KesIInv

\* A request that fails on the way leaves nothing to say about the others.
LEMMA FailedTogether ==
  ASSUME KesTypeOK, NEW r \in Updates, Started(r), KesEnds(r, "error")
  PROVE  Together'
  BY DEF Together, Failed, Started, KesEnds, KesTypeOK

\* What the pods have stays right unless r wrote a secret and then restarted them.
LEMMA MountedAfter ==
  ASSUME MountedOK, NEW r \in Updates, OthersStay(r), UNCHANGED <<spec, mounted>>,
         \A k \in PodKinds : up'[k] => up[k],
         \A n \in KesNames, q \in Updates \ {r} : stored'[n] = q => stored[n] = q,
         \A k \in PodKinds : \A n \in MountedBy(k) :
           up'[k] /\ Restarted(r, k)' /\ stored'[n] = r => Restarted(r, k) /\ stored[n] = r
  PROVE  MountedOK'
<1>1. \A k \in PodKinds : MountedBy(k)' = MountedBy(k) /\ MountedBy(k) \subseteq KesNames
  BY DEF MountedBy, KesNames
<1>2. \A q \in Updates \ {r}, k \in PodKinds : Restarted(q, k)' => Restarted(q, k)
  BY DEF OthersStay, Restarted, At
<1>3. ASSUME NEW k \in PodKinds, up'[k], NEW n \in MountedBy(k), NEW q \in Updates,
             stored'[n] = q, Restarted(q, k)'
      PROVE  mounted'[n] = q
  <2>1. stored[n] = q /\ Restarted(q, k)
    BY <1>1, <1>2, <1>3
  <2> QED
    BY <1>3, <2>1 DEF MountedOK
<1> QED
  BY <1>1, <1>3 DEF MountedOK

\* A request that wrote nothing does not disturb what is known of the writers.
LEMMA OthersWrite ==
  ASSUME WritersOK, NEW r \in Updates, OthersStay(r), UNCHANGED stored,
         \A n \in KesNames : stored[n] # r
  PROVE  WritersOK'
<1>1. ASSUME NEW q \in Updates \ {r}
      PROVE  /\ (Started(q)' <=> Started(q)) /\ (At(q, "restart", "kes")' <=> At(q, "restart", "kes"))
             /\ At(q, "restart", "minio")' <=> At(q, "restart", "minio")
             /\ Restarted(q, "minio")' <=> Restarted(q, "minio")
             /\ kesAnswer'[q] = kesAnswer[q]
  BY DEF OthersStay, Started, At, Restarted
<1>2. "config" \in KesNames /\ "client" \in KesNames
  BY DEF KesNames
<1> QED
  BY <1>1, <1>2 DEF WritersOK

LEMMA GetEncryptedTenantKeeps ==
  ASSUME KesIInv, NEW r \in Updates, GetEncryptedTenant(r), UNCHANGED <<spec, keyFiles>>
  PROVE  KesIInv'
<1> USE DEF KesIInv
<1>1. kesStep[r] = 0 /\ ~Started(r) /\ kesAnswer[r] = "none" /\ UNCHANGED <<stored, mounted, up>>
  BY DEF GetEncryptedTenant, Started
<1>2. \A n \in KesNames : stored[n] # r
  BY <1>1 DEF WritersOK
<1>3. CASE "kes" \notin spec
  <2>1. KesEnds(r, "ok")
    BY <1>3 DEF GetEncryptedTenant
  <2>2. /\ OthersStay(r) /\ kesStep' = kesStep /\ NextCall(r)' = NextCall(r)
        /\ kesAnswer'[r] = "ok" /\ kesAnswer' \in [Updates -> {"none", "ok", "error"}]
    BY <2>1, Ending
  <2>3. KesTypeOK' /\ StepsOK' /\ Together'
    BY <1>1, <1>3, <2>1, <2>2, StepsAfterEnding DEF KesTypeOK, Together
  <2>4. WritersOK' /\ MountedOK'
    <3>1. MountedOK'
      BY <1>1, <1>2, <2>2, MountedAfter DEF MountedBy, KesNames
    <3>2. WritersOK'
      BY <1>1, <1>2, <2>2, OthersWrite
    <3> QED
      BY <3>1, <3>2
  <2> QED
    BY <2>3, <2>4
<1>4. CASE "kes" \in spec
  <2>1. KesGoesOn(r)
    BY <1>4 DEF GetEncryptedTenant
  <2>2. /\ OthersStay(r) /\ kesStep' \in [Updates -> 0 .. 10]
        /\ kesAnswer' \in [Updates -> {"none", "ok", "error"}]
        /\ kesAnswer'[r] = "none"
        /\ NextCall(r)' \in {Drop("server"), Drop("client"), Drop("config")}
    BY <1>1, <2>1, GoingOn
  <2>3. KesTypeOK' /\ StepsOK'
    BY <1>1, <1>4, <2>1, <2>2, StepsAfterGoingOn DEF KesTypeOK
  <2>4. WritersOK' /\ MountedOK'
    <3>1. MountedOK'
      BY <1>1, <1>2, <2>2, MountedAfter DEF MountedBy, KesNames
    <3>2. WritersOK'
      BY <1>1, <1>2, <2>2, OthersWrite
    <3> QED
      BY <3>1, <3>2
  <2>5. /\ ~Between(r) /\ ~Between(r)' /\ ~At(r, "create", "config")'
    BY <1>1, <2>2 DEF Between, At, Drop
  <2>6. /\ \A q \in Updates \ {r} : Between(q)' <=> Between(q)
        /\ Failed => Failed'
    BY <1>1, <2>2, OthersBetween
  <2>7. Together'
    BY <1>1, <2>2, <2>5, <2>6
       DEF Together, NoConfigBetween, FirstConfigOK, ConfigOK, AboutToConfigOK, SomeBetween,
           OthersStay, Started, At
  <2> QED
    BY <2>3, <2>4, <2>7
<1> QED
  BY <1>3, <1>4

LEMMA EncryptionFailsKeeps ==
  ASSUME KesIInv, NEW r \in Updates, EncryptionFails(r), UNCHANGED <<spec, keyFiles>>
  PROVE  KesIInv'
<1> USE DEF KesIInv
<1>1. kesStep[r] = 0 /\ ~Started(r) /\ kesAnswer[r] = "none" /\ UNCHANGED <<stored, mounted, up>>
  BY DEF EncryptionFails, Started
<1>2. \A n \in KesNames : stored[n] # r
  BY <1>1 DEF WritersOK
<1>3. KesEnds(r, "error")
  BY DEF EncryptionFails
<1>4. /\ OthersStay(r) /\ kesStep' = kesStep /\ NextCall(r)' = NextCall(r)
      /\ kesAnswer'[r] = "error" /\ kesAnswer' \in [Updates -> {"none", "ok", "error"}]
  BY <1>3, Ending
<1>5. KesTypeOK' /\ StepsOK'
  BY <1>1, <1>3, <1>4, StepsAfterEnding DEF KesTypeOK
<1>6. WritersOK' /\ MountedOK'
  <2>1. MountedOK'
    BY <1>1, <1>2, <1>4, MountedAfter DEF MountedBy, KesNames
  <2>2. WritersOK'
    BY <1>1, <1>2, <1>4, OthersWrite
  <2> QED
    BY <2>1, <2>2
<1>7. /\ ~Between(r) /\ ~Between(r)' /\ ~Started(r)'
      /\ \A q \in Updates \ {r} : Between(q)' <=> Between(q)
      /\ Failed => Failed'
  BY <1>1, <1>4, OthersBetween DEF Between, Started
<1>8. Together'
  BY <1>1, <1>4, <1>7
     DEF Together, NoConfigBetween, FirstConfigOK, ConfigOK, AboutToConfigOK, SomeBetween,
         OthersStay, Started, At
<1> QED
  BY <1>5, <1>6, <1>8

\* The end of every call that fails: r has stopped where it was.
LEMMA FailingKeeps ==
  ASSUME KesIInv, NEW r \in Updates, KesEnds(r, "error"), Started(r), kesAnswer[r] = "none",
         UNCHANGED <<spec, keyFiles, mounted>>,
         stored' \in [KesNames -> Updates \cup {First, Nothing}], up' \in [PodKinds -> BOOLEAN],
         \A k \in PodKinds : up'[k] => up[k],
         \A n \in KesNames, q \in Updates \ {r} : stored'[n] = q => stored[n] = q,
         \A n \in KesNames : stored'[n] = r => stored[n] = r \/ At(r, "create", n)
  PROVE  KesIInv'
<1> USE DEF KesIInv
<1>1. /\ OthersStay(r) /\ kesStep' = kesStep /\ NextCall(r)' = NextCall(r)
      /\ kesAnswer'[r] = "error" /\ kesAnswer' \in [Updates -> {"none", "ok", "error"}]
  BY Ending
<1>2. KesTypeOK' /\ StepsOK' /\ Together'
  BY <1>1, StepsAfterEnding, FailedTogether DEF KesTypeOK
<1>3. WritersOK'
  <2>1. ASSUME NEW q \in Updates \ {r}
        PROVE  /\ \A n \in KesNames : stored'[n] = q => Started(q)'
               /\ stored'["client"] = q =>
                    kesAnswer'[q] = "error" \/ At(q, "restart", "minio")' \/ Restarted(q, "minio")'
               /\ stored'["config"] = q => kesAnswer'[q] = "error" \/ At(q, "restart", "kes")'
    <3>1. "config" \in KesNames /\ "client" \in KesNames
      BY DEF KesNames
    <3>2. /\ Started(q)' = Started(q) /\ (At(q, "restart", "kes")' <=> At(q, "restart", "kes"))
          /\ At(q, "restart", "minio")' <=> At(q, "restart", "minio")
          /\ Restarted(q, "minio")' <=> Restarted(q, "minio")
          /\ kesAnswer'[q] = kesAnswer[q]
      BY <1>1 DEF OthersStay, Started, At, Restarted
    <3> QED
      BY <3>1, <3>2 DEF WritersOK
  <2>2. Started(r)'
    BY <1>1 DEF Started
  <2> QED
    BY <1>1, <2>1, <2>2 DEF WritersOK
<1>4. MountedOK'
  <2>1. ASSUME NEW k \in PodKinds, NEW n \in MountedBy(k), Restarted(r, k)', stored'[n] = r
        PROVE  Restarted(r, k) /\ stored[n] = r
    <3>1. k = "minio"
      BY <1>1, <2>1 DEF Restarted, PodKinds
    <3>2. n = "client" /\ n \in KesNames
      BY <2>1, <3>1 DEF MountedBy, KesNames
    <3>3. Restarted(r, k) /\ ~At(r, "create", n)
      BY <1>1, <2>1, <3>1, <3>2 DEF Restarted, At
    <3> QED
      BY <2>1, <3>2, <3>3
  <2> QED
    BY <1>1, <2>1, MountedAfter
<1> QED
  BY <1>2, <1>3, <1>4

LEMMA InvalidFilesKeeps ==
  ASSUME KesIInv, NEW r \in Updates, InvalidFiles(r), UNCHANGED <<spec, keyFiles>>
  PROVE  KesIInv'
<1>1. /\ KesEnds(r, "error") /\ Started(r) /\ kesAnswer[r] = "none"
      /\ UNCHANGED <<stored, mounted, up>>
  BY DEF InvalidFiles, Calls, Started
<1> QED
  BY <1>1, FailingKeeps DEF KesIInv, KesTypeOK

\* Of what a request does to others when it goes on.
LEMMA MovingOn ==
  ASSUME KesIInv, NEW r \in Updates, KesGoesOn(r), Started(r), kesAnswer[r] = "none",
         UNCHANGED <<spec, keyFiles>>
  PROVE  /\ OthersStay(r) /\ StepsOK' /\ Started(r)' /\ "kes" \in spec
         /\ kesStep' \in [Updates -> 0 .. 10] /\ kesAnswer' \in [Updates -> {"none", "ok", "error"}]
         /\ \/ At(r, "restart", "kes") /\ At(r, "restart", "kes")' /\ kesAnswer'[r] = "ok"
            \/ ~At(r, "restart", "kes") /\ kesAnswer'[r] = "none" /\ Follows(r, NextCall(r), NextCall(r)')
         /\ \A q \in Updates \ {r} : Between(q)' <=> Between(q)
         /\ Failed => Failed'
<1> USE DEF KesIInv
<1>1. /\ OthersStay(r)
      /\ kesStep' \in [Updates -> 0 .. 10] /\ kesAnswer' \in [Updates -> {"none", "ok", "error"}]
      /\ kesStep'[r] \in 1 .. Size(UpdatePlan(r))
      /\ \/ /\ Started(r) /\ NextCall(r) = Restart("kes") /\ NextCall(r)' = NextCall(r)
            /\ kesAnswer'[r] = "ok"
         \/ /\ kesAnswer'[r] = kesAnswer[r]
            /\ ~Started(r) => NextCall(r)' \in {Drop("server"), Drop("client"), Drop("config")}
            /\ Started(r) => Follows(r, NextCall(r), NextCall(r)')
  BY GoingOn
<1>2. "kes" \in spec /\ StepsOK'
  BY StepsAfterGoingOn DEF StepsOK
<1>3. Started(r)'
  <2> DEFINE n == Size(UpdatePlan(r))
  <2>1. n \in 4 .. 10
    BY PlanIs
  <2>2. kesStep'[r] \in 1 .. n
    BY <1>1
  <2> HIDE DEF n
  <2> QED
    BY <2>1, <2>2 DEF Started
<1>4. NextCall(r) = Restart("kes") => At(r, "restart", "kes")
  BY DEF At, Restart
<1>5. Follows(r, NextCall(r), NextCall(r)') => ~At(r, "restart", "kes")
  BY DEF Follows, At, Drop, Make, Restart
<1>6. NextCall(r) = Restart("kes") /\ NextCall(r)' = NextCall(r) => At(r, "restart", "kes")'
  BY DEF At, Restart
<1> QED
  BY <1>1, <1>2, <1>3, <1>4, <1>5, <1>6, OthersBetween

\* The writers stay known when r goes on to where the secrets it wrote allow.
LEMMA WritersAfter ==
  ASSUME WritersOK, NEW r \in Updates, OthersStay(r), Started(r)',
         \A n \in KesNames, q \in Updates \ {r} : stored'[n] = q => stored[n] = q,
         stored'["client"] = r => At(r, "restart", "minio")' \/ Restarted(r, "minio")',
         stored'["config"] = r => At(r, "restart", "kes")'
  PROVE  WritersOK'
<1>1. ASSUME NEW q \in Updates \ {r}
      PROVE  /\ (Started(q)' <=> Started(q)) /\ (At(q, "restart", "kes")' <=> At(q, "restart", "kes"))
             /\ At(q, "restart", "minio")' <=> At(q, "restart", "minio")
             /\ Restarted(q, "minio")' <=> Restarted(q, "minio")
             /\ kesAnswer'[q] = kesAnswer[q]
  BY DEF OthersStay, Started, At, Restarted
<1>2. "config" \in KesNames /\ "client" \in KesNames
  BY DEF KesNames
<1> QED
  BY <1>1, <1>2 DEF WritersOK

LEMMA DeleteKesSecretKeeps ==
  ASSUME KesIInv, NEW r \in Updates, DeleteKesSecret(r), UNCHANGED <<spec, keyFiles>>
  PROVE  KesIInv'
<1> USE DEF KesIInv
<1> DEFINE n == NextCall(r).what
<1>1. /\ Started(r) /\ kesAnswer[r] = "none" /\ KesGoesOn(r) /\ UNCHANGED <<mounted, up>>
      /\ stored' \in {stored, [stored EXCEPT ![n] = Nothing]}
      /\ NextCall(r).do = "delete"
  BY DEF DeleteKesSecret, Calls, Started
<1>2. /\ OthersStay(r) /\ StepsOK' /\ Started(r)' /\ "kes" \in spec
      /\ kesStep' \in [Updates -> 0 .. 10] /\ kesAnswer' \in [Updates -> {"none", "ok", "error"}]
      /\ ~At(r, "restart", "kes") /\ kesAnswer'[r] = "none" /\ Follows(r, NextCall(r), NextCall(r)')
      /\ \A q \in Updates \ {r} : Between(q)' <=> Between(q)
      /\ Failed => Failed'
  BY <1>1, MovingOn DEF At
<1>3. \A m \in KesNames, q \in Updates : stored'[m] = q => stored[m] = q
  BY <1>1, UpdatesAssumption DEF KesTypeOK
<1>4. KesTypeOK'
  BY <1>1, <1>2 DEF KesTypeOK
<1>5. WritersOK'
  <2>1. stored["config"] # r
    BY <1>1, <1>2 DEF WritersOK, At
  <2>2. stored["client"] = r => Restarted(r, "minio")'
    BY <1>1, <1>2 DEF WritersOK, Restarted, At, Follows, Drop, Make, Restart
  <2>3. "config" \in KesNames /\ "client" \in KesNames
    BY DEF KesNames
  <2> QED
    BY <1>2, <1>3, <2>1, <2>2, <2>3, WritersAfter
<1>6. MountedOK'
  <2>1. ASSUME NEW k \in PodKinds, NEW m \in MountedBy(k), Restarted(r, k)', stored'[m] = r
        PROVE  Restarted(r, k) /\ stored[m] = r
    <3>1. k = "minio" /\ m \in KesNames
      BY <1>2, <2>1 DEF Restarted, PodKinds, MountedBy, KesNames
    <3>2. Restarted(r, k)
      BY <1>1, <1>2, <2>1, <3>1 DEF Restarted, At, Follows, Drop, Make, Restart
    <3> QED
      BY <1>3, <2>1, <3>1, <3>2
  <2> QED
    BY <1>1, <1>2, <1>3, <2>1, MountedAfter
<1>7. Together'
  <2>1. CASE n \notin {"config", "kms"}
    <3>1. ~Between(r)
      BY <1>1, <2>1 DEF Between, At
    <3>2. stored'["config"] = stored["config"] /\ stored'["kms"] = stored["kms"]
      BY <1>1, <2>1 DEF KesTypeOK, KesNames
    <3>3. ~Between(r)' /\ ~At(r, "create", "config")'
      BY <1>1, <1>2, <2>1 DEF Between, At, Follows, Drop, Make, Restart
    <3> QED
      BY <1>2, <3>1, <3>2, <3>3
         DEF Together, NoConfigBetween, FirstConfigOK, ConfigOK, AboutToConfigOK, SomeBetween,
             OthersStay, Started, At
  <2>2. CASE n = "config"
    <3>1. Between(r)' /\ ~At(r, "create", "config")'
      BY <1>1, <1>2, <2>2 DEF Between, At, Follows, Drop, Make, Restart
    <3>2. SomeBetween' /\ \A q \in Updates \ {r} : \E p \in Updates \ {q} : Between(p)'
      BY <3>1 DEF SomeBetween
    <3> QED
      BY <1>2, <3>1, <3>2
         DEF Together, NoConfigBetween, FirstConfigOK, ConfigOK, AboutToConfigOK
  <2>3. CASE n = "kms"
    <3>1. Between(r)'
      BY <1>1, <1>2, <2>3 DEF Between, At, Follows, Drop, Make, Restart
    <3>2. SomeBetween' /\ \A q \in Updates \ {r} : \E p \in Updates \ {q} : Between(p)'
      BY <3>1 DEF SomeBetween
    <3>3. "kms" \in keyFiles'[r] => ~At(r, "create", "config")'
      BY <1>1, <1>2, <2>3 DEF At, Follows, Drop, Make, Restart
    <3> QED
      BY <1>2, <3>1, <3>2, <3>3
         DEF Together, NoConfigBetween, FirstConfigOK, ConfigOK, AboutToConfigOK
  <2> QED
    BY <2>1, <2>2, <2>3
<1> QED
  BY <1>2, <1>4, <1>5, <1>6, <1>7

LEMMA CreateKesSecretKeeps ==
  ASSUME KesIInv, NEW r \in Updates, CreateKesSecret(r), UNCHANGED <<spec, keyFiles>>
  PROVE  KesIInv'
<1> USE DEF KesIInv
<1> DEFINE n == NextCall(r).what
           written == [stored EXCEPT ![n] = IF @ = Nothing THEN r ELSE @]
<1>1. /\ Started(r) /\ kesAnswer[r] = "none" /\ NextCall(r).do = "create" /\ UNCHANGED <<mounted, up>>
      /\ \/ stored[n] = Nothing /\ stored' = written /\ KesGoesOn(r)
         \/ stored' \in {stored, written} /\ KesEnds(r, "error")
  BY DEF CreateKesSecret, Calls, Started
<1>2. /\ written \in [KesNames -> Updates \cup {First, Nothing}]
      /\ \A m \in KesNames, q \in Updates \ {r} : written[m] = q => stored[m] = q
      /\ \A m \in KesNames : written[m] = r => stored[m] = r \/ m = n
  BY UpdatesAssumption DEF KesTypeOK
<1>3. CASE stored' \in {stored, written} /\ KesEnds(r, "error")
  <2>1. /\ stored' \in [KesNames -> Updates \cup {First, Nothing}]
        /\ \A m \in KesNames, q \in Updates \ {r} : stored'[m] = q => stored[m] = q
        /\ \A m \in KesNames : stored'[m] = r => stored[m] = r \/ At(r, "create", m)
    BY <1>1, <1>2, <1>3 DEF KesTypeOK, At
  <2> QED
    BY <1>1, <1>3, <2>1, FailingKeeps DEF KesTypeOK
<1>4. CASE stored[n] = Nothing /\ stored' = written /\ KesGoesOn(r)
  <2>1. /\ OthersStay(r) /\ StepsOK' /\ Started(r)' /\ "kes" \in spec
        /\ kesStep' \in [Updates -> 0 .. 10] /\ kesAnswer' \in [Updates -> {"none", "ok", "error"}]
        /\ ~At(r, "restart", "kes") /\ kesAnswer'[r] = "none" /\ Follows(r, NextCall(r), NextCall(r)')
        /\ \A q \in Updates \ {r} : Between(q)' <=> Between(q)
        /\ Failed => Failed'
    BY <1>1, <1>4, MovingOn DEF At
  <2>2. KesTypeOK'
    BY <1>1, <1>2, <1>4, <2>1 DEF KesTypeOK
  <2>3. WritersOK'
    <3>1. stored'["config"] = r => stored["config"] = r \/ n = "config"
      BY <1>2, <1>4 DEF KesNames
    <3>2. n = "config" => At(r, "restart", "kes")'
      BY <1>1, <2>1 DEF At, Follows, Drop, Make, Restart
    <3>3. stored["config"] # r
      BY <1>1, <2>1 DEF WritersOK
    <3>4. stored'["client"] = r => stored["client"] = r \/ n = "client"
      BY <1>2, <1>4 DEF KesNames
    <3>5. n = "client" => At(r, "restart", "minio")'
      BY <1>1, <2>1 DEF At, Follows, Drop, Make, Restart
    <3>6. stored["client"] = r => Restarted(r, "minio")'
      BY <1>1, <2>1 DEF WritersOK, Restarted, At, Follows, Drop, Make, Restart
    <3> QED
      BY <1>2, <1>4, <2>1, <3>1, <3>2, <3>3, <3>4, <3>5, <3>6, WritersAfter
  <2>4. MountedOK'
    <3>1. ASSUME NEW k \in PodKinds, NEW m \in MountedBy(k), Restarted(r, k)', stored'[m] = r
          PROVE  Restarted(r, k) /\ stored[m] = r
      <4>1. k = "minio" /\ m = "client" /\ m \in KesNames
        BY <2>1, <3>1 DEF Restarted, PodKinds, MountedBy, KesNames
      <4>2. n # "client"
        BY <1>1, <2>1, <3>1, <4>1 DEF Restarted, At, Follows, Drop, Make, Restart
      <4>3. stored[m] = r
        BY <1>2, <1>4, <3>1, <4>1, <4>2
      <4>4. Restarted(r, k)
        BY <1>1, <4>1, <4>3 DEF WritersOK, At
      <4> QED
        BY <4>3, <4>4
    <3> QED
      BY <1>1, <1>2, <1>4, <2>1, <3>1, MountedAfter
  <2>5. Together'
    <3>1. CASE n \notin {"config", "kms"}
      <4>1. ~Between(r)
        BY <1>1, <3>1 DEF Between, At
      <4>2. stored'["config"] = stored["config"] /\ stored'["kms"] = stored["kms"]
        BY <1>4, <3>1 DEF KesTypeOK, KesNames
      <4>3. ~Between(r)' /\ ~At(r, "create", "config")'
        BY <1>1, <2>1, <3>1 DEF Between, At, Follows, Drop, Make, Restart
      <4> QED
        BY <2>1, <4>1, <4>2, <4>3
           DEF Together, NoConfigBetween, FirstConfigOK, ConfigOK, AboutToConfigOK, SomeBetween,
               OthersStay, Started, At
    <3>2. CASE n = "kms"
      <4>1. Between(r)' /\ stored'["kms"] = r /\ stored["kms"] = Nothing
        BY <1>1, <1>4, <2>1, <3>2 DEF Between, At, Follows, Drop, Make, Restart, KesTypeOK, KesNames
      <4>2. SomeBetween' /\ \A q \in Updates \ {r} : \E p \in Updates \ {q} : Between(p)'
        BY <4>1 DEF SomeBetween
      <4> QED
        BY <2>1, <4>1, <4>2
           DEF Together, NoConfigBetween, FirstConfigOK, ConfigOK, AboutToConfigOK
    <3>3. CASE n = "config"
      <4>1. /\ stored'["config"] = r /\ stored["config"] = Nothing /\ stored'["kms"] = stored["kms"]
            /\ r \notin {First, Nothing}
        BY <1>4, <3>3, UpdatesAssumption DEF KesTypeOK, KesNames
      <4>2. ~Between(r)' /\ At(r, "create", "config")
        BY <1>1, <2>1, <3>3 DEF Between, At, Follows, Drop, Make, Restart
      <4>3. ASSUME ~Failed', "kms" \in keyFiles'[r]
            PROVE  stored'["kms"] = r \/ SomeBetween'
        <5>1. AboutToConfigOK
          BY <2>1, <4>3 DEF Together
        <5>2. stored["kms"] = r \/ \E p \in Updates \ {r} : Between(p)
          BY <1>1, <4>1, <4>2, <4>3, <5>1 DEF AboutToConfigOK
        <5> QED
          BY <2>1, <4>1, <5>2 DEF SomeBetween
      <4>4. \A w \in Updates : stored'["config"] = w => w = r
        BY <4>1
      <4>5. ~Failed' => NoConfigBetween' /\ FirstConfigOK' /\ ConfigOK'
        BY <4>1, <4>3, <4>4 DEF NoConfigBetween, FirstConfigOK, ConfigOK
      <4>6. AboutToConfigOK'
        BY <4>1 DEF AboutToConfigOK
      <4> QED
        BY <4>5, <4>6 DEF Together
    <3> QED
      BY <3>1, <3>2, <3>3
  <2> QED
    BY <2>1, <2>2, <2>3, <2>4, <2>5
<1> QED
  BY <1>1, <1>3, <1>4

LEMMA DeletePodsKeeps ==
  ASSUME KesIInv, NEW r \in Updates, DeletePods(r), UNCHANGED <<spec, keyFiles>>
  PROVE  KesIInv'
<1> USE DEF KesIInv
<1> DEFINE k == NextCall(r).what
           stopped == [up EXCEPT ![k] = FALSE]
<1>1. /\ Started(r) /\ kesAnswer[r] = "none" /\ NextCall(r).do = "restart" /\ UNCHANGED <<stored, mounted>>
      /\ \/ up' = stopped /\ KesGoesOn(r)
         \/ up' \in {up, stopped} /\ KesEnds(r, "error")
  BY DEF DeletePods, Calls, Started
<1>2. stopped \in [PodKinds -> BOOLEAN] /\ \A j \in PodKinds : stopped[j] => up[j] /\ j # k
  BY DEF KesTypeOK
<1>3. CASE up' \in {up, stopped} /\ KesEnds(r, "error")
  BY <1>1, <1>2, <1>3, FailingKeeps DEF KesTypeOK
<1>4. CASE up' = stopped /\ KesGoesOn(r)
  <2>1. /\ OthersStay(r) /\ StepsOK' /\ Started(r)' /\ "kes" \in spec
        /\ kesStep' \in [Updates -> 0 .. 10] /\ kesAnswer' \in [Updates -> {"none", "ok", "error"}]
        /\ \A q \in Updates \ {r} : Between(q)' <=> Between(q)
        /\ Failed => Failed'
    BY <1>1, <1>4, MovingOn
  <2>2. \/ k = "kes" /\ At(r, "restart", "kes")'
        \/ k = "minio" /\ kesAnswer'[r] = "none" /\ At(r, "delete", "config")'
    <3>1. \/ At(r, "restart", "kes") /\ At(r, "restart", "kes")' /\ kesAnswer'[r] = "ok"
          \/ kesAnswer'[r] = "none" /\ Follows(r, NextCall(r), NextCall(r)')
      BY <1>1, <1>4, MovingOn
    <3> QED
      BY <1>1, <3>1 DEF At, Follows, Drop, Make, Restart
  <2>3. KesTypeOK'
    BY <1>1, <1>2, <1>4, <2>1 DEF KesTypeOK
  <2>4. WritersOK'
    <3>1. stored["config"] = r => At(r, "restart", "kes")'
      BY <1>1, <2>2 DEF WritersOK, At
    <3>2. Restarted(r, "minio")'
      BY <2>2 DEF Restarted, At
    <3> QED
      BY <1>1, <2>1, <3>1, <3>2, WritersAfter
  <2>5. MountedOK'
    <3>1. ASSUME NEW j \in PodKinds, NEW m \in MountedBy(j), up'[j], Restarted(r, j)', stored'[m] = r
          PROVE  Restarted(r, j) /\ stored[m] = r
      <4>1. j # k
        BY <1>2, <1>4, <3>1
      <4>2. j = "minio" /\ k = "kes"
        BY <2>2, <3>1, <4>1 DEF Restarted, PodKinds
      <4>3. Restarted(r, j)
        BY <1>1, <4>2 DEF Restarted, At
      <4> QED
        BY <1>1, <3>1, <4>3
    <3> QED
      BY <1>1, <1>2, <1>4, <2>1, <3>1, MountedAfter
  <2>6. Together'
    <3>1. ~Between(r) /\ ~Between(r)' /\ ~At(r, "create", "config")'
      BY <1>1, <2>2 DEF Between, At
    <3> QED
      BY <1>1, <2>1, <3>1
         DEF Together, NoConfigBetween, FirstConfigOK, ConfigOK, AboutToConfigOK, SomeBetween,
             OthersStay, Started, At
  <2> QED
    BY <2>1, <2>3, <2>4, <2>5, <2>6
<1> QED
  BY <1>1, <1>3, <1>4

\* The rest of the invariant is about the requests and the secrets.
LEMMA PodsKeepRequests ==
  ASSUME KesIInv, UNCHANGED <<spec, keyFiles, stored, kesStep, kesAnswer>>
  PROVE  StepsOK' /\ WritersOK' /\ Together'
<1> USE DEF KesIInv
<1>1. ASSUME NEW r PROVE UpdatePlan(r)' = UpdatePlan(r) /\ NextCall(r)' = NextCall(r)
  BY PlanStays DEF NextCall
<1>2. StepsOK' /\ WritersOK'
  BY <1>1 DEF StepsOK, WritersOK, Restarted, Started, At
<1>3. /\ \A q \in Updates : Between(q)' <=> Between(q)
      /\ Failed' <=> Failed
  BY <1>1 DEF Between, Started, At, Failed
<1>4. Together'
  BY <1>1, <1>3
     DEF Together, NoConfigBetween, FirstConfigOK, ConfigOK, AboutToConfigOK, SomeBetween, Started, At
<1> QED
  BY <1>2, <1>4

LEMMA PodsKeep ==
  ASSUME KesIInv, NEW k \in PodKinds, PodsStart(k) \/ PodsStop(k), UNCHANGED <<spec, keyFiles>>
  PROVE  KesIInv'
<1> USE DEF KesIInv
<1>1. UNCHANGED <<stored, kesStep, kesAnswer>>
  BY DEF PodsStart, PodsStop
<1>2. \A j \in PodKinds : /\ \A r \in Updates : Restarted(r, j)' <=> Restarted(r, j)
                        /\ MountedBy(j)' = MountedBy(j) /\ MountedBy(j) \subseteq KesNames
  BY <1>1, PlanStays DEF Restarted, At, NextCall, MountedBy, KesNames
<1>3. CASE PodsStart(k)
  <2>1. mounted' \in [KesNames -> Updates \cup {First, Nothing}] /\ up' \in [PodKinds -> BOOLEAN]
    BY <1>3 DEF PodsStart, KesTypeOK
  <2>2. KesTypeOK'
    BY <1>1, <2>1 DEF KesTypeOK
  <2>3. ASSUME NEW j \in PodKinds, up'[j], NEW n \in MountedBy(j), NEW r \in Updates,
               stored[n] = r, Restarted(r, j)
        PROVE  mounted'[n] = r
    <3>1. CASE j = k
      BY <1>2, <1>3, <2>3, <3>1 DEF PodsStart
    <3>2. CASE j # k
      <4>1. up[j] /\ n \notin MountedBy(k) /\ n \in KesNames
        BY <1>2, <1>3, <2>3, <3>2 DEF PodsStart, MountedBy, PodKinds, KesTypeOK
      <4> QED
        BY <1>3, <2>3, <4>1 DEF PodsStart, MountedOK
    <3> QED
      BY <3>1, <3>2
  <2>4. MountedOK'
    BY <1>1, <1>2, <2>3 DEF MountedOK
  <2> QED
    BY <1>1, <2>2, <2>4, PodsKeepRequests
<1>4. CASE PodsStop(k)
  <2>1. KesTypeOK'
    BY <1>1, <1>4 DEF PodsStop, KesTypeOK
  <2>2. \A j \in PodKinds : up'[j] => up[j]
    BY <1>4 DEF PodsStop, KesTypeOK
  <2>3. MountedOK'
    BY <1>1, <1>2, <1>4, <2>2 DEF MountedOK, PodsStop
  <2> QED
    BY <1>1, <2>1, <2>3, PodsKeepRequests
<1> QED
  BY <1>3, <1>4

LEMMA StepKeepsKesIInv == KesIInv /\ [KesNext]_kesVars => KesIInv'
<1> SUFFICES ASSUME KesIInv, [KesNext]_kesVars PROVE KesIInv'
  OBVIOUS
<1>1. CASE UNCHANGED kesVars
  <2>1. StepsOK' /\ WritersOK' /\ Together'
    BY <1>1, PodsKeepRequests DEF kesVars
  <2>2. ASSUME NEW r PROVE NextCall(r)' = NextCall(r)
    BY <1>1, PlanStays DEF NextCall, kesVars
  <2> QED
    BY <1>1, <2>1, <2>2 DEF KesIInv, KesTypeOK, MountedOK, MountedBy, Restarted, At, kesVars
<1>2. CASE KesNext
  <2>1. UNCHANGED <<spec, keyFiles>>
    BY <1>2 DEF KesNext
  <2> QED
    BY <1>2, <2>1, GetEncryptedTenantKeeps, EncryptionFailsKeeps, DeleteKesSecretKeeps,
       InvalidFilesKeeps, CreateKesSecretKeeps, DeletePodsKeeps, PodsKeep DEF KesNext
<1> QED
  BY <1>1, <1>2

LEMMA KesInvariant == KesSpec => []KesIInv
  BY InitialKesIInv, StepKeepsKesIInv, PTL DEF KesSpec

\* Theorem: every variable of the updates of a tenant's encryption keeps its type,
\* for any number of requests (tenantUpdateEncryption).
THEOREM KesTypeCorrect == KesSpec => []KesTypeOK
<1>1. KesIInv => KesTypeOK
  BY DEF KesIInv
<1> QED
  BY <1>1, KesInvariant, PTL

\* Theorem: requests that succeed leave KES with a configuration and with the
\* certificates for the KMS that the request that wrote it brought, if it brought any,
\* however many there are and however they overlap (createOrReplaceKesConfiguration
\* deletes and creates the two secrets one after the other).
THEOREM ConfigurationAgrees == KesSpec => []KesAgrees
<1>1. ASSUME KesIInv, "kes" \in spec, ~Reported
      PROVE  /\ stored["config"] # Nothing
             /\ stored["config"] # First /\ "kms" \in keyFiles[stored["config"]] =>
                  stored["kms"] = stored["config"]
             /\ stored["kms"] = Nothing =>
                  \/ "kms" \notin spec
                  \/ stored["config"] # First /\ "kms" \notin keyFiles[stored["config"]]
  <2>1. ~Failed /\ ~SomeBetween
    BY <1>1 DEF Reported, Failed, SomeBetween, Between, Started
  <2>2. NoConfigBetween /\ FirstConfigOK /\ ConfigOK
    BY <1>1, <2>1 DEF KesIInv, Together
  <2>3. stored["config"] \in Updates \cup {First, Nothing}
    BY <1>1 DEF KesIInv, KesTypeOK, KesNames
  <2>4. stored["config"] # Nothing
    BY <2>1, <2>2 DEF NoConfigBetween
  <2>5. CASE stored["config"] = First
    BY <2>1, <2>2, <2>4, <2>5 DEF FirstConfigOK
  <2>6. CASE stored["config"] \in Updates
    BY <2>1, <2>2, <2>4, <2>6, UpdatesAssumption DEF ConfigOK
  <2> QED
    BY <2>3, <2>4, <2>5, <2>6
<1>2. KesIInv => KesAgrees
  BY <1>1 DEF KesAgrees
<1> QED
  BY <1>2, KesInvariant, PTL

\* Theorem: a secret that a request wrote which succeeded, and that is still there,
\* is the one the pods that run have, whatever other requests delete, write and
\* restart meanwhile and whenever the pods stop and start by themselves.
THEOREM WhatIsWrittenIsMounted == KesSpec => []WrittenIsMounted
<1>1. ASSUME KesIInv, NEW k \in PodKinds, up[k], NEW n \in MountedBy(k), NEW r \in Updates,
             stored[n] = r, kesAnswer[r] = "ok"
      PROVE  mounted[n] = r
  <2>1. n \in KesNames
    BY <1>1 DEF MountedBy, KesNames
  <2>2. Started(r) /\ At(r, "restart", "kes")
    BY <1>1, <2>1 DEF KesIInv, WritersOK, StepsOK
  <2> QED
    BY <1>1, <2>2 DEF KesIInv, MountedOK, Restarted
<1>2. KesIInv => WrittenIsMounted
  BY <1>1 DEF WrittenIsMounted
<1> QED
  BY <1>2, KesInvariant, PTL

-----------------------------------------------------------------------------
(* The secrets of tenants.                                                   *)

\* No name of the secret of a tenant's root credentials, which locks its name.
NoLock(n) == \A t \in Tenants : n # <<t, "secret">>

Items == [name : SecretNames, how : {"create", "replace", "upsert"}]
OtherItems == {i \in Items : NoLock(i.name)}

\* A plan begins with the lock and never comes back to it.
LocksFirst(t, p) ==
  /\ p \in Seq(Items) /\ Len(p) \in Nat \ {0}
  /\ p[1] = Item(<<t, "secret">>, "create")
  /\ \A k \in 2 .. Len(p) : p[k] \in OtherItems

LEMMA OthersFollow ==
  ASSUME NEW t \in Tenants, NEW p, LocksFirst(t, p), NEW q \in Seq(OtherItems)
  PROVE  LocksFirst(t, p \o q)
<1>1. p \in Seq(Items) /\ q \in Seq(Items)
  BY DEF LocksFirst, OtherItems
<1>2. Len(p) \in Nat \ {0} /\ Len(q) \in Nat /\ \A k \in 1 .. Len(q) : q[k] \in OtherItems
  BY DEF LocksFirst
<1>3. /\ p \o q \in Seq(Items) /\ Len(p \o q) = Len(p) + Len(q)
      /\ \A i \in 1 .. Len(p) + Len(q) : (p \o q)[i] = IF i <= Len(p) THEN p[i] ELSE q[i - Len(p)]
  BY <1>1, ConcatProperties
<1> DEFINE pq == p \o q
           m == Len(p)
           n == Len(q)
<1>4. /\ pq \in Seq(Items) /\ Len(pq) = m + n /\ m \in Nat \ {0} /\ n \in Nat
      /\ \A i \in 1 .. m + n : pq[i] = IF i <= m THEN p[i] ELSE q[i - m]
      /\ p[1] = Item(<<t, "secret">>, "create")
      /\ \A k \in 2 .. m : p[k] \in OtherItems
      /\ \A k \in 1 .. n : q[k] \in OtherItems
  BY <1>2, <1>3 DEF LocksFirst
<1> HIDE DEF pq, m, n
<1>5. ASSUME NEW k \in 2 .. m + n PROVE pq[k] \in OtherItems
  <2>1. CASE k <= m
    BY <1>4, <1>5, <2>1
  <2>2. CASE k > m
    <3>1. k - m \in 1 .. n /\ k \in 1 .. m + n /\ ~(k <= m)
      BY <1>4, <1>5, <2>2
    <3> QED
      BY <1>4, <3>1
  <2> QED
    BY <1>4, <1>5, <2>1, <2>2
<1>6. 1 \in 1 .. m + n /\ 1 <= m /\ m + n \in Nat \ {0}
  BY <1>4
<1>7. LocksFirst(t, pq)
  BY <1>4, <1>5, <1>6 DEF LocksFirst
<1> QED
  BY <1>7 DEF pq

LEMMA OneOther ==
  ASSUME NEW t \in Tenants, NEW kind \in {"user", "cert", "kes", "regcred", "env"},
         NEW how \in {"create", "replace", "upsert"}
  PROVE  <<Item(<<t, kind>>, how)>> \in Seq(OtherItems) /\ <<Item(CA, how)>> \in Seq(OtherItems)
<1>1. <<t, kind>> \in SecretNames /\ NoLock(<<t, kind>>)
  BY DEF SecretNames, NoLock
<1>2. CA \in SecretNames /\ NoLock(CA)
  BY DEF SecretNames, NoLock, CA
<1>3. Item(<<t, kind>>, how) \in OtherItems /\ Item(CA, how) \in OtherItems
  BY <1>1, <1>2 DEF OtherItems, Items, Item
<1> QED
  BY <1>3

LEMMA CreationLocksFirst ==
  ASSUME NEW t \in Tenants, NEW os
  PROVE  LocksFirst(t, CreationSecrets(t, os))
<1> DEFINE When(option, i) == IF option \in os THEN <<i>> ELSE <<>>
           p1 == <<Item(<<t, "secret">>, "create")>>
           q2 == When("users", Item(<<t, "user">>, "create"))
           p2 == p1 \o q2
           q3 == When("tls", Item(<<t, "cert">>, "replace"))
           p3 == p2 \o q3
           q4 == When("kes", Item(<<t, "kes">>, "replace"))
           p4 == p3 \o q4
           q5 == When("ca", Item(CA, "replace"))
           p5 == p4 \o q5
           q6 == When("registry", Item(<<t, "regcred">>, "upsert"))
           p6 == p5 \o q6
           q7 == <<Item(<<t, "env">>, "replace")>>
           p7 == p6 \o q7
<1>1. CreationSecrets(t, os) = p7
  BY DEF CreationSecrets
<1>2. LocksFirst(t, p1)
  <2>1. <<t, "secret">> \in SecretNames
    BY DEF SecretNames
  <2>2. Item(<<t, "secret">>, "create") \in Items
    BY <2>1 DEF Items, Item
  <2> QED
    BY <2>2 DEF LocksFirst
<1>3. /\ q2 \in Seq(OtherItems) /\ q3 \in Seq(OtherItems) /\ q4 \in Seq(OtherItems)
      /\ q5 \in Seq(OtherItems) /\ q6 \in Seq(OtherItems) /\ q7 \in Seq(OtherItems)
  <2>1. <<>> \in Seq(OtherItems)
    OBVIOUS
  <2>2. /\ <<Item(<<t, "user">>, "create")>> \in Seq(OtherItems)
        /\ <<Item(<<t, "cert">>, "replace")>> \in Seq(OtherItems)
        /\ <<Item(<<t, "kes">>, "replace")>> \in Seq(OtherItems)
        /\ <<Item(CA, "replace")>> \in Seq(OtherItems)
        /\ <<Item(<<t, "regcred">>, "upsert")>> \in Seq(OtherItems)
        /\ <<Item(<<t, "env">>, "replace")>> \in Seq(OtherItems)
    BY OneOther
  <2> QED
    BY <2>1, <2>2
<1> HIDE DEF q2, q3, q4, q5, q6, q7, p1
<1>4. LocksFirst(t, p2)
  BY <1>2, <1>3, OthersFollow
<1> HIDE DEF p2
<1>5. LocksFirst(t, p3)
  BY <1>3, <1>4, OthersFollow
<1> HIDE DEF p3
<1>6. LocksFirst(t, p4)
  BY <1>3, <1>5, OthersFollow
<1> HIDE DEF p4
<1>7. LocksFirst(t, p5)
  BY <1>3, <1>6, OthersFollow
<1> HIDE DEF p5
<1>8. LocksFirst(t, p6)
  BY <1>3, <1>7, OthersFollow
<1> HIDE DEF p6
<1>9. LocksFirst(t, p7)
  BY <1>3, <1>8, OthersFollow
<1> HIDE DEF p7
<1> QED
  BY <1>1, <1>9

-----------------------------------------------------------------------------
(* The inductive invariant.                                                  *)

Labels ==
  {"start", "replace", "secret", "tenant", "integrate", "cleanup", "delete", "claims", "secrets",
   "update", "remove", "restart", "done"}

DataOK ==
  /\ secrets \subseteq Secrets
  /\ \A s, u \in secrets : s.name = u.name => s = u
  /\ job \in [Requests -> Jobs] /\ DOMAIN read = Requests
  /\ pc \in [Requests -> Labels] /\ step \in [Requests -> Nat \ {0}]
  /\ answer \in [Requests -> {"none", "ok", "error"}]

\* Where a request can be, and what it is at.
Placed(r) ==
  /\ pc[r] = "done" <=> answer[r] # "none"
  /\ pc[r] = "start" => step[r] = 1
  /\ pc[r] \in {"replace", "secret"} => step[r] \in DOMAIN Plan(r) /\ job[r].kind \notin {"none", "delete"}
  /\ pc[r] = "replace" => Plan(r)[step[r]].how = "replace"
  /\ pc[r] \in {"tenant", "integrate", "cleanup"} => job[r].kind = "create" /\ step[r] > 1
  /\ job[r].kind = "create" => pc[r] \notin {"delete", "claims", "secrets", "update", "remove", "restart"}
  /\ pc[r] \in {"delete", "claims", "secrets"} => job[r].kind = "delete"

\* The secret that locks the name of a tenant has the tenant's label.
LocksLabelled ==
  \A s \in secrets : \A t \in Tenants : s.name = <<t, "secret">> => s.tenant = t

Lock(t) == {s \in secrets : s.name = <<t, "secret">>}

\* Whose request goes no further, or only changes certificates.
Spent(w) ==
  \E q \in Requests : w = q /\ (answer[q] = "error" \/ job[q].kind \in {"security", "certificates"})

\* A creation that is past the lock has it, and the tenant's other secrets are its
\* own or left by failed ones.
HasLock(r) ==
  Creating(r) /\ ~Deleted(job[r].tenant) =>
    /\ \E s \in Lock(job[r].tenant) : s.by = r
    /\ \A s \in Labelled(job[r].tenant) : s.by = r \/ Spent(s.by)

\* What there is of a tenant without the lock has been left.
Left(t) == ~Deleted(t) /\ Lock(t) = {} => \A s \in Labelled(t) : Spent(s.by)

SecretsIInv ==
  /\ DataOK
  /\ \A r \in Requests : Placed(r)
  /\ LocksLabelled
  /\ \A r \in Requests : HasLock(r)
  /\ \A t \in Tenants : Left(t)

-----------------------------------------------------------------------------
\* What a change r of certificates adds, of MinIO and of authorities.
Added(r, kind) == Item(<<r, kind>>, "replace")
AddedNames(r) == {r} \X {"cert", "authority"}

LEMMA NewCertificatesAre ==
  ASSUME NEW r, NEW os
  PROVE  NewCertificates(r, os) =
           IF "tls" \in os
             THEN IF "ca" \in os THEN <<Added(r, "cert"), Added(r, "authority")>> ELSE <<Added(r, "cert")>>
             ELSE IF "ca" \in os THEN <<Added(r, "authority")>> ELSE <<>>
<1> DEFINE a == Added(r, "cert")
           b == Added(r, "authority")
<1>1. NewCertificates(r, os) =
        (IF "tls" \in os THEN <<a>> ELSE <<>>) \o (IF "ca" \in os THEN <<b>> ELSE <<>>)
  BY DEF NewCertificates, Added
<1> HIDE DEF a, b
<1>2. PICK S : a \in S /\ b \in S
  BY a \in {a, b} /\ b \in {a, b}
<1>3. <<a>> \in Seq(S) /\ <<b>> \in Seq(S) /\ <<>> \in Seq(S)
  BY <1>2
<1>4. <<a>> \o <<>> = <<a>> /\ <<>> \o <<b>> = <<b>> /\ <<>> \o <<>> = <<>>
  BY <1>3, ConcatEmptySeq
<1>5. <<a>> \o <<b>> = <<a, b>>
  <2> DEFINE ab == <<a>> \o <<b>>
  <2>1. Len(<<a>>) = 1 /\ <<a>>[1] = a /\ Len(<<b>>) = 1 /\ <<b>>[1] = b
    OBVIOUS
  <2>2. /\ ab \in Seq(S) /\ Len(ab) = 1 + 1
        /\ \A i \in 1 .. 1 + 1 : ab[i] = IF i <= 1 THEN <<a>>[i] ELSE <<b>>[i - 1]
    BY <1>3, <2>1, ConcatProperties
  <2> HIDE DEF ab
  <2>3. ab[1] = a /\ ab[2] = b
    BY <2>1, <2>2
  <2>4. <<a, b>> \in Seq(S) /\ Len(<<a, b>>) = 2 /\ <<a, b>>[1] = a /\ <<a, b>>[2] = b
    BY <1>2
  <2>5. \A i \in 1 .. 2 : ab[i] = <<a, b>>[i]
    BY <2>3, <2>4
  <2>6. Len(ab) = 2
    BY <2>2
  <2>7. ab = <<a, b>>
    BY <2>2, <2>4, <2>5, <2>6, SeqEqual
  <2> QED
    BY <2>7 DEF ab
<1> QED
  BY <1>1, <1>4, <1>5 DEF a, b

\* The plan of a request r that creates no tenant but t's certificates.
OtherPlans(r, t) ==
  {<<>>, <<Added(r, "cert")>>, <<Added(r, "authority")>>, <<Added(r, "cert"), Added(r, "authority")>>,
   <<Item(<<t, "cert">>, "replace")>>}

LEMMA OthersReplace ==
  ASSUME NEW r, NEW t, NEW p \in OtherPlans(r, t)
  PROVE  Len(p) \in Nat /\ \A k \in 1 .. Len(p) : p[k].how = "replace"
<1>1. \A n : Item(n, "replace").how = "replace"
  BY DEF Item
<1>2. CASE p = <<>>
  BY <1>2
<1>3. ASSUME NEW n, p = <<Item(n, "replace")>>
      PROVE  Len(p) \in Nat /\ \A k \in 1 .. Len(p) : p[k].how = "replace"
  BY <1>1, <1>3
<1>4. CASE p = <<Added(r, "cert"), Added(r, "authority")>>
  BY <1>1, <1>4 DEF Added
<1> QED
  BY <1>2, <1>3, <1>4 DEF OtherPlans, Added

LEMMA OtherPlansAre ==
  ASSUME NEW r \in Requests, NEW t \in Tenants
  PROVE  OtherPlans(r, t) \subseteq Seq(OtherItems)
<1>1. <<Item(<<t, "cert">>, "replace")>> \in Seq(OtherItems)
  BY OneOther
<1>2. Added(r, "cert") \in OtherItems /\ Added(r, "authority") \in OtherItems
  <2>1. ASSUME NEW kind \in {"cert", "authority"} PROVE Added(r, kind) \in OtherItems
    <3>1. <<r, kind>> \in SecretNames /\ NoLock(<<r, kind>>)
      BY DEF SecretNames, NoLock
    <3> QED
      BY <3>1 DEF OtherItems, Items, Item, Added
  <2> QED
    BY <2>1
<1>3. /\ <<>> \in Seq(OtherItems)
      /\ <<Added(r, "cert")>> \in Seq(OtherItems) /\ <<Added(r, "authority")>> \in Seq(OtherItems)
      /\ <<Added(r, "cert"), Added(r, "authority")>> \in Seq(OtherItems)
  BY <1>2
<1> QED
  BY <1>1, <1>3 DEF OtherPlans

LEMMA SecretPlanIs ==
  ASSUME DataOK, NEW r \in Requests
  PROVE  /\ job[r].kind = "create" => LocksFirst(job[r].tenant, Plan(r))
         /\ job[r].kind # "create" => Plan(r) \in Seq(OtherItems)
<1>1. job[r] \in Jobs /\ job[r].tenant \in Tenants
  BY DEF DataOK, Jobs
<1>2. job[r].kind = "create" => Plan(r) = CreationSecrets(job[r].tenant, job[r].options)
  BY DEF Plan
<1>3. job[r].kind # "create" => Plan(r) \in OtherPlans(r, job[r].tenant)
  BY NewCertificatesAre DEF Plan, OtherPlans
<1> QED
  BY <1>1, <1>2, <1>3, CreationLocksFirst, OtherPlansAre

\* The same of the plan after a step, in which the request may have read its tenant.
LEMMA SecretPlanStays ==
  ASSUME DataOK, NEW r \in Requests, job' = job
  PROVE  /\ job[r].kind = "create" => Plan(r)' = Plan(r) /\ LocksFirst(job[r].tenant, Plan(r)')
         /\ job[r].kind # "create" => /\ Plan(r)' \in OtherPlans(r, job[r].tenant)
                                       /\ Plan(r)' \in Seq(OtherItems)
<1>1. job[r] \in Jobs /\ job[r].tenant \in Tenants
  BY DEF DataOK, Jobs
<1>2. job[r].kind = "create" => Plan(r)' = CreationSecrets(job[r].tenant, job[r].options)
                                /\ Plan(r) = CreationSecrets(job[r].tenant, job[r].options)
  BY DEF Plan
<1>3. job[r].kind # "create" => Plan(r)' \in OtherPlans(r, job[r].tenant)
  BY NewCertificatesAre DEF Plan, OtherPlans
<1> QED
  BY <1>1, <1>2, <1>3, CreationLocksFirst, OtherPlansAre

\* The item a request is at.
LEMMA ItemIs ==
  ASSUME DataOK, NEW r \in Requests, NEW k \in DOMAIN Plan(r), k \in Nat
  PROVE  /\ Plan(r)[k] \in Items
         /\ IF job[r].kind = "create" /\ k = 1
              THEN Plan(r)[k] = Item(<<job[r].tenant, "secret">>, "create")
              ELSE NoLock(Plan(r)[k].name)
<1> DEFINE p == Plan(r)
<1>1. CASE job[r].kind = "create"
  <2>1. LocksFirst(job[r].tenant, p)
    BY <1>1, SecretPlanIs
  <2> HIDE DEF p
  <2>2. p \in Seq(Items) /\ Len(p) \in Nat /\ k \in 1 .. Len(p)
    BY <2>1 DEF LocksFirst, p
  <2>3. p[k] \in Items
    BY <2>2
  <2>4. k # 1 => k \in 2 .. Len(p)
    BY <2>2
  <2>5. k # 1 => p[k] \in OtherItems
    BY <2>1, <2>4 DEF LocksFirst
  <2>6. k = 1 => p[k] = Item(<<job[r].tenant, "secret">>, "create")
    BY <2>1 DEF LocksFirst
  <2> QED
    BY <1>1, <2>3, <2>5, <2>6 DEF OtherItems, p
<1>2. CASE job[r].kind # "create"
  <2>1. p \in Seq(OtherItems)
    BY <1>2, SecretPlanIs
  <2> HIDE DEF p
  <2>2. p[k] \in OtherItems
    BY <2>1 DEF p
  <2> QED
    BY <1>2, <2>2 DEF OtherItems, p
<1> QED
  BY <1>1, <1>2

-----------------------------------------------------------------------------
(* A step of request r leaves the others where they are.                     *)

Control(r) ==
  /\ job' = job /\ answer[r] = "none"
  /\ DOMAIN read' = Requests
  /\ pc' \in [Requests -> Labels] /\ step' \in [Requests -> Nat \ {0}]
  /\ answer' \in [Requests -> {"none", "ok", "error"}]
  /\ \A q \in Requests \ {r} :
       /\ pc'[q] = pc[q] /\ step'[q] = step[q]
       /\ answer'[q] = answer[q] /\ read'[q] = read[q]
  /\ Placed(r)'

LEMMA OtherRequestsStay ==
  ASSUME SecretsIInv, NEW r \in Requests, Control(r)
  PROVE  /\ \A q \in Requests : Placed(q)'
         /\ \A q \in Requests \ {r} : Creating(q)' <=> Creating(q)
         /\ \A t : Deleted(t)' <=> Deleted(t)
         /\ \A w : Spent(w) => Spent(w)'
<1>1. ASSUME NEW q \in Requests \ {r} PROVE Placed(q)'
  <2>1. Plan(q)' = Plan(q)
    BY <1>1 DEF Plan, Control
  <2>2. Placed(q)
    BY <1>1 DEF SecretsIInv
  <2> QED
    BY <1>1, <2>1, <2>2 DEF Placed, Control
<1>2. Placed(r)'
  BY DEF Control
<1>3. ASSUME NEW q \in Requests \ {r} PROVE Creating(q)' <=> Creating(q)
  BY <1>3 DEF Creating, Control
<1>4. ASSUME NEW t PROVE Deleted(t)' <=> Deleted(t)
  BY DEF Deleted, Deletes, Control
<1>5. ASSUME NEW w, Spent(w) PROVE Spent(w)'
  <2>1. PICK q \in Requests : w = q /\ (answer[q] = "error" \/ job[q].kind \in {"security", "certificates"})
    BY <1>5 DEF Spent
  <2>2. answer[q] = "error" => answer'[q] = "error"
    BY DEF Control
  <2> QED
    BY <2>1, <2>2 DEF Spent, Control
<1> QED
  BY <1>1, <1>2, <1>3, <1>4, <1>5

LEMMA FinishControls ==
  ASSUME DataOK, NEW r \in Requests, job' = job, answer[r] = "none",
         NEW a \in {"ok", "error"}, Finish(r, a), UNCHANGED <<step, read>>
  PROVE  Control(r) /\ ~Creating(r)'
<1>1. pc' \in [Requests -> Labels] /\ pc'[r] = "done" /\ \A q \in Requests \ {r} : pc'[q] = pc[q]
  BY DEF DataOK, Finish, Labels
<1>2. /\ answer' \in [Requests -> {"none", "ok", "error"}] /\ answer'[r] = a
      /\ \A q \in Requests \ {r} : answer'[q] = answer[q]
  BY DEF DataOK, Finish
<1>3. Placed(r)'
  BY <1>1, <1>2 DEF Placed
<1> QED
  BY <1>1, <1>2, <1>3 DEF Control, Creating, DataOK

LEMMA GotoControls ==
  ASSUME DataOK, NEW r \in Requests, Placed(r), job' = job, answer[r] = "none",
         NEW l \in {"secret", "integrate", "cleanup", "delete", "claims", "secrets", "remove"}, Goto(r, l),
         step' = step, DOMAIN read' = Requests, \A q \in Requests \ {r} : read'[q] = read[q],
         l = "secret" => read' = read /\ pc[r] = "replace",
         l \in {"integrate", "cleanup"} => job[r].kind = "create" /\ step[r] > 1,
         l \in {"delete", "claims", "secrets"} => job[r].kind = "delete",
         l = "remove" => job[r].kind # "create"
  PROVE  Control(r)
<1>1. /\ pc' \in [Requests -> Labels] /\ pc'[r] = l /\ \A q \in Requests \ {r} : pc'[q] = pc[q]
      /\ answer' = answer
  BY DEF DataOK, Goto, Labels
<1>2. l = "secret" => Plan(r)' = Plan(r)
  BY DEF Plan
<1>3. Placed(r)'
  BY <1>1, <1>2 DEF Placed
<1> QED
  BY <1>1, <1>3 DEF Control, DataOK

LEMMA ToItemControls ==
  ASSUME DataOK, NEW r \in Requests, job' = job, answer[r] = "none",
         job[r].kind \notin {"none", "delete"}, NEW k \in Nat \ {0}, ToItem(r, k),
         DOMAIN read' = Requests, \A q \in Requests \ {r} : read'[q] = read[q]
  PROVE  Control(r) /\ (Creating(r)' <=> job[r].kind = "create" /\ k > 1)
<1> DEFINE plan == Plan(r)'
<1>1. /\ plan \in Seq(Items) /\ Len(plan) \in Nat /\ DOMAIN plan = 1 .. Len(plan)
      /\ job[r].kind = "create" => Len(plan) # 0
  <2>1. plan \in Seq(Items) \/ plan \in Seq(OtherItems)
    BY SecretPlanStays DEF LocksFirst
  <2>2. plan \in Seq(Items)
    BY <2>1 DEF OtherItems
  <2>3. job[r].kind = "create" => Len(plan) # 0
    BY SecretPlanStays DEF LocksFirst
  <2> HIDE DEF plan
  <2> QED
    BY <2>2, <2>3
<1> DEFINE l == IF k <= Len(plan) THEN IF plan[k].how = "replace" THEN "replace" ELSE "secret"
                ELSE CASE job[r].kind = "create" -> "tenant"
                       [] job[r].kind = "security" -> "update"
                       [] OTHER -> "restart"
<1>2. step' = [step EXCEPT ![r] = k] /\ pc' = [pc EXCEPT ![r] = l] /\ answer' = answer
  BY DEF ToItem, Goto
<1>3. /\ l \in {"replace", "secret"} => k \in DOMAIN plan
      /\ l = "replace" => plan[k].how = "replace"
  <2> HIDE DEF plan
  <2> QED
    BY <1>1
<1>4. /\ l \in {"replace", "secret", "tenant", "update", "restart"}
      /\ l = "tenant" => job[r].kind = "create" /\ k > 1
      /\ l \in {"update", "restart"} => job[r].kind # "create"
  <2> HIDE DEF plan
  <2> QED
    BY <1>1
<1> HIDE DEF l
<1>5. /\ pc' \in [Requests -> Labels] /\ pc'[r] = l /\ \A q \in Requests \ {r} : pc'[q] = pc[q]
      /\ step' \in [Requests -> Nat \ {0}] /\ step'[r] = k /\ \A q \in Requests \ {r} : step'[q] = step[q]
  BY <1>2, <1>4 DEF DataOK, Labels
<1>6. Placed(r)'
  BY <1>2, <1>3, <1>4, <1>5 DEF Placed
<1>7. Control(r)
  BY <1>2, <1>5, <1>6 DEF Control, DataOK
<1> QED
  BY <1>4, <1>5, <1>7 DEF Creating

-----------------------------------------------------------------------------
(* What becomes of the secrets in a step of request r.                       *)

\* No secret is written, and no lock goes but of a tenant that is deleted.
LEMMA ShrinkKeeps ==
  ASSUME SecretsIInv, NEW r \in Requests, Control(r), Creating(r)' => Creating(r),
         secrets' \subseteq secrets,
         \A t \in Tenants : Deleted(t) \/ Lock(t) \subseteq secrets'
  PROVE  SecretsIInv'
<1>1. /\ \A q \in Requests : Placed(q)'
      /\ \A q \in Requests : Creating(q)' => Creating(q)
      /\ \A t : Deleted(t)' <=> Deleted(t)
      /\ \A w : Spent(w) => Spent(w)'
  BY OtherRequestsStay
<1>2. DataOK'
  BY DEF SecretsIInv, DataOK, Control
<1>3. LocksLabelled'
  BY DEF SecretsIInv, LocksLabelled
<1>4. \A t \in Tenants : Deleted(t) \/ Lock(t)' = Lock(t)
  BY DEF Lock
<1>5. ASSUME NEW q \in Requests PROVE HasLock(q)'
  <2>1. job[q].tenant \in Tenants /\ job'[q] = job[q]
    BY DEF SecretsIInv, DataOK, Jobs, Control
  <2>2. HasLock(q)
    BY DEF SecretsIInv
  <2>3. Labelled(job[q].tenant)' \subseteq Labelled(job[q].tenant)
    BY <2>1 DEF Labelled
  <2> QED
    BY <1>1, <1>4, <2>1, <2>2, <2>3 DEF HasLock
<1>6. ASSUME NEW t \in Tenants PROVE Left(t)'
  <2>1. Left(t) /\ Labelled(t)' \subseteq Labelled(t)
    BY DEF SecretsIInv, Labelled
  <2> QED
    BY <1>1, <1>4, <2>1 DEF Left
<1> QED
  BY <1>1, <1>2, <1>3, <1>5, <1>6 DEF SecretsIInv

Written(r, n) == [name |-> n, tenant |-> job[r].tenant, by |-> r]

\* A secret is written that is no lock.
LEMMA WriteKeeps ==
  ASSUME SecretsIInv, NEW r \in Requests, Control(r), Creating(r)' => Creating(r),
         NEW n \in SecretNames, NoLock(n), secrets' = Without(n) \cup {Written(r, n)},
         Creating(r) \/ job[r].kind \in {"security", "certificates"}
  PROVE  SecretsIInv'
<1>1. /\ \A q \in Requests : Placed(q)'
      /\ \A q \in Requests : Creating(q)' => Creating(q)
      /\ \A t : Deleted(t)' <=> Deleted(t)
      /\ \A w : Spent(w) => Spent(w)'
  BY OtherRequestsStay
<1> DEFINE u == job[r].tenant
           new == Written(r, n)
<1>2. u \in Tenants /\ new \in Secrets /\ new.name = n /\ new.tenant = u /\ new.by = r
  BY DEF SecretsIInv, DataOK, Jobs, Written, Secrets, Writers
<1> HIDE DEF new
<1>3. secrets' = Without(n) \cup {new}
  BY DEF new
<1>4. DataOK'
  BY <1>2, <1>3 DEF SecretsIInv, DataOK, Control, Without
<1>5. LocksLabelled'
  BY <1>2, <1>3 DEF SecretsIInv, LocksLabelled, NoLock, Without
<1>6. \A t \in Tenants : Lock(t)' = Lock(t)
  BY <1>2, <1>3 DEF Lock, NoLock, Without
<1>7. \A t \in Tenants : \A s \in Labelled(t)' : s \in Labelled(t) \/ (s = new /\ t = u)
  BY <1>2, <1>3 DEF Labelled, Without
<1>8. job[r].kind \in {"security", "certificates"} => Spent(r)
  BY DEF Spent
<1>9. ASSUME NEW q \in Requests PROVE HasLock(q)'
  <2> SUFFICES ASSUME Creating(q)', ~Deleted(job[q].tenant)'
               PROVE  HasLock(q)'
    BY DEF HasLock
  <2> DEFINE t == job[q].tenant
  <2>1. t \in Tenants /\ job' = job
    BY DEF SecretsIInv, DataOK, Jobs, Control
  <2>2. /\ \E s \in Lock(t) : s.by = q
        /\ \A s \in Labelled(t) : s.by = q \/ Spent(s.by)
    BY <1>1, <2>1 DEF SecretsIInv, HasLock
  <2>3. CASE t # u
    BY <1>1, <1>6, <1>7, <2>1, <2>2, <2>3 DEF HasLock
  <2>4. CASE t = u /\ Creating(r)
    <3>1. \E s \in Lock(t) : s.by = r
      BY <1>1, <2>1, <2>4 DEF SecretsIInv, HasLock
    <3>2. q = r
      BY <2>2, <3>1 DEF SecretsIInv, DataOK, Lock
    <3> QED
      BY <1>1, <1>2, <1>6, <1>7, <2>1, <2>2, <2>4, <3>2 DEF HasLock
  <2>5. CASE t = u /\ Spent(r)
    BY <1>1, <1>2, <1>6, <1>7, <2>1, <2>2, <2>5 DEF HasLock
  <2> QED
    BY <1>8, <2>3, <2>4, <2>5
<1>10. ASSUME NEW t \in Tenants PROVE Left(t)'
  <2> SUFFICES ASSUME ~Deleted(t)', Lock(t)' = {}
               PROVE  \A s \in Labelled(t)' : Spent(s.by)'
    BY DEF Left
  <2>1. \A s \in Labelled(t) : Spent(s.by)
    BY <1>1, <1>6 DEF SecretsIInv, Left
  <2>2. CASE t # u
    BY <1>1, <1>7, <2>1, <2>2
  <2>3. CASE t = u
    <3>1. Spent(r)
      BY <1>1, <1>6, <1>8, <2>3 DEF SecretsIInv, HasLock
    <3> QED
      BY <1>1, <1>2, <1>7, <2>1, <2>3, <3>1
  <2> QED
    BY <2>2, <2>3
<1> QED
  BY <1>1, <1>4, <1>5, <1>9, <1>10 DEF SecretsIInv

\* A creation writes the lock, which nobody has.
LEMMA TakeLockKeeps ==
  ASSUME SecretsIInv, NEW r \in Requests, Control(r), job[r].kind = "create",
         NEW n, n = <<job[r].tenant, "secret">>, ~Exists(n),
         secrets' = Without(n) \cup {Written(r, n)}
  PROVE  SecretsIInv'
<1>1. /\ \A q \in Requests : Placed(q)'
      /\ \A q \in Requests \ {r} : Creating(q)' => Creating(q)
      /\ \A t : Deleted(t)' <=> Deleted(t)
      /\ \A w : Spent(w) => Spent(w)'
  BY OtherRequestsStay
<1> DEFINE u == job[r].tenant
           new == Written(r, n)
<1>2. u \in Tenants /\ n \in SecretNames /\ new \in Secrets /\ new.name = n /\ new.tenant = u /\ new.by = r
  BY DEF SecretsIInv, DataOK, Jobs, Written, Secrets, Writers, SecretNames
<1> HIDE DEF new
<1>3. secrets' = secrets \cup {new} /\ \A s \in secrets : s.name # n
  BY DEF new, Without, Exists
<1>4. DataOK'
  BY <1>2, <1>3 DEF SecretsIInv, DataOK, Control
<1>5. LocksLabelled'
  BY <1>2, <1>3 DEF SecretsIInv, LocksLabelled
<1>6. /\ \A t \in Tenants : t = u => Lock(t) = {} /\ Lock(t)' # {} /\ \E s \in Lock(t)' : s.by = r
      /\ \A t \in Tenants : \A s \in Lock(t) : s \in Lock(t)'
  <2>1. \A t \in Tenants : t = u => Lock(t) = {}
    BY <1>2, <1>3 DEF Lock
  <2>2. \A t \in Tenants : t = u => new \in Lock(t)'
    BY <1>2, <1>3 DEF Lock
  <2>3. \A t \in Tenants : \A s \in Lock(t) : s \in Lock(t)'
    BY <1>3 DEF Lock
  <2> QED
    BY <1>2, <2>1, <2>2, <2>3
<1>7. \A t \in Tenants : \A s \in Labelled(t)' : s \in Labelled(t) \/ (s = new /\ t = u)
  BY <1>2, <1>3 DEF Labelled
<1>8. ASSUME NEW q \in Requests PROVE HasLock(q)'
  <2> SUFFICES ASSUME Creating(q)', ~Deleted(job[q].tenant)
               PROVE  HasLock(q)'
    <3>1. job' = job
      BY DEF Control
    <3> QED
      BY <1>1, <3>1 DEF HasLock
  <2> DEFINE t == job[q].tenant
  <2>1. t \in Tenants /\ job' = job
    BY DEF SecretsIInv, DataOK, Jobs, Control
  <2>2. CASE q = r
    <3>1. \A s \in Labelled(u) : Spent(s.by)
      BY <1>2, <1>6, <2>2 DEF SecretsIInv, Left
    <3> QED
      BY <1>1, <1>2, <1>6, <1>7, <2>1, <2>2, <3>1 DEF HasLock
  <2>3. CASE q # r
    <3>1. /\ \E s \in Lock(t) : s.by = q
          /\ \A s \in Labelled(t) : s.by = q \/ Spent(s.by)
      BY <1>1, <2>3 DEF SecretsIInv, HasLock
    <3>2. t # u
      BY <1>6, <2>1, <3>1
    <3> QED
      BY <1>1, <1>6, <1>7, <2>1, <3>1, <3>2 DEF HasLock
  <2> QED
    BY <2>2, <2>3
<1>9. ASSUME NEW t \in Tenants PROVE Left(t)'
  <2>1. CASE t = u
    BY <1>6, <2>1 DEF Left
  <2>2. CASE t # u
    <3>1. Left(t)
      BY DEF SecretsIInv
    <3> QED
      BY <1>1, <1>6, <1>7, <2>2, <3>1 DEF Left
  <2> QED
    BY <2>1, <2>2
<1> QED
  BY <1>1, <1>4, <1>5, <1>8, <1>9 DEF SecretsIInv

-----------------------------------------------------------------------------
(* One lemma per action that is more than a quiet step.                      *)

LEMMA FailControls ==
  ASSUME DataOK, NEW r \in Requests, Placed(r), job' = job, pc[r] # "done", Fail(r),
         UNCHANGED <<step, read>>
  PROVE  Control(r) /\ (Creating(r)' => Creating(r))
<1>1. answer[r] = "none"
  BY DEF Placed, DataOK
<1>2. CASE job[r].kind = "create" /\ step[r] > 1
  <2>1. Goto(r, "cleanup")
    BY <1>2 DEF Fail
  <2>2. Control(r)
    BY <1>1, <1>2, <2>1, GotoControls DEF DataOK
  <2> QED
    BY <1>2, <2>2 DEF Creating
<1>3. CASE ~(job[r].kind = "create" /\ step[r] > 1)
  BY <1>1, <1>3, FinishControls DEF Fail
<1> QED
  BY <1>2, <1>3

LEMMA QuietKeeps ==
  ASSUME SecretsIInv, NEW r \in Requests, Control(r), Creating(r)' => Creating(r), secrets' = secrets
  PROVE  SecretsIInv'
BY ShrinkKeeps DEF Lock

LEMMA CleanupKeeps ==
  ASSUME SecretsIInv, NEW r \in Requests, job' = job, Cleanup(r)
  PROVE  SecretsIInv'
<1>1. /\ Placed(r) /\ DataOK /\ pc[r] = "cleanup" /\ job[r].kind = "create" /\ step[r] > 1
      /\ job[r].tenant \in Tenants
  BY DEF SecretsIInv, Cleanup, Placed, DataOK, Jobs
<1>2. Creating(r)
  BY <1>1 DEF Creating
<1>3. Control(r) /\ ~Creating(r)'
  BY <1>1, FinishControls DEF Cleanup, Placed, DataOK
<1>4. /\ \A q \in Requests : Placed(q)'
      /\ \A q \in Requests \ {r} : Creating(q)' <=> Creating(q)
      /\ \A t : Deleted(t)' <=> Deleted(t)
      /\ \A w : Spent(w) => Spent(w)'
  BY <1>3, OtherRequestsStay
<1>5. Spent(r)'
  <2>1. answer'[r] = "error"
    BY <1>1 DEF Cleanup, Finish, DataOK
  <2> QED
    BY <2>1 DEF Spent
<1> DEFINE u == job[r].tenant
<1>6. secrets' \subseteq secrets /\ \A s \in secrets : s \in secrets' \/ s.tenant = u
  BY DEF Cleanup, Swept, Labelled
<1>7. DataOK'
  BY <1>3, <1>6 DEF SecretsIInv, DataOK, Control
<1>8. LocksLabelled'
  BY <1>6 DEF SecretsIInv, LocksLabelled
<1>9. \A t \in Tenants : t # u => Lock(t)' = Lock(t)
  BY <1>6 DEF SecretsIInv, LocksLabelled, Lock
<1>10. \A t \in Tenants : \A s \in Labelled(t)' : s \in Labelled(t)
  BY <1>6 DEF Labelled
<1>11. ASSUME NEW q \in Requests PROVE HasLock(q)'
  <2> SUFFICES ASSUME Creating(q)', ~Deleted(job[q].tenant)
               PROVE  HasLock(q)'
    BY <1>3, <1>4 DEF HasLock, Control
  <2>1. job[q].tenant \in Tenants /\ q # r /\ job' = job
    BY <1>1, <1>3 DEF DataOK, Jobs
  <2>2. /\ \E s \in Lock(job[q].tenant) : s.by = q
        /\ \A s \in Labelled(job[q].tenant) : s.by = q \/ Spent(s.by)
    BY <1>4, <2>1 DEF SecretsIInv, HasLock
  <2>3. job[q].tenant # u
    <3>1. SUFFICES ASSUME job[q].tenant = u
                   PROVE  FALSE
      OBVIOUS
    <3>2. \E s \in Lock(u) : s.by = r
      BY <1>2, <3>1 DEF SecretsIInv, HasLock
    <3> QED
      BY <2>1, <2>2, <3>1, <3>2 DEF SecretsIInv, DataOK, Lock
  <2> QED
    BY <1>4, <1>9, <1>10, <2>1, <2>2, <2>3 DEF HasLock
<1>12. ASSUME NEW t \in Tenants PROVE Left(t)'
  <2>1. CASE t # u
    <3>1. Left(t)
      BY DEF SecretsIInv
    <3> QED
      BY <1>4, <1>9, <1>10, <2>1, <3>1 DEF Left
  <2>2. CASE t = u /\ ~Deleted(t)
    <3>1. \A s \in Labelled(t) : s.by = r \/ Spent(s.by)
      BY <1>2, <2>2 DEF SecretsIInv, HasLock
    <3> QED
      BY <1>4, <1>5, <1>10, <3>1 DEF Left
  <2>3. CASE Deleted(t)
    BY <1>4, <2>3 DEF Left
  <2> QED
    BY <2>1, <2>2, <2>3
<1> QED
  BY <1>4, <1>7, <1>8, <1>11, <1>12 DEF SecretsIInv

LEMMA GetTenantKeeps ==
  ASSUME SecretsIInv, NEW r \in Requests, job' = job, GetTenant(r)
  PROVE  SecretsIInv'
<1>1. /\ DataOK /\ Placed(r) /\ pc[r] = "start" /\ job[r].kind \notin {"create", "none"}
      /\ secrets' = secrets
  BY DEF SecretsIInv, GetTenant, cluster
<1>2. answer[r] = "none"
  BY <1>1 DEF Placed, DataOK
<1>3. ~Creating(r)'
  BY <1>1 DEF Creating
<1>4. CASE Finish(r, "error") /\ UNCHANGED <<read, step>>
  BY <1>1, <1>2, <1>4, FinishControls, QuietKeeps
<1>5. CASE /\ read' = [read EXCEPT ![r] = Live(job[r].tenant)]
           /\ IF job[r].kind = "delete" THEN Goto(r, "delete") /\ UNCHANGED step ELSE ToItem(r, 1)
  <2>1. DOMAIN read' = Requests /\ \A q \in Requests \ {r} : read'[q] = read[q]
    BY <1>1, <1>5 DEF DataOK
  <2>2. CASE job[r].kind = "delete"
    <3>1. Control(r)
      BY <1>1, <1>2, <1>5, <2>1, <2>2, GotoControls
    <3> QED
      BY <1>1, <1>3, <3>1, QuietKeeps
  <2>3. CASE job[r].kind # "delete"
    <3>1. Control(r)
      BY <1>1, <1>2, <1>5, <2>1, <2>3, ToItemControls
    <3> QED
      BY <1>1, <1>3, <3>1, QuietKeeps
  <2> QED
    BY <2>2, <2>3
<1> QED
  BY <1>4, <1>5 DEF GetTenant

LEMMA DeleteOldSecretKeeps ==
  ASSUME SecretsIInv, NEW r \in Requests, job' = job, DeleteOldSecret(r)
  PROVE  SecretsIInv'
<1>1. /\ DataOK /\ Placed(r) /\ pc[r] = "replace" /\ UNCHANGED <<step, read>> /\ Goto(r, "secret")
      /\ secrets' \in {secrets, Without(Plan(r)[step[r]].name)}
  BY DEF SecretsIInv, DeleteOldSecret
<1>2. /\ step[r] \in DOMAIN Plan(r) /\ step[r] \in Nat /\ Plan(r)[step[r]].how = "replace"
      /\ answer[r] = "none"
  BY <1>1 DEF Placed, DataOK
<1>3. Control(r)
  BY <1>1, <1>2, GotoControls DEF DataOK
<1>4. Creating(r)' => Creating(r)
  BY <1>1 DEF Creating
<1>5. NoLock(Plan(r)[step[r]].name)
  <2>1. \A n : Item(n, "create").how # "replace"
    BY DEF Item
  <2> QED
    BY <1>1, <1>2, <2>1, ItemIs
<1>6. \A t \in Tenants : Lock(t) \subseteq secrets'
  BY <1>1, <1>5 DEF Lock, NoLock, Without
<1>7. secrets' \subseteq secrets
  BY <1>1 DEF Without
<1> QED
  BY <1>3, <1>4, <1>6, <1>7, ShrinkKeeps

LEMMA CreateSecretKeeps ==
  ASSUME SecretsIInv, NEW r \in Requests, job' = job, CreateSecret(r)
  PROVE  SecretsIInv'
<1> DEFINE i == Plan(r)[step[r]]
           k == step[r]
<1>1. /\ DataOK /\ Placed(r) /\ pc[r] = "secret" /\ read' = read
      /\ job[r].kind \notin {"none", "delete"} /\ k \in DOMAIN Plan(r) /\ k \in Nat \ {0}
      /\ answer[r] = "none" /\ job[r] \in Jobs
  BY DEF SecretsIInv, CreateSecret, Placed, DataOK
<1>2. /\ i \in Items
      /\ IF job[r].kind = "create" /\ k = 1
           THEN i = Item(<<job[r].tenant, "secret">>, "create")
           ELSE NoLock(i.name)
  BY <1>1, ItemIs
<1>3. Control(r) /\ (Creating(r)' => job[r].kind = "create" /\ (k > 1 \/ ToItem(r, k + 1)))
  <2>1. CASE ToItem(r, k + 1)
    BY <1>1, <2>1, ToItemControls DEF DataOK
  <2>2. CASE Fail(r) /\ UNCHANGED step
    BY <1>1, <2>2, FailControls DEF Creating
  <2> QED
    BY <2>1, <2>2 DEF CreateSecret
<1>4. CASE job[r].kind = "create" /\ k = 1
  <2>1. i.name = <<job[r].tenant, "secret">> /\ i.how # "upsert"
    BY <1>2, <1>4 DEF Item
  <2>2. CASE secrets' = Without(i.name) \cup {Written(r, i.name)} /\ ~Exists(i.name)
    BY <1>3, <1>4, <2>1, <2>2, TakeLockKeeps
  <2>3. CASE secrets' = secrets /\ Fail(r) /\ UNCHANGED step
    <3>1. ~Creating(r)'
      BY <1>4, <2>3 DEF Creating
    <3> QED
      BY <1>3, <2>3, <3>1, QuietKeeps
  <2> QED
    BY <2>1, <2>2, <2>3 DEF CreateSecret, Written
<1>5. CASE ~(job[r].kind = "create" /\ k = 1)
  <2>1. Creating(r) \/ job[r].kind \in {"security", "certificates"}
    BY <1>1, <1>5 DEF Creating, Jobs
  <2>2. Creating(r)' => Creating(r)
    BY <1>3, <2>1
  <2>3. i.name \in SecretNames /\ NoLock(i.name)
    BY <1>2, <1>5 DEF Items
  <2>4. CASE secrets' = Without(i.name) \cup {Written(r, i.name)}
    BY <1>3, <2>1, <2>2, <2>3, <2>4, WriteKeeps
  <2>5. CASE secrets' = secrets
    BY <1>3, <2>2, <2>5, QuietKeeps
  <2> QED
    BY <2>4, <2>5 DEF CreateSecret, Written
<1> QED
  BY <1>4, <1>5

\* The actions that leave the secrets alone.
LEMMA QuietStepKeeps ==
  ASSUME SecretsIInv, NEW r \in Requests, job' = job,
         \/ BeginCreation(r) \/ NoCertificates(r) \/ InvalidInput(r) \/ CreateTenant(r) \/ Integrate(r)
         \/ DeleteTenant(r) \/ DeleteClaims(r) \/ UpdateTenant(r) \/ RestartPods(r)
  PROVE  SecretsIInv'
<1>1. DataOK /\ Placed(r)
  BY DEF SecretsIInv
<1>2. ASSUME pc[r] # "done", NEW a \in {"ok", "error"}, Finish(r, a), UNCHANGED <<secrets, step, read>>
      PROVE  SecretsIInv'
  <2>1. answer[r] = "none"
    BY <1>1, <1>2 DEF Placed, DataOK
  <2>2. Control(r) /\ ~Creating(r)'
    BY <1>1, <1>2, <2>1, FinishControls
  <2> QED
    BY <1>2, <2>2, QuietKeeps
<1>3. ASSUME pc[r] # "done", Fail(r), UNCHANGED <<secrets, step, read>>
      PROVE  SecretsIInv'
  <2>1. Control(r) /\ (Creating(r)' => Creating(r))
    BY <1>1, <1>3, FailControls
  <2> QED
    BY <1>3, <2>1, QuietKeeps
<1>4. ASSUME pc[r] # "done", NEW l \in {"integrate", "claims", "secrets", "remove"}, Goto(r, l),
             l = "integrate" => job[r].kind = "create" /\ step[r] > 1,
             l \in {"claims", "secrets"} => job[r].kind = "delete",
             l = "remove" => job[r].kind # "create",
             UNCHANGED <<secrets, step, read>>
      PROVE  SecretsIInv'
  <2>1. answer[r] = "none"
    BY <1>1, <1>4 DEF Placed, DataOK
  <2>2. DOMAIN read' = Requests /\ \A q \in Requests \ {r} : read'[q] = read[q]
    BY <1>1, <1>4 DEF DataOK
  <2>3. Control(r)
    BY <1>1, <1>4, <2>1, <2>2, GotoControls
  <2>4. Creating(r)' => Creating(r)
    BY <1>4 DEF Creating
  <2> QED
    BY <1>4, <2>3, <2>4, QuietKeeps
<1>5. CASE BeginCreation(r)
  <2>1. /\ pc[r] = "start" /\ job[r].kind = "create" /\ read' = read /\ secrets' = secrets
        /\ ToItem(r, 1) /\ answer[r] = "none"
    BY <1>1, <1>5 DEF BeginCreation, cluster, Placed, DataOK
  <2>2. Control(r) /\ ~Creating(r)'
    BY <1>1, <2>1, ToItemControls DEF DataOK
  <2> QED
    BY <2>1, <2>2, QuietKeeps
<1>6. CASE NoCertificates(r)
  BY <1>2, <1>6 DEF NoCertificates, cluster
<1>7. CASE InvalidInput(r)
  BY <1>3, <1>7 DEF InvalidInput, cluster
<1>8. CASE CreateTenant(r)
  <2>1. pc[r] = "tenant" /\ UNCHANGED <<secrets, step, read>> /\ job[r].kind = "create" /\ step[r] > 1
    BY <1>1, <1>8 DEF CreateTenant, Placed
  <2>2. Goto(r, "integrate") \/ Finish(r, "ok") \/ Fail(r)
    BY <1>8 DEF CreateTenant
  <2> QED
    BY <1>2, <1>3, <1>4, <2>1, <2>2
<1>9. CASE Integrate(r)
  BY <1>2, <1>3, <1>9 DEF Integrate, cluster
<1>10. CASE DeleteTenant(r)
  <2>1. pc[r] = "delete" /\ UNCHANGED <<secrets, step, read>> /\ job[r].kind = "delete"
    BY <1>1, <1>10 DEF DeleteTenant, Placed
  <2>2. Goto(r, "claims") \/ Finish(r, "ok") \/ Finish(r, "error")
    BY <1>10 DEF DeleteTenant
  <2> QED
    BY <1>2, <1>4, <2>1, <2>2
<1>11. CASE DeleteClaims(r)
  <2>1. pc[r] = "claims" /\ UNCHANGED <<secrets, read>> /\ job[r].kind = "delete" /\ answer[r] = "none"
    BY <1>1, <1>11 DEF DeleteClaims, Placed, DataOK
  <2>2. \/ step' = [step EXCEPT ![r] = @ + 1] /\ UNCHANGED <<pc, answer>>
        \/ Goto(r, "secrets") /\ UNCHANGED step
        \/ Finish(r, "error") /\ UNCHANGED step
    BY <1>11 DEF DeleteClaims
  <2>3. CASE step' = [step EXCEPT ![r] = @ + 1] /\ UNCHANGED <<pc, answer>>
    <3>1. step' \in [Requests -> Nat \ {0}] /\ \A q \in Requests \ {r} : step'[q] = step[q]
      BY <1>1, <2>3 DEF DataOK
    <3>2. Placed(r)'
      BY <1>1, <2>1, <2>3 DEF Placed
    <3>3. Control(r)
      BY <1>1, <2>1, <2>3, <3>1, <3>2 DEF Control, DataOK
    <3>4. ~Creating(r)'
      BY <2>1 DEF Creating
    <3> QED
      BY <2>1, <3>3, <3>4, QuietKeeps
  <2> QED
    BY <1>2, <1>4, <2>1, <2>2, <2>3
<1>12. CASE UpdateTenant(r)
  <2>1. pc[r] = "update" /\ UNCHANGED <<secrets, step, read>> /\ job[r].kind # "create"
    BY <1>1, <1>12 DEF UpdateTenant, Placed
  <2>2. Goto(r, "remove") \/ Finish(r, "error")
    BY <1>12 DEF UpdateTenant
  <2> QED
    BY <1>2, <1>4, <2>1, <2>2
<1>13. CASE RestartPods(r)
  BY <1>2, <1>13 DEF RestartPods, cluster
<1> QED
  BY <1>5, <1>6, <1>7, <1>8, <1>9, <1>10, <1>11, <1>12, <1>13

LEMMA DeleteSecretsKeeps ==
  ASSUME SecretsIInv, NEW r \in Requests, job' = job, DeleteSecrets(r)
  PROVE  SecretsIInv'
<1>1. DataOK /\ Placed(r) /\ pc[r] = "secrets" /\ job[r].kind = "delete" /\ answer[r] = "none"
  BY DEF SecretsIInv, DeleteSecrets, Placed, DataOK
<1>2. Control(r) /\ ~Creating(r)'
  BY <1>1, FinishControls DEF DeleteSecrets
<1>3. secrets' \subseteq secrets /\ \A s \in secrets : s \in secrets' \/ s.tenant = job[r].tenant
  BY DEF DeleteSecrets, Swept, Labelled
<1>4. Deleted(job[r].tenant)
  BY <1>1 DEF Deleted, Deletes
<1>5. \A t \in Tenants : Deleted(t) \/ Lock(t) \subseteq secrets'
  BY <1>3, <1>4 DEF SecretsIInv, LocksLabelled, Lock
<1> QED
  BY <1>2, <1>3, <1>5, ShrinkKeeps

LEMMA RemoveSecretsKeeps ==
  ASSUME SecretsIInv, NEW r \in Requests, job' = job, RemoveSecrets(r)
  PROVE  SecretsIInv'
<1>1. DataOK /\ Placed(r) /\ pc[r] = "remove" /\ answer[r] = "none" /\ job[r] \in Jobs
  BY DEF SecretsIInv, RemoveSecrets, Placed, DataOK
<1>2. Control(r) /\ ~Creating(r)'
  BY <1>1, FinishControls DEF RemoveSecrets
<1>3. PICK gone \in SUBSET job[r].remove : secrets' = {s \in secrets : s.name \notin gone}
  BY DEF RemoveSecrets
<1>4. \A n \in gone : NoLock(n)
  <2>1. job[r].remove \subseteq (Tenants \X {"cert"}) \cup {CA}
    BY <1>1 DEF Jobs
  <2>2. ASSUME NEW n \in Tenants \X {"cert"} PROVE NoLock(n)
    BY DEF NoLock
  <2>3. NoLock(CA)
    BY DEF NoLock, CA
  <2> QED
    BY <2>1, <2>2, <2>3
<1>5. \A t \in Tenants : Lock(t) \subseteq secrets'
  BY <1>3, <1>4 DEF Lock, NoLock
<1> QED
  BY <1>2, <1>3, <1>5, ShrinkKeeps

LEMMA SecretsInit ==
  Init => SecretsIInv
<1> SUFFICES ASSUME Init
             PROVE  SecretsIInv
  OBVIOUS
<1>1. PICK sc \in Scenarios :
        /\ job = sc.jobs
        /\ secrets = {[name |-> <<t, k>>, tenant |-> t, by |-> "first"] :
                        t \in sc.first, k \in {"secret", "cert", "env"}}
  BY DEF Init
<1>2. sc.jobs \in [Requests -> Jobs] /\ sc.first \subseteq Tenants
  BY ScenariosAssumption
<1>3. \A r \in Requests : pc[r] = "start" /\ step[r] = 1 /\ answer[r] = "none"
  BY DEF Init
<1>4. \A s \in secrets : \E t \in sc.first, k \in {"secret", "cert", "env"} :
         s = [name |-> <<t, k>>, tenant |-> t, by |-> "first"]
  BY <1>1
<1>5. secrets \subseteq Secrets
  BY <1>2, <1>4 DEF Secrets, SecretNames, Writers
<1>6. \A s, u \in secrets : s.name = u.name => s = u
  BY <1>4
<1>7. DataOK
  BY <1>1, <1>2, <1>5, <1>6 DEF Init, DataOK, Labels
<1>8. \A r \in Requests : Placed(r) /\ HasLock(r)
  BY <1>3 DEF Placed, HasLock, Creating
<1>9. LocksLabelled
  BY <1>4 DEF LocksLabelled
<1>10. ASSUME NEW t \in Tenants PROVE Left(t)
  <2>1. ASSUME NEW s \in Labelled(t) PROVE Lock(t) # {}
    <3>1. t \in sc.first
      BY <1>4, <2>1 DEF Labelled
    <3>2. [name |-> <<t, "secret">>, tenant |-> t, by |-> "first"] \in secrets
      BY <1>1, <3>1
    <3> QED
      BY <3>2 DEF Lock
  <2> QED
    BY <2>1 DEF Left
<1> QED
  BY <1>7, <1>8, <1>9, <1>10 DEF SecretsIInv

LEMMA SecretsStepKeeps ==
  SecretsIInv /\ [Next]_vars => SecretsIInv'
<1> SUFFICES ASSUME SecretsIInv, [Next]_vars
             PROVE  SecretsIInv'
  OBVIOUS
<1>1. CASE UNCHANGED vars
  <2>1. UNCHANGED <<secrets, job, pc, step, read, answer>>
    BY <1>1 DEF vars, cluster
  <2>2. DataOK' /\ LocksLabelled'
    BY <2>1 DEF SecretsIInv, DataOK, LocksLabelled
  <2>3. \A r \in Requests : Placed(r)'
    <3>1. \A r \in Requests : Plan(r)' = Plan(r)
      BY <2>1 DEF Plan
    <3> QED
      BY <2>1, <3>1 DEF SecretsIInv, Placed
  <2>4. /\ \A r \in Requests : Creating(r)' <=> Creating(r)
        /\ \A t : (Deleted(t)' <=> Deleted(t)) /\ Lock(t)' = Lock(t) /\ Labelled(t)' = Labelled(t)
        /\ \A w : Spent(w)' <=> Spent(w)
    BY <2>1 DEF Creating, Deleted, Deletes, Lock, Labelled, Spent
  <2>5. \A r \in Requests : HasLock(r)'
    BY <2>1, <2>4 DEF SecretsIInv, HasLock
  <2>6. \A t \in Tenants : Left(t)'
    BY <2>4 DEF SecretsIInv, Left
  <2> QED
    BY <2>2, <2>3, <2>5, <2>6 DEF SecretsIInv
<1>2. CASE Next
  <2>1. PICK r \in Requests : Step(r)
    BY <1>2 DEF Next
  <2>2. job' = job
    BY <1>2 DEF Next
  <2> QED
    BY <2>1, <2>2, QuietStepKeeps, GetTenantKeeps, DeleteOldSecretKeeps, CreateSecretKeeps, CleanupKeeps,
       DeleteSecretsKeeps, RemoveSecretsKeeps DEF Step
<1> QED
  BY <1>1, <1>2

LEMMA SecretsInductive ==
  Spec => []SecretsIInv
BY SecretsInit, SecretsStepKeeps, PTL DEF Spec

\* One request at a time is past the secret of the root credentials of a tenant to
\* create, unless the tenant is deleted meanwhile.
THEOREM OneCreatorOnly ==
  Spec => []OneCreator
<1>1. SecretsIInv => OneCreator
  <2> SUFFICES ASSUME SecretsIInv, NEW r \in Requests, NEW q \in Requests, Creating(r), Creating(q),
                      job[r].tenant = job[q].tenant, ~Deleted(job[r].tenant)
               PROVE  r = q
    BY DEF OneCreator
  <2>1. (\E s \in Lock(job[r].tenant) : s.by = r) /\ \E s \in Lock(job[r].tenant) : s.by = q
    BY DEF SecretsIInv, HasLock
  <2>2. \A s, u \in secrets : s.name = u.name => s = u
    BY DEF SecretsIInv, DataOK
  <2> QED
    BY <2>1, <2>2 DEF Lock
<1> QED
  BY <1>1, SecretsInductive, PTL

LEMMA CleanupOwns ==
  SecretsIInv /\ [Next]_vars =>
    \A r \in Requests :
      pc[r] = "cleanup" /\ pc'[r] # "cleanup" /\ ~Deleted(job[r].tenant) =>
        \A s \in secrets \ secrets' :
          \/ s.by = r
          \/ \E q \in Requests :
               s.by = q /\ (answer[q] = "error" \/ job[q].kind \in {"security", "certificates"})
<1> SUFFICES ASSUME SecretsIInv, [Next]_vars,
                    NEW r \in Requests, pc[r] = "cleanup", pc'[r] # "cleanup", ~Deleted(job[r].tenant),
                    NEW s \in secrets \ secrets'
             PROVE  s.by = r \/ Spent(s.by)
  BY DEF Spent
<1>1. PICK q \in Requests : Step(q)
  BY DEF Next, vars
<1>2. q = r
  <2>1. \E l : pc' = [pc EXCEPT ![q] = l]
    <3>1. ASSUME Finish(q, "ok") \/ Finish(q, "error") \/ Fail(q) \/ \E l : Goto(q, l)
          PROVE  \E l : pc' = [pc EXCEPT ![q] = l]
      BY <3>1 DEF Finish, Fail, Goto
    <3>2. ASSUME NEW k, ToItem(q, k) PROVE \E l : Goto(q, l)
      BY <3>2 DEF ToItem
    <3>3. ASSUME DeleteClaims(q), UNCHANGED pc PROVE \E l : pc' = [pc EXCEPT ![q] = l]
      <4>1. pc' = [pc EXCEPT ![q] = pc[q]]
        BY <3>3 DEF SecretsIInv, DataOK
      <4> QED
        BY <4>1
    <3>4. CASE BeginCreation(q) \/ GetTenant(q) \/ NoCertificates(q) \/ DeleteOldSecret(q)
      BY <3>1, <3>2, <3>4 DEF BeginCreation, GetTenant, NoCertificates, DeleteOldSecret
    <3>5. CASE InvalidInput(q) \/ CreateSecret(q) \/ CreateTenant(q) \/ Integrate(q)
      BY <3>1, <3>2, <3>5 DEF InvalidInput, CreateSecret, CreateTenant, Integrate
    <3>6. CASE Cleanup(q) \/ DeleteTenant(q) \/ DeleteClaims(q) \/ DeleteSecrets(q)
      BY <3>1, <3>3, <3>6 DEF Cleanup, DeleteTenant, DeleteClaims, DeleteSecrets
    <3>7. CASE UpdateTenant(q) \/ RemoveSecrets(q) \/ RestartPods(q)
      BY <3>1, <3>7 DEF UpdateTenant, RemoveSecrets, RestartPods
    <3> QED
      BY <1>1, <3>4, <3>5, <3>6, <3>7 DEF Step
  <2> QED
    BY <2>1 DEF SecretsIInv, DataOK
<1>3. secrets' \in Swept(job[r].tenant)
  BY <1>1, <1>2 DEF Step, BeginCreation, GetTenant, NoCertificates, DeleteOldSecret, InvalidInput,
     CreateSecret, CreateTenant, Integrate, Cleanup, DeleteTenant, DeleteClaims, DeleteSecrets,
     UpdateTenant, RemoveSecrets, RestartPods
<1>4. s \in Labelled(job[r].tenant)
  BY <1>3 DEF Swept
<1>5. Creating(r)
  BY DEF SecretsIInv, Placed, Creating
<1> QED
  BY <1>4, <1>5 DEF SecretsIInv, HasLock

\* The cleanup after a failed creation takes what its request wrote, what failed ones
\* left, or the certificates another request gave the tenant.
THEOREM CleanupTakesOwn ==
  Spec => CleanupIsOwn
BY SecretsInductive, CleanupOwns, PTL DEF Spec, CleanupIsOwn

-----------------------------------------------------------------------------
(* What the lock does not protect are the secrets a tenant that is there      *)
(* needs. The second invariant follows them: until a request about a tenant   *)
(* fails, each secret that the tenant refers to, or that a creation under way *)
(* has written for it, is there or about to be written again.                 *)

OwnNames(t) == {t} \X {"secret", "user", "cert", "kes", "regcred", "env"}

\* A secret of a tenant has its name and label; only the one for the certificates
\* of authorities has another, and those that a change of certificates names.
Belongs(n, t) ==
  \/ n \in OwnNames(t)
  \/ n = CA /\ AsksForCA(t)
  \/ \E q \in Requests : n \in AddedNames(q) /\ job[q].tenant = t

StoredOK ==
  /\ tenants \subseteq StoredTenants
  /\ \A tn, un \in tenants : tn.name = un.name => tn = un
  /\ read \in [Requests -> SUBSET StoredTenants]
  /\ \A r \in Requests : \A tn, un \in read[r] : tn = un
  /\ \A r \in Requests : \A tn \in read[r] : tn.name = job[r].tenant

\* More of where a request can be.
Farther(r) ==
  /\ pc[r] \in {"tenant", "update"} => step[r] > Len(Plan(r))
  /\ pc[r] \in {"update", "remove"} => job[r].kind = "security"

LabelsOK == \A s \in secrets : Belongs(s.name, s.tenant)

\* A certificate that a request names itself is referred to once it updated the tenant.
RefsOK ==
  \A tn \in tenants : \A n \in tn.refs :
    /\ Belongs(n, tn.name)
    /\ \A q \in Requests : n \in AddedNames(q) => pc[q] \in {"remove", "done"}

\* A tenant was created by who says so.
CreatedBy(tn) == \A c \in Requests : tn.version[1] = c => pc[c] \in {"integrate", "cleanup", "done"}

\* No copy of a tenant is newer than the tenant.
VersionsOK ==
  /\ \A tn \in tenants : CreatedBy(tn)
  /\ \A q \in Requests : \A un \in read[q] :
       /\ CreatedBy(un)
       /\ \A tn \in tenants :
            un.name = tn.name /\ un.version[1] = tn.version[1] => un.version[2] <= tn.version[2]

Troubled(t) == \E r \in Requests : job[r].tenant = t /\ Trouble(r)
Good(t) == ~Contested(t) /\ ~Troubled(t)

\* Creations between the first secret and the tenant.
Midway(r) == job[r].kind = "create" /\ step[r] > 1 /\ pc[r] \in {"replace", "secret", "tenant"}

Deleting(d, t) == Deletes(d, t) /\ pc[d] \in {"delete", "claims", "secrets"}

\* The secrets that t refers to, or will once it is created.
Behind(r) == {Plan(r)[k].name : k \in {k \in DOMAIN Plan(r) : k < step[r]}}
Needed(t) ==
  (UNION {tn.refs : tn \in Live(t)})
    \cup (UNION {Behind(r) : r \in {c \in Requests : Creates(c, t) /\ Midway(c)}})

There(t, n) ==
  Exists(n) \/ \E q \in Requests : job[q].kind = "certificates" /\ job[q].tenant = t /\ Replacing(q, n)
ThereForAll(n) == Exists(n) \/ \E q \in Requests : Replacing(q, n)

NameOfLock(t) == <<t, "secret">>

\* The parts of the invariant about one tenant t.
LockStays(t) == Live(t) # {} => Exists(NameOfLock(t))

\* A creation midway is the only one; the tenant is not there, and not being deleted.
Alone(t) ==
  \A r \in Requests : Creates(r, t) /\ Midway(r) =>
    /\ Exists(NameOfLock(t)) /\ Live(t) = {}
    /\ \A q \in Requests : Creates(q, t) /\ Midway(q) => q = r
    /\ \A d \in Requests : ~Deleting(d, t)

DeletionsOK(t) ==
  \A d \in Requests : Deleting(d, t) =>
    /\ (\E c \in Requests : Creates(c, t)) => Exists(NameOfLock(t))
    /\ pc[d] # "delete" => Live(t) = {}

NeededThere(t) == \A n \in Needed(t) \ {CA} : There(t, n)

\* The certificates that a request is about to remove are not referred to.
RemovalsOK(t) ==
  \A r \in Requests, n \in {<<t, "cert">>, CA} :
    pc[r] = "remove" /\ n \in job[r].remove /\ job[r].tenant = t =>
      /\ (n = CA /\ Deleted(t)) \/ \A tn \in Live(t) : n \notin tn.refs
      /\ ~Deleted(t) => Live(t) # {}

\* The certificates of an update are there, if the update can succeed.
UpdatesOK(t) ==
  \A r \in Requests :
    /\ job[r].kind = "security" /\ job[r].tenant = t /\ pc[r] \in {"replace", "secret", "update"}
    /\ read[r] \cap tenants # {}
    => \A n \in Behind(r) : Exists(n)

Kept(t) ==
  Good(t) => /\ LockStays(t) /\ Alone(t) /\ DeletionsOK(t)
             /\ NeededThere(t) /\ RemovalsOK(t) /\ UpdatesOK(t)

AuthoritiesKept ==
  (\A r \in Requests : ~Trouble(r)) =>
    \A t \in Tenants : ~Contested(t) /\ ~Shared(t) /\ CA \in Needed(t) => ThereForAll(CA)

LossIInv ==
  /\ SecretsIInv
  /\ StoredOK
  /\ \A r \in Requests : Farther(r)
  /\ LabelsOK
  /\ RefsOK
  /\ VersionsOK
  /\ \A t \in Tenants : Kept(t)
  /\ AuthoritiesKept

-----------------------------------------------------------------------------
(* The names of the secrets in a plan.                                       *)

\* All items have names in S, each another one.
Distinct(p, S) ==
  /\ p \in Seq(Items)
  /\ \A k \in 1 .. Len(p) : p[k].name \in S
  /\ \A j, k \in 1 .. Len(p) : p[j].name = p[k].name => j = k

LEMMA OneMore ==
  ASSUME NEW p, NEW S, Distinct(p, S), NEW i \in Items, i.name \notin S
  PROVE  Distinct(p \o <<i>>, S \cup {i.name})
<1> DEFINE n == Len(p)
           q == p \o <<i>>
<1>1. p \in Seq(Items) /\ n \in Nat
  BY DEF Distinct
<1>2. /\ q \in Seq(Items) /\ Len(q) = n + 1
      /\ \A k \in 1 .. n + 1 : q[k] = IF k <= n THEN p[k] ELSE i
  BY <1>1
<1>3. /\ \A k \in 1 .. n : p[k].name \in S /\ p[k].name # i.name
      /\ \A j, k \in 1 .. n : p[j].name = p[k].name => j = k
  BY DEF Distinct
<1> HIDE DEF n, q
<1>4. ASSUME NEW k \in 1 .. n + 1
      PROVE  q[k].name \in S \cup {i.name} /\ (q[k].name = i.name => k = n + 1)
  BY <1>1, <1>2, <1>3, <1>4
<1>5. ASSUME NEW j \in 1 .. n + 1, NEW k \in 1 .. n + 1, q[j].name = q[k].name
      PROVE  j = k
  <2>1. CASE j = n + 1
    BY <1>1, <1>2, <1>4, <1>5, <2>1
  <2>2. CASE k = n + 1
    BY <1>1, <1>2, <1>4, <1>5, <2>2
  <2>3. CASE j \in 1 .. n /\ k \in 1 .. n
    BY <1>1, <1>2, <1>3, <1>5, <2>3
  <2> QED
    BY <1>1, <1>5, <2>1, <2>2, <2>3
<1>6. Distinct(q, S \cup {i.name})
  BY <1>2, <1>4, <1>5 DEF Distinct
<1> QED
  BY <1>6 DEF q

LEMMA MaybeOneMore ==
  ASSUME NEW p, NEW S, Distinct(p, S), NEW i \in Items, i.name \notin S,
         NEW T, S \cup {i.name} \subseteq T, NEW os, NEW option
  PROVE  Distinct(p \o (IF option \in os THEN <<i>> ELSE <<>>), T)
<1>1. CASE option \in os
  BY <1>1, OneMore DEF Distinct
<1>2. CASE option \notin os
  <2>1. p \o <<>> = p
    BY ConcatEmptySeq DEF Distinct
  <2> QED
    BY <1>2, <2>1 DEF Distinct
<1> QED
  BY <1>1, <1>2

LEMMA CreationNames ==
  ASSUME NEW t \in Tenants, NEW os
  PROVE  Distinct(CreationSecrets(t, os), OwnNames(t) \cup (IF "ca" \in os THEN {CA} ELSE {}))
<1> DEFINE When(option, i) == IF option \in os THEN <<i>> ELSE <<>>
           Own(k, how) == Item(<<t, k>>, how)
           p1 == <<Own("secret", "create")>>
           p2 == p1 \o When("users", Own("user", "create"))
           p3 == p2 \o When("tls", Own("cert", "replace"))
           p4 == p3 \o When("kes", Own("kes", "replace"))
           p5 == p4 \o When("ca", Item(CA, "replace"))
           p6 == p5 \o When("registry", Own("regcred", "upsert"))
           p7 == p6 \o <<Own("env", "replace")>>
           S1 == {t} \X {"secret"}
           S2 == {t} \X {"secret", "user"}
           S3 == {t} \X {"secret", "user", "cert"}
           S4 == {t} \X {"secret", "user", "cert", "kes"}
           CAs == IF "ca" \in os THEN {CA} ELSE {}
           S5 == S4 \cup CAs
           S6 == ({t} \X {"secret", "user", "cert", "kes", "regcred"}) \cup CAs
<1>1. CreationSecrets(t, os) = p7
  BY DEF CreationSecrets
<1>2. \A k \in {"secret", "user", "cert", "kes", "regcred", "env"}, how \in {"create", "replace", "upsert"} :
        Own(k, how) \in Items /\ Own(k, how).name = <<t, k>>
  BY DEF Items, Item, SecretNames
<1>3. Item(CA, "replace") \in Items /\ Item(CA, "replace").name = CA
  BY DEF Items, Item, SecretNames
<1>4. /\ <<t, "user">> \notin S1 /\ <<t, "cert">> \notin S2 /\ <<t, "kes">> \notin S3 /\ CA \notin S4
      /\ <<t, "regcred">> \notin S5 /\ <<t, "env">> \notin S6
  BY DEF CA
<1>5. /\ S1 \cup {<<t, "user">>} = S2 /\ S2 \cup {<<t, "cert">>} = S3 /\ S3 \cup {<<t, "kes">>} = S4
      /\ S5 \cup {<<t, "regcred">>} = S6 /\ S6 \cup {<<t, "env">>} = OwnNames(t) \cup CAs
      /\ S4 \cup {CA} = IF "ca" \in os THEN S5 ELSE S4 \cup {CA}
  BY DEF OwnNames
<1>6. Distinct(p1, S1)
  BY <1>2 DEF Distinct
<1>7. Distinct(p2, S2)
  <2> DEFINE i == Own("user", "create")
  <2>1. i \in Items /\ i.name \notin S1 /\ S1 \cup {i.name} \subseteq S2
    BY <1>2, <1>4, <1>5
  <2>2. p2 = p1 \o (IF "users" \in os THEN <<i>> ELSE <<>>)
    OBVIOUS
  <2> HIDE DEF i, p2, p1, S1, S2
  <2> QED
    BY <2>1, <2>2, <1>6, MaybeOneMore
<1>8. Distinct(p3, S3)
  <2> DEFINE i == Own("cert", "replace")
  <2>1. i \in Items /\ i.name \notin S2 /\ S2 \cup {i.name} \subseteq S3
    BY <1>2, <1>4, <1>5
  <2>2. p3 = p2 \o (IF "tls" \in os THEN <<i>> ELSE <<>>)
    OBVIOUS
  <2> HIDE DEF i, p3, p2, S2, S3
  <2> QED
    BY <2>1, <2>2, <1>7, MaybeOneMore
<1>9. Distinct(p4, S4)
  <2> DEFINE i == Own("kes", "replace")
  <2>1. i \in Items /\ i.name \notin S3 /\ S3 \cup {i.name} \subseteq S4
    BY <1>2, <1>4, <1>5
  <2>2. p4 = p3 \o (IF "kes" \in os THEN <<i>> ELSE <<>>)
    OBVIOUS
  <2> HIDE DEF i, p4, p3, S3, S4
  <2> QED
    BY <2>1, <2>2, <1>8, MaybeOneMore
<1>10. Distinct(p5, S5)
  <2> DEFINE i == Item(CA, "replace")
  <2>1. i \in Items /\ i.name \notin S4 /\ i.name = CA
    BY <1>3, <1>4
  <2>2. CASE "ca" \in os
    <3>1. p5 = p4 \o <<i>> /\ S5 = S4 \cup {i.name}
      BY <2>1, <2>2
    <3> HIDE DEF i, p4, p5, S4, S5
    <3> QED
      BY <1>9, <2>1, <3>1, OneMore
  <2>3. CASE "ca" \notin os
    <3>1. p4 \o <<>> = p4
      BY <1>9, ConcatEmptySeq DEF Distinct
    <3> HIDE DEF i, p4, S4
    <3> QED
      BY <1>9, <2>3, <3>1
  <2> QED
    BY <2>2, <2>3
<1>11. Distinct(p6, S6)
  <2> DEFINE i == Own("regcred", "upsert")
  <2>1. i \in Items /\ i.name \notin S5 /\ S5 \cup {i.name} \subseteq S6
    BY <1>2, <1>4, <1>5
  <2>2. p6 = p5 \o (IF "registry" \in os THEN <<i>> ELSE <<>>)
    OBVIOUS
  <2> HIDE DEF i, p6, p5, S5, S6
  <2> QED
    BY <2>1, <2>2, <1>10, MaybeOneMore
<1>12. Distinct(p7, OwnNames(t) \cup CAs)
  <2> DEFINE i == Own("env", "replace")
  <2>1. i \in Items /\ i.name \notin S6 /\ S6 \cup {i.name} = OwnNames(t) \cup CAs
    BY <1>2, <1>4, <1>5
  <2>2. p7 = p6 \o <<i>>
    OBVIOUS
  <2> HIDE DEF i, p6, p7, S6
  <2> QED
    BY <2>1, <2>2, <1>11, OneMore
<1> QED
  BY <1>1, <1>12

\* What request r writes, by what it asks for; the plan of a creation or of an update
\* depends on that alone.
LEMMA PlanNames ==
  ASSUME DataOK, NEW r \in Requests
  PROVE  /\ job[r].tenant \in Tenants
         /\ job[r].kind = "create" =>
              Distinct(Plan(r), OwnNames(job[r].tenant) \cup (IF "ca" \in job[r].options THEN {CA} ELSE {}))
         /\ job[r].kind = "security" => Distinct(Plan(r), AddedNames(r))
         /\ job[r].kind \notin {"create", "security"} =>
              Plan(r) \in {<<>>, <<Item(<<job[r].tenant, "cert">>, "replace")>>}
         /\ job[r].kind = "delete" => Plan(r) = <<>>
         /\ job' = job /\ (job[r].kind \in {"create", "security", "delete"} \/ read'[r] = read[r]) => Plan(r)' = Plan(r)
<1>1. job[r].tenant \in Tenants
  BY DEF DataOK, Jobs
<1>2. job[r].kind = "create" => Plan(r) = CreationSecrets(job[r].tenant, job[r].options)
  BY DEF Plan
<1>3. job[r].kind = "security" => Distinct(Plan(r), AddedNames(r))
  <2> DEFINE a == Added(r, "cert")
             b == Added(r, "authority")
  <2>1. /\ a \in Items /\ b \in Items /\ a.name \in AddedNames(r) /\ b.name \in AddedNames(r)
        /\ a.name # b.name
    BY DEF Added, Items, Item, SecretNames, AddedNames
  <2>2. job[r].kind = "security" => Plan(r) \in {<<>>, <<a>>, <<b>>, <<a, b>>}
    BY NewCertificatesAre DEF Plan
  <2> HIDE DEF a, b
  <2>3. Distinct(<<>>, AddedNames(r)) /\ Distinct(<<a>>, AddedNames(r)) /\ Distinct(<<b>>, AddedNames(r))
    BY <2>1 DEF Distinct
  <2>4. Distinct(<<a, b>>, AddedNames(r))
    <3>1. <<a, b>> \in Seq(Items) /\ Len(<<a, b>>) = 2 /\ <<a, b>>[1] = a /\ <<a, b>>[2] = b
      BY <2>1
    <3>2. \A k \in 1 .. 2 : k = 1 \/ k = 2
      OBVIOUS
    <3> QED
      BY <2>1, <3>1, <3>2 DEF Distinct
  <2> QED
    BY <2>2, <2>3, <2>4
<1> QED
  BY <1>1, <1>2, <1>3, CreationNames DEF Plan

-----------------------------------------------------------------------------
(* What a step of request r does, action by action, in the terms of the       *)
(* invariant.                                                                *)

OthersUnmoved(r) ==
  /\ read' \in [Requests -> SUBSET StoredTenants]
  /\ \A q \in Requests \ {r} :
       pc'[q] = pc[q] /\ step'[q] = step[q] /\ answer'[q] = answer[q] /\ read'[q] = read[q]

SecretsEffect(r) ==
  \/ secrets' = secrets
  \/ /\ pc[r] = "replace" /\ pc'[r] = "secret" /\ step'[r] = step[r] /\ read'[r] = read[r]
     /\ secrets' = Without(Plan(r)[step[r]].name)
  \/ pc[r] = "secret" /\ secrets' = Without(Plan(r)[step[r]].name) \cup {Written(r, Plan(r)[step[r]].name)}
  \/ pc[r] \in {"cleanup", "secrets"} /\ secrets' \in Swept(job[r].tenant)
  \/ pc[r] = "remove" /\ \E gone \in SUBSET job[r].remove : secrets' = {s \in secrets : s.name \notin gone}

Fresh(r) == [name |-> job[r].tenant, refs |-> NamesOf(Plan(r)), version |-> <<r, 0>>]
Newer(r, tn) ==
  [name |-> tn.name, refs |-> NewRefs(r, tn.refs), version |-> <<tn.version[1], tn.version[2] + 1>>]

TenantsEffect(r) ==
  \/ tenants' = tenants
  \/ pc[r] = "tenant" /\ Live(job[r].tenant) = {} /\ tenants' = tenants \cup {Fresh(r)}
  \/ pc[r] = "delete" /\ tenants' = tenants \ Live(job[r].tenant)
  \/ /\ pc[r] = "update"
     /\ \E tn \in Live(job[r].tenant) \cap read[r] : tenants' = (tenants \ {tn}) \cup {Newer(r, tn)}

\* From where to where the request goes.
Starts(r) ==
  \/ pc'[r] = "secret" /\ job[r].kind = "create" /\ step'[r] = 1 /\ read'[r] = read[r]
  \/ Trouble(r)' /\ pc'[r] = "done" /\ read'[r] = read[r]
  \/ /\ Live(job[r].tenant) # {} /\ read'[r] = Live(job[r].tenant) /\ step'[r] = 1
     /\ \/ pc'[r] = "delete" /\ job[r].kind = "delete"
        \/ pc'[r] \in {"replace", "restart"} /\ job[r].kind # "create"
        \/ pc'[r] = "update" /\ job[r].kind = "security" /\ step'[r] > Len(Plan(r))

Advances(r) ==
  /\ step'[r] = step[r] + 1
  /\ secrets' = Without(Plan(r)[step[r]].name) \cup {Written(r, Plan(r)[step[r]].name)}
  /\ Plan(r)[step[r]].how = "upsert" \/ ~Exists(Plan(r)[step[r]].name)
  /\ \/ pc'[r] \in {"replace", "secret"}
     \/ pc'[r] = "tenant" /\ job[r].kind = "create" /\ step'[r] > Len(Plan(r))
     \/ pc'[r] = "update" /\ job[r].kind = "security" /\ step'[r] > Len(Plan(r))
     \/ pc'[r] = "restart" /\ job[r].kind \notin {"create", "security"}

Leads(r) ==
  /\ pc[r] # "done"
  /\ pc[r] = "start" => Starts(r)
  /\ pc[r] # "start" => read'[r] = read[r]
  /\ pc[r] = "replace" => step'[r] = step[r] /\ (pc'[r] = "secret" \/ (Trouble(r)' /\ pc'[r] \in {"cleanup", "done"}))
  /\ pc[r] = "secret" => Advances(r) \/ (Trouble(r)' /\ pc'[r] \in {"cleanup", "done"})
  /\ pc[r] = "tenant" => pc'[r] \in {"integrate", "cleanup", "done"}
  /\ pc[r] = "integrate" => pc'[r] \in {"cleanup", "done"}
  /\ pc[r] = "delete" => \/ pc'[r] = "claims" /\ Live(job[r].tenant)' = {}
                         \/ pc'[r] = "done"
  /\ pc[r] = "claims" => pc'[r] \in {"claims", "secrets", "done"}
  /\ pc[r] = "update" => \/ pc'[r] = "done"
                         \/ /\ pc'[r] = "remove"
                            /\ \E tn \in Live(job[r].tenant) \cap read[r] :
                                 tenants' = (tenants \ {tn}) \cup {Newer(r, tn)}
  /\ pc[r] = "cleanup" => Trouble(r)'
  /\ pc[r] \in {"cleanup", "secrets", "remove", "restart"} => pc'[r] = "done"

Effect(r) == OthersUnmoved(r) /\ SecretsEffect(r) /\ TenantsEffect(r) /\ Leads(r)

LEMMA FinishMoves ==
  ASSUME DataOK, NEW r \in Requests, NEW a, Finish(r, a)
  PROVE  /\ pc'[r] = "done" /\ answer'[r] = a
         /\ \A q \in Requests \ {r} : pc'[q] = pc[q] /\ answer'[q] = answer[q]
BY DEF DataOK, Finish

LEMMA GotoMoves ==
  ASSUME DataOK, NEW r \in Requests, NEW l, Goto(r, l)
  PROVE  /\ pc'[r] = l /\ answer'[r] = answer[r]
         /\ \A q \in Requests \ {r} : pc'[q] = pc[q] /\ answer'[q] = answer[q]
BY DEF DataOK, Goto

LEMMA FailMoves ==
  ASSUME DataOK, NEW r \in Requests, Fail(r)
  PROVE  /\ Trouble(r)' /\ pc'[r] \in {"cleanup", "done"}
         /\ \A q \in Requests \ {r} : pc'[q] = pc[q] /\ answer'[q] = answer[q]
<1>1. CASE Goto(r, "cleanup")
  BY <1>1, GotoMoves DEF Trouble
<1>2. CASE Finish(r, "error")
  BY <1>2, FinishMoves DEF Trouble
<1> QED
  BY <1>1, <1>2 DEF Fail

LEMMA ToItemMoves ==
  ASSUME DataOK, NEW r \in Requests, NEW k \in Nat \ {0}, ToItem(r, k), job' = job
  PROVE  /\ step'[r] = k /\ answer'[r] = answer[r]
         /\ \/ pc'[r] \in {"replace", "secret"} /\ k <= Len(Plan(r)') /\ (pc'[r] = "replace" <=> Plan(r)'[k].how = "replace")
            \/ /\ ~(k <= Len(Plan(r)'))
               /\ \/ pc'[r] = "tenant" /\ job[r].kind = "create"
                  \/ pc'[r] = "update" /\ job[r].kind = "security"
                  \/ pc'[r] = "restart" /\ job[r].kind \notin {"create", "security"}
         /\ \A q \in Requests \ {r} : pc'[q] = pc[q] /\ answer'[q] = answer[q] /\ step'[q] = step[q]
<1> DEFINE plan == Plan(r)'
           l == IF k <= Len(plan) THEN IF plan[k].how = "replace" THEN "replace" ELSE "secret"
                ELSE CASE job[r].kind = "create" -> "tenant"
                       [] job[r].kind = "security" -> "update"
                       [] OTHER -> "restart"
<1>1. step' = [step EXCEPT ![r] = k] /\ Goto(r, l)
  BY DEF ToItem
<1> HIDE DEF plan
<1>2. \/ l \in {"replace", "secret"} /\ k <= Len(plan) /\ (l = "replace" <=> plan[k].how = "replace")
      \/ /\ ~(k <= Len(plan))
         /\ \/ l = "tenant" /\ job[r].kind = "create"
            \/ l = "update" /\ job[r].kind = "security"
            \/ l = "restart" /\ job[r].kind \notin {"create", "security"}
  OBVIOUS
<1> HIDE DEF l
<1>3. /\ pc'[r] = l /\ answer'[r] = answer[r]
      /\ \A q \in Requests \ {r} : pc'[q] = pc[q] /\ answer'[q] = answer[q]
  BY <1>1, GotoMoves
<1>4. step'[r] = k /\ \A q \in Requests \ {r} : step'[q] = step[q]
  BY <1>1 DEF DataOK
<1> QED
  BY <1>2, <1>3, <1>4 DEF plan

LEMMA RefsAndVersion ==
  ASSUME NEW tn \in StoredTenants, NEW refs, NEW version
  PROVE  [tn EXCEPT !.refs = refs, !.version = version] = [name |-> tn.name, refs |-> refs, version |-> version]
<1> DEFINE new == [k \in {"name", "refs", "version"} |->
                    IF k = "version" THEN version ELSE IF k = "refs" THEN refs ELSE tn[k]]
<1>1. [tn EXCEPT !.refs = refs, !.version = version] = new
  BY DEF StoredTenants
<1>2. [name |-> tn.name, refs |-> refs, version |-> version] = new
  OBVIOUS
<1> QED
  BY <1>1, <1>2

LEMMA BeginCreationDoes ==
  ASSUME SecretsIInv, StoredOK, NEW r \in Requests, job' = job, BeginCreation(r)
  PROVE  Effect(r)
<1>1. /\ DataOK /\ pc[r] = "start" /\ job[r].kind = "create" /\ read' = read /\ ToItem(r, 1)
      /\ secrets' = secrets /\ tenants' = tenants
  BY DEF SecretsIInv, BeginCreation, cluster
<1>2. LocksFirst(job[r].tenant, Plan(r)')
  BY <1>1, SecretPlanStays
<1>3. 1 <= Len(Plan(r)') /\ Plan(r)'[1].how = "create"
  BY <1>2 DEF LocksFirst, Item
<1>4. /\ pc'[r] = "secret" /\ step'[r] = 1
      /\ \A q \in Requests \ {r} : pc'[q] = pc[q] /\ answer'[q] = answer[q] /\ step'[q] = step[q]
  BY <1>1, <1>3, ToItemMoves
<1> QED
  BY <1>1, <1>4 DEF StoredOK, Effect, OthersUnmoved, SecretsEffect, TenantsEffect, Leads, Starts

LEMMA GetTenantDoes ==
  ASSUME SecretsIInv, StoredOK, NEW r \in Requests, job' = job, GetTenant(r)
  PROVE  Effect(r)
<1>1. /\ DataOK /\ pc[r] = "start" /\ job[r].kind \notin {"create", "none"}
      /\ secrets' = secrets /\ tenants' = tenants /\ step[r] = 1 /\ step \in [Requests -> Nat \ {0}]
  BY DEF SecretsIInv, GetTenant, cluster, Placed, DataOK
<1>2. CASE Finish(r, "error") /\ UNCHANGED <<read, step>>
  <2>1. /\ pc'[r] = "done" /\ answer'[r] = "error"
        /\ \A q \in Requests \ {r} : pc'[q] = pc[q] /\ answer'[q] = answer[q]
    BY <1>1, <1>2, FinishMoves
  <2> QED
    BY <1>1, <1>2, <2>1 DEF StoredOK, Effect, OthersUnmoved, SecretsEffect, TenantsEffect, Leads, Starts, Trouble
<1>3. CASE /\ Live(job[r].tenant) # {} /\ read' = [read EXCEPT ![r] = Live(job[r].tenant)]
           /\ IF job[r].kind = "delete" THEN Goto(r, "delete") /\ UNCHANGED step ELSE ToItem(r, 1)
  <2>1. /\ read'[r] = Live(job[r].tenant) /\ \A q \in Requests \ {r} : read'[q] = read[q]
        /\ read' \in [Requests -> SUBSET StoredTenants]
    BY <1>3 DEF StoredOK, Live
  <2>2. CASE job[r].kind = "delete"
    <3>1. /\ pc'[r] = "delete" /\ \A q \in Requests \ {r} : pc'[q] = pc[q] /\ answer'[q] = answer[q]
          /\ step' = step
      BY <1>1, <1>3, <2>2, GotoMoves
    <3> QED
      BY <1>1, <1>3, <2>1, <2>2, <3>1 DEF StoredOK, Effect, OthersUnmoved, SecretsEffect, TenantsEffect, Leads, Starts
  <2>3. CASE job[r].kind # "delete"
    <3>1. /\ step'[r] = 1
          /\ \/ pc'[r] \in {"replace", "secret"} /\ 1 <= Len(Plan(r)') /\ (pc'[r] = "replace" <=> Plan(r)'[1].how = "replace")
             \/ /\ ~(1 <= Len(Plan(r)'))
                /\ \/ pc'[r] = "update" /\ job[r].kind = "security"
                   \/ pc'[r] = "restart"
          /\ \A q \in Requests \ {r} : pc'[q] = pc[q] /\ answer'[q] = answer[q] /\ step'[q] = step[q]
      BY <1>1, <1>3, <2>3, ToItemMoves
    <3>2. /\ Len(Plan(r)') \in Nat
          /\ \A k \in 1 .. Len(Plan(r)') : Plan(r)'[k].how = "replace"
      BY <1>1, <2>3, SecretPlanStays, OthersReplace
    <3>3. job[r].kind = "security" => Plan(r)' = Plan(r)
      BY <1>1, PlanNames
    <3>4. 1 <= Len(Plan(r)') => Plan(r)'[1].how = "replace"
      BY <3>2
    <3>5. pc'[r] = "update" => job[r].kind = "security" /\ step'[r] > Len(Plan(r))
      <4>1. pc'[r] = "update" => job[r].kind = "security" /\ ~(1 <= Len(Plan(r)')) /\ Plan(r)' = Plan(r)
        BY <3>1, <3>3
      <4> QED
        BY <3>1, <3>2, <4>1
    <3> QED
      BY <1>1, <1>3, <2>1, <2>3, <3>1, <3>4, <3>5
         DEF StoredOK, Effect, OthersUnmoved, SecretsEffect, TenantsEffect, Leads, Starts
  <2> QED
    BY <2>2, <2>3
<1> QED
  BY <1>2, <1>3 DEF GetTenant

LEMMA DeleteOldSecretDoes ==
  ASSUME SecretsIInv, StoredOK, NEW r \in Requests, job' = job, DeleteOldSecret(r)
  PROVE  Effect(r)
<1>1. /\ DataOK /\ pc[r] = "replace" /\ Goto(r, "secret") /\ UNCHANGED <<tenants, step, read>>
      /\ secrets' \in {secrets, Without(Plan(r)[step[r]].name)}
  BY DEF SecretsIInv, DeleteOldSecret
<1>2. pc'[r] = "secret" /\ \A q \in Requests \ {r} : pc'[q] = pc[q] /\ answer'[q] = answer[q]
  BY <1>1, GotoMoves
<1> QED
  BY <1>1, <1>2 DEF StoredOK, Effect, OthersUnmoved, SecretsEffect, TenantsEffect, Leads

LEMMA InvalidInputDoes ==
  ASSUME SecretsIInv, StoredOK, NEW r \in Requests, job' = job, InvalidInput(r)
  PROVE  Effect(r)
<1>1. /\ DataOK /\ pc[r] \in {"secret", "replace"} /\ Fail(r) /\ UNCHANGED <<secrets, tenants, step, read>>
  BY DEF SecretsIInv, InvalidInput, cluster
<1>2. /\ Trouble(r)' /\ pc'[r] \in {"cleanup", "done"}
      /\ \A q \in Requests \ {r} : pc'[q] = pc[q] /\ answer'[q] = answer[q]
  BY <1>1, FailMoves
<1> QED
  BY <1>1, <1>2 DEF StoredOK, Effect, OthersUnmoved, SecretsEffect, TenantsEffect, Leads

LEMMA CreateSecretDoes ==
  ASSUME SecretsIInv, StoredOK, NEW r \in Requests, job' = job, CreateSecret(r)
  PROVE  Effect(r)
<1> DEFINE i == Plan(r)[step[r]]
           written == Without(i.name) \cup {Written(r, i.name)}
<1>1. /\ DataOK /\ pc[r] = "secret" /\ UNCHANGED <<tenants, read>> /\ step[r] \in Nat \ {0}
  BY DEF SecretsIInv, CreateSecret, DataOK
<1>2. CASE ~(i.how # "upsert" /\ Exists(i.name)) /\ secrets' = written /\ ToItem(r, step[r] + 1)
  <2>1. Plan(r)' = Plan(r)
    BY <1>1 DEF Plan
  <2> DEFINE k == step[r] + 1
  <2>2. k \in Nat \ {0} /\ Len(Plan(r)) \in Nat
    BY <1>1, SecretPlanIs DEF LocksFirst
  <2>3. /\ step'[r] = k
        /\ \/ pc'[r] \in {"replace", "secret"}
           \/ /\ ~(k <= Len(Plan(r)'))
              /\ \/ pc'[r] = "tenant" /\ job[r].kind = "create"
                 \/ pc'[r] = "update" /\ job[r].kind = "security"
                 \/ pc'[r] = "restart" /\ job[r].kind \notin {"create", "security"}
        /\ \A q \in Requests \ {r} : pc'[q] = pc[q] /\ answer'[q] = answer[q] /\ step'[q] = step[q]
    BY <1>1, <1>2, <2>2, ToItemMoves
  <2>4. ~(k <= Len(Plan(r)')) => k > Len(Plan(r))
    BY <2>1, <2>2
  <2>5. Advances(r)
    BY <1>2, <2>3, <2>4 DEF Advances
  <2> QED
    BY <1>1, <1>2, <2>3, <2>5 DEF StoredOK, Effect, OthersUnmoved, SecretsEffect, TenantsEffect, Leads
<1>3. CASE secrets' \in {secrets, written} /\ Fail(r) /\ UNCHANGED step
  <2>1. /\ Trouble(r)' /\ pc'[r] \in {"cleanup", "done"}
        /\ \A q \in Requests \ {r} : pc'[q] = pc[q] /\ answer'[q] = answer[q]
    BY <1>1, <1>3, FailMoves
  <2> QED
    BY <1>1, <1>3, <2>1 DEF StoredOK, Effect, OthersUnmoved, SecretsEffect, TenantsEffect, Leads
<1> QED
  BY <1>2, <1>3 DEF CreateSecret, Written

LEMMA CreateTenantDoes ==
  ASSUME SecretsIInv, StoredOK, NEW r \in Requests, job' = job, CreateTenant(r)
  PROVE  Effect(r)
<1>1. DataOK /\ pc[r] = "tenant" /\ UNCHANGED <<secrets, step, read>>
  BY DEF SecretsIInv, CreateTenant
<1>2. \/ Live(job[r].tenant) = {} /\ tenants' = tenants \cup {Fresh(r)}
      \/ tenants' = tenants
  BY DEF CreateTenant, Fresh
<1>3. Goto(r, "integrate") \/ Finish(r, "ok") \/ Fail(r)
  BY DEF CreateTenant
<1>4. /\ pc'[r] \in {"integrate", "cleanup", "done"}
      /\ \A q \in Requests \ {r} : pc'[q] = pc[q] /\ answer'[q] = answer[q]
  BY <1>1, <1>3, FinishMoves, GotoMoves, FailMoves
<1> QED
  BY <1>1, <1>2, <1>4 DEF StoredOK, Effect, OthersUnmoved, SecretsEffect, TenantsEffect, Leads

LEMMA DeleteTenantDoes ==
  ASSUME SecretsIInv, StoredOK, NEW r \in Requests, job' = job, DeleteTenant(r)
  PROVE  Effect(r)
<1>1. DataOK /\ pc[r] = "delete" /\ UNCHANGED <<secrets, step, read>>
  BY DEF SecretsIInv, DeleteTenant
<1>2. tenants' = tenants \ Live(job[r].tenant) \/ tenants' = tenants
  BY DEF DeleteTenant
<1>3. \/ Goto(r, "claims") /\ (\/ tenants' = tenants \ Live(job[r].tenant)
                               \/ Live(job[r].tenant) = {} /\ tenants' = tenants)
      \/ Finish(r, "ok") \/ Finish(r, "error")
  BY DEF DeleteTenant
<1>4. tenants' = tenants \ Live(job[r].tenant) \/ (Live(job[r].tenant) = {} /\ tenants' = tenants) =>
        Live(job[r].tenant)' = {}
  BY DEF Live
<1>5. /\ (pc'[r] = "claims" /\ Live(job[r].tenant)' = {}) \/ pc'[r] = "done"
      /\ \A q \in Requests \ {r} : pc'[q] = pc[q] /\ answer'[q] = answer[q]
  BY <1>1, <1>3, <1>4, FinishMoves, GotoMoves
<1> QED
  BY <1>1, <1>2, <1>5 DEF StoredOK, Effect, OthersUnmoved, SecretsEffect, TenantsEffect, Leads

LEMMA DeleteClaimsDoes ==
  ASSUME SecretsIInv, StoredOK, NEW r \in Requests, job' = job, DeleteClaims(r)
  PROVE  Effect(r)
<1>1. DataOK /\ pc[r] = "claims" /\ UNCHANGED <<secrets, tenants, read>>
  BY DEF SecretsIInv, DeleteClaims
<1>2. \/ step' = [step EXCEPT ![r] = @ + 1] /\ UNCHANGED <<pc, answer>>
      \/ Goto(r, "secrets") /\ UNCHANGED step
      \/ Finish(r, "error") /\ UNCHANGED step
  BY DEF DeleteClaims
<1>3. CASE step' = [step EXCEPT ![r] = @ + 1] /\ UNCHANGED <<pc, answer>>
  BY <1>1, <1>3 DEF StoredOK, Effect, OthersUnmoved, SecretsEffect, TenantsEffect, Leads, DataOK
<1>4. CASE (Goto(r, "secrets") \/ Finish(r, "error")) /\ UNCHANGED step
  <2>1. /\ pc'[r] \in {"secrets", "done"}
        /\ \A q \in Requests \ {r} : pc'[q] = pc[q] /\ answer'[q] = answer[q]
    BY <1>1, <1>4, FinishMoves, GotoMoves
  <2> QED
    BY <1>1, <1>4, <2>1 DEF StoredOK, Effect, OthersUnmoved, SecretsEffect, TenantsEffect, Leads
<1> QED
  BY <1>2, <1>3, <1>4

LEMMA UpdateTenantDoes ==
  ASSUME SecretsIInv, StoredOK, NEW r \in Requests, job' = job, UpdateTenant(r)
  PROVE  Effect(r)
<1>1. DataOK /\ pc[r] = "update" /\ UNCHANGED <<secrets, step, read>>
  BY DEF SecretsIInv, UpdateTenant
<1>2. CASE Finish(r, "error") /\ UNCHANGED tenants
  <2>1. pc'[r] = "done" /\ \A q \in Requests \ {r} : pc'[q] = pc[q] /\ answer'[q] = answer[q]
    BY <1>1, <1>2, FinishMoves
  <2> QED
    BY <1>1, <1>2, <2>1 DEF StoredOK, Effect, OthersUnmoved, SecretsEffect, TenantsEffect, Leads
<1>3. ASSUME NEW tn \in Live(job[r].tenant), NEW old \in read[r], Unchanged(r, tn),
             tenants' = (tenants \ {tn}) \cup
               {[tn EXCEPT !.refs = NewRefs(r, old.refs), !.version = <<@[1], @[2] + 1>>]},
             Goto(r, "remove") \/ Finish(r, "error")
      PROVE  Effect(r)
  <2>1. old = tn /\ tn \in StoredTenants /\ tn \in Live(job[r].tenant) \cap read[r]
    BY <1>3 DEF StoredOK, Unchanged, Live
  <2>2. [tn EXCEPT !.refs = NewRefs(r, tn.refs), !.version = <<@[1], @[2] + 1>>] = Newer(r, tn)
    BY <2>1, RefsAndVersion DEF Newer
  <2>3. tenants' = (tenants \ {tn}) \cup {Newer(r, tn)}
    BY <1>3, <2>1, <2>2
  <2>4. /\ pc'[r] \in {"remove", "done"}
        /\ \A q \in Requests \ {r} : pc'[q] = pc[q] /\ answer'[q] = answer[q]
    BY <1>1, <1>3, FinishMoves, GotoMoves
  <2> QED
    BY <1>1, <2>1, <2>3, <2>4 DEF StoredOK, Effect, OthersUnmoved, SecretsEffect, TenantsEffect, Leads
<1> QED
  BY <1>2, <1>3 DEF UpdateTenant

\* The last call of a request.
LEMMA LastStepDoes ==
  ASSUME SecretsIInv, StoredOK, NEW r \in Requests, job' = job,
         \/ NoCertificates(r) \/ Integrate(r) \/ Cleanup(r)
         \/ DeleteSecrets(r) \/ RemoveSecrets(r) \/ RestartPods(r)
  PROVE  Effect(r)
<1>1. DataOK /\ UNCHANGED <<tenants, step, read>>
  BY DEF SecretsIInv, NoCertificates, Integrate, Cleanup, DeleteSecrets, RemoveSecrets, RestartPods, cluster
<1>2. /\ pc[r] \in {"restart", "integrate", "cleanup", "secrets", "remove"}
      /\ (Finish(r, "ok") \/ Finish(r, "error") \/ (pc[r] = "integrate" /\ Fail(r)))
      /\ pc[r] = "cleanup" => Finish(r, "error")
  BY DEF NoCertificates, Integrate, Cleanup, DeleteSecrets, RemoveSecrets, RestartPods
<1>3. SecretsEffect(r)
  BY DEF NoCertificates, Integrate, Cleanup, DeleteSecrets, RemoveSecrets, RestartPods, cluster,
     SecretsEffect, Swept
<1>4. /\ (pc'[r] = "done" \/ (pc[r] = "integrate" /\ pc'[r] \in {"cleanup", "done"}))
      /\ pc[r] = "cleanup" => Trouble(r)'
      /\ \A q \in Requests \ {r} : pc'[q] = pc[q] /\ answer'[q] = answer[q]
  BY <1>1, <1>2, FinishMoves, FailMoves DEF Trouble
<1> QED
  BY <1>1, <1>2, <1>3, <1>4 DEF StoredOK, Effect, OthersUnmoved, TenantsEffect, Leads

LEMMA StepDoes ==
  ASSUME SecretsIInv, StoredOK, NEW r \in Requests, job' = job, Step(r)
  PROVE  Effect(r)
BY BeginCreationDoes, GetTenantDoes, DeleteOldSecretDoes, InvalidInputDoes, CreateSecretDoes,
   CreateTenantDoes, DeleteTenantDoes, DeleteClaimsDoes, UpdateTenantDoes, LastStepDoes DEF Step

-----------------------------------------------------------------------------
(* The parts of the invariant that hold whatever fails.                      *)

LEMMA WhatIsAskedStays ==
  ASSUME job' = job
  PROVE  /\ \A r, t : Creates(r, t)' <=> Creates(r, t)
         /\ \A r, t : Deletes(r, t)' <=> Deletes(r, t)
         /\ \A r, t : Removes(r, t)' <=> Removes(r, t)
         /\ \A t : Deleted(t)' <=> Deleted(t)
         /\ \A t : Contested(t)' <=> Contested(t)
         /\ \A n, t : Belongs(n, t)' <=> Belongs(n, t)
         /\ \A t : Shared(t)' <=> Shared(t)
<1>1. /\ \A r, t : Creates(r, t)' <=> Creates(r, t)
      /\ \A r, t : Deletes(r, t)' <=> Deletes(r, t)
      /\ \A r, t : Removes(r, t)' <=> Removes(r, t)
  BY DEF Creates, Deletes, Removes
<1>2. \A t : Deleted(t)' <=> Deleted(t)
  BY <1>1 DEF Deleted
<1>3. \A t : Contested(t)' <=> Contested(t)
  BY <1>1 DEF Contested
<1>4. \A t : AsksForCA(t)' <=> AsksForCA(t)
  BY <1>1 DEF AsksForCA
<1>5. \A n, t : Belongs(n, t)' <=> Belongs(n, t)
  BY <1>4 DEF Belongs
<1>6. \A t : Shared(t)' <=> Shared(t)
  <2>1. \A r : RemovesCA(r)' <=> RemovesCA(r)
    BY DEF RemovesCA
  <2> QED
    BY <1>2, <1>4, <2>1 DEF Shared
<1> QED
  BY <1>1, <1>2, <1>3, <1>5, <1>6

\* What a plan writes belongs to the tenant of its request.
LEMMA PlanBelongs ==
  ASSUME DataOK, NEW r \in Requests, NEW k \in DOMAIN Plan(r)
  PROVE  /\ Belongs(Plan(r)[k].name, job[r].tenant)
         /\ job[r].kind = "create" => \A q \in Requests : Plan(r)[k].name \notin AddedNames(q)
         /\ job[r].kind = "security" => Plan(r)[k].name \in AddedNames(r)
         /\ job[r].kind \notin {"create", "security"} => Plan(r)[k].name = <<job[r].tenant, "cert">>
<1> DEFINE t == job[r].tenant
<1>1. t \in Tenants
  BY PlanNames
<1>2. CASE job[r].kind = "create"
  <2>1. Plan(r)[k].name \in OwnNames(t) \cup (IF "ca" \in job[r].options THEN {CA} ELSE {})
    <3>1. Distinct(Plan(r), OwnNames(t) \cup (IF "ca" \in job[r].options THEN {CA} ELSE {}))
      BY <1>2, PlanNames
    <3> DEFINE p == Plan(r)
    <3> HIDE DEF p
    <3>2. k \in 1 .. Len(p)
      BY <3>1 DEF Distinct, p
    <3> QED
      BY <3>1, <3>2 DEF Distinct, p
  <2>2. Belongs(Plan(r)[k].name, t)
    BY <1>2, <2>1 DEF Belongs, AsksForCA, Creates
  <2>3. \A q \in Requests : AddedNames(q) \cap OwnNames(t) = {} /\ CA \notin AddedNames(q)
    BY <1>1, NamesAssumption DEF OwnNames, AddedNames, CA
  <2> QED
    BY <1>2, <2>1, <2>2, <2>3
<1>3. ASSUME NEW n, Plan(r) = <<Item(n, "replace")>>
      PROVE  Plan(r)[k].name = n
  BY <1>3 DEF Item
<1>4. CASE job[r].kind = "security"
  <2>1. Plan(r)[k].name \in AddedNames(r)
    <3>1. Distinct(Plan(r), AddedNames(r))
      BY <1>4, PlanNames
    <3> DEFINE p == Plan(r)
    <3> HIDE DEF p
    <3>2. k \in 1 .. Len(p)
      BY <3>1 DEF Distinct, p
    <3> QED
      BY <3>1, <3>2 DEF Distinct, p
  <2> QED
    BY <1>4, <2>1 DEF Belongs
<1>5. CASE job[r].kind \notin {"create", "security"}
  <2>1. Plan(r) = <<Item(<<t, "cert">>, "replace")>>
    <3>1. Plan(r) \in {<<>>, <<Item(<<t, "cert">>, "replace")>>}
      BY <1>5, PlanNames
    <3>2. Plan(r) # <<>>
      OBVIOUS
    <3> QED
      BY <3>1, <3>2
  <2>2. <<t, "cert">> \in OwnNames(t)
    BY DEF OwnNames
  <2> QED
    BY <1>3, <1>5, <2>1, <2>2 DEF Belongs
<1> QED
  BY <1>2, <1>4, <1>5

LEMMA BelongsToOne ==
  ASSUME NEW t \in Tenants, NEW u \in Tenants, NEW n, n # CA, Belongs(n, t), Belongs(n, u)
  PROVE  t = u
<1>1. CASE n \in OwnNames(t) /\ n \in OwnNames(u)
  BY <1>1 DEF OwnNames
<1>2. \A q \in Requests : AddedNames(q) \cap OwnNames(t) = {} /\ AddedNames(q) \cap OwnNames(u) = {}
  BY NamesAssumption DEF OwnNames, AddedNames
<1>3. CASE \E q \in Requests : n \in AddedNames(q) /\ job[q].tenant = t
  <2>1. \A q, e : n \in AddedNames(q) /\ n \in AddedNames(e) => q = e
    BY DEF AddedNames
  <2> QED
    BY <1>2, <1>3, <2>1 DEF Belongs
<1> QED
  BY <1>1, <1>2, <1>3 DEF Belongs

LEMMA PlansStay ==
  ASSUME DataOK, NEW r \in Requests, job' = job, OthersUnmoved(r)
  PROVE  /\ \A q \in Requests \ {r} : Plan(q)' = Plan(q)
         /\ job[r].kind \in {"create", "security"} \/ read'[r] = read[r] => Plan(r)' = Plan(r)
BY PlanNames DEF OthersUnmoved

LEMMA ItemAt ==
  ASSUME SecretsIInv, NEW r \in Requests, pc[r] \in {"replace", "secret"}
  PROVE  step[r] \in DOMAIN Plan(r) /\ step[r] \in Nat \ {0} /\ job[r].kind \notin {"none", "delete"}
BY DEF SecretsIInv, Placed, DataOK

LEMMA PlanNamesTyped ==
  ASSUME DataOK, NEW r \in Requests
  PROVE  NamesOf(Plan(r)) \subseteq SecretNames
<1> DEFINE p == Plan(r)
<1>1. p \in Seq(Items)
  <2>1. p \in Seq(Items) \/ p \in Seq(OtherItems)
    BY SecretPlanIs DEF LocksFirst
  <2> QED
    BY <2>1 DEF OtherItems
<1> HIDE DEF p
<1>2. \A k \in DOMAIN p : p[k] \in Items
  BY <1>1
<1>3. \A k \in DOMAIN p : p[k].name \in SecretNames
  BY <1>2 DEF Items
<1> QED
  BY <1>3 DEF NamesOf, p

\* The tenants there are after the step.
LEMMA TenantsAfter ==
  ASSUME SecretsIInv, StoredOK, NEW r \in Requests, Effect(r), NEW tn \in tenants'
  PROVE  \/ tn \in tenants
         \/ tn = Fresh(r) /\ pc[r] = "tenant" /\ Live(job[r].tenant) = {}
         \/ /\ pc[r] = "update"
            /\ \E un \in Live(job[r].tenant) \cap read[r] :
                 tn = Newer(r, un) /\ tenants' = (tenants \ {un}) \cup {Newer(r, un)}
BY DEF Effect, TenantsEffect

LEMMA StoredKeeps ==
  ASSUME SecretsIInv, StoredOK, NEW r \in Requests, job' = job, Effect(r)
  PROVE  StoredOK'
<1>1. DataOK /\ job[r].tenant \in Tenants /\ job[r] \in Jobs
  BY DEF SecretsIInv, DataOK, Jobs
<1>2. NamesOf(Plan(r)) \subseteq SecretNames
  BY <1>1, PlanNamesTyped
<1>3. Fresh(r) \in StoredTenants /\ Fresh(r).name = job[r].tenant
  BY <1>1, <1>2 DEF Fresh, StoredTenants, Writers
<1>4. ASSUME NEW tn \in StoredTenants PROVE Newer(r, tn) \in StoredTenants /\ Newer(r, tn).name = tn.name
  <2>1. NewRefs(r, tn.refs) \subseteq SecretNames
    BY <1>2 DEF NewRefs, StoredTenants
  <2>2. tn.version \in Writers \X Nat /\ tn.name \in Tenants
    BY DEF StoredTenants
  <2>3. tn.version[1] \in Writers /\ tn.version[2] + 1 \in Nat
    BY <2>2
  <2> QED
    BY <2>1, <2>2, <2>3 DEF Newer, StoredTenants
<1>5. tenants' \subseteq StoredTenants
  BY <1>3, <1>4, TenantsAfter DEF StoredOK
<1>6. ASSUME NEW tn \in tenants', NEW un \in tenants', tn.name = un.name
      PROVE  tn = un
  <2>1. CASE tenants' \subseteq tenants
    BY <1>6, <2>1 DEF StoredOK
  <2>2. CASE Live(job[r].tenant) = {} /\ tenants' = tenants \cup {Fresh(r)}
    <3>1. \A wn \in tenants : wn.name # Fresh(r).name
      BY <1>3, <2>2 DEF Live
    <3> QED
      BY <1>6, <2>2, <3>1 DEF StoredOK
  <2>3. ASSUME NEW wn \in Live(job[r].tenant) \cap read[r], tenants' = (tenants \ {wn}) \cup {Newer(r, wn)}
        PROVE  tn = un
    <3>1. wn \in tenants /\ Newer(r, wn).name = wn.name
      BY <1>4, <2>3 DEF Live, StoredOK
    <3> QED
      BY <1>6, <2>3, <3>1 DEF StoredOK
  <2> QED
    BY <2>1, <2>2, <2>3 DEF Effect, TenantsEffect
<1>7. ASSUME NEW q \in Requests
      PROVE  read'[q] = read[q] \/ (q = r /\ read'[q] = Live(job[r].tenant))
  BY <1>7 DEF Effect, OthersUnmoved, Leads, Starts
<1>8. /\ \A tn, un \in Live(job[r].tenant) : tn = un
      /\ \A tn \in Live(job[r].tenant) : tn.name = job[r].tenant
  BY DEF Live, StoredOK
<1>9. \A q \in Requests : /\ \A tn, un \in read'[q] : tn = un
                          /\ \A tn \in read'[q] : tn.name = job'[q].tenant
  BY <1>7, <1>8 DEF StoredOK
<1> QED
  BY <1>5, <1>6, <1>9 DEF StoredOK, Effect, OthersUnmoved

LEMMA FartherKeeps ==
  ASSUME SecretsIInv, StoredOK, NEW r \in Requests, job' = job, Effect(r),
         \A q \in Requests : Farther(q), NEW q \in Requests
  PROVE  Farther(q)'
<1>1. DataOK
  BY DEF SecretsIInv
<1>2. CASE q # r
  <2>1. pc'[q] = pc[q] /\ step'[q] = step[q] /\ Plan(q)' = Plan(q) /\ Farther(q)
    BY <1>1, <1>2, PlansStay DEF Effect, OthersUnmoved
  <2> QED
    BY <2>1 DEF Farther
<1>3. CASE q = r
  <2>1. pc'[r] = "tenant" => pc[r] = "secret" /\ Advances(r) /\ job[r].kind = "create" /\ step'[r] > Len(Plan(r))
    BY <1>1 DEF Effect, Leads, Starts, Advances, DataOK, Labels
  <2>2. pc'[r] = "tenant" => step'[r] > Len(Plan(r)')
    BY <1>1, <2>1, PlansStay DEF Effect
  <2>3. pc'[r] = "update" => job[r].kind = "security" /\ step'[r] > Len(Plan(r))
    BY <1>1 DEF Effect, Leads, Starts, Advances, DataOK, Labels
  <2>5. pc'[r] = "update" => step'[r] > Len(Plan(r)')
    BY <1>1, <2>3, PlansStay DEF Effect
  <2>4. pc'[r] = "remove" => pc[r] = "update"
    BY <1>1 DEF Effect, Leads, Starts, Advances, DataOK, Labels
  <2> QED
    BY <1>3, <2>2, <2>3, <2>4, <2>5 DEF Farther
<1> QED
  BY <1>2, <1>3

LEMMA LabelsKeep ==
  ASSUME SecretsIInv, LabelsOK, NEW r \in Requests, job' = job, Effect(r)
  PROVE  LabelsOK'
<1>1. \A n, t : Belongs(n, t)' <=> Belongs(n, t)
  BY WhatIsAskedStays
<1> DEFINE n == Plan(r)[step[r]].name
<1>2. pc[r] = "secret" => Belongs(n, job[r].tenant)
  BY ItemAt, PlanBelongs DEF SecretsIInv
<1>3. Written(r, n).name = n /\ Written(r, n).tenant = job[r].tenant
  BY DEF Written
<1>4. \A s \in secrets' : s \in secrets \/ (pc[r] = "secret" /\ s = Written(r, n))
  BY DEF Effect, SecretsEffect, Without, Swept
<1> HIDE DEF n
<1> QED
  BY <1>1, <1>2, <1>3, <1>4 DEF LabelsOK

LEMMA RefsKeep ==
  ASSUME SecretsIInv, StoredOK, NEW r \in Requests, job' = job, Effect(r),
         \A q \in Requests : Farther(q), RefsOK
  PROVE  RefsOK'
<1> SUFFICES ASSUME NEW tn \in tenants', NEW n \in tn.refs
             PROVE  /\ Belongs(n, tn.name)
                    /\ \A q \in Requests : n \in AddedNames(q) => pc'[q] \in {"remove", "done"}
  BY WhatIsAskedStays DEF RefsOK
<1>1. DataOK
  BY DEF SecretsIInv
<1>2. \A q \in Requests : pc[q] \in {"remove", "done"} => pc'[q] \in {"remove", "done"}
  BY DEF Effect, OthersUnmoved, Leads
<1>3. CASE tn \in tenants
  BY <1>2, <1>3 DEF RefsOK
<1>4. CASE tn = Fresh(r) /\ pc[r] = "tenant"
  <2>1. job[r].kind = "create" /\ tn.name = job[r].tenant /\ tn.refs = NamesOf(Plan(r))
    BY <1>4 DEF SecretsIInv, Placed, Fresh
  <2>2. PICK k \in DOMAIN Plan(r) : n = Plan(r)[k].name
    BY <2>1 DEF NamesOf
  <2> QED
    BY <1>1, <2>1, <2>2, PlanBelongs
<1>5. ASSUME pc[r] = "update", NEW un \in Live(job[r].tenant) \cap read[r], tn = Newer(r, un)
      PROVE  /\ Belongs(n, tn.name)
             /\ \A q \in Requests : n \in AddedNames(q) => pc'[q] \in {"remove", "done"}
  <2>1. /\ un \in tenants /\ tn.name = un.name /\ un.name = job[r].tenant
        /\ n \in un.refs \cup NamesOf(Plan(r)) /\ job[r].kind = "security"
    BY <1>5 DEF Live, Newer, NewRefs, Farther
  <2>2. CASE n \in un.refs
    BY <1>2, <2>1, <2>2 DEF RefsOK
  <2>3. CASE n \in NamesOf(Plan(r))
    <3>1. PICK k \in DOMAIN Plan(r) : n = Plan(r)[k].name
      BY <2>3 DEF NamesOf
    <3>2. n \in AddedNames(r) /\ Belongs(n, job[r].tenant)
      BY <1>1, <2>1, <3>1, PlanBelongs
    <3>3. pc'[r] \in {"remove", "done"}
      BY <1>5 DEF Effect, Leads
    <3>4. \A q : n \in AddedNames(q) => q = r
      BY <3>2 DEF AddedNames
    <3> QED
      BY <2>1, <3>2, <3>3, <3>4
  <2> QED
    BY <2>1, <2>2, <2>3
<1> QED
  BY <1>3, <1>4, <1>5, TenantsAfter

LEMMA VersionsKeep ==
  ASSUME SecretsIInv, StoredOK, NEW r \in Requests, job' = job, Effect(r), VersionsOK
  PROVE  VersionsOK'
<1>1. ASSUME NEW c \in Requests, pc[c] \in {"integrate", "cleanup", "done"}
      PROVE  pc'[c] \in {"integrate", "cleanup", "done"}
  BY <1>1 DEF Effect, OthersUnmoved, Leads
<1>2. \A tn : CreatedBy(tn) => CreatedBy(tn)'
  BY <1>1 DEF CreatedBy
<1>3. ASSUME NEW tn, tn.version[1] = r, pc[r] = "tenant" PROVE CreatedBy(tn)'
  <2>1. pc'[r] \in {"integrate", "cleanup", "done"}
    BY <1>3 DEF Effect, Leads
  <2> QED
    BY <1>3, <2>1 DEF CreatedBy
<1>4. ASSUME NEW tn, NEW un, CreatedBy(un)', tn.version[1] = un.version[1] PROVE CreatedBy(tn)'
  BY <1>4 DEF CreatedBy
<1>5. ASSUME NEW tn \in tenants' PROVE CreatedBy(tn)'
  <2>1. \A un \in tenants : CreatedBy(un)'
    BY <1>2 DEF VersionsOK
  <2>2. CASE tn = Fresh(r) /\ pc[r] = "tenant"
    <3>1. tn.version[1] = r
      BY <2>2 DEF Fresh
    <3> QED
      BY <1>3, <2>2, <3>1
  <2>3. ASSUME NEW un \in Live(job[r].tenant), tn = Newer(r, un) PROVE CreatedBy(tn)'
    <3>1. un \in tenants /\ tn.version[1] = un.version[1]
      BY <2>3 DEF Live, Newer
    <3> QED
      BY <1>4, <2>1, <3>1
  <2> QED
    BY <2>1, <2>2, <2>3, TenantsAfter
<1>6. ASSUME NEW q \in Requests, NEW un \in read'[q]
      PROVE  \/ un \in read[q]
             \/ un \in tenants /\ tenants' = tenants
  BY <1>6 DEF Effect, OthersUnmoved, TenantsEffect, Leads, Starts, Live
<1>7. ASSUME NEW q \in Requests, NEW un \in read'[q] PROVE CreatedBy(un)'
  BY <1>2, <1>6, <1>7 DEF VersionsOK
<1>8. ASSUME NEW q \in Requests, NEW un \in read'[q], NEW tn \in tenants',
             un.name = tn.name, un.version[1] = tn.version[1]
      PROVE  un.version[2] <= tn.version[2]
  <2>1. \A wn \in StoredTenants : wn.version[2] \in Nat
    BY DEF StoredTenants
  <2>2. CASE un \in tenants /\ tenants' = tenants
    <3>1. un = tn /\ un \in StoredTenants
      BY <1>8, <2>2 DEF StoredOK
    <3> QED
      BY <2>1, <3>1
  <2>3. CASE un \in read[q] /\ tn \in tenants
    BY <1>8, <2>3 DEF VersionsOK
  <2>4. CASE un \in read[q] /\ tn = Fresh(r) /\ pc[r] = "tenant"
    <3>1. tn.version[1] = r
      BY <2>4 DEF Fresh
    <3> QED
      BY <1>8, <2>4, <3>1 DEF VersionsOK, CreatedBy
  <2>5. ASSUME un \in read[q], NEW wn \in Live(job[r].tenant) \cap read[r], tn = Newer(r, wn)
        PROVE  un.version[2] <= tn.version[2]
    <3>1. wn \in tenants /\ wn.version[1] = tn.version[1] /\ wn.name = tn.name /\ tn.version[2] = wn.version[2] + 1
      BY <2>5 DEF Live, Newer
    <3>2. un.version[2] <= wn.version[2]
      BY <1>8, <2>5, <3>1 DEF VersionsOK
    <3>3. un \in StoredTenants /\ wn \in StoredTenants
      BY <2>5, <3>1 DEF StoredOK
    <3>4. un.version[2] \in Nat /\ wn.version[2] \in Nat
      BY <2>1, <3>3
    <3> QED
      BY <3>1, <3>2, <3>4
  <2> QED
    BY <1>6, <1>8, <2>2, <2>3, <2>4, <2>5, TenantsAfter
<1> QED
  BY <1>5, <1>7, <1>8 DEF VersionsOK

-----------------------------------------------------------------------------
(* What a tenant needs, and what a step takes.                               *)

LEMMA NeededIs ==
  ASSUME NEW t, NEW n
  PROVE  /\ n \in Needed(t) <=> \/ \E tn \in Live(t) : n \in tn.refs
                                \/ \E c \in Requests : Creates(c, t) /\ Midway(c) /\ n \in Behind(c)
         /\ n \in Needed(t)' <=> \/ \E tn \in Live(t)' : n \in tn.refs
                                 \/ \E c \in Requests : Creates(c, t)' /\ Midway(c)' /\ n \in Behind(c)'
<1> DEFINE A == UNION {tn.refs : tn \in Live(t)}
           B == UNION {Behind(r) : r \in {c \in Requests : Creates(c, t) /\ Midway(c)}}
           AA == UNION {tn.refs : tn \in Live(t)'}
           BB == UNION {Behind(r)' : r \in {c \in Requests : Creates(c, t)' /\ Midway(c)'}}
<1>1. n \in A <=> \E tn \in Live(t) : n \in tn.refs
  OBVIOUS
<1>2. n \in B <=> \E c \in Requests : Creates(c, t) /\ Midway(c) /\ n \in Behind(c)
  OBVIOUS
<1>3. n \in AA <=> \E tn \in Live(t)' : n \in tn.refs
  OBVIOUS
<1>4. n \in BB <=> \E c \in Requests : Creates(c, t)' /\ Midway(c)' /\ n \in Behind(c)'
  OBVIOUS
<1>5. Needed(t) = A \cup B /\ Needed(t)' = AA \cup BB
  BY DEF Needed
<1> HIDE DEF A, B, AA, BB
<1> QED
  BY <1>1, <1>2, <1>3, <1>4, <1>5

LEMMA Wrote ==
  ASSUME NEW r, NEW n, secrets' = Without(n) \cup {Written(r, n)}
  PROVE  Exists(n)'
<1>1. Written(r, n).name = n
  BY DEF Written
<1> QED
  BY <1>1 DEF Exists

LEMMA GoodBefore ==
  ASSUME SecretsIInv, NEW r \in Requests, job' = job, Effect(r), NEW t, Good(t)'
  PROVE  /\ Good(t)
         /\ job[r].tenant = t => ~Trouble(r) /\ ~Trouble(r)'
<1>1. \A q \in Requests : Trouble(q) /\ q # r => Trouble(q)'
  BY DEF Trouble, Effect, OthersUnmoved
<1>2. Trouble(r) => Trouble(r)'
  BY DEF SecretsIInv, Placed, Trouble, Effect, Leads
<1>3. job[r].tenant = t => ~Trouble(r)'
  BY DEF Good, Troubled
<1>4. ~Contested(t)
  BY WhatIsAskedStays DEF Good
<1> QED
  BY <1>1, <1>2, <1>3, <1>4 DEF Good, Troubled

\* A creation comes to where it needs secrets with a secret that it writes.
LEMMA MidwayAfter ==
  ASSUME SecretsIInv, NEW r \in Requests, job' = job, Effect(r), Midway(r)'
  PROVE  /\ job[r].kind = "create" /\ pc[r] \in {"replace", "secret"}
         /\ \/ Midway(r) /\ step'[r] = step[r]
            \/ pc[r] = "secret" /\ Advances(r)
<1>1. pc'[r] \in {"replace", "secret", "tenant"} /\ step'[r] > 1 /\ job[r].kind = "create"
  BY DEF Midway
<1>2. pc[r] \in Labels /\ step[r] \in Nat \ {0}
  BY DEF SecretsIInv, DataOK
<1>3. pc[r] \in {"replace", "secret", "start"}
  BY <1>1, <1>2 DEF Labels, Effect, Leads
<1>4. CASE pc[r] = "start"
  BY <1>1, <1>4 DEF Effect, Leads, Starts
<1>5. CASE pc[r] = "replace"
  BY <1>1, <1>5 DEF Effect, Leads, Midway
<1>6. CASE pc[r] = "secret"
  BY <1>1, <1>6 DEF Effect, Leads
<1> QED
  BY <1>1, <1>3, <1>4, <1>5, <1>6

\* Where a request is through with its secrets, all of them are behind it.
LEMMA AllBehind ==
  ASSUME DataOK, NEW r \in Requests, Farther(r), pc[r] \in {"tenant", "update"}
  PROVE  NamesOf(Plan(r)) \subseteq Behind(r)
<1> DEFINE p == Plan(r)
<1>1. p \in Seq(Items)
  <2>1. p \in Seq(Items) \/ p \in Seq(OtherItems)
    BY SecretPlanIs DEF LocksFirst
  <2> QED
    BY <2>1 DEF OtherItems
<1>2. step[r] > Len(p) /\ step[r] \in Nat
  BY DEF Farther, DataOK
<1>3. ASSUME NEW n \in NamesOf(p) PROVE n \in Behind(r)
  <2>1. PICK k \in DOMAIN p : n = p[k].name
    BY <1>3 DEF NamesOf
  <2>2. k < step[r]
    <3> HIDE DEF p
    <3> QED
      BY <1>1, <1>2, <2>1
  <2> QED
    BY <2>1, <2>2 DEF Behind
<1> QED
  BY <1>3

\* A tenant needs no other secret after a step than before, but for one that the step
\* writes, or one that an update refers to.
LEMMA NeededAfter ==
  ASSUME SecretsIInv, StoredOK, \A q \in Requests : Farther(q),
         NEW r \in Requests, job' = job, Effect(r), NEW t \in Tenants, NEW n \in Needed(t)'
  PROVE  \/ n \in Needed(t)
         \/ Exists(n)'
         \/ /\ job[r].tenant = t /\ n \in AddedNames(r) /\ n \in Behind(r)
            /\ pc[r] = "update" /\ job[r].kind = "security"
            /\ read[r] \cap tenants # {} /\ secrets' = secrets
<1>1. DataOK
  BY DEF SecretsIInv
<1>2. ASSUME NEW tn \in Live(t)', n \in tn.refs
      PROVE  \/ n \in Needed(t)
             \/ /\ job[r].tenant = t /\ n \in AddedNames(r) /\ n \in Behind(r)
                /\ pc[r] = "update" /\ job[r].kind = "security"
                /\ read[r] \cap tenants # {} /\ secrets' = secrets
  <2>1. tn \in tenants' /\ tn.name = t
    BY <1>2 DEF Live
  <2>2. CASE tn \in tenants
    <3>1. tn \in Live(t)
      BY <2>1, <2>2 DEF Live
    <3> QED
      BY <1>2, <3>1, NeededIs
  <2>3. CASE tn = Fresh(r) /\ pc[r] = "tenant"
    <3>1. t = job[r].tenant /\ tn.refs = NamesOf(Plan(r)) /\ job[r].kind = "create" /\ step[r] > 1
      BY <2>1, <2>3 DEF Fresh, SecretsIInv, Placed
    <3>4. n \in Behind(r)
      BY <1>1, <1>2, <2>3, <3>1, AllBehind
    <3>5. Creates(r, t) /\ Midway(r)
      BY <2>3, <3>1 DEF Creates, Midway
    <3> QED
      BY <3>4, <3>5, NeededIs
  <2>4. ASSUME pc[r] = "update", NEW un \in Live(job[r].tenant) \cap read[r], tn = Newer(r, un)
        PROVE  \/ n \in Needed(t)
               \/ /\ job[r].tenant = t /\ n \in AddedNames(r) /\ n \in Behind(r)
                  /\ pc[r] = "update" /\ job[r].kind = "security"
                  /\ read[r] \cap tenants # {} /\ secrets' = secrets
    <3>1. /\ un \in tenants /\ un.name = job[r].tenant /\ tn.name = un.name
          /\ n \in un.refs \cup NamesOf(Plan(r)) /\ job[r].kind = "security"
      BY <1>2, <2>4 DEF Live, Newer, NewRefs, Farther
    <3>2. n \in un.refs => n \in Needed(t)
      BY <2>1, <3>1, NeededIs DEF Live
    <3>3. ASSUME n \in NamesOf(Plan(r)) PROVE n \in AddedNames(r) /\ n \in Behind(r)
      <4>1. n \in Behind(r)
        BY <1>1, <2>4, <3>3, AllBehind
      <4>2. PICK k \in DOMAIN Plan(r) : n = Plan(r)[k].name
        BY <3>3 DEF NamesOf
      <4> QED
        BY <1>1, <3>1, <4>1, <4>2, PlanBelongs
    <3>4. secrets' = secrets
      BY <2>4 DEF Effect, SecretsEffect
    <3> QED
      BY <2>1, <2>4, <3>1, <3>2, <3>3, <3>4
  <2> QED
    BY <2>1, <2>2, <2>3, <2>4, TenantsAfter
<1>3. ASSUME NEW c \in Requests, Creates(c, t)', Midway(c)', n \in Behind(c)'
      PROVE  n \in Needed(t) \/ Exists(n)'
  <2>1. Creates(c, t)
    BY <1>3, WhatIsAskedStays
  <2>2. Plan(c)' = Plan(c)
    BY <1>1, <2>1, PlansStay DEF Creates, Effect
  <2>3. PICK k \in DOMAIN Plan(c) : n = Plan(c)[k].name /\ k < step'[c]
    BY <1>3, <2>2 DEF Behind
  <2>4. CASE Midway(c) /\ k < step[c]
    <3>1. n \in Behind(c)
      BY <2>3, <2>4 DEF Behind
    <3> QED
      BY <2>1, <2>4, <3>1, NeededIs
  <2>5. CASE c # r
    <3>1. Midway(c) /\ k < step[c]
      BY <1>3, <2>3, <2>5 DEF Midway, Effect, OthersUnmoved
    <3> QED
      BY <2>4, <3>1
  <2>6. CASE c = r /\ Advances(r) /\ pc[r] = "secret"
    <3>1. step'[r] = step[r] + 1 /\ step[r] \in Nat \ {0} /\ job[r].kind = "create"
      BY <1>1, <2>1, <2>6 DEF Advances, DataOK, Creates
    <3>2. k \in Nat \ {0}
      <4> DEFINE p == Plan(r)
      <4>1. p \in Seq(Items) /\ k \in DOMAIN p
        BY <1>1, <2>6, <3>1, SecretPlanIs DEF LocksFirst
      <4> HIDE DEF p
      <4> QED
        BY <4>1
    <3>3. k = step[r] \/ k < step[r]
      BY <2>3, <2>6, <3>1, <3>2
    <3>4. k < step[r] => Midway(r)
      BY <2>6, <3>1, <3>2 DEF Midway
    <3>5. k = step[r] => Exists(n)'
      <4> DEFINE m == Plan(r)[step[r]].name
      <4>1. secrets' = Without(m) \cup {Written(r, m)}
        BY <2>6 DEF Advances
      <4>2. k = step[r] => n = m
        BY <2>3, <2>6
      <4> HIDE DEF m
      <4> QED
        BY <4>1, <4>2, Wrote
    <3> QED
      BY <2>4, <2>6, <3>3, <3>4, <3>5
  <2>7. CASE c = r /\ Midway(r) /\ step'[r] = step[r]
    BY <2>3, <2>4, <2>7
  <2> QED
    BY <1>3, <2>5, <2>6, <2>7, MidwayAfter
<1> QED
  BY <1>2, <1>3, NeededIs

\* A secret that is gone after the step.
LEMMA LostIsTaken ==
  ASSUME SecretsIInv, LabelsOK, NEW r \in Requests, job' = job, Effect(r), NEW n, Exists(n), ~Exists(n)'
  PROVE  \/ /\ pc[r] = "replace" /\ n = Plan(r)[step[r]].name
            /\ Replacing(r, n)'
         \/ pc[r] \in {"cleanup", "secrets"} /\ Belongs(n, job[r].tenant)
         \/ pc[r] = "remove" /\ n \in job[r].remove
<1>1. PICK s \in secrets : s.name = n /\ s \notin secrets'
  BY DEF Exists
<1>2. CASE /\ pc[r] = "replace" /\ pc'[r] = "secret" /\ step'[r] = step[r] /\ read'[r] = read[r]
           /\ secrets' = Without(Plan(r)[step[r]].name)
  <2>1. n = Plan(r)[step[r]].name
    BY <1>1, <1>2 DEF Without
  <2>2. Plan(r)' = Plan(r)
    BY <1>2, PlansStay DEF Effect, SecretsIInv
  <2>3. step[r] \in DOMAIN Plan(r)
    BY <1>2, ItemAt
  <2> QED
    BY <1>2, <2>1, <2>2, <2>3 DEF Replacing
<1>3. CASE pc[r] = "secret" /\ secrets' = Without(Plan(r)[step[r]].name) \cup {Written(r, Plan(r)[step[r]].name)}
  <2> DEFINE m == Plan(r)[step[r]].name
  <2>1. secrets' = Without(m) \cup {Written(r, m)}
    BY <1>3
  <2> HIDE DEF m
  <2>2. n # m
    BY <2>1, Wrote
  <2> QED
    BY <1>1, <2>1, <2>2 DEF Without
<1>4. CASE pc[r] \in {"cleanup", "secrets"} /\ secrets' \in Swept(job[r].tenant)
  <2>1. s.tenant = job[r].tenant
    BY <1>1, <1>4 DEF Swept, Labelled
  <2> QED
    BY <1>1, <1>4, <2>1 DEF LabelsOK
<1>5. CASE pc[r] = "remove" /\ \E gone \in SUBSET job[r].remove : secrets' = {u \in secrets : u.name \notin gone}
  BY <1>1, <1>5
<1> QED
  BY <1>1, <1>2, <1>3, <1>4, <1>5 DEF Effect, SecretsEffect

LEMMA ReplacingStays ==
  ASSUME SecretsIInv, NEW r \in Requests, job' = job, Effect(r), NEW q \in Requests, NEW n, Replacing(q, n)
  PROVE  Replacing(q, n)' \/ Exists(n)' \/ (q = r /\ Trouble(r)')
<1>1. CASE q # r
  <2>1. Plan(q)' = Plan(q) /\ pc'[q] = pc[q] /\ step'[q] = step[q]
    BY <1>1, PlansStay DEF Effect, OthersUnmoved, SecretsIInv
  <2> QED
    BY <2>1 DEF Replacing
<1>2. CASE q = r
  <2>1. pc[r] = "secret" /\ Plan(r)[step[r]].name = n
    BY <1>2 DEF Replacing
  <2>2. Advances(r) => Exists(n)'
    <3> DEFINE m == Plan(r)[step[r]].name
    <3>1. Advances(r) => secrets' = Without(m) \cup {Written(r, m)}
      BY DEF Advances
    <3>2. n = m
      BY <2>1
    <3> HIDE DEF m
    <3> QED
      BY <3>1, <3>2, Wrote
  <2> QED
    BY <1>2, <2>1, <2>2 DEF Effect, Leads
<1> QED
  BY <1>1, <1>2

-----------------------------------------------------------------------------
(* The parts of the invariant about one tenant that no request failed for.   *)

\* The names of other requests' certificates.
LEMMA NamesDiffer ==
  ASSUME NEW t \in Tenants, NEW q \in Requests
  PROVE  /\ CA \notin AddedNames(q) /\ <<t, "cert">> # CA /\ NameOfLock(t) # CA
         /\ \A u \in Tenants : <<u, "cert">> \notin AddedNames(q) /\ NameOfLock(t) # <<u, "cert">>
         /\ \A p \in Requests : NameOfLock(t) \notin AddedNames(p)
         /\ \A u \in Tenants : NameOfLock(t) = NameOfLock(u) => t = u
         /\ NameOfLock(t) \in OwnNames(t) /\ <<t, "cert">> \in OwnNames(t)
         /\ CA \notin OwnNames(t)
BY NamesAssumption DEF CA, NameOfLock, OwnNames, AddedNames

\* Who asked for what keeps its kind.
LEMMA BeforeStep ==
  ASSUME LossIInv, NEW r \in Requests, job' = job, Effect(r), NEW t \in Tenants, Good(t)'
  PROVE  /\ SecretsIInv /\ StoredOK /\ LabelsOK /\ RefsOK /\ VersionsOK /\ DataOK
         /\ \A q \in Requests : Farther(q) /\ Placed(q) /\ job[q] \in Jobs /\ job[q].tenant \in Tenants /\ pc[q] \in Labels
         /\ LockStays(t) /\ Alone(t) /\ DeletionsOK(t) /\ NeededThere(t) /\ RemovalsOK(t) /\ UpdatesOK(t)
         /\ ~Contested(t)
         /\ job[r].tenant = t => ~Trouble(r) /\ ~Trouble(r)'
<1>1. SecretsIInv /\ StoredOK /\ LabelsOK /\ RefsOK /\ VersionsOK /\ DataOK
  BY DEF LossIInv, SecretsIInv
<1>2. \A q \in Requests : Farther(q) /\ Placed(q) /\ job[q] \in Jobs /\ job[q].tenant \in Tenants /\ pc[q] \in Labels
  BY <1>1 DEF LossIInv, SecretsIInv, DataOK, Jobs
<1>3. Good(t) /\ (job[r].tenant = t => ~Trouble(r) /\ ~Trouble(r)')
  BY <1>1, GoodBefore
<1>4. Kept(t)
  BY DEF LossIInv
<1> QED
  BY <1>1, <1>2, <1>3, <1>4 DEF Kept, Good

\* The secret that locks the name goes with the deletion of its tenant alone.
LEMMA LockTaken ==
  ASSUME LossIInv, NEW r \in Requests, job' = job, Effect(r), NEW t \in Tenants, Good(t)',
         Exists(NameOfLock(t)), ~Exists(NameOfLock(t))'
  PROVE  pc[r] = "secrets" /\ Deleting(r, t)
<1> DEFINE n == NameOfLock(t)
<1>1. /\ SecretsIInv /\ LabelsOK /\ DataOK /\ Placed(r) /\ Farther(r)
      /\ job[r] \in Jobs /\ job[r].tenant \in Tenants
      /\ job[r].tenant = t => ~Trouble(r)
  BY BeforeStep
<1>2. Belongs(n, t)
  BY NamesDiffer DEF Belongs
<1> HIDE DEF n
<1>3. Exists(n) /\ ~Exists(n)' /\ n # CA
  BY NamesDiffer DEF n
<1>4. CASE pc[r] = "replace" /\ n = Plan(r)[step[r]].name
  <2> DEFINE k == step[r]
  <2>1. k \in DOMAIN Plan(r) /\ k \in Nat /\ Plan(r)[k].how = "replace"
    BY <1>1, <1>4, ItemAt DEF Placed
  <2>2. ~(job[r].kind = "create" /\ k = 1)
    <3>1. \A m : Item(m, "create").how = "create"
      BY DEF Item
    <3> QED
      BY <1>1, <2>1, <3>1, ItemIs
  <2>3. NoLock(Plan(r)[k].name)
    BY <1>1, <2>1, <2>2, ItemIs
  <2> QED
    BY <1>4, <2>3 DEF n, NameOfLock, NoLock
<1>5. CASE pc[r] \in {"cleanup", "secrets"} /\ Belongs(n, job[r].tenant)
  <2>1. job[r].tenant = t
    BY <1>1, <1>2, <1>3, <1>5, BelongsToOne
  <2>2. pc[r] # "cleanup"
    BY <1>1, <2>1 DEF Trouble
  <2> QED
    BY <1>1, <1>5, <2>1, <2>2 DEF Deleting, Deletes, Placed
<1>6. CASE n \in job[r].remove
  <2>1. n = CA \/ \E u \in Tenants : n = <<u, "cert">>
    BY <1>1, <1>6 DEF Jobs
  <2> QED
    BY <2>1, NamesDiffer DEF n
<1> QED
  BY <1>1, <1>3, <1>4, <1>5, <1>6, LostIsTaken

\* A creation that comes past the lock has written it.
LEMMA NewlyMidway ==
  ASSUME LossIInv, NEW r \in Requests, job' = job, Effect(r), NEW t \in Tenants, Good(t)',
         NEW q \in Requests, Creates(q, t), Midway(q)', ~Midway(q)
  PROVE  /\ q = r /\ pc[r] = "secret" /\ ~Exists(NameOfLock(t)) /\ Exists(NameOfLock(t))' /\ tenants' = tenants
<1>1. SecretsIInv /\ DataOK /\ Placed(r) /\ job[r] \in Jobs
  BY BeforeStep
<1>2. q = r
  BY DEF Effect, OthersUnmoved, Midway
<1>3. pc[r] = "secret" /\ Advances(r) /\ job[r].kind = "create" /\ job[r].tenant = t
  BY <1>1, <1>2, MidwayAfter DEF Creates
<1>4. step[r] = 1 /\ step[r] \in DOMAIN Plan(r)
  <2>1. step[r] \in Nat \ {0} /\ step[r] \in DOMAIN Plan(r)
    BY <1>1, <1>3, ItemAt
  <2> QED
    BY <1>2, <1>3, <2>1 DEF Midway
<1> DEFINE i == Plan(r)[step[r]]
<1>5. i = Item(NameOfLock(t), "create")
  BY <1>1, <1>3, <1>4, ItemIs DEF NameOfLock
<1>6. secrets' = Without(i.name) \cup {Written(r, i.name)} /\ (i.how = "upsert" \/ ~Exists(i.name))
  BY <1>3 DEF Advances
<1> HIDE DEF i
<1>7. i.name = NameOfLock(t) /\ i.how = "create"
  BY <1>5 DEF Item
<1>8. Exists(NameOfLock(t))' /\ ~Exists(NameOfLock(t))
  <2> DEFINE n == NameOfLock(t)
  <2>1. secrets' = Without(n) \cup {Written(r, n)} /\ ~Exists(n)
    BY <1>6, <1>7
  <2> HIDE DEF n
  <2>2. Exists(n)'
    BY <2>1, Wrote
  <2> QED
    BY <2>1, <2>2 DEF n
<1>9. tenants' = tenants
  BY <1>3 DEF Effect, TenantsEffect
<1> QED
  BY <1>2, <1>3, <1>8, <1>9

\* The tenant t after the step: as before, or created, or updated.
LEMMA LiveAfter ==
  ASSUME SecretsIInv, StoredOK, NEW r \in Requests, job' = job, Effect(r), NEW t \in Tenants, NEW tn \in Live(t)'
  PROVE  \/ tn \in Live(t)
         \/ /\ tn = Fresh(r) /\ tn.refs = NamesOf(Plan(r)) /\ tn.version[1] = r
            /\ pc[r] = "tenant" /\ Creates(r, t) /\ Midway(r) /\ Live(t) = {} /\ secrets' = secrets
         \/ /\ pc[r] = "update" /\ job[r].tenant = t /\ Live(t) # {}
            /\ \E un \in Live(t) \cap read[r] :
                 tn = Newer(r, un) /\ tenants' = (tenants \ {un}) \cup {Newer(r, un)}
<1>1. tn \in tenants' /\ tn.name = t
  BY DEF Live
<1>2. CASE tn \in tenants
  BY <1>1, <1>2 DEF Live
<1>3. CASE tn = Fresh(r) /\ pc[r] = "tenant" /\ Live(job[r].tenant) = {}
  <2>1. job[r].tenant = t /\ tn.refs = NamesOf(Plan(r)) /\ tn.version[1] = r
    BY <1>1, <1>3 DEF Fresh
  <2>2. job[r].kind = "create" /\ step[r] > 1
    BY <1>3 DEF SecretsIInv, Placed
  <2>3. secrets' = secrets
    BY <1>3 DEF Effect, SecretsEffect
  <2> QED
    BY <1>3, <2>1, <2>2, <2>3 DEF Creates, Midway
<1>4. ASSUME pc[r] = "update", NEW un \in Live(job[r].tenant) \cap read[r], tn = Newer(r, un),
             tenants' = (tenants \ {un}) \cup {Newer(r, un)}
      PROVE  /\ job[r].tenant = t /\ un \in Live(t)
  <2>1. un.name = job[r].tenant /\ tn.name = un.name
    BY <1>4 DEF Live, Newer
  <2> QED
    BY <1>1, <1>4, <2>1
<1> QED
  BY <1>1, <1>2, <1>3, <1>4, TenantsAfter

LEMMA LockStaysKeeps ==
  ASSUME LossIInv, NEW r \in Requests, job' = job, Effect(r), NEW t \in Tenants, Good(t)'
  PROVE  LockStays(t)'
<1>1. SecretsIInv /\ StoredOK /\ LockStays(t) /\ Alone(t) /\ DeletionsOK(t)
  BY BeforeStep
<1> SUFFICES ASSUME NEW tn \in Live(t)' PROVE Exists(NameOfLock(t))'
  BY DEF LockStays, NameOfLock
<1> DEFINE n == NameOfLock(t)
<1>2. CASE Live(t) # {}
  <2>1. Exists(n)
    BY <1>1, <1>2 DEF LockStays
  <2>2. ~(pc[r] = "secrets" /\ Deleting(r, t))
    BY <1>1, <1>2 DEF DeletionsOK
  <2> QED
    BY <2>1, <2>2, LockTaken
<1>3. CASE Live(t) = {}
  <2>1. Creates(r, t) /\ Midway(r) /\ secrets' = secrets
    BY <1>1, <1>3, LiveAfter
  <2>2. Exists(NameOfLock(t))
    BY <1>1, <2>1 DEF Alone
  <2> QED
    BY <2>1, <2>2 DEF Exists, NameOfLock
<1> QED
  BY <1>2, <1>3

\* A deletion that begins has found the tenant.
LEMMA DeletingAfter ==
  ASSUME SecretsIInv, NEW r \in Requests, job' = job, Effect(r), NEW d \in Requests, NEW t, Deleting(d, t)'
  PROVE  \/ Deleting(d, t) /\ pc[d] # "secrets" /\ (d # r => pc'[d] = pc[d])
         \/ Deleting(d, t) /\ d # r /\ pc'[d] = pc[d]
         \/ d = r /\ pc[r] = "start" /\ pc'[r] = "delete" /\ Live(t) # {} /\ secrets' = secrets
<1>1. Deletes(d, t) /\ pc'[d] \in {"delete", "claims", "secrets"}
  BY WhatIsAskedStays DEF Deleting
<1>2. CASE d # r
  BY <1>1, <1>2 DEF Effect, OthersUnmoved, Deleting
<1>3. CASE d = r
  <2>1. pc[r] \in Labels
    BY DEF SecretsIInv, DataOK
  <2>2. pc[r] \in {"start", "delete", "claims"}
    BY <1>1, <1>3, <2>1 DEF Labels, Effect, Leads, Advances
  <2>3. CASE pc[r] = "start"
    <3>1. Starts(r)
      BY <2>3 DEF Effect, Leads
    <3>2. pc'[r] = "delete" /\ Live(job[r].tenant) # {}
      BY <1>1, <1>3, <3>1 DEF Starts, Trouble
    <3>3. secrets' = secrets
      BY <2>3 DEF Effect, SecretsEffect
    <3> QED
      BY <1>1, <1>3, <2>3, <3>2, <3>3 DEF Deletes
  <2> QED
    BY <1>1, <1>3, <2>2, <2>3 DEF Deleting
<1> QED
  BY <1>2, <1>3

LEMMA AloneKeeps ==
  ASSUME LossIInv, NEW r \in Requests, job' = job, Effect(r), NEW t \in Tenants, Good(t)'
  PROVE  Alone(t)'
<1>1. /\ SecretsIInv /\ StoredOK /\ LockStays(t) /\ Alone(t) /\ DeletionsOK(t)
      /\ \A q, u : Creates(q, u)' <=> Creates(q, u)
  BY BeforeStep, WhatIsAskedStays
<1> DEFINE n == NameOfLock(t)
<1> SUFFICES ASSUME NEW q \in Requests, Creates(q, t), Midway(q)'
             PROVE  /\ Exists(NameOfLock(t))' /\ Live(t)' = {}
                    /\ \A p \in Requests : Creates(p, t) /\ Midway(p)' => p = q
                    /\ \A d \in Requests : ~Deleting(d, t)'
  BY <1>1 DEF Alone, NameOfLock
<1>2. CASE Midway(q)
  <2>1. /\ Exists(NameOfLock(t)) /\ Live(t) = {}
        /\ \A p \in Requests : Creates(p, t) /\ Midway(p) => p = q
        /\ \A d \in Requests : ~Deleting(d, t)
    BY <1>1, <1>2 DEF Alone
  <2>2. Exists(NameOfLock(t))'
    BY <2>1, LockTaken
  <2>3. ASSUME NEW tn \in Live(t)' PROVE FALSE
    <3>1. pc[r] = "tenant" /\ Creates(r, t) /\ Midway(r)
      BY <1>1, <2>1, <2>3, LiveAfter
    <3>2. r = q
      BY <2>1, <3>1
    <3>3. pc'[r] \in {"integrate", "cleanup", "done"}
      BY <3>1 DEF Effect, Leads
    <3> QED
      BY <3>2, <3>3 DEF Midway
  <2>4. ASSUME NEW p \in Requests, Creates(p, t), Midway(p)' PROVE p = q
    <3>1. Midway(p)
      BY <2>1, <2>4, NewlyMidway
    <3> QED
      BY <2>1, <2>4, <3>1
  <2>5. ASSUME NEW d \in Requests, Deleting(d, t)' PROVE FALSE
    BY <1>1, <2>1, <2>5, DeletingAfter
  <2> QED
    BY <2>2, <2>3, <2>4, <2>5
<1>3. CASE ~Midway(q)
  <2>1. /\ q = r /\ pc[r] = "secret" /\ ~Exists(NameOfLock(t)) /\ Exists(NameOfLock(t))' /\ tenants' = tenants
    BY <1>3, NewlyMidway
  <2>2. Live(t)' = {}
    BY <1>1, <2>1 DEF LockStays, Live
  <2>3. ASSUME NEW p \in Requests, Creates(p, t), Midway(p)' PROVE p = q
    <3>1. Midway(p) => p = q
      BY <1>1, <2>1, <2>3 DEF Alone
    <3>2. ~Midway(p) => p = q
      BY <2>1, <2>3, NewlyMidway
    <3> QED
      BY <3>1, <3>2
  <2>4. ASSUME NEW d \in Requests, Deleting(d, t)' PROVE FALSE
    <3>1. Deleting(d, t)
      BY <1>1, <2>1, <2>4, DeletingAfter
    <3> QED
      BY <1>1, <2>1, <3>1 DEF DeletionsOK
  <2> QED
    BY <2>1, <2>2, <2>3, <2>4
<1> QED
  BY <1>2, <1>3

LEMMA DeletionsKeep ==
  ASSUME LossIInv, NEW r \in Requests, job' = job, Effect(r), NEW t \in Tenants, Good(t)'
  PROVE  DeletionsOK(t)'
<1>1. /\ SecretsIInv /\ StoredOK /\ LockStays(t) /\ Alone(t) /\ DeletionsOK(t) /\ ~Contested(t)
      /\ \A q, u : Creates(q, u)' <=> Creates(q, u)
  BY BeforeStep, WhatIsAskedStays
<1> SUFFICES ASSUME NEW d \in Requests, Deleting(d, t)'
             PROVE  /\ (\E c \in Requests : Creates(c, t)) => Exists(NameOfLock(t))'
                    /\ pc'[d] # "delete" => Live(t)' = {}
  BY <1>1 DEF DeletionsOK, NameOfLock
<1>2. CASE d = r /\ pc[r] = "start" /\ pc'[r] = "delete" /\ Live(t) # {} /\ secrets' = secrets
  BY <1>1, <1>2 DEF LockStays, Exists, NameOfLock
<1>3. CASE Deleting(d, t) /\ (d # r => pc'[d] = pc[d]) /\ (d = r => pc[r] # "secrets")
  <2>1. ASSUME NEW c \in Requests, Creates(c, t) PROVE Exists(NameOfLock(t))'
    <3>1. Exists(NameOfLock(t))
      BY <1>1, <1>3, <2>1 DEF DeletionsOK
    <3>2. ASSUME ~Exists(NameOfLock(t))' PROVE FALSE
      <4>1. pc[r] = "secrets" /\ Deleting(r, t)
        BY <3>1, <3>2, LockTaken
      <4>2. d # r /\ Deletes(d, t) /\ Deletes(r, t)
        BY <1>3, <4>1 DEF Deleting
      <4> QED
        BY <1>1, <2>1, <4>2 DEF Contested
    <3> QED
      BY <3>2
  <2>2. ASSUME pc'[d] # "delete", NEW tn \in Live(t)' PROVE FALSE
    <3>1. ~(Creates(r, t) /\ Midway(r))
      BY <1>1, <1>3 DEF Alone
    <3>2. CASE pc[d] # "delete"
      BY <1>1, <1>3, <2>2, <3>1, <3>2, LiveAfter DEF DeletionsOK
    <3>3. CASE pc[d] = "delete"
      <4>1. d = r /\ job[r].tenant = t /\ pc'[r] # "done"
        BY <1>3, <2>2, <3>3 DEF Deleting, Deletes
      <4>2. Live(job[r].tenant)' = {}
        BY <2>2, <3>3, <4>1 DEF Effect, Leads
      <4>3. Live(t)' = {}
        BY <4>1, <4>2 DEF Live
      <4> QED
        BY <2>2, <4>3
    <3> QED
      BY <3>2, <3>3
  <2> QED
    BY <2>1, <2>2
<1> QED
  BY <1>1, <1>2, <1>3, DeletingAfter

LEMMA NeededBelongs ==
  ASSUME SecretsIInv, RefsOK, NEW t \in Tenants, NEW n \in Needed(t)
  PROVE  Belongs(n, t)
<1>1. CASE \E tn \in Live(t) : n \in tn.refs
  BY <1>1 DEF RefsOK, Live
<1>2. ASSUME NEW c \in Requests, Creates(c, t), n \in Behind(c) PROVE Belongs(n, t)
  <2>1. PICK k \in DOMAIN Plan(c) : n = Plan(c)[k].name
    BY <1>2 DEF Behind
  <2>2. Belongs(Plan(c)[k].name, job[c].tenant)
    BY PlanBelongs DEF SecretsIInv
  <2> QED
    BY <1>2, <2>1, <2>2 DEF Creates
<1> QED
  BY <1>1, <1>2, NeededIs

\* While the secrets of a tenant are deleted, nothing is needed of it.
LEMMA NothingNeeded ==
  ASSUME NEW t, Alone(t), DeletionsOK(t), NEW d \in Requests, Deleting(d, t), pc[d] # "delete"
  PROVE  Needed(t) = {}
<1>1. Live(t) = {}
  BY DEF DeletionsOK
<1>2. ASSUME NEW c \in Requests, Creates(c, t), Midway(c) PROVE FALSE
  BY <1>2 DEF Alone
<1>3. ASSUME NEW n \in Needed(t) PROVE FALSE
  BY <1>1, <1>2, <1>3, NeededIs
<1> QED
  BY <1>3

\* A request does not write the name twice.
LEMMA BehindIsWritten ==
  ASSUME DataOK, NEW r \in Requests, job[r].kind \in {"create", "security"}, step[r] \in DOMAIN Plan(r)
  PROVE  Plan(r)[step[r]].name \notin Behind(r)
<1> DEFINE p == Plan(r)
           m == step[r]
<1>1. \/ Distinct(p, OwnNames(job[r].tenant) \cup (IF "ca" \in job[r].options THEN {CA} ELSE {}))
      \/ Distinct(p, AddedNames(r))
  BY PlanNames
<1>2. p \in Seq(Items) /\ \A j, k \in 1 .. Len(p) : p[j].name = p[k].name => j = k
  BY <1>1 DEF Distinct
<1>3. m \in DOMAIN p
  OBVIOUS
<1>4. \A n \in Behind(r) : \E k \in DOMAIN p : k < m /\ n = p[k].name
  BY DEF Behind
<1> HIDE DEF p, m
<1>5. DOMAIN p = 1 .. Len(p) /\ Len(p) \in Nat
  BY <1>2
<1>6. ASSUME NEW k \in DOMAIN p, k < m, p[m].name = p[k].name PROVE FALSE
  BY <1>2, <1>3, <1>5, <1>6
<1>7. p[m].name \notin Behind(r)
  BY <1>4, <1>6
<1> QED
  BY <1>7 DEF p, m

\* A secret that is about to be written again by a creation, or by a change of the
\* secrets of a tenant, is not needed yet.
LEMMA NotNeededYet ==
  ASSUME LossIInv, NEW r \in Requests, job' = job, Effect(r), NEW t \in Tenants, Good(t)',
         pc[r] = "replace", job[r].tenant = t, Plan(r)[step[r]].name \in Needed(t),
         Plan(r)[step[r]].name # CA
  PROVE  job[r].kind = "certificates"
<1> DEFINE n == Plan(r)[step[r]].name
<1>1. /\ SecretsIInv /\ StoredOK /\ RefsOK /\ Alone(t) /\ DataOK /\ Placed(r) /\ job[r] \in Jobs
  BY BeforeStep
<1>2. /\ step[r] \in DOMAIN Plan(r) /\ step[r] \in Nat \ {0} /\ Plan(r)[step[r]].how = "replace"
      /\ job[r].kind \in {"create", "security", "certificates"}
  BY <1>1, ItemAt DEF Placed, Jobs
<1>3. ASSUME job[r].kind = "create" PROVE FALSE
  <2>1. step[r] # 1
    <3>1. \A m : Item(m, "create").how # "replace"
      BY DEF Item
    <3> QED
      BY <1>1, <1>2, <1>3, <3>1, ItemIs
  <2>2. Creates(r, t) /\ Midway(r)
    BY <1>2, <1>3, <2>1 DEF Creates, Midway
  <2>3. Live(t) = {} /\ \A q \in Requests : Creates(q, t) /\ Midway(q) => q = r
    BY <1>1, <2>2 DEF Alone
  <2>4. n \in Behind(r)
    BY <2>3, NeededIs
  <2> QED
    BY <1>1, <1>2, <1>3, <2>4, BehindIsWritten
<1>4. ASSUME job[r].kind = "security" PROVE FALSE
  <2>1. n \in AddedNames(r)
    BY <1>1, <1>2, <1>4, PlanBelongs
  <2>2. ASSUME NEW tn \in Live(t), n \in tn.refs PROVE FALSE
    <3>1. \A q \in Requests : n \in AddedNames(q) => pc[q] \in {"remove", "done"}
      BY <1>1, <2>2 DEF RefsOK, Live
    <3> QED
      BY <2>1, <3>1
  <2>3. ASSUME NEW c \in Requests, Creates(c, t), n \in Behind(c) PROVE FALSE
    <3>1. PICK k \in DOMAIN Plan(c) : n = Plan(c)[k].name
      BY <2>3 DEF Behind
    <3>2. job[c].kind = "create"
      BY <2>3 DEF Creates
    <3>3. Plan(c)[k].name \notin AddedNames(r)
      BY <1>1, <3>2, PlanBelongs
    <3> QED
      BY <2>1, <3>1, <3>3
  <2> QED
    BY <2>2, <2>3, NeededIs
<1> QED
  BY <1>2, <1>3, <1>4

\* A removal takes no secret that its tenant needs.
LEMMA NotRemoved ==
  ASSUME LossIInv, NEW r \in Requests, job' = job, Effect(r), NEW t \in Tenants, Good(t)',
         pc[r] = "remove", NEW n \in job[r].remove, n \in Needed(t), n # CA
  PROVE  FALSE
<1>1. /\ SecretsIInv /\ RefsOK /\ Alone(t) /\ RemovalsOK(t) /\ ~Contested(t) /\ Farther(r) /\ job[r] \in Jobs
  BY BeforeStep
<1>2. job[r].kind = "security"
  BY <1>1 DEF Farther
<1>3. PICK u \in Tenants : n = <<u, "cert">>
  BY <1>1 DEF Jobs
<1>4. u = t
  <2>1. Belongs(n, t)
    BY <1>1, NeededBelongs
  <2>2. Belongs(n, u) /\ n # CA
    BY <1>3, NamesDiffer DEF Belongs
  <2> QED
    BY <2>1, <2>2, BelongsToOne
<1>5. Removes(r, t)
  BY <1>2, <1>3, <1>4 DEF Removes
<1>6. job[r].tenant = t
  BY <1>1, <1>5 DEF Contested
<1>7. (\A tn \in Live(t) : n \notin tn.refs) /\ (~Deleted(t) => Live(t) # {})
  BY <1>1, <1>3, <1>4, <1>6 DEF RemovalsOK
<1>8. PICK c \in Requests : Creates(c, t) /\ Midway(c)
  BY <1>7, NeededIs
<1>9. Live(t) = {}
  BY <1>1, <1>8 DEF Alone
<1>10. PICK d \in Requests : Deletes(d, t)
  BY <1>7, <1>9 DEF Deleted
<1>11. d # r
  BY <1>2, <1>10 DEF Deletes
<1> QED
  BY <1>1, <1>5, <1>8, <1>10, <1>11 DEF Contested

\* Nor does it take certificates of authorities that its tenant needs.
LEMMA AuthoritiesNotRemoved ==
  ASSUME LossIInv, NEW r \in Requests, job' = job, Effect(r), NEW t \in Tenants, Good(t)',
         pc[r] = "remove", CA \in job[r].remove, CA \in Needed(t), ~Shared(t)
  PROVE  FALSE
<1>1. Alone(t) /\ RemovalsOK(t) /\ Farther(r)
  BY BeforeStep
<1>2. RemovesCA(r)
  BY <1>1 DEF Farther, RemovesCA
<1>3. job[r].tenant = t /\ ~Deleted(t)
  BY <1>2 DEF Shared
<1>4. (\A tn \in Live(t) : CA \notin tn.refs) /\ Live(t) # {}
  BY <1>1, <1>3 DEF RemovalsOK
<1>5. PICK c \in Requests : Creates(c, t) /\ Midway(c)
  BY <1>4, NeededIs
<1> QED
  BY <1>1, <1>4, <1>5 DEF Alone

LEMMA NeededKeeps ==
  ASSUME LossIInv, NEW r \in Requests, job' = job, Effect(r), NEW t \in Tenants, Good(t)'
  PROVE  NeededThere(t)'
<1>1. /\ SecretsIInv /\ StoredOK /\ LabelsOK /\ RefsOK /\ DataOK /\ Placed(r) /\ job[r].tenant \in Tenants
      /\ Alone(t) /\ DeletionsOK(t) /\ NeededThere(t) /\ UpdatesOK(t)
      /\ job[r].tenant = t => ~Trouble(r) /\ ~Trouble(r)'
      /\ \A q \in Requests : Farther(q)
  BY BeforeStep
<1> SUFFICES ASSUME NEW n \in Needed(t)', n # CA, ~Exists(n)'
             PROVE  \E q \in Requests : job[q].kind = "certificates" /\ job[q].tenant = t /\ Replacing(q, n)'
  BY DEF NeededThere, There, CA
<1>2. CASE /\ job[r].tenant = t /\ n \in AddedNames(r) /\ n \in Behind(r)
           /\ pc[r] = "update" /\ job[r].kind = "security"
           /\ read[r] \cap tenants # {} /\ secrets' = secrets
  <2>2. Exists(n)
    BY <1>1, <1>2 DEF UpdatesOK
  <2> QED
    BY <1>2, <2>2 DEF Exists
<1>3. CASE n \in Needed(t)
  <2>1. Belongs(n, t)
    BY <1>1, <1>3, NeededBelongs
  <2>2. ASSUME NEW q \in Requests, job[q].kind = "certificates", job[q].tenant = t, Replacing(q, n)
        PROVE  Replacing(q, n)'
    BY <1>1, <2>2, ReplacingStays
  <2>3. CASE Exists(n)
    <3>1. CASE pc[r] = "replace" /\ n = Plan(r)[step[r]].name /\ Replacing(r, n)'
      <4>1. Belongs(n, job[r].tenant)
        BY <1>1, <3>1, ItemAt, PlanBelongs
      <4>2. job[r].tenant = t
        BY <1>1, <2>1, <4>1, BelongsToOne
      <4>3. job[r].kind = "certificates"
        BY <1>3, <3>1, <4>2, NotNeededYet
      <4> QED
        BY <3>1, <4>2, <4>3
    <3>2. CASE pc[r] \in {"cleanup", "secrets"} /\ Belongs(n, job[r].tenant)
      <4>1. job[r].tenant = t
        BY <1>1, <2>1, <3>2, BelongsToOne
      <4>2. pc[r] = "secrets"
        BY <1>1, <3>2, <4>1 DEF Trouble
      <4>3. Deleting(r, t)
        BY <1>1, <4>1, <4>2 DEF Deleting, Deletes, Placed
      <4> QED
        BY <1>1, <1>3, <4>2, <4>3, NothingNeeded
    <3>3. CASE pc[r] = "remove" /\ n \in job[r].remove
      BY <1>3, <3>3, NotRemoved
    <3> QED
      BY <1>1, <2>3, <3>1, <3>2, <3>3, LostIsTaken
  <2> QED
    BY <1>1, <1>3, <2>2, <2>3 DEF NeededThere, There
<1> QED
  BY <1>1, <1>2, <1>3, NeededAfter

LEMMA RemovalsKeep ==
  ASSUME LossIInv, NEW r \in Requests, job' = job, Effect(r), NEW t \in Tenants, Good(t)'
  PROVE  RemovalsOK(t)'
<1>1. /\ SecretsIInv /\ StoredOK /\ RemovalsOK(t) /\ ~Contested(t) /\ DataOK
      /\ \A q \in Requests : Farther(q)
      /\ Deleted(t)' <=> Deleted(t)
  BY BeforeStep, WhatIsAskedStays
<1> SUFFICES ASSUME NEW q \in Requests, NEW n \in {<<t, "cert">>, CA},
                    pc'[q] = "remove", n \in job[q].remove, job[q].tenant = t
             PROVE  /\ (n = CA /\ Deleted(t)) \/ \A tn \in Live(t)' : n \notin tn.refs
                    /\ ~Deleted(t) => Live(t)' # {}
  BY <1>1 DEF RemovalsOK, CA
<1>2. ASSUME NEW un \in Live(t), n \notin un.refs \/ n \in job[r].remove, pc[r] = "update"
      PROVE  n \notin Newer(r, un).refs
  <2>1. job[r].kind = "security"
    BY <1>1, <1>2 DEF Farther
  <2>2. n \notin NamesOf(Plan(r))
    <3>1. ASSUME NEW k \in DOMAIN Plan(r), n = Plan(r)[k].name PROVE FALSE
      <4>1. n \in AddedNames(r)
        BY <1>1, <2>1, <3>1, PlanBelongs
      <4>2. CA \notin AddedNames(r) /\ <<t, "cert">> \notin AddedNames(r)
        BY NamesDiffer
      <4> QED
        BY <4>1, <4>2
    <3> QED
      BY <3>1 DEF NamesOf
  <2> QED
    BY <1>2, <2>2 DEF Newer, NewRefs
<1>3. CASE q # r
  <2>1. pc[q] = "remove"
    BY <1>3 DEF Effect, OthersUnmoved
  <2>2. /\ (n = CA /\ Deleted(t)) \/ \A tn \in Live(t) : n \notin tn.refs
        /\ ~Deleted(t) => Live(t) # {}
    BY <1>1, <2>1 DEF RemovalsOK
  <2>3. ASSUME ~(n = CA /\ Deleted(t)), NEW tn \in Live(t)' PROVE n \notin tn.refs
    <3>1. CASE Live(t) = {} /\ Creates(r, t)
      <4>1. PICK d \in Requests : Deletes(d, t)
        BY <2>2, <3>1 DEF Deleted
      <4>2. job[q].kind = "security"
        BY <1>1, <2>1 DEF Farther
      <4>3. d # q /\ Deleted(t)
        BY <4>1, <4>2 DEF Deletes, Deleted
      <4>4. Removes(q, t)
        BY <2>3, <4>2, <4>3 DEF Removes
      <4> QED
        BY <1>1, <3>1, <4>1, <4>3, <4>4 DEF Contested
    <3> QED
      BY <1>1, <1>2, <2>2, <2>3, <3>1, LiveAfter
  <2>4. ASSUME ~Deleted(t) PROVE Live(t)' # {}
    <3>1. PICK tn \in tenants : tn.name = t
      BY <2>2, <2>4 DEF Live
    <3>2. CASE tn \in tenants'
      BY <3>1, <3>2 DEF Live
    <3>3. CASE pc[r] = "delete" /\ tenants' = tenants \ Live(job[r].tenant)
      <4>1. ~Deletes(r, t) /\ job[r].kind = "delete"
        BY <1>1, <2>4, <3>3 DEF Deleted, SecretsIInv, Placed
      <4>2. job[r].tenant # t
        BY <4>1 DEF Deletes
      <4> QED
        BY <3>1, <3>2, <3>3, <4>2 DEF Live
    <3>4. ASSUME NEW un \in Live(job[r].tenant), tenants' = (tenants \ {un}) \cup {Newer(r, un)}
          PROVE  Live(t)' # {}
      <4>1. tn = un => Newer(r, un).name = t
        BY <3>1 DEF Newer
      <4>2. tn = un => Newer(r, un) \in Live(t)'
        BY <3>4, <4>1 DEF Live
      <4> QED
        BY <3>1, <3>2, <3>4, <4>2
    <3> QED
      BY <3>1, <3>2, <3>3, <3>4 DEF Effect, TenantsEffect
  <2> QED
    BY <2>3, <2>4
<1>4. CASE q = r
  <2>1. pc[r] = "update" /\ job[r].tenant = t /\ n \in job[r].remove
    BY <1>1, <1>4 DEF Effect, Leads, Starts, Advances, DataOK, Labels
  <2>2. PICK un \in Live(t) \cap read[r] : tenants' = (tenants \ {un}) \cup {Newer(r, un)}
    BY <1>4, <2>1 DEF Effect, Leads
  <2>3. Newer(r, un) \in Live(t)'
    <3>1. Newer(r, un).name = t
      BY DEF Newer, Live
    <3> QED
      BY <2>2, <3>1 DEF Live
  <2>4. ASSUME NEW tn \in Live(t)' PROVE n \notin tn.refs
    <3>1. tn \in tenants /\ tn.name = t => tn = un
      BY <1>1, <2>2 DEF StoredOK, Live
    <3>2. tn = Newer(r, un)
      BY <2>2, <2>4, <3>1 DEF Live
    <3> QED
      BY <1>2, <2>1, <3>2
  <2> QED
    BY <2>3, <2>4
<1> QED
  BY <1>3, <1>4

LEMMA UpdatesKeep ==
  ASSUME LossIInv, NEW r \in Requests, job' = job, Effect(r), NEW t \in Tenants, Good(t)'
  PROVE  UpdatesOK(t)'
<1>1. /\ SecretsIInv /\ StoredOK /\ LabelsOK /\ VersionsOK /\ DataOK /\ Placed(r) /\ job[r] \in Jobs
      /\ job[r].tenant \in Tenants
      /\ UpdatesOK(t) /\ DeletionsOK(t)
      /\ job[r].tenant = t => ~Trouble(r)
  BY BeforeStep
<1> SUFFICES ASSUME NEW q \in Requests, job[q].kind = "security", job[q].tenant = t,
                    pc'[q] \in {"replace", "secret", "update"},
                    NEW tn \in read'[q], tn \in tenants', NEW n \in Behind(q)'
             PROVE  Exists(n)'
  BY DEF UpdatesOK
<1>4. Plan(q)' = Plan(q)
  BY <1>1, PlansStay DEF Effect
<1>5. PICK i \in DOMAIN Plan(q) : n = Plan(q)[i].name /\ i < step'[q]
  BY <1>4 DEF Behind
<1>6. n \in AddedNames(q) /\ i \in Nat \ {0}
  <2> DEFINE p == Plan(q)
  <2>1. n \in AddedNames(q)
    BY <1>1, <1>5, PlanBelongs
  <2>2. p \in Seq(OtherItems) /\ i \in DOMAIN p
    BY <1>1, SecretPlanIs
  <2> HIDE DEF p
  <2> QED
    BY <2>1, <2>2
<1>2. CASE q # r
  <2>1. pc[q] \in {"replace", "secret", "update"} /\ tn \in read[q] /\ n \in Behind(q)
    BY <1>2, <1>4, <1>5 DEF Effect, OthersUnmoved, Behind
  <2>2. tn \in tenants
    <3>1. CreatedBy(tn)
      BY <1>1, <2>1 DEF VersionsOK
    <3>2. ~(tn = Fresh(r) /\ pc[r] = "tenant")
      <4>1. Fresh(r).version[1] = r
        BY DEF Fresh
      <4> QED
        BY <3>1, <4>1 DEF CreatedBy
    <3>3. ASSUME NEW un \in Live(job[r].tenant), tn = Newer(r, un) PROVE FALSE
      <4>1. un \in tenants /\ tn.name = un.name /\ tn.version[1] = un.version[1] /\ tn.version[2] = un.version[2] + 1
        BY <3>3 DEF Live, Newer
      <4>2. tn.version[2] <= un.version[2]
        BY <1>1, <2>1, <4>1 DEF VersionsOK
      <4>3. un.version[2] \in Nat
        BY <1>1, <4>1 DEF StoredOK, StoredTenants
      <4> QED
        BY <4>1, <4>2, <4>3
    <3> QED
      BY <1>1, <3>2, <3>3, TenantsAfter
  <2>3. Exists(n)
    BY <1>1, <2>1, <2>2 DEF UpdatesOK
  <2> SUFFICES ASSUME ~Exists(n)' PROVE FALSE
    OBVIOUS
  <2>4. Belongs(n, t) /\ n # CA
    BY <1>6, NamesDiffer DEF Belongs
  <2>5. tn \in Live(t)
    BY <1>1, <2>1, <2>2 DEF StoredOK, Live
  <2>6. ASSUME pc[r] = "replace", n = Plan(r)[step[r]].name PROVE FALSE
    <3>1. step[r] \in DOMAIN Plan(r)
      BY <1>1, <2>6, ItemAt
    <3>2. /\ job[r].kind # "create"
          /\ job[r].kind = "security" => n \in AddedNames(r)
          /\ job[r].kind # "security" => n = <<job[r].tenant, "cert">>
      BY <1>1, <1>6, <2>6, <3>1, PlanBelongs
    <3>3. n \in AddedNames(r) => q = r
      BY <1>6 DEF AddedNames
    <3> QED
      BY <1>1, <1>2, <1>6, <3>2, <3>3, NamesDiffer
  <2>7. ASSUME pc[r] \in {"cleanup", "secrets"}, Belongs(n, job[r].tenant) PROVE FALSE
    <3>1. job[r].tenant = t
      BY <1>1, <2>4, <2>7, BelongsToOne
    <3>2. pc[r] = "secrets"
      BY <1>1, <2>7, <3>1 DEF Trouble
    <3>3. Deleting(r, t)
      BY <1>1, <3>1, <3>2 DEF Deleting, Deletes, Placed
    <3> QED
      BY <1>1, <2>5, <3>2, <3>3 DEF DeletionsOK
  <2>8. n \notin job[r].remove
    <3>1. \A m \in job[r].remove : m = CA \/ \E u \in Tenants : m = <<u, "cert">>
      BY <1>1 DEF Jobs
    <3> QED
      BY <1>1, <1>6, <2>4, <3>1, NamesDiffer
  <2> QED
    BY <1>1, <2>3, <2>6, <2>7, <2>8, LostIsTaken
<1>3. CASE q = r
  <2>1. \/ pc[r] = "start" /\ step'[r] = 1
        \/ pc[r] = "replace" /\ step'[r] = step[r]
        \/ pc[r] = "secret" /\ Advances(r)
    BY <1>1, <1>3 DEF Effect, Leads, Starts, DataOK, Labels
  <2>2. pc[r] # "start"
    BY <1>3, <1>5, <1>6, <2>1
  <2>3. tenants' = tenants /\ read'[r] = read[r]
    BY <2>1, <2>2 DEF Effect, TenantsEffect, Leads
  <2>4. ASSUME n \in Behind(r) PROVE Exists(n)
    BY <1>1, <1>3, <2>1, <2>2, <2>3, <2>4 DEF UpdatesOK
  <2>8. PICK m : m = Plan(r)[step[r]].name
    OBVIOUS
  <2>5. step[r] \in DOMAIN Plan(r) /\ step[r] \in Nat \ {0} /\ m \notin Behind(r)
    BY <1>1, <1>3, <2>1, <2>2, <2>8, ItemAt, BehindIsWritten
  <2>6. CASE pc[r] = "replace" /\ step'[r] = step[r]
    <3>1. n \in Behind(r)
      BY <1>3, <1>5, <2>6 DEF Behind
    <3>2. secrets' = secrets \/ secrets' = Without(m)
      BY <2>6, <2>8 DEF Effect, SecretsEffect
    <3>3. n # m /\ Exists(n)
      BY <2>4, <2>5, <3>1
    <3> QED
      BY <3>2, <3>3 DEF Exists, Without
  <2>7. CASE pc[r] = "secret" /\ Advances(r)
    <3>1. secrets' = Without(m) \cup {Written(r, m)} /\ step'[r] = step[r] + 1
      BY <2>7, <2>8 DEF Advances
    <3>2. i = step[r] \/ i < step[r]
      BY <1>3, <1>5, <1>6, <2>5, <3>1
    <3>3. n = m \/ n \in Behind(r)
      BY <1>3, <1>5, <2>8, <3>2 DEF Behind
    <3>4. n # m => Exists(n)
      BY <2>4, <3>3
    <3>5. Exists(m)'
      BY <3>1, Wrote
    <3> QED
      BY <3>1, <3>4, <3>5 DEF Exists, Without
  <2> QED
    BY <2>1, <2>2, <2>6, <2>7
<1> QED
  BY <1>2, <1>3

-----------------------------------------------------------------------------
(* The certificates of authorities, which tenants share.                     *)

LEMMA AuthoritiesKeep ==
  ASSUME LossIInv, NEW r \in Requests, job' = job, Effect(r)
  PROVE  AuthoritiesKept'
<1>1. \A u : Contested(u)' <=> Contested(u)
  BY WhatIsAskedStays
<1> SUFFICES ASSUME \A q \in Requests : ~Trouble(q)',
                    NEW t \in Tenants, ~Contested(t), ~Shared(t), CA \in Needed(t)', ~Exists(CA)'
             PROVE  \E q \in Requests : Replacing(q, CA)'
  BY <1>1, WhatIsAskedStays DEF AuthoritiesKept, ThereForAll, CA
<1>2. Good(t)'
  BY <1>1 DEF Good, Troubled
<1>3. /\ SecretsIInv /\ StoredOK /\ LabelsOK /\ RefsOK /\ DataOK /\ Placed(r) /\ job[r] \in Jobs
      /\ Alone(t) /\ DeletionsOK(t)
      /\ \A q \in Requests : Farther(q)
  BY <1>2, BeforeStep
<1>4. \A q \in Requests : ~Trouble(q)
  BY <1>3 DEF Trouble, Effect, OthersUnmoved, Leads, Placed
<1>5. CA \in Needed(t)
  <2>1. CA \notin AddedNames(r)
    BY <1>3, NamesDiffer
  <2> QED
    BY <1>3, <2>1, NeededAfter
<1>6. ThereForAll(CA)
  BY <1>4, <1>5 DEF LossIInv, AuthoritiesKept
<1>7. ASSUME NEW q \in Requests, Replacing(q, CA) PROVE Replacing(q, CA)'
  BY <1>3, <1>7, ReplacingStays
<1>8. CASE Exists(CA)
  <2>1. CASE pc[r] \in {"cleanup", "secrets"} /\ Belongs(CA, job[r].tenant)
    <3>1. pc[r] = "secrets" /\ job[r].kind = "delete"
      BY <1>3, <1>4, <2>1 DEF Trouble, Placed
    <3>3. \A u \in Tenants : Belongs(CA, u) => AsksForCA(u)
      BY NamesDiffer DEF Belongs
    <3>4. job[r].tenant \in Tenants /\ Deletes(r, job[r].tenant)
      BY <1>3, <3>1 DEF Jobs, Deletes
    <3>5. CASE job[r].tenant = t
      <4>1. Deleting(r, t)
        BY <3>1, <3>4, <3>5 DEF Deleting
      <4> QED
        BY <1>3, <1>5, <3>1, <4>1, NothingNeeded
    <3>6. CASE job[r].tenant # t
      BY <2>1, <3>1, <3>3, <3>4, <3>6 DEF Shared
    <3> QED
      BY <3>5, <3>6
  <2>2. ~(pc[r] = "remove" /\ CA \in job[r].remove)
    BY <1>2, <1>5, AuthoritiesNotRemoved
  <2> QED
    BY <1>3, <1>8, <2>1, <2>2, LostIsTaken
<1> QED
  BY <1>6, <1>7, <1>8 DEF ThereForAll

-----------------------------------------------------------------------------
(* The invariant holds.                                                      *)

LEMMA LossInit ==
  Init => LossIInv
<1> SUFFICES ASSUME Init
             PROVE  LossIInv
  OBVIOUS
<1>1. SecretsIInv
  BY SecretsInit
<1>2. PICK sc \in Scenarios :
        /\ secrets = {[name |-> <<t, k>>, tenant |-> t, by |-> "first"] :
                        t \in sc.first, k \in {"secret", "cert", "env"}}
        /\ tenants = {[name |-> t, refs |-> {t} \X {"secret", "cert", "env"},
                       version |-> <<"first", 0>>] : t \in sc.first}
  BY DEF Init
<1>3. sc.first \subseteq Tenants
  BY ScenariosAssumption
<1>4. \A r \in Requests : pc[r] = "start" /\ step[r] = 1 /\ answer[r] = "none" /\ read[r] = {}
  BY DEF Init
<1>5. ASSUME NEW tn \in tenants
      PROVE  /\ tn.name \in sc.first /\ tn.refs = {tn.name} \X {"secret", "cert", "env"}
             /\ tn.version = <<"first", 0>> /\ tn \in StoredTenants
             /\ tn = [name |-> tn.name, refs |-> {tn.name} \X {"secret", "cert", "env"}, version |-> <<"first", 0>>]
  <2>1. PICK t \in sc.first : tn = [name |-> t, refs |-> {t} \X {"secret", "cert", "env"}, version |-> <<"first", 0>>]
    BY <1>2, <1>5
  <2>2. {t} \X {"secret", "cert", "env"} \subseteq SecretNames /\ <<"first", 0>> \in Writers \X Nat
    BY <1>3 DEF SecretNames, Writers
  <2> QED
    BY <1>3, <2>1, <2>2 DEF StoredTenants
<1>6. ASSUME NEW t \in sc.first, NEW k \in {"secret", "cert", "env"} PROVE Exists(<<t, k>>)
  <2>1. [name |-> <<t, k>>, tenant |-> t, by |-> "first"] \in secrets
    BY <1>2
  <2> QED
    BY <2>1 DEF Exists
<1>7. StoredOK
  <2>1. \A tn, un \in tenants : tn.name = un.name => tn = un
    BY <1>5
  <2>2. tenants \subseteq StoredTenants
    BY <1>5
  <2>3. read = [r \in Requests |-> {}]
    BY DEF Init
  <2> QED
    BY <2>1, <2>2, <2>3 DEF StoredOK
<1>8. \A r \in Requests : Farther(r) /\ ~Trouble(r) /\ ~Midway(r) /\ \A t : ~Deleting(r, t)
  BY <1>4 DEF Farther, Trouble, Midway, Deleting
<1>9. LabelsOK
  <2>1. ASSUME NEW s \in secrets PROVE Belongs(s.name, s.tenant)
    <3>1. PICK t \in sc.first, k \in {"secret", "cert", "env"} : s = [name |-> <<t, k>>, tenant |-> t, by |-> "first"]
      BY <1>2
    <3>2. s.name = <<t, k>> /\ s.tenant = t
      BY <3>1
    <3>3. <<t, k>> \in OwnNames(t)
      BY DEF OwnNames
    <3> QED
      BY <3>2, <3>3 DEF Belongs
  <2> QED
    BY <2>1 DEF LabelsOK
<1>10. RefsOK
  <2>1. ASSUME NEW tn \in tenants, NEW n \in tn.refs
        PROVE  n \in OwnNames(tn.name) /\ \A q \in Requests : n \notin AddedNames(q)
    BY <1>3, <1>5, <2>1, NamesAssumption DEF OwnNames, AddedNames
  <2> QED
    BY <2>1 DEF RefsOK, Belongs
<1>11. VersionsOK
  <2>1. ASSUME NEW tn \in tenants PROVE CreatedBy(tn)
    <3>1. tn.version[1] = "first"
      BY <1>5
    <3> QED
      BY <3>1, NamesAssumption DEF CreatedBy
  <2> QED
    BY <1>4, <2>1 DEF VersionsOK
<1>12. ASSUME NEW t \in Tenants, NEW n \in Needed(t) PROVE Exists(n)
  <2>1. PICK tn \in Live(t) : n \in tn.refs
    BY <1>8, <1>12, NeededIs
  <2>2. tn.name \in sc.first /\ n \in {tn.name} \X {"secret", "cert", "env"}
    BY <1>5, <2>1 DEF Live
  <2>3. PICK k \in {"secret", "cert", "env"} : n = <<tn.name, k>>
    BY <2>2
  <2>4. Exists(<<tn.name, k>>)
    BY <1>6, <2>2
  <2> QED
    BY <2>3, <2>4
<1>13. ASSUME NEW t \in Tenants PROVE Kept(t)
  <2>1. LockStays(t)
    BY <1>5, <1>6 DEF LockStays, Live, NameOfLock
  <2>2. Alone(t) /\ DeletionsOK(t) /\ RemovalsOK(t) /\ UpdatesOK(t)
    BY <1>4, <1>8 DEF Alone, DeletionsOK, RemovalsOK, UpdatesOK
  <2>3. NeededThere(t)
    BY <1>12 DEF NeededThere, There
  <2> QED
    BY <2>1, <2>2, <2>3 DEF Kept
<1>14. AuthoritiesKept
  BY <1>12 DEF AuthoritiesKept, ThereForAll
<1> QED
  BY <1>1, <1>7, <1>8, <1>9, <1>10, <1>11, <1>13, <1>14 DEF LossIInv

\* What leaves the variables of the tenants' requests alone.
LEMMA NothingChanges ==
  ASSUME LossIInv, SecretsIInv', UNCHANGED vars
  PROVE  LossIInv'
<1>1. UNCHANGED <<secrets, tenants, job, pc, step, read, answer>>
  BY DEF vars, cluster
<1>2. /\ \A r, t : Creates(r, t)' <=> Creates(r, t)
      /\ \A r, t : Deletes(r, t)' <=> Deletes(r, t)
      /\ \A r, t : Removes(r, t)' <=> Removes(r, t)
      /\ \A t : Deleted(t)' <=> Deleted(t)
      /\ \A t : Contested(t)' <=> Contested(t)
      /\ \A n, t : Belongs(n, t)' <=> Belongs(n, t)
      /\ \A t : Shared(t)' <=> Shared(t)
  BY <1>1, WhatIsAskedStays
<1>3. /\ \A r : Plan(r)' = Plan(r)
      /\ \A n : Exists(n)' <=> Exists(n)
      /\ \A t : Live(t)' = Live(t)
      /\ \A r : Midway(r)' <=> Midway(r)
      /\ \A r : Trouble(r)' <=> Trouble(r)
  BY <1>1 DEF Plan, Exists, Live, Midway, Trouble
<1>4. /\ \A r : Behind(r)' = Behind(r)
      /\ \A r, n : Replacing(r, n)' <=> Replacing(r, n)
      /\ \A d, t : Deleting(d, t)' <=> Deleting(d, t)
      /\ \A t : NameOfLock(t)' = NameOfLock(t)
  BY <1>1, <1>2, <1>3 DEF Behind, Replacing, Deleting, NameOfLock
<1>5. \A t, n : n \in Needed(t)' <=> n \in Needed(t)
  BY <1>2, <1>3, <1>4, NeededIs
<1>6. /\ \A n, t : There(t, n)' <=> There(t, n)
      /\ \A n : ThereForAll(n)' <=> ThereForAll(n)
      /\ \A t : Good(t)' <=> Good(t)
  BY <1>1, <1>2, <1>3, <1>4 DEF There, ThereForAll, Good, Troubled
<1>7. StoredOK' /\ (\A r \in Requests : Farther(r)') /\ LabelsOK' /\ RefsOK'
  BY <1>1, <1>2, <1>3 DEF LossIInv, StoredOK, Farther, LabelsOK, RefsOK
<1>8. VersionsOK'
  BY <1>1 DEF LossIInv, VersionsOK, CreatedBy
<1>9. ASSUME NEW t \in Tenants PROVE Kept(t)'
  <2>1. Kept(t)
    BY DEF LossIInv
  <2> SUFFICES ASSUME Good(t)
               PROVE  /\ LockStays(t)' /\ Alone(t)' /\ DeletionsOK(t)'
                      /\ NeededThere(t)' /\ RemovalsOK(t)' /\ UpdatesOK(t)'
    BY <1>6 DEF Kept
  <2>2. LockStays(t)' /\ Alone(t)' /\ DeletionsOK(t)'
    BY <1>1, <1>2, <1>3, <1>4, <2>1 DEF Kept, LockStays, Alone, DeletionsOK
  <2>3. NeededThere(t)'
    BY <1>5, <1>6, <2>1 DEF Kept, NeededThere, CA
  <2>4. RemovalsOK(t)' /\ UpdatesOK(t)'
    BY <1>1, <1>2, <1>3, <1>4, <2>1 DEF Kept, RemovalsOK, UpdatesOK, CA
  <2> QED
    BY <2>2, <2>3, <2>4
<1>10. AuthoritiesKept'
  BY <1>2, <1>3, <1>5, <1>6 DEF LossIInv, AuthoritiesKept, CA
<1> QED
  BY <1>7, <1>8, <1>9, <1>10 DEF LossIInv

LEMMA LossStepKeeps ==
  LossIInv /\ [Next]_vars => LossIInv'
<1> SUFFICES ASSUME LossIInv, [Next]_vars
             PROVE  LossIInv'
  OBVIOUS
<1>1. SecretsIInv'
  BY SecretsStepKeeps DEF LossIInv
<1>2. CASE UNCHANGED vars
  BY <1>1, <1>2, NothingChanges
<1>3. CASE Next
  <2>1. job' = job /\ \E r \in Requests : Step(r)
    BY <1>3 DEF Next
  <2>2. PICK r \in Requests : Step(r)
    BY <2>1
  <2>3. SecretsIInv /\ StoredOK /\ (\A q \in Requests : Farther(q)) /\ LabelsOK /\ RefsOK /\ VersionsOK
    BY DEF LossIInv
  <2>4. Effect(r)
    BY <2>1, <2>2, <2>3, StepDoes
  <2>5. StoredOK' /\ (\A q \in Requests : Farther(q)') /\ LabelsOK' /\ RefsOK' /\ VersionsOK'
    BY <2>1, <2>3, <2>4, StoredKeeps, FartherKeeps, LabelsKeep, RefsKeep, VersionsKeep
  <2>6. \A t \in Tenants : Kept(t)'
    BY <2>1, <2>4, LockStaysKeeps, AloneKeeps, DeletionsKeep, NeededKeeps, RemovalsKeep, UpdatesKeep DEF Kept
  <2>7. AuthoritiesKept'
    BY <2>1, <2>4, AuthoritiesKeep
  <2> QED
    BY <1>1, <2>5, <2>6, <2>7 DEF LossIInv
<1> QED
  BY <1>2, <1>3

LEMMA LossInductive ==
  Spec => []LossIInv
BY LossInit, LossStepKeeps, PTL DEF Spec

\* Where no request about a tenant failed, and nothing contests it, it has its secrets.
LEMMA KeptIsThere ==
  LossIInv => LossIsReported
<1> SUFFICES ASSUME LossIInv, NEW tn \in tenants, NEW n \in tn.refs,
                    ~Exists(n), ~Contested(tn.name), ~(n = CA /\ Shared(tn.name))
             PROVE  \E r \in Requests :
                      /\ job[r].tenant = tn.name \/ n = CA
                      /\ Trouble(r) \/ Replacing(r, n)
  BY DEF LossIsReported
<1>1. tn.name \in Tenants /\ Kept(tn.name) /\ AuthoritiesKept /\ DataOK /\ \A r \in Requests : Placed(r)
  BY DEF LossIInv, StoredOK, StoredTenants, SecretsIInv
<1>2. n \in Needed(tn.name)
  <2>1. tn \in Live(tn.name)
    BY DEF Live
  <2> QED
    BY <2>1, NeededIs
<1>3. CASE n = CA
  <2>1. ASSUME \A r \in Requests : ~Trouble(r) PROVE \E q \in Requests : Replacing(q, n)
    BY <1>1, <1>2, <1>3, <2>1 DEF AuthoritiesKept, ThereForAll
  <2> QED
    BY <1>3, <2>1
<1>4. CASE n # CA
  <2>1. CASE Troubled(tn.name)
    BY <2>1 DEF Troubled
  <2>2. CASE ~Troubled(tn.name)
    <3>1. NeededThere(tn.name)
      BY <1>1, <2>2 DEF Kept, Good
    <3>2. There(tn.name, n)
      BY <1>2, <1>4, <3>1 DEF NeededThere
    <3> QED
      BY <3>2 DEF There
  <2> QED
    BY <2>1, <2>2
<1> QED
  BY <1>3, <1>4

\* A tenant that lacks a secret it refers to has a request to show for it that failed or
\* is replacing the secret, unless what takes secrets by name or label is contested.
THEOREM LossReported ==
  Spec => []LossIsReported
BY LossInductive, KeptIsThere, PTL

LEMMA ClaimsStay ==
  ASSUME LossIInv, claims \subseteq Tenants \X {"minio", "log", "prometheus"}, integration \in BOOLEAN, [Next]_vars
  PROVE  (claims \subseteq Tenants \X {"minio", "log", "prometheus"})' /\ (integration \in BOOLEAN)'
<1>1. CASE UNCHANGED vars
  BY <1>1 DEF vars, cluster
<1>2. ASSUME NEW r \in Requests, Step(r), UNCHANGED integration
      PROVE  (claims \subseteq Tenants \X {"minio", "log", "prometheus"})' /\ (integration \in BOOLEAN)'
  <2>1. job[r].tenant \in Tenants
    BY DEF LossIInv, SecretsIInv, DataOK, Jobs
  <2>2. \/ claims' \subseteq claims
        \/ claims' = claims \cup ({job[r].tenant} \X {"minio", "log", "prometheus"})
    BY <1>2 DEF Step, BeginCreation, GetTenant, NoCertificates, DeleteOldSecret, InvalidInput,
       CreateSecret, CreateTenant, Integrate, Cleanup, DeleteTenant, DeleteClaims, DeleteSecrets,
       UpdateTenant, RemoveSecrets, RestartPods, cluster
  <2> QED
    BY <1>2, <2>1, <2>2
<1> QED
  BY <1>1, <1>2 DEF Next

\* The secrets, the tenants and what the requests read of them are what they are
\* declared to be: one of each name, and one tenant read by each request.
THEOREM TenantsTypeCorrect ==
  Spec => []TypeOK
<1> DEFINE ClaimsOK == claims \subseteq Tenants \X {"minio", "log", "prometheus"} /\ integration \in BOOLEAN
<1>1. Init => ClaimsOK
  BY ScenariosAssumption DEF Init
<1>2. LossIInv /\ ClaimsOK /\ [Next]_vars => ClaimsOK'
  BY ClaimsStay
<1>3. LossIInv /\ ClaimsOK => TypeOK
  BY DEF LossIInv, SecretsIInv, StoredOK, DataOK, Placed, Labels, TypeOK
<1> HIDE DEF ClaimsOK
<1> QED
  BY <1>1, <1>2, <1>3, LossInductive, PTL DEF Spec
=============================================================================
