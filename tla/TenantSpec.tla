------------------------------- MODULE TenantSpec -------------------------------
(***************************************************************************)
(* Changes of the specification of a tenant: its image and the credentials *)
(* to pull it (updateTenantAction), a pool added, all pools replaced, the  *)
(* YAML that a user opened and edited. Each reads the tenant, and some     *)
(* have read it long before; Kubernetes refuses a write for a version of   *)
(* the tenant that is not the one it has.                                  *)
(***************************************************************************)
EXTENDS Naturals

CONSTANTS
  Edits,    \* requests to change the tenant
  Changes,  \* what they may ask for
  FirstPools

Unset == "unset"

Change == [kind : {"update", "addPool", "setPools", "yaml"}, image : BOOLEAN,
           registry : BOOLEAN, prometheus : BOOLEAN]

ASSUME ChangesAssumption ==
  /\ Changes \subseteq Change
  /\ \A c \in Changes : c.image \/ c.registry \/ c.prometheus => c.kind = "update"
  /\ Edits \cap FirstPools = {} /\ Unset \notin Edits \cup FirstPools

\* A pool is known by the request that asks for it.
PoolsOf == Edits \cup FirstPools

VARIABLES
  tenant,    \* the tenant Kubernetes has
  registry,  \* the request that wrote the credentials of the registry
  change,    \* change[r]: what request r asks for
  editPc,
  view,      \* view[r]: the tenant whose YAML the user of r opened
  seen,      \* seen[r]: the tenant r read
  editAnswer

specVars == <<tenant, registry, change, editPc, view, seen, editAnswer>>

\* "scraped" when it has the annotations for Prometheus, "annotated" the pools
\* that have them, "annotations" when it has any at all; "by" wrote it last.
TenantRecords ==
  [version : Nat, image : Edits \cup {Unset}, pools : SUBSET PoolsOf, annotated : SUBSET PoolsOf,
   annotations : BOOLEAN, scraped : BOOLEAN, by : Edits \cup {Unset}]

SpecTypeOK ==
  /\ tenant \in TenantRecords
  /\ registry \in Edits \cup {Unset}
  /\ change \in [Edits -> Changes]
  /\ editPc \in [Edits -> {"start", "get", "registry", "write", "done"}]
  /\ view \in [Edits -> TenantRecords]
  /\ seen \in [Edits -> TenantRecords]
  /\ editAnswer \in [Edits -> {"none", "ok", "error"}]

SpecInit ==
  /\ \E on \in BOOLEAN, scraped \in BOOLEAN :
       /\ scraped => on
       /\ tenant = [version |-> 0, image |-> Unset, pools |-> FirstPools,
                    annotated |-> IF scraped THEN FirstPools ELSE {},
                    annotations |-> on, scraped |-> scraped, by |-> Unset]
  /\ registry = Unset
  /\ change \in [Edits -> Changes]
  /\ editPc = [r \in Edits |-> IF change[r].kind = "yaml" THEN "start" ELSE "get"]
  /\ view = [r \in Edits |-> tenant]
  /\ seen = [r \in Edits |-> tenant]
  /\ editAnswer = [r \in Edits |-> "none"]

EditGoto(r, l) == editPc' = [editPc EXCEPT ![r] = l] /\ UNCHANGED editAnswer
EditEnds(r, a) == editPc' = [editPc EXCEPT ![r] = "done"] /\ editAnswer' = [editAnswer EXCEPT ![r] = a]

\* getTenantYAML: the user opens the YAML, to send it back edited.
OpenYAML(r) ==
  /\ editPc[r] = "start"
  /\ view' = [view EXCEPT ![r] = tenant]
  /\ EditGoto(r, "get")
  /\ UNCHANGED <<tenant, registry, seen>>

ReadTenant(r) ==
  /\ editPc[r] = "get"
  /\ \/ /\ seen' = [seen EXCEPT ![r] = tenant]
        /\ EditGoto(r, IF change[r].registry THEN "registry" ELSE "write")
     \/ EditEnds(r, "error") /\ UNCHANGED seen
  /\ UNCHANGED <<tenant, registry, view>>

\* setImageRegistry: the credentials are created, or written over.
SetImageRegistry(r) ==
  /\ editPc[r] = "registry"
  /\ \/ registry' = r /\ EditGoto(r, "write")
     \/ registry' \in {r, registry} /\ EditEnds(r, "error")
  /\ UNCHANGED <<tenant, view, seen>>

-----------------------------------------------------------------------------
\* The image that is asked for or, if none is and it can be found out, the
\* latest. A tenant without any annotation goes the way of the ones that are to
\* have none for Prometheus: the map it is given is empty, and left out of the patch.
Updated(r, image) ==
  LET on == change[r].prometheus /\ seen[r].annotations IN
  [seen[r] EXCEPT !.image = image, !.scraped = on,
                  !.annotated = IF on THEN seen[r].pools ELSE {}]

\* What request r wants to be written, of the tenant it read or opened.
Wanted(r) ==
  CASE change[r].kind = "update" ->
         {Updated(r, i) : i \in IF change[r].image THEN {r} ELSE {r, seen[r].image}}
    [] change[r].kind = "addPool" -> {[seen[r] EXCEPT !.pools = @ \cup {r}]}
    [] change[r].kind = "setPools" -> {[seen[r] EXCEPT !.pools = {r}, !.annotated = {}]}
    [] change[r].kind = "yaml" -> {[view[r] EXCEPT !.image = r]}

\* Mutated form of SameVersion: the patch does not name a version.
AnyVersion(r) == TRUE

\* The patch and the update carry the version that was read.
SameVersion(r) == tenant.version = seen[r].version

\* A merge patch replaces what it has, and leaves what it does not: an annotation
\* that is not in it stays.
Merged(r, t) ==
  [t EXCEPT !.version = tenant.version + 1, !.by = r,
            !.scraped = @ \/ (change[r].kind # "yaml" /\ tenant.scraped)]

WriteTenant(r) ==
  /\ editPc[r] = "write"
  /\ \/ /\ SameVersion(r)
        /\ \E t \in Wanted(r) : tenant' = Merged(r, t)
        /\ EditEnds(r, "ok") \/ EditEnds(r, "error")
     \/ EditEnds(r, "error") /\ UNCHANGED tenant
  /\ UNCHANGED <<registry, view, seen>>

SpecNext ==
  /\ UNCHANGED change
  /\ \E r \in Edits : OpenYAML(r) \/ ReadTenant(r) \/ SetImageRegistry(r) \/ WriteTenant(r)

SpecSpec == SpecInit /\ [][SpecNext]_specVars

-----------------------------------------------------------------------------
\* A pool of a tenant disappears, and its data with it, only when the pools are
\* replaced, or by a YAML that was opened before the pool was there: an update or
\* a pool that is added never takes away what another request wrote since it read.
PoolsGoOnRequest ==
  [][\A p \in tenant.pools \ tenant'.pools : \E r \in Edits :
       /\ editPc[r] = "write" /\ editPc'[r] = "done"
       /\ \/ change[r].kind = "setPools"
          \/ change[r].kind = "yaml" /\ p \notin view[r].pools]_specVars

\* The credentials are written before the tenant, and whatever its version. Still,
\* when every request succeeds, every update brings an image with its credentials
\* and none of them is a YAML, the image and the credentials to pull it are of the
\* same one.
ImageAndRegistryAgree ==
  \/ \E r \in Edits : editAnswer[r] # "ok" \/ change[r].kind = "yaml"
  \/ \E r \in Edits : change[r].kind = "update" /\ ~(change[r].registry /\ change[r].image)
  \/ tenant.image = registry

\* What updateTenantAction says it does when Prometheus is not enabled, "remove
\* prometheus annotations to the tenant".
AnnotationsAreRemoved ==
  \A r \in Edits :
    editAnswer[r] = "ok" /\ tenant.by = r /\ change[r].kind = "update" /\ ~change[r].prometheus
      => ~tenant.scraped
=============================================================================
