# MinIO Console: specifications and proofs

This directory holds TLA+ specifications of the parts of MinIO Console that
decide something by themselves, the TLC configurations that model-check them, and
theorems about most of them that TLAPS proves. Every definition is translated
from the Go source; `PROJECT.json` maps each one to the lines it stands for.

MinIO Console is a web server in front of MinIO (`restapi/`) and, as the operator
console, in front of Kubernetes (`operatorapi/`). Most handlers convert a request,
make one call and convert the answer: there is little to go wrong in them that a
model would show. The specifications are about the others, where

- one request is several calls, any of which may fail, or take effect and lose its
  reply;
- several requests are at work on the same thing at once;
- a request starts goroutines that share channels, contexts and a connection;
- a decision is computed from what was fetched (a colour, a filter, a list of users).

## Contents

1. [The system](#1-the-system)
2. [Modules](#2-modules)
3. [How state and actions correspond to the code](#3-how-state-and-actions-correspond-to-the-code)
4. [Runs, bounds, and what they show](#4-runs-bounds-and-what-they-show)
5. [Fairness, deadlock, symmetry](#5-fairness-deadlock-symmetry)
6. [Proofs](#6-proofs)
7. [Where code and text disagree](#7-where-code-and-text-disagree)
8. [What is not modelled](#8-what-is-not-modelled)
9. [Plan](#9-plan)

## 1. The system

Line numbers are those of this repository; paths are relative to `src/`.

### WebSocket sessions: `restapi/ws_handle.go`, `user_watch.go`, `admin_trace.go`, `admin_console.go`, `admin_health_info.go`

*State.* A connection, the goroutine that serves it, a reader goroutine
(`wsReadClientCtx`) whose only purpose is to notice that the browser left, the
context it then cancels, and a producer goroutine of the MinIO client that hands
over records on a channel.

*Operations.* `serveWS` upgrades the request and dispatches by the prefix of its
path to `trace`, `console`, `health-info`, `heal` or `watch`. The handler
subscribes, and then selects between the channel and the context, writes each
record as a text frame, and at its end sends a close frame with a code made of
what it met (`sendWsCloseMessage`) and closes the connection.

*Hard.* Four actors: the handler, the reader (which answers a browser's close
frame with one of its own), the producer and the browser, who may leave between
any two steps. `select` picks at random when both cases are ready. Writes have no
deadline. The only way to stop the reader is to close the connection, and the only
way to stop the producer is the context that the reader cancels.

*Correct when* records arrive in order and once; the close frame names what the
session met; nothing follows it; nobody is left behind when one of them ends.

### Heal session: `restapi/admin_heal.go`

*State.* Counters, columns of colours and a list of items that grow from poll to
poll. *Operations.* Start a heal, poll it each second, add the items of the answer
to the status, send the status, and judge whether the heal is over. The colour of
an item comes from a table, by the surplus of drives that have it and by its parity.

*Hard.* An item without a colour ends the processing of an answer half-way; the
result of the write is not looked at; the browser leaves during a poll.

*Correct when* each status agrees with itself and with the one before, the last
one is complete when the session ends normally, a heal that failed is not reported
as one that finished, and an item lost on every set is not shown as healthy.

### Trace filter: `restapi/admin_trace.go:51`

A pure decision: whether a traced call is shown, by path, status code, method and
function name. *Correct when* what passes every filter is shown.

### Users and groups: `restapi/admin_users.go`, `admin_groups.go`

*State.* None of its own: MinIO has it. *Operations.* Add, change and remove a
user or group, set the groups of one user, add users to groups, set policies for
several of them. A request reads what there is and writes the difference, with a goroutine per group that reports
on a channel.

*Hard.* The description that a request compares with is out of date when it
writes; one of several goroutines fails; a removal of nobody from a group is, for
MinIO, the removal of the group.

*Correct when* success means that all that was asked for is there; requests that
agree on something leave it so; no group gets lost.

### Bucket access listing: `restapi/admin_users.go:556`

Goes over all users, all policies, all groups, and keeps who is allowed and who is
denied. *Hard.* The order is that of Go's maps, and anything that cannot be fetched
is skipped. *Correct when* the answer follows from what was fetched, in any order.

### Bucket creation: `restapi/user_buckets.go:352`

*Operations.* Create the bucket, then versioning, quota and retention, each by a
call of its own, with a deferred function that removes the bucket after an error.
*Hard.* The removal is by name; other requests create and delete the bucket of
that name meanwhile; a reply gets lost. *Correct when* "created" means created
with all its settings, and nobody removes somebody else's bucket.

### Multi-bucket replication: `restapi/admin_remote_buckets.go`

*Operations.* For each pair of buckets a goroutine registers the remote bucket,
reads the replication configuration of the local one, adds a rule and writes the
whole configuration back; the request collects a result from each goroutine over
a channel. Another request deletes a rule in the same way. *Hard.* Reads and writes
of whole configurations interleave; a read that fails is tolerated. *Correct when*
configurations stay well formed, no rule there was is lost without cause, a relation
that is reported as done has its rule, and each relation has its own result.

### Object deletion: `restapi/user_objects.go:327`

*Operations.* For each path: one object, or a folder, which is listed by one
goroutine and removed by another, with the handler between them on three channels.
*Hard.* The handler sends and receives at once; permission errors come from two
channels; removals happen in batches after the listing; the first error ends the
request. *Correct when* success means deleted, nothing is deleted that was not
asked for, and the request is answered.

### Operator tenants: `operatorapi/operator_tenants.go`, `operator_tenants_helper.go`

*State.* None of its own: Kubernetes has secrets (with a label that names a
tenant), tenants (which refer to secrets by name) and volume claims.
*Operations.* A tenant is created secret by secret, then the tenant itself, then
(on GKE) integrated; a deferred function deletes the secrets after an error. A
deletion deletes the tenant and, when asked for, its claims and secrets. Its
certificates are replaced in place or with an update of the tenant.
*Hard.* Secrets are replaced by a deletion and a creation; the cleanup selects by
label; the first secret is the only lock. *Correct when* two creations of one name
do not mix, the cleanup takes only what its request wrote, and a tenant without a
secret it mounts has a failed request to show for it.

### Operator GKE integration: `operatorapi/integrations.go`

*State.* A channel that is closed by whoever comes first, the handler of pod
events or a timer, and a flag that says so, without synchronisation. *Operations.*
Wait, create a certificate and two services, add the hosts to one ingress that all
tenants share. *Correct when* the wait ends, and the tenants that were integrated
stay in the ingress.

### Operator tenants, encryption: `operatorapi/operator_tenants_helper.go:94`

*State.* Four secrets of a tenant: the certificates of KES and of MinIO's client,
the configuration of KES and its certificates for the KMS; and the pods that mount
them. *Operations.* `tenantUpdateEncryption` deletes and creates each secret that the
request comes with and deletes the pods, which start again with what is there then.
*Hard.* Nothing locks the four secrets: two updates interleave between deletion and
creation; a deletion that fails is only logged; pods restart by themselves in between.
*Correct when* the configuration has the certificates it was written for, and the pods
run with what an update that succeeded has written.

### Operator tenants, specification: `operatorapi/operator_tenants.go:1461`

*State.* The tenant in Kubernetes, with a resource version. *Operations.* The image
and the credentials to pull it, a pool added, the pools replaced, the YAML edited. Each
is a read, a change of the copy and a write of the whole, as a merge patch or an
update. *Hard.* The YAML was read long before; a merge patch removes nothing it does
not name; the credentials are a secret written before the tenant. *Correct when* no
pool is lost to a stale write, and the image and its credentials belong together.

### Operator subscription: `operatorapi/operator_subscription.go`, `cmd/console/operator.go`

*State.* The licence in a secret of the cluster, and a copy in the configuration
secret of each tenant, or in the tenant itself. *Operations.* Refresh, validate and
activate by request, a refresh loop in the background that gives up after three
failures in a row. *Hard.* Loop and requests save at once; the tenants are
updated one by one with what was read before; the console restarts in between.
*Correct when* tenants only get what was saved, a refresh that succeeded reached all
of them, nobody's edits of a tenant or its configuration are undone, and the loop goes on.

### Dashboard widgets: `restapi/admin_info.go:948`

*Operations.* One goroutine per label, waited for until nothing came for a second, one
per target, waited for until as many results came as there are targets, then the
channel is closed. *Hard.* A goroutine that fails sends nothing; late ones meet a
receiver that has gone on. *Correct when* the answer has each target once, and comes.

### Memory of a cluster, erasure parity: `operatorapi/operator_nodes.go`, `pkg/utils/parity.go`

Pure decisions: how much memory each server of a tenant may ask for, from the nodes,
their taints and their memory; which parities a pool of so many servers and drives may
have. *Correct when* what is offered can be had and nothing better is withheld.

### The rest

Sessions and tokens, service accounts, configuration, listings, the proxy, clients,
set-up, generated code and the web interface are listed in `PROJECT.json` with what
they are; section 8 says why they are not modelled.

### Who talks to whom

```
browser --ws--> serveWS --> trace | console | watch | health-info | heal
                  |              ^ records over channels      ^ polls
                  +- reader -----+- context ------------------+
browser --http--> getMakeBucketResponse, setMultiBucketReplication,
                  getDeleteMultiplePathsResponse, addUser, groupUpdate, ...
                      --> MinIO (buckets, replication rules, users, groups)
browser --http--> getTenantCreatedResponse --> secrets, tenant --> gkeIntegration
                  getDeleteTenantResponse, updateTenantSecurity,
                  tenantUpdateEncryption, updateTenantAction, ...
                      --> Kubernetes (secrets, tenants, claims, pods, ingress)
refresh loop, refresh, validate, activate --> SUBNET, secret, tenants' copies
browser --http--> getWidgetDetails --> goroutines --> Prometheus
```

The handlers share no memory with each other (with the exception of the cached
backend type, section 8): what they share is what MinIO and Kubernetes have, so
that is where the specifications have their interleavings.

## 2. Modules

| Module | What it is | Composition |
| --- | --- | --- |
| `WsConn` | connection, dispatch, reader, close protocol of any session | |
| `WsStream` | bodies of trace, console, watch and health-info, and their producer | extends `WsConn` |
| `StreamContract` | what a session promises the browser (abstract) | refined by `WsStream` (`Contract`, identity mapping) |
| `HealColor` | colour of an item as operators, and an item that is healed drive by drive | |
| `WsHeal` | body of a heal session | extends `WsConn`, instantiates `HealColor` for the colours |
| `TraceFilter` | `matchTrace` and a user who adds filters | |
| `BucketAccess` | users listed for a bucket | |
| `UserGroups` | requests on users and groups and their policies | |
| `MakeBucket` | creation and deletion of a bucket | |
| `Replication` | replication of several buckets, deletion of a rule | |
| `DeleteObjects` | deletion of several paths | |
| `TenantSecrets` | creation, deletion and certificates of tenants | |
| `KesSecrets` | updates of a tenant's encryption, and the pods | |
| `TenantSpec` | changes of a tenant's specification | |
| `GkeIntegration` | integration of tenants | its failure is `Integrate` of `TenantSecrets` |
| `License` | the licence, its copies, the refresh loop | |
| `WidgetDetails` | one widget of the dashboard | |
| `ClusterMemory` | the memory a cluster has for a tenant | |
| `ErasureSets` | the parities of a pool | |
| `MCRequests` | `MakeBucket` or `UserGroups`, for TLC | a variable `about` says which |
| `MCBatches` | `Replication` or `DeleteObjects` | `about` |
| `MCDecisions` | `HealColor`, `TraceFilter`, `BucketAccess`, `ClusterMemory` or `ErasureSets` | `about` |
| `MCTenants` | `TenantSecrets`, `KesSecrets` or `TenantSpec` | `about` |
| `MCServices` | `GkeIntegration`, `License` or `WidgetDetails` | `about` |
| `MCWsStream`, `MCWsHeal` | constants for the two kinds of sessions | |
| `MCMakeBucket`, `MCReplication`, `MCDeleteObjects`, `MCWidgetHang`, `MCTenantAnnotations` | the five runs that are violated | |
| `WsStreamProofs` | theorems about `WsStream`, refinement included | extends it |
| `WsHealProofs` | theorems about `WsHeal` | extends it |
| `RequestsProofs` | theorems about `MakeBucket`, `UserGroups` and the two in `MCRequests` | extends `MCRequests` |
| `ReplicationProofs` | theorems about `Replication` | extends it |
| `DeleteProofs` | theorems about `DeleteObjects` | extends it |
| `TenantsProofs` | theorems about `TenantSecrets`, `TenantSpec` and `KesSecrets` | extends all three |
| `ServicesProofs` | theorems about `License`, `WidgetDetails`, `GkeIntegration` | extends the three |
| `DecisionsProofs` | theorems about `TraceFilter`, `BucketAccess`, `HealColor`, `ClusterMemory`, `ErasureSets` | extends the five |

A module that joins several (`MCRequests` and the like) lets TLC check components that
share nothing in one run: the behaviours about one leave the variables of the others
at one state, so that the state spaces add and do not multiply. What does interact
is one module: handler, reader, producer and browser; goroutines and requests on
one bucket; loop, requests, edits and restarts.

They were written in the order of how much state is shared: sessions first (four
actors, one connection), then the requests that write what others write (buckets,
replication, objects, users, tenants), then the decisions, then the operator's
encryption, specification and licence, the widgets and the sizing.

Conventions. A constant is a parameter of the system or a bound of the model, and
its comment says which. History variables are marked as such where they are
declared; no guard reads one. A definition called "Mutated form of X" is a
plausible mistake in X that no other definition uses: `PROJECT.json` pairs it with
the property that X would then violate, which shows that the property depends on
that piece of the code.

## 3. How state and actions correspond to the code

**`WsConn`.** `hpc` is where the session's goroutine is: `ServeWS` is `serveWS`
(refuse, close at once when the options of the request or the client are not to be
had, or start the handler), `StartReader` the call of `wsReadClientCtx`,
`SendCloseMessage` and `CloseConn` the end of every handler. The connection is
what `gorilla/websocket` makes of it: after a close frame every write fails; a
write blocks while the transport is full (`unread = WireCap`) and fails once the
connection is closed or its peer gone. `ReadFails` is the reader's only effect; when it
meets the browser's close frame, the library answers with a close frame (`"echo"`).
`PeerLeaves` is enabled at any time: a browser that sends a close frame, or one
whose connection breaks.

**`WsStream`.** The body is a small program (`step`): subscribe, select, write the
pending records, return. `SelectDone` and `SelectItem` are both enabled when both
cases of the `select` are ready. `met` remembers what went wrong, for
`ClosesTruthfully`; `taken` what was received, for `ForwardedInOrder`. Records are
numbers; what a record says is left out. One batch of watch is written by a loop
that goes through `pending`.

**`HealColor`, `WsHeal`.** `getHColCode` and the two functions that call it are
translated with the table; an item has a number of drives online for each of its sets,
and `Online` counts them all, as `GetOnlineCounts` does. An answer of MinIO is a sequence of items
(`HealedItems`) and a summary. `UpdateStats` is one round of the loop of `writeStatus`:
`pending` are the items it has yet to come to. `updateStats` counts before it looks for the
colours; the first item without one ends the loop, and the frame is skipped.

**`MakeBucket`.** Every creation is an *incarnation* of the name, so that a removal
by name can be seen to hit another request's bucket. Each step of a maker is a call
with three outcomes: done, refused, done but the reply is lost. `InnerError` is the
error of an inner `err` (the deferred function does not see it), and
`Cleanup` the deferred removal.

**`Replication`.** One process per relation and one per request that deletes a rule.
`ReadConfig` copies the configuration, or, after a failure, takes an empty one;
`AddRule` and `DeleteRule` write the copy back as a whole. `Collect` receives from
the channels in the order of the request.

**`DeleteObjects`.** The handler, the lister of a folder and the remover (the MinIO
client: external) with `contentCh`, `errorCh` (an offer, since it is unbuffered) and
the listing. `version` is a variable of the handler that outlives a file, as in the
code.

**`UserGroups`.** Each call of MinIO's admin API is a value `[ok, iam]`: whether
MinIO takes it, and what it has then. `GroupTask` is one goroutine of
`updateUserGroups` or `addUsersListToGroups`; `Join` is the loop that receives from
all of them. `alone` remembers whether another request changed anything meanwhile.
`setPolicyMultipleEntities` is the job `setPolicy`: entity by entity, until one fails.

**`BucketAccess`.** `pairs` and `groups` are what the two loops have left; elements
are taken in any order. `Consult` is the fetch of a policy, with `Skip` for one that
fails.

**`TenantSecrets`.** A secret has a name, a label and (history) its writer; a tenant
has the names it refers to and a resource version: the request that created it and the
number of changes since, so that no two tenants of one name, one after the other, share
one. `Plan` is the list of secrets of
a request with how each is written: created (fails when it is there), replaced
(deleted, then created) or written over. `Fail` goes to the deferred `Cleanup` only
once the first secret is written. `DeleteCollection` is all of it on success and any
part of it on failure (`Swept`). `setImageRegistry` reads the secret and then creates
or updates it: it is one step here (`"upsert"`).

**`GkeIntegration`.** The flag `informerClosed` is read, then set, then the channel
is closed, in three steps of two goroutines: that is how the data race on it
shows. Closing a closed channel ends the process (`alive`).

**`KesSecrets`.** `UpdatePlan(r)` is the sequence of calls of a request: for each secret
it comes with, a deletion and a creation, and the deletion of pods where the code
deletes them; `kesStep[r]` is the call it is at. Who wrote a secret stands for what is in
it. A creation fails when the secret exists. `InvalidFiles` is where decoding stops a
request: after the old secret was deleted, as in the code. Pods (`PodsStart`) start when all
they mount is there, and may stop at any time.

**`TenantSpec`.** A request reads the tenant (`seen`), the YAML was opened earlier still
(`view`); `Wanted` is what it makes of its copy and `Merged` what Kubernetes makes of a
merge patch or an update. A write names the version read; for the YAML the code reads the
tenant anew just before and takes that version, so `SameVersion` protects it from
nothing that came since the YAML was opened.

**`License`.** `work[p]` is where the loop or a request is; licences are numbers in the order
SUBNET issues them. `Read` remembers the version that was read by putting the reader in
`readers`, which any write empties: that is what a resource version does.
`EditTenant` is anybody else's edit of what holds the tenant's copy: of the tenant or the
entries of `config.env`, or of the rest of a configuration secret, which `Regenerated` drops.
After
`RestartConsole` the answers of the requests at work are lost, and the loop begins anew.

**`WidgetDetails`.** `labelTask` and `targetTask` are the goroutines: fetching, blocked in
their send, over. `LabelsTimeOut` is the second without a label, and may come
at any time. A channel that is closed while somebody sends, a response that is nil and a
step that is nil end the process (`panicked`).

**`ClusterMemory`, `ErasureSets`.** `NodeListed` walks through every cluster: the
memory of the nodes that can be used, in the order they are sorted into, and how many
others there are of each kind. `VisitSize` is one round of the loop of
`getMaxClusterMemory`, `VisitCount` one of the loop of `commonSetDriveCount`; a step per
round is what lets an invariant say how far a loop has come.

Inputs that are only converted are left out: names and paths are members of small
sets, the options of a heal are the one that matters (`forceStop`), certificates are
valid or not (`InvalidInput`).

## 4. Runs, bounds, and what they show

Each run checks its invariants and properties together, under the fairness of
section 5 when one of them is a liveness property. The joint runs are what section 2
calls modules that join several.

| Run | Checks | Distinct states |
| --- | --- | --- |
| `ws_stream` | `MCWsStream` | 18 thousand |
| `ws_heal` | `MCWsHeal` | 71 thousand |
| `requests` | `MCRequests` | 1.7 million |
| `decisions` | `MCDecisions` | 0.7 million |
| `batches` | `MCBatches` | 0.9 million |
| `tenant` | `MCTenants` | 1.5 million |
| `services` | `MCServices` | 0.7 million |
| `make_bucket_cleanup`, `replication_add`, `delete_objects_all`, `widget_hang`, `tenant_annotations` | violated: section 7, numbers 1 to 5 | |

**`ws_stream`** One session of every kind but heal, `MaxItems = 3` records,
batches of up to 2, room for 2 frames.
Three records and batches of two are enough for a batch that is written in part, a
second one that waits, and a last one; a buffer of two lets a write block and a
close frame meet a full buffer.
- `ForwardedInOrder`: what was received is what was written and what is pending.
- `ClosesTruthfully`: the code of the close frame says what the body met.
- `ContractSpec`: every step is a step of `StreamContract` or leaves it alone.
- `NobodyLeftBehind`: a browser that leaves ends the handler; a handler that ends
  ends its reader and so the context; the context ends the producer of trace and
  console. The producer of watch is not among them: `startWatch` closes `DoneChan`
  only when the context ends, so after an error the producer may wait for good.
- `CloseFrameSent`: a close frame is sent unless the browser left first.

**`ws_heal`** Two polls of up to two items each, of three kinds (an object that is
healed, a bucket that needs no healing, an object without a colour), room for one frame.
- `FramesConsistent`: each status counts what it lists, and only grows.
- `FinishedIsReported`: after a normal end the last status lists everything, although
  nobody looks at the result of a write.
- `HealClosesTruthfully`: stopped or failed never looks finished, nor the reverse.
- `HealEnds`: after the browser left.

**`requests`** Buckets: two makers, a deleter, a client that puts objects in the bucket,
two incarnations; every combination of options. Two makers and two incarnations are
what it takes for one request to act on the bucket of the other. Users and groups: two
requests out of all kinds (26 jobs), two users, two groups, one policy, every state of
MinIO they can meet.
- `SuccessIsComplete`: created means with versioning, locking and retention as
  asked, unless the bucket is another incarnation by then; a quota may be missing
  (its error is only logged).
- `RemovesItsOwn`: as long as no deletion request has removed the bucket, a maker removes only
  the incarnation it created.
- `SuccessIsApplied`: a request that succeeded undisturbed left all it asked for.
- `AgreedMembership`: requests that agree on a user and a group leave it so, in
  whatever order their goroutines ran.
- `GroupsStay`: only a request to remove a group removes it.
- `TypeOK` also ties the control of a request to its answer, which is what a forgotten
  `return` breaks.

**`batches`** Replication: two relations and one deleting request over two buckets, with
every distribution of buckets and every well-formed old configuration of one rule.
Deletion: requests for two paths, an object or a folder of three, each with a version or
without; every choice of what the user may not delete or list; room for one object in
`contentCh`, so that the remover waits, the handler waits, and an error comes while an
object is to be sent.
- `OwnRuleStored`: a relation reported as done has its target, and its rule when
  nobody else works on its bucket. Once one of the relations that share a bucket was
  reported as done, the rule of one of them is stored; perhaps of one that was answered
  with an error, because it wrote over the other and its reply was lost.
- `OldRulesKept`: a rule there was goes only on request or after a read that failed.
- `StoredWellFormed`: no two rules with one priority or ID.
- `SuccessDeletes`: after a success what was asked for is gone, and neither lister
  nor remover is left.
- `RemovesOnlyAsked`: whatever goes was asked for by a file the handler has reached.
- `BatchesAnswered`: in the end there is one answer per relation, in order, its own; a
  deletion is answered.

**`decisions`** Erasure sets of up to 16 drives (MinIO's limit), up to 2 of them for
what is replicated on all, with any drives of each healed one by one;
two words, methods and codes; two users, groups and policies of up to two statements;
clusters of up to 6 nodes with three sizes of memory; pools of up to 33 servers of 12
drives. Six nodes suffice for a question about four or five with one or two to spare, and
33 servers are one more than twice the largest set, so that the servers may be a multiple
of the set, a divisor, or neither.
- `ColorTruthful`: a colour exists exactly for one to eight drives of tolerance; an item
  that too few drives of every set have is grey, and a grey one has too few in some set;
  whole items are green; healing never gives a worse colour. With one set, grey says just
  that too few drives have the item. With several the code takes their mean, so that it
  does not say whether one of them has too few (section 7, number 26).
- `NothingMissing`: what passes each filter is shown.
- `ListedByWhatWasFetched`: listed is exactly who is allowed and not denied by what was
  fetched, in any order and whatever could not be; but nobody when the groups cannot be
  listed (section 7, number 27).
- `MemoryIsWhatFits`: so many nodes have the memory that is offered, and not more; a
  question is refused only when there are not so many nodes, or one has two taints.
- `ParitiesAreSound`: the parities offered are those of the largest erasure set that
  divides the drives and takes as many from each server, and creation accepts them.

**`tenant`** Secrets: up to three requests in one namespace, in six kinds of scenarios:
creations of two tenants with different options; a deletion beside another one or beside a creation
of the same tenant, with the integration on; creations with the integration on beside a change of
certificates; changes and replacements of certificates, those of authorities too, with a
deletion; the certificates of authorities removed for one of two tenants that may share them, or
late, after a deletion and a recreation (`AuthorityJobs`, `LateJobs`).
Encryption: two updates with any files, three shapes of a tenant with KES and one without.
Specification: three requests of all kinds, any initial annotations.
Three requests for secrets are what it takes for a deletion to come late, after another one
and a creation.
Two updates are what it takes for one to delete what the other wrote; three changes let
one read, another write and the third write over both.
- `OneCreator`: two creations of a tenant that is not deleted meanwhile are never
  both past the first secret.
- `CleanupIsOwn`: the cleanup deletes what its request wrote, or what an earlier
  failed one left, unless the tenant is deleted meanwhile. The certificates another
  request gave the tenant once it was created go with them (section 7, number 9).
- `LossIsReported`: a tenant that lacks a secret it refers to has a request that failed
  or is in its cleanup, or one that has just deleted the secret to write it again; a
  request that merely goes on, or succeeded, loses none. The exceptions are named in it:
  a tenant that is deleted and created beside another deletion or a removal of its
  certificates, or whose certificate a request for another tenant removes (`Contested`,
  section 7, number 10), and certificates of authorities, whose secret tenants share: the
  deletion of another tenant that asked for them takes it, and so does a change of
  certificates that removes it, of another tenant or late (`Shared`, numbers 12 and 29). The
  scenarios contain them all, and TLC finds the property violated without any one of them.
- `KesAgrees`: when all updates succeeded, KES has a configuration and, if the request
  that wrote it brought certificates for the KMS, just these. If it brought none there may be
  none, or older ones that could not be deleted.
- `WrittenIsMounted`: what a successful update wrote and is still there is what the
  pods run with.
- `PoolsGoOnRequest`: pools go only when they are replaced, or by a YAML that was opened
  before they were there.
- `ImageAndRegistryAgree`: when all updates ask for an image with its credentials and
  succeed, both are of one request, though the two are written one after the other.

**`services`** Integration: two tenants, one name a prefix of the other. Licence: two
tenants (one with a configuration secret), two licences, one edit each; the loop beside
a validation; a refresh with a restart, or beside another request. Widget: two labels, two
targets, with and without range and step.
- `IntegratedIsServed`: whoever succeeded has certificate, services and hosts, and
  keeps them whatever the other does.
- `TenantsFollowCluster`: a tenant only has a licence the cluster has had.
- `RefreshReachesTenants`: a refresh that succeeded gave every tenant its licence, and
  the tenant has it unless another request gave it one at some time, before or after.
  Tenants created during the refresh are not among those it listed.
- `EditsAreKept`: giving a tenant its licence undoes no edit others made to the tenant or to
  the entries of its configuration secret. The rest of such a secret goes with the
  first licence (section 7, number 28), and with nothing else.
- `WidgetIsComplete`: an answer has each target once, and nobody sends on the closed
  channel.
- `RequestsAnswered`: integrations and widgets are answered, unless the process ended or
  (widgets) the query of a target failed.
- `RefreshGoesOn`: the loop attempts again and again; only three failures in a row end it.

Type invariants other than `TypeOK` of `requests` are not checked by a run of their own:
those of `WsStream`, `WsHeal`, `MakeBucket`, `Replication`, `DeleteObjects`, `UserGroups`,
`License`, `WidgetDetails`, `GkeIntegration`, `TenantSecrets`, `TenantSpec`, `KesSecrets` and
`BucketAccess`, `ClusterMemory` and `ErasureSets` are proved, and so is `TypeOK`.

## 5. Fairness, deadlock, symmetry

Fairness is weak. Go schedules what can run; a call of MinIO, Kubernetes or Prometheus
returns, with an error when its context ends; a timer fires; a browser that stays reads
what it is sent (it buffers by itself), and a producer notices its context. In `ws_stream`
and `ws_heal` there is one condition per actor, since the handler and the reader depend
on each other. In `batches` and `services` one condition covers all the steps of the
requests, goroutines and timers of a component (`Progress`, `DeletionProgress`,
`GkeProgress`, `LoopProgress`, `WidgetProgress`): they take finitely many steps (the loop:
one attempt after the other), so that no goroutine can keep another one waiting for
ever, and the weaker assumption suffices. There is no fairness for what nobody is
obliged to do: a browser that leaves, a record that MinIO reports, a pod that starts, an
edit, a Prometheus that recovers. `requests`, `decisions` and `tenant` check safety only.

`CHECK_DEADLOCK FALSE` is in every configuration: requests and sessions come to an
end, and then nothing is left to do. That none stops before its end is what
`NobodyLeftBehind`, `HealEnds`, `BatchesAnswered` and `RequestsAnswered` say.

Symmetry is used in `requests` (makers, requests), `tenant` (requests) and `decisions`
(users, groups, policies), where the permuted constants are interchangeable and there
is no liveness property. It is not used where order matters (relations) or
names do (tenants).

## 6. Proofs

TLC explores small instances; the theorems hold for every value of the constants:
any number of requests, relations, records, tenants, targets. The assumptions are the
`ASSUME`s of the modules and no others: bounds and sizes of memory are natural numbers, sets of
requests are disjoint, the targets of a widget are finitely many. In each module the
property is part of, or follows from, an inductive invariant (`...IInv`); its proof has one lemma
per action, and a step per conjunct. `PROJECT.json` lists the theorems a reader should know.

**`WsStreamProofs`**: `TypeCorrect`, `InOrder`, `Truthful`, and `ImplementsContract`.
`ForwardedInOrder` and `ClosesTruthfully` are not inductive: nothing in them says that
a session in `select` has nothing pending, or that the result a session returns is what
it met. The invariant `IInv` adds `Control` (what each place of the handler and its
body implies about records, close frame and result) and `HandlerCloseIsFinal` (a close
frame of the handler's own comes only at its end). The lemmas go by who makes the
step: session, environment, producer, body. For the refinement each step is shown
to hand over (`Subscribe` of health-info, `SelectItem`), forward (`WriteRecord`), close
(`SendCloseMessage`, the reader's echo), or leave `taken`, `text` and
`closeCode` alone; `InOrder` gives that the record written is the next one.

**`WsHealProofs`**: `HealTruthful`, `HealTypeCorrect`, `FramesAgree`, `FinishReported`. For
the first the invariant ties what the body has met to where it is and to the summary of
the last answer (`BodyControl`), and says that a close frame of the session's own is its
last message (`CloseIsLast`). For the statuses a second invariant follows the items: the
accumulated status counts what it lists and, besides, one item per broken answer
(`StatusOK`); as long as none was broken, what is listed and what waits are what was
reported (`ListIsReported`); the last frame is a part of the status (`SentBefore`). That a
write that fails is not noticed does no harm because a handler at work has not closed the
connection: its write fails only where the browser is gone or the reader has sent the
close frame, so that no normal one follows (`SentOrLost`).

**`RequestsProofs`**: `TypeCorrect`, `RefusedIsHarmless`, `RemovalIsOwn`, `SuccessComplete`
of `MakeBucket`. That a maker removes only its own bucket needs four facts besides: it
goes on only after it has created (`GoesOnAfterCreate`), no two makers created one
incarnation (`CreatedOnce`), what is there was not removed (`RemovedOnce`), and, as long as
nobody deletes, the bucket of a maker at work is the one that is there (`StillThere`).
`SuccessComplete` needs what each place of the handler implies about the settings its own
incarnation has so far (`CompleteSoFar`). `GroupsTypeCorrect` and `GroupsAreKept` of
`UserGroups`: MinIO takes a removal of no members as the removal of the group, so the
invariant is that every call of a goroutine that removes members names some
(`CallsAreMeant`). `SuccessApplied` follows a request that is alone from call to call:
what each place implies about the user, about the groups whose goroutine has
reported and those whose has not, about the group that is updated, and about the entities done
(`AppliedSoFar`). `AgreementHolds` is about requests that are not alone: with all of them
agreed on a user and a group, each call leaves the user where he is or moves him where
they want him (`Tends`), so it is enough that a request that no longer cares has put him
there, or found him there when it read (`DoneWith`). `RequestsTypeCorrect` puts the two
together for the specification of the run: a behaviour about one keeps the other where it
starts.

**`ReplicationProofs`**: `TypeCorrect`, `ConfigurationsWellFormed`, `FirstRulesKept`,
`DoneIsStored`. Stored configurations stay well formed because every copy is (`AllGood`) and
the ID of a rule to be added is in none of them (`NewIdsFresh`); the new priority is above all
others of the copy, which needs the maximum of a finite set, so `Good` bounds the
priorities of a configuration. First rules are kept because every copy about to be written
covers them, or its reader failed (`OldCovered`). For `DoneIsStored`: the target comes first
(`TargetFirst`), nobody touches the rule of a relation that is alone
(`LoneRuleStored`), and on a bucket nobody deletes from the last write is some
relation's (`LastRuleStored`).

**`DeleteProofs`**: `DeletionTypeCorrect`, `OnlyAskedIsRemoved`. Whatever waits to be
removed (in the listing, in the handler's hands, in `contentCh`, at the remover) was asked
for by a file the handler has come to. `SuccessMeansDeleted` is about the converse: what a
file asks for waits in one of these places, or is gone, or the user may not delete it, or
the remover has stopped or offers an error that ends the request (`NothingLost`). A file
is left only when its remover has ended, with nothing waiting any more (`FileOK`).

**`TenantsProofs`**: `SpecTypeCorrect`, `ImageHasItsCredentials`, `PoolsAreKept` of
`TenantSpec`: a copy whose version is the tenant's is the tenant (`CopiesAreDated`), so a
write of the version read loses nothing; and once the request that wrote the credentials
last has succeeded, its image is there and no update that is still to write has
read the tenant since (`CredentialsOwner`).
`KesTypeCorrect`, `ConfigurationAgrees`, `WhatIsWrittenIsMounted` of `KesSecrets`: the
configuration and the certificates for the KMS belong together unless some request is
between its deletion of the first and its creation of the last (`Between`) and so about to
write both (`Together`); whose secret is stored has got past its creation
(`WritersOK`), and once that request has restarted the pods, the ones that run have
it (`MountedOK`).
`OneCreatorOnly`, `CleanupTakesOwn` of `TenantSecrets`: the first secret of a plan is the
only one that locks the tenant's name (`LocksFirst`), so a creation that is past it owns it,
and all other secrets with the tenant's label are its own or left by failed requests
(`HasLock`); before somebody takes the lock, all of them are left (`Left`). Two owners
are one, since names of secrets are unique, and a cleanup takes what the label selects.
`LossReported` and `TenantsTypeCorrect` of `TenantSecrets`: as long as no request for a tenant has
failed and it is not contested, what it refers to and what a creation midway has written for it
(`Needed`) is there or being replaced (`NeededThere`). The lock is part of it: it stays while the
tenant does (`LockStays`), a creation midway is the only one, with no tenant and no deletion
beside it (`Alone`), and a deletion past its first call meets no tenant (`DeletionsOK`). An
update of the tenant has written its certificate, or its copy is too old to be taken
(`UpdatesOK`), for which `VersionsOK` says that no copy is newer than the tenant; a removal comes
after the tenant stopped referring to what it takes (`RemovalsOK`). All these are
kept for each tenant apart (`Kept`), the shared certificates of authorities for all
(`AuthoritiesKept`); a removal of those meets no other tenant that needs them unless it is
named in `Shared` (`AuthoritiesNotRemoved`).

**`ServicesProofs`**: `LicenseTypeCorrect`, `TenantsFollow`, `RefreshReaches`, `EditsKept`:
a process past its save has a licence the cluster has had (`LicenseKnown`), a
process counted among the readers of a holder has a copy of its edits as they are
(`CopiesAreCurrent`), and a refresh is an updater of all tenants it has left behind
(`Updating`). `WidgetTypeCorrect`, `AnswerIsComplete`: no target comes twice
(`NoTargetTwice`), so as many results as targets are all of them, by the library's
theorem on injections into finite sets; and then all goroutines are over before the
channel is closed. `GkeTypeCorrect`, `ServedOnceIntegrated`: the version of the ingress
counts its hosts, so that a copy with its version has its hosts, and no write that
Kubernetes accepts drops one.

**`DecisionsProofs`**: `NothingIsMissing`, `ListedRight`, `ColorsAreTruthful`,
`MemoryTypeCorrect`, `MemoryFits`, `ParityTypeCorrect`, `ParitiesSound`. Who
is allowed and who denied so far is what the policies fetched so far say, in any order (`Judged`); that
the first statement decides takes the least element of a set of indices. A colour
depends on the mean of the drives of the sets alone (`ColorIsOfMean`); how many drives have
an item is counted over all its sets, so it lies between as many times the least and the
greatest of them as there are sets, and the mean between these two (`OnlineBounds`,
`MeanBounds`). Each row of the table is
increasing, but for the column it leaves out, and ends with its parity (`Rows`). The loop
over the sizes of memory stays at the first one for as many rounds as nodes were asked
about and then moves on by one each round (`MemoryLoopOK`), so it ends where as
many sizes are left, its own included; since the sizes ascend (`Ascending`), what is at least as large is counted
by an interval of places (`CountFromPlace`). The loop over the sizes of erasure sets has
chosen the greatest of those behind it (`ParityLoopOK`), because a larger set is never
more of them (`FewerLargerSets`); the sizes it goes over are those that divide the drives
and the servers, or are divided by them (`CountsAreEven`); and all of them are at most
the number of drives, so the early return of `commonSetDriveCount` is never taken.

**Model-checked only.** Liveness (`NobodyLeftBehind`, `CloseFrameSent`, `HealEnds`,
`BatchesAnswered`, `RequestsAnswered`, `RefreshGoesOn`): TLAPS proves nothing about fairness or
`ENABLED`. Every invariant and every other property of the passing runs is proved.

## 7. Where code and text disagree

Five disagreements have a run that shows them (the findings of `PROJECT.json`):

1. `restapi/user_buckets.go:376` says "make sure to delete bucket if an error occurs
   after bucket was created". The errors of the versioning step and of the quota's
   client are assigned to an `err` of an inner block, and the deferred function looks at the
   outer one: the bucket stays. Run `make_bucket_cleanup`.
2. `restapi/admin_remote_buckets.go:273` says "we will tolerate this call failing",
   279 "add rule". After a read that failed the configuration is empty, and writing it
   back takes the other rules away. Run `replication_add`.
3. `swagger-console.yml:379` says "Delete Multiple Objects". `version` is declared
   outside of the loop (`restapi/user_objects.go:329`): a file without a version takes
   the one of a file before it, and stays. Run `delete_objects_all`.
4. `restapi/admin_info.go:939` says of the test before the queries "this is meant to avoid
   unuseful calls and application hang". A target whose query then fails returns without
   a send (1028), and the loop (1064) waits for it for ever. Run `widget_hang`.
5. `operatorapi/operator_tenants.go:1509` says "remove prometheus annotations to the
   tenant". They are deleted from the copy (1548), which is sent as a merge patch (1524)
   and leaves what it does not name. Run `tenant_annotations`.

Others were met while the modules were written. The modules contain the behaviour,
and the properties above are stated so that they say what does hold:

6. `restapi/admin_trace.go:63`: each filter returns its own answer, so that a status
   code or method passed with a path is not applied. `NothingMissing` is about what
   passes all filters; what passes the first one only is shown too.
7. `restapi/admin_users.go:618`: the policies of a group are looked up as one name.
   The members of a group with two policies are not listed (`GroupPolicy`).
8. `restapi/admin_users.go:564`: the first statement that matches decides; a denial
   after it in the same policy is not seen (`policyAllowsAndMatchesBucket`).
9. `operatorapi/operator_tenants.go:951`: the cleanup "for failed tenant" (953) also
   runs when the tenant was created and only its integration (1382) failed or the reply (1374)
   was lost: a tenant that runs loses its secrets. `LossIsReported` allows it: the
   request fails. "delete secrets created if an error occurred during tenant creation"
   (950) takes by label also what the request did not create: certificates another
   request gave the tenant in between. `CleanupIsOwn` names that case.
10. `operatorapi/operator_tenants.go:330`: a deletion selects secrets by label when it gets to
    them. If another deletion has ended before and the tenant was created again since, the
    new tenant's secrets go, and all three requests succeed. `LossIsReported` names that
    case (`Contested`).
11. `operatorapi/operator_tenants.go:292` says "try to delete pvc even if the tenant
    doesn't exist anymore", but 270 reads the tenant first and fails: a deletion whose
    volumes could not be deleted cannot be repeated (`GetTenant`).
12. `operatorapi/operator_tenants.go:1160`: the secrets of CA certificates have the same names
    for all tenants of a namespace; the last one created takes them, and its deletion takes
    them from the others. `LossIsReported` names that case (`Shared`).
13. `operatorapi/operator_tenants_helper.go:53`: certificates are replaced in the secret
    a new tenant has, also when `updateTenantSecurity` has since given it one of
    another name (`operator_tenants.go:747`); the request succeeds and the tenant
    keeps the old ones (`Plan`, `NewRefs`).
14. `operatorapi/integrations.go:46` and 58: timer and handler of pod events can both
    find `informerClosed` unset and both close the channel; the second one panics
    (`CloseDone`, `alive`).
15. `operatorapi/integrations.go:57`: names are compared by prefix and every namespace is
    watched, so that a pod of tenant `t2` ends the wait for `t` (`AddFunc`).
16. `operatorapi/operator_tenants_helper.go:94`: the references that
    `createOrReplaceKesConfiguration` returns are ignored. An update without certificates
    for the KMS deletes the ones that `tenant.Spec.KES` still refers to; one that brings
    them to a tenant without that reference writes a secret nobody mounts. And the old
    secrets are deleted before the new files are looked at, so that an invalid request
    loses the configuration (`UpdatePlan`, `InvalidFiles`).
17. `operatorapi/operator_tenants_helper.go:340`: the identity of MinIO's client
    certificate is part of the configuration of KES. Of two updates that succeed, the
    certificate of one may end up beside the configuration of the other.
18. `operatorapi/operator_tenants_helper.go:193`: the number of replicas is taken over
    only when it cannot be parsed.
19. `operatorapi/operator_tenants.go`: `updateTenantAction` writes the credentials of the
    registry first and the tenant after, and ignores the name of the secret
    `setImageRegistry` returns: after a patch that fails, the new credentials stay with the old
    image. A tenant without any annotations that is to be scraped goes the way of
    those that are not (1498, `Updated`).
20. `getUpdateTenantYAML` reads the tenant anew and writes the YAML with its version: what
    was changed since the YAML was opened is lost without a conflict (`SameVersion`).
21. `operatorapi/operator_subscription.go:207` says "save license key to k8s and restart all
    console pods": nothing is restarted, and nothing reads the licence kept in memory.
    Two savers may leave the older of their licences (`SecretWritten`).
22. `restapi/admin_info.go:894` reads the status of a response that is nil when the request
    failed, and 1009 dereferences a step that a request with a range need not have: both
    end the process (`FetchLabel`, `FetchTarget`). Labels that come after the timeout
    block their goroutines for good.
23. `operatorapi/operator_nodes.go:56`: a node with two taints that forbid scheduling counts
    twice among the unschedulable, so that a question with enough nodes is refused
    (`schedulableNodes`); one whose taint is `NoExecute` counts as schedulable and not for the
    memory, so that the answer may be 0.
24. `pkg/utils/parity.go`: the symmetry is to be "common across all ellipses patterns"; the
    loop keeps what the last pattern gives (`setCounts`).
25. `operatorapi/proxy.go:153`: `StatusCode < 200 && StatusCode <= 299` holds for no answer of a
    server, so an error of a login goes unnoticed. Not modelled.
26. `restapi/admin_heal.go:261`: of a bucket or metadata on several erasure sets the drives
    that have it are averaged before they are compared with the quorum of one set. A set that has
    lost it hides behind others: four sets of 16 drives with 16, 16, 16 and 8 of them online have
    a mean of 14 and a healthy colour, though 8 is below the quorum of 9.
27. `restapi/admin_users.go:609`: when the groups cannot be listed the request succeeds with
    nobody in its answer, also users whose own policies were fetched and allow the bucket
    (`ListGroups`).
28. `operatorapi/operator_subscription.go:138`: the configuration secret of a tenant is written
    back with `config.env` alone, generated from the entries that were parsed. Other keys of
    the secret, and lines of `config.env` that are no entries, are gone with the first licence
    (`Regenerated`).
29. `operatorapi/operator_tenants.go:783`: a change of certificates deletes the secrets it
    names, whatever other tenants refer to them. Named are those of authorities too, which tenants
    share (number 12): a request for one tenant that succeeds takes them from another
    (`RemoveSecrets`; `LossIsReported` names it in `Shared`).

## 8. What is not modelled

External code is modelled by what the repository's use of it needs: `gorilla/websocket`
(when writes succeed, block and fail), the MinIO server and its clients
(buckets, rules, users, groups, listing and removing), Kubernetes (names, labels,
resource versions, merge patches, pods that mount secrets), SUBNET (numbered licences),
Prometheus (answers, refuses, unreachable). Such definitions are marked external in
`PROJECT.json`.

Abstractions that a reader should know of:

- Bytes, names and formatting; what a record, a rule, a policy or a secret
  contains beyond what a property tells apart.
- A write that is under way when the browser goes is one step: it succeeds or fails.
- The second between two polls of a heal is left out; polls are bounded by `MaxPolls`.
- In `Replication` the ID of a rule is the relation that adds it: the library's IDs
  are taken to be unique.
- In `BucketAccess` MinIO does not change while the listing runs.
- In `UserGroups` a call that MinIO refuses and one that never arrives look alike.
- In `HealColor` the sets of an item have equally many drives; pools of different layouts,
  for which `DiskCount / SetCount` is a mean as well, are left out.
- In `WsConn` and the sessions every record can be encoded: a `json.Marshal` that fails, which
  ends a handler with its error, is not modelled.
- In `TenantSecrets` `setImageRegistry` is one step, and all certificates of authorities of
  a request are one secret. A change of certificates removes secrets of certificates under
  the names creations give them; those with a random name are not removed again, and a
  request that names a secret of another kind is not considered. In `KesSecrets` what a
  tenant refers to does not change, since no request there changes it.
- In `GkeIntegration` the ingress has annotations: `integrations.go:179` assigns to the map of
  them, which panics when there is none.
- In `License` validating a licence succeeds or fails; what SUBNET's keys verify is left out.
  The value of an entry of `config.env` comes through parsing and generation as it was, and
  entries of one name are one.

Parts left out, with the reason in `PROJECT.json`:

- Generated code (`restapi/embedded_spec.go`, both `operations/`, `models/`) is most of the
  lines of this repository. It is written by go-swagger from the two swagger files and has no
  decisions of its own; so is the web interface left out, which renders and calls the API.
- Static tables (`pkg/acl`), thin wrappers (clients), conversions around one call
  (configuration, tiers, notification endpoints, listings, service accounts).
- Sessions: the server keeps none; a token is decrypted with every request and MinIO
  decides. Cryptography (tokens, the validation of a licence).
- The cached backend type (`restapi/user_buckets.go:290-304`): one variable filled by
  whichever account information comes first, read without synchronisation; nothing says
  what its readers may rely on, so there is no property to state.
- Whole-document writes like those of replication: the lifecycle configuration
  (`restapi/user_buckets_lifecycle.go:228`) is read and written in the same way, and loses a
  rule of two requests at once in the same way.
- A lazily filled global HTTP client (`restapi/client-admin.go:449`): two
  first requests at once may each build one.

## 9. Plan

What is left, in this order:

1. An update of certificates (`TenantSecrets`) beside an update of encryption
   (`KesSecrets`) of one tenant, as one module: they share the tenant and the pods.
2. The proxy's cookie and the session of a tenant behind it, once the status check
   of number 25 is what it means to be.
