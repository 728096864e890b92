----------------------------- MODULE DeleteObjects -----------------------------
(***************************************************************************)
(* A request that deletes several paths of a bucket: an object is handed   *)
(* to a remover at once, a folder is listed by one goroutine and removed   *)
(* by another while the handler passes on what is listed (contentCh) and   *)
(* listens to what cannot be removed (errorCh).                            *)
(***************************************************************************)
EXTENDS Naturals, Sequences, FiniteSets

CONSTANTS
  Keys,      \* objects
  Folders,   \* paths that are deleted recursively
  Below,     \* Below[d]: the objects a recursive listing of folder d yields
  Versions,  \* version IDs
  NoVersion, \* no version: the request is for the object itself
  Capacity,  \* of contentCh
  Requests   \* lists of paths to delete

ASSUME BelowAssumption == Below \in [Folders -> SUBSET Keys]
ASSUME NoVersionAssumption == NoVersion \notin Versions
ASSUME CapacityAssumption == Capacity \in Nat \ {0}

Files ==
  [path : Keys \cup Folders, version : Versions \cup {NoVersion}, recursive : BOOLEAN]

ASSUME RequestsAssumption ==
  \A r \in Requests : /\ r \in Seq(Files)
                      /\ \A f \in DOMAIN r : r[f].recursive <=> r[f].path \in Folders

VARIABLES
  has,        \* has[k]: the versions MinIO keeps of an object
  marked,     \* objects under a delete marker
  denied,     \* objects the user may not delete
  unlistable, \* folders the user may not list
  asked,    \* what to delete
  handlerPc,         \* of the handler
  i,          \* the file it is at
  version,    \* its variable version
  item,       \* the listed object it is about to pass on
  deleteAnswer,     \* of the request
  lister,     \* lister[f]: the goroutine that lists file f
  list,       \* list[f]: what it has not handed over yet
  contentCh,  \* contentCh[f]: what waits for the remover of file f
  closed,     \* closed[f]: contentCh[f] is closed
  remover,    \* remover[f]: the goroutine that removes
  batch,      \* batch[f]: what it took and has not removed yet
  offer       \* offer[f]: the error it offers on errorCh

bucket  == <<has, marked>>
policy  == <<denied, unlistable, asked>>
handler == <<handlerPc, i, version, item, deleteAnswer>>
listing == <<lister, list>>
channel == <<contentCh, closed>>
removal == <<remover, batch, offer>>
deletionVars == <<bucket, policy, handler, listing, channel, removal>>

Index == DOMAIN asked
Removals == [key : Keys \cup Folders, version : Versions \cup {NoVersion}]

DeletionTypeOK ==
  /\ has \in [Keys -> SUBSET Versions]
  /\ marked \subseteq Keys
  /\ handlerPc \in {"files", "range", "send", "drain", "done"}
  /\ i \in 0 .. Len(asked)
  /\ version \in Versions \cup {NoVersion}
  /\ item \in Keys \cup {NoVersion}
  /\ deleteAnswer \in {"none", "ok", "error"}
  /\ handlerPc = "done" <=> deleteAnswer # "none"
  /\ lister \in [Index -> {"off", "on", "denied", "ended"}]
  /\ list \in [Index -> SUBSET Keys]
  /\ contentCh \in [Index -> Seq(Removals)]
  /\ \A f \in Index : Len(contentCh[f]) <= Capacity
  /\ closed \in [Index -> BOOLEAN]
  /\ remover \in [Index -> {"off", "on", "ended", "stopped"}]
  /\ batch \in [Index -> SUBSET Removals]
  /\ offer \in [Index -> {"none", "denied", "failed"}]

Visible(k) == has[k] # {} /\ k \notin marked

DeletionInit ==
  /\ has \in [Keys -> {Versions}]
  /\ marked = {}
  /\ denied \in SUBSET Keys
  /\ unlistable \in SUBSET Folders
  /\ asked \in Requests
  /\ handlerPc = "files" /\ i = 0 /\ version = NoVersion /\ item = NoVersion /\ deleteAnswer = "none"
  /\ lister = [f \in Index |-> "off"]
  /\ list = [f \in Index |-> {}]
  /\ contentCh = [f \in Index |-> <<>>]
  /\ closed = [f \in Index |-> FALSE]
  /\ remover = [f \in Index |-> "off"]
  /\ batch = [f \in Index |-> {}]
  /\ offer = [f \in Index |-> "none"]

-----------------------------------------------------------------------------
(* getDeleteMultiplePathsResponse: one file after another. *)

Answer(a) == handlerPc' = "done" /\ deleteAnswer' = a

\* The version of a file; the one of an earlier file when it has none.
VersionFor(file) == IF file.version # NoVersion THEN file.version ELSE version

NoClient ==
  /\ Answer("error")
  /\ UNCHANGED <<item, listing, channel, removal>>

\* deleteSingleObject: contentCh is filled and closed before the remover starts.
DeleteSingleObject(f, key) ==
  /\ contentCh' = [contentCh EXCEPT ![f] = <<[key |-> key, version |-> version']>>]
  /\ closed' = [closed EXCEPT ![f] = TRUE]
  /\ remover' = [remover EXCEPT ![f] = "on"]
  /\ handlerPc' = "drain"
  /\ UNCHANGED <<item, deleteAnswer, listing, batch, offer>>

\* deleteMultipleObjects starts the remover and then the listing.
DeleteMultipleObjects(f, folder) ==
  /\ remover' = [remover EXCEPT ![f] = "on"]
  /\ lister' = [lister EXCEPT ![f] = "on"]
  /\ list' = [list EXCEPT ![f] =
                IF folder \in unlistable THEN {} ELSE {k \in Below[folder] : Visible(k)}]
  /\ handlerPc' = "range"
  /\ UNCHANGED <<item, deleteAnswer, channel, batch, offer>>

NextFile ==
  /\ handlerPc = "files" /\ i < Len(asked)
  /\ i' = i + 1
  /\ LET file == asked[i + 1] IN
       /\ version' = VersionFor(file)
       /\ \/ NoClient
          \/ file.recursive /\ DeleteMultipleObjects(i + 1, file.path)
          \/ ~file.recursive /\ DeleteSingleObject(i + 1, file.path)
  /\ UNCHANGED <<bucket, policy>>

AllDeleted ==
  /\ handlerPc = "files" /\ i = Len(asked)
  /\ Answer("ok")
  /\ UNCHANGED <<bucket, policy, i, version, item, listing, channel, removal>>

-----------------------------------------------------------------------------
(* deleteMultipleObjects: the loop over the listing. *)

\* Mutated form of CloseContent: contentCh stays open.
LeaveContentOpen == UNCHANGED closed

CloseContent == closed' = [closed EXCEPT ![i] = TRUE]

\* Mutated form of Content: the version that was asked for of a file.
ContentWithVersion == [key |-> item, version |-> version]

\* What the remover is to remove: what was listed, in no version.
Content == [key |-> item, version |-> NoVersion]

ReceiveContent ==
  /\ handlerPc = "range"
  /\ \E k \in list[i] : item' = k /\ list' = [list EXCEPT ![i] = @ \ {k}]
  /\ handlerPc' = "send"
  /\ UNCHANGED <<bucket, policy, i, version, deleteAnswer, lister, channel, removal>>

\* The listing yields a permission error, which is ignored.
ReceiveDenied ==
  /\ handlerPc = "range" /\ lister[i] = "on" /\ asked[i].path \in unlistable
  /\ lister' = [lister EXCEPT ![i] = "denied"]
  /\ UNCHANGED <<bucket, policy, handler, list, channel, removal>>

ReceiveFailed ==
  /\ handlerPc = "range" /\ lister[i] = "on"
  /\ lister' = [lister EXCEPT ![i] = "ended"]
  /\ list' = [list EXCEPT ![i] = {}]
  /\ CloseContent
  /\ Answer("error")
  /\ UNCHANGED <<bucket, policy, i, version, item, contentCh, removal>>

ListingEnds ==
  /\ handlerPc = "range" /\ list[i] = {}
  /\ asked[i].path \in unlistable => lister[i] = "denied"
  /\ lister' = [lister EXCEPT ![i] = "ended"]
  /\ CloseContent
  /\ handlerPc' = "drain"
  /\ UNCHANGED <<bucket, policy, i, version, item, deleteAnswer, list, contentCh, removal>>

SendContent ==
  /\ handlerPc = "send" /\ Len(contentCh[i]) < Capacity
  /\ contentCh' = [contentCh EXCEPT ![i] = Append(@, Content)]
  /\ item' = NoVersion
  /\ handlerPc' = "range"
  /\ UNCHANGED <<bucket, policy, i, version, deleteAnswer, listing, closed, removal>>

\* Mutated form of AfterError: a permission error ends the file.
AfterErrorNextFile(e) ==
  IF e = "denied" THEN handlerPc' = "files" /\ UNCHANGED deleteAnswer ELSE Answer("error")

\* What an error of the remover does: a permission error is ignored, where the
\* handler is; another one ends the request.
AfterError(e) == IF e = "denied" THEN UNCHANGED <<handlerPc, deleteAnswer>> ELSE Answer("error")

ReceiveError ==
  /\ handlerPc \in {"send", "drain"} /\ offer[i] # "none"
  /\ offer' = [offer EXCEPT ![i] = "none"]
  /\ AfterError(offer[i])
  /\ closed' = [closed EXCEPT ![i] = @ \/ offer[i] = "failed"]
  /\ UNCHANGED <<bucket, policy, i, version, item, listing, contentCh, remover, batch>>

\* break OUTER_LOOP: errorCh is closed while the handler has an object to send.
RemoverGone ==
  /\ handlerPc = "send" /\ remover[i] = "stopped"
  /\ CloseContent
  /\ handlerPc' = "drain"
  /\ UNCHANGED <<bucket, policy, i, version, item, deleteAnswer, listing, contentCh, removal>>

\* When draining ends: errorCh is closed.
ErrorsEnd == remover[i] \in {"ended", "stopped"}

Drained ==
  /\ handlerPc = "drain" /\ ErrorsEnd
  /\ handlerPc' = "files"
  /\ UNCHANGED <<bucket, policy, i, version, item, deleteAnswer, listing, channel, removal>>

Handler ==
  \/ NextFile \/ AllDeleted
  \/ ReceiveContent \/ ReceiveDenied \/ ReceiveFailed \/ ListingEnds
  \/ SendContent \/ ReceiveError \/ RemoverGone \/ Drained

-----------------------------------------------------------------------------
(* The remover, which the client library runs: it takes objects while it    *)
(* removes others, reports what it could not remove and closes errorCh once *)
(* contentCh is closed and all is done. It may also close errorCh early.    *)

Take(f) ==
  /\ remover[f] = "on" /\ offer[f] = "none" /\ contentCh[f] # <<>>
  /\ batch' = [batch EXCEPT ![f] = @ \cup {Head(contentCh[f])}]
  /\ contentCh' = [contentCh EXCEPT ![f] = Tail(@)]
  /\ UNCHANGED <<bucket, policy, handler, listing, closed, remover, offer>>

Remove(f, r) ==
  /\ remover[f] = "on" /\ r \in batch[f]
  /\ batch' = [batch EXCEPT ![f] = @ \ {r}]
  /\ \/ /\ r.key \notin denied
        /\ IF r.version = NoVersion
             THEN marked' = marked \cup {r.key} /\ UNCHANGED has
             ELSE has' = [has EXCEPT ![r.key] = @ \ {r.version}] /\ UNCHANGED marked
        /\ UNCHANGED offer
     \/ /\ offer[f] = "none"
        /\ offer' = [offer EXCEPT ![f] = IF r.key \in denied THEN "denied" ELSE "failed"]
        /\ UNCHANGED bucket
  /\ UNCHANGED <<policy, handler, listing, channel, remover>>

RemoverEnds(f) ==
  /\ remover[f] = "on" /\ offer[f] = "none" /\ batch[f] = {}
  /\ contentCh[f] = <<>> /\ closed[f]
  /\ remover' = [remover EXCEPT ![f] = "ended"]
  /\ UNCHANGED <<bucket, policy, handler, listing, channel, batch, offer>>

RemoverStops(f) ==
  /\ remover[f] = "on" /\ offer[f] = "none" /\ batch[f] = {}
  /\ remover' = [remover EXCEPT ![f] = "stopped"]
  /\ UNCHANGED <<bucket, policy, handler, listing, channel, batch, offer>>

Remover(f) == Take(f) \/ RemoverEnds(f) \/ \E r \in batch[f] : Remove(f, r)

DeletionNext == Handler \/ \E f \in Index : Remover(f) \/ RemoverStops(f)

DeletionSpec == DeletionInit /\ [][DeletionNext]_deletionVars

\* Goroutines are scheduled, and what they call returns; that the remover stops
\* early is not taken for granted.
DeletionProgress == Handler \/ \E f \in Index : Remover(f)
DeletionFairness == WF_deletionVars(DeletionProgress)
FairDeletion == DeletionSpec /\ DeletionFairness

-----------------------------------------------------------------------------
\* The file asks for its own version, or no file before it asks for one.
OwnVersion(f) ==
  asked[f].version # NoVersion \/ \A g \in 1 .. f - 1 : asked[g].version = NoVersion

Gone(file) ==
  LET Hidden(k) == ~Visible(k) \/ k \in denied IN
  IF file.recursive THEN \A k \in Below[file.path] : Hidden(k)
  ELSE IF file.version = NoVersion THEN Hidden(file.path)
  ELSE file.version \notin has[file.path] \/ file.path \in denied

\* What the code does not see or ignores: a folder that may not be listed, a
\* remover that stopped.
Ignored(f) == asked[f].path \in unlistable \/ remover[f] = "stopped"

\* A request that succeeds has deleted what it names, except for what the user
\* may not list or delete, and leaves neither a lister nor a remover behind: no
\* error is lost between the listing, contentCh and errorCh, and no file is left
\* before its remover is through.
SuccessDeletes ==
  deleteAnswer = "ok" => \A f \in Index :
    /\ OwnVersion(f) => Gone(asked[f]) \/ Ignored(f)
    /\ remover[f] # "stopped" => lister[f] # "on" /\ remover[f] # "on"

\* A key is hidden, and a version removed, only for a file the handler has come
\* to: the object's own or a folder's above it; a version only if a file up to
\* that one asks for it.
RemovesOnlyAsked ==
  [][ /\ \A k \in marked' \ marked : \E f \in 1 .. i :
           \/ asked[f].path = k
           \/ asked[f].recursive /\ k \in Below[asked[f].path]
      /\ \A k \in Keys : \A v \in has[k] \ has'[k] : \E f, g \in 1 .. i :
           g <= f /\ asked[f].path = k /\ asked[g].version = v ]_deletionVars

\* The request is answered, whatever the remover reports and in which order.
Answered == <>[](deleteAnswer # "none")

\* What the API says of the request, "Delete Multiple Objects": when it succeeds
\* each file it lists is deleted.
DeletesMultipleObjects ==
  deleteAnswer = "ok" => \A f \in Index : Gone(asked[f]) \/ Ignored(f)
=============================================================================
