------------------------------ MODULE MakeBucket ------------------------------
(***************************************************************************)
(* getMakeBucketResponse: a bucket is created and then given versioning,   *)
(* a quota and a retention rule, each by a call of its own to MinIO, with  *)
(* a deferred removal for when a later call fails. Several requests for    *)
(* the same name run at once, next to requests that delete the bucket, and *)
(* any call may fail, before or after MinIO carried it out.                *)
(*                                                                         *)
(* MinIO (external) holds the bucket. Every creation of the name is an     *)
(* incarnation of its own: a request that still runs may act on a later    *)
(* incarnation than the one it created.                                    *)
(***************************************************************************)
EXTENDS Naturals

CONSTANTS
  Makers,    \* requests that make the bucket
  Deleters,  \* requests that delete it
  MaxInc     \* incarnations of the bucket (a bound of the model)

ASSUME MaxIncAssumption == MaxInc \in Nat

NoOne == "no one"

ASSUME RequestsAssumption ==
  /\ Makers \cap Deleters = {}
  /\ NoOne \notin Makers \cup Deleters

VARIABLES
  cur,       \* the incarnation that exists, 0 if there is none
  last,      \* the latest incarnation there was
  bucket,    \* the settings of each incarnation
  makerOpts,   \* what each maker was asked for
  makerPc,     \* where each request is
  makerAnswer, \* what each request was answered
  created,   \* the incarnation a maker created, 0 if none (history)
  removedBy  \* who removed an incarnation (history)

bucketVars == <<cur, last, bucket, makerOpts, makerPc, makerAnswer, created, removedBy>>

Incs == 1..MaxInc
Options == [versioning : BOOLEAN, locking : BOOLEAN, quota : BOOLEAN,
            retention : BOOLEAN]
Fresh(locking) == [versioning |-> FALSE, locking |-> locking, quota |-> FALSE,
                   retention |-> FALSE, empty |-> TRUE]

\* Outcomes of a call: carried out; refused or not sent; carried out, but the
\* caller sees an error (the reply is lost or late).
Outcomes == {"ok", "fail", "lost"}

BucketTypeOK ==
  /\ cur \in {0} \cup Incs
  /\ last \in {0} \cup Incs
  /\ bucket \in [Incs -> [versioning : BOOLEAN, locking : BOOLEAN,
                          quota : BOOLEAN, retention : BOOLEAN,
                          empty : BOOLEAN]]
  /\ makerOpts \in [Makers -> Options]
  /\ makerPc \in [Makers \cup Deleters ->
               {"start", "versioning", "quota", "retention", "cleanup", "end"}]
  /\ makerAnswer \in [Makers \cup Deleters -> {"none", "ok", "error"}]
  /\ created \in [Makers -> {0} \cup Incs]
  /\ removedBy \in [Incs -> Makers \cup Deleters \cup {NoOne}]
  /\ \A r \in Makers \cup Deleters : makerPc[r] = "end" <=> makerAnswer[r] # "none"

BucketInit ==
  /\ cur = 0
  /\ last = 0
  /\ bucket = [i \in Incs |-> Fresh(FALSE)]
  /\ makerOpts \in [Makers -> Options]
  /\ makerPc = [r \in Makers \cup Deleters |-> "start"]
  /\ makerAnswer = [r \in Makers \cup Deleters |-> "none"]
  /\ created = [r \in Makers |-> 0]
  /\ removedBy = [i \in Incs |-> NoOne]

MakerGoto(r, label) == makerPc' = [makerPc EXCEPT ![r] = label]

Answer(r, a) ==
  /\ MakerGoto(r, "end")
  /\ makerAnswer' = [makerAnswer EXCEPT ![r] = a]

-----------------------------------------------------------------------------
(* MinIO. *)

\* removeBucket takes the bucket there is, which has to be empty.
Removable == cur # 0 /\ bucket[cur].empty

RemoveCurrent(r) ==
  /\ Removable
  /\ removedBy' = [removedBy EXCEPT ![cur] = r]
  /\ cur' = 0

\* A setting lands on the incarnation that exists when the call arrives.
ApplyTo(field) == bucket' = [bucket EXCEPT ![cur][field] = TRUE]

\* Someone puts an object in the bucket.
PutObject ==
  /\ Removable
  /\ bucket' = [bucket EXCEPT ![cur].empty = FALSE]
  /\ UNCHANGED <<cur, last, makerOpts, makerPc, makerAnswer, created, removedBy>>

-----------------------------------------------------------------------------
(* The steps of getMakeBucketResponse. *)

WantsVersioning(o) == o.versioning \/ o.retention
WantsLocking(o) == o.locking \/ o.retention

\* Where the function goes on after creating the bucket, after versioning and
\* after the quota.
AfterCreate(o) ==
  IF WantsVersioning(o) THEN "versioning" ELSE IF o.quota THEN "quota"
  ELSE IF o.retention THEN "retention" ELSE "end"
AfterVersioning(o) ==
  IF o.quota THEN "quota" ELSE IF o.retention THEN "retention" ELSE "end"
AfterQuota(o) == IF o.retention THEN "retention" ELSE "end"

Proceed(r, label) ==
  IF label = "end" THEN Answer(r, "ok") ELSE MakerGoto(r, label) /\ UNCHANGED makerAnswer

\* Mutated form of CreateFails: the deferred removal is registered too early.
CreateFailsDeferred(r) ==
  /\ MakerGoto(r, "cleanup")
  /\ UNCHANGED makerAnswer

\* An error of makeBucket returns before the removal is deferred.
CreateFails(r) == Answer(r, "error")

Create(r) ==
  /\ makerPc[r] = "start"
  /\ \/ /\ CreateFails(r)
        /\ UNCHANGED <<cur, last, bucket, created>>
     \/ /\ cur = 0 /\ last < MaxInc
        /\ last' = last + 1
        /\ cur' = last + 1
        /\ bucket' = [bucket EXCEPT ![last + 1] = Fresh(WantsLocking(makerOpts[r]))]
        /\ created' = [created EXCEPT ![r] = last + 1]
        /\ Proceed(r, AfterCreate(makerOpts[r])) \/ CreateFails(r)
  /\ UNCHANGED <<makerOpts, removedBy>>

\* Errors of the versioning step are assigned to an err of the inner block, and
\* so is the error of the quota's admin client: the deferred function, which
\* looks at the outer err, removes nothing.
InnerError(r) == Answer(r, "error")

\* Mutated form of EnableVersioning: its error is only logged.
VersioningTolerated(r) ==
  /\ makerPc[r] = "versioning"
  /\ \/ /\ cur # 0 /\ ApplyTo("versioning")
        /\ Proceed(r, AfterVersioning(makerOpts[r]))
     \/ /\ UNCHANGED bucket
        /\ Proceed(r, AfterVersioning(makerOpts[r]))
  /\ UNCHANGED <<cur, last, makerOpts, created, removedBy>>

EnableVersioning(r) ==
  /\ makerPc[r] = "versioning"
  /\ \E outcome \in Outcomes :
       /\ IF outcome = "fail" THEN UNCHANGED bucket
                              ELSE cur # 0 /\ ApplyTo("versioning")
       /\ IF outcome = "ok" THEN Proceed(r, AfterVersioning(makerOpts[r]))
                            ELSE InnerError(r)
  /\ UNCHANGED <<cur, last, makerOpts, created, removedBy>>

\* The call that sets the quota may fail without consequence.
SetQuota(r) ==
  /\ makerPc[r] = "quota"
  /\ \/ /\ UNCHANGED bucket
        /\ InnerError(r)
     \/ /\ UNCHANGED bucket \/ (cur # 0 /\ ApplyTo("quota"))
        /\ Proceed(r, AfterQuota(makerOpts[r]))
  /\ UNCHANGED <<cur, last, makerOpts, created, removedBy>>

\* MinIO takes a retention rule only for a bucket with object locking. An
\* error goes to the outer err, so the deferred function runs.
SetRetention(r) ==
  /\ makerPc[r] = "retention"
  /\ \E outcome \in Outcomes :
       /\ IF outcome = "fail" THEN UNCHANGED bucket
          ELSE cur # 0 /\ bucket[cur].locking /\ ApplyTo("retention")
       /\ IF outcome = "ok" THEN Answer(r, "ok")
                            ELSE MakerGoto(r, "cleanup") /\ UNCHANGED makerAnswer
  /\ UNCHANGED <<cur, last, makerOpts, created, removedBy>>

\* The deferred removal; its own error is only logged.
Cleanup(r) ==
  /\ makerPc[r] = "cleanup"
  /\ RemoveCurrent(r) \/ UNCHANGED <<cur, removedBy>>
  /\ Answer(r, "error")
  /\ UNCHANGED <<last, bucket, makerOpts, created>>

\* getDeleteBucketResponse.
DeleteBucket(r) ==
  /\ makerPc[r] = "start"
  /\ \/ RemoveCurrent(r) /\ Answer(r, "ok")
     \/ RemoveCurrent(r) /\ Answer(r, "error")
     \/ UNCHANGED <<cur, removedBy>> /\ Answer(r, "error")
  /\ UNCHANGED <<last, bucket, makerOpts, created>>

-----------------------------------------------------------------------------
MakerStep(r) ==
  \/ Create(r)
  \/ EnableVersioning(r)
  \/ SetQuota(r)
  \/ SetRetention(r)
  \/ Cleanup(r)

BucketNext ==
  \/ \E r \in Makers : MakerStep(r)
  \/ \E r \in Deleters : DeleteBucket(r)
  \/ PutObject

BucketSpec == BucketInit /\ [][BucketNext]_bucketVars

-----------------------------------------------------------------------------
(* Properties. *)

\* A bucket answered "created" and still there is complete: versioned and
\* locked as asked for or as retention requires, with its retention rule,
\* whatever other requests for the same name did meanwhile.
SuccessIsComplete ==
  \A r \in Makers :
    LET b == bucket[created[r]]
    IN  makerAnswer[r] = "ok" /\ cur # 0 /\ cur = created[r] =>
          /\ makerOpts[r].versioning => b.versioning
          /\ makerOpts[r].locking => b.locking
          /\ makerOpts[r].retention => b.retention /\ b.locking /\ b.versioning

\* A request whose creation was refused, because the bucket was someone else's
\* or the name was taken, never removes a bucket.
RefusedRemovesNothing ==
  \A r \in Makers, i \in Incs : removedBy[i] = r => created[r] # 0

\* Nobody's request to delete the bucket has removed it so far.
NobodyDeleted == \A i \in Incs : removedBy[i] \notin Deleters

\* Unless someone deletes buckets meanwhile, the removal takes the very bucket
\* the request created, not one of the same name made by another request.
RemovesItsOwn ==
  NobodyDeleted => \A r \in Makers, i \in Incs : removedBy[i] = r => created[r] = i

\* What the comment of the deferred function says ("make sure to delete bucket
\* if an error occurs after bucket was created"): a request that goes on after
\* its creation answers with an error only once it has tried the removal.
FailedMakeTriesRemoval ==
  [][\A r \in Makers :
       makerAnswer[r] = "none" /\ makerAnswer'[r] = "error" => makerPc[r] \in {"start", "cleanup"}]_bucketVars
=============================================================================
