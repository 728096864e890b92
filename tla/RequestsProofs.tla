----------------------------- MODULE RequestsProofs -----------------------------
(***************************************************************************)
(* Proofs about the requests of MCRequests, for any number of them at      *)
(* once: MakeBucket, what each removal of a bucket may take away and what  *)
(* a success leaves; UserGroups, that no group is lost, that a success has *)
(* made the whole change, and that requests that agree get what they want. *)
(***************************************************************************)
EXTENDS MCRequests, TLAPS

-----------------------------------------------------------------------------
(* MakeBucket. *)

\* The steps a maker takes once it has created the bucket.
Settings == {"versioning", "quota", "retention", "cleanup"}

\* A maker has created nothing before it starts, and goes on only once it has.
GoesOnAfterCreate ==
  \A r \in Makers : /\ makerPc[r] = "start" => created[r] = 0
                    /\ makerPc[r] \in Settings => created[r] # 0

\* Incarnations are made one after the other, each by one maker.
CreatedOnce ==
  /\ cur # 0 => cur = last
  /\ \A r \in Makers : created[r] <= last
  /\ \A r, s \in Makers : created[r] = created[s] /\ created[r] # 0 => r = s

\* An incarnation that is there, or still to come, was removed by nobody.
RemovedOnce ==
  \A i \in Incs : i = cur \/ i > last => removedBy[i] = NoOne

\* While nobody deletes, the bucket a maker created is there for as long as
\* the maker is at work on it.
StillThere ==
  NobodyDeleted =>
    \A r \in Makers : makerPc[r] \in Settings => cur = created[r]

IInv ==
  /\ BucketTypeOK
  /\ GoesOnAfterCreate
  /\ CreatedOnce
  /\ RemovedOnce
  /\ StillThere
  /\ RefusedRemovesNothing
  /\ RemovesItsOwn

LEMMA InitIInv == BucketInit => IInv
  BY MaxIncAssumption, RequestsAssumption, SMTT(30)
  DEF BucketInit, IInv, BucketTypeOK, GoesOnAfterCreate, CreatedOnce, RemovedOnce, StillThere,
      RefusedRemovesNothing, RemovesItsOwn, NobodyDeleted, Settings, Incs, Fresh, Options

-----------------------------------------------------------------------------
(* What a step of one request does to where it is and to its answer.      *)

\* A request moves on to another label or ends with an answer.
Moves(r, labels) ==
  \/ \E l \in labels : makerPc' = [makerPc EXCEPT ![r] = l] /\ makerAnswer' = makerAnswer
  \/ \E a \in {"ok", "error"} :
       /\ makerPc' = [makerPc EXCEPT ![r] = "end"]
       /\ makerAnswer' = [makerAnswer EXCEPT ![r] = a]

\* The part of BucketTypeOK that is about control.
ControlOK ==
  /\ makerPc \in [Makers \cup Deleters -> {"start", "end"} \cup Settings]
  /\ makerAnswer \in [Makers \cup Deleters -> {"none", "ok", "error"}]
  /\ \A r \in Makers \cup Deleters : makerPc[r] = "end" <=> makerAnswer[r] # "none"

LEMMA MovesKeepControl ==
  ASSUME ControlOK, NEW r \in Makers \cup Deleters, makerPc[r] # "end",
         Moves(r, Settings)
  PROVE  ControlOK'
<1>1. CASE \E l \in Settings : makerPc' = [makerPc EXCEPT ![r] = l] /\ makerAnswer' = makerAnswer
  BY <1>1 DEF ControlOK, Settings
<1>2. CASE \E a \in {"ok", "error"} :
             /\ makerPc' = [makerPc EXCEPT ![r] = "end"]
             /\ makerAnswer' = [makerAnswer EXCEPT ![r] = a]
  BY <1>2 DEF ControlOK
<1> QED
  BY <1>1, <1>2 DEF Moves

\* The settings of a bucket keep their type when one of them is set.
BucketOK ==
  bucket \in [Incs -> [versioning : BOOLEAN, locking : BOOLEAN,
                      quota : BOOLEAN, retention : BOOLEAN, empty : BOOLEAN]]

LEMMA ApplyKeepsBucket ==
  ASSUME BucketOK,
         NEW field \in {"versioning", "quota", "retention"}, ApplyTo(field)
  PROVE  BucketOK'
  BY DEF BucketOK, ApplyTo

\* The three steps that set something, alike but for what they set.
SettingStep(r) == EnableVersioning(r) \/ SetQuota(r) \/ SetRetention(r)

LEMMA SettingStepMoves ==
  ASSUME NEW r \in Makers, SettingStep(r)
  PROVE  /\ makerPc[r] \in Settings
         /\ Moves(r, Settings)
         /\ UNCHANGED <<cur, last, makerOpts, created, removedBy>>
<1>1. CASE EnableVersioning(r)
  BY <1>1 DEF EnableVersioning, Proceed, InnerError, Answer, MakerGoto, Moves,
              AfterVersioning, Settings
<1>2. CASE SetQuota(r)
  BY <1>2 DEF SetQuota, Proceed, InnerError, Answer, MakerGoto, Moves,
              AfterQuota, Settings
<1>3. CASE SetRetention(r)
  BY <1>3 DEF SetRetention, Answer, MakerGoto, Moves, Settings
<1> QED
  BY <1>1, <1>2, <1>3 DEF SettingStep

LEMMA SettingStepKeepsBucket ==
  ASSUME BucketOK, NEW r \in Makers, SettingStep(r)
  PROVE  BucketOK'
<1>1. \/ UNCHANGED bucket
      \/ \E field \in {"versioning", "quota", "retention"} : ApplyTo(field)
  BY DEF SettingStep, EnableVersioning, SetQuota, SetRetention
<1> QED
  BY <1>1, ApplyKeepsBucket DEF BucketOK

-----------------------------------------------------------------------------
(* Every step keeps the invariant. *)

\* BucketTypeOK without the parts that have lemmas of their own.
CountersOK ==
  /\ cur \in {0} \cup Incs
  /\ last \in {0} \cup Incs
  /\ makerOpts \in [Makers -> Options]
  /\ created \in [Makers -> {0} \cup Incs]
  /\ removedBy \in [Incs -> Makers \cup Deleters \cup {NoOne}]

LEMMA TypeParts == BucketTypeOK <=> ControlOK /\ BucketOK /\ CountersOK
  BY DEF BucketTypeOK, ControlOK, BucketOK, CountersOK, Settings

LEMMA CreateKeepsIInv ==
  ASSUME IInv, NEW r \in Makers, Create(r)
  PROVE  IInv'
<1>1. Moves(r, Settings) /\ makerPc[r] = "start"
  BY DEF Create, CreateFails, Proceed, AfterCreate, Answer, MakerGoto, Moves, Settings
<1>2. ControlOK'
  BY <1>1, TypeParts, MovesKeepControl DEF IInv
<1>3. CASE UNCHANGED <<cur, last, bucket, created>> /\ CreateFails(r)
  <2>1. makerPc' = [makerPc EXCEPT ![r] = "end"]
    BY <1>3 DEF CreateFails, Answer, MakerGoto
  <2>2. UNCHANGED <<cur, last, bucket, created, makerOpts, removedBy>>
    BY <1>3 DEF Create
  <2>3. BucketOK' /\ CountersOK'
    BY <2>2, TypeParts DEF IInv, BucketOK, CountersOK
  <2>4. GoesOnAfterCreate' /\ CreatedOnce' /\ RemovedOnce'
    BY <2>1, <2>2, TypeParts
    DEF IInv, ControlOK, GoesOnAfterCreate, CreatedOnce, RemovedOnce, Settings
  <2>6. StillThere'
    BY <2>1, <2>2, TypeParts
    DEF IInv, ControlOK, StillThere, NobodyDeleted, Settings
  <2>5. RefusedRemovesNothing' /\ RemovesItsOwn'
    BY <2>2 DEF IInv, RefusedRemovesNothing, RemovesItsOwn, NobodyDeleted
  <2> QED
    BY <1>2, <2>3, <2>4, <2>5, <2>6, TypeParts DEF IInv, BucketTypeOK, ControlOK,
       BucketOK, CountersOK, Settings
<1>4. CASE /\ cur = 0 /\ last < MaxInc
           /\ last' = last + 1
           /\ cur' = last + 1
           /\ bucket' = [bucket EXCEPT ![last + 1] = Fresh(WantsLocking(makerOpts[r]))]
           /\ created' = [created EXCEPT ![r] = last + 1]
  <2>1. last + 1 \in Incs /\ last \in Nat /\ UNCHANGED <<makerOpts, removedBy>>
    BY <1>4, MaxIncAssumption, TypeParts DEF IInv, CountersOK, Incs, Create
  <2>2. CountersOK'
    BY <1>4, <2>1, TypeParts DEF IInv, CountersOK
  <2>3. makerOpts[r].locking \in BOOLEAN /\ makerOpts[r].retention \in BOOLEAN
    BY TypeParts DEF IInv, CountersOK, Options
  <2>4. WantsLocking(makerOpts[r]) \in BOOLEAN
    BY <2>3 DEF WantsLocking
  <2>5. BucketOK'
    BY <1>4, <2>1, <2>4, TypeParts DEF IInv, BucketOK, Fresh
  <2>6. \A s \in Makers : s # r => makerPc'[s] = makerPc[s] /\ created'[s] = created[s]
    BY <1>1, <1>4, TypeParts DEF IInv, Moves, ControlOK, CountersOK
  <2>7. created'[r] = last + 1 /\ \A s \in Makers : created[s] \in Nat
    BY <1>4, TypeParts, MaxIncAssumption DEF IInv, CountersOK, Incs
  <2>8. CreatedOnce'
    BY <1>4, <2>1, <2>6, <2>7 DEF IInv, CreatedOnce
  <2>9. makerPc'[r] # "start"
    BY <1>1, TypeParts DEF IInv, ControlOK, Moves, Settings
  <2>10. GoesOnAfterCreate'
    BY <2>1, <2>6, <2>7, <2>9 DEF IInv, GoesOnAfterCreate
  <2>11. StillThere'
    BY <1>4, <2>1, <2>6, <2>7 DEF IInv, StillThere, NobodyDeleted, GoesOnAfterCreate
  <2>16. RemovedOnce'
    BY <1>4, <2>1, MaxIncAssumption DEF IInv, RemovedOnce, Incs
  <2>12. \A i \in Incs, s \in Makers : removedBy'[i] = s => created[s] # 0
    BY <2>1 DEF IInv, RefusedRemovesNothing
  <2>13. RefusedRemovesNothing'
    BY <2>1, <2>6, <2>7, <2>12 DEF RefusedRemovesNothing
  <2>14. \A i \in Incs : removedBy'[i] # r
    BY <1>1, <2>12 DEF IInv, GoesOnAfterCreate
  <2>15. RemovesItsOwn'
    BY <2>1, <2>6, <2>14 DEF IInv, RemovesItsOwn, NobodyDeleted
  <2> QED
    BY <1>2, <2>2, <2>5, <2>8, <2>10, <2>11, <2>13, <2>15, <2>16, TypeParts
    DEF IInv, BucketTypeOK, ControlOK, BucketOK, CountersOK, Settings
<1> QED
  BY <1>3, <1>4 DEF Create

LEMMA SettingStepKeepsIInv ==
  ASSUME IInv, NEW r \in Makers, SettingStep(r)
  PROVE  IInv'
<1>1. /\ makerPc[r] \in Settings
      /\ Moves(r, Settings)
      /\ UNCHANGED <<cur, last, makerOpts, created, removedBy>>
  BY SettingStepMoves
<1>2. makerPc[r] # "end"
  BY <1>1 DEF Settings
<1>3. ControlOK' /\ BucketOK'
  BY <1>1, <1>2, MovesKeepControl, SettingStepKeepsBucket, TypeParts DEF IInv
<1>4. CountersOK'
  BY <1>1, TypeParts DEF IInv, CountersOK
<1>5. \A s \in Makers : /\ makerPc'[s] \in Settings => makerPc[s] \in Settings
                        /\ makerPc'[s] = "start" => makerPc[s] = "start"
  BY <1>1, TypeParts DEF IInv, ControlOK, Moves, Settings
<1>6. GoesOnAfterCreate' /\ StillThere' /\ CreatedOnce' /\ RemovedOnce'
  BY <1>1, <1>5
  DEF IInv, GoesOnAfterCreate, StillThere, NobodyDeleted, CreatedOnce, RemovedOnce
<1>7. RefusedRemovesNothing' /\ RemovesItsOwn'
  BY <1>1, <1>5 DEF IInv, RefusedRemovesNothing, RemovesItsOwn, NobodyDeleted
<1> QED
  BY <1>3, <1>4, <1>6, <1>7, TypeParts
  DEF IInv, BucketTypeOK, ControlOK, BucketOK, CountersOK, Settings

\* A removal takes away the incarnation there is, and whoever removes it ends.
LEMMA CleanupKeepsIInv ==
  ASSUME IInv, NEW r \in Makers, Cleanup(r)
  PROVE  IInv'
<1>1. /\ makerPc[r] = "cleanup"
      /\ makerPc' = [makerPc EXCEPT ![r] = "end"]
      /\ makerAnswer' = [makerAnswer EXCEPT ![r] = "error"]
      /\ UNCHANGED <<last, bucket, makerOpts, created>>
      /\ \/ cur # 0 /\ removedBy' = [removedBy EXCEPT ![cur] = r] /\ cur' = 0
         \/ UNCHANGED <<cur, removedBy>>
  BY DEF Cleanup, RemoveCurrent, Removable, Answer, MakerGoto
<1>2. ControlOK'
  BY <1>1, TypeParts DEF IInv, ControlOK
<1>3. BucketOK' /\ CountersOK'
  BY <1>1, TypeParts DEF IInv, BucketOK, CountersOK
<1>4. created[r] # 0 /\ (NobodyDeleted => created[r] = cur)
  BY <1>1 DEF IInv, GoesOnAfterCreate, StillThere, Settings
<1>5. \A s \in Makers : /\ s # r => makerPc'[s] = makerPc[s]
                        /\ makerPc'[r] = "end"
  BY <1>1, TypeParts DEF IInv, ControlOK
<1>6. GoesOnAfterCreate' /\ CreatedOnce'
  BY <1>1, <1>5 DEF IInv, GoesOnAfterCreate, CreatedOnce, Settings
<1>8. \A i \in Incs : removedBy'[i] = removedBy[i] \/ (removedBy'[i] = r /\ i = cur)
  BY <1>1, TypeParts DEF IInv, CountersOK
<1>10. NobodyDeleted' => NobodyDeleted
  BY <1>8, RequestsAssumption DEF IInv, RemovedOnce, NobodyDeleted
<1>7. StillThere'
  BY <1>1, <1>4, <1>5, <1>10 DEF IInv, StillThere, CreatedOnce, Settings
<1>11. RemovedOnce'
  BY <1>1, <1>8, MaxIncAssumption, TypeParts
  DEF IInv, CountersOK, RemovedOnce, CreatedOnce, Incs
<1>9. RefusedRemovesNothing' /\ RemovesItsOwn'
  BY <1>1, <1>4, <1>8, <1>10 DEF IInv, RefusedRemovesNothing, RemovesItsOwn
<1> QED
  BY <1>2, <1>3, <1>6, <1>7, <1>9, <1>11, TypeParts
  DEF IInv, BucketTypeOK, ControlOK, BucketOK, CountersOK, Settings

LEMMA DeleteKeepsIInv ==
  ASSUME IInv, NEW r \in Deleters, DeleteBucket(r)
  PROVE  IInv'
<1>1. /\ makerPc[r] = "start"
      /\ makerPc' = [makerPc EXCEPT ![r] = "end"]
      /\ \E a \in {"ok", "error"} : makerAnswer' = [makerAnswer EXCEPT ![r] = a]
      /\ UNCHANGED <<last, bucket, makerOpts, created>>
      /\ \/ cur # 0 /\ removedBy' = [removedBy EXCEPT ![cur] = r] /\ cur' = 0
         \/ UNCHANGED <<cur, removedBy>>
  BY DEF DeleteBucket, RemoveCurrent, Removable, Answer, MakerGoto
<1>2. ControlOK'
  BY <1>1, TypeParts DEF IInv, ControlOK
<1>3. BucketOK' /\ CountersOK'
  BY <1>1, TypeParts DEF IInv, BucketOK, CountersOK
<1>4. \A s \in Makers : s # r /\ makerPc'[s] = makerPc[s]
  BY <1>1, TypeParts, RequestsAssumption DEF IInv, ControlOK
<1>5. GoesOnAfterCreate' /\ CreatedOnce'
  BY <1>1, <1>4 DEF IInv, GoesOnAfterCreate, CreatedOnce
<1>6. \A i \in Incs, s \in Makers : removedBy'[i] = s => removedBy[i] = s
  BY <1>1, <1>4, TypeParts DEF IInv, CountersOK
<1>8. \A i \in Incs : removedBy'[i] = removedBy[i] \/ (removedBy'[i] = r /\ i = cur)
  BY <1>1, TypeParts DEF IInv, CountersOK
<1>9. RemovedOnce'
  BY <1>1, <1>8, MaxIncAssumption, TypeParts
  DEF IInv, CountersOK, RemovedOnce, CreatedOnce, Incs
<1>10. NobodyDeleted' => NobodyDeleted /\ cur' = cur
  BY <1>1, <1>8, TypeParts, RequestsAssumption
  DEF IInv, CountersOK, RemovedOnce, NobodyDeleted
<1>11. StillThere'
  BY <1>1, <1>4, <1>10 DEF IInv, StillThere
<1>7. RefusedRemovesNothing' /\ RemovesItsOwn'
  BY <1>1, <1>6, <1>10 DEF IInv, RefusedRemovesNothing, RemovesItsOwn
<1> QED
  BY <1>2, <1>3, <1>5, <1>7, <1>9, <1>11, TypeParts
  DEF IInv, BucketTypeOK, ControlOK, BucketOK, CountersOK, Settings

LEMMA PutObjectKeepsIInv == IInv /\ PutObject => IInv'
<1> SUFFICES ASSUME IInv, PutObject PROVE IInv'
  OBVIOUS
<1>1. BucketOK'
  BY TypeParts DEF IInv, BucketOK, PutObject
<1>2. UNCHANGED <<cur, last, makerOpts, makerPc, makerAnswer, created, removedBy>>
  BY DEF PutObject
<1>3. ControlOK' /\ CountersOK'
  BY <1>2, TypeParts DEF IInv, ControlOK, CountersOK
<1>4. GoesOnAfterCreate' /\ CreatedOnce' /\ RemovedOnce' /\ StillThere'
  BY <1>2
  DEF IInv, GoesOnAfterCreate, CreatedOnce, RemovedOnce, StillThere, NobodyDeleted
<1>5. RefusedRemovesNothing' /\ RemovesItsOwn'
  BY <1>2 DEF IInv, RefusedRemovesNothing, RemovesItsOwn, NobodyDeleted
<1> QED
  BY <1>1, <1>3, <1>4, <1>5, TypeParts
  DEF IInv, BucketTypeOK, ControlOK, BucketOK, CountersOK, Settings

LEMMA StepKeepsIInv == IInv /\ [BucketNext]_bucketVars => IInv'
<1> SUFFICES ASSUME IInv, [BucketNext]_bucketVars PROVE IInv'
  OBVIOUS
<1>1. CASE \E r \in Makers : MakerStep(r)
  BY <1>1, CreateKeepsIInv, SettingStepKeepsIInv, CleanupKeepsIInv
  DEF MakerStep, SettingStep
<1>2. CASE \E r \in Deleters : DeleteBucket(r)
  BY <1>2, DeleteKeepsIInv
<1>3. CASE PutObject
  BY <1>3, PutObjectKeepsIInv
<1>4. CASE UNCHANGED bucketVars
  BY <1>4 DEF bucketVars, IInv, BucketTypeOK, GoesOnAfterCreate, CreatedOnce, RemovedOnce,
     StillThere, RefusedRemovesNothing, RemovesItsOwn, NobodyDeleted
<1> QED
  BY <1>1, <1>2, <1>3, <1>4 DEF BucketNext

\* Theorem: the strengthened invariant holds in every reachable state of
\* getMakeBucketResponse and getDeleteBucketResponse.
THEOREM Inductive == BucketSpec => []IInv
  BY InitIInv, StepKeepsIInv, PTL DEF BucketSpec

\* Theorem: every variable keeps its type, and a request has an answer exactly
\* when it has ended.
THEOREM TypeCorrect == BucketSpec => []BucketTypeOK
<1>1. IInv => BucketTypeOK
  BY DEF IInv
<1> QED
  BY <1>1, Inductive, PTL

\* Theorem: a request whose creation was refused never removes a bucket.
THEOREM RefusedIsHarmless == BucketSpec => []RefusedRemovesNothing
<1>1. IInv => RefusedRemovesNothing
  BY DEF IInv
<1> QED
  BY <1>1, Inductive, PTL

\* Theorem: while nobody deletes, the deferred removal takes only the bucket
\* the request itself created.
THEOREM RemovalIsOwn == BucketSpec => []RemovesItsOwn
<1>1. IInv => RemovesItsOwn
  BY DEF IInv
<1> QED
  BY <1>1, Inductive, PTL

-----------------------------------------------------------------------------
(* What an incarnation has, while it is there, of what its maker wants. *)

HasVersioning(r) == WantsVersioning(makerOpts[r]) => bucket[cur].versioning = TRUE

CompleteSoFar ==
  \A r \in Makers : cur # 0 /\ cur = created[r] =>
    /\ WantsLocking(makerOpts[r]) => bucket[cur].locking = TRUE
    /\ makerPc[r] \in {"quota", "retention"} \/ makerAnswer[r] = "ok" => HasVersioning(r)
    /\ makerAnswer[r] = "ok" => (makerOpts[r].retention => bucket[cur].retention = TRUE)

\* What is set stays set.
SettingsStay ==
  \A i \in Incs :
    /\ bucket[i].versioning = TRUE => bucket'[i].versioning = TRUE
    /\ bucket[i].locking = TRUE => bucket'[i].locking = TRUE
    /\ bucket[i].retention = TRUE => bucket'[i].retention = TRUE

LEMMA ApplyKeepsSettings ==
  ASSUME BucketOK, NEW field \in {"versioning", "quota", "retention"}, ApplyTo(field)
  PROVE  SettingsStay
  BY DEF BucketOK, ApplyTo, SettingsStay

LEMMA SettingStepKeepsSettings ==
  ASSUME BucketOK, NEW r \in Makers, SettingStep(r)
  PROVE  SettingsStay
<1>1. CASE UNCHANGED bucket
  BY <1>1 DEF SettingsStay
<1>2. CASE \E field \in {"versioning", "quota", "retention"} : ApplyTo(field)
  BY <1>2, ApplyKeepsSettings
<1> QED
  BY <1>1, <1>2 DEF SettingStep, EnableVersioning, SetQuota, SetRetention

\* A maker that goes on has the versioning it wants, one that is through its
\* retention rule too.
LEMMA SettingStepCompletes ==
  ASSUME IInv, CompleteSoFar, NEW r \in Makers, SettingStep(r), cur # 0, cur = created[r]
  PROVE  /\ makerPc'[r] \in {"quota", "retention"} \/ makerAnswer'[r] = "ok" => HasVersioning(r)'
         /\ makerAnswer'[r] = "ok" => (makerOpts[r].retention => bucket'[cur].retention = TRUE)
<1>1. ControlOK /\ BucketOK /\ CountersOK /\ UNCHANGED <<cur, makerOpts>> /\ cur \in Incs
  BY SettingStepMoves, TypeParts DEF IInv, CountersOK
<1>2. makerPc[r] \in Settings /\ makerAnswer[r] = "none"
  BY SettingStepMoves, <1>1 DEF ControlOK, Settings
<1>3. SettingsStay
  BY <1>1, SettingStepKeepsSettings
<1>4. CASE EnableVersioning(r)
  <2>1. PICK outcome \in Outcomes :
          /\ IF outcome = "fail" THEN UNCHANGED bucket ELSE cur # 0 /\ ApplyTo("versioning")
          /\ IF outcome = "ok" THEN Proceed(r, AfterVersioning(makerOpts[r])) ELSE InnerError(r)
    BY <1>4 DEF EnableVersioning
  <2>2. CASE outcome # "ok"
    BY <1>1, <2>1, <2>2 DEF InnerError, Answer, MakerGoto, ControlOK
  <2>3. CASE outcome = "ok"
    <3>1. bucket'[cur].versioning = TRUE
      BY <1>1, <2>1, <2>3 DEF ApplyTo, BucketOK
    <3>2. makerAnswer'[r] = "ok" => ~makerOpts[r].retention
      BY <1>1, <1>2, <2>1, <2>3 DEF Proceed, Answer, MakerGoto, AfterVersioning, ControlOK
    <3> QED BY <1>1, <3>1, <3>2 DEF HasVersioning
  <2> QED BY <2>2, <2>3
<1>5. CASE SetQuota(r)
  <2>1. makerPc[r] = "quota"
    BY <1>5 DEF SetQuota
  <2>2. HasVersioning(r)
    BY <2>1 DEF CompleteSoFar
  <2>3. HasVersioning(r)'
    BY <1>1, <1>3, <2>2 DEF HasVersioning, SettingsStay
  <2>4. makerAnswer'[r] = "ok" => ~makerOpts[r].retention
    BY <1>1, <1>2, <1>5 DEF SetQuota, InnerError, Proceed, Answer, MakerGoto, AfterQuota, ControlOK
  <2> QED BY <2>3, <2>4
<1>6. CASE SetRetention(r)
  <2>1. makerPc[r] = "retention"
    BY <1>6 DEF SetRetention
  <2>2. HasVersioning(r)
    BY <2>1 DEF CompleteSoFar
  <2>3. HasVersioning(r)'
    BY <1>1, <1>3, <2>2 DEF HasVersioning, SettingsStay
  <2>4. makerAnswer'[r] = "ok" => ApplyTo("retention")
    BY <1>1, <1>2, <1>6 DEF SetRetention, Answer, MakerGoto, ControlOK
  <2>5. ApplyTo("retention") => bucket'[cur].retention = TRUE
    BY <1>1 DEF ApplyTo, BucketOK
  <2> QED BY <2>3, <2>4, <2>5
<1> QED
  BY <1>4, <1>5, <1>6 DEF SettingStep

LEMMA SettingStepKeepsComplete ==
  ASSUME IInv, CompleteSoFar, NEW r \in Makers, SettingStep(r)
  PROVE  CompleteSoFar'
<1>1. ControlOK /\ BucketOK /\ CountersOK /\ UNCHANGED <<cur, makerOpts, created>> /\ SettingsStay
  BY SettingStepMoves, SettingStepKeepsSettings, TypeParts DEF IInv
<1>2. SUFFICES ASSUME NEW q \in Makers, cur # 0, cur = created[q]
               PROVE  /\ WantsLocking(makerOpts[q]) => bucket'[cur].locking = TRUE
                      /\ makerPc'[q] \in {"quota", "retention"} \/ makerAnswer'[q] = "ok" => HasVersioning(q)'
                      /\ makerAnswer'[q] = "ok" => (makerOpts[q].retention => bucket'[cur].retention = TRUE)
  BY <1>1 DEF CompleteSoFar
<1>3. cur \in Incs
  BY <1>1, <1>2 DEF CountersOK
<1>4. WantsLocking(makerOpts[q]) => bucket'[cur].locking = TRUE
  BY <1>1, <1>2, <1>3 DEF CompleteSoFar, SettingsStay
<1>5. CASE q = r
  BY <1>2, <1>4, <1>5, SettingStepCompletes
<1>6. CASE q # r
  <2>1. makerPc'[q] = makerPc[q] /\ makerAnswer'[q] = makerAnswer[q]
    BY <1>1, <1>6, SettingStepMoves DEF Moves, ControlOK
  <2>2. HasVersioning(q) => HasVersioning(q)'
    BY <1>1, <1>3 DEF HasVersioning, SettingsStay
  <2>3. bucket[cur].retention = TRUE => bucket'[cur].retention = TRUE
    BY <1>1, <1>3 DEF SettingsStay
  <2> QED BY <1>2, <1>4, <2>1, <2>2, <2>3, Zenon DEF CompleteSoFar
<1> QED
  BY <1>5, <1>6

\* A new incarnation is its maker's; what another made before is there no more.
LEMMA CreateKeepsComplete ==
  ASSUME IInv, CompleteSoFar, NEW r \in Makers, Create(r)
  PROVE  CompleteSoFar'
<1>0. ControlOK /\ BucketOK /\ CountersOK /\ makerPc[r] = "start" /\ makerAnswer[r] = "none"
  BY TypeParts DEF IInv, Create, ControlOK
<1>1. CASE UNCHANGED <<cur, last, bucket, created>> /\ CreateFails(r)
  <2>1. /\ makerPc' = [makerPc EXCEPT ![r] = "end"] /\ makerAnswer' = [makerAnswer EXCEPT ![r] = "error"]
        /\ UNCHANGED <<cur, bucket, created, makerOpts>>
    BY <1>1 DEF Create, CreateFails, Answer, MakerGoto
  <2>2. created[r] = 0
    BY <1>0 DEF IInv, GoesOnAfterCreate
  <2>3. \A q \in Makers : q # r => makerPc'[q] = makerPc[q] /\ makerAnswer'[q] = makerAnswer[q]
    BY <1>0, <2>1 DEF ControlOK
  <2> QED BY <2>1, <2>2, <2>3, Zenon DEF CompleteSoFar, HasVersioning
<1>2. ASSUME cur = 0, last < MaxInc, last' = last + 1, cur' = last + 1,
             bucket' = [bucket EXCEPT ![last + 1] = Fresh(WantsLocking(makerOpts[r]))],
             created' = [created EXCEPT ![r] = last + 1],
             Proceed(r, AfterCreate(makerOpts[r])) \/ CreateFails(r)
      PROVE  CompleteSoFar'
  <2>1. last + 1 \in Incs /\ UNCHANGED makerOpts
    BY <1>0, <1>2, MaxIncAssumption DEF CountersOK, Incs, Create
  <2>2. bucket'[last + 1].locking = WantsLocking(makerOpts[r])
    BY <1>0, <1>2, <2>1 DEF BucketOK, Fresh
  <2>3. makerOpts[r] \in Options
    BY <1>0 DEF CountersOK
  <2>4. WantsLocking(makerOpts[r]) => bucket'[last + 1].locking = TRUE
    <3>1. WantsLocking(makerOpts[r]) \in BOOLEAN
      BY <2>3 DEF WantsLocking, Options
    <3> QED BY <2>2, <3>1
  <2>5. makerPc'[r] \in {"quota", "retention"} \/ makerAnswer'[r] = "ok" => ~WantsVersioning(makerOpts[r])
    <3>1. CASE CreateFails(r)
      BY <1>0, <3>1 DEF CreateFails, Answer, MakerGoto, ControlOK
    <3>2. CASE Proceed(r, AfterCreate(makerOpts[r]))
      BY <1>0, <3>2 DEF Proceed, AfterCreate, Answer, MakerGoto, ControlOK
    <3> QED BY <1>2, <3>1, <3>2
  <2>6. makerAnswer'[r] = "ok" => ~makerOpts[r].retention
    BY <2>5 DEF WantsVersioning
  <2>7. \A q \in Makers : q # r => created'[q] # cur'
    BY <1>0, <1>2, MaxIncAssumption DEF IInv, CreatedOnce, CountersOK, Incs
  <2> QED BY <1>2, <2>1, <2>4, <2>5, <2>6, <2>7, Zenon DEF CompleteSoFar, HasVersioning
<1> QED
  BY <1>1, <1>2 DEF Create

LEMMA CleanupKeepsComplete ==
  ASSUME IInv, CompleteSoFar, NEW r \in Makers, Cleanup(r)
  PROVE  CompleteSoFar'
<1>0. ControlOK
  BY TypeParts DEF IInv
<1>1. /\ UNCHANGED <<bucket, created, makerOpts>> /\ (cur' = 0 \/ cur' = cur)
      /\ \A q \in Makers : q # r => makerPc'[q] = makerPc[q] /\ makerAnswer'[q] = makerAnswer[q]
  BY <1>0 DEF Cleanup, RemoveCurrent, Answer, MakerGoto, ControlOK
<1>2. makerPc'[r] = "end" /\ makerAnswer'[r] = "error"
  BY <1>0 DEF Cleanup, Answer, MakerGoto, ControlOK
<1> QED
  BY <1>1, <1>2, Zenon DEF CompleteSoFar, HasVersioning

LEMMA DeleteKeepsComplete ==
  ASSUME IInv, CompleteSoFar, NEW r \in Deleters, DeleteBucket(r)
  PROVE  CompleteSoFar'
<1>0. ControlOK /\ \A q \in Makers : q # r
  BY TypeParts, RequestsAssumption DEF IInv
<1>1. /\ UNCHANGED <<bucket, created, makerOpts>> /\ (cur' = 0 \/ cur' = cur)
      /\ \A q \in Makers : makerPc'[q] = makerPc[q] /\ makerAnswer'[q] = makerAnswer[q]
  BY <1>0 DEF DeleteBucket, RemoveCurrent, Answer, MakerGoto, ControlOK
<1> QED
  BY <1>1, Zenon DEF CompleteSoFar, HasVersioning

LEMMA StepKeepsComplete == IInv /\ CompleteSoFar /\ [BucketNext]_bucketVars => CompleteSoFar'
<1> SUFFICES ASSUME IInv, CompleteSoFar, [BucketNext]_bucketVars PROVE CompleteSoFar'
  OBVIOUS
<1>1. ASSUME NEW r \in Makers, MakerStep(r) PROVE CompleteSoFar'
  <2>1. CASE Cleanup(r)
    BY <2>1, CleanupKeepsComplete
  <2> QED BY <1>1, <2>1, CreateKeepsComplete, SettingStepKeepsComplete DEF MakerStep, SettingStep
<1>2. ASSUME NEW r \in Deleters, DeleteBucket(r) PROVE CompleteSoFar'
  BY <1>2, DeleteKeepsComplete
<1>3. CASE PutObject
  <2>1. /\ UNCHANGED <<cur, makerOpts, makerPc, makerAnswer, created>>
        /\ cur \in Incs => bucket'[cur].versioning = bucket[cur].versioning
                           /\ bucket'[cur].locking = bucket[cur].locking
                           /\ bucket'[cur].retention = bucket[cur].retention
    BY <1>3, TypeParts DEF IInv, BucketOK, PutObject
  <2>2. cur # 0 => cur \in Incs
    BY TypeParts DEF IInv, CountersOK
  <2> QED BY <2>1, <2>2, Zenon DEF CompleteSoFar, HasVersioning
<1>4. CASE UNCHANGED bucketVars
  BY <1>4 DEF bucketVars, CompleteSoFar, HasVersioning
<1> QED
  BY <1>1, <1>2, <1>3, <1>4 DEF BucketNext

\* Theorem: a bucket answered "created" and still there has the versioning, the
\* locking and the retention rule that were asked for (getMakeBucketResponse).
THEOREM SuccessComplete == BucketSpec => []SuccessIsComplete
<1>1. BucketInit => CompleteSoFar
  BY DEF BucketInit, CompleteSoFar
<1>2. IInv /\ CompleteSoFar => SuccessIsComplete
  <2> SUFFICES ASSUME IInv, CompleteSoFar, NEW r \in Makers,
                      makerAnswer[r] = "ok", cur # 0, cur = created[r]
               PROVE  /\ makerOpts[r].versioning => bucket[created[r]].versioning
                      /\ makerOpts[r].locking => bucket[created[r]].locking
                      /\ makerOpts[r].retention => /\ bucket[created[r]].retention
                                                   /\ bucket[created[r]].locking
                                                   /\ bucket[created[r]].versioning
    BY DEF SuccessIsComplete
  <2> QED BY Zenon DEF CompleteSoFar, HasVersioning, WantsVersioning, WantsLocking
<1> QED
  BY <1>1, <1>2, Inductive, StepKeepsComplete, PTL DEF BucketSpec

-----------------------------------------------------------------------------
(* UserGroups: what MinIO's calls leave. *)

\* MinIO may have s after a call: no group is lost.
LosesNoGroup(s) == s \in IAM /\ iam.groups \subseteq s.groups

LEMMA UserCallsLoseNoGroup ==
  ASSUME iam \in IAM, NEW u \in Users
  PROVE  /\ LosesNoGroup(AddUser(u).iam) /\ LosesNoGroup(RemoveUser(u).iam)
         /\ \A on \in BOOLEAN : LosesNoGroup(SetUserStatus(u, on).iam)
         /\ \A ps \in SUBSET Policies : LosesNoGroup(SetPolicy(u, ps).iam)
<1>1. LosesNoGroup(AddUser(u).iam)
  BY DEF IAM, LosesNoGroup, AddUser, Accepted
<1>2. LosesNoGroup(RemoveUser(u).iam)
  BY DEF IAM, LosesNoGroup, RemoveUser, Accepted
<1>3. ASSUME NEW on \in BOOLEAN PROVE LosesNoGroup(SetUserStatus(u, on).iam)
  BY DEF IAM, LosesNoGroup, SetUserStatus, Accepted
<1>4. ASSUME NEW ps \in SUBSET Policies PROVE LosesNoGroup(SetPolicy(u, ps).iam)
  BY DEF IAM, LosesNoGroup, SetPolicy, Accepted
<1> QED
  BY <1>1, <1>2, <1>3, <1>4

LEMMA GroupCallsLoseNoGroup ==
  ASSUME iam \in IAM, NEW g \in Groups
  PROVE  /\ \A us \in SUBSET Users : LosesNoGroup(AddMembers(g, us).iam)
         /\ \A us : us # {} => LosesNoGroup(RemoveMembers(g, us).iam)
         /\ \A on \in BOOLEAN : LosesNoGroup(SetGroupStatus(g, on).iam)
         /\ \A ps \in SUBSET Policies : LosesNoGroup(SetGroupPolicy(g, ps).iam)
<1>1. ASSUME NEW us \in SUBSET Users PROVE LosesNoGroup(AddMembers(g, us).iam)
  BY DEF IAM, LosesNoGroup, AddMembers, Accepted
<1>2. ASSUME NEW us, us # {} PROVE LosesNoGroup(RemoveMembers(g, us).iam)
  BY <1>2 DEF IAM, LosesNoGroup, RemoveMembers, Accepted
<1>3. ASSUME NEW on \in BOOLEAN PROVE LosesNoGroup(SetGroupStatus(g, on).iam)
  BY DEF IAM, LosesNoGroup, SetGroupStatus, Accepted
<1>4. ASSUME NEW ps \in SUBSET Policies PROVE LosesNoGroup(SetGroupPolicy(g, ps).iam)
  BY DEF IAM, LosesNoGroup, SetGroupPolicy, Accepted
<1> QED
  BY <1>1, <1>2, <1>3, <1>4

\* Removing nobody takes the group away, and no other.
LEMMA RemovingNobody ==
  ASSUME iam \in IAM, NEW g \in Groups
  PROVE  /\ RemoveMembers(g, {}).iam \in IAM
         /\ iam.groups \ RemoveMembers(g, {}).iam.groups \subseteq {g}
  BY DEF IAM, RemoveMembers, Accepted

\* After a call, whether it succeeded or not, MinIO has what the call leaves or
\* what it had before.
LEMMA AfterCall ==
  ASSUME iam \in IAM, NEW r \in Requests, NEW c, CallOK(r, c) \/ CallFails(r, c)
  PROVE  /\ iam' = iam \/ iam' = c.iam
         /\ alone' \in [Requests -> BOOLEAN]
  BY DEF CallOK, CallFails, Disturb

LEMMA SafeCall ==
  ASSUME iam \in IAM, NEW r \in Requests, NEW c, LosesNoGroup(c.iam),
         CallOK(r, c) \/ CallFails(r, c)
  PROVE  LosesNoGroup(iam') /\ alone' \in [Requests -> BOOLEAN]
  BY AfterCall DEF LosesNoGroup

-----------------------------------------------------------------------------
(* UserGroups: where the requests are. *)

\* The goroutines of a request are about groups; members are taken out of a
\* group only when there are any to take out.
CallsAreMeant ==
  \A r \in Requests : /\ pc[r] = "groups" => todo[r] \subseteq Groups
                      /\ pc[r] = "remove" => ToDelete(r) # {}

GroupsIInv == GroupsTypeOK /\ CallsAreMeant

Labels == {"userInfo", "groups", "verify", "policy", "remove", "add", "status", "entities"}

\* A request goes on, ends, or stays where it is.
GoesOn(r) ==
  \/ \E l \in Labels : Goto(r, l)
  \/ \E a \in {"ok", "error"} : Finish(r, a)
  \/ UNCHANGED <<pc, answer>>

LEMMA JobTypes ==
  ASSUME GroupsTypeOK, NEW r \in Requests
  PROVE  /\ job[r].kind \in Kinds /\ job[r].user \in Users /\ job[r].group \in Groups
         /\ job[r].groups \subseteq Groups /\ job[r].users \subseteq Users
         /\ job[r].policies \subseteq Policies /\ job[r].enabled \in BOOLEAN
<1>1. job[r] \in Job
  BY JobsAssumption DEF GroupsTypeOK
<1> QED
  BY <1>1 DEF Job

LEMMA StepKeepsGroups ==
  ASSUME GroupsIInv, NEW r \in Requests, pc[r] # "done", GoesOn(r),
         iam' \in IAM, alone' \in [Requests -> BOOLEAN], UNCHANGED job,
         origin' \in [Requests -> (SUBSET Groups) \cup (SUBSET Users)],
         was' \in [Requests -> BOOLEAN],
         todo' \in [Requests -> SUBSET (Users \cup Groups)],
         failed' \in [Requests -> BOOLEAN],
         \A q \in Requests \ {r} : todo'[q] = todo[q] /\ origin'[q] = origin[q],
         pc'[r] = "groups" => todo'[r] \subseteq Groups,
         pc'[r] = "remove" => ToDelete(r)' # {}
  PROVE  GroupsIInv'
<1>1. /\ pc \in [Requests -> Labels \cup {"start", "done"}]
      /\ answer \in [Requests -> {"none", "ok", "error"}]
      /\ \A q \in Requests : pc[q] = "done" <=> answer[q] # "none"
  BY DEF GroupsIInv, GroupsTypeOK, Labels
<1>2. /\ pc' \in [Requests -> Labels \cup {"start", "done"}]
      /\ answer' \in [Requests -> {"none", "ok", "error"}]
      /\ \A q \in Requests : pc'[q] = "done" <=> answer'[q] # "none"
      /\ \A q \in Requests \ {r} : pc'[q] = pc[q]
  <2>1. CASE \E l \in Labels : Goto(r, l)
    BY <1>1, <2>1 DEF Goto, Labels
  <2>2. CASE \E a \in {"ok", "error"} : Finish(r, a)
    BY <1>1, <2>2 DEF Finish
  <2>3. CASE UNCHANGED <<pc, answer>>
    BY <1>1, <2>3
  <2> QED BY <2>1, <2>2, <2>3 DEF GoesOn
<1>3. GroupsTypeOK'
  BY <1>2 DEF GroupsIInv, GroupsTypeOK, Labels
<1>4. CallsAreMeant'
  BY <1>2 DEF GroupsIInv, CallsAreMeant, ToDelete
<1> QED
  BY <1>3, <1>4 DEF GroupsIInv

\* The other variables as they were.
LEMMA CallKeepsGroups ==
  ASSUME GroupsIInv, NEW r \in Requests, pc[r] # "done", GoesOn(r),
         iam' \in IAM, alone' \in [Requests -> BOOLEAN],
         UNCHANGED <<job, origin, was, todo, failed>>,
         pc'[r] \notin {"groups", "remove"}
  PROVE  GroupsIInv'
  BY StepKeepsGroups DEF GroupsIInv, GroupsTypeOK

LEMMA GotoMoves ==
  ASSUME GroupsTypeOK, NEW r \in Requests
  PROVE  /\ \A l : Goto(r, l) => pc'[r] = l
         /\ \A a : Finish(r, a) => pc'[r] = "done"
  BY DEF GroupsTypeOK, Goto, Finish

-----------------------------------------------------------------------------
(* UserGroups: each step. *)

Safe == GroupsIInv' /\ iam.groups \subseteq iam'.groups

LEMMA SingleCallSafe ==
  ASSUME GroupsIInv, NEW r \in Requests, pc[r] # "done", NEW c, LosesNoGroup(c.iam),
         SingleCall(r, c)
  PROVE  Safe
<1>1. /\ CallOK(r, c) \/ CallFails(r, c)
      /\ Finish(r, "ok") \/ Finish(r, "error")
      /\ UNCHANGED <<job, origin, was, todo, failed>>
  BY DEF SingleCall
<1>2. LosesNoGroup(iam') /\ alone' \in [Requests -> BOOLEAN]
  BY <1>1, SafeCall DEF GroupsIInv, GroupsTypeOK
<1>3. GoesOn(r) /\ pc'[r] = "done"
  BY <1>1, GotoMoves DEF GoesOn, GroupsIInv
<1> QED
  BY <1>1, <1>2, <1>3, CallKeepsGroups DEF Safe, LosesNoGroup

LEMMA SingleStepSafe ==
  ASSUME GroupsIInv, NEW r \in Requests,
         AddGroup(r) \/ RemoveUserRequest(r) \/ SetUserPolicies(r)
  PROVE  Safe
<1>1. GroupsTypeOK /\ iam \in IAM
  BY DEF GroupsIInv, GroupsTypeOK
<1>2. CASE AddGroup(r)
  BY <1>1, <1>2, JobTypes, GroupCallsLoseNoGroup, SingleCallSafe DEF AddGroup, At
<1>3. CASE RemoveUserRequest(r)
  BY <1>1, <1>3, JobTypes, UserCallsLoseNoGroup, SingleCallSafe DEF RemoveUserRequest, At
<1>4. CASE SetUserPolicies(r)
  BY <1>1, <1>4, JobTypes, UserCallsLoseNoGroup, SingleCallSafe DEF SetUserPolicies
<1> QED
  BY <1>2, <1>3, <1>4

\* The one call that takes a group away.
LEMMA RemoveGroupKeeps ==
  ASSUME GroupsIInv, NEW r \in Requests, RemoveGroup(r)
  PROVE  /\ GroupsIInv'
         /\ iam.groups \ iam'.groups \subseteq {job[r].group}
         /\ job[r].kind = "removeGroup" /\ pc[r] # pc'[r]
<1>1. GroupsTypeOK /\ iam \in IAM /\ pc[r] = "start" /\ job[r].kind = "removeGroup"
  BY DEF GroupsIInv, GroupsTypeOK, RemoveGroup, At
<1> DEFINE c == RemoveMembers(job[r].group, {})
<1>2. c.iam \in IAM /\ iam.groups \ c.iam.groups \subseteq {job[r].group}
  BY <1>1, JobTypes, RemovingNobody
<1>3. /\ CallOK(r, c) \/ CallFails(r, c)
      /\ Finish(r, "ok") \/ Finish(r, "error")
      /\ UNCHANGED <<job, origin, was, todo, failed>>
  BY DEF RemoveGroup, SingleCall
<1> HIDE DEF c
<1>4. (iam' = iam \/ iam' = c.iam) /\ alone' \in [Requests -> BOOLEAN]
  BY <1>1, <1>3, AfterCall
<1>5. GoesOn(r) /\ pc'[r] = "done"
  BY <1>1, <1>3, GotoMoves DEF GoesOn
<1>6. iam' \in IAM /\ iam.groups \ iam'.groups \subseteq {job[r].group}
  BY <1>1, <1>2, <1>4
<1>7. GroupsIInv'
  BY <1>1, <1>3, <1>4, <1>5, <1>6, CallKeepsGroups
<1> QED
  BY <1>1, <1>5, <1>6, <1>7

\* Steps that only read, and go on to a step that is not one of a goroutine.
LEMMA ReadSafe ==
  ASSUME GroupsIInv, NEW r \in Requests,
         RefuseSelf(r) \/ Join(r) \/ GetUserAgain(r) \/ GroupInfoAgain(r)
  PROVE  Safe
<1>1. /\ pc[r] # "done" /\ UNCHANGED <<iam, alone, job, origin, was, todo, failed>>
      /\ \/ \E a \in {"ok", "error"} : Finish(r, a)
         \/ Goto(r, "verify") \/ Goto(r, "policy")
  BY DEF RefuseSelf, Join, GetUserAgain, GroupInfoAgain, ToPolicies, At, Read
<1>2. GoesOn(r) /\ pc'[r] \notin {"groups", "remove"}
  BY <1>1, GotoMoves DEF GoesOn, Labels, GroupsIInv
<1> QED
  BY <1>1, <1>2, CallKeepsGroups DEF Safe, GroupsIInv, GroupsTypeOK

LEMMA FirstCallSafe ==
  ASSUME GroupsIInv, NEW r \in Requests, FirstCall(r)
  PROVE  Safe
<1>1. GroupsTypeOK /\ iam \in IAM
  BY DEF GroupsIInv, GroupsTypeOK
<1> DEFINE c == IF job[r].kind = "addUser" THEN AddUser(job[r].user)
                ELSE SetUserStatus(job[r].user, job[r].enabled)
<1>2. LosesNoGroup(c.iam)
  BY <1>1, JobTypes, UserCallsLoseNoGroup
<1>3. /\ CallOK(r, c) \/ CallFails(r, c)
      /\ UNCHANGED <<job, origin, was, todo, failed>> /\ pc[r] = "start"
      /\ \/ \E a \in {"ok", "error"} : Finish(r, a)
         \/ Goto(r, "userInfo") \/ Goto(r, "policy")
  BY DEF FirstCall, ToPolicies, At
<1> HIDE DEF c
<1>4. LosesNoGroup(iam') /\ alone' \in [Requests -> BOOLEAN]
  BY <1>1, <1>2, <1>3, SafeCall
<1>5. GoesOn(r) /\ pc'[r] \notin {"groups", "remove"}
  BY <1>1, <1>3, GotoMoves DEF GoesOn, Labels
<1> QED
  BY <1>3, <1>4, <1>5, CallKeepsGroups DEF Safe, LosesNoGroup

LEMMA GetUserInfoSafe ==
  ASSUME GroupsIInv, NEW r \in Requests, GetUserInfo(r)
  PROVE  Safe
<1>1. GroupsTypeOK /\ pc[r] # "done" /\ UNCHANGED <<iam, alone, job, was, failed>>
  BY DEF GroupsIInv, GetUserInfo, At, Read
<1>2. CASE Finish(r, "error") /\ UNCHANGED <<origin, todo>>
  BY <1>1, <1>2, GotoMoves, CallKeepsGroups DEF Safe, GoesOn, GroupsTypeOK
<1>3. CASE /\ origin' = [origin EXCEPT ![r] = MemberOf(job[r].user)]
           /\ todo' = [todo EXCEPT ![r] = TasksOf(r)]
           /\ Goto(r, "groups")
  <2>1. MemberOf(job[r].user) \subseteq Groups /\ TasksOf(r) \subseteq Groups
    BY <1>1, JobTypes DEF MemberOf, TasksOf
  <2>2. origin' \in [Requests -> (SUBSET Groups) \cup (SUBSET Users)]
    BY <1>1, <1>3, <2>1 DEF GroupsTypeOK
  <2>3. todo' \in [Requests -> SUBSET (Users \cup Groups)]
    BY <1>1, <1>3, <2>1 DEF GroupsTypeOK
  <2>4. \A q \in Requests \ {r} : todo'[q] = todo[q] /\ origin'[q] = origin[q]
    BY <1>1, <1>3 DEF GroupsTypeOK
  <2>5. GoesOn(r) /\ pc'[r] = "groups" /\ todo'[r] \subseteq Groups
    BY <1>1, <1>3, <2>1, GotoMoves DEF GoesOn, Labels, GroupsTypeOK
  <2> QED
    BY <1>1, <2>2, <2>3, <2>4, <2>5, StepKeepsGroups DEF Safe, GroupsTypeOK
<1> QED
  BY <1>2, <1>3 DEF GetUserInfo

LEMMA TasksStartSafe ==
  ASSUME GroupsIInv, NEW r \in Requests, BulkAdd(r) \/ ForEntities(r)
  PROVE  Safe
<1>1. GroupsTypeOK /\ pc[r] # "done" /\ UNCHANGED <<iam, alone, job, origin, was, failed>>
  BY DEF GroupsIInv, BulkAdd, ForEntities, At, Read
<1>2. PICK S : /\ todo' = [todo EXCEPT ![r] = S] /\ S \subseteq Users \cup Groups
               /\ \/ Goto(r, "groups") /\ S \subseteq Groups
                  \/ Goto(r, "entities") \/ Finish(r, "ok")
  <2>1. CASE BulkAdd(r)
    BY <1>1, <2>1, JobTypes DEF BulkAdd
  <2>2. CASE ForEntities(r)
    BY <1>1, <2>2, JobTypes DEF ForEntities
  <2> QED BY <2>1, <2>2
<1>3. /\ todo' \in [Requests -> SUBSET (Users \cup Groups)] /\ todo'[r] = S
      /\ \A q \in Requests \ {r} : todo'[q] = todo[q]
  BY <1>1, <1>2 DEF GroupsTypeOK
<1>4. GoesOn(r) /\ pc'[r] # "remove" /\ (pc'[r] = "groups" => todo'[r] \subseteq Groups)
  BY <1>1, <1>2, <1>3, GotoMoves DEF GoesOn, Labels
<1> QED
  BY <1>1, <1>3, <1>4, StepKeepsGroups DEF Safe, GroupsTypeOK

LEMMA GroupTaskSafe ==
  ASSUME GroupsIInv, NEW r \in Requests, NEW g \in todo[r], GroupTask(r, g)
  PROVE  Safe
<1>1. /\ GroupsTypeOK /\ iam \in IAM /\ pc[r] = "groups" /\ todo[r] \subseteq Groups /\ g \in Groups
      /\ UNCHANGED <<job, pc, origin, was, answer>>
  BY DEF GroupsIInv, GroupsTypeOK, CallsAreMeant, GroupTask
<1>2. LosesNoGroup(GroupCall(r, g).iam)
  <2>1. LosesNoGroup(AddMembers(g, job[r].users).iam)
    BY <1>1, JobTypes, GroupCallsLoseNoGroup
  <2>2. LosesNoGroup(AddMembers(g, {job[r].user}).iam)
    <3>1. {job[r].user} \in SUBSET Users
      BY <1>1, JobTypes
    <3> QED BY <1>1, <3>1, GroupCallsLoseNoGroup
  <2>3. LosesNoGroup(RemoveMembers(g, {job[r].user}).iam)
    <3>1. {job[r].user} # {}
      OBVIOUS
    <3> QED BY <1>1, <3>1, GroupCallsLoseNoGroup
  <2>4. LosesNoGroup(Accepted(TRUE, iam).iam)
    BY <1>1 DEF LosesNoGroup, Accepted
  <2> QED BY <2>1, <2>2, <2>3, <2>4 DEF GroupCall
<1>3. CallOK(r, GroupCall(r, g)) \/ CallFails(r, GroupCall(r, g))
  BY DEF GroupTask
<1>4. LosesNoGroup(iam') /\ alone' \in [Requests -> BOOLEAN]
  BY <1>1, <1>2, <1>3, SafeCall
<1>5. PICK bad \in BOOLEAN : Report(r, g, bad)
  BY DEF GroupTask
<1>6. /\ todo' \in [Requests -> SUBSET (Users \cup Groups)] /\ todo'[r] \subseteq Groups
      /\ \A q \in Requests \ {r} : todo'[q] = todo[q]
  BY <1>1, <1>5 DEF Report, GroupsTypeOK
<1>7. failed' \in [Requests -> BOOLEAN]
  <2>1. (failed[r] \/ bad) \in BOOLEAN
    OBVIOUS
  <2>2. failed \in [Requests -> BOOLEAN] /\ failed' = [failed EXCEPT ![r] = failed[r] \/ bad]
    BY <1>1, <1>5 DEF GroupsTypeOK, Report
  <2> QED BY <2>1, <2>2
<1>8. GoesOn(r) /\ pc'[r] = "groups"
  BY <1>1 DEF GoesOn
<1> QED
  BY <1>1, <1>4, <1>6, <1>7, <1>8, StepKeepsGroups DEF Safe, LosesNoGroup, GroupsTypeOK

LEMMA SetEntityPolicySafe ==
  ASSUME GroupsIInv, NEW r \in Requests, NEW e \in todo[r], SetEntityPolicy(r, e)
  PROVE  Safe
<1>1. /\ GroupsTypeOK /\ iam \in IAM /\ pc[r] = "entities" /\ e \in Users \cup Groups
      /\ UNCHANGED <<job, origin, was, failed>> /\ todo' = [todo EXCEPT ![r] = @ \ {e}]
      /\ CallOK(r, EntityCall(r, e)) \/ CallFails(r, EntityCall(r, e))
      /\ Finish(r, "ok") \/ Finish(r, "error") \/ Goto(r, "entities")
  BY DEF GroupsIInv, GroupsTypeOK, SetEntityPolicy
<1>2. LosesNoGroup(EntityCall(r, e).iam)
  BY <1>1, JobTypes, UserCallsLoseNoGroup, GroupCallsLoseNoGroup DEF EntityCall
<1>3. LosesNoGroup(iam') /\ alone' \in [Requests -> BOOLEAN]
  BY <1>1, <1>2, SafeCall
<1>4. /\ todo' \in [Requests -> SUBSET (Users \cup Groups)]
      /\ \A q \in Requests \ {r} : todo'[q] = todo[q]
  BY <1>1 DEF GroupsTypeOK
<1>5. GoesOn(r) /\ pc'[r] \notin {"groups", "remove"}
  BY <1>1, GotoMoves DEF GoesOn, Labels
<1> QED
  BY <1>1, <1>3, <1>4, <1>5, StepKeepsGroups DEF Safe, LosesNoGroup, GroupsTypeOK

\* What follows a step of groupUpdate: members are removed only if there are any.
LEMMA UpdateGoesOn ==
  ASSUME GroupsTypeOK, NEW r \in Requests, FromRemove(r) \/ FromAdd(r) \/ FromStatus(r)
  PROVE  GoesOn(r) /\ pc'[r] # "groups" /\ (pc'[r] = "remove" => ToDelete(r)' # {})
<1>1. \/ Goto(r, "remove") /\ ToDelete(r)' # {}
      \/ Goto(r, "add") \/ Goto(r, "status") \/ Goto(r, "verify")
  BY DEF FromRemove, FromAdd, FromStatus, Needed
<1> QED
  BY <1>1, GotoMoves DEF GoesOn, Labels

LEMMA GroupInfoSafe ==
  ASSUME GroupsIInv, NEW r \in Requests, GroupInfo(r)
  PROVE  Safe
<1>1. GroupsTypeOK /\ pc[r] = "start" /\ UNCHANGED <<iam, alone, job, todo, failed>>
  BY DEF GroupsIInv, GroupInfo, At, Read
<1>2. CASE Finish(r, "error") /\ UNCHANGED <<origin, was>>
  BY <1>1, <1>2, GotoMoves, CallKeepsGroups DEF Safe, GoesOn, GroupsTypeOK
<1>3. CASE /\ origin' = [origin EXCEPT ![r] = iam.members[job[r].group]]
           /\ was' = [was EXCEPT ![r] = job[r].group \in iam.active]
           /\ FromRemove(r)
  <2>1. iam.members[job[r].group] \subseteq Users
    BY <1>1, JobTypes DEF GroupsTypeOK, IAM
  <2>2. /\ origin' \in [Requests -> (SUBSET Groups) \cup (SUBSET Users)]
        /\ \A q \in Requests \ {r} : origin'[q] = origin[q]
    BY <1>1, <1>3, <2>1 DEF GroupsTypeOK
  <2>3. was' \in [Requests -> BOOLEAN]
    <3>1. (job[r].group \in iam.active) \in BOOLEAN
      OBVIOUS
    <3> QED BY <1>1, <1>3, <3>1 DEF GroupsTypeOK
  <2> QED
    BY <1>1, <1>3, <2>2, <2>3, UpdateGoesOn, StepKeepsGroups DEF Safe, GroupsTypeOK
<1> QED
  BY <1>2, <1>3 DEF GroupInfo

LEMMA GroupStepSafe ==
  ASSUME GroupsIInv, NEW r \in Requests, pc[r] # "done", NEW c, LosesNoGroup(c.iam),
         UNCHANGED <<job, origin, was, todo, failed>>, CallOK(r, c) \/ CallFails(r, c),
         FromAdd(r) \/ FromStatus(r) \/ Goto(r, "verify") \/ Finish(r, "error")
  PROVE  Safe
<1>1. GroupsTypeOK /\ iam \in IAM
  BY DEF GroupsIInv, GroupsTypeOK
<1>2. LosesNoGroup(iam') /\ alone' \in [Requests -> BOOLEAN]
  BY <1>1, SafeCall
<1>3. Goto(r, "add") \/ Goto(r, "status") \/ Goto(r, "verify") \/ Finish(r, "error")
  BY <1>1 DEF FromAdd, FromStatus
<1>4. GoesOn(r) /\ pc'[r] \notin {"groups", "remove"}
  BY <1>1, <1>3, GotoMoves DEF GoesOn, Labels
<1> QED
  BY <1>1, <1>2, <1>4, CallKeepsGroups DEF Safe, LosesNoGroup

LEMMA GroupUpdateSafe ==
  ASSUME GroupsIInv, NEW r \in Requests, DeleteMembers(r) \/ AddMissingMembers(r) \/ SetStatus(r)
  PROVE  Safe
<1>1. GroupsTypeOK /\ iam \in IAM
  BY DEF GroupsIInv, GroupsTypeOK
<1>2. CASE DeleteMembers(r)
  <2>1. pc[r] = "remove" /\ ToDelete(r) # {}
    BY <1>2 DEF DeleteMembers, GroupsIInv, CallsAreMeant
  <2>2. LosesNoGroup(RemoveMembers(job[r].group, ToDelete(r)).iam)
    BY <1>1, <2>1, JobTypes, GroupCallsLoseNoGroup
  <2> QED BY <1>2, <2>1, <2>2, GroupStepSafe DEF DeleteMembers, GroupStep
<1>3. CASE AddMissingMembers(r)
  <2>1. ToAdd(r) \in SUBSET Users
    BY <1>1, JobTypes DEF ToAdd
  <2>2. LosesNoGroup(AddMembers(job[r].group, ToAdd(r)).iam)
    BY <1>1, <2>1, JobTypes, GroupCallsLoseNoGroup
  <2> QED BY <1>3, <2>2, GroupStepSafe DEF AddMissingMembers, GroupStep
<1>4. CASE SetStatus(r)
  <2>1. LosesNoGroup(SetGroupStatus(job[r].group, job[r].enabled).iam)
    BY <1>1, JobTypes, GroupCallsLoseNoGroup
  <2> QED BY <1>4, <2>1, GroupStepSafe DEF SetStatus, GroupStep
<1> QED
  BY <1>2, <1>3, <1>4

LEMMA StepSafe ==
  ASSUME GroupsIInv, NEW r \in Requests, Step(r)
  PROVE  Safe \/ RemoveGroup(r)
  BY SingleStepSafe, ReadSafe, FirstCallSafe, GetUserInfoSafe, TasksStartSafe, GroupTaskSafe,
     SetEntityPolicySafe, GroupInfoSafe, GroupUpdateSafe DEF Step

LEMMA InitialGroups == GroupsInit => GroupsIInv
<1> SUFFICES ASSUME GroupsInit PROVE GroupsIInv
  OBVIOUS
<1>1. iam \in IAM
  BY DEF GroupsInit, InitialIAM
<1>2. GroupsTypeOK
  BY <1>1 DEF GroupsInit, GroupsStart, GroupsTypeOK
<1>3. CallsAreMeant
  BY DEF GroupsInit, GroupsStart, CallsAreMeant
<1> QED
  BY <1>2, <1>3 DEF GroupsIInv

LEMMA StepKeepsGroupsIInv == GroupsIInv /\ [GroupsNext]_groupVars => GroupsIInv'
<1> SUFFICES ASSUME GroupsIInv, [GroupsNext]_groupVars PROVE GroupsIInv'
  OBVIOUS
<1>1. ASSUME NEW r \in Requests, Step(r) PROVE GroupsIInv'
  BY <1>1, StepSafe, RemoveGroupKeeps DEF Safe
<1>2. CASE UNCHANGED groupVars
  BY <1>2 DEF groupVars, GroupsIInv, GroupsTypeOK, CallsAreMeant, ToDelete
<1> QED
  BY <1>1, <1>2 DEF GroupsNext

LEMMA InductiveGroups == GroupsSpec => []GroupsIInv
  BY InitialGroups, StepKeepsGroupsIInv, PTL DEF GroupsSpec

\* Theorem: every variable of the requests on users and groups keeps its type, and
\* a request is answered exactly when it is over.
THEOREM GroupsTypeCorrect == GroupsSpec => []GroupsTypeOK
<1>1. GroupsIInv => GroupsTypeOK
  BY DEF GroupsIInv
<1> QED
  BY <1>1, InductiveGroups, PTL

\* Theorem: however requests interleave and calls fail, a group goes only with a
\* step of a request to remove that group: groupUpdate and the goroutines of
\* updateUserGroups never make the call that MinIO takes as its removal.
THEOREM GroupsAreKept == GroupsSpec => GroupsStay
<1> DEFINE Removal ==
      \A g \in Groups :
        g \in iam.groups /\ g \notin iam'.groups
        => \E r \in Requests : job[r].kind = "removeGroup" /\ job[r].group = g
                               /\ pc[r] # pc'[r]
<1>1. GroupsIInv /\ [GroupsNext]_groupVars => [Removal]_groupVars
  <2> SUFFICES ASSUME GroupsIInv, NEW r \in Requests, Step(r) PROVE Removal
    BY DEF GroupsNext
  <2>1. CASE Safe
    BY <2>1 DEF Safe
  <2>2. CASE RemoveGroup(r)
    BY <2>2, RemoveGroupKeeps
  <2> QED BY <2>1, <2>2, StepSafe
<1> QED
  BY <1>1, InductiveGroups, PTL DEF GroupsSpec, GroupsStay

-----------------------------------------------------------------------------
(* UserGroups: what a request has left so far, if no other one interfered.  *)

UserKinds == {"addUser", "updateUser", "updateUserGroups"}

\* Which requests get where.
Located(r) ==
  /\ pc[r] = "userInfo" => job[r].kind \in {"addUser", "updateUser"}
  /\ pc[r] = "groups" => job[r].kind \in UserKinds \cup {"bulkAdd"}
  /\ pc[r] = "verify" => job[r].kind \in UserKinds \cup {"groupUpdate"}
  /\ pc[r] = "policy" => job[r].kind = "addUser"
  /\ pc[r] \in {"remove", "add", "status"} => job[r].kind = "groupUpdate"
  /\ pc[r] = "entities" => job[r].kind = "setPolicy"

\* The first call of addUser and updateUser.
UserSoFar(r) ==
  pc[r] \in {"userInfo", "groups", "verify", "policy"} =>
    /\ job[r].kind = "addUser" => job[r].user \in iam.users
    /\ job[r].kind = "updateUser" => (job[r].user \in iam.enabled <=> job[r].enabled)

\* The goroutines that have reported, and those that have not.
TasksSoFar(r) ==
  pc[r] = "groups" /\ ~failed[r] =>
    IF job[r].kind = "bulkAdd"
    THEN \A g \in job[r].groups \ todo[r] : job[r].users \subseteq iam.members[g]
    ELSE \A g \in Groups : job[r].user \in iam.members[g] <=> g \in IF g \in todo[r] THEN origin[r]
                                                                  ELSE job[r].groups

InItsGroups(r) == \A g \in Groups : job[r].user \in iam.members[g] <=> g \in job[r].groups

\* All goroutines of a request for one user.
GroupsSoFar(r) ==
  \/ pc[r] = "verify" /\ job[r].kind # "groupUpdate"
  \/ pc[r] = "policy" /\ job[r].groups # {}
  => InItsGroups(r)

\* The calls of groupUpdate.
UpdateSoFar(r) ==
  LET g == job[r].group
      us == job[r].users IN
  job[r].kind = "groupUpdate" /\ pc[r] \in {"remove", "add", "status", "verify"} =>
    /\ g \in iam.groups
    /\ pc[r] = "remove" => iam.members[g] = origin[r]
    /\ pc[r] = "add" => iam.members[g] = origin[r] \cap us
    /\ pc[r] \in {"status", "verify"} => iam.members[g] = us
    /\ pc[r] \in {"remove", "add", "status"} => (g \in iam.active <=> was[r])
    /\ pc[r] = "verify" => (g \in iam.active <=> job[r].enabled)

\* The entities that have their policy.
EntitiesSoFar(r) ==
  pc[r] = "entities" =>
    /\ \A u \in job[r].users \ todo[r] : iam.policy[u] = job[r].policies
    /\ \A g \in job[r].groups \ todo[r] : g \in iam.mapped <=> job[r].policies # {}

Fits(r) ==
  /\ UserSoFar(r) /\ TasksSoFar(r) /\ GroupsSoFar(r) /\ UpdateSoFar(r) /\ EntitiesSoFar(r)
  /\ answer[r] = "ok" => Applied(r)

SoFar(r) == alone[r] => Fits(r)

AppliedSoFar == \A r \in Requests : Located(r) /\ SoFar(r)

-----------------------------------------------------------------------------
(* A step of one request leaves the others where they are.                   *)

Unmoved(q) ==
  /\ job' = job
  /\ pc'[q] = pc[q] /\ origin'[q] = origin[q] /\ was'[q] = was[q]
  /\ todo'[q] = todo[q] /\ failed'[q] = failed[q] /\ answer'[q] = answer[q]

\* Only what MinIO has without the others' interference counts.
Undisturbed(r) ==
  /\ alone'[r] = alone[r]
  /\ \A q \in Requests \ {r} : alone'[q] => alone[q] /\ (iam' = iam \/ pc[q] = "start")

LEMMA MovesAlone ==
  ASSUME GroupsTypeOK, NEW r \in Requests, NEW q \in Requests \ {r}
  PROVE  /\ \A l : Goto(r, l) => pc'[q] = pc[q] /\ answer'[q] = answer[q]
         /\ \A a : Finish(r, a) => pc'[q] = pc[q] /\ answer'[q] = answer[q]
  BY DEF GroupsTypeOK, Goto, Finish

LEMMA CallsDisturb ==
  ASSUME GroupsTypeOK, NEW r \in Requests
  PROVE  /\ \A c : CallOK(r, c) \/ CallFails(r, c) => Undisturbed(r)
         /\ Read => Undisturbed(r)
<1>1. Disturb(r) => Undisturbed(r)
  BY DEF Disturb, Undisturbed, GroupsTypeOK
<1>2. Read => Undisturbed(r)
  BY DEF Read, Undisturbed
<1> QED
  BY <1>1, <1>2 DEF CallOK, CallFails

LEMMA StepLeaves ==
  ASSUME GroupsTypeOK, NEW r \in Requests, Step(r)
  PROVE  Undisturbed(r) /\ \A q \in Requests \ {r} : Unmoved(q)
<1> DEFINE Moved == \/ \E l : Goto(r, l)
                    \/ \E a : Finish(r, a)
                    \/ UNCHANGED <<pc, answer>>
           Rest == UNCHANGED <<job, origin, was, todo, failed>>
           Own == \A q \in Requests \ {r} : Unmoved(q)
<1>1. ASSUME Moved, Rest PROVE Own
  BY <1>1, MovesAlone DEF Unmoved
<1>2. ASSUME Moved, UNCHANGED <<job, was>>,
             NEW o, NEW t, NEW f, origin' \in {origin, [origin EXCEPT ![r] = o]},
             todo' \in {todo, [todo EXCEPT ![r] = t]}, failed' \in {failed, [failed EXCEPT ![r] = f]}
      PROVE  Own
  BY <1>2, MovesAlone DEF Unmoved, GroupsTypeOK
<1>3. ASSUME NEW c, SingleCall(r, c) PROVE Own /\ Undisturbed(r)
  BY <1>1, <1>3, CallsDisturb DEF SingleCall
<1>4. CASE AddGroup(r) \/ RemoveGroup(r) \/ RemoveUserRequest(r) \/ SetUserPolicies(r)
  BY <1>3, <1>4 DEF AddGroup, RemoveGroup, RemoveUserRequest, SetUserPolicies
<1>5. CASE RefuseSelf(r) \/ Join(r) \/ GetUserAgain(r) \/ GroupInfoAgain(r)
  BY <1>1, <1>5, CallsDisturb DEF RefuseSelf, Join, GetUserAgain, GroupInfoAgain, ToPolicies, Read
<1>6. CASE FirstCall(r)
  BY <1>1, <1>6, CallsDisturb DEF FirstCall, ToPolicies
<1>7. CASE GetUserInfo(r)
  BY <1>2, <1>7, CallsDisturb DEF GetUserInfo
<1>8. CASE BulkAdd(r) \/ ForEntities(r)
  BY <1>2, <1>8, CallsDisturb DEF BulkAdd, ForEntities
<1>9. ASSUME NEW g \in todo[r], GroupTask(r, g) PROVE Own /\ Undisturbed(r)
  BY <1>2, <1>9, CallsDisturb DEF GroupTask, Report
<1>10. ASSUME NEW e \in todo[r], SetEntityPolicy(r, e) PROVE Own /\ Undisturbed(r)
  BY <1>2, <1>10, CallsDisturb DEF SetEntityPolicy
<1>11. FromStatus(r) \/ FromAdd(r) \/ FromRemove(r) => \E l : Goto(r, l)
  BY DEF FromStatus, FromAdd, FromRemove
<1>12. CASE DeleteMembers(r) \/ AddMissingMembers(r) \/ SetStatus(r)
  BY <1>1, <1>11, <1>12, CallsDisturb DEF DeleteMembers, AddMissingMembers, SetStatus, GroupStep
<1>13. CASE GroupInfo(r)
  <2>1. Undisturbed(r)
    BY <1>13, CallsDisturb DEF GroupInfo
  <2>2. PICK o, w : origin' \in {origin, [origin EXCEPT ![r] = o]} /\ was' \in {was, [was EXCEPT ![r] = w]}
    BY <1>13 DEF GroupInfo
  <2>3. Own
    BY <1>11, <1>13, <2>2, MovesAlone DEF GroupInfo, Unmoved, GroupsTypeOK
  <2> QED BY <2>1, <2>3
<1> QED
  BY <1>4, <1>5, <1>6, <1>7, <1>8, <1>9, <1>10, <1>12, <1>13 DEF Step

LEMMA OthersSoFar ==
  ASSUME GroupsTypeOK, NEW q \in Requests, Located(q), SoFar(q), Unmoved(q),
         alone'[q] => alone[q] /\ (iam' = iam \/ pc[q] = "start")
  PROVE  Located(q)' /\ SoFar(q)'
<1>1. Located(q)'
  BY DEF Located, Unmoved
<1>2. CASE pc[q] = "start"
  <2>1. answer[q] # "ok"
    BY <1>2 DEF GroupsTypeOK
  <2> QED BY <1>1, <1>2, <2>1
          DEF SoFar, Fits, Unmoved, UserSoFar, TasksSoFar, GroupsSoFar, UpdateSoFar, EntitiesSoFar
<1>3. CASE iam' = iam /\ alone[q]
  <2>1. UserSoFar(q)' /\ TasksSoFar(q)' /\ GroupsSoFar(q)' /\ UpdateSoFar(q)' /\ EntitiesSoFar(q)'
    BY <1>3
    DEF SoFar, Fits, Unmoved, UserSoFar, TasksSoFar, GroupsSoFar, UpdateSoFar, EntitiesSoFar, InItsGroups
  <2>2. Applied(q)' = Applied(q)
    BY <1>3 DEF Unmoved, Applied, MemberOf
  <2> QED BY <1>1, <1>3, <2>1, <2>2 DEF SoFar, Fits, Unmoved
<1> QED
  BY <1>1, <1>2, <1>3 DEF SoFar

-----------------------------------------------------------------------------
(* What a request's own step leaves.                                         *)

LEMMA StepLocates ==
  ASSUME GroupsTypeOK, NEW r \in Requests, Located(r), Step(r)
  PROVE  Located(r)'
<1>1. ASSUME NEW l, Goto(r, l) PROVE pc'[r] = l
  BY <1>1, GotoMoves
<1>2. ASSUME NEW a, Finish(r, a), UNCHANGED job PROVE Located(r)'
  BY <1>2, GotoMoves DEF Located
<1>3. job[r].kind \in Kinds
  BY JobTypes
<1>4. CASE AddGroup(r) \/ RemoveGroup(r) \/ RemoveUserRequest(r) \/ SetUserPolicies(r) \/ RefuseSelf(r)
  BY <1>2, <1>4 DEF AddGroup, RemoveGroup, RemoveUserRequest, SetUserPolicies, RefuseSelf, SingleCall
<1>5. CASE FirstCall(r)
  BY <1>1, <1>2, <1>5 DEF FirstCall, ToPolicies, At, Located
<1>6. CASE GetUserInfo(r) \/ BulkAdd(r)
  BY <1>1, <1>2, <1>6 DEF GetUserInfo, BulkAdd, At, Located, UserKinds
<1>7. CASE Join(r) \/ GetUserAgain(r)
  BY <1>1, <1>2, <1>7 DEF Join, GetUserAgain, ToPolicies, At, Located, UserKinds
<1>8. FromStatus(r) => Goto(r, "status") \/ Goto(r, "verify")
  BY DEF FromStatus
<1>9. FromAdd(r) \/ FromRemove(r) => Goto(r, "remove") \/ Goto(r, "add") \/ FromStatus(r)
  BY DEF FromAdd, FromRemove
<1>10. CASE GroupInfo(r)
  BY <1>1, <1>2, <1>8, <1>9, <1>10 DEF GroupInfo, At, Located
<1>11. CASE DeleteMembers(r) \/ AddMissingMembers(r) \/ SetStatus(r)
  BY <1>1, <1>2, <1>8, <1>9, <1>11 DEF DeleteMembers, AddMissingMembers, SetStatus, GroupStep, Located
<1>12. CASE GroupInfoAgain(r)
  BY <1>2, <1>12 DEF GroupInfoAgain
<1>13. CASE ForEntities(r)
  BY <1>1, <1>2, <1>13 DEF ForEntities, At, Located
<1>14. ASSUME NEW g \in todo[r], GroupTask(r, g) PROVE Located(r)'
  BY <1>14 DEF GroupTask, Located
<1>15. ASSUME NEW e \in todo[r], SetEntityPolicy(r, e) PROVE Located(r)'
  BY <1>1, <1>2, <1>15 DEF SetEntityPolicy, Located
<1> QED
  BY <1>4, <1>5, <1>6, <1>7, <1>10, <1>11, <1>12, <1>13, <1>14, <1>15 DEF Step

\* A request that ends has to have applied what it asked for, and no more.
LEMMA EndFits ==
  ASSUME GroupsTypeOK, NEW r \in Requests, NEW a, Finish(r, a), a = "ok" => Applied(r)'
  PROVE  Fits(r)'
<1>1. pc'[r] = "done" /\ answer'[r] = a
  BY DEF GroupsTypeOK, Finish
<1> QED
  BY <1>1 DEF Fits, UserSoFar, TasksSoFar, GroupsSoFar, UpdateSoFar, EntitiesSoFar

LEMMA GoesOnTo ==
  ASSUME GroupsTypeOK, NEW r \in Requests, pc[r] # "done", NEW l, Goto(r, l)
  PROVE  pc'[r] = l /\ answer'[r] # "ok"
<1>1. answer[r] = "none"
  BY DEF GroupsTypeOK
<1> QED
  BY <1>1 DEF GroupsTypeOK, Goto

LEMMA SingleStepFits ==
  ASSUME GroupsTypeOK, NEW r \in Requests, Located(r), Fits(r),
         AddGroup(r) \/ RemoveGroup(r) \/ RemoveUserRequest(r) \/ SetUserPolicies(r)
  PROVE  Fits(r)'
<1>1. iam \in IAM /\ pc[r] # "done"
  BY DEF GroupsTypeOK, AddGroup, RemoveGroup, RemoveUserRequest, SetUserPolicies, At
<1>2. /\ job[r].user \in Users /\ job[r].group \in Groups
      /\ job[r].users \subseteq Users /\ job[r].policies \subseteq Policies
  BY JobTypes
<1>3. ASSUME NEW c, SingleCall(r, c), iam' = c.iam /\ job' = job => Applied(r)'
      PROVE  Fits(r)'
  BY <1>3, EndFits DEF SingleCall, CallOK
<1>4. CASE AddGroup(r)
  <2>1. ASSUME iam' = AddMembers(job[r].group, job[r].users).iam, job' = job PROVE Applied(r)'
    BY <1>1, <1>2, <1>4, <2>1 DEF AddGroup, At, AddMembers, Accepted, IAM, Applied
  <2> QED BY <1>3, <1>4, <2>1 DEF AddGroup
<1>5. CASE RemoveGroup(r)
  <2>1. ASSUME iam' = RemoveMembers(job[r].group, {}).iam, job' = job PROVE Applied(r)'
    BY <1>1, <1>2, <1>5, <2>1 DEF RemoveGroup, At, RemoveMembers, Accepted, IAM, Applied
  <2> QED BY <1>3, <1>5, <2>1 DEF RemoveGroup
<1>6. CASE RemoveUserRequest(r)
  <2>1. ASSUME iam' = RemoveUser(job[r].user).iam, job' = job PROVE Applied(r)'
    BY <1>1, <1>2, <1>6, <2>1 DEF RemoveUserRequest, At, RemoveUser, Accepted, IAM, Applied
  <2> QED BY <1>3, <1>6, <2>1 DEF RemoveUserRequest
<1>7. CASE SetUserPolicies(r)
  <2>1. /\ job[r].kind = "addUser" /\ job[r].user \in iam.users
        /\ job[r].groups # {} => InItsGroups(r)
    BY <1>7 DEF SetUserPolicies, Located, Fits, UserSoFar, GroupsSoFar
  <2>2. ASSUME iam' = SetPolicy(job[r].user, job[r].policies).iam, job' = job PROVE Applied(r)'
    <3>1. /\ iam'.users = iam.users /\ iam'.members = iam.members
          /\ iam'.policy[job[r].user] = job[r].policies
      BY <1>1, <1>2, <2>2 DEF SetPolicy, Accepted, IAM
    <3>2. job[r].groups # {} => MemberOf(job[r].user)' = job[r].groups
      BY <2>1, <2>2, <3>1, JobTypes DEF InItsGroups, MemberOf
    <3> QED BY <2>1, <2>2, <3>1, <3>2 DEF Applied
  <2> QED BY <1>3, <1>7, <2>2 DEF SetUserPolicies
<1> QED
  BY <1>4, <1>5, <1>6, <1>7

LEMMA FirstCallFits ==
  ASSUME GroupsTypeOK, NEW r \in Requests, FirstCall(r)
  PROVE  Fits(r)'
<1> DEFINE c == IF job[r].kind = "addUser" THEN AddUser(job[r].user)
                ELSE SetUserStatus(job[r].user, job[r].enabled)
<1>1. /\ iam \in IAM /\ pc[r] = "start" /\ job[r].kind \in {"addUser", "updateUser"} /\ job' = job
      /\ job[r].user \in Users
  BY JobTypes DEF GroupsTypeOK, FirstCall, At
<1>2. CASE CallFails(r, c) /\ Finish(r, "error")
  BY <1>2, EndFits
<1>3. CASE CallOK(r, c)
  <2>1. /\ job[r].kind = "addUser" => job[r].user \in iam'.users
        /\ job[r].kind = "updateUser" => (job[r].user \in iam'.enabled <=> job[r].enabled)
    BY <1>1, <1>3 DEF CallOK, AddUser, SetUserStatus, Accepted, IAM
  <2>2. CASE Goto(r, "userInfo")
    BY <1>1, <2>1, <2>2, GoesOnTo
    DEF Fits, UserSoFar, TasksSoFar, GroupsSoFar, UpdateSoFar, EntitiesSoFar
  <2>3. CASE job[r].kind = "addUser" /\ job[r].groups = {} /\ Goto(r, "policy")
    BY <1>1, <2>1, <2>3, GoesOnTo
    DEF Fits, UserSoFar, TasksSoFar, GroupsSoFar, UpdateSoFar, EntitiesSoFar
  <2>4. CASE job[r].kind = "addUser" /\ job[r].groups = {} /\ job[r].policies = {} /\ Finish(r, "ok")
    <3>1. Applied(r)'
      BY <1>1, <2>1, <2>4 DEF Applied
    <3> QED BY <2>4, <3>1, EndFits
  <2> QED BY <1>2, <2>2, <2>3, <2>4 DEF FirstCall, ToPolicies
<1> QED
  BY <1>2, <1>3 DEF FirstCall

LEMMA TasksStartFits ==
  ASSUME GroupsTypeOK, NEW r \in Requests, Fits(r), GetUserInfo(r) \/ BulkAdd(r)
  PROVE  Fits(r)'
<1>1. UNCHANGED <<iam, job>> /\ pc[r] # "done"
  BY DEF GetUserInfo, BulkAdd, Read, At
<1>2. CASE GetUserInfo(r) /\ Finish(r, "error")
  BY <1>2, EndFits
<1>3. CASE GetUserInfo(r) /\ Goto(r, "groups")
  <2>1. /\ origin' = [origin EXCEPT ![r] = MemberOf(job[r].user)]
        /\ todo' = [todo EXCEPT ![r] = MemberOf(job[r].user) \cup job[r].groups]
        /\ job[r].kind # "bulkAdd"
    BY <1>3, GotoMoves DEF GetUserInfo, TasksOf, At
  <2>2. UserSoFar(r)'
    BY <1>1, <1>3, GoesOnTo DEF Fits, UserSoFar, GetUserInfo, At
  <2>3. \A g \in Groups : job[r].user \in iam.members[g] <=>
                           g \in IF g \in todo'[r] THEN origin'[r] ELSE job[r].groups
    BY <2>1 DEF MemberOf, GroupsTypeOK
  <2>4. TasksSoFar(r)'
    BY <1>1, <2>1, <2>3 DEF TasksSoFar
  <2> QED
    BY <1>1, <1>3, <2>2, <2>4, GoesOnTo DEF Fits, GroupsSoFar, UpdateSoFar, EntitiesSoFar
<1>4. CASE BulkAdd(r)
  BY <1>1, <1>4, GoesOnTo
  DEF BulkAdd, At, GroupsTypeOK, Fits, UserSoFar, TasksSoFar, GroupsSoFar, UpdateSoFar, EntitiesSoFar
<1> QED
  BY <1>2, <1>3, <1>4 DEF GetUserInfo

LEMMA GroupTaskFits ==
  ASSUME GroupsIInv, NEW r \in Requests, Located(r), Fits(r),
         NEW g \in todo[r], GroupTask(r, g)
  PROVE  Fits(r)'
<1>1. /\ GroupsTypeOK /\ iam \in IAM /\ pc[r] = "groups" /\ g \in Groups
      /\ UNCHANGED <<job, pc, origin, answer>> /\ answer[r] = "none"
  BY DEF GroupsIInv, GroupsTypeOK, CallsAreMeant, GroupTask
<1>2. /\ job[r].kind \in UserKinds \cup {"bulkAdd"} /\ job[r].user \in Users
      /\ job[r].groups \subseteq Groups /\ job[r].users \subseteq Users
  BY <1>1, JobTypes DEF Located
<1>3. todo'[r] = todo[r] \ {g}
  BY <1>1 DEF GroupTask, Report, GroupsTypeOK
<1> DEFINE c == GroupCall(r, g)
<1>4. /\ c.iam.users = iam.users /\ c.iam.enabled = iam.enabled
      /\ \A h \in Groups \ {g} : c.iam.members[h] = iam.members[h]
  BY <1>1, <1>2 DEF GroupCall, AddMembers, RemoveMembers, Accepted, IAM
<1>5. CallOK(r, c) \/ CallFails(r, c)
  BY DEF GroupTask
<1>6. UserSoFar(r)'
  <2>1. iam'.users = iam.users /\ iam'.enabled = iam.enabled
    BY <1>4, <1>5 DEF CallOK, CallFails
  <2> QED BY <1>1, <2>1 DEF UserSoFar, Fits
<1>7. TasksSoFar(r)'
  <2>1. SUFFICES ASSUME ~failed'[r] PROVE TasksSoFar(r)'
    BY DEF TasksSoFar
  <2>2. CallOK(r, c) /\ Report(r, g, FALSE)
    <3>1. Report(r, g, TRUE) => failed'[r]
      BY <1>1 DEF Report, GroupsTypeOK
    <3> QED BY <2>1, <3>1 DEF GroupTask
  <2>3. ~failed[r]
    BY <1>1, <2>1, <2>2 DEF Report, GroupsTypeOK
  <2>4. iam' = c.iam
    BY <2>2 DEF CallOK
  <2>5. CASE job[r].kind = "bulkAdd"
    <3>1. job[r].users \subseteq c.iam.members[g]
      BY <1>1, <1>2, <2>5 DEF GroupCall, AddMembers, Accepted, IAM
    <3>2. \A h \in job[r].groups \ todo[r] : job[r].users \subseteq iam.members[h]
      BY <1>1, <2>3, <2>5 DEF Fits, TasksSoFar
    <3>3. \A h \in job[r].groups \ todo'[r] : job[r].users \subseteq iam'.members[h]
      BY <1>2, <1>3, <1>4, <2>4, <3>1, <3>2
    <3> QED BY <1>1, <2>5, <3>3 DEF TasksSoFar
  <2>6. CASE job[r].kind # "bulkAdd"
    <3>1. \A h \in Groups : job[r].user \in iam.members[h] <=> h \in IF h \in todo[r] THEN origin[r]
                                                                       ELSE job[r].groups
      BY <1>1, <2>3, <2>6 DEF Fits, TasksSoFar
    <3>2. job[r].user \in c.iam.members[g] <=> g \in job[r].groups
      <4>1. CASE g \notin job[r].groups
        BY <1>1, <1>2, <2>6, <4>1 DEF GroupCall, RemoveMembers, Accepted, IAM
      <4>2. CASE g \in job[r].groups /\ g \notin origin[r]
        BY <1>1, <1>2, <2>6, <4>2 DEF GroupCall, AddMembers, Accepted, IAM
      <4>3. CASE g \in job[r].groups /\ g \in origin[r]
        BY <1>1, <2>6, <3>1, <4>3 DEF GroupCall, Accepted
      <4> QED BY <4>1, <4>2, <4>3
    <3>3. \A h \in Groups : job[r].user \in iam'.members[h] <=> h \in IF h \in todo'[r] THEN origin[r]
                                                                       ELSE job[r].groups
      BY <1>3, <1>4, <2>4, <3>1, <3>2
    <3> QED BY <1>1, <2>6, <3>3 DEF TasksSoFar
  <2> QED BY <2>5, <2>6
<1> QED
  BY <1>1, <1>6, <1>7 DEF Fits, GroupsSoFar, UpdateSoFar, EntitiesSoFar

LEMMA JoinFits ==
  ASSUME GroupsTypeOK, NEW r \in Requests, Located(r), Fits(r), Join(r)
  PROVE  Fits(r)'
<1>1. /\ pc[r] = "groups" /\ todo[r] = {} /\ UNCHANGED <<iam, job>>
      /\ job[r].kind \in UserKinds \cup {"bulkAdd"} /\ job[r].groups \subseteq Groups
  BY JobTypes DEF Join, Joined, Read, Located
<1>2. CASE failed[r]
  BY <1>2, EndFits DEF Join
<1>3. CASE ~failed[r] /\ job[r].kind = "bulkAdd"
  <2>1. Applied(r)'
    BY <1>1, <1>3 DEF Fits, TasksSoFar, Applied
  <2> QED BY <1>3, <2>1, EndFits DEF Join
<1>4. CASE ~failed[r] /\ job[r].kind # "bulkAdd"
  <2>1. InItsGroups(r)'
    BY <1>1, <1>4 DEF Fits, TasksSoFar, InItsGroups
  <2>2. pc'[r] = "verify" /\ answer'[r] # "ok"
    BY <1>1, <1>4, GoesOnTo DEF Join
  <2>3. UserSoFar(r)'
    BY <1>1, <2>2 DEF Fits, UserSoFar
  <2> QED BY <1>1, <1>4, <2>1, <2>2, <2>3
          DEF Fits, TasksSoFar, GroupsSoFar, UpdateSoFar, EntitiesSoFar, UserKinds
<1> QED
  BY <1>2, <1>3, <1>4

LEMMA GetUserAgainFits ==
  ASSUME GroupsTypeOK, NEW r \in Requests, Located(r), Fits(r), GetUserAgain(r)
  PROVE  Fits(r)'
<1>1. /\ pc[r] = "verify" /\ job[r].kind \in UserKinds /\ UNCHANGED <<iam, job>>
      /\ job[r].groups \subseteq Groups
  BY JobTypes DEF GetUserAgain, At, Read, UserKinds
<1>2. InItsGroups(r) /\ UserSoFar(r)
  BY <1>1 DEF Fits, GroupsSoFar, UserKinds
<1>3. CASE job[r].kind = "addUser" /\ job[r].policies # {} /\ Goto(r, "policy")
  <2>1. pc'[r] = "policy" /\ answer'[r] # "ok"
    BY <1>1, <1>3, GoesOnTo
  <2> QED BY <1>1, <1>2, <1>3, <2>1
          DEF Fits, UserSoFar, TasksSoFar, GroupsSoFar, InItsGroups, UpdateSoFar, EntitiesSoFar
<1>4. CASE (job[r].kind = "addUser" => job[r].policies = {}) /\ Finish(r, "ok")
  <2>1. MemberOf(job[r].user) = job[r].groups
    BY <1>1, <1>2 DEF InItsGroups, MemberOf
  <2>2. Applied(r)
    BY <1>1, <1>2, <1>4, <2>1 DEF UserSoFar, Applied, UserKinds
  <2>3. Applied(r)'
    BY <1>1, <2>2 DEF Applied, MemberOf
  <2> QED BY <1>4, <2>3, EndFits
<1>5. CASE Finish(r, "error")
  BY <1>5, EndFits
<1> QED
  BY <1>3, <1>4, <1>5 DEF GetUserAgain, ToPolicies

\* Where groupUpdate goes on fits the members and the status the group has.
LEMMA UpdateGoesOnFits ==
  ASSUME GroupsTypeOK, NEW r \in Requests, pc[r] # "done", job[r].kind = "groupUpdate", job' = job,
         was'[r] \in BOOLEAN, job[r].group \in iam'.groups,
         job[r].group \in iam'.active <=> was'[r]
  PROVE  /\ FromStatus(r) /\ iam'.members[job[r].group] = job[r].users => Fits(r)'
         /\ FromAdd(r) /\ iam'.members[job[r].group] = origin'[r] \cap job[r].users => Fits(r)'
         /\ FromRemove(r) /\ iam'.members[job[r].group] = origin'[r] => Fits(r)'
<1>1. ASSUME NEW l \in {"remove", "add", "status", "verify"}, Goto(r, l), UpdateSoFar(r)'
      PROVE  Fits(r)'
  BY <1>1, GoesOnTo DEF Fits, UserSoFar, TasksSoFar, GroupsSoFar, EntitiesSoFar
<1>2. job[r].enabled \in BOOLEAN
  BY JobTypes
<1>3. ASSUME FromStatus(r), iam'.members[job[r].group] = job[r].users PROVE Fits(r)'
  <2>1. CASE was'[r] # job[r].enabled /\ Goto(r, "status")
    <3>1. UpdateSoFar(r)'
      BY <1>3, <2>1, GoesOnTo DEF UpdateSoFar
    <3> QED BY <1>1, <2>1, <3>1
  <2>2. CASE was'[r] = job[r].enabled /\ Goto(r, "verify")
    <3>1. UpdateSoFar(r)'
      BY <1>3, <2>2, GoesOnTo DEF UpdateSoFar
    <3> QED BY <1>1, <2>2, <3>1
  <2> QED BY <1>3, <2>1, <2>2 DEF FromStatus
<1>4. ASSUME FromAdd(r), iam'.members[job[r].group] = origin'[r] \cap job[r].users PROVE Fits(r)'
  <2>1. CASE Goto(r, "add")
    <3>1. UpdateSoFar(r)'
      BY <1>4, <2>1, GoesOnTo DEF UpdateSoFar
    <3> QED BY <1>1, <2>1, <3>1
  <2>2. CASE job[r].users \subseteq origin'[r] /\ FromStatus(r)
    <3>1. origin'[r] \cap job[r].users = job[r].users
      BY <2>2
    <3> QED BY <1>3, <1>4, <2>2, <3>1
  <2> QED BY <1>4, <2>1, <2>2 DEF FromAdd, Needed, ToAdd
<1>5. ASSUME FromRemove(r), iam'.members[job[r].group] = origin'[r] PROVE Fits(r)'
  <2>1. CASE Goto(r, "remove")
    <3>1. UpdateSoFar(r)'
      BY <1>5, <2>1, GoesOnTo DEF UpdateSoFar
    <3> QED BY <1>1, <2>1, <3>1
  <2>2. CASE origin'[r] \subseteq job[r].users /\ FromAdd(r)
    <3>1. origin'[r] \cap job[r].users = origin'[r]
      BY <2>2
    <3> QED BY <1>4, <1>5, <2>2, <3>1
  <2> QED BY <1>5, <2>1, <2>2 DEF FromRemove, Needed, ToDelete
<1> QED
  BY <1>3, <1>4, <1>5

LEMMA GroupInfoFits ==
  ASSUME GroupsTypeOK, NEW r \in Requests, GroupInfo(r)
  PROVE  Fits(r)'
<1>1. pc[r] # "done" /\ job[r].kind = "groupUpdate" /\ UNCHANGED <<iam, job>>
  BY DEF GroupInfo, At, Read
<1>2. CASE Finish(r, "error")
  BY <1>2, EndFits
<1>3. CASE /\ job[r].group \in iam.groups
           /\ origin' = [origin EXCEPT ![r] = iam.members[job[r].group]]
           /\ was' = [was EXCEPT ![r] = job[r].group \in iam.active]
           /\ FromRemove(r)
  <2>1. origin'[r] = iam'.members[job[r].group]
    BY <1>1, <1>3 DEF GroupsTypeOK
  <2>2. was'[r] \in BOOLEAN /\ (job[r].group \in iam'.active <=> was'[r])
    <3>1. (job[r].group \in iam.active) \in BOOLEAN
      OBVIOUS
    <3>2. was'[r] = (job[r].group \in iam.active)
      BY <1>3 DEF GroupsTypeOK
    <3> QED BY <1>1, <3>1, <3>2
  <2> QED BY <1>1, <1>3, <2>1, <2>2, UpdateGoesOnFits
<1> QED
  BY <1>2, <1>3 DEF GroupInfo

LEMMA UpdateStepFits ==
  ASSUME GroupsIInv, NEW r \in Requests, Located(r), Fits(r),
         DeleteMembers(r) \/ AddMissingMembers(r) \/ SetStatus(r)
  PROVE  Fits(r)'
<1>1. /\ GroupsTypeOK /\ iam \in IAM /\ UNCHANGED <<job, origin, was, todo, failed>>
      /\ pc[r] \in {"remove", "add", "status"} /\ job[r].kind = "groupUpdate"
  BY DEF GroupsIInv, GroupsTypeOK, DeleteMembers, AddMissingMembers, SetStatus, GroupStep, Located
<1>2. /\ job[r].group \in Groups /\ job[r].users \subseteq Users /\ job[r].enabled \in BOOLEAN
      /\ was[r] \in BOOLEAN
  BY <1>1, JobTypes DEF GroupsTypeOK
<1>3. /\ job[r].group \in iam.groups /\ (job[r].group \in iam.active <=> was[r])
      /\ pc[r] = "remove" => iam.members[job[r].group] = origin[r]
      /\ pc[r] = "add" => iam.members[job[r].group] = origin[r] \cap job[r].users
      /\ pc[r] = "status" => iam.members[job[r].group] = job[r].users
  BY <1>1 DEF Fits, UpdateSoFar
<1>4. CASE Finish(r, "error")
  BY <1>1, <1>4, EndFits
<1>5. CASE DeleteMembers(r) /\ iam' = RemoveMembers(job[r].group, ToDelete(r)).iam /\ FromAdd(r)
  <2>1. pc[r] = "remove" /\ ToDelete(r) # {}
    BY <1>5 DEF DeleteMembers, GroupsIInv, CallsAreMeant
  <2>2. /\ iam'.groups = iam.groups /\ iam'.active = iam.active
        /\ iam'.members[job[r].group] = iam.members[job[r].group] \ ToDelete(r)
    BY <1>1, <1>2, <1>5, <2>1 DEF RemoveMembers, Accepted, IAM
  <2>3. iam'.members[job[r].group] = origin'[r] \cap job[r].users
    BY <1>1, <1>3, <2>1, <2>2 DEF ToDelete
  <2> QED BY <1>1, <1>2, <1>3, <1>5, <2>2, <2>3, UpdateGoesOnFits
<1>6. CASE AddMissingMembers(r) /\ iam' = AddMembers(job[r].group, ToAdd(r)).iam /\ FromStatus(r)
  <2>1. pc[r] = "add"
    BY <1>6 DEF AddMissingMembers
  <2>2. /\ job[r].group \in iam'.groups /\ iam'.active = iam.active
        /\ iam'.members[job[r].group] = iam.members[job[r].group] \cup ToAdd(r)
    BY <1>1, <1>2, <1>3, <1>6 DEF AddMembers, Accepted, IAM
  <2>3. iam'.members[job[r].group] = job[r].users
    BY <1>3, <2>1, <2>2 DEF ToAdd
  <2> QED BY <1>1, <1>2, <1>3, <1>6, <2>2, <2>3, UpdateGoesOnFits
<1>7. CASE SetStatus(r) /\ iam' = SetGroupStatus(job[r].group, job[r].enabled).iam /\ Goto(r, "verify")
  <2>1. pc'[r] = "verify" /\ answer'[r] # "ok" /\ pc[r] = "status"
    BY <1>1, <1>7, GoesOnTo DEF SetStatus
  <2>2. /\ iam'.groups = iam.groups /\ iam'.members = iam.members
        /\ job[r].group \in iam'.active <=> job[r].enabled
    BY <1>1, <1>2, <1>7 DEF SetGroupStatus, Accepted, IAM
  <2>3. UpdateSoFar(r)'
    BY <1>1, <1>3, <2>1, <2>2 DEF UpdateSoFar
  <2> QED BY <1>1, <2>1, <2>3 DEF Fits, UserSoFar, TasksSoFar, GroupsSoFar, EntitiesSoFar
<1> QED
  BY <1>4, <1>5, <1>6, <1>7 DEF DeleteMembers, AddMissingMembers, SetStatus, GroupStep, CallOK

LEMMA GroupInfoAgainFits ==
  ASSUME GroupsTypeOK, NEW r \in Requests, Fits(r), GroupInfoAgain(r)
  PROVE  Fits(r)'
<1>1. pc[r] = "verify" /\ job[r].kind = "groupUpdate" /\ UNCHANGED <<iam, job>>
  BY DEF GroupInfoAgain, At, Read
<1>2. Applied(r)'
  BY <1>1 DEF Fits, UpdateSoFar, Applied
<1> QED
  BY <1>2, EndFits DEF GroupInfoAgain

LEMMA ForEntitiesFits ==
  ASSUME GroupsTypeOK, NEW r \in Requests, ForEntities(r)
  PROVE  Fits(r)'
<1>1. /\ pc[r] = "start" /\ job[r].kind = "setPolicy" /\ UNCHANGED <<iam, job>>
      /\ todo'[r] = job[r].users \cup job[r].groups
  BY DEF ForEntities, At, Read, GroupsTypeOK
<1>2. CASE todo'[r] = {} /\ Finish(r, "ok")
  <2>1. Applied(r)'
    BY <1>1, <1>2 DEF Applied
  <2> QED BY <1>2, <2>1, EndFits
<1>3. CASE Goto(r, "entities")
  BY <1>1, <1>3, GoesOnTo DEF Fits, UserSoFar, TasksSoFar, GroupsSoFar, UpdateSoFar, EntitiesSoFar
<1> QED
  BY <1>2, <1>3 DEF ForEntities

LEMMA SetEntityPolicyFits ==
  ASSUME GroupsTypeOK, NEW r \in Requests, Located(r), Fits(r),
         NEW e \in todo[r], SetEntityPolicy(r, e)
  PROVE  Fits(r)'
<1>1. /\ iam \in IAM /\ pc[r] = "entities" /\ job[r].kind = "setPolicy" /\ job' = job
      /\ e \in Users \cup Groups /\ todo'[r] = todo[r] \ {e}
  BY DEF GroupsTypeOK, SetEntityPolicy, Located
<1>2. /\ job[r].users \subseteq Users /\ job[r].groups \subseteq Groups
      /\ job[r].policies \subseteq Policies
  BY JobTypes
<1>3. CASE Finish(r, "error")
  BY <1>3, EndFits
<1>4. CASE CallOK(r, EntityCall(r, e)) /\ IF todo'[r] = {} THEN Finish(r, "ok") ELSE Goto(r, "entities")
  <2>1. iam' = EntityCall(r, e).iam
    BY <1>4 DEF CallOK
  <2>2. /\ e \in Users => iam'.policy = [iam.policy EXCEPT ![e] = job[r].policies]
        /\ e \in Users => iam'.mapped = iam.mapped
    BY <1>1, <2>1 DEF EntityCall, SetPolicy, Accepted, IAM
  <2>3. e \notin Users =>
          /\ iam'.policy = iam.policy
          /\ iam'.mapped = IF job[r].policies = {} THEN iam.mapped \ {e} ELSE iam.mapped \cup {e}
    BY <1>1, <2>1 DEF EntityCall, SetGroupPolicy, Accepted, IAM
  <2>4. \A u \in job[r].users \ todo'[r] : iam'.policy[u] = job[r].policies
    <3>1. \A u \in job[r].users \ todo[r] : iam.policy[u] = job[r].policies
      BY <1>1 DEF Fits, EntitiesSoFar
    <3>2. iam.policy \in [Users -> SUBSET Policies]
      BY <1>1 DEF IAM
    <3> QED BY <1>1, <1>2, <2>2, <2>3, <3>1, <3>2
  <2>5. \A g \in job[r].groups \ todo'[r] : g \in iam'.mapped <=> job[r].policies # {}
    <3>1. \A g \in job[r].groups \ todo[r] : g \in iam.mapped <=> job[r].policies # {}
      BY <1>1 DEF Fits, EntitiesSoFar
    <3> QED BY <1>1, <1>2, <2>2, <2>3, <3>1, JobsAssumption
  <2>6. CASE todo'[r] = {} /\ Finish(r, "ok")
    <3>1. Applied(r)'
      BY <1>1, <2>4, <2>5, <2>6 DEF Applied
    <3> QED BY <2>6, <3>1, EndFits
  <2>7. CASE Goto(r, "entities")
    BY <1>1, <2>4, <2>5, <2>7, GoesOnTo
    DEF Fits, UserSoFar, TasksSoFar, GroupsSoFar, UpdateSoFar, EntitiesSoFar
  <2> QED BY <1>4, <2>6, <2>7
<1> QED
  BY <1>3, <1>4 DEF SetEntityPolicy

LEMMA StepFits ==
  ASSUME GroupsIInv, NEW r \in Requests, Located(r), Fits(r), Step(r)
  PROVE  Fits(r)'
<1>1. GroupsTypeOK
  BY DEF GroupsIInv
<1>2. RefuseSelf(r) => Fits(r)'
  BY <1>1, EndFits DEF RefuseSelf
<1> QED
  BY <1>1, <1>2, SingleStepFits, FirstCallFits, TasksStartFits, GroupTaskFits, JoinFits, GetUserAgainFits,
     GroupInfoFits, UpdateStepFits, GroupInfoAgainFits, ForEntitiesFits, SetEntityPolicyFits
  DEF Step

LEMMA StepKeepsApplied == GroupsIInv /\ AppliedSoFar /\ [GroupsNext]_groupVars => AppliedSoFar'
<1> SUFFICES ASSUME GroupsIInv, AppliedSoFar, [GroupsNext]_groupVars PROVE AppliedSoFar'
  OBVIOUS
<1>1. CASE UNCHANGED groupVars
  <2>1. ASSUME NEW q \in Requests PROVE Located(q)' /\ SoFar(q)'
    <3>1. Unmoved(q) /\ (alone'[q] => alone[q] /\ iam' = iam)
      BY <1>1 DEF groupVars, Unmoved
    <3> QED BY <3>1, OthersSoFar DEF AppliedSoFar, GroupsIInv
  <2> QED BY <2>1 DEF AppliedSoFar
<1>2. ASSUME NEW r \in Requests, Step(r) PROVE AppliedSoFar'
  <2>1. GroupsTypeOK /\ Located(r) /\ SoFar(r)
    BY DEF AppliedSoFar, GroupsIInv
  <2>2. Undisturbed(r) /\ \A q \in Requests \ {r} : Unmoved(q)
    BY <1>2, <2>1, StepLeaves
  <2>3. Located(r)' /\ SoFar(r)'
    BY <1>2, <2>1, <2>2, StepLocates, StepFits DEF AppliedSoFar, SoFar, Undisturbed
  <2>4. ASSUME NEW q \in Requests \ {r} PROVE Located(q)' /\ SoFar(q)'
    BY <2>1, <2>2, <2>4, OthersSoFar DEF AppliedSoFar, Undisturbed
  <2> QED BY <2>3, <2>4 DEF AppliedSoFar
<1> QED
  BY <1>1, <1>2 DEF GroupsNext

\* Theorem: a request that succeeds while no other one changes MinIO leaves in
\* it all it asked for, over all its calls and goroutines.
THEOREM SuccessApplied == GroupsSpec => []SuccessIsApplied
<1>1. GroupsInit => AppliedSoFar
  BY DEF GroupsInit, GroupsStart, AppliedSoFar, Located, SoFar, Fits, UserSoFar, TasksSoFar, GroupsSoFar,
      UpdateSoFar, EntitiesSoFar
<1>2. AppliedSoFar => SuccessIsApplied
  BY DEF AppliedSoFar, SoFar, Fits, SuccessIsApplied
<1> QED
  BY <1>1, <1>2, StepKeepsApplied, InductiveGroups, PTL DEF GroupsSpec

-----------------------------------------------------------------------------
(* UserGroups: requests that agree on a user and a group.                    *)

AllAgree(u, g, w) == \A r \in Requests : Wants(r, u, g) \in {w, "any"}

Fitting(u, g, w) == u \in iam.members[g] <=> w = "in"

\* Request r has put the user where it wants him in the group, or found him there.
DoneWith(r, u, g) ==
  \/ /\ pc[r] = "groups" /\ ~failed[r]
     /\ g \notin todo[r] \/ (job[r].kind # "bulkAdd" /\ g \in job[r].groups \cap origin[r])
  \/ pc[r] = "remove" /\ (u \in origin[r] <=> u \in job[r].users)
  \/ pc[r] = "add" /\ u \notin ToAdd(r)
  \/ pc[r] \in {"verify", "policy", "status"}
  \/ answer[r] = "ok"

\* addUser goes through the groups of the user only when it is given some, and
\* bulkAdd through those it is given.
GivenGroups(r) ==
  /\ job[r].kind = "addUser" /\ pc[r] \in {"userInfo", "groups", "verify"} => job[r].groups # {}
  /\ job[r].kind = "bulkAdd" /\ pc[r] = "groups" => todo[r] \subseteq job[r].groups

AgreedSoFar ==
  /\ \A r \in Requests : Located(r) /\ GivenGroups(r)
  /\ \A u \in Users, g \in Groups, w \in {"in", "out"}, r \in Requests :
       AllAgree(u, g, w) /\ Wants(r, u, g) = w /\ DoneWith(r, u, g) => Fitting(u, g, w)

-----------------------------------------------------------------------------
LEMMA WantsByKind ==
  ASSUME NEW r \in Requests, NEW u, NEW g
  PROVE  /\ job[r].kind \in UserKinds /\ (job[r].kind = "addUser" => job[r].groups # {}) =>
              Wants(r, u, g) = IF job[r].user # u THEN "any"
                               ELSE IF g \in job[r].groups THEN "in" ELSE "out"
         /\ job[r].kind = "addUser" /\ job[r].groups = {} => Wants(r, u, g) = "any"
         /\ job[r].kind = "groupUpdate" =>
              Wants(r, u, g) = IF job[r].group # g THEN "any"
                               ELSE IF u \in job[r].users THEN "in" ELSE "out"
         /\ job[r].kind = "bulkAdd" =>
              Wants(r, u, g) = IF g \in job[r].groups /\ u \in job[r].users THEN "in" ELSE "any"
         /\ job[r].kind = "addGroup" =>
              Wants(r, u, g) = IF job[r].group = g /\ u \in job[r].users THEN "in" ELSE "any"
         /\ job[r].kind = "removeUser" => Wants(r, u, g) = IF job[r].user = u THEN "out" ELSE "any"
         /\ job[r].kind \in {"removeGroup", "setPolicy"} => Wants(r, u, g) = "any"
  BY DEF Wants, UserKinds

\* What the calls do to who is in a group.
LEMMA MembersAfterCalls ==
  ASSUME iam \in IAM, NEW u \in Users, NEW g \in Groups
  PROVE  /\ \A v, on : /\ AddUser(v).iam.members = iam.members
                       /\ SetUserStatus(v, on).iam.members = iam.members
                       /\ SetPolicy(v, on).iam.members = iam.members
                       /\ SetGroupStatus(v, on).iam.members = iam.members
                       /\ SetGroupPolicy(v, on).iam.members = iam.members
         /\ \A v : u \in RemoveUser(v).iam.members[g] <=> u \in iam.members[g] /\ u # v
         /\ \A h \in Groups : \A us :
              /\ u \in AddMembers(h, us).iam.members[g] <=> u \in iam.members[g] \/ (h = g /\ u \in us)
              /\ u \in RemoveMembers(h, us).iam.members[g] <=> u \in iam.members[g] /\ ~(h = g /\ u \in us)
<1>1. \A v, on : /\ AddUser(v).iam.members = iam.members
                 /\ SetUserStatus(v, on).iam.members = iam.members
                 /\ SetPolicy(v, on).iam.members = iam.members
                 /\ SetGroupStatus(v, on).iam.members = iam.members
                 /\ SetGroupPolicy(v, on).iam.members = iam.members
  BY DEF IAM, AddUser, SetUserStatus, SetPolicy, SetGroupStatus, SetGroupPolicy, Accepted
<1>2. \A v : u \in RemoveUser(v).iam.members[g] <=> u \in iam.members[g] /\ u # v
  BY DEF IAM, RemoveUser, Accepted
<1>3. ASSUME NEW h \in Groups, NEW us
      PROVE  u \in AddMembers(h, us).iam.members[g] <=> u \in iam.members[g] \/ (h = g /\ u \in us)
  BY DEF IAM, AddMembers, Accepted
<1>4. ASSUME NEW h \in Groups, NEW us
      PROVE  u \in RemoveMembers(h, us).iam.members[g] <=> u \in iam.members[g] /\ ~(h = g /\ u \in us)
  BY DEF IAM, RemoveMembers, Accepted
<1> QED
  BY <1>1, <1>2, <1>3, <1>4

\* A call that leaves the user's membership, or moves it to what is agreed.
Tends(c, u, g, w) ==
  \/ u \in c.iam.members[g] <=> u \in iam.members[g]
  \/ u \in c.iam.members[g] <=> w = "in"

\* A step of request r leaves the user where he is agreed to be, and has put
\* him there if it is what makes r done with him.
Advances(r, u, g, w) ==
  /\ Fitting(u, g, w) => Fitting(u, g, w)'
  /\ Wants(r, u, g) = w /\ DoneWith(r, u, g)' => DoneWith(r, u, g) \/ Fitting(u, g, w)'

LEMMA TendingCalls ==
  ASSUME NEW r \in Requests, NEW c, NEW u, NEW g, NEW w \in {"in", "out"}, Tends(c, u, g, w),
         CallOK(r, c) \/ CallFails(r, c), Fitting(u, g, w)
  PROVE  Fitting(u, g, w)'
  BY DEF Tends, CallOK, CallFails, Fitting

LEMMA SameMembersTend ==
  ASSUME NEW c, NEW u, NEW g, NEW w, c.iam.members = iam.members
  PROVE  Tends(c, u, g, w)
  BY DEF Tends

LEMMA ErrorAdvances ==
  ASSUME GroupsTypeOK, NEW r \in Requests, NEW u, NEW g, NEW w, Finish(r, "error"),
         Fitting(u, g, w) => Fitting(u, g, w)'
  PROVE  Advances(r, u, g, w)
<1>1. pc'[r] = "done" /\ answer'[r] = "error"
  BY DEF GroupsTypeOK, Finish
<1> QED
  BY <1>1 DEF Advances, DoneWith

\* A request that is done already.
LEMMA DoneAdvances ==
  ASSUME NEW r \in Requests, NEW u, NEW g, NEW w, DoneWith(r, u, g),
         Fitting(u, g, w) => Fitting(u, g, w)'
  PROVE  Advances(r, u, g, w)
  BY DEF Advances

LEMMA SingleCallAdvances ==
  ASSUME GroupsTypeOK, NEW r \in Requests, NEW u, NEW g, NEW w \in {"in", "out"}, NEW c,
         SingleCall(r, c), Tends(c, u, g, w),
         Wants(r, u, g) = w => (u \in c.iam.members[g] <=> w = "in")
  PROVE  Advances(r, u, g, w)
<1>1. Fitting(u, g, w) => Fitting(u, g, w)'
  BY TendingCalls DEF SingleCall
<1>2. CASE Finish(r, "error")
  BY <1>1, <1>2, ErrorAdvances
<1>3. CASE CallOK(r, c)
  BY <1>1, <1>3 DEF CallOK, Advances, Fitting
<1> QED
  BY <1>2, <1>3 DEF SingleCall

LEMMA SingleStepAdvances ==
  ASSUME GroupsTypeOK, NEW r \in Requests, NEW u \in Users, NEW g \in Groups, NEW w \in {"in", "out"},
         AllAgree(u, g, w), AddGroup(r) \/ RemoveGroup(r) \/ RemoveUserRequest(r)
  PROVE  Advances(r, u, g, w)
<1>1. /\ iam \in IAM /\ job[r].group \in Groups /\ Wants(r, u, g) \in {w, "any"}
  BY JobTypes DEF GroupsTypeOK, AllAgree
<1>2. CASE AddGroup(r)
  <2>1. Wants(r, u, g) = IF job[r].group = g /\ u \in job[r].users THEN "in" ELSE "any"
    BY <1>2, WantsByKind DEF AddGroup, At
  <2> DEFINE c == AddMembers(job[r].group, job[r].users)
  <2>2. u \in c.iam.members[g] <=> u \in iam.members[g] \/ (job[r].group = g /\ u \in job[r].users)
    BY <1>1, MembersAfterCalls
  <2>3. SingleCall(r, c)
    BY <1>2 DEF AddGroup
  <2> HIDE DEF c
  <2> QED BY <1>1, <2>1, <2>2, <2>3, SingleCallAdvances DEF Tends
<1>3. CASE RemoveGroup(r)
  <2>1. Wants(r, u, g) = "any"
    BY <1>3, WantsByKind DEF RemoveGroup, At
  <2> DEFINE c == RemoveMembers(job[r].group, {})
  <2>2. u \in c.iam.members[g] <=> u \in iam.members[g]
    BY <1>1, MembersAfterCalls
  <2>3. SingleCall(r, c)
    BY <1>3 DEF RemoveGroup
  <2> HIDE DEF c
  <2> QED BY <1>1, <2>1, <2>2, <2>3, SingleCallAdvances DEF Tends
<1>4. CASE RemoveUserRequest(r)
  <2>1. Wants(r, u, g) = IF job[r].user = u THEN "out" ELSE "any"
    BY <1>4, WantsByKind DEF RemoveUserRequest, At
  <2> DEFINE c == RemoveUser(job[r].user)
  <2>2. u \in c.iam.members[g] <=> u \in iam.members[g] /\ u # job[r].user
    BY <1>1, MembersAfterCalls
  <2>3. SingleCall(r, c)
    BY <1>4 DEF RemoveUserRequest
  <2> HIDE DEF c
  <2> QED BY <1>1, <2>1, <2>2, <2>3, SingleCallAdvances DEF Tends
<1> QED
  BY <1>2, <1>3, <1>4

LEMMA FirstCallAdvances ==
  ASSUME GroupsTypeOK, NEW r \in Requests, NEW u \in Users, NEW g \in Groups, NEW w \in {"in", "out"},
         FirstCall(r)
  PROVE  Advances(r, u, g, w)
<1> DEFINE c == IF job[r].kind = "addUser" THEN AddUser(job[r].user)
                ELSE SetUserStatus(job[r].user, job[r].enabled)
<1>1. Tends(c, u, g, w)
  <2>1. iam \in IAM
    BY DEF GroupsTypeOK
  <2>2. c.iam.members = iam.members
    BY <2>1, MembersAfterCalls
  <2> QED BY <2>2, SameMembersTend
<1>2. /\ CallOK(r, c) \/ CallFails(r, c)
      /\ \/ Finish(r, "error")
         \/ job[r].kind = "addUser" /\ job[r].groups = {}
         \/ Goto(r, "userInfo")
  BY DEF FirstCall
<1>3. pc[r] # "done"
  BY DEF FirstCall, At
<1> HIDE DEF c
<1>4. Fitting(u, g, w) => Fitting(u, g, w)'
  BY <1>1, <1>2, TendingCalls
<1>5. CASE Finish(r, "error")
  BY <1>4, <1>5, ErrorAdvances
<1>6. CASE job[r].kind = "addUser" /\ job[r].groups = {}
  BY <1>4, <1>6, WantsByKind DEF Advances
<1>7. CASE Goto(r, "userInfo")
  BY <1>3, <1>4, <1>7, GoesOnTo DEF Advances, DoneWith
<1> QED
  BY <1>2, <1>5, <1>6, <1>7

LEMMA TasksStartAdvances ==
  ASSUME GroupsTypeOK, NEW r \in Requests, GivenGroups(r),
         NEW u \in Users, NEW g \in Groups, NEW w \in {"in", "out"},
         GetUserInfo(r) \/ BulkAdd(r)
  PROVE  Advances(r, u, g, w)
<1>1. iam' = iam /\ (Fitting(u, g, w) => Fitting(u, g, w)') /\ pc[r] # "done" /\ job' = job
  BY DEF GetUserInfo, BulkAdd, Read, Fitting, At
<1>2. CASE GetUserInfo(r) /\ Finish(r, "error")
  BY <1>1, <1>2, ErrorAdvances
<1>3. CASE GetUserInfo(r) /\ Goto(r, "groups")
  <2>4. pc'[r] = "groups" /\ answer'[r] # "ok" /\ ~Finish(r, "error")
    BY <1>1, <1>3, GoesOnTo, GotoMoves
  <2>1. /\ origin'[r] = MemberOf(job[r].user)
        /\ todo'[r] = MemberOf(job[r].user) \cup job[r].groups
        /\ pc'[r] = "groups" /\ answer'[r] # "ok"
    BY <1>3, <2>4 DEF GetUserInfo, TasksOf, GroupsTypeOK
  <2>2. Wants(r, u, g) = IF job[r].user # u THEN "any" ELSE IF g \in job[r].groups THEN "in" ELSE "out"
    <3>1. job[r].kind \in UserKinds /\ (job[r].kind = "addUser" => job[r].groups # {})
      BY <1>3 DEF GetUserInfo, At, GivenGroups, UserKinds
    <3> QED BY <3>1, WantsByKind
  <2>3. ASSUME Wants(r, u, g) = w, DoneWith(r, u, g)' PROVE Fitting(u, g, w)'
    <3>1. job[r].user = u /\ (w = "in" <=> g \in job[r].groups)
      BY <2>2, <2>3
    <3>2. g \notin todo'[r] \/ g \in job[r].groups \cap origin'[r]
      BY <1>1, <2>1, <2>3 DEF DoneWith
    <3> QED BY <1>1, <2>1, <3>1, <3>2 DEF MemberOf, Fitting
  <2> QED BY <1>1, <2>3 DEF Advances
<1>4. CASE BulkAdd(r)
  <2>1. todo'[r] = job[r].groups /\ pc'[r] = "groups" /\ answer'[r] # "ok" /\ job[r].kind = "bulkAdd"
    BY <1>1, <1>4, GoesOnTo DEF BulkAdd, At, GroupsTypeOK
  <2>2. Wants(r, u, g) = w => g \in job[r].groups
    BY <2>1, WantsByKind
  <2> QED BY <1>1, <2>1, <2>2 DEF Advances, DoneWith
<1> QED
  BY <1>2, <1>3, <1>4 DEF GetUserInfo

\* What a goroutine's call does to the membership.
LEMMA GroupCallTends ==
  ASSUME GroupsTypeOK, NEW r \in Requests, job[r].kind \in UserKinds \cup {"bulkAdd"}, GivenGroups(r),
         pc[r] = "groups", NEW u \in Users, NEW g \in Groups, NEW w \in {"in", "out"},
         Wants(r, u, g) \in {w, "any"}, NEW h \in Groups, h \in todo[r]
  PROVE  /\ Tends(GroupCall(r, h), u, g, w)
         /\ Wants(r, u, g) = w /\ h = g =>
              \/ u \in GroupCall(r, h).iam.members[g] <=> w = "in"
              \/ job[r].kind # "bulkAdd" /\ g \in job[r].groups \cap origin[r]
<1>1. iam \in IAM
  BY DEF GroupsTypeOK
<1> DEFINE c == GroupCall(r, h)
<1>2. CASE job[r].kind = "bulkAdd"
  <2>1. Wants(r, u, g) = IF g \in job[r].groups /\ u \in job[r].users THEN "in" ELSE "any"
    BY <1>2, WantsByKind
  <2>2. u \in c.iam.members[g] <=> u \in iam.members[g] \/ (h = g /\ u \in job[r].users)
    BY <1>1, <1>2, MembersAfterCalls DEF GroupCall
  <2> HIDE DEF c
  <2>3. Tends(c, u, g, w) /\ (Wants(r, u, g) = w /\ h = g => (u \in c.iam.members[g] <=> w = "in"))
    BY <1>2, <2>1, <2>2 DEF Tends, GivenGroups
  <2> QED BY <2>3 DEF c
<1>3. CASE job[r].kind # "bulkAdd"
  <2>1. Wants(r, u, g) = IF job[r].user # u THEN "any" ELSE IF g \in job[r].groups THEN "in" ELSE "out"
    <3>1. job[r].kind \in UserKinds /\ (job[r].kind = "addUser" => job[r].groups # {})
      BY <1>3 DEF GivenGroups
    <3> QED BY <3>1, WantsByKind
  <2>2. CASE h \notin job[r].groups
    <3>1. u \in c.iam.members[g] <=> u \in iam.members[g] /\ ~(h = g /\ u \in {job[r].user})
      BY <1>1, <1>3, <2>2, MembersAfterCalls DEF GroupCall
    <3> HIDE DEF c
    <3>2. Tends(c, u, g, w) /\ (Wants(r, u, g) = w /\ h = g => (u \in c.iam.members[g] <=> w = "in"))
      BY <2>1, <2>2, <3>1 DEF Tends
    <3> QED BY <3>2 DEF c
  <2>3. CASE h \in job[r].groups /\ h \notin origin[r]
    <3>1. u \in c.iam.members[g] <=> u \in iam.members[g] \/ (h = g /\ u \in {job[r].user})
      BY <1>1, <1>3, <2>3, MembersAfterCalls DEF GroupCall
    <3> HIDE DEF c
    <3>2. Tends(c, u, g, w) /\ (Wants(r, u, g) = w /\ h = g => (u \in c.iam.members[g] <=> w = "in"))
      BY <2>1, <2>3, <3>1 DEF Tends
    <3> QED BY <3>2 DEF c
  <2>4. CASE h \in job[r].groups /\ h \in origin[r]
    <3>1. c.iam = iam
      BY <1>3, <2>4 DEF GroupCall, Accepted
    <3> HIDE DEF c
    <3>2. Tends(c, u, g, w)
      BY <3>1 DEF Tends
    <3> QED BY <1>3, <2>4, <3>2 DEF c
  <2> QED BY <2>2, <2>3, <2>4
<1> QED
  BY <1>2, <1>3

LEMMA GroupTaskAdvances ==
  ASSUME GroupsIInv, NEW r \in Requests, Located(r), GivenGroups(r),
         NEW u \in Users, NEW g \in Groups, NEW w \in {"in", "out"}, AllAgree(u, g, w),
         NEW h \in todo[r], GroupTask(r, h)
  PROVE  Advances(r, u, g, w)
<1>1. /\ GroupsTypeOK /\ iam \in IAM /\ pc[r] = "groups" /\ h \in Groups
      /\ UNCHANGED <<job, pc, origin, answer>> /\ answer[r] = "none"
      /\ job[r].kind \in UserKinds \cup {"bulkAdd"} /\ Wants(r, u, g) \in {w, "any"}
  BY DEF GroupsIInv, GroupsTypeOK, CallsAreMeant, GroupTask, Located, AllAgree
<1>2. todo'[r] = todo[r] \ {h} /\ (~failed'[r] => ~failed[r])
  BY <1>1 DEF GroupTask, Report, GroupsTypeOK
<1>3. /\ Tends(GroupCall(r, h), u, g, w)
      /\ Wants(r, u, g) = w /\ h = g =>
           \/ u \in GroupCall(r, h).iam.members[g] <=> w = "in"
           \/ job[r].kind # "bulkAdd" /\ g \in job[r].groups \cap origin[r]
  BY <1>1, GroupCallTends
<1>4. Fitting(u, g, w) => Fitting(u, g, w)'
  BY <1>3, TendingCalls DEF GroupTask
<1>5. ASSUME Wants(r, u, g) = w, DoneWith(r, u, g)' PROVE DoneWith(r, u, g) \/ Fitting(u, g, w)'
  <2>1. /\ ~failed'[r] /\ ~failed[r]
        /\ g \notin todo'[r] \/ (job[r].kind # "bulkAdd" /\ g \in job[r].groups \cap origin[r])
    BY <1>1, <1>2, <1>5 DEF DoneWith
  <2>2. CASE h # g \/ (job[r].kind # "bulkAdd" /\ g \in job[r].groups \cap origin[r])
    BY <1>1, <1>2, <2>1, <2>2 DEF DoneWith
  <2>3. CASE h = g /\ (u \in GroupCall(r, h).iam.members[g] <=> w = "in")
    <3>1. ~Report(r, h, TRUE)
      BY <1>1, <2>1 DEF Report, GroupsTypeOK
    <3>2. iam' = GroupCall(r, h).iam
      BY <3>1 DEF GroupTask, CallOK
    <3> QED BY <2>3, <3>2 DEF Fitting
  <2> QED BY <1>3, <1>5, <2>2, <2>3
<1> QED
  BY <1>4, <1>5 DEF Advances

LEMMA ReadAdvances ==
  ASSUME GroupsTypeOK, NEW r \in Requests, NEW u, NEW g, NEW w,
         Join(r) \/ GetUserAgain(r) \/ GroupInfoAgain(r) \/ RefuseSelf(r)
  PROVE  Advances(r, u, g, w)
<1>1. Fitting(u, g, w) => Fitting(u, g, w)'
  BY DEF Join, GetUserAgain, GroupInfoAgain, RefuseSelf, Read, Fitting
<1>2. CASE Join(r) /\ ~failed[r]
  BY <1>1, <1>2, DoneAdvances DEF Join, Joined, DoneWith
<1>3. CASE (Join(r) /\ failed[r]) \/ RefuseSelf(r)
  BY <1>1, <1>3, ErrorAdvances DEF Join, RefuseSelf
<1>4. CASE GetUserAgain(r) \/ GroupInfoAgain(r)
  BY <1>1, <1>4, DoneAdvances DEF GetUserAgain, GroupInfoAgain, At, DoneWith
<1> QED
  BY <1>2, <1>3, <1>4

\* Where groupUpdate goes on: it is done with whoever it need not add.
LEMMA UpdateGoesOnTo ==
  ASSUME GroupsTypeOK, NEW r \in Requests, pc[r] # "done", NEW u
  PROVE  /\ FromStatus(r) => pc'[r] \in {"status", "verify"} /\ answer'[r] # "ok"
         /\ FromAdd(r) => /\ pc'[r] \in {"add", "status", "verify"} /\ answer'[r] # "ok"
                          /\ pc'[r] # "add" => u \notin ToAdd(r)'
         /\ FromRemove(r) => /\ pc'[r] \in {"remove", "add", "status", "verify"} /\ answer'[r] # "ok"
                             /\ pc'[r] # "remove" => u \notin ToDelete(r)'
                             /\ pc'[r] \in {"status", "verify"} => u \notin ToAdd(r)'
<1>1. FromStatus(r) => pc'[r] \in {"status", "verify"} /\ answer'[r] # "ok"
  BY GoesOnTo DEF FromStatus
<1>2. FromAdd(r) => /\ pc'[r] \in {"add", "status", "verify"} /\ answer'[r] # "ok"
                    /\ pc'[r] # "add" => u \notin ToAdd(r)'
  BY <1>1, GoesOnTo DEF FromAdd, Needed
<1>3. FromRemove(r) => /\ pc'[r] \in {"remove", "add", "status", "verify"} /\ answer'[r] # "ok"
                       /\ pc'[r] # "remove" => u \notin ToDelete(r)'
                       /\ pc'[r] \in {"status", "verify"} => u \notin ToAdd(r)'
  BY <1>2, GoesOnTo DEF FromRemove, Needed
<1> QED
  BY <1>1, <1>2, <1>3

LEMMA UpdateAdvances ==
  ASSUME GroupsTypeOK, NEW r \in Requests, Located(r),
         NEW u \in Users, NEW g \in Groups, NEW w \in {"in", "out"}, AllAgree(u, g, w),
         GroupInfo(r) \/ DeleteMembers(r) \/ AddMissingMembers(r) \/ SetStatus(r)
  PROVE  Advances(r, u, g, w)
<1>1. /\ iam \in IAM /\ pc[r] # "done" /\ job' = job /\ job[r].group \in Groups
      /\ Wants(r, u, g) \in {w, "any"}
  BY JobTypes
  DEF GroupsTypeOK, AllAgree, GroupInfo, DeleteMembers, AddMissingMembers, SetStatus, GroupStep, At
<1>2. Wants(r, u, g) = IF job[r].group # g THEN "any" ELSE IF u \in job[r].users THEN "in" ELSE "out"
  <2>1. job[r].kind = "groupUpdate"
    BY DEF GroupInfo, DeleteMembers, AddMissingMembers, SetStatus, At, Located
  <2> QED BY <2>1, WantsByKind
<1>3. CASE GroupInfo(r)
  <2>1. iam' = iam /\ (Fitting(u, g, w) => Fitting(u, g, w)')
    BY <1>3 DEF GroupInfo, Read, Fitting
  <2>2. CASE Finish(r, "error")
    BY <2>1, <2>2, ErrorAdvances
  <2>3. CASE FromRemove(r) /\ origin' = [origin EXCEPT ![r] = iam.members[job[r].group]]
    <3>1. origin'[r] = iam'.members[job[r].group]
      BY <2>1, <2>3 DEF GroupsTypeOK
    <3>2. /\ pc'[r] \in {"remove", "add", "status", "verify"} /\ answer'[r] # "ok"
          /\ pc'[r] # "remove" => u \notin ToDelete(r)'
          /\ pc'[r] \in {"status", "verify"} => u \notin ToAdd(r)'
      BY <1>1, <2>3, UpdateGoesOnTo
    <3>3. DoneWith(r, u, g)' => (u \in origin'[r] <=> u \in job[r].users)
      BY <1>1, <3>2 DEF DoneWith, ToAdd, ToDelete
    <3> QED BY <1>2, <2>1, <3>1, <3>3 DEF Advances, Fitting
  <2> QED BY <1>3, <2>2, <2>3 DEF GroupInfo
<1>4. CASE DeleteMembers(r)
  <2> DEFINE c == RemoveMembers(job[r].group, ToDelete(r))
  <2>1. u \in c.iam.members[g] <=> u \in iam.members[g] /\ ~(job[r].group = g /\ u \in ToDelete(r))
    BY <1>1, MembersAfterCalls
  <2>2. /\ pc[r] = "remove" /\ UNCHANGED origin
        /\ CallOK(r, c) \/ CallFails(r, c)
        /\ (CallOK(r, c) /\ FromAdd(r)) \/ Finish(r, "error")
    BY <1>4 DEF DeleteMembers, GroupStep
  <2> HIDE DEF c
  <2>3. Tends(c, u, g, w)
    BY <1>1, <1>2, <2>1 DEF Tends, ToDelete
  <2>4. Fitting(u, g, w) => Fitting(u, g, w)'
    BY <2>2, <2>3, TendingCalls
  <2>5. CASE CallOK(r, c) /\ FromAdd(r)
    <3>1. /\ pc'[r] \in {"add", "status", "verify"} /\ answer'[r] # "ok"
          /\ pc'[r] # "add" => u \notin ToAdd(r)'
      BY <1>1, <2>5, UpdateGoesOnTo
    <3>2. DoneWith(r, u, g)' => u \notin ToAdd(r)
      BY <1>1, <2>2, <3>1 DEF DoneWith, ToAdd
    <3>3. u \in ToDelete(r) /\ Wants(r, u, g) = w => Fitting(u, g, w)'
      BY <1>2, <2>1, <2>5 DEF CallOK, Fitting, ToDelete
    <3> QED BY <2>2, <2>4, <3>2, <3>3 DEF Advances, DoneWith, ToAdd, ToDelete
  <2> QED BY <2>2, <2>4, <2>5, ErrorAdvances
<1>5. CASE AddMissingMembers(r)
  <2> DEFINE c == AddMembers(job[r].group, ToAdd(r))
  <2>1. u \in c.iam.members[g] <=> u \in iam.members[g] \/ (job[r].group = g /\ u \in ToAdd(r))
    BY <1>1, MembersAfterCalls
  <2>2. /\ pc[r] = "add"
        /\ CallOK(r, c) \/ CallFails(r, c)
        /\ CallOK(r, c) \/ Finish(r, "error")
    BY <1>5 DEF AddMissingMembers, GroupStep
  <2> HIDE DEF c
  <2>3. Tends(c, u, g, w)
    BY <1>1, <1>2, <2>1 DEF Tends, ToAdd
  <2>4. Fitting(u, g, w) => Fitting(u, g, w)'
    BY <2>2, <2>3, TendingCalls
  <2>5. CASE CallOK(r, c)
    <3>1. u \in ToAdd(r) /\ Wants(r, u, g) = w => Fitting(u, g, w)'
      BY <1>2, <2>1, <2>5 DEF CallOK, Fitting, ToAdd
    <3> QED BY <2>2, <2>4, <3>1 DEF Advances, DoneWith
  <2> QED BY <2>2, <2>4, <2>5, ErrorAdvances
<1>6. CASE SetStatus(r)
  <2>1. SetGroupStatus(job[r].group, job[r].enabled).iam.members = iam.members
    BY <1>1, MembersAfterCalls
  <2>2. Fitting(u, g, w) => Fitting(u, g, w)'
    BY <1>6, <2>1, SameMembersTend, TendingCalls DEF SetStatus, GroupStep
  <2> QED BY <1>6, <2>2, DoneAdvances DEF SetStatus, DoneWith
<1> QED
  BY <1>3, <1>4, <1>5, <1>6

LEMMA PolicyAdvances ==
  ASSUME GroupsTypeOK, NEW r \in Requests, Located(r),
         NEW u \in Users, NEW g \in Groups, NEW w \in {"in", "out"},
         SetUserPolicies(r) \/ ForEntities(r) \/ \E e \in todo[r] : SetEntityPolicy(r, e)
  PROVE  Advances(r, u, g, w)
<1>1. iam \in IAM
  BY DEF GroupsTypeOK
<1>2. CASE SetUserPolicies(r)
  <2>1. SetPolicy(job[r].user, job[r].policies).iam.members = iam.members
    BY <1>1, MembersAfterCalls
  <2>2. Fitting(u, g, w) => Fitting(u, g, w)'
    BY <1>2, <2>1, SameMembersTend, TendingCalls DEF SetUserPolicies, SingleCall
  <2> QED BY <1>2, <2>2, DoneAdvances DEF SetUserPolicies, DoneWith
<1>3. CASE ForEntities(r)
  <2>1. Wants(r, u, g) = "any"
    BY <1>3, WantsByKind DEF ForEntities, At
  <2> QED BY <1>3, <2>1 DEF ForEntities, Read, Fitting, Advances
<1>4. ASSUME NEW e \in todo[r], SetEntityPolicy(r, e) PROVE Advances(r, u, g, w)
  <2>1. Wants(r, u, g) = "any"
    BY <1>4, WantsByKind DEF SetEntityPolicy, Located
  <2>2. EntityCall(r, e).iam.members = iam.members
    BY <1>1, MembersAfterCalls DEF EntityCall
  <2>3. Fitting(u, g, w) => Fitting(u, g, w)'
    BY <1>4, <2>2, SameMembersTend, TendingCalls DEF SetEntityPolicy
  <2> QED BY <2>1, <2>3 DEF Advances
<1> QED
  BY <1>2, <1>3, <1>4

LEMMA StepAdvances ==
  ASSUME GroupsIInv, NEW r \in Requests, Located(r), GivenGroups(r), Step(r),
         NEW u \in Users, NEW g \in Groups, NEW w \in {"in", "out"}, AllAgree(u, g, w)
  PROVE  Advances(r, u, g, w)
<1>1. GroupsTypeOK
  BY DEF GroupsIInv
<1> QED
  BY <1>1, SingleStepAdvances, FirstCallAdvances, TasksStartAdvances, GroupTaskAdvances, ReadAdvances,
     UpdateAdvances, PolicyAdvances DEF Step

LEMMA StepKeepsJob ==
  ASSUME NEW r, Step(r)
  PROVE  job' = job
  BY DEF Step, AddGroup, RemoveGroup, RemoveUserRequest, SetUserPolicies, SingleCall, RefuseSelf,
         FirstCall, GetUserInfo, BulkAdd, Join, GetUserAgain, GroupInfo, DeleteMembers,
         AddMissingMembers, SetStatus, GroupStep, GroupInfoAgain, ForEntities, GroupTask, SetEntityPolicy

LEMMA StepGivesGroups ==
  ASSUME GroupsTypeOK, NEW r \in Requests, Located(r), GivenGroups(r), Step(r)
  PROVE  GivenGroups(r)'
<1>1. job' = job
  BY StepKeepsJob
<1>2. CASE FirstCall(r)
  BY <1>1, <1>2, GotoMoves DEF FirstCall, ToPolicies, At, GivenGroups
<1>3. CASE job[r].kind = "addUser" /\ ~FirstCall(r)
  <2>1. CASE pc[r] \in {"userInfo", "groups", "verify"}
    BY <1>1, <1>3, <2>1 DEF GivenGroups
  <2>2. CASE pc[r] \notin {"userInfo", "groups", "verify"}
    <3>1. SetUserPolicies(r)
      BY <1>3, <2>2
      DEF Step, AddGroup, RemoveGroup, RemoveUserRequest, RefuseSelf, GetUserInfo, BulkAdd, Join,
          GetUserAgain, GroupInfo, DeleteMembers, AddMissingMembers, SetStatus, GroupInfoAgain,
          ForEntities, GroupTask, SetEntityPolicy, At, Located
    <3>2. pc'[r] = "done"
      BY <3>1, GotoMoves DEF SetUserPolicies, SingleCall
    <3> QED BY <1>1, <1>3, <3>2 DEF GivenGroups
  <2> QED BY <2>1, <2>2
<1>4. CASE job[r].kind = "bulkAdd"
  <2>1. BulkAdd(r) \/ Join(r) \/ \E g \in todo[r] : GroupTask(r, g)
    BY <1>4
    DEF Step, AddGroup, RemoveGroup, RemoveUserRequest, RefuseSelf, FirstCall, GetUserInfo, GetUserAgain,
        SetUserPolicies, GroupInfo, DeleteMembers, AddMissingMembers, SetStatus, GroupInfoAgain,
        ForEntities, SetEntityPolicy, At, Located, UserKinds
  <2>2. CASE BulkAdd(r)
    BY <1>1, <1>4, <2>2 DEF BulkAdd, GroupsTypeOK, GivenGroups
  <2>3. CASE Join(r)
    <3>1. todo' = todo /\ pc[r] = "groups"
      BY <2>3 DEF Join
    <3> QED BY <1>1, <1>4, <3>1 DEF GivenGroups
  <2>4. ASSUME NEW g \in todo[r], GroupTask(r, g) PROVE GivenGroups(r)'
    <3>1. todo'[r] = todo[r] \ {g} /\ pc[r] = "groups"
      BY <2>4 DEF GroupTask, Report, GroupsTypeOK
    <3> QED BY <1>1, <1>4, <3>1 DEF GivenGroups
  <2> QED BY <2>1, <2>2, <2>3, <2>4
<1> QED
  BY <1>1, <1>2, <1>3, <1>4 DEF GivenGroups

LEMMA StepKeepsAgreed == GroupsIInv /\ AgreedSoFar /\ [GroupsNext]_groupVars => AgreedSoFar'
<1> SUFFICES ASSUME GroupsIInv, AgreedSoFar, [GroupsNext]_groupVars PROVE AgreedSoFar'
  OBVIOUS
<1>1. ASSUME NEW q \in Requests, Unmoved(q), NEW u, NEW g
      PROVE  /\ Located(q)' = Located(q) /\ GivenGroups(q)' = GivenGroups(q)
             /\ DoneWith(q, u, g)' = DoneWith(q, u, g)
  BY <1>1 DEF Unmoved, Located, GivenGroups, DoneWith, ToAdd
<1>2. ASSUME job' = job, NEW u, NEW g
      PROVE  /\ \A q \in Requests : Wants(q, u, g)' = Wants(q, u, g)
             /\ \A w : AllAgree(u, g, w)' = AllAgree(u, g, w)
  <2>1. ASSUME NEW q \in Requests PROVE Wants(q, u, g)' = Wants(q, u, g)
    BY <1>2 DEF Wants
  <2> QED BY <2>1 DEF AllAgree
<1>3. CASE UNCHANGED groupVars
  <2>1. job' = job /\ iam' = iam /\ \A q \in Requests : Unmoved(q)
    BY <1>3 DEF groupVars, Unmoved
  <2> QED BY <1>1, <1>2, <2>1 DEF AgreedSoFar, Fitting
<1>4. ASSUME NEW r \in Requests, Step(r) PROVE AgreedSoFar'
  <2>1. GroupsTypeOK /\ Located(r) /\ GivenGroups(r)
    BY DEF AgreedSoFar, GroupsIInv
  <2>2. /\ \A q \in Requests \ {r} : Unmoved(q)
        /\ job' = job
    BY <1>4, <2>1, StepLeaves, StepKeepsJob
  <2>3. Located(r)' /\ GivenGroups(r)'
    BY <1>4, <2>1, StepLocates, StepGivesGroups
  <2>4. ASSUME NEW u \in Users, NEW g \in Groups, NEW w \in {"in", "out"}, NEW q \in Requests,
               AllAgree(u, g, w), Wants(q, u, g) = w, DoneWith(q, u, g)'
        PROVE  Fitting(u, g, w)'
    <3>1. Advances(r, u, g, w)
      BY <1>4, <2>1, <2>4, StepAdvances
    <3>2. DoneWith(q, u, g) \/ Fitting(u, g, w)'
      BY <1>1, <2>2, <2>4, <3>1 DEF Advances
    <3> QED BY <2>4, <3>1, <3>2 DEF AgreedSoFar, Advances
  <2> QED BY <1>1, <1>2, <2>2, <2>3, <2>4 DEF AgreedSoFar
<1> QED
  BY <1>3, <1>4 DEF GroupsNext

\* Theorem: requests that agree on a user and a group leave the two as they
\* agree, however their calls and goroutines interleave and whatever they read.
THEOREM AgreementHolds == GroupsSpec => []AgreedMembership
<1>1. GroupsInit => AgreedSoFar
  BY DEF GroupsInit, GroupsStart, AgreedSoFar, Located, GivenGroups, DoneWith
<1>2. AgreedSoFar => AgreedMembership
  BY Zenon DEF AgreedSoFar, AgreedMembership, AllAgree, DoneWith, Fitting
<1> QED
  BY <1>1, <1>2, StepKeepsAgreed, InductiveGroups, PTL DEF GroupsSpec

-----------------------------------------------------------------------------
(* Both at once, as MCRequests runs them.                                    *)

\* Theorem: in the specification that TLC runs, with any jobs, both components keep
\* their types, and each request is answered exactly when it is over.
THEOREM RequestsTypeCorrect == Spec => []TypeOK
<1> DEFINE Both == IInv /\ GroupsIInv
<1>1. Init => Both
  <2>1. CASE BucketInit /\ NoChange
    <3>1. AnyJob \in Job /\ GroupsStart
      BY <2>1, JobsAssumption, NoChangeAssumption DEF NoChange
    <3>2. iam \in IAM /\ job \in [Requests -> Jobs]
      BY <2>1, NoChangeAssumption DEF NoChange, IAM
    <3>3. GroupsTypeOK
      BY <3>1, <3>2 DEF GroupsStart, GroupsTypeOK
    <3>4. CallsAreMeant
      BY <3>1 DEF GroupsStart, CallsAreMeant
    <3> QED
      BY <2>1, <3>3, <3>4, InitIInv DEF GroupsIInv
  <2>2. CASE GroupsInit /\ NoMaker
    BY <2>2, InitialGroups, InitIInv DEF NoMaker
  <2> QED
    BY <2>1, <2>2 DEF Init
<1>2. Both /\ [Next]_vars => Both'
  <2> SUFFICES ASSUME Both, [Next]_vars PROVE Both'
    OBVIOUS
  <2>1. [BucketNext]_bucketVars /\ [GroupsNext]_groupVars
    BY DEF Next, vars
  <2> QED
    BY <2>1, StepKeepsIInv, StepKeepsGroupsIInv
<1>3. Both => TypeOK
  BY DEF IInv, GroupsIInv, TypeOK
<1> QED
  BY <1>1, <1>2, <1>3, PTL DEF Spec
================================================================================
