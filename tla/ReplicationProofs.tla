--------------------------- MODULE ReplicationProofs ---------------------------
(***************************************************************************)
(* Proofs about Replication, for any number of relations, buckets, old     *)
(* rules and deleting requests: the configurations MinIO holds stay well   *)
(* formed, and the rules there were at first are kept.                     *)
(***************************************************************************)
EXTENDS Replication, SequenceTheorems, WellFoundedInduction, TLAPS

-----------------------------------------------------------------------------
(* The next priority is above every priority of a configuration. *)

LEMMA MaxExists ==
  ASSUME NEW S \in SUBSET Nat, S # {}, NEW n \in Nat, \A x \in S : x <= n
  PROVE  Max(S) \in S /\ \A x \in S : x <= Max(S)
<1> DEFINE Above == {u \in Nat : \A x \in S : x <= u}
<1> DEFINE Less == OpToRel(<, Nat)
<1>1. Above \subseteq Nat /\ Above # {}
  OBVIOUS
<1>2. \A x, y \in Nat : y < x => <<y, x>> \in Less
  BY DEF OpToRel
<1>3. IsWellFoundedOn(Less, Nat)
  BY NatLessThanWellFounded
<1> HIDE DEF Less, Above
<1>4. PICK u \in Above : \A y \in Above : ~ (<<y, u>> \in Less)
  BY <1>1, <1>3, WFMin
<1> USE DEF Above
<1>5. u \in S
  <2>1. SUFFICES ASSUME u \notin S PROVE FALSE
    OBVIOUS
  <2>2. u \in Nat /\ \A x \in S : x < u /\ x \in Nat
    BY <2>1, <1>4
  <2>3. PICK z \in S : z < u /\ z \in Nat
    BY <2>2
  <2>4. \A x \in Nat : x < u => x <= u - 1
    BY <2>2
  <2>5. u - 1 \in Nat /\ u - 1 < u /\ \A x \in S : x <= u - 1
    BY <2>2, <2>3, <2>4
  <2>6. u - 1 \in Above
    BY <2>5
  <2>7. QED
    BY <2>2, <2>5, <2>6, <1>2, <1>4
<1>6. \E x \in S : \A y \in S : x >= y
  BY <1>4, <1>5
<1> QED
  BY <1>6 DEF Max

\* A configuration MinIO accepts has a highest priority.
Bounded(c) == \E n \in Nat : \A x \in c : x.prio <= n
Good(c) == WellFormed(c) /\ Bounded(c)

LEMMA NextPrioIsAbove ==
  ASSUME NEW c \in SUBSET Rule, Bounded(c)
  PROVE  NextPrio(c) \in Nat /\ \A x \in c : x.prio < NextPrio(c)
<1> DEFINE S == {0} \cup {x.prio : x \in c}
<1>1. S \in SUBSET Nat /\ 0 \in S
  BY DEF Rule
<1>2. PICK n \in Nat : \A x \in c : x.prio <= n
  BY DEF Bounded
<1>3. \A y \in S : y <= n
  BY <1>2
<1>4. Max(S) \in S /\ \A y \in S : y <= Max(S)
  BY <1>1, <1>3, MaxExists
<1>5. Max(S) \in Nat /\ \A x \in c : x.prio \in Nat /\ x.prio <= Max(S)
  BY <1>1, <1>4
<1>6. NextPrio(c) = Max(S) + 1
  BY DEF NextPrio
<1> HIDE DEF S
<1> QED
  BY <1>5, <1>6

\* Adding a rule with a new ID and the next priority keeps a configuration good.
LEMMA AddingKeepsGood ==
  ASSUME NEW c \in SUBSET Rule, Good(c), NEW r \in Ids, \A x \in c : x.id # r
  PROVE  LET new == c \cup {[id |-> r, prio |-> NextPrio(c)]}
         IN  new \in SUBSET Rule /\ Good(new)
<1> DEFINE p == NextPrio(c)
<1>1. p \in Nat /\ \A x \in c : x.prio < p /\ x.prio \in Nat
  BY NextPrioIsAbove DEF Good, Rule
<1> HIDE DEF p
<1> DEFINE new == c \cup {[id |-> r, prio |-> p]}
<1>2. new \in SUBSET Rule
  BY <1>1 DEF Rule
<1>3. \A x \in new : x.prio <= p
  BY <1>1
<1>4. \A x \in c : x.prio # p
  BY <1>1
<1>5. WellFormed(new)
  BY <1>4 DEF Good, WellFormed
<1>6. Good(new)
  BY <1>1, <1>3, <1>5 DEF Good, Bounded
<1> QED
  BY <1>2, <1>6 DEF p

LEMMA PartIsGood ==
  ASSUME NEW c, Good(c), NEW d \in SUBSET c
  PROVE  Good(d)
  BY DEF Good, WellFormed, Bounded

-----------------------------------------------------------------------------
(* The inductive invariant. *)

AllGood ==
  /\ \A b \in Buckets : Good(rules[b])
  /\ \A w \in Workers : Good(copy[w])

\* Nobody has a relation's rule before that relation writes it.
NewIdsFresh ==
  \A r \in Relations : pc[r] \in {"target", "read", "write"} =>
    /\ \A b \in Buckets : \A x \in rules[b] : x.id # r
    /\ \A w \in Workers : \A x \in copy[w] : x.id # r

\* A relation that works on bucket b failed to read its configuration.
Spoilt(b) == \E r \in unread \cap Relations : origin[r] = b

\* A configuration c of bucket b has every first rule that is not deleted.
Covers(c, b) == \A x \in initial[b] : x \in c \/ x.id \in deleted[b]

\* What is stored, and what is about to be stored, has every first rule.
OldCovered ==
  /\ \A b \in Buckets : Spoilt(b) \/ Covers(rules[b], b)
  /\ \A w \in Workers :
       pc[w] = "write" /\ w \notin unread =>
         Spoilt(BucketOf(w)) \/ Covers(copy[w], BucketOf(w))
  /\ \A d \in unread \cap Deleters : copy[d] = {}
  /\ \A w \in unread : pc[w] \notin {"target", "read"}

IInv == TypeOK /\ AllGood /\ NewIdsFresh /\ OldCovered

LEMMA InitIInv == Init => IInv
<1> SUFFICES ASSUME Init PROVE IInv
  OBVIOUS
<1>1. \A b \in Buckets : rules[b] \in OldConfigs
  BY DEF Init
<1>2. \A c \in OldConfigs : c \in SUBSET Rule /\ Good(c)
        /\ \A x \in c : x.id \in OldIds
  BY SizesAssumption DEF OldConfigs, Rule, Ids, Good, Bounded
<1>3. rules \in [Buckets -> SUBSET Rule]
  BY <1>2 DEF Init
<1>4. Good({})
  BY DEF Good, WellFormed, Bounded
<1>5. AllGood
  BY <1>1, <1>2, <1>4 DEF AllGood, Init
<1>6. NewIdsFresh
  BY <1>1, <1>2, IdsAssumption DEF NewIdsFresh, Init
<1>7. OldCovered
  BY DEF OldCovered, Covers, Init, Workers
<1>8. answers \in Seq(Relations \X {"ok", "error"})
  BY EmptySeq DEF Init
<1>9. TypeOK
  BY <1>3, <1>8, IdsAssumption DEF Init, TypeOK, Workers
<1> QED
  BY <1>5, <1>6, <1>7, <1>9 DEF IInv

-----------------------------------------------------------------------------
(* Every step keeps the invariant. *)

\* The part of TypeOK that is about control.
ControlOK ==
  /\ pc \in [Workers -> {"target", "read", "write", "send", "end"}]
  /\ result \in [Workers -> {"none", "ok", "error"}]
  /\ \A w \in Workers : result[w] = "none" <=> pc[w] \in {"target", "read", "write"}

\* The rest of TypeOK.
DataOK ==
  /\ rules \in [Buckets -> SUBSET Rule]
  /\ targets \subseteq Relations
  /\ origin \in [Relations -> Buckets]
  /\ job \in [Deleters -> [bucket : Buckets, id : Ids]]
  /\ copy \in [Workers -> SUBSET Rule]
  /\ answers \in Seq(Relations \X {"ok", "error"})
  /\ initial \in [Buckets -> SUBSET Rule]
  /\ unread \subseteq Workers
  /\ deleted \in [Buckets -> SUBSET Ids]

LEMMA TypeParts == TypeOK <=> ControlOK /\ DataOK
  BY DEF TypeOK, ControlOK, DataOK

LEMMA BucketOfType ==
  ASSUME TypeOK, NEW w \in Workers
  PROVE  BucketOf(w) \in Buckets
  BY DEF TypeOK, BucketOf, Workers

LEMMA FinishKeepsControl ==
  ASSUME ControlOK, NEW w \in Workers, NEW res \in {"ok", "error"},
         Finish(w, res)
  PROVE  ControlOK'
<1>1. CASE w \in Relations
  BY <1>1 DEF ControlOK, Finish, Goto
<1>2. CASE w \notin Relations
  BY <1>2 DEF ControlOK, Finish, Goto
<1> QED
  BY <1>1, <1>2

\* After it finished, a goroutine neither writes nor adds.
LEMMA FinishEnds ==
  ASSUME ControlOK, NEW w \in Workers, NEW res, Finish(w, res)
  PROVE  /\ pc'[w] \in {"send", "end"}
         /\ \A v \in Workers : v # w => pc'[v] = pc[v]
<1>1. pc' = [pc EXCEPT ![w] = IF w \in Relations THEN "send" ELSE "end"]
  BY DEF Finish, Goto
<1>2. \A v \in Workers : pc'[v] = IF v = w THEN (IF w \in Relations THEN "send" ELSE "end") ELSE pc[v]
  BY <1>1 DEF ControlOK
<1> QED
  BY <1>2

\* Goroutine w does not start to write, nor go back to before its read.
GoesNotBack(w) ==
  /\ pc'[w] = "write" => pc[w] = "write"
  /\ pc'[w] \in {"target", "read"} => pc[w] \in {"target", "read"}

\* When nothing but control and answers changes and nobody starts writing, the
\* parts of the invariant about configurations stay.
LEMMA ConfigsUntouched ==
  ASSUME IInv, UNCHANGED <<rules, request, copy, history>>,
         \A w \in Workers : GoesNotBack(w)
  PROVE  AllGood' /\ NewIdsFresh' /\ OldCovered'
<1>1. UNCHANGED <<rules, origin, job, copy, initial, unread, deleted>>
  BY DEF request, history
<1>2. AllGood'
  BY <1>1 DEF IInv, AllGood
<1>3. NewIdsFresh'
  BY <1>1 DEF IInv, NewIdsFresh, Workers, GoesNotBack
<1>4. OldCovered'
  <2>1. unread \subseteq Workers
    BY DEF IInv, TypeOK
  <2> QED
    BY <1>1, <2>1 DEF IInv, OldCovered, Spoilt, Covers, BucketOf, GoesNotBack
<1> QED
  BY <1>2, <1>3, <1>4

LEMMA AddRemoteBucketKeepsIInv ==
  ASSUME IInv, NEW r \in Relations, AddRemoteBucket(r)
  PROVE  IInv'
<1>1. /\ r \in Workers /\ pc[r] = "target"
      /\ targets' \subseteq targets \cup {r}
      /\ UNCHANGED <<rules, request, copy, answers, history>>
      /\ \/ Goto(r, "read") /\ UNCHANGED result
         \/ Finish(r, "error")
  BY DEF AddRemoteBucket, Workers
<1>2. ControlOK /\ DataOK
  BY TypeParts DEF IInv
<1>3. ControlOK' /\ \A w \in Workers : GoesNotBack(w)
  <2>1. CASE Goto(r, "read") /\ UNCHANGED result
    BY <1>1, <1>2, <2>1 DEF ControlOK, Goto, GoesNotBack
  <2>2. CASE Finish(r, "error")
    BY <1>1, <1>2, <2>2, FinishKeepsControl, FinishEnds DEF GoesNotBack
  <2> QED
    BY <1>1, <2>1, <2>2
<1>4. DataOK'
  BY <1>1, <1>2 DEF DataOK, request, history
<1>5. AllGood' /\ NewIdsFresh' /\ OldCovered'
  BY <1>1, <1>3, ConfigsUntouched
<1> QED
  BY <1>3, <1>4, <1>5, TypeParts DEF IInv, TypeOK, ControlOK, DataOK

LEMMA ReadConfigKeepsIInv ==
  ASSUME IInv, NEW w \in Workers, ReadConfig(w)
  PROVE  IInv'
<1> DEFINE b == BucketOf(w)
<1>1. /\ pc[w] = "read"
      /\ pc' = [pc EXCEPT ![w] = "write"]
      /\ UNCHANGED <<rules, targets, origin, job, result, answers, initial, deleted>>
      /\ \/ copy' = [copy EXCEPT ![w] = rules[b]] /\ unread' = unread
         \/ copy' = [copy EXCEPT ![w] = {}] /\ unread' = unread \cup {w}
  BY DEF ReadConfig, Goto, minio, request
<1>2. ControlOK /\ DataOK /\ b \in Buckets
  BY TypeParts, BucketOfType DEF IInv
<1> HIDE DEF b
<1>3. ControlOK'
  BY <1>1, <1>2 DEF ControlOK
<1>4. /\ copy'[w] \in {rules[b], {}}
      /\ \A v \in Workers : v # w => copy'[v] = copy[v] /\ pc'[v] = pc[v]
      /\ pc'[w] = "write"
  BY <1>1, <1>2 DEF DataOK, ControlOK
<1>5. DataOK'
  <2>1. rules[b] \in SUBSET Rule
    BY <1>2 DEF DataOK
  <2>2. copy' \in [Workers -> SUBSET Rule] /\ unread' \subseteq Workers
    BY <1>1, <1>2, <2>1 DEF DataOK
  <2> QED
    BY <1>1, <1>2, <2>2 DEF DataOK
<1>6. AllGood'
  <2>1. Good({})
    BY DEF Good, WellFormed, Bounded
  <2> QED
    BY <1>1, <1>2, <1>4, <2>1 DEF IInv, AllGood
<1>7. NewIdsFresh'
  <2> SUFFICES ASSUME NEW r \in Relations, pc'[r] \in {"target", "read", "write"}
               PROVE  /\ \A c \in Buckets : \A x \in rules[c] : x.id # r
                      /\ \A v \in Workers : \A x \in copy'[v] : x.id # r
    BY <1>1 DEF NewIdsFresh
  <2>1. pc[r] \in {"target", "read", "write"}
    BY <1>1, <1>4 DEF Workers
  <2>2. /\ \A c \in Buckets : \A x \in rules[c] : x.id # r
        /\ \A v \in Workers : \A x \in copy[v] : x.id # r
    BY <2>1 DEF IInv, NewIdsFresh
  <2> QED
    BY <1>2, <1>4, <2>2
<1>8. OldCovered'
  <2>1. \A c : BucketOf(c)' = BucketOf(c)
    BY <1>1 DEF BucketOf
  <2>2. \A c \in Buckets : Spoilt(c) => Spoilt(c)'
    BY <1>1 DEF Spoilt
  <2>3. \A c \in Buckets : Spoilt(c)' \/ Covers(rules[c], c)'
    BY <1>1, <2>2 DEF IInv, OldCovered, Covers
  <2>4. \A v \in Workers : pc'[v] = "write" /\ v \notin unread' =>
          Spoilt(BucketOf(v))' \/ Covers(copy'[v], BucketOf(v))
    <3> SUFFICES ASSUME NEW v \in Workers, pc'[v] = "write", v \notin unread'
                 PROVE  Spoilt(BucketOf(v))' \/ Covers(copy'[v], BucketOf(v))
      OBVIOUS
    <3>1. CASE v = w
      <4>1. copy'[w] = rules[b] /\ unread' = unread
        BY <1>1, <1>2, <3>1 DEF DataOK
      <4>2. Spoilt(b) \/ Covers(rules[b], b)
        BY <1>2 DEF IInv, OldCovered
      <4> QED
        BY <3>1, <4>1, <4>2, <1>1 DEF Spoilt, b, BucketOf
    <3>2. CASE v # w
      <4>1. pc[v] = "write" /\ v \notin unread /\ copy'[v] = copy[v]
        BY <1>1, <1>4, <3>2
      <4>2. Spoilt(BucketOf(v)) \/ Covers(copy[v], BucketOf(v))
        BY <4>1 DEF IInv, OldCovered
      <4> QED
        BY <4>1, <4>2, <1>1 DEF Spoilt, BucketOf
    <3> QED
      BY <3>1, <3>2
  <2>5. \A d \in unread' \cap Deleters : copy'[d] = {}
    BY <1>1, <1>2, <1>4 DEF IInv, OldCovered, DataOK, Workers
  <2>6. \A v \in Workers :
          pc'[v] = "write" /\ v \notin unread' =>
            Spoilt(BucketOf(v))' \/ Covers(copy[v], BucketOf(v))'
    BY <1>1, <2>1, <2>4 DEF Covers
  <2>7. \A v \in unread' : pc'[v] \notin {"target", "read"}
    BY <1>1, <1>2, <1>4 DEF IInv, OldCovered, DataOK
  <2> QED
    BY <2>3, <2>5, <2>6, <2>7 DEF OldCovered
<1> QED
  BY <1>3, <1>5, <1>6, <1>7, <1>8, TypeParts DEF IInv, TypeOK, ControlOK, DataOK

\* What a write of w that stores c has to satisfy, and what it then keeps.
LEMMA WriteKeepsIInv ==
  ASSUME IInv, NEW w \in Workers, pc[w] = "write",
         NEW res \in {"ok", "error"}, Finish(w, res),
         UNCHANGED <<targets, request, copy, answers, initial, unread>>,
         NEW c \in SUBSET Rule, Good(c),
         rules' = rules \/ Store(w, c),
         deleted' \in [Buckets -> SUBSET Ids],
         \A b \in Buckets : deleted[b] \subseteq deleted'[b],
         \A r \in Relations \ {w} : pc[r] \in {"target", "read", "write"} =>
                                    \A x \in c : x.id # r,
         \/ Spoilt(BucketOf(w))
         \/ rules' = rules
         \/ \A x \in initial[BucketOf(w)] : x \in c \/ x.id \in deleted'[BucketOf(w)]
  PROVE  IInv'
<1> DEFINE b == BucketOf(w)
<1>1. ControlOK /\ DataOK /\ b \in Buckets
  BY TypeParts, BucketOfType DEF IInv
<1>2. UNCHANGED <<targets, origin, job, copy, answers, initial, unread>>
  BY DEF request
<1>3. rules' = rules \/ rules' = [rules EXCEPT ![b] = c]
  BY DEF Store
<1> HIDE DEF b
<1>4. ControlOK'
  BY <1>1, FinishKeepsControl
<1>5. /\ pc'[w] \in {"send", "end"}
      /\ \A v \in Workers : v # w => pc'[v] = pc[v]
  BY <1>1, FinishEnds
<1>6. /\ \A e \in Buckets : e # b => rules'[e] = rules[e]
      /\ rules'[b] \in {rules[b], c}
      /\ rules' \in [Buckets -> SUBSET Rule]
  BY <1>1, <1>3 DEF DataOK
<1>7. DataOK'
  BY <1>1, <1>2, <1>6 DEF DataOK
<1>8. AllGood'
  BY <1>1, <1>2, <1>6 DEF IInv, AllGood
<1>9. NewIdsFresh'
  <2> SUFFICES ASSUME NEW r \in Relations, pc'[r] \in {"target", "read", "write"}
               PROVE  /\ \A e \in Buckets : \A x \in rules'[e] : x.id # r
                      /\ \A v \in Workers : \A x \in copy'[v] : x.id # r
    BY DEF NewIdsFresh
  <2>1. r # w /\ pc[r] \in {"target", "read", "write"}
    BY <1>5 DEF Workers
  <2>2. /\ \A e \in Buckets : \A x \in rules[e] : x.id # r
        /\ \A v \in Workers : \A x \in copy[v] : x.id # r
        /\ \A x \in c : x.id # r
    BY <2>1 DEF IInv, NewIdsFresh
  <2> QED
    BY <1>2, <1>6, <2>2
<1>10. OldCovered'
  <2>1. \A e \in Buckets : Spoilt(e)' = Spoilt(e)
    BY <1>2 DEF Spoilt
  <2>2. \A e \in Buckets : Spoilt(e)' \/ Covers(rules[e], e)'
    <3> SUFFICES ASSUME NEW e \in Buckets, ~ Spoilt(e)
                 PROVE  \A x \in initial[e] : x \in rules'[e] \/ x.id \in deleted'[e]
      BY <1>2, <2>1 DEF Covers
    <3>1. \A x \in initial[e] : x \in rules[e] \/ x.id \in deleted'[e]
      BY DEF IInv, OldCovered, Covers
    <3>2. CASE rules'[e] = rules[e]
      BY <3>1, <3>2
    <3>3. CASE e = b /\ rules' # rules
      <4>1. rules'[e] = c
        BY <1>1, <1>3, <3>3 DEF DataOK
      <4> QED
        BY <4>1, <3>3 DEF b
    <3> QED
      BY <1>6, <3>2, <3>3
  <2>3. \A v \in Workers : BucketOf(v)' = BucketOf(v) /\ BucketOf(v) \in Buckets
    BY <1>2, BucketOfType DEF BucketOf, IInv
  <2>4. \A v \in Workers :
          pc'[v] = "write" /\ v \notin unread' =>
            Spoilt(BucketOf(v))' \/ Covers(copy[v], BucketOf(v))'
    <3> SUFFICES ASSUME NEW v \in Workers, pc'[v] = "write", v \notin unread'
                 PROVE  Spoilt(BucketOf(v)) \/
                        \A x \in initial[BucketOf(v)] :
                          x \in copy[v] \/ x.id \in deleted'[BucketOf(v)]
      BY <1>2, <2>1, <2>3 DEF Covers, Spoilt
    <3>1. pc[v] = "write" /\ v \notin unread
      BY <1>2, <1>5
    <3>2. Spoilt(BucketOf(v)) \/ Covers(copy[v], BucketOf(v))
      BY <3>1 DEF IInv, OldCovered
    <3> QED
      BY <3>2, <2>3 DEF Covers
  <2>5. \A d \in unread' \cap Deleters : copy'[d] = {}
    BY <1>2 DEF IInv, OldCovered
  <2>6. \A v \in unread' : pc'[v] \notin {"target", "read"}
    BY <1>1, <1>2, <1>5 DEF IInv, OldCovered, DataOK
  <2> QED
    BY <2>2, <2>4, <2>5, <2>6 DEF OldCovered
<1> QED
  BY <1>4, <1>7, <1>8, <1>9, <1>10, TypeParts DEF IInv, TypeOK, ControlOK, DataOK

LEMMA AddRuleKeepsIInv ==
  ASSUME IInv, NEW r \in Relations, AddRule(r)
  PROVE  IInv'
<1> DEFINE new == copy[r] \cup {[id |-> r, prio |-> NextPrio(copy[r])]}
<1>1. /\ r \in Workers /\ r \in Ids /\ pc[r] = "write"
      /\ rules' = rules \/ Store(r, new)
      /\ \E res \in {"ok", "error"} : Finish(r, res)
      /\ UNCHANGED <<targets, request, copy, answers, initial, unread, deleted>>
  BY DEF AddRule, Workers, Ids, history
<1>2. copy[r] \in SUBSET Rule /\ Good(copy[r]) /\ \A x \in copy[r] : x.id # r
  BY <1>1 DEF IInv, TypeOK, AllGood, NewIdsFresh
<1>3. new \in SUBSET Rule /\ Good(new)
  BY <1>1, <1>2, AddingKeepsGood
<1>4. \A s \in Relations \ {r} : pc[s] \in {"target", "read", "write"} =>
                                 \A x \in new : x.id # s
  BY <1>1 DEF IInv, NewIdsFresh
<1>5. BucketOf(r) = origin[r] /\ BucketOf(r) \in Buckets
  BY <1>1, BucketOfType DEF BucketOf, IInv
<1>6. \/ Spoilt(BucketOf(r))
      \/ \A x \in initial[BucketOf(r)] : x \in new \/ x.id \in deleted'[BucketOf(r)]
  <2>1. CASE r \in unread
    BY <2>1, <1>5 DEF Spoilt
  <2>2. CASE r \notin unread
    BY <2>2, <1>1 DEF IInv, OldCovered, Covers
  <2> QED
    BY <2>1, <2>2
<1>7. /\ deleted' \in [Buckets -> SUBSET Ids]
      /\ \A b \in Buckets : deleted[b] \subseteq deleted'[b]
  BY <1>1 DEF IInv, TypeOK
<1> HIDE DEF new
<1> QED
  BY <1>1, <1>3, <1>4, <1>6, <1>7, WriteKeepsIInv

LEMMA DeleteRuleKeepsIInv ==
  ASSUME IInv, NEW d \in Deleters, DeleteRule(d)
  PROVE  IInv'
<1> DEFINE id == job[d].id
<1> DEFINE gone == {x \in copy[d] : x.id = id}
<1> DEFINE left == copy[d] \ gone
<1>1. /\ d \in Workers /\ pc[d] = "write"
      /\ \E res \in {"ok", "error"} : Finish(d, res)
      /\ UNCHANGED <<targets, request, copy, answers, initial, unread>>
      /\ \/ rules' = rules /\ deleted' = deleted
         \/ /\ gone # {}
            /\ Store(d, left)
            /\ deleted' = [deleted EXCEPT ![job[d].bucket] = @ \cup {id}]
  BY DEF DeleteRule, Workers
<1>2. copy[d] \in SUBSET Rule /\ Good(copy[d]) /\ left \in SUBSET copy[d]
  BY <1>1 DEF IInv, TypeOK, AllGood
<1>3. left \in SUBSET Rule /\ Good(left)
  BY <1>2, PartIsGood
<1>4. \A s \in Relations \ {d} : pc[s] \in {"target", "read", "write"} =>
                                 \A x \in left : x.id # s
  BY <1>1 DEF IInv, NewIdsFresh
<1>5. BucketOf(d) = job[d].bucket /\ BucketOf(d) \in Buckets
  BY <1>1, IdsAssumption, BucketOfType DEF BucketOf, IInv
<1>6. id \in Ids
  BY DEF IInv, TypeOK
<1>7. /\ deleted' \in [Buckets -> SUBSET Ids]
      /\ \A b \in Buckets : deleted[b] \subseteq deleted'[b]
  BY <1>1, <1>5, <1>6 DEF IInv, TypeOK
<1>8. \/ Spoilt(BucketOf(d))
      \/ rules' = rules
      \/ \A x \in initial[BucketOf(d)] : x \in left \/ x.id \in deleted'[BucketOf(d)]
  <2> SUFFICES ASSUME ~ Spoilt(BucketOf(d)), rules' # rules,
                      NEW x \in initial[BucketOf(d)], x \notin left
               PROVE  x.id \in deleted'[BucketOf(d)]
    OBVIOUS
  <2>1. d \notin unread
    BY <1>1 DEF IInv, OldCovered
  <2>2. x \in copy[d] \/ x.id \in deleted[BucketOf(d)]
    BY <1>1, <2>1 DEF IInv, OldCovered, Covers
  <2>3. x \in copy[d] => x.id = id
    OBVIOUS
  <2>4. deleted' = [deleted EXCEPT ![BucketOf(d)] = @ \cup {id}]
    BY <1>1, <1>5
  <2>5. deleted'[BucketOf(d)] = deleted[BucketOf(d)] \cup {id}
    BY <2>4, <1>5 DEF IInv, TypeOK
  <2> QED
    BY <2>2, <2>3, <2>5
<1> HIDE DEF left, gone, id
<1>9. rules' = rules \/ Store(d, left)
  BY <1>1
<1> QED
  BY <1>1, <1>3, <1>4, <1>7, <1>8, <1>9, WriteKeepsIInv

LEMMA CollectKeepsIInv == IInv /\ Collect => IInv'
<1> SUFFICES ASSUME IInv, Collect PROVE IInv'
  OBVIOUS
<1> DEFINE r == Len(answers) + 1
<1>1. /\ r \in Relations /\ r \in Workers
      /\ pc[r] = "send"
      /\ answers' = Append(answers, <<r, result[r]>>)
      /\ pc' = [pc EXCEPT ![r] = "end"]
      /\ UNCHANGED <<minio, request, copy, result, history>>
  BY DEF Collect, Goto, Workers
<1>2. ControlOK /\ DataOK
  BY TypeParts DEF IInv
<1> HIDE DEF r
<1>3. ControlOK' /\ \A w \in Workers : GoesNotBack(w)
  BY <1>1, <1>2 DEF ControlOK, GoesNotBack
<1>4. result[r] \in {"ok", "error"}
  BY <1>1, <1>2 DEF ControlOK
<1>5. answers' \in Seq(Relations \X {"ok", "error"})
  BY <1>1, <1>2, <1>4, AppendProperties DEF DataOK
<1>6. DataOK'
  BY <1>1, <1>2, <1>5 DEF DataOK, minio, request, history
<1>7. AllGood' /\ NewIdsFresh' /\ OldCovered'
  BY <1>1, <1>3, ConfigsUntouched DEF minio
<1> QED
  BY <1>3, <1>6, <1>7, TypeParts DEF IInv, TypeOK, ControlOK, DataOK

LEMMA StepKeepsIInv == IInv /\ [Next]_vars => IInv'
<1> SUFFICES ASSUME IInv, [Next]_vars PROVE IInv'
  OBVIOUS
<1>1. CASE \E r \in Relations : RelationStep(r)
  BY <1>1, AddRemoteBucketKeepsIInv, ReadConfigKeepsIInv, AddRuleKeepsIInv
  DEF RelationStep, Workers
<1>2. CASE \E d \in Deleters : DeleterStep(d)
  BY <1>2, ReadConfigKeepsIInv, DeleteRuleKeepsIInv DEF DeleterStep, Workers
<1>3. CASE Collect
  BY <1>3, CollectKeepsIInv
<1>4. CASE UNCHANGED vars
  BY <1>4 DEF vars, minio, request, history, IInv, TypeOK, AllGood, NewIdsFresh,
     OldCovered, Spoilt, Covers, BucketOf
<1> QED
  BY <1>1, <1>2, <1>3, <1>4 DEF Next

-----------------------------------------------------------------------------
(* The theorems. *)

\* Theorem: the strengthened invariant holds in every reachable state of
\* setMultiBucketReplication and deleteReplicationRule.
THEOREM Inductive == Spec => []IInv
  BY InitIInv, StepKeepsIInv, PTL DEF Spec

\* Theorem: every variable keeps its type, and a goroutine has a result exactly
\* when it is past its calls to MinIO.
THEOREM TypeCorrect == Spec => []TypeOK
<1>1. IInv => TypeOK
  BY DEF IInv
<1> QED
  BY <1>1, Inductive, PTL

\* Theorem: maxPrio + 1, computed from a copy that may be out of date, never
\* leads to two rules of one configuration with the same priority or ID.
THEOREM ConfigurationsWellFormed == Spec => []StoredWellFormed
<1>1. IInv => StoredWellFormed
  BY DEF IInv, AllGood, Good, StoredWellFormed
<1> QED
  BY <1>1, Inductive, PTL

\* Theorem: whatever the interleaving of reads and writes of whole
\* configurations, a first rule is lost only by a request to delete it or
\* through a relation whose read failed.
THEOREM FirstRulesKept == Spec => []OldRulesKept
<1>1. IInv => OldRulesKept
  BY DEF IInv, OldCovered, Spoilt, Covers, OldRulesKept
<1> QED
  BY <1>1, Inductive, PTL

-----------------------------------------------------------------------------
(* What a relation that is reported as done leaves. *)

\* A relation goes on only with its remote target registered.
TargetFirst ==
  \A r \in Relations : pc[r] \in {"read", "write"} \/ result[r] = "ok" => r \in targets

\* Nobody else writes the configuration of a bucket one relation works on.
LoneRuleStored ==
  \A r \in Relations : result[r] = "ok" /\ Alone(r) => HasRule(origin[r], r)

OnlyRelations(b) == \A d \in Deleters : job[d].bucket # b

\* Whoever of a bucket's relations writes last has its rule in it.
LastRuleStored ==
  \A b \in Buckets : OnlyRelations(b) =>
    \A r \in Relations : origin[r] = b /\ result[r] = "ok" =>
      \E s \in Relations : origin[s] = b /\ HasRule(b, s)

Kept == TargetFirst /\ LoneRuleStored /\ LastRuleStored

\* A step that stores nothing and reports no relation as done.
LEMMA NothingStored ==
  ASSUME Kept, UNCHANGED <<rules, request>>,
         \A r \in Relations : result'[r] = "ok" => result[r] = "ok"
  PROVE  LoneRuleStored' /\ LastRuleStored'
<1>1. UNCHANGED <<rules, origin, job>>
  BY DEF request
<1> QED
  BY <1>1, Zenon DEF Kept, LoneRuleStored, LastRuleStored, OnlyRelations, Alone, HasRule

LEMMA AddRemoteBucketKeeps ==
  ASSUME IInv, Kept, NEW r \in Relations, AddRemoteBucket(r)
  PROVE  Kept'
<1>1. /\ pc[r] = "target" /\ r \in Workers /\ result[r] = "none" /\ ControlOK
      /\ UNCHANGED <<rules, request>>
  BY TypeParts DEF AddRemoteBucket, IInv, Workers, ControlOK
<1>2. /\ targets \subseteq targets'
      /\ \A q \in Workers : q # r => pc'[q] = pc[q] /\ result'[q] = result[q]
      /\ \/ pc'[r] = "read" /\ r \in targets' /\ result'[r] = "none"
         \/ pc'[r] = "send" /\ result'[r] = "error"
  <2>1. CASE Goto(r, "read") /\ UNCHANGED result /\ targets' = targets \cup {r}
    BY <1>1, <2>1 DEF Goto, ControlOK
  <2>2. CASE Finish(r, "error") /\ targets \subseteq targets'
    BY <1>1, <2>2 DEF Finish, Goto, ControlOK
  <2> QED BY <2>1, <2>2 DEF AddRemoteBucket, Outcomes
<1>3. TargetFirst'
  BY <1>2 DEF Kept, TargetFirst, Workers
<1>4. \A q \in Relations : result'[q] = "ok" => result[q] = "ok"
  BY <1>2 DEF Workers
<1> QED
  BY <1>1, <1>3, <1>4, NothingStored DEF Kept

LEMMA ReadConfigKeeps ==
  ASSUME IInv, Kept, NEW w \in Workers, ReadConfig(w)
  PROVE  Kept'
<1>1. UNCHANGED <<rules, targets, request, result>> /\ pc[w] = "read" /\ ControlOK
  BY TypeParts DEF ReadConfig, minio, IInv
<1>2. \A q \in Workers : pc'[q] \in {"read", "write"} => pc[q] \in {"read", "write"}
  BY <1>1 DEF ReadConfig, Goto, ControlOK
<1>3. TargetFirst'
  BY <1>1, <1>2 DEF Kept, TargetFirst, Workers
<1> QED
  BY <1>1, <1>3, NothingStored DEF Kept

LEMMA AddRuleKeeps ==
  ASSUME IInv, Kept, NEW r \in Relations, AddRule(r)
  PROVE  Kept'
<1>1. /\ pc[r] = "write" /\ r \in Workers /\ ControlOK /\ DataOK
      /\ UNCHANGED <<targets, origin, job>>
  BY TypeParts DEF AddRule, request, IInv, Workers
<1> DEFINE new == copy[r] \cup {[id |-> r, prio |-> NextPrio(copy[r])]}
<1>2. BucketOf(r) = origin[r] /\ origin[r] \in Buckets
  BY <1>1 DEF BucketOf, DataOK
<1>3. \E x \in new : x.id = r
  <2> DEFINE mine == [id |-> r, prio |-> NextPrio(copy[r])]
  <2>1. mine \in new
    OBVIOUS
  <2>2. mine.id = r
    OBVIOUS
  <2> HIDE DEF mine, new
  <2> QED BY <2>1, <2>2
<1> HIDE DEF new
<1>4. PICK res \in {"ok", "error"} :
        /\ Finish(r, res)
        /\ \/ UNCHANGED rules /\ res = "error"
           \/ rules' = [rules EXCEPT ![origin[r]] = new]
  BY <1>2 DEF AddRule, Outcomes, Store, new
<1>5. /\ pc'[r] = "send" /\ result'[r] = res
      /\ \A q \in Workers : q # r => pc'[q] = pc[q] /\ result'[q] = result[q]
  BY <1>1, <1>4 DEF Finish, Goto, ControlOK
<1>6. TargetFirst'
  BY <1>1, <1>5 DEF Kept, TargetFirst, Workers
<1>7. CASE UNCHANGED rules /\ res = "error"
  <2>1. \A q \in Relations : result'[q] = "ok" => result[q] = "ok"
    BY <1>5, <1>7 DEF Workers
  <2> QED BY <1>1, <1>6, <1>7, <2>1, NothingStored DEF Kept, request
<1>8. CASE rules' = [rules EXCEPT ![origin[r]] = new]
  <2>1. /\ rules'[origin[r]] = new
        /\ \A b \in Buckets : b # origin[r] => rules'[b] = rules[b]
    BY <1>1, <1>2, <1>8 DEF DataOK
  <2>2. \A q \in Relations : q \in Workers /\ origin[q] \in Buckets
    BY <1>1 DEF Workers, DataOK
  <2>3. LoneRuleStored'
    <3> SUFFICES ASSUME NEW q \in Relations, result'[q] = "ok", Alone(q)
                 PROVE  \E x \in rules'[origin[q]] : x.id = q
      BY <1>1 DEF LoneRuleStored, Alone, HasRule
    <3>1. CASE q = r
      BY <1>3, <2>1, <3>1
    <3>2. CASE q # r
      <4>1. origin[q] # origin[r] /\ result[q] = "ok"
        BY <1>5, <2>2, <3>2 DEF Alone
      <4> QED BY <2>1, <2>2, <4>1 DEF Kept, LoneRuleStored, HasRule
    <3> QED BY <3>1, <3>2
  <2>4. LastRuleStored'
    <3> SUFFICES ASSUME NEW b \in Buckets, OnlyRelations(b),
                        NEW q \in Relations, origin[q] = b, result'[q] = "ok"
                 PROVE  \E s \in Relations : origin[s] = b /\ \E x \in rules'[b] : x.id = s
      BY <1>1 DEF LastRuleStored, OnlyRelations, HasRule
    <3>1. CASE b = origin[r]
      BY <1>3, <2>1, <3>1
    <3>2. CASE b # origin[r]
      <4>1. result[q] = "ok" /\ rules'[b] = rules[b]
        BY <1>5, <2>1, <2>2, <3>2
      <4> QED BY <4>1 DEF Kept, LastRuleStored, HasRule
    <3> QED BY <3>1, <3>2
  <2> QED BY <1>6, <2>3, <2>4 DEF Kept
<1> QED
  BY <1>4, <1>7, <1>8

LEMMA DeleteRuleKeeps ==
  ASSUME IInv, Kept, NEW d \in Deleters, DeleteRule(d)
  PROVE  Kept'
<1>1. /\ d \in Workers /\ d \notin Relations /\ ControlOK /\ DataOK
      /\ UNCHANGED <<targets, origin, job>> /\ BucketOf(d) = job[d].bucket
  BY IdsAssumption, TypeParts DEF DeleteRule, request, IInv, Workers, BucketOf
<1>2. \A q \in Relations : pc'[q] = pc[q] /\ result'[q] = result[q]
  BY <1>1 DEF DeleteRule, Finish, Goto, ControlOK, Workers
<1>3. \A b \in Buckets : OnlyRelations(b) => rules'[b] = rules[b]
  BY <1>1 DEF DeleteRule, Store, OnlyRelations, DataOK
<1>4. \A r \in Relations : origin[r] \in Buckets /\ (Alone(r) => OnlyRelations(origin[r]))
  BY <1>1 DEF Alone, OnlyRelations, DataOK
<1>5. TargetFirst'
  BY <1>1, <1>2 DEF Kept, TargetFirst
<1>6. LoneRuleStored'
  BY <1>1, <1>2, <1>3, <1>4 DEF Kept, LoneRuleStored, Alone, HasRule
<1>7. LastRuleStored'
  BY <1>1, <1>2, <1>3 DEF Kept, LastRuleStored, OnlyRelations, HasRule
<1> QED
  BY <1>5, <1>6, <1>7 DEF Kept

LEMMA CollectKeeps == ASSUME IInv, Kept, Collect PROVE Kept'
<1>1. UNCHANGED <<rules, targets, request, result>> /\ ControlOK
  BY TypeParts DEF Collect, minio, IInv
<1>2. \A q \in Workers : pc'[q] \in {"read", "write"} => pc[q] \in {"read", "write"}
  BY <1>1 DEF Collect, Goto, ControlOK
<1>3. TargetFirst'
  BY <1>1, <1>2 DEF Kept, TargetFirst, Workers
<1> QED
  BY <1>1, <1>3, NothingStored DEF Kept

\* Theorem: a relation reported as done has its remote target, and its rule when
\* nobody else works on its bucket; when a relation of a bucket that no request deletes
\* from was answered without an error, the rule of one of that bucket's relations is
\* stored, though perhaps of one answered with an error, however their writes interleave.
THEOREM DoneIsStored == Spec => []OwnRuleStored
<1>1. Init => Kept
  BY DEF Init, Kept, TargetFirst, LoneRuleStored, LastRuleStored, Workers
<1>2. IInv /\ Kept /\ [Next]_vars => Kept'
  <2> SUFFICES ASSUME IInv, Kept, [Next]_vars PROVE Kept'
    OBVIOUS
  <2>1. CASE \E r \in Relations : RelationStep(r)
    BY <2>1, AddRemoteBucketKeeps, ReadConfigKeeps, AddRuleKeeps DEF RelationStep, Workers
  <2>2. CASE \E d \in Deleters : DeleterStep(d)
    BY <2>2, ReadConfigKeeps, DeleteRuleKeeps DEF DeleterStep, Workers
  <2>3. CASE Collect
    BY <2>3, CollectKeeps
  <2>4. CASE UNCHANGED vars
    <3>1. UNCHANGED <<rules, targets, request, pc, result>>
      BY <2>4 DEF vars, minio
    <3>2. TargetFirst'
      BY <3>1 DEF Kept, TargetFirst
    <3> QED BY <3>1, <3>2, NothingStored DEF Kept
  <2> QED BY <2>1, <2>2, <2>3, <2>4 DEF Next
<1>3. IInv /\ Kept => OwnRuleStored
  BY DEF Kept, TargetFirst, LoneRuleStored, LastRuleStored, OnlyRelations, OwnRuleStored
<1> QED
  BY <1>1, <1>2, <1>3, Inductive, PTL DEF Spec
=============================================================================
