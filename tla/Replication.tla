------------------------------ MODULE Replication ------------------------------
(***************************************************************************)
(* setMultiBucketReplication: one request sets up replication for several  *)
(* buckets at once. For every relation <<origin bucket, target bucket>> a  *)
(* goroutine registers the remote target and then adds a rule to the       *)
(* origin's replication configuration, which it does by reading the whole  *)
(* configuration and writing the whole configuration back. The handler     *)
(* collects the results in the order of the request. Other requests delete *)
(* a rule of the same buckets in the same way.                             *)
(*                                                                         *)
(* MinIO (external) holds the configurations; any call may fail, or be     *)
(* carried out and lose its reply.                                         *)
(***************************************************************************)
EXTENDS Integers, Sequences, FiniteSetsExt

CONSTANTS
  NumRelations,  \* relations of the request
  Deleters,      \* requests that delete a rule
  Buckets,       \* origin buckets
  OldIds,        \* rules there may have been before
  MaxOldPrio     \* their highest priority

Relations == 1..NumRelations

ASSUME SizesAssumption == NumRelations \in Nat /\ MaxOldPrio \in Nat
ASSUME IdsAssumption == Relations \cap OldIds = {} /\ Relations \cap Deleters = {}

VARIABLES
  rules,     \* the replication configuration MinIO holds for each bucket
  targets,   \* the relations whose remote target is registered
  origin,    \* the origin bucket of each relation
  job,       \* the bucket and the rule each deleting request names
  pc,        \* where each goroutine is
  copy,      \* cfg, the configuration a goroutine read
  result,    \* how it went
  answers,   \* resultsList
  initial,   \* the rules there were at first (history)
  unread,    \* goroutines whose read failed (history)
  deleted    \* rules taken out of a bucket on request (history)

minio == <<rules, targets>>
request == <<origin, job>>
history == <<initial, unread, deleted>>
vars == <<minio, request, pc, copy, result, answers, history>>

Workers == Relations \cup Deleters
Ids == OldIds \cup Relations

\* A rule is known by an ID of its own, which MinIO's library makes up; here it
\* is the relation that added the rule.
Rule == [id : Ids, prio : Nat]

\* A configuration as MinIO accepts it.
WellFormed(c) == \A x, y \in c : x.id = y.id \/ x.prio = y.prio => x = y

OldConfigs ==
  {c \in SUBSET [id : OldIds, prio : 1..MaxOldPrio] : WellFormed(c)}

Outcomes == {"ok", "fail", "lost"}

BucketOf(w) == IF w \in Relations THEN origin[w] ELSE job[w].bucket

TypeOK ==
  /\ rules \in [Buckets -> SUBSET Rule]
  /\ targets \subseteq Relations
  /\ origin \in [Relations -> Buckets]
  /\ job \in [Deleters -> [bucket : Buckets, id : Ids]]
  /\ pc \in [Workers -> {"target", "read", "write", "send", "end"}]
  /\ copy \in [Workers -> SUBSET Rule]
  /\ result \in [Workers -> {"none", "ok", "error"}]
  /\ answers \in Seq(Relations \X {"ok", "error"})
  /\ initial \in [Buckets -> SUBSET Rule]
  /\ unread \subseteq Workers
  /\ deleted \in [Buckets -> SUBSET Ids]
  /\ \A w \in Workers : result[w] = "none" <=> pc[w] \in {"target", "read", "write"}

Init ==
  /\ rules \in [Buckets -> OldConfigs]
  /\ targets = {}
  /\ origin \in [Relations -> Buckets]
  /\ job \in [Deleters -> [bucket : Buckets, id : Ids]]
  /\ pc = [w \in Workers |-> IF w \in Relations THEN "target" ELSE "read"]
  /\ copy = [w \in Workers |-> {}]
  /\ result = [w \in Workers |-> "none"]
  /\ answers = <<>>
  /\ initial = rules
  /\ unread = {}
  /\ deleted = [b \in Buckets |-> {}]

Goto(w, label) == pc' = [pc EXCEPT ![w] = label]

\* A goroutine of setMultiBucketReplication offers its result on its channel; a
\* deleting request answers.
Finish(w, res) ==
  /\ Goto(w, IF w \in Relations THEN "send" ELSE "end")
  /\ result' = [result EXCEPT ![w] = res]

-----------------------------------------------------------------------------
(* The steps of a goroutine. *)

\* addRemoteBucket.
AddRemoteBucket(r) ==
  /\ pc[r] = "target"
  /\ \E outcome \in Outcomes :
       /\ targets' = IF outcome = "fail" THEN targets ELSE targets \cup {r}
       /\ IF outcome = "ok" THEN Goto(r, "read") /\ UNCHANGED result
                            ELSE Finish(r, "error")
  /\ UNCHANGED <<rules, request, copy, answers, history>>

\* getBucketReplication: a failure leaves the copy empty and is only logged.
ReadConfig(w) ==
  /\ pc[w] = "read"
  /\ \/ copy' = [copy EXCEPT ![w] = rules[BucketOf(w)]] /\ UNCHANGED unread
     \/ copy' = [copy EXCEPT ![w] = {}] /\ unread' = unread \cup {w}
  /\ Goto(w, "write")
  /\ UNCHANGED <<minio, request, result, answers, initial, deleted>>

\* Mutated form of NextPrio: the number of rules and one more.
CountedPrio(c) == Cardinality(c) + 1

NextPrio(c) == Max({0} \cup {x.prio : x \in c}) + 1

\* setReplication puts the whole configuration c in the place of the one there is.
Store(w, c) == rules' = [rules EXCEPT ![BucketOf(w)] = c]

\* Mutated form of AddRule: the configuration holds the new rule alone.
AddRuleAlone(r) ==
  /\ pc[r] = "write"
  /\ Store(r, {[id |-> r, prio |-> 1]})
  /\ Finish(r, "ok")
  /\ UNCHANGED <<targets, request, copy, answers, history>>

\* Mutated form of AddRule: an error of setReplication is only logged.
AddRuleLogged(r) ==
  /\ pc[r] = "write"
  /\ \/ Store(r, copy[r] \cup {[id |-> r, prio |-> NextPrio(copy[r])]})
     \/ UNCHANGED rules
  /\ Finish(r, "ok")
  /\ UNCHANGED <<targets, request, copy, answers, history>>

\* addBucketReplicationItem, after its read.
AddRule(r) ==
  /\ pc[r] = "write"
  /\ \E outcome \in Outcomes :
       /\ IF outcome = "fail"
          THEN UNCHANGED rules
          ELSE Store(r, copy[r] \cup {[id |-> r, prio |-> NextPrio(copy[r])]})
       /\ Finish(r, IF outcome = "ok" THEN "ok" ELSE "error")
  /\ UNCHANGED <<targets, request, copy, answers, history>>

\* deleteReplicationRule, after its read. MinIO's library finds no rule with the
\* ID in an empty configuration; it may refuse to remove the only rule.
DeleteRule(d) ==
  LET gone == {x \in copy[d] : x.id = job[d].id}
      b == job[d].bucket
  IN  /\ pc[d] = "write"
      /\ \E outcome \in Outcomes :
           /\ IF outcome = "fail"
              THEN UNCHANGED <<rules, deleted>>
              ELSE /\ gone # {}
                   /\ Store(d, copy[d] \ gone)
                   /\ deleted' = [deleted EXCEPT ![b] = @ \cup {job[d].id}]
           /\ Finish(d, IF outcome = "ok" THEN "ok" ELSE "error")
      /\ UNCHANGED <<targets, request, copy, answers, initial, unread>>

-----------------------------------------------------------------------------
(* The handler. *)

\* The handler waits for the channels one after the other; they are unbuffered.
Collect ==
  LET r == Len(answers) + 1
  IN  /\ r \in Relations
      /\ pc[r] = "send"
      /\ answers' = Append(answers, <<r, result[r]>>)
      /\ Goto(r, "end")
      /\ UNCHANGED <<minio, request, copy, result, history>>

-----------------------------------------------------------------------------
RelationStep(r) == AddRemoteBucket(r) \/ ReadConfig(r) \/ AddRule(r)
DeleterStep(d) == ReadConfig(d) \/ DeleteRule(d)

Next ==
  \/ \E r \in Relations : RelationStep(r)
  \/ \E d \in Deleters : DeleterStep(d)
  \/ Collect

Spec == Init /\ [][Next]_vars

\* Goroutines are scheduled and MinIO's calls return.
Progress == Collect \/ \E r \in Relations : RelationStep(r)
Fairness == WF_vars(Progress)

FairSpec == Spec /\ Fairness

-----------------------------------------------------------------------------
(* Properties. *)

HasRule(b, id) == \E x \in rules[b] : x.id = id

\* Only one request works on the bucket of relation r.
Alone(r) ==
  /\ \A s \in Relations : s # r => origin[s] # origin[r]
  /\ \A d \in Deleters : job[d].bucket # origin[r]

\* A relation answered without an error has its remote target and its rule,
\* unless another relation or request works on the same bucket. Relations that
\* share a bucket overwrite each other's rule, but never all of them: once one was
\* answered without an error, the rule of one of them is stored, if no request
\* deletes from the bucket. (That one may have been answered with an error: its
\* write was carried out over the other's and the reply was lost.)
OwnRuleStored ==
  /\ \A r \in Relations :
       result[r] = "ok" => r \in targets /\ (Alone(r) => HasRule(origin[r], r))
  /\ \A b \in Buckets :
       /\ \E r \in Relations : origin[r] = b /\ result[r] = "ok"
       /\ \A d \in Deleters : job[d].bucket # b
       => \E r \in Relations : origin[r] = b /\ HasRule(b, r)

\* A rule there was at first goes only on request, or when a relation's read of
\* the bucket's configuration failed, however reads and writes interleave.
OldRulesKept ==
  \A b \in Buckets :
    \/ \E r \in unread \cap Relations : origin[r] = b
    \/ \A x \in initial[b] : x \in rules[b] \/ x.id \in deleted[b]

\* No two rules of a stored configuration have the same priority or ID, so
\* MinIO can always tell which one goes first.
StoredWellFormed == \A b \in Buckets : WellFormed(rules[b])

\* The request is answered with one item per relation, in the order of the
\* request and each with that relation's own result: no goroutine is left in its
\* send.
AllAnswered == <>[](answers = [r \in Relations |-> <<r, result[r]>>])

\* What "we will tolerate this call failing" and "add rule" say of
\* addBucketReplicationItem: adding a rule takes no other rule away.
AddingOnlyAdds == [][\A b \in Buckets : rules[b] \subseteq rules'[b]]_rules
=============================================================================
