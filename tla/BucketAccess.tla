----------------------------- MODULE BucketAccess -----------------------------
(***************************************************************************)
(* Which users have access to a bucket: the request goes over the policies *)
(* of the users, then over the policy of each group, fetches each one and  *)
(* keeps who is allowed and who is denied.                                 *)
(***************************************************************************)
EXTENDS Naturals, Sequences, FiniteSets

CONSTANTS
  Accounts,
  Teams,
  PolicyNames,
  Documents   \* policies: what each of their statements says of the bucket

Effects == {"Allow", "Deny"}

\* "Other": the resources of the statement do not match the bucket.
ASSUME DocumentsAssumption == Documents \subseteq Seq(Effects \cup {"Other"})

VARIABLES
  policy,    \* policy[p]: the document of policy p
  attached,  \* attached[u]: the policies of user u
  mapped,    \* mapped[g]: the policies of group g
  members,   \* members[g]
  accessPc,
  pairs,     \* the users and policies the loop over users has left
  groups,    \* the groups the loop over groups has left
  access,    \* akHasAccess
  denied,    \* akIsDenied
  fetched,   \* the users and policies that were looked at
  listed     \* the users listed

grants  == <<policy, attached, mapped, members>>
accessVars == <<grants, accessPc, pairs, groups, access, denied, fetched, listed>>

AccessTypeOK ==
  /\ policy \in [PolicyNames -> Documents]
  /\ attached \in [Accounts -> SUBSET PolicyNames]
  /\ mapped \in [Teams -> SUBSET PolicyNames]
  /\ members \in [Teams -> SUBSET Accounts]
  /\ accessPc \in {"users", "userPolicies", "groups", "ok", "nobody", "error"}
  /\ pairs \subseteq Accounts \X PolicyNames
  /\ groups \subseteq Teams
  /\ access \subseteq Accounts
  /\ denied \subseteq Accounts
  /\ access \cap denied = {}
  /\ fetched \subseteq Accounts \X PolicyNames
  /\ listed \subseteq access

AccessStart ==
  /\ accessPc = "users" /\ pairs = {} /\ groups = {} /\ access = {} /\ denied = {}
  /\ fetched = {} /\ listed = {}

AccessInit ==
  /\ policy \in [PolicyNames -> Documents]
  /\ attached \in [Accounts -> SUBSET PolicyNames]
  /\ mapped \in [Teams -> SUBSET PolicyNames]
  /\ members \in [Teams -> SUBSET Accounts]
  /\ AccessStart

-----------------------------------------------------------------------------
Matches(doc) == {n \in DOMAIN doc : doc[n] \in Effects}

\* The effect of the first statement about the bucket.
policyAllowsAndMatchesBucket(doc) ==
  IF Matches(doc) = {} THEN "Unknown"
  ELSE doc[CHOOSE n \in Matches(doc) : \A m \in Matches(doc) : n <= m]

\* Mutated form of Judge: who was denied and is allowed later has access.
JudgeLast(us, effect) ==
  /\ access' = IF effect = "Allow" THEN access \cup us
               ELSE IF effect = "Deny" THEN access \ us ELSE access
  /\ denied' = IF effect = "Allow" THEN denied \ us
               ELSE IF effect = "Deny" THEN denied \cup us ELSE denied

\* A policy with this effect counts for users us.
Judge(us, effect) ==
  /\ access' = CASE effect = "Allow" -> access \cup (us \ denied)
                 [] effect = "Deny"  -> access \ us
                 [] OTHER            -> access
  /\ denied' = IF effect = "Deny" THEN denied \cup us ELSE denied

\* An error of a call is only logged.
Skip == UNCHANGED <<access, denied, fetched>>

\* Policy p is fetched for users us, or cannot be.
Consult(us, p) ==
  \/ /\ Judge(us, policyAllowsAndMatchesBucket(policy[p]))
     /\ fetched' = fetched \cup (us \X {p})
  \/ Skip

ListUsers ==
  /\ accessPc = "users"
  /\ \/ accessPc' = "userPolicies" /\ pairs' = {t \in Accounts \X PolicyNames : t[2] \in attached[t[1]]}
     \/ accessPc' = "error" /\ UNCHANGED pairs
  /\ UNCHANGED <<grants, groups, access, denied, fetched, listed>>

UserPolicy ==
  /\ accessPc = "userPolicies"
  /\ \E t \in pairs : pairs' = pairs \ {t} /\ Consult({t[1]}, t[2])
  /\ UNCHANGED <<grants, accessPc, groups, listed>>

\* Without the groups the answer is a list of nobody, whatever the users' policies
\* say.
ListGroups ==
  /\ accessPc = "userPolicies" /\ pairs = {}
  /\ \/ accessPc' = "groups" /\ groups' = Teams
     \/ accessPc' = "nobody" /\ UNCHANGED groups
  /\ UNCHANGED <<grants, pairs, access, denied, fetched, listed>>

\* The policies of a group are looked up as one name: there is no policy of
\* that name unless the group has exactly one.
GroupPolicy ==
  /\ accessPc = "groups"
  /\ \E g \in groups :
       /\ groups' = groups \ {g}
       /\ IF \E p \in PolicyNames : mapped[g] = {p}
            THEN \E p \in mapped[g] : Consult(members[g], p)
            ELSE UNCHANGED <<access, denied, fetched>>
  /\ UNCHANGED <<grants, accessPc, pairs, listed>>

Done ==
  /\ accessPc = "groups" /\ groups = {}
  /\ listed' = access
  /\ accessPc' = "ok"
  /\ UNCHANGED <<grants, pairs, groups, access, denied, fetched>>

AccessNext == ListUsers \/ UserPolicy \/ ListGroups \/ GroupPolicy \/ Done

AccessSpec == AccessInit /\ [][AccessNext]_accessVars

-----------------------------------------------------------------------------
\* The effect of the statement about the bucket that no other one precedes.
Decides(p, effect) ==
  \E n \in DOMAIN policy[p] :
    policy[p][n] = effect /\ \A m \in 1 .. n - 1 : policy[p][m] = "Other"

\* Whatever the order of users, policies and groups, and whatever policies could not
\* be fetched: of what was looked at, somebody is listed exactly when a policy allows
\* the bucket and none denies it. (When the groups cannot be listed nobody is listed.)
ListedByWhatWasFetched ==
  accessPc = "ok" => \A u \in Accounts :
    LET Some(effect) == \E p \in PolicyNames : <<u, p>> \in fetched /\ Decides(p, effect)
    IN  u \in listed <=> Some("Allow") /\ ~Some("Deny")
=============================================================================
