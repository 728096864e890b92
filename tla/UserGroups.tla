------------------------------ MODULE UserGroups ------------------------------
(***************************************************************************)
(* The requests of the console that change users and groups in MinIO. A    *)
(* request is several calls, some made by a goroutine per group, that read *)
(* what MinIO has and write the difference; other requests run at once,    *)
(* and a call may fail or take effect without its reply.                   *)
(***************************************************************************)
EXTENDS Naturals, FiniteSets

CONSTANTS
  Users,
  Groups,
  Policies,
  Requests,  \* requests in flight
  Jobs,      \* what a request may ask for
  Self       \* the user whose session it is

Kinds == {"addUser", "updateUser", "updateUserGroups", "bulkAdd", "groupUpdate",
          "addGroup", "removeGroup", "removeUser", "setPolicy"}

Job == [kind : Kinds, user : Users, groups : SUBSET Groups, policies : SUBSET Policies,
        group : Groups, users : SUBSET Users, enabled : BOOLEAN]

ASSUME JobsAssumption == Jobs \subseteq Job /\ Users \cap Groups = {}

VARIABLES
  iam,     \* what MinIO has
  job,     \* job[r]: what request r asks for
  pc,      \* pc[r]: the call it makes next
  origin,  \* origin[r]: the groups of the user, or the members of the group, it read
  was,     \* was[r]: the status of the group it read
  todo,    \* todo[r]: the groups whose goroutine has not reported, or the users
           \* and groups whose policy is not set
  failed,  \* failed[r]: a goroutine reported an error
  answer,  \* answer[r]
  alone    \* alone[r]: since r started no other request changed MinIO

groupVars == <<iam, job, pc, origin, was, todo, failed, answer, alone>>

IAM == [users : SUBSET Users, enabled : SUBSET Users, policy : [Users -> SUBSET Policies],
        groups : SUBSET Groups, active : SUBSET Groups, mapped : SUBSET Groups,
        members : [Groups -> SUBSET Users]]

GroupsTypeOK ==
  /\ iam \in IAM
  /\ job \in [Requests -> Jobs]
  /\ pc \in [Requests -> {"start", "userInfo", "groups", "verify", "policy",
                          "remove", "add", "status", "entities", "done"}]
  /\ origin \in [Requests -> (SUBSET Groups) \cup (SUBSET Users)]
  /\ was \in [Requests -> BOOLEAN]
  /\ todo \in [Requests -> SUBSET (Users \cup Groups)]
  /\ failed \in [Requests -> BOOLEAN]
  /\ answer \in [Requests -> {"none", "ok", "error"}]
  /\ \A r \in Requests : pc[r] = "done" <=> answer[r] # "none"
  /\ alone \in [Requests -> BOOLEAN]

MemberOf(u) == {g \in Groups : u \in iam.members[g]}

\* The groups there are first: enabled and with a policy.
InitialIAM == {s \in IAM :
  /\ s.enabled = s.users /\ s.active = s.groups /\ s.mapped = s.groups
  /\ s.policy = [u \in Users |-> {}]
  /\ \A g \in Groups : s.members[g] \subseteq (IF g \in s.groups THEN s.users ELSE {})}

GroupsStart ==
  /\ pc = [r \in Requests |-> "start"]
  /\ origin = [r \in Requests |-> {}]
  /\ was = [r \in Requests |-> FALSE]
  /\ todo = [r \in Requests |-> {}]
  /\ failed = [r \in Requests |-> FALSE]
  /\ answer = [r \in Requests |-> "none"]
  /\ alone = [r \in Requests |-> TRUE]

GroupsInit == iam \in InitialIAM /\ job \in [Requests -> Jobs] /\ GroupsStart

-----------------------------------------------------------------------------
(* The calls, as MinIO takes them: whether it does, and what it has then.   *)

Accepted(ok, s) == [ok |-> ok, iam |-> s]

AddUser(u) == Accepted(TRUE, [iam EXCEPT !.users = @ \cup {u}, !.enabled = @ \cup {u}])

RemoveUser(u) ==
  Accepted(u \in iam.users,
           [iam EXCEPT !.users = @ \ {u}, !.enabled = @ \ {u}, !.policy[u] = {},
                       !.members = [g \in Groups |-> @[g] \ {u}]])

SetUserStatus(u, on) ==
  Accepted(u \in iam.users,
           [iam EXCEPT !.enabled = IF on THEN @ \cup {u} ELSE @ \ {u}])

SetPolicy(u, ps) == Accepted(u \in iam.users, [iam EXCEPT !.policy[u] = ps])

\* A group is mapped when it has a policy; no policy takes the one it had away.
SetGroupPolicy(g, ps) ==
  Accepted(g \in iam.groups, [iam EXCEPT !.mapped = IF ps = {} THEN @ \ {g} ELSE @ \cup {g}])

\* Adding makes a group that is not there; removing nobody removes the group.
AddMembers(g, us) ==
  Accepted(us \subseteq iam.users,
           [iam EXCEPT !.groups = @ \cup {g},
                       !.active = IF g \in iam.groups THEN @ ELSE @ \cup {g},
                       !.members[g] = @ \cup us])

RemoveMembers(g, us) ==
  Accepted(g \in iam.groups /\ us \subseteq iam.users /\ (us = {} => iam.members[g] = {}),
           IF us # {} THEN [iam EXCEPT !.members[g] = @ \ us]
           ELSE [iam EXCEPT !.groups = @ \ {g}, !.active = @ \ {g}, !.mapped = @ \ {g}])

SetGroupStatus(g, on) ==
  Accepted(g \in iam.groups, [iam EXCEPT !.active = IF on THEN @ \cup {g} ELSE @ \ {g}])

Disturb(r) ==
  alone' = [q \in Requests |-> alone[q] /\ (q = r \/ iam' = iam \/ pc[q] = "start")]

\* A call fails, takes effect, or takes effect and its reply is lost.
CallOK(r, c)   == c.ok /\ iam' = c.iam /\ Disturb(r)
CallFails(r, c) == (iam' = iam \/ (c.ok /\ iam' = c.iam)) /\ Disturb(r)

Read == UNCHANGED <<iam, alone>>
-----------------------------------------------------------------------------
Goto(r, l) == pc' = [pc EXCEPT ![r] = l] /\ UNCHANGED answer
Finish(r, a) == pc' = [pc EXCEPT ![r] = "done"] /\ answer' = [answer EXCEPT ![r] = a]

At(r, l, kinds) == pc[r] = l /\ job[r].kind \in kinds

\* A request whose only call is c.
SingleCall(r, c) ==
  /\ \/ CallOK(r, c) /\ Finish(r, "ok")
     \/ CallFails(r, c) /\ Finish(r, "error")
  /\ UNCHANGED <<job, origin, was, todo, failed>>

AddGroup(r) ==
  At(r, "start", {"addGroup"}) /\ SingleCall(r, AddMembers(job[r].group, job[r].users))

RemoveGroup(r) ==
  At(r, "start", {"removeGroup"}) /\ SingleCall(r, RemoveMembers(job[r].group, {}))

\* getRemoveUserResponse: nobody deletes the account of his own session.
RemoveUserRequest(r) ==
  /\ At(r, "start", {"removeUser"})
  /\ job[r].user # Self
  /\ SingleCall(r, RemoveUser(job[r].user))

RefuseSelf(r) ==
  /\ At(r, "start", {"removeUser"})
  /\ job[r].user = Self
  /\ Finish(r, "error")
  /\ UNCHANGED <<iam, alone, job, origin, was, todo, failed>>

-----------------------------------------------------------------------------
(* addUser, getUpdateUserResponse and updateUserGroups. *)

\* addUser after the user's groups are set.
ToPolicies(r) ==
  IF job[r].kind = "addUser" /\ job[r].policies # {} THEN Goto(r, "policy") ELSE Finish(r, "ok")

FirstCall(r) ==
  /\ At(r, "start", {"addUser", "updateUser"})
  /\ LET c == IF job[r].kind = "addUser" THEN AddUser(job[r].user)
              ELSE SetUserStatus(job[r].user, job[r].enabled) IN
       \/ CallOK(r, c) /\ IF job[r].kind = "addUser" /\ job[r].groups = {}
                            THEN ToPolicies(r) ELSE Goto(r, "userInfo")
       \/ CallFails(r, c) /\ Finish(r, "error")
  /\ UNCHANGED <<job, origin, was, todo, failed>>

\* Mutated form of TasksOf: a goroutine per group to assign.
TasksAssigned(r) == job[r].groups

\* mergedGroupArray: a goroutine per group the user is in or is to be in.
TasksOf(r) == MemberOf(job[r].user) \cup job[r].groups

GetUserInfo(r) ==
  /\ \/ At(r, "start", {"updateUserGroups"})
     \/ At(r, "userInfo", {"addUser", "updateUser"})
  /\ \/ /\ job[r].user \in iam.users
        /\ origin' = [origin EXCEPT ![r] = MemberOf(job[r].user)]
        /\ todo' = [todo EXCEPT ![r] = TasksOf(r)]
        /\ Goto(r, "groups")
     \/ Finish(r, "error") /\ UNCHANGED <<origin, todo>>
  /\ Read
  /\ UNCHANGED <<job, was, failed>>

BulkAdd(r) ==
  /\ At(r, "start", {"bulkAdd"})
  /\ todo' = [todo EXCEPT ![r] = job[r].groups]
  /\ Goto(r, "groups")
  /\ Read
  /\ UNCHANGED <<job, origin, was, failed>>

\* Mutated form of GroupCall: who is in the group is taken out of it.
GroupCallToggles(r, g) ==
  IF job[r].kind = "bulkAdd" THEN AddMembers(g, job[r].users)
  ELSE IF g \in origin[r] THEN RemoveMembers(g, {job[r].user})
  ELSE AddMembers(g, {job[r].user})

\* The change a goroutine makes to its group; an assigned group that already
\* has the user stays as it is.
GroupCall(r, g) ==
  IF job[r].kind = "bulkAdd" THEN AddMembers(g, job[r].users)
  ELSE IF g \notin job[r].groups THEN RemoveMembers(g, {job[r].user})
  ELSE IF g \notin origin[r] THEN AddMembers(g, {job[r].user})
  ELSE Accepted(TRUE, iam)

Report(r, g, bad) ==
  /\ todo' = [todo EXCEPT ![r] = @ \ {g}]
  /\ failed' = [failed EXCEPT ![r] = @ \/ bad]

GroupTask(r, g) ==
  /\ pc[r] = "groups" /\ g \in todo[r]
  /\ \/ CallOK(r, GroupCall(r, g)) /\ Report(r, g, FALSE)
     \/ /\ job[r].kind = "bulkAdd" \/ g \notin job[r].groups \cap origin[r]
        /\ CallFails(r, GroupCall(r, g)) /\ Report(r, g, TRUE)
  /\ UNCHANGED <<job, pc, origin, was, answer>>

\* The handler receives from the channel of every goroutine.
Joined(r) == todo[r] = {}

\* Mutated form of Join: without a return after the error.
JoinGoesOn(r) ==
  /\ pc[r] = "groups" /\ Joined(r)
  /\ pc' = [pc EXCEPT ![r] = IF job[r].kind = "bulkAdd" THEN "done" ELSE "verify"]
  /\ answer' = [answer EXCEPT ![r] =
                   IF failed[r] THEN "error" ELSE IF job[r].kind = "bulkAdd" THEN "ok" ELSE @]
  /\ Read
  /\ UNCHANGED <<job, origin, was, todo, failed>>

Join(r) ==
  /\ pc[r] = "groups" /\ Joined(r)
  /\ IF failed[r] THEN Finish(r, "error")
     ELSE IF job[r].kind = "bulkAdd" THEN Finish(r, "ok")
     ELSE Goto(r, "verify")
  /\ Read
  /\ UNCHANGED <<job, origin, was, todo, failed>>

GetUserAgain(r) ==
  /\ At(r, "verify", {"addUser", "updateUser", "updateUserGroups"})
  /\ \/ job[r].user \in iam.users /\ ToPolicies(r)
     \/ Finish(r, "error")
  /\ Read
  /\ UNCHANGED <<job, origin, was, todo, failed>>

SetUserPolicies(r) ==
  /\ pc[r] = "policy"
  /\ SingleCall(r, SetPolicy(job[r].user, job[r].policies))

-----------------------------------------------------------------------------
(* groupUpdate. *)

ToDelete(r) == origin[r] \ job[r].users
ToAdd(r) == job[r].users \ origin[r]

\* Mutated form of Needed: both lists are sent, empty or not.
NeededAlways(r, us) == TRUE

\* addOrDeleteMembers makes no call for an empty list.
Needed(r, us) == us # {}

FromStatus(r) == Goto(r, IF was'[r] # job[r].enabled THEN "status" ELSE "verify")
FromAdd(r) == IF Needed(r, ToAdd(r)') THEN Goto(r, "add") ELSE FromStatus(r)
FromRemove(r) == IF Needed(r, ToDelete(r)') THEN Goto(r, "remove") ELSE FromAdd(r)

GroupInfo(r) ==
  /\ At(r, "start", {"groupUpdate"})
  /\ UNCHANGED <<job, todo, failed>>
  /\ \/ /\ job[r].group \in iam.groups
        /\ origin' = [origin EXCEPT ![r] = iam.members[job[r].group]]
        /\ was' = [was EXCEPT ![r] = job[r].group \in iam.active]
        /\ FromRemove(r)
     \/ Finish(r, "error") /\ UNCHANGED <<origin, was>>
  /\ Read

\* A call of groupUpdate: what follows it, or the error.
GroupStep(r, c, next) ==
  /\ UNCHANGED <<job, origin, was, todo, failed>>
  /\ \/ CallOK(r, c) /\ next
     \/ CallFails(r, c) /\ Finish(r, "error")

DeleteMembers(r) ==
  pc[r] = "remove" /\ GroupStep(r, RemoveMembers(job[r].group, ToDelete(r)), FromAdd(r))

AddMissingMembers(r) ==
  pc[r] = "add" /\ GroupStep(r, AddMembers(job[r].group, ToAdd(r)), FromStatus(r))

SetStatus(r) ==
  pc[r] = "status" /\ GroupStep(r, SetGroupStatus(job[r].group, job[r].enabled), Goto(r, "verify"))

GroupInfoAgain(r) ==
  /\ At(r, "verify", {"groupUpdate"})
  /\ \/ job[r].group \in iam.groups /\ Finish(r, "ok")
     \/ Finish(r, "error")
  /\ Read
  /\ UNCHANGED <<job, origin, was, todo, failed>>

-----------------------------------------------------------------------------
(* setPolicyMultipleEntities; for one entity, setPolicy. *)

ForEntities(r) ==
  /\ At(r, "start", {"setPolicy"})
  /\ todo' = [todo EXCEPT ![r] = job[r].users \cup job[r].groups]
  /\ IF todo'[r] = {} THEN Finish(r, "ok") ELSE Goto(r, "entities")
  /\ Read
  /\ UNCHANGED <<job, origin, was, failed>>

EntityCall(r, e) ==
  IF e \in Users THEN SetPolicy(e, job[r].policies) ELSE SetGroupPolicy(e, job[r].policies)

\* One after the other, users first; the first error ends the request.
SetEntityPolicy(r, e) ==
  /\ pc[r] = "entities"
  /\ e \in todo[r] /\ (e \in Groups => todo[r] \cap Users = {})
  /\ todo' = [todo EXCEPT ![r] = @ \ {e}]
  /\ \/ CallOK(r, EntityCall(r, e)) /\ IF todo'[r] = {} THEN Finish(r, "ok") ELSE Goto(r, "entities")
     \/ CallFails(r, EntityCall(r, e)) /\ Finish(r, "error")
  /\ UNCHANGED <<job, origin, was, failed>>

Step(r) ==
  \/ AddGroup(r) \/ RemoveGroup(r) \/ RemoveUserRequest(r) \/ RefuseSelf(r)
  \/ FirstCall(r) \/ GetUserInfo(r) \/ BulkAdd(r) \/ Join(r)
  \/ GetUserAgain(r) \/ SetUserPolicies(r)
  \/ GroupInfo(r) \/ DeleteMembers(r) \/ AddMissingMembers(r) \/ SetStatus(r)
  \/ GroupInfoAgain(r) \/ ForEntities(r)
  \/ \E g \in todo[r] : GroupTask(r, g) \/ SetEntityPolicy(r, g)

GroupsNext == \E r \in Requests : Step(r)

GroupsSpec == GroupsInit /\ [][GroupsNext]_groupVars

-----------------------------------------------------------------------------
\* MinIO has what request r asked for.
Applied(r) ==
  LET j == job[r] IN
  CASE j.kind = "addUser" ->
         /\ j.user \in iam.users
         /\ j.groups # {} => MemberOf(j.user) = j.groups
         /\ j.policies # {} => iam.policy[j.user] = j.policies
    [] j.kind \in {"updateUser", "updateUserGroups"} ->
         /\ MemberOf(j.user) = j.groups
         /\ j.kind = "updateUser" => (j.user \in iam.enabled <=> j.enabled)
    [] j.kind = "bulkAdd" -> \A g \in j.groups : j.users \subseteq iam.members[g]
    [] j.kind = "groupUpdate" ->
         /\ j.group \in iam.groups /\ iam.members[j.group] = j.users
         /\ j.group \in iam.active <=> j.enabled
    [] j.kind = "addGroup" -> j.group \in iam.groups /\ j.users \subseteq iam.members[j.group]
    [] j.kind = "removeGroup" -> j.group \notin iam.groups
    [] j.kind = "removeUser" -> j.user \notin iam.users
    [] j.kind = "setPolicy" ->
         /\ \A u \in j.users : iam.policy[u] = j.policies
         /\ \A g \in j.groups : g \in iam.mapped <=> j.policies # {}

\* A request that succeeds without another one in between leaves in MinIO all
\* it asked for, over all its calls.
SuccessIsApplied == \A r \in Requests : answer[r] = "ok" /\ alone[r] => Applied(r)

\* What request r wants of user u in group g; "any" when it does not care.
Wants(r, u, g) ==
  LET j == job[r] IN
  CASE j.kind \in {"updateUser", "updateUserGroups"} /\ j.user = u ->
         IF g \in j.groups THEN "in" ELSE "out"
    [] j.kind = "addUser" /\ j.user = u /\ j.groups # {} ->
         IF g \in j.groups THEN "in" ELSE "out"
    [] j.kind = "groupUpdate" /\ j.group = g -> IF u \in j.users THEN "in" ELSE "out"
    [] j.kind = "bulkAdd" /\ g \in j.groups /\ u \in j.users -> "in"
    [] j.kind = "addGroup" /\ j.group = g /\ u \in j.users -> "in"
    [] j.kind = "removeUser" /\ j.user = u -> "out"
    [] OTHER -> "any"

\* Requests that agree on a user and a group leave the two as they agree, in
\* whatever order their calls and goroutines run and with what they read of
\* MinIO out of date, once they are over and one of them succeeded.
AgreedMembership ==
  (\A r \in Requests : answer[r] # "none") =>
    \A u \in Users, g \in Groups, w \in {"in", "out"} :
      /\ \A r \in Requests : Wants(r, u, g) \in {w, "any"}
      /\ \E r \in Requests : answer[r] = "ok" /\ Wants(r, u, g) = w
      => (u \in iam.members[g] <=> w = "in")

\* A group disappears, and its policy with it, only when a request removes it:
\* changing members and status never takes the group away.
GroupsStay ==
  [][ \A g \in Groups :
        g \in iam.groups /\ g \notin iam'.groups
        => \E r \in Requests : job[r].kind = "removeGroup" /\ job[r].group = g
                               /\ pc[r] # pc'[r] ]_groupVars
=============================================================================
