------------------------------- MODULE MCRequests -------------------------------
(***************************************************************************)
(* Requests of the console to MinIO, for TLC: the creation of a bucket and *)
(* the changes of users and groups. They share nothing: a behaviour is     *)
(* about one of them and leaves the other as it is.                        *)
(***************************************************************************)
EXTENDS MakeBucket, UserGroups, TLC

VARIABLE about

vars == <<about, bucketVars, groupVars>>

\* The requests are interchangeable.
Symmetry == Permutations(Makers) \cup Permutations(Requests)

AnyJob == [kind |-> "addGroup", user |-> "ann", groups |-> {}, policies |-> {},
         group |-> "dev", users |-> {}, enabled |-> TRUE]

ASSUME NoChangeAssumption == AnyJob \in Jobs

UserJobs ==
  {[AnyJob EXCEPT !.kind = "updateUserGroups", !.groups = gs] : gs \in SUBSET Groups}
  \cup {[AnyJob EXCEPT !.kind = "addUser", !.groups = gs, !.policies = ps] :
          gs \in {{}, {"dev"}}, ps \in {{}, Policies}}
  \cup {[AnyJob EXCEPT !.kind = "updateUser", !.enabled = FALSE, !.groups = {"ops"}],
        [AnyJob EXCEPT !.kind = "removeUser"],
        [AnyJob EXCEPT !.kind = "removeUser", !.user = "bob"]}

GroupJobs ==
  {[AnyJob EXCEPT !.kind = "groupUpdate", !.users = us, !.enabled = on] :
     us \in SUBSET Users, on \in BOOLEAN}
  \cup {[AnyJob EXCEPT !.kind = "bulkAdd", !.users = {"ann"}, !.groups = gs] :
          gs \in {{"dev"}, Groups}}
  \cup {AnyJob, [AnyJob EXCEPT !.users = {"ann"}], [AnyJob EXCEPT !.kind = "removeGroup"],
        [AnyJob EXCEPT !.kind = "setPolicy", !.users = Users, !.policies = {}],
        [AnyJob EXCEPT !.kind = "setPolicy", !.users = {"ann"}, !.groups = {"dev"},
                     !.policies = Policies]}

MCJobs == UserJobs \cup GroupJobs

-----------------------------------------------------------------------------
TypeOK == BucketTypeOK /\ GroupsTypeOK

\* The state of the part the behaviour is not about.
NoMaker ==
  /\ BucketInit
  /\ makerOpts = [m \in Makers |-> [versioning |-> FALSE, locking |-> FALSE,
                                    quota |-> FALSE, retention |-> FALSE]]
NoChange ==
  /\ iam = [users |-> {}, enabled |-> {}, policy |-> [u \in Users |-> {}], groups |-> {},
            active |-> {}, mapped |-> {}, members |-> [g \in Groups |-> {}]]
  /\ job = [r \in Requests |-> AnyJob]
  /\ GroupsStart

Init ==
  \/ about = "bucket" /\ BucketInit /\ NoChange
  \/ about = "groups" /\ GroupsInit /\ NoMaker

Next ==
  /\ UNCHANGED about
  /\ \/ about = "bucket" /\ BucketNext /\ UNCHANGED groupVars
     \/ about = "groups" /\ GroupsNext /\ UNCHANGED bucketVars

Spec == Init /\ [][Next]_vars
=============================================================================
