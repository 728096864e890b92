------------------------------- MODULE MCBatches -------------------------------
(***************************************************************************)
(* Requests for several buckets or paths at once, for TLC: replication is  *)
(* set up for several buckets, several paths are deleted. They share       *)
(* nothing: a behaviour is about one of them and leaves the other as it    *)
(* is.                                                                     *)
(***************************************************************************)
EXTENDS Replication, DeleteObjects

VARIABLE about

batchVars == <<about, vars, deletionVars>>

\* A folder with objects, and a request for it and for objects by name, with and
\* without a version.
MCBelow == [d \in Folders |-> {"a", "b", "c"} \cap Keys]

File(p, v) == [path |-> p, version |-> v, recursive |-> p \in Folders]

MCRequests ==
  {<<File(p, v), File(q, w)>> : p \in {"a", "dir"}, q \in {"a", "b", "dir"},
                                v, w \in {"v1", NoVersion}}
-----------------------------------------------------------------------------
\* The state of the part the behaviour is not about.
NoReplication ==
  /\ Init
  /\ rules = [b \in Buckets |-> {}]
  /\ LET b == CHOOSE x \in Buckets : TRUE IN
       /\ origin = [r \in Relations |-> b]
       /\ job = [d \in Deleters |-> [bucket |-> b, id |-> CHOOSE x \in Ids : TRUE]]
NoDeletion == DeletionInit /\ denied = {} /\ unlistable = {} /\ asked = <<File("a", ""), File("a", "")>>

BatchInit ==
  \/ about = "replication" /\ Init /\ NoDeletion
  \/ about = "deletion" /\ DeletionInit /\ NoReplication

BatchNext ==
  /\ UNCHANGED about
  /\ \/ about = "replication" /\ Next /\ UNCHANGED deletionVars
     \/ about = "deletion" /\ DeletionNext /\ UNCHANGED vars

\* Of each, in the behaviours about it: the fairness that Fairness and
\* DeletionFairness state.
BatchProgress ==
  /\ UNCHANGED about
  /\ \/ about = "replication" /\ Progress /\ UNCHANGED deletionVars
     \/ about = "deletion" /\ DeletionProgress /\ UNCHANGED vars

BatchSpec == BatchInit /\ [][BatchNext]_batchVars /\ WF_batchVars(BatchProgress)

\* Every request is answered: see AllAnswered and Answered.
BatchesAnswered == (about = "replication" => AllAnswered) /\ (about = "deletion" => Answered)
=============================================================================
