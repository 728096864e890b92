---------------------------- MODULE MCDeleteObjects ----------------------------
(* DeleteObjects for TLC: a folder with objects, and a request for it and for  *)
(* objects by name, with and without a version.                                *)
EXTENDS DeleteObjects

MCBelow == [d \in Folders |-> {"a", "b", "c"} \cap Keys]

File(p, v) == [path |-> p, version |-> v, recursive |-> p \in Folders]

MCRequests ==
  {<<File(p, v), File(q, w)>> : p \in {"a", "dir"}, q \in {"a", "b", "dir"},
                                v, w \in Versions \cup {NoVersion}}
=============================================================================
