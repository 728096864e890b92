----------------------------- MODULE ClusterMemory -----------------------------
(***************************************************************************)
(* The memory the servers of a tenant may have: getMaxAllocatableMemory    *)
(* counts the nodes of the cluster and refuses what it has no room for,    *)
(* getMaxClusterMemory goes through the sizes of those that can be used.   *)
(***************************************************************************)
EXTENDS Integers, SequencesExt, FiniteSets

CONSTANTS
  MemorySizes,  \* memory a node may have
  MaxNodes      \* bound: nodes of the cluster

ASSUME MemoryAssumption == MemorySizes \subseteq Nat /\ MaxNodes \in Nat

VARIABLES
  sizes,     \* the memory of each node without a taint, in ascending order
  others,    \* others[k]: how many other nodes of kind k there are
  numNodes,  \* the number of nodes asked about
  memoryPc,  \* where the request is
  visited,   \* the sizes the loop has come past
  maxIndex, maxMemory

memoryVars == <<sizes, others, numNodes, memoryPc, visited, maxIndex, maxMemory>>

\* Nodes without memory in their status; those that others may not be scheduled
\* on, with one taint, that of a master, or two; those whose taint says NoExecute.
OtherKinds == {"unmeasured", "cordoned", "master", "notReady", "evicted"}

MemoryTypeOK ==
  /\ sizes \in Seq(MemorySizes)
  /\ others \in [OtherKinds -> Nat]
  /\ numNodes \in Nat
  /\ memoryPc \in {"list", "loop", "answered", "refused"}
  /\ visited \in 0 .. Len(sizes)
  /\ maxIndex \in 0 .. visited
  /\ maxMemory \in MemorySizes \cup {0}

MemoryInit ==
  /\ sizes = <<>>
  /\ others = [k \in OtherKinds |-> 0]
  /\ numNodes \in 0 .. MaxNodes
  /\ memoryPc = "list"
  /\ visited = 0 /\ maxIndex = 0 /\ maxMemory = 0

-----------------------------------------------------------------------------
Untainted == Len(sizes) + others["unmeasured"]
NodeCount ==
  Untainted + others["cordoned"] + others["master"] + others["notReady"] + others["evicted"]

\* Every taint counts, also the second one of a node.
schedulableNodes ==
  NodeCount - (others["cordoned"] + others["master"] + 2 * others["notReady"])
nonMasterNodes == NodeCount - others["master"]

\* The cluster has one more node; nodes come in the order they are sorted into.
NodeListed ==
  /\ memoryPc = "list"
  /\ NodeCount < MaxNodes
  /\ \/ \E m \in MemorySizes :
          /\ sizes # <<>> => Last(sizes) <= m
          /\ sizes' = Append(sizes, m)
          /\ UNCHANGED others
     \/ \E k \in OtherKinds : others' = [others EXCEPT ![k] = @ + 1] /\ UNCHANGED sizes
  /\ UNCHANGED <<numNodes, memoryPc, visited, maxIndex, maxMemory>>

\* What getMaxAllocatableMemory answers before it looks at the memory.
Verdict ==
  IF numNodes < 4 THEN "fewer than four nodes"
  ELSE IF numNodes > schedulableNodes /\ numNodes < nonMasterNodes THEN "too many nodes"
  ELSE IF nonMasterNodes < numNodes THEN "too few nodes"
  ELSE IF schedulableNodes < numNodes THEN "too few schedulable nodes"
  ELSE "ok"

\* getMaxClusterMemory returns 0 at once.
TooFewSizes == Len(sizes) < numNodes \/ numNodes = 0

getMaxAllocatableMemory ==
  /\ memoryPc = "list"
  /\ \/ Verdict # "ok" /\ memoryPc' = "refused" /\ UNCHANGED maxMemory
     \/ Verdict = "ok" /\ TooFewSizes /\ memoryPc' = "answered" /\ UNCHANGED maxMemory
     \/ Verdict = "ok" /\ ~TooFewSizes /\ memoryPc' = "loop" /\ maxMemory' = sizes[1]
  /\ UNCHANGED <<sizes, others, numNodes, visited, maxIndex>>

\* Mutated form of WithinNodes: off by one.
OrNext(i) == i <= numNodes

\* Index i, from 0, of the sizes is within the first numNodes.
WithinNodes(i) == i < numNodes

\* One round of the loop of getMaxClusterMemory.
VisitSize ==
  /\ memoryPc = "loop" /\ visited < Len(sizes)
  /\ LET size == sizes[visited + 1] IN
     \/ /\ WithinNodes(visited)
        /\ maxMemory' = IF maxMemory > size THEN size ELSE maxMemory
        /\ UNCHANGED maxIndex
     \/ /\ ~WithinNodes(visited)
        /\ maxIndex' = maxIndex + 1
        /\ maxMemory' = sizes[maxIndex' + 1]
  /\ visited' = visited + 1
  /\ UNCHANGED <<sizes, others, numNodes, memoryPc>>

MemoryAnswered ==
  /\ memoryPc = "loop" /\ visited = Len(sizes)
  /\ memoryPc' = "answered"
  /\ UNCHANGED <<sizes, others, numNodes, visited, maxIndex, maxMemory>>

MemoryNext == NodeListed \/ getMaxAllocatableMemory \/ VisitSize \/ MemoryAnswered

MemorySpec == MemoryInit /\ [][MemoryNext]_memoryVars

-----------------------------------------------------------------------------
\* The nodes a server may be scheduled on and that have as much memory.
WithMemory(m) == Cardinality({k \in DOMAIN sizes : sizes[k] >= m})

\* The memory that is offered is what each of so many nodes has, and no more
\* could be: 0 only when there are not so many. A question is refused only when
\* there are not as many nodes that are no masters and may be scheduled on, or
\* one of them has two taints that forbid it: that one counts twice.
MemoryIsWhatFits ==
  /\ memoryPc = "answered" =>
       /\ maxMemory # 0 => WithMemory(maxMemory) >= numNodes
       /\ \A more \in MemorySizes : more > maxMemory => WithMemory(more) < numNodes
  /\ memoryPc = "refused" =>
       numNodes < 4 \/ Untainted + others["evicted"] < numNodes \/ others["notReady"] > 0
=============================================================================
