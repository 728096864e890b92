------------------------------ MODULE ErasureSets ------------------------------
(***************************************************************************)
(* The parities offered for a pool of so many servers and drives: the      *)
(* sizes an erasure set may have (getSetIndexes), the one that is chosen   *)
(* by a loop over them (commonSetDriveCount), and its half.                *)
(***************************************************************************)
EXTENDS Integers

CONSTANTS
  MaxServers,     \* bound: servers of a pool
  MaxServerDrives \* bound: drives of a server

ASSUME PoolAssumption == MaxServers \in Nat /\ MaxServerDrives \in Nat

VARIABLES
  pool,     \* the servers of a pool, and the drives of each
  parityPc, \* where PossibleParityValues is
  left,     \* the sizes the loop has yet to come to
  prevD, setSize

parityVars == <<pool, parityPc, left, prevD, setSize>>

setSizes == 4 .. 16

ParityTypeOK ==
  /\ pool \in [servers : Nat \ {0}, drives : Nat \ {0}]
  /\ parityPc \in {"start", "loop", "check", "offered", "error"}
  /\ left \subseteq setSizes
  /\ prevD \in Nat
  /\ setSize \in Nat

ParityInit ==
  /\ pool \in [servers : 1 .. MaxServers, drives : 1 .. MaxServerDrives]
  /\ parityPc = "start"
  /\ left = {}
  /\ prevD = 0 /\ setSize = 0

-----------------------------------------------------------------------------
totalSize == pool.servers * pool.drives

\* The sizes that divide the drives. Of the two ellipses of the pool only that of
\* the servers, which comes last, counts for the symmetry.
setCounts ==
  {s \in setSizes : /\ totalSize % s = 0
                    /\ IF pool.servers > s THEN pool.servers % s = 0 ELSE s % pool.servers = 0}

\* The first size in ascending order.
First(c, counts) == c \in counts /\ \A d \in counts : c <= d

\* Up to the loop of commonSetDriveCount.
getSetIndexes ==
  /\ parityPc = "start"
  /\ \/ /\ totalSize < 4 \/ setCounts = {}
        /\ parityPc' = "error"
        /\ UNCHANGED <<left, prevD, setSize>>
     \/ /\ totalSize >= 4 /\ \E c \in setCounts : totalSize < c
        /\ parityPc' = "check" /\ setSize' = totalSize
        /\ UNCHANGED <<left, prevD>>
     \/ /\ totalSize >= 4 /\ \A c \in setCounts : totalSize >= c
        /\ \E c \in setCounts : First(c, setCounts) /\ prevD' = totalSize \div c
        /\ parityPc' = "loop" /\ left' = setCounts
        /\ UNCHANGED setSize
  /\ UNCHANGED pool

\* Mutated form of Prefers: the first of the sizes is kept.
PrefersFirst(d) == d < prevD

\* A size with no more sets than the sizes before it is preferred.
Prefers(d) == d <= prevD

\* One round of the loop of commonSetDriveCount.
VisitCount ==
  /\ parityPc = "loop"
  /\ \E c \in left :
       /\ First(c, left)
       /\ left' = left \ {c}
       /\ IF totalSize % c = 0 /\ Prefers(totalSize \div c)
            THEN prevD' = totalSize \div c /\ setSize' = c
            ELSE UNCHANGED <<prevD, setSize>>
  /\ UNCHANGED <<pool, parityPc>>

LoopEnds ==
  /\ parityPc = "loop" /\ left = {}
  /\ parityPc' = "check"
  /\ UNCHANGED <<pool, left, prevD, setSize>>

isValidSetSize ==
  /\ parityPc = "check"
  /\ parityPc' = IF setSize \in setSizes THEN "offered" ELSE "error"
  /\ UNCHANGED <<pool, left, prevD, setSize>>

ParityNext == getSetIndexes \/ VisitCount \/ LoopEnds \/ isValidSetSize

ParitySpec == ParityInit /\ [][ParityNext]_parityVars

PossibleParityValues == IF parityPc = "offered" THEN 2 .. (setSize \div 2) ELSE {}

-----------------------------------------------------------------------------
Divides(a, b) == \E k \in 1 .. b : k * a = b

\* The sizes of erasure sets that use up the drives and take as many from each
\* server, or whole servers.
EvenSizes ==
  {s \in setSizes : /\ Divides(s, totalSize)
                    /\ Divides(s, pool.servers) \/ Divides(pool.servers, s)}

\* What creation accepts.
AcceptedParities == 2 .. 8

\* The parities that are offered are those of the largest erasure sets a pool can
\* have with as many drives from each server, at most half of a set, and creation
\* accepts every one of them; none is offered only when there are no such sets.
ParitiesAreSound ==
  parityPc \in {"offered", "error"} =>
    /\ PossibleParityValues \subseteq AcceptedParities
    /\ PossibleParityValues =
         {k \in AcceptedParities : \E s \in EvenSizes : 2 * k <= s /\ \A z \in EvenSizes : z <= s}
=============================================================================
