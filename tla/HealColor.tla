------------------------------- MODULE HealColor -------------------------------
(***************************************************************************)
(* The health colour of an item that was healed (getHColCode and the two   *)
(* functions that call it), and the change of one item's drives: while it  *)
(* is healed, drives that lack it come to have it, in any of its sets.     *)
(***************************************************************************)
EXTENDS Integers, Sequences, FiniteSets, FiniteSetsExt

CONSTANTS
  MaxDrives,  \* drives in an erasure set
  MaxSets     \* erasure sets

ASSUME DrivesAssumption == MaxDrives \in Nat \ {0} /\ MaxSets \in Nat \ {0}

VARIABLE item  \* madmin.HealResultItem: its type, its layout, its drives

ReplicatedTypes == {"metadata", "bucket"}
ErasureTypes == {"object", "bucket-metadata"}

\* An erasure-coded item has as many shards as the drives of its one set, a
\* replicated one (for which only their number counts) a copy on every drive.
Layouts ==
  {l \in [type : ReplicatedTypes \cup ErasureTypes, data : 1..MaxDrives,
          parity : 0..MaxDrives, sets : 1..MaxSets] :
     /\ l.data + l.parity <= MaxDrives
     /\ IF l.type \in ErasureTypes THEN l.sets = 1 ELSE l.parity = 0}

Drives(i) == i.data + i.parity

\* How many drives of each set have the item: any number of any set.
Counts(i) == [1..i.sets -> 0..Drives(i)]

DiskCount(i) == Drives(i) * i.sets

\* The drives that have the item, of all the sets together; those of a set are
\* numbered so that the ones that have it come first.
OnlineDrives(i, counts) ==
  {d \in (1..i.sets) \X (1..Drives(i)) : d[2] <= counts[d[1]]}
Online(i, counts) == Cardinality(OnlineDrives(i, counts))

-----------------------------------------------------------------------------
Colors == <<"Grey", "Red", "Yellow", "Green">>

hColOrder == <<"Red", "Yellow", "Green">>
hColTable ==
  << <<0, -1, 1>>, <<0, 1, 2>>, <<1, 2, 3>>, <<1, 2, 4>>,
     <<1, 3, 5>>, <<2, 4, 6>>, <<2, 4, 7>>, <<2, 5, 8>> >>

\* The columns the loop would stop at; it stops at the first.
FirstColumn(surplus, row) ==
  {k \in 1..3 : row[k] # -1 /\ surplus <= row[k]}

\* "error" where the code returns one.
getHColCode(surplus, parity) ==
  IF parity < 1 \/ parity > 8 \/ surplus > parity THEN "error"
  ELSE IF surplus < 0 THEN "Grey"
  ELSE LET hits == FirstColumn(surplus, hColTable[parity])
       IN  IF hits = {} THEN "error" ELSE hColOrder[Min(hits)]

getObjectColor(i, online) == getHColCode(online - i.data, i.parity)

\* Mutated form of getReplicatedColor: the drives of all sets against the
\* quorum of one.
ColorOfAllSets(i, online) ==
  LET quorum == (DiskCount(i) \div i.sets) \div 2 + 1
  IN  getHColCode(online - quorum, (DiskCount(i) \div i.sets) - quorum)

getReplicatedColor(i, online) ==
  LET drives == DiskCount(i) \div i.sets
      quorum == drives \div 2 + 1
  IN  getHColCode((online \div i.sets) - quorum, drives - quorum)

\* updateStats: which of the two is used.
ColorOf(i, counts) ==
  IF i.type \in ReplicatedTypes THEN getReplicatedColor(i, Online(i, counts))
                                ELSE getObjectColor(i, Online(i, counts))

-----------------------------------------------------------------------------
HealInit ==
  \E l \in Layouts : \E counts \in Counts(l) :
    item = [type |-> l.type, data |-> l.data, parity |-> l.parity, sets |-> l.sets,
            before |-> counts, after |-> counts]

\* One more drive of one set comes to have the item.
Heal ==
  \E k \in 1..item.sets :
    /\ item.after[k] < Drives(item)
    /\ item' = [item EXCEPT !.after[k] = @ + 1]

HealSpec == HealInit /\ [][Heal]_item

-----------------------------------------------------------------------------
Rank(color) == CHOOSE k \in 1..4 : Colors[k] = color

\* What the two functions take for the tolerance of an item: how many drives
\* of a set may lack it, and how many must have it.
Tolerance(i) ==
  IF i.type \in ErasureTypes THEN i.parity ELSE Drives(i) - (Drives(i) \div 2 + 1)
NeededDrives(i) == Drives(i) - Tolerance(i)

Lost(k) == item.after[k] < NeededDrives(item)

\* Every item with one to eight drives of tolerance gets a colour, the others
\* none: the table has a row for each and no gap in a row. An item that has too few
\* drives in every set is grey, a grey one has too few in some set (so that with one
\* set grey says just that), an item that every drive has is green, and healing drives
\* never makes the colour worse, in whichever sets they are. Of several sets the code
\* takes the mean, so the colour does not tell whether one of them has too few drives.
ColorTruthful ==
  LET color == ColorOf(item, item.after)
  IN /\ color = "error" <=> Tolerance(item) \notin 1..8
     /\ color # "error" =>
          /\ (\A k \in 1..item.sets : Lost(k)) => color = "Grey"
          /\ color = "Grey" => \E k \in 1..item.sets : Lost(k)
          /\ (\A k \in 1..item.sets : item.after[k] = Drives(item)) => color = "Green"
          /\ Rank(ColorOf(item, item.before)) <= Rank(color)
=============================================================================
