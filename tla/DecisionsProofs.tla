---------------------------- MODULE DecisionsProofs ----------------------------
(***************************************************************************)
(* Proofs about decisions the console makes by itself, which MCDecisions   *)
(* checks: whether a traced call is shown, who is listed as having access  *)
(* to a bucket, the colour of a healed item, the memory and the parity of  *)
(* a tenant.                                                               *)
(***************************************************************************)
EXTENDS TraceFilter, BucketAccess, HealColor, ClusterMemory, ErasureSets,
        FiniteSetTheorems, WellFoundedInduction, TLAPS

-----------------------------------------------------------------------------
(* Traces. *)

TraceTypeOK ==
  opts \in [path : Words \cup {NoWord}, statusCode : Codes \cup {0},
            method : Methods \cup {NoWord}, funcName : Words \cup {NoWord}]

LEMMA TraceTyped == TraceSpec => []TraceTypeOK
<1>1. TraceInit => TraceTypeOK
  BY DEF TraceInit, TraceTypeOK, NoFilter
<1>2. TraceTypeOK /\ [AddFilter]_traceVars => TraceTypeOK'
  BY DEF TraceTypeOK, AddFilter, traceVars
<1> QED
  BY <1>1, <1>2, PTL DEF TraceSpec

\* Theorem: whatever filters are set, one after the other, no call that satisfies
\* all of them is left out of the trace (matchTrace looks only at the first).
THEOREM NothingIsMissing == TraceSpec => []NothingMissing
<1>1. TraceTypeOK => NothingMissing
  BY CodesAssumption DEF TraceTypeOK, NothingMissing, MatchesEach, matchTrace
<1> QED
  BY <1>1, TraceTyped, PTL

-----------------------------------------------------------------------------
(* Access to a bucket. *)

Some(u, effect) == \E p \in PolicyNames : <<u, p>> \in fetched /\ Decides(p, effect)

\* Of what was fetched so far, the two maps say who is denied, and who is allowed
\* and not denied.
Judged ==
  \A u \in Accounts :
    /\ u \in denied <=> Some(u, "Deny")
    /\ u \in access <=> Some(u, "Allow") /\ ~Some(u, "Deny")

ListedOK ==
  /\ accessPc # "ok" => listed = {}
  /\ accessPc = "ok" => listed = access

AccessIInv == AccessTypeOK /\ Judged /\ ListedOK

LEMMA LeastElement ==
  ASSUME NEW S \in SUBSET Nat, S # {}
  PROVE  \E n \in S : \A m \in S : n <= m
<1> DEFINE R == OpToRel(<, Nat)
<1>1. IsWellFoundedOn(R, Nat)
  BY NatLessThanWellFounded
<1>2. \A n, m \in Nat : <<m, n>> \in R <=> m < n
  BY Zenon DEF OpToRel
<1> HIDE DEF R
<1>3. PICK n \in S : \A m \in S : <<m, n>> \notin R
  BY <1>1, WFMin, Zenon
<1>4. \A m \in S : n \in Nat /\ m \in Nat /\ ~(m < n)
  BY <1>2, <1>3, Zenon
<1> QED
  BY <1>4

\* A policy has the effect of its first statement about the bucket.
LEMMA EffectIsFirst ==
  ASSUME NEW p \in PolicyNames, AccessTypeOK, NEW effect \in Effects
  PROVE  Decides(p, effect) <=> policyAllowsAndMatchesBucket(policy[p]) = effect
<1> DEFINE doc == policy[p]
           hits == Matches(doc)
<1>1. doc \in Seq(Effects \cup {"Other"})
  BY DocumentsAssumption DEF AccessTypeOK
<1>2. DOMAIN doc = 1 .. Len(doc) /\ Len(doc) \in Nat /\ \A n \in DOMAIN doc : doc[n] \in Effects \cup {"Other"}
  BY <1>1
<1> HIDE DEF doc
<1>3. CASE hits = {}
  <2>1. ~Decides(p, effect)
    BY <1>3 DEF Decides, Matches, doc
  <2>2. policyAllowsAndMatchesBucket(doc) = "Unknown"
    BY <1>3 DEF policyAllowsAndMatchesBucket
  <2> QED
    BY <2>1, <2>2 DEF Effects, doc
<1>4. CASE hits # {}
  <2>1. \E n \in hits : \A m \in hits : n <= m
    <3>1. hits \in SUBSET Nat
      BY <1>2 DEF Matches
    <3> HIDE DEF hits
    <3> QED
      BY <3>1, <1>4, LeastElement
  <2> DEFINE first == CHOOSE n \in hits : \A m \in hits : n <= m
  <2>2. first \in hits /\ \A m \in hits : first <= m
    BY <2>1
  <2>3. policyAllowsAndMatchesBucket(doc) = doc[first]
    BY <1>4 DEF policyAllowsAndMatchesBucket
  <2> HIDE DEF first, hits
  <2>4. \A m \in 1 .. first - 1 : doc[m] = "Other"
    BY <1>2, <2>2 DEF hits, Matches
  <2>5. doc[first] = effect => Decides(p, effect)
    BY <2>2, <2>4 DEF Decides, hits, Matches, doc
  <2>6. ASSUME Decides(p, effect) PROVE doc[first] = effect
    <3>1. PICK n \in DOMAIN doc : doc[n] = effect /\ \A m \in 1 .. n - 1 : doc[m] = "Other"
      BY <2>6 DEF Decides, doc
    <3>2. n \in hits
      BY <3>1 DEF hits, Matches
    <3>3. first \in DOMAIN doc /\ doc[first] # "Other" /\ first <= n
      BY <2>2, <3>2 DEF hits, Matches, Effects
    <3>4. first = n
      BY <1>2, <3>1, <3>3
    <3> QED
      BY <3>1, <3>4
  <2> QED
    BY <2>3, <2>5, <2>6 DEF doc
<1> QED
  BY <1>3, <1>4

LEMMA JudgedStays ==
  ASSUME Judged, UNCHANGED <<policy, fetched, access, denied>>
  PROVE  Judged'
<1>1. ASSUME NEW q, NEW effect PROVE Decides(q, effect)' <=> Decides(q, effect)
  BY DEF Decides
<1>2. ASSUME NEW u, NEW effect PROVE Some(u, effect)' <=> Some(u, effect)
  BY <1>1 DEF Some
<1>3. \A u \in Accounts : /\ Some(u, "Deny")' <=> Some(u, "Deny")
                          /\ Some(u, "Allow")' <=> Some(u, "Allow")
  BY <1>2
<1> QED
  BY <1>3 DEF Judged

LEMMA InitialAccessIInv == AccessInit => AccessIInv
  BY DEF AccessInit, AccessStart, AccessIInv, AccessTypeOK, Judged, Some, ListedOK

\* A policy that is fetched for some users, or that cannot be, leaves who is
\* allowed and who is denied as what was fetched says.
LEMMA ConsultKeeps ==
  ASSUME AccessTypeOK, Judged, NEW us \in SUBSET Accounts, NEW p \in PolicyNames, Consult(us, p),
         UNCHANGED policy
  PROVE  /\ Judged'
         /\ access' \subseteq Accounts /\ denied' \subseteq Accounts /\ access' \cap denied' = {}
         /\ fetched' \subseteq Accounts \X PolicyNames
<1>1. CASE Skip
  BY <1>1, JudgedStays DEF Skip, AccessTypeOK
<1>2. CASE /\ Judge(us, policyAllowsAndMatchesBucket(policy[p]))
           /\ fetched' = fetched \cup (us \X {p})
  <2> DEFINE effect == policyAllowsAndMatchesBucket(policy[p])
  <2>1. (Decides(p, "Allow") <=> effect = "Allow") /\ (Decides(p, "Deny") <=> effect = "Deny")
    BY EffectIsFirst DEF Effects
  <2>2. \A q \in PolicyNames : (Decides(q, "Allow")' <=> Decides(q, "Allow"))
                            /\ (Decides(q, "Deny")' <=> Decides(q, "Deny"))
    BY DEF Decides
  <2> HIDE DEF effect
  <2>3. \A u \in Accounts : /\ Some(u, "Allow")' <=> Some(u, "Allow") \/ (u \in us /\ effect = "Allow")
                            /\ Some(u, "Deny")' <=> Some(u, "Deny") \/ (u \in us /\ effect = "Deny")
    BY <1>2, <2>1, <2>2 DEF Some
  <2>4. /\ effect = "Allow" => access' = access \cup (us \ denied) /\ denied' = denied
        /\ effect = "Deny" => access' = access \ us /\ denied' = denied \cup us
        /\ effect \notin {"Allow", "Deny"} => access' = access /\ denied' = denied
    BY <1>2 DEF Judge, effect
  <2>5. Judged'
    BY <2>3, <2>4 DEF Judged
  <2>6. access' \subseteq Accounts /\ denied' \subseteq Accounts /\ access' \cap denied' = {}
    BY <2>4 DEF AccessTypeOK
  <2>7. fetched' \subseteq Accounts \X PolicyNames
    BY <1>2 DEF AccessTypeOK
  <2> QED
    BY <2>5, <2>6, <2>7
<1> QED
  BY <1>1, <1>2 DEF Consult

LEMMA StepKeepsAccessIInv == AccessIInv /\ [AccessNext]_accessVars => AccessIInv'
<1> SUFFICES ASSUME AccessIInv, [AccessNext]_accessVars PROVE AccessIInv'
  OBVIOUS
<1> USE DEF AccessIInv, grants
<1>1. CASE UNCHANGED accessVars
  <2>1. Judged'
    BY <1>1, JudgedStays DEF accessVars
  <2> QED
    BY <1>1, <2>1 DEF AccessTypeOK, ListedOK, accessVars
<1>2. CASE ListUsers
  <2>1. AccessTypeOK'
    BY <1>2 DEF ListUsers, AccessTypeOK
  <2>2. Judged'
    BY <1>2, JudgedStays DEF ListUsers
  <2> QED
    BY <1>2, <2>1, <2>2 DEF ListUsers, ListedOK
<1>3. CASE UserPolicy
  <2>1. PICK t \in pairs : pairs' = pairs \ {t} /\ Consult({t[1]}, t[2])
    BY <1>3 DEF UserPolicy
  <2>2. {t[1]} \in SUBSET Accounts /\ t[2] \in PolicyNames
    BY DEF AccessTypeOK
  <2>3. UNCHANGED <<policy, attached, mapped, members, accessPc, groups, listed>>
    BY <1>3 DEF UserPolicy
  <2>4. /\ Judged'
        /\ access' \subseteq Accounts /\ denied' \subseteq Accounts /\ access' \cap denied' = {}
        /\ fetched' \subseteq Accounts \X PolicyNames
    BY <2>1, <2>2, <2>3, ConsultKeeps
  <2>5. accessPc = "userPolicies" /\ listed = {}
    BY <1>3 DEF UserPolicy, ListedOK
  <2>6. AccessTypeOK' /\ ListedOK'
    BY <2>1, <2>3, <2>4, <2>5 DEF AccessTypeOK, ListedOK
  <2> QED
    BY <2>4, <2>6
<1>4. CASE ListGroups
  <2>1. AccessTypeOK'
    BY <1>4 DEF ListGroups, AccessTypeOK
  <2>2. Judged'
    BY <1>4, JudgedStays DEF ListGroups
  <2> QED
    BY <1>4, <2>1, <2>2 DEF ListGroups, ListedOK
<1>5. CASE GroupPolicy
  <2>1. PICK g \in groups :
          /\ groups' = groups \ {g}
          /\ IF \E p \in PolicyNames : mapped[g] = {p}
               THEN \E p \in mapped[g] : Consult(members[g], p)
               ELSE UNCHANGED <<access, denied, fetched>>
    BY <1>5 DEF GroupPolicy
  <2>2. UNCHANGED <<policy, attached, mapped, members, accessPc, pairs, listed>>
    BY <1>5 DEF GroupPolicy
  <2>3. accessPc = "groups" /\ listed = {}
    BY <1>5 DEF GroupPolicy, ListedOK
  <2>4. /\ Judged'
        /\ access' \subseteq Accounts /\ denied' \subseteq Accounts /\ access' \cap denied' = {}
        /\ fetched' \subseteq Accounts \X PolicyNames
    <3>1. CASE \E p \in PolicyNames : mapped[g] = {p}
      <4>1. PICK p \in mapped[g] : Consult(members[g], p)
        BY <2>1, <3>1
      <4>2. p \in PolicyNames /\ members[g] \in SUBSET Accounts
        BY DEF AccessTypeOK
      <4> QED
        BY <2>2, <4>1, <4>2, ConsultKeeps
    <3>2. CASE ~\E p \in PolicyNames : mapped[g] = {p}
      BY <2>1, <2>2, <3>2, JudgedStays DEF AccessTypeOK
    <3> QED
      BY <3>1, <3>2
  <2>5. AccessTypeOK' /\ ListedOK'
    BY <2>1, <2>2, <2>3, <2>4 DEF AccessTypeOK, ListedOK
  <2> QED
    BY <2>4, <2>5
<1>6. CASE Done
  <2>1. Judged'
    BY <1>6, JudgedStays DEF Done
  <2> QED
    BY <1>6, <2>1 DEF Done, AccessTypeOK, ListedOK
<1> QED
  BY <1>1, <1>2, <1>3, <1>4, <1>5, <1>6 DEF AccessNext

\* Theorem: whatever users, groups, policies and statements there are, in whatever
\* order they are looked at and whatever policies could not be fetched, somebody is
\* listed exactly when a policy that was fetched allows the bucket and none of those
\* denies it (listUsersWithAccessToBucket).
THEOREM ListedRight == AccessSpec => []ListedByWhatWasFetched
<1>1. AccessIInv => ListedByWhatWasFetched
  BY DEF AccessIInv, Judged, Some, ListedOK, ListedByWhatWasFetched
<1> QED
  BY InitialAccessIInv, StepKeepsAccessIInv, <1>1, PTL DEF AccessSpec
-----------------------------------------------------------------------------
(* Colours. *)

\* An item has a layout, a count for each of its sets, and what it had before it has.
ColorTypeOK ==
  /\ item = [type |-> item.type, data |-> item.data, parity |-> item.parity, sets |-> item.sets,
             before |-> item.before, after |-> item.after]
  /\ item.type \in ReplicatedTypes \cup ErasureTypes
  /\ item.data \in 1 .. MaxDrives /\ item.parity \in 0 .. MaxDrives /\ item.sets \in 1 .. MaxSets
  /\ item.type \in ErasureTypes => item.sets = 1
  /\ item.before \in Counts(item) /\ item.after \in Counts(item)
  /\ \A k \in 1 .. item.sets : item.before[k] <= item.after[k]

LEMMA ColorTyped == HealSpec => []ColorTypeOK
<1>1. HealInit => ColorTypeOK
  <2> SUFFICES ASSUME HealInit PROVE ColorTypeOK
    OBVIOUS
  <2>0. PICK l \in Layouts : \E counts \in Counts(l) :
          item = [type |-> l.type, data |-> l.data, parity |-> l.parity, sets |-> l.sets,
                  before |-> counts, after |-> counts]
    BY DEF HealInit
  <2>1. PICK counts \in Counts(l) :
          item = [type |-> l.type, data |-> l.data, parity |-> l.parity, sets |-> l.sets,
                  before |-> counts, after |-> counts]
    BY <2>0
  <2>2. counts \in Counts(item)
    BY <2>1 DEF Counts, Drives
  <2>3. \A k \in 1 .. l.sets : counts[k] <= counts[k]
    BY <2>1, DrivesAssumption DEF Counts, Drives, Layouts
  <2> QED
    BY <2>1, <2>2, <2>3 DEF ColorTypeOK, Layouts
<1>2. ColorTypeOK /\ [Heal]_item => ColorTypeOK'
  <2> SUFFICES ASSUME ColorTypeOK, Heal PROVE ColorTypeOK'
    BY DEF ColorTypeOK, Counts, Drives
  <2>1. PICK k \in 1 .. item.sets :
          item.after[k] < Drives(item) /\ item' = [item EXCEPT !.after[k] = @ + 1]
    BY DEF Heal
  <2>2. /\ item'.type = item.type /\ item'.data = item.data /\ item'.parity = item.parity
        /\ item'.sets = item.sets /\ item'.before = item.before
        /\ item'.after = [item.after EXCEPT ![k] = @ + 1]
        /\ item' = [type |-> item'.type, data |-> item'.data, parity |-> item'.parity,
                    sets |-> item'.sets, before |-> item'.before, after |-> item'.after]
    BY <2>1 DEF ColorTypeOK
  <2>3. Drives(item) \in Nat /\ Counts(item') = Counts(item)
    BY <2>2, DrivesAssumption DEF ColorTypeOK, Counts, Drives
  <2>4. /\ item'.after \in Counts(item)
        /\ \A j \in 1 .. item.sets : item.after[j] \in Nat /\ item.before[j] \in Nat
                                     /\ item.after[j] <= item'.after[j]
    BY <2>1, <2>2, <2>3 DEF ColorTypeOK, Counts
  <2>5. \A j \in 1 .. item.sets : item'.before[j] <= item'.after[j]
    <3>1. item'.after \in [1 .. item.sets -> 0 .. Drives(item)]
      BY <2>4 DEF Counts
    <3>2. \A n \in Nat : \A f \in [1 .. item.sets -> 0 .. n] : \A j \in 1 .. item.sets : f[j] \in Nat
      OBVIOUS
    <3>3. \A j \in 1 .. item.sets : item'.after[j] \in Nat
      BY <2>3, <3>1, <3>2
    <3> QED
      BY <2>2, <2>4, <3>3 DEF ColorTypeOK
  <2> QED
    BY <2>2, <2>3, <2>4, <2>5 DEF ColorTypeOK
<1> QED
  BY <1>1, <1>2, PTL DEF HealSpec

\* What the loop over the row of the table comes to.
RowColor(surplus, row) ==
  IF surplus < 0 THEN "Grey"
  ELSE IF surplus <= row[1] THEN "Red"
  ELSE IF row[2] # -1 /\ surplus <= row[2] THEN "Yellow" ELSE "Green"

\* The properties of the rows that the colours rest on.
LEMMA Rows ==
  ASSUME NEW t \in 1 .. 8
  PROVE  /\ hColTable[t][1] \in Nat /\ hColTable[t][2] \in Int
         /\ hColTable[t][3] = t /\ hColTable[t][1] < t /\ hColTable[t][2] < t
<1>1. t = 1 \/ t = 2 \/ t = 3 \/ t = 4 \/ t = 5 \/ t = 6 \/ t = 7 \/ t = 8
  OBVIOUS
<1> QED
  BY <1>1 DEF hColTable

LEMMA CodeIsRowColor ==
  ASSUME NEW t \in 1 .. 8, NEW s \in Int, s <= t
  PROVE  getHColCode(s, t) = RowColor(s, hColTable[t])
<1> DEFINE row == hColTable[t]
           hits == FirstColumn(s, row)
<1>1. /\ row[1] \in Nat /\ row[2] \in Int
      /\ row[3] = t /\ row[1] < t /\ row[2] < t
  BY Rows
<1> HIDE DEF row
<1>2. \A k : k \in hits <=> k \in {1, 2, 3} /\ row[k] # -1 /\ s <= row[k]
  BY DEF FirstColumn
<1>3. 3 \in hits
  BY <1>1, <1>2
<1>4. ASSUME NEW n \in hits, \A m \in hits : n <= m PROVE Min(hits) = n
  <2>1. hits \subseteq Nat
    BY <1>2
  <2> HIDE DEF hits
  <2>2. \A m \in hits : (\A k \in hits : m <= k) => m = n
    BY <1>4, <2>1
  <2> QED
    BY <1>4, <2>2 DEF Min
<1>5. s >= 0 => getHColCode(s, t) = hColOrder[Min(hits)]
  BY <1>3 DEF getHColCode, row
<1>6. s < 0 => getHColCode(s, t) = "Grey"
  BY DEF getHColCode
<1> HIDE DEF hits
<1>7. CASE s >= 0 /\ s <= row[1]
  <2>1. 1 \in hits
    BY <1>1, <1>2, <1>7
  <2>2. Min(hits) = 1
    BY <1>2, <1>4, <2>1
  <2> QED
    BY <1>1, <1>5, <1>7, <2>2 DEF hColOrder, RowColor, row
<1>8. CASE s > row[1] /\ row[2] # -1 /\ s <= row[2]
  <2>1. 2 \in hits /\ 1 \notin hits
    BY <1>1, <1>2, <1>8
  <2>2. Min(hits) = 2
    BY <1>2, <1>4, <2>1
  <2> QED
    BY <1>1, <1>5, <1>8, <2>2 DEF hColOrder, RowColor, row
<1>9. CASE s > row[1] /\ ~(row[2] # -1 /\ s <= row[2])
  <2>1. 2 \notin hits /\ 1 \notin hits
    BY <1>1, <1>2, <1>9
  <2>2. Min(hits) = 3
    BY <1>2, <1>3, <1>4, <2>1
  <2> QED
    BY <1>1, <1>5, <1>9, <2>2 DEF hColOrder, RowColor, row
<1> QED
  BY <1>1, <1>6, <1>7, <1>8, <1>9 DEF RowColor, row

LEMMA RanksOfColors ==
  Rank("Grey") = 1 /\ Rank("Red") = 2 /\ Rank("Yellow") = 3 /\ Rank("Green") = 4
  BY DEF Rank, Colors

LEMMA CodeTruthful ==
  ASSUME NEW t \in Nat, NEW s \in Int, s <= t, NEW less \in Int, less <= s
  PROVE  /\ getHColCode(s, t) = "error" <=> t \notin 1 .. 8
         /\ getHColCode(s, t) # "error" =>
              /\ getHColCode(s, t) = "Grey" <=> s < 0
              /\ s = t => getHColCode(s, t) = "Green"
              /\ Rank(getHColCode(less, t)) <= Rank(getHColCode(s, t))
<1>1. CASE t \notin 1 .. 8
  BY <1>1 DEF getHColCode
<1>2. CASE t \in 1 .. 8
  <2>1. /\ hColTable[t][1] \in Nat /\ hColTable[t][2] \in Int
        /\ hColTable[t][1] < t /\ hColTable[t][2] < t
    BY <1>2, Rows
  <2>2. getHColCode(s, t) = RowColor(s, hColTable[t])
    BY <1>2, CodeIsRowColor
  <2>3. getHColCode(less, t) = RowColor(less, hColTable[t])
    <3>1. less <= t
      OBVIOUS
    <3> QED
      BY <1>2, <3>1, CodeIsRowColor
  <2>4. RowColor(s, hColTable[t]) # "error" /\ (RowColor(s, hColTable[t]) = "Grey" <=> s < 0)
    BY DEF RowColor
  <2>5. s = t => RowColor(s, hColTable[t]) = "Green"
    BY <1>2, <2>1 DEF RowColor
  <2>6. Rank(RowColor(less, hColTable[t])) <= Rank(RowColor(s, hColTable[t]))
    BY <2>1, RanksOfColors DEF RowColor
  <2> QED
    BY <1>2, <2>2, <2>3, <2>4, <2>5, <2>6
<1> QED
  BY <1>1, <1>2

LEMMA OneTo ==
  ASSUME NEW n \in Nat
  PROVE  IsFiniteSet(1 .. n) /\ Cardinality(1 .. n) = n
<1>1. 1 \in Int /\ n \in Int
  OBVIOUS
<1>2. IsFiniteSet(1 .. n) /\ Cardinality(1 .. n) = IF 1 > n THEN 0 ELSE n - 1 + 1
  BY <1>1, FS_Interval, Zenon
<1> QED
  BY <1>2

LEMMA Grid ==
  ASSUME NEW m \in Nat, NEW n \in Nat
  PROVE  IsFiniteSet((1 .. m) \X (1 .. n)) /\ Cardinality((1 .. m) \X (1 .. n)) = m * n
<1> DEFINE A == 1 .. m
           B == 1 .. n
<1>1. IsFiniteSet(A) /\ Cardinality(A) = m /\ IsFiniteSet(B) /\ Cardinality(B) = n
  BY OneTo
<1> HIDE DEF A, B
<1>2. IsFiniteSet(A \X B) /\ Cardinality(A \X B) = m * n
  BY <1>1, FS_Product
<1> QED
  BY <1>2 DEF A, B

\* Of the drives of all the sets at least so many have the item as have it in every
\* set, and at most so many.
LEMMA OnlineBounds ==
  ASSUME NEW i, i.sets \in Nat \ {0}, Drives(i) \in Nat, NEW c \in Counts(i), NEW n \in 0 .. Drives(i)
  PROVE  /\ Online(i, c) \in 0 .. i.sets * Drives(i)
         /\ (\A k \in 1 .. i.sets : n <= c[k]) => i.sets * n <= Online(i, c)
         /\ (\A k \in 1 .. i.sets : c[k] <= n) => Online(i, c) <= i.sets * n
<1> DEFINE Block(m) == (1 .. i.sets) \X (1 .. m)
           On == OnlineDrives(i, c)
<1>1. ASSUME NEW m \in Nat PROVE IsFiniteSet(Block(m)) /\ Cardinality(Block(m)) = i.sets * m
  BY Grid
<1>2. On \in SUBSET Block(Drives(i))
  BY DEF OnlineDrives
<1>3. \A k \in 1 .. i.sets : c[k] \in 0 .. Drives(i)
  BY DEF Counts
<1>4. ASSUME \A k \in 1 .. i.sets : n <= c[k] PROVE Block(n) \in SUBSET On
  <2>1. ASSUME NEW d \in Block(n) PROVE d[1] \in 1 .. i.sets /\ d[2] \in 1 .. Drives(i) /\ d[2] <= c[d[1]]
    <3>1. d[1] \in 1 .. i.sets /\ d[2] \in 1 .. n
      OBVIOUS
    <3>2. n <= c[d[1]] /\ c[d[1]] \in 0 .. Drives(i)
      BY <1>3, <1>4, <3>1
    <3> QED
      BY <3>1, <3>2
  <2> QED
    BY <2>1 DEF OnlineDrives
<1>5. ASSUME \A k \in 1 .. i.sets : c[k] <= n PROVE On \in SUBSET Block(n)
  <2>1. ASSUME NEW d \in On PROVE d[1] \in 1 .. i.sets /\ d[2] \in 1 .. n
    <3>1. d[1] \in 1 .. i.sets /\ d[2] \in 1 .. Drives(i) /\ d[2] <= c[d[1]]
      BY DEF OnlineDrives
    <3>2. c[d[1]] <= n /\ c[d[1]] \in 0 .. Drives(i)
      BY <1>3, <1>5, <3>1
    <3> QED
      BY <3>1, <3>2
  <2> QED
    BY <2>1 DEF OnlineDrives
<1>6. On \in SUBSET ((1 .. i.sets) \X (1 .. Drives(i)))
  BY <1>2
<1> HIDE DEF Block, On
<1>7. IsFiniteSet(On) /\ Cardinality(On) \in Nat /\ Cardinality(On) <= i.sets * Drives(i)
  BY <1>1, <1>2, FS_Subset, FS_CardinalityType
<1>8. n \in Nat
  OBVIOUS
<1>9. (\A k \in 1 .. i.sets : n <= c[k]) => i.sets * n <= Cardinality(On)
  BY <1>1, <1>4, <1>7, <1>8, FS_Subset
<1>10. (\A k \in 1 .. i.sets : c[k] <= n) => Cardinality(On) <= i.sets * n
  BY <1>1, <1>5, <1>7, <1>8, FS_Subset
<1>11. Online(i, c) = Cardinality(On) /\ i.sets * Drives(i) \in Nat
  <2>1. \A a, b \in Nat : a * b \in Nat
    OBVIOUS
  <2> QED
    BY <2>1 DEF Online, On
<1> QED
  BY <1>7, <1>9, <1>10, <1>11

\* More drives in some sets and fewer in none are more drives.
LEMMA OnlineGrows ==
  ASSUME NEW i, i.sets \in Nat \ {0}, Drives(i) \in Nat, NEW b \in Counts(i), NEW c \in Counts(i),
         \A k \in 1 .. i.sets : b[k] <= c[k]
  PROVE  Online(i, b) <= Online(i, c)
<1>1. ASSUME NEW d \in OnlineDrives(i, b) PROVE d \in OnlineDrives(i, c)
  <2>1. d \in (1 .. i.sets) \X (1 .. Drives(i)) /\ d[2] <= b[d[1]]
    BY DEF OnlineDrives
  <2>2. d[1] \in 1 .. i.sets /\ d[2] \in Nat
    BY <2>1
  <2>3. b[d[1]] \in Nat /\ c[d[1]] \in Nat /\ b[d[1]] <= c[d[1]]
    BY <2>2 DEF Counts
  <2>4. d[2] <= c[d[1]]
    BY <2>1, <2>2, <2>3
  <2> QED
    BY <2>1, <2>4 DEF OnlineDrives
<1>2. IsFiniteSet(OnlineDrives(i, c))
  <2>2. IsFiniteSet((1 .. i.sets) \X (1 .. Drives(i)))
    BY Grid
  <2>3. OnlineDrives(i, c) \in SUBSET ((1 .. i.sets) \X (1 .. Drives(i)))
    BY DEF OnlineDrives
  <2> QED
    BY <2>2, <2>3, FS_Subset
<1> QED
  BY <1>1, <1>2, FS_Subset DEF Online

\* What the division by the sets makes of bounds on their drives together.
LEMMA MeanBounds ==
  ASSUME NEW s \in Nat \ {0}, NEW a \in Nat, NEW b \in Nat
  PROVE  /\ a \div s \in Nat
         /\ a <= b => a \div s <= b \div s
         /\ \A n \in Nat : /\ s * n <= a => n <= a \div s
                           /\ a <= s * n => a \div s <= n
                           /\ (s * n) \div s = n
<1>1. /\ a \div s \in Nat /\ b \div s \in Nat
      /\ s * (a \div s) <= a /\ a < s * (a \div s + 1)
      /\ s * (b \div s) <= b /\ b < s * (b \div s + 1)
  OBVIOUS
<1>2. ASSUME NEW p \in Nat, NEW q \in Nat, s * p < s * (q + 1) PROVE p <= q
  <2>1. p >= q + 1 => s * p >= s * (q + 1)
    OBVIOUS
  <2> QED
    BY <1>2, <2>1
<1>3. a <= b => a \div s <= b \div s
  <2>1. s * (a \div s) \in Nat /\ s * (b \div s + 1) \in Nat
    BY <1>1
  <2>2. a <= b => s * (a \div s) < s * (b \div s + 1)
    BY <1>1, <2>1
  <2> QED
    BY <1>1, <1>2, <2>2
<1>4. ASSUME NEW n \in Nat, s * n <= a PROVE n <= a \div s
  <2>1. s * n \in Nat /\ s * (a \div s + 1) \in Nat
    BY <1>1
  <2>2. s * n < s * (a \div s + 1)
    BY <1>1, <1>4, <2>1
  <2> QED
    BY <1>1, <1>2, <2>2
<1>5. ASSUME NEW n \in Nat, a <= s * n PROVE a \div s <= n
  <2>1. s * n \in Nat /\ s * (a \div s) \in Nat /\ s * (n + 1) = s * n + s
    BY <1>1
  <2>2. s * (a \div s) < s * (n + 1)
    BY <1>1, <1>5, <2>1
  <2> QED
    BY <1>1, <1>2, <2>2
<1>6. \A n \in Nat : (s * n) \div s = n
  OBVIOUS
<1> QED
  BY <1>1, <1>3, <1>4, <1>5, <1>6

Mean(i, counts) == Online(i, counts) \div i.sets

LEMMA LayoutNumbers ==
  ASSUME ColorTypeOK
  PROVE  /\ item.sets \in Nat \ {0} /\ Drives(item) \in Nat \ {0} /\ Tolerance(item) \in Nat
         /\ NeededDrives(item) \in 0 .. Drives(item)
         /\ Tolerance(item) = Drives(item) - NeededDrives(item)
         /\ item.type \in ErasureTypes => /\ item.sets = 1 /\ NeededDrives(item) = item.data
                                          /\ Tolerance(item) = item.parity
         /\ item.type \notin ErasureTypes => NeededDrives(item) = Drives(item) \div 2 + 1
<1>1. item.sets \in Nat \ {0} /\ item.data \in Nat \ {0} /\ item.parity \in Nat
  BY DrivesAssumption DEF ColorTypeOK
<1>2. Drives(item) = item.data + item.parity /\ Drives(item) \in Nat \ {0}
  BY <1>1 DEF Drives
<1>3. \A n \in Nat \ {0} : n \div 2 + 1 \in 0 .. n /\ n - (n \div 2 + 1) \in Nat
                           /\ n - (n - (n \div 2 + 1)) = n \div 2 + 1
  OBVIOUS
<1>4. CASE item.type \in ErasureTypes
  BY <1>1, <1>2, <1>4 DEF Tolerance, NeededDrives, ColorTypeOK
<1>5. CASE item.type \notin ErasureTypes
  <2>1. Tolerance(item) = Drives(item) - (Drives(item) \div 2 + 1)
    BY <1>5 DEF Tolerance
  <2> QED
    BY <1>1, <1>2, <1>3, <1>5, <2>1 DEF NeededDrives
<1> QED
  BY <1>4, <1>5

\* The colour is the one of how many drives of a set have the item, in the mean,
\* beyond those it needs.
LEMMA ColorIsOfMean ==
  ASSUME ColorTypeOK, NEW c \in Counts(item)
  PROVE  /\ Mean(item, c) \in 0 .. Drives(item)
         /\ ColorOf(item, c) = getHColCode(Mean(item, c) - NeededDrives(item), Tolerance(item))
<1>1. /\ item.sets \in Nat \ {0} /\ Drives(item) \in Nat \ {0}
      /\ Tolerance(item) = Drives(item) - NeededDrives(item)
  BY LayoutNumbers
<1>2. Online(item, c) \in Nat /\ Online(item, c) <= item.sets * Drives(item)
  <2>1. 0 \in 0 .. Drives(item)
    BY <1>1
  <2>2. item.sets * Drives(item) \in Nat
    BY <1>1
  <2> QED
    BY <1>1, <2>1, <2>2, OnlineBounds
<1>3. Mean(item, c) \in 0 .. Drives(item)
  <2>1. Mean(item, c) \in Nat /\ Mean(item, c) <= Drives(item)
    BY <1>1, <1>2, MeanBounds DEF Mean
  <2> QED
    BY <1>1, <2>1
<1>4. CASE item.type \in ErasureTypes
  <2>1. item.type \notin ReplicatedTypes
    BY <1>4 DEF ErasureTypes, ReplicatedTypes
  <2>2. Mean(item, c) = Online(item, c)
    BY <1>2, <1>4, LayoutNumbers DEF Mean
  <2> QED
    BY <1>3, <1>4, <2>1, <2>2, LayoutNumbers DEF ColorOf, getObjectColor
<1>5. CASE item.type \notin ErasureTypes
  <2>1. item.type \in ReplicatedTypes
    BY <1>5 DEF ColorTypeOK
  <2>2. DiskCount(item) \div item.sets = Drives(item)
    <3>1. \A a \in Nat, b \in Nat \ {0} : (a * b) \div b = a
      OBVIOUS
    <3> QED
      BY <1>1, <3>1 DEF DiskCount
  <2> QED
    BY <1>1, <1>3, <1>5, <2>1, <2>2, LayoutNumbers DEF ColorOf, getReplicatedColor, Mean
<1> QED
  BY <1>3, <1>4, <1>5

\* Theorem: for any number of erasure sets of any size, with any drives of each, the
\* colour of an item is grey if every set has too few drives that have it and only if
\* some set has, green if all drives have it, and never gets worse as it is healed
\* (getObjectHCCChange, getReplicatedFileHCCChange).
THEOREM ColorsAreTruthful == HealSpec => []ColorTruthful
<1>1. ASSUME ColorTypeOK PROVE ColorTruthful
  <2> DEFINE t == Tolerance(item)
             need == NeededDrives(item)
             s == Mean(item, item.after) - need
             s0 == Mean(item, item.before) - need
             all == Drives(item)
  <2>1. /\ item.sets \in Nat \ {0} /\ all \in Nat \ {0} /\ need \in 0 .. all /\ t \in Nat /\ t = all - need
        /\ item.after \in Counts(item) /\ item.before \in Counts(item)
        /\ \A k \in 1 .. item.sets : item.after[k] \in 0 .. all
    BY <1>1, LayoutNumbers DEF ColorTypeOK, Counts
  <2>2. /\ ColorOf(item, item.after) = getHColCode(s, t) /\ Mean(item, item.after) \in 0 .. all
        /\ ColorOf(item, item.before) = getHColCode(s0, t) /\ Mean(item, item.before) \in 0 .. all
    BY <1>1, <2>1, ColorIsOfMean
  <2>3. Online(item, item.after) \in Nat /\ Online(item, item.before) \in Nat
    <3>1. item.sets * all \in Nat
      BY <2>1
    <3> QED
      BY <2>1, <3>1, OnlineBounds
  <2>4. Mean(item, item.before) <= Mean(item, item.after)
    <3>1. Online(item, item.before) <= Online(item, item.after)
      BY <1>1, <2>1, OnlineGrows DEF ColorTypeOK
    <3> QED
      BY <2>1, <2>3, <3>1, MeanBounds DEF Mean
  <2>5. (\A k \in 1 .. item.sets : need <= item.after[k]) => need <= Mean(item, item.after)
    <3> SUFFICES ASSUME \A k \in 1 .. item.sets : need <= item.after[k]
                 PROVE  need <= Mean(item, item.after)
      OBVIOUS
    <3>1. item.sets * need <= Online(item, item.after)
      BY <2>1, OnlineBounds
    <3>2. need \in Nat
      BY <2>1
    <3> QED
      BY <2>1, <2>3, <3>1, <3>2, MeanBounds DEF Mean
  <2>6. (\A k \in 1 .. item.sets : item.after[k] < need) => Mean(item, item.after) < need
    <3> SUFFICES ASSUME \A k \in 1 .. item.sets : item.after[k] < need
                 PROVE  Mean(item, item.after) < need
      OBVIOUS
    <3>1. 1 \in 1 .. item.sets
      BY <2>1
    <3>2. need - 1 \in 0 .. all /\ need - 1 \in Nat /\ \A k \in 1 .. item.sets : item.after[k] <= need - 1
      BY <2>1, <3>1
    <3>3. Online(item, item.after) <= item.sets * (need - 1)
      BY <2>1, <3>2, OnlineBounds
    <3>4. Mean(item, item.after) <= need - 1
      BY <2>1, <2>3, <3>2, <3>3, MeanBounds DEF Mean
    <3> QED
      BY <2>1, <2>2, <3>4
  <2>7. (\A k \in 1 .. item.sets : item.after[k] = all) => Mean(item, item.after) = all
    <3> SUFFICES ASSUME \A k \in 1 .. item.sets : item.after[k] = all
                 PROVE  Mean(item, item.after) = all
      OBVIOUS
    <3>1. all \in 0 .. all /\ all \in Nat /\ \A k \in 1 .. item.sets : all <= item.after[k]
      BY <2>1
    <3>2. item.sets * all <= Online(item, item.after)
      BY <2>1, <3>1, OnlineBounds
    <3>3. all <= Mean(item, item.after)
      BY <2>1, <2>3, <3>1, <3>2, MeanBounds DEF Mean
    <3> QED
      BY <2>1, <2>2, <3>3
  <2>8. /\ s \in Int /\ s <= t /\ s0 \in Int /\ s0 <= s
        /\ s < 0 <=> Mean(item, item.after) < need
        /\ s = t <=> Mean(item, item.after) = all
    BY <2>1, <2>2, <2>4
  <2>9. \A k \in 1 .. item.sets : Lost(k) <=> item.after[k] < need
    BY DEF Lost
  <2>10. (\E k \in 1 .. item.sets : Lost(k)) \/ \A k \in 1 .. item.sets : need <= item.after[k]
    BY <2>1, <2>9
  <2> HIDE DEF s, s0, t, need, all
  <2>11. /\ getHColCode(s, t) = "error" <=> t \notin 1 .. 8
         /\ getHColCode(s, t) # "error" =>
              /\ getHColCode(s, t) = "Grey" <=> s < 0
              /\ s = t => getHColCode(s, t) = "Green"
              /\ Rank(getHColCode(s0, t)) <= Rank(getHColCode(s, t))
    BY <2>1, <2>8, CodeTruthful
  <2>12. (\A k \in 1 .. item.sets : Lost(k)) => s < 0
    BY <2>6, <2>8, <2>9
  <2>13. s < 0 => \E k \in 1 .. item.sets : Lost(k)
    <3>1. need <= Mean(item, item.after) => ~(s < 0)
      BY <2>1, <2>2, <2>8
    <3> QED
      BY <2>5, <2>10, <3>1
  <2>14. (\A k \in 1 .. item.sets : item.after[k] = Drives(item)) => s = t
    BY <2>7, <2>8 DEF all
  <2> QED
    BY <2>2, <2>11, <2>12, <2>13, <2>14 DEF ColorTruthful, t
<1> QED
  BY <1>1, ColorTyped, PTL

-----------------------------------------------------------------------------
(* The memory of the servers of a tenant. *)

Ascending == \A i, j \in DOMAIN sizes : i <= j => sizes[i] <= sizes[j]

\* The loop stays at the least size for as many rounds as nodes were asked about,
\* then it moves on by one size in each round.
MemoryLoopOK ==
  /\ maxIndex = IF visited <= numNodes THEN 0 ELSE visited - numNodes
  /\ maxMemory = sizes[maxIndex + 1]

\* The answer is the size from which on there are as many as nodes were asked about.
MemoryIInv ==
  /\ MemoryTypeOK
  /\ Ascending
  /\ memoryPc = "list" => visited = 0 /\ maxIndex = 0 /\ maxMemory = 0
  /\ memoryPc = "refused" => Verdict # "ok"
  /\ memoryPc = "loop" => ~TooFewSizes /\ MemoryLoopOK
  /\ memoryPc = "answered" =>
       \/ TooFewSizes /\ numNodes > 0 /\ maxMemory = 0
       \/ ~TooFewSizes /\ maxMemory = sizes[Len(sizes) - numNodes + 1]

LEMMA InitialMemoryIInv == MemoryInit => MemoryIInv
<1> SUFFICES ASSUME MemoryInit PROVE MemoryIInv
  OBVIOUS
<1>1. MemoryTypeOK
  BY MemoryAssumption DEF MemoryInit, MemoryTypeOK, OtherKinds
<1>2. Ascending
  BY DEF MemoryInit, Ascending
<1> QED
  BY <1>1, <1>2 DEF MemoryInit, MemoryIInv

\* The sizes, one by one.
LEMMA SizesAreNumbers ==
  ASSUME MemoryTypeOK
  PROVE  /\ Len(sizes) \in Nat /\ DOMAIN sizes = 1 .. Len(sizes)
         /\ \A k \in 1 .. Len(sizes) : sizes[k] \in MemorySizes /\ sizes[k] \in Nat
<1>1. Len(sizes) \in Nat /\ DOMAIN sizes = 1 .. Len(sizes)
  BY DEF MemoryTypeOK
<1>2. \A k \in 1 .. Len(sizes) : sizes[k] \in MemorySizes
  BY <1>1 DEF MemoryTypeOK
<1> QED
  BY <1>1, <1>2, MemoryAssumption

LEMMA ListedKeeps ==
  ASSUME MemoryIInv, NodeListed
  PROVE  MemoryIInv'
<1>1. /\ memoryPc = "list" /\ memoryPc' = "list"
      /\ UNCHANGED <<numNodes, visited, maxIndex, maxMemory>>
      /\ visited = 0 /\ maxIndex = 0 /\ maxMemory = 0
  BY DEF MemoryIInv, NodeListed
<1>2. sizes' \in Seq(MemorySizes) /\ others' \in [OtherKinds -> Nat] /\ Ascending'
  <2>1. CASE \E m \in MemorySizes : /\ sizes # <<>> => Last(sizes) <= m
                                    /\ sizes' = Append(sizes, m) /\ UNCHANGED others
    <3>1. PICK m \in MemorySizes : /\ sizes # <<>> => Last(sizes) <= m
                                   /\ sizes' = Append(sizes, m) /\ UNCHANGED others
      BY <2>1
    <3> DEFINE n == Len(sizes)
    <3>2. /\ n \in Nat /\ m \in Nat /\ sizes \in Seq(MemorySizes)
          /\ DOMAIN sizes = 1 .. n
          /\ \A k \in 1 .. n : sizes[k] \in Nat
      BY MemoryAssumption, SizesAreNumbers DEF MemoryIInv, MemoryTypeOK
    <3>3. /\ sizes' \in Seq(MemorySizes) /\ Len(sizes') = n + 1
          /\ DOMAIN sizes' = 1 .. n + 1
          /\ sizes'[n + 1] = m /\ \A k \in 1 .. n : sizes'[k] = sizes[k]
      BY <3>1, <3>2
    <3>4. \A k \in 1 .. n : sizes[k] <= m
      <4> SUFFICES ASSUME NEW k \in 1 .. n PROVE sizes[k] <= m
        OBVIOUS
      <4>1. sizes # <<>> /\ Last(sizes) = sizes[n] /\ n \in 1 .. n
        BY <3>2 DEF Last
      <4>2. sizes[k] <= sizes[n]
        BY <3>2, <4>1 DEF MemoryIInv, Ascending
      <4>3. sizes[k] \in Nat /\ sizes[n] \in Nat /\ sizes[n] <= m
        BY <3>1, <3>2, <4>1
      <4> QED
        BY <3>2, <4>2, <4>3
    <3>5. Ascending'
      <4> SUFFICES ASSUME NEW i \in 1 .. n + 1, NEW j \in 1 .. n + 1, i <= j
                   PROVE  sizes'[i] <= sizes'[j]
        BY <3>3 DEF Ascending
      <4>1. CASE j = n + 1
        BY <3>2, <3>3, <3>4, <4>1
      <4>2. CASE j \in 1 .. n
        <5>1. i \in 1 .. n
          BY <3>2, <4>2
        <5> QED
          BY <3>2, <3>3, <4>2, <5>1 DEF MemoryIInv, Ascending
      <4> QED
        BY <3>2, <4>1, <4>2
    <3> QED
      BY <3>1, <3>3, <3>5 DEF MemoryIInv, MemoryTypeOK
  <2>2. CASE \E k \in OtherKinds : others' = [others EXCEPT ![k] = @ + 1] /\ UNCHANGED sizes
    BY <2>2 DEF MemoryIInv, MemoryTypeOK, Ascending
  <2> QED
    BY <2>1, <2>2 DEF NodeListed
<1>3. MemoryTypeOK'
  <2>1. Len(sizes') \in Nat
    BY <1>2
  <2> QED
    BY <1>1, <1>2, <2>1 DEF MemoryIInv, MemoryTypeOK
<1> QED
  BY <1>1, <1>2, <1>3 DEF MemoryIInv

LEMMA AllocatableKeeps ==
  ASSUME MemoryIInv, getMaxAllocatableMemory
  PROVE  MemoryIInv'
<1>1. /\ memoryPc = "list" /\ UNCHANGED <<sizes, others, numNodes, visited, maxIndex>>
      /\ visited = 0 /\ maxIndex = 0 /\ maxMemory = 0
      /\ TooFewSizes' <=> TooFewSizes
      /\ Ascending'
      /\ Verdict' = Verdict
  BY DEF MemoryIInv, getMaxAllocatableMemory, TooFewSizes, Ascending, Verdict,
         schedulableNodes, nonMasterNodes, NodeCount, Untainted
<1>2. MemoryTypeOK
  BY DEF MemoryIInv
<1>3. CASE Verdict # "ok" /\ memoryPc' = "refused" /\ UNCHANGED maxMemory
  BY <1>1, <1>2, <1>3 DEF MemoryIInv, MemoryTypeOK
<1>4. CASE Verdict = "ok" /\ TooFewSizes /\ memoryPc' = "answered" /\ UNCHANGED maxMemory
  <2>1. numNodes > 0
    BY <1>2, <1>4 DEF Verdict, MemoryTypeOK
  <2> QED
    BY <1>1, <1>2, <1>4, <2>1 DEF MemoryIInv, MemoryTypeOK
<1>5. CASE Verdict = "ok" /\ ~TooFewSizes /\ memoryPc' = "loop" /\ maxMemory' = sizes[1]
  <2>1. 1 \in 1 .. Len(sizes) /\ numNodes \in Nat
    BY <1>2, <1>5 DEF TooFewSizes, MemoryTypeOK
  <2>2. sizes[1] \in MemorySizes
    BY <1>2, <2>1, SizesAreNumbers
  <2>3. MemoryLoopOK'
    BY <1>1, <1>5, <2>1 DEF MemoryLoopOK
  <2> QED
    BY <1>1, <1>2, <1>5, <2>2, <2>3 DEF MemoryIInv, MemoryTypeOK
<1> QED
  BY <1>3, <1>4, <1>5 DEF getMaxAllocatableMemory

LEMMA VisitSizeKeeps ==
  ASSUME MemoryIInv, VisitSize
  PROVE  MemoryIInv'
<1>1. /\ memoryPc = "loop" /\ UNCHANGED <<sizes, others, numNodes, memoryPc>>
      /\ visited' = visited + 1
      /\ Ascending' /\ (TooFewSizes' <=> TooFewSizes)
  BY DEF MemoryIInv, VisitSize, TooFewSizes, Ascending
<1>2. /\ visited \in Nat /\ numNodes \in Nat \ {0} /\ Len(sizes) \in Nat /\ maxIndex \in Nat
      /\ visited < Len(sizes) /\ numNodes <= Len(sizes) /\ maxIndex <= visited
      /\ DOMAIN sizes = 1 .. Len(sizes)
  BY SizesAreNumbers DEF MemoryIInv, MemoryTypeOK, TooFewSizes, VisitSize
<1>3. /\ maxIndex = IF visited <= numNodes THEN 0 ELSE visited - numNodes
      /\ maxMemory = sizes[maxIndex + 1]
  BY <1>1 DEF MemoryIInv, MemoryLoopOK
<1>4. MemoryLoopOK' /\ maxIndex' \in 0 .. visited'
  <2>1. CASE /\ WithinNodes(visited)
             /\ maxMemory' = IF maxMemory > sizes[visited + 1] THEN sizes[visited + 1] ELSE maxMemory
             /\ UNCHANGED maxIndex
    <3>1. visited < numNodes /\ visited' <= numNodes /\ maxIndex = 0 /\ maxIndex' = 0
      BY <1>1, <1>2, <1>3, <2>1 DEF WithinNodes
    <3>2. 1 \in 1 .. Len(sizes) /\ visited + 1 \in 1 .. Len(sizes) /\ 1 <= visited + 1
      BY <1>2
    <3>3. sizes[1] <= sizes[visited + 1] /\ sizes[1] \in Nat /\ sizes[visited + 1] \in Nat
      BY <1>2, <3>2, SizesAreNumbers DEF MemoryIInv, Ascending
    <3>4. maxMemory = sizes[1]
      BY <1>3, <3>1
    <3>5. maxMemory' = sizes[1]
      BY <2>1, <3>3, <3>4
    <3> QED
      BY <1>1, <1>2, <3>1, <3>5 DEF MemoryLoopOK
  <2>2. CASE ~WithinNodes(visited) /\ maxIndex' = maxIndex + 1 /\ maxMemory' = sizes[maxIndex' + 1]
    <3>1. visited >= numNodes
      BY <1>2, <2>2 DEF WithinNodes
    <3>2. maxIndex = visited - numNodes
      BY <1>2, <1>3, <3>1
    <3>3. maxIndex' = visited' - numNodes /\ ~(visited' <= numNodes) /\ maxIndex' \in 0 .. visited'
      BY <1>1, <1>2, <2>2, <3>1, <3>2
    <3> QED
      BY <1>1, <2>2, <3>3 DEF MemoryLoopOK
  <2> QED
    BY <2>1, <2>2 DEF VisitSize
<1>5. maxMemory' \in MemorySizes
  <2>1. visited' \in Nat /\ visited' <= Len(sizes)
    BY <1>1, <1>2
  <2>2. maxIndex' + 1 \in 1 .. Len(sizes)
    BY <1>1, <1>2, <1>4, <2>1 DEF MemoryLoopOK
  <2>3. maxMemory' = sizes[maxIndex' + 1]
    BY <1>1, <1>4 DEF MemoryLoopOK
  <2> QED
    BY <2>2, <2>3, SizesAreNumbers DEF MemoryIInv
<1>6. MemoryTypeOK'
  BY <1>1, <1>2, <1>4, <1>5 DEF MemoryIInv, MemoryTypeOK
<1> QED
  BY <1>1, <1>4, <1>6 DEF MemoryIInv

LEMMA AnsweredKeeps ==
  ASSUME MemoryIInv, MemoryAnswered
  PROVE  MemoryIInv'
<1>1. /\ memoryPc = "loop" /\ memoryPc' = "answered" /\ visited = Len(sizes)
      /\ UNCHANGED <<sizes, others, numNodes, visited, maxIndex, maxMemory>>
      /\ Ascending' /\ (TooFewSizes' <=> TooFewSizes)
  BY DEF MemoryIInv, MemoryAnswered, TooFewSizes, Ascending
<1>2. numNodes \in Nat /\ Len(sizes) \in Nat /\ numNodes <= Len(sizes) /\ ~TooFewSizes
  BY <1>1, SizesAreNumbers DEF MemoryIInv, MemoryTypeOK, TooFewSizes
<1>3. maxIndex = Len(sizes) - numNodes /\ maxMemory = sizes[maxIndex + 1]
  BY <1>1, <1>2 DEF MemoryIInv, MemoryLoopOK
<1>4. MemoryTypeOK'
  BY <1>1 DEF MemoryIInv, MemoryTypeOK
<1> QED
  BY <1>1, <1>2, <1>3, <1>4 DEF MemoryIInv

LEMMA MemoryInductive == MemorySpec => []MemoryIInv
<1>1. MemoryIInv /\ [MemoryNext]_memoryVars => MemoryIInv'
  <2> SUFFICES ASSUME MemoryIInv, [MemoryNext]_memoryVars PROVE MemoryIInv'
    OBVIOUS
  <2>1. CASE UNCHANGED memoryVars
    BY <2>1 DEF MemoryIInv, MemoryTypeOK, Ascending, MemoryLoopOK, TooFewSizes, memoryVars, Verdict,
                schedulableNodes, nonMasterNodes, NodeCount, Untainted
  <2> QED
    BY <2>1, ListedKeeps, AllocatableKeeps, VisitSizeKeeps, AnsweredKeeps DEF MemoryNext
<1> QED
  BY <1>1, InitialMemoryIInv, PTL DEF MemorySpec

\* Theorem: MemoryTypeOK holds, so no size past the last one is ever read.
THEOREM MemoryTypeCorrect == MemorySpec => []MemoryTypeOK
<1>1. MemoryIInv => MemoryTypeOK
  BY DEF MemoryIInv
<1> QED
  BY <1>1, MemoryInductive, PTL

\* How many nodes have as much memory as the one at place c, and more than it.
LEMMA CountFromPlace ==
  ASSUME MemoryTypeOK, Ascending, NEW c \in 1 .. Len(sizes)
  PROVE  /\ WithMemory(sizes[c]) >= Len(sizes) - c + 1
         /\ \A m \in Nat : m > sizes[c] => WithMemory(m) <= Len(sizes) - c
<1> DEFINE n == Len(sizes)
           At(m) == {k \in DOMAIN sizes : sizes[k] >= m}
<1>1. n \in Nat /\ DOMAIN sizes = 1 .. n /\ \A k \in 1 .. n : sizes[k] \in Nat
  BY SizesAreNumbers
<1>2. \A m : IsFiniteSet(At(m)) /\ Cardinality(At(m)) \in Nat /\ WithMemory(m) = Cardinality(At(m))
  <2> TAKE m
  <2>1. IsFiniteSet(1 .. n) /\ At(m) \in SUBSET (1 .. n)
    BY <1>1, FS_Interval
  <2>2. IsFiniteSet(At(m))
    BY <2>1, FS_Subset
  <2> QED
    BY <2>2, FS_CardinalityType DEF WithMemory
<1>3. Cardinality(c .. n) = n - c + 1 /\ IsFiniteSet(c .. n)
  BY <1>1, FS_Interval
<1>4. Cardinality((c + 1) .. n) = n - c /\ IsFiniteSet((c + 1) .. n)
  <2>1. c \in Int /\ c <= n /\ c + 1 \in Int /\ n \in Int
    BY <1>1
  <2> HIDE DEF n
  <2>2. /\ IsFiniteSet((c + 1) .. n)
        /\ Cardinality((c + 1) .. n) = IF c + 1 > n THEN 0 ELSE n - (c + 1) + 1
    BY <2>1, FS_Interval, Zenon
  <2> QED
    BY <2>1, <2>2
<1>5. c .. n \in SUBSET At(sizes[c])
  BY <1>1 DEF Ascending
<1>6. ASSUME NEW m \in Nat, m > sizes[c] PROVE At(m) \in SUBSET ((c + 1) .. n)
  <2> SUFFICES ASSUME NEW k \in 1 .. n, sizes[k] >= m PROVE k \in (c + 1) .. n
    BY <1>1
  <2>1. ~(k <= c)
    <3>1. k <= c => sizes[k] <= sizes[c]
      BY <1>1 DEF Ascending
    <3> QED
      BY <1>1, <1>6, <3>1
  <2> QED
    BY <1>1, <2>1
<1>7. Cardinality(c .. n) <= Cardinality(At(sizes[c]))
  BY <1>2, <1>5, FS_Subset
<1>8. ASSUME NEW m \in Nat, m > sizes[c] PROVE Cardinality(At(m)) <= Cardinality((c + 1) .. n)
  BY <1>4, <1>6, <1>8, FS_Subset
<1> HIDE DEF At
<1> QED
  BY <1>1, <1>2, <1>3, <1>4, <1>7, <1>8

\* Theorem: for clusters of any size, the memory that is offered is what as many
\* nodes as were asked about have, more would not fit, and a question is refused
\* only when there are too few, or one of them is counted twice.
THEOREM MemoryFits == MemorySpec => []MemoryIsWhatFits
<1>1. MemoryIInv => MemoryIsWhatFits
  <2> SUFFICES ASSUME MemoryIInv PROVE MemoryIsWhatFits
    OBVIOUS
  <2>1. /\ MemoryTypeOK /\ Ascending /\ numNodes \in Nat /\ Len(sizes) \in Nat
        /\ MemorySizes \subseteq Nat
        /\ \A k \in OtherKinds : others[k] \in Nat
    BY MemoryAssumption DEF MemoryIInv, MemoryTypeOK
  <2>2. ASSUME memoryPc = "answered", TooFewSizes, numNodes > 0, maxMemory = 0
        PROVE  \A more \in MemorySizes : more > maxMemory => WithMemory(more) < numNodes
    <3> SUFFICES ASSUME NEW more \in MemorySizes PROVE WithMemory(more) < numNodes
      OBVIOUS
    <3> DEFINE At == {k \in DOMAIN sizes : sizes[k] >= more}
    <3>1. Cardinality(At) <= Len(sizes) /\ Cardinality(At) \in Nat
      <4>1. IsFiniteSet(1 .. Len(sizes)) /\ Cardinality(1 .. Len(sizes)) = Len(sizes)
        <5>1. \A n \in Nat : IsFiniteSet(1 .. n) /\ Cardinality(1 .. n) = n
          BY FS_Interval
        <5> QED
          BY <2>1, <5>1
      <4>2. At \in SUBSET (1 .. Len(sizes))
        BY <2>1, SizesAreNumbers
      <4>3. IsFiniteSet(At) /\ Cardinality(At) <= Len(sizes)
        BY <4>1, <4>2, FS_Subset
      <4> QED
        BY <4>3, FS_CardinalityType
    <3>2. Len(sizes) < numNodes
      BY <2>1, <2>2 DEF TooFewSizes
    <3> HIDE DEF At
    <3>3. Cardinality(At) < numNodes
      BY <2>1, <3>1, <3>2
    <3> QED
      BY <3>3 DEF WithMemory, At
  <2>3. ASSUME ~TooFewSizes, maxMemory = sizes[Len(sizes) - numNodes + 1]
        PROVE  /\ WithMemory(maxMemory) >= numNodes
               /\ \A more \in MemorySizes : more > maxMemory => WithMemory(more) < numNodes
    <3> DEFINE c == Len(sizes) - numNodes + 1
    <3>1. c \in 1 .. Len(sizes) /\ Len(sizes) - c + 1 = numNodes /\ Len(sizes) - c = numNodes - 1
      BY <2>1, <2>3 DEF TooFewSizes
    <3>2. maxMemory = sizes[c]
      BY <2>3
    <3> HIDE DEF c
    <3>3. WithMemory(sizes[c]) >= Len(sizes) - c + 1
      BY <2>1, <3>1, CountFromPlace
    <3>4. \A m \in Nat : m > sizes[c] => WithMemory(m) <= Len(sizes) - c
      BY <2>1, <3>1, CountFromPlace
    <3>5. \A m \in Nat : WithMemory(m) \in Nat
      <4> TAKE m \in Nat
      <4> DEFINE At == {k \in DOMAIN sizes : sizes[k] >= m}
      <4>1. IsFiniteSet(1 .. Len(sizes)) /\ At \in SUBSET (1 .. Len(sizes))
        BY <2>1, SizesAreNumbers, FS_Interval
      <4>2. IsFiniteSet(At)
        BY <4>1, FS_Subset
      <4> QED
        BY <4>2, FS_CardinalityType DEF WithMemory
    <3>6. c \in Int /\ sizes[c] \in Nat
      BY <2>1, <3>1, SizesAreNumbers
    <3>7. WithMemory(maxMemory) >= numNodes
      BY <3>1, <3>2, <3>3
    <3>8. ASSUME NEW more \in MemorySizes, more > maxMemory PROVE WithMemory(more) < numNodes
      <4>1. more \in Nat /\ more > sizes[c]
        BY <2>1, <3>2, <3>8
      <4>2. WithMemory(more) <= numNodes - 1 /\ WithMemory(more) \in Nat
        BY <3>1, <3>4, <3>5, <4>1
      <4> QED
        BY <2>1, <4>2
    <3> QED
      BY <3>7, <3>8
  <2>4. ASSUME memoryPc = "refused"
        PROVE  numNodes < 4 \/ Untainted + others["evicted"] < numNodes \/ others["notReady"] > 0
    <3>1. /\ others["unmeasured"] \in Nat /\ others["cordoned"] \in Nat /\ others["master"] \in Nat
          /\ others["notReady"] \in Nat /\ others["evicted"] \in Nat
      BY <2>1 DEF OtherKinds
    <3>2. Verdict # "ok"
      BY <2>4 DEF MemoryIInv
    <3>3. Verdict # "ok" => numNodes < 4 \/ schedulableNodes < numNodes \/ nonMasterNodes < numNodes
      <4>1. \A n, u, c, m, t, e \in Nat :
              /\ (n + u + c + m + t + e) - (c + m + 2 * t) \in Int
              /\ (n + u + c + m + t + e) - m \in Int
        OBVIOUS
      <4>2. schedulableNodes \in Int /\ nonMasterNodes \in Int
        BY <2>1, <3>1, <4>1 DEF schedulableNodes, nonMasterNodes, NodeCount, Untainted
      <4> QED
        BY <2>1, <4>2 DEF Verdict
    <3>4. \A n, u, c, m, t, e, asked \in Nat :
            \/ (n + u + c + m + t + e) - (c + m + 2 * t) < asked
            \/ (n + u + c + m + t + e) - m < asked
            => (n + u) + e < asked \/ t > 0
      OBVIOUS
    <3>5. schedulableNodes < numNodes \/ nonMasterNodes < numNodes
          => (Len(sizes) + others["unmeasured"]) + others["evicted"] < numNodes \/ others["notReady"] > 0
      BY <2>1, <3>1, <3>4 DEF schedulableNodes, nonMasterNodes, NodeCount, Untainted
    <3> QED
      BY <3>2, <3>3, <3>5 DEF Untainted
  <2>5. memoryPc = "answered" => \/ TooFewSizes /\ numNodes > 0 /\ maxMemory = 0
                                 \/ ~TooFewSizes /\ maxMemory = sizes[Len(sizes) - numNodes + 1]
    BY DEF MemoryIInv
  <2> QED
    BY <2>2, <2>3, <2>4, <2>5 DEF MemoryIsWhatFits
<1> QED
  BY <1>1, MemoryInductive, PTL

-----------------------------------------------------------------------------
(* Erasure parity. *)

Greatest(c, counts) == c \in counts /\ \A d \in counts : d <= c

Past == setCounts \ left

\* The loop has chosen the greatest of the sizes it has come past.
ParityLoopOK ==
  /\ left \subseteq setCounts
  /\ \A c \in Past, d \in left : c < d
  /\ Past = {} => setSize = 0 /\ \E c \in left : First(c, left) /\ prevD = totalSize \div c
  /\ Past # {} => Greatest(setSize, Past) /\ prevD = totalSize \div setSize

\* When the loop is over, the size is the greatest that is allowed; the question
\* ends in an error only when no size is.
ParityIInv ==
  /\ ParityTypeOK
  /\ parityPc = "start" => setSize = 0
  /\ parityPc = "loop" => setCounts # {} /\ ParityLoopOK
  /\ parityPc \in {"check", "offered"} => Greatest(setSize, setCounts)
  /\ parityPc = "error" => setCounts = {}

LEMMA DividesIsNoRemainder ==
  ASSUME NEW a \in Nat \ {0}, NEW b \in Nat \ {0}
  PROVE  /\ b % a = 0 <=> Divides(a, b)
         /\ b % a = 0 => a <= b /\ a * (b \div a) = b
<1>1. b = a * (b \div a) + (b % a) /\ b \div a \in Nat /\ b % a \in Nat /\ b % a < a
  OBVIOUS
<1>2. ASSUME b % a = 0 PROVE b \div a \in 1 .. b /\ (b \div a) * a = b /\ a <= b /\ a * (b \div a) = b
  <2>1. \A q \in Nat : b = a * q => q \in 1 .. b /\ q * a = b /\ a <= b
    OBVIOUS
  <2> QED
    BY <1>1, <1>2, <2>1
<1>3. ASSUME NEW k \in 1 .. b, k * a = b PROVE b % a = 0
  <2>1. (k * a) % a = 0
    OBVIOUS
  <2> QED
    BY <1>3, <2>1
<1>4. b % a = 0 => Divides(a, b)
  BY <1>2 DEF Divides
<1>5. Divides(a, b) => b % a = 0
  BY <1>3 DEF Divides
<1> QED
  BY <1>2, <1>4, <1>5

\* Of larger sets there are no more.
LEMMA FewerLargerSets ==
  ASSUME NEW a \in Nat \ {0}, NEW b \in Nat \ {0}, NEW t \in Nat, a <= b
  PROVE  t \div b <= t \div a /\ t \div a \in Nat /\ t \div b \in Nat
<1>1. /\ t \div a \in Nat /\ t \div b \in Nat
      /\ t < a * (t \div a + 1) /\ b * (t \div b) <= t
  OBVIOUS
<1>2. \A p, q \in Nat : t < a * (p + 1) /\ b * q <= t => q <= p
  <2> SUFFICES ASSUME NEW p \in Nat, NEW q \in Nat, t < a * (p + 1), b * q <= t, q > p PROVE FALSE
    OBVIOUS
  <2>1. a * (p + 1) <= a * q
    OBVIOUS
  <2>2. a * q <= b * q
    OBVIOUS
  <2> QED
    BY <2>1, <2>2
<1> QED
  BY <1>1, <1>2

LEMMA PoolNumbers ==
  ASSUME ParityTypeOK
  PROVE  /\ pool.servers \in Nat \ {0} /\ pool.drives \in Nat \ {0} /\ totalSize \in Nat \ {0}
         /\ setSizes \subseteq Nat \ {0}
         /\ \A s \in setCounts : s \in setSizes /\ totalSize % s = 0 /\ s <= totalSize
<1>1. pool.servers \in Nat \ {0} /\ pool.drives \in Nat \ {0}
  BY DEF ParityTypeOK
<1>2. totalSize \in Nat \ {0}
  <2>1. \A a, b \in Nat \ {0} : a * b \in Nat \ {0}
    OBVIOUS
  <2> QED
    BY <1>1, <2>1 DEF totalSize
<1>3. setSizes \subseteq Nat \ {0}
  BY DEF setSizes
<1>4. \A s \in setCounts : s \in setSizes /\ totalSize % s = 0
  BY DEF setCounts
<1> QED
  BY <1>1, <1>2, <1>3, <1>4, DividesIsNoRemainder

\* The sizes getSetIndexes leaves are those that are even.
LEMMA CountsAreEven ==
  ASSUME ParityTypeOK
  PROVE  setCounts = EvenSizes
<1> DEFINE n == pool.servers
<1>1. n \in Nat \ {0} /\ totalSize \in Nat \ {0}
  BY PoolNumbers
<1>2. ASSUME NEW s \in setSizes
      PROVE  (IF n > s THEN n % s = 0 ELSE s % n = 0) <=> (Divides(s, n) \/ Divides(n, s))
  <2>1. s \in Nat \ {0}
    BY DEF setSizes
  <2> HIDE DEF n
  <2>2. (n % s = 0 <=> Divides(s, n)) /\ (s % n = 0 <=> Divides(n, s))
    BY <1>1, <2>1, DividesIsNoRemainder
  <2>3. (n % s = 0 => s <= n) /\ (s % n = 0 => n <= s)
    BY <1>1, <2>1, DividesIsNoRemainder
  <2>4. n = s => s % n = 0
    BY <1>1, <2>1
  <2> QED
    BY <1>1, <2>1, <2>2, <2>3, <2>4
<1>3. ASSUME NEW s \in setSizes PROVE totalSize % s = 0 <=> Divides(s, totalSize)
  BY <1>1, DividesIsNoRemainder DEF setSizes
<1> QED
  BY <1>2, <1>3 DEF setCounts, EvenSizes

LEMMA PoolStays ==
  ASSUME UNCHANGED pool
  PROVE  totalSize' = totalSize /\ setCounts' = setCounts
  BY DEF totalSize, setCounts

LEMMA IndexesKeep ==
  ASSUME ParityIInv, getSetIndexes
  PROVE  ParityIInv'
<1>1. /\ parityPc = "start" /\ setSize = 0 /\ ParityTypeOK /\ pool' = pool
      /\ totalSize' = totalSize /\ setCounts' = setCounts
  BY PoolStays DEF ParityIInv, getSetIndexes
<1>2. /\ totalSize \in Nat \ {0} /\ setSizes \subseteq Nat \ {0}
      /\ \A s \in setCounts : s \in setSizes /\ s <= totalSize
  BY <1>1, PoolNumbers
<1>3. CASE /\ totalSize < 4 \/ setCounts = {}
           /\ parityPc' = "error" /\ UNCHANGED <<left, prevD, setSize>>
  <2>1. setCounts = {}
    <3>1. ASSUME totalSize < 4, NEW s \in setCounts PROVE FALSE
      BY <1>2, <3>1 DEF setSizes
    <3> QED
      BY <1>3, <3>1
  <2> QED
    BY <1>1, <1>3, <2>1 DEF ParityIInv, ParityTypeOK
<1>4. CASE \E c \in setCounts : totalSize < c
  <2>1. PICK c \in setCounts : totalSize < c
    BY <1>4
  <2>2. c \in Nat /\ totalSize \in Nat /\ c <= totalSize
    BY <1>2
  <2> QED
    BY <2>1, <2>2
<1>5. CASE /\ \E c \in setCounts : First(c, setCounts) /\ prevD' = totalSize \div c
           /\ parityPc' = "loop" /\ left' = setCounts
           /\ UNCHANGED setSize
  <2>1. PICK c \in setCounts : First(c, setCounts) /\ prevD' = totalSize \div c
    BY <1>5
  <2>2. prevD' \in Nat
    BY <1>2, <2>1, FewerLargerSets
  <2>3. left' = setCounts /\ left' \subseteq setSizes /\ Past' = {}
    BY <1>1, <1>2, <1>5 DEF Past
  <2>4. \E d \in left' : First(d, left') /\ prevD' = totalSize' \div d
    BY <1>1, <2>1, <2>3
  <2>5. ParityLoopOK'
    BY <1>1, <1>5, <2>3, <2>4 DEF ParityLoopOK, First
  <2>6. ParityTypeOK'
    BY <1>1, <1>5, <2>2, <2>3 DEF ParityTypeOK
  <2> QED
    BY <1>1, <1>5, <2>1, <2>5, <2>6 DEF ParityIInv
<1> QED
  BY <1>3, <1>4, <1>5 DEF getSetIndexes

LEMMA VisitCountKeeps ==
  ASSUME ParityIInv, VisitCount
  PROVE  ParityIInv'
<1>1. /\ parityPc = "loop" /\ parityPc' = "loop" /\ ParityTypeOK /\ pool' = pool
      /\ totalSize' = totalSize /\ setCounts' = setCounts
      /\ setCounts # {} /\ ParityLoopOK
  BY PoolStays DEF ParityIInv, VisitCount
<1>2. PICK c \in left :
        /\ First(c, left)
        /\ left' = left \ {c}
        /\ IF totalSize % c = 0 /\ Prefers(totalSize \div c)
             THEN prevD' = totalSize \div c /\ setSize' = c
             ELSE UNCHANGED <<prevD, setSize>>
  BY DEF VisitCount
<1>3. /\ left \subseteq setCounts /\ c \in Nat \ {0} /\ totalSize \in Nat \ {0}
      /\ c \in setSizes /\ totalSize % c = 0 /\ setCounts \subseteq Nat \ {0}
  BY <1>1, <1>2, PoolNumbers DEF ParityLoopOK
<1>4. Past' = Past \cup {c} /\ Past \subseteq setCounts
  BY <1>1, <1>2, <1>3 DEF Past
<1>5. \A b \in Past : b < c
  BY <1>1, <1>2 DEF ParityLoopOK
<1>6. Prefers(totalSize \div c)
  <2>1. CASE Past = {}
    <3>1. PICK d \in left : First(d, left) /\ prevD = totalSize \div d
      BY <1>1, <2>1 DEF ParityLoopOK
    <3>2. c <= d /\ d <= c /\ d \in Nat
      BY <1>2, <1>3, <3>1 DEF First
    <3>3. c = d /\ totalSize \div c \in Nat
      BY <1>3, <3>2, FewerLargerSets
    <3> QED
      BY <3>1, <3>3 DEF Prefers
  <2>2. CASE Past # {}
    <3>1. setSize \in Past /\ prevD = totalSize \div setSize
      BY <1>1, <2>2 DEF ParityLoopOK, Greatest
    <3>2. setSize \in Nat \ {0} /\ setSize <= c
      BY <1>3, <1>4, <1>5, <3>1
    <3> QED
      BY <1>3, <3>1, <3>2, FewerLargerSets DEF Prefers
  <2> QED
    BY <2>1, <2>2
<1>7. prevD' = totalSize \div c /\ setSize' = c
  BY <1>2, <1>3, <1>6
<1>8. Greatest(setSize', Past')
  <2>1. \A b \in Past \cup {c} : b <= c
    BY <1>3, <1>4, <1>5
  <2> QED
    BY <1>4, <1>7, <2>1 DEF Greatest
<1>9. \A b \in Past', d \in left' : b < d
  <2>1. \A d \in left' : c < d /\ d \in left
    BY <1>2, <1>3 DEF First
  <2> QED
    BY <1>1, <1>4, <2>1 DEF ParityLoopOK
<1>10. ParityLoopOK'
  BY <1>1, <1>2, <1>3, <1>4, <1>7, <1>8, <1>9 DEF ParityLoopOK, Greatest
<1>11. ParityTypeOK'
  <2>1. totalSize \div c \in Nat
    BY <1>3, FewerLargerSets
  <2> QED
    BY <1>1, <1>2, <1>3, <1>7, <2>1 DEF ParityTypeOK
<1> QED
  BY <1>1, <1>10, <1>11 DEF ParityIInv

LEMMA LoopEndsKeeps ==
  ASSUME ParityIInv, LoopEnds
  PROVE  ParityIInv'
<1>1. /\ parityPc = "loop" /\ parityPc' = "check" /\ left = {} /\ ParityTypeOK
      /\ UNCHANGED <<pool, left, prevD, setSize>> /\ setCounts' = setCounts
  BY PoolStays DEF ParityIInv, LoopEnds
<1>2. Greatest(setSize, setCounts)
  BY <1>1 DEF ParityIInv, ParityLoopOK, Past
<1>3. Greatest(setSize, setCounts)'
  BY <1>1, <1>2 DEF Greatest
<1> QED
  BY <1>1, <1>3 DEF ParityIInv, ParityTypeOK

LEMMA CheckKeeps ==
  ASSUME ParityIInv, isValidSetSize
  PROVE  ParityIInv'
<1>1. /\ parityPc = "check" /\ ParityTypeOK /\ Greatest(setSize, setCounts)
      /\ UNCHANGED <<pool, left, prevD, setSize>> /\ setCounts' = setCounts
  BY PoolStays DEF ParityIInv, isValidSetSize
<1>2. parityPc' = "offered"
  BY <1>1 DEF isValidSetSize, Greatest, setCounts
<1>3. Greatest(setSize, setCounts)'
  BY <1>1 DEF Greatest
<1> QED
  BY <1>1, <1>2, <1>3 DEF ParityIInv, ParityTypeOK

LEMMA ParityInductive == ParitySpec => []ParityIInv
<1>1. ParityInit => ParityIInv
  <2> SUFFICES ASSUME ParityInit PROVE ParityIInv
    OBVIOUS
  <2>1. \A n \in Nat : \A k \in 1 .. n : k \in Nat \ {0}
    OBVIOUS
  <2>2. pool \in [servers : Nat \ {0}, drives : Nat \ {0}]
    BY <2>1, PoolAssumption DEF ParityInit
  <2> QED
    BY <2>2 DEF ParityInit, ParityIInv, ParityTypeOK
<1>2. ParityIInv /\ [ParityNext]_parityVars => ParityIInv'
  <2> SUFFICES ASSUME ParityIInv, [ParityNext]_parityVars PROVE ParityIInv'
    OBVIOUS
  <2>1. CASE UNCHANGED parityVars
    BY <2>1 DEF ParityIInv, ParityTypeOK, ParityLoopOK, Greatest, Past, First,
                setCounts, totalSize, parityVars
  <2> QED
    BY <2>1, IndexesKeep, VisitCountKeeps, LoopEndsKeeps, CheckKeeps DEF ParityNext
<1> QED
  BY <1>1, <1>2, PTL DEF ParitySpec

\* Theorem: ParityTypeOK holds for pools of any size: the loop of commonSetDriveCount
\* comes to no size but those of setSizes and divides by none that is 0.
THEOREM ParityTypeCorrect == ParitySpec => []ParityTypeOK
<1>1. ParityIInv => ParityTypeOK
  BY DEF ParityIInv
<1> QED
  BY <1>1, ParityInductive, PTL

\* Theorem: for pools of any size, the parities that are offered are those of the
\* largest erasure sets it can have evenly, and creation accepts them all.
THEOREM ParitiesSound == ParitySpec => []ParitiesAreSound
<1>1. ParityIInv => ParitiesAreSound
  <2> SUFFICES ASSUME ParityIInv, parityPc \in {"offered", "error"} PROVE ParitiesAreSound
    BY DEF ParitiesAreSound
  <2>1. setCounts = EvenSizes
    BY CountsAreEven DEF ParityIInv
  <2>2. CASE parityPc = "error"
    <3>1. EvenSizes = {} /\ PossibleParityValues = {}
      BY <2>1, <2>2 DEF ParityIInv, PossibleParityValues
    <3> QED
      BY <3>1 DEF ParitiesAreSound
  <2>3. CASE parityPc = "offered"
    <3>1. setSize \in EvenSizes /\ \A z \in EvenSizes : z <= setSize
      BY <2>1, <2>3 DEF ParityIInv, Greatest
    <3>2. setSize \in 4 .. 16 /\ EvenSizes \subseteq 4 .. 16
      BY <3>1 DEF EvenSizes, setSizes
    <3>3. \A s \in EvenSizes : (\A z \in EvenSizes : z <= s) <=> s = setSize
      BY <3>1, <3>2
    <3>4. /\ 2 .. (setSize \div 2) \subseteq 2 .. 8
          /\ \A k \in 2 .. 8 : k \in 2 .. (setSize \div 2) <=> 2 * k <= setSize
      BY <3>2
    <3>5. {k \in 2 .. 8 : \E s \in EvenSizes : 2 * k <= s /\ \A z \in EvenSizes : z <= s}
            = {k \in 2 .. 8 : 2 * k <= setSize}
      BY <3>1, <3>3
    <3>6. 2 .. (setSize \div 2) = {k \in 2 .. 8 : 2 * k <= setSize}
      BY <3>4
    <3>7. PossibleParityValues = 2 .. (setSize \div 2)
      BY <2>3 DEF PossibleParityValues
    <3> QED
      BY <3>4, <3>5, <3>6, <3>7 DEF ParitiesAreSound, AcceptedParities
  <2> QED
    BY <2>2, <2>3
<1> QED
  BY <1>1, ParityInductive, PTL
=============================================================================
