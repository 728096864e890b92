------------------------------ MODULE DeleteProofs ------------------------------
(***************************************************************************)
(* Proofs about DeleteObjects, for requests of any length over any folders *)
(* and any capacity of contentCh: whatever waits to be removed, in the     *)
(* listing, in the handler's hands, in contentCh or at the remover, was    *)
(* asked for by a file the handler has come to; and what a file asks for   *)
(* waits in one of these places until it is gone or given up.              *)
(***************************************************************************)
EXTENDS DeleteObjects, TLAPS

Concerns(f, k) == asked[f].path = k \/ (asked[f].recursive /\ k \in Below[asked[f].path])

\* What the remover of file f may be told to remove.
AskedFor(f) ==
  {r \in Removals : /\ r.key \in Keys /\ Concerns(f, r.key)
                    /\ \/ r.version = NoVersion
                       \/ /\ asked[f].path = r.key
                          /\ \E g \in 1 .. f : asked[g].version = r.version}

PolicyOK ==
  /\ asked \in Seq(Files)
  /\ \A f \in Index : asked[f].recursive <=> asked[f].path \in Folders
  /\ has \in [Keys -> SUBSET Versions] /\ marked \subseteq Keys

HandlerOK ==
  /\ handlerPc \in {"files", "range", "send", "drain", "done"}
  /\ i \in 0 .. Len(asked)
  /\ version \in Versions \cup {NoVersion}
  /\ version = NoVersion \/ \E g \in 1 .. i : asked[g].version = version
  /\ item \in Keys \cup {NoVersion}
  /\ deleteAnswer \in {"none", "ok", "error"}
  /\ handlerPc = "done" <=> deleteAnswer # "none"
  /\ handlerPc \in {"range", "send", "drain"} => i # 0
  /\ handlerPc \in {"range", "send"} => asked[i].recursive
  /\ handlerPc = "send" => item \in Keys /\ item \in Below[asked[i].path]

ListingOK ==
  /\ lister \in [Index -> {"off", "on", "denied", "ended"}]
  /\ list \in [Index -> SUBSET Keys]
  /\ \A f \in Index : list[f] # {} => list[f] \subseteq Below[asked[f].path]

ChannelOK ==
  /\ contentCh \in [Index -> Seq(Removals)]
  /\ \A f \in Index : /\ contentCh[f] \in Seq(AskedFor(f))
                      /\ Len(contentCh[f]) <= Capacity
                      /\ contentCh[f] # <<>> => f <= i
  /\ closed \in [Index -> BOOLEAN]

RemoverOK ==
  /\ remover \in [Index -> {"off", "on", "ended", "stopped"}]
  /\ batch \in [Index -> SUBSET Removals]
  /\ \A f \in Index : batch[f] \subseteq AskedFor(f) /\ (batch[f] # {} => f <= i)
  /\ offer \in [Index -> {"none", "denied", "failed"}]

DeletionIInv == PolicyOK /\ HandlerOK /\ ListingOK /\ ChannelOK /\ RemoverOK

-----------------------------------------------------------------------------
LEMMA IndexIs == ASSUME PolicyOK PROVE Index = 1 .. Len(asked) /\ Len(asked) \in Nat
  BY DEF PolicyOK, Index

LEMMA Single == ASSUME NEW S, NEW x \in S PROVE <<x>> \in Seq(S) /\ Len(<<x>>) = 1
  OBVIOUS

LEMMA Taken ==
  ASSUME NEW S, NEW s \in Seq(S), s # <<>>
  PROVE  Head(s) \in S /\ Tail(s) \in Seq(S) /\ Len(Tail(s)) <= Len(s)
  OBVIOUS

LEMMA Added ==
  ASSUME NEW S, NEW s \in Seq(S), NEW x \in S
  PROVE  Append(s, x) \in Seq(S) /\ Len(Append(s, x)) = Len(s) + 1
  OBVIOUS

LEMMA InitialDeletion == DeletionInit => DeletionIInv
  <1> SUFFICES ASSUME DeletionInit PROVE DeletionIInv
    OBVIOUS
  <1>1. PolicyOK
    BY RequestsAssumption DEF DeletionInit, PolicyOK, Index
  <1>2. HandlerOK
    BY <1>1, IndexIs DEF DeletionInit, HandlerOK
  <1>3. ListingOK
    BY DEF DeletionInit, ListingOK
  <1>4. ChannelOK
    <2>1. \A S : <<>> \in Seq(S)
      OBVIOUS
    <2>2. Len(<<>>) <= Capacity
      BY CapacityAssumption
    <2>3. contentCh = [f \in Index |-> <<>>] /\ closed = [f \in Index |-> FALSE]
      BY DEF DeletionInit
    <2>4. contentCh \in [Index -> Seq(Removals)] /\ closed \in [Index -> BOOLEAN]
      BY <2>1, <2>3
    <2> QED BY <2>1, <2>2, <2>3, <2>4, Zenon DEF ChannelOK
  <1>5. RemoverOK
    BY DEF DeletionInit, RemoverOK
  <1> QED
    BY <1>1, <1>2, <1>3, <1>4, <1>5 DEF DeletionIInv

-----------------------------------------------------------------------------
(* Files one after another. *)

\* The files asked for do not change, and what is asked for with them.
LEMMA AskedStays ==
  ASSUME UNCHANGED asked
  PROVE  Index' = Index /\ \A f : AskedFor(f)' = AskedFor(f)
  BY DEF Index, AskedFor, Concerns

LEMMA NextFileKeeps == ASSUME DeletionIInv, NextFile PROVE DeletionIInv'
<1> DEFINE n == i + 1
<1> USE IndexIs DEF DeletionIInv
<1>1. n \in Index /\ n \in 1 .. Len(asked) /\ i' = n /\ i \in Nat
  BY DEF NextFile, HandlerOK
<1>2. PolicyOK' /\ UNCHANGED asked
  BY DEF NextFile, PolicyOK, bucket, policy, Index
<1>3. /\ version' \in Versions \cup {NoVersion}
      /\ version' = NoVersion \/ \E g \in 1 .. n : asked[g].version = version'
  <2>1. asked[n] \in Files
    BY <1>1 DEF PolicyOK
  <2>2. version' = IF asked[n].version # NoVersion THEN asked[n].version ELSE version
    BY DEF NextFile, VersionFor
  <2>3. \A g \in 1 .. i : g \in 1 .. n
    BY <1>1
  <2>4. n \in 1 .. n
    BY <1>1
  <2> HIDE DEF n
  <2> QED BY <2>1, <2>2, <2>3, <2>4 DEF Files, HandlerOK
<1>later. \A f \in Index : f <= i => f <= n
  BY <1>1
<1>asked. Index' = Index /\ \A f : AskedFor(f)' = AskedFor(f)
  BY <1>2, AskedStays
<1>4. CASE NoClient
  <2>1. UNCHANGED <<item, lister, list, contentCh, closed, remover, batch, offer>>
    BY <1>4 DEF NoClient, listing, channel, removal
  <2>2. HandlerOK'
    BY <1>1, <1>2, <1>3, <1>4, <2>1 DEF NoClient, Answer, HandlerOK
  <2>3. ListingOK'
    BY <1>2, <2>1 DEF ListingOK, Index
  <2>4. ChannelOK' /\ RemoverOK'
    BY <1>1, <1>2, <2>1, AskedStays DEF ChannelOK, RemoverOK
  <2> QED BY <1>2, <2>2, <2>3, <2>4
<1>5. CASE asked[n].recursive /\ DeleteMultipleObjects(n, asked[n].path)
  <2>1. HandlerOK'
    BY <1>1, <1>2, <1>3, <1>5 DEF NextFile, DeleteMultipleObjects, HandlerOK
  <2>2. ListingOK'
    <3>1. asked[n].path \in Folders
      BY <1>1, <1>5 DEF PolicyOK
    <3>2. Below[asked[n].path] \subseteq Keys
      BY <3>1, BelowAssumption
    <3> QED BY <1>1, <1>2, <1>5, <3>2 DEF DeleteMultipleObjects, ListingOK, Index
  <2>3. ChannelOK' /\ RemoverOK'
    <3>1. /\ UNCHANGED <<contentCh, closed, batch, offer>>
          /\ remover' = [remover EXCEPT ![n] = "on"]
      BY <1>5 DEF DeleteMultipleObjects, channel
    <3> HIDE DEF n
    <3>2. ChannelOK'
      BY <1>1, <1>later, <1>asked, <3>1 DEF ChannelOK
    <3> QED BY <1>1, <1>later, <1>asked, <3>1, <3>2 DEF RemoverOK
  <2> QED BY <1>2, <2>1, <2>2, <2>3
<1>6. CASE ~asked[n].recursive /\ DeleteSingleObject(n, asked[n].path)
  <2>1. HandlerOK'
    BY <1>1, <1>2, <1>3, <1>6 DEF NextFile, DeleteSingleObject, HandlerOK
  <2>2. ListingOK'
    BY <1>2, <1>6 DEF DeleteSingleObject, listing, ListingOK, Index
  <2> DEFINE r == [key |-> asked[n].path, version |-> version']
  <2>3. r \in AskedFor(n)
    <3>1. asked[n].path \in Keys
      <4>1. asked[n] \in Files /\ asked[n].path \notin Folders
        BY <1>1, <1>6 DEF PolicyOK
      <4> HIDE DEF n
      <4> QED BY <4>1 DEF Files
    <3>2. r \in Removals /\ r.key = asked[n].path /\ r.version = version'
      BY <1>3, <3>1 DEF Removals
    <3> HIDE DEF r, n
    <3> QED BY <1>3, <3>1, <3>2, Zenon DEF AskedFor, Concerns
  <2>4. <<r>> \in Seq(AskedFor(n)) /\ Len(<<r>>) <= Capacity
    <3> HIDE DEF r
    <3> QED BY <2>3, Single, CapacityAssumption
  <2>5. ChannelOK'
    <3>1. contentCh' = [contentCh EXCEPT ![n] = <<r>>] /\ closed' = [closed EXCEPT ![n] = TRUE]
      BY <1>6 DEF DeleteSingleObject
    <3>2. n <= n
      BY <1>1
    <3>3. <<r>> \in Seq(Removals)
      BY <2>3, Single DEF AskedFor
    <3>4. contentCh' \in [Index -> Seq(Removals)]
      BY <1>1, <3>1, <3>3, Zenon DEF ChannelOK
    <3> HIDE DEF r, n
    <3> QED BY <1>1, <1>later, <1>asked, <2>4, <3>1, <3>2, <3>4 DEF ChannelOK
  <2>6. RemoverOK'
    <3>1. UNCHANGED <<batch, offer>> /\ remover' = [remover EXCEPT ![n] = "on"]
      BY <1>6 DEF DeleteSingleObject
    <3> HIDE DEF n
    <3> QED BY <1>1, <1>later, <1>asked, <3>1 DEF RemoverOK
  <2> QED BY <1>2, <2>1, <2>2, <2>5, <2>6
<1> QED
  BY <1>4, <1>5, <1>6 DEF NextFile

LEMMA AllDeletedKeeps == ASSUME DeletionIInv, AllDeleted PROVE DeletionIInv'
<1>1. /\ UNCHANGED <<has, marked, asked, i, version, item, lister, list, contentCh, closed,
                     remover, batch, offer>>
      /\ handlerPc' = "done" /\ deleteAnswer' = "ok"
  BY DEF AllDeleted, Answer, bucket, policy, listing, channel, removal
<1> QED
  BY <1>1, AskedStays DEF DeletionIInv, PolicyOK, HandlerOK, ListingOK, ChannelOK, RemoverOK

-----------------------------------------------------------------------------
(* The loop over a listing. *)

\* Closing contentCh and moving the handler leave what waits as it is.
LEMMA WaitingStays ==
  ASSUME DeletionIInv, UNCHANGED <<asked, i, contentCh, batch>>,
         closed' \in [Index -> BOOLEAN],
         remover' \in [Index -> {"off", "on", "ended", "stopped"}],
         offer' \in [Index -> {"none", "denied", "failed"}]
  PROVE  ChannelOK' /\ RemoverOK'
  BY AskedStays DEF DeletionIInv, ChannelOK, RemoverOK

LEMMA BucketStays == ASSUME PolicyOK, UNCHANGED <<bucket, asked>> PROVE PolicyOK'
  BY DEF PolicyOK, bucket, Index

LEMMA AtAFile ==
  ASSUME DeletionIInv, handlerPc \in {"range", "send", "drain"}
  PROVE  i \in Index
  BY IndexIs DEF DeletionIInv, HandlerOK

LEMMA ReceivingKeeps ==
  ASSUME DeletionIInv, ReceiveContent \/ ReceiveDenied \/ ReceiveFailed \/ ListingEnds
  PROVE  DeletionIInv'
<1>1. i \in Index
  BY AtAFile DEF ReceiveContent, ReceiveDenied, ReceiveFailed, ListingEnds
<1>2. UNCHANGED <<bucket, asked, i, version, contentCh, remover, batch, offer>>
  BY DEF ReceiveContent, ReceiveDenied, ReceiveFailed, ListingEnds, policy, channel, removal,
         handler
<1>3. closed' \in [Index -> BOOLEAN]
  BY <1>1 DEF DeletionIInv, ChannelOK, ReceiveContent, ReceiveDenied, ReceiveFailed, ListingEnds,
              CloseContent, channel
<1>4. HandlerOK'
  <2>1. handlerPc = "range" /\ list \in [Index -> SUBSET Keys]
    BY DEF DeletionIInv, ListingOK, ReceiveContent, ReceiveDenied, ReceiveFailed, ListingEnds
  <2>2. CASE ReceiveContent
    BY <1>1, <1>2, <2>1, <2>2 DEF DeletionIInv, HandlerOK, ListingOK, ReceiveContent
  <2>3. CASE ReceiveDenied
    BY <1>2, <2>3 DEF DeletionIInv, HandlerOK, ReceiveDenied, handler
  <2>4. CASE ReceiveFailed
    BY <1>2, <2>4 DEF DeletionIInv, HandlerOK, ReceiveFailed, Answer
  <2>5. CASE ListingEnds
    BY <1>2, <2>5 DEF DeletionIInv, HandlerOK, ListingEnds
  <2> QED BY <2>2, <2>3, <2>4, <2>5
<1>5. ListingOK'
  <2>1. Index' = Index
    BY <1>2, AskedStays
  <2>2. CASE ReceiveContent
    BY <1>1, <1>2, <2>1, <2>2 DEF DeletionIInv, ListingOK, ReceiveContent
  <2>3. CASE ReceiveDenied
    BY <1>1, <1>2, <2>1, <2>3 DEF DeletionIInv, ListingOK, ReceiveDenied
  <2>4. CASE ReceiveFailed
    BY <1>1, <1>2, <2>1, <2>4 DEF DeletionIInv, ListingOK, ReceiveFailed
  <2>5. CASE ListingEnds
    BY <1>1, <1>2, <2>1, <2>5 DEF DeletionIInv, ListingOK, ListingEnds
  <2> QED BY <2>2, <2>3, <2>4, <2>5
<1> QED
  BY <1>2, <1>3, <1>4, <1>5, WaitingStays, BucketStays DEF DeletionIInv, RemoverOK

LEMMA SendKeeps == ASSUME DeletionIInv, SendContent PROVE DeletionIInv'
<1>1. i \in Index /\ UNCHANGED <<bucket, asked, i, version, lister, list, closed, remover, batch, offer>>
  BY AtAFile DEF SendContent, policy, listing, removal
<1>2. /\ handlerPc = "send" /\ handlerPc' = "range" /\ item' = NoVersion /\ UNCHANGED deleteAnswer
      /\ Len(contentCh[i]) < Capacity
      /\ contentCh' = [contentCh EXCEPT ![i] = Append(@, Content)]
  BY DEF SendContent
<1>3. Content \in AskedFor(i)
  <2>1. item \in Keys /\ Concerns(i, item)
    BY <1>2 DEF DeletionIInv, HandlerOK, Concerns
  <2>2. Content \in Removals /\ Content.key = item /\ Content.version = NoVersion
    BY <2>1 DEF Content, Removals
  <2> QED BY <2>1, <2>2, Zenon DEF AskedFor
<1>4. ChannelOK'
  <2>1. contentCh[i] \in Seq(AskedFor(i)) /\ DOMAIN contentCh = Index
    BY <1>1 DEF DeletionIInv, ChannelOK
  <2> DEFINE longer == Append(contentCh[i], Content)
  <2>2. longer \in Seq(AskedFor(i)) /\ Len(longer) <= Capacity
    <3>1. longer \in Seq(AskedFor(i)) /\ Len(longer) = Len(contentCh[i]) + 1
      BY <1>3, <2>1, Added
    <3>2. Len(contentCh[i]) \in Nat
      BY <2>1
    <3> HIDE DEF longer
    <3> QED BY <1>2, <3>1, <3>2, CapacityAssumption
  <2>3. contentCh' = [contentCh EXCEPT ![i] = longer]
    BY <1>2
  <2>4. i <= i
    BY DEF DeletionIInv, HandlerOK
  <2>5. contentCh' \in [Index -> Seq(Removals)]
    <3>1. contentCh \in [Index -> Seq(Removals)] /\ Content \in Removals
      BY <1>3 DEF DeletionIInv, ChannelOK, AskedFor
    <3>2. longer \in Seq(Removals)
      BY <1>1, <3>1, Added
    <3> HIDE DEF longer
    <3> QED BY <1>1, <2>3, <3>1, <3>2
  <2> HIDE DEF longer
  <2> QED BY <1>1, <2>1, <2>2, <2>3, <2>4, <2>5, AskedStays DEF DeletionIInv, ChannelOK
<1>5. RemoverOK' /\ ListingOK'
  BY <1>1, AskedStays DEF DeletionIInv, RemoverOK, ListingOK
<1>6. HandlerOK'
  BY <1>1, <1>2 DEF DeletionIInv, HandlerOK
<1> QED
  BY <1>1, <1>4, <1>5, <1>6, BucketStays DEF DeletionIInv

LEMMA ErrorsKeep ==
  ASSUME DeletionIInv, ReceiveError \/ RemoverGone \/ Drained
  PROVE  DeletionIInv'
<1>1. i \in Index
  BY AtAFile DEF ReceiveError, RemoverGone, Drained
<1>2. UNCHANGED <<bucket, asked, i, version, item, lister, list, contentCh, remover, batch>>
  BY DEF ReceiveError, RemoverGone, Drained, policy, channel, listing, removal
<1>3. closed' \in [Index -> BOOLEAN] /\ offer' \in [Index -> {"none", "denied", "failed"}]
  BY <1>1 DEF DeletionIInv, ChannelOK, RemoverOK, ReceiveError, RemoverGone, Drained, CloseContent,
              channel, removal
<1>4. HandlerOK'
  BY <1>2 DEF DeletionIInv, HandlerOK, ReceiveError, AfterError, Answer, RemoverGone, Drained
<1>5. ListingOK'
  BY <1>2, AskedStays DEF DeletionIInv, ListingOK
<1> QED
  BY <1>2, <1>3, <1>4, <1>5, WaitingStays, BucketStays DEF DeletionIInv, RemoverOK

-----------------------------------------------------------------------------
(* The remover. *)

\* The remover leaves the handler, the listing and what was asked for alone.
LEMMA RemoverLeaves ==
  ASSUME DeletionIInv, UNCHANGED <<policy, handler, listing>>
  PROVE  /\ HandlerOK' /\ ListingOK' /\ UNCHANGED <<asked, i>>
         /\ Index' = Index /\ \A f : AskedFor(f)' = AskedFor(f)
<1>1. UNCHANGED <<asked, handlerPc, i, version, item, deleteAnswer, lister, list>>
  BY DEF policy, handler, listing
<1> QED
  BY <1>1, AskedStays DEF DeletionIInv, HandlerOK, ListingOK

LEMMA TakeKeeps == ASSUME DeletionIInv, NEW f \in Index, Take(f) PROVE DeletionIInv'
<1>1. UNCHANGED <<bucket, policy, handler, listing, closed, remover, offer>> /\ contentCh[f] # <<>>
  BY DEF Take
<1>2. /\ HandlerOK' /\ ListingOK' /\ UNCHANGED <<asked, i>>
      /\ Index' = Index /\ \A g : AskedFor(g)' = AskedFor(g)
  BY <1>1, RemoverLeaves
<1> DEFINE s == contentCh[f]
           taken == Head(s)
           rest == Tail(s)
<1>3. s \in Seq(AskedFor(f)) /\ Len(s) <= Capacity /\ s # <<>> /\ f <= i
  BY <1>1 DEF DeletionIInv, ChannelOK
<1>4. taken \in AskedFor(f) /\ rest \in Seq(AskedFor(f)) /\ Len(rest) <= Len(s)
  BY <1>3, Taken
<1>5. Len(rest) <= Capacity
  <2>1. Len(s) \in Nat /\ Len(rest) \in Nat /\ Capacity \in Nat
    BY <1>3, <1>4, CapacityAssumption
  <2> HIDE DEF s, rest
  <2> QED BY <1>3, <1>4, <2>1
<1>6. /\ contentCh' = [contentCh EXCEPT ![f] = rest]
      /\ batch' = [batch EXCEPT ![f] = batch[f] \cup {taken}]
  BY DEF Take
<1>types. taken \in Removals /\ rest \in Seq(Removals)
  BY <1>1, Taken DEF DeletionIInv, ChannelOK
<1> HIDE DEF s, taken, rest
<1>7. ChannelOK'
  BY <1>types, <1>1, <1>2, <1>3, <1>4, <1>5, <1>6 DEF DeletionIInv, ChannelOK
<1>8. RemoverOK'
  BY <1>types, <1>1, <1>2, <1>3, <1>4, <1>6 DEF DeletionIInv, RemoverOK
<1> QED
  BY <1>1, <1>2, <1>7, <1>8, BucketStays DEF DeletionIInv

LEMMA RemoveKeeps ==
  ASSUME DeletionIInv, NEW f \in Index, NEW r \in batch[f], Remove(f, r)
  PROVE  DeletionIInv'
<1>1. UNCHANGED <<policy, handler, listing, contentCh, closed, remover>>
  BY DEF Remove, channel
<1>2. /\ HandlerOK' /\ ListingOK' /\ UNCHANGED <<asked, i>>
      /\ Index' = Index /\ \A g : AskedFor(g)' = AskedFor(g)
  BY <1>1, RemoverLeaves
<1>3. r.key \in Keys
  BY DEF DeletionIInv, RemoverOK, AskedFor
<1>4. PolicyOK'
  BY <1>2, <1>3 DEF DeletionIInv, PolicyOK, Remove, bucket
<1>5. ChannelOK'
  BY <1>1, <1>2 DEF DeletionIInv, ChannelOK
<1>6. RemoverOK'
  <2>1. batch' = [batch EXCEPT ![f] = @ \ {r}] /\ offer' \in [Index -> {"none", "denied", "failed"}]
    BY DEF DeletionIInv, RemoverOK, Remove
  <2> QED BY <1>1, <1>2, <2>1 DEF DeletionIInv, RemoverOK
<1> QED
  BY <1>2, <1>4, <1>5, <1>6 DEF DeletionIInv

LEMMA RemoverEndKeeps ==
  ASSUME DeletionIInv, NEW f \in Index, RemoverEnds(f) \/ RemoverStops(f)
  PROVE  DeletionIInv'
<1>1. UNCHANGED <<bucket, policy, handler, listing, contentCh, closed, batch, offer>>
  BY DEF RemoverEnds, RemoverStops, channel
<1>2. HandlerOK' /\ ListingOK' /\ UNCHANGED <<asked, i>>
  BY <1>1, RemoverLeaves
<1>3. closed' \in [Index -> BOOLEAN] /\ offer' \in [Index -> {"none", "denied", "failed"}]
  BY <1>1 DEF DeletionIInv, ChannelOK, RemoverOK
<1>4. remover' \in [Index -> {"off", "on", "ended", "stopped"}]
  BY DEF DeletionIInv, RemoverOK, RemoverEnds, RemoverStops
<1> QED
  BY <1>1, <1>2, <1>3, <1>4, WaitingStays, BucketStays DEF DeletionIInv

LEMMA StepKeepsDeletion == DeletionIInv /\ [DeletionNext]_deletionVars => DeletionIInv'
<1> SUFFICES ASSUME DeletionIInv, [DeletionNext]_deletionVars PROVE DeletionIInv'
  OBVIOUS
<1>1. CASE Handler
  BY <1>1, NextFileKeeps, AllDeletedKeeps, ReceivingKeeps, SendKeeps, ErrorsKeep DEF Handler
<1>2. ASSUME NEW f \in Index, Remover(f) \/ RemoverStops(f) PROVE DeletionIInv'
  BY <1>2, TakeKeeps, RemoveKeeps, RemoverEndKeeps DEF Remover
<1>3. CASE UNCHANGED deletionVars
  <2>1. UNCHANGED <<bucket, policy, handler, listing, contentCh, closed, remover, batch, offer>>
    BY <1>3 DEF deletionVars, channel, removal
  <2>2. HandlerOK' /\ ListingOK' /\ UNCHANGED <<asked, i>>
    BY <2>1, RemoverLeaves
  <2>3. /\ closed' \in [Index -> BOOLEAN] /\ offer' \in [Index -> {"none", "denied", "failed"}]
        /\ remover' \in [Index -> {"off", "on", "ended", "stopped"}]
    BY <2>1 DEF DeletionIInv, ChannelOK, RemoverOK
  <2> QED BY <2>1, <2>2, <2>3, WaitingStays, BucketStays DEF DeletionIInv
<1> QED
  BY <1>1, <1>2, <1>3 DEF DeletionNext

LEMMA InductiveDeletion == DeletionSpec => []DeletionIInv
<1> QED
  BY InitialDeletion, StepKeepsDeletion, PTL DEF DeletionSpec

-----------------------------------------------------------------------------
\* Theorem: every variable keeps its type, the request is answered exactly when the
\* handler has returned, and contentCh never holds more than its capacity.
THEOREM DeletionTypeCorrect == DeletionSpec => []DeletionTypeOK
<1>1. DeletionIInv => DeletionTypeOK
  <2> SUFFICES ASSUME DeletionIInv PROVE DeletionTypeOK
    OBVIOUS
  <2> QED
    BY DEF DeletionIInv, PolicyOK, HandlerOK, ListingOK, ChannelOK, RemoverOK, DeletionTypeOK
<1> QED
  BY <1>1, InductiveDeletion, PTL

\* A removal hides or takes only what a file the handler has come to asks for.
LEMMA RemovalIsAskedFor ==
  ASSUME DeletionIInv, NEW f \in Index, NEW r \in batch[f], Remove(f, r)
  PROVE  /\ \A k \in marked' \ marked : \E g \in 1 .. i :
              asked[g].path = k \/ (asked[g].recursive /\ k \in Below[asked[g].path])
         /\ \A k \in Keys : \A v \in has[k] \ has'[k] : \E d, g \in 1 .. i :
              g <= d /\ asked[d].path = k /\ asked[g].version = v
<1>1. r \in AskedFor(f) /\ f \in 1 .. i /\ i \in Nat
  <2>1. f <= i /\ r \in AskedFor(f)
    BY DEF DeletionIInv, RemoverOK
  <2> QED BY <2>1, IndexIs DEF DeletionIInv, HandlerOK
<1>2. \A k \in marked' \ marked : k = r.key
  BY DEF Remove, bucket
<1>3. Concerns(f, r.key) /\ r.key \in Keys
  BY <1>1 DEF AskedFor
<1>4. ASSUME NEW k \in Keys, NEW v \in has[k] \ has'[k]
      PROVE  k = r.key /\ v = r.version /\ r.version # NoVersion
  BY <1>3, <1>4 DEF DeletionIInv, PolicyOK, Remove, bucket
<1>5. ASSUME r.version # NoVersion
      PROVE  asked[f].path = r.key /\ \E g \in 1 .. i : g <= f /\ asked[g].version = r.version
  <2>1. /\ asked[f].path = r.key
        /\ \E g \in 1 .. f : asked[g].version = r.version
    BY <1>1, <1>5 DEF AskedFor
  <2>2. \A g \in 1 .. f : g \in 1 .. i /\ g <= f
    BY <1>1
  <2> QED BY <2>1, <2>2
<1>6. \A k \in marked' \ marked : \E g \in 1 .. i :
        asked[g].path = k \/ (asked[g].recursive /\ k \in Below[asked[g].path])
  BY <1>1, <1>2, <1>3, Zenon DEF Concerns
<1>7. ASSUME NEW k \in Keys, NEW v \in has[k] \ has'[k]
      PROVE  \E d, g \in 1 .. i : g <= d /\ asked[d].path = k /\ asked[g].version = v
  <2>1. k = r.key /\ v = r.version /\ r.version # NoVersion
    BY <1>4, <1>7
  <2> QED BY <1>1, <1>5, <2>1, Zenon
<1> QED
  BY <1>6, <1>7

\* Theorem: an object is hidden, and a version removed, only for a file of the
\* request the handler has come to: by its path, or by the folder above it, and a
\* version only if that file or one before it names it.
THEOREM OnlyAskedIsRemoved == DeletionSpec => RemovesOnlyAsked
<1> DEFINE Justified ==
      /\ \A k \in marked' \ marked : \E f \in 1 .. i :
           \/ asked[f].path = k
           \/ asked[f].recursive /\ k \in Below[asked[f].path]
      /\ \A k \in Keys : \A v \in has[k] \ has'[k] : \E f, g \in 1 .. i :
           g <= f /\ asked[f].path = k /\ asked[g].version = v
<1>1. UNCHANGED bucket => Justified
  BY DEF bucket
<1>2. DeletionIInv /\ [DeletionNext]_deletionVars => [Justified]_deletionVars
  <2> SUFFICES ASSUME DeletionIInv, DeletionNext PROVE Justified
    OBVIOUS
  <2>1. CASE Handler
    <3>1. UNCHANGED bucket
      BY <2>1 DEF Handler, NextFile, AllDeleted, ReceiveContent, ReceiveDenied, ReceiveFailed,
                  ListingEnds, SendContent, ReceiveError, RemoverGone, Drained
    <3> QED BY <1>1, <3>1
  <2>2. ASSUME NEW f \in Index, Take(f) \/ RemoverEnds(f) \/ RemoverStops(f) PROVE Justified
    <3>1. UNCHANGED bucket
      BY <2>2 DEF Take, RemoverEnds, RemoverStops
    <3> QED BY <1>1, <3>1
  <2>3. ASSUME NEW f \in Index, NEW r \in batch[f], Remove(f, r) PROVE Justified
    BY <2>3, RemovalIsAskedFor
  <2> HIDE DEF Justified
  <2> QED BY <2>1, <2>2, <2>3 DEF DeletionNext, Remover
<1> QED
  BY <1>2, InductiveDeletion, PTL DEF DeletionSpec, RemovesOnlyAsked

-----------------------------------------------------------------------------
(* A request that succeeds has deleted what it names. *)

\* What is to be removed for file f, and whether that is done with: gone, or the
\* user may not delete it.
Due(f) ==
  IF asked[f].recursive THEN {[key |-> k, version |-> NoVersion] : k \in Below[asked[f].path]}
  ELSE {[key |-> asked[f].path, version |-> asked[f].version]}

Met(r) ==
  r.key \in denied \/ IF r.version = NoVersion THEN ~Visible(r.key) ELSE r.version \notin has[r.key]

\* Where it may be on its way to the remover.
InChannel(f, r) == \E n \in DOMAIN contentCh[f] : contentCh[f][n] = r
Looping == handlerPc \in {"range", "send"}
AtHandler(f, r) ==
  f = i /\ Looping /\ (r.key \in list[f] \/ (handlerPc = "send" /\ item = r.key))
Waits(f, r) == r \in batch[f] \/ InChannel(f, r) \/ AtHandler(f, r)

GivenUp(f) == remover[f] = "stopped" \/ offer[f] = "failed" \/ asked[f].path \in unlistable

Failed == deleteAnswer = "error"

NothingLost(f) ==
  OwnVersion(f) => GivenUp(f) \/ \A r \in Due(f) : Met(r) \/ Waits(f, r)

FileOK(f) ==
  /\ f > i => lister[f] = "off" /\ ~closed[f]
  /\ f = i /\ Looping => ~closed[f]
  /\ remover[f] = "ended" => closed[f] /\ batch[f] = {} /\ contentCh[f] = <<>> /\ offer[f] = "none"
  /\ f <= i /\ ~Failed /\ ~(f = i /\ Looping) => remover[f] = "stopped" \/ lister[f] # "on"
  /\ f <= i /\ ~Failed /\ (f < i \/ handlerPc \in {"files", "done"}) => remover[f] \in {"ended", "stopped"}
  /\ f <= i /\ ~Failed => NothingLost(f)

SuccessIInv ==
  /\ DeletionIInv
  /\ deleteAnswer = "ok" => i = Len(asked)
  /\ \A f \in Index : FileOK(f)

LEMMA DueAre ==
  ASSUME PolicyOK, NEW f \in Index
  PROVE  /\ \A r \in Due(f) : r.key \in Keys
         /\ asked[f].recursive => \A r \in Due(f) : r.version = NoVersion
<1>1. asked[f] \in Files /\ (asked[f].recursive <=> asked[f].path \in Folders)
  BY IndexIs DEF PolicyOK
<1>2. asked[f].path \in Keys \cup Folders /\ asked[f].recursive \in BOOLEAN
  BY <1>1 DEF Files
<1>3. CASE asked[f].recursive
  <2>1. Below[asked[f].path] \subseteq Keys
    BY <1>1, <1>3, BelowAssumption
  <2> QED BY <1>3, <2>1 DEF Due
<1>4. CASE ~asked[f].recursive
  BY <1>1, <1>2, <1>4 DEF Due
<1> QED
  BY <1>2, <1>3, <1>4

\* What is gone stays gone.
LEMMA MetStays ==
  ASSUME UNCHANGED denied, NEW r, r.key \in Keys,
         has'[r.key] \subseteq has[r.key], marked \subseteq marked', Met(r)
  PROVE  Met(r)'
  BY DEF Met, Visible

\* A file that a step does not concern.
LEMMA FileStays ==
  ASSUME DeletionIInv, NEW f \in Index, FileOK(f), UNCHANGED <<asked, denied, unlistable, i>>,
         \A k \in Keys : has'[k] \subseteq has[k], marked \subseteq marked',
         lister'[f] = lister[f], list'[f] = list[f], contentCh'[f] = contentCh[f],
         closed'[f] = closed[f], remover'[f] = remover[f], batch'[f] = batch[f], offer'[f] = offer[f],
         f # i \/ UNCHANGED <<handlerPc, item>>,
         Failed => Failed'
  PROVE  FileOK(f)'
<1>1. i' = i /\ (f = i /\ Looping' <=> f = i /\ Looping)
  BY DEF Looping
<1>2. f = i => UNCHANGED <<handlerPc, item>>
  OBVIOUS
<1>3. f <= i /\ ~Failed' => NothingLost(f)'
  <2> SUFFICES ASSUME f <= i, ~Failed', OwnVersion(f)', ~GivenUp(f)', NEW r \in Due(f)'
               PROVE  Met(r)' \/ Waits(f, r)'
    BY <1>1 DEF NothingLost
  <2>1. NothingLost(f)
    BY DEF FileOK
  <2>2. OwnVersion(f) /\ ~GivenUp(f) /\ r \in Due(f)
    BY DEF OwnVersion, GivenUp, Due
  <2>3. Met(r) \/ Waits(f, r)
    BY <2>1, <2>2 DEF NothingLost
  <2>4. CASE Met(r)
    BY <2>2, <2>4, DueAre, MetStays DEF DeletionIInv
  <2>5. CASE Waits(f, r)
    BY <1>1, <1>2, <2>5 DEF Waits, InChannel, AtHandler, Looping
  <2> QED BY <2>3, <2>4, <2>5
<1>4. f <= i /\ (f < i \/ handlerPc' \in {"files", "done"}) => f <= i /\ (f < i \/ handlerPc \in {"files", "done"})
  <2>1. f \in Nat /\ i \in Nat
    BY IndexIs DEF DeletionIInv, HandlerOK
  <2>2. f <= i /\ f # i => f < i
    BY <2>1
  <2> QED
    BY <1>2, <2>2
<1> QED
  BY <1>1, <1>3, <1>4 DEF FileOK

-----------------------------------------------------------------------------
LEMMA IndexNat ==
  ASSUME DeletionIInv
  PROVE  i \in Nat /\ Len(asked) \in Nat /\ Index = 1 .. Len(asked) /\ \A f \in Index : f \in Nat
  BY IndexIs DEF DeletionIInv, HandlerOK

LEMMA SuccessInit == DeletionInit => SuccessIInv
<1> SUFFICES ASSUME DeletionInit PROVE SuccessIInv
  OBVIOUS
<1>1. DeletionIInv
  BY InitialDeletion
<1>2. \A f \in Index : f \in Nat /\ f > 0 /\ ~(f <= 0)
  BY <1>1, IndexNat
<1> QED
  BY <1>1, <1>2 DEF DeletionInit, SuccessIInv, FileOK, Looping, Failed

\* The next file is begun when all before it are through.
LEMMA NextFileSucceeds == ASSUME SuccessIInv, NextFile PROVE SuccessIInv'
<1>n. PICK n : n = i + 1
  OBVIOUS
<1>1. /\ n \in Index /\ i' = n /\ handlerPc = "files" /\ i \in Nat /\ \A f \in Index : f \in Nat
      /\ UNCHANGED <<has, marked, denied, unlistable, asked>>
  BY <1>n, IndexNat DEF SuccessIInv, NextFile, bucket, policy
<1>2. DeletionIInv /\ DeletionIInv' /\ PolicyOK /\ Index' = Index
  BY <1>1, NextFileKeeps, AskedStays DEF SuccessIInv, DeletionIInv
<1>3. deleteAnswer' # "ok"
  BY <1>1, <1>2 DEF DeletionIInv, HandlerOK, NextFile, NoClient, Answer, DeleteMultipleObjects, DeleteSingleObject
<1>4. ~Looping /\ ~Failed
  BY <1>1, <1>2 DEF Looping, Failed, DeletionIInv, HandlerOK
<1>5. version' = VersionFor(asked[n])
  BY <1>n DEF NextFile
<1>6. \/ NoClient
      \/ asked[n].recursive /\ DeleteMultipleObjects(n, asked[n].path)
      \/ ~asked[n].recursive /\ DeleteSingleObject(n, asked[n].path)
  BY <1>n DEF NextFile
<1>7. /\ UNCHANGED batch /\ UNCHANGED offer
      /\ \A f \in Index \ {n} : /\ lister'[f] = lister[f] /\ list'[f] = list[f] /\ contentCh'[f] = contentCh[f]
                                /\ closed'[f] = closed[f] /\ remover'[f] = remover[f]
  BY <1>2, <1>6 DEF NoClient, DeleteMultipleObjects, DeleteSingleObject, listing, channel, removal,
     DeletionIInv, ListingOK, ChannelOK, RemoverOK
<1>8. ASSUME NEW f \in Index, f < n PROVE FileOK(f)'
  <2>1. f # n /\ f <= i /\ ~(f > n) /\ FileOK(f)
    BY <1>n, <1>1, <1>8 DEF SuccessIInv
  <2>2. NothingLost(f) => NothingLost(f)'
    <3> SUFFICES ASSUME NothingLost(f), OwnVersion(f)', ~GivenUp(f)', NEW r \in Due(f)'
                 PROVE  Met(r)' \/ Waits(f, r)'
      BY DEF NothingLost
    <3>1. OwnVersion(f) /\ ~GivenUp(f) /\ r \in Due(f)
      BY <1>1, <1>7, <2>1 DEF OwnVersion, GivenUp, Due
    <3>2. Met(r) \/ Waits(f, r)
      BY <3>1 DEF NothingLost
    <3>3. Met(r) => Met(r)'
      BY <1>1 DEF Met, Visible
    <3>4. Waits(f, r) => Waits(f, r)'
      BY <1>1, <1>4, <1>7, <2>1 DEF Waits, InChannel, AtHandler
    <3> QED BY <3>2, <3>3, <3>4
  <2> QED
    BY <1>1, <1>4, <1>7, <2>1, <2>2 DEF FileOK
<1>9. ASSUME NEW f \in Index, f > n PROVE FileOK(f)'
  <2>1. f # n /\ f > i /\ ~(f <= n) /\ FileOK(f)
    BY <1>n, <1>1, <1>9 DEF SuccessIInv
  <2> QED
    BY <1>1, <1>7, <1>9, <2>1 DEF FileOK
<1>10. FileOK(n)'
  <2>1. n > i /\ ~(n > n) /\ ~(n < n) /\ FileOK(n)
    BY <1>n, <1>1 DEF SuccessIInv
  <2>2. lister[n] = "off" /\ ~closed[n]
    BY <2>1 DEF FileOK
  <2>3. CASE NoClient
    <3>1. Failed' /\ ~Looping' /\ UNCHANGED <<contentCh, closed, remover>>
      BY <2>3 DEF NoClient, Answer, Failed, Looping, channel, removal
    <3> QED
      BY <1>1, <1>7, <2>1, <3>1 DEF FileOK
  <2>4. CASE asked[n].recursive /\ DeleteMultipleObjects(n, asked[n].path)
    <3>1. /\ remover'[n] = "on" /\ handlerPc' = "range" /\ UNCHANGED closed
          /\ asked[n].path \notin unlistable =>
               list'[n] = {k \in Below[asked[n].path] : Visible(k)}
      BY <1>1, <1>2, <2>4 DEF DeleteMultipleObjects, channel, DeletionIInv, RemoverOK, ListingOK
    <3>2. NothingLost(n)'
      <4> SUFFICES ASSUME ~GivenUp(n)', NEW r \in Due(n)'
                   PROVE  Met(r)' \/ Waits(n, r)'
        BY DEF NothingLost
      <4>1. r \in Due(n) /\ asked[n].path \notin unlistable
        BY <1>1 DEF Due, GivenUp
      <4>2. r.key \in Below[asked[n].path] /\ r.version = NoVersion
        BY <2>4, <4>1 DEF Due
      <4>3. Visible(r.key) => Waits(n, r)'
        BY <1>1, <3>1, <4>1, <4>2 DEF Waits, AtHandler, Looping
      <4>4. ~Visible(r.key) => Met(r)'
        BY <1>1, <4>2 DEF Met, Visible
      <4> QED BY <4>3, <4>4
    <3> QED
      BY <1>1, <2>1, <2>2, <3>1, <3>2 DEF FileOK, Looping
  <2>5. CASE ~asked[n].recursive /\ DeleteSingleObject(n, asked[n].path)
    <3>r. PICK r : r = [key |-> asked[n].path, version |-> version']
      OBVIOUS
    <3>1. /\ remover'[n] = "on" /\ handlerPc' = "drain" /\ lister' = lister
          /\ contentCh'[n] = <<r>>
      BY <3>r, <1>1, <1>2, <2>5 DEF DeleteSingleObject, listing, DeletionIInv, RemoverOK, ChannelOK
    <3>2. NothingLost(n)'
      <4> SUFFICES ASSUME OwnVersion(n)'
                   PROVE  \A d \in Due(n)' : Waits(n, d)'
        BY DEF NothingLost
      <4>1. OwnVersion(n)
        BY <1>1 DEF OwnVersion
      <4>2. version' = asked[n].version
        <5>1. asked[n].version = NoVersion => version = NoVersion
          <6>1. n - 1 = i
            BY <1>n, <1>1
          <6>2. asked[n].version = NoVersion => \A g \in 1 .. i : asked[g].version = NoVersion
            BY <4>1, <6>1 DEF OwnVersion
          <6> QED BY <1>2, <6>2 DEF DeletionIInv, HandlerOK
        <5> QED BY <1>5, <5>1 DEF VersionFor
      <4>3. \A d \in Due(n)' : d = r
        BY <3>r, <1>1, <2>5, <4>2 DEF Due
      <4>4. InChannel(n, r)'
        <5>1. 1 \in DOMAIN <<r>> /\ <<r>>[1] = r
          OBVIOUS
        <5>2. \E k \in DOMAIN contentCh'[n] : contentCh'[n][k] = r
          BY <3>1, <5>1
        <5> QED BY <1>1, <5>2 DEF InChannel
      <4> QED BY <4>3, <4>4 DEF Waits
    <3> QED
      BY <1>1, <2>1, <2>2, <3>1, <3>2 DEF FileOK, Looping
  <2> QED BY <1>6, <2>3, <2>4, <2>5
<1>11. \A f \in Index : f < n \/ f > n \/ f = n
  BY <1>n, <1>1
<1> QED
  BY <1>2, <1>3, <1>8, <1>9, <1>10, <1>11 DEF SuccessIInv

LEMMA AllDeletedSucceeds == ASSUME SuccessIInv, AllDeleted PROVE SuccessIInv'
<1>1. /\ UNCHANGED <<has, marked, denied, unlistable, asked, i, version, item, lister, list, contentCh,
                     closed, remover, batch, offer>>
      /\ handlerPc = "files" /\ handlerPc' = "done" /\ deleteAnswer' = "ok" /\ i = Len(asked)
  BY DEF AllDeleted, Answer, bucket, policy, listing, channel, removal
<1>2. DeletionIInv /\ DeletionIInv' /\ Index' = Index
  BY <1>1, AllDeletedKeeps, AskedStays DEF SuccessIInv
<1>3. ~Looping /\ ~Looping' /\ ~Failed /\ ~Failed'
  BY <1>1, <1>2 DEF Looping, Failed, DeletionIInv, HandlerOK
<1>4. ASSUME NEW f \in Index PROVE FileOK(f)'
  <2>1. FileOK(f)
    BY DEF SuccessIInv
  <2>2. NothingLost(f) => NothingLost(f)'
    <3>1. \A r : (Met(r)' <=> Met(r)) /\ (Waits(f, r)' <=> Waits(f, r))
      BY <1>1, <1>3 DEF Met, Visible, Waits, InChannel, AtHandler
    <3>2. /\ OwnVersion(f)' <=> OwnVersion(f)
          /\ GivenUp(f)' <=> GivenUp(f)
          /\ Due(f)' = Due(f)
      BY <1>1 DEF OwnVersion, GivenUp, Due
    <3> QED BY <3>1, <3>2 DEF NothingLost
  <2> QED BY <1>1, <1>3, <2>1, <2>2 DEF FileOK
<1> QED
  BY <1>1, <1>2, <1>4 DEF SuccessIInv

\* A step of the handler inside of a file: what it must leave of that one.
LEMMA FileStepSucceeds ==
  ASSUME SuccessIInv, DeletionIInv', handlerPc \in {"range", "send", "drain"}, deleteAnswer' # "ok",
         UNCHANGED <<has, marked, denied, unlistable, asked, i, remover, batch>>,
         \A f \in Index \ {i} :
           /\ lister'[f] = lister[f] /\ list'[f] = list[f] /\ contentCh'[f] = contentCh[f]
           /\ closed'[f] = closed[f] /\ offer'[f] = offer[f],
         FileOK(i)'
  PROVE  SuccessIInv'
<1>1. Index' = Index /\ DeletionIInv /\ ~Failed
  BY AskedStays DEF SuccessIInv, Failed, DeletionIInv, HandlerOK
<1>2. ASSUME NEW f \in Index PROVE FileOK(f)'
  <2>1. CASE f = i
    <3>1. \A g \in Index : g = i => FileOK(g)'
      BY DEF FileOK, Looping, Failed, NothingLost, OwnVersion, GivenUp, Due, Met, Visible, Waits,
             InChannel, AtHandler
    <3> QED BY <2>1, <3>1
  <2>2. CASE f # i
    BY <1>1, <2>2, FileStays DEF SuccessIInv
  <2> QED BY <2>1, <2>2
<1> QED
  BY <1>1, <1>2 DEF SuccessIInv

\* Where a file stands that the handler is at.
LEMMA AtFile ==
  ASSUME SuccessIInv, handlerPc \in {"range", "send", "drain"}
  PROVE  /\ i \in Index /\ FileOK(i) /\ ~(i > i) /\ i <= i /\ ~(i < i) /\ ~Failed
         /\ DeletionIInv /\ NothingLost(i)
         /\ handlerPc # "drain" => Looping /\ asked[i].recursive /\ remover[i] # "ended"
<1>1. i \in Index /\ DeletionIInv /\ i \in Nat /\ FileOK(i)
  BY AtAFile, IndexNat DEF SuccessIInv
<1>2. ~(i > i) /\ i <= i /\ ~(i < i)
  BY <1>1
<1>3. ~Failed
  BY <1>1 DEF Failed, DeletionIInv, HandlerOK
<1>4. handlerPc # "drain" => Looping /\ asked[i].recursive
  BY <1>1 DEF Looping, DeletionIInv, HandlerOK
<1> QED
  BY <1>1, <1>2, <1>3, <1>4 DEF FileOK

\* What a step of the handler inside of a file has to keep when nothing is removed.
LEMMA LossOnly ==
  ASSUME SuccessIInv, handlerPc \in {"range", "send", "drain"},
         UNCHANGED <<has, marked, denied, unlistable, asked, i, remover, batch>>,
         ~GivenUp(i)' => ~GivenUp(i),
         \A r \in Due(i) : r.version = NoVersion \/ ~asked[i].recursive => (Waits(i, r) => Waits(i, r)')
  PROVE  NothingLost(i)'
<1>1. PolicyOK /\ i \in Index /\ NothingLost(i)
  BY AtFile DEF DeletionIInv
<1>2. \A r \in Due(i) : Waits(i, r) => Waits(i, r)'
  BY <1>1, DueAre
<1>3. OwnVersion(i)' => OwnVersion(i)
  BY DEF OwnVersion
<1>4. Due(i)' = Due(i) /\ \A r : Met(r) => Met(r)'
  BY DEF Due, Met, Visible
<1> QED
  BY <1>1, <1>2, <1>3, <1>4 DEF NothingLost

LEMMA ReceivingSucceeds ==
  ASSUME SuccessIInv, ReceiveContent \/ ReceiveDenied \/ ReceiveFailed \/ ListingEnds
  PROVE  SuccessIInv'
<1>1. /\ handlerPc = "range"
      /\ UNCHANGED <<has, marked, denied, unlistable, asked, i, version, contentCh, remover, batch, offer>>
  BY DEF ReceiveContent, ReceiveDenied, ReceiveFailed, ListingEnds, bucket, policy, channel, removal, handler
<1>2. /\ i \in Index /\ FileOK(i) /\ ~(i > i) /\ i <= i /\ ~(i < i) /\ ~Failed
      /\ DeletionIInv /\ NothingLost(i) /\ Looping /\ asked[i].recursive /\ remover[i] # "ended"
  BY <1>1, AtFile
<1>3. DeletionIInv'
  BY <1>2, ReceivingKeeps
<1>4. deleteAnswer' # "ok"
  BY <1>1, <1>2 DEF ReceiveContent, ReceiveDenied, ReceiveFailed, ListingEnds, handler, Answer,
     DeletionIInv, HandlerOK
<1>5. \A f \in Index \ {i} : lister'[f] = lister[f] /\ list'[f] = list[f] /\ closed'[f] = closed[f]
  BY <1>2 DEF ReceiveContent, ReceiveDenied, ReceiveFailed, ListingEnds, CloseContent, channel,
     DeletionIInv, ListingOK, ChannelOK
<1>6. FileOK(i)'
  <2>1. CASE ReceiveContent
    <3>1. PICK k \in list[i] : item' = k /\ list' = [list EXCEPT ![i] = @ \ {k}]
      BY <2>1 DEF ReceiveContent
    <3>2. handlerPc' = "send" /\ UNCHANGED <<lister, closed, deleteAnswer>>
      BY <2>1 DEF ReceiveContent, channel
    <3>3. list'[i] = list[i] \ {k}
      BY <1>2, <3>1 DEF DeletionIInv, ListingOK
    <3>4. NothingLost(i)'
      <4>1. ~GivenUp(i)' => ~GivenUp(i)
        BY <1>1 DEF GivenUp
      <4>2. \A r : Waits(i, r) => Waits(i, r)'
        BY <1>1, <3>1, <3>2, <3>3 DEF Waits, InChannel, AtHandler, Looping
      <4> QED BY <1>1, <4>1, <4>2, LossOnly
    <3> QED BY <1>1, <1>2, <3>2, <3>4 DEF FileOK, Looping, Failed
  <2>2. CASE ReceiveDenied
    <3>1. UNCHANGED <<handlerPc, item, deleteAnswer, list, closed>>
      BY <2>2 DEF ReceiveDenied, handler, channel
    <3>2. NothingLost(i)'
      <4>1. ~GivenUp(i)' => ~GivenUp(i)
        BY <1>1 DEF GivenUp
      <4>2. \A r : Waits(i, r) => Waits(i, r)'
        BY <1>1, <3>1 DEF Waits, InChannel, AtHandler, Looping
      <4> QED BY <1>1, <4>1, <4>2, LossOnly
    <3> QED BY <1>1, <1>2, <3>1, <3>2 DEF FileOK, Looping, Failed
  <2>3. CASE ReceiveFailed
    <3>1. Failed' /\ ~Looping'
      BY <2>3 DEF ReceiveFailed, Answer, Failed, Looping
    <3> QED BY <1>1, <1>2, <3>1 DEF FileOK
  <2>4. CASE ListingEnds
    <3>1. /\ handlerPc' = "drain" /\ list[i] = {} /\ lister' = [lister EXCEPT ![i] = "ended"]
          /\ UNCHANGED <<item, deleteAnswer, list>>
      BY <2>4 DEF ListingEnds
    <3>2. lister'[i] = "ended"
      BY <1>2, <3>1 DEF DeletionIInv, ListingOK
    <3>3. NothingLost(i)'
      <4>1. ~GivenUp(i)' => ~GivenUp(i)
        BY <1>1 DEF GivenUp
      <4>2. \A r : Waits(i, r) => Waits(i, r)'
        BY <1>1, <3>1 DEF Waits, InChannel, AtHandler, Looping
      <4> QED BY <1>1, <4>1, <4>2, LossOnly
    <3> QED BY <1>1, <1>2, <3>1, <3>2, <3>3 DEF FileOK, Looping, Failed
  <2> QED BY <2>1, <2>2, <2>3, <2>4
<1> QED
  BY <1>1, <1>3, <1>4, <1>5, <1>6, FileStepSucceeds

\* Nothing of a channel is lost when something is added to it or taken from it.
LEMMA StillInChannel ==
  ASSUME NEW S, NEW s \in Seq(S), NEW x, NEW k \in DOMAIN s
  PROVE  \E m \in DOMAIN Append(s, x) : Append(s, x)[m] = s[k]
  OBVIOUS

LEMMA LastInChannel ==
  ASSUME NEW S, NEW s \in Seq(S), NEW x
  PROVE  \E m \in DOMAIN Append(s, x) : Append(s, x)[m] = x
<1>1. Len(s) + 1 \in DOMAIN Append(s, x) /\ Append(s, x)[Len(s) + 1] = x
  OBVIOUS
<1> QED
  BY <1>1

LEMMA TakenFromChannel ==
  ASSUME NEW S, NEW s \in Seq(S), s # <<>>, NEW k \in DOMAIN s
  PROVE  s[k] = Head(s) \/ \E m \in DOMAIN Tail(s) : Tail(s)[m] = s[k]
<1>1. k \in 1 .. Len(s) /\ Len(s) \in Nat
  OBVIOUS
<1>2. k # 1 => k - 1 \in DOMAIN Tail(s) /\ Tail(s)[k - 1] = s[k]
  BY <1>1
<1>3. s[1] = Head(s)
  OBVIOUS
<1> QED
  BY <1>2, <1>3

LEMMA SendSucceeds == ASSUME SuccessIInv, SendContent PROVE SuccessIInv'
<1>1. /\ handlerPc = "send" /\ handlerPc' = "range"
      /\ UNCHANGED <<has, marked, denied, unlistable, asked, i, deleteAnswer, remover, batch, offer, lister,
                     list, closed>>
      /\ contentCh' = [contentCh EXCEPT ![i] = Append(@, Content)]
  BY DEF SendContent, bucket, policy, listing, removal
<1>2. /\ i \in Index /\ FileOK(i) /\ ~(i > i) /\ i <= i /\ ~(i < i) /\ ~Failed
      /\ DeletionIInv /\ NothingLost(i) /\ Looping /\ asked[i].recursive /\ remover[i] # "ended"
  BY <1>1, AtFile
<1>3. DeletionIInv' /\ deleteAnswer' # "ok"
  BY <1>1, <1>2, SendKeeps DEF DeletionIInv, HandlerOK
<1>4. contentCh[i] \in Seq(Removals) /\ contentCh'[i] = Append(contentCh[i], Content)
  BY <1>1, <1>2 DEF DeletionIInv, ChannelOK
<1>5. \A f \in Index \ {i} : contentCh'[f] = contentCh[f]
  BY <1>1, <1>2 DEF DeletionIInv, ChannelOK
<1>6. NothingLost(i)'
  <2>1. ~GivenUp(i)' => ~GivenUp(i)
    BY <1>1 DEF GivenUp
  <2>2. ASSUME NEW r \in Due(i), r.version = NoVersion, Waits(i, r)
        PROVE  Waits(i, r)'
    <3>1. CASE r \in batch[i]
      BY <1>1, <3>1 DEF Waits
    <3>2. CASE InChannel(i, r)
      <4>1. PICK k \in DOMAIN contentCh[i] : contentCh[i][k] = r
        BY <3>2 DEF InChannel
      <4>2. \E m \in DOMAIN contentCh'[i] : contentCh'[i][m] = r
        BY <1>4, <4>1, StillInChannel
      <4> QED BY <1>1, <4>2 DEF Waits, InChannel
    <3>3. CASE r.key \in list[i]
      BY <1>1, <3>3 DEF Waits, AtHandler, Looping
    <3>4. CASE item = r.key
      <4>1. r = Content
        BY <1>2, <2>2, <3>4 DEF Due, Content
      <4>2. \E m \in DOMAIN contentCh'[i] : contentCh'[i][m] = Content
        BY <1>4, LastInChannel
      <4> QED BY <1>1, <4>1, <4>2 DEF Waits, InChannel
    <3> QED BY <2>2, <3>1, <3>2, <3>3, <3>4 DEF Waits, AtHandler
  <2> QED BY <1>1, <1>2, <2>1, <2>2, LossOnly
<1>7. FileOK(i)'
  BY <1>1, <1>2, <1>6 DEF FileOK, Looping, Failed
<1> QED
  BY <1>1, <1>3, <1>5, <1>7, FileStepSucceeds

LEMMA ErrorsSucceed ==
  ASSUME SuccessIInv, ReceiveError \/ RemoverGone \/ Drained
  PROVE  SuccessIInv'
<1>1. /\ handlerPc \in {"send", "drain"}
      /\ UNCHANGED <<has, marked, denied, unlistable, asked, i, item, lister, list, contentCh, remover, batch>>
  BY DEF ReceiveError, RemoverGone, Drained, bucket, policy, channel, listing, removal
<1>2. /\ i \in Index /\ FileOK(i) /\ ~(i > i) /\ i <= i /\ ~(i < i) /\ ~Failed
      /\ DeletionIInv /\ NothingLost(i) /\ (handlerPc = "send" => Looping /\ remover[i] # "ended")
  BY <1>1, AtFile
<1>3. DeletionIInv'
  BY <1>2, ErrorsKeep
<1>4. deleteAnswer' # "ok"
  BY <1>1, <1>2 DEF ReceiveError, RemoverGone, Drained, AfterError, Answer, DeletionIInv, HandlerOK
<1>5. \A f \in Index \ {i} : closed'[f] = closed[f] /\ offer'[f] = offer[f]
  BY <1>2 DEF ReceiveError, RemoverGone, Drained, CloseContent, channel, removal, DeletionIInv, ChannelOK,
     RemoverOK
<1>6. FileOK(i)'
  <2>1. CASE ReceiveError /\ offer[i] = "denied"
    <3>1. UNCHANGED <<handlerPc, deleteAnswer, closed>> /\ offer'[i] = "none"
      BY <1>2, <2>1 DEF ReceiveError, AfterError, DeletionIInv, RemoverOK, ChannelOK
    <3>2. NothingLost(i)'
      <4>1. ~GivenUp(i)' => ~GivenUp(i)
        BY <1>1, <2>1 DEF GivenUp
      <4>2. \A r : Waits(i, r) => Waits(i, r)'
        BY <1>1, <3>1 DEF Waits, InChannel, AtHandler, Looping
      <4> QED BY <1>1, <4>1, <4>2, LossOnly
    <3> QED BY <1>1, <1>2, <3>1, <3>2 DEF FileOK, Looping, Failed
  <2>2. CASE ReceiveError /\ offer[i] # "denied"
    <3>1. Failed' /\ ~Looping'
      BY <2>2 DEF ReceiveError, AfterError, Answer, Failed, Looping
    <3>2. remover[i] # "ended"
      BY <1>2, <2>2 DEF ReceiveError, FileOK
    <3> QED BY <1>1, <1>2, <3>1, <3>2 DEF FileOK
  <2>3. CASE RemoverGone
    <3>1. remover[i] = "stopped" /\ handlerPc' = "drain" /\ UNCHANGED <<deleteAnswer, offer>>
      BY <2>3 DEF RemoverGone, removal
    <3>2. NothingLost(i)'
      BY <1>1, <3>1 DEF NothingLost, GivenUp
    <3> QED BY <1>1, <1>2, <3>1, <3>2 DEF FileOK, Looping, Failed
  <2>4. CASE Drained
    <3>1. /\ remover[i] \in {"ended", "stopped"} /\ handlerPc = "drain" /\ handlerPc' = "files"
          /\ UNCHANGED <<deleteAnswer, offer, closed>>
      BY <2>4 DEF Drained, ErrorsEnd, removal, channel
    <3>2. NothingLost(i)'
      <4>1. ~GivenUp(i)' => ~GivenUp(i)
        BY <1>1, <3>1 DEF GivenUp
      <4>2. \A r : Waits(i, r) => Waits(i, r)'
        BY <1>1, <3>1 DEF Waits, InChannel, AtHandler, Looping
      <4> QED BY <1>1, <4>1, <4>2, LossOnly
    <3> QED BY <1>1, <1>2, <3>1, <3>2 DEF FileOK, Looping, Failed
  <2> QED BY <2>1, <2>2, <2>3, <2>4
<1> QED
  BY <1>1, <1>3, <1>4, <1>5, <1>6, FileStepSucceeds

-----------------------------------------------------------------------------
(* The remover, and the result.                                              *)

\* A step of the remover of file f.
LEMMA RemoverStepSucceeds ==
  ASSUME SuccessIInv, DeletionIInv', NEW f \in Index, remover[f] = "on",
         UNCHANGED <<policy, handler, listing, closed>>,
         \A k \in Keys : has'[k] \subseteq has[k], marked \subseteq marked',
         \A g \in Index \ {f} :
           /\ contentCh'[g] = contentCh[g] /\ remover'[g] = remover[g]
           /\ batch'[g] = batch[g] /\ offer'[g] = offer[g],
         remover'[f] = "ended" => closed[f] /\ batch'[f] = {} /\ contentCh'[f] = <<>> /\ offer'[f] = "none",
         ~GivenUp(f)' => ~GivenUp(f) /\ \A r \in Due(f) : Waits(f, r) => Met(r)' \/ Waits(f, r)'
  PROVE  SuccessIInv'
<1>1. UNCHANGED <<denied, unlistable, asked, handlerPc, i, version, item, deleteAnswer, lister, list>>
  BY DEF policy, handler, listing
<1>2. Index' = Index /\ DeletionIInv
  BY <1>1, AskedStays DEF SuccessIInv
<1>3. ASSUME NEW g \in Index, g # f PROVE FileOK(g)'
  <2>1. FileOK(g)
    BY DEF SuccessIInv
  <2>2. Failed => Failed'
    BY <1>1 DEF Failed
  <2> QED BY <1>1, <1>2, <1>3, <2>1, <2>2, FileStays
<1>4. FileOK(f)'
  <2>1. FileOK(f)
    BY DEF SuccessIInv
  <2>2. (Looping' <=> Looping) /\ (Failed' <=> Failed)
    BY <1>1 DEF Looping, Failed
  <2>3. NothingLost(f) => NothingLost(f)'
    <3> SUFFICES ASSUME NothingLost(f), OwnVersion(f)', ~GivenUp(f)', NEW r \in Due(f)'
                 PROVE  Met(r)' \/ Waits(f, r)'
      BY DEF NothingLost
    <3>1. OwnVersion(f) /\ ~GivenUp(f) /\ r \in Due(f)
      BY <1>1 DEF OwnVersion, Due
    <3>2. Met(r) \/ Waits(f, r)
      BY <3>1 DEF NothingLost
    <3>3. Met(r) => Met(r)'
      BY <1>1, <1>2, <3>1, DueAre, MetStays DEF DeletionIInv
    <3> QED BY <3>1, <3>2, <3>3
  <2>4. f <= i /\ ~Failed /\ (f < i \/ handlerPc \in {"files", "done"}) => FALSE
    BY <2>1 DEF FileOK
  <2> QED BY <1>1, <2>1, <2>2, <2>3, <2>4 DEF FileOK
<1> QED
  BY <1>1, <1>2, <1>3, <1>4 DEF SuccessIInv

LEMMA TakeSucceeds == ASSUME SuccessIInv, NEW f \in Index, Take(f) PROVE SuccessIInv'
<1>1. /\ UNCHANGED <<has, marked, policy, handler, listing, closed, remover, offer>> /\ contentCh[f] # <<>>
      /\ remover[f] = "on"
      /\ batch' = [batch EXCEPT ![f] = @ \cup {Head(contentCh[f])}]
      /\ contentCh' = [contentCh EXCEPT ![f] = Tail(@)]
  BY DEF Take, bucket
<1>2. DeletionIInv /\ DeletionIInv'
  BY TakeKeeps DEF SuccessIInv
<1>3. /\ contentCh[f] \in Seq(Removals) /\ contentCh'[f] = Tail(contentCh[f])
      /\ batch'[f] = batch[f] \cup {Head(contentCh[f])}
      /\ \A g \in Index \ {f} : contentCh'[g] = contentCh[g] /\ batch'[g] = batch[g]
  BY <1>1, <1>2 DEF DeletionIInv, ChannelOK, RemoverOK
<1>4. ASSUME NEW r, Waits(f, r) PROVE Waits(f, r)'
  <2>1. CASE r \in batch[f]
    BY <1>3, <2>1 DEF Waits
  <2>2. CASE InChannel(f, r)
    <3>1. PICK k \in DOMAIN contentCh[f] : contentCh[f][k] = r
      BY <2>2 DEF InChannel
    <3>2. r = Head(contentCh[f]) \/ \E m \in DOMAIN Tail(contentCh[f]) : Tail(contentCh[f])[m] = r
      BY <1>1, <1>3, <3>1, TakenFromChannel
    <3> QED BY <1>3, <3>2 DEF Waits, InChannel
  <2>3. CASE AtHandler(f, r)
    BY <1>1, <2>3 DEF Waits, AtHandler, Looping, handler, listing
  <2> QED BY <1>4, <2>1, <2>2, <2>3 DEF Waits
<1>5. ~GivenUp(f)' => ~GivenUp(f)
  BY <1>1 DEF GivenUp, policy
<1> QED
  BY <1>1, <1>2, <1>3, <1>4, <1>5, RemoverStepSucceeds

LEMMA RemoveSucceeds ==
  ASSUME SuccessIInv, NEW f \in Index, NEW r \in batch[f], Remove(f, r)
  PROVE  SuccessIInv'
<1>1. /\ UNCHANGED <<policy, handler, listing, contentCh, closed, remover>> /\ remover[f] = "on"
      /\ batch' = [batch EXCEPT ![f] = @ \ {r}]
  BY DEF Remove, channel
<1>2. DeletionIInv /\ DeletionIInv' /\ r.key \in Keys
  BY RemoveKeeps DEF SuccessIInv, DeletionIInv, RemoverOK, AskedFor
<1>3. batch'[f] = batch[f] \ {r} /\ \A g \in Index \ {f} : batch'[g] = batch[g] /\ offer'[g] = offer[g]
  BY <1>1, <1>2 DEF DeletionIInv, RemoverOK, Remove
<1>4. (\A k \in Keys : has'[k] \subseteq has[k]) /\ marked \subseteq marked'
  BY <1>2 DEF DeletionIInv, PolicyOK, Remove, bucket
<1>5. ~GivenUp(f)' => ~GivenUp(f) /\ Met(r)'
  <2>1. CASE r.key \notin denied /\ UNCHANGED offer
             /\ IF r.version = NoVersion
                  THEN marked' = marked \cup {r.key} /\ UNCHANGED has
                  ELSE has' = [has EXCEPT ![r.key] = @ \ {r.version}] /\ UNCHANGED marked
    <3>1. Met(r)'
      BY <1>1, <1>2, <2>1 DEF Met, Visible, DeletionIInv, PolicyOK, policy
    <3>2. ~GivenUp(f)' => ~GivenUp(f)
      BY <1>1, <2>1 DEF GivenUp, policy
    <3> QED BY <3>1, <3>2
  <2>2. CASE offer[f] = "none" /\ offer' = [offer EXCEPT ![f] = IF r.key \in denied THEN "denied" ELSE "failed"]
    <3>1. offer'[f] = IF r.key \in denied THEN "denied" ELSE "failed"
      BY <1>2, <2>2 DEF DeletionIInv, RemoverOK
    <3>2. ~GivenUp(f)' => r.key \in denied /\ ~GivenUp(f)
      BY <1>1, <2>2, <3>1 DEF GivenUp, policy
    <3> QED BY <1>1, <3>2 DEF Met, policy
  <2> QED BY <2>1, <2>2 DEF Remove
<1>6. \A d : Waits(f, d) => d = r \/ Waits(f, d)'
  BY <1>1, <1>3 DEF Waits, InChannel, AtHandler, Looping, handler, listing
<1> QED
  BY <1>1, <1>2, <1>3, <1>4, <1>5, <1>6, RemoverStepSucceeds

LEMMA EndSucceeds ==
  ASSUME SuccessIInv, NEW f \in Index, RemoverEnds(f) \/ RemoverStops(f)
  PROVE  SuccessIInv'
<1>1. /\ UNCHANGED <<has, marked, policy, handler, listing, contentCh, closed, batch, offer>>
      /\ remover[f] = "on"
  BY DEF RemoverEnds, RemoverStops, channel, bucket
<1>2. DeletionIInv /\ DeletionIInv'
  BY RemoverEndKeeps DEF SuccessIInv
<1>3. /\ \A g \in Index \ {f} : remover'[g] = remover[g]
      /\ remover'[f] = "ended" => closed[f] /\ batch[f] = {} /\ contentCh[f] = <<>> /\ offer[f] = "none"
  BY <1>2 DEF RemoverEnds, RemoverStops, DeletionIInv, RemoverOK
<1>4. ~GivenUp(f)' => ~GivenUp(f)
  BY <1>1 DEF GivenUp, policy
<1>5. \A r : Waits(f, r) => Waits(f, r)'
  BY <1>1 DEF Waits, InChannel, AtHandler, Looping, handler, listing
<1> QED
  BY <1>1, <1>2, <1>3, <1>4, <1>5, RemoverStepSucceeds

LEMMA StepSucceeds == SuccessIInv /\ [DeletionNext]_deletionVars => SuccessIInv'
<1> SUFFICES ASSUME SuccessIInv, [DeletionNext]_deletionVars PROVE SuccessIInv'
  OBVIOUS
<1>1. CASE Handler
  BY <1>1, NextFileSucceeds, AllDeletedSucceeds, ReceivingSucceeds, SendSucceeds, ErrorsSucceed DEF Handler
<1>2. ASSUME NEW f \in Index, Remover(f) \/ RemoverStops(f) PROVE SuccessIInv'
  BY <1>2, TakeSucceeds, RemoveSucceeds, EndSucceeds DEF Remover
<1>3. CASE UNCHANGED deletionVars
  <2>1. UNCHANGED <<has, marked, denied, unlistable, asked, handlerPc, i, version, item, deleteAnswer,
                    lister, list, contentCh, closed, remover, batch, offer>>
    BY <1>3 DEF deletionVars, bucket, policy, handler, listing, channel, removal
  <2>2. DeletionIInv' /\ DeletionIInv /\ Index' = Index
    BY <1>3, <2>1, StepKeepsDeletion, AskedStays DEF SuccessIInv
  <2>3. (\A k \in Keys : has'[k] \subseteq has[k]) /\ marked \subseteq marked' /\ (Failed => Failed')
    BY <2>1 DEF Failed
  <2>4. \A f \in Index : FileOK(f)'
    BY <2>1, <2>2, <2>3, FileStays DEF SuccessIInv
  <2> QED BY <2>1, <2>2, <2>4 DEF SuccessIInv
<1> QED
  BY <1>1, <1>2, <1>3 DEF DeletionNext

LEMMA InductiveSuccess == DeletionSpec => []SuccessIInv
<1> QED
  BY SuccessInit, StepSucceeds, PTL DEF DeletionSpec

\* Theorem: a request that succeeds has deleted what it names, except for what the
\* user may not list or delete and for what a remover that stopped has left, and
\* leaves no lister and no remover behind.
THEOREM SuccessMeansDeleted == DeletionSpec => []SuccessDeletes
<1>1. SuccessIInv => SuccessDeletes
  <2> SUFFICES ASSUME SuccessIInv, deleteAnswer = "ok", NEW f \in Index
               PROVE  /\ OwnVersion(f) => Gone(asked[f]) \/ Ignored(f)
                      /\ remover[f] # "stopped" => lister[f] # "on" /\ remover[f] # "on"
    BY DEF SuccessDeletes
  <2>1. handlerPc = "done" /\ ~Looping /\ ~Failed /\ f <= i /\ FileOK(f) /\ DeletionIInv
    <3>1. f <= Len(asked) /\ i = Len(asked)
      BY IndexNat DEF SuccessIInv
    <3> QED BY <3>1 DEF SuccessIInv, DeletionIInv, HandlerOK, Looping, Failed
  <2>2. remover[f] \in {"ended", "stopped"} /\ (remover[f] = "stopped" \/ lister[f] # "on") /\ NothingLost(f)
    BY <2>1 DEF FileOK
  <2>3. ASSUME OwnVersion(f), ~Ignored(f) PROVE Gone(asked[f])
    <3>1. /\ remover[f] = "ended" /\ batch[f] = {} /\ contentCh[f] = <<>> /\ offer[f] = "none"
      BY <2>1, <2>2, <2>3 DEF Ignored, FileOK
    <3>2. ~GivenUp(f)
      BY <2>3, <3>1 DEF Ignored, GivenUp
    <3>3. DOMAIN contentCh[f] = {}
      BY <3>1
    <3>4. \A r : ~Waits(f, r)
      BY <2>1, <3>1, <3>3 DEF Waits, InChannel, AtHandler
    <3>5. \A r \in Due(f) : Met(r)
      BY <2>2, <2>3, <3>2, <3>4 DEF NothingLost
    <3>6. CASE asked[f].recursive
      <4>1. ASSUME NEW k \in Below[asked[f].path] PROVE ~Visible(k) \/ k \in denied
        <5>1. [key |-> k, version |-> NoVersion] \in Due(f)
          BY <3>6 DEF Due
        <5>2. Met([key |-> k, version |-> NoVersion])
          BY <3>5, <5>1
        <5> QED BY <5>2 DEF Met
      <4> QED BY <3>6, <4>1 DEF Gone
    <3>7. CASE ~asked[f].recursive
      <4>1. Met([key |-> asked[f].path, version |-> asked[f].version])
        BY <3>5, <3>7 DEF Due
      <4> QED BY <3>7, <4>1 DEF Gone, Met
    <3> QED BY <3>6, <3>7
  <2> QED BY <2>2, <2>3
<1> QED
  BY <1>1, InductiveSuccess, PTL
=============================================================================
