---------------------------- MODULE WsStreamProofs ----------------------------
(***************************************************************************)
(* Proofs about WsStream, for every set of requests, every transport       *)
(* capacity and every number of records: the type invariant, the order in  *)
(* which records are forwarded, the truth of the normal close frame, and   *)
(* that the session implements StreamContract.                             *)
(***************************************************************************)
EXTENDS WsStream, SequenceTheorems, TLAPS

\* The definitions every step needs.
USE DEF connVars, streamVars, vars

-----------------------------------------------------------------------------
(* The inductive invariant. *)

\* Where the session's goroutine may be in each state of the body.
Control ==
  /\ hpc \in {"serve", "accepted"} => step = "call" /\ closeCode = "none"
                                    /\ reader = "none"
  /\ step = "call" => taken = <<>> /\ pending = <<>> /\ text = <<>> /\ met = "nil"
  /\ step = "select" => pending = <<>> /\ met = "nil"
  /\ step = "write" => pending # <<>> /\ met = "nil"
  /\ hpc \in {"closing", "deferred"} => step = "returned"
  /\ step = "returned" => hpc \in {"closing", "deferred", "done"}
                          /\ result \in Results
                          /\ met = result
  /\ step = "returned" /\ result = "nil" => pending = <<>>
  /\ offer.kind = "records" => offer.ids # <<>>

\* A handler's close frame belongs to a session that is over.
HandlerCloseIsFinal ==
  closeCode \in {"normal", "policy", "internal"} => hpc \in {"deferred", "done"}

IInv ==
  /\ TypeOK
  /\ ForwardedInOrder
  /\ Control
  /\ HandlerCloseIsFinal
  /\ ClosesTruthfully
-----------------------------------------------------------------------------
(* Lemmas. *)

\* Whatever the producer sends is of the channel's type, and a notification
\* has at least one event.
OfferType ==
  [kind : {"none", "records", "filtered", "error", "timeout"}, ids : Seq(Nat)]

LEMMA OffersTyped ==
  ASSUME made \in Nat, NEW o \in Offers
  PROVE  o \in OfferType /\ (o.kind = "records" => o.ids # <<>>)
<1>1. CASE o \in RecordsFrom(made)
  <2>1. PICK k \in 1..(IF api = "watch" THEN MaxBatch ELSE 1) :
               o = [kind |-> "records", ids |-> [i \in 1..k |-> made + i]]
    BY <1>1 DEF RecordsFrom
  <2>2. k \in Nat /\ k >= 1
    BY <2>1, BoundsAssumption
  <2>3. \A i \in 1..k : made + i \in Nat
    BY <2>2
  <2>4. [i \in 1..k |-> made + i] \in Seq(Nat)
    BY <2>2, <2>3, IsASeq
  <2>5. [i \in 1..k |-> made + i] # <<>>
    <3>1. 1 \in DOMAIN [i \in 1..k |-> made + i]
      BY <2>2
    <3>2. 1 \notin DOMAIN <<>>
      OBVIOUS
    <3> QED
      BY <3>1, <3>2
  <2> QED
    BY <2>1, <2>4, <2>5 DEF OfferType
<1>2. CASE o \notin RecordsFrom(made)
  <2>1. PICK k \in {"filtered", "error", "timeout"} :
               o = [kind |-> k, ids |-> <<>>]
    BY <1>2 DEF Offers
  <2>2. <<>> \in Seq(Nat)
    OBVIOUS
  <2> QED
    BY <2>1, <2>2 DEF OfferType
<1> QED
  BY <1>1, <1>2

\* The case the switch takes is one of its cases.
LEMMA DispatchIsRoute ==
  ASSUME NEW path, Dispatch(path) # NoApi
  PROVE  Dispatch(path) \in Apis
<1> DEFINE hits == MatchesOf(path)
<1>1. hits # {} /\ hits \subseteq 1..5
  BY DEF Dispatch, MatchesOf, Routes
<1>2. PICK i \in hits : \A j \in hits : i <= j
  BY <1>1, SMT DEF MatchesOf, Routes, HasPrefix
<1>3. (CHOOSE k \in hits : \A j \in hits : k <= j) \in hits
  BY <1>2
<1>4. hits \subseteq 1..Len(Routes)
  BY DEF MatchesOf
<1> QED
  BY <1>1, <1>3, <1>4 DEF Dispatch, Apis

\* Moving the head of what is pending to the end of what is written leaves
\* their concatenation as it was.
LEMMA MoveHead ==
  ASSUME NEW t \in Seq(Nat), NEW p \in Seq(Nat), p # <<>>
  PROVE  /\ Append(t, Head(p)) \o Tail(p) = t \o p
         /\ Append(t, Head(p)) \in Seq(Nat)
         /\ Tail(p) \in Seq(Nat)
<1>1. /\ Head(p) \in Nat
      /\ Tail(p) \in Seq(Nat)
      /\ <<Head(p)>> \o Tail(p) = p
  <2>1. /\ Len(p) \in Nat /\ Len(p) >= 1
        /\ Head(p) = p[1]
    BY EmptySeq, LenProperties
  <2>2. p = SubSeq(p, 1, Len(p))
    BY SubSeqFull
  <2>3. SubSeq(p, 1, Len(p)) = <<p[1]>> \o SubSeq(p, 2, Len(p))
    BY <2>1, SubSeqRecursiveFirst, 1 + 1 = 2
  <2> QED
    BY <2>1, <2>2, <2>3, HeadTailProperties, TailIsSubSeq
<1>2. /\ Append(t, Head(p)) = t \o <<Head(p)>>
      /\ Append(t, Head(p)) \in Seq(Nat)
  BY <1>1, AppendIsConcat, AppendProperties
<1>3. <<Head(p)>> \in Seq(Nat)
  BY <1>1
<1>4. (t \o <<Head(p)>>) \o Tail(p) = t \o (<<Head(p)>> \o Tail(p))
  BY <1>1, <1>3, ConcatAssociative
<1> QED
  BY <1>1, <1>2, <1>4
-----------------------------------------------------------------------------
(* The invariant holds initially and is preserved by every step. *)

LEMMA InitIInv == Init => IInv
<1> SUFFICES ASSUME Init PROVE IInv
  OBVIOUS
<1>1. /\ canceled \in BOOLEAN /\ closed \in BOOLEAN
      /\ doneChan \in BOOLEAN
  BY DEF Init, ConnInit
<1>2. TypeOK
  <2>1. unread \in 0..WireCap /\ made \in Nat
    BY WireCapAssumption DEF Init, ConnInit
  <2>2. text \in Seq(Nat) /\ taken \in Seq(Nat) /\ pending \in Seq(Nat)
    BY DEF Init, ConnInit
  <2>3. offer \in OfferType
    BY DEF Init, OfferType, NoOffer
  <2> QED
    BY <1>1, <2>1, <2>2, <2>3
       DEF Init, ConnInit, TypeOK, ConnTypeOK, NoApi, OfferType, Results
<1>3. ForwardedInOrder
  <2>1. <<>> \in Seq(Nat)
    OBVIOUS
  <2> QED
    BY <2>1, ConcatEmptySeq DEF Init, ConnInit, ForwardedInOrder
<1>4. Control /\ HandlerCloseIsFinal /\ ClosesTruthfully
  BY DEF Init, ConnInit, Control, HandlerCloseIsFinal, ClosesTruthfully, NoOffer
<1> QED
  BY <1>2, <1>3, <1>4 DEF IInv

\* Steps of the request, of the reader and of the session's last statements.
LEMMA SessionKeepsIInv ==
  ASSUME IInv, UNCHANGED streamVars, ServeWS \/ SessionStep
  PROVE  IInv'
<1> USE DEF IInv, TypeOK, ConnTypeOK, ForwardedInOrder, Control,
            HandlerCloseIsFinal, ClosesTruthfully, Results, Codes, NoApi
<1>1. CASE ServeWS
  <2> PICK path \in Requests :
         /\ request' = path
         /\ \/ Refuse
            \/ CloseAtOnce
            \/ Dispatch(path) # NoApi /\ Start(Dispatch(path))
    BY <1>1 DEF ServeWS
  <2>1. hpc = "serve" /\ UNCHANGED <<result, reader, canceled, peer>>
    BY <1>1 DEF ServeWS
  <2>2. CASE Refuse
    BY <2>1, <2>2 DEF Refuse
  <2>3. CASE CloseAtOnce
    BY <2>1, <2>3, WireCapAssumption DEF CloseAtOnce, WriteClose, WriteGoes
  <2>4. CASE Dispatch(path) # NoApi /\ Start(Dispatch(path))
    <3>1. Dispatch(path) \in Apis
      BY <2>4, DispatchIsRoute
    <3> QED
      BY <2>1, <2>4, <3>1 DEF Start
  <2> QED
    BY <2>2, <2>3, <2>4
<1>2. CASE StartReader
  BY <1>2 DEF StartReader
<1>3. CASE SendCloseMessage
  <2>1. unread' \in 0..WireCap
    BY <1>3, WireCapAssumption DEF SendCloseMessage, WriteClose, WriteGoes
  <2>2. /\ text' = text
        /\ closeCode' \in {closeCode, CloseCodeOf(result)}
        /\ hpc = "closing" /\ hpc' = "deferred"
        /\ UNCHANGED <<request, api, result, reader, canceled, peer, closed>>
    BY <1>3 DEF SendCloseMessage, WriteClose
  <2>3. result = met /\ met \in Results
    BY <2>2
  <2>4. CloseCodeOf(met) = CASE met = "timeout" -> "policy"
                              [] met = "error"   -> "internal"
                              [] OTHER           -> "normal"
    BY DEF CloseCodeOf
  <2> QED
    BY <2>1, <2>2, <2>3, <2>4
<1>4. CASE CloseConn
  BY <1>4 DEF CloseConn
<1> QED
  BY <1>1, <1>2, <1>3, <1>4 DEF SessionStep

LEMMA EnvironmentKeepsIInv ==
  ASSUME IInv, UNCHANGED streamVars, ReadFails \/ PeerStep
  PROVE  IInv'
<1> USE DEF IInv, TypeOK, ConnTypeOK, ForwardedInOrder, Control,
            HandlerCloseIsFinal, ClosesTruthfully, Results, Codes, NoApi
<1>1. CASE ReadFails
  <2>1. unread' \in 0..WireCap
    BY <1>1, WireCapAssumption DEF ReadFails, WriteClose, WriteGoes
  <2>2. /\ text' = text
        /\ closeCode' \in {closeCode, "echo"}
        /\ reader = "reading" /\ reader' = "done"
        /\ canceled' = TRUE
        /\ UNCHANGED <<hpc, request, api, result, peer, closed>>
    BY <1>1 DEF ReadFails, EndReader, WriteClose
  <2> QED
    BY <2>1, <2>2
<1>2. CASE PeerRead
  BY <1>2, WireCapAssumption DEF PeerRead
<1>3. CASE PeerLeaves
  BY <1>3 DEF PeerLeaves
<1> QED
  BY <1>1, <1>2, <1>3 DEF PeerStep

LEMMA ProducerKeepsIInv ==
  ASSUME IInv, ProducerOffers \/ ProducerEnds \/ ProducerReleased
  PROVE  IInv'
<1> USE DEF IInv, TypeOK, ConnTypeOK, ForwardedInOrder, Control,
            HandlerCloseIsFinal, ClosesTruthfully, Results, Codes, NoApi
<1>1. CASE ProducerOffers
  <2>1. offer' \in OfferType /\ (offer'.kind = "records" => offer'.ids # <<>>)
    BY <1>1, OffersTyped DEF ProducerOffers
  <2>2. made' \in Nat
    BY <1>1, <2>1, LenProperties DEF ProducerOffers, OfferType
  <2> QED
    BY <1>1, <2>1, <2>2 DEF ProducerOffers, OfferType
<1>2. CASE ProducerEnds
  BY <1>2 DEF ProducerEnds
<1>3. CASE ProducerReleased
  BY <1>3 DEF ProducerReleased
<1> QED
  BY <1>1, <1>2, <1>3

LEMMA BodyKeepsIInv ==
  ASSUME IInv, Body
  PROVE  IInv'
<1> USE DEF IInv, TypeOK, ConnTypeOK, ForwardedInOrder, Control,
            HandlerCloseIsFinal, ClosesTruthfully, Results, Codes, NoApi, Return, ReturnBody
<1>1. CASE Subscribe
  BY <1>1 DEF Subscribe, Streams
<1>2. CASE CallHealthInfo
  <2>1. <<1>> \in Seq(Nat) /\ <<1>> # <<>> /\ <<>> \o <<1>> = <<1>>
    BY ConcatEmptySeq
  <2>2. CASE step' = "write"
    <3>1. /\ taken' = <<1>> /\ pending' = <<1>>
          /\ hpc = "run" /\ step = "call"
          /\ UNCHANGED <<hpc, result, met>>
          /\ UNCHANGED <<request, api, reader, canceled, peer, closed, text,
                         closeCode, unread, prod, offer, made, doneChan>>
      BY <1>2, <2>2 DEF CallHealthInfo
    <3>2. text' = <<>>
      BY <3>1
    <3> QED
      BY <2>1, <2>2, <3>1, <3>2
  <2>3. CASE step' # "write"
    BY <1>2, <2>3 DEF CallHealthInfo
  <2> QED
    BY <2>2, <2>3
<1>3. CASE SelectDone
  BY <1>3 DEF SelectDone
<1>4. CASE SelectClosed
  BY <1>4 DEF SelectClosed
<1>5. CASE SelectItem
  <2>1. CASE TakeRecords(offer)
    <3>1. text = taken
      BY <1>5, ConcatEmptySeq DEF SelectItem
    <3>2. taken' = text' \o pending' /\ taken' \in Seq(Nat)
      BY <1>5, <2>1, <3>1, ConcatProperties DEF SelectItem, TakeRecords
    <3>3. pending' # <<>>
      BY <2>1 DEF TakeRecords
    <3> QED
      BY <1>5, <2>1, <3>2, <3>3 DEF SelectItem, TakeRecords
  <2>2. CASE DropFiltered(offer)
    BY <1>5, <2>2 DEF SelectItem, DropFiltered
  <2>3. CASE TakeError(offer)
    BY <1>5, <2>3 DEF SelectItem, TakeError
  <2> QED
    BY <1>5, <2>1, <2>2, <2>3 DEF SelectItem
<1>6. CASE WriteRecord
  <2>1. /\ text' \o pending' = text \o pending
        /\ text' \in Seq(Nat)
        /\ pending' \in Seq(Nat)
    BY <1>6, MoveHead DEF WriteRecord, WriteText
  <2>2. unread' \in 0..WireCap
    BY <1>6, WireCapAssumption DEF WriteRecord, WriteText, WriteGoes
  <2>3. /\ hpc = "run" /\ step = "write"
        /\ UNCHANGED <<closeCode, request, api, reader, canceled, peer, closed,
                       prod, offer, made, doneChan, taken>>
    BY <1>6 DEF WriteRecord, WriteText
  <2>4. CASE pending' # <<>>
    <3>1. UNCHANGED <<hpc, result, met, step>>
      BY <1>6, <2>4 DEF WriteRecord, AfterWrite
    <3> QED
      BY <2>1, <2>2, <2>3, <2>4, <3>1
  <2>5. CASE pending' = <<>> /\ api = "health-info"
    <3>1. hpc' = "closing" /\ result' = "nil" /\ step' = "returned" /\ met' = met
      BY <1>6, <2>5 DEF WriteRecord, AfterWrite
    <3> QED
      BY <2>1, <2>2, <2>3, <2>5, <3>1
  <2>6. CASE pending' = <<>> /\ api # "health-info"
    <3>1. step' = "select" /\ UNCHANGED <<hpc, result, met>>
      BY <1>6, <2>6 DEF WriteRecord, AfterWrite
    <3> QED
      BY <2>1, <2>2, <2>3, <2>6, <3>1
  <2> QED
    BY <2>4, <2>5, <2>6
<1>7. CASE WriteRecordFails
  BY <1>7 DEF WriteRecordFails
<1> QED
  BY <1>1, <1>2, <1>3, <1>4, <1>5, <1>6, <1>7 DEF Body

LEMMA StutterKeepsIInv ==
  ASSUME IInv, UNCHANGED vars
  PROVE  IInv'
BY DEF IInv, TypeOK, ConnTypeOK, ForwardedInOrder, Control,
       HandlerCloseIsFinal, ClosesTruthfully

LEMMA StepKeepsIInv == IInv /\ [Next]_vars => IInv'
<1> SUFFICES ASSUME IInv, [Next]_vars PROVE IInv'
  OBVIOUS
<1>1. CASE UNCHANGED vars
  BY <1>1, StutterKeepsIInv
<1>2. CASE UNCHANGED streamVars /\ (ServeWS \/ SessionStep)
  BY <1>2, SessionKeepsIInv
<1>3. CASE UNCHANGED streamVars /\ (ReadFails \/ PeerStep)
  BY <1>3, EnvironmentKeepsIInv
<1>4. CASE ProducerOffers \/ ProducerEnds \/ ProducerReleased
  BY <1>4, ProducerKeepsIInv
<1>5. CASE Body
  BY <1>5, BodyKeepsIInv
<1> QED
  BY <1>1, <1>2, <1>3, <1>4, <1>5 DEF Next, Handler

-----------------------------------------------------------------------------
(* Theorems. *)

\* The inductive invariant holds in every reachable state.
THEOREM Inductive == Spec => []IInv
<1>1. Init => IInv
  BY InitIInv
<1>2. IInv /\ [Next]_vars => IInv'
  BY StepKeepsIInv
<1> QED
  BY <1>1, <1>2, PTL DEF Spec

\* Every variable of a session has its type, and the transport is never over
\* its capacity.
THEOREM TypeCorrect == Spec => []TypeOK
BY Inductive, PTL DEF IInv

\* The records a session of any length received are those it wrote followed by
\* those still pending: none is lost, repeated or overtaken.
THEOREM InOrder == Spec => []ForwardedInOrder
BY Inductive, PTL DEF IInv

\* A session's close frame names what its body met.
THEOREM Truthful == Spec => []ClosesTruthfully
BY Inductive, PTL DEF IInv
-----------------------------------------------------------------------------
(* The session implements the contract: each step hands over a batch,      *)
(* forwards a record, closes, or leaves the contract's variables alone.    *)

\* Extending a sequence leaves it a prefix of the result.
LEMMA ConcatIsExtension ==
  ASSUME NEW s \in Seq(Nat), NEW t \in Seq(Nat)
  PROVE  Len(s \o t) >= Len(s) /\ SubSeq(s \o t, 1, Len(s)) = s
<1>1. Len(s \o t) = Len(s) + Len(t) /\ Len(s) \in Nat /\ Len(t) \in Nat
  BY ConcatProperties, LenProperties
<1>2. SubSeq(s, 1, Len(s)) = s
  BY SubSeqFull
<1>3. CASE Len(s) = 0
  <2>1. s = <<>>
    BY <1>3, EmptySeq
  <2> QED
    BY <1>1, <1>3, <2>1, SubSeqEmpty
<1>4. CASE Len(s) # 0
  BY <1>1, <1>2, <1>4, SubSeqOfConcat1
<1> QED
  BY <1>1, <1>3, <1>4

\* The next record to forward is the first one pending.
LEMMA NextIsHead ==
  ASSUME NEW s \in Seq(Nat), NEW p \in Seq(Nat), p # <<>>
  PROVE  Len(s) < Len(s \o p) /\ (s \o p)[Len(s) + 1] = Head(p)
<1>1. Len(s) \in Nat /\ Len(p) \in Nat /\ Len(p) > 0
  BY LenProperties, EmptySeq
<1>2. /\ Len(s \o p) = Len(s) + Len(p)
      /\ \A i \in 1 .. Len(s) + Len(p) :
           (s \o p)[i] = IF i <= Len(s) THEN s[i] ELSE p[i - Len(s)]
  BY ConcatProperties
<1>3. (s \o p)[Len(s) + 1] = p[1]
  BY <1>1, <1>2
<1> QED
  BY <1>1, <1>2, <1>3

LEMMA StepRefines ==
  ASSUME IInv, [Next]_vars
  PROVE  [Contract!Next]_(Contract!vars)
<1> USE DEF IInv, TypeOK, ForwardedInOrder, Control, Contract!vars
<1>1. CASE UNCHANGED <<taken, text, closeCode>>
  BY <1>1
<1>2. CASE ServeWS /\ UNCHANGED streamVars
  <2>1. closeCode = "none" /\ text = taken
    BY <1>2 DEF ServeWS
  <2>2. CASE CloseAtOnce
    BY <1>2, <2>1, <2>2
       DEF CloseAtOnce, WriteClose, Contract!Next, Contract!CloseNormal
  <2>3. CASE ~CloseAtOnce
    BY <1>2, <2>3 DEF ServeWS, Refuse, Start
  <2> QED
    BY <2>2, <2>3
<1>3. CASE SendCloseMessage /\ UNCHANGED streamVars
  <2>1. CASE WriteClose(CloseCodeOf(result))
    <3>1. closeCode = "none" /\ closeCode' = CloseCodeOf(result)
          /\ UNCHANGED <<taken, text>>
      BY <1>3, <2>1 DEF WriteClose, WriteGoes
    <3>2. result \in Results /\ (result = "nil" => pending = <<>>)
      BY <1>3 DEF SendCloseMessage
    <3>3. CASE result = "nil"
      <4>1. text = taken
        BY <3>2, <3>3, ConcatEmptySeq
      <4>2. closeCode' = "normal"
        BY <3>1, <3>3 DEF CloseCodeOf
      <4> QED
        BY <3>1, <4>1, <4>2 DEF Contract!Next, Contract!CloseNormal
    <3>4. CASE result # "nil"
      <4>1. closeCode' \in {"policy", "internal"}
        BY <3>1, <3>2, <3>4 DEF CloseCodeOf, Results
      <4> QED
        BY <3>1, <4>1 DEF Contract!Next, Contract!CloseEarly
    <3> QED
      BY <3>3, <3>4
  <2>2. CASE ~WriteClose(CloseCodeOf(result))
    BY <1>3, <2>2 DEF SendCloseMessage
  <2> QED
    BY <2>1, <2>2
<1>4. CASE ReadFails /\ UNCHANGED streamVars
  <2>1. CASE WriteClose("echo")
    BY <1>4, <2>1 DEF WriteClose, WriteGoes, Contract!Next, Contract!CloseEarly
  <2>2. CASE ~WriteClose("echo")
    BY <1>4, <2>2 DEF ReadFails
  <2> QED
    BY <2>1, <2>2
<1>5. CASE CallHealthInfo
  <2>1. taken = <<>> /\ text = <<>> /\ UNCHANGED <<text, closeCode>>
    BY <1>5 DEF CallHealthInfo
  <2>2. CASE taken' = <<1>>
    <3>1. taken' = taken \o <<1>> /\ <<1>> \in Seq(Nat)
      BY <2>1, <2>2
    <3> QED
      BY <2>1, <3>1, ConcatIsExtension DEF Contract!Next, Contract!HandOver
  <2>3. CASE taken' # <<1>>
    BY <1>5, <2>3 DEF CallHealthInfo
  <2> QED
    BY <2>2, <2>3
<1>6. CASE SelectItem
  <2>1. text = taken /\ UNCHANGED <<text, closeCode>>
    BY <1>6, ConcatEmptySeq DEF SelectItem
  <2>2. CASE TakeRecords(offer)
    <3>1. taken' = taken \o offer.ids /\ offer.ids \in Seq(Nat)
      BY <2>2 DEF TakeRecords
    <3> QED
      BY <2>1, <3>1, ConcatIsExtension DEF Contract!Next, Contract!HandOver
  <2>3. CASE ~TakeRecords(offer)
    BY <1>6, <2>1, <2>3 DEF SelectItem, DropFiltered, TakeError
  <2> QED
    BY <2>2, <2>3
<1>7. CASE WriteRecord
  <2>1. /\ pending # <<>> /\ closeCode = "none"
        /\ text' = Append(text, Head(pending))
        /\ UNCHANGED <<taken, closeCode>>
    BY <1>7 DEF WriteRecord, WriteText, WriteGoes
  <2>2. Len(text) < Len(taken) /\ taken[Len(text) + 1] = Head(pending)
    BY <2>1, NextIsHead
  <2> QED
    BY <2>1, <2>2 DEF Contract!Next, Contract!Forward
<1>8. QED
  BY <1>1, <1>2, <1>3, <1>4, <1>5, <1>6, <1>7
     DEF Next, Handler, Body, SessionStep, PeerStep, StartReader, CloseConn,
         PeerRead, PeerLeaves, Subscribe, SelectDone, SelectClosed,
         WriteRecordFails, ProducerOffers, ProducerEnds, ProducerReleased

\* A session keeps the promise of StreamContract: records arrive in order and
\* once, nothing follows the close frame, and a normal close frame means that
\* nothing handed over is missing.
THEOREM ImplementsContract == Spec => ContractSpec
<1>1. Init => Contract!Init
  BY DEF Init, ConnInit, Contract!Init
<1>2. IInv /\ [Next]_vars => [Contract!Next]_(Contract!vars)
  BY StepRefines
<1> QED
  BY <1>1, <1>2, Inductive, PTL DEF Spec, ContractSpec, Contract!Spec
=============================================================================
