------------------------------ MODULE WsHealProofs ------------------------------
(***************************************************************************)
(* Proofs about WsHeal, for any items, any number of answers and every     *)
(* transport capacity: the close frame of a heal names what became of it,  *)
(* whatever its browser does meanwhile; each status sent agrees with       *)
(* itself and with the ones before, and the last one is complete.          *)
(***************************************************************************)
EXTENDS WsHeal, SequenceTheorems, TLAPS

USE DEF connVars, healVars, vars

-----------------------------------------------------------------------------
(* The inductive invariant. *)

Summaries == {"none", "running", "finished", "stopped"}

\* The part of TypeOK the proof needs: where the session is and how it ends.
ControlTypeOK ==
  /\ hpc \in {"serve", "accepted", "run", "closing", "deferred", "done"}
  /\ step \in {"start", "select", "poll", "update", "send", "judge", "returned"}
  /\ closeCode \in Codes \cup {"none"}
  /\ unread \in 0..WireCap
  /\ summary \in Summaries
  /\ met \in Results
  /\ result \in Results \cup {"none"}

\* The body goes on only as long as it met no error and the heal, as the answer
\* before told it, still runs; it returns what it met.
BodyControl ==
  /\ hpc \in {"serve", "accepted", "run"} => step # "returned"
  /\ hpc \in {"serve", "accepted"} => step = "start" /\ closeCode = "none" /\ reader = "none"
  /\ step = "start" => summary = "none"
  /\ step \in {"select", "poll"} => summary \in {"none", "running"}
  /\ step # "returned" => met = "nil" /\ closeCode \in {"none", "normal", "echo"}
  /\ hpc \in {"closing", "deferred"} => step = "returned"
  /\ step = "returned" =>
       /\ hpc \in {"closing", "deferred", "done"}
       /\ result = met
       /\ summary = "stopped" => met # "nil"
       /\ summary = "finished" => met = "nil"

\* A close frame of the session's own is its last message; where the body never ran
\* it is the one closeWsConn writes.
CloseIsLast ==
  closeCode \in {"normal", "policy", "internal"} =>
    hpc \in {"deferred", "done"} /\ (step # "returned" => step = "start")

IInv ==
  /\ ControlTypeOK
  /\ BodyControl
  /\ CloseIsLast
  /\ HealClosesTruthfully

-----------------------------------------------------------------------------
LEMMA InitIInv == Init => IInv
  BY WireCapAssumption
     DEF Init, ConnInit, IInv, ControlTypeOK, BodyControl, CloseIsLast, HealClosesTruthfully,
         Codes, Results, Summaries

\* The request, the start of the reader and the last statements of the session.
LEMMA SessionKeeps ==
  ASSUME IInv, UNCHANGED healVars, ServeWS \/ SessionStep
  PROVE  IInv'
<1> USE DEF IInv, ControlTypeOK, BodyControl, CloseIsLast, HealClosesTruthfully,
            Results, Codes, Summaries
<1>1. CASE ServeWS
  <2>1. hpc = "serve" /\ UNCHANGED <<result, reader, healVars>>
    BY <1>1 DEF ServeWS
  <2>2. CASE hpc' = "done" /\ UNCHANGED <<closeCode, unread>>
    BY <2>1, <2>2
  <2>3. CASE hpc' = "done" /\ closeCode' = "normal" /\ unread' = unread + 1 /\ unread < WireCap
    BY <2>1, <2>3, WireCapAssumption
  <2>4. CASE hpc' = "accepted" /\ UNCHANGED <<closeCode, unread>>
    BY <2>1, <2>4
  <2> QED
    BY <1>1, <2>2, <2>3, <2>4 DEF ServeWS, Refuse, CloseAtOnce, WriteClose, WriteGoes, Start
<1>2. CASE StartReader
  BY <1>2 DEF StartReader
<1>3. CASE SendCloseMessage
  <2>1. hpc = "closing" /\ hpc' = "deferred" /\ UNCHANGED result /\ result = met /\ step = "returned"
    BY <1>3 DEF SendCloseMessage
  <2>2. CASE UNCHANGED <<closeCode, unread>>
    BY <2>1, <2>2
  <2>3. CASE WriteClose(CloseCodeOf(result))
    <3>1. closeCode' = CloseCodeOf(met) /\ unread' = unread + 1 /\ unread < WireCap
      BY <2>1, <2>3 DEF WriteClose, WriteGoes
    <3>2. unread' \in 0..WireCap
      BY <3>1, WireCapAssumption
    <3>3. CloseCodeOf(met) = CASE met = "timeout" -> "policy"
                                [] met = "error"   -> "internal"
                                [] OTHER           -> "normal"
      BY DEF CloseCodeOf
    <3> QED
      BY <2>1, <3>1, <3>2, <3>3
  <2> QED
    BY <1>3, <2>2, <2>3 DEF SendCloseMessage
<1>4. CASE CloseConn
  BY <1>4 DEF CloseConn
<1> QED
  BY <1>1, <1>2, <1>3, <1>4 DEF SessionStep

\* The reader and the browser write no close frame but an echo.
LEMMA EnvironmentKeeps ==
  ASSUME IInv, UNCHANGED healVars, ReadFails \/ PeerStep
  PROVE  IInv'
<1> USE DEF IInv, ControlTypeOK, BodyControl, CloseIsLast, HealClosesTruthfully,
            Results, Codes, Summaries
<1>1. CASE ReadFails
  <2>1. reader = "reading" /\ hpc \notin {"serve", "accepted"} /\ UNCHANGED <<hpc, result, healVars>>
    BY <1>1 DEF ReadFails
  <2>2. CASE closeCode = "none" /\ closeCode' = "echo" /\ unread' = unread + 1 /\ unread < WireCap
    BY <2>1, <2>2, WireCapAssumption
  <2>3. CASE UNCHANGED <<closeCode, unread>>
    BY <2>1, <2>3
  <2> QED
    BY <1>1, <2>2, <2>3 DEF ReadFails, WriteClose, WriteGoes
<1>2. CASE PeerRead
  BY <1>2, WireCapAssumption DEF PeerRead
<1>3. CASE PeerLeaves
  BY <1>3 DEF PeerLeaves
<1> QED
  BY <1>1, <1>2, <1>3 DEF PeerStep

\* What the body met and the state of the heal it was told go together.
LEMMA BodyKeeps ==
  ASSUME IInv, Body
  PROVE  IInv'
<1> USE DEF IInv, ControlTypeOK, BodyControl, CloseIsLast, HealClosesTruthfully,
            Results, Codes, Summaries, Return, ReturnBody, Goto, UnchangedConn
<1>1. CASE StartHeal
  BY <1>1 DEF StartHeal
<1>2. CASE Select
  BY <1>2 DEF Select
<1>3. CASE PollAnswered
  BY <1>3 DEF PollAnswered, Answered, AfterItems
<1>4. CASE PollFails
  BY <1>4 DEF PollFails
<1>5. CASE SendStatus
  <2>1. unread' \in 0..WireCap
    BY <1>5, WireCapAssumption DEF SendStatus, WriteText, WriteGoes
  <2> QED
    BY <1>5, <2>1 DEF SendStatus, WriteText
<1>6. CASE SendFails
  BY <1>6 DEF SendFails
<1>7. CASE Judge
  BY <1>7 DEF Judge
<1>8. CASE UpdateStats
  BY <1>8 DEF UpdateStats, AfterItems
<1> QED
  BY <1>1, <1>2, <1>3, <1>4, <1>5, <1>6, <1>7, <1>8 DEF Body

LEMMA StepKeepsIInv == IInv /\ [Next]_vars => IInv'
<1> SUFFICES ASSUME IInv, [Next]_vars PROVE IInv'
  OBVIOUS
<1>1. CASE UNCHANGED vars
  BY <1>1 DEF IInv, ControlTypeOK, BodyControl, CloseIsLast, HealClosesTruthfully
<1>2. CASE UNCHANGED healVars /\ (ServeWS \/ SessionStep)
  BY <1>2, SessionKeeps
<1>3. CASE UNCHANGED healVars /\ (ReadFails \/ PeerStep)
  BY <1>3, EnvironmentKeeps
<1>4. CASE Body
  BY <1>4, BodyKeeps
<1> QED
  BY <1>1, <1>2, <1>3, <1>4 DEF Next, Handler

-----------------------------------------------------------------------------
\* A heal that MinIO stopped, or a call that failed, never ends in a normal close
\* frame, nor a heal that finished in one that names an error (startHeal and
\* sendWsCloseMessage), whenever the browser leaves and whatever the writes do.
THEOREM HealTruthful == Spec => []HealClosesTruthfully
<1>1. IInv => HealClosesTruthfully
  BY DEF IInv
<1> QED
  BY InitIInv, StepKeepsIInv, <1>1, PTL DEF Spec

-----------------------------------------------------------------------------
(* The statuses. The second invariant follows the status from the items      *)
(* reported to the frames sent: what was added is listed or ended its answer, *)
(* what was sent is a part of what is accumulated now.                        *)

\* The status so far: each listed item has one colour before and one after, and
\* what is counted and not listed ended the answer it came in.
StatusOK ==
  /\ Total(hs.beforeCols) = Len(hs.list) /\ Total(hs.afterCols) = Len(hs.list)
  /\ hs.items = Len(hs.list) + broken
  /\ hs.itemsHealed <= hs.items /\ hs.objectsHealed <= hs.objects

\* What the listing lacks is yet to be added.
ListIsReported == broken = 0 => reported = hs.list \o pending

\* Each broken answer is one of those that came.
Bounded == broken + (IF step = "update" THEN 1 ELSE 0) <= polls

\* Status f is followed by status h.
Follows(h, f) ==
  IsPrefix(f.list, h.list) /\ f.items <= h.items /\ f.itemsHealed <= h.itemsHealed

\* The last status sent is one the status came from.
SentBefore == text # <<>> => Follows(hs, text[Len(text)])

\* Where the last status of a heal that finished was not sent, the browser is gone or
\* no other frame goes through.
SentOrLost ==
  /\ hpc \in {"serve", "accepted", "run"} => ~closed /\ closeCode \in {"none", "echo"}
  /\ step \in {"judge", "returned"} /\ summary = "finished" /\ broken = 0
       /\ peer # "gone" /\ closeCode \in {"none", "normal"} =>
     text # <<>> /\ Last(text).list = reported

FramesIInv ==
  /\ IInv
  /\ TypeOK
  /\ StatusOK /\ ListIsReported /\ Bounded
  /\ SentBefore /\ FramesConsistent
  /\ SentOrLost

-----------------------------------------------------------------------------
(* One item.                                                                 *)

LEMMA PrefixItself ==
  ASSUME NEW S, NEW s \in Seq(S)
  PROVE  IsPrefix(s, s)
BY LenProperties DEF IsPrefix

LEMMA PrefixGrows ==
  ASSUME NEW S, NEW s \in Seq(S), NEW t \in Seq(S), IsPrefix(s, t), NEW e \in S
  PROVE  IsPrefix(s, Append(t, e))
<1>1. /\ Len(s) \in Nat /\ Len(t) \in Nat /\ Len(s) <= Len(t) /\ SubSeq(s, 1, Len(s)) = SubSeq(t, 1, Len(s))
      /\ Append(t, e) \in Seq(S) /\ Len(Append(t, e)) = Len(t) + 1
      /\ \A i \in 1 .. Len(t) : Append(t, e)[i] = t[i]
  BY DEF IsPrefix
<1> DEFINE u == Append(t, e)
<1> HIDE DEF u
<1>2. /\ SubSeq(u, 1, Len(s)) \in Seq(S) /\ SubSeq(t, 1, Len(s)) \in Seq(S)
      /\ Len(SubSeq(u, 1, Len(s))) = Len(s) /\ Len(SubSeq(t, 1, Len(s))) = Len(s)
      /\ \A i \in 1 .. Len(s) : SubSeq(u, 1, Len(s))[i] = u[i] /\ SubSeq(t, 1, Len(s))[i] = t[i]
  <2>1. \A i \in 1 .. Len(s) : u[i] \in S /\ t[i] \in S /\ 1 + i - 1 = i
    BY <1>1, ElementOfSeq DEF u
  <2>2. Len(s) - 1 + 1 = Len(s) /\ (1 <= Len(s) \/ Len(s) = 0)
    BY <1>1
  <2>3. /\ SubSeq(u, 1, Len(s)) \in Seq(S)
        /\ Len(SubSeq(u, 1, Len(s))) = IF 1 <= Len(s) THEN Len(s) - 1 + 1 ELSE 0
        /\ \A i \in 1 .. Len(s) - 1 + 1 : SubSeq(u, 1, Len(s))[i] = u[1 + i - 1]
    BY <1>1, <2>1, SubSeqProperties
  <2>4. /\ SubSeq(t, 1, Len(s)) \in Seq(S)
        /\ Len(SubSeq(t, 1, Len(s))) = IF 1 <= Len(s) THEN Len(s) - 1 + 1 ELSE 0
        /\ \A i \in 1 .. Len(s) - 1 + 1 : SubSeq(t, 1, Len(s))[i] = t[1 + i - 1]
    BY <1>1, <2>1, SubSeqProperties
  <2> QED
    BY <1>1, <2>1, <2>2, <2>3, <2>4
<1>3. \A i \in 1 .. Len(s) : u[i] = t[i]
  BY <1>1 DEF u
<1>4. SubSeq(u, 1, Len(s)) = SubSeq(t, 1, Len(s))
  BY <1>2, <1>3, SeqEqual
<1> QED
  BY <1>1, <1>4 DEF IsPrefix, u

\* getHColCode finds a colour of the table, or none.
LEMMA ColorKnown ==
  ASSUME NEW i
  PROVE  ColorBefore(i) \in Hues \cup {"error"} /\ ColorAfter(i) \in Hues \cup {"error"}
<1>1. ASSUME NEW S \in SUBSET {1, 2, 3}, S # {}
      PROVE  Color!Min(S) \in {1, 2, 3}
  <2>1. \E x \in S : \A y \in S : x <= y
    <3>1. CASE 1 \in S
      BY <3>1
    <3>2. CASE 1 \notin S /\ 2 \in S
      BY <3>2
    <3>3. CASE 1 \notin S /\ 2 \notin S
      <4>1. S = {3}
        BY <1>1, <3>3
      <4> QED
        BY <4>1
    <3> QED
      BY <3>1, <3>2, <3>3
  <2> QED
    BY <2>1 DEF Color!Min
<1>2. \A k \in {1, 2, 3} : Color!hColOrder[k] \in Hues
  BY DEF Color!hColOrder, Hues
<1>3. ASSUME NEW surplus, NEW parity
      PROVE  Color!getHColCode(surplus, parity) \in Hues \cup {"error"}
  <2> DEFINE hits == Color!FirstColumn(surplus, Color!hColTable[parity])
  <2>1. hits \in SUBSET {1, 2, 3}
    BY DEF Color!FirstColumn
  <2>2. Color!getHColCode(surplus, parity) \in {"error", "Grey"}
        \/ (hits # {} /\ Color!getHColCode(surplus, parity) = Color!hColOrder[Color!Min(hits)])
    BY DEF Color!getHColCode
  <2> HIDE DEF hits
  <2>3. hits # {} => Color!hColOrder[Color!Min(hits)] \in Hues
    BY <1>1, <1>2, <2>1
  <2> QED
    BY <2>2, <2>3 DEF Hues
<1>4. ASSUME NEW n PROVE Color!ColorOf(i, n) \in Hues \cup {"error"}
  BY <1>3 DEF Color!ColorOf, Color!getReplicatedColor, Color!getObjectColor
<1> QED
  BY <1>4 DEF ColorBefore, ColorAfter

LEMMA CountedIs ==
  ASSUME NEW h \in Statuses, NEW i
  PROVE  /\ Counted(h, i) \in Statuses
         /\ Counted(h, i).list = h.list /\ Counted(h, i).items = h.items + 1
         /\ Counted(h, i).itemsHealed \in h.itemsHealed .. h.itemsHealed + 1
         /\ Counted(h, i).objectsHealed \in h.objectsHealed .. h.objectsHealed + 1
         /\ Counted(h, i).beforeCols = h.beforeCols /\ Counted(h, i).afterCols = h.afterCols
         /\ h.objectsHealed <= h.objects => Counted(h, i).objectsHealed <= Counted(h, i).objects
<1>1. \A b : CountIf(b) \in {0, 1}
  BY DEF CountIf
<1> DEFINE ob == CountIf(i.type = "object")
           he == CountIf(Color!Online(i, i.after) > Color!Online(i, i.before))
           oh == CountIf(Color!Online(i, i.after) > Color!Online(i, i.before) /\ i.type = "object")
<1>2. ob \in {0, 1} /\ he \in {0, 1} /\ oh \in {0, 1}
  BY <1>1
<1>3. oh <= ob
  BY DEF CountIf
<1>4. Counted(h, i) = [h EXCEPT !.items = @ + 1, !.objects = @ + ob,
                                !.itemsHealed = @ + he, !.objectsHealed = @ + oh]
  BY DEF Counted
<1> HIDE DEF ob, he, oh
<1>5. h.items \in Nat /\ h.objects \in Nat /\ h.itemsHealed \in Nat /\ h.objectsHealed \in Nat
  BY DEF Statuses
<1>6. /\ h.itemsHealed + he \in h.itemsHealed .. h.itemsHealed + 1
      /\ h.objectsHealed + oh \in h.objectsHealed .. h.objectsHealed + 1
      /\ h.items + 1 \in Nat /\ h.objects + ob \in Nat
  BY <1>2, <1>5
<1> DEFINE g == Counted(h, i)
<1> HIDE DEF g
<1>7. g = [h EXCEPT !.items = @ + 1, !.objects = @ + ob, !.itemsHealed = @ + he, !.objectsHealed = @ + oh]
  BY <1>4 DEF g
<1>8. /\ g.items = h.items + 1 /\ g.objects = h.objects + ob
      /\ g.itemsHealed = h.itemsHealed + he /\ g.objectsHealed = h.objectsHealed + oh
      /\ g.list = h.list /\ g.beforeCols = h.beforeCols /\ g.afterCols = h.afterCols
  BY <1>7 DEF Statuses
<1>9. g \in Statuses
  <2> DEFINE n1 == h.items + 1
             n2 == h.objects + ob
             n3 == h.itemsHealed + he
             n4 == h.objectsHealed + oh
  <2>1. n1 \in Nat /\ n2 \in Nat /\ n3 \in Nat /\ n4 \in Nat
    BY <1>2, <1>5
  <2>2. g = [h EXCEPT !.items = n1, !.objects = n2, !.itemsHealed = n3, !.objectsHealed = n4]
    BY <1>7
  <2> HIDE DEF n1, n2, n3, n4
  <2> QED
    BY <2>1, <2>2 DEF Statuses
<1>10. h.objectsHealed <= h.objects => g.objectsHealed <= g.objects
  BY <1>2, <1>5, <1>8, <1>3
<1> QED
  BY <1>6, <1>8, <1>9, <1>10 DEF g

LEMMA TotalGrows ==
  ASSUME NEW cols \in [Hues -> Nat], NEW c \in Hues
  PROVE  /\ [cols EXCEPT ![c] = @ + 1] \in [Hues -> Nat]
         /\ Total([cols EXCEPT ![c] = @ + 1]) = Total(cols) + 1 /\ Total(cols) \in Nat
<1>1. /\ [cols EXCEPT ![c] = @ + 1] \in [Hues -> Nat]
      /\ \A d \in Hues : [cols EXCEPT ![c] = @ + 1][d] = IF d = c THEN cols[d] + 1 ELSE cols[d]
  OBVIOUS
<1>2. cols["Grey"] \in Nat /\ cols["Red"] \in Nat /\ cols["Yellow"] \in Nat /\ cols["Green"] \in Nat
  BY DEF Hues
<1>3. c \in {"Grey", "Red", "Yellow", "Green"} /\ Hues = {"Grey", "Red", "Yellow", "Green"}
  BY DEF Hues
<1> DEFINE more == [cols EXCEPT ![c] = @ + 1]
<1> HIDE DEF more
<1>4. Total(more) = Total(cols) + 1
  BY <1>1, <1>2, <1>3 DEF Total, more
<1> QED
  BY <1>1, <1>2, <1>4 DEF Total, more

LEMMA ListedIs ==
  ASSUME NEW h \in Statuses, NEW i \in HealedItems, Listable(i)
  PROVE  /\ Listed(h, i) \in Statuses
         /\ Listed(h, i).list = Append(h.list, i) /\ Listed(h, i).items = h.items
         /\ Listed(h, i).itemsHealed = h.itemsHealed /\ Listed(h, i).objectsHealed = h.objectsHealed
         /\ Listed(h, i).objects = h.objects
         /\ Total(Listed(h, i).beforeCols) = Total(h.beforeCols) + 1
         /\ Total(Listed(h, i).afterCols) = Total(h.afterCols) + 1
<1> DEFINE b == ColorBefore(i)
           a == ColorAfter(i)
           bs == [h.beforeCols EXCEPT ![b] = @ + 1]
           as == [h.afterCols EXCEPT ![a] = @ + 1]
<1>1. b \in Hues /\ a \in Hues
  BY ColorKnown DEF Listable
<1>2. h.beforeCols \in [Hues -> Nat] /\ h.afterCols \in [Hues -> Nat] /\ Append(h.list, i) \in Seq(HealedItems)
  BY DEF Statuses
<1>3. Listed(h, i) = [h EXCEPT !.list = Append(@, i), !.beforeCols = bs, !.afterCols = as]
  BY DEF Listed
<1>4. /\ bs \in [Hues -> Nat] /\ Total(bs) = Total(h.beforeCols) + 1
      /\ as \in [Hues -> Nat] /\ Total(as) = Total(h.afterCols) + 1
  BY <1>1, <1>2, TotalGrows
<1> HIDE DEF bs, as
<1> QED
  BY <1>2, <1>3, <1>4 DEF Statuses

LEMMA UpdateStatsIs ==
  ASSUME NEW h \in Statuses, NEW i \in HealedItems
  PROVE  /\ updateStats(h, i) \in Statuses
         /\ updateStats(h, i).items = h.items + 1
         /\ updateStats(h, i).itemsHealed \in h.itemsHealed .. h.itemsHealed + 1
         /\ h.objectsHealed <= h.objects => updateStats(h, i).objectsHealed <= updateStats(h, i).objects
         /\ IF Listable(i)
              THEN /\ updateStats(h, i).list = Append(h.list, i)
                   /\ Total(updateStats(h, i).beforeCols) = Total(h.beforeCols) + 1
                   /\ Total(updateStats(h, i).afterCols) = Total(h.afterCols) + 1
              ELSE /\ updateStats(h, i).list = h.list
                   /\ updateStats(h, i).beforeCols = h.beforeCols /\ updateStats(h, i).afterCols = h.afterCols
<1> DEFINE g == Counted(h, i)
<1>1. /\ g \in Statuses /\ g.list = h.list /\ g.items = h.items + 1
      /\ g.itemsHealed \in h.itemsHealed .. h.itemsHealed + 1
      /\ h.objectsHealed <= h.objects => g.objectsHealed <= g.objects
      /\ g.beforeCols = h.beforeCols /\ g.afterCols = h.afterCols
  BY CountedIs
<1> HIDE DEF g
<1>2. CASE Listable(i)
  <2>1. updateStats(h, i) = Listed(g, i)
    BY <1>2 DEF updateStats, g
  <2> QED
    BY <1>1, <1>2, <2>1, ListedIs
<1>3. CASE ~Listable(i)
  <2>1. updateStats(h, i) = g
    BY <1>3 DEF updateStats, g
  <2> QED
    BY <1>1, <1>3, <2>1
<1> QED
  BY <1>2, <1>3

-----------------------------------------------------------------------------
(* The invariant holds.                                                      *)

LEMMA FramesInit == Init => FramesIInv
<1> SUFFICES ASSUME Init PROVE FramesIInv
  OBVIOUS
<1>1. IInv
  BY InitIInv
<1>2. ConnInit
  BY DEF Init
<1>3. NewStatus \in Statuses
  <2>1. [c \in Hues |-> 0] \in [Hues -> Nat] /\ <<>> \in Seq(HealedItems)
    OBVIOUS
  <2> QED
    BY <2>1 DEF NewStatus, Statuses
<1>4. TypeOK
  <2>1. ConnTypeOK
    <3>1. unread \in 0 .. WireCap
      BY <1>2, WireCapAssumption DEF ConnInit
    <3> QED
      BY <1>2, <3>1 DEF ConnInit, ConnTypeOK
  <2>2. <<>> \in Seq(Statuses) /\ <<>> \in Seq(HealedItems)
    OBVIOUS
  <2>3. hs \in Statuses /\ text = <<>> /\ pending = <<>> /\ reported = <<>>
    BY <1>2, <1>3 DEF Init, ConnInit
  <2>4. step = "start" /\ forceStop \in BOOLEAN /\ summary = "none" /\ broken = 0 /\ polls = 0 /\ met \in Results
    BY DEF Init, Results
  <2>5. 0 \in 0 .. MaxPolls
    BY HealBoundsAssumption
  <2> QED
    BY <2>1, <2>2, <2>3, <2>4, <2>5 DEF TypeOK
<1>5. StatusOK
  <2> DEFINE none == [c \in Hues |-> 0]
  <2>1. Total(none) = 0
    BY DEF Total, Hues
  <2>2. Len(<<>>) = 0
    OBVIOUS
  <2>3. /\ hs.list = <<>> /\ hs.items = 0 /\ hs.itemsHealed = 0 /\ hs.objectsHealed = 0 /\ hs.objects = 0
        /\ hs.beforeCols = none /\ hs.afterCols = none /\ broken = 0
    BY DEF Init, NewStatus
  <2> HIDE DEF none
  <2>4. Total(hs.beforeCols) = Len(hs.list) /\ Total(hs.afterCols) = Len(hs.list)
    BY <2>1, <2>2, <2>3
  <2>5. hs.items = Len(hs.list) + broken
    BY <2>2, <2>3
  <2> QED
    BY <2>3, <2>4, <2>5 DEF StatusOK
<1>6. ListIsReported
  BY DEF Init, NewStatus, ListIsReported
<1>7. Bounded /\ SentBefore /\ FramesConsistent /\ SentOrLost
  BY <1>2 DEF Init, ConnInit, Bounded, SentBefore, FramesConsistent, SentOrLost
<1> QED
  BY <1>1, <1>4, <1>5, <1>6, <1>7 DEF FramesIInv

\* What leaves the status and the frames alone.
QuietHeal == UNCHANGED <<hs, pending, reported, broken, polls, text, forceStop>>

LEMMA QuietKeeps ==
  ASSUME FramesIInv, QuietHeal, step = "update" <=> step' = "update"
  PROVE  StatusOK' /\ ListIsReported' /\ Bounded' /\ SentBefore' /\ FramesConsistent'
<1>1. StatusOK' /\ ListIsReported'
  BY DEF FramesIInv, QuietHeal, StatusOK, ListIsReported
<1>2. Bounded'
  BY DEF FramesIInv, QuietHeal, Bounded
<1>3. SentBefore' /\ FramesConsistent'
  BY DEF FramesIInv, QuietHeal, SentBefore, FramesConsistent
<1> QED
  BY <1>1, <1>2, <1>3

\* The request, the reader, the browser and the end of the session.
LEMMA OutsideKeepsFrames ==
  ASSUME FramesIInv, UNCHANGED healVars, ServeWS \/ SessionStep \/ ReadFails \/ PeerStep
  PROVE  FramesIInv'
<1>1. IInv'
  BY SessionKeeps, EnvironmentKeeps DEF FramesIInv
<1>2. text' = text
  BY DEF ServeWS, Refuse, CloseAtOnce, WriteClose, Start, SessionStep, StartReader, SendCloseMessage, CloseConn,
     ReadFails, PeerStep, PeerRead, PeerLeaves
<1>3. StatusOK' /\ ListIsReported' /\ Bounded' /\ SentBefore' /\ FramesConsistent'
  BY <1>2, QuietKeeps DEF QuietHeal
<1>4. ConnTypeOK'
  <2>1. ConnTypeOK /\ unread \in 0 .. WireCap /\ WireCap \in Nat
    BY WireCapAssumption DEF FramesIInv, TypeOK, ConnTypeOK
  <2>2. unread' \in 0 .. WireCap /\ closeCode' \in Codes \cup {"none"} /\ hpc' \in {"serve", "accepted", "run", "closing", "deferred", "done"}
    BY <1>1 DEF IInv, ControlTypeOK
  <2>3. CASE ServeWS
    <3>1. \A path : Dispatch(path) # NoApi => Dispatch(path) \in Apis
      <4>1. ASSUME NEW path, MatchesOf(path) # {} PROVE Dispatch(path) \in Apis
        <5> DEFINE hits == MatchesOf(path)
        <5>1. hits \in SUBSET (1 .. 5) /\ hits # {} /\ Len(Routes) = 5
          BY <4>1 DEF MatchesOf, Routes
        <5> HIDE DEF hits
        <5>2. \E k \in hits : \A j \in hits : k <= j
          <6>1. \A k \in hits : k \in {1, 2, 3, 4, 5}
            BY <5>1
          <6>2. CASE 1 \in hits
            BY <6>1, <6>2
          <6>3. CASE 1 \notin hits /\ 2 \in hits
            BY <6>1, <6>3
          <6>4. CASE 1 \notin hits /\ 2 \notin hits /\ 3 \in hits
            BY <6>1, <6>4
          <6>5. CASE 1 \notin hits /\ 2 \notin hits /\ 3 \notin hits /\ 4 \in hits
            BY <6>1, <6>5
          <6>6. CASE hits \cap {1, 2, 3, 4} = {}
            <7>1. hits = {5}
              BY <5>1, <6>1, <6>6
            <7> QED
              BY <7>1
          <6> QED
            BY <6>2, <6>3, <6>4, <6>5, <6>6
        <5>3. (CHOOSE k \in hits : \A j \in hits : k <= j) \in hits
          BY <5>2
        <5>4. Dispatch(path) = Routes[CHOOSE k \in hits : \A j \in hits : k <= j]
          BY <5>1 DEF Dispatch, hits
        <5> QED
          BY <5>1, <5>3, <5>4 DEF Apis
      <4> QED
        BY <4>1 DEF Dispatch
    <3>2. request' \in Requests /\ api' \in Apis \cup {api}
      BY <2>3, <3>1 DEF ServeWS, Refuse, CloseAtOnce, Start
    <3>3. closed' \in BOOLEAN
      BY <2>1, <2>3 DEF ServeWS, Refuse, CloseAtOnce, Start, ConnTypeOK
    <3> QED
      BY <2>1, <2>2, <2>3, <3>2, <3>3 DEF ServeWS, ConnTypeOK
  <2>4. CASE SessionStep \/ ReadFails \/ PeerStep
    BY <2>1, <2>2, <2>4 DEF SessionStep, StartReader, SendCloseMessage, CloseConn,
       ReadFails, EndReader, PeerStep, PeerRead, PeerLeaves, ConnTypeOK
  <2> QED
    BY <2>3, <2>4
<1>5. TypeOK'
  <2>1. step \in {"select", "poll", "update", "send", "judge"} => hpc' = "run"
    BY DEF FramesIInv, TypeOK, IInv, BodyControl, ControlTypeOK,
       ServeWS, SessionStep, StartReader, SendCloseMessage, CloseConn, ReadFails, PeerStep, PeerRead, PeerLeaves
  <2> QED
    BY <1>2, <1>4, <2>1 DEF FramesIInv, TypeOK
<1>6. SentOrLost'
  <2>1. IInv /\ SentOrLost /\ TypeOK
    BY DEF FramesIInv
  <2>2. CASE ServeWS
    BY <2>1, <2>2 DEF IInv, BodyControl, ServeWS, SentOrLost, Refuse, CloseAtOnce, Start, ConnTypeOK, TypeOK
  <2>3. CASE SessionStep
    <3>1. UNCHANGED <<step, summary, broken, peer, text, reported>>
      BY <1>2, <2>3 DEF SessionStep, StartReader, SendCloseMessage, CloseConn
    <3>2. CASE StartReader
      <4>1. hpc = "accepted" /\ step = "start" /\ closeCode = "none" /\ closeCode' = closeCode /\ closed' = closed
        BY <2>1, <3>2 DEF StartReader, IInv, BodyControl
      <4> QED
        BY <2>1, <3>1, <4>1 DEF SentOrLost
    <3>3. CASE SendCloseMessage
      <4>1. /\ hpc = "closing" /\ hpc' = "deferred"
            /\ closeCode' \in {"none", "normal"} => closeCode = "none" \/ closeCode' = closeCode
        BY <3>3 DEF SendCloseMessage, WriteClose, WriteGoes
      <4> QED
        BY <2>1, <3>1, <3>3, <4>1 DEF SentOrLost, SendCloseMessage
    <3>4. CASE CloseConn
      BY <2>1, <3>1, <3>4 DEF SentOrLost, CloseConn
    <3> QED
      BY <2>3, <3>2, <3>3, <3>4 DEF SessionStep
  <2>4. CASE ReadFails
    BY <1>2, <2>1, <2>4 DEF SentOrLost, ReadFails, WriteClose
  <2>5. CASE PeerStep
    BY <1>2, <2>1, <2>5 DEF SentOrLost, PeerStep, PeerRead, PeerLeaves
  <2> QED
    BY <2>2, <2>3, <2>4, <2>5
<1> QED
  BY <1>1, <1>3, <1>5, <1>6 DEF FramesIInv

\* The connection through a step of the body.
LEMMA BodyConn ==
  ASSUME FramesIInv, Body
  PROVE  /\ IInv' /\ ConnTypeOK' /\ hpc = "run" /\ ~closed /\ ~closed' /\ closeCode \in {"none", "echo"}
         /\ UNCHANGED <<closeCode, peer, forceStop>> /\ step' \in {"select", "poll", "update", "send", "judge", "returned"}
         /\ step' # "returned" => hpc' = "run"
<1>1. IInv'
  BY BodyKeeps DEF FramesIInv
<1>2. /\ hpc = "run" /\ UNCHANGED <<request, api, reader, canceled, peer, closed, closeCode, forceStop>>
      /\ step' # "returned" => hpc' = "run"
  BY DEF Body, StartHeal, Select, PollAnswered, Answered, PollFails, UpdateStats, SendStatus, SendFails, Judge,
     UnchangedConn, WriteText, Goto, Return, ReturnBody, AfterItems
<1>3. step' \in {"select", "poll", "update", "send", "judge", "returned"}
  BY DEF Body, StartHeal, Select, PollAnswered, Answered, PollFails, UpdateStats, SendStatus, SendFails, Judge,
     Goto, Return, AfterItems
<1>4. ~closed /\ closeCode \in {"none", "echo"}
  BY <1>2 DEF FramesIInv, SentOrLost
<1>5. ConnTypeOK'
  BY <1>1, <1>2 DEF FramesIInv, TypeOK, ConnTypeOK, IInv, ControlTypeOK
<1> QED
  BY <1>1, <1>2, <1>3, <1>4, <1>5

\* What neither adds an item nor sends a frame.
LEMMA QuietBodyKeepsFrames ==
  ASSUME FramesIInv, StartHeal \/ Select \/ PollFails \/ SendFails \/ Judge
  PROVE  FramesIInv'
<1>1. /\ IInv' /\ ConnTypeOK' /\ ~closed /\ ~closed' /\ closeCode \in {"none", "echo"} /\ UNCHANGED <<closeCode, peer, forceStop>>
      /\ step' \in {"select", "poll", "update", "send", "judge", "returned"}
      /\ step' # "returned" => hpc' = "run"
  BY BodyConn DEF Body
<1>2. UNCHANGED <<hs, pending, summary, reported, broken, polls, text, forceStop>> /\ step # "update" /\ step' # "update"
  BY DEF StartHeal, Select, PollFails, SendFails, Judge, UnchangedConn, Goto, Return, ReturnBody
<1>3. StatusOK' /\ ListIsReported' /\ Bounded' /\ SentBefore' /\ FramesConsistent'
  BY <1>2, QuietKeeps DEF QuietHeal
<1>4. TypeOK'
  <2>1. met' \in Results
    BY <1>1 DEF IInv, ControlTypeOK
  <2> QED
    BY <1>1, <1>2, <2>1 DEF FramesIInv, TypeOK
<1>5. SentOrLost'
  <2>1. IInv /\ SentOrLost
    BY DEF FramesIInv
  <2>2. CASE step \in {"start", "select", "poll"}
    <3>1. summary # "finished"
      BY <2>1, <2>2 DEF IInv, BodyControl
    <3> QED
      BY <1>1, <1>2, <3>1 DEF SentOrLost
  <2>3. CASE SendFails
    <3>1. peer = "gone" \/ closeCode = "echo"
      BY <1>1, <2>3 DEF SendFails, WriteFails
    <3> QED
      BY <1>1, <1>2, <3>1 DEF SentOrLost
  <2>4. CASE Judge
    <3>1. step = "judge"
      BY <2>4 DEF Judge
    <3> QED
      BY <1>1, <1>2, <2>1, <3>1 DEF SentOrLost
  <2> QED
    BY <2>2, <2>3, <2>4 DEF StartHeal, Select, PollFails
<1> QED
  BY <1>1, <1>3, <1>4, <1>5 DEF FramesIInv

\* An answer: its items are reported and wait to be added.
LEMMA PollAnsweredKeepsFrames ==
  ASSUME FramesIInv, PollAnswered
  PROVE  FramesIInv'
<1>1. /\ IInv' /\ ConnTypeOK' /\ ~closed' /\ closeCode \in {"none", "echo"} /\ UNCHANGED <<closeCode, peer, forceStop>>
      /\ step' # "returned" => hpc' = "run"
  BY BodyConn DEF Body
<1>2. PICK batch \in Batches, s \in {"running", "finished", "stopped"} :
        pending' = batch /\ reported' = reported \o batch /\ summary' = s /\ step' = AfterItems(batch, s)
  BY DEF PollAnswered, Answered, Goto
<1>3. step = "poll" /\ polls < MaxPolls /\ polls' = polls + 1 /\ UNCHANGED <<hs, broken, text, met>>
  BY DEF PollAnswered, Answered, UnchangedConn, Goto
<1>4. batch \in Seq(HealedItems)
  <2>1. PICK n \in 0 .. MaxBatch : batch \in [1 .. n -> HealedItems]
    BY DEF Batches
  <2> QED
    BY <2>1, HealBoundsAssumption
<1>5. /\ TypeOK /\ StatusOK /\ ListIsReported /\ Bounded /\ SentBefore /\ FramesConsistent
      /\ hs.list \in Seq(HealedItems) /\ reported \in Seq(HealedItems) /\ pending = <<>>
  BY <1>3 DEF FramesIInv, TypeOK, Statuses
<1>6. step' \in {"update", "send"} /\ (pending' # <<>> <=> step' = "update")
  BY <1>2 DEF AfterItems
<1>7. TypeOK'
  <2>1. reported' \in Seq(HealedItems) /\ pending' \in Seq(HealedItems)
    BY <1>2, <1>4, <1>5
  <2>2. polls' \in 0 .. MaxPolls
    BY <1>3, <1>5, HealBoundsAssumption DEF TypeOK
  <2>3. summary' \in {"none", "running", "finished", "stopped"}
    BY <1>2
  <2> QED
    BY <1>1, <1>3, <1>5, <1>6, <2>1, <2>2, <2>3 DEF TypeOK
<1>8. StatusOK' /\ SentBefore' /\ FramesConsistent'
  BY <1>3, <1>5 DEF StatusOK, SentBefore, FramesConsistent
<1>9. ListIsReported'
  <2>1. hs.list \o pending = hs.list
    BY <1>5, ConcatEmptySeq
  <2> QED
    BY <1>2, <1>3, <1>5, <2>1 DEF ListIsReported
<1>10. Bounded'
  <2>1. polls \in Nat /\ broken \in Nat
    BY <1>5, HealBoundsAssumption DEF TypeOK
  <2> QED
    BY <1>3, <1>5, <1>6, <2>1 DEF Bounded
<1>11. SentOrLost'
  BY <1>1, <1>6 DEF SentOrLost
<1> QED
  BY <1>1, <1>7, <1>8, <1>9, <1>10, <1>11 DEF FramesIInv

\* The head of what waits goes to the end of the list.
LEMMA HeadMoves ==
  ASSUME NEW S, NEW s \in Seq(S), NEW t \in Seq(S), t # <<>>
  PROVE  Append(s, Head(t)) \o Tail(t) = s \o t
<1> DEFINE e == Head(t)
           u == Tail(t)
           a == Append(s, e)
           x == a \o u
           y == s \o t
<1>1. /\ e \in S /\ u \in Seq(S) /\ Len(t) \in Nat /\ Len(u) \in Nat /\ Len(u) = Len(t) - 1 /\ Len(s) \in Nat
      /\ \A i \in 1 .. Len(u) : u[i] = t[i + 1]
      /\ e = t[1]
  BY HeadTailProperties
<1> HIDE DEF e, u
<1>2. /\ a \in Seq(S) /\ Len(a) = Len(s) + 1
      /\ \A i \in 1 .. Len(s) : a[i] = s[i]
      /\ a[Len(s) + 1] = e
  BY <1>1, AppendProperties
<1> HIDE DEF a
<1>3. /\ x \in Seq(S) /\ Len(x) = Len(a) + Len(u)
      /\ \A i \in 1 .. Len(a) + Len(u) : x[i] = IF i <= Len(a) THEN a[i] ELSE u[i - Len(a)]
  BY <1>1, <1>2, ConcatProperties
<1>4. /\ y \in Seq(S) /\ Len(y) = Len(s) + Len(t)
      /\ \A i \in 1 .. Len(s) + Len(t) : y[i] = IF i <= Len(s) THEN s[i] ELSE t[i - Len(s)]
  BY ConcatProperties
<1> HIDE DEF x, y
<1>5. Len(x) = Len(y)
  BY <1>1, <1>2, <1>3, <1>4
<1>6. ASSUME NEW i \in 1 .. Len(x) PROVE x[i] = y[i]
  <2>1. i \in Nat /\ 1 <= i /\ i <= Len(s) + Len(t) /\ i \in 1 .. Len(a) + Len(u) /\ i \in 1 .. Len(s) + Len(t)
    BY <1>1, <1>2, <1>3, <1>6
  <2>2. CASE i <= Len(s)
    <3>1. i \in 1 .. Len(s) /\ i <= Len(a)
      BY <1>1, <1>2, <2>1, <2>2
    <3> QED
      BY <1>2, <1>3, <1>4, <2>1, <2>2, <3>1
  <2>3. CASE i = Len(s) + 1
    <3>1. i <= Len(a) /\ ~(i <= Len(s)) /\ i - Len(s) = 1
      BY <1>1, <1>2, <2>3
    <3> QED
      BY <1>1, <1>2, <1>3, <1>4, <2>1, <2>3, <3>1
  <2>4. CASE i > Len(s) + 1
    <3>1. ~(i <= Len(a)) /\ ~(i <= Len(s)) /\ i - Len(a) \in 1 .. Len(u) /\ (i - Len(a)) + 1 = i - Len(s)
      BY <1>1, <1>2, <2>1, <2>4
    <3>2. u[i - Len(a)] = t[(i - Len(a)) + 1]
      BY <1>1, <3>1
    <3> QED
      BY <1>3, <1>4, <2>1, <3>1, <3>2
  <2> QED
    BY <1>1, <2>1, <2>2, <2>3, <2>4
<1>7. x = y
  BY <1>3, <1>4, <1>5, <1>6, SeqEqual
<1> QED
  BY <1>7 DEF x, y, a, e, u

\* One item: it is listed and the next one waits, or it has no colour and its
\* answer is broken.
LEMMA UpdateStatsKeepsFrames ==
  ASSUME FramesIInv, UpdateStats
  PROVE  FramesIInv'
<1> DEFINE i == Head(pending)
           h == updateStats(hs, i)
           rest == Tail(pending)
<1>1. /\ IInv' /\ ConnTypeOK' /\ ~closed' /\ closeCode \in {"none", "echo"} /\ UNCHANGED <<closeCode, peer, forceStop>>
      /\ step' # "returned" => hpc' = "run"
  BY BodyConn DEF Body
<1>2. step = "update" /\ hs' = h /\ UNCHANGED <<summary, reported, polls, text, met>>
  BY DEF UpdateStats, UnchangedConn, Goto
<1>3. /\ TypeOK /\ StatusOK /\ ListIsReported /\ Bounded /\ SentBefore /\ FramesConsistent
      /\ hs \in Statuses /\ pending \in Seq(HealedItems) /\ pending # <<>>
  BY <1>2 DEF FramesIInv, TypeOK
<1>4. /\ i \in HealedItems /\ rest \in Seq(HealedItems)
      /\ hs.list \in Seq(HealedItems) /\ Len(hs.list) \in Nat
      /\ hs.items \in Nat /\ hs.itemsHealed \in Nat /\ hs.objects \in Nat /\ hs.objectsHealed \in Nat
      /\ broken \in Nat /\ polls \in Nat /\ MaxPolls \in Nat /\ polls <= MaxPolls
  <2>1. i \in HealedItems /\ rest \in Seq(HealedItems)
    BY <1>3, HeadTailProperties
  <2>2. hs.list \in Seq(HealedItems)
    BY <1>3 DEF Statuses
  <2> QED
    BY <1>3, <2>1, <2>2, HealBoundsAssumption DEF Statuses, TypeOK
<1>5. /\ h \in Statuses /\ h.items = hs.items + 1
      /\ h.itemsHealed \in Nat /\ hs.itemsHealed <= h.itemsHealed /\ h.itemsHealed <= hs.itemsHealed + 1
      /\ h.objectsHealed <= h.objects
      /\ IF Listable(i)
           THEN /\ h.list = Append(hs.list, i)
                /\ Total(h.beforeCols) = Total(hs.beforeCols) + 1 /\ Total(h.afterCols) = Total(hs.afterCols) + 1
           ELSE h.list = hs.list /\ h.beforeCols = hs.beforeCols /\ h.afterCols = hs.afterCols
  <2>1. h \in Statuses
    BY <1>3, <1>4, UpdateStatsIs
  <2>2. h.objectsHealed <= h.objects
    BY <1>3, <1>4, UpdateStatsIs DEF StatusOK
  <2>3. h.itemsHealed \in hs.itemsHealed .. hs.itemsHealed + 1
    BY <1>3, <1>4, UpdateStatsIs
  <2>4. h.itemsHealed \in Nat /\ hs.itemsHealed <= h.itemsHealed /\ h.itemsHealed <= hs.itemsHealed + 1
    BY <1>4, <2>3
  <2>5. h.items = hs.items + 1
    BY <1>3, <1>4, UpdateStatsIs
  <2>6. IF Listable(i)
          THEN /\ h.list = Append(hs.list, i)
               /\ Total(h.beforeCols) = Total(hs.beforeCols) + 1 /\ Total(h.afterCols) = Total(hs.afterCols) + 1
          ELSE h.list = hs.list /\ h.beforeCols = hs.beforeCols /\ h.afterCols = hs.afterCols
    BY <1>3, <1>4, UpdateStatsIs
  <2> QED
    BY <2>1, <2>2, <2>4, <2>5, <2>6
<1> HIDE DEF h, i, rest
<1>6. CASE Listable(i)
  <2>1. pending' = rest /\ broken' = broken /\ step' = AfterItems(rest, summary)
    BY <1>6 DEF UpdateStats, Goto, i, rest
  <2>2. step' \in {"update", "send"} /\ (pending' # <<>> <=> step' = "update")
    BY <2>1 DEF AfterItems
  <2>3. h.list = Append(hs.list, i) /\ Len(h.list) = Len(hs.list) + 1 /\ h.list \in Seq(HealedItems)
    <3>1. h.list = Append(hs.list, i)
      BY <1>5, <1>6
    <3> QED
      BY <1>4, <3>1, AppendProperties
  <2>4. TypeOK'
    BY <1>1, <1>2, <1>3, <1>4, <1>5, <2>1, <2>2 DEF TypeOK
  <2>5. StatusOK'
    <3>1. h.items = Len(h.list) + broken /\ h.itemsHealed <= h.items
      BY <1>3, <1>4, <1>5, <2>3 DEF StatusOK
    <3>2. Total(h.beforeCols) = Len(h.list) /\ Total(h.afterCols) = Len(h.list)
      BY <1>3, <1>5, <1>6, <2>3 DEF StatusOK
    <3> QED
      BY <1>2, <1>5, <2>1, <3>1, <3>2 DEF StatusOK
  <2>6. ListIsReported'
    <3>3. Append(hs.list, i) \o rest = hs.list \o pending
      BY <1>3, <1>4, HeadMoves DEF i, rest
    <3> QED
      BY <1>2, <1>3, <2>1, <2>3, <3>3 DEF ListIsReported
  <2>7. Bounded'
    BY <1>2, <1>3, <1>4, <2>1, <2>2 DEF Bounded
  <2>8. SentBefore'
    <3>1. ASSUME text # <<>> PROVE Follows(h, text[Len(text)])
      <4>1. text \in Seq(Statuses) /\ text[Len(text)] \in Statuses
        <5>1. text \in Seq(Statuses) /\ Len(text) \in 1 .. Len(text)
          BY <1>3, <3>1, EmptySeq DEF TypeOK
        <5> QED
          BY <5>1, ElementOfSeq
      <4> DEFINE f == text[Len(text)]
      <4>2. f \in Statuses /\ IsPrefix(f.list, hs.list) /\ f.items <= hs.items /\ f.itemsHealed <= hs.itemsHealed
        BY <1>3, <3>1, <4>1 DEF SentBefore, Follows
      <4> HIDE DEF f
      <4>3. f.list \in Seq(HealedItems) /\ f.items \in Nat /\ f.itemsHealed \in Nat
        BY <4>2 DEF Statuses
      <4>4. IsPrefix(f.list, h.list)
        BY <1>4, <2>3, <4>2, <4>3, PrefixGrows
      <4>5. f.items <= h.items /\ f.itemsHealed <= h.itemsHealed
        BY <1>4, <1>5, <4>2, <4>3
      <4> QED
        BY <4>4, <4>5 DEF Follows, f
    <3> QED
      BY <1>2, <3>1 DEF SentBefore
  <2>9. FramesConsistent'
    BY <1>2, <1>3, <2>1 DEF FramesConsistent
  <2>10. SentOrLost'
    BY <1>1, <2>2 DEF SentOrLost
  <2> QED
    BY <1>1, <2>4, <2>5, <2>6, <2>7, <2>8, <2>9, <2>10 DEF FramesIInv
<1>7. CASE ~Listable(i)
  <2>1. pending' = <<>> /\ broken' = broken + 1 /\ step' = "judge" /\ h.list = hs.list
    BY <1>5, <1>7 DEF UpdateStats, Goto, i
  <2>2. Bounded' /\ broken' \in 0 .. MaxPolls /\ broken' # 0
    BY <1>2, <1>3, <1>4, <2>1 DEF Bounded
  <2>3. TypeOK'
    <3>1. pending' \in Seq(HealedItems)
      BY <2>1
    <3> QED
      BY <1>1, <1>2, <1>3, <1>4, <1>5, <2>1, <2>2, <3>1 DEF TypeOK
  <2>4. StatusOK'
    <3>1. hs.items = Len(hs.list) + broken /\ hs.itemsHealed <= hs.items
      BY <1>3 DEF StatusOK
    <3>2. h.items = Len(h.list) + (broken + 1) /\ h.itemsHealed <= h.items
      <4>1. h.items = hs.items + 1 /\ Len(h.list) = Len(hs.list) /\ h.itemsHealed <= hs.itemsHealed + 1
        BY <1>5, <2>1
      <4>2. h.itemsHealed \in Nat
        BY <1>5
      <4>3. hs.items + 1 = Len(hs.list) + (broken + 1)
        <5>1. \A n, l, b \in Nat : n = l + b => n + 1 = l + (b + 1)
          OBVIOUS
        <5> QED
          BY <1>4, <3>1, <5>1
      <4>4. h.itemsHealed <= hs.items + 1
        BY <1>4, <3>1, <4>1, <4>2
      <4> QED
        BY <4>1, <4>3, <4>4
    <3>3. Total(h.beforeCols) = Len(h.list) /\ Total(h.afterCols) = Len(h.list)
      BY <1>3, <1>5, <1>7 DEF StatusOK
    <3> QED
      BY <1>2, <1>5, <2>1, <3>2, <3>3 DEF StatusOK
  <2>5. ListIsReported' /\ SentOrLost'
    <3>1. SentOrLost'
      BY <1>1, <2>2 DEF SentOrLost
    <3> QED
      BY <2>2, <3>1 DEF ListIsReported
  <2>6. SentBefore'
    <3>1. ASSUME text # <<>> PROVE Follows(h, text[Len(text)])
      <4>1. text \in Seq(Statuses) /\ text[Len(text)] \in Statuses
        <5>1. text \in Seq(Statuses) /\ Len(text) \in 1 .. Len(text)
          BY <1>3, <3>1, EmptySeq DEF TypeOK
        <5> QED
          BY <5>1, ElementOfSeq
      <4> DEFINE f == text[Len(text)]
      <4>2. f \in Statuses /\ IsPrefix(f.list, hs.list) /\ f.items <= hs.items /\ f.itemsHealed <= hs.itemsHealed
        BY <1>3, <3>1, <4>1 DEF SentBefore, Follows
      <4> HIDE DEF f
      <4>3. f.items \in Nat /\ f.itemsHealed \in Nat
        BY <4>2 DEF Statuses
      <4>4. f.items <= h.items /\ f.itemsHealed <= h.itemsHealed
        BY <1>4, <1>5, <4>2, <4>3
      <4> QED
        BY <2>1, <4>2, <4>4 DEF Follows, f
    <3> QED
      BY <1>2, <3>1 DEF SentBefore
  <2>7. FramesConsistent'
    <3>1. ASSUME NEW k \in DOMAIN text
          PROVE  text[k].items - Len(text[k].list) \in 0 .. broken + 1
      <4>1. text[k] \in Statuses
        <5>1. text \in Seq(Statuses) /\ k \in 1 .. Len(text)
          BY <1>3, <3>1, LenProperties DEF TypeOK
        <5> QED
          BY <5>1, ElementOfSeq
      <4> DEFINE d == text[k].items - Len(text[k].list)
      <4>2. d \in 0 .. broken
        BY <1>3, <3>1 DEF FramesConsistent
      <4> HIDE DEF d
      <4>3. d \in 0 .. broken + 1
        BY <1>4, <4>2
      <4> QED
        BY <4>3 DEF d
    <3> QED
      BY <1>2, <1>3, <2>1, <3>1 DEF FramesConsistent
  <2> QED
    BY <1>1, <2>2, <2>3, <2>4, <2>5, <2>6, <2>7 DEF FramesIInv
<1> QED
  BY <1>6, <1>7

\* A status sent becomes the last of the frames.
LEMMA SendStatusKeepsFrames ==
  ASSUME FramesIInv, SendStatus
  PROVE  FramesIInv'
<1>1. /\ IInv' /\ ConnTypeOK' /\ ~closed' /\ closeCode \in {"none", "echo"} /\ UNCHANGED <<closeCode, peer, forceStop>>
      /\ step' # "returned" => hpc' = "run"
  BY BodyConn DEF Body
<1>2. /\ step = "send" /\ step' = "judge" /\ text' = Append(text, hs)
      /\ UNCHANGED <<hs, pending, summary, reported, broken, polls, met>>
  BY DEF SendStatus, WriteText, Goto
<1>3. /\ TypeOK /\ StatusOK /\ ListIsReported /\ Bounded /\ SentBefore /\ FramesConsistent
      /\ hs \in Statuses /\ text \in Seq(Statuses) /\ pending = <<>> /\ Len(text) \in Nat
  BY <1>2 DEF FramesIInv, TypeOK
<1>4. /\ text' \in Seq(Statuses) /\ text' # <<>> /\ Len(text') = Len(text) + 1 /\ DOMAIN text' = 1 .. Len(text) + 1
      /\ \A k \in 1 .. Len(text) : text'[k] = text[k]
      /\ text'[Len(text) + 1] = hs
  <2>1. /\ Append(text, hs) \in Seq(Statuses) /\ Append(text, hs) # <<>> /\ Len(Append(text, hs)) = Len(text) + 1
        /\ \A k \in 1 .. Len(text) : Append(text, hs)[k] = text[k]
        /\ Append(text, hs)[Len(text) + 1] = hs
    BY <1>3, AppendProperties
  <2>2. DOMAIN Append(text, hs) = 1 .. Len(text) + 1
    BY <2>1, LenProperties
  <2> QED
    BY <1>2, <2>1, <2>2
<1>5. /\ hs.list \in Seq(HealedItems) /\ Len(hs.list) \in Nat
      /\ hs.items \in Nat /\ hs.itemsHealed \in Nat /\ broken \in Nat
  BY <1>3, HealBoundsAssumption DEF Statuses, TypeOK
<1>6. TypeOK'
  BY <1>1, <1>2, <1>3, <1>4 DEF TypeOK
<1>7. StatusOK' /\ ListIsReported' /\ Bounded'
  BY <1>2, <1>3 DEF StatusOK, ListIsReported, Bounded
<1>8. SentBefore'
  <2>1. IsPrefix(hs.list, hs.list)
    BY <1>5, PrefixItself
  <2>2. hs.items <= hs.items /\ hs.itemsHealed <= hs.itemsHealed
    BY <1>5
  <2>3. Follows(hs, hs)
    BY <2>1, <2>2 DEF Follows
  <2> QED
    BY <1>2, <1>4, <2>3 DEF SentBefore
<1>9. FramesConsistent'
  <2>1. ASSUME NEW k \in DOMAIN text'
        PROVE  /\ Total(text'[k].beforeCols) = Len(text'[k].list) /\ Total(text'[k].afterCols) = Len(text'[k].list)
               /\ text'[k].items - Len(text'[k].list) \in 0 .. broken'
               /\ text'[k].itemsHealed <= text'[k].items /\ text'[k].objectsHealed <= text'[k].objects
    <3>1. CASE k \in 1 .. Len(text)
      <4>1. k \in DOMAIN text /\ text'[k] = text[k] /\ broken' = broken
        BY <1>2, <1>3, <1>4, <3>1, LenProperties
      <4> QED
        BY <1>3, <4>1 DEF FramesConsistent
    <3>2. CASE k = Len(text) + 1
      <4>1. text'[k] = hs /\ broken' = broken
        BY <1>2, <1>4, <3>2
      <4>2. hs.items = Len(hs.list) + broken
        BY <1>3 DEF StatusOK
      <4>3. hs.items - Len(hs.list) \in 0 .. broken
        BY <1>5, <4>2
      <4> QED
        BY <1>3, <4>1, <4>3 DEF StatusOK
    <3> QED
      BY <1>3, <1>4, <2>1, <3>1, <3>2
  <2>2. ASSUME NEW k \in 1 .. Len(text') - 1
        PROVE  /\ IsPrefix(text'[k].list, text'[k + 1].list)
               /\ text'[k].items <= text'[k + 1].items
               /\ text'[k].itemsHealed <= text'[k + 1].itemsHealed
    <3>1. k \in 1 .. Len(text) /\ text'[k] = text[k]
      BY <1>3, <1>4, <2>2
    <3>2. CASE k = Len(text)
      <4>1. text # <<>> /\ text'[k + 1] = hs
        BY <1>4, <3>1, <3>2
      <4>2. Follows(hs, text[k])
        BY <1>3, <3>2, <4>1 DEF SentBefore
      <4> QED
        BY <3>1, <4>1, <4>2 DEF Follows
    <3>3. CASE k # Len(text)
      <4>1. k \in 1 .. Len(text) - 1 /\ k + 1 \in 1 .. Len(text)
        BY <1>3, <3>1, <3>3
      <4>2. text'[k + 1] = text[k + 1]
        BY <1>4, <4>1
      <4> QED
        BY <1>3, <3>1, <4>1, <4>2 DEF FramesConsistent
    <3> QED
      BY <3>2, <3>3
  <2> QED
    BY <2>1, <2>2 DEF FramesConsistent
<1>10. SentOrLost'
  <2>1. ASSUME broken = 0 PROVE Last(text').list = reported
    <3>1. reported = hs.list
      <4>1. hs.list \o pending = hs.list
        BY <1>3, <1>5, ConcatEmptySeq
      <4> QED
        BY <1>3, <2>1, <4>1 DEF ListIsReported
    <3>2. Last(text') = hs
      BY <1>4 DEF Last
    <3> QED
      BY <3>1, <3>2
  <2> QED
    BY <1>1, <1>2, <1>4, <2>1 DEF SentOrLost
<1> QED
  BY <1>1, <1>6, <1>7, <1>8, <1>9, <1>10 DEF FramesIInv

LEMMA StepKeepsFrames == FramesIInv /\ [Next]_vars => FramesIInv'
<1> SUFFICES ASSUME FramesIInv, [Next]_vars PROVE FramesIInv'
  OBVIOUS
<1>1. CASE UNCHANGED vars
  <2>1. IInv'
    BY <1>1, StepKeepsIInv DEF FramesIInv
  <2>2. TypeOK'
    BY <1>1 DEF FramesIInv, TypeOK, ConnTypeOK
  <2>3. StatusOK' /\ ListIsReported' /\ Bounded' /\ SentBefore' /\ FramesConsistent'
    BY <1>1, QuietKeeps DEF QuietHeal
  <2>4. SentOrLost'
    BY <1>1 DEF FramesIInv, SentOrLost
  <2> QED
    BY <2>1, <2>2, <2>3, <2>4 DEF FramesIInv
<1>2. CASE UNCHANGED healVars /\ (ServeWS \/ SessionStep \/ ReadFails \/ PeerStep)
  BY <1>2, OutsideKeepsFrames
<1>3. CASE Body
  BY <1>3, QuietBodyKeepsFrames, PollAnsweredKeepsFrames, UpdateStatsKeepsFrames, SendStatusKeepsFrames DEF Body
<1> QED
  BY <1>1, <1>2, <1>3 DEF Next, Handler

-----------------------------------------------------------------------------
\* The session, its accumulated status and every frame keep their types; answers
\* that broke off (writeStatus returned early) are never more than the answers.
THEOREM HealTypeCorrect == Spec => []TypeOK
<1>1. FramesIInv => TypeOK
  BY DEF FramesIInv
<1> QED
  BY FramesInit, StepKeepsFrames, <1>1, PTL DEF Spec

\* Every status writeStatus sends counts each listed item under one colour before and
\* one after, counts no other item but those that broke an answer off, and takes
\* back nothing of the status sent before it.
THEOREM FramesAgree == Spec => []FramesConsistent
<1>1. FramesIInv => FramesConsistent
  BY DEF FramesIInv
<1> QED
  BY FramesInit, StepKeepsFrames, <1>1, PTL DEF Spec

\* When a heal that finished ends in a normal close frame and its browser is there,
\* the last status holds every item MinIO reported, though writeStatus's error is
\* dropped: the write that failed makes the close frame fail too.
THEOREM FinishReported == Spec => []FinishedIsReported
<1>1. FramesIInv => FinishedIsReported
  <2> SUFFICES ASSUME FramesIInv, closeCode = "normal", summary = "finished", broken = 0, peer # "gone"
               PROVE  text # <<>> /\ Last(text).list = reported
    BY DEF FinishedIsReported
  <2>1. step = "returned"
    BY DEF FramesIInv, IInv, BodyControl, CloseIsLast
  <2> QED
    BY <2>1 DEF FramesIInv, SentOrLost
<1> QED
  BY FramesInit, StepKeepsFrames, <1>1, PTL DEF Spec
=============================================================================
