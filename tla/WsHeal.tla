-------------------------------- MODULE WsHeal --------------------------------
(***************************************************************************)
(* The session of /heal (startHeal): it starts a heal sequence, asks MinIO *)
(* once a second for the items healed since the last answer, adds them to  *)
(* a status that accumulates and sends that status to the browser. What    *)
(* writeStatus returns is not looked at.                                   *)
(***************************************************************************)
EXTENDS WsConn, SequencesExt

CONSTANTS
  HealedItems,  \* items a heal may report (see HealColor)
  MaxBatch,     \* items in one answer (a bound of the model)
  MaxPolls      \* answers before the server stays silent (a bound)

ASSUME HealBoundsAssumption == MaxBatch \in Nat /\ MaxPolls \in Nat

VARIABLES
  step,       \* where startHeal is
  forceStop,  \* the option of the request
  hs,         \* the accumulated status
  pending,    \* the items of the last answer that writeStatus has yet to add
  summary,    \* the state of the heal in the last answer
  reported,   \* all items of all answers, in order (history)
  broken,     \* answers whose items were not all listed (history)
  polls,      \* answers so far
  met         \* the error startHeal met, "nil" if none (history)

healVars == <<step, forceStop, hs, pending, summary, reported, broken, polls, met>>
vars == <<connVars, healVars>>

Hues == {"Grey", "Red", "Yellow", "Green"}

Color == INSTANCE HealColor WITH MaxDrives <- 16, MaxSets <- 1, item <- hs

NewStatus ==
  [items |-> 0, itemsHealed |-> 0, objects |-> 0, objectsHealed |-> 0,
   list |-> <<>>, beforeCols |-> [c \in Hues |-> 0],
   afterCols |-> [c \in Hues |-> 0]]

Batches == UNION {[1..n -> HealedItems] : n \in 0..MaxBatch}

Statuses ==
  [items : Nat, itemsHealed : Nat, objects : Nat, objectsHealed : Nat, list : Seq(HealedItems),
   beforeCols : [Hues -> Nat], afterCols : [Hues -> Nat]]

TypeOK ==
  /\ ConnTypeOK
  /\ step \in {"start", "select", "poll", "update", "send", "judge", "returned"}
  /\ forceStop \in BOOLEAN
  /\ hs \in Statuses /\ text \in Seq(Statuses)
  /\ pending \in Seq(HealedItems)
  /\ pending # <<>> <=> step = "update"
  /\ summary \in {"none", "running", "finished", "stopped"}
  /\ reported \in Seq(HealedItems)
  /\ broken \in 0..MaxPolls
  /\ polls \in 0..MaxPolls
  /\ met \in Results
  /\ step \in {"select", "poll", "update", "send", "judge"} => hpc = "run"

Init ==
  /\ ConnInit
  /\ step = "start"
  /\ forceStop \in BOOLEAN
  /\ hs = NewStatus
  /\ pending = <<>>
  /\ summary = "none"
  /\ reported = <<>>
  /\ broken = 0
  /\ polls = 0
  /\ met = "nil"

-----------------------------------------------------------------------------
(* healStatus. *)

ColorBefore(i) == Color!ColorOf(i, i.before)
ColorAfter(i) == Color!ColorOf(i, i.after)
Listable(i) == ColorBefore(i) # "error" /\ ColorAfter(i) # "error"

CountIf(b) == IF b THEN 1 ELSE 0

\* The counters at the top of updateStats, which come before the colours.
Counted(h, i) ==
  LET object == i.type = "object"
      healed == Color!Online(i, i.after) > Color!Online(i, i.before)
  IN  [h EXCEPT !.items = @ + 1,
                !.objects = @ + CountIf(object),
                !.itemsHealed = @ + CountIf(healed),
                !.objectsHealed = @ + CountIf(healed /\ object)]

Listed(h, i) ==
  [h EXCEPT !.list = Append(@, i),
            !.beforeCols[ColorBefore(i)] = @ + 1,
            !.afterCols[ColorAfter(i)] = @ + 1]

updateStats(h, i) ==
  IF Listable(i) THEN Listed(Counted(h, i), i) ELSE Counted(h, i)

-----------------------------------------------------------------------------
(* startHeal. *)

Return(r) ==
  /\ ReturnBody(r)
  /\ step' = "returned"
  /\ met' = IF r = "nil" THEN met ELSE r

UnchangedConn ==
  UNCHANGED <<request, api, reader, canceled, peer, closed, text, closeCode,
              unread>>

Goto(label) ==
  /\ step' = label
  /\ UNCHANGED <<hpc, result, met>>

StartHeal ==
  /\ hpc = "run" /\ step = "start"
  /\ \/ \E r \in {"error", "timeout"} : Return(r)
     \/ IF forceStop THEN Return("nil") ELSE Goto("select")
  /\ UnchangedConn
  /\ UNCHANGED <<forceStop, hs, pending, summary, reported, broken, polls>>

\* select with a default case.
Select ==
  /\ hpc = "run" /\ step = "select"
  /\ IF canceled THEN Return("nil") ELSE Goto("poll")
  /\ UnchangedConn
  /\ UNCHANGED <<forceStop, hs, pending, summary, reported, broken, polls>>

\* Mutated form of AfterItems: the last status is not sent.
AfterItemsUnlessFinished(batch, s) ==
  IF batch # <<>> THEN "update" ELSE IF s = "finished" THEN "judge" ELSE "send"

\* writeStatus adds the items one by one, then sends the status.
AfterItems(batch, s) == IF batch # <<>> THEN "update" ELSE "send"

\* The heal call was answered; the items are added to status h.
Answered(h) ==
  /\ hpc = "run" /\ step = "poll"
  /\ polls < MaxPolls
  /\ \E batch \in Batches, s \in {"running", "finished", "stopped"} :
       /\ pending' = batch
       /\ reported' = reported \o batch
       /\ summary' = s
       /\ Goto(AfterItems(batch, s))
  /\ hs' = h
  /\ polls' = polls + 1
  /\ UnchangedConn
  /\ UNCHANGED <<forceStop, broken>>

\* Mutated form of PollAnswered: the status starts afresh with every answer.
PollAnsweredAfresh == Answered(NewStatus)

PollAnswered == Answered(hs)

\* writeStatus returns early for an item without a colour, which is counted.
UpdateStats ==
  /\ hpc = "run" /\ step = "update"
  /\ hs' = updateStats(hs, Head(pending))
  /\ IF Listable(Head(pending))
       THEN /\ pending' = Tail(pending) /\ UNCHANGED broken
            /\ Goto(AfterItems(Tail(pending), summary))
       ELSE pending' = <<>> /\ broken' = broken + 1 /\ Goto("judge")
  /\ UnchangedConn
  /\ UNCHANGED <<forceStop, summary, reported, polls>>

\* The call returns an error: MinIO's, or the one of the cancelled context.
PollFails ==
  /\ hpc = "run" /\ step = "poll"
  /\ polls < MaxPolls \/ canceled
  /\ \E r \in {"error", "timeout"} : Return(r)
  /\ UnchangedConn
  /\ UNCHANGED <<forceStop, hs, pending, summary, reported, broken, polls>>

\* The second part of writeStatus: the message holds all of the status.
SendStatus ==
  /\ hpc = "run" /\ step = "send"
  /\ WriteText(hs)
  /\ Goto("judge")
  /\ UNCHANGED <<request, api, reader, canceled, peer, closed, forceStop, hs,
                 pending, summary, reported, broken, polls>>

\* Mutated form of SendFails: the status is sent again until it goes.
SendRetries ==
  /\ hpc = "run" /\ step = "send"
  /\ WriteFails
  /\ Goto("send")
  /\ UnchangedConn
  /\ UNCHANGED <<forceStop, hs, pending, summary, reported, broken, polls>>

SendFails ==
  /\ hpc = "run" /\ step = "send"
  /\ WriteFails
  /\ Goto("judge")
  /\ UnchangedConn
  /\ UNCHANGED <<forceStop, hs, pending, summary, reported, broken, polls>>

\* Mutated form of Judge: a heal that stopped is taken for one that finished.
JudgeStoppedAsFinished ==
  /\ hpc = "run" /\ step = "judge"
  /\ IF summary = "running" THEN Goto("select") ELSE Return("nil")
  /\ UnchangedConn
  /\ UNCHANGED <<forceStop, hs, pending, summary, reported, broken, polls>>

\* Then the session sleeps for a second, or returns.
Judge ==
  /\ hpc = "run" /\ step = "judge"
  /\ CASE summary = "finished" -> Return("nil")
       [] summary = "stopped"  -> Return("error")
       [] OTHER                -> Goto("select")
  /\ UnchangedConn
  /\ UNCHANGED <<forceStop, hs, pending, summary, reported, broken, polls>>

-----------------------------------------------------------------------------
Body ==
  \/ StartHeal
  \/ Select
  \/ PollAnswered
  \/ PollFails
  \/ UpdateStats
  \/ SendStatus
  \/ SendFails
  \/ Judge

Handler == Body \/ (SessionStep /\ UNCHANGED healVars)

Next ==
  \/ ServeWS /\ UNCHANGED healVars
  \/ Handler
  \/ ReadFails /\ UNCHANGED healVars
  \/ PeerStep /\ UNCHANGED healVars

Spec == Init /\ [][Next]_vars

\* The goroutines run when they can, MinIO answers or notices the context, and
\* a browser reads what it is sent.
Fairness ==
  /\ WF_vars(Handler)
  /\ WF_vars(ReadFails /\ UNCHANGED healVars)
  /\ WF_vars(PeerRead /\ UNCHANGED healVars)

FairSpec == Spec /\ Fairness

-----------------------------------------------------------------------------
(* Properties. *)

Total(cols) == cols["Grey"] + cols["Red"] + cols["Yellow"] + cols["Green"]

\* Every status sent agrees with itself: each listed item is counted under one
\* colour before and one after, and as long as every item had a colour, the
\* counters count the listed items. And the statuses accumulate: none takes back
\* an item or a count of the one before.
FramesConsistent ==
  /\ \A k \in DOMAIN text :
       LET f == text[k] IN
       /\ Total(f.beforeCols) = Len(f.list) /\ Total(f.afterCols) = Len(f.list)
       /\ f.items - Len(f.list) \in 0..broken
       /\ f.itemsHealed <= f.items /\ f.objectsHealed <= f.objects
  /\ \A k \in 1..Len(text) - 1 :
       /\ IsPrefix(text[k].list, text[k + 1].list)
       /\ text[k].items <= text[k + 1].items
       /\ text[k].itemsHealed <= text[k + 1].itemsHealed

\* When a session ends normally after the heal finished, the last status its
\* browser gets lists every item MinIO reported, although errors of the write
\* are not looked at: while the browser is there, a write that fails makes the
\* close frame fail too. Answers with an item without a colour are the exception.
FinishedIsReported ==
  closeCode = "normal" /\ summary = "finished" /\ broken = 0 /\ peer # "gone" =>
    text # <<>> /\ Last(text).list = reported

\* A heal that MinIO stopped, or a call that failed, never ends in a normal
\* close frame, nor a heal that finished in one that names an error.
HealClosesTruthfully ==
  /\ closeCode = "normal" => met = "nil" /\ summary # "stopped"
  /\ closeCode \in {"policy", "internal"} => met # "nil" /\ summary # "finished"

\* Once the browser left, the session ends within a poll and stops asking MinIO.
HealEnds == canceled ~> hpc = "done"
=============================================================================
