----------------------------- MODULE WidgetDetails -----------------------------
(***************************************************************************)
(* The details of a widget of the dashboard: getWidgetDetails asks         *)
(* Prometheus for the values of some labels, a goroutine each, waits for   *)
(* them until nothing has come for a second, asks for the targets of the   *)
(* widget, a goroutine each, and answers once all targets have come.       *)
(***************************************************************************)
EXTENDS Naturals, Sequences, FiniteSets

CONSTANTS
  Labels,     \* the labels it asks for
  Targets     \* the targets of the widget

ASSUME WidgetAssumption == IsFiniteSet(Labels) /\ IsFiniteSet(Targets) /\ Targets # {}

VARIABLES
  params,       \* what the request gives: a widget there is, a range, a step
  prometheus,   \* whether Prometheus answers queries, and how
  widgetPc,     \* where the handler is
  labelTask,    \* labelTask[l]: the goroutine of label l
  labelMap,     \* the labels whose values the handler has
  targetTask,   \* targetTask[t]: the goroutine of target t
  received,     \* the targets of the answer, in the order they came
  resultsClosed,\* the channel of the targets is closed
  widgetAnswer,
  panicked      \* why a goroutine panicked, which ends the process

tasks == <<labelTask, targetTask>>
widgetVars == <<params, prometheus, widgetPc, tasks, labelMap, received, resultsClosed,
                widgetAnswer, panicked>>

Params == [known : BOOLEAN, range : BOOLEAN, step : BOOLEAN]
TaskStates == {"none", "fetch", "send", "over"}

\* Every target in the answer comes from its own goroutine, which has ended.
WidgetTypeOK ==
  /\ params \in Params
  /\ prometheus \in {"healthy", "refuses", "unreachable"}
  /\ widgetPc \in {"test", "labels", "launch", "targets", "done"}
  /\ labelTask \in [Labels -> TaskStates] /\ targetTask \in [Targets -> TaskStates]
  /\ labelMap \subseteq Labels /\ \A l \in labelMap : labelTask[l] = "over"
  /\ received \in Seq(Targets) /\ \A k \in DOMAIN received : targetTask[received[k]] = "over"
  /\ resultsClosed \in BOOLEAN
  /\ widgetAnswer \in {"none", "ok", "error"}
  /\ panicked \in {"no", "nil response", "nil step", "closed channel"}
  /\ widgetPc = "done" <=> widgetAnswer # "none"

WidgetInit ==
  /\ params \in Params
  /\ prometheus = "healthy"
  /\ widgetPc = "test"
  /\ labelTask = [l \in Labels |-> "none"] /\ targetTask = [t \in Targets |-> "none"]
  /\ labelMap = {} /\ received = <<>> /\ resultsClosed = FALSE
  /\ widgetAnswer = "none" /\ panicked = "no"

HandlerGoes(l) == widgetPc' = l /\ UNCHANGED widgetAnswer
Answer(a) == widgetPc' = "done" /\ widgetAnswer' = a

\* Prometheus may begin to fail, or recover, at any time.
PrometheusChanges ==
  /\ prometheus' \in {"healthy", "refuses", "unreachable"} \ {prometheus}
  /\ UNCHANGED <<params, widgetPc, tasks, labelMap, received, resultsClosed, widgetAnswer, panicked>>

-----------------------------------------------------------------------------
(* The handler. *)

\* testPrometheusURL: only a healthy Prometheus is asked.
TestPrometheus ==
  /\ widgetPc = "test"
  /\ IF prometheus = "healthy"
       THEN HandlerGoes("labels") /\ labelTask' = [l \in Labels |-> "fetch"]
       ELSE Answer("error") /\ UNCHANGED labelTask
  /\ UNCHANGED <<params, prometheus, targetTask, labelMap, received, resultsClosed, panicked>>

ReceiveLabel(l) ==
  /\ widgetPc = "labels" /\ labelTask[l] = "send"
  /\ labelTask' = [labelTask EXCEPT ![l] = "over"]
  /\ labelMap' = labelMap \cup {l}
  /\ HandlerGoes(IF Cardinality(labelMap') >= Cardinality(Labels) THEN "launch" ELSE "labels")
  /\ UNCHANGED <<params, prometheus, targetTask, received, resultsClosed, panicked>>

\* Nothing has come for a second.
LabelsTimeOut ==
  /\ widgetPc = "labels"
  /\ HandlerGoes("launch")
  /\ UNCHANGED <<params, prometheus, tasks, labelMap, received, resultsClosed, panicked>>

LaunchTargets ==
  /\ widgetPc = "launch"
  /\ IF params.known
       THEN HandlerGoes("targets") /\ targetTask' = [t \in Targets |-> "fetch"]
       ELSE Answer("error") /\ UNCHANGED targetTask
  /\ UNCHANGED <<params, prometheus, labelTask, labelMap, received, resultsClosed, panicked>>

\* Mutated form of CloseResults: off by one, a target early.
CloseResultsEarly(count) == count + 1 >= Cardinality(Targets)

\* The channel is closed with the last target, which ends the loop.
CloseResults(count) == count >= Cardinality(Targets)

ReceiveTarget(t) ==
  /\ widgetPc = "targets" /\ ~resultsClosed /\ targetTask[t] = "send"
  /\ targetTask' = [targetTask EXCEPT ![t] = "over"]
  /\ received' = Append(received, t)
  /\ resultsClosed' = CloseResults(Len(received'))
  /\ UNCHANGED <<params, prometheus, widgetPc, labelTask, labelMap, widgetAnswer, panicked>>

ReturnWidget ==
  /\ widgetPc = "targets" /\ resultsClosed
  /\ Answer("ok")
  /\ UNCHANGED <<params, prometheus, tasks, labelMap, received, resultsClosed, panicked>>

-----------------------------------------------------------------------------
(* The goroutines. unmarshalPrometheus logs the status of the response,      *)
(* also when there is none.                                                  *)

Panic(why) == panicked' = why
NoPanic == UNCHANGED panicked

FetchLabel(l) ==
  /\ labelTask[l] = "fetch"
  /\ CASE prometheus = "healthy" -> labelTask' = [labelTask EXCEPT ![l] = "send"] /\ NoPanic
       [] prometheus = "refuses" -> labelTask' = [labelTask EXCEPT ![l] = "over"] /\ NoPanic
       [] OTHER -> Panic("nil response") /\ UNCHANGED labelTask
  /\ UNCHANGED <<params, prometheus, widgetPc, targetTask, labelMap, received, resultsClosed,
                 widgetAnswer>>

\* A range without a step is formatted with the step all the same.
FetchTarget(t) ==
  /\ targetTask[t] = "fetch"
  /\ CASE params.range /\ ~params.step -> Panic("nil step") /\ UNCHANGED targetTask
       [] prometheus = "healthy" -> targetTask' = [targetTask EXCEPT ![t] = "send"] /\ NoPanic
       [] prometheus = "refuses" -> targetTask' = [targetTask EXCEPT ![t] = "over"] /\ NoPanic
       [] OTHER -> Panic("nil response") /\ UNCHANGED targetTask
  /\ UNCHANGED <<params, prometheus, widgetPc, labelTask, labelMap, received, resultsClosed,
                 widgetAnswer>>

\* A goroutine that sends, or waits to, on a channel that is closed panics.
SendOnClosed(t) ==
  /\ targetTask[t] = "send" /\ resultsClosed
  /\ Panic("closed channel")
  /\ UNCHANGED <<params, prometheus, widgetPc, tasks, labelMap, received, resultsClosed, widgetAnswer>>

Handler ==
  \/ TestPrometheus \/ LabelsTimeOut \/ LaunchTargets \/ ReturnWidget
  \/ \E l \in Labels : ReceiveLabel(l)
  \/ \E t \in Targets : ReceiveTarget(t)
LabelGoroutine(l) == FetchLabel(l)
TargetGoroutine(t) == FetchTarget(t) \/ SendOnClosed(t)

\* What can run does: the handler, also through its timer, and the goroutines,
\* whose queries are answered or fail. (There are so many steps of theirs that it
\* need not be fair to each by itself.)
WidgetProgress ==
  /\ panicked = "no"
  /\ \/ Handler
     \/ \E l \in Labels : LabelGoroutine(l)
     \/ \E t \in Targets : TargetGoroutine(t)

WidgetNext == WidgetProgress \/ (panicked = "no" /\ PrometheusChanges)

WidgetSpec == WidgetInit /\ [][WidgetNext]_widgetVars

WidgetFairness == WF_widgetVars(WidgetProgress)

FairWidgetSpec == WidgetSpec /\ WidgetFairness
-----------------------------------------------------------------------------
\* A query that did not bring its target.
TargetMissed(t) ==
  targetTask[t] = "over" /\ \A k \in DOMAIN received : received[k] # t

\* An answer has every target of the widget exactly once, though they come in
\* any order and the loop only counts them; and no goroutine still sends when
\* the receiver closes the channel, which would end the process.
WidgetIsComplete ==
  /\ panicked # "closed channel"
  /\ widgetAnswer = "ok" =>
       /\ Len(received) = Cardinality(Targets)
       /\ \A t \in Targets : \E k \in DOMAIN received : received[k] = t

\* A request is answered, whatever becomes of the labels, unless the query of a
\* target failed (then nobody closes the channel) or the process ended.
AnsweredUnlessQueryFails ==
  <>[](widgetPc = "done" \/ panicked # "no" \/ \E t \in Targets : TargetMissed(t))

\* "We test if prometheus URL is reachable. this is meant to avoid unuseful
\* calls and application hang": every request is answered (admin_info.go:939).
NoApplicationHang == <>(widgetPc = "done" \/ panicked # "no")
=============================================================================
