------------------------------ MODULE MCServices ------------------------------
(***************************************************************************)
(* Services outside the console and what it does with their answers, for   *)
(* TLC: the GKE integration of tenants, the SUBNET licence, the details of *)
(* a widget. They share nothing: a behaviour is about one of them and      *)
(* leaves the other two as they are.                                       *)
(***************************************************************************)
EXTENDS GkeIntegration, License, WidgetDetails

VARIABLE about

vars == <<about, gkeVars, licenseVars, widgetVars>>

\* The name of the tenant "t" starts that of "t2".
PrefixNames == {<<"t", "t">>, <<"t2", "t2">>, <<"t", "t2">>}

\* The loop beside a request, with a restart or a refresh with another request.
Kind(k) == [kind |-> k, tenant |-> "a"]
NoTask == Kind("none")
LoopAnd(k, n) == [tasks |-> [r1 |-> Kind(k), r2 |-> NoTask], loop |-> TRUE, restarts |-> n]
RefreshAnd(t, n) == [tasks |-> [r1 |-> Kind("refresh"), r2 |-> t], loop |-> FALSE, restarts |-> n]
MCScenarios ==
  {LoopAnd("validate", 0), RefreshAnd(NoTask, 1)}
    \cup {RefreshAnd(t, 0) : t \in {Kind("refresh"), Kind("validate"), Kind("activate"),
                                    [kind |-> "activate", tenant |-> "b"]}}

NoGke == pods = {} /\ GkeInit
NoLicense ==
  /\ LicenseInit /\ issued = 0 /\ restarts = 0 /\ work["loop"] = "idle"
NoWidget == WidgetInit /\ params = [known |-> FALSE, range |-> FALSE, step |-> FALSE]

Init ==
  \/ about = "gke" /\ GkeInit /\ NoLicense /\ NoWidget
  \/ about = "licence" /\ LicenseInit /\ NoGke /\ NoWidget
  \/ about = "widget" /\ WidgetInit /\ NoGke /\ NoLicense

Next ==
  \/ about = "gke" /\ GkeNext /\ UNCHANGED <<about, licenseVars, widgetVars>>
  \/ about = "licence" /\ LicenseNext /\ UNCHANGED <<about, gkeVars, widgetVars>>
  \/ about = "widget" /\ WidgetNext /\ UNCHANGED <<about, gkeVars, licenseVars>>

\* Of each, in the behaviours about it: the fairness that GkeFairness,
\* LicenseFairness and WidgetFairness state.
Progress ==
  \/ about = "gke" /\ GkeProgress /\ UNCHANGED <<about, licenseVars, widgetVars>>
  \/ about = "licence" /\ LoopProgress /\ UNCHANGED <<about, gkeVars, widgetVars>>
  \/ about = "widget" /\ WidgetProgress /\ UNCHANGED <<about, gkeVars, licenseVars>>

Spec == Init /\ [][Next]_vars /\ WF_vars(Progress)

\* Integrations and widgets are answered: see IntegrationsAnswered and
\* AnsweredUnlessQueryFails.
RequestsAnswered ==
  /\ about = "gke" => IntegrationsAnswered
  /\ about = "widget" => AnsweredUnlessQueryFails

\* See LoopGoesOn.
RefreshGoesOn == about = "licence" => LoopGoesOn
=============================================================================
