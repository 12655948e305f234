---------------------------- MODULE ConditionSet ----------------------------
(***************************************************************************)
(* The living condition set of an Ingress (knative.dev/pkg/apis            *)
(* condition_set.go, instantiated by ingress_lifecycle.go): the happy      *)
(* condition Ready and the dependents NetworkConfigured and                *)
(* LoadBalancerReady.  A set of conditions is a function from the          *)
(* condition types to their statuses, "Unset" standing for an absent       *)
(* condition.  Reasons, messages and transition times are left out.        *)
(***************************************************************************)

Happy == "Ready"
Dependents == {"NetworkConfigured", "LoadBalancerReady"}
ConditionTypes == {Happy} \cup Dependents
ConditionStatuses == {"Unset", "Unknown", "True", "False"}
Conditions == [ConditionTypes -> ConditionStatuses]

NoConditions == [t \in ConditionTypes |-> "Unset"]

SetCondition(c, t, s) == [c EXCEPT ![t] = s]

\* Fault: a dependent that is only Unknown does not count as unhappy.
UnknownIsHappy(c) ==
  IF \E d \in Dependents : c[d] = "False" THEN "False" ELSE "True"

\* The status findUnhappyDependent propagates; "True" when all dependents are.
UnhappyStatus(c) ==
  IF \E d \in Dependents : c[d] = "False" THEN "False"
  ELSE IF \E d \in Dependents : c[d] \in {"Unknown", "Unset"} THEN "Unknown"
  ELSE "True"

RecomputeHappiness(c, t) ==
  IF UnhappyStatus(c) # "True" THEN SetCondition(c, Happy, UnhappyStatus(c))
  ELSE IF t # Happy THEN SetCondition(c, Happy, "True")
  ELSE c

MarkTrue(c, t) == RecomputeHappiness(SetCondition(c, t, "True"), t)

MarkFalse(c, t) ==
  LET c1 == SetCondition(c, t, "False")
  IN  IF t \in Dependents THEN SetCondition(c1, Happy, "False") ELSE c1

\* Only a dependent drags the happy condition along, and only when no
\* dependent is False.
MarkUnknown(c, t) ==
  LET c1 == SetCondition(c, t, "Unknown")
  IN  IF \E d \in Dependents : c1[d] = "False" THEN MarkFalse(c1, Happy)
      ELSE IF t \in Dependents THEN SetCondition(c1, Happy, "Unknown")
      ELSE c1

InitializeConditions(c) ==
  LET happy  == IF c[Happy] = "Unset" THEN "Unknown" ELSE c[Happy]
      status == IF happy = "True" THEN "True" ELSE "Unknown"
  IN  [t \in ConditionTypes |->
         IF t = Happy THEN happy
         ELSE IF c[t] = "Unset" THEN status
         ELSE c[t]]

\* "If the happy state is true, it implies that all of the terminal
\* subconditions must be true" (comment in InitializeConditions).
HappyImpliesDependents(c) ==
  c[Happy] = "True" => \A d \in Dependents : c[d] = "True"

=============================================================================
