------------------------------ MODULE MCRuntime -------------------------------
(* The gateway to the models and the loops of the supervisor, for TLC.     *)
(* They share no state; each behaviour exercises what topic selects, and   *)
(* of the gateway either overlapping edits or calls beside one operator.   *)
EXTENDS LLMGateway, Supervisor

VARIABLE topic

runtimeVars == <<topic, gatewayVars, supervisorVars>>

\* Every caller has a route of its own.
MCRouteOf == [c \in Caller |-> IF c = "live" THEN "chief" ELSE "review"]
MCOperator == CHOOSE o \in Operator : TRUE

Init == topic \in {"settings", "calls", "supervisor"} /\ GatewayInit /\ SupervisorInit

Settings ==
  topic = "settings" /\ (\E o \in Operator : SettingsNext(o)) /\ UNCHANGED <<topic, supervisorVars>>
Calls ==
  topic = "calls" /\ (CallsNext \/ SettingsNext(MCOperator)) /\ UNCHANGED <<topic, supervisorVars>>
Supervision ==
  topic = "supervisor" /\ SupervisorNext /\ UNCHANGED <<topic, gatewayVars>>

Fairness ==
  /\ \A p \in Provider : WF_gatewayVars(topic = "calls" /\ Elapse(p))
  /\ \A c \in Caller : WF_gatewayVars(topic = "calls" /\ CallerStep(c))
  /\ WF_supervisorVars(topic = "supervisor" /\ EndStop)
  /\ \A l \in Loop : WF_supervisorVars(topic = "supervisor" /\ LoopStep(l))

Spec == Init /\ [][Settings \/ Calls \/ Supervision]_runtimeVars /\ Fairness

RuntimeTypeOK == GatewayTypeOK /\ SupervisorTypeOK

\* Recovery of the routes, in the behaviours that invoke them.
RoutesRecover == topic = "calls" => ServiceResumes

\* An outage of a provider is kept to what was under way when it was noticed, and is over
\* when the provider is back.
OutagesAreBounded == []FewLateCalls /\ RoutesRecover
=============================================================================
