-------------------------- MODULE MCTrafficGateway --------------------------
(***************************************************************************)
(* The Traffic Gateway: two connections compete for one place, and limits  *)
(* reach the gateway. The two share no state that either looks at, so a    *)
(* behaviour is one of them, and the variables of the other stay as they   *)
(* are at first.                                                           *)
(***************************************************************************)
EXTENDS TrafficGateway, GatewayConfig

VARIABLE part

gatewayVars == <<part, vars, configVars>>

GatewayInit == part \in {"connections", "limits"} /\ Init /\ GatewayConfigInit

GatewayNext ==
  /\ UNCHANGED part
  /\ \/ part = "connections" /\ Next /\ UNCHANGED configVars
     \/ part = "limits" /\ GatewayConfigNext /\ UNCHANGED vars

\* What is fair of the connections is disabled when they are not the part.
LimitsFairness ==
  /\ WF_configVars(part = "limits" /\ Reconcile)
  /\ WF_configVars(part = "limits" /\ GatewayStarts)
  /\ \A p \in Posts : WF_configVars(part = "limits" /\ Serve(p))

GatewaySpec ==
  GatewayInit /\ [][GatewayNext]_gatewayVars /\ Fairness /\ LimitsFairness

\* GatewayFollows, of the behaviours in which the gateway is given limits: once
\* changes and failures end, it has those the database holds (reconcile).
LimitsFollow == part = "limits" => GatewayFollows
=============================================================================
