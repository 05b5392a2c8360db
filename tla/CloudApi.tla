------------------------------ MODULE CloudApi ------------------------------
(***************************************************************************)
(* The parts of the cloud behind the api service that have no variable in  *)
(* common: the parser of the rules, the authorisation that uses it, the    *)
(* object requests, the requests about policies, plans and jobs, the       *)
(* lists, and a call of the client for huawei's stores.  A behaviour is    *)
(* one of one part while the others rest; as none reads what another       *)
(* writes, what holds of each holds of them together.                      *)
(***************************************************************************)
EXTENDS S3Gateway, RuleParser, Authorization, DataflowDesk, Listing, ObsHttp

VARIABLE part  \* the part that is at work

apiVars == <<gatewayVars, parserVars, authVars, deskVars, listVars, obsVars, part>>

Parts == {"parser", "authorization", "gateway", "desk", "lists", "obs"}

GatewayRests == GatewayStart(NoWorld)
AuthRests == AuthStart([filter |-> "noauth", policy |-> "noauth"], NoFile, "expired")
DeskRests == DeskStart(NoShift)
ListsRest == ListStart({})

ApiInit ==
  /\ part \in Parts
  /\ ParserInit
  /\ IF part = "authorization" THEN AuthInit ELSE AuthRests
  /\ IF part = "gateway" THEN GatewayInit ELSE GatewayRests
  /\ IF part = "desk" THEN DeskInit ELSE DeskRests
  /\ IF part = "lists" THEN ListInit ELSE ListsRest
  /\ ObsInit

ApiNext ==
  \/ part = "parser" /\ ParserNext /\ UNCHANGED <<part, gatewayVars, authVars, deskVars, listVars, obsVars>>
  \/ part = "authorization" /\ AuthNext /\ UNCHANGED <<part, gatewayVars, parserVars, deskVars, listVars, obsVars>>
  \/ part = "gateway" /\ GatewayNext /\ UNCHANGED <<part, parserVars, authVars, deskVars, listVars, obsVars>>
  \/ part = "desk" /\ DeskNext /\ UNCHANGED <<part, gatewayVars, parserVars, authVars, listVars, obsVars>>
  \/ part = "lists" /\ ListNext /\ UNCHANGED <<part, gatewayVars, parserVars, authVars, deskVars, obsVars>>
  \/ part = "obs" /\ ObsNext /\ UNCHANGED <<part, gatewayVars, parserVars, authVars, deskVars, listVars>>

ApiSpec == ApiInit /\ [][ApiNext]_apiVars

(* Every part keeps the types of its variables; of the gateway, a handler    *)
(* about to call a store has an adapter for it.                              *)
ApiTypeOK == GatewayTypeOK /\ AuthTypeOK /\ DeskTypeOK /\ ListTypeOK /\ ObsTypeOK
=============================================================================
