---------------------------- MODULE ToolAdmission ----------------------------
(***************************************************************************)
(* What a turn may use, and what may refuse it or a call of it: the        *)
(* routing of a turn's tools next to the checks of turns and calls.  They  *)
(* share no state, and a policy may come or go, or a call of an earlier    *)
(* turn reach the gate, between any two steps of the routing.              *)
(***************************************************************************)
EXTENDS ToolRouting, SafetyChecks

admissionVars == <<routingVars, safetyVars>>

AdmissionInit == RoutingInit /\ SafetyInit

AdmissionNext ==
    \/ RoutingNext /\ UNCHANGED safetyVars
    \/ SafetyNext /\ UNCHANGED routingVars

AdmissionSpec == AdmissionInit /\ [][AdmissionNext]_admissionVars

AdmissionIInv == RouteIInv /\ SafetyIInv

(* The selection, the task and the offer of a turn are what the host's       *)
(* policy makes of the proposals, and what a policy or the gate refuses does *)
(* not go on.                                                                *)
ToolsAdmitted == RouteSound /\ SafetySound
=============================================================================
