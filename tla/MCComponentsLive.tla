-------------------------- MODULE MCComponentsLive --------------------------
(* The components that promise to get something done, under fairness.  As in *)
(* MCComponents one of them, part, moves in a behaviour; no fair action of   *)
(* the others is enabled in its initial state.                               *)
EXTENDS ApprovalGateProps, Notifications, StandingWork, DocumentStore, TLC

CONSTANTS Parts, p1, p2

VARIABLE part

all == <<part, gateVars, notificationVars, standingVars, documentVars>>

Init ==
  /\ part \in Parts
  /\ GateInit /\ NotificationsInit /\ StandingInit /\ DocumentsInit
  /\ (part # "gate" => \A t \in Tasks : rows[t] = "running")

GateMoves == part = "gate" /\ GateNext
  /\ UNCHANGED <<part, notificationVars, standingVars, documentVars>>
NotificationsMove == part = "notifications" /\ NotificationsNext
  /\ UNCHANGED <<part, gateVars, standingVars, documentVars>>
StandingMoves == part = "standing" /\ StandingNext
  /\ UNCHANGED <<part, gateVars, notificationVars, documentVars>>
DocumentsMove == part = "documents" /\ DocumentsNext
  /\ UNCHANGED <<part, gateVars, notificationVars, standingVars>>

Next == GateMoves \/ NotificationsMove \/ StandingMoves \/ DocumentsMove

Spec == Init /\ [][Next]_all

FairSpec ==
  /\ Spec
  /\ GateFairness /\ NotificationsFairness /\ StandingFairness /\ DocumentsFairness

TwoAtOnce == <<"deferrable", "critical">>
TwoOfOneTask == [a \in Approvals |-> "t1"]
TwoPayloads == [a \in Approvals |-> a]
LockingOps == {"decide", "withdraw", "cancel", "repair"}
=============================================================================
