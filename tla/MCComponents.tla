---------------------------- MODULE MCComponents ----------------------------
(* Small instances of the components that meet only through the tasks they   *)
(* create: in each behaviour one of them, part, moves, so that one run       *)
(* explores the sum of their states and not the product.                     *)
EXTENDS ApprovalGateProps, Notifications, StandingWork, GitPrExecutor, DocumentStore,
        VerificationUpload, OpsTurns, OpsCards, Dependencies, CompanyMemory, Objectives,
        ServiceExecutors, AiOperations, KnowledgeProposals, FolderDocuments, TLC

CONSTANTS Parts, p1, p2, q1, q2

VARIABLE part

all == <<part, gateVars, notificationVars, standingVars, gitVars, documentVars, folderVars,
         turnVars, cardVars, verificationVars, dependencyVars, memoryVars, objectiveVars,
         serviceVars, aiVars, proposalVars>>

\* The gate, the cards and the folder start in several ways, in the behaviours that are
\* about them.
Init ==
  /\ part \in Parts
  /\ GateInit /\ NotificationsInit /\ StandingInit /\ GitPrInit /\ DocumentsInit
  /\ TurnsInit /\ CardsInit /\ VerificationInit /\ DependenciesInit
  /\ CompanyMemoryInit /\ ObjectivesInit /\ ServicesInit
  /\ AiInit /\ ProposalsInit
  /\ (part # "gate" => \A t \in Tasks : rows[t] = "running")
  /\ (part # "cards" => decided = [d \in Decisions |-> "none"])
  /\ FolderInit /\ (part # "folder" => file = "missing" /\ source = NoSource)

GateMoves == part = "gate" /\ GateNext
  /\ UNCHANGED <<part, notificationVars, standingVars, gitVars, documentVars, folderVars,
                 turnVars, cardVars, verificationVars, dependencyVars, memoryVars,
                 objectiveVars, serviceVars, aiVars, proposalVars>>
NotificationsMove == part = "notifications" /\ NotificationsNext
  /\ UNCHANGED <<part, gateVars, standingVars, gitVars, documentVars, folderVars, turnVars,
                 cardVars, verificationVars, dependencyVars, memoryVars, objectiveVars,
                 serviceVars, aiVars, proposalVars>>
StandingMoves == part = "standing" /\ StandingNext
  /\ UNCHANGED <<part, gateVars, notificationVars, gitVars, documentVars, folderVars, turnVars,
                 cardVars, verificationVars, dependencyVars, memoryVars, objectiveVars,
                 serviceVars, aiVars, proposalVars>>
GitPrMoves == part = "git" /\ GitPrNext
  /\ UNCHANGED <<part, gateVars, notificationVars, standingVars, documentVars, folderVars,
                 turnVars, cardVars, verificationVars, dependencyVars, memoryVars,
                 objectiveVars, serviceVars, aiVars, proposalVars>>
DocumentsMove == part = "documents" /\ DocumentsNext
  /\ UNCHANGED <<part, gateVars, notificationVars, standingVars, gitVars, folderVars, turnVars,
                 cardVars, verificationVars, dependencyVars, memoryVars, objectiveVars,
                 serviceVars, aiVars, proposalVars>>
FolderMoves == part = "folder" /\ FolderNext
  /\ UNCHANGED <<part, gateVars, notificationVars, standingVars, gitVars, documentVars,
                 turnVars, cardVars, verificationVars, dependencyVars, memoryVars,
                 objectiveVars, serviceVars, aiVars, proposalVars>>
TurnsMove == part = "turns" /\ TurnsNext
  /\ UNCHANGED <<part, gateVars, notificationVars, standingVars, gitVars, documentVars,
                 folderVars, cardVars, verificationVars, dependencyVars, memoryVars,
                 objectiveVars, serviceVars, aiVars, proposalVars>>
CardsMove == part = "cards" /\ CardsNext
  /\ UNCHANGED <<part, gateVars, notificationVars, standingVars, gitVars, documentVars,
                 folderVars, turnVars, verificationVars, dependencyVars, memoryVars,
                 objectiveVars, serviceVars, aiVars, proposalVars>>
VerificationMoves == part = "verification" /\ VerificationNext
  /\ UNCHANGED <<part, gateVars, notificationVars, standingVars, gitVars, documentVars,
                 folderVars, turnVars, cardVars, dependencyVars, memoryVars, objectiveVars,
                 serviceVars, aiVars, proposalVars>>
DependenciesMove == part = "dependencies" /\ DependenciesNext
  /\ UNCHANGED <<part, gateVars, notificationVars, standingVars, gitVars, documentVars,
                 folderVars, turnVars, cardVars, verificationVars, memoryVars, objectiveVars,
                 serviceVars, aiVars, proposalVars>>
MemoryMoves == part = "memory" /\ CompanyMemoryNext
  /\ UNCHANGED <<part, gateVars, notificationVars, standingVars, gitVars, documentVars,
                 folderVars, turnVars, cardVars, verificationVars, dependencyVars,
                 objectiveVars, serviceVars, aiVars, proposalVars>>
ObjectivesMove == part = "objectives" /\ ObjectivesNext
  /\ UNCHANGED <<part, gateVars, notificationVars, standingVars, gitVars, documentVars,
                 folderVars, turnVars, cardVars, verificationVars, dependencyVars, memoryVars,
                 serviceVars, aiVars, proposalVars>>
ServicesMove == part = "services" /\ ServicesNext
  /\ UNCHANGED <<part, gateVars, notificationVars, standingVars, gitVars, documentVars,
                 folderVars, turnVars, cardVars, verificationVars, dependencyVars, memoryVars,
                 objectiveVars, aiVars, proposalVars>>
AiMoves == part = "ai" /\ AiNext
  /\ UNCHANGED <<part, gateVars, notificationVars, standingVars, gitVars, documentVars,
                 folderVars, turnVars, cardVars, verificationVars, dependencyVars, memoryVars,
                 objectiveVars, serviceVars, proposalVars>>
ProposalsMove == part = "proposals" /\ ProposalsNext
  /\ UNCHANGED <<part, gateVars, notificationVars, standingVars, gitVars, documentVars,
                 folderVars, turnVars, cardVars, verificationVars, dependencyVars, memoryVars,
                 objectiveVars, serviceVars, aiVars>>

Next ==
  \/ GateMoves \/ NotificationsMove \/ StandingMoves \/ GitPrMoves \/ DocumentsMove \/ FolderMoves
  \/ TurnsMove \/ CardsMove \/ VerificationMoves \/ DependenciesMove
  \/ MemoryMoves \/ ObjectivesMove \/ ServicesMove \/ AiMoves
  \/ ProposalsMove

Spec == Init /\ [][Next]_all

\* The state of the component that moves keeps its type.
ComponentsTypeOK ==
  /\ part = "gate" => GateTypeOK
  /\ part = "notifications" => NotificationsTypeOK
  /\ part = "standing" => StandingTypeOK
  /\ part = "git" => GitPrTypeOK
  /\ part = "turns" => TurnsTypeOK
  /\ part = "cards" => CardsTypeOK
  /\ part = "documents" => DocumentsTypeOK
  /\ part = "folder" => FolderTypeOK
  /\ part = "verification" => VerificationTypeOK
  /\ part = "dependencies" => DependenciesTypeOK
  /\ part = "memory" => CompanyMemoryTypeOK
  /\ part = "objectives" => ObjectivesTypeOK
  /\ part = "services" => ServicesTypeOK
  /\ part = "ai" => AiTypeOK
  /\ part = "proposals" => ProposalsTypeOK

OneOfEach == <<"deferrable", "critical", "digest">>
TwoOfOneTask == [a \in Approvals |-> "t1"]
TwoPayloads == [a \in Approvals |-> a]
MostOps == {"decide", "cancel", "page"}
SoundAndNot == [file : {"f"}, report : {"passing", "unsound"}]
Alike == Permutations({p1, p2}) \cup Permutations({q1, q2})
=============================================================================
