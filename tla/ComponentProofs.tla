--------------------------- MODULE ComponentProofs ---------------------------
(***************************************************************************)
(* All components at once (MCComponents): the state of each keeps its type *)
(* while it is the one that moves.  A step of the composition is a step of *)
(* the component that moves and of no other, so the inductive invariants   *)
(* of the components carry over.                                           *)
(***************************************************************************)
EXTENDS MCComponents, ExecutorProofs, OpsProofs, RecordsProofs, WorkProofs, DocumentProofs

\* What the proofs say of a component, if it is the one that moves.
InPart(p, inv) == part = p => inv

ComponentsInv ==
  /\ InPart("gate", GateBasis) /\ InPart("notifications", OutboxInv)
  /\ InPart("standing", StandingInv) /\ InPart("git", GitInv) /\ InPart("turns", TurnTypes)
  /\ InPart("cards", CardTypes) /\ InPart("documents", StoreTyped) /\ InPart("folder", FolderTyped)
  /\ InPart("verification", EvidenceInv) /\ InPart("dependencies", GraphInv)
  /\ InPart("memory", MemoryTypesHold) /\ InPart("objectives", ObjectiveTypes)
  /\ InPart("services", ServiceInv) /\ InPart("ai", AiTypes) /\ InPart("proposals", DraftTypes)

LEMMA ComponentsInvInit == ASSUME Init PROVE ComponentsInv
BY BasisInit, OutboxInvInit, StandingInvInit, GitInvInit, TurnTypesInit, CardTypesInit, StoreTypedInit,
   FolderTypedInit, EvidenceInvInit, GraphInvInit, MemoryTypesInit, ObjectiveTypesInit, ServiceInvInit,
   AiTypesInit, DraftTypesInit
DEF Init, ComponentsInv, InPart

\* A step is one of the component that moves.
LEMMA PartMoves ==
  ASSUME [Next]_all
  PROVE  /\ part' = part
         /\ part = "gate" => [GateNext]_gateVars
         /\ part = "notifications" => [NotificationsNext]_notificationVars
         /\ part = "standing" => [StandingNext]_standingVars
         /\ part = "git" => [GitPrNext]_gitVars
         /\ part = "turns" => [TurnsNext]_turnVars
         /\ part = "cards" => [CardsNext]_cardVars
         /\ part = "documents" => [DocumentsNext]_documentVars
         /\ part = "folder" => [FolderNext]_folderVars
         /\ part = "verification" => [VerificationNext]_verificationVars
         /\ part = "dependencies" => [DependenciesNext]_dependencyVars
         /\ part = "memory" => [CompanyMemoryNext]_memoryVars
         /\ part = "objectives" => [ObjectivesNext]_objectiveVars
         /\ part = "services" => [ServicesNext]_serviceVars
         /\ part = "ai" => [AiNext]_aiVars
         /\ part = "proposals" => [ProposalsNext]_proposalVars
BY DEF Next, all, GateMoves, NotificationsMove, StandingMoves, GitPrMoves, DocumentsMove, FolderMoves, TurnsMove,
   CardsMove, VerificationMoves, DependenciesMove, MemoryMoves, ObjectivesMove, ServicesMove, AiMoves, ProposalsMove

LEMMA ComponentsInvNext == ASSUME ComponentsInv, [Next]_all PROVE ComponentsInv'
<1>1. part' = part
  BY PartMoves
<1>2. InPart("gate", GateBasis)' /\ InPart("git", GitInv)' /\ InPart("services", ServiceInv)'
  BY <1>1, PartMoves, BasisNext, GitInvNext, ServiceInvNext DEF ComponentsInv, InPart
<1>3. InPart("turns", TurnTypes)' /\ InPart("cards", CardTypes)'
  BY <1>1, PartMoves, TurnTypesStep, CardTypesStep DEF ComponentsInv, InPart
<1>4. InPart("notifications", OutboxInv)' /\ InPart("standing", StandingInv)'
  BY <1>1, PartMoves, OutboxInvNext, StandingInvNext DEF ComponentsInv, InPart
<1>5. InPart("verification", EvidenceInv)' /\ InPart("memory", MemoryTypesHold)'
  BY <1>1, PartMoves, EvidenceInvNext, MemoryTypesNext DEF ComponentsInv, InPart
<1>6. InPart("documents", StoreTyped)' /\ InPart("folder", FolderTyped)'
  BY <1>1, PartMoves, StoreTypedStep, FolderTypedNext DEF ComponentsInv, InPart
<1>7. InPart("dependencies", GraphInv)' /\ InPart("objectives", ObjectiveTypes)'
  BY <1>1, PartMoves, GraphInvNext, ObjectiveTypesStep DEF ComponentsInv, InPart
<1>8. InPart("ai", AiTypes)' /\ InPart("proposals", DraftTypes)'
  BY <1>1, PartMoves, AiTypesStep, DraftTypesStep DEF ComponentsInv, InPart
<1> QED
  BY <1>2, <1>3, <1>4, <1>5, <1>6, <1>7, <1>8 DEF ComponentsInv

LEMMA PartsAreTyped == ASSUME ComponentsInv PROVE ComponentsTypeOK
<1>1. /\ part = "gate" => GateTypeOK
      /\ part = "git" => GitPrTypeOK
      /\ part = "services" => ServicesTypeOK
  BY DEF ComponentsInv, InPart, GateBasis, GitInv, ServiceInv
<1>2. /\ part = "turns" => TurnsTypeOK
      /\ part = "cards" => CardsTypeOK
  BY TurnTypesAreTypes, CardTypesAreTypes DEF ComponentsInv, InPart
<1>3. /\ part = "notifications" => NotificationsTypeOK
      /\ part = "standing" => StandingTypeOK
      /\ part = "verification" => VerificationTypeOK
      /\ part = "memory" => CompanyMemoryTypeOK
  BY MemoryTypesAreTypes DEF ComponentsInv, InPart, OutboxInv, StandingInv, EvidenceInv
<1>4. /\ part = "documents" => DocumentsTypeOK
      /\ part = "folder" => FolderTypeOK
  BY StoreTypedIsTyped, FolderTypedIsTyped DEF ComponentsInv, InPart
<1>5. /\ part = "dependencies" => DependenciesTypeOK
      /\ part = "objectives" => ObjectivesTypeOK
      /\ part = "ai" => AiTypeOK
      /\ part = "proposals" => ProposalsTypeOK
  BY ObjectiveTypesAreTypes, AiTypesAreTypes, DraftTypesAreTypes DEF ComponentsInv, InPart, GraphInv
<1> QED
  BY <1>1, <1>2, <1>3, <1>4, <1>5 DEF ComponentsTypeOK

\* Whichever component moves, and however often: its state keeps its type.
THEOREM ComponentsStayTyped == Spec => []ComponentsTypeOK
<1>1. Init => ComponentsInv
  BY ComponentsInvInit
<1>2. ComponentsInv /\ [Next]_all => ComponentsInv'
  BY ComponentsInvNext
<1>3. ComponentsInv => ComponentsTypeOK
  BY PartsAreTyped
<1> QED
  BY <1>1, <1>2, <1>3, PTL DEF Spec
=============================================================================
