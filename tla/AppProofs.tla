------------------------------- MODULE AppProofs -------------------------------
(* The small components put together, as MCApp checks them: every behaviour   *)
(* of the composition is one of each component's specification, so what the   *)
(* components' theorems say holds of it, and so do the types.                 *)
EXTENDS MCApp, QueueExecutionProofs, SharePublishProofs, ServerProofs, NotebookProofs

\* A step of the composition is a step of one component and a stutter of the
\* others, whatever part the behaviour is about.
LEMMA AppStep ==
  ASSUME [AppNext]_appVars
  PROVE  /\ [Next]_vars /\ [ShareNext]_shareVars /\ [PyNext]_pyVars
         /\ [MemberNext]_memberVars /\ [FileNext]_fileVars /\ [UndoNext]_undoVars
BY DEF AppNext, appVars

\* The composition implements the specification of each component: none of the
\* steps of one breaks what another promises, however they follow each other.
THEOREM AppImplementsParts ==
  AppSpec => /\ Spec /\ ShareSpec /\ PySpec /\ MemberSpec /\ FileSpec /\ UndoSpec
<1>1. AppInit => Init /\ ShareInit /\ PyInit /\ MemberInit /\ FileInit /\ UndoInit
  BY DEF AppInit
<1>2. [AppNext]_appVars => /\ [Next]_vars /\ [ShareNext]_shareVars /\ [PyNext]_pyVars
                           /\ [MemberNext]_memberVars /\ [FileNext]_fileVars
                           /\ [UndoNext]_undoVars
  BY AppStep
<1> QED BY <1>1, <1>2, PTL
        DEF AppSpec, Spec, ShareSpec, PySpec, MemberSpec, FileSpec, UndoSpec

\* Every variable of every component keeps its type, also of those that rest.
THEOREM AppTypesCorrect == AppSpec => []AppTypeOK
<1>1. (/\ TypeOK /\ ShareTypeOK /\ PyTypeOK /\ MemberTypeOK
       /\ FileTypeOK /\ UndoTypeOK) => AppTypeOK
  BY DEF AppTypeOK
<1> QED BY <1>1, AppImplementsParts, TypeCorrect, ShareTypes, PyTypes, MemberTypes,
           FileTypes, UndoTypes, PTL

\* What the components promise, of the composition: its invariants ...
THEOREM AppKeepsInvariants ==
  AppSpec => /\ []QuotaOvershootBounded
             /\ []LoneOpsComplete /\ []AckedPublishIsRecorded
             /\ []RunningIsCurrent /\ []NothingForgotten /\ []ToldIsTrue
             /\ []InvitationUsedOnce
             /\ []UnsentEditsAreDue /\ []UnsavedIsShown /\ []OneChangePerUndo
BY AppImplementsParts, OvershootIsBounded, UnoverlappedOpsComplete, AnsweredPublishesAreRecorded,
   OneWorkerRuns, NothingIsForgotten, StreamsAreToldTheOutcome, InvitationsAreUsedOnce,
   UnsentEditsGetTheirSave, UnsavedEditsAreShown, ChangesAreUndoneOneByOne, PTL

\* ... what its steps never do, and the timeline it implements.
THEOREM AppKeepsHistory ==
  AppSpec => /\ OldLinksStayDead /\ RefreshSeesRevoke
             /\ DoneIsFinal
             /\ LastAdminStays /\ MembersWereInvited
             /\ UnsentEditsStay /\ GoneStaysGone
             /\ ImplementsTimeline
BY AppImplementsParts, ReplacedLinksStayDead, RefreshesSeeRevocations, DoneRunsAreFinal,
   TheLastAdminStays, MembersAreInvited, UnsentEditsAreKept, GoneFilesStayGone,
   UndoImplementsTimeline, PTL
=============================================================================
