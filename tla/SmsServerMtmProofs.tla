------------------------- MODULE SmsServerMtmProofs -------------------------
(***************************************************************************)
(* Theorems of SmsServerMtm, for any SIM, any messages, any selection, any *)
(* failures and any number of requests: no enumeration folder is lost, the *)
(* MTM is ready for its next request, and what the answer to a request     *)
(* tells of the messages and the SIM is true.                              *)
(***************************************************************************)
EXTENDS SmsServerMtm, TLAPS, FiniteSetTheorems, FunctionTheorems, NaturalsInduction,
        WellFoundedInduction

-----------------------------------------------------------------------------
(* The enumeration folder                                                  *)

\* NewFolder, when there is an id left for it, is a folder that does not exist.
LEMMA NewFolderIsNew == hidden \subseteq Hidden /\ hidden # Hidden
                          => NewFolder \in Hidden /\ NewFolder \notin hidden
  BY DEF NewFolder

\* In every state EnumerateL may leave in, no folder but the stored one exists.
LEMMA StagesKeepFolder ==
  ASSUME NEW p, NEW k \in DOMAIN EnumStages(p), NoOrphanFolder, hidden \subseteq Hidden
  PROVE  EnumStages(p)[k].hidden \subseteq {EnumStages(p)[k].last}
  <1> DEFINE a == [store |-> store, hidden |-> hidden, last |-> last]
             b == [a EXCEPT !.store = Cleaned(@, LastFolder)]
             c == [b EXCEPT !.store = Cleaned(@, p)]
             d == [c EXCEPT !.hidden = @ \ {LastFolder}]
             e == [d EXCEPT !.last = p]
             new == [a EXCEPT !.hidden = @ \cup {NewFolder}, !.last = NewFolder]
  <1>1. a.hidden \subseteq {a.last} /\ b.hidden \subseteq {b.last} /\ c.hidden \subseteq {c.last}
    BY DEF NoOrphanFolder
  <1>2. d.hidden = {} /\ d.last = last
    <2>1. d.hidden = hidden \ {LastFolder} /\ d.last = last
      OBVIOUS
    <2>2. CASE hidden = {}
      BY <2>1, <2>2
    <2>3. CASE hidden = {last}
      <3>1. LastFolder = last
        BY <2>3 DEF LastFolder, FolderExists
      <3> QED BY <2>1, <2>3, <3>1
    <2> QED BY <2>2, <2>3 DEF NoOrphanFolder
  <1>3. e.hidden = {}
    BY <1>2
  <1>4. ASSUME LastFolder = NoFolder PROVE new.hidden = {NewFolder} /\ new.last = NewFolder
    <2>1. NoFolder \notin hidden
      BY SimAssumption DEF NoFolder
    <2>2. hidden = {}
      BY <1>4, <2>1 DEF NoOrphanFolder, LastFolder, FolderExists
    <2> QED BY <2>2
  <1> HIDE DEF a, b, c, d, e, new
  <1>5. CASE EnumError(p) # KErrNone
    <2>1. EnumStages(p) = <<a, b>>
      BY <1>5 DEF EnumStages, a, b
    <2> QED BY <1>1, <2>1
  <1>6. CASE EnumError(p) = KErrNone /\ p = NoFolder /\ LastFolder = p
    <2>1. EnumStages(p) = <<a, new>>
      BY <1>6 DEF EnumStages, a, new
    <2>2. new.hidden \subseteq {new.last}
      BY <1>4, <1>6
    <2> QED BY <1>1, <2>1, <2>2
  <1>7. CASE EnumError(p) = KErrNone /\ p = NoFolder /\ LastFolder # p
    <2>1. EnumStages(p) = <<a, b>>
      BY <1>7 DEF EnumStages, a, b
    <2> QED BY <1>1, <2>1
  <1>8. CASE EnumError(p) = KErrNone /\ p # NoFolder /\ LastFolder = p
    <2>1. EnumStages(p) = <<a, b, c>>
      BY <1>8 DEF EnumStages, a, b, c
    <2> QED BY <1>1, <2>1
  <1>9. CASE EnumError(p) = KErrNone /\ p # NoFolder /\ LastFolder # p
    <2>1. EnumStages(p) = <<a, b, c, d, e>>
      BY <1>9 DEF EnumStages, a, b, c, d, e
    <2> QED BY <1>1, <1>2, <1>3, <2>1
  <1> QED BY <1>5, <1>6, <1>7, <1>8, <1>9

\* EnumerateL creates no folder but NewFolder.
LEMMA StagesKeepBound ==
  ASSUME NEW p, NEW k \in DOMAIN EnumStages(p), hidden \subseteq Hidden,
         p = NoFolder /\ LastFolder = NoFolder => hidden # Hidden
  PROVE  EnumStages(p)[k].hidden \subseteq Hidden
  <1> DEFINE a == [store |-> store, hidden |-> hidden, last |-> last]
             b == [a EXCEPT !.store = Cleaned(@, LastFolder)]
             c == [b EXCEPT !.store = Cleaned(@, p)]
             d == [c EXCEPT !.hidden = @ \ {LastFolder}]
             e == [d EXCEPT !.last = p]
             new == [a EXCEPT !.hidden = @ \cup {NewFolder}, !.last = NewFolder]
  <1>1. a.hidden \subseteq Hidden /\ b.hidden \subseteq Hidden /\ c.hidden \subseteq Hidden
    OBVIOUS
  <1>2. d.hidden \subseteq Hidden /\ e.hidden \subseteq Hidden
    OBVIOUS
  <1>3. ASSUME p = NoFolder, LastFolder = p PROVE new.hidden \subseteq Hidden
    <2>1. NewFolder \in Hidden
      BY <1>3, NewFolderIsNew
    <2> QED BY <2>1
  <1> HIDE DEF a, b, c, d, e, new
  <1>5. CASE EnumError(p) # KErrNone
    <2>1. EnumStages(p) = <<a, b>>
      BY <1>5 DEF EnumStages, a, b
    <2> QED BY <1>1, <2>1
  <1>6. CASE EnumError(p) = KErrNone /\ p = NoFolder /\ LastFolder = p
    <2>1. EnumStages(p) = <<a, new>>
      BY <1>6 DEF EnumStages, a, new
    <2> QED BY <1>1, <1>3, <1>6, <2>1
  <1>7. CASE EnumError(p) = KErrNone /\ p = NoFolder /\ LastFolder # p
    <2>1. EnumStages(p) = <<a, b>>
      BY <1>7 DEF EnumStages, a, b
    <2> QED BY <1>1, <2>1
  <1>8. CASE EnumError(p) = KErrNone /\ p # NoFolder /\ LastFolder = p
    <2>1. EnumStages(p) = <<a, b, c>>
      BY <1>8 DEF EnumStages, a, b, c
    <2> QED BY <1>1, <2>1
  <1>9. CASE EnumError(p) = KErrNone /\ p # NoFolder /\ LastFolder # p
    <2>1. EnumStages(p) = <<a, b, c, d, e>>
      BY <1>9 DEF EnumStages, a, b, c, d, e
    <2> QED BY <1>1, <1>2, <2>1
  <1> QED BY <1>5, <1>6, <1>7, <1>8, <1>9

-----------------------------------------------------------------------------
(* The invariant                                                           *)

FolderInv == hidden \subseteq Hidden /\ NoOrphanFolder

\* EnumerateL keeps the invariant, also when it leaves halfway.
LEMMA EnumerateKeepsFolder ==
  ASSUME FolderInv, NEW p, EnumerateL(p)
  PROVE  FolderInv'
  <1>1. PICK k \in DOMAIN EnumStages(p) :
          hidden' = EnumStages(p)[k].hidden /\ last' = EnumStages(p)[k].last
    BY DEF EnumerateL
  <1>2. hidden' \subseteq Hidden
    BY <1>1, StagesKeepBound DEF EnumerateL, FolderInv
  <1>3. hidden' \subseteq {last'}
    BY <1>1, StagesKeepFolder DEF FolderInv
  <1> QED BY <1>2, <1>3 DEF FolderInv, NoOrphanFolder

\* What leaves the folders alone keeps the invariant.
LEMMA SameFolders ==
  ASSUME FolderInv, UNCHANGED <<hidden, last>>
  PROVE  FolderInv'
  BY DEF FolderInv, NoOrphanFolder

\* The other functions of CSmsSimUtils that start a request leave the folders alone.
LEMMA StartsKeepFolder ==
  ASSUME FolderInv, NEW cmd, NEW q, NEW p, SimStarts(cmd, q, p)
  PROVE  FolderInv'
  <1>1. CASE EnumerateL(p)
    BY <1>1, EnumerateKeepsFolder
  <1>2. CASE DeleteFromPhoneStoreL(q)
    BY <1>2, SameFolders DEF DeleteFromPhoneStoreL
  <1>3. CASE CopyFromPhoneStoreL(q, "Inbox")
    BY <1>3, SameFolders DEF CopyFromPhoneStoreL
  <1>4. CASE MoveFromPhoneStoreL(q, "Inbox")
    BY <1>4, SameFolders DEF MoveFromPhoneStoreL
  <1>5. CASE ToPhoneStoreL(cmd, q)
    BY <1>5, SameFolders DEF ToPhoneStoreL, Writes
  <1>6. CASE ReadSimParamsL
    BY <1>6, SameFolders DEF ReadSimParamsL
  <1>7. CASE WriteSimParamsL
    BY <1>7, SameFolders DEF WriteSimParamsL
  <1> QED BY <1>1, <1>2, <1>3, <1>4, <1>5, <1>6, <1>7 DEF SimStarts

\* No request that CSmsSimUtils is serving touches the folders.
LEMMA RunsKeepFolder ==
  ASSUME FolderInv, SimRunL
  PROVE  FolderInv'
  <1>1. UNCHANGED <<hidden, last>>
    BY DEF SimRunL, SimRetrieves, SimHasEnumerated, SimDeletes, SimDeletesToMove,
           SimHasMoved, SimHasCopied, SimWrites, Writes, SimUpdatesClass2, UpdatesClass2,
           SimHasWritten, SimReadsParams, SimHasParams, SimRunError
  <1> QED BY <1>1, SameFolders

\* Every step keeps the invariant.
LEMMA NextKeepsFolder ==
  ASSUME FolderInv, [Next]_vars
  PROVE  FolderInv'
  <1>1. CASE StartCommandL
    <2>1. CASE \E cmd, q, p : SimUtilsL(cmd, q, p)
      BY <2>1, StartsKeepFolder DEF SimUtilsL
    <2>2. CASE \E cmd, q : SimUtilsLeaves(cmd, q)
      BY <2>2, SameFolders DEF SimUtilsLeaves, simVars
    <2>3. CASE \E cmd, q : SimUtilsPanics(cmd, q)
      BY <2>3, SameFolders DEF SimUtilsPanics
    <2> QED BY <1>1, <2>1, <2>2, <2>3 DEF StartCommandL
  <1>2. CASE ScheduleCommandL \/ CopyFromLocalL \/ DeleteAllL
    BY <1>2, SameFolders DEF ScheduleCommandL, CopyFromLocalL, DeleteAllL
  <1>3. CASE MtmCancel
    BY <1>3, SameFolders DEF MtmCancel, simVars
  <1>4. CASE Others
    <2>1. CASE \E i \in Ids : ClientDeletes(i)
      BY <2>1, SameFolders DEF ClientDeletes
    <2>2. CASE \E h \in Hidden : ClientDeletesFolder(h)
      BY <2>2 DEF ClientDeletesFolder, FolderInv, NoOrphanFolder
    <2>3. CASE \E s \in Slots : CardLoses(s)
      BY <2>3, SameFolders DEF CardLoses
    <2> QED BY <1>4, <2>1, <2>2, <2>3 DEF Others
  <1>5. CASE Unloaded \/ MtmRunL
    BY <1>5, SameFolders DEF Unloaded, MtmRunL
  <1>6. CASE SimRuns
    BY <1>6, RunsKeepFolder DEF SimRuns
  <1>7. CASE SimService
    BY <1>7, SameFolders DEF SimService, CardCompletes, StoreCompletes
  <1>8. CASE SendingCompletes
    BY <1>8, SameFolders DEF SendingCompletes, simVars
  <1>9. CASE UNCHANGED vars
    BY <1>9, SameFolders DEF vars
  <1> QED BY <1>1, <1>2, <1>3, <1>4, <1>5, <1>6, <1>7, <1>8, <1>9 DEF Next, Requests

\* CSmsSimUtils loses track of no folder it has created (SmssSimUtils.cpp:179-331).
THEOREM NoFolderIsLost == Spec => []NoOrphanFolder
  <1>1. Init => FolderInv
    BY DEF Init, FolderInv, NoOrphanFolder
  <1>2. FolderInv /\ [Next]_vars => FolderInv'
    BY NextKeepsFolder
  <1>3. FolderInv => NoOrphanFolder
    BY DEF FolderInv
  <1> QED BY <1>1, <1>2, <1>3, PTL DEF Spec
-----------------------------------------------------------------------------
(* The MTM is ready for requests                                           *)

\* The type of mtm, and what of request's the argument needs.
MtmType == /\ mtm \in [state : MtmStates, report : BOOLEAN, active : BOOLEAN,
                       sent : BOOLEAN, stale : BOOLEAN]
           /\ "answer" \in DOMAIN request /\ "touched" \in DOMAIN request

\* A CSmsSimUtils object exists only for a command about the SIM.
SimServesMtm == sim.exists \/ sim.active => mtm.state = "SimUtils" /\ mtm.report

\* Between requests the MTM is at rest, unless it is stale.
RestsBetween ==
  fault = "None" /\ ~mtm.stale /\ request.answer # "Pending"
    => mtm.state = "Waiting" /\ ~mtm.report

ReadyInv == MtmType /\ SimServesMtm /\ RestsBetween /\ MtmIsReady

LEMMA NoSimIsIdle == ~NoSim.exists /\ ~NoSim.active
  BY DEF NoSim, NewSim

\* A request of CSmsSimUtils that starts or runs panics at most for the entry it
\* works on.
LEMMA StartsDoNotPanic ==
  ASSUME NEW cmd, NEW q, NEW p, SimStarts(cmd, q, p)
  PROVE  fault' = fault
  BY DEF SimStarts, EnumerateL, DeleteFromPhoneStoreL, CopyFromPhoneStoreL,
         MoveFromPhoneStoreL, ToPhoneStoreL, Writes, ReadSimParamsL, WriteSimParamsL

LEMMA RunsDoNotPanic ==
  ASSUME SimRunL
  PROVE  sim.active /\ fault' \in {fault, "NullContext"}
  <1>1. CASE SimRetrieves \/ SimHasEnumerated \/ SimHasMoved \/ SimHasCopied
    BY <1>1 DEF SimRetrieves, SimHasEnumerated, SimHasMoved, SimHasCopied, Runs
  <1>2. CASE SimWrites \/ SimUpdatesClass2 \/ SimHasWritten \/ SimReadsParams \/ SimHasParams
    BY <1>2 DEF SimWrites, Writes, SimUpdatesClass2, UpdatesClass2, SimHasWritten,
                SimReadsParams, SimHasParams, IsToSim, Runs
  <1>3. DeletesNext => fault' = fault
    BY DEF DeletesNext, DeleteLeaves
  <1>4. SimDeletesToMove => fault' \in {fault, "NullContext"}
    BY DEF SimDeletesToMove, DeleteLeaves, ThenMoves
  <1>5. CASE SimDeletes \/ SimDeletesToMove
    BY <1>3, <1>4, <1>5 DEF SimDeletes, SimDeletesToMove, Runs
  <1>6. CASE SimRunError
    BY <1>3, <1>6 DEF SimRunError
  <1> QED BY <1>1, <1>2, <1>5, <1>6 DEF SimRunL

\* What a request answered or not yet answered has.
LEMMA RequestFields ==
  ASSUME NEW cmd, NEW q, NEW a
  PROVE  /\ Asked(cmd, q).answer = "Pending"
         /\ {"answer", "touched"} \subseteq DOMAIN Asked(cmd, q)
         /\ {"answer", "touched"} \subseteq DOMAIN Answered(cmd, q, a)
  BY DEF Asked, Answered

\* The commands about the SIM keep the invariant.
LEMMA StartKeepsReady ==
  ASSUME ReadyInv, StartCommandL
  PROVE  ReadyInv'
  <1> USE DEF ReadyInv, MtmType
  <1>1. CASE \E cmd, q, p : SimUtilsL(cmd, q, p)
    <2>1. PICK cmd, q, p : SimUtilsL(cmd, q, p)
      BY <1>1
    <2>2. fault' = fault
      BY <2>1, StartsDoNotPanic DEF SimUtilsL
    <2>6. \/ /\ mtm' = [mtm EXCEPT !.state = "SimUtils", !.report = TRUE, !.active = TRUE]
             /\ request' = Asked(cmd, q)
          \/ /\ mtm' = [mtm EXCEPT !.state = "SimUtils", !.report = TRUE, !.stale = TRUE]
             /\ request' = Answered(cmd, q, "Error")
      BY <2>1, Zenon DEF SimUtilsL
    <2>7. "SimUtils" \in MtmStates
      BY DEF MtmStates
    <2>3. mtm'.state = "SimUtils" /\ mtm'.report /\ MtmType'
      <3>1. /\ "answer" \in DOMAIN request' /\ "touched" \in DOMAIN request'
        <4>1. \/ request' = Asked(cmd, q)
              \/ request' = Answered(cmd, q, "Error")
          BY <2>6
        <4> QED BY <4>1, RequestFields
      <3>2. mtm'.state = "SimUtils" /\ mtm'.report
            /\ mtm' \in [state : MtmStates, report : BOOLEAN, active : BOOLEAN,
                         sent : BOOLEAN, stale : BOOLEAN]
        BY <2>6, <2>7
      <3> QED BY <3>1, <3>2
    <2>4. (mtm'.stale \/ request'.answer = "Pending") /\ (mtm.stale => mtm'.stale)
      <3>1. CASE /\ mtm' = [mtm EXCEPT !.state = "SimUtils", !.report = TRUE, !.active = TRUE]
                 /\ request' = Asked(cmd, q)
        <4>1. request'.answer = "Pending"
          BY <3>1, RequestFields
        <4>2. mtm'.stale = mtm.stale
          BY <3>1
        <4> QED BY <4>1, <4>2
      <3>2. CASE mtm' = [mtm EXCEPT !.state = "SimUtils", !.report = TRUE, !.stale = TRUE]
        BY <3>2
      <3> QED BY <2>6, <3>1, <3>2
    <2>5. SimServesMtm' /\ RestsBetween' /\ MtmIsReady'
      BY <2>2, <2>3, <2>4 DEF SimServesMtm, RestsBetween, MtmIsReady
    <2> QED BY <2>3, <2>5
  <1>2. CASE \E cmd, q : SimUtilsLeaves(cmd, q)
    <2>1. PICK cmd, q : SimUtilsLeaves(cmd, q)
      BY <1>2
    <2>2. MtmType'
      BY <2>1 DEF SimUtilsLeaves, Asked, Answered
    <2>3. fault = "None" /\ fault' = fault /\ sim' = sim /\ request.answer # "Pending"
      BY <2>1 DEF SimUtilsLeaves, simVars, StartCommandL, MayAsk
    <2>4. mtm' = mtm \/ (mtm'.state = mtm.state /\ mtm'.report /\ mtm'.stale)
      BY <2>1 DEF SimUtilsLeaves
    <2>5. SimServesMtm' /\ RestsBetween' /\ MtmIsReady'
      BY <2>3, <2>4 DEF SimServesMtm, RestsBetween, MtmIsReady
    <2> QED BY <2>2, <2>5
  <1>3. CASE \E cmd, q : SimUtilsPanics(cmd, q)
    <2>1. PICK cmd, q : SimUtilsPanics(cmd, q)
      BY <1>3
    <2>2. MtmType' /\ SimServesMtm'
      BY <2>1 DEF SimUtilsPanics, Asked, SimServesMtm
    <2>3. fault = "None" /\ request.answer # "Pending"
      BY DEF StartCommandL, MayAsk
    <2>4. fault' \in {"MtmAlreadyActive", "AlreadyActive"} /\ mtm.stale
      BY <2>1, <2>3 DEF SimUtilsPanics, Assertion, SimServesMtm, RestsBetween
    <2>5. mtm' = mtm
      BY <2>1 DEF SimUtilsPanics
    <2>6. RestsBetween' /\ MtmIsReady'
      BY <2>4, <2>5 DEF RestsBetween, MtmIsReady
    <2> QED BY <2>2, <2>6
  <1> QED BY <1>1, <1>2, <1>3 DEF StartCommandL

\* The other commands keep it.
LEMMA OtherCommandsKeepReady ==
  ASSUME ReadyInv, ScheduleCommandL \/ CopyFromLocalL \/ DeleteAllL
  PROVE  ReadyInv'
  <1> USE DEF ReadyInv, MtmType
  <1>1. fault = "None" /\ request.answer # "Pending"
    BY DEF ScheduleCommandL, CopyFromLocalL, DeleteAllL, MayAsk
  <1>2. CASE ScheduleCommandL
    <2>1. MtmType'
      BY <1>2 DEF ScheduleCommandL, Asked, Answered, MtmStates
    <2>2. SimServesMtm' /\ RestsBetween' /\ MtmIsReady'
      BY <1>1, <1>2 DEF ScheduleCommandL, SimServesMtm, RestsBetween, MtmIsReady
    <2> QED BY <2>1, <2>2
  <1>3. CASE CopyFromLocalL
    <2>1. CASE ~mtm.report /\ request' = Asked("Send", <<>>)
               /\ mtm' = [mtm EXCEPT !.state = "Sending", !.report = TRUE,
                                     !.active = TRUE, !.sent = FALSE]
      <3>1. MtmType' /\ mtm'.stale = mtm.stale /\ request'.answer = "Pending"
        BY <2>1, RequestFields DEF MtmStates
      <3>2. ~sim.exists /\ ~sim.active /\ sim' = sim /\ fault' = fault
        BY <1>3, <2>1 DEF CopyFromLocalL, SimServesMtm
      <3> QED BY <1>1, <3>1, <3>2 DEF SimServesMtm, RestsBetween, MtmIsReady
    <2>2. CASE ~mtm.report /\ request' = Answered("Send", <<>>, "Error")
               /\ mtm' = [mtm EXCEPT !.report = TRUE, !.stale = TRUE]
      <3>1. MtmType' /\ mtm'.stale
        BY <2>2, RequestFields
      <3>2. ~sim.exists /\ ~sim.active /\ sim' = sim /\ fault' = fault
        BY <1>3, <2>2 DEF CopyFromLocalL, SimServesMtm
      <3> QED BY <1>1, <3>1, <3>2 DEF SimServesMtm, RestsBetween, MtmIsReady
    <2>3. CASE mtm.report /\ fault' = "AlreadyActive" /\ mtm' = mtm
               /\ request' = Asked("Send", <<>>)
      <3>1. MtmType' /\ sim' = sim /\ mtm.stale
        BY <1>1, <1>3, <2>3, RequestFields DEF CopyFromLocalL, RestsBetween
      <3> QED BY <2>3, <3>1 DEF SimServesMtm, RestsBetween, MtmIsReady
    <2> QED BY <1>3, <2>1, <2>2, <2>3 DEF CopyFromLocalL
  <1>4. CASE DeleteAllL
    BY <1>1, <1>4 DEF DeleteAllL, Asked, Answered, SimServesMtm, RestsBetween, MtmIsReady
  <1> QED BY <1>2, <1>3, <1>4

\* The end of a request, and unloading, keep it.
LEMMA EndKeepsReady ==
  ASSUME ReadyInv, MtmRunL \/ MtmCancel \/ Unloaded
  PROVE  ReadyInv'
  <1> USE DEF ReadyInv, MtmType
  <1>1. fault = "None"
    BY DEF MtmRunL, MtmCancel, Unloaded
  <1>2. ASSUME NEW e, NEW s, CompleteCommand(e, s)
        PROVE  /\ MtmType' /\ mtm'.state = "Waiting" /\ ~mtm'.report
               /\ mtm'.stale = mtm.stale
    BY <1>2 DEF CompleteCommand, Rested, MtmStates
  <1>3. CASE MtmRunL
    <2>1. CompleteCommand(KErrNone, sim) /\ sim' = NoSim /\ fault' = fault
      BY <1>3 DEF MtmRunL
    <2> QED BY <1>1, <1>2, <2>1, NoSimIsIdle DEF SimServesMtm, RestsBetween, MtmIsReady
  <1>4. CASE MtmCancel
    <2>1. CASE mtm.state = "Sending" /\ CompleteCommand(KErrCancel, sim) /\ UNCHANGED simVars
      BY <1>1, <1>2, <2>1 DEF simVars, SimServesMtm, RestsBetween, MtmIsReady
    <2>2. CASE fault' = "CancelHangs" /\ UNCHANGED <<sim, mtm, request>>
      BY <1>1, <2>2 DEF SimServesMtm, RestsBetween, MtmIsReady
    <2>3. CASE CompleteCommand(KErrCancel, Cancelled) /\ sim' = NoSim /\ UNCHANGED fault
      BY <1>1, <1>2, <2>3, NoSimIsIdle DEF SimServesMtm, RestsBetween, MtmIsReady
    <2> QED BY <1>4, <2>1, <2>2, <2>3 DEF MtmCancel
  <1>5. CASE Unloaded
    <2>1. mtm' = NewMtm /\ sim' = NoSim /\ fault' = fault /\ request' = request
      BY <1>5 DEF Unloaded
    <2> QED BY <1>1, <2>1, NoSimIsIdle
            DEF NewMtm, MtmStates, SimServesMtm, RestsBetween, MtmIsReady
  <1> QED BY <1>3, <1>4, <1>5

\* Every step keeps the invariant.
LEMMA NextKeepsReady ==
  ASSUME ReadyInv, [Next]_vars
  PROVE  ReadyInv'
  <1> USE DEF ReadyInv, MtmType
  <1>1. CASE SimRuns
    <2>1. sim.active /\ fault = "None" /\ fault' \in {"None", "NullContext"}
      BY <1>1, RunsDoNotPanic DEF SimRuns
    <2>2. mtm' = mtm /\ request' = request
      BY <1>1 DEF SimRuns
    <2> QED BY <2>1, <2>2 DEF SimServesMtm, RestsBetween, MtmIsReady
  <1>2. CASE SimService
    <2>1. sim.active /\ fault' = fault /\ mtm' = mtm /\ request' = request
      BY <1>2 DEF SimService, CardCompletes, StoreCompletes, Outstanding
    <2> QED BY <2>1 DEF SimServesMtm, RestsBetween, MtmIsReady
  <1>3. CASE Others
    <2>1. mtm' = mtm /\ sim' = sim /\ fault' = fault
      BY <1>3 DEF Others, ClientDeletes, ClientDeletesFolder, CardLoses
    <2>2. MtmType' /\ request'.answer = request.answer
      BY <1>3, <2>1 DEF Others
    <2> QED BY <2>1, <2>2 DEF SimServesMtm, RestsBetween, MtmIsReady
  <1>4. CASE SendingCompletes
    <2>1. /\ mtm'.state = mtm.state /\ mtm'.report = mtm.report /\ mtm'.stale = mtm.stale
          /\ MtmType' /\ sim' = sim /\ fault' = fault /\ request' = request
      BY <1>4 DEF SendingCompletes, simVars
    <2> QED BY <2>1 DEF SimServesMtm, RestsBetween, MtmIsReady
  <1>5. CASE UNCHANGED vars
    BY <1>5 DEF vars, SimServesMtm, RestsBetween, MtmIsReady
  <1> QED BY <1>1, <1>2, <1>3, <1>4, <1>5, StartKeepsReady, OtherCommandsKeepReady, EndKeepsReady
          DEF Next, Requests

\* Every request finds the MTM ready, unless a command has left or was scheduled
\* since the object was made; and no CSmsSimUtils object is ever left behind by
\* another command (SMSSERV.CPP:123-167, 229-271, 363-404).
THEOREM RequestsFindTheMtmReady == Spec => []MtmIsReady
  <1>1. Init => ReadyInv
    BY NoSimIsIdle DEF Init, NewMtm, MtmStates, NoRequest, ReadyInv, MtmType, SimServesMtm,
       RestsBetween, MtmIsReady
  <1>2. ReadyInv /\ [Next]_vars => ReadyInv'
    BY NextKeepsReady
  <1>3. ReadyInv => MtmIsReady
    BY DEF ReadyInv
  <1> QED BY <1>1, <1>2, <1>3, PTL DEF Spec

-----------------------------------------------------------------------------
(* The slots of the SIM and the ids of the store, in their order           *)

\* A set of numbers that is not empty has a least element.
LEMMA LeastNumber ==
  ASSUME NEW S, S \subseteq Nat, S # {}
  PROVE  \E i \in S : \A j \in S : i <= j
  <1>1. IsWellFoundedOn({ss \in Nat \X Nat : ss[1] < ss[2]}, Nat)
    BY NatLessThanWellFounded DEF OpToRel
  <1>2. PICK i \in S : \A j \in S : <<j, i>> \notin {ss \in Nat \X Nat : ss[1] < ss[2]}
    BY <1>1, WFMin
  <1>3. ASSUME NEW j \in S PROVE i <= j
    <2>1. <<j, i>> \in Nat \X Nat /\ i \in Nat /\ j \in Nat
      OBVIOUS
    <2>2. ~(j < i)
      BY <1>2, <2>1
    <2> QED BY <2>1, <2>2
  <1> QED BY <1>3

LEMMA LowestIsLeast ==
  ASSUME NEW S, S \subseteq Nat, S # {}
  PROVE  Lowest(S) \in S /\ \A j \in S : Lowest(S) <= j
  BY LeastNumber DEF Lowest

\* A finite set of numbers has a greatest element.
LEMMA GreatestNumber ==
  ASSUME NEW S, S \subseteq Nat, IsFiniteSet(S), S # {}
  PROVE  \E i \in S : \A j \in S : j <= i
  <1> DEFINE above(i) == {j \in S : i < j}
             T == {Cardinality(above(i)) : i \in S}
  <1>1. \A i \in S : IsFiniteSet(above(i)) /\ Cardinality(above(i)) \in Nat
    <2> SUFFICES ASSUME NEW i \in S
                 PROVE  IsFiniteSet(above(i)) /\ Cardinality(above(i)) \in Nat
      OBVIOUS
    <2>1. above(i) \in SUBSET S
      OBVIOUS
    <2> QED BY <2>1, FS_Subset, FS_CardinalityType
  <1>2. PICK i \in S : \A j \in S : Cardinality(above(i)) <= Cardinality(above(j))
    <2>1. T \subseteq Nat /\ T # {}
      BY <1>1
    <2>2. PICK n \in T : \A k \in T : n <= k
      <3> HIDE DEF T
      <3> QED BY <2>1, LeastNumber
    <2> QED BY <2>2
  <1>3. ASSUME NEW j \in S, i < j PROVE FALSE
    <2>0. \A n \in S : n \in Nat
      OBVIOUS
    <2>1. above(j) \in SUBSET above(i) /\ j \in above(i) /\ j \notin above(j)
      <3>1. \A n \in S : j < n => i < n
        BY <1>3, <2>0
      <3>2. ~(j < j)
        BY <2>0
      <3> QED BY <1>3, <3>1, <3>2
    <2>2. Cardinality(above(j)) <= Cardinality(above(i))
          /\ (Cardinality(above(i)) = Cardinality(above(j)) => above(i) = above(j))
      BY <1>1, <2>1, FS_Subset
    <2>3. Cardinality(above(i)) <= Cardinality(above(j))
      BY <1>2
    <2>4. above(i) = above(j)
      <3> HIDE DEF above
      <3> QED BY <1>1, <2>2, <2>3
    <2> QED BY <2>1, <2>4
  <1>4. ASSUME NEW j \in S PROVE j <= i
    BY <1>3
  <1> QED BY <1>4

\* Counting the smaller ones numbers the elements of a finite set of numbers.
LEMMA Numbered ==
  ASSUME NEW S, S \subseteq Nat, IsFiniteSet(S)
  PROVE  /\ Cardinality(S) \in Nat
         /\ \A k \in 1 .. Cardinality(S) : \E s \in S : Cardinality({r \in S : r < s}) = k - 1
         /\ \A s \in S : Cardinality({r \in S : r < s}) + 1 \in 1 .. Cardinality(S)
         /\ \A s, t \in S : Cardinality({r \in S : r < s}) = Cardinality({r \in S : r < t}) => s = t
  <1> DEFINE before(s) == {r \in S : r < s}
  <1>1. Cardinality(S) \in Nat
    BY FS_CardinalityType
  <1>2. ASSUME NEW s \in S
        PROVE  /\ IsFiniteSet(before(s)) /\ Cardinality(before(s)) \in Nat
               /\ Cardinality(before(s)) < Cardinality(S)
    <2>1. before(s) \in SUBSET S /\ s \notin before(s)
      OBVIOUS
    <2>2. /\ IsFiniteSet(before(s)) /\ Cardinality(before(s)) <= Cardinality(S)
          /\ (Cardinality(S) = Cardinality(before(s)) => S = before(s))
      BY <2>1, FS_Subset
    <2>3. Cardinality(before(s)) \in Nat
      BY <2>2, FS_CardinalityType
    <2> HIDE DEF before
    <2> QED BY <1>1, <2>1, <2>2, <2>3
  <1>3. ASSUME NEW s \in S, NEW t \in S, s < t
        PROVE  Cardinality(before(s)) < Cardinality(before(t))
    <2>0. \A n \in S : n \in Nat
      OBVIOUS
    <2>1. before(s) \in SUBSET before(t) /\ s \in before(t) /\ s \notin before(s)
      <3>1. \A n \in S : n < s => n < t
        BY <1>3, <2>0
      <3>2. ~(s < s)
        BY <2>0
      <3> QED BY <1>3, <3>1, <3>2
    <2>2. IsFiniteSet(before(t)) /\ Cardinality(before(t)) \in Nat /\ Cardinality(before(s)) \in Nat
      BY <1>2
    <2>3. /\ Cardinality(before(s)) <= Cardinality(before(t))
          /\ (Cardinality(before(t)) = Cardinality(before(s)) => before(t) = before(s))
      BY <2>1, <2>2, FS_Subset
    <2> HIDE DEF before
    <2> QED BY <2>1, <2>2, <2>3
  <1>4. ASSUME NEW k \in 1 .. Cardinality(S)
        PROVE  \E s \in S : Cardinality(before(s)) = k - 1
    <2> DEFINE T == {s \in S : Cardinality(before(s)) >= k - 1}
    <2>1. T # {}
      <3>1. S # {}
        BY <1>1, <1>4, FS_EmptySet
      <3>2. PICK m \in S : \A j \in S : j <= m
        BY <3>1, GreatestNumber
      <3>3. before(m) = S \ {m}
        <4>1. \A n \in S : n \in Nat
          OBVIOUS
        <4>2. \A n \in S : n < m <=> n # m
          BY <3>2, <4>1
        <4> QED BY <4>2
      <3>4. Cardinality(before(m)) = Cardinality(S) - 1
        BY <3>3, FS_RemoveElement
      <3>5. m \in T
        <4> HIDE DEF before
        <4> QED BY <1>1, <1>4, <3>4
      <3> QED BY <3>5
    <2>2. PICK s \in T : \A j \in T : s <= j
      <3>1. T \subseteq Nat
        OBVIOUS
      <3> HIDE DEF T
      <3> QED BY <2>1, <3>1, LeastNumber
    <2>3. Cardinality(before(s)) >= k - 1 /\ s \in S
      BY <2>2
    <2>4. CASE Cardinality(before(s)) = k - 1
      BY <2>3, <2>4
    <2>5. CASE Cardinality(before(s)) > k - 1
      <3>1. before(s) # {} /\ before(s) \subseteq Nat /\ IsFiniteSet(before(s))
        <4>1. IsFiniteSet(before(s)) /\ before(s) \subseteq Nat
          BY <1>2, <2>3
        <4>2. Cardinality(before(s)) # 0
          <5> HIDE DEF before
          <5> QED BY <1>2, <2>3, <2>5
        <4> QED BY <4>1, <4>2, FS_EmptySet
      <3>2. PICK m \in before(s) : \A j \in before(s) : j <= m
        <4> HIDE DEF before
        <4> QED BY <3>1, GreatestNumber
      <3>3. before(m) = before(s) \ {m} /\ m \in S /\ m < s
        <4>1. \A n \in S : n \in Nat
          OBVIOUS
        <4>2. m \in S /\ m < s /\ \A n \in S : n < s => n <= m
          BY <3>2
        <4>3. \A n \in S : n < m <=> (n < s /\ n # m)
          BY <2>3, <4>1, <4>2
        <4> QED BY <4>2, <4>3
      <3>4. Cardinality(before(m)) = Cardinality(before(s)) - 1
        BY <3>1, <3>2, <3>3, FS_RemoveElement
      <3>5. Cardinality(before(m)) >= k - 1
        <4> HIDE DEF before
        <4> QED BY <1>2, <2>3, <2>5, <3>4
      <3>6. s <= m
        BY <2>2, <3>3, <3>5
      <3> QED BY <2>3, <3>3, <3>6
    <2>6. Cardinality(before(s)) = k - 1 \/ Cardinality(before(s)) > k - 1
      <3> HIDE DEF before
      <3> QED BY <1>2, <2>3
    <2> QED BY <2>4, <2>5, <2>6
  <1>5. ASSUME NEW s \in S, NEW t \in S, Cardinality(before(s)) = Cardinality(before(t))
        PROVE  s = t
    <2>1. ~(s < t) /\ ~(t < s)
      <3> HIDE DEF before
      <3> QED BY <1>2, <1>3, <1>5
    <2> QED BY <2>1
  <1>6. \A s \in S : Cardinality(before(s)) + 1 \in 1 .. Cardinality(S)
    <2> HIDE DEF before
    <2> QED BY <1>1, <1>2
  <1> QED BY <1>1, <1>4, <1>5, <1>6

\* NewIds(n) are n free ids of the store.
LEMMA NewIdsAreFree ==
  ASSUME NEW n \in Nat, n <= Cardinality(Free)
  PROVE  /\ NewIds(n) \in Seq(Ids) /\ DOMAIN NewIds(n) = 1 .. n
         /\ \A k \in 1 .. n : NewIds(n)[k] \in Free
  <1>1. Free \subseteq Ids /\ Free \subseteq Nat /\ IsFiniteSet(Free)
    <2>1. Free \in SUBSET Ids
      BY DEF Free
    <2> QED BY <2>1, SimAssumption, FS_Subset
  <1>2. ASSUME NEW k \in 1 .. n PROVE NewIds(n)[k] \in Free
    <2>1. k \in 1 .. Cardinality(Free)
      BY <1>1, FS_CardinalityType
    <2>2. \E i \in Free : Cardinality({j \in Free : j < i}) = k - 1
      BY <1>1, <2>1, Numbered
    <2>3. NewIds(n)[k] = CHOOSE i \in Free : Cardinality({j \in Free : j < i}) = k - 1
      BY DEF NewIds
    <2> QED BY <2>2, <2>3
  <1>3. DOMAIN NewIds(n) = 1 .. n /\ NewIds(n) = [k \in 1 .. n |-> NewIds(n)[k]]
    <2> DEFINE nth(k) == CHOOSE i \in Free : Cardinality({j \in Free : j < i}) = k - 1
    <2>1. NewIds(n) = [k \in 1 .. n |-> nth(k)]
      BY DEF NewIds
    <2> HIDE DEF nth
    <2> QED BY <2>1
  <1> QED BY <1>1, <1>2, <1>3

\* Contents lists each occupied slot once.
LEMMA ContentsAreListed ==
  ASSUME card \in [Slots -> Texts \cup {Empty}]
  PROVE  /\ Contents \in Seq([slot : Slots, text : Texts])
         /\ \A j, k \in DOMAIN Contents : Contents[j].slot = Contents[k].slot => j = k
  <1> DEFINE n == Cardinality(Occupied)
             before(s) == Cardinality({r \in Occupied : r < s})
             nth(k) == CHOOSE s \in Occupied : before(s) = k - 1
  <1>1. Occupied \subseteq Nat /\ IsFiniteSet(Occupied) /\ n \in Nat
    <2>1. Occupied \in SUBSET Slots
      BY DEF Occupied
    <2> QED BY <2>1, SimAssumption, FS_Subset, FS_CardinalityType
  <1>2. ASSUME NEW k \in 1 .. n PROVE nth(k) \in Occupied /\ before(nth(k)) = k - 1
    <2>1. \E s \in Occupied : before(s) = k - 1
      BY <1>1, Numbered
    <2> HIDE DEF before
    <2> QED BY <2>1
  <1>3. \A s \in Occupied : s \in Slots /\ card[s] \in Texts
    BY DEF Occupied
  <1>4. Contents = [k \in 1 .. n |-> [slot |-> nth(k), text |-> card[nth(k)]]]
    BY DEF Contents
  <1> HIDE DEF n, before, nth
  <1>5. \A k \in 1 .. n : Contents[k] \in [slot : Slots, text : Texts] /\ Contents[k].slot = nth(k)
    BY <1>2, <1>3, <1>4
  <1>6. DOMAIN Contents = 1 .. n /\ Contents = [k \in 1 .. n |-> Contents[k]]
    BY <1>4
  <1>7. ASSUME NEW j \in 1 .. n, NEW k \in 1 .. n, Contents[j].slot = Contents[k].slot
        PROVE  j = k
    <2>1. nth(j) = nth(k)
      BY <1>5, <1>7
    <2>2. j - 1 = k - 1
      BY <1>2, <2>1
    <2> QED BY <1>1, <2>2
  <1>8. Contents \in Seq([slot : Slots, text : Texts])
    <2> DEFINE R == [slot : Slots, text : Texts]
    <2>1. \A k \in 1 .. n : Contents[k] \in R
      BY <1>5
    <2> HIDE DEF R
    <2>2. Contents \in Seq(R)
      BY <1>1, <1>6, <2>1
    <2> QED BY <2>2 DEF R
  <1> QED BY <1>6, <1>7, <1>8

-----------------------------------------------------------------------------
(* What the object does for a request                                      *)

SimFields == {"exists", "type", "state", "active", "status", "report", "op", "sel", "done",
              "count", "error", "folder", "dest", "rcptCount", "rcptIndex", "completed",
              "list", "slots", "reading", "written", "failed"}

IsSim(s) == DOMAIN s = SimFields

LEMMA FieldNames ==
  /\ "exists" \in SimFields /\ "type" \in SimFields /\ "state" \in SimFields
  /\ "active" \in SimFields /\ "status" \in SimFields /\ "report" \in SimFields
  /\ "op" \in SimFields /\ "sel" \in SimFields /\ "done" \in SimFields
  /\ "count" \in SimFields /\ "error" \in SimFields /\ "folder" \in SimFields
  /\ "dest" \in SimFields /\ "rcptCount" \in SimFields /\ "rcptIndex" \in SimFields
  /\ "completed" \in SimFields /\ "list" \in SimFields /\ "slots" \in SimFields
  /\ "reading" \in SimFields /\ "written" \in SimFields /\ "failed" \in SimFields
  BY DEF SimFields

IsRequest(r) ==
  /\ DOMAIN r = {"n", "cmd", "sel", "before", "answer", "touched", "ended"}
  /\ DOMAIN r.ended = {"folder", "list", "completed", "written", "failed"}

Typed == TypeOK /\ IsSim(sim) /\ IsRequest(request)

\* The object serves the request the client waits for.
Serving == fault = "None" /\ sim.exists /\ request.answer = "Pending"

\* The command behind a type of operation, and the types with a selection.
Command(t) == IF t = "MovingEntries" THEN "MoveFrom" ELSE t

Selecting == {"Delete", "CopyFrom", "MoveFrom", "MovingEntries", "CopyTo", "MoveTo"}

ServeInv ==
  /\ ~sim.exists => sim = NoSim
  /\ fault = "None" =>
       /\ sim.active => sim.exists /\ sim.report /\ request.answer = "Pending"
       /\ mtm.active => request.answer = "Pending"
       /\ request.answer = "Pending" /\ request.cmd \in SimCommands => sim.exists
  /\ Serving =>
       /\ request.cmd = Command(sim.type) /\ request.sel = sim.sel
       /\ DOMAIN sim.written = DOMAIN sim.sel /\ DOMAIN request.before = DOMAIN sim.sel
       /\ \A k \in DOMAIN sim.sel : request.before[k].slots \subseteq Slots
       /\ sim.type \in Selecting => sim.sel # <<>> /\ sim.count = Len(sim.sel)

\* An entry without a folder does not exist, and neither does one in a folder
\* that does not. No enumeration is into a standard folder.
StoreInv ==
  /\ \A i \in Ids : /\ store[i].folder = NoFolder => store[i] = NoEntry
                    /\ store[i].folder \in Hidden => store[i].folder \in hidden
  /\ last \notin Standard

\* What is outstanding, or has completed and not been dealt with.
OpShape ==
  Serving /\ sim.active =>
    /\ sim.state = "DeleteEach" => sim.type \in {"Delete", "MoveFrom"}
    /\ sim.type = "Enumerate" => sim.op \in {"Count", "ReadNext"} /\ sim.done \in Nat
    /\ sim.type \in {"Delete", "MoveFrom"} =>
         /\ sim.done \in 0 .. sim.count
         /\ \/ sim.op = "None" /\ sim.status = KErrNone /\ sim.state = "Other"
            \/ sim.op = "Delete" /\ sim.done >= 1 /\ sim.state = "DeleteEach"
    /\ sim.type = "CopyFrom" => sim.op = "Copy" /\ sim.dest = "Inbox"
    /\ sim.type = "MoveFrom" => sim.dest = "Inbox"
    /\ sim.type = "MovingEntries" => sim.op = "Move" /\ sim.dest = "Inbox"
    /\ sim.type \in {"CopyTo", "MoveTo"} =>
         /\ sim.done \in 0 .. sim.count - 1
         /\ \/ sim.op = "Write" /\ sim.state = "Writing"
            \/ sim.op = "Write" /\ sim.state = "UpdatingClass2" /\ Class2Folder # NoFolder
            \/ sim.op \in {"Class2Copy", "Class2Move"} /\ sim.state = "Writing"
                 /\ Class2Folder # NoFolder
    /\ sim.type = "ReadParams" =>
         sim.op = IF sim.reading THEN "ReadParams" ELSE "CompleteRead"
    /\ sim.type = "WriteParams" => sim.op = "WriteParams"

\* A selected entry is the one the client selected, or others have deleted it.
SelInv ==
  Serving => \A k \in DOMAIN sim.sel :
    LET e == store[sim.sel[k]]
        b == request.before[k]
    IN  /\ e = NoEntry => request.touched
        /\ e # NoEntry => e.text = b.text
        /\ sim.type = "Delete" => e \in {NoEntry, b}
        /\ sim.type \in {"CopyTo", "MoveTo"} => e.folder \notin Hidden
        /\ sim.type = "MoveFrom" => e.folder # "Inbox"
        /\ sim.type = "MovingEntries" => e.slots = {}

\* The entry that is written is locked.
LockShape ==
  Serving /\ sim.active /\ sim.op = "Write" /\ sim.status = KRequestPending
    => store[sim.sel[sim.done + 1]].text \in Texts

\* A failure that is still to be reported is in the status; for the parameters,
\* which are acknowledged first, it is kept in iProgress.
FailInv ==
  Serving /\ sim.failed =>
    IF sim.active
      THEN \/ sim.status \notin {KErrNone, KRequestPending} /\ ~Restarts
           \/ sim.type = "ReadParams" /\ sim.error # KErrNone
      ELSE sim.error # KErrNone

\* The request has not failed so far, and nobody interferes.
GoesWell == Serving /\ ~request.touched /\ (sim.active \/ sim.error = KErrNone)

DelInv ==
  GoesWell /\ sim.type = "Delete" =>
    /\ sim.active /\ sim.op = "Delete" => sim.slots = request.before[sim.done].slots
    /\ \A k \in 1 .. sim.done :
         (k = sim.done /\ sim.active /\ sim.op = "Delete"
             => sim.status \in {KErrNone, KErrNotFound})
           => \A s \in request.before[k].slots : card[s] = Empty
    /\ ~sim.active => sim.done = sim.count

CopyInv ==
  Serving /\ sim.type = "CopyFrom" /\ ~sim.active /\ sim.error = KErrNone
    => \A k \in DOMAIN sim.completed : store[sim.completed[k]].slots = {}

\* How often a selected message has to be written.
Times(k) == LET n == Recipients[request.before[k].text] IN IF n = 0 THEN 1 ELSE n

WriteInv ==
  GoesWell /\ sim.type \in {"CopyTo", "MoveTo"} =>
    LET d == sim.done + 1
    IN  /\ \A k \in 1 .. sim.done : sim.written[k] = Times(k)
        /\ \A k \in DOMAIN sim.sel : k > d => sim.written[k] = 0
        /\ d \in DOMAIN sim.sel =>
             /\ sim.written[d] + (IF sim.op = "Write" /\ sim.status # KErrNone THEN 1 ELSE 0)
                  = IF sim.rcptCount = 0 THEN Times(d) ELSE sim.rcptIndex
             /\ sim.rcptCount # 0 => /\ sim.rcptCount = Times(d)
                                     /\ sim.rcptIndex \in 1 .. sim.rcptCount - 1
        /\ ~sim.active => sim.done = sim.count

\* The folder f holds the first n messages of the list l.
Inside(st, f) == {i \in Ids : st[i].folder = f}

Holds(st, f, l, n) ==
  /\ Cardinality(Inside(st, f)) = n
  /\ {st[i].text : i \in Inside(st, f)} = {l[k].text : k \in 1 .. n}
  /\ {st[i].slots : i \in Inside(st, f)} = {{l[k].slot} : k \in 1 .. n}

Distinct(l) == \A j, k \in DOMAIN l : l[j].slot = l[k].slot => j = k

EnumInv ==
  GoesWell /\ sim.type = "Enumerate" =>
    /\ sim.folder # NoFolder /\ sim.done \in 0 .. Len(sim.list) /\ Distinct(sim.list)
    /\ Holds(store, sim.folder, sim.list, sim.done)
    /\ sim.active /\ sim.op = "Count" /\ sim.status # KErrNone => sim.done = 0
    /\ ~sim.active => sim.done = Len(sim.list)

ServedInv == /\ OpShape /\ SelInv /\ LockShape /\ FailInv
             /\ DelInv /\ CopyInv /\ WriteInv /\ EnumInv

\* What a request that has been answered is promised.
AnswerInv ==
  /\ EnumerationIsComplete /\ RecipientsWritten /\ CopiesAreLocal /\ DeletedMeansGone
  /\ FailureIsReported /\ (fault = "NullContext" => request.touched)

SimInv == Typed /\ ServeInv /\ StoreInv /\ ServedInv /\ AnswerInv

LEMMA NotServing ==
  ASSUME ~Serving
  PROVE  ServedInv
  BY DEF ServedInv, OpShape, SelInv, LockShape, FailInv, DelInv, CopyInv, WriteInv, EnumInv,
         GoesWell

\* The conclusion of EnumerationIsComplete.
Complete(st, e) ==
  LET listed == {e.list[k] : k \in DOMAIN e.list}
      inside == {i \in Ids : st[i].folder = e.folder}
  IN  /\ Cardinality(inside) = Cardinality(listed)
      /\ {st[i].text : i \in inside} = {l.text : l \in listed}
      /\ {st[i].slots : i \in inside} = {{l.slot} : l \in listed}

LEMMA CompleteIsComplete ==
  EnumerationIsComplete <=> (JustDone({"Enumerate"}) => Complete(store, request.ended))
  BY Zenon DEF EnumerationIsComplete, Complete

LEMMA NothingDone ==
  ASSUME IsRequest(request), request.answer # "Ok", ~request.ended.failed,
         fault = "NullContext" => request.touched
  PROVE  AnswerInv
  <1>1. ~JustDone({"Enumerate"}) /\ EnumerationIsComplete
    BY CompleteIsComplete DEF JustDone
  <1> QED BY <1>1 DEF AnswerInv, RecipientsWritten, CopiesAreLocal, DeletedMeansGone,
          FailureIsReported, JustDone

\* A request that is pending or just asked has no outcome yet.
LEMMA PendingHasNoOutcome ==
  ASSUME FailureIsReported, request.answer = "Pending"
  PROVE  ~request.ended.failed
  BY DEF FailureIsReported

\* The request r is the next one, for cmd with the selection q, and its answer is a.
IsNext(r, cmd, q, a) ==
  /\ IsRequest(r) /\ r.n = request.n + 1 /\ r.cmd = cmd /\ r.sel = q /\ r.answer = a
  /\ r.before = [k \in DOMAIN q |-> store[q[k]]] /\ r.touched = FALSE /\ r.ended.failed = FALSE

LEMMA AskedFields ==
  ASSUME NEW cmd, NEW q, NEW a
  PROVE  IsNext(Asked(cmd, q), cmd, q, "Pending") /\ IsNext(Answered(cmd, q, a), cmd, q, a)
  BY DEF IsNext, Asked, Answered, IsRequest, Outcome, NoSim, NewSim

\* An answer stands as long as the request, the store and the SIM do.
LEMMA SameAnswer ==
  ASSUME AnswerInv, UNCHANGED <<card, store, request, fault>>
  PROVE  AnswerInv'
  <1>1. EnumerationIsComplete'
    <2>1. (EnumerationIsComplete <=> (JustDone({"Enumerate"}) => Complete(store, request.ended)))'
      BY CompleteIsComplete, PTL
    <2>2. JustDone({"Enumerate"})' = JustDone({"Enumerate"})
          /\ Complete(store', request'.ended) = Complete(store, request.ended)
      BY DEF JustDone
    <2> QED BY <2>1, <2>2, CompleteIsComplete DEF AnswerInv
  <1>2. RecipientsWritten' /\ CopiesAreLocal' /\ DeletedMeansGone' /\ FailureIsReported'
    BY DEF AnswerInv, RecipientsWritten, CopiesAreLocal, DeletedMeansGone, FailureIsReported,
       JustDone
  <1> QED BY <1>1, <1>2 DEF AnswerInv

\* Nothing happens to the object, the store, the SIM or the request.
LEMMA QuietKeepsSimInv ==
  ASSUME SimInv, UNCHANGED <<card, store, hidden, last, sim, fault, request, changes>>,
         mtm' \in [state : MtmStates, report : BOOLEAN, active : BOOLEAN, sent : BOOLEAN,
                   stale : BOOLEAN],
         mtm'.active = mtm.active
  PROVE  SimInv'
  <1> USE DEF SimInv
  <1>1. Typed'
    BY DEF Typed, TypeOK, SimRec, IsSim, IsRequest
  <1>2. Serving' = Serving
    BY DEF Serving
  <1>3. ServeInv' /\ StoreInv'
    BY <1>2 DEF ServeInv, StoreInv
  <1>4. GoesWell' = GoesWell
    BY <1>2 DEF GoesWell
  <1>5. ServedInv'
    <2>1. OpShape' /\ SelInv' /\ LockShape' /\ FailInv'
      BY <1>2 DEF ServedInv, OpShape, SelInv, LockShape, FailInv, Restarts
    <2>2. DelInv' /\ CopyInv' /\ WriteInv'
      BY <1>2, <1>4 DEF ServedInv, DelInv, CopyInv, WriteInv, Times
    <2>3. EnumInv'
      BY <1>2, <1>4 DEF ServedInv, EnumInv
    <2> QED BY <2>1, <2>2, <2>3 DEF ServedInv
  <1>6. AnswerInv'
    BY SameAnswer DEF SimInv
  <1> QED BY <1>1, <1>3, <1>5, <1>6

MtmSet == [state : MtmStates, report : BOOLEAN, active : BOOLEAN, sent : BOOLEAN,
           stale : BOOLEAN]

\* A command that does not start the object: it is answered at once, it panics,
\* or it is a sending.
LEMMA UnservedKeepsSimInv ==
  ASSUME SimInv, MayAsk, UNCHANGED <<card, hidden, last, sim, changes>>,
         store' \in [Ids -> EntryRec], StoreInv', mtm' \in MtmSet,
         NEW cmd \in Commands, NEW q \in Seq(Ids), NEW a \in {"Ok", "Error"},
         \/ /\ request' = Answered(cmd, q, a) /\ fault' = fault /\ ~mtm'.active
            /\ a = "Ok" => cmd \in {"Schedule", "DeleteAll"}
         \/ /\ request' = Asked(cmd, q) /\ UNCHANGED mtm
            /\ fault' \in {"MtmAlreadyActive", "AlreadyUsingSimUtils", "AlreadyActive"}
         \/ /\ request' = Asked(cmd, q) /\ cmd = "Send" /\ ~sim.exists /\ fault' = fault
  PROVE  SimInv'
  <1> USE DEF SimInv
  <1>1. /\ fault = "None" /\ request.answer # "Pending" /\ request.n + 1 \in 0 .. MaxRequests
        /\ ~sim.active
    BY MtmAssumption DEF MayAsk, Typed, TypeOK, ServeInv
  <1>2. IsNext(Asked(cmd, q), cmd, q, "Pending") /\ IsNext(Answered(cmd, q, a), cmd, q, a)
    BY AskedFields
  <1>3. /\ IsNext(request', cmd, q, a) \/ IsNext(request', cmd, q, "Pending")
        /\ IsRequest(request') /\ request'.n = request.n + 1 /\ request'.cmd = cmd
        /\ request'.sel = q /\ request'.answer \in {a, "Pending"}
        /\ request'.touched = FALSE /\ request'.ended.failed = FALSE
    <2>1. IsNext(request', cmd, q, a) \/ IsNext(request', cmd, q, "Pending")
      BY <1>2
    <2> QED BY <2>1 DEF IsNext
  <1>4. \/ /\ request'.answer = a /\ ~mtm'.active /\ fault' = fault
           /\ (a = "Ok" => cmd \in {"Schedule", "DeleteAll"})
        \/ /\ request'.answer = "Pending"
           /\ fault' \in {"MtmAlreadyActive", "AlreadyUsingSimUtils", "AlreadyActive"}
        \/ request'.answer = "Pending" /\ cmd = "Send" /\ ~sim.exists /\ fault' = fault
    BY <1>2 DEF IsNext
  <1>5. request'.answer = "Ok" => cmd \in {"Schedule", "DeleteAll"}
    BY <1>2 DEF IsNext
  <1>6. Typed'
    <2>1. SimRec(sim') /\ IsSim(sim')
      BY DEF Typed, TypeOK
    <2>2. fault' \in {"None", "MtmAlreadyActive", "AlreadyUsingSimUtils", "AlreadyActive",
                      "NullContext", "CancelHangs"}
      BY <1>1, <1>4
    <2>3. request'.answer \in {"None", "Pending", "Ok", "Error"}
      BY <1>3
    <2>4. TypeOK'
      BY <1>1, <1>3, <2>1, <2>2, <2>3 DEF Typed, TypeOK, MtmSet
    <2> QED BY <1>3, <2>1, <2>4 DEF Typed
  <1>7. ~Serving'
    BY <1>1, <1>3, <1>4 DEF Serving
  <1>8. ServeInv'
    <2>1. fault' = "None" => /\ sim'.active => sim'.exists /\ sim'.report /\ request'.answer = "Pending"
                             /\ mtm'.active => request'.answer = "Pending"
                             /\ request'.answer = "Pending" /\ request'.cmd \in SimCommands => sim'.exists
      <3>1. ~sim'.active
        BY <1>1
      <3>2. CASE fault' = "None" /\ request'.answer = a
        BY <1>3, <1>4, <3>1, <3>2 DEF SimCommands
      <3>3. CASE fault' = "None" /\ request'.answer = "Pending"
        BY <1>3, <1>4, <3>1, <3>3 DEF SimCommands
      <3> QED BY <1>3, <3>2, <3>3
    <2> QED BY <1>7, <2>1 DEF ServeInv
  <1>9. ServedInv'
    <2>1. (~Serving => ServedInv)'
      BY NotServing, PTL
    <2> QED BY <1>7, <2>1
  <1>10. AnswerInv'
    <2>1. CASE request'.answer # "Ok"
      <3>1. (IsRequest(request) /\ request.answer # "Ok" /\ ~request.ended.failed
               /\ (fault = "NullContext" => request.touched) => AnswerInv)'
        BY NothingDone, PTL
      <3>2. fault' # "NullContext"
        BY <1>1, <1>4
      <3> QED BY <1>3, <2>1, <3>1, <3>2
    <2>2. CASE request'.answer = "Ok"
      <3>1. request'.cmd \in {"Schedule", "DeleteAll"} /\ fault' = "None"
        BY <1>1, <1>3, <1>4, <1>5, <2>2
      <3>2. (EnumerationIsComplete <=> (JustDone({"Enumerate"}) => Complete(store, request.ended)))'
        BY CompleteIsComplete, PTL
      <3>3. EnumerationIsComplete'
        BY <3>1, <3>2 DEF JustDone
      <3> QED BY <1>3, <3>1, <3>3 DEF AnswerInv, RecipientsWritten, CopiesAreLocal,
              DeletedMeansGone, FailureIsReported, JustDone
    <2> QED BY <2>1, <2>2
  <1> QED BY <1>6, <1>8, <1>9, <1>10

\* What a client selects.
LEMMA SelectionsType ==
  ASSUME NEW fs, NEW q \in Selections(fs)
  PROVE  /\ q \in Seq(Ids) /\ q # <<>>
         /\ \A k \in DOMAIN q : q[k] \in Ids /\ store[q[k]].folder \in fs
  <1> DEFINE S == {i \in Ids : store[i].folder \in fs}
  <1>1. CASE \E i \in S : q = <<i>>
    BY <1>1
  <1>2. CASE \E i, j \in S : q = <<i, j>>
    BY <1>2
  <1> QED BY <1>1, <1>2 DEF Selections

LEMMA OthersCommandsKeepSimInv ==
  ASSUME SimInv, ReadyInv, ScheduleCommandL \/ CopyFromLocalL \/ DeleteAllL
  PROVE  SimInv'
  <1>1. mtm \in MtmSet /\ MayAsk /\ ~mtm.active /\ fault = "None"
    BY DEF ScheduleCommandL, CopyFromLocalL, DeleteAllL, MayAsk, SimInv, ServeInv, ReadyInv,
       MtmType, MtmSet
  <1>2. store \in [Ids -> EntryRec] /\ <<>> \in Seq(Ids) /\ StoreInv
    BY DEF SimInv, Typed, TypeOK
  <1>3. CASE ScheduleCommandL
    <2>1. mtm' \in MtmSet /\ ~mtm'.active
      BY <1>1, <1>3 DEF ScheduleCommandL, MtmSet, MtmStates
    <2>2. StoreInv' /\ store' = store
      BY <1>2, <1>3 DEF ScheduleCommandL, StoreInv
    <2>3. \/ /\ request' = Answered("Schedule", <<>>, "Ok") \/ request' = Answered("Schedule", <<>>, "Error")
             /\ fault' = fault
          \/ /\ request' = Asked("Schedule", <<>>) /\ UNCHANGED mtm
             /\ fault' = "MtmAlreadyActive"
      BY <1>3 DEF ScheduleCommandL
    <2>4. UNCHANGED <<card, hidden, last, sim, changes>> /\ "Schedule" \in Commands
      BY <1>3 DEF ScheduleCommandL
    <2>5. "Ok" \in {"Ok", "Error"} /\ "Error" \in {"Ok", "Error"}
      OBVIOUS
    <2> QED BY <1>1, <1>2, <2>1, <2>2, <2>3, <2>4, <2>5, UnservedKeepsSimInv
  <1>4. CASE CopyFromLocalL
    <2>1. StoreInv' /\ store' = store /\ UNCHANGED <<card, hidden, last, sim, changes>>
          /\ "Send" \in Commands
      BY <1>2, <1>4 DEF CopyFromLocalL, StoreInv
    <2>2. CASE mtm.report
      BY <1>1, <1>2, <1>4, <2>1, <2>2, UnservedKeepsSimInv DEF CopyFromLocalL
    <2>3. CASE ~mtm.report
      <3>1. ~sim.exists /\ fault' = fault
        BY <1>4, <2>3 DEF CopyFromLocalL, ReadyInv, SimServesMtm
      <3>2. mtm' \in MtmSet
        BY <1>1, <1>4, <2>3 DEF CopyFromLocalL, MtmSet, MtmStates
      <3>3. CASE request' = Asked("Send", <<>>)
        BY <1>1, <1>2, <2>1, <3>1, <3>2, <3>3, UnservedKeepsSimInv
      <3>4. CASE request' = Answered("Send", <<>>, "Error") /\ ~mtm'.active
        BY <1>1, <1>2, <2>1, <3>1, <3>2, <3>4, UnservedKeepsSimInv
      <3>5. request' = Asked("Send", <<>>)
            \/ (request' = Answered("Send", <<>>, "Error") /\ ~mtm'.active)
        BY <1>1, <1>4, <2>3 DEF CopyFromLocalL, MtmSet
      <3> QED BY <3>3, <3>4, <3>5
    <2> QED BY <2>2, <2>3
  <1>5. CASE DeleteAllL
    <2>1. PICK q \in FromSim :
            \/ /\ store' = [i \in Ids |-> IF \E k \in DOMAIN q : q[k] = i THEN NoEntry ELSE store[i]]
               /\ request' = Answered("DeleteAll", q, "Ok")
            \/ request' = Answered("DeleteAll", q, "Error") /\ UNCHANGED store
      BY <1>5 DEF DeleteAllL
    <2>2. q \in Seq(Ids)
      BY <2>1, SelectionsType DEF FromSim
    <2>3. UNCHANGED <<card, hidden, last, sim, fault, mtm, changes>> /\ "DeleteAll" \in Commands
      BY <1>5 DEF DeleteAllL
    <2>4. store' \in [Ids -> EntryRec] /\ \A i \in Ids : store'[i] \in {NoEntry, store[i]}
      BY <1>2, <2>1 DEF NoEntry, EntryRec
    <2>5. StoreInv'
      BY <1>2, <2>3, <2>4, SimAssumption DEF StoreInv, NoEntry, NoFolder
    <2> QED BY <1>1, <1>2, <2>1, <2>2, <2>3, <2>4, <2>5, UnservedKeepsSimInv
  <1> QED BY <1>3, <1>4, <1>5

\* What a command selects.
LEMMA TargetsType ==
  ASSUME SimInv, NEW cmd \in SimCommands, NEW q \in Targets(cmd)
  PROVE  /\ q \in Seq(Ids)
         /\ cmd \in Selecting => q # <<>> /\ \A k \in DOMAIN q : q[k] \in Ids /\ Exists(q[k])
         /\ cmd = "MoveFrom" => \A k \in DOMAIN q : store[q[k]].folder # "Inbox"
         /\ cmd \in {"CopyTo", "MoveTo"} => \A k \in DOMAIN q : store[q[k]].folder \notin Hidden
  <1>1. NoEntry.folder = NoFolder
    BY DEF NoEntry
  <1>2. CASE cmd \in {"Delete", "CopyFrom", "MoveFrom"}
    <2>1. q \in Selections({last} \ {NoFolder})
      BY <1>2 DEF Targets, FromSim
    <2>2. /\ q \in Seq(Ids) /\ q # <<>>
          /\ \A k \in DOMAIN q : q[k] \in Ids /\ store[q[k]].folder \in {last} \ {NoFolder}
      BY <2>1, SelectionsType
    <2> QED BY <1>1, <1>2, <2>2 DEF Exists, SimInv, StoreInv, Standard
  <1>3. CASE cmd \in {"CopyTo", "MoveTo"}
    <2>1. q \in Selections({"Inbox", "Drafts", "Class2"})
      BY <1>3 DEF Targets, ToSim
    <2>2. /\ q \in Seq(Ids) /\ q # <<>>
          /\ \A k \in DOMAIN q : q[k] \in Ids /\ store[q[k]].folder \in {"Inbox", "Drafts", "Class2"}
      BY <2>1, SelectionsType
    <2> QED BY <1>1, <1>3, <2>2, SimAssumption DEF Exists, NoFolder
  <1>4. CASE cmd \in {"Enumerate", "ReadParams", "WriteParams"}
    <2>1. q = <<>>
      BY <1>4 DEF Targets
    <2> QED BY <1>4, <2>1 DEF Selecting
  <1> QED BY <1>2, <1>3, <1>4 DEF SimCommands

LEMMA NoStartKeepsSimInv ==
  ASSUME SimInv, ReadyInv, MayAsk, UNCHANGED changes,
         NEW cmd \in Commands \cap SimCommands, NEW q \in Targets(cmd),
         SimUtilsLeaves(cmd, q) \/ SimUtilsPanics(cmd, q)
  PROVE  SimInv'
  <1>1. mtm \in MtmSet /\ ~mtm.active /\ fault = "None"
    BY DEF MayAsk, SimInv, ServeInv, ReadyInv, MtmType, MtmSet
  <1>2. q \in Seq(Ids) /\ store \in [Ids -> EntryRec] /\ StoreInv
    BY TargetsType DEF SimInv, Typed, TypeOK
  <1>3. CASE SimUtilsLeaves(cmd, q)
    <2>1. /\ request' = Answered(cmd, q, "Error") /\ UNCHANGED simVars
          /\ mtm' \in MtmSet /\ ~mtm'.active
      BY <1>1, <1>3 DEF SimUtilsLeaves, MtmSet
    <2>2. StoreInv'
      BY <1>2, <2>1 DEF StoreInv, simVars
    <2> QED BY <1>1, <1>2, <2>1, <2>2, UnservedKeepsSimInv DEF simVars
  <1>4. CASE SimUtilsPanics(cmd, q)
    <2>1. /\ request' = Asked(cmd, q) /\ UNCHANGED <<card, store, hidden, last, sim, mtm>>
          /\ fault' \in {"MtmAlreadyActive", "AlreadyUsingSimUtils", "AlreadyActive"}
      BY <1>4 DEF SimUtilsPanics, Assertion
    <2>2. StoreInv'
      BY <1>2, <2>1 DEF StoreInv
    <2> QED BY <1>1, <1>2, <2>1, <2>2, UnservedKeepsSimInv
  <1> QED BY <1>3, <1>4

\* A request of type t with the selection q, before anything is done for it.
Fresh(s, t, q) ==
  /\ s.exists = TRUE /\ s.report = TRUE /\ s.active = FALSE /\ s.failed = FALSE
  /\ s.type = t /\ s.sel = q /\ s.count = Len(q) /\ s.written = [k \in DOMAIN q |-> 0]
  /\ s.error = KErrNone /\ s.list = <<>> /\ s.rcptCount = 0

LEMMA QueuedFields ==
  ASSUME NEW t \in SimTypes, NEW q \in Seq(Ids)
  PROVE  /\ IsSim(Queued(t, q)) /\ SimRec(Queued(t, q)) /\ Fresh(Queued(t, q), t, q)
         /\ Queued(t, q).done = 0 /\ Queued(t, q).state = "Other"
         /\ Queued(t, q).reading = FALSE
  <1>1. IsSim(NewSim)
    BY DEF NewSim, IsSim, SimFields
  <1>2. IsSim(Queued(t, q))
    BY <1>1, FieldNames DEF Queued, IsSim
  <1>3. /\ Queued(t, q).exists = TRUE /\ Queued(t, q).report = TRUE
        /\ Queued(t, q).active = FALSE /\ Queued(t, q).failed = FALSE
        /\ Queued(t, q).type = t /\ Queued(t, q).sel = q /\ Queued(t, q).count = Len(q)
        /\ Queued(t, q).written = [k \in DOMAIN q |-> 0] /\ Queued(t, q).done = 0
        /\ Queued(t, q).state = "Other" /\ Queued(t, q).error = KErrNone
        /\ Queued(t, q).list = <<>> /\ Queued(t, q).rcptCount = 0
        /\ Queued(t, q).reading = FALSE
    BY <1>1, FieldNames DEF Queued, IsSim, NewSim
  <1>4. /\ Queued(t, q).status = KErrNone /\ Queued(t, q).op = "None"
        /\ Queued(t, q).folder = NoFolder /\ Queued(t, q).dest = NoFolder
        /\ Queued(t, q).rcptIndex = 0 /\ Queued(t, q).completed = <<>>
        /\ Queued(t, q).slots = {}
    BY <1>1, FieldNames DEF Queued, IsSim, NewSim
  <1>5. [k \in DOMAIN q |-> 0] \in Seq(Nat) /\ Len(q) \in Nat
        /\ <<>> \in Seq(Ids) /\ <<>> \in Seq([slot : Slots, text : Texts])
    OBVIOUS
  <1>6. SimRec(Queued(t, q))
    <2>1. KErrNone \in Errors /\ KErrNone \in Errors \cup {KRequestPending} /\ "Other" \in SimStates
      BY DEF SimStates, Errors
    <2>2. 0 \in Nat /\ 0 \in Int /\ {} \subseteq Slots /\ NoFolder \in Folders \cup {NoFolder}
          /\ "None" \in CardOps \cup StoreOps \cup {"None"}
      OBVIOUS
    <2> QED BY <1>3, <1>4, <1>5, <2>1, <2>2, Zenon DEF SimRec
  <1> QED BY <1>2, <1>3, <1>6 DEF Fresh

\* A command that starts the object, or whose start leaves.
LEMMA StartKeepsSimInv ==
  ASSUME SimInv, MayAsk, UNCHANGED <<card, fault, changes>>,
         NEW cmd \in Commands \cap SimCommands, NEW q \in Seq(Ids),
         store' \in [Ids -> EntryRec], hidden' \subseteq Hidden,
         last' \in Folders \cup {NoFolder}, StoreInv', mtm' \in MtmSet,
         IsSim(sim'), SimRec(sim'), sim'.exists,
         \/ ~sim'.active /\ ~mtm'.active /\ request' = Answered(cmd, q, "Error")
         \/ /\ sim'.active /\ sim'.report /\ sim'.type = cmd /\ sim'.sel = q
            /\ DOMAIN sim'.written = DOMAIN q
            /\ cmd \in Selecting => q # <<>> /\ sim'.count = Len(q)
            /\ request' = Asked(cmd, q) /\ ServedInv'
  PROVE  SimInv'
  <1>1. /\ fault = "None" /\ request.answer # "Pending" /\ request.n + 1 \in 0 .. MaxRequests
        /\ fault' = "None"
    BY MtmAssumption DEF MayAsk, SimInv, Typed, TypeOK
  <1>2. IsNext(Asked(cmd, q), cmd, q, "Pending") /\ IsNext(Answered(cmd, q, "Error"), cmd, q, "Error")
    BY AskedFields
  <1>3. /\ IsRequest(request') /\ request'.n = request.n + 1 /\ request'.cmd = cmd
        /\ request'.sel = q /\ request'.answer \in {"Error", "Pending"}
        /\ request'.touched = FALSE /\ request'.ended.failed = FALSE
        /\ request'.before = [k \in DOMAIN q |-> store[q[k]]]
    <2>1. IsNext(request', cmd, q, "Error") \/ IsNext(request', cmd, q, "Pending")
      BY <1>2
    <2> QED BY <2>1 DEF IsNext
  <1>4. \/ ~sim'.active /\ ~mtm'.active /\ request'.answer = "Error"
        \/ sim'.active /\ request'.answer = "Pending"
    BY <1>2 DEF IsNext
  <1>5. Typed'
    <2>1. TypeOK'
      BY <1>1, <1>3 DEF SimInv, Typed, TypeOK, MtmSet
    <2> QED BY <1>3, <2>1 DEF Typed
  <1>6. ServeInv'
    <2>1. sim' # NoSim /\ Command(cmd) = cmd
      BY NoSimIsIdle DEF Command, SimCommands
    <2>2. /\ DOMAIN request'.before = DOMAIN q
          /\ \A k \in DOMAIN q : request'.before[k].slots \subseteq Slots
      <3>1. \A k \in DOMAIN q : q[k] \in Ids /\ request'.before[k] = store[q[k]]
        BY <1>3
      <3>2. \A i \in Ids : store[i] \in EntryRec
        BY DEF SimInv, Typed, TypeOK
      <3> QED BY <1>3, <3>1, <3>2 DEF EntryRec
    <2> QED BY <1>1, <1>3, <1>4, <2>1, <2>2 DEF ServeInv, Serving
  <1>7. ServedInv'
    <2>1. CASE ~sim'.active
      <3>1. (~Serving => ServedInv)'
        BY NotServing, PTL
      <3>2. ~Serving'
        BY <1>4, <2>1 DEF Serving
      <3> QED BY <3>1, <3>2
    <2> QED BY <2>1
  <1>8. AnswerInv'
    <2>1. (IsRequest(request) /\ request.answer # "Ok" /\ ~request.ended.failed
             /\ (fault = "NullContext" => request.touched) => AnswerInv)'
      BY NothingDone, PTL
    <2> QED BY <1>1, <1>3, <2>1
  <1> QED BY <1>5, <1>6, <1>7, <1>8 DEF SimInv

\* The store as the start leaves it when it does not touch it.
LEMMA SameStore ==
  ASSUME SimInv, UNCHANGED <<store, hidden, last>>
  PROVE  /\ store' \in [Ids -> EntryRec] /\ hidden' \subseteq Hidden
         /\ last' \in Folders \cup {NoFolder} /\ StoreInv'
  BY DEF SimInv, Typed, TypeOK, StoreInv

\* What waiting, waking and completing leave alone.
Keeps(t, s) ==
  /\ t.exists = s.exists /\ t.type = s.type /\ t.state = s.state /\ t.sel = s.sel
  /\ t.done = s.done /\ t.count = s.count /\ t.folder = s.folder /\ t.dest = s.dest
  /\ t.rcptCount = s.rcptCount /\ t.rcptIndex = s.rcptIndex /\ t.completed = s.completed
  /\ t.list = s.list /\ t.slots = s.slots /\ t.reading = s.reading /\ t.written = s.written
  /\ t.failed = s.failed

LEMMA KeptType ==
  ASSUME NEW s, NEW t, SimRec(s), Keeps(t, s), t.active \in BOOLEAN, t.report \in BOOLEAN,
         t.status \in Errors \cup {KRequestPending}, t.error \in Errors,
         t.op \in CardOps \cup StoreOps \cup {"None"}
  PROVE  SimRec(t)
  BY Zenon DEF SimRec, Keeps

LEMMA WaitingFields ==
  ASSUME NEW s, IsSim(s), SimRec(s), NEW op \in CardOps \cup StoreOps
  PROVE  /\ IsSim(WaitsFor(s, op)) /\ SimRec(WaitsFor(s, op)) /\ Keeps(WaitsFor(s, op), s)
         /\ WaitsFor(s, op).active = TRUE /\ WaitsFor(s, op).status = KRequestPending
         /\ WaitsFor(s, op).op = op /\ WaitsFor(s, op).report = s.report
         /\ WaitsFor(s, op).error = s.error
  <1> DEFINE t == WaitsFor(s, op)
  <1>1. /\ IsSim(t) /\ Keeps(t, s) /\ t.active = TRUE /\ t.status = KRequestPending
        /\ t.op = op /\ t.report = s.report /\ t.error = s.error
    BY FieldNames DEF WaitsFor, IsSim, Keeps
  <1>2. SimRec(t)
    BY <1>1, KeptType DEF SimRec
  <1> QED BY <1>1, <1>2

LEMMA WakingFields ==
  ASSUME NEW s, IsSim(s), SimRec(s)
  PROVE  /\ IsSim(RunsNext(s)) /\ SimRec(RunsNext(s)) /\ Keeps(RunsNext(s), s)
         /\ RunsNext(s).active = TRUE /\ RunsNext(s).status = KErrNone
         /\ RunsNext(s).op = "None" /\ RunsNext(s).report = s.report
         /\ RunsNext(s).error = s.error
  <1> DEFINE t == RunsNext(s)
  <1>1. /\ IsSim(t) /\ Keeps(t, s) /\ t.active = TRUE /\ t.status = KErrNone
        /\ t.op = "None" /\ t.report = s.report /\ t.error = s.error
    BY FieldNames DEF RunsNext, IsSim, Keeps
  <1>2. SimRec(t)
    BY <1>1, KeptType DEF SimRec, Errors
  <1> QED BY <1>1, <1>2

LEMMA DoneFields ==
  ASSUME NEW s, IsSim(s), SimRec(s), NEW e \in Errors
  PROVE  /\ IsSim(Done(s, e)) /\ SimRec(Done(s, e)) /\ Keeps(Done(s, e), s)
         /\ Done(s, e).active = FALSE /\ Done(s, e).op = "None" /\ Done(s, e).report = FALSE
         /\ Done(s, e).status = s.status
         /\ Done(s, e).error = IF e # KErrNone THEN e ELSE s.error
  <1> DEFINE t == Done(s, e)
  <1>1. /\ IsSim(t) /\ Keeps(t, s) /\ t.active = FALSE /\ t.status = s.status
        /\ t.op = "None" /\ t.report = FALSE /\ t.error = IF e # KErrNone THEN e ELSE s.error
    BY FieldNames DEF Done, IsSim, Keeps
  <1>2. SimRec(t)
    BY <1>1, KeptType DEF SimRec
  <1> QED BY <1>1, <1>2

\* The object in its RunL.
LEMMA RunningFields ==
  ASSUME IsSim(sim), SimRec(sim)
  PROVE  /\ IsSim(Running) /\ SimRec(Running) /\ Keeps(Running, sim)
         /\ Running.active = FALSE /\ Running.op = "None" /\ Running.report = sim.report
         /\ Running.status = sim.status /\ Running.error = sim.error
  <1>1. /\ IsSim(Running) /\ Keeps(Running, sim)
        /\ Running.active = FALSE /\ Running.op = "None" /\ Running.report = sim.report
        /\ Running.status = sim.status /\ Running.error = sim.error
    BY FieldNames DEF Running, IsSim, Keeps
  <1>2. SimRec(Running)
    BY <1>1, KeptType DEF SimRec
  <1> QED BY <1>1, <1>2

-----------------------------------------------------------------------------
(* A request starts                                                        *)

\* The entries of st, when hid are the enumeration folders that exist.
Placed(st, hid) ==
  \A i \in Ids : /\ st[i].folder = NoFolder => st[i] = NoEntry
                 /\ st[i].folder \in Hidden => st[i].folder \in hid

LEMMA CleanedStore ==
  ASSUME NEW st \in [Ids -> EntryRec], NEW hid, NEW f, Placed(st, hid)
  PROVE  /\ Cleaned(st, f) \in [Ids -> EntryRec] /\ Placed(Cleaned(st, f), hid)
         /\ Placed(Cleaned(st, f), hid \ {f})
         /\ f # NoFolder => Inside(Cleaned(st, f), f) = {}
         /\ \A i \in Ids : Cleaned(st, f)[i] \in {st[i], NoEntry}
  <1>1. NoEntry \in EntryRec /\ NoEntry.folder = NoFolder /\ NoFolder \notin Hidden
    BY SimAssumption DEF NoEntry, EntryRec, NoFolder
  <1>2. \A i \in Ids : Cleaned(st, f)[i] = IF st[i].folder = f THEN NoEntry ELSE st[i]
    BY DEF Cleaned
  <1>3. Cleaned(st, f) \in [Ids -> EntryRec]
    BY <1>1 DEF Cleaned
  <1>4. Placed(Cleaned(st, f), hid) /\ Placed(Cleaned(st, f), hid \ {f})
    BY <1>1, <1>2 DEF Placed
  <1>5. f # NoFolder => Inside(Cleaned(st, f), f) = {}
    BY <1>1, <1>2 DEF Inside
  <1> QED BY <1>2, <1>3, <1>4, <1>5

\* In every state EnumerateL may leave in the store is sound; at the end of it
\* the folder is empty.
LEMMA StagesKeepStore ==
  ASSUME SimInv, NEW p \in Folders \cup {NoFolder}, NEW k \in DOMAIN EnumStages(p),
         p = NoFolder /\ LastFolder = NoFolder => hidden # Hidden
  PROVE  LET t == EnumStages(p)[k]
         IN  /\ t.store \in [Ids -> EntryRec] /\ Placed(t.store, t.hidden)
             /\ t.last \in (Folders \cup {NoFolder}) \ Standard
             /\ k = Len(EnumStages(p)) /\ EnumError(p) = KErrNone =>
                  /\ EnumFolder(p) \in Folders
                  /\ Inside(t.store, EnumFolder(p)) = {}
  <1> DEFINE a == [store |-> store, hidden |-> hidden, last |-> last]
             b == [a EXCEPT !.store = Cleaned(@, LastFolder)]
             c == [b EXCEPT !.store = Cleaned(@, p)]
             d == [c EXCEPT !.hidden = @ \ {LastFolder}]
             e == [d EXCEPT !.last = p]
             new == [a EXCEPT !.hidden = @ \cup {NewFolder}, !.last = NewFolder]
             Good(t) == /\ t.store \in [Ids -> EntryRec] /\ Placed(t.store, t.hidden)
                        /\ t.last \in (Folders \cup {NoFolder}) \ Standard
             Full(t) == EnumFolder(p) \in Folders /\ Inside(t.store, EnumFolder(p)) = {}
  <1>1. /\ store \in [Ids -> EntryRec] /\ Placed(store, hidden) /\ hidden \subseteq Hidden
        /\ last \in (Folders \cup {NoFolder}) \ Standard
    BY DEF SimInv, Typed, TypeOK, StoreInv, Placed
  <1>2. Good(a)
    BY <1>1
  <1>3. b.store = Cleaned(store, LastFolder) /\ b.hidden = hidden /\ b.last = last
    OBVIOUS
  <1>4. Good(b) /\ Placed(b.store, hidden \ {LastFolder})
    <2>1. /\ Cleaned(store, LastFolder) \in [Ids -> EntryRec]
          /\ Placed(Cleaned(store, LastFolder), hidden)
          /\ Placed(Cleaned(store, LastFolder), hidden \ {LastFolder})
      BY <1>1, CleanedStore
    <2> HIDE DEF b
    <2> QED BY <1>1, <1>3, <2>1
  <1>5. c.store = Cleaned(b.store, p) /\ c.hidden = hidden /\ c.last = last
    OBVIOUS
  <1>6. Good(c) /\ Placed(c.store, hidden \ {LastFolder}) /\ (p # NoFolder => Inside(c.store, p) = {})
    <2> HIDE DEF b, c
    <2>1. b.store \in [Ids -> EntryRec] /\ Placed(b.store, hidden)
          /\ Placed(b.store, hidden \ {LastFolder})
      BY <1>3, <1>4
    <2>2. /\ Cleaned(b.store, p) \in [Ids -> EntryRec] /\ Placed(Cleaned(b.store, p), hidden)
          /\ p # NoFolder => Inside(Cleaned(b.store, p), p) = {}
      BY <2>1, CleanedStore
    <2>3. Placed(Cleaned(b.store, p), hidden \ {LastFolder})
      BY <2>1, CleanedStore
    <2> QED BY <1>1, <1>5, <2>2, <2>3
  <1>7. d.store = c.store /\ d.hidden = hidden \ {LastFolder} /\ d.last = last
    OBVIOUS
  <1>8. Good(d)
    <2> HIDE DEF c, d
    <2> QED BY <1>1, <1>6, <1>7
  <1>9. e.store = c.store /\ e.hidden = hidden \ {LastFolder} /\ e.last = p
    OBVIOUS
  <1>10. p \notin Standard => Good(e)
    <2> HIDE DEF c, e
    <2> QED BY <1>6, <1>9
  <1>11. EnumError(p) = KErrNone => p \notin Standard
    BY DEF EnumError, KErrArgument, KErrNone
  <1>12. LastFolder \in Folders \cup {NoFolder}
    BY <1>1 DEF LastFolder
  <1>13. ASSUME p = NoFolder, LastFolder = NoFolder
         PROVE  Good(new) /\ NewFolder \in Folders /\ Inside(new.store, NewFolder) = {}
    <2>1. NewFolder \in Hidden /\ NewFolder \notin hidden
      BY <1>1, <1>13, NewFolderIsNew
    <2>2. new.store = store /\ new.hidden = hidden \cup {NewFolder} /\ new.last = NewFolder
      OBVIOUS
    <2>3. NewFolder \in Folders /\ NewFolder \notin Standard
      BY <2>1, SimAssumption DEF Folders, Standard
    <2>4. Placed(store, hidden \cup {NewFolder}) /\ Inside(store, NewFolder) = {}
      BY <1>1, <2>1 DEF Placed, Inside
    <2> HIDE DEF new
    <2> QED BY <1>1, <2>2, <2>3, <2>4
  <1> HIDE DEF a, b, c, d, e, new
  <1>15. CASE EnumError(p) # KErrNone
    <2>1. EnumStages(p) = <<a, b>>
      BY <1>15 DEF EnumStages, a, b
    <2> QED BY <1>2, <1>4, <1>15, <2>1
  <1>16. CASE EnumError(p) = KErrNone /\ p = NoFolder /\ LastFolder = p
    <2>1. EnumStages(p) = <<a, new>>
      BY <1>16 DEF EnumStages, a, new
    <2>2. EnumFolder(p) = NewFolder
      BY <1>16 DEF EnumFolder
    <2> QED BY <1>2, <1>13, <1>16, <2>1, <2>2
  <1>17. CASE EnumError(p) = KErrNone /\ p = NoFolder /\ LastFolder # p
    <2>1. EnumStages(p) = <<a, b>>
      BY <1>17 DEF EnumStages, a, b
    <2>2. EnumFolder(p) = LastFolder /\ LastFolder \in Folders
      BY <1>12, <1>17 DEF EnumFolder
    <2>3. Inside(b.store, LastFolder) = {}
      BY <1>1, <1>3, <1>17, CleanedStore
    <2> QED BY <1>2, <1>4, <2>1, <2>2, <2>3
  <1>18. CASE EnumError(p) = KErrNone /\ p # NoFolder /\ LastFolder = p
    <2>1. EnumStages(p) = <<a, b, c>>
      BY <1>18 DEF EnumStages, a, b, c
    <2>2. EnumFolder(p) = p /\ p \in Folders
      BY <1>18 DEF EnumFolder
    <2> QED BY <1>2, <1>4, <1>6, <1>18, <2>1, <2>2
  <1>19. CASE EnumError(p) = KErrNone /\ p # NoFolder /\ LastFolder # p
    <2>1. EnumStages(p) = <<a, b, c, d, e>>
      BY <1>19 DEF EnumStages, a, b, c, d, e
    <2>2. EnumFolder(p) = p /\ p \in Folders
      BY <1>19 DEF EnumFolder
    <2>3. Inside(e.store, p) = {}
      BY <1>6, <1>9, <1>19
    <2> QED BY <1>2, <1>4, <1>6, <1>8, <1>10, <1>11, <1>19, <2>1, <2>2, <2>3
  <1> QED BY <1>15, <1>16, <1>17, <1>18, <1>19

\* What is shown of a command about the SIM that starts.
Started(cmd, q) ==
  /\ UNCHANGED <<card, fault>> /\ store' \in [Ids -> EntryRec] /\ hidden' \subseteq Hidden
  /\ last' \in Folders \cup {NoFolder} /\ StoreInv'
  /\ IsSim(sim') /\ SimRec(sim') /\ sim'.exists
  /\ sim'.active =>
       /\ sim'.report /\ sim'.type = cmd /\ sim'.sel = q /\ DOMAIN sim'.written = DOMAIN q
       /\ cmd \in Selecting => q # <<>> /\ sim'.count = Len(q)
       /\ request' = Asked(cmd, q) => ServedInv'

LEMMA EnumerateStarts ==
  ASSUME SimInv, NEW p \in EnumParams, EnumerateL(p)
  PROVE  Started("Enumerate", <<>>)
  <1> DEFINE s == [Queued("Enumerate", <<>>) EXCEPT !.folder = EnumFolder(p)]
  <1>1. p \in Folders \cup {NoFolder}
    BY MtmAssumption
  <1>2. PICK k \in DOMAIN EnumStages(p) :
          /\ store' = EnumStages(p)[k].store
          /\ hidden' = EnumStages(p)[k].hidden
          /\ last' = EnumStages(p)[k].last
          /\ \/ /\ k = Len(EnumStages(p)) /\ EnumError(p) = KErrNone
                /\ sim' = WaitsFor(s, "Count")
             \/ sim' = s
    BY DEF EnumerateL
  <1>3. p = NoFolder /\ LastFolder = NoFolder => hidden # Hidden
    BY DEF EnumerateL
  <1>4. /\ store' \in [Ids -> EntryRec] /\ Placed(store', hidden')
        /\ last' \in (Folders \cup {NoFolder}) \ Standard
        /\ sim' # s => EnumFolder(p) \in Folders /\ Inside(store', EnumFolder(p)) = {}
    BY <1>1, <1>2, <1>3, StagesKeepStore
  <1>5. StoreInv'
    BY <1>4 DEF StoreInv, Placed
  <1>6. hidden' \subseteq Hidden
    BY <1>2, <1>3, StagesKeepBound DEF SimInv, Typed, TypeOK
  <1>7. /\ IsSim(s) /\ SimRec(s) /\ Fresh(s, "Enumerate", <<>>) /\ s.done = 0
        /\ s.state = "Other" /\ s.folder = EnumFolder(p)
    <2> DEFINE u == Queued("Enumerate", <<>>)
    <2>1. "Enumerate" \in SimTypes /\ <<>> \in Seq(Ids)
      BY DEF SimTypes
    <2>2. IsSim(u) /\ SimRec(u) /\ Fresh(u, "Enumerate", <<>>) /\ u.done = 0 /\ u.state = "Other"
      BY <2>1, QueuedFields
    <2>3. EnumFolder(p) \in Folders \cup {NoFolder}
      BY <1>1, <1>3, NewFolderIsNew DEF EnumFolder, LastFolder, SimInv, Typed, TypeOK, Folders
    <2> HIDE DEF u
    <2>4. /\ IsSim(s) /\ s.folder = EnumFolder(p) /\ Fresh(s, "Enumerate", <<>>)
          /\ s.done = 0 /\ s.state = "Other"
      BY <2>2, FieldNames DEF IsSim, Fresh, u
    <2>5. SimRec(s)
      BY <2>2, <2>3, FieldNames DEF IsSim, SimRec, u
    <2> QED BY <2>4, <2>5
  <1> HIDE DEF s
  <1>8. CASE sim' = s
    <2>1. Started("Enumerate", <<>>)
      BY <1>4, <1>5, <1>6, <1>7, <1>8 DEF Started, Fresh, EnumerateL
    <2> QED BY <2>1
  <1>9. CASE sim' # s
    <2>1. sim' = WaitsFor(s, "Count")
      BY <1>2, <1>9
    <2>2. /\ IsSim(sim') /\ SimRec(sim') /\ Keeps(sim', s) /\ sim'.active = TRUE
          /\ sim'.status = KRequestPending /\ sim'.op = "Count" /\ sim'.report = s.report
          /\ sim'.error = s.error
      BY <1>7, <2>1, WaitingFields DEF CardOps
    <2>3. /\ sim'.exists /\ sim'.report /\ sim'.type = "Enumerate" /\ sim'.sel = <<>>
          /\ sim'.done = 0 /\ sim'.state = "Other" /\ sim'.folder = EnumFolder(p)
          /\ sim'.list = <<>> /\ DOMAIN sim'.written = DOMAIN <<>> /\ ~sim'.failed
      BY <1>7, <2>2 DEF Keeps, Fresh
    <2>4. OpShape' /\ SelInv' /\ LockShape' /\ FailInv'
      BY <2>2, <2>3 DEF OpShape, SelInv, LockShape, FailInv
    <2>5. DelInv' /\ CopyInv' /\ WriteInv'
      BY <2>3 DEF DelInv, CopyInv, WriteInv
    <2>6. EnumInv'
      <3>1. Holds(store', EnumFolder(p), <<>>, 0)
        <4>1. Inside(store', EnumFolder(p)) = {} /\ Cardinality({}) = 0
          BY <1>4, <1>9, FS_EmptySet
        <4> QED BY <4>1 DEF Holds
      <3>2. EnumFolder(p) # NoFolder
        BY <1>4, <1>9, SimAssumption DEF Folders, NoFolder
      <3> QED BY <2>2, <2>3, <3>1, <3>2 DEF EnumInv, Distinct
    <2>7. ServedInv'
      BY <2>4, <2>5, <2>6 DEF ServedInv
    <2> QED BY <1>4, <1>5, <1>6, <2>2, <2>3, <2>7 DEF Started, Selecting, EnumerateL
  <1> QED BY <1>8, <1>9

\* The entries the client selects are there.
LEMMA SelectedAtStart ==
  ASSUME SimInv, NEW cmd \in SimCommands \cap Selecting, NEW q \in Targets(cmd), store' = store,
         sim'.type = cmd, sim'.sel = q, request' = Asked(cmd, q)
  PROVE  SelInv'
  <1>1. IsNext(request', cmd, q, "Pending")
    BY AskedFields
  <1>2. /\ q \in Seq(Ids) /\ q # <<>> /\ \A k \in DOMAIN q : q[k] \in Ids /\ Exists(q[k])
        /\ cmd = "MoveFrom" => \A k \in DOMAIN q : store[q[k]].folder # "Inbox"
        /\ cmd \in {"CopyTo", "MoveTo"} => \A k \in DOMAIN q : store[q[k]].folder \notin Hidden
    BY TargetsType
  <1>3. \A k \in DOMAIN q : request'.before[k] = store[q[k]]
    BY <1>1 DEF IsNext
  <1> QED BY <1>2, <1>3 DEF SelInv, Exists, SimCommands

LEMMA DeleteStarts ==
  ASSUME SimInv, NEW q \in Targets("Delete"), DeleteFromPhoneStoreL(q)
  PROVE  Started("Delete", q)
  <1> DEFINE s == Queued("Delete", q)
  <1>1. q \in Seq(Ids) /\ q # <<>> /\ "Delete" \in SimCommands \cap Selecting /\ "Delete" \in SimTypes
    BY TargetsType DEF SimCommands, Selecting, SimTypes
  <1>2. IsSim(s) /\ SimRec(s) /\ Fresh(s, "Delete", q) /\ s.done = 0 /\ s.state = "Other"
    BY <1>1, QueuedFields
  <1>3. /\ store' \in [Ids -> EntryRec] /\ hidden' \subseteq Hidden
        /\ last' \in Folders \cup {NoFolder} /\ StoreInv'
    BY SameStore DEF DeleteFromPhoneStoreL
  <1> HIDE DEF s
  <1>4. CASE sim' = s
    BY <1>2, <1>3, <1>4 DEF Started, Fresh, DeleteFromPhoneStoreL
  <1>5. CASE sim' = RunsNext(s)
    <2>1. /\ IsSim(sim') /\ SimRec(sim') /\ Keeps(sim', s) /\ sim'.active = TRUE
          /\ sim'.status = KErrNone /\ sim'.op = "None" /\ sim'.report = s.report
          /\ sim'.error = s.error
      BY <1>2, <1>5, WakingFields
    <2>2. /\ sim'.exists /\ sim'.report /\ sim'.type = "Delete" /\ sim'.sel = q
          /\ sim'.count = Len(q) /\ Len(q) \in Nat
          /\ sim'.done = 0 /\ sim'.state = "Other" /\ DOMAIN sim'.written = DOMAIN q /\ ~sim'.failed
      BY <1>1, <1>2, <2>1 DEF Keeps, Fresh
    <2>3. OpShape' /\ LockShape' /\ FailInv'
      BY <2>1, <2>2 DEF OpShape, LockShape, FailInv
    <2>4. DelInv' /\ CopyInv' /\ WriteInv' /\ EnumInv'
      BY <2>1, <2>2 DEF DelInv, CopyInv, WriteInv, EnumInv
    <2>5. request' = Asked("Delete", q) => SelInv'
      BY <1>1, <2>2, SelectedAtStart DEF DeleteFromPhoneStoreL
    <2> QED BY <1>1, <1>3, <2>1, <2>2, <2>3, <2>4, <2>5 DEF Started, ServedInv, DeleteFromPhoneStoreL
  <1> QED BY <1>4, <1>5 DEF DeleteFromPhoneStoreL, s

LEMMA MoveFromStarts ==
  ASSUME SimInv, NEW q \in Targets("MoveFrom"), MoveFromPhoneStoreL(q, "Inbox")
  PROVE  Started("MoveFrom", q)
  <1> DEFINE u == Queued("MoveFrom", q)
             s == [u EXCEPT !.dest = "Inbox"]
  <1>1. q \in Seq(Ids) /\ q # <<>> /\ "MoveFrom" \in SimCommands \cap Selecting /\ "MoveFrom" \in SimTypes
    BY TargetsType DEF SimCommands, Selecting, SimTypes
  <1>2. IsSim(u) /\ SimRec(u) /\ Fresh(u, "MoveFrom", q) /\ u.done = 0 /\ u.state = "Other"
    BY <1>1, QueuedFields
  <1>3. /\ IsSim(s) /\ SimRec(s) /\ Fresh(s, "MoveFrom", q) /\ s.done = 0 /\ s.state = "Other"
        /\ s.dest = "Inbox"
    <2> HIDE DEF u
    <2>1. "Inbox" \in Folders \cup {NoFolder}
      BY DEF Folders
    <2> QED BY <1>2, <2>1, FieldNames DEF IsSim, SimRec, Fresh
  <1>4. /\ store' \in [Ids -> EntryRec] /\ hidden' \subseteq Hidden
        /\ last' \in Folders \cup {NoFolder} /\ StoreInv'
    BY SameStore DEF MoveFromPhoneStoreL
  <1>5. sim' = s \/ sim' = RunsNext(s)
    BY DEF MoveFromPhoneStoreL
  <1> HIDE DEF s
  <1>6. CASE sim' = s
    BY <1>3, <1>4, <1>6 DEF Started, Fresh, MoveFromPhoneStoreL
  <1>7. CASE sim' = RunsNext(s)
    <2>1. /\ IsSim(sim') /\ SimRec(sim') /\ Keeps(sim', s) /\ sim'.active = TRUE
          /\ sim'.status = KErrNone /\ sim'.op = "None" /\ sim'.report = s.report
          /\ sim'.error = s.error
      BY <1>3, <1>7, WakingFields
    <2>2. /\ sim'.exists /\ sim'.report /\ sim'.type = "MoveFrom" /\ sim'.sel = q
          /\ sim'.count = Len(q) /\ Len(q) \in Nat /\ sim'.dest = "Inbox"
          /\ sim'.done = 0 /\ sim'.state = "Other" /\ DOMAIN sim'.written = DOMAIN q /\ ~sim'.failed
      BY <1>1, <1>3, <2>1 DEF Keeps, Fresh
    <2>3. OpShape' /\ LockShape' /\ FailInv'
      BY <2>1, <2>2 DEF OpShape, LockShape, FailInv
    <2>4. DelInv' /\ CopyInv' /\ WriteInv' /\ EnumInv'
      BY <2>1, <2>2 DEF DelInv, CopyInv, WriteInv, EnumInv
    <2>5. request' = Asked("MoveFrom", q) => SelInv'
      BY <1>1, <2>2, SelectedAtStart DEF MoveFromPhoneStoreL
    <2> QED BY <1>1, <1>4, <2>1, <2>2, <2>3, <2>4, <2>5 DEF Started, ServedInv, MoveFromPhoneStoreL
  <1> QED BY <1>5, <1>6, <1>7

LEMMA CopyFromStarts ==
  ASSUME SimInv, NEW q \in Targets("CopyFrom"), CopyFromPhoneStoreL(q, "Inbox"), ~sim.active
  PROVE  Started("CopyFrom", q)
  <1> DEFINE u == Queued("CopyFrom", q)
             s == [u EXCEPT !.dest = "Inbox"]
  <1>1. q \in Seq(Ids) /\ q # <<>> /\ "CopyFrom" \in SimCommands \cap Selecting /\ "CopyFrom" \in SimTypes
    BY TargetsType DEF SimCommands, Selecting, SimTypes
  <1>2. IsSim(u) /\ SimRec(u) /\ Fresh(u, "CopyFrom", q) /\ u.done = 0 /\ u.state = "Other"
    BY <1>1, QueuedFields
  <1>3. /\ IsSim(s) /\ SimRec(s) /\ Fresh(s, "CopyFrom", q) /\ s.done = 0 /\ s.state = "Other"
        /\ s.dest = "Inbox"
    <2> HIDE DEF u
    <2>1. "Inbox" \in Folders \cup {NoFolder}
      BY DEF Folders
    <2> QED BY <1>2, <2>1, FieldNames DEF IsSim, SimRec, Fresh
  <1>4. /\ store' \in [Ids -> EntryRec] /\ hidden' \subseteq Hidden
        /\ last' \in Folders \cup {NoFolder} /\ StoreInv'
    BY SameStore DEF CopyFromPhoneStoreL
  <1>5. sim' = s \/ sim' = WaitsFor(s, "Copy")
    BY DEF CopyFromPhoneStoreL, MoveEntriesL, Left
  <1> HIDE DEF s
  <1>6. CASE sim' = s
    BY <1>3, <1>4, <1>6 DEF Started, Fresh, CopyFromPhoneStoreL
  <1>7. CASE sim' = WaitsFor(s, "Copy")
    <2>1. /\ IsSim(sim') /\ SimRec(sim') /\ Keeps(sim', s) /\ sim'.active = TRUE
          /\ sim'.status = KRequestPending /\ sim'.op = "Copy" /\ sim'.report = s.report
          /\ sim'.error = s.error
      <3>1. "Copy" \in CardOps \cup StoreOps
        BY DEF StoreOps
      <3> QED BY <1>3, <1>7, <3>1, WaitingFields
    <2>2. /\ sim'.exists /\ sim'.report /\ sim'.type = "CopyFrom" /\ sim'.sel = q
          /\ sim'.count = Len(q) /\ Len(q) \in Nat /\ sim'.dest = "Inbox"
          /\ sim'.done = 0 /\ sim'.state = "Other" /\ DOMAIN sim'.written = DOMAIN q /\ ~sim'.failed
      BY <1>1, <1>3, <2>1 DEF Keeps, Fresh
    <2>3. OpShape' /\ LockShape' /\ FailInv'
      BY <2>1, <2>2 DEF OpShape, LockShape, FailInv
    <2>4. DelInv' /\ CopyInv' /\ WriteInv' /\ EnumInv'
      BY <2>1, <2>2 DEF DelInv, CopyInv, WriteInv, EnumInv
    <2>5. request' = Asked("CopyFrom", q) => SelInv'
      BY <1>1, <2>2, SelectedAtStart DEF CopyFromPhoneStoreL
    <2> QED BY <1>1, <1>4, <2>1, <2>2, <2>3, <2>4, <2>5 DEF Started, ServedInv, CopyFromPhoneStoreL
  <1> QED BY <1>5, <1>6, <1>7

LEMMA ParamsStart ==
  ASSUME SimInv, NEW cmd \in {"ReadParams", "WriteParams"},
         (cmd = "ReadParams" /\ ReadSimParamsL) \/ (cmd = "WriteParams" /\ WriteSimParamsL)
  PROVE  Started(cmd, <<>>)
  <1> DEFINE u == Queued(cmd, <<>>)
             s == [u EXCEPT !.reading = TRUE]
  <1>1. <<>> \in Seq(Ids) /\ cmd \in SimTypes
    BY DEF SimTypes
  <1>2. IsSim(u) /\ SimRec(u) /\ Fresh(u, cmd, <<>>) /\ u.state = "Other" /\ u.reading = FALSE
    BY <1>1, QueuedFields
  <1>3. IsSim(s) /\ SimRec(s) /\ Fresh(s, cmd, <<>>) /\ s.state = "Other" /\ s.reading = TRUE
    <2> HIDE DEF u
    <2> QED BY <1>2, FieldNames DEF IsSim, SimRec, Fresh
  <1>4. /\ store' \in [Ids -> EntryRec] /\ hidden' \subseteq Hidden
        /\ last' \in Folders \cup {NoFolder} /\ StoreInv' /\ UNCHANGED <<card, fault>>
    BY SameStore DEF ReadSimParamsL, WriteSimParamsL
  <1>5. \/ sim' = u
        \/ cmd = "ReadParams" /\ sim' = WaitsFor(s, "ReadParams")
        \/ cmd = "WriteParams" /\ sim' = WaitsFor(u, "WriteParams")
    BY DEF ReadSimParamsL, WriteSimParamsL
  <1> HIDE DEF s, u
  <1>6. CASE sim' = u
    BY <1>2, <1>4, <1>6 DEF Started, Fresh
  <1>7. ASSUME NEW t, IsSim(t), SimRec(t), Fresh(t, cmd, <<>>), t.state = "Other",
               sim' = WaitsFor(t, cmd), t.reading <=> cmd = "ReadParams"
        PROVE  Started(cmd, <<>>)
    <2>1. /\ IsSim(sim') /\ SimRec(sim') /\ Keeps(sim', t) /\ sim'.active = TRUE
          /\ sim'.status = KRequestPending /\ sim'.op = cmd /\ sim'.report = t.report
          /\ sim'.error = t.error
      <3>1. cmd \in CardOps \cup StoreOps
        BY DEF CardOps
      <3> QED BY <1>7, <3>1, WaitingFields
    <2>2. /\ sim'.exists /\ sim'.report /\ sim'.type = cmd /\ sim'.sel = <<>>
          /\ sim'.state = "Other" /\ DOMAIN sim'.written = DOMAIN <<>> /\ ~sim'.failed
          /\ sim'.reading <=> cmd = "ReadParams"
      BY <1>7, <2>1 DEF Keeps, Fresh
    <2>3. OpShape' /\ LockShape' /\ FailInv'
      BY <2>1, <2>2 DEF OpShape, LockShape, FailInv
    <2>5. SelInv'
      BY <2>2 DEF SelInv
    <2>4. DelInv' /\ CopyInv' /\ WriteInv' /\ EnumInv'
      BY <2>1, <2>2 DEF DelInv, CopyInv, WriteInv, EnumInv
    <2> QED BY <1>4, <2>1, <2>2, <2>3, <2>4, <2>5 DEF Started, ServedInv, Selecting
  <1> QED BY <1>2, <1>3, <1>5, <1>6, <1>7

\* How often the next message has to be written, and which time this is.
TimesToWrite(s) ==
  IF s.rcptCount = 0 THEN Recipients[store[s.sel[NextDone(s) + 1]].text] ELSE s.rcptCount

TimeOfWrite(s) == IF s.rcptCount = 0 THEN 1 ELSE s.rcptIndex + 1

\* DoCopyToPhoneStoreL, when it writes the next message.
LEMMA WriteNextFields ==
  ASSUME NEW s, IsSim(s), SimRec(s), store \in [Ids -> EntryRec],
         NextDone(s) + 1 \in DOMAIN s.sel, store[s.sel[NextDone(s) + 1]].text \in Texts
  PROVE  /\ IsSim(WriteNext(s)) /\ SimRec(WriteNext(s))
         /\ WriteNext(s).active = TRUE /\ WriteNext(s).status = KRequestPending
         /\ WriteNext(s).op = "Write" /\ WriteNext(s).done = NextDone(s)
         /\ WriteNext(s).rcptCount =
              (IF TimeOfWrite(s) >= TimesToWrite(s) THEN 0 ELSE TimesToWrite(s))
         /\ WriteNext(s).rcptIndex =
              (IF TimeOfWrite(s) >= TimesToWrite(s) THEN 0 ELSE TimeOfWrite(s))
         /\ \/ WriteNext(s).state = "Writing"
            \/ WriteNext(s).state = "UpdatingClass2" /\ Class2Folder # NoFolder
         /\ WriteNext(s).exists = s.exists /\ WriteNext(s).type = s.type
         /\ WriteNext(s).report = s.report /\ WriteNext(s).sel = s.sel
         /\ WriteNext(s).count = s.count /\ WriteNext(s).error = s.error
         /\ WriteNext(s).written = s.written /\ WriteNext(s).failed = s.failed
  <1> DEFINE d == NextDone(s)
             n == TimesToWrite(s)
             r == TimeOfWrite(s)
             st == IF Class2Folder \in {NoFolder, store[s.sel[d + 1]].folder}
                   THEN "Writing" ELSE "UpdatingClass2"
             c == IF r >= n THEN 0 ELSE n
             x == IF r >= n THEN 0 ELSE r
             u == [s EXCEPT !.done = d, !.slots = {}, !.rcptCount = c, !.rcptIndex = x,
                            !.state = st]
  <1>1. WriteNext(s) = WaitsFor(u, "Write")
    BY DEF WriteNext, TimesToWrite, TimeOfWrite
  <1>2. /\ IsSim(u) /\ u.done = d /\ u.slots = {} /\ u.rcptCount = c /\ u.rcptIndex = x
        /\ u.state = st /\ u.exists = s.exists /\ u.type = s.type /\ u.report = s.report
        /\ u.sel = s.sel /\ u.count = s.count /\ u.error = s.error /\ u.folder = s.folder
        /\ u.dest = s.dest /\ u.completed = s.completed /\ u.list = s.list
        /\ u.reading = s.reading /\ u.written = s.written /\ u.failed = s.failed
        /\ u.active = s.active /\ u.status = s.status /\ u.op = s.op
    <2> HIDE DEF d, st, c, x
    <2> QED BY FieldNames DEF IsSim
  <1>3. c \in Nat /\ x \in Nat /\ d \in Int /\ st \in SimStates
    <2>1. s.rcptCount \in Nat /\ s.rcptIndex \in Nat /\ s.done \in Int
      BY DEF SimRec
    <2>2. n \in Nat /\ r \in Nat
      BY <2>1, SimAssumption DEF TimesToWrite, TimeOfWrite
    <2> HIDE DEF n, r
    <2> QED BY <2>1, <2>2 DEF SimStates, NextDone
  <1> HIDE DEF u
  <1>4. SimRec(u)
    <2>1. {} \subseteq Slots
      OBVIOUS
    <2> HIDE DEF d, st, c, x
    <2> QED BY <1>2, <1>3, <2>1, Zenon DEF SimRec
  <1>5. /\ IsSim(WriteNext(s)) /\ SimRec(WriteNext(s)) /\ Keeps(WriteNext(s), u)
        /\ WriteNext(s).active = TRUE /\ WriteNext(s).status = KRequestPending
        /\ WriteNext(s).op = "Write" /\ WriteNext(s).report = u.report
        /\ WriteNext(s).error = u.error
    <2>1. "Write" \in CardOps \cup StoreOps
      BY DEF CardOps
    <2>2. /\ IsSim(WaitsFor(u, "Write")) /\ SimRec(WaitsFor(u, "Write"))
          /\ Keeps(WaitsFor(u, "Write"), u) /\ WaitsFor(u, "Write").active = TRUE
          /\ WaitsFor(u, "Write").status = KRequestPending /\ WaitsFor(u, "Write").op = "Write"
          /\ WaitsFor(u, "Write").report = u.report /\ WaitsFor(u, "Write").error = u.error
      <3>1. IsSim(u) /\ SimRec(u)
        BY <1>2, <1>4
      <3> QED BY <2>1, <3>1, WaitingFields
    <2> QED BY <1>1, <2>2
  <1> QED BY <1>2, <1>5 DEF Keeps

LEMMA ToPhoneStarts ==
  ASSUME SimInv, NEW cmd \in {"CopyTo", "MoveTo"}, NEW q \in Targets(cmd), ToPhoneStoreL(cmd, q),
         ~sim.active
  PROVE  Started(cmd, q)
  <1> DEFINE u == Queued(cmd, q)
             s == [u EXCEPT !.done = -1, !.state = "Writing"]
  <1>1. q \in Seq(Ids) /\ q # <<>> /\ cmd \in SimCommands \cap Selecting /\ cmd \in SimTypes
    BY TargetsType DEF SimCommands, Selecting, SimTypes
  <1>2. IsSim(u) /\ SimRec(u) /\ Fresh(u, cmd, q)
    BY <1>1, QueuedFields
  <1>3. /\ IsSim(s) /\ SimRec(s) /\ Fresh(s, cmd, q) /\ s.done = -1 /\ s.state = "Writing"
    <2> HIDE DEF u
    <2>1. "Writing" \in SimStates /\ -1 \in Int
      BY DEF SimStates
    <2> QED BY <1>2, <2>1, FieldNames DEF IsSim, SimRec, Fresh
  <1>4. /\ store' \in [Ids -> EntryRec] /\ hidden' \subseteq Hidden
        /\ last' \in Folders \cup {NoFolder} /\ StoreInv' /\ UNCHANGED <<card, fault, store>>
    BY SameStore DEF ToPhoneStoreL, Writes
  <1>5. Writes(s) \/ sim' = s
    BY DEF ToPhoneStoreL
  <1> HIDE DEF s
  <1>6. NextDone(s) = 0 /\ Len(q) \in Nat /\ Len(q) >= 1 /\ 1 \in DOMAIN q
    BY <1>1, <1>3 DEF NextDone, Fresh
  <1>7. ASSUME sim' = s \/ sim' = [s EXCEPT !.done = 0]
        PROVE  Started(cmd, q)
    <2>1. IsSim(sim') /\ SimRec(sim') /\ sim'.exists /\ ~sim'.active
      <3>1. CASE sim' = s
        BY <1>3, <3>1 DEF Fresh
      <3>2. CASE sim' = [s EXCEPT !.done = 0]
        <4>1. IsSim(sim') /\ sim'.exists /\ ~sim'.active
          BY <1>3, <3>2, FieldNames DEF IsSim, Fresh
        <4>2. SimRec(sim')
          BY <1>3, <3>2, FieldNames DEF IsSim, SimRec
        <4> QED BY <4>1, <4>2
      <3> QED BY <1>7, <3>1, <3>2
    <2> QED BY <1>4, <2>1 DEF Started
  <1>8. CASE sim' = WriteNext(s) /\ Exists(s.sel[1]) /\ ~Unreadable(s.sel[1])
    <2> DEFINE e == store[q[1]]
               n == Recipients[e.text]
    <2>1. s.sel = q /\ s.rcptCount = 0 /\ s.count = Len(q)
      BY <1>3 DEF Fresh
    <2>2. e.text \in Texts /\ q[1] \in Ids
      <3>1. q[1] \in Ids /\ store \in [Ids -> EntryRec]
        BY <1>1, <1>6 DEF SimInv, Typed, TypeOK
      <3>2. e.text # NoText
        BY <1>8, <2>1 DEF Unreadable
      <3> QED BY <3>1, <3>2 DEF EntryRec
    <2>3. n \in Nat
      BY <2>2, SimAssumption
    <2>4. /\ IsSim(sim') /\ SimRec(sim') /\ sim'.active = TRUE /\ sim'.status = KRequestPending
          /\ sim'.op = "Write" /\ sim'.done = 0
          /\ sim'.rcptCount = (IF 1 >= n THEN 0 ELSE n) /\ sim'.rcptIndex = (IF 1 >= n THEN 0 ELSE 1)
          /\ sim'.state = "Writing" \/ (sim'.state = "UpdatingClass2" /\ Class2Folder # NoFolder)
          /\ sim'.exists = s.exists /\ sim'.type = s.type /\ sim'.report = s.report
          /\ sim'.sel = s.sel /\ sim'.count = s.count /\ sim'.error = s.error
          /\ sim'.written = s.written /\ sim'.failed = s.failed
      <3>1. /\ NextDone(s) = 0 /\ NextDone(s) + 1 \in DOMAIN s.sel
            /\ store[s.sel[NextDone(s) + 1]].text \in Texts
            /\ TimesToWrite(s) = n /\ TimeOfWrite(s) = 1 /\ store \in [Ids -> EntryRec]
        BY <1>6, <2>1, <2>2 DEF SimInv, Typed, TypeOK, TimesToWrite, TimeOfWrite
      <3> HIDE DEF n
      <3> QED BY <1>3, <1>8, <3>1, WriteNextFields
    <2>5. /\ sim'.exists /\ sim'.report /\ sim'.type = cmd /\ sim'.sel = q /\ sim'.count = Len(q)
          /\ sim'.written = [k \in DOMAIN q |-> 0] /\ ~sim'.failed
      BY <1>3, <2>4 DEF Fresh
    <2>6. OpShape' /\ FailInv'
      <3>1. 0 \in 0 .. Len(q) - 1
        BY <1>6
      <3> QED BY <2>4, <2>5, <3>1 DEF OpShape, FailInv
    <2>7. DelInv' /\ CopyInv' /\ EnumInv'
      BY <2>4, <2>5 DEF DelInv, CopyInv, EnumInv
    <2>8. LockShape'
      BY <1>4, <2>2, <2>4, <2>5 DEF LockShape
    <2>9. request' = Asked(cmd, q) => SelInv'
      BY <1>1, <1>4, <2>5, SelectedAtStart
    <2>10. ASSUME request' = Asked(cmd, q) PROVE WriteInv'
      <3>1. IsNext(request', cmd, q, "Pending")
        BY <2>10, AskedFields
      <3>2. request'.before[1] = store[q[1]]
        BY <1>6, <3>1 DEF IsNext
      <3>3. Times(1)' = IF n = 0 THEN 1 ELSE n
        BY <3>2 DEF Times
      <3>4. \A k \in DOMAIN q : sim'.written[k] = 0
        BY <2>5
      <3>5. sim'.written[1] = 0 /\ \A k \in 1 .. 0 : FALSE
        BY <1>6, <3>4
      <3> HIDE DEF n
      <3> QED BY <1>6, <2>3, <2>4, <2>5, <3>3, <3>4, <3>5 DEF WriteInv, KRequestPending, KErrNone
    <2> QED BY <1>1, <1>4, <2>4, <2>5, <2>6, <2>7, <2>8, <2>9, <2>10 DEF Started, ServedInv
  <1>9. CASE Writes(s)
    <2>1. \/ sim' = WriteNext(s) /\ Exists(s.sel[1]) /\ ~Unreadable(s.sel[1])
          \/ \E e \in {KErrNotFound, KErrNoMemory} : sim' = Left([s EXCEPT !.done = 0], e)
      BY <1>6, <1>9 DEF Writes
    <2> QED BY <1>7, <1>8, <2>1 DEF Left
  <1> QED BY <1>5, <1>7, <1>9

LEMMA SimUtilsKeepsSimInv ==
  ASSUME SimInv, ReadyInv, MayAsk, UNCHANGED changes,
         NEW cmd \in Commands \cap SimCommands, NEW q \in Targets(cmd), NEW p \in Params(cmd),
         SimUtilsL(cmd, q, p)
  PROVE  SimInv'
  <1>1. ~sim.active /\ ~mtm.active /\ mtm \in MtmSet
    BY DEF MayAsk, SimInv, ServeInv, ReadyInv, MtmType, MtmSet
  <1>2. Started(cmd, q)
    <2>1. SimStarts(cmd, q, p)
      BY DEF SimUtilsL
    <2>2. CASE cmd = "Enumerate"
      <3>1. q = <<>> /\ p \in EnumParams /\ EnumerateL(p)
        BY <2>1, <2>2 DEF Targets, Params, SimStarts
      <3> QED BY <2>2, <3>1, EnumerateStarts
    <2>3. CASE cmd = "Delete"
      BY <2>1, <2>3, DeleteStarts DEF SimStarts
    <2>4. CASE cmd = "CopyFrom"
      BY <1>1, <2>1, <2>4, CopyFromStarts DEF SimStarts
    <2>5. CASE cmd = "MoveFrom"
      BY <2>1, <2>5, MoveFromStarts DEF SimStarts
    <2>6. CASE cmd \in {"CopyTo", "MoveTo"}
      <3>1. ToPhoneStoreL(cmd, q)
        BY <2>1, <2>6 DEF SimStarts
      <3> QED BY <1>1, <2>6, <3>1, ToPhoneStarts
    <2>7. CASE cmd \in {"ReadParams", "WriteParams"}
      <3>1. q = <<>>
        BY <2>7 DEF Targets
      <3>2. (cmd = "ReadParams" /\ ReadSimParamsL) \/ (cmd = "WriteParams" /\ WriteSimParamsL)
        BY <2>1, <2>7 DEF SimStarts
      <3> QED BY <2>7, <3>1, <3>2, ParamsStart
    <2> QED BY <2>2, <2>3, <2>4, <2>5, <2>6, <2>7 DEF SimCommands
  <1>3. q \in Seq(Ids)
    BY TargetsType
  <1>4. mtm' \in MtmSet
    BY <1>1 DEF SimUtilsL, MtmSet, MtmStates
  <1>5. \/ ~sim'.active /\ ~mtm'.active /\ request' = Answered(cmd, q, "Error")
        \/ sim'.active /\ request' = Asked(cmd, q)
    BY <1>1 DEF SimUtilsL, MtmSet
  <1>6. /\ UNCHANGED <<card, fault>> /\ store' \in [Ids -> EntryRec] /\ hidden' \subseteq Hidden
        /\ last' \in Folders \cup {NoFolder} /\ StoreInv'
        /\ IsSim(sim') /\ SimRec(sim') /\ sim'.exists
    BY <1>2 DEF Started
  <1>7. sim'.active =>
          /\ sim'.report /\ sim'.type = cmd /\ sim'.sel = q /\ DOMAIN sim'.written = DOMAIN q
          /\ cmd \in Selecting => q # <<>> /\ sim'.count = Len(q)
          /\ request' = Asked(cmd, q) => ServedInv'
    BY <1>2 DEF Started
  <1>8. \/ ~sim'.active /\ ~mtm'.active /\ request' = Answered(cmd, q, "Error")
        \/ /\ sim'.active /\ sim'.report /\ sim'.type = cmd /\ sim'.sel = q
           /\ DOMAIN sim'.written = DOMAIN q
           /\ cmd \in Selecting => q # <<>> /\ sim'.count = Len(q)
           /\ request' = Asked(cmd, q) /\ ServedInv'
    BY <1>5, <1>7
  <1> QED BY <1>3, <1>4, <1>6, <1>8, StartKeepsSimInv

LEMMA StartCommandKeepsSimInv ==
  ASSUME SimInv, ReadyInv, StartCommandL
  PROVE  SimInv'
  <1>1. PICK cmd \in Commands \cap SimCommands : \E q \in Targets(cmd) :
          \/ \E p \in Params(cmd) : SimUtilsL(cmd, q, p)
          \/ SimUtilsLeaves(cmd, q)
          \/ SimUtilsPanics(cmd, q)
    BY DEF StartCommandL
  <1>2. PICK q \in Targets(cmd) :
          \/ \E p \in Params(cmd) : SimUtilsL(cmd, q, p)
          \/ SimUtilsLeaves(cmd, q)
          \/ SimUtilsPanics(cmd, q)
    BY <1>1
  <1>3. MayAsk /\ UNCHANGED changes
    BY DEF StartCommandL
  <1> QED BY <1>2, <1>3, SimUtilsKeepsSimInv, NoStartKeepsSimInv

-----------------------------------------------------------------------------
(* A request ends                                                          *)

\* What the folder of an enumeration holds when all of the list has been read.
LEMMA HoldsAll ==
  ASSUME NEW st, NEW e, e.list \in Seq([slot : Slots, text : Texts]), Distinct(e.list),
         Holds(st, e.folder, e.list, Len(e.list))
  PROVE  Complete(st, e)
  <1> DEFINE n == Len(e.list)
             listed == {e.list[k] : k \in DOMAIN e.list}
             inside == Inside(st, e.folder)
  <1>1. n \in Nat /\ DOMAIN e.list = 1 .. n
    OBVIOUS
  <1>2. Cardinality(listed) = n
    <2> DEFINE f == [k \in 1 .. n |-> e.list[k]]
    <2>1. \A j, k \in 1 .. n : f[j] = f[k] => j = k
      BY <1>1 DEF Distinct
    <2>2. f \in [1 .. n -> listed] /\ \A t \in listed : \E s \in 1 .. n : f[s] = t
      BY <1>1
    <2>3. f \in Bijection(1 .. n, listed)
      <3> HIDE DEF f, n, listed
      <3> QED BY <2>1, <2>2, Fun_IsBij
    <2>4. IsFiniteSet(1 .. n) /\ Cardinality(1 .. n) = n
      BY <1>1, FS_Interval
    <2> HIDE DEF listed
    <2> QED BY <2>3, <2>4, FS_Bijection DEF ExistsBijection
  <1>3. {l.text : l \in listed} = {e.list[k].text : k \in 1 .. n}
    BY <1>1
  <1>4. {{l.slot} : l \in listed} = {{e.list[k].slot} : k \in 1 .. n}
    BY <1>1
  <1> HIDE DEF n, listed
  <1> QED BY <1>2, <1>3, <1>4 DEF Holds, Complete, Inside, n, listed

LEMMA NoSimType == IsSim(NoSim) /\ SimRec(NoSim)
  <1>1. /\ IsSim(NoSim) /\ NoSim.exists = FALSE /\ NoSim.active = FALSE /\ NoSim.report = FALSE
        /\ NoSim.type = "Enumerate" /\ NoSim.state = "Other" /\ NoSim.status = KErrNone
        /\ NoSim.error = KErrNone /\ NoSim.op = "None" /\ NoSim.sel = <<>>
        /\ NoSim.completed = <<>> /\ NoSim.done = 0 /\ NoSim.count = 0
        /\ NoSim.folder = NoFolder /\ NoSim.dest = NoFolder /\ NoSim.rcptCount = 0
        /\ NoSim.rcptIndex = 0 /\ NoSim.list = <<>> /\ NoSim.slots = {}
        /\ NoSim.reading = FALSE /\ NoSim.failed = FALSE /\ NoSim.written = <<>>
    BY DEF NoSim, NewSim, IsSim, SimFields
  <1>2. /\ "Enumerate" \in SimTypes /\ "Other" \in SimStates /\ KErrNone \in Errors
        /\ KErrNone \in Errors \cup {KRequestPending}
        /\ "None" \in CardOps \cup StoreOps \cup {"None"}
        /\ NoFolder \in Folders \cup {NoFolder} /\ 0 \in Int /\ 0 \in Nat /\ {} \subseteq Slots
    BY DEF SimTypes, SimStates, Errors
  <1>3. <<>> \in Seq(Ids) /\ <<>> \in Seq(Nat) /\ <<>> \in Seq([slot : Slots, text : Texts])
    OBVIOUS
  <1>4. SimRec(NoSim)
    BY <1>1, <1>2, <1>3, Zenon DEF SimRec
  <1> QED BY <1>1, <1>4

\* What CompleteCommand leaves.
LEMMA CompletedFields ==
  ASSUME IsRequest(request), NEW e, NEW s, CompleteCommand(e, s)
  PROVE  /\ IsRequest(request') /\ request'.n = request.n /\ request'.cmd = request.cmd
         /\ request'.sel = request.sel /\ request'.before = request.before
         /\ request'.touched = request.touched
         /\ request'.answer = IF e # KErrNone \/ s.error # KErrNone THEN "Error" ELSE "Ok"
         /\ request'.ended = Outcome(s)
         /\ mtm' = Rested(mtm)
  BY DEF CompleteCommand, IsRequest, Outcome

\* The request is answered and the object deleted.
LEMMA AnsweredKeepsSimInv ==
  ASSUME SimInv, ReadyInv, request.answer = "Pending", fault = "None",
         UNCHANGED <<store, hidden, last, fault, changes>>,
         card' \in [Slots -> Texts \cup {Empty}],
         NEW e, NEW s, CompleteCommand(e, s), sim' = NoSim, AnswerInv'
  PROVE  SimInv'
  <1>1. /\ IsRequest(request') /\ request'.n = request.n /\ request'.cmd = request.cmd
        /\ request'.sel = request.sel /\ request'.touched = request.touched
        /\ request'.answer \in {"Ok", "Error"} /\ mtm' = Rested(mtm)
    BY CompletedFields DEF SimInv, Typed
  <1>2. mtm \in MtmSet
    BY DEF ReadyInv, MtmType, MtmSet
  <1>3. mtm' \in MtmSet /\ ~mtm'.active
    BY <1>1, <1>2 DEF Rested, MtmSet, MtmStates
  <1>4. Typed'
    <2>1. TypeOK'
      BY <1>1, <1>3, NoSimType DEF SimInv, Typed, TypeOK, MtmSet
    <2> QED BY <1>1, <2>1, NoSimType DEF Typed
  <1>5. ~sim'.exists /\ ~sim'.active /\ sim' = NoSim
    BY NoSimIsIdle
  <1>6. ServeInv'
    BY <1>1, <1>3, <1>5 DEF ServeInv, Serving
  <1>7. StoreInv'
    BY DEF SimInv, StoreInv
  <1>8. ServedInv'
    <2>1. (~Serving => ServedInv)'
      BY NotServing, PTL
    <2>2. ~Serving'
      BY <1>5 DEF Serving
    <2> QED BY <2>1, <2>2
  <1> QED BY <1>4, <1>6, <1>7, <1>8 DEF SimInv

LEMMA ErrorPromisesNothing ==
  ASSUME request.answer = "Error", fault # "NullContext"
  PROVE  AnswerInv
  <1>1. ~JustDone({"Enumerate"}) /\ EnumerationIsComplete
    BY CompleteIsComplete DEF JustDone
  <1> QED BY <1>1 DEF AnswerInv, RecipientsWritten, CopiesAreLocal, DeletedMeansGone,
          FailureIsReported, JustDone

\* What the object has done when it answers without an error.
LEMMA FinishedIsRight ==
  ASSUME SimInv, request.answer = "Pending", fault = "None", UNCHANGED <<card, store, fault>>,
         ~sim.active, CompleteCommand(KErrNone, sim)
  PROVE  AnswerInv'
  <1>1. /\ IsRequest(request') /\ request'.cmd = request.cmd
        /\ request'.sel = request.sel /\ request'.before = request.before
        /\ request'.touched = request.touched /\ request'.ended = Outcome(sim)
        /\ request'.answer = IF sim.error # KErrNone THEN "Error" ELSE "Ok"
    BY CompletedFields DEF SimInv, Typed
  <1>2. CASE sim.error # KErrNone
    <2>1. (request.answer = "Error" /\ fault # "NullContext" => AnswerInv)'
      BY ErrorPromisesNothing, PTL
    <2> QED BY <1>1, <1>2, <2>1
  <1>3. CASE ~sim.exists
    <2>1. request'.cmd \notin SimCommands /\ sim = NoSim
      BY <1>1, <1>3 DEF SimInv, ServeInv
    <2>2. (EnumerationIsComplete <=> (JustDone({"Enumerate"}) => Complete(store, request.ended)))'
      BY CompleteIsComplete, PTL
    <2>3. EnumerationIsComplete'
      BY <2>1, <2>2 DEF JustDone, SimCommands
    <2>4. ~request'.ended.failed
      BY <1>1, <2>1 DEF Outcome, NoSim, NewSim
    <2> QED BY <2>1, <2>3, <2>4 DEF AnswerInv, RecipientsWritten, CopiesAreLocal,
            DeletedMeansGone, FailureIsReported, JustDone, SimCommands
  <1>4. CASE sim.exists /\ sim.error = KErrNone
    <2>1. Serving /\ (~request.touched => GoesWell)
      BY <1>4 DEF Serving, GoesWell
    <2>2. /\ request.cmd = Command(sim.type) /\ request.sel = sim.sel
          /\ DOMAIN request.before = DOMAIN sim.sel /\ sim.sel \in Seq(Ids)
          /\ sim.type \in Selecting => sim.count = Len(sim.sel)
          /\ sim.list \in Seq([slot : Slots, text : Texts]) /\ sim.type \in SimTypes
      BY <2>1 DEF SimInv, ServeInv, Typed, TypeOK, SimRec
    <2>3. /\ request'.ended.folder = sim.folder /\ request'.ended.list = sim.list
          /\ request'.ended.completed = sim.completed /\ request'.ended.written = sim.written
          /\ request'.ended.failed = sim.failed
      BY <1>1 DEF Outcome
    <2>4. EnumerationIsComplete'
      <3>1. (EnumerationIsComplete <=> (JustDone({"Enumerate"}) => Complete(store, request.ended)))'
        BY CompleteIsComplete, PTL
      <3>2. ASSUME JustDone({"Enumerate"})' PROVE Complete(store', request'.ended)
        <4>1. sim.type = "Enumerate" /\ GoesWell
          BY <1>1, <2>1, <2>2, <3>2 DEF JustDone, Command
        <4>2. Distinct(sim.list) /\ Holds(store, sim.folder, sim.list, Len(sim.list))
          BY <4>1 DEF SimInv, ServedInv, EnumInv
        <4> QED BY <2>2, <2>3, <4>2, HoldsAll
      <3> QED BY <3>1, <3>2
    <2>5. RecipientsWritten'
      <3>1. SUFFICES ASSUME JustDone({"CopyTo", "MoveTo"})', NEW k \in DOMAIN request'.sel
                     PROVE  request'.ended.written[k] = Times(k)
        BY <1>1 DEF RecipientsWritten, Times
      <3>2. sim.type \in {"CopyTo", "MoveTo"} /\ GoesWell
        BY <1>1, <2>1, <2>2, <3>1 DEF JustDone, Command
      <3>3. sim.done = Len(sim.sel) /\ k \in 1 .. Len(sim.sel)
        BY <1>1, <2>2, <3>2 DEF SimInv, ServedInv, WriteInv, Selecting
      <3> QED BY <2>3, <3>2, <3>3 DEF SimInv, ServedInv, WriteInv
    <2>6. CopiesAreLocal'
      <3>1. CASE sim.type = "CopyFrom"
        BY <1>1, <1>4, <2>1, <2>2, <2>3, <3>1 DEF SimInv, ServedInv, CopyInv, CopiesAreLocal,
           Command, JustDone
      <3>2. CASE sim.type \in {"MoveFrom", "MovingEntries"}
        BY <1>1, <2>1, <2>2, <3>2 DEF SimInv, ServedInv, SelInv, CopiesAreLocal, Command, JustDone
      <3>3. CASE sim.type \notin {"CopyFrom", "MoveFrom", "MovingEntries"}
        BY <1>1, <2>2, <3>3 DEF CopiesAreLocal, Command, JustDone
      <3> QED BY <3>1, <3>2, <3>3
    <2>7. DeletedMeansGone'
      <3>1. SUFFICES ASSUME JustDone({"Delete"})', NEW k \in DOMAIN request.before
                     PROVE  \A s \in request.before[k].slots : card[s] = Empty
        BY <1>1 DEF DeletedMeansGone
      <3>2. sim.type = "Delete" /\ GoesWell
        BY <1>1, <2>1, <2>2, <3>1 DEF JustDone, Command
      <3>3. sim.done = Len(sim.sel) /\ k \in 1 .. Len(sim.sel)
        BY <2>2, <3>2 DEF SimInv, ServedInv, DelInv, Selecting
      <3> QED BY <3>2, <3>3 DEF SimInv, ServedInv, DelInv
    <2>8. FailureIsReported'
      BY <1>4, <2>1, <2>3 DEF SimInv, ServedInv, FailInv, FailureIsReported
    <2> QED BY <2>4, <2>5, <2>6, <2>7, <2>8 DEF AnswerInv
  <1> QED BY <1>2, <1>3, <1>4

\* The server hangs, or panics for want of an entry.
LEMMA FaultKeepsSimInv ==
  ASSUME SimInv, request.answer = "Pending", UNCHANGED <<store, hidden, last, sim, mtm, request, card, changes>>,
         fault' \in {"CancelHangs", "NullContext"}, fault' = "NullContext" => request.touched
  PROVE  SimInv'
  <1>1. Typed'
    BY DEF SimInv, Typed, TypeOK, SimRec, IsSim, IsRequest
  <1>2. ~Serving'
    BY DEF Serving
  <1>3. ServeInv' /\ StoreInv'
    BY <1>2 DEF SimInv, ServeInv, StoreInv
  <1>4. ServedInv'
    <2>1. (~Serving => ServedInv)'
      BY NotServing, PTL
    <2> QED BY <1>2, <2>1
  <1>5. AnswerInv'
    <2>1. (IsRequest(request) /\ request.answer # "Ok" /\ ~request.ended.failed
             /\ (fault = "NullContext" => request.touched) => AnswerInv)'
      BY NothingDone, PTL
    <2>2. ~request.ended.failed
      BY PendingHasNoOutcome DEF SimInv, AnswerInv
    <2> QED BY <1>1, <2>1, <2>2 DEF Typed
  <1> QED BY <1>1, <1>3, <1>4, <1>5 DEF SimInv

\* An operation of the SIM stores nothing there but messages.
LEMMA CardAfterType ==
  ASSUME SimInv, Serving, Outstanding(CardOps)
  PROVE  CardAfter \in [Slots -> Texts \cup {Empty}]
  <1>1. card \in [Slots -> Texts \cup {Empty}] /\ Empty \in Texts \cup {Empty}
    BY DEF SimInv, Typed, TypeOK
  <1>2. CASE sim.op = "Delete"
    BY <1>1, <1>2 DEF CardAfter
  <1>3. CASE sim.op = "Write"
    <2>1. store[sim.sel[sim.done + 1]].text \in Texts
      BY <1>3 DEF SimInv, ServedInv, LockShape, Outstanding
    <2>2. CardAfter = card \/ CardAfter = [card EXCEPT ![Lowest(Vacant)] = store[sim.sel[sim.done + 1]].text]
      BY <1>3 DEF CardAfter
    <2> QED BY <1>1, <2>1, <2>2
  <1>4. CASE sim.op \notin {"Delete", "Write"}
    BY <1>1, <1>4 DEF CardAfter
  <1> QED BY <1>2, <1>3, <1>4

LEMMA EndKeepsSimInv ==
  ASSUME SimInv, ReadyInv, MtmRunL \/ MtmCancel \/ Unloaded \/ SendingCompletes
  PROVE  SimInv'
  <1>1. card \in [Slots -> Texts \cup {Empty}] /\ mtm \in MtmSet
    BY DEF SimInv, Typed, TypeOK, ReadyInv, MtmType, MtmSet
  <1>2. CASE MtmRunL
    <2>1. /\ request.answer = "Pending" /\ fault = "None" /\ ~sim.active
          /\ CompleteCommand(KErrNone, sim) /\ sim' = NoSim
          /\ UNCHANGED <<card, store, hidden, last, fault, changes>>
      <3>1. fault = "None" /\ mtm.active /\ request.answer = "Pending"
        BY <1>2 DEF MtmRunL, MtmReady, SimInv, ServeInv
      <3>2. ~sim.active
        BY <1>2, <3>1 DEF MtmRunL, MtmReady, SimInv, ServeInv, ReadyInv, SimServesMtm
      <3> QED BY <1>2, <3>1, <3>2 DEF MtmRunL
    <2>2. AnswerInv'
      BY <2>1, FinishedIsRight
    <2> QED BY <1>1, <2>1, <2>2, AnsweredKeepsSimInv
  <1>3. CASE MtmCancel
    <2>1. request.answer = "Pending" /\ mtm.active /\ fault = "None" /\ UNCHANGED changes
      BY <1>3 DEF MtmCancel
    <2>2. ASSUME NEW s, CompleteCommand(KErrCancel, s), UNCHANGED <<store, hidden, last, fault>>,
                 card' \in [Slots -> Texts \cup {Empty}], sim' = NoSim
          PROVE  SimInv'
      <3>1. request'.answer = "Error"
        BY <2>2, CompletedFields DEF SimInv, Typed, KErrCancel, KErrNone
      <3>2. (request.answer = "Error" /\ fault # "NullContext" => AnswerInv)'
        BY ErrorPromisesNothing, PTL
      <3>3. AnswerInv'
        BY <2>1, <2>2, <3>1, <3>2
      <3> QED BY <2>1, <2>2, <3>3, AnsweredKeepsSimInv
    <2>3. CASE mtm.state = "Sending"
      <3>1. CompleteCommand(KErrCancel, sim) /\ UNCHANGED simVars
        BY <1>3, <2>3 DEF MtmCancel
      <3>2. sim = NoSim
        BY <2>3 DEF ReadyInv, SimServesMtm, SimInv, ServeInv
      <3> QED BY <1>1, <2>2, <3>1, <3>2 DEF simVars
    <2>4. CASE mtm.state = "SimUtils" /\ CancelHangs
      <3>1. fault' = "CancelHangs" /\ UNCHANGED <<card, store, hidden, last, sim, mtm, request>>
        BY <1>3, <2>4 DEF MtmCancel
      <3> QED BY <2>1, <3>1, FaultKeepsSimInv
    <2>5. CASE mtm.state = "SimUtils" /\ ~CancelHangs
      <3>1. /\ card' \in CancelledCard /\ CompleteCommand(KErrCancel, Cancelled) /\ sim' = NoSim
            /\ UNCHANGED <<store, hidden, last, fault>>
        BY <1>3, <2>5 DEF MtmCancel
      <3>2. card' \in [Slots -> Texts \cup {Empty}]
        <4>1. CASE Outstanding(CardOps)
          <5>1. Serving
            BY <2>1, <4>1 DEF Outstanding, SimInv, ServeInv, Serving
          <5> QED BY <1>1, <3>1, <4>1, <5>1, CardAfterType DEF CancelledCard
        <4>2. CASE ~Outstanding(CardOps)
          BY <1>1, <3>1, <4>2 DEF CancelledCard
        <4> QED BY <4>1, <4>2
      <3> QED BY <2>2, <3>1, <3>2
    <2> QED BY <1>3, <2>3, <2>4, <2>5 DEF MtmCancel
  <1>4. CASE Unloaded
    <2>1. /\ fault = "None" /\ request.answer # "Pending" /\ mtm' = NewMtm /\ sim' = NoSim
          /\ UNCHANGED <<card, store, hidden, last, fault, request, changes>>
      BY <1>4 DEF Unloaded
    <2>2. Typed'
      <3>1. mtm' \in MtmSet
        BY <2>1 DEF NewMtm, MtmSet, MtmStates
      <3>2. TypeOK'
        BY <2>1, <3>1, NoSimType DEF SimInv, Typed, TypeOK, MtmSet
      <3> QED BY <2>1, <3>2, NoSimType DEF SimInv, Typed
    <2>3. ~Serving' /\ ServeInv' /\ StoreInv'
      BY <2>1, NoSimIsIdle DEF SimInv, ServeInv, Serving, StoreInv, NewMtm
    <2>4. ServedInv'
      <3>1. (~Serving => ServedInv)'
        BY NotServing, PTL
      <3> QED BY <2>3, <3>1
    <2>5. AnswerInv'
      BY <2>1, SameAnswer DEF SimInv
    <2> QED BY <2>2, <2>3, <2>4, <2>5 DEF SimInv
  <1>5. CASE SendingCompletes
    <2>1. UNCHANGED <<card, store, hidden, last, sim, fault, request, changes>>
          /\ mtm' = [mtm EXCEPT !.sent = TRUE]
      BY <1>5 DEF SendingCompletes, simVars
    <2>2. mtm' \in MtmSet /\ mtm'.active = mtm.active
      BY <1>1, <2>1 DEF MtmSet
    <2> QED BY <2>1, <2>2, QuietKeepsSimInv DEF MtmSet
  <1> QED BY <1>2, <1>3, <1>4, <1>5

-----------------------------------------------------------------------------
(* Others delete messages                                                  *)

\* Entries and messages of the SIM are gone; the one that is being written stays.
LEMMA LossKeepsSimInv ==
  ASSUME SimInv, ReadyInv, fault = "None", changes' \in 0 .. MaxChanges,
         request' = [request EXCEPT !.touched = TRUE],
         UNCHANGED <<last, sim, fault, mtm>>,
         card' \in [Slots -> Texts \cup {Empty}], hidden' \subseteq Hidden,
         store' \in [Ids -> EntryRec], \A i \in Ids : store'[i] \in {store[i], NoEntry}, StoreInv',
         Serving /\ sim.active /\ sim.op = "Write" =>
           store'[sim.sel[sim.done + 1]] = store[sim.sel[sim.done + 1]]
  PROVE  SimInv'
  <1>1. /\ IsRequest(request') /\ request'.n = request.n /\ request'.cmd = request.cmd
        /\ request'.sel = request.sel /\ request'.before = request.before
        /\ request'.answer = request.answer /\ request'.ended = request.ended
        /\ request'.touched = TRUE
    BY DEF SimInv, Typed, IsRequest
  <1>2. Typed'
    <2>1. TypeOK'
      BY <1>1 DEF SimInv, Typed, TypeOK, ReadyInv, MtmType
    <2> QED BY <1>1, <2>1 DEF SimInv, Typed
  <1>3. Serving' = Serving /\ ~GoesWell'
    BY <1>1 DEF Serving, GoesWell
  <1>4. ServeInv'
    BY <1>1, <1>3 DEF SimInv, ServeInv
  <1>5. OpShape' /\ FailInv' /\ LockShape'
    BY <1>3 DEF SimInv, ServedInv, OpShape, FailInv, LockShape, Restarts
  <1>6. NoEntry.folder = NoFolder /\ NoFolder \notin Hidden /\ NoFolder # "Inbox" /\ NoEntry.slots = {}
    BY SimAssumption DEF NoEntry, NoFolder
  <1>7. SelInv'
    <2>1. SUFFICES ASSUME Serving, NEW k \in DOMAIN sim.sel
                   PROVE  LET e == store'[sim.sel[k]]
                              b == request.before[k]
                          IN  /\ e # NoEntry => e.text = b.text
                              /\ sim.type = "Delete" => e \in {NoEntry, b}
                              /\ sim.type \in {"CopyTo", "MoveTo"} => e.folder \notin Hidden
                              /\ sim.type = "MoveFrom" => e.folder # "Inbox"
                              /\ sim.type = "MovingEntries" => e.slots = {}
      BY <1>1, <1>3 DEF SelInv
    <2>2. sim.sel[k] \in Ids
      BY <2>1 DEF SimInv, Typed, TypeOK, SimRec
    <2>3. store'[sim.sel[k]] \in {store[sim.sel[k]], NoEntry}
      BY <2>2
    <2> QED BY <1>6, <2>1, <2>3 DEF SimInv, ServedInv, SelInv
  <1>8. CopyInv'
    <2>1. SUFFICES ASSUME Serving, sim.type = "CopyFrom", ~sim.active, sim.error = KErrNone,
                          NEW k \in DOMAIN sim.completed
                   PROVE  store'[sim.completed[k]].slots = {}
      BY <1>3 DEF CopyInv
    <2>2. sim.completed[k] \in Ids
      BY <2>1 DEF SimInv, Typed, TypeOK, SimRec
    <2>3. store'[sim.completed[k]] \in {store[sim.completed[k]], NoEntry}
      BY <2>2
    <2> QED BY <1>6, <2>1, <2>3 DEF SimInv, ServedInv, CopyInv
  <1>9. ServedInv'
    BY <1>3, <1>5, <1>7, <1>8 DEF ServedInv, DelInv, WriteInv, EnumInv
  <1>10. AnswerInv'
    <2>1. (EnumerationIsComplete <=> (JustDone({"Enumerate"}) => Complete(store, request.ended)))'
      BY CompleteIsComplete, PTL
    <2>2. EnumerationIsComplete'
      BY <1>1, <2>1 DEF JustDone
    <2> QED BY <1>1, <2>2 DEF SimInv, AnswerInv, RecipientsWritten, CopiesAreLocal,
            DeletedMeansGone, FailureIsReported, JustDone
  <1> QED BY <1>2, <1>4, <1>9, <1>10 DEF SimInv

LEMMA OthersKeepSimInv ==
  ASSUME SimInv, ReadyInv, Others
  PROVE  SimInv'
  <1>1. /\ fault = "None" /\ changes' \in 0 .. MaxChanges
        /\ request' = [request EXCEPT !.touched = TRUE] /\ UNCHANGED mtm
    BY MtmAssumption DEF Others, SimInv, Typed, TypeOK
  <1>2. /\ card \in [Slots -> Texts \cup {Empty}] /\ store \in [Ids -> EntryRec]
        /\ hidden \subseteq Hidden /\ StoreInv /\ Placed(store, hidden)
    BY DEF SimInv, Typed, TypeOK, StoreInv, Placed
  <1>3. NoEntry \in EntryRec /\ NoEntry.folder = NoFolder /\ NoFolder \notin Hidden
    BY SimAssumption DEF NoEntry, EntryRec, NoFolder
  <1>4. ASSUME NEW i \in Ids, ClientDeletes(i) PROVE SimInv'
    <2>1. /\ ~Locked(i) /\ store' = [store EXCEPT ![i] = NoEntry]
          /\ UNCHANGED <<card, hidden, last, sim, fault>>
      BY <1>4 DEF ClientDeletes
    <2>2. /\ store' \in [Ids -> EntryRec] /\ \A j \in Ids : store'[j] \in {store[j], NoEntry}
          /\ \A j : j # i => store'[j] = store[j]
      BY <1>2, <1>3, <2>1
    <2>3. StoreInv'
      BY <1>2, <1>3, <2>1, <2>2 DEF StoreInv
    <2>4. sim.active /\ sim.op = "Write" => store'[sim.sel[sim.done + 1]] = store[sim.sel[sim.done + 1]]
      BY <2>1, <2>2 DEF Locked
    <2> QED BY <1>1, <1>2, <2>1, <2>2, <2>3, <2>4, LossKeepsSimInv
  <1>5. ASSUME NEW h \in Hidden, ClientDeletesFolder(h) PROVE SimInv'
    <2>1. /\ store' = Cleaned(store, h) /\ hidden' = hidden \ {h}
          /\ UNCHANGED <<card, last, sim, fault>>
      BY <1>5 DEF ClientDeletesFolder
    <2>2. /\ Cleaned(store, h) \in [Ids -> EntryRec] /\ Placed(Cleaned(store, h), hidden \ {h})
          /\ \A j \in Ids : Cleaned(store, h)[j] \in {store[j], NoEntry}
      BY <1>2, CleanedStore
    <2>3. StoreInv'
      BY <1>2, <2>1, <2>2 DEF StoreInv, Placed
    <2>4. Serving /\ sim.active /\ sim.op = "Write" =>
            store'[sim.sel[sim.done + 1]] = store[sim.sel[sim.done + 1]]
      <3>1. SUFFICES ASSUME Serving, sim.active, sim.op = "Write"
                     PROVE  store'[sim.sel[sim.done + 1]] = store[sim.sel[sim.done + 1]]
        OBVIOUS
      <3>2. sim.type \in {"CopyTo", "MoveTo"}
        BY <3>1 DEF SimInv, ServedInv, OpShape, Typed, TypeOK, SimRec, SimTypes
      <3>3. sim.done + 1 \in DOMAIN sim.sel /\ sim.sel[sim.done + 1] \in Ids
        <4>1. sim.done \in 0 .. sim.count - 1 /\ sim.count = Len(sim.sel) /\ sim.sel \in Seq(Ids)
          BY <3>1, <3>2 DEF SimInv, ServedInv, OpShape, ServeInv, Selecting, Typed, TypeOK, SimRec
        <4> QED BY <4>1
      <3>4. store[sim.sel[sim.done + 1]].folder \notin Hidden
        BY <3>1, <3>2, <3>3 DEF SimInv, ServedInv, SelInv
      <3> QED BY <2>1, <3>3, <3>4 DEF Cleaned
    <2> QED BY <1>1, <1>2, <2>1, <2>2, <2>3, <2>4, LossKeepsSimInv
  <1>6. ASSUME NEW s \in Slots, CardLoses(s) PROVE SimInv'
    <2>1. card' = [card EXCEPT ![s] = Empty] /\ UNCHANGED <<store, hidden, last, sim, fault>>
      BY <1>6 DEF CardLoses
    <2>2. card' \in [Slots -> Texts \cup {Empty}]
      BY <1>2, <2>1
    <2>3. StoreInv'
      BY <1>2, <2>1 DEF StoreInv
    <2> QED BY <1>1, <1>2, <2>1, <2>2, <2>3, LossKeepsSimInv
  <1> QED BY <1>4, <1>5, <1>6 DEF Others

-----------------------------------------------------------------------------
(* The object works on its request                                         *)

\* The request goes on; ServedInv' is shown for each step.
LEMMA ServiceKeepsSimInv ==
  ASSUME SimInv, Serving, UNCHANGED <<hidden, last, fault, mtm, request, changes>>,
         card' \in [Slots -> Texts \cup {Empty}], store' \in [Ids -> EntryRec], StoreInv',
         IsSim(sim'), SimRec(sim'), sim'.exists, sim'.active => sim'.report,
         Command(sim'.type) = Command(sim.type), sim'.sel = sim.sel,
         DOMAIN sim'.written = DOMAIN sim.written, sim'.count = sim.count \/ sim.type \notin Selecting,
         ServedInv'
  PROVE  SimInv'
  <1>1. fault = "None" /\ request.answer = "Pending"
    BY DEF Serving
  <1>2. Typed'
    BY DEF SimInv, Typed, TypeOK
  <1>3. Serving'
    BY <1>1 DEF Serving
  <1>4. ServeInv'
    <2>1. sim'.type \in Selecting <=> sim.type \in Selecting
      BY DEF Command, Selecting
    <2> QED BY <1>1, <1>3, <2>1 DEF SimInv, ServeInv
  <1>5. AnswerInv'
    <2>1. (IsRequest(request) /\ request.answer # "Ok" /\ ~request.ended.failed
             /\ (fault = "NullContext" => request.touched) => AnswerInv)'
      BY NothingDone, PTL
    <2>2. ~request.ended.failed
      BY <1>1, PendingHasNoOutcome DEF SimInv, AnswerInv
    <2> QED BY <1>1, <1>2, <2>1, <2>2 DEF Typed
  <1> QED BY <1>2, <1>4, <1>5 DEF SimInv

\* t is where s is with its work.
SameWork(t, s) ==
  /\ t.exists = s.exists /\ t.type = s.type /\ t.state = s.state /\ t.sel = s.sel
  /\ t.done = s.done /\ t.count = s.count /\ t.folder = s.folder /\ t.dest = s.dest
  /\ t.rcptCount = s.rcptCount /\ t.rcptIndex = s.rcptIndex /\ t.completed = s.completed
  /\ t.list = s.list /\ t.slots = s.slots /\ t.reading = s.reading /\ t.written = s.written

LEMMA CompletesFields ==
  ASSUME NEW s, IsSim(s), SimRec(s), NEW e \in Errors
  PROVE  /\ IsSim(Completes(s, e)) /\ SimRec(Completes(s, e))
         /\ Completes(s, e).status = e /\ Completes(s, e).active = s.active
         /\ Completes(s, e).failed <=>
              (s.failed \/ (e # KErrNone /\ (s.op = "Delete" => e # KErrNotFound)))
         /\ Completes(s, e).op = s.op /\ Completes(s, e).report = s.report
         /\ Completes(s, e).error = s.error
         /\ SameWork(Completes(s, e), s)
  <1> DEFINE t == Completes(s, e)
             b == s.failed \/ (e # KErrNone /\ (s.op = "Delete" => e # KErrNotFound))
  <1>1. t = [s EXCEPT !.status = e, !.failed = b]
    BY DEF Completes
  <1> HIDE DEF t, b
  <1>2. /\ IsSim(t) /\ t.status = e /\ t.active = s.active /\ t.failed = b
        /\ t.op = s.op /\ t.report = s.report /\ t.error = s.error
    BY <1>1, FieldNames DEF IsSim
  <1>3. SameWork(t, s)
    BY <1>1, FieldNames DEF IsSim, SameWork
  <1>4. SimRec(t)
    <2>1. b \in BOOLEAN
      BY DEF b
    <2> QED BY <1>1, <2>1, FieldNames DEF IsSim, SimRec
  <1> QED BY <1>2, <1>3, <1>4 DEF t, b

\* One more copy has been written.
LEMMA OneMore ==
  ASSUME NEW f \in Seq(Nat), NEW i \in Int
  PROVE  [f EXCEPT ![i] = @ + 1] \in Seq(Nat)
  <1> DEFINE w == [f EXCEPT ![i] = @ + 1]
             n == Len(f)
  <1>1. n \in Nat /\ DOMAIN f = 1 .. n /\ \A k \in 1 .. n : f[k] \in Nat
    OBVIOUS
  <1>2. DOMAIN w = 1 .. n
    BY <1>1
  <1>3. ASSUME NEW k \in 1 .. n PROVE w[k] \in Nat
    <2>1. CASE k = i
      <3>1. w[k] = f[k] + 1
        BY <1>1, <2>1
      <3> QED BY <1>1, <3>1
    <2>2. CASE k # i
      <3>1. w[k] = f[k]
        BY <1>1, <2>2
      <3> QED BY <1>1, <3>1
    <2> QED BY <2>1, <2>2
  <1>4. w = [k \in 1 .. n |-> w[k]]
    BY <1>2
  <1> HIDE DEF w, n
  <1>5. w \in [1 .. n -> Nat]
    BY <1>3, <1>4
  <1>6. w \in Seq(Nat)
    BY <1>1, <1>5
  <1> QED BY <1>6 DEF w

\* What has completed is dealt with in the next RunL.
LEMMA CompletedIsNotPending ==
  ASSUME NEW e \in Errors
  PROVE  e # KRequestPending
  BY DEF Errors, KRequestPending, KErrNone, KErrNotFound, KErrGeneral, KErrCancel, KErrNoMemory,
         KErrArgument

LEMMA CardErrorIsError == CardError \in Errors
  BY DEF CardError, Errors

\* What an operation of the SIM leaves of the progress of the request: the list
\* of the messages when they have been counted, one more copy when one is written.
Counted(e) == sim.op = "Count" /\ e = KErrNone

CardProgress(e) ==
  /\ sim'.list = IF Counted(e) THEN Contents ELSE sim.list
  /\ sim'.written = IF sim.op = "Write" /\ e = KErrNone
                      THEN [sim.written EXCEPT ![sim.done + 1] = @ + 1] ELSE sim.written

\* The SIM after it: messages are gone only where they were to be deleted.
CardEffect(e) ==
  /\ card' \in [Slots -> Texts \cup {Empty}]
  /\ sim.op = "Delete" =>
       /\ \A s \in Slots : card[s] = Empty => card'[s] = Empty
       /\ e \in {KErrNone, KErrNotFound} => \A s \in sim.slots : card'[s] = Empty

LEMMA CardCompletesFields ==
  ASSUME SimInv, Serving, CardCompletes
  PROVE  \E e \in Errors :
           /\ IsSim(sim') /\ SimRec(sim') /\ sim'.status = e /\ sim'.active = TRUE
           /\ sim'.failed <=> (sim.failed \/ (e # KErrNone /\ (sim.op = "Delete" => e # KErrNotFound)))
           /\ sim'.op = sim.op /\ sim'.report = sim.report /\ sim'.error = sim.error
           /\ sim'.exists = sim.exists /\ sim'.type = sim.type /\ sim'.state = sim.state
           /\ sim'.sel = sim.sel /\ sim'.done = sim.done /\ sim'.count = sim.count
           /\ sim'.folder = sim.folder /\ sim'.dest = sim.dest /\ sim'.rcptCount = sim.rcptCount
           /\ sim'.rcptIndex = sim.rcptIndex /\ sim'.reading = sim.reading
           /\ sim.op # "Write" => sim'.slots = sim.slots
           /\ CardProgress(e) /\ CardEffect(e)
  <1>1. /\ IsSim(sim) /\ SimRec(sim) /\ card \in [Slots -> Texts \cup {Empty}]
        /\ sim.active = TRUE /\ Outstanding(CardOps)
    BY DEF CardCompletes, Outstanding, SimInv, Typed, TypeOK, SimRec
  <1>2. KErrNone \in Errors /\ KErrGeneral \in Errors /\ CardError \in Errors
    BY CardErrorIsError DEF Errors
  <1>3. KErrGeneral \notin {KErrNone, KErrNotFound} /\ KErrNoMemory \notin {KErrNone, KErrNotFound}
        /\ KErrNone # KErrNotFound
    BY DEF KErrGeneral, KErrNone, KErrNotFound, KErrNoMemory
  <1>4. ASSUME NEW e \in Errors, e # KErrNone, sim' = Completes(sim, e), UNCHANGED card,
               sim.op = "Delete" /\ e = KErrNotFound => sim.slots \cap Occupied = {}
        PROVE  CardProgress(e) /\ CardEffect(e)
    <2>1. SameWork(sim', sim)
      BY <1>1, <1>4, CompletesFields
    <2>2. CardProgress(e)
      BY <1>4, <2>1 DEF CardProgress, Counted, SameWork
    <2>3. sim.slots \subseteq Slots
      BY <1>1 DEF SimRec
    <2>4. CardEffect(e)
      BY <1>1, <1>4, <2>3 DEF CardEffect, Occupied
    <2> QED BY <2>2, <2>4
  <1>5. CASE CardError # KErrNone /\ sim' = Completes(sim, CardError) /\ UNCHANGED card
    <2>1. sim.op = "Delete" /\ CardError = KErrNotFound => sim.slots \cap Occupied = {}
      BY <1>3, <1>5 DEF CardError
    <2>2. CardProgress(CardError) /\ CardEffect(CardError)
      BY <1>2, <1>4, <1>5, <2>1
    <2> QED BY <1>1, <1>2, <1>5, <2>2, CompletesFields DEF SameWork
  <1>6. CASE sim' = Completes(sim, KErrGeneral) /\ UNCHANGED card
    <2>1. CardProgress(KErrGeneral) /\ CardEffect(KErrGeneral)
      BY <1>2, <1>3, <1>4, <1>6
    <2> QED BY <1>1, <1>2, <1>6, <2>1, CompletesFields DEF SameWork
  <1> DEFINE counted == [sim EXCEPT !.list = Contents]
             stored  == [sim EXCEPT !.slots = {Lowest(Vacant)}, !.written[sim.done + 1] = @ + 1]
             after   == CASE sim.op = "Count" -> Completes(counted, KErrNone)
                          [] sim.op = "Write" -> Completes(stored, KErrNone)
                          [] OTHER -> Completes(sim, KErrNone)
  <1>7. CASE CardError = KErrNone /\ card' = CardAfter /\ sim' = after
    <2>1. CardEffect(KErrNone)
      <3>1. card' \in [Slots -> Texts \cup {Empty}]
        BY <1>1, <1>7, CardAfterType
      <3>2. sim.slots \subseteq Slots
        BY <1>1 DEF SimRec
      <3>3. sim.op = "Delete" => card' = [s \in Slots |-> IF s \in sim.slots THEN Empty ELSE card[s]]
        BY <1>7 DEF CardAfter
      <3> QED BY <3>1, <3>2, <3>3 DEF CardEffect
    <2>2. CASE sim.op = "Count"
      <3>1. sim' = Completes(counted, KErrNone)
        BY <1>7, <2>2
      <3>2. Contents \in Seq([slot : Slots, text : Texts])
        BY <1>1, ContentsAreListed
      <3>3. /\ IsSim(counted) /\ counted.list = Contents /\ counted.written = sim.written
            /\ counted.active = sim.active /\ counted.op = sim.op /\ counted.report = sim.report
            /\ counted.error = sim.error /\ counted.failed = sim.failed
            /\ counted.exists = sim.exists /\ counted.type = sim.type /\ counted.state = sim.state
            /\ counted.sel = sim.sel /\ counted.done = sim.done /\ counted.count = sim.count
            /\ counted.folder = sim.folder /\ counted.dest = sim.dest
            /\ counted.rcptCount = sim.rcptCount
            /\ counted.rcptIndex = sim.rcptIndex /\ counted.reading = sim.reading
            /\ counted.slots = sim.slots
        BY <1>1, FieldNames DEF IsSim
      <3>4. SimRec(counted)
        <4> DEFINE L == Seq([slot : Slots, text : Texts])
        <4> HIDE DEF L
        <4>1. Contents \in L
          BY <3>2 DEF L
        <4> QED BY <1>1, <4>1, FieldNames DEF IsSim, SimRec, L
      <3> HIDE DEF counted
      <3>5. /\ IsSim(sim') /\ SimRec(sim') /\ sim'.status = KErrNone /\ sim'.active = counted.active
            /\ sim'.failed <=> counted.failed
            /\ sim'.op = counted.op /\ sim'.report = counted.report /\ sim'.error = counted.error
            /\ SameWork(sim', counted)
        BY <1>2, <3>1, <3>3, <3>4, CompletesFields
      <3>6. CardProgress(KErrNone)
        BY <2>2, <3>3, <3>5 DEF CardProgress, Counted, SameWork
      <3> QED BY <1>1, <1>2, <2>1, <2>2, <3>3, <3>5, <3>6 DEF SameWork
    <2>3. CASE sim.op = "Write"
      <3>1. sim' = Completes(stored, KErrNone)
        BY <1>7, <2>3
      <3>2. {Lowest(Vacant)} \subseteq Slots
        <4>1. Vacant # {}
          BY <1>7, <2>3 DEF CardError, KErrNone, KErrNoMemory
        <4>2. Vacant \subseteq Nat /\ Vacant \subseteq Slots
          BY SimAssumption DEF Vacant
        <4> QED BY <4>1, <4>2, LowestIsLeast
      <3> DEFINE w == [sim.written EXCEPT ![sim.done + 1] = @ + 1]
                 l == {Lowest(Vacant)}
      <3>3. w \in Seq(Nat)
        <4>1. sim.written \in Seq(Nat) /\ sim.done + 1 \in Int
          BY <1>1 DEF SimRec
        <4> QED BY <4>1, OneMore
      <3>4. stored = [sim EXCEPT !.slots = l, !.written = w]
        BY <1>1, FieldNames DEF IsSim
      <3> HIDE DEF stored, w, l
      <3>5. /\ IsSim(stored) /\ stored.list = sim.list /\ stored.written = w
            /\ stored.active = sim.active /\ stored.op = sim.op /\ stored.report = sim.report
            /\ stored.error = sim.error /\ stored.failed = sim.failed
            /\ stored.exists = sim.exists /\ stored.type = sim.type /\ stored.state = sim.state
            /\ stored.sel = sim.sel /\ stored.done = sim.done /\ stored.count = sim.count
            /\ stored.folder = sim.folder /\ stored.dest = sim.dest
            /\ stored.rcptCount = sim.rcptCount
            /\ stored.rcptIndex = sim.rcptIndex /\ stored.reading = sim.reading
        BY <1>1, <3>4, FieldNames DEF IsSim
      <3>6. SimRec(stored)
        <4>1. l \subseteq Slots
          BY <3>2 DEF l
        <4> QED BY <1>1, <3>3, <3>4, <4>1, FieldNames DEF IsSim, SimRec
      <3>7. /\ IsSim(sim') /\ SimRec(sim') /\ sim'.status = KErrNone /\ sim'.active = stored.active
            /\ sim'.failed <=> stored.failed
            /\ sim'.op = stored.op /\ sim'.report = stored.report /\ sim'.error = stored.error
            /\ SameWork(sim', stored)
        BY <1>2, <3>1, <3>5, <3>6, CompletesFields
      <3>8. CardProgress(KErrNone)
        BY <2>3, <3>5, <3>7 DEF CardProgress, Counted, SameWork, w
      <3> QED BY <1>1, <1>2, <2>1, <2>3, <3>5, <3>7, <3>8 DEF SameWork
    <2>4. CASE sim.op \notin {"Count", "Write"}
      <3>1. sim' = Completes(sim, KErrNone)
        BY <1>7, <2>4
      <3>2. SameWork(sim', sim)
        BY <1>1, <1>2, <3>1, CompletesFields
      <3>3. CardProgress(KErrNone)
        BY <2>4, <3>2 DEF CardProgress, Counted, SameWork
      <3> QED BY <1>1, <1>2, <2>1, <3>1, <3>3, CompletesFields DEF SameWork
    <2> QED BY <2>2, <2>3, <2>4
  <1>8. \/ CardError # KErrNone /\ sim' = Completes(sim, CardError) /\ UNCHANGED card
        \/ sim' = Completes(sim, KErrGeneral) /\ UNCHANGED card
        \/ CardError = KErrNone /\ card' = CardAfter /\ sim' = after
    BY DEF CardCompletes
  <1> QED BY <1>5, <1>6, <1>7, <1>8

\* The facts about the request that is served, for use in the steps.
LEMMA ServingFacts ==
  ASSUME SimInv, Serving
  PROVE  /\ IsSim(sim) /\ SimRec(sim) /\ sim.exists /\ sim.sel \in Seq(Ids)
         /\ fault = "None" /\ request.answer = "Pending"
         /\ card \in [Slots -> Texts \cup {Empty}] /\ store \in [Ids -> EntryRec] /\ StoreInv
         /\ request.cmd = Command(sim.type) /\ request.sel = sim.sel
         /\ DOMAIN sim.written = DOMAIN sim.sel /\ DOMAIN request.before = DOMAIN sim.sel
         /\ \A k \in DOMAIN sim.sel : request.before[k].slots \subseteq Slots
         /\ sim.type \in Selecting => sim.sel # <<>> /\ sim.count = Len(sim.sel)
         /\ sim.active => sim.report
         /\ Len(sim.sel) \in Nat /\ DOMAIN sim.sel = 1 .. Len(sim.sel)
         /\ \A k \in 1 .. Len(sim.sel) : sim.sel[k] \in Ids
  <1>1. sim.sel \in Seq(Ids)
    BY DEF SimInv, Typed, TypeOK, SimRec
  <1>2. Len(sim.sel) \in Nat /\ DOMAIN sim.sel = 1 .. Len(sim.sel)
        /\ \A k \in 1 .. Len(sim.sel) : sim.sel[k] \in Ids
    BY <1>1
  <1> QED BY <1>1, <1>2 DEF SimInv, Typed, TypeOK, ServeInv, Serving

\* A folder that holds nothing of one list holds nothing of another.
LEMMA HoldsNone ==
  ASSUME NEW st, NEW f, NEW l, NEW m, Holds(st, f, l, 0)
  PROVE  Holds(st, f, m, 0)
  <1>1. 1 .. 0 = {}
    OBVIOUS
  <1>2. /\ {l[k].text : k \in 1 .. 0} = {m[k].text : k \in 1 .. 0}
        /\ {{l[k].slot} : k \in 1 .. 0} = {{m[k].slot} : k \in 1 .. 0}
    BY <1>1
  <1> QED BY <1>2, Zenon DEF Holds

LEMMA CardCompletesKeepsSimInv ==
  ASSUME SimInv, fault = "None", CardCompletes, UNCHANGED <<mtm, request, changes>>
  PROVE  SimInv'
  <1>1. Outstanding(CardOps) /\ UNCHANGED <<store, hidden, last, fault>>
    BY DEF CardCompletes
  <1>2. Serving /\ sim.active /\ sim.status = KRequestPending /\ sim.op \in CardOps
    BY <1>1 DEF Outstanding, SimInv, ServeInv, Serving
  <1>3. /\ IsSim(sim) /\ SimRec(sim) /\ sim.exists /\ sim.sel \in Seq(Ids)
        /\ card \in [Slots -> Texts \cup {Empty}] /\ store \in [Ids -> EntryRec] /\ StoreInv
        /\ DOMAIN sim.written = DOMAIN sim.sel /\ DOMAIN request.before = DOMAIN sim.sel
        /\ \A k \in DOMAIN sim.sel : request.before[k].slots \subseteq Slots
        /\ sim.type \in Selecting => sim.count = Len(sim.sel)
        /\ sim.report /\ Len(sim.sel) \in Nat /\ DOMAIN sim.sel = 1 .. Len(sim.sel)
    BY <1>2, ServingFacts
  <1>4. PICK e \in Errors :
          /\ IsSim(sim') /\ SimRec(sim') /\ sim'.status = e /\ sim'.active = TRUE
          /\ sim'.failed <=> (sim.failed \/ (e # KErrNone /\ (sim.op = "Delete" => e # KErrNotFound)))
          /\ sim'.op = sim.op /\ sim'.report = sim.report /\ sim'.error = sim.error
          /\ sim'.exists = sim.exists /\ sim'.type = sim.type /\ sim'.state = sim.state
          /\ sim'.sel = sim.sel /\ sim'.done = sim.done /\ sim'.count = sim.count
          /\ sim'.folder = sim.folder /\ sim'.dest = sim.dest /\ sim'.rcptCount = sim.rcptCount
          /\ sim'.rcptIndex = sim.rcptIndex /\ sim'.reading = sim.reading
          /\ sim.op # "Write" => sim'.slots = sim.slots
          /\ CardProgress(e) /\ CardEffect(e)
    BY <1>2, CardCompletesFields
  <1>5. Serving' /\ e # KRequestPending /\ GoesWell' = (Serving /\ ~request.touched)
    BY <1>1, <1>2, <1>4, CompletedIsNotPending DEF Serving, GoesWell
  <1>6. OpShape /\ SelInv /\ FailInv /\ DelInv /\ WriteInv /\ EnumInv
        /\ (GoesWell <=> ~request.touched)
    BY <1>2 DEF SimInv, ServedInv, GoesWell
  <1>7. /\ sim.type \in {"Delete", "MoveFrom"} => sim.op = "Delete" /\ sim.done >= 1 /\ sim.done \in 0 .. sim.count
        /\ sim.type \in {"CopyTo", "MoveTo"} => sim.op = "Write" /\ sim.done \in 0 .. sim.count - 1
        /\ sim.type = "Enumerate" => sim.op \in {"Count", "ReadNext"}
        /\ sim.state = "DeleteEach" => sim.op = "Delete"
    BY <1>2, <1>6 DEF OpShape, CardOps
  <1>8. OpShape'
    <2>1. sim.op # "None" /\ sim.type # "CopyFrom" /\ sim.type # "MovingEntries"
      BY <1>2, <1>6 DEF CardOps, OpShape
    <2> QED BY <1>2, <1>4, <1>6, <1>7, <2>1 DEF OpShape
  <1>9. SelInv'
    BY <1>1, <1>2, <1>4, <1>6 DEF SelInv
  <1>10. LockShape'
    BY <1>4, <1>5 DEF LockShape
  <1>11. FailInv'
    <2>1. SUFFICES ASSUME sim'.failed
                   PROVE  \/ e # KErrNone /\ ~(sim.state = "DeleteEach" /\ e = KErrNotFound)
                          \/ sim.type = "ReadParams" /\ sim.error # KErrNone
      BY <1>4, <1>5 DEF FailInv, Restarts
    <2>2. CASE sim.failed
      BY <1>2, <1>6, <2>2 DEF FailInv
    <2>3. CASE e # KErrNone /\ (sim.op = "Delete" => e # KErrNotFound)
      BY <1>7, <2>3
    <2> QED BY <1>4, <2>1, <2>2, <2>3
  <1>12. DelInv'
    <2>1. SUFFICES ASSUME ~request.touched, sim.type = "Delete"
                   PROVE  /\ sim.slots = request.before[sim.done].slots
                          /\ \A k \in 1 .. sim.done :
                               (k = sim.done => e \in {KErrNone, KErrNotFound})
                                 => \A s \in request.before[k].slots : card'[s] = Empty
      BY <1>1, <1>4, <1>5, <1>7 DEF DelInv
    <2>2. sim.op = "Delete" /\ sim.slots = request.before[sim.done].slots
      BY <1>2, <1>6, <1>7, <2>1 DEF DelInv
    <2>3. SUFFICES ASSUME NEW k \in 1 .. sim.done, k = sim.done => e \in {KErrNone, KErrNotFound},
                          NEW s \in request.before[k].slots
                   PROVE  card'[s] = Empty
      BY <2>2
    <2>4. s \in Slots
      <3>1. k \in DOMAIN sim.sel
        BY <1>3, <1>7, <2>1 DEF Selecting
      <3> QED BY <1>3, <3>1
    <2>5. CASE k = sim.done
      BY <1>4, <2>2, <2>3, <2>5 DEF CardEffect
    <2>6. CASE k # sim.done
      <3>1. card[s] = Empty
        BY <1>2, <1>6, <2>1, <2>3, <2>6 DEF DelInv
      <3> QED BY <1>4, <2>2, <2>4, <3>1 DEF CardEffect
    <2> QED BY <2>5, <2>6
  <1>13. CopyInv'
    BY <1>4 DEF CopyInv
  <1>14. WriteInv'
    <2>1. SUFFICES ASSUME ~request.touched, sim.type \in {"CopyTo", "MoveTo"}
                   PROVE  WriteInv'
      BY <1>4, <1>5 DEF WriteInv
    <2> DEFINE d == sim.done + 1
    <2>2. d \in DOMAIN sim.sel /\ sim.op = "Write" /\ sim.done \in Nat
      BY <1>3, <1>7, <2>1 DEF Selecting
    <2>3. sim.written \in Seq(Nat) /\ d \in DOMAIN sim.written /\ sim.written[d] \in Nat
      <3>1. sim.written \in Seq(Nat)
        BY <1>3 DEF SimRec
      <3>2. d \in DOMAIN sim.written
        BY <1>3, <2>2
      <3> QED BY <3>1, <3>2
    <2>4. /\ DOMAIN sim'.written = DOMAIN sim.written
          /\ \A k \in DOMAIN sim.written : k # d => sim'.written[k] = sim.written[k]
          /\ sim'.written[d] + (IF e # KErrNone THEN 1 ELSE 0) = sim.written[d] + 1
      <3>1. CASE e = KErrNone
        <4>1. sim'.written = [sim.written EXCEPT ![d] = @ + 1]
          BY <1>4, <2>2, <3>1 DEF CardProgress
        <4> QED BY <2>3, <3>1, <4>1
      <3>2. CASE e # KErrNone
        <4>1. sim'.written = sim.written
          BY <1>4, <3>2 DEF CardProgress
        <4> QED BY <2>3, <3>2, <4>1
      <3> QED BY <3>1, <3>2
    <2>5. /\ \A k \in 1 .. sim.done : sim.written[k] = Times(k)
          /\ \A k \in DOMAIN sim.sel : k > d => sim.written[k] = 0
          /\ sim.written[d] + 1 = IF sim.rcptCount = 0 THEN Times(d) ELSE sim.rcptIndex
          /\ sim.rcptCount # 0 => /\ sim.rcptCount = Times(d)
                                  /\ sim.rcptIndex \in 1 .. sim.rcptCount - 1
      <3>1. sim.status # KErrNone
        BY <1>2 DEF KErrNone, KRequestPending
      <3> QED BY <1>2, <1>6, <2>1, <2>2, <3>1 DEF WriteInv
    <2>6. \A k : Times(k)' = Times(k)
      BY DEF Times
    <2>7. \A k \in 1 .. sim.done : k \in DOMAIN sim.written /\ k # d
      BY <1>3, <2>2
    <2>8. \A k \in 1 .. sim.done : sim'.written[k] = Times(k)
      BY <2>4, <2>5, <2>7
    <2>9. \A k \in DOMAIN sim.sel : k > d => sim'.written[k] = 0
      <3>1. d \in Int /\ \A k \in DOMAIN sim.sel : k > d => k # d
        BY <1>3, <2>2
      <3> QED BY <1>3, <2>4, <2>5, <3>1
    <2> HIDE DEF d
    <2>10. /\ sim'.written[d] + (IF e # KErrNone THEN 1 ELSE 0)
               = IF sim.rcptCount = 0 THEN Times(d) ELSE sim.rcptIndex
           /\ sim.rcptCount # 0 => /\ sim.rcptCount = Times(d)
                                   /\ sim.rcptIndex \in 1 .. sim.rcptCount - 1
      BY <2>4, <2>5
    <2> QED BY <1>4, <2>1, <2>2, <2>6, <2>8, <2>9, <2>10 DEF WriteInv, d
  <1>15. EnumInv'
    <2>1. SUFFICES ASSUME ~request.touched, sim.type = "Enumerate"
                   PROVE  EnumInv'
      BY <1>4, <1>5 DEF EnumInv
    <2>2. /\ sim.folder # NoFolder /\ sim.done \in 0 .. Len(sim.list) /\ Distinct(sim.list)
          /\ Holds(store, sim.folder, sim.list, sim.done)
          /\ sim.op = "Count" => sim.done = 0
      BY <1>2, <1>6, <2>1 DEF EnumInv, KErrNone, KRequestPending
    <2>3. CASE sim.op = "Count" /\ e = KErrNone
      <3>1. sim'.list = Contents /\ sim.done = 0
        BY <1>4, <2>2, <2>3 DEF CardProgress, Counted
      <3>2. Contents \in Seq([slot : Slots, text : Texts]) /\ Distinct(Contents)
        BY <1>3, ContentsAreListed DEF Distinct
      <3>3. 0 \in 0 .. Len(Contents)
        BY <3>2
      <3>4. Holds(store, sim.folder, Contents, 0)
        <4>1. Holds(store, sim.folder, sim.list, 0)
          BY <2>2, <3>1
        <4> QED BY <4>1, HoldsNone
      <3> QED BY <1>1, <1>4, <2>2, <2>3, <3>1, <3>2, <3>3, <3>4 DEF EnumInv
    <2>4. CASE ~(sim.op = "Count" /\ e = KErrNone)
      <3>1. sim'.list = sim.list
        BY <1>4, <2>4 DEF CardProgress, Counted
      <3> QED BY <1>1, <1>4, <2>2, <2>4, <3>1 DEF EnumInv
    <2> QED BY <2>3, <2>4
  <1>16. ServedInv'
    BY <1>8, <1>9, <1>10, <1>11, <1>12, <1>13, <1>14, <1>15 DEF ServedInv
  <1>17. DOMAIN sim'.written = DOMAIN sim.written
    BY <1>4 DEF CardProgress
  <1>18. card' \in [Slots -> Texts \cup {Empty}] /\ store' \in [Ids -> EntryRec] /\ StoreInv'
    BY <1>1, <1>3, <1>4 DEF CardEffect, StoreInv
  <1> QED BY <1>1, <1>2, <1>3, <1>4, <1>16, <1>17, <1>18, ServiceKeepsSimInv

\* The operations of the store that are outstanding.
LEMMA StoreOpsOfTypes ==
  ASSUME SimInv, Serving, Outstanding(StoreOps)
  PROVE  /\ sim.type \in {"CopyFrom", "MovingEntries", "CopyTo", "MoveTo"}
         /\ sim.state # "DeleteEach"
         /\ Target \in Folders \ Hidden /\ Target # NoFolder
         /\ Handled \in Seq(Ids)
         /\ \A k \in DOMAIN Handled : \E j \in DOMAIN sim.sel : Handled[k] = sim.sel[j]
  <1>1. /\ sim.active /\ sim.status = KRequestPending /\ sim.op \in StoreOps /\ OpShape
        /\ sim.type \in SimTypes
    BY DEF Outstanding, SimInv, ServedInv, Typed, TypeOK, SimRec
  <1>2. sim.sel \in Seq(Ids) /\ DOMAIN sim.sel = 1 .. Len(sim.sel)
        /\ (sim.type \in Selecting => sim.count = Len(sim.sel))
        /\ \A k \in 1 .. Len(sim.sel) : sim.sel[k] \in Ids
    BY ServingFacts
  <1>3. sim.type \notin {"Enumerate", "Delete", "MoveFrom", "ReadParams", "WriteParams"}
    BY <1>1 DEF OpShape, StoreOps
  <1>4. sim.type \in {"CopyFrom", "MovingEntries", "CopyTo", "MoveTo"} /\ sim.state # "DeleteEach"
    BY <1>1, <1>3 DEF OpShape, SimTypes
  <1>5. CASE sim.op \in {"Class2Copy", "Class2Move"}
    <2>1. sim.type \in {"CopyTo", "MoveTo"} /\ Class2Folder = "Class2"
      BY <1>1, <1>4, <1>5, SimAssumption DEF OpShape
    <2>2. sim.done + 1 \in DOMAIN sim.sel
      <3>1. sim.done \in 0 .. sim.count - 1
        BY <1>1, <2>1 DEF OpShape
      <3>2. sim.count = Len(sim.sel) /\ Len(sim.sel) \in Nat
        BY <1>2, <2>1 DEF Selecting
      <3> QED BY <1>2, <3>1, <3>2
    <2>3. Handled = <<sim.sel[sim.done + 1]>> /\ Target = "Class2"
      BY <1>5, <2>1 DEF Handled, Target
    <2>4. sim.sel[sim.done + 1] \in Ids
      BY <1>2, <2>2
    <2>5. Target \in Folders \ Hidden /\ Target # NoFolder
      BY <2>3, SimAssumption DEF Folders, NoFolder
    <2>6. Handled \in Seq(Ids) /\ DOMAIN Handled = {1} /\ Handled[1] = sim.sel[sim.done + 1]
      BY <2>3, <2>4
    <2> QED BY <1>4, <2>2, <2>5, <2>6
  <1>6. CASE sim.op \in {"Copy", "Move"}
    <2>1. sim.dest = "Inbox"
      BY <1>1, <1>4, <1>6 DEF OpShape
    <2>2. Handled = sim.sel /\ Target = "Inbox"
      BY <1>6, <2>1 DEF Handled, Target
    <2>3. Target \in Folders \ Hidden /\ Target # NoFolder
      BY <2>2, SimAssumption DEF Folders, NoFolder
    <2> QED BY <1>2, <1>4, <2>2, <2>3
  <1> QED BY <1>1, <1>5, <1>6 DEF StoreOps

\* An entry that has been copied or moved to the folder f.
InFolder(e, f) == [e EXCEPT !.folder = f]

LEMMA InFolderType ==
  ASSUME NEW e \in EntryRec, NEW f \in Folders
  PROVE  /\ InFolder(e, f) \in EntryRec /\ InFolder(e, f).folder = f
         /\ InFolder(e, f).text = e.text /\ InFolder(e, f).slots = e.slots
  BY DEF InFolder, EntryRec

\* The store gives copies ids that no selected entry has, and changes nothing of
\* the entries it moves but their folder.
LEMMA StoreEffect ==
  ASSUME SimInv, Serving, Outstanding(StoreOps), NEW n \in 0 .. Len(Handled), UNCHANGED <<hidden, last>>,
         \A k \in 1 .. n : Exists(Handled[k]),
         \/ n <= Cardinality(Free) /\ store' = CopiedTo(n)
         \/ store' = MovedTo(n)
  PROVE  /\ store' \in [Ids -> EntryRec] /\ StoreInv'
         /\ \A k \in DOMAIN sim.sel :
              LET i == sim.sel[k]
              IN  \/ store'[i] = store[i]
                  \/ /\ store[i] # NoEntry /\ store'[i] # NoEntry
                     /\ store'[i].text = store[i].text /\ store'[i].slots = store[i].slots
                     /\ store'[i].folder \notin Hidden
  <1>1. /\ store \in [Ids -> EntryRec] /\ StoreInv
        /\ DOMAIN sim.sel = 1 .. Len(sim.sel)
        /\ \A k \in DOMAIN sim.sel : sim.sel[k] \in Ids
    BY ServingFacts
  <1>2. /\ Target \in Folders \ Hidden /\ Target # NoFolder /\ Handled \in Seq(Ids)
    BY StoreOpsOfTypes
  <1>3. n \in Nat /\ \A k \in 1 .. n : Handled[k] \in Ids /\ store[Handled[k]] # NoEntry
    <2>1. \A k \in 1 .. Len(Handled) : Handled[k] \in Ids
      BY <1>2
    <2>2. n \in Nat /\ \A k \in 1 .. n : k \in 1 .. Len(Handled)
      BY <1>2
    <2> QED BY <2>1, <2>2 DEF Exists
  <1> DEFINE New(e) == e \in EntryRec /\ e.folder \notin Hidden /\ e.folder # NoFolder
  <1>4. \A h \in Ids : New(InFolder(store[h], Target))
    BY <1>1, <1>2, InFolderType
  <1>5. CASE n <= Cardinality(Free) /\ store' = CopiedTo(n)
    <2>1. \A k \in 1 .. n : NewIds(n)[k] \in Free
      BY <1>3, <1>5, NewIdsAreFree
    <2> DEFINE made(i) == \E k \in 1 .. n : NewIds(n)[k] = i
               from(i) == Handled[CHOOSE k \in 1 .. n : NewIds(n)[k] = i]
    <2>2. store' = [i \in Ids |-> IF made(i) THEN InFolder(store[from(i)], Target) ELSE store[i]]
      BY <1>5 DEF CopiedTo, InFolder
    <2>3. \A i : made(i) => from(i) \in Ids
      BY <1>3
    <2>4. \A k \in DOMAIN sim.sel : ~made(sim.sel[k])
      BY <2>1 DEF Free
    <2> HIDE DEF made, from, New
    <2>5. \A i \in Ids : store'[i] = store[i] \/ New(store'[i])
      BY <1>4, <2>2, <2>3
    <2>6. store' \in [Ids -> EntryRec] /\ StoreInv'
      BY <1>1, <2>2, <2>5 DEF New, StoreInv
    <2> QED BY <1>1, <2>2, <2>4, <2>6
  <1>6. CASE store' = MovedTo(n)
    <2> DEFINE moved(i) == \E k \in 1 .. n : Handled[k] = i
    <2>1. store' = [i \in Ids |-> IF moved(i) THEN InFolder(store[i], Target) ELSE store[i]]
      BY <1>6 DEF MovedTo, InFolder
    <2>2. \A i : moved(i) => store[i] # NoEntry
      BY <1>3
    <2> HIDE DEF moved
    <2>3. ASSUME NEW i \in Ids
          PROVE  \/ store'[i] = store[i]
                 \/ /\ store[i] # NoEntry /\ New(store'[i])
                    /\ store'[i].text = store[i].text /\ store'[i].slots = store[i].slots
      <3>1. CASE moved(i)
        <4>1. store'[i] = InFolder(store[i], Target)
          BY <2>1, <3>1
        <4>2. store[i] \in EntryRec /\ store[i] # NoEntry
          BY <1>1, <2>2, <3>1
        <4> QED BY <1>2, <1>4, <4>1, <4>2, InFolderType
      <3>2. CASE ~moved(i)
        BY <2>1, <3>2
      <3> QED BY <3>1, <3>2
    <2>4. store' \in [Ids -> EntryRec] /\ StoreInv'
      BY <1>1, <2>1, <2>3 DEF StoreInv
    <2>5. \A e : New(e) => e # NoEntry
      BY DEF NoEntry
    <2> HIDE DEF New
    <2>6. \A e : New(e) => e.folder \notin Hidden
      BY DEF New
    <2> QED BY <1>1, <2>3, <2>4, <2>5, <2>6
  <1> QED BY <1>5, <1>6

\* What the store leaves of the request.
LEMMA StoreCompletesFields ==
  ASSUME SimInv, Serving, StoreCompletes
  PROVE  \E e \in Errors :
           /\ IsSim(sim') /\ SimRec(sim') /\ sim'.status = e /\ sim'.active = TRUE
           /\ sim'.failed <=> (sim.failed \/ e # KErrNone)
           /\ sim'.op = sim.op /\ sim'.report = sim.report /\ sim'.error = sim.error
           /\ sim'.exists = sim.exists /\ sim'.type = sim.type /\ sim'.state = sim.state
           /\ sim'.sel = sim.sel /\ sim'.done = sim.done /\ sim'.count = sim.count
           /\ sim'.folder = sim.folder /\ sim'.dest = sim.dest /\ sim'.rcptCount = sim.rcptCount
           /\ sim'.rcptIndex = sim.rcptIndex /\ sim'.reading = sim.reading
           /\ sim'.list = sim.list /\ sim'.slots = sim.slots /\ sim'.written = sim.written
  <1>1. /\ IsSim(sim) /\ SimRec(sim) /\ sim.active = TRUE /\ Outstanding(StoreOps)
        /\ sim.op # "Delete"
    BY ServingFacts DEF StoreCompletes, Outstanding, StoreOps
  <1>2. KErrNone \in Errors /\ KErrNoMemory \in Errors /\ KErrNotFound \in Errors
    BY DEF Errors
  <1>3. ASSUME NEW e \in Errors, sim' = Completes(sim, e)
        PROVE  /\ IsSim(sim') /\ SimRec(sim') /\ sim'.status = e /\ sim'.active = TRUE
               /\ sim'.failed <=> (sim.failed \/ e # KErrNone)
               /\ sim'.op = sim.op /\ sim'.report = sim.report /\ sim'.error = sim.error
               /\ SameWork(sim', sim)
    <2>1. /\ IsSim(sim') /\ SimRec(sim') /\ sim'.status = e /\ sim'.active = sim.active
          /\ sim'.failed <=> (sim.failed \/ (e # KErrNone /\ (sim.op = "Delete" => e # KErrNotFound)))
          /\ sim'.op = sim.op /\ sim'.report = sim.report /\ sim'.error = sim.error
          /\ SameWork(sim', sim)
      BY <1>1, <1>3, CompletesFields
    <2> QED BY <1>1, <2>1
  <1>4. ASSUME NEW c \in Seq(Ids), sim' = Completes([sim EXCEPT !.completed = c], KErrNone)
        PROVE  /\ IsSim(sim') /\ SimRec(sim') /\ sim'.status = KErrNone /\ sim'.active = TRUE
               /\ sim'.failed <=> sim.failed
               /\ sim'.op = sim.op /\ sim'.report = sim.report /\ sim'.error = sim.error
               /\ SameWork(sim', [sim EXCEPT !.completed = c])
    <2> DEFINE t == [sim EXCEPT !.completed = c]
    <2>1. /\ IsSim(t) /\ t.active = sim.active /\ t.failed = sim.failed /\ t.op = sim.op
          /\ t.report = sim.report /\ t.error = sim.error
      BY <1>1, FieldNames DEF IsSim
    <2>2. SimRec(t)
      BY <1>1, FieldNames DEF IsSim, SimRec
    <2> HIDE DEF t
    <2>3. /\ IsSim(sim') /\ SimRec(sim') /\ sim'.status = KErrNone /\ sim'.active = t.active
          /\ sim'.failed <=>
               (t.failed \/ (KErrNone # KErrNone /\ (t.op = "Delete" => KErrNone # KErrNotFound)))
          /\ sim'.op = t.op /\ sim'.report = t.report /\ sim'.error = t.error
          /\ SameWork(sim', t)
      <3>1. sim' = Completes(t, KErrNone)
        BY <1>4 DEF t
      <3> QED BY <1>2, <2>1, <2>2, <3>1, CompletesFields
    <2> QED BY <1>1, <2>1, <2>3 DEF t
  <1>5. ASSUME NEW c \in Seq(Ids)
        PROVE  LET t == [sim EXCEPT !.completed = c]
               IN  /\ t.exists = sim.exists /\ t.type = sim.type /\ t.state = sim.state
                   /\ t.sel = sim.sel /\ t.done = sim.done /\ t.count = sim.count
                   /\ t.folder = sim.folder /\ t.dest = sim.dest /\ t.rcptCount = sim.rcptCount
                   /\ t.rcptIndex = sim.rcptIndex /\ t.reading = sim.reading
                   /\ t.list = sim.list /\ t.slots = sim.slots /\ t.written = sim.written
    BY <1>1, FieldNames DEF IsSim
  <1>6. \/ \E e \in {KErrNoMemory, KErrNotFound} : sim' = Completes(sim, e)
        \/ \E n \in Nat : n <= Cardinality(Free)
                            /\ sim' = Completes([sim EXCEPT !.completed = NewIds(n)], KErrNone)
        \/ sim' = Completes([sim EXCEPT !.completed = sim.completed], KErrNone)
    <2>1. PICK n \in 0 .. Len(Handled) :
            LET copies == sim.op \in {"Copy", "Class2Copy"}
            IN  /\ ~copies \/ n <= Cardinality(Free)
                /\ \/ sim' = Completes([sim EXCEPT !.completed =
                              IF copies THEN NewIds(n) ELSE sim.completed], KErrNone)
                   \/ sim' = Completes(sim, IF Exists(Handled[n + 1]) THEN KErrNoMemory
                                            ELSE KErrNotFound)
      BY DEF StoreCompletes
    <2>2. n \in Nat
      BY <2>1
    <2> QED BY <2>1, <2>2
  <1>7. CASE \E e \in {KErrNoMemory, KErrNotFound} : sim' = Completes(sim, e)
    BY <1>2, <1>3, <1>7 DEF SameWork
  <1>8. ASSUME NEW c \in Seq(Ids), sim' = Completes([sim EXCEPT !.completed = c], KErrNone)
        PROVE  /\ IsSim(sim') /\ SimRec(sim') /\ sim'.status = KErrNone /\ sim'.active = TRUE
               /\ sim'.failed <=> sim.failed
               /\ sim'.op = sim.op /\ sim'.report = sim.report /\ sim'.error = sim.error
               /\ sim'.exists = sim.exists /\ sim'.type = sim.type /\ sim'.state = sim.state
               /\ sim'.sel = sim.sel /\ sim'.done = sim.done /\ sim'.count = sim.count
               /\ sim'.folder = sim.folder /\ sim'.dest = sim.dest
               /\ sim'.rcptCount = sim.rcptCount
               /\ sim'.rcptIndex = sim.rcptIndex /\ sim'.reading = sim.reading
               /\ sim'.list = sim.list /\ sim'.slots = sim.slots /\ sim'.written = sim.written
    <2> DEFINE t == [sim EXCEPT !.completed = c]
    <2>1. SameWork(sim', t)
      BY <1>4, <1>8
    <2>2. /\ t.exists = sim.exists /\ t.type = sim.type /\ t.state = sim.state
          /\ t.sel = sim.sel /\ t.done = sim.done /\ t.count = sim.count
          /\ t.folder = sim.folder /\ t.dest = sim.dest /\ t.rcptCount = sim.rcptCount
          /\ t.rcptIndex = sim.rcptIndex /\ t.reading = sim.reading
          /\ t.list = sim.list /\ t.slots = sim.slots /\ t.written = sim.written
      BY <1>5
    <2> HIDE DEF t
    <2> QED BY <1>4, <1>8, <2>1, <2>2 DEF SameWork
  <1>9. CASE \E n \in Nat : n <= Cardinality(Free)
                              /\ sim' = Completes([sim EXCEPT !.completed = NewIds(n)], KErrNone)
    <2>1. PICK n \in Nat : n <= Cardinality(Free)
                             /\ sim' = Completes([sim EXCEPT !.completed = NewIds(n)], KErrNone)
      BY <1>9
    <2>2. NewIds(n) \in Seq(Ids)
      BY <2>1, NewIdsAreFree
    <2> QED BY <1>2, <1>8, <2>1, <2>2
  <1>10. CASE sim' = Completes([sim EXCEPT !.completed = sim.completed], KErrNone)
    <2>1. sim.completed \in Seq(Ids)
      BY <1>1 DEF SimRec
    <2> QED BY <1>2, <1>8, <1>10, <2>1
  <1> QED BY <1>6, <1>7, <1>9, <1>10

LEMMA StoreCompletesKeepsSimInv ==
  ASSUME SimInv, fault = "None", StoreCompletes, UNCHANGED <<mtm, request, changes>>
  PROVE  SimInv'
  <1>1. Outstanding(StoreOps) /\ UNCHANGED <<card, hidden, last, fault>>
    BY DEF StoreCompletes
  <1>2. Serving /\ sim.active /\ sim.status = KRequestPending /\ sim.op \in StoreOps
    BY <1>1 DEF Outstanding, SimInv, ServeInv, Serving
  <1>3. /\ IsSim(sim) /\ SimRec(sim) /\ sim.exists /\ sim.report
        /\ card \in [Slots -> Texts \cup {Empty}]
    BY <1>2, ServingFacts
  <1>4. PICK e \in Errors :
           /\ IsSim(sim') /\ SimRec(sim') /\ sim'.status = e /\ sim'.active = TRUE
           /\ sim'.failed <=> (sim.failed \/ e # KErrNone)
           /\ sim'.op = sim.op /\ sim'.report = sim.report /\ sim'.error = sim.error
           /\ sim'.exists = sim.exists /\ sim'.type = sim.type /\ sim'.state = sim.state
           /\ sim'.sel = sim.sel /\ sim'.done = sim.done /\ sim'.count = sim.count
           /\ sim'.folder = sim.folder /\ sim'.dest = sim.dest /\ sim'.rcptCount = sim.rcptCount
           /\ sim'.rcptIndex = sim.rcptIndex /\ sim'.reading = sim.reading
           /\ sim'.list = sim.list /\ sim'.slots = sim.slots /\ sim'.written = sim.written
    BY <1>2, StoreCompletesFields
  <1>5. Serving' /\ e # KRequestPending /\ GoesWell' = (Serving /\ ~request.touched)
    BY <1>1, <1>2, <1>4, CompletedIsNotPending DEF Serving, GoesWell
  <1>6. OpShape /\ SelInv /\ FailInv /\ WriteInv
    BY DEF SimInv, ServedInv
  <1>7. sim.type \in {"CopyFrom", "MovingEntries", "CopyTo", "MoveTo"} /\ sim.state # "DeleteEach"
    BY <1>1, <1>2, StoreOpsOfTypes
  <1>8. /\ store' \in [Ids -> EntryRec] /\ StoreInv'
        /\ \A k \in DOMAIN sim.sel :
             LET i == sim.sel[k]
             IN  \/ store'[i] = store[i]
                 \/ /\ store[i] # NoEntry /\ store'[i] # NoEntry
                    /\ store'[i].text = store[i].text /\ store'[i].slots = store[i].slots
                    /\ store'[i].folder \notin Hidden
    <2>1. PICK n \in 0 .. Len(Handled) :
            /\ \A k \in 1 .. n : Exists(Handled[k])
            /\ \/ n <= Cardinality(Free) /\ store' = CopiedTo(n)
               \/ store' = MovedTo(n)
      BY DEF StoreCompletes
    <2> QED BY <1>1, <1>2, <2>1, StoreEffect
  <1>9. OpShape'
    BY <1>2, <1>4, <1>6, <1>7 DEF OpShape, StoreOps
  <1>10. SelInv'
    <2>1. SUFFICES ASSUME NEW k \in DOMAIN sim.sel
                   PROVE  LET e1 == store'[sim.sel[k]]
                              b == request.before[k]
                          IN  /\ e1 = NoEntry => request.touched
                              /\ e1 # NoEntry => e1.text = b.text
                              /\ sim.type \in {"CopyTo", "MoveTo"} => e1.folder \notin Hidden
                              /\ sim.type = "MovingEntries" => e1.slots = {}
      BY <1>1, <1>4, <1>7 DEF SelInv
    <2>2. LET e1 == store[sim.sel[k]]
              b == request.before[k]
          IN  /\ e1 = NoEntry => request.touched
              /\ e1 # NoEntry => e1.text = b.text
              /\ sim.type \in {"CopyTo", "MoveTo"} => e1.folder \notin Hidden
              /\ sim.type = "MovingEntries" => e1.slots = {}
      BY <1>2, <1>6 DEF SelInv
    <2> QED BY <1>8, <2>2
  <1>11. LockShape'
    BY <1>2, <1>4 DEF LockShape, StoreOps
  <1>12. FailInv'
    <2>1. ~sim.failed
      BY <1>2, <1>6, <1>7 DEF FailInv
    <2> QED BY <1>4, <1>5, <1>7, <2>1 DEF FailInv, Restarts
  <1>13. DelInv' /\ CopyInv' /\ EnumInv'
    BY <1>4, <1>7 DEF DelInv, CopyInv, EnumInv
  <1>14. WriteInv'
    <2>1. SUFFICES ASSUME ~request.touched, sim.type \in {"CopyTo", "MoveTo"}
                   PROVE  WriteInv'
      BY <1>1, <1>4, <1>5 DEF WriteInv
    <2>2. GoesWell
      BY <1>2, <2>1 DEF GoesWell
    <2>3. \A k : Times(k)' = Times(k)
      BY <1>1 DEF Times
    <2>4. sim.op # "Write"
      BY <1>2 DEF StoreOps
    <2> QED BY <1>2, <1>4, <1>6, <2>1, <2>2, <2>3, <2>4 DEF WriteInv
  <1>15. ServedInv'
    BY <1>9, <1>10, <1>11, <1>12, <1>13, <1>14 DEF ServedInv
  <1> QED BY <1>1, <1>2, <1>3, <1>4, <1>8, <1>15, ServiceKeepsSimInv

\* An entry of the selection stays, but for what its header says of the SIM.
Unchanged(i) ==
  \/ store'[i] = store[i]
  \/ /\ store[i] # NoEntry /\ sim.type \notin {"Delete", "MovingEntries"}
     /\ store'[i].text = store[i].text /\ store'[i].folder = store[i].folder

LEMMA SelectionStays ==
  ASSUME SimInv, Serving, sim'.sel = sim.sel, request' = request,
         sim'.type = sim.type \/ sim'.type = "MovingEntries",
         \A k \in DOMAIN sim.sel : Unchanged(sim.sel[k]),
         sim'.type = "MovingEntries" => \A k \in DOMAIN sim.sel : store'[sim.sel[k]].slots = {}
  PROVE  SelInv'
  <1>1. SelInv /\ StoreInv /\ \A k \in DOMAIN sim.sel : sim.sel[k] \in Ids
    BY ServingFacts DEF SimInv, ServedInv
  <1>2. SUFFICES ASSUME NEW k \in DOMAIN sim.sel
                 PROVE  LET e == store'[sim.sel[k]]
                            b == request.before[k]
                        IN  /\ e = NoEntry => request.touched
                            /\ e # NoEntry => e.text = b.text
                            /\ sim.type = "Delete" /\ sim'.type = sim.type => e \in {NoEntry, b}
                            /\ sim.type \in {"CopyTo", "MoveTo"} => e.folder \notin Hidden
                            /\ sim.type = "MoveFrom" => e.folder # "Inbox"
    BY DEF SelInv
  <1>3. LET e == store[sim.sel[k]]
            b == request.before[k]
        IN  /\ e = NoEntry => request.touched
            /\ e # NoEntry => e.text = b.text
            /\ sim.type = "Delete" => e \in {NoEntry, b}
            /\ sim.type \in {"CopyTo", "MoveTo"} => e.folder \notin Hidden
            /\ sim.type = "MoveFrom" => e.folder # "Inbox"
    BY <1>1 DEF SelInv
  <1>4. store[sim.sel[k]].folder = NoFolder => store[sim.sel[k]] = NoEntry
    BY <1>1 DEF StoreInv
  <1>5. CASE store'[sim.sel[k]] = store[sim.sel[k]]
    BY <1>3, <1>5
  <1>6. CASE store'[sim.sel[k]] # store[sim.sel[k]]
    <2>1. /\ store[sim.sel[k]] # NoEntry /\ sim.type # "Delete"
          /\ store'[sim.sel[k]].text = store[sim.sel[k]].text
          /\ store'[sim.sel[k]].folder = store[sim.sel[k]].folder
      BY <1>6 DEF Unchanged
    <2>2. store'[sim.sel[k]] # NoEntry
      BY <1>4, <2>1 DEF NoEntry
    <2> QED BY <1>3, <2>1, <2>2
  <1> QED BY <1>5, <1>6

\* A request that has failed is about to be answered.
LEMMA FailedKeepsSimInv ==
  ASSUME SimInv, Serving, UNCHANGED <<card, hidden, last, fault, mtm, request, changes>>,
         store' \in [Ids -> EntryRec], StoreInv',
         IsSim(sim'), SimRec(sim'), sim'.exists, ~sim'.active, sim'.error # KErrNone,
         Command(sim'.type) = Command(sim.type), sim'.sel = sim.sel,
         sim'.written = sim.written, sim'.count = sim.count \/ sim.type \notin Selecting,
         SelInv'
  PROVE  SimInv'
  <1>1. OpShape' /\ LockShape' /\ FailInv' /\ CopyInv'
    BY DEF OpShape, LockShape, FailInv, CopyInv
  <1>2. ~GoesWell'
    BY DEF GoesWell
  <1>3. DelInv' /\ WriteInv' /\ EnumInv'
    BY <1>2 DEF DelInv, WriteInv, EnumInv
  <1>4. ServedInv'
    BY <1>1, <1>3 DEF ServedInv
  <1>5. card \in [Slots -> Texts \cup {Empty}]
    BY ServingFacts
  <1>6. card' \in [Slots -> Texts \cup {Empty}] /\ DOMAIN sim'.written = DOMAIN sim.written
    BY <1>5
  <1> QED BY <1>4, <1>6, ServiceKeepsSimInv

LEMMA LeftFields ==
  ASSUME NEW s, IsSim(s), SimRec(s), sim.active, NEW e \in Errors, e # KErrNone
  PROVE  /\ IsSim(Left(s, e)) /\ SimRec(Left(s, e))
         /\ Left(s, e).active = FALSE /\ Left(s, e).error = e
         /\ Left(s, e).exists = s.exists /\ Left(s, e).type = s.type
         /\ Left(s, e).sel = s.sel /\ Left(s, e).count = s.count
         /\ Left(s, e).written = s.written
  <1> DEFINE t == [s EXCEPT !.failed = TRUE]
  <1>1. /\ IsSim(t) /\ t.exists = s.exists /\ t.type = s.type /\ t.sel = s.sel
        /\ t.count = s.count /\ t.written = s.written
    BY FieldNames DEF IsSim
  <1>2. SimRec(t)
    BY FieldNames DEF IsSim, SimRec
  <1>3. Left(s, e) = Done(t, e)
    BY DEF Left
  <1> HIDE DEF t
  <1>4. /\ IsSim(Done(t, e)) /\ SimRec(Done(t, e)) /\ Keeps(Done(t, e), t)
        /\ Done(t, e).active = FALSE
        /\ Done(t, e).error = IF e # KErrNone THEN e ELSE t.error
    BY <1>1, <1>2, DoneFields
  <1> QED BY <1>1, <1>3, <1>4 DEF Keeps

\* A leave in a RunL, and an error that ends the request.
LEMMA LeaveKeepsSimInv ==
  ASSUME SimInv, Serving, sim.active,
         UNCHANGED <<card, hidden, last, fault, mtm, request, changes>>,
         store' \in [Ids -> EntryRec], StoreInv',
         NEW s, IsSim(s), SimRec(s), s.exists = sim.exists,
         s.type = sim.type \/ (sim.type = "MoveFrom" /\ s.type = "MovingEntries"),
         s.sel = sim.sel, s.count = sim.count, s.written = sim.written,
         NEW e \in Errors, e # KErrNone, sim' = Left(s, e) \/ sim' = Done(s, e),
         \A k \in DOMAIN sim.sel : Unchanged(sim.sel[k]),
         s.type = "MovingEntries" => \A k \in DOMAIN sim.sel : store'[sim.sel[k]].slots = {}
  PROVE  SimInv'
  <1>1. /\ IsSim(sim') /\ SimRec(sim') /\ ~sim'.active /\ sim'.error = e
        /\ sim'.exists = s.exists /\ sim'.type = s.type /\ sim'.sel = s.sel
        /\ sim'.count = s.count /\ sim'.written = s.written
    <2>1. CASE sim' = Left(s, e)
      BY <2>1, LeftFields
    <2>2. CASE sim' = Done(s, e)
      <3>1. /\ IsSim(Done(s, e)) /\ SimRec(Done(s, e)) /\ Keeps(Done(s, e), s)
            /\ Done(s, e).active = FALSE
            /\ Done(s, e).error = IF e # KErrNone THEN e ELSE s.error
        BY DoneFields
      <3> QED BY <2>2, <3>1 DEF Keeps
    <2> QED BY <2>1, <2>2
  <1>2. sim.exists
    BY DEF Serving
  <1>3. SelInv'
    BY <1>1, SelectionStays
  <1>4. Command(sim'.type) = Command(sim.type)
    BY <1>1 DEF Command
  <1> QED BY <1>1, <1>2, <1>3, <1>4, FailedKeepsSimInv

\* The object in the RunL of a request that is served.
LEMMA RunFacts ==
  ASSUME SimInv, fault = "None", sim.active
  PROVE  /\ Serving /\ sim.exists = TRUE /\ sim.report
         /\ IsSim(sim) /\ SimRec(sim) /\ IsSim(Running) /\ SimRec(Running) /\ Keeps(Running, sim)
         /\ Running.active = FALSE /\ Running.op = "None" /\ Running.report = sim.report
         /\ Running.status = sim.status /\ Running.error = sim.error
         /\ card \in [Slots -> Texts \cup {Empty}] /\ store \in [Ids -> EntryRec] /\ StoreInv
         /\ OpShape /\ SelInv /\ FailInv /\ DelInv /\ WriteInv /\ EnumInv
  <1>1. Serving
    BY DEF SimInv, ServeInv, Serving
  <1>2. IsSim(sim) /\ SimRec(sim)
    BY <1>1, ServingFacts
  <1>3. sim.exists = TRUE
    BY <1>1, <1>2 DEF Serving, SimRec
  <1>4. OpShape /\ SelInv /\ FailInv /\ DelInv /\ WriteInv /\ EnumInv
    BY DEF SimInv, ServedInv
  <1>5. /\ sim.report /\ card \in [Slots -> Texts \cup {Empty}] /\ store \in [Ids -> EntryRec]
        /\ StoreInv
    BY <1>1, ServingFacts
  <1> QED BY <1>1, <1>2, <1>3, <1>4, <1>5, RunningFields

\* A step of the object; what it has to do with the request is shown for each.
LEMMA StepKeepsSimInv ==
  ASSUME SimInv, fault = "None", sim.active,
         UNCHANGED <<card, hidden, last, fault, mtm, request, changes>>,
         store' \in [Ids -> EntryRec], StoreInv',
         IsSim(sim'), SimRec(sim'), sim'.exists = sim.exists, sim'.active => sim'.report,
         sim'.type = sim.type \/ (sim.type = "MoveFrom" /\ sim'.type = "MovingEntries"),
         sim'.sel = sim.sel, sim'.written = sim.written,
         sim'.count = sim.count \/ sim.type \notin Selecting,
         \A k \in DOMAIN sim.sel : Unchanged(sim.sel[k]),
         sim'.type = "MovingEntries" => \A k \in DOMAIN sim.sel : store'[sim.sel[k]].slots = {},
         OpShape', LockShape', FailInv', DelInv', CopyInv', WriteInv', EnumInv'
  PROVE  SimInv'
  <1>1. Serving /\ sim.exists = TRUE /\ card \in [Slots -> Texts \cup {Empty}]
    BY RunFacts
  <1>2. SelInv'
    BY <1>1, SelectionStays
  <1>3. ServedInv'
    BY <1>2 DEF ServedInv
  <1>4. Command(sim'.type) = Command(sim.type) /\ card' \in [Slots -> Texts \cup {Empty}]
        /\ DOMAIN sim'.written = DOMAIN sim.written
    BY <1>1 DEF Command
  <1> QED BY <1>1, <1>3, <1>4, ServiceKeepsSimInv

\* Nothing happens to the store.
LEMMA StoreStays ==
  ASSUME SimInv, UNCHANGED <<store, hidden, last>>
  PROVE  /\ store' \in [Ids -> EntryRec] /\ StoreInv'
         /\ \A k \in DOMAIN sim.sel : Unchanged(sim.sel[k])
  BY DEF SimInv, Typed, TypeOK, StoreInv, Unchanged

\* The next message of the list comes into the folder.
LEMMA HoldsOneMore ==
  ASSUME NEW st \in [Ids -> EntryRec], NEW f, NEW l, NEW n \in Nat, NEW id \in Ids, NEW e,
         f # NoFolder, st[id] = NoEntry, Holds(st, f, l, n),
         e.folder = f, e.text = l[n + 1].text, e.slots = {l[n + 1].slot}
  PROVE  Holds([st EXCEPT ![id] = e], f, l, n + 1)
  <1> DEFINE st2 == [st EXCEPT ![id] = e]
  <1>1. st2[id] = e /\ \A i \in Ids : i # id => st2[i] = st[i]
    OBVIOUS
  <1>2. id \notin Inside(st, f) /\ Inside(st, f) \in SUBSET Ids
    BY DEF Inside, NoEntry
  <1>3. Inside(st2, f) = Inside(st, f) \cup {id} /\ \A i \in Inside(st, f) : st2[i] = st[i]
    <2> HIDE DEF st2
    <2> QED BY <1>1, <1>2 DEF Inside
  <1>4. Cardinality(Inside(st2, f)) = n + 1
    <2>1. IsFiniteSet(Inside(st, f))
      BY <1>2, SimAssumption, FS_Subset
    <2>2. Cardinality(Inside(st, f)) = n
      BY DEF Holds
    <2>3. Cardinality(Inside(st, f) \cup {id}) = Cardinality(Inside(st, f)) + 1
      BY <1>2, <2>1, FS_AddElement
    <2> QED BY <1>3, <2>2, <2>3
  <1>5. 1 .. n + 1 = (1 .. n) \cup {n + 1}
    OBVIOUS
  <1> HIDE DEF st2
  <1>6. {st2[i].text : i \in Inside(st2, f)} = {l[k].text : k \in 1 .. n + 1}
    <2>1. {st2[i].text : i \in Inside(st2, f)} = {st[i].text : i \in Inside(st, f)} \cup {e.text}
      BY <1>1, <1>3
    <2>2. {l[k].text : k \in 1 .. n + 1} = {l[k].text : k \in 1 .. n} \cup {l[n + 1].text}
      BY <1>5
    <2>3. {st[i].text : i \in Inside(st, f)} = {l[k].text : k \in 1 .. n}
      BY Zenon DEF Holds
    <2> QED BY <2>1, <2>2, <2>3
  <1>7. {st2[i].slots : i \in Inside(st2, f)} = {{l[k].slot} : k \in 1 .. n + 1}
    <2>1. {st2[i].slots : i \in Inside(st2, f)} = {st[i].slots : i \in Inside(st, f)} \cup {e.slots}
      <3>1. {st2[i].slots : i \in Inside(st, f) \cup {id}}
              = {st2[i].slots : i \in Inside(st, f)} \cup {st2[id].slots}
        OBVIOUS
      <3>2. {st2[i].slots : i \in Inside(st, f)} = {st[i].slots : i \in Inside(st, f)}
        BY <1>3
      <3> QED BY <1>1, <1>3, <3>1, <3>2
    <2>2. {{l[k].slot} : k \in 1 .. n + 1} = {{l[k].slot} : k \in 1 .. n} \cup {{l[n + 1].slot}}
      BY <1>5
    <2>3. {st[i].slots : i \in Inside(st, f)} = {{l[k].slot} : k \in 1 .. n}
      BY Zenon DEF Holds
    <2> QED BY <2>1, <2>2, <2>3
  <1>8. Holds(st2, f, l, n + 1)
    BY <1>4, <1>6, <1>7, Zenon DEF Holds
  <1> QED BY <1>8 DEF st2

\* A new entry takes an id that no selected message has.
LEMMA LowestIsFree ==
  ASSUME Free # {}
  PROVE  /\ Lowest(Free) \in Ids /\ store[Lowest(Free)] = NoEntry
         /\ \A k \in DOMAIN sim.sel : sim.sel[k] # Lowest(Free)
  <1>1. Free \subseteq Nat
    BY SimAssumption DEF Free
  <1>2. Lowest(Free) \in Free
    BY <1>1, LowestIsLeast
  <1>3. \A i \in Free : i \in Ids /\ store[i] = NoEntry /\ \A k \in DOMAIN sim.sel : sim.sel[k] # i
    BY DEF Free, Exists
  <1> QED BY <1>2, <1>3

LEMMA NewEntryKeepsStore ==
  ASSUME SimInv, Free # {}, FolderExists(sim.folder), UNCHANGED <<hidden, last>>,
         NEW e \in EntryRec, e.folder = sim.folder,
         store' = [store EXCEPT ![Lowest(Free)] = e]
  PROVE  /\ store' \in [Ids -> EntryRec] /\ StoreInv'
         /\ \A k \in DOMAIN sim.sel : Unchanged(sim.sel[k])
  <1>1. store \in [Ids -> EntryRec] /\ StoreInv /\ hidden \subseteq Hidden
    BY DEF SimInv, Typed, TypeOK
  <1>2. Lowest(Free) \in Ids /\ \A k \in DOMAIN sim.sel : sim.sel[k] # Lowest(Free)
    BY LowestIsFree
  <1>3. sim.folder # NoFolder /\ (sim.folder \in Hidden => sim.folder \in hidden)
    BY <1>1, SimAssumption DEF FolderExists, NoFolder
  <1> DEFINE id == Lowest(Free)
  <1>4. store' = [store EXCEPT ![id] = e] /\ id \in Ids
    BY <1>2
  <1> HIDE DEF id
  <1>5. store'[id] = e /\ \A i \in Ids : i # id => store'[i] = store[i]
    BY <1>1, <1>4
  <1>6. store' \in [Ids -> EntryRec]
    BY <1>1, <1>4
  <1>7. StoreInv'
    BY <1>1, <1>3, <1>5 DEF StoreInv
  <1>8. ASSUME NEW k \in DOMAIN sim.sel PROVE Unchanged(sim.sel[k])
    <2>1. sim.sel[k] # id
      BY <1>2 DEF id
    <2> QED BY <1>1, <1>4, <2>1 DEF Unchanged
  <1> QED BY <1>6, <1>7, <1>8

\* Nothing has failed when the object goes on with what has succeeded.
LEMMA NothingFailed ==
  ASSUME SimInv, fault = "None", NEW t, Runs(t), t # "ReadParams"
  PROVE  /\ sim.active /\ sim.type = t /\ sim.status = KErrNone /\ ~sim.failed
         /\ (GoesWell <=> ~request.touched)
  <1>1. sim.active /\ sim.type = t /\ sim.status = KErrNone
    BY DEF Runs
  <1>2. Serving /\ FailInv
    BY <1>1, RunFacts
  <1> QED BY <1>1, <1>2 DEF FailInv, GoesWell

LEMMA SimRetrievesKeepsSimInv ==
  ASSUME SimInv, fault = "None", SimRetrieves, UNCHANGED <<mtm, request, changes>>
  PROVE  SimInv'
  <1>1. /\ Runs("Enumerate") /\ sim.done < Len(sim.list) /\ UNCHANGED <<card, hidden, last, fault>>
    BY DEF SimRetrieves
  <1>2. sim.active /\ sim.type = "Enumerate" /\ sim.status = KErrNone /\ ~sim.failed
        /\ (GoesWell <=> ~request.touched)
    BY <1>1, NothingFailed
  <1>3. /\ Serving /\ sim.exists = TRUE /\ sim.report /\ IsSim(sim) /\ SimRec(sim)
        /\ IsSim(Running) /\ SimRec(Running) /\ Keeps(Running, sim)
        /\ Running.report = sim.report /\ Running.error = sim.error
        /\ store \in [Ids -> EntryRec] /\ OpShape /\ EnumInv
    BY <1>2, RunFacts
  <1>4. sim.done \in Nat /\ sim.list \in Seq([slot : Slots, text : Texts])
    BY <1>2, <1>3 DEF OpShape, SimRec
  <1> DEFINE next == sim.list[sim.done + 1]
  <1>5. next.slot \in Slots /\ next.text \in Texts /\ Len(sim.list) \in Nat
    <2> DEFINE R == [slot : Slots, text : Texts]
    <2> HIDE DEF R
    <2>0. sim.list \in Seq(R)
      BY <1>4 DEF R
    <2>1. sim.list[sim.done + 1] \in R /\ Len(sim.list) \in Nat
      BY <1>1, <1>4, <2>0
    <2> QED BY <2>1 DEF R
  <1>6. sim.folder \in Folders \cup {NoFolder}
    BY <1>3 DEF SimRec
  <1> HIDE DEF next
  <1>7. ASSUME NEW t \in Texts \cup {NoText}, NEW s \in SUBSET Slots
        PROVE  [folder |-> sim.folder, text |-> t, slots |-> s] \in EntryRec
    BY <1>6 DEF EntryRec
  <1>8. /\ KErrNoMemory \in Errors /\ KErrNotFound \in Errors
        /\ KErrNoMemory # KErrNone /\ KErrNotFound # KErrNone
    BY DEF Errors, KErrNoMemory, KErrNotFound, KErrNone
  <1>9. Keeps(Running, sim) => /\ Running.exists = sim.exists /\ Running.type = sim.type
                               /\ Running.sel = sim.sel /\ Running.count = sim.count
                               /\ Running.written = sim.written
    BY DEF Keeps
  <1>10. CASE /\ Free = {} \/ ~FolderExists(sim.folder) \/ MayLeave
              /\ sim' = Left(Running, IF FolderExists(sim.folder) THEN KErrNoMemory
                                      ELSE KErrNotFound)
              /\ UNCHANGED store
    <2> DEFINE e == IF FolderExists(sim.folder) THEN KErrNoMemory ELSE KErrNotFound
    <2>1. e \in Errors /\ e # KErrNone /\ sim' = Left(Running, e)
      BY <1>8, <1>10
    <2>2. /\ store' \in [Ids -> EntryRec] /\ StoreInv'
          /\ \A k \in DOMAIN sim.sel : Unchanged(sim.sel[k])
      BY <1>1, <1>10, StoreStays
    <2> HIDE DEF e
    <2> QED BY <1>1, <1>2, <1>3, <1>9, <2>1, <2>2, LeaveKeepsSimInv
  <1>11. CASE /\ Free # {} /\ FolderExists(sim.folder)
              /\ \E t \in {NoText, next.text} :
                   store' = [store EXCEPT ![Lowest(Free)] =
                               [Retrieved(t) EXCEPT !.slots = IF t = NoText THEN {} ELSE @]]
              /\ sim' = Left(Running, KErrNoMemory)
    <2>1. PICK t \in {NoText, next.text} :
            store' = [store EXCEPT ![Lowest(Free)] =
                        [Retrieved(t) EXCEPT !.slots = IF t = NoText THEN {} ELSE @]]
      BY <1>11
    <2> DEFINE s == IF t = NoText THEN {} ELSE {next.slot}
               e == [folder |-> sim.folder, text |-> t, slots |-> s]
    <2>2. [Retrieved(t) EXCEPT !.slots = IF t = NoText THEN {} ELSE @] = e
      BY DEF Retrieved, next
    <2>3. e \in EntryRec
      <3>1. s \in SUBSET Slots /\ t \in Texts \cup {NoText}
        BY <1>5
      <3> QED BY <1>7, <3>1
    <2>4. e.folder = sim.folder /\ store' = [store EXCEPT ![Lowest(Free)] = e]
      BY <2>1, <2>2
    <2> HIDE DEF e
    <2>5. /\ store' \in [Ids -> EntryRec] /\ StoreInv'
          /\ \A k \in DOMAIN sim.sel : Unchanged(sim.sel[k])
      BY <1>1, <1>11, <2>3, <2>4, NewEntryKeepsStore
    <2> QED BY <1>1, <1>2, <1>3, <1>8, <1>9, <1>11, <2>5, LeaveKeepsSimInv
  <1>12. CASE /\ Free # {} /\ FolderExists(sim.folder)
              /\ store' = [store EXCEPT ![Lowest(Free)] = Retrieved(next.text)]
              /\ sim' = WaitsFor([Running EXCEPT !.done = @ + 1, !.count = Len(sim.list)],
                                 "ReadNext")
    <2> DEFINE e == Retrieved(next.text)
               u == [Running EXCEPT !.done = @ + 1, !.count = Len(sim.list)]
    <2>1. e = [folder |-> sim.folder, text |-> next.text, slots |-> {next.slot}]
      BY DEF Retrieved, next
    <2>2. e \in EntryRec
      BY <1>5, <1>7, <2>1
    <2>3. e.folder = sim.folder /\ e.text = next.text /\ e.slots = {next.slot}
          /\ store' = [store EXCEPT ![Lowest(Free)] = e]
      BY <1>12, <2>1
    <2>4. /\ IsSim(u) /\ u.done = Running.done + 1 /\ u.exists = Running.exists
          /\ u.type = Running.type /\ u.state = Running.state /\ u.sel = Running.sel
          /\ u.folder = Running.folder /\ u.list = Running.list /\ u.written = Running.written
          /\ u.failed = Running.failed /\ u.report = Running.report /\ u.error = Running.error
      BY <1>3, FieldNames DEF IsSim
    <2>5. SimRec(u)
      <3>1. Running.done + 1 \in Int
        BY <1>3 DEF SimRec
      <3> QED BY <1>3, <1>5, <3>1, FieldNames DEF IsSim, SimRec
    <2> HIDE DEF e, u
    <2>6. /\ IsSim(sim') /\ SimRec(sim') /\ Keeps(sim', u)
          /\ sim'.active = TRUE /\ sim'.status = KRequestPending
          /\ sim'.op = "ReadNext" /\ sim'.report = u.report /\ sim'.error = u.error
      <3>1. sim' = WaitsFor(u, "ReadNext")
        BY <1>12 DEF u
      <3>2. "ReadNext" \in CardOps \cup StoreOps
        BY DEF CardOps
      <3>3. IsSim(u) /\ SimRec(u)
        BY <2>4, <2>5
      <3> QED BY <3>1, <3>2, <3>3, WaitingFields
    <2>7. /\ sim'.done = sim.done + 1 /\ sim'.exists = sim.exists /\ sim'.type = sim.type
          /\ sim'.state = sim.state /\ sim'.sel = sim.sel /\ sim'.folder = sim.folder
          /\ sim'.list = sim.list /\ sim'.written = sim.written /\ sim'.failed = sim.failed
          /\ sim'.report = sim.report /\ sim'.error = sim.error
      BY <1>3, <2>4, <2>6 DEF Keeps
    <2>8. /\ store' \in [Ids -> EntryRec] /\ StoreInv'
          /\ \A k \in DOMAIN sim.sel : Unchanged(sim.sel[k])
      BY <1>1, <1>12, <2>2, <2>3, NewEntryKeepsStore
    <2>9. EnumInv'
      <3>1. SUFFICES ASSUME ~request.touched
                     PROVE  EnumInv'
        BY DEF EnumInv, GoesWell
      <3>2. /\ sim.folder # NoFolder /\ Distinct(sim.list)
            /\ Holds(store, sim.folder, sim.list, sim.done)
        BY <1>2, <1>3, <3>1 DEF EnumInv
      <3>3. Lowest(Free) \in Ids /\ store[Lowest(Free)] = NoEntry
        BY <1>12, LowestIsFree
      <3>4. Holds(store', sim.folder, sim.list, sim.done + 1)
        BY <1>3, <1>4, <2>3, <3>2, <3>3, HoldsOneMore DEF next
      <3>5. sim.done + 1 \in 0 .. Len(sim.list)
        BY <1>1, <1>4, <1>5
      <3>6. Holds(store', sim'.folder, sim'.list, sim'.done)
        BY <2>7, <3>4
      <3> QED BY <2>6, <2>7, <3>2, <3>5, <3>6 DEF EnumInv
    <2>10. OpShape' /\ LockShape' /\ FailInv' /\ DelInv' /\ CopyInv' /\ WriteInv'
      <3>1. sim.done + 1 \in Nat /\ sim.state # "DeleteEach"
        BY <1>2, <1>3, <1>4 DEF OpShape
      <3> QED BY <1>2, <2>6, <2>7, <3>1
                DEF OpShape, LockShape, FailInv, DelInv, CopyInv, WriteInv, GoesWell
    <2>11. sim.type \notin Selecting
      BY <1>2 DEF Selecting
    <2> QED BY <1>1, <1>2, <1>3, <2>6, <2>7, <2>8, <2>9, <2>10, <2>11, StepKeepsSimInv
  <1> QED BY <1>10, <1>11, <1>12 DEF SimRetrieves, next

\* The object has done all there is to do for its request.
LEMMA LastStepKeepsSimInv ==
  ASSUME SimInv, fault = "None", sim.active, sim.status = KErrNone,
         UNCHANGED <<card, hidden, last, fault, mtm, request, changes>>,
         store' \in [Ids -> EntryRec], StoreInv',
         NEW s, IsSim(s), SimRec(s), s.exists = sim.exists, s.type = sim.type, s.sel = sim.sel,
         s.count = sim.count, s.written = sim.written, s.failed = sim.failed, s.error = sim.error,
         sim' = Done(s, KErrNone),
         \A k \in DOMAIN sim.sel : Unchanged(sim.sel[k]),
         sim.type = "MovingEntries" => \A k \in DOMAIN sim.sel : store'[sim.sel[k]].slots = {},
         DelInv', CopyInv', WriteInv', EnumInv'
  PROVE  SimInv'
  <1>1. KErrNone \in Errors
    BY DEF Errors
  <1>2. /\ IsSim(sim') /\ SimRec(sim') /\ Keeps(sim', s) /\ sim'.active = FALSE
        /\ sim'.error = IF KErrNone # KErrNone THEN KErrNone ELSE s.error
    BY <1>1, DoneFields
  <1>3. /\ sim'.exists = sim.exists /\ sim'.type = sim.type /\ sim'.sel = sim.sel
        /\ sim'.count = sim.count /\ sim'.written = sim.written /\ sim'.failed = sim.failed
        /\ sim'.error = sim.error
    BY <1>2 DEF Keeps
  <1>4. sim.failed => sim.error # KErrNone
    <2>1. Serving /\ FailInv
      BY RunFacts
    <2> QED BY <2>1 DEF FailInv
  <1>5. OpShape' /\ LockShape' /\ FailInv'
    BY <1>2, <1>3, <1>4 DEF OpShape, LockShape, FailInv
  <1> QED BY <1>2, <1>3, <1>5, StepKeepsSimInv

LEMMA RunsFacts ==
  ASSUME NEW t, Runs(t)
  PROVE  sim.active /\ sim.type = t /\ sim.status = KErrNone
  BY DEF Runs

\* What the object is in its RunL, as LastStepKeepsSimInv asks for it.
LEMMA RunningIsSame ==
  ASSUME SimInv, fault = "None", sim.active
  PROVE  /\ IsSim(Running) /\ SimRec(Running) /\ Running.exists = sim.exists
         /\ Running.type = sim.type /\ Running.sel = sim.sel /\ Running.count = sim.count
         /\ Running.written = sim.written /\ Running.failed = sim.failed
         /\ Running.error = sim.error /\ Running.done = sim.done /\ Running.folder = sim.folder
         /\ Running.list = sim.list /\ Running.state = sim.state /\ Running.dest = sim.dest
         /\ Running.rcptCount = sim.rcptCount /\ Running.rcptIndex = sim.rcptIndex
         /\ Running.slots = sim.slots /\ Running.completed = sim.completed
         /\ Running.reading = sim.reading /\ Running.report = sim.report
         /\ Running.active = FALSE /\ Running.status = sim.status
  BY RunFacts DEF Keeps

\* The fields that Done leaves alone.
LEMMA DoneIsSame ==
  ASSUME NEW s, IsSim(s), SimRec(s)
  PROVE  LET t == Done(s, KErrNone)
         IN  /\ t.exists = s.exists /\ t.type = s.type /\ t.sel = s.sel /\ t.count = s.count
             /\ t.written = s.written /\ t.error = s.error /\ t.done = s.done
             /\ t.folder = s.folder /\ t.list = s.list /\ t.active = FALSE
             /\ t.completed = s.completed
  <1>1. KErrNone \in Errors
    BY DEF Errors
  <1>2. /\ Keeps(Done(s, KErrNone), s) /\ Done(s, KErrNone).active = FALSE
        /\ Done(s, KErrNone).error = IF KErrNone # KErrNone THEN KErrNone ELSE s.error
    BY <1>1, DoneFields
  <1> QED BY <1>2 DEF Keeps

LEMMA SimHasEnumeratedKeepsSimInv ==
  ASSUME SimInv, fault = "None", SimHasEnumerated, UNCHANGED <<mtm, request, changes>>
  PROVE  SimInv'
  <1>1. /\ Runs("Enumerate") /\ sim.done >= Len(sim.list) /\ sim' = Done(Running, KErrNone)
        /\ UNCHANGED <<card, store, hidden, last, fault>>
    BY DEF SimHasEnumerated
  <1>2. sim.active /\ sim.type = "Enumerate" /\ sim.status = KErrNone
    BY <1>1, RunsFacts
  <1>3. Serving /\ EnumInv /\ IsSim(Running) /\ SimRec(Running)
    BY <1>2, RunFacts
  <1>4. /\ sim'.type = "Enumerate" /\ sim'.error = sim.error /\ sim'.done = sim.done
        /\ sim'.folder = sim.folder /\ sim'.list = sim.list /\ sim'.active = FALSE
    BY <1>1, <1>2, <1>3, DoneIsSame, RunningIsSame
  <1>5. EnumInv'
    <2>1. SUFFICES ASSUME ~request.touched
                   PROVE  EnumInv'
      BY <1>1 DEF EnumInv, GoesWell
    <2>2. /\ sim.folder # NoFolder /\ sim.done \in 0 .. Len(sim.list) /\ Distinct(sim.list)
          /\ Holds(store, sim.folder, sim.list, sim.done)
      BY <1>2, <1>3, <2>1 DEF EnumInv, GoesWell
    <2>3. sim.done = Len(sim.list)
      <3>1. sim.list \in Seq([slot : Slots, text : Texts])
        BY <1>2, RunFacts DEF SimRec
      <3>2. Len(sim.list) \in Nat
        BY <3>1
      <3> QED BY <1>1, <2>2, <3>2
    <2>4. Holds(store', sim'.folder, sim'.list, sim'.done)
      BY <1>1, <1>4, <2>2
    <2> QED BY <1>4, <2>2, <2>3, <2>4 DEF EnumInv
  <1>6. DelInv' /\ CopyInv' /\ WriteInv'
    BY <1>4 DEF DelInv, CopyInv, WriteInv
  <1>7. /\ store' \in [Ids -> EntryRec] /\ StoreInv'
        /\ \A k \in DOMAIN sim.sel : Unchanged(sim.sel[k])
    BY <1>1, StoreStays
  <1> QED BY <1>1, <1>2, <1>5, <1>6, <1>7, RunningIsSame, LastStepKeepsSimInv

LEMMA SimHasMovedKeepsSimInv ==
  ASSUME SimInv, fault = "None", UNCHANGED <<mtm, request, changes>>,
         SimHasMoved \/ SimHasParams
  PROVE  SimInv'
  <1>1. /\ Runs("MovingEntries") \/ Runs("ReadParams") \/ Runs("WriteParams")
        /\ sim' = Done(Running, KErrNone) /\ UNCHANGED <<card, store, hidden, last, fault>>
    BY DEF SimHasMoved, SimHasParams
  <1>2. /\ sim.active /\ sim.type \in {"MovingEntries", "ReadParams", "WriteParams"}
        /\ sim.status = KErrNone
    BY <1>1, RunsFacts
  <1>3. Serving /\ SelInv /\ IsSim(Running) /\ SimRec(Running)
    BY <1>2, RunFacts
  <1>4. sim'.type = sim.type
    BY <1>1, <1>2, <1>3, DoneIsSame, RunningIsSame
  <1>5. DelInv' /\ CopyInv' /\ WriteInv' /\ EnumInv'
    BY <1>2, <1>4 DEF DelInv, CopyInv, WriteInv, EnumInv
  <1>6. /\ store' \in [Ids -> EntryRec] /\ StoreInv'
        /\ \A k \in DOMAIN sim.sel : Unchanged(sim.sel[k])
    BY <1>1, StoreStays
  <1>7. sim.type = "MovingEntries" => \A k \in DOMAIN sim.sel : store'[sim.sel[k]].slots = {}
    BY <1>1, <1>3 DEF SelInv
  <1> QED BY <1>1, <1>2, <1>5, <1>6, <1>7, RunningIsSame, LastStepKeepsSimInv

\* A copy or a move to the SIM that goes on.
LEMMA ToSimFacts ==
  ASSUME SimInv, fault = "None", IsToSim
  PROVE  /\ sim.active /\ sim.type \in {"CopyTo", "MoveTo"} /\ sim.status = KErrNone
         /\ ~sim.failed /\ (GoesWell <=> ~request.touched)
         /\ sim.done \in 0 .. sim.count - 1 /\ sim.count \in Nat /\ DOMAIN sim.sel = 1 .. sim.count
         /\ \A k \in 1 .. sim.count : sim.sel[k] \in Ids
         /\ sim.rcptCount \in Nat /\ sim.rcptIndex \in Nat /\ sim.state # "DeleteEach"
         /\ DOMAIN sim.written = DOMAIN sim.sel
         /\ sim.state = "UpdatingClass2" => Class2Folder # NoFolder
         /\ \A k \in 1 .. sim.count : store[sim.sel[k]] # NoEntry =>
                                         store[sim.sel[k]].text = request.before[k].text
         /\ NextDone(sim) \in {sim.done, sim.done + 1}
         /\ NextDone(Running) = NextDone(sim)
  <1>1. /\ sim.active /\ sim.type \in {"CopyTo", "MoveTo"} /\ sim.status = KErrNone
        /\ ~sim.failed /\ (GoesWell <=> ~request.touched)
    <2>1. CASE Runs("CopyTo")
      BY <2>1, NothingFailed
    <2>2. CASE Runs("MoveTo")
      BY <2>2, NothingFailed
    <2> QED BY <2>1, <2>2 DEF IsToSim
  <1>2. Serving /\ OpShape /\ SelInv /\ SimRec(sim)
    BY <1>1, RunFacts
  <1>3. /\ sim.done \in 0 .. sim.count - 1 /\ sim.state # "DeleteEach"
        /\ sim.state = "UpdatingClass2" => Class2Folder # NoFolder
    BY <1>1, <1>2 DEF OpShape, StoreOps
  <1>4. /\ sim.count = Len(sim.sel) /\ Len(sim.sel) \in Nat /\ DOMAIN sim.sel = 1 .. Len(sim.sel)
        /\ \A k \in 1 .. Len(sim.sel) : sim.sel[k] \in Ids
        /\ DOMAIN sim.written = DOMAIN sim.sel
    BY <1>1, <1>2, ServingFacts DEF Selecting
  <1>5. \A k \in DOMAIN sim.sel : store[sim.sel[k]] # NoEntry =>
                                    store[sim.sel[k]].text = request.before[k].text
    BY <1>2 DEF SelInv
  <1>6. sim.rcptCount \in Nat /\ sim.rcptIndex \in Nat
    BY <1>2 DEF SimRec
  <1>7. Running.rcptCount = sim.rcptCount /\ Running.done = sim.done
    BY <1>1, RunningIsSame
  <1>8. NextDone(Running) = NextDone(sim) /\ NextDone(sim) \in {sim.done, sim.done + 1}
    BY <1>7 DEF NextDone
  <1> QED BY <1>1, <1>3, <1>4, <1>5, <1>6, <1>8

LEMMA SimHasWrittenKeepsSimInv ==
  ASSUME SimInv, fault = "None", SimHasWritten, UNCHANGED <<mtm, request, changes>>
  PROVE  SimInv'
  <1> DEFINE s == [Running EXCEPT !.done = NextDone(sim)]
  <1>1. /\ IsToSim /\ NextDone(sim) >= sim.count /\ sim' = Done(s, KErrNone)
        /\ UNCHANGED <<card, store, hidden, last, fault>>
    BY DEF SimHasWritten
  <1>2. /\ sim.active /\ sim.type \in {"CopyTo", "MoveTo"} /\ sim.status = KErrNone
        /\ (GoesWell <=> ~request.touched)
        /\ sim.done \in 0 .. sim.count - 1 /\ sim.count \in Nat /\ DOMAIN sim.sel = 1 .. sim.count
        /\ NextDone(sim) \in {sim.done, sim.done + 1}
    BY <1>1, ToSimFacts
  <1>3. IsSim(Running) /\ SimRec(Running) /\ WriteInv
    BY <1>2, RunFacts
  <1>4. /\ IsSim(s) /\ s.exists = Running.exists /\ s.type = Running.type /\ s.sel = Running.sel
        /\ s.count = Running.count /\ s.written = Running.written /\ s.failed = Running.failed
        /\ s.error = Running.error /\ s.done = NextDone(sim)
    BY <1>3, FieldNames DEF IsSim
  <1>5. SimRec(s)
    <2>1. NextDone(sim) \in Int
      BY <1>2
    <2> QED BY <1>3, <2>1, FieldNames DEF IsSim, SimRec
  <1>6. /\ s.exists = sim.exists /\ s.type = sim.type /\ s.sel = sim.sel /\ s.count = sim.count
        /\ s.written = sim.written /\ s.failed = sim.failed /\ s.error = sim.error
    BY <1>2, <1>4, RunningIsSame
  <1>7. NextDone(sim) = sim.done + 1 /\ sim.done + 1 = sim.count /\ sim.rcptCount = 0
    BY <1>1, <1>2 DEF NextDone
  <1> HIDE DEF s
  <1>8. /\ sim'.type = sim.type /\ sim'.error = sim.error /\ sim'.done = sim.done + 1
        /\ sim'.sel = sim.sel /\ sim'.count = sim.count /\ sim'.written = sim.written
        /\ sim'.active = FALSE
    BY <1>1, <1>4, <1>5, <1>6, <1>7, DoneIsSame
  <1>9. WriteInv'
    <2>1. SUFFICES ASSUME ~request.touched
                   PROVE  WriteInv'
      BY DEF WriteInv, GoesWell
    <2>2. /\ \A k \in 1 .. sim.done : sim.written[k] = Times(k)
          /\ sim.written[sim.done + 1] + 0 = Times(sim.done + 1)
      <3>1. sim.done + 1 \in DOMAIN sim.sel
        BY <1>2
      <3> QED BY <1>2, <1>3, <1>7, <2>1, <3>1 DEF WriteInv
    <2>3. Times(sim.done + 1) \in Int => \A k \in 1 .. sim.done + 1 : sim.written[k] = Times(k)
      <3>1. sim.written[sim.done + 1] \in Int
        <4>1. sim.written \in Seq(Nat) /\ sim.done + 1 \in DOMAIN sim.written
          BY <1>1, <1>2, RunFacts, ToSimFacts DEF SimRec
        <4> QED BY <4>1
      <3> QED BY <1>2, <2>2, <3>1
    <2>4. Times(sim.done + 1) \in Int
      <3>1. sim.written[sim.done + 1] \in Int
        <4>1. sim.written \in Seq(Nat) /\ sim.done + 1 \in DOMAIN sim.written
          BY <1>1, <1>2, RunFacts, ToSimFacts DEF SimRec
        <4> QED BY <4>1
      <3> QED BY <2>2, <3>1
    <2>5. \A k : Times(k)' = Times(k)
      BY DEF Times
    <2>6. sim.done + 1 + 1 \notin 1 .. sim.count /\ \A k \in 1 .. sim.count : ~(k > sim.done + 1 + 1)
      BY <1>2, <1>7
    <2> QED BY <1>2, <1>7, <1>8, <2>3, <2>4, <2>5, <2>6 DEF WriteInv
  <1>10. DelInv' /\ CopyInv' /\ EnumInv'
    BY <1>2, <1>8 DEF DelInv, CopyInv, EnumInv
  <1>11. /\ store' \in [Ids -> EntryRec] /\ StoreInv'
         /\ \A k \in DOMAIN sim.sel : Unchanged(sim.sel[k])
    BY <1>1, StoreStays
  <1> QED BY <1>1, <1>2, <1>4, <1>5, <1>6, <1>9, <1>10, <1>11, LastStepKeepsSimInv

\* The progress of the copies when the next one is asked for.
LEMMA NextCopy ==
  ASSUME SimInv, fault = "None", IsToSim, ~request.touched, NextDone(sim) < sim.count,
         store[sim.sel[NextDone(sim) + 1]] # NoEntry,
         store[sim.sel[NextDone(sim) + 1]].text \in Texts
  PROVE  LET d == NextDone(sim)
             n == TimesToWrite(sim)
             r == TimeOfWrite(sim)
         IN  /\ \A k \in 1 .. d : sim.written[k] = Times(k)
             /\ \A k \in DOMAIN sim.sel : k > d + 1 => sim.written[k] = 0
             /\ n \in Nat /\ sim.written[d + 1] + 1 = r
             /\ r >= n => r = Times(d + 1)
             /\ r < n => n = Times(d + 1) /\ r \in 1 .. n - 1
  <1> DEFINE d == NextDone(sim)
             n == TimesToWrite(sim)
             r == TimeOfWrite(sim)
  <1>1. /\ sim.active /\ sim.type \in {"CopyTo", "MoveTo"} /\ sim.status = KErrNone /\ GoesWell
        /\ sim.done \in 0 .. sim.count - 1 /\ sim.count \in Nat /\ DOMAIN sim.sel = 1 .. sim.count
        /\ sim.rcptCount \in Nat /\ sim.rcptIndex \in Nat /\ DOMAIN sim.written = DOMAIN sim.sel
        /\ \A k \in 1 .. sim.count : store[sim.sel[k]] # NoEntry =>
                                         store[sim.sel[k]].text = request.before[k].text
    BY ToSimFacts
  <1>2. WriteInv
    BY <1>1, RunFacts
  <1>3. /\ \A k \in 1 .. sim.done : sim.written[k] = Times(k)
        /\ \A k \in DOMAIN sim.sel : k > sim.done + 1 => sim.written[k] = 0
        /\ sim.written[sim.done + 1] + 0 = IF sim.rcptCount = 0 THEN Times(sim.done + 1) ELSE sim.rcptIndex
        /\ sim.rcptCount # 0 => /\ sim.rcptCount = Times(sim.done + 1)
                                /\ sim.rcptIndex \in 1 .. sim.rcptCount - 1
    <2>1. sim.done + 1 \in DOMAIN sim.sel
      BY <1>1
    <2> QED BY <1>1, <1>2, <2>1 DEF WriteInv
  <1>4. \A k \in DOMAIN sim.sel : sim.written[k] \in Nat
    <2>1. sim.written \in Seq(Nat)
      BY <1>1, RunFacts DEF SimRec
    <2>2. \A f \in Seq(Nat) : \A k \in DOMAIN f : f[k] \in Nat
      OBVIOUS
    <2> QED BY <1>1, <2>1, <2>2
  <1>5. CASE sim.rcptCount = 0
    <2>1. d = sim.done + 1 /\ d + 1 \in DOMAIN sim.sel /\ sim.done + 1 \in DOMAIN sim.sel
      BY <1>1, <1>5 DEF NextDone
    <2>2. n = Recipients[store[sim.sel[d + 1]].text] /\ r = 1
      BY <1>5 DEF TimesToWrite, TimeOfWrite
    <2>3. n \in Nat
      BY <2>2, SimAssumption
    <2>4. Times(d + 1) = IF n = 0 THEN 1 ELSE n
      <3>1. store[sim.sel[d + 1]].text = request.before[d + 1].text
        BY <1>1, <2>1
      <3> QED BY <2>2, <3>1 DEF Times
    <2>5. sim.written[d + 1] = 0 /\ sim.written[sim.done + 1] = Times(sim.done + 1)
      <3>1. d + 1 > sim.done + 1
        BY <1>1, <2>1
      <3>2. sim.written[sim.done + 1] \in Nat
        BY <1>4, <2>1
      <3> QED BY <1>3, <1>5, <2>1, <3>1, <3>2
    <2>6. \A k \in 1 .. d : k \in 1 .. sim.done \/ k = sim.done + 1
      BY <1>1, <2>1
    <2>7. \A k \in DOMAIN sim.sel : k > d + 1 => k > sim.done + 1
      BY <1>1, <2>1
    <2> HIDE DEF d, n, r
    <2>8. /\ r >= n => r = Times(d + 1)
          /\ r < n => n = Times(d + 1) /\ r \in 1 .. n - 1
      BY <2>2, <2>3, <2>4
    <2>9. sim.written[d + 1] + 1 = r
      BY <2>2, <2>5
    <2>10. \A k \in 1 .. d : sim.written[k] = Times(k)
      BY <1>3, <2>5, <2>6
    <2>11. \A k \in DOMAIN sim.sel : k > d + 1 => sim.written[k] = 0
      BY <1>3, <2>7
    <2> QED BY <2>3, <2>8, <2>9, <2>10, <2>11 DEF d, n, r
  <1>6. CASE sim.rcptCount # 0
    <2>1. d = sim.done /\ sim.done + 1 \in DOMAIN sim.sel
      BY <1>1, <1>6 DEF NextDone
    <2>2. n = sim.rcptCount /\ r = sim.rcptIndex + 1
      BY <1>6 DEF TimesToWrite, TimeOfWrite
    <2>3. sim.written[sim.done + 1] = sim.rcptIndex
      <3>1. sim.written[sim.done + 1] \in Nat
        BY <1>4, <2>1
      <3> QED BY <1>3, <1>6, <3>1
    <2>4. n = Times(d + 1) /\ sim.rcptIndex \in 1 .. n - 1
      BY <1>3, <1>6, <2>1, <2>2
    <2> HIDE DEF d, n, r
    <2>5. n \in Nat /\ r >= 1 /\ r <= n /\ r \in Nat
      BY <1>1, <2>2, <2>4
    <2> QED BY <1>3, <2>1, <2>2, <2>3, <2>4, <2>5 DEF d, n, r
  <1> QED BY <1>5, <1>6

LEMMA SimWritesKeepsSimInv ==
  ASSUME SimInv, fault = "None", SimWrites, UNCHANGED <<mtm, request, changes>>
  PROVE  SimInv'
  <1> DEFINE d == NextDone(sim)
             i == sim.sel[d + 1]
             s == [Running EXCEPT !.done = d]
  <1>1. IsToSim /\ Writes(Running)
    BY DEF SimWrites
  <1>2. /\ sim.active /\ sim.type \in {"CopyTo", "MoveTo"} /\ sim.status = KErrNone /\ ~sim.failed
        /\ sim.done \in 0 .. sim.count - 1 /\ sim.count \in Nat /\ DOMAIN sim.sel = 1 .. sim.count
        /\ \A k \in 1 .. sim.count : sim.sel[k] \in Ids
        /\ d \in {sim.done, sim.done + 1} /\ NextDone(Running) = d
    BY <1>1, ToSimFacts
  <1>3. /\ Serving /\ IsSim(Running) /\ SimRec(Running) /\ sim.report /\ sim.exists = TRUE
        /\ store \in [Ids -> EntryRec]
    BY <1>2, RunFacts
  <1>4. /\ Running.exists = sim.exists /\ Running.type = sim.type /\ Running.sel = sim.sel
        /\ Running.count = sim.count /\ Running.written = sim.written
        /\ Running.failed = sim.failed /\ Running.error = sim.error /\ Running.report = sim.report
        /\ Running.rcptCount = sim.rcptCount /\ Running.rcptIndex = sim.rcptIndex
    BY <1>2, RunningIsSame
  <1>5. d < sim.count /\ UNCHANGED <<card, store, hidden, last, fault>>
        /\ \/ Exists(i) /\ ~Unreadable(i) /\ sim' = WriteNext(Running)
           \/ \E e \in {KErrNotFound, KErrNoMemory} : sim' = Left(s, e)
    <2> HIDE DEF d
    <2> QED BY <1>1, <1>2, <1>4 DEF Writes
  <1>6. d + 1 \in DOMAIN sim.sel /\ d \in 0 .. sim.count - 1 /\ d \in Int
    BY <1>2, <1>5
  <1>7. /\ store' \in [Ids -> EntryRec] /\ StoreInv'
        /\ \A k \in DOMAIN sim.sel : Unchanged(sim.sel[k])
    BY <1>5, StoreStays
  <1> HIDE DEF d
  <1>8. ASSUME NEW e \in {KErrNotFound, KErrNoMemory}, sim' = Left(s, e)
        PROVE  SimInv'
    <2>1. /\ IsSim(s) /\ s.exists = Running.exists /\ s.type = Running.type
          /\ s.sel = Running.sel /\ s.count = Running.count /\ s.written = Running.written
      BY <1>3, FieldNames DEF IsSim
    <2>2. SimRec(s)
      BY <1>3, <1>6, FieldNames DEF IsSim, SimRec
    <2>3. e \in Errors /\ e # KErrNone
      BY <1>8 DEF Errors, KErrNotFound, KErrNoMemory, KErrNone
    <2>4. /\ s.exists = sim.exists /\ s.type = sim.type /\ s.sel = sim.sel
          /\ s.count = sim.count /\ s.written = sim.written
      BY <1>4, <2>1
    <2> HIDE DEF s
    <2>5. s.type # "MovingEntries"
      BY <1>2, <2>4
    <2> QED BY <1>2, <1>3, <1>5, <1>7, <1>8, <2>1, <2>2, <2>3, <2>4, <2>5, LeaveKeepsSimInv
  <1> HIDE DEF s
  <1>9. CASE Exists(i) /\ ~Unreadable(i) /\ sim' = WriteNext(Running)
    <2>1. i \in Ids /\ store[i] # NoEntry /\ store[i].text \in Texts
      <3>1. i \in Ids
        BY <1>2, <1>6
      <3> QED BY <1>3, <1>9, <3>1 DEF Exists, Unreadable, EntryRec
    <2> DEFINE n == TimesToWrite(sim)
               r == TimeOfWrite(sim)
    <2>2. TimesToWrite(Running) = n /\ TimeOfWrite(Running) = r
      BY <1>2, <1>4, Zenon DEF TimesToWrite, TimeOfWrite, d
    <2> HIDE DEF n, r
    <2>3. /\ IsSim(sim') /\ SimRec(sim') /\ sim'.active = TRUE /\ sim'.status = KRequestPending
          /\ sim'.op = "Write" /\ sim'.done = d
          /\ sim'.rcptCount = (IF r >= n THEN 0 ELSE n)
          /\ sim'.rcptIndex = (IF r >= n THEN 0 ELSE r)
          /\ sim'.state = "Writing" \/ (sim'.state = "UpdatingClass2" /\ Class2Folder # NoFolder)
          /\ sim'.exists = Running.exists /\ sim'.type = Running.type
          /\ sim'.report = Running.report /\ sim'.sel = Running.sel
          /\ sim'.count = Running.count /\ sim'.error = Running.error
          /\ sim'.written = Running.written /\ sim'.failed = Running.failed
      <3>1. /\ NextDone(Running) + 1 \in DOMAIN Running.sel
            /\ store[Running.sel[NextDone(Running) + 1]].text \in Texts
        BY <1>2, <1>4, <1>6, <2>1
      <3> QED BY <1>2, <1>3, <1>9, <2>2, <3>1, WriteNextFields
    <2>4. OpShape' /\ FailInv' /\ DelInv' /\ CopyInv' /\ EnumInv'
      BY <1>2, <1>4, <1>6, <2>3 DEF OpShape, FailInv, DelInv, CopyInv, EnumInv
    <2>5. LockShape'
      BY <1>4, <1>5, <2>1, <2>3 DEF LockShape
    <2>6. WriteInv'
      <3>1. SUFFICES ASSUME ~request.touched
                     PROVE  WriteInv'
        BY DEF WriteInv, GoesWell
      <3>2. /\ \A k \in 1 .. d : sim.written[k] = Times(k)
            /\ \A k \in DOMAIN sim.sel : k > d + 1 => sim.written[k] = 0
            /\ n \in Nat /\ sim.written[d + 1] + 1 = r
            /\ r >= n => r = Times(d + 1)
            /\ r < n => n = Times(d + 1) /\ r \in 1 .. n - 1
        BY <1>1, <1>5, <2>1, <3>1, NextCopy DEF d, n, r
      <3>3. \A k : Times(k)' = Times(k)
        BY DEF Times
      <3>4. sim.written[d + 1] + 1 = IF sim'.rcptCount = 0 THEN Times(d + 1) ELSE sim'.rcptIndex
        <4>1. CASE r >= n
          BY <2>3, <3>2, <4>1
        <4>2. CASE ~(r >= n)
          <5>1. sim.written[d + 1] \in Nat
            <6>1. sim.written \in Seq(Nat) /\ DOMAIN sim.written = DOMAIN sim.sel
              BY <1>1, <1>2, RunFacts, ToSimFacts DEF SimRec
            <6> QED BY <1>6, <6>1
          <5>2. r \in Nat /\ r < n
            BY <3>2, <4>2, <5>1
          <5>3. n # 0 /\ sim'.rcptCount = n /\ sim'.rcptIndex = r
            BY <2>3, <3>2, <4>2, <5>2
          <5> QED BY <3>2, <5>3
        <4> QED BY <4>1, <4>2
      <3>5. sim'.rcptCount # 0 => /\ sim'.rcptCount = Times(d + 1)
                                  /\ sim'.rcptIndex \in 1 .. sim'.rcptCount - 1
        <4>1. CASE r >= n
          BY <2>3, <4>1
        <4>2. CASE ~(r >= n)
          <5>1. sim.written[d + 1] \in Nat
            <6>1. sim.written \in Seq(Nat) /\ DOMAIN sim.written = DOMAIN sim.sel
              BY <1>1, <1>2, RunFacts, ToSimFacts DEF SimRec
            <6> QED BY <1>6, <6>1
          <5>2. r \in Nat /\ r < n
            BY <3>2, <4>2, <5>1
          <5> QED BY <2>3, <3>2, <4>2, <5>2
        <4> QED BY <4>1, <4>2
      <3>6. KRequestPending # KErrNone
        BY DEF KRequestPending, KErrNone
      <3> QED BY <1>4, <2>3, <3>2, <3>3, <3>4, <3>5, <3>6 DEF WriteInv
    <2>7. /\ sim'.exists = sim.exists /\ sim'.type = sim.type /\ sim'.sel = sim.sel
          /\ sim'.written = sim.written /\ sim'.count = sim.count /\ sim'.report
          /\ sim'.type # "MovingEntries"
      BY <1>2, <1>3, <1>4, <2>3
    <2> QED BY <1>2, <1>5, <1>7, <2>3, <2>4, <2>5, <2>6, <2>7, StepKeepsSimInv
  <1> QED BY <1>5, <1>8, <1>9

\* The header of an entry learns of slots of the SIM, or forgets them.
LEMMA HeaderKeepsStore ==
  ASSUME SimInv, UNCHANGED <<hidden, last>>, sim.type \notin {"Delete", "MovingEntries"},
         store' \in [Ids -> EntryRec],
         \A i \in Ids : \/ store'[i] = store[i]
                        \/ /\ store[i] # NoEntry /\ store'[i].text = store[i].text
                           /\ store'[i].folder = store[i].folder
  PROVE  /\ StoreInv'
         /\ \A k \in DOMAIN sim.sel : Unchanged(sim.sel[k])
  <1>1. StoreInv /\ \A k \in DOMAIN sim.sel : sim.sel[k] \in Ids
    <2>1. sim.sel \in Seq(Ids)
      BY DEF SimInv, Typed, TypeOK, SimRec
    <2> QED BY <2>1 DEF SimInv
  <1>2. StoreInv'
    <2>1. ASSUME NEW i \in Ids
          PROVE  /\ store'[i].folder = NoFolder => store'[i] = NoEntry
                 /\ store'[i].folder \in Hidden => store'[i].folder \in hidden
      BY <1>1 DEF StoreInv
    <2> QED BY <1>1, <2>1 DEF StoreInv
  <1>3. \A k \in DOMAIN sim.sel : Unchanged(sim.sel[k])
    BY <1>1 DEF Unchanged
  <1> QED BY <1>2, <1>3

LEMMA SimUpdatesClass2KeepsSimInv ==
  ASSUME SimInv, fault = "None", SimUpdatesClass2, UNCHANGED <<mtm, request, changes>>
  PROVE  SimInv'
  <1> DEFINE i == sim.sel[sim.done + 1]
             op == IF sim.type = "MoveTo" THEN "Class2Move" ELSE "Class2Copy"
             u == [Running EXCEPT !.state = "Writing"]
  <1>1. IsToSim /\ sim.state = "UpdatingClass2" /\ UpdatesClass2(Running)
    BY DEF SimUpdatesClass2
  <1>2. /\ sim.active /\ sim.type \in {"CopyTo", "MoveTo"} /\ sim.status = KErrNone /\ ~sim.failed
        /\ sim.done \in 0 .. sim.count - 1 /\ sim.count \in Nat /\ DOMAIN sim.sel = 1 .. sim.count
        /\ \A k \in 1 .. sim.count : sim.sel[k] \in Ids
        /\ Class2Folder # NoFolder
    BY <1>1, ToSimFacts
  <1>3. /\ Serving /\ IsSim(Running) /\ SimRec(Running) /\ sim.report /\ sim.exists = TRUE
        /\ store \in [Ids -> EntryRec] /\ SimRec(sim) /\ WriteInv
    BY <1>2, RunFacts
  <1>4. /\ Running.exists = sim.exists /\ Running.type = sim.type /\ Running.sel = sim.sel
        /\ Running.count = sim.count /\ Running.written = sim.written
        /\ Running.failed = sim.failed /\ Running.error = sim.error /\ Running.report = sim.report
        /\ Running.rcptCount = sim.rcptCount /\ Running.rcptIndex = sim.rcptIndex
        /\ Running.done = sim.done /\ Running.slots = sim.slots
    BY <1>2, RunningIsSame
  <1>5. /\ UNCHANGED <<card, hidden, last, fault>>
        /\ \/ Exists(i) /\ store' = [store EXCEPT ![i].slots = @ \cup sim.slots]
           \/ UNCHANGED store
        /\ \/ sim' = WaitsFor(u, op)
           \/ \E e \in {KErrNotFound, KErrNoMemory} : sim' = Left(Running, e)
    BY <1>1, <1>4 DEF UpdatesClass2
  <1>6. i \in Ids
    <2>1. sim.done + 1 \in 1 .. sim.count
      BY <1>2
    <2> QED BY <1>2, <2>1
  <1> HIDE DEF i
  <1>7. /\ store' \in [Ids -> EntryRec] /\ StoreInv'
        /\ \A k \in DOMAIN sim.sel : Unchanged(sim.sel[k])
    <2>1. CASE Exists(i) /\ store' = [store EXCEPT ![i].slots = @ \cup sim.slots]
      <3> DEFINE e == [store[i] EXCEPT !.slots = @ \cup sim.slots]
      <3>1. store[i] \in EntryRec /\ sim.slots \subseteq Slots
        BY <1>3, <1>6 DEF SimRec
      <3>2. e \in EntryRec /\ e.text = store[i].text /\ e.folder = store[i].folder
        BY <3>1 DEF EntryRec
      <3>3. store' = [store EXCEPT ![i] = e]
        BY <2>1
      <3> HIDE DEF e
      <3>4. store' \in [Ids -> EntryRec] /\ store'[i] = e /\ \A j \in Ids : j # i => store'[j] = store[j]
        BY <1>3, <1>6, <3>2, <3>3
      <3>5. sim.type \notin {"Delete", "MovingEntries"} /\ store[i] # NoEntry
        BY <1>2, <2>1 DEF Exists
      <3>6. \A j \in Ids : \/ store'[j] = store[j]
                           \/ /\ store[j] # NoEntry /\ store'[j].text = store[j].text
                              /\ store'[j].folder = store[j].folder
        BY <3>2, <3>4, <3>5
      <3> QED BY <1>5, <3>4, <3>5, <3>6, HeaderKeepsStore
    <2>2. CASE UNCHANGED store
      BY <1>5, <2>2, StoreStays
    <2> QED BY <1>5, <2>1, <2>2
  <1>8. ASSUME NEW e \in {KErrNotFound, KErrNoMemory}, sim' = Left(Running, e)
        PROVE  SimInv'
    <2>1. e \in Errors /\ e # KErrNone
      BY <1>8 DEF Errors, KErrNotFound, KErrNoMemory, KErrNone
    <2>2. Running.type # "MovingEntries"
      BY <1>2, <1>4
    <2> QED BY <1>2, <1>3, <1>4, <1>5, <1>7, <1>8, <2>1, <2>2, LeaveKeepsSimInv
  <1>9. CASE sim' = WaitsFor(u, op)
    <2>1. /\ IsSim(u) /\ u.exists = Running.exists /\ u.type = Running.type
          /\ u.sel = Running.sel /\ u.count = Running.count /\ u.written = Running.written
          /\ u.failed = Running.failed /\ u.error = Running.error /\ u.report = Running.report
          /\ u.rcptCount = Running.rcptCount /\ u.rcptIndex = Running.rcptIndex
          /\ u.done = Running.done /\ u.state = "Writing"
      BY <1>3, FieldNames DEF IsSim
    <2>2. SimRec(u)
      <3>1. "Writing" \in SimStates
        BY DEF SimStates
      <3> QED BY <1>3, <3>1, FieldNames DEF IsSim, SimRec
    <2> HIDE DEF u
    <2>3. op \in CardOps \cup StoreOps /\ op \in {"Class2Copy", "Class2Move"}
      BY DEF StoreOps
    <2> HIDE DEF op
    <2>4. /\ IsSim(sim') /\ SimRec(sim') /\ Keeps(sim', u)
          /\ sim'.active = TRUE /\ sim'.status = KRequestPending
          /\ sim'.op = op /\ sim'.report = u.report /\ sim'.error = u.error
      <3>1. IsSim(u) /\ SimRec(u)
        BY <2>1, <2>2
      <3>2. op \in CardOps \cup StoreOps
        BY <2>3
      <3> QED BY <1>9, <3>1, <3>2, WaitingFields
    <2>5. /\ sim'.exists = sim.exists /\ sim'.type = sim.type /\ sim'.sel = sim.sel
          /\ sim'.count = sim.count /\ sim'.written = sim.written /\ sim'.failed = sim.failed
          /\ sim'.error = sim.error /\ sim'.report = sim.report /\ sim'.done = sim.done
          /\ sim'.rcptCount = sim.rcptCount /\ sim'.rcptIndex = sim.rcptIndex
          /\ sim'.state = "Writing"
      BY <1>4, <2>1, <2>4 DEF Keeps
    <2>6. OpShape' /\ LockShape' /\ FailInv' /\ DelInv' /\ CopyInv' /\ EnumInv'
      BY <1>2, <2>3, <2>4, <2>5 DEF OpShape, LockShape, FailInv, DelInv, CopyInv, EnumInv
    <2>7. WriteInv'
      <3>1. SUFFICES ASSUME ~request.touched
                     PROVE  WriteInv'
        BY DEF WriteInv, GoesWell
      <3>2. \A k : Times(k)' = Times(k)
        BY DEF Times
      <3>3. GoesWell
        BY <1>2, <1>3, <3>1 DEF GoesWell
      <3> QED BY <1>2, <1>3, <2>3, <2>4, <2>5, <3>2, <3>3 DEF WriteInv
    <2>8. sim'.type # "MovingEntries" /\ sim'.report
      BY <1>2, <1>3, <2>5
    <2> QED BY <1>2, <1>5, <1>7, <2>4, <2>5, <2>6, <2>7, <2>8, StepKeepsSimInv
  <1> QED BY <1>5, <1>8, <1>9

LEMMA SimReadsParamsKeepsSimInv ==
  ASSUME SimInv, fault = "None", SimReadsParams, UNCHANGED <<mtm, request, changes>>
  PROVE  SimInv'
  <1>1. Runs("ReadParams") /\ UNCHANGED <<card, store, hidden, last, fault>>
    BY DEF SimReadsParams
  <1>2. sim.active /\ sim.type = "ReadParams" /\ sim.status = KErrNone
    BY <1>1, RunsFacts
  <1>3. PICK e \in {KErrNone, KErrNotFound, KErrNoMemory} : sim' = ReadParams(e)
    BY DEF SimReadsParams
  <1>4. /\ IsSim(Running) /\ SimRec(Running) /\ sim.exists = TRUE /\ sim.report
    BY <1>2, RunFacts
  <1> DEFINE b == (e # KErrNone)
             u == [Running EXCEPT !.reading = FALSE, !.error = e, !.failed = b]
  <1>5. e \in Errors /\ b \in BOOLEAN
    BY DEF Errors
  <1>6. sim' = WaitsFor(u, "CompleteRead")
    BY <1>3 DEF ReadParams
  <1> HIDE DEF b
  <1>7. /\ IsSim(u) /\ u.exists = Running.exists /\ u.type = Running.type
        /\ u.sel = Running.sel /\ u.count = Running.count /\ u.written = Running.written
        /\ u.failed = b /\ u.error = e /\ u.report = Running.report /\ u.reading = FALSE
        /\ u.state = Running.state
    BY <1>4, FieldNames DEF IsSim
  <1>8. SimRec(u)
    BY <1>4, <1>5, FieldNames DEF IsSim, SimRec
  <1> HIDE DEF u
  <1>9. /\ IsSim(sim') /\ SimRec(sim') /\ Keeps(sim', u)
        /\ sim'.active = TRUE /\ sim'.status = KRequestPending
        /\ sim'.op = "CompleteRead" /\ sim'.report = u.report /\ sim'.error = u.error
    <2>1. IsSim(u) /\ SimRec(u)
      BY <1>7, <1>8
    <2>2. "CompleteRead" \in CardOps \cup StoreOps
      BY DEF CardOps
    <2> QED BY <1>6, <2>1, <2>2, WaitingFields
  <1>10. /\ sim'.exists = sim.exists /\ sim'.type = sim.type /\ sim'.sel = sim.sel
         /\ sim'.count = sim.count /\ sim'.written = sim.written /\ sim'.failed = b
         /\ sim'.error = e /\ sim'.report = sim.report /\ sim'.reading = FALSE
         /\ sim'.state = sim.state
    BY <1>2, <1>7, <1>9, RunningIsSame DEF Keeps
  <1>11. sim.state # "DeleteEach"
    BY <1>2, RunFacts DEF OpShape
  <1>12. OpShape' /\ LockShape' /\ FailInv' /\ DelInv' /\ CopyInv' /\ WriteInv' /\ EnumInv'
    BY <1>2, <1>9, <1>10, <1>11
       DEF OpShape, LockShape, FailInv, DelInv, CopyInv, WriteInv, EnumInv, b
  <1>13. /\ store' \in [Ids -> EntryRec] /\ StoreInv'
         /\ \A k \in DOMAIN sim.sel : Unchanged(sim.sel[k])
    BY <1>1, StoreStays
  <1>14. sim'.type # "MovingEntries" /\ sim'.report
    BY <1>2, <1>4, <1>10
  <1> QED BY <1>1, <1>2, <1>9, <1>10, <1>12, <1>13, <1>14, StepKeepsSimInv

\* A request that deletes from the SIM and goes on with the next message.
GoesOn == \/ sim.status = KErrNone
          \/ sim.status # KRequestPending /\ Restarts

Deletes == sim.active /\ sim.type \in {"Delete", "MoveFrom"}

LEMMA DeleteFacts ==
  ASSUME SimInv, fault = "None", Deletes
  PROVE  /\ Serving /\ sim.done \in 0 .. sim.count /\ sim.count \in Nat
         /\ DOMAIN sim.sel = 1 .. sim.count /\ \A k \in 1 .. sim.count : sim.sel[k] \in Ids
         /\ sim.exists = TRUE /\ sim.report /\ store \in [Ids -> EntryRec]
         /\ IsSim(Running) /\ SimRec(Running)
         /\ sim.type = "MoveFrom" => sim.dest = "Inbox"
         /\ GoesOn => ~sim.failed
  <1>1. /\ Serving /\ OpShape /\ FailInv /\ sim.exists = TRUE /\ sim.report
        /\ store \in [Ids -> EntryRec] /\ IsSim(Running) /\ SimRec(Running)
    BY RunFacts DEF Deletes
  <1>2. sim.done \in 0 .. sim.count /\ (sim.type = "MoveFrom" => sim.dest = "Inbox")
    BY <1>1 DEF OpShape, Deletes
  <1>3. /\ sim.count = Len(sim.sel) /\ Len(sim.sel) \in Nat /\ DOMAIN sim.sel = 1 .. Len(sim.sel)
        /\ \A k \in 1 .. Len(sim.sel) : sim.sel[k] \in Ids
    BY <1>1, ServingFacts DEF Selecting, Deletes
  <1>4. GoesOn => ~sim.failed
    BY <1>1 DEF FailInv, GoesOn, Deletes, Restarts, KErrNotFound, KErrNone, KRequestPending
  <1> QED BY <1>1, <1>2, <1>3, <1>4

LEMMA DeleteLeavesKeepsSimInv ==
  ASSUME SimInv, fault = "None", Deletes, DeleteLeaves,
         UNCHANGED <<card, hidden, last, mtm, request, changes>>
  PROVE  SimInv'
  <1> DEFINE s == [Running EXCEPT !.state = "Other"]
  <1>1. /\ UNCHANGED <<store, fault>>
        /\ \E e \in {KErrNotFound, KErrNoMemory} : sim' = Left(s, e)
    BY DEF DeleteLeaves
  <1>2. PICK e \in {KErrNotFound, KErrNoMemory} : sim' = Left(s, e)
    BY <1>1
  <1>3. e \in Errors /\ e # KErrNone
    BY DEF Errors, KErrNotFound, KErrNoMemory, KErrNone
  <1>4. sim.active /\ sim.type \in {"Delete", "MoveFrom"} /\ Serving
        /\ IsSim(Running) /\ SimRec(Running)
    BY DeleteFacts DEF Deletes
  <1>5. /\ IsSim(s) /\ s.exists = Running.exists /\ s.type = Running.type
        /\ s.sel = Running.sel /\ s.count = Running.count /\ s.written = Running.written
    BY <1>4, FieldNames DEF IsSim
  <1>6. SimRec(s)
    <2>1. "Other" \in SimStates
      BY DEF SimStates
    <2> QED BY <1>4, <2>1, FieldNames DEF IsSim, SimRec
  <1> HIDE DEF s
  <1>7. /\ s.exists = sim.exists /\ s.type = sim.type /\ s.sel = sim.sel
        /\ s.count = sim.count /\ s.written = sim.written /\ s.type # "MovingEntries"
    BY <1>4, <1>5, RunningIsSame
  <1>8. /\ store' \in [Ids -> EntryRec] /\ StoreInv'
        /\ \A k \in DOMAIN sim.sel : Unchanged(sim.sel[k])
    BY <1>1, StoreStays
  <1> QED BY <1>1, <1>2, <1>3, <1>4, <1>5, <1>6, <1>7, <1>8, LeaveKeepsSimInv

\* DeleteEachMessageFromPhoneStoreL: all are done, or one that is gone is passed
\* over, or the next one is deleted.
LEMMA DeleteEachFields ==
  ASSUME SimInv, fault = "None", Deletes, NEW t, t = DeleteEachMessage(Running)
  PROVE  /\ IsSim(t) /\ SimRec(t)
         /\ t.exists = sim.exists /\ t.type = sim.type /\ t.sel = sim.sel /\ t.count = sim.count
         /\ t.written = sim.written /\ t.failed = sim.failed /\ t.dest = sim.dest
         /\ t.report = sim.report
         /\ \/ /\ sim.done = sim.count /\ t.active = FALSE /\ t.done = sim.done
               /\ t.error = sim.error /\ t.state = "DeletedLast"
            \/ /\ sim.done < sim.count /\ store[sim.sel[sim.done + 1]] = NoEntry
               /\ t.active = TRUE /\ t.status = KErrNone /\ t.op = "None" /\ t.state = "Other"
               /\ t.done = sim.done + 1
            \/ /\ sim.done < sim.count /\ store[sim.sel[sim.done + 1]] # NoEntry
               /\ t.active = TRUE /\ t.status = KRequestPending /\ t.op = "Delete"
               /\ t.state = "DeleteEach" /\ t.done = sim.done + 1
               /\ t.slots = store[sim.sel[sim.done + 1]].slots
  <1>1. /\ sim.done \in 0 .. sim.count /\ sim.count \in Nat /\ DOMAIN sim.sel = 1 .. sim.count
        /\ \A k \in 1 .. sim.count : sim.sel[k] \in Ids
        /\ store \in [Ids -> EntryRec] /\ IsSim(Running) /\ SimRec(Running) /\ sim.active
    BY DeleteFacts DEF Deletes
  <1>2. /\ Running.exists = sim.exists /\ Running.type = sim.type /\ Running.sel = sim.sel
        /\ Running.count = sim.count /\ Running.written = sim.written
        /\ Running.failed = sim.failed /\ Running.dest = sim.dest /\ Running.report = sim.report
        /\ Running.done = sim.done /\ Running.error = sim.error /\ Running.active = FALSE
    BY <1>1, RunningIsSame
  <1> DEFINE next == sim.sel[sim.done + 1]
             same(u) == /\ u.exists = Running.exists /\ u.type = Running.type
                        /\ u.sel = Running.sel /\ u.count = Running.count
                        /\ u.written = Running.written /\ u.failed = Running.failed
                        /\ u.dest = Running.dest /\ u.report = Running.report
  <1>3. NextId(Running) = next
    BY <1>2 DEF NextId
  <1> HIDE DEF next
  <1>4. "DeletedLast" \in SimStates /\ "Other" \in SimStates /\ "DeleteEach" \in SimStates
        /\ Running.done + 1 \in Int /\ KErrNone \in Errors
    BY <1>1, <1>2 DEF SimStates, Errors
  <1>5. CASE sim.done = sim.count
    <2>1. t = [Running EXCEPT !.state = "DeletedLast"]
      <3>1. Running.done = Running.count /\ ~(Running.done < Running.count)
        BY <1>1, <1>2, <1>5
      <3> QED BY <3>1 DEF DeleteEachMessage
    <2>2. /\ IsSim(t) /\ same(t) /\ t.active = Running.active /\ t.done = Running.done
          /\ t.error = Running.error /\ t.state = "DeletedLast"
      BY <1>1, <2>1, FieldNames DEF IsSim
    <2>3. SimRec(t)
      BY <1>1, <1>4, <2>1, FieldNames DEF IsSim, SimRec
    <2> QED BY <1>2, <1>5, <2>2, <2>3
  <1>6. CASE sim.done < sim.count /\ ~Exists(next)
    <2> DEFINE u == [Running EXCEPT !.state = "Other", !.done = @ + 1]
    <2>1. t = RunsNext(u)
      <3>1. sim.done # sim.count
        BY <1>1, <1>6
      <3> QED BY <1>2, <1>3, <1>6, <3>1 DEF DeleteEachMessage
    <2>2. IsSim(u) /\ same(u) /\ u.done = Running.done + 1 /\ u.state = "Other"
      BY <1>1, FieldNames DEF IsSim
    <2>3. SimRec(u)
      BY <1>1, <1>4, FieldNames DEF IsSim, SimRec
    <2> HIDE DEF u
    <2>4. /\ IsSim(t) /\ SimRec(t) /\ Keeps(t, u) /\ t.active = TRUE /\ t.status = KErrNone
          /\ t.op = "None" /\ t.report = u.report /\ t.error = u.error
      <3>1. IsSim(u) /\ SimRec(u)
        BY <2>2, <2>3
      <3> QED BY <2>1, <3>1, WakingFields
    <2>5. store[sim.sel[sim.done + 1]] = NoEntry
      BY <1>6 DEF Exists, next
    <2> QED BY <1>2, <1>6, <2>2, <2>4, <2>5 DEF Keeps
  <1>7. CASE sim.done < sim.count /\ Exists(next)
    <2> DEFINE l == store[next].slots
               u == [Running EXCEPT !.done = @ + 1, !.state = "DeleteEach", !.error = KErrNone,
                                    !.slots = l]
    <2>1. t = WaitsFor(u, "Delete")
      <3>1. sim.done # sim.count
        BY <1>1, <1>7
      <3> QED BY <1>2, <1>3, <1>7, <3>1 DEF DeleteEachMessage
    <2>2. l \subseteq Slots
      <3>1. sim.done + 1 \in 1 .. sim.count
        BY <1>1, <1>7
      <3>2. store[next] \in EntryRec
        BY <1>1, <3>1 DEF next
      <3> QED BY <3>2 DEF EntryRec
    <2> HIDE DEF l
    <2>3. /\ IsSim(u) /\ same(u) /\ u.done = Running.done + 1 /\ u.state = "DeleteEach"
          /\ u.slots = l
      BY <1>1, FieldNames DEF IsSim
    <2>4. SimRec(u)
      BY <1>1, <1>4, <2>2, FieldNames DEF IsSim, SimRec
    <2> HIDE DEF u
    <2>5. /\ IsSim(t) /\ SimRec(t) /\ Keeps(t, u) /\ t.active = TRUE /\ t.status = KRequestPending
          /\ t.op = "Delete" /\ t.report = u.report /\ t.error = u.error
      <3>1. IsSim(u) /\ SimRec(u)
        BY <2>3, <2>4
      <3>2. "Delete" \in CardOps \cup StoreOps
        BY DEF CardOps
      <3>3. LET w == WaitsFor(u, "Delete")
            IN  /\ IsSim(w) /\ SimRec(w) /\ Keeps(w, u) /\ w.active = TRUE
                /\ w.status = KRequestPending /\ w.op = "Delete" /\ w.report = u.report
                /\ w.error = u.error
        BY <3>1, <3>2, WaitingFields
      <3> QED BY <2>1, <3>3
    <2>6. store[sim.sel[sim.done + 1]] # NoEntry /\ l = store[sim.sel[sim.done + 1]].slots
      BY <1>7 DEF Exists, next, l
    <2> QED BY <1>2, <1>7, <2>3, <2>5, <2>6 DEF Keeps
  <1>8. sim.done = sim.count \/ sim.done < sim.count
    BY <1>1
  <1> QED BY <1>5, <1>6, <1>7, <1>8

\* The messages passed so far are gone from the SIM, also the one whose deletion
\* has just completed.
LEMMA PassedAreGone ==
  ASSUME SimInv, fault = "None", Deletes, GoesOn, ~request.touched, sim.type = "Delete"
  PROVE  \A k \in 1 .. sim.done : \A s \in request.before[k].slots : card[s] = Empty
  <1>1. DelInv /\ Serving
    BY RunFacts DEF Deletes
  <1>2. sim.status \in {KErrNone, KErrNotFound}
    BY DEF GoesOn, Restarts
  <1> QED BY <1>1, <1>2 DEF DelInv, GoesWell, Deletes

\* The next message is deleted, or passed over.
LEMMA DeletesOnKeepsSimInv ==
  ASSUME SimInv, fault = "None", Deletes, GoesOn, sim' = DeleteEachMessage(Running), sim'.active,
         UNCHANGED <<card, store, hidden, last, fault, mtm, request, changes>>
  PROVE  SimInv'
  <1>1. /\ Serving /\ sim.done \in 0 .. sim.count /\ sim.count \in Nat
        /\ DOMAIN sim.sel = 1 .. sim.count /\ sim.exists = TRUE /\ sim.report
        /\ sim.type = "MoveFrom" => sim.dest = "Inbox"
        /\ ~sim.failed /\ sim.active /\ sim.type \in {"Delete", "MoveFrom"}
    BY DeleteFacts DEF Deletes
  <1>2. /\ IsSim(sim') /\ SimRec(sim')
        /\ sim'.exists = sim.exists /\ sim'.type = sim.type /\ sim'.sel = sim.sel
        /\ sim'.count = sim.count /\ sim'.written = sim.written /\ sim'.failed = sim.failed
        /\ sim'.dest = sim.dest /\ sim'.report = sim.report
        /\ sim.done < sim.count /\ sim'.done = sim.done + 1
        /\ \/ /\ store[sim.sel[sim.done + 1]] = NoEntry
              /\ sim'.status = KErrNone /\ sim'.op = "None" /\ sim'.state = "Other"
           \/ /\ store[sim.sel[sim.done + 1]] # NoEntry
              /\ sim'.status = KRequestPending /\ sim'.op = "Delete" /\ sim'.state = "DeleteEach"
              /\ sim'.slots = store[sim.sel[sim.done + 1]].slots
    BY DeleteEachFields
  <1>3. sim.done + 1 \in 1 .. sim.count /\ sim.done + 1 \in 0 .. sim.count /\ sim.done + 1 >= 1
    BY <1>1, <1>2
  <1>4. OpShape'
    BY <1>1, <1>2, <1>3 DEF OpShape
  <1>5. LockShape' /\ FailInv' /\ CopyInv' /\ WriteInv' /\ EnumInv'
    BY <1>1, <1>2 DEF LockShape, FailInv, CopyInv, WriteInv, EnumInv
  <1>6. DelInv'
    <2>1. SUFFICES ASSUME ~request.touched, sim.type = "Delete"
                   PROVE  DelInv'
      BY <1>2 DEF DelInv, GoesWell
    <2>2. \A k \in 1 .. sim.done : \A s \in request.before[k].slots : card[s] = Empty
      BY <2>1, PassedAreGone
    <2>3. store[sim.sel[sim.done + 1]] # NoEntry
          /\ store[sim.sel[sim.done + 1]] = request.before[sim.done + 1]
      <3>1. SelInv
        BY <1>1, RunFacts
      <3> QED BY <1>1, <1>3, <2>1, <3>1 DEF SelInv
    <2>4. sim'.op = "Delete" /\ sim'.slots = request.before[sim.done + 1].slots
          /\ sim'.status = KRequestPending
      BY <1>2, <2>3
    <2>5. KRequestPending \notin {KErrNone, KErrNotFound}
      BY DEF KRequestPending, KErrNone, KErrNotFound
    <2>6. \A k \in 1 .. sim.done + 1 : k # sim.done + 1 => k \in 1 .. sim.done
      BY <1>1
    <2> QED BY <1>2, <2>2, <2>4, <2>5, <2>6 DEF DelInv
  <1>7. /\ store' \in [Ids -> EntryRec] /\ StoreInv'
        /\ \A k \in DOMAIN sim.sel : Unchanged(sim.sel[k])
    BY StoreStays
  <1>8. sim'.type # "MovingEntries"
    BY <1>1, <1>2
  <1> QED BY <1>1, <1>2, <1>4, <1>5, <1>6, <1>7, <1>8, StepKeepsSimInv

\* All have been deleted, and the request is answered.
LEMMA DeletesEndKeepsSimInv ==
  ASSUME SimInv, fault = "None", Deletes, GoesOn,
         ~DeleteEachMessage(Running).active, sim' = Done(DeleteEachMessage(Running), KErrNone),
         UNCHANGED <<card, store, hidden, last, fault, mtm, request, changes>>
  PROVE  SimInv'
  <1> DEFINE t == DeleteEachMessage(Running)
  <1>1. /\ Serving /\ ~sim.failed /\ sim.active /\ sim.type \in {"Delete", "MoveFrom"}
        /\ sim.exists = TRUE
    BY DeleteFacts DEF Deletes
  <1>2. ~t.active /\ sim' = Done(t, KErrNone) /\ t = DeleteEachMessage(Running)
    OBVIOUS
  <1> HIDE DEF t
  <1>3. /\ IsSim(t) /\ SimRec(t)
        /\ t.exists = sim.exists /\ t.type = sim.type /\ t.sel = sim.sel /\ t.count = sim.count
        /\ t.written = sim.written /\ t.failed = sim.failed
        /\ sim.done = sim.count /\ t.done = sim.done /\ t.error = sim.error
    BY <1>2, DeleteEachFields
  <1>4. KErrNone \in Errors
    BY DEF Errors
  <1>5. /\ IsSim(Done(t, KErrNone)) /\ SimRec(Done(t, KErrNone)) /\ Keeps(Done(t, KErrNone), t)
        /\ Done(t, KErrNone).active = FALSE
    BY <1>3, <1>4, DoneFields
  <1>6. /\ IsSim(sim') /\ SimRec(sim') /\ sim'.active = FALSE
        /\ sim'.exists = sim.exists /\ sim'.type = sim.type /\ sim'.sel = sim.sel
        /\ sim'.count = sim.count /\ sim'.written = sim.written /\ sim'.failed = sim.failed
        /\ sim'.done = sim.done
    BY <1>2, <1>3, <1>5 DEF Keeps
  <1>7. DelInv'
    <2>1. SUFFICES ASSUME ~request.touched, sim.type = "Delete"
                   PROVE  DelInv'
      BY <1>6 DEF DelInv, GoesWell
    <2>2. \A k \in 1 .. sim.done : \A s \in request.before[k].slots : card[s] = Empty
      BY <2>1, PassedAreGone
    <2> QED BY <1>3, <1>6, <2>2 DEF DelInv
  <1>8. OpShape' /\ LockShape' /\ FailInv' /\ CopyInv' /\ WriteInv' /\ EnumInv'
    BY <1>1, <1>6 DEF OpShape, LockShape, FailInv, CopyInv, WriteInv, EnumInv
  <1>9. /\ store' \in [Ids -> EntryRec] /\ StoreInv'
        /\ \A k \in DOMAIN sim.sel : Unchanged(sim.sel[k])
    BY StoreStays
  <1>10. sim'.type # "MovingEntries"
    BY <1>1, <1>6
  <1> QED BY <1>1, <1>6, <1>7, <1>8, <1>9, <1>10, StepKeepsSimInv

LEMMA DeletesNextKeepsSimInv ==
  ASSUME SimInv, fault = "None", Deletes, GoesOn, DeletesNext,
         UNCHANGED <<card, hidden, last, mtm, request, changes>>
  PROVE  SimInv'
  <1>1. \/ DeleteLeaves
        \/ /\ UNCHANGED <<store, fault>>
           /\ sim' = IF DeleteEachMessage(Running).active THEN DeleteEachMessage(Running)
                     ELSE Done(DeleteEachMessage(Running), KErrNone)
    BY DEF DeletesNext
  <1>2. CASE DeleteLeaves
    BY <1>2, DeleteLeavesKeepsSimInv
  <1>3. CASE UNCHANGED <<store, fault>> /\ DeleteEachMessage(Running).active
             /\ sim' = DeleteEachMessage(Running)
    BY <1>3, DeletesOnKeepsSimInv
  <1>4. CASE UNCHANGED <<store, fault>> /\ ~DeleteEachMessage(Running).active
             /\ sim' = Done(DeleteEachMessage(Running), KErrNone)
    BY <1>4, DeletesEndKeepsSimInv
  <1> QED BY <1>1, <1>2, <1>3, <1>4

LEMMA SimDeletesKeepsSimInv ==
  ASSUME SimInv, fault = "None", SimDeletes, UNCHANGED <<mtm, request, changes>>
  PROVE  SimInv'
  <1>1. Deletes /\ GoesOn
    BY RunsFacts DEF SimDeletes, Deletes, GoesOn
  <1> QED BY <1>1, DeletesNextKeepsSimInv DEF SimDeletes

\* RunError: a message that is no longer on the SIM is passed over; any other
\* error is the answer.
LEMMA SimRunErrorKeepsSimInv ==
  ASSUME SimInv, fault = "None", SimRunError, UNCHANGED <<mtm, request, changes>>
  PROVE  SimInv'
  <1>1. sim.active /\ sim.status \notin {KErrNone, KRequestPending} /\ UNCHANGED <<card, hidden, last>>
    BY DEF SimRunError
  <1>2. /\ Serving /\ OpShape /\ SelInv /\ SimRec(sim) /\ IsSim(Running) /\ SimRec(Running)
    BY <1>1, RunFacts
  <1>3. CASE Restarts /\ DeletesNext
    <2>1. Deletes /\ GoesOn
      BY <1>1, <1>2, <1>3 DEF Deletes, GoesOn, Restarts, OpShape
    <2> QED BY <1>1, <1>3, <2>1, DeletesNextKeepsSimInv
  <1>4. CASE sim' = Done(Running, sim.status) /\ UNCHANGED <<store, fault>>
    <2>1. sim.status \in Errors /\ sim.status # KErrNone
      BY <1>1, <1>2 DEF SimRec
    <2>2. /\ store' \in [Ids -> EntryRec] /\ StoreInv'
          /\ \A k \in DOMAIN sim.sel : Unchanged(sim.sel[k])
      BY <1>1, <1>4, StoreStays
    <2>3. /\ Running.exists = sim.exists /\ Running.type = sim.type /\ Running.sel = sim.sel
          /\ Running.count = sim.count /\ Running.written = sim.written
      BY <1>1, RunningIsSame
    <2>4. sim.type = "MovingEntries" => \A k \in DOMAIN sim.sel : store'[sim.sel[k]].slots = {}
      BY <1>2, <1>4 DEF SelInv
    <2> QED BY <1>1, <1>2, <1>4, <2>1, <2>2, <2>3, <2>4, LeaveKeepsSimInv
  <1> QED BY <1>3, <1>4 DEF SimRunError

\* SetLocalStorageInfoL: headers forget where on the SIM their messages are.
LEMMA LocalisedStore ==
  ASSUME SimInv, NEW q, NEW k
  PROVE  /\ Localised(q, k) \in [Ids -> EntryRec]
         /\ \A i \in Ids : \/ Localised(q, k)[i] = store[i]
                           \/ /\ store[i] # NoEntry
                              /\ Localised(q, k)[i].text = store[i].text
                              /\ Localised(q, k)[i].folder = store[i].folder
         /\ q \in Seq(Ids) /\ k = 0 => \A j \in DOMAIN q : Localised(q, k)[q[j]].slots = {}
  <1> DEFINE in(i) == \E j \in k + 1 .. Len(q) : q[j] = i
             bare(e) == [e EXCEPT !.slots = {}]
  <1>1. store \in [Ids -> EntryRec]
    BY DEF SimInv, Typed, TypeOK
  <1>2. Localised(q, k) = [i \in Ids |-> IF Exists(i) /\ in(i) THEN bare(store[i]) ELSE store[i]]
    BY DEF Localised
  <1>3. \A e \in EntryRec : /\ bare(e) \in EntryRec /\ bare(e).text = e.text
                            /\ bare(e).folder = e.folder /\ bare(e).slots = {}
    BY DEF EntryRec
  <1>4. ASSUME q \in Seq(Ids), k = 0, NEW j \in DOMAIN q
        PROVE  q[j] \in Ids /\ in(q[j])
    <2>1. j \in k + 1 .. Len(q)
      BY <1>4
    <2> QED BY <1>4, <2>1
  <1> HIDE DEF in, bare
  <1>5. Localised(q, k) \in [Ids -> EntryRec]
    BY <1>1, <1>2, <1>3
  <1>6. ASSUME NEW i \in Ids
        PROVE  \/ Localised(q, k)[i] = store[i]
               \/ /\ store[i] # NoEntry /\ Localised(q, k)[i].text = store[i].text
                  /\ Localised(q, k)[i].folder = store[i].folder
    BY <1>1, <1>2, <1>3 DEF Exists
  <1>7. ASSUME q \in Seq(Ids), k = 0, NEW j \in DOMAIN q
        PROVE  Localised(q, k)[q[j]].slots = {}
    <2>1. q[j] \in Ids /\ in(q[j])
      BY <1>4, <1>7
    <2>2. CASE Exists(q[j])
      BY <1>1, <1>2, <1>3, <2>1, <2>2
    <2>3. CASE ~Exists(q[j])
      BY <1>2, <2>1, <2>3 DEF Exists, NoEntry
    <2> QED BY <2>2, <2>3
  <1> QED BY <1>5, <1>6, <1>7

\* The leaves of SetLocalStorageInfoL.
LEMMA LocalLeavesKeepsSimInv ==
  ASSUME SimInv, fault = "None", sim.active, sim.type \in {"CopyFrom", "MoveFrom"},
         UNCHANGED <<card, hidden, last, fault, mtm, request, changes>>,
         NEW q, NEW s, LocalLeaves(q, s), IsSim(s), SimRec(s), s.exists = sim.exists,
         s.type = sim.type, s.sel = sim.sel, s.count = sim.count, s.written = sim.written
  PROVE  SimInv'
  <1>1. PICK k \in DOMAIN q, e \in {KErrNotFound, KErrNoMemory} :
          store' = Localised(q, k) /\ sim' = Left(s, e)
    BY DEF LocalLeaves
  <1>2. e \in Errors /\ e # KErrNone
    BY DEF Errors, KErrNotFound, KErrNoMemory, KErrNone
  <1>3. /\ store' \in [Ids -> EntryRec]
        /\ \A i \in Ids : \/ store'[i] = store[i]
                          \/ /\ store[i] # NoEntry /\ store'[i].text = store[i].text
                             /\ store'[i].folder = store[i].folder
    BY <1>1, LocalisedStore
  <1>4. /\ StoreInv' /\ \A j \in DOMAIN sim.sel : Unchanged(sim.sel[j])
    <2>1. sim.type \notin {"Delete", "MovingEntries"}
      OBVIOUS
    <2> QED BY <1>3, <2>1, HeaderKeepsStore
  <1>5. s.type # "MovingEntries" /\ Serving
    BY RunFacts
  <1> QED BY <1>1, <1>2, <1>3, <1>4, <1>5, LeaveKeepsSimInv

LEMMA SimHasCopiedKeepsSimInv ==
  ASSUME SimInv, fault = "None", SimHasCopied, UNCHANGED <<mtm, request, changes>>
  PROVE  SimInv'
  <1>1. Runs("CopyFrom") /\ UNCHANGED <<card, hidden, last, fault>>
    BY DEF SimHasCopied
  <1>2. sim.active /\ sim.type = "CopyFrom" /\ sim.status = KErrNone
    BY <1>1, RunsFacts
  <1>3. IsSim(Running) /\ SimRec(Running) /\ SimRec(sim)
    BY <1>2, RunFacts
  <1>4. CASE LocalLeaves(sim.completed, Running)
    BY <1>1, <1>2, <1>4, RunningIsSame, LocalLeavesKeepsSimInv
  <1>5. CASE store' = Localised(sim.completed, 0) /\ sim' = Done(Running, KErrNone)
    <2>1. /\ store' \in [Ids -> EntryRec]
          /\ \A i \in Ids : \/ store'[i] = store[i]
                            \/ /\ store[i] # NoEntry /\ store'[i].text = store[i].text
                               /\ store'[i].folder = store[i].folder
          /\ \A j \in DOMAIN sim.completed : store'[sim.completed[j]].slots = {}
      <3>1. sim.completed \in Seq(Ids)
        BY <1>3 DEF SimRec
      <3> QED BY <1>5, <3>1, LocalisedStore
    <2>2. StoreInv' /\ \A j \in DOMAIN sim.sel : Unchanged(sim.sel[j])
      <3>1. sim.type \notin {"Delete", "MovingEntries"}
        BY <1>2
      <3> QED BY <1>1, <2>1, <3>1, HeaderKeepsStore
    <2>3. sim'.type = "CopyFrom" /\ sim'.completed = sim.completed
      BY <1>2, <1>3, <1>5, DoneIsSame, RunningIsSame
    <2>4. DelInv' /\ CopyInv' /\ WriteInv' /\ EnumInv'
      BY <2>1, <2>3 DEF DelInv, CopyInv, WriteInv, EnumInv
    <2> QED BY <1>1, <1>2, <1>5, <2>1, <2>2, <2>4, RunningIsSame, LastStepKeepsSimInv
  <1> QED BY <1>4, <1>5 DEF SimHasCopied

\* All messages have been deleted from the SIM, and the entries are moved.
Moving(s) == [s EXCEPT !.state = "Other", !.type = "MovingEntries"]

LEMMA MovesEntriesKeepsSimInv ==
  ASSUME SimInv, fault = "None", Deletes, GoesOn, sim.type = "MoveFrom",
         UNCHANGED <<card, hidden, last, fault, mtm, request, changes>>,
         NEW s, s = DeleteEachMessage(Running), ~s.active,
         store' = Localised(s.sel, 0), MoveEntriesL(Moving(s), "Move")
  PROVE  SimInv'
  <1> DEFINE t == Moving(s)
  <1>1. /\ Serving /\ sim.exists = TRUE /\ sim.report /\ sim.dest = "Inbox" /\ ~sim.failed
        /\ sim.active
    BY DeleteFacts DEF Deletes
  <1>2. /\ IsSim(s) /\ SimRec(s) /\ s.exists = sim.exists /\ s.type = sim.type /\ s.sel = sim.sel
        /\ s.count = sim.count /\ s.written = sim.written /\ s.failed = sim.failed
        /\ s.dest = sim.dest /\ s.report = sim.report
    BY DeleteEachFields
  <1>3. /\ IsSim(t) /\ t.exists = s.exists /\ t.type = "MovingEntries" /\ t.sel = s.sel
        /\ t.count = s.count /\ t.written = s.written /\ t.failed = s.failed
        /\ t.dest = s.dest /\ t.report = s.report /\ t.state = "Other"
    BY <1>2, FieldNames DEF IsSim, Moving
  <1>4. SimRec(t)
    <2>1. "Other" \in SimStates /\ "MovingEntries" \in SimTypes
      BY DEF SimStates, SimTypes
    <2> QED BY <1>2, <2>1, FieldNames DEF IsSim, SimRec, Moving
  <1>5. sim' = WaitsFor(t, "Move") \/ \E e \in {KErrNotFound, KErrNoMemory} : sim' = Left(t, e)
    BY DEF MoveEntriesL
  <1> HIDE DEF t
  <1>6. /\ store' \in [Ids -> EntryRec]
        /\ \A i \in Ids : \/ store'[i] = store[i]
                          \/ /\ store[i] # NoEntry /\ store'[i].text = store[i].text
                             /\ store'[i].folder = store[i].folder
        /\ \A k \in DOMAIN sim.sel : store'[sim.sel[k]].slots = {}
    <2>1. sim.sel \in Seq(Ids)
      BY <1>1, ServingFacts
    <2> QED BY <1>2, <2>1, LocalisedStore
  <1>7. StoreInv' /\ \A j \in DOMAIN sim.sel : Unchanged(sim.sel[j])
    <2>1. sim.type \notin {"Delete", "MovingEntries"}
      OBVIOUS
    <2> QED BY <1>6, <2>1, HeaderKeepsStore
  <1>8. ASSUME NEW e \in {KErrNotFound, KErrNoMemory}, sim' = Left(t, e)
        PROVE  SimInv'
    <2>1. e \in Errors /\ e # KErrNone
      BY <1>8 DEF Errors, KErrNotFound, KErrNoMemory, KErrNone
    <2> QED BY <1>1, <1>2, <1>3, <1>4, <1>6, <1>7, <1>8, <2>1, LeaveKeepsSimInv
  <1>9. CASE sim' = WaitsFor(t, "Move")
    <2>1. LET w == WaitsFor(t, "Move")
          IN  /\ IsSim(w) /\ SimRec(w) /\ Keeps(w, t) /\ w.active = TRUE
              /\ w.status = KRequestPending /\ w.op = "Move" /\ w.report = t.report
      <3>1. IsSim(t) /\ SimRec(t)
        BY <1>3, <1>4
      <3>2. "Move" \in CardOps \cup StoreOps
        BY DEF StoreOps
      <3> QED BY <3>1, <3>2, WaitingFields
    <2>2. /\ IsSim(sim') /\ SimRec(sim') /\ sim'.active = TRUE /\ sim'.status = KRequestPending
          /\ sim'.op = "Move" /\ sim'.report /\ sim'.type = "MovingEntries"
          /\ sim'.exists = sim.exists /\ sim'.sel = sim.sel /\ sim'.count = sim.count
          /\ sim'.written = sim.written /\ sim'.failed = sim.failed /\ sim'.dest = "Inbox"
          /\ sim'.state = "Other"
      BY <1>1, <1>2, <1>3, <1>9, <2>1 DEF Keeps
    <2>3. /\ OpShape' /\ LockShape' /\ FailInv' /\ DelInv' /\ CopyInv' /\ WriteInv' /\ EnumInv'
      BY <1>1, <2>2 DEF OpShape, LockShape, FailInv, DelInv, CopyInv, WriteInv, EnumInv
    <2> QED BY <1>1, <1>6, <1>7, <2>2, <2>3, StepKeepsSimInv
  <1> QED BY <1>5, <1>8, <1>9

LEMMA SimDeletesToMoveKeepsSimInv ==
  ASSUME SimInv, fault = "None", SimDeletesToMove, UNCHANGED <<mtm, request, changes>>
  PROVE  SimInv'
  <1> DEFINE s == DeleteEachMessage(Running)
  <1>1. /\ Deletes /\ GoesOn /\ sim.type = "MoveFrom" /\ UNCHANGED <<card, hidden, last>>
        /\ DeleteLeaves \/ ThenMoves(s)
    BY RunsFacts DEF SimDeletesToMove, Deletes, GoesOn
  <1>2. CASE DeleteLeaves
    BY <1>1, <1>2, DeleteLeavesKeepsSimInv
  <1>3. /\ IsSim(s) /\ SimRec(s) /\ s.exists = sim.exists /\ s.type = sim.type /\ s.sel = sim.sel
        /\ s.count = sim.count /\ s.written = sim.written
    BY <1>1, DeleteEachFields
  <1>4. s = DeleteEachMessage(Running)
    OBVIOUS
  <1> HIDE DEF s
  <1>5. CASE s.active /\ sim' = s /\ UNCHANGED <<store, fault>>
    <2>1. sim' = DeleteEachMessage(Running) /\ sim'.active
      BY <1>4, <1>5
    <2> QED BY <1>1, <1>5, <2>1, DeletesOnKeepsSimInv
  <1>6. CASE ~Exists(s.sel[Len(s.sel)]) /\ fault' = "NullContext" /\ UNCHANGED <<store, sim>>
    <2>1. Serving /\ SelInv /\ sim.active
      BY <1>1, RunFacts DEF Deletes
    <2>2. sim.type \in Selecting
      BY <1>1 DEF Selecting
    <2>3. sim.sel \in Seq(Ids) /\ sim.sel # <<>>
      BY <2>1, <2>2, ServingFacts
    <2>4. Len(sim.sel) \in DOMAIN sim.sel
      BY <2>3
    <2>5. request.touched /\ request.answer = "Pending"
      BY <1>3, <1>6, <2>1, <2>4 DEF SelInv, Exists, Serving
    <2> QED BY <1>1, <1>6, <2>5, FaultKeepsSimInv
  <1>7. CASE LocalLeaves(s.sel, s) /\ UNCHANGED fault
    <2>1. sim.active /\ sim.type \in {"CopyFrom", "MoveFrom"}
      BY <1>1 DEF Deletes
    <2> QED BY <1>1, <1>3, <1>7, <2>1, LocalLeavesKeepsSimInv
  <1>8. CASE /\ ~s.active /\ store' = Localised(s.sel, 0) /\ UNCHANGED fault
             /\ MoveEntriesL(Moving(s), "Move")
    BY <1>1, <1>4, <1>8, MovesEntriesKeepsSimInv
  <1>9. ThenMoves(s) =>
          \/ s.active /\ sim' = s /\ UNCHANGED <<store, fault>>
          \/ ~Exists(s.sel[Len(s.sel)]) /\ fault' = "NullContext" /\ UNCHANGED <<store, sim>>
          \/ LocalLeaves(s.sel, s) /\ UNCHANGED fault
          \/ /\ ~s.active /\ store' = Localised(s.sel, 0) /\ UNCHANGED fault
             /\ MoveEntriesL(Moving(s), "Move")
    BY DEF ThenMoves, Moving
  <1> QED BY <1>1, <1>2, <1>5, <1>6, <1>7, <1>8, <1>9

LEMMA SimRunsKeepsSimInv ==
  ASSUME SimInv, SimRuns
  PROVE  SimInv'
  <1>1. fault = "None" /\ SimRunL /\ UNCHANGED <<mtm, request, changes>>
    BY DEF SimRuns
  <1>2. CASE SimRetrieves
    BY <1>1, <1>2, SimRetrievesKeepsSimInv
  <1>3. CASE SimHasEnumerated
    BY <1>1, <1>3, SimHasEnumeratedKeepsSimInv
  <1>4. CASE SimDeletes
    BY <1>1, <1>4, SimDeletesKeepsSimInv
  <1>5. CASE SimDeletesToMove
    BY <1>1, <1>5, SimDeletesToMoveKeepsSimInv
  <1>6. CASE SimHasMoved \/ SimHasParams
    BY <1>1, <1>6, SimHasMovedKeepsSimInv
  <1>7. CASE SimHasCopied
    BY <1>1, <1>7, SimHasCopiedKeepsSimInv
  <1>8. CASE SimWrites
    BY <1>1, <1>8, SimWritesKeepsSimInv
  <1>9. CASE SimUpdatesClass2
    BY <1>1, <1>9, SimUpdatesClass2KeepsSimInv
  <1>10. CASE SimHasWritten
    BY <1>1, <1>10, SimHasWrittenKeepsSimInv
  <1>11. CASE SimReadsParams
    BY <1>1, <1>11, SimReadsParamsKeepsSimInv
  <1>12. CASE SimRunError
    BY <1>1, <1>12, SimRunErrorKeepsSimInv
  <1> QED BY <1>1, <1>2, <1>3, <1>4, <1>5, <1>6, <1>7, <1>8, <1>9, <1>10, <1>11, <1>12
        DEF SimRunL

LEMMA NextKeepsSimInv ==
  ASSUME SimInv, ReadyInv, [Next]_vars
  PROVE  SimInv'
  <1>1. CASE StartCommandL
    BY <1>1, StartCommandKeepsSimInv
  <1>2. CASE ScheduleCommandL \/ CopyFromLocalL \/ DeleteAllL
    BY <1>2, OthersCommandsKeepSimInv
  <1>3. CASE MtmRunL \/ MtmCancel \/ Unloaded \/ SendingCompletes
    BY <1>3, EndKeepsSimInv
  <1>4. CASE Others
    BY <1>4, OthersKeepSimInv
  <1>5. CASE SimRuns
    BY <1>5, SimRunsKeepsSimInv
  <1>6. CASE SimService
    <2>1. fault = "None" /\ (CardCompletes \/ StoreCompletes) /\ UNCHANGED <<mtm, request, changes>>
      BY <1>6 DEF SimService
    <2>2. CASE CardCompletes
      BY <2>1, <2>2, CardCompletesKeepsSimInv
    <2>3. CASE StoreCompletes
      BY <2>1, <2>3, StoreCompletesKeepsSimInv
    <2> QED BY <2>1, <2>2, <2>3
  <1>7. CASE UNCHANGED vars
    <2>1. mtm \in [state : MtmStates, report : BOOLEAN, active : BOOLEAN, sent : BOOLEAN,
                   stale : BOOLEAN]
      BY DEF SimInv, Typed, TypeOK
    <2> QED BY <1>7, <2>1, QuietKeepsSimInv DEF vars
  <1> QED BY <1>1, <1>2, <1>3, <1>4, <1>5, <1>6, <1>7 DEF Next, Requests

LEMMA InitHasSimInv ==
  ASSUME Init
  PROVE  SimInv
  <1>1. /\ sim = NoSim /\ mtm = NewMtm /\ fault = "None" /\ request = NoRequest /\ changes = 0
        /\ card = OnCard /\ hidden = {} /\ last = NoFolder
    BY DEF Init
  <1>2. /\ IsRequest(request) /\ request.n = 0 /\ request.cmd = "None" /\ request.sel = <<>>
        /\ request.answer = "None" /\ request.touched = FALSE /\ request.ended.failed = FALSE
    BY <1>1 DEF NoRequest, IsRequest, Outcome, NoSim, NewSim
  <1>3. IsSim(sim) /\ SimRec(sim) /\ sim.exists = FALSE /\ sim.active = FALSE
    <2>1. NoSim.exists = FALSE /\ NoSim.active = FALSE
      BY DEF NoSim, NewSim
    <2> QED BY <1>1, <2>1, NoSimType
  <1>4. store \in [Ids -> EntryRec] /\ StoreInv
    <2> DEFINE draft(i) == [folder |-> "Drafts", text |-> Drafts[i], slots |-> {}]
    <2>1. store = [i \in Ids |-> IF i \in DOMAIN Drafts THEN draft(i) ELSE NoEntry]
      BY DEF Init
    <2>2. \A i \in DOMAIN Drafts : /\ draft(i) \in EntryRec /\ draft(i).folder = "Drafts"
      BY SimAssumption DEF EntryRec, Folders
    <2>3. NoEntry \in EntryRec /\ NoEntry.folder = NoFolder
      BY DEF NoEntry, EntryRec
    <2>4. /\ "Drafts" \notin Hidden /\ NoFolder \notin Hidden
          /\ NoFolder # "Drafts" /\ NoFolder \notin Standard
      BY SimAssumption DEF NoFolder, Standard
    <2> HIDE DEF draft
    <2>5. ASSUME NEW i \in Ids
          PROVE  store[i] \in EntryRec /\ (store[i].folder = "Drafts" \/ store[i] = NoEntry)
      <3>1. CASE i \in DOMAIN Drafts
        BY <2>1, <2>2, <3>1
      <3>2. CASE i \notin DOMAIN Drafts
        BY <2>1, <2>3, <3>2
      <3> QED BY <3>1, <3>2
    <2>6. store \in [Ids -> EntryRec]
      BY <2>1, <2>5
    <2>7. StoreInv
      BY <1>1, <2>3, <2>4, <2>5 DEF StoreInv
    <2> QED BY <2>6, <2>7
  <1>5. Typed
    <2>1. 0 \in 0 .. MaxRequests /\ 0 \in 0 .. MaxChanges
      BY MtmAssumption
    <2>2. mtm \in [state : MtmStates, report : BOOLEAN, active : BOOLEAN, sent : BOOLEAN,
                   stale : BOOLEAN]
      BY <1>1 DEF NewMtm, MtmStates
    <2>3. card \in [Slots -> Texts \cup {Empty}]
      BY <1>1, SimAssumption
    <2>4. <<>> \in Seq(Ids)
      OBVIOUS
    <2> QED BY <1>1, <1>2, <1>3, <1>4, <2>1, <2>2, <2>3, <2>4 DEF Typed, TypeOK
  <1>6. ServeInv
    <2>1. mtm.active = FALSE
      BY <1>1 DEF NewMtm
    <2> QED BY <1>1, <1>2, <1>3, <2>1 DEF ServeInv, Serving
  <1>7. ServedInv
    <2>1. ~Serving
      BY <1>3 DEF Serving
    <2> QED BY <2>1, NotServing
  <1>8. AnswerInv
    BY <1>1, <1>2, NothingDone
  <1> QED BY <1>4, <1>5, <1>6, <1>7, <1>8 DEF SimInv

\* What holds of the MTM and of the object that serves it, whatever the SIM, the
\* messages and the failures.
LEMMA SimInvHolds == Spec => [](ReadyInv /\ SimInv)
  <1>1. Init => ReadyInv /\ SimInv
    BY NoSimIsIdle, InitHasSimInv DEF Init, NewMtm, MtmStates, NoRequest, ReadyInv, MtmType,
       SimServesMtm, RestsBetween, MtmIsReady
  <1>2. ReadyInv /\ SimInv /\ [Next]_vars => (ReadyInv /\ SimInv)'
    BY NextKeepsReady, NextKeepsSimInv
  <1> QED BY <1>1, <1>2, PTL DEF Spec

\* The state of CSmsServerMtm and of CSmsSimUtils, the store and the SIM keep
\* their types (SMSSERV.H, SmssSimUtils.h).
THEOREM StateIsTyped == Spec => []TypeOK
  <1>1. SimInv => TypeOK
    BY DEF SimInv, Typed
  <1> QED BY <1>1, SimInvHolds, PTL

\* No assertion of the MTM is violated by a request that follows one that has
\* been answered in the ordinary way, and a move works on an entry unless others
\* have deleted it (SMSSERV.CPP:60, SmssSimUtils.cpp:843).
THEOREM NoOtherPanic == Spec => []AssertionsHold
  <1>1. ReadyInv /\ SimInv => AssertionsHold
    BY DEF ReadyInv, SimInv, AnswerInv, AssertionsHold
  <1> QED BY <1>1, SimInvHolds, PTL

\* An enumeration that is answered without an error has put every message of the
\* SIM into its folder, once and with its slot (SmssSimUtils.cpp:160-253, 1018-1102).
THEOREM EnumerationsAreComplete == Spec => []EnumerationIsComplete
  <1>1. SimInv => EnumerationIsComplete
    BY DEF SimInv, AnswerInv
  <1> QED BY <1>1, SimInvHolds, PTL

\* Every message of a copy or a move to the SIM that is answered without an
\* error is there once for each of its recipients (SmssSimUtils.cpp:656-778).
THEOREM EveryRecipientIsWritten == Spec => []RecipientsWritten
  <1>1. SimInv => RecipientsWritten
    BY DEF SimInv, AnswerInv
  <1> QED BY <1>1, SimInvHolds, PTL

\* What has been copied or moved from the SIM does not say that it is there
\* (SmssSimUtils.cpp:830-872).
THEOREM CopiesForgetTheSim == Spec => []CopiesAreLocal
  <1>1. SimInv => CopiesAreLocal
    BY DEF SimInv, AnswerInv
  <1> QED BY <1>1, SimInvHolds, PTL

\* After a delete that is answered without an error no slot of the selected
\* messages holds anything, also when some had been gone from the SIM before
\* (SmssSimUtils.cpp:479-523, 1104-1129).
THEOREM DeletedIsGone == Spec => []DeletedMeansGone
  <1>1. SimInv => DeletedMeansGone
    BY DEF SimInv, AnswerInv
  <1> QED BY <1>1, SimInvHolds, PTL

\* A failure on the way is part of the answer (SmssSimUtils.cpp:971, 1104-1129).
THEOREM FailuresAreReported == Spec => []FailureIsReported
  <1>1. SimInv => FailureIsReported
    BY DEF SimInv, AnswerInv
  <1> QED BY <1>1, SimInvHolds, PTL
=============================================================================
