---------------------------- MODULE SmsServerMtm ----------------------------
(***************************************************************************)
(* CSmsServerMtm: the commands of the SMS server MTM, and with them        *)
(* CSmsSimUtils, which serves those about the SIM.                         *)
(*                                                                         *)
(* The framework gives the MTM one request at a time. A request that       *)
(* leaves is answered with the leave's error. When no request is left the  *)
(* framework may unload the MTM, because CommandExpected says EFalse, or   *)
(* give the next request to the same object. Sending (CopyFromLocalL) is   *)
(* the subject of SmsOutboxSend: here it is an operation that ends some    *)
(* time, or is cancelled.                                                  *)
(***************************************************************************)
EXTENDS SmsSimUtils

CONSTANTS
  Commands,     \* the commands to explore
  EnumParams,   \* the folders given to an enumeration, NoFolder for none
  MaxSelection, \* bound: messages in a selection
  MaxRequests,  \* bound: number of requests
  MaxChanges    \* bound: number of changes by others

SimCommands == {"Enumerate", "Delete", "CopyFrom", "MoveFrom", "CopyTo", "MoveTo",
                "ReadParams", "WriteParams"}

ASSUME MtmAssumption ==
  /\ Commands \subseteq SimCommands \cup {"Send", "Schedule", "DeleteAll"}
  /\ EnumParams \subseteq Folders \cup {NoFolder}
  /\ MaxSelection \in 1 .. 2 /\ MaxRequests \in Nat /\ MaxChanges \in Nat

VARIABLES
  mtm,      \* the CSmsServerMtm object
  \* history
  request,  \* the last request of the client and its answer
  changes   \* number of changes by others so far

vars == <<card, store, hidden, last, sim, fault, mtm, request, changes>>

MtmStates == {"Waiting", "Sending", "Scheduling", "SimUtils"}

\* sent: CSmsOutboxSend has completed. stale (history): a command has left, or
\* has been answered without CompleteCommand, since the object was made.
NewMtm == [state |-> "Waiting", report |-> FALSE, active |-> FALSE, sent |-> FALSE,
           stale |-> FALSE]

\* What the properties ask of a CSmsSimUtils object when it is deleted.
Outcome(s) == [folder |-> s.folder, list |-> s.list, completed |-> s.completed,
               written |-> s.written, failed |-> s.failed]

\* before: the selected entries when the client asked; ended: the outcome;
\* touched: others have changed the store or the SIM since it was asked.
NoRequest == [n |-> 0, cmd |-> "None", sel |-> <<>>, before |-> <<>>,
              answer |-> "None", touched |-> FALSE, ended |-> Outcome(NoSim)]

Init ==
  /\ card = OnCard
  /\ store = [i \in Ids |->
       IF i \in DOMAIN Drafts THEN [folder |-> "Drafts", text |-> Drafts[i], slots |-> {}]
       ELSE NoEntry]
  /\ hidden = {} /\ last = NoFolder
  /\ sim = NoSim /\ mtm = NewMtm
  /\ fault = "None" /\ request = NoRequest /\ changes = 0

-----------------------------------------------------------------------------
(* Requests                                                                *)

MayAsk == fault = "None" /\ request.answer # "Pending" /\ request.n < MaxRequests

Asked(cmd, q) ==
  [n |-> request.n + 1, cmd |-> cmd, sel |-> q, before |-> [k \in DOMAIN q |-> store[q[k]]],
   answer |-> "Pending", touched |-> FALSE, ended |-> Outcome(NoSim)]

Answered(cmd, q, a) == [Asked(cmd, q) EXCEPT !.answer = a]

\* The messages a client selects, in the order of their ids.
Selections(fs) ==
  LET S == {i \in Ids : store[i].folder \in fs}
  IN  {<<i>> : i \in S}
        \cup {q \in S \X S : q[1] < q[2] /\ MaxSelection = 2}

FromSim == Selections({last} \ {NoFolder})
ToSim   == Selections({"Inbox", "Drafts", "Class2"})

\* The functions of CSmsSimUtils; q is the selection, p the parameter.
SimStarts(cmd, q, p) ==
  \/ cmd = "Enumerate" /\ EnumerateL(p)
  \/ cmd = "Delete"   /\ DeleteFromPhoneStoreL(q)
  \/ cmd = "CopyFrom" /\ CopyFromPhoneStoreL(q, "Inbox")
  \/ cmd = "MoveFrom" /\ MoveFromPhoneStoreL(q, "Inbox")
  \/ cmd \in {"CopyTo", "MoveTo"} /\ ToPhoneStoreL(cmd, q)
  \/ cmd = "ReadParams" /\ ReadSimParamsL
  \/ cmd = "WriteParams" /\ WriteSimParamsL

\* What StartCommandL and SimUtilsL assert before they queue the request.
Assertion == CASE mtm.state # "Waiting" -> "MtmAlreadyActive"
               [] mtm.state = "Waiting" /\ sim.exists -> "AlreadyUsingSimUtils"
               [] mtm.state = "Waiting" /\ ~sim.exists /\ mtm.report -> "AlreadyActive"
               [] OTHER -> "None"

\* SimUtilsL. A leave is handed on, with iReport and, once CSmsSimUtils exists,
\* iState and iSimUtils as they are.
SimUtilsL(cmd, q, p) ==
  /\ Assertion = "None"
  /\ SimStarts(cmd, q, p)
  /\ IF sim'.active
       THEN /\ mtm' = [mtm EXCEPT !.state = "SimUtils", !.report = TRUE, !.active = TRUE]
            /\ request' = Asked(cmd, q)
       ELSE /\ mtm' = [mtm EXCEPT !.state = "SimUtils", !.report = TRUE, !.stale = TRUE]
            /\ request' = Answered(cmd, q, "Error")

SimUtilsLeaves(cmd, q) ==
  /\ Assertion = "None" /\ MayLeave
  /\ \/ mtm' = mtm                                            \* RestoreSettingsL
     \/ mtm' = [mtm EXCEPT !.report = TRUE, !.stale = TRUE]   \* NewL
  /\ request' = Answered(cmd, q, "Error")
  /\ UNCHANGED simVars

SimUtilsPanics(cmd, q) ==
  /\ Assertion # "None"
  /\ fault' = Assertion
  /\ request' = Asked(cmd, q)
  /\ UNCHANGED <<card, store, hidden, last, sim, mtm>>

Targets(cmd) ==
  CASE cmd \in {"Delete", "CopyFrom", "MoveFrom"} -> FromSim
    [] cmd \in {"CopyTo", "MoveTo"} -> ToSim
    [] OTHER -> {<<>>}

Params(cmd) == IF cmd = "Enumerate" THEN EnumParams ELSE {NoFolder}

StartCommandL ==
  /\ MayAsk /\ UNCHANGED changes
  /\ \E cmd \in Commands \cap SimCommands :
       \E q \in Targets(cmd) :
         \/ \E p \in Params(cmd) : SimUtilsL(cmd, q, p)
         \/ SimUtilsLeaves(cmd, q)
         \/ SimUtilsPanics(cmd, q)

\* StartCommandL and ScheduleCommandL: the base class answers the client before
\* ScheduleL returns, or ScheduleL leaves; either way iState stays Scheduling.
ScheduleCommandL ==
  /\ MayAsk /\ "Schedule" \in Commands
  /\ \/ /\ mtm.state = "Waiting"
        /\ mtm' = [mtm EXCEPT !.state = "Scheduling", !.stale = TRUE]
        /\ \/ request' = Answered("Schedule", <<>>, "Ok")
           \/ MayLeave /\ request' = Answered("Schedule", <<>>, "Error")
        /\ UNCHANGED fault
     \/ /\ mtm.state # "Waiting"
        /\ fault' = "MtmAlreadyActive"
        /\ request' = Asked("Schedule", <<>>)
        /\ UNCHANGED mtm
  /\ UNCHANGED <<card, store, hidden, last, sim, changes>>

\* CopyFromLocalL: it queues the request before RestoreSettingsL and NewL.
CopyFromLocalL ==
  /\ MayAsk /\ "Send" \in Commands
  /\ \/ /\ ~mtm.report
        /\ \/ /\ mtm' = [mtm EXCEPT !.state = "Sending", !.report = TRUE,
                                    !.active = TRUE, !.sent = FALSE]
              /\ request' = Asked("Send", <<>>)
           \/ /\ MayLeave
              /\ mtm' = [mtm EXCEPT !.report = TRUE, !.stale = TRUE]
              /\ request' = Answered("Send", <<>>, "Error")
        /\ UNCHANGED fault
     \/ /\ mtm.report
        /\ fault' = "AlreadyActive"
        /\ request' = Asked("Send", <<>>)
        /\ UNCHANGED mtm
  /\ UNCHANGED <<card, store, hidden, last, sim, changes>>

\* DeleteAllL does its work at once, whatever the state of the object.
DeleteAllL ==
  /\ MayAsk /\ "DeleteAll" \in Commands
  /\ \E q \in FromSim :
       \/ /\ store' = [i \in Ids |-> IF \E k \in DOMAIN q : q[k] = i THEN NoEntry ELSE store[i]]
          /\ request' = Answered("DeleteAll", q, "Ok")
       \/ /\ MayLeave
          /\ request' = Answered("DeleteAll", q, "Error") /\ UNCHANGED store
  /\ UNCHANGED <<card, hidden, last, sim, fault, mtm, changes>>

-----------------------------------------------------------------------------
(* The end of a request                                                    *)

\* Bug: CompleteCommand leaves iState as it is.
BugKeepsState(m) == [m EXCEPT !.report = FALSE, !.active = FALSE, !.sent = FALSE]

Rested(m) == [m EXCEPT !.state = "Waiting", !.report = FALSE, !.active = FALSE,
                       !.sent = FALSE]

\* CompleteCommand(e), with the CSmsSimUtils object s (if any) it deletes.
CompleteCommand(e, s) ==
  /\ mtm' = Rested(mtm)
  /\ request' = [request EXCEPT !.ended = Outcome(s),
                   !.answer = IF e # KErrNone \/ s.error # KErrNone THEN "Error" ELSE "Ok"]

\* The object it waits for has completed iStatus.
MtmReady == mtm.active /\ CASE mtm.state = "SimUtils" -> ~sim.report
                            [] mtm.state = "Sending" -> mtm.sent

MtmRunL ==
  /\ MtmReady /\ fault = "None"
  /\ CompleteCommand(KErrNone, sim)
  /\ sim' = NoSim
  /\ UNCHANGED <<card, store, hidden, last, fault, changes>>

\* DoCancel, in CActive::Cancel.
MtmCancel ==
  /\ request.answer = "Pending" /\ mtm.active /\ fault = "None"
  /\ \/ /\ mtm.state = "Sending"
        /\ CompleteCommand(KErrCancel, sim)
        /\ UNCHANGED simVars
     \/ /\ mtm.state = "SimUtils" /\ CancelHangs
        /\ fault' = "CancelHangs"
        /\ UNCHANGED <<card, store, hidden, last, sim, mtm, request>>
     \/ /\ mtm.state = "SimUtils" /\ ~CancelHangs
        /\ card' \in CancelledCard
        /\ CompleteCommand(KErrCancel, Cancelled)
        /\ sim' = NoSim
        /\ UNCHANGED <<store, hidden, last, fault>>
  /\ UNCHANGED changes

SendingCompletes ==
  /\ fault = "None" /\ mtm.active /\ mtm.state = "Sending" /\ ~mtm.sent
  /\ mtm' = [mtm EXCEPT !.sent = TRUE]
  /\ UNCHANGED <<simVars, request, changes>>

\* The framework has no request left and unloads the MTM.
Unloaded ==
  /\ fault = "None" /\ request.answer # "Pending" /\ mtm # NewMtm
  /\ mtm' = NewMtm /\ sim' = NoSim
  /\ UNCHANGED <<card, store, hidden, last, fault, request, changes>>

-----------------------------------------------------------------------------
Others ==
  /\ fault = "None" /\ changes < MaxChanges
  /\ changes' = changes + 1
  /\ request' = [request EXCEPT !.touched = TRUE]
  /\ UNCHANGED mtm
  /\ \/ \E i \in Ids : ClientDeletes(i)
     \/ \E h \in Hidden : ClientDeletesFolder(h)
     \/ \E s \in Slots : CardLoses(s)

SimRuns == fault = "None" /\ SimRunL /\ UNCHANGED <<mtm, request, changes>>

SimService == /\ fault = "None"
              /\ CardCompletes \/ StoreCompletes
              /\ UNCHANGED <<mtm, request, changes>>

Requests == StartCommandL \/ ScheduleCommandL \/ CopyFromLocalL \/ DeleteAllL

Next == \/ Requests \/ MtmCancel \/ Others \/ Unloaded
        \/ SimRuns \/ SimService \/ MtmRunL \/ SendingCompletes

Spec == Init /\ [][Next]_vars

\* The scheduler runs every object whose request has completed; the SMS socket,
\* the message store and the sending of messages complete what they are asked.
Fairness == /\ WF_vars(SimRuns) /\ WF_vars(SimService)
            /\ WF_vars(MtmRunL) /\ WF_vars(SendingCompletes)

FairSpec == Spec /\ Fairness

-----------------------------------------------------------------------------
(* Properties                                                              *)

\* Every variable keeps its type.
TypeOK ==
  /\ card \in [Slots -> Texts \cup {Empty}]
  /\ store \in [Ids -> EntryRec]
  /\ hidden \subseteq Hidden /\ last \in Folders \cup {NoFolder}
  /\ SimRec(sim)
  /\ fault \in {"None", "MtmAlreadyActive", "AlreadyUsingSimUtils", "AlreadyActive",
                "NullContext", "CancelHangs"}
  /\ mtm \in [state : MtmStates, report : BOOLEAN, active : BOOLEAN, sent : BOOLEAN,
              stale : BOOLEAN]
  /\ request.n \in 0 .. MaxRequests /\ request.answer \in {"None", "Pending", "Ok", "Error"}
  /\ request.cmd \in Commands \cup {"None"} /\ request.sel \in Seq(Ids)
  /\ request.touched \in BOOLEAN
  /\ changes \in 0 .. MaxChanges

\* A request finds the MTM ready for it, unless an earlier one on the same
\* object has left or was a schedule command (SMSSERV.CPP:60, :162, :330).
MtmIsReady ==
  /\ fault \in {"MtmAlreadyActive", "AlreadyActive"} => mtm.stale
  /\ fault # "AlreadyUsingSimUtils"

\* No panic but those: only a message deleted by others leaves a move without an
\* entry to work on (SmssSimUtils.cpp:843). A cancel during a move or copy in
\* the store hangs (SmssSimUtils.cpp:1131) whatever came before.
AssertionsHold == MtmIsReady /\ (fault = "NullContext" => request.touched)

\* CSmsSimUtils loses track of no folder it has created: the only enumeration
\* folder under the service is the one stored for the next enumeration, wherever
\* EnumerateL may have left (SmssSimUtils.cpp:179-331).
NoOrphanFolder == hidden \subseteq {last}

\* The last request was one of cmds and has just been answered without an error.
JustDone(cmds) == request.answer = "Ok" /\ request.cmd \in cmds /\ ~request.touched

\* When an enumeration is answered without an error, the folder holds exactly
\* what was on the SIM when it was counted, with its slots, unless others have
\* deleted something (SmssSimUtils.cpp:160-253, 1018-1102).
EnumerationIsComplete ==
  JustDone({"Enumerate"}) =>
    LET listed == {request.ended.list[k] : k \in DOMAIN request.ended.list}
        inside == {i \in Ids : store[i].folder = request.ended.folder}
    IN  /\ Cardinality(inside) = Cardinality(listed)
        /\ {store[i].text : i \in inside} = {l.text : l \in listed}
        /\ {store[i].slots : i \in inside} = {{l.slot} : l \in listed}

\* When a copy or move to the SIM is answered without an error, every selected
\* message was written once for each of its recipients, also when the class 2
\* folder was updated in between (SmssSimUtils.cpp:656-778, smscmds.h:310-311).
RecipientsWritten ==
  JustDone({"CopyTo", "MoveTo"}) =>
    \A k \in DOMAIN request.sel :
      LET n == Recipients[request.before[k].text]
      IN  request.ended.written[k] = IF n = 0 THEN 1 ELSE n

\* A message that a copy or a move from the SIM has put into its folder says no
\* longer that it is on the SIM (SmssSimUtils.cpp:830-872).
CopiesAreLocal ==
  JustDone({"CopyFrom", "MoveFrom"}) =>
    LET q == IF request.cmd = "CopyFrom" THEN request.ended.completed ELSE request.sel
    IN  \A k \in DOMAIN q : store[q[k]].folder = "Inbox" => store[q[k]].slots = {}

\* When a delete is answered without an error, none of the selected messages is
\* on the SIM (SmssSimUtils.cpp:479-523, 1104-1129).
DeletedMeansGone ==
  JustDone({"Delete"}) =>
    \A k \in DOMAIN request.before : \A s \in request.before[k].slots : card[s] = Empty

\* No failure of the SIM, of the store or of a step of the request itself is
\* forgotten in the answer (SmssSimUtils.cpp:971, 1104-1129).
FailureIsReported == request.ended.failed => request.answer = "Error"

\* Every request is answered, unless the server has panicked or hangs.
RequestAnswered == (request.answer = "Pending") ~> (request.answer # "Pending" \/ fault # "None")

\* When a move from the SIM is answered without an error, the messages are in
\* the folder (SmssSimUtils.cpp:994-999, smscmds.h:248-249).
MovedMeansMoved ==
  JustDone({"MoveFrom"}) =>
    \A k \in DOMAIN request.sel : store[request.sel[k]].folder = "Inbox"
=============================================================================
