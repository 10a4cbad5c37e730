------------------------------ MODULE ImapIdle ------------------------------
(***************************************************************************)
(* The primary connection of CImapProtocolController and those that share  *)
(* it, all of them active objects of the message server's one thread:      *)
(*                                                                         *)
(*   Pc      the controller itself, which runs one client operation at a   *)
(*           time                                                          *)
(*   Idle    CImapIdleController, which watches the inbox in between       *)
(*   Folder  CImapFolder, while it synchronises the inbox for Idle         *)
(*   Child   the CImapCompoundCopyToLocal of Idle (download rules)         *)
(*   Op      the compound operation of the client's request                *)
(*                                                                         *)
(* One RunL, with every synchronous call it makes, is one action. Between  *)
(* two of them the client may ask for an operation or cancel one, a timer  *)
(* may expire and the network may fail. Modelled: one connection, no       *)
(* background sync and no bearer migration.                                *)
(***************************************************************************)
EXTENDS ImapSession

CONSTANTS
  Ops,          \* the client operations to explore
  UsingIdle,    \* the values of iUsingIdle to explore: FALSE is the "dummy read"
  UseRules,     \* UseSyncDownloadRules, with a rule for the inbox
  MayCancel,    \* whether the client cancels
  MayTimeOut,   \* whether the ten-second timers expire
  MayLeave,     \* whether allocations fail
  MayDrop,      \* whether the network fails
  KnownFaults   \* the assertions that are known to fail under these faults

ASSUME IdleAssumption ==
  /\ Ops \subseteq [kind : {"Select", "Copy"}, box : Boxes]
  /\ UsingIdle \subseteq BOOLEAN
  /\ {UseRules, MayCancel, MayTimeOut, MayLeave, MayDrop} \subseteq BOOLEAN

VARIABLES
  ses, rd, net,  \* CImapSession, CSocketReader, connection and server
  ao,            \* the active objects: IsActive, iStatus
  fault,         \* the first debug assertion that failed
  idle,          \* CImapIdleController: iState, iStoppingIdle, iReport # NULL,
                 \* iReissueTimer
  inbox,         \* CImapFolder of the inbox: iMailboxSize; covering is the
                 \* number of messages the sync in progress will cover,
                 \* synced what the last complete one did, fetched how many
                 \* bodies have been asked for
  job,           \* the compound operations Child and Op
  pc             \* CImapProtocolController: iCurrentOp, iRequestedOp,
                 \* iReport # NULL, connected, the answer given last

vars == <<ses, rd, net, ao, fault, idle, inbox, job, pc>>

Objects == {"Pc", "Idle", "Folder", "Child", "Op"}

NoOp  == [kind |-> "None", box |-> NoBox]
NoJob == [op |-> NoOp, step |-> "None", report |-> FALSE, error |-> FALSE]

IdleStates == {"StartingIdle", "SelectingInbox", "Synchronising",
               "SyncFetching", "WaitingForContinuation", "Idling",
               "WaitingForServerEvent", "WaitingForFlush", "WaitingForDone",
               "Finished"}

\* A fatal session error as the client sees it; of imcm, its value is
\* outside the repository.
KErrImapServerFail == -999

Now == [ses |-> ses, rd |-> rd, net |-> net, ao |-> ao, fault |-> fault,
        idle |-> idle, inbox |-> inbox, job |-> job, pc |-> pc]

\* A failed assertion ends the thread: nothing else of that step counts.
Becomes(v) == \E w \in {v} :  \* v is evaluated once
  /\ fault' = w.fault
  /\ IF w.fault # "None"
     THEN UNCHANGED <<ses, rd, net, ao, idle, inbox, job, pc>>
     ELSE /\ ses' = w.ses /\ rd' = w.rd /\ net' = w.net /\ ao' = w.ao
          /\ idle' = w.idle /\ inbox' = w.inbox /\ job' = w.job
          /\ pc' = w.pc

-----------------------------------------------------------------------------
(***************************************************************************)
(* Active objects                                                          *)
(***************************************************************************)

Active(w, who)    == w.ao[who].active
SetActive(w, who) == [w EXCEPT !.ao[who].active = TRUE]
Signal(w, who, err) == [w EXCEPT !.ao[who].status = err]
Runnable(who)     == ao[who].active /\ ao[who].status # KRequestPending

\* CActive::Cancel, v being the world after DoCancel: it waits for iStatus.
Cancel(w, who, v) ==
  IF ~Active(w, who) THEN w
  ELSE [Expect(v, v.ao[who].status # KRequestPending, "CancelHangs") EXCEPT
          !.ao[who].active = FALSE]

-----------------------------------------------------------------------------
(***************************************************************************)
(* CImapFolder on the inbox                                                *)
(***************************************************************************)

\* Changed
Changed(w) == w.ses.folder # NoFolder /\ w.inbox.size # w.ses.folder.exists

\* The assertion of Changed and UpdateSessionFolderInfoL
InboxSelected(w) ==
  Expect(w, w.ses.folder.box \in {Inbox, NoBox}, "UserInvariant")

\* SynchroniseL: the size is taken first, and no change up to now is looked
\* for again. One fetch stands for the commands that compare the folders.
SynchroniseL(w) ==
  LET v == InboxSelected(w)
      n == v.ses.folder.exists
      s == [v EXCEPT !.inbox.size = n, !.inbox.covering = n]
  IN IF n = 0 THEN Signal([s EXCEPT !.inbox.synced = 0], "Idle", KErrNone)
     ELSE SetActive(FetchL(Signal(s, "Idle", KRequestPending), "Folder"),
                    "Folder")

\* Bug: the size recorded is the one at the end of the synchronisation.
BugLateSize(w) ==
  LET err == w.ao["Folder"].status
      v   == Signal(w, "Idle", err)
  IN IF err # KErrNone THEN v
     ELSE [v EXCEPT !.inbox.synced = w.inbox.covering,
                    !.inbox.size = w.ses.folder.exists]

\* DoRunL
FolderDoRunL(w) ==
  LET err == w.ao["Folder"].status
      v   == Signal(w, "Idle", err)
  IN IF err # KErrNone THEN v
     ELSE [v EXCEPT !.inbox.synced = w.inbox.covering]

\* DoCancel
FolderDoCancel(w) == Signal(SessionCancel(w), "Idle", KErrCancel)

-----------------------------------------------------------------------------
(***************************************************************************)
(* The compound operations: CImapCompoundSelect and, with its              *)
(* CImapOpFetchBody, CImapCompoundCopyToLocal for one message              *)
(***************************************************************************)

Starter(o) == IF o = "Child" THEN "Idle" ELSE "Pc"

JobComplete(w, o, err) ==
  IF ~w.job[o].report THEN w
  ELSE Signal([w EXCEPT !.job[o].report = FALSE], Starter(o), err)

\* StartOperation
StartOperation(w, o) ==
  LET v == Signal(w, Starter(o), KRequestPending)
  IN SetActive(Signal([v EXCEPT !.job[o].step = "Start",
                                !.job[o].report = TRUE], o, KErrNone), o)

StepSelect(w, o) ==
  SetActive(SelectL([w EXCEPT !.job[o].step = "Select"], o, w.job[o].op.box), o)
StepFetch(w, o) ==
  SetActive(FetchL([w EXCEPT !.job[o].step = "Fetch"], o), o)

\* DoRunLoopL, SetSourceFolderL: a folder already selected is not selected.
DoRunLoopL(w, o) ==
  LET op == w.job[o].op
  IN CASE w.job[o].step = "Start" ->
            IF op.kind = "Copy" /\ w.ses.folder.box = op.box
            THEN StepFetch(w, o) ELSE StepSelect(w, o)
       [] w.job[o].step = "Select" /\ op.kind = "Copy" -> StepFetch(w, o)
       [] OTHER -> JobComplete(w, o, KErrNone)

\* ProcessServerError as CImapOpFetchBody::DoRunL calls it: any failure of a
\* fetch reaches the compound operation as the value of a comparison, 1.
FetchError(err) == IF err # KErrNone THEN KErrImapNo ELSE KErrNone

\* ProcessSessionError and ProcessNegativeServerResponse: a NO is noted and
\* passed over. For any other error DoRunL completes with "err=... != 0".
JobDoRunL(w, o) ==
  LET st   == w.ao[o].status
      err  == IF w.job[o].step = "Fetch" THEN FetchError(st) ELSE st
      code == IF err \in {KErrImapNo, KErrImapBad} THEN KErrNone ELSE 1
      v    == [w EXCEPT !.job[o].error = TRUE]
  IN CASE err = KErrNone -> DoRunLoopL(w, o)
       [] err # KErrNone /\ code = KErrNone -> JobComplete(v, o, KErrNone)
       [] OTHER -> JobComplete(v, o, code)

\* DoCancel
JobDoCancel(w, o) ==
  LET v == IF w.job[o].step = "Start" THEN w ELSE SessionCancel(w)
  IN JobComplete(v, o, KErrCancel)

-----------------------------------------------------------------------------
(***************************************************************************)
(* CImapIdleController                                                     *)
(***************************************************************************)

IdleComplete(w, err) ==
  IF ~w.idle.report THEN w
  ELSE Signal([w EXCEPT !.idle.report = FALSE], "Pc", err)

OnSession == {"Idling", "SelectingInbox", "WaitingForContinuation",
              "WaitingForServerEvent", "WaitingForFlush", "WaitingForDone"}

\* DoCancel up to the test of iInternalCancel
IdleInternalCancel(w) ==
  LET v == [w EXCEPT !.idle.timer = FALSE]
  IN CASE w.idle.state \in OnSession -> SessionCancel(v)
       [] w.idle.state = "Synchronising" ->
            Cancel(v, "Folder", FolderDoCancel(v))
       [] w.idle.state = "SyncFetching" ->
            [Cancel(v, "Child", JobDoCancel(v, "Child")) EXCEPT
               !.job["Child"] = NoJob]
       [] OTHER -> v

\* DoCancel
IdleDoCancel(w) ==
  [IdleComplete(IdleInternalCancel(w), KErrCancel) EXCEPT
     !.idle.state = "Finished"]

\* InternalCancelAndSetState
InternalCancelAndSetState(w, next) ==
  LET v == Expect(w, w.idle.state \notin
                       {"Synchronising", "StartingIdle", "Finished"},
                  "InternalCancelOnBadState")
  IN [Cancel(v, "Idle", IdleInternalCancel(v)) EXCEPT !.idle.state = next]

CancelThenDone(w) ==
  SetActive(DoneIdle(InternalCancelAndSetState(w, "WaitingForDone"), "Idle"),
            "Idle")
CancelThenFlush(w) ==
  SetActive(FlushCancelledCommand(
              InternalCancelAndSetState(w, "WaitingForFlush"), "Idle"), "Idle")

StartIdle(w) ==
  LET v == Expect(Expect(w, w.idle.state = "Finished", "UnexpectedStateAtStart"),
                  ~Active(w, "Idle"), "IsActiveAtStart")
  IN SetActive(Signal([v EXCEPT !.idle.state = "StartingIdle",
                                !.idle.stopping = FALSE], "Idle", KErrNone),
               "Idle")

StopIdle(w) ==
  LET a == Expect(w, ~w.idle.report, "AlreadyInUse")
      v == Signal([a EXCEPT !.idle.stopping = TRUE, !.idle.report = TRUE],
                  "Pc", KRequestPending)
  IN CASE w.idle.state = "Finished" -> IdleComplete(v, KErrNone)
       [] w.idle.state = "Idling" -> CancelThenDone(v)
       [] w.idle.state \in {"WaitingForServerEvent", "SyncFetching"} ->
            CancelThenFlush(v)
       [] OTHER -> v

Enter(w, state) == SetActive([w EXCEPT !.idle.state = state], "Idle")

\* GoIdleL
GoIdleL(w) ==
  IF w.idle.using THEN Enter(EnterIdleL(w, "Idle"), "WaitingForContinuation")
  ELSE Enter(WaitForServerEventL(w, "Idle"), "WaitingForServerEvent")

Sync(w) == Enter(SynchroniseL(w), "Synchronising")

\* What most states do next, SyncRequired or not
SyncOr(w, otherwise) ==
  LET v == InboxSelected(w) IN IF Changed(v) THEN Sync(v) ELSE otherwise

\* DoBodyDownloadL: messages whose bodies have not been asked for
BodiesWanted(w) == UseRules /\ w.inbox.fetched < w.inbox.synced
DoBodyDownloadL(w) ==
  Enter(StartOperation([w EXCEPT !.job["Child"] =
          [NoJob EXCEPT !.op = [kind |-> "Copy", box |-> Inbox]]], "Child"),
        "SyncFetching")

EnterIdlingState(w) ==
  Enter(WaitForIdleEvent([w EXCEPT !.idle.timer = TRUE], "Idle"), "Idling")

\* DONE, so that the change can be looked at
DoneToSync(w) ==
  Enter([DoneIdle(w, "Idle") EXCEPT !.idle.timer = FALSE], "WaitingForDone")

RunContinueL(w) ==
  LET s == w.idle.state
      v == InboxSelected(w)
      f == [w EXCEPT !.inbox.fetched = w.inbox.synced, !.job["Child"] = NoJob]
  IN CASE s = "StartingIdle" ->
            Enter(SelectL(w, "Idle", Inbox), "SelectingInbox")
       [] s = "SelectingInbox" ->
            SyncOr(w, IF BodiesWanted(w) THEN DoBodyDownloadL(w)
                      ELSE GoIdleL(w))
       [] s = "WaitingForContinuation" ->
            IF Changed(v) THEN DoneToSync(v) ELSE EnterIdlingState(v)
       [] s = "Idling" ->
            IF Changed(v) THEN DoneToSync(v)
            ELSE Enter(WaitForIdleEvent(v, "Idle"), "Idling")
       [] s = "WaitingForServerEvent" ->
            SyncOr([w EXCEPT !.idle.timer = @ /\ ~Changed(w)], GoIdleL(w))
       [] s \in {"WaitingForFlush", "WaitingForDone"} -> SyncOr(w, GoIdleL(w))
       [] s = "Synchronising" ->
            IF BodiesWanted(w) THEN DoBodyDownloadL(w)
            ELSE SyncOr(w, GoIdleL(w))
       [] s = "SyncFetching" -> SyncOr(f, GoIdleL(f))
       [] OTHER -> w

\* Bug: an IDLE that was not continued when StopIdle was called is left alone.
BugStopsEarly(w) ==
  IF w.idle.state = "WaitingForServerEvent" THEN CancelThenFlush(w)
  ELSE IdleComplete([w EXCEPT !.idle.state = "Finished"], KErrNone)

\* RunStopL: in the states left over the session is free.
RunStopL(w) ==
  CASE w.idle.state = "WaitingForContinuation" -> CancelThenDone(w)
    [] w.idle.state = "WaitingForServerEvent" -> CancelThenFlush(w)
    [] OTHER -> IdleComplete([w EXCEPT !.idle.state = "Finished"], KErrNone)

-----------------------------------------------------------------------------
(***************************************************************************)
(* CImapProtocolController                                                 *)
(***************************************************************************)

\* DisconnectAll: the idle controller, the compound operations and the
\* session are deleted.
DisconnectAll(w) ==
  LET v == Cancel(w, "Idle", IdleDoCancel(w))
  IN [v EXCEPT !.pc.online = FALSE,
        !.ses = [NewSession EXCEPT !.open = FALSE],
        !.rd  = [NewReader EXCEPT !.state = "Closed"],
        !.net = [NewNet EXCEPT !.up = FALSE, !.exists = w.net.exists],
        !.idle = [@ EXCEPT !.state = "Finished", !.timer = FALSE],
        !.job = [o \in {"Child", "Op"} |-> NoJob],
        !.ao  = [o \in Objects |-> IF o = "Pc" THEN v.ao[o]
                   ELSE [active |-> FALSE, status |-> KErrNone]]]

\* CMsgActive::Complete and DoComplete. Anything but success and a cancel is
\* the end of the connection.
PcComplete(w, err) ==
  LET v == [w EXCEPT !.pc.requested = NoOp, !.pc.report = FALSE,
                     !.pc.answer = err]
  IN IF ~w.pc.report THEN w
     ELSE IF err \in {KErrNone, KErrCancel} THEN v ELSE DisconnectAll(v)

\* StartIdle
PcStartIdle(w) == StartIdle([w EXCEPT !.pc.op = "Idle"])

\* ThranslateSessionError
Fatal(err) == err \notin {KErrNone, KErrImapNo, KErrImapBad}

\* Bug: the error of the session is not translated.
BugRawError(w) == PcComplete(w, w.ao["Pc"].status)

\* ProcessError
PcError(w) ==
  IF w.pc.op = "Recover" THEN DisconnectAll(w)
  ELSE PcComplete(w, KErrImapServerFail)

StartRequested(w) ==
  SetActive(StartOperation([w EXCEPT !.pc.op = "Op"], "Op"), "Pc")

\* The end of the requested operation. After a SELECT there is no idle.
OperationDone(w) ==
  LET err == w.ao["Pc"].status
      v   == [w EXCEPT !.job["Op"] = NoJob]
  IN IF w.pc.requested.kind = "Select" /\ ~w.job["Op"].error
     THEN PcComplete(v, err)
     ELSE PcComplete(PcStartIdle(v), err)

\* DoRunL
PcDoRunL(w) ==
  CASE Fatal(w.ao["Pc"].status) -> PcError(w)
    [] ~Fatal(w.ao["Pc"].status) /\ w.pc.op = "StopIdle" -> StartRequested(w)
    [] ~Fatal(w.ao["Pc"].status) /\ w.pc.op = "Recover" -> PcStartIdle(w)
    [] OTHER -> OperationDone(w)

\* StartPrimaryOperation
StartPrimaryOperation(w) ==
  IF Active(w, "Idle")
  THEN SetActive(StopIdle([w EXCEPT !.pc.op = "StopIdle"]), "Pc")
  ELSE StartRequested(w)

\* SelectL, CopyToLocalL and the other requests on the primary connection
Request(w, op) ==
  StartPrimaryOperation(
    [Expect(w, w.job["Op"] = NoJob, "CompoundIsNotNull") EXCEPT
       !.job["Op"] = [NoJob EXCEPT !.op = op],
       !.pc.requested = op, !.pc.report = TRUE, !.pc.answer = KErrNone])

\* DoCancelClientOp
PcDoCancel(w) ==
  LET v == IF w.pc.op = "StopIdle" THEN Cancel(w, "Idle", IdleDoCancel(w))
           ELSE Cancel(w, "Op", JobDoCancel(w, "Op"))
  IN PcComplete([v EXCEPT !.job["Op"] = NoJob], KErrCancel)

\* Bug: watching starts again before the cancelled command is flushed.
BugIdlesAtOnce(w) == PcStartIdle(Cancel(w, "Pc", PcDoCancel(w)))

\* CancelAndCleanup: what the cancel left outstanding is flushed.
CancelAndCleanup(w) ==
  LET v == Cancel(w, "Pc", PcDoCancel(w))
  IN SetActive(FlushCancelledCommand([v EXCEPT !.pc.op = "Recover"], "Pc"),
               "Pc")

-----------------------------------------------------------------------------
(***************************************************************************)
(* The active scheduler: one action is one RunL                            *)
(***************************************************************************)

Alive == fault = "None" /\ pc.online

\* What is ready to happen
IdleReady     == Alive /\ Runnable("Idle")
FolderReady   == Alive /\ Runnable("Folder")
ChildReady    == Alive /\ Runnable("Child")
OpReady       == Alive /\ Runnable("Op")
PcReady       == Alive /\ Runnable("Pc")
ReadReady     == Alive /\ rd.ready
CallBackReady == Alive /\ ses.async
DataReady     == Alive /\ Receiving(Now) /\ net.wire # <<>>
FailureReady  == Alive /\ Receiving(Now) /\ net.wire = <<>> /\ ~net.up
ServerReady   == Alive /\ net.up /\ net.out # <<>> /\ ~Confused(net)

\* Now, with the active object that runs no longer active.
Run(who) == [Now EXCEPT !.ao[who].active = FALSE]

\* CImapIdleController::RunL. With nobody to report to, OnIdleError ends the
\* connection.
IdleStep(w) ==
  LET err == w.ao["Idle"].status
      v   == IF w.idle.stopping THEN RunStopL(w) ELSE RunContinueL(w)
  IN CASE err # KErrNone /\ w.idle.report -> IdleComplete(w, err)
       [] err # KErrNone /\ ~w.idle.report -> DisconnectAll(w)
       [] OTHER -> IF Active(v, "Idle") THEN v ELSE IdleComplete(v, KErrNone)

IdleRunL == /\ IdleReady
            /\ Becomes(IdleStep(Run("Idle")))

\* A leave of RunContinueL: Complete(error), and there may be no iReport.
IdleLeaves ==
  /\ Alive /\ MayLeave /\ Runnable("Idle")
  /\ ao["Idle"].status = KErrNone /\ ~idle.stopping
  /\ idle.state \notin {"WaitingForContinuation", "Idling"}
  /\ Becomes(IdleComplete(Run("Idle"), KErrNoMemory))

FolderRunL == /\ FolderReady
              /\ Becomes(FolderDoRunL(Run("Folder")))

ChildRunL == /\ ChildReady
             /\ Becomes(JobDoRunL(Run("Child"), "Child"))

OpRunL == /\ OpReady
          /\ Becomes(JobDoRunL(Run("Op"), "Op"))

PcRunL == /\ PcReady
          /\ Becomes(PcDoRunL(Run("Pc")))

ReadRunL == /\ ReadReady
            /\ Becomes(ReaderRunL(Now))

CallBackRunL == /\ CallBackReady
                /\ Becomes(AsyncCallBack(Now))

\* The timers
ReissueTimer ==
  /\ Alive /\ idle.timer
  /\ Becomes(LET w == [Now EXCEPT !.idle.timer = FALSE]
             IN CASE idle.state = "Idling" -> CancelThenDone(w)
                  [] idle.state = "WaitingForServerEvent" -> CancelThenFlush(w)
                  [] OTHER -> w)

FlushTimer ==
  /\ Alive /\ MayTimeOut /\ ses.flushTimer
  /\ Becomes(FlushTimeout(Now))

ReaderTimer ==
  /\ Alive /\ MayTimeOut /\ rd.timer
  /\ Becomes(ReaderTimeout(Now))

\* The socket
Receive == /\ DataReady
           /\ \E k \in 1 .. Len(net.wire) : Becomes(Received(Now, k))

ReceiveFails == /\ FailureReady
                /\ Becomes(ReceiveFailed(Now))

\* The server
ServerAnswers == /\ ServerReady
                 /\ \E n \in Answers(net) : Becomes([Now EXCEPT !.net = n])

MessageArrives == /\ Alive /\ net.up /\ net.exists < MaxExists
                  /\ Becomes([Now EXCEPT !.net = NewMessage(net)])

\* The network fails: what was on its way may or may not arrive.
NetworkFails ==
  /\ Alive /\ MayDrop /\ net.up
  /\ \E wire \in {net.wire, <<>>} :
       Becomes([Now EXCEPT !.net.up = FALSE, !.net.wire = wire,
                           !.net.out = <<>>])

\* The client. While the connection recovers it is told KErrServerBusy.
ClientAsks ==
  /\ Alive /\ ~pc.report /\ pc.op # "Recover"
  /\ \E op \in Ops : Becomes(Request(Now, op))

ClientCancels ==
  /\ Alive /\ MayCancel /\ pc.report
  /\ Becomes(CancelAndCleanup(Now))

-----------------------------------------------------------------------------
\* The login has completed and StartIdle has been called. The inbox was
\* synchronised some time ago, or never.
Init ==
  /\ ses = NewSession /\ rd = NewReader /\ net = NewNet
  /\ fault = "None"
  /\ idle \in [state : {"StartingIdle"}, stopping : {FALSE}, report : {FALSE},
               timer : {FALSE}, using : UsingIdle]
  /\ inbox \in {[size |-> n, covering |-> n, synced |-> n, fetched |-> n] :
                  n \in 0 .. 1}
  /\ job = [o \in {"Child", "Op"} |-> NoJob]
  /\ pc = [op |-> "Idle", requested |-> NoOp, report |-> FALSE,
           online |-> TRUE, answer |-> KErrNone]
  /\ ao = [o \in Objects |-> [active |-> o = "Idle", status |-> KErrNone]]

Internal == \/ IdleRunL \/ FolderRunL \/ ChildRunL \/ OpRunL \/ PcRunL
            \/ ReadRunL \/ CallBackRunL

Next == \/ Internal \/ IdleLeaves
        \/ ReissueTimer \/ FlushTimer \/ ReaderTimer
        \/ Receive \/ ReceiveFails
        \/ ServerAnswers \/ MessageArrives \/ NetworkFails
        \/ ClientAsks \/ ClientCancels

Spec == Init /\ [][Next]_vars

\* The scheduler runs every object that is ready, the server answers and the
\* socket delivers. No timer has to expire and the client need not act. This
\* is WF_vars of each action with its guard written out, which TLC evaluates
\* faster than ENABLED; none of these actions stutters.
Fairness ==
  /\ ([]<>~IdleReady \/ []<><<IdleRunL>>_vars)
  /\ ([]<>~FolderReady \/ []<><<FolderRunL>>_vars)
  /\ ([]<>~ChildReady \/ []<><<ChildRunL>>_vars)
  /\ ([]<>~OpReady \/ []<><<OpRunL>>_vars)
  /\ ([]<>~PcReady \/ []<><<PcRunL>>_vars)
  /\ ([]<>~ReadReady \/ []<><<ReadRunL>>_vars)
  /\ ([]<>~CallBackReady \/ []<><<CallBackRunL>>_vars)
  /\ ([]<>~DataReady \/ []<><<Receive>>_vars)
  /\ ([]<>~FailureReady \/ []<><<ReceiveFails>>_vars)
  /\ ([]<>~ServerReady \/ []<><<ServerAnswers>>_vars)

FairSpec == Spec /\ Fairness

-----------------------------------------------------------------------------
(***************************************************************************)
(* Properties                                                              *)
(***************************************************************************)

TypeOK ==
  /\ SessionType(ses) /\ ReaderType(rd) /\ NetType(net)
  /\ ses.report \in Objects \cup {"None"}
  /\ ao \in [Objects -> [active : BOOLEAN,
                         status : {KErrNone, KErrImapNo, KErrImapBad,
                                   KErrImapClosed, KErrImapFlushTimeout,
                                   KErrImapCorrupt, KErrCancel, KErrNoMemory,
                                   KRequestPending}]]
  /\ fault \in Assertions \cup {"None"}
  /\ idle \in [state : IdleStates, stopping : BOOLEAN, report : BOOLEAN,
               timer : BOOLEAN, using : UsingIdle]
  /\ inbox \in [size : 0 .. MaxExists, covering : 0 .. MaxExists,
                synced : 0 .. MaxExists, fetched : 0 .. MaxExists]
  /\ job \in [{"Child", "Op"} ->
                [op : Ops \cup {NoOp, [kind |-> "Copy", box |-> Inbox]},
                 step : {"None", "Start", "Select", "Fetch"},
                 report : BOOLEAN, error : BOOLEAN]]
  /\ pc \in [op : {"Idle", "StopIdle", "Op", "Recover"},
             requested : Ops \cup {NoOp}, report : BOOLEAN, online : BOOLEAN,
             answer : {KErrNone, 1, KErrCancel, KErrNoMemory,
                       KErrImapServerFail}]

\* All the lines on their way from the server to the command in progress
InFlight == Range(ses.input) \cup Range(rd.buf) \cup Range(net.wire)

\* Whatever the order of RunLs, timers, requests and lines, no debug assertion
\* of the session, the reader or the controllers fails (TImapServerPanic), but
\* for those in KnownFaults, which the find runs show.
AssertionsHold == fault \in KnownFaults \cup {"None"}

\* When an operation takes the connection from the idle controller, or the
\* idle controller takes it back, nothing is left on it of the one before:
\* no command, no request of another caller, nothing for the server to
\* answer and no line but untagged ones (StopIdle, cimapidlecontroller.cpp:
\* 455 "the session is now ready to be used").
Starts == \/ job["Op"].step = "Start"
          \/ idle.state = "StartingIdle" /\ ao["Idle"].active
SessionReady ==
  /\ ses.cmd = NoCmd /\ ses.state = "Normal" /\ ses.pending = "None"
  /\ ses.report = "None" /\ ~ses.async /\ ~IsReading(Now)
  /\ net.up => net.out = <<>> /\ ~net.idling
  /\ \A l \in InFlight : l.kind = "exists"
FreshStart == Alive /\ ses.open /\ Starts => SessionReady

\* Every tagged or continuation line on its way answers the command in
\* progress: no command ever reads the answer of an earlier one, although a
\* command that was cancelled accepts any tag (cimapcommand.cpp:238).
AnswersBelongToCommand ==
  Alive /\ ses.open =>
    \A l \in InFlight :
       l.kind # "exists" => ses.cmd # NoCmd /\ ses.cmd.tag = l.tag

\* The mailbox that the session believes selected, and on the strength of
\* which SelectL sends nothing (cimapsession.cpp:462), is the server's.
SelectedAgrees ==
  Alive /\ net.up /\ ses.folder # NoFolder /\ ses.cmd.kind # "Select"
    => net.selected = ses.folder.box

\* While the controller idles and every line has been read, no message of
\* the inbox is missing from the mirror (Changed, cimapfolder.cpp:947).
Watching == idle.state \in {"Idling", "WaitingForServerEvent"}
            /\ ao["Idle"].active /\ ao["Idle"].status = KRequestPending
IdleMeansSynced ==
  Alive /\ net.up /\ Watching /\ InFlight = {} => inbox.synced = net.exists

\* The server never reads a command while it is in IDLE, nor DONE while it
\* is not.
ServerNeverConfused == Alive /\ net.up => ~Confused(net)

\* A time limit on the reader runs only while the answer to DONE is due: a
\* quiet connection is not given up.
LimitOnlyForAnswer ==
  Alive /\ rd.timer => ses.cmd.kind = "Idle" /\ ses.cmd.idle = "WaitDone"

\* The connection goes from one user to the next as ImapPrimary says.
Owner == CASE ~pc.online -> "Offline"
           [] pc.op = "Recover" -> "Recover"
           [] pc.op = "Op" -> "Op"
           [] OTHER -> "Idle"
Primary == INSTANCE ImapPrimary WITH
  owner   <- IF pc.online THEN Owner ELSE "Offline",
  busy    <- ses.cmd.kind \notin {"None", "Wait"},
  request <- pc.report
ImplementsPrimary == Primary!Spec

\* Every request is answered.
RequestAnswered == pc.report ~> (~pc.report \/ fault # "None")

\* The recovery from a cancel ends, whatever was cancelled: the client is
\* not told KErrServerBusy for ever.
RecoveryEnds == pc.op = "Recover" ~> (pc.op # "Recover" \/ ~Alive)

\* A change is found in the end: the mirror catches up, or the connection is
\* handed to the client or lost.
ChangeIsFound ==
  (net.exists # inbox.synced)
     ~> (net.exists = inbox.synced \/ pc.op # "Idle" \/ ~Alive)

=============================================================================
