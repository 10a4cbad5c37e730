--------------------------- MODULE SmsOutboxSend ---------------------------
(***************************************************************************)
(* Sending from the outbox: CSmsServerMtm::CopyFromLocalL and the chain of *)
(* active objects below it,                                                *)
(*                                                                         *)
(*   Mtm (CSmsServerMtm) > Outbox (CSmsOutboxSend) >                       *)
(*     Session (CSmsSendSession) > Send (CSmsSend) >                       *)
(*       Rcpt (CTextRecipientSend / CWapRecipientSend) > logger, socket    *)
(*                                                                         *)
(* All of them run in the message server's one thread, so that one RunL,   *)
(* with every synchronous call it makes, is one action. Between two RunLs  *)
(* the client may suspend, resume or delete a message, poll the progress   *)
(* or cancel the request. Modelled: the build without                      *)
(* SYMBIAN_USER_PROMPT_SERVICE. Start is only ever called with aMove =     *)
(* EFalse (SMSSERV.CPP:66), so iMove is left out.                          *)
(***************************************************************************)
EXTENDS SmsMessageStore, SequencesExt

CONSTANTS
  InitStates,        \* sending states a message may have at the start
  ConditionsMet,     \* results of ConditionsMetL to explore
  LogResults,        \* results of an operation of the event logger
  SentFolderExists,  \* whether the store has a Sent folder
  ClientOps,         \* the client operations to explore
  MaxRequests        \* bound: number of send requests

ASSUME OutboxAssumption ==
  /\ InitStates \subseteq SendingStates \ {"Sending", "Sent"}
  /\ ConditionsMet \subseteq BOOLEAN
  /\ LogResults \subseteq {KErrNone, KErrNotFound, KErrGeneral}
  /\ SentFolderExists \in BOOLEAN
  /\ ClientOps \subseteq {"Suspend", "Resume", "Delete", "Poll", "Cancel"}
  /\ MaxRequests \in Nat

VARIABLES
  \* the message store, shared with the client
  index,      \* index[m]: the index entry of m
  header,     \* header[m]: the recipients in the stored header of m
  ctx,        \* iServerEntry.Entry().Id(): the entry this MTM has locked
  \* CSmsOutboxSend, CSmsSendSession, CSmsSend, CSmsRecipientSend
  entry,      \* iEntry, shared by CSmsOutboxSend and CSmsSend
  hdr,        \* iSmsHeader, shared by the whole chain
  progress,   \* iProgress, shared by the whole chain
  current,    \* iCurrentMessage
  selection,  \* iMsvEntrySelection
  queue,      \* messages IncSms has yet to return
  condMet,    \* iCondMet
  send,       \* the state of CSmsSend
  rcptState,  \* iState of CSmsRecipientSend
  logRes,     \* iLogger->iStatus of the logger that completed last
  ao,         \* the active objects: IsActive, iStatus, iReport # NULL
  \* history
  delivered,  \* delivered[m][i]: how often i was handed to the network
              \* by the last request
  handed,     \* handed[m]: the recipients ever handed to the network
  requests    \* number of requests so far

storeVars == <<index, header>>
memVars   == <<entry, hdr>>
outVars   == <<selection, condMet>>
histVars  == <<delivered, handed, requests>>
vars == <<index, header, ctx, entry, hdr, progress, current, selection, queue,
          condMet, send, rcptState, logRes, ao, delivered, handed, requests>>

Objects == {"Mtm", "Outbox", "Session", "Send", "Rcpt"}

OutboxStates == {"Waiting", "FindingOtherMessages", "Sending", "ReScheduling",
                 "AddLogEvent", "GetLogEvent", "ChangeLogEvent",
                 "LogEntryComplete", "MovingEntry", "Complete"}

RcptStates == {"Waiting", "GetLogEvent", "AddLogEvent", "ChangeLogEvent",
               "SendingMessage"}

\* TSmsProgress(). rcpDone is -1 before the first recipient is logged.
NewProgress == [state |-> "Waiting", error |-> KErrNone, msgDone |-> 0,
                msgCount |-> 0, rcpDone |-> 0, rcpCount |-> 0]

Exists(m) == m # NoMsg /\ index[m].folder # "None"

NothingDelivered == [m \in Msgs |-> [i \in 1 .. RcpCount[m] |-> 0]]

-----------------------------------------------------------------------------
(* CActive and CSmssActive: the life of one asynchronous request           *)

IdleObject == [active |-> FALSE, status |-> KErrNone, report |-> FALSE]

Parent(o) == CASE o = "Outbox"  -> "Mtm"
               [] o = "Session" -> "Outbox"
               [] o = "Send"    -> "Session"
               [] o = "Rcpt"    -> "Send"

\* o's request has completed and the scheduler may call its RunL.
Runnable(o) == ao[o].active /\ ao[o].status # KRequestPending

\* o, which has been asked by its parent, is active until it is answered.
Awaits(a, o) == [a EXCEPT ![o] = [active |-> TRUE, status |-> KRequestPending,
                                  report |-> TRUE]]

\* Bugs: an object never completes its own request, or never its parent's.
BugNeverRuns(a, o, e) == Awaits(a, o)

BugAnswersNobody(a, o, e) == [a EXCEPT ![o] = IdleObject]

\* o calls RequestComplete(&iStatus, e, ETrue): its own RunL comes next.
RunsNext(a, o, e) == [a EXCEPT ![o] = [active |-> TRUE, status |-> e,
                                       report |-> TRUE]]

\* Complete(): o answers its parent and is at rest.
Answers(a, o, e) == [a EXCEPT ![o] = IdleObject, ![Parent(o)].status = e]

-----------------------------------------------------------------------------
TypeOK ==
  /\ index \in [Msgs -> EntryRec]
  /\ DOMAIN header = Msgs /\ \A m \in Msgs : header[m] \in Rcpts(m)
  /\ ctx \in Msgs \cup {NoMsg}
  /\ entry \in EntryRec
  /\ hdr.id \in Msgs \cup {NoMsg}
  /\ hdr = IF hdr.id = NoMsg THEN NullHeader
           ELSE [id |-> hdr.id, rcpts |-> hdr.rcpts]
  /\ hdr.id # NoMsg => hdr.rcpts \in Rcpts(hdr.id)
  /\ progress \in [state : OutboxStates, error : Errors, msgDone : Int,
                   msgCount : Nat, rcpDone : Int, rcpCount : Nat]
  /\ current \in Msgs \cup {NoMsg}
  /\ selection \subseteq Msgs
  /\ queue \in Seq(Msgs)
  /\ condMet \in BOOLEAN
  /\ send \in SendRec
  /\ rcptState \in RcptStates
  /\ logRes \in LogResults \cup {KErrNone}
  /\ ao \in [Objects -> [active : BOOLEAN, status : Errors \cup {KRequestPending},
                         report : BOOLEAN]]
  /\ DOMAIN delivered = Msgs /\ \A m \in Msgs : delivered[m] \in [1 .. RcpCount[m] -> Nat]
  /\ DOMAIN handed = Msgs /\ \A m \in Msgs : handed[m] \subseteq 1 .. RcpCount[m]
  /\ requests \in 0 .. MaxRequests

Init ==
  /\ \E s \in [Msgs -> InitStates] :
       index = [m \in Msgs |->
                  [NullEntry EXCEPT !.id = m, !.folder = "Outbox", !.state = s[m],
                                    !.scheduled = (s[m] = "Resend"),
                                    !.failed = (s[m] = "Failed")]]
  /\ header = [m \in Msgs |-> [i \in 1 .. RcpCount[m] |-> NewRcpt]]
  /\ ctx = NoMsg
  /\ entry = NullEntry /\ hdr = NullHeader
  /\ progress = NewProgress
  /\ current = NoMsg /\ selection = {} /\ queue = <<>> /\ condMet = FALSE
  /\ send = NewSend /\ rcptState = "Waiting" /\ logRes = KErrNone
  /\ ao = [o \in Objects |-> IdleObject]
  /\ delivered = NothingDelivered /\ handed = [m \in Msgs |-> {}]
  /\ requests = 0

-----------------------------------------------------------------------------
(* CSmsOutboxSend::Start: what to send                                     *)

\* The messages FindOtherMessagesL adds to those it was asked to send.
Found(sel) == {m \in Msgs \ sel : /\ index[m].folder = "Outbox"
                                  /\ index[m].state \in {"Waiting", "Unknown"}}

\* DivideMessagesL drops every other message from the selection.
Accepted(all) == {m \in all : Exists(m) /\ Kind[m] \in {"text", "wap"}}

BadBio(all) == {m \in all : Exists(m) /\ Kind[m] = "badBio"}

\* What DivideMessagesL makes of the entries of the messages it drops.
Divided(done) ==
  [m \in Msgs |->
     IF m \notin done \/ ~Exists(m) THEN index[m]
     ELSE CASE Kind[m] = "storeDenied" -> [index[m] EXCEPT !.state = "Waiting"]
            [] Kind[m] = "badBio" ->
                 [index[m] EXCEPT !.failed = TRUE, !.state = "Failed",
                                  !.err = KErrUnknownBioType]
            [] OTHER -> index[m]]

\* The error it leaves with when no message is left (possibly KErrNone).
DivideError(all) ==
  IF all = {} THEN KErrNotFound
  ELSE IF BadBio(all) # {} THEN KErrUnknownBioType
  ELSE IF \E m \in all : ~Exists(m) THEN KErrNotFound
  ELSE KErrNone

\* WAP messages before text messages; those asked for before those found.
SendOrder(sel, m) == <<IF Kind[m] = "wap" THEN 0 ELSE 1, IF m \in sel THEN 0 ELSE 1>>

Queues(sel, acc) ==
  {q \in SetToSeqs(acc) :
     \A i, j \in DOMAIN q : i < j =>
       LET a == SendOrder(sel, q[i])  b == SendOrder(sel, q[j])
       IN  a[1] < b[1] \/ (a[1] = b[1] /\ a[2] <= b[2])}

\* FindOtherMessagesL with the conditions met: what is to be sent waits.
MadeWaiting(ix, acc) ==
  [m \in Msgs |->
     IF m \in acc /\ ix[m].state # "Waiting" /\ CanSendMessage(ix[m])
       THEN [ix[m] EXCEPT !.state = "Waiting"]
       ELSE ix[m]]

\* The action ConditionsMetL returns when the conditions are not met.
CondAction == [action |-> "RetryLater", infinite |-> FALSE, max |-> MaxRetries]

CondActions(m) == [i \in 1 .. RcpCount[m] |-> CondAction]

HeaderOf(hs, m) == IF m = NoMsg THEN NullHeader ELSE [id |-> m, rcpts |-> hs[m]]

\* CSmsHeader::RestoreL leaves, before or after it has destroyed the recipients.
HalfRead == {hdr, NullHeader}

\* A request arrives, the objects of the chain are made, and Start ends by
\* completing the outbox sender's own request with the error of
\* FindOtherMessagesL.
Starts(err) ==
  /\ ~ao["Mtm"].report
  /\ requests < MaxRequests
  /\ requests' = requests + 1
  /\ ao' = RunsNext(Awaits(ao, "Mtm"), "Outbox", err)
  /\ delivered' = NothingDelivered
  /\ UNCHANGED <<current, send, rcptState, logRes, handed>>

StartSend(sel) ==
  LET all == sel \cup Found(sel)
      acc == Accepted(all)
      ix  == MadeWaiting(Divided(all), acc)
  IN  /\ TRUE \in ConditionsMet
      /\ acc # {}
      /\ Starts(KErrNone)
      /\ \E q \in Queues(sel, acc), c \in acc :
           /\ queue' = q
           /\ ctx' = c /\ entry' = ix[c]
           /\ \E h \in {c} \cup BadBio(all) : hdr' = HeaderOf(header, h)
      /\ index' = ix
      /\ selection' = acc /\ condMet' = TRUE
      /\ progress' = [NewProgress EXCEPT !.state = "FindingOtherMessages",
                                         !.msgDone = -1,
                                         !.msgCount = Cardinality(acc)]
      /\ UNCHANGED header

\* The conditions are not right for sending: every message is re-scheduled.
\* "done" is all of them, or less when DoReScheduleL leaves with err.
StartReSchedules(sel, err, done) ==
  LET all == sel \cup Found(sel)
      acc == Accepted(all)
      ix  == Divided(all)
      hs  == [m \in Msgs |-> IF m \in done
                               THEN ReScheduledRecipients(header[m], CondActions(m))
                               ELSE header[m]]
      ix2 == [m \in Msgs |-> IF m \in done
                               THEN ReScheduledEntry(ix[m], header[m], CondActions(m))
                               ELSE ix[m]]
  IN  /\ FALSE \in ConditionsMet
      /\ acc # {} /\ done \subseteq acc
      /\ err = KErrNone <=> done = acc
      /\ Starts(err)
      /\ \E q \in Queues(sel, acc), c \in acc :
           /\ queue' = q
           /\ ctx' = c /\ entry' = ix2[c]
           /\ IF err = KErrNone THEN hdr' = HeaderOf(hs, c)
              ELSE \E h \in acc \cup BadBio(all) \cup {NoMsg} : hdr' = HeaderOf(hs, h)
      /\ index' = ix2 /\ header' = hs
      /\ selection' = acc /\ condMet' = FALSE
      /\ progress' = [NewProgress EXCEPT !.state = "Complete", !.msgDone = -1,
                                         !.msgCount = Cardinality(acc)]

\* Nothing to send: DivideMessagesL leaves with its error, which is KErrNone
\* when all messages are being composed or written by someone else.
StartFindsNothing(sel) ==
  LET all == sel \cup Found(sel)
  IN  /\ Accepted(all) = {}
      /\ Starts(DivideError(all))
      /\ \E c \in {m \in all : Exists(m)} \cup {NoMsg} : ctx' = c
      /\ hdr' \in {HeaderOf(header, m) : m \in BadBio(all) \cup {NoMsg}}
      /\ index' = Divided(all)
      /\ selection' = {} /\ queue' = <<>> /\ condMet' = FALSE
      /\ progress' = [NewProgress EXCEPT !.state = "FindingOtherMessages"]
      /\ UNCHANGED <<header, entry>>

\* A store operation leaves, while the outbox is searched or while the
\* messages in "done" have been divided (the last of the selection first).
StartFails(sel, err, found, done) ==
  LET all == sel \cup found
  IN  /\ found \subseteq Found(sel)
      /\ done \subseteq all /\ done # all
      /\ done # {} => found = Found(sel)
      /\ done \cap sel # {} => found \subseteq done
      /\ Starts(err)
      /\ \E c \in {m \in all : Exists(m)} \cup {NoMsg} : ctx' = c
      /\ hdr' \in {HeaderOf(header, m) : m \in Accepted(done) \cup BadBio(done) \cup {NoMsg}}
      /\ index' = Divided(done)
      /\ selection' = (all \ done) \cup Accepted(done)
      /\ queue' = <<>> /\ condMet' = FALSE
      /\ progress' = [NewProgress EXCEPT !.state = "FindingOtherMessages",
                                         !.msgCount = Cardinality(Accepted(done))]
      /\ UNCHANGED <<header, entry>>

-----------------------------------------------------------------------------
(* CSmsOutboxSend, CSmsSendSession::SendSms and CSmsSend::Start: the next  *)
(* message                                                                 *)

\* The outbox sender waits for the session, and the session for CSmsSend,
\* which has completed its own request with err.
ChainStarts(err) ==
  RunsNext(Awaits(Awaits(ao, "Outbox"), "Session"), "Send", err)

\* OpenEntryL, once iServerEntry is set to m; p is the progress before it.
OpensEntry(m, p) ==
  /\ RcpCount[m] > 0
  /\ progress' = [p EXCEPT !.rcpDone = 0, !.rcpCount = RcpCount[m]]
  /\ ao' = ChainStarts(KErrNone)
  /\ entry' = OpenedEntry(index[m])
  /\ index' = [index EXCEPT ![m] = OpenedEntry(index[m])]
  /\ hdr' = HeaderOf(header, m)
  /\ send' = [send EXCEPT !.state = "OpeningEntry", !.sentRcpts = 0,
                          !.reports = m \in DeliveryReports]

\* ReadStoreL or RestoreL leaves: what CSmsSend knows is from the message before.
OpenCannotRead(m, p) ==
  /\ progress' = p
  /\ \E err \in StoreErrors : ao' = ChainStarts(err)
  /\ entry' = index[m]
  /\ hdr' \in HalfRead
  /\ send' = [send EXCEPT !.state = "OpeningEntry"]
  /\ UNCHANGED index

OpenFindsNoRecipient(m, p) ==
  /\ RcpCount[m] = 0
  /\ progress' = [p EXCEPT !.rcpDone = 0, !.rcpCount = 0]
  /\ ao' = ChainStarts(KErrNotFound)
  /\ entry' = index[m]
  /\ hdr' = HeaderOf(header, m)
  /\ send' = [send EXCEPT !.state = "OpeningEntry"]
  /\ UNCHANGED index

OpenCannotChange(m, p) ==
  /\ RcpCount[m] > 0
  /\ progress' = [p EXCEPT !.rcpDone = 0, !.rcpCount = RcpCount[m]]
  /\ \E err \in StoreErrors : ao' = ChainStarts(err)
  /\ entry' = OpenedEntry(index[m])
  /\ hdr' = HeaderOf(header, m)
  /\ send' = [send EXCEPT !.state = "OpeningEntry", !.sentRcpts = 0,
                          !.reports = m \in DeliveryReports]
  /\ UNCHANGED index

\* SendNextHeaderL: skip the messages that cannot be sent any more; send the
\* next one, or complete when there is none.
SendNextHeaderL ==
  LET sendable == {i \in 0 .. Len(queue) - 1 : /\ Exists(queue[i + 1])
                                               /\ CanSendMessage(index[queue[i + 1]])}
      skipped  == FirstFrom(0, Len(queue), sendable)
      passed   == {i \in 1 .. skipped : Exists(queue[i])}
      p        == [progress EXCEPT !.msgDone = @ + skipped + 1]
  IN  /\ queue' = SubSeq(queue, skipped + 2, Len(queue))
      /\ \/ /\ skipped = Len(queue)
            /\ current' = NoMsg
            /\ progress' = [p EXCEPT !.state = "Complete"]
            /\ \/ passed = {} /\ ctx' = ctx
               \/ \E k \in passed : ctx' = queue[k] /\ \A j \in passed : j <= k
            /\ ao' = RunsNext(ao, "Outbox", KErrNone)
            /\ UNCHANGED <<index, entry, hdr, send>>
         \/ /\ skipped < Len(queue)
            /\ LET m == queue[skipped + 1]
                   q == [p EXCEPT !.state = "Sending"]
               IN  /\ current' = m
                   /\ ctx' = m
                   /\ \/ OpensEntry(m, q)
                      \/ OpenFindsNoRecipient(m, q)
                      \/ OpenCannotChange(m, q)
                      \/ OpenCannotRead(m, q)
      /\ UNCHANGED <<header, selection, condMet, rcptState, logRes, histVars>>

-----------------------------------------------------------------------------
(* CSmsOutboxSend::DoRunL                                                  *)

\* Complete(e) with DoComplete: the message server's entry ends on one of
\* the messages FailOutstandingMessages went through.
OutboxAnswers(ix, e) ==
  LET err   == IF progress.error = KErrNone THEN e ELSE progress.error
      fails == err # KErrNone \/ ~condMet
      seen  == {m \in selection : ix[m].folder # "None"}
  IN  /\ progress' = [progress EXCEPT !.state = "Waiting", !.error = err]
      /\ ao' = Answers(ao, "Outbox", e)
      /\ index' = IF fails THEN FailOutstanding(ix, selection, err, "Failed") ELSE ix
      /\ IF fails /\ seen # {} THEN ctx' \in seen ELSE ctx' = ctx

OutboxFails ==
  /\ Runnable("Outbox") /\ ao["Outbox"].status # KErrNone
  /\ OutboxAnswers(index, ao["Outbox"].status)
  /\ UNCHANGED <<header, memVars, current, outVars, queue, send, rcptState, logRes, histVars>>

OutboxRuns(states) ==
  /\ Runnable("Outbox") /\ ao["Outbox"].status = KErrNone
  /\ progress.state \in states

OutboxSendsNext ==
  /\ OutboxRuns({"FindingOtherMessages", "MovingEntry"})
  /\ SendNextHeaderL

OutboxCompletes ==
  /\ OutboxRuns({"Complete"})
  /\ OutboxAnswers(index, KErrNone)
  /\ UNCHANGED <<header, memVars, current, outVars, queue, send, rcptState, logRes, histVars>>

\* Bug: a deleted message is logged and moved like any other.
BugLogsDeleted ==
  /\ OutboxRuns({"Sending"})
  /\ ctx # entry.id /\ ~Exists(entry.id)
  /\ progress' = [progress EXCEPT !.state = "ReScheduling"]
  /\ ao' = RunsNext(ao, "Outbox", KErrNone)
  /\ UNCHANGED <<storeVars, ctx, memVars, current, outVars, queue, send, rcptState,
                 logRes, histVars>>

\* ReScheduleFailedMessageL, when the user has deleted the message.
OutboxMessageDeleted ==
  /\ OutboxRuns({"Sending"})
  /\ ctx # entry.id /\ ~Exists(entry.id)
  /\ SendNextHeaderL

\* Bug: the error of an earlier recipient is not looked at.
BugJudgesLastRecipient == IF ctx # entry.id THEN index[entry.id] ELSE entry

\* ReScheduleFailedMessageL: iEntry as it decides on it.
JudgedEntry ==
  LET e == IF ctx # entry.id THEN index[entry.id] ELSE entry
  IN  IF ~e.failed /\ progress.error # KErrNone
        THEN [e EXCEPT !.failed = TRUE, !.err = progress.error]
        ELSE e

OutboxSendingDone ==
  /\ OutboxRuns({"Sending"})
  /\ ctx = entry.id \/ Exists(entry.id)
  /\ ~(JudgedEntry.failed /\ JudgedEntry.state # "Suspended")
  /\ ctx' = entry.id
  /\ entry' = [JudgedEntry EXCEPT !.scheduled = FALSE]    \* SendingCompleteL
  /\ progress' = [progress EXCEPT !.state = "ReScheduling"]
  /\ ao' = RunsNext(ao, "Outbox", KErrNone)
  /\ UNCHANGED <<storeVars, hdr, current, outVars, queue, send, rcptState, logRes, histVars>>

\* DoReScheduleL. It may leave before the scheduler has touched the message,
\* or afterwards, when the entry and the header are read again.
OutboxReSchedules ==
  LET m   == entry.id
      act == ListedActions(header[m])
      ix  == [index EXCEPT ![m] = ReScheduledEntry(@, header[m], act)]
      hs  == [header EXCEPT ![m] = ReScheduledRecipients(@, act)]
  IN  /\ OutboxRuns({"Sending"})
      /\ ctx = m \/ Exists(m)
      /\ JudgedEntry.failed /\ JudgedEntry.state # "Suspended"
      /\ \/ /\ index' = ix /\ header' = hs
            /\ ctx' = m /\ entry' = ix[m] /\ hdr' = HeaderOf(hs, m)
            /\ progress' = [progress EXCEPT !.state = "ReScheduling"]
            /\ ao' = RunsNext(ao, "Outbox", KErrNone)
         \/ \E e \in StoreErrors :
              /\ OutboxAnswers(index, e)
              /\ entry' = JudgedEntry
              /\ UNCHANGED <<header, hdr>>
         \/ \E e \in StoreErrors :
              /\ OutboxAnswers(ix, e)
              /\ entry' = ix[m] /\ header' = hs /\ hdr' \in HalfRead
      /\ UNCHANGED <<current, outVars, queue, send, rcptState, logRes, histVars>>

\* LogEntry: look at the recipients rs after "from" for one to log; p is the
\* progress before it.
LogEntry(p, rs, from) ==
  LET toLog == {i \in 0 .. p.rcpCount - 1 : CanLogRecipient(rs[i + 1])}
      next  == FirstFrom(from + 1, p.rcpCount, toLog)
  IN  IF MessageSent(entry) \/ next = p.rcpCount
        THEN /\ progress' = [p EXCEPT !.state = "LogEntryComplete",
                               !.rcpDone = IF MessageSent(entry) THEN from + 1 ELSE next]
             /\ ao' = RunsNext(ao, "Outbox", KErrNone)
        ELSE /\ progress' = [p EXCEPT !.rcpDone = next,
                               !.state = IF rs[next + 1].log
                                           THEN "GetLogEvent" ELSE "AddLogEvent"]
             /\ ao' = Awaits(ao, "Outbox")

OutboxReScheduled ==
  /\ OutboxRuns({"ReScheduling"})
  /\ hdr' = hdr
  /\ LogEntry([progress EXCEPT !.rcpCount = RcpCount[hdr.id]],
              hdr.rcpts, -1)
  /\ UNCHANGED <<storeVars, ctx, entry, current, outVars, queue, send, rcptState,
                 logRes, histVars>>

OutboxGotLogEvent ==
  /\ OutboxRuns({"GetLogEvent"})
  /\ hdr' = hdr
  /\ IF logRes = KErrNone \/ -logRes = KErrNotFound
       THEN /\ progress' = [progress EXCEPT !.state = IF logRes = KErrNone
                                          THEN "ChangeLogEvent" ELSE "AddLogEvent"]
            /\ ao' = Awaits(ao, "Outbox")
       ELSE LogEntry(progress, hdr.rcpts, progress.rcpDone)
  /\ UNCHANGED <<storeVars, ctx, entry, current, outVars, queue, send, rcptState,
                 logRes, histVars>>

OutboxWroteLogEvent ==
  /\ OutboxRuns({"AddLogEvent", "ChangeLogEvent"})
  /\ hdr' = IF progress.state = "AddLogEvent"
              THEN [hdr EXCEPT !.rcpts[progress.rcpDone + 1].log = (logRes = KErrNone)]
              ELSE hdr
  /\ LogEntry(progress, hdr'.rcpts, progress.rcpDone)
  /\ UNCHANGED <<storeVars, ctx, entry, current, outVars, queue, send, rcptState,
                 logRes, histVars>>

\* MoveEntryL, for a message that was sent.
OutboxMovesSent ==
  LET m    == entry.id
      sent == [entry EXCEPT !.connected = FALSE, !.failed = FALSE, !.state = "Sent"]
  IN  /\ OutboxRuns({"LogEntryComplete"})
      /\ MessageSent(entry)
      /\ \/ /\ entry' = IF SentFolderExists THEN [sent EXCEPT !.folder = "Sent"] ELSE sent
            /\ index' = [index EXCEPT ![m] = entry']
            /\ progress' = [progress EXCEPT !.state = "MovingEntry"]
            /\ ao' = RunsNext(ao, "Outbox", KErrNone)
            /\ UNCHANGED ctx
         \/ /\ sent # index[m]        \* ChangeEntry fails
            /\ \E e \in StoreErrors : OutboxAnswers(index, e)
            /\ entry' = sent
         \/ /\ SentFolderExists       \* MoveEntryWithinService fails
            /\ \E e \in StoreErrors : OutboxAnswers([index EXCEPT ![m] = sent], e)
            /\ entry' = sent
      /\ UNCHANGED <<header, hdr, current, outVars, queue, send, rcptState, logRes, histVars>>

\* MoveEntryL, for a message that was not: it stays in the outbox.
OutboxKeepsUnsent ==
  LET m == entry.id
  IN  /\ OutboxRuns({"LogEntryComplete"})
      /\ ~MessageSent(entry)
      /\ \/ /\ index' = [index EXCEPT ![m] = entry]
            /\ header' = IF entry = index[m] THEN header
                         ELSE [header EXCEPT ![m] = hdr.rcpts]
            /\ progress' = [progress EXCEPT !.state = "MovingEntry"]
            /\ ao' = RunsNext(ao, "Outbox", KErrNone)
            /\ UNCHANGED ctx
         \/ /\ entry # index[m]
            /\ \E e \in StoreErrors : OutboxAnswers(index, e)
            /\ header' \in {header, [header EXCEPT ![m] = hdr.rcpts]}
      /\ UNCHANGED <<memVars, current, outVars, queue, send, rcptState, logRes, histVars>>

-----------------------------------------------------------------------------
(* CSmsSendSession: passes the answer of CSmsSend on                       *)

SessionRuns ==
  /\ Runnable("Session")
  /\ progress' = IF ao["Session"].status # KErrNone /\ progress.error = KErrNone
                   THEN [progress EXCEPT !.error = ao["Session"].status] ELSE progress
  /\ ao' = Answers(ao, "Session", KErrNone)
  /\ UNCHANGED <<storeVars, ctx, memVars, current, outVars, queue, send, rcptState,
                 logRes, histVars>>

-----------------------------------------------------------------------------
(* CSmsSend: one message, recipient by recipient                           *)

SendRuns(states) ==
  /\ Runnable("Send") /\ ao["Send"].status = KErrNone
  /\ send.state \in states

\* What CSmsSend changes, as a value: a call may go through several changes.
Snapshot(ix, en, p, sn, c) ==
  [index |-> ix, entry |-> en, progress |-> p, send |-> sn, ctx |-> c]

\* DoComplete(e) with e # KErrNone, as a function of what it reads: the entry
\* is read again, marked with the error and, when "stores", written.
SendCompleted(s, e, stores) ==
  LET m    == s.entry.id
      done == EntryAfterAllSent([s.index[m] EXCEPT !.err = e], s.send,
                                s.progress.rcpCount)
      p    == [s.progress EXCEPT !.error = e]
      sn   == [s.send EXCEPT !.state = "Waiting"]
  IN  IF m # NoMsg /\ s.index[m].folder # "None"
        THEN Snapshot(IF stores THEN [s.index EXCEPT ![m] = done] ELSE s.index, done, p,
                      [sn EXCEPT !.failedStatus = KErrNone], m)
        ELSE Snapshot(s.index, s.entry, p, sn, s.ctx)

Becomes(s) == /\ index' = s.index /\ entry' = s.entry /\ progress' = s.progress
              /\ send' = s.send /\ ctx' = s.ctx

\* Whether a ChangeEntryL whose error is ignored succeeds.
Stores == IF StoreErrors = {} THEN {TRUE} ELSE BOOLEAN

SendFails ==
  /\ Runnable("Send") /\ ao["Send"].status # KErrNone
  /\ \E st \in Stores : Becomes(SendCompleted(Snapshot(index, entry, progress, send, ctx),
                                               ao["Send"].status, st))
  /\ ao' = Answers(ao, "Send", KErrNone)
  /\ UNCHANGED <<header, hdr, current, outVars, queue, rcptState, logRes, histVars>>

\* SendNextRecipientL: the next recipient that can be sent to, from 0.
NextRecipient ==
  FirstFrom(progress.rcpDone, progress.rcpCount,
            {i \in 0 .. progress.rcpCount - 1 :
               CanSendMessageToRecipient(entry, hdr.rcpts[i + 1])})

\* The entry is unlocked while CSmsRecipientSend::Start logs the recipient.
SendNextRecipient ==
  /\ SendRuns({"OpeningEntry", "UpdatingRecipient"})
  /\ NextRecipient < progress.rcpCount
  /\ progress' = [progress EXCEPT !.rcpDone = NextRecipient]
  /\ send' = [send EXCEPT !.state = "SendingEntry"]
  /\ rcptState' = IF hdr.rcpts[NextRecipient + 1].log THEN "GetLogEvent" ELSE "AddLogEvent"
  /\ ctx' = NoMsg
  /\ ao' = Awaits(Awaits(ao, "Send"), "Rcpt")
  /\ UNCHANGED <<storeVars, memVars, current, outVars, queue, logRes, histVars>>

\* UpdateEntryAfterAllSentL, then DoComplete; or ChangeEntryL leaves.
SendAllTried ==
  LET done == EntryAfterAllSent(entry, send, progress.rcpCount)
  IN  /\ SendRuns({"OpeningEntry", "UpdatingRecipient"})
      /\ NextRecipient = progress.rcpCount
      /\ \/ /\ index' = [index EXCEPT ![entry.id] = done]
            /\ entry' = done
            /\ progress' = [progress EXCEPT !.rcpDone = progress.rcpCount,
                              !.error = IF @ = KErrNone THEN send.failedStatus ELSE @]
            /\ send' = [send EXCEPT !.state = "Waiting", !.failedStatus = KErrNone]
            /\ UNCHANGED ctx
         \/ /\ done # index[entry.id]
            /\ \E e \in StoreErrors, st \in Stores :
                 Becomes(SendCompleted(
                   Snapshot(index, entry, [progress EXCEPT !.rcpDone = progress.rcpCount],
                            [send EXCEPT !.failedStatus = KErrNone], ctx), e, st))
      /\ ao' = Answers(ao, "Send", KErrNone)
      /\ UNCHANGED <<header, hdr, current, outVars, queue, rcptState, logRes, histVars>>

\* UpdateAfterRecipientSentL, when the message has been deleted meanwhile.
SendFindsDeleted ==
  /\ SendRuns({"SendingEntry"})
  /\ ~Exists(entry.id)
  /\ Becomes(SendCompleted(
       Snapshot(index, entry, [progress EXCEPT !.rcpDone = @ + 1], send, ctx),
       KErrNotFound, TRUE))
  /\ ao' = Answers(ao, "Send", KErrNone)
  /\ UNCHANGED <<header, hdr, current, outVars, queue, rcptState, logRes, histVars>>

\* UpdateAfterRecipientSentL: the entry is read again, the result goes into
\* the recipient and the header is stored; or StoreHeaderL leaves.
SendRecipientDone ==
  LET m    == entry.id
      err  == progress.error
      i    == progress.rcpDone + 1
      rs   == [hdr.rcpts EXCEPT ![i] = RecipientAfterSend(@, err, send.reports)]
      e    == IF err = KErrNone THEN index[m]
              ELSE [index[m] EXCEPT !.err = err, !.failed = TRUE]
      s    == [send EXCEPT !.state = "UpdatingRecipient",
                 !.failedStatus = IF err # KErrNone /\ progress.rcpCount > 1
                                    THEN err ELSE @,
                 !.sentRcpts = IF err = KErrNone /\ send.reports THEN @ + 1 ELSE @]
      snap == Snapshot(index, e, [progress EXCEPT !.rcpDone = i], s, m)
  IN  /\ SendRuns({"SendingEntry"})
      /\ Exists(m)
      /\ hdr' = [hdr EXCEPT !.rcpts = rs]
      /\ \/ /\ header' = [header EXCEPT ![m] = rs]
            /\ Becomes(snap)
            /\ ao' = RunsNext(ao, "Send", KErrNone)
         \/ /\ \E x \in StoreErrors, st \in Stores : Becomes(SendCompleted(snap, x, st))
            /\ ao' = Answers(ao, "Send", KErrNone)
            /\ UNCHANGED header
      /\ UNCHANGED <<current, outVars, queue, rcptState, logRes, histVars>>

-----------------------------------------------------------------------------
(* CSmsRecipientSend: log one recipient, then send to it                   *)

\* The recipient CSmsRecipientSend works on.
Recipient == progress.rcpDone + 1

RcptRuns(states) ==
  /\ Runnable("Rcpt") /\ ao["Rcpt"].status = KErrNone
  /\ rcptState \in states

\* Bug: the error is negated, as the logger's errors are.
BugNegatesError(e) ==
  /\ rcptState' = "Waiting"
  /\ progress' = [progress EXCEPT !.error = -e]
  /\ ao' = Answers(ao, "Rcpt", KErrNone)

\* Complete(e) with DoComplete: the result goes into iProgress.iError.
RcptAnswers(e) ==
  /\ rcptState' = "Waiting"
  /\ progress' = [progress EXCEPT !.error = e]
  /\ ao' = Answers(ao, "Rcpt", KErrNone)

RcptFails ==
  /\ Runnable("Rcpt") /\ ao["Rcpt"].status # KErrNone
  /\ RcptAnswers(ao["Rcpt"].status)
  /\ UNCHANGED <<storeVars, ctx, memVars, current, outVars, queue, send, logRes, histVars>>

\* SendMessageL with hdr' in memory. A text message stores it first; a WAP
\* message does not. Either may fail to open its socket.
SendMessageL ==
  LET m    == entry.id
      text == Kind[m] = "text"
      hs   == IF text THEN [header EXCEPT ![m] = hdr'.rcpts] ELSE header
  IN  \/ /\ text /\ ~Exists(m)
         /\ RcptAnswers(KErrNotFound)
         /\ UNCHANGED <<header, ctx>>
      \/ /\ text /\ Exists(m)
         /\ \E e \in StoreErrors : RcptAnswers(e)
         /\ ctx' = m
         /\ UNCHANGED header
      \/ /\ text => Exists(m)
         /\ \E e \in SendErrors : RcptAnswers(e)
         /\ header' = hs
         /\ UNCHANGED ctx
      \/ /\ text => Exists(m)
         /\ rcptState' = "SendingMessage"
         /\ ao' = Awaits(ao, "Rcpt")
         /\ header' = hs
         /\ UNCHANGED <<ctx, progress>>

RcptGotLogEvent ==
  /\ RcptRuns({"GetLogEvent"})
  /\ hdr' = hdr
  /\ IF logRes = KErrNone \/ -logRes = KErrNotFound
       THEN /\ rcptState' = IF logRes = KErrNone THEN "ChangeLogEvent" ELSE "AddLogEvent"
            /\ ao' = Awaits(ao, "Rcpt")
            /\ UNCHANGED <<header, ctx, progress>>
       ELSE SendMessageL
  /\ UNCHANGED <<index, entry, current, outVars, queue, send, logRes, histVars>>

RcptWroteLogEvent ==
  /\ RcptRuns({"AddLogEvent", "ChangeLogEvent"})
  /\ hdr' = IF rcptState = "AddLogEvent"
              THEN [hdr EXCEPT !.rcpts[Recipient].log = (logRes = KErrNone)]
              ELSE hdr
  /\ SendMessageL
  /\ UNCHANGED <<index, entry, current, outVars, queue, send, logRes, histVars>>

RcptSent ==
  /\ RcptRuns({"SendingMessage"})
  /\ RcptAnswers(KErrNone)
  /\ UNCHANGED <<storeVars, ctx, memVars, current, outVars, queue, send, logRes, histVars>>

-----------------------------------------------------------------------------
(* The event logger and the socket (external)                              *)

Pending(o) == ao[o].active /\ ao[o].status = KRequestPending

\* The logger completes its caller with KErrNone and keeps its own result.
LoggerCompletes(o) ==
  /\ Pending(o)
  /\ (IF o = "Rcpt" THEN rcptState ELSE progress.state)
       \in {"GetLogEvent", "AddLogEvent", "ChangeLogEvent"}
  /\ ao' = [ao EXCEPT ![o].status = KErrNone]
  /\ logRes' \in LogResults
  /\ UNCHANGED <<storeVars, ctx, memVars, progress, current, outVars, queue, send,
                 rcptState, histVars>>

SocketCompletes ==
  /\ Pending("Rcpt") /\ rcptState = "SendingMessage"
  /\ \E e \in SendErrors \cup {KErrNone} :
       /\ ao' = [ao EXCEPT !["Rcpt"].status = e]
       /\ IF e = KErrNone
            THEN /\ delivered' = [delivered EXCEPT ![entry.id][Recipient] = @ + 1]
                 /\ handed' = [handed EXCEPT ![entry.id] = @ \cup {Recipient}]
            ELSE UNCHANGED <<delivered, handed>>
  /\ UNCHANGED <<storeVars, ctx, memVars, progress, current, outVars, queue, send,
                 rcptState, logRes, requests>>

-----------------------------------------------------------------------------
(* CSmsServerMtm: the end of a request, progress and cancellation          *)

\* CompleteCommand: the client is answered, CSmsOutboxSend and all it owns
\* are deleted, and the entry is unlocked.
CompletesCommand ==
  /\ ao' = [o \in Objects |-> IdleObject]
  /\ ctx' = NoMsg
  /\ entry' = NullEntry /\ hdr' = NullHeader
  /\ progress' = NewProgress
  /\ current' = NoMsg /\ selection' = {} /\ queue' = <<>> /\ condMet' = FALSE
  /\ send' = NewSend /\ rcptState' = "Waiting" /\ logRes' = KErrNone

MtmRuns ==
  /\ Runnable("Mtm")
  /\ CompletesCommand
  /\ UNCHANGED <<storeVars, histVars>>

\* CSmsSendSession::Cancel, as a function like SendCompleted: an active
\* CSmsRecipientSend, CSmsSend and CSmsSendSession complete with KErrCancel.
SessionCancelled(stores) ==
  LET p1 == IF ao["Rcpt"].active THEN [progress EXCEPT !.error = KErrCancel] ELSE progress
      s1 == Snapshot(index, entry, p1, send, ctx)
      s2 == IF ao["Send"].active THEN SendCompleted(s1, KErrCancel, stores) ELSE s1
      p2 == [s2.progress EXCEPT !.error = IF @ = KErrNone THEN KErrCancel ELSE @]
  IN  IF ao["Session"].active THEN Snapshot(s2.index, s2.entry, p2, s2.send, s2.ctx)
      ELSE s1

\* Progress(): the client polls, and the sending of a message that has been
\* deleted or suspended meanwhile is cancelled.
ProgressPoll ==
  /\ "Poll" \in ClientOps
  /\ ao["Mtm"].report
  /\ progress.state = "Sending" /\ current # NoMsg
  /\ ~Exists(current) \/ index[current].state = "Suspended"
  /\ ao["Session"].active
  /\ \E st \in Stores : Becomes(SessionCancelled(st))
  /\ rcptState' = "Waiting"
  /\ ao' = [ao EXCEPT !["Rcpt"] = IdleObject, !["Send"] = IdleObject,
                      !["Session"] = IdleObject, !["Outbox"].status = KErrNone]
  /\ UNCHANGED <<header, hdr, current, outVars, queue, logRes, histVars>>

\* DoCancel: CSmsOutboxSend::DoSmssCancel if it is still active, then
\* CompleteCommand.
MtmCancel ==
  /\ "Cancel" \in ClientOps
  /\ ao["Mtm"].active
  /\ \E st \in Stores :
       index' = IF ~ao["Outbox"].active THEN index
                ELSE FailOutstanding(
                       IF progress.state = "Sending" THEN SessionCancelled(st).index
                                                     ELSE index,
                       selection, KErrCancel, "Suspended")
  /\ CompletesCommand
  /\ UNCHANGED <<header, histVars>>

-----------------------------------------------------------------------------
(* The client's own operations on the outbox, and time                     *)

\* The client may change an entry that this MTM has not locked.
ClientMay(op, m) == op \in ClientOps /\ index[m].folder = "Outbox" /\ ctx # m

Suspend(m) ==
  /\ ClientMay("Suspend", m)
  /\ index[m].state \in {"Unknown", "Waiting", "Sending", "Resend"}
  /\ index' = [index EXCEPT ![m].state = "Suspended"]

Resume(m) ==
  /\ ClientMay("Resume", m)
  /\ index[m].state \in {"Suspended", "Failed"}
  /\ index' = [index EXCEPT ![m].state = "Waiting"]

Delete(m) ==
  /\ ClientMay("Delete", m)
  /\ index' = [index EXCEPT ![m] = [NullEntry EXCEPT !.id = m]]

\* The date of a scheduled message passes. (During a request iDate is
\* compared with the time the request started.)
DateArrives(m) ==
  /\ ~ao["Mtm"].report
  /\ index[m].state = "Resend" /\ ~index[m].due
  /\ index' = [index EXCEPT ![m].due = TRUE]

ClientStep ==
  /\ \E m \in Msgs : Suspend(m) \/ Resume(m) \/ Delete(m) \/ DateArrives(m)
  /\ UNCHANGED <<header, ctx, memVars, progress, current, outVars, queue, send,
                 rcptState, logRes, ao, histVars>>

-----------------------------------------------------------------------------
Request ==
  \E sel \in SUBSET Msgs :
    \/ StartSend(sel)
    \/ StartFindsNothing(sel)
    \/ StartReSchedules(sel, KErrNone, Accepted(sel \cup Found(sel)))
    \/ \E e \in StoreErrors :
         \/ \E done \in SUBSET Accepted(sel \cup Found(sel)) :
              StartReSchedules(sel, e, done)
         \/ \E found \in SUBSET Found(sel) : \E done \in SUBSET (sel \cup found) :
              StartFails(sel, e, found, done)

OutboxRunL ==
  \/ OutboxFails \/ OutboxSendsNext \/ OutboxCompletes \/ OutboxMessageDeleted
  \/ OutboxSendingDone \/ OutboxReSchedules \/ OutboxReScheduled
  \/ OutboxGotLogEvent \/ OutboxWroteLogEvent \/ OutboxMovesSent \/ OutboxKeepsUnsent

SendRunL == \/ SendFails \/ SendNextRecipient \/ SendAllTried
            \/ SendFindsDeleted \/ SendRecipientDone

RcptRunL == RcptFails \/ RcptGotLogEvent \/ RcptWroteLogEvent \/ RcptSent

Services == LoggerCompletes("Rcpt") \/ LoggerCompletes("Outbox") \/ SocketCompletes

Next == \/ Request \/ MtmRuns \/ OutboxRunL \/ SessionRuns \/ SendRunL \/ RcptRunL
        \/ Services \/ ProgressPoll \/ MtmCancel \/ ClientStep

Spec == Init /\ [][Next]_vars

\* The active scheduler runs whatever is runnable; the logger and the socket
\* complete every request they are given.
Fairness == /\ WF_vars(MtmRuns) /\ WF_vars(OutboxRunL) /\ WF_vars(SessionRuns)
            /\ WF_vars(SendRunL) /\ WF_vars(RcptRunL) /\ WF_vars(Services)

FairSpec == Spec /\ Fairness

-----------------------------------------------------------------------------
(* Properties                                                              *)

\* An object waits for a service: the event logger or the socket.
AtService(o) ==
  \/ o = "Rcpt" /\ rcptState # "Waiting"
  \/ o = "Outbox" /\ progress.state \in {"GetLogEvent", "AddLogEvent", "ChangeLogEvent"}

\* No wake-up is lost and none is duplicated: an object is active exactly
\* while its parent waits for its report; a parent with a child at work is
\* itself waiting; and one that waits with no child at work waits for the
\* logger or the socket. Otherwise a send would hang for ever, or an object
\* would be queued twice (panics KSmssPanicAlreadyActive, SMSSACTIVE.CPP:78).
NoLostWakeup ==
  /\ \A o \in Objects : ao[o].active = ao[o].report
  /\ \A o \in Objects \ {"Mtm"} : ao[o].active => Pending(Parent(o))
  /\ \A o \in Objects :
       Pending(o) => \/ AtService(o)
                     \/ \E c \in Objects \ {"Mtm"} : Parent(c) = o /\ ao[c].active

\* The outbox sender deals with one message: its entry in memory is the
\* current message's (the assertions of SMSSOUTB.CPP:410, 572, 573 and 624),
\* that entry is the locked one, and the header in memory, which gets stored,
\* was read from the same message.
OneMessageAtATime ==
  /\ Runnable("Outbox") /\ ao["Outbox"].status = KErrNone /\ progress.state = "Sending"
       => entry.id = current
  /\ progress.state \in {"ReScheduling", "GetLogEvent", "AddLogEvent",
                         "ChangeLogEvent", "LogEntryComplete"}
       => ctx = current /\ entry.id = current /\ hdr.id = current
  /\ ao["Send"].active /\ send.state \in {"SendingEntry", "UpdatingRecipient"}
       => entry.id = current /\ hdr.id = current

\* A recipient recorded as sent stays so: no later write of the header, by
\* this request, a re-schedule or a later request, makes it unsent again.
SentRecipientStaysSent ==
  [][\A m \in Msgs : \A i \in 1 .. RcpCount[m] :
       ~NotSent(header[m][i]) => ~NotSent(header'[m][i])]_vars

\* A recipient recorded as sent is not handed to the network again.
NoSendAfterRecordedSent ==
  [][\A m \in Msgs : \A i \in 1 .. RcpCount[m] :
       delivered'[m][i] > delivered[m][i] => NotSent(header[m][i])]_vars

\* The chain of active objects does no more and no less than SmsDelivery says.
Delivery ==
  INSTANCE SmsDelivery WITH
    busy     <- ao["Mtm"].report,
    place    <- [m \in Msgs |-> index[m].folder],
    recorded <- [m \in Msgs |-> {i \in 1 .. RcpCount[m] : ~NotSent(header[m][i])}]

\* Refinement: a recipient is handed to the network at most once in a request
\* and never once it is recorded; a record is of a real hand-over and is never
\* lost; a message moves to the Sent folder only when it is all recorded.
ImplementsDelivery == Delivery!Spec

\* A message reaches the Sent folder only when every recipient of it is
\* recorded as sent (a failed one keeps it in the outbox, where the user can
\* send it again: SMSSSEND.CPP:205-209).
SentFolderMeansAllSent ==
  \A m \in Msgs : index[m].folder = "Sent" => RecipientsAllSent(header[m])

\* No recipient of a message is started once the client has suspended or
\* deleted the message, although it was unlocked while the one before it was
\* being sent.
SuspendStopsSending ==
  [][ao'["Rcpt"].report /\ ~ao["Rcpt"].report
       => Exists(current) /\ index[current].state \notin {"Suspended", "Sent"}]_vars

\* Cancelling a request leaves no message of it waiting or being sent.
CancelLeavesNothingPending ==
  [][MtmCancel /\ ao["Outbox"].active
       => \A m \in selection : index'[m].state \notin {"Waiting", "Sending"}]_vars

\* When the outbox sender answers, no message it was to send is left waiting
\* or being sent: each was sent, failed, suspended, scheduled or deleted.
\* (Not when the client puts one back to waiting meanwhile.)
AnswerSettlesSelection ==
  Runnable("Mtm") => \A m \in selection : index[m].state \notin {"Waiting", "Sending"}

\* With no request outstanding nothing is marked as being sent or connected.
IdleMeansNothingSending ==
  ~ao["Mtm"].report => \A m \in Msgs : index[m].state # "Sending" /\ ~index[m].connected

\* A message is scheduled again only for a recipient that is still unsent.
ScheduledHasUnsentRecipient ==
  \A m \in Msgs : index[m].state = "Resend" /\ RcpCount[m] > 0
    => \E i \in 1 .. RcpCount[m] : NotSent(header[m][i])

\* No recipient is re-scheduled more often than the error action allows.
RetryLimit == \A m \in Msgs : \A i \in 1 .. RcpCount[m] :
                header[m][i].retries <= MaxRetries

\* Every request is answered, whatever the client does meanwhile.
RequestAnswered == ao["Mtm"].report ~> ~ao["Mtm"].report

-----------------------------------------------------------------------------
(* What comments of the code say, and the code does not do                 *)

\* "Do not send to the recipient if they failed or was successfully sent
\* previously" (SMSSSEND.CPP:168), for a message the scheduler sends again.
NoResendToFailedRecipient ==
  [][ao'["Rcpt"].report /\ ~ao["Rcpt"].report /\ entry.scheduled
       => hdr.rcpts[progress'.rcpDone + 1].status = "NotYetSent"]_vars

\* "if message send to any one of the recipient has failed means the message
\* should be in outbox (user can edit the message and send)"
\* (SMSSSEND.CPP:205-206): once the request is over, a message in the state
\* Sent, which CanSendMessage refuses to send, has been sent to everyone.
SentStateMeansAllSent ==
  \A m \in Msgs : ~ao["Mtm"].report /\ index[m].state = "Sent"
                    => RecipientsAllSent(header[m])

\* "save the all recipient's failed status (if any) and update the same to
\* iProgress.iError after sending a message to all recipients"
\* (SMSSSEND.CPP:208-209): the error of a message is one of its own
\* recipients', so that a message sent to all of them has none.
ErrorIsOfThisMessage ==
  Runnable("Outbox") /\ progress.state = "Sending" /\ Exists(current)
    /\ RecipientsAllSent(header[current]) => progress.error = KErrNone
=============================================================================
