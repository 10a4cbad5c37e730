----------------------- MODULE SmsOutboxPlaceProofs -----------------------
(***************************************************************************)
(* Proofs about SmsOutboxSend, third part: what is recorded as sent, and   *)
(* what reaches the Sent folder. A recipient that is recorded as sent      *)
(* stays so, and is not handed to the network again. Both are about the    *)
(* stored headers, but what is stored is the header in memory, and who is  *)
(* sent to is decided on it: the invariant relates the two. A message      *)
(* reaches the Sent folder only when every recipient of it is recorded as  *)
(* sent. The move is decided on the entry in memory and on two error       *)
(* fields, iProgress.iError and iRecipientFailedStatus, each of which is   *)
(* overwritten more than once on the way: the invariant says what they     *)
(* still stand for.                                                        *)
(***************************************************************************)
EXTENDS SmsOutboxTypeProofs

-----------------------------------------------------------------------------
(* What is recorded as sent                                                *)

\* The header in memory may know more of what was sent than the stored one
\* (a failed StoreHeaderL), never less.
HeaderKeepsSent ==
  hdr.id \in Msgs =>
    \A i \in 1 .. RcpCount[hdr.id] : NotSent(hdr.rcpts[i]) => NotSent(header[hdr.id][i])

\* CSmsSend waits for the result of a recipient that was not sent yet, so
\* that recording a failure makes no sent recipient unsent.
TriedIsUnsent ==
  ao["Send"].active /\ send.state = "SendingEntry" => NotSent(hdr.rcpts[Recipient])

SentInv == HeaderKeepsSent /\ TriedIsUnsent

\* What a step may never do with the stored headers.
KeepsSent ==
  \A m \in Msgs : \A i \in 1 .. RcpCount[m] :
    ~NotSent(header[m][i]) => ~NotSent(header'[m][i])

-----------------------------------------------------------------------------
(* The ways in which a step changes the headers                            *)

\* The header in memory is read from the store, dropped, or left alone.
LEMMA HeaderIsRead ==
  ASSUME IInv, HeaderKeepsSent, header' = header,
         \/ hdr' \in {hdr, NullHeader}
         \/ \E h \in Ids : hdr' = HeaderOf(header, h)
  PROVE  HeaderKeepsSent' /\ KeepsSent
<1>1. KeepsSent
  BY DEF KeepsSent
<1>2. hdr' = hdr => HeaderKeepsSent'
  BY DEF HeaderKeepsSent
<1>3. hdr' = NullHeader => HeaderKeepsSent'
  BY StoreAssumption DEF HeaderKeepsSent, NullHeader
<1>4. ASSUME NEW h \in Ids, hdr' = HeaderOf(header, h) PROVE HeaderKeepsSent'
  BY <1>4, StoreAssumption DEF HeaderKeepsSent, HeaderOf, NullHeader
<1>. QED BY <1>1, <1>2, <1>3, <1>4

\* Stored headers are re-scheduled, with actions that never say "sent already".
LEMMA HeadersAreReScheduled ==
  ASSUME IInv, HeaderKeepsSent,
         \A m \in Msgs :
           \/ header'[m] = header[m]
           \/ \E act : /\ header'[m] = ReScheduledRecipients(header[m], act)
                       /\ \A i \in 1 .. RcpCount[m] : act[i].action # "SentAlready",
         \/ hdr' \in {hdr, NullHeader}
         \/ \E h \in Ids : hdr' = HeaderOf(header', h)
  PROVE  HeaderKeepsSent' /\ KeepsSent
<1>1. ASSUME NEW m \in Msgs, NEW i \in 1 .. RcpCount[m]
      PROVE  NotSent(header[m][i]) <=> NotSent(header'[m][i])
  <2>1. header[m] \in Rcpts(m)
    BY DEF IInv, Types, StoreTypes, TypedHeaders
  <2>2. ASSUME NEW act, header'[m] = ReScheduledRecipients(header[m], act),
               \A k \in 1 .. RcpCount[m] : act[k].action # "SentAlready"
        PROVE  NotSent(header[m][i]) <=> NotSent(header'[m][i])
    BY <2>1, <2>2, ReScheduledRecipientsType
  <2>. QED BY <2>2
<1>2. KeepsSent
  BY <1>1 DEF KeepsSent
<1>3. hdr' = hdr => HeaderKeepsSent'
  BY <1>1 DEF HeaderKeepsSent
<1>4. hdr' = NullHeader => HeaderKeepsSent'
  BY StoreAssumption DEF HeaderKeepsSent, NullHeader
<1>5. ASSUME NEW h \in Ids, hdr' = HeaderOf(header', h) PROVE HeaderKeepsSent'
  BY <1>5, StoreAssumption DEF HeaderKeepsSent, HeaderOf, NullHeader
<1>. QED BY <1>2, <1>3, <1>4, <1>5

\* The header in memory records more, and may be stored.
LEMMA HeaderIsStored ==
  ASSUME IInv, HeaderKeepsSent, hdr.id \in Msgs, hdr'.id = hdr.id,
         header' \in {header, [header EXCEPT ![hdr.id] = hdr'.rcpts]},
         \A i \in 1 .. RcpCount[hdr.id] : NotSent(hdr'.rcpts[i]) => NotSent(hdr.rcpts[i])
  PROVE  HeaderKeepsSent' /\ KeepsSent
<1> DEFINE q == hdr.id
<1>1. DOMAIN header = Msgs
  BY DEF IInv, Types, StoreTypes, TypedHeaders
<1>2. /\ header'[q] \in {header[q], hdr'.rcpts}
      /\ \A m \in Msgs \ {q} : header'[m] = header[m]
  BY <1>1
<1>3. \A i \in 1 .. RcpCount[q] :
        NotSent(hdr'.rcpts[i]) => NotSent(header[q][i])
  BY DEF HeaderKeepsSent
<1> HIDE DEF q
<1>4. KeepsSent
  BY <1>2, <1>3 DEF KeepsSent
<1>5. hdr'.id = q
  BY DEF q
<1>6. HeaderKeepsSent'
  BY <1>2, <1>3, <1>5 DEF HeaderKeepsSent
<1>. QED BY <1>4, <1>6

-----------------------------------------------------------------------------
(* CSmsServerMtm and CSmsOutboxSend: CSmsSend is at rest                   *)

\* What the objects above CSmsSend do leaves it at rest.
LEMMA SendStaysAtRest ==
  ASSUME NEW a \in TypedObjects, ~a["Send"].active, NEW e
  PROVE  /\ ~RunsNext(a, "Outbox", e)["Send"].active
         /\ ~RunsNext(Awaits(a, "Mtm"), "Outbox", e)["Send"].active
         /\ ~Awaits(a, "Outbox")["Send"].active
         /\ ~Answers(a, "Outbox", e)["Send"].active
BY DEF RunsNext, Awaits, Answers, Parent, TypedObjects, Objects

\* A request, whatever FindOtherMessagesL does.
LEMMA RequestCases ==
  ASSUME Request
  PROVE  \E sel \in SUBSET Msgs :
           \/ StartSend(sel)
           \/ StartFindsNothing(sel)
           \/ \E err \in StoreErrors \cup {KErrNone} :
                \E done \in SUBSET Accepted(sel \cup Found(sel)) :
                  StartReSchedules(sel, err, done)
           \/ \E e \in StoreErrors : \E found \in SUBSET Found(sel) :
                \E done \in SUBSET (sel \cup found) : StartFails(sel, e, found, done)
BY DEF Request

LEMMA RequestStarts == Request => \E err : Starts(err)
<1> SUFFICES ASSUME Request PROVE \E err : Starts(err)
  OBVIOUS
<1>. QED BY RequestCases DEF StartSend, StartFindsNothing, StartReSchedules, StartFails

\* The actions the scheduler is given: the one of ConditionsMetL, or those
\* listed for errors the chain can meet.
Listed(m, act) == \A i \in 1 .. RcpCount[m] :
                    act[i] = CondAction \/ \E e \in Errors : act[i] = ErrorAction(e)

\* Start re-schedules every message or none, and reads headers.
LEMMA RequestHeaders ==
  ASSUME Request
  PROVE  /\ \A m \in Msgs :
              \/ header'[m] = header[m]
              \/ \E act : /\ header'[m] = ReScheduledRecipients(header[m], act)
                          /\ \A i \in 1 .. RcpCount[m] : act[i].action # "SentAlready"
                          /\ Listed(m, act)
         /\ \E h \in Ids : hdr' = HeaderOf(header', h)
<1>1. PICK sel \in SUBSET Msgs :
        \/ StartSend(sel)
        \/ StartFindsNothing(sel)
        \/ \E err \in StoreErrors \cup {KErrNone} :
             \E done \in SUBSET Accepted(sel \cup Found(sel)) :
               StartReSchedules(sel, err, done)
        \/ \E e \in StoreErrors : \E found \in SUBSET Found(sel) :
             \E done \in SUBSET (sel \cup found) : StartFails(sel, e, found, done)
  BY RequestCases
<1>2. \A all \in SUBSET Msgs : Accepted(all) \subseteq Msgs /\ BadBio(all) \subseteq Msgs
  BY DEF Accepted, BadBio
<1>3. sel \cup Found(sel) \in SUBSET Msgs
  BY DEF Found
<1>4. CASE StartSend(sel)
  BY <1>2, <1>3, <1>4 DEF StartSend, Ids
<1>5. CASE StartFindsNothing(sel)
  BY <1>2, <1>3, <1>5 DEF StartFindsNothing, Ids
<1>6. ASSUME NEW e, NEW found \in SUBSET Found(sel), NEW done \in SUBSET (sel \cup found),
             StartFails(sel, e, found, done)
      PROVE  header' = header /\ \E h \in Ids : hdr' = HeaderOf(header, h)
  <2>1. done \in SUBSET Msgs
    BY <1>3, <1>6
  <2>. QED BY <1>2, <1>6, <2>1 DEF StartFails, Ids
<1>7. ASSUME NEW err, NEW done \in SUBSET Accepted(sel \cup Found(sel)),
             StartReSchedules(sel, err, done)
      PROVE  /\ \A m \in Msgs :
                  \/ header'[m] = header[m]
                  \/ \E act : /\ header'[m] = ReScheduledRecipients(header[m], act)
                              /\ \A i \in 1 .. RcpCount[m] : act[i].action # "SentAlready"
                              /\ Listed(m, act)
             /\ \E h \in Ids : hdr' = HeaderOf(header', h)
  <2>1. \A m \in Msgs :
          \/ header'[m] = header[m]
          \/ header'[m] = ReScheduledRecipients(header[m], CondActions(m))
    BY <1>7 DEF StartReSchedules
  <2>2. \A m \in Msgs : /\ \A i \in 1 .. RcpCount[m] :
                             CondActions(m)[i].action # "SentAlready"
                        /\ Listed(m, CondActions(m))
    BY DEF CondActions, CondAction, Listed
  <2>3. \E h \in Ids : hdr' = HeaderOf(header', h)
    BY <1>2, <1>3, <1>7 DEF StartReSchedules, Ids
  <2>4. ASSUME NEW m \in Msgs, header'[m] = ReScheduledRecipients(header[m], CondActions(m))
        PROVE  \E act : /\ header'[m] = ReScheduledRecipients(header[m], act)
                        /\ \A i \in 1 .. RcpCount[m] : act[i].action # "SentAlready"
                        /\ Listed(m, act)
    BY <2>2, <2>4
  <2>. QED BY <2>1, <2>3, <2>4
<1>. QED BY <1>1, <1>4, <1>5, <1>6, <1>7

LEMMA RequestKeepsSent ==
  ASSUME IInv, SentInv, Request
  PROVE  SentInv' /\ KeepsSent
<1>1. HeaderKeepsSent' /\ KeepsSent
  BY RequestHeaders, HeadersAreReScheduled DEF SentInv
<1>2. TriedIsUnsent'
  <2>1. PICK err : Starts(err)
    BY RequestStarts
  <2>2. ao \in TypedObjects /\ ~ao["Send"].active
    BY <2>1, BelowIsAtRest DEF Starts, Objects, IInv, Types, WorkTypes
  <2>. QED BY <2>1, <2>2, SendStaysAtRest DEF Starts, TriedIsUnsent
<1>. QED BY <1>1, <1>2 DEF SentInv

\* The next message: its header is read, and no recipient of it is tried yet.
LEMMA SendNextHeaderKeepsSent ==
  ASSUME IInv, SentInv, Done(ao, "Outbox"), SendNextHeaderL
  PROVE  SentInv' /\ KeepsSent
<1>1. header' = header
  BY DEF SendNextHeaderL
<1>2. \/ hdr' = hdr /\ ao' = RunsNext(ao, "Outbox", KErrNone)
      \/ \E m : \E p : OpensEntry(m, p) \/ OpenFindsNoRecipient(m, p)
                         \/ OpenCannotChange(m, p) \/ OpenCannotRead(m, p)
  BY DEF SendNextHeaderL
<1>3. ao \in TypedObjects /\ ~ao["Send"].active
  BY BelowIsAtRest DEF IInv, Types, WorkTypes
<1>4. current' \in Ids
  BY SendNextHeaderKeepsIInv DEF Types, WorkTypes
<1>5. CASE hdr' = hdr /\ ao' = RunsNext(ao, "Outbox", KErrNone)
  BY <1>1, <1>3, <1>5, HeaderIsRead, SendStaysAtRest DEF SentInv, TriedIsUnsent
<1>6. CASE \E m : \E p : OpensEntry(m, p) \/ OpenFindsNoRecipient(m, p)
                           \/ OpenCannotChange(m, p) \/ OpenCannotRead(m, p)
  <2>1. hdr' \in {hdr, NullHeader} \/ \E h \in Ids : hdr' = HeaderOf(header, h)
    BY <1>4, <1>6 DEF SendNextHeaderL, OpensEntry, OpenFindsNoRecipient, OpenCannotChange,
       OpenCannotRead, HalfRead
  <2>2. send'.state = "OpeningEntry"
    <3>1. send \in SendRec
      BY DEF IInv, Types, WorkTypes
    <3>. QED BY <1>6, <3>1 DEF OpensEntry, OpenFindsNoRecipient, OpenCannotChange,
             OpenCannotRead, SendRec
  <2>. QED BY <1>1, <2>1, <2>2, HeaderIsRead DEF SentInv, TriedIsUnsent
<1>. QED BY <1>2, <1>5, <1>6

\* A new log id does not touch the status or the count of a recipient.
LEMMA LogIdKeepsStatus ==
  ASSUME NEW h, TypedHeader(h), h.id \in Msgs, NEW k, NEW b
  PROVE  /\ [h EXCEPT !.rcpts[k].log = b].id = h.id
         /\ \A i \in 1 .. RcpCount[h.id] :
              NotSent([h EXCEPT !.rcpts[k].log = b].rcpts[i]) <=> NotSent(h.rcpts[i])
         /\ \A i \in 1 .. RcpCount[h.id] :
              [h EXCEPT !.rcpts[k].log = b].rcpts[i].retries = h.rcpts[i].retries
<1> DEFINE rs == [h.rcpts EXCEPT ![k].log = b]
<1>1. h = [id |-> h.id, rcpts |-> h.rcpts] /\ h.rcpts \in Rcpts(h.id)
  BY HeaderRecipients
<1>2. [h EXCEPT !.rcpts[k].log = b] = [h EXCEPT !.rcpts = rs]
  OBVIOUS
<1>3. \A i \in 1 .. RcpCount[h.id] : /\ NotSent(rs[i]) <=> NotSent(h.rcpts[i])
                                     /\ rs[i].retries = h.rcpts[i].retries
  BY <1>1 DEF Rcpts, RcptRec, NotSent
<1> HIDE DEF rs
<1>4. [h EXCEPT !.rcpts = rs].id = h.id /\ [h EXCEPT !.rcpts = rs].rcpts = rs
  BY <1>1
<1>. QED BY <1>2, <1>3, <1>4

\* A step that at most changes a log id of the header in memory.
LEMMA HeaderIsLogged ==
  ASSUME IInv, hdr.id \in Msgs,
         hdr' = hdr \/ \E k, b : hdr' = [hdr EXCEPT !.rcpts[k].log = b]
  PROVE  /\ hdr'.id = hdr.id
         /\ \A i \in 1 .. RcpCount[hdr.id] :
              NotSent(hdr'.rcpts[i]) <=> NotSent(hdr.rcpts[i])
         /\ \A i \in 1 .. RcpCount[hdr.id] : hdr'.rcpts[i].retries = hdr.rcpts[i].retries
<1>1. TypedHeader(hdr)
  BY DEF IInv, Types, MemTypes
<1>2. ASSUME NEW k, NEW b, hdr' = [hdr EXCEPT !.rcpts[k].log = b]
      PROVE  /\ hdr'.id = hdr.id
             /\ \A i \in 1 .. RcpCount[hdr.id] :
                  NotSent(hdr'.rcpts[i]) <=> NotSent(hdr.rcpts[i])
             /\ \A i \in 1 .. RcpCount[hdr.id] :
                  hdr'.rcpts[i].retries = hdr.rcpts[i].retries
  <2> DEFINE h == [hdr EXCEPT !.rcpts[k].log = b]
  <2>1. h.id = hdr.id
    BY <1>1, LogIdKeepsStatus
  <2>2. \A i \in 1 .. RcpCount[hdr.id] : NotSent(h.rcpts[i]) <=> NotSent(hdr.rcpts[i])
    BY <1>1, LogIdKeepsStatus, Zenon
  <2>3. \A i \in 1 .. RcpCount[hdr.id] : h.rcpts[i].retries = hdr.rcpts[i].retries
    BY <1>1, LogIdKeepsStatus
  <2>4. hdr' = h
    BY <1>2
  <2> HIDE DEF h
  <2>. QED BY <2>1, <2>2, <2>3, <2>4
<1>. QED BY <1>2

\* DoReScheduleL changes the header of one message, and records nothing.
LEMMA ReSchedulingHeaders ==
  ASSUME IInv, OutboxReSchedules
  PROVE  /\ \A q \in Msgs :
              \/ header'[q] = header[q]
              \/ \E act : /\ header'[q] = ReScheduledRecipients(header[q], act)
                          /\ \A i \in 1 .. RcpCount[q] : act[i].action # "SentAlready"
                          /\ Listed(q, act)
         /\ hdr' \in {hdr, NullHeader} \/ \E h \in Ids : hdr' = HeaderOf(header', h)
<1> DEFINE m   == entry.id
           act == ListedActions(header[m])
           hs  == [header EXCEPT ![m] = ReScheduledRecipients(@, act)]
<1>1. m \in Msgs /\ header = [q \in Msgs |-> header[q]] /\ header[m] \in Rcpts(m)
  BY DEF OutboxReSchedules, OutboxRuns, IInv, Shape, SendingShape, Types, StoreTypes,
     TypedHeaders
<1>2. /\ \A i \in 1 .. RcpCount[m] : act[i].action # "SentAlready"
      /\ Listed(m, act)
  <2>1. \A i \in 1 .. RcpCount[m] : /\ act[i] = ErrorAction(header[m][i].err)
                                    /\ header[m][i].err \in Errors
    BY <1>1, RcptsOf DEF ListedActions, RcptRec
  <2> HIDE DEF act, m
  <2>2. \A i \in 1 .. RcpCount[m] : act[i].action # "SentAlready"
    <3>1. \A e : ErrorAction(e).action # "SentAlready"
      BY DEF ErrorAction
    <3>. QED BY <2>1, <3>1
  <2>3. Listed(m, act)
    BY <2>1 DEF Listed
  <2>. QED BY <2>2, <2>3
<1>3. /\ header' \in {header, hs}
      /\ hdr' \in {hdr, NullHeader} \/ hdr' = HeaderOf(header', m)
  BY DEF OutboxReSchedules, HalfRead
<1> HIDE DEF act
<1>4. \A q \in Msgs : \/ header'[q] = header[q]
                      \/ q = m /\ header'[q] = ReScheduledRecipients(header[q], act)
  BY <1>1, <1>3
<1>. QED BY <1>1, <1>2, <1>3, <1>4 DEF Ids

\* The RunLs of CSmsOutboxSend that do not go on to the next message.
LEMMA OutboxKeepsSent ==
  ASSUME IInv, SentInv, OutboxRunL, ~OutboxSendsNext, ~OutboxMessageDeleted
  PROVE  SentInv' /\ KeepsSent
<1>1. Done(ao, "Outbox")
  BY DEF OutboxRunL, OutboxFails, OutboxCompletes, OutboxSendingDone, OutboxReSchedules,
         OutboxReScheduled, OutboxGotLogEvent, OutboxWroteLogEvent, OutboxMovesSent,
         OutboxKeepsUnsent, OutboxRuns, Runnable, Done
<1>2. TriedIsUnsent'
  <2>1. ao \in TypedObjects /\ ~ao["Send"].active
    BY <1>1, BelowIsAtRest DEF IInv, Types, WorkTypes
  <2>2. \/ \E e : ao' \in {Answers(ao, "Outbox", e), RunsNext(ao, "Outbox", e)}
        \/ ao' = Awaits(ao, "Outbox")
    BY DEF OutboxRunL, OutboxFails, OutboxCompletes, OutboxSendingDone, OutboxReSchedules,
         OutboxReScheduled, OutboxGotLogEvent, OutboxWroteLogEvent, OutboxMovesSent,
         OutboxKeepsUnsent, OutboxAnswers, LogEntry
  <2>. QED BY <2>1, <2>2, SendStaysAtRest DEF TriedIsUnsent
<1>3. ASSUME header' = header, hdr' = hdr PROVE HeaderKeepsSent' /\ KeepsSent
  BY <1>3, HeaderIsRead DEF SentInv
<1>4. CASE OutboxFails \/ OutboxCompletes
  BY <1>2, <1>3, <1>4 DEF OutboxFails, OutboxCompletes, memVars, SentInv
<1>5. CASE OutboxSendingDone \/ OutboxReScheduled \/ OutboxGotLogEvent \/ OutboxMovesSent
  BY <1>2, <1>3, <1>5 DEF OutboxSendingDone, OutboxReScheduled, OutboxGotLogEvent,
     OutboxMovesSent, storeVars, SentInv
<1>6. CASE OutboxReSchedules
  BY <1>2, <1>6, ReSchedulingHeaders, HeadersAreReScheduled DEF SentInv
<1>7. CASE OutboxWroteLogEvent
  <2>1. TypedHeader(hdr) /\ hdr.id \in Msgs
    BY <1>7 DEF OutboxWroteLogEvent, OutboxRuns, IInv, Types, MemTypes, Shape, LogShape,
       LogStates
  <2>2. /\ header' = header
        /\ \/ hdr' = hdr
           \/ \E k, b : hdr' = [hdr EXCEPT !.rcpts[k].log = b]
    BY <1>7 DEF OutboxWroteLogEvent, storeVars
  <2>3. HeaderKeepsSent' /\ KeepsSent
    BY <2>1, <2>2, HeaderIsLogged, HeaderIsStored DEF SentInv
  <2>. QED BY <1>2, <2>3 DEF SentInv
<1>8. CASE OutboxKeepsUnsent
  <2>1. hdr.id \in Msgs /\ hdr.id = entry.id
    BY <1>8 DEF OutboxKeepsUnsent, OutboxRuns, IInv, Shape, LogShape
  <2>2. hdr' = hdr /\ header' \in {header, [header EXCEPT ![hdr.id] = hdr'.rcpts]}
    BY <1>8, <2>1 DEF OutboxKeepsUnsent, memVars
  <2>3. HeaderKeepsSent' /\ KeepsSent
    BY <2>1, <2>2, HeaderIsStored DEF SentInv
  <2>. QED BY <1>2, <2>3 DEF SentInv
<1>. QED BY <1>4, <1>5, <1>6, <1>7, <1>8 DEF OutboxRunL

LEMMA OutboxRunLKeepsSent ==
  ASSUME IInv, SentInv, OutboxRunL
  PROVE  SentInv' /\ KeepsSent
BY OutboxKeepsSent, SendNextHeaderKeepsSent DEF OutboxSendsNext, OutboxMessageDeleted,
   OutboxRuns, Runnable, Done

-----------------------------------------------------------------------------
(* CSmsSendSession and CSmsSend                                            *)

\* The next recipient is one that was not sent.
LEMMA SendNextRecipientKeepsSent ==
  ASSUME IInv, SentInv, SendNextRecipient
  PROVE  SentInv' /\ KeepsSent
<1> DEFINE able == {i \in 0 .. progress.rcpCount - 1 :
                      CanSendMessageToRecipient(entry, hdr.rcpts[i + 1])}
           n    == NextRecipient
<1>1. /\ Opened /\ progress.rcpDone \in Int /\ progress.rcpCount \in Int
  BY SendRunsOpened DEF SendNextRecipient
<1>2. header' = header /\ hdr' = hdr /\ n < progress.rcpCount
      /\ progress' = [progress EXCEPT !.rcpDone = n]
  BY DEF SendNextRecipient, storeVars, memVars
<1>3. n \in able
  <2>1. n = FirstFrom(progress.rcpDone, progress.rcpCount, able)
    BY DEF NextRecipient
  <2> HIDE DEF able, n
  <2>. QED BY <1>1, <1>2, <2>1, FirstFromRange
<1>4. n \in Int /\ NotSent(hdr.rcpts[n + 1])
  BY <1>1, <1>3 DEF CanSendMessageToRecipient
<1>5. progress'.rcpDone = n
  <2>1. progress \in ProgressRec
    BY DEF IInv, Types, WorkTypes
  <2> HIDE DEF n
  <2>. QED BY <1>2, <1>4, <2>1 DEF ProgressRec
<1>6. TriedIsUnsent'
  <2> HIDE DEF n
  <2>. QED BY <1>2, <1>4, <1>5 DEF TriedIsUnsent, Recipient
<1>. QED BY <1>2, <1>6, HeaderIsRead DEF SentInv

\* The result of a recipient that was not sent is recorded, and stored or not.
LEMMA SendRecipientDoneKeepsSent ==
  ASSUME IInv, SentInv, SendRecipientDone
  PROVE  SentInv' /\ KeepsSent
<1> DEFINE err == progress.error
           k   == progress.rcpDone + 1
           rs  == [hdr.rcpts EXCEPT ![k] = RecipientAfterSend(@, err, send.reports)]
<1>1. Done(ao, "Send") /\ Opened /\ send.state = "SendingEntry"
  BY SendRunsOpened DEF SendRecipientDone, SendRuns
<1>2. hdr.id \in Msgs /\ hdr.id = entry.id /\ TypedHeader(hdr)
  BY <1>1 DEF Opened, IInv, Types, MemTypes
<1>3. NotSent(hdr.rcpts[k])
  BY <1>1 DEF SentInv, TriedIsUnsent, Recipient, Done
<1>4. hdr' = [hdr EXCEPT !.rcpts = rs]
      /\ header' \in {header, [header EXCEPT ![entry.id] = rs]}
  BY DEF SendRecipientDone
<1>5. \A i \in 1 .. RcpCount[hdr.id] : NotSent(rs[i]) => NotSent(hdr.rcpts[i])
  <2>1. hdr.rcpts \in Rcpts(hdr.id)
    BY <1>2, HeaderRecipients
  <2> HIDE DEF k, err
  <2>. QED BY <1>3, <2>1 DEF Rcpts
<1> HIDE DEF rs
<1>6. hdr'.id = hdr.id /\ hdr'.rcpts = rs
  BY <1>2, <1>4, HeaderRecipients
<1>7. HeaderKeepsSent' /\ KeepsSent
  BY <1>2, <1>4, <1>5, <1>6, HeaderIsStored DEF SentInv
<1>8. TriedIsUnsent'
  <2>1. send \in SendRec /\ ao \in TypedObjects
    BY DEF IInv, Types, WorkTypes
  <2>2. \/ \E f, n : send' = [send EXCEPT !.state = "UpdatingRecipient",
                                         !.failedStatus = f, !.sentRcpts = n]
        \/ ao' = Answers(ao, "Send", KErrNone)
    BY DEF SendRecipientDone, Becomes, Snapshot
  <2>3. ASSUME NEW f, NEW n,
               send' = [send EXCEPT !.state = "UpdatingRecipient",
                                    !.failedStatus = f, !.sentRcpts = n]
        PROVE  send'.state = "UpdatingRecipient"
    BY <2>1, <2>3 DEF SendRec
  <2>4. ao' = Answers(ao, "Send", KErrNone) => ~ao'["Send"].active
    BY <2>1 DEF Answers, Parent, TypedObjects, Objects, IdleObject
  <2>. QED BY <2>2, <2>3, <2>4 DEF TriedIsUnsent
<1>. QED BY <1>7, <1>8 DEF SentInv

LEMMA SendRunLKeepsSent ==
  ASSUME IInv, SentInv, SendRunL
  PROVE  SentInv' /\ KeepsSent
<1>1. CASE SendFails \/ SendAllTried \/ SendFindsDeleted
  <2>1. header' = header /\ hdr' = hdr /\ ao' = Answers(ao, "Send", KErrNone)
    BY <1>1 DEF SendFails, SendAllTried, SendFindsDeleted
  <2>2. ~ao'["Send"].active
    BY <2>1 DEF IInv, Types, WorkTypes, Answers, Parent, TypedObjects, Objects, IdleObject
  <2>. QED BY <2>1, <2>2, HeaderIsRead DEF SentInv, TriedIsUnsent
<1>. QED BY <1>1, SendNextRecipientKeepsSent, SendRecipientDoneKeepsSent DEF SendRunL

LEMMA SessionRunsKeepsSent ==
  ASSUME IInv, SentInv, SessionRuns
  PROVE  SentInv' /\ KeepsSent
<1>1. ao \in TypedObjects /\ ~ao["Send"].active
  BY BelowIsAtRest DEF SessionRuns, Runnable, Done, IInv, Types, WorkTypes
<1>2. header' = header /\ hdr' = hdr /\ ao' = Answers(ao, "Session", KErrNone)
  BY DEF SessionRuns, storeVars, memVars
<1>3. ~ao'["Send"].active
  BY <1>1, <1>2 DEF Answers, Parent, TypedObjects, Objects
<1>. QED BY <1>2, <1>3, HeaderIsRead DEF SentInv, TriedIsUnsent

-----------------------------------------------------------------------------
(* CSmsRecipientSend, the services and what comes from outside             *)

\* The header is logged and may be stored; the recipient stays the same.
LEMMA RcptRunLKeepsSent ==
  ASSUME IInv, SentInv, RcptRunL
  PROVE  SentInv' /\ KeepsSent
<1>1. RcptMoves /\ ao["Rcpt"].active
  BY RcptRunLMoves DEF Done
<1>2. /\ Opened /\ send.state = "SendingEntry" /\ ao["Send"].active
      /\ Recipient \in 1 .. RcpCount[hdr.id] /\ hdr.id \in Msgs /\ hdr.id = entry.id
  BY <1>1, RecipientIsOpened, BelowIsAtRest DEF Opened, IInv, Waits
<1>3. hdr' = hdr \/ \E k, b : hdr' = [hdr EXCEPT !.rcpts[k].log = b]
  BY DEF RcptRunL, RcptFails, RcptGotLogEvent, RcptWroteLogEvent, RcptSent, memVars
<1>4. header' \in {header, [header EXCEPT ![hdr.id] = hdr'.rcpts]}
  BY <1>2 DEF RcptRunL, RcptFails, RcptGotLogEvent, RcptWroteLogEvent, RcptSent,
     SendMessageL, storeVars
<1>5. /\ hdr'.id = hdr.id
      /\ \A i \in 1 .. RcpCount[hdr.id] : NotSent(hdr'.rcpts[i]) <=> NotSent(hdr.rcpts[i])
  BY <1>2, <1>3, HeaderIsLogged
<1>6. HeaderKeepsSent' /\ KeepsSent
  BY <1>2, <1>4, <1>5, HeaderIsStored DEF SentInv
<1>7. Recipient' = Recipient
  <2>1. progress \in ProgressRec
    BY DEF IInv, Types, WorkTypes
  <2>. QED BY <1>1, <2>1 DEF RcptMoves, Recipient, ProgressRec
<1>8. NotSent(hdr.rcpts[Recipient])
  BY <1>2 DEF SentInv, TriedIsUnsent
<1>9. TriedIsUnsent'
  BY <1>2, <1>5, <1>7, <1>8 DEF TriedIsUnsent
<1>. QED BY <1>6, <1>9 DEF SentInv

\* The headers, CSmsSend and the recipient are left alone.
LEMMA OthersKeepSent ==
  ASSUME IInv, SentInv, Services \/ ClientStep \/ UNCHANGED vars
  PROVE  SentInv' /\ KeepsSent
<1>1. header' = header /\ hdr' = hdr /\ send' = send /\ progress' = progress
  BY DEF Services, LoggerCompletes, SocketCompletes, ClientStep, vars, storeVars, memVars
<1>2. ao'["Send"] = ao["Send"]
  <2>1. ao \in TypedObjects
    BY DEF IInv, Types, WorkTypes
  <2>2. \/ ao' = ao
        \/ \E e : \E o \in {"Rcpt", "Outbox"} : ao' = [ao EXCEPT ![o].status = e]
    BY DEF Services, LoggerCompletes, SocketCompletes, ClientStep, vars
  <2>. QED BY <2>1, <2>2 DEF TypedObjects, Objects
<1>3. TriedIsUnsent'
  BY <1>1, <1>2 DEF SentInv, TriedIsUnsent, Recipient
<1>. QED BY <1>1, <1>3, HeaderIsRead DEF SentInv

\* CSmsSend is stopped, or deleted with everything in memory.
LEMMA StoppingKeepsSent ==
  ASSUME IInv, SentInv, MtmRuns \/ MtmCancel \/ ProgressPoll
  PROVE  SentInv' /\ KeepsSent
<1>1. header' = header /\ hdr' \in {hdr, NullHeader}
  BY DEF MtmRuns, MtmCancel, ProgressPoll, CompletesCommand, storeVars
<1>2. ~ao'["Send"].active
  BY DEF MtmRuns, MtmCancel, ProgressPoll, CompletesCommand, IdleObject, Objects, IInv,
     Types, WorkTypes, TypedObjects
<1>. QED BY <1>1, <1>2, HeaderIsRead DEF SentInv, TriedIsUnsent

-----------------------------------------------------------------------------
(* The theorems                                                            *)

LEMMA InitSentInv == Init => SentInv
<1> SUFFICES ASSUME Init PROVE SentInv
  OBVIOUS
<1>1. hdr.id \notin Msgs
  BY StoreAssumption DEF Init, NullHeader
<1>2. ~ao["Send"].active
  BY IdleFields DEF Init, Objects
<1>. QED BY <1>1, <1>2 DEF SentInv, HeaderKeepsSent, TriedIsUnsent

LEMMA StepKeepsSentInv == IInv /\ SentInv /\ [Next]_vars => SentInv' /\ KeepsSent
BY RequestKeepsSent, OutboxRunLKeepsSent, SessionRunsKeepsSent, SendRunLKeepsSent,
   RcptRunLKeepsSent, OthersKeepSent, StoppingKeepsSent DEF Next

LEMMA SpecKeepsSentInv == Spec => [](IInv /\ SentInv)
<1>1. Init => SentInv
  BY InitSentInv
<1>2. IInv /\ SentInv /\ [Next]_vars => SentInv'
  BY StepKeepsSentInv
<1>. QED BY <1>1, <1>2, SpecKeepsIInv, PTL DEF Spec

\* Whatever fails and whatever the client does, a recipient recorded as sent
\* is never made unsent: not by UpdateAfterRecipientSentL, by the header being
\* stored to keep its log ids (TextRecipientSend.cpp, SMSSOUTB.CPP:609), or by
\* the scheduler.
THEOREM SentStaysSent == Spec => SentRecipientStaysSent
<1>1. IInv /\ SentInv /\ [Next]_vars =>
        [\A m \in Msgs : \A i \in 1 .. RcpCount[m] :
           ~NotSent(header[m][i]) => ~NotSent(header'[m][i])]_vars
  BY StepKeepsSentInv DEF KeepsSent
<1>. QED BY <1>1, SpecKeepsSentInv, PTL DEF Spec, SentRecipientStaysSent

\* The number of hand-overs grows only when the socket takes a message.
LEMMA OnlySocketDelivers ==
  ASSUME IInv, [Next]_vars, ~SocketCompletes
  PROVE  \A m \in Msgs : \A i \in 1 .. RcpCount[m] : ~(delivered'[m][i] > delivered[m][i])
<1>1. HistTypes
  BY DEF IInv, Types
<1>2. delivered' = delivered \/ delivered' = NothingDelivered
  <2>1. Request => delivered' = NothingDelivered
    BY RequestStarts DEF Starts
  <2>2. OutboxRunL => delivered' = delivered
    BY DEF OutboxRunL, OutboxFails, OutboxSendsNext, OutboxCompletes, OutboxMessageDeleted,
       OutboxSendingDone, OutboxReSchedules, OutboxReScheduled, OutboxGotLogEvent,
       OutboxWroteLogEvent, OutboxMovesSent, OutboxKeepsUnsent, SendNextHeaderL, histVars
  <2>3. SendRunL => delivered' = delivered
    BY DEF SendRunL, SendFails, SendNextRecipient, SendAllTried, SendFindsDeleted,
       SendRecipientDone, histVars
  <2>4. RcptRunL => delivered' = delivered
    BY RcptRunLMoves DEF RcptMoves, histVars
  <2>5. MtmRuns \/ MtmCancel \/ ProgressPoll \/ SessionRuns \/ ClientStep
          => delivered' = delivered
    BY DEF MtmRuns, MtmCancel, ProgressPoll, SessionRuns, ClientStep, histVars
  <2>6. Services => delivered' = delivered
    BY DEF Services, LoggerCompletes, histVars
  <2>7. UNCHANGED vars => delivered' = delivered
    BY DEF vars
  <2>. QED BY <2>1, <2>2, <2>3, <2>4, <2>5, <2>6, <2>7 DEF Next
<1>3. \A m \in Msgs : \A i \in 1 .. RcpCount[m] :
        delivered[m][i] \in Nat /\ NothingDelivered[m][i] = 0
  BY <1>1 DEF HistTypes, NothingDelivered
<1>. QED BY <1>2, <1>3

\* And only for the recipient that was not sent.
LEMMA SocketDeliversUnsent ==
  ASSUME IInv, SentInv, SocketCompletes
  PROVE  \A m \in Msgs : \A i \in 1 .. RcpCount[m] :
           delivered'[m][i] > delivered[m][i] => NotSent(header[m][i])
<1> DEFINE q == entry.id
           k == Recipient
<1>1. ao["Rcpt"].active
  BY DEF SocketCompletes, Pending
<1>2. /\ q \in Msgs /\ q = hdr.id /\ k \in 1 .. RcpCount[q]
      /\ send.state = "SendingEntry" /\ ao["Send"].active
  BY <1>1, RecipientIsOpened, BelowIsAtRest DEF Opened, IInv, Waits
<1>3. NotSent(header[q][k])
  BY <1>2 DEF SentInv, TriedIsUnsent, HeaderKeepsSent
<1>4. \/ delivered' = [delivered EXCEPT ![q][k] = @ + 1]
      \/ delivered' = delivered
  BY DEF SocketCompletes
<1>5. DOMAIN delivered = Msgs
      /\ \A m \in Msgs : delivered[m] \in [1 .. RcpCount[m] -> Nat]
  BY DEF IInv, Types, HistTypes
<1> HIDE DEF q, k
<1>6. \A m \in Msgs : \A i \in 1 .. RcpCount[m] :
        delivered'[m][i] = delivered[m][i] \/ (m = q /\ i = k)
  BY <1>4, <1>5
<1>7. \A m \in Msgs : \A i \in 1 .. RcpCount[m] : delivered[m][i] \in Nat
  BY <1>5
<1>. QED BY <1>3, <1>6, <1>7

\* A recipient recorded as sent is never handed to the network again, by
\* whatever request and after whatever failure: SendNextRecipientL decides on
\* the header in memory, which knows at least what is stored.
THEOREM SentIsNotSentAgain == Spec => NoSendAfterRecordedSent
<1>1. IInv /\ SentInv /\ [Next]_vars =>
        \A m \in Msgs : \A i \in 1 .. RcpCount[m] :
          delivered'[m][i] > delivered[m][i] => NotSent(header[m][i])
  <2> SUFFICES ASSUME IInv, SentInv, [Next]_vars
               PROVE  \A m \in Msgs : \A i \in 1 .. RcpCount[m] :
                        delivered'[m][i] > delivered[m][i] => NotSent(header[m][i])
    OBVIOUS
  <2>1. CASE SocketCompletes
    BY <2>1, SocketDeliversUnsent
  <2>2. CASE ~SocketCompletes
    BY <2>2, OnlySocketDelivers
  <2>. QED BY <2>1, <2>2
<1>2. IInv /\ SentInv /\ [Next]_vars =>
        [\A m \in Msgs : \A i \in 1 .. RcpCount[m] :
           delivered'[m][i] > delivered[m][i] => NotSent(header[m][i])]_vars
  BY <1>1
<1>. QED BY <1>2, SpecKeepsSentInv, PTL DEF Spec, NoSendAfterRecordedSent

-----------------------------------------------------------------------------
(* What reaches the Sent folder                                            *)

\* The messages that DivideMessagesL lets pass.
Sendable(m) == Kind[m] \in {"text", "wap"}

\* The states of the outbox sender from the decision on a message to its move.
Deciding == LogStates \cup {"ReScheduling", "LogEntryComplete"}

\* CSmsSend works on a message it has opened.
SendOpened == ao["Send"].active /\ ao["Send"].status \in {KErrNone, KRequestPending}

-----------------------------------------------------------------------------
(* The invariant                                                           *)

\* No message is queued twice, and only messages that can be sent.
QueueShape ==
  /\ \A i, j \in 1 .. Len(queue) : queue[i] = queue[j] => i = j
  /\ \A i \in 1 .. Len(queue) : Sendable(queue[i])

\* What is in the Sent folder is not touched again: CanSendMessage refuses it,
\* DivideMessagesL finds nothing wrong with it and there is nothing to retry.
SentShape ==
  \A m \in Msgs : index[m].folder = "Sent" =>
    index[m].state = "Sent" /\ Sendable(m) /\ RecipientsAllSent(header[m])

\* The current message is in the outbox, unless the client deletes it while it
\* is unlocked; the entry in memory was read when it still was there.
InOutbox ==
  /\ progress.state \in {"Sending"} \cup Deciding =>
       Sendable(current) /\ entry.folder = "Outbox"
  /\ progress.state = "Sending" =>
       /\ index[current].folder # "Sent"
       /\ ctx = current => index[current].folder = "Outbox"
  /\ progress.state \in Deciding => index[current].folder = "Outbox"

\* CSmsSend has locked the message whenever it decides what to do next.
SendLocks ==
  ao["Send"].active =>
    /\ entry.state # "Sent" /\ index[current].state # "Sent"
    /\ send.state \in {"OpeningEntry", "UpdatingRecipient"} => ctx = current

\* The header in memory is stored while CSmsSend goes on.
HeaderIsCurrent ==
  SendOpened =>
    \A i \in 1 .. RcpCount[current] : ~NotSent(hdr.rcpts[i]) => ~NotSent(header[current][i])

\* A recipient that CSmsSend has left behind was sent, or its failure is
\* still remembered: in iProgress.iError only when it is the only one, since
\* the next one's result overwrites that.
FailureIsRemembered ==
  SendOpened =>
    /\ RcpCount[current] > 0
    /\ \A i \in 1 .. progress.rcpDone :
         \/ ~NotSent(header[current][i])
         \/ send.failedStatus # KErrNone
         \/ progress.rcpCount = 1 /\ progress.error # KErrNone

\* No error after CSmsSend: every recipient was sent, or the client suspended
\* the message, which is still locked.
NoErrorMeansSent ==
  progress.state = "Sending" /\ ~ao["Send"].active /\ progress.error = KErrNone =>
    ctx = current /\ (entry.state = "Suspended" \/ RecipientsAllSent(header[current]))

\* The decision of the outbox sender is right, up to the move.
DecisionIsRight ==
  progress.state \in Deciding =>
    (MessageSent(entry) => RecipientsAllSent(header[current]))

PlaceInv ==
  /\ QueueShape /\ SentShape /\ InOutbox /\ SendLocks
  /\ HeaderIsCurrent /\ FailureIsRemembered /\ NoErrorMeansSent /\ DecisionIsRight

\* What a step does with the folders, unless a message is moved or deleted.
KeepsPlaces ==
  \A m \in Msgs : /\ index'[m].folder = index[m].folder
                  /\ index[m].folder = "Sent" => index'[m].state = "Sent"

-----------------------------------------------------------------------------
(* Headers, folders and the states of the outbox sender                    *)

\* All recipients of a header are sent, message by message.
LEMMA AllSentMeans ==
  ASSUME NEW m \in Msgs, NEW rs \in Rcpts(m)
  PROVE  RecipientsAllSent(rs) <=>
           RcpCount[m] > 0 /\ \A i \in 1 .. RcpCount[m] : ~NotSent(rs[i])
<1>1. DOMAIN rs = 1 .. RcpCount[m] /\ RcpCount[m] \in Nat
  BY RcptsOf
<1>2. 1 .. RcpCount[m] # {} <=> RcpCount[m] > 0
  BY <1>1
<1>. QED BY <1>1, <1>2 DEF RecipientsAllSent

LEMMA AllSentStays ==
  ASSUME IInv, IInv', KeepsSent, NEW m \in Msgs, RecipientsAllSent(header[m])
  PROVE  RecipientsAllSent(header'[m])
<1>1. header[m] \in Rcpts(m) /\ header'[m] \in Rcpts(m)
  BY DEF IInv, Types, StoreTypes, TypedHeaders
<1>. QED BY <1>1, AllSentMeans DEF KeepsSent

LEMMA SentShapeStays ==
  ASSUME IInv, IInv', KeepsSent, SentShape, KeepsPlaces
  PROVE  SentShape'
BY AllSentStays DEF SentShape, KeepsPlaces

\* CSmsSend works only while the outbox sender is sending.
LEMMA SendWorksWhileSending ==
  WakeInv => (progress.state # "Sending" => ~ao["Send"].active)
BY BelowIsAtRest

\* The outbox sender is at none of the places the invariant speaks of.
LEMMA ElsewhereKeepsPlaceInv ==
  ASSUME IInv', SentShape', QueueShape', progress'.state \notin {"Sending"} \cup Deciding
  PROVE  PlaceInv'
<1>1. (WakeInv => (progress.state # "Sending" => ~ao["Send"].active))'
  BY SendWorksWhileSending, PTL
<1>2. ~ao'["Send"].active
  BY <1>1 DEF IInv
<1>. QED BY <1>2 DEF PlaceInv, InOutbox, SendLocks, SendOpened, HeaderIsCurrent,
         FailureIsRemembered, NoErrorMeansSent, DecisionIsRight

\* The outbox sender decides, or acts on its decision.
LEMMA DecidingKeepsPlaceInv ==
  ASSUME IInv', SentShape', QueueShape', progress'.state \in Deciding,
         Sendable(current'), entry'.folder = "Outbox", index'[current'].folder = "Outbox",
         MessageSent(entry') => RecipientsAllSent(header'[current'])
  PROVE  PlaceInv'
<1>1. (WakeInv => (progress.state # "Sending" => ~ao["Send"].active))'
  BY SendWorksWhileSending, PTL
<1>2. progress'.state # "Sending"
  BY DEF Deciding, LogStates
<1>3. ~ao'["Send"].active
  BY <1>1, <1>2 DEF IInv
<1>. QED BY <1>2, <1>3 DEF PlaceInv, InOutbox, SendLocks, SendOpened, HeaderIsCurrent,
         FailureIsRemembered, NoErrorMeansSent, DecisionIsRight

\* The outbox sender still waits for CSmsSend or its answer to be passed on.
LEMMA SentOnKeepsPlaceInv ==
  ASSUME PlaceInv, SentShape', progress.state = "Sending", progress'.state = "Sending",
         ~ao'["Send"].active, current' = current, queue' = queue, entry'.folder = "Outbox",
         index'[current].folder = index[current].folder,
         ctx' = current => index[current].folder = "Outbox", NoErrorMeansSent'
  PROVE  PlaceInv'
<1>1. QueueShape'
  BY DEF PlaceInv, QueueShape
<1>2. progress'.state \notin Deciding
  BY DEF Deciding, LogStates
<1>3. InOutbox'
  BY <1>2 DEF PlaceInv, InOutbox
<1>. QED BY <1>1, <1>2, <1>3 DEF PlaceInv, SendLocks, SendOpened, HeaderIsCurrent,
         FailureIsRemembered, DecisionIsRight

-----------------------------------------------------------------------------
(* A request                                                               *)

\* A queue is a permutation of the messages accepted.
LEMMA QueuesShape ==
  ASSUME NEW all \in SUBSET Msgs, NEW sel, NEW q \in Queues(sel, Accepted(all))
  PROVE  /\ \A i, j \in 1 .. Len(q) : q[i] = q[j] => i = j
         /\ \A i \in 1 .. Len(q) : Sendable(q[i])
<1> DEFINE acc == Accepted(all)
<1>1. acc \subseteq Msgs /\ Cardinality(acc) \in Nat
  BY ChosenAreMessages, QueuesTyped
<1>2. q \in SetToSeqs(acc) /\ q \in Seq(Msgs)
  BY <1>1, QueuesTyped DEF Queues
<1>3. 1 .. Len(q) = DOMAIN q
  BY <1>2
<1> HIDE DEF acc
<1>4. /\ DOMAIN q = 1 .. Cardinality(acc)
      /\ \A i \in DOMAIN q : q[i] \in acc
      /\ \A i, j \in DOMAIN q : i # j => q[i] # q[j]
  BY <1>2 DEF SetToSeqs
<1>5. \A x \in acc : Sendable(x)
  BY DEF acc, Accepted, Sendable
<1>. QED BY <1>3, <1>4, <1>5

\* DivideMessagesL and FindOtherMessagesL leave what was sent alone.
LEMMA DividedPlaces ==
  ASSUME TypedIndex(index), SentShape, NEW done
  PROVE  \A m \in Msgs : /\ Divided(done)[m].folder = index[m].folder
                         /\ index[m].folder = "Sent" => Divided(done)[m] = index[m]
<1> SUFFICES ASSUME NEW m \in Msgs
             PROVE  /\ Divided(done)[m].folder = index[m].folder
                    /\ index[m].folder = "Sent" => Divided(done)[m] = index[m]
  OBVIOUS
<1>1. index[m] \in EntryRec
  BY DEF TypedIndex
<1>2. \/ Divided(done)[m] = index[m]
      \/ /\ Kind[m] \in {"storeDenied", "badBio"}
         /\ Divided(done)[m] \in {[index[m] EXCEPT !.state = "Waiting"],
                                  [index[m] EXCEPT !.failed = TRUE, !.state = "Failed",
                                                   !.err = KErrUnknownBioType]}
  BY DEF Divided
<1>. QED BY <1>1, <1>2 DEF EntryRec, SentShape, Sendable

LEMMA MadeWaitingPlaces ==
  ASSUME NEW ix, TypedIndex(ix), NEW acc
  PROVE  \A m \in Msgs : /\ MadeWaiting(ix, acc)[m].folder = ix[m].folder
                         /\ ix[m].state = "Sent" => MadeWaiting(ix, acc)[m] = ix[m]
BY DEF TypedIndex, MadeWaiting, EntryRec, CanSendMessage

\* Re-scheduling leaves an entry where it is, and what was sent sent.
LEMMA ReScheduledPlaces ==
  ASSUME NEW m \in Msgs, NEW e \in EntryRec, NEW rs \in Rcpts(m), NEW act
  PROVE  /\ ReScheduledEntry(e, rs, act).folder = e.folder
         /\ RecipientsAllSent(rs) => ReScheduledEntry(e, rs, act).state = "Sent"
         /\ MessageSent(ReScheduledEntry(e, rs, act))
              => RecipientsAllSent(ReScheduledRecipients(rs, act))
<1> DEFINE checked == CheckedRecipients(rs, act)
           N       == 1 .. RcpCount[m]
           E       == ReScheduledEntry(e, rs, act)
<1>1. DOMAIN rs = N /\ \A i \in N : rs[i] \in RcptRec(Errors)
  BY RcptsOf
<1>2. checked = [i \in N |-> CheckRecipient(rs[i], act[i])]
  BY <1>1 DEF CheckedRecipients
<1>3. ASSUME RecipientsAllSent(rs)
      PROVE  ~CanSendToAnyRecipients(rs, act) /\ RecipientsAllSent(checked)
  <2>1. N # {} /\ \A i \in N : ~NotSent(rs[i])
    BY <1>1, <1>3 DEF RecipientsAllSent
  <2>2. \A i \in N : CheckRecipient(rs[i], act[i]) = rs[i]
    BY <2>1 DEF CheckRecipient
  <2> HIDE DEF checked
  <2>3. DOMAIN checked = N /\ \A i \in N : ~NotSent(checked[i])
    BY <1>2, <2>1, <2>2
  <2>. QED BY <1>1, <2>1, <2>3 DEF CanSendToAnyRecipients, Retriable, RecipientsAllSent
<1>4. CASE CanSendToAnyRecipients(rs, act)
  <2>1. E.folder = e.folder /\ E.state = "Resend"
    BY <1>4 DEF ReScheduledEntry, EntryRec
  <2>. QED BY <1>3, <1>4, <2>1 DEF MessageSent
<1>5. CASE ~CanSendToAnyRecipients(rs, act) /\ RecipientsAllSent(checked)
  <2>1. E.folder = e.folder /\ E.state = "Sent"
    BY <1>5 DEF ReScheduledEntry, EntryRec
  <2>2. ReScheduledRecipients(rs, act) = checked
    BY <1>5 DEF ReScheduledRecipients
  <2>. QED BY <1>5, <2>1, <2>2
<1>6. CASE ~CanSendToAnyRecipients(rs, act) /\ ~RecipientsAllSent(checked)
  <2>1. E.folder = e.folder /\ E.state = "Failed"
    BY <1>6 DEF ReScheduledEntry, EntryRec
  <2>. QED BY <1>3, <1>6, <2>1 DEF MessageSent
<1>. QED BY <1>4, <1>5, <1>6

\* FailOutstandingMessages leaves what was sent alone.
LEMMA FailOutstandingPlaces ==
  ASSUME NEW ix, TypedIndex(ix), NEW sel, NEW err \in Errors, NEW st \in SendingStates
  PROVE  \A m \in Msgs :
           /\ FailOutstanding(ix, sel, err, st)[m].folder = ix[m].folder
           /\ ix[m].state = "Sent" => FailOutstanding(ix, sel, err, st)[m].state = "Sent"
<1>1. \A m \in Msgs : FailOutstanding(ix, sel, err, st)[m].folder = ix[m].folder
  BY FailOutstandingType DEF TypedIndex
<1>2. \A e : e.state = "Sent" => FailIfOutstanding(e, err, st) = e
  BY DEF FailIfOutstanding
<1>. QED BY <1>1, <1>2 DEF FailOutstanding

\* A request accepts messages that can be sent, and leaves those that were
\* sent alone.
LEMMA RequestPlaces ==
  ASSUME IInv, PlaceInv, Request
  PROVE  /\ KeepsPlaces /\ QueueShape'
         /\ progress'.state \in {"FindingOtherMessages", "Complete"}
<1>1. PICK sel \in SUBSET Msgs :
        \/ StartSend(sel)
        \/ StartFindsNothing(sel)
        \/ \E err \in StoreErrors \cup {KErrNone} :
             \E done \in SUBSET Accepted(sel \cup Found(sel)) :
               StartReSchedules(sel, err, done)
        \/ \E e \in StoreErrors : \E found \in SUBSET Found(sel) :
             \E done \in SUBSET (sel \cup found) : StartFails(sel, e, found, done)
  BY RequestCases
<1> DEFINE all == sel \cup Found(sel)
           acc == Accepted(all)
<1>2. all \in SUBSET Msgs /\ acc \subseteq Msgs
  BY ChosenAreMessages
<1>3. TypedIndex(index) /\ TypedHeaders(header) /\ SentShape
  BY DEF IInv, Types, StoreTypes, PlaceInv
<1>4. \A done : /\ TypedIndex(Divided(done))
                /\ \A m \in Msgs : /\ Divided(done)[m].folder = index[m].folder
                                   /\ index[m].folder = "Sent" =>
                                        Divided(done)[m] = index[m] /\ index[m].state = "Sent"
  BY <1>3, DividedTyped, DividedPlaces DEF SentShape
<1>5. \A q \in Queues(sel, acc) : queue' = q => QueueShape'
  <2> SUFFICES ASSUME NEW q \in Queues(sel, acc), queue' = q PROVE QueueShape'
    OBVIOUS
  <2>1. /\ \A i, j \in 1 .. Len(q) : q[i] = q[j] => i = j
        /\ \A i \in 1 .. Len(q) : Sendable(q[i])
    BY <1>2, QueuesShape
  <2>. QED BY <2>1 DEF QueueShape
<1>6. queue' = <<>> => QueueShape'
  BY DEF QueueShape
<1>7. \A v : NewProgress.state = "Waiting" /\ [NewProgress EXCEPT !.state = v].state = v
  BY DEF NewProgress
<1>8. CASE StartSend(sel)
  <2>1. index' = MadeWaiting(Divided(all), acc) /\ \E q \in Queues(sel, acc) : queue' = q
    BY <1>8 DEF StartSend
  <2>2. progress'.state = "FindingOtherMessages"
    BY <1>8 DEF StartSend, NewProgress
  <2> HIDE DEF all, acc
  <2>3. KeepsPlaces
    BY <1>4, <2>1, MadeWaitingPlaces DEF KeepsPlaces
  <2>. QED BY <1>5, <2>1, <2>2, <2>3
<1>9. CASE StartFindsNothing(sel)
  <2>1. index' = Divided(all) /\ queue' = <<>>
        /\ progress' = [NewProgress EXCEPT !.state = "FindingOtherMessages"]
    BY <1>9 DEF StartFindsNothing
  <2> HIDE DEF all
  <2>. QED BY <1>4, <1>6, <1>7, <2>1 DEF KeepsPlaces
<1>10. ASSUME NEW e, NEW found, NEW done, StartFails(sel, e, found, done)
       PROVE  /\ KeepsPlaces /\ QueueShape'
              /\ progress'.state = "FindingOtherMessages"
  <2>1. index' = Divided(done) /\ queue' = <<>>
    BY <1>10 DEF StartFails
  <2>2. progress'.state = "FindingOtherMessages"
    BY <1>10 DEF StartFails, NewProgress
  <2>. QED BY <1>4, <1>6, <2>1, <2>2 DEF KeepsPlaces
<1>11. ASSUME NEW err, NEW done \in SUBSET acc, StartReSchedules(sel, err, done)
       PROVE  KeepsPlaces /\ QueueShape' /\ progress'.state = "Complete"
  <2>1. /\ \E q \in Queues(sel, acc) : queue' = q
        /\ index' = [m \in Msgs |->
                       IF m \in done
                         THEN ReScheduledEntry(Divided(all)[m], header[m], CondActions(m))
                         ELSE Divided(all)[m]]
    BY <1>11 DEF StartReSchedules
  <2>2. progress'.state = "Complete"
    BY <1>11 DEF StartReSchedules, NewProgress
  <2> HIDE DEF all, acc
  <2>3. ASSUME NEW m \in Msgs
        PROVE  /\ index'[m].folder = index[m].folder
               /\ index[m].folder = "Sent" => index'[m].state = "Sent"
    <3>1. Divided(all)[m] \in EntryRec /\ header[m] \in Rcpts(m)
      BY <1>3, <1>4 DEF TypedIndex, TypedHeaders
    <3>2. /\ ReScheduledEntry(Divided(all)[m], header[m], CondActions(m)).folder
                = Divided(all)[m].folder
          /\ RecipientsAllSent(header[m]) =>
               ReScheduledEntry(Divided(all)[m], header[m], CondActions(m)).state = "Sent"
      BY <3>1, ReScheduledPlaces
    <3>3. index[m].folder = "Sent" => RecipientsAllSent(header[m])
      BY <1>3 DEF SentShape
    <3>. QED BY <1>4, <2>1, <3>2, <3>3
  <2>. QED BY <1>5, <2>1, <2>2, <2>3 DEF KeepsPlaces
<1>. QED BY <1>1, <1>8, <1>9, <1>10, <1>11

LEMMA RequestKeepsPlaceInv ==
  ASSUME IInv, IInv', KeepsSent, PlaceInv, Request
  PROVE  PlaceInv' /\ KeepsPlaces
<1>1. SentShape
  BY DEF PlaceInv
<1>2. progress'.state \notin {"Sending"} \cup Deciding
  BY RequestPlaces DEF Deciding, LogStates
<1>. QED BY <1>1, <1>2, RequestPlaces, SentShapeStays, ElsewhereKeepsPlaceInv

-----------------------------------------------------------------------------
(* The next message                                                        *)

\* The messages left in the queue are others than the one taken from it.
LEMMA QueueRest ==
  ASSUME NEW q \in Seq(Msgs), NEW k \in 0 .. Len(q), NEW r, r = SubSeq(q, k + 2, Len(q))
  PROVE  /\ Len(r) = IF k < Len(q) THEN Len(q) - k - 1 ELSE 0
         /\ \A j \in 1 .. Len(r) : j + k + 1 \in 1 .. Len(q) /\ r[j] = q[j + k + 1]
<1>1. \A i \in k + 2 .. Len(q) : q[i] \in Msgs
  OBVIOUS
<1>2. /\ Len(r) = IF k + 2 <= Len(q) THEN Len(q) - (k + 2) + 1 ELSE 0
      /\ \A j \in 1 .. Len(q) - (k + 2) + 1 : r[j] = q[k + 2 + j - 1]
  BY <1>1, SubSeqProperties
<1>. QED BY <1>2

\* The next message is opened, or cannot be; p is the progress before.
TakesUp(m, p) == \/ OpensEntry(m, p) \/ OpenFindsNoRecipient(m, p)
                 \/ OpenCannotChange(m, p) \/ OpenCannotRead(m, p)

\* SendNextHeaderL takes a message of the queue that is in the outbox, and
\* leaves others there; or it finds none and goes on to complete.
LEMMA NextMessage ==
  ASSUME IInv, PlaceInv, Done(ao, "Outbox"), SendNextHeaderL
  PROVE  /\ QueueShape'
         /\ \A j \in 1 .. Len(queue') : \E i \in 1 .. Len(queue) : queue'[j] = queue[i]
         /\ \/ /\ progress'.state = "Complete"
               /\ ao' = RunsNext(ao, "Outbox", KErrNone)
               /\ UNCHANGED <<index, entry, hdr, send>>
            \/ \E m \in Msgs : \E p \in ProgressRec :
                 /\ p.state = "Sending" /\ current' = m /\ ctx' = m /\ TakesUp(m, p)
                 /\ CanSendMessage(index[m]) /\ Sendable(m) /\ index[m].folder = "Outbox"
                 /\ \E i \in 1 .. Len(queue) : queue[i] = m
                 /\ \A j \in 1 .. Len(queue') : queue'[j] # m
<1> DEFINE sendable == {i \in 0 .. Len(queue) - 1 : /\ Exists(queue[i + 1])
                                                    /\ CanSendMessage(index[queue[i + 1]])}
           k == FirstFrom(0, Len(queue), sendable)
           p == [progress EXCEPT !.msgDone = @ + k + 1]
           q == [p EXCEPT !.state = "Sending"]
<1>1. queue \in Seq(Msgs) /\ Len(queue) \in Nat /\ progress \in ProgressRec
  BY DEF IInv, Types, WorkTypes
<1>2. k \in 0 .. Len(queue) /\ (k < Len(queue) => k \in sendable)
  <2> HIDE DEF sendable
  <2>. QED BY <1>1, FirstFromRange
<1>3. ASSUME k < Len(queue)
      PROVE  /\ k + 1 \in 1 .. Len(queue) /\ queue[k + 1] \in Msgs
             /\ Exists(queue[k + 1]) /\ CanSendMessage(index[queue[k + 1]])
  <2>1. k \in sendable
    BY <1>2, <1>3
  <2> HIDE DEF k
  <2>. QED BY <1>1, <1>2, <1>3, <2>1
<1> HIDE DEF k
<1>4. p \in ProgressRec /\ q \in ProgressRec /\ q.state = "Sending"
  <2>1. p \in ProgressRec
    BY <1>1, <1>2 DEF ProgressRec
  <2>2. "Sending" \in OutboxStates
    BY DEF OutboxStates
  <2> HIDE DEF p
  <2>. QED BY <2>1, <2>2 DEF ProgressRec
<1>5. queue' = SubSeq(queue, k + 2, Len(queue))
  BY DEF SendNextHeaderL, k
<1>6. /\ Len(queue') = IF k < Len(queue) THEN Len(queue) - k - 1 ELSE 0
      /\ \A j \in 1 .. Len(queue') :
           j + k + 1 \in 1 .. Len(queue) /\ queue'[j] = queue[j + k + 1]
  BY <1>1, <1>2, <1>5, QueueRest
<1>7. QueueShape
  BY DEF PlaceInv
<1>8. QueueShape'
  <2>1. ASSUME NEW i \in 1 .. Len(queue'), NEW j \in 1 .. Len(queue'), queue'[i] = queue'[j]
        PROVE  i = j
    <3>1. i + k + 1 = j + k + 1
      BY <1>6, <1>7, <2>1 DEF QueueShape
    <3>2. i \in Int /\ j \in Int /\ k \in Int
      BY <1>2
    <3>. QED BY <3>1, <3>2
  <2>2. \A i \in 1 .. Len(queue') : Sendable(queue'[i])
    BY <1>6, <1>7 DEF QueueShape
  <2>. QED BY <2>1, <2>2 DEF QueueShape
<1>9. CASE k < Len(queue)
  <2> DEFINE m == queue[k + 1]
  <2>1. ~(k = Len(queue))
    BY <1>1, <1>2, <1>9
  <2>2. current' = m /\ ctx' = m /\ TakesUp(m, q)
    <3>1. \/ OpensEntry(m, q) \/ OpenFindsNoRecipient(m, q)
          \/ OpenCannotChange(m, q) \/ OpenCannotRead(m, q)
      BY <2>1, Zenon DEF SendNextHeaderL, k, p, q
    <3>2. current' = m /\ ctx' = m
      BY <2>1, Zenon DEF SendNextHeaderL, k
    <3>. QED BY <3>1, <3>2 DEF TakesUp
  <2>3. \A j \in 1 .. Len(queue') : queue'[j] # m
    <3> SUFFICES ASSUME NEW j \in 1 .. Len(queue'), queue'[j] = m PROVE FALSE
      OBVIOUS
    <3>1. j + k + 1 = k + 1
      BY <1>3, <1>6, <1>7, <1>9 DEF QueueShape
    <3>2. j \in Int /\ k \in Int /\ 1 <= j
      BY <1>2, <1>6
    <3>. QED BY <3>1, <3>2
  <2>4. /\ m \in Msgs /\ Sendable(m) /\ CanSendMessage(index[m]) /\ Exists(m)
        /\ k + 1 \in 1 .. Len(queue)
    BY <1>3, <1>7, <1>9 DEF QueueShape
  <2>5. index[m].folder = "Outbox"
    <3>1. index[m] \in EntryRec
      BY <2>4 DEF IInv, Types, StoreTypes, TypedIndex
    <3>2. index[m].folder \in {"Outbox", "Sent", "None"}
      BY <3>1 DEF EntryRec
    <3>3. index[m].folder # "Sent"
      BY <2>4 DEF PlaceInv, SentShape, CanSendMessage
    <3>. QED BY <2>4, <3>2, <3>3 DEF Exists
  <2> HIDE DEF m, q
  <2>6. \E i \in 1 .. Len(queue) : queue[i] = m
    BY <2>4 DEF m
  <2>. QED BY <1>4, <1>6, <1>8, <2>2, <2>3, <2>4, <2>5, <2>6
<1>10. CASE k = Len(queue)
  <2>1. ~(k < Len(queue))
    BY <1>1, <1>10
  <2>2. /\ progress' = [p EXCEPT !.state = "Complete"]
        /\ ao' = RunsNext(ao, "Outbox", KErrNone)
        /\ UNCHANGED <<index, entry, hdr, send>>
    BY <2>1, Zenon DEF SendNextHeaderL, k, p
  <2> HIDE DEF p
  <2>3. progress'.state = "Complete"
    BY <1>4, <2>2 DEF ProgressRec
  <2>. QED BY <1>6, <1>8, <2>2, <2>3
<1>. QED BY <1>1, <1>2, <1>9, <1>10

\* The message taken up is locked, and none of its recipients is tried yet.
LEMMA TakesUpKeepsPlaceInv ==
  ASSUME IInv, IInv', SentShape, SentShape', QueueShape', Done(ao, "Outbox"),
         NEW m \in Msgs, NEW p \in ProgressRec, p.state = "Sending", current' = m,
         ctx' = m, TakesUp(m, p), CanSendMessage(index[m]), Sendable(m),
         index[m].folder = "Outbox", header' = header
  PROVE  PlaceInv' /\ KeepsPlaces
<1> DEFINE n == RcpCount[m]
<1>1. /\ TypedIndex(index) /\ index[m] \in EntryRec /\ n \in Nat
      /\ OpenedEntry(index[m]).folder = "Outbox"
      /\ OpenedEntry(index[m]).state = "Sending"
      /\ index[m].state # "Sent" /\ index[m].folder = "Outbox"
  <2>1. TypedIndex(index) /\ index[m] \in EntryRec
    BY DEF IInv, Types, StoreTypes, TypedIndex
  <2>. QED BY <2>1, StoreAssumption DEF OpenedEntry, EntryRec, CanSendMessage
<1>2. /\ entry' \in {OpenedEntry(index[m]), index[m]}
      /\ index' \in {[index EXCEPT ![m] = OpenedEntry(index[m])], index}
  BY DEF TakesUp, OpensEntry, OpenFindsNoRecipient, OpenCannotChange, OpenCannotRead
<1>3. /\ entry'.folder = "Outbox" /\ entry'.state # "Sent"
      /\ index'[m].folder = "Outbox" /\ index'[m].state # "Sent"
      /\ \A x \in Msgs \ {m} : index'[x] = index[x]
  BY <1>1, <1>2 DEF TypedIndex
<1>4. KeepsPlaces
  BY <1>1, <1>3 DEF KeepsPlaces, SentShape
<1>5. progress'.state = "Sending"
  <2>1. progress' = p \/ \E c \in Nat : progress' = Counts(p, 0, c)
    BY <1>1, Zenon DEF TakesUp, OpensEntry, OpenFindsNoRecipient, OpenCannotChange,
       OpenCannotRead, Counts
  <2>. QED BY <2>1, ProgressCounts
<1>6. ao'["Send"].active
  <2>1. PICK err \in Errors : ao' = ChainStarts(err)
    BY ErrorsKnown DEF TakesUp, OpensEntry, OpenFindsNoRecipient, OpenCannotChange,
       OpenCannotRead
  <2>2. ao'["Send"] = [active |-> TRUE, status |-> err, report |-> TRUE]
    BY <2>1, ChainStartsTyped, Zenon
  <2>. QED BY <2>2
<1>7. CASE OpensEntry(m, p)
  <2>1. hdr' = HeaderOf(header, m) /\ n > 0 /\ progress' = Counts(p, 0, n)
    BY <1>7 DEF OpensEntry, Counts
  <2>2. hdr'.rcpts = header[m]
    BY <2>1, StoreAssumption DEF HeaderOf
  <2>3. progress'.rcpDone = 0
    BY <1>1, <2>1, ProgressCounts
  <2>. QED BY <1>3, <1>4, <1>5, <1>6, <2>1, <2>2, <2>3 DEF PlaceInv, InOutbox, Deciding,
           LogStates, SendLocks, HeaderIsCurrent, FailureIsRemembered, NoErrorMeansSent,
           DecisionIsRight
<1>8. CASE ~OpensEntry(m, p)
  <2>1. PICK err \in StoreErrors \cup {KErrNotFound} : ao' = ChainStarts(err)
    BY <1>8 DEF TakesUp, OpenFindsNoRecipient, OpenCannotChange, OpenCannotRead
  <2>2. err \notin {KErrNone, KRequestPending} /\ err \in Errors
    BY ErrorsKnown DEF KErrNotFound, KErrNone, KRequestPending
  <2>3. ao'["Send"] = [active |-> TRUE, status |-> err, report |-> TRUE]
    BY <2>1, <2>2, ChainStartsTyped, Zenon
  <2>4. ~SendOpened'
    BY <2>2, <2>3 DEF SendOpened
  <2>. QED BY <1>3, <1>4, <1>5, <1>6, <2>4 DEF PlaceInv, InOutbox, Deciding, LogStates,
           SendLocks, HeaderIsCurrent, FailureIsRemembered, NoErrorMeansSent,
           DecisionIsRight
<1>. QED BY <1>7, <1>8

LEMMA SendNextHeaderKeepsPlaceInv ==
  ASSUME IInv, IInv', KeepsSent, PlaceInv, Done(ao, "Outbox"), SendNextHeaderL
  PROVE  PlaceInv' /\ KeepsPlaces
<1>1. header' = header /\ SentShape
  BY DEF SendNextHeaderL, PlaceInv
<1>2. CASE progress'.state = "Complete" /\ UNCHANGED index
  <2>1. KeepsPlaces
    BY <1>1, <1>2 DEF KeepsPlaces, SentShape
  <2>2. progress'.state \notin {"Sending"} \cup Deciding
    BY <1>2 DEF Deciding, LogStates
  <2>. QED BY <1>1, <2>1, <2>2, NextMessage, SentShapeStays, ElsewhereKeepsPlaceInv
<1>3. ASSUME NEW m \in Msgs, NEW p \in ProgressRec, p.state = "Sending", current' = m,
             ctx' = m, TakesUp(m, p), CanSendMessage(index[m]), Sendable(m),
             index[m].folder = "Outbox"
      PROVE  PlaceInv' /\ KeepsPlaces
  <2>1. \A x \in Msgs : index[x].folder = "Sent" =>
          RecipientsAllSent(header'[x]) /\ Sendable(x)
    BY <1>1 DEF SentShape
  <2>2. index' \in {[index EXCEPT ![m] = OpenedEntry(index[m])], index}
        /\ index \in [Msgs -> EntryRec]
    BY <1>3 DEF TakesUp, OpensEntry, OpenFindsNoRecipient, OpenCannotChange, OpenCannotRead,
       IInv, Types, StoreTypes, TypedIndex
  <2>3. \A x \in Msgs : \/ index'[x] = index[x]
                        \/ x = m /\ index'[x] = OpenedEntry(index[x])
    BY <2>2
  <2>4. SentShape'
    BY <1>1, <1>3, <2>1, <2>2, <2>3, OpenedEntryType DEF SentShape
  <2>. QED BY <1>1, <1>3, <2>4, NextMessage, TakesUpKeepsPlaceInv
<1>. QED BY <1>2, <1>3, NextMessage

-----------------------------------------------------------------------------
(* CSmsOutboxSend                                                          *)

\* An index that differs from the one now in no place that matters.
SamePlaces(ix) ==
  \A m \in Msgs : /\ ix[m].folder = index[m].folder
                  /\ index[m].folder = "Sent" => ix[m].state = "Sent"

\* The outbox sender completes: what is still outstanding fails.
LEMMA OutboxAnswersKeepsPlaceInv ==
  ASSUME IInv, IInv', KeepsSent, PlaceInv, queue' = queue,
         NEW ix, TypedIndex(ix), SamePlaces(ix), NEW e \in Errors, OutboxAnswers(ix, e)
  PROVE  PlaceInv' /\ KeepsPlaces
<1> DEFINE err == IF progress.error = KErrNone THEN e ELSE progress.error
<1>1. progress \in ProgressRec /\ err \in Errors /\ "Failed" \in SendingStates
  BY DEF IInv, Types, WorkTypes, ProgressRec, SendingStates
<1>2. /\ progress' = [progress EXCEPT !.state = "Waiting", !.error = err]
      /\ index' \in {FailOutstanding(ix, selection, err, "Failed"), ix}
  BY DEF OutboxAnswers
<1>3. progress'.state = "Waiting"
  BY <1>1, <1>2 DEF ProgressRec
<1> HIDE DEF err
<1>4. \A m \in Msgs : /\ index'[m].folder = ix[m].folder
                      /\ ix[m].state = "Sent" => index'[m].state = "Sent"
  BY <1>1, <1>2, FailOutstandingPlaces
<1>5. KeepsPlaces
  BY <1>4 DEF KeepsPlaces, SamePlaces
<1>6. QueueShape' /\ SentShape
  BY DEF PlaceInv, QueueShape
<1>7. progress'.state \notin {"Sending"} \cup Deciding
  BY <1>3 DEF Deciding, LogStates
<1>. QED BY <1>5, <1>6, <1>7, SentShapeStays, ElsewhereKeepsPlaceInv

LEMMA IndexIsInPlace ==
  ASSUME IInv, PlaceInv
  PROVE  TypedIndex(index) /\ SamePlaces(index)
BY DEF IInv, Types, StoreTypes, PlaceInv, SentShape, SamePlaces

\* One entry that is in the outbox is written.
LEMMA WritingKeepsPlaces ==
  ASSUME IInv, PlaceInv, NEW m \in Msgs, NEW e \in EntryRec, e.id = m,
         index[m].folder = "Outbox", e.folder = "Outbox"
  PROVE  TypedIndex([index EXCEPT ![m] = e]) /\ SamePlaces([index EXCEPT ![m] = e])
<1>1. TypedIndex(index) /\ SamePlaces(index)
  BY IndexIsInPlace
<1>2. TypedIndex([index EXCEPT ![m] = e])
  BY <1>1, IndexWritten
<1>3. SamePlaces([index EXCEPT ![m] = e])
  BY <1>1 DEF SamePlaces, TypedIndex
<1>. QED BY <1>2, <1>3

\* The message that CSmsSend has finished with is in the outbox, unless it
\* was deleted and ReScheduleFailedMessageL goes on to the next one.
LEMMA SendingIsInOutbox ==
  ASSUME IInv, PlaceInv, progress.state = "Sending", ctx = entry.id \/ Exists(entry.id)
  PROVE  /\ current \in Msgs /\ entry.id = current /\ Sendable(current)
         /\ entry.folder = "Outbox" /\ index[current].folder = "Outbox"
<1>1. /\ current \in Msgs /\ entry.id = current /\ Sendable(current)
      /\ entry.folder = "Outbox" /\ index[current].folder # "Sent"
      /\ ctx = current => index[current].folder = "Outbox"
  BY DEF IInv, Shape, SendingShape, PlaceInv, InOutbox
<1>2. index[current].folder \in {"Outbox", "Sent", "None"}
  BY <1>1 DEF IInv, Types, StoreTypes, TypedIndex, EntryRec
<1>. QED BY <1>1, <1>2 DEF Exists

LEMMA OutboxSendingDoneKeepsPlaceInv ==
  ASSUME IInv, IInv', KeepsSent, PlaceInv, OutboxSendingDone
  PROVE  PlaceInv' /\ KeepsPlaces
<1>1. /\ Done(ao, "Outbox") /\ progress.state = "Sending"
      /\ ctx = entry.id \/ Exists(entry.id)
  BY DEF OutboxSendingDone, OutboxRuns, Runnable, Done
<1>2. /\ current \in Msgs /\ entry.id = current /\ Sendable(current)
      /\ entry.folder = "Outbox" /\ index[current].folder = "Outbox"
  BY <1>1, SendingIsInOutbox
<1>3. /\ UNCHANGED <<storeVars, current, queue>>
      /\ entry' = [JudgedEntry EXCEPT !.scheduled = FALSE]
      /\ ~(JudgedEntry.failed /\ JudgedEntry.state # "Suspended")
  BY DEF OutboxSendingDone
<1>4. JudgedEntry \in EntryRec /\ index[current] \in EntryRec /\ entry \in EntryRec
      /\ progress \in ProgressRec
  BY <1>1, <1>2, JudgedTyped DEF IInv, Types, StoreTypes, TypedIndex, MemTypes, WorkTypes
<1>5. progress'.state = "ReScheduling"
  BY <1>4 DEF OutboxSendingDone, ProgressRec
<1>6. entry'.folder = "Outbox" /\ (MessageSent(entry') => MessageSent(JudgedEntry))
  <2>1. JudgedEntry.folder = "Outbox"
    BY <1>2, <1>4 DEF JudgedEntry, EntryRec
  <2>. QED BY <1>3, <1>4, <2>1 DEF EntryRec, MessageSent
<1>7. ASSUME MessageSent(JudgedEntry) PROVE RecipientsAllSent(header[current])
  <2>1. ~JudgedEntry.failed /\ JudgedEntry.state # "Suspended"
    BY <1>3, <1>7 DEF MessageSent
  <2>2. progress.error = KErrNone
    BY <1>2, <1>4, <2>1 DEF JudgedEntry, EntryRec
  <2>3. ~ao["Send"].active
    BY <1>1, BelowIsAtRest DEF IInv
  <2>4. ctx = current /\ (entry.state = "Suspended" \/ RecipientsAllSent(header[current]))
    BY <1>1, <2>2, <2>3 DEF PlaceInv, NoErrorMeansSent
  <2>5. JudgedEntry.state = entry.state
    BY <1>2, <1>4, <2>2, <2>4 DEF JudgedEntry
  <2>. QED BY <2>1, <2>4, <2>5
<1>8. KeepsPlaces /\ SentShape' /\ QueueShape'
  BY <1>3, SentShapeStays DEF storeVars, KeepsPlaces, PlaceInv, SentShape, QueueShape
<1>9. progress'.state \in Deciding
  BY <1>5 DEF Deciding
<1>10. /\ Sendable(current') /\ index'[current'].folder = "Outbox"
       /\ MessageSent(entry') => RecipientsAllSent(header'[current'])
  BY <1>2, <1>3, <1>6, <1>7 DEF storeVars
<1>. QED BY <1>6, <1>8, <1>9, <1>10, DecidingKeepsPlaceInv

\* Re-scheduling finds a message sent only when all its recipients were.
LEMMA OutboxReSchedulesKeepsPlaceInv ==
  ASSUME IInv, IInv', KeepsSent, PlaceInv, OutboxReSchedules
  PROVE  PlaceInv' /\ KeepsPlaces
<1> DEFINE m   == entry.id
           act == ListedActions(header[m])
           new == ReScheduledEntry(index[m], header[m], act)
           ix  == [index EXCEPT ![m] = new]
           hs  == [header EXCEPT ![m] = ReScheduledRecipients(@, act)]
<1>1. /\ progress.state = "Sending" /\ UNCHANGED <<current, queue>>
      /\ ctx = entry.id \/ Exists(entry.id)
  BY DEF OutboxReSchedules, OutboxRuns
<1>2. /\ m \in Msgs /\ m = current /\ Sendable(m)
      /\ index[m].folder = "Outbox"
  BY <1>1, SendingIsInOutbox
<1>3. /\ index[m] \in EntryRec /\ index[m].id = m /\ header[m] \in Rcpts(m)
      /\ header = [q \in Msgs |-> header[q]] /\ progress \in ProgressRec
  BY <1>2 DEF IInv, Types, StoreTypes, TypedIndex, TypedHeaders, WorkTypes
<1> HIDE DEF act
<1>4. /\ new \in EntryRec /\ new.id = m /\ new.folder = "Outbox"
      /\ MessageSent(new) => RecipientsAllSent(ReScheduledRecipients(header[m], act))
  BY <1>2, <1>3, ReScheduledEntryType, ReScheduledPlaces
<1>5. TypedIndex(ix) /\ SamePlaces(ix) /\ ix[m] = new
  BY <1>2, <1>3, <1>4, WritingKeepsPlaces, IndexIsInPlace DEF TypedIndex
<1>6. ASSUME NEW e \in StoreErrors, OutboxAnswers(index, e) \/ OutboxAnswers(ix, e)
      PROVE  PlaceInv' /\ KeepsPlaces
  <2>1. e \in Errors
    BY ErrorsKnown
  <2> HIDE DEF ix
  <2>. QED BY <1>1, <1>5, <1>6, <2>1, IndexIsInPlace, OutboxAnswersKeepsPlaceInv
<1>7. ASSUME index' = ix, header' = hs, entry' = ix[m],
             progress' = [progress EXCEPT !.state = "ReScheduling"]
      PROVE  PlaceInv' /\ KeepsPlaces
  <2>1. progress'.state \in Deciding
    BY <1>3, <1>7 DEF ProgressRec, Deciding
  <2>2. header'[current] = ReScheduledRecipients(header[m], act)
    BY <1>2, <1>3, <1>7
  <2> HIDE DEF ix, new
  <2>3. KeepsPlaces
    BY <1>5, <1>7 DEF KeepsPlaces, SamePlaces
  <2>4. SentShape' /\ QueueShape'
    BY <1>1, <2>3, SentShapeStays DEF PlaceInv, QueueShape
  <2>5. index'[current'].folder = "Outbox"
    BY <1>1, <1>2, <1>5, <1>7 DEF SamePlaces
  <2>6. entry' = new /\ Sendable(current')
    BY <1>1, <1>2, <1>5, <1>7
  <2>. QED BY <1>1, <1>4, <2>1, <2>2, <2>3, <2>4, <2>5, <2>6, DecidingKeepsPlaceInv
<1>8. \/ /\ index' = ix /\ header' = hs /\ entry' = ix[m]
         /\ progress' = [progress EXCEPT !.state = "ReScheduling"]
      \/ \E e \in StoreErrors : OutboxAnswers(index, e) \/ OutboxAnswers(ix, e)
  BY Zenon DEF OutboxReSchedules, act
<1>. QED BY <1>6, <1>7, <1>8

\* The outbox sender decides on one message until it has logged it.
LEMMA LoggingGoesOn ==
  ASSUME IInv, OutboxReScheduled \/ OutboxGotLogEvent \/ OutboxWroteLogEvent
  PROVE  progress'.state \in Deciding
<1>1. ASSUME NEW p \in ProgressRec, NEW rs, NEW from, LogEntry(p, rs, from)
      PROVE  progress'.state \in Deciding
  <2>1. \/ \E d : progress' = [p EXCEPT !.state = "LogEntryComplete", !.rcpDone = d]
        \/ \E d, b : progress' = [p EXCEPT !.rcpDone = d,
                          !.state = IF b THEN "GetLogEvent" ELSE "AddLogEvent"]
    BY <1>1, Zenon DEF LogEntry
  <2>2. \A d, s : /\ [p EXCEPT !.state = s, !.rcpDone = d].state = s
                  /\ [p EXCEPT !.rcpDone = d, !.state = s].state = s
    BY DEF ProgressRec
  <2>3. /\ "LogEntryComplete" \in Deciding
        /\ \A b : (IF b THEN "GetLogEvent" ELSE "AddLogEvent") \in Deciding
    BY Zenon DEF Deciding, LogStates
  <2>4. CASE \E d : progress' = [p EXCEPT !.state = "LogEntryComplete", !.rcpDone = d]
    BY <2>2, <2>3, <2>4
  <2>5. ASSUME NEW d, NEW b, progress' = [p EXCEPT !.rcpDone = d,
                               !.state = IF b THEN "GetLogEvent" ELSE "AddLogEvent"]
        PROVE  progress'.state \in Deciding
    <3> DEFINE s == IF b THEN "GetLogEvent" ELSE "AddLogEvent"
    <3>1. s \in Deciding
      BY <2>3
    <3> HIDE DEF s
    <3>2. progress'.state = s
      BY <2>2, <2>5 DEF s
    <3>. QED BY <3>1, <3>2
  <2>. QED BY <2>1, <2>4, <2>5, Zenon
<1>2. CASE OutboxReScheduled
  <2>1. hdr.id \in Msgs
    BY <1>2 DEF OutboxReScheduled, OutboxRuns, IInv, Shape, LogShape
  <2>2. [progress EXCEPT !.rcpCount = RcpCount[hdr.id]] \in ProgressRec
    BY <2>1, StoreAssumption DEF IInv, Types, WorkTypes, ProgressRec
  <2>. QED BY <1>1, <1>2, <2>2 DEF OutboxReScheduled
<1>3. progress \in ProgressRec
  BY DEF IInv, Types, WorkTypes
<1>4. CASE OutboxGotLogEvent
  <2>1. \A s : [progress EXCEPT !.state = s].state = s
    BY <1>3 DEF ProgressRec
  <2>2. \/ \E s \in LogStates : progress' = [progress EXCEPT !.state = s]
        \/ LogEntry(progress, hdr.rcpts, progress.rcpDone)
    BY <1>4 DEF OutboxGotLogEvent, LogStates
  <2>. QED BY <1>1, <1>3, <2>1, <2>2 DEF Deciding
<1>5. CASE OutboxWroteLogEvent
  BY <1>1, <1>3, <1>5 DEF OutboxWroteLogEvent
<1>. QED BY <1>2, <1>4, <1>5

\* What is logged of a message has no part in the decision.
LEMMA OutboxLogsKeepsPlaceInv ==
  ASSUME IInv, IInv', KeepsSent, PlaceInv,
         OutboxReScheduled \/ OutboxGotLogEvent \/ OutboxWroteLogEvent
  PROVE  PlaceInv' /\ KeepsPlaces
<1>1. /\ progress.state \in Deciding
      /\ UNCHANGED <<storeVars, entry, current, queue>>
  BY DEF OutboxReScheduled, OutboxGotLogEvent, OutboxWroteLogEvent, OutboxRuns, LogStates,
     Deciding
<1>2. progress'.state \in Deciding
  BY LoggingGoesOn
<1>3. /\ KeepsPlaces /\ SentShape' /\ QueueShape'
  BY <1>1, SentShapeStays DEF storeVars, KeepsPlaces, PlaceInv, SentShape, QueueShape
<1>4. /\ Sendable(current') /\ entry'.folder = "Outbox"
      /\ index'[current'].folder = "Outbox"
      /\ MessageSent(entry') => RecipientsAllSent(header'[current'])
  BY <1>1 DEF storeVars, PlaceInv, InOutbox, DecisionIsRight
<1>. QED BY <1>2, <1>3, <1>4, DecidingKeepsPlaceInv

\* The state in which MoveEntryL is called.
LEMMA MovedIsInOutbox ==
  ASSUME IInv, PlaceInv, progress.state = "LogEntryComplete"
  PROVE  /\ current \in Msgs /\ entry.id = current /\ Sendable(current)
         /\ entry \in EntryRec /\ entry.folder = "Outbox" /\ progress \in ProgressRec
         /\ index[current].folder = "Outbox"
         /\ MessageSent(entry) => RecipientsAllSent(header[current])
BY DEF IInv, Types, MemTypes, WorkTypes, Shape, LogShape, PlaceInv, InOutbox,
   DecisionIsRight, Deciding

LEMMA OutboxKeepsUnsentKeepsPlaceInv ==
  ASSUME IInv, IInv', KeepsSent, PlaceInv, OutboxKeepsUnsent
  PROVE  PlaceInv' /\ KeepsPlaces
<1>1. /\ progress.state = "LogEntryComplete" /\ queue' = queue
      /\ \/ /\ index' = [index EXCEPT ![entry.id] = entry]
            /\ progress' = [progress EXCEPT !.state = "MovingEntry"]
         \/ \E e \in StoreErrors : OutboxAnswers(index, e)
  BY DEF OutboxKeepsUnsent, OutboxRuns
<1>2. SamePlaces([index EXCEPT ![entry.id] = entry])
  BY <1>1, MovedIsInOutbox, WritingKeepsPlaces
<1>3. CASE /\ index' = [index EXCEPT ![entry.id] = entry]
           /\ progress' = [progress EXCEPT !.state = "MovingEntry"]
  <2>1. progress'.state \notin {"Sending"} \cup Deciding
    BY <1>1, <1>3, MovedIsInOutbox DEF ProgressRec, Deciding, LogStates
  <2>2. KeepsPlaces
    BY <1>2, <1>3 DEF KeepsPlaces, SamePlaces
  <2>. QED BY <1>1, <2>1, <2>2, SentShapeStays, ElsewhereKeepsPlaceInv DEF PlaceInv, QueueShape
<1>4. CASE \E e \in StoreErrors : OutboxAnswers(index, e)
  BY <1>1, <1>4, ErrorsKnown, IndexIsInPlace, OutboxAnswersKeepsPlaceInv
<1>. QED BY <1>1, <1>3, <1>4

\* The move itself: what the folder Sent stands for holds of the message.
LEMMA OutboxMovesSentKeepsPlaceInv ==
  ASSUME IInv, IInv', KeepsSent, PlaceInv, OutboxMovesSent
  PROVE  PlaceInv'
<1> DEFINE m    == entry.id
           sent == [entry EXCEPT !.connected = FALSE, !.failed = FALSE, !.state = "Sent"]
           gone == [sent EXCEPT !.folder = "Sent"]
<1>1. /\ progress.state = "LogEntryComplete" /\ MessageSent(entry)
      /\ queue' = queue /\ header' = header /\ current' = current
      /\ \/ /\ index' \in {[index EXCEPT ![m] = gone], [index EXCEPT ![m] = sent]}
            /\ progress' = [progress EXCEPT !.state = "MovingEntry"]
         \/ \E e \in StoreErrors : \/ OutboxAnswers(index, e)
                                   \/ OutboxAnswers([index EXCEPT ![m] = sent], e)
  BY DEF OutboxMovesSent, OutboxRuns
<1>2. /\ m \in Msgs /\ m = current /\ Sendable(m) /\ RecipientsAllSent(header[m])
      /\ index[m].folder = "Outbox" /\ progress \in ProgressRec
  BY <1>1, MovedIsInOutbox
<1>3. /\ sent \in EntryRec /\ sent.id = m /\ sent.folder = "Outbox" /\ sent.state = "Sent"
      /\ gone.folder = "Sent" /\ gone.state = "Sent"
  BY <1>1, MovedIsInOutbox DEF EntryRec, SendingStates
<1> HIDE DEF sent, gone
<1>4. SamePlaces([index EXCEPT ![m] = sent]) /\ TypedIndex([index EXCEPT ![m] = sent])
  BY <1>2, <1>3, WritingKeepsPlaces
<1>5. CASE \E e \in StoreErrors : \/ OutboxAnswers(index, e)
                                  \/ OutboxAnswers([index EXCEPT ![m] = sent], e)
  BY <1>1, <1>4, <1>5, ErrorsKnown, IndexIsInPlace, OutboxAnswersKeepsPlaceInv
<1>6. CASE /\ index' \in {[index EXCEPT ![m] = gone], [index EXCEPT ![m] = sent]}
           /\ progress' = [progress EXCEPT !.state = "MovingEntry"]
  <2>1. progress'.state \notin {"Sending"} \cup Deciding
    BY <1>2, <1>6 DEF ProgressRec, Deciding, LogStates
  <2>2. index \in [Msgs -> EntryRec] /\ SentShape
    BY DEF IInv, Types, StoreTypes, TypedIndex, PlaceInv
  <2>3. \A x \in Msgs : \/ index'[x] = index[x]
                        \/ x = m /\ index'[x] \in {gone, sent}
    BY <1>6, <2>2
  <2>4. SentShape'
    BY <1>1, <1>2, <1>3, <2>2, <2>3 DEF SentShape
  <2>. QED BY <1>1, <2>1, <2>4, ElsewhereKeepsPlaceInv DEF PlaceInv, QueueShape
<1>. QED BY <1>1, <1>5, <1>6

LEMMA OutboxRunLKeepsPlaceInv ==
  ASSUME IInv, IInv', KeepsSent, PlaceInv, OutboxRunL
  PROVE  PlaceInv' /\ (KeepsPlaces \/ OutboxMovesSent)
<1>1. CASE OutboxFails \/ OutboxCompletes
  <2>1. \E e \in Errors : OutboxAnswers(index, e)
    <3>1. ao["Outbox"].status \in Errors \cup {KRequestPending}
      BY DEF IInv, Types, WorkTypes, TypedObjects, Objects
    <3>. QED BY <1>1, <3>1, ErrorsKnown DEF OutboxFails, OutboxCompletes, Runnable
  <2>2. queue' = queue
    BY <1>1 DEF OutboxFails, OutboxCompletes
  <2>. QED BY <2>1, <2>2, IndexIsInPlace, OutboxAnswersKeepsPlaceInv
<1>2. CASE OutboxSendsNext \/ OutboxMessageDeleted
  <2>1. Done(ao, "Outbox") /\ SendNextHeaderL
    BY <1>2 DEF OutboxSendsNext, OutboxMessageDeleted, OutboxRuns, Runnable, Done
  <2>. QED BY <2>1, SendNextHeaderKeepsPlaceInv
<1>. QED BY <1>1, <1>2, OutboxSendingDoneKeepsPlaceInv, OutboxReSchedulesKeepsPlaceInv,
         OutboxLogsKeepsPlaceInv, OutboxKeepsUnsentKeepsPlaceInv,
         OutboxMovesSentKeepsPlaceInv DEF OutboxRunL

-----------------------------------------------------------------------------
(* CSmsSendSession and CSmsSend                                            *)

\* The message that is being sent.
LEMMA SendingPlace ==
  ASSUME IInv, PlaceInv, progress.state = "Sending"
  PROVE  /\ current \in Msgs /\ entry.id = current /\ Sendable(current)
         /\ entry \in EntryRec /\ entry.folder = "Outbox"
         /\ index[current] \in EntryRec /\ index[current].id = current
         /\ index[current].folder \in {"Outbox", "None"}
         /\ ctx = current => index[current].folder = "Outbox"
<1>1. /\ current \in Msgs /\ entry.id = current /\ entry \in EntryRec
      /\ index[current] \in EntryRec /\ index[current].id = current
  BY DEF IInv, Types, StoreTypes, TypedIndex, MemTypes, Shape, SendingShape
<1>. QED BY <1>1 DEF PlaceInv, InOutbox, EntryRec

\* CSmsSend ends with an error: an entry at most of the current message is
\* written, and it stays where it is.
EndsInPlace(ix, en, c) ==
  /\ \A m \in Msgs : ix[m].folder = index[m].folder
  /\ \A m \in Msgs : m # current => ix[m] = index[m]
  /\ en.folder = "Outbox"
  /\ c = current => index[current].folder = "Outbox"

LEMMA EndingKeepsPlaceInv ==
  ASSUME IInv, IInv', KeepsSent, PlaceInv, progress.state = "Sending",
         EndsInPlace(index', entry', ctx'), progress'.state = "Sending",
         ~ao'["Send"].active, current' = current, queue' = queue,
         progress'.error # KErrNone
  PROVE  PlaceInv' /\ KeepsPlaces
<1>1. index[current].folder # "Sent" /\ current \in Msgs /\ SentShape
  BY SendingPlace DEF PlaceInv
<1>2. KeepsPlaces
  BY <1>1 DEF EndsInPlace, KeepsPlaces, SentShape
<1>3. SentShape'
  BY <1>1, <1>2, SentShapeStays
<1>4. NoErrorMeansSent'
  BY DEF NoErrorMeansSent
<1>5. /\ entry'.folder = "Outbox" /\ index'[current].folder = index[current].folder
      /\ ctx' = current => index[current].folder = "Outbox"
  BY <1>1 DEF EndsInPlace
<1>. QED BY <1>2, <1>3, <1>4, <1>5, SentOnKeepsPlaceInv

\* DoComplete reads the entry again, if the message still exists.
LEMMA SendCompletedPlaces ==
  ASSUME IInv, PlaceInv, progress.state = "Sending",
         NEW s, TypedSnapshot(s), NEW e \in Errors, NEW st \in BOOLEAN,
         s.index = index, s.entry.id = current, s.entry.folder = "Outbox",
         s.ctx = current => index[current].folder = "Outbox"
  PROVE  EndsInPlace(SendCompleted(s, e, st).index, SendCompleted(s, e, st).entry,
                     SendCompleted(s, e, st).ctx)
<1> DEFINE read == [index[current] EXCEPT !.err = e]
           done == EntryAfterAllSent(read, s.send, s.progress.rcpCount)
           ix   == IF st THEN [index EXCEPT ![current] = done] ELSE index
           p    == [s.progress EXCEPT !.error = e]
           sn   == [s.send EXCEPT !.state = "Waiting"]
           sn2  == [sn EXCEPT !.failedStatus = KErrNone]
           r    == SendCompleted(s, e, st)
<1>1. /\ current \in Msgs /\ current # NoMsg /\ index[current] \in EntryRec
      /\ index[current].folder \in {"Outbox", "None"} /\ TypedIndex(index)
  BY SendingPlace, StoreAssumption DEF IInv, Types, StoreTypes
<1>2. r = IF index[current].folder # "None"
            THEN Snapshot(ix, done, p, sn2, current)
            ELSE Snapshot(index, s.entry, p, sn, s.ctx)
  BY <1>1, Zenon DEF SendCompleted
<1>3. read \in EntryRec /\ read.folder = index[current].folder
  BY <1>1 DEF EntryRec
<1> HIDE DEF read
<1>4. done \in EntryRec /\ done.folder = index[current].folder
  BY <1>3, EntryAfterAllSentType DEF TypedSnapshot, ProgressRec
<1> HIDE DEF done
<1>5. /\ \A m \in Msgs : ix[m].folder = index[m].folder
      /\ \A m \in Msgs : m # current => ix[m] = index[m]
  BY <1>1, <1>4 DEF TypedIndex
<1> HIDE DEF ix, p, sn, sn2, r
<1>6. CASE index[current].folder = "Outbox"
  <2>1. r.index = ix /\ r.entry = done /\ r.ctx = current
    BY <1>2, <1>6 DEF Snapshot
  <2>2. EndsInPlace(r.index, r.entry, r.ctx)
    BY <1>4, <1>5, <1>6, <2>1 DEF EndsInPlace
  <2>. QED BY <2>2 DEF r
<1>7. CASE index[current].folder = "None"
  <2>1. r.index = index /\ r.entry = s.entry /\ r.ctx = s.ctx
    BY <1>2, <1>7 DEF Snapshot
  <2>2. EndsInPlace(r.index, r.entry, r.ctx)
    BY <2>1 DEF EndsInPlace
  <2>. QED BY <2>2 DEF r
<1>. QED BY <1>1, <1>6, <1>7

LEMMA SendCompletesKeepsPlaceInv ==
  ASSUME IInv, IInv', KeepsSent, PlaceInv, Done(ao, "Send"),
         NEW s, TypedSnapshot(s), NEW e \in Errors \ {KErrNone}, NEW st \in BOOLEAN,
         s.index = index, s.entry.id = current, s.entry.folder = "Outbox",
         s.ctx = current => index[current].folder = "Outbox",
         s.progress.state = "Sending", Becomes(SendCompleted(s, e, st)),
         ao' = Answers(ao, "Send", KErrNone), current' = current, queue' = queue
  PROVE  PlaceInv' /\ KeepsPlaces
<1>1. progress.state = "Sending"
  BY BelowIsAtRest DEF IInv, Done
<1>2. progress'.state = "Sending" /\ progress'.error = e
  BY SendCompletedTyped DEF Becomes
<1>3. EndsInPlace(index', entry', ctx')
  BY <1>1, SendCompletedPlaces DEF Becomes
<1>4. ~ao'["Send"].active
  BY DEF IInv, Types, WorkTypes, Answers, Parent, TypedObjects, Objects, IdleObject
<1>. QED BY <1>1, <1>2, <1>3, <1>4, EndingKeepsPlaceInv

\* CSmsSendSession keeps the error of the progress, or puts its own there.
LEMMA SessionRunsKeepsPlaceInv ==
  ASSUME IInv, IInv', KeepsSent, PlaceInv, SessionRuns
  PROVE  PlaceInv' /\ KeepsPlaces
<1>1. Done(ao, "Session") /\ UNCHANGED <<storeVars, ctx, entry, current, queue>>
  BY DEF SessionRuns, Runnable, Done, memVars
<1>2. ~ao["Send"].active /\ progress.state = "Sending"
  BY <1>1, BelowIsAtRest DEF IInv, Done
<1>3. progress'.state = "Sending" /\ (progress'.error = KErrNone => progress.error = KErrNone)
  <2>1. progress \in ProgressRec
    BY DEF IInv, Types, WorkTypes
  <2>. QED BY <1>2, <2>1 DEF SessionRuns, ProgressRec
<1>4. ~ao'["Send"].active
  BY <1>2 DEF SessionRuns, IInv, Types, WorkTypes, Answers, Parent, TypedObjects, Objects,
     IdleObject
<1>5. KeepsPlaces /\ SentShape'
  BY <1>1, SentShapeStays DEF storeVars, KeepsPlaces, PlaceInv, SentShape
<1>6. NoErrorMeansSent'
  BY <1>1, <1>2, <1>3 DEF storeVars, PlaceInv, NoErrorMeansSent
<1>7. /\ entry'.folder = "Outbox" /\ index'[current].folder = index[current].folder
      /\ ctx' = current => index[current].folder = "Outbox"
  BY <1>1, <1>2, SendingPlace DEF storeVars
<1>. QED BY <1>1, <1>2, <1>3, <1>4, <1>5, <1>6, <1>7, SentOnKeepsPlaceInv

\* CSmsSend has failed, or finds that the message has been deleted.
LEMMA SendFailsKeepsPlaceInv ==
  ASSUME IInv, IInv', KeepsSent, PlaceInv, SendFails \/ SendFindsDeleted
  PROVE  PlaceInv' /\ KeepsPlaces
<1>1. /\ Done(ao, "Send") /\ ao' = Answers(ao, "Send", KErrNone)
      /\ current' = current /\ queue' = queue
  BY DEF SendFails, SendFindsDeleted, SendRuns, Runnable, Done
<1>2. progress.state = "Sending"
  BY <1>1, BelowIsAtRest DEF IInv, Done
<1>3. /\ current \in Msgs /\ entry.id = current /\ entry.folder = "Outbox"
      /\ ctx = current => index[current].folder = "Outbox"
  BY <1>2, SendingPlace
<1>4. TypedIndex(index) /\ entry \in EntryRec /\ progress \in ProgressRec
      /\ send \in SendRec /\ ctx \in Ids
  BY DEF IInv, Types, StoreTypes, MemTypes, WorkTypes
<1>5. ASSUME NEW p \in ProgressRec, p.state = "Sending", NEW e \in Errors \ {KErrNone},
             NEW st \in BOOLEAN,
             Becomes(SendCompleted(Snapshot(index, entry, p, send, ctx), e, st))
      PROVE  PlaceInv' /\ KeepsPlaces
  <2> DEFINE s == Snapshot(index, entry, p, send, ctx)
  <2>1. /\ TypedSnapshot(s) /\ s.index = index /\ s.entry = entry
        /\ s.progress = p /\ s.ctx = ctx
    BY <1>4, SnapshotTyped
  <2>2. Becomes(SendCompleted(s, e, st))
    BY <1>5
  <2> HIDE DEF s
  <2>. QED BY <1>1, <1>3, <1>5, <2>1, <2>2, SendCompletesKeepsPlaceInv
<1>6. CASE SendFails
  <2>1. PICK st \in Stores : Becomes(SendCompleted(Snapshot(index, entry, progress, send, ctx),
                                                   ao["Send"].status, st))
    BY <1>6 DEF SendFails
  <2>2. ao["Send"].status \in Errors \ {KErrNone}
    BY <1>6 DEF SendFails, Runnable, IInv, Types, WorkTypes, TypedObjects, Objects
  <2>. QED BY <1>2, <1>4, <1>5, <2>1, <2>2, StoresType
<1>7. CASE SendFindsDeleted
  <2>1. Becomes(SendCompleted(
          Snapshot(index, entry, [progress EXCEPT !.rcpDone = @ + 1], send, ctx),
          KErrNotFound, TRUE))
    BY <1>7 DEF SendFindsDeleted
  <2>2. progress.rcpDone + 1 \in Int
    BY <1>4 DEF ProgressRec
  <2>3. /\ [progress EXCEPT !.rcpDone = progress.rcpDone + 1] \in ProgressRec
        /\ [progress EXCEPT !.rcpDone = progress.rcpDone + 1].state = "Sending"
    BY <1>2, <1>4, <2>2, ProgressDone
  <2>4. KErrNotFound \in Errors \ {KErrNone}
    BY ErrorsKnown DEF KErrNotFound, KErrNone
  <2>. QED BY <1>5, <2>1, <2>3, <2>4
<1>. QED BY <1>6, <1>7

\* What the entry says when all recipients have been tried.
LEMMA AllTriedMeans ==
  ASSUME NEW e \in EntryRec, NEW sn \in SendRec, NEW n \in Nat
  PROVE  /\ e.state = "Suspended" => EntryAfterAllSent(e, sn, n).state = "Suspended"
         /\ EntryAfterAllSent(e, sn, n).folder = e.folder
<1>1. e.state = "Suspended" => EntryAfterAllSent(e, sn, n) = [e EXCEPT !.connected = FALSE]
  BY DEF EntryAfterAllSent
<1>2. [e EXCEPT !.connected = FALSE].state = e.state
  BY DEF EntryRec
<1>. QED BY <1>1, <1>2, EntryAfterAllSentType

\* No recipient is left to try and no failure is remembered: all were sent,
\* or the message was suspended.
LEMMA NoneLeftMeansSent ==
  ASSUME IInv, PlaceInv, SendRuns({"OpeningEntry", "UpdatingRecipient"}),
         NextRecipient = progress.rcpCount, progress.error = KErrNone,
         send.failedStatus = KErrNone
  PROVE  entry.state = "Suspended" \/ RecipientsAllSent(header[current])
<1> DEFINE able == {i \in 0 .. progress.rcpCount - 1 :
                      CanSendMessageToRecipient(entry, hdr.rcpts[i + 1])}
<1>1. /\ Opened /\ progress.rcpDone \in Int /\ progress.rcpCount \in Int
      /\ RcpCount[current] \in Nat /\ current \in Msgs
  BY SendRunsOpened DEF Opened
<1>2. SendOpened /\ entry.state # "Sent"
  BY DEF SendRuns, Runnable, SendOpened, PlaceInv, SendLocks
<1>3. \A i \in progress.rcpDone .. progress.rcpCount - 1 : i \notin able
  <2>1. FirstFrom(progress.rcpDone, progress.rcpCount, able) = progress.rcpCount
    BY DEF NextRecipient
  <2> HIDE DEF able
  <2>2. ~(FirstFrom(progress.rcpDone, progress.rcpCount, able)
            \in progress.rcpDone .. progress.rcpCount - 1)
    BY <1>1, <2>1
  <2>. QED BY <1>1, <2>2, FirstFromRange
<1>4. SUFFICES ASSUME CanSendMessage(entry) PROVE RecipientsAllSent(header[current])
  BY <1>2 DEF CanSendMessage
<1>5. RcpCount[current] > 0 /\ header[current] \in Rcpts(current)
  BY <1>1, <1>2 DEF PlaceInv, FailureIsRemembered, IInv, Types, StoreTypes, TypedHeaders
<1>6. ASSUME NEW i \in 1 .. RcpCount[current] PROVE ~NotSent(header[current][i])
  <2>1. CASE i <= progress.rcpDone
    <3>1. i \in 1 .. progress.rcpDone
      BY <1>1, <2>1
    <3>. QED BY <1>2, <3>1 DEF PlaceInv, FailureIsRemembered
  <2>2. CASE progress.rcpDone < i
    <3>1. /\ i - 1 \in progress.rcpDone .. progress.rcpCount - 1
          /\ i - 1 \in 0 .. progress.rcpCount - 1 /\ (i - 1) + 1 = i
      BY <1>1, <2>2 DEF Opened
    <3>2. ~NotSent(hdr.rcpts[i])
      BY <1>3, <1>4, <3>1 DEF CanSendMessageToRecipient
    <3>. QED BY <1>2, <3>2 DEF PlaceInv, HeaderIsCurrent
  <2>. QED BY <1>1, <2>1, <2>2
<1>. QED BY <1>1, <1>5, <1>6, AllSentMeans

\* All recipients have been tried; the entry is changed or cannot be.
LEMMA SendAllTriedKeepsPlaceInv ==
  ASSUME IInv, IInv', KeepsSent, PlaceInv, SendAllTried
  PROVE  PlaceInv' /\ KeepsPlaces
<1> DEFINE done == EntryAfterAllSent(entry, send, progress.rcpCount)
           n    == progress.rcpCount
           left == [send EXCEPT !.failedStatus = KErrNone]
           p    == [progress EXCEPT !.rcpDone = n]
           err  == IF progress.error = KErrNone THEN send.failedStatus ELSE progress.error
<1>1. /\ SendRuns({"OpeningEntry", "UpdatingRecipient"}) /\ NextRecipient = n
      /\ ao' = Answers(ao, "Send", KErrNone)
      /\ UNCHANGED <<header, current, queue>>
  BY DEF SendAllTried
<1>2. Done(ao, "Send") /\ Opened /\ progress.state = "Sending"
  BY <1>1, SendRunsOpened
<1>3. /\ current \in Msgs /\ entry.id = current /\ entry.folder = "Outbox"
      /\ index[current].folder \in {"Outbox", "None"}
      /\ ctx = current => index[current].folder = "Outbox"
  BY <1>2, SendingPlace
<1>4. /\ TypedIndex(index) /\ entry \in EntryRec /\ progress \in ProgressRec
      /\ send \in SendRec /\ ctx \in Ids /\ n \in Nat /\ ao \in TypedObjects
  BY DEF IInv, Types, StoreTypes, MemTypes, WorkTypes, ProgressRec
<1>5. ctx = current
  BY <1>1 DEF SendRuns, Runnable, PlaceInv, SendLocks
<1>6. /\ done \in EntryRec /\ done.folder = "Outbox"
      /\ entry.state = "Suspended" => done.state = "Suspended"
  BY <1>3, <1>4, AllTriedMeans, EntryAfterAllSentType
<1> HIDE DEF done
<1>7. CASE /\ index' = [index EXCEPT ![entry.id] = done] /\ entry' = done
           /\ progress' = [progress EXCEPT !.rcpDone = n, !.error = err]
           /\ UNCHANGED ctx
  <2>1. progress'.state = "Sending" /\ progress'.error = err
    <3>1. n \in Int
      BY <1>4
    <3> HIDE DEF n, err
    <3>. QED BY <1>2, <1>4, <1>7, <3>1 DEF ProgressRec
  <2>2. ~ao'["Send"].active
    BY <1>1, <1>4 DEF Answers, Parent, TypedObjects, Objects, IdleObject
  <2>3. \A m \in Msgs : index'[m].folder = index[m].folder /\ (m # current => index'[m] = index[m])
    BY <1>3, <1>4, <1>5, <1>6, <1>7 DEF TypedIndex
  <2>4. KeepsPlaces /\ SentShape'
    <3>1. KeepsPlaces
      BY <1>3, <2>3 DEF KeepsPlaces, PlaceInv, SentShape
    <3>. QED BY <3>1, SentShapeStays DEF PlaceInv
  <2>5. NoErrorMeansSent'
    <3>1. progress'.error = KErrNone => progress.error = KErrNone /\ send.failedStatus = KErrNone
      BY <2>1
    <3>2. progress'.error = KErrNone =>
            entry.state = "Suspended" \/ RecipientsAllSent(header[current])
      BY <1>1, <3>1, NoneLeftMeansSent
    <3>. QED BY <1>1, <1>5, <1>6, <1>7, <3>2 DEF NoErrorMeansSent
  <2>. QED BY <1>1, <1>2, <1>3, <1>5, <1>6, <1>7, <2>1, <2>2, <2>3, <2>4, <2>5,
           SentOnKeepsPlaceInv
<1>8. ASSUME NEW e \in StoreErrors, NEW st \in Stores,
             Becomes(SendCompleted(Snapshot(index, entry, p, left, ctx), e, st))
      PROVE  PlaceInv' /\ KeepsPlaces
  <2> DEFINE s == Snapshot(index, entry, p, left, ctx)
  <2>1. e \in Errors \ {KErrNone} /\ st \in BOOLEAN
    BY ErrorsKnown, StoresType
  <2>2. p \in ProgressRec /\ p.state = "Sending" /\ left \in SendRec
    <3>1. n \in Int
      BY <1>4
    <3>2. KErrNone \in Errors
      BY ErrorsKnown
    <3> HIDE DEF n
    <3>. QED BY <1>2, <1>4, <3>1, <3>2, ProgressDone DEF SendRec
  <2> HIDE DEF p, left
  <2>3. /\ TypedSnapshot(s) /\ s.index = index /\ s.entry = entry
        /\ s.progress = p /\ s.ctx = ctx
    BY <1>4, <2>2, SnapshotTyped
  <2>4. Becomes(SendCompleted(s, e, st))
    BY <1>8
  <2> HIDE DEF s
  <2>. QED BY <1>1, <1>2, <1>3, <2>1, <2>2, <2>3, <2>4, SendCompletesKeepsPlaceInv
<1>9. \/ /\ index' = [index EXCEPT ![entry.id] = done] /\ entry' = done
         /\ progress' = [progress EXCEPT !.rcpDone = n, !.error = err]
         /\ UNCHANGED ctx
      \/ \E e \in StoreErrors : \E st \in Stores :
           Becomes(SendCompleted(Snapshot(index, entry, p, left, ctx), e, st))
  BY Zenon DEF SendAllTried, done
<1>. QED BY <1>7, <1>8, <1>9

\* The result of one recipient goes into the header, or into an error field.
LEMMA SendRecipientDoneKeepsPlaceInv ==
  ASSUME IInv, IInv', KeepsSent, PlaceInv, SendRecipientDone
  PROVE  PlaceInv' /\ KeepsPlaces
<1> DEFINE m    == entry.id
           err  == progress.error
           k    == progress.rcpDone + 1
           new  == RecipientAfterSend(hdr.rcpts[k], err, send.reports)
           rs   == [hdr.rcpts EXCEPT ![k] = new]
           e    == IF err = KErrNone THEN index[m]
                   ELSE [index[m] EXCEPT !.err = err, !.failed = TRUE]
           fs   == IF err # KErrNone /\ progress.rcpCount > 1 THEN err ELSE send.failedStatus
           ns   == IF err = KErrNone /\ send.reports THEN send.sentRcpts + 1
                   ELSE send.sentRcpts
           s    == [send EXCEPT !.state = "UpdatingRecipient", !.failedStatus = fs,
                                !.sentRcpts = ns]
           p    == [progress EXCEPT !.rcpDone = k]
           snap == Snapshot(index, e, p, s, m)
<1>1. /\ SendRuns({"SendingEntry"}) /\ Exists(m) /\ hdr' = [hdr EXCEPT !.rcpts = rs]
      /\ UNCHANGED <<current, queue>>
  BY DEF SendRecipientDone
<1>2. /\ \/ /\ header' = [header EXCEPT ![m] = rs] /\ Becomes(snap)
            /\ ao' = RunsNext(ao, "Send", KErrNone)
         \/ \E x \in StoreErrors : \E st \in Stores :
              /\ Becomes(SendCompleted(snap, x, st))
              /\ ao' = Answers(ao, "Send", KErrNone)
  BY Zenon DEF SendRecipientDone
<1>3. Done(ao, "Send") /\ Opened /\ progress.state = "Sending" /\ send.state = "SendingEntry"
      /\ SendOpened
  BY <1>1, SendRunsOpened DEF SendRuns, Runnable, SendOpened
<1>4. /\ current \in Msgs /\ m = current /\ index[current].folder = "Outbox"
      /\ index[m] \in EntryRec /\ index[m].id = m
  BY <1>1, <1>3, SendingPlace DEF Exists
<1>5. /\ TypedIndex(index) /\ TypedHeaders(header) /\ entry \in EntryRec
      /\ progress \in ProgressRec /\ send \in SendRec /\ ao \in TypedObjects
      /\ err \in Errors /\ TypedHeader(hdr)
      /\ progress.rcpDone \in Int /\ progress.rcpCount \in Nat
  BY DEF IInv, Types, StoreTypes, MemTypes, WorkTypes, ProgressRec
<1>6. /\ hdr.id = current /\ progress.rcpCount = RcpCount[current]
      /\ progress.rcpDone \in Nat /\ k \in 1 .. RcpCount[current]
  BY <1>3, <1>5 DEF Opened
<1>7. hdr.rcpts \in Rcpts(current) /\ hdr.rcpts[k] \in RcptRec(Errors)
  BY <1>4, <1>5, <1>6, HeaderRecipients, RcptsOf
<1>8. new \in RcptRec(Errors) /\ (NotSent(new) <=> err # KErrNone)
  BY <1>5, <1>7, RecipientAfterSendType DEF SendRec
<1> HIDE DEF new, k
<1>9. rs \in Rcpts(current) /\ rs[k] = new
  BY <1>6, <1>7, <1>8 DEF Rcpts
<1>10. /\ e \in EntryRec /\ e.id = m /\ e.folder = "Outbox" /\ e.state = index[m].state
  BY <1>4, <1>5 DEF EntryRec
<1>11. /\ s \in SendRec /\ s.failedStatus = fs /\ s.state = "UpdatingRecipient"
  <2>1. fs \in Errors /\ ns \in Nat
    BY <1>5 DEF SendRec
  <2> HIDE DEF fs, ns
  <2>. QED BY <1>5, <2>1 DEF SendRec, SendStates
<1>12. /\ p \in ProgressRec /\ p.state = "Sending" /\ p.rcpDone = k
       /\ p.error = err /\ p.rcpCount = progress.rcpCount
  BY <1>3, <1>5, <1>6 DEF ProgressRec
<1> HIDE DEF e, s, p
<1>13. /\ TypedSnapshot(snap) /\ snap.index = index /\ snap.entry = e
       /\ snap.progress = p /\ snap.send = s /\ snap.ctx = m
  BY <1>4, <1>5, <1>10, <1>11, <1>12, SnapshotTyped DEF Ids
<1> HIDE DEF snap
<1>14. ASSUME NEW x \in StoreErrors, NEW st \in Stores,
              Becomes(SendCompleted(snap, x, st)), ao' = Answers(ao, "Send", KErrNone)
       PROVE  PlaceInv' /\ KeepsPlaces
  <2>1. x \in Errors \ {KErrNone} /\ st \in BOOLEAN
    BY ErrorsKnown, StoresType
  <2>. QED BY <1>1, <1>3, <1>4, <1>10, <1>12, <1>13, <1>14, <2>1, SendCompletesKeepsPlaceInv
<1>15. ASSUME header' = [header EXCEPT ![m] = rs], Becomes(snap),
              ao' = RunsNext(ao, "Send", KErrNone)
       PROVE  PlaceInv' /\ KeepsPlaces
  <2>1. /\ index' = index /\ entry' = e /\ progress' = p /\ send' = s /\ ctx' = current
        /\ current' = current
    BY <1>1, <1>4, <1>13, <1>15 DEF Becomes
  <2>2. header'[current] = rs /\ hdr'.rcpts = rs
    BY <1>1, <1>4, <1>5, <1>6, <1>15, HeaderRecipients DEF TypedHeaders
  <2>3. KeepsPlaces /\ SentShape' /\ QueueShape'
    BY <1>1, <2>1, SentShapeStays DEF KeepsPlaces, PlaceInv, SentShape, QueueShape
  <2>4. ao'["Send"].active
    BY <1>5, <1>15 DEF RunsNext, TypedObjects, Objects
  <2>5. InOutbox' /\ DecisionIsRight'
    BY <1>3, <1>4, <1>10, <1>12, <2>1 DEF PlaceInv, InOutbox, DecisionIsRight, Deciding, LogStates
  <2>6. SendLocks'
    BY <1>3, <1>4, <1>10, <2>1 DEF PlaceInv, SendLocks, SendOpened
  <2>7. HeaderIsCurrent'
    BY <2>1, <2>2 DEF HeaderIsCurrent
  <2>8. FailureIsRemembered'
    <3>1. RcpCount[current] > 0
      BY <1>3 DEF PlaceInv, FailureIsRemembered
    <3>2. ASSUME NEW i \in 1 .. k
          PROVE  \/ ~NotSent(header'[current][i])
                 \/ fs # KErrNone
                 \/ progress.rcpCount = 1 /\ err # KErrNone
      <4>1. CASE i = k
        BY <1>5, <1>6, <1>8, <1>9, <2>2, <4>1
      <4>2. CASE i # k
        <5>1. i \in 1 .. progress.rcpDone /\ i \in 1 .. RcpCount[current]
          BY <1>5, <1>6, <4>2 DEF k
        <5>2. progress.rcpCount # 1
          BY <1>6, <5>1 DEF k
        <5>3. ~NotSent(header[current][i]) \/ send.failedStatus # KErrNone
          BY <1>3, <5>1, <5>2 DEF PlaceInv, FailureIsRemembered
        <5>. QED BY <1>4, <5>1, <5>3 DEF KeepsSent
      <4>. QED BY <4>1, <4>2
    <3>. QED BY <1>11, <1>12, <2>1, <3>1, <3>2 DEF FailureIsRemembered
  <2>9. NoErrorMeansSent'
    BY <2>4 DEF NoErrorMeansSent
  <2>. QED BY <2>3, <2>5, <2>6, <2>7, <2>8, <2>9 DEF PlaceInv
<1>. QED BY <1>2, <1>14, <1>15

\* The next recipient that was not sent is started, and the entry unlocked.
LEMMA SendNextRecipientKeepsPlaceInv ==
  ASSUME IInv, IInv', KeepsSent, PlaceInv, SendNextRecipient
  PROVE  PlaceInv' /\ KeepsPlaces
<1> DEFINE able == {i \in 0 .. progress.rcpCount - 1 :
                      CanSendMessageToRecipient(entry, hdr.rcpts[i + 1])}
           n    == NextRecipient
<1>1. /\ Opened /\ progress.rcpDone \in Nat /\ progress.rcpCount \in Int
      /\ progress.state = "Sending" /\ SendOpened
      /\ RcpCount[current] \in Nat /\ current \in Msgs
      /\ progress.rcpCount = RcpCount[current]
  <2>1. SendRuns({"OpeningEntry", "UpdatingRecipient"})
    BY DEF SendNextRecipient
  <2>2. /\ Opened /\ progress.rcpDone \in Int /\ progress.rcpCount \in Int
        /\ progress.state = "Sending" /\ RcpCount[current] \in Nat
    BY <2>1, SendRunsOpened
  <2>. QED BY <2>1, <2>2 DEF Opened, SendRuns, Runnable, SendOpened
<1>2. /\ n < progress.rcpCount /\ progress' = [progress EXCEPT !.rcpDone = n]
      /\ send' = [send EXCEPT !.state = "SendingEntry"] /\ ctx' = NoMsg
      /\ ao' = Awaits(Awaits(ao, "Send"), "Rcpt")
      /\ UNCHANGED <<index, header, entry, hdr, current, queue>>
  BY DEF SendNextRecipient, storeVars, memVars
<1>3. /\ n \in progress.rcpDone .. progress.rcpCount - 1 /\ n \in able
      /\ \A j \in progress.rcpDone .. n - 1 : j \notin able
  <2>1. n = FirstFrom(progress.rcpDone, progress.rcpCount, able)
    BY DEF NextRecipient
  <2> HIDE DEF able, n
  <2>. QED BY <1>1, <1>2, <2>1, FirstFromRange
<1>4. progress \in ProgressRec /\ send \in SendRec /\ ao \in TypedObjects /\ n \in Int
  BY <1>1, <1>3 DEF IInv, Types, WorkTypes
<1>5. CanSendMessage(entry)
  BY <1>3 DEF CanSendMessageToRecipient
<1>6. ASSUME NEW i \in 1 .. n
      PROVE  \/ ~NotSent(header[current][i]) \/ send.failedStatus # KErrNone
             \/ progress.rcpCount = 1 /\ progress.error # KErrNone
  <2>1. CASE i <= progress.rcpDone
    <3>1. i \in 1 .. progress.rcpDone
      BY <1>1, <2>1
    <3>. QED BY <1>1, <3>1 DEF PlaceInv, FailureIsRemembered
  <2>2. CASE progress.rcpDone < i
    <3>1. /\ i - 1 \in progress.rcpDone .. n - 1 /\ i \in 1 .. RcpCount[current]
          /\ i - 1 \in 0 .. progress.rcpCount - 1 /\ (i - 1) + 1 = i
      BY <1>1, <1>3, <1>4, <2>2
    <3>2. ~NotSent(hdr.rcpts[i])
      BY <1>3, <1>5, <3>1 DEF CanSendMessageToRecipient
    <3>. QED BY <1>1, <3>1, <3>2 DEF PlaceInv, HeaderIsCurrent
  <2>. QED BY <1>1, <2>1, <2>2
<1> HIDE DEF n, able
<1>7. /\ progress'.state = "Sending" /\ progress'.rcpDone = n
      /\ progress'.rcpCount = progress.rcpCount /\ progress'.error = progress.error
      /\ send'.state = "SendingEntry" /\ send'.failedStatus = send.failedStatus
  BY <1>1, <1>2, <1>4 DEF ProgressRec, SendRec
<1>8. ao'["Send"].active
  BY <1>2, <1>4 DEF Awaits, TypedObjects, Objects
<1>9. KeepsPlaces /\ SentShape' /\ QueueShape'
  BY <1>2, SentShapeStays DEF KeepsPlaces, PlaceInv, SentShape, QueueShape
<1>10. InOutbox' /\ DecisionIsRight'
  BY <1>1, <1>2, <1>7, StoreAssumption DEF PlaceInv, InOutbox, DecisionIsRight, Deciding,
     LogStates
<1>11. SendLocks' /\ HeaderIsCurrent' /\ NoErrorMeansSent'
  BY <1>1, <1>2, <1>7, <1>8 DEF PlaceInv, SendLocks, SendOpened, HeaderIsCurrent,
     NoErrorMeansSent
<1>12. FailureIsRemembered'
  BY <1>1, <1>2, <1>6, <1>7 DEF PlaceInv, FailureIsRemembered
<1>. QED BY <1>9, <1>10, <1>11, <1>12 DEF PlaceInv

LEMMA SendRunLKeepsPlaceInv ==
  ASSUME IInv, IInv', KeepsSent, PlaceInv, SendRunL
  PROVE  PlaceInv' /\ KeepsPlaces
BY SendFailsKeepsPlaceInv, SendAllTriedKeepsPlaceInv, SendRecipientDoneKeepsPlaceInv,
   SendNextRecipientKeepsPlaceInv DEF SendRunL

-----------------------------------------------------------------------------
(* CSmsRecipientSend, the services and what comes from outside             *)

\* What the recipient ends with goes to iProgress.iError alone, which counts
\* only for a message with one recipient.
LEMMA RcptRunLKeepsPlaceInv ==
  ASSUME IInv, IInv', KeepsSent, PlaceInv, RcptRunL
  PROVE  PlaceInv' /\ KeepsPlaces
<1>1. RcptMoves /\ ao["Rcpt"].active
  BY RcptRunLMoves DEF Done
<1>2. /\ Opened /\ send.state = "SendingEntry" /\ Waits(ao, "Send")
      /\ progress.state = "Sending" /\ progress.rcpDone \in Nat
  BY <1>1, RecipientIsOpened, BelowIsAtRest DEF IInv, Waits
<1>3. /\ current \in Msgs /\ entry.id = current /\ hdr.id = current
      /\ progress.rcpDone < progress.rcpCount /\ progress.rcpCount = RcpCount[current]
      /\ RcpCount[current] \in Nat /\ SendOpened
  BY <1>2, StoreAssumption DEF Opened, Waits, SendOpened
<1>4. /\ UNCHANGED <<index, entry, current, queue, send>>
      /\ \/ progress' = progress
         \/ \E e \in Errors : progress' = [progress EXCEPT !.error = e]
  BY <1>1 DEF RcptMoves
<1>5. /\ progress'.state = "Sending" /\ progress'.rcpDone = progress.rcpDone
  <2>1. progress \in ProgressRec
    BY DEF IInv, Types, WorkTypes
  <2>. QED BY <1>2, <1>4, <2>1 DEF ProgressRec
<1>6. ao'["Send"].active
  BY <1>1, <1>2 DEF RcptMoves, Answers, Awaits, Parent, Waits, IInv, Types, WorkTypes,
     TypedObjects, Objects, IdleObject
<1>7. ctx' = ctx \/ (ctx' = entry.id /\ Exists(entry.id))
  BY DEF RcptRunL, RcptFails, RcptGotLogEvent, RcptWroteLogEvent, RcptSent, SendMessageL
<1>8. \A i \in 1 .. RcpCount[current] : NotSent(hdr'.rcpts[i]) <=> NotSent(hdr.rcpts[i])
  <2>1. hdr' = hdr \/ \E k, b : hdr' = [hdr EXCEPT !.rcpts[k].log = b]
    BY DEF RcptRunL, RcptFails, RcptGotLogEvent, RcptWroteLogEvent, RcptSent, memVars
  <2>. QED BY <1>3, <2>1, HeaderIsLogged
<1>9. KeepsPlaces /\ SentShape' /\ QueueShape'
  BY <1>4, SentShapeStays DEF KeepsPlaces, PlaceInv, SentShape, QueueShape
<1>10. InOutbox' /\ DecisionIsRight'
  <2>1. ctx' = current => index[current].folder = "Outbox"
    BY <1>2, <1>3, <1>7, SendingPlace DEF Exists
  <2>. QED BY <1>2, <1>4, <1>5, <2>1 DEF PlaceInv, InOutbox, DecisionIsRight, Deciding,
           LogStates
<1>11. SendLocks' /\ NoErrorMeansSent'
  BY <1>2, <1>3, <1>4, <1>6 DEF PlaceInv, SendLocks, SendOpened, NoErrorMeansSent
<1>12. HeaderIsCurrent'
  BY <1>3, <1>4, <1>8 DEF PlaceInv, HeaderIsCurrent, KeepsSent
<1>13. FailureIsRemembered'
  <2>1. RcpCount[current] > 0
    BY <1>3 DEF PlaceInv, FailureIsRemembered
  <2>2. ASSUME NEW i \in 1 .. progress.rcpDone
        PROVE  ~NotSent(header'[current][i]) \/ send.failedStatus # KErrNone
    <3>1. i \in 1 .. RcpCount[current] /\ progress.rcpCount # 1
      BY <1>2, <1>3
    <3>2. ~NotSent(header[current][i]) \/ send.failedStatus # KErrNone
      BY <1>3, <3>1 DEF PlaceInv, FailureIsRemembered
    <3>. QED BY <1>3, <3>1, <3>2 DEF KeepsSent
  <2>. QED BY <1>4, <1>5, <2>1, <2>2 DEF FailureIsRemembered
<1>. QED BY <1>9, <1>10, <1>11, <1>12, <1>13 DEF PlaceInv

\* The services change nothing that counts.
LEMMA ServicesKeepPlaceInv ==
  ASSUME IInv, IInv', KeepsSent, PlaceInv, Services \/ UNCHANGED vars
  PROVE  PlaceInv' /\ KeepsPlaces
<1>1. UNCHANGED <<index, header, ctx, entry, hdr, progress, current, queue, send>>
  BY DEF Services, LoggerCompletes, SocketCompletes, vars, storeVars, memVars
<1>2. ao'["Send"] = ao["Send"]
  <2>1. ao \in TypedObjects
    BY DEF IInv, Types, WorkTypes
  <2>2. \/ ao' = ao
        \/ \E e : \E o \in {"Rcpt", "Outbox"} : ao' = [ao EXCEPT ![o].status = e]
    BY DEF Services, LoggerCompletes, SocketCompletes, vars
  <2>. QED BY <2>1, <2>2 DEF TypedObjects, Objects
<1>3. KeepsPlaces /\ QueueShape' /\ SentShape' /\ InOutbox'
  BY <1>1 DEF KeepsPlaces, PlaceInv, QueueShape, SentShape, InOutbox
<1>4. SendLocks' /\ HeaderIsCurrent' /\ FailureIsRemembered'
  BY <1>1, <1>2 DEF PlaceInv, SendLocks, HeaderIsCurrent, FailureIsRemembered, SendOpened
<1>5. NoErrorMeansSent' /\ DecisionIsRight'
  BY <1>1, <1>2 DEF PlaceInv, NoErrorMeansSent, DecisionIsRight
<1>. QED BY <1>3, <1>4, <1>5 DEF PlaceInv

\* Cancelling the session writes the current message at most.
LEMMA SessionCancelledPlaces ==
  ASSUME IInv, PlaceInv, progress.state = "Sending", NEW st \in BOOLEAN
  PROVE  LET r == SessionCancelled(st)
         IN  /\ EndsInPlace(r.index, r.entry, r.ctx)
             /\ r.progress.state = "Sending"
             /\ ao["Session"].active => r.progress.error # KErrNone
<1> DEFINE p1 == IF ao["Rcpt"].active THEN [progress EXCEPT !.error = KErrCancel] ELSE progress
           s1 == Snapshot(index, entry, p1, send, ctx)
           s2 == IF ao["Send"].active THEN SendCompleted(s1, KErrCancel, st) ELSE s1
           p2 == [s2.progress EXCEPT !.error = IF @ = KErrNone THEN KErrCancel ELSE @]
           r  == SessionCancelled(st)
<1>1. /\ current \in Msgs /\ entry.id = current /\ entry.folder = "Outbox"
      /\ ctx = current => index[current].folder = "Outbox"
  BY SendingPlace
<1>2. /\ TypedIndex(index) /\ entry \in EntryRec /\ progress \in ProgressRec
      /\ send \in SendRec /\ ctx \in Ids /\ KErrCancel \in Errors /\ KErrCancel # KErrNone
  BY ErrorsKnown DEF IInv, Types, StoreTypes, MemTypes, WorkTypes, KErrCancel, KErrNone
<1>3. p1 \in ProgressRec /\ p1.state = "Sending"
  BY <1>2 DEF ProgressRec
<1> HIDE DEF p1
<1>4. /\ TypedSnapshot(s1) /\ s1.index = index /\ s1.entry = entry
      /\ s1.progress = p1 /\ s1.ctx = ctx
  BY <1>2, <1>3, SnapshotTyped
<1> HIDE DEF s1
<1>5. EndsInPlace(s1.index, s1.entry, s1.ctx)
  BY <1>1, <1>4 DEF EndsInPlace
<1>6. /\ EndsInPlace(s2.index, s2.entry, s2.ctx)
      /\ s2.progress \in ProgressRec /\ s2.progress.state = "Sending"
  <2>1. CASE ao["Send"].active
    <3>1. EndsInPlace(SendCompleted(s1, KErrCancel, st).index,
                      SendCompleted(s1, KErrCancel, st).entry,
                      SendCompleted(s1, KErrCancel, st).ctx)
      BY <1>1, <1>2, <1>4, SendCompletedPlaces
    <3>2. /\ TypedSnapshot(SendCompleted(s1, KErrCancel, st))
          /\ SendCompleted(s1, KErrCancel, st).progress.state = "Sending"
      BY <1>2, <1>3, <1>4, SendCompletedTyped
    <3>. QED BY <2>1, <3>1, <3>2 DEF TypedSnapshot
  <2>2. CASE ~ao["Send"].active
    BY <1>3, <1>4, <1>5, <2>2
  <2>. QED BY <2>1, <2>2
<1> HIDE DEF s2
<1>7. p2.state = "Sending" /\ p2.error # KErrNone
  BY <1>2, <1>6 DEF ProgressRec
<1>8. r = IF ao["Session"].active THEN Snapshot(s2.index, s2.entry, p2, s2.send, s2.ctx)
          ELSE s1
  BY Zenon DEF SessionCancelled, s2, s1, p1
<1> HIDE DEF p2, r
<1>9. /\ EndsInPlace(r.index, r.entry, r.ctx) /\ r.progress.state = "Sending"
      /\ ao["Session"].active => r.progress.error # KErrNone
  <2>1. CASE ao["Session"].active
    <3>1. /\ r.index = s2.index /\ r.entry = s2.entry /\ r.ctx = s2.ctx /\ r.progress = p2
      BY <1>8, <2>1, SnapshotFields
    <3>. QED BY <1>6, <1>7, <3>1
  <2>2. CASE ~ao["Session"].active
    BY <1>3, <1>4, <1>5, <1>8, <2>2
  <2>. QED BY <2>1, <2>2
<1>. QED BY <1>9 DEF r

LEMMA PollKeepsPlaceInv ==
  ASSUME IInv, IInv', KeepsSent, PlaceInv, ProgressPoll
  PROVE  PlaceInv' /\ KeepsPlaces
<1>1. PICK st \in Stores : Becomes(SessionCancelled(st))
  BY DEF ProgressPoll
<1>2. /\ progress.state = "Sending" /\ ao["Session"].active
      /\ current' = current /\ queue' = queue
  BY DEF ProgressPoll, outVars
<1>3. ~ao'["Send"].active
  BY DEF ProgressPoll, IdleObject, Objects, IInv, Types, WorkTypes, TypedObjects
<1>4. st \in BOOLEAN
  BY StoresType
<1>5. /\ EndsInPlace(index', entry', ctx') /\ progress'.state = "Sending"
      /\ progress'.error # KErrNone
  BY <1>1, <1>2, <1>4, SessionCancelledPlaces DEF Becomes
<1>. QED BY <1>2, <1>3, <1>5, EndingKeepsPlaceInv

\* The request is over, or the outbox sender is cancelled and deleted.
LEMMA MtmKeepsPlaceInv ==
  ASSUME IInv, IInv', KeepsSent, PlaceInv, MtmRuns \/ MtmCancel
  PROVE  PlaceInv' /\ KeepsPlaces
<1>1. CompletesCommand /\ UNCHANGED header
  BY DEF MtmRuns, MtmCancel, storeVars
<1>2. progress'.state = "Waiting" /\ queue' = <<>>
  BY <1>1 DEF CompletesCommand, NewProgress
<1>3. TypedIndex(index) /\ SamePlaces(index)
  BY IndexIsInPlace
<1>4. \/ index' = index
      \/ \E st \in Stores :
           index' = FailOutstanding(IF progress.state = "Sending"
                                      THEN SessionCancelled(st).index ELSE index,
                                    selection, KErrCancel, "Suspended")
  BY Zenon DEF MtmRuns, MtmCancel, storeVars
<1>5. ASSUME NEW ix, TypedIndex(ix), SamePlaces(ix),
             index' = FailOutstanding(ix, selection, KErrCancel, "Suspended")
      PROVE  KeepsPlaces
  <2>1. KErrCancel \in Errors /\ "Suspended" \in SendingStates
    BY ErrorsKnown DEF SendingStates
  <2>. QED BY <1>5, <2>1, FailOutstandingPlaces DEF KeepsPlaces, SamePlaces
<1>6. ASSUME NEW st \in Stores, progress.state = "Sending"
      PROVE  TypedIndex(SessionCancelled(st).index) /\ SamePlaces(SessionCancelled(st).index)
  <2>1. st \in BOOLEAN
    BY StoresType
  <2>2. TypedIndex(SessionCancelled(st).index)
    BY <2>1, SessionCancelledTyped DEF TypedSnapshot
  <2>3. EndsInPlace(SessionCancelled(st).index, SessionCancelled(st).entry,
                    SessionCancelled(st).ctx)
    BY <1>6, <2>1, SessionCancelledPlaces
  <2>4. index[current].folder # "Sent" /\ current \in Msgs
    BY <1>6, SendingPlace
  <2>. QED BY <1>3, <2>2, <2>3, <2>4 DEF EndsInPlace, SamePlaces
<1>7. KeepsPlaces
  BY <1>3, <1>4, <1>5, <1>6 DEF KeepsPlaces, SamePlaces
<1>8. QueueShape' /\ SentShape
  BY <1>2 DEF QueueShape, PlaceInv
<1>9. progress'.state \notin {"Sending"} \cup Deciding
  BY <1>2 DEF Deciding, LogStates
<1>. QED BY <1>7, <1>8, <1>9, SentShapeStays, ElsewhereKeepsPlaceInv

\* The client may delete, suspend or resume only what is in the outbox and
\* not locked.
LEMMA ClientKeepsPlaceInv ==
  ASSUME IInv, PlaceInv, ClientStep
  PROVE  PlaceInv' /\ (KeepsPlaces \/ \E m \in Msgs : Delete(m))
<1>1. PICK m \in Msgs : Suspend(m) \/ Resume(m) \/ Delete(m) \/ DateArrives(m)
  BY DEF ClientStep
<1>2. UNCHANGED <<header, ctx, entry, hdr, progress, current, queue, send, ao>>
  BY DEF ClientStep, memVars
<1>3. index \in [Msgs -> EntryRec] /\ index[m] \in EntryRec /\ NoMsg \notin Msgs
  BY StoreAssumption DEF IInv, Types, StoreTypes, TypedIndex
<1>4. /\ \A x \in Msgs : x # m => index'[x] = index[x]
      /\ index[m].folder # "Sent" /\ index'[m].state # "Sent"
      /\ index'[m].folder \in {index[m].folder, "None"}
      /\ ctx # m \/ index'[m].folder = index[m].folder
  <2>1. CASE Suspend(m)
    BY <1>3, <2>1 DEF Suspend, ClientMay, EntryRec
  <2>2. CASE Resume(m)
    BY <1>3, <2>2 DEF Resume, ClientMay, EntryRec
  <2>3. CASE Delete(m)
    BY <1>3, <2>3 DEF Delete, ClientMay, EntryRec, NullEntry
  <2>4. CASE DateArrives(m)
    <3>1. index[m].folder # "Sent"
      BY <2>4 DEF DateArrives, PlaceInv, SentShape
    <3>. QED BY <1>3, <2>4, <3>1 DEF DateArrives, EntryRec
  <2>. QED BY <1>1, <2>1, <2>2, <2>3, <2>4
<1>5. KeepsPlaces \/ \E x \in Msgs : Delete(x)
  <2>1. CASE Delete(m)
    BY <2>1
  <2>2. CASE ~Delete(m)
    <3>1. index'[m].folder = index[m].folder
      BY <1>1, <1>3, <2>2 DEF Suspend, Resume, DateArrives, EntryRec
    <3>. QED BY <1>4, <3>1 DEF KeepsPlaces, PlaceInv, SentShape
  <2>. QED BY <2>1, <2>2
<1>6. QueueShape' /\ SentShape'
  BY <1>2, <1>4 DEF PlaceInv, QueueShape, SentShape
<1>7. InOutbox'
  <2>1. progress.state = "Sending" => current \in Msgs
    BY DEF IInv, Shape, SendingShape
  <2>2. progress.state \in Deciding => current \in Msgs /\ ctx = current
    BY DEF IInv, Shape, LogShape, Deciding
  <2>3. ctx = current /\ current \in Msgs => index'[current].folder = index[current].folder
    BY <1>4
  <2>4. current \in Msgs /\ index[current].folder # "Sent" => index'[current].folder # "Sent"
    BY <1>4
  <2>. QED BY <1>2, <2>1, <2>2, <2>3, <2>4 DEF PlaceInv, InOutbox
<1>8. SendLocks'
  <2>1. ao["Send"].active => current \in Msgs
    BY BelowIsAtRest DEF IInv, Shape, SendingShape
  <2>. QED BY <1>2, <1>4, <2>1 DEF PlaceInv, SendLocks
<1>9. HeaderIsCurrent' /\ FailureIsRemembered' /\ NoErrorMeansSent' /\ DecisionIsRight'
  BY <1>2 DEF PlaceInv, HeaderIsCurrent, FailureIsRemembered, NoErrorMeansSent,
     DecisionIsRight, SendOpened
<1>. QED BY <1>5, <1>6, <1>7, <1>8, <1>9 DEF PlaceInv

-----------------------------------------------------------------------------
(* The theorem                                                             *)

LEMMA StartsInOutbox == Init => \A m \in Msgs : index[m].folder = "Outbox"
<1> SUFFICES ASSUME Init, NEW m \in Msgs PROVE index[m].folder = "Outbox"
  OBVIOUS
<1>1. PICK s \in [Msgs -> InitStates] :
        index[m] = [NullEntry EXCEPT !.id = m, !.folder = "Outbox", !.state = s[m],
                                     !.scheduled = (s[m] = "Resend"),
                                     !.failed = (s[m] = "Failed")]
  BY Zenon DEF Init
<1>. QED BY <1>1, NullEntryType DEF EntryRec

LEMMA InitPlaceInv == Init => PlaceInv
<1> SUFFICES ASSUME Init PROVE PlaceInv
  OBVIOUS
<1>1. /\ queue = <<>> /\ progress.state = "Waiting" /\ ~ao["Send"].active
      /\ \A m \in Msgs : index[m].folder = "Outbox"
  <2>1. ~ao["Send"].active
    BY IdleFields, Zenon DEF Init, Objects
  <2>2. queue = <<>> /\ progress = NewProgress
    BY Zenon DEF Init
  <2>. QED BY <2>1, <2>2, StartsInOutbox DEF NewProgress
<1>2. QueueShape /\ SentShape
  BY <1>1 DEF QueueShape, SentShape
<1>. QED BY <1>1, <1>2 DEF PlaceInv, InOutbox, SendLocks, SendOpened, HeaderIsCurrent,
         FailureIsRemembered, NoErrorMeansSent, DecisionIsRight, Deciding, LogStates

\* One step of the system: the invariant is kept, and every message stays in
\* its folder but one that is moved or deleted.
LEMMA StepKeepsPlaceInv ==
  ASSUME IInv, SentInv, PlaceInv, [Next]_vars
  PROVE  /\ PlaceInv'
         /\ \/ KeepsPlaces
            \/ OutboxMovesSent
            \/ ClientStep /\ \E m \in Msgs : Delete(m)
<1>1. IInv' /\ KeepsSent
  BY StepKeepsIInv, StepKeepsSentInv
<1>2. CASE ClientStep
  BY <1>2, ClientKeepsPlaceInv
<1>3. CASE OutboxRunL
  BY <1>1, <1>3, OutboxRunLKeepsPlaceInv
<1>4. CASE Request \/ SessionRuns \/ SendRunL \/ RcptRunL
  BY <1>1, <1>4, RequestKeepsPlaceInv, SessionRunsKeepsPlaceInv, SendRunLKeepsPlaceInv,
     RcptRunLKeepsPlaceInv
<1>5. CASE MtmRuns \/ MtmCancel \/ ProgressPoll \/ Services \/ UNCHANGED vars
  BY <1>1, <1>5, MtmKeepsPlaceInv, PollKeepsPlaceInv, ServicesKeepPlaceInv
<1>. QED BY <1>2, <1>3, <1>4, <1>5 DEF Next

LEMMA SpecKeepsPlaceInv == Spec => [](IInv /\ SentInv /\ PlaceInv)
<1>1. Init => PlaceInv
  BY InitPlaceInv
<1>2. IInv /\ SentInv /\ PlaceInv /\ [Next]_vars => PlaceInv'
  BY StepKeepsPlaceInv
<1>. QED BY <1>1, <1>2, SpecKeepsSentInv, PTL DEF Spec

\* MoveEntryL moves a message to the Sent folder only when every recipient of
\* it is recorded as sent, although it decides on an entry and on error fields
\* that the client, the scheduler and each recipient overwrite.
THEOREM SentFolderIsRight == Spec => []SentFolderMeansAllSent
<1>1. PlaceInv => SentFolderMeansAllSent
  BY DEF PlaceInv, SentShape, SentFolderMeansAllSent
<1>. QED BY <1>1, SpecKeepsPlaceInv, PTL
=============================================================================
