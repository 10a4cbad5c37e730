------------------------ MODULE SmsOutboxStateProofs ------------------------
(***************************************************************************)
(* What the sending states of SmsOutboxSend tell: a recipient is           *)
(* re-scheduled a limited number of times, a suspended or deleted message  *)
(* is not sent on, a message is scheduled only for a recipient that is     *)
(* left, and nothing is left waiting when a request is cancelled, answered *)
(* or over. Some of these need a hypothesis on the constants, which the    *)
(* theorem states.                                                         *)
(***************************************************************************)
EXTENDS SmsOutboxPlaceProofs

-----------------------------------------------------------------------------
(* The number of retries                                                   *)

\* The recipients still unsent have all been re-scheduled equally often:
\* RecipientsIncreaseRetries counts for every one of them, as soon as one can
\* be retried. With unequal counts one of them could pass the limit.
SameRetries(m, rs) ==
  \A i \in 1 .. RcpCount[m] :
    /\ rs[i].retries <= MaxRetries
    /\ \A j \in 1 .. RcpCount[m] :
         NotSent(rs[i]) /\ NotSent(rs[j]) => rs[i].retries = rs[j].retries

RetryInv == /\ \A m \in Msgs : SameRetries(m, header[m])
            /\ hdr.id \in Msgs => SameRetries(hdr.id, hdr.rcpts)

\* Errors that are retried for ever would pass every limit.
NoInfiniteErrors == (SendErrors \cup StoreErrors) \cap InfiniteErrors = {}

\* Every action the scheduler is given has the limit MaxRetries.
LEMMA ListedIsLimited ==
  ASSUME NoInfiniteErrors, NEW m, NEW act, Listed(m, act)
  PROVE  \A i \in 1 .. RcpCount[m] :
           ~act[i].infinite /\ act[i].max = MaxRetries
<1>1. \A e \in Errors : e \notin InfiniteErrors
  <2>1. {KErrNone, KErrNotFound, KErrCancel, KErrUnknownBioType} \cap InfiniteErrors = {}
    BY DEF InfiniteErrors, KErrNone, KErrNotFound, KErrCancel, KErrUnknownBioType,
       KErrNotSupported, KErrNoMemory, KErrDiskFull, KErrGsmSMSNetworkFailure
  <2>. QED BY <2>1 DEF NoInfiniteErrors, Errors
<1>2. \A e \in Errors : ~ErrorAction(e).infinite /\ ErrorAction(e).max = MaxRetries
  <2>1. \A e : /\ ErrorAction(e).infinite = (e \in InfiniteErrors)
               /\ ErrorAction(e).max = MaxRetries
    BY Zenon DEF ErrorAction
  <2>. QED BY <1>1, <2>1, Zenon
<1>3. ~CondAction.infinite /\ CondAction.max = MaxRetries
  BY DEF CondAction
<1>. QED BY <1>2, <1>3 DEF Listed

\* Re-scheduling keeps the counts of the unsent recipients equal.
LEMMA ReSchedulingKeepsRetries ==
  ASSUME NoInfiniteErrors, NEW m \in Msgs, NEW rs \in Rcpts(m), SameRetries(m, rs),
         NEW act, Listed(m, act),
         \A i \in 1 .. RcpCount[m] : act[i].action # "SentAlready"
  PROVE  SameRetries(m, ReScheduledRecipients(rs, act))
<1> DEFINE checked == CheckedRecipients(rs, act)
           failed  == RecipientsSetFailed(checked)
           counted == RecipientsIncreaseRetries(checked)
<1>0. \/ ReScheduledRecipients(rs, act) \in {checked, failed}
      \/ /\ ReScheduledRecipients(rs, act) = counted
         /\ CanSendToAnyRecipients(rs, act)
  BY DEF ReScheduledRecipients
<1>1. /\ DOMAIN rs = 1 .. RcpCount[m] /\ RcpCount[m] \in Nat
      /\ \A i \in DOMAIN rs : rs[i] \in RcptRec(Errors)
  BY RcptsOf
<1>2. /\ DOMAIN checked = 1 .. RcpCount[m]
      /\ \A i \in 1 .. RcpCount[m] : checked[i] = CheckRecipient(rs[i], act[i])
  BY <1>1 DEF CheckedRecipients
<1>3. \A i \in 1 .. RcpCount[m] :
        /\ checked[i].retries = rs[i].retries
        /\ NotSent(checked[i]) <=> NotSent(rs[i])
        /\ checked[i] \in RcptRec(Errors)
  <2>1. ASSUME NEW r \in RcptRec(Errors), NEW a
        PROVE  CheckRecipient(r, a).retries = r.retries
    BY DEF CheckRecipient, RcptRec
  <2>2. ASSUME NEW i \in 1 .. RcpCount[m]
        PROVE  /\ CheckRecipient(rs[i], act[i]).retries = rs[i].retries
               /\ NotSent(CheckRecipient(rs[i], act[i])) <=> NotSent(rs[i])
               /\ CheckRecipient(rs[i], act[i]) \in RcptRec(Errors)
    BY <1>1, <2>1, CheckRecipientType
  <2> HIDE DEF checked
  <2>. QED BY <1>2, <2>2
<1> HIDE DEF checked
<1>4. SameRetries(m, checked)
  BY <1>3 DEF SameRetries
<1>5. SameRetries(m, failed)
  <2>1. \A i \in 1 .. RcpCount[m] : /\ failed[i].retries = checked[i].retries
                                    /\ NotSent(failed[i]) => NotSent(checked[i])
    BY <1>2, <1>3 DEF RecipientsSetFailed, RcptRec
  <2>. QED BY <1>4, <2>1 DEF SameRetries
<1>6. ASSUME CanSendToAnyRecipients(rs, act) PROVE SameRetries(m, counted)
  <2>1. PICK k \in 1 .. RcpCount[m] : NotSent(rs[k]) /\ rs[k].retries < MaxRetries
    <3>1. PICK k \in 1 .. RcpCount[m] : Retriable(rs[k], act[k])
      BY <1>1, <1>6 DEF CanSendToAnyRecipients
    <3>. QED BY <3>1, ListedIsLimited DEF Retriable
  <2>2. \A i \in 1 .. RcpCount[m] : rs[i].retries \in Nat
    BY <1>1 DEF RcptRec
  <2>3. \A i \in 1 .. RcpCount[m] :
          /\ NotSent(counted[i]) <=> NotSent(rs[i])
          /\ counted[i].retries = IF NotSent(rs[i]) THEN rs[i].retries + 1
                                                    ELSE rs[i].retries
    BY <1>2, <1>3 DEF RecipientsIncreaseRetries, RcptRec, NotSent
  <2> HIDE DEF counted
  <2>4. MaxRetries \in Nat
    BY MaxRetriesAssumption
  <2>. QED BY <2>1, <2>2, <2>3, <2>4 DEF SameRetries
<1>. QED BY <1>0, <1>4, <1>5, <1>6

\* The header in memory is let go or read again, while stored headers may be
\* re-scheduled.
LEMMA ReadingKeepsRetries ==
  ASSUME NoInfiniteErrors, IInv, RetryInv,
         \A m \in Msgs :
           \/ header'[m] = header[m]
           \/ \E act : /\ header'[m] = ReScheduledRecipients(header[m], act)
                       /\ \A i \in 1 .. RcpCount[m] : act[i].action # "SentAlready"
                       /\ Listed(m, act),
         \/ hdr' \in {hdr, NullHeader}
         \/ \E h \in Ids : hdr' = HeaderOf(header', h)
  PROVE  RetryInv'
<1>1. \A m \in Msgs : SameRetries(m, header'[m])
  <2> SUFFICES ASSUME NEW m \in Msgs PROVE SameRetries(m, header'[m])
    OBVIOUS
  <2>1. header[m] \in Rcpts(m) /\ SameRetries(m, header[m])
    BY DEF IInv, Types, StoreTypes, TypedHeaders, RetryInv
  <2>2. ASSUME NEW act, header'[m] = ReScheduledRecipients(header[m], act),
               \A i \in 1 .. RcpCount[m] : act[i].action # "SentAlready", Listed(m, act)
        PROVE  SameRetries(m, header'[m])
    BY <2>1, <2>2, ReSchedulingKeepsRetries
  <2>. QED BY <2>1, <2>2
<1>2. hdr' = hdr => (hdr'.id \in Msgs => SameRetries(hdr'.id, hdr'.rcpts))
  BY DEF RetryInv
<1>3. hdr' = NullHeader => hdr'.id \notin Msgs
  BY StoreAssumption DEF NullHeader
<1>4. ASSUME NEW h \in Ids, hdr' = HeaderOf(header', h), hdr'.id \in Msgs
      PROVE  SameRetries(hdr'.id, hdr'.rcpts)
  BY <1>1, <1>4, StoreAssumption DEF HeaderOf, NullHeader
<1>. QED BY <1>1, <1>2, <1>3, <1>4 DEF RetryInv, SameRetries

\* The header in memory is changed, but not its counts, and may be stored.
LEMMA StoringKeepsRetries ==
  ASSUME IInv, RetryInv, hdr.id \in Msgs, hdr'.id = hdr.id,
         header' \in {header, [header EXCEPT ![hdr.id] = hdr'.rcpts]},
         \A i \in 1 .. RcpCount[hdr.id] :
           /\ hdr'.rcpts[i].retries = hdr.rcpts[i].retries
           /\ NotSent(hdr'.rcpts[i]) => NotSent(hdr.rcpts[i])
  PROVE  RetryInv'
<1> DEFINE q == hdr.id
<1>1. DOMAIN header = Msgs
  BY DEF IInv, Types, StoreTypes, TypedHeaders
<1>2. /\ header'[q] \in {header[q], hdr'.rcpts}
      /\ \A m \in Msgs \ {q} : header'[m] = header[m]
  BY <1>1
<1>3. SameRetries(q, hdr'.rcpts)
  <2>1. SameRetries(q, hdr.rcpts)
    BY DEF RetryInv
  <2>. QED BY <2>1 DEF SameRetries
<1>4. hdr'.id = q
  OBVIOUS
<1> HIDE DEF q
<1>5. \A m \in Msgs : SameRetries(m, header'[m])
  BY <1>2, <1>3 DEF RetryInv
<1>. QED BY <1>3, <1>4, <1>5 DEF RetryInv, SameRetries

\* The header of the next message is read, or not.
LEMMA NextHeaderIsRead ==
  ASSUME IInv, Done(ao, "Outbox"), SendNextHeaderL
  PROVE  /\ header' = header
         /\ hdr' \in {hdr, NullHeader} \/ \E h \in Ids : hdr' = HeaderOf(header', h)
<1>1. header' = header
  BY DEF SendNextHeaderL
<1>2. \/ hdr' = hdr
      \/ \E m : \E p : TakesUp(m, p) /\ current' = m
  BY DEF SendNextHeaderL, TakesUp
<1>3. current' \in Ids
  BY SendNextHeaderKeepsIInv DEF Types, WorkTypes
<1>4. ASSUME NEW m, NEW p, TakesUp(m, p)
      PROVE  hdr' \in {hdr, NullHeader, HeaderOf(header, m)}
  BY <1>4 DEF TakesUp, OpensEntry, OpenFindsNoRecipient, OpenCannotChange, OpenCannotRead,
     HalfRead
<1>. QED BY <1>1, <1>2, <1>3, <1>4

\* A recipient that was tried keeps its count.
LEMMA RecipientDoneKeepsRetries ==
  ASSUME NoInfiniteErrors, IInv, SentInv, RetryInv, SendRecipientDone
  PROVE  RetryInv'
<1> DEFINE err == progress.error
           k   == progress.rcpDone + 1
           rs  == [hdr.rcpts EXCEPT ![k] = RecipientAfterSend(@, err, send.reports)]
<1>1. Done(ao, "Send") /\ Opened /\ send.state = "SendingEntry"
  BY SendRunsOpened DEF SendRecipientDone, SendRuns
<1>2. hdr.id \in Msgs /\ hdr.id = entry.id /\ TypedHeader(hdr)
  BY <1>1 DEF Opened, IInv, Types, MemTypes
<1>3. NotSent(hdr.rcpts[k])
  BY <1>1 DEF SentInv, TriedIsUnsent, Recipient, Done
<1>4. hdr' = [hdr EXCEPT !.rcpts = rs]
      /\ header' \in {header, [header EXCEPT ![entry.id] = rs]}
  BY DEF SendRecipientDone
<1>5. \A i \in 1 .. RcpCount[hdr.id] : /\ NotSent(rs[i]) => NotSent(hdr.rcpts[i])
                                       /\ rs[i].retries = hdr.rcpts[i].retries
  <2>1. hdr.rcpts \in Rcpts(hdr.id)
    BY <1>2, HeaderRecipients
  <2>2. ASSUME NEW r \in RcptRec(Errors)
        PROVE  RecipientAfterSend(r, err, send.reports).retries = r.retries
    BY <2>2 DEF RecipientAfterSend, RcptRec
  <2>3. \A i \in 1 .. RcpCount[hdr.id] :
          rs[i] \in {hdr.rcpts[i], RecipientAfterSend(hdr.rcpts[i], err, send.reports)}
    <3> HIDE DEF k, err
    <3>. QED BY <2>1 DEF Rcpts
  <2>4. \A i \in 1 .. RcpCount[hdr.id] : rs[i].retries = hdr.rcpts[i].retries
    <3> HIDE DEF rs, err
    <3>. QED BY <2>1, <2>2, <2>3 DEF Rcpts
  <2>5. \A i \in 1 .. RcpCount[hdr.id] : NotSent(rs[i]) => NotSent(hdr.rcpts[i])
    <3> HIDE DEF k, err
    <3>. QED BY <1>3, <2>1 DEF Rcpts
  <2>. QED BY <2>4, <2>5
<1> HIDE DEF rs
<1>6. hdr'.id = hdr.id /\ hdr'.rcpts = rs
  BY <1>2, <1>4, HeaderRecipients
<1>. QED BY <1>2, <1>4, <1>5, <1>6, StoringKeepsRetries

\* A header that is logged, and stored or not.
LEMMA LoggingKeepsRetries ==
  ASSUME IInv, RetryInv, hdr.id \in Msgs,
         hdr' = hdr \/ \E k, b : hdr' = [hdr EXCEPT !.rcpts[k].log = b],
         header' \in {header, [header EXCEPT ![hdr.id] = hdr'.rcpts]}
  PROVE  RetryInv'
BY HeaderIsLogged, StoringKeepsRetries

LEMMA OutboxRunLKeepsRetries ==
  ASSUME NoInfiniteErrors, IInv, RetryInv, OutboxRunL
  PROVE  RetryInv'
<1>1. ASSUME header' = header, hdr' = hdr PROVE RetryInv'
  BY <1>1, ReadingKeepsRetries
<1>2. CASE OutboxSendsNext \/ OutboxMessageDeleted
  BY <1>2, NextHeaderIsRead, ReadingKeepsRetries DEF OutboxSendsNext, OutboxMessageDeleted,
     OutboxRuns, Runnable, Done
<1>3. CASE OutboxFails \/ OutboxCompletes \/ OutboxSendingDone \/ OutboxReScheduled
             \/ OutboxGotLogEvent \/ OutboxMovesSent
  BY <1>1, <1>3 DEF OutboxFails, OutboxCompletes, OutboxSendingDone, OutboxReScheduled,
     OutboxGotLogEvent, OutboxMovesSent, storeVars, memVars
<1>4. CASE OutboxReSchedules
  BY <1>4, ReSchedulingHeaders, ReadingKeepsRetries
<1>5. CASE OutboxWroteLogEvent
  <2>1. hdr.id \in Msgs
    BY <1>5 DEF OutboxWroteLogEvent, OutboxRuns, IInv, Shape, LogShape, LogStates
  <2>2. /\ header' = header
        /\ \/ hdr' = hdr
           \/ \E k, b : hdr' = [hdr EXCEPT !.rcpts[k].log = b]
    BY <1>5 DEF OutboxWroteLogEvent, storeVars
  <2>. QED BY <2>1, <2>2, LoggingKeepsRetries
<1>6. CASE OutboxKeepsUnsent
  <2>1. hdr.id \in Msgs /\ hdr.id = entry.id
    BY <1>6 DEF OutboxKeepsUnsent, OutboxRuns, IInv, Shape, LogShape
  <2>2. hdr' = hdr /\ header' \in {header, [header EXCEPT ![hdr.id] = hdr'.rcpts]}
    BY <1>6, <2>1 DEF OutboxKeepsUnsent, memVars
  <2>. QED BY <2>1, <2>2, LoggingKeepsRetries
<1>. QED BY <1>2, <1>3, <1>4, <1>5, <1>6 DEF OutboxRunL

LEMMA RcptRunLKeepsRetries ==
  ASSUME IInv, RetryInv, RcptRunL
  PROVE  RetryInv'
<1>1. Opened
  BY RcptRunLMoves, RecipientIsOpened DEF Done
<1>2. hdr.id \in Msgs /\ hdr.id = entry.id
  BY <1>1 DEF Opened
<1>3. hdr' = hdr \/ \E k, b : hdr' = [hdr EXCEPT !.rcpts[k].log = b]
  BY DEF RcptRunL, RcptFails, RcptGotLogEvent, RcptWroteLogEvent, RcptSent, memVars
<1>4. header' \in {header, [header EXCEPT ![hdr.id] = hdr'.rcpts]}
  BY <1>2 DEF RcptRunL, RcptFails, RcptGotLogEvent, RcptWroteLogEvent, RcptSent,
     SendMessageL, storeVars
<1>. QED BY <1>2, <1>3, <1>4, LoggingKeepsRetries

\* The steps that let the headers alone, or forget the one in memory.
LEMMA OthersKeepRetries ==
  ASSUME NoInfiniteErrors, IInv, RetryInv,
         \/ SendFails \/ SendNextRecipient \/ SendAllTried \/ SendFindsDeleted
         \/ SessionRuns \/ Services \/ ClientStep \/ UNCHANGED vars
         \/ MtmRuns \/ MtmCancel \/ ProgressPoll
  PROVE  RetryInv'
<1>1. header' = header /\ hdr' \in {hdr, NullHeader}
  BY DEF SendFails, SendNextRecipient, SendAllTried, SendFindsDeleted, SessionRuns,
     Services, LoggerCompletes, SocketCompletes, ClientStep, vars, MtmRuns, MtmCancel,
     ProgressPoll, CompletesCommand, storeVars, memVars
<1>. QED BY <1>1, ReadingKeepsRetries

LEMMA StepKeepsRetryInv ==
  ASSUME NoInfiniteErrors, IInv, SentInv, RetryInv, [Next]_vars
  PROVE  RetryInv'
<1>1. Request => RetryInv'
  BY RequestHeaders, ReadingKeepsRetries
<1>. QED BY <1>1, OutboxRunLKeepsRetries, RecipientDoneKeepsRetries, RcptRunLKeepsRetries,
         OthersKeepRetries DEF Next, SendRunL

LEMMA InitRetryInv == Init => RetryInv
<1> SUFFICES ASSUME Init PROVE RetryInv
  OBVIOUS
<1>1. /\ header = [m \in Msgs |-> [i \in 1 .. RcpCount[m] |-> NewRcpt]]
      /\ hdr = NullHeader
  BY Zenon DEF Init
<1>2. \A m \in Msgs : \A i \in 1 .. RcpCount[m] : header[m][i].retries = 0
  BY <1>1 DEF NewRcpt
<1>3. hdr.id \notin Msgs
  BY <1>1, StoreAssumption DEF NullHeader
<1>. QED BY <1>2, <1>3, MaxRetriesAssumption DEF RetryInv, SameRetries

\* No recipient is re-scheduled more often than MaxRetries times, whatever
\* mix of errors its attempts and those of the other recipients end with and
\* however many requests there are, when no error is retried for ever.
THEOREM RetriesAreLimited == NoInfiniteErrors => (Spec => []RetryLimit)
<1> SUFFICES ASSUME NoInfiniteErrors PROVE Spec => []RetryLimit
  OBVIOUS
<1>1. Init => RetryInv
  BY InitRetryInv
<1>2. IInv /\ SentInv /\ RetryInv /\ [Next]_vars => RetryInv'
  BY StepKeepsRetryInv
<1>3. RetryInv => RetryLimit
  BY DEF RetryInv, SameRetries, RetryLimit
<1>. QED BY <1>1, <1>2, <1>3, SpecKeepsSentInv, PTL DEF Spec

-----------------------------------------------------------------------------
(* Deleted messages                                                        *)

\* An index that differs from the present one in no deleted entry.
Spares(ix) == \A m \in Msgs : index[m].folder = "None" => ix[m] = index[m]

\* A deleted entry is as CMsvServerEntry::DeleteEntry leaves it.
GoneShape ==
  \A m \in Msgs : index[m].folder = "None" =>
    index[m].state = "Unknown" /\ ~index[m].connected

\* FailOutstandingMessages goes through the entries that exist.
LEMMA FailOutstandingSpares ==
  ASSUME IInv, NEW ix, Spares(ix), \A m \in Msgs : ix[m].folder = index[m].folder,
         NEW sel, NEW err, NEW st
  PROVE  Spares(FailOutstanding(ix, sel, err, st))
BY DEF FailOutstanding, Spares

LEMMA OutboxAnswersSpares ==
  ASSUME IInv, NEW ix, Spares(ix), \A m \in Msgs : ix[m].folder = index[m].folder,
         NEW e, OutboxAnswers(ix, e)
  PROVE  Spares(index')
<1>1. index' = ix \/ \E err : index' = FailOutstanding(ix, selection, err, "Failed")
  BY DEF OutboxAnswers
<1>. QED BY <1>1, FailOutstandingSpares

\* An entry that exists is written.
LEMMA WritingSpares ==
  ASSUME IInv, NEW m \in Msgs, index[m].folder # "None", NEW e
  PROVE  Spares([index EXCEPT ![m] = e])
BY DEF Spares, IInv, Types, StoreTypes, TypedIndex

\* CSmsSend::DoComplete reads the entry first.
LEMMA SendCompletedSpares ==
  ASSUME IInv, NEW s, s.index = index, NEW e, NEW st
  PROVE  Spares(SendCompleted(s, e, st).index)
<1> DEFINE m    == s.entry.id
           done == EntryAfterAllSent([index[m] EXCEPT !.err = e], s.send,
                                     s.progress.rcpCount)
           ix   == IF st THEN [index EXCEPT ![m] = done] ELSE index
<1>1. SendCompleted(s, e, st).index =
        IF m # NoMsg /\ index[m].folder # "None" THEN ix ELSE index
  BY DEF SendCompleted, Snapshot
<1>2. index \in [Msgs -> EntryRec]
  BY DEF IInv, Types, StoreTypes, TypedIndex
<1> HIDE DEF done
<1>. QED BY <1>1, <1>2 DEF Spares

LEMMA RequestSpares ==
  ASSUME IInv, Request
  PROVE  Spares(index')
<1>1. PICK sel \in SUBSET Msgs :
        \/ StartSend(sel)
        \/ StartFindsNothing(sel)
        \/ \E err \in StoreErrors \cup {KErrNone} :
             \E done \in SUBSET Accepted(sel \cup Found(sel)) :
               StartReSchedules(sel, err, done)
        \/ \E e \in StoreErrors : \E found \in SUBSET Found(sel) :
             \E done \in SUBSET (sel \cup found) : StartFails(sel, e, found, done)
  BY RequestCases
<1> DEFINE all == sel \cup Found(sel)
           acc == Accepted(all)
<1>2. \A m \in acc : index[m].folder # "None"
  BY DEF Accepted, Exists
<1>3. \A done : \A m \in Msgs : index[m].folder = "None" => Divided(done)[m] = index[m]
  BY DEF Divided, Exists
<1>4. CASE StartSend(sel)
  <2>1. index' = MadeWaiting(Divided(all), acc)
    BY <1>4 DEF StartSend
  <2> HIDE DEF all, acc
  <2>. QED BY <1>2, <1>3, <2>1 DEF MadeWaiting, Spares
<1>5. CASE StartFindsNothing(sel)
  BY <1>3, <1>5 DEF StartFindsNothing, Spares
<1>6. ASSUME NEW e, NEW found, NEW done, StartFails(sel, e, found, done)
      PROVE  Spares(index')
  BY <1>3, <1>6 DEF StartFails, Spares
<1>7. ASSUME NEW err, NEW done \in SUBSET acc, StartReSchedules(sel, err, done)
      PROVE  Spares(index')
  <2>1. index' = [m \in Msgs |->
                    IF m \in done
                      THEN ReScheduledEntry(Divided(all)[m], header[m], CondActions(m))
                      ELSE Divided(all)[m]]
    BY <1>7 DEF StartReSchedules
  <2> HIDE DEF all, acc
  <2>. QED BY <1>2, <1>3, <2>1 DEF Spares
<1>. QED BY <1>1, <1>4, <1>5, <1>6, <1>7

\* What the outbox sender writes was in the outbox, from which only the
\* client, who cannot touch a locked entry, could have deleted it.
LEMMA OutboxRunLSpares ==
  ASSUME IInv, PlaceInv, OutboxRunL
  PROVE  Spares(index')
<1>1. index \in [Msgs -> EntryRec] /\ Spares(index) /\ \A m : index[m].folder = index[m].folder
  BY DEF IInv, Types, StoreTypes, TypedIndex, Spares
<1>2. CASE OutboxFails \/ OutboxCompletes
  BY <1>1, <1>2, OutboxAnswersSpares DEF OutboxFails, OutboxCompletes
<1>3. CASE OutboxSendsNext \/ OutboxMessageDeleted
  <2>1. SendNextHeaderL /\ Done(ao, "Outbox")
    BY <1>3 DEF OutboxSendsNext, OutboxMessageDeleted, OutboxRuns, Runnable, Done
  <2>2. CASE index' = index
    BY <1>1, <2>2
  <2>3. ASSUME NEW m \in Msgs, NEW p, TakesUp(m, p), index[m].folder = "Outbox"
        PROVE  Spares(index')
    <3>1. index' \in {index, [index EXCEPT ![m] = OpenedEntry(index[m])]}
      BY <2>3 DEF TakesUp, OpensEntry, OpenFindsNoRecipient, OpenCannotChange, OpenCannotRead
    <3>. QED BY <1>1, <2>3, <3>1, WritingSpares
  <2>. QED BY <2>1, <2>2, <2>3, NextMessage
<1>4. CASE OutboxSendingDone \/ OutboxReScheduled \/ OutboxGotLogEvent
             \/ OutboxWroteLogEvent
  BY <1>1, <1>4 DEF OutboxSendingDone, OutboxReScheduled, OutboxGotLogEvent,
     OutboxWroteLogEvent, storeVars
<1>5. CASE OutboxReSchedules
  <2> DEFINE m  == entry.id
             e2 == ReScheduledEntry(index[m], header[m], ListedActions(header[m]))
  <2>1. /\ m \in Msgs /\ index[m].folder = "Outbox" /\ index[m] \in EntryRec
    BY <1>1, <1>5, SendingIsInOutbox DEF OutboxReSchedules, OutboxRuns
  <2>2. \/ index' = [index EXCEPT ![m] = e2]
        \/ \E e : OutboxAnswers(index, e) \/ OutboxAnswers([index EXCEPT ![m] = e2], e)
    BY <1>5, Zenon DEF OutboxReSchedules
  <2>3. e2.folder = "Outbox"
    BY <2>1, ReScheduledEntryType
  <2> HIDE DEF m, e2
  <2>4. /\ \A q \in Msgs : [index EXCEPT ![m] = e2][q].folder = index[q].folder
        /\ \A e : Spares([index EXCEPT ![m] = e])
    BY <1>1, <2>1, <2>3, WritingSpares
  <2>5. ASSUME NEW e, OutboxAnswers(index, e) \/ OutboxAnswers([index EXCEPT ![m] = e2], e)
        PROVE  Spares(index')
    BY <1>1, <2>4, <2>5, OutboxAnswersSpares
  <2>. QED BY <2>2, <2>4, <2>5
<1>6. CASE OutboxMovesSent \/ OutboxKeepsUnsent
  <2> DEFINE m    == entry.id
             sent == [entry EXCEPT !.connected = FALSE, !.failed = FALSE, !.state = "Sent"]
  <2>1. /\ m \in Msgs /\ index[m].folder = "Outbox" /\ entry.folder = "Outbox"
        /\ entry \in EntryRec
    BY <1>6, MovedIsInOutbox DEF OutboxMovesSent, OutboxKeepsUnsent, OutboxRuns
  <2>2. \/ \E e : index' = [index EXCEPT ![m] = e]
        \/ \E e : OutboxAnswers(index, e) \/ OutboxAnswers([index EXCEPT ![m] = sent], e)
    BY <1>6 DEF OutboxMovesSent, OutboxKeepsUnsent
  <2>3. sent.folder = "Outbox"
    BY <2>1 DEF EntryRec
  <2> HIDE DEF m, sent
  <2>4. /\ \A q \in Msgs : [index EXCEPT ![m] = sent][q].folder = index[q].folder
        /\ \A e : Spares([index EXCEPT ![m] = e])
    BY <1>1, <2>1, <2>3, WritingSpares
  <2>5. ASSUME NEW e, OutboxAnswers(index, e) \/ OutboxAnswers([index EXCEPT ![m] = sent], e)
        PROVE  Spares(index')
    BY <1>1, <2>4, <2>5, OutboxAnswersSpares
  <2>. QED BY <2>2, <2>4, <2>5
<1>. QED BY <1>2, <1>3, <1>4, <1>5, <1>6 DEF OutboxRunL

\* CSmsSend writes what it has just read, or, when all recipients have been
\* tried, the entry it has kept locked.
LEMMA SendRunLSpares ==
  ASSUME IInv, PlaceInv, SendRunL
  PROVE  Spares(index')
<1>1. index \in [Msgs -> EntryRec] /\ Spares(index)
  BY DEF IInv, Types, StoreTypes, TypedIndex, Spares
<1>2. \A en, p, sn, c : Snapshot(index, en, p, sn, c).index = index
  BY SnapshotFields
<1>3. ASSUME NEW s, s.index = index, NEW e, NEW st,
             Becomes(SendCompleted(s, e, st)) \/ Becomes(s)
      PROVE  Spares(index')
  BY <1>1, <1>3, SendCompletedSpares DEF Becomes
<1>4. CASE SendFails \/ SendFindsDeleted
  <2>1. \E p, e, st : Becomes(SendCompleted(Snapshot(index, entry, p, send, ctx), e, st))
    BY <1>4, Zenon DEF SendFails, SendFindsDeleted
  <2>. QED BY <1>2, <1>3, <2>1
<1>5. CASE SendNextRecipient
  BY <1>1, <1>5 DEF SendNextRecipient, storeVars
<1>6. CASE SendAllTried
  <2> DEFINE done == EntryAfterAllSent(entry, send, progress.rcpCount)
  <2>1. current \in Msgs /\ entry.id = current /\ index[current].folder = "Outbox"
    <3>1. /\ SendRuns({"OpeningEntry", "UpdatingRecipient"})
          /\ Done(ao, "Send") /\ Opened /\ progress.state = "Sending"
      BY <1>6, SendRunsOpened DEF SendAllTried
    <3>2. ctx = current
      BY <3>1 DEF SendRuns, Runnable, PlaceInv, SendLocks
    <3>. QED BY <3>1, <3>2, SendingPlace
  <2>2. \/ index' = [index EXCEPT ![entry.id] = done]
        \/ \E p, sn, e, st : Becomes(SendCompleted(Snapshot(index, entry, p, sn, ctx), e, st))
    BY <1>6, Zenon DEF SendAllTried
  <2> HIDE DEF done
  <2>3. Spares([index EXCEPT ![current] = done])
    BY <2>1, WritingSpares
  <2>4. index' = [index EXCEPT ![current] = done] => Spares(index')
    BY <2>3, Zenon
  <2>. QED BY <1>2, <1>3, <2>1, <2>2, <2>4
<1>7. CASE SendRecipientDone
  <2>1. \E en, p, sn, c, e, st : \/ Becomes(Snapshot(index, en, p, sn, c))
                                 \/ Becomes(SendCompleted(Snapshot(index, en, p, sn, c), e, st))
    BY <1>7, Zenon DEF SendRecipientDone
  <2>. QED BY <1>2, <1>3, <2>1
<1>. QED BY <1>4, <1>5, <1>6, <1>7 DEF SendRunL

LEMMA SessionCancelledSpares ==
  ASSUME IInv, NEW st
  PROVE  Spares(SessionCancelled(st).index)
<1> DEFINE p1 == IF ao["Rcpt"].active THEN [progress EXCEPT !.error = KErrCancel] ELSE progress
           s1 == Snapshot(index, entry, p1, send, ctx)
           s2 == IF ao["Send"].active THEN SendCompleted(s1, KErrCancel, st) ELSE s1
           p2 == [s2.progress EXCEPT !.error = IF @ = KErrNone THEN KErrCancel ELSE @]
<1>1. s1.index = index /\ Spares(index)
  BY SnapshotFields DEF Spares
<1> HIDE DEF s1
<1>2. Spares(s2.index)
  BY <1>1, SendCompletedSpares
<1> HIDE DEF s2
<1>3. SessionCancelled(st) =
        IF ao["Session"].active THEN Snapshot(s2.index, s2.entry, p2, s2.send, s2.ctx) ELSE s1
  BY Zenon DEF SessionCancelled, s2, s1
<1> HIDE DEF p2
<1>. QED BY <1>1, <1>2, <1>3, SnapshotFields

LEMMA StoppingSpares ==
  ASSUME IInv, PlaceInv, MtmCancel \/ ProgressPoll
  PROVE  Spares(index')
<1>1. index \in [Msgs -> EntryRec] /\ Spares(index)
  BY DEF IInv, Types, StoreTypes, TypedIndex, Spares
<1>2. CASE ProgressPoll
  BY <1>2, SessionCancelledSpares DEF ProgressPoll, Becomes
<1>3. CASE MtmCancel
  <2>1. PICK st \in Stores :
          index' = IF ~ao["Outbox"].active THEN index
                   ELSE FailOutstanding(
                          IF progress.state = "Sending" THEN SessionCancelled(st).index
                                                        ELSE index,
                          selection, KErrCancel, "Suspended")
    BY <1>3 DEF MtmCancel
  <2> DEFINE ix == IF progress.state = "Sending" THEN SessionCancelled(st).index ELSE index
  <2>2. Spares(ix) /\ \A m \in Msgs : ix[m].folder = index[m].folder
    BY <1>1, SessionCancelledSpares, SessionCancelledPlaces, StoresType DEF EndsInPlace
  <2>3. index' = IF ~ao["Outbox"].active THEN index
                 ELSE FailOutstanding(ix, selection, KErrCancel, "Suspended")
    BY <2>1
  <2> HIDE DEF ix
  <2>. QED BY <1>1, <2>2, <2>3, FailOutstandingSpares
<1>. QED BY <1>2, <1>3

\* The client changes entries of the outbox.
LEMMA ClientSpares ==
  ASSUME IInv, GoneShape, ClientStep
  PROVE  Spares(index')
BY DEF ClientStep, Suspend, Resume, Delete, DateArrives, ClientMay, Spares, GoneShape, IInv,
   Types, StoreTypes, TypedIndex

LEMMA StepSpares ==
  ASSUME IInv, PlaceInv, GoneShape, [Next]_vars
  PROVE  Spares(index')
<1>1. index' = index => Spares(index')
  BY DEF Spares
<1>2. SessionRuns \/ RcptRunL \/ Services \/ MtmRuns \/ UNCHANGED vars => index' = index
  <2>1. RcptRunL => index' = index
    BY RcptRunLMoves DEF RcptMoves
  <2>. QED BY <2>1 DEF SessionRuns, Services, LoggerCompletes, SocketCompletes, MtmRuns,
           vars, storeVars
<1>. QED BY <1>1, <1>2, RequestSpares, OutboxRunLSpares, SendRunLSpares, StoppingSpares,
         ClientSpares DEF Next

LEMMA StepKeepsGoneShape ==
  ASSUME IInv, IInv', SentInv, PlaceInv, GoneShape, [Next]_vars
  PROVE  GoneShape'
<1> SUFFICES ASSUME NEW m \in Msgs, index'[m].folder = "None"
             PROVE  index'[m].state = "Unknown" /\ ~index'[m].connected
  BY DEF GoneShape
<1>1. index[m].folder = "None" => index'[m] = index[m]
  BY StepSpares DEF Spares
<1>2. KeepsPlaces => index[m].folder = "None"
  BY DEF KeepsPlaces
<1>3. OutboxMovesSent => index[m].folder = "None"
  <2> SUFFICES ASSUME OutboxMovesSent PROVE index[m].folder = "None"
    OBVIOUS
  <2> DEFINE sent == [entry EXCEPT !.connected = FALSE, !.failed = FALSE, !.state = "Sent"]
             gone == [sent EXCEPT !.folder = "Sent"]
  <2>1. /\ entry.id \in Msgs /\ index[entry.id].folder = "Outbox" /\ entry.folder = "Outbox"
        /\ entry \in EntryRec /\ index \in [Msgs -> EntryRec]
    BY MovedIsInOutbox DEF OutboxMovesSent, OutboxRuns, IInv, Types, StoreTypes, TypedIndex
  <2>2. sent.folder = "Outbox" /\ gone.folder = "Sent" /\ sent \in EntryRec
    BY <2>1 DEF EntryRec, SendingStates
  <2>3. \/ index' = [index EXCEPT ![entry.id] = gone]
        \/ index' = [index EXCEPT ![entry.id] = sent]
        \/ \E err : \/ index' = FailOutstanding(index, selection, err, "Failed")
                    \/ index' = FailOutstanding([index EXCEPT ![entry.id] = sent],
                                                selection, err, "Failed")
        \/ index' = index
    BY DEF OutboxMovesSent, OutboxAnswers
  <2> HIDE DEF sent, gone
  <2>4. /\ \A q \in Msgs : [index EXCEPT ![entry.id] = sent][q].folder = index[q].folder
        /\ [index EXCEPT ![entry.id] = sent] \in [Msgs -> EntryRec]
    BY <2>1, <2>2
  <2>5. ASSUME NEW ix \in [Msgs -> EntryRec], NEW err,
               \A q \in Msgs : ix[q].folder = index[q].folder,
               index' = FailOutstanding(ix, selection, err, "Failed")
        PROVE  index[m].folder = "None"
    <3>1. \A e \in EntryRec : FailIfOutstanding(e, err, "Failed").folder = e.folder
      BY DEF FailIfOutstanding, EntryRec
    <3>2. index'[m] \in {ix[m], FailIfOutstanding(ix[m], err, "Failed")}
      BY <2>5 DEF FailOutstanding
    <3>. QED BY <2>5, <3>1, <3>2
  <2>. QED BY <2>1, <2>2, <2>3, <2>4, <2>5
<1>4. ClientStep /\ (\E q \in Msgs : Delete(q)) /\ index[m].folder # "None" =>
        index'[m].state = "Unknown" /\ ~index'[m].connected
  BY DEF Delete, NullEntry, IInv, Types, StoreTypes, TypedIndex
<1>5. KeepsPlaces \/ OutboxMovesSent \/ (ClientStep /\ \E q \in Msgs : Delete(q))
  BY StepKeepsPlaceInv
<1>. QED BY <1>1, <1>2, <1>3, <1>4, <1>5 DEF GoneShape

-----------------------------------------------------------------------------
(* Suspended and deleted messages                                          *)

\* CSmsSend is at work only after a step of its own, of what it waits for, of
\* the client, or when it has just been given a message.
LEMMA SendIsActive ==
  ASSUME IInv, [Next]_vars, ao'["Send"].active
  PROVE  \/ SendNextHeaderL /\ Done(ao, "Outbox") /\ progress.state # "Complete"
         \/ SendNextRecipient
         \/ SendRecipientDone /\ ao' = RunsNext(ao, "Send", KErrNone)
         \/ RcptRunL
         \/ Services \/ ClientStep \/ UNCHANGED vars
<1>1. ao \in TypedObjects
  BY DEF IInv, Types, WorkTypes
<1>2. ~Request
  <2> SUFFICES ASSUME Request PROVE FALSE
    OBVIOUS
  <2>1. PICK err : Starts(err)
    BY RequestStarts
  <2>2. ~ao["Send"].active
    BY <2>1, BelowIsAtRest DEF Starts, Objects, IInv
  <2>. QED BY <1>1, <2>1, <2>2, SendStaysAtRest DEF Starts
<1>3. OutboxRunL => SendNextHeaderL /\ Done(ao, "Outbox") /\ progress.state # "Complete"
  <2> SUFFICES ASSUME OutboxRunL
               PROVE  SendNextHeaderL /\ Done(ao, "Outbox") /\ progress.state # "Complete"
    OBVIOUS
  <2>1. Done(ao, "Outbox")
    BY DEF OutboxRunL, OutboxFails, OutboxSendsNext, OutboxMessageDeleted, OutboxCompletes,
       OutboxSendingDone, OutboxReSchedules, OutboxReScheduled, OutboxGotLogEvent,
       OutboxWroteLogEvent, OutboxMovesSent, OutboxKeepsUnsent, OutboxRuns, Runnable, Done
  <2>2. ~ao["Send"].active
    BY <2>1, BelowIsAtRest DEF IInv
  <2>3. CASE OutboxSendsNext \/ OutboxMessageDeleted
    BY <2>1, <2>3 DEF OutboxSendsNext, OutboxMessageDeleted, OutboxRuns
  <2>4. CASE ~OutboxSendsNext /\ ~OutboxMessageDeleted
    <3>1. \/ \E e : ao' \in {Answers(ao, "Outbox", e), RunsNext(ao, "Outbox", e)}
          \/ ao' = Awaits(ao, "Outbox")
      BY <2>4 DEF OutboxRunL, OutboxFails, OutboxCompletes, OutboxSendingDone,
         OutboxReSchedules, OutboxReScheduled, OutboxGotLogEvent, OutboxWroteLogEvent,
         OutboxMovesSent, OutboxKeepsUnsent, OutboxAnswers, LogEntry
    <3>. QED BY <1>1, <2>2, <3>1, SendStaysAtRest
  <2>. QED BY <2>3, <2>4
<1>4. ~SessionRuns
  <2> SUFFICES ASSUME SessionRuns PROVE FALSE
    OBVIOUS
  <2>1. ~ao["Send"].active /\ ao' = Answers(ao, "Session", KErrNone)
    BY BelowIsAtRest DEF SessionRuns, Runnable, Done, IInv
  <2>. QED BY <1>1, <2>1 DEF Answers, Parent, TypedObjects, Objects
<1>5. SendRunL => \/ SendNextRecipient
                  \/ SendRecipientDone /\ ao' = RunsNext(ao, "Send", KErrNone)
  <2>1. ao' # Answers(ao, "Send", KErrNone)
    BY <1>1 DEF Answers, Parent, TypedObjects, Objects, IdleObject
  <2>. QED BY <2>1 DEF SendRunL, SendFails, SendAllTried, SendFindsDeleted, SendRecipientDone
<1>6. ~MtmRuns /\ ~MtmCancel /\ ~ProgressPoll
  BY <1>1 DEF MtmRuns, MtmCancel, ProgressPoll, CompletesCommand, IdleObject, Objects,
     TypedObjects
<1>. QED BY <1>2, <1>3, <1>4, <1>5, <1>6 DEF Next

\* CSmsSend, about to send or to finish, knows the present state of the entry:
\* it has the entry locked, and has read it since it last had not.
LockInv ==
  SendOpened /\ send.state \in {"OpeningEntry", "UpdatingRecipient"}
    => index[current].state = entry.state

LEMMA StepKeepsLockInv ==
  ASSUME IInv, IInv', PlaceInv, LockInv, [Next]_vars
  PROVE  LockInv'
<1> SUFFICES ASSUME SendOpened', send'.state \in {"OpeningEntry", "UpdatingRecipient"}
             PROVE  index'[current'].state = entry'.state
  BY DEF LockInv
<1>1. /\ index \in [Msgs -> EntryRec] /\ \A m \in Msgs : index[m].id = m
      /\ ao \in TypedObjects /\ send \in SendRec
  BY DEF IInv, Types, StoreTypes, TypedIndex, WorkTypes
<1>2. ao'["Send"].active /\ ao'["Send"].status \in {KErrNone, KRequestPending}
  BY DEF SendOpened
<1>3. CASE SendNextHeaderL /\ Done(ao, "Outbox")
  <2>1. PICK m \in Msgs, p \in ProgressRec : current' = m /\ TakesUp(m, p)
    <3>1. ~ao["Send"].active
      BY <1>3, BelowIsAtRest DEF IInv
    <3>2. ao' # RunsNext(ao, "Outbox", KErrNone)
      BY <1>1, <1>2, <3>1, SendStaysAtRest
    <3>. QED BY <1>3, <3>2, NextMessage
  <2>2. ASSUME NEW err \in StoreErrors \cup {KErrNotFound}, ao' = ChainStarts(err) PROVE FALSE
    <3>1. err \in Errors /\ err \notin {KErrNone, KRequestPending}
      BY ErrorsKnown DEF KErrNotFound, KErrNone, KRequestPending
    <3>2. ChainStarts(err)["Send"] = [active |-> TRUE, status |-> err, report |-> TRUE]
      BY <1>3, <3>1, ChainStartsTyped
    <3>3. ao'["Send"].status = err
      BY <2>2, <3>2
    <3>. QED BY <1>2, <3>1, <3>3
  <2>3. OpensEntry(m, p)
    BY <2>1, <2>2 DEF TakesUp, OpenFindsNoRecipient, OpenCannotChange, OpenCannotRead
  <2>4. index' = [index EXCEPT ![m] = OpenedEntry(index[m])] /\ entry' = OpenedEntry(index[m])
    BY <2>3 DEF OpensEntry
  <2>. QED BY <1>1, <2>1, <2>4
<1>4. CASE SendNextRecipient
  BY <1>1, <1>4 DEF SendNextRecipient, SendRec
<1>5. CASE SendRecipientDone /\ ao' = RunsNext(ao, "Send", KErrNone)
  <2>1. Opened /\ current \in Msgs /\ entry.id = current
    BY <1>5, SendRunsOpened DEF SendRecipientDone, Opened
  <2>2. /\ index' = index /\ current' = current
        /\ entry' \in {index[entry.id],
                       [index[entry.id] EXCEPT !.err = progress.error, !.failed = TRUE]}
    <3>1. ao' # Answers(ao, "Send", KErrNone)
      BY <1>1, <1>2 DEF Answers, Parent, TypedObjects, Objects, IdleObject
    <3>. QED BY <1>5, <3>1, Zenon DEF SendRecipientDone, Becomes, Snapshot
  <2>. QED BY <1>1, <2>1, <2>2 DEF EntryRec
<1>6. CASE RcptRunL
  <2>1. RcptMoves /\ Done(ao, "Rcpt")
    BY <1>6, RcptRunLMoves
  <2>2. send.state = "SendingEntry"
    BY <2>1, RecipientIsOpened DEF Done
  <2>. QED BY <2>1, <2>2 DEF RcptMoves
<1>7. CASE Services \/ ClientStep \/ UNCHANGED vars
  <2>1. /\ entry' = entry /\ send' = send /\ current' = current
        /\ ao'["Send"] = ao["Send"]
    BY <1>1, <1>7 DEF Services, LoggerCompletes, SocketCompletes, ClientStep, vars, memVars,
       TypedObjects, Objects
  <2>2. SendOpened /\ Opened
    BY <1>2, <2>1 DEF SendOpened, IInv, Shape, SendShape
  <2>3. ctx = current /\ current \in Msgs
    BY <2>1, <2>2 DEF PlaceInv, SendLocks, SendOpened, Opened
  <2>4. index'[current].state = index[current].state
    BY <1>1, <1>7, <2>3 DEF Services, LoggerCompletes, SocketCompletes, ClientStep, vars,
       storeVars, Suspend, Resume, Delete, DateArrives, ClientMay, EntryRec
  <2>. QED BY <2>1, <2>2, <2>4 DEF LockInv
<1>. QED BY <1>2, <1>3, <1>4, <1>5, <1>6, <1>7, SendIsActive

LEMMA ActiveIsReported == WakeInv => ao["Rcpt"].active = ao["Rcpt"].report
BY DEF WakeInv, Chain, Objects

\* Only SendNextRecipientL starts a recipient.
LEMMA RecipientIsStarted ==
  ASSUME IInv, IInv', PlaceInv, [Next]_vars, ao'["Rcpt"].report, ~ao["Rcpt"].report
  PROVE  SendNextRecipient
<1>1. ao \in TypedObjects /\ ao' \in TypedObjects
  BY DEF IInv, Types, WorkTypes
<1>2. ao["Rcpt"].active = ao["Rcpt"].report /\ ao'["Rcpt"].active = ao'["Rcpt"].report
  <2>1. (WakeInv => ao["Rcpt"].active = ao["Rcpt"].report)'
    BY ActiveIsReported, PTL
  <2>. QED BY <2>1, ActiveIsReported DEF IInv
<1>3. ao'["Send"].active /\ ao'["Send"].status = KRequestPending
  <2>1. (WakeInv => (ao["Rcpt"].active => Waits(ao, "Send")))'
    BY BelowIsAtRest, PTL
  <2>. QED BY <1>2, <2>1 DEF IInv, Waits
<1>4. ~(SendNextHeaderL /\ Done(ao, "Outbox"))
  <2> SUFFICES ASSUME SendNextHeaderL, Done(ao, "Outbox") PROVE FALSE
    OBVIOUS
  <2>1. ~ao["Send"].active
    BY BelowIsAtRest DEF IInv
  <2>2. ao' # RunsNext(ao, "Outbox", KErrNone)
    BY <1>1, <1>3, <2>1, SendStaysAtRest
  <2>3. \E m, p : TakesUp(m, p)
    BY <2>2, NextMessage
  <2>4. PICK err \in StoreErrors \cup {KErrNotFound, KErrNone} : ao' = ChainStarts(err)
    BY <2>3 DEF TakesUp, OpensEntry, OpenFindsNoRecipient, OpenCannotChange, OpenCannotRead
  <2>5. err \in Errors /\ err # KRequestPending
    BY ErrorsKnown DEF Final
  <2>6. ChainStarts(err)["Send"] = [active |-> TRUE, status |-> err, report |-> TRUE]
    BY <2>5, ChainStartsTyped
  <2>7. ao'["Send"].status = err
    BY <2>4, <2>6
  <2>. QED BY <1>3, <2>5, <2>7
<1>5. ao' # RunsNext(ao, "Send", KErrNone)
  BY <1>1, <1>3 DEF RunsNext, TypedObjects, Objects, KErrNone, KRequestPending
<1>6. ~RcptRunL
  BY <1>2, RcptRunLMoves DEF Done
<1>7. ~(Services \/ ClientStep \/ UNCHANGED vars)
  BY <1>1 DEF Services, LoggerCompletes, SocketCompletes, ClientStep, vars, TypedObjects,
     Objects
<1>. QED BY <1>3, <1>4, <1>5, <1>6, <1>7, SendIsActive

LEMMA RecipientStartsOnlyIfWanted ==
  ASSUME IInv, PlaceInv, LockInv, SendNextRecipient
  PROVE  Exists(current) /\ index[current].state \notin {"Suspended", "Sent"}
<1> DEFINE able == {i \in 0 .. progress.rcpCount - 1 :
                      CanSendMessageToRecipient(entry, hdr.rcpts[i + 1])}
           n    == NextRecipient
<1>1. /\ SendRuns({"OpeningEntry", "UpdatingRecipient"}) /\ n < progress.rcpCount
      /\ Opened /\ progress.state = "Sending"
      /\ progress.rcpDone \in Int /\ progress.rcpCount \in Int
  BY SendRunsOpened DEF SendNextRecipient
<1>2. n \in able
  <2>1. n = FirstFrom(progress.rcpDone, progress.rcpCount, able)
    BY DEF NextRecipient
  <2> HIDE DEF able, n
  <2>. QED BY <1>1, <2>1, FirstFromRange
<1>3. entry.state \notin {"Suspended", "Sent"}
  BY <1>2 DEF CanSendMessageToRecipient, CanSendMessage
<1>4. /\ ctx = current /\ index[current].state = entry.state
  BY <1>1 DEF SendRuns, Runnable, PlaceInv, SendLocks, LockInv, SendOpened
<1>5. Exists(current)
  BY <1>1, <1>4, SendingPlace, StoreAssumption DEF Exists
<1>. QED BY <1>3, <1>4, <1>5

\* What the proofs of this module need at once.
StateInv == GoneShape /\ LockInv

LEMMA InitStateInv == Init => StateInv
<1> SUFFICES ASSUME Init PROVE StateInv
  OBVIOUS
<1>1. \A m \in Msgs : index[m].folder = "Outbox"
  BY StartsInOutbox
<1>2. ao = [o \in Objects |-> IdleObject]
  BY Zenon DEF Init
<1>3. ~ao["Send"].active
  BY <1>2, IdleFields DEF Objects
<1>. QED BY <1>1, <1>3 DEF StateInv, GoneShape, LockInv, SendOpened

LEMMA SpecKeepsStateInv == Spec => [](IInv /\ SentInv /\ PlaceInv /\ StateInv)
<1>1. Init => StateInv
  BY InitStateInv
<1>2. IInv /\ IInv' /\ SentInv /\ PlaceInv /\ StateInv /\ [Next]_vars => StateInv'
  BY StepKeepsGoneShape, StepKeepsLockInv DEF StateInv
<1>. QED BY <1>1, <1>2, SpecKeepsPlaceInv, PTL DEF Spec

\* A deleted message is never written again: not by CSmsSend, which finds the
\* entry gone and leaves it, not by CSmsOutboxSend, whose message is locked
\* whenever it writes, and not by FailOutstandingMessages.
THEOREM DeletedIsNotWritten ==
  Spec => [][\A m \in Msgs : index[m].folder = "None" => index'[m] = index[m]]_vars
<1>1. IInv /\ SentInv /\ PlaceInv /\ StateInv /\ [Next]_vars =>
        [\A m \in Msgs : index[m].folder = "None" => index'[m] = index[m]]_vars
  BY StepSpares DEF StateInv, Spares
<1>. QED BY <1>1, SpecKeepsStateInv, PTL DEF Spec

\* SendNextRecipientL never starts a recipient of a message that the client
\* has suspended or deleted: what it decides on is the entry as it is now,
\* although the message was unlocked while the recipient before was sent to.
THEOREM SuspendIsHeeded == Spec => SuspendStopsSending
<1>1. IInv /\ IInv' /\ SentInv /\ PlaceInv /\ StateInv /\ [Next]_vars =>
        (ao'["Rcpt"].report /\ ~ao["Rcpt"].report
           => Exists(current) /\ index[current].state \notin {"Suspended", "Sent"})
  BY RecipientIsStarted, RecipientStartsOnlyIfWanted DEF StateInv
<1>2. IInv /\ IInv' /\ SentInv /\ PlaceInv /\ StateInv /\ [Next]_vars =>
        [ao'["Rcpt"].report /\ ~ao["Rcpt"].report
           => Exists(current) /\ index[current].state \notin {"Suspended", "Sent"}]_vars
  BY <1>1
<1>. QED BY <1>2, SpecKeepsStateInv, PTL DEF Spec, SuspendStopsSending

LEMMA CancelFailsOutstanding ==
  ASSUME IInv, PlaceInv, GoneShape, MtmCancel, ao["Outbox"].active, NEW m \in selection
  PROVE  index'[m].state \notin {"Waiting", "Sending"}
<1>1. PICK st \in Stores :
        index' = FailOutstanding(
                   IF progress.state = "Sending" THEN SessionCancelled(st).index ELSE index,
                   selection, KErrCancel, "Suspended")
  BY DEF MtmCancel
<1> DEFINE ix == IF progress.state = "Sending" THEN SessionCancelled(st).index ELSE index
<1>2. /\ Spares(ix) /\ ix \in [Msgs -> EntryRec] /\ m \in Msgs
      /\ \A q \in Msgs : ix[q].folder = index[q].folder
  <2>1. selection \subseteq Msgs /\ TypedIndex(index) /\ Spares(index)
    BY DEF IInv, Types, WorkTypes, StoreTypes, Spares
  <2>2. Spares(SessionCancelled(st).index) /\ TypedIndex(SessionCancelled(st).index)
    BY SessionCancelledSpares, SessionCancelledTyped, StoresType DEF TypedSnapshot
  <2>3. progress.state = "Sending" =>
          \A q \in Msgs : SessionCancelled(st).index[q].folder = index[q].folder
    BY SessionCancelledPlaces, StoresType DEF EndsInPlace
  <2>. QED BY <2>1, <2>2, <2>3 DEF TypedIndex
<1>3. index' = FailOutstanding(ix, selection, KErrCancel, "Suspended")
  BY <1>1
<1> HIDE DEF ix
<1>4. CASE ix[m].folder = "None"
  <2>1. index'[m] = index[m] /\ index[m].state = "Unknown"
    BY <1>2, <1>3, <1>4 DEF FailOutstanding, Spares, GoneShape
  <2>. QED BY <2>1
<1>5. CASE ix[m].folder # "None"
  <2>1. index'[m] = FailIfOutstanding(ix[m], KErrCancel, "Suspended")
    BY <1>2, <1>3, <1>5 DEF FailOutstanding
  <2>2. ix[m] \in EntryRec
    BY <1>2
  <2>. QED BY <2>1, <2>2 DEF FailIfOutstanding, EntryRec
<1>. QED BY <1>4, <1>5

\* Cancelling a request at whatever point of it leaves none of its messages
\* waiting or being sent.
THEOREM CancelSettles == Spec => CancelLeavesNothingPending
<1>1. IInv /\ SentInv /\ PlaceInv /\ StateInv =>
        (MtmCancel /\ ao["Outbox"].active
           => \A m \in selection : index'[m].state \notin {"Waiting", "Sending"})
  BY CancelFailsOutstanding DEF StateInv
<1>2. IInv /\ SentInv /\ PlaceInv /\ StateInv =>
        [MtmCancel /\ ao["Outbox"].active
           => \A m \in selection : index'[m].state \notin {"Waiting", "Sending"}]_vars
  BY <1>1
<1>. QED BY <1>2, SpecKeepsStateInv, PTL DEF CancelLeavesNothingPending

-----------------------------------------------------------------------------
(* Scheduled messages                                                      *)

\* A recipient is left to send to, if there are recipients at all.
Left(m, rs) == RcpCount[m] > 0 => \E i \in 1 .. RcpCount[m] : NotSent(rs[i])

CurrentIsScheduled == entry.state = "Resend" \/ index[current].state = "Resend"

ScheduledIsLeft == \A m \in Msgs : index[m].state = "Resend" => Left(m, header[m])

\* While the outbox sender decides on a message, the header in memory counts:
\* MoveEntryL may store it along with the entry.
DecidedIsLeft ==
  progress.state \in Deciding /\ CurrentIsScheduled => Left(current, hdr.rcpts)

\* OpenEntryL has made the message Sending, and no one schedules it from then
\* on until the outbox sender does.
OpenedIsNotScheduled == SendOpened => ~CurrentIsScheduled

\* A message that was scheduled and could not be opened has failed, so that
\* it is re-scheduled: SendingCompleteL would log and store what CSmsSend
\* still has of the message before.
UnopenedHasFailed ==
  progress.state = "Sending" /\ ~ao["Send"].active /\ CurrentIsScheduled
    => progress.error # KErrNone /\ entry.state # "Suspended"

OpeningSends ==
  ao["Send"].active =>
    /\ ao["Send"].status # KErrCancel
    /\ send.state = "OpeningEntry" => CanSendMessage(index[current])

ScheduleInv == /\ ScheduledIsLeft /\ DecidedIsLeft /\ OpenedIsNotScheduled
               /\ UnopenedHasFailed /\ OpeningSends

\* An index in which no further message is scheduled.
SchedulesNone(ix) ==
  \A m \in Msgs : ix[m].state = "Resend" => index[m].state = "Resend"

LEMMA ElsewhereKeepsScheduleInv ==
  ASSUME IInv', ScheduledIsLeft', progress'.state \notin {"Sending"} \cup Deciding
  PROVE  ScheduleInv'
<1>1. (WakeInv => (progress.state # "Sending" => ~ao["Send"].active))'
  BY SendWorksWhileSending, PTL
<1>2. ~ao'["Send"].active
  BY <1>1 DEF IInv
<1>. QED BY <1>2 DEF ScheduleInv, DecidedIsLeft, OpenedIsNotScheduled, UnopenedHasFailed,
         OpeningSends, SendOpened

LEMMA SchedulingNoneKeepsLeft ==
  ASSUME ScheduledIsLeft, SchedulesNone(index'), header' = header
  PROVE  ScheduledIsLeft'
BY DEF ScheduledIsLeft, SchedulesNone, Left

\* The scheduler schedules a message when it has found a recipient to retry.
LEMMA ReScheduledIsLeft ==
  ASSUME NEW m \in Msgs, NEW e \in EntryRec, NEW rs \in Rcpts(m), NEW act,
         \A i \in 1 .. RcpCount[m] : act[i].action # "SentAlready",
         ReScheduledEntry(e, rs, act).state = "Resend"
  PROVE  Left(m, ReScheduledRecipients(rs, act))
<1>1. CanSendToAnyRecipients(rs, act)
  BY DEF ReScheduledEntry, EntryRec
<1>2. PICK i \in 1 .. RcpCount[m] : NotSent(rs[i])
  BY <1>1, RcptsOf DEF CanSendToAnyRecipients, Retriable
<1>3. NotSent(ReScheduledRecipients(rs, act)[i])
  BY <1>2, ReScheduledRecipientsType
<1>. QED BY <1>3 DEF Left

LEMMA FailingSchedulesNone ==
  ASSUME NEW ix \in [Msgs -> EntryRec], SchedulesNone(ix), NEW sel, NEW err,
         NEW st \in {"Failed", "Suspended"}
  PROVE  SchedulesNone(FailOutstanding(ix, sel, err, st))
<1>1. \A e \in EntryRec : FailIfOutstanding(e, err, st).state \in {e.state, st}
  BY DEF FailIfOutstanding, EntryRec
<1>2. \A m \in Msgs : FailOutstanding(ix, sel, err, st)[m] \in {ix[m], FailIfOutstanding(ix[m], err, st)}
  BY DEF FailOutstanding
<1>. QED BY <1>1, <1>2 DEF SchedulesNone

LEMMA AnsweringSchedulesNone ==
  ASSUME NEW ix \in [Msgs -> EntryRec], SchedulesNone(ix), NEW e, OutboxAnswers(ix, e)
  PROVE  SchedulesNone(index')
BY FailingSchedulesNone DEF OutboxAnswers

LEMMA AllTriedSchedulesNone ==
  ASSUME NEW e \in EntryRec, NEW sn, NEW n
  PROVE  EntryAfterAllSent(e, sn, n).state \in {e.state, "Sent", "Suspended"}
BY DEF EntryAfterAllSent, EntryRec

LEMMA SendCompletedSchedulesNone ==
  ASSUME IInv, NEW s, s.index = index, s.entry.id = current, current \in Msgs,
         s.entry.state = "Resend" => CurrentIsScheduled, NEW e \in Errors, NEW st
  PROVE  /\ SchedulesNone(SendCompleted(s, e, st).index)
         /\ SendCompleted(s, e, st).entry.state = "Resend" => CurrentIsScheduled
<1> DEFINE done == EntryAfterAllSent([index[current] EXCEPT !.err = e], s.send,
                                     s.progress.rcpCount)
           ix   == IF st THEN [index EXCEPT ![current] = done] ELSE index
           r    == SendCompleted(s, e, st)
<1>1. \/ r.index = ix /\ r.entry = done
      \/ r.index = index /\ r.entry = s.entry
  BY DEF SendCompleted, Snapshot
<1>2. index \in [Msgs -> EntryRec]
  BY DEF IInv, Types, StoreTypes, TypedIndex
<1>3. done.state \in {index[current].state, "Sent", "Suspended"}
  <2>1. /\ [index[current] EXCEPT !.err = e] \in EntryRec
        /\ [index[current] EXCEPT !.err = e].state = index[current].state
    BY <1>2 DEF EntryRec
  <2>. QED BY <2>1, AllTriedSchedulesNone
<1> HIDE DEF done, r
<1>4. /\ SchedulesNone(r.index)
      /\ r.entry.state = "Resend" => CurrentIsScheduled
  BY <1>1, <1>2, <1>3 DEF SchedulesNone, CurrentIsScheduled
<1>. QED BY <1>4 DEF r

LEMMA RequestKeepsScheduleInv ==
  ASSUME IInv, IInv', PlaceInv, ScheduleInv, Request
  PROVE  ScheduleInv'
<1>1. PICK sel \in SUBSET Msgs :
        \/ StartSend(sel)
        \/ StartFindsNothing(sel)
        \/ \E err \in StoreErrors \cup {KErrNone} :
             \E done \in SUBSET Accepted(sel \cup Found(sel)) :
               StartReSchedules(sel, err, done)
        \/ \E e \in StoreErrors : \E found \in SUBSET Found(sel) :
             \E done \in SUBSET (sel \cup found) : StartFails(sel, e, found, done)
  BY RequestCases
<1> DEFINE all == sel \cup Found(sel)
           acc == Accepted(all)
<1>2. acc \subseteq Msgs
  BY ChosenAreMessages
<1>3. TypedIndex(index) /\ TypedHeaders(header) /\ ScheduledIsLeft
  BY DEF IInv, Types, StoreTypes, ScheduleInv
<1>4. \A done : Divided(done) \in [Msgs -> EntryRec] /\ SchedulesNone(Divided(done))
  <2>1. \A done : \A m \in Msgs : Divided(done)[m].state \in {index[m].state, "Waiting", "Failed"}
    BY <1>3 DEF Divided, TypedIndex, EntryRec
  <2>. QED BY <1>3, <2>1, DividedTyped DEF TypedIndex, SchedulesNone
<1>5. SchedulesNone(index') /\ header' = header => ScheduledIsLeft'
  BY <1>3, SchedulingNoneKeepsLeft
<1>6. ASSUME StartSend(sel) PROVE ScheduledIsLeft'
  <2>1. index' = MadeWaiting(Divided(all), acc) /\ header' = header
    BY <1>6 DEF StartSend
  <2> HIDE DEF all, acc
  <2>2. \A m \in Msgs : MadeWaiting(Divided(all), acc)[m].state \in {Divided(all)[m].state, "Waiting"}
    BY <1>4 DEF MadeWaiting, EntryRec
  <2>. QED BY <1>4, <1>5, <2>1, <2>2 DEF SchedulesNone
<1>7. ASSUME StartFindsNothing(sel) PROVE ScheduledIsLeft'
  BY <1>4, <1>5, <1>7 DEF StartFindsNothing
<1>8. ASSUME NEW e, NEW found, NEW done, StartFails(sel, e, found, done)
      PROVE  ScheduledIsLeft'
  BY <1>4, <1>5, <1>8 DEF StartFails
<1>9. ASSUME NEW err, NEW done \in SUBSET acc, StartReSchedules(sel, err, done)
      PROVE  ScheduledIsLeft'
  <2>1. \A m \in Msgs :
          \/ /\ index'[m] = ReScheduledEntry(Divided(all)[m], header[m], CondActions(m))
             /\ header'[m] = ReScheduledRecipients(header[m], CondActions(m))
          \/ index'[m] = Divided(all)[m] /\ header'[m] = header[m]
    BY <1>9 DEF StartReSchedules
  <2> HIDE DEF all, acc
  <2>2. \A m \in Msgs : \A i \in 1 .. RcpCount[m] : CondActions(m)[i].action # "SentAlready"
    BY DEF CondActions, CondAction
  <2>3. ASSUME NEW m \in Msgs, index'[m].state = "Resend"
        PROVE  Left(m, header'[m])
    <3>1. Divided(all)[m] \in EntryRec /\ header[m] \in Rcpts(m)
      BY <1>3, <1>4 DEF TypedHeaders
    <3>2. ReScheduledEntry(Divided(all)[m], header[m], CondActions(m)).state = "Resend"
            => Left(m, ReScheduledRecipients(header[m], CondActions(m)))
      BY <2>2, <3>1, ReScheduledIsLeft
    <3>3. Divided(all)[m].state = "Resend" => Left(m, header[m])
      BY <1>3, <1>4 DEF SchedulesNone, ScheduledIsLeft
    <3>. QED BY <2>1, <2>3, <3>2, <3>3
  <2>. QED BY <2>3 DEF ScheduledIsLeft, Left
<1>10. ScheduledIsLeft'
  BY <1>1, <1>6, <1>7, <1>8, <1>9
<1>. QED BY <1>10, RequestPlaces, ElsewhereKeepsScheduleInv DEF Deciding, LogStates

\* The next message is opened, or could not be.
LEMMA SendNextHeaderKeepsScheduleInv ==
  ASSUME IInv, IInv', PlaceInv, ScheduleInv, Done(ao, "Outbox"), SendNextHeaderL
  PROVE  ScheduleInv'
<1>1. TypedIndex(index) /\ ScheduledIsLeft /\ header' = header
  BY NextHeaderIsRead DEF IInv, Types, StoreTypes, ScheduleInv
<1>2. CASE progress'.state = "Complete" /\ index' = index
  <2>1. ScheduledIsLeft'
    BY <1>1, <1>2 DEF ScheduledIsLeft, Left
  <2>. QED BY <1>2, <2>1, ElsewhereKeepsScheduleInv DEF Deciding, LogStates
<1>3. ASSUME NEW m \in Msgs, NEW p \in ProgressRec, p.state = "Sending", current' = m,
             TakesUp(m, p), CanSendMessage(index[m])
      PROVE  ScheduleInv'
  <2>1. /\ OpenedEntry(index[m]).state = "Sending"
        /\ index[m] \in EntryRec
    BY <1>1 DEF TypedIndex, OpenedEntry, EntryRec
  <2>2. index' = index \/ index' = [index EXCEPT ![m] = OpenedEntry(index[m])]
    BY <1>3 DEF TakesUp, OpensEntry, OpenFindsNoRecipient, OpenCannotChange, OpenCannotRead
  <2>3. SchedulesNone(index') /\ CanSendMessage(index'[m])
    BY <1>1, <1>3, <2>1, <2>2 DEF TypedIndex, SchedulesNone, CanSendMessage
  <2>4. PICK err \in StoreErrors \cup {KErrNotFound, KErrNone} :
          /\ ao' = ChainStarts(err)
          /\ err = KErrNone => OpensEntry(m, p)
    BY <1>3, ErrorsKnown DEF TakesUp, OpensEntry, OpenFindsNoRecipient, OpenCannotChange,
       OpenCannotRead, KErrNotFound, KErrNone
  <2>5. err \in Errors /\ err \notin {KErrCancel, KRequestPending}
    BY ErrorsKnown DEF KErrNotFound, KErrNone, KErrCancel, KRequestPending
  <2>6. ao'["Send"] = [active |-> TRUE, status |-> err, report |-> TRUE]
    <3>1. ChainStarts(err)["Send"] = [active |-> TRUE, status |-> err, report |-> TRUE]
      BY <2>5, ChainStartsTyped
    <3>. QED BY <2>4, <3>1
  <2>7. progress'.state = "Sending"
    <3>1. (WakeInv => (progress.state # "Sending" => ~ao["Send"].active))'
      BY SendWorksWhileSending, PTL
    <3>. QED BY <2>6, <3>1 DEF IInv
  <2>8. SendOpened' => ~CurrentIsScheduled'
    <3> SUFFICES ASSUME SendOpened' PROVE ~CurrentIsScheduled'
      OBVIOUS
    <3>1. OpensEntry(m, p)
      BY <2>4, <2>5, <2>6 DEF SendOpened
    <3>2. index'[m].state = "Sending" /\ entry'.state = "Sending"
      BY <1>1, <2>1, <3>1 DEF OpensEntry, TypedIndex
    <3>. QED BY <1>3, <3>2 DEF CurrentIsScheduled
  <2>9. ScheduledIsLeft'
    BY <1>1, <2>3, SchedulingNoneKeepsLeft
  <2>10. ao'["Send"].active /\ ao'["Send"].status # KErrCancel /\ progress'.state \notin Deciding
    BY <2>5, <2>6, <2>7 DEF Deciding, LogStates
  <2>. QED BY <1>3, <2>3, <2>8, <2>9, <2>10 DEF ScheduleInv, DecidedIsLeft,
           OpenedIsNotScheduled, UnopenedHasFailed, OpeningSends
<1>. QED BY <1>2, <1>3, NextMessage

LEMMA DecidingKeepsScheduleInv ==
  ASSUME IInv', ScheduledIsLeft', progress'.state \in Deciding, DecidedIsLeft'
  PROVE  ScheduleInv'
<1>1. (WakeInv => (progress.state # "Sending" => ~ao["Send"].active))'
  BY SendWorksWhileSending, PTL
<1>2. progress'.state # "Sending"
  BY DEF Deciding, LogStates
<1>3. ~ao'["Send"].active
  BY <1>1, <1>2 DEF IInv
<1>. QED BY <1>2, <1>3 DEF ScheduleInv, OpenedIsNotScheduled, UnopenedHasFailed, OpeningSends,
         SendOpened

\* The outbox sender answers; ix is the index before FailOutstandingMessages.
LEMMA OutboxAnswersKeepsScheduleInv ==
  ASSUME IInv, IInv', NEW ix \in [Msgs -> EntryRec], NEW e, OutboxAnswers(ix, e),
         \A m \in Msgs : ix[m].state = "Resend" => Left(m, header'[m])
  PROVE  ScheduleInv'
<1>1. progress'.state = "Waiting"
  <2>1. progress \in ProgressRec
    BY DEF IInv, Types, WorkTypes
  <2>2. \E err : progress' = [progress EXCEPT !.state = "Waiting", !.error = err]
    BY Zenon DEF OutboxAnswers
  <2>. QED BY <2>1, <2>2 DEF ProgressRec
<1>2. \A m \in Msgs : index'[m].state = "Resend" => ix[m].state = "Resend"
  <2>1. \A en \in EntryRec : \A err :
          FailIfOutstanding(en, err, "Failed").state \in {en.state, "Failed"}
    BY DEF FailIfOutstanding, EntryRec
  <2>2. \A m \in Msgs : \/ index'[m] = ix[m]
                        \/ \E err : index'[m] = FailIfOutstanding(ix[m], err, "Failed")
    BY DEF OutboxAnswers, FailOutstanding
  <2>. QED BY <2>1, <2>2
<1>3. ScheduledIsLeft'
  BY <1>2 DEF ScheduledIsLeft, Left
<1>. QED BY <1>1, <1>3, ElsewhereKeepsScheduleInv DEF Deciding, LogStates

\* A message that was scheduled and could not be opened is not done with.
LEMMA OutboxSendingDoneKeepsScheduleInv ==
  ASSUME IInv, IInv', PlaceInv, ScheduleInv, OutboxSendingDone
  PROVE  ScheduleInv'
<1>1. /\ progress.state = "Sending" /\ Done(ao, "Outbox")
      /\ ~(JudgedEntry.failed /\ JudgedEntry.state # "Suspended")
      /\ entry' = [JudgedEntry EXCEPT !.scheduled = FALSE]
      /\ progress' = [progress EXCEPT !.state = "ReScheduling"]
      /\ UNCHANGED <<index, header, hdr, current>>
  BY DEF OutboxSendingDone, OutboxRuns, Runnable, Done, storeVars
<1>2. /\ current \in Msgs /\ entry.id = current /\ JudgedEntry \in EntryRec
      /\ entry \in EntryRec /\ index[current] \in EntryRec /\ progress \in ProgressRec
  BY <1>1, JudgedTyped DEF IInv, Types, MemTypes, StoreTypes, TypedIndex, WorkTypes
<1>3. progress'.state \in Deciding
  BY <1>1, <1>2 DEF ProgressRec, Deciding
<1>4. ~ao["Send"].active
  BY <1>1, BelowIsAtRest DEF IInv
<1>5. JudgedEntry.state = IF ctx # current THEN index[current].state ELSE entry.state
  BY <1>2 DEF JudgedEntry, EntryRec
<1>6. progress.error # KErrNone => JudgedEntry.failed
  BY <1>2 DEF JudgedEntry, EntryRec
<1>7. entry'.state = JudgedEntry.state
  BY <1>1, <1>2 DEF EntryRec
<1>8. CurrentIsScheduled => JudgedEntry.state = "Suspended" /\ entry.state # "Suspended"
  BY <1>1, <1>4, <1>6 DEF ScheduleInv, UnopenedHasFailed
<1>9. ~CurrentIsScheduled'
  BY <1>1, <1>5, <1>7, <1>8 DEF CurrentIsScheduled
<1>10. ScheduledIsLeft'
  BY <1>1 DEF ScheduleInv, ScheduledIsLeft, Left
<1>. QED BY <1>3, <1>9, <1>10, DecidingKeepsScheduleInv DEF DecidedIsLeft

\* The scheduler schedules the message again, or not; then its header has
\* been written and read again with the entry.
LEMMA OutboxReSchedulesKeepsScheduleInv ==
  ASSUME IInv, IInv', PlaceInv, ScheduleInv, OutboxReSchedules
  PROVE  ScheduleInv'
<1> DEFINE m   == entry.id
           act == ListedActions(header[m])
           new == ReScheduledEntry(index[m], header[m], act)
           rs  == ReScheduledRecipients(header[m], act)
           ix  == [index EXCEPT ![m] = new]
           hs  == [header EXCEPT ![m] = ReScheduledRecipients(@, act)]
<1>1. /\ progress.state = "Sending" /\ UNCHANGED current
      /\ ctx = entry.id \/ Exists(entry.id)
  BY DEF OutboxReSchedules, OutboxRuns
<1>2. m \in Msgs /\ m = current
  BY <1>1, SendingIsInOutbox
<1>3. /\ index \in [Msgs -> EntryRec] /\ header[m] \in Rcpts(m) /\ ScheduledIsLeft
      /\ header = [q \in Msgs |-> header[q]] /\ progress \in ProgressRec
  BY <1>2 DEF IInv, Types, StoreTypes, TypedIndex, TypedHeaders, WorkTypes, ScheduleInv
<1>4. \A i \in 1 .. RcpCount[m] : act[i].action # "SentAlready"
  BY <1>3 DEF ListedActions, ErrorAction, Rcpts
<1> HIDE DEF act
<1>5. new.state = "Resend" => Left(m, rs)
  BY <1>2, <1>3, <1>4, ReScheduledIsLeft
<1>6. new \in EntryRec
  BY <1>2, <1>3, ReScheduledEntryType
<1>7. /\ ix \in [Msgs -> EntryRec] /\ ix[m] = new /\ hs[m] = rs
      /\ \A q \in Msgs \ {m} : ix[q] = index[q] /\ hs[q] = header[q]
  <2> HIDE DEF m, new
  <2>. QED BY <1>2, <1>3, <1>6
<1>8. \/ /\ index' = ix /\ header' = hs /\ entry' = ix[m] /\ hdr' = HeaderOf(hs, m)
         /\ progress' = [progress EXCEPT !.state = "ReScheduling"]
      \/ \E e \in StoreErrors : OutboxAnswers(index, e) /\ header' = header
      \/ \E e \in StoreErrors : OutboxAnswers(ix, e) /\ header' = hs
  BY Zenon DEF OutboxReSchedules, act
<1> HIDE DEF new, rs, ix, hs, m
<1>9. \A q \in Msgs : ix[q].state = "Resend" => Left(q, hs[q])
  BY <1>3, <1>5, <1>7 DEF ScheduledIsLeft
<1>10. CASE /\ index' = ix /\ header' = hs /\ entry' = ix[m] /\ hdr' = HeaderOf(hs, m)
            /\ progress' = [progress EXCEPT !.state = "ReScheduling"]
  <2>1. ScheduledIsLeft'
    BY <1>9, <1>10 DEF ScheduledIsLeft, Left
  <2>2. progress'.state \in Deciding
    BY <1>3, <1>10 DEF ProgressRec, Deciding
  <2>3. hdr'.rcpts = hs[m]
    BY <1>2, <1>10, StoreAssumption DEF HeaderOf
  <2>4. CurrentIsScheduled' => Left(m, hdr'.rcpts)
    BY <1>1, <1>2, <1>9, <1>10, <2>3 DEF CurrentIsScheduled
  <2>. QED BY <1>1, <1>2, <2>1, <2>2, <2>4, DecidingKeepsScheduleInv DEF DecidedIsLeft, Left
<1>11. ASSUME NEW e \in StoreErrors, OutboxAnswers(index, e), header' = header
       PROVE  ScheduleInv'
  BY <1>3, <1>11, OutboxAnswersKeepsScheduleInv DEF ScheduledIsLeft
<1>12. ASSUME NEW e \in StoreErrors, OutboxAnswers(ix, e), header' = hs
       PROVE  ScheduleInv'
  BY <1>7, <1>9, <1>12, OutboxAnswersKeepsScheduleInv
<1>. QED BY <1>8, <1>10, <1>11, <1>12

\* The current message while it is logged.
LEMMA OutboxLogsKeepsScheduleInv ==
  ASSUME IInv, IInv', ScheduleInv, OutboxReScheduled \/ OutboxGotLogEvent \/ OutboxWroteLogEvent
  PROVE  ScheduleInv'
<1>1. /\ progress.state \in Deciding
      /\ UNCHANGED <<index, header, entry, current>>
      /\ hdr' = hdr \/ \E k, b : hdr' = [hdr EXCEPT !.rcpts[k].log = b]
  BY DEF OutboxReScheduled, OutboxGotLogEvent, OutboxWroteLogEvent, OutboxRuns, storeVars,
     Deciding, LogStates
<1>2. hdr.id = current /\ current \in Msgs
  BY <1>1 DEF IInv, Shape, LogShape, Deciding
<1>3. \A i \in 1 .. RcpCount[current] : NotSent(hdr'.rcpts[i]) <=> NotSent(hdr.rcpts[i])
  BY <1>1, <1>2, HeaderIsLogged
<1>4. ScheduledIsLeft'
  BY <1>1 DEF ScheduleInv, ScheduledIsLeft, Left
<1>5. CurrentIsScheduled' => Left(current, hdr.rcpts)
  BY <1>1 DEF ScheduleInv, DecidedIsLeft, CurrentIsScheduled
<1>6. Left(current, hdr.rcpts) => Left(current, hdr'.rcpts)
  BY <1>3 DEF Left
<1>7. DecidedIsLeft'
  BY <1>1, <1>5, <1>6 DEF DecidedIsLeft, Left
<1>. QED BY <1>4, <1>7, LoggingGoesOn, DecidingKeepsScheduleInv

\* MoveEntryL stores the entry and the header it has in memory.
LEMMA OutboxKeepsUnsentKeepsScheduleInv ==
  ASSUME IInv, IInv', PlaceInv, ScheduleInv, OutboxKeepsUnsent
  PROVE  ScheduleInv'
<1>1. /\ progress.state = "LogEntryComplete"
      /\ header' \in {header, [header EXCEPT ![entry.id] = hdr.rcpts]}
      /\ \/ /\ index' = [index EXCEPT ![entry.id] = entry]
            /\ header' = header => entry = index[entry.id] \/ header[entry.id] = hdr.rcpts
            /\ progress' = [progress EXCEPT !.state = "MovingEntry"]
         \/ \E e \in StoreErrors : OutboxAnswers(index, e)
  <2>1. /\ header = [q \in Msgs |-> header[q]] /\ entry.id \in Msgs
    BY MovedIsInOutbox DEF OutboxKeepsUnsent, OutboxRuns, IInv, Types, StoreTypes, TypedHeaders
  <2>2. header = [header EXCEPT ![entry.id] = hdr.rcpts] => header[entry.id] = hdr.rcpts
    BY <2>1
  <2>. QED BY <2>2 DEF OutboxKeepsUnsent, OutboxRuns
<1>2. current \in Msgs /\ entry.id = current /\ progress \in ProgressRec
  BY <1>1, MovedIsInOutbox
<1>3. /\ index \in [Msgs -> EntryRec] /\ ScheduledIsLeft
      /\ header = [q \in Msgs |-> header[q]]
  BY DEF IInv, Types, StoreTypes, TypedIndex, TypedHeaders, ScheduleInv
<1>4. CurrentIsScheduled => Left(current, hdr.rcpts)
  BY <1>1 DEF ScheduleInv, DecidedIsLeft, Deciding
<1>5. /\ header'[current] \in {header[current], hdr.rcpts}
      /\ \A m \in Msgs \ {current} : header'[m] = header[m]
  BY <1>1, <1>2, <1>3
<1>6. CASE /\ index' = [index EXCEPT ![entry.id] = entry]
           /\ header' = header => entry = index[entry.id] \/ header[entry.id] = hdr.rcpts
           /\ progress' = [progress EXCEPT !.state = "MovingEntry"]
  <2>1. progress'.state \notin {"Sending"} \cup Deciding
    BY <1>2, <1>6 DEF ProgressRec, Deciding, LogStates
  <2>2. /\ index'[current] = entry
        /\ \A m \in Msgs \ {current} : index'[m] = index[m]
    BY <1>2, <1>3, <1>6
  <2>3. entry.state = "Resend" => Left(current, header'[current])
    <3>1. CASE header' = header /\ entry = index[current]
      BY <1>2, <1>3, <3>1 DEF ScheduledIsLeft
    <3>2. CASE header'[current] = hdr.rcpts
      BY <1>4, <3>2 DEF CurrentIsScheduled
    <3>. QED BY <1>1, <1>2, <1>3, <1>6, <3>1, <3>2
  <2>4. ScheduledIsLeft'
    BY <1>3, <1>5, <2>2, <2>3 DEF ScheduledIsLeft, Left
  <2>. QED BY <2>1, <2>4, ElsewhereKeepsScheduleInv
<1>7. CASE \E e \in StoreErrors : OutboxAnswers(index, e)
  <2>1. \A m \in Msgs : index[m].state = "Resend" => Left(m, header'[m])
    BY <1>3, <1>4, <1>5 DEF ScheduledIsLeft, CurrentIsScheduled
  <2>. QED BY <1>3, <1>7, <2>1, OutboxAnswersKeepsScheduleInv
<1>. QED BY <1>1, <1>6, <1>7

LEMMA OutboxMovesSentKeepsScheduleInv ==
  ASSUME IInv, IInv', PlaceInv, ScheduleInv, OutboxMovesSent
  PROVE  ScheduleInv'
<1> DEFINE m    == entry.id
           sent == [entry EXCEPT !.connected = FALSE, !.failed = FALSE, !.state = "Sent"]
           gone == [sent EXCEPT !.folder = "Sent"]
<1>1. /\ progress.state = "LogEntryComplete" /\ header' = header
      /\ \/ /\ index' \in {[index EXCEPT ![m] = gone], [index EXCEPT ![m] = sent]}
            /\ progress' = [progress EXCEPT !.state = "MovingEntry"]
         \/ \E e \in StoreErrors : OutboxAnswers(index, e)
         \/ \E e \in StoreErrors : OutboxAnswers([index EXCEPT ![m] = sent], e)
  BY DEF OutboxMovesSent, OutboxRuns
<1>2. m \in Msgs /\ progress \in ProgressRec /\ entry \in EntryRec
  BY <1>1, MovedIsInOutbox
<1>3. index \in [Msgs -> EntryRec] /\ ScheduledIsLeft
  BY DEF IInv, Types, StoreTypes, TypedIndex, ScheduleInv
<1>4. /\ sent.state = "Sent" /\ gone.state = "Sent" /\ sent \in EntryRec
  BY <1>2 DEF EntryRec, SendingStates
<1> HIDE DEF m, sent, gone
<1>5. /\ SchedulesNone(index) /\ SchedulesNone([index EXCEPT ![m] = gone])
      /\ SchedulesNone([index EXCEPT ![m] = sent])
      /\ [index EXCEPT ![m] = sent] \in [Msgs -> EntryRec]
  BY <1>2, <1>3, <1>4 DEF SchedulesNone
<1>6. CASE /\ index' \in {[index EXCEPT ![m] = gone], [index EXCEPT ![m] = sent]}
           /\ progress' = [progress EXCEPT !.state = "MovingEntry"]
  <2>1. progress'.state \notin {"Sending"} \cup Deciding
    BY <1>2, <1>6 DEF ProgressRec, Deciding, LogStates
  <2>2. SchedulesNone(index')
    BY <1>5, <1>6
  <2>. QED BY <1>1, <1>3, <2>1, <2>2, SchedulingNoneKeepsLeft, ElsewhereKeepsScheduleInv
<1>7. ASSUME NEW ix \in [Msgs -> EntryRec], SchedulesNone(ix), NEW e, OutboxAnswers(ix, e)
      PROVE  ScheduleInv'
  <2>1. \A q \in Msgs : ix[q].state = "Resend" => Left(q, header'[q])
    BY <1>1, <1>3, <1>7 DEF SchedulesNone, ScheduledIsLeft
  <2>. QED BY <1>7, <2>1, OutboxAnswersKeepsScheduleInv
<1>. QED BY <1>1, <1>3, <1>5, <1>6, <1>7

LEMMA OutboxRunLKeepsScheduleInv ==
  ASSUME IInv, IInv', PlaceInv, ScheduleInv, OutboxRunL
  PROVE  ScheduleInv'
<1>1. CASE OutboxFails \/ OutboxCompletes
  <2>1. /\ header' = header
        /\ \E e : OutboxAnswers(index, e)
    BY <1>1 DEF OutboxFails, OutboxCompletes
  <2>2. index \in [Msgs -> EntryRec] /\ ScheduledIsLeft
    BY DEF IInv, Types, StoreTypes, TypedIndex, ScheduleInv
  <2>. QED BY <2>1, <2>2, OutboxAnswersKeepsScheduleInv DEF ScheduledIsLeft
<1>2. CASE OutboxSendsNext \/ OutboxMessageDeleted
  BY <1>2, SendNextHeaderKeepsScheduleInv DEF OutboxSendsNext, OutboxMessageDeleted,
     OutboxRuns, Runnable, Done
<1>. QED BY <1>1, <1>2, OutboxSendingDoneKeepsScheduleInv, OutboxReSchedulesKeepsScheduleInv,
         OutboxLogsKeepsScheduleInv, OutboxKeepsUnsentKeepsScheduleInv,
         OutboxMovesSentKeepsScheduleInv DEF OutboxRunL

\* While CSmsSend has the message, or when it lets go of it, the message is
\* not scheduled and only its own header is written.
LEMMA UnscheduledKeepsScheduleInv ==
  ASSUME ScheduleInv, ~CurrentIsScheduled, current \in Msgs, current' = current,
         SchedulesNone(index'), entry'.state # "Resend",
         \A m \in Msgs \ {current} : header'[m] = header[m], OpeningSends'
  PROVE  ScheduleInv'
<1>1. ~CurrentIsScheduled'
  BY DEF CurrentIsScheduled, SchedulesNone
<1>2. ScheduledIsLeft'
  BY <1>1 DEF ScheduleInv, ScheduledIsLeft, CurrentIsScheduled, SchedulesNone, Left
<1>. QED BY <1>1, <1>2 DEF ScheduleInv, DecidedIsLeft, OpenedIsNotScheduled,
         UnopenedHasFailed, Deciding, LogStates

\* CSmsSend at work has a message that it has opened.
LEMMA OpenedIsUnscheduled ==
  ASSUME IInv, ScheduleInv, SendOpened
  PROVE  /\ ~CurrentIsScheduled /\ current \in Msgs /\ entry.id = current /\ hdr.id = current
         /\ progress.state = "Sending"
BY BelowIsAtRest DEF ScheduleInv, OpenedIsNotScheduled, IInv, Shape, SendShape, SendOpened,
   Opened

LEMMA SendIsAtRest ==
  ASSUME IInv, ao' = Answers(ao, "Send", KErrNone)
  PROVE  ~ao'["Send"].active /\ OpeningSends'
BY DEF IInv, Types, WorkTypes, TypedObjects, Objects, Answers, Parent, IdleObject, OpeningSends

\* CSmsSend could not open the message: it marks it with the error.
LEMMA SendFailsKeepsScheduleInv ==
  ASSUME IInv, IInv', PlaceInv, ScheduleInv, SendFails
  PROVE  ScheduleInv'
<1> DEFINE s == Snapshot(index, entry, progress, send, ctx)
           e == ao["Send"].status
<1>1. PICK st \in Stores : Becomes(SendCompleted(s, e, st))
  BY DEF SendFails
<1>2. /\ ao["Send"].active /\ e \notin {KErrNone, KRequestPending}
      /\ ao' = Answers(ao, "Send", KErrNone) /\ UNCHANGED <<header, current>>
  BY DEF SendFails, Runnable
<1>3. /\ progress.state = "Sending" /\ send.state = "OpeningEntry" /\ e \in Errors
      /\ e # KErrCancel /\ CanSendMessage(index[current]) /\ ctx = current
  <2>1. e \in Errors \cup {KRequestPending}
    BY DEF IInv, Types, WorkTypes, TypedObjects, Objects
  <2>2. send.state = "OpeningEntry"
    BY <1>2 DEF IInv, Shape, SendShape
  <2>. QED BY <1>2, <2>1, <2>2, BelowIsAtRest DEF IInv, ScheduleInv, OpeningSends, PlaceInv,
           SendLocks
<1>4. /\ current \in Msgs /\ entry.id = current /\ index[current].folder = "Outbox"
  BY <1>3, SendingPlace
<1>5. TypedSnapshot(s) /\ s.index = index /\ s.entry = entry /\ s.progress = progress
  BY SnapshotNow
<1>6. st \in BOOLEAN
  BY StoresType
<1> HIDE DEF s, e
<1>7. /\ SendCompleted(s, e, st).progress.error = e
      /\ SendCompleted(s, e, st).progress.state = "Sending"
      /\ SendCompleted(s, e, st).entry.state = index[current].state
  BY <1>2, <1>3, <1>4, <1>5, <1>6, SendCompletedTyped
<1>8. /\ SchedulesNone(SendCompleted(s, e, st).index)
      /\ SendCompleted(s, e, st).entry.state = "Resend" => CurrentIsScheduled
  BY <1>3, <1>4, <1>5, SendCompletedSchedulesNone DEF CurrentIsScheduled
<1>9. /\ progress'.error = e /\ progress'.state = "Sending"
      /\ entry'.state = index[current].state /\ SchedulesNone(index')
  BY <1>1, <1>7, <1>8 DEF Becomes
<1>10. ScheduledIsLeft'
  BY <1>2, <1>9, SchedulingNoneKeepsLeft DEF ScheduleInv
<1>11. ~ao'["Send"].active /\ OpeningSends'
  BY <1>2, SendIsAtRest
<1>12. progress'.error # KErrNone /\ entry'.state # "Suspended"
  BY <1>2, <1>3, <1>9 DEF CanSendMessage
<1>. QED BY <1>9, <1>10, <1>11, <1>12 DEF ScheduleInv, DecidedIsLeft, OpenedIsNotScheduled,
         SendOpened, UnopenedHasFailed, Deciding, LogStates

\* CSmsSend ends with an error after it has opened the message.
LEMMA SendCompletesKeepsScheduleInv ==
  ASSUME IInv, ScheduleInv, SendOpened, NEW s, s.index = index, s.entry.id = current,
         s.entry.state # "Resend", NEW e \in Errors, NEW st,
         Becomes(SendCompleted(s, e, st)), current' = current,
         ao' = Answers(ao, "Send", KErrNone), header' = header
  PROVE  ScheduleInv'
<1>1. ~CurrentIsScheduled /\ current \in Msgs
  BY OpenedIsUnscheduled
<1>2. /\ SchedulesNone(SendCompleted(s, e, st).index)
      /\ SendCompleted(s, e, st).entry.state # "Resend"
  BY <1>1, SendCompletedSchedulesNone
<1>3. SchedulesNone(index') /\ entry'.state # "Resend"
  BY <1>2 DEF Becomes
<1>. QED BY <1>1, <1>3, SendIsAtRest, UnscheduledKeepsScheduleInv

LEMMA SendRunLKeepsScheduleInv ==
  ASSUME IInv, IInv', PlaceInv, ScheduleInv, SendRunL
  PROVE  ScheduleInv'
<1>1. CASE SendFails
  BY <1>1, SendFailsKeepsScheduleInv
<1> SUFFICES ASSUME ~SendFails PROVE ScheduleInv'
  BY <1>1
<1>2. /\ SendOpened /\ Done(ao, "Send")
      /\ ~CurrentIsScheduled /\ current \in Msgs /\ entry.id = current /\ hdr.id = current
      /\ UNCHANGED current
  <2>1. SendOpened /\ Done(ao, "Send")
    BY DEF SendRunL, SendNextRecipient, SendAllTried, SendFindsDeleted, SendRecipientDone,
       SendRuns, Runnable, SendOpened, Done
  <2>2. UNCHANGED current
    BY DEF SendRunL, SendNextRecipient, SendAllTried, SendFindsDeleted, SendRecipientDone
  <2>. QED BY <2>1, <2>2, OpenedIsUnscheduled
<1>3. /\ index \in [Msgs -> EntryRec] /\ entry \in EntryRec /\ send \in SendRec
      /\ ao \in TypedObjects /\ header = [m \in Msgs |-> header[m]]
  BY DEF IInv, Types, StoreTypes, TypedIndex, TypedHeaders, MemTypes, WorkTypes
<1>4. entry.state # "Resend" /\ index[current].state # "Resend"
  BY <1>2 DEF CurrentIsScheduled
<1>5. \A en, p, sn, c : /\ Snapshot(index, en, p, sn, c).index = index
                        /\ Snapshot(index, en, p, sn, c).entry = en
  BY SnapshotFields
<1>6. ASSUME NEW en, NEW p, NEW sn, NEW c, en.id = current, en.state # "Resend",
             NEW e \in Errors, NEW st, header' = header, ao' = Answers(ao, "Send", KErrNone),
             Becomes(SendCompleted(Snapshot(index, en, p, sn, c), e, st))
      PROVE  ScheduleInv'
  BY <1>2, <1>5, <1>6, SendCompletesKeepsScheduleInv
<1>7. StoreErrors \subseteq Errors /\ KErrNotFound \in Errors
  BY ErrorsKnown
<1>8. SchedulesNone(index)
  BY DEF SchedulesNone
<1>9. CASE SendNextRecipient
  <2>1. /\ UNCHANGED <<index, header, entry>> /\ send' = [send EXCEPT !.state = "SendingEntry"]
        /\ ao' = Awaits(Awaits(ao, "Send"), "Rcpt")
    BY <1>9 DEF SendNextRecipient, storeVars, memVars
  <2>2. OpeningSends'
    BY <1>3, <2>1 DEF OpeningSends, SendRec, Awaits, TypedObjects, Objects, KErrCancel,
       KRequestPending
  <2>. QED BY <1>2, <1>4, <1>8, <2>1, <2>2, UnscheduledKeepsScheduleInv
<1>10. CASE SendAllTried
  <2> DEFINE done == EntryAfterAllSent(entry, send, progress.rcpCount)
  <2>1. /\ header' = header /\ ao' = Answers(ao, "Send", KErrNone)
        /\ \/ index' = [index EXCEPT ![entry.id] = done] /\ entry' = done
           \/ \E p, sn : \E e \in StoreErrors : \E st :
                Becomes(SendCompleted(Snapshot(index, entry, p, sn, ctx), e, st))
    BY <1>10, Zenon DEF SendAllTried
  <2>2. done.state # "Resend"
    BY <1>3, <1>4, AllTriedSchedulesNone
  <2> HIDE DEF done
  <2>3. CASE index' = [index EXCEPT ![entry.id] = done] /\ entry' = done
    <3>1. SchedulesNone(index')
      BY <1>2, <1>3, <2>2, <2>3 DEF SchedulesNone
    <3>. QED BY <1>2, <2>1, <2>2, <2>3, <3>1, SendIsAtRest, UnscheduledKeepsScheduleInv
  <2>. QED BY <1>2, <1>4, <1>6, <1>7, <2>1, <2>3
<1>11. CASE SendFindsDeleted
  <2>1. /\ header' = header /\ ao' = Answers(ao, "Send", KErrNone)
        /\ \E p, st : Becomes(SendCompleted(Snapshot(index, entry, p, send, ctx),
                                            KErrNotFound, st))
    BY <1>11, Zenon DEF SendFindsDeleted
  <2>. QED BY <1>2, <1>4, <1>6, <1>7, <2>1
<1>12. CASE SendRecipientDone
  <2> DEFINE m   == entry.id
             err == progress.error
             e   == IF err = KErrNone THEN index[m]
                    ELSE [index[m] EXCEPT !.err = err, !.failed = TRUE]
  <2>1. \/ /\ \E rs : header' = [header EXCEPT ![m] = rs]
           /\ \E p : \E sn : /\ sn.state = "UpdatingRecipient"
                             /\ Becomes(Snapshot(index, e, p, sn, m))
           /\ ao' = RunsNext(ao, "Send", KErrNone)
        \/ /\ \E p, sn : \E x \in StoreErrors : \E st :
                Becomes(SendCompleted(Snapshot(index, e, p, sn, m), x, st))
           /\ ao' = Answers(ao, "Send", KErrNone)
           /\ header' = header
    <3> DEFINE fs == IF err # KErrNone /\ progress.rcpCount > 1 THEN err ELSE send.failedStatus
               ns == IF err = KErrNone /\ send.reports THEN send.sentRcpts + 1
                     ELSE send.sentRcpts
               s  == [send EXCEPT !.state = "UpdatingRecipient", !.failedStatus = fs,
                                  !.sentRcpts = ns]
               rs == [hdr.rcpts EXCEPT ![progress.rcpDone + 1] =
                        RecipientAfterSend(@, err, send.reports)]
               p  == [progress EXCEPT !.rcpDone = progress.rcpDone + 1]
    <3>1. \/ /\ header' = [header EXCEPT ![m] = rs]
             /\ Becomes(Snapshot(index, e, p, s, m))
             /\ ao' = RunsNext(ao, "Send", KErrNone)
          \/ /\ \E x \in StoreErrors : \E st \in Stores :
                  Becomes(SendCompleted(Snapshot(index, e, p, s, m), x, st))
             /\ ao' = Answers(ao, "Send", KErrNone)
             /\ header' = header
      BY <1>12, Zenon DEF SendRecipientDone
    <3>2. s.state = "UpdatingRecipient"
      BY <1>3 DEF SendRec
    <3> HIDE DEF s, rs, p, e
    <3>. QED BY <3>1, <3>2, Zenon
  <2>2. e.id = current /\ e.state # "Resend"
    <3>1. index[current].id = current
      BY <1>2 DEF IInv, Types, StoreTypes, TypedIndex
    <3>. QED BY <1>2, <1>3, <1>4, <3>1 DEF EntryRec
  <2> HIDE DEF e
  <2>3. CASE /\ \E rs : header' = [header EXCEPT ![m] = rs]
             /\ \E p : \E sn : /\ sn.state = "UpdatingRecipient"
                               /\ Becomes(Snapshot(index, e, p, sn, m))
             /\ ao' = RunsNext(ao, "Send", KErrNone)
    <3>1. /\ index' = index /\ entry' = e /\ send'.state = "UpdatingRecipient"
          /\ \A q \in Msgs \ {current} : header'[q] = header[q]
      BY <1>2, <1>3, <2>3, SnapshotFields DEF Becomes
    <3>2. OpeningSends'
      BY <1>3, <2>3, <3>1 DEF OpeningSends, RunsNext, TypedObjects, Objects, KErrCancel, KErrNone
    <3>. QED BY <1>2, <1>8, <2>2, <3>1, <3>2, UnscheduledKeepsScheduleInv
  <2>. QED BY <1>6, <1>7, <2>1, <2>2, <2>3
<1>. QED BY <1>9, <1>10, <1>11, <1>12 DEF SendRunL

\* A recipient is logged and sent to; a text message stores the header first.
LEMMA RcptRunLKeepsScheduleInv ==
  ASSUME IInv, IInv', ScheduleInv, RcptRunL
  PROVE  ScheduleInv'
<1>1. RcptMoves /\ Done(ao, "Rcpt")
  BY RcptRunLMoves
<1>2. /\ SendOpened /\ send.state = "SendingEntry" /\ Waits(ao, "Send")
      /\ ~CurrentIsScheduled /\ current \in Msgs /\ entry.id = current /\ hdr.id = current
  <2>1. Waits(ao, "Send") /\ send.state = "SendingEntry"
    BY <1>1, RecipientIsOpened, BelowIsAtRest DEF Done, IInv
  <2>2. SendOpened
    BY <2>1 DEF Waits, SendOpened
  <2>. QED BY <2>1, <2>2, OpenedIsUnscheduled
<1>3. \A m \in Msgs \ {current} : header'[m] = header[m]
  <2>1. header = [q \in Msgs |-> header[q]]
    BY DEF IInv, Types, StoreTypes, TypedHeaders
  <2>2. header' = header \/ \E rs : header' = [header EXCEPT ![current] = rs]
    BY <1>2 DEF RcptRunL, RcptFails, RcptGotLogEvent, RcptWroteLogEvent, RcptSent,
       SendMessageL, storeVars
  <2>. QED BY <2>1, <2>2
<1>4. OpeningSends'
  BY <1>1, <1>2 DEF RcptMoves, OpeningSends, IInv, Types, WorkTypes, TypedObjects, Objects,
     Answers, Awaits, Parent, IdleObject, KErrNone, KErrCancel, Waits, KRequestPending
<1>5. SchedulesNone(index') /\ entry'.state # "Resend" /\ current' = current
  BY <1>1, <1>2 DEF RcptMoves, SchedulesNone, CurrentIsScheduled
<1>. QED BY <1>2, <1>3, <1>4, <1>5, UnscheduledKeepsScheduleInv

\* The logger, the socket, the client, and CSmsSendSession passing on the
\* answer: no message is scheduled by them.
LEMMA OthersKeepScheduleInv ==
  ASSUME IInv, IInv', PlaceInv, ScheduleInv,
         Services \/ ClientStep \/ UNCHANGED vars \/ SessionRuns
  PROVE  ScheduleInv'
<1>1. /\ UNCHANGED <<header, entry, hdr, current, send>>
      /\ ao \in TypedObjects /\ index \in [Msgs -> EntryRec]
  BY DEF Services, LoggerCompletes, SocketCompletes, ClientStep, vars, SessionRuns, memVars,
     storeVars, IInv, Types, WorkTypes, StoreTypes, TypedIndex
<1>2. SchedulesNone(index')
  BY <1>1 DEF SchedulesNone, Services, LoggerCompletes, SocketCompletes, ClientStep, vars,
     SessionRuns, storeVars, Suspend, Resume, Delete, DateArrives, EntryRec, NullEntry
<1>3. ScheduledIsLeft'
  BY <1>1, <1>2, SchedulingNoneKeepsLeft DEF ScheduleInv
<1>4. progress'.state = progress.state
      /\ (progress.error # KErrNone => progress'.error # KErrNone)
  <2>1. CASE SessionRuns
    <3>1. progress \in ProgressRec
      BY DEF IInv, Types, WorkTypes
    <3>. QED BY <2>1, <3>1 DEF SessionRuns, ProgressRec
  <2>. QED BY <2>1 DEF Services, LoggerCompletes, SocketCompletes, ClientStep, vars
<1>5. ao'["Send"] = ao["Send"] \/ (SessionRuns /\ ~ao'["Send"].active /\ ~ao["Send"].active)
  <2>1. CASE SessionRuns
    <3>1. ~ao["Send"].active /\ ao' = Answers(ao, "Session", KErrNone)
      BY <2>1, BelowIsAtRest DEF SessionRuns, Runnable, Done, IInv
    <3>. QED BY <1>1, <2>1, <3>1 DEF Answers, Parent, TypedObjects, Objects
  <2>. QED BY <1>1, <2>1 DEF Services, LoggerCompletes, SocketCompletes, ClientStep, vars,
           TypedObjects, Objects
<1>6. progress.state \in {"Sending"} \cup Deciding => current \in Msgs
  BY DEF IInv, Shape, SendingShape, LogShape, Deciding
<1>7. current \in Msgs /\ CurrentIsScheduled' => CurrentIsScheduled
  BY <1>1, <1>2 DEF CurrentIsScheduled, SchedulesNone
<1>8. DecidedIsLeft' /\ UnopenedHasFailed'
  BY <1>1, <1>4, <1>5, <1>6, <1>7 DEF ScheduleInv, DecidedIsLeft, UnopenedHasFailed, Left
<1>9. OpenedIsNotScheduled'
  <2>1. SendOpened' => SendOpened
    BY <1>5 DEF SendOpened
  <2>. QED BY <1>7, <2>1, OpenedIsUnscheduled DEF OpenedIsNotScheduled
<1>10. OpeningSends'
  <2> SUFFICES ASSUME ao'["Send"].active
               PROVE  /\ ao'["Send"].status # KErrCancel
                      /\ send.state = "OpeningEntry" => CanSendMessage(index'[current])
    BY <1>1 DEF OpeningSends
  <2>1. ao'["Send"] = ao["Send"] /\ ~SessionRuns
    BY <1>5, BelowIsAtRest DEF SessionRuns, Runnable, Done, IInv
  <2>2. CASE send.state = "OpeningEntry"
    <3>1. ctx = current
      BY <2>1, <2>2 DEF PlaceInv, SendLocks
    <3>2. progress.state = "Sending"
      BY <2>1, BelowIsAtRest DEF IInv
    <3>3. index'[current] = index[current]
      <4>1. CASE ClientStep
        <5>1. PICK m \in Msgs : Suspend(m) \/ Resume(m) \/ Delete(m) \/ DateArrives(m)
          BY <4>1 DEF ClientStep
        <5>2. ~DateArrives(m)
          BY <2>1, BelowIsAtRest DEF IInv, DateArrives, Objects
        <5>3. m # current
          BY <3>1, <5>1, <5>2 DEF Suspend, Resume, Delete, ClientMay
        <5>4. \E e : index' = [index EXCEPT ![m] = e]
          BY <5>1, <5>2 DEF Suspend, Resume, Delete
        <5>. QED BY <1>1, <1>6, <3>2, <5>3, <5>4
      <4>2. CASE Services \/ UNCHANGED vars
        BY <4>2 DEF Services, LoggerCompletes, SocketCompletes, vars, storeVars
      <4>. QED BY <2>1, <4>1, <4>2
    <3>. QED BY <2>1, <3>3 DEF ScheduleInv, OpeningSends
  <2>. QED BY <2>1, <2>2 DEF ScheduleInv, OpeningSends
<1>. QED BY <1>3, <1>8, <1>9, <1>10 DEF ScheduleInv

\* Cancelling CSmsSendSession, and with it CSmsSend, schedules nothing.
LEMMA SessionCancelledSchedulesNone ==
  ASSUME IInv, PlaceInv, progress.state = "Sending", NEW st
  PROVE  /\ SchedulesNone(SessionCancelled(st).index)
         /\ SessionCancelled(st).entry.state = "Resend" => CurrentIsScheduled
         /\ ~ao["Send"].active => /\ SessionCancelled(st).index = index
                                  /\ SessionCancelled(st).entry = entry
<1> DEFINE p1 == IF ao["Rcpt"].active THEN [progress EXCEPT !.error = KErrCancel] ELSE progress
           s1 == Snapshot(index, entry, p1, send, ctx)
           s2 == IF ao["Send"].active THEN SendCompleted(s1, KErrCancel, st) ELSE s1
           p2 == [s2.progress EXCEPT !.error = IF @ = KErrNone THEN KErrCancel ELSE @]
<1>1. s1.index = index /\ s1.entry = entry
  BY SnapshotFields
<1>2. current \in Msgs /\ entry.id = current
  BY SendingPlace
<1>3. KErrCancel \in Errors
  BY ErrorsKnown
<1> HIDE DEF s1
<1>4. /\ SchedulesNone(s2.index)
      /\ s2.entry.state = "Resend" => CurrentIsScheduled
      /\ ~ao["Send"].active => s2.index = index /\ s2.entry = entry
  <2>1. SchedulesNone(index) /\ (entry.state = "Resend" => CurrentIsScheduled)
    BY DEF SchedulesNone, CurrentIsScheduled
  <2>2. /\ SchedulesNone(SendCompleted(s1, KErrCancel, st).index)
        /\ SendCompleted(s1, KErrCancel, st).entry.state = "Resend" => CurrentIsScheduled
    BY <1>1, <1>2, <1>3, <2>1, SendCompletedSchedulesNone
  <2>. QED BY <1>1, <2>1, <2>2
<1> HIDE DEF s2
<1>5. SessionCancelled(st) =
        IF ao["Session"].active THEN Snapshot(s2.index, s2.entry, p2, s2.send, s2.ctx) ELSE s1
  BY Zenon DEF SessionCancelled, s2, s1
<1> HIDE DEF p2
<1>6. SchedulesNone(index) /\ (entry.state = "Resend" => CurrentIsScheduled)
  BY DEF SchedulesNone, CurrentIsScheduled
<1>. QED BY <1>1, <1>4, <1>5, <1>6, SnapshotFields

LEMMA PollKeepsScheduleInv ==
  ASSUME IInv, IInv', PlaceInv, ScheduleInv, ProgressPoll
  PROVE  ScheduleInv'
<1>1. PICK st \in Stores : Becomes(SessionCancelled(st))
  BY DEF ProgressPoll
<1>2. /\ progress.state = "Sending" /\ ao["Session"].active /\ UNCHANGED <<header, current>>
      /\ ~Exists(current) \/ index[current].state = "Suspended"
  BY DEF ProgressPoll
<1>3. current \in Msgs
  BY <1>2, SendingPlace
<1>4. /\ SchedulesNone(index')
      /\ entry'.state = "Resend" => CurrentIsScheduled
      /\ ~ao["Send"].active => index' = index /\ entry' = entry
  BY <1>1, <1>2, SessionCancelledSchedulesNone DEF Becomes
<1>5. ~ao'["Send"].active
  BY DEF ProgressPoll, IdleObject, IInv, Types, WorkTypes, TypedObjects, Objects
<1>6. progress'.error # KErrNone /\ progress'.state = "Sending"
  BY <1>1, <1>2, SessionCancelledPlaces, StoresType DEF Becomes
<1>7. ScheduledIsLeft'
  BY <1>2, <1>4, SchedulingNoneKeepsLeft DEF ScheduleInv
<1>8. CurrentIsScheduled' => CurrentIsScheduled
  BY <1>2, <1>3, <1>4 DEF CurrentIsScheduled, SchedulesNone
<1>9. ~(ao["Send"].active /\ CurrentIsScheduled)
  <2> SUFFICES ASSUME ao["Send"].active, CurrentIsScheduled PROVE FALSE
    OBVIOUS
  <2>1. ~SendOpened
    BY DEF ScheduleInv, OpenedIsNotScheduled
  <2>2. send.state = "OpeningEntry"
    BY <2>1 DEF SendOpened, IInv, Shape, SendShape
  <2>3. CanSendMessage(index[current]) /\ ctx = current
    BY <2>2 DEF ScheduleInv, OpeningSends, PlaceInv, SendLocks
  <2>4. Exists(current)
    BY <1>2, <2>3, SendingPlace, StoreAssumption DEF Exists
  <2>. QED BY <1>2, <2>3, <2>4 DEF CanSendMessage
<1>10. UnopenedHasFailed'
  BY <1>2, <1>4, <1>6, <1>8, <1>9 DEF ScheduleInv, UnopenedHasFailed
<1>. QED BY <1>5, <1>6, <1>7, <1>10 DEF ScheduleInv, DecidedIsLeft, OpenedIsNotScheduled,
         SendOpened, OpeningSends, Deciding, LogStates

LEMMA MtmKeepsScheduleInv ==
  ASSUME IInv, IInv', PlaceInv, ScheduleInv, MtmRuns \/ MtmCancel
  PROVE  ScheduleInv'
<1>1. progress'.state = "Waiting" /\ header' = header
  BY DEF MtmRuns, MtmCancel, CompletesCommand, NewProgress, storeVars
<1>2. index \in [Msgs -> EntryRec] /\ SchedulesNone(index) /\ ScheduledIsLeft
  BY DEF IInv, Types, StoreTypes, TypedIndex, SchedulesNone, ScheduleInv
<1>3. SchedulesNone(index')
  <2>1. CASE MtmRuns
    BY <1>2, <2>1 DEF MtmRuns, storeVars
  <2>2. CASE MtmCancel
    <3>1. PICK st \in Stores :
            index' = IF ~ao["Outbox"].active THEN index
                     ELSE FailOutstanding(
                            IF progress.state = "Sending" THEN SessionCancelled(st).index
                                                          ELSE index,
                            selection, KErrCancel, "Suspended")
      BY <2>2 DEF MtmCancel
    <3> DEFINE ix == IF progress.state = "Sending" THEN SessionCancelled(st).index ELSE index
    <3>2. SchedulesNone(ix) /\ ix \in [Msgs -> EntryRec]
      BY <1>2, SessionCancelledSchedulesNone, SessionCancelledTyped, StoresType
         DEF TypedSnapshot, TypedIndex
    <3>3. index' = IF ~ao["Outbox"].active THEN index
                   ELSE FailOutstanding(ix, selection, KErrCancel, "Suspended")
      BY <3>1
    <3> HIDE DEF ix
    <3>. QED BY <1>2, <3>2, <3>3, FailingSchedulesNone
  <2>. QED BY <2>1, <2>2
<1>. QED BY <1>1, <1>2, <1>3, SchedulingNoneKeepsLeft, ElsewhereKeepsScheduleInv
         DEF Deciding, LogStates

LEMMA StepKeepsScheduleInv ==
  ASSUME IInv, IInv', PlaceInv, ScheduleInv, [Next]_vars
  PROVE  ScheduleInv'
BY RequestKeepsScheduleInv, OutboxRunLKeepsScheduleInv, SendRunLKeepsScheduleInv,
   RcptRunLKeepsScheduleInv, OthersKeepScheduleInv, PollKeepsScheduleInv, MtmKeepsScheduleInv
   DEF Next

LEMMA InitScheduleInv == Init => ScheduleInv
<1> SUFFICES ASSUME Init PROVE ScheduleInv
  OBVIOUS
<1>1. /\ header = [m \in Msgs |-> [i \in 1 .. RcpCount[m] |-> NewRcpt]]
      /\ ao = [o \in Objects |-> IdleObject] /\ progress = NewProgress
  BY Zenon DEF Init
<1>2. ~ao["Send"].active /\ progress.state = "Waiting"
  BY <1>1, IdleFields DEF Objects, NewProgress
<1>3. ASSUME NEW m \in Msgs PROVE Left(m, header[m])
  BY <1>1, StoreAssumption, NewRcptType DEF Left
<1>. QED BY <1>2, <1>3 DEF ScheduleInv, ScheduledIsLeft, DecidedIsLeft, OpenedIsNotScheduled,
         UnopenedHasFailed, OpeningSends, SendOpened, Deciding, LogStates

LEMMA SpecKeepsScheduleInv == Spec => [](IInv /\ SentInv /\ PlaceInv /\ StateInv /\ ScheduleInv)
<1>1. Init => ScheduleInv
  BY InitScheduleInv
<1>2. IInv /\ IInv' /\ PlaceInv /\ ScheduleInv /\ [Next]_vars => ScheduleInv'
  BY StepKeepsScheduleInv
<1>. QED BY <1>1, <1>2, SpecKeepsStateInv, PTL DEF Spec

\* A message is scheduled only as long as a recipient of it is unsent: every
\* record of a sent recipient is made while the message is not scheduled, and
\* the scheduler and MoveEntryL write the entry and the header together.
THEOREM ScheduledIsUnsent == Spec => []ScheduledHasUnsentRecipient
<1>1. ScheduleInv => ScheduledHasUnsentRecipient
  BY DEF ScheduleInv, ScheduledIsLeft, Left, ScheduledHasUnsentRecipient
<1>. QED BY <1>1, SpecKeepsScheduleInv, PTL

-----------------------------------------------------------------------------
(* The queue                                                               *)

Queued(m, q) == \E j \in 1 .. Len(q) : q[j] = m

\* A queue is a permutation of all the messages that are accepted.
LEMMA QueuesAreComplete ==
  ASSUME NEW all \in SUBSET Msgs, NEW sel, NEW q \in Queues(sel, Accepted(all))
  PROVE  \A m : m \in Accepted(all) <=> Queued(m, q)
<1> DEFINE acc == Accepted(all)
           D   == 1 .. Cardinality(acc)
<1>1. acc \subseteq Msgs /\ IsFiniteSet(acc) /\ Cardinality(acc) \in Nat
  BY ChosenAreMessages, StoreAssumption, FS_Subset, FS_CardinalityType
<1>2. q \in SetToSeqs(acc) /\ q \in Seq(Msgs)
  BY <1>1, QueuesTyped DEF Queues
<1> HIDE DEF acc
<1>3. q \in [D -> acc] /\ \A i, j \in D : i # j => q[i] # q[j]
  BY <1>2 DEF SetToSeqs
<1>4. D = 1 .. Len(q)
  <2>1. DOMAIN q = D /\ DOMAIN q = 1 .. Len(q)
    BY <1>2, <1>3
  <2>. QED BY <2>1
<1>5. \A j \in 1 .. Len(q) : q[j] \in acc
  BY <1>3, <1>4
<1>6. ASSUME NEW m \in acc, \A j \in D : q[j] # m
      PROVE  FALSE
  <2>1. IsFiniteSet(D) /\ Cardinality(D) = Cardinality(acc)
    BY <1>1, FS_Interval
  <2>2. IsFiniteSet(acc \ {m}) /\ Cardinality(acc \ {m}) = Cardinality(acc) - 1
    BY <1>1, FS_RemoveElement
  <2>3. q \in [D -> acc \ {m}]
    BY <1>3, <1>6
  <2> HIDE DEF D
  <2>4. \E i, j \in D : i # j /\ q[i] = q[j]
    <3>1. Cardinality(acc \ {m}) < Cardinality(D)
      BY <1>1, <2>1, <2>2
    <3>. QED BY <2>1, <2>2, <2>3, <3>1, FS_PigeonHole
  <2>. QED BY <1>3, <2>4
<1>7. \A m : m \in acc <=> Queued(m, q)
  BY <1>4, <1>5, <1>6 DEF Queued
<1>. QED BY <1>7 DEF acc

LEMMA TakingUpSends ==
  ASSUME NEW m \in Msgs, NEW p \in ProgressRec, p.state = "Sending", TakesUp(m, p)
  PROVE  progress'.state = "Sending"
<1>1. RcpCount[m] \in Nat
  BY StoreAssumption
<1>2. progress' = p \/ progress' = Counts(p, 0, RcpCount[m])
  <2>1. CASE OpensEntry(m, p) \/ OpenCannotChange(m, p)
    BY <2>1, Zenon DEF OpensEntry, OpenCannotChange, Counts
  <2>2. CASE OpenFindsNoRecipient(m, p)
    BY <2>2, Zenon DEF OpenFindsNoRecipient, Counts
  <2>3. CASE OpenCannotRead(m, p)
    BY <2>3, Zenon DEF OpenCannotRead
  <2>. QED BY <2>1, <2>2, <2>3 DEF TakesUp
<1>. QED BY <1>1, <1>2, ProgressCounts

\* SendNextHeaderL takes a message of the queue, or there is none left. What
\* it passes over has been deleted or cannot be sent any more.
LEMMA QueueIsTaken ==
  ASSUME IInv, SendNextHeaderL
  PROVE  /\ \/ progress'.state = "Complete" /\ queue' = <<>>
            \/ progress'.state = "Sending" /\ Queued(current', queue)
         /\ \A m : Queued(m, queue) =>
              \/ Queued(m, queue')
              \/ ~Exists(m) \/ ~CanSendMessage(index[m])
              \/ current' = m /\ progress'.state = "Sending"
         /\ \A m : Queued(m, queue') => Queued(m, queue)
<1> DEFINE sendable == {i \in 0 .. Len(queue) - 1 : /\ Exists(queue[i + 1])
                                                    /\ CanSendMessage(index[queue[i + 1]])}
           n == Len(queue)
           k == FirstFrom(0, Len(queue), sendable)
           p == [progress EXCEPT !.msgDone = @ + k + 1]
           q == [p EXCEPT !.state = "Sending"]
<1>1. queue \in Seq(Msgs) /\ n \in Nat /\ progress \in ProgressRec
  BY DEF IInv, Types, WorkTypes
<1>2. k \in 0 .. n /\ \A i \in 0 .. k - 1 : i \notin sendable
  <2> HIDE DEF sendable
  <2>. QED BY <1>1, FirstFromRange
<1>3. \A i \in 1 .. k : ~Exists(queue[i]) \/ ~CanSendMessage(index[queue[i]])
  <2> SUFFICES ASSUME NEW i \in 1 .. k
               PROVE  ~Exists(queue[i]) \/ ~CanSendMessage(index[queue[i]])
    OBVIOUS
  <2> HIDE DEF k
  <2>1. i - 1 \in 0 .. k - 1 /\ i - 1 \in 0 .. n - 1 /\ i - 1 + 1 = i
    BY <1>1, <1>2
  <2>. QED BY <1>2, <2>1
<1>4. queue' = SubSeq(queue, k + 2, Len(queue))
  BY DEF SendNextHeaderL, k
<1>5. p \in ProgressRec /\ q \in ProgressRec /\ q.state = "Sending"
      /\ [p EXCEPT !.state = "Complete"].state = "Complete"
  <2>1. p \in ProgressRec
    <3> HIDE DEF k
    <3>. QED BY <1>1, <1>2 DEF ProgressRec
  <2>2. "Sending" \in OutboxStates
    BY DEF OutboxStates
  <2> HIDE DEF p
  <2>. QED BY <2>1, <2>2 DEF ProgressRec
<1> HIDE DEF k
<1>6. /\ Len(queue') = IF k < Len(queue) THEN Len(queue) - k - 1 ELSE 0
      /\ \A j \in 1 .. Len(queue') :
           j + k + 1 \in 1 .. Len(queue) /\ queue'[j] = queue[j + k + 1]
  BY <1>1, <1>2, <1>4, QueueRest
<1>7. \A m : Queued(m, queue') => Queued(m, queue)
  BY <1>6 DEF Queued
<1>8. CASE k < n
  <2>1. ~(k = Len(queue))
    BY <1>1, <1>2, <1>8
  <2>2. /\ \/ OpensEntry(queue[k + 1], q) \/ OpenFindsNoRecipient(queue[k + 1], q)
           \/ OpenCannotChange(queue[k + 1], q) \/ OpenCannotRead(queue[k + 1], q)
        /\ current' = queue[k + 1]
    BY <2>1, Zenon DEF SendNextHeaderL, k, p, q
  <2>3. k + 1 \in 1 .. n /\ queue[k + 1] \in Msgs
    BY <1>1, <1>2, <1>8
  <2> HIDE DEF q
  <2>4. progress'.state = "Sending"
    BY <1>5, <2>2, <2>3, TakingUpSends DEF TakesUp
  <2>5. ASSUME NEW j \in 1 .. n, j > k + 1 PROVE Queued(queue[j], queue')
    <3>1. j - k - 1 \in 1 .. Len(queue') /\ (j - k - 1) + k + 1 = j
      BY <1>1, <1>2, <1>6, <1>8, <2>5
    <3>. QED BY <1>6, <3>1 DEF Queued
  <2>6. \A j \in 1 .. n : j \in 1 .. k \/ j = k + 1 \/ j > k + 1
    BY <1>1, <1>2
  <2>7. Queued(current', queue)
    BY <2>2, <2>3 DEF Queued
  <2>8. ASSUME NEW m, Queued(m, queue)
        PROVE  \/ Queued(m, queue')
               \/ ~Exists(m) \/ ~CanSendMessage(index[m])
               \/ current' = m /\ progress'.state = "Sending"
    <3>1. PICK j \in 1 .. n : queue[j] = m
      BY <2>8 DEF Queued
    <3>. QED BY <1>3, <2>2, <2>4, <2>5, <2>6, <3>1
  <2>. QED BY <1>7, <2>4, <2>7, <2>8
<1>9. CASE ~(k < n)
  <2>1. k = n
    BY <1>1, <1>2, <1>9
  <2>2. progress' = [p EXCEPT !.state = "Complete"]
    BY <1>9, Zenon DEF SendNextHeaderL, k, p
  <2> HIDE DEF p
  <2>3. progress'.state = "Complete"
    BY <1>5, <2>2
  <2>4. queue' = <<>>
    <3>1. queue' \in Seq(Msgs)
      BY <1>1, <1>4, <2>1
    <3>. QED BY <1>6, <1>9, <3>1
  <2>5. \A m : Queued(m, queue) => ~Exists(m) \/ ~CanSendMessage(index[m])
    BY <1>3, <2>1 DEF Queued
  <2>. QED BY <1>7, <2>3, <2>4, <2>5
<1>. QED BY <1>8, <1>9
-----------------------------------------------------------------------------
(* What the outbox sender decides on                                       *)

Working == {"Sending"} \cup Deciding

\* The message that CSmsSend lets go of is still locked, so that the outbox
\* sender decides on the entry in memory and does not read it again.
StaysLocked ==
  progress.state = "Sending" /\ ~ao["Send"].active /\ Exists(current) => ctx = current

NoErrorMeansDone ==
  progress.state = "Sending" /\ ~ao["Send"].active /\ progress.error = KErrNone
    => entry.failed \/ entry.state \in {"Sent", "Suspended"}

\* What MoveEntryL stores is neither waiting nor being sent.
DecidedIsFinal ==
  progress.state \in Deciding => entry.state \in {"Sent", "Suspended", "Resend", "Failed"}

FromSelection ==
  /\ \A m : Queued(m, queue) => m \in selection
  /\ progress.state \in Working => current \in selection

SettleInv == StaysLocked /\ NoErrorMeansDone /\ DecidedIsFinal /\ FromSelection

LEMMA ElsewhereKeepsSettleInv ==
  ASSUME progress'.state \notin Working, \A m : Queued(m, queue') => m \in selection'
  PROVE  SettleInv'
BY DEF SettleInv, StaysLocked, NoErrorMeansDone, DecidedIsFinal, FromSelection, Queued,
   Working

\* A step on the message that was already being sent or decided on.
LEMMA SameMessageKeepsSettleInv ==
  ASSUME SettleInv, UNCHANGED <<queue, selection, current>>,
         progress'.state \in Working => progress.state \in Working,
         StaysLocked', NoErrorMeansDone', DecidedIsFinal'
  PROVE  SettleInv'
BY DEF SettleInv, FromSelection, Queued

\* CSmsSend goes on with the message.
LEMMA SendingOnKeepsSettleInv ==
  ASSUME SettleInv, UNCHANGED <<queue, selection, current>>,
         progress.state = "Sending", progress'.state = "Sending", ao'["Send"].active
  PROVE  SettleInv'
BY SameMessageKeepsSettleInv
   DEF StaysLocked, NoErrorMeansDone, DecidedIsFinal, Working, Deciding, LogStates

\* CSmsSend is at rest, or comes to rest, with an error.
LEMMA FailedKeepsSettleInv ==
  ASSUME SettleInv, UNCHANGED <<queue, selection, current>>,
         progress.state = "Sending", progress'.state = "Sending",
         Exists(current)' => ctx' = current, progress'.error # KErrNone
  PROVE  SettleInv'
<1>1. StaysLocked' /\ NoErrorMeansDone' /\ DecidedIsFinal'
  BY DEF StaysLocked, NoErrorMeansDone, DecidedIsFinal, Deciding, LogStates
<1>. QED BY <1>1, SameMessageKeepsSettleInv DEF Working

LEMMA DecidingKeepsSettleInv ==
  ASSUME SettleInv, UNCHANGED <<queue, selection, current>>,
         progress.state \in Working, progress'.state \in Deciding,
         entry'.state \in {"Sent", "Suspended", "Resend", "Failed"}
  PROVE  SettleInv'
<1>1. progress'.state # "Sending"
  BY DEF Deciding, LogStates
<1>2. StaysLocked' /\ NoErrorMeansDone' /\ DecidedIsFinal'
  BY <1>1 DEF StaysLocked, NoErrorMeansDone, DecidedIsFinal
<1>. QED BY <1>2, SameMessageKeepsSettleInv

LEMMA RequestKeepsSettleInv ==
  ASSUME IInv, PlaceInv, Request
  PROVE  SettleInv'
<1>1. PICK sel \in SUBSET Msgs :
        \/ StartSend(sel)
        \/ StartFindsNothing(sel)
        \/ \E err \in StoreErrors \cup {KErrNone} :
             \E done \in SUBSET Accepted(sel \cup Found(sel)) :
               StartReSchedules(sel, err, done)
        \/ \E e \in StoreErrors : \E found \in SUBSET Found(sel) :
             \E done \in SUBSET (sel \cup found) : StartFails(sel, e, found, done)
  BY RequestCases
<1>2. \/ queue' = <<>>
      \/ /\ queue' \in Queues(sel, Accepted(sel \cup Found(sel)))
         /\ selection' = Accepted(sel \cup Found(sel))
  <2>1. CASE StartSend(sel)
    BY <2>1, Zenon DEF StartSend
  <2>2. CASE StartFindsNothing(sel)
    BY <2>2, Zenon DEF StartFindsNothing
  <2>3. ASSUME NEW err, NEW done, StartReSchedules(sel, err, done)
        PROVE  /\ queue' \in Queues(sel, Accepted(sel \cup Found(sel)))
               /\ selection' = Accepted(sel \cup Found(sel))
    BY <2>3, Zenon DEF StartReSchedules
  <2>4. ASSUME NEW e, NEW found, NEW done, StartFails(sel, e, found, done)
        PROVE  queue' = <<>>
    BY <2>4, Zenon DEF StartFails
  <2>. QED BY <1>1, <2>1, <2>2, <2>3, <2>4
<1>3. sel \cup Found(sel) \in SUBSET Msgs
  BY ChosenAreMessages
<1>4. \A m : Queued(m, queue') => m \in selection'
  BY <1>2, <1>3, QueuesAreComplete DEF Queued
<1>. QED BY <1>4, RequestPlaces, ElsewhereKeepsSettleInv DEF Working, Deciding, LogStates

LEMMA AnsweringWaits ==
  ASSUME IInv, NEW ix, NEW e, OutboxAnswers(ix, e)
  PROVE  progress'.state = "Waiting"
<1>1. progress \in ProgressRec
  BY DEF IInv, Types, WorkTypes
<1>2. \E err : progress' = [progress EXCEPT !.state = "Waiting", !.error = err]
  BY Zenon DEF OutboxAnswers
<1>. QED BY <1>1, <1>2 DEF ProgressRec

LEMMA LeavingKeepsSettleInv ==
  ASSUME SettleInv, UNCHANGED <<queue, selection>>, progress'.state \in {"Waiting", "MovingEntry"}
  PROVE  SettleInv'
BY ElsewhereKeepsSettleInv DEF SettleInv, FromSelection, Queued, Working, Deciding, LogStates

LEMMA SendNextHeaderKeepsSettleInv ==
  ASSUME IInv, PlaceInv, SettleInv, Done(ao, "Outbox"), SendNextHeaderL
  PROVE  SettleInv'
<1>1. selection' = selection
  BY DEF SendNextHeaderL, outVars
<1>2. \A m : Queued(m, queue') => m \in selection'
  BY <1>1, QueueIsTaken DEF SettleInv, FromSelection
<1>3. CASE progress'.state = "Complete"
  BY <1>2, <1>3, ElsewhereKeepsSettleInv DEF Working, Deciding, LogStates
<1>4. CASE progress'.state = "Sending" /\ Queued(current', queue)
  <2>1. PICK m \in Msgs : \E p \in ProgressRec : TakesUp(m, p)
    BY <1>4, NextMessage
  <2>2. PICK err \in Errors : ao' = ChainStarts(err)
    BY <2>1, ErrorsKnown DEF TakesUp, OpensEntry, OpenFindsNoRecipient, OpenCannotChange,
       OpenCannotRead, KErrNone, KErrNotFound
  <2>3. ao'["Send"].active
    <3>1. ChainStarts(err)["Send"] = [active |-> TRUE, status |-> err, report |-> TRUE]
      BY ChainStartsTyped
    <3>. QED BY <2>2, <3>1
  <2>4. current' \in selection'
    BY <1>1, <1>4 DEF SettleInv, FromSelection
  <2>. QED BY <1>2, <1>4, <2>3, <2>4 DEF SettleInv, StaysLocked, NoErrorMeansDone,
           DecidedIsFinal, FromSelection, Queued, Deciding, LogStates
<1>. QED BY <1>3, <1>4, QueueIsTaken

LEMMA ReScheduledIsFinal ==
  ASSUME NEW e \in EntryRec, NEW rs, NEW act
  PROVE  ReScheduledEntry(e, rs, act).state \in {"Sent", "Resend", "Failed"}
BY DEF ReScheduledEntry, EntryRec

\* SendingCompleteL: the entry has no error, so that it was sent or suspended.
LEMMA OutboxSendingDoneKeepsSettleInv ==
  ASSUME IInv, PlaceInv, SettleInv, OutboxSendingDone
  PROVE  SettleInv'
<1>1. /\ progress.state = "Sending" /\ Done(ao, "Outbox")
      /\ ctx = entry.id \/ Exists(entry.id)
      /\ ~(JudgedEntry.failed /\ JudgedEntry.state # "Suspended")
      /\ entry' = [JudgedEntry EXCEPT !.scheduled = FALSE]
      /\ progress' = [progress EXCEPT !.state = "ReScheduling"]
      /\ UNCHANGED <<queue, selection, current>>
  BY DEF OutboxSendingDone, OutboxRuns, Runnable, Done, outVars
<1>2. /\ current \in Msgs /\ entry.id = current /\ JudgedEntry \in EntryRec
      /\ entry \in EntryRec /\ progress \in ProgressRec
  BY <1>1, JudgedTyped DEF IInv, Types, MemTypes, WorkTypes
<1>3. ~ao["Send"].active
  BY <1>1, BelowIsAtRest DEF IInv
<1>4. ctx = entry.id
  BY <1>1, <1>2, <1>3 DEF SettleInv, StaysLocked
<1>5. progress'.state \in Deciding /\ progress.state \in Working
  BY <1>1, <1>2 DEF ProgressRec, Deciding, Working
<1>6. /\ JudgedEntry.state = entry.state
      /\ progress.error # KErrNone \/ entry.failed => JudgedEntry.failed
  BY <1>2, <1>4 DEF JudgedEntry, EntryRec
<1>7. entry'.state = JudgedEntry.state
  BY <1>1, <1>2 DEF EntryRec
<1>8. entry.state \in {"Sent", "Suspended"}
  BY <1>1, <1>3, <1>6 DEF SettleInv, NoErrorMeansDone
<1>. QED BY <1>1, <1>5, <1>6, <1>7, <1>8, DecidingKeepsSettleInv

LEMMA OutboxReSchedulesKeepsSettleInv ==
  ASSUME IInv, PlaceInv, SettleInv, OutboxReSchedules
  PROVE  SettleInv'
<1> DEFINE m  == entry.id
           ix == [index EXCEPT ![m] = ReScheduledEntry(@, header[m], ListedActions(header[m]))]
<1>1. /\ progress.state = "Sending" /\ UNCHANGED <<queue, selection, current>>
      /\ ctx = entry.id \/ Exists(entry.id)
      /\ \/ /\ entry' = ix[m] /\ progress' = [progress EXCEPT !.state = "ReScheduling"]
         \/ \E e : OutboxAnswers(index, e)
         \/ \E e : OutboxAnswers(ix, e)
  BY Zenon DEF OutboxReSchedules, OutboxRuns, outVars
<1>2. m \in Msgs /\ index \in [Msgs -> EntryRec] /\ progress \in ProgressRec
  BY <1>1, SendingIsInOutbox DEF IInv, Types, StoreTypes, TypedIndex, WorkTypes
<1>3. ix[m].state \in {"Sent", "Resend", "Failed"}
  <2> DEFINE e == ReScheduledEntry(index[m], header[m], ListedActions(header[m]))
  <2>1. e.state \in {"Sent", "Resend", "Failed"}
    BY <1>2, ReScheduledIsFinal
  <2> HIDE DEF e
  <2>2. ix[m] = e
    BY <1>2 DEF e
  <2>. QED BY <2>1, <2>2
<1> HIDE DEF m, ix
<1>4. CASE entry' = ix[m] /\ progress' = [progress EXCEPT !.state = "ReScheduling"]
  <2>1. progress'.state \in Deciding /\ progress.state \in Working
    BY <1>1, <1>2, <1>4 DEF ProgressRec, Deciding, Working
  <2>. QED BY <1>1, <1>3, <1>4, <2>1, DecidingKeepsSettleInv
<1>5. ASSUME NEW jx, NEW e, OutboxAnswers(jx, e) PROVE SettleInv'
  BY <1>1, <1>5, AnsweringWaits, LeavingKeepsSettleInv
<1>. QED BY <1>1, <1>4, <1>5

LEMMA OutboxMovesKeepsSettleInv ==
  ASSUME IInv, PlaceInv, SettleInv, OutboxMovesSent \/ OutboxKeepsUnsent
  PROVE  SettleInv'
<1>1. /\ UNCHANGED <<queue, selection>>
      /\ \/ progress' = [progress EXCEPT !.state = "MovingEntry"]
         \/ \E ix, e : OutboxAnswers(ix, e)
  <2>1. CASE OutboxMovesSent
    BY <2>1, Zenon DEF OutboxMovesSent, outVars
  <2>2. CASE OutboxKeepsUnsent
    BY <2>2, Zenon DEF OutboxKeepsUnsent, outVars
  <2>. QED BY <2>1, <2>2
<1>2. progress'.state \in {"Waiting", "MovingEntry"}
  <2>1. progress \in ProgressRec
    BY DEF IInv, Types, WorkTypes
  <2>. QED BY <1>1, <2>1, AnsweringWaits DEF ProgressRec
<1>. QED BY <1>1, <1>2, LeavingKeepsSettleInv

LEMMA OutboxRunLKeepsSettleInv ==
  ASSUME IInv, PlaceInv, SettleInv, OutboxRunL
  PROVE  SettleInv'
<1>1. CASE OutboxFails \/ OutboxCompletes
  <2>1. /\ UNCHANGED <<queue, selection>>
        /\ \E e : OutboxAnswers(index, e)
    BY <1>1 DEF OutboxFails, OutboxCompletes, outVars
  <2>. QED BY <2>1, AnsweringWaits, LeavingKeepsSettleInv
<1>2. CASE OutboxSendsNext \/ OutboxMessageDeleted
  BY <1>2, SendNextHeaderKeepsSettleInv DEF OutboxSendsNext, OutboxMessageDeleted,
     OutboxRuns, Runnable, Done
<1>3. CASE OutboxReScheduled \/ OutboxGotLogEvent \/ OutboxWroteLogEvent
  <2>1. progress.state \in Deciding /\ UNCHANGED <<queue, selection, current, entry>>
    BY <1>3 DEF OutboxReScheduled, OutboxGotLogEvent, OutboxWroteLogEvent, OutboxRuns, outVars,
       Deciding, LogStates
  <2>2. entry'.state \in {"Sent", "Suspended", "Resend", "Failed"}
    BY <2>1 DEF SettleInv, DecidedIsFinal
  <2>. QED BY <1>3, <2>1, <2>2, LoggingGoesOn, DecidingKeepsSettleInv DEF Working
<1>. QED BY <1>1, <1>2, <1>3, OutboxSendingDoneKeepsSettleInv,
         OutboxReSchedulesKeepsSettleInv, OutboxMovesKeepsSettleInv DEF OutboxRunL

\* CSmsSend completes with an error: it has the message locked, or there is
\* none any more.
LEMMA SendCompletesKeepsSettleInv ==
  ASSUME IInv, SettleInv, progress.state = "Sending",
         NEW s, TypedSnapshot(s), NEW e \in Errors \ {KErrNone}, NEW st \in BOOLEAN,
         s.index = index, s.entry.id = current, current \in Msgs,
         s.progress.state = "Sending", Becomes(SendCompleted(s, e, st)),
         UNCHANGED <<queue, selection, current>>
  PROVE  SettleInv'
<1> DEFINE r == SendCompleted(s, e, st)
<1>1. /\ r.progress.state = "Sending" /\ r.progress.error = e
      /\ index[current].folder # "None" => r.ctx = current
  BY SendCompletedTyped
<1>2. \A m \in Msgs : index[m].folder = "None" => r.index[m] = index[m]
  BY SendCompletedSpares DEF Spares
<1> HIDE DEF r
<1>3. index' = r.index /\ ctx' = r.ctx /\ progress' = r.progress
  BY DEF Becomes, r
<1>4. Exists(current)' => ctx' = current
  BY <1>1, <1>2, <1>3 DEF Exists
<1>. QED BY <1>1, <1>3, <1>4, FailedKeepsSettleInv

\* One RunL of CSmsSend: it goes on with the message, or it answers, having
\* tried every recipient or having completed with an error.
LEMMA SendRunLCases ==
  ASSUME IInv, PlaceInv, SendRunL
  PROVE  /\ Done(ao, "Send") /\ progress.state = "Sending"
         /\ UNCHANGED <<current, queue, selection, condMet>>
         /\ \/ /\ ao'["Send"].active /\ progress'.state = "Sending" /\ index' = index
            \/ /\ entry' = EntryAfterAllSent(entry, send, progress.rcpCount)
               /\ index' = [index EXCEPT ![current] = entry'] /\ ctx' = current /\ ctx = current
               /\ progress'.state = "Sending" /\ ao' = Answers(ao, "Send", KErrNone)
            \/ \E s : \E e \in Errors \ {KErrNone} : \E st \in Stores :
                 /\ TypedSnapshot(s) /\ s.index = index /\ s.entry.id = current
                 /\ s.progress.state = "Sending" /\ Becomes(SendCompleted(s, e, st))
                 /\ ao' = Answers(ao, "Send", KErrNone)
<1> DEFINE Goes == ao'["Send"].active /\ progress'.state = "Sending" /\ index' = index
           Ends == /\ entry' = EntryAfterAllSent(entry, send, progress.rcpCount)
                   /\ index' = [index EXCEPT ![current] = entry'] /\ ctx' = current /\ ctx = current
                   /\ progress'.state = "Sending" /\ ao' = Answers(ao, "Send", KErrNone)
           Fails == \E s : \E e \in Errors \ {KErrNone} : \E st \in Stores :
                      /\ TypedSnapshot(s) /\ s.index = index /\ s.entry.id = current
                      /\ s.progress.state = "Sending" /\ Becomes(SendCompleted(s, e, st))
                      /\ ao' = Answers(ao, "Send", KErrNone)
<1>1. Done(ao, "Send") /\ UNCHANGED <<current, queue, selection, condMet>>
  BY DEF SendRunL, SendFails, SendNextRecipient, SendAllTried, SendFindsDeleted,
     SendRecipientDone, SendRuns, Runnable, Done, outVars
<1>2. progress.state = "Sending"
  BY <1>1, BelowIsAtRest DEF IInv, Done
<1>3. current \in Msgs /\ entry.id = current /\ index[current] \in EntryRec
      /\ index[current].id = current
  BY <1>2, SendingPlace
<1>4. /\ TypedIndex(index) /\ entry \in EntryRec /\ progress \in ProgressRec
      /\ send \in SendRec /\ ctx \in Ids /\ ao \in TypedObjects
      /\ progress.rcpDone \in Int /\ progress.rcpCount \in Nat /\ progress.error \in Errors
  BY DEF IInv, Types, StoreTypes, MemTypes, WorkTypes, ProgressRec
<1>5. StoreErrors \subseteq Errors \ {KErrNone} /\ KErrNotFound \in Errors \ {KErrNone}
      /\ KErrNone \in Errors
  BY ErrorsKnown DEF KErrNotFound, KErrNone
<1>6. ASSUME NEW en \in EntryRec, en.id = current, NEW p \in ProgressRec, p.state = "Sending",
             NEW sn \in SendRec, NEW c \in Ids, NEW e \in Errors \ {KErrNone}, NEW st \in Stores,
             Becomes(SendCompleted(Snapshot(index, en, p, sn, c), e, st)),
             ao' = Answers(ao, "Send", KErrNone)
      PROVE  Fails
  <2> DEFINE s == Snapshot(index, en, p, sn, c)
  <2>1. TypedSnapshot(s) /\ s.index = index /\ s.entry = en /\ s.progress = p
    BY <1>4, SnapshotTyped
  <2>2. Becomes(SendCompleted(s, e, st))
    BY <1>6
  <2> HIDE DEF s
  <2>. QED BY <1>6, <2>1, <2>2
<1>7. \A d \in Int : /\ [progress EXCEPT !.rcpDone = d] \in ProgressRec
                     /\ [progress EXCEPT !.rcpDone = d].state = "Sending"
  BY <1>2, <1>4, ProgressDone
<1> HIDE DEF Fails
<1>8. CASE SendFails
  <2>1. PICK st \in Stores : Becomes(SendCompleted(Snapshot(index, entry, progress, send, ctx),
                                                   ao["Send"].status, st))
    BY <1>8 DEF SendFails
  <2>2. ao["Send"].status \in Errors \ {KErrNone} /\ ao' = Answers(ao, "Send", KErrNone)
    BY <1>4, <1>8 DEF SendFails, Runnable, TypedObjects, Objects
  <2>. QED BY <1>1, <1>2, <1>3, <1>4, <1>6, <2>1, <2>2 DEF Fails
<1>9. CASE SendNextRecipient
  <2>1. /\ progress' = [progress EXCEPT !.rcpDone = NextRecipient] /\ index' = index
        /\ ao' = Awaits(Awaits(ao, "Send"), "Rcpt")
    BY <1>9 DEF SendNextRecipient, storeVars
  <2>2. progress'.state = "Sending"
    <3> DEFINE k == NextRecipient
    <3>1. progress' = [progress EXCEPT !.rcpDone = k]
      BY <2>1
    <3> HIDE DEF k
    <3>. QED BY <1>2, <1>4, <3>1 DEF ProgressRec
  <2>3. ao'["Send"].active
    BY <1>4, <2>1 DEF Awaits, TypedObjects, Objects
  <2>. QED BY <1>1, <1>2, <2>1, <2>2, <2>3
<1>10. CASE SendAllTried
  <2> DEFINE done == EntryAfterAllSent(entry, send, progress.rcpCount)
             n    == progress.rcpCount
             left == [send EXCEPT !.failedStatus = KErrNone]
             p    == [progress EXCEPT !.rcpDone = n]
             err  == IF progress.error = KErrNone THEN send.failedStatus ELSE progress.error
  <2>1. /\ SendRuns({"OpeningEntry", "UpdatingRecipient"})
        /\ ao' = Answers(ao, "Send", KErrNone)
    BY <1>10 DEF SendAllTried
  <2>2. ctx = current
    BY <2>1 DEF SendRuns, Runnable, PlaceInv, SendLocks
  <2>3. \/ /\ index' = [index EXCEPT ![entry.id] = done] /\ entry' = done
           /\ progress' = [progress EXCEPT !.rcpDone = n, !.error = err]
           /\ UNCHANGED ctx
        \/ \E e \in StoreErrors : \E st \in Stores :
             Becomes(SendCompleted(Snapshot(index, entry, p, left, ctx), e, st))
    BY <1>10, Zenon DEF SendAllTried
  <2> HIDE DEF done
  <2>4. CASE /\ index' = [index EXCEPT ![entry.id] = done] /\ entry' = done
             /\ progress' = [progress EXCEPT !.rcpDone = n, !.error = err]
             /\ UNCHANGED ctx
    <3>1. progress'.state = "Sending"
      <4>1. n \in Int
        BY <1>4
      <4> HIDE DEF n, err
      <4>. QED BY <1>2, <1>4, <2>4, <4>1 DEF ProgressRec
    <3>. QED BY <1>1, <1>2, <1>3, <2>1, <2>2, <2>4, <3>1 DEF done
  <2>5. ASSUME NEW e \in StoreErrors, NEW st \in Stores,
               Becomes(SendCompleted(Snapshot(index, entry, p, left, ctx), e, st))
        PROVE  Fails
    <3>1. p \in ProgressRec /\ p.state = "Sending"
      BY <1>4, <1>7
    <3>2. left \in SendRec
      BY <1>4, <1>5 DEF SendRec
    <3> HIDE DEF p, left
    <3>. QED BY <1>3, <1>4, <1>5, <1>6, <2>1, <2>5, <3>1, <3>2
  <2>. QED BY <1>1, <1>2, <2>3, <2>4, <2>5 DEF Fails
<1>11. CASE SendFindsDeleted
  <2> DEFINE p == [progress EXCEPT !.rcpDone = progress.rcpDone + 1]
  <2>1. /\ Becomes(SendCompleted(Snapshot(index, entry, p, send, ctx), KErrNotFound, TRUE))
        /\ ao' = Answers(ao, "Send", KErrNone)
    BY <1>11 DEF SendFindsDeleted
  <2>2. p \in ProgressRec /\ p.state = "Sending"
    BY <1>4, <1>7
  <2>3. TRUE \in Stores
    BY DEF Stores
  <2> HIDE DEF p
  <2>. QED BY <1>1, <1>2, <1>3, <1>4, <1>5, <1>6, <2>1, <2>2, <2>3 DEF Fails
<1>12. CASE SendRecipientDone
  <2> DEFINE m    == entry.id
             err  == progress.error
             e    == IF err = KErrNone THEN index[m]
                     ELSE [index[m] EXCEPT !.err = err, !.failed = TRUE]
             fs   == IF err # KErrNone /\ progress.rcpCount > 1 THEN err ELSE send.failedStatus
             ns   == IF err = KErrNone /\ send.reports THEN send.sentRcpts + 1
                     ELSE send.sentRcpts
             s    == [send EXCEPT !.state = "UpdatingRecipient", !.failedStatus = fs,
                                  !.sentRcpts = ns]
             p    == [progress EXCEPT !.rcpDone = progress.rcpDone + 1]
  <2>1. \/ /\ Becomes(Snapshot(index, e, p, s, m))
           /\ ao' = RunsNext(ao, "Send", KErrNone)
        \/ \E x \in StoreErrors : \E st \in Stores :
             /\ Becomes(SendCompleted(Snapshot(index, e, p, s, m), x, st))
             /\ ao' = Answers(ao, "Send", KErrNone)
    BY <1>12, Zenon DEF SendRecipientDone
  <2>2. e \in EntryRec /\ e.id = current
    BY <1>3, <1>4 DEF EntryRec
  <2>3. s \in SendRec
    <3>1. fs \in Errors /\ ns \in Nat
      BY <1>4 DEF SendRec
    <3> HIDE DEF fs, ns
    <3>. QED BY <1>4, <3>1 DEF SendRec, SendStates
  <2>4. p \in ProgressRec /\ p.state = "Sending"
    BY <1>4, <1>7
  <2>5. m \in Ids
    BY <1>3 DEF Ids
  <2> HIDE DEF e, s, p
  <2>6. CASE Becomes(Snapshot(index, e, p, s, m)) /\ ao' = RunsNext(ao, "Send", KErrNone)
    <3>1. index' = index /\ progress' = p
      BY <2>6, SnapshotFields DEF Becomes
    <3>2. ao'["Send"].active
      BY <1>4, <2>6 DEF RunsNext, TypedObjects, Objects
    <3>. QED BY <1>1, <1>2, <2>4, <3>1, <3>2
  <2>7. ASSUME NEW x \in StoreErrors, NEW st \in Stores,
               Becomes(SendCompleted(Snapshot(index, e, p, s, m), x, st)),
               ao' = Answers(ao, "Send", KErrNone)
        PROVE  Fails
    BY <1>5, <1>6, <2>2, <2>3, <2>4, <2>5, <2>7
  <2>. QED BY <1>1, <1>2, <2>1, <2>6, <2>7 DEF Fails
<1>. QED BY <1>8, <1>9, <1>10, <1>11, <1>12 DEF SendRunL

\* Whatever the recipients came to, the entry is sent, suspended or failed.
LEMMA AllTriedIsDone ==
  ASSUME NEW e \in EntryRec, NEW sn, NEW n
  PROVE  \/ EntryAfterAllSent(e, sn, n).failed
         \/ EntryAfterAllSent(e, sn, n).state \in {"Sent", "Suspended"}
BY DEF EntryAfterAllSent, EntryRec

LEMMA SendRunLKeepsSettleInv ==
  ASSUME IInv, PlaceInv, SettleInv, SendRunL
  PROVE  SettleInv'
<1>1. progress.state = "Sending" /\ UNCHANGED <<current, queue, selection>>
  BY SendRunLCases
<1>2. CASE ao'["Send"].active /\ progress'.state = "Sending"
  BY <1>1, <1>2, SendingOnKeepsSettleInv
<1>3. CASE /\ entry' = EntryAfterAllSent(entry, send, progress.rcpCount)
           /\ ctx' = current /\ progress'.state = "Sending"
  <2>1. entry \in EntryRec
    BY DEF IInv, Types, MemTypes
  <2>2. entry'.failed \/ entry'.state \in {"Sent", "Suspended"}
    BY <1>3, <2>1, AllTriedIsDone
  <2>3. StaysLocked' /\ NoErrorMeansDone' /\ DecidedIsFinal'
    BY <1>1, <1>3, <2>2 DEF StaysLocked, NoErrorMeansDone, DecidedIsFinal, Deciding, LogStates
  <2>. QED BY <1>1, <2>3, SameMessageKeepsSettleInv DEF Working
<1>4. ASSUME NEW s, NEW e \in Errors \ {KErrNone}, NEW st \in Stores,
             TypedSnapshot(s), s.index = index, s.entry.id = current,
             s.progress.state = "Sending", Becomes(SendCompleted(s, e, st))
      PROVE  SettleInv'
  BY <1>1, <1>4, SendingPlace, StoresType, SendCompletesKeepsSettleInv
<1>. QED BY <1>2, <1>3, <1>4, SendRunLCases

LEMMA RcptRunLKeepsSettleInv ==
  ASSUME IInv, SettleInv, RcptRunL
  PROVE  SettleInv'
<1>1. RcptMoves /\ Done(ao, "Rcpt")
  BY RcptRunLMoves
<1>2. progress.state = "Sending" /\ Waits(ao, "Send")
  BY <1>1, BelowIsAtRest DEF IInv, Done, Waits
<1>3. progress'.state = "Sending"
  BY <1>1, <1>2 DEF RcptMoves, IInv, Types, WorkTypes, ProgressRec
<1>4. ao'["Send"].active
  BY <1>1, <1>2 DEF RcptMoves, IInv, Types, WorkTypes, TypedObjects, Objects,
     Answers, Awaits, Parent, IdleObject, Waits
<1>5. UNCHANGED <<queue, selection, current>>
  BY <1>1 DEF RcptMoves, outVars
<1>. QED BY <1>2, <1>3, <1>4, <1>5, SendingOnKeepsSettleInv

\* CSmsSendSession passes the answer on; the logger, the socket and the client
\* leave the entry in memory and the error alone.
LEMMA OthersKeepSettleInv ==
  ASSUME IInv, PlaceInv, GoneShape, SettleInv,
         SessionRuns \/ Services \/ ClientStep \/ UNCHANGED vars
  PROVE  SettleInv'
<1>1. /\ UNCHANGED <<queue, selection, current, entry, ctx>>
      /\ ao \in TypedObjects /\ progress \in ProgressRec
  BY DEF Services, LoggerCompletes, SocketCompletes, ClientStep, vars, SessionRuns, memVars,
     outVars, IInv, Types, WorkTypes
<1>2. progress'.state = progress.state
      /\ (progress'.error = KErrNone => progress.error = KErrNone)
  BY <1>1 DEF Services, LoggerCompletes, SocketCompletes, ClientStep, vars, SessionRuns,
     ProgressRec
<1>3. ao'["Send"].active = ao["Send"].active
  <2>1. CASE SessionRuns
    <3>1. ao["Send"].active \in BOOLEAN
      BY <1>1 DEF TypedObjects, Objects
    <3>. QED BY <1>1, <2>1, <3>1 DEF SessionRuns, Answers, Parent, TypedObjects, Objects
  <2>2. CASE Services \/ ClientStep \/ UNCHANGED vars
    BY <1>1, <2>2 DEF Services, LoggerCompletes, SocketCompletes, ClientStep, vars,
       TypedObjects, Objects
  <2>. QED BY <2>1, <2>2
<1>4. Spares(index')
  BY StepSpares DEF Next
<1>5. progress.state = "Sending" => current \in Msgs
  BY SendingPlace
<1>6. progress.state = "Sending" /\ Exists(current)' => Exists(current)
  BY <1>1, <1>4, <1>5 DEF Exists, Spares
<1>7. StaysLocked' /\ NoErrorMeansDone' /\ DecidedIsFinal'
  BY <1>1, <1>2, <1>3, <1>6 DEF SettleInv, StaysLocked, NoErrorMeansDone, DecidedIsFinal
<1>. QED BY <1>1, <1>2, <1>7, SameMessageKeepsSettleInv

\* The poll cancels CSmsSend, which locks the message if there still is one.
LEMMA PollKeepsSettleInv ==
  ASSUME IInv, PlaceInv, GoneShape, SettleInv, ProgressPoll
  PROVE  SettleInv'
<1> DEFINE p1 == IF ao["Rcpt"].active THEN [progress EXCEPT !.error = KErrCancel] ELSE progress
           s1 == Snapshot(index, entry, p1, send, ctx)
<1>1. PICK st \in Stores : Becomes(SessionCancelled(st))
  BY DEF ProgressPoll
<1>2. /\ progress.state = "Sending" /\ ao["Session"].active
      /\ UNCHANGED <<queue, selection, current>>
  BY DEF ProgressPoll, outVars
<1>3. progress'.error # KErrNone /\ progress'.state = "Sending"
  BY <1>1, <1>2, SessionCancelledPlaces, StoresType DEF Becomes
<1>4. current \in Msgs /\ entry.id = current
  BY <1>2, SendingPlace
<1>5. Spares(index')
  BY StepSpares DEF Next
<1>6. TypedSnapshot(s1) /\ s1.index = index /\ s1.entry = entry /\ s1.ctx = ctx
  <2>1. /\ TypedIndex(index) /\ entry \in EntryRec /\ progress \in ProgressRec
        /\ send \in SendRec /\ ctx \in Ids
    BY DEF IInv, Types, StoreTypes, MemTypes, WorkTypes
  <2>2. p1 \in ProgressRec
    <3>1. [progress EXCEPT !.error = KErrCancel] \in ProgressRec
      BY <2>1, ErrorsKnown DEF ProgressRec
    <3>. QED BY <2>1, <3>1
  <2> HIDE DEF p1
  <2>. QED BY <2>1, <2>2, SnapshotTyped
<1>7. ctx' = IF ao["Send"].active THEN SendCompleted(s1, KErrCancel, st).ctx ELSE s1.ctx
  <2> DEFINE s2 == IF ao["Send"].active THEN SendCompleted(s1, KErrCancel, st) ELSE s1
             p2 == [s2.progress EXCEPT !.error = IF @ = KErrNone THEN KErrCancel ELSE @]
  <2>1. SessionCancelled(st) = Snapshot(s2.index, s2.entry, p2, s2.send, s2.ctx)
    BY <1>2, Zenon DEF SessionCancelled, s2, s1
  <2> HIDE DEF p2, s1
  <2>2. ctx' = s2.ctx
    BY <1>1, <2>1, SnapshotFields DEF Becomes
  <2>. QED BY <2>2
<1> HIDE DEF s1
<1>8. ao["Send"].active /\ index[current].folder # "None" =>
        SendCompleted(s1, KErrCancel, st).ctx = current
  BY <1>4, <1>6, ErrorsKnown, StoresType, SendCompletedTyped
<1>9. Exists(current)' => Exists(current)
  BY <1>2, <1>4, <1>5 DEF Exists, Spares
<1>10. Exists(current)' => ctx' = current
  BY <1>2, <1>6, <1>7, <1>8, <1>9 DEF Exists, SettleInv, StaysLocked
<1>. QED BY <1>2, <1>3, <1>10, FailedKeepsSettleInv

LEMMA StepKeepsSettleInv ==
  ASSUME IInv, PlaceInv, GoneShape, SettleInv, [Next]_vars
  PROVE  SettleInv'
<1>1. CASE MtmRuns \/ MtmCancel
  <2>1. progress'.state = "Waiting" /\ queue' = <<>>
    BY <1>1 DEF MtmRuns, MtmCancel, CompletesCommand, NewProgress
  <2>. QED BY <2>1, ElsewhereKeepsSettleInv DEF Queued, Working, Deciding, LogStates
<1>. QED BY <1>1, RequestKeepsSettleInv, OutboxRunLKeepsSettleInv, SendRunLKeepsSettleInv,
         RcptRunLKeepsSettleInv, OthersKeepSettleInv, PollKeepsSettleInv DEF Next

LEMMA InitSettleInv == Init => SettleInv
<1> SUFFICES ASSUME Init PROVE SettleInv
  OBVIOUS
<1>1. progress.state = "Waiting" /\ queue = <<>>
  BY Zenon DEF Init, NewProgress
<1>. QED BY <1>1 DEF SettleInv, StaysLocked, NoErrorMeansDone, DecidedIsFinal, FromSelection,
         Queued, Working, Deciding, LogStates

LEMMA SpecKeepsSettleInv == Spec => [](IInv /\ PlaceInv /\ StateInv /\ SettleInv)
<1>1. Init => SettleInv
  BY InitSettleInv
<1>2. IInv /\ PlaceInv /\ StateInv /\ SettleInv /\ [Next]_vars => SettleInv'
  BY StepKeepsSettleInv DEF StateInv
<1>. QED BY <1>1, <1>2, SpecKeepsStateInv, PTL DEF Spec

-----------------------------------------------------------------------------
(* Answered requests                                                       *)

Outstanding(e) == e.state \in {"Waiting", "Sending"}

\* With the conditions met, a message of the selection that is still to be
\* sent is queued, or it is the one being dealt with. Nothing else keeps it
\* from being forgotten: FailOutstandingMessages is not called when all went
\* well.
NoneForgotten ==
  condMet /\ progress.state # "Waiting" =>
    \A m \in selection : Outstanding(index[m]) =>
      Queued(m, queue) \/ (m = current /\ progress.state \in Working)

CompleteIsLast == condMet /\ progress.state = "Complete" => queue = <<>>

AnswerInv == NoneForgotten /\ CompleteIsLast /\ AnswerSettlesSelection

\* While the outbox sender is active CSmsServerMtm waits for it.
LEMMA MtmAwaitsOutbox ==
  IInv => (ao["Outbox"].active => ~Runnable("Mtm"))
BY ChainLinks DEF IInv, WakeInv, Runnable, Waits

LEMMA WaitingKeepsAnswerInv ==
  ASSUME progress'.state = "Waiting", AnswerSettlesSelection'
  PROVE  AnswerInv'
BY DEF AnswerInv, NoneForgotten, CompleteIsLast

\* A step on the current message, which is dealt with before and after it.
LEMMA WorkingKeepsAnswerInv ==
  ASSUME IInv, IInv', AnswerInv, UNCHANGED <<queue, selection, current, condMet>>,
         progress.state \in Working, progress'.state \in Working, ao'["Outbox"].active,
         \A m \in Msgs : m # current => index'[m] = index[m]
  PROVE  AnswerInv'
<1>1. (IInv => (ao["Outbox"].active => ~Runnable("Mtm")))'
  BY MtmAwaitsOutbox, PTL
<1>2. selection \subseteq Msgs
  BY DEF IInv, Types, WorkTypes
<1>3. progress.state # "Waiting" /\ progress'.state # "Complete"
  BY DEF Working, Deciding, LogStates
<1>4. NoneForgotten'
  BY <1>2, <1>3 DEF AnswerInv, NoneForgotten, Queued, Outstanding
<1>. QED BY <1>1, <1>3, <1>4 DEF AnswerInv, CompleteIsLast, AnswerSettlesSelection

\* The objects below the outbox sender are at work only for a message.
LEMMA OutboxStaysActive ==
  ASSUME IInv, SessionRuns \/ SendRunL \/ RcptRunL \/ Services \/ ProgressPoll
  PROVE  /\ ao["Outbox"].active /\ ao'["Outbox"].active
         /\ progress.state \in Working
         /\ Services \/ progress.state = "Sending"
<1>1. ao \in TypedObjects
  BY DEF IInv, Types, WorkTypes
<1>2. \/ ao["Session"].active \/ ao["Send"].active \/ ao["Rcpt"].active
      \/ LoggerCompletes("Outbox")
  BY DEF SessionRuns, SendRunL, SendFails, SendNextRecipient, SendAllTried, SendFindsDeleted,
     SendRecipientDone, SendRuns, RcptRunL, RcptFails, RcptGotLogEvent, RcptWroteLogEvent,
     RcptSent, RcptRuns, Runnable, Services, LoggerCompletes, SocketCompletes, Pending,
     ProgressPoll
<1>3. /\ ao["Session"].active \/ ao["Send"].active \/ ao["Rcpt"].active =>
           progress.state = "Sending" /\ ao["Outbox"].active
      /\ LoggerCompletes("Outbox") => progress.state \in LogStates /\ ao["Outbox"].active
  BY BelowIsAtRest DEF IInv, Waits, LoggerCompletes, Pending, LogStates
<1>4. ao'["Outbox"].active = ao["Outbox"].active
  <2>1. CASE SessionRuns
    BY <1>1, <2>1 DEF SessionRuns, Answers, Parent, TypedObjects, Objects
  <2>2. CASE SendRunL
    BY <1>1, <2>2 DEF SendRunL, SendFails, SendNextRecipient, SendAllTried, SendFindsDeleted,
       SendRecipientDone, Answers, Parent, Awaits, RunsNext, TypedObjects, Objects
  <2>3. CASE RcptRunL
    <3>1. ao' \in {Answers(ao, "Rcpt", KErrNone), Awaits(ao, "Rcpt")}
      BY <2>3, RcptRunLMoves DEF RcptMoves
    <3>. QED BY <1>1, <3>1 DEF Answers, Parent, Awaits, TypedObjects, Objects
  <2>4. CASE Services
    BY <1>1, <2>4 DEF Services, LoggerCompletes, SocketCompletes, TypedObjects, Objects
  <2>5. CASE ProgressPoll
    BY <1>1, <2>5 DEF ProgressPoll, TypedObjects, Objects
  <2>. QED BY <2>1, <2>2, <2>3, <2>4, <2>5
<1>. QED BY <1>2, <1>3, <1>4 DEF Working, Deciding, Services

\* They change the entry of no other message.
LEMMA BelowChangesCurrent ==
  ASSUME IInv, PlaceInv, SessionRuns \/ SendRunL \/ RcptRunL \/ Services \/ ProgressPoll
  PROVE  /\ UNCHANGED <<queue, selection, current, condMet>>
         /\ progress'.state = progress.state
         /\ \A m \in Msgs : m # current => index'[m] = index[m]
<1>1. CASE SendRunL
  <2>1. current \in Msgs /\ index \in [Msgs -> EntryRec]
    BY <1>1, SendRunLCases, SendingPlace DEF IInv, Types, StoreTypes, TypedIndex
  <2>2. ASSUME NEW s, NEW e \in Errors \ {KErrNone}, NEW st \in Stores,
               TypedSnapshot(s), s.index = index, s.entry.id = current,
               s.progress.state = "Sending", Becomes(SendCompleted(s, e, st))
        PROVE  /\ progress'.state = "Sending"
               /\ \A m \in Msgs : m # current => index'[m] = index[m]
    <3> DEFINE r == SendCompleted(s, e, st)
    <3>1. r.progress.state = "Sending"
      BY <2>2, SendCompletedTyped, StoresType
    <3>2. \/ r.index = index
          \/ \E d : r.index = [index EXCEPT ![current] = d]
      BY <2>2 DEF SendCompleted, Snapshot
    <3> HIDE DEF r
    <3>3. progress' = r.progress /\ index' = r.index
      BY <2>2 DEF Becomes, r
    <3>. QED BY <2>1, <3>1, <3>2, <3>3
  <2>. QED BY <1>1, <2>1, <2>2, SendRunLCases
<1>2. CASE RcptRunL
  <2>1. progress \in ProgressRec
    BY DEF IInv, Types, WorkTypes
  <2>. QED BY <1>2, <2>1, RcptRunLMoves DEF RcptMoves, outVars, ProgressRec
<1>3. CASE SessionRuns
  <2>1. progress \in ProgressRec
    BY DEF IInv, Types, WorkTypes
  <2>. QED BY <1>3, <2>1 DEF SessionRuns, outVars, storeVars, ProgressRec
<1>4. CASE Services
  BY <1>4 DEF Services, LoggerCompletes, SocketCompletes, outVars, storeVars
<1>5. CASE ProgressPoll
  <2>1. PICK st \in Stores : Becomes(SessionCancelled(st))
    BY <1>5 DEF ProgressPoll
  <2>2. progress.state = "Sending" /\ UNCHANGED <<queue, selection, current, condMet>>
    BY <1>5 DEF ProgressPoll, outVars
  <2>. QED BY <2>1, <2>2, SessionCancelledPlaces, StoresType DEF Becomes, EndsInPlace
<1>. QED BY <1>1, <1>2, <1>3, <1>4, <1>5

LEMMA ObjectsBelowKeepAnswerInv ==
  ASSUME IInv, IInv', PlaceInv, AnswerInv,
         SessionRuns \/ SendRunL \/ RcptRunL \/ Services \/ ProgressPoll
  PROVE  AnswerInv'
BY OutboxStaysActive, BelowChangesCurrent, WorkingKeepsAnswerInv

\* A request that sends has queued the whole selection.
LEMMA RequestKeepsAnswerInv ==
  ASSUME IInv, IInv', PlaceInv, Request
  PROVE  AnswerInv'
<1>1. PICK sel \in SUBSET Msgs :
        \/ StartSend(sel)
        \/ StartFindsNothing(sel)
        \/ \E err \in StoreErrors \cup {KErrNone} :
             \E done \in SUBSET Accepted(sel \cup Found(sel)) :
               StartReSchedules(sel, err, done)
        \/ \E e \in StoreErrors : \E found \in SUBSET Found(sel) :
             \E done \in SUBSET (sel \cup found) : StartFails(sel, e, found, done)
  BY RequestCases
<1> DEFINE acc == Accepted(sel \cup Found(sel))
<1>2. \/ ~condMet'
      \/ queue' \in Queues(sel, acc) /\ selection' = acc /\ progress'.state # "Complete"
  <2>1. CASE StartSend(sel)
    <3>1. queue' \in Queues(sel, acc) /\ selection' = acc
      BY <2>1, Zenon DEF StartSend
    <3>2. progress'.state = "FindingOtherMessages"
      BY <2>1 DEF StartSend, NewProgress
    <3>. QED BY <3>1, <3>2
  <2>2. CASE StartFindsNothing(sel)
    BY <2>2, Zenon DEF StartFindsNothing
  <2>3. ASSUME NEW err, NEW done, StartReSchedules(sel, err, done) PROVE ~condMet'
    BY <2>3, Zenon DEF StartReSchedules
  <2>4. ASSUME NEW e, NEW found, NEW done, StartFails(sel, e, found, done) PROVE ~condMet'
    BY <2>4, Zenon DEF StartFails
  <2>. QED BY <1>1, <2>1, <2>2, <2>3, <2>4
<1>3. sel \cup Found(sel) \in SUBSET Msgs
  BY ChosenAreMessages
<1>4. condMet' => \A m \in selection' : Queued(m, queue')
  BY <1>2, <1>3, QueuesAreComplete
<1>5. ~Runnable("Mtm")'
  <2>1. PICK err : Starts(err)
    BY RequestStarts
  <2>2. ao'["Outbox"].active
    BY <2>1 DEF Starts, RunsNext, Awaits, IInv, Types, WorkTypes, TypedObjects, Objects
  <2>3. (IInv => (ao["Outbox"].active => ~Runnable("Mtm")))'
    BY MtmAwaitsOutbox, PTL
  <2>. QED BY <2>2, <2>3
<1>. QED BY <1>2, <1>4, <1>5 DEF AnswerInv, NoneForgotten, CompleteIsLast,
         AnswerSettlesSelection, Queued

\* The outbox sender answers with an error: FailOutstandingMessages leaves
\* nothing outstanding. A message that has been deleted is not.
LEMMA AnsweringFailsOutstanding ==
  ASSUME IInv, GoneShape', NEW ix \in [Msgs -> EntryRec], NEW e, OutboxAnswers(ix, e),
         e # KErrNone \/ progress.error # KErrNone \/ ~condMet, UNCHANGED selection
  PROVE  AnswerInv'
<1> DEFINE err == IF progress.error = KErrNone THEN e ELSE progress.error
<1>1. index' = FailOutstanding(ix, selection, err, "Failed")
  BY DEF OutboxAnswers
<1> HIDE DEF err
<1>2. selection \subseteq Msgs
  BY DEF IInv, Types, WorkTypes
<1>3. ASSUME NEW m \in selection PROVE ~Outstanding(index'[m])
  <2>1. CASE ix[m].folder = "None"
    <3>1. index'[m] = ix[m]
      BY <1>1, <1>2, <2>1 DEF FailOutstanding
    <3>. QED BY <1>2, <2>1, <3>1 DEF GoneShape, Outstanding
  <2>2. CASE ix[m].folder # "None"
    <3>1. index'[m] = FailIfOutstanding(ix[m], err, "Failed")
      BY <1>1, <1>2, <2>2 DEF FailOutstanding
    <3>2. ix[m] \in EntryRec
      BY <1>2
    <3>. QED BY <3>1, <3>2 DEF FailIfOutstanding, EntryRec, Outstanding
  <2>. QED BY <2>1, <2>2
<1>4. AnswerSettlesSelection'
  BY <1>3 DEF AnswerSettlesSelection, Outstanding
<1>. QED BY <1>4, AnsweringWaits, WaitingKeepsAnswerInv

\* It answers with KErrNone when the queue is empty.
LEMMA OutboxEndsKeepsAnswerInv ==
  ASSUME IInv, GoneShape', AnswerInv, OutboxFails \/ OutboxCompletes
  PROVE  AnswerInv'
<1>1. index \in [Msgs -> EntryRec] /\ selection \subseteq Msgs
  BY DEF IInv, Types, StoreTypes, TypedIndex, WorkTypes
<1>2. CASE OutboxFails
  BY <1>1, <1>2, AnsweringFailsOutstanding DEF OutboxFails, outVars
<1>3. CASE OutboxCompletes /\ (progress.error # KErrNone \/ ~condMet)
  BY <1>1, <1>3, AnsweringFailsOutstanding DEF OutboxCompletes, outVars
<1>4. CASE OutboxCompletes /\ progress.error = KErrNone /\ condMet
  <2>1. /\ progress.state = "Complete" /\ selection' = selection
        /\ OutboxAnswers(index, KErrNone)
    BY <1>4 DEF OutboxCompletes, OutboxRuns, outVars
  <2>2. index' = index
    BY <1>4, <2>1 DEF OutboxAnswers
  <2>3. queue = <<>> /\ progress.state \notin Working
    BY <1>4, <2>1 DEF AnswerInv, CompleteIsLast, Working, Deciding, LogStates
  <2>4. \A m \in selection : ~Outstanding(index[m])
    BY <1>4, <2>1, <2>3 DEF AnswerInv, NoneForgotten, Queued
  <2>5. AnswerSettlesSelection'
    BY <2>1, <2>2, <2>4 DEF AnswerSettlesSelection, Outstanding
  <2>. QED BY <2>1, <2>5, AnsweringWaits, WaitingKeepsAnswerInv
<1>. QED BY <1>2, <1>3, <1>4

\* SendNextHeaderL changes the entry of the message it takes, and no other.
LEMMA NextChangesCurrent ==
  ASSUME IInv, PlaceInv, Done(ao, "Outbox"), SendNextHeaderL
  PROVE  /\ \/ progress'.state = "Complete" /\ index' = index
            \/ progress'.state = "Sending" /\ \A m \in Msgs : m # current' => index'[m] = index[m]
         /\ ao'["Outbox"].active
<1>1. ao \in TypedObjects /\ index \in [Msgs -> EntryRec]
  BY DEF IInv, Types, StoreTypes, TypedIndex, WorkTypes
<1>2. CASE /\ progress'.state = "Complete" /\ ao' = RunsNext(ao, "Outbox", KErrNone)
           /\ index' = index
  BY <1>1, <1>2 DEF RunsNext, TypedObjects, Objects
<1>3. ASSUME NEW m \in Msgs, NEW p \in ProgressRec, p.state = "Sending", current' = m,
             TakesUp(m, p)
      PROVE  /\ progress'.state = "Sending" /\ ao'["Outbox"].active
             /\ \A k \in Msgs : k # current' => index'[k] = index[k]
  <2>1. index' = index \/ index' = [index EXCEPT ![m] = OpenedEntry(index[m])]
    BY <1>3 DEF TakesUp, OpensEntry, OpenFindsNoRecipient, OpenCannotChange, OpenCannotRead
  <2>2. PICK err \in Errors : ao' = ChainStarts(err)
    BY <1>3, ErrorsKnown DEF TakesUp, OpensEntry, OpenFindsNoRecipient, OpenCannotChange,
       OpenCannotRead, KErrNone, KErrNotFound
  <2>3. ao'["Outbox"].active
    BY <1>1, <2>2 DEF ChainStarts, RunsNext, Awaits, TypedObjects, Objects
  <2>. QED BY <1>1, <1>3, <2>1, <2>3, TakingUpSends
<1>4. \/ /\ progress'.state = "Complete" /\ ao' = RunsNext(ao, "Outbox", KErrNone)
         /\ index' = index
      \/ \E m \in Msgs : \E p \in ProgressRec :
           p.state = "Sending" /\ current' = m /\ TakesUp(m, p)
  BY NextMessage
<1>. QED BY <1>2, <1>3, <1>4

\* What SendNextHeaderL passes over was deleted, suspended or sent.
LEMMA SendNextHeaderKeepsAnswerInv ==
  ASSUME IInv, IInv', PlaceInv, GoneShape, AnswerInv, OutboxSendsNext \/ OutboxMessageDeleted
  PROVE  AnswerInv'
<1>1. /\ Done(ao, "Outbox") /\ SendNextHeaderL
      /\ \/ progress.state \in {"FindingOtherMessages", "MovingEntry"}
         \/ progress.state = "Sending" /\ ~Exists(entry.id)
      /\ UNCHANGED <<selection, condMet>>
  BY DEF OutboxSendsNext, OutboxMessageDeleted, OutboxRuns, Runnable, Done, SendNextHeaderL,
     outVars
<1>2. ~Runnable("Mtm")'
  <2>1. (IInv => (ao["Outbox"].active => ~Runnable("Mtm")))'
    BY MtmAwaitsOutbox, PTL
  <2>. QED BY <1>1, <2>1, NextChangesCurrent
<1>3. selection \subseteq Msgs /\ NoMsg \notin Msgs
  BY StoreAssumption DEF IInv, Types, WorkTypes
<1>4. \A m \in Msgs : ~Exists(m) => ~Outstanding(index[m])
  BY <1>3 DEF Exists, GoneShape, Outstanding
<1>5. \A m \in Msgs : ~CanSendMessage(index[m]) => ~Outstanding(index[m])
  BY DEF CanSendMessage, Outstanding
<1>6. progress.state \in Working => ~Exists(current)
  BY <1>1, SendingPlace DEF Working, Deciding, LogStates
<1>7. condMet => \A m \in selection : Outstanding(index[m]) =>
        Queued(m, queue') \/ (current' = m /\ progress'.state = "Sending")
  <2>1. \A m \in selection : Outstanding(index[m]) /\ condMet => Queued(m, queue)
    BY <1>1, <1>3, <1>4, <1>6 DEF AnswerInv, NoneForgotten
  <2>. QED BY <1>1, <1>3, <1>4, <1>5, <2>1, QueueIsTaken
<1>8. NoneForgotten'
  <2>1. CASE progress'.state = "Complete" /\ index' = index
    BY <1>1, <1>7, <2>1 DEF NoneForgotten, Queued, Outstanding
  <2>2. CASE /\ progress'.state = "Sending"
             /\ \A m \in Msgs : m # current' => index'[m] = index[m]
    BY <1>1, <1>3, <1>7, <2>2 DEF NoneForgotten, Queued, Outstanding, Working
  <2>. QED BY <1>1, <2>1, <2>2, NextChangesCurrent
<1>9. CompleteIsLast'
  BY <1>1, QueueIsTaken DEF CompleteIsLast
<1>. QED BY <1>2, <1>8, <1>9 DEF AnswerInv, AnswerSettlesSelection
\* The outbox sender decides on the message and logs its recipients.
LEMMA DecidingKeepsAnswerInv ==
  ASSUME IInv, IInv', PlaceInv, AnswerInv,
         OutboxSendingDone \/ OutboxReScheduled \/ OutboxGotLogEvent \/ OutboxWroteLogEvent
  PROVE  AnswerInv'
<1>1. ao \in TypedObjects /\ progress \in ProgressRec
  BY DEF IInv, Types, WorkTypes
<1>2. /\ UNCHANGED <<index, queue, selection, current, condMet>>
      /\ progress.state \in Working
  BY DEF OutboxSendingDone, OutboxReScheduled, OutboxGotLogEvent, OutboxWroteLogEvent,
     OutboxRuns, storeVars, outVars, Working, Deciding, LogStates
<1>3. ao' \in {RunsNext(ao, "Outbox", KErrNone), Awaits(ao, "Outbox")}
  <2>1. CASE OutboxSendingDone
    BY <2>1 DEF OutboxSendingDone
  <2>2. CASE OutboxReScheduled
    BY <2>2 DEF OutboxReScheduled, LogEntry
  <2>3. CASE OutboxGotLogEvent
    BY <2>3 DEF OutboxGotLogEvent, LogEntry
  <2>4. CASE OutboxWroteLogEvent
    BY <2>4 DEF OutboxWroteLogEvent, LogEntry
  <2>. QED BY <2>1, <2>2, <2>3, <2>4
<1>4. ao'["Outbox"].active
  BY <1>1, <1>3 DEF RunsNext, Awaits, TypedObjects, Objects
<1>5. progress'.state \in Working
  <2>1. CASE OutboxSendingDone
    BY <1>1, <2>1 DEF OutboxSendingDone, ProgressRec, Working, Deciding
  <2>. QED BY <2>1, LoggingGoesOn DEF Working
<1>. QED BY <1>2, <1>4, <1>5, WorkingKeepsAnswerInv

LEMMA OutboxReSchedulesKeepsAnswerInv ==
  ASSUME IInv, IInv', PlaceInv, GoneShape', AnswerInv, OutboxReSchedules
  PROVE  AnswerInv'
<1> DEFINE m  == entry.id
           ix == [index EXCEPT ![m] = ReScheduledEntry(@, header[m], ListedActions(header[m]))]
<1>1. /\ progress.state = "Sending" /\ UNCHANGED <<queue, selection, current, condMet>>
      /\ ctx = entry.id \/ Exists(entry.id)
      /\ \/ /\ index' = ix /\ progress' = [progress EXCEPT !.state = "ReScheduling"]
            /\ ao' = RunsNext(ao, "Outbox", KErrNone)
         \/ \E e \in StoreErrors : OutboxAnswers(index, e)
         \/ \E e \in StoreErrors : OutboxAnswers(ix, e)
  BY Zenon DEF OutboxReSchedules, OutboxRuns, outVars
<1>2. /\ m \in Msgs /\ m = current /\ index \in [Msgs -> EntryRec]
      /\ header[m] \in Rcpts(m) /\ progress \in ProgressRec /\ ao \in TypedObjects
  BY <1>1, SendingIsInOutbox DEF IInv, Types, StoreTypes, TypedIndex, TypedHeaders, WorkTypes
<1>3. \A e \in StoreErrors : e # KErrNone
  BY ErrorsKnown
<1>4. ix \in [Msgs -> EntryRec] /\ \A k \in Msgs : k # current => ix[k] = index[k]
  <2>1. ReScheduledEntry(index[m], header[m], ListedActions(header[m])) \in EntryRec
    BY <1>2, ReScheduledEntryType
  <2>. QED BY <1>2, <2>1
<1> HIDE DEF m, ix
<1>5. CASE /\ index' = ix /\ progress' = [progress EXCEPT !.state = "ReScheduling"]
           /\ ao' = RunsNext(ao, "Outbox", KErrNone)
  <2>1. progress'.state \in Working /\ progress.state \in Working
    BY <1>1, <1>2, <1>5 DEF ProgressRec, Deciding, Working
  <2>2. ao'["Outbox"].active
    BY <1>2, <1>5 DEF RunsNext, TypedObjects, Objects
  <2>. QED BY <1>1, <1>4, <1>5, <2>1, <2>2, WorkingKeepsAnswerInv
<1>. QED BY <1>1, <1>2, <1>3, <1>4, <1>5, AnsweringFailsOutstanding

\* What MoveEntryL stores is no longer to be sent.
LEMMA OutboxMovesKeepsAnswerInv ==
  ASSUME IInv, IInv', PlaceInv, GoneShape', SettleInv, AnswerInv,
         OutboxMovesSent \/ OutboxKeepsUnsent
  PROVE  AnswerInv'
<1> DEFINE sent  == [entry EXCEPT !.connected = FALSE, !.failed = FALSE, !.state = "Sent"]
           moved == [sent EXCEPT !.folder = "Sent"]
           ix    == [index EXCEPT ![current] = sent]
<1>1. /\ progress.state = "LogEntryComplete" /\ UNCHANGED <<queue, selection, current, condMet>>
  BY DEF OutboxMovesSent, OutboxKeepsUnsent, OutboxRuns, outVars
<1>2. /\ entry.id = current /\ current \in Msgs
      /\ entry \in EntryRec /\ index \in [Msgs -> EntryRec] /\ selection \subseteq Msgs
      /\ progress \in ProgressRec /\ ao \in TypedObjects
  BY <1>1 DEF IInv, Types, StoreTypes, TypedIndex, MemTypes, WorkTypes, Shape, LogShape
<1>3. \A e \in StoreErrors : e # KErrNone
  BY ErrorsKnown
<1>4. sent \in EntryRec /\ moved \in EntryRec /\ sent.state = "Sent" /\ moved.state = "Sent"
  <2>1. sent \in EntryRec /\ sent.state = "Sent"
    BY <1>2 DEF EntryRec, SendingStates
  <2> HIDE DEF sent
  <2>. QED BY <2>1 DEF EntryRec
<1>5. ix \in [Msgs -> EntryRec]
  <2> HIDE DEF sent
  <2>. QED BY <1>2, <1>4
<1>6. \/ /\ index' \in {ix, [index EXCEPT ![current] = moved], [index EXCEPT ![current] = entry]}
         /\ progress' = [progress EXCEPT !.state = "MovingEntry"]
         /\ ao' = RunsNext(ao, "Outbox", KErrNone)
      \/ \E e \in StoreErrors : OutboxAnswers(index, e)
      \/ \E e \in StoreErrors : OutboxAnswers(ix, e)
  <2>1. CASE OutboxMovesSent
    BY <1>2, <2>1 DEF OutboxMovesSent
  <2>2. CASE OutboxKeepsUnsent
    BY <1>2, <2>2 DEF OutboxKeepsUnsent
  <2>. QED BY <2>1, <2>2
<1>7. ~Outstanding(sent) /\ ~Outstanding(moved) /\ ~Outstanding(entry)
  BY <1>1, <1>4 DEF Outstanding, SettleInv, DecidedIsFinal, Deciding
<1> HIDE DEF sent, moved
<1>8. CASE /\ index' \in {ix, [index EXCEPT ![current] = moved], [index EXCEPT ![current] = entry]}
           /\ progress' = [progress EXCEPT !.state = "MovingEntry"]
           /\ ao' = RunsNext(ao, "Outbox", KErrNone)
  <2>1. ~Outstanding(index'[current]) /\ \A k \in Msgs : k # current => index'[k] = index[k]
    BY <1>2, <1>7, <1>8
  <2>2. progress'.state = "MovingEntry"
    BY <1>2, <1>8 DEF ProgressRec
  <2>3. NoneForgotten'
    BY <1>1, <1>2, <2>1, <2>2 DEF AnswerInv, NoneForgotten, Queued
  <2>4. ~Runnable("Mtm")'
    <3>1. ao'["Outbox"].active
      BY <1>2, <1>8 DEF RunsNext, TypedObjects, Objects
    <3>2. (IInv => (ao["Outbox"].active => ~Runnable("Mtm")))'
      BY MtmAwaitsOutbox, PTL
    <3>. QED BY <3>1, <3>2
  <2>. QED BY <2>2, <2>3, <2>4 DEF AnswerInv, CompleteIsLast, AnswerSettlesSelection
<1> HIDE DEF ix
<1>. QED BY <1>1, <1>2, <1>3, <1>5, <1>6, <1>8, AnsweringFailsOutstanding

\* Apart from putting a message back to waiting, the client makes none
\* outstanding.
LEMMA ClientKeepsAnswerInv ==
  ASSUME IInv, AnswerInv, "Resume" \notin ClientOps, ClientStep \/ UNCHANGED vars
  PROVE  AnswerInv'
<1>1. index \in [Msgs -> EntryRec] /\ selection \subseteq Msgs
  BY DEF IInv, Types, StoreTypes, TypedIndex, WorkTypes
<1>2. UNCHANGED <<progress, current, queue, selection, condMet, ao>>
  BY DEF ClientStep, outVars, vars
<1>3. ASSUME NEW k \in Msgs, Suspend(k) \/ Resume(k) \/ Delete(k) \/ DateArrives(k)
      PROVE  \A m \in Msgs : Outstanding(index'[m]) => Outstanding(index[m])
  <2>1. CASE Suspend(k)
    BY <1>1, <2>1 DEF Suspend, Outstanding, EntryRec
  <2>2. CASE Resume(k)
    BY <2>2 DEF Resume, ClientMay
  <2>3. CASE Delete(k)
    <3>1. [NullEntry EXCEPT !.id = k].state = "Unknown"
      BY DEF NullEntry
    <3>. QED BY <1>1, <2>3, <3>1 DEF Delete, Outstanding
  <2>4. CASE DateArrives(k)
    BY <1>1, <2>4 DEF DateArrives, Outstanding, EntryRec
  <2>. QED BY <1>3, <2>1, <2>2, <2>3, <2>4
<1>4. \A m \in Msgs : Outstanding(index'[m]) => Outstanding(index[m])
  <2>1. CASE UNCHANGED vars
    BY <2>1 DEF vars
  <2>. QED BY <1>3, <2>1 DEF ClientStep
<1>. QED BY <1>1, <1>2, <1>4 DEF AnswerInv, NoneForgotten, CompleteIsLast,
         AnswerSettlesSelection, Queued, Outstanding, Runnable

LEMMA StepKeepsAnswerInv ==
  ASSUME IInv, IInv', PlaceInv, GoneShape, GoneShape', SettleInv, AnswerInv,
         "Resume" \notin ClientOps, [Next]_vars
  PROVE  AnswerInv'
<1>1. CASE MtmRuns \/ MtmCancel
  <2>1. progress'.state = "Waiting" /\ ~Runnable("Mtm")'
    BY <1>1 DEF MtmRuns, MtmCancel, CompletesCommand, NewProgress, Runnable, IdleObject, Objects
  <2>. QED BY <2>1, WaitingKeepsAnswerInv DEF AnswerSettlesSelection
<1>2. CASE OutboxRunL
  BY <1>2, OutboxEndsKeepsAnswerInv, SendNextHeaderKeepsAnswerInv, DecidingKeepsAnswerInv,
     OutboxReSchedulesKeepsAnswerInv, OutboxMovesKeepsAnswerInv DEF OutboxRunL
<1>3. CASE SessionRuns \/ SendRunL \/ RcptRunL \/ Services \/ ProgressPoll
  BY <1>3, ObjectsBelowKeepAnswerInv
<1>. QED BY <1>1, <1>2, <1>3, RequestKeepsAnswerInv, ClientKeepsAnswerInv DEF Next

LEMMA InitAnswerInv == Init => AnswerInv
<1> SUFFICES ASSUME Init PROVE AnswerInv
  OBVIOUS
<1>1. progress.state = "Waiting"
  BY Zenon DEF Init, NewProgress
<1>2. ~Runnable("Mtm")
  BY Zenon DEF Init, Runnable, IdleObject, Objects
<1>. QED BY <1>1, <1>2 DEF AnswerInv, NoneForgotten, CompleteIsLast, AnswerSettlesSelection

\* AnswerSettlesSelection: when the outbox sender answers, no message it was
\* to send is left waiting or being sent. Resume is left out: the client may
\* put a message back to waiting after it has been dealt with.
THEOREM EveryMessageIsSettled ==
  "Resume" \notin ClientOps => (Spec => []AnswerSettlesSelection)
<1> SUFFICES ASSUME "Resume" \notin ClientOps PROVE Spec => []AnswerSettlesSelection
  OBVIOUS
<1> DEFINE Known == IInv /\ PlaceInv /\ StateInv /\ SettleInv
<1>1. Known /\ Known' /\ AnswerInv /\ [Next]_vars => AnswerInv'
  BY StepKeepsAnswerInv DEF StateInv
<1>2. Spec => []Known
  BY SpecKeepsSettleInv
<1>3. AnswerInv => AnswerSettlesSelection
  BY DEF AnswerInv
<1> HIDE DEF Known
<1>. QED BY <1>1, <1>2, <1>3, InitAnswerInv, PTL DEF Spec

-----------------------------------------------------------------------------
(* Nothing is left being sent                                              *)

Closed(e) == e.state # "Sending" /\ ~e.connected

AllClosed(ix) == \A m \in Msgs : Closed(ix[m])

\* An entry is opened for the message that CSmsSend is at work on, and stays
\* marked as being sent until the outbox sender has decided on it.
OpenIsCurrent ==
  \A m \in Msgs :
    /\ index[m].state = "Sending" => m = current /\ progress.state = "Sending"
    /\ index[m].connected => m = current /\ progress.state = "Sending" /\ ao["Send"].active

OutboxSends == progress.state = "Sending" => ao["Outbox"].active

\* CSmsSend closes the entry and writes it before it answers.
WrittenBack ==
  progress.state = "Sending" /\ ~ao["Send"].active /\ Exists(current)
    => index[current].state = entry.state /\ ~entry.connected

DecidedIsClosed == progress.state \in Deciding => ~entry.connected

RestInv == OpenIsCurrent /\ OutboxSends /\ WrittenBack /\ DecidedIsClosed

LEMMA NotSendingIsClosed ==
  ASSUME RestInv, progress.state # "Sending"
  PROVE  AllClosed(index)
BY DEF RestInv, OpenIsCurrent, AllClosed, Closed

LEMMA ElsewhereKeepsRestInv ==
  ASSUME progress'.state \notin Working, AllClosed(index')
  PROVE  RestInv'
BY DEF RestInv, OpenIsCurrent, OutboxSends, WrittenBack, DecidedIsClosed, AllClosed, Closed,
   Working

LEMMA DecidingKeepsRestInv ==
  ASSUME progress'.state \in Deciding, AllClosed(index'), ~entry'.connected
  PROVE  RestInv'
BY DEF RestInv, OpenIsCurrent, OutboxSends, WrittenBack, DecidedIsClosed, AllClosed, Closed,
   Deciding, LogStates

\* Only the current message may be open; CSmsSend goes on with it, or it has
\* written the entry back.
LEMMA SendingKeepsRestInv ==
  ASSUME progress'.state = "Sending", ao'["Outbox"].active,
         \A m \in Msgs : m # current' => Closed(index'[m]),
         \/ ao'["Send"].active
         \/ /\ current' \in Msgs => ~index'[current'].connected
            /\ Exists(current)' => index'[current'].state = entry'.state /\ ~entry'.connected
  PROVE  RestInv'
BY DEF RestInv, OpenIsCurrent, OutboxSends, WrittenBack, DecidedIsClosed, Closed, Deciding,
   LogStates

\* When CSmsSend is at rest no entry is connected.
LEMMA AtRestIsClosed ==
  ASSUME RestInv, ~ao["Send"].active
  PROVE  \A m \in Msgs : ~index[m].connected /\ (m # current => Closed(index[m]))
BY DEF RestInv, OpenIsCurrent, Closed

\* Nothing but OpenEntryL marks an entry as being sent or connected.
LEMMA ClosedStays ==
  ASSUME NEW e \in EntryRec, Closed(e)
  PROVE  /\ \A rs, act : Closed(ReScheduledEntry(e, rs, act))
         /\ \A err : /\ Closed(FailIfOutstanding(e, err, "Failed"))
                     /\ Closed(FailIfOutstanding(e, err, "Suspended"))
BY DEF Closed, ReScheduledEntry, FailIfOutstanding, EntryRec

LEMMA DividedIsClosed ==
  ASSUME IInv, AllClosed(index), NEW all, NEW acc
  PROVE  /\ AllClosed(Divided(all))
         /\ AllClosed(MadeWaiting(Divided(all), acc))
<1>1. TypedIndex(index) /\ TypedIndex(Divided(all))
  BY DividedTyped DEF IInv, Types, StoreTypes
<1>2. ASSUME NEW m \in Msgs PROVE Closed(Divided(all)[m])
  <2>1. index[m] \in EntryRec /\ Closed(index[m])
    BY <1>1 DEF TypedIndex, AllClosed
  <2>2. \/ Divided(all)[m] = index[m]
        \/ Divided(all)[m] = [index[m] EXCEPT !.state = "Waiting"]
        \/ Divided(all)[m] = [index[m] EXCEPT !.failed = TRUE, !.state = "Failed",
                                              !.err = KErrUnknownBioType]
    BY DEF Divided
  <2>3. /\ Closed([index[m] EXCEPT !.state = "Waiting"])
        /\ Closed([index[m] EXCEPT !.failed = TRUE, !.state = "Failed",
                                   !.err = KErrUnknownBioType])
    BY <2>1 DEF Closed, EntryRec
  <2>. QED BY <2>1, <2>2, <2>3
<1>3. ASSUME NEW m \in Msgs PROVE Closed(MadeWaiting(Divided(all), acc)[m])
  <2> DEFINE e == Divided(all)[m]
  <2>1. MadeWaiting(Divided(all), acc)[m] \in {e, [e EXCEPT !.state = "Waiting"]}
    BY DEF MadeWaiting
  <2>2. e \in EntryRec /\ Closed(e)
    BY <1>1, <1>2 DEF TypedIndex
  <2> HIDE DEF e
  <2>3. Closed([e EXCEPT !.state = "Waiting"])
    BY <2>2 DEF Closed, EntryRec
  <2>. QED BY <2>1, <2>2, <2>3
<1>. QED BY <1>2, <1>3 DEF AllClosed

LEMMA RequestKeepsRestInv ==
  ASSUME IInv, PlaceInv, RestInv, Request
  PROVE  RestInv'
<1>1. PICK sel \in SUBSET Msgs :
        \/ StartSend(sel)
        \/ StartFindsNothing(sel)
        \/ \E err \in StoreErrors \cup {KErrNone} :
             \E done \in SUBSET Accepted(sel \cup Found(sel)) :
               StartReSchedules(sel, err, done)
        \/ \E e \in StoreErrors : \E found \in SUBSET Found(sel) :
             \E done \in SUBSET (sel \cup found) : StartFails(sel, e, found, done)
  BY RequestCases
<1>2. AllClosed(index)
  <2>1. ~ao["Mtm"].report
    BY RequestStarts DEF Starts
  <2>2. ~ao["Outbox"].active
    BY <2>1, BelowIsAtRest DEF IInv, Objects
  <2>. QED BY <2>2, NotSendingIsClosed DEF RestInv, OutboxSends
<1> DEFINE all == sel \cup Found(sel)
<1>3. TypedIndex(Divided(all))
  BY DividedTyped DEF IInv, Types, StoreTypes
<1>4. ASSUME NEW err, NEW done, StartReSchedules(sel, err, done)
      PROVE  AllClosed(index')
  <2>1. index' = [m \in Msgs |-> IF m \in done
                                   THEN ReScheduledEntry(Divided(all)[m], header[m], CondActions(m))
                                   ELSE Divided(all)[m]]
    BY <1>4, Zenon DEF StartReSchedules, all
  <2> SUFFICES ASSUME NEW m \in Msgs PROVE Closed(index'[m])
    BY DEF AllClosed
  <2>2. Divided(all)[m] \in EntryRec /\ Closed(Divided(all)[m])
    BY <1>2, <1>3, DividedIsClosed DEF TypedIndex, AllClosed
  <2> HIDE DEF all
  <2>3. Closed(ReScheduledEntry(Divided(all)[m], header[m], CondActions(m)))
    BY <2>2, ClosedStays
  <2>. QED BY <2>1, <2>2, <2>3
<1>5. AllClosed(index')
  <2>1. CASE StartSend(sel)
    <3>1. index' = MadeWaiting(Divided(all), Accepted(all))
      BY <2>1, Zenon DEF StartSend, all
    <3>. QED BY <1>2, <3>1, DividedIsClosed
  <2>2. CASE StartFindsNothing(sel)
    <3>1. index' = Divided(all)
      BY <2>2, Zenon DEF StartFindsNothing, all
    <3>. QED BY <1>2, <3>1, DividedIsClosed
  <2>3. ASSUME NEW e, NEW found, NEW done, StartFails(sel, e, found, done)
        PROVE  AllClosed(index')
    <3>1. index' = Divided(done)
      BY <2>3, Zenon DEF StartFails
    <3>. QED BY <1>2, <3>1, DividedIsClosed
  <2>. QED BY <1>1, <1>4, <2>1, <2>2, <2>3
<1>. QED BY <1>5, RequestPlaces, ElsewhereKeepsRestInv DEF Working, Deciding, LogStates

\* FailOutstandingMessages closes the messages of the selection.
LEMMA FailingCloses ==
  ASSUME NEW ix \in [Msgs -> EntryRec], NEW err, NEW st \in {"Failed", "Suspended"},
         \A m \in Msgs : \/ Closed(ix[m])
                         \/ m \in selection /\ ix[m].folder # "None" /\ ix[m].state = "Sending"
  PROVE  AllClosed(FailOutstanding(ix, selection, err, st))
<1> SUFFICES ASSUME NEW m \in Msgs
             PROVE  Closed(FailOutstanding(ix, selection, err, st)[m])
  BY DEF AllClosed
<1>1. FailOutstanding(ix, selection, err, st)[m] =
        IF m \in selection /\ ix[m].folder # "None" THEN FailIfOutstanding(ix[m], err, st)
        ELSE ix[m]
  BY DEF FailOutstanding
<1>2. ix[m] \in EntryRec
  OBVIOUS
<1>3. Closed(ix[m]) \/ ix[m].state = "Sending" => Closed(FailIfOutstanding(ix[m], err, st))
  BY <1>2 DEF FailIfOutstanding, Closed, EntryRec
<1>. QED BY <1>1, <1>3

LEMMA OutboxEndsKeepsRestInv ==
  ASSUME IInv, GoneShape, SettleInv, RestInv, OutboxFails \/ OutboxCompletes
  PROVE  RestInv'
<1>1. index \in [Msgs -> EntryRec]
  BY DEF IInv, Types, StoreTypes, TypedIndex
<1>2. ~ao["Send"].active
  BY BelowIsAtRest DEF OutboxFails, OutboxCompletes, OutboxRuns, Runnable, Done, IInv
<1>3. \A m \in Msgs : \/ Closed(index[m])
                      \/ m \in selection /\ index[m].folder # "None" /\ index[m].state = "Sending"
  BY <1>2 DEF RestInv, OpenIsCurrent, GoneShape, Closed, SettleInv, FromSelection, Working
<1>4. CASE OutboxFails
  <2>1. PICK err : index' = FailOutstanding(index, selection, err, "Failed")
    BY <1>4 DEF OutboxFails, OutboxAnswers
  <2>2. AllClosed(index')
    BY <1>1, <1>3, <2>1, FailingCloses
  <2>. QED BY <1>4, <2>2, AnsweringWaits, ElsewhereKeepsRestInv
           DEF OutboxFails, Working, Deciding, LogStates
<1>5. CASE OutboxCompletes
  <2>1. \/ index' = index
        \/ \E err : index' = FailOutstanding(index, selection, err, "Failed")
    BY <1>5 DEF OutboxCompletes, OutboxAnswers
  <2>2. AllClosed(index)
    BY <1>5, NotSendingIsClosed DEF OutboxCompletes, OutboxRuns
  <2>3. AllClosed(index')
    BY <1>1, <1>3, <2>1, <2>2, FailingCloses
  <2>. QED BY <1>5, <2>3, AnsweringWaits, ElsewhereKeepsRestInv
           DEF OutboxCompletes, Working, Deciding, LogStates
<1>. QED BY <1>4, <1>5

LEMMA SendNextHeaderKeepsRestInv ==
  ASSUME IInv, PlaceInv, GoneShape, RestInv, OutboxSendsNext \/ OutboxMessageDeleted
  PROVE  RestInv'
<1>1. /\ Done(ao, "Outbox") /\ SendNextHeaderL
      /\ \/ progress.state \in {"FindingOtherMessages", "MovingEntry"}
         \/ progress.state = "Sending" /\ ~Exists(entry.id)
  BY DEF OutboxSendsNext, OutboxMessageDeleted, OutboxRuns, Runnable, Done
<1>2. ~ao["Send"].active
  BY <1>1, BelowIsAtRest DEF IInv
<1>3. AllClosed(index)
  <2>1. CASE progress.state = "Sending" /\ ~Exists(entry.id)
    <3>1. current \in Msgs /\ index[current].folder = "None"
      BY <2>1, StoreAssumption, SendingPlace DEF Exists
    <3>2. Closed(index[current])
      BY <3>1 DEF GoneShape, Closed
    <3>. QED BY <1>2, <3>2, AtRestIsClosed DEF AllClosed
  <2>. QED BY <1>1, <2>1, NotSendingIsClosed
<1>4. CASE progress'.state = "Complete" /\ index' = index
  BY <1>3, <1>4, ElsewhereKeepsRestInv DEF Working, Deciding, LogStates
<1>5. CASE progress'.state = "Sending" /\ \A m \in Msgs : m # current' => index'[m] = index[m]
  <2>1. PICK m \in Msgs : \E p \in ProgressRec : TakesUp(m, p)
    BY <1>1, <1>5, NextMessage
  <2>2. PICK err \in Errors : ao' = ChainStarts(err)
    BY <2>1, ErrorsKnown DEF TakesUp, OpensEntry, OpenFindsNoRecipient, OpenCannotChange,
       OpenCannotRead, KErrNone, KErrNotFound
  <2>3. ChainStarts(err)["Send"] = [active |-> TRUE, status |-> err, report |-> TRUE]
    BY <1>1, ChainStartsTyped
  <2>4. ao'["Send"].active /\ ao'["Outbox"].active
    BY <1>1, <2>2, <2>3, NextChangesCurrent
  <2>5. \A k \in Msgs : k # current' => Closed(index'[k])
    BY <1>3, <1>5 DEF AllClosed
  <2>. QED BY <1>5, <2>4, <2>5, SendingKeepsRestInv
<1>. QED BY <1>1, <1>4, <1>5, NextChangesCurrent

LEMMA OutboxSendingDoneKeepsRestInv ==
  ASSUME IInv, PlaceInv, SettleInv, RestInv, OutboxSendingDone
  PROVE  RestInv'
<1>1. /\ progress.state = "Sending" /\ Done(ao, "Outbox")
      /\ ctx = entry.id \/ Exists(entry.id)
      /\ ~(JudgedEntry.failed /\ JudgedEntry.state # "Suspended")
      /\ entry' = [JudgedEntry EXCEPT !.scheduled = FALSE]
      /\ progress' = [progress EXCEPT !.state = "ReScheduling"]
      /\ index' = index
  BY DEF OutboxSendingDone, OutboxRuns, Runnable, Done, storeVars
<1>2. /\ current \in Msgs /\ entry.id = current /\ JudgedEntry \in EntryRec
      /\ entry \in EntryRec /\ progress \in ProgressRec
  BY <1>1, JudgedTyped DEF IInv, Types, MemTypes, WorkTypes
<1>3. ~ao["Send"].active
  BY <1>1, BelowIsAtRest DEF IInv
<1>4. index[current].folder = "Outbox"
  BY <1>1, SendingIsInOutbox
<1>5. Exists(current)
  BY <1>2, <1>4, StoreAssumption DEF Exists
<1>6. ctx = entry.id
  BY <1>1, <1>2, <1>3, <1>5 DEF SettleInv, StaysLocked
<1>7. /\ JudgedEntry.connected = entry.connected
      /\ progress.error # KErrNone \/ entry.failed => JudgedEntry.failed
      /\ JudgedEntry.state = entry.state
  BY <1>2, <1>6 DEF JudgedEntry, EntryRec
<1>8. entry.state \in {"Sent", "Suspended"}
  BY <1>1, <1>3, <1>7 DEF SettleInv, NoErrorMeansDone
<1>9. index[current].state = entry.state /\ ~entry.connected
  BY <1>1, <1>3, <1>5 DEF RestInv, WrittenBack
<1>10. AllClosed(index')
  BY <1>1, <1>3, <1>8, <1>9, AtRestIsClosed DEF AllClosed, Closed
<1>11. ~entry'.connected
  BY <1>1, <1>2, <1>7, <1>9 DEF EntryRec
<1>12. progress'.state \in Deciding
  BY <1>1, <1>2 DEF ProgressRec, Deciding
<1>. QED BY <1>10, <1>11, <1>12, DecidingKeepsRestInv

LEMMA OutboxReSchedulesKeepsRestInv ==
  ASSUME StoreErrors = {}, IInv, PlaceInv, RestInv, OutboxReSchedules
  PROVE  RestInv'
<1> DEFINE m   == entry.id
           new == ReScheduledEntry(index[m], header[m], ListedActions(header[m]))
           ix  == [index EXCEPT ![m] = new]
<1>1. /\ progress.state = "Sending" /\ Done(ao, "Outbox")
      /\ ctx = entry.id \/ Exists(entry.id)
      /\ index' = ix /\ entry' = ix[m] /\ progress' = [progress EXCEPT !.state = "ReScheduling"]
  BY Zenon DEF OutboxReSchedules, OutboxRuns, Runnable, Done
<1>2. m \in Msgs /\ m = current /\ index \in [Msgs -> EntryRec] /\ progress \in ProgressRec
  BY <1>1, SendingIsInOutbox DEF IInv, Types, StoreTypes, TypedIndex, WorkTypes
<1>3. ~ao["Send"].active
  BY <1>1, BelowIsAtRest DEF IInv
<1>4. \A k \in Msgs : ~index[k].connected /\ (k # current => Closed(index[k]))
  BY <1>3, AtRestIsClosed
<1>5. new.state \in {"Sent", "Resend", "Failed"} /\ ~new.connected
  <2>1. index[m] \in EntryRec /\ ~index[m].connected
    BY <1>2, <1>4
  <2>2. \A rs, act : ~ReScheduledEntry(index[m], rs, act).connected
    BY <2>1 DEF ReScheduledEntry, EntryRec
  <2>. QED BY <2>1, <2>2, ReScheduledIsFinal
<1> HIDE DEF m, new
<1>6. AllClosed(index') /\ ~entry'.connected
  BY <1>1, <1>2, <1>4, <1>5 DEF AllClosed, Closed
<1>7. progress'.state \in Deciding
  BY <1>1, <1>2 DEF ProgressRec, Deciding
<1>. QED BY <1>6, <1>7, DecidingKeepsRestInv

LEMMA OutboxMovesKeepsRestInv ==
  ASSUME StoreErrors = {}, IInv, PlaceInv, SettleInv, RestInv, OutboxMovesSent \/ OutboxKeepsUnsent
  PROVE  RestInv'
<1> DEFINE sent  == [entry EXCEPT !.connected = FALSE, !.failed = FALSE, !.state = "Sent"]
           moved == [sent EXCEPT !.folder = "Sent"]
<1>1. progress.state = "LogEntryComplete"
  BY DEF OutboxMovesSent, OutboxKeepsUnsent, OutboxRuns
<1>2. /\ entry \in EntryRec /\ index \in [Msgs -> EntryRec] /\ progress \in ProgressRec
      /\ AllClosed(index)
  BY <1>1, NotSendingIsClosed DEF IInv, Types, StoreTypes, TypedIndex, MemTypes, WorkTypes
<1>3. \E e \in {sent, moved, entry} : index' = [index EXCEPT ![entry.id] = e]
  <2>1. CASE OutboxMovesSent
    BY <2>1 DEF OutboxMovesSent
  <2>2. CASE OutboxKeepsUnsent
    BY <2>2 DEF OutboxKeepsUnsent
  <2>. QED BY <2>1, <2>2
<1>4. progress' = [progress EXCEPT !.state = "MovingEntry"]
  BY Zenon DEF OutboxMovesSent, OutboxKeepsUnsent
<1>5. Closed(entry)
  BY <1>1 DEF SettleInv, DecidedIsFinal, RestInv, DecidedIsClosed, Closed, Deciding
<1>6. Closed(sent) /\ Closed(moved)
  <2>1. sent \in EntryRec /\ Closed(sent)
    BY <1>2 DEF Closed, EntryRec, SendingStates
  <2> HIDE DEF sent
  <2>. QED BY <2>1 DEF Closed, EntryRec
<1> HIDE DEF sent, moved
<1>7. AllClosed(index')
  BY <1>2, <1>3, <1>5, <1>6 DEF AllClosed
<1>8. progress'.state \notin Working
  BY <1>2, <1>4 DEF ProgressRec, Working, Deciding, LogStates
<1>. QED BY <1>7, <1>8, ElsewhereKeepsRestInv

LEMMA OutboxRunLKeepsRestInv ==
  ASSUME StoreErrors = {}, IInv, PlaceInv, GoneShape, SettleInv, RestInv, OutboxRunL
  PROVE  RestInv'
<1>1. CASE OutboxReScheduled \/ OutboxGotLogEvent \/ OutboxWroteLogEvent
  <2>1. progress.state \in Deciding /\ UNCHANGED <<index, entry>>
    BY <1>1 DEF OutboxReScheduled, OutboxGotLogEvent, OutboxWroteLogEvent, OutboxRuns,
       storeVars, Deciding, LogStates
  <2>2. AllClosed(index) /\ ~entry.connected
    BY <2>1, NotSendingIsClosed DEF RestInv, DecidedIsClosed, Deciding, LogStates
  <2>. QED BY <1>1, <2>1, <2>2, LoggingGoesOn, DecidingKeepsRestInv
<1>. QED BY <1>1, OutboxEndsKeepsRestInv, SendNextHeaderKeepsRestInv,
         OutboxSendingDoneKeepsRestInv, OutboxReSchedulesKeepsRestInv,
         OutboxMovesKeepsRestInv DEF OutboxRunL

LEMMA AllTriedIsClosed ==
  ASSUME NEW e \in EntryRec, NEW sn, NEW n
  PROVE  ~EntryAfterAllSent(e, sn, n).connected
BY DEF EntryAfterAllSent, EntryRec

\* CSmsSend completes with an error: when nothing goes wrong with the store,
\* it has written the entry back.
LEMMA SendCompletedCloses ==
  ASSUME IInv, NEW s, TypedSnapshot(s), s.index = index, s.entry.id \in Msgs,
         NEW e \in Errors
  PROVE  LET r == SendCompleted(s, e, TRUE)
             m == s.entry.id
         IN  /\ index[m].folder # "None" => r.index[m] = r.entry /\ ~r.entry.connected
             /\ index[m].folder = "None" => r.index = index
             /\ \A k \in Msgs : k # m => r.index[k] = index[k]
<1> DEFINE m    == s.entry.id
           read == [index[m] EXCEPT !.err = e]
           done == EntryAfterAllSent(read, s.send, s.progress.rcpCount)
           r    == SendCompleted(s, e, TRUE)
<1>1. m # NoMsg /\ index \in [Msgs -> EntryRec]
  BY StoreAssumption DEF IInv, Types, StoreTypes, TypedIndex
<1>2. /\ index[m].folder # "None" => r.index = [index EXCEPT ![m] = done] /\ r.entry = done
      /\ index[m].folder = "None" => r.index = index
  BY <1>1 DEF SendCompleted, Snapshot
<1>3. ~done.connected
  <2>1. read \in EntryRec
    BY <1>1 DEF EntryRec
  <2> HIDE DEF read
  <2>. QED BY <2>1, AllTriedIsClosed
<1> HIDE DEF done, r
<1>4. /\ index[m].folder # "None" => r.index[m] = r.entry /\ ~r.entry.connected
      /\ index[m].folder = "None" => r.index = index
      /\ \A k \in Msgs : k # m => r.index[k] = index[k]
  BY <1>1, <1>2, <1>3
<1>. QED BY <1>4 DEF m, r

LEMMA SendRunLKeepsRestInv ==
  ASSUME StoreErrors = {}, IInv, PlaceInv, GoneShape, RestInv, SendRunL
  PROVE  RestInv'
<1>1. /\ progress.state = "Sending" /\ current' = current /\ ao'["Outbox"].active
      /\ \A m \in Msgs : m # current => index'[m] = index[m]
  BY SendRunLCases, OutboxStaysActive, BelowChangesCurrent
<1>2. current \in Msgs /\ index \in [Msgs -> EntryRec] /\ NoMsg \notin Msgs
  BY <1>1, SendingPlace, StoreAssumption DEF IInv, Types, StoreTypes, TypedIndex
<1>3. \A m \in Msgs : m # current' => Closed(index'[m])
  BY <1>1 DEF RestInv, OpenIsCurrent, Closed
<1>4. CASE ao'["Send"].active /\ progress'.state = "Sending"
  BY <1>1, <1>3, <1>4, SendingKeepsRestInv
<1>5. CASE /\ entry' = EntryAfterAllSent(entry, send, progress.rcpCount)
           /\ index' = [index EXCEPT ![current] = entry']
           /\ progress'.state = "Sending"
  <2>1. ~entry'.connected
    BY <1>5, AllTriedIsClosed DEF IInv, Types, MemTypes
  <2>2. index'[current] = entry'
    BY <1>2, <1>5
  <2>. QED BY <1>1, <1>3, <1>5, <2>1, <2>2, SendingKeepsRestInv
<1>6. ASSUME NEW s, NEW e \in Errors \ {KErrNone}, NEW st \in Stores,
             TypedSnapshot(s), s.index = index, s.entry.id = current,
             s.progress.state = "Sending", Becomes(SendCompleted(s, e, st))
      PROVE  RestInv'
  <2> DEFINE r == SendCompleted(s, e, TRUE)
  <2>1. st = TRUE
    BY DEF Stores
  <2>2. /\ index[current].folder # "None" => r.index[current] = r.entry /\ ~r.entry.connected
        /\ index[current].folder = "None" => r.index = index
    BY <1>2, <1>6, SendCompletedCloses
  <2>3. r.progress.state = "Sending"
    BY <1>6, SendCompletedTyped
  <2> HIDE DEF r
  <2>4. index' = r.index /\ entry' = r.entry /\ progress' = r.progress
    BY <1>6, <2>1 DEF Becomes, r
  <2>5. CASE index[current].folder # "None"
    BY <1>1, <1>3, <2>2, <2>3, <2>4, <2>5, SendingKeepsRestInv
  <2>6. CASE index[current].folder = "None"
    <3>1. ~Exists(current)' /\ ~index'[current].connected
      BY <1>1, <1>2, <2>2, <2>4, <2>6 DEF Exists, GoneShape
    <3>. QED BY <1>1, <1>3, <2>3, <2>4, <3>1, SendingKeepsRestInv
  <2>. QED BY <2>5, <2>6
<1>. QED BY <1>4, <1>5, <1>6, SendRunLCases

\* A step that leaves the entries and CSmsSend alone.
LEMMA ElsewhereSendingKeepsRestInv ==
  ASSUME RestInv, UNCHANGED <<index, entry, current>>, progress'.state = progress.state,
         ao'["Send"].active = ao["Send"].active,
         progress.state = "Sending" => ao'["Outbox"].active
  PROVE  RestInv'
BY DEF RestInv, OpenIsCurrent, OutboxSends, WrittenBack, DecidedIsClosed, Exists

LEMMA OthersKeepRestInv ==
  ASSUME IInv, PlaceInv, RestInv, SessionRuns \/ RcptRunL \/ Services
  PROVE  RestInv'
<1>1. ao \in TypedObjects
  BY DEF IInv, Types, WorkTypes
<1>2. UNCHANGED <<index, entry, current>>
  <2>1. CASE SessionRuns \/ Services
    BY <2>1 DEF SessionRuns, Services, LoggerCompletes, SocketCompletes, storeVars, memVars
  <2>2. CASE RcptRunL
    BY <2>2, RcptRunLMoves DEF RcptMoves
  <2>. QED BY <2>1, <2>2
<1>3. ao'["Send"].active = ao["Send"].active
  <2>1. CASE SessionRuns
    BY <1>1, <2>1 DEF SessionRuns, Answers, Parent, TypedObjects, Objects
  <2>2. CASE RcptRunL
    <3>1. ao' \in {Answers(ao, "Rcpt", KErrNone), Awaits(ao, "Rcpt")}
      BY <2>2, RcptRunLMoves DEF RcptMoves
    <3>. QED BY <1>1, <3>1 DEF Answers, Parent, Awaits, TypedObjects, Objects
  <2>3. CASE Services
    BY <1>1, <2>3 DEF Services, LoggerCompletes, SocketCompletes, TypedObjects, Objects
  <2>. QED BY <2>1, <2>2, <2>3
<1>. QED BY <1>2, <1>3, OutboxStaysActive, BelowChangesCurrent, ElsewhereSendingKeepsRestInv

\* A cancelled session, too, leaves the entry closed and written back.
LEMMA SessionCancelledCloses ==
  ASSUME IInv, PlaceInv, GoneShape, RestInv, progress.state = "Sending"
  PROVE  LET r == SessionCancelled(TRUE)
         IN  /\ \A m \in Msgs : m # current => r.index[m] = index[m]
             /\ ~r.index[current].connected
             /\ index[current].folder # "None" =>
                  r.index[current].state = r.entry.state /\ ~r.entry.connected
<1> DEFINE p1 == IF ao["Rcpt"].active THEN [progress EXCEPT !.error = KErrCancel] ELSE progress
           s1 == Snapshot(index, entry, p1, send, ctx)
           s2 == IF ao["Send"].active THEN SendCompleted(s1, KErrCancel, TRUE) ELSE s1
           p2 == [s2.progress EXCEPT !.error = IF @ = KErrNone THEN KErrCancel ELSE @]
           r  == SessionCancelled(TRUE)
<1>1. current \in Msgs /\ entry.id = current /\ NoMsg \notin Msgs /\ KErrCancel \in Errors
  BY SendingPlace, StoreAssumption, ErrorsKnown
<1>2. TypedSnapshot(s1) /\ s1.index = index /\ s1.entry = entry
  <2>1. /\ TypedIndex(index) /\ entry \in EntryRec /\ progress \in ProgressRec
        /\ send \in SendRec /\ ctx \in Ids
    BY DEF IInv, Types, StoreTypes, MemTypes, WorkTypes
  <2>2. p1 \in ProgressRec
    <3>1. [progress EXCEPT !.error = KErrCancel] \in ProgressRec
      BY <2>1, ErrorsKnown DEF ProgressRec
    <3>. QED BY <2>1, <3>1
  <2> HIDE DEF p1
  <2>. QED BY <2>1, <2>2, SnapshotTyped
<1>3. r.index = s2.index /\ r.entry = s2.entry
  <2>1. r = IF ao["Session"].active THEN Snapshot(s2.index, s2.entry, p2, s2.send, s2.ctx) ELSE s1
    BY Zenon DEF SessionCancelled
  <2>2. ~ao["Session"].active => ~ao["Send"].active
    BY BelowIsAtRest DEF IInv, Waits
  <2>3. ~ao["Session"].active => s2 = s1
    BY <2>2
  <2> HIDE DEF s1, s2, p2, r
  <2>. QED BY <2>1, <2>3, SnapshotFields
<1> HIDE DEF s1, r
<1>4. CASE ao["Send"].active
  <2>1. s2 = SendCompleted(s1, KErrCancel, TRUE)
    BY <1>4
  <2>2. /\ index[current].folder # "None" => s2.index[current] = s2.entry /\ ~s2.entry.connected
        /\ index[current].folder = "None" => s2.index = index
        /\ \A k \in Msgs : k # current => s2.index[k] = index[k]
    <3> HIDE DEF s2
    <3>. QED BY <1>1, <1>2, <2>1, SendCompletedCloses
  <2> HIDE DEF s2
  <2>3. ~s2.index[current].connected
    BY <1>1, <2>2 DEF GoneShape
  <2>. QED BY <1>3, <2>2, <2>3 DEF r
<1>5. CASE ~ao["Send"].active
  <2>1. s2.index = index /\ s2.entry = entry
    BY <1>2, <1>5
  <2>2. index[current].folder # "None" => index[current].state = entry.state /\ ~entry.connected
    BY <1>1, <1>5 DEF RestInv, WrittenBack, Exists
  <2> HIDE DEF s2
  <2>. QED BY <1>1, <1>3, <1>5, <2>1, <2>2, AtRestIsClosed DEF r
<1>. QED BY <1>4, <1>5

LEMMA PollKeepsRestInv ==
  ASSUME StoreErrors = {}, IInv, PlaceInv, GoneShape, RestInv, ProgressPoll
  PROVE  RestInv'
<1> DEFINE r == SessionCancelled(TRUE)
<1>1. /\ progress.state = "Sending" /\ current' = current
      /\ index' = r.index /\ entry' = r.entry
  BY DEF ProgressPoll, Stores, Becomes
<1>2. /\ \A m \in Msgs : m # current => r.index[m] = index[m]
      /\ ~r.index[current].connected
      /\ index[current].folder # "None" => r.index[current].state = r.entry.state /\ ~r.entry.connected
  BY <1>1, SessionCancelledCloses
<1> HIDE DEF r
<1>3. progress'.state = "Sending" /\ ao'["Outbox"].active
  BY <1>1, OutboxStaysActive, BelowChangesCurrent
<1>4. \A m \in Msgs : m # current' => Closed(index'[m])
  BY <1>1, <1>2 DEF RestInv, OpenIsCurrent, Closed
<1>5. Exists(current)' => index[current].folder # "None"
  <2>1. Spares(index') /\ current \in Msgs
    BY <1>1, StepSpares, SendingPlace DEF Next
  <2>. QED BY <1>1, <2>1 DEF Exists, Spares
<1>. QED BY <1>1, <1>2, <1>3, <1>4, <1>5, SendingKeepsRestInv

LEMMA MtmKeepsRestInv ==
  ASSUME StoreErrors = {}, IInv, PlaceInv, GoneShape, SettleInv, RestInv, MtmRuns \/ MtmCancel
  PROVE  RestInv'
<1>1. progress'.state \notin Working
  BY DEF MtmRuns, MtmCancel, CompletesCommand, NewProgress, Working, Deciding, LogStates
<1>2. CASE ~ao["Outbox"].active
  <2>1. index' = index
    BY <1>2 DEF MtmRuns, MtmCancel, storeVars
  <2>2. AllClosed(index)
    BY <1>2, NotSendingIsClosed DEF RestInv, OutboxSends
  <2>. QED BY <1>1, <2>1, <2>2, ElsewhereKeepsRestInv
<1>3. CASE ao["Outbox"].active
  <2> DEFINE ix == IF progress.state = "Sending" THEN SessionCancelled(TRUE).index ELSE index
  <2>1. MtmCancel
    BY <1>3, MtmAwaitsOutbox DEF MtmRuns
  <2>2. index' = FailOutstanding(ix, selection, KErrCancel, "Suspended")
    BY <1>3, <2>1 DEF MtmCancel, Stores
  <2>3. ix \in [Msgs -> EntryRec]
    <3>1. TypedIndex(index) /\ TypedIndex(SessionCancelled(TRUE).index)
      BY SessionCancelledTyped DEF TypedSnapshot, IInv, Types, StoreTypes
    <3>. QED BY <3>1 DEF TypedIndex
  <2>4. \A m \in Msgs : \/ Closed(ix[m])
                        \/ m \in selection /\ ix[m].folder # "None" /\ ix[m].state = "Sending"
    <3>1. CASE progress.state # "Sending"
      BY <3>1, NotSendingIsClosed DEF AllClosed
    <3>2. CASE progress.state = "Sending"
      <4>1. /\ \A m \in Msgs : m # current => ix[m] = index[m]
            /\ ~ix[current].connected
        BY <3>2, SessionCancelledCloses
      <4>2. Spares(ix) /\ \A m \in Msgs : ix[m].folder = index[m].folder
        BY <3>2, SessionCancelledSpares, SessionCancelledPlaces DEF EndsInPlace
      <4>3. current \in Msgs /\ current \in selection
        BY <3>2, SendingPlace DEF SettleInv, FromSelection, Working
      <4> HIDE DEF ix
      <4>4. ix[current].folder = "None" => ix[current].state = "Unknown"
        BY <4>2, <4>3 DEF Spares, GoneShape
      <4>5. \A m \in Msgs : m # current => Closed(ix[m])
        BY <3>2, <4>1 DEF RestInv, OpenIsCurrent, Closed
      <4>. QED BY <4>1, <4>3, <4>4, <4>5 DEF Closed
    <3>. QED BY <3>1, <3>2
  <2> HIDE DEF ix
  <2>5. AllClosed(index')
    BY <2>2, <2>3, <2>4, FailingCloses
  <2>. QED BY <1>1, <2>5, ElsewhereKeepsRestInv
<1>. QED BY <1>2, <1>3

\* The client opens no entry, and has no say over the one that CSmsSend has
\* written back: it is locked until the outbox sender has decided.
LEMMA ClientKeepsRestInv ==
  ASSUME IInv, PlaceInv, SettleInv, RestInv, ClientStep \/ UNCHANGED vars
  PROVE  RestInv'
<1>1. index \in [Msgs -> EntryRec]
  BY DEF IInv, Types, StoreTypes, TypedIndex
<1>2. UNCHANGED <<progress, current, entry, ao, ctx>>
  BY DEF ClientStep, memVars, vars
<1>3. ASSUME NEW k \in Msgs, Suspend(k) \/ Resume(k) \/ Delete(k) \/ DateArrives(k)
      PROVE  \A m \in Msgs : /\ index'[m].state = "Sending" => index[m].state = "Sending"
                             /\ index'[m].connected => index[m].connected
                             /\ index'[m].folder # "None" => index[m].folder # "None"
                             /\ ctx = m => index'[m].state = index[m].state
  <2>1. CASE Suspend(k)
    BY <1>1, <2>1 DEF Suspend, ClientMay, EntryRec
  <2>2. CASE Resume(k)
    BY <1>1, <2>2 DEF Resume, ClientMay, EntryRec
  <2>3. CASE Delete(k)
    <3>1. /\ [NullEntry EXCEPT !.id = k].state = "Unknown"
          /\ ~[NullEntry EXCEPT !.id = k].connected
          /\ [NullEntry EXCEPT !.id = k].folder = "None"
      BY DEF NullEntry
    <3>. QED BY <1>1, <2>3, <3>1 DEF Delete, ClientMay
  <2>4. CASE DateArrives(k)
    BY <1>1, <2>4 DEF DateArrives, EntryRec
  <2>. QED BY <1>3, <2>1, <2>2, <2>3, <2>4
<1>4. \A m \in Msgs : /\ index'[m].state = "Sending" => index[m].state = "Sending"
                      /\ index'[m].connected => index[m].connected
                      /\ index'[m].folder # "None" => index[m].folder # "None"
                      /\ ctx = m => index'[m].state = index[m].state
  <2>1. CASE UNCHANGED vars
    BY <2>1 DEF vars
  <2>. QED BY <1>3, <2>1 DEF ClientStep
<1>5. OpenIsCurrent' /\ OutboxSends' /\ DecidedIsClosed'
  BY <1>2, <1>4 DEF RestInv, OpenIsCurrent, OutboxSends, DecidedIsClosed
<1>6. WrittenBack'
  <2>1. progress.state = "Sending" => current \in Msgs
    BY SendingPlace
  <2>. QED BY <1>2, <1>4, <2>1 DEF RestInv, WrittenBack, SettleInv, StaysLocked, Exists
<1>. QED BY <1>5, <1>6 DEF RestInv

LEMMA StepKeepsRestInv ==
  ASSUME StoreErrors = {}, IInv, PlaceInv, GoneShape, SettleInv, RestInv, [Next]_vars
  PROVE  RestInv'
BY RequestKeepsRestInv, MtmKeepsRestInv, OutboxRunLKeepsRestInv, SendRunLKeepsRestInv,
   OthersKeepRestInv, PollKeepsRestInv, ClientKeepsRestInv DEF Next

LEMMA InitRestInv == Init => RestInv
<1> SUFFICES ASSUME Init PROVE RestInv
  OBVIOUS
<1>1. progress.state = "Waiting"
  BY Zenon DEF Init, NewProgress
<1>2. ASSUME NEW m \in Msgs PROVE Closed(index[m])
  <2>1. PICK s \in [Msgs -> InitStates] :
          index[m] = [NullEntry EXCEPT !.id = m, !.folder = "Outbox", !.state = s[m],
                                       !.scheduled = (s[m] = "Resend"),
                                       !.failed = (s[m] = "Failed")]
    BY Zenon DEF Init
  <2>2. s[m] # "Sending" /\ NullEntry \in EntryRec /\ NullEntry.connected = FALSE
    BY OutboxAssumption, NullEntryType DEF NullEntry
  <2>. QED BY <2>1, <2>2 DEF Closed, EntryRec
<1>. QED BY <1>1, <1>2 DEF RestInv, OpenIsCurrent, OutboxSends, WrittenBack, DecidedIsClosed,
         Closed, Deciding, LogStates

\* IdleMeansNothingSending: once a request is over, however it ended, nothing
\* is marked as being sent or connected. A store that fails may leave an entry
\* as it was, since CSmsSend ignores that error (SMSSSEND.CPP:340).
THEOREM NothingIsLeftSending ==
  StoreErrors = {} => (Spec => []IdleMeansNothingSending)
<1> SUFFICES ASSUME StoreErrors = {} PROVE Spec => []IdleMeansNothingSending
  OBVIOUS
<1> DEFINE Known == IInv /\ PlaceInv /\ StateInv /\ SettleInv
<1>1. Known /\ RestInv /\ [Next]_vars => RestInv'
  BY StepKeepsRestInv DEF StateInv
<1>2. Spec => []Known
  BY SpecKeepsSettleInv
<1>3. Known /\ RestInv => IdleMeansNothingSending
  <2> SUFFICES ASSUME IInv, RestInv, ~ao["Mtm"].report
               PROVE  \A m \in Msgs : index[m].state # "Sending" /\ ~index[m].connected
    BY DEF IdleMeansNothingSending
  <2>1. ~ao["Outbox"].active
    BY BelowIsAtRest DEF IInv, Objects
  <2>. QED BY <2>1, NotSendingIsClosed DEF RestInv, OutboxSends, AllClosed, Closed
<1> HIDE DEF Known
<1>. QED BY <1>1, <1>2, <1>3, InitRestInv, PTL DEF Spec

=============================================================================
