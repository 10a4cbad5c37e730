------------------------- MODULE SmsDeliveryProofs -------------------------
(***************************************************************************)
(* Proofs about SmsOutboxSend, fourth part: the chain of active objects    *)
(* implements SmsDelivery, step by step. Most steps change nothing that    *)
(* SmsDelivery speaks of; the answer of the socket is the hand-over, the   *)
(* header that CSmsSend or the outbox sender stores is the record, and     *)
(* MoveEntryL is the move.                                                 *)
(***************************************************************************)
EXTENDS SmsOutboxPlaceProofs

-----------------------------------------------------------------------------
(* The refinement mapping: what each action of SmsDelivery is here         *)

Busy     == ao["Mtm"].report
Place    == [m \in Msgs |-> index[m].folder]
Recorded == [m \in Msgs |-> {i \in 1 .. RcpCount[m] : ~NotSent(header[m][i])}]

LEMMA StuttersHere ==
  ASSUME Busy' = Busy, Place' = Place, Recorded' = Recorded, UNCHANGED <<handed, delivered>>
  PROVE  UNCHANGED Delivery!vars
BY DEF Delivery!vars, Busy, Place, Recorded

LEMMA BeginsHere ==
  ASSUME ~Busy, Busy' = TRUE, delivered' = NothingDelivered, handed' = handed,
         Place' = Place, Recorded' = Recorded
  PROVE  Delivery!Next
BY DEF Delivery!Next, Delivery!Begin, Delivery!NothingDelivered, Delivery!Everyone,
   NothingDelivered, Busy, Place, Recorded

LEMMA EndsHere ==
  ASSUME Busy, Busy' = FALSE, UNCHANGED <<handed, delivered>>,
         Place' = Place, Recorded' = Recorded
  PROVE  Delivery!Next
BY DEF Delivery!Next, Delivery!End, Busy, Place, Recorded

LEMMA HandsHere ==
  ASSUME NEW m \in Msgs, NEW i \in 1 .. RcpCount[m],
         Busy, i \notin Recorded[m], delivered[m][i] = 0,
         delivered' = [delivered EXCEPT ![m][i] = 1],
         handed' = [handed EXCEPT ![m] = @ \cup {i}],
         Busy' = Busy, Place' = Place, Recorded' = Recorded
  PROVE  Delivery!Next
<1>1. Delivery!Hand(m, i)
  BY DEF Delivery!Hand, Busy, Place, Recorded
<1>. QED BY <1>1 DEF Delivery!Next, Delivery!Everyone

LEMMA RecordsHere ==
  ASSUME NEW m \in Msgs, NEW i \in 1 .. RcpCount[m],
         Busy, Place[m] = "Outbox", i \in handed[m] \ Recorded[m],
         Recorded' = [Recorded EXCEPT ![m] = @ \cup {i}],
         Busy' = Busy, Place' = Place, UNCHANGED <<handed, delivered>>
  PROVE  Delivery!Next
<1>1. Delivery!Record(m, i)
  BY DEF Delivery!Record, Busy, Place, Recorded
<1>. QED BY <1>1 DEF Delivery!Next, Delivery!Everyone

LEMMA MovesHere ==
  ASSUME NEW m \in Msgs, Busy, Place[m] = "Outbox", Recorded[m] = 1 .. RcpCount[m],
         1 .. RcpCount[m] # {}, Place' = [Place EXCEPT ![m] = "Sent"],
         Busy' = Busy, Recorded' = Recorded, UNCHANGED <<handed, delivered>>
  PROVE  Delivery!Next
<1>1. Delivery!Move(m)
  BY DEF Delivery!Move, Delivery!Everyone, Busy, Place, Recorded
<1>. QED BY <1>1 DEF Delivery!Next

LEMMA RemovesHere ==
  ASSUME NEW m \in Msgs, Place[m] = "Outbox", Place' = [Place EXCEPT ![m] = "None"],
         Busy' = Busy, Recorded' = Recorded, UNCHANGED <<handed, delivered>>
  PROVE  Delivery!Next
<1>1. Delivery!Remove(m)
  BY DEF Delivery!Remove, Busy, Place, Recorded
<1>. QED BY <1>1 DEF Delivery!Next

LEMMA InitImplements == Init => Delivery!Init
<1> SUFFICES ASSUME Init PROVE Delivery!Init
  OBVIOUS
<1>1. Busy = FALSE /\ delivered = NothingDelivered /\ handed = [m \in Msgs |-> {}]
  BY IdleFields, Zenon DEF Init, Objects, Busy
<1>2. Recorded = [m \in Msgs |-> {}]
  <2>1. \A m \in Msgs : \A i \in 1 .. RcpCount[m] : NotSent(header[m][i])
    <3>1. header = [m \in Msgs |-> [i \in 1 .. RcpCount[m] |-> NewRcpt]]
      BY Zenon DEF Init
    <3>. QED BY <3>1, NewRcptType
  <2>. QED BY <2>1 DEF Recorded
<1>3. Place = [m \in Msgs |-> "Outbox"]
  BY StartsInOutbox DEF Place
<1>. QED BY <1>1, <1>2, <1>3 DEF Delivery!Init, Delivery!NothingDelivered,
         Delivery!Everyone, NothingDelivered, Busy, Place, Recorded

-----------------------------------------------------------------------------
(* The invariant                                                           *)

\* What is recorded, in the store or only in memory, was handed over.
RecordsAreReal ==
  /\ \A m \in Msgs : \A i \in 1 .. RcpCount[m] : ~NotSent(header[m][i]) => i \in handed[m]
  /\ hdr.id \in Msgs =>
       \A i \in 1 .. RcpCount[hdr.id] : ~NotSent(hdr.rcpts[i]) => i \in handed[hdr.id]

\* A success that is on its way from the socket to the header is real.
SuccessIsReal ==
  /\ Done(ao, "Send") /\ send.state = "SendingEntry" /\ progress.error = KErrNone
       => Recipient \in handed[current]
  /\ Done(ao, "Rcpt") /\ ao["Rcpt"].status = KErrNone /\ rcptState = "SendingMessage"
       => Recipient \in handed[current]

\* No recipient of m after the first n has been handed over in this request.
Untried(m, n) == \A i \in 1 .. RcpCount[m] : i > n => delivered[m][i] = 0

\* What is still to be sent in this request was not sent in it before: no
\* message comes up twice, and no recipient of the current one.
NotYetTried ==
  /\ \A k \in 1 .. Len(queue) : Untried(queue[k], 0)
  /\ progress.state = "Sending" => \A k \in 1 .. Len(queue) : queue[k] # current
  /\ SendOpened =>
       /\ Untried(current, IF send.state = "SendingEntry" THEN Recipient ELSE progress.rcpDone)
       /\ ao["Rcpt"].active /\ (Waits(ao, "Rcpt") \/ rcptState # "SendingMessage")
            => Untried(current, progress.rcpDone)

\* At most one recipient is recorded in memory alone: the one whose header
\* could not be stored, after which CSmsSend gives the message up.
OneIsUnstored ==
  hdr.id \in Msgs =>
    \A i, j \in 1 .. RcpCount[hdr.id] :
      /\ ~NotSent(hdr.rcpts[i]) /\ NotSent(header[hdr.id][i])
      /\ ~NotSent(hdr.rcpts[j]) /\ NotSent(header[hdr.id][j])
      => i = j

RecordInv == RecordsAreReal /\ OneIsUnstored

TryInv == SuccessIsReal /\ NotYetTried

\* All that is known of a state.
AllInv == IInv /\ SentInv /\ PlaceInv /\ RecordInv /\ TryInv

-----------------------------------------------------------------------------
(* Records                                                                 *)

\* The header in memory says the same of every recipient as before ...
HdrKept ==
  /\ hdr'.id = hdr.id
  /\ hdr.id \in Msgs =>
       \A i \in 1 .. RcpCount[hdr.id] : NotSent(hdr'.rcpts[i]) <=> NotSent(hdr.rcpts[i])

\* ... or it was read from the store, if there is one at all.
HdrRead == hdr'.id \in Msgs => hdr'.rcpts = header'[hdr'.id]

\* The store records nothing that the header in memory did not.
RecordsFromMemory ==
  \A m \in Msgs : \A i \in 1 .. RcpCount[m] :
    NotSent(header[m][i]) /\ ~NotSent(header'[m][i]) => m = hdr.id /\ ~NotSent(hdr.rcpts[i])

\* The store records nothing new.
RecordsNothing ==
  \A m \in Msgs : \A i \in 1 .. RcpCount[m] :
    NotSent(header[m][i]) => NotSent(header'[m][i])

LEMMA HeadersKeepRecordInv ==
  ASSUME RecordInv, KeepsSent, RecordsFromMemory, HdrKept \/ HdrRead,
         \A m \in Msgs : handed[m] \subseteq handed'[m]
  PROVE  RecordInv'
<1>1. \A m \in Msgs : \A i \in 1 .. RcpCount[m] : ~NotSent(header'[m][i]) => i \in handed'[m]
  BY DEF RecordInv, RecordsAreReal, RecordsFromMemory
<1>2. CASE HdrKept
  <2>1. hdr'.id \in Msgs =>
          \A i \in 1 .. RcpCount[hdr'.id] : ~NotSent(hdr'.rcpts[i]) => i \in handed'[hdr'.id]
    BY <1>2 DEF HdrKept, RecordInv, RecordsAreReal
  <2>2. OneIsUnstored'
    BY <1>2 DEF HdrKept, RecordInv, OneIsUnstored, KeepsSent
  <2>. QED BY <1>1, <2>1, <2>2 DEF RecordInv, RecordsAreReal
<1>3. CASE HdrRead
  BY <1>1, <1>3 DEF HdrRead, RecordInv, RecordsAreReal, OneIsUnstored
<1>. QED BY <1>2, <1>3

LEMMA RecordedIsKept ==
  ASSUME KeepsSent, RecordsNothing
  PROVE  Recorded' = Recorded /\ RecordsFromMemory
BY DEF KeepsSent, RecordsNothing, Recorded, RecordsFromMemory

\* The headers and the history are left alone.
LEMMA HeadersUntouched ==
  ASSUME RecordInv, header' = header, UNCHANGED <<handed, delivered>>,
         \/ hdr' \in {hdr, NullHeader}
         \/ \E h \in Ids : hdr' = HeaderOf(header, h)
  PROVE  RecordInv' /\ Recorded' = Recorded /\ UNCHANGED <<handed, delivered>>
<1>1. KeepsSent /\ RecordsNothing
  BY DEF KeepsSent, RecordsNothing
<1>2. HdrKept \/ HdrRead
  <2>1. CASE hdr' = hdr
    BY <2>1 DEF HdrKept
  <2>2. CASE hdr' = NullHeader
    BY <2>2, StoreAssumption DEF HdrRead, NullHeader
  <2>3. ASSUME NEW h \in Ids, hdr' = HeaderOf(header, h) PROVE HdrRead
    BY <2>3, StoreAssumption DEF HdrRead, HeaderOf, NullHeader
  <2>. QED BY <2>1, <2>2, <2>3
<1>3. \A m \in Msgs : handed[m] \subseteq handed'[m]
  OBVIOUS
<1>. QED BY <1>1, <1>2, <1>3, HeadersKeepRecordInv, RecordedIsKept

\* Re-scheduling records nothing: SMSS.rss lists no error as sent already.
LEMMA ReSchedulingRecordsNothing ==
  ASSUME IInv, \A m \in Msgs :
           \/ header'[m] = header[m]
           \/ \E act : /\ header'[m] = ReScheduledRecipients(header[m], act)
                       /\ \A i \in 1 .. RcpCount[m] : act[i].action # "SentAlready"
  PROVE  RecordsNothing
<1> SUFFICES ASSUME NEW m \in Msgs, NEW i \in 1 .. RcpCount[m], NotSent(header[m][i])
             PROVE  NotSent(header'[m][i])
  BY DEF RecordsNothing
<1>1. header[m] \in Rcpts(m)
  BY DEF IInv, Types, StoreTypes, TypedHeaders
<1>. QED BY <1>1, ReScheduledRecipientsType

-----------------------------------------------------------------------------
(* Tries                                                                   *)

\* The objects that send are at rest, and nothing new is to be sent.
LEMMA RestKeepsTryInv ==
  ASSUME IInv', NotYetTried, ~ao'["Send"].active,
         delivered' = delivered \/ \A m \in Msgs : \A i \in 1 .. RcpCount[m] : delivered'[m][i] = 0,
         queue' \in Seq(Msgs),
         \/ \A j \in 1 .. Len(queue') : \E k \in 1 .. Len(queue) : queue'[j] = queue[k]
         \/ \A m \in Msgs : \A i \in 1 .. RcpCount[m] : delivered'[m][i] = 0,
         progress'.state = "Sending" =>
           progress.state = "Sending" /\ UNCHANGED <<current, queue>>
  PROVE  TryInv'
<1>1. ~ao'["Rcpt"].active
  <2>1. (WakeInv => (ao["Rcpt"].active => Waits(ao, "Send")))'
    BY BelowIsAtRest, PTL
  <2>. QED BY <2>1 DEF IInv, Waits
<1>2. SuccessIsReal'
  BY <1>1 DEF SuccessIsReal, Done
<1>4. (\A k \in 1 .. Len(queue) : Untried(queue[k], 0))'
  <2>1. \A k \in 1 .. Len(queue') : queue'[k] \in Msgs
    OBVIOUS
  <2>. QED BY <2>1 DEF NotYetTried, Untried
<1>5. (progress.state = "Sending" => \A k \in 1 .. Len(queue) : queue[k] # current)'
  BY DEF NotYetTried
<1>. QED BY <1>2, <1>4, <1>5 DEF TryInv, NotYetTried, SendOpened

-----------------------------------------------------------------------------
(* Requests begin and end                                                  *)

\* A step that changes no folder.
LEMMA PlaceIsKept ==
  KeepsPlaces => Place' = Place
BY DEF KeepsPlaces, Place

\* A header read from the store.
LEMMA ReadIsRead ==
  ASSUME NEW h \in Ids, hdr' = HeaderOf(header', h)
  PROVE  HdrRead
BY StoreAssumption DEF HdrRead, HeaderOf, NullHeader, Ids

LEMMA RequestImplements ==
  ASSUME AllInv, IInv', KeepsSent, KeepsPlaces, Request
  PROVE  RecordInv' /\ TryInv' /\ Delivery!Next
<1>1. PICK err : Starts(err)
  BY RequestStarts
<1>2. /\ ~ao["Mtm"].report /\ ao' = RunsNext(Awaits(ao, "Mtm"), "Outbox", err)
      /\ delivered' = NothingDelivered /\ handed' = handed
  BY <1>1 DEF Starts
<1>3. ao \in TypedObjects /\ ~ao["Send"].active
  BY <1>2, BelowIsAtRest DEF AllInv, IInv, Types, WorkTypes, Objects
<1>4. ~ao'["Send"].active /\ ao'["Mtm"].report = TRUE
  BY <1>2, <1>3, SendStaysAtRest DEF RunsNext, Awaits, TypedObjects, Objects
<1>5. RecordsNothing
  BY RequestHeaders, ReSchedulingRecordsNothing DEF AllInv
<1>6. Recorded' = Recorded /\ RecordsFromMemory
  BY <1>5, RecordedIsKept
<1>7. RecordInv'
  BY <1>2, <1>6, RequestHeaders, ReadIsRead, HeadersKeepRecordInv DEF AllInv
<1>8. TryInv'
  <2>1. \A m \in Msgs : \A i \in 1 .. RcpCount[m] : delivered'[m][i] = 0
    BY <1>2 DEF NothingDelivered
  <2>2. progress'.state # "Sending" /\ queue' \in Seq(Msgs)
    BY RequestPlaces DEF AllInv, IInv, Types, WorkTypes
  <2>. QED BY <1>4, <2>1, <2>2, RestKeepsTryInv DEF AllInv, TryInv
<1>9. Delivery!Next
  BY <1>2, <1>4, <1>6, PlaceIsKept, BeginsHere DEF Busy
<1>. QED BY <1>7, <1>8, <1>9

LEMMA MtmImplements ==
  ASSUME AllInv, IInv', KeepsPlaces, MtmRuns \/ MtmCancel
  PROVE  RecordInv' /\ TryInv' /\ Delivery!Next
<1>1. CompletesCommand /\ header' = header /\ UNCHANGED <<handed, delivered>>
  BY DEF MtmRuns, MtmCancel, storeVars, histVars
<1>2. /\ hdr' = NullHeader /\ queue' = <<>> /\ progress' = NewProgress
      /\ ao' = [o \in Objects |-> IdleObject]
  BY <1>1 DEF CompletesCommand
<1>3. ~ao'["Send"].active /\ ao'["Mtm"].report = FALSE
  BY <1>2, IdleFields DEF Objects
<1>4. ao["Mtm"].active /\ ao["Mtm"].report = TRUE
  BY DEF MtmRuns, MtmCancel, Runnable, AllInv, IInv, WakeInv, Chain, Objects
<1>5. RecordInv' /\ Recorded' = Recorded
  BY <1>1, <1>2, HeadersUntouched DEF AllInv
<1>6. TryInv'
  <2>1. progress'.state # "Sending" /\ queue' \in Seq(Msgs) /\ Len(queue') = 0
    BY <1>2 DEF NewProgress
  <2>2. \A j \in 1 .. Len(queue') : \E k \in 1 .. Len(queue) : queue'[j] = queue[k]
    BY <2>1
  <2>. QED BY <1>1, <1>3, <2>1, <2>2, RestKeepsTryInv DEF AllInv, TryInv
<1>7. Delivery!Next
  BY <1>1, <1>3, <1>4, <1>5, PlaceIsKept, EndsHere DEF Busy
<1>. QED BY <1>5, <1>6, <1>7

-----------------------------------------------------------------------------
(* CSmsOutboxSend                                                          *)

\* The outbox sender runs within a request, and leaves it and what was
\* delivered in it alone.
LEMMA OutboxIsBusy ==
  ASSUME IInv, OutboxRunL
  PROVE  /\ Done(ao, "Outbox") /\ ~ao["Send"].active /\ Busy = TRUE /\ Busy' = Busy
         /\ UNCHANGED <<handed, delivered>>
<1>1. Done(ao, "Outbox") /\ UNCHANGED <<handed, delivered>>
  BY DEF OutboxRunL, OutboxFails, OutboxSendsNext, OutboxCompletes, OutboxMessageDeleted,
     OutboxSendingDone, OutboxReSchedules, OutboxReScheduled, OutboxGotLogEvent,
     OutboxWroteLogEvent, OutboxMovesSent, OutboxKeepsUnsent, SendNextHeaderL, histVars,
     OutboxRuns, Runnable, Done
<1>2. ao \in TypedObjects /\ Busy = TRUE /\ ~ao["Send"].active
  BY <1>1, BelowIsAtRest DEF IInv, Types, WorkTypes, Busy, Done, WakeInv, Chain, Objects,
     Parent, Waits
<1>3. \/ \E e : ao' = Answers(ao, "Outbox", e)
      \/ \E e : ao' = RunsNext(ao, "Outbox", e)
      \/ ao' = Awaits(ao, "Outbox")
      \/ \E e : ao' = ChainStarts(e)
  BY Zenon DEF OutboxRunL, OutboxFails, OutboxSendsNext, OutboxCompletes, OutboxMessageDeleted,
     OutboxSendingDone, OutboxReSchedules, OutboxReScheduled, OutboxGotLogEvent,
     OutboxWroteLogEvent, OutboxMovesSent, OutboxKeepsUnsent, SendNextHeaderL, OutboxAnswers,
     LogEntry, OpensEntry, OpenFindsNoRecipient, OpenCannotChange, OpenCannotRead
<1>4. ao'["Mtm"].report = ao["Mtm"].report
  BY <1>2, <1>3 DEF Answers, RunsNext, Awaits, ChainStarts, Parent, TypedObjects, Objects
<1>. QED BY <1>1, <1>2, <1>4 DEF Busy

\* Every other step of the outbox sender leaves the state Sending.
LEMMA OutboxLeavesSending ==
  ASSUME IInv, OutboxRunL, ~OutboxSendsNext, ~OutboxMessageDeleted
  PROVE  progress'.state # "Sending"
<1>1. progress \in ProgressRec
  BY DEF IInv, Types, WorkTypes
<1>2. ASSUME NEW ix, NEW e, OutboxAnswers(ix, e) PROVE progress'.state = "Waiting"
  BY <1>1, <1>2 DEF OutboxAnswers, ProgressRec
<1>3. ASSUME NEW s, progress' = [progress EXCEPT !.state = s] PROVE progress'.state = s
  BY <1>1, <1>3 DEF ProgressRec
<1>4. CASE OutboxFails \/ OutboxCompletes
  BY <1>2, <1>4 DEF OutboxFails, OutboxCompletes
<1>5. CASE OutboxSendingDone
  BY <1>3, <1>5 DEF OutboxSendingDone
<1>6. CASE OutboxReSchedules
  BY <1>2, <1>3, <1>6, Zenon DEF OutboxReSchedules
<1>7. CASE OutboxReScheduled \/ OutboxGotLogEvent \/ OutboxWroteLogEvent
  BY <1>7, LoggingGoesOn DEF Deciding, LogStates
<1>8. CASE OutboxMovesSent
  BY <1>2, <1>3, <1>8, Zenon DEF OutboxMovesSent
<1>9. CASE OutboxKeepsUnsent
  BY <1>2, <1>3, <1>9, Zenon DEF OutboxKeepsUnsent
<1>. QED BY <1>4, <1>5, <1>6, <1>7, <1>8, <1>9 DEF OutboxRunL

\* A message taken up comes up for the first time in the request.
LEMMA TakesUpKeepsTryInv ==
  ASSUME AllInv, IInv', Done(ao, "Outbox"), delivered' = delivered,
         NEW m \in Msgs, NEW p \in ProgressRec, p.state = "Sending", current' = m,
         TakesUp(m, p),
         \A j \in 1 .. Len(queue') : \E k \in 1 .. Len(queue) : queue'[j] = queue[k],
         \E k \in 1 .. Len(queue) : queue[k] = m,
         \A j \in 1 .. Len(queue') : queue'[j] # m
  PROVE  TryInv'
<1>1. RcpCount[m] \in Nat /\ send \in SendRec /\ IInv
  BY StoreAssumption DEF AllInv, IInv, Types, WorkTypes
<1>2. send'.state = "OpeningEntry"
  BY <1>1, Zenon DEF TakesUp, OpensEntry, OpenFindsNoRecipient, OpenCannotChange,
     OpenCannotRead, SendRec
<1>3. PICK err \in Errors : ao' = ChainStarts(err)
  BY ErrorsKnown DEF TakesUp, OpensEntry, OpenFindsNoRecipient, OpenCannotChange,
     OpenCannotRead
<1>4. /\ ao'["Send"] = [active |-> TRUE, status |-> err, report |-> TRUE]
      /\ ~ao'["Rcpt"].active
  BY <1>1, <1>3, ChainStartsTyped, Zenon
<1>5. SuccessIsReal'
  BY <1>2, <1>4 DEF SuccessIsReal, Done
<1>6. (\A k \in 1 .. Len(queue) : Untried(queue[k], 0))' /\ Untried(m, 0)'
  BY DEF AllInv, TryInv, NotYetTried, Untried
<1>7. SendOpened' => progress'.rcpDone = 0
  <2>1. CASE OpensEntry(m, p)
    <3>1. progress' = Counts(p, 0, RcpCount[m])
      BY <2>1 DEF OpensEntry, Counts
    <3>2. Counts(p, 0, RcpCount[m]).rcpDone = 0
      BY <1>1, ProgressCounts
    <3>. QED BY <3>1, <3>2, Zenon
  <2>2. CASE ~OpensEntry(m, p)
    <3>1. PICK e \in StoreErrors \cup {KErrNotFound} : ao' = ChainStarts(e)
      BY <2>2 DEF TakesUp, OpenFindsNoRecipient, OpenCannotChange, OpenCannotRead
    <3>2. e \notin {KErrNone, KRequestPending} /\ e \in Errors
      BY ErrorsKnown DEF KErrNotFound, KErrNone, KRequestPending
    <3>3. ao'["Send"] = [active |-> TRUE, status |-> e, report |-> TRUE]
      BY <1>1, <3>1, <3>2, ChainStartsTyped, Zenon
    <3>. QED BY <3>2, <3>3 DEF SendOpened
  <2>. QED BY <2>1, <2>2
<1>8. (SendOpened => Untried(current, progress.rcpDone))'
  BY <1>6, <1>7 DEF Untried
<1>9. NotYetTried'
  BY <1>2, <1>4, <1>6, <1>8 DEF NotYetTried
<1>. QED BY <1>5, <1>9 DEF TryInv

LEMMA SendNextHeaderImplements ==
  ASSUME AllInv, IInv', KeepsPlaces, OutboxRunL, SendNextHeaderL
  PROVE  RecordInv' /\ TryInv' /\ UNCHANGED Delivery!vars
<1>1. /\ Done(ao, "Outbox") /\ ~ao["Send"].active /\ Busy' = Busy
      /\ UNCHANGED <<handed, delivered>>
  BY OutboxIsBusy DEF AllInv
<1>2. header' = header
  BY DEF SendNextHeaderL
<1>3. hdr' \in {hdr, NullHeader} \/ \E h \in Ids : hdr' = HeaderOf(header, h)
  BY <1>1, NextMessage DEF AllInv, TakesUp, OpensEntry, OpenFindsNoRecipient,
     OpenCannotChange, OpenCannotRead, HalfRead, Ids
<1>4. RecordInv' /\ Recorded' = Recorded
  BY <1>1, <1>2, <1>3, HeadersUntouched DEF AllInv
<1>5. \A j \in 1 .. Len(queue') : \E k \in 1 .. Len(queue) : queue'[j] = queue[k]
  BY <1>1, NextMessage DEF AllInv
<1>6. CASE progress'.state = "Complete" /\ ao' = RunsNext(ao, "Outbox", KErrNone)
  <2>1. ~ao'["Send"].active
    BY <1>1, <1>6, SendStaysAtRest DEF AllInv, IInv, Types, WorkTypes
  <2>2. queue' \in Seq(Msgs)
    BY DEF IInv, Types, WorkTypes
  <2>. QED BY <1>1, <1>4, <1>5, <1>6, <2>1, <2>2, PlaceIsKept, StuttersHere, RestKeepsTryInv
           DEF AllInv, TryInv
<1>7. ASSUME NEW m \in Msgs, NEW p \in ProgressRec, p.state = "Sending", current' = m,
             TakesUp(m, p), \E k \in 1 .. Len(queue) : queue[k] = m,
             \A j \in 1 .. Len(queue') : queue'[j] # m
      PROVE  TryInv'
  BY <1>1, <1>5, <1>7, TakesUpKeepsTryInv
<1>8. TryInv'
  <2>1. \/ progress'.state = "Complete" /\ ao' = RunsNext(ao, "Outbox", KErrNone)
        \/ \E m \in Msgs : \E p \in ProgressRec :
             /\ p.state = "Sending" /\ current' = m /\ TakesUp(m, p)
             /\ \E k \in 1 .. Len(queue) : queue[k] = m
             /\ \A j \in 1 .. Len(queue') : queue'[j] # m
    BY <1>1, NextMessage DEF AllInv
  <2>. QED BY <1>6, <1>7, <2>1
<1>. QED BY <1>1, <1>4, <1>8, PlaceIsKept, StuttersHere

\* The outbox sender goes on, or answers: nothing new is sent.
LEMMA OutboxRestKeepsTryInv ==
  ASSUME AllInv, IInv', OutboxRunL, ~OutboxSendsNext, ~OutboxMessageDeleted
  PROVE  TryInv'
<1>1. /\ ~ao["Send"].active /\ delivered' = delivered /\ ao \in TypedObjects
      /\ progress \in ProgressRec
  BY OutboxIsBusy DEF AllInv, IInv, Types, WorkTypes
<1>2. queue' = queue
  BY DEF OutboxRunL, OutboxFails, OutboxCompletes, OutboxSendingDone, OutboxReSchedules,
     OutboxReScheduled, OutboxGotLogEvent, OutboxWroteLogEvent, OutboxMovesSent,
     OutboxKeepsUnsent
<1>3. \/ \E e : ao' = Answers(ao, "Outbox", e)
      \/ \E e : ao' = RunsNext(ao, "Outbox", e)
      \/ ao' = Awaits(ao, "Outbox")
  BY Zenon DEF OutboxRunL, OutboxFails, OutboxCompletes, OutboxSendingDone, OutboxReSchedules,
     OutboxReScheduled, OutboxGotLogEvent, OutboxWroteLogEvent, OutboxMovesSent,
     OutboxKeepsUnsent, OutboxAnswers, LogEntry
<1>4. ~ao'["Send"].active
  BY <1>1, <1>3, SendStaysAtRest
<1>5. progress'.state # "Sending"
  BY OutboxLeavesSending DEF AllInv
<1>6. queue' \in Seq(Msgs)
  BY DEF IInv, Types, WorkTypes
<1>7. \A j \in 1 .. Len(queue') : \E k \in 1 .. Len(queue) : queue'[j] = queue[k]
  BY <1>2
<1>. QED BY <1>1, <1>4, <1>5, <1>6, <1>7, RestKeepsTryInv DEF AllInv, TryInv

\* No step of the outbox sender but the last write of the header, when a
\* message stays in the outbox, records a recipient.
LEMMA OutboxRecordsNothing ==
  ASSUME AllInv, OutboxRunL, ~OutboxSendsNext, ~OutboxMessageDeleted, ~OutboxKeepsUnsent
  PROVE  RecordsNothing /\ (HdrKept \/ HdrRead)
<1>1. CASE OutboxReSchedules
  <2>1. RecordsNothing
    BY <1>1, ReSchedulingHeaders, ReSchedulingRecordsNothing DEF AllInv
  <2>2. hdr' \in {hdr, NullHeader} \/ \E h \in Ids : hdr' = HeaderOf(header', h)
    BY <1>1, ReSchedulingHeaders DEF AllInv
  <2>3. hdr' = hdr => HdrKept
    BY DEF HdrKept
  <2>4. hdr' = NullHeader => HdrRead
    BY StoreAssumption DEF HdrRead, NullHeader
  <2>. QED BY <2>1, <2>2, <2>3, <2>4, ReadIsRead
<1>2. CASE OutboxReScheduled \/ OutboxGotLogEvent \/ OutboxWroteLogEvent
  <2>1. header' = header /\ hdr.id \in Msgs
    BY <1>2 DEF OutboxReScheduled, OutboxGotLogEvent, OutboxWroteLogEvent, storeVars,
       OutboxRuns, AllInv, IInv, Shape, LogShape, LogStates
  <2>2. hdr' = hdr \/ \E k, b : hdr' = [hdr EXCEPT !.rcpts[k].log = b]
    BY <1>2 DEF OutboxReScheduled, OutboxGotLogEvent, OutboxWroteLogEvent
  <2>3. HdrKept
    BY <2>1, <2>2, HeaderIsLogged DEF AllInv, HdrKept
  <2>. QED BY <2>1, <2>3 DEF RecordsNothing
<1>3. CASE OutboxFails \/ OutboxCompletes \/ OutboxSendingDone \/ OutboxMovesSent
  BY <1>3 DEF OutboxFails, OutboxCompletes, OutboxSendingDone, OutboxMovesSent, storeVars,
     memVars, RecordsNothing, HdrKept
<1>. QED BY <1>1, <1>2, <1>3 DEF OutboxRunL

\* A header that is stored records at most one recipient: the one that could
\* not be recorded before.
LEMMA StoringRecordsOne ==
  ASSUME AllInv, KeepsSent, hdr.id \in Msgs, hdr' = hdr,
         header' \in {header, [header EXCEPT ![hdr.id] = hdr.rcpts]}
  PROVE  /\ RecordsFromMemory /\ HdrKept
         /\ \/ Recorded' = Recorded
            \/ \E i \in 1 .. RcpCount[hdr.id] :
                 /\ i \in handed[hdr.id] \ Recorded[hdr.id]
                 /\ Recorded' = [Recorded EXCEPT ![hdr.id] = @ \cup {i}]
<1> DEFINE m == hdr.id
           new == {i \in 1 .. RcpCount[m] : ~NotSent(hdr.rcpts[i]) /\ NotSent(header[m][i])}
<1>1. header = [q \in Msgs |-> header[q]]
  BY DEF AllInv, IInv, Types, StoreTypes, TypedHeaders
<1>2. \A q \in Msgs : header'[q] = header[q] \/ (q = m /\ header'[q] = hdr.rcpts)
  BY <1>1
<1>3. RecordsFromMemory /\ HdrKept
  BY <1>2 DEF RecordsFromMemory, HdrKept
<1>4. \A i, j \in new : i = j
  BY DEF AllInv, RecordInv, OneIsUnstored
<1>5. \A i \in new : i \in 1 .. RcpCount[m] /\ i \in handed[m] \ Recorded[m]
  BY DEF AllInv, RecordInv, RecordsAreReal, Recorded
<1>6. CASE header' = header
  BY <1>3, <1>6 DEF Recorded
<1>7. CASE header' = [header EXCEPT ![m] = hdr.rcpts]
  <2>1. /\ header'[m] = hdr.rcpts
        /\ \A q \in Msgs : q # m => header'[q] = header[q]
    BY <1>1, <1>7
  <2>2. \A i \in 1 .. RcpCount[m] :
          ~NotSent(header'[m][i]) <=> (~NotSent(header[m][i]) \/ i \in new)
    BY <2>1 DEF KeepsSent
  <2>3. Recorded' = [Recorded EXCEPT ![m] = @ \cup new]
    <3>1. \A q \in Msgs : Recorded'[q] = IF q = m THEN Recorded[q] \cup new ELSE Recorded[q]
      BY <2>1, <2>2 DEF Recorded
    <3>. QED BY <3>1 DEF Recorded
  <2> HIDE DEF new
  <2>4. CASE new = {}
    <3>1. Recorded' = Recorded
      BY <2>3, <2>4 DEF Recorded
    <3>. QED BY <1>3, <3>1
  <2>5. ASSUME NEW i \in new PROVE Recorded' = [Recorded EXCEPT ![m] = @ \cup {i}]
    <3>1. new = {i}
      BY <1>4
    <3>. QED BY <2>3, <3>1
  <2>. QED BY <1>3, <1>5, <2>4, <2>5
<1>. QED BY <1>6, <1>7

\* MoveEntryL moves a message that is recorded as sent to everyone, or
\* leaves it where it is.
LEMMA MovingImplements ==
  ASSUME AllInv, IInv', KeepsSent, OutboxRunL, OutboxMovesSent, Recorded' = Recorded
  PROVE  Delivery!Next \/ UNCHANGED Delivery!vars
<1> DEFINE m    == entry.id
           sent == [entry EXCEPT !.connected = FALSE, !.failed = FALSE, !.state = "Sent"]
           gone == [sent EXCEPT !.folder = "Sent"]
<1>1. /\ progress.state = "LogEntryComplete" /\ MessageSent(entry) /\ queue' = queue
      /\ \/ index' \in {[index EXCEPT ![m] = gone], [index EXCEPT ![m] = sent]}
         \/ \E e \in StoreErrors : \/ OutboxAnswers(index, e)
                                   \/ OutboxAnswers([index EXCEPT ![m] = sent], e)
  BY DEF OutboxMovesSent, OutboxRuns
<1>2. /\ m \in Msgs /\ m = current /\ RecipientsAllSent(header[m])
      /\ index[m].folder = "Outbox" /\ index \in [Msgs -> EntryRec]
  BY <1>1, MovedIsInOutbox DEF AllInv, IInv, Types, StoreTypes, TypedIndex
<1>3. /\ sent \in EntryRec /\ sent.id = m /\ sent.folder = "Outbox" /\ sent.state = "Sent"
      /\ gone.folder = "Sent"
  BY <1>1, MovedIsInOutbox DEF AllInv, EntryRec, SendingStates
<1> HIDE DEF sent, gone
<1>4. /\ Busy = TRUE /\ Busy' = Busy /\ UNCHANGED <<handed, delivered>>
  BY OutboxIsBusy DEF AllInv
<1>5. CASE index' = [index EXCEPT ![m] = gone]
  <2>1. Place' = [Place EXCEPT ![m] = "Sent"] /\ Place[m] = "Outbox"
    BY <1>2, <1>3, <1>5 DEF Place
  <2>2. header[m] \in Rcpts(m)
    BY <1>2 DEF AllInv, IInv, Types, StoreTypes, TypedHeaders
  <2>3. /\ RcpCount[m] > 0 /\ RcpCount[m] \in Nat
        /\ \A i \in 1 .. RcpCount[m] : ~NotSent(header[m][i])
    BY <1>2, <2>2, AllSentMeans, RcptsOf
  <2>4. Recorded[m] = 1 .. RcpCount[m] /\ 1 .. RcpCount[m] # {}
    BY <1>2, <2>3 DEF Recorded
  <2>. QED BY <1>2, <1>4, <2>1, <2>4, MovesHere
<1>6. CASE \/ index' = [index EXCEPT ![m] = sent]
           \/ \E e \in StoreErrors : \/ OutboxAnswers(index, e)
                                     \/ OutboxAnswers([index EXCEPT ![m] = sent], e)
  <2>1. SamePlaces([index EXCEPT ![m] = sent]) /\ TypedIndex([index EXCEPT ![m] = sent])
    BY <1>2, <1>3, WritingKeepsPlaces DEF AllInv
  <2>2. index' = [index EXCEPT ![m] = sent] => KeepsPlaces
    BY <2>1 DEF SamePlaces, KeepsPlaces
  <2>3. ASSUME NEW e \in StoreErrors, \/ OutboxAnswers(index, e)
                                     \/ OutboxAnswers([index EXCEPT ![m] = sent], e)
        PROVE  KeepsPlaces
    BY <1>1, <2>1, <2>3, ErrorsKnown, IndexIsInPlace, OutboxAnswersKeepsPlaceInv DEF AllInv
  <2>4. KeepsPlaces
    BY <1>6, <2>2, <2>3
  <2>. QED BY <1>4, <2>4, PlaceIsKept, StuttersHere
<1>. QED BY <1>1, <1>5, <1>6

\* MoveEntryL stores the header of a message that stays, when its entry has
\* changed.
LEMMA KeepingImplements ==
  ASSUME AllInv, IInv', KeepsSent, OutboxRunL, OutboxKeepsUnsent
  PROVE  RecordInv' /\ (Delivery!Next \/ UNCHANGED Delivery!vars)
<1>1. /\ progress.state = "LogEntryComplete" /\ hdr' = hdr
      /\ header' \in {header, [header EXCEPT ![entry.id] = hdr.rcpts]}
  BY DEF OutboxKeepsUnsent, OutboxRuns, memVars
<1>2. /\ current \in Msgs /\ hdr.id = current /\ entry.id = current
      /\ Place[current] = "Outbox"
  BY <1>1, MovedIsInOutbox DEF AllInv, IInv, Shape, LogShape, Place
<1>3. /\ Busy = TRUE /\ Busy' = Busy /\ UNCHANGED <<handed, delivered>>
  BY OutboxIsBusy DEF AllInv
<1>4. Place' = Place
  BY OutboxKeepsUnsentKeepsPlaceInv, PlaceIsKept DEF AllInv
<1>5. header' \in {header, [header EXCEPT ![hdr.id] = hdr.rcpts]}
  BY <1>1, <1>2
<1>6. /\ RecordsFromMemory /\ HdrKept
      /\ \/ Recorded' = Recorded
         \/ \E i \in 1 .. RcpCount[hdr.id] :
              /\ i \in handed[hdr.id] \ Recorded[hdr.id]
              /\ Recorded' = [Recorded EXCEPT ![hdr.id] = @ \cup {i}]
  BY <1>1, <1>2, <1>5, StoringRecordsOne
<1>7. RecordInv'
  BY <1>3, <1>6, HeadersKeepRecordInv DEF AllInv
<1>8. CASE Recorded' = Recorded
  BY <1>3, <1>4, <1>7, <1>8, StuttersHere
<1>9. ASSUME NEW i \in 1 .. RcpCount[hdr.id], i \in handed[hdr.id] \ Recorded[hdr.id],
             Recorded' = [Recorded EXCEPT ![hdr.id] = @ \cup {i}]
      PROVE  Delivery!Next
  BY <1>2, <1>3, <1>4, <1>9, RecordsHere
<1>. QED BY <1>6, <1>7, <1>8, <1>9

LEMMA OutboxImplements ==
  ASSUME AllInv, IInv', KeepsSent, OutboxRunL
  PROVE  RecordInv' /\ TryInv' /\ (Delivery!Next \/ UNCHANGED Delivery!vars)
<1>1. /\ Done(ao, "Outbox") /\ Busy' = Busy /\ UNCHANGED <<handed, delivered>>
  BY OutboxIsBusy DEF AllInv
<1>2. CASE OutboxSendsNext \/ OutboxMessageDeleted
  <2>1. SendNextHeaderL
    BY <1>2 DEF OutboxSendsNext, OutboxMessageDeleted
  <2>2. KeepsPlaces
    BY <1>1, <2>1, SendNextHeaderKeepsPlaceInv DEF AllInv
  <2>. QED BY <2>1, <2>2, SendNextHeaderImplements
<1>3. CASE OutboxKeepsUnsent
  <2>1. ~OutboxSendsNext /\ ~OutboxMessageDeleted
    BY <1>3 DEF OutboxKeepsUnsent, OutboxSendsNext, OutboxMessageDeleted, OutboxRuns
  <2>. QED BY <1>3, <2>1, KeepingImplements, OutboxRestKeepsTryInv
<1>4. CASE ~(OutboxSendsNext \/ OutboxMessageDeleted) /\ ~OutboxKeepsUnsent
  <2>1. RecordsNothing /\ (HdrKept \/ HdrRead) /\ TryInv'
    BY <1>4, OutboxRecordsNothing, OutboxRestKeepsTryInv
  <2>2. Recorded' = Recorded /\ RecordInv'
    BY <1>1, <2>1, RecordedIsKept, HeadersKeepRecordInv DEF AllInv
  <2>3. CASE OutboxMovesSent
    BY <2>1, <2>2, <2>3, MovingImplements
  <2>4. CASE ~OutboxMovesSent
    <3>1. Place' = Place
      BY <2>4, OutboxRunLKeepsPlaceInv, PlaceIsKept DEF AllInv
    <3>. QED BY <1>1, <2>1, <2>2, <3>1, StuttersHere
  <2>. QED BY <2>3, <2>4
<1>. QED BY <1>2, <1>3, <1>4

-----------------------------------------------------------------------------
(* CSmsSendSession and CSmsSend                                            *)

\* What the objects below the outbox sender do to their own requests does not
\* end the one they work for.
LEMMA BusyStays ==
  ASSUME NEW a \in TypedObjects, NEW o \in {"Session", "Send", "Rcpt"}, NEW e
  PROVE  /\ Answers(a, o, e)["Mtm"].report = a["Mtm"].report
         /\ RunsNext(a, o, e)["Mtm"].report = a["Mtm"].report
         /\ Awaits(a, o)["Mtm"].report = a["Mtm"].report
         /\ Awaits(Awaits(a, "Send"), "Rcpt")["Mtm"].report = a["Mtm"].report
         /\ o \in {"Session", "Send"} /\ (o = "Send" \/ ~a["Send"].active)
              => ~Answers(a, o, e)["Send"].active
BY DEF Answers, RunsNext, Awaits, Parent, TypedObjects, Objects, IdleObject

\* CSmsSend or CSmsSendSession answers, and the header is left alone.
LEMMA EndingImplements ==
  ASSUME AllInv, IInv', KeepsPlaces, NEW o \in {"Session", "Send"}, Done(ao, o),
         ao' = Answers(ao, o, KErrNone), header' = header, hdr' = hdr,
         progress'.state = "Sending" => progress.state = "Sending",
         UNCHANGED <<current, queue, handed, delivered>>
  PROVE  RecordInv' /\ TryInv' /\ UNCHANGED Delivery!vars
<1>1. ao \in TypedObjects /\ (o = "Send" \/ ~ao["Send"].active)
  BY BelowIsAtRest DEF AllInv, IInv, Types, WorkTypes
<1>2. ~ao'["Send"].active /\ Busy' = Busy
  BY <1>1, BusyStays DEF Busy
<1>3. RecordInv' /\ Recorded' = Recorded
  BY HeadersUntouched DEF AllInv
<1>4. queue' \in Seq(Msgs) /\ queue' = queue
  BY DEF AllInv, IInv, Types, WorkTypes
<1>5. TryInv'
  BY <1>2, <1>4, RestKeepsTryInv DEF AllInv, TryInv
<1>. QED BY <1>2, <1>3, <1>5, PlaceIsKept, StuttersHere

LEMMA SessionImplements ==
  ASSUME AllInv, IInv', KeepsSent, SessionRuns
  PROVE  RecordInv' /\ TryInv' /\ UNCHANGED Delivery!vars
<1>1. /\ Done(ao, "Session") /\ ao' = Answers(ao, "Session", KErrNone)
      /\ header' = header /\ hdr' = hdr
      /\ UNCHANGED <<current, queue, handed, delivered>>
  BY DEF SessionRuns, Runnable, Done, storeVars, memVars, histVars
<1>2. progress'.state = "Sending" => progress.state = "Sending"
  BY DEF SessionRuns, AllInv, IInv, Types, WorkTypes, ProgressRec
<1>3. KeepsPlaces
  BY SessionRunsKeepsPlaceInv DEF AllInv
<1>. QED BY <1>1, <1>2, <1>3, EndingImplements

LEMMA SendEndsImplements ==
  ASSUME AllInv, IInv', KeepsSent, SendFails \/ SendAllTried \/ SendFindsDeleted
  PROVE  RecordInv' /\ TryInv' /\ UNCHANGED Delivery!vars
<1>1. /\ Done(ao, "Send") /\ ao' = Answers(ao, "Send", KErrNone)
      /\ header' = header /\ hdr' = hdr
      /\ UNCHANGED <<current, queue, handed, delivered>>
  BY DEF SendFails, SendAllTried, SendFindsDeleted, SendRuns, Runnable, Done, histVars
<1>2. progress.state = "Sending"
  BY <1>1, BelowIsAtRest DEF AllInv, IInv, Done
<1>3. KeepsPlaces
  BY SendRunLKeepsPlaceInv DEF AllInv, SendRunL
<1>. QED BY <1>1, <1>2, <1>3, EndingImplements

\* What UpdateAfterRecipientSentL puts into the header in memory: the
\* recipient that was tried, when it was sent to, and no other.
LEMMA RecipientDoneRecords ==
  ASSUME AllInv, SendRecipientDone
  PROVE  /\ current \in Msgs /\ Place[current] = "Outbox" /\ hdr'.id = current
         /\ Recipient \in 1 .. RcpCount[current] /\ Recipient \notin Recorded[current]
         /\ \A j \in 1 .. RcpCount[current] :
              ~NotSent(hdr'.rcpts[j]) <=> \/ ~NotSent(header[current][j])
                                          \/ j = Recipient /\ progress.error = KErrNone
         /\ progress.error = KErrNone => Recipient \in handed[current]
         /\ header' \in {header, [header EXCEPT ![current] = hdr'.rcpts]}
<1> DEFINE r  == RecipientAfterSend(hdr.rcpts[Recipient], progress.error, send.reports)
           rs == [hdr.rcpts EXCEPT ![Recipient] = r]
<1>1. /\ SendRuns({"SendingEntry"}) /\ Exists(entry.id)
      /\ hdr' = [hdr EXCEPT !.rcpts = rs]
      /\ header' \in {header, [header EXCEPT ![entry.id] = rs]}
  BY DEF SendRecipientDone, Recipient
<1>2. /\ Done(ao, "Send") /\ Opened /\ progress.state = "Sending"
      /\ RcpCount[current] \in Nat /\ progress.rcpDone \in Int
      /\ SendOpened /\ send.state = "SendingEntry"
  BY <1>1, SendRunsOpened DEF AllInv, SendRuns, Runnable, SendOpened
<1>3. /\ current \in Msgs /\ entry.id = current /\ hdr.id = current
      /\ Recipient \in 1 .. RcpCount[current]
  BY <1>2 DEF Opened, Recipient
<1>4. Place[current] = "Outbox"
  BY <1>1, <1>2, <1>3, SendingPlace DEF AllInv, Exists, Place
<1>5. /\ hdr.rcpts \in Rcpts(current) /\ TypedHeader(hdr)
      /\ progress.error \in Errors /\ send.reports \in BOOLEAN
  BY <1>3, HeaderRecipients DEF AllInv, IInv, Types, MemTypes, WorkTypes, ProgressRec, SendRec
<1>6. /\ r \in RcptRec(Errors)
      /\ NotSent(r) <=> progress.error # KErrNone
  BY <1>3, <1>5, RcptsOf, RecipientAfterSendType
<1> HIDE DEF r
<1>7. /\ rs \in Rcpts(current) /\ rs[Recipient] = r
      /\ \A j \in 1 .. RcpCount[current] : j # Recipient => rs[j] = hdr.rcpts[j]
  BY <1>3, <1>5, <1>6 DEF Rcpts
<1>8. hdr'.id = current /\ hdr'.rcpts = rs
  BY <1>1, <1>3, <1>5, <1>7, RecipientsChanged
<1>9. NotSent(hdr.rcpts[Recipient])
  BY <1>2 DEF AllInv, SentInv, TriedIsUnsent, SendOpened
<1>10. \A j \in 1 .. RcpCount[current] : NotSent(hdr.rcpts[j]) <=> NotSent(header[current][j])
  BY <1>2, <1>3 DEF AllInv, SentInv, HeaderKeepsSent, PlaceInv, HeaderIsCurrent
<1>11. Recipient \notin Recorded[current]
  BY <1>3, <1>9, <1>10 DEF Recorded
<1>12. ASSUME NEW j \in 1 .. RcpCount[current]
       PROVE  ~NotSent(hdr'.rcpts[j]) <=> \/ ~NotSent(header[current][j])
                                          \/ j = Recipient /\ progress.error = KErrNone
  BY <1>3, <1>6, <1>7, <1>8, <1>9, <1>10
<1>13. progress.error = KErrNone => Recipient \in handed[current]
  BY <1>2 DEF AllInv, TryInv, SuccessIsReal
<1>. QED BY <1>1, <1>3, <1>4, <1>8, <1>11, <1>12, <1>13

\* CSmsSend and CSmsRecipientSend work within a request.
LEMMA SendIsBusy ==
  ASSUME IInv
  PROVE  ao["Send"].active \/ ao["Rcpt"].active => Busy = TRUE
<1>1. /\ ao["Rcpt"].active => ao["Send"].active
      /\ ao["Send"].active => ao["Session"].active
      /\ ao["Session"].active => ao["Outbox"].active
      /\ ao["Outbox"].active => ao["Mtm"].active
  BY ChainLinks DEF IInv, WakeInv, Waits
<1>2. ao["Mtm"].active = ao["Mtm"].report /\ ao \in TypedObjects
  BY DEF IInv, WakeInv, Chain, Objects, Types, WorkTypes
<1>. QED BY <1>1, <1>2 DEF Busy, TypedObjects, Objects

\* The header in memory, stored or not, keeps to what was handed over, and
\* no more than the recipient just tried is missing from the store.
LEMMA RecipientDoneKeepsRecordInv ==
  ASSUME AllInv, SendRecipientDone, handed' = handed
  PROVE  RecordInv'
<1>1. header = [m \in Msgs |-> header[m]]
  BY DEF AllInv, IInv, Types, StoreTypes, TypedHeaders
<1>2. \A m \in Msgs : \/ header'[m] = header[m]
                      \/ m = current /\ header'[m] = hdr'.rcpts
  BY <1>1, RecipientDoneRecords
<1>3. \A i \in 1 .. RcpCount[current] : ~NotSent(hdr'.rcpts[i]) => i \in handed[current]
  BY RecipientDoneRecords DEF AllInv, RecordInv, RecordsAreReal
<1>4. RecordsAreReal'
  BY <1>2, <1>3, RecipientDoneRecords DEF AllInv, RecordInv, RecordsAreReal
<1>5. OneIsUnstored'
  BY <1>2, RecipientDoneRecords DEF OneIsUnstored
<1>. QED BY <1>4, <1>5 DEF RecordInv

\* The header is stored: a success is recorded by this very step.
LEMMA RecipientDoneRecorded ==
  ASSUME AllInv, SendRecipientDone, header' = [header EXCEPT ![current] = hdr'.rcpts]
  PROVE  Recorded' = IF progress.error = KErrNone
                       THEN [Recorded EXCEPT ![current] = @ \cup {Recipient}]
                       ELSE Recorded
<1> DEFINE new == IF progress.error = KErrNone THEN {Recipient} ELSE {}
<1>1. header = [m \in Msgs |-> header[m]]
  BY DEF AllInv, IInv, Types, StoreTypes, TypedHeaders
<1>2. \A m \in Msgs : header'[m] = IF m = current THEN hdr'.rcpts ELSE header[m]
  BY <1>1
<1>3. \A j \in 1 .. RcpCount[current] :
        ~NotSent(header'[current][j]) <=> \/ ~NotSent(header[current][j])
                                          \/ j \in new
  BY <1>2, RecipientDoneRecords
<1>4. new \subseteq 1 .. RcpCount[current]
  BY RecipientDoneRecords
<1> HIDE DEF new
<1>5. \A m \in Msgs : Recorded'[m] = IF m = current THEN Recorded[m] \cup new ELSE Recorded[m]
  BY <1>2, <1>3, <1>4 DEF Recorded
<1>6. Recorded' = [Recorded EXCEPT ![current] = @ \cup new]
  BY <1>5 DEF Recorded
<1>7. CASE progress.error = KErrNone
  BY <1>6, <1>7 DEF new
<1>8. CASE progress.error # KErrNone
  <2>1. \A m \in Msgs : Recorded'[m] = Recorded[m]
    BY <1>5, <1>8 DEF new
  <2>2. Recorded' = Recorded
    BY <2>1 DEF Recorded
  <2>. QED BY <1>8, <2>2
<1>. QED BY <1>7, <1>8

\* CSmsSend goes on to the recipient after the one it has tried.
LEMMA RecipientDoneKeepsTryInv ==
  ASSUME AllInv, SendRecipientDone, IInv'
  PROVE  TryInv' /\ Busy' = Busy
<1>1. /\ SendRuns({"SendingEntry"})
      /\ UNCHANGED <<current, queue, delivered>>
  BY DEF SendRecipientDone, histVars, outVars
<1>2. /\ Done(ao, "Send") /\ ~ao["Rcpt"].active /\ progress.state = "Sending"
      /\ progress.rcpDone \in Int /\ SendOpened /\ send.state = "SendingEntry"
  BY <1>1, SendRunsOpened DEF AllInv, SendRuns, Runnable, SendOpened
<1>3. ao \in TypedObjects /\ progress \in ProgressRec /\ send \in SendRec
      /\ queue' \in Seq(Msgs)
  BY <1>1 DEF AllInv, IInv, Types, WorkTypes
<1>4. CASE ao' = Answers(ao, "Send", KErrNone)
  <2>1. ~ao'["Send"].active /\ Busy' = Busy
    BY <1>3, <1>4, BusyStays DEF Busy
  <2>. QED BY <1>1, <1>2, <1>3, <2>1, RestKeepsTryInv DEF AllInv, TryInv
<1>5. CASE /\ ao' = RunsNext(ao, "Send", KErrNone)
           /\ progress' = [progress EXCEPT !.rcpDone = Recipient]
           /\ send'.state = "UpdatingRecipient"
  <2>1. Busy' = Busy /\ ao'["Rcpt"].active = FALSE
    BY <1>2, <1>3, <1>5, BusyStays DEF Busy, RunsNext, TypedObjects, Objects
  <2>2. SuccessIsReal'
    BY <1>5, <2>1 DEF SuccessIsReal, Done
  <2>3. progress'.rcpDone = Recipient
    BY <1>2, <1>3, <1>5, ProgressDone DEF Recipient
  <2>4. Untried(current, Recipient) /\ (\A k \in 1 .. Len(queue) : queue[k] # current)
        /\ \A k \in 1 .. Len(queue) : Untried(queue[k], 0)
    BY <1>2 DEF AllInv, TryInv, NotYetTried
  <2>5. NotYetTried'
    BY <1>1, <1>5, <2>1, <2>3, <2>4 DEF NotYetTried, Untried
  <2>. QED BY <2>1, <2>2, <2>5 DEF TryInv
<1>6. \/ ao' = Answers(ao, "Send", KErrNone)
      \/ /\ ao' = RunsNext(ao, "Send", KErrNone)
         /\ progress' = [progress EXCEPT !.rcpDone = Recipient]
         /\ send'.state = "UpdatingRecipient"
  BY <1>3 DEF SendRecipientDone, Becomes, Snapshot, Recipient, SendRec
<1>. QED BY <1>4, <1>5, <1>6

LEMMA SendRecipientDoneImplements ==
  ASSUME AllInv, IInv', KeepsSent, SendRecipientDone
  PROVE  RecordInv' /\ TryInv' /\ (Delivery!Next \/ UNCHANGED Delivery!vars)
<1>1. UNCHANGED <<handed, delivered>>
  BY DEF SendRecipientDone, histVars
<1>2. RecordInv' /\ TryInv' /\ Busy' = Busy
  BY <1>1, RecipientDoneKeepsRecordInv, RecipientDoneKeepsTryInv
<1>3. Place' = Place
  BY SendRunLKeepsPlaceInv, PlaceIsKept DEF AllInv, SendRunL
<1>4. Busy = TRUE
  BY SendIsBusy DEF SendRecipientDone, SendRuns, Runnable, AllInv
<1>5. CASE header' = header
  BY <1>1, <1>2, <1>3, <1>5, StuttersHere DEF Recorded
<1>6. CASE header' = [header EXCEPT ![current] = hdr'.rcpts]
  <2>1. CASE progress.error = KErrNone
    <3>1. Recorded' = [Recorded EXCEPT ![current] = @ \cup {Recipient}]
      BY <1>6, <2>1, RecipientDoneRecorded
    <3>2. /\ current \in Msgs /\ Place[current] = "Outbox"
          /\ Recipient \in 1 .. RcpCount[current]
          /\ Recipient \in handed[current] \ Recorded[current]
      BY <2>1, RecipientDoneRecords
    <3>3. Delivery!Next
      BY <1>1, <1>2, <1>3, <1>4, <3>1, <3>2, RecordsHere
    <3>. QED BY <1>2, <3>3
  <2>2. CASE progress.error # KErrNone
    <3>1. Recorded' = Recorded
      BY <1>6, <2>2, RecipientDoneRecorded
    <3>. QED BY <1>1, <1>2, <1>3, <3>1, StuttersHere
  <2>. QED BY <2>1, <2>2
<1>. QED BY <1>5, <1>6, RecipientDoneRecords

LEMMA SendNextRecipientImplements ==
  ASSUME AllInv, IInv', KeepsSent, SendNextRecipient
  PROVE  RecordInv' /\ TryInv' /\ UNCHANGED Delivery!vars
<1>1. /\ SendRuns({"OpeningEntry", "UpdatingRecipient"})
      /\ NextRecipient < progress.rcpCount
      /\ progress' = [progress EXCEPT !.rcpDone = NextRecipient]
      /\ send' = [send EXCEPT !.state = "SendingEntry"]
      /\ rcptState' \in {"GetLogEvent", "AddLogEvent"}
      /\ ao' = Awaits(Awaits(ao, "Send"), "Rcpt")
      /\ header' = header /\ hdr' = hdr
      /\ UNCHANGED <<current, queue, handed, delivered>>
  BY DEF SendNextRecipient, storeVars, memVars, outVars, histVars
<1>2. /\ progress.rcpDone \in Int /\ progress.rcpCount \in Int
      /\ SendOpened /\ send.state # "SendingEntry"
      /\ progress \in ProgressRec /\ send \in SendRec /\ ao \in TypedObjects
  BY <1>1, SendRunsOpened DEF AllInv, SendRuns, Runnable, SendOpened, IInv, Types, WorkTypes
<1>3. NextRecipient \in Int /\ progress.rcpDone <= NextRecipient
  <2> DEFINE wanted == {i \in 0 .. progress.rcpCount - 1 :
                          CanSendMessageToRecipient(entry, hdr.rcpts[i + 1])}
  <2>1. NextRecipient = FirstFrom(progress.rcpDone, progress.rcpCount, wanted)
    BY DEF NextRecipient
  <2> HIDE DEF wanted
  <2>2. NextRecipient \in progress.rcpDone .. progress.rcpCount - 1
    BY <1>1, <1>2, <2>1, FirstFromRange
  <2>. QED BY <1>2, <2>2
<1>4. /\ progress'.rcpDone = NextRecipient /\ progress'.state = progress.state
      /\ send'.state = "SendingEntry"
  BY <1>1, <1>2, <1>3, ProgressDone DEF SendRec
<1>5. /\ ao'["Send"] = [active |-> TRUE, status |-> KRequestPending, report |-> TRUE]
      /\ ao'["Rcpt"] = [active |-> TRUE, status |-> KRequestPending, report |-> TRUE]
  BY <1>1, <1>2 DEF Awaits, TypedObjects, Objects
<1>6. SuccessIsReal'
  BY <1>5 DEF SuccessIsReal, Done
<1>7. /\ Untried(current, progress.rcpDone)
      /\ \A k \in 1 .. Len(queue) : Untried(queue[k], 0)
      /\ progress.state = "Sending" => \A k \in 1 .. Len(queue) : queue[k] # current
  BY <1>2 DEF AllInv, TryInv, NotYetTried
<1>8. Untried(current, NextRecipient) /\ Untried(current, NextRecipient + 1)
  BY <1>2, <1>3, <1>7 DEF Untried
<1>9. NotYetTried'
  BY <1>1, <1>4, <1>7, <1>8 DEF NotYetTried, Untried, Recipient
<1>10. RecordInv' /\ Recorded' = Recorded
  BY <1>1, HeadersUntouched DEF AllInv
<1>11. Busy' = Busy
  BY <1>1, <1>2, BusyStays DEF Busy
<1>12. Place' = Place
  BY SendRunLKeepsPlaceInv, PlaceIsKept DEF AllInv, SendRunL
<1>. QED BY <1>1, <1>6, <1>9, <1>10, <1>11, <1>12, StuttersHere DEF TryInv

LEMMA SendImplements ==
  ASSUME AllInv, IInv', KeepsSent, SendRunL
  PROVE  RecordInv' /\ TryInv' /\ (Delivery!Next \/ UNCHANGED Delivery!vars)
BY SendEndsImplements, SendRecipientDoneImplements, SendNextRecipientImplements DEF SendRunL

-----------------------------------------------------------------------------
(* CSmsRecipientSend                                                       *)

\* A recipient sender that waits has not sent; one that answers with success
\* has heard from the socket.
LEMMA RcptAnswer ==
  ASSUME AllInv, RcptRunL
  PROVE  /\ Done(ao, "Rcpt")
         /\ progress'.rcpDone = progress.rcpDone /\ progress'.state = progress.state
         /\ UNCHANGED <<current, queue, send, handed, delivered>>
         /\ \/ /\ ao' = Answers(ao, "Rcpt", KErrNone)
               /\ progress'.error = KErrNone => Recipient \in handed[current]
            \/ /\ ao' = Awaits(ao, "Rcpt")
               /\ rcptState # "SendingMessage"
<1>1. /\ Done(ao, "Rcpt") /\ RcptMoves /\ progress \in ProgressRec
  BY RcptRunLMoves DEF AllInv, IInv, Types, WorkTypes
<1>2. progress'.rcpDone = progress.rcpDone /\ progress'.state = progress.state
  BY <1>1 DEF RcptMoves, ProgressRec
<1>3. UNCHANGED <<current, queue, send, handed, delivered>>
  BY <1>1 DEF RcptMoves, histVars
<1>4. ASSUME NEW e, RcptAnswers(e)
      PROVE  ao' = Answers(ao, "Rcpt", KErrNone) /\ progress'.error = e
  BY <1>1, <1>4 DEF RcptAnswers, ProgressRec
<1>5. CASE RcptFails
  BY <1>1, <1>2, <1>3, <1>4, <1>5 DEF RcptFails
<1>6. CASE RcptSent
  <2>1. Recipient \in handed[current]
    BY <1>1, <1>6 DEF RcptSent, RcptRuns, Runnable, Done, AllInv, TryInv, SuccessIsReal
  <2>. QED BY <1>1, <1>2, <1>3, <1>4, <1>6, <2>1 DEF RcptSent
<1>7. CASE RcptGotLogEvent \/ RcptWroteLogEvent
  <2>1. rcptState # "SendingMessage"
    BY <1>7 DEF RcptGotLogEvent, RcptWroteLogEvent, RcptRuns
  <2>2. \/ ao' = Awaits(ao, "Rcpt")
        \/ \E e \in {KErrNotFound} \cup StoreErrors \cup SendErrors : RcptAnswers(e)
    BY <1>7 DEF RcptGotLogEvent, RcptWroteLogEvent, SendMessageL
  <2>3. KErrNone \notin {KErrNotFound} \cup StoreErrors \cup SendErrors
    BY StoreAssumption DEF KErrNone, KErrNotFound
  <2>. QED BY <1>1, <1>2, <1>3, <1>4, <2>1, <2>2, <2>3
<1>. QED BY <1>5, <1>6, <1>7 DEF RcptRunL

\* SendMessageL stores the header, which records nothing that was not
\* recorded in the store before.
LEMMA RcptHeaders ==
  ASSUME AllInv, RcptRunL
  PROVE  RecordsNothing /\ HdrKept
<1>1. Done(ao, "Rcpt") /\ ao["Send"].active /\ SendOpened
  BY RcptRunLMoves, BelowIsAtRest DEF AllInv, IInv, Waits, SendOpened, Done
<1>2. /\ current \in Msgs /\ hdr.id = current /\ entry.id = current
      /\ TypedHeaders(header)
  BY <1>1, RecipientIsOpened DEF AllInv, Opened, Done, IInv, Types, StoreTypes
<1>3. /\ hdr' = hdr \/ \E k, b : hdr' = [hdr EXCEPT !.rcpts[k].log = b]
      /\ header' \in {header, [header EXCEPT ![entry.id] = hdr'.rcpts]}
  BY DEF RcptRunL, RcptFails, RcptSent, RcptGotLogEvent, RcptWroteLogEvent, SendMessageL,
     storeVars, memVars
<1>4. /\ hdr'.id = hdr.id
      /\ \A i \in 1 .. RcpCount[current] : NotSent(hdr'.rcpts[i]) <=> NotSent(hdr.rcpts[i])
  BY <1>2, <1>3, HeaderIsLogged DEF AllInv
<1>5. \A i \in 1 .. RcpCount[current] : NotSent(header[current][i]) => NotSent(hdr.rcpts[i])
  BY <1>1 DEF AllInv, PlaceInv, HeaderIsCurrent
<1>6. \A m \in Msgs : \/ header'[m] = header[m]
                      \/ m = current /\ header'[m] = hdr'.rcpts
  BY <1>2, <1>3 DEF TypedHeaders
<1>. QED BY <1>2, <1>4, <1>5, <1>6 DEF RecordsNothing, HdrKept

LEMMA RcptImplements ==
  ASSUME AllInv, IInv', KeepsSent, RcptRunL
  PROVE  RecordInv' /\ TryInv' /\ UNCHANGED Delivery!vars
<1>1. /\ Done(ao, "Rcpt") /\ Waits(ao, "Send") /\ SendOpened /\ ao \in TypedObjects
      /\ send.state = "SendingEntry"
  BY RcptAnswer, BelowIsAtRest, RecipientIsOpened
     DEF AllInv, IInv, Waits, SendOpened, Done, Types, WorkTypes
<1>2. RecordInv' /\ Recorded' = Recorded
  BY RcptHeaders, RcptAnswer, RecordedIsKept, HeadersKeepRecordInv DEF AllInv
<1>3. Place' = Place
  BY RcptRunLKeepsPlaceInv, PlaceIsKept DEF AllInv
<1>4. /\ Untried(current, Recipient)
      /\ rcptState # "SendingMessage" => Untried(current, progress.rcpDone)
      /\ \A k \in 1 .. Len(queue) : Untried(queue[k], 0)
      /\ progress.state = "Sending" => \A k \in 1 .. Len(queue) : queue[k] # current
  BY <1>1 DEF AllInv, TryInv, NotYetTried, Done
<1>5. CASE /\ ao' = Answers(ao, "Rcpt", KErrNone)
           /\ progress'.error = KErrNone => Recipient \in handed[current]
  <2>1. ~ao'["Rcpt"].active
    BY <1>1, <1>5 DEF Answers, Parent, TypedObjects, Objects, IdleObject
  <2>2. SuccessIsReal'
    BY <1>5, <2>1, RcptAnswer DEF SuccessIsReal, Done, Recipient
  <2>3. NotYetTried'
    BY <1>1, <1>4, <2>1, RcptAnswer DEF NotYetTried, Untried, Recipient
  <2>4. Busy' = Busy
    BY <1>1, <1>5, BusyStays DEF Busy
  <2>. QED BY <1>2, <1>3, <2>2, <2>3, <2>4, RcptAnswer, StuttersHere DEF TryInv
<1>6. CASE ao' = Awaits(ao, "Rcpt") /\ rcptState # "SendingMessage"
  <2>1. /\ ao'["Rcpt"].status = KRequestPending
        /\ ao'["Send"].status = KRequestPending
    BY <1>1, <1>6 DEF Awaits, Waits, TypedObjects, Objects
  <2>2. SuccessIsReal'
    BY <2>1 DEF SuccessIsReal, Done
  <2>3. NotYetTried'
    BY <1>1, <1>4, <1>6, RcptAnswer DEF NotYetTried, Untried, Recipient
  <2>4. Busy' = Busy
    BY <1>1, <1>6, BusyStays DEF Busy
  <2>. QED BY <1>2, <1>3, <2>2, <2>3, <2>4, RcptAnswer, StuttersHere DEF TryInv
<1>. QED BY <1>5, <1>6, RcptAnswer

-----------------------------------------------------------------------------
(* The services, the client, and the end                                   *)

LEMMA LoggerImplements ==
  ASSUME AllInv, IInv', KeepsSent, NEW o \in {"Rcpt", "Outbox"}, LoggerCompletes(o)
  PROVE  RecordInv' /\ TryInv' /\ UNCHANGED Delivery!vars
<1>1. /\ ao' = [ao EXCEPT ![o].status = KErrNone] /\ ao \in TypedObjects
      /\ header' = header /\ hdr' = hdr
      /\ UNCHANGED <<index, progress, current, queue, send, rcptState, handed, delivered>>
      /\ o = "Rcpt" => rcptState # "SendingMessage"
  BY DEF LoggerCompletes, storeVars, memVars, histVars, AllInv, IInv, Types, WorkTypes
<1>2. /\ ao'["Mtm"] = ao["Mtm"] /\ ao'["Send"] = ao["Send"]
      /\ ao'["Rcpt"].active = ao["Rcpt"].active
      /\ rcptState = "SendingMessage" => ao'["Rcpt"] = ao["Rcpt"]
  BY <1>1 DEF TypedObjects, Objects
<1>3. SuccessIsReal'
  BY <1>1, <1>2 DEF AllInv, TryInv, SuccessIsReal, Done, Recipient
<1>4. NotYetTried'
  BY <1>1, <1>2 DEF AllInv, TryInv, NotYetTried, SendOpened, Waits, Untried, Recipient
<1>5. RecordInv' /\ Recorded' = Recorded
  BY <1>1, HeadersUntouched DEF AllInv
<1>6. Busy' = Busy /\ Place' = Place
  BY <1>1, <1>2 DEF Busy, Place
<1>. QED BY <1>1, <1>3, <1>4, <1>5, <1>6, StuttersHere DEF TryInv

\* The answer of the socket is the hand-over, the first of its recipient in
\* this request.
LEMMA SocketImplements ==
  ASSUME AllInv, IInv', KeepsSent, SocketCompletes
  PROVE  RecordInv' /\ TryInv' /\ (Delivery!Next \/ UNCHANGED Delivery!vars)
<1>1. /\ Waits(ao, "Rcpt") /\ rcptState = "SendingMessage" /\ ao \in TypedObjects
      /\ header' = header /\ hdr' = hdr
      /\ UNCHANGED <<index, progress, current, queue, send, rcptState>>
  BY DEF SocketCompletes, Pending, Waits, storeVars, memVars, AllInv, IInv, Types, WorkTypes
<1>2. PICK e \in SendErrors \cup {KErrNone} :
        /\ ao' = [ao EXCEPT !["Rcpt"].status = e]
        /\ IF e = KErrNone
             THEN /\ delivered' = [delivered EXCEPT ![entry.id][Recipient] = @ + 1]
                  /\ handed' = [handed EXCEPT ![entry.id] = @ \cup {Recipient}]
             ELSE UNCHANGED <<delivered, handed>>
  BY DEF SocketCompletes
<1>3. /\ ao'["Rcpt"].status = e /\ ao'["Send"] = ao["Send"] /\ ao'["Mtm"] = ao["Mtm"]
      /\ e # KRequestPending
  BY <1>1, <1>2, StoreAssumption DEF TypedObjects, Objects, KErrNone, KRequestPending
<1>4. /\ current \in Msgs /\ entry.id = current /\ hdr.id = current
      /\ Recipient \in 1 .. RcpCount[current] /\ RcpCount[current] \in Nat
      /\ progress.rcpDone \in Nat /\ send.state = "SendingEntry"
  BY <1>1, RecipientIsOpened, RcptsOf DEF AllInv, Waits, Opened
<1>5. /\ ao["Send"].active /\ SendOpened /\ Waits(ao, "Send") /\ progress.state = "Sending"
      /\ Busy = TRUE
  BY <1>1, BelowIsAtRest, SendIsBusy DEF AllInv, IInv, Waits, SendOpened
<1>6. /\ Untried(current, progress.rcpDone)
      /\ \A k \in 1 .. Len(queue) : queue[k] # current /\ Untried(queue[k], 0)
  BY <1>1, <1>5 DEF AllInv, TryInv, NotYetTried, Waits
<1>7. Busy' = Busy /\ Place' = Place /\ Recorded' = Recorded
  BY <1>1, <1>3 DEF Busy, Place, Recorded
<1>8. ~Waits(ao, "Rcpt")' /\ ~Done(ao, "Send")'
  BY <1>3, <1>5 DEF Waits, Done
<1>9. CASE e # KErrNone
  <2>1. UNCHANGED <<handed, delivered>>
    BY <1>2, <1>9
  <2>2. RecordInv'
    BY <1>1, <2>1, HeadersUntouched DEF AllInv
  <2>3. SuccessIsReal'
    BY <1>3, <1>8, <1>9 DEF SuccessIsReal
  <2>4. Untried(current, Recipient)
    BY <1>4, <1>6 DEF Untried, Recipient
  <2>5. NotYetTried'
    BY <1>1, <1>4, <1>6, <1>8, <2>1, <2>4 DEF NotYetTried, Untried, Recipient
  <2>. QED BY <1>7, <2>1, <2>2, <2>3, <2>5, StuttersHere DEF TryInv
<1>10. CASE e = KErrNone
  <2>1. /\ DOMAIN delivered = Msgs /\ delivered[current] \in [1 .. RcpCount[current] -> Nat]
        /\ DOMAIN handed = Msgs
    BY <1>4 DEF AllInv, IInv, Types, HistTypes
  <2>2. delivered[current][Recipient] = 0
    BY <1>4, <1>6 DEF Untried, Recipient
  <2>3. /\ delivered' = [delivered EXCEPT ![current][Recipient] = 1]
        /\ handed' = [handed EXCEPT ![current] = @ \cup {Recipient}]
    BY <1>2, <1>4, <1>10, <2>1, <2>2
  <2>4. /\ \A m \in Msgs : handed[m] \subseteq handed'[m]
        /\ Recipient \in handed'[current]
    BY <1>4, <2>1, <2>3
  <2>5. RecordInv'
    BY <1>1, <2>4 DEF AllInv, RecordInv, RecordsAreReal, OneIsUnstored
  <2>6. SuccessIsReal'
    BY <1>1, <2>4 DEF SuccessIsReal, Recipient
  <2>7. /\ \A m \in Msgs : m # current => delivered'[m] = delivered[m]
        /\ \A i \in 1 .. RcpCount[current] :
             i # Recipient => delivered'[current][i] = delivered[current][i]
    BY <1>4, <2>1, <2>3
  <2>8. Untried(current, Recipient)'
    BY <1>1, <1>4, <1>6, <2>7 DEF Untried, Recipient
  <2>9. (\A k \in 1 .. Len(queue) : queue[k] # current /\ Untried(queue[k], 0))'
    <3>1. \A k \in 1 .. Len(queue) : queue[k] \in Msgs
      BY DEF AllInv, IInv, Types, WorkTypes
    <3>. QED BY <1>1, <1>6, <2>7, <3>1 DEF Untried
  <2>10. NotYetTried'
    BY <1>1, <1>4, <1>8, <2>8, <2>9 DEF NotYetTried
  <2>11. Recipient \notin Recorded[current]
    <3>1. NotSent(header[current][Recipient])
      BY <1>4, <1>5 DEF AllInv, SentInv, TriedIsUnsent, HeaderKeepsSent
    <3>. QED BY <1>4, <3>1 DEF Recorded
  <2>12. Delivery!Next
    BY <1>4, <1>5, <1>7, <2>2, <2>3, <2>11, HandsHere
  <2>. QED BY <2>5, <2>6, <2>10, <2>12 DEF TryInv
<1>. QED BY <1>9, <1>10

LEMMA PollImplements ==
  ASSUME AllInv, IInv', KeepsSent, ProgressPoll
  PROVE  RecordInv' /\ TryInv' /\ UNCHANGED Delivery!vars
<1>1. /\ progress.state = "Sending" /\ ao \in TypedObjects
      /\ ao' = [ao EXCEPT !["Rcpt"] = IdleObject, !["Send"] = IdleObject,
                          !["Session"] = IdleObject, !["Outbox"].status = KErrNone]
      /\ header' = header /\ hdr' = hdr
      /\ UNCHANGED <<current, queue, handed, delivered>>
  BY DEF ProgressPoll, outVars, histVars, AllInv, IInv, Types, WorkTypes
<1>2. ~ao'["Send"].active /\ Busy' = Busy
  BY <1>1, IdleFields DEF Busy, TypedObjects, Objects
<1>3. RecordInv' /\ Recorded' = Recorded
  BY <1>1, HeadersUntouched DEF AllInv
<1>4. Place' = Place
  BY PollKeepsPlaceInv, PlaceIsKept DEF AllInv
<1>5. queue' \in Seq(Msgs)
  BY <1>1 DEF AllInv, IInv, Types, WorkTypes
<1>6. TryInv'
  BY <1>1, <1>2, <1>5, RestKeepsTryInv DEF AllInv, TryInv
<1>. QED BY <1>1, <1>2, <1>3, <1>4, <1>6, StuttersHere

\* The client changes entries only; what it deletes is gone.
LEMMA ClientImplements ==
  ASSUME AllInv, ClientStep
  PROVE  RecordInv' /\ TryInv' /\ (Delivery!Next \/ UNCHANGED Delivery!vars)
<1>1. UNCHANGED <<header, hdr, progress, current, queue, send, rcptState, ao, handed,
                  delivered>>
  BY DEF ClientStep, memVars, histVars
<1>2. RecordInv' /\ Recorded' = Recorded /\ Busy' = Busy
  BY <1>1, HeadersUntouched DEF AllInv, Busy
<1>3. TryInv'
  BY <1>1 DEF AllInv, TryInv, SuccessIsReal, NotYetTried, SendOpened, Waits, Done, Untried,
     Recipient
<1>4. CASE KeepsPlaces
  BY <1>1, <1>2, <1>3, <1>4, PlaceIsKept, StuttersHere
<1>5. ASSUME NEW m \in Msgs, Delete(m) PROVE Delivery!Next
  <2>1. index[m].folder = "Outbox" /\ index' = [index EXCEPT ![m] = [NullEntry EXCEPT !.id = m]]
    BY <1>5 DEF Delete, ClientMay
  <2>2. index \in [Msgs -> EntryRec] /\ [NullEntry EXCEPT !.id = m].folder = "None"
    BY DEF AllInv, IInv, Types, StoreTypes, TypedIndex, NullEntry
  <2>3. Place[m] = "Outbox" /\ Place' = [Place EXCEPT ![m] = "None"]
    BY <2>1, <2>2 DEF Place
  <2>. QED BY <1>1, <1>2, <2>3, RemovesHere
<1>. QED BY <1>2, <1>3, <1>4, <1>5, ClientKeepsPlaceInv DEF AllInv

-----------------------------------------------------------------------------
(* The invariant and the refinement                                        *)

LEMMA InitAllInv == Init => AllInv
<1> SUFFICES ASSUME Init PROVE AllInv
  OBVIOUS
<1>1. IInv /\ SentInv /\ PlaceInv
  BY InitIInv, InitSentInv, InitPlaceInv
<1>2. hdr.id \notin Msgs
  <2>1. hdr = NullHeader
    BY Zenon DEF Init
  <2>. QED BY <2>1, StoreAssumption DEF NullHeader
<1>3. \A m \in Msgs : \A i \in 1 .. RcpCount[m] : NotSent(header[m][i])
  <2>1. header = [m \in Msgs |-> [i \in 1 .. RcpCount[m] |-> NewRcpt]]
    BY Zenon DEF Init
  <2>. QED BY <2>1, NewRcptType
<1>4. RecordInv
  BY <1>2, <1>3 DEF RecordInv, RecordsAreReal, OneIsUnstored
<1>5. ~ao["Send"].active /\ ~ao["Rcpt"].active
  BY IdleFields, Zenon DEF Init, Objects
<1>6. progress.state # "Sending" /\ Len(queue) = 0
  <2>1. progress = NewProgress /\ queue = <<>>
    BY Zenon DEF Init
  <2>. QED BY <2>1 DEF NewProgress
<1>7. TryInv
  BY <1>5, <1>6 DEF TryInv, SuccessIsReal, NotYetTried, SendOpened, Done
<1>. QED BY <1>1, <1>4, <1>7 DEF AllInv

\* Nothing happens.
LEMMA StutterImplements ==
  ASSUME AllInv, UNCHANGED vars
  PROVE  RecordInv' /\ TryInv' /\ UNCHANGED Delivery!vars
<1>1. /\ UNCHANGED <<header, hdr, progress, current, queue, send, rcptState, ao, handed,
                     delivered>>
      /\ index' = index
  BY DEF vars
<1>2. RecordInv'
  BY <1>1, HeadersUntouched DEF AllInv
<1>3. TryInv'
  BY <1>1 DEF AllInv, TryInv, SuccessIsReal, NotYetTried, SendOpened, Waits, Done, Untried,
     Recipient
<1>. QED BY <1>1, <1>2, <1>3 DEF Delivery!vars

\* Every step of the chain of active objects is a step of SmsDelivery, or
\* changes nothing that SmsDelivery speaks of.
LEMMA StepImplements ==
  ASSUME AllInv, [Next]_vars
  PROVE  AllInv' /\ [Delivery!Next]_(Delivery!vars)
<1>1. IInv' /\ SentInv' /\ KeepsSent /\ PlaceInv'
  BY StepKeepsIInv, StepKeepsSentInv, StepKeepsPlaceInv DEF AllInv
<1>2. CASE Request
  <2>1. KeepsPlaces
    BY <1>1, <1>2, RequestKeepsPlaceInv DEF AllInv
  <2>. QED BY <1>1, <1>2, <2>1, RequestImplements DEF AllInv
<1>3. CASE MtmRuns \/ MtmCancel
  <2>1. KeepsPlaces
    BY <1>1, <1>3, MtmKeepsPlaceInv DEF AllInv
  <2>. QED BY <1>1, <1>3, <2>1, MtmImplements DEF AllInv
<1>4. CASE OutboxRunL
  BY <1>1, <1>4, OutboxImplements DEF AllInv
<1>5. CASE SessionRuns
  BY <1>1, <1>5, SessionImplements DEF AllInv
<1>6. CASE SendRunL
  BY <1>1, <1>6, SendImplements DEF AllInv
<1>7. CASE RcptRunL
  BY <1>1, <1>7, RcptImplements DEF AllInv
<1>8. CASE Services
  <2>1. CASE LoggerCompletes("Rcpt") \/ LoggerCompletes("Outbox")
    BY <1>1, <2>1, LoggerImplements DEF AllInv
  <2>2. CASE SocketCompletes
    BY <1>1, <2>2, SocketImplements DEF AllInv
  <2>. QED BY <1>8, <2>1, <2>2 DEF Services
<1>9. CASE ProgressPoll
  BY <1>1, <1>9, PollImplements DEF AllInv
<1>10. CASE ClientStep
  BY <1>1, <1>10, ClientImplements DEF AllInv
<1>11. CASE UNCHANGED vars
  BY <1>1, <1>11, StutterImplements DEF AllInv
<1>. QED BY <1>2, <1>3, <1>4, <1>5, <1>6, <1>7, <1>8, <1>9, <1>10, <1>11 DEF Next

LEMMA SpecKeepsAllInv == Spec => []AllInv
<1>1. AllInv /\ [Next]_vars => AllInv'
  BY StepImplements
<1>. QED BY <1>1, InitAllInv, PTL DEF Spec

\* The chain of active objects from CSmsServerMtm::CopyFromLocalL down to
\* CSmsRecipientSend implements SmsDelivery, for every store, every set of
\* errors and whatever the client does meanwhile: a recipient is handed to
\* the network at most once in a request and never once it is recorded as
\* sent, only a real hand-over is recorded, no record is lost, and a message
\* reaches the Sent folder only when all of it is recorded.
THEOREM DeliveryIsImplemented == Spec => ImplementsDelivery
<1>1. AllInv /\ [Next]_vars => [Delivery!Next]_(Delivery!vars)
  BY StepImplements
<1>. QED BY <1>1, InitImplements, SpecKeepsAllInv, PTL DEF Spec, ImplementsDelivery, Delivery!Spec
=============================================================================
