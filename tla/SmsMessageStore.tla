-------------------------- MODULE SmsMessageStore --------------------------
(***************************************************************************)
(* The data the SMS send chain works on: index entries (TMsvEntry /        *)
(* TMsvSmsEntry), stored headers, and what the methods of CSmssActive,     *)
(* CSmsSend and CSmsOutboxSend compute from them. No state: operators      *)
(* only, so that the state machine of SmsOutboxSend stays readable.        *)
(***************************************************************************)
EXTENDS SmsScheduledEntry, FiniteSets, Sequences

CONSTANTS
  Msgs,             \* the SMS messages of the outbox
  NoMsg,            \* KMsvNullIndexEntryId
  RcpCount,         \* number of recipients of each message
  Kind,             \* what DivideMessagesL makes of each message
  DeliveryReports,  \* messages that ask for delivery reports
  SendErrors,       \* errors a socket send may end with
  StoreErrors       \* errors an operation on the message store may leave with

Kinds == {"text", "wap", "badBio", "inPreparation", "storeDenied"}

ASSUME StoreAssumption ==
  /\ NoMsg \notin Msgs /\ IsFiniteSet(Msgs)
  /\ RcpCount \in [Msgs -> Nat]
  /\ Kind \in [Msgs -> Kinds]
  /\ DeliveryReports \subseteq Msgs
  /\ SendErrors \subseteq Int \ {KErrNone, KErrCancel, KRequestPending}
  /\ StoreErrors \subseteq Int \ {KErrNone, KErrCancel, KRequestPending}

\* Every error code the chain can meet.
Errors == {KErrNone, KErrNotFound, KErrCancel, KErrUnknownBioType}
            \cup SendErrors \cup StoreErrors

\* An index entry. Folder "None": the message has been deleted. "due" stands
\* for iDate < iStartTime, "ackPending" for the delivery acknowledgement
\* summary EPendingAcks, "msgIdValid" for a valid message id.
EntryRec == [id : Msgs \cup {NoMsg}, folder : {"Outbox", "Sent", "None"},
             state : SendingStates, failed : BOOLEAN, err : Errors,
             connected : BOOLEAN, scheduled : BOOLEAN, due : BOOLEAN,
             ackPending : BOOLEAN, msgIdValid : BOOLEAN]

\* TMsvEntry().
NullEntry == [id |-> NoMsg, folder |-> "None", state |-> "Unknown",
              failed |-> FALSE, err |-> KErrNone, connected |-> FALSE,
              scheduled |-> FALSE, due |-> FALSE, ackPending |-> FALSE,
              msgIdValid |-> FALSE]

Rcpts(m) == [1 .. RcpCount[m] -> RcptRec(Errors)]

NewRcpt == [status |-> "NotYetSent", err |-> KErrNone, log |-> FALSE,
            ack |-> FALSE, retries |-> 0]

\* A header in memory (CSmsHeader): whose it is, and its recipients.
NullHeader == [id |-> NoMsg, rcpts |-> <<>>]

-----------------------------------------------------------------------------
(* CSmssActive                                                             *)

\* Bugs: a suspended message may be sent, a sent recipient is sent again.
BugSendsSuspended(e) == e.state # "Sent"

BugSendsSentRecipient(e, r) == BugSendsSuspended(e)

CanSendMessage(e) == e.state \notin {"Suspended", "Sent"}

CanSendMessageToRecipient(e, r) == NotSent(r) /\ CanSendMessage(e)

\* The first recipient, counted from 0, at or after "from" that Wanted
\* selects, or n when there is none.
FirstFrom(from, n, wanted) ==
  IF \E i \in from .. n - 1 : i \in wanted
    THEN CHOOSE i \in from .. n - 1 :
           i \in wanted /\ \A j \in from .. i - 1 : j \notin wanted
    ELSE n

-----------------------------------------------------------------------------
(* CSmsOutboxSend                                                          *)

\* Bug: only the Failed flag is looked at, which re-scheduling clears.
BugLooksAtFailedOnly(e) == ~e.failed

MessageSent(e) ==
  \/ e.state = "Sent"
  \/ /\ e.err = KErrNone
     /\ ~e.failed
     /\ e.state \notin {"Failed", "Resend", "Suspended"}

CanLogRecipient(r) == NotSent(r)

\* Bugs: messages that wait, or that are being sent, are forgotten.
BugFailsSendingOnly(e, err, state) ==
  IF e.state = "Sending" THEN [e EXCEPT !.state = state, !.failed = TRUE,
                                        !.connected = FALSE] ELSE e

BugFailsWaitingOnly(e, err, state) ==
  IF e.state = "Waiting" THEN [e EXCEPT !.state = state, !.failed = TRUE] ELSE e

\* What FailOutstandingMessages does to one entry.
FailIfOutstanding(e, err, state) ==
  IF \/ e.state \in {"Sending", "Waiting"}
     \/ e.state = "Resend" /\ e.due
    THEN [e EXCEPT !.state = state, !.err = err, !.failed = TRUE,
                   !.connected = FALSE, !.scheduled = FALSE]
    ELSE e

FailOutstanding(index, selection, err, state) ==
  [m \in Msgs |->
     IF m \in selection /\ index[m].folder # "None"
       THEN FailIfOutstanding(index[m], err, state)
       ELSE index[m]]

-----------------------------------------------------------------------------
(* CSmsSend                                                                *)

\* The fields of a CSmsSend that survive from one message to the next.
SendStates == {"Waiting", "OpeningEntry", "SendingEntry", "UpdatingRecipient"}

SendRec == [state : SendStates, failedStatus : Errors, sentRcpts : Nat,
            reports : BOOLEAN]

NewSend == [state |-> "Waiting", failedStatus |-> KErrNone,
            sentRcpts |-> 0, reports |-> FALSE]

\* OpenEntryL: the entry of a message that starts being sent.
OpenedEntry(e) ==
  [e EXCEPT !.connected = TRUE, !.failed = FALSE, !.state = "Sending",
            !.err = KErrNone]

\* Bugs: a recipient is recorded although the send failed, or never is.
BugRecordsFailed(r, err, reports) ==
  [r EXCEPT !.err = err,
            !.status = IF err = KErrCancel THEN "NotYetSent" ELSE "SentSuccessfully"]

BugRecordsNothing(r, err, reports) == [r EXCEPT !.err = err]

\* UpdateAfterRecipientSentL: what it makes of the recipient just tried.
RecipientAfterSend(r, err, reports) ==
  [r EXCEPT !.err = err,
            !.ack = @ \/ (err = KErrNone /\ reports),
            !.status = CASE err = KErrNone   -> "SentSuccessfully"
                         [] err = KErrCancel -> "NotYetSent"
                         [] OTHER            -> "FailedToSend"]

\* UpdateEntryAfterAllSentL: the entry when all recipients have been tried.
EntryAfterAllSent(e, send, rcpCount) ==
  LET acked  == send.reports /\ send.sentRcpts > 0
      setsId == acked /\ Kind[e.id] = "text"
      single == setsId /\ send.sentRcpts = 1 /\ ~e.ackPending
      error  == e.failed \/ e.err # KErrNone
      failed == error \/ (single /\ rcpCount = 0)
      state  == CASE ~failed -> "Sent"
                  [] error /\ e.err = KErrCancel /\ ~(single /\ rcpCount = 0)
                             -> "Suspended"
                  [] OTHER   -> e.state
  IN  IF e.state = "Suspended" THEN [e EXCEPT !.connected = FALSE]
      ELSE [e EXCEPT !.connected = FALSE, !.failed = failed, !.state = state,
                     !.ackPending = @ \/ acked,
                     !.msgIdValid = IF setsId THEN single /\ rcpCount > 0 ELSE @]
=============================================================================
