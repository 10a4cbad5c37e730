------------------------- MODULE SmsScheduledEntry -------------------------
(***************************************************************************)
(* CSmsScheduledEntry (SMSSchSend.cpp): what re-scheduling a message does  *)
(* to its recipients, as operators on a function rs from 1..n to recipient *)
(* records, and CMsvScheduleSend::ReScheduleL (messagingfw, external) as   *)
(* far as those methods and CSmsOutboxSend rely on it.                     *)
(***************************************************************************)
EXTENDS SmsTypes

\* A recipient of a message header (CSmsNumber): its status, the error of
\* the last attempt, whether it has a log event, whether it waits for a
\* delivery report, and its number of retries.
RcptRec(errs) == [status : RcptStatuses, err : errs, log : BOOLEAN,
                  ack : BOOLEAN, retries : Nat]

NotSent(r) == r.status # "SentSuccessfully"

\* Bugs of CheckRecipient, for the mutants: the test for a sent recipient is
\* missing, or one retry too many is allowed.
BugRetriesSent(r, a) ==
  a.action = "RetryLater" /\ (a.infinite \/ r.retries < a.max)

BugRetriesOnceMore(r, a) ==
  NotSent(r) /\ a.action = "RetryLater" /\ (a.infinite \/ r.retries <= a.max)

BugChecksSent(r, a) ==
  [r EXCEPT !.status = IF BugRetriesSent(r, a) THEN "NotYetSent" ELSE "FailedToSend"]

\* CheckRecipient returns this ...
Retriable(r, a) ==
  /\ NotSent(r)
  /\ a.action = "RetryLater"
  /\ a.infinite \/ r.retries < a.max

\* ... and leaves the recipient like this.
CheckRecipient(r, a) ==
  IF ~NotSent(r) THEN r
  ELSE [r EXCEPT !.status =
          CASE a.action = "SentAlready" -> "SentSuccessfully"
            [] Retriable(r, a)          -> "NotYetSent"
            [] OTHER                    -> "FailedToSend"]

\* Both overloads: act[i] is the action for recipient i, the one action the
\* caller names or the one listed for the recipient's error.
CanSendToAnyRecipients(rs, act) ==
  \E i \in DOMAIN rs : Retriable(rs[i], act[i])

CheckedRecipients(rs, act) ==
  [i \in DOMAIN rs |-> CheckRecipient(rs[i], act[i])]

RecipientsAllSent(rs) ==
  /\ DOMAIN rs # {}
  /\ \A i \in DOMAIN rs : ~NotSent(rs[i])

RecipientsIncreaseRetries(rs) ==
  [i \in DOMAIN rs |->
     IF NotSent(rs[i]) THEN [rs[i] EXCEPT !.retries = @ + 1] ELSE rs[i]]

RecipientsSetFailed(rs) ==
  [i \in DOMAIN rs |->
     IF NotSent(rs[i]) THEN [rs[i] EXCEPT !.status = "FailedToSend"] ELSE rs[i]]

-----------------------------------------------------------------------------
\* CMsvScheduleSend::ReScheduleL on one message: scheduled again when some
\* recipient can be retried, else sent when all of them are, else failed.
ReScheduledRecipients(rs, act) ==
  LET checked == CheckedRecipients(rs, act)
  IN  IF CanSendToAnyRecipients(rs, act) THEN RecipientsIncreaseRetries(checked)
      ELSE IF RecipientsAllSent(checked) THEN checked
      ELSE RecipientsSetFailed(checked)

ReScheduledEntry(e, rs, act) ==
  IF CanSendToAnyRecipients(rs, act)
    THEN [e EXCEPT !.state = "Resend", !.scheduled = TRUE, !.due = FALSE,
                   !.failed = FALSE]
  ELSE IF RecipientsAllSent(CheckedRecipients(rs, act))
    THEN [e EXCEPT !.state = "Sent", !.scheduled = FALSE, !.failed = FALSE,
                   !.err = KErrNone]
  ELSE [e EXCEPT !.state = "Failed", !.scheduled = FALSE, !.failed = TRUE]

\* The actions SMSS.rss lists for the recipients' own errors.
ListedActions(rs) == [i \in DOMAIN rs |-> ErrorAction(rs[i].err)]
=============================================================================
