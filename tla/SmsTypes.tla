------------------------------ MODULE SmsTypes ------------------------------
(***************************************************************************)
(* Vocabulary shared by the models of the SMS server MTM: system-wide      *)
(* error codes, sending states of an index entry, recipient statuses, and  *)
(* the error actions of SMSS.rss.                                          *)
(***************************************************************************)
EXTENDS Integers

CONSTANT MaxRetries   \* max_retries of a fixed error action (3 in SMSS.rss)

ASSUME MaxRetriesAssumption == MaxRetries \in Nat

\* System error codes (e32err.h), and the request status of an asynchronous
\* request that has not completed.
KErrNone         ==  0
KErrNotFound     == -1
KErrGeneral      == -2
KErrCancel       == -3
KErrNoMemory     == -4
KErrNotSupported == -5
KErrLocked       == -22
KErrDiskFull     == -26
KErrGsmSMSUnknownSubscriber == -4542
KErrGsmSMSNetworkFailure    == -4529
KErrGsmSMSNetworkTimeout    == -4844
KRequestPending  == -2147483647

KErrUnknownBioType == KErrNotSupported

\* Sending state of a message entry. Scheduled and Resend are treated alike
\* by every line of the code that looks at them: Resend stands for both.
SendingStates ==
  {"Unknown", "Waiting", "Sending", "Resend", "Suspended", "Failed", "Sent"}

RcptStatuses == {"NotYetSent", "SentSuccessfully", "FailedToSend"}

-----------------------------------------------------------------------------
\* An error action: what the scheduler does with a recipient that failed
\* with some error. "max" counts only when the retries are not infinite.
ActionRec == [action : {"SentAlready", "Fail", "RetryLater"},
              infinite : BOOLEAN, max : Nat]

FailErrors     == {KErrNotSupported, KErrCancel, KErrGsmSMSUnknownSubscriber}
InfiniteErrors == {KErrNoMemory, KErrDiskFull, KErrGsmSMSNetworkFailure}

\* The table of SMSS.rss: some errors fail at once, some are retried for
\* ever, and every other one a fixed number of times.
ErrorAction(e) ==
  [action   |-> IF e \in FailErrors THEN "Fail" ELSE "RetryLater",
   infinite |-> e \in InfiniteErrors,
   max      |-> MaxRetries]
=============================================================================
