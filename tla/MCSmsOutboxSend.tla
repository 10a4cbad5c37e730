-------------------------- MODULE MCSmsOutboxSend --------------------------
(***************************************************************************)
(* Small instances of SmsOutboxSend for TLC.                               *)
(***************************************************************************)
EXTENDS SmsOutboxSend, TLC

CONSTANTS m1, m2, m3

MCMsgs == {m1, m2}
MCMsgs3 == {m1, m2, m3}

\* One message with two recipients and one with a single recipient.
MCRcpt21 == (m1 :> 2) @@ (m2 :> 1)
MCText == [m \in MCMsgs |-> "text"]
\* A text and a WAP message, and one whose recipients were all removed.
MCRcpt110 == (m1 :> 1) @@ (m2 :> 1) @@ (m3 :> 0)
MCTextWap == (m1 :> "text") @@ (m2 :> "wap") @@ (m3 :> "text")
\* A message with two recipients, and one that cannot be sent by any type.
MCTextBad == (m1 :> "text") @@ (m2 :> "badBio")
MCReportsFirst == {m1}

MCNone       == {}
MCBothErrors == {KErrGsmSMSNetworkTimeout, KErrGsmSMSUnknownSubscriber}
MCStoreError == {KErrDiskFull}
MCTimeout    == {KErrGsmSMSNetworkTimeout}
MCMixed      == {"Waiting", "Resend"}
MCCondAny    == BOOLEAN
MCNoResume   == {"Suspend", "Delete", "Poll", "Cancel"}
MCCancelOnly == {"Cancel"}
MCDeleteOnly == {"Delete"}
MCRetryOps   == {"Suspend", "Resume", "Cancel"}
MCWaiting    == {"Waiting"}
MCMet        == {TRUE}
MCLogOk      == {KErrNone}
MCLogAny     == {KErrNone, KErrNotFound}
MCAllOps     == {"Suspend", "Resume", "Delete", "Poll", "Cancel"}

=============================================================================
