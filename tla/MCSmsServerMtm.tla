--------------------------- MODULE MCSmsServerMtm ---------------------------
(***************************************************************************)
(* Small instances of SmsServerMtm for TLC.                                *)
(***************************************************************************)
EXTENDS SmsServerMtm

\* "received" and "other" are on the SIM, "draft" has two recipients.
MCTexts      == {"received", "other", "draft"}
MCRecipients == [t \in MCTexts |-> IF t = "draft" THEN 2 ELSE 0]
MCSlots      == 1 .. 3
MCOnCard     == [s \in MCSlots |-> CASE s = 1 -> "received" [] s = 3 -> "other" [] OTHER -> Empty]
MCIds        == 1 .. 5
MCDrafts     == [i \in {1} |-> "draft"]
=============================================================================
