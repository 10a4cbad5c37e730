---------------------------- MODULE MCImapIdle ----------------------------
(***************************************************************************)
(* Small instances of ImapIdle for TLC.                                    *)
(***************************************************************************)
EXTENDS ImapIdle

CONSTANTS in, other

MCBoxes == {in, other}

MCSelect    == [kind |-> "Select", box |-> other]
MCCopy      == [kind |-> "Copy", box |-> other]
MCCopyInbox == [kind |-> "Copy", box |-> in]
MCOps       == {MCSelect, MCCopy, MCCopyInbox}
MCCopies    == {MCCopy, MCCopyInbox}

MCIdle == {TRUE}
MCBoth == BOOLEAN

MCCopyOnly == {MCCopy}

MCNone   == {}
MCKnown  == {"SessionCommandNotFlushing", "OperationPendingNotIdle", "UnexpectedStateAtStart"}
MCSelectRefused == {"select"}

=============================================================================
