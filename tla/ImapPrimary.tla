---------------------------- MODULE ImapPrimary ----------------------------
(***************************************************************************)
(* What CImapProtocolController promises of its primary connection: one    *)
(* part of the server MTM uses it at a time, and it is handed over only    *)
(* when nothing is outstanding on it. The exception is a cancelled         *)
(* operation: whatever it leaves outstanding is for the recovery to wait   *)
(* for, and nobody uses the connection in the meantime.                    *)
(***************************************************************************)
VARIABLES
  owner,    \* who may use the connection
  busy,     \* a command has been sent and its answer has not been read
  request   \* the client waits for an answer

vars == <<owner, busy, request>>

Users == {"Idle", "Op"}

TypeOK == /\ owner \in Users \cup {"Recover", "Offline"}
          /\ {busy, request} \subseteq BOOLEAN

Init == owner = "Idle" /\ ~busy /\ ~request

\* The client asks for an operation. Either the idle controller is told to
\* give the connection back, or nothing uses it and the operation starts.
Ask == /\ owner \in Users /\ ~request
       /\ owner' = owner \/ (~busy /\ owner' = "Op")
       /\ request' = TRUE
       /\ UNCHANGED busy

\* A user sends a command, and its answer is read.
Use == /\ owner \in Users /\ ~busy
       /\ busy' = TRUE
       /\ UNCHANGED <<owner, request>>
End == /\ busy
       /\ busy' = FALSE
       /\ UNCHANGED <<owner, request>>

HandOver == /\ owner = "Idle" /\ request /\ ~busy
            /\ owner' = "Op"
            /\ UNCHANGED <<busy, request>>

\* The operation has ended, and the idle controller takes the connection.
Answer == /\ owner = "Op" /\ request /\ ~busy
          /\ owner' \in Users
          /\ request' = FALSE
          /\ UNCHANGED busy

\* The client cancels: what has been sent is left to be waited for.
Cancel == /\ request
          /\ owner' = "Recover" /\ request' = FALSE
          /\ busy' \in {FALSE, busy}

Recovered == /\ owner = "Recover" /\ ~busy
             /\ owner' = "Idle"
             /\ UNCHANGED <<busy, request>>

\* A connection may end at any time, and answers whoever waits.
Disconnect == /\ owner # "Offline"
              /\ owner' = "Offline" /\ ~busy' /\ ~request'

Next == \/ Ask \/ Use \/ End \/ HandOver \/ Answer
        \/ Cancel \/ Recovered \/ Disconnect

Spec == Init /\ [][Next]_vars

=============================================================================
