---------------------------- MODULE SmsDelivery ----------------------------
(***************************************************************************)
(* What sending from the SMS outbox promises, told without the chain of    *)
(* active objects that does it: requests come one at a time; in each of    *)
(* them a recipient is handed to the network at most once, and never after *)
(* it has been recorded as sent; only what was handed over is recorded;    *)
(* and a message moves to the Sent folder when all of it is recorded.      *)
(* What it does not promise is that a hand-over is recorded: a request     *)
(* that is cancelled in between loses the record, and the next request     *)
(* sends to the same recipient again.                                      *)
(***************************************************************************)
EXTENDS Integers

CONSTANTS Msgs, RcpCount

VARIABLES
  busy,       \* whether a request is outstanding
  place,      \* place[m]: the folder of m
  recorded,   \* recorded[m]: the recipients recorded as sent
  handed,     \* handed[m]: the recipients ever handed to the network
  delivered   \* delivered[m][i]: hand-overs in the last request

vars == <<busy, place, recorded, handed, delivered>>

Everyone(m) == 1 .. RcpCount[m]

NothingDelivered == [m \in Msgs |-> [i \in Everyone(m) |-> 0]]

Init ==
  /\ busy = FALSE
  /\ place = [m \in Msgs |-> "Outbox"]
  /\ recorded = [m \in Msgs |-> {}] /\ handed = [m \in Msgs |-> {}]
  /\ delivered = NothingDelivered

Begin ==
  /\ ~busy /\ busy'
  /\ delivered' = NothingDelivered
  /\ UNCHANGED <<place, recorded, handed>>

Hand(m, i) ==
  /\ busy
  /\ i \notin recorded[m] /\ delivered[m][i] = 0
  /\ delivered' = [delivered EXCEPT ![m][i] = 1]
  /\ handed' = [handed EXCEPT ![m] = @ \cup {i}]
  /\ UNCHANGED <<busy, place, recorded>>

Record(m, i) ==
  /\ busy /\ place[m] = "Outbox"
  /\ i \in handed[m] \ recorded[m]
  /\ recorded' = [recorded EXCEPT ![m] = @ \cup {i}]
  /\ UNCHANGED <<busy, place, handed, delivered>>

Move(m) ==
  /\ busy /\ place[m] = "Outbox"
  /\ recorded[m] = Everyone(m) /\ Everyone(m) # {}
  /\ place' = [place EXCEPT ![m] = "Sent"]
  /\ UNCHANGED <<busy, recorded, handed, delivered>>

Remove(m) ==
  /\ place[m] = "Outbox"
  /\ place' = [place EXCEPT ![m] = "None"]
  /\ UNCHANGED <<busy, recorded, handed, delivered>>

End ==
  /\ busy /\ ~busy'
  /\ UNCHANGED <<place, recorded, handed, delivered>>

Next ==
  \/ Begin \/ End
  \/ \E m \in Msgs : \/ Move(m) \/ Remove(m)
                     \/ \E i \in Everyone(m) : Hand(m, i) \/ Record(m, i)

Spec == Init /\ [][Next]_vars
=============================================================================
