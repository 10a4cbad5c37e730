---------------------------- MODULE SmsSimUtils ----------------------------
(***************************************************************************)
(* CSmsSimUtils: the messages on the SIM (the phone store).                *)
(*                                                                         *)
(* One object serves one request of CSmsServerMtm (SmsServerMtm.tla). It   *)
(* enumerates the SIM into a folder of the message store, deletes, copies  *)
(* or moves enumerated messages, and copies or moves messages to the SIM,  *)
(* one asynchronous operation of the SMS socket or of the message store    *)
(* after the other. Each action below is one function called by the MTM or *)
(* one RunL, with every synchronous call it makes; the handlers leave the  *)
(* state of the MTM to SmsServerMtm. Between two of them the client may    *)
(* delete messages and folders, and the SIM may lose messages to others.   *)
(***************************************************************************)
EXTENDS Integers, Sequences, FiniteSets

CONSTANTS
  Slots,         \* the slots of the SIM, in the order they are read
  Texts,         \* what messages say
  Recipients,    \* Recipients[t]: recipients of t, 0 when it was received
  OnCard,        \* what the slots hold at the start
  Ids,           \* bound: ids of message entries
  Drafts,        \* the entries at the start: a text for each of some ids
  Hidden,        \* bound: ids of folders the code creates
  Class2Folder,  \* the folder of the settings for class 2 messages
  Fails          \* which operations may fail: "card", "store", "leave"

Folders     == {"Inbox", "Drafts", "Mine", "Class2"} \cup Hidden
NoFolder    == "KErrNotFound"
NoText      == "no header stored"
Empty       == "empty"

ASSUME SimAssumption ==
  /\ Slots \subseteq Nat /\ IsFiniteSet(Slots)
  /\ Ids \subseteq Nat /\ IsFiniteSet(Ids)
  /\ Hidden \subseteq STRING \ {"Inbox", "Drafts", "Mine", "Class2", NoFolder}
  /\ Recipients \in [Texts -> Nat]
  /\ OnCard \in [Slots -> Texts \cup {Empty}] /\ {NoText, Empty} \cap Texts = {}
  /\ DOMAIN Drafts \subseteq Ids /\ \A i \in DOMAIN Drafts : Drafts[i] \in Texts
  /\ Class2Folder \in {NoFolder, "Class2"}
  /\ Fails \subseteq {"card", "store", "leave"}

KErrNone        ==  0
KErrNotFound    == -1
KErrGeneral     == -2
KErrCancel      == -3
KErrNoMemory    == -4
KErrArgument    == -6
KRequestPending == -2147483647

Errors == {KErrNone, KErrNotFound, KErrGeneral, KErrCancel, KErrNoMemory,
           KErrArgument}

VARIABLES
  card,     \* card[s]: what slot s of the SIM holds
  store,    \* store[i]: entry i of the message store
  hidden,   \* the enumeration folders under the SMS service that exist
  last,     \* iLastEnumerateFolder, as stored with the service
  sim,      \* the CSmsSimUtils object
  fault     \* the first panic or hang

simVars == <<card, store, hidden, last, sim, fault>>

\* An entry: its folder, its text, and the slots in its header (iSlotArray).
NoEntry  == [folder |-> NoFolder, text |-> NoText, slots |-> {}]
EntryRec == [folder : Folders \cup {NoFolder}, text : Texts \cup {NoText},
             slots : SUBSET Slots]

Exists(i) == store[i] # NoEntry
FolderExists(f) == f \in hidden \cup {"Inbox", "Drafts", "Mine", "Class2"}

\* Ids the store may give to a new entry.
Free == {i \in Ids : ~Exists(i)} \ {sim.sel[j] : j \in DOMAIN sim.sel}

Lowest(S) == CHOOSE i \in S : \A j \in S : i <= j

-----------------------------------------------------------------------------
(* The object                                                              *)

CardOps  == {"Count", "ReadNext", "Delete", "Write", "ReadParams",
             "CompleteRead", "WriteParams"}
StoreOps == {"Copy", "Move", "Class2Copy", "Class2Move"}

SimTypes == {"Enumerate", "Delete", "CopyFrom", "MoveFrom", "MovingEntries",
             "CopyTo", "MoveTo", "ReadParams", "WriteParams"}

SimStates == {"Other", "DeleteEach", "Writing", "UpdatingClass2", "DeletedLast"}

\* NewL. list is what the SMS stack has read from the SIM and will hand out;
\* written (copies of each message written to the SIM) and failed (whether an
\* operation of the request failed) are history.
NewSim ==
  [exists |-> TRUE, type |-> "Enumerate", state |-> "Other", active |-> FALSE,
   status |-> KErrNone, report |-> FALSE, op |-> "None", sel |-> <<>>,
   done |-> 0, count |-> 0, error |-> KErrNone, folder |-> NoFolder,
   dest |-> NoFolder, rcptCount |-> 0, rcptIndex |-> 0, completed |-> <<>>,
   list |-> <<>>, slots |-> {}, reading |-> FALSE,
   written |-> <<>>, failed |-> FALSE]

NoSim == [NewSim EXCEPT !.exists = FALSE]

\* Queue and the assignments to iProgress at the start of a request.
Queued(type, sel) ==
  [NewSim EXCEPT !.report = TRUE, !.type = type, !.sel = sel,
                 !.count = Len(sel), !.written = [j \in DOMAIN sel |-> 0]]

\* SetActive, with an operation of the socket or the store outstanding.
WaitsFor(s, op) ==
  [s EXCEPT !.active = TRUE, !.status = KRequestPending, !.op = op]

\* RequestComplete(&iStatus, KErrNone, ETrue): its own RunL comes next.
RunsNext(s) == [s EXCEPT !.active = TRUE, !.status = KErrNone, !.op = "None"]

Runs(type) == /\ sim.active /\ sim.status # KRequestPending
              /\ sim.type = type /\ sim.status = KErrNone

\* The object in its RunL: CActive is no longer active.
Running == [sim EXCEPT !.active = FALSE, !.op = "None"]

\* Complete(e) when there is nothing more to do: the MTM is answered.
Done(s, e) == [s EXCEPT !.active = FALSE, !.report = FALSE, !.op = "None",
                        !.error = IF e # KErrNone THEN e ELSE @]

MayLeave == "leave" \in Fails

\* A function leaves: the leave goes to the MTM while the request is being
\* started, and to RunError, which completes it, in a RunL.
Left(s, e) == IF sim.active THEN Done([s EXCEPT !.failed = TRUE], e) ELSE s

-----------------------------------------------------------------------------
(* EnumerateL: the folder                                                  *)

\* The standard folders that may not be given as the folder to use.
Standard == {"Inbox", "Drafts"}

\* Bug: the folder is used as it is.
BugCleansNothing(st, f) == st

Cleaned(st, f) == [i \in Ids |-> IF st[i].folder = f THEN NoEntry ELSE st[i]]

LastFolder == IF FolderExists(last) THEN last ELSE NoFolder

NewFolder == CHOOSE h \in Hidden : h \notin hidden

EnumFolder(p) == IF p # NoFolder THEN p
                 ELSE IF LastFolder # NoFolder THEN LastFolder ELSE NewFolder

EnumError(p) == IF p \in Standard THEN KErrArgument
                ELSE IF p # NoFolder /\ ~FolderExists(p) THEN KErrNotFound
                ELSE KErrNone

\* Bug: a new folder whose id cannot be stored stays.
BugKeepsFolder(p) ==
  LET a == [store |-> store, hidden |-> hidden, last |-> last]
      b == [a EXCEPT !.hidden = @ \cup {NewFolder}]
  IN  IF p = NoFolder /\ LastFolder = NoFolder
        THEN <<a, b, [b EXCEPT !.last = NewFolder]>> ELSE <<a>>

\* The states of the store SetAndCleanEnumerateFolderL goes through, with the
\* parameter p (NoFolder: none); it may leave in each of them. A new folder
\* whose id cannot be stored is deleted again.
EnumStages(p) ==
  LET a == [store |-> store, hidden |-> hidden, last |-> last]
      b == [a EXCEPT !.store = Cleaned(@, LastFolder)]
      c == [b EXCEPT !.store = Cleaned(@, p)]
      d == [c EXCEPT !.hidden = @ \ {LastFolder}]
      e == [d EXCEPT !.last = p]
      new == [a EXCEPT !.hidden = @ \cup {NewFolder}, !.last = NewFolder]
  IN  IF EnumError(p) # KErrNone THEN <<a, b>>
      ELSE CASE p = NoFolder /\ LastFolder = p -> <<a, new>>
             [] p = NoFolder /\ LastFolder # p -> <<a, b>>
             [] p # NoFolder /\ LastFolder = p -> <<a, b, c>>
             [] p # NoFolder /\ LastFolder # p -> <<a, b, c, d, e>>

\* EnumerateL, with or without a leave.
EnumerateL(p) ==
  LET stages == EnumStages(p)
      s      == [Queued("Enumerate", <<>>) EXCEPT !.folder = EnumFolder(p)]
  IN  /\ p = NoFolder /\ LastFolder = NoFolder => hidden # Hidden
      /\ \E k \in DOMAIN stages :
           /\ store' = stages[k].store
           /\ hidden' = stages[k].hidden
           /\ last' = stages[k].last
           /\ \/ /\ k = Len(stages) /\ EnumError(p) = KErrNone
                 /\ sim' = WaitsFor(s, "Count")
              \/ /\ MayLeave \/ (k = Len(stages) /\ EnumError(p) # KErrNone)
                 /\ sim' = s
      /\ UNCHANGED <<card, fault>>

\* RetrieveMessageFromPhoneStoreL: the next message of the SIM becomes an entry
\* of the folder. A leave may come before the entry is created, before its
\* header is stored or after.
Retrieved(text) ==
  [folder |-> sim.folder, text |-> text, slots |-> {sim.list[sim.done + 1].slot}]

SimRetrieves ==
  /\ Runs("Enumerate") /\ sim.done < Len(sim.list)
  /\ \/ /\ Free # {} /\ FolderExists(sim.folder)
        /\ store' = [store EXCEPT ![Lowest(Free)] = Retrieved(sim.list[sim.done + 1].text)]
        /\ sim' = WaitsFor([Running EXCEPT !.done = @ + 1, !.count = Len(sim.list)],
                           "ReadNext")
     \/ /\ Free # {} /\ FolderExists(sim.folder) /\ MayLeave
        /\ \E t \in {NoText, sim.list[sim.done + 1].text} :
             store' = [store EXCEPT ![Lowest(Free)] =
                         [Retrieved(t) EXCEPT !.slots = IF t = NoText THEN {} ELSE @]]
        /\ sim' = Left(Running, KErrNoMemory)
     \/ /\ Free = {} \/ ~FolderExists(sim.folder) \/ MayLeave
        /\ sim' = Left(Running, IF FolderExists(sim.folder) THEN KErrNoMemory
                                ELSE KErrNotFound)
        /\ UNCHANGED store
  /\ UNCHANGED <<card, hidden, last, fault>>

SimHasEnumerated ==
  /\ Runs("Enumerate") /\ sim.done >= Len(sim.list)
  /\ sim' = Done(Running, KErrNone)
  /\ UNCHANGED <<card, store, hidden, last, fault>>

-----------------------------------------------------------------------------
(* Deleting from the SIM, and the end of a copy or a move from it          *)

DeleteFromPhoneStoreL(q) ==
  /\ \/ sim' = RunsNext(Queued("Delete", q))
     \/ MayLeave /\ sim' = Queued("Delete", q)
  /\ UNCHANGED <<card, store, hidden, last, fault>>

MoveFromPhoneStoreL(q, dest) ==
  LET s == [Queued("MoveFrom", q) EXCEPT !.dest = dest]
  IN  /\ \/ sim' = RunsNext(s)
         \/ MayLeave /\ sim' = s
      /\ UNCHANGED <<card, store, hidden, last, fault>>

NextId(s) == s.sel[s.done + 1]

\* Bugs: the end is noticed one message early; a message that is gone from the
\* store is passed over without waking the object.
BugStopsEarly(s) ==
  IF s.done < s.count - 1
    THEN WaitsFor([s EXCEPT !.done = @ + 1, !.state = "DeleteEach", !.error = KErrNone,
                            !.slots = store[NextId(s)].slots], "Delete")
    ELSE [s EXCEPT !.state = "DeletedLast"]

BugNeverWakes(s) ==
  IF s.done = s.count THEN [s EXCEPT !.state = "DeletedLast"]
  ELSE IF ~Exists(NextId(s)) THEN WaitsFor([s EXCEPT !.done = @ + 1], "None")
  ELSE WaitsFor([s EXCEPT !.done = @ + 1, !.state = "DeleteEach", !.error = KErrNone,
                          !.slots = store[NextId(s)].slots], "Delete")

\* DeleteEachMessageFromPhoneStoreL: a message that is gone from the store is
\* ignored.
DeleteEachMessage(s) ==
  CASE s.done = s.count -> [s EXCEPT !.state = "DeletedLast"]
    [] s.done < s.count /\ ~Exists(NextId(s)) ->
         RunsNext([s EXCEPT !.state = "Other", !.done = @ + 1])
    [] OTHER ->
         WaitsFor([s EXCEPT !.done = @ + 1, !.state = "DeleteEach", !.error = KErrNone,
                            !.slots = store[NextId(s)].slots], "Delete")

\* It leaves when the header cannot be read.
Unreadable(i) == Exists(i) /\ store[i].text = NoText

DeleteMayLeave(s) == s.done < s.count /\ Exists(NextId(s)) /\ MayLeave

DeleteMustLeave(s) == s.done < s.count /\ Unreadable(NextId(s))

\* A leave, in a RunL or in DoComplete.
DeleteLeaves ==
  /\ DeleteMayLeave(sim) \/ DeleteMustLeave(sim)
  /\ sim' = Left([Running EXCEPT !.state = "Other"],
                 IF DeleteMustLeave(sim) THEN KErrNotFound ELSE KErrNoMemory)
  /\ UNCHANGED <<store, fault>>

\* RunL of a delete request, and DoComplete of every request that deletes.
DeletesNext ==
  LET s == DeleteEachMessage(Running)
  IN  \/ DeleteLeaves
      \/ /\ ~DeleteMustLeave(sim)
         /\ sim' = IF s.active THEN s ELSE Done(s, KErrNone)
         /\ UNCHANGED <<store, fault>>

SimDeletes ==
  /\ Runs("Delete") /\ DeletesNext
  /\ UNCHANGED <<card, hidden, last>>

\* Bug: the loop ends before the first message.
BugSkipsFirst(q, k) ==
  [i \in Ids |-> IF Exists(i) /\ \E j \in k + 2 .. Len(q) : q[j] = i
                   THEN [store[i] EXCEPT !.slots = {}] ELSE store[i]]

\* SetLocalStorageInfoL: from the last message to the first, the header no
\* longer says where on the SIM the message is. When the leave comes at the
\* message k, those behind it have been done.
Localised(q, k) ==
  [i \in Ids |-> IF Exists(i) /\ \E j \in k + 1 .. Len(q) : q[j] = i
                   THEN [store[i] EXCEPT !.slots = {}] ELSE store[i]]

Bad(q) == {j \in DOMAIN q : Unreadable(q[j]) \/ (j = Len(q) /\ ~Exists(q[j]))}

LocalLeaves(q, s) ==
  \E k \in DOMAIN q :
    /\ MayLeave \/ k \in Bad(q)
    /\ \A j \in Bad(q) : j <= k
    /\ store' = Localised(q, k)
    /\ sim' = Left(s, IF k \in Bad(q) THEN KErrNotFound ELSE KErrNoMemory)

\* MoveEntriesL leaves when the first message of the selection is gone.
MoveEntriesL(s, op) ==
  \/ Exists(s.sel[1]) /\ sim' = WaitsFor(s, op)
  \/ /\ MayLeave \/ ~Exists(s.sel[1])
     /\ sim' = Left(s, IF Exists(s.sel[1]) THEN KErrNoMemory ELSE KErrNotFound)

\* RunL of a move: when all messages are deleted from the SIM they are moved.
\* With the last of them gone, SetLocalStorageInfoL works on no entry at all.
ThenMoves(s) ==
  LET t == [s EXCEPT !.state = "Other", !.type = "MovingEntries"]
  IN  \/ s.active /\ sim' = s /\ UNCHANGED <<store, fault>>
      \/ /\ ~s.active /\ ~Exists(s.sel[Len(s.sel)])
         /\ fault' = "NullContext" /\ UNCHANGED <<store, sim>>
      \/ /\ ~s.active /\ Exists(s.sel[Len(s.sel)])
         /\ \/ LocalLeaves(s.sel, s)
            \/ Bad(s.sel) = {} /\ store' = Localised(s.sel, 0) /\ MoveEntriesL(t, "Move")
         /\ UNCHANGED fault

SimDeletesToMove ==
  /\ Runs("MoveFrom")
  /\ \/ DeleteLeaves
     \/ ~DeleteMustLeave(sim) /\ ThenMoves(DeleteEachMessage(Running))
  /\ UNCHANGED <<card, hidden, last>>

SimHasMoved ==
  /\ Runs("MovingEntries")
  /\ sim' = Done(Running, KErrNone)
  /\ UNCHANGED <<card, store, hidden, last, fault>>

CopyFromPhoneStoreL(q, dest) ==
  /\ MoveEntriesL([Queued("CopyFrom", q) EXCEPT !.dest = dest], "Copy")
  /\ UNCHANGED <<card, store, hidden, last, fault>>

SimHasCopied ==
  /\ Runs("CopyFrom")
  /\ \/ LocalLeaves(sim.completed, Running)
     \/ /\ Bad(sim.completed) = {}
        /\ store' = Localised(sim.completed, 0)
        /\ sim' = Done(Running, KErrNone)
  /\ UNCHANGED <<card, hidden, last, fault>>

-----------------------------------------------------------------------------
(* Copying and moving to the SIM                                           *)

\* Bug: a message is written to the SIM once, whatever its recipients.
BugWritesOnce(s) ==
  WaitsFor([s EXCEPT !.done = @ + 1, !.slots = {},
              !.state = IF Class2Folder \in {NoFolder, store[s.sel[s.done + 2]].folder}
                        THEN "Writing" ELSE "UpdatingClass2"], "Write")

\* The message DoCopyToPhoneStoreL writes next: one after the other, each once
\* per recipient.
NextDone(s) == IF s.rcptCount = 0 THEN s.done + 1 ELSE s.done

\* DoCopyToPhoneStoreL in EWritingToSIM: the message goes to the SIM for its
\* next recipient; then the class 2 folder is updated, if there is one and the
\* message is not in it.
WriteNext(s) ==
  LET d == NextDone(s)
      e == store[s.sel[d + 1]]
      n == IF s.rcptCount = 0 THEN Recipients[e.text] ELSE s.rcptCount
      r == IF s.rcptCount = 0 THEN 1 ELSE s.rcptIndex + 1
  IN  WaitsFor([s EXCEPT !.done = d, !.slots = {},
                  !.rcptCount = IF r >= n THEN 0 ELSE n,
                  !.rcptIndex = IF r >= n THEN 0 ELSE r,
                  !.state = IF Class2Folder \in {NoFolder, e.folder}
                            THEN "Writing" ELSE "UpdatingClass2"], "Write")

Writes(s) ==
  LET d == NextDone(s)
      i == s.sel[d + 1]
  IN  /\ d < s.count
      /\ \/ Exists(i) /\ ~Unreadable(i) /\ sim' = WriteNext(s)
         \/ ~Exists(i) /\ sim' = Left([s EXCEPT !.done = d], KErrNotFound)
         \/ Unreadable(i) /\ sim' = Left([s EXCEPT !.done = d], KErrNotFound)
         \/ MayLeave /\ sim' = Left([s EXCEPT !.done = d], KErrNoMemory)
      /\ UNCHANGED <<card, store, hidden, last, fault>>

\* The same in EUpdatingClass2: the header learns the slot, so that the message
\* can be deleted from the SIM later, and goes to the class 2 folder.
UpdatesClass2(s) ==
  LET i == s.sel[s.done + 1]
      op == IF s.type = "MoveTo" THEN "Class2Move" ELSE "Class2Copy"
  IN  /\ \/ /\ Exists(i)
            /\ store' = [store EXCEPT ![i].slots = @ \cup s.slots]
            /\ \/ sim' = WaitsFor([s EXCEPT !.state = "Writing"], op)
               \/ MayLeave /\ sim' = Left(s, KErrNoMemory)
         \/ /\ MayLeave \/ ~Exists(i)
            /\ sim' = Left(s, IF Exists(i) THEN KErrNoMemory ELSE KErrNotFound)
            /\ UNCHANGED store
      /\ UNCHANGED <<card, hidden, last, fault>>

\* CopyToPhoneStoreL and MoveToPhoneStoreL.
ToPhoneStoreL(type, q) ==
  LET s == [Queued(type, q) EXCEPT !.done = -1, !.state = "Writing"]
  IN  \/ Writes(s)
      \/ MayLeave /\ sim' = s /\ UNCHANGED <<card, store, hidden, last, fault>>

IsToSim == Runs("CopyTo") \/ Runs("MoveTo")

SimWrites == IsToSim /\ sim.state = "Writing" /\ Writes(Running)

SimUpdatesClass2 == IsToSim /\ sim.state = "UpdatingClass2" /\ UpdatesClass2(Running)

SimHasWritten ==
  /\ IsToSim /\ sim.state = "Writing" /\ NextDone(sim) >= sim.count
  /\ sim' = Done([Running EXCEPT !.done = NextDone(sim)], KErrNone)
  /\ UNCHANGED <<card, store, hidden, last, fault>>

-----------------------------------------------------------------------------
(* The parameters of the SIM                                               *)

ReadSimParamsL ==
  LET s == Queued("ReadParams", <<>>)
  IN  /\ \/ sim' = WaitsFor([s EXCEPT !.reading = TRUE], "ReadParams")
         \/ MayLeave /\ sim' = s
      /\ UNCHANGED <<card, store, hidden, last, fault>>

\* WriteSimParamsL leaves when no parameters are stored with the service.
WriteSimParamsL ==
  LET s == Queued("WriteParams", <<>>)
  IN  /\ \/ sim' = WaitsFor(s, "WriteParams")
         \/ sim' = s
      /\ UNCHANGED <<card, store, hidden, last, fault>>

\* Bugs: the error of reading the parameters is lost; what is kept is the status
\* of the next operation.
BugForgetsError(e) ==
  WaitsFor([Running EXCEPT !.reading = FALSE, !.failed = (e # KErrNone)], "CompleteRead")

BugReadsStatus(e) ==
  WaitsFor([Running EXCEPT !.reading = FALSE, !.error = KRequestPending,
                           !.failed = (e # KErrNone)], "CompleteRead")

\* DoRunReadSimParamsL under its TRAP, then the acknowledgement.
ReadParams(e) ==
  WaitsFor([Running EXCEPT !.reading = FALSE, !.error = e, !.failed = (e # KErrNone)],
           "CompleteRead")

SimReadsParams ==
  /\ Runs("ReadParams") /\ sim.reading
  /\ \/ sim' = ReadParams(KErrNone)
     \/ sim' = ReadParams(KErrNotFound)
     \/ MayLeave /\ sim' = ReadParams(KErrNoMemory)
  /\ UNCHANGED <<card, store, hidden, last, fault>>

SimHasParams ==
  /\ (Runs("ReadParams") /\ ~sim.reading) \/ Runs("WriteParams")
  /\ sim' = Done(Running, KErrNone)
  /\ UNCHANGED <<card, store, hidden, last, fault>>

-----------------------------------------------------------------------------
(* Errors and cancel                                                       *)

\* RunError and DoComplete. When a message is no longer on the SIM the next one
\* is deleted; what follows a delete in DoRunL is not reached.
Restarts == sim.state = "DeleteEach" /\ sim.status = KErrNotFound

SimRunError ==
  /\ sim.active /\ sim.status \notin {KErrNone, KRequestPending}
  /\ \/ Restarts /\ DeletesNext
     \/ /\ ~Restarts
        /\ sim' = Done(Running, sim.status)
        /\ UNCHANGED <<store, fault>>
  /\ UNCHANGED <<card, hidden, last>>

\* What an operation of the SIM does to it when it succeeds.
Occupied == {s \in Slots : card[s] # Empty}

Vacant == Slots \ Occupied

Contents ==
  LET n == Cardinality(Occupied)
      before(s) == Cardinality({r \in Occupied : r < s})
  IN  [k \in 1 .. n |-> LET s == CHOOSE s \in Occupied : before(s) = k - 1
                        IN  [slot |-> s, text |-> card[s]]]

CardAfter ==
  CASE sim.op = "Delete" ->
         [s \in Slots |-> IF s \in sim.slots THEN Empty ELSE card[s]]
    [] sim.op = "Write" /\ Vacant # {} ->
         [card EXCEPT ![Lowest(Vacant)] = store[sim.sel[sim.done + 1]].text]
    [] OTHER -> card

CardError ==
  CASE sim.op = "Delete" /\ sim.slots \cap Occupied = {} -> KErrNotFound
    [] sim.op = "Write" /\ Vacant = {} -> KErrNoMemory
    [] OTHER -> KErrNone

Outstanding(ops) == sim.active /\ sim.status = KRequestPending /\ sim.op \in ops

\* DoSmssCancel, in CActive::Cancel: an operation of the socket is cancelled,
\* but may have been carried out; one of the store is not, and is waited for in
\* the thread that would have to do it.
CancelHangs == Outstanding(StoreOps)

CancelledCard == IF Outstanding(CardOps) THEN {card, CardAfter} ELSE {card}

Cancelled == IF sim.active THEN Done(sim, KErrCancel) ELSE sim

-----------------------------------------------------------------------------
(* The SMS socket, the message store, and others                           *)

Completes(s, e) == [s EXCEPT !.status = e,
                             !.failed = \/ @
                                           \/ /\ e # KErrNone
                                              /\ s.op = "Delete" => e # KErrNotFound]

CardCompletes ==
  /\ Outstanding(CardOps)
  /\ \/ /\ CardError = KErrNone
        /\ card' = CardAfter
        /\ sim' = CASE sim.op = "Count" -> Completes([sim EXCEPT !.list = Contents], KErrNone)
                    [] sim.op = "Write" ->
                         Completes([sim EXCEPT !.slots = {Lowest(Vacant)},
                                               !.written[sim.done + 1] = @ + 1], KErrNone)
                    [] OTHER -> Completes(sim, KErrNone)
     \/ /\ CardError # KErrNone
        /\ sim' = Completes(sim, CardError) /\ UNCHANGED card
     \/ /\ "card" \in Fails
        /\ sim' = Completes(sim, KErrGeneral) /\ UNCHANGED card
  /\ UNCHANGED <<store, hidden, last, fault>>

\* The entries an operation of the store is about.
Handled == IF sim.op \in {"Class2Copy", "Class2Move"} THEN <<sim.sel[sim.done + 1]>>
           ELSE sim.sel

Target == IF sim.op \in {"Class2Copy", "Class2Move"} THEN Class2Folder ELSE sim.dest

\* The n lowest free ids.
NewIds(n) == [k \in 1 .. n |-> CHOOSE i \in Free : Cardinality({j \in Free : j < i}) = k - 1]

\* The first n of them have been copied or moved.
CopiedTo(n) ==
  [i \in Ids |-> IF \E k \in 1 .. n : NewIds(n)[k] = i
                   THEN [store[Handled[CHOOSE k \in 1 .. n : NewIds(n)[k] = i]]
                           EXCEPT !.folder = Target]
                   ELSE store[i]]

MovedTo(n) ==
  [i \in Ids |-> IF \E k \in 1 .. n : Handled[k] = i
                   THEN [store[i] EXCEPT !.folder = Target] ELSE store[i]]

\* The store does all of them, or stops at one that is gone, at one for which
\* there is no room, or at any other when it fails.
StoreCompletes ==
  /\ Outstanding(StoreOps)
  /\ \E n \in 0 .. Len(Handled) :
       LET copies == sim.op \in {"Copy", "Class2Copy"}
           room   == ~copies \/ n <= Cardinality(Free)
           full   == copies /\ n = Cardinality(Free)
       IN  /\ room /\ \A k \in 1 .. n : Exists(Handled[k])
           /\ store' = IF copies THEN CopiedTo(n) ELSE MovedTo(n)
           /\ \/ /\ n = Len(Handled)
                 /\ sim' = Completes([sim EXCEPT !.completed =
                              IF copies THEN NewIds(n) ELSE @], KErrNone)
              \/ /\ n < Len(Handled)
                 /\ full \/ "store" \in Fails \/ ~Exists(Handled[n + 1])
                 /\ sim' = Completes(sim, IF Exists(Handled[n + 1]) THEN KErrNoMemory
                                          ELSE KErrNotFound)
  /\ UNCHANGED <<card, hidden, last, fault>>

\* The entry the object has locked: DoCopyToPhoneStoreL leaves the context of
\* the server entry on the message it writes.
Locked(i) == sim.active /\ sim.op = "Write" /\ sim.sel[sim.done + 1] = i

\* The client deletes a message or an enumeration folder with all it holds.
ClientDeletes(i) ==
  /\ Exists(i) /\ ~Locked(i) /\ ~Outstanding(StoreOps)
  /\ store' = [store EXCEPT ![i] = NoEntry]
  /\ UNCHANGED <<card, hidden, last, sim, fault>>

ClientDeletesFolder(h) ==
  /\ h \in hidden /\ ~Outstanding(StoreOps)
  /\ hidden' = hidden \ {h}
  /\ store' = Cleaned(store, h)
  /\ UNCHANGED <<card, last, sim, fault>>

\* Somebody else deletes a message of the SIM.
CardLoses(s) ==
  /\ card[s] # Empty
  /\ card' = [card EXCEPT ![s] = Empty]
  /\ UNCHANGED <<store, hidden, last, sim, fault>>

SimRunL == \/ SimRetrieves \/ SimHasEnumerated
           \/ SimDeletes \/ SimDeletesToMove \/ SimHasMoved \/ SimHasCopied
           \/ SimWrites \/ SimUpdatesClass2 \/ SimHasWritten
           \/ SimReadsParams \/ SimHasParams
           \/ SimRunError

-----------------------------------------------------------------------------
\* The type of the object.
SimRec(s) ==
  /\ s.exists \in BOOLEAN /\ s.active \in BOOLEAN /\ s.report \in BOOLEAN
  /\ s.type \in SimTypes /\ s.state \in SimStates
  /\ s.status \in Errors \cup {KRequestPending} /\ s.error \in Errors
  /\ s.op \in CardOps \cup StoreOps \cup {"None"}
  /\ s.sel \in Seq(Ids) /\ s.completed \in Seq(Ids)
  /\ s.done \in Int /\ s.count \in Nat
  /\ s.folder \in Folders \cup {NoFolder} /\ s.dest \in Folders \cup {NoFolder}
  /\ s.rcptCount \in Nat /\ s.rcptIndex \in Nat
  /\ s.list \in Seq([slot : Slots, text : Texts])
  /\ s.slots \subseteq Slots
  /\ s.reading \in BOOLEAN /\ s.failed \in BOOLEAN
  /\ s.written \in Seq(Nat)
=============================================================================
