------------------------ MODULE ImapSessionProofs ------------------------
(***************************************************************************)
(* Proofs about ImapIdle: types. A step of it is Becomes(Method(Now)) with *)
(* Method built from the operators of the session and of the controllers;  *)
(* there is a lemma for each of them, on any world. Closed(G) says which   *)
(* operators of the session must keep a set of worlds G for every step of  *)
(* ImapIdle to keep it (NextStays), whatever the controllers do.           *)
(***************************************************************************)
EXTENDS ImapIdle, TLAPS, SequenceTheorems, NaturalsInduction, WellFoundedInduction

-----------------------------------------------------------------------------
(* Types                                                                   *)

Commands == [kind : {"None", "Select", "Fetch", "Idle", "Wait"},
             tag : 0 .. TagModulus, flushing : BOOLEAN,
             idle : {"None", "WaitContinue", "WaitResponse", "WaitDone"}]
Mailboxes == [box : Boxes \cup {NoBox}, exists : 0 .. MaxExists]
Sent == [verb : {"select", "fetch", "idle", "done"}, tag : 0 .. TagModulus,
         box : Boxes \cup {NoBox}]

\* No answer is ever KErrImapBad.
Codes == {KErrNone, KErrImapNo, KErrImapClosed, KErrImapFlushTimeout,
          KErrImapCorrupt, KErrCancel, KErrNoMemory}
Statuses == Codes \cup {KRequestPending}

Sessions == [server : {"Authenticated", "Selected"},
             state : {"Normal", "Flushing", "Unrecoverable"},
             pending : {"None", "Select", "IdleEnter", "IdleWait", "IdleDone"},
             cmd : Commands, tag : 0 .. TagModulus, folder : Mailboxes,
             input : Seq(Lines), async : BOOLEAN,
             report : Objects \cup {"None"}, open : BOOLEAN,
             flushTimer : BOOLEAN]
Readers == [state : {"Idle", "Read", "ReceivedData", "Closed"},
            ready : BOOLEAN, failed : BOOLEAN, buf : Seq(Lines),
            limit : BOOLEAN, timer : BOOLEAN]
Nets == [up : BOOLEAN, wire : Seq(Lines), out : Seq(Sent),
         selected : Boxes \cup {NoBox}, idling : BOOLEAN, exists : 1 .. MaxExists]
ActiveObjects == [Objects -> [active : BOOLEAN, status : Statuses]]
IdleTypes == [state : IdleStates, stopping : BOOLEAN, report : BOOLEAN,
              timer : BOOLEAN, using : UsingIdle]
Inboxes == [size : 0 .. MaxExists, covering : 0 .. MaxExists,
            synced : 0 .. MaxExists, fetched : 0 .. MaxExists]
Operations == Ops \cup {NoOp, [kind |-> "Copy", box |-> Inbox]}
Jobs == [{"Child", "Op"} ->
           [op : Operations, step : {"None", "Start", "Select", "Fetch"},
            report : BOOLEAN, error : BOOLEAN]]
Controllers == [op : {"Idle", "StopIdle", "Op", "Recover"},
                requested : Ops \cup {NoOp}, report : BOOLEAN, online : BOOLEAN,
                answer : {KErrNone, 1, KErrCancel, KErrNoMemory,
                          KErrImapServerFail}]

World == [ses : Sessions, rd : Readers, net : Nets, ao : ActiveObjects,
          fault : Assertions \cup {"None"}, idle : IdleTypes, inbox : Inboxes, job : Jobs,
          pc : Controllers]

(* One field of a world                                                    *)

LEMMA SetServer ==
  ASSUME NEW w \in World, NEW x \in {"Authenticated", "Selected"}
  PROVE  [w EXCEPT !.ses.server = x] \in World
  BY DEF World, Sessions

LEMMA SetState ==
  ASSUME NEW w \in World, NEW x \in {"Normal", "Flushing", "Unrecoverable"}
  PROVE  [w EXCEPT !.ses.state = x] \in World
  BY DEF World, Sessions

LEMMA SetPending ==
  ASSUME NEW w \in World, NEW x \in {"None", "Select", "IdleEnter", "IdleWait", "IdleDone"}
  PROVE  [w EXCEPT !.ses.pending = x] \in World
  BY DEF World, Sessions

LEMMA SetCmd ==
  ASSUME NEW w \in World, NEW x \in Commands
  PROVE  [w EXCEPT !.ses.cmd = x] \in World
  BY DEF World, Sessions

LEMMA SetTag ==
  ASSUME NEW w \in World, NEW x \in 0 .. TagModulus
  PROVE  [w EXCEPT !.ses.tag = x] \in World
  BY DEF World, Sessions

LEMMA SetFolder ==
  ASSUME NEW w \in World, NEW x \in Mailboxes
  PROVE  [w EXCEPT !.ses.folder = x] \in World
  BY DEF World, Sessions

LEMMA SetInput ==
  ASSUME NEW w \in World, NEW x \in Seq(Lines)
  PROVE  [w EXCEPT !.ses.input = x] \in World
  BY DEF World, Sessions

LEMMA SetAsync ==
  ASSUME NEW w \in World, NEW x \in BOOLEAN
  PROVE  [w EXCEPT !.ses.async = x] \in World
  BY DEF World, Sessions

LEMMA SetReport ==
  ASSUME NEW w \in World, NEW x \in Objects \cup {"None"}
  PROVE  [w EXCEPT !.ses.report = x] \in World
  BY DEF World, Sessions

LEMMA SetOpen ==
  ASSUME NEW w \in World, NEW x \in BOOLEAN
  PROVE  [w EXCEPT !.ses.open = x] \in World
  BY DEF World, Sessions

LEMMA SetFlushTimer ==
  ASSUME NEW w \in World, NEW x \in BOOLEAN
  PROVE  [w EXCEPT !.ses.flushTimer = x] \in World
  BY DEF World, Sessions

LEMMA SetReader ==
  ASSUME NEW w \in World, NEW x \in Readers
  PROVE  [w EXCEPT !.rd = x] \in World
  BY DEF World

LEMMA SetRdState ==
  ASSUME NEW w \in World, NEW x \in {"Idle", "Read", "ReceivedData", "Closed"}
  PROVE  [w EXCEPT !.rd.state = x] \in World
  BY DEF World, Readers

LEMMA SetReady ==
  ASSUME NEW w \in World, NEW x \in BOOLEAN
  PROVE  [w EXCEPT !.rd.ready = x] \in World
  BY DEF World, Readers

LEMMA SetFailed ==
  ASSUME NEW w \in World, NEW x \in BOOLEAN
  PROVE  [w EXCEPT !.rd.failed = x] \in World
  BY DEF World, Readers

LEMMA SetBuf ==
  ASSUME NEW w \in World, NEW x \in Seq(Lines)
  PROVE  [w EXCEPT !.rd.buf = x] \in World
  BY DEF World, Readers

LEMMA SetLimit ==
  ASSUME NEW w \in World, NEW x \in BOOLEAN
  PROVE  [w EXCEPT !.rd.limit = x] \in World
  BY DEF World, Readers

LEMMA SetTimer ==
  ASSUME NEW w \in World, NEW x \in BOOLEAN
  PROVE  [w EXCEPT !.rd.timer = x] \in World
  BY DEF World, Readers

LEMMA SetNet ==
  ASSUME NEW w \in World, NEW x \in Nets
  PROVE  [w EXCEPT !.net = x] \in World
  BY DEF World

LEMMA SetUp ==
  ASSUME NEW w \in World, NEW x \in BOOLEAN
  PROVE  [w EXCEPT !.net.up = x] \in World
  BY DEF World, Nets

LEMMA SetWire ==
  ASSUME NEW w \in World, NEW x \in Seq(Lines)
  PROVE  [w EXCEPT !.net.wire = x] \in World
  BY DEF World, Nets

LEMMA SetOut ==
  ASSUME NEW w \in World, NEW x \in Seq(Sent)
  PROVE  [w EXCEPT !.net.out = x] \in World
  BY DEF World, Nets

LEMMA SetFault ==
  ASSUME NEW w \in World, NEW x \in Assertions
  PROVE  [w EXCEPT !.fault = x] \in World
  BY DEF World

LEMMA SetStatus ==
  ASSUME NEW w \in World, NEW o \in Objects, NEW x \in Statuses
  PROVE  [w EXCEPT !.ao[o].status = x] \in World
  BY DEF World, ActiveObjects

LEMMA QueueTyped == ASSUME NEW w \in World, NEW who \in Objects
                    PROVE  Queue(w, who) \in World
<1>1. KRequestPending \in Statuses
  BY DEF Statuses
<1>. QED BY <1>1, SetReport, SetStatus DEF Queue

\* The names of the assertions.
LEMMA Names ==
  /\ {"AlreadyInUse", "AsyncCallBackOpInvalid", "BadInputStreamState",
      "CancelHangs", "CompoundIsNotNull", "IdleStateInvalid",
      "InternalCancelOnBadState"} \subseteq Assertions
  /\ {"IsActiveAtStart", "NotSelected", "OperationPending",
      "OperationPendingNotIdle", "SessionBadInputStreamState",
      "SessionCommandNotFlushing"} \subseteq Assertions
  /\ {"SessionInputBufferNotEmpty", "SessionInvalidSessionState",
      "SessionNotNullCurrentCommand", "SessionNullCurrentCommand",
      "UnAuthenticated", "UnexpectedStateAtStart", "UserInvariant"} \subseteq Assertions
  BY DEF Assertions

LEMMA ExpectTyped == ASSUME NEW w \in World, NEW ok, NEW name \in Assertions
                     PROVE  Expect(w, ok, name) \in World
  BY SetFault DEF Expect

\* What the fields of a world are.
LEMMA WorldFields ==
  ASSUME NEW w \in World
  PROVE  /\ w.ses \in Sessions /\ w.rd \in Readers /\ w.net \in Nets
         /\ w.ao \in ActiveObjects /\ w.fault \in Assertions \cup {"None"} /\ w.idle \in IdleTypes
         /\ w.inbox \in Inboxes /\ w.job \in Jobs /\ w.pc \in Controllers
  BY DEF World

LEMMA SessionFields ==
  ASSUME NEW w \in World
  PROVE  /\ w.ses.server \in {"Authenticated", "Selected"}
         /\ w.ses.state \in {"Normal", "Flushing", "Unrecoverable"}
         /\ w.ses.pending \in {"None", "Select", "IdleEnter", "IdleWait", "IdleDone"}
         /\ w.ses.cmd \in Commands /\ w.ses.tag \in 0 .. TagModulus
         /\ w.ses.folder \in Mailboxes /\ w.ses.input \in Seq(Lines)
         /\ w.ses.async \in BOOLEAN /\ w.ses.report \in Objects \cup {"None"}
         /\ w.ses.open \in BOOLEAN /\ w.ses.flushTimer \in BOOLEAN
  BY WorldFields DEF Sessions

LEMMA ReaderFields ==
  ASSUME NEW w \in World
  PROVE  /\ w.rd.state \in {"Idle", "Read", "ReceivedData", "Closed"}
         /\ w.rd.ready \in BOOLEAN /\ w.rd.failed \in BOOLEAN
         /\ w.rd.buf \in Seq(Lines)
         /\ w.rd.limit \in BOOLEAN /\ w.rd.timer \in BOOLEAN
  BY WorldFields DEF Readers

LEMMA NetFields ==
  ASSUME NEW w \in World
  PROVE  /\ w.net.up \in BOOLEAN /\ w.net.wire \in Seq(Lines)
         /\ w.net.out \in Seq(Sent) /\ w.net.selected \in Boxes \cup {NoBox}
         /\ w.net.idling \in BOOLEAN /\ w.net.exists \in 1 .. MaxExists
  BY WorldFields DEF Nets

LEMMA CodesAreStatuses == /\ Codes \subseteq Statuses /\ KRequestPending \in Statuses
                          /\ {KErrNone, KErrImapNo, KErrImapClosed, KErrImapFlushTimeout,
                              KErrImapCorrupt, KErrCancel, KErrNoMemory} \subseteq Codes
  BY DEF Statuses, Codes

LEMMA NoCommandTyped == NoCmd \in Commands /\ NoFolder \in Mailboxes
  BY SessionAssumption DEF NoCmd, NoFolder, Commands, Mailboxes

-----------------------------------------------------------------------------
(* Types: the session                                                      *)

LEMMA CompleteTyped == ASSUME NEW w \in World, NEW err \in Codes
                       PROVE  Complete(w, err) \in World
<1>1. CASE w.ses.report = "None"
  BY <1>1 DEF Complete
<1>2. CASE w.ses.report # "None"
  <2>1. w.ses.report \in Objects /\ err \in Statuses /\ "None" \in Objects \cup {"None"}
    BY <1>2, SessionFields, CodesAreStatuses
  <2>. QED BY <1>2, <2>1, SetReport, SetStatus DEF Complete
<1>. QED BY <1>1, <1>2

LEMMA LimitKept == ASSUME NEW u \in World, NEW limit \in BOOLEAN
                   PROVE  [u EXCEPT !.rd.limit = limit \/ @] \in World
<1> DEFINE b == limit \/ u.rd.limit
<1>1. b \in BOOLEAN
  BY ReaderFields
<1>2. [u EXCEPT !.rd.limit = limit \/ @] = [u EXCEPT !.rd.limit = b]
  OBVIOUS
<1> HIDE DEF b
<1>3. [u EXCEPT !.rd.limit = b] \in World
  BY <1>1, SetLimit
<1>. QED BY <1>2, <1>3

LEMMA ReadReqTyped == ASSUME NEW w \in World, NEW limit \in BOOLEAN
                      PROVE  ReadReq(w, limit) \in World
<1> DEFINE v == Expect(w, w.rd.state = "Idle", "BadInputStreamState")
           st == IF w.rd.buf = <<>> THEN "Read" ELSE "ReceivedData"
           u == [v EXCEPT !.rd.state = st, !.rd.ready = TRUE]
<1>1. v \in World /\ st \in {"Idle", "Read", "ReceivedData", "Closed"}
  BY ExpectTyped, Names
<1>2. ReadReq(w, limit) = [u EXCEPT !.rd.limit = limit \/ @]
  <2>1. ReadReq(w, limit) = [v EXCEPT !.rd.state = st, !.rd.ready = TRUE, !.rd.limit = limit \/ @]
    BY DEF ReadReq
  <2> HIDE DEF v, st
  <2>. QED BY <1>1, <2>1 DEF World, Readers
<1> HIDE DEF v, st
<1>3. u \in World
  BY <1>1, SetRdState, SetReady
<1> HIDE DEF u
<1>. QED BY <1>2, <1>3, LimitKept

LEMMA CancelReadReqTyped == ASSUME NEW w \in World PROVE CancelReadReq(w) \in World
  BY SetRdState, SetReady, SetFailed, SetTimer DEF CancelReadReq

LEMMA AsyncTyped == ASSUME NEW w \in World PROVE ProcessInputBufferAsync(w) \in World
  BY ExpectTyped, Names, SetAsync DEF ProcessInputBufferAsync

LEMMA RequestReadDataTyped == ASSUME NEW w \in World PROVE RequestReadData(w) \in World
<1> DEFINE done == w.ses.pending = "IdleDone"
           v == Expect(w, ~w.ses.async, "AsyncCallBackOpInvalid")
           p == IF done THEN "None" ELSE v.ses.pending
           u == [v EXCEPT !.ses.pending = p]
           r == ReadReq(u, done)
<1>1. v \in World
  BY ExpectTyped, Names
<1>2. p \in {"None", "Select", "IdleEnter", "IdleWait", "IdleDone"}
  BY <1>1, SessionFields
<1>3. u \in World
  BY <1>1, <1>2, SetPending
<1>4. done \in BOOLEAN
  OBVIOUS
<1>5. r \in World
  BY <1>3, <1>4, ReadReqTyped
<1>6. (r.ses.flushTimer \/ w.ses.state = "Flushing") \in BOOLEAN
  BY <1>5, SessionFields
<1>7. RequestReadData(w) = [r EXCEPT !.ses.flushTimer = r.ses.flushTimer \/ w.ses.state = "Flushing"]
  BY DEF RequestReadData
<1> HIDE DEF r
<1>. QED BY <1>5, <1>6, <1>7, SetFlushTimer

LEMMA FeedTyped == ASSUME NEW w \in World PROVE Feed(w) \in World
  BY AsyncTyped, RequestReadDataTyped DEF Feed

LEMMA CommandCancelTyped == ASSUME NEW c \in Commands PROVE CommandCancel(c) \in Commands
<1>1. (c.flushing \/ ~(c.kind = "Idle" /\ c.idle = "WaitResponse")) \in BOOLEAN
  BY DEF Commands
<1>. QED BY <1>1 DEF CommandCancel, Commands

LEMMA SelectUndoneTyped == ASSUME NEW w \in World PROVE SelectUndone(w) \in World
  BY SetServer, SetFolder, NoCommandTyped DEF SelectUndone

LEMMA DoCancelTyped == ASSUME NEW w \in World PROVE DoCancel(w) \in World
<1> DEFINE a == IF w.ses.open THEN CancelReadReq(w) ELSE w
           v == [a EXCEPT !.ses.async = FALSE, !.ses.flushTimer = FALSE]
           c == [v EXCEPT !.ses.cmd = CommandCancel(@)]
           u == SelectUndone(c)
           s == IF u.ses.cmd.flushing THEN "Flushing" ELSE u.ses.state
<1>1. a \in World
  BY CancelReadReqTyped
<1> HIDE DEF a
<1>2. v \in World
  BY <1>1, SetAsync, SetFlushTimer
<1>3. DoCancel(w) = IF v.ses.state # "Normal" \/ v.ses.cmd = NoCmd THEN v
                    ELSE [u EXCEPT !.ses.state = IF u.ses.cmd.flushing THEN "Flushing" ELSE @]
  BY DEF DoCancel, a
<1> HIDE DEF v
<1>4. c \in World
  <2>1. CommandCancel(v.ses.cmd) \in Commands
    BY <1>2, SessionFields, CommandCancelTyped
  <2>2. c = [v EXCEPT !.ses.cmd = CommandCancel(v.ses.cmd)]
    OBVIOUS
  <2>. QED BY <1>2, <2>1, <2>2, SetCmd
<1> HIDE DEF c
<1>5. u \in World
  BY <1>4, SelectUndoneTyped
<1> HIDE DEF u
<1>6. s \in {"Normal", "Flushing", "Unrecoverable"}
  BY <1>5, SessionFields
<1>7. [u EXCEPT !.ses.state = IF u.ses.cmd.flushing THEN "Flushing" ELSE @] = [u EXCEPT !.ses.state = s]
  BY SMTT(60)
<1> HIDE DEF s
<1>. QED BY <1>2, <1>3, <1>5, <1>6, <1>7, SetState

LEMMA SessionCancelTyped == ASSUME NEW w \in World PROVE SessionCancel(w) \in World
  BY DoCancelTyped, CompleteTyped, CodesAreStatuses DEF SessionCancel

LEMMA DestroyTyped == ASSUME NEW w \in World, NEW err \in Codes
                      PROVE  Destroy(w, err) \in World
<1> DEFINE v == Complete(w, err)
           t == IF v.ses.cmd = NoCmd THEN v.ses.tag ELSE v.ses.cmd.tag
<1>1. v \in World
  BY CompleteTyped
<1>2. Destroy(w, err) = [v EXCEPT !.ses.tag = IF v.ses.cmd = NoCmd THEN @ ELSE v.ses.cmd.tag,
                                  !.ses.cmd = NoCmd, !.ses.pending = "None"]
  BY DEF Destroy
<1> HIDE DEF v
<1>3. t \in 0 .. TagModulus
  BY <1>1, SessionFields DEF Commands
<1>4. Destroy(w, err) = [v EXCEPT !.ses.tag = t, !.ses.cmd = NoCmd, !.ses.pending = "None"]
  BY <1>2
<1> HIDE DEF t
<1>. QED BY <1>1, <1>3, <1>4, NoCommandTyped, SetTag, SetCmd, SetPending

LEMMA StreamsClosedTyped == ASSUME NEW w \in World PROVE StreamsClosed(w) \in World
<1> DEFINE r == [w.rd EXCEPT !.state = "Closed", !.ready = FALSE, !.failed = FALSE, !.timer = FALSE]
           v == [w EXCEPT !.ses.open = FALSE, !.rd = r,
                          !.net.up = FALSE, !.net.wire = <<>>, !.net.out = <<>>]
<1>1. r \in Readers
  BY WorldFields DEF Readers
<1>2. StreamsClosed(w) = DoCancel(Destroy(v, KErrImapClosed))
  BY DEF StreamsClosed
<1> HIDE DEF r
<1>3. <<>> \in Seq(Lines) /\ <<>> \in Seq(Sent)
  OBVIOUS
<1>4. v \in World
  BY <1>1, <1>3, SetOpen, SetReader, SetUp, SetWire, SetOut
<1> HIDE DEF v
<1>. QED BY <1>2, <1>4, DoCancelTyped, DestroyTyped, CodesAreStatuses

LEMMA CloseWithTyped == ASSUME NEW w \in World, NEW err \in Codes
                        PROVE  CloseWith(w, err) \in World
  BY CompleteTyped, StreamsClosedTyped, SetState DEF CloseWith

LEMMA CompleteClosedTyped == ASSUME NEW w \in World, NEW who \in Objects
                             PROVE  CompleteClosed(w, who) \in World
  BY QueueTyped, CompleteTyped, CodesAreStatuses DEF CompleteClosed

\* What a command makes of one line.
Results == [w : World, res : {"More", "Complete", "Corrupt"}]

LEMMA ParseTyped == ASSUME NEW w \in World, NEW line \in Lines
                    PROVE  ParseBlockL(w, line) \in Results
<1>1. ParseFlushing(w, line) \in Results
  BY DEF ParseFlushing, Results
<1>2. ParseCont(w) \in Results
  <2>1. [w EXCEPT !.ses.cmd.idle = "WaitResponse"] \in World
    BY DEF World, Sessions, Commands
  <2> DEFINE v == [w EXCEPT !.ses.cmd.idle = "WaitResponse"]
  <2>2. ParseCont(w) \in {[w |-> v, res |-> "More"], [w |-> w, res |-> "Corrupt"]}
    BY DEF ParseCont
  <2> HIDE DEF v
  <2>. QED BY <2>1, <2>2 DEF Results, v
<1>3. ParseUntagged(w, line) \in Results
  <2>1. line.n \in 0 .. MaxExists
    BY DEF Lines
  <2> DEFINE u == [w EXCEPT !.ses.folder.exists = line.n]
             v == IF w.ses.folder = NoFolder THEN w ELSE u
  <2>2. v \in World
    <3>1. w.ses \in Sessions /\ w.ses.folder \in Mailboxes
      BY DEF World, Sessions
    <3>2. [w.ses.folder EXCEPT !.exists = line.n] \in Mailboxes
      BY <2>1, <3>1 DEF Mailboxes
    <3>3. [w.ses EXCEPT !.folder.exists = line.n] \in Sessions
      BY <3>1, <3>2 DEF Sessions
    <3>4. u \in World
      BY <3>3 DEF World
    <3>. QED BY <3>4
  <2>3. ParseUntagged(w, line) = [w |-> v, res |-> IF w.ses.cmd.kind = "Wait" THEN "Complete" ELSE "More"]
    BY DEF ParseUntagged
  <2> HIDE DEF v
  <2>. QED BY <2>2, <2>3 DEF Results
<1>4. ParseTagged(w, line) \in Results
  BY DEF ParseTagged, Results
<1>. QED BY <1>1, <1>2, <1>3, <1>4 DEF ParseBlockL

LEMMA CommandCompleteTyped == ASSUME NEW w \in World, NEW line \in Lines
                              PROVE  CommandComplete(w, line) \in World
  BY SelectUndoneTyped, DestroyTyped, CodesAreStatuses, SetState, SetServer DEF CommandComplete

-----------------------------------------------------------------------------
(* The loop of ProcessInputBufferL                                         *)

\* A set of natural numbers that is not empty has a least element.
LEMMA LeastNumber ==
  ASSUME NEW S, S \subseteq Nat, S # {}
  PROVE  \E i \in S : \A j \in S : i <= j
<1>1. IsWellFoundedOn({ss \in Nat \X Nat : ss[1] < ss[2]}, Nat)
  BY NatLessThanWellFounded DEF OpToRel
<1>2. PICK i \in S : \A j \in S : <<j, i>> \notin {ss \in Nat \X Nat : ss[1] < ss[2]}
  BY <1>1, WFMin
<1>3. \A j \in S : i <= j
  <2> SUFFICES ASSUME NEW j \in S PROVE i <= j
    OBVIOUS
  <2>1. <<j, i>> \in Nat \X Nat /\ i \in Nat /\ j \in Nat
    OBVIOUS
  <2>2. ~(j < i)
    BY <1>2, <2>1
  <2>. QED BY <2>1, <2>2
<1>. QED BY <1>3

\* One unfolding of the equation of the rounds, up to the m-th.
Unfolded(w, lines, m, g) ==
  [n \in 0 .. m |-> IF n = 0 THEN [w |-> w, go |-> TRUE] ELSE Round(g[n - 1], lines[n])]

\* The rounds are a recursive function: one exists that satisfies its equation.
LEMMA RoundsExist ==
  ASSUME NEW w, NEW lines, NEW m \in Nat
  PROVE  \E g : g = Unfolded(w, lines, m, g)
<1> DEFINE First == [w |-> w, go |-> TRUE]
           Solves(g, i) == g = [n \in 0 .. i |-> IF n = 0 THEN First ELSE Round(g[n - 1], lines[n])]
           Fails == {i \in Nat : ~\E g : Solves(g, i)}
<1> HIDE DEF First
<1> SUFFICES Fails = {}
  BY DEF First, Unfolded
<1> SUFFICES ASSUME Fails # {} PROVE FALSE
  OBVIOUS
<1>1. PICK k \in Fails : \A j \in Fails : k <= j
  BY LeastNumber
<1>2. k \in Nat /\ ~\E g : Solves(g, k)
  OBVIOUS
<1>3. CASE k = 0
  <2> DEFINE g == [n \in 0 .. 0 |-> First]
  <2>1. Solves(g, 0)
    OBVIOUS
  <2>. QED BY <1>2, <1>3, <2>1
<1>4. CASE k # 0
  <2>1. k - 1 \in Nat /\ ~(k <= k - 1)
    BY <1>2, <1>4
  <2>2. k - 1 \notin Fails
    BY <1>1, <2>1
  <2>3. PICK g : Solves(g, k - 1)
    BY <2>1, <2>2
  <2> DEFINE h == [n \in 0 .. k |-> IF n = k THEN Round(g[k - 1], lines[k]) ELSE g[n]]
             r == [n \in 0 .. k |-> IF n = 0 THEN First ELSE Round(h[n - 1], lines[n])]
  <2>4. ASSUME NEW n \in 0 .. k PROVE h[n] = r[n]
    <3>1. CASE n = k
      <4>1. h[k] = Round(g[k - 1], lines[k]) /\ h[k - 1] = g[k - 1]
        BY <1>2, <1>4
      <4>. QED BY <1>2, <1>4, <3>1, <4>1
    <3>2. CASE n # k
      <4>1. n \in 0 .. (k - 1) /\ h[n] = g[n]
        BY <1>2, <3>2
      <4>2. g[n] = IF n = 0 THEN First ELSE Round(g[n - 1], lines[n])
        BY <2>3, <4>1
      <4>3. n # 0 => h[n - 1] = g[n - 1]
        BY <1>2, <4>1
      <4>. QED BY <4>1, <4>2, <4>3
    <3>. QED BY <3>1, <3>2
  <2>5. h = r
    BY <2>4
  <2>6. Solves(h, k)
    BY <2>5
  <2>. QED BY <1>2, <2>6
<1>. QED BY <1>3, <1>4

\* After each round, what the one before it left.
LEMMA RoundsUnfold ==
  ASSUME NEW w, NEW lines \in Seq(Lines), NEW n \in 0 .. Len(lines)
  PROVE  Rounds(w, lines)[n] = IF n = 0 THEN [w |-> w, go |-> TRUE]
                               ELSE Round(Rounds(w, lines)[n - 1], lines[n])
<1> DEFINE r == Rounds(w, lines)
<1>0. Len(lines) \in Nat
  OBVIOUS
<1>1. r = Unfolded(w, lines, Len(lines), r)
  <2>1. \E g : g = Unfolded(w, lines, Len(lines), g)
    BY <1>0, RoundsExist
  <2>2. r = CHOOSE g : g = Unfolded(w, lines, Len(lines), g)
    BY DEF Rounds, Unfolded
  <2> HIDE DEF r
  <2>. QED BY <2>1, <2>2
<1> HIDE DEF r
<1>2. r[n] = IF n = 0 THEN [w |-> w, go |-> TRUE] ELSE Round(r[n - 1], lines[n])
  BY <1>1 DEF Unfolded
<1>. QED BY <1>2 DEF r

\* What holds at first and is kept by every round holds at the end. Kept[n] is
\* the set of the accumulators that may be met after n rounds.
LEMMA LoopInduction ==
  ASSUME NEW w, NEW lines \in Seq(Lines), NEW Kept,
         [w |-> w, go |-> TRUE] \in Kept[0],
         \A n \in 1 .. Len(lines) : \A acc \in Kept[n - 1] : Round(acc, lines[n]) \in Kept[n]
  PROVE  Rounds(w, lines)[Len(lines)] \in Kept[Len(lines)]
<1> DEFINE r == Rounds(w, lines)
           Fails == {n \in 0 .. Len(lines) : r[n] \notin Kept[n]}
<1>0. Len(lines) \in Nat
  OBVIOUS
<1>1. \A n \in 0 .. Len(lines) : r[n] = IF n = 0 THEN [w |-> w, go |-> TRUE]
                                        ELSE Round(r[n - 1], lines[n])
  BY RoundsUnfold
<1> HIDE DEF r
<1> SUFFICES Fails = {}
  BY <1>0 DEF r
<1> SUFFICES ASSUME Fails # {} PROVE FALSE
  OBVIOUS
<1>2. Fails \subseteq Nat
  BY <1>0
<1>3. PICK k \in Fails : \A j \in Fails : k <= j
  BY <1>2, LeastNumber
<1>4. k \in 0 .. Len(lines) /\ r[k] \notin Kept[k]
  OBVIOUS
<1>5. CASE k = 0
  BY <1>1, <1>4, <1>5
<1>6. CASE k # 0
  <2>1. k \in 1 .. Len(lines) /\ k - 1 \in 0 .. Len(lines) /\ ~(k <= k - 1)
    BY <1>0, <1>4, <1>6
  <2>2. r[k - 1] \in Kept[k - 1]
    BY <1>3, <2>1
  <2>3. Round(r[k - 1], lines[k]) \in Kept[k]
    BY <2>1, <2>2
  <2>. QED BY <1>1, <1>4, <1>6, <2>3
<1>. QED BY <1>5, <1>6

LEMMA ParseKeepsInput == ASSUME NEW w \in World, NEW line \in Lines
                         PROVE  ParseBlockL(w, line).w.ses.input = w.ses.input
<1>1. ParseFlushing(w, line).w.ses.input = w.ses.input
  BY DEF ParseFlushing
<1>2. ParseCont(w).w.ses.input = w.ses.input
  <2> DEFINE v == [w EXCEPT !.ses.cmd.idle = "WaitResponse"]
  <2>1. v.ses.input = w.ses.input
    BY DEF World, Sessions
  <2> HIDE DEF v
  <2>. QED BY <2>1 DEF ParseCont, v
<1>3. ParseUntagged(w, line).w.ses.input = w.ses.input
  <2> DEFINE v == [w EXCEPT !.ses.folder.exists = line.n]
  <2>1. v.ses.input = w.ses.input
    BY DEF World, Sessions
  <2> HIDE DEF v
  <2>. QED BY <2>1 DEF ParseUntagged, v
<1>4. ParseTagged(w, line).w.ses.input = w.ses.input
  BY DEF ParseTagged
<1>. QED BY <1>1, <1>2, <1>3, <1>4 DEF ParseBlockL

\* While the loop goes on, the input is what has not been parsed.
Accs(lines, n) == {acc \in [w : World, go : BOOLEAN] :
                     acc.go => acc.w.ses.input = SubSeq(lines, n + 1, Len(lines))}

\* The line that the next round parses, and what it leaves.
LEMMA NextLine ==
  ASSUME NEW lines \in Seq(Lines), NEW n \in 1 .. Len(lines),
         NEW acc \in Accs(lines, n - 1), acc.go
  PROVE  LET u == [acc.w EXCEPT !.ses.input = Tail(@)]
         IN /\ acc.w \in World /\ u \in World /\ lines[n] \in Lines
            /\ u.ses.input = SubSeq(lines, n + 1, Len(lines))
            /\ acc.w.ses.input # <<>> /\ lines[n] = Head(acc.w.ses.input)
<1>1. acc.w \in World /\ acc.w.ses.input = SubSeq(lines, n - 1 + 1, Len(lines))
  BY DEF Accs
<1>2. n \in Nat /\ n - 1 + 1 = n /\ Len(lines) \in Nat /\ n <= Len(lines)
  OBVIOUS
<1> DEFINE s == SubSeq(lines, n, Len(lines))
<1>3. s \in Seq(Lines) /\ Len(s) = Len(lines) - n + 1
  <2>1. \A i \in n .. Len(lines) : lines[i] \in Lines
    BY <1>2
  <2>. QED BY <1>2, <2>1, SubSeqProperties
<1>4. s # <<>> /\ Head(s) = lines[n]
  <2>1. Len(lines) \in n .. Len(lines)
    BY <1>2
  <2>2. Head(s) = lines[n]
    BY <2>1, HeadTailOfSubSeq
  <2>3. Len(s) # 0 /\ Len(<<>>) = 0
    BY <1>2, <1>3
  <2> HIDE DEF s
  <2>. QED BY <2>2, <2>3
<1>5. Tail(s) = SubSeq(lines, n + 1, Len(lines)) /\ Tail(s) \in Seq(Lines)
  <2>1. Len(lines) \in n .. Len(lines)
    BY <1>2
  <2>2. Tail(s) = SubSeq(lines, n + 1, Len(lines))
    BY <2>1, HeadTailOfSubSeq
  <2> HIDE DEF s
  <2>. QED BY <1>3, <1>4, <2>2
<1>6. acc.w.ses.input = s
  BY <1>1, <1>2
<1> HIDE DEF s
<1>7. [acc.w EXCEPT !.ses.input = Tail(@)] = [acc.w EXCEPT !.ses.input = Tail(s)]
  BY <1>6
<1>8. [acc.w EXCEPT !.ses.input = Tail(s)] \in World
  BY <1>1, <1>5, SetInput
<1>9. [acc.w EXCEPT !.ses.input = Tail(s)].ses.input = Tail(s)
  BY <1>1 DEF World, Sessions
<1> DEFINE u == [acc.w EXCEPT !.ses.input = Tail(@)]
<1>10. u \in World /\ u.ses.input = Tail(s)
  BY <1>7, <1>8, <1>9
<1>11. lines[n] \in Lines
  BY <1>2
<1> HIDE DEF s, u
<1>. QED BY <1>1, <1>4, <1>5, <1>6, <1>10, <1>11 DEF u

LEMMA RoundTyped ==
  ASSUME NEW lines \in Seq(Lines), NEW n \in 1 .. Len(lines), NEW acc \in Accs(lines, n - 1)
  PROVE  Round(acc, lines[n]) \in Accs(lines, n)
<1> DEFINE u == [acc.w EXCEPT !.ses.input = Tail(@)]
           p == ParseBlockL(u, lines[n])
<1>1. CASE ~acc.go
  BY <1>1 DEF Round, Accs
<1>2. CASE acc.go
  <2>1. u \in World /\ lines[n] \in Lines /\ u.ses.input = SubSeq(lines, n + 1, Len(lines))
    BY <1>2, NextLine
  <2>2. Round(acc, lines[n]) =
          CASE p.res = "Corrupt" -> [w |-> CloseWith(p.w, KErrImapCorrupt), go |-> FALSE]
            [] p.res = "Complete" -> [w |-> CommandComplete(p.w, lines[n]), go |-> FALSE]
            [] OTHER -> IF Intermediate(p.w) THEN [w |-> Complete(p.w, KErrNone), go |-> FALSE]
                        ELSE [w |-> p.w, go |-> TRUE]
    BY <1>2 DEF Round
  <2> HIDE DEF u
  <2>3. p \in Results /\ p.w.ses.input = u.ses.input
    BY <2>1, ParseTyped, ParseKeepsInput
  <2> HIDE DEF p
  <2>4. p.w \in World /\ p.w.ses.input = SubSeq(lines, n + 1, Len(lines))
    BY <2>1, <2>3 DEF Results
  <2>5. /\ CloseWith(p.w, KErrImapCorrupt) \in World
        /\ CommandComplete(p.w, lines[n]) \in World
        /\ Complete(p.w, KErrNone) \in World
    BY <2>1, <2>4, CloseWithTyped, CommandCompleteTyped, CompleteTyped, CodesAreStatuses
  <2>. QED BY <2>2, <2>4, <2>5 DEF Accs
<1>3. acc.go \in BOOLEAN
  BY DEF Accs
<1>. QED BY <1>1, <1>2, <1>3

LEMMA RoundsTyped ==
  ASSUME NEW w \in World
  PROVE  Rounds(w, w.ses.input)[Len(w.ses.input)] \in [w : World, go : BOOLEAN]
<1> DEFINE lines == w.ses.input
           Kept == [n \in 0 .. Len(lines) |-> Accs(lines, n)]
<1>1. lines \in Seq(Lines) /\ Len(lines) \in Nat
  BY SessionFields
<1>2. [w |-> w, go |-> TRUE] \in Kept[0]
  <2>1. SubSeq(lines, 1, Len(lines)) = lines
    BY <1>1, SubSeqFull
  <2>2. Kept[0] = Accs(lines, 0) /\ 0 + 1 = 1
    BY <1>1
  <2>3. [w |-> w, go |-> TRUE] \in [w : World, go : BOOLEAN]
    OBVIOUS
  <2> HIDE DEF Kept
  <2>. QED BY <2>1, <2>2, <2>3 DEF Accs
<1> HIDE DEF lines
<1>3. \A n \in 1 .. Len(lines) : \A acc \in Kept[n - 1] : Round(acc, lines[n]) \in Kept[n]
  BY <1>1, RoundTyped
<1>4. Rounds(w, lines)[Len(lines)] \in Kept[Len(lines)]
  <2> HIDE DEF Kept
  <2>. QED BY <1>1, <1>2, <1>3, LoopInduction
<1>5. Kept[Len(lines)] = Accs(lines, Len(lines))
  BY <1>1
<1> HIDE DEF Kept
<1>. QED BY <1>4, <1>5 DEF lines, Accs

LEMMA ProcessInputBufferTyped == ASSUME NEW w \in World PROVE ProcessInputBufferL(w) \in World
<1> DEFINE v == Expect(Expect(w, w.ses.cmd # NoCmd, "SessionNullCurrentCommand"),
                       w.ses.state # "Unrecoverable", "SessionInvalidSessionState")
           r == Rounds(v, v.ses.input)[Len(v.ses.input)]
<1>1. v \in World
  BY ExpectTyped, Names
<1>2. ProcessInputBufferL(w) = IF v.fault # "None" THEN v
                               ELSE IF r.go THEN RequestReadData(r.w) ELSE r.w
  BY DEF ProcessInputBufferL
<1> HIDE DEF v
<1>3. r.w \in World
  BY <1>1, RoundsTyped
<1> HIDE DEF r
<1>. QED BY <1>1, <1>2, <1>3, RequestReadDataTyped

LEMMA ReceivedDataIndTyped == ASSUME NEW w \in World, NEW data \in Seq(Lines)
                              PROVE  ReceivedDataIndL(w, data) \in World
  BY ExpectTyped, Names, SetInput, SetFlushTimer, ProcessInputBufferTyped DEF ReceivedDataIndL

-----------------------------------------------------------------------------
(* Types: the requests, the callbacks and the server                       *)

Verbs == {"select", "fetch", "idle", "done"}

LEMMA SendTyped ==
  ASSUME NEW w \in World, NEW verb \in Verbs, NEW box \in Boxes \cup {NoBox}
  PROVE  Send(w, verb, box) \in World
<1> DEFINE c == [verb |-> verb, tag |-> w.ses.cmd.tag, box |-> box]
<1>1. c \in Sent
  BY SessionFields DEF Sent, Commands, Verbs
<1>2. Send(w, verb, box) = IF ~w.net.up THEN w ELSE [w EXCEPT !.net.out = Append(w.net.out, c)]
  BY DEF Send
<1> HIDE DEF c
<1>3. Append(w.net.out, c) \in Seq(Sent)
  BY <1>1, NetFields
<1>. QED BY <1>2, <1>3, SetOut

LEMMA AssertedTyped ==
  ASSUME NEW w \in World
  PROVE  /\ NoOperation(w) \in World /\ LoggedIn(w) \in World /\ CanStart(w) \in World
         /\ InIdleMode(w) \in World
  BY ExpectTyped, Names DEF NoOperation, LoggedIn, CanStart, InIdleMode

LEMMA NextTagTyped == ASSUME NEW t \in 0 .. TagModulus PROVE NextTag(t) \in 1 .. TagModulus
  BY SessionAssumption DEF NextTag

LEMMA StartCommandTyped ==
  ASSUME NEW w \in World, NEW who \in Objects, NEW kind \in {"Select", "Fetch", "Idle", "Wait"},
         NEW verb, kind = "Wait" \/ verb \in Verbs, NEW box \in Boxes \cup {NoBox}
  PROVE  StartCommandL(w, who, kind, verb, box) \in World
<1> DEFINE v == CanStart(w)
           t == NextTag(v.ses.tag)
           c == [NoCmd EXCEPT !.kind = kind, !.tag  = IF kind = "Wait" THEN 0 ELSE t,
                              !.idle = IF kind = "Idle" THEN "WaitContinue" ELSE @]
           s == [v EXCEPT !.ses.cmd = c, !.ses.tag = t]
           f == IF kind = "Wait" THEN s ELSE Send(s, verb, box)
<1>1. v \in World
  BY AssertedTyped
<1> HIDE DEF v
<1>2. t \in 1 .. TagModulus /\ TagModulus \in Nat
  BY <1>1, SessionFields, NextTagTyped, SessionAssumption
<1> HIDE DEF t
<1>3. c \in Commands
  <2> DEFINE tt == IF kind = "Wait" THEN 0 ELSE t
             ii == IF kind = "Idle" THEN "WaitContinue" ELSE "None"
  <2>1. c = [kind |-> kind, tag |-> tt, flushing |-> FALSE, idle |-> ii]
    <3>1. NoCmd.idle = "None"
      BY DEF NoCmd
    <3>2. c = [NoCmd EXCEPT !.kind = kind, !.tag = tt, !.idle = ii]
      BY <3>1
    <3> HIDE DEF tt, ii, c
    <3>. QED BY <3>2 DEF NoCmd
  <2>2. tt \in 0 .. TagModulus
    BY <1>2
  <2>3. ii \in {"None", "WaitContinue", "WaitResponse", "WaitDone"}
    OBVIOUS
  <2> HIDE DEF c, tt, ii
  <2>. QED BY <2>1, <2>2, <2>3 DEF Commands
<1> HIDE DEF c
<1>4. s \in World
  <2>1. t \in 0 .. TagModulus
    BY <1>2
  <2>. QED BY <1>1, <1>3, <2>1, SetCmd, SetTag
<1> HIDE DEF s
<1>5. f \in World
  BY <1>4, SendTyped
<1> HIDE DEF f
<1>6. StartCommandL(w, who, kind, verb, box) = Queue(Feed(f), who)
  BY DEF StartCommandL, v, t, c, s, f
<1>. QED BY <1>5, <1>6, FeedTyped, QueueTyped

LEMMA SelectTyped ==
  ASSUME NEW w \in World, NEW who \in Objects, NEW box \in Boxes \cup {NoBox}
  PROVE  SelectL(w, who, box) \in World
<1> DEFINE v == LoggedIn(NoOperation(w))
           p == [v EXCEPT !.ses.pending = "Select"]
           s == StartCommandL(p, who, "Select", "select", box)
           f == [NoFolder EXCEPT !.box = box]
<1>1. v \in World
  BY AssertedTyped
<1> HIDE DEF v
<1>2. p \in World
  BY <1>1, SetPending
<1> HIDE DEF p
<1>3. s \in World
  BY <1>2, StartCommandTyped DEF Verbs
<1> HIDE DEF s
<1>4. f \in Mailboxes
  BY SessionAssumption DEF NoFolder, Mailboxes
<1> HIDE DEF f
<1>5. SelectL(w, who, box) =
        CASE ~v.ses.open -> [CompleteClosed(v, who) EXCEPT !.ses.folder = NoFolder]
          [] v.ses.open /\ v.ses.folder.box = box -> Complete(Queue(v, who), KErrNone)
          [] OTHER -> [s EXCEPT !.ses.folder = f]
  BY DEF SelectL, s, p, v, f
<1>6. v.ses.open \in BOOLEAN
  BY <1>1, SessionFields
<1>7. [CompleteClosed(v, who) EXCEPT !.ses.folder = NoFolder] \in World
  BY <1>1, CompleteClosedTyped, SetFolder, NoCommandTyped
<1>8. Complete(Queue(v, who), KErrNone) \in World
  BY <1>1, QueueTyped, CompleteTyped, CodesAreStatuses
<1>9. [s EXCEPT !.ses.folder = f] \in World
  BY <1>3, <1>4, SetFolder
<1>. QED BY <1>5, <1>6, <1>7, <1>8, <1>9

LEMMA FetchTyped == ASSUME NEW w \in World, NEW who \in Objects PROVE FetchL(w, who) \in World
  BY AssertedTyped, ExpectTyped, Names, CompleteClosedTyped, StartCommandTyped DEF FetchL, Verbs

LEMMA EnterIdleTyped == ASSUME NEW w \in World, NEW who \in Objects
                        PROVE  EnterIdleL(w, who) \in World
  BY AssertedTyped, CompleteClosedTyped, StartCommandTyped, SetPending DEF EnterIdleL, Verbs

LEMMA WaitForServerEventTyped == ASSUME NEW w \in World, NEW who \in Objects
                                 PROVE  WaitForServerEventL(w, who) \in World
  BY AssertedTyped, CompleteClosedTyped, StartCommandTyped DEF WaitForServerEventL

LEMMA WaitForIdleEventTyped == ASSUME NEW w \in World, NEW who \in Objects
                               PROVE  WaitForIdleEvent(w, who) \in World
  BY AssertedTyped, CompleteClosedTyped, SetPending, QueueTyped, AsyncTyped DEF WaitForIdleEvent

LEMMA DoneIdleTyped == ASSUME NEW w \in World, NEW who \in Objects
                       PROVE  DoneIdle(w, who) \in World
<1> DEFINE v == Expect(InIdleMode(w), w.ses.cmd # NoCmd, "SessionNullCurrentCommand")
           s == Expect(v, v.ses.cmd.idle = "WaitResponse", "IdleStateInvalid")
           p == [s EXCEPT !.ses.pending = "IdleDone", !.ses.cmd.idle = "WaitDone"]
<1>1. v \in World /\ s \in World
  BY AssertedTyped, ExpectTyped, Names
<1>2. DoneIdle(w, who) = IF ~v.ses.open THEN CompleteClosed(v, who)
                         ELSE ProcessInputBufferAsync(Queue(Send(p, "done", NoBox), who))
  BY DEF DoneIdle
<1> HIDE DEF v, s
<1>3. [s EXCEPT !.ses.pending = "IdleDone"] \in World
  BY <1>1, SetPending
<1>4. p \in World
  <2> DEFINE q == [s EXCEPT !.ses.pending = "IdleDone"]
  <2> HIDE DEF q
  <2>1. [q EXCEPT !.ses.cmd.idle = "WaitDone"] \in World
    <3>1. q \in World
      BY <1>3 DEF q
    <3>2. [q.ses.cmd EXCEPT !.idle = "WaitDone"] \in Commands
      BY <3>1, SessionFields DEF Commands
    <3>. QED BY <3>1, <3>2, SetCmd
  <2>2. p = [q EXCEPT !.ses.cmd.idle = "WaitDone"]
    BY DEF q
  <2>. QED BY <2>1, <2>2
<1> HIDE DEF p
<1>. QED BY <1>1, <1>2, <1>4, CompleteClosedTyped, SendTyped, QueueTyped, AsyncTyped DEF Verbs

LEMMA FlushTyped == ASSUME NEW w \in World, NEW who \in Objects
                    PROVE  FlushCancelledCommand(w, who) \in World
<1> DEFINE q == Queue(w, who)
           n == NoOperation(Expect(q, q.ses.state = "Normal", "SessionInvalidSessionState"))
           f == Expect(Expect(q, q.ses.cmd.flushing, "SessionCommandNotFlushing"),
                       q.ses.state = "Flushing", "SessionInvalidSessionState")
<1>1. q \in World
  BY QueueTyped
<1> HIDE DEF q
<1>2. n \in World /\ f \in World
  BY <1>1, ExpectTyped, AssertedTyped, Names
<1> HIDE DEF n, f
<1>3. FlushCancelledCommand(w, who) =
        CASE ~w.ses.open         -> CompleteClosed(w, who)
          [] w.ses.open /\ w.ses.cmd = NoCmd -> Complete(n, KErrNone)
          [] w.ses.open /\ w.ses.cmd.kind = "Wait" ->
               [Destroy(f, KErrNone) EXCEPT !.ses.state = "Normal"]
          [] OTHER -> Feed(f)
  BY DEF FlushCancelledCommand, q, n, f
<1>4. w.ses.open \in BOOLEAN
  BY SessionFields
<1>5. /\ CompleteClosed(w, who) \in World /\ Complete(n, KErrNone) \in World
      /\ [Destroy(f, KErrNone) EXCEPT !.ses.state = "Normal"] \in World
      /\ Feed(f) \in World
  BY <1>2, CompleteClosedTyped, CompleteTyped, CodesAreStatuses, DestroyTyped, SetState, FeedTyped
<1>. QED BY <1>3, <1>4, <1>5

LEMMA ReaderRunTyped == ASSUME NEW w \in World PROVE ReaderRunL(w) \in World
<1> DEFINE v == [w EXCEPT !.rd.timer = FALSE, !.rd.ready = FALSE]
           a == [v EXCEPT !.rd.state = "ReceivedData", !.rd.timer = w.rd.limit, !.rd.limit = FALSE]
           b == [v EXCEPT !.rd.state = "Idle", !.rd.buf = <<>>]
<1>1. ReaderRunL(w) = CASE w.rd.failed -> StreamsClosed(v)
                        [] ~w.rd.failed /\ w.rd.state = "Read" -> a
                        [] OTHER -> ReceivedDataIndL(b, w.rd.buf)
  BY DEF ReaderRunL
<1>2. v \in World
  BY SetTimer, SetReady
<1> HIDE DEF v
<1>3. w.rd.limit \in BOOLEAN /\ w.rd.buf \in Seq(Lines) /\ <<>> \in Seq(Lines) /\ w.rd.failed \in BOOLEAN
  BY ReaderFields
<1>4. a \in World /\ b \in World
  BY <1>2, <1>3, SetRdState, SetTimer, SetLimit, SetBuf
<1> HIDE DEF a, b
<1>. QED BY <1>1, <1>2, <1>3, <1>4, StreamsClosedTyped, ReceivedDataIndTyped

LEMMA ReceivedTyped ==
  ASSUME NEW w \in World, NEW k \in 1 .. Len(w.net.wire)
  PROVE  Received(w, k) \in World
<1> DEFINE x == SubSeq(w.net.wire, 1, k)
           y == SubSeq(w.net.wire, k + 1, Len(w.net.wire))
<1>1. w.net.wire \in Seq(Lines) /\ Len(w.net.wire) \in Nat
  BY NetFields
<1>2. x \in Seq(Lines)
  <2>1. \A i \in 1 .. k : w.net.wire[i] \in Lines
    BY <1>1
  <2>. QED BY <1>1, <2>1, SubSeqProperties
<1>3. y \in Seq(Lines)
  <2>1. \A i \in k + 1 .. Len(w.net.wire) : w.net.wire[i] \in Lines
    BY <1>1
  <2>. QED BY <1>1, <2>1, SubSeqProperties
<1>4. Received(w, k) = [w EXCEPT !.rd.buf = x, !.rd.ready = TRUE, !.net.wire = y]
  BY DEF Received
<1> DEFINE a == [w EXCEPT !.rd.buf = x, !.rd.ready = TRUE]
<1>5. Received(w, k) = [a EXCEPT !.net.wire = y]
  BY <1>4, WorldFields DEF World
<1> HIDE DEF x, y
<1>6. a \in World
  BY <1>2, SetBuf, SetReady
<1> HIDE DEF a
<1>. QED BY <1>3, <1>5, <1>6, SetWire

LEMMA CallbacksTyped ==
  ASSUME NEW w \in World
  PROVE  /\ ReceiveFailed(w) \in World /\ AsyncCallBack(w) \in World
         /\ FlushTimeout(w) \in World /\ ReaderTimeout(w) \in World
  BY SetReady, SetFailed, SetAsync, SetTimer, ProcessInputBufferTyped, ExpectTyped, Names,
     DoCancelTyped, CompleteTyped, CodesAreStatuses, StreamsClosedTyped
     DEF ReceiveFailed, AsyncCallBack, FlushTimeout, ReaderTimeout

LEMMA ReplyTyped ==
  ASSUME NEW net_1 \in Nets, net_1.out # <<>>, NEW lines \in Seq(Lines)
  PROVE  Reply(net_1, lines) \in Nets
<1>1. Tail(net_1.out) \in Seq(Sent)
  BY HeadTailProperties DEF Nets
<1>2. net_1.wire \o lines \in Seq(Lines)
  BY ConcatProperties DEF Nets
<1>. QED BY <1>1, <1>2 DEF Reply, Nets

LEMMA LinesTyped ==
  /\ \A n \in 0 .. MaxExists : Exists(n) \in Lines
  /\ \A k \in {"cont", "ok", "no"} : \A t \in 0 .. TagModulus : Line(k, t) \in Lines
  BY SessionAssumption DEF Exists, Line, Lines

LEMMA AnswersTyped ==
  ASSUME NEW m \in Nets, m.out # <<>>
  PROVE  Answers(m) \subseteq Nets
<1> DEFINE c == Head(m.out)
<1>1. c \in Sent
  BY HeadTailProperties DEF Nets
<1>2. c.tag \in 0 .. TagModulus /\ c.box \in Boxes \cup {NoBox} /\ c.verb \in Verbs
  BY <1>1 DEF Sent, Verbs
<1> DEFINE one(k) == Reply(m, <<Line(k, c.tag)>>)
           no == [one("no") EXCEPT !.selected = IF c.verb = "select" THEN NoBox ELSE @]
<1> HIDE DEF c
<1>3. \A k \in {"cont", "ok", "no"} : one(k) \in Nets
  <2>1. ASSUME NEW k \in {"cont", "ok", "no"} PROVE one(k) \in Nets
    <3>1. <<Line(k, c.tag)>> \in Seq(Lines)
      BY <1>2, LinesTyped
    <3>. QED BY <3>1, ReplyTyped
  <2>. QED BY <2>1
<1> HIDE DEF one
<1>4. no \in Nets
  <2> DEFINE s == IF c.verb = "select" THEN NoBox ELSE one("no").selected
  <2>1. one("no") \in Nets /\ no = [one("no") EXCEPT !.selected = s]
    BY <1>3
  <2>2. s \in Boxes \cup {NoBox}
    BY <2>1 DEF Nets
  <2> HIDE DEF s
  <2>. QED BY <2>1, <2>2 DEF Nets
<1>5. ServerSelects(m) \in Nets
  <2> DEFINE e == IF c.box = Inbox THEN <<Exists(m.exists)>> ELSE <<>>
             r == Reply(m, Append(e, Line("ok", c.tag)))
  <2>1. m.exists \in 0 .. MaxExists
    BY SessionAssumption DEF Nets
  <2>2. e \in Seq(Lines)
    BY <2>1, LinesTyped
  <2> HIDE DEF e
  <2>3. Append(e, Line("ok", c.tag)) \in Seq(Lines)
    BY <1>2, <2>2, LinesTyped
  <2>4. ServerSelects(m) = [r EXCEPT !.selected = c.box]
    BY DEF ServerSelects, c, e
  <2>5. r \in Nets
    BY <2>3, ReplyTyped
  <2> HIDE DEF r
  <2>. QED BY <1>2, <2>4, <2>5 DEF Nets
<1>6. [one("cont") EXCEPT !.idling = TRUE] \in Nets /\ [one("ok") EXCEPT !.idling = FALSE] \in Nets
  BY <1>3 DEF Nets
<1> DEFINE yes == CASE c.verb = "select" -> ServerSelects(m)
                    [] c.verb = "fetch"  -> one("ok")
                    [] c.verb = "idle"   -> [one("cont") EXCEPT !.idling = TRUE]
                    [] c.verb = "done"   -> [one("ok") EXCEPT !.idling = FALSE]
<1>7. yes \in Nets
  BY <1>2, <1>3, <1>5, <1>6 DEF Verbs
<1>8. Answers(m) = {yes} \cup IF c.verb \in Refusals THEN {no} ELSE {}
  BY DEF Answers, c, one
<1> HIDE DEF yes, no
<1>. QED BY <1>4, <1>7, <1>8

LEMMA NewMessageTyped ==
  ASSUME NEW m \in Nets, m.exists < MaxExists
  PROVE  NewMessage(m) \in Nets
<1> DEFINE n == m.exists + 1
           s == IF m.selected = Inbox THEN Append(m.wire, Exists(n)) ELSE m.wire
<1>1. n \in 1 .. MaxExists /\ n \in 0 .. MaxExists
  BY SessionAssumption DEF Nets
<1> HIDE DEF n
<1>2. s \in Seq(Lines)
  BY <1>1, LinesTyped DEF Nets
<1>3. NewMessage(m) = [m EXCEPT !.exists = n, !.wire = s]
  BY DEF NewMessage, n
<1> HIDE DEF s
<1>. QED BY <1>1, <1>2, <1>3 DEF Nets

-----------------------------------------------------------------------------
(* The controllers                                                         *)

Compounds == {"Child", "Op"}
Job == [op : Operations, step : {"None", "Start", "Select", "Fetch"},
        report : BOOLEAN, error : BOOLEAN]

LEMMA ObjectNames == {"Pc", "Idle", "Folder", "Child", "Op"} \subseteq Objects
                     /\ Compounds \subseteq Objects
  BY DEF Objects, Compounds

LEMMA IdleFields ==
  ASSUME NEW w \in World
  PROVE  /\ w.idle.state \in IdleStates /\ w.idle.stopping \in BOOLEAN
         /\ w.idle.report \in BOOLEAN /\ w.idle.timer \in BOOLEAN
  BY WorldFields DEF IdleTypes

LEMMA InboxFields ==
  ASSUME NEW w \in World
  PROVE  /\ w.inbox.size \in 0 .. MaxExists /\ w.inbox.covering \in 0 .. MaxExists
         /\ w.inbox.synced \in 0 .. MaxExists /\ w.inbox.fetched \in 0 .. MaxExists
  BY WorldFields DEF Inboxes

LEMMA JobFields ==
  ASSUME NEW w \in World, NEW o \in Compounds
  PROVE  /\ w.job[o] \in Job /\ w.job[o].op \in Operations
         /\ w.job[o].step \in {"None", "Start", "Select", "Fetch"}
         /\ w.job[o].report \in BOOLEAN /\ w.job[o].error \in BOOLEAN
         /\ w.job[o].op.box \in Boxes \cup {NoBox}
<1>1. w.job[o] \in Job
  BY WorldFields DEF Jobs, Job, Compounds
<1>2. \A op \in Operations : op.box \in Boxes \cup {NoBox}
  BY SessionAssumption, IdleAssumption DEF Operations, NoOp
<1>. QED BY <1>1, <1>2 DEF Job

LEMMA StatusTyped == ASSUME NEW w \in World, NEW o \in Objects
                     PROVE  w.ao[o] \in [active : BOOLEAN, status : Statuses]
                            /\ w.ao[o].active \in BOOLEAN /\ w.ao[o].status \in Statuses
  BY WorldFields DEF ActiveObjects

LEMMA NoJobTyped == NoJob \in Job /\ NoOp \in Operations
  BY DEF NoJob, Job, Operations

LEMMA Enterable == {"StartingIdle", "SelectingInbox", "Synchronising",
                    "SyncFetching", "WaitingForContinuation", "Idling",
                    "WaitingForServerEvent", "WaitingForFlush", "WaitingForDone",
                    "Finished"} \subseteq IdleStates
  BY DEF IdleStates

LEMMA StarterTyped == ASSUME NEW o PROVE Starter(o) \in Objects
  BY ObjectNames DEF Starter

LEMMA NewTyped == /\ NewSession \in Sessions /\ NewReader \in Readers /\ NewNet \in Nets
<1>1. <<>> \in Seq(Lines) /\ <<>> \in Seq(Sent)
  OBVIOUS
<1>2. 0 \in 0 .. TagModulus /\ 1 \in 1 .. MaxExists
  BY SessionAssumption
<1>3. NewSession \in Sessions
  BY <1>1, <1>2, NoCommandTyped DEF NewSession, Sessions
<1>4. NewReader \in Readers
  BY <1>1 DEF NewReader, Readers
<1>5. NewNet \in Nets
  BY <1>1, <1>2 DEF NewNet, Nets
<1>. QED BY <1>3, <1>4, <1>5


(* What the session may be asked and what happens to it: a set of worlds   *)
(* that none of it leaves is a set that the controllers do not leave.      *)

\* v and w differ in what the session does not know of.
Beside(v, w) == v.ses = w.ses /\ v.rd = w.rd /\ v.net = w.net /\ v.fault = w.fault

Requests(G) ==
  \A w \in G, who \in Objects :
    /\ \A box \in Boxes \cup {NoBox} : SelectL(w, who, box) \in G
    /\ FetchL(w, who) \in G /\ EnterIdleL(w, who) \in G
    /\ WaitForServerEventL(w, who) \in G /\ WaitForIdleEvent(w, who) \in G
    /\ DoneIdle(w, who) \in G /\ FlushCancelledCommand(w, who) \in G

Callbacks(G) ==
  \A w \in G :
    /\ SessionCancel(w) \in G /\ ReaderRunL(w) \in G /\ AsyncCallBack(w) \in G
    /\ FlushTimeout(w) \in G /\ ReaderTimeout(w) \in G /\ ReceiveFailed(w) \in G
    /\ \A k \in 1 .. Len(w.net.wire) : Received(w, k) \in G

Surroundings(G) ==
  \A w \in G :
    /\ w.net.out # <<>> => \A n \in Answers(w.net) : [w EXCEPT !.net = n] \in G
    /\ w.net.exists < MaxExists => [w EXCEPT !.net = NewMessage(w.net)] \in G
    /\ \A wire \in {w.net.wire, <<>>} :
         [w EXCEPT !.net.up = FALSE, !.net.wire = wire, !.net.out = <<>>] \in G

Closed(G) ==
  /\ G \subseteq World
  /\ \A w \in G, v \in World : Beside(v, w) => v \in G
  /\ \A w \in G, name \in Assertions : [w EXCEPT !.fault = name] \in G
  /\ \A v \in World : ~v.ses.open /\ ~v.net.up /\ v.ses.cmd = NoCmd => v \in G
  /\ Requests(G) /\ Callbacks(G) /\ Surroundings(G)

LEMMA WorldClosed == Closed(World)
<1>1. Requests(World)
  BY SelectTyped, FetchTyped, EnterIdleTyped, WaitForServerEventTyped, WaitForIdleEventTyped,
     DoneIdleTyped, FlushTyped DEF Requests
<1>2. Callbacks(World)
  BY SessionCancelTyped, ReaderRunTyped, CallbacksTyped, ReceivedTyped DEF Callbacks
<1>3. Surroundings(World)
  <2> SUFFICES ASSUME NEW w \in World
               PROVE  /\ w.net.out # <<>> => \A n \in Answers(w.net) : [w EXCEPT !.net = n] \in World
                      /\ w.net.exists < MaxExists => [w EXCEPT !.net = NewMessage(w.net)] \in World
                      /\ \A wire \in {w.net.wire, <<>>} :
                           [w EXCEPT !.net.up = FALSE, !.net.wire = wire, !.net.out = <<>>] \in World
    BY DEF Surroundings
  <2>1. w.net \in Nets /\ w.net.wire \in Seq(Lines) /\ <<>> \in Seq(Lines) /\ <<>> \in Seq(Sent)
    BY WorldFields, NetFields
  <2>2. w.net.out # <<>> => \A n \in Answers(w.net) : [w EXCEPT !.net = n] \in World
    BY <2>1, AnswersTyped, SetNet
  <2>3. w.net.exists < MaxExists => [w EXCEPT !.net = NewMessage(w.net)] \in World
    BY <2>1, NewMessageTyped, SetNet
  <2>4. \A wire \in {w.net.wire, <<>>} :
          [w EXCEPT !.net.up = FALSE, !.net.wire = wire, !.net.out = <<>>] \in World
    BY <2>1, SetUp, SetWire, SetOut
  <2>. QED BY <2>2, <2>3, <2>4
<1>4. \A w \in World, name \in Assertions : [w EXCEPT !.fault = name] \in World
  BY SetFault, ZenonT(60)
<1>5. World \subseteq World /\ \A w \in World, v \in World : Beside(v, w) => v \in World
  OBVIOUS
<1>6. \A v \in World : ~v.ses.open /\ ~v.net.up /\ v.ses.cmd = NoCmd => v \in World
  OBVIOUS
<1>. QED BY <1>1, <1>2, <1>3, <1>4, <1>5, <1>6, ZenonT(60) DEF Closed

LEMMA InWorld == ASSUME NEW G, Closed(G), NEW w \in G PROVE w \in World
  BY DEF Closed

LEMMA BesideStays == ASSUME NEW G, Closed(G), NEW w \in G, NEW v \in World, Beside(v, w)
                     PROVE  v \in G
  BY DEF Closed

LEMMA ExpectStays == ASSUME NEW G, Closed(G), NEW w \in G, NEW ok, NEW name \in Assertions
                     PROVE  Expect(w, ok, name) \in G
  BY DEF Closed, Expect

LEMMA RequestsStay ==
  ASSUME NEW G, Closed(G), NEW w \in G, NEW who \in Objects
  PROVE  /\ \A box \in Boxes \cup {NoBox} : SelectL(w, who, box) \in G
         /\ FetchL(w, who) \in G /\ EnterIdleL(w, who) \in G
         /\ WaitForServerEventL(w, who) \in G /\ WaitForIdleEvent(w, who) \in G
         /\ DoneIdle(w, who) \in G /\ FlushCancelledCommand(w, who) \in G
  BY DEF Closed, Requests

LEMMA CallbacksStay ==
  ASSUME NEW G, Closed(G), NEW w \in G
  PROVE  /\ SessionCancel(w) \in G /\ ReaderRunL(w) \in G /\ AsyncCallBack(w) \in G
         /\ FlushTimeout(w) \in G /\ ReaderTimeout(w) \in G /\ ReceiveFailed(w) \in G
         /\ \A k \in 1 .. Len(w.net.wire) : Received(w, k) \in G
  BY DEF Closed, Callbacks

LEMMA SurroundingsStay ==
  ASSUME NEW G, Closed(G), NEW w \in G
  PROVE  /\ w.net.out # <<>> => \A n \in Answers(w.net) : [w EXCEPT !.net = n] \in G
         /\ w.net.exists < MaxExists => [w EXCEPT !.net = NewMessage(w.net)] \in G
         /\ \A wire \in {w.net.wire, <<>>} :
              [w EXCEPT !.net.up = FALSE, !.net.wire = wire, !.net.out = <<>>] \in G
  BY Zenon DEF Closed, Surroundings

LEMMA ActiveSet ==
  ASSUME NEW G, Closed(G), NEW w \in G, NEW o \in Objects, NEW x \in BOOLEAN
  PROVE  [w EXCEPT !.ao[o].active = x] \in G
<1> DEFINE v == [w EXCEPT !.ao[o].active = x]
<1>1. w \in World
  BY InWorld
<1>2. v \in World /\ Beside(v, w)
  BY <1>1 DEF World, Beside, ActiveObjects
<1>. QED BY <1>2, BesideStays

LEMMA SetSignal ==
  ASSUME NEW G, Closed(G), NEW w \in G, NEW o \in Objects, NEW x \in Statuses
  PROVE  [w EXCEPT !.ao[o].status = x] \in G
<1> DEFINE v == [w EXCEPT !.ao[o].status = x]
<1>1. w \in World
  BY InWorld
<1>2. v \in World /\ Beside(v, w)
  BY <1>1 DEF World, Beside, ActiveObjects
<1>. QED BY <1>2, BesideStays

LEMMA SetIdleState ==
  ASSUME NEW G, Closed(G), NEW w \in G, NEW x \in IdleStates
  PROVE  [w EXCEPT !.idle.state = x] \in G
<1> DEFINE v == [w EXCEPT !.idle.state = x]
<1>1. w \in World
  BY InWorld
<1>2. v \in World /\ Beside(v, w)
  BY <1>1 DEF World, Beside, IdleTypes
<1>. QED BY <1>2, BesideStays

LEMMA SetStopping ==
  ASSUME NEW G, Closed(G), NEW w \in G, NEW x \in BOOLEAN
  PROVE  [w EXCEPT !.idle.stopping = x] \in G
<1> DEFINE v == [w EXCEPT !.idle.stopping = x]
<1>1. w \in World
  BY InWorld
<1>2. v \in World /\ Beside(v, w)
  BY <1>1 DEF World, Beside, IdleTypes
<1>. QED BY <1>2, BesideStays

LEMMA SetIdleReport ==
  ASSUME NEW G, Closed(G), NEW w \in G, NEW x \in BOOLEAN
  PROVE  [w EXCEPT !.idle.report = x] \in G
<1> DEFINE v == [w EXCEPT !.idle.report = x]
<1>1. w \in World
  BY InWorld
<1>2. v \in World /\ Beside(v, w)
  BY <1>1 DEF World, Beside, IdleTypes
<1>. QED BY <1>2, BesideStays

LEMMA SetIdleTimer ==
  ASSUME NEW G, Closed(G), NEW w \in G, NEW x \in BOOLEAN
  PROVE  [w EXCEPT !.idle.timer = x] \in G
<1> DEFINE v == [w EXCEPT !.idle.timer = x]
<1>1. w \in World
  BY InWorld
<1>2. v \in World /\ Beside(v, w)
  BY <1>1 DEF World, Beside, IdleTypes
<1>. QED BY <1>2, BesideStays

LEMMA SetJob ==
  ASSUME NEW G, Closed(G), NEW w \in G, NEW o \in Compounds, NEW x \in Job
  PROVE  [w EXCEPT !.job[o] = x] \in G
<1> DEFINE v == [w EXCEPT !.job[o] = x]
<1>1. w \in World
  BY InWorld
<1>2. v \in World /\ Beside(v, w)
  BY <1>1 DEF World, Beside, Jobs, Job, Compounds
<1>. QED BY <1>2, BesideStays

LEMMA SetStep ==
  ASSUME NEW G, Closed(G), NEW w \in G, NEW o \in Compounds, NEW x \in {"None", "Start", "Select", "Fetch"}
  PROVE  [w EXCEPT !.job[o].step = x] \in G
<1> DEFINE v == [w EXCEPT !.job[o].step = x]
<1>1. w \in World
  BY InWorld
<1>2. v \in World /\ Beside(v, w)
  BY <1>1 DEF World, Beside, Jobs, Compounds
<1>. QED BY <1>2, BesideStays

LEMMA SetJobReport ==
  ASSUME NEW G, Closed(G), NEW w \in G, NEW o \in Compounds, NEW x \in BOOLEAN
  PROVE  [w EXCEPT !.job[o].report = x] \in G
<1> DEFINE v == [w EXCEPT !.job[o].report = x]
<1>1. w \in World
  BY InWorld
<1>2. v \in World /\ Beside(v, w)
  BY <1>1 DEF World, Beside, Jobs, Compounds
<1>. QED BY <1>2, BesideStays

LEMMA SetJobError ==
  ASSUME NEW G, Closed(G), NEW w \in G, NEW o \in Compounds, NEW x \in BOOLEAN
  PROVE  [w EXCEPT !.job[o].error = x] \in G
<1> DEFINE v == [w EXCEPT !.job[o].error = x]
<1>1. w \in World
  BY InWorld
<1>2. v \in World /\ Beside(v, w)
  BY <1>1 DEF World, Beside, Jobs, Compounds
<1>. QED BY <1>2, BesideStays

LEMMA SetPcOp ==
  ASSUME NEW G, Closed(G), NEW w \in G, NEW x \in {"Idle", "StopIdle", "Op", "Recover"}
  PROVE  [w EXCEPT !.pc.op = x] \in G
<1> DEFINE v == [w EXCEPT !.pc.op = x]
<1>1. w \in World
  BY InWorld
<1>2. v \in World /\ Beside(v, w)
  BY <1>1 DEF World, Beside, Controllers
<1>. QED BY <1>2, BesideStays

LEMMA SetPc ==
  ASSUME NEW G, Closed(G), NEW w \in G, NEW x \in Controllers
  PROVE  [w EXCEPT !.pc = x] \in G
<1> DEFINE v == [w EXCEPT !.pc = x]
<1>1. w \in World
  BY InWorld
<1>2. v \in World /\ Beside(v, w)
  BY <1>1 DEF World, Beside
<1>. QED BY <1>2, BesideStays

LEMMA SetActiveStays == ASSUME NEW G, Closed(G), NEW w \in G, NEW o \in Objects
                        PROVE  SetActive(w, o) \in G
  BY ActiveSet DEF SetActive

LEMMA Deactivated == ASSUME NEW G, Closed(G), NEW w \in G, NEW o \in Objects
                     PROVE  [w EXCEPT !.ao[o].active = FALSE] \in G
  BY ActiveSet

LEMMA SignalStays == ASSUME NEW G, Closed(G), NEW w \in G, NEW o \in Objects, NEW err \in Statuses
                     PROVE  Signal(w, o, err) \in G
  BY SetSignal DEF Signal

LEMMA CancelStays == ASSUME NEW G, Closed(G), NEW w \in G, NEW o \in Objects, NEW v \in G
                     PROVE  Cancel(w, o, v) \in G
  BY ExpectStays, Names, Deactivated DEF Cancel

LEMMA InboxSelectedStays == ASSUME NEW G, Closed(G), NEW w \in G PROVE InboxSelected(w) \in G
  BY ExpectStays, Names DEF InboxSelected

LEMMA SynchroniseStays == ASSUME NEW G, Closed(G), NEW w \in G PROVE SynchroniseL(w) \in G
<1> DEFINE v == InboxSelected(w)
           n == v.ses.folder.exists
           s == [v EXCEPT !.inbox.size = n, !.inbox.covering = n]
           z == [s EXCEPT !.inbox.synced = 0]
<1>1. v \in G
  BY InboxSelectedStays
<1>2. SynchroniseL(w) = IF n = 0 THEN Signal(z, "Idle", KErrNone)
                        ELSE SetActive(FetchL(Signal(s, "Idle", KRequestPending), "Folder"), "Folder")
  BY DEF SynchroniseL
<1> HIDE DEF v
<1>3. n \in 0 .. MaxExists
  BY <1>1, InWorld, SessionFields DEF Mailboxes
<1> HIDE DEF n
<1>4. s \in G
  <2>1. v \in World
    BY <1>1, InWorld
  <2>2. s \in World /\ Beside(s, v)
    BY <1>3, <2>1 DEF World, Inboxes, Beside
  <2>. QED BY <1>1, <2>2, BesideStays
<1> HIDE DEF s
<1>5. z \in G
  <2>1. s \in World
    BY <1>4, InWorld
  <2>2. z \in World /\ Beside(z, s)
    BY <2>1, SessionAssumption DEF World, Inboxes, Beside
  <2>. QED BY <1>4, <2>2, BesideStays
<1> HIDE DEF z
<1>. QED BY <1>2, <1>4, <1>5, ObjectNames, CodesAreStatuses, SignalStays, RequestsStay, SetActiveStays

LEMMA FolderRunStays == ASSUME NEW G, Closed(G), NEW w \in G PROVE FolderDoRunL(w) \in G
<1> DEFINE err == w.ao["Folder"].status
           v == Signal(w, "Idle", err)
<1>1. v \in G
  BY InWorld, ObjectNames, StatusTyped, SignalStays
<1>2. FolderDoRunL(w) = IF err # KErrNone THEN v ELSE [v EXCEPT !.inbox.synced = w.inbox.covering]
  BY DEF FolderDoRunL
<1> HIDE DEF v, err
<1>3. [v EXCEPT !.inbox.synced = w.inbox.covering] \in G
  <2>1. w.inbox.covering \in 0 .. MaxExists
    BY InWorld, InboxFields
  <2> DEFINE u == [v EXCEPT !.inbox.synced = w.inbox.covering]
  <2>2. v \in World
    BY <1>1, InWorld
  <2>3. u \in World /\ Beside(u, v)
    BY <2>1, <2>2 DEF World, Inboxes, Beside
  <2>. QED BY <1>1, <2>3, BesideStays
<1>. QED BY <1>1, <1>2, <1>3

LEMMA FolderCancelStays == ASSUME NEW G, Closed(G), NEW w \in G PROVE FolderDoCancel(w) \in G
  BY CallbacksStay, SignalStays, ObjectNames, CodesAreStatuses DEF FolderDoCancel

LEMMA JobCompleteStays == ASSUME NEW G, Closed(G), NEW w \in G, NEW o \in Compounds, NEW err \in Codes
                          PROVE  JobComplete(w, o, err) \in G
  BY SetJobReport, SignalStays, StarterTyped, CodesAreStatuses DEF JobComplete

LEMMA StartOperationStays == ASSUME NEW G, Closed(G), NEW w \in G, NEW o \in Compounds
                             PROVE  StartOperation(w, o) \in G
<1> DEFINE v == Signal(w, Starter(o), KRequestPending)
           u == [v EXCEPT !.job[o].step = "Start", !.job[o].report = TRUE]
<1>1. v \in G
  BY SignalStays, StarterTyped, CodesAreStatuses
<1> HIDE DEF v
<1>2. u \in G
  BY <1>1, SetStep, SetJobReport
<1>3. o \in Objects
  BY ObjectNames
<1>4. StartOperation(w, o) = SetActive(Signal(u, o, KErrNone), o)
  BY DEF StartOperation, v
<1> HIDE DEF u
<1>. QED BY <1>2, <1>3, <1>4, SignalStays, SetActiveStays, CodesAreStatuses

LEMMA StepStays == ASSUME NEW G, Closed(G), NEW w \in G, NEW o \in Compounds
                   PROVE  StepSelect(w, o) \in G /\ StepFetch(w, o) \in G
<1>1. o \in Objects /\ w.job[o].op.box \in Boxes \cup {NoBox}
  BY InWorld, ObjectNames, JobFields
<1>2. [w EXCEPT !.job[o].step = "Select"] \in G /\ [w EXCEPT !.job[o].step = "Fetch"] \in G
  BY SetStep
<1>. QED BY <1>1, <1>2, RequestsStay, RequestsStay, SetActiveStays DEF StepSelect, StepFetch

LEMMA LoopStepStays == ASSUME NEW G, Closed(G), NEW w \in G, NEW o \in Compounds
                       PROVE  DoRunLoopL(w, o) \in G
  BY StepStays, JobCompleteStays, CodesAreStatuses DEF DoRunLoopL

LEMMA JobRunStays == ASSUME NEW G, Closed(G), NEW w \in G, NEW o \in Compounds
                     PROVE  JobDoRunL(w, o) \in G
<1> DEFINE st   == w.ao[o].status
           err  == IF w.job[o].step = "Fetch" THEN FetchError(st) ELSE st
           code == IF err \in {KErrImapNo, KErrImapBad} THEN KErrNone ELSE 1
           v    == [w EXCEPT !.job[o].error = TRUE]
<1>1. v \in G
  BY SetJobError
<1>2. code \in Codes /\ KErrNone \in Codes
  BY DEF Codes, KErrImapNo
<1>3. JobDoRunL(w, o) = CASE err = KErrNone -> DoRunLoopL(w, o)
                          [] err # KErrNone /\ code = KErrNone -> JobComplete(v, o, KErrNone)
                          [] OTHER -> JobComplete(v, o, code)
  BY DEF JobDoRunL
<1> HIDE DEF code, err, v
<1>. QED BY <1>1, <1>2, <1>3, LoopStepStays, JobCompleteStays

LEMMA JobCancelStays == ASSUME NEW G, Closed(G), NEW w \in G, NEW o \in Compounds
                        PROVE  JobDoCancel(w, o) \in G
  BY CallbacksStay, JobCompleteStays, CodesAreStatuses DEF JobDoCancel

LEMMA IdleCompleteStays == ASSUME NEW G, Closed(G), NEW w \in G, NEW err \in Statuses
                           PROVE  IdleComplete(w, err) \in G
  BY SetIdleReport, SignalStays, ObjectNames DEF IdleComplete

LEMMA IdleInternalCancelStays == ASSUME NEW G, Closed(G), NEW w \in G PROVE IdleInternalCancel(w) \in G
<1> DEFINE v == [w EXCEPT !.idle.timer = FALSE]
           f == Cancel(v, "Folder", FolderDoCancel(v))
           c == Cancel(v, "Child", JobDoCancel(v, "Child"))
           j == [c EXCEPT !.job["Child"] = NoJob]
<1>1. v \in G
  BY SetIdleTimer
<1>2. IdleInternalCancel(w) = CASE w.idle.state \in OnSession -> SessionCancel(v)
        [] w.idle.state = "Synchronising" -> f [] w.idle.state = "SyncFetching" -> j
        [] OTHER -> v
  BY DEF IdleInternalCancel
<1> HIDE DEF v
<1>3. "Child" \in Compounds /\ {"Folder", "Child"} \subseteq Objects
  BY ObjectNames DEF Compounds
<1>4. f \in G /\ c \in G
  BY <1>1, <1>3, CancelStays, FolderCancelStays, JobCancelStays
<1> HIDE DEF c, f
<1>5. j \in G
  BY <1>3, <1>4, SetJob, NoJobTyped
<1> HIDE DEF j
<1>. QED BY <1>1, <1>2, <1>4, <1>5, CallbacksStay

LEMMA IdleDoCancelStays == ASSUME NEW G, Closed(G), NEW w \in G PROVE IdleDoCancel(w) \in G
  BY IdleInternalCancelStays, IdleCompleteStays, SetIdleState, CodesAreStatuses, Enterable DEF IdleDoCancel

LEMMA CancelAndSetStays == ASSUME NEW G, Closed(G), NEW w \in G, NEW next \in IdleStates
                           PROVE  InternalCancelAndSetState(w, next) \in G
<1> DEFINE v == Expect(w, w.idle.state \notin {"Synchronising", "StartingIdle", "Finished"},
                       "InternalCancelOnBadState")
<1>1. v \in G
  BY ExpectStays, Names
<1>2. InternalCancelAndSetState(w, next) =
        [Cancel(v, "Idle", IdleInternalCancel(v)) EXCEPT !.idle.state = next]
  BY DEF InternalCancelAndSetState
<1> HIDE DEF v
<1>. QED BY <1>1, <1>2, IdleInternalCancelStays, CancelStays, SetIdleState, ObjectNames

LEMMA StopStays ==
  ASSUME NEW G, Closed(G), NEW w \in G
  PROVE  CancelThenDone(w) \in G /\ CancelThenFlush(w) \in G
  BY CancelAndSetStays, Enterable, ObjectNames, RequestsStay, RequestsStay, SetActiveStays
     DEF CancelThenDone, CancelThenFlush

LEMMA StartIdleStays == ASSUME NEW G, Closed(G), NEW w \in G PROVE StartIdle(w) \in G
<1> DEFINE v == Expect(Expect(w, w.idle.state = "Finished", "UnexpectedStateAtStart"),
                       ~Active(w, "Idle"), "IsActiveAtStart")
<1>1. v \in G
  BY ExpectStays, Names
<1>2. StartIdle(w) = SetActive(Signal([v EXCEPT !.idle.state = "StartingIdle",
                                       !.idle.stopping = FALSE], "Idle", KErrNone), "Idle")
  BY DEF StartIdle
<1> HIDE DEF v
<1>3. [v EXCEPT !.idle.state = "StartingIdle", !.idle.stopping = FALSE] \in G
  BY <1>1, SetIdleState, SetStopping, Enterable
<1>. QED BY <1>2, <1>3, SignalStays, SetActiveStays, ObjectNames, CodesAreStatuses

LEMMA StopIdleStays == ASSUME NEW G, Closed(G), NEW w \in G PROVE StopIdle(w) \in G
<1> DEFINE a == Expect(w, ~w.idle.report, "AlreadyInUse")
           v == Signal([a EXCEPT !.idle.stopping = TRUE, !.idle.report = TRUE], "Pc", KRequestPending)
<1>1. a \in G
  BY ExpectStays, Names
<1>2. StopIdle(w) = CASE w.idle.state = "Finished" -> IdleComplete(v, KErrNone)
                      [] w.idle.state = "Idling" -> CancelThenDone(v)
                      [] w.idle.state \in {"WaitingForServerEvent", "SyncFetching"} -> CancelThenFlush(v)
                      [] OTHER -> v
  BY DEF StopIdle
<1> HIDE DEF a
<1>3. [a EXCEPT !.idle.stopping = TRUE, !.idle.report = TRUE] \in G
  BY <1>1, SetStopping, SetIdleReport
<1>4. v \in G
  BY <1>3, SignalStays, ObjectNames, CodesAreStatuses
<1> HIDE DEF v
<1>. QED BY <1>2, <1>4, IdleCompleteStays, StopStays, CodesAreStatuses

LEMMA EnterStays == ASSUME NEW G, Closed(G), NEW w \in G, NEW state \in IdleStates
                    PROVE  Enter(w, state) \in G
  BY SetIdleState, SetActiveStays, ObjectNames DEF Enter

LEMMA GoIdleStays == ASSUME NEW G, Closed(G), NEW w \in G PROVE GoIdleL(w) \in G
  BY EnterStays, Enterable, ObjectNames, RequestsStay, RequestsStay DEF GoIdleL

LEMMA SyncStays == ASSUME NEW G, Closed(G), NEW w \in G, NEW v \in G
                   PROVE  Sync(w) \in G /\ SyncOr(w, v) \in G
  BY SynchroniseStays, EnterStays, Enterable, InboxSelectedStays DEF Sync, SyncOr

LEMMA BodyDownloadStays == ASSUME NEW G, Closed(G), NEW w \in G PROVE DoBodyDownloadL(w) \in G
<1> DEFINE j == [NoJob EXCEPT !.op = [kind |-> "Copy", box |-> Inbox]]
           v == [w EXCEPT !.job["Child"] = j]
<1>1. j \in Job /\ "Child" \in Compounds
  BY NoJobTyped DEF NoJob, Job, Operations, Compounds
<1>2. DoBodyDownloadL(w) = Enter(StartOperation(v, "Child"), "SyncFetching")
  BY DEF DoBodyDownloadL
<1> HIDE DEF j
<1>3. v \in G
  BY <1>1, SetJob
<1> HIDE DEF v
<1>. QED BY <1>1, <1>2, <1>3, StartOperationStays, EnterStays, Enterable

LEMMA EnterIdlingStays == ASSUME NEW G, Closed(G), NEW w \in G PROVE EnterIdlingState(w) \in G
  BY SetIdleTimer, RequestsStay, EnterStays, Enterable, ObjectNames DEF EnterIdlingState

LEMMA DoneToSyncStays == ASSUME NEW G, Closed(G), NEW w \in G PROVE DoneToSync(w) \in G
  BY RequestsStay, SetIdleTimer, EnterStays, Enterable, ObjectNames DEF DoneToSync

LEMMA RunContinueStays == ASSUME NEW G, Closed(G), NEW w \in G PROVE RunContinueL(w) \in G
<1> DEFINE v == InboxSelected(w)
           f == [w EXCEPT !.inbox.fetched = w.inbox.synced, !.job["Child"] = NoJob]
           t == [w EXCEPT !.idle.timer = @ /\ ~Changed(w)]
           s == w.idle.state
<1>1. v \in G
  BY InboxSelectedStays
<1>2. f \in G
  <2> DEFINE g == [w EXCEPT !.inbox.fetched = w.inbox.synced]
  <2>1. g \in G
    <3> DEFINE n == w.inbox.synced
    <3>1. n \in 0 .. MaxExists
      BY InWorld, InboxFields
    <3> HIDE DEF n
    <3> DEFINE h == [w EXCEPT !.inbox.fetched = n]
    <3>2. h \in World /\ Beside(h, w)
      BY <3>1, InWorld DEF World, Inboxes, Beside
    <3>3. h \in G
      BY <3>2, BesideStays
    <3>. QED BY <3>3 DEF n
  <2>2. f = [g EXCEPT !.job["Child"] = NoJob]
    OBVIOUS
  <2> HIDE DEF g
  <2>3. "Child" \in Compounds
    BY DEF Compounds
  <2>. QED BY <2>1, <2>2, <2>3, SetJob, NoJobTyped
<1>3. t \in G
  <2> DEFINE x == w.idle.timer /\ ~Changed(w)
  <2>1. x \in BOOLEAN
    BY InWorld, IdleFields
  <2>2. t = [w EXCEPT !.idle.timer = x]
    OBVIOUS
  <2> HIDE DEF x
  <2>. QED BY <2>1, <2>2, SetIdleTimer
<1>4. RunContinueL(w) =
        CASE s = "StartingIdle" -> Enter(SelectL(w, "Idle", Inbox), "SelectingInbox")
          [] s = "SelectingInbox" ->
               SyncOr(w, IF BodiesWanted(w) THEN DoBodyDownloadL(w) ELSE GoIdleL(w))
          [] s = "WaitingForContinuation" -> IF Changed(v) THEN DoneToSync(v) ELSE EnterIdlingState(v)
          [] s = "Idling" -> IF Changed(v) THEN DoneToSync(v)
                             ELSE Enter(WaitForIdleEvent(v, "Idle"), "Idling")
          [] s = "WaitingForServerEvent" -> SyncOr(t, GoIdleL(w))
          [] s \in {"WaitingForFlush", "WaitingForDone"} -> SyncOr(w, GoIdleL(w))
          [] s = "Synchronising" -> IF BodiesWanted(w) THEN DoBodyDownloadL(w) ELSE SyncOr(w, GoIdleL(w))
          [] s = "SyncFetching" -> SyncOr(f, GoIdleL(f))
          [] OTHER -> w
  BY DEF RunContinueL
<1> HIDE DEF v, f, t, s
<1>5. /\ DoneToSync(v) \in G /\ EnterIdlingState(v) \in G /\ GoIdleL(w) \in G
      /\ GoIdleL(f) \in G /\ DoBodyDownloadL(w) \in G
  BY <1>1, <1>2, DoneToSyncStays, EnterIdlingStays, GoIdleStays, BodyDownloadStays
<1>6. Enter(SelectL(w, "Idle", Inbox), "SelectingInbox") \in G
  BY RequestsStay, EnterStays, Enterable, ObjectNames, SessionAssumption
<1>7. Enter(WaitForIdleEvent(v, "Idle"), "Idling") \in G
  BY <1>1, RequestsStay, EnterStays, Enterable, ObjectNames
<1>8. /\ SyncOr(t, GoIdleL(w)) \in G /\ SyncOr(w, GoIdleL(w)) \in G
      /\ SyncOr(f, GoIdleL(f)) \in G
      /\ SyncOr(w, IF BodiesWanted(w) THEN DoBodyDownloadL(w) ELSE GoIdleL(w)) \in G
  BY <1>2, <1>3, <1>5, SyncStays
<1>. QED BY <1>1, <1>4, <1>5, <1>6, <1>7, <1>8, ZenonT(60)

LEMMA RunStopStays == ASSUME NEW G, Closed(G), NEW w \in G PROVE RunStopL(w) \in G
  BY StopStays, SetIdleState, IdleCompleteStays, Enterable, CodesAreStatuses DEF RunStopL

LEMMA DisconnectStays == ASSUME NEW G, Closed(G), NEW w \in G PROVE DisconnectAll(w) \in G
<1> DEFINE v == Cancel(w, "Idle", IdleDoCancel(w))
           p == [v.pc EXCEPT !.online = FALSE]
           s == [NewSession EXCEPT !.open = FALSE]
           r == [NewReader EXCEPT !.state = "Closed"]
           n == [NewNet EXCEPT !.up = FALSE, !.exists = w.net.exists]
           i == [v.idle EXCEPT !.state = "Finished", !.timer = FALSE]
           j == [o \in {"Child", "Op"} |-> NoJob]
           a == [o \in Objects |-> IF o = "Pc" THEN v.ao[o]
                   ELSE [active |-> FALSE, status |-> KErrNone]]
<1>1. v \in World /\ w \in World
  BY IdleDoCancelStays, CancelStays, ObjectNames, InWorld
<1>2. DisconnectAll(w) = [v EXCEPT !.pc = p, !.ses = s, !.rd = r, !.net = n, !.idle = i,
                                   !.job = j, !.ao = a]
  <2> HIDE DEF v
  <2>. QED BY DEF DisconnectAll, v
<1>3. p \in Controllers
  <2> HIDE DEF v
  <2>. QED BY <1>1, WorldFields DEF Controllers
<1>4. i \in IdleTypes
  <2> HIDE DEF v
  <2>. QED BY <1>1, WorldFields, Enterable DEF IdleTypes
<1>5. s \in Sessions
  BY NewTyped DEF Sessions
<1>6. r \in Readers
  BY NewTyped DEF Readers
<1>7. n \in Nets
  <2> DEFINE k == w.net.exists
  <2>1. k \in 1 .. MaxExists
    BY <1>1, NetFields
  <2> HIDE DEF k
  <2>2. [NewNet EXCEPT !.up = FALSE, !.exists = k] \in Nets
    BY <2>1, NewTyped DEF Nets
  <2>. QED BY <2>2 DEF k
<1>8. j \in Jobs
  BY NoJobTyped DEF Jobs, Job
<1>9. a \in ActiveObjects
  <2> HIDE DEF v
  <2>1. KErrNone \in Statuses
    BY CodesAreStatuses
  <2>. QED BY <1>1, <2>1, StatusTyped DEF ActiveObjects
<1> HIDE DEF v, p, s, r, n, i, j, a
<1>10. DisconnectAll(w) \in World
  BY <1>1, <1>2, <1>3, <1>4, <1>5, <1>6, <1>7, <1>8, <1>9 DEF World
<1>11. DisconnectAll(w).ses = s /\ DisconnectAll(w).net = n
  BY <1>1, <1>2 DEF World
<1>12. ~s.open /\ s.cmd = NoCmd /\ ~n.up
  BY DEF s, n, NewSession, NewNet
<1>. QED BY <1>10, <1>11, <1>12 DEF Closed

Replies == {KErrNone, 1, KErrCancel, KErrNoMemory, KErrImapServerFail}

LEMMA PcCompleteStays == ASSUME NEW G, Closed(G), NEW w \in G, NEW err \in Replies
                         PROVE  PcComplete(w, err) \in G
<1> DEFINE v == [w EXCEPT !.pc.requested = NoOp, !.pc.report = FALSE, !.pc.answer = err]
           p == [w.pc EXCEPT !.requested = NoOp, !.report = FALSE, !.answer = err]
<1>0. w \in World
  BY InWorld
<1>1. p \in Controllers
  BY <1>0, WorldFields DEF Controllers, Replies
<1>2. v = [w EXCEPT !.pc = p]
  BY <1>0, WorldFields DEF World, Controllers
<1> HIDE DEF p
<1>3. v \in G
  BY <1>1, <1>2, SetPc
<1>4. PcComplete(w, err) = IF ~w.pc.report THEN w
                           ELSE IF err \in {KErrNone, KErrCancel} THEN v ELSE DisconnectAll(v)
  BY DEF PcComplete
<1> HIDE DEF v
<1>. QED BY <1>3, <1>4, DisconnectStays

LEMMA PcStartIdleStays == ASSUME NEW G, Closed(G), NEW w \in G PROVE PcStartIdle(w) \in G
  BY SetPcOp, StartIdleStays DEF PcStartIdle

LEMMA StartRequestedStays == ASSUME NEW G, Closed(G), NEW w \in G PROVE StartRequested(w) \in G
<1>1. "Op" \in Compounds /\ "Pc" \in Objects
  BY ObjectNames DEF Compounds
<1>. QED BY <1>1, SetPcOp, StartOperationStays, SetActiveStays DEF StartRequested

LEMMA PcRunStays == ASSUME NEW G, Closed(G), NEW w \in G PROVE PcDoRunL(w) \in G
<1> DEFINE err == w.ao["Pc"].status
           v   == [w EXCEPT !.job["Op"] = NoJob]
<1>1. v \in G
  <2>1. "Op" \in Compounds
    BY DEF Compounds
  <2>. QED BY <2>1, SetJob, NoJobTyped
<1>2. PcError(w) \in G
  BY DisconnectStays, PcCompleteStays DEF PcError, Replies
<1>3. StartRequested(w) \in G /\ PcStartIdle(w) \in G
  BY StartRequestedStays, PcStartIdleStays
<1>4. ~Fatal(err) => OperationDone(w) \in G
  <2> SUFFICES ASSUME ~Fatal(err) PROVE OperationDone(w) \in G
    OBVIOUS
  <2>1. err \in Replies
    <3>1. err \in Statuses
      BY InWorld, StatusTyped, ObjectNames
    <3>2. err \in {KErrNone, KErrImapNo, KErrImapBad}
      BY DEF Fatal
    <3>3. KErrImapBad \notin Statuses
      BY DEF Statuses, Codes, KErrNone, KErrImapNo, KErrImapBad, KErrImapClosed,
             KErrImapFlushTimeout, KErrImapCorrupt, KErrCancel, KErrNoMemory, KRequestPending
    <3>4. KErrImapNo = 1
      BY DEF KErrImapNo
    <3> HIDE DEF err
    <3>. QED BY <3>1, <3>2, <3>3, <3>4 DEF Replies
  <2>2. OperationDone(w) = IF w.pc.requested.kind = "Select" /\ ~w.job["Op"].error
                           THEN PcComplete(v, err) ELSE PcComplete(PcStartIdle(v), err)
    BY DEF OperationDone
  <2> HIDE DEF v, err
  <2>. QED BY <1>1, <2>1, <2>2, PcStartIdleStays, PcCompleteStays
<1>5. PcDoRunL(w) = CASE Fatal(err) -> PcError(w)
        [] ~Fatal(err) /\ w.pc.op = "StopIdle" -> StartRequested(w)
        [] ~Fatal(err) /\ w.pc.op = "Recover" -> PcStartIdle(w)
        [] OTHER -> OperationDone(w)
  BY DEF PcDoRunL
<1> HIDE DEF err, v
<1>6. Fatal(err) \in BOOLEAN
  BY DEF Fatal
<1>. QED BY <1>2, <1>3, <1>4, <1>5, <1>6

LEMMA RequestStays == ASSUME NEW G, Closed(G), NEW w \in G, NEW op \in Ops PROVE Request(w, op) \in G
<1> DEFINE v == Expect(w, w.job["Op"] = NoJob, "CompoundIsNotNull")
           j == [NoJob EXCEPT !.op = op]
           u == [v EXCEPT !.job["Op"] = j]
           p == [u.pc EXCEPT !.requested = op, !.report = TRUE, !.answer = KErrNone]
           r == [u EXCEPT !.pc = p]
<1>1. v \in G
  BY ExpectStays, Names
<1>2. j \in Job /\ "Op" \in Compounds
  BY DEF NoJob, Job, Operations, Compounds
<1>3. Request(w, op) = StartPrimaryOperation(
         [v EXCEPT !.job["Op"] = j, !.pc.requested = op, !.pc.report = TRUE, !.pc.answer = KErrNone])
  BY DEF Request
<1> HIDE DEF v, j
<1>4. u \in G
  BY <1>1, <1>2, SetJob
<1>5. Request(w, op) = StartPrimaryOperation(r)
  <2>1. v \in World /\ v.pc \in Controllers
    BY <1>1, InWorld, WorldFields
  <2>2. u.pc = v.pc
    BY <2>1 DEF World
  <2>3. r = [v EXCEPT !.job["Op"] = j, !.pc.requested = op, !.pc.report = TRUE, !.pc.answer = KErrNone]
    BY <2>1, <2>2 DEF World, Controllers
  <2>. QED BY <1>3, <2>3
<1> HIDE DEF u
<1>6. p \in Controllers
  <2>1. u.pc \in Controllers
    BY <1>4, InWorld, WorldFields
  <2>. QED BY <2>1 DEF Controllers
<1> HIDE DEF p
<1>7. r \in G
  BY <1>4, <1>6, SetPc
<1> HIDE DEF r
<1>8. [r EXCEPT !.pc.op = "StopIdle"] \in G
  BY <1>7, SetPcOp
<1>9. SetActive(StopIdle([r EXCEPT !.pc.op = "StopIdle"]), "Pc") \in G
  BY <1>8, StopIdleStays, SetActiveStays, ObjectNames
<1>. QED BY <1>5, <1>7, <1>9, StartRequestedStays DEF StartPrimaryOperation

LEMMA PcCancelStays == ASSUME NEW G, Closed(G), NEW w \in G PROVE PcDoCancel(w) \in G
<1> DEFINE v == IF w.pc.op = "StopIdle" THEN Cancel(w, "Idle", IdleDoCancel(w))
                ELSE Cancel(w, "Op", JobDoCancel(w, "Op"))
<1>1. "Op" \in Compounds /\ {"Op", "Idle"} \subseteq Objects
  BY ObjectNames DEF Compounds
<1>2. v \in G
  BY <1>1, CancelStays, IdleDoCancelStays, JobCancelStays
<1>3. PcDoCancel(w) = PcComplete([v EXCEPT !.job["Op"] = NoJob], KErrCancel)
  BY DEF PcDoCancel
<1> HIDE DEF v
<1>. QED BY <1>1, <1>2, <1>3, SetJob, NoJobTyped, PcCompleteStays DEF Replies

LEMMA CancelAndCleanupStays == ASSUME NEW G, Closed(G), NEW w \in G PROVE CancelAndCleanup(w) \in G
  BY CancelStays, PcCancelStays, SetPcOp, RequestsStay, SetActiveStays, ObjectNames DEF CancelAndCleanup

LEMMA IdleStepStays == ASSUME NEW G, Closed(G), NEW w \in G PROVE IdleStep(w) \in G
<1> DEFINE err == w.ao["Idle"].status
           v   == IF w.idle.stopping THEN RunStopL(w) ELSE RunContinueL(w)
<1>1. err \in Statuses
  BY InWorld, StatusTyped, ObjectNames
<1>2. v \in G
  BY RunStopStays, RunContinueStays
<1>3. IdleStep(w) = CASE err # KErrNone /\ w.idle.report -> IdleComplete(w, err)
        [] err # KErrNone /\ ~w.idle.report -> DisconnectAll(w)
        [] OTHER -> IF Active(v, "Idle") THEN v ELSE IdleComplete(v, KErrNone)
  BY DEF IdleStep
<1> HIDE DEF err, v
<1>. QED BY <1>1, <1>2, <1>3, IdleCompleteStays, DisconnectStays, CodesAreStatuses

-----------------------------------------------------------------------------
(* The actions                                                             *)

\* What a step makes of the variables, given the world it reaches.
LEMMA BecomesWorld ==
  ASSUME Now \in World, NEW v \in World, Becomes(v)
  PROVE  /\ Now' \in World
         /\ v.fault = "None" => Now' = v
         /\ v.fault # "None" => fault' = v.fault /\ UNCHANGED <<ses, rd, net, ao, idle, inbox, job, pc>>
<1>1. /\ fault' = v.fault
      /\ IF v.fault # "None"
         THEN UNCHANGED <<ses, rd, net, ao, idle, inbox, job, pc>>
         ELSE /\ ses' = v.ses /\ rd' = v.rd /\ net' = v.net /\ ao' = v.ao
              /\ idle' = v.idle /\ inbox' = v.inbox /\ job' = v.job
              /\ pc' = v.pc
  BY DEF Becomes
<1>2. /\ v = [ses |-> v.ses, rd |-> v.rd, net |-> v.net, ao |-> v.ao, fault |-> v.fault,
              idle |-> v.idle, inbox |-> v.inbox, job |-> v.job, pc |-> v.pc]
      /\ v.fault \in Assertions \cup {"None"}
  BY DEF World
<1>3. Now' = [ses |-> ses', rd |-> rd', net |-> net', ao |-> ao', fault |-> fault',
              idle |-> idle', inbox |-> inbox', job |-> job', pc |-> pc']
  BY DEF Now
<1>4. CASE v.fault = "None"
  BY <1>1, <1>2, <1>3, <1>4
<1>5. CASE v.fault # "None"
  <2>1. /\ ses \in Sessions /\ rd \in Readers /\ net \in Nets /\ ao \in ActiveObjects
        /\ idle \in IdleTypes /\ inbox \in Inboxes /\ job \in Jobs /\ pc \in Controllers
    BY DEF Now, World
  <2>2. Now' \in World
    BY <1>1, <1>2, <1>3, <1>5, <2>1 DEF World
  <2>. QED BY <1>1, <1>5, <2>2
<1>. QED BY <1>4, <1>5

\* A step that fails an assertion leaves the world as it was, but for the fault.
LEMMA BecomesStays ==
  ASSUME NEW G, Closed(G), Now \in G, NEW v \in G, Becomes(v)
  PROVE  Now' \in G
<1>1. Now \in World /\ v \in World
  BY InWorld
<1>2. CASE v.fault = "None"
  BY <1>1, <1>2, BecomesWorld
<1>3. CASE v.fault # "None"
  <2>1. fault' = v.fault /\ UNCHANGED <<ses, rd, net, ao, idle, inbox, job, pc>>
    BY <1>1, <1>3, BecomesWorld
  <2>2. Now' = [Now EXCEPT !.fault = v.fault]
    BY <2>1 DEF Now
  <2>3. v.fault \in Assertions
    BY <1>1, <1>3, WorldFields
  <2>. QED BY <2>2, <2>3 DEF Closed
<1>. QED BY <1>2, <1>3

LEMMA RunStays == ASSUME NEW G, Closed(G), Now \in G, NEW o \in Objects PROVE Run(o) \in G
<1> DEFINE w == Now
<1>1. Run(o) = [w EXCEPT !.ao[o].active = FALSE] /\ w \in G
  BY DEF Run
<1> HIDE DEF w
<1>. QED BY <1>1, Deactivated

\* Every step of the system takes a closed set of worlds to itself.
LEMMA TransitionStays ==
  ASSUME NEW G, Closed(G), Now \in G, Next
  PROVE  \E v \in G : Becomes(v)
<1> DEFINE w == Now
<1>0. w \in G /\ w.idle = idle /\ w.net = net
  BY DEF Now
<1>1. ASSUME IdleRunL PROVE \E v \in G : Becomes(v)
  BY <1>1, RunStays, ObjectNames, IdleStepStays DEF IdleRunL
<1>2. ASSUME FolderRunL PROVE \E v \in G : Becomes(v)
  BY <1>2, RunStays, ObjectNames, FolderRunStays DEF FolderRunL
<1>3. ASSUME ChildRunL PROVE \E v \in G : Becomes(v)
  BY <1>3, RunStays, ObjectNames, JobRunStays DEF ChildRunL, Compounds
<1>4. ASSUME OpRunL PROVE \E v \in G : Becomes(v)
  BY <1>4, RunStays, ObjectNames, JobRunStays DEF OpRunL, Compounds
<1>5. ASSUME PcRunL PROVE \E v \in G : Becomes(v)
  BY <1>5, RunStays, ObjectNames, PcRunStays DEF PcRunL
<1>6. ASSUME ReadRunL PROVE \E v \in G : Becomes(v)
  BY <1>6, CallbacksStay DEF ReadRunL
<1>7. ASSUME CallBackRunL PROVE \E v \in G : Becomes(v)
  BY <1>7, CallbacksStay DEF CallBackRunL
<1>8. ASSUME IdleLeaves PROVE \E v \in G : Becomes(v)
  BY <1>8, RunStays, ObjectNames, IdleCompleteStays, CodesAreStatuses DEF IdleLeaves
<1>9. ASSUME ReissueTimer PROVE \E v \in G : Becomes(v)
  <2> DEFINE u == [Now EXCEPT !.idle.timer = FALSE]
             v == CASE idle.state = "Idling" -> CancelThenDone(u)
                    [] idle.state = "WaitingForServerEvent" -> CancelThenFlush(u)
                    [] OTHER -> u
  <2>1. Becomes(v)
    BY <1>9 DEF ReissueTimer
  <2>2. u = [w EXCEPT !.idle.timer = FALSE]
    OBVIOUS
  <2> HIDE DEF w
  <2>3. u \in G
    BY <1>0, <2>2, SetIdleTimer
  <2> HIDE DEF u
  <2>4. v \in G
    BY <2>3, StopStays
  <2>. QED BY <2>1, <2>4
<1>10. ASSUME FlushTimer PROVE \E v \in G : Becomes(v)
  BY <1>10, CallbacksStay DEF FlushTimer
<1>11. ASSUME ReaderTimer PROVE \E v \in G : Becomes(v)
  BY <1>11, CallbacksStay DEF ReaderTimer
<1>12. ASSUME Receive PROVE \E v \in G : Becomes(v)
  <2>1. PICK k \in 1 .. Len(net.wire) : Becomes(Received(Now, k))
    BY <1>12 DEF Receive
  <2>2. k \in 1 .. Len(w.net.wire)
    BY <1>0
  <2>3. Received(w, k) \in G
    <3> HIDE DEF w
    <3>. QED BY <1>0, <2>2, CallbacksStay
  <2>. QED BY <2>1, <2>3
<1>13. ASSUME ReceiveFails PROVE \E v \in G : Becomes(v)
  BY <1>13, CallbacksStay DEF ReceiveFails
<1>14. ASSUME ServerAnswers PROVE \E v \in G : Becomes(v)
  <2>1. PICK n \in Answers(net) : Becomes([Now EXCEPT !.net = n])
    BY <1>14 DEF ServerAnswers
  <2>2. [w EXCEPT !.net = n] \in G
    <3>1. n \in Answers(w.net) /\ w.net.out # <<>>
      BY <1>0, <1>14 DEF ServerAnswers, ServerReady
    <3> HIDE DEF w
    <3>. QED BY <1>0, <3>1, SurroundingsStay, ZenonT(60)
  <2>. QED BY <2>1, <2>2
<1>15. ASSUME MessageArrives PROVE \E v \in G : Becomes(v)
  <2>1. Becomes([Now EXCEPT !.net = NewMessage(net)])
    BY <1>15 DEF MessageArrives
  <2>2. [w EXCEPT !.net = NewMessage(w.net)] \in G
    <3>1. w.net.exists < MaxExists
      BY <1>0, <1>15 DEF MessageArrives
    <3> HIDE DEF w
    <3>. QED BY <1>0, <3>1, SurroundingsStay, ZenonT(60)
  <2>. QED BY <1>0, <2>1, <2>2
<1>16. ASSUME NetworkFails PROVE \E v \in G : Becomes(v)
  <2>1. PICK wire \in {net.wire, <<>>} :
          Becomes([Now EXCEPT !.net.up = FALSE, !.net.wire = wire, !.net.out = <<>>])
    BY <1>16 DEF NetworkFails
  <2>2. wire \in {w.net.wire, <<>>}
    BY <1>0
  <2>3. [w EXCEPT !.net.up = FALSE, !.net.wire = wire, !.net.out = <<>>] \in G
    <3> HIDE DEF w
    <3>. QED BY <1>0, <2>2, SurroundingsStay, ZenonT(60)
  <2>. QED BY <2>1, <2>3
<1>17. ASSUME ClientAsks PROVE \E v \in G : Becomes(v)
  BY <1>17, RequestStays DEF ClientAsks
<1>18. ASSUME ClientCancels PROVE \E v \in G : Becomes(v)
  BY <1>18, CancelAndCleanupStays DEF ClientCancels
<1>. QED BY <1>1, <1>2, <1>3, <1>4, <1>5, <1>6, <1>7, <1>8, <1>9, <1>10, <1>11, <1>12, <1>13,
            <1>14, <1>15, <1>16, <1>17, <1>18, ZenonT(60) DEF Next, Internal

LEMMA NextStays ==
  ASSUME NEW G, Closed(G), Now \in G, Next
  PROVE  Now' \in G
<1>1. PICK v \in G : Becomes(v)
  BY TransitionStays
<1>. QED BY <1>1, BecomesStays

LEMMA StutterTyped ==
  ASSUME Now \in World, UNCHANGED vars
  PROVE  Now' = Now
  BY DEF vars, Now

LEMMA InitTyped == ASSUME Init PROVE Now \in World
<1>1. /\ ses \in Sessions /\ rd \in Readers /\ net \in Nets
  BY NewTyped DEF Init
<1>2. ao \in ActiveObjects
  BY CodesAreStatuses DEF Init, ActiveObjects
<1>3. fault \in Assertions \cup {"None"}
  BY DEF Init
<1>4. idle \in IdleTypes
  BY DEF Init, IdleTypes, IdleStates
<1>5. inbox \in Inboxes
  BY SessionAssumption DEF Init, Inboxes
<1>6. job \in Jobs
  BY NoJobTyped DEF Init, Jobs, Job
<1>7. pc \in Controllers
  BY DEF Init, Controllers
<1>. QED BY <1>1, <1>2, <1>3, <1>4, <1>5, <1>6, <1>7 DEF Now, World

\* The world is the type invariant, but for KErrImapBad.
LEMMA WorldIsTyped == ASSUME Now \in World PROVE TypeOK
<1>0. /\ ses \in Sessions /\ rd \in Readers /\ net \in Nets /\ ao \in ActiveObjects
      /\ fault \in Assertions \cup {"None"} /\ idle \in IdleTypes /\ inbox \in Inboxes
      /\ job \in Jobs /\ pc \in Controllers
  BY DEF Now, World
<1>1. SessionType(ses) /\ ses.report \in Objects \cup {"None"}
  BY <1>0 DEF Sessions, SessionType, Commands, Mailboxes
<1>2. ReaderType(rd)
  BY <1>0 DEF Readers, ReaderType
<1>3. NetType(net)
  BY <1>0 DEF Nets, NetType, Sent
<1>4. ao \in [Objects -> [active : BOOLEAN,
                          status : {KErrNone, KErrImapNo, KErrImapBad,
                                    KErrImapClosed, KErrImapFlushTimeout,
                                    KErrImapCorrupt, KErrCancel, KErrNoMemory,
                                    KRequestPending}]]
  BY <1>0 DEF ActiveObjects, Statuses, Codes
<1>5. /\ idle \in [state : IdleStates, stopping : BOOLEAN, report : BOOLEAN,
                   timer : BOOLEAN, using : UsingIdle]
      /\ inbox \in [size : 0 .. MaxExists, covering : 0 .. MaxExists,
                    synced : 0 .. MaxExists, fetched : 0 .. MaxExists]
  BY <1>0 DEF IdleTypes, Inboxes
<1>6. job \in [{"Child", "Op"} ->
                [op : Ops \cup {NoOp, [kind |-> "Copy", box |-> Inbox]},
                 step : {"None", "Start", "Select", "Fetch"},
                 report : BOOLEAN, error : BOOLEAN]]
  <2>1. Operations = Ops \cup {NoOp, [kind |-> "Copy", box |-> Inbox]}
    BY DEF Operations
  <2>. QED BY <1>0, <2>1 DEF Jobs
<1>7. pc \in [op : {"Idle", "StopIdle", "Op", "Recover"},
             requested : Ops \cup {NoOp}, report : BOOLEAN, online : BOOLEAN,
             answer : {KErrNone, 1, KErrCancel, KErrNoMemory,
                       KErrImapServerFail}]
  BY <1>0 DEF Controllers
<1>. QED BY <1>0, <1>1, <1>2, <1>3, <1>4, <1>5, <1>6, <1>7 DEF TypeOK

\* The types: what the connection, its session and the controllers hold is what the code
\* declares, and none of them is ever told KErrImapBad.
THEOREM WorldTyped == Spec => [](Now \in World)
<1>1. Init => Now \in World
  BY InitTyped
<1>2. Now \in World /\ [Next]_vars => (Now \in World)'
  <2>1. ASSUME Now \in World, Next PROVE Now' \in World
    BY <2>1, WorldClosed, NextStays
  <2>2. ASSUME Now \in World, UNCHANGED vars PROVE Now' \in World
    BY <2>2, StutterTyped
  <2>. QED BY <2>1, <2>2
<1>. QED BY <1>1, <1>2, PTL DEF Spec

\* The type invariant of the connection, for any mailboxes and any number of tags.
THEOREM ImapTypeCorrect == Spec => []TypeOK
<1>1. Now \in World => TypeOK
  BY WorldIsTyped
<1>. QED BY <1>1, WorldTyped, PTL
=============================================================================
