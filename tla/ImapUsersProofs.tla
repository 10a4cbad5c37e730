-------------------------- MODULE ImapUsersProofs --------------------------
(***************************************************************************)
(* Proofs about ImapIdle, third part: the users of the session. The        *)
(* session tells one caller at a time how its command ended, and four      *)
(* objects use it: the idle controller, with its folder and its child, the *)
(* operation of the client, and the protocol controller that flushes what  *)
(* a cancel leaves. The invariant, Users, says for each state of the       *)
(* controllers whose turn it is and what he may find on the session: his   *)
(* own command in progress (For), its end (Told), the IDLE that nobody     *)
(* waits for (Held), what is left of a command to flush (Flushes), or      *)
(* nothing (Free). Every operation of the session keeps it for the caller, *)
(* and every RunL for the object that runs.                                *)
(* Last, what each step does with the turns is a step of ImapPrimary.      *)
(***************************************************************************)
EXTENDS ImapIdleProofs

-----------------------------------------------------------------------------
(* The users of the session                                                *)

\* The reader waits for the scheduler or for data; the answer to DONE is due.
Reading(r) == r.state \in {"Read", "ReceivedData"}
Due(cmd)   == cmd.kind = "Idle" /\ cmd.idle = "WaitDone"

\* The time limit on the reader is asked for and runs only while that answer is due,
\* and until the next receive there is nothing to read that could be it.
Limited(s, r) ==
  /\ r.limit => /\ Due(s.cmd) /\ s.input = <<>> /\ Quiet(r.buf)
                /\ r.state = "ReceivedData" => r.ready
  /\ r.timer => Due(s.cmd)
  /\ s.pending = "IdleDone" => ~Reading(r) /\ Quiet(r.buf) /\ Quiet(s.input)

\* Nobody waits for the session: it has no command, is in IDLE, was cancelled or is closed.
Calm(s, r) ==
  /\ s.open /\ s.report = "None" /\ ~s.async /\ ~s.flushTimer
  /\ r.state = "Idle" /\ ~r.ready /\ ~r.failed /\ ~r.timer /\ Limited(s, r)
Resting(s, r) == Calm(s, r) /\ s.cmd = NoCmd
Held(s, r)    == Calm(s, r) /\ s.cmd.kind = "Idle" /\ s.cmd.idle = "WaitResponse"
Left(s, r)    == Calm(s, r) /\ s.cmd # NoCmd /\ s.cmd.flushing
Lost(s, r)    == /\ ~s.open /\ s.report = "None" /\ ~s.async /\ ~s.flushTimer
                 /\ s.cmd = NoCmd /\ s.pending = "None"
                 /\ r.state = "Closed" /\ ~r.ready /\ ~r.timer

\* Somebody does.
Serving(s, r) ==
  /\ s.open /\ s.report # "None" /\ s.cmd # NoCmd /\ Limited(s, r) /\ r.state # "Closed"
  /\ s.async => ~Reading(r)
  /\ ~Reading(r) => s.async /\ ~r.ready /\ ~r.failed /\ ~r.timer /\ ~s.flushTimer
  /\ Reading(r) => s.input = <<>>
  /\ s.flushTimer => s.cmd.flushing

\* A new command may be started, or is refused because the connection is closed.
Over(s, r) == Resting(s, r) \/ Lost(s, r)
Free(s, r) == Over(s, r) /\ (s.folder # NoFolder => s.server = "Selected")
\* Not in IDLE
Off(s, r)  == Over(s, r) \/ Left(s, r)

\* A command has been sent, and its answer has not been read.
Using(s) == s.cmd.kind \notin {"None", "Wait"}

\* What an active object waits for, or has been told.
Pending(w, o)  == w.ao[o].status = KRequestPending
Waits(w, o)    == Pending(w, o) /\ Serving(w.ses, w.rd) /\ w.ses.report = o
For(w, o, kind) == Waits(w, o) /\ ~w.ses.cmd.flushing /\ w.ses.cmd.kind = kind
\* What is left of a Wait is destroyed as soon as it is flushed.
Flushes(w, o)  == Waits(w, o) /\ w.ses.cmd.flushing /\ w.ses.cmd.kind # "Wait"
Told(w, o)     == /\ ~Pending(w, o) /\ Over(w.ses, w.rd)
                  /\ ~Fatal(w.ao[o].status) => Free(w.ses, w.rd)
\* The answer of a compound operation, to which an error is no more than an error.
JobTold(w, o)  == /\ ~Pending(w, o) /\ Over(w.ses, w.rd)
                  /\ w.ao[o].status = KErrNone => Free(w.ses, w.rd)
\* The answer to a flush: after a timeout the command is still there.
Settled(w, o)  == /\ ~Pending(w, o) /\ Off(w.ses, w.rd)
                  /\ ~Fatal(w.ao[o].status) => Free(w.ses, w.rd)
Still(w, o)    == ~w.ao[o].active

FolderUses(w) == w.ao["Folder"].active /\ (For(w, "Folder", "Fetch") \/ Told(w, "Folder"))
JobUses(w, o) ==
  /\ w.ao[o].active /\ w.job[o].report /\ w.job[o].op.box \in Boxes
  /\ \/ w.job[o].step = "Start" /\ w.ao[o].status = KErrNone /\ Free(w.ses, w.rd)
     \/ w.job[o].step = "Select" /\ For(w, o, "Select") /\ w.ses.folder.box = w.job[o].op.box
     \/ /\ w.job[o].step = "Select" /\ Told(w, o)
        /\ w.ao[o].status = KErrNone => w.ses.folder.box = w.job[o].op.box
     \/ w.job[o].step = "Fetch" /\ (For(w, o, "Fetch") \/ (Told(w, o) /\ Free(w.ses, w.rd)))

InInbox(w) == w.ses.folder.box \in {Inbox, NoBox}
IdleUses(w) ==
  /\ w.ao["Idle"].active
  /\ w.idle.state # "StartingIdle" => InInbox(w)
  /\ w.idle.state # "Synchronising" => Still(w, "Folder")
  /\ w.idle.state # "SyncFetching" => Still(w, "Child")
  /\ w.idle.timer => w.idle.state = "Idling"
  /\ \/ w.idle.state = "StartingIdle" /\ w.ao["Idle"].status = KErrNone /\ Free(w.ses, w.rd)
     \/ /\ w.idle.state = "SelectingInbox"
        /\ For(w, "Idle", "Select") \/ Told(w, "Idle")
     \/ /\ w.idle.state = "Synchronising"
        /\ \/ Pending(w, "Idle") /\ FolderUses(w)
           \/ Still(w, "Folder") /\ Told(w, "Idle")
     \/ /\ w.idle.state = "SyncFetching"
        /\ \/ Pending(w, "Idle") /\ JobUses(w, "Child") /\ w.job["Child"].op.box = Inbox
           \/ Still(w, "Child") /\ JobTold(w, "Idle")
     \/ /\ w.idle.state = "WaitingForContinuation"
        /\ \/ For(w, "Idle", "Idle") /\ w.ses.cmd.idle = "WaitContinue"
           \/ w.ao["Idle"].status = KErrNone /\ Held(w.ses, w.rd)
           \/ w.ao["Idle"].status # KErrNone /\ Told(w, "Idle")
     \/ /\ w.idle.state = "Idling"
        /\ \/ For(w, "Idle", "Idle") /\ w.ses.cmd.idle = "WaitResponse"
           \/ w.ao["Idle"].status = KErrNone /\ Held(w.ses, w.rd)
           \/ w.ao["Idle"].status # KErrNone /\ Told(w, "Idle")
     \/ /\ w.idle.state = "WaitingForServerEvent"
        /\ For(w, "Idle", "Wait") \/ Told(w, "Idle")
     \/ /\ w.idle.state = "WaitingForDone"
        /\ \/ For(w, "Idle", "Idle") /\ w.ses.cmd.idle = "WaitDone"
           \/ Told(w, "Idle")
     \/ /\ w.idle.state = "WaitingForFlush"
        /\ Flushes(w, "Idle") \/ Settled(w, "Idle")

\* Nobody of the idle controller is active.
NobodyIdle(w) == Still(w, "Idle") /\ Still(w, "Folder") /\ Still(w, "Child") /\ ~w.idle.timer

\* Who uses the connection, by what the protocol controller is doing.
Users(w) ==
  \/ /\ w.pc.op = "Idle" /\ ~w.pc.report /\ Still(w, "Pc")
     /\ Still(w, "Op") /\ w.job["Op"] = NoJob /\ ~w.idle.report /\ ~w.idle.stopping
     /\ IdleUses(w) \/ (NobodyIdle(w) /\ Free(w.ses, w.rd))
  \/ /\ w.pc.op = "StopIdle" /\ w.pc.report /\ w.ao["Pc"].active
     /\ Still(w, "Op") /\ w.job["Op"].step = "None" /\ w.job["Op"].op.box \in Boxes
     /\ \/ /\ w.idle.report /\ w.idle.stopping /\ Pending(w, "Pc") /\ IdleUses(w)
           /\ w.idle.state \notin {"Idling", "SyncFetching", "WaitingForServerEvent"}
        \/ ~w.idle.report /\ NobodyIdle(w) /\ Settled(w, "Pc")
  \/ /\ w.pc.op = "Op" /\ NobodyIdle(w) /\ ~w.idle.report
     /\ \/ /\ ~w.pc.report /\ Still(w, "Pc") /\ Still(w, "Op") /\ w.job["Op"] = NoJob
           /\ Free(w.ses, w.rd)
        \/ /\ w.pc.report /\ w.ao["Pc"].active
           /\ \/ Pending(w, "Pc") /\ JobUses(w, "Op")
              \/ /\ ~w.job["Op"].report /\ w.job["Op"].step # "Start" /\ Still(w, "Op")
                 /\ JobTold(w, "Pc")
  \/ /\ w.pc.op = "Recover" /\ ~w.pc.report /\ w.ao["Pc"].active
     /\ NobodyIdle(w) /\ ~w.idle.report /\ Still(w, "Op") /\ w.job["Op"] = NoJob
     /\ Flushes(w, "Pc") \/ Settled(w, "Pc")

-----------------------------------------------------------------------------
(* Requests that no assertion stops                                        *)

\* A session that is free, or closed, is not in use.
LEMMA OverUnused == ASSUME NEW s, NEW r, Over(s, r) PROVE ~Using(s)
  BY FreeCommand DEF Over, Resting, Lost, Using

LEMMA NoFaultName == "None" \notin Assertions /\ KRequestPending \notin Codes
  BY DEF Assertions, Codes, KRequestPending, KErrNone, KErrImapNo, KErrImapClosed,
         KErrImapFlushTimeout, KErrImapCorrupt, KErrCancel, KErrNoMemory

LEMMA AsyncSafe ==
  ASSUME NEW w \in World, w.fault = "None", ~w.ses.async
  PROVE  ProcessInputBufferAsync(w).fault = "None"
<1>1. ProcessInputBufferAsync(w) = [w EXCEPT !.ses.async = TRUE]
  BY DEF ProcessInputBufferAsync, Expect
<1>. QED BY <1>1 DEF World

LEMMA ReadReqSafe ==
  ASSUME NEW w \in World, w.fault = "None", w.rd.state = "Idle", NEW limit
  PROVE  ReadReq(w, limit).fault = "None"
<1> DEFINE st == IF w.rd.buf = <<>> THEN "Read" ELSE "ReceivedData"
<1>1. Expect(w, w.rd.state = "Idle", "BadInputStreamState") = w
  BY DEF Expect
<1>2. ReadReq(w, limit) = [w EXCEPT !.rd.state = st, !.rd.ready = TRUE, !.rd.limit = limit \/ @]
  BY <1>1 DEF ReadReq
<1> HIDE DEF st
<1>. QED BY <1>2 DEF World

LEMMA RequestReadDataSafe ==
  ASSUME NEW w \in World, w.fault = "None", ~w.ses.async, w.rd.state = "Idle"
  PROVE  RequestReadData(w).fault = "None"
<1> DEFINE done == w.ses.pending = "IdleDone"
           p == IF done THEN "None" ELSE w.ses.pending
           u == [w EXCEPT !.ses.pending = p]
           r == ReadReq(u, done)
           b == r.ses.flushTimer \/ w.ses.state = "Flushing"
<1>1. RequestReadData(w) = [r EXCEPT !.ses.flushTimer = b]
  BY DEF RequestReadData, Expect
<1>2. p \in {"None", "Select", "IdleEnter", "IdleWait", "IdleDone"} /\ done \in BOOLEAN
  BY SessionFields
<1> HIDE DEF p, done
<1>3. u \in World
  BY <1>2, SetPending
<1>4. u.fault = "None" /\ u.rd.state = "Idle"
  BY DEF World
<1> HIDE DEF u
<1>5. r \in World /\ r.fault = "None"
  BY <1>2, <1>3, <1>4, ReadReqSafe, ReadReqTyped
<1> HIDE DEF r, b
<1>. QED BY <1>1, <1>5 DEF World

LEMMA FeedSafe ==
  ASSUME NEW w \in World, w.fault = "None", ~w.ses.async, w.rd.state = "Idle"
  PROVE  Feed(w).fault = "None"
  BY AsyncSafe, RequestReadDataSafe DEF Feed

LEMMA CanStartSafe ==
  ASSUME NEW w, w.ses.cmd = NoCmd, ~IsReading(w), w.ses.state = "Normal"
  PROVE  CanStart(w) = w
  BY DEF CanStart, Expect

LEMMA StartSafe ==
  ASSUME NEW w \in World, NEW who \in Objects, NEW kind \in {"Select", "Fetch", "Idle", "Wait"},
         NEW verb, kind = "Wait" \/ verb \in Verbs, NEW box \in Boxes \cup {NoBox},
         w.fault = "None", w.ses.cmd = NoCmd, w.ses.state = "Normal", ~w.ses.async,
         w.rd.state = "Idle"
  PROVE  StartCommandL(w, who, kind, verb, box).fault = "None"
<1> DEFINE t == NextTag(w.ses.tag)
           k == [NoCmd EXCEPT !.kind = kind, !.tag  = IF kind = "Wait" THEN 0 ELSE t,
                              !.idle = IF kind = "Idle" THEN "WaitContinue" ELSE @]
           s == [w EXCEPT !.ses.cmd = k, !.ses.tag = t]
           f == IF kind = "Wait" THEN s ELSE Send(s, verb, box)
<1>1. CanStart(w) = w
  BY CanStartSafe DEF IsReading
<1>2. StartCommandL(w, who, kind, verb, box) = Queue(Feed(f), who)
  BY <1>1 DEF StartCommandL
<1>3. t \in 1 .. TagModulus /\ TagModulus \in Nat
  BY SessionFields, NextTagTyped, SessionAssumption
<1> HIDE DEF t
<1>4. k \in Commands
  <2> DEFINE tt == IF kind = "Wait" THEN 0 ELSE t
             ii == IF kind = "Idle" THEN "WaitContinue" ELSE "None"
  <2>1. NoCmd.idle = "None"
    BY DEF NoCmd
  <2>2. k = [NoCmd EXCEPT !.kind = kind, !.tag = tt, !.idle = ii]
    BY <2>1
  <2>3. tt \in 0 .. TagModulus
    BY <1>3
  <2>4. ii \in {"None", "WaitContinue", "WaitResponse", "WaitDone"}
    OBVIOUS
  <2> HIDE DEF tt, ii, k
  <2>5. k = [kind |-> kind, tag |-> tt, flushing |-> FALSE, idle |-> ii]
    BY <2>2 DEF NoCmd
  <2>. QED BY <2>3, <2>4, <2>5 DEF Commands
<1> HIDE DEF k
<1>5. s \in World
  <2>1. t \in 0 .. TagModulus
    BY <1>3
  <2>. QED BY <1>4, <2>1, SetCmd, SetTag
<1>6. s.fault = "None" /\ ~s.ses.async /\ s.rd.state = "Idle"
  BY DEF World, Sessions
<1> HIDE DEF s
<1>7. f \in World /\ f.fault = "None" /\ ~f.ses.async /\ f.rd.state = "Idle"
  <2>1. CASE kind = "Wait"
    BY <1>5, <1>6, <2>1
  <2>2. CASE kind # "Wait"
    BY <1>5, <1>6, <2>2, SendEffect
  <2>. QED BY <2>1, <2>2
<1> HIDE DEF f
<1>8. Feed(f).fault = "None" /\ Feed(f) \in World
  BY <1>7, FeedSafe, FeedTyped
<1>. QED BY <1>2, <1>8, QueueEffect

LEMMA FreeSafe ==
  ASSUME NEW w \in World, w.ses.pending = "None"
  PROVE  NoOperation(w) = w /\ LoggedIn(w) = w /\ LoggedIn(NoOperation(w)) = w
<1>1. w.ses.server # "None"
  BY SessionFields
<1>. QED BY <1>1 DEF NoOperation, LoggedIn, Expect

LEMMA IdleSafe ==
  ASSUME NEW w \in World, w.ses.pending \in {"IdleEnter", "IdleWait"}, w.ses.state = "Normal"
  PROVE  InIdleMode(w) = w
<1>1. w.ses.server # "None"
  BY SessionFields
<1>. QED BY <1>1 DEF InIdleMode, LoggedIn, Expect

-----------------------------------------------------------------------------
(* What the session tells those who use it                                 *)

\* From a to b no more than the status of who has changed, to x.
Marked(b, a, who, x) ==
  /\ b[who].status = x
  /\ \A o \in Objects : b[o].active = a[o].active /\ (o # who => b[o].status = a[o].status)

LEMMA Marks ==
  ASSUME NEW a \in ActiveObjects, NEW who \in Objects, NEW x, NEW b,
         b = [a EXCEPT ![who].status = x]
  PROVE  Marked(b, a, who, x)
  BY DEF ActiveObjects, Marked

LEMMA MarkedTwice ==
  ASSUME NEW a, NEW b, NEW c, NEW who, NEW x, NEW y, Marked(b, a, who, x), Marked(c, b, who, y)
  PROVE  Marked(c, a, who, y)
  BY DEF Marked

LEMMA AnsweredMarks ==
  ASSUME NEW a \in ActiveObjects, NEW who \in Objects, NEW x
  PROVE  Marked(Answered(a, who, x), a, who, x)
<1>1. who # "None"
  BY DEF Objects
<1>2. Answered(a, who, x) = [a EXCEPT ![who].status = x]
  BY <1>1 DEF Answered
<1> DEFINE b == Answered(a, who, x)
<1>3. b = [a EXCEPT ![who].status = x]
  BY <1>2
<1> HIDE DEF b
<1>4. Marked(b, a, who, x)
  BY <1>3, Marks
<1>. QED BY <1>4 DEF b

\* From w to v no more than the session and the status of who has changed.
Only(v, w, who) ==
  /\ v \in Good /\ v.fault = "None" /\ Rest(v, w)
  /\ Marked(v.ao, w.ao, who, v.ao[who].status)

\* Two sessions that nobody who waits for them tells apart.
Akin(s, t) ==
  /\ s.open = t.open /\ s.cmd = t.cmd /\ s.input = t.input /\ s.async = t.async
  /\ s.report = t.report /\ s.flushTimer = t.flushTimer

LEMMA AkinServes ==
  ASSUME NEW s, NEW t, NEW r, Akin(s, t), Serving(t, r), s.pending # "IdleDone"
  PROVE  Serving(s, r)
  BY DEF Akin, Serving, Limited, Calm

LEMMA RestingFields ==
  ASSUME NEW w \in Good, w.fault = "None", Resting(w.ses, w.rd)
  PROVE  /\ w.ses.pending = "None" /\ w.ses.state = "Normal" /\ ~w.rd.limit
         /\ Free(w.ses, w.rd)
<1>1. w \in World /\ w.ses.open /\ w.ses.cmd = NoCmd
  BY DEF Good, Resting, Calm
<1>2. Shaped(w.ses.cmd, w.ses.state, w.ses.pending, w.ses.folder, w.ses.server)
  BY <1>1 DEF Good, Sound
<1>3. w.ses.pending = "None" /\ w.ses.state = "Normal"
      /\ (w.ses.folder # NoFolder => w.ses.server = "Selected")
  BY <1>1, <1>2, SessionFields, FreeCommand DEF Shaped
<1>4. ~w.rd.limit
  BY <1>1, FreeCommand DEF Resting, Calm, Limited, Due
<1>. QED BY <1>3, <1>4 DEF Free, Over

LEMMA QueueGives ==
  ASSUME NEW w \in Good, w.ses.report = "None", NEW who \in Objects
  PROVE  LET v == Queue(w, who)
         IN /\ v \in Good /\ v.fault = w.fault /\ v.rd = w.rd /\ v.net = w.net /\ Rest(v, w)
            /\ v.ses = [w.ses EXCEPT !.report = who] /\ Marked(v.ao, w.ao, who, KRequestPending)
<1> DEFINE v == Queue(w, who)
<1>1. w \in World /\ v \in Good /\ w.ao \in ActiveObjects
  BY GoodQueue, WorldFields DEF Good
<1>2. /\ v.fault = w.fault /\ v.rd = w.rd /\ v.net = w.net /\ Rest(v, w)
      /\ v.ses = [w.ses EXCEPT !.report = who]
      /\ v.ao = [w.ao EXCEPT ![who].status = KRequestPending]
  BY <1>1, QueueEffect
<1> HIDE DEF v
<1>3. Marked(v.ao, w.ao, who, KRequestPending)
  BY <1>1, <1>2, Marks
<1>. QED BY <1>1, <1>2, <1>3 DEF v

LEMMA CompleteGives ==
  ASSUME NEW w \in Good, NEW who \in Objects, w.ses.report = who, NEW err \in Codes
  PROVE  LET v == Complete(w, err)
         IN /\ v \in Good /\ v.fault = w.fault /\ v.rd = w.rd /\ v.net = w.net /\ Rest(v, w)
            /\ v.ses = [w.ses EXCEPT !.report = "None"] /\ Marked(v.ao, w.ao, who, err)
<1> DEFINE v == Complete(w, err)
<1>1. w \in World /\ v \in Good /\ w.ao \in ActiveObjects
  BY GoodComplete, WorldFields DEF Good
<1>2. /\ v.fault = w.fault /\ v.rd = w.rd /\ v.net = w.net /\ Rest(v, w)
      /\ v.ses = [w.ses EXCEPT !.report = "None"] /\ v.ao = Answered(w.ao, who, err)
  BY <1>1, CompleteAnswers
<1> HIDE DEF v
<1>3. Marked(v.ao, w.ao, who, err)
  BY <1>1, <1>2, AnsweredMarks
<1>. QED BY <1>1, <1>2, <1>3 DEF v

\* A request that is answered at once.
LEMMA InstantGives ==
  ASSUME NEW w \in Good, w.fault = "None", w.ses.report = "None", NEW who \in Objects,
         NEW err \in Codes
  PROVE  LET v == Complete(Queue(w, who), err)
         IN Only(v, w, who) /\ v.ses = w.ses /\ v.rd = w.rd /\ v.ao[who].status = err
<1> DEFINE q == Queue(w, who)
           v == Complete(q, err)
<1>1. w.ses \in Sessions
  BY WorldFields DEF Good
<1>2. /\ q \in Good /\ q.fault = w.fault /\ q.rd = w.rd /\ Rest(q, w)
      /\ q.ses = [w.ses EXCEPT !.report = who] /\ Marked(q.ao, w.ao, who, KRequestPending)
  BY QueueGives
<1> HIDE DEF q
<1>3. q.ses.report = who
  BY <1>1, <1>2 DEF Sessions
<1>4. /\ v \in Good /\ v.fault = q.fault /\ v.rd = q.rd /\ Rest(v, q)
      /\ v.ses = [q.ses EXCEPT !.report = "None"] /\ Marked(v.ao, q.ao, who, err)
  BY <1>2, <1>3, CompleteGives
<1> HIDE DEF v
<1>5. v.ses = w.ses
  <2>1. v.ses = [w.ses EXCEPT !.report = "None"]
    BY <1>1, <1>2, <1>4 DEF Sessions
  <2>2. [w.ses EXCEPT !.report = "None"] = w.ses
    BY <1>1 DEF Sessions
  <2>. QED BY <2>1, <2>2
<1>6. Marked(v.ao, w.ao, who, err) /\ v.ao[who].status = err
  <2>1. Marked(v.ao, w.ao, who, err)
    BY <1>2, <1>4, MarkedTwice
  <2>. QED BY <2>1 DEF Marked
<1>7. Only(v, w, who)
  BY <1>2, <1>4, <1>6 DEF Only, Rest
<1>8. Only(v, w, who) /\ v.ses = w.ses /\ v.rd = w.rd /\ v.ao[who].status = err
  BY <1>2, <1>4, <1>5, <1>6, <1>7
<1>. QED BY <1>8 DEF v, q
\* v is w after a session that was free has started a command.
Begun(v, w, who, kind) ==
  /\ v \in World /\ v.fault = "None" /\ Rest(v, w)
  /\ v.ses.cmd.kind = kind /\ ~v.ses.cmd.flushing
  /\ v.ses.cmd.idle = IF kind = "Idle" THEN "WaitContinue" ELSE "None"
  /\ v.ses.report = who /\ v.ses.pending = w.ses.pending /\ v.ses.folder = w.ses.folder
  /\ Serving(v.ses, v.rd) /\ Marked(v.ao, w.ao, who, KRequestPending)

\* A session that has no command and does not read starts one.
LEMMA FedServes ==
  ASSUME NEW s \in Sessions, NEW r \in Readers, NEW who \in Objects,
         NEW kind \in {"Select", "Fetch", "Idle", "Wait"},
         s.open, s.report = "None", ~s.async, ~s.flushTimer, s.state = "Normal",
         s.pending # "IdleDone", NextTag(s.tag) \in 1 .. TagModulus,
         r.state = "Idle", ~r.ready, ~r.failed, ~r.timer, ~r.limit
  PROVE  LET t == StartedSession(s, who, kind)
             q == FedReader(s, r)
         IN /\ Serving(t, q) /\ t.report = who /\ t.pending = s.pending /\ t.folder = s.folder
            /\ t.cmd = Command(kind, NextTag(s.tag))
<1> DEFINE n == NextTag(s.tag)
           c == Command(kind, n)
           b == [s EXCEPT !.cmd = c, !.tag = n]
           f == FedSession(b)
           t == [f EXCEPT !.report = who]
           q == FedReader(s, r)
<1>1. StartedSession(s, who, kind) = t
  BY DEF StartedSession
<1>2. c.kind = kind /\ c # NoCmd /\ "None" \notin Objects /\ ~c.flushing
  BY DEF Command, NoCmd, Objects
<1>3. c \in Commands /\ n \in 0 .. TagModulus
  <2>1. n \in 0 .. TagModulus
    BY SessionAssumption
  <2>2. (IF kind = "Wait" THEN 0 ELSE n) \in 0 .. TagModulus
    BY <2>1, SessionAssumption
  <2> HIDE DEF n
  <2>. QED BY <2>1, <2>2 DEF Command, Commands
<1> HIDE DEF c, n
<1>4. /\ b \in Sessions /\ b.open /\ b.report = "None" /\ ~b.async /\ ~b.flushTimer
      /\ b.state = "Normal" /\ b.pending = s.pending /\ b.folder = s.folder /\ b.cmd = c
      /\ b.input = s.input
  BY <1>3 DEF Sessions
<1> HIDE DEF b
<1>5. CASE s.input # <<>>
  <2>1. f = [b EXCEPT !.async = TRUE] /\ q = r
    BY <1>4, <1>5 DEF FedSession, FedReader
  <2> HIDE DEF f, q
  <2>2. /\ t.open /\ t.report = who /\ t.async /\ ~t.flushTimer /\ t.cmd = c
        /\ t.pending = s.pending /\ t.folder = s.folder
    BY <1>4, <2>1 DEF Sessions
  <2> HIDE DEF t
  <2>3. Serving(t, q)
    BY <1>2, <2>1, <2>2 DEF Serving, Limited, Reading
  <2>. QED BY <1>1, <2>2, <2>3 DEF c, n, q
<1>6. CASE s.input = <<>>
  <2>1. f = Asked(b) /\ q = ReadWith(r, FALSE)
    BY <1>4, <1>6 DEF FedSession, FedReader
  <2>2. q.state \in {"Read", "ReceivedData"} /\ ~q.limit /\ ~q.timer
    BY <2>1 DEF ReadWith, Readers
  <2> HIDE DEF q
  <2>3. f = [b EXCEPT !.pending = b.pending, !.flushTimer = FALSE]
    BY <1>4, <2>1 DEF Asked, Sessions
  <2> HIDE DEF f
  <2>4. /\ t.open /\ t.report = who /\ ~t.async /\ ~t.flushTimer /\ t.cmd = c
        /\ t.pending = s.pending /\ t.folder = s.folder /\ t.input = s.input
    BY <1>4, <2>3 DEF Sessions
  <2> HIDE DEF t
  <2>5. Serving(t, q)
    BY <1>2, <1>6, <2>2, <2>4 DEF Serving, Limited, Reading
  <2>. QED BY <1>1, <2>4, <2>5 DEF c, n, q
<1>. QED BY <1>5, <1>6

LEMMA Begins ==
  ASSUME NEW w \in World, NEW who \in Objects, NEW kind \in {"Select", "Fetch", "Idle", "Wait"},
         NEW verb, kind = "Wait" \/ verb \in Verbs, NEW box \in Boxes \cup {NoBox},
         w.fault = "None", Resting(w.ses, w.rd), ~w.rd.limit, w.ses.state = "Normal",
         w.ses.pending # "IdleDone"
  PROVE  Begun(StartCommandL(w, who, kind, verb, box), w, who, kind)
<1> DEFINE v == StartCommandL(w, who, kind, verb, box)
<1>1. /\ w.ses \in Sessions /\ w.rd \in Readers /\ w.ao \in ActiveObjects
      /\ w.ses.open /\ w.ses.report = "None" /\ ~w.ses.async /\ ~w.ses.flushTimer
      /\ w.ses.cmd = NoCmd
      /\ w.rd.state = "Idle" /\ ~w.rd.ready /\ ~w.rd.failed /\ ~w.rd.timer
  BY WorldFields DEF Resting, Calm
<1>2. v.fault = "None"
  BY <1>1, StartSafe
<1>3. HasStarted(v, w, who, kind, verb, box)
  BY <1>2, StartEffect
<1> HIDE DEF v
<1>4. /\ v \in World /\ Rest(v, w) /\ NextTag(w.ses.tag) \in 1 .. TagModulus
      /\ v.ses = StartedSession(w.ses, who, kind) /\ v.rd = FedReader(w.ses, w.rd)
      /\ v.ao = [w.ao EXCEPT ![who].status = KRequestPending]
  BY <1>1, <1>3 DEF HasStarted, Asking
<1>5. /\ Serving(v.ses, v.rd) /\ v.ses.report = who /\ v.ses.pending = w.ses.pending
      /\ v.ses.folder = w.ses.folder /\ v.ses.cmd = Command(kind, NextTag(w.ses.tag))
  BY <1>1, <1>4, FedServes
<1>6. /\ v.ses.cmd.kind = kind /\ ~v.ses.cmd.flushing
      /\ v.ses.cmd.idle = IF kind = "Idle" THEN "WaitContinue" ELSE "None"
  BY <1>5, CommandFields
<1>7. Marked(v.ao, w.ao, who, KRequestPending)
  BY <1>1, <1>4, Marks
<1>8. Begun(v, w, who, kind)
  BY <1>2, <1>4, <1>5, <1>6, <1>7 DEF Begun
<1>. QED BY <1>8 DEF v

LEMMA CodeFacts ==
  /\ Fatal(KErrImapClosed) /\ Fatal(KErrImapCorrupt) /\ Fatal(KErrCancel)
  /\ Fatal(KErrImapFlushTimeout) /\ Fatal(KErrNoMemory) /\ ~Fatal(KErrNone) /\ ~Fatal(KErrImapNo)
  /\ \A c \in Codes : c # KRequestPending
  /\ KErrNone \notin {KErrImapNo, KErrImapClosed, KErrImapCorrupt, KErrCancel, KErrNoMemory,
                      KErrImapFlushTimeout}
  BY DEF Fatal, Codes, KRequestPending, KErrNone, KErrImapNo, KErrImapBad, KErrImapClosed,
         KErrImapFlushTimeout, KErrImapCorrupt, KErrCancel, KErrNoMemory

\* The connection was closed.
LEMMA ClosedGives ==
  ASSUME NEW w \in Good, w.fault = "None", Lost(w.ses, w.rd), NEW who \in Objects
  PROVE  LET v == CompleteClosed(w, who)
         IN /\ Only(v, w, who) /\ v.ses = w.ses /\ v.rd = w.rd
            /\ v.ao[who].status = KErrImapClosed /\ Told(v, who)
<1> DEFINE v == CompleteClosed(w, who)
<1>1. w.ses.report = "None" /\ KErrImapClosed \in Codes
  BY CodesAreStatuses DEF Lost
<1>2. v = Complete(Queue(w, who), KErrImapClosed)
  BY DEF CompleteClosed
<1>3. Only(v, w, who) /\ v.ses = w.ses /\ v.rd = w.rd /\ v.ao[who].status = KErrImapClosed
  BY <1>1, <1>2, InstantGives
<1> HIDE DEF v
<1>4. Told(v, who)
  BY <1>1, <1>3, CodeFacts DEF Told, Pending, Over
<1>5. /\ Only(v, w, who) /\ v.ses = w.ses /\ v.rd = w.rd
      /\ v.ao[who].status = KErrImapClosed /\ Told(v, who)
  BY <1>3, <1>4
<1>. QED BY <1>5 DEF v

LEMMA BegunFor ==
  ASSUME NEW w, NEW v \in Good, NEW who, NEW kind, Begun(v, w, who, kind)
  PROVE  /\ Only(v, w, who) /\ For(v, who, kind) /\ v.ses.folder = w.ses.folder
         /\ v.ses.cmd.idle = IF kind = "Idle" THEN "WaitContinue" ELSE "None"
<1>1. Marked(v.ao, w.ao, who, KRequestPending)
  BY DEF Begun
<1>2. v.ao[who].status = KRequestPending
  BY <1>1 DEF Marked
<1>3. Only(v, w, who)
  BY <1>1, <1>2 DEF Only, Begun
<1>4. For(v, who, kind)
  BY <1>2 DEF Begun, For, Waits, Pending
<1>. QED BY <1>3, <1>4 DEF Begun

\* A session that is free.
LEMMA FreeFields ==
  ASSUME NEW w \in Good, w.fault = "None", Free(w.ses, w.rd)
  PROVE  /\ w \in World /\ w.ses.pending = "None" /\ LoggedIn(NoOperation(w)) = w
         /\ NoOperation(w) = w
         /\ w.ses.open => Resting(w.ses, w.rd) /\ w.ses.state = "Normal" /\ ~w.rd.limit
         /\ ~w.ses.open => Lost(w.ses, w.rd)
<1>1. w \in World
  BY DEF Good
<1>2. CASE Resting(w.ses, w.rd)
  <2>1. w.ses.open
    BY <1>2 DEF Resting, Calm
  <2>. QED BY <1>1, <1>2, <2>1, RestingFields, FreeSafe
<1>3. CASE Lost(w.ses, w.rd)
  <2>1. ~w.ses.open /\ w.ses.pending = "None"
    BY <1>3 DEF Lost
  <2>. QED BY <1>1, <1>3, <2>1, FreeSafe
<1>. QED BY <1>2, <1>3 DEF Free, Over

LEMMA FetchGives ==
  ASSUME NEW w \in Good, w.fault = "None", Free(w.ses, w.rd), w.ses.folder # NoFolder,
         NEW who \in Objects
  PROVE  LET v == FetchL(w, who)
         IN /\ Only(v, w, who) /\ v.ses.folder = w.ses.folder
            /\ For(v, who, "Fetch") \/ (Told(v, who) /\ Free(v.ses, v.rd))
<1> DEFINE v == FetchL(w, who)
<1>1. Expect(w, w.ses.server = "Selected", "NotSelected") = w
  BY DEF Free, Expect
<1>2. v = IF ~w.ses.open THEN CompleteClosed(w, who)
          ELSE StartCommandL(w, who, "Fetch", "fetch", NoBox)
  BY <1>1, FreeFields DEF FetchL
<1>3. v \in Good
  BY GoodFetch
<1>4. CASE ~w.ses.open
  <2>1. v = CompleteClosed(w, who) /\ Lost(w.ses, w.rd)
    BY <1>2, <1>4, FreeFields
  <2>2. Only(v, w, who) /\ v.ses = w.ses /\ v.rd = w.rd /\ Told(v, who)
    BY <2>1, ClosedGives
  <2> HIDE DEF v
  <2>. QED BY <2>2 DEF v
<1>5. CASE w.ses.open
  <2>1. /\ w \in World /\ Resting(w.ses, w.rd) /\ ~w.rd.limit /\ w.ses.state = "Normal"
        /\ w.ses.pending = "None"
    BY <1>5, FreeFields
  <2>2. Begun(StartCommandL(w, who, "Fetch", "fetch", NoBox), w, who, "Fetch")
    BY <2>1, Begins DEF Verbs
  <2>3. Begun(v, w, who, "Fetch")
    BY <1>2, <1>5, <2>2
  <2> HIDE DEF v
  <2>4. Only(v, w, who) /\ For(v, who, "Fetch") /\ v.ses.folder = w.ses.folder
    BY <1>3, <2>3, BegunFor
  <2>. QED BY <2>4 DEF v
<1>. QED BY <1>4, <1>5

LEMMA WaitGives ==
  ASSUME NEW w \in Good, w.fault = "None", Free(w.ses, w.rd), NEW who \in Objects
  PROVE  LET v == WaitForServerEventL(w, who)
         IN /\ Only(v, w, who) /\ v.ses.folder = w.ses.folder
            /\ For(v, who, "Wait") \/ Told(v, who)
<1> DEFINE v == WaitForServerEventL(w, who)
<1>2. v = IF ~w.ses.open THEN CompleteClosed(w, who)
          ELSE StartCommandL(w, who, "Wait", "none", NoBox)
  BY FreeFields DEF WaitForServerEventL
<1>3. v \in Good
  BY GoodWaitForServerEvent
<1>4. CASE ~w.ses.open
  BY <1>2, <1>4, FreeFields, ClosedGives
<1>5. CASE w.ses.open
  <2>1. /\ w \in World /\ Resting(w.ses, w.rd) /\ ~w.rd.limit /\ w.ses.state = "Normal"
        /\ w.ses.pending = "None"
    BY <1>5, FreeFields
  <2>2. Begun(StartCommandL(w, who, "Wait", "none", NoBox), w, who, "Wait")
    BY <2>1, Begins
  <2>3. Begun(v, w, who, "Wait")
    BY <1>2, <1>5, <2>2
  <2> HIDE DEF v
  <2>4. Only(v, w, who) /\ For(v, who, "Wait") /\ v.ses.folder = w.ses.folder
    BY <1>3, <2>3, BegunFor
  <2>. QED BY <2>4 DEF v
<1>. QED BY <1>4, <1>5

\* Fields of the session that nobody who waits for it looks at.
LEMMA AkinPending ==
  ASSUME NEW s \in Sessions, NEW t, NEW x, t = [s EXCEPT !.pending = x]
  PROVE  Akin(t, s) /\ t.folder = s.folder /\ t.pending = x /\ t.state = s.state
  BY ZenonT(60) DEF Sessions, Akin

LEMMA AkinFolder ==
  ASSUME NEW s \in Sessions, NEW t, NEW x, t = [s EXCEPT !.folder = x]
  PROVE  Akin(t, s) /\ t.folder = x /\ t.pending = s.pending
  BY ZenonT(60) DEF Sessions, Akin

LEMMA AkinRests ==
  ASSUME NEW s, NEW t, NEW r, Akin(s, t), Resting(t, r), s.pending # "IdleDone"
  PROVE  Resting(s, r)
  BY DEF Akin, Resting, Limited, Calm

LEMMA PendingGives ==
  ASSUME NEW w \in World, NEW x
  PROVE  LET v == [w EXCEPT !.ses.pending = x]
         IN /\ v.fault = w.fault /\ v.rd = w.rd /\ v.ao = w.ao /\ Rest(v, w)
            /\ Akin(v.ses, w.ses) /\ v.ses.folder = w.ses.folder /\ v.ses.pending = x
            /\ v.ses.state = w.ses.state
<1> DEFINE v == [w EXCEPT !.ses.pending = x]
<1>1. /\ v.fault = w.fault /\ v.rd = w.rd /\ v.ao = w.ao /\ Rest(v, w)
      /\ v.ses = [w.ses EXCEPT !.pending = x] /\ w.ses \in Sessions
  BY DEF World, Rest
<1> HIDE DEF v
<1>2. /\ Akin(v.ses, w.ses) /\ v.ses.folder = w.ses.folder /\ v.ses.pending = x
      /\ v.ses.state = w.ses.state
  BY <1>1, AkinPending
<1>3. /\ v.fault = w.fault /\ v.rd = w.rd /\ v.ao = w.ao /\ Rest(v, w)
      /\ Akin(v.ses, w.ses) /\ v.ses.folder = w.ses.folder /\ v.ses.pending = x
      /\ v.ses.state = w.ses.state
  BY <1>1, <1>2
<1>. QED BY <1>3 DEF v

LEMMA FolderGives ==
  ASSUME NEW w \in World, NEW x
  PROVE  LET v == [w EXCEPT !.ses.folder = x]
         IN /\ v.fault = w.fault /\ v.rd = w.rd /\ v.ao = w.ao /\ Rest(v, w)
            /\ Akin(v.ses, w.ses) /\ v.ses.folder = x /\ v.ses.pending = w.ses.pending
<1> DEFINE v == [w EXCEPT !.ses.folder = x]
<1>1. /\ v.fault = w.fault /\ v.rd = w.rd /\ v.ao = w.ao /\ Rest(v, w)
      /\ v.ses = [w.ses EXCEPT !.folder = x] /\ w.ses \in Sessions
  BY DEF World, Rest
<1> HIDE DEF v
<1>2. Akin(v.ses, w.ses) /\ v.ses.folder = x /\ v.ses.pending = w.ses.pending
  BY <1>1, AkinFolder
<1>3. /\ v.fault = w.fault /\ v.rd = w.rd /\ v.ao = w.ao /\ Rest(v, w)
      /\ Akin(v.ses, w.ses) /\ v.ses.folder = x /\ v.ses.pending = w.ses.pending
  BY <1>1, <1>2
<1>. QED BY <1>3 DEF v

\* What was started keeps being waited for, whatever the session notes about it.
LEMMA AkinFor ==
  ASSUME NEW w, NEW b, NEW v \in Good, NEW who, NEW kind, Begun(b, w, who, kind),
         v.fault = b.fault, v.rd = b.rd, v.ao = b.ao, Rest(v, b), Akin(v.ses, b.ses),
         v.ses.pending # "IdleDone"
  PROVE  /\ Only(v, w, who) /\ For(v, who, kind) /\ v.ses.cmd = b.ses.cmd
<1>1. Marked(v.ao, w.ao, who, KRequestPending)
  BY DEF Begun
<1>2. v.ao[who].status = KRequestPending
  BY <1>1 DEF Marked
<1>3. Only(v, w, who)
  BY <1>1, <1>2 DEF Only, Begun, Rest
<1>4. Serving(v.ses, v.rd)
  BY AkinServes DEF Begun
<1>5. For(v, who, kind)
  BY <1>2, <1>4 DEF Begun, For, Waits, Pending, Akin
<1>. QED BY <1>3, <1>5 DEF Akin

LEMMA EnterIdleGives ==
  ASSUME NEW w \in Good, w.fault = "None", Free(w.ses, w.rd), NEW who \in Objects
  PROVE  LET v == EnterIdleL(w, who)
         IN /\ Only(v, w, who) /\ v.ses.folder = w.ses.folder
            /\ \/ For(v, who, "Idle") /\ v.ses.cmd.idle = "WaitContinue"
               \/ v.ao[who].status # KErrNone /\ Told(v, who)
<1> DEFINE v == EnterIdleL(w, who)
           b == StartCommandL(w, who, "Idle", "idle", NoBox)
<1>2. v = IF ~w.ses.open THEN CompleteClosed(w, who) ELSE [b EXCEPT !.ses.pending = "IdleEnter"]
  BY FreeFields DEF EnterIdleL
<1>3. v \in Good
  BY GoodEnterIdle
<1>4. CASE ~w.ses.open
  BY <1>2, <1>4, FreeFields, ClosedGives, CodeFacts
<1>5. CASE w.ses.open
  <2>1. /\ w \in World /\ Resting(w.ses, w.rd) /\ ~w.rd.limit /\ w.ses.state = "Normal"
        /\ w.ses.pending = "None"
    BY <1>5, FreeFields
  <2>2. Begun(b, w, who, "Idle")
    BY <2>1, Begins DEF Verbs
  <2>3. b \in World /\ v = [b EXCEPT !.ses.pending = "IdleEnter"]
    BY <1>2, <1>5, <2>2 DEF Begun
  <2> HIDE DEF v, b
  <2>4. /\ v.fault = b.fault /\ v.rd = b.rd /\ v.ao = b.ao /\ Rest(v, b)
        /\ Akin(v.ses, b.ses) /\ v.ses.folder = b.ses.folder /\ v.ses.pending = "IdleEnter"
    BY <2>3, PendingGives
  <2>5. Only(v, w, who) /\ For(v, who, "Idle") /\ v.ses.cmd = b.ses.cmd
    BY <1>3, <2>2, <2>4, AkinFor
  <2>6. v.ses.cmd.idle = "WaitContinue" /\ v.ses.folder = w.ses.folder
    BY <2>2, <2>4, <2>5 DEF Begun
  <2>. QED BY <2>5, <2>6 DEF v
<1>. QED BY <1>4, <1>5

LEMMA SelectGives ==
  ASSUME NEW w \in Good, w.fault = "None", Free(w.ses, w.rd), NEW who \in Objects, NEW box \in Boxes
  PROVE  LET v == SelectL(w, who, box)
         IN /\ Only(v, w, who) /\ v.ses.folder.box \in {box, NoBox}
            /\ \/ For(v, who, "Select") /\ v.ses.folder.box = box
               \/ Told(v, who) /\ (v.ao[who].status = KErrNone => v.ses.folder.box = box)
<1> DEFINE v == SelectL(w, who, box)
           u == [w EXCEPT !.ses.pending = "Select"]
           b == StartCommandL(u, who, "Select", "select", box)
           g == [NoFolder EXCEPT !.box = box]
           c == CompleteClosed(w, who)
<1>1. g.box = box /\ NoFolder.box = NoBox /\ g # NoFolder
  BY SessionAssumption DEF NoFolder
<1>2. v = CASE ~w.ses.open -> [c EXCEPT !.ses.folder = NoFolder]
            [] w.ses.open /\ w.ses.folder.box = box -> Complete(Queue(w, who), KErrNone)
            [] OTHER -> [b EXCEPT !.ses.folder = g]
  BY FreeFields DEF SelectL
<1>3. v \in Good
  BY GoodSelect
<1>4. CASE ~w.ses.open
  <2>1. /\ Only(c, w, who) /\ c.ses = w.ses /\ c.rd = w.rd /\ c.ao[who].status = KErrImapClosed
        /\ Lost(w.ses, w.rd)
    BY <1>4, FreeFields, ClosedGives
  <2>2. c \in World /\ v = [c EXCEPT !.ses.folder = NoFolder]
    BY <1>2, <1>4, <2>1 DEF Only, Good
  <2> HIDE DEF v, c
  <2>3. /\ v.fault = c.fault /\ v.rd = c.rd /\ v.ao = c.ao /\ Rest(v, c)
        /\ Akin(v.ses, c.ses) /\ v.ses.folder = NoFolder /\ v.ses.pending = c.ses.pending
    BY <2>2, FolderGives
  <2>4. Only(v, w, who)
    BY <1>3, <2>1, <2>3 DEF Only, Rest
  <2>5. Lost(v.ses, v.rd)
    BY <2>1, <2>3 DEF Lost, Akin
  <2>6. Told(v, who)
    BY <2>1, <2>3, <2>5, CodeFacts, CodesAreStatuses DEF Told, Pending, Over
  <2>7. v.ao[who].status # KErrNone /\ v.ses.folder.box = NoBox
    BY <1>1, <2>1, <2>3, CodeFacts
  <2>. QED BY <2>4, <2>6, <2>7 DEF v
<1>5. CASE w.ses.open /\ w.ses.folder.box = box
  <2>1. Resting(w.ses, w.rd)
    BY <1>5, FreeFields
  <2>2. w.ses.report = "None" /\ KErrNone \in Codes
    BY <2>1, CodesAreStatuses DEF Resting, Calm
  <2>3. Only(v, w, who) /\ v.ses = w.ses /\ v.rd = w.rd /\ v.ao[who].status = KErrNone
    BY <1>2, <1>5, <2>2, InstantGives
  <2> HIDE DEF v
  <2>4. Told(v, who)
    BY <2>2, <2>3, CodeFacts DEF Told, Pending, Free
  <2>. QED BY <1>5, <2>3, <2>4 DEF v
<1>6. CASE w.ses.open /\ w.ses.folder.box # box
  <2>1. /\ w \in World /\ Resting(w.ses, w.rd) /\ ~w.rd.limit /\ w.ses.state = "Normal"
    BY <1>6, FreeFields
  <2>2. /\ u.fault = w.fault /\ u.rd = w.rd /\ u.ao = w.ao /\ Rest(u, w) /\ u \in World
        /\ Akin(u.ses, w.ses) /\ u.ses.pending = "Select" /\ u.ses.state = w.ses.state
    BY <2>1, PendingGives, SetPending
  <2> HIDE DEF u
  <2>3. Resting(u.ses, u.rd)
    BY <2>1, <2>2, AkinRests
  <2>4. Begun(b, u, who, "Select")
    BY <2>1, <2>2, <2>3, Begins DEF Verbs
  <2>5. b \in World /\ v = [b EXCEPT !.ses.folder = g] /\ b.ses.pending = "Select"
    BY <1>2, <1>6, <2>2, <2>4 DEF Begun
  <2> HIDE DEF v, b, g
  <2>7. /\ v.fault = b.fault /\ v.rd = b.rd /\ v.ao = b.ao /\ Rest(v, b)
        /\ Akin(v.ses, b.ses) /\ v.ses.folder = g /\ v.ses.pending = b.ses.pending
    BY <2>5, FolderGives
  <2>8. Only(v, u, who) /\ For(v, who, "Select")
    BY <1>3, <2>4, <2>5, <2>7, AkinFor
  <2>9. Only(v, w, who)
    BY <2>2, <2>8 DEF Only, Rest
  <2>. QED BY <1>1, <2>7, <2>8, <2>9 DEF v
<1>. QED BY <1>4, <1>5, <1>6

\* A session that is in IDLE.
LEMMA HeldFields ==
  ASSUME NEW w \in Good, w.fault = "None", Held(w.ses, w.rd)
  PROVE  /\ w \in World /\ w.ses.open /\ w.ses.pending \in {"IdleEnter", "IdleWait"}
         /\ w.ses.state = "Normal" /\ ~w.ses.cmd.flushing /\ w.ses.cmd # NoCmd /\ ~w.rd.limit
         /\ InIdleMode(w) = w
         /\ Quiet(w.ses.input) /\ Quiet(w.rd.buf)
<1>1. /\ w \in World /\ w.ses.open /\ w.ses.cmd.kind = "Idle" /\ w.ses.cmd.idle = "WaitResponse"
      /\ Limited(w.ses, w.rd)
  BY DEF Good, Held, Calm
<1>2. /\ Wired(w.ses.cmd, w.ses.folder, w.ses.input, w.rd.buf, w.net)
      /\ Shaped(w.ses.cmd, w.ses.state, w.ses.pending, w.ses.folder, w.ses.server)
  BY <1>1 DEF Good, Sound
<1>3. w.ses.cmd # NoCmd
  BY <1>1, FreeCommand
<1>4. /\ w.ses.pending \in {"IdleEnter", "IdleWait"} /\ ~w.ses.cmd.flushing
      /\ w.ses.state # "Flushing" /\ w.ses.state # "Unrecoverable"
  BY <1>1, <1>2, <1>3 DEF Shaped
<1>5. w.ses.state = "Normal"
  BY <1>1, <1>4, SessionFields
<1>6. ~w.rd.limit
  BY <1>1 DEF Limited, Due
<1>7. Quiet(w.ses.input) /\ Quiet(w.rd.buf)
  <2>1. Expected(w.ses.cmd) = {} /\ Verb(w.ses.cmd) = "none" /\ w.net \in Nets
    BY <1>1, FreeCommand, WorldFields
  <2>. QED BY <1>2, <2>1, FreeQuiet
<1>. QED BY <1>1, <1>3, <1>4, <1>5, <1>6, <1>7, IdleSafe

\* The caller waits, and the input is looked at first.
LEMMA QueuedAsync ==
  ASSUME NEW u \in World, u.fault = "None", NEW who \in Objects,
         u.ses.open, u.ses.report = "None", ~u.ses.async, ~u.ses.flushTimer
  PROVE  LET v == ProcessInputBufferAsync(Queue(u, who))
         IN /\ v.fault = "None" /\ v.rd = u.rd /\ Rest(v, u) /\ Marked(v.ao, u.ao, who, KRequestPending)
            /\ v.ses.open /\ v.ses.report = who /\ v.ses.async /\ ~v.ses.flushTimer
            /\ v.ses.cmd = u.ses.cmd /\ v.ses.folder = u.ses.folder /\ v.ses.input = u.ses.input
            /\ v.ses.pending = u.ses.pending
<1> DEFINE q == Queue(u, who)
           v == ProcessInputBufferAsync(q)
<1>1. /\ q \in World /\ q.fault = u.fault /\ q.rd = u.rd /\ Rest(q, u)
      /\ q.ses = [u.ses EXCEPT !.report = who] /\ q.ao = [u.ao EXCEPT ![who].status = KRequestPending]
  BY QueueEffect
<1> HIDE DEF q
<1>2. u.ses \in Sessions /\ u.ao \in ActiveObjects
  BY WorldFields
<1>3. /\ q.ses.open /\ q.ses.report = who /\ ~q.ses.async /\ ~q.ses.flushTimer
      /\ q.ses.cmd = u.ses.cmd /\ q.ses.folder = u.ses.folder /\ q.ses.input = u.ses.input
      /\ q.ses.pending = u.ses.pending
  BY <1>1, <1>2 DEF Sessions
<1>4. Marked(q.ao, u.ao, who, KRequestPending)
  BY <1>1, <1>2, Marks
<1>5. v.fault = "None"
  BY <1>1, <1>3, AsyncSafe
<1>6. /\ v.rd = q.rd /\ v.ao = q.ao /\ Rest(v, q) /\ v.ses = [q.ses EXCEPT !.async = TRUE]
  BY <1>1, <1>5, AsyncEffect
<1> HIDE DEF v
<1>7. q.ses \in Sessions
  BY <1>1, WorldFields
<1>8. /\ v.ses.open /\ v.ses.report = who /\ v.ses.async /\ ~v.ses.flushTimer
      /\ v.ses.cmd = u.ses.cmd /\ v.ses.folder = u.ses.folder /\ v.ses.input = u.ses.input
      /\ v.ses.pending = u.ses.pending
  BY <1>3, <1>6, <1>7 DEF Sessions
<1>9. v.rd = u.rd /\ Rest(v, u) /\ Marked(v.ao, u.ao, who, KRequestPending)
  BY <1>1, <1>4, <1>6 DEF Rest
<1>. QED BY <1>5, <1>8, <1>9 DEF v, q

LEMMA WaitForIdleGives ==
  ASSUME NEW w \in Good, w.fault = "None", Held(w.ses, w.rd), NEW who \in Objects
  PROVE  LET v == WaitForIdleEvent(w, who)
         IN /\ Only(v, w, who) /\ v.ses.folder = w.ses.folder
            /\ For(v, who, "Idle") /\ v.ses.cmd.idle = "WaitResponse"
<1> DEFINE u == [w EXCEPT !.ses.pending = "IdleWait"]
           v == ProcessInputBufferAsync(Queue(u, who))
<1>1. /\ w \in World /\ w.ses.open /\ ~w.ses.cmd.flushing /\ w.ses.cmd # NoCmd /\ ~w.rd.limit
      /\ InIdleMode(w) = w
  BY HeldFields
<1>2. WaitForIdleEvent(w, who) = v
  BY <1>1 DEF WaitForIdleEvent
<1>3. v \in Good
  BY <1>2, GoodWaitForIdleEvent
<1>4. /\ u \in World /\ u.fault = "None" /\ u.rd = w.rd /\ u.ao = w.ao /\ Rest(u, w)
      /\ Akin(u.ses, w.ses) /\ u.ses.folder = w.ses.folder /\ u.ses.pending = "IdleWait"
  <2>1. u \in World
    BY <1>1, SetPending
  <2>2. /\ u.fault = w.fault /\ u.rd = w.rd /\ u.ao = w.ao /\ Rest(u, w)
        /\ Akin(u.ses, w.ses) /\ u.ses.folder = w.ses.folder /\ u.ses.pending = "IdleWait"
    BY <1>1, PendingGives
  <2> HIDE DEF u
  <2>. QED BY <2>1, <2>2
<1> HIDE DEF u
<1>5. /\ u.ses.open /\ u.ses.report = "None" /\ ~u.ses.async /\ ~u.ses.flushTimer
      /\ u.ses.cmd = w.ses.cmd /\ w.rd.state = "Idle" /\ ~w.rd.ready /\ ~w.rd.failed /\ ~w.rd.timer
      /\ w.ses.cmd.kind = "Idle" /\ w.ses.cmd.idle = "WaitResponse"
  BY <1>1, <1>4 DEF Akin, Held, Calm
<1>6. /\ v.fault = "None" /\ v.rd = u.rd /\ Rest(v, u) /\ Marked(v.ao, u.ao, who, KRequestPending)
      /\ v.ses.open /\ v.ses.report = who /\ v.ses.async /\ ~v.ses.flushTimer
      /\ v.ses.cmd = u.ses.cmd /\ v.ses.folder = u.ses.folder /\ v.ses.pending = u.ses.pending
  BY <1>4, <1>5, QueuedAsync
<1> HIDE DEF v
<1>7. Only(v, w, who) /\ v.ao[who].status = KRequestPending
  BY <1>3, <1>4, <1>6 DEF Only, Rest, Marked
<1>8. who # "None"
  BY DEF Objects
<1>9. Serving(v.ses, v.rd)
  BY <1>1, <1>4, <1>5, <1>6, <1>8 DEF Serving, Limited, Reading
<1>10. For(v, who, "Idle") /\ v.ses.cmd.idle = "WaitResponse"
  BY <1>1, <1>5, <1>6, <1>7, <1>9 DEF For, Waits, Pending
<1>. QED BY <1>2, <1>4, <1>6, <1>7, <1>10

\* DONE is asked for.
DoneAsked(w) == [w EXCEPT !.ses.pending = "IdleDone", !.ses.cmd.idle = "WaitDone"]

LEMMA DoneAskedGives ==
  ASSUME NEW w \in World
  PROVE  LET u == DoneAsked(w)
         IN /\ u \in World /\ u.fault = w.fault /\ u.rd = w.rd /\ u.ao = w.ao /\ Rest(u, w)
            /\ u.ses.cmd.kind = w.ses.cmd.kind /\ u.ses.cmd.idle = "WaitDone"
            /\ u.ses.cmd.flushing = w.ses.cmd.flushing
            /\ u.ses.folder = w.ses.folder /\ u.ses.input = w.ses.input
            /\ u.ses.pending = "IdleDone" /\ u.ses.report = w.ses.report
            /\ w.ses.open => u.ses.open
            /\ ~w.ses.async => ~u.ses.async
            /\ ~w.ses.flushTimer => ~u.ses.flushTimer
<1> DEFINE k == [w.ses.cmd EXCEPT !.idle = "WaitDone"]
           p == [w EXCEPT !.ses.pending = "IdleDone"]
           u == [p EXCEPT !.ses.cmd = k]
<1>1. k \in Commands /\ k.kind = w.ses.cmd.kind /\ k.idle = "WaitDone"
      /\ k.flushing = w.ses.cmd.flushing
  BY SessionFields DEF Commands
<1>2. DoneAsked(w) = [w EXCEPT !.ses.pending = "IdleDone", !.ses.cmd = k]
  BY DEF DoneAsked, World, Sessions
<1> HIDE DEF k
<1>3. DoneAsked(w) = u
  BY <1>2 DEF World, Sessions
<1>4. u \in World
  BY <1>1, SetPending, SetCmd
<1>5. /\ u.fault = w.fault /\ u.rd = w.rd /\ u.ao = w.ao /\ Rest(u, w)
      /\ u.ses = [w.ses EXCEPT !.pending = "IdleDone", !.cmd = k] /\ w.ses \in Sessions
  BY <1>2, <1>3 DEF World, Rest
<1> HIDE DEF u
<1>6. /\ u.ses.cmd = k /\ u.ses.folder = w.ses.folder /\ u.ses.input = w.ses.input
      /\ u.ses.pending = "IdleDone" /\ u.ses.report = w.ses.report
      /\ w.ses.open => u.ses.open
      /\ ~w.ses.async => ~u.ses.async
      /\ ~w.ses.flushTimer => ~u.ses.flushTimer
  BY <1>5 DEF Sessions
<1>. QED BY <1>1, <1>3, <1>4, <1>5, <1>6

LEMMA DoneGives ==
  ASSUME NEW w \in Good, w.fault = "None", Held(w.ses, w.rd), NEW who \in Objects
  PROVE  LET v == DoneIdle(w, who)
         IN /\ Only(v, w, who) /\ v.ses.folder = w.ses.folder
            /\ For(v, who, "Idle") /\ v.ses.cmd.idle = "WaitDone"
<1> DEFINE p == DoneAsked(w)
           d == Send(p, "done", NoBox)
           v == ProcessInputBufferAsync(Queue(d, who))
<1>1. /\ w \in World /\ w.ses.open /\ ~w.ses.cmd.flushing /\ w.ses.cmd # NoCmd /\ ~w.rd.limit
      /\ InIdleMode(w) = w /\ Quiet(w.ses.input) /\ Quiet(w.rd.buf)
  BY HeldFields
<1>2. /\ w.ses.report = "None" /\ ~w.ses.async /\ ~w.ses.flushTimer
      /\ w.rd.state = "Idle" /\ ~w.rd.ready /\ ~w.rd.failed /\ ~w.rd.timer
      /\ w.ses.cmd.kind = "Idle" /\ w.ses.cmd.idle = "WaitResponse"
  BY DEF Held, Calm
<1>3. DoneIdle(w, who) = v
  BY <1>1, <1>2 DEF DoneIdle, DoneAsked, Expect
<1>4. v \in Good
  BY <1>3, GoodDoneIdle
<1>5. /\ p \in World /\ p.fault = "None" /\ p.rd = w.rd /\ p.ao = w.ao /\ Rest(p, w)
      /\ p.ses.cmd.kind = "Idle" /\ p.ses.cmd.idle = "WaitDone" /\ ~p.ses.cmd.flushing
      /\ p.ses.folder = w.ses.folder /\ p.ses.input = w.ses.input
      /\ p.ses.pending = "IdleDone" /\ p.ses.report = "None"
      /\ p.ses.open /\ ~p.ses.async /\ ~p.ses.flushTimer
  BY <1>1, <1>2, DoneAskedGives
<1> HIDE DEF p
<1>6. d \in World /\ d.fault = "None" /\ d.rd = w.rd /\ d.ao = w.ao /\ Rest(d, w) /\ d.ses = p.ses
  <2>1. "done" \in Verbs /\ NoBox \in Boxes \cup {NoBox}
    BY DEF Verbs
  <2>2. d \in World /\ d.fault = p.fault /\ d.rd = p.rd /\ d.ao = p.ao /\ Rest(d, p) /\ d.ses = p.ses
    BY <1>5, <2>1, SendEffect
  <2> HIDE DEF d
  <2>. QED BY <1>5, <2>2 DEF Rest
<1> HIDE DEF d
<1>7. /\ v.fault = "None" /\ v.rd = d.rd /\ Rest(v, d) /\ Marked(v.ao, d.ao, who, KRequestPending)
      /\ v.ses.open /\ v.ses.report = who /\ v.ses.async /\ ~v.ses.flushTimer
      /\ v.ses.cmd = d.ses.cmd /\ v.ses.folder = d.ses.folder /\ v.ses.input = d.ses.input
      /\ v.ses.pending = d.ses.pending
  BY <1>5, <1>6, QueuedAsync
<1> HIDE DEF v
<1>8. Only(v, w, who) /\ v.ao[who].status = KRequestPending
  BY <1>4, <1>6, <1>7 DEF Only, Rest, Marked
<1>9. who # "None" /\ NoCmd.kind = "None"
  BY FreeCommand DEF Objects
<1>10. Serving(v.ses, v.rd)
  BY <1>1, <1>2, <1>5, <1>6, <1>7, <1>9 DEF Serving, Limited, Reading
<1>11. For(v, who, "Idle") /\ v.ses.cmd.idle = "WaitDone"
  BY <1>5, <1>6, <1>7, <1>8, <1>10 DEF For, Waits, Pending
<1>. QED BY <1>3, <1>5, <1>6, <1>7, <1>8, <1>11

-----------------------------------------------------------------------------
(* Flushing and cancelling                                                 *)

\* A session that waits for input reads it.
LEMMA AskedServes ==
  ASSUME NEW s \in Sessions, NEW r \in Readers,
         s.open, s.report # "None", s.cmd # NoCmd, ~s.async, s.input = <<>>, ~s.flushTimer,
         s.state = "Flushing" => s.cmd.flushing, r.state = "Idle", ~r.timer,
         r.limit => Due(s.cmd) /\ Quiet(r.buf),
         s.pending = "IdleDone" => Due(s.cmd) /\ Quiet(r.buf)
  PROVE  LET t == Asked(s)
             q == ReadWith(r, s.pending = "IdleDone")
         IN Serving(t, q) /\ t.report = s.report /\ t.cmd = s.cmd /\ t.folder = s.folder
<1> DEFINE p == IF s.pending = "IdleDone" THEN "None" ELSE s.pending
           t == Asked(s)
           q == ReadWith(r, s.pending = "IdleDone")
<1>1. t = [s EXCEPT !.pending = p, !.flushTimer = @ \/ s.state = "Flushing"]
  BY DEF Asked, Sessions
<1>2. p # "IdleDone"
  OBVIOUS
<1> HIDE DEF p
<1>3. /\ t.open /\ t.report = s.report /\ t.cmd = s.cmd /\ ~t.async /\ t.input = s.input
      /\ t.folder = s.folder /\ t.pending = p /\ (t.flushTimer => s.state = "Flushing")
  BY <1>1 DEF Sessions
<1>4. /\ Reading(q) /\ q.ready /\ q.state # "Closed" /\ ~q.timer /\ q.buf = r.buf
      /\ q.limit => r.limit \/ s.pending = "IdleDone"
  BY DEF ReadWith, Readers, Reading
<1> HIDE DEF t, q
<1>5. Limited(t, q)
  BY <1>2, <1>3, <1>4 DEF Limited
<1>6. Serving(t, q)
  BY <1>3, <1>4, <1>5 DEF Serving
<1>7. Serving(t, q) /\ t.report = s.report /\ t.cmd = s.cmd /\ t.folder = s.folder
  BY <1>3, <1>6
<1>. QED BY <1>7 DEF t, q

LEMMA EndedWaits ==
  ASSUME NEW s \in Sessions
  PROVE  LET e == Ended(s)
         IN e.report = "None" /\ (~s.async => ~e.async) /\ (~s.flushTimer => ~e.flushTimer)
<1> DEFINE t == IF s.cmd = NoCmd THEN s.tag ELSE s.cmd.tag
<1>1. Ended(s) = [s EXCEPT !.report = "None", !.tag = t, !.cmd = NoCmd, !.pending = "None"]
  BY DEF Ended
<1> HIDE DEF t
<1>. QED BY <1>1 DEF Sessions

\* A command that ends is answered, and leaves the session free.
LEMMA EndsGives ==
  ASSUME NEW w \in World, NEW who \in Objects, w.ses.report = who, NEW err \in Codes,
         w.ses.open, ~w.ses.async, ~w.ses.flushTimer,
         w.rd.state = "Idle", ~w.rd.ready, ~w.rd.failed, ~w.rd.timer, ~w.rd.limit
  PROVE  LET v == [Destroy(w, err) EXCEPT !.ses.state = "Normal"]
         IN /\ v \in World /\ v.fault = w.fault /\ Rest(v, w) /\ Resting(v.ses, v.rd)
            /\ v.ses.folder = w.ses.folder /\ v.ses.server = w.ses.server
            /\ Marked(v.ao, w.ao, who, err)
<1> DEFINE d == Destroy(w, err)
           v == [d EXCEPT !.ses.state = "Normal"]
<1>1. /\ d \in World /\ d.fault = w.fault /\ d.rd = w.rd /\ Rest(d, w) /\ d.ses = Ended(w.ses)
      /\ d.ao = Answered(w.ao, who, err)
  BY DestroyEffect
<1>2. /\ v \in World /\ v.fault = w.fault /\ v.rd = w.rd /\ v.ses.open = w.ses.open
      /\ v.ses.folder = w.ses.folder /\ v.ses.server = w.ses.server
      /\ v.ses.cmd = NoCmd /\ v.ses.pending = "None"
  BY EndsNormally
<1> HIDE DEF d
<1>3. v.ao = d.ao /\ Rest(v, d) /\ v.ses = [d.ses EXCEPT !.state = "Normal"]
  BY <1>1 DEF World, Rest
<1> HIDE DEF v
<1>4. d.ses.report = "None" /\ ~d.ses.async /\ ~d.ses.flushTimer /\ d.ses \in Sessions
  BY <1>1, EndedWaits, WorldFields
<1>5. v.ses.report = "None" /\ ~v.ses.async /\ ~v.ses.flushTimer
  BY <1>3, <1>4 DEF Sessions
<1>6. Resting(v.ses, v.rd)
  BY <1>2, <1>5 DEF Resting, Calm, Limited
<1>7. Marked(v.ao, w.ao, who, err)
  <2>1. w.ao \in ActiveObjects
    BY WorldFields
  <2>. QED BY <1>1, <1>3, <2>1, AnsweredMarks
<1>8. /\ v \in World /\ v.fault = w.fault /\ Rest(v, w) /\ Resting(v.ses, v.rd)
      /\ v.ses.folder = w.ses.folder /\ v.ses.server = w.ses.server
      /\ Marked(v.ao, w.ao, who, err)
  BY <1>1, <1>2, <1>3, <1>6, <1>7 DEF Rest
<1>. QED BY <1>8 DEF v, d

\* Fields of a command that was cancelled.
LEMMA LeftFields ==
  ASSUME NEW w \in Good, w.fault = "None", Left(w.ses, w.rd)
  PROVE  /\ w \in World /\ w.ses.open /\ w.ses.state = "Flushing" /\ w.ses.cmd # NoCmd
         /\ w.ses.cmd.flushing /\ (w.ses.pending = "IdleDone" => Due(w.ses.cmd))
         /\ w.ses.cmd.kind = "Wait" => ~w.rd.limit
<1>1. w \in World /\ w.ses.open /\ w.ses.cmd # NoCmd /\ w.ses.cmd.flushing
  BY DEF Good, Left, Calm
<1>2. Shaped(w.ses.cmd, w.ses.state, w.ses.pending, w.ses.folder, w.ses.server)
  BY <1>1 DEF Good, Sound
<1>3. w.ses.pending = "IdleDone" => Due(w.ses.cmd)
  BY <1>1, <1>2 DEF Shaped, Due
<1>4. w.ses.cmd.kind = "Wait" => ~w.rd.limit
  BY DEF Left, Calm, Limited, Due
<1>. QED BY <1>1, <1>2, <1>3, <1>4 DEF Shaped

\* The command that is flushed goes on, now for the one who flushes it.
LEMMA FeedGives ==
  ASSUME NEW w \in World, w.fault = "None", w.ses.open, w.ses.report # "None", w.ses.cmd # NoCmd,
         w.ses.cmd.flushing, ~w.ses.async, ~w.ses.flushTimer, Limited(w.ses, w.rd),
         w.ses.pending = "IdleDone" => Due(w.ses.cmd),
         w.rd.state = "Idle", ~w.rd.ready, ~w.rd.failed, ~w.rd.timer
  PROVE  LET v == Feed(w)
         IN /\ v.fault = "None" /\ Rest(v, w) /\ v.ao = w.ao /\ Serving(v.ses, v.rd)
            /\ v.ses.report = w.ses.report /\ v.ses.cmd = w.ses.cmd /\ v.ses.folder = w.ses.folder
<1> DEFINE v == Feed(w)
<1>1. v.fault = "None"
  BY FeedSafe
<1>2. /\ v.ao = w.ao /\ Rest(v, w) /\ v.ses = FedSession(w.ses) /\ v.rd = FedReader(w.ses, w.rd)
  BY <1>1, FeedEffect
<1> HIDE DEF v
<1>3. w.ses \in Sessions /\ w.rd \in Readers
  BY WorldFields
<1>4. CASE w.ses.input # <<>>
  <2>1. v.ses = [w.ses EXCEPT !.async = TRUE] /\ v.rd = w.rd
    BY <1>2, <1>4 DEF FedSession, FedReader
  <2>2. /\ v.ses.open /\ v.ses.report = w.ses.report /\ v.ses.async /\ ~v.ses.flushTimer
        /\ v.ses.cmd = w.ses.cmd /\ v.ses.pending = w.ses.pending /\ v.ses.folder = w.ses.folder
        /\ v.ses.input = w.ses.input
    BY <1>3, <2>1 DEF Sessions
  <2>3. Serving(v.ses, v.rd)
    BY <2>1, <2>2 DEF Serving, Limited, Reading
  <2>. QED BY <1>1, <1>2, <2>2, <2>3 DEF v
<1>5. CASE w.ses.input = <<>>
  <2>1. v.ses = Asked(w.ses) /\ v.rd = ReadWith(w.rd, w.ses.pending = "IdleDone")
    BY <1>2, <1>5 DEF FedSession, FedReader
  <2>2. /\ w.rd.limit => Due(w.ses.cmd) /\ Quiet(w.rd.buf)
        /\ w.ses.pending = "IdleDone" => Due(w.ses.cmd) /\ Quiet(w.rd.buf)
    BY DEF Limited
  <2>3. /\ Serving(v.ses, v.rd) /\ v.ses.report = w.ses.report /\ v.ses.cmd = w.ses.cmd
        /\ v.ses.folder = w.ses.folder
    BY <1>3, <1>5, <2>1, <2>2, AskedServes
  <2>. QED BY <1>1, <1>2, <2>3 DEF v
<1>. QED BY <1>4, <1>5

LEMMA FlushGives ==
  ASSUME NEW w \in Good, w.fault = "None", Off(w.ses, w.rd), NEW who \in Objects
  PROVE  LET v == FlushCancelledCommand(w, who)
         IN /\ Only(v, w, who) /\ v.ses.folder = w.ses.folder
            /\ Flushes(v, who) \/ Settled(v, who)
            /\ Using(v.ses) <=> Using(w.ses)
<1> DEFINE v == FlushCancelledCommand(w, who)
           q == Queue(w, who)
           n == NoOperation(Expect(q, q.ses.state = "Normal", "SessionInvalidSessionState"))
           f == Expect(Expect(q, q.ses.cmd.flushing, "SessionCommandNotFlushing"),
                       q.ses.state = "Flushing", "SessionInvalidSessionState")
<1>1. v \in Good /\ w \in World
  BY GoodFlush DEF Good
<1>2. v = CASE ~w.ses.open -> CompleteClosed(w, who)
            [] w.ses.open /\ w.ses.cmd = NoCmd -> Complete(n, KErrNone)
            [] w.ses.open /\ w.ses.cmd.kind = "Wait" ->
                 [Destroy(f, KErrNone) EXCEPT !.ses.state = "Normal"]
            [] OTHER -> Feed(f)
  BY DEF FlushCancelledCommand
<1>3. NoCmd.kind = "None" /\ KErrNone \in Codes
  BY FreeCommand, CodesAreStatuses
<1>4. w.ses.report = "None" /\ (w.ses.open => Resting(w.ses, w.rd) \/ Left(w.ses, w.rd))
      /\ (~w.ses.open => Lost(w.ses, w.rd))
  BY DEF Off, Over, Resting, Left, Lost, Calm
<1>5. /\ q \in Good /\ q.fault = w.fault /\ q.rd = w.rd /\ Rest(q, w)
      /\ q.ses = [w.ses EXCEPT !.report = who] /\ Marked(q.ao, w.ao, who, KRequestPending)
  BY <1>4, QueueGives
<1>6. /\ q.ses.open = w.ses.open /\ q.ses.cmd = w.ses.cmd /\ q.ses.folder = w.ses.folder
      /\ q.ses.input = w.ses.input /\ q.ses.state = w.ses.state /\ q.ses.pending = w.ses.pending
      /\ q.ses.server = w.ses.server /\ q.ses.report = who
      /\ ~w.ses.async => ~q.ses.async
      /\ ~w.ses.flushTimer => ~q.ses.flushTimer
  <2>1. w.ses \in Sessions
    BY <1>1, WorldFields
  <2> HIDE DEF q
  <2>. QED BY <1>5, <2>1 DEF Sessions
<1>7. CASE ~w.ses.open
  <2>1. Only(v, w, who) /\ v.ses = w.ses /\ v.rd = w.rd /\ Told(v, who)
    BY <1>2, <1>4, <1>7, ClosedGives
  <2> HIDE DEF v
  <2>2. Settled(v, who)
    BY <2>1 DEF Told, Settled, Off
  <2>. QED BY <2>1, <2>2 DEF v, Using
<1>8. CASE w.ses.open /\ w.ses.cmd = NoCmd
  <2>1. Resting(w.ses, w.rd)
    BY <1>3, <1>4, <1>8 DEF Left
  <2>2. w.ses.pending = "None" /\ w.ses.state = "Normal" /\ Free(w.ses, w.rd)
    BY <2>1, RestingFields
  <2>3. n = q
    BY <1>6, <2>2 DEF NoOperation, Expect
  <2>4. v = Complete(Queue(w, who), KErrNone)
    <3>1. v = Complete(n, KErrNone)
      <4> HIDE DEF v, n, f
      <4>. QED BY <1>2, <1>3, <1>8
    <3>. QED BY <2>3, <3>1
  <2>5. Only(v, w, who) /\ v.ses = w.ses /\ v.rd = w.rd /\ v.ao[who].status = KErrNone
    BY <1>3, <1>4, <2>4, InstantGives
  <2> HIDE DEF v
  <2>6. Settled(v, who)
    BY <1>3, <2>2, <2>5, CodeFacts DEF Settled, Pending, Free, Off
  <2>. QED BY <2>5, <2>6 DEF v, Using
<1>9. CASE w.ses.open /\ w.ses.cmd # NoCmd
  <2>1. Left(w.ses, w.rd)
    BY <1>4, <1>9 DEF Resting
  <2>2. /\ w.ses.state = "Flushing" /\ w.ses.cmd.flushing
        /\ w.ses.pending = "IdleDone" => Due(w.ses.cmd)
        /\ w.ses.cmd.kind = "Wait" => ~w.rd.limit
    BY <2>1, LeftFields
  <2>3. f = q
    BY <1>6, <2>2 DEF Expect
  <2>4. /\ ~w.ses.async /\ ~w.ses.flushTimer /\ w.rd.state = "Idle" /\ ~w.rd.ready
        /\ ~w.rd.failed /\ ~w.rd.timer /\ Limited(w.ses, w.rd)
    BY <2>1 DEF Left, Calm
  <2>5. CASE w.ses.cmd.kind = "Wait"
    <3>1. v = [Destroy(q, KErrNone) EXCEPT !.ses.state = "Normal"]
      BY <1>2, <1>9, <2>3, <2>5
    <3>2. q \in World
      BY <1>5 DEF Good
    <3> HIDE DEF q
    <3>8. /\ q.ses.report = who /\ q.ses.open /\ ~q.ses.async /\ ~q.ses.flushTimer
          /\ q.rd.state = "Idle" /\ ~q.rd.ready /\ ~q.rd.failed /\ ~q.rd.timer /\ ~q.rd.limit
      BY <1>5, <1>6, <1>9, <2>2, <2>4, <2>5
    <3> DEFINE e == [Destroy(q, KErrNone) EXCEPT !.ses.state = "Normal"]
    <3>9. /\ e.fault = q.fault /\ Rest(e, q) /\ Resting(e.ses, e.rd)
          /\ e.ses.folder = q.ses.folder /\ Marked(e.ao, q.ao, who, KErrNone)
      BY <1>3, <3>2, <3>8, EndsGives
    <3> HIDE DEF e
    <3>3. /\ v.fault = q.fault /\ Rest(v, q) /\ Resting(v.ses, v.rd)
          /\ v.ses.folder = q.ses.folder /\ Marked(v.ao, q.ao, who, KErrNone)
      BY <3>1, <3>9 DEF e
    <3> HIDE DEF v
    <3>4. Marked(v.ao, w.ao, who, KErrNone)
      BY <1>5, <3>3, MarkedTwice
    <3>5. Only(v, w, who) /\ v.ao[who].status = KErrNone
      BY <1>1, <1>5, <3>3, <3>4 DEF Only, Rest, Marked
    <3>6. Free(v.ses, v.rd)
      BY <1>1, <1>5, <3>3, RestingFields
    <3>7. Settled(v, who)
      BY <1>3, <3>5, <3>6, CodeFacts DEF Settled, Pending, Free, Off
    <3>8a. v.ses.cmd = NoCmd
      BY <3>3 DEF Resting
    <3>. QED BY <1>3, <1>6, <2>5, <3>3, <3>5, <3>7, <3>8a DEF v, Using
  <2>6. CASE w.ses.cmd.kind # "Wait"
    <3>1. v = Feed(q)
      BY <1>2, <1>9, <2>3, <2>6
    <3>2. q \in World /\ who # "None"
      BY <1>5 DEF Good, Objects
    <3> HIDE DEF q
    <3>3. Limited(q.ses, q.rd)
      BY <1>5, <1>6, <2>4 DEF Limited
    <3>4. /\ v.fault = "None" /\ Rest(v, q) /\ v.ao = q.ao /\ Serving(v.ses, v.rd)
          /\ v.ses.report = q.ses.report /\ v.ses.cmd = q.ses.cmd /\ v.ses.folder = q.ses.folder
      <4>1. /\ q.fault = "None" /\ q.ses.open /\ q.ses.report # "None" /\ q.ses.cmd # NoCmd
            /\ q.ses.cmd.flushing /\ ~q.ses.async /\ ~q.ses.flushTimer
            /\ q.ses.pending = "IdleDone" => Due(q.ses.cmd)
            /\ q.rd.state = "Idle" /\ ~q.rd.ready /\ ~q.rd.failed /\ ~q.rd.timer
        BY <1>5, <1>6, <1>9, <2>2, <2>4, <3>2
      <4>. QED BY <3>1, <3>2, <3>3, <4>1, FeedGives
    <3> HIDE DEF v
    <3>5. Only(v, w, who) /\ v.ao[who].status = KRequestPending
      BY <1>1, <1>5, <3>4 DEF Only, Rest, Marked
    <3>6. Flushes(v, who)
      BY <1>6, <2>2, <2>6, <3>4, <3>5 DEF Flushes, Waits, Pending
    <3>. QED BY <1>6, <3>4, <3>5, <3>6 DEF v, Using
  <2>. QED BY <2>5, <2>6
<1>. QED BY <1>4, <1>7, <1>8, <1>9

LEMMA CancelledQuiet ==
  ASSUME NEW s \in Sessions
  PROVE  ~Cancelled(s).async /\ ~Cancelled(s).flushTimer
<1> DEFINE k == CommandCancel(s.cmd)
           fo == IF s.pending = "Select" THEN NoFolder ELSE s.folder
           sv == IF s.pending = "Select" THEN "Authenticated" ELSE s.server
           st == IF k.flushing THEN "Flushing" ELSE s.state
<1>1. CASE s.state # "Normal" \/ s.cmd = NoCmd
  <2>1. Cancelled(s) = [s EXCEPT !.async = FALSE, !.flushTimer = FALSE]
    BY <1>1 DEF Cancelled
  <2>. QED BY <2>1 DEF Sessions
<1>2. CASE ~(s.state # "Normal" \/ s.cmd = NoCmd)
  <2>1. Cancelled(s) = [s EXCEPT !.async = FALSE, !.flushTimer = FALSE, !.cmd = k,
                                 !.server = sv, !.folder = fo, !.state = st]
    BY <1>2 DEF Cancelled, Sessions
  <2> HIDE DEF k, fo, sv, st
  <2>. QED BY <2>1 DEF Sessions
<1>. QED BY <1>1, <1>2

\* What an active object waits for is cancelled: it is told, and the command is left to be flushed,
\* but for one in IDLE.
LEMMA CancelGives ==
  ASSUME NEW w \in Good, w.fault = "None", NEW who \in Objects, Waits(w, who)
  PROVE  LET v == SessionCancel(w)
         IN /\ Only(v, w, who) /\ v.ao[who].status = KErrCancel
            /\ v.ses.folder.box \in {w.ses.folder.box, NoBox}
            /\ w.ses.cmd.kind = "Idle" /\ w.ses.cmd.idle = "WaitResponse" => Held(v.ses, v.rd)
            /\ ~(w.ses.cmd.kind = "Idle" /\ w.ses.cmd.idle = "WaitResponse") => Left(v.ses, v.rd)
<1> DEFINE v == SessionCancel(w)
           c == Cancelled(w.ses)
<1>1. /\ w \in World /\ w.ses \in Sessions /\ w.rd \in Readers /\ w.ao \in ActiveObjects
      /\ w.ses.cmd \in Commands
  BY WorldFields, SessionFields DEF Good
<1>2. w.ses.open /\ w.ses.cmd # NoCmd /\ Limited(w.ses, w.rd) /\ w.ses.report = who
  BY DEF Waits, Serving
<1>3. Shaped(w.ses.cmd, w.ses.state, w.ses.pending, w.ses.folder, w.ses.server)
  BY <1>2 DEF Good, Sound
<1>4. v \in Good
  BY GoodCancel
<1>5. /\ v.fault = w.fault /\ Rest(v, w) /\ v.ses = [c EXCEPT !.report = "None"]
      /\ v.rd = Unread(w.rd) /\ v.ao = Answered(w.ao, who, KErrCancel)
  BY <1>1, <1>2, SessionCancelEffect
<1> HIDE DEF v
<1>6. /\ c.open = w.ses.open /\ c.input = w.ses.input /\ c.pending = w.ses.pending
      /\ c.folder \in {w.ses.folder, NoFolder}
      /\ c.cmd = CommandCancel(w.ses.cmd) \/ (c.cmd = w.ses.cmd /\ w.ses.state # "Normal")
  BY <1>1, <1>2, CancelledFields
<1>7. ~c.async /\ ~c.flushTimer
  BY <1>1, CancelledQuiet
<1>8. c \in Sessions
  <2>1. DoCancel(w) \in World /\ DoCancel(w).ses = c
    BY <1>1, DoCancelEffect
  <2>. QED BY <2>1, WorldFields
<1> HIDE DEF c
<1>9. /\ v.ses.open = c.open /\ v.ses.input = c.input /\ v.ses.pending = c.pending
      /\ v.ses.folder = c.folder /\ v.ses.cmd = c.cmd /\ v.ses.report = "None"
      /\ ~v.ses.async /\ ~v.ses.flushTimer
  BY <1>5, <1>7, <1>8 DEF Sessions
<1>10. /\ v.rd.state = "Idle" /\ ~v.rd.ready /\ ~v.rd.failed /\ ~v.rd.timer
       /\ v.rd.buf = w.rd.buf /\ (v.rd.limit => w.rd.limit)
  BY <1>1, <1>5 DEF Unread, Readers
<1>11. Only(v, w, who) /\ v.ao[who].status = KErrCancel
  <2>1. Marked(v.ao, w.ao, who, KErrCancel)
    BY <1>1, <1>5, AnsweredMarks
  <2>2. v.ao[who].status = KErrCancel
    BY <2>1 DEF Marked
  <2>. QED BY <1>4, <1>5, <2>1, <2>2 DEF Only
<1>12. v.ses.folder.box \in {w.ses.folder.box, NoBox}
  BY <1>6, <1>9 DEF NoFolder
<1>13. /\ v.ses.cmd.kind = w.ses.cmd.kind /\ v.ses.cmd.idle = w.ses.cmd.idle
       /\ v.ses.cmd.flushing \/ (w.ses.cmd.kind = "Idle" /\ w.ses.cmd.idle = "WaitResponse")
  <2>1. /\ CommandCancel(w.ses.cmd).kind = w.ses.cmd.kind
        /\ CommandCancel(w.ses.cmd).idle = w.ses.cmd.idle
        /\ CommandCancel(w.ses.cmd).flushing
             <=> w.ses.cmd.flushing \/ ~(w.ses.cmd.kind = "Idle" /\ w.ses.cmd.idle = "WaitResponse")
    BY <1>1, CommandCancelFields
  <2>2. w.ses.state # "Normal" => w.ses.cmd.flushing
    BY <1>1, <1>3, SessionFields DEF Shaped
  <2>. QED BY <1>6, <1>9, <2>1, <2>2
<1>14. w.ses.cmd.kind # "None"
  BY <1>2, <1>3 DEF Shaped
<1>15. v.ses.cmd # NoCmd
  BY <1>13, <1>14, FreeCommand
<1>16. Calm(v.ses, v.rd)
  BY <1>2, <1>6, <1>9, <1>10, <1>13 DEF Calm, Limited, Due, Reading
<1>17. /\ Only(v, w, who) /\ v.ao[who].status = KErrCancel
       /\ v.ses.folder.box \in {w.ses.folder.box, NoBox}
       /\ w.ses.cmd.kind = "Idle" /\ w.ses.cmd.idle = "WaitResponse" => Held(v.ses, v.rd)
       /\ ~(w.ses.cmd.kind = "Idle" /\ w.ses.cmd.idle = "WaitResponse") => Left(v.ses, v.rd)
  BY <1>11, <1>12, <1>13, <1>15, <1>16 DEF Held, Left
<1>. QED BY <1>17 DEF v

\* Nobody waits: a cancel changes nothing.
LEMMA CancelSpares ==
  ASSUME NEW w \in Good, w.fault = "None", Off(w.ses, w.rd) \/ Held(w.ses, w.rd)
  PROVE  LET v == SessionCancel(w)
         IN v \in Good /\ v.fault = "None" /\ Rest(v, w) /\ v.ses = w.ses /\ v.rd = w.rd /\ v.ao = w.ao
<1> DEFINE v == SessionCancel(w)
           c == Cancelled(w.ses)
           s == [w.ses EXCEPT !.async = FALSE, !.flushTimer = FALSE]
<1>1. /\ w \in World /\ w.ses \in Sessions /\ w.rd \in Readers /\ w.ses.cmd \in Commands
  BY WorldFields, SessionFields DEF Good
<1>2. w.ses.report = "None" /\ ~w.ses.async /\ ~w.ses.flushTimer
  BY DEF Off, Over, Resting, Left, Lost, Held, Calm
<1>3. s = w.ses
  BY <1>1, <1>2 DEF Sessions
<1>4. c = w.ses
  <2>1. CASE w.ses.state # "Normal" \/ w.ses.cmd = NoCmd
    BY <1>3, <2>1 DEF Cancelled
  <2>2. CASE ~(w.ses.state # "Normal" \/ w.ses.cmd = NoCmd)
    <3>1. ~Left(w.ses, w.rd)
      BY <2>2, LeftFields
    <3>2. Held(w.ses, w.rd)
      BY <2>2, <3>1 DEF Off, Over, Resting, Lost
    <3>3. w.ses.cmd.kind = "Idle" /\ w.ses.cmd.idle = "WaitResponse" /\ ~w.ses.cmd.flushing
          /\ w.ses.pending # "Select"
      BY <3>2, HeldFields DEF Held
    <3>4. CommandCancel(w.ses.cmd) = w.ses.cmd
      BY <1>1, <3>3 DEF CommandCancel, Commands
    <3>5. c = [s EXCEPT !.cmd = w.ses.cmd, !.server = w.ses.server, !.folder = w.ses.folder,
                        !.state = w.ses.state]
      BY <1>1, <2>2, <3>3, <3>4 DEF Cancelled, Sessions
    <3> HIDE DEF c, s
    <3>. QED BY <1>1, <1>3, <3>5 DEF Sessions
  <2>. QED BY <2>1, <2>2
<1> HIDE DEF c, s
<1>5. v \in Good
  BY GoodCancel
<1>6. /\ v.fault = w.fault /\ Rest(v, w) /\ v.ses = [w.ses EXCEPT !.report = "None"]
      /\ v.rd = (IF w.ses.open THEN Unread(w.rd) ELSE w.rd) /\ v.ao = Answered(w.ao, "None", KErrCancel)
  BY <1>1, <1>2, <1>4, SessionCancelEffect DEF c
<1> HIDE DEF v
<1>7. v.ses = w.ses /\ v.ao = w.ao
  BY <1>1, <1>2, <1>6 DEF Sessions, Answered
<1>8. v.rd = w.rd
  <2>1. CASE w.ses.open
    <3>1. w.rd.state = "Idle" /\ ~w.rd.ready /\ ~w.rd.failed /\ ~w.rd.timer
      BY <2>1 DEF Off, Over, Resting, Left, Lost, Held, Calm
    <3>2. Unread(w.rd) = w.rd
      BY <1>1, <3>1 DEF Unread, Readers
    <3>. QED BY <1>6, <2>1, <3>2
  <2>2. CASE ~w.ses.open
    BY <1>6, <2>2
  <2>. QED BY <2>1, <2>2
<1>9. v \in Good /\ v.fault = "None" /\ Rest(v, w) /\ v.ses = w.ses /\ v.rd = w.rd /\ v.ao = w.ao
  BY <1>5, <1>6, <1>7, <1>8
<1>. QED BY <1>9 DEF v

-----------------------------------------------------------------------------
(* The two requests that an assertion may stop                             *)

LEMMA Failed ==
  ASSUME NEW w, w.fault # "None", NEW ok, NEW name
  PROVE  Expect(w, ok, name) = w
  BY DEF Expect

LEMMA Fails ==
  ASSUME NEW w \in World, w.fault = "None", NEW name \in Assertions
  PROVE  LET v == Expect(w, FALSE, name) IN v \in World /\ v.fault = name /\ v.ses = w.ses
<1>1. Expect(w, FALSE, name) = [w EXCEPT !.fault = name]
  BY DEF Expect
<1>2. [w EXCEPT !.fault = name] \in World
  BY SetFault
<1>. QED BY <1>1, <1>2 DEF World

LEMMA FailedFeeds ==
  ASSUME NEW w \in World, w.fault # "None"
  PROVE  /\ ProcessInputBufferAsync(w).fault = w.fault /\ Feed(w).fault = w.fault
<1>1. ProcessInputBufferAsync(w).fault = w.fault
  <2>1. ProcessInputBufferAsync(w) = [w EXCEPT !.ses.async = TRUE]
    BY Failed DEF ProcessInputBufferAsync
  <2>. QED BY <2>1 DEF World
<1>2. RequestReadData(w).fault = w.fault
  <2> DEFINE done == w.ses.pending = "IdleDone"
             p == IF done THEN "None" ELSE w.ses.pending
             u == [w EXCEPT !.ses.pending = p]
             st == IF u.rd.buf = <<>> THEN "Read" ELSE "ReceivedData"
             r == [u EXCEPT !.rd.state = st, !.rd.ready = TRUE, !.rd.limit = done \/ @]
  <2>1. u \in World /\ u.fault = w.fault
    <3>1. p \in {"None", "Select", "IdleEnter", "IdleWait", "IdleDone"}
      BY SessionFields
    <3> HIDE DEF p
    <3>. QED BY <3>1, SetPending DEF World
  <2>2. RequestReadData(w) = [ReadReq(u, done) EXCEPT !.ses.flushTimer = @ \/ w.ses.state = "Flushing"]
    BY Failed DEF RequestReadData
  <2> HIDE DEF u, done
  <2>a. Expect(u, u.rd.state = "Idle", "BadInputStreamState") = u
    BY <2>1, Failed
  <2>3. ReadReq(u, done) = r
    BY <2>a DEF ReadReq
  <2> HIDE DEF st
  <2>4. r.fault = u.fault /\ "fault" \in DOMAIN r
    BY <2>1 DEF World
  <2> HIDE DEF r
  <2>. QED BY <2>1, <2>2, <2>3, <2>4
<1>. QED BY <1>1, <1>2 DEF Feed

\* DONE is not sent to a server that is not in IDLE.
LEMMA DoneRefused ==
  ASSUME NEW w \in Good, w.fault = "None", Over(w.ses, w.rd), NEW who \in Objects
  PROVE  DoneIdle(w, who).fault = "OperationPendingNotIdle"
<1> DEFINE name == "OperationPendingNotIdle"
           x == Expect(w, FALSE, name)
           p == DoneAsked(x)
           d == Send(p, "done", NoBox)
           q == Queue(d, who)
<1>1. w \in World /\ w.ses.pending = "None" /\ w.ses.server # "None"
  BY RestingFields, SessionFields DEF Good, Over, Lost
<1>2. name \in Assertions /\ name # "None" /\ "done" \in Verbs /\ NoBox \in Boxes \cup {NoBox}
  BY Names DEF Verbs
<1> HIDE DEF name
<1>3. x \in World /\ x.fault = name /\ x.ses = w.ses
  BY <1>1, <1>2, Fails
<1>4. InIdleMode(w) = x
  <2>1. LoggedIn(w) = w
    BY <1>1 DEF LoggedIn, Expect
  <2>2. (w.ses.pending \in {"IdleEnter", "IdleWait"}) = FALSE
    BY <1>1
  <2>3. InIdleMode(w) = Expect(x, w.ses.state = "Normal", "SessionInvalidSessionState")
    BY <2>1, <2>2 DEF InIdleMode, name
  <2> HIDE DEF x
  <2>. QED BY <1>2, <1>3, <2>3, Failed
<1> HIDE DEF x
<1>5. DoneIdle(w, who) = IF ~x.ses.open THEN CompleteClosed(x, who) ELSE ProcessInputBufferAsync(q)
  <2>1. /\ Expect(x, w.ses.cmd # NoCmd, "SessionNullCurrentCommand") = x
        /\ Expect(x, x.ses.cmd.idle = "WaitResponse", "IdleStateInvalid") = x
    BY <1>2, <1>3, Failed
  <2> DEFINE v == Expect(x, w.ses.cmd # NoCmd, "SessionNullCurrentCommand")
             s == Expect(v, v.ses.cmd.idle = "WaitResponse", "IdleStateInvalid")
             e == Send(DoneAsked(s), "done", NoBox)
  <2>2. DoneIdle(w, who) =
          IF ~v.ses.open THEN CompleteClosed(v, who) ELSE ProcessInputBufferAsync(Queue(e, who))
    BY <1>4 DEF DoneIdle, DoneAsked
  <2>3. v = x
    BY <2>1
  <2> HIDE DEF v
  <2>4. s = x
    BY <2>1, <2>3
  <2>. QED BY <2>2, <2>3, <2>4
<1>6. p \in World /\ p.fault = name
  BY <1>3, DoneAskedGives
<1> HIDE DEF p
<1>7. d \in World /\ d.fault = name
  BY <1>2, <1>6, SendEffect
<1> HIDE DEF d
<1>8. q \in World /\ q.fault = name
  BY <1>7, QueueEffect
<1> HIDE DEF q
<1>9. ProcessInputBufferAsync(q).fault = name
  BY <1>2, <1>8, FailedFeeds
<1>10. CompleteClosed(x, who).fault = name
  BY <1>3, ClosedFields
<1>. QED BY <1>5, <1>9, <1>10 DEF name

\* A command that was not cancelled is not flushed.
LEMMA FlushRefused ==
  ASSUME NEW w \in Good, w.fault = "None", Held(w.ses, w.rd), NEW who \in Objects
  PROVE  FlushCancelledCommand(w, who).fault = "SessionCommandNotFlushing"
<1> DEFINE name == "SessionCommandNotFlushing"
           q == Queue(w, who)
           x == Expect(q, FALSE, name)
<1>1. /\ w \in World /\ w.ses.open /\ w.ses.cmd # NoCmd /\ w.ses.cmd.kind = "Idle"
      /\ ~w.ses.cmd.flushing /\ w.ses.report = "None"
  BY HeldFields DEF Held, Calm
<1>2. name \in Assertions /\ name # "None"
  BY Names
<1> HIDE DEF name
<1>3. q \in World /\ q.fault = "None" /\ q.ses.cmd = w.ses.cmd
  <2>1. q \in World /\ q.fault = "None" /\ q.ses = [w.ses EXCEPT !.report = who] /\ w.ses \in Sessions
    BY <1>1, QueueEffect, WorldFields
  <2> HIDE DEF q
  <2>. QED BY <2>1 DEF Sessions
<1>4. FlushCancelledCommand(w, who) =
        Feed(Expect(Expect(q, q.ses.cmd.flushing, name), q.ses.state = "Flushing",
                    "SessionInvalidSessionState"))
  BY <1>1 DEF FlushCancelledCommand, name
<1> HIDE DEF q
<1>5. q.ses.cmd.flushing = FALSE
  <2>1. w.ses.cmd.flushing \in BOOLEAN
    BY <1>1, SessionFields DEF Commands
  <2>. QED BY <1>1, <1>3, <2>1
<1>6. x \in World /\ x.fault = name
  BY <1>2, <1>3, Fails
<1>7. FlushCancelledCommand(w, who) =
        Feed(Expect(x, q.ses.state = "Flushing", "SessionInvalidSessionState"))
  BY <1>4, <1>5
<1> HIDE DEF x
<1>8. FlushCancelledCommand(w, who) = Feed(x)
  BY <1>2, <1>6, <1>7, Failed
<1>. QED BY <1>2, <1>6, <1>8, FailedFeeds DEF name

-----------------------------------------------------------------------------
(* What the callbacks of the session tell those who wait                   *)

LEMMA GoneWaits ==
  ASSUME NEW s \in Sessions, NEW r \in Readers
  PROVE  /\ Lost(Gone(s), Shut(r)) /\ Gone(s).folder = s.folder /\ Gone(s).server = s.server
         /\ \A x : Lost([Gone(s) EXCEPT !.state = x], Shut(r))
         /\ \A x : LET t == [Gone(s) EXCEPT !.state = x] IN t.folder = s.folder /\ t.server = s.server
<1> DEFINE t == IF s.cmd = NoCmd THEN s.tag ELSE s.cmd.tag
           g == [s EXCEPT !.report = "None", !.tag = t, !.cmd = NoCmd, !.pending = "None",
                          !.open = FALSE, !.async = FALSE, !.flushTimer = FALSE]
           q == [r EXCEPT !.state = "Closed", !.ready = FALSE, !.failed = FALSE, !.timer = FALSE]
<1>1. Gone(s) = g
  BY DEF Gone, Ended
<1>2. Shut(r) = q
  BY DEF Shut
<1> HIDE DEF t
<1>3. q.state = "Closed" /\ ~q.ready /\ ~q.timer
  BY DEF Readers
<1>4. /\ ~g.open /\ g.report = "None" /\ ~g.async /\ ~g.flushTimer /\ g.cmd = NoCmd
      /\ g.pending = "None" /\ g.folder = s.folder /\ g.server = s.server
  BY DEF Sessions
<1>5. \A x : LET h == [g EXCEPT !.state = x]
             IN /\ ~h.open /\ h.report = "None" /\ ~h.async /\ ~h.flushTimer /\ h.cmd = NoCmd
                /\ h.pending = "None" /\ h.folder = s.folder /\ h.server = s.server
  BY DEF Sessions
<1> HIDE DEF g, q
<1>. QED BY <1>1, <1>2, <1>3, <1>4, <1>5 DEF Lost

\* When the streams are closed the one who waits is told so.
LEMMA ClosesGives ==
  ASSUME NEW w \in World, w.fault = "None", NEW who \in Objects, w.ses.report = who
  PROVE  LET v == StreamsClosed(w)
         IN /\ Only(v, w, who) /\ Lost(v.ses, v.rd) /\ v.ao[who].status = KErrImapClosed
            /\ v.ses.folder = w.ses.folder /\ v.ses.server = w.ses.server
<1> DEFINE v == StreamsClosed(w)
<1>1. /\ v \in World /\ v.fault = w.fault /\ Rest(v, w) /\ v.rd = Shut(w.rd)
      /\ v.ses = Gone(w.ses) /\ v.ao = Answered(w.ao, who, KErrImapClosed)
  BY StreamsClosedEffect
<1>2. v \in Good
  BY GoodStreamsClosed
<1> HIDE DEF v
<1>3. w.ses \in Sessions /\ w.rd \in Readers /\ w.ao \in ActiveObjects
  BY WorldFields
<1>4. Lost(v.ses, v.rd) /\ v.ses.folder = w.ses.folder /\ v.ses.server = w.ses.server
  BY <1>1, <1>3, GoneWaits
<1>5. Marked(v.ao, w.ao, who, KErrImapClosed)
  BY <1>1, <1>3, AnsweredMarks
<1>6. /\ Only(v, w, who) /\ Lost(v.ses, v.rd) /\ v.ao[who].status = KErrImapClosed
      /\ v.ses.folder = w.ses.folder /\ v.ses.server = w.ses.server
  BY <1>1, <1>2, <1>4, <1>5 DEF Only, Marked
<1>. QED BY <1>6 DEF v

\* Data that is not understood closes them, and is told to the one who waits.
LEMMA CloseWithGives ==
  ASSUME NEW w \in World, w.fault = "None", NEW who \in Objects, w.ses.report = who, NEW err \in Codes
  PROVE  LET v == CloseWith(w, err)
         IN /\ Only(v, w, who) /\ Lost(v.ses, v.rd) /\ v.ao[who].status = err
            /\ v.ses.folder = w.ses.folder /\ v.ses.server = w.ses.server
<1> DEFINE c == Complete(w, err)
           u == StreamsClosed(c)
           v == [u EXCEPT !.ses.state = "Unrecoverable"]
<1>1. CloseWith(w, err) = v /\ v \in Good
  BY GoodCloseWith DEF CloseWith
<1>2. w.ses \in Sessions /\ w.rd \in Readers /\ w.ao \in ActiveObjects
  BY WorldFields
<1>3. /\ c \in World /\ c.fault = "None" /\ c.rd = w.rd /\ Rest(c, w)
      /\ c.ses = [w.ses EXCEPT !.report = "None"] /\ c.ao = Answered(w.ao, who, err)
  BY CompleteAnswers
<1>4. c.ses \in Sessions /\ c.ses.report = "None" /\ c.ses.folder = w.ses.folder
      /\ c.ses.server = w.ses.server
  BY <1>2, <1>3, WorldFields DEF Sessions
<1> HIDE DEF c
<1>5. /\ u \in World /\ u.fault = c.fault /\ Rest(u, c) /\ u.rd = Shut(c.rd)
      /\ u.ses = Gone(c.ses) /\ u.ao = Answered(c.ao, c.ses.report, KErrImapClosed)
  BY <1>3, StreamsClosedEffect
<1>6. u.ao = c.ao
  BY <1>4, <1>5 DEF Answered
<1> HIDE DEF u
<1>7. v.fault = u.fault /\ Rest(v, u) /\ v.rd = u.rd /\ v.ao = u.ao
      /\ v.ses = [u.ses EXCEPT !.state = "Unrecoverable"]
  BY <1>5 DEF World, Rest
<1> HIDE DEF v
<1>8. Lost(v.ses, v.rd) /\ v.ses.folder = w.ses.folder /\ v.ses.server = w.ses.server
  <2>1. u.ses = Gone(c.ses) /\ u.rd = Shut(w.rd)
    BY <1>3, <1>5
  <2> DEFINE g == [Gone(c.ses) EXCEPT !.state = "Unrecoverable"]
  <2>2. Lost(g, Shut(w.rd)) /\ g.folder = c.ses.folder /\ g.server = c.ses.server
    BY <1>2, <1>4, GoneWaits
  <2>3. v.ses = g
    BY <1>7, <2>1
  <2> HIDE DEF g
  <2>. QED BY <1>4, <1>7, <2>1, <2>2, <2>3
<1>9. Marked(v.ao, w.ao, who, err)
  BY <1>2, <1>3, <1>6, <1>7, AnsweredMarks
<1>10. /\ Only(v, w, who) /\ Lost(v.ses, v.rd) /\ v.ao[who].status = err
       /\ v.ses.folder = w.ses.folder /\ v.ses.server = w.ses.server
  BY <1>1, <1>3, <1>5, <1>7, <1>8, <1>9 DEF Only, Marked, Rest
<1>. QED BY <1>1, <1>10

\* A line that completes the command: its answer, and the session is free.
LEMMA CompletedGives ==
  ASSUME NEW w \in World, w.fault = "None", NEW who \in Objects, w.ses.report = who, NEW line,
         CommandComplete(w, line) \in Good,
         w.ses.open, ~w.ses.async, ~w.ses.flushTimer,
         w.rd.state = "Idle", ~w.rd.ready, ~w.rd.failed, ~w.rd.timer, ~w.rd.limit
  PROVE  LET v == CommandComplete(w, line)
         IN /\ Only(v, w, who) /\ Resting(v.ses, v.rd)
            /\ v.ao[who].status = IF line.kind = "no" THEN KErrImapNo ELSE KErrNone
            /\ v.ses.folder = IF line.kind = "no" /\ w.ses.pending = "Select" THEN NoFolder
                              ELSE w.ses.folder
<1> DEFINE u == IF line.kind = "no" THEN SelectUndone(w)
                ELSE IF w.ses.state = "Normal" /\ w.ses.pending = "Select"
                     THEN [w EXCEPT !.ses.server = "Selected"] ELSE w
           err == IF line.kind = "no" THEN KErrImapNo ELSE KErrNone
           v == [Destroy(u, err) EXCEPT !.ses.state = "Normal"]
<1>0. w.ses \in Sessions /\ w.ao \in ActiveObjects /\ err \in Codes
  BY WorldFields, CodesAreStatuses
<1>1. CommandComplete(w, line) = v
  BY DEF CommandComplete
<1> HIDE DEF err
<1>2. /\ u \in World /\ u.fault = "None" /\ u.rd = w.rd /\ u.ao = w.ao /\ Rest(u, w)
      /\ u.ses.report = who /\ u.ses.open /\ ~u.ses.async /\ ~u.ses.flushTimer
      /\ u.ses.folder = IF line.kind = "no" /\ w.ses.pending = "Select" THEN NoFolder
                        ELSE w.ses.folder
  <2>1. CASE line.kind = "no"
    <3> DEFINE s == SelectUndone(w)
    <3>1. /\ s \in World /\ s.fault = w.fault /\ s.rd = w.rd /\ s.ao = w.ao /\ Rest(s, w)
          /\ s.ses = Undone(w.ses)
      BY SelectUndoneEffect
    <3>2. /\ Undone(w.ses).report = who /\ Undone(w.ses).open /\ ~Undone(w.ses).async
          /\ ~Undone(w.ses).flushTimer
          /\ Undone(w.ses).folder = IF w.ses.pending = "Select" THEN NoFolder ELSE w.ses.folder
      BY <1>0 DEF Undone, Sessions
    <3>3. u = s
      BY <2>1
    <3> HIDE DEF s, u
    <3>. QED BY <2>1, <3>1, <3>2, <3>3
  <2>2. CASE line.kind # "no" /\ w.ses.state = "Normal" /\ w.ses.pending = "Select"
    <3> DEFINE s == [w EXCEPT !.ses.server = "Selected"]
    <3>1. /\ s \in World /\ s.fault = w.fault /\ s.rd = w.rd /\ s.ao = w.ao /\ Rest(s, w)
          /\ s.ses = [w.ses EXCEPT !.server = "Selected"]
      BY SetServer DEF World, Rest
    <3>2. u = s
      BY <2>2
    <3> HIDE DEF s, u
    <3>3. /\ u.ses.report = who /\ u.ses.open /\ ~u.ses.async /\ ~u.ses.flushTimer
          /\ u.ses.folder = w.ses.folder
      BY <1>0, <3>1, <3>2 DEF Sessions
    <3>. QED BY <2>2, <3>1, <3>2, <3>3
  <2>3. CASE line.kind # "no" /\ ~(w.ses.state = "Normal" /\ w.ses.pending = "Select")
    BY <2>3 DEF Rest
  <2>. QED BY <2>1, <2>2, <2>3
<1> HIDE DEF u
<1>3. /\ v.fault = u.fault /\ Rest(v, u) /\ Resting(v.ses, v.rd)
      /\ v.ses.folder = u.ses.folder /\ Marked(v.ao, u.ao, who, err)
  BY <1>0, <1>2, EndsGives
<1> HIDE DEF v
<1>4. Only(v, w, who) /\ Resting(v.ses, v.rd) /\ v.ao[who].status = err
      /\ v.ses.folder = u.ses.folder
  BY <1>1, <1>2, <1>3 DEF Only, Marked, Rest
<1>. QED BY <1>1, <1>2, <1>4 DEF err

\* From w to v the one who waited has been answered.
Replied(v, w, who) ==
  /\ Only(v, w, who) /\ v.ses.folder.box \in {w.ses.folder.box, NoBox}
  /\ w.ses.cmd.flushing => Settled(v, who)
  /\ ~w.ses.cmd.flushing =>
       \/ /\ Held(v.ses, v.rd) /\ v.ao[who].status = KErrNone
          /\ w.ses.cmd.kind = "Idle" /\ w.ses.cmd.idle # "WaitDone"
       \/ /\ Told(v, who) /\ (w.ses.cmd.kind # "Select" => Free(v.ses, v.rd))
          /\ v.ao[who].status = KErrNone =>
               /\ v.ses.folder.box = w.ses.folder.box
               /\ w.ses.cmd.kind = "Idle" => w.ses.cmd.idle = "WaitDone"

\* Inside the loop that parses the input of a session that was o.
Parses(w, o, who) ==
  /\ Busy(w) /\ Rest(w, o) /\ Marked(w.ao, o.ao, who, KRequestPending)
  /\ w.ses.report = who /\ ~w.ses.async /\ ~w.ses.flushTimer
  /\ w.rd.state = "Idle" /\ ~w.rd.ready /\ ~w.rd.failed /\ ~w.rd.timer
  /\ w.rd.limit => Due(w.ses.cmd) /\ Quiet(w.ses.input) /\ Quiet(w.rd.buf)
  /\ w.ses.pending = "IdleDone" => Quiet(w.ses.input) /\ Quiet(w.rd.buf)
  /\ w.ses.folder.box = o.ses.folder.box
Parsing(w, o, who) == Parses(w, o, who) /\ w.ses.cmd = o.ses.cmd

LEMMA BusyFields ==
  ASSUME NEW w, Busy(w)
  PROVE  /\ w \in Good /\ w \in World /\ w.fault = "None" /\ w.ses.open /\ w.ses.cmd # NoCmd
         /\ Shaped(w.ses.cmd, w.ses.state, w.ses.pending, w.ses.folder, w.ses.server)
         /\ w.ses.cmd.kind # "Select" /\ w.ses.folder # NoFolder => w.ses.server = "Selected"
<1>1. Shaped(w.ses.cmd, w.ses.state, w.ses.pending, w.ses.folder, w.ses.server)
  BY DEF Busy, Sound
<1>. QED BY <1>1 DEF Busy, Good, Shaped

LEMMA OnlyAfter ==
  ASSUME NEW v, NEW w, NEW o, NEW who, NEW x, Only(v, w, who), Rest(w, o), Marked(w.ao, o.ao, who, x)
  PROVE  Only(v, o, who)
  BY DEF Only, Rest, Marked

LEMMA CorruptReplies ==
  ASSUME NEW o, NEW who \in Objects, NEW w, Parsing(w, o, who)
  PROVE  Replied(CloseWith(w, KErrImapCorrupt), o, who)
<1> DEFINE v == CloseWith(w, KErrImapCorrupt)
<1>1. /\ w \in World /\ w.fault = "None" /\ w.ses.report = who
      /\ w.ses.cmd.kind # "Select" /\ w.ses.folder # NoFolder => w.ses.server = "Selected"
  BY BusyFields DEF Parsing, Parses
<1>2. KErrImapCorrupt \in Codes
  BY CodesAreStatuses
<1>3. /\ Only(v, w, who) /\ Lost(v.ses, v.rd) /\ v.ao[who].status = KErrImapCorrupt
      /\ v.ses.folder = w.ses.folder /\ v.ses.server = w.ses.server
  BY <1>1, <1>2, CloseWithGives
<1> HIDE DEF v
<1>4. Only(v, o, who)
  BY <1>3, OnlyAfter DEF Parsing, Parses
<1>5. /\ KErrImapCorrupt # KRequestPending /\ Fatal(KErrImapCorrupt)
      /\ KErrImapCorrupt # KErrNone
  BY <1>2, CodeFacts
<1>6. Settled(v, who) /\ Told(v, who)
  BY <1>3, <1>5 DEF Settled, Told, Pending, Off, Over
<1>7. o.ses.cmd.kind # "Select" => Free(v.ses, v.rd)
  BY <1>1, <1>3 DEF Free, Over, Parsing
<1>8. v.ses.folder.box = o.ses.folder.box
  BY <1>3 DEF Parsing, Parses
<1>9. Replied(v, o, who)
  BY <1>3, <1>4, <1>5, <1>6, <1>7, <1>8 DEF Replied
<1>. QED BY <1>9 DEF v

LEMMA CompleteReplies ==
  ASSUME NEW o, NEW who \in Objects, NEW w, Parsing(w, o, who), NEW line, ~w.rd.limit,
         CommandComplete(w, line) \in Good,
         ~w.ses.cmd.flushing /\ w.ses.cmd.kind = "Idle" /\ w.ses.cmd.idle # "WaitDone"
           => line.kind = "no"
  PROVE  Replied(CommandComplete(w, line), o, who)
<1> DEFINE v == CommandComplete(w, line)
           err == IF line.kind = "no" THEN KErrImapNo ELSE KErrNone
<1>1. /\ w \in World /\ w.fault = "None" /\ w.ses.open /\ w.ses.report = who
      /\ ~w.ses.async /\ ~w.ses.flushTimer
      /\ w.rd.state = "Idle" /\ ~w.rd.ready /\ ~w.rd.failed /\ ~w.rd.timer
  BY BusyFields DEF Parsing, Parses
<1>2. /\ Only(v, w, who) /\ Resting(v.ses, v.rd) /\ v.ao[who].status = err
      /\ v.ses.folder = IF line.kind = "no" /\ w.ses.pending = "Select" THEN NoFolder
                        ELSE w.ses.folder
  BY <1>1, CompletedGives
<1> HIDE DEF v
<1>3. Only(v, o, who)
  BY <1>2, OnlyAfter DEF Parsing, Parses
<1>4. Free(v.ses, v.rd)
  BY <1>2, RestingFields DEF Only
<1>5. /\ err # KRequestPending /\ ~Fatal(err) /\ (err = KErrNone => line.kind # "no")
  BY CodesAreStatuses, CodeFacts
<1> HIDE DEF err
<1>6. Settled(v, who) /\ Told(v, who)
  BY <1>2, <1>4, <1>5 DEF Settled, Told, Pending, Off, Free
<1>7. /\ w.ses.folder.box = o.ses.folder.box /\ w.ses.cmd = o.ses.cmd
  BY DEF Parsing, Parses
<1>8. /\ v.ses.folder.box \in {o.ses.folder.box, NoBox}
      /\ v.ao[who].status = KErrNone => v.ses.folder.box = o.ses.folder.box
  BY <1>2, <1>5, <1>7 DEF NoFolder
<1>9. Replied(v, o, who)
  BY <1>2, <1>3, <1>4, <1>5, <1>6, <1>7, <1>8 DEF Replied
<1>. QED BY <1>9 DEF v

LEMMA ContinuedReplies ==
  ASSUME NEW o, NEW who \in Objects, NEW w, Parses(w, o, who),
         w.ses.cmd.kind = "Idle", w.ses.cmd.idle = "WaitResponse", ~o.ses.cmd.flushing,
         o.ses.cmd.kind = "Idle", o.ses.cmd.idle # "WaitDone"
  PROVE  Replied(Complete(w, KErrNone), o, who)
<1> DEFINE v == Complete(w, KErrNone)
<1>1. /\ w \in Good /\ w \in World /\ w.fault = "None" /\ w.ses.open
      /\ w.ses.pending # "IdleDone"
  BY BusyFields, FreeCommand DEF Parses, Shaped
<1>2. w.ses.report = who /\ KErrNone \in Codes /\ w.ses \in Sessions
  BY <1>1, CodesAreStatuses, WorldFields DEF Parses
<1>3. /\ v \in Good /\ v.fault = w.fault /\ v.rd = w.rd /\ Rest(v, w)
      /\ v.ses = [w.ses EXCEPT !.report = "None"] /\ Marked(v.ao, w.ao, who, KErrNone)
  BY <1>1, <1>2, CompleteGives
<1> HIDE DEF v
<1>4. /\ v.ses.open /\ v.ses.report = "None" /\ ~v.ses.async /\ ~v.ses.flushTimer
      /\ v.ses.cmd = w.ses.cmd /\ v.ses.folder = w.ses.folder /\ v.ses.pending = w.ses.pending
  <2>1. w.ses.open /\ ~w.ses.async /\ ~w.ses.flushTimer
    BY <1>1 DEF Parses
  <2>. QED BY <1>2, <1>3, <2>1 DEF Sessions
<1>5. ~w.rd.limit
  BY DEF Parses, Due
<1>6. Held(v.ses, v.rd)
  BY <1>1, <1>3, <1>4, <1>5 DEF Held, Calm, Limited, Parses
<1>7. Only(v, o, who) /\ v.ao[who].status = KErrNone
  BY <1>1, <1>3 DEF Only, Marked, Rest, Parses
<1>8. v.ses.folder.box = o.ses.folder.box
  BY <1>4 DEF Parses
<1>9. Replied(v, o, who)
  BY <1>6, <1>7, <1>8 DEF Replied
<1>. QED BY <1>9 DEF v

\* A line is taken from the input.
LEMMA TakenParses ==
  ASSUME NEW o, NEW who \in Objects, NEW w, Parsing(w, o, who), w.ses.input # <<>>
  PROVE  LET u == Taken(w)
             line == Head(w.ses.input)
         IN /\ Parsing(u, o, who) /\ line \in Lines
            /\ Fits(u.ses.cmd, u.ses.folder, u.net, line)
            /\ line.kind # "exists" =>
                 /\ Quiet(u.ses.input) /\ Quiet(u.rd.buf) /\ Quiet(u.net.wire) /\ u.net.out = <<>>
                 /\ ~u.rd.limit
<1> DEFINE u == Taken(w)
           line == Head(w.ses.input)
<1>1. Busy(w) /\ w \in World /\ w.ses \in Sessions
  BY BusyFields, WorldFields DEF Parsing, Parses
<1>2. /\ Busy(u) /\ u.ses.input = Tail(w.ses.input) /\ line \in Lines
      /\ Fits(u.ses.cmd, u.ses.folder, u.net, line)
      /\ line.kind # "exists" => /\ Quiet(u.ses.input) /\ Quiet(u.rd.buf) /\ Quiet(u.net.wire)
                                 /\ u.net.out = <<>>
  BY <1>1, TakenSound
<1>3. /\ u.rd = w.rd /\ u.ses.cmd = w.ses.cmd /\ u.ses.folder = w.ses.folder
      /\ u.ses.pending = w.ses.pending /\ u.ses.report = w.ses.report
  BY <1>1, TakenFields
<1>4. u.ses = [w.ses EXCEPT !.input = Tail(w.ses.input)] /\ u.ao = w.ao /\ Rest(u, w)
  BY <1>1 DEF Taken, World, Rest
<1> HIDE DEF u
<1>5. u.ses.async = w.ses.async /\ u.ses.flushTimer = w.ses.flushTimer
  BY <1>1, <1>4 DEF Sessions
<1>6. /\ Quiet(w.ses.input) => Quiet(u.ses.input)
      /\ line.kind # "exists" => ~Quiet(w.ses.input)
  <2>1. w.ses.input \in Seq(Lines)
    BY <1>1 DEF Sessions
  <2>2. \E cmd, folder, n : AllFit(cmd, folder, n, w.ses.input)
    BY <1>1 DEF Busy, Sound, Wired
  <2>. QED BY <1>2, <2>1, <2>2, TailFits
<1>7. Parsing(u, o, who)
  BY <1>2, <1>3, <1>4, <1>5, <1>6 DEF Parsing, Parses, Rest
<1>8. line.kind # "exists" => ~u.rd.limit
  BY <1>3, <1>6 DEF Parsing, Parses
<1>9. /\ Parsing(u, o, who) /\ line \in Lines
      /\ Fits(u.ses.cmd, u.ses.folder, u.net, line)
      /\ line.kind # "exists" =>
           /\ Quiet(u.ses.input) /\ Quiet(u.rd.buf) /\ Quiet(u.net.wire) /\ u.net.out = <<>>
           /\ ~u.rd.limit
  BY <1>2, <1>7, <1>8
<1>. QED BY <1>9 DEF u

LEMMA UntaggedParses ==
  ASSUME NEW o, NEW who \in Objects, NEW u, Parsing(u, o, who), ~u.ses.cmd.flushing, NEW line \in Lines
  PROVE  Parsing(ParseUntagged(u, line).w, o, who)
<1> DEFINE v == [u EXCEPT !.ses.folder.exists = line.n]
           p == ParseUntagged(u, line)
<1>1. Busy(u) /\ u \in World /\ u.ses \in Sessions
  BY BusyFields, WorldFields DEF Parsing, Parses
<1>2. Busy(p.w) /\ p.w.ses.cmd = u.ses.cmd
  BY <1>1, UntaggedSound
<1>3. p.w = IF u.ses.folder = NoFolder THEN u ELSE v
  BY DEF ParseUntagged
<1> SUFFICES Parsing(p.w, o, who)
  OBVIOUS
<1> HIDE DEF p
<1>4. CASE u.ses.folder = NoFolder
  BY <1>3, <1>4
<1>5. CASE u.ses.folder # NoFolder
  <2> DEFINE f == [u.ses.folder EXCEPT !.exists = line.n]
  <2>1. f.box = u.ses.folder.box
    BY <1>1 DEF Sessions, Mailboxes
  <2> HIDE DEF f
  <2>2. v = [u EXCEPT !.ses.folder = f]
    BY DEF f
  <2> HIDE DEF v
  <2>3. /\ v.rd = u.rd /\ v.ao = u.ao /\ Rest(v, u) /\ v.ses = [u.ses EXCEPT !.folder = f]
    BY <1>1, <2>2 DEF World, Rest
  <2>4. /\ v.ses.async = u.ses.async /\ v.ses.flushTimer = u.ses.flushTimer
        /\ v.ses.report = u.ses.report /\ v.ses.input = u.ses.input
        /\ v.ses.pending = u.ses.pending /\ v.ses.folder = f
    BY <1>1, <2>3 DEF Sessions
  <2>. QED BY <1>2, <1>3, <1>5, <2>1, <2>3, <2>4 DEF Parsing, Parses, Rest
<1>. QED BY <1>4, <1>5

LEMMA ContinuationParses ==
  ASSUME NEW o, NEW who \in Objects, NEW u, Parses(u, o, who), ~u.rd.limit,
         u.ses.cmd.kind = "Idle", u.ses.cmd.idle = "WaitContinue",
         Quiet(u.ses.input), Quiet(u.rd.buf),
         Busy([u EXCEPT !.ses.cmd.idle = "WaitResponse"])
  PROVE  LET v == [u EXCEPT !.ses.cmd.idle = "WaitResponse"]
         IN /\ Parses(v, o, who) /\ v.ses.cmd.kind = "Idle" /\ v.ses.cmd.idle = "WaitResponse"
            /\ v.ses.pending = u.ses.pending
<1> DEFINE k == [u.ses.cmd EXCEPT !.idle = "WaitResponse"]
           v == [u EXCEPT !.ses.cmd = k]
<1>1. u \in World /\ u.ses \in Sessions
  BY BusyFields, WorldFields DEF Parses
<1>2. k.kind = "Idle" /\ k.idle = "WaitResponse"
  BY <1>1 DEF Sessions, Commands
<1>3. Busy(v)
  OBVIOUS
<1> HIDE DEF k
<1>4. v.rd = u.rd /\ v.ao = u.ao /\ Rest(v, u) /\ v.ses = [u.ses EXCEPT !.cmd = k]
  BY <1>1 DEF World, Rest
<1> HIDE DEF v
<1>5. /\ v.ses.async = u.ses.async /\ v.ses.flushTimer = u.ses.flushTimer
      /\ v.ses.report = u.ses.report /\ v.ses.input = u.ses.input
      /\ v.ses.pending = u.ses.pending /\ v.ses.folder = u.ses.folder /\ v.ses.cmd = k
  BY <1>1, <1>4 DEF Sessions
<1>6. /\ Parses(v, o, who) /\ v.ses.cmd.kind = "Idle" /\ v.ses.cmd.idle = "WaitResponse"
      /\ v.ses.pending = u.ses.pending
  BY <1>2, <1>3, <1>4, <1>5 DEF Parses, Rest
<1>. QED BY <1>6 DEF v, k

\* What becomes of a line that was parsed.
Parsed(p, line, o, who) ==
  /\ p.res = "Corrupt" => Replied(CloseWith(p.w, KErrImapCorrupt), o, who)
  /\ p.res = "Complete" => Replied(CommandComplete(p.w, line), o, who)
  /\ p.res = "More" => IF Intermediate(p.w) THEN Replied(Complete(p.w, KErrNone), o, who)
                       ELSE Parsing(p.w, o, who)

LEMMA ParseGives ==
  ASSUME NEW o, NEW who \in Objects, NEW u, Parsing(u, o, who), NEW line \in Lines,
         Fits(u.ses.cmd, u.ses.folder, u.net, line),
         line.kind # "exists" => /\ Quiet(u.ses.input) /\ Quiet(u.rd.buf) /\ Quiet(u.net.wire)
                                 /\ u.net.out = <<>> /\ ~u.rd.limit
  PROVE  Parsed(ParseBlockL(u, line), line, o, who)
<1>0. /\ Busy(u) /\ u \in World /\ Parses(u, o, who) /\ u.ses.cmd = o.ses.cmd
      /\ Shaped(u.ses.cmd, u.ses.state, u.ses.pending, u.ses.folder, u.ses.server)
      /\ u.ses.cmd # NoCmd
  BY BusyFields DEF Parsing, Parses
<1>1. line.kind \in {"exists", "cont", "ok", "no"}
  BY DEF Lines
<1>2. Replied(CloseWith(u, KErrImapCorrupt), o, who)
  BY CorruptReplies
<1>3. Intermediate(u) => ~u.ses.cmd.flushing /\ u.ses.cmd.kind = "Idle" /\ u.ses.cmd.idle = "WaitResponse"
  BY <1>0, FreeCommand DEF Intermediate, Shaped
<1>4. Intermediate(u) => Replied(Complete(u, KErrNone), o, who)
  BY <1>0, <1>3, ContinuedReplies
<1>5. CASE u.ses.cmd.flushing
  <2>1. ParseBlockL(u, line) = ParseFlushing(u, line)
    BY <1>5 DEF ParseBlockL
  <2>2. line.kind \in {"ok", "no"} => CommandComplete(u, line) \in Good
    BY <1>0, TaggedEnds
  <2>3. line.kind \in {"ok", "no"} => Replied(CommandComplete(u, line), o, who)
    BY <1>5, <2>2, CompleteReplies
  <2>. QED BY <1>1, <1>2, <1>4, <2>1, <2>3 DEF ParseFlushing, Parsed
<1>6. CASE ~u.ses.cmd.flushing /\ line.kind = "cont"
  <2> DEFINE v == [u EXCEPT !.ses.cmd.idle = "WaitResponse"]
  <2>1. ParseBlockL(u, line) = IF u.ses.cmd.kind = "Idle" /\ u.ses.cmd.idle = "WaitContinue"
                               THEN [w |-> v, res |-> "More"] ELSE [w |-> u, res |-> "Corrupt"]
    BY <1>6 DEF ParseBlockL, ParseCont
  <2>2. CASE u.ses.cmd.kind = "Idle" /\ u.ses.cmd.idle = "WaitContinue"
    <3>1. u.net.up => u.net.idling
      BY <1>6 DEF Fits
    <3>2. Busy(v)
      BY <1>0, <1>6, <2>2, <3>1, ContinuationSound
    <3>3. /\ Parses(v, o, who) /\ v.ses.cmd.kind = "Idle" /\ v.ses.cmd.idle = "WaitResponse"
          /\ v.ses.pending = u.ses.pending
      BY <1>0, <1>6, <2>2, <3>2, ContinuationParses
    <3> HIDE DEF v
    <3>4. u.ses.pending \in {"IdleEnter", "IdleWait"}
      BY <1>0, <2>2, FreeCommand DEF Shaped
    <3>5. Intermediate(v)
      BY <3>3, <3>4 DEF Intermediate
    <3>6. Replied(Complete(v, KErrNone), o, who)
      BY <1>0, <1>6, <2>2, <3>3, ContinuedReplies
    <3>. QED BY <2>1, <2>2, <3>5, <3>6 DEF Parsed
  <2>3. CASE ~(u.ses.cmd.kind = "Idle" /\ u.ses.cmd.idle = "WaitContinue")
    <3> HIDE DEF v
    <3>. QED BY <1>2, <2>1, <2>3 DEF Parsed
  <2>. QED BY <2>2, <2>3
<1>7. CASE ~u.ses.cmd.flushing /\ line.kind = "exists"
  <2> DEFINE p == ParseUntagged(u, line)
  <2>1. ParseBlockL(u, line) = p
    BY <1>7 DEF ParseBlockL
  <2>2. p.res = IF u.ses.cmd.kind = "Wait" THEN "Complete" ELSE "More"
    BY DEF ParseUntagged
  <2>3. Parsing(p.w, o, who)
    BY <1>7, UntaggedParses
  <2> HIDE DEF p
  <2>4. /\ Busy(p.w) /\ Parses(p.w, o, who) /\ p.w.ses.cmd = u.ses.cmd
    BY <1>0, <2>3 DEF Parsing, Parses
  <2>5. u.ses.cmd.kind = "Wait" => Replied(CommandComplete(p.w, line), o, who)
    <3> SUFFICES ASSUME u.ses.cmd.kind = "Wait" PROVE Replied(CommandComplete(p.w, line), o, who)
      OBVIOUS
    <3>1. CommandComplete(p.w, line) \in Good
      BY <1>7, <2>4, EventEnds
    <3>2. ~p.w.rd.limit /\ p.w.ses.cmd.kind # "Idle"
      BY <2>4 DEF Parses, Due
    <3>. QED BY <2>3, <3>1, <3>2, CompleteReplies
  <2>6. Intermediate(p.w) => Replied(Complete(p.w, KErrNone), o, who)
    <3> SUFFICES ASSUME Intermediate(p.w) PROVE Replied(Complete(p.w, KErrNone), o, who)
      OBVIOUS
    <3>1. p.w.ses.cmd.kind = "Idle" /\ p.w.ses.cmd.idle = "WaitResponse"
      <4>1. Shaped(p.w.ses.cmd, p.w.ses.state, p.w.ses.pending, p.w.ses.folder, p.w.ses.server)
        BY <2>4, BusyFields
      <4>. QED BY <4>1, FreeCommand DEF Intermediate, Shaped
    <3>. QED BY <1>0, <1>7, <2>4, <3>1, ContinuedReplies
  <2>. QED BY <2>1, <2>2, <2>3, <2>5, <2>6 DEF Parsed
<1>8. CASE ~u.ses.cmd.flushing /\ line.kind \in {"ok", "no"}
  <2>1. ParseBlockL(u, line) = ParseTagged(u, line)
    BY <1>8 DEF ParseBlockL
  <2>2. CommandComplete(u, line) \in Good
    BY <1>0, <1>8, TaggedEnds
  <2>3. line.kind \in Expected(u.ses.cmd)
    BY <1>8 DEF Fits
  <2>4. u.ses.cmd.kind = "Idle" /\ u.ses.cmd.idle # "WaitDone" => line.kind = "no"
    BY <1>8, <2>3 DEF Expected
  <2>5. Replied(CommandComplete(u, line), o, who)
    BY <1>8, <2>2, <2>4, CompleteReplies
  <2>. QED BY <1>2, <2>1, <2>5 DEF ParseTagged, Parsed
<1>. QED BY <1>1, <1>5, <1>6, <1>7, <1>8

\* The loop goes on with the one who waits, or has answered.
Heard(lines, o, who, n) ==
  {acc \in Sounds(lines, n) : /\ acc.go => Parsing(acc.w, o, who)
                              /\ ~acc.go => Replied(acc.w, o, who)}

LEMMA RoundGives ==
  ASSUME NEW o, NEW who \in Objects, NEW lines \in Seq(Lines), NEW n \in 1 .. Len(lines),
         NEW acc \in Heard(lines, o, who, n - 1)
  PROVE  Round(acc, lines[n]) \in Heard(lines, o, who, n)
<1> DEFINE w == acc.w
           u == Taken(w)
           p == ParseBlockL(u, lines[n])
           a == Round(acc, lines[n])
<1>0. acc \in Sounds(lines, n - 1) /\ acc \in [w : World, go : BOOLEAN]
  BY DEF Heard, Sounds
<1>1. a \in Sounds(lines, n)
  BY <1>0, RoundSound
<1> SUFFICES /\ a.go => Parsing(a.w, o, who)
             /\ ~a.go => Replied(a.w, o, who)
  BY <1>1 DEF Heard
<1>2. CASE ~acc.go
  BY <1>0, <1>2 DEF Round, Heard
<1>3. CASE acc.go
  <2>1. acc \in Accs(lines, n - 1) /\ Parsing(w, o, who)
    BY <1>0, <1>3 DEF Heard, Accs, Sounds
  <2>2. w.ses.input # <<>> /\ lines[n] = Head(w.ses.input)
    BY <1>3, <2>1, NextLine
  <2>3. a = CASE p.res = "Corrupt" -> [w |-> CloseWith(p.w, KErrImapCorrupt), go |-> FALSE]
              [] p.res = "Complete" -> [w |-> CommandComplete(p.w, lines[n]), go |-> FALSE]
              [] OTHER -> IF Intermediate(p.w) THEN [w |-> Complete(p.w, KErrNone), go |-> FALSE]
                          ELSE [w |-> p.w, go |-> TRUE]
    BY <1>3 DEF Round, Taken
  <2> HIDE DEF w
  <2>4. /\ Parsing(u, o, who) /\ lines[n] \in Lines
        /\ Fits(u.ses.cmd, u.ses.folder, u.net, lines[n])
        /\ lines[n].kind # "exists" =>
             /\ Quiet(u.ses.input) /\ Quiet(u.rd.buf) /\ Quiet(u.net.wire) /\ u.net.out = <<>>
             /\ ~u.rd.limit
    BY <2>1, <2>2, TakenParses
  <2> HIDE DEF u, a
  <2>5. Parsed(p, lines[n], o, who)
    BY <2>4, ParseGives
  <2>6. p.res \in {"More", "Complete", "Corrupt"}
    <3>1. Busy(u)
      BY <2>4 DEF Parsing, Parses
    <3>. QED BY <2>4, <3>1, ParseSound
  <2> HIDE DEF p
  <2>. QED BY <2>3, <2>5, <2>6 DEF Parsed
<1>4. acc.go \in BOOLEAN
  BY <1>0
<1>. QED BY <1>2, <1>3, <1>4

LEMMA RoundsGive ==
  ASSUME NEW o, NEW who \in Objects, NEW w, Parsing(w, o, who)
  PROVE  Rounds(w, w.ses.input)[Len(w.ses.input)]
           \in Heard(w.ses.input, o, who, Len(w.ses.input))
<1> DEFINE lines == w.ses.input
           Kept == [n \in 0 .. Len(lines) |-> Heard(lines, o, who, n)]
<1>1. lines \in Seq(Lines) /\ Len(lines) \in Nat /\ w \in World /\ w \in Good /\ Busy(w)
  BY SessionFields, BusyFields DEF Parsing, Parses
<1>2. [w |-> w, go |-> TRUE] \in Kept[0]
  <2>1. SubSeq(lines, 1, Len(lines)) = lines
    BY <1>1, SubSeqFull
  <2>2. Kept[0] = Heard(lines, o, who, 0) /\ 0 + 1 = 1
    BY <1>1
  <2>3. [w |-> w, go |-> TRUE] \in [w : World, go : BOOLEAN]
    BY <1>1
  <2> HIDE DEF Kept
  <2>4. [w |-> w, go |-> TRUE] \in Sounds(lines, 0)
    BY <1>1, <2>1, <2>2, <2>3 DEF Sounds
  <2>. QED BY <2>2, <2>4 DEF Heard
<1> HIDE DEF lines
<1>3. \A n \in 1 .. Len(lines) : \A acc \in Kept[n - 1] : Round(acc, lines[n]) \in Kept[n]
  BY <1>1, RoundGives
<1>4. Rounds(w, lines)[Len(lines)] \in Kept[Len(lines)]
  <2> HIDE DEF Kept
  <2>. QED BY <1>1, <1>2, <1>3, LoopInduction
<1>5. Kept[Len(lines)] = Heard(lines, o, who, Len(lines))
  BY <1>1
<1> HIDE DEF Kept
<1>. QED BY <1>4, <1>5 DEF lines

\* From w to v the one who waits goes on waiting for the same.
Goes(v, w, who) ==
  /\ Only(v, w, who) /\ Waits(v, who) /\ v.ses.cmd = w.ses.cmd
  /\ v.ses.folder.box = w.ses.folder.box
Progress(v, w, who) == Replied(v, w, who) \/ Goes(v, w, who)

LEMMA RequestReadDataGives ==
  ASSUME NEW o, NEW who \in Objects, NEW w, Parsing(w, o, who), w.ses.input = <<>>
  PROVE  Goes(RequestReadData(w), o, who)
<1> DEFINE v == RequestReadData(w)
<1>1. /\ w \in Good /\ w \in World /\ w.fault = "None" /\ w.ses.open /\ w.ses.cmd # NoCmd
      /\ w.ses.state = "Flushing" => w.ses.cmd.flushing
      /\ w.ses.pending = "IdleDone" => Due(w.ses.cmd)
  BY BusyFields DEF Parsing, Parses, Shaped, Due
<1>2. /\ w.ses \in Sessions /\ w.rd \in Readers /\ w.ses.report = who /\ who # "None"
      /\ ~w.ses.async /\ ~w.ses.flushTimer /\ w.rd.state = "Idle" /\ ~w.rd.timer
      /\ w.rd.limit => Due(w.ses.cmd) /\ Quiet(w.rd.buf)
      /\ w.ses.pending = "IdleDone" => Due(w.ses.cmd) /\ Quiet(w.rd.buf)
  BY <1>1, WorldFields DEF Parsing, Parses, Objects
<1>3. v.fault = "None" /\ v \in Good
  BY <1>1, <1>2, RequestReadDataSafe, GoodRequestReadData
<1>4. /\ v \in World /\ v.ao = w.ao /\ Rest(v, w)
      /\ v.ses = Asked(w.ses) /\ v.rd = ReadWith(w.rd, w.ses.pending = "IdleDone")
  BY <1>1, <1>3, RequestReadDataEffect
<1> HIDE DEF v
<1>5. /\ Serving(v.ses, v.rd) /\ v.ses.report = who /\ v.ses.cmd = w.ses.cmd
      /\ v.ses.folder = w.ses.folder
  BY <1>1, <1>2, <1>4, AskedServes
<1>6. Only(v, o, who) /\ v.ao[who].status = KRequestPending
  BY <1>3, <1>4 DEF Only, Parsing, Parses, Marked, Rest
<1>7. Goes(v, o, who)
  BY <1>5, <1>6 DEF Goes, Waits, Pending, Parsing, Parses
<1>. QED BY <1>7 DEF v

LEMMA ProcessGives ==
  ASSUME NEW o, NEW who \in Objects, NEW w, Parsing(w, o, who)
  PROVE  Progress(ProcessInputBufferL(w), o, who)
<1> DEFINE lines == w.ses.input
           r == Rounds(w, lines)[Len(lines)]
<1>1. /\ w \in World /\ w.fault = "None" /\ w.ses.cmd # NoCmd /\ w.ses.state # "Unrecoverable"
      /\ lines \in Seq(Lines)
  BY BusyFields, SessionFields DEF Parsing, Parses, Shaped
<1>2. /\ Expect(w, w.ses.cmd # NoCmd, "SessionNullCurrentCommand") = w
      /\ Expect(w, w.ses.state # "Unrecoverable", "SessionInvalidSessionState") = w
  BY <1>1 DEF Expect
<1>3. ProcessInputBufferL(w) = IF r.go THEN RequestReadData(r.w) ELSE r.w
  <2> HIDE DEF r
  <2>1. ProcessInputBufferL(w) =
          LET q == Rounds(w, w.ses.input)[Len(w.ses.input)]
          IN IF q.go THEN RequestReadData(q.w) ELSE q.w
    BY <1>1, <1>2 DEF ProcessInputBufferL
  <2>. QED BY <2>1 DEF r
<1>4. r \in Heard(lines, o, who, Len(lines))
  BY RoundsGive
<1> HIDE DEF r
<1>5. r.go \in BOOLEAN /\ (r.go => r.w.ses.input = SubSeq(lines, Len(lines) + 1, Len(lines)))
  BY <1>4 DEF Heard, Sounds
<1>6. SubSeq(lines, Len(lines) + 1, Len(lines)) = <<>>
  BY <1>1
<1>7. CASE r.go
  BY <1>3, <1>4, <1>5, <1>6, <1>7, RequestReadDataGives DEF Heard, Progress
<1>8. CASE ~r.go
  BY <1>3, <1>4, <1>8 DEF Heard, Progress
<1>. QED BY <1>5, <1>7, <1>8

LEMMA WaitsFields ==
  ASSUME NEW w \in Good, w.fault = "None", NEW who \in Objects, Waits(w, who)
  PROVE  /\ w \in World /\ w.ses \in Sessions /\ w.rd \in Readers /\ w.ao \in ActiveObjects
         /\ Busy(w) /\ Marked(w.ao, w.ao, who, KRequestPending) /\ w.ses.report = who
         /\ w.ses.open /\ w.ses.cmd # NoCmd /\ Limited(w.ses, w.rd)
<1>1. w \in World /\ w.ses.open /\ w.ses.cmd # NoCmd /\ w.ses.report = who /\ Limited(w.ses, w.rd)
  BY DEF Good, Waits, Serving
<1>2. Busy(w)
  BY <1>1 DEF Busy, Good
<1>. QED BY <1>1, <1>2, WorldFields DEF Marked, Waits, Pending

LEMMA AsyncGives ==
  ASSUME NEW w \in Good, w.fault = "None", NEW who \in Objects, Waits(w, who), w.ses.async
  PROVE  Progress(AsyncCallBack(w), w, who)
<1> DEFINE v == [w EXCEPT !.ses.async = FALSE]
<1>1. /\ w \in World /\ w.ses \in Sessions /\ w.ses.report = who /\ w.ses.open
      /\ w.ses.cmd # NoCmd /\ Limited(w.ses, w.rd) /\ Marked(w.ao, w.ao, who, KRequestPending)
  BY WaitsFields
<1>2. /\ ~Reading(w.rd) /\ w.rd.state = "Idle" /\ ~w.rd.ready /\ ~w.rd.failed /\ ~w.rd.timer
      /\ ~w.ses.flushTimer
  BY <1>1, ReaderFields DEF Waits, Serving, Reading
<1>3. /\ v \in World /\ v.fault = "None" /\ v.rd = w.rd /\ v.ao = w.ao /\ v.net = w.net /\ Rest(v, w)
      /\ v.ses = [w.ses EXCEPT !.async = FALSE]
  BY <1>1, SetAsync DEF World, Rest
<1>4. AsyncCallBack(w) = ProcessInputBufferL(v)
  BY DEF AsyncCallBack
<1> HIDE DEF v
<1>5. Alike(v.ses, w.ses)
  <2>1. Alike([w.ses EXCEPT !.async = FALSE], w.ses)
    BY <1>1, SessionsAlike, ZenonT(60)
  <2>. QED BY <1>3, <2>1
<1>6. v \in Good
  BY <1>3, <1>5, GoodAlike
<1>7. v.ses.report = who /\ ~v.ses.async /\ ~v.ses.flushTimer
  BY <1>1, <1>2, <1>3 DEF Sessions
<1>8. Busy(v)
  BY <1>1, <1>3, <1>5, <1>6 DEF Busy, Good, Alike
<1>9. Parsing(v, w, who)
  BY <1>1, <1>2, <1>3, <1>5, <1>7, <1>8, QuietEmpty DEF Parsing, Parses, Limited, Alike
<1>. QED BY <1>4, <1>9, ProcessGives

\* The streams are closed under the one who waits.
LEMMA ClosedReplies ==
  ASSUME NEW w \in Good, w.fault = "None", NEW who \in Objects, Waits(w, who),
         NEW u \in World, u.fault = "None", u.ses = w.ses, u.ao = w.ao, Rest(u, w)
  PROVE  Replied(StreamsClosed(u), w, who)
<1> DEFINE v == StreamsClosed(u)
<1>1. /\ u.ses.report = who /\ Marked(w.ao, w.ao, who, KRequestPending)
      /\ w.ses.cmd.kind # "Select" /\ w.ses.folder # NoFolder => w.ses.server = "Selected"
  BY WaitsFields, BusyFields
<1>2. /\ Only(v, u, who) /\ Lost(v.ses, v.rd) /\ v.ao[who].status = KErrImapClosed
      /\ v.ses.folder = u.ses.folder /\ v.ses.server = u.ses.server
  BY <1>1, ClosesGives
<1> HIDE DEF v
<1>3. Only(v, w, who)
  BY <1>1, <1>2, OnlyAfter
<1>4. /\ KErrImapClosed # KRequestPending /\ Fatal(KErrImapClosed) /\ KErrImapClosed # KErrNone
  BY CodesAreStatuses, CodeFacts
<1>5. Settled(v, who) /\ Told(v, who)
  BY <1>2, <1>4 DEF Settled, Told, Pending, Off, Over
<1>6. w.ses.cmd.kind # "Select" => Free(v.ses, v.rd)
  BY <1>1, <1>2 DEF Free, Over
<1>7. Replied(v, w, who)
  BY <1>2, <1>3, <1>4, <1>5, <1>6 DEF Replied
<1>. QED BY <1>7 DEF v

LEMMA ReaderTimeoutGives ==
  ASSUME NEW w \in Good, w.fault = "None", NEW who \in Objects, Waits(w, who)
  PROVE  Progress(ReaderTimeout(w), w, who)
<1> DEFINE u == [w EXCEPT !.rd.timer = FALSE]
<1>1. w \in World
  BY DEF Good
<1>2. u \in World /\ u.fault = "None" /\ u.ses = w.ses /\ u.ao = w.ao /\ Rest(u, w)
  BY <1>1, SetTimer DEF World, Rest
<1> HIDE DEF u
<1>3. Replied(StreamsClosed(u), w, who)
  BY <1>2, ClosedReplies
<1>. QED BY <1>3 DEF ReaderTimeout, Progress, u

\* Only the reader, and what is on the wire, has changed.
LEMMA ReaderGoes ==
  ASSUME NEW w, NEW who \in Objects, Waits(w, who), NEW v \in Good, v.fault = "None",
         v.ses = w.ses, v.ao = w.ao, Rest(v, w), Serving(v.ses, v.rd)
  PROVE  Goes(v, w, who)
  BY DEF Goes, Only, Waits, Pending, Marked

LEMMA ReceivedGives ==
  ASSUME NEW w \in Good, w.fault = "None", NEW who \in Objects, Waits(w, who), Receiving(w),
         NEW k \in 1 .. Len(w.net.wire)
  PROVE  Goes(Received(w, k), w, who)
<1> DEFINE b == SubSeq(w.net.wire, 1, k)
           c == SubSeq(w.net.wire, k + 1, Len(w.net.wire))
           v == [w EXCEPT !.rd.buf = b, !.rd.ready = TRUE, !.net.wire = c]
<1>1. Received(w, k) = v
  BY DEF Received
<1>2. /\ w \in World /\ w.ses \in Sessions /\ w.rd \in Readers /\ w.ses.report = who
      /\ w.ses.open /\ w.ses.cmd # NoCmd /\ Limited(w.ses, w.rd) /\ Serving(w.ses, w.rd)
  BY WaitsFields DEF Waits
<1> HIDE DEF b, c
<1>3. /\ v.fault = "None" /\ v.ses = w.ses /\ v.ao = w.ao /\ Rest(v, w)
      /\ v.rd = [w.rd EXCEPT !.buf = b, !.ready = TRUE]
  BY <1>2 DEF World, Rest
<1> HIDE DEF v
<1>4. /\ v.rd.state = "ReceivedData" /\ v.rd.ready /\ v.rd.limit = w.rd.limit
      /\ v.rd.timer = w.rd.timer /\ w.rd.state = "ReceivedData" /\ ~w.rd.ready
  BY <1>2, <1>3 DEF Receiving, Readers
<1>5. ~w.rd.limit
  BY <1>2, <1>4 DEF Limited
<1>6. Serving(v.ses, v.rd)
  BY <1>2, <1>3, <1>4, <1>5 DEF Serving, Limited, Reading
<1>7. v \in Good
  BY <1>1, GoodReceived
<1>8. Goes(v, w, who)
  BY <1>3, <1>6, <1>7, ReaderGoes
<1>. QED BY <1>1, <1>8

LEMMA ReceiveFailedGives ==
  ASSUME NEW w \in Good, w.fault = "None", NEW who \in Objects, Waits(w, who), Receiving(w)
  PROVE  Goes(ReceiveFailed(w), w, who)
<1> DEFINE v == [w EXCEPT !.rd.ready = TRUE, !.rd.failed = TRUE]
<1>1. ReceiveFailed(w) = v
  BY DEF ReceiveFailed
<1>2. /\ w \in World /\ w.ses \in Sessions /\ w.rd \in Readers /\ w.ses.report = who
      /\ w.ses.open /\ w.ses.cmd # NoCmd /\ Limited(w.ses, w.rd) /\ Serving(w.ses, w.rd)
  BY WaitsFields DEF Waits
<1>3. /\ v.fault = "None" /\ v.ses = w.ses /\ v.ao = w.ao /\ Rest(v, w)
      /\ v.rd = [w.rd EXCEPT !.ready = TRUE, !.failed = TRUE]
  BY <1>2 DEF World, Rest
<1> HIDE DEF v
<1>4. /\ v.rd.state = "ReceivedData" /\ v.rd.ready /\ v.rd.limit = w.rd.limit
      /\ v.rd.timer = w.rd.timer /\ w.rd.state = "ReceivedData" /\ ~w.rd.ready
  BY <1>2, <1>3 DEF Receiving, Readers
<1>5. ~w.rd.limit
  BY <1>2, <1>4 DEF Limited
<1>6. Serving(v.ses, v.rd)
  BY <1>2, <1>3, <1>4, <1>5 DEF Serving, Limited, Reading
<1>7. v \in Good
  BY <1>1, GoodTimers
<1>8. Goes(v, w, who)
  BY <1>3, <1>6, <1>7, ReaderGoes
<1>. QED BY <1>1, <1>8

\* When nobody waits the session is left in peace.
LEMMA Peace ==
  ASSUME NEW w, Off(w.ses, w.rd) \/ Held(w.ses, w.rd)
  PROVE  ~w.ses.async /\ ~w.ses.flushTimer /\ ~w.rd.ready /\ ~w.rd.timer /\ ~Receiving(w)
  BY DEF Off, Over, Resting, Left, Held, Calm, Lost, Receiving

LEMMA FlushTimeoutGives ==
  ASSUME NEW w \in Good, w.fault = "None", NEW who \in Objects, Waits(w, who), w.ses.flushTimer
  PROVE  Progress(FlushTimeout(w), w, who)
<1> DEFINE d == DoCancel(w)
           v == Complete(d, KErrImapFlushTimeout)
<1>1. /\ w \in World /\ w.ses \in Sessions /\ w.rd \in Readers /\ w.ses.report = who
      /\ w.ses.open /\ w.ses.cmd # NoCmd /\ w.ses.cmd.flushing /\ Limited(w.ses, w.rd)
      /\ Marked(w.ao, w.ao, who, KRequestPending)
  BY WaitsFields DEF Waits, Serving
<1>2. w.ses.state # "Normal"
  <2>1. Shaped(w.ses.cmd, w.ses.state, w.ses.pending, w.ses.folder, w.ses.server)
    BY WaitsFields, BusyFields
  <2>. QED BY <1>1, <2>1 DEF Shaped
<1>3. FlushTimeout(w) = v
  <2>1. Expect(w, w.ses.cmd.flushing, "SessionCommandNotFlushing") = w
    BY <1>1 DEF Expect
  <2>. QED BY <2>1 DEF FlushTimeout
<1>4. v \in Good
  BY <1>3, GoodTimers
<1>5. /\ d \in World /\ d.fault = "None" /\ d.ao = w.ao /\ Rest(d, w)
      /\ d.ses = [w.ses EXCEPT !.async = FALSE, !.flushTimer = FALSE] /\ d.rd = Unread(w.rd)
  <2>1. /\ d \in World /\ d.fault = w.fault /\ d.ao = w.ao /\ Rest(d, w)
        /\ d.ses = Cancelled(w.ses) /\ d.rd = IF w.ses.open THEN Unread(w.rd) ELSE w.rd
    BY <1>1, DoCancelEffect
  <2>2. Cancelled(w.ses) = [w.ses EXCEPT !.async = FALSE, !.flushTimer = FALSE]
    BY <1>2 DEF Cancelled
  <2> HIDE DEF d
  <2>. QED BY <1>1, <2>1, <2>2
<1> HIDE DEF d
<1>6. /\ d.ses.report = who /\ d.ses.open /\ d.ses.cmd = w.ses.cmd /\ d.ses.folder = w.ses.folder
      /\ ~d.ses.async /\ ~d.ses.flushTimer /\ d.ses.input = w.ses.input
      /\ d.ses.pending = w.ses.pending
  BY <1>1, <1>5 DEF Sessions
<1>7. KErrImapFlushTimeout \in Codes /\ d.ses \in Sessions
  BY <1>5, CodesAreStatuses, WorldFields
<1>8. /\ v.fault = "None" /\ v.rd = d.rd /\ Rest(v, d) /\ v.ses = [d.ses EXCEPT !.report = "None"]
      /\ v.ao = Answered(d.ao, who, KErrImapFlushTimeout)
  BY <1>5, <1>6, <1>7, CompleteAnswers
<1> HIDE DEF v
<1>9. /\ v.ses.report = "None" /\ v.ses.open /\ v.ses.cmd = w.ses.cmd /\ v.ses.folder = w.ses.folder
      /\ ~v.ses.async /\ ~v.ses.flushTimer /\ v.ses.input = w.ses.input
      /\ v.ses.pending = w.ses.pending
  <2>1. /\ v.ses.open = d.ses.open /\ v.ses.cmd = d.ses.cmd /\ v.ses.folder = d.ses.folder
        /\ v.ses.async = d.ses.async /\ v.ses.flushTimer = d.ses.flushTimer
        /\ v.ses.input = d.ses.input /\ v.ses.pending = d.ses.pending /\ v.ses.report = "None"
    BY <1>7, <1>8 DEF Sessions
  <2>. QED BY <1>6, <2>1
<1>10. /\ v.rd.state = "Idle" /\ ~v.rd.ready /\ ~v.rd.failed /\ ~v.rd.timer
       /\ v.rd.limit = w.rd.limit /\ v.rd.buf = w.rd.buf
  BY <1>1, <1>5, <1>8 DEF Unread, Readers
<1>11. Left(v.ses, v.rd)
  BY <1>1, <1>9, <1>10 DEF Left, Calm, Limited, Reading
<1>12. Marked(v.ao, w.ao, who, KErrImapFlushTimeout)
  <2>1. w.ao \in ActiveObjects
    BY <1>1, WorldFields
  <2>. QED BY <1>5, <1>8, <2>1, AnsweredMarks
<1>13. Only(v, w, who) /\ v.ao[who].status = KErrImapFlushTimeout
  BY <1>4, <1>5, <1>8, <1>12 DEF Only, Marked, Rest
<1>14. KErrImapFlushTimeout # KRequestPending /\ Fatal(KErrImapFlushTimeout)
  BY <1>7, CodeFacts
<1>15. Settled(v, who)
  BY <1>11, <1>13, <1>14 DEF Settled, Pending, Off
<1>16. Replied(v, w, who)
  BY <1>1, <1>9, <1>13, <1>15 DEF Replied
<1>. QED BY <1>3, <1>16 DEF Progress

LEMMA ReaderGives ==
  ASSUME NEW w \in Good, w.fault = "None", NEW who \in Objects, Waits(w, who), w.rd.ready
  PROVE  Progress(ReaderRunL(w), w, who)
<1> DEFINE v == [w EXCEPT !.rd.timer = FALSE, !.rd.ready = FALSE]
           l == w.rd.limit
           a == [v EXCEPT !.rd.state = "ReceivedData", !.rd.timer = l, !.rd.limit = FALSE]
           b == [v EXCEPT !.rd.state = "Idle", !.rd.buf = <<>>]
           x == Delivered(b, w.rd.buf)
<1>1. /\ w \in World /\ w.ses \in Sessions /\ w.rd \in Readers /\ w.ses.report = who
      /\ w.ses.open /\ w.ses.cmd # NoCmd /\ Limited(w.ses, w.rd) /\ w.ao \in ActiveObjects
      /\ Marked(w.ao, w.ao, who, KRequestPending) /\ Serving(w.ses, w.rd)
  BY WaitsFields DEF Waits
<1>2. /\ Reading(w.rd) /\ ~w.ses.async /\ w.ses.input = <<>> /\ w.ses.pending # "IdleDone"
      /\ w.rd.buf \in Seq(Lines) /\ w.rd.failed \in BOOLEAN /\ l \in BOOLEAN /\ <<>> \in Seq(Lines)
      /\ l => Due(w.ses.cmd) /\ Quiet(w.rd.buf)
      /\ w.ses.flushTimer => w.ses.cmd.flushing
  BY <1>1, ReaderFields DEF Serving, Limited
<1>3. ReaderRunL(w) = CASE w.rd.failed -> StreamsClosed(v)
                        [] ~w.rd.failed /\ w.rd.state = "Read" -> a
                        [] OTHER -> ReceivedDataIndL(b, w.rd.buf)
  BY DEF ReaderRunL
<1>4. v \in World /\ ReaderRunL(w) \in Good
  BY <1>1, SetTimer, SetReady, GoodReaderRun
<1> HIDE DEF l
<1>5. /\ v.fault = "None" /\ v.ses = w.ses /\ v.net = w.net /\ v.ao = w.ao /\ Rest(v, w)
      /\ v.rd = [w.rd EXCEPT !.timer = FALSE, !.ready = FALSE]
  BY <1>1 DEF World, Rest
<1> HIDE DEF v
<1>6. /\ v.rd \in Readers /\ v.rd.buf = w.rd.buf /\ v.rd.limit = l /\ ~v.rd.ready /\ ~v.rd.timer
      /\ v.rd.failed = w.rd.failed
  BY <1>1, <1>4, <1>5, WorldFields DEF Readers, l
<1>7. CASE w.rd.failed
  <2>1. Replied(StreamsClosed(v), w, who)
    BY <1>4, <1>5, ClosedReplies
  <2>. QED BY <1>3, <1>7, <2>1 DEF Progress
<1>8. CASE ~w.rd.failed /\ w.rd.state = "Read"
  <2>1. a.fault = v.fault /\ a.ses = v.ses /\ a.ao = v.ao /\ Rest(a, v)
        /\ a.rd = [v.rd EXCEPT !.state = "ReceivedData", !.timer = l, !.limit = FALSE]
    BY <1>4 DEF World, Rest
  <2>2. ReaderRunL(w) = a
    BY <1>3, <1>8
  <2> HIDE DEF a
  <2>3. /\ a.rd.state = "ReceivedData" /\ a.rd.timer = l /\ ~a.rd.limit /\ ~a.rd.ready
        /\ a.rd.buf = w.rd.buf
    BY <1>6, <2>1 DEF Readers
  <2>4. Serving(a.ses, a.rd)
    BY <1>1, <1>2, <1>5, <2>1, <2>3 DEF Serving, Limited, Reading
  <2>5. Goes(a, w, who)
    BY <1>4, <1>5, <2>1, <2>2, <2>4, ReaderGoes DEF Rest
  <2>. QED BY <2>2, <2>5 DEF Progress
<1>9. CASE ~w.rd.failed /\ w.rd.state # "Read"
  <2>1. b \in World
    BY <1>2, <1>4, SetRdState, SetBuf
  <2>2. /\ b.fault = v.fault /\ b.ses = v.ses /\ b.net = v.net /\ b.ao = v.ao /\ Rest(b, v)
        /\ b.rd = [v.rd EXCEPT !.state = "Idle", !.buf = <<>>]
    BY <1>4 DEF World, Rest
  <2> HIDE DEF b
  <2>3. /\ b.rd.state = "Idle" /\ b.rd.buf = <<>> /\ b.rd.limit = l /\ ~b.rd.ready /\ ~b.rd.timer
        /\ ~b.rd.failed
    BY <1>6, <1>9, <2>2 DEF Readers
  <2>4. /\ x \in World /\ x.fault = b.fault /\ x.rd = b.rd /\ x.net = b.net
        /\ x.ses.open = b.ses.open /\ x.ses.cmd = b.ses.cmd /\ x.ses.folder = b.ses.folder
        /\ x.ses.state = b.ses.state /\ x.ses.pending = b.ses.pending
        /\ x.ses.server = b.ses.server /\ x.ses.input = w.rd.buf
    BY <1>2, <2>1, DeliveredFields
  <2>5. /\ x.ao = b.ao /\ Rest(x, b)
        /\ x.ses = [b.ses EXCEPT !.input = w.rd.buf, !.flushTimer = FALSE]
    BY <2>1 DEF Delivered, World, Rest
  <2>6. ReaderRunL(w) = ProcessInputBufferL(x)
    <3>1. /\ Expect(b, ~b.ses.async, "AsyncCallBackOpInvalid") = b
          /\ Expect(b, b.ses.input = <<>>, "SessionInputBufferNotEmpty") = b
      BY <1>2, <1>5, <2>2 DEF Expect
    <3> HIDE DEF x
    <3>2. ReceivedDataIndL(b, w.rd.buf) = ProcessInputBufferL(x)
      BY <3>1 DEF ReceivedDataIndL, Delivered, x
    <3>. QED BY <1>3, <1>9, <3>2
  <2> HIDE DEF x
  <2>7. x.ses.report = who /\ ~x.ses.async /\ ~x.ses.flushTimer
    BY <1>1, <1>2, <1>5, <2>2, <2>5 DEF Sessions
  <2>8. Sound(x)
    <3>1. Wired(w.ses.cmd, w.ses.folder, <<>>, w.rd.buf, w.net)
          /\ Shaped(w.ses.cmd, w.ses.state, w.ses.pending, w.ses.folder, w.ses.server)
      BY <1>1, <1>2 DEF Good, Sound
    <3>2. Wired(w.ses.cmd, w.ses.folder, w.rd.buf, <<>>, w.net)
      BY <3>1, QuietEmpty DEF Wired
    <3>. QED BY <1>1, <1>5, <2>2, <2>3, <2>4, <3>1, <3>2 DEF Sound
  <2>9. Busy(x)
    BY <1>1, <1>5, <2>2, <2>4, <2>8 DEF Busy
  <2>10. Parsing(x, w, who)
    BY <1>1, <1>2, <1>5, <2>2, <2>3, <2>4, <2>5, <2>7, <2>9, QuietEmpty DEF Parsing, Parses, Rest
  <2>. QED BY <2>6, <2>10, ProcessGives
<1>. QED BY <1>2, <1>7, <1>8, <1>9

-----------------------------------------------------------------------------
(* The users: what the session tells them                                  *)

\* No two wait, and nobody waits for a session that is free.
LEMMA WaitsAlone ==
  ASSUME NEW w, NEW who \in Objects, Waits(w, who)
  PROVE  /\ ~Over(w.ses, w.rd) /\ ~Off(w.ses, w.rd) /\ ~Free(w.ses, w.rd) /\ ~Held(w.ses, w.rd)
         /\ \A o : ~Told(w, o) /\ ~JobTold(w, o) /\ ~Settled(w, o)
         /\ \A o : Waits(w, o) => o = who
         /\ \A o, k : For(w, o, k) => o = who
         /\ \A o : Flushes(w, o) => o = who
         /\ Pending(w, who)
<1>1. w.ses.report = who /\ who # "None"
  BY DEF Waits, Objects
<1>2. ~Off(w.ses, w.rd) /\ ~Held(w.ses, w.rd)
  BY <1>1 DEF Off, Over, Resting, Left, Held, Calm, Lost
<1>. QED BY <1>1, <1>2 DEF Free, Off, Told, JobTold, Settled, For, Flushes, Waits

LEMMA ProgressActive ==
  ASSUME NEW v, NEW w, NEW who, Progress(v, w, who)
  PROVE  /\ Only(v, w, who) /\ Rest(v, w) /\ v \in Good /\ v.fault = "None"
         /\ \A o \in Objects : v.ao[o].active = w.ao[o].active
         /\ \A o \in Objects : o # who => v.ao[o].status = w.ao[o].status
         /\ v.ses.folder.box \in {w.ses.folder.box, NoBox}
  BY DEF Progress, Replied, Goes, Only, Marked

LEMMA ProgressFor ==
  ASSUME NEW v, NEW w, NEW who \in Objects, NEW kind, For(w, who, kind), Progress(v, w, who)
  PROVE  \/ For(v, who, kind) /\ v.ses.cmd = w.ses.cmd /\ v.ses.folder.box = w.ses.folder.box
         \/ /\ Held(v.ses, v.rd) /\ v.ao[who].status = KErrNone
            /\ kind = "Idle" /\ w.ses.cmd.idle # "WaitDone"
         \/ /\ Told(v, who) /\ (kind # "Select" => Free(v.ses, v.rd))
            /\ v.ao[who].status = KErrNone =>
                 /\ v.ses.folder.box = w.ses.folder.box
                 /\ kind = "Idle" => w.ses.cmd.idle = "WaitDone"
  BY DEF Progress, Replied, Goes, For

LEMMA ProgressFlush ==
  ASSUME NEW v, NEW w, NEW who \in Objects, Flushes(w, who), Progress(v, w, who)
  PROVE  Flushes(v, who) \/ Settled(v, who)
  BY DEF Progress, Replied, Goes, Flushes

LEMMA JobProgress ==
  ASSUME NEW v, NEW w, NEW o \in Compounds, JobUses(w, o), Waits(w, o), Progress(v, w, o)
  PROVE  JobUses(v, o) /\ v.job[o].op = w.job[o].op
<1>1. o \in Objects
  BY ObjectNames
<1>2. /\ v.ao[o].active = w.ao[o].active /\ v.job[o] = w.job[o]
  BY <1>1, ProgressActive DEF Rest
<1>3. w.ao[o].active /\ w.job[o].report /\ w.job[o].op.box \in Boxes
  BY DEF JobUses
<1>4. CASE w.job[o].step = "Select" /\ For(w, o, "Select") /\ w.ses.folder.box = w.job[o].op.box
  BY <1>1, <1>2, <1>3, <1>4, ProgressFor DEF JobUses
<1>5. CASE w.job[o].step = "Fetch" /\ For(w, o, "Fetch")
  BY <1>1, <1>2, <1>3, <1>5, ProgressFor DEF JobUses
<1>. QED BY <1>1, <1>2, <1>4, <1>5, WaitsAlone DEF JobUses

LEMMA FolderProgress ==
  ASSUME NEW v, NEW w, FolderUses(w), Waits(w, "Folder"), Progress(v, w, "Folder")
  PROVE  FolderUses(v)
<1>1. "Folder" \in Objects
  BY ObjectNames
<1>2. v.ao["Folder"].active = w.ao["Folder"].active
  BY <1>1, ProgressActive
<1>3. For(w, "Folder", "Fetch")
  BY <1>1, WaitsAlone DEF FolderUses
<1>. QED BY <1>1, <1>2, <1>3, ProgressFor DEF FolderUses

\* Who waits on behalf of the idle controller.
LEMMA IdleWaits ==
  ASSUME NEW w, IdleUses(w), NEW who \in Objects, Waits(w, who)
  PROVE  /\ who = "Folder" => /\ w.idle.state = "Synchronising" /\ Pending(w, "Idle")
                              /\ FolderUses(w)
         /\ who = "Child" => /\ w.idle.state = "SyncFetching" /\ Pending(w, "Idle")
                             /\ JobUses(w, "Child") /\ w.job["Child"].op.box = Inbox
         /\ who \in {"Folder", "Child", "Idle"}
         /\ who = "Idle" =>
              \/ w.idle.state = "SelectingInbox" /\ For(w, "Idle", "Select")
              \/ /\ w.idle.state = "WaitingForContinuation" /\ For(w, "Idle", "Idle")
                 /\ w.ses.cmd.idle = "WaitContinue"
              \/ /\ w.idle.state = "Idling" /\ For(w, "Idle", "Idle")
                 /\ w.ses.cmd.idle = "WaitResponse"
              \/ w.idle.state = "WaitingForServerEvent" /\ For(w, "Idle", "Wait")
              \/ /\ w.idle.state = "WaitingForDone" /\ For(w, "Idle", "Idle")
                 /\ w.ses.cmd.idle = "WaitDone"
              \/ w.idle.state = "WaitingForFlush" /\ Flushes(w, "Idle")
<1>1. /\ \A o : ~Told(w, o) /\ ~JobTold(w, o) /\ ~Settled(w, o)
      /\ ~Free(w.ses, w.rd) /\ ~Held(w.ses, w.rd)
      /\ \A o, k : For(w, o, k) => o = who
      /\ \A o : Flushes(w, o) => o = who
  BY WaitsAlone
<1>2. FolderUses(w) => who = "Folder"
  BY <1>1 DEF FolderUses
<1>3. JobUses(w, "Child") => who = "Child"
  BY <1>1 DEF JobUses
<1>. QED BY <1>1, <1>2, <1>3 DEF IdleUses

LEMMA IdleProgress ==
  ASSUME NEW v, NEW w, IdleUses(w), NEW who \in Objects, Waits(w, who), Progress(v, w, who)
  PROVE  IdleUses(v)
<1>1. /\ v.idle = w.idle /\ v.job = w.job
      /\ \A o \in Objects : v.ao[o].active = w.ao[o].active
      /\ \A o \in Objects : o # who => v.ao[o].status = w.ao[o].status
      /\ v.ses.folder.box \in {w.ses.folder.box, NoBox}
  BY ProgressActive DEF Rest
<1>2. /\ v.ao["Idle"].active = w.ao["Idle"].active /\ v.ao["Folder"].active = w.ao["Folder"].active
      /\ v.ao["Child"].active = w.ao["Child"].active
      /\ who # "Idle" => v.ao["Idle"].status = w.ao["Idle"].status
  BY <1>1, ObjectNames
<1>3. /\ v.ao["Idle"].active /\ v.idle.state = w.idle.state
      /\ v.idle.state # "StartingIdle" => InInbox(v)
      /\ v.idle.state # "Synchronising" => Still(v, "Folder")
      /\ v.idle.state # "SyncFetching" => Still(v, "Child")
      /\ v.idle.timer => v.idle.state = "Idling"
  BY <1>1, <1>2 DEF IdleUses, InInbox, Still
<1>4. CASE who = "Folder"
  <2>1. w.idle.state = "Synchronising" /\ Pending(w, "Idle") /\ FolderUses(v)
    BY <1>4, IdleWaits, FolderProgress
  <2>2. Pending(v, "Idle")
    BY <1>2, <1>4, <2>1 DEF Pending
  <2>. QED BY <1>3, <2>1, <2>2 DEF IdleUses
<1>5. CASE who = "Child"
  <2>1. w.idle.state = "SyncFetching" /\ Pending(w, "Idle") /\ JobUses(v, "Child")
        /\ v.job["Child"].op.box = Inbox
    BY <1>1, <1>5, IdleWaits, JobProgress DEF Compounds
  <2>2. Pending(v, "Idle")
    BY <1>2, <1>5, <2>1 DEF Pending
  <2>. QED BY <1>3, <2>1, <2>2 DEF IdleUses
<1>6. CASE w.idle.state = "SelectingInbox" /\ For(w, "Idle", "Select") /\ who = "Idle"
  BY <1>3, <1>6, ProgressFor DEF IdleUses
<1>7. CASE w.idle.state = "WaitingForContinuation" /\ For(w, "Idle", "Idle")
           /\ w.ses.cmd.idle = "WaitContinue" /\ who = "Idle"
  BY <1>3, <1>7, ProgressFor DEF IdleUses
<1>8. CASE w.idle.state = "Idling" /\ For(w, "Idle", "Idle")
           /\ w.ses.cmd.idle = "WaitResponse" /\ who = "Idle"
  BY <1>3, <1>8, ProgressFor DEF IdleUses
<1>9. CASE w.idle.state = "WaitingForServerEvent" /\ For(w, "Idle", "Wait") /\ who = "Idle"
  BY <1>3, <1>9, ProgressFor DEF IdleUses
<1>10. CASE w.idle.state = "WaitingForDone" /\ For(w, "Idle", "Idle")
            /\ w.ses.cmd.idle = "WaitDone" /\ who = "Idle"
  BY <1>3, <1>10, ProgressFor DEF IdleUses
<1>11. CASE w.idle.state = "WaitingForFlush" /\ Flushes(w, "Idle") /\ who = "Idle"
  BY <1>3, <1>11, ProgressFlush DEF IdleUses
<1>. QED BY <1>4, <1>5, <1>6, <1>7, <1>8, <1>9, <1>10, <1>11, IdleWaits

LEMMA SameActivity ==
  ASSUME NEW v, NEW w, \A o \in Objects : v.ao[o].active = w.ao[o].active, Rest(v, w)
  PROVE  /\ \A o \in Objects : Still(v, o) <=> Still(w, o)
         /\ NobodyIdle(v) <=> NobodyIdle(w)
         /\ v.idle = w.idle /\ v.job = w.job /\ v.pc = w.pc
  BY ObjectNames DEF Still, NobodyIdle, Rest

LEMMA UsersProgress ==
  ASSUME NEW v, NEW w, Users(w), NEW who \in Objects, Waits(w, who), Progress(v, w, who)
  PROVE  Users(v)
<1>1. /\ \A o \in Objects : v.ao[o].active = w.ao[o].active
      /\ \A o \in Objects : o # who => v.ao[o].status = w.ao[o].status
      /\ Rest(v, w)
  BY ProgressActive
<1>2. /\ Still(v, "Pc") <=> Still(w, "Pc")
      /\ Still(v, "Op") <=> Still(w, "Op")
      /\ NobodyIdle(v) <=> NobodyIdle(w)
      /\ v.idle = w.idle /\ v.job = w.job /\ v.pc = w.pc
      /\ v.ao["Pc"].active = w.ao["Pc"].active
      /\ who # "Pc" => v.ao["Pc"].status = w.ao["Pc"].status
  BY <1>1, SameActivity, ObjectNames
<1>3. /\ ~Free(w.ses, w.rd)
      /\ \A o : ~Told(w, o) /\ ~JobTold(w, o) /\ ~Settled(w, o)
      /\ \A o, k : For(w, o, k) => o = who
      /\ \A o : Flushes(w, o) => o = who
  BY WaitsAlone
<1>4. IdleUses(w) => IdleUses(v) /\ who # "Pc"
  BY IdleProgress, IdleWaits
<1>5. JobUses(w, "Op") => JobUses(v, "Op") /\ who = "Op"
  <2>1. JobUses(w, "Op") => who = "Op"
    BY <1>3 DEF JobUses
  <2>. QED BY <2>1, JobProgress DEF Compounds
<1>6. CASE w.pc.op = "Idle" /\ IdleUses(w)
  BY <1>2, <1>4, <1>6 DEF Users
<1>7. CASE w.pc.op = "StopIdle" /\ IdleUses(w) /\ Pending(w, "Pc")
  BY <1>2, <1>3, <1>4, <1>7 DEF Users, Pending
<1>8. CASE w.pc.op = "Op" /\ JobUses(w, "Op") /\ Pending(w, "Pc")
  BY <1>2, <1>3, <1>5, <1>8 DEF Users, Pending
<1>9. CASE w.pc.op = "Recover" /\ Flushes(w, "Pc")
  <2>1. Flushes(v, "Pc") \/ Settled(v, "Pc")
    BY <1>3, <1>9, ProgressFlush
  <2>. QED BY <1>2, <1>9, <2>1 DEF Users
<1>. QED BY <1>3, <1>6, <1>7, <1>8, <1>9 DEF Users

LEMMA SomebodyOrPeace ==
  ASSUME NEW w, Users(w)
  PROVE  (\E who \in Objects : Waits(w, who)) \/ Off(w.ses, w.rd) \/ Held(w.ses, w.rd)
<1>1. /\ Free(w.ses, w.rd) => Off(w.ses, w.rd)
      /\ \A o : Told(w, o) \/ JobTold(w, o) \/ Settled(w, o) => Off(w.ses, w.rd)
  BY DEF Free, Off, Told, JobTold, Settled
<1>2. \A o \in Objects : \A k : For(w, o, k) \/ Flushes(w, o) => \E who \in Objects : Waits(w, who)
  BY DEF For, Flushes
<1>3. /\ \A k : For(w, "Idle", k) \/ Flushes(w, "Idle") => \E who \in Objects : Waits(w, who)
      /\ \A k : For(w, "Folder", k) => \E who \in Objects : Waits(w, who)
      /\ \A k : For(w, "Child", k) => \E who \in Objects : Waits(w, who)
      /\ \A k : For(w, "Op", k) => \E who \in Objects : Waits(w, who)
      /\ Flushes(w, "Pc") => \E who \in Objects : Waits(w, who)
  BY <1>2, ObjectNames
<1> DEFINE Goal == (\E who \in Objects : Waits(w, who)) \/ Off(w.ses, w.rd) \/ Held(w.ses, w.rd)
<1>4. FolderUses(w) => Goal
  BY <1>1, <1>3 DEF FolderUses
<1>5. JobUses(w, "Child") \/ JobUses(w, "Op") => Goal
  BY <1>1, <1>3 DEF JobUses
<1>6. IdleUses(w) => Goal
  BY <1>1, <1>3, <1>4, <1>5 DEF IdleUses
<1>. QED BY <1>1, <1>3, <1>5, <1>6 DEF Users

\* The users see the session, the reader and the active objects.
LEMMA UsersSame ==
  ASSUME NEW v, NEW w, Users(w), v.ses = w.ses, v.rd = w.rd, v.ao = w.ao, Rest(v, w)
  PROVE  Users(v)
<1>1. /\ \A o : Pending(v, o) <=> Pending(w, o)
      /\ \A o : Waits(v, o) <=> Waits(w, o)
      /\ \A o, k : For(v, o, k) <=> For(w, o, k)
      /\ \A o : Flushes(v, o) <=> Flushes(w, o)
      /\ \A o : Told(v, o) <=> Told(w, o)
      /\ \A o : JobTold(v, o) <=> JobTold(w, o)
      /\ \A o : Settled(v, o) <=> Settled(w, o)
      /\ \A o : Still(v, o) <=> Still(w, o)
      /\ InInbox(v) <=> InInbox(w)
      /\ NobodyIdle(v) <=> NobodyIdle(w)
  BY DEF Pending, Waits, For, Flushes, Told, JobTold, Settled, Still, InInbox, NobodyIdle, Rest
<1>2. FolderUses(v) <=> FolderUses(w)
  BY <1>1 DEF FolderUses
<1>3. \A o : JobUses(v, o) <=> JobUses(w, o)
  BY <1>1 DEF JobUses, Rest
<1>4. IdleUses(v) <=> IdleUses(w)
  BY <1>1, <1>2, <1>3 DEF IdleUses, Rest
<1>. QED BY <1>1, <1>3, <1>4 DEF Users, Rest

-----------------------------------------------------------------------------
(* The users: the steps of the idle controller                             *)

\* The users see the same session and the same answers.
Sight(v, w) ==
  /\ v.ses = w.ses /\ v.rd = w.rd /\ v.fault = w.fault
  /\ \A o \in Objects : v.ao[o].status = w.ao[o].status

LEMMA SightSame ==
  ASSUME NEW v, NEW w, Sight(v, w)
  PROVE  /\ \A o \in Objects : /\ Pending(v, o) <=> Pending(w, o)
                               /\ Waits(v, o) <=> Waits(w, o)
                               /\ \A k : For(v, o, k) <=> For(w, o, k)
                               /\ Flushes(v, o) <=> Flushes(w, o)
                               /\ Told(v, o) <=> Told(w, o)
                               /\ JobTold(v, o) <=> JobTold(w, o)
                               /\ Settled(v, o) <=> Settled(w, o)
         /\ InInbox(v) <=> InInbox(w)
  BY DEF Sight, Pending, Waits, For, Flushes, Told, JobTold, Settled, InInbox

\* From w to v only o has become active.
Activated(v, w, o) ==
  /\ v.ao[o].active
  /\ \A p \in Objects : p # o => v.ao[p].active = w.ao[p].active

LEMMA SetActiveGives ==
  ASSUME NEW w \in World, NEW o \in Objects
  PROVE  LET v == SetActive(w, o)
         IN Sight(v, w) /\ Rest(v, w) /\ Activated(v, w, o)
<1> DEFINE v == SetActive(w, o)
<1>1. v.ses = w.ses /\ v.rd = w.rd /\ v.fault = w.fault /\ Rest(v, w)
      /\ v.ao = [w.ao EXCEPT ![o].active = TRUE]
  BY DEF SetActive, World, Rest
<1> HIDE DEF v
<1>2. w.ao \in ActiveObjects
  BY WorldFields
<1>3. /\ \A p \in Objects : v.ao[p].status = w.ao[p].status
      /\ v.ao[o].active
      /\ \A p \in Objects : p # o => v.ao[p].active = w.ao[p].active
  BY <1>1, <1>2 DEF ActiveObjects
<1>4. Sight(v, w) /\ Rest(v, w) /\ Activated(v, w, o)
  BY <1>1, <1>3 DEF Sight, Activated
<1>. QED BY <1>4 DEF v

LEMMA SignalGives ==
  ASSUME NEW w \in World, NEW o \in Objects, NEW err
  PROVE  LET v == Signal(w, o, err)
         IN /\ v.ses = w.ses /\ v.rd = w.rd /\ v.fault = w.fault /\ Rest(v, w)
            /\ Marked(v.ao, w.ao, o, err)
<1> DEFINE v == Signal(w, o, err)
<1>1. v.ses = w.ses /\ v.rd = w.rd /\ v.fault = w.fault /\ Rest(v, w)
      /\ v.ao = [w.ao EXCEPT ![o].status = err]
  BY DEF Signal, World, Rest
<1> HIDE DEF v
<1>2. w.ao \in ActiveObjects
  BY WorldFields
<1>3. Marked(v.ao, w.ao, o, err)
  BY <1>1, <1>2, Marks
<1>4. /\ v.ses = w.ses /\ v.rd = w.rd /\ v.fault = w.fault /\ Rest(v, w)
      /\ Marked(v.ao, w.ao, o, err)
  BY <1>1, <1>3
<1>. QED BY <1>4 DEF v

\* What a step of the idle controller leaves alone.
Frame(v, w) ==
  /\ v.pc = w.pc /\ v.job["Op"] = w.job["Op"]
  /\ v.idle.report = w.idle.report /\ v.idle.stopping = w.idle.stopping
  /\ v.ao["Pc"].active = w.ao["Pc"].active /\ v.ao["Pc"].status = w.ao["Pc"].status
  /\ v.ao["Op"].active = w.ao["Op"].active

LEMMA FrameAfter ==
  ASSUME NEW v, NEW u, NEW w, Frame(v, u), Frame(u, w)
  PROVE  Frame(v, w)
  BY DEF Frame

LEMMA EnterGives ==
  ASSUME NEW w \in World, NEW s
  PROVE  LET v == Enter(w, s)
         IN /\ Sight(v, w) /\ Frame(v, w) /\ v.job = w.job
            /\ v.idle.state = s /\ v.idle.timer = w.idle.timer
            /\ Activated(v, w, "Idle")
<1> DEFINE u == [w EXCEPT !.idle.state = s]
           v == SetActive(u, "Idle")
<1>1. /\ u.ses = w.ses /\ u.rd = w.rd /\ u.fault = w.fault /\ u.ao = w.ao /\ u.job = w.job
      /\ u.pc = w.pc /\ u.idle = [w.idle EXCEPT !.state = s]
  BY DEF World
<1>2. v.ses = u.ses /\ v.rd = u.rd /\ v.fault = u.fault /\ Rest(v, u)
      /\ v.ao = [u.ao EXCEPT !["Idle"].active = TRUE]
  <2>1. v = [u EXCEPT !.ao["Idle"].active = TRUE]
    BY DEF SetActive
  <2>2. "ao" \in DOMAIN u
    BY DEF World
  <2> HIDE DEF u, v
  <2>. QED BY <2>1, <2>2 DEF Rest
<1> HIDE DEF u, v
<1>3. w.ao \in ActiveObjects /\ w.idle \in IdleTypes
  BY WorldFields
<1>4. /\ \A p \in Objects : v.ao[p].status = w.ao[p].status
      /\ v.ao["Idle"].active
      /\ \A p \in Objects : p # "Idle" => v.ao[p].active = w.ao[p].active
  BY <1>1, <1>2, <1>3, ObjectNames DEF ActiveObjects
<1>5. /\ v.idle.state = s /\ v.idle.timer = w.idle.timer /\ v.idle.report = w.idle.report
      /\ v.idle.stopping = w.idle.stopping
  BY <1>1, <1>2, <1>3 DEF IdleTypes, Rest
<1>6. /\ Sight(v, w) /\ Frame(v, w) /\ v.job = w.job
      /\ v.idle.state = s /\ v.idle.timer = w.idle.timer
      /\ Activated(v, w, "Idle")
  BY <1>1, <1>2, <1>4, <1>5, ObjectNames DEF Sight, Frame, Activated, Rest
<1>. QED BY <1>6 DEF v, u, Enter

LEMMA OnlyFrame ==
  ASSUME NEW v, NEW w, NEW who \in {"Idle", "Folder", "Child"}, Only(v, w, who)
  PROVE  /\ Frame(v, w) /\ v.idle = w.idle /\ v.job = w.job /\ v.fault = "None"
         /\ v \in Good /\ v \in World
         /\ \A o \in Objects : v.ao[o].active = w.ao[o].active
         /\ \A o \in Objects : o # who => v.ao[o].status = w.ao[o].status
  BY ObjectNames DEF Only, Rest, Marked, Frame, Good

\* Between two states the controller has nothing active.
Between(w) ==
  /\ w \in Good /\ w.fault = "None" /\ Still(w, "Folder") /\ Still(w, "Child")
  /\ InInbox(w) /\ ~w.idle.timer

\* A state is entered in which the controller itself uses the session.
LEMMA EnterUses ==
  ASSUME NEW w, NEW u, NEW s, Only(u, w, "Idle"), Still(w, "Folder"), Still(w, "Child"),
         ~w.idle.timer \/ s = "Idling", InInbox(u),
         \/ s = "SelectingInbox" /\ (For(u, "Idle", "Select") \/ Told(u, "Idle"))
         \/ /\ s = "WaitingForContinuation"
            /\ \/ For(u, "Idle", "Idle") /\ u.ses.cmd.idle = "WaitContinue"
               \/ u.ao["Idle"].status # KErrNone /\ Told(u, "Idle")
         \/ s = "Idling" /\ For(u, "Idle", "Idle") /\ u.ses.cmd.idle = "WaitResponse"
         \/ s = "WaitingForServerEvent" /\ (For(u, "Idle", "Wait") \/ Told(u, "Idle"))
         \/ s = "WaitingForDone" /\ For(u, "Idle", "Idle") /\ u.ses.cmd.idle = "WaitDone"
  PROVE  LET v == Enter(u, s) IN IdleUses(v) /\ Frame(v, w) /\ v.fault = "None"
<1> DEFINE v == Enter(u, s)
<1>1. /\ Frame(u, w) /\ u.idle = w.idle /\ u.job = w.job /\ u.fault = "None" /\ u \in World
      /\ \A o \in Objects : u.ao[o].active = w.ao[o].active
  BY OnlyFrame
<1>2. /\ Sight(v, u) /\ Frame(v, u) /\ v.idle.state = s /\ v.idle.timer = u.idle.timer
      /\ Activated(v, u, "Idle")
  BY <1>1, EnterGives
<1> HIDE DEF v
<1>3. /\ v.ao["Idle"].active /\ Still(v, "Folder") /\ Still(v, "Child")
      /\ v.idle.timer => v.idle.state = "Idling"
  BY <1>1, <1>2, ObjectNames DEF Activated, Still
<1>4. /\ InInbox(v) /\ v.ses = u.ses /\ v.ao["Idle"].status = u.ao["Idle"].status
      /\ \A k : For(v, "Idle", k) <=> For(u, "Idle", k)
      /\ Told(v, "Idle") <=> Told(u, "Idle")
  <2>1. InInbox(v)
    BY <1>2, SightSame
  <2>2. v.ses = u.ses /\ v.ao["Idle"].status = u.ao["Idle"].status
    BY <1>2, ObjectNames DEF Sight
  <2>3. /\ \A k : For(v, "Idle", k) <=> For(u, "Idle", k)
        /\ Told(v, "Idle") <=> Told(u, "Idle")
    BY <1>2, SightSame, ObjectNames
  <2>. QED BY <2>1, <2>2, <2>3
<1>5. IdleUses(v)
  BY <1>2, <1>3, <1>4 DEF IdleUses
<1>6. IdleUses(v) /\ Frame(v, w) /\ v.fault = "None"
  BY <1>1, <1>2, <1>5, FrameAfter DEF Sight
<1>. QED BY <1>6 DEF v
LEMMA InboxSafe ==
  ASSUME NEW w, InInbox(w)
  PROVE  InboxSelected(w) = w
  BY DEF InInbox, InboxSelected, Expect

LEMMA GoIdleGives ==
  ASSUME NEW w, Between(w), Free(w.ses, w.rd)
  PROVE  LET v == GoIdleL(w) IN IdleUses(v) /\ Frame(v, w) /\ v.fault = "None"
<1>0. /\ w \in Good /\ w.fault = "None" /\ "Idle" \in Objects /\ Still(w, "Folder")
      /\ Still(w, "Child") /\ InInbox(w) /\ ~w.idle.timer
  BY ObjectNames DEF Between
<1>1. CASE w.idle.using
  <2> DEFINE u == EnterIdleL(w, "Idle")
             v == Enter(u, "WaitingForContinuation")
  <2>1. GoIdleL(w) = v
    BY <1>1 DEF GoIdleL
  <2>2. /\ Only(u, w, "Idle") /\ u.ses.folder = w.ses.folder
        /\ \/ For(u, "Idle", "Idle") /\ u.ses.cmd.idle = "WaitContinue"
           \/ u.ao["Idle"].status # KErrNone /\ Told(u, "Idle")
    BY <1>0, EnterIdleGives
  <2> HIDE DEF u
  <2>3. InInbox(u)
    BY <1>0, <2>2 DEF InInbox
  <2>4. IdleUses(v) /\ Frame(v, w) /\ v.fault = "None"
    BY <1>0, <2>2, <2>3, EnterUses
  <2>. QED BY <2>1, <2>4
<1>2. CASE ~w.idle.using
  <2> DEFINE u == WaitForServerEventL(w, "Idle")
             v == Enter(u, "WaitingForServerEvent")
  <2>1. GoIdleL(w) = v
    BY <1>2 DEF GoIdleL
  <2>2. /\ Only(u, w, "Idle") /\ u.ses.folder = w.ses.folder
        /\ For(u, "Idle", "Wait") \/ Told(u, "Idle")
    BY <1>0, WaitGives
  <2> HIDE DEF u
  <2>3. InInbox(u)
    BY <1>0, <2>2 DEF InInbox
  <2>4. IdleUses(v) /\ Frame(v, w) /\ v.fault = "None"
    BY <1>0, <2>2, <2>3, EnterUses
  <2>. QED BY <2>1, <2>4
<1>. QED BY <1>1, <1>2

\* What the session and its users do not know of
LEMMA BesideGood ==
  ASSUME NEW w \in Good, NEW v \in World, v.ses = w.ses, v.rd = w.rd, v.net = w.net,
         v.fault = w.fault
  PROVE  v \in Good
  BY GoodIsClosed, BesideStays DEF Beside

\* SynchroniseL without the request
Sized(w, n, z) == [w EXCEPT !.inbox.size = n, !.inbox.covering = n, !.inbox.synced = z]

LEMMA SizedGives ==
  ASSUME NEW w \in Good, NEW n \in 0 .. MaxExists, NEW z \in {n, w.inbox.synced}
  PROVE  LET v == Sized(w, n, z)
         IN /\ v \in Good /\ v.ses = w.ses /\ v.rd = w.rd /\ v.fault = w.fault /\ v.ao = w.ao
            /\ v.job = w.job /\ v.idle = w.idle /\ v.pc = w.pc
<1> DEFINE v == [w EXCEPT !.inbox.size = n, !.inbox.covering = n, !.inbox.synced = z]
<1>0. w \in World
  BY DEF Good
<1>1. z \in 0 .. MaxExists
  BY <1>0, WorldFields DEF Inboxes
<1>2. /\ v.ses = w.ses /\ v.rd = w.rd /\ v.fault = w.fault /\ v.ao = w.ao /\ v.net = w.net
      /\ v.job = w.job /\ v.idle = w.idle /\ v.pc = w.pc
  BY <1>0 DEF World
<1>3. v \in World
  <2> DEFINE i == [w.inbox EXCEPT !.size = n, !.covering = n, !.synced = z]
  <2>1. i \in Inboxes
    BY <1>0, <1>1, WorldFields DEF Inboxes
  <2>2. v = [w EXCEPT !.inbox = i]
    BY <1>0 DEF World
  <2> HIDE DEF i, v
  <2>. QED BY <1>0, <2>1, <2>2 DEF World
<1> HIDE DEF v
<1>4. v \in Good
  BY <1>2, <1>3, BesideGood
<1>5. /\ v \in Good /\ v.ses = w.ses /\ v.rd = w.rd /\ v.fault = w.fault /\ v.ao = w.ao
      /\ v.job = w.job /\ v.idle = w.idle /\ v.pc = w.pc
  BY <1>2, <1>4
<1>. QED BY <1>5 DEF v, Sized

LEMMA SyncGives ==
  ASSUME NEW w, Between(w), Free(w.ses, w.rd), w.ses.folder # NoFolder
  PROVE  LET v == Sync(w) IN IdleUses(v) /\ Frame(v, w) /\ v.fault = "None"
<1> DEFINE n == w.ses.folder.exists
           s == [w EXCEPT !.inbox.size = n, !.inbox.covering = n]
           y == SynchroniseL(w)
           v == Enter(y, "Synchronising")
<1>0. /\ w \in Good /\ w.fault = "None" /\ "Idle" \in Objects /\ "Folder" \in Objects
      /\ Still(w, "Folder") /\ Still(w, "Child") /\ InInbox(w) /\ ~w.idle.timer /\ w \in World
  BY ObjectNames DEF Between, Good
<1>1. n \in 0 .. MaxExists /\ InboxSelected(w) = w
  BY <1>0, SessionFields, InboxSafe DEF Mailboxes
<1> HIDE DEF n
<1>2. y \in World /\ y.fault = "None" /\ Frame(y, w) /\ y.ses.folder = w.ses.folder
      /\ y.idle = w.idle /\ Still(y, "Child")
      /\ \/ Pending(y, "Idle") /\ FolderUses(y)
         \/ Still(y, "Folder") /\ Told(y, "Idle")
  <2>1. CASE n = 0
    <3> DEFINE x == Sized(w, n, n)
    <3>1. y = Signal(x, "Idle", KErrNone)
      BY <1>0, <1>1, <2>1 DEF SynchroniseL, n, World, Sized
    <3>2. /\ x \in Good /\ x.ses = w.ses /\ x.rd = w.rd /\ x.fault = w.fault /\ x.ao = w.ao
          /\ x.job = w.job /\ x.idle = w.idle /\ x.pc = w.pc
      BY <1>0, <1>1, SizedGives
    <3> HIDE DEF x, y
    <3>3. x \in World
      BY <3>2 DEF Good
    <3>4. /\ y.ses = x.ses /\ y.rd = x.rd /\ y.fault = x.fault /\ Rest(y, x)
          /\ Marked(y.ao, x.ao, "Idle", KErrNone)
      BY <1>0, <3>1, <3>3, SignalGives
    <3>5. y \in World
      BY <1>0, <3>1, <3>3, WorldClosed, SignalStays, CodesAreStatuses
    <3>6. /\ y.ao["Idle"].status = KErrNone /\ \A o \in Objects : y.ao[o].active = w.ao[o].active
          /\ \A o \in Objects : o # "Idle" => y.ao[o].status = w.ao[o].status
      BY <3>2, <3>4 DEF Marked
    <3>7. Frame(y, w) /\ y.idle = w.idle /\ Still(y, "Child") /\ Still(y, "Folder")
      BY <1>0, <3>2, <3>4, <3>6, ObjectNames DEF Frame, Rest, Still
    <3>8. Told(y, "Idle")
      BY <3>2, <3>4, <3>6, CodeFacts, CodesAreStatuses DEF Told, Pending, Free
    <3>. QED BY <1>0, <3>2, <3>4, <3>5, <3>7, <3>8
  <2>2. CASE n # 0
    <3> DEFINE x == Signal(s, "Idle", KRequestPending)
               f == FetchL(x, "Folder")
               g == SetActive(f, "Folder")
    <3>1. y = g
      BY <1>0, <1>1, <2>2 DEF SynchroniseL, n
    <3>2. /\ s \in Good /\ s.ses = w.ses /\ s.rd = w.rd /\ s.fault = w.fault /\ s.ao = w.ao
          /\ s.job = w.job /\ s.idle = w.idle /\ s.pc = w.pc
      <4> DEFINE z == w.inbox.synced
                 t == Sized(w, n, z)
      <4>1. t = s
        BY <1>0 DEF World, Inboxes, Sized
      <4>2. z \in {n, w.inbox.synced}
        OBVIOUS
      <4>3. /\ t \in Good /\ t.ses = w.ses /\ t.rd = w.rd /\ t.fault = w.fault /\ t.ao = w.ao
            /\ t.job = w.job /\ t.idle = w.idle /\ t.pc = w.pc
        BY <1>0, <1>1, <4>2, SizedGives
      <4>. QED BY <4>1, <4>3
    <3> HIDE DEF s, y
    <3>3. s \in World
      BY <3>2 DEF Good
    <3>4. /\ x.ses = s.ses /\ x.rd = s.rd /\ x.fault = s.fault /\ Rest(x, s)
          /\ Marked(x.ao, s.ao, "Idle", KRequestPending)
      BY <1>0, <3>3, SignalGives
    <3>5. x \in Good
      BY <1>0, <3>2, GoodIsClosed, SignalStays, CodesAreStatuses
    <3> HIDE DEF x
    <3>6. x.fault = "None" /\ Free(x.ses, x.rd) /\ x.ses.folder # NoFolder
      BY <1>0, <3>2, <3>4
    <3>7. /\ Only(f, x, "Folder") /\ f.ses.folder = x.ses.folder
          /\ For(f, "Folder", "Fetch") \/ (Told(f, "Folder") /\ Free(f.ses, f.rd))
      BY <1>0, <3>5, <3>6, FetchGives
    <3> HIDE DEF f
    <3>8. /\ Frame(f, x) /\ f.idle = x.idle /\ f.job = x.job /\ f.fault = "None"
          /\ f \in Good /\ f \in World
          /\ \A o \in Objects : f.ao[o].active = x.ao[o].active
          /\ \A o \in Objects : o # "Folder" => f.ao[o].status = x.ao[o].status
      BY <3>7, OnlyFrame
    <3>9. Sight(g, f) /\ Rest(g, f) /\ Activated(g, f, "Folder") /\ g \in World
      BY <1>0, <3>8, SetActiveGives, WorldClosed, SetActiveStays
    <3> HIDE DEF g
    <3>10. /\ g.ao["Folder"].active
           /\ \A p \in Objects : p # "Folder" => g.ao[p].active = w.ao[p].active
           /\ \A p \in Objects : p # "Folder" /\ p # "Idle" => g.ao[p].status = w.ao[p].status
           /\ g.ao["Idle"].status = KRequestPending
      BY <1>0, <3>2, <3>4, <3>8, <3>9 DEF Sight, Activated, Marked
    <3>11. Frame(g, w) /\ g.idle = w.idle /\ Still(g, "Child") /\ Pending(g, "Idle") /\ g.fault = "None"
           /\ g.ses.folder = w.ses.folder
      BY <1>0, <3>2, <3>4, <3>7, <3>8, <3>9, <3>10, ObjectNames
         DEF Frame, Rest, Still, Pending, Sight
    <3>12. FolderUses(g)
      BY <1>0, <3>7, <3>9, <3>10, SightSame DEF FolderUses
    <3>. QED BY <3>1, <3>9, <3>11, <3>12
  <2>. QED BY <2>1, <2>2
<1>3. Sync(w) = v
  BY DEF Sync
<1> HIDE DEF y
<1>4. /\ Sight(v, y) /\ Frame(v, y) /\ v.job = y.job
      /\ v.idle.state = "Synchronising" /\ v.idle.timer = y.idle.timer
      /\ Activated(v, y, "Idle")
  BY <1>2, EnterGives
<1> HIDE DEF v
<1>5. /\ v.ao["Idle"].active /\ InInbox(v) /\ Still(v, "Child") /\ ~v.idle.timer
      /\ v.ses = y.ses /\ v.fault = "None" /\ Frame(v, w)
  BY <1>0, <1>2, <1>4, ObjectNames, FrameAfter DEF Activated, Still, Sight, InInbox
<1>6. \/ Pending(v, "Idle") /\ FolderUses(v)
      \/ Still(v, "Folder") /\ Told(v, "Idle")
  <2>1. CASE Pending(y, "Idle") /\ FolderUses(y)
    BY <1>0, <1>4, <2>1, SightSame, ObjectNames DEF FolderUses, Activated
  <2>2. CASE Still(y, "Folder") /\ Told(y, "Idle")
    BY <1>0, <1>4, <2>2, SightSame, ObjectNames DEF Still, Activated
  <2>. QED BY <1>2, <2>1, <2>2
<1>7. IdleUses(v)
  BY <1>4, <1>5, <1>6 DEF IdleUses
<1>8. IdleUses(v) /\ Frame(v, w) /\ v.fault = "None"
  BY <1>5, <1>7
<1>. QED BY <1>3, <1>8

Asks(w, o) == [w EXCEPT !.job[o].step = "Start", !.job[o].report = TRUE]

LEMMA AsksGives ==
  ASSUME NEW w \in Good, NEW o \in Compounds
  PROVE  LET v == Asks(w, o)
         IN /\ v \in Good /\ v.ses = w.ses /\ v.rd = w.rd /\ v.fault = w.fault /\ v.ao = w.ao
            /\ v.idle = w.idle /\ v.pc = w.pc /\ v.job[o].op = w.job[o].op
            /\ v.job[o].step = "Start" /\ v.job[o].report
            /\ \A p \in Compounds : p # o => v.job[p] = w.job[p]
<1> DEFINE u == [w EXCEPT !.job[o].step = "Start"]
           v == Asks(w, o)
<1>0. w \in World /\ w.job \in Jobs
  BY WorldFields DEF Good
<1>1. u \in Good
  BY GoodIsClosed, SetStep
<1>2. v = [u EXCEPT !.job[o].report = TRUE]
  BY <1>0 DEF Asks, World, Jobs, Compounds
<1>3. v \in Good
  <2> HIDE DEF u, v
  <2>. QED BY <1>1, <1>2, GoodIsClosed, SetJobReport
<1>4. /\ v.ses = w.ses /\ v.rd = w.rd /\ v.fault = w.fault /\ v.ao = w.ao
      /\ v.idle = w.idle /\ v.pc = w.pc
      /\ v.job = [w.job EXCEPT ![o].step = "Start", ![o].report = TRUE]
  BY <1>0 DEF Asks, World
<1> HIDE DEF u, v
<1>5. /\ v.job[o].op = w.job[o].op /\ v.job[o].step = "Start" /\ v.job[o].report
      /\ \A p \in Compounds : p # o => v.job[p] = w.job[p]
  BY <1>0, <1>4 DEF Jobs, Compounds
<1>6. /\ v \in Good /\ v.ses = w.ses /\ v.rd = w.rd /\ v.fault = w.fault /\ v.ao = w.ao
      /\ v.idle = w.idle /\ v.pc = w.pc /\ v.job[o].op = w.job[o].op
      /\ v.job[o].step = "Start" /\ v.job[o].report
      /\ \A p \in Compounds : p # o => v.job[p] = w.job[p]
  BY <1>3, <1>4, <1>5
<1>. QED BY <1>6 DEF v

\* An operation has been started, and will do its first step.
LEMMA StartOperationGives ==
  ASSUME NEW w \in Good, NEW o \in Compounds
  PROVE  LET v == StartOperation(w, o)
         IN /\ v \in Good /\ v.ses = w.ses /\ v.rd = w.rd /\ v.fault = w.fault
            /\ v.idle = w.idle /\ v.pc = w.pc /\ v.job[o].op = w.job[o].op
            /\ v.job[o].step = "Start" /\ v.job[o].report
            /\ \A p \in Compounds : p # o => v.job[p] = w.job[p]
            /\ v.ao[o].active /\ v.ao[o].status = KErrNone
            /\ v.ao[Starter(o)].status = KRequestPending
            /\ \A p \in Objects : p # o => v.ao[p].active = w.ao[p].active
            /\ \A p \in Objects : p # o /\ p # Starter(o) => v.ao[p].status = w.ao[p].status
<1> DEFINE a == Signal(w, Starter(o), KRequestPending)
           b == Asks(a, o)
           c == Signal(b, o, KErrNone)
           v == SetActive(c, o)
<1>0. w \in World /\ o \in Objects /\ Starter(o) \in Objects /\ Starter(o) # o
  BY ObjectNames, StarterTyped DEF Good, Starter, Compounds
<1>1. StartOperation(w, o) = v
  BY DEF StartOperation, Asks
<1>2. a \in Good /\ a.ses = w.ses /\ a.rd = w.rd /\ a.fault = w.fault /\ Rest(a, w)
      /\ Marked(a.ao, w.ao, Starter(o), KRequestPending)
  BY <1>0, SignalGives, GoodIsClosed, SignalStays, CodesAreStatuses
<1> HIDE DEF a
<1>3. /\ b \in Good /\ b.ses = a.ses /\ b.rd = a.rd /\ b.fault = a.fault /\ b.ao = a.ao
      /\ b.idle = a.idle /\ b.pc = a.pc /\ b.job[o].op = a.job[o].op
      /\ b.job[o].step = "Start" /\ b.job[o].report
      /\ \A p \in Compounds : p # o => b.job[p] = a.job[p]
  BY <1>2, AsksGives
<1> HIDE DEF b
<1>4. b \in World
  BY <1>3 DEF Good
<1>5. c \in Good /\ c.ses = b.ses /\ c.rd = b.rd /\ c.fault = b.fault /\ Rest(c, b)
      /\ Marked(c.ao, b.ao, o, KErrNone)
  BY <1>0, <1>3, <1>4, SignalGives, GoodIsClosed, SignalStays, CodesAreStatuses
<1> HIDE DEF c
<1>6. c \in World
  BY <1>5 DEF Good
<1>7. v \in Good /\ Sight(v, c) /\ Rest(v, c) /\ Activated(v, c, o)
  BY <1>0, <1>5, <1>6, SetActiveGives, GoodIsClosed, SetActiveStays
<1> HIDE DEF v
<1>8. /\ v \in Good /\ v.ses = w.ses /\ v.rd = w.rd /\ v.fault = w.fault
      /\ v.idle = w.idle /\ v.pc = w.pc /\ v.job[o].op = w.job[o].op
      /\ v.job[o].step = "Start" /\ v.job[o].report
      /\ \A p \in Compounds : p # o => v.job[p] = w.job[p]
  BY <1>2, <1>3, <1>5, <1>7 DEF Sight, Rest
<1>9. /\ v.ao[o].active /\ v.ao[o].status = KErrNone
      /\ v.ao[Starter(o)].status = KRequestPending
      /\ \A p \in Objects : p # o => v.ao[p].active = w.ao[p].active
      /\ \A p \in Objects : p # o /\ p # Starter(o) => v.ao[p].status = w.ao[p].status
  BY <1>0, <1>2, <1>3, <1>5, <1>7 DEF Sight, Activated, Marked
<1>. QED BY <1>1, <1>8, <1>9

\* The job of o is w's but for what j says.
LEMMA SetJobGives ==
  ASSUME NEW w \in Good, NEW o \in Compounds, NEW j \in Job
  PROVE  LET v == [w EXCEPT !.job[o] = j]
         IN /\ v \in Good /\ v.ses = w.ses /\ v.rd = w.rd /\ v.fault = w.fault /\ v.ao = w.ao
            /\ v.idle = w.idle /\ v.inbox = w.inbox /\ v.pc = w.pc /\ v.job[o] = j
            /\ \A p \in Compounds : p # o => v.job[p] = w.job[p]
<1> DEFINE v == [w EXCEPT !.job[o] = j]
<1>0. w \in World /\ w.job \in Jobs
  BY WorldFields DEF Good
<1>1. v \in Good
  BY GoodIsClosed, SetJob
<1>2. /\ v.ses = w.ses /\ v.rd = w.rd /\ v.fault = w.fault /\ v.ao = w.ao
      /\ v.idle = w.idle /\ v.inbox = w.inbox /\ v.pc = w.pc /\ v.job = [w.job EXCEPT ![o] = j]
  BY <1>0 DEF World
<1> HIDE DEF v
<1>3. v.job[o] = j /\ \A p \in Compounds : p # o => v.job[p] = w.job[p]
  BY <1>0, <1>2 DEF Jobs, Compounds
<1>4. /\ v \in Good /\ v.ses = w.ses /\ v.rd = w.rd /\ v.fault = w.fault /\ v.ao = w.ao
      /\ v.idle = w.idle /\ v.inbox = w.inbox /\ v.pc = w.pc /\ v.job[o] = j
      /\ \A p \in Compounds : p # o => v.job[p] = w.job[p]
  BY <1>1, <1>2, <1>3
<1>. QED BY <1>4 DEF v

LEMMA DownloadGives ==
  ASSUME NEW w, Between(w), Free(w.ses, w.rd)
  PROVE  LET v == DoBodyDownloadL(w) IN IdleUses(v) /\ Frame(v, w) /\ v.fault = "None"
<1> DEFINE j == [NoJob EXCEPT !.op = [kind |-> "Copy", box |-> Inbox]]
           a == [w EXCEPT !.job["Child"] = j]
           b == StartOperation(a, "Child")
           v == Enter(b, "SyncFetching")
<1>0. /\ w \in Good /\ w.fault = "None" /\ "Idle" \in Objects /\ "Child" \in Objects
      /\ Still(w, "Folder") /\ Still(w, "Child") /\ InInbox(w) /\ ~w.idle.timer /\ w \in World
      /\ "Child" \in Compounds /\ "Op" \in Compounds
  BY ObjectNames DEF Between, Good, Compounds
<1>1. j \in Job /\ j.op.box = Inbox
  BY NoJobTyped DEF NoJob, Job, Operations
<1>2. DoBodyDownloadL(w) = v
  BY DEF DoBodyDownloadL
<1> HIDE DEF j
<1>3. /\ a \in Good /\ a.ses = w.ses /\ a.rd = w.rd /\ a.fault = w.fault /\ a.ao = w.ao
      /\ a.idle = w.idle /\ a.inbox = w.inbox /\ a.pc = w.pc /\ a.job["Child"] = j
      /\ \A p \in Compounds : p # "Child" => a.job[p] = w.job[p]
  BY <1>0, <1>1, SetJobGives
<1> HIDE DEF a
<1>4. /\ b \in Good /\ b.ses = a.ses /\ b.rd = a.rd /\ b.fault = a.fault
      /\ b.idle = a.idle /\ b.pc = a.pc /\ b.job["Child"].op = a.job["Child"].op
      /\ b.job["Child"].step = "Start" /\ b.job["Child"].report
      /\ \A p \in Compounds : p # "Child" => b.job[p] = a.job[p]
      /\ b.ao["Child"].active /\ b.ao["Child"].status = KErrNone
      /\ b.ao[Starter("Child")].status = KRequestPending
      /\ \A p \in Objects : p # "Child" => b.ao[p].active = a.ao[p].active
      /\ \A p \in Objects : p # "Child" /\ p # Starter("Child") => b.ao[p].status = a.ao[p].status
  BY <1>0, <1>3, StartOperationGives
<1>5. Starter("Child") = "Idle"
  BY DEF Starter
<1> HIDE DEF b
<1>6. b \in World
  BY <1>4 DEF Good
<1>7. /\ Sight(v, b) /\ Frame(v, b) /\ v.job = b.job
      /\ v.idle.state = "SyncFetching" /\ v.idle.timer = b.idle.timer
      /\ Activated(v, b, "Idle")
  BY <1>6, EnterGives
<1> HIDE DEF v
<1>8. Frame(b, w)
  BY <1>0, <1>3, <1>4, <1>5, ObjectNames DEF Frame
<1>9. Frame(v, w) /\ v.fault = "None" /\ v.ao["Idle"].active /\ ~v.idle.timer
      /\ v.ses = w.ses /\ v.rd = w.rd /\ Still(v, "Folder") /\ v.ao["Child"].active
      /\ v.ao["Child"].status = KErrNone /\ v.ao["Idle"].status = KRequestPending
  BY <1>0, <1>3, <1>4, <1>5, <1>7, <1>8, FrameAfter, ObjectNames DEF Sight, Activated, Still
<1>10. /\ v.job["Child"].op.box = Inbox /\ v.job["Child"].step = "Start" /\ v.job["Child"].report
  BY <1>1, <1>3, <1>4, <1>7
<1>11. JobUses(v, "Child") /\ Pending(v, "Idle") /\ InInbox(v)
  BY <1>0, <1>9, <1>10, SessionAssumption DEF JobUses, Pending, InInbox
<1>12. IdleUses(v)
  BY <1>7, <1>9, <1>10, <1>11 DEF IdleUses
<1>. QED BY <1>2, <1>9, <1>12

LEMMA SetTimerGives ==
  ASSUME NEW w \in Good, NEW b \in BOOLEAN
  PROVE  LET v == [w EXCEPT !.idle.timer = b]
         IN /\ v \in Good /\ Sight(v, w) /\ Frame(v, w) /\ v.ao = w.ao /\ v.job = w.job
            /\ v.inbox = w.inbox /\ v.idle.state = w.idle.state /\ v.idle.timer = b
            /\ v.idle = [w.idle EXCEPT !.timer = b]
<1> DEFINE v == [w EXCEPT !.idle.timer = b]
<1>0. w \in World /\ w.idle \in IdleTypes
  BY WorldFields DEF Good
<1>1. v \in Good
  BY GoodIsClosed, SetIdleTimer
<1>2. /\ v.ses = w.ses /\ v.rd = w.rd /\ v.fault = w.fault /\ v.ao = w.ao
      /\ v.job = w.job /\ v.inbox = w.inbox /\ v.pc = w.pc /\ v.idle = [w.idle EXCEPT !.timer = b]
  BY <1>0 DEF World
<1> HIDE DEF v
<1>3. /\ v.idle.state = w.idle.state /\ v.idle.timer = b /\ v.idle.report = w.idle.report
      /\ v.idle.stopping = w.idle.stopping
  BY <1>0, <1>2 DEF IdleTypes
<1>4. /\ v \in Good /\ Sight(v, w) /\ Frame(v, w) /\ v.ao = w.ao /\ v.job = w.job
      /\ v.inbox = w.inbox /\ v.idle.state = w.idle.state /\ v.idle.timer = b
      /\ v.idle = [w.idle EXCEPT !.timer = b]
  BY <1>1, <1>2, <1>3 DEF Sight, Frame
<1>. QED BY <1>4 DEF v

\* The controller is in a state in which it is active, and the rest as before.
Enters(v, w) == IdleUses(v) /\ Frame(v, w) /\ v.fault = "None"

LEMMA WaitForIdleEnters ==
  ASSUME NEW w \in Good, w.fault = "None", Still(w, "Folder"), Still(w, "Child"), InInbox(w),
         Held(w.ses, w.rd)
  PROVE  Enters(Enter(WaitForIdleEvent(w, "Idle"), "Idling"), w)
<1> DEFINE u == WaitForIdleEvent(w, "Idle")
<1>1. /\ Only(u, w, "Idle") /\ u.ses.folder = w.ses.folder
      /\ For(u, "Idle", "Idle") /\ u.ses.cmd.idle = "WaitResponse"
  BY WaitForIdleGives, ObjectNames
<1> HIDE DEF u
<1>2. InInbox(u)
  BY <1>1 DEF InInbox
<1> DEFINE v == Enter(u, "Idling")
<1>3. IdleUses(v) /\ Frame(v, w) /\ v.fault = "None"
  BY <1>1, <1>2, EnterUses
<1>. QED BY <1>3 DEF Enters, u

LEMMA EnterIdlingEnters ==
  ASSUME NEW w \in Good, w.fault = "None", Still(w, "Folder"), Still(w, "Child"), InInbox(w),
         Held(w.ses, w.rd)
  PROVE  Enters(EnterIdlingState(w), w)
<1> DEFINE x == [w EXCEPT !.idle.timer = TRUE]
<1>1. x \in Good /\ Sight(x, w) /\ Frame(x, w) /\ x.ao = w.ao
  BY SetTimerGives
<1> DEFINE v == Enter(WaitForIdleEvent(x, "Idle"), "Idling")
<1>2. EnterIdlingState(w) = v
  BY DEF EnterIdlingState
<1> HIDE DEF x
<1>3. /\ x.fault = "None" /\ Still(x, "Folder") /\ Still(x, "Child") /\ InInbox(x)
      /\ Held(x.ses, x.rd)
  BY <1>1 DEF Sight, Still, InInbox
<1>4. Enters(v, x)
  BY <1>1, <1>3, WaitForIdleEnters
<1> HIDE DEF v
<1>. QED BY <1>1, <1>2, <1>4, FrameAfter DEF Enters

LEMMA DoneToSyncEnters ==
  ASSUME NEW w \in Good, w.fault = "None", Still(w, "Folder"), Still(w, "Child"), InInbox(w),
         Held(w.ses, w.rd)
  PROVE  Enters(DoneToSync(w), w)
<1> DEFINE u == DoneIdle(w, "Idle")
           x == [u EXCEPT !.idle.timer = FALSE]
           b == [w EXCEPT !.idle.timer = FALSE]
           v == Enter(x, "WaitingForDone")
<1>1. /\ Only(u, w, "Idle") /\ u.ses.folder = w.ses.folder
      /\ For(u, "Idle", "Idle") /\ u.ses.cmd.idle = "WaitDone"
  BY DoneGives, ObjectNames
<1>2. DoneToSync(w) = v
  BY DEF DoneToSync
<1> HIDE DEF u
<1>3. u \in Good /\ u.fault = "None"
  BY <1>1 DEF Only
<1>4. /\ x \in Good /\ Sight(x, u) /\ Frame(x, u) /\ x.ao = u.ao /\ x.job = u.job /\ x.inbox = u.inbox
      /\ x.idle = [u.idle EXCEPT !.timer = FALSE]
  BY <1>3, SetTimerGives
<1>5. /\ b \in Good /\ Sight(b, w) /\ Frame(b, w) /\ b.ao = w.ao /\ b.job = w.job /\ b.inbox = w.inbox
      /\ b.idle = [w.idle EXCEPT !.timer = FALSE] /\ b.idle.timer = FALSE
  BY SetTimerGives
<1> HIDE DEF x, b
<1>6. Only(x, b, "Idle")
  <2>1. Rest(u, w) /\ Marked(u.ao, w.ao, "Idle", u.ao["Idle"].status)
    BY <1>1 DEF Only
  <2>2. x.pc = b.pc
    BY <1>4, <1>5, <2>1 DEF Frame, Rest
  <2>3. Rest(x, b)
    BY <1>4, <1>5, <2>1, <2>2 DEF Rest
  <2>. QED BY <1>3, <1>4, <1>5, <2>1, <2>3 DEF Only, Sight
<1>7. /\ Still(b, "Folder") /\ Still(b, "Child") /\ ~b.idle.timer /\ InInbox(x)
      /\ For(x, "Idle", "Idle") /\ x.ses.cmd.idle = "WaitDone"
  <2>1. Still(b, "Folder") /\ Still(b, "Child") /\ ~b.idle.timer
    BY <1>5 DEF Still
  <2>2. InInbox(x) /\ x.ses.cmd.idle = "WaitDone"
    BY <1>1, <1>4 DEF InInbox, Sight
  <2>3. For(x, "Idle", "Idle")
    BY <1>1, <1>4, SightSame, ObjectNames
  <2>. QED BY <2>1, <2>2, <2>3
<1>8. IdleUses(v) /\ Frame(v, b) /\ v.fault = "None"
  BY <1>6, <1>7, EnterUses
<1> HIDE DEF v
<1>. QED BY <1>2, <1>5, <1>8, FrameAfter DEF Enters

\* The controller runs, and what it waited for has been successful.
Turn(w) ==
  /\ w \in Good /\ w.fault = "None" /\ Still(w, "Folder") /\ Still(w, "Child")
  /\ w.idle.state # "Finished"
  /\ w.idle.state # "StartingIdle" => InInbox(w)
  /\ w.idle.timer => w.idle.state = "Idling"
  /\ IF w.idle.state \in {"WaitingForContinuation", "Idling"} THEN Held(w.ses, w.rd)
     ELSE Free(w.ses, w.rd)

LEMMA SyncOrEnters ==
  ASSUME NEW w, Between(w), Free(w.ses, w.rd), NEW v, Enters(v, w)
  PROVE  Enters(SyncOr(w, v), w)
<1>1. InboxSelected(w) = w
  BY InboxSafe DEF Between
<1>2. CASE Changed(w)
  <2>1. w.ses.folder # NoFolder
    BY <1>2 DEF Changed
  <2>2. SyncOr(w, v) = Sync(w)
    BY <1>1, <1>2 DEF SyncOr
  <2> DEFINE x == Sync(w)
  <2>3. IdleUses(x) /\ Frame(x, w) /\ x.fault = "None"
    BY <2>1, SyncGives
  <2>. QED BY <2>2, <2>3 DEF Enters
<1>3. CASE ~Changed(w)
  BY <1>1, <1>3 DEF SyncOr
<1>. QED BY <1>2, <1>3

LEMMA BetweenEnters ==
  ASSUME NEW w, Between(w), Free(w.ses, w.rd)
  PROVE  /\ Enters(GoIdleL(w), w) /\ Enters(DoBodyDownloadL(w), w)
         /\ Enters(SyncOr(w, GoIdleL(w)), w)
         /\ Enters(SyncOr(w, IF BodiesWanted(w) THEN DoBodyDownloadL(w) ELSE GoIdleL(w)), w)
<1> DEFINE g == GoIdleL(w)
           d == DoBodyDownloadL(w)
<1>1. IdleUses(g) /\ Frame(g, w) /\ g.fault = "None"
  BY GoIdleGives
<1>2. IdleUses(d) /\ Frame(d, w) /\ d.fault = "None"
  BY DownloadGives
<1> HIDE DEF g, d
<1>3. Enters(g, w) /\ Enters(d, w)
  BY <1>1, <1>2 DEF Enters
<1> DEFINE m == IF BodiesWanted(w) THEN d ELSE g
<1>4. Enters(m, w)
  BY <1>3
<1>5. Enters(SyncOr(w, g), w) /\ Enters(SyncOr(w, m), w)
  BY <1>3, <1>4, SyncOrEnters
<1>. QED BY <1>3, <1>5 DEF g, d

LEMMA StartingEnters ==
  ASSUME NEW w, Turn(w), w.idle.state = "StartingIdle"
  PROVE  Enters(Enter(SelectL(w, "Idle", Inbox), "SelectingInbox"), w)
<1> DEFINE u == SelectL(w, "Idle", Inbox)
           v == Enter(u, "SelectingInbox")
<1>1. /\ w \in Good /\ w.fault = "None" /\ Free(w.ses, w.rd) /\ Still(w, "Folder")
      /\ Still(w, "Child") /\ ~w.idle.timer
  BY DEF Turn
<1>2. /\ Only(u, w, "Idle") /\ u.ses.folder.box \in {Inbox, NoBox}
      /\ \/ For(u, "Idle", "Select") /\ u.ses.folder.box = Inbox
         \/ Told(u, "Idle") /\ (u.ao["Idle"].status = KErrNone => u.ses.folder.box = Inbox)
  BY <1>1, SelectGives, ObjectNames, SessionAssumption
<1> HIDE DEF u
<1>3. InInbox(u) /\ (For(u, "Idle", "Select") \/ Told(u, "Idle"))
  BY <1>2 DEF InInbox
<1>4. IdleUses(v) /\ Frame(v, w) /\ v.fault = "None"
  BY <1>1, <1>2, <1>3, EnterUses
<1>. QED BY <1>4 DEF Enters, u

\* The bodies of what was synchronised have been asked for.
Fetched(w) == [w EXCEPT !.inbox.fetched = w.inbox.synced, !.job["Child"] = NoJob]

LEMMA FetchedGives ==
  ASSUME NEW w \in Good
  PROVE  LET v == Fetched(w)
         IN v \in Good /\ Sight(v, w) /\ Frame(v, w) /\ v.idle = w.idle /\ v.ao = w.ao
<1> DEFINE i == [w.inbox EXCEPT !.fetched = w.inbox.synced]
           u == [w EXCEPT !.inbox = i]
           v == Fetched(w)
<1>0. w \in World /\ w.inbox \in Inboxes /\ "Child" \in Compounds /\ "Op" \in Compounds
  BY WorldFields DEF Good, Compounds
<1>1. i \in Inboxes
  BY <1>0 DEF Inboxes
<1>2. v = [u EXCEPT !.job["Child"] = NoJob]
  BY <1>0 DEF World, Fetched
<1> HIDE DEF i
<1>3. u \in World
  BY <1>0, <1>1 DEF World
<1>4. u.ses = w.ses /\ u.rd = w.rd /\ u.net = w.net /\ u.fault = w.fault /\ u.ao = w.ao
      /\ u.idle = w.idle /\ u.job = w.job /\ u.pc = w.pc
  BY <1>0 DEF World
<1> HIDE DEF u, v
<1>5. u \in Good
  BY <1>3, <1>4, BesideGood
<1> DEFINE x == [u EXCEPT !.job["Child"] = NoJob]
<1>6. /\ x \in Good /\ x.ses = u.ses /\ x.rd = u.rd /\ x.fault = u.fault /\ x.ao = u.ao
      /\ x.idle = u.idle /\ x.inbox = u.inbox /\ x.pc = u.pc /\ x.job["Child"] = NoJob
      /\ \A p \in Compounds : p # "Child" => x.job[p] = u.job[p]
  BY <1>0, <1>5, NoJobTyped, SetJobGives
<1>7. v = x
  BY <1>2
<1> HIDE DEF x
<1>8. v \in Good /\ Sight(v, w) /\ Frame(v, w) /\ v.idle = w.idle /\ v.ao = w.ao
  BY <1>0, <1>4, <1>6, <1>7 DEF Sight, Frame
<1>. QED BY <1>8 DEF v

LEMMA FetchedEnters ==
  ASSUME NEW w, Between(w), Free(w.ses, w.rd)
  PROVE  LET f == Fetched(w)
         IN Enters(SyncOr(f, GoIdleL(f)), w)
<1> DEFINE f == Fetched(w)
<1>1. f \in Good /\ Sight(f, w) /\ Frame(f, w) /\ f.idle = w.idle /\ f.ao = w.ao
  BY FetchedGives DEF Between
<1> HIDE DEF f
<1>2. Between(f) /\ Free(f.ses, f.rd)
  BY <1>1 DEF Between, Sight, Still, InInbox
<1>3. Enters(SyncOr(f, GoIdleL(f)), f)
  BY <1>2, BetweenEnters
<1> DEFINE v == SyncOr(f, GoIdleL(f))
<1>4. Enters(v, f)
  BY <1>3
<1> HIDE DEF v
<1>5. Enters(v, w)
  BY <1>1, <1>4, FrameAfter DEF Enters
<1>. QED BY <1>5 DEF v, f

LEMMA RunContinueEnters ==
  ASSUME NEW w, Turn(w)
  PROVE  Enters(RunContinueL(w), w)
<1> DEFINE s == w.idle.state
           f == Fetched(w)
           t == [w EXCEPT !.idle.timer = @ /\ ~Changed(w)]
           v == InboxSelected(w)
<1>0. /\ w \in Good /\ w.fault = "None" /\ w \in World /\ Still(w, "Folder") /\ Still(w, "Child")
      /\ s \in IdleStates /\ s # "Finished"
  BY WorldFields DEF Turn, Good, IdleTypes
<1>1. s # "StartingIdle" => v = w /\ InInbox(w)
  BY InboxSafe DEF Turn
<1>2. s \notin {"StartingIdle", "WaitingForContinuation", "Idling"} =>
        Between(w) /\ Free(w.ses, w.rd)
  BY <1>1 DEF Turn, Between
<1>3. s \in {"WaitingForContinuation", "Idling"} => Held(w.ses, w.rd)
  BY DEF Turn
<1> HIDE DEF v, f, t
<1>4. CASE s = "StartingIdle"
  BY <1>4, StartingEnters DEF RunContinueL
<1>5. CASE s = "SelectingInbox"
  <2>1. RunContinueL(w) = SyncOr(w, IF BodiesWanted(w) THEN DoBodyDownloadL(w) ELSE GoIdleL(w))
    BY <1>5 DEF RunContinueL
  <2>. QED BY <1>2, <1>5, <2>1, BetweenEnters
<1>6. CASE s = "WaitingForContinuation"
  <2>1. RunContinueL(w) = IF Changed(v) THEN DoneToSync(v) ELSE EnterIdlingState(v)
    BY <1>6 DEF RunContinueL, v
  <2>2. Enters(DoneToSync(w), w) /\ Enters(EnterIdlingState(w), w)
    BY <1>0, <1>1, <1>3, <1>6, DoneToSyncEnters, EnterIdlingEnters
  <2>. QED BY <1>1, <1>6, <2>1, <2>2
<1>7. CASE s = "Idling"
  <2>1. RunContinueL(w) = IF Changed(v) THEN DoneToSync(v)
                          ELSE Enter(WaitForIdleEvent(v, "Idle"), "Idling")
    BY <1>7 DEF RunContinueL, v
  <2>2. Enters(DoneToSync(w), w) /\ Enters(Enter(WaitForIdleEvent(w, "Idle"), "Idling"), w)
    BY <1>0, <1>1, <1>3, <1>7, DoneToSyncEnters, WaitForIdleEnters
  <2>. QED BY <1>1, <1>7, <2>1, <2>2
<1>8. CASE s = "WaitingForServerEvent"
  <2>1. RunContinueL(w) = SyncOr(t, GoIdleL(w))
    BY <1>8 DEF RunContinueL, t
  <2>2. t = w
    <3>1. w.idle.timer = FALSE
      BY <1>0, <1>8, WorldFields DEF Turn, IdleTypes
    <3>2. t = [w EXCEPT !.idle = [w.idle EXCEPT !.timer = FALSE]]
      BY <1>0, <3>1 DEF t
    <3>3. [w.idle EXCEPT !.timer = FALSE] = w.idle
      <4>1. w.idle \in IdleTypes
        BY <1>0, WorldFields
      <4>. QED BY <3>1, <4>1 DEF IdleTypes
    <3>. QED BY <1>0, <3>2, <3>3 DEF World
  <2>. QED BY <1>2, <1>8, <2>1, <2>2, BetweenEnters
<1>9. CASE s \in {"WaitingForFlush", "WaitingForDone"}
  <2>1. RunContinueL(w) = SyncOr(w, GoIdleL(w))
    BY <1>9 DEF RunContinueL
  <2>. QED BY <1>2, <1>9, <2>1, BetweenEnters
<1>10. CASE s = "Synchronising"
  <2>1. RunContinueL(w) = IF BodiesWanted(w) THEN DoBodyDownloadL(w) ELSE SyncOr(w, GoIdleL(w))
    BY <1>10 DEF RunContinueL
  <2>. QED BY <1>2, <1>10, <2>1, BetweenEnters
<1>11. CASE s = "SyncFetching"
  <2>1. RunContinueL(w) = SyncOr(f, GoIdleL(f))
    BY <1>11 DEF RunContinueL, f, Fetched
  <2>2. Enters(SyncOr(f, GoIdleL(f)), w)
    BY <1>2, <1>11, FetchedEnters DEF f
  <2>. QED BY <2>1, <2>2
<1>. QED BY <1>0, <1>4, <1>5, <1>6, <1>7, <1>8, <1>9, <1>10, <1>11 DEF IdleStates

\* An active object runs.
LEMMA RunsGives ==
  ASSUME NEW u \in Good, NEW o \in Objects
  PROVE  LET w == [u EXCEPT !.ao[o].active = FALSE]
         IN /\ w \in Good /\ Sight(w, u) /\ Rest(w, u) /\ ~w.ao[o].active
            /\ \A p \in Objects : p # o => w.ao[p].active = u.ao[p].active
<1> DEFINE w == [u EXCEPT !.ao[o].active = FALSE]
<1>0. u \in World /\ u.ao \in ActiveObjects
  BY WorldFields DEF Good
<1>1. w \in Good
  BY GoodIsClosed, Deactivated
<1>2. w.ses = u.ses /\ w.rd = u.rd /\ w.fault = u.fault /\ Rest(w, u)
      /\ w.ao = [u.ao EXCEPT ![o].active = FALSE]
  BY <1>0 DEF World, Rest
<1> HIDE DEF w
<1>3. /\ \A p \in Objects : w.ao[p].status = u.ao[p].status
      /\ ~w.ao[o].active
      /\ \A p \in Objects : p # o => w.ao[p].active = u.ao[p].active
  BY <1>0, <1>2 DEF ActiveObjects
<1>4. /\ w \in Good /\ Sight(w, u) /\ Rest(w, u) /\ ~w.ao[o].active
      /\ \A p \in Objects : p # o => w.ao[p].active = u.ao[p].active
  BY <1>1, <1>2, <1>3 DEF Sight
<1>. QED BY <1>4 DEF w

\* What the idle controller finds when it runs.
LEMMA IdleHears ==
  ASSUME NEW u, IdleUses(u), ~Pending(u, "Idle")
  PROVE  /\ Still(u, "Folder") /\ Still(u, "Child") /\ u.idle.state # "Finished"
         /\ u.idle.state # "StartingIdle" => InInbox(u)
         /\ u.idle.timer => u.idle.state = "Idling"
         /\ u.ao["Idle"].status = KErrNone =>
              IF u.idle.state \in {"WaitingForContinuation", "Idling"} THEN Held(u.ses, u.rd)
              ELSE Free(u.ses, u.rd)
         /\ u.ao["Idle"].status # KErrNone =>
              /\ Off(u.ses, u.rd)
              /\ u.idle.state # "SyncFetching" =>
                   (~Fatal(u.ao["Idle"].status) => Free(u.ses, u.rd))
<1>1. \A k : ~For(u, "Idle", k)
  BY DEF For, Waits
<1>2. ~Flushes(u, "Idle")
  BY DEF Flushes, Waits
<1>3. ~Fatal(KErrNone)
  BY CodeFacts
<1>4. u.idle.state # "Finished" /\ (u.idle.state # "StartingIdle" => InInbox(u))
      /\ (u.idle.timer => u.idle.state = "Idling")
  BY DEF IdleUses
<1>5. Still(u, "Folder") /\ Still(u, "Child")
  BY <1>1, <1>2 DEF IdleUses
<1>6. u.ao["Idle"].status = KErrNone =>
        IF u.idle.state \in {"WaitingForContinuation", "Idling"} THEN Held(u.ses, u.rd)
        ELSE Free(u.ses, u.rd)
  BY <1>1, <1>2, <1>3 DEF IdleUses, Told, JobTold, Settled
<1>7. u.ao["Idle"].status # KErrNone => Off(u.ses, u.rd)
  BY <1>1, <1>2 DEF IdleUses, Told, JobTold, Settled, Off
<1>8. u.ao["Idle"].status # KErrNone /\ u.idle.state # "SyncFetching" =>
        (~Fatal(u.ao["Idle"].status) => Free(u.ses, u.rd))
  BY <1>1, <1>2 DEF IdleUses, Told, Settled
<1>. QED BY <1>4, <1>5, <1>6, <1>7, <1>8

\* The controller, or what it started, has been cancelled, or runs for the last time.
LEMMA IdleCompleteGives ==
  ASSUME NEW w \in Good, NEW err \in Statuses
  PROVE  LET v == IdleComplete(w, err)
         IN /\ v \in Good /\ v.ses = w.ses /\ v.rd = w.rd /\ v.fault = w.fault
            /\ v.pc = w.pc /\ v.job = w.job /\ v.inbox = w.inbox
            /\ v.idle.state = w.idle.state /\ v.idle.timer = w.idle.timer
            /\ v.idle.stopping = w.idle.stopping /\ ~v.idle.report
            /\ \A o \in Objects : v.ao[o].active = w.ao[o].active
            /\ \A o \in Objects : o # "Pc" => v.ao[o].status = w.ao[o].status
            /\ w.idle.report => v.ao["Pc"].status = err
            /\ ~w.idle.report => v = w
<1> DEFINE u == [w EXCEPT !.idle.report = FALSE]
           v == IdleComplete(w, err)
<1>0. w \in World /\ w.idle \in IdleTypes /\ "Pc" \in Objects
  BY WorldFields, ObjectNames DEF Good
<1>1. v \in Good
  BY GoodIsClosed, IdleCompleteStays
<1>2. CASE ~w.idle.report
  <2>1. v = w
    BY <1>2 DEF IdleComplete
  <2> HIDE DEF v
  <2>2. /\ v \in Good /\ v.ses = w.ses /\ v.rd = w.rd /\ v.fault = w.fault
        /\ v.pc = w.pc /\ v.job = w.job /\ v.inbox = w.inbox
        /\ v.idle.state = w.idle.state /\ v.idle.timer = w.idle.timer
        /\ v.idle.stopping = w.idle.stopping /\ ~v.idle.report
        /\ \A o \in Objects : v.ao[o].active = w.ao[o].active
        /\ \A o \in Objects : o # "Pc" => v.ao[o].status = w.ao[o].status
        /\ w.idle.report => v.ao["Pc"].status = err
        /\ ~w.idle.report => v = w
    BY <1>1, <1>2, <2>1
  <2>. QED BY <2>2 DEF v
<1>3. CASE w.idle.report
  <2>1. v = Signal(u, "Pc", err)
    BY <1>3 DEF IdleComplete
  <2>2. /\ u.ses = w.ses /\ u.rd = w.rd /\ u.fault = w.fault /\ u.pc = w.pc /\ u.job = w.job
        /\ u.inbox = w.inbox /\ u.ao = w.ao /\ u.idle = [w.idle EXCEPT !.report = FALSE]
    BY <1>0 DEF World
  <2>3. u \in World
    BY <1>0, WorldClosed, SetIdleReport
  <2> HIDE DEF u, v
  <2>4. v.ses = u.ses /\ v.rd = u.rd /\ v.fault = u.fault /\ Rest(v, u)
        /\ Marked(v.ao, u.ao, "Pc", err)
    BY <1>0, <2>1, <2>3, SignalGives
  <2>5. /\ v.idle.state = w.idle.state /\ v.idle.timer = w.idle.timer
        /\ v.idle.stopping = w.idle.stopping /\ ~v.idle.report
    BY <1>0, <2>2, <2>4 DEF IdleTypes, Rest
  <2>6. /\ v \in Good /\ v.ses = w.ses /\ v.rd = w.rd /\ v.fault = w.fault
        /\ v.pc = w.pc /\ v.job = w.job /\ v.inbox = w.inbox
        /\ v.idle.state = w.idle.state /\ v.idle.timer = w.idle.timer
        /\ v.idle.stopping = w.idle.stopping /\ ~v.idle.report
        /\ \A o \in Objects : v.ao[o].active = w.ao[o].active
        /\ \A o \in Objects : o # "Pc" => v.ao[o].status = w.ao[o].status
        /\ w.idle.report => v.ao["Pc"].status = err
        /\ ~w.idle.report => v = w
    BY <1>1, <1>3, <2>2, <2>4, <2>5 DEF Marked, Rest
  <2>. QED BY <2>6 DEF v
<1>. QED BY <1>2, <1>3

LEMMA SetStateGives ==
  ASSUME NEW w \in Good, NEW s \in IdleStates
  PROVE  LET v == [w EXCEPT !.idle.state = s]
         IN /\ v \in Good /\ Sight(v, w) /\ Frame(v, w) /\ v.ao = w.ao /\ v.job = w.job
            /\ v.idle.state = s /\ v.idle.timer = w.idle.timer
<1> DEFINE v == [w EXCEPT !.idle.state = s]
<1>0. w \in World /\ w.idle \in IdleTypes
  BY WorldFields DEF Good
<1>1. v \in Good
  BY GoodIsClosed, SetIdleState
<1>2. /\ v.ses = w.ses /\ v.rd = w.rd /\ v.fault = w.fault /\ v.ao = w.ao
      /\ v.job = w.job /\ v.pc = w.pc /\ v.idle = [w.idle EXCEPT !.state = s]
  BY <1>0 DEF World
<1> HIDE DEF v
<1>3. /\ v.idle.state = s /\ v.idle.timer = w.idle.timer /\ v.idle.report = w.idle.report
      /\ v.idle.stopping = w.idle.stopping
  BY <1>0, <1>2 DEF IdleTypes
<1>4. /\ v \in Good /\ Sight(v, w) /\ Frame(v, w) /\ v.ao = w.ao /\ v.job = w.job
      /\ v.idle.state = s /\ v.idle.timer = w.idle.timer
  BY <1>1, <1>2, <1>3 DEF Sight, Frame
<1>. QED BY <1>4 DEF v

\* DONE or a flush is waited for.
LEMMA ActivatedUses ==
  ASSUME NEW x, NEW u, Only(u, x, "Idle"), Still(x, "Folder"), Still(x, "Child"), ~x.idle.timer,
         InInbox(u),
         \/ /\ x.idle.state = "WaitingForDone"
            /\ For(u, "Idle", "Idle") /\ u.ses.cmd.idle = "WaitDone"
         \/ x.idle.state = "WaitingForFlush" /\ (Flushes(u, "Idle") \/ Settled(u, "Idle"))
  PROVE  /\ Enters(SetActive(u, "Idle"), x)
         /\ SetActive(u, "Idle").idle = x.idle
<1> DEFINE v == SetActive(u, "Idle")
<1>1. /\ Frame(u, x) /\ u.idle = x.idle /\ u.job = x.job /\ u.fault = "None" /\ u \in World
      /\ \A o \in Objects : u.ao[o].active = x.ao[o].active
  BY OnlyFrame
<1>2. Sight(v, u) /\ Rest(v, u) /\ Activated(v, u, "Idle")
  BY <1>1, SetActiveGives, ObjectNames
<1> HIDE DEF v
<1>3. /\ v.ao["Idle"].active /\ Still(v, "Folder") /\ Still(v, "Child")
      /\ ~v.idle.timer /\ v.idle = x.idle /\ Frame(v, u)
  BY <1>1, <1>2, ObjectNames DEF Activated, Still, Rest, Frame, Sight
<1>4. /\ InInbox(v) /\ v.ses = u.ses
      /\ \A k : For(v, "Idle", k) <=> For(u, "Idle", k)
      /\ Flushes(v, "Idle") <=> Flushes(u, "Idle")
      /\ Settled(v, "Idle") <=> Settled(u, "Idle")
  <2>1. InInbox(v)
    BY <1>2, SightSame
  <2>2. v.ses = u.ses
    BY <1>2 DEF Sight
  <2>3. /\ \A k : For(v, "Idle", k) <=> For(u, "Idle", k)
        /\ Flushes(v, "Idle") <=> Flushes(u, "Idle")
        /\ Settled(v, "Idle") <=> Settled(u, "Idle")
    BY <1>2, SightSame, ObjectNames
  <2>. QED BY <2>1, <2>2, <2>3
<1>5. IdleUses(v)
  BY <1>3, <1>4 DEF IdleUses
<1>6. Enters(v, x) /\ v.idle = x.idle
  BY <1>1, <1>2, <1>3, <1>5, FrameAfter DEF Enters, Sight
<1>. QED BY <1>6 DEF v

LEMMA JobCompleteGives ==
  ASSUME NEW w \in Good, NEW o \in Compounds, w.job[o].report, NEW err \in Codes \cup {1}
  PROVE  LET v == JobComplete(w, o, err)
         IN /\ v \in Good /\ v.ses = w.ses /\ v.rd = w.rd /\ v.fault = w.fault
            /\ v.idle = w.idle /\ v.pc = w.pc /\ ~v.job[o].report
            /\ v.job[o].step = w.job[o].step
            /\ \A p \in Compounds : p # o => v.job[p] = w.job[p]
            /\ Marked(v.ao, w.ao, Starter(o), err)
<1> DEFINE u == [w EXCEPT !.job[o].report = FALSE]
           v == Signal(u, Starter(o), err)
<1>0. w \in World /\ w.job \in Jobs /\ Starter(o) \in Objects /\ err \in Statuses /\ err \in Codes
  BY WorldFields, StarterTyped, CodesAreStatuses DEF Good, KErrImapNo
<1>1. JobComplete(w, o, err) = v
  BY DEF JobComplete
<1>2. u \in Good
  BY GoodIsClosed, SetJobReport
<1>3. /\ u.ses = w.ses /\ u.rd = w.rd /\ u.fault = w.fault /\ u.ao = w.ao /\ u.idle = w.idle
      /\ u.pc = w.pc /\ u.job = [w.job EXCEPT ![o].report = FALSE]
  BY <1>0 DEF World
<1> HIDE DEF u
<1>4. u \in World
  BY <1>2 DEF Good
<1>5. /\ v \in Good /\ v.ses = u.ses /\ v.rd = u.rd /\ v.fault = u.fault /\ Rest(v, u)
      /\ Marked(v.ao, u.ao, Starter(o), err)
  BY <1>0, <1>2, <1>4, SignalGives, GoodIsClosed, SignalStays
<1> HIDE DEF v
<1>6. /\ ~v.job[o].report /\ v.job[o].step = w.job[o].step
      /\ \A p \in Compounds : p # o => v.job[p] = w.job[p]
  BY <1>0, <1>3, <1>5 DEF Jobs, Compounds, Rest
<1>7. /\ v \in Good /\ v.ses = w.ses /\ v.rd = w.rd /\ v.fault = w.fault
      /\ v.idle = w.idle /\ v.pc = w.pc /\ ~v.job[o].report
      /\ v.job[o].step = w.job[o].step
      /\ \A p \in Compounds : p # o => v.job[p] = w.job[p]
      /\ Marked(v.ao, w.ao, Starter(o), err)
  BY <1>3, <1>5, <1>6 DEF Rest
<1>. QED BY <1>1, <1>7

\* CActive::Cancel of an object whose DoCancel has left an answer
LEMMA CancelsGives ==
  ASSUME NEW w, NEW o \in Objects, w.ao[o].active, NEW v \in Good, v.ao[o].status # KRequestPending
  PROVE  LET c == Cancel(w, o, v)
         IN /\ c \in Good /\ Sight(c, v) /\ Rest(c, v) /\ ~c.ao[o].active
            /\ \A p \in Objects : p # o => c.ao[p].active = v.ao[p].active
<1> DEFINE c == [v EXCEPT !.ao[o].active = FALSE]
<1>1. Expect(v, v.ao[o].status # KRequestPending, "CancelHangs") = v
  BY DEF Expect
<1>2. Cancel(w, o, v) = c
  BY <1>1 DEF Cancel, Active
<1>3. /\ c \in Good /\ Sight(c, v) /\ Rest(c, v) /\ ~c.ao[o].active
      /\ \A p \in Objects : p # o => c.ao[p].active = v.ao[p].active
  BY RunsGives
<1>. QED BY <1>2, <1>3

LEMMA JobCancelGives ==
  ASSUME NEW w \in Good, w.fault = "None", NEW o \in Compounds, JobUses(w, o)
  PROVE  LET v == Cancel(w, o, JobDoCancel(w, o))
         IN /\ v \in Good /\ v.fault = "None" /\ Off(v.ses, v.rd)
            /\ v.ses.folder.box \in {w.ses.folder.box, NoBox}
            /\ v.idle = w.idle /\ v.pc = w.pc
            /\ \A p \in Compounds : p # o => v.job[p] = w.job[p]
            /\ ~v.ao[o].active
            /\ \A p \in Objects : p # o => v.ao[p].active = w.ao[p].active
            /\ v.ao[Starter(o)].status = KErrCancel
            /\ \A p \in Objects : p # o /\ p # Starter(o) => v.ao[p].status = w.ao[p].status
<1> DEFINE s == IF w.job[o].step = "Start" THEN w ELSE SessionCancel(w)
           j == JobComplete(s, o, KErrCancel)
           v == Cancel(w, o, j)
<1>0. /\ w \in World /\ o \in Objects /\ Starter(o) \in Objects /\ Starter(o) # o
      /\ w.job[o].report /\ w.ao[o].active
  BY ObjectNames, StarterTyped DEF Good, Starter, Compounds, JobUses
<1>1. JobDoCancel(w, o) = j
  BY DEF JobDoCancel
<1>2. /\ s \in Good /\ s.fault = "None" /\ Rest(s, w) /\ Off(s.ses, s.rd)
      /\ s.ses.folder.box \in {w.ses.folder.box, NoBox}
      /\ Marked(s.ao, w.ao, o, s.ao[o].status) /\ s.ao[o].status # KRequestPending
  <2>1. CASE w.job[o].step = "Start"
    <3>1. s = w /\ Free(w.ses, w.rd) /\ w.ao[o].status = KErrNone
      BY <2>1 DEF JobUses
    <3> HIDE DEF s
    <3>. QED BY <3>1, CodesAreStatuses, CodeFacts DEF Free, Off, Rest, Marked
  <2>2. CASE w.job[o].step # "Start" /\ Waits(w, o)
    <3>1. s = SessionCancel(w)
      BY <2>2
    <3>2. ~(w.ses.cmd.kind = "Idle" /\ w.ses.cmd.idle = "WaitResponse")
      <4>1. ~Told(w, o)
        BY <1>0, <2>2, WaitsAlone
      <4>2. \E k \in {"Select", "Fetch"} : For(w, o, k)
        BY <2>2, <4>1 DEF JobUses
      <4>. QED BY <4>2 DEF For
    <3>3. Only(s, w, o) /\ s.ao[o].status = KErrCancel /\ s.ses.folder.box \in {w.ses.folder.box, NoBox}
          /\ Left(s.ses, s.rd)
      BY <1>0, <2>2, <3>1, <3>2, CancelGives
    <3> HIDE DEF s
    <3>. QED BY <3>3, CodesAreStatuses, CodeFacts DEF Only, Off
  <2>3. CASE w.job[o].step # "Start" /\ ~Waits(w, o)
    <3>1. s = SessionCancel(w)
      BY <2>3
    <3>2. Told(w, o)
      BY <2>3 DEF JobUses, For
    <3>3. Off(w.ses, w.rd) /\ w.ao[o].status # KRequestPending
      BY <3>2 DEF Told, Off, Pending
    <3>4. s \in Good /\ s.fault = "None" /\ Rest(s, w) /\ s.ses = w.ses /\ s.rd = w.rd /\ s.ao = w.ao
      BY <3>1, <3>3, CancelSpares
    <3> HIDE DEF s
    <3>. QED BY <3>3, <3>4 DEF Marked
  <2>. QED BY <2>1, <2>2, <2>3
<1> HIDE DEF s
<1>3. s.job = w.job /\ s.idle = w.idle /\ s.pc = w.pc
  BY <1>2 DEF Rest
<1>4. /\ j \in Good /\ j.ses = s.ses /\ j.rd = s.rd /\ j.fault = s.fault
      /\ j.idle = s.idle /\ j.pc = s.pc /\ ~j.job[o].report
      /\ \A p \in Compounds : p # o => j.job[p] = s.job[p]
      /\ Marked(j.ao, s.ao, Starter(o), KErrCancel)
  <2>1. s.job[o].report /\ KErrCancel \in Codes \cup {1}
    BY <1>0, <1>3, CodesAreStatuses
  <2>. QED BY <1>2, <2>1, JobCompleteGives
<1> HIDE DEF j
<1>5. j.ao[o].status # KRequestPending
  BY <1>0, <1>2, <1>4 DEF Marked
<1>6. /\ v \in Good /\ Sight(v, j) /\ Rest(v, j) /\ ~v.ao[o].active
      /\ \A p \in Objects : p # o => v.ao[p].active = j.ao[p].active
  BY <1>0, <1>4, <1>5, CancelsGives
<1> HIDE DEF v
<1>7. /\ v \in Good /\ v.fault = "None" /\ Off(v.ses, v.rd)
      /\ v.ses.folder.box \in {w.ses.folder.box, NoBox}
      /\ v.idle = w.idle /\ v.pc = w.pc
      /\ \A p \in Compounds : p # o => v.job[p] = w.job[p]
  BY <1>2, <1>3, <1>4, <1>6 DEF Sight, Rest
<1>8. /\ ~v.ao[o].active
      /\ \A p \in Objects : p # o => v.ao[p].active = w.ao[p].active
      /\ v.ao[Starter(o)].status = KErrCancel
      /\ \A p \in Objects : p # o /\ p # Starter(o) => v.ao[p].status = w.ao[p].status
  BY <1>0, <1>2, <1>4, <1>6 DEF Sight, Marked
<1>. QED BY <1>1, <1>7, <1>8 DEF v

\* The reissue timer is stopped.
LEMMA TimerStopped ==
  ASSUME NEW w \in Good, IdleUses(w)
  PROVE  LET v == [w EXCEPT !.idle.timer = FALSE]
         IN /\ v \in Good /\ IdleUses(v) /\ Frame(v, w) /\ Sight(v, w) /\ v.ao = w.ao
            /\ v.job = w.job /\ v.idle.state = w.idle.state /\ ~v.idle.timer
<1> DEFINE v == [w EXCEPT !.idle.timer = FALSE]
<1>1. /\ v \in Good /\ Sight(v, w) /\ Frame(v, w) /\ v.ao = w.ao /\ v.job = w.job
      /\ v.inbox = w.inbox /\ v.idle.state = w.idle.state /\ v.idle.timer = FALSE
  BY SetTimerGives
<1> HIDE DEF v
<1>2. /\ \A o : /\ Pending(v, o) <=> Pending(w, o)
                /\ Waits(v, o) <=> Waits(w, o)
                /\ \A k : For(v, o, k) <=> For(w, o, k)
                /\ Flushes(v, o) <=> Flushes(w, o)
                /\ Told(v, o) <=> Told(w, o)
                /\ JobTold(v, o) <=> JobTold(w, o)
                /\ Settled(v, o) <=> Settled(w, o)
                /\ Still(v, o) <=> Still(w, o)
      /\ InInbox(v) <=> InInbox(w)
  BY <1>1 DEF Sight, Pending, Waits, For, Flushes, Told, JobTold, Settled, Still, InInbox
<1>3. /\ FolderUses(v) <=> FolderUses(w)
      /\ JobUses(v, "Child") <=> JobUses(w, "Child")
  BY <1>1, <1>2 DEF FolderUses, JobUses, Sight
<1>4. IdleUses(v)
  BY <1>1, <1>2, <1>3 DEF IdleUses, Sight
<1>5. /\ v \in Good /\ IdleUses(v) /\ Frame(v, w) /\ Sight(v, w) /\ v.ao = w.ao
      /\ v.job = w.job /\ v.idle.state = w.idle.state /\ ~v.idle.timer
  BY <1>1, <1>4
<1>. QED BY <1>5 DEF v

\* A cancel leaves the kind of the command alone, whoever cancels.
SameKind(v, w) == v.ses.cmd.kind = w.ses.cmd.kind

LEMMA CancelAlike == ASSUME NEW w \in World PROVE SameKind(SessionCancel(w), w)
<1> DEFINE c == Cancelled(w.ses)
           v == SessionCancel(w)
<1>1. w.ses \in Sessions /\ w.ses.cmd \in Commands
  BY WorldFields, SessionFields
<1>2. DoCancel(w) \in World /\ DoCancel(w).ses = c
  BY DoCancelEffect
<1>3. c \in Sessions
  BY <1>2, WorldFields
<1>4. c.cmd = w.ses.cmd \/ c.cmd = CommandCancel(w.ses.cmd)
  BY <1>1, CancelledFields
<1>5. v.ses = [c EXCEPT !.report = "None"]
  BY SessionCancelEffect
<1> HIDE DEF c, v
<1>6. v.ses.cmd = c.cmd
  BY <1>3, <1>5 DEF Sessions
<1>. QED BY <1>1, <1>4, <1>6, CommandCancelFields DEF SameKind, v

LEMMA DeactivatedAlike ==
  ASSUME NEW w \in World, NEW o \in Objects, NEW v \in World, SameKind(v, w)
  PROVE  Cancel(w, o, v) \in World /\ SameKind(Cancel(w, o, v), w)
<1> DEFINE e == Expect(v, v.ao[o].status # KRequestPending, "CancelHangs")
           c == [e EXCEPT !.ao[o].active = FALSE]
<1>1. Cancel(w, o, v) \in World
  BY WorldClosed, CancelStays
<1>2. e = v \/ e = [v EXCEPT !.fault = "CancelHangs"]
  BY DEF Expect
<1>3. e.ses = v.ses /\ e \in World
  BY <1>2, WorldClosed, ExpectStays, Names DEF World
<1> HIDE DEF e
<1>4. c.ses = v.ses
  BY <1>3 DEF World
<1>5. Cancel(w, o, v) = IF ~Active(w, o) THEN w ELSE c
  BY DEF Cancel, e
<1> HIDE DEF c
<1>. QED BY <1>1, <1>4, <1>5 DEF SameKind

LEMMA JobCancelAlike ==
  ASSUME NEW w \in World, NEW o \in Compounds
  PROVE  JobDoCancel(w, o) \in World /\ SameKind(JobDoCancel(w, o), w)
<1> DEFINE s == IF w.job[o].step = "Start" THEN w ELSE SessionCancel(w)
           r == [s EXCEPT !.job[o].report = FALSE]
           j == Signal(r, Starter(o), KErrCancel)
<1>1. JobDoCancel(w, o) \in World
  BY WorldClosed, JobCancelStays
<1>2. s \in World /\ SameKind(s, w)
  BY CancelAlike, SessionCancelTyped DEF SameKind
<1>3. JobDoCancel(w, o) = IF ~s.job[o].report THEN s ELSE j
  BY DEF JobDoCancel, JobComplete
<1> HIDE DEF s
<1>4. r \in World /\ r.ses = s.ses
  BY <1>2, WorldClosed, SetJobReport DEF World
<1> HIDE DEF r
<1>5. j.ses = r.ses
  BY <1>4, SignalGives, StarterTyped, CodesAreStatuses
<1> HIDE DEF j
<1>. QED BY <1>1, <1>2, <1>3, <1>4, <1>5 DEF SameKind

LEMMA FolderCancelAlike ==
  ASSUME NEW w \in World
  PROVE  FolderDoCancel(w) \in World /\ SameKind(FolderDoCancel(w), w)
<1> DEFINE s == SessionCancel(w)
           f == Signal(s, "Idle", KErrCancel)
<1>1. f \in World
  BY WorldClosed, FolderCancelStays DEF FolderDoCancel
<1>2. s \in World /\ SameKind(s, w)
  BY CancelAlike, SessionCancelTyped
<1>3. FolderDoCancel(w) = f
  BY DEF FolderDoCancel
<1> HIDE DEF s
<1>4. f.ses = s.ses
  BY <1>2, SignalGives, ObjectNames, CodesAreStatuses
<1> HIDE DEF f
<1>. QED BY <1>1, <1>2, <1>3, <1>4 DEF SameKind

LEMMA IdleCancelAlike ==
  ASSUME NEW w \in World
  PROVE  IdleInternalCancel(w) \in World /\ SameKind(IdleInternalCancel(w), w)
<1> DEFINE v == [w EXCEPT !.idle.timer = FALSE]
           f == Cancel(v, "Folder", FolderDoCancel(v))
           c == Cancel(v, "Child", JobDoCancel(v, "Child"))
           j == [c EXCEPT !.job["Child"] = NoJob]
           i == IdleInternalCancel(w)
<1>1. v \in World /\ v.ses = w.ses
  BY WorldClosed, SetIdleTimer DEF World
<1>2. i = CASE w.idle.state \in OnSession -> SessionCancel(v)
            [] w.idle.state = "Synchronising" -> f [] w.idle.state = "SyncFetching" -> j
            [] OTHER -> v
  BY DEF IdleInternalCancel
<1>3. i \in World
  BY WorldClosed, IdleInternalCancelStays
<1> HIDE DEF v
<1>4. "Child" \in Compounds /\ {"Folder", "Child"} \subseteq Objects
  BY ObjectNames DEF Compounds
<1>5. SameKind(SessionCancel(v), v) /\ SameKind(f, v) /\ SameKind(c, v) /\ c \in World
  BY <1>1, <1>4, CancelAlike, FolderCancelAlike, JobCancelAlike, DeactivatedAlike
<1> HIDE DEF f, c
<1>6. j.ses = c.ses
  BY <1>5 DEF World
<1> HIDE DEF j
<1>7. i = SessionCancel(v) \/ i = f \/ i = j \/ i = v
  BY <1>2
<1> HIDE DEF i
<1>8. SameKind(i, w)
  BY <1>1, <1>5, <1>6, <1>7 DEF SameKind
<1>. QED BY <1>3, <1>8 DEF i

\* What is left when the idle controller is cancelled.
Ceased(v, w) ==
  /\ v \in Good /\ v.fault = "None" /\ Frame(v, w) /\ ~v.idle.timer
  /\ v.idle.state = w.idle.state /\ Still(v, "Folder") /\ Still(v, "Child")
  /\ v.ao["Idle"].active /\ ~Pending(v, "Idle")
  /\ w.idle.state # "StartingIdle" => InInbox(v)
  /\ Off(v.ses, v.rd) \/ Held(v.ses, v.rd)
  /\ w.idle.state = "Idling" => Over(v.ses, v.rd) \/ Held(v.ses, v.rd)
  /\ w.idle.state \in {"WaitingForServerEvent", "SyncFetching"} => Off(v.ses, v.rd)

LEMMA OnSessionCeases ==
  ASSUME NEW w \in Good, w.fault = "None", IdleUses(w), w.idle.state \in OnSession, ~w.idle.timer
  PROVE  Ceased(SessionCancel(w), w)
<1> DEFINE v == SessionCancel(w)
<1>0. /\ w \in World /\ "Idle" \in Objects /\ InInbox(w) /\ w.ao["Idle"].active
      /\ Still(w, "Folder") /\ Still(w, "Child")
  BY ObjectNames DEF Good, IdleUses, OnSession
<1>1. CASE Waits(w, "Idle")
  <2>1. /\ Only(v, w, "Idle") /\ v.ao["Idle"].status = KErrCancel
        /\ v.ses.folder.box \in {w.ses.folder.box, NoBox}
        /\ w.ses.cmd.kind = "Idle" /\ w.ses.cmd.idle = "WaitResponse" => Held(v.ses, v.rd)
        /\ ~(w.ses.cmd.kind = "Idle" /\ w.ses.cmd.idle = "WaitResponse") => Left(v.ses, v.rd)
    BY <1>0, <1>1, CancelGives
  <2> HIDE DEF v
  <2>2. w.idle.state = "Idling" => w.ses.cmd.kind = "Idle" /\ w.ses.cmd.idle = "WaitResponse"
    BY <1>0, <1>1, IdleWaits DEF For
  <2>3. w.idle.state = "WaitingForServerEvent" => w.ses.cmd.kind = "Wait"
    BY <1>0, <1>1, IdleWaits DEF For
  <2>4. /\ Frame(v, w) /\ v.idle = w.idle /\ v.job = w.job /\ v.fault = "None" /\ v \in Good
        /\ \A o \in Objects : v.ao[o].active = w.ao[o].active
    BY <2>1, OnlyFrame
  <2>5. ~Pending(v, "Idle") /\ InInbox(v)
    BY <1>0, <2>1, CodeFacts, CodesAreStatuses DEF Pending, InInbox
  <2>6. Ceased(v, w)
    BY <1>0, <2>1, <2>2, <2>3, <2>4, <2>5, ObjectNames DEF Ceased, OnSession, Off, Still
  <2>. QED BY <2>6 DEF v
<1>2. CASE ~Waits(w, "Idle")
  <2>1. ~Pending(w, "Idle")
    <3>1. w.ao["Idle"].status = KErrNone => ~Pending(w, "Idle")
      BY CodeFacts, CodesAreStatuses DEF Pending
    <3>. QED BY <1>2, <3>1 DEF IdleUses, OnSession, For, Flushes, Told, Settled
  <2>2. /\ w.ao["Idle"].status = KErrNone =>
             IF w.idle.state \in {"WaitingForContinuation", "Idling"} THEN Held(w.ses, w.rd)
             ELSE Free(w.ses, w.rd)
        /\ w.ao["Idle"].status # KErrNone => Off(w.ses, w.rd)
    BY <2>1, IdleHears
  <2>3. Off(w.ses, w.rd) \/ Held(w.ses, w.rd)
    BY <2>2 DEF Off, Free
  <2>4. w.idle.state = "Idling" => Over(w.ses, w.rd) \/ Held(w.ses, w.rd)
    BY <2>1 DEF IdleUses, For, Waits, Told
  <2>5. w.idle.state = "WaitingForServerEvent" => Off(w.ses, w.rd)
    BY <2>2 DEF Off, Free
  <2>6. v \in Good /\ v.fault = "None" /\ Rest(v, w) /\ v.ses = w.ses /\ v.rd = w.rd /\ v.ao = w.ao
    BY <2>3, CancelSpares
  <2> HIDE DEF v
  <2>7. Ceased(v, w)
    BY <1>0, <2>1, <2>3, <2>4, <2>5, <2>6 DEF Ceased, OnSession, Frame, Rest, Still, Pending, InInbox
  <2>. QED BY <2>7 DEF v
<1>. QED BY <1>1, <1>2

LEMMA FolderCancelGives ==
  ASSUME NEW w \in Good, w.fault = "None", FolderUses(w)
  PROVE  LET v == Cancel(w, "Folder", FolderDoCancel(w))
         IN /\ v \in Good /\ v.fault = "None" /\ Off(v.ses, v.rd) /\ Rest(v, w)
            /\ v.ses.folder.box \in {w.ses.folder.box, NoBox}
            /\ ~v.ao["Folder"].active
            /\ \A p \in Objects : p # "Folder" => v.ao[p].active = w.ao[p].active
            /\ v.ao["Idle"].status = KErrCancel
            /\ \A p \in Objects : p # "Folder" /\ p # "Idle" => v.ao[p].status = w.ao[p].status
<1> DEFINE s == SessionCancel(w)
           f == FolderDoCancel(w)
           v == Cancel(w, "Folder", f)
<1>0. /\ w \in World /\ "Folder" \in Objects /\ "Idle" \in Objects /\ w.ao["Folder"].active
  BY ObjectNames DEF Good, FolderUses
<1>1. /\ s \in Good /\ s.fault = "None" /\ Rest(s, w) /\ Off(s.ses, s.rd)
      /\ s.ses.folder.box \in {w.ses.folder.box, NoBox}
      /\ Marked(s.ao, w.ao, "Folder", s.ao["Folder"].status)
      /\ s.ao["Folder"].status # KRequestPending
  <2>1. CASE For(w, "Folder", "Fetch")
    <3>1. Waits(w, "Folder") /\ ~(w.ses.cmd.kind = "Idle" /\ w.ses.cmd.idle = "WaitResponse")
      BY <2>1 DEF For
    <3>2. /\ Only(s, w, "Folder") /\ s.ao["Folder"].status = KErrCancel
          /\ s.ses.folder.box \in {w.ses.folder.box, NoBox} /\ Left(s.ses, s.rd)
      BY <1>0, <3>1, CancelGives
    <3> HIDE DEF s
    <3>. QED BY <3>2, CodesAreStatuses, CodeFacts DEF Only, Off
  <2>2. CASE Told(w, "Folder")
    <3>1. Off(w.ses, w.rd) /\ w.ao["Folder"].status # KRequestPending
      BY <2>2 DEF Told, Off, Pending
    <3>2. s \in Good /\ s.fault = "None" /\ Rest(s, w) /\ s.ses = w.ses /\ s.rd = w.rd /\ s.ao = w.ao
      BY <3>1, CancelSpares
    <3> HIDE DEF s
    <3>. QED BY <3>1, <3>2 DEF Marked
  <2>. QED BY <2>1, <2>2 DEF FolderUses
<1>2. f = Signal(s, "Idle", KErrCancel)
  BY DEF FolderDoCancel
<1> HIDE DEF s
<1>3. s \in World
  BY <1>1 DEF Good
<1>4. /\ f.ses = s.ses /\ f.rd = s.rd /\ f.fault = s.fault /\ Rest(f, s)
      /\ Marked(f.ao, s.ao, "Idle", KErrCancel) /\ f \in Good
  BY <1>0, <1>1, <1>2, <1>3, SignalGives, GoodIsClosed, SignalStays, CodesAreStatuses
<1> HIDE DEF f
<1>5. f.ao["Folder"].status # KRequestPending
  BY <1>0, <1>1, <1>4 DEF Marked
<1>6. /\ v \in Good /\ Sight(v, f) /\ Rest(v, f) /\ ~v.ao["Folder"].active
      /\ \A p \in Objects : p # "Folder" => v.ao[p].active = f.ao[p].active
  BY <1>0, <1>4, <1>5, CancelsGives
<1> HIDE DEF v
<1>7. /\ v \in Good /\ v.fault = "None" /\ Off(v.ses, v.rd) /\ Rest(v, w)
      /\ v.ses.folder.box \in {w.ses.folder.box, NoBox}
  BY <1>1, <1>4, <1>6 DEF Sight, Rest
<1>8. /\ ~v.ao["Folder"].active
      /\ \A p \in Objects : p # "Folder" => v.ao[p].active = w.ao[p].active
      /\ v.ao["Idle"].status = KErrCancel
      /\ \A p \in Objects : p # "Folder" /\ p # "Idle" => v.ao[p].status = w.ao[p].status
  BY <1>0, <1>1, <1>4, <1>6 DEF Sight, Marked
<1>. QED BY <1>7, <1>8 DEF v, f

LEMMA SynchronisingCeases ==
  ASSUME NEW w \in Good, w.fault = "None", IdleUses(w), w.idle.state = "Synchronising", ~w.idle.timer
  PROVE  Ceased(Cancel(w, "Folder", FolderDoCancel(w)), w)
<1> DEFINE v == Cancel(w, "Folder", FolderDoCancel(w))
<1>0. /\ "Idle" \in Objects /\ "Folder" \in Objects /\ InInbox(w) /\ w.ao["Idle"].active
      /\ Still(w, "Child")
  BY ObjectNames DEF IdleUses
<1>1. CASE FolderUses(w)
  <2>1. /\ v \in Good /\ v.fault = "None" /\ Off(v.ses, v.rd) /\ Rest(v, w)
        /\ v.ses.folder.box \in {w.ses.folder.box, NoBox}
        /\ ~v.ao["Folder"].active
        /\ \A p \in Objects : p # "Folder" => v.ao[p].active = w.ao[p].active
        /\ v.ao["Idle"].status = KErrCancel
        /\ \A p \in Objects : p # "Folder" /\ p # "Idle" => v.ao[p].status = w.ao[p].status
    BY <1>1, FolderCancelGives
  <2> HIDE DEF v
  <2>2. Frame(v, w) /\ v.idle = w.idle
    BY <2>1, ObjectNames DEF Frame, Rest
  <2>3. ~Pending(v, "Idle") /\ InInbox(v)
    BY <1>0, <2>1, CodeFacts, CodesAreStatuses DEF Pending, InInbox
  <2>4. Ceased(v, w)
    BY <1>0, <2>1, <2>2, <2>3, ObjectNames DEF Ceased, Still
  <2>. QED BY <2>4 DEF v
<1>2. CASE ~FolderUses(w)
  <2>1. Still(w, "Folder") /\ Told(w, "Idle")
    BY <1>2 DEF IdleUses
  <2>2. v = w
    BY <2>1 DEF Cancel, Active, Still
  <2> HIDE DEF v
  <2>3. Ceased(v, w)
    BY <1>0, <2>1, <2>2 DEF Ceased, Frame, Told, Off
  <2>. QED BY <2>3 DEF v
<1>. QED BY <1>1, <1>2

LEMMA FetchingCeases ==
  ASSUME NEW w \in Good, w.fault = "None", IdleUses(w), w.idle.state = "SyncFetching", ~w.idle.timer
  PROVE  Ceased([Cancel(w, "Child", JobDoCancel(w, "Child")) EXCEPT !.job["Child"] = NoJob], w)
<1> DEFINE c == Cancel(w, "Child", JobDoCancel(w, "Child"))
           v == [c EXCEPT !.job["Child"] = NoJob]
<1>0. /\ "Idle" \in Objects /\ "Child" \in Objects /\ InInbox(w) /\ w.ao["Idle"].active
      /\ Still(w, "Folder") /\ "Child" \in Compounds /\ "Op" \in Compounds
  BY ObjectNames DEF IdleUses, Compounds
<1>1. /\ c \in Good /\ c.fault = "None" /\ Off(c.ses, c.rd) /\ c.idle = w.idle /\ c.pc = w.pc
      /\ c.ses.folder.box \in {w.ses.folder.box, NoBox} /\ c.job["Op"] = w.job["Op"]
      /\ ~c.ao["Child"].active
      /\ \A p \in Objects : p # "Child" => c.ao[p].active = w.ao[p].active
      /\ c.ao["Idle"].status # KRequestPending
      /\ \A p \in Objects : p # "Child" /\ p # "Idle" => c.ao[p].status = w.ao[p].status
  <2>1. CASE JobUses(w, "Child")
    <3>1. /\ c \in Good /\ c.fault = "None" /\ Off(c.ses, c.rd)
          /\ c.ses.folder.box \in {w.ses.folder.box, NoBox}
          /\ c.idle = w.idle /\ c.pc = w.pc
          /\ \A p \in Compounds : p # "Child" => c.job[p] = w.job[p]
          /\ ~c.ao["Child"].active
          /\ \A p \in Objects : p # "Child" => c.ao[p].active = w.ao[p].active
          /\ c.ao[Starter("Child")].status = KErrCancel
          /\ \A p \in Objects : p # "Child" /\ p # Starter("Child") => c.ao[p].status = w.ao[p].status
      BY <1>0, <2>1, JobCancelGives
    <3>2. Starter("Child") = "Idle"
      BY DEF Starter
    <3> HIDE DEF c
    <3>. QED BY <1>0, <3>1, <3>2, CodeFacts, CodesAreStatuses
  <2>2. CASE ~JobUses(w, "Child")
    <3>1. Still(w, "Child") /\ JobTold(w, "Idle")
      BY <2>2 DEF IdleUses
    <3>2. c = w
      BY <3>1 DEF Cancel, Active, Still
    <3> HIDE DEF c
    <3>. QED BY <3>1, <3>2 DEF JobTold, Off, Pending, Still
  <2>. QED BY <2>1, <2>2
<1> HIDE DEF c
<1>2. /\ v \in Good /\ v.ses = c.ses /\ v.rd = c.rd /\ v.fault = c.fault /\ v.ao = c.ao
      /\ v.idle = c.idle /\ v.inbox = c.inbox /\ v.pc = c.pc /\ v.job["Child"] = NoJob
      /\ \A p \in Compounds : p # "Child" => v.job[p] = c.job[p]
  BY <1>0, <1>1, NoJobTyped, SetJobGives
<1> HIDE DEF v
<1>3. Frame(v, w)
  BY <1>0, <1>1, <1>2, ObjectNames DEF Frame
<1>4. Ceased(v, w)
  BY <1>0, <1>1, <1>2, <1>3, ObjectNames DEF Ceased, Still, Pending, InInbox
<1>. QED BY <1>4 DEF v, c

\* DoCancel of the idle controller, up to the test of iInternalCancel
LEMMA IdleCeases ==
  ASSUME NEW w \in Good, w.fault = "None", IdleUses(w)
  PROVE  Ceased(IdleInternalCancel(w), w)
<1> DEFINE x == [w EXCEPT !.idle.timer = FALSE]
<1>1. /\ x \in Good /\ IdleUses(x) /\ Frame(x, w) /\ Sight(x, w) /\ x.ao = w.ao
      /\ x.job = w.job /\ x.idle.state = w.idle.state /\ ~x.idle.timer
  BY TimerStopped
<1> DEFINE v == IdleInternalCancel(w)
<1>2. v = CASE w.idle.state \in OnSession -> SessionCancel(x)
            [] w.idle.state = "Synchronising" -> Cancel(x, "Folder", FolderDoCancel(x))
            [] w.idle.state = "SyncFetching" ->
                 [Cancel(x, "Child", JobDoCancel(x, "Child")) EXCEPT !.job["Child"] = NoJob]
            [] OTHER -> x
  BY DEF IdleInternalCancel
<1> HIDE DEF x, v
<1>3. x.fault = "None"
  BY <1>1 DEF Sight
<1>4. Ceased(v, x)
  <2>1. CASE w.idle.state \in OnSession
    <3>1. v = SessionCancel(x)
      BY <1>2, <2>1 DEF OnSession
    <3>. QED BY <1>1, <1>3, <2>1, <3>1, OnSessionCeases
  <2>2. CASE w.idle.state = "Synchronising"
    <3>1. v = Cancel(x, "Folder", FolderDoCancel(x))
      BY <1>2, <2>2 DEF OnSession
    <3>. QED BY <1>1, <1>3, <2>2, <3>1, SynchronisingCeases
  <2>3. CASE w.idle.state = "SyncFetching"
    <3>1. v = [Cancel(x, "Child", JobDoCancel(x, "Child")) EXCEPT !.job["Child"] = NoJob]
      BY <1>2, <2>3 DEF OnSession
    <3>. QED BY <1>1, <1>3, <2>3, <3>1, FetchingCeases
  <2>4. CASE w.idle.state \notin OnSession \cup {"Synchronising", "SyncFetching"}
    <3>1. v = x
      BY <1>2, <2>4
    <3>2. x.idle.state = "StartingIdle"
      BY <1>1, <2>4 DEF IdleUses, OnSession
    <3>3. x.ao["Idle"].status = KErrNone /\ Free(x.ses, x.rd) /\ x.ao["Idle"].active
          /\ Still(x, "Folder") /\ Still(x, "Child")
      BY <1>1, <3>2 DEF IdleUses
    <3>4. ~Pending(x, "Idle")
      BY <3>3, CodeFacts, CodesAreStatuses DEF Pending
    <3>. QED BY <1>1, <1>3, <3>1, <3>2, <3>3, <3>4 DEF Ceased, Frame, Free, Off
  <2>. QED BY <2>1, <2>2, <2>3, <2>4
<1>5. Ceased(v, w)
  BY <1>1, <1>4, FrameAfter DEF Ceased
<1>. QED BY <1>5 DEF v

\* InternalCancelAndSetState: nothing of the controller is active.
Aside(v, w, next) ==
  /\ v \in Good /\ v.fault = "None" /\ Frame(v, w) /\ ~v.idle.timer /\ v.idle.state = next
  /\ Still(v, "Idle") /\ Still(v, "Folder") /\ Still(v, "Child") /\ InInbox(v)

LEMMA SetAsideGives ==
  ASSUME NEW w \in Good, w.fault = "None", IdleUses(w), NEW next \in IdleStates,
         w.idle.state \notin {"Synchronising", "StartingIdle"}
  PROVE  LET v == InternalCancelAndSetState(w, next)
         IN /\ Aside(v, w, next)
            /\ w.idle.state = "Idling" => Over(v.ses, v.rd) \/ Held(v.ses, v.rd)
            /\ w.idle.state \in {"WaitingForServerEvent", "SyncFetching"} => Off(v.ses, v.rd)
            /\ SameKind(v, w)
<1> DEFINE i == IdleInternalCancel(w)
           c == Cancel(w, "Idle", i)
           v == [c EXCEPT !.idle.state = next]
<1>0. /\ w.idle.state # "Finished" /\ w.ao["Idle"].active /\ "Idle" \in Objects
  BY ObjectNames DEF IdleUses
<1>1. Expect(w, w.idle.state \notin {"Synchronising", "StartingIdle", "Finished"},
             "InternalCancelOnBadState") = w
  BY <1>0 DEF Expect
<1>2. InternalCancelAndSetState(w, next) = v
  BY <1>1 DEF InternalCancelAndSetState
<1>3. Ceased(i, w) /\ SameKind(i, w)
  BY IdleCeases, IdleCancelAlike DEF Good
<1> HIDE DEF i
<1>4. i \in Good /\ i.ao["Idle"].status # KRequestPending
  BY <1>3 DEF Ceased, Pending
<1>5. /\ c \in Good /\ Sight(c, i) /\ Rest(c, i) /\ ~c.ao["Idle"].active
      /\ \A p \in Objects : p # "Idle" => c.ao[p].active = i.ao[p].active
  BY <1>0, <1>4, CancelsGives
<1> HIDE DEF c
<1>6. Frame(c, i) /\ Still(c, "Folder") /\ Still(c, "Child") /\ Still(c, "Idle") /\ InInbox(c)
      /\ ~c.idle.timer /\ c.fault = "None"
  <2>1. Frame(c, i)
    BY <1>5, ObjectNames DEF Frame, Sight, Rest
  <2>. QED BY <1>3, <1>5, <2>1, ObjectNames DEF Ceased, Sight, Rest, Still, InInbox
<1>7. /\ v \in Good /\ Sight(v, c) /\ Frame(v, c) /\ v.ao = c.ao /\ v.job = c.job
      /\ v.idle.state = next /\ v.idle.timer = c.idle.timer
  BY <1>5, SetStateGives
<1> HIDE DEF v
<1>8. Frame(v, w)
  BY <1>3, <1>6, <1>7, FrameAfter DEF Ceased
<1>9. v.ses = i.ses /\ v.rd = i.rd /\ v.fault = "None"
  BY <1>5, <1>6, <1>7 DEF Sight
<1>10. Aside(v, w, next)
  BY <1>6, <1>7, <1>8, <1>9 DEF Aside, Still, InInbox, Sight
<1>11. /\ w.idle.state = "Idling" => Over(v.ses, v.rd) \/ Held(v.ses, v.rd)
       /\ w.idle.state \in {"WaitingForServerEvent", "SyncFetching"} => Off(v.ses, v.rd)
  BY <1>3, <1>9 DEF Ceased
<1>12. SameKind(v, w)
  BY <1>3, <1>9 DEF SameKind
<1>. QED BY <1>2, <1>10, <1>11, <1>12

\* The same while the controller itself runs
LEMMA SetAsideRunning ==
  ASSUME NEW w, Turn(w), Still(w, "Idle"), w.idle.state = "WaitingForContinuation",
         NEW next \in IdleStates
  PROVE  LET v == InternalCancelAndSetState(w, next)
         IN Aside(v, w, next) /\ Held(v.ses, v.rd) /\ SameKind(v, w)
<1> DEFINE v == [w EXCEPT !.idle.state = next]
<1>0. /\ w \in Good /\ w.fault = "None" /\ Still(w, "Folder") /\ Still(w, "Child") /\ InInbox(w)
      /\ ~w.idle.timer /\ Held(w.ses, w.rd)
  BY DEF Turn
<1>1. Expect(w, w.idle.state \notin {"Synchronising", "StartingIdle", "Finished"},
             "InternalCancelOnBadState") = w
  BY DEF Expect
<1>2. Cancel(w, "Idle", IdleInternalCancel(w)) = w
  BY DEF Cancel, Active, Still
<1>3. InternalCancelAndSetState(w, next) = v
  BY <1>1, <1>2 DEF InternalCancelAndSetState
<1>4. /\ v \in Good /\ Sight(v, w) /\ Frame(v, w) /\ v.ao = w.ao /\ v.job = w.job
      /\ v.idle.state = next /\ v.idle.timer = w.idle.timer
  BY <1>0, SetStateGives
<1> HIDE DEF v
<1>5. Aside(v, w, next) /\ Held(v.ses, v.rd) /\ SameKind(v, w)
  BY <1>0, <1>4 DEF Aside, Still, InInbox, Sight, SameKind
<1>. QED BY <1>3, <1>5

LEMMA DoneFollows ==
  ASSUME NEW w, NEW x, Aside(x, w, "WaitingForDone"), Over(x.ses, x.rd) \/ Held(x.ses, x.rd)
  PROVE  LET v == SetActive(DoneIdle(x, "Idle"), "Idle")
         IN \/ v.fault = "OperationPendingNotIdle"
            \/ /\ Enters(v, w) /\ v.idle.state = "WaitingForDone"
               /\ Using(v.ses) <=> Using(x.ses)
<1> DEFINE u == DoneIdle(x, "Idle")
           v == SetActive(u, "Idle")
<1>0. x \in Good /\ x.fault = "None" /\ "Idle" \in Objects /\ Frame(x, w) /\ x \in World
  BY ObjectNames DEF Aside, Good
<1>1. CASE Over(x.ses, x.rd)
  <2>1. u.fault = "OperationPendingNotIdle"
    BY <1>0, <1>1, DoneRefused
  <2>2. u \in World
    BY <1>0, WorldClosed, RequestsStay
  <2> HIDE DEF u
  <2>3. Sight(v, u)
    BY <1>0, <2>2, SetActiveGives
  <2> HIDE DEF v
  <2>4. v.fault = "OperationPendingNotIdle"
    BY <2>1, <2>3 DEF Sight
  <2>. QED BY <2>4 DEF v, u
<1>2. CASE Held(x.ses, x.rd)
  <2>1. /\ Only(u, x, "Idle") /\ u.ses.folder = x.ses.folder
        /\ For(u, "Idle", "Idle") /\ u.ses.cmd.idle = "WaitDone"
        /\ u \in World
    BY <1>0, <1>2, DoneGives DEF Only, Good
  <2> HIDE DEF u
  <2>2. /\ Still(x, "Folder") /\ Still(x, "Child") /\ ~x.idle.timer /\ InInbox(u)
        /\ x.idle.state = "WaitingForDone"
    BY <2>1 DEF Aside, InInbox
  <2>3. Enters(v, x) /\ v.idle = x.idle
    BY <2>1, <2>2, ActivatedUses
  <2>5. v.ses = u.ses
    BY <1>0, <2>1, SetActiveGives DEF Sight
  <2>6. Using(u.ses) /\ Using(x.ses)
    BY <1>2, <2>1 DEF For, Held, Using
  <2> HIDE DEF v
  <2>4. Enters(v, w) /\ v.idle.state = "WaitingForDone"
    BY <1>0, <2>2, <2>3, FrameAfter DEF Enters
  <2>. QED BY <2>4, <2>5, <2>6 DEF v, u
<1>. QED BY <1>1, <1>2

LEMMA FlushFollows ==
  ASSUME NEW w, NEW x, Aside(x, w, "WaitingForFlush"), Off(x.ses, x.rd)
  PROVE  LET v == SetActive(FlushCancelledCommand(x, "Idle"), "Idle")
         IN /\ Enters(v, w) /\ v.idle.state = "WaitingForFlush"
            /\ Using(v.ses) <=> Using(x.ses)
<1> DEFINE u == FlushCancelledCommand(x, "Idle")
           v == SetActive(u, "Idle")
<1>0. x \in Good /\ x.fault = "None" /\ "Idle" \in Objects /\ Frame(x, w) /\ x \in World
  BY ObjectNames DEF Aside, Good
<1>1. /\ Only(u, x, "Idle") /\ u.ses.folder = x.ses.folder
      /\ Flushes(u, "Idle") \/ Settled(u, "Idle")
      /\ u \in World /\ (Using(u.ses) <=> Using(x.ses))
  BY <1>0, FlushGives DEF Only, Good
<1> HIDE DEF u
<1>2. /\ Still(x, "Folder") /\ Still(x, "Child") /\ ~x.idle.timer /\ InInbox(u)
      /\ x.idle.state = "WaitingForFlush"
  BY <1>1 DEF Aside, InInbox
<1>3. Enters(v, x) /\ v.idle = x.idle
  BY <1>1, <1>2, ActivatedUses
<1>5. v.ses = u.ses
  BY <1>0, <1>1, SetActiveGives DEF Sight
<1> HIDE DEF v
<1>4. Enters(v, w) /\ v.idle.state = "WaitingForFlush"
  BY <1>0, <1>2, <1>3, FrameAfter DEF Enters
<1>. QED BY <1>1, <1>4, <1>5 DEF v, u

LEMMA CancelThenGives ==
  ASSUME NEW w \in Good, w.fault = "None", IdleUses(w)
  PROVE  /\ w.idle.state = "Idling" =>
              LET v == CancelThenDone(w)
              IN \/ v.fault = "OperationPendingNotIdle"
                 \/ /\ Enters(v, w) /\ v.idle.state = "WaitingForDone"
                    /\ Using(v.ses) <=> Using(w.ses)
         /\ w.idle.state \in {"WaitingForServerEvent", "SyncFetching"} =>
              LET v == CancelThenFlush(w)
              IN /\ Enters(v, w) /\ v.idle.state = "WaitingForFlush"
                 /\ Using(v.ses) <=> Using(w.ses)
<1>1. {"WaitingForDone", "WaitingForFlush"} \subseteq IdleStates
  BY DEF IdleStates
<1>2. CASE w.idle.state = "Idling"
  <2> DEFINE x == InternalCancelAndSetState(w, "WaitingForDone")
  <2>1. Aside(x, w, "WaitingForDone") /\ (Over(x.ses, x.rd) \/ Held(x.ses, x.rd))
       /\ (Using(x.ses) <=> Using(w.ses))
    BY <1>1, <1>2, SetAsideGives DEF SameKind, Using
  <2> HIDE DEF x
  <2>2. LET v == SetActive(DoneIdle(x, "Idle"), "Idle")
        IN \/ v.fault = "OperationPendingNotIdle"
           \/ /\ Enters(v, w) /\ v.idle.state = "WaitingForDone"
              /\ Using(v.ses) <=> Using(x.ses)
    BY <2>1, DoneFollows
  <2>. QED BY <1>2, <2>1, <2>2 DEF CancelThenDone, x
<1>3. CASE w.idle.state \in {"WaitingForServerEvent", "SyncFetching"}
  <2> DEFINE x == InternalCancelAndSetState(w, "WaitingForFlush")
  <2>1. Aside(x, w, "WaitingForFlush") /\ Off(x.ses, x.rd) /\ (Using(x.ses) <=> Using(w.ses))
    BY <1>1, <1>3, SetAsideGives DEF SameKind, Using
  <2> HIDE DEF x
  <2>2. LET v == SetActive(FlushCancelledCommand(x, "Idle"), "Idle")
        IN /\ Enters(v, w) /\ v.idle.state = "WaitingForFlush"
           /\ Using(v.ses) <=> Using(x.ses)
    BY <2>1, FlushFollows
  <2>. QED BY <1>3, <2>1, <2>2 DEF CancelThenFlush, x
<1>. QED BY <1>2, <1>3

-----------------------------------------------------------------------------
(* The users: requests of the client                                       *)

\* Nothing that the idle controller knows of has changed.
LEMMA IdleUsesAlike ==
  ASSUME NEW v, NEW w, v.ses = w.ses, v.rd = w.rd,
         v.idle.state = w.idle.state, v.idle.timer = w.idle.timer,
         \A o \in {"Idle", "Folder", "Child"} :
            v.ao[o].active = w.ao[o].active /\ v.ao[o].status = w.ao[o].status,
         v.job["Child"] = w.job["Child"]
  PROVE  IdleUses(v) <=> IdleUses(w)
<1>1. /\ \A o \in {"Idle", "Folder", "Child"} :
                /\ Pending(v, o) <=> Pending(w, o)
                /\ Waits(v, o) <=> Waits(w, o)
                /\ \A k : For(v, o, k) <=> For(w, o, k)
                /\ Flushes(v, o) <=> Flushes(w, o)
                /\ Told(v, o) <=> Told(w, o)
                /\ JobTold(v, o) <=> JobTold(w, o)
                /\ Settled(v, o) <=> Settled(w, o)
                /\ Still(v, o) <=> Still(w, o)
      /\ InInbox(v) <=> InInbox(w)
  BY DEF Pending, Waits, For, Flushes, Told, JobTold, Settled, Still, InInbox
<1>2. /\ FolderUses(v) <=> FolderUses(w)
      /\ JobUses(v, "Child") <=> JobUses(w, "Child")
  BY <1>1 DEF FolderUses, JobUses
<1>. QED BY <1>1, <1>2 DEF IdleUses

LEMMA SetPcOpGives ==
  ASSUME NEW w \in Good, NEW x \in {"Idle", "StopIdle", "Op", "Recover"}
  PROVE  LET v == [w EXCEPT !.pc.op = x]
         IN /\ v \in Good /\ v.ses = w.ses /\ v.rd = w.rd /\ v.fault = w.fault /\ v.ao = w.ao
            /\ v.idle = w.idle /\ v.inbox = w.inbox /\ v.job = w.job
            /\ v.pc.op = x /\ v.pc.report = w.pc.report /\ v.pc.online = w.pc.online
            /\ v.pc.requested = w.pc.requested
<1> DEFINE v == [w EXCEPT !.pc.op = x]
<1>0. w \in World /\ w.pc \in Controllers
  BY WorldFields DEF Good
<1>1. v \in Good
  BY GoodIsClosed, SetPcOp
<1>2. /\ v.ses = w.ses /\ v.rd = w.rd /\ v.fault = w.fault /\ v.ao = w.ao
      /\ v.idle = w.idle /\ v.inbox = w.inbox /\ v.job = w.job /\ v.pc = [w.pc EXCEPT !.op = x]
  BY <1>0 DEF World
<1> HIDE DEF v
<1>3. v.pc.op = x /\ v.pc.report = w.pc.report /\ v.pc.online = w.pc.online
      /\ v.pc.requested = w.pc.requested
  BY <1>0, <1>2 DEF Controllers
<1>4. /\ v \in Good /\ v.ses = w.ses /\ v.rd = w.rd /\ v.fault = w.fault /\ v.ao = w.ao
      /\ v.idle = w.idle /\ v.inbox = w.inbox /\ v.job = w.job
      /\ v.pc.op = x /\ v.pc.report = w.pc.report /\ v.pc.online = w.pc.online
      /\ v.pc.requested = w.pc.requested
  BY <1>1, <1>2, <1>3
<1>. QED BY <1>4 DEF v

\* The requested operation starts: nobody else uses the connection.
LEMMA StartRequestedUses ==
  ASSUME NEW w \in Good, w.fault = "None", NobodyIdle(w), ~w.idle.report, Free(w.ses, w.rd),
         w.pc.report, w.job["Op"].op.box \in Boxes
  PROVE  LET v == StartRequested(w) IN /\ v.fault = "None" /\ Users(v) /\ v.ses = w.ses
                                   /\ v.pc.op = "Op" /\ v.pc.report /\ v.pc.online = w.pc.online
<1> DEFINE a == [w EXCEPT !.pc.op = "Op"]
           b == StartOperation(a, "Op")
           v == SetActive(b, "Pc")
<1>0. "Op" \in Compounds /\ "Child" \in Compounds /\ {"Pc", "Op", "Idle", "Folder", "Child"} \subseteq Objects
      /\ Starter("Op") = "Pc"
  BY ObjectNames DEF Compounds, Starter
<1>1. StartRequested(w) = v
  BY DEF StartRequested
<1>2. /\ a \in Good /\ a.ses = w.ses /\ a.rd = w.rd /\ a.fault = w.fault /\ a.ao = w.ao
      /\ a.idle = w.idle /\ a.job = w.job /\ a.pc.op = "Op" /\ a.pc.report = w.pc.report
      /\ a.pc.online = w.pc.online
  BY SetPcOpGives
<1> HIDE DEF a
<1>3. /\ b \in Good /\ b.ses = a.ses /\ b.rd = a.rd /\ b.fault = a.fault
      /\ b.idle = a.idle /\ b.pc = a.pc /\ b.job["Op"].op = a.job["Op"].op
      /\ b.job["Op"].step = "Start" /\ b.job["Op"].report
      /\ b.ao["Op"].active /\ b.ao["Op"].status = KErrNone
      /\ b.ao[Starter("Op")].status = KRequestPending
      /\ \A p \in Objects : p # "Op" => b.ao[p].active = a.ao[p].active
  BY <1>0, <1>2, StartOperationGives
<1> HIDE DEF b
<1>4. b \in World
  BY <1>3 DEF Good
<1>5. Sight(v, b) /\ Rest(v, b) /\ Activated(v, b, "Pc")
  BY <1>0, <1>4, SetActiveGives
<1> HIDE DEF v
<1>6. /\ v.ses = w.ses /\ v.rd = w.rd /\ v.fault = "None" /\ v.idle = w.idle
      /\ v.pc.op = "Op" /\ v.pc.report /\ v.job["Op"].op = w.job["Op"].op
      /\ v.job["Op"].step = "Start" /\ v.job["Op"].report
      /\ v.ao["Op"].active /\ v.ao["Op"].status = KErrNone
      /\ v.ao["Pc"].status = KRequestPending /\ v.ao["Pc"].active
      /\ \A p \in {"Idle", "Folder", "Child"} : v.ao[p].active = w.ao[p].active
  <2>1. /\ v.ses = w.ses /\ v.rd = w.rd /\ v.fault = "None" /\ v.idle = w.idle
        /\ v.pc.op = "Op" /\ v.pc.report /\ v.job["Op"].op = w.job["Op"].op
        /\ v.job["Op"].step = "Start" /\ v.job["Op"].report
    BY <1>2, <1>3, <1>5 DEF Sight, Rest
  <2>2. v.ao["Op"].status = KErrNone /\ v.ao["Pc"].status = KRequestPending
    BY <1>0, <1>3, <1>5 DEF Sight
  <2>3. /\ v.ao["Op"].active /\ v.ao["Pc"].active
        /\ \A p \in {"Idle", "Folder", "Child"} : v.ao[p].active = b.ao[p].active
    BY <1>0, <1>3, <1>5 DEF Activated
  <2>4. \A p \in {"Idle", "Folder", "Child"} : b.ao[p].active = w.ao[p].active
    BY <1>0, <1>2, <1>3
  <2>. QED BY <2>1, <2>2, <2>3, <2>4
<1>7. JobUses(v, "Op") /\ NobodyIdle(v) /\ Pending(v, "Pc")
  BY <1>6 DEF JobUses, NobodyIdle, Still, Pending
<1>8. Users(v)
  BY <1>6, <1>7 DEF Users
<1>9. v.pc.online = w.pc.online
  BY <1>2, <1>3, <1>5 DEF Rest
<1>. QED BY <1>1, <1>6, <1>8, <1>9

Stopping(w) == [w EXCEPT !.idle.stopping = TRUE, !.idle.report = TRUE]

LEMMA SetStoppingGives ==
  ASSUME NEW w \in Good
  PROVE  LET v == Stopping(w)
         IN /\ v \in Good /\ Sight(v, w) /\ v.ao = w.ao /\ v.job = w.job /\ v.pc = w.pc
            /\ v.idle.state = w.idle.state /\ v.idle.timer = w.idle.timer
            /\ v.idle.report /\ v.idle.stopping
<1> DEFINE u == [w EXCEPT !.idle.stopping = TRUE]
           v == Stopping(w)
<1>0. w \in World /\ w.idle \in IdleTypes
  BY WorldFields DEF Good
<1>1. u \in Good
  BY GoodIsClosed, SetStopping
<1>2. v = [u EXCEPT !.idle.report = TRUE]
  BY <1>0 DEF World, Stopping
<1>3. v \in Good
  <2> HIDE DEF u, v
  <2>. QED BY <1>1, <1>2, GoodIsClosed, SetIdleReport
<1>4. /\ v.ses = w.ses /\ v.rd = w.rd /\ v.fault = w.fault /\ v.ao = w.ao
      /\ v.job = w.job /\ v.pc = w.pc /\ v.idle = [w.idle EXCEPT !.stopping = TRUE, !.report = TRUE]
  BY <1>0 DEF World, Stopping
<1> HIDE DEF u, v
<1>5. /\ v.idle.state = w.idle.state /\ v.idle.timer = w.idle.timer
      /\ v.idle.report /\ v.idle.stopping
  BY <1>0, <1>4 DEF IdleTypes
<1>6. /\ v \in Good /\ Sight(v, w) /\ v.ao = w.ao /\ v.job = w.job /\ v.pc = w.pc
      /\ v.idle.state = w.idle.state /\ v.idle.timer = w.idle.timer
      /\ v.idle.report /\ v.idle.stopping
  BY <1>3, <1>4, <1>5 DEF Sight
<1>. QED BY <1>6 DEF v

\* StopIdle, while the controller is active: it will answer.
LEMMA StopIdleGives ==
  ASSUME NEW w \in Good, w.fault = "None", IdleUses(w), ~w.idle.report
  PROVE  LET v == StopIdle(w)
         IN \/ v.fault = "OperationPendingNotIdle"
            \/ /\ v.fault = "None" /\ IdleUses(v) /\ v.idle.report /\ v.idle.stopping
               /\ Pending(v, "Pc") /\ v.pc = w.pc /\ v.job["Op"] = w.job["Op"]
               /\ v.ao["Op"].active = w.ao["Op"].active
               /\ v.idle.state \notin {"Idling", "SyncFetching", "WaitingForServerEvent"}
               /\ Using(v.ses) <=> Using(w.ses)
<1> DEFINE a == Stopping(w)
           b == Signal(a, "Pc", KRequestPending)
           v == StopIdle(w)
<1>0. {"Pc", "Op", "Idle", "Folder", "Child"} \subseteq Objects /\ w.idle.state # "Finished"
  BY ObjectNames DEF IdleUses
<1>1. Expect(w, ~w.idle.report, "AlreadyInUse") = w
  BY DEF Expect
<1>2. v = CASE w.idle.state = "Finished" -> IdleComplete(b, KErrNone)
            [] w.idle.state = "Idling" -> CancelThenDone(b)
            [] w.idle.state \in {"WaitingForServerEvent", "SyncFetching"} -> CancelThenFlush(b)
            [] OTHER -> b
  BY <1>1 DEF StopIdle, Stopping
<1>3. /\ a \in Good /\ Sight(a, w) /\ a.ao = w.ao /\ a.job = w.job /\ a.pc = w.pc
      /\ a.idle.state = w.idle.state /\ a.idle.timer = w.idle.timer
      /\ a.idle.report /\ a.idle.stopping
  BY SetStoppingGives
<1> HIDE DEF a, v
<1>4. a \in World
  BY <1>3 DEF Good
<1>5. /\ b.ses = a.ses /\ b.rd = a.rd /\ b.fault = a.fault /\ Rest(b, a)
      /\ Marked(b.ao, a.ao, "Pc", KRequestPending) /\ b \in Good
  BY <1>0, <1>3, <1>4, SignalGives, GoodIsClosed, SignalStays, CodesAreStatuses
<1> HIDE DEF b
<1>6. /\ b.ses = w.ses /\ b.rd = w.rd /\ b.fault = "None" /\ b.job = w.job /\ b.pc = w.pc
      /\ b.idle.state = w.idle.state /\ b.idle.timer = w.idle.timer
      /\ b.idle.report /\ b.idle.stopping /\ b.ao["Pc"].status = KRequestPending
      /\ \A o \in Objects : b.ao[o].active = w.ao[o].active
      /\ \A o \in {"Idle", "Folder", "Child"} : b.ao[o].status = w.ao[o].status
  BY <1>0, <1>3, <1>5 DEF Sight, Rest, Marked
<1>7. IdleUses(b)
  BY <1>0, <1>6, IdleUsesAlike
<1>8. CASE w.idle.state = "Idling"
  <2>1. v = CancelThenDone(b)
    BY <1>2, <1>8
  <2>2. v.fault = "OperationPendingNotIdle" \/ (Enters(v, b) /\ v.idle.state = "WaitingForDone"
                                                /\ (Using(v.ses) <=> Using(b.ses)))
    BY <1>5, <1>6, <1>7, <1>8, <2>1, CancelThenGives
  <2>3. /\ v.fault = "None" /\ IdleUses(v) /\ v.idle.report /\ v.idle.stopping
        /\ Pending(v, "Pc") /\ v.pc = w.pc /\ v.job["Op"] = w.job["Op"]
        /\ v.ao["Op"].active = w.ao["Op"].active
        /\ v.idle.state \notin {"Idling", "SyncFetching", "WaitingForServerEvent"}
        /\ Using(v.ses) <=> Using(w.ses)
     \/ v.fault = "OperationPendingNotIdle"
    BY <1>0, <1>6, <2>2 DEF Enters, Frame, Pending
  <2>. QED BY <2>3 DEF v
<1>9. CASE w.idle.state \in {"WaitingForServerEvent", "SyncFetching"}
  <2>1. v = CancelThenFlush(b)
    BY <1>2, <1>9
  <2>2. Enters(v, b) /\ v.idle.state = "WaitingForFlush" /\ (Using(v.ses) <=> Using(b.ses))
    BY <1>5, <1>6, <1>7, <1>9, <2>1, CancelThenGives
  <2>3. /\ v.fault = "None" /\ IdleUses(v) /\ v.idle.report /\ v.idle.stopping
        /\ Pending(v, "Pc") /\ v.pc = w.pc /\ v.job["Op"] = w.job["Op"]
        /\ v.ao["Op"].active = w.ao["Op"].active
        /\ v.idle.state \notin {"Idling", "SyncFetching", "WaitingForServerEvent"}
        /\ Using(v.ses) <=> Using(w.ses)
    BY <1>0, <1>6, <2>2 DEF Enters, Frame, Pending
  <2>. QED BY <2>3 DEF v
<1>10. CASE w.idle.state \notin {"Idling", "WaitingForServerEvent", "SyncFetching"}
  <2>1. v = b
    BY <1>0, <1>2, <1>10
  <2>2. /\ v.fault = "None" /\ IdleUses(v) /\ v.idle.report /\ v.idle.stopping
        /\ Pending(v, "Pc") /\ v.pc = w.pc /\ v.job["Op"] = w.job["Op"]
        /\ v.ao["Op"].active = w.ao["Op"].active
        /\ v.idle.state \notin {"Idling", "SyncFetching", "WaitingForServerEvent"}
        /\ Using(v.ses) <=> Using(w.ses)
    BY <1>0, <1>6, <1>7, <1>10, <2>1 DEF Pending
  <2>. QED BY <2>2 DEF v
<1>. QED BY <1>8, <1>9, <1>10

\* The assertions that the find runs show to fail.
Weak == {"OperationPendingNotIdle", "UnexpectedStateAtStart"}
        \cup {name \in {"SessionCommandNotFlushing"} : MayCancel}
Kept(v) == v.fault \in Weak \/ (v.fault = "None" /\ (v.pc.online => Users(v)))

\* What a step of the protocol controller, or of one whom it lets use the connection, may do.
\* Each of these is a step of ImapPrimary, or none.
Unused(v, w)    == ~Using(v.ses) /\ ~Using(w.ses)
GivenUp(v)      == ~v.pc.online /\ ~v.pc.report /\ ~Using(v.ses)
Continues(v, w) == /\ v.pc.op = w.pc.op /\ (v.pc.report <=> w.pc.report)
                   /\ w.pc.op = "Recover" => (Using(v.ses) => Using(w.ses))
TakesOn(v, w)   == /\ ~w.pc.report /\ v.pc.report /\ (Using(v.ses) <=> Using(w.ses))
                   /\ \/ w.pc.op = "Idle" /\ v.pc.op = "StopIdle"
                      \/ w.pc.op = "Idle" /\ v.pc.op = "Op" /\ ~Using(w.ses)
                      \/ w.pc.op = "Op" /\ v.pc.op = "Op"
HandsOver(v, w) == /\ w.pc.report /\ v.pc.report /\ Unused(v, w)
                   /\ w.pc.op = "StopIdle" /\ v.pc.op = "Op"
Finishes(v, w)  == /\ w.pc.report /\ ~v.pc.report /\ Unused(v, w)
                   /\ w.pc.op = "Op" /\ v.pc.op \in {"Idle", "Op"}
Abandons(v, w)  == /\ w.pc.report /\ ~v.pc.report /\ (Using(v.ses) => Using(w.ses))
                   /\ v.pc.op = "Recover"
Recovers(v, w)  == /\ (v.pc.report <=> w.pc.report) /\ Unused(v, w)
                   /\ w.pc.op = "Recover" /\ v.pc.op = "Idle"
Moves(v, w)     == \/ GivenUp(v)
                   \/ /\ v.pc.online
                      /\ \/ Continues(v, w) \/ TakesOn(v, w) \/ HandsOver(v, w)
                         \/ Finishes(v, w) \/ Abandons(v, w) \/ Recovers(v, w)

\* It keeps the turns of the users, and moves the connection as it may.
Leads(v, w) == Kept(v) /\ (v.fault = "None" /\ w.pc.online => Moves(v, w))

\* Only the session and the state of the protocol controller count.
LEMMA LeadsFrom ==
  ASSUME NEW v, NEW w, NEW u, w.ses = u.ses, w.pc = u.pc, Leads(v, w)
  PROVE  Leads(v, u)
  BY DEF Leads, Moves, Unused, Continues, TakesOn, HandsOver, Finishes, Abandons, Recovers

\* Whoever runs, while the protocol controller does not.
LEMMA LeadsOn ==
  ASSUME NEW v, NEW w, Kept(v), v.pc = w.pc,
         w.pc.op = "Recover" => (Using(v.ses) => Using(w.ses))
  PROVE  Leads(v, w)
  BY DEF Leads, Moves, Continues

\* The request is noted, not yet served.
Requested(w, op) ==
  [w EXCEPT !.job["Op"] = [NoJob EXCEPT !.op = op], !.pc.requested = op, !.pc.report = TRUE,
            !.pc.answer = KErrNone]

LEMMA RequestedGives ==
  ASSUME NEW w \in Good, NEW op \in Ops
  PROVE  LET v == Requested(w, op)
         IN /\ v \in Good /\ v.ses = w.ses /\ v.rd = w.rd /\ v.fault = w.fault /\ v.ao = w.ao
            /\ v.idle = w.idle /\ v.job["Child"] = w.job["Child"]
            /\ v.job["Op"].op = op /\ v.job["Op"].step = "None"
            /\ v.pc.op = w.pc.op /\ v.pc.report /\ v.pc.online = w.pc.online
<1> DEFINE j == [NoJob EXCEPT !.op = op]
           u == [w EXCEPT !.job["Op"] = j]
           p == [u.pc EXCEPT !.requested = op, !.report = TRUE, !.answer = KErrNone]
           v == Requested(w, op)
<1>0. /\ w \in World /\ w.pc \in Controllers /\ "Op" \in Compounds /\ "Child" \in Compounds
  BY WorldFields DEF Good, Compounds
<1>1. j \in Job /\ j.op = op /\ j.step = "None"
  BY DEF NoJob, Job, Operations
<1>2. v = [w EXCEPT !.job["Op"] = j, !.pc.requested = op, !.pc.report = TRUE, !.pc.answer = KErrNone]
  BY DEF Requested
<1> HIDE DEF j
<1>3. /\ u \in Good /\ u.ses = w.ses /\ u.rd = w.rd /\ u.fault = w.fault /\ u.ao = w.ao
      /\ u.idle = w.idle /\ u.inbox = w.inbox /\ u.pc = w.pc /\ u.job["Op"] = j
      /\ \A q \in Compounds : q # "Op" => u.job[q] = w.job[q]
  BY <1>0, <1>1, SetJobGives
<1>4. v = [u EXCEPT !.pc = p]
  <2>1. u.pc = w.pc
    BY <1>3
  <2>. QED BY <1>0, <1>2, <2>1 DEF World, Controllers
<1> HIDE DEF u, v
<1>5. p \in Controllers /\ p.op = w.pc.op /\ p.report /\ p.online = w.pc.online
  <2>1. u.pc \in Controllers
    BY <1>0, <1>3
  <2>. QED BY <1>3, <2>1 DEF Controllers
<1> HIDE DEF p
<1>6. u \in World
  BY <1>3 DEF Good
<1>7. v \in Good
  BY <1>3, <1>4, <1>5, GoodIsClosed, SetPc
<1>8. v.ses = u.ses /\ v.rd = u.rd /\ v.fault = u.fault /\ v.ao = u.ao /\ v.idle = u.idle
      /\ v.job = u.job /\ v.pc = p
  BY <1>4, <1>6 DEF World
<1>9. /\ v \in Good /\ v.ses = w.ses /\ v.rd = w.rd /\ v.fault = w.fault /\ v.ao = w.ao
      /\ v.idle = w.idle /\ v.job["Child"] = w.job["Child"]
      /\ v.job["Op"].op = op /\ v.job["Op"].step = "None"
      /\ v.pc.op = w.pc.op /\ v.pc.report /\ v.pc.online = w.pc.online
  BY <1>0, <1>1, <1>3, <1>5, <1>7, <1>8
<1>. QED BY <1>9 DEF v

LEMMA RequestUses ==
  ASSUME NEW w \in Good, w.fault = "None", Users(w), ~w.pc.report, w.pc.op # "Recover", NEW op \in Ops
  PROVE  Leads(Request(w, op), w)
<1> DEFINE x == Requested(w, op)
           v == Request(w, op)
<1> SUFFICES Leads(v, w)
  OBVIOUS
<1>0. /\ w.job["Op"] = NoJob /\ Still(w, "Op") /\ ~w.idle.report /\ op.box \in Boxes
      /\ IdleUses(w) \/ (NobodyIdle(w) /\ Free(w.ses, w.rd))
      /\ w.pc.op = "Idle" \/ (w.pc.op = "Op" /\ NobodyIdle(w))
  BY IdleAssumption DEF Users
<1>1. {"Pc", "Op", "Idle", "Folder", "Child"} \subseteq Objects
  BY ObjectNames
<1>2. v = StartPrimaryOperation(x)
  <2>1. Expect(w, w.job["Op"] = NoJob, "CompoundIsNotNull") = w
    BY <1>0 DEF Expect
  <2>. QED BY <2>1 DEF Request, Requested
<1>3. /\ x \in Good /\ x.ses = w.ses /\ x.rd = w.rd /\ x.fault = w.fault /\ x.ao = w.ao
      /\ x.idle = w.idle /\ x.job["Child"] = w.job["Child"]
      /\ x.job["Op"].op = op /\ x.job["Op"].step = "None"
      /\ x.pc.op = w.pc.op /\ x.pc.report /\ x.pc.online = w.pc.online
  BY RequestedGives
<1> HIDE DEF x, v
<1>4. CASE IdleUses(w)
  <2> DEFINE y == [x EXCEPT !.pc.op = "StopIdle"]
             s == StopIdle(y)
             a == SetActive(s, "Pc")
  <2>1. v = a
    <3>1. Active(x, "Idle")
      BY <1>3, <1>4 DEF IdleUses, Active
    <3>. QED BY <1>2, <3>1 DEF StartPrimaryOperation
  <2>2. /\ y \in Good /\ y.ses = x.ses /\ y.rd = x.rd /\ y.fault = x.fault /\ y.ao = x.ao
        /\ y.idle = x.idle /\ y.job = x.job /\ y.pc.op = "StopIdle" /\ y.pc.report = x.pc.report
        /\ y.pc.online = x.pc.online
    BY <1>3, SetPcOpGives
  <2> HIDE DEF y
  <2>3. IdleUses(y)
    BY <1>3, <1>4, <2>2, IdleUsesAlike
  <2>4. \/ s.fault = "OperationPendingNotIdle"
        \/ /\ s.fault = "None" /\ IdleUses(s) /\ s.idle.report /\ s.idle.stopping
           /\ Pending(s, "Pc") /\ s.pc = y.pc /\ s.job["Op"] = y.job["Op"]
           /\ s.ao["Op"].active = y.ao["Op"].active
           /\ s.idle.state \notin {"Idling", "SyncFetching", "WaitingForServerEvent"}
           /\ Using(s.ses) <=> Using(y.ses)
    BY <1>0, <1>3, <2>2, <2>3, StopIdleGives
  <2>5. s \in World
    BY <2>2, GoodIsClosed, StopIdleStays DEF Good
  <2> HIDE DEF s
  <2>6. Sight(a, s) /\ Rest(a, s) /\ Activated(a, s, "Pc")
    BY <1>1, <2>5, SetActiveGives
  <2> HIDE DEF a
  <2>7. CASE s.fault = "OperationPendingNotIdle"
    BY <2>1, <2>6, <2>7 DEF Leads, Kept, Weak, Sight
  <2>8. CASE s.fault # "OperationPendingNotIdle"
    <3>1. IdleUses(a)
      <4>1. /\ a.ses = s.ses /\ a.rd = s.rd /\ a.idle = s.idle /\ a.job = s.job
            /\ \A o \in {"Idle", "Folder", "Child"} :
                 a.ao[o].active = s.ao[o].active /\ a.ao[o].status = s.ao[o].status
        BY <1>1, <2>6 DEF Sight, Rest, Activated
      <4>. QED BY <2>4, <2>8, <4>1, IdleUsesAlike
    <3>2. /\ a.pc.op = "StopIdle" /\ a.pc.report /\ a.ao["Pc"].active /\ Still(a, "Op")
          /\ a.job["Op"].step = "None" /\ a.job["Op"].op.box \in Boxes
          /\ a.idle.report /\ a.idle.stopping /\ Pending(a, "Pc")
          /\ a.idle.state \notin {"Idling", "SyncFetching", "WaitingForServerEvent"}
          /\ a.fault = "None"
      <4>1. a.pc = s.pc /\ a.job = s.job /\ a.idle = s.idle /\ a.fault = s.fault
        BY <2>6 DEF Sight, Rest
      <4>2. a.ao["Pc"].active /\ a.ao["Op"].active = s.ao["Op"].active
            /\ a.ao["Pc"].status = s.ao["Pc"].status
        BY <1>1, <2>6 DEF Sight, Activated
      <4>3. ~w.ao["Op"].active /\ y.ao = w.ao
        BY <1>0, <1>3, <2>2 DEF Still
      <4>4. ~a.ao["Op"].active
        BY <2>4, <2>8, <4>2, <4>3
      <4>5. a.pc.op = "StopIdle" /\ a.pc.report
        BY <1>3, <2>2, <2>4, <2>8, <4>1
      <4>6. a.job["Op"] = x.job["Op"]
        BY <2>2, <2>4, <2>8, <4>1
      <4>7. a.job["Op"].step = "None" /\ a.job["Op"].op.box \in Boxes
        BY <1>0, <1>3, <4>6
      <4>8. /\ a.idle.report /\ a.idle.stopping /\ a.fault = "None"
            /\ a.idle.state \notin {"Idling", "SyncFetching", "WaitingForServerEvent"}
        BY <2>4, <2>8, <4>1
      <4>9. Pending(a, "Pc")
        BY <2>4, <2>8, <4>2 DEF Pending
      <4>. QED BY <4>2, <4>4, <4>5, <4>7, <4>8, <4>9 DEF Still
    <3>3. Kept(a)
      BY <3>1, <3>2 DEF Users, Kept
    <3>4. w.pc.op = "Idle"
      BY <1>0, <1>4 DEF IdleUses, NobodyIdle, Still
    <3>5. a.ses = s.ses /\ a.pc = s.pc
      BY <2>6 DEF Sight, Rest
    <3>6. (Using(a.ses) <=> Using(w.ses)) /\ a.pc.online = w.pc.online
      BY <1>3, <2>2, <2>4, <2>8, <3>5
    <3>7. TakesOn(a, w)
      BY <3>2, <3>4, <3>6 DEF TakesOn
    <3>. QED BY <2>1, <3>3, <3>6, <3>7 DEF Leads, Moves
  <2>. QED BY <2>7, <2>8
<1>5. CASE ~IdleUses(w)
  <2>1. NobodyIdle(w) /\ Free(w.ses, w.rd)
    BY <1>0, <1>5
  <2>2. NobodyIdle(x) /\ Free(x.ses, x.rd) /\ ~x.idle.report
    BY <1>0, <1>3, <2>1 DEF NobodyIdle, Still
  <2>3. v = StartRequested(x)
    BY <1>2, <2>2 DEF StartPrimaryOperation, Active, NobodyIdle, Still
  <2>4. /\ v.fault = "None" /\ Users(v) /\ v.ses = x.ses
        /\ v.pc.op = "Op" /\ v.pc.report /\ v.pc.online = x.pc.online
    BY <1>0, <1>3, <2>2, <2>3, StartRequestedUses
  <2>5. ~Using(w.ses)
    BY <2>1, OverUnused DEF Free
  <2>6. TakesOn(v, w) /\ v.pc.online = w.pc.online
    BY <1>0, <1>3, <2>4, <2>5 DEF TakesOn
  <2>. QED BY <2>4, <2>6 DEF Leads, Moves, Kept
<1>. QED BY <1>4, <1>5


LEMMA DisconnectGives ==
  ASSUME NEW w \in Good,
         ~w.ao["Idle"].active \/ (w.idle.state = "StartingIdle" /\ ~Pending(w, "Idle"))
  PROVE  /\ DisconnectAll(w).fault = w.fault /\ ~DisconnectAll(w).pc.online
         /\ DisconnectAll(w).pc.report = w.pc.report /\ ~Using(DisconnectAll(w).ses)
<1> DEFINE d == IdleDoCancel(w)
           v == Cancel(w, "Idle", d)
<1>0. "Idle" \in Objects /\ "Pc" \in Objects /\ w \in World /\ KErrCancel \in Statuses
      /\ "Finished" \in IdleStates
  BY ObjectNames, CodesAreStatuses DEF Good, IdleStates
<1>1. v \in World /\ v.fault = w.fault /\ v.pc = w.pc
  <2>1. CASE ~w.ao["Idle"].active
    <3>1. v = w
      BY <2>1 DEF Cancel, Active
    <3>. QED BY <1>0, <3>1
  <2>2. CASE w.idle.state = "StartingIdle" /\ ~Pending(w, "Idle") /\ w.ao["Idle"].active
    <3> DEFINE t == [w EXCEPT !.idle.timer = FALSE]
               c == IdleComplete(t, KErrCancel)
    <3>1. t \in Good /\ Sight(t, w) /\ t.pc = w.pc
      BY SetTimerGives DEF Frame, World, Good
    <3>2. IdleInternalCancel(w) = t
      BY <2>2 DEF IdleInternalCancel, OnSession
    <3>3. d = [c EXCEPT !.idle.state = "Finished"]
      BY <3>2 DEF IdleDoCancel
    <3> HIDE DEF t, d
    <3>4. /\ c \in Good /\ c.fault = t.fault /\ c.pc = t.pc
          /\ \A o \in Objects : o # "Pc" => c.ao[o].status = t.ao[o].status
      BY <1>0, <3>1, IdleCompleteGives
    <3> HIDE DEF c
    <3>5. d \in Good /\ Sight(d, c) /\ d.pc = c.pc
      BY <1>0, <3>3, <3>4, SetStateGives DEF Frame
    <3>6. d.fault = w.fault /\ d.ao["Idle"].status # KRequestPending
      BY <1>0, <2>2, <3>1, <3>4, <3>5 DEF Sight, Pending
    <3>7. v \in Good /\ Sight(v, d) /\ v.pc = d.pc
      BY <1>0, <2>2, <3>5, <3>6, CancelsGives DEF Rest
    <3>. QED BY <3>1, <3>4, <3>5, <3>6, <3>7 DEF Sight, Good
  <2>. QED BY <2>1, <2>2
<1> HIDE DEF v, d
<1> DEFINE p == [v.pc EXCEPT !.online = FALSE]
           s == [NewSession EXCEPT !.open = FALSE]
           r == [NewReader EXCEPT !.state = "Closed"]
           n == [NewNet EXCEPT !.up = FALSE, !.exists = w.net.exists]
           i == [v.idle EXCEPT !.state = "Finished", !.timer = FALSE]
           j == [o \in {"Child", "Op"} |-> NoJob]
           a == [o \in Objects |-> IF o = "Pc" THEN v.ao[o]
                   ELSE [active |-> FALSE, status |-> KErrNone]]
<1>2. DisconnectAll(w) = [v EXCEPT !.pc = p, !.ses = s, !.rd = r, !.net = n, !.idle = i,
                                   !.job = j, !.ao = a]
  BY DEF DisconnectAll, v, d
<1>3. ~p.online /\ p.report = w.pc.report
  BY <1>1, WorldFields DEF Controllers
<1>4. ~Using(s)
  BY FreeCommand DEF Using, NewSession
<1> HIDE DEF p, s, r, n, i, j, a
<1>. QED BY <1>1, <1>2, <1>3, <1>4 DEF World

-----------------------------------------------------------------------------
(* The users: one RunL                                                     *)

\* The idle controller runs.
LEMMA TurnsGives ==
  ASSUME NEW u \in Good, u.fault = "None", IdleUses(u), ~Pending(u, "Idle")
  PROVE  LET w == [u EXCEPT !.ao["Idle"].active = FALSE]
         IN /\ w \in Good /\ w.fault = "None" /\ Sight(w, u) /\ Rest(w, u) /\ Still(w, "Idle")
            /\ Still(w, "Folder") /\ Still(w, "Child") /\ Frame(w, u)
            /\ w.ao["Idle"].status = KErrNone => Turn(w)
            /\ w.idle.timer => w.idle.state = "Idling"
            /\ w.ao["Idle"].status # KErrNone => 
                 /\ Off(w.ses, w.rd) /\ w.ao["Idle"].status # KRequestPending
                 /\ w.idle.state # "SyncFetching" =>
                      (~Fatal(w.ao["Idle"].status) => Free(w.ses, w.rd))
<1> DEFINE w == [u EXCEPT !.ao["Idle"].active = FALSE]
<1>0. {"Pc", "Op", "Idle", "Folder", "Child"} \subseteq Objects
  BY ObjectNames
<1>1. /\ w \in Good /\ Sight(w, u) /\ Rest(w, u) /\ ~w.ao["Idle"].active
      /\ \A p \in Objects : p # "Idle" => w.ao[p].active = u.ao[p].active
  BY <1>0, RunsGives
<1> HIDE DEF w
<1>2. /\ w.ses = u.ses /\ w.rd = u.rd /\ w.idle = u.idle /\ w.pc = u.pc /\ w.job = u.job
      /\ w.fault = "None" /\ w.ao["Idle"].status = u.ao["Idle"].status
      /\ w.ao["Pc"].status = u.ao["Pc"].status
  BY <1>0, <1>1 DEF Sight, Rest
<1>3. Still(w, "Idle") /\ (Still(w, "Folder") <=> Still(u, "Folder"))
      /\ (Still(w, "Child") <=> Still(u, "Child"))
  BY <1>0, <1>1 DEF Still
<1>4. Frame(w, u)
  <2>1. w.ao["Pc"].active = u.ao["Pc"].active /\ w.ao["Op"].active = u.ao["Op"].active
    BY <1>0, <1>1
  <2>. QED BY <1>2, <2>1 DEF Frame
<1>5. Still(w, "Folder") /\ Still(w, "Child") /\ w.idle.state # "Finished"
      /\ (w.idle.state # "StartingIdle" => InInbox(w)) /\ (w.idle.timer => w.idle.state = "Idling")
  BY <1>2, <1>3, IdleHears DEF InInbox
<1>6. w.ao["Idle"].status = KErrNone => Turn(w)
  <2>1. w.ao["Idle"].status = KErrNone =>
          IF w.idle.state \in {"WaitingForContinuation", "Idling"} THEN Held(w.ses, w.rd)
          ELSE Free(w.ses, w.rd)
    BY <1>2, IdleHears
  <2>. QED BY <1>1, <1>2, <1>5, <2>1 DEF Turn
<1>7. w.ao["Idle"].status # KErrNone => 
        /\ Off(w.ses, w.rd) /\ w.ao["Idle"].status # KRequestPending
        /\ w.idle.state # "SyncFetching" => (~Fatal(w.ao["Idle"].status) => Free(w.ses, w.rd))
  BY <1>2, IdleHears DEF Pending
<1>8. /\ w \in Good /\ w.fault = "None" /\ Sight(w, u) /\ Rest(w, u) /\ Still(w, "Idle")
      /\ Still(w, "Folder") /\ Still(w, "Child") /\ Frame(w, u)
      /\ w.ao["Idle"].status = KErrNone => Turn(w)
      /\ w.idle.timer => w.idle.state = "Idling"
      /\ w.ao["Idle"].status # KErrNone => 
           /\ Off(w.ses, w.rd) /\ w.ao["Idle"].status # KRequestPending
           /\ w.idle.state # "SyncFetching" => (~Fatal(w.ao["Idle"].status) => Free(w.ses, w.rd))
  BY <1>1, <1>2, <1>3, <1>4, <1>5, <1>6, <1>7
<1>. QED BY <1>8 DEF w

\* While the controller watches the mailbox itself.
Watched(w) ==
  /\ w.pc.op = "Idle" /\ ~w.pc.report /\ Still(w, "Pc")
  /\ Still(w, "Op") /\ w.job["Op"] = NoJob /\ ~w.idle.report /\ ~w.idle.stopping

\* While it waits for the idle controller to stop.
Stopped(w) ==
  /\ w.pc.op = "StopIdle" /\ w.pc.report /\ w.ao["Pc"].active
  /\ Still(w, "Op") /\ w.job["Op"].step = "None" /\ w.job["Op"].op.box \in Boxes

LEMMA WatchedUses ==
  ASSUME NEW w, Watched(w), IdleUses(w) \/ (NobodyIdle(w) /\ Free(w.ses, w.rd))
  PROVE  Users(w)
  BY DEF Users, Watched

LEMMA StoppedUses ==
  ASSUME NEW w, Stopped(w),
         \/ /\ w.idle.report /\ w.idle.stopping /\ Pending(w, "Pc") /\ IdleUses(w)
            /\ w.idle.state \notin {"Idling", "SyncFetching", "WaitingForServerEvent"}
         \/ ~w.idle.report /\ NobodyIdle(w) /\ Settled(w, "Pc")
  PROVE  Users(w)
  BY DEF Users, Stopped

LEMMA FrameKeeps ==
  ASSUME NEW v, NEW w, Frame(v, w)
  PROVE  /\ Watched(w) => Watched(v)
         /\ Stopped(w) => Stopped(v)
         /\ Pending(w, "Pc") => Pending(v, "Pc")
  BY DEF Watched, Stopped, Frame, Still, Pending

\* Who uses the connection when the idle controller is active.
LEMMA IdleActive ==
  ASSUME NEW u, Users(u), u.ao["Idle"].active
  PROVE  /\ IdleUses(u)
         /\ \/ Watched(u)
            \/ /\ Stopped(u) /\ u.idle.report /\ u.idle.stopping /\ Pending(u, "Pc")
               /\ u.idle.state \notin {"Idling", "SyncFetching", "WaitingForServerEvent"}
  BY DEF Users, Watched, Stopped, NobodyIdle, Still

LEMMA WatchedSteps ==
  ASSUME NEW u \in Good, u.fault = "None", Watched(u), IdleUses(u), ~Pending(u, "Idle")
  PROVE  Leads(IdleStep([u EXCEPT !.ao["Idle"].active = FALSE]), u)
<1> DEFINE w == [u EXCEPT !.ao["Idle"].active = FALSE]
           x == IdleStep(w)
<1> SUFFICES Leads(x, u)
  OBVIOUS
<1>1. /\ w \in Good /\ w.fault = "None" /\ Rest(w, u) /\ Still(w, "Idle") /\ Frame(w, u)
      /\ w.ao["Idle"].status = KErrNone => Turn(w)
  BY TurnsGives
<1> HIDE DEF w, x
<1>2. Watched(w)
  BY <1>1, FrameKeeps
<1>3. ~w.idle.report /\ ~w.idle.stopping
  BY <1>2 DEF Watched
<1>6. w.pc = u.pc /\ u.pc.op # "Recover" /\ ~w.pc.report
  BY <1>1, <1>2 DEF Rest, Watched
<1>4. CASE w.ao["Idle"].status # KErrNone
  <2>1. x = DisconnectAll(w)
    BY <1>3, <1>4 DEF IdleStep, x
  <2>2. DisconnectAll(w).fault = "None" /\ GivenUp(DisconnectAll(w))
    BY <1>1, <1>6, DisconnectGives DEF Still, GivenUp
  <2>. QED BY <2>1, <2>2 DEF Leads, Moves, Kept, GivenUp
<1>5. CASE w.ao["Idle"].status = KErrNone
  <2> DEFINE v == RunContinueL(w)
  <2>1. Enters(v, w)
    BY <1>1, <1>5, RunContinueEnters
  <2>2. x = IF Active(v, "Idle") THEN v ELSE IdleComplete(v, KErrNone)
    BY <1>3, <1>5 DEF IdleStep, x
  <2> HIDE DEF v
  <2>3. x = v
    BY <2>1, <2>2 DEF Enters, IdleUses, Active
  <2>4. Watched(v) /\ IdleUses(v) /\ v.fault = "None"
    BY <1>2, <2>1, FrameKeeps DEF Enters
  <2>5. Kept(v) /\ v.pc = u.pc
    BY <1>6, <2>1, <2>4, WatchedUses DEF Kept, Enters, Frame
  <2>. QED BY <1>6, <2>3, <2>5, LeadsOn
<1>. QED BY <1>4, <1>5

\* Nobody is left of the idle controller, and the session is as it was.
LEMMA StopsUses ==
  ASSUME NEW w \in Good, w.fault = "None", Stopped(w), w.idle.report, Still(w, "Idle"),
         Still(w, "Folder"), Still(w, "Child"), ~w.idle.timer, NEW err \in Codes, Off(w.ses, w.rd),
         ~Fatal(err) => Free(w.ses, w.rd)
  PROVE  LET v == IdleComplete(w, err) IN v.fault = "None" /\ Users(v) /\ ~v.idle.report /\ v.pc = w.pc
<1> DEFINE v == IdleComplete(w, err)
<1>0. {"Pc", "Op", "Idle", "Folder", "Child"} \subseteq Objects
  BY ObjectNames
<1>1. /\ v \in Good /\ v.ses = w.ses /\ v.rd = w.rd /\ v.fault = w.fault
      /\ v.pc = w.pc /\ v.job = w.job /\ v.inbox = w.inbox
      /\ v.idle.state = w.idle.state /\ v.idle.timer = w.idle.timer
      /\ v.idle.stopping = w.idle.stopping /\ ~v.idle.report
      /\ \A o \in Objects : v.ao[o].active = w.ao[o].active
      /\ \A o \in Objects : o # "Pc" => v.ao[o].status = w.ao[o].status
      /\ w.idle.report => v.ao["Pc"].status = err
      /\ ~w.idle.report => v = w
  BY CodesAreStatuses, IdleCompleteGives
<1> HIDE DEF v
<1>2. err # KRequestPending
  BY CodeFacts, NoFaultName
<1>3. NobodyIdle(v)
  BY <1>0, <1>1 DEF NobodyIdle, Still
<1>4. Settled(v, "Pc")
  BY <1>1, <1>2 DEF Settled, Pending
<1>5. Stopped(v)
  BY <1>0, <1>1 DEF Stopped, Still
<1>6. Users(v)
  BY <1>1, <1>3, <1>4, <1>5, StoppedUses
<1>7. v.fault = "None" /\ Users(v) /\ ~v.idle.report /\ v.pc = w.pc
  BY <1>1, <1>6
<1>. QED BY <1>7 DEF v

LEMMA StoppedSteps ==
  ASSUME NEW u \in Good, u.fault = "None", Stopped(u), u.idle.report, u.idle.stopping,
         Pending(u, "Pc"), IdleUses(u), ~Pending(u, "Idle"),
         u.idle.state \notin {"Idling", "SyncFetching", "WaitingForServerEvent"}
  PROVE  Leads(IdleStep([u EXCEPT !.ao["Idle"].active = FALSE]), u)
<1> DEFINE w == [u EXCEPT !.ao["Idle"].active = FALSE]
           x == IdleStep(w)
<1> SUFFICES Leads(x, u)
  OBVIOUS
<1>1. /\ w \in Good /\ w.fault = "None" /\ Rest(w, u) /\ Still(w, "Idle") /\ Frame(w, u)
      /\ Still(w, "Folder") /\ Still(w, "Child")
      /\ w.ao["Idle"].status = KErrNone => Turn(w)
      /\ w.idle.timer => w.idle.state = "Idling"
      /\ w.ao["Idle"].status # KErrNone => 
           /\ Off(w.ses, w.rd) /\ w.ao["Idle"].status # KRequestPending
           /\ w.idle.state # "SyncFetching" =>
                (~Fatal(w.ao["Idle"].status) => Free(w.ses, w.rd))
  BY TurnsGives
<1> HIDE DEF w, x
<1>2. Stopped(w) /\ Pending(w, "Pc")
  BY <1>1, FrameKeeps
<1>3. /\ w.idle.report /\ w.idle.stopping /\ ~w.idle.timer
      /\ w.idle.state \notin {"Idling", "SyncFetching", "WaitingForServerEvent"}
  BY <1>1 DEF Rest
<1>6. w.pc = u.pc /\ u.pc.op # "Recover"
  BY <1>1, <1>2 DEF Rest, Stopped
<1>4. CASE w.ao["Idle"].status # KErrNone
  <2> DEFINE err == w.ao["Idle"].status
  <2>1. x = IdleComplete(w, err)
    BY <1>3, <1>4 DEF IdleStep, x
  <2>2. err \in Codes
    <3>1. w \in World /\ "Idle" \in Objects
      BY <1>1, ObjectNames DEF Good
    <3>2. err \in Statuses
      BY <3>1, StatusTyped
    <3>3. err # KRequestPending
      BY <1>1, <1>4
    <3>. QED BY <3>2, <3>3 DEF Statuses
  <2>3. Off(w.ses, w.rd) /\ (~Fatal(err) => Free(w.ses, w.rd))
    BY <1>1, <1>3, <1>4
  <2> HIDE DEF err
  <2>4. x.fault = "None" /\ Users(x) /\ x.pc = w.pc
    BY <1>1, <1>2, <1>3, <2>1, <2>2, <2>3, StopsUses
  <2>. QED BY <1>6, <2>4, LeadsOn DEF Kept
<1>5. CASE w.ao["Idle"].status = KErrNone
  <2> DEFINE v == RunStopL(w)
  <2>0. x = IF Active(v, "Idle") THEN v ELSE IdleComplete(v, KErrNone)
    BY <1>3, <1>5 DEF IdleStep, x
  <2>1. Turn(w)
    BY <1>1, <1>5
  <2>2. CASE w.idle.state = "WaitingForContinuation"
    <3> DEFINE s == InternalCancelAndSetState(w, "WaitingForDone")
               a == SetActive(DoneIdle(s, "Idle"), "Idle")
    <3>1. v = a
      BY <2>2 DEF RunStopL, CancelThenDone
    <3>2. Aside(s, w, "WaitingForDone") /\ Held(s.ses, s.rd)
      <4>1. "WaitingForDone" \in IdleStates
        BY DEF IdleStates
      <4>. QED BY <1>1, <2>1, <2>2, <4>1, SetAsideRunning
    <3> HIDE DEF s
    <3>3. a.fault = "OperationPendingNotIdle" \/ (Enters(a, w) /\ a.idle.state = "WaitingForDone")
      BY <3>2, DoneFollows
    <3> HIDE DEF a, v
    <3>4. v \in Good
      BY <1>1, GoodIsClosed, RunStopStays DEF v
    <3>5. CASE a.fault = "OperationPendingNotIdle"
      <4>1. IdleComplete(v, KErrNone).fault = v.fault
        BY <3>4, IdleCompleteGives, CodesAreStatuses
      <4>2. x.fault = "OperationPendingNotIdle"
        BY <2>0, <3>1, <3>5, <4>1
      <4>. QED BY <4>2 DEF Leads, Kept, Weak
    <3>6. CASE Enters(a, w) /\ a.idle.state = "WaitingForDone"
      <4>1. x = a
        BY <2>0, <3>1, <3>6 DEF Enters, IdleUses, Active
      <4>2. /\ Stopped(a) /\ Pending(a, "Pc") /\ IdleUses(a) /\ a.fault = "None"
            /\ a.idle.report /\ a.idle.stopping
        BY <1>2, <1>3, <3>6, FrameKeeps DEF Enters, Frame
      <4>3. Users(a)
        BY <3>6, <4>2, StoppedUses
      <4>. QED BY <1>6, <3>6, <4>1, <4>2, <4>3, LeadsOn DEF Kept, Enters, Frame
    <3>. QED BY <3>3, <3>5, <3>6
  <2>3. CASE w.idle.state # "WaitingForContinuation"
    <3> DEFINE f == [w EXCEPT !.idle.state = "Finished"]
    <3>1. v = IdleComplete(f, KErrNone)
      BY <1>3, <2>3 DEF RunStopL
    <3>2. /\ f \in Good /\ Sight(f, w) /\ Frame(f, w) /\ f.ao = w.ao
          /\ f.idle.timer = w.idle.timer
      <4>1. "Finished" \in IdleStates
        BY DEF IdleStates
      <4>. QED BY <1>1, <4>1, SetStateGives
    <3> HIDE DEF f, v
    <3>3. Free(w.ses, w.rd)
      BY <1>3, <2>1, <2>3 DEF Turn
    <3>4. /\ f \in Good /\ f.fault = "None" /\ Stopped(f) /\ f.idle.report /\ Still(f, "Idle")
          /\ Still(f, "Folder") /\ Still(f, "Child") /\ ~f.idle.timer
          /\ Free(f.ses, f.rd) /\ Off(f.ses, f.rd) /\ KErrNone \in Codes
      <4>1. Stopped(f) /\ f.idle.report
        BY <1>2, <1>3, <3>2, FrameKeeps DEF Frame
      <4>. QED BY <1>1, <1>3, <3>2, <3>3, <4>1, CodesAreStatuses DEF Sight, Still, Free, Off
    <3>5. v.fault = "None" /\ Users(v) /\ ~v.idle.report /\ v.pc = f.pc
      BY <3>1, <3>4, StopsUses
    <3>6. IdleComplete(v, KErrNone) = v
      BY <3>5 DEF IdleComplete
    <3>7. v.pc = u.pc
      BY <1>6, <3>2, <3>5 DEF Frame
    <3>. QED BY <1>6, <2>0, <3>5, <3>6, <3>7, LeadsOn DEF Kept
  <2>. QED BY <2>2, <2>3
<1>. QED BY <1>4, <1>5

LEMMA IdleStepUses ==
  ASSUME NEW u \in Good, u.fault = "None", Users(u), u.ao["Idle"].active, ~Pending(u, "Idle")
  PROVE  Leads(IdleStep([u EXCEPT !.ao["Idle"].active = FALSE]), u)
<1>1. IdleUses(u)
  BY IdleActive
<1>2. CASE Watched(u)
  BY <1>1, <1>2, WatchedSteps
<1>3. CASE /\ Stopped(u) /\ u.idle.report /\ u.idle.stopping /\ Pending(u, "Pc")
           /\ u.idle.state \notin {"Idling", "SyncFetching", "WaitingForServerEvent"}
  BY <1>1, <1>3, StoppedSteps
<1>. QED BY <1>2, <1>3, IdleActive

\* A leave of RunContinueL, while nobody waits for the idle controller to stop.
LEMMA IdleLeavesUses ==
  ASSUME NEW u \in Good, u.fault = "None", Users(u), u.ao["Idle"].active,
         u.ao["Idle"].status = KErrNone, ~u.idle.stopping,
         u.idle.state \notin {"WaitingForContinuation", "Idling"}
  PROVE  Leads(IdleComplete([u EXCEPT !.ao["Idle"].active = FALSE], KErrNoMemory), u)
<1> DEFINE w == [u EXCEPT !.ao["Idle"].active = FALSE]
           x == IdleComplete(w, KErrNoMemory)
<1> SUFFICES Leads(x, u)
  OBVIOUS
<1>0. Watched(u) /\ IdleUses(u) /\ ~Pending(u, "Idle")
  <2>1. KErrNone # KRequestPending
    BY CodeFacts, CodesAreStatuses
  <2>. QED BY <2>1, IdleActive DEF Pending
<1>1. /\ w \in Good /\ w.fault = "None" /\ Sight(w, u) /\ Rest(w, u) /\ Still(w, "Idle")
      /\ Frame(w, u) /\ Still(w, "Folder") /\ Still(w, "Child")
      /\ w.ao["Idle"].status = KErrNone => Turn(w)
      /\ w.idle.timer => w.idle.state = "Idling"
  BY <1>0, TurnsGives
<1> HIDE DEF w, x
<1>2. Watched(w)
  BY <1>0, <1>1, FrameKeeps
<1>3. x = w
  BY <1>2 DEF x, IdleComplete, Watched
<1>4. "Idle" \in Objects
  BY ObjectNames
<1>5. Turn(w) /\ w.idle = u.idle
  BY <1>1, <1>4 DEF Sight, Rest
<1>6. NobodyIdle(w) /\ Free(w.ses, w.rd)
  BY <1>1, <1>5 DEF NobodyIdle, Turn
<1>7. Kept(w) /\ w.pc = u.pc /\ w.pc.op # "Recover"
  BY <1>1, <1>2, <1>6, WatchedUses DEF Kept, Rest, Watched
<1>. QED BY <1>3, <1>7, LeadsOn

\* The idle controller goes on as it was, whoever waits for it.
LEMMA EntersUses ==
  ASSUME NEW v, NEW w, Users(w), w.ao["Idle"].active, Enters(v, w),
         v.idle.state = w.idle.state \/ v.idle.state \in {"WaitingForDone", "WaitingForFlush"}
  PROVE  Users(v)
<1>1. Frame(v, w) /\ IdleUses(v)
  BY DEF Enters
<1>2. CASE Watched(w)
  BY <1>1, <1>2, FrameKeeps, WatchedUses
<1>3. CASE /\ Stopped(w) /\ w.idle.report /\ w.idle.stopping /\ Pending(w, "Pc")
           /\ w.idle.state \notin {"Idling", "SyncFetching", "WaitingForServerEvent"}
  <2>1. Stopped(v) /\ v.idle.report /\ v.idle.stopping /\ Pending(v, "Pc")
    BY <1>1, <1>3, FrameKeeps DEF Frame
  <2>2. v.idle.state \notin {"Idling", "SyncFetching", "WaitingForServerEvent"}
    BY <1>3
  <2>. QED BY <1>1, <2>1, <2>2, StoppedUses
<1>. QED BY <1>2, <1>3, IdleActive

\* The timer of an IDLE expires.
LEMMA ReissueUses ==
  ASSUME NEW u \in Good, u.fault = "None", Users(u), u.idle.timer
  PROVE  u.idle.state = "Idling" /\ Leads(CancelThenDone([u EXCEPT !.idle.timer = FALSE]), u)
<1> DEFINE w == [u EXCEPT !.idle.timer = FALSE]
           v == CancelThenDone(w)
<1>1. IdleUses(u) /\ u.ao["Idle"].active
  BY DEF Users, NobodyIdle, IdleUses
<1>2. u.idle.state = "Idling"
  BY <1>1 DEF IdleUses
<1>3. /\ w \in Good /\ IdleUses(w) /\ Frame(w, u) /\ Sight(w, u) /\ w.idle.state = u.idle.state
  BY <1>1, TimerStopped
<1> HIDE DEF w
<1>4. w.fault = "None" /\ w.idle.state = "Idling"
  BY <1>2, <1>3 DEF Sight
<1>5. \/ v.fault = "OperationPendingNotIdle"
      \/ Enters(v, w) /\ v.idle.state = "WaitingForDone"
  BY <1>3, <1>4, CancelThenGives
<1> HIDE DEF v
<1>6. Enters(v, w) => Enters(v, u)
  BY <1>3, FrameAfter DEF Enters
<1>7. Kept(v)
  <2>1. Enters(v, w) /\ v.idle.state = "WaitingForDone" => Users(v) /\ v.fault = "None"
    BY <1>1, <1>6, EntersUses DEF Enters
  <2>. QED BY <1>5, <2>1 DEF Kept, Weak
<1>8. u.pc.op # "Recover"
  BY <1>1, IdleActive DEF Watched, Stopped
<1>9. v.fault = "None" => v.pc = u.pc
  BY <1>5, <1>6 DEF Enters, Frame
<1>10. Leads(v, u)
  BY <1>7, <1>8, <1>9, LeadsOn DEF Leads
<1>. QED BY <1>2, <1>10 DEF v, w

\* The inbox has been synchronised, or could not be.
LEMMA FolderStepUses ==
  ASSUME NEW u \in Good, u.fault = "None", Users(u), u.ao["Folder"].active, ~Pending(u, "Folder")
  PROVE  Leads(FolderDoRunL([u EXCEPT !.ao["Folder"].active = FALSE]), u)
<1> DEFINE w == [u EXCEPT !.ao["Folder"].active = FALSE]
           err == w.ao["Folder"].status
           s == Signal(w, "Idle", err)
           v == FolderDoRunL(w)
<1> SUFFICES Leads(v, u)
  OBVIOUS
<1>0. {"Pc", "Op", "Idle", "Folder", "Child"} \subseteq Objects
  BY ObjectNames
<1>1. IdleUses(u)
  BY DEF Users, NobodyIdle, Still
<1>2. u.idle.state = "Synchronising" /\ Pending(u, "Idle") /\ FolderUses(u)
  BY <1>1 DEF IdleUses, Still
<1>3. Told(u, "Folder")
  BY <1>2 DEF FolderUses, For, Waits
<1>4. /\ w \in Good /\ Sight(w, u) /\ Rest(w, u) /\ ~w.ao["Folder"].active
      /\ \A p \in Objects : p # "Folder" => w.ao[p].active = u.ao[p].active
  BY <1>0, RunsGives
<1>5. w \in World
  BY <1>4 DEF Good
<1>6. Told(w, "Folder") /\ err # KRequestPending
  <2>1. Told(w, "Folder")
    BY <1>0, <1>3, <1>4, SightSame
  <2>. QED BY <2>1 DEF Told, Pending
<1> HIDE DEF w, err
<1>7. /\ s \in World /\ s.ses = w.ses /\ s.rd = w.rd /\ s.fault = w.fault /\ Rest(s, w)
      /\ Marked(s.ao, w.ao, "Idle", err)
  <2>1. err \in Statuses
    BY <1>0, <1>5, StatusTyped DEF err
  <2>. QED BY <1>0, <1>5, <2>1, SignalGives, WorldClosed, SignalStays
<1> HIDE DEF s
<1>8. v = s \/ v = [s EXCEPT !.inbox.synced = w.inbox.covering]
  BY DEF v, FolderDoRunL, s, err
<1> HIDE DEF v
<1>9. /\ v.ses = s.ses /\ v.rd = s.rd /\ v.fault = s.fault /\ v.ao = s.ao
      /\ v.idle = s.idle /\ v.job = s.job /\ v.pc = s.pc
  <2> DEFINE k == w.inbox.covering
  <2>1. v = s \/ v = [s EXCEPT !.inbox.synced = k]
    BY <1>8
  <2> HIDE DEF k
  <2>. QED BY <1>7, <2>1 DEF World
<1>10. /\ v.ses = u.ses /\ v.rd = u.rd /\ v.fault = "None" /\ v.idle = u.idle /\ v.job = u.job
       /\ v.pc = u.pc
  BY <1>4, <1>7, <1>9 DEF Sight, Rest
<1>11. /\ ~v.ao["Folder"].active /\ v.ao["Idle"].status = err
       /\ \A p \in Objects : p # "Folder" => v.ao[p].active = u.ao[p].active
       /\ \A p \in Objects : p # "Idle" => v.ao[p].status = u.ao[p].status
  BY <1>0, <1>4, <1>7, <1>9 DEF Marked, Sight
<1>12. Still(v, "Folder") /\ Told(v, "Idle")
  <2>1. v.ses = w.ses /\ v.rd = w.rd
    BY <1>7, <1>9
  <2>2. Over(v.ses, v.rd) /\ (~Fatal(err) => Free(v.ses, v.rd))
    BY <1>6, <2>1 DEF Told, err
  <2>. QED BY <1>6, <1>11, <2>2 DEF Still, Told, Pending
<1>13. Frame(v, u)
  <2>1. /\ v.ao["Pc"].active = u.ao["Pc"].active /\ v.ao["Op"].active = u.ao["Op"].active
        /\ v.ao["Pc"].status = u.ao["Pc"].status
    BY <1>0, <1>11
  <2>. QED BY <1>10, <2>1 DEF Frame
<1>14. IdleUses(v)
  <2>1. v.ao["Idle"].active /\ Still(v, "Child") /\ InInbox(v) /\ ~v.idle.timer
    <3>1. v.ao["Idle"].active = u.ao["Idle"].active /\ v.ao["Child"].active = u.ao["Child"].active
      BY <1>0, <1>11
    <3>. QED BY <1>1, <1>2, <1>10, <3>1 DEF IdleUses, Still, InInbox
  <2>. QED BY <1>2, <1>10, <1>12, <2>1 DEF IdleUses
<1>15. Enters(v, u) /\ u.ao["Idle"].active
  BY <1>1, <1>10, <1>13, <1>14 DEF Enters, IdleUses
<1>16. Users(v)
  BY <1>10, <1>15, EntersUses
<1>17. u.pc.op # "Recover"
  BY <1>15, IdleActive DEF Watched, Stopped
<1>. QED BY <1>10, <1>16, <1>17, LeadsOn DEF Kept

-----------------------------------------------------------------------------
(* The users: the compound operations                                      *)

StepNames == {"None", "Start", "Select", "Fetch"}

\* The operation o is at step x.
AtStep(w, o, x) == [w EXCEPT !.job[o].step = x]

LEMMA SetStepGives ==
  ASSUME NEW w \in Good, NEW o \in Compounds, NEW x \in StepNames
  PROVE  LET v == AtStep(w, o, x)
         IN /\ v \in Good /\ v.ses = w.ses /\ v.rd = w.rd /\ v.fault = w.fault /\ v.ao = w.ao
            /\ v.idle = w.idle /\ v.pc = w.pc /\ v.job[o].op = w.job[o].op
            /\ v.job[o].step = x /\ v.job[o].report = w.job[o].report
            /\ \A p \in Compounds : p # o => v.job[p] = w.job[p]
<1> DEFINE v == AtStep(w, o, x)
<1>0. w \in World /\ w.job \in Jobs
  BY WorldFields DEF Good
<1>1. v \in Good
  BY GoodIsClosed, SetStep DEF AtStep, StepNames
<1>2. /\ v.ses = w.ses /\ v.rd = w.rd /\ v.fault = w.fault /\ v.ao = w.ao
      /\ v.idle = w.idle /\ v.pc = w.pc /\ v.job = [w.job EXCEPT ![o].step = x]
  BY <1>0 DEF World, AtStep
<1> HIDE DEF v
<1>3. /\ v.job[o].op = w.job[o].op /\ v.job[o].step = x /\ v.job[o].report = w.job[o].report
      /\ \A p \in Compounds : p # o => v.job[p] = w.job[p]
  BY <1>0, <1>2 DEF Jobs, Compounds
<1>4. /\ v \in Good /\ v.ses = w.ses /\ v.rd = w.rd /\ v.fault = w.fault /\ v.ao = w.ao
      /\ v.idle = w.idle /\ v.pc = w.pc /\ v.job[o].op = w.job[o].op
      /\ v.job[o].step = x /\ v.job[o].report = w.job[o].report
      /\ \A p \in Compounds : p # o => v.job[p] = w.job[p]
  BY <1>1, <1>2, <1>3
<1>. QED BY <1>4 DEF v

\* What a step of a compound operation leaves alone
JobRuns(v, w, o) ==
  /\ v.fault = "None" /\ v.idle = w.idle /\ v.pc = w.pc
  /\ \A p \in Compounds : p # o => v.job[p] = w.job[p]
  /\ \A p \in Objects : p # o => v.ao[p].active = w.ao[p].active
  /\ \A p \in Objects : p # o /\ p # Starter(o) => v.ao[p].status = w.ao[p].status
  /\ v.ses.folder.box \in {w.ses.folder.box, w.job[o].op.box, NoBox}

\* It waits for its next command, or is over.
JobSteps(v, w, o) ==
  /\ JobRuns(v, w, o) /\ JobUses(v, o) /\ v.job[o].op = w.job[o].op
  /\ v.ao[Starter(o)].status = w.ao[Starter(o)].status
JobEnds(v, w, o) ==
  /\ JobRuns(v, w, o) /\ ~v.job[o].report /\ v.job[o].step # "Start" /\ Still(v, o)
  /\ JobTold(v, Starter(o))

LEMMA JobGoesOn ==
  ASSUME NEW w \in Good, NEW o \in Compounds, w.job[o].report, w.job[o].op.box \in Boxes,
         NEW step \in {"Select", "Fetch"}, NEW f, Only(f, AtStep(w, o, step), o),
         f.ses.folder.box \in {w.ses.folder.box, w.job[o].op.box, NoBox},
         \/ step = "Select" /\ For(f, o, "Select") /\ f.ses.folder.box = w.job[o].op.box
         \/ /\ step = "Select" /\ Told(f, o)
            /\ f.ao[o].status = KErrNone => f.ses.folder.box = w.job[o].op.box
         \/ step = "Fetch" /\ (For(f, o, "Fetch") \/ (Told(f, o) /\ Free(f.ses, f.rd)))
  PROVE  JobSteps(SetActive(f, o), w, o)
<1> DEFINE x == AtStep(w, o, step)
           v == SetActive(f, o)
<1>0. o \in Objects /\ Starter(o) \in Objects /\ Starter(o) # o
  BY ObjectNames, StarterTyped DEF Starter, Compounds
<1>1. /\ x \in Good /\ x.ses = w.ses /\ x.rd = w.rd /\ x.fault = w.fault /\ x.ao = w.ao
      /\ x.idle = w.idle /\ x.pc = w.pc /\ x.job[o].op = w.job[o].op
      /\ x.job[o].step = step /\ x.job[o].report = w.job[o].report
      /\ \A p \in Compounds : p # o => x.job[p] = w.job[p]
  <2>1. w \in Good /\ o \in Compounds /\ step \in StepNames
    BY DEF StepNames
  <2>. QED BY ONLY <2>1, SetStepGives
<1>2. Only(f, x, o)
  OBVIOUS
<1> HIDE DEF x
<1>3. /\ f \in World /\ f.fault = "None" /\ Rest(f, x)
      /\ \A p \in Objects : f.ao[p].active = x.ao[p].active
      /\ \A p \in Objects : p # o => f.ao[p].status = x.ao[p].status
  BY <1>0, <1>2 DEF Only, Marked, Good
<1>4. Sight(v, f) /\ Rest(v, f) /\ Activated(v, f, o)
  BY <1>0, <1>3, SetActiveGives
<1> HIDE DEF v
<1>5. v.job = x.job /\ v.idle = x.idle /\ v.pc = x.pc /\ v.ses = f.ses /\ v.fault = "None"
  BY <1>3, <1>4 DEF Rest, Sight
<1>6. /\ \A p \in Objects : p # o => v.ao[p].active = w.ao[p].active
      /\ \A p \in Objects : p # o => v.ao[p].status = w.ao[p].status
      /\ v.ao[o].active /\ v.ao[o].status = f.ao[o].status
  BY <1>0, <1>1, <1>3, <1>4 DEF Sight, Activated
<1>7. JobRuns(v, w, o)
  BY <1>1, <1>5, <1>6 DEF JobRuns
<1>8. /\ \A k : For(v, o, k) <=> For(f, o, k)
      /\ Told(v, o) <=> Told(f, o)
      /\ v.rd = f.rd
  BY <1>0, <1>4, SightSame DEF Sight
<1>9. /\ v.job[o].op = w.job[o].op /\ v.job[o].step = step /\ v.job[o].report
  BY <1>1, <1>5
<1>10. JobUses(v, o)
  BY <1>5, <1>6, <1>8, <1>9 DEF JobUses
<1>11. v.ao[Starter(o)].status = w.ao[Starter(o)].status
  BY <1>0, <1>6
<1>12. JobSteps(v, w, o)
  BY <1>7, <1>9, <1>10, <1>11 DEF JobSteps
<1>. QED BY <1>12 DEF v

LEMMA StepSelectGives ==
  ASSUME NEW w \in Good, w.fault = "None", NEW o \in Compounds, w.job[o].report,
         w.job[o].op.box \in Boxes, Free(w.ses, w.rd)
  PROVE  JobSteps(StepSelect(w, o), w, o)
<1> DEFINE box == w.job[o].op.box
           x == AtStep(w, o, "Select")
           f == SelectL(x, o, box)
<1>0. o \in Objects
  BY ObjectNames DEF Compounds
<1>1. x \in Good /\ x.ses = w.ses /\ x.rd = w.rd /\ x.fault = w.fault
  <2>1. w \in Good /\ o \in Compounds /\ "Select" \in StepNames
    BY DEF StepNames
  <2>. QED BY ONLY <2>1, SetStepGives
<1>2. StepSelect(w, o) = SetActive(f, o)
  BY DEF StepSelect, AtStep
<1>3. /\ Only(f, x, o) /\ f.ses.folder.box \in {box, NoBox}
      /\ \/ For(f, o, "Select") /\ f.ses.folder.box = box
         \/ Told(f, o) /\ (f.ao[o].status = KErrNone => f.ses.folder.box = box)
  <2> HIDE DEF x
  <2>1. x \in Good /\ x.fault = "None" /\ Free(x.ses, x.rd) /\ box \in Boxes
    BY <1>1
  <2> HIDE DEF box
  <2>. QED BY <1>0, <2>1, SelectGives
<1>4. Only(f, AtStep(w, o, "Select"), o)
  BY <1>3
<1> HIDE DEF x, f
<1>. QED BY <1>2, <1>3, <1>4, JobGoesOn

LEMMA StepFetchGives ==
  ASSUME NEW w \in Good, w.fault = "None", NEW o \in Compounds, w.job[o].report,
         w.job[o].op.box \in Boxes, Free(w.ses, w.rd), w.ses.folder.box = w.job[o].op.box
  PROVE  JobSteps(StepFetch(w, o), w, o)
<1> DEFINE x == AtStep(w, o, "Fetch")
           f == FetchL(x, o)
<1>0. o \in Objects
  BY ObjectNames DEF Compounds
<1>1. x \in Good /\ x.ses = w.ses /\ x.rd = w.rd /\ x.fault = w.fault
  <2>1. w \in Good /\ o \in Compounds /\ "Fetch" \in StepNames
    BY DEF StepNames
  <2>. QED BY ONLY <2>1, SetStepGives
<1>2. StepFetch(w, o) = SetActive(f, o)
  BY DEF StepFetch, AtStep
<1>3. /\ Only(f, x, o) /\ f.ses.folder = x.ses.folder
      /\ For(f, o, "Fetch") \/ (Told(f, o) /\ Free(f.ses, f.rd))
  <2> HIDE DEF x
  <2>1. x.ses.folder # NoFolder
    BY <1>1, SessionAssumption DEF NoFolder
  <2>2. x \in Good /\ x.fault = "None" /\ Free(x.ses, x.rd)
    BY <1>1
  <2>. QED BY <1>0, <2>1, <2>2, FetchGives
<1>4. Only(f, AtStep(w, o, "Fetch"), o)
  BY <1>3
<1>5. f.ses.folder.box = w.ses.folder.box
  BY <1>1, <1>3
<1> HIDE DEF x, f
<1>. QED BY <1>2, <1>3, <1>4, <1>5, JobGoesOn

LEMMA JobCompleteEnds ==
  ASSUME NEW w \in Good, w.fault = "None", NEW o \in Compounds, w.job[o].report, Still(w, o),
         w.job[o].step # "Start", NEW err \in Codes \cup {1}, Over(w.ses, w.rd),
         err = KErrNone => Free(w.ses, w.rd)
  PROVE  JobEnds(JobComplete(w, o, err), w, o)
<1> DEFINE v == JobComplete(w, o, err)
<1>0. o \in Objects /\ Starter(o) \in Objects /\ Starter(o) # o /\ err # KRequestPending
  BY ObjectNames, StarterTyped, CodeFacts, CodesAreStatuses DEF Starter, Compounds, KErrImapNo
<1>1. /\ v \in Good /\ v.ses = w.ses /\ v.rd = w.rd /\ v.fault = w.fault
      /\ v.idle = w.idle /\ v.pc = w.pc /\ ~v.job[o].report
      /\ v.job[o].step = w.job[o].step
      /\ \A p \in Compounds : p # o => v.job[p] = w.job[p]
      /\ Marked(v.ao, w.ao, Starter(o), err)
  BY JobCompleteGives
<1> HIDE DEF v
<1>2. JobRuns(v, w, o) /\ Still(v, o)
  BY <1>0, <1>1 DEF JobRuns, Marked, Still
<1>3. JobTold(v, Starter(o))
  BY <1>0, <1>1 DEF JobTold, Marked, Pending
<1>4. JobEnds(v, w, o)
  BY <1>1, <1>2, <1>3 DEF JobEnds
<1>. QED BY <1>4 DEF v

\* An error of the operation o is noted.
Erring(w, o) == [w EXCEPT !.job[o].error = TRUE]

LEMMA ErringGives ==
  ASSUME NEW w \in Good, NEW o \in Compounds
  PROVE  LET v == Erring(w, o)
         IN /\ v \in Good /\ v.ses = w.ses /\ v.rd = w.rd /\ v.fault = w.fault /\ v.ao = w.ao
            /\ v.idle = w.idle /\ v.pc = w.pc /\ v.job[o].op = w.job[o].op
            /\ v.job[o].step = w.job[o].step /\ v.job[o].report = w.job[o].report
            /\ \A p \in Compounds : p # o => v.job[p] = w.job[p]
<1> DEFINE v == Erring(w, o)
<1>0. w \in World /\ w.job \in Jobs
  BY WorldFields DEF Good
<1>1. v \in Good
  BY GoodIsClosed, SetJobError DEF Erring
<1>2. /\ v.ses = w.ses /\ v.rd = w.rd /\ v.fault = w.fault /\ v.ao = w.ao
      /\ v.idle = w.idle /\ v.pc = w.pc /\ v.job = [w.job EXCEPT ![o].error = TRUE]
  BY <1>0 DEF World, Erring
<1> HIDE DEF v
<1>3. /\ v.job[o].op = w.job[o].op /\ v.job[o].step = w.job[o].step
      /\ v.job[o].report = w.job[o].report
      /\ \A p \in Compounds : p # o => v.job[p] = w.job[p]
  BY <1>0, <1>2 DEF Jobs, Compounds
<1>4. /\ v \in Good /\ v.ses = w.ses /\ v.rd = w.rd /\ v.fault = w.fault /\ v.ao = w.ao
      /\ v.idle = w.idle /\ v.pc = w.pc /\ v.job[o].op = w.job[o].op
      /\ v.job[o].step = w.job[o].step /\ v.job[o].report = w.job[o].report
      /\ \A p \in Compounds : p # o => v.job[p] = w.job[p]
  BY <1>1, <1>2, <1>3
<1>. QED BY <1>4 DEF v

\* What a compound operation has been told when it runs
JobTurn(w, o) ==
  /\ w \in Good /\ w.fault = "None" /\ w.job[o].report /\ w.job[o].op.box \in Boxes
  /\ Still(w, o)
  /\ \/ w.job[o].step = "Start" /\ w.ao[o].status = KErrNone /\ Free(w.ses, w.rd)
     \/ /\ w.job[o].step = "Select" /\ Told(w, o)
        /\ w.ao[o].status = KErrNone => w.ses.folder.box = w.job[o].op.box
     \/ w.job[o].step = "Fetch" /\ Told(w, o) /\ Free(w.ses, w.rd)

LEMMA LoopGives ==
  ASSUME NEW w, NEW o \in Compounds, JobTurn(w, o), Free(w.ses, w.rd),
         w.job[o].step = "Select" => w.ses.folder.box = w.job[o].op.box
  PROVE  LET v == DoRunLoopL(w, o) IN JobSteps(v, w, o) \/ JobEnds(v, w, o)
<1> DEFINE v == DoRunLoopL(w, o)
           op == w.job[o].op
<1>0. /\ w \in Good /\ w.fault = "None" /\ w.job[o].report /\ w.job[o].op.box \in Boxes
      /\ Still(w, o) /\ w.job[o].step \in {"Start", "Select", "Fetch"}
  BY DEF JobTurn
<1>1. JobSteps(StepSelect(w, o), w, o)
  BY <1>0, StepSelectGives
<1>2. w.ses.folder.box = op.box => JobSteps(StepFetch(w, o), w, o)
  BY <1>0, StepFetchGives
<1>3. w.job[o].step # "Start" => JobEnds(JobComplete(w, o, KErrNone), w, o)
  <2> SUFFICES ASSUME w.job[o].step # "Start"
               PROVE  JobEnds(JobComplete(w, o, KErrNone), w, o)
    OBVIOUS
  <2>1. /\ KErrNone \in Codes \cup {1} /\ Over(w.ses, w.rd)
        /\ KErrNone = KErrNone => Free(w.ses, w.rd)
    BY CodesAreStatuses DEF Free
  <2>. QED BY <1>0, <2>1, JobCompleteEnds
<1>4. v = CASE w.job[o].step = "Start" ->
                 IF op.kind = "Copy" /\ w.ses.folder.box = op.box
                 THEN StepFetch(w, o) ELSE StepSelect(w, o)
            [] w.job[o].step = "Select" /\ op.kind = "Copy" -> StepFetch(w, o)
            [] OTHER -> JobComplete(w, o, KErrNone)
  BY DEF DoRunLoopL
<1> HIDE DEF v, op
<1>5. CASE w.job[o].step = "Start"
  <2>1. v = IF op.kind = "Copy" /\ w.ses.folder.box = op.box
            THEN StepFetch(w, o) ELSE StepSelect(w, o)
    BY <1>4, <1>5
  <2>2. JobSteps(v, w, o)
    BY <1>1, <1>2, <2>1
  <2>. QED BY <2>2 DEF v
<1>6. CASE w.job[o].step = "Select" /\ op.kind = "Copy"
  <2>1. v = StepFetch(w, o)
    BY <1>4, <1>6
  <2>2. JobSteps(v, w, o)
    BY <1>2, <1>6, <2>1 DEF op
  <2>. QED BY <2>2 DEF v
<1>7. CASE w.job[o].step # "Start" /\ ~(w.job[o].step = "Select" /\ op.kind = "Copy")
  <2>1. v = JobComplete(w, o, KErrNone)
    BY <1>4, <1>7
  <2>2. JobEnds(v, w, o)
    BY <1>3, <1>7, <2>1
  <2>. QED BY <2>2 DEF v
<1>. QED BY <1>5, <1>6, <1>7

LEMMA JobTurnGives ==
  ASSUME NEW w, NEW o \in Compounds, JobTurn(w, o)
  PROVE  LET v == JobDoRunL(w, o) IN JobSteps(v, w, o) \/ JobEnds(v, w, o)
<1> DEFINE v == JobDoRunL(w, o)
           st == w.ao[o].status
           err == IF w.job[o].step = "Fetch" THEN FetchError(st) ELSE st
           code == IF err \in {KErrImapNo, KErrImapBad} THEN KErrNone ELSE 1
           x == Erring(w, o)
<1> SUFFICES JobSteps(v, w, o) \/ JobEnds(v, w, o)
  OBVIOUS
<1>0. /\ w \in Good /\ w.fault = "None" /\ w.job[o].report /\ w.job[o].op.box \in Boxes
      /\ Still(w, o) /\ w.job[o].step \in {"Start", "Select", "Fetch"}
  BY DEF JobTurn
<1>1. v = CASE err = KErrNone -> DoRunLoopL(w, o)
            [] err # KErrNone /\ code = KErrNone -> JobComplete(x, o, KErrNone)
            [] OTHER -> JobComplete(x, o, code)
  BY DEF JobDoRunL, Erring
<1>2. /\ x \in Good /\ x.ses = w.ses /\ x.rd = w.rd /\ x.fault = w.fault /\ x.ao = w.ao
      /\ x.idle = w.idle /\ x.pc = w.pc /\ x.job[o].op = w.job[o].op
      /\ x.job[o].step = w.job[o].step /\ x.job[o].report = w.job[o].report
      /\ \A p \in Compounds : p # o => x.job[p] = w.job[p]
  BY <1>0, ErringGives
<1>3. /\ w.job[o].step = "Start" => err = KErrNone
      /\ w.job[o].step # "Fetch" => err = st
      /\ w.job[o].step = "Fetch" => err \in {KErrNone, KErrImapNo}
  BY DEF JobTurn, FetchError
<1>4. code \in {KErrNone, 1} /\ (code = KErrNone => err \in {KErrImapNo, KErrImapBad})
  BY DEF KErrNone
<1>5. /\ code = KErrNone \/ err = KErrNone => Free(w.ses, w.rd)
      /\ Over(w.ses, w.rd)
  <2>1. CASE w.job[o].step = "Start"
    BY <2>1 DEF JobTurn, Free
  <2>2. CASE w.job[o].step = "Select"
    <3>1. Told(w, o) /\ err = st
      BY <1>3, <2>2 DEF JobTurn
    <3>2. code = KErrNone \/ err = KErrNone => ~Fatal(st)
      BY <1>4, <3>1 DEF Fatal
    <3>. QED BY <3>1, <3>2 DEF Told
  <2>3. CASE w.job[o].step = "Fetch"
    BY <2>3 DEF JobTurn, Free
  <2>. QED BY <1>0, <2>1, <2>2, <2>3
<1> HIDE DEF v, x, code, err, st
<1>6. CASE err = KErrNone
  <2>1. v = DoRunLoopL(w, o)
    BY <1>1, <1>6
  <2>2. w.job[o].step = "Select" => w.ses.folder.box = w.job[o].op.box
    BY <1>3, <1>6 DEF JobTurn, st
  <2>3. Free(w.ses, w.rd)
    BY <1>5, <1>6
  <2>. QED BY <2>1, <2>2, <2>3, LoopGives
<1>7. CASE err # KErrNone
  <2>1. v = JobComplete(x, o, code)
    BY <1>1, <1>7
  <2>2. /\ x \in Good /\ x.fault = "None" /\ x.job[o].report /\ Still(x, o)
        /\ x.job[o].step # "Start" /\ code \in Codes \cup {1} /\ Over(x.ses, x.rd)
        /\ code = KErrNone => Free(x.ses, x.rd)
    BY <1>0, <1>2, <1>3, <1>4, <1>5, <1>7, CodesAreStatuses DEF Still
  <2>3. JobEnds(v, x, o)
    BY <2>1, <2>2, JobCompleteEnds
  <2>4. JobRuns(v, w, o)
    BY <1>2, <2>3 DEF JobEnds, JobRuns
  <2>. QED BY <2>3, <2>4 DEF JobEnds
<1>. QED BY <1>6, <1>7

LEMMA JobStepGives ==
  ASSUME NEW u \in Good, u.fault = "None", NEW o \in Compounds, JobUses(u, o), ~Pending(u, o)
  PROVE  LET v == JobDoRunL([u EXCEPT !.ao[o].active = FALSE], o)
         IN JobSteps(v, u, o) \/ JobEnds(v, u, o)
<1> DEFINE w == [u EXCEPT !.ao[o].active = FALSE]
           v == JobDoRunL(w, o)
<1> SUFFICES JobSteps(v, u, o) \/ JobEnds(v, u, o)
  OBVIOUS
<1>0. o \in Objects /\ Starter(o) \in Objects /\ Starter(o) # o
  BY ObjectNames, StarterTyped DEF Starter, Compounds
<1>1. /\ w \in Good /\ Sight(w, u) /\ Rest(w, u) /\ ~w.ao[o].active
      /\ \A p \in Objects : p # o => w.ao[p].active = u.ao[p].active
  BY <1>0, RunsGives
<1> HIDE DEF w
<1>2. /\ w.ses = u.ses /\ w.rd = u.rd /\ w.fault = u.fault /\ w.job = u.job /\ w.idle = u.idle
      /\ w.pc = u.pc /\ \A p \in Objects : w.ao[p].status = u.ao[p].status
  BY <1>1 DEF Sight, Rest
<1>3. Told(w, o) <=> Told(u, o)
  BY <1>0, <1>1, SightSame
<1>4. \A k : ~For(u, o, k)
  BY DEF For, Waits
<1>5. JobTurn(w, o)
  BY <1>0, <1>1, <1>2, <1>3, <1>4 DEF JobTurn, JobUses, Still
<1>6. JobSteps(v, w, o) \/ JobEnds(v, w, o)
  BY <1>5, JobTurnGives
<1> HIDE DEF v
<1>7. JobRuns(v, w, o) => JobRuns(v, u, o)
  BY <1>1, <1>2 DEF JobRuns
<1>8. JobSteps(v, w, o) => JobSteps(v, u, o)
  BY <1>0, <1>2, <1>7 DEF JobSteps
<1>9. JobEnds(v, w, o) => JobEnds(v, u, o)
  BY <1>7 DEF JobEnds
<1>. QED BY <1>6, <1>8, <1>9

LEMMA ChildStepUses ==
  ASSUME NEW u \in Good, u.fault = "None", Users(u), u.ao["Child"].active, ~Pending(u, "Child")
  PROVE  Leads(JobDoRunL([u EXCEPT !.ao["Child"].active = FALSE], "Child"), u)
<1> DEFINE v == JobDoRunL([u EXCEPT !.ao["Child"].active = FALSE], "Child")
<1> SUFFICES Leads(v, u)
  OBVIOUS
<1>0. {"Pc", "Op", "Idle", "Folder", "Child"} \subseteq Objects /\ {"Op", "Child"} \subseteq Compounds
  BY ObjectNames DEF Compounds
<1>1. IdleUses(u)
  BY DEF Users, NobodyIdle, Still
<1>2. /\ u.idle.state = "SyncFetching" /\ Pending(u, "Idle") /\ JobUses(u, "Child")
      /\ u.job["Child"].op.box = Inbox
  BY <1>1 DEF IdleUses, Still
<1>3. JobSteps(v, u, "Child") \/ JobEnds(v, u, "Child")
  BY <1>0, <1>2, JobStepGives
<1>4. Starter("Child") = "Idle"
  BY DEF Starter
<1> HIDE DEF v
<1>5. JobRuns(v, u, "Child")
  BY <1>3 DEF JobSteps, JobEnds
<1>6. /\ v.fault = "None" /\ v.idle = u.idle /\ v.pc = u.pc /\ v.job["Op"] = u.job["Op"]
      /\ v.ao["Pc"].active = u.ao["Pc"].active /\ v.ao["Op"].active = u.ao["Op"].active
      /\ v.ao["Idle"].active = u.ao["Idle"].active
      /\ v.ao["Folder"].active = u.ao["Folder"].active
      /\ v.ao["Pc"].status = u.ao["Pc"].status
      /\ v.ses.folder.box \in {u.ses.folder.box, Inbox, NoBox}
  BY <1>0, <1>2, <1>4, <1>5 DEF JobRuns
<1>7. Frame(v, u)
  BY <1>6 DEF Frame
<1>8. v.ao["Idle"].active /\ InInbox(v) /\ Still(v, "Folder") /\ ~v.idle.timer
      /\ v.idle.state = "SyncFetching"
  BY <1>1, <1>2, <1>6 DEF IdleUses, InInbox, Still
<1>9. \/ Pending(v, "Idle") /\ JobUses(v, "Child") /\ v.job["Child"].op.box = Inbox
      \/ Still(v, "Child") /\ JobTold(v, "Idle")
  <2>1. CASE JobSteps(v, u, "Child")
    BY <1>2, <1>4, <2>1 DEF JobSteps, Pending
  <2>2. CASE JobEnds(v, u, "Child")
    BY <1>4, <2>2 DEF JobEnds
  <2>. QED BY <1>3, <2>1, <2>2
<1>10. IdleUses(v)
  BY <1>8, <1>9 DEF IdleUses
<1>11. Enters(v, u) /\ u.ao["Idle"].active /\ v.idle.state = u.idle.state
  BY <1>1, <1>6, <1>7, <1>10 DEF Enters, IdleUses
<1>12. Users(v)
  BY <1>11, EntersUses
<1>13. u.pc.op # "Recover"
  BY <1>11, IdleActive DEF Watched, Stopped
<1>. QED BY <1>6, <1>12, <1>13, LeadsOn DEF Kept

LEMMA OpStepUses ==
  ASSUME NEW u \in Good, u.fault = "None", Users(u), u.ao["Op"].active, ~Pending(u, "Op")
  PROVE  Leads(JobDoRunL([u EXCEPT !.ao["Op"].active = FALSE], "Op"), u)
<1> DEFINE v == JobDoRunL([u EXCEPT !.ao["Op"].active = FALSE], "Op")
<1> SUFFICES Leads(v, u)
  OBVIOUS
<1>0. {"Pc", "Op", "Idle", "Folder", "Child"} \subseteq Objects /\ {"Op", "Child"} \subseteq Compounds
  BY ObjectNames DEF Compounds
<1>1. /\ u.pc.op = "Op" /\ NobodyIdle(u) /\ ~u.idle.report /\ u.pc.report /\ u.ao["Pc"].active
      /\ Pending(u, "Pc") /\ JobUses(u, "Op")
  BY DEF Users, Still
<1>3. JobSteps(v, u, "Op") \/ JobEnds(v, u, "Op")
  BY <1>0, <1>1, JobStepGives
<1>4. Starter("Op") = "Pc"
  BY DEF Starter
<1> HIDE DEF v
<1>5. JobRuns(v, u, "Op")
  BY <1>3 DEF JobSteps, JobEnds
<1>6. /\ v.fault = "None" /\ v.idle = u.idle /\ v.pc = u.pc
      /\ v.ao["Pc"].active = u.ao["Pc"].active /\ v.ao["Child"].active = u.ao["Child"].active
      /\ v.ao["Idle"].active = u.ao["Idle"].active
      /\ v.ao["Folder"].active = u.ao["Folder"].active
  BY <1>0, <1>5 DEF JobRuns
<1>7. NobodyIdle(v)
  BY <1>1, <1>6 DEF NobodyIdle, Still
<1>8. \/ Pending(v, "Pc") /\ JobUses(v, "Op")
      \/ /\ ~v.job["Op"].report /\ v.job["Op"].step # "Start" /\ Still(v, "Op")
         /\ JobTold(v, "Pc")
  <2>1. CASE JobSteps(v, u, "Op")
    BY <1>1, <1>4, <2>1 DEF JobSteps, Pending
  <2>2. CASE JobEnds(v, u, "Op")
    BY <1>4, <2>2 DEF JobEnds
  <2>. QED BY <1>3, <2>1, <2>2
<1>9. Users(v)
  BY <1>1, <1>6, <1>7, <1>8 DEF Users
<1>. QED BY <1>1, <1>6, <1>9, LeadsOn DEF Kept

-----------------------------------------------------------------------------
(* The users: the protocol controller                                      *)

\* The client has been answered.
Concluded(w, err) == [w EXCEPT !.pc.requested = NoOp, !.pc.report = FALSE, !.pc.answer = err]

LEMMA ConcludedGives ==
  ASSUME NEW w \in Good, NEW err \in Replies
  PROVE  LET v == Concluded(w, err)
         IN /\ v \in Good /\ v.ses = w.ses /\ v.rd = w.rd /\ v.fault = w.fault /\ v.ao = w.ao
            /\ v.idle = w.idle /\ v.job = w.job
            /\ v.pc.op = w.pc.op /\ ~v.pc.report /\ v.pc.online = w.pc.online
<1> DEFINE v == Concluded(w, err)
           p == [w.pc EXCEPT !.requested = NoOp, !.report = FALSE, !.answer = err]
<1>0. w \in World /\ w.pc \in Controllers
  BY WorldFields DEF Good
<1>1. p \in Controllers /\ p.op = w.pc.op /\ ~p.report /\ p.online = w.pc.online
  BY <1>0 DEF Controllers, Replies
<1>2. v = [w EXCEPT !.pc = p]
  BY <1>0 DEF Concluded, World, Controllers
<1> HIDE DEF p, v
<1>3. v \in Good
  BY <1>1, <1>2, GoodIsClosed, SetPc
<1>4. v.ses = w.ses /\ v.rd = w.rd /\ v.fault = w.fault /\ v.ao = w.ao
      /\ v.idle = w.idle /\ v.job = w.job /\ v.pc = p
  BY <1>0, <1>2 DEF World
<1>5. /\ v \in Good /\ v.ses = w.ses /\ v.rd = w.rd /\ v.fault = w.fault /\ v.ao = w.ao
      /\ v.idle = w.idle /\ v.job = w.job
      /\ v.pc.op = w.pc.op /\ ~v.pc.report /\ v.pc.online = w.pc.online
  BY <1>1, <1>3, <1>4
<1>. QED BY <1>5 DEF v

\* The controller of an IDLE that starts has set its state.
Outset(w) == [w EXCEPT !.idle.state = "StartingIdle", !.idle.stopping = FALSE]

LEMMA OutsetGives ==
  ASSUME NEW w \in Good
  PROVE  LET v == Outset(w)
         IN /\ v \in Good /\ v.ses = w.ses /\ v.rd = w.rd /\ v.fault = w.fault /\ v.ao = w.ao
            /\ v.job = w.job /\ v.pc = w.pc
            /\ v.idle.state = "StartingIdle" /\ v.idle.timer = w.idle.timer
            /\ v.idle.report = w.idle.report /\ ~v.idle.stopping
<1> DEFINE v == Outset(w)
           i == [w.idle EXCEPT !.state = "StartingIdle", !.stopping = FALSE]
<1>0. w \in World /\ w.idle \in IdleTypes
  BY WorldFields DEF Good
<1>1. /\ i \in IdleTypes /\ i.state = "StartingIdle" /\ i.timer = w.idle.timer
      /\ i.report = w.idle.report /\ ~i.stopping
  BY <1>0 DEF IdleTypes, IdleStates
<1>2. v = [w EXCEPT !.idle = i]
  BY <1>0 DEF Outset, World, IdleTypes
<1> HIDE DEF i, v
<1>3. v \in World
  BY <1>0, <1>1, <1>2 DEF World
<1>4. v.ses = w.ses /\ v.rd = w.rd /\ v.net = w.net /\ v.fault = w.fault /\ v.ao = w.ao
      /\ v.pc = w.pc /\ v.job = w.job /\ v.idle = i
  BY <1>0, <1>2 DEF World
<1>5. v \in Good
  BY <1>3, <1>4, BesideGood
<1>6. /\ v \in Good /\ v.ses = w.ses /\ v.rd = w.rd /\ v.fault = w.fault /\ v.ao = w.ao
      /\ v.job = w.job /\ v.pc = w.pc
      /\ v.idle.state = "StartingIdle" /\ v.idle.timer = w.idle.timer
      /\ v.idle.report = w.idle.report /\ ~v.idle.stopping
  BY <1>1, <1>4, <1>5
<1>. QED BY <1>6 DEF v

LEMMA PcStartIdleGives ==
  ASSUME NEW w \in Good, w.fault = "None", Still(w, "Idle")
  PROVE  LET v == PcStartIdle(w)
         IN /\ v \in Good /\ v.ses = w.ses /\ v.rd = w.rd /\ v.job = w.job
            /\ v.fault \in {"None", "UnexpectedStateAtStart"}
            /\ v.pc.op = "Idle" /\ v.pc.report = w.pc.report /\ v.pc.online = w.pc.online
            /\ v.idle.state = "StartingIdle" /\ v.idle.timer = w.idle.timer
            /\ v.idle.report = w.idle.report /\ ~v.idle.stopping
            /\ v.ao["Idle"].active /\ v.ao["Idle"].status = KErrNone
            /\ \A p \in Objects : p # "Idle" => v.ao[p].active = w.ao[p].active
            /\ \A p \in Objects : p # "Idle" => v.ao[p].status = w.ao[p].status
<1> DEFINE a == [w EXCEPT !.pc.op = "Idle"]
           x == Expect(a, a.idle.state = "Finished", "UnexpectedStateAtStart")
           y == Expect(x, ~Active(a, "Idle"), "IsActiveAtStart")
           b == Outset(y)
           s == Signal(b, "Idle", KErrNone)
           v == SetActive(s, "Idle")
<1>0. {"Pc", "Op", "Idle", "Folder", "Child"} \subseteq Objects /\ KErrNone \in Statuses
  BY ObjectNames, CodesAreStatuses
<1>1. PcStartIdle(w) = v
  BY DEF PcStartIdle, StartIdle, Outset
<1>2. /\ a \in Good /\ a.ses = w.ses /\ a.rd = w.rd /\ a.fault = w.fault /\ a.ao = w.ao
      /\ a.idle = w.idle /\ a.inbox = w.inbox /\ a.job = w.job
      /\ a.pc.op = "Idle" /\ a.pc.report = w.pc.report /\ a.pc.online = w.pc.online
  BY SetPcOpGives
<1> HIDE DEF a
<1>3. /\ x \in Good /\ x.ses = a.ses /\ x.rd = a.rd /\ x.ao = a.ao /\ x.idle = a.idle
      /\ x.job = a.job /\ x.pc = a.pc /\ x.fault \in {"None", "UnexpectedStateAtStart"}
  <2>1. x \in Good
    BY <1>2, GoodIsClosed, ExpectStays, Names
  <2>2. a \in World /\ a.fault = "None"
    BY <1>2 DEF Good
  <2>3. x = a \/ x = [a EXCEPT !.fault = "UnexpectedStateAtStart"]
    BY DEF Expect
  <2> HIDE DEF x
  <2>. QED BY <2>1, <2>2, <2>3 DEF World
<1>4. y = x
  <2>1. ~Active(a, "Idle")
    BY <1>2 DEF Active, Still
  <2> HIDE DEF x
  <2>. QED BY <2>1 DEF Expect
<1> HIDE DEF x, y
<1>5. /\ b \in Good /\ b.ses = y.ses /\ b.rd = y.rd /\ b.fault = y.fault /\ b.ao = y.ao
      /\ b.job = y.job /\ b.pc = y.pc
      /\ b.idle.state = "StartingIdle" /\ b.idle.timer = y.idle.timer
      /\ b.idle.report = y.idle.report /\ ~b.idle.stopping
  BY <1>3, <1>4, OutsetGives
<1> HIDE DEF b
<1>6. b \in World
  BY <1>5 DEF Good
<1>7. s \in Good /\ s.ses = b.ses /\ s.rd = b.rd /\ s.fault = b.fault /\ Rest(s, b)
      /\ Marked(s.ao, b.ao, "Idle", KErrNone)
  BY <1>0, <1>5, <1>6, SignalGives, GoodIsClosed, SignalStays
<1> HIDE DEF s
<1>8. s \in World
  BY <1>7 DEF Good
<1>9. v \in Good /\ Sight(v, s) /\ Rest(v, s) /\ Activated(v, s, "Idle")
  BY <1>0, <1>7, <1>8, SetActiveGives, GoodIsClosed, SetActiveStays
<1> HIDE DEF v
<1>10. /\ v \in Good /\ v.ses = w.ses /\ v.rd = w.rd /\ v.job = w.job
       /\ v.fault \in {"None", "UnexpectedStateAtStart"}
       /\ v.pc.op = "Idle" /\ v.pc.report = w.pc.report /\ v.pc.online = w.pc.online
       /\ v.idle.state = "StartingIdle" /\ v.idle.timer = w.idle.timer
       /\ v.idle.report = w.idle.report /\ ~v.idle.stopping
  <2>1. v.idle = b.idle /\ v.pc = a.pc /\ v.job = w.job
    BY <1>2, <1>3, <1>4, <1>5, <1>7, <1>9 DEF Rest
  <2>2. v.ses = w.ses /\ v.rd = w.rd /\ v.fault = x.fault
    BY <1>2, <1>3, <1>4, <1>5, <1>7, <1>9 DEF Sight
  <2>. QED BY <1>2, <1>3, <1>4, <1>5, <1>9, <2>1, <2>2
<1>11. /\ v.ao["Idle"].active /\ v.ao["Idle"].status = KErrNone
       /\ \A p \in Objects : p # "Idle" => v.ao[p].active = w.ao[p].active
       /\ \A p \in Objects : p # "Idle" => v.ao[p].status = w.ao[p].status
  BY <1>0, <1>2, <1>3, <1>4, <1>5, <1>7, <1>9 DEF Sight, Activated, Marked
<1>. QED BY <1>1, <1>10, <1>11

\* The idle controller has been started again.
LEMMA BegunUses ==
  ASSUME NEW v, Watched(v), v.ao["Idle"].active, v.ao["Idle"].status = KErrNone,
         v.idle.state = "StartingIdle", ~v.idle.timer, Still(v, "Folder"), Still(v, "Child"),
         Free(v.ses, v.rd)
  PROVE  Users(v)
<1>1. IdleUses(v)
  BY DEF IdleUses
<1>. QED BY <1>1, WatchedUses

\* The connection is given up, or the client is answered.
LEMMA PcCompleteGives ==
  ASSUME NEW w \in Good, NEW err \in Replies, w.pc.report,
         Still(w, "Idle") \/ (w.idle.state = "StartingIdle" /\ ~Pending(w, "Idle"))
  PROVE  LET v == PcComplete(w, err)
         IN \/ v.fault = w.fault /\ GivenUp(v)
            \/ err \in {KErrNone, KErrCancel} /\ v = Concluded(w, err)
<1> DEFINE v == PcComplete(w, err)
           a == Concluded(w, err)
<1>1. v = IF err \in {KErrNone, KErrCancel} THEN a ELSE DisconnectAll(a)
  BY DEF PcComplete, Concluded
<1>2. /\ a \in Good /\ a.fault = w.fault /\ a.ao = w.ao /\ a.idle = w.idle /\ ~a.pc.report
  BY ConcludedGives
<1> HIDE DEF a, v
<1>3. CASE err \in {KErrNone, KErrCancel}
  BY <1>1, <1>3 DEF a, v
<1>4. CASE err \notin {KErrNone, KErrCancel}
  <2>1. ~a.ao["Idle"].active \/ (a.idle.state = "StartingIdle" /\ ~Pending(a, "Idle"))
    BY <1>2 DEF Still, Pending
  <2>2. DisconnectAll(a).fault = a.fault /\ GivenUp(DisconnectAll(a))
    BY <1>2, <2>1, DisconnectGives DEF GivenUp
  <2>3. v.fault = w.fault /\ GivenUp(v)
    BY <1>1, <1>2, <1>4, <2>2
  <2>. QED BY <2>3 DEF v
<1>. QED BY <1>3, <1>4

LEMMA PcErrorGives ==
  ASSUME NEW w \in Good, w.fault = "None", w.pc.op # "Recover" => w.pc.report,
         w.pc.op = "Recover" => ~w.pc.report, Still(w, "Idle")
  PROVE  PcError(w).fault = "None" /\ GivenUp(PcError(w))
<1>1. CASE w.pc.op = "Recover"
  <2>1. PcError(w) = DisconnectAll(w)
    BY <1>1 DEF PcError
  <2>. QED BY <1>1, <2>1, DisconnectGives DEF Still, GivenUp
<1>2. CASE w.pc.op # "Recover"
  <2> DEFINE v == PcComplete(w, KErrImapServerFail)
  <2>1. PcError(w) = v
    BY <1>2 DEF PcError
  <2>2. KErrImapServerFail \in Replies /\ KErrImapServerFail \notin {KErrNone, KErrCancel}
    BY DEF Replies, KErrImapServerFail, KErrNone, KErrCancel
  <2>3. \/ v.fault = w.fault /\ GivenUp(v)
        \/ KErrImapServerFail \in {KErrNone, KErrCancel} /\ v = Concluded(w, KErrImapServerFail)
    BY <1>2, <2>2, PcCompleteGives
  <2> HIDE DEF v
  <2>4. v.fault = "None" /\ GivenUp(v)
    BY <2>2, <2>3
  <2>. QED BY <2>1, <2>4
<1>. QED BY <1>1, <1>2

\* Nobody but the protocol controller runs, to be told of the end of an operation.
Turned(w) ==
  /\ w \in Good /\ w.fault = "None" /\ Still(w, "Pc") /\ NobodyIdle(w) /\ ~w.idle.report
  /\ Still(w, "Op")

LEMMA RecoveredUses ==
  ASSUME NEW w, Turned(w), w.pc.op = "Recover", ~w.pc.report, w.job["Op"] = NoJob, Free(w.ses, w.rd)
  PROVE  Leads(PcStartIdle(w), w)
<1> DEFINE v == PcStartIdle(w)
<1>0. w \in Good /\ w.fault = "None" /\ Still(w, "Idle")
  BY DEF Turned, NobodyIdle
<1>1. /\ v \in Good /\ v.ses = w.ses /\ v.rd = w.rd /\ v.job = w.job
      /\ v.fault \in {"None", "UnexpectedStateAtStart"}
      /\ v.pc.op = "Idle" /\ v.pc.report = w.pc.report /\ v.pc.online = w.pc.online
      /\ v.idle.state = "StartingIdle" /\ v.idle.timer = w.idle.timer
      /\ v.idle.report = w.idle.report /\ ~v.idle.stopping
      /\ v.ao["Idle"].active /\ v.ao["Idle"].status = KErrNone
      /\ \A p \in Objects : p # "Idle" => v.ao[p].active = w.ao[p].active
      /\ \A p \in Objects : p # "Idle" => v.ao[p].status = w.ao[p].status
  BY <1>0, PcStartIdleGives
<1> HIDE DEF v
<1>2. /\ v.ao["Pc"].active = w.ao["Pc"].active /\ v.ao["Op"].active = w.ao["Op"].active
      /\ v.ao["Folder"].active = w.ao["Folder"].active
      /\ v.ao["Child"].active = w.ao["Child"].active
  BY <1>1, ObjectNames
<1>3. /\ Still(v, "Pc") /\ Still(v, "Op") /\ Still(v, "Folder") /\ Still(v, "Child")
      /\ ~v.idle.timer /\ ~v.idle.report
  BY <1>1, <1>2 DEF Turned, NobodyIdle, Still
<1>4. Watched(v)
  BY <1>1, <1>3 DEF Watched
<1>5. Users(v)
  BY <1>1, <1>3, <1>4, BegunUses
<1>6. Kept(v)
  BY <1>1, <1>5 DEF Kept, Weak
<1>7. Unused(v, w)
  BY <1>1, OverUnused DEF Unused, Free
<1>8. Recovers(v, w) /\ v.pc.online = w.pc.online
  BY <1>1, <1>7 DEF Recovers
<1>. QED BY <1>6, <1>8 DEF v, Leads, Moves

LEMMA OperationDoneUses ==
  ASSUME NEW w, Turned(w), w.pc.op = "Op", w.pc.report, JobTold(w, "Pc"), ~Fatal(w.ao["Pc"].status)
  PROVE  Leads(OperationDone(w), w)
<1> DEFINE err == w.ao["Pc"].status
           y == [w EXCEPT !.job["Op"] = NoJob]
           s == PcStartIdle(y)
           v == OperationDone(w)
<1> SUFFICES Leads(v, w)
  OBVIOUS
<1>0. {"Pc", "Op", "Idle", "Folder", "Child"} \subseteq Objects /\ "Op" \in Compounds
  BY ObjectNames DEF Compounds
<1>1. /\ w \in Good /\ w.fault = "None" /\ Still(w, "Pc") /\ NobodyIdle(w) /\ ~w.idle.report
      /\ Still(w, "Op")
  BY DEF Turned
<1>2. /\ err \in Replies /\ (err \in {KErrNone, KErrCancel} => err = KErrNone)
      /\ err = KErrNone => Free(w.ses, w.rd)
  <2>1. err \in Statuses
    BY <1>0, <1>1, StatusTyped DEF Good
  <2>2. err \in {KErrNone, KErrImapNo, KErrImapBad}
    BY DEF Fatal
  <2>3. KErrImapBad \notin Statuses
    BY DEF Statuses, Codes, KErrNone, KErrImapNo, KErrImapBad, KErrImapClosed,
           KErrImapFlushTimeout, KErrImapCorrupt, KErrCancel, KErrNoMemory, KRequestPending
  <2>4. KErrImapNo = 1 /\ KErrCancel \notin {KErrImapNo, KErrNone, KErrImapBad}
    BY DEF KErrImapNo, KErrNone, KErrCancel, KErrImapBad
  <2>5. err = KErrNone => Free(w.ses, w.rd)
    BY DEF JobTold
  <2> HIDE DEF err
  <2>. QED BY <2>1, <2>2, <2>3, <2>4, <2>5 DEF Replies
<1>7. ~Using(w.ses)
  BY OverUnused DEF JobTold
<1>3. v = PcComplete(y, err) \/ v = PcComplete(s, err)
  BY DEF OperationDone
<1>4. /\ y \in Good /\ y.ses = w.ses /\ y.rd = w.rd /\ y.fault = w.fault /\ y.ao = w.ao
      /\ y.idle = w.idle /\ y.inbox = w.inbox /\ y.pc = w.pc /\ y.job["Op"] = NoJob
  BY <1>0, <1>1, SetJobGives, NoJobTyped
<1> HIDE DEF y, v, err
<1>5. CASE v = PcComplete(y, err)
  <2> DEFINE a == Concluded(y, err)
  <2>1. y.pc.report /\ Still(y, "Idle")
    BY <1>1, <1>4 DEF NobodyIdle, Still
  <2>2. \/ v.fault = y.fault /\ GivenUp(v)
        \/ err \in {KErrNone, KErrCancel} /\ v = a
    BY <1>2, <1>4, <1>5, <2>1, PcCompleteGives
  <2>3. /\ a \in Good /\ a.ses = y.ses /\ a.rd = y.rd /\ a.fault = y.fault /\ a.ao = y.ao
        /\ a.idle = y.idle /\ a.job = y.job
        /\ a.pc.op = y.pc.op /\ ~a.pc.report /\ a.pc.online = y.pc.online
    BY <1>2, <1>4, ConcludedGives
  <2> HIDE DEF a
  <2>4. CASE v.fault = y.fault /\ GivenUp(v)
    BY <1>1, <1>4, <2>4 DEF Leads, Moves, Kept, GivenUp
  <2>5. CASE err \in {KErrNone, KErrCancel} /\ v = a
    <3>1. Free(a.ses, a.rd)
      BY <1>2, <1>4, <2>3, <2>5
    <3>2. NobodyIdle(a) /\ ~a.idle.report /\ Still(a, "Pc") /\ Still(a, "Op")
      BY <1>1, <1>4, <2>3 DEF NobodyIdle, Still
    <3>3. a.pc.op = "Op" /\ ~a.pc.report /\ a.job["Op"] = NoJob /\ a.fault = "None"
      BY <1>1, <1>4, <2>3
    <3>4. Users(a)
      BY <3>1, <3>2, <3>3 DEF Users
    <3>5. Finishes(a, w) /\ a.pc.online = w.pc.online
      BY <1>4, <1>7, <2>3 DEF Finishes, Unused
    <3>. QED BY <2>5, <3>3, <3>4, <3>5 DEF Leads, Moves, Kept
  <2>. QED BY <2>2, <2>4, <2>5
<1>6. CASE v = PcComplete(s, err)
  <2> DEFINE a == Concluded(s, err)
  <2>1. y.fault = "None" /\ Still(y, "Idle")
    BY <1>1, <1>4 DEF NobodyIdle, Still
  <2>2. /\ s \in Good /\ s.ses = y.ses /\ s.rd = y.rd /\ s.job = y.job
        /\ s.fault \in {"None", "UnexpectedStateAtStart"}
        /\ s.pc.op = "Idle" /\ s.pc.report = y.pc.report /\ s.pc.online = y.pc.online
        /\ s.idle.state = "StartingIdle" /\ s.idle.timer = y.idle.timer
        /\ s.idle.report = y.idle.report /\ ~s.idle.stopping
        /\ s.ao["Idle"].active /\ s.ao["Idle"].status = KErrNone
        /\ \A p \in Objects : p # "Idle" => s.ao[p].active = y.ao[p].active
        /\ \A p \in Objects : p # "Idle" => s.ao[p].status = y.ao[p].status
    BY <1>4, <2>1, PcStartIdleGives
  <2> HIDE DEF s
  <2>3. s.pc.report /\ ~Pending(s, "Idle")
    <3>1. KErrNone # KRequestPending
      BY CodeFacts, CodesAreStatuses
    <3>. QED BY <1>4, <2>2, <3>1 DEF Pending
  <2>4. \/ v.fault = s.fault /\ GivenUp(v)
        \/ err \in {KErrNone, KErrCancel} /\ v = a
    BY <1>2, <1>6, <2>2, <2>3, PcCompleteGives
  <2>5. /\ a \in Good /\ a.ses = s.ses /\ a.rd = s.rd /\ a.fault = s.fault /\ a.ao = s.ao
        /\ a.idle = s.idle /\ a.job = s.job
        /\ a.pc.op = s.pc.op /\ ~a.pc.report /\ a.pc.online = s.pc.online
    BY <1>2, <2>2, ConcludedGives
  <2> HIDE DEF a
  <2>6. CASE v.fault = s.fault /\ GivenUp(v)
    BY <2>2, <2>6 DEF Leads, Moves, Kept, Weak, GivenUp
  <2>7. CASE err \in {KErrNone, KErrCancel} /\ v = a
    <3>1. Free(a.ses, a.rd)
      BY <1>2, <1>4, <2>2, <2>5, <2>7
    <3>2. /\ a.ao["Pc"].active = w.ao["Pc"].active /\ a.ao["Op"].active = w.ao["Op"].active
          /\ a.ao["Folder"].active = w.ao["Folder"].active
          /\ a.ao["Child"].active = w.ao["Child"].active
          /\ a.ao["Idle"].active /\ a.ao["Idle"].status = KErrNone
      BY <1>0, <1>4, <2>2, <2>5
    <3>3. /\ Still(a, "Pc") /\ Still(a, "Op") /\ Still(a, "Folder") /\ Still(a, "Child")
          /\ ~a.idle.timer /\ ~a.idle.report
      BY <1>1, <1>4, <2>2, <2>5, <3>2 DEF NobodyIdle, Still
    <3>4. Watched(a) /\ a.idle.state = "StartingIdle"
      BY <1>4, <2>2, <2>5, <3>3 DEF Watched
    <3>5. Users(a)
      BY <3>1, <3>2, <3>3, <3>4, BegunUses
    <3>6. Kept(a)
      BY <2>2, <2>5, <3>5 DEF Kept, Weak
    <3>7. Finishes(a, w) /\ a.pc.online = w.pc.online
      BY <1>4, <1>7, <2>2, <2>5 DEF Finishes, Unused
    <3>. QED BY <2>7, <3>6, <3>7 DEF Leads, Moves
  <2>. QED BY <2>4, <2>6, <2>7
<1>. QED BY <1>3, <1>5, <1>6

LEMMA PcStepUses ==
  ASSUME NEW u \in Good, u.fault = "None", Users(u), u.ao["Pc"].active, ~Pending(u, "Pc")
  PROVE  Leads(PcDoRunL([u EXCEPT !.ao["Pc"].active = FALSE]), u)
<1> DEFINE w == [u EXCEPT !.ao["Pc"].active = FALSE]
           v == PcDoRunL(w)
<1> SUFFICES Leads(v, u)
  OBVIOUS
<1>0. {"Pc", "Op", "Idle", "Folder", "Child"} \subseteq Objects
  BY ObjectNames
<1>1. /\ w \in Good /\ Sight(w, u) /\ Rest(w, u) /\ ~w.ao["Pc"].active
      /\ \A p \in Objects : p # "Pc" => w.ao[p].active = u.ao[p].active
  BY <1>0, RunsGives
<1> HIDE DEF w
<1>2. w.idle = u.idle /\ w.job = u.job /\ w.pc = u.pc /\ w.fault = "None" /\ w.ses = u.ses
  BY <1>1 DEF Sight, Rest
<1>3. /\ Settled(w, "Pc") <=> Settled(u, "Pc")
      /\ JobTold(w, "Pc") <=> JobTold(u, "Pc")
      /\ Pending(w, "Pc") <=> Pending(u, "Pc")
  BY <1>0, <1>1, SightSame
<1>4. NobodyIdle(u) /\ ~u.idle.report /\ Still(u, "Op")
      /\ \/ /\ u.pc.op = "StopIdle" /\ u.pc.report /\ u.job["Op"].op.box \in Boxes
            /\ Settled(u, "Pc")
         \/ u.pc.op = "Op" /\ u.pc.report /\ JobTold(u, "Pc")
         \/ u.pc.op = "Recover" /\ ~u.pc.report /\ u.job["Op"] = NoJob /\ Settled(u, "Pc")
  BY DEF Users, Still, Flushes, Waits
<1>5. Turned(w)
  <2>1. /\ w.ao["Op"].active = u.ao["Op"].active /\ w.ao["Idle"].active = u.ao["Idle"].active
        /\ w.ao["Folder"].active = u.ao["Folder"].active
        /\ w.ao["Child"].active = u.ao["Child"].active
    BY <1>0, <1>1
  <2>. QED BY <1>1, <1>2, <1>4, <2>1 DEF Turned, NobodyIdle, Still
<1> DEFINE err == w.ao["Pc"].status
<1>6. v = CASE Fatal(err) -> PcError(w)
            [] ~Fatal(err) /\ w.pc.op = "StopIdle" -> StartRequested(w)
            [] ~Fatal(err) /\ w.pc.op = "Recover" -> PcStartIdle(w)
            [] OTHER -> OperationDone(w)
  BY DEF PcDoRunL
<1>7. Fatal(err) \in BOOLEAN
  BY DEF Fatal
<1> HIDE DEF v
<1>8. CASE Fatal(err)
  <2>1. v = PcError(w)
    BY <1>6, <1>8
  <2>2. /\ w.pc.op # "Recover" => w.pc.report
        /\ w.pc.op = "Recover" => ~w.pc.report
    BY <1>2, <1>4
  <2>3. v.fault = "None" /\ GivenUp(v)
    BY <1>1, <1>2, <1>5, <2>1, <2>2, PcErrorGives DEF Turned, NobodyIdle
  <2>. QED BY <2>3 DEF Leads, Moves, Kept, GivenUp
<1>9. CASE ~Fatal(err) /\ w.pc.op = "StopIdle"
  <2>1. v = StartRequested(w)
    BY <1>6, <1>9
  <2>2. Free(w.ses, w.rd)
    BY <1>2, <1>3, <1>4, <1>9 DEF Settled
  <2>3. w.pc.report /\ w.job["Op"].op.box \in Boxes
    BY <1>2, <1>4, <1>9
  <2>4. /\ v.fault = "None" /\ Users(v) /\ v.ses = w.ses
        /\ v.pc.op = "Op" /\ v.pc.report /\ v.pc.online = w.pc.online
    BY <1>1, <1>2, <1>5, <2>1, <2>2, <2>3, StartRequestedUses DEF Turned
  <2>5. Unused(v, u)
    BY <1>2, <2>2, <2>4, OverUnused DEF Unused, Free
  <2>6. HandsOver(v, u) /\ v.pc.online = u.pc.online
    BY <1>2, <1>9, <2>3, <2>4, <2>5 DEF HandsOver
  <2>. QED BY <2>4, <2>6 DEF Leads, Moves, Kept
<1>10. CASE ~Fatal(err) /\ w.pc.op = "Recover"
  <2>1. v = PcStartIdle(w)
    BY <1>6, <1>10
  <2>2. Free(w.ses, w.rd) /\ ~w.pc.report /\ w.job["Op"] = NoJob
    BY <1>2, <1>3, <1>4, <1>10 DEF Settled
  <2>3. Leads(v, w)
    BY <1>5, <1>10, <2>1, <2>2, RecoveredUses
  <2>. QED BY <1>2, <2>3, LeadsFrom
<1>11. CASE ~Fatal(err) /\ w.pc.op = "Op"
  <2>1. v = OperationDone(w)
    BY <1>6, <1>11
  <2>2. w.pc.report /\ JobTold(w, "Pc")
    BY <1>2, <1>3, <1>4, <1>11
  <2>3. Leads(v, w)
    BY <1>5, <1>11, <2>1, <2>2, OperationDoneUses
  <2>. QED BY <1>2, <2>3, LeadsFrom
<1>. QED BY <1>2, <1>4, <1>8, <1>9, <1>10, <1>11

\* The idle controller has been told to stop at once.
LEMMA IdleCancelled ==
  ASSUME NEW u \in Good, u.fault = "None", IdleUses(u), u.idle.report
  PROVE  LET d == Cancel(u, "Idle", IdleDoCancel(u))
         IN /\ d \in Good /\ d.fault = "None" /\ NobodyIdle(d) /\ ~d.idle.report
            /\ ~Pending(d, "Pc") /\ d.ao["Pc"].active = u.ao["Pc"].active
            /\ d.ao["Op"].active = u.ao["Op"].active
            /\ Off(d.ses, d.rd) \/ Held(d.ses, d.rd)
            /\ d.pc = u.pc /\ SameKind(d, u)
<1> DEFINE c == IdleInternalCancel(u)
           k == IdleComplete(c, KErrCancel)
           f == [k EXCEPT !.idle.state = "Finished"]
           d == Cancel(u, "Idle", IdleDoCancel(u))
<1>0. {"Pc", "Op", "Idle", "Folder", "Child"} \subseteq Objects /\ KErrCancel \in Statuses
      /\ KErrCancel # KRequestPending /\ "Finished" \in IdleStates
  BY ObjectNames, CodesAreStatuses, CodeFacts DEF IdleStates
<1>1. IdleDoCancel(u) = f
  BY DEF IdleDoCancel
<1>2. Ceased(c, u) /\ SameKind(c, u)
  BY IdleCeases, IdleCancelAlike DEF Good
<1> HIDE DEF c
<1>3. /\ c \in Good /\ c.fault = "None" /\ ~c.idle.timer /\ c.idle.report /\ c.pc = u.pc
      /\ ~c.ao["Folder"].active /\ ~c.ao["Child"].active /\ c.ao["Idle"].status # KRequestPending
      /\ c.ao["Pc"].active = u.ao["Pc"].active /\ c.ao["Op"].active = u.ao["Op"].active
      /\ Off(c.ses, c.rd) \/ Held(c.ses, c.rd)
  BY <1>2 DEF Ceased, Frame, Still, Pending
<1>4. /\ k \in Good /\ k.ses = c.ses /\ k.rd = c.rd /\ k.fault = c.fault
      /\ k.pc = c.pc /\ k.job = c.job
      /\ k.idle.timer = c.idle.timer /\ ~k.idle.report
      /\ \A o \in Objects : k.ao[o].active = c.ao[o].active
      /\ \A o \in Objects : o # "Pc" => k.ao[o].status = c.ao[o].status
      /\ k.ao["Pc"].status = KErrCancel
  BY <1>0, <1>3, IdleCompleteGives
<1> HIDE DEF k
<1>5. /\ f \in Good /\ Sight(f, k) /\ Frame(f, k) /\ f.ao = k.ao /\ f.idle.timer = k.idle.timer
  BY <1>0, <1>4, SetStateGives
<1> HIDE DEF f
<1>6. f.ao["Idle"].status # KRequestPending /\ u.ao["Idle"].active
  BY <1>0, <1>3, <1>4, <1>5 DEF IdleUses
<1>7. /\ d \in Good /\ Sight(d, f) /\ Rest(d, f) /\ ~d.ao["Idle"].active
      /\ \A p \in Objects : p # "Idle" => d.ao[p].active = f.ao[p].active
  BY <1>0, <1>1, <1>5, <1>6, CancelsGives
<1> HIDE DEF d
<1>8. /\ d.ses = c.ses /\ d.rd = c.rd /\ d.fault = "None" /\ d.pc = u.pc
      /\ ~d.idle.timer /\ ~d.idle.report
  BY <1>3, <1>4, <1>5, <1>7 DEF Sight, Rest, Frame
<1>9. /\ d.ao["Pc"].active = u.ao["Pc"].active /\ d.ao["Op"].active = u.ao["Op"].active
      /\ ~d.ao["Folder"].active /\ ~d.ao["Child"].active /\ ~d.ao["Idle"].active
      /\ d.ao["Pc"].status = KErrCancel
  BY <1>0, <1>3, <1>4, <1>5, <1>7 DEF Sight
<1>10. /\ d \in Good /\ d.fault = "None" /\ NobodyIdle(d) /\ ~d.idle.report
       /\ ~Pending(d, "Pc") /\ d.ao["Pc"].active = u.ao["Pc"].active
       /\ d.ao["Op"].active = u.ao["Op"].active
       /\ Off(d.ses, d.rd) \/ Held(d.ses, d.rd)
       /\ d.pc = u.pc /\ SameKind(d, u)
  BY <1>0, <1>2, <1>3, <1>7, <1>8, <1>9 DEF NobodyIdle, Still, Pending, SameKind
<1>. QED BY <1>10 DEF d

\* What the controller has told to stop before it answers the client
Dropped(u) ==
  IF u.pc.op = "StopIdle" THEN Cancel(u, "Idle", IdleDoCancel(u))
  ELSE Cancel(u, "Op", JobDoCancel(u, "Op"))

LEMMA DroppedGives ==
  ASSUME NEW u \in Good, u.fault = "None", Users(u), u.pc.report
  PROVE  LET d == Dropped(u)
         IN /\ d \in Good /\ d.fault = "None" /\ NobodyIdle(d) /\ ~d.idle.report
            /\ Still(d, "Op") /\ ~Pending(d, "Pc")
            /\ Off(d.ses, d.rd) \/ Held(d.ses, d.rd)
            /\ d.pc = u.pc /\ u.ao["Pc"].active /\ SameKind(d, u)
<1> DEFINE d == Dropped(u)
           G == /\ d \in Good /\ d.fault = "None" /\ NobodyIdle(d) /\ ~d.idle.report
                /\ Still(d, "Op") /\ ~Pending(d, "Pc")
                /\ Off(d.ses, d.rd) \/ Held(d.ses, d.rd)
                /\ d.pc = u.pc /\ u.ao["Pc"].active /\ SameKind(d, u)
<1> SUFFICES G
  OBVIOUS
<1>0. {"Pc", "Op", "Idle", "Folder", "Child"} \subseteq Objects /\ "Op" \in Compounds
      /\ KErrCancel # KRequestPending /\ Starter("Op") = "Pc"
  BY ObjectNames, CodesAreStatuses, CodeFacts DEF Compounds, Starter
<1> HIDE DEF d
<1>1. CASE u.pc.op = "StopIdle" /\ u.idle.report /\ IdleUses(u)
  <2>1. d = Cancel(u, "Idle", IdleDoCancel(u))
    BY <1>1 DEF d, Dropped
  <2>2. /\ d \in Good /\ d.fault = "None" /\ NobodyIdle(d) /\ ~d.idle.report
        /\ ~Pending(d, "Pc") /\ d.ao["Pc"].active = u.ao["Pc"].active
        /\ d.ao["Op"].active = u.ao["Op"].active
        /\ Off(d.ses, d.rd) \/ Held(d.ses, d.rd)
        /\ d.pc = u.pc /\ SameKind(d, u)
    BY <1>1, <2>1, IdleCancelled
  <2>3. Still(u, "Op") /\ u.ao["Pc"].active
    BY <1>1 DEF Users
  <2>. QED BY <2>2, <2>3 DEF Still
<1>2. CASE u.pc.op = "StopIdle" /\ ~u.idle.report
  <2>1. NobodyIdle(u) /\ Settled(u, "Pc") /\ Still(u, "Op") /\ u.ao["Pc"].active
    BY <1>2 DEF Users
  <2>2. d = u
    BY <1>2, <2>1 DEF d, Dropped, Cancel, Active, NobodyIdle, Still
  <2>. QED BY <1>2, <2>1, <2>2 DEF Settled, SameKind
<1>3. CASE u.pc.op = "Op" /\ JobUses(u, "Op")
  <2>1. d = Cancel(u, "Op", JobDoCancel(u, "Op"))
    BY <1>3 DEF d, Dropped
  <2>2. /\ d \in Good /\ d.fault = "None" /\ Off(d.ses, d.rd)
        /\ d.idle = u.idle /\ d.pc = u.pc
        /\ ~d.ao["Op"].active
        /\ \A p \in Objects : p # "Op" => d.ao[p].active = u.ao[p].active
        /\ d.ao[Starter("Op")].status = KErrCancel
    BY <1>0, <1>3, <2>1, JobCancelGives
  <2>5. SameKind(d, u)
    BY <1>0, <2>1, JobCancelAlike, DeactivatedAlike DEF Good
  <2>3. NobodyIdle(u) /\ ~u.idle.report /\ u.ao["Pc"].active
    BY <1>3 DEF Users
  <2>4. NobodyIdle(d)
    BY <1>0, <2>2, <2>3 DEF NobodyIdle, Still
  <2>. QED BY <1>0, <2>2, <2>3, <2>4, <2>5 DEF Still, Pending
<1>4. CASE u.pc.op = "Op" /\ ~JobUses(u, "Op")
  <2>1. NobodyIdle(u) /\ ~u.idle.report /\ u.ao["Pc"].active /\ Still(u, "Op") /\ JobTold(u, "Pc")
    BY <1>4 DEF Users
  <2>2. d = u
    BY <1>4, <2>1 DEF d, Dropped, Cancel, Active, Still
  <2>. QED BY <2>1, <2>2 DEF JobTold, Off, SameKind
<1>. QED BY <1>1, <1>2, <1>3, <1>4 DEF Users

LEMMA CancelUses ==
  ASSUME NEW u \in Good, u.fault = "None", Users(u), u.pc.report, MayCancel
  PROVE  Leads(CancelAndCleanup(u), u)
<1> DEFINE d == Dropped(u)
           x == [d EXCEPT !.job["Op"] = NoJob]
           a == Concluded(x, KErrCancel)
           c == Cancel(u, "Pc", PcDoCancel(u))
           r == [c EXCEPT !.pc.op = "Recover"]
           f == FlushCancelledCommand(r, "Pc")
           v == SetActive(f, "Pc")
<1> SUFFICES Leads(v, u)
  BY DEF CancelAndCleanup
<1>0. {"Pc", "Op", "Idle", "Folder", "Child"} \subseteq Objects /\ "Op" \in Compounds
      /\ KErrCancel \in Replies
  BY ObjectNames DEF Compounds, Replies
<1>1. /\ d \in Good /\ d.fault = "None" /\ NobodyIdle(d) /\ ~d.idle.report
      /\ Still(d, "Op") /\ ~Pending(d, "Pc")
      /\ Off(d.ses, d.rd) \/ Held(d.ses, d.rd)
      /\ d.pc = u.pc /\ u.ao["Pc"].active /\ SameKind(d, u)
  BY DroppedGives
<1>2. PcDoCancel(u) = PcComplete(x, KErrCancel)
  BY DEF PcDoCancel, Dropped
<1> HIDE DEF d
<1>3. /\ x \in Good /\ x.ses = d.ses /\ x.rd = d.rd /\ x.fault = d.fault /\ x.ao = d.ao
      /\ x.idle = d.idle /\ x.inbox = d.inbox /\ x.pc = d.pc /\ x.job["Op"] = NoJob
  BY <1>0, <1>1, SetJobGives, NoJobTyped
<1> HIDE DEF x
<1>4. PcDoCancel(u) = a
  <2>1. x.pc.report
    BY <1>1, <1>3
  <2>. QED BY <1>2, <2>1 DEF PcComplete, Concluded
<1>5. /\ a \in Good /\ a.ses = x.ses /\ a.rd = x.rd /\ a.fault = x.fault /\ a.ao = x.ao
      /\ a.idle = x.idle /\ a.job = x.job /\ ~a.pc.report
      /\ a.pc.online = x.pc.online
  BY <1>0, <1>3, ConcludedGives
<1> HIDE DEF a
<1>6. /\ c \in Good /\ Sight(c, a) /\ Rest(c, a) /\ ~c.ao["Pc"].active
      /\ \A p \in Objects : p # "Pc" => c.ao[p].active = a.ao[p].active
  <2>1. a.ao["Pc"].status # KRequestPending
    BY <1>1, <1>3, <1>5 DEF Pending
  <2>. QED BY <1>0, <1>1, <1>4, <1>5, <2>1, CancelsGives
<1> HIDE DEF c
<1>7. /\ r \in Good /\ r.ses = c.ses /\ r.rd = c.rd /\ r.fault = c.fault /\ r.ao = c.ao
      /\ r.idle = c.idle /\ r.job = c.job /\ r.pc.op = "Recover" /\ r.pc.report = c.pc.report
      /\ r.pc.online = c.pc.online
  BY <1>6, SetPcOpGives
<1> HIDE DEF r
<1>8. /\ r.ses = d.ses /\ r.rd = d.rd /\ r.fault = "None" /\ r.idle = d.idle
      /\ r.job["Op"] = NoJob /\ ~r.pc.report /\ r.pc.online = u.pc.online
  BY <1>1, <1>3, <1>5, <1>6, <1>7 DEF Sight, Rest
<1>9. /\ r.ao["Op"].active = d.ao["Op"].active /\ r.ao["Idle"].active = d.ao["Idle"].active
      /\ r.ao["Folder"].active = d.ao["Folder"].active
      /\ r.ao["Child"].active = d.ao["Child"].active
  BY <1>0, <1>3, <1>5, <1>6, <1>7
<1>10. CASE Held(d.ses, d.rd)
  <2>1. f.fault = "SessionCommandNotFlushing"
    BY <1>0, <1>7, <1>8, <1>10, FlushRefused
  <2>2. f \in World
    BY <1>0, <1>7, GoodFlush DEF Good
  <2> HIDE DEF f
  <2>3. v.fault = f.fault
    BY <1>0, <2>2, SetActiveGives DEF Sight
  <2>. QED BY <2>1, <2>3 DEF Leads, Kept, Weak
<1>11. CASE Off(d.ses, d.rd)
  <2>1. Only(f, r, "Pc") /\ (Flushes(f, "Pc") \/ Settled(f, "Pc"))
       /\ (Using(f.ses) <=> Using(r.ses))
    BY <1>0, <1>7, <1>8, <1>11, FlushGives
  <2> HIDE DEF f
  <2>2. /\ f \in World /\ f.fault = "None" /\ f.idle = r.idle /\ f.job = r.job /\ f.pc = r.pc
        /\ \A p \in Objects : f.ao[p].active = r.ao[p].active
    BY <2>1 DEF Only, Good, Rest, Marked
  <2>3. Sight(v, f) /\ Rest(v, f) /\ Activated(v, f, "Pc")
    BY <1>0, <2>2, SetActiveGives
  <2> HIDE DEF v
  <2>4. /\ v.fault = "None" /\ v.idle = d.idle /\ v.job["Op"] = NoJob /\ v.pc.op = "Recover"
        /\ ~v.pc.report /\ v.pc.online = u.pc.online /\ v.ses = f.ses
    BY <1>7, <1>8, <2>2, <2>3 DEF Sight, Rest
  <2>5. /\ v.ao["Op"].active = d.ao["Op"].active /\ v.ao["Idle"].active = d.ao["Idle"].active
        /\ v.ao["Folder"].active = d.ao["Folder"].active
        /\ v.ao["Child"].active = d.ao["Child"].active /\ v.ao["Pc"].active
    BY <1>0, <1>9, <2>2, <2>3 DEF Activated
  <2>6. Flushes(v, "Pc") \/ Settled(v, "Pc")
    BY <1>0, <2>1, <2>3, SightSame
  <2>7. NobodyIdle(v) /\ Still(v, "Op")
    BY <1>1, <2>4, <2>5 DEF NobodyIdle, Still
  <2>8. Users(v)
    BY <1>1, <2>4, <2>5, <2>6, <2>7 DEF Users
  <2>9. Using(v.ses) <=> Using(u.ses)
    BY <1>1, <1>8, <2>1, <2>4 DEF SameKind, Using
  <2>10. Abandons(v, u)
    BY <2>4, <2>9 DEF Abandons
  <2>. QED BY <2>4, <2>8, <2>10 DEF Leads, Moves, Kept
<1>. QED BY <1>1, <1>10, <1>11

-----------------------------------------------------------------------------
(* The users: every step                                                   *)

LEMMA ProgressKept ==
  ASSUME NEW w \in Good, w.fault = "None", Users(w), NEW who \in Objects, Waits(w, who), NEW v, Progress(v, w, who)
  PROVE  Leads(v, w)
<1>1. Kept(v)
  BY UsersProgress, ProgressActive DEF Kept
<1>2. v.pc = w.pc
  BY ProgressActive DEF Rest
<1>3. w.ses.cmd.kind # "None"
  BY WaitsFields, BusyFields DEF Shaped
<1>4. w.pc.op = "Recover" => Using(w.ses)
  <2>1. w.pc.op = "Recover" => Flushes(w, "Pc")
    BY DEF Users, Settled, Off, Over, Resting, Lost, Left, Calm, Waits, Serving
  <2>. QED BY <1>3, <2>1 DEF Using, Flushes
<1>. QED BY <1>1, <1>2, <1>4, LeadsOn

LEMMA SameKept ==
  ASSUME NEW v, NEW w, Users(w), v.ses = w.ses, v.rd = w.rd, v.ao = w.ao, Rest(v, w),
         v.fault = "None"
  PROVE  Leads(v, w)
<1>1. Kept(v)
  BY UsersSame DEF Kept
<1>. QED BY <1>1, LeadsOn DEF Rest

LEMMA WhoWaits ==
  ASSUME NEW w, Users(w),
         w.ses.async \/ w.ses.flushTimer \/ w.rd.ready \/ w.rd.timer \/ Receiving(w)
  PROVE  \E who \in Objects : Waits(w, who)
  BY SomebodyOrPeace, Peace

LEMMA SessionKept ==
  ASSUME NEW w \in Good, w.fault = "None", Users(w)
  PROVE  /\ w.ses.async => Leads(AsyncCallBack(w), w)
         /\ w.ses.flushTimer => Leads(FlushTimeout(w), w)
         /\ w.rd.ready => Leads(ReaderRunL(w), w)
         /\ w.rd.timer => Leads(ReaderTimeout(w), w)
         /\ Receiving(w) => /\ Leads(ReceiveFailed(w), w)
                            /\ \A k \in 1 .. Len(w.net.wire) : Leads(Received(w, k), w)
<1>1. ASSUME w.ses.async PROVE Leads(AsyncCallBack(w), w)
  <2>1. PICK who \in Objects : Waits(w, who)
    BY <1>1, WhoWaits
  <2>. QED BY <1>1, <2>1, AsyncGives, ProgressKept
<1>2. ASSUME w.ses.flushTimer PROVE Leads(FlushTimeout(w), w)
  <2>1. PICK who \in Objects : Waits(w, who)
    BY <1>2, WhoWaits
  <2>. QED BY <1>2, <2>1, FlushTimeoutGives, ProgressKept
<1>3. ASSUME w.rd.ready PROVE Leads(ReaderRunL(w), w)
  <2>1. PICK who \in Objects : Waits(w, who)
    BY <1>3, WhoWaits
  <2>. QED BY <1>3, <2>1, ReaderGives, ProgressKept
<1>4. ASSUME w.rd.timer PROVE Leads(ReaderTimeout(w), w)
  <2>1. PICK who \in Objects : Waits(w, who)
    BY <1>4, WhoWaits
  <2>. QED BY <1>4, <2>1, ReaderTimeoutGives, ProgressKept
<1>5. ASSUME Receiving(w)
      PROVE  Leads(ReceiveFailed(w), w) /\ \A k \in 1 .. Len(w.net.wire) : Leads(Received(w, k), w)
  <2>1. PICK who \in Objects : Waits(w, who)
    BY <1>5, WhoWaits
  <2>2. Leads(ReceiveFailed(w), w)
    <3>1. Progress(ReceiveFailed(w), w, who)
      BY <1>5, <2>1, ReceiveFailedGives DEF Progress
    <3>. QED BY <2>1, <3>1, ProgressKept
  <2>3. ASSUME NEW k \in 1 .. Len(w.net.wire) PROVE Leads(Received(w, k), w)
    <3>1. Progress(Received(w, k), w, who)
      BY <1>5, <2>1, ReceivedGives DEF Progress
    <3>. QED BY <2>1, <3>1, ProgressKept
  <2>. QED BY <2>2, <2>3
<1>. QED BY <1>1, <1>2, <1>3, <1>4, <1>5

\* What runs was ready to run.
LEMMA RunsReady ==
  ASSUME Now \in Good, NEW o \in Objects, Runnable(o)
  PROVE  /\ Now.ao[o].active /\ ~Pending(Now, o)
         /\ Run(o) = [Now EXCEPT !.ao[o].active = FALSE] /\ Run(o) \in Good
  BY GoodIsClosed, RunStays DEF Runnable, Now, Pending, Run

\* Whatever happens next, nobody is surprised by what he finds on the session.
LEMMA KeptStep ==
  ASSUME Now \in Good, Kept(Now), Next
  PROVE  \E v \in Good : Becomes(v) /\ Leads(v, Now)
<1> DEFINE w == Now
           Holds == \E v \in Good : Becomes(v) /\ Leads(v, w)
<1>0. /\ w \in Good /\ w.idle = idle /\ w.net = net /\ w.ses = ses /\ w.rd = rd /\ w.ao = ao
      /\ w.pc = pc /\ w.fault = fault
  BY DEF Now
<1>00. {"Pc", "Op", "Idle", "Folder", "Child"} \subseteq Objects /\ Compounds \subseteq Objects
       /\ {"Op", "Child"} \subseteq Compounds
  BY ObjectNames DEF Compounds
<1>u. ASSUME Alive PROVE w.fault = "None" /\ Users(w)
  <2>1. w.fault = "None" /\ w.pc.online
    BY <1>0, <1>u DEF Alive
  <2>2. w.fault \notin Weak
    BY <2>1 DEF Weak
  <2>. QED BY <2>1, <2>2 DEF Kept
<1>1. ASSUME IdleRunL PROVE Holds
  <2>1. Alive /\ Runnable("Idle") /\ Becomes(IdleStep(Run("Idle")))
    BY <1>1 DEF IdleRunL, IdleReady
  <2>2. IdleStep(Run("Idle")) \in Good
    BY <1>00, <2>1, RunsReady, GoodIsClosed, IdleStepStays
  <2>3. Leads(IdleStep(Run("Idle")), w)
    BY <1>00, <1>u, <2>1, RunsReady, IdleStepUses
  <2>. QED BY <2>1, <2>2, <2>3
<1>2. ASSUME FolderRunL PROVE Holds
  <2>1. Alive /\ Runnable("Folder") /\ Becomes(FolderDoRunL(Run("Folder")))
    BY <1>2 DEF FolderRunL, FolderReady
  <2>2. FolderDoRunL(Run("Folder")) \in Good
    BY <1>00, <2>1, RunsReady, GoodIsClosed, FolderRunStays
  <2>3. Leads(FolderDoRunL(Run("Folder")), w)
    BY <1>00, <1>u, <2>1, RunsReady, FolderStepUses
  <2>. QED BY <2>1, <2>2, <2>3
<1>3. ASSUME ChildRunL PROVE Holds
  <2>1. Alive /\ Runnable("Child") /\ Becomes(JobDoRunL(Run("Child"), "Child"))
    BY <1>3 DEF ChildRunL, ChildReady
  <2>2. JobDoRunL(Run("Child"), "Child") \in Good
    BY <1>00, <2>1, RunsReady, GoodIsClosed, JobRunStays
  <2>3. Leads(JobDoRunL(Run("Child"), "Child"), w)
    BY <1>00, <1>u, <2>1, RunsReady, ChildStepUses
  <2>. QED BY <2>1, <2>2, <2>3
<1>4. ASSUME OpRunL PROVE Holds
  <2>1. Alive /\ Runnable("Op") /\ Becomes(JobDoRunL(Run("Op"), "Op"))
    BY <1>4 DEF OpRunL, OpReady
  <2>2. JobDoRunL(Run("Op"), "Op") \in Good
    BY <1>00, <2>1, RunsReady, GoodIsClosed, JobRunStays
  <2>3. Leads(JobDoRunL(Run("Op"), "Op"), w)
    BY <1>00, <1>u, <2>1, RunsReady, OpStepUses
  <2>. QED BY <2>1, <2>2, <2>3
<1>5. ASSUME PcRunL PROVE Holds
  <2>1. Alive /\ Runnable("Pc") /\ Becomes(PcDoRunL(Run("Pc")))
    BY <1>5 DEF PcRunL, PcReady
  <2>2. PcDoRunL(Run("Pc")) \in Good
    BY <1>00, <2>1, RunsReady, GoodIsClosed, PcRunStays
  <2>3. Leads(PcDoRunL(Run("Pc")), w)
    BY <1>00, <1>u, <2>1, RunsReady, PcStepUses
  <2>. QED BY <2>1, <2>2, <2>3
<1>6. ASSUME ReadRunL PROVE Holds
  <2>1. Alive /\ w.rd.ready /\ Becomes(ReaderRunL(w))
    BY <1>0, <1>6 DEF ReadRunL, ReadReady
  <2>. QED BY <1>0, <1>u, <2>1, GoodIsClosed, CallbacksStay, SessionKept
<1>7. ASSUME CallBackRunL PROVE Holds
  <2>1. Alive /\ w.ses.async /\ Becomes(AsyncCallBack(w))
    BY <1>0, <1>7 DEF CallBackRunL, CallBackReady
  <2>. QED BY <1>0, <1>u, <2>1, GoodIsClosed, CallbacksStay, SessionKept
<1>8. ASSUME IdleLeaves PROVE Holds
  <2>1. Alive /\ Runnable("Idle") /\ Becomes(IdleComplete(Run("Idle"), KErrNoMemory))
        /\ w.ao["Idle"].status = KErrNone /\ ~w.idle.stopping
        /\ w.idle.state \notin {"WaitingForContinuation", "Idling"}
    BY <1>0, <1>8 DEF IdleLeaves
  <2>2. IdleComplete(Run("Idle"), KErrNoMemory) \in Good
    BY <1>00, <2>1, RunsReady, GoodIsClosed, IdleCompleteStays, CodesAreStatuses
  <2>3. Leads(IdleComplete(Run("Idle"), KErrNoMemory), w)
    BY <1>00, <1>u, <2>1, RunsReady, IdleLeavesUses
  <2>. QED BY <2>1, <2>2, <2>3
<1>9. ASSUME ReissueTimer PROVE Holds
  <2> DEFINE u == [Now EXCEPT !.idle.timer = FALSE]
             v == CASE idle.state = "Idling" -> CancelThenDone(u)
                    [] idle.state = "WaitingForServerEvent" -> CancelThenFlush(u)
                    [] OTHER -> u
  <2>1. Alive /\ w.idle.timer /\ Becomes(v)
    BY <1>0, <1>9 DEF ReissueTimer
  <2>2. w.idle.state = "Idling" /\ Leads(CancelThenDone([w EXCEPT !.idle.timer = FALSE]), w)
    BY <1>0, <1>u, <2>1, ReissueUses
  <2>3. u = [w EXCEPT !.idle.timer = FALSE]
    OBVIOUS
  <2> HIDE DEF w
  <2>4. u \in Good
    BY <1>0, <2>3, GoodIsClosed, SetIdleTimer
  <2>5. CancelThenDone(u) \in Good
    <3> HIDE DEF u
    <3>. QED BY <2>4, GoodIsClosed, StopStays
  <2>6. v = CancelThenDone(u)
    BY <1>0, <2>2
  <2>. QED BY <2>1, <2>2, <2>3, <2>5, <2>6
<1>10. ASSUME FlushTimer PROVE Holds
  <2>1. Alive /\ w.ses.flushTimer /\ Becomes(FlushTimeout(w))
    BY <1>0, <1>10 DEF FlushTimer
  <2>. QED BY <1>0, <1>u, <2>1, GoodIsClosed, CallbacksStay, SessionKept
<1>11. ASSUME ReaderTimer PROVE Holds
  <2>1. Alive /\ w.rd.timer /\ Becomes(ReaderTimeout(w))
    BY <1>0, <1>11 DEF ReaderTimer
  <2>. QED BY <1>0, <1>u, <2>1, GoodIsClosed, CallbacksStay, SessionKept
<1>12. ASSUME Receive PROVE Holds
  <2>1. PICK k \in 1 .. Len(net.wire) : Becomes(Received(Now, k))
    BY <1>12 DEF Receive
  <2>2. k \in 1 .. Len(w.net.wire) /\ Alive /\ Receiving(w)
    BY <1>0, <1>12 DEF Receive, DataReady
  <2>3. Becomes(Received(w, k))
    BY <2>1
  <2> HIDE DEF w
  <2>4. Received(w, k) \in Good /\ Leads(Received(w, k), w)
    BY <1>0, <1>u, <2>2, GoodIsClosed, CallbacksStay, SessionKept
  <2>. QED BY <2>3, <2>4
<1>13. ASSUME ReceiveFails PROVE Holds
  <2>1. Alive /\ Receiving(w) /\ Becomes(ReceiveFailed(w))
    BY <1>0, <1>13 DEF ReceiveFails, FailureReady
  <2>. QED BY <1>0, <1>u, <2>1, GoodIsClosed, CallbacksStay, SessionKept
<1>14. ASSUME ServerAnswers PROVE Holds
  <2>1. PICK n \in Answers(net) : Becomes([Now EXCEPT !.net = n])
    BY <1>14 DEF ServerAnswers
  <2> DEFINE v == [w EXCEPT !.net = n]
  <2>2. n \in Answers(w.net) /\ w.net.out # <<>> /\ Alive
    BY <1>0, <1>14 DEF ServerAnswers, ServerReady
  <2>3. Becomes(v)
    BY <2>1
  <2> HIDE DEF w
  <2>4. v \in Good
    BY <1>0, <2>2, GoodIsClosed, SurroundingsStay, ZenonT(60)
  <2>5. v.ses = w.ses /\ v.rd = w.rd /\ v.ao = w.ao /\ v.fault = w.fault /\ Rest(v, w)
    BY <1>0 DEF Good, World, Rest
  <2> HIDE DEF v
  <2>. QED BY <1>u, <2>2, <2>3, <2>4, <2>5, SameKept
<1>15. ASSUME MessageArrives PROVE Holds
  <2> DEFINE v == [w EXCEPT !.net = NewMessage(w.net)]
  <2>1. Alive /\ w.net.exists < MaxExists /\ Becomes(v)
    BY <1>0, <1>15 DEF MessageArrives
  <2> HIDE DEF w
  <2>4. v \in Good
    BY <1>0, <2>1, GoodIsClosed, SurroundingsStay, ZenonT(60)
  <2>5. v.ses = w.ses /\ v.rd = w.rd /\ v.ao = w.ao /\ v.fault = w.fault /\ Rest(v, w)
    BY <1>0 DEF Good, World, Rest
  <2> HIDE DEF v
  <2>. QED BY <1>u, <2>1, <2>4, <2>5, SameKept
<1>16. ASSUME NetworkFails PROVE Holds
  <2>1. PICK wire \in {net.wire, <<>>} :
          Becomes([Now EXCEPT !.net.up = FALSE, !.net.wire = wire, !.net.out = <<>>])
    BY <1>16 DEF NetworkFails
  <2> DEFINE v == [w EXCEPT !.net.up = FALSE, !.net.wire = wire, !.net.out = <<>>]
  <2>2. wire \in {w.net.wire, <<>>} /\ Alive
    BY <1>0, <1>16 DEF NetworkFails
  <2>3. Becomes(v)
    BY <2>1
  <2> HIDE DEF w
  <2>4. v \in Good
    BY <1>0, <2>2, GoodIsClosed, SurroundingsStay, ZenonT(60)
  <2>5. v.ses = w.ses /\ v.rd = w.rd /\ v.ao = w.ao /\ v.fault = w.fault /\ Rest(v, w)
    BY <1>0 DEF Good, World, Rest
  <2> HIDE DEF v
  <2>. QED BY <1>u, <2>2, <2>3, <2>4, <2>5, SameKept
<1>17. ASSUME ClientAsks PROVE Holds
  <2>1. PICK op \in Ops : Becomes(Request(w, op))
    BY <1>17 DEF ClientAsks
  <2>2. Alive /\ ~w.pc.report /\ w.pc.op # "Recover"
    BY <1>0, <1>17 DEF ClientAsks
  <2>. QED BY <1>0, <1>u, <2>1, <2>2, GoodIsClosed, RequestStays, RequestUses
<1>18. ASSUME ClientCancels PROVE Holds
  <2>1. Alive /\ MayCancel /\ w.pc.report /\ Becomes(CancelAndCleanup(w))
    BY <1>0, <1>18 DEF ClientCancels
  <2>. QED BY <1>0, <1>u, <2>1, GoodIsClosed, CancelAndCleanupStays, CancelUses
<1> HIDE DEF Holds
<1>19. Holds
  BY <1>1, <1>2, <1>3, <1>4, <1>5, <1>6, <1>7, <1>8, <1>9, <1>10, <1>11, <1>12, <1>13, <1>14,
     <1>15, <1>16, <1>17, <1>18, ZenonT(60) DEF Next, Internal
<1>. QED BY <1>19 DEF Holds

LEMMA NextKept ==
  ASSUME Now \in Good, Kept(Now), Next
  PROVE  (Kept(Now))'
<1>1. PICK v \in Good : Becomes(v) /\ Kept(v)
  BY KeptStep DEF Leads
<1>2. Now \in World /\ v \in World
  BY DEF Good
<1>3. /\ v.fault = "None" => Now' = v
      /\ v.fault # "None" => fault' = v.fault
  BY <1>1, <1>2, BecomesWorld
<1>4. Now'.fault = fault'
  BY DEF Now
<1>5. CASE v.fault = "None"
  <2>1. Kept(Now')
    BY <1>1, <1>3, <1>5
  <2>. QED BY <2>1 DEF Kept, Users
<1>6. CASE v.fault # "None"
  <2>1. v.fault \in Weak
    BY <1>1, <1>6 DEF Kept
  <2>2. Now'.fault \in Weak
    BY <1>3, <1>4, <1>6, <2>1
  <2>. QED BY <2>2 DEF Kept
<1>. QED BY <1>5, <1>6

LEMMA StutterKept == ASSUME Now \in World, Kept(Now), UNCHANGED vars PROVE (Kept(Now))'
<1>1. Now' = Now
  BY StutterTyped
<1>2. Kept(Now')
  BY <1>1
<1>. QED BY <1>2 DEF Kept, Users

\* At first the idle controller is about to use a session that nobody has used.
LEMMA InitKept == ASSUME Init PROVE Kept(Now)
<1> DEFINE w == Now
<1>1. /\ w.ses = NewSession /\ w.rd = NewReader /\ w.fault = "None" /\ w.job["Op"] = NoJob
      /\ w.idle.state = "StartingIdle" /\ ~w.idle.stopping /\ ~w.idle.report /\ ~w.idle.timer
      /\ w.pc.op = "Idle" /\ ~w.pc.report
  BY DEF Init, Now
<1>2. /\ w.ao["Idle"].active /\ w.ao["Idle"].status = KErrNone
      /\ Still(w, "Folder") /\ Still(w, "Child") /\ Still(w, "Op") /\ Still(w, "Pc")
  <2>1. w.ao = [o \in Objects |-> [active |-> o = "Idle", status |-> KErrNone]]
    BY DEF Init, Now
  <2> HIDE DEF w
  <2>2. \A o \in Objects : w.ao[o] = [active |-> o = "Idle", status |-> KErrNone]
    BY <2>1
  <2>3. /\ w.ao["Idle"] = [active |-> TRUE, status |-> KErrNone]
        /\ \A o \in {"Folder", "Child", "Op", "Pc"} :
             w.ao[o] = [active |-> FALSE, status |-> KErrNone]
    <3>1. ("Idle" = "Idle") = TRUE /\ \A o \in {"Folder", "Child", "Op", "Pc"} : (o = "Idle") = FALSE
      OBVIOUS
    <3>2. {"Idle", "Folder", "Child", "Op", "Pc"} \subseteq Objects
      BY ObjectNames
    <3>. QED BY ONLY <2>2, <3>1, <3>2, Zenon
  <2>. QED BY ONLY <2>3 DEF Still
<1>3. /\ w.ses.open /\ w.ses.report = "None" /\ ~w.ses.async /\ ~w.ses.flushTimer
      /\ w.ses.cmd = NoCmd /\ w.ses.pending = "None" /\ w.ses.folder = NoFolder
      /\ w.rd.state = "Idle" /\ ~w.rd.ready /\ ~w.rd.failed /\ ~w.rd.timer /\ ~w.rd.limit
  BY <1>1 DEF NewSession, NewReader
<1> HIDE DEF w
<1>4. Free(w.ses, w.rd)
  BY <1>3 DEF Free, Over, Resting, Calm, Limited
<1>5. IdleUses(w)
  BY <1>1, <1>2, <1>4 DEF IdleUses
<1>6. Users(w)
  BY <1>1, <1>2, <1>5 DEF Users
<1>. QED BY <1>1, <1>6 DEF Kept, w

\* Every part of the server MTM finds the session as it left it: whoever waits for an answer
\* is the one whom the session will tell, and when nobody waits nothing is outstanding.
THEOREM UsersAgree == Spec => [](Now \in Good /\ Kept(Now))
<1> DEFINE Inv == Now \in Good /\ Kept(Now)
<1>1. Init => Inv
  BY InitGood, InitKept
<1>2. Inv /\ [Next]_vars => Inv'
  <2>1. ASSUME Now \in Good, Kept(Now), Next PROVE (Now \in Good)' /\ (Kept(Now))'
    BY <2>1, GoodIsClosed, NextStays, NextKept
  <2>2. ASSUME Now \in Good, Kept(Now), UNCHANGED vars PROVE (Now \in Good)' /\ (Kept(Now))'
    BY <2>2, StutterTyped, StutterKept DEF Good
  <2>. QED BY <2>1, <2>2
<1>. QED BY <1>1, <1>2, PTL DEF Spec

\* While the connection lives and nothing has failed, the users agree.
LEMMA AliveUses ==
  ASSUME Now \in Good, Kept(Now), Alive
  PROVE  /\ Users(Now) /\ Now.fault = "None"
         /\ Now.ses = ses /\ Now.rd = rd /\ Now.net = net /\ Now.idle = idle
         /\ Now.job = job /\ Now.ao = ao /\ Now.pc = pc
  BY DEF Kept, Now, Alive, Weak

\* Whatever the order of RunLs, timers, requests and lines, no assertion of the session, the
\* reader or the controllers fails but the three that a cancel or a refused command can reach
\* (TImapServerPanic in cimapsession.cpp, cimapsessionconsumer.cpp and the controllers): a
\* flush when the answer to the cancelled command is already in, an operation on the session
\* that is not over, and an idle controller that starts in an unexpected state.
THEOREM OnlyKnownFaults ==
  ASSUME Weak \subseteq KnownFaults
  PROVE  Spec => []AssertionsHold
<1>1. Now \in Good /\ Kept(Now) => AssertionsHold
  BY DEF Kept, Now, AssertionsHold
<1>. QED BY <1>1, UsersAgree, PTL

\* Whoever starts on the session finds it free.
LEMMA StartsFree ==
  ASSUME NEW w, Users(w),
         w.job["Op"].step = "Start" \/ (w.idle.state = "StartingIdle" /\ w.ao["Idle"].active)
  PROVE  Free(w.ses, w.rd)
<1>1. CASE w.job["Op"].step = "Start"
  <2>1. w.job["Op"] # NoJob
    BY <1>1 DEF NoJob
  <2>2. JobUses(w, "Op")
    BY <1>1, <2>1 DEF Users
  <2>. QED BY <1>1, <2>2 DEF JobUses
<1>2. CASE w.idle.state = "StartingIdle" /\ w.ao["Idle"].active
  <2>1. IdleUses(w)
    BY <1>2, IdleActive
  <2>. QED BY <1>2, <2>1 DEF IdleUses
<1>. QED BY <1>1, <1>2

\* A session that is free has nothing on its way but untagged lines, and its server nothing
\* to answer.
LEMMA FreeIsReady ==
  ASSUME Now \in Good, Alive, ses.open, Resting(ses, rd)
  PROVE  SessionReady
<1>1. /\ ses.cmd = NoCmd /\ ses.report = "None" /\ ~ses.async /\ rd.state = "Idle"
  BY DEF Resting, Calm
<1>2. ses.state = "Normal" /\ ses.pending = "None"
  <2>1. Now.ses = ses /\ Now.rd = rd /\ Now.fault = "None"
    BY DEF Now, Alive
  <2>2. Now.ses.pending = "None" /\ Now.ses.state = "Normal"
    <3> DEFINE w == Now
    <3>1. w \in Good /\ w.fault = "None" /\ Resting(w.ses, w.rd)
      BY <2>1
    <3> HIDE DEF w
    <3>2. w.ses.pending = "None" /\ w.ses.state = "Normal"
      BY <3>1, RestingFields
    <3>. QED BY <3>2 DEF w
  <2>. QED BY <2>1, <2>2
<1>3. ~IsReading(Now)
  BY <1>1 DEF IsReading, Now
<1>4. ASSUME net.up PROVE net.out = <<>> /\ ~net.idling
  <2>1. Outgoing(ses.cmd, ses.folder, net) /\ Modes(ses.cmd, ses.folder, net)
    BY <1>4, UpIsWired DEF Wired
  <2>2. NoCmd.kind = "None" /\ Verb(NoCmd) = "none"
    BY FreeCommand DEF Verb
  <2>3. ~net.idling
    BY <1>1, <1>4, <2>1, <2>2 DEF Modes
  <2>4. ASSUME net.out # <<>> PROVE FALSE
    <3>1. Head(net.out).verb = "none"
      BY <1>1, <2>1, <2>2, <2>4 DEF Outgoing
    <3>2. net.out \in Seq(Sent)
      BY DEF Good, Now, World, Nets
    <3>3. Head(net.out) \in Sent
      BY <2>4, <3>2, HeadTailProperties
    <3>. QED BY <3>1, <3>3 DEF Sent
  <2>. QED BY <2>3, <2>4
<1>5. ASSUME NEW l \in InFlight, l.kind # "exists" PROVE FALSE
  <2>1. l.kind \in Expected(ses.cmd)
    BY <1>5, InFlightFits DEF Fits
  <2>. QED BY <1>1, <2>1, FreeCommand DEF Expected
<1>. QED BY <1>1, <1>2, <1>3, <1>4, <1>5 DEF SessionReady

\* Whenever an operation takes the session from the idle controller, or the idle controller
\* takes it back, nothing of the one before is left on it, on the wire or at the server
\* (CImapIdleController::StopIdle, cimapidlecontroller.cpp:455, and
\* CImapProtocolController::DoRunL).
THEOREM StartsFresh == Spec => []FreshStart
<1>1. Now \in Good /\ Kept(Now) => FreshStart
  <2> SUFFICES ASSUME Now \in Good, Kept(Now), Alive, ses.open, Starts
               PROVE  SessionReady
    BY DEF FreshStart
  <2> DEFINE w == Now
  <2>1. /\ Users(w) /\ w.ses = ses /\ w.rd = rd
        /\ w.job["Op"].step = "Start" \/ (w.idle.state = "StartingIdle" /\ w.ao["Idle"].active)
    BY AliveUses DEF Starts
  <2> HIDE DEF w
  <2>2. Free(w.ses, w.rd)
    BY <2>1, StartsFree
  <2>3. Resting(ses, rd)
    BY <2>1, <2>2 DEF Free, Over, Lost
  <2>. QED BY <2>3, FreeIsReady
<1>. QED BY <1>1, UsersAgree, PTL

\* The time limit of the reader runs for a command that somebody waits for.
LEMMA TimerForAnswer ==
  ASSUME NEW w, Users(w), w.rd.timer
  PROVE  Due(w.ses.cmd)
<1>1. PICK who \in Objects : Waits(w, who)
  BY WhoWaits
<1>. QED BY <1>1 DEF Waits, Serving, Limited

\* The reader's time limit runs only while the answer to DONE is due, so that a quiet
\* connection is never given up (CImapIdle::Done, cimapidle.cpp).
THEOREM LimitForAnswer == Spec => []LimitOnlyForAnswer
<1>1. Now \in Good /\ Kept(Now) => LimitOnlyForAnswer
  <2> SUFFICES ASSUME Now \in Good, Kept(Now), Alive, rd.timer
               PROVE  Due(ses.cmd)
    BY DEF LimitOnlyForAnswer, Due
  <2> DEFINE w == Now
  <2>1. Users(w) /\ w.ses = ses /\ w.rd = rd
    BY AliveUses
  <2> HIDE DEF w
  <2>. QED BY <2>1, TimerForAnswer
<1>. QED BY <1>1, UsersAgree, PTL

-----------------------------------------------------------------------------
(* The connection as ImapPrimary has it                                    *)

LEMMA OnlyAlive == ASSUME Next PROVE Alive
<1>1. Internal => Alive
  BY DEF Internal, IdleRunL, IdleReady, FolderRunL, FolderReady, ChildRunL, ChildReady,
         OpRunL, OpReady, PcRunL, PcReady, ReadRunL, ReadReady, CallBackRunL, CallBackReady
<1>2. Receive \/ ReceiveFails \/ ServerAnswers \/ MessageArrives \/ NetworkFails => Alive
  BY DEF Receive, DataReady, ReceiveFails, FailureReady, ServerAnswers, ServerReady,
         MessageArrives, NetworkFails
<1>3. IdleLeaves \/ ReissueTimer \/ FlushTimer \/ ReaderTimer => Alive
  BY DEF IdleLeaves, ReissueTimer, FlushTimer, ReaderTimer
<1>4. ClientAsks \/ ClientCancels => Alive
  BY DEF ClientAsks, ClientCancels
<1>. QED BY <1>1, <1>2, <1>3, <1>4 DEF Next

\* Each move of the protocol controller and of the users is a step of ImapPrimary, or none.
LEMMA MovesPrimary ==
  ASSUME Now \in World, (Now \in World)', pc.online, Moves(Now', Now)
  PROVE  [Primary!Next]_(Primary!vars)
<1> DEFINE o == IF pc.online THEN Owner ELSE "Offline"
           b == ses.cmd.kind \notin {"None", "Wait"}
           r == pc.report
           of(p) == IF p.op \in {"Op", "Recover"} THEN p.op ELSE "Idle"
<1>1. /\ Now.ses = ses /\ Now.pc = pc /\ (Now').ses = ses' /\ (Now').pc = pc'
  BY DEF Now
<1>2. /\ pc.report \in BOOLEAN /\ pc.op \in {"Idle", "StopIdle", "Op", "Recover"}
      /\ pc.online \in BOOLEAN
  <2>1. pc \in Controllers
    BY <1>1, WorldFields
  <2>. QED BY <2>1 DEF Controllers
<1>3. /\ pc'.report \in BOOLEAN /\ pc'.op \in {"Idle", "StopIdle", "Op", "Recover"}
      /\ pc'.online \in BOOLEAN
  <2>1. Now' \in World
    OBVIOUS
  <2>2. pc' \in Controllers
    BY <1>1, <2>1, WorldFields
  <2>. QED BY <2>2 DEF Controllers
<1>4. o = of(pc) /\ (pc'.online => o' = of(pc')) /\ (~pc'.online => o' = "Offline")
  BY <1>2, <1>3 DEF Owner
<1>5. /\ b \in BOOLEAN /\ b' \in BOOLEAN /\ (b <=> Using(Now.ses)) /\ (b' <=> Using((Now').ses))
  BY <1>1 DEF Using
<1>6. r \in BOOLEAN /\ r' \in BOOLEAN /\ r = Now.pc.report /\ r' = (Now').pc.report
  BY <1>1, <1>2, <1>3
<1> HIDE DEF o, b, r
<1>7. CASE GivenUp(Now')
  <2>1. o # "Offline" /\ o' = "Offline" /\ ~b' /\ ~r'
    BY <1>1, <1>2, <1>3, <1>4, <1>5, <1>6, <1>7 DEF GivenUp
  <2>2. Primary!Disconnect
    BY <2>1 DEF Primary!Disconnect, o, b, r
  <2>. QED BY <2>2 DEF Primary!Next
<1>8. CASE pc'.online /\ Continues(Now', Now)
  <2>1. /\ o' = o /\ r' = r /\ (o = "Recover" => (b' => b))
        /\ o \in {"Idle", "Op", "Recover"}
    BY <1>1, <1>2, <1>3, <1>4, <1>5, <1>6, <1>8 DEF Continues
  <2>2. CASE b' = b
    BY <2>1, <2>2 DEF Primary!vars, o, b, r
  <2>3. CASE b /\ ~b'
    <3>1. Primary!End
      BY <2>1, <2>3, <1>5 DEF Primary!End, o, b, r
    <3>. QED BY <3>1 DEF Primary!Next
  <2>4. CASE ~b /\ b'
    <3>1. Primary!Use
      BY <2>1, <2>4, <1>5 DEF Primary!Use, Primary!Users, o, b, r
    <3>. QED BY <3>1 DEF Primary!Next
  <2>. QED BY <1>5, <2>2, <2>3, <2>4
<1>9. CASE pc'.online /\ TakesOn(Now', Now)
  <2>1. /\ o \in {"Idle", "Op"} /\ (o' = o \/ (~b /\ o' = "Op")) /\ ~r /\ r' = TRUE /\ b' = b
    BY <1>1, <1>2, <1>3, <1>4, <1>5, <1>6, <1>9 DEF TakesOn
  <2>2. Primary!Ask
    BY <2>1 DEF Primary!Ask, Primary!Users, o, b, r
  <2>. QED BY <2>2 DEF Primary!Next
<1>10. CASE pc'.online /\ HandsOver(Now', Now)
  <2>1. o = "Idle" /\ o' = "Op" /\ r /\ r' = r /\ ~b /\ b' = b
    BY <1>1, <1>2, <1>3, <1>4, <1>5, <1>6, <1>10 DEF HandsOver, Unused
  <2>2. Primary!HandOver
    BY <2>1 DEF Primary!HandOver, o, b, r
  <2>. QED BY <2>2 DEF Primary!Next
<1>11. CASE pc'.online /\ Finishes(Now', Now)
  <2>1. o = "Op" /\ o' \in {"Idle", "Op"} /\ r /\ r' = FALSE /\ ~b /\ b' = b
    BY <1>1, <1>2, <1>3, <1>4, <1>5, <1>6, <1>11 DEF Finishes, Unused
  <2>2. Primary!Answer
    BY <2>1 DEF Primary!Answer, Primary!Users, o, b, r
  <2>. QED BY <2>2 DEF Primary!Next
<1>12. CASE pc'.online /\ Abandons(Now', Now)
  <2>1. o' = "Recover" /\ r /\ r' = FALSE /\ b' \in {FALSE, b}
    BY <1>1, <1>2, <1>3, <1>4, <1>5, <1>6, <1>12 DEF Abandons
  <2>2. Primary!Cancel
    BY <2>1 DEF Primary!Cancel, o, b, r
  <2>. QED BY <2>2 DEF Primary!Next
<1>13. CASE pc'.online /\ Recovers(Now', Now)
  <2>1. o = "Recover" /\ o' = "Idle" /\ r' = r /\ ~b /\ b' = b
    BY <1>1, <1>2, <1>3, <1>4, <1>5, <1>6, <1>13 DEF Recovers, Unused
  <2>2. Primary!Recovered
    BY <2>1 DEF Primary!Recovered, o, b, r
  <2>. QED BY <2>2 DEF Primary!Next
<1>. QED BY <1>1, <1>7, <1>8, <1>9, <1>10, <1>11, <1>12, <1>13 DEF Moves

LEMMA NextPrimary ==
  ASSUME Now \in Good, Kept(Now), Next
  PROVE  [Primary!Next]_(Primary!vars)
<1>1. PICK v \in Good : Becomes(v) /\ Leads(v, Now)
  BY KeptStep
<1>2. Now \in World /\ v \in World /\ pc.online /\ Now.pc = pc
  BY OnlyAlive DEF Good, Alive, Now
<1>3. /\ v.fault = "None" => Now' = v
      /\ v.fault # "None" => UNCHANGED <<ses, pc>>
      /\ (Now \in World)'
  BY <1>1, <1>2, BecomesWorld
<1>4. CASE v.fault = "None"
  <2>1. Moves(v, Now)
    BY <1>1, <1>2, <1>4 DEF Leads
  <2>2. Moves(Now', Now)
    BY <1>3, <1>4, <2>1
  <2>. QED BY <1>2, <1>3, <2>2, MovesPrimary
<1>5. CASE v.fault # "None"
  BY <1>3, <1>5 DEF Primary!vars, Owner
<1>. QED BY <1>4, <1>5

\* The primary connection is used as ImapPrimary promises, for every server, every sequence of
\* requests and cancels and whatever the network does: one user at a time, who is not replaced
\* while his command is unanswered, and after a cancel nobody until the answer has been read
\* (CImapProtocolController and CImapIdleController on one CImapSession).
THEOREM PrimaryImplemented == Spec => ImplementsPrimary
<1> DEFINE Inv == Now \in Good /\ Kept(Now)
<1>1. Init => Primary!Init
  BY FreeCommand DEF Init, Primary!Init, Owner, NewSession
<1>2. Inv /\ [Next]_vars => [Primary!Next]_(Primary!vars)
  <2>1. ASSUME Now \in Good, Kept(Now), Next PROVE [Primary!Next]_(Primary!vars)
    BY <2>1, NextPrimary
  <2>2. ASSUME UNCHANGED vars PROVE UNCHANGED Primary!vars
    BY <2>2 DEF vars, Primary!vars, Owner
  <2>. QED BY <2>1, <2>2
<1>3. Spec => []Inv
  BY UsersAgree
<1>. QED BY <1>1, <1>2, <1>3, PTL DEF Spec, ImplementsPrimary, Primary!Spec
=============================================================================
