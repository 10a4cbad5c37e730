-------------------------- MODULE ImapIdleProofs --------------------------
(***************************************************************************)
(* Proofs about ImapIdle: session and server agree. Good is the set of     *)
(* worlds in which the answer to the command in progress is in one place   *)
(* (to be sent, to be read by the server, on the wire, in the buffer of    *)
(* the reader, in that of the session), fits the command, and the server   *)
(* is in the mode and has selected the mailbox that it implies. Every      *)
(* operator of the session keeps it, so that it is closed (GoodIsClosed).  *)
(***************************************************************************)
EXTENDS ImapSessionProofs

-----------------------------------------------------------------------------
(* The session and the server                                              *)

\* Lines that no command waits for, and lines of which one at most does not.
Quiet(s)  == \A i \in 1 .. Len(s) : s[i].kind = "exists"
Single(s) == \A i, j \in 1 .. Len(s) :
               s[i].kind # "exists" /\ s[j].kind # "exists" => i = j

\* The lines that may still answer a command, and what was sent for it.
Expected(cmd) ==
  CASE cmd.kind \in {"Select", "Fetch"}                    -> {"ok", "no"}
    [] cmd.kind = "Idle" /\ cmd.idle = "WaitContinue"      -> {"cont", "no"}
    [] cmd.kind = "Idle" /\ cmd.idle = "WaitDone"          -> {"ok"}
    [] OTHER                                               -> {}
Verb(cmd) ==
  CASE cmd.kind = "Select"                                 -> "select"
    [] cmd.kind = "Fetch"                                  -> "fetch"
    [] cmd.kind = "Idle" /\ cmd.idle = "WaitContinue"      -> "idle"
    [] cmd.kind = "Idle" /\ cmd.idle = "WaitDone"          -> "done"
    [] OTHER                                               -> "none"

\* A line on its way to cmd: it answers it, and the server is in the mode that it says.
Fits(cmd, folder, n, l) ==
  l.kind # "exists" =>
    /\ l.tag = cmd.tag /\ l.kind \in Expected(cmd)
    /\ n.up => n.idling = (l.kind = "cont")
    /\ n.up /\ l.kind = "ok" /\ cmd.kind = "Select" /\ folder # NoFolder
         => n.selected = folder.box
AllFit(cmd, folder, n, s) ==
  Single(s) /\ \A i \in 1 .. Len(s) : Fits(cmd, folder, n, s[i])

\* What has been sent and not been read by the server is the command in progress.
Outgoing(cmd, folder, n) ==
  n.out # <<>> =>
    /\ n.up /\ Len(n.out) = 1
    /\ Head(n.out).verb = Verb(cmd) /\ Head(n.out).tag = cmd.tag
    /\ cmd.kind = "Select" /\ folder # NoFolder => Head(n.out).box = folder.box

\* The mode of the server, and the mailbox that it has selected.
Modes(cmd, folder, n) ==
  n.up =>
    /\ cmd.kind # "Idle" => ~n.idling
    /\ cmd.kind = "Idle" =>
         /\ cmd.idle = "WaitContinue" /\ n.out # <<>> => ~n.idling
         /\ cmd.idle = "WaitResponse" => n.idling
         /\ cmd.idle = "WaitDone" => n.idling = (n.out # <<>>)
    /\ folder # NoFolder /\ cmd.kind # "Select" => n.selected = folder.box

\* The answer to the command in progress is in one place.
Wired(cmd, folder, input, buf, n) ==
  /\ AllFit(cmd, folder, n, input) /\ AllFit(cmd, folder, n, buf)
  /\ AllFit(cmd, folder, n, n.wire)
  /\ ~Quiet(input) => Quiet(buf) /\ Quiet(n.wire) /\ n.out = <<>>
  /\ ~Quiet(buf) => Quiet(n.wire) /\ n.out = <<>>
  /\ ~Quiet(n.wire) => n.out = <<>>
  /\ Outgoing(cmd, folder, n) /\ Modes(cmd, folder, n)

\* The command, the state of the session and the operation pending agree.
Shaped(cmd, state, pending, folder, server) ==
  /\ cmd.flushing <=> state = "Flushing"
  /\ state # "Unrecoverable"
  /\ \/ cmd = NoCmd /\ pending = "None"
     \/ /\ cmd.kind = "Select" /\ cmd.idle = "None" /\ pending = "Select"
        /\ cmd.flushing => folder = NoFolder
     \/ cmd.kind \in {"Fetch", "Wait"} /\ cmd.idle = "None" /\ pending = "None"
     \/ /\ cmd.kind = "Idle" /\ cmd.idle \in {"WaitContinue", "WaitResponse"}
        /\ pending \in {"IdleEnter", "IdleWait"}
        /\ cmd.idle = "WaitResponse" => ~cmd.flushing
     \/ cmd.kind = "Idle" /\ cmd.idle = "WaitDone" /\ pending \in {"IdleDone", "None"}
  /\ folder # NoFolder /\ cmd.kind # "Select" => server = "Selected"

Sound(w) ==
  IF w.ses.open
  THEN /\ Wired(w.ses.cmd, w.ses.folder, w.ses.input, w.rd.buf, w.net)
       /\ Shaped(w.ses.cmd, w.ses.state, w.ses.pending, w.ses.folder, w.ses.server)
  ELSE ~w.net.up /\ w.ses.cmd = NoCmd

\* Two worlds that Sound does not tell apart.
Same(v, w) ==
  /\ v.ses.open = w.ses.open /\ v.ses.cmd = w.ses.cmd /\ v.ses.folder = w.ses.folder
  /\ v.ses.input = w.ses.input /\ v.ses.state = w.ses.state
  /\ v.ses.pending = w.ses.pending /\ v.ses.server = w.ses.server
  /\ v.rd.buf = w.rd.buf /\ v.net = w.net

LEMMA SoundSame == ASSUME NEW v, NEW w, Same(v, w), Sound(w) PROVE Sound(v)
  BY DEF Sound, Same

(* Sequences of lines                                                      *)

LEMMA QuietEmpty == Quiet(<<>>)
  BY DEF Quiet

LEMMA QuietFits ==
  ASSUME NEW cmd, NEW folder, NEW n, NEW s, Quiet(s)
  PROVE  AllFit(cmd, folder, n, s)
  BY DEF Quiet, AllFit, Single, Fits

LEMMA TailFits ==
  ASSUME NEW cmd, NEW folder, NEW n, NEW s \in Seq(Lines), s # <<>>, AllFit(cmd, folder, n, s)
  PROVE  /\ AllFit(cmd, folder, n, Tail(s)) /\ Fits(cmd, folder, n, Head(s))
         /\ Head(s).kind # "exists" => Quiet(Tail(s)) /\ ~Quiet(s)
         /\ Quiet(s) => Quiet(Tail(s))
<1>1. /\ Tail(s) \in Seq(Lines) /\ Len(Tail(s)) = Len(s) - 1 /\ Len(s) \in Nat
      /\ \A i \in 1 .. Len(Tail(s)) : Tail(s)[i] = s[i + 1]
  BY HeadTailProperties
<1>2. Len(s) >= 1 /\ Head(s) = s[1]
  BY EmptySeq
<1>3. \A i \in 1 .. Len(Tail(s)) : i + 1 \in 1 .. Len(s) /\ Tail(s)[i] = s[i + 1] /\ i + 1 # 1
  BY <1>1
<1>4. 1 \in 1 .. Len(s)
  BY <1>1, <1>2
<1>5. Single(Tail(s))
  <2> SUFFICES ASSUME NEW i \in 1 .. Len(Tail(s)), NEW j \in 1 .. Len(Tail(s)),
                      Tail(s)[i].kind # "exists", Tail(s)[j].kind # "exists"
               PROVE  i = j
    BY DEF Single
  <2>1. i + 1 = j + 1
    BY <1>3 DEF AllFit, Single
  <2>. QED BY <2>1
<1>6. Head(s).kind # "exists" => Quiet(Tail(s))
  BY <1>2, <1>3, <1>4 DEF AllFit, Single, Quiet
<1>. QED BY <1>2, <1>3, <1>4, <1>5, <1>6 DEF AllFit, Quiet

LEMMA SplitFits ==
  ASSUME NEW cmd, NEW folder, NEW n, NEW s \in Seq(Lines), NEW k \in 1 .. Len(s),
         AllFit(cmd, folder, n, s)
  PROVE  LET p == SubSeq(s, 1, k)
             r == SubSeq(s, k + 1, Len(s))
         IN /\ AllFit(cmd, folder, n, p) /\ AllFit(cmd, folder, n, r)
            /\ Quiet(s) => Quiet(p) /\ Quiet(r)
            /\ ~Quiet(p) => Quiet(r)
<1> DEFINE p == SubSeq(s, 1, k)
           r == SubSeq(s, k + 1, Len(s))
<1>0. k \in Nat /\ Len(s) \in Nat /\ k <= Len(s)
  OBVIOUS
<1>1. Len(p) = k /\ \A i \in 1 .. k : p[i] = s[i] /\ i \in 1 .. Len(s)
  <2>1. \A i \in 1 .. k : s[i] \in Lines
    BY <1>0
  <2>2. /\ Len(SubSeq(s, 1, k)) = IF 1 <= k THEN k - 1 + 1 ELSE 0
        /\ \A i \in 1 .. k - 1 + 1 : SubSeq(s, 1, k)[i] = s[1 + i - 1]
    BY <1>0, <2>1, SubSeqProperties
  <2>. QED BY <1>0, <2>2
<1>2. /\ Len(r) = Len(s) - k
      /\ \A i \in 1 .. Len(s) - k : r[i] = s[k + i] /\ k + i \in 1 .. Len(s)
  <2>1. \A i \in k + 1 .. Len(s) : s[i] \in Lines
    BY <1>0
  <2>2. /\ Len(SubSeq(s, k + 1, Len(s))) = IF k + 1 <= Len(s) THEN Len(s) - (k + 1) + 1 ELSE 0
        /\ \A i \in 1 .. Len(s) - (k + 1) + 1 : SubSeq(s, k + 1, Len(s))[i] = s[(k + 1) + i - 1]
    BY <1>0, <2>1, SubSeqProperties
  <2>. QED BY <1>0, <2>2
<1> HIDE DEF p, r
<1>3. AllFit(cmd, folder, n, p)
  BY <1>1 DEF AllFit, Single
<1>4. AllFit(cmd, folder, n, r)
  <2>1. Single(r)
    <3> SUFFICES ASSUME NEW i \in 1 .. Len(r), NEW j \in 1 .. Len(r),
                        r[i].kind # "exists", r[j].kind # "exists"
                 PROVE  i = j
      BY DEF Single
    <3>1. i \in 1 .. Len(s) - k /\ j \in 1 .. Len(s) - k
      BY <1>2
    <3>2. k + i = k + j
      BY <1>2, <3>1, ZenonT(60) DEF AllFit, Single
    <3>. QED BY <1>0, <3>1, <3>2
  <2>. QED BY <1>2, <2>1 DEF AllFit
<1>5. Quiet(s) => Quiet(p) /\ Quiet(r)
  BY <1>1, <1>2 DEF Quiet
<1>6. ~Quiet(p) => Quiet(r)
  <2> SUFFICES ASSUME ~Quiet(p), NEW j \in 1 .. Len(r) PROVE r[j].kind = "exists"
    BY DEF Quiet
  <2>1. PICK i \in 1 .. k : p[i].kind # "exists"
    BY <1>1 DEF Quiet
  <2>2. j \in 1 .. Len(s) - k /\ s[i].kind # "exists" /\ i # k + j
    BY <1>0, <1>1, <1>2, <2>1
  <2>. QED BY <1>1, <1>2, <2>1, <2>2 DEF AllFit, Single
<1>. QED BY <1>3, <1>4, <1>5, <1>6 DEF p, r

LEMMA AppendFits ==
  ASSUME NEW cmd, NEW folder, NEW n, NEW s \in Seq(Lines), NEW l \in Lines
  PROVE  /\ AllFit(cmd, folder, n, s) /\ l.kind = "exists" => AllFit(cmd, folder, n, Append(s, l))
         /\ Quiet(s) /\ Fits(cmd, folder, n, l) => AllFit(cmd, folder, n, Append(s, l))
         /\ l.kind = "exists" => (Quiet(Append(s, l)) <=> Quiet(s))
<1> DEFINE t == Append(s, l)
<1>1. Len(s) \in Nat /\ Len(t) = Len(s) + 1 /\ t[Len(s) + 1] = l /\ \A i \in 1 .. Len(s) : t[i] = s[i]
  OBVIOUS
<1>2. \A i \in 1 .. Len(t) : (i \in 1 .. Len(s) /\ t[i] = s[i]) \/ (i = Len(s) + 1 /\ t[i] = l)
  BY <1>1
<1>3. \A i \in 1 .. Len(s) : i \in 1 .. Len(t) /\ t[i] = s[i]
  BY <1>1
<1> HIDE DEF t
<1>4. AllFit(cmd, folder, n, s) /\ l.kind = "exists" => AllFit(cmd, folder, n, t)
  BY <1>2 DEF AllFit, Single, Fits
<1>5. Quiet(s) /\ Fits(cmd, folder, n, l) => AllFit(cmd, folder, n, t)
  BY <1>2 DEF AllFit, Single, Fits, Quiet
<1>6. l.kind = "exists" => (Quiet(t) <=> Quiet(s))
  BY <1>2, <1>3 DEF Quiet
<1>. QED BY <1>4, <1>5, <1>6 DEF t

-----------------------------------------------------------------------------
(* What the operations of the session change                               *)

\* The controllers are as they were.
Rest(v, w) == v.idle = w.idle /\ v.inbox = w.inbox /\ v.job = w.job /\ v.pc = w.pc

\* An assertion that did not fail holds and changes nothing.
LEMMA ExpectHolds ==
  ASSUME NEW w \in World, NEW ok \in BOOLEAN, NEW name \in Assertions,
         Expect(w, ok, name).fault = "None"
  PROVE  ok /\ Expect(w, ok, name) = w /\ w.fault = "None"
<1>1. "None" \notin Assertions
  BY DEF Assertions
<1>2. [w EXCEPT !.fault = name].fault = name
  BY DEF World
<1>. QED BY <1>1, <1>2 DEF Expect

\* A failure is not forgotten, and an assertion that holds does not fail.
LEMMA ExpectKeeps ==
  ASSUME NEW w \in World, NEW ok \in BOOLEAN, NEW name
  PROVE  /\ w.fault # "None" => Expect(w, ok, name).fault # "None"
         /\ ok => Expect(w, ok, name) = w
  BY DEF Expect

LEMMA QueueEffect ==
  ASSUME NEW w \in World, NEW who \in Objects
  PROVE  LET v == Queue(w, who)
         IN /\ v \in World /\ v.fault = w.fault /\ v.rd = w.rd /\ v.net = w.net /\ Rest(v, w)
            /\ w.ses.report # "None" => v = w
            /\ w.ses.report = "None" =>
                 /\ v.ses = [w.ses EXCEPT !.report = who]
                 /\ v.ao = [w.ao EXCEPT ![who].status = KRequestPending]
<1>1. Queue(w, who) \in World
  BY QueueTyped
<1>2. CASE w.ses.report # "None"
  BY <1>1, <1>2 DEF Queue, Rest
<1>3. CASE w.ses.report = "None"
  BY <1>1, <1>3 DEF Queue, Rest, World
<1>. QED BY <1>2, <1>3

LEMMA CompleteEffect ==
  ASSUME NEW w \in World, NEW err \in Codes
  PROVE  LET v == Complete(w, err)
         IN /\ v \in World /\ v.fault = w.fault /\ v.rd = w.rd /\ v.net = w.net /\ Rest(v, w)
            /\ v.ses = [w.ses EXCEPT !.report = "None"]
            /\ w.ses.report = "None" => v = w
            /\ w.ses.report # "None" => v.ao = [w.ao EXCEPT ![w.ses.report].status = err]
<1>1. Complete(w, err) \in World
  BY CompleteTyped
<1>2. CASE w.ses.report = "None"
  <2>1. [w.ses EXCEPT !.report = "None"] = w.ses
    BY <1>2, WorldFields DEF Sessions
  <2>. QED BY <1>1, <1>2, <2>1 DEF Complete, Rest
<1>3. CASE w.ses.report # "None"
  BY <1>1, <1>3 DEF Complete, Rest, World
<1>. QED BY <1>2, <1>3

\* A read is asked for.
ReadWith(r, limit) == [r EXCEPT !.state = IF r.buf = <<>> THEN "Read" ELSE "ReceivedData",
                                !.ready = TRUE, !.limit = limit \/ @]
Asked(s) == [s EXCEPT !.pending = IF s.pending = "IdleDone" THEN "None" ELSE @,
                      !.flushTimer = @ \/ s.state = "Flushing"]

LEMMA ReadReqEffect ==
  ASSUME NEW w \in World, NEW limit \in BOOLEAN, ReadReq(w, limit).fault = "None"
  PROVE  LET v == ReadReq(w, limit)
         IN /\ w.fault = "None" /\ w.rd.state = "Idle"
            /\ v \in World /\ v.ses = w.ses /\ v.net = w.net /\ v.ao = w.ao /\ Rest(v, w)
            /\ v.rd = ReadWith(w.rd, limit)
<1> DEFINE x == Expect(w, w.rd.state = "Idle", "BadInputStreamState")
           st == IF w.rd.buf = <<>> THEN "Read" ELSE "ReceivedData"
<1>1. x \in World /\ ReadReq(w, limit) \in World
  BY ExpectTyped, Names, ReadReqTyped
<1>2. ReadReq(w, limit) = [x EXCEPT !.rd.state = st, !.rd.ready = TRUE, !.rd.limit = limit \/ @]
  BY DEF ReadReq
<1> HIDE DEF x
<1>3. x.fault = "None"
  BY <1>1, <1>2 DEF World
<1>4. w.fault = "None" /\ w.rd.state = "Idle" /\ x = w
  BY <1>3, ExpectHolds, Names DEF x
<1>5. ReadReq(w, limit) = [w EXCEPT !.rd.state = st, !.rd.ready = TRUE, !.rd.limit = limit \/ @]
  BY <1>2, <1>4
<1> DEFINE b == limit \/ w.rd.limit
<1>6. ReadReq(w, limit) = [w EXCEPT !.rd.state = st, !.rd.ready = TRUE, !.rd.limit = b]
  BY <1>5, <1>4, WorldFields DEF World, Readers
<1>7. ReadWith(w.rd, limit) = [w.rd EXCEPT !.state = st, !.ready = TRUE, !.limit = b]
  BY WorldFields DEF Readers, ReadWith
<1> HIDE DEF st, b
<1>8. LET v == [w EXCEPT !.rd.state = st, !.rd.ready = TRUE, !.rd.limit = b]
      IN /\ v.ses = w.ses /\ v.net = w.net /\ v.ao = w.ao /\ Rest(v, w)
         /\ v.rd = [w.rd EXCEPT !.state = st, !.ready = TRUE, !.limit = b]
  BY DEF World, Rest
<1>. QED BY <1>1, <1>4, <1>6, <1>7, <1>8 DEF st

LEMMA AsyncEffect ==
  ASSUME NEW w \in World, ProcessInputBufferAsync(w).fault = "None"
  PROVE  LET v == ProcessInputBufferAsync(w)
         IN /\ w.fault = "None" /\ ~w.ses.async
            /\ v \in World /\ v.rd = w.rd /\ v.net = w.net /\ v.ao = w.ao /\ Rest(v, w)
            /\ v.ses = [w.ses EXCEPT !.async = TRUE]
<1> DEFINE x == Expect(w, ~w.ses.async, "AsyncCallBackOpInvalid")
<1>1. x \in World /\ ProcessInputBufferAsync(w) \in World
  BY ExpectTyped, Names, AsyncTyped
<1>2. ProcessInputBufferAsync(w) = [x EXCEPT !.ses.async = TRUE]
  BY DEF ProcessInputBufferAsync
<1> HIDE DEF x
<1>3. x.fault = "None"
  BY <1>1, <1>2 DEF World
<1>4. w.fault = "None" /\ ~w.ses.async /\ x = w
  BY <1>3, ExpectHolds, Names DEF x
<1>. QED BY <1>1, <1>2, <1>4 DEF World, Rest

LEMMA RequestReadDataEffect ==
  ASSUME NEW w \in World, RequestReadData(w).fault = "None"
  PROVE  LET v == RequestReadData(w)
         IN /\ w.fault = "None" /\ ~w.ses.async /\ w.rd.state = "Idle"
            /\ v \in World /\ v.net = w.net /\ v.ao = w.ao /\ Rest(v, w)
            /\ v.ses = Asked(w.ses) /\ v.rd = ReadWith(w.rd, w.ses.pending = "IdleDone")
<1> DEFINE done == w.ses.pending = "IdleDone"
           x == Expect(w, ~w.ses.async, "AsyncCallBackOpInvalid")
           p == IF done THEN "None" ELSE x.ses.pending
           y == [x EXCEPT !.ses.pending = p]
           r == ReadReq(y, done)
           b == r.ses.flushTimer \/ w.ses.state = "Flushing"
<1>1. x \in World /\ RequestReadData(w) \in World /\ done \in BOOLEAN
  BY ExpectTyped, Names, RequestReadDataTyped
<1>2. RequestReadData(w) = [r EXCEPT !.ses.flushTimer = b]
  BY DEF RequestReadData
<1> HIDE DEF x
<1>3. p \in {"None", "Select", "IdleEnter", "IdleWait", "IdleDone"}
  BY <1>1, SessionFields
<1> HIDE DEF p, done
<1>4. y \in World
  BY <1>1, <1>3, SetPending
<1>5. /\ y.fault = x.fault /\ y.rd = x.rd /\ y.net = x.net /\ y.ao = x.ao /\ Rest(y, x)
      /\ y.ses = [x.ses EXCEPT !.pending = p]
  BY <1>1 DEF World, Rest
<1> HIDE DEF y
<1>6. r \in World
  BY <1>1, <1>4, ReadReqTyped
<1>7. r.fault = "None"
  <2> HIDE DEF r, b
  <2>. QED BY <1>2, <1>6 DEF World
<1>8. /\ y.fault = "None" /\ y.rd.state = "Idle" /\ r.ses = y.ses /\ r.net = y.net
      /\ r.ao = y.ao /\ Rest(r, y) /\ r.rd = ReadWith(y.rd, done)
  BY <1>1, <1>4, <1>7, ReadReqEffect
<1>0. x.fault = "None"
  BY <1>5, <1>8
<1>9. w.fault = "None" /\ ~w.ses.async /\ x = w
  BY <1>0, ExpectHolds, Names DEF x
<1>10. RequestReadData(w).ses = [r.ses EXCEPT !.flushTimer = b] /\ RequestReadData(w).rd = r.rd
       /\ RequestReadData(w).net = r.net /\ RequestReadData(w).ao = r.ao /\ Rest(RequestReadData(w), r)
  <2> HIDE DEF r, b
  <2>. QED BY <1>2, <1>6 DEF World, Rest
<1>12. [r.ses EXCEPT !.flushTimer = b] = Asked(w.ses)
  <2> DEFINE f == w.ses.flushTimer \/ w.ses.state = "Flushing"
  <2>1. p = IF w.ses.pending = "IdleDone" THEN "None" ELSE w.ses.pending
    BY <1>9 DEF p, done
  <2>2. Asked(w.ses) = [w.ses EXCEPT !.pending = p, !.flushTimer = f]
    BY <2>1, WorldFields DEF Sessions, Asked
  <2>3. b = f
    BY <1>5, <1>8, <1>9, WorldFields DEF Sessions
  <2> HIDE DEF r, b, f
  <2>. QED BY <1>5, <1>8, <1>9, <2>2, <2>3
<1> HIDE DEF r, b
<1>. QED BY <1>1, <1>5, <1>8, <1>9, <1>10, <1>12 DEF Rest, done

\* Whoever waits for the session is answered.
Answered(a, who, err) == IF who = "None" THEN a ELSE [a EXCEPT ![who].status = err]

LEMMA CompleteAnswers ==
  ASSUME NEW w \in World, NEW err \in Codes
  PROVE  LET v == Complete(w, err)
         IN /\ v \in World /\ v.fault = w.fault /\ v.rd = w.rd /\ v.net = w.net /\ Rest(v, w)
            /\ v.ses = [w.ses EXCEPT !.report = "None"]
            /\ v.ao = Answered(w.ao, w.ses.report, err)
  BY CompleteEffect DEF Answered

\* The reader after a cancel, and after the socket has been closed.
Unread(r) == [r EXCEPT !.state = "Idle", !.ready = FALSE, !.failed = FALSE, !.timer = FALSE]
Shut(r) == [r EXCEPT !.state = "Closed", !.ready = FALSE, !.failed = FALSE, !.timer = FALSE]
Cut(n) == [n EXCEPT !.up = FALSE, !.wire = <<>>, !.out = <<>>]

\* The session after a cancel, and after the end of a command.
Cancelled(s) ==
  IF s.state # "Normal" \/ s.cmd = NoCmd
  THEN [s EXCEPT !.async = FALSE, !.flushTimer = FALSE]
  ELSE [s EXCEPT !.async = FALSE, !.flushTimer = FALSE, !.cmd = CommandCancel(s.cmd),
                 !.server = IF s.pending = "Select" THEN "Authenticated" ELSE @,
                 !.folder = IF s.pending = "Select" THEN NoFolder ELSE @,
                 !.state = IF CommandCancel(s.cmd).flushing THEN "Flushing" ELSE @]
Ended(s) ==
  [s EXCEPT !.report = "None", !.tag = IF s.cmd = NoCmd THEN @ ELSE s.cmd.tag,
            !.cmd = NoCmd, !.pending = "None"]
Gone(s) == [Ended(s) EXCEPT !.open = FALSE, !.async = FALSE, !.flushTimer = FALSE]
Undone(s) ==
  IF s.pending # "Select" THEN s ELSE [s EXCEPT !.server = "Authenticated", !.folder = NoFolder]

LEMMA CancelReadReqEffect ==
  ASSUME NEW w \in World
  PROVE  LET v == CancelReadReq(w)
         IN /\ v \in World /\ v.fault = w.fault /\ v.ses = w.ses /\ v.net = w.net /\ v.ao = w.ao
            /\ Rest(v, w) /\ v.rd = Unread(w.rd)
<1>1. CancelReadReq(w) \in World
  BY CancelReadReqTyped
<1>. QED BY <1>1 DEF CancelReadReq, Unread, World, Readers, Rest

LEMMA SelectUndoneEffect ==
  ASSUME NEW w \in World
  PROVE  LET v == SelectUndone(w)
         IN /\ v \in World /\ v.fault = w.fault /\ v.rd = w.rd /\ v.net = w.net /\ v.ao = w.ao
            /\ Rest(v, w) /\ v.ses = Undone(w.ses)
<1>1. SelectUndone(w) \in World
  BY SelectUndoneTyped
<1>. QED BY <1>1 DEF SelectUndone, Undone, World, Sessions, Rest

LEMMA DoCancelEffect ==
  ASSUME NEW w \in World
  PROVE  LET v == DoCancel(w)
         IN /\ v \in World /\ v.fault = w.fault /\ v.net = w.net /\ v.ao = w.ao /\ Rest(v, w)
            /\ v.ses = Cancelled(w.ses) /\ v.rd = IF w.ses.open THEN Unread(w.rd) ELSE w.rd
<1> DEFINE a == IF w.ses.open THEN CancelReadReq(w) ELSE w
           v == [a EXCEPT !.ses.async = FALSE, !.ses.flushTimer = FALSE]
           k == CommandCancel(v.ses.cmd)
           c == [v EXCEPT !.ses.cmd = k]
           u == SelectUndone(c)
           s == IF u.ses.cmd.flushing THEN "Flushing" ELSE u.ses.state
<1>1. a \in World /\ a.fault = w.fault /\ a.ses = w.ses /\ a.net = w.net /\ a.ao = w.ao
      /\ Rest(a, w) /\ a.rd = IF w.ses.open THEN Unread(w.rd) ELSE w.rd
  BY CancelReadReqEffect, SessionFields DEF Rest
<1>2. DoCancel(w) = IF v.ses.state # "Normal" \/ v.ses.cmd = NoCmd THEN v
                    ELSE [u EXCEPT !.ses.state = s]
  BY DEF DoCancel
<1> HIDE DEF a
<1>3. v \in World
  BY <1>1, SetAsync, SetFlushTimer
<1>4. /\ v.fault = a.fault /\ v.net = a.net /\ v.ao = a.ao /\ Rest(v, a) /\ v.rd = a.rd
      /\ v.ses = [a.ses EXCEPT !.async = FALSE, !.flushTimer = FALSE]
  BY <1>1 DEF World, Rest
<1> HIDE DEF v
<1>5. k \in Commands
  BY <1>3, SessionFields, CommandCancelTyped
<1> HIDE DEF k
<1>6. c \in World
  BY <1>3, <1>5, SetCmd
<1>7. /\ c.fault = v.fault /\ c.net = v.net /\ c.ao = v.ao /\ Rest(c, v) /\ c.rd = v.rd
      /\ c.ses = [v.ses EXCEPT !.cmd = k]
  BY <1>3 DEF World, Rest
<1> HIDE DEF c
<1>8. /\ u \in World /\ u.fault = c.fault /\ u.rd = c.rd /\ u.net = c.net /\ u.ao = c.ao
      /\ Rest(u, c) /\ u.ses = Undone(c.ses)
  BY <1>6, SelectUndoneEffect
<1> HIDE DEF u, s
<1>9. LET d == [u EXCEPT !.ses.state = s]
      IN /\ d.fault = u.fault /\ d.rd = u.rd /\ d.net = u.net /\ d.ao = u.ao
         /\ Rest(d, u) /\ d.ses = [u.ses EXCEPT !.state = s]
  BY <1>8 DEF World, Rest
<1>10. DoCancel(w) \in World
  BY DoCancelTyped
<1>11. v.ses.state = w.ses.state /\ v.ses.cmd = w.ses.cmd /\ v.ses.pending = w.ses.pending
  BY <1>1, <1>4, WorldFields DEF Sessions
<1>12. CASE v.ses.state # "Normal" \/ v.ses.cmd = NoCmd
  <2>1. v.ses = Cancelled(w.ses)
    BY <1>1, <1>4, <1>11, <1>12 DEF Cancelled
  <2>. QED BY <1>1, <1>2, <1>4, <1>10, <1>12, <2>1 DEF Rest
<1>13. CASE ~(v.ses.state # "Normal" \/ v.ses.cmd = NoCmd)
  <2>1. k = CommandCancel(w.ses.cmd)
    BY <1>11 DEF k
  <2>2. u.ses.cmd = k /\ u.ses.state = w.ses.state
    BY <1>3, <1>7, <1>8, <1>11, WorldFields DEF Undone, Sessions
  <2>3. s = IF CommandCancel(w.ses.cmd).flushing THEN "Flushing" ELSE w.ses.state
    BY <2>1, <2>2 DEF s
  <2>4. [u.ses EXCEPT !.state = s] = Cancelled(w.ses)
    <3>1. ~(w.ses.state # "Normal" \/ w.ses.cmd = NoCmd)
      BY <1>11, <1>13
    <3> DEFINE sv == IF w.ses.pending = "Select" THEN "Authenticated" ELSE w.ses.server
               fo == IF w.ses.pending = "Select" THEN NoFolder ELSE w.ses.folder
    <3>2. Cancelled(w.ses) = [w.ses EXCEPT !.async = FALSE, !.flushTimer = FALSE, !.cmd = k,
                                           !.server = sv, !.folder = fo, !.state = s]
      BY <3>1, <2>1, <2>3, WorldFields DEF Cancelled, Sessions
    <3>3. u.ses = [w.ses EXCEPT !.async = FALSE, !.flushTimer = FALSE, !.cmd = k,
                                !.server = sv, !.folder = fo]
      <4>1. w.ses \in Sessions /\ v.ses = [w.ses EXCEPT !.async = FALSE, !.flushTimer = FALSE]
            /\ c.ses = [v.ses EXCEPT !.cmd = k] /\ u.ses = Undone(c.ses)
        BY <1>1, <1>4, <1>7, <1>8, WorldFields
      <4>2. CASE w.ses.pending = "Select"
        BY <4>1, <4>2 DEF Undone, Sessions
      <4>3. CASE w.ses.pending # "Select"
        <5> DEFINE x == [w.ses EXCEPT !.async = FALSE, !.flushTimer = FALSE, !.cmd = k]
        <5>1. u.ses = x
          BY <4>1, <4>3 DEF Undone, Sessions
        <5>2. x \in [DOMAIN x -> {x[i] : i \in DOMAIN x}] /\ x.server = w.ses.server
              /\ x.folder = w.ses.folder /\ sv = w.ses.server /\ fo = w.ses.folder
          BY <4>1, <4>3 DEF Sessions
        <5>3. x = [x EXCEPT !.server = sv, !.folder = fo]
          <6> HIDE DEF x, sv, fo
          <6>. QED BY <5>2
        <5>. QED BY <5>1, <5>3
      <4>. QED BY <4>2, <4>3
    <3> HIDE DEF sv, fo
    <3>. QED BY <3>2, <3>3
  <2>. QED BY <1>1, <1>2, <1>4, <1>7, <1>8, <1>9, <1>10, <1>13, <2>4 DEF Rest
<1>. QED BY <1>12, <1>13

LEMMA SessionCancelEffect ==
  ASSUME NEW w \in World
  PROVE  LET v == SessionCancel(w)
         IN /\ v \in World /\ v.fault = w.fault /\ v.net = w.net /\ Rest(v, w)
            /\ v.ses = [Cancelled(w.ses) EXCEPT !.report = "None"]
            /\ v.rd = IF w.ses.open THEN Unread(w.rd) ELSE w.rd
            /\ v.ao = Answered(w.ao, w.ses.report, KErrCancel)
<1> DEFINE u == DoCancel(w)
<1>1. /\ u \in World /\ u.fault = w.fault /\ u.net = w.net /\ u.ao = w.ao /\ Rest(u, w)
      /\ u.ses = Cancelled(w.ses) /\ u.rd = IF w.ses.open THEN Unread(w.rd) ELSE w.rd
  BY DoCancelEffect
<1> HIDE DEF u
<1>2. u.ses.report = w.ses.report
  BY <1>1, WorldFields DEF Cancelled, Sessions
<1>3. SessionCancel(w) = Complete(u, KErrCancel)
  BY DEF SessionCancel, u
<1>. QED BY <1>1, <1>2, <1>3, CompleteAnswers, CodesAreStatuses DEF Rest

LEMMA DestroyEffect ==
  ASSUME NEW w \in World, NEW err \in Codes
  PROVE  LET v == Destroy(w, err)
         IN /\ v \in World /\ v.fault = w.fault /\ v.rd = w.rd /\ v.net = w.net /\ Rest(v, w)
            /\ v.ses = Ended(w.ses) /\ v.ao = Answered(w.ao, w.ses.report, err)
<1> DEFINE v == Complete(w, err)
           t == IF v.ses.cmd = NoCmd THEN v.ses.tag ELSE v.ses.cmd.tag
<1>1. Destroy(w, err) = [v EXCEPT !.ses.tag = t, !.ses.cmd = NoCmd, !.ses.pending = "None"]
  BY DEF Destroy
<1>2. /\ v \in World /\ v.fault = w.fault /\ v.rd = w.rd /\ v.net = w.net /\ Rest(v, w)
      /\ v.ses = [w.ses EXCEPT !.report = "None"] /\ v.ao = Answered(w.ao, w.ses.report, err)
  BY CompleteAnswers
<1> HIDE DEF v
<1>3. t = IF w.ses.cmd = NoCmd THEN w.ses.tag ELSE w.ses.cmd.tag
  BY <1>2, WorldFields DEF Sessions
<1>4. Destroy(w, err) \in World
  BY DestroyTyped
<1>5. Ended(w.ses) = [w.ses EXCEPT !.report = "None", !.tag = t, !.cmd = NoCmd, !.pending = "None"]
  BY <1>3 DEF Ended
<1> HIDE DEF t
<1>6. LET d == [v EXCEPT !.ses.tag = t, !.ses.cmd = NoCmd, !.ses.pending = "None"]
      IN /\ d.fault = v.fault /\ d.rd = v.rd /\ d.net = v.net /\ Rest(d, v) /\ d.ao = v.ao
         /\ d.ses = [v.ses EXCEPT !.tag = t, !.cmd = NoCmd, !.pending = "None"]
  BY <1>2 DEF World, Rest
<1>. QED BY <1>1, <1>2, <1>4, <1>5, <1>6 DEF Rest

LEMMA GoneFields == ASSUME NEW s \in Sessions PROVE ~Gone(s).open /\ Gone(s).cmd = NoCmd
<1> DEFINE t == IF s.cmd = NoCmd THEN s.tag ELSE s.cmd.tag
<1>1. Gone(s) = [s EXCEPT !.report = "None", !.tag = t, !.cmd = NoCmd, !.pending = "None",
                          !.open = FALSE, !.async = FALSE, !.flushTimer = FALSE]
  BY DEF Gone, Ended, Sessions
<1> HIDE DEF t
<1>. QED BY <1>1 DEF Sessions

LEMMA StreamsClosedEffect ==
  ASSUME NEW w \in World
  PROVE  LET v == StreamsClosed(w)
         IN /\ v \in World /\ v.fault = w.fault /\ Rest(v, w) /\ v.rd = Shut(w.rd) /\ v.net = Cut(w.net)
            /\ v.ses = Gone(w.ses)
            /\ v.ao = Answered(w.ao, w.ses.report, KErrImapClosed)
<1> DEFINE r == Shut(w.rd)
           v == [w EXCEPT !.ses.open = FALSE, !.rd = r,
                          !.net.up = FALSE, !.net.wire = <<>>, !.net.out = <<>>]
           d == Destroy(v, KErrImapClosed)
<1>1. StreamsClosed(w) = DoCancel(d)
  BY DEF StreamsClosed, Shut
<1>2. r \in Readers /\ <<>> \in Seq(Lines) /\ <<>> \in Seq(Sent)
  <2>1. w.rd \in Readers
    BY WorldFields
  <2>2. Shut(w.rd) \in Readers
    BY <2>1 DEF Readers, Shut
  <2>3. <<>> \in Seq(Lines) /\ <<>> \in Seq(Sent)
    OBVIOUS
  <2>. QED BY <2>2, <2>3
<1> HIDE DEF r
<1>3. v \in World
  BY <1>2, SetOpen, SetReader, SetUp, SetWire, SetOut
<1>4. /\ v.fault = w.fault /\ v.rd = r /\ v.net = Cut(w.net) /\ Rest(v, w) /\ v.ao = w.ao
      /\ v.ses = [w.ses EXCEPT !.open = FALSE]
  BY WorldFields DEF World, Nets, Cut, Rest
<1> HIDE DEF v
<1>5. /\ d \in World /\ d.fault = v.fault /\ d.rd = v.rd /\ d.net = v.net /\ Rest(d, v)
      /\ d.ses = Ended(v.ses) /\ d.ao = Answered(v.ao, v.ses.report, KErrImapClosed)
  BY <1>3, DestroyEffect, CodesAreStatuses
<1> HIDE DEF d
<1>6. ~d.ses.open /\ d.ses.cmd = NoCmd /\ v.ses.report = w.ses.report
      /\ d.ses = [Ended(w.ses) EXCEPT !.open = FALSE]
  <2> DEFINE s == [w.ses EXCEPT !.open = FALSE]
             t == IF w.ses.cmd = NoCmd THEN w.ses.tag ELSE w.ses.cmd.tag
  <2>1. w.ses \in Sessions
    BY WorldFields
  <2>2. s.cmd = w.ses.cmd /\ s.tag = w.ses.tag /\ s.report = w.ses.report
    BY <2>1 DEF Sessions
  <2>3. Ended(s) = [s EXCEPT !.report = "None", !.tag = t, !.cmd = NoCmd, !.pending = "None"]
        /\ Ended(w.ses) = [w.ses EXCEPT !.report = "None", !.tag = t, !.cmd = NoCmd, !.pending = "None"]
    BY <2>2 DEF Ended
  <2> HIDE DEF t
  <2>4. Ended(s) = [Ended(w.ses) EXCEPT !.open = FALSE] /\ ~Ended(s).open /\ Ended(s).cmd = NoCmd
    BY <2>1, <2>3, ZenonT(60) DEF Sessions
  <2> HIDE DEF s
  <2>5. v.ses = s /\ d.ses = Ended(s)
    BY <1>4, <1>5 DEF s
  <2>. QED BY <2>2, <2>4, <2>5
<1>7. Cancelled(d.ses) = [d.ses EXCEPT !.async = FALSE, !.flushTimer = FALSE]
  BY <1>6 DEF Cancelled
<1> DEFINE e == DoCancel(d)
<1>8. /\ e \in World /\ e.fault = d.fault /\ e.net = d.net /\ e.ao = d.ao /\ Rest(e, d)
      /\ e.ses = Cancelled(d.ses) /\ e.rd = IF d.ses.open THEN Unread(d.rd) ELSE d.rd
  BY <1>5, DoCancelEffect
<1> HIDE DEF e
<1>9. e.ses = [Ended(w.ses) EXCEPT !.open = FALSE, !.async = FALSE, !.flushTimer = FALSE]
  BY <1>6, <1>7, <1>8
<1>10. e.rd = Shut(w.rd) /\ e.net = Cut(w.net)
  BY <1>4, <1>5, <1>6, <1>8 DEF r
<1>11. e.ao = Answered(w.ao, w.ses.report, KErrImapClosed)
  BY <1>4, <1>5, <1>6, <1>8
<1>12. StreamsClosed(w) = e
  BY <1>1 DEF e
<1>13. e.ses = Gone(w.ses)
  BY <1>9 DEF Gone
<1>. QED BY <1>4, <1>5, <1>8, <1>10, <1>11, <1>12, <1>13 DEF Rest

\* Input that is there is processed, or else a read is asked for.
FedSession(s) == IF s.input # <<>> THEN [s EXCEPT !.async = TRUE] ELSE Asked(s)
FedReader(s, r) == IF s.input # <<>> THEN r ELSE ReadWith(r, s.pending = "IdleDone")

LEMMA FeedEffect ==
  ASSUME NEW w \in World, Feed(w).fault = "None"
  PROVE  LET v == Feed(w)
         IN /\ w.fault = "None" /\ ~w.ses.async /\ (w.ses.input = <<>> => w.rd.state = "Idle")
            /\ v \in World /\ v.net = w.net /\ v.ao = w.ao /\ Rest(v, w)
            /\ v.ses = FedSession(w.ses) /\ v.rd = FedReader(w.ses, w.rd)
<1>1. CASE w.ses.input # <<>>
  BY <1>1, AsyncEffect DEF Feed, FedSession, FedReader
<1>2. CASE w.ses.input = <<>>
  BY <1>2, RequestReadDataEffect DEF Feed, FedSession, FedReader
<1>. QED BY <1>1, <1>2

\* The request is answered at once.
LEMMA InstantEffect ==
  ASSUME NEW w \in World, NEW who \in Objects, NEW err \in Codes
  PROVE  LET v == Complete(Queue(w, who), err)
             one == IF w.ses.report = "None" THEN who ELSE w.ses.report
         IN /\ v \in World /\ v.fault = w.fault /\ v.rd = w.rd /\ v.net = w.net /\ Rest(v, w)
            /\ v.ses = [w.ses EXCEPT !.report = "None"] /\ one \in Objects
            /\ v.ao = [w.ao EXCEPT ![one].status = err]
<1> DEFINE q == Queue(w, who)
           v == Complete(q, err)
<1>1. /\ q \in World /\ q.fault = w.fault /\ q.rd = w.rd /\ q.net = w.net /\ Rest(q, w)
      /\ w.ses.report # "None" => q = w
      /\ w.ses.report = "None" => /\ q.ses = [w.ses EXCEPT !.report = who]
                                  /\ q.ao = [w.ao EXCEPT ![who].status = KRequestPending]
  BY QueueEffect
<1> HIDE DEF q
<1>2. /\ v \in World /\ v.fault = q.fault /\ v.rd = q.rd /\ v.net = q.net /\ Rest(v, q)
      /\ v.ses = [q.ses EXCEPT !.report = "None"] /\ v.ao = Answered(q.ao, q.ses.report, err)
  BY <1>1, CompleteAnswers
<1> HIDE DEF v
<1>3. "None" \notin Objects
  BY DEF Objects
<1>4. CASE w.ses.report # "None"
  <2>1. w.ses.report \in Objects
    BY <1>4, SessionFields
  <2>. QED BY <1>1, <1>2, <1>4, <2>1 DEF Answered, Rest, v, q
<1>5. CASE w.ses.report = "None"
  <2>1. q.ses.report = who /\ who # "None"
    BY <1>1, <1>3, <1>5, WorldFields DEF Sessions
  <2>2. v.ses = [w.ses EXCEPT !.report = "None"]
    BY <1>1, <1>2, <1>5, WorldFields DEF Sessions
  <2>3. v.ao = [w.ao EXCEPT ![who].status = err]
    <3>1. v.ao = [[w.ao EXCEPT ![who].status = KRequestPending] EXCEPT ![who].status = err]
      BY <1>1, <1>2, <1>5, <2>1 DEF Answered
    <3>2. w.ao \in ActiveObjects
      BY WorldFields
    <3>. QED BY <3>1, <3>2 DEF ActiveObjects
  <2>. QED BY <1>1, <1>2, <1>5, <2>2, <2>3 DEF Rest, v, q
<1>. QED BY <1>4, <1>5

\* A command of the session.
Command(kind, t) ==
  [kind |-> kind, tag |-> IF kind = "Wait" THEN 0 ELSE t, flushing |-> FALSE,
   idle |-> IF kind = "Idle" THEN "WaitContinue" ELSE "None"]

LEMMA SendEffect ==
  ASSUME NEW w \in World, NEW verb \in Verbs, NEW box \in Boxes \cup {NoBox}
  PROVE  LET v == Send(w, verb, box)
             c == [verb |-> verb, tag |-> w.ses.cmd.tag, box |-> box]
         IN /\ v \in World /\ v.fault = w.fault /\ v.ses = w.ses /\ v.rd = w.rd /\ v.ao = w.ao
            /\ Rest(v, w) /\ c \in Sent
            /\ v.net = IF w.net.up THEN [w.net EXCEPT !.out = Append(@, c)] ELSE w.net
<1> DEFINE c == [verb |-> verb, tag |-> w.ses.cmd.tag, box |-> box]
<1>1. c \in Sent
  BY SessionFields DEF Sent, Commands, Verbs
<1>2. Send(w, verb, box) = IF ~w.net.up THEN w ELSE [w EXCEPT !.net.out = Append(w.net.out, c)]
  BY DEF Send
<1>3. Send(w, verb, box) \in World
  BY SendTyped
<1> HIDE DEF c
<1> DEFINE s == Append(w.net.out, c)
<1>4. LET v == [w EXCEPT !.net.out = s]
      IN /\ v.fault = w.fault /\ v.ses = w.ses /\ v.rd = w.rd /\ v.ao = w.ao /\ Rest(v, w)
         /\ v.net = [w.net EXCEPT !.out = s]
  <2> HIDE DEF s
  <2>. QED BY DEF World, Rest
<1>5. w.net.up \in BOOLEAN
  BY NetFields
<1>. QED BY <1>1, <1>2, <1>3, <1>4, <1>5 DEF Rest, c

LEMMA CanStartHolds ==
  ASSUME NEW w \in World, CanStart(w).fault = "None"
  PROVE  /\ CanStart(w) = w /\ w.fault = "None" /\ w.ses.cmd = NoCmd /\ ~IsReading(w)
         /\ w.ses.state = "Normal"
<1> DEFINE a == Expect(w, w.ses.cmd = NoCmd, "SessionNotNullCurrentCommand")
           b == Expect(a, ~IsReading(w), "SessionBadInputStreamState")
<1>1. a \in World /\ b \in World
  BY ExpectTyped, Names
<1>2. CanStart(w) = Expect(b, w.ses.state = "Normal", "SessionInvalidSessionState")
  BY DEF CanStart
<1> HIDE DEF b
<1>3. w.ses.state = "Normal" /\ CanStart(w) = b /\ b.fault = "None"
  <2> DEFINE ok == w.ses.state = "Normal"
  <2>1. ok \in BOOLEAN /\ CanStart(w) = Expect(b, ok, "SessionInvalidSessionState")
    BY <1>2
  <2> HIDE DEF ok
  <2>2. ok /\ CanStart(w) = b /\ b.fault = "None"
    BY <1>1, <2>1, ExpectHolds, Names
  <2>. QED BY <2>2 DEF ok
<1> HIDE DEF a
<1>4. ~IsReading(w) /\ b = a /\ a.fault = "None"
  <2>1. (~IsReading(w)) \in BOOLEAN
    BY DEF IsReading
  <2>. QED BY <1>1, <1>3, <2>1, ExpectHolds, Names DEF b
<1>5. w.ses.cmd = NoCmd /\ a = w /\ w.fault = "None"
  BY <1>4, ExpectHolds, Names DEF a
<1>. QED BY <1>3, <1>4, <1>5

\* What is sent for a command, and the session and the connection once it has been.
Sending(verb, t, box) == [verb |-> verb, tag |-> t, box |-> box]
SentTo(n, kind, c) == IF kind # "Wait" /\ n.up THEN [n EXCEPT !.out = Append(@, c)] ELSE n
Asking(a, report, who) ==
  IF report = "None" THEN [a EXCEPT ![who].status = KRequestPending] ELSE a
StartedSession(s, who, kind) ==
  LET t == NextTag(s.tag)
      f == FedSession([s EXCEPT !.cmd = Command(kind, t), !.tag = t])
  IN IF s.report = "None" THEN [f EXCEPT !.report = who] ELSE f

\* v is w after a command has been started.
HasStarted(v, w, who, kind, verb, box) ==
  LET t == NextTag(w.ses.tag)
  IN /\ w.fault = "None" /\ w.ses.cmd = NoCmd /\ ~IsReading(w) /\ w.ses.state = "Normal"
     /\ ~w.ses.async /\ (w.ses.input = <<>> => w.rd.state = "Idle")
     /\ v \in World /\ Rest(v, w) /\ t \in 1 .. TagModulus
     /\ v.ses = StartedSession(w.ses, who, kind)
     /\ v.rd = FedReader(w.ses, w.rd)
     /\ v.net = SentTo(w.net, kind, Sending(verb, t, box))
     /\ v.ao = Asking(w.ao, w.ses.report, who)

\* A command is started by a session that has none and does not read; the request is queued.
LEMMA StartEffect ==
  ASSUME NEW w \in World, NEW who \in Objects, NEW kind \in {"Select", "Fetch", "Idle", "Wait"},
         NEW verb, kind = "Wait" \/ verb \in Verbs, NEW box \in Boxes \cup {NoBox},
         StartCommandL(w, who, kind, verb, box).fault = "None"
  PROVE  HasStarted(StartCommandL(w, who, kind, verb, box), w, who, kind, verb, box)
<1> DEFINE u == CanStart(w)
           t == NextTag(u.ses.tag)
           k == [NoCmd EXCEPT !.kind = kind, !.tag  = IF kind = "Wait" THEN 0 ELSE t,
                              !.idle = IF kind = "Idle" THEN "WaitContinue" ELSE @]
           s == [u EXCEPT !.ses.cmd = k, !.ses.tag = t]
           f == IF kind = "Wait" THEN s ELSE Send(s, verb, box)
           g == Feed(f)
           v == Queue(g, who)
<1>1. StartCommandL(w, who, kind, verb, box) = v
  BY DEF StartCommandL
<1>2. u \in World
  BY AssertedTyped
<1> HIDE DEF u
<1>3. t \in 1 .. TagModulus /\ TagModulus \in Nat
  BY <1>2, SessionFields, NextTagTyped, SessionAssumption
<1> HIDE DEF t
<1>4. k = Command(kind, t)
  <2> DEFINE tt == IF kind = "Wait" THEN 0 ELSE t
             ii == IF kind = "Idle" THEN "WaitContinue" ELSE "None"
  <2>1. NoCmd.idle = "None"
    BY DEF NoCmd
  <2>2. k = [NoCmd EXCEPT !.kind = kind, !.tag = tt, !.idle = ii]
    BY <2>1
  <2>3. Command(kind, t) = [kind |-> kind, tag |-> tt, flushing |-> FALSE, idle |-> ii]
    BY DEF Command
  <2> HIDE DEF tt, ii, k
  <2>4. k = [kind |-> kind, tag |-> tt, flushing |-> FALSE, idle |-> ii]
    BY <2>2 DEF NoCmd
  <2>. QED BY <2>3, <2>4
<1>5. k \in Commands
  <2>1. (IF kind = "Wait" THEN 0 ELSE t) \in 0 .. TagModulus
    BY <1>3
  <2> HIDE DEF k
  <2>. QED BY <1>4, <2>1 DEF Command, Commands
<1> HIDE DEF k
<1>6. s \in World
  <2>1. t \in 0 .. TagModulus
    BY <1>3
  <2>. QED BY <1>2, <1>5, <2>1, SetCmd, SetTag
<1>7. /\ s.fault = u.fault /\ s.rd = u.rd /\ s.net = u.net /\ s.ao = u.ao /\ Rest(s, u)
      /\ s.ses = [u.ses EXCEPT !.cmd = k, !.tag = t]
  BY <1>2 DEF World, Rest
<1> HIDE DEF s
<1>8. s.ses.cmd = k /\ s.ses.input = u.ses.input /\ s.ses.pending = u.ses.pending
      /\ s.ses.async = u.ses.async /\ s.ses.report = u.ses.report
  BY <1>2, <1>7, WorldFields DEF Sessions
<1> DEFINE c == [verb |-> verb, tag |-> s.ses.cmd.tag, box |-> box]
<1>9. /\ f \in World /\ f.fault = s.fault /\ f.ses = s.ses /\ f.rd = s.rd /\ f.ao = s.ao /\ Rest(f, s)
      /\ f.net = IF kind # "Wait" /\ s.net.up THEN [s.net EXCEPT !.out = Append(@, c)] ELSE s.net
  <2>1. CASE kind = "Wait"
    BY <1>6, <2>1 DEF Rest
  <2>2. CASE kind # "Wait"
    BY <1>6, <2>2, SendEffect
  <2>. QED BY <2>1, <2>2
<1> HIDE DEF f
<1>10. g \in World
  BY <1>9, FeedTyped
<1>11. /\ v \in World /\ v.fault = g.fault /\ v.rd = g.rd /\ v.net = g.net /\ Rest(v, g)
       /\ g.ses.report # "None" => v = g
       /\ g.ses.report = "None" => /\ v.ses = [g.ses EXCEPT !.report = who]
                                   /\ v.ao = [g.ao EXCEPT ![who].status = KRequestPending]
  <2> HIDE DEF g
  <2>. QED BY <1>10, QueueEffect
<1>12. g.fault = "None"
  BY <1>1, <1>11
<1>13. /\ f.fault = "None" /\ ~f.ses.async /\ (f.ses.input = <<>> => f.rd.state = "Idle")
       /\ g.net = f.net /\ g.ao = f.ao /\ Rest(g, f)
       /\ g.ses = FedSession(f.ses) /\ g.rd = FedReader(f.ses, f.rd)
  BY <1>9, <1>12, FeedEffect
<1> HIDE DEF g, v
<1>14. u = w /\ w.fault = "None" /\ w.ses.cmd = NoCmd /\ ~IsReading(w) /\ w.ses.state = "Normal"
  <2>1. u.fault = "None"
    BY <1>7, <1>9, <1>13
  <2>. QED BY <2>1, CanStartHolds DEF u
<1>15. g.ses.report = w.ses.report
  BY <1>8, <1>9, <1>13, <1>14, WorldFields DEF FedSession, Asked, Sessions
<1>16. FedReader(f.ses, f.rd) = FedReader(w.ses, w.rd)
  BY <1>7, <1>8, <1>9, <1>14 DEF FedReader
<1>17. kind # "Wait" => s.ses.cmd.tag = t
  BY <1>4, <1>8 DEF Command
<1>18. t = NextTag(w.ses.tag)
  BY <1>14 DEF t
<1>19. g.ses = FedSession([w.ses EXCEPT !.cmd = Command(kind, t), !.tag = t])
  BY <1>4, <1>7, <1>9, <1>13, <1>14
<1>20. v.ses = IF w.ses.report = "None" THEN [g.ses EXCEPT !.report = who] ELSE g.ses
  BY <1>11, <1>15
<1>21. v.net = IF kind # "Wait" /\ w.net.up
               THEN [w.net EXCEPT !.out = Append(@, [verb |-> verb, tag |-> t, box |-> box])] ELSE w.net
  BY <1>7, <1>9, <1>11, <1>13, <1>14, <1>17
<1>22. v.ao = IF w.ses.report = "None" THEN [w.ao EXCEPT ![who].status = KRequestPending] ELSE w.ao
  BY <1>7, <1>9, <1>11, <1>13, <1>14, <1>15
<1>23. Rest(v, w) /\ v.rd = FedReader(w.ses, w.rd)
  BY <1>7, <1>9, <1>11, <1>13, <1>14, <1>16 DEF Rest
<1>24. ~w.ses.async /\ (w.ses.input = <<>> => w.rd.state = "Idle")
  BY <1>7, <1>8, <1>9, <1>13, <1>14
<1> HIDE DEF t
<1>25. v.ses = StartedSession(w.ses, who, kind)
  BY <1>18, <1>19, <1>20, ZenonT(60) DEF StartedSession
<1>26. v.net = SentTo(w.net, kind, Sending(verb, t, box))
  BY <1>21, ZenonT(60) DEF SentTo, Sending
<1>27. v.ao = Asking(w.ao, w.ses.report, who)
  BY <1>22, ZenonT(60) DEF Asking
<1>. QED BY <1>1, <1>3, <1>11, <1>14, <1>18, <1>23, <1>24, <1>25, <1>26, <1>27
     DEF HasStarted

-----------------------------------------------------------------------------
(* What the soundness of the wire says, and what preserves it              *)

LEMMA QuietWired ==
  ASSUME NEW cmd, NEW folder, NEW input, NEW buf, NEW n,
         Quiet(input), Quiet(buf), Quiet(n.wire),
         Outgoing(cmd, folder, n), Modes(cmd, folder, n)
  PROVE  Wired(cmd, folder, input, buf, n)
  BY QuietFits DEF Wired

\* Nothing is on its way to a command that waits for no answer.
LEMMA FreeQuiet ==
  ASSUME NEW cmd, NEW folder, NEW input, NEW buf, NEW n \in Nets,
         Wired(cmd, folder, input, buf, n), Expected(cmd) = {}, Verb(cmd) = "none"
  PROVE  Quiet(input) /\ Quiet(buf) /\ Quiet(n.wire) /\ n.out = <<>>
<1>1. ASSUME NEW s, AllFit(cmd, folder, n, s) PROVE Quiet(s)
  BY <1>1 DEF AllFit, Fits, Quiet
<1>2. n.out = <<>>
  <2> SUFFICES ASSUME n.out # <<>> PROVE FALSE
    OBVIOUS
  <2>1. n.out \in Seq(Sent) /\ Head(n.out) \in Sent
    BY HeadTailProperties DEF Nets
  <2>2. Head(n.out).verb = "none"
    BY DEF Wired, Outgoing
  <2>. QED BY <2>1, <2>2 DEF Sent
<1>. QED BY <1>1, <1>2 DEF Wired

\* Less is asked of the wire when the mailbox is no longer known, or the command is flushed.
LEMMA WiredWeaker ==
  ASSUME NEW cmd, NEW d, NEW folder, NEW g, NEW input, NEW buf, NEW n,
         Wired(cmd, folder, input, buf, n),
         d.kind = cmd.kind, d.idle = cmd.idle, d.tag = cmd.tag,
         g # NoFolder => folder # NoFolder /\ g.box = folder.box
  PROVE  Wired(d, g, input, buf, n)
<1>1. Expected(d) = Expected(cmd) /\ Verb(d) = Verb(cmd)
  BY DEF Expected, Verb
<1>2. ASSUME NEW s, AllFit(cmd, folder, n, s) PROVE AllFit(d, g, n, s)
  BY <1>1, <1>2 DEF AllFit, Fits
<1>3. Outgoing(d, g, n)
  BY <1>1 DEF Wired, Outgoing
<1>4. Modes(d, g, n)
  BY DEF Wired, Modes
<1>. QED BY <1>2, <1>3, <1>4 DEF Wired

\* Once the line that answers it has been taken, a command is done with.
LEMMA LineTaken ==
  ASSUME NEW cmd, NEW folder, NEW input \in Seq(Lines), NEW buf, NEW n, input # <<>>,
         Wired(cmd, folder, input, buf, n)
  PROVE  /\ Wired(cmd, folder, Tail(input), buf, n) /\ Fits(cmd, folder, n, Head(input))
         /\ Head(input).kind # "exists" =>
              Quiet(Tail(input)) /\ Quiet(buf) /\ Quiet(n.wire) /\ n.out = <<>>
<1>1. /\ AllFit(cmd, folder, n, Tail(input)) /\ Fits(cmd, folder, n, Head(input))
      /\ Head(input).kind # "exists" => Quiet(Tail(input)) /\ ~Quiet(input)
      /\ Quiet(input) => Quiet(Tail(input))
  BY TailFits DEF Wired
<1>. QED BY <1>1 DEF Wired

\* A session that is not open has no command and no connection.
LEMMA FreeCommand ==
  /\ Expected(NoCmd) = {} /\ Verb(NoCmd) = "none" /\ NoCmd.kind = "None" /\ ~NoCmd.flushing
  /\ NoCmd.idle = "None"
  /\ \A cmd : cmd.kind = "Wait" => Expected(cmd) = {} /\ Verb(cmd) = "none"
  /\ \A cmd : cmd.kind = "Idle" /\ cmd.idle = "WaitResponse" =>
                Expected(cmd) = {} /\ Verb(cmd) = "none"
  BY DEF Expected, Verb, NoCmd

-----------------------------------------------------------------------------
(* The worlds in which session, reader, connection and server agree        *)

Good == {w \in World : w.fault = "None" => Sound(w)}

LEMMA GoodSame ==
  ASSUME NEW w \in Good, NEW v \in World, v.fault = "None" => w.fault = "None" /\ Same(v, w)
  PROVE  v \in Good
  BY SoundSame DEF Good

LEMMA GoodClosed ==
  ASSUME NEW v \in World, ~v.ses.open, ~v.net.up, v.ses.cmd = NoCmd
  PROVE  v \in Good
  BY DEF Good, Sound

LEMMA GoodFault ==
  ASSUME NEW w \in Good, NEW name \in Assertions
  PROVE  [w EXCEPT !.fault = name] \in Good
<1>1. [w EXCEPT !.fault = name] \in World /\ "None" \notin Assertions
  BY SetFault DEF Good, Assertions
<1>2. [w EXCEPT !.fault = name].fault = name
  BY DEF Good, World
<1>. QED BY <1>1, <1>2 DEF Good

LEMMA GoodExpect ==
  ASSUME NEW w \in Good, NEW ok, NEW name \in Assertions
  PROVE  Expect(w, ok, name) \in Good
  BY GoodFault DEF Expect

LEMMA GoodBeside == ASSUME NEW w \in Good, NEW v \in World, Beside(v, w) PROVE v \in Good
  BY GoodSame DEF Beside, Same

\* Two sessions that differ in who waits for them and in their timers.
Alike(s, t) ==
  /\ s.open = t.open /\ s.cmd = t.cmd /\ s.folder = t.folder /\ s.input = t.input
  /\ s.state = t.state /\ s.pending = t.pending /\ s.server = t.server

LEMMA SessionsAlike ==
  ASSUME NEW s \in Sessions, NEW x, NEW y
  PROVE  /\ Alike([s EXCEPT !.report = x], s) /\ Alike([s EXCEPT !.async = x], s)
         /\ Alike([s EXCEPT !.flushTimer = x], s)
         /\ Alike([s EXCEPT !.async = x, !.flushTimer = y], s)
  BY DEF Sessions, Alike

LEMMA GoodAlike ==
  ASSUME NEW w \in Good, NEW v \in World,
         v.fault = "None" => w.fault = "None" /\ Alike(v.ses, w.ses) /\ v.rd.buf = w.rd.buf
                             /\ v.net = w.net
  PROVE  v \in Good
  BY GoodSame DEF Same, Alike

LEMMA GoodQueue == ASSUME NEW w \in Good, NEW who \in Objects PROVE Queue(w, who) \in Good
<1> DEFINE v == Queue(w, who)
<1>1. w \in World /\ w.ses \in Sessions
  BY WorldFields DEF Good
<1>2. /\ v \in World /\ v.fault = w.fault /\ v.rd = w.rd /\ v.net = w.net
      /\ w.ses.report # "None" => v = w
      /\ w.ses.report = "None" => v.ses = [w.ses EXCEPT !.report = who]
  BY <1>1, QueueEffect
<1> HIDE DEF v
<1>3. v \in Good
  <2>1. CASE w.ses.report # "None"
    BY <1>2, <2>1
  <2>2. CASE w.ses.report = "None"
    <3>1. Alike(v.ses, w.ses)
      BY <1>1, <1>2, <2>2, SessionsAlike, ZenonT(60)
    <3>. QED BY <1>2, <3>1, GoodAlike
  <2>. QED BY <2>1, <2>2
<1>. QED BY <1>3 DEF v

LEMMA GoodComplete == ASSUME NEW w \in Good, NEW err \in Codes PROVE Complete(w, err) \in Good
<1> DEFINE v == Complete(w, err)
<1>1. w \in World /\ w.ses \in Sessions
  BY WorldFields DEF Good
<1>2. /\ v \in World /\ v.fault = w.fault /\ v.rd = w.rd /\ v.net = w.net
      /\ v.ses = [w.ses EXCEPT !.report = "None"]
  BY <1>1, CompleteEffect
<1> HIDE DEF v
<1>3. Alike(v.ses, w.ses)
  <2>1. Alike([w.ses EXCEPT !.report = "None"], w.ses)
    BY <1>1, SessionsAlike, ZenonT(60)
  <2>. QED BY <1>2, <2>1
<1>4. v \in Good
  BY <1>2, <1>3, GoodAlike
<1>. QED BY <1>4 DEF v

LEMMA GoodAsync == ASSUME NEW w \in Good PROVE ProcessInputBufferAsync(w) \in Good
<1> DEFINE v == ProcessInputBufferAsync(w)
<1>1. w \in World /\ v \in World /\ w.ses \in Sessions
  BY AsyncTyped, WorldFields DEF Good
<1>2. v.fault = "None" => /\ w.fault = "None" /\ v.rd = w.rd /\ v.net = w.net
                          /\ v.ses = [w.ses EXCEPT !.async = TRUE]
  BY <1>1, AsyncEffect
<1> HIDE DEF v
<1>3. v.fault = "None" => Alike(v.ses, w.ses)
  BY <1>1, <1>2, SessionsAlike, ZenonT(60)
<1>4. v \in Good
  BY <1>1, <1>2, <1>3, GoodAlike
<1>. QED BY <1>4 DEF v

\* Asking for input ends the wait for the answer to DONE, as far as the session remembers.
LEMMA AskedSound ==
  ASSUME NEW w \in World, NEW v \in World, Sound(w),
         v.ses = Asked(w.ses), v.rd.buf = w.rd.buf, v.net = w.net
  PROVE  Sound(v)
<1> DEFINE p == IF w.ses.pending = "IdleDone" THEN "None" ELSE w.ses.pending
           f == w.ses.flushTimer \/ w.ses.state = "Flushing"
<1>1. v.ses = [w.ses EXCEPT !.pending = p, !.flushTimer = f]
  BY WorldFields DEF Asked, Sessions
<1>2. p = "None" \/ p = w.ses.pending
  OBVIOUS
<1>3. w.ses.pending = "IdleDone" => p = "None"
  OBVIOUS
<1> HIDE DEF p, f
<1>4. /\ v.ses.open = w.ses.open /\ v.ses.cmd = w.ses.cmd /\ v.ses.folder = w.ses.folder
      /\ v.ses.input = w.ses.input /\ v.ses.state = w.ses.state
      /\ v.ses.pending = p /\ v.ses.server = w.ses.server
  BY <1>1, WorldFields DEF Sessions
<1>5. CASE ~w.ses.open
  BY <1>4, <1>5 DEF Sound
<1>6. CASE w.ses.open
  <2>1. Shaped(w.ses.cmd, w.ses.state, w.ses.pending, w.ses.folder, w.ses.server)
    BY <1>6 DEF Sound
  <2>2. Shaped(w.ses.cmd, w.ses.state, p, w.ses.folder, w.ses.server)
    <3>1. CASE w.ses.pending = "IdleDone"
      BY <1>3, <2>1, <3>1 DEF Shaped
    <3>2. CASE w.ses.pending # "IdleDone"
      BY <2>1, <3>2 DEF p
    <3>. QED BY <3>1, <3>2
  <2>. QED BY <1>4, <1>6, <2>2 DEF Sound
<1>. QED BY <1>5, <1>6

LEMMA GoodRequestReadData == ASSUME NEW w \in Good PROVE RequestReadData(w) \in Good
<1> DEFINE v == RequestReadData(w)
<1>1. w \in World /\ v \in World /\ w.rd \in Readers
  BY RequestReadDataTyped, WorldFields DEF Good
<1>2. v.fault = "None" => /\ w.fault = "None" /\ v.ses = Asked(w.ses) /\ v.net = w.net
                          /\ v.rd = ReadWith(w.rd, w.ses.pending = "IdleDone")
  BY <1>1, RequestReadDataEffect
<1> HIDE DEF v
<1>3. \A b : ReadWith(w.rd, b).buf = w.rd.buf
  BY <1>1 DEF ReadWith, Readers
<1>4. v \in Good
  BY <1>1, <1>2, <1>3, AskedSound DEF Good
<1>. QED BY <1>4 DEF v

LEMMA GoodFeed == ASSUME NEW w \in Good PROVE Feed(w) \in Good
  BY GoodAsync, GoodRequestReadData DEF Feed

(* Ends of commands                                                        *)

LEMMA CommandCancelFields ==
  ASSUME NEW c \in Commands
  PROVE  LET d == CommandCancel(c)
         IN /\ d.kind = c.kind /\ d.idle = c.idle /\ d.tag = c.tag
            /\ d.flushing <=> c.flushing \/ ~(c.kind = "Idle" /\ c.idle = "WaitResponse")
  BY DEF Commands, CommandCancel

LEMMA CancelledFields ==
  ASSUME NEW s \in Sessions
  PROVE  LET c == Cancelled(s)
             sel == s.pending = "Select"
         IN /\ c.open = s.open /\ c.input = s.input /\ c.pending = s.pending
            /\ s.state # "Normal" \/ s.cmd = NoCmd =>
                 /\ c.cmd = s.cmd /\ c.folder = s.folder /\ c.state = s.state
                 /\ c.server = s.server
            /\ ~(s.state # "Normal" \/ s.cmd = NoCmd) =>
                 /\ c.cmd = CommandCancel(s.cmd)
                 /\ c.folder = IF sel THEN NoFolder ELSE s.folder
                 /\ c.state = IF CommandCancel(s.cmd).flushing THEN "Flushing" ELSE "Normal"
                 /\ c.server = IF sel THEN "Authenticated" ELSE s.server
<1> DEFINE k == CommandCancel(s.cmd)
           fo == IF s.pending = "Select" THEN NoFolder ELSE s.folder
           sv == IF s.pending = "Select" THEN "Authenticated" ELSE s.server
           st == IF k.flushing THEN "Flushing" ELSE s.state
<1>1. CASE s.state # "Normal" \/ s.cmd = NoCmd
  <2>1. Cancelled(s) = [s EXCEPT !.async = FALSE, !.flushTimer = FALSE]
    BY <1>1 DEF Cancelled
  <2>. QED BY <1>1, <2>1 DEF Sessions
<1>2. CASE ~(s.state # "Normal" \/ s.cmd = NoCmd)
  <2>1. Cancelled(s) = [s EXCEPT !.async = FALSE, !.flushTimer = FALSE, !.cmd = k,
                                 !.server = sv, !.folder = fo, !.state = st]
    BY <1>2 DEF Cancelled, Sessions
  <2> HIDE DEF k, fo, sv, st
  <2>2. /\ Cancelled(s).open = s.open /\ Cancelled(s).input = s.input
        /\ Cancelled(s).pending = s.pending /\ Cancelled(s).cmd = k /\ Cancelled(s).folder = fo
        /\ Cancelled(s).state = st /\ Cancelled(s).server = sv
    BY <2>1 DEF Sessions
  <2>. QED BY <1>2, <2>2 DEF k, fo, sv, st
<1>. QED BY <1>1, <1>2

\* A command that is cancelled is flushed; one that the server idles in is left alone.
LEMMA ShapedCancel ==
  ASSUME NEW c \in Commands, NEW folder, NEW server,
         NEW pending \in {"None", "Select", "IdleEnter", "IdleWait", "IdleDone"},
         c # NoCmd, Shaped(c, "Normal", pending, folder, server)
  PROVE  Shaped(CommandCancel(c), IF CommandCancel(c).flushing THEN "Flushing" ELSE "Normal",
                pending, IF pending = "Select" THEN NoFolder ELSE folder,
                IF pending = "Select" THEN "Authenticated" ELSE server)
<1> DEFINE d == CommandCancel(c)
           fo == IF pending = "Select" THEN NoFolder ELSE folder
           sv == IF pending = "Select" THEN "Authenticated" ELSE server
           st == IF d.flushing THEN "Flushing" ELSE "Normal"
<1>1. /\ d.kind = c.kind /\ d.idle = c.idle /\ d.tag = c.tag
      /\ d.flushing <=> c.flushing \/ ~(c.kind = "Idle" /\ c.idle = "WaitResponse")
  BY CommandCancelFields
<1> HIDE DEF d
<1>2. pending = "Select" => c.kind = "Select"
  BY DEF Shaped
<1>3. Shaped(d, st, pending, fo, sv)
  <2>1. (d.flushing <=> st = "Flushing") /\ st # "Unrecoverable"
    OBVIOUS
  <2>2. fo # NoFolder /\ d.kind # "Select" => sv = "Selected"
    BY <1>1, <1>2 DEF Shaped
  <2>3. c.kind = "Select" => pending = "Select" /\ fo = NoFolder
    BY DEF Shaped
  <2> HIDE DEF fo, sv, st
  <2>. QED BY <1>1, <2>1, <2>2, <2>3 DEF Shaped
<1>. QED BY <1>3 DEF d

LEMMA CancelledSound ==
  ASSUME NEW w \in World, NEW v \in World, Sound(w), Alike(v.ses, Cancelled(w.ses)),
         v.rd.buf = w.rd.buf, v.net = w.net
  PROVE  Sound(v)
<1> DEFINE s == w.ses
           c == Cancelled(s)
           sel == s.pending = "Select"
<1>1. /\ s \in Sessions /\ s.cmd \in Commands /\ s.open \in BOOLEAN
      /\ s.pending \in {"None", "Select", "IdleEnter", "IdleWait", "IdleDone"}
  BY WorldFields, SessionFields
<1>2. /\ c.open = s.open /\ c.input = s.input /\ c.pending = s.pending
      /\ s.state # "Normal" \/ s.cmd = NoCmd =>
           c.cmd = s.cmd /\ c.folder = s.folder /\ c.state = s.state /\ c.server = s.server
      /\ ~(s.state # "Normal" \/ s.cmd = NoCmd) =>
           /\ c.cmd = CommandCancel(s.cmd) /\ c.folder = IF sel THEN NoFolder ELSE s.folder
           /\ c.state = IF CommandCancel(s.cmd).flushing THEN "Flushing" ELSE "Normal"
           /\ c.server = IF sel THEN "Authenticated" ELSE s.server
  BY <1>1, CancelledFields
<1> HIDE DEF c
<1>3. Alike(v.ses, c)
  BY DEF c
<1>4. CASE s.state # "Normal" \/ s.cmd = NoCmd
  <2>1. Same(v, w)
    BY <1>2, <1>3, <1>4 DEF Same, Alike
  <2>. QED BY <2>1, SoundSame
<1>5. CASE ~(s.state # "Normal" \/ s.cmd = NoCmd)
  <2>1. s.open
    BY <1>1, <1>5 DEF Sound
  <2>2. /\ Wired(s.cmd, s.folder, s.input, w.rd.buf, w.net)
        /\ Shaped(s.cmd, "Normal", s.pending, s.folder, s.server)
    BY <1>5, <2>1 DEF Sound
  <2> HIDE DEF s
  <2>3. Shaped(c.cmd, c.state, c.pending, c.folder, c.server)
    <3>1. s.cmd # NoCmd
      BY <1>5
    <3>. QED BY <1>1, <1>2, <1>5, <2>2, <3>1, ShapedCancel
  <2>4. c.cmd.kind = s.cmd.kind /\ c.cmd.idle = s.cmd.idle /\ c.cmd.tag = s.cmd.tag
    BY <1>1, <1>2, <1>5, CommandCancelFields
  <2>5. Wired(c.cmd, c.folder, c.input, v.rd.buf, v.net)
    <3>1. c.folder # NoFolder => s.folder # NoFolder /\ c.folder.box = s.folder.box
      BY <1>2, <1>5
    <3>2. c.input = s.input
      BY <1>2
    <3>. QED BY <2>2, <2>4, <3>1, <3>2, WiredWeaker
  <2>. QED BY <1>2, <1>3, <2>1, <2>3, <2>5 DEF Sound, Alike
<1>. QED BY <1>4, <1>5

LEMMA GoodCancel ==
  ASSUME NEW w \in Good
  PROVE  DoCancel(w) \in Good /\ SessionCancel(w) \in Good
<1> DEFINE v == DoCancel(w)
<1>1. w \in World /\ w.ses \in Sessions /\ w.rd \in Readers /\ w.ses.open \in BOOLEAN
  BY WorldFields, SessionFields DEF Good
<1>2. /\ v \in World /\ v.fault = w.fault /\ v.net = w.net /\ v.ses = Cancelled(w.ses)
      /\ v.rd = IF w.ses.open THEN Unread(w.rd) ELSE w.rd
  BY <1>1, DoCancelEffect
<1> HIDE DEF v
<1>3. v.rd.buf = w.rd.buf
  BY <1>1, <1>2 DEF Unread, Readers
<1>4. v \in Good
  BY <1>1, <1>2, <1>3, CancelledSound DEF Good, Alike
<1>. QED BY <1>4, GoodComplete, CodesAreStatuses DEF v, SessionCancel

LEMMA GoodStreamsClosed == ASSUME NEW w \in World PROVE StreamsClosed(w) \in Good
<1> DEFINE v == StreamsClosed(w)
<1>1. /\ v \in World /\ v.net = Cut(w.net)
      /\ v.ses = Gone(w.ses)
  BY StreamsClosedEffect
<1> HIDE DEF v
<1>2. ~v.net.up
  BY <1>1, WorldFields DEF Cut, Nets
<1>3. ~v.ses.open /\ v.ses.cmd = NoCmd
  BY <1>1, GoneFields, WorldFields
<1>. QED BY <1>1, <1>2, <1>3, GoodClosed DEF v

LEMMA GoodCloseWith ==
  ASSUME NEW w \in World, NEW err \in Codes
  PROVE  CloseWith(w, err) \in Good
<1> DEFINE c == Complete(w, err)
           u == StreamsClosed(c)
           v == [u EXCEPT !.ses.state = "Unrecoverable"]
<1>1. c \in World
  BY CompleteTyped
<1> HIDE DEF c
<1>2. /\ u \in World /\ u.net = Cut(c.net)
      /\ u.ses = Gone(c.ses)
  BY <1>1, StreamsClosedEffect
<1> HIDE DEF u
<1>3. ~u.net.up
  BY <1>1, <1>2, WorldFields DEF Cut, Nets
<1>4. ~u.ses.open /\ u.ses.cmd = NoCmd
  BY <1>1, <1>2, GoneFields, WorldFields
<1>5. v \in World
  BY <1>2, SetState
<1>6. ~v.ses.open /\ v.ses.cmd = NoCmd /\ ~v.net.up
  BY <1>2, <1>3, <1>4 DEF World, Sessions
<1>7. CloseWith(w, err) = v
  BY DEF CloseWith, u, c
<1>. QED BY <1>5, <1>6, <1>7, GoodClosed

LEMMA GoodCompleteClosed ==
  ASSUME NEW w \in Good, NEW who \in Objects
  PROVE  CompleteClosed(w, who) \in Good
  BY GoodQueue, GoodComplete, CodesAreStatuses DEF CompleteClosed

\* A command that waits for nothing leaves nothing behind.
LEMMA FreeEnds ==
  ASSUME NEW cmd, NEW folder, NEW input, NEW buf, NEW n \in Nets,
         Wired(cmd, folder, input, buf, n), Expected(cmd) = {}, Verb(cmd) = "none", cmd.kind # "Idle",
         cmd.kind # "Select"
  PROVE  Wired(NoCmd, folder, input, buf, n)
<1>1. Quiet(input) /\ Quiet(buf) /\ Quiet(n.wire) /\ n.out = <<>>
  BY FreeQuiet
<1>2. Outgoing(NoCmd, folder, n)
  BY <1>1 DEF Outgoing
<1>3. Modes(NoCmd, folder, n)
  BY FreeCommand DEF Wired, Modes
<1>. QED BY <1>1, <1>2, <1>3, QuietWired

-----------------------------------------------------------------------------
(* The lines that the session reads                                        *)

LEMMA EndedFields ==
  ASSUME NEW s \in Sessions
  PROVE  LET e == Ended(s)
         IN /\ e.open = s.open /\ e.input = s.input /\ e.folder = s.folder /\ e.server = s.server
            /\ e.state = s.state /\ e.cmd = NoCmd /\ e.pending = "None"
<1> DEFINE t == IF s.cmd = NoCmd THEN s.tag ELSE s.cmd.tag
<1>1. Ended(s) = [s EXCEPT !.report = "None", !.tag = t, !.cmd = NoCmd, !.pending = "None"]
  BY DEF Ended
<1> HIDE DEF t
<1>. QED BY <1>1 DEF Sessions

LEMMA UndoneFields ==
  ASSUME NEW s \in Sessions
  PROVE  LET e == Undone(s)
             sel == s.pending = "Select"
         IN /\ e.open = s.open /\ e.input = s.input /\ e.pending = s.pending
            /\ e.folder = IF sel THEN NoFolder ELSE s.folder
            /\ e.server = IF sel THEN "Authenticated" ELSE s.server
<1>1. CASE s.pending = "Select"
  BY <1>1 DEF Undone, Sessions
<1>2. CASE s.pending # "Select"
  BY <1>2 DEF Undone, Sessions
<1>. QED BY <1>1, <1>2

\* A command that ends leaves no command and no operation pending.
LEMMA EndsNormally ==
  ASSUME NEW w \in World, NEW err \in Codes
  PROVE  LET v == [Destroy(w, err) EXCEPT !.ses.state = "Normal"]
         IN /\ v \in World /\ v.fault = w.fault /\ v.rd = w.rd /\ v.net = w.net
            /\ v.ses.open = w.ses.open /\ v.ses.input = w.ses.input
            /\ v.ses.folder = w.ses.folder /\ v.ses.server = w.ses.server
            /\ v.ses.state = "Normal" /\ v.ses.cmd = NoCmd /\ v.ses.pending = "None"
<1> DEFINE d == Destroy(w, err)
           v == [d EXCEPT !.ses.state = "Normal"]
<1>1. d \in World /\ d.fault = w.fault /\ d.rd = w.rd /\ d.net = w.net /\ d.ses = Ended(w.ses)
  BY DestroyEffect
<1> HIDE DEF d
<1>2. /\ v \in World /\ v.fault = d.fault /\ v.rd = d.rd /\ v.net = d.net
      /\ v.ses = [d.ses EXCEPT !.state = "Normal"]
  BY <1>1, SetState DEF World
<1> HIDE DEF v
<1>3. /\ v.ses.open = d.ses.open /\ v.ses.input = d.ses.input /\ v.ses.folder = d.ses.folder
      /\ v.ses.server = d.ses.server /\ v.ses.cmd = d.ses.cmd /\ v.ses.pending = d.ses.pending
      /\ v.ses.state = "Normal"
  BY <1>1, <1>2, WorldFields DEF Sessions
<1>4. /\ d.ses.open = w.ses.open /\ d.ses.input = w.ses.input /\ d.ses.folder = w.ses.folder
      /\ d.ses.server = w.ses.server /\ d.ses.cmd = NoCmd /\ d.ses.pending = "None"
  BY <1>1, EndedFields, WorldFields
<1>. QED BY <1>1, <1>2, <1>3, <1>4 DEF v, d

LEMMA CompletedFields ==
  ASSUME NEW w \in World, NEW line
  PROVE  LET v == CommandComplete(w, line)
             sel == w.ses.pending = "Select"
         IN /\ v \in World /\ v.fault = w.fault /\ v.rd = w.rd /\ v.net = w.net
            /\ v.ses.open = w.ses.open /\ v.ses.input = w.ses.input
            /\ v.ses.state = "Normal" /\ v.ses.cmd = NoCmd /\ v.ses.pending = "None"
            /\ v.ses.folder = IF line.kind = "no" /\ sel THEN NoFolder ELSE w.ses.folder
            /\ v.ses.server = IF line.kind = "no"
                              THEN IF sel THEN "Authenticated" ELSE w.ses.server
                              ELSE IF w.ses.state = "Normal" /\ sel THEN "Selected" ELSE w.ses.server
<1>1. CASE line.kind = "no"
  <2> DEFINE u == SelectUndone(w)
             v == [Destroy(u, KErrImapNo) EXCEPT !.ses.state = "Normal"]
  <2>1. CommandComplete(w, line) = v
    BY <1>1 DEF CommandComplete
  <2>2. u \in World /\ u.fault = w.fault /\ u.rd = w.rd /\ u.net = w.net /\ u.ses = Undone(w.ses)
    BY SelectUndoneEffect
  <2> HIDE DEF u
  <2>3. KErrImapNo \in Codes
    BY CodesAreStatuses
  <2>4. /\ v \in World /\ v.fault = u.fault /\ v.rd = u.rd /\ v.net = u.net
        /\ v.ses.open = u.ses.open /\ v.ses.input = u.ses.input
        /\ v.ses.folder = u.ses.folder /\ v.ses.server = u.ses.server
        /\ v.ses.state = "Normal" /\ v.ses.cmd = NoCmd /\ v.ses.pending = "None"
    BY <2>2, <2>3, EndsNormally
  <2> HIDE DEF v
  <2>5. /\ u.ses.open = w.ses.open /\ u.ses.input = w.ses.input
        /\ u.ses.folder = IF w.ses.pending = "Select" THEN NoFolder ELSE w.ses.folder
        /\ u.ses.server = IF w.ses.pending = "Select" THEN "Authenticated" ELSE w.ses.server
    BY <2>2, UndoneFields, WorldFields
  <2>. QED BY <1>1, <2>1, <2>2, <2>4, <2>5
<1>2. CASE line.kind # "no"
  <2> DEFINE sv == IF w.ses.state = "Normal" /\ w.ses.pending = "Select" THEN "Selected"
                   ELSE w.ses.server
             u == IF w.ses.state = "Normal" /\ w.ses.pending = "Select"
                  THEN [w EXCEPT !.ses.server = "Selected"] ELSE w
             v == [Destroy(u, KErrNone) EXCEPT !.ses.state = "Normal"]
  <2>1. CommandComplete(w, line) = v
    BY <1>2 DEF CommandComplete
  <2>2. /\ u \in World /\ u.fault = w.fault /\ u.rd = w.rd /\ u.net = w.net
        /\ u.ses.open = w.ses.open /\ u.ses.input = w.ses.input
        /\ u.ses.folder = w.ses.folder /\ u.ses.server = sv
    <3>1. /\ [w EXCEPT !.ses.server = "Selected"] \in World
          /\ [w EXCEPT !.ses.server = "Selected"].fault = w.fault
          /\ [w EXCEPT !.ses.server = "Selected"].rd = w.rd
          /\ [w EXCEPT !.ses.server = "Selected"].net = w.net
          /\ [w EXCEPT !.ses.server = "Selected"].ses = [w.ses EXCEPT !.server = "Selected"]
      BY SetServer DEF World
    <3>2. LET s == [w.ses EXCEPT !.server = "Selected"]
          IN /\ s.open = w.ses.open /\ s.input = w.ses.input
             /\ s.folder = w.ses.folder /\ s.server = "Selected"
      BY WorldFields DEF Sessions
    <3>. QED BY <3>1, <3>2
  <2> HIDE DEF u, sv
  <2>3. KErrNone \in Codes
    BY CodesAreStatuses
  <2>4. /\ v \in World /\ v.fault = u.fault /\ v.rd = u.rd /\ v.net = u.net
        /\ v.ses.open = u.ses.open /\ v.ses.input = u.ses.input
        /\ v.ses.folder = u.ses.folder /\ v.ses.server = u.ses.server
        /\ v.ses.state = "Normal" /\ v.ses.cmd = NoCmd /\ v.ses.pending = "None"
    BY <2>2, <2>3, EndsNormally
  <2> HIDE DEF v
  <2>. QED BY <1>2, <2>1, <2>2, <2>4 DEF sv
<1>. QED BY <1>1, <1>2

\* The session has a command, and agrees with the server about it.
Busy(w) == w \in World /\ w.fault = "None" /\ w.ses.open /\ w.ses.cmd # NoCmd /\ Sound(w)

\* The first line of the input has been taken from it.
Taken(w) == [w EXCEPT !.ses.input = Tail(@)]

LEMMA TakenFields ==
  ASSUME NEW w \in World, w.ses.input # <<>>
  PROVE  LET u == Taken(w)
         IN /\ u \in World /\ u.fault = w.fault /\ u.rd = w.rd /\ u.net = w.net
            /\ u.ses.open = w.ses.open /\ u.ses.cmd = w.ses.cmd /\ u.ses.folder = w.ses.folder
            /\ u.ses.state = w.ses.state /\ u.ses.pending = w.ses.pending
            /\ u.ses.server = w.ses.server /\ u.ses.input = Tail(w.ses.input)
            /\ u.ses.report = w.ses.report
<1> DEFINE t == Tail(w.ses.input)
<1>1. t \in Seq(Lines)
  BY SessionFields, HeadTailProperties
<1>2. Taken(w) = [w EXCEPT !.ses.input = t]
  BY DEF Taken
<1> HIDE DEF t
<1>3. Taken(w) \in World
  BY <1>1, <1>2, SetInput
<1>4. LET u == [w EXCEPT !.ses.input = t]
      IN /\ u.fault = w.fault /\ u.rd = w.rd /\ u.net = w.net
         /\ u.ses = [w.ses EXCEPT !.input = t]
  BY DEF World
<1>5. LET s == [w.ses EXCEPT !.input = t]
      IN /\ s.open = w.ses.open /\ s.cmd = w.ses.cmd /\ s.folder = w.ses.folder
         /\ s.state = w.ses.state /\ s.pending = w.ses.pending
         /\ s.server = w.ses.server /\ s.input = t /\ s.report = w.ses.report
  BY WorldFields DEF Sessions
<1>. QED BY <1>2, <1>3, <1>4, <1>5 DEF t

\* What taking the line leaves of the agreement.
LEMMA TakenSound ==
  ASSUME NEW w, Busy(w), w.ses.input # <<>>
  PROVE  LET u == Taken(w)
             line == Head(w.ses.input)
         IN /\ Busy(u) /\ u.ses.input = Tail(w.ses.input) /\ line \in Lines
            /\ Fits(u.ses.cmd, u.ses.folder, u.net, line)
            /\ line.kind # "exists" => /\ Quiet(u.ses.input) /\ Quiet(u.rd.buf) /\ Quiet(u.net.wire)
                                       /\ u.net.out = <<>>
<1> DEFINE u == Taken(w)
           line == Head(w.ses.input)
<1>1. w \in World /\ w.ses.input \in Seq(Lines)
  BY SessionFields DEF Busy
<1>2. /\ u \in World /\ u.fault = w.fault /\ u.rd = w.rd /\ u.net = w.net
      /\ u.ses.open = w.ses.open /\ u.ses.cmd = w.ses.cmd /\ u.ses.folder = w.ses.folder
      /\ u.ses.state = w.ses.state /\ u.ses.pending = w.ses.pending
      /\ u.ses.server = w.ses.server /\ u.ses.input = Tail(w.ses.input)
  BY <1>1, TakenFields
<1> HIDE DEF u
<1>3. /\ Wired(w.ses.cmd, w.ses.folder, w.ses.input, w.rd.buf, w.net)
      /\ Shaped(w.ses.cmd, w.ses.state, w.ses.pending, w.ses.folder, w.ses.server)
  BY DEF Busy, Sound
<1>4. /\ Wired(u.ses.cmd, u.ses.folder, u.ses.input, u.rd.buf, u.net)
      /\ Fits(u.ses.cmd, u.ses.folder, u.net, line)
      /\ line.kind # "exists" => /\ Quiet(u.ses.input) /\ Quiet(u.rd.buf) /\ Quiet(u.net.wire)
                                 /\ u.net.out = <<>>
  <2> DEFINE c == w.ses.cmd
             f == w.ses.folder
             s == w.ses.input
             b == w.rd.buf
             n == w.net
  <2>1. Wired(c, f, s, b, n) /\ s \in Seq(Lines) /\ s # <<>>
    BY <1>1, <1>3
  <2> HIDE DEF c, f, s, b, n
  <2>2. /\ Wired(c, f, Tail(s), b, n) /\ Fits(c, f, n, Head(s))
        /\ Head(s).kind # "exists" => Quiet(Tail(s)) /\ Quiet(b) /\ Quiet(n.wire) /\ n.out = <<>>
    BY <2>1, LineTaken
  <2>. QED BY <1>2, <2>2 DEF c, f, s, b, n
<1>5. Busy(u)
  BY <1>2, <1>3, <1>4 DEF Busy, Sound
<1>6. line \in Lines
  BY <1>1, HeadTailProperties
<1>. QED BY <1>2, <1>4, <1>5, <1>6 DEF u, line

\* A tagged line ends the command that it answers.
LEMMA TaggedEnds ==
  ASSUME NEW u, Busy(u), NEW line \in Lines, line.kind \in {"ok", "no"},
         Fits(u.ses.cmd, u.ses.folder, u.net, line),
         Quiet(u.ses.input), Quiet(u.rd.buf), Quiet(u.net.wire), u.net.out = <<>>
  PROVE  CommandComplete(u, line) \in Good
<1> DEFINE v == CommandComplete(u, line)
           sel == u.ses.pending = "Select"
<1>0. u \in World
  BY DEF Busy
<1>1. /\ v \in World /\ v.fault = u.fault /\ v.rd = u.rd /\ v.net = u.net
      /\ v.ses.open = u.ses.open /\ v.ses.input = u.ses.input
      /\ v.ses.state = "Normal" /\ v.ses.cmd = NoCmd /\ v.ses.pending = "None"
      /\ v.ses.folder = IF line.kind = "no" /\ sel THEN NoFolder ELSE u.ses.folder
      /\ v.ses.server = IF line.kind = "no"
                        THEN IF sel THEN "Authenticated" ELSE u.ses.server
                        ELSE IF u.ses.state = "Normal" /\ sel THEN "Selected" ELSE u.ses.server
  BY <1>0, CompletedFields
<1> HIDE DEF v
<1>2. /\ Modes(u.ses.cmd, u.ses.folder, u.net)
      /\ Shaped(u.ses.cmd, u.ses.state, u.ses.pending, u.ses.folder, u.ses.server)
      /\ u.ses.open
  BY DEF Busy, Sound, Wired
<1>3. u.net.up => ~u.net.idling
  BY DEF Fits
<1>4. u.ses.cmd.kind = "Select" => sel
  BY <1>2, FreeCommand DEF Shaped
<1>5. v.ses.folder # NoFolder => v.ses.folder = u.ses.folder /\ v.ses.server = "Selected"
  <2> SUFFICES ASSUME v.ses.folder # NoFolder
               PROVE  v.ses.folder = u.ses.folder /\ v.ses.server = "Selected"
    OBVIOUS
  <2>1. v.ses.folder = u.ses.folder /\ u.ses.folder # NoFolder /\ ~(line.kind = "no" /\ sel)
    BY <1>1
  <2>2. CASE u.ses.cmd.kind = "Select"
    <3>1. u.ses.state = "Normal"
      <4>1. ~u.ses.cmd.flushing
        BY <1>2, <2>1, <2>2, FreeCommand DEF Shaped
      <4>. QED BY <1>0, <1>2, <4>1, SessionFields DEF Shaped
    <3>. QED BY <1>1, <1>4, <2>1, <2>2, <3>1
  <2>3. CASE u.ses.cmd.kind # "Select"
    <3>1. u.ses.server = "Selected" /\ ~sel
      BY <1>2, <2>1, <2>3 DEF Shaped
    <3>. QED BY <1>1, <2>1, <3>1
  <2>. QED BY <2>2, <2>3
<1>6. Shaped(v.ses.cmd, v.ses.state, v.ses.pending, v.ses.folder, v.ses.server)
  BY <1>1, <1>5, FreeCommand DEF Shaped
<1>7. Modes(v.ses.cmd, v.ses.folder, v.net)
  <2>1. u.net.up /\ v.ses.folder # NoFolder => u.net.selected = v.ses.folder.box
    <3> SUFFICES ASSUME u.net.up, v.ses.folder # NoFolder
                 PROVE  u.net.selected = u.ses.folder.box
      BY <1>5
    <3>1. CASE u.ses.cmd.kind = "Select"
      <4>1. line.kind = "ok" /\ u.ses.folder # NoFolder
        BY <1>1, <1>4, <1>5, <3>1
      <4>. QED BY <3>1, <4>1 DEF Fits
    <3>2. CASE u.ses.cmd.kind # "Select"
      BY <1>2, <1>5, <3>2 DEF Modes
    <3>. QED BY <3>1, <3>2
  <2>. QED BY <1>1, <1>3, <2>1, FreeCommand DEF Modes
<1>8. Outgoing(v.ses.cmd, v.ses.folder, v.net)
  BY <1>1 DEF Outgoing
<1>9. Wired(v.ses.cmd, v.ses.folder, v.ses.input, v.rd.buf, v.net)
  <2>1. Quiet(v.ses.input) /\ Quiet(v.rd.buf) /\ Quiet(v.net.wire)
    BY <1>1
  <2>. QED BY <1>7, <1>8, <2>1, QuietWired
<1>10. v \in Good
  BY <1>1, <1>2, <1>6, <1>9 DEF Good, Sound
<1>. QED BY <1>10 DEF v

\* An untagged line is what CImapServerEventWait waits for.
LEMMA EventEnds ==
  ASSUME NEW u, Busy(u), NEW line, line.kind # "no", u.ses.cmd.kind = "Wait"
  PROVE  CommandComplete(u, line) \in Good
<1> DEFINE v == CommandComplete(u, line)
<1>0. u \in World /\ u.net \in Nets
  BY WorldFields DEF Busy
<1>1. /\ Wired(u.ses.cmd, u.ses.folder, u.ses.input, u.rd.buf, u.net)
      /\ Shaped(u.ses.cmd, u.ses.state, u.ses.pending, u.ses.folder, u.ses.server)
      /\ u.ses.open
  BY DEF Busy, Sound
<1>2. u.ses.pending # "Select"
  BY <1>1, FreeCommand DEF Shaped
<1>3. /\ v \in World /\ v.fault = u.fault /\ v.rd = u.rd /\ v.net = u.net
      /\ v.ses.open = u.ses.open /\ v.ses.input = u.ses.input
      /\ v.ses.state = "Normal" /\ v.ses.cmd = NoCmd /\ v.ses.pending = "None"
      /\ v.ses.folder = u.ses.folder /\ v.ses.server = u.ses.server
  BY <1>0, <1>2, CompletedFields
<1> HIDE DEF v
<1>4. Wired(NoCmd, u.ses.folder, u.ses.input, u.rd.buf, u.net)
  BY <1>0, <1>1, FreeEnds, FreeCommand
<1>5. Shaped(NoCmd, "Normal", "None", u.ses.folder, u.ses.server)
  BY <1>1, FreeCommand DEF Shaped
<1>6. v \in Good
  BY <1>1, <1>3, <1>4, <1>5 DEF Good, Sound
<1>. QED BY <1>6 DEF v

\* The server has accepted IDLE.
LEMMA ContinuationSound ==
  ASSUME NEW u, Busy(u), u.ses.cmd.kind = "Idle", u.ses.cmd.idle = "WaitContinue",
         ~u.ses.cmd.flushing, u.net.up => u.net.idling,
         Quiet(u.ses.input), Quiet(u.rd.buf), Quiet(u.net.wire), u.net.out = <<>>
  PROVE  Busy([u EXCEPT !.ses.cmd.idle = "WaitResponse"])
<1> DEFINE d == [u.ses.cmd EXCEPT !.idle = "WaitResponse"]
           v == [u EXCEPT !.ses.cmd.idle = "WaitResponse"]
<1>0. u \in World /\ u.ses.cmd \in Commands /\ u.ses \in Sessions
  BY SessionFields, WorldFields DEF Busy
<1>1. /\ d \in Commands /\ d.kind = "Idle" /\ d.idle = "WaitResponse"
      /\ d.tag = u.ses.cmd.tag /\ ~d.flushing
  BY <1>0 DEF Commands
<1>2. v = [u EXCEPT !.ses.cmd = d]
  BY <1>0 DEF World, Sessions
<1> HIDE DEF d, v
<1>3. v \in World
  BY <1>0, <1>1, <1>2, SetCmd
<1>4. /\ v.fault = u.fault /\ v.rd = u.rd /\ v.net = u.net /\ v.ses = [u.ses EXCEPT !.cmd = d]
  BY <1>0, <1>2 DEF World
<1>5. /\ v.ses.open = u.ses.open /\ v.ses.cmd = d /\ v.ses.folder = u.ses.folder
      /\ v.ses.input = u.ses.input /\ v.ses.state = u.ses.state
      /\ v.ses.pending = u.ses.pending /\ v.ses.server = u.ses.server
  BY <1>0, <1>4 DEF Sessions
<1>6. /\ Modes(u.ses.cmd, u.ses.folder, u.net) /\ u.fault = "None" /\ u.ses.open
      /\ Shaped(u.ses.cmd, u.ses.state, u.ses.pending, u.ses.folder, u.ses.server)
  BY DEF Busy, Sound, Wired
<1>7. Modes(d, u.ses.folder, u.net)
  BY <1>1, <1>6 DEF Modes
<1>8. Shaped(d, u.ses.state, u.ses.pending, u.ses.folder, u.ses.server)
  BY <1>1, <1>6, FreeCommand DEF Shaped
<1>9. Wired(v.ses.cmd, v.ses.folder, v.ses.input, v.rd.buf, v.net)
  <2>1. Outgoing(v.ses.cmd, v.ses.folder, v.net)
    BY <1>4 DEF Outgoing
  <2>2. Modes(v.ses.cmd, v.ses.folder, v.net)
    BY <1>4, <1>5, <1>7
  <2>3. Quiet(v.ses.input) /\ Quiet(v.rd.buf) /\ Quiet(v.net.wire)
    BY <1>4, <1>5
  <2>. QED BY <2>1, <2>2, <2>3, QuietWired
<1>10. d # NoCmd
  BY <1>1, FreeCommand
<1>11. Sound(v)
  BY <1>5, <1>6, <1>8, <1>9 DEF Sound
<1>12. Busy(v)
  BY <1>3, <1>4, <1>5, <1>6, <1>10, <1>11 DEF Busy
<1>. QED BY <1>12 DEF v

\* The number of messages of the mailbox has changed.
LEMMA UntaggedSound ==
  ASSUME NEW u, Busy(u), ~u.ses.cmd.flushing, NEW line \in Lines
  PROVE  Busy(ParseUntagged(u, line).w) /\ ParseUntagged(u, line).w.ses.cmd = u.ses.cmd
<1>0. u \in World /\ u.ses.folder \in Mailboxes /\ u.ses \in Sessions
  BY SessionFields, WorldFields DEF Busy
<1>1. CASE u.ses.folder = NoFolder
  BY <1>1 DEF ParseUntagged
<1>2. CASE u.ses.folder # NoFolder
  <2> DEFINE g == [u.ses.folder EXCEPT !.exists = line.n]
             v == [u EXCEPT !.ses.folder.exists = line.n]
  <2>1. ParseUntagged(u, line).w = v
    BY <1>2 DEF ParseUntagged
  <2>2. g \in Mailboxes /\ g.box = u.ses.folder.box
    BY <1>0 DEF Mailboxes, Lines
  <2>3. v = [u EXCEPT !.ses.folder = g]
    BY <1>0 DEF World, Sessions
  <2> HIDE DEF g, v
  <2>4. v \in World
    BY <1>0, <2>2, <2>3, SetFolder
  <2>5. /\ v.fault = u.fault /\ v.rd = u.rd /\ v.net = u.net /\ v.ses = [u.ses EXCEPT !.folder = g]
    BY <1>0, <2>3 DEF World
  <2>6. /\ v.ses.open = u.ses.open /\ v.ses.cmd = u.ses.cmd /\ v.ses.folder = g
        /\ v.ses.input = u.ses.input /\ v.ses.state = u.ses.state
        /\ v.ses.pending = u.ses.pending /\ v.ses.server = u.ses.server
    BY <1>0, <2>5 DEF Sessions
  <2>7. /\ Wired(u.ses.cmd, u.ses.folder, u.ses.input, u.rd.buf, u.net)
        /\ Shaped(u.ses.cmd, u.ses.state, u.ses.pending, u.ses.folder, u.ses.server)
        /\ u.fault = "None" /\ u.ses.open /\ u.ses.cmd # NoCmd
    BY DEF Busy, Sound
  <2>8. Wired(u.ses.cmd, g, u.ses.input, u.rd.buf, u.net)
    BY <1>2, <2>2, <2>7, WiredWeaker
  <2>9. Shaped(u.ses.cmd, u.ses.state, u.ses.pending, g, u.ses.server)
    BY <1>2, <2>7 DEF Shaped
  <2>10. Sound(v)
    BY <2>5, <2>6, <2>7, <2>8, <2>9 DEF Sound
  <2>. QED BY <2>1, <2>4, <2>5, <2>6, <2>7, <2>10 DEF Busy
<1>. QED BY <1>1, <1>2

\* What the command makes of the line that has been taken.
LEMMA ParseSound ==
  ASSUME NEW u, Busy(u), NEW line \in Lines, Fits(u.ses.cmd, u.ses.folder, u.net, line),
         line.kind # "exists" => /\ Quiet(u.ses.input) /\ Quiet(u.rd.buf) /\ Quiet(u.net.wire)
                                 /\ u.net.out = <<>>
  PROVE  LET p == ParseBlockL(u, line)
         IN /\ p.res \in {"More", "Complete", "Corrupt"} /\ p.w \in World
            /\ p.res = "More" => Busy(p.w)
            /\ p.res = "Complete" => CommandComplete(p.w, line) \in Good
<1>0. u \in World
  BY DEF Busy
<1>1. line.kind \in {"exists", "cont", "ok", "no"}
  BY DEF Lines
<1>2. CASE u.ses.cmd.flushing
  <2>1. ParseBlockL(u, line) = ParseFlushing(u, line)
    BY <1>2 DEF ParseBlockL
  <2>2. line.kind \in {"ok", "no"} => CommandComplete(u, line) \in Good
    BY TaggedEnds
  <2>. QED BY <1>0, <1>1, <2>1, <2>2 DEF ParseFlushing
<1>3. CASE ~u.ses.cmd.flushing /\ line.kind = "cont"
  <2> DEFINE v == [u EXCEPT !.ses.cmd.idle = "WaitResponse"]
  <2>1. ParseBlockL(u, line) = IF u.ses.cmd.kind = "Idle" /\ u.ses.cmd.idle = "WaitContinue"
                               THEN [w |-> v, res |-> "More"] ELSE [w |-> u, res |-> "Corrupt"]
    BY <1>3 DEF ParseBlockL, ParseCont
  <2>2. u.ses.cmd.kind = "Idle" /\ u.ses.cmd.idle = "WaitContinue" => Busy(v)
    <3>1. u.net.up => u.net.idling
      BY <1>3 DEF Fits
    <3>. QED BY <1>3, <3>1, ContinuationSound
  <2>3. Busy(v) => v \in World
    BY DEF Busy
  <2> HIDE DEF v
  <2>. QED BY <1>0, <2>1, <2>2, <2>3
<1>4. CASE ~u.ses.cmd.flushing /\ line.kind = "exists"
  <2> DEFINE p == ParseUntagged(u, line)
  <2>1. ParseBlockL(u, line) = p
    BY <1>4 DEF ParseBlockL
  <2>2. p.res = IF u.ses.cmd.kind = "Wait" THEN "Complete" ELSE "More"
    BY DEF ParseUntagged
  <2>3. Busy(p.w) /\ p.w.ses.cmd = u.ses.cmd
    BY <1>4, UntaggedSound
  <2> HIDE DEF p
  <2>4. u.ses.cmd.kind = "Wait" => CommandComplete(p.w, line) \in Good
    BY <1>4, <2>3, EventEnds
  <2>5. p.w \in World
    BY <2>3 DEF Busy
  <2>. QED BY <2>1, <2>2, <2>3, <2>4, <2>5
<1>5. CASE ~u.ses.cmd.flushing /\ line.kind \in {"ok", "no"}
  <2>1. ParseBlockL(u, line) = ParseTagged(u, line)
    BY <1>5 DEF ParseBlockL
  <2>2. CommandComplete(u, line) \in Good
    BY <1>5, TaggedEnds
  <2>. QED BY <1>0, <2>1, <2>2 DEF ParseTagged
<1>. QED BY <1>1, <1>2, <1>3, <1>4, <1>5

\* The accumulators of the loop: while it goes on, the session has a command and
\* the input is what has not been parsed.
Sounds(lines, n) ==
  {acc \in [w : World, go : BOOLEAN] :
     /\ acc.w \in Good
     /\ acc.go => Busy(acc.w) /\ acc.w.ses.input = SubSeq(lines, n + 1, Len(lines))}

LEMMA RoundSound ==
  ASSUME NEW lines \in Seq(Lines), NEW n \in 1 .. Len(lines), NEW acc \in Sounds(lines, n - 1)
  PROVE  Round(acc, lines[n]) \in Sounds(lines, n)
<1> DEFINE w == acc.w
           u == Taken(w)
           p == ParseBlockL(u, lines[n])
<1>0. acc \in [w : World, go : BOOLEAN] /\ acc.w \in Good
  BY DEF Sounds
<1>1. CASE ~acc.go
  BY <1>0, <1>1 DEF Round, Sounds
<1>2. CASE acc.go
  <2>1. acc \in Accs(lines, n - 1) /\ Busy(w)
    BY <1>2 DEF Sounds, Accs
  <2>2. /\ w.ses.input # <<>> /\ lines[n] = Head(w.ses.input) /\ lines[n] \in Lines
        /\ u.ses.input = SubSeq(lines, n + 1, Len(lines))
    BY <1>2, <2>1, NextLine DEF Taken
  <2> HIDE DEF w
  <2>3. /\ Busy(u) /\ Fits(u.ses.cmd, u.ses.folder, u.net, lines[n])
        /\ lines[n].kind # "exists" => /\ Quiet(u.ses.input) /\ Quiet(u.rd.buf) /\ Quiet(u.net.wire)
                                       /\ u.net.out = <<>>
    BY <2>1, <2>2, TakenSound
  <2>4. Round(acc, lines[n]) =
          CASE p.res = "Corrupt" -> [w |-> CloseWith(p.w, KErrImapCorrupt), go |-> FALSE]
            [] p.res = "Complete" -> [w |-> CommandComplete(p.w, lines[n]), go |-> FALSE]
            [] OTHER -> IF Intermediate(p.w) THEN [w |-> Complete(p.w, KErrNone), go |-> FALSE]
                        ELSE [w |-> p.w, go |-> TRUE]
    BY <1>2 DEF Round, Taken, w
  <2> HIDE DEF u
  <2>5. p.w.ses.input = u.ses.input
    BY <2>2, <2>3, ParseKeepsInput DEF Busy
  <2>6. /\ p.res \in {"More", "Complete", "Corrupt"} /\ p.w \in World
        /\ p.res = "More" => Busy(p.w)
        /\ p.res = "Complete" => CommandComplete(p.w, lines[n]) \in Good
    BY <2>2, <2>3, ParseSound
  <2> HIDE DEF p
  <2>7. CloseWith(p.w, KErrImapCorrupt) \in Good
    BY <2>6, GoodCloseWith, CodesAreStatuses
  <2>8. p.res = "More" => p.w \in Good /\ Complete(p.w, KErrNone) \in Good
    <3>1. p.res = "More" => p.w \in Good
      BY <2>6 DEF Busy, Good
    <3>. QED BY <3>1, GoodComplete, CodesAreStatuses
  <2>9. \A v \in Good : [w |-> v, go |-> FALSE] \in Sounds(lines, n)
    BY DEF Sounds, Good
  <2>10. p.res = "More" => [w |-> p.w, go |-> TRUE] \in Sounds(lines, n)
    BY <2>2, <2>5, <2>6, <2>8 DEF Sounds
  <2>. QED BY <2>4, <2>6, <2>7, <2>8, <2>9, <2>10
<1>3. acc.go \in BOOLEAN
  BY <1>0
<1>. QED BY <1>1, <1>2, <1>3

LEMMA RoundsSound ==
  ASSUME NEW w, Busy(w)
  PROVE  Rounds(w, w.ses.input)[Len(w.ses.input)].w \in Good
<1> DEFINE lines == w.ses.input
           Kept == [n \in 0 .. Len(lines) |-> Sounds(lines, n)]
<1>1. lines \in Seq(Lines) /\ Len(lines) \in Nat /\ w \in World /\ w \in Good
  BY SessionFields DEF Busy, Good
<1>2. [w |-> w, go |-> TRUE] \in Kept[0]
  <2>1. SubSeq(lines, 1, Len(lines)) = lines
    BY <1>1, SubSeqFull
  <2>2. Kept[0] = Sounds(lines, 0) /\ 0 + 1 = 1
    BY <1>1
  <2>3. [w |-> w, go |-> TRUE] \in [w : World, go : BOOLEAN]
    BY <1>1
  <2> HIDE DEF Kept
  <2>. QED BY <1>1, <2>1, <2>2, <2>3 DEF Sounds
<1> HIDE DEF lines
<1>3. \A n \in 1 .. Len(lines) : \A acc \in Kept[n - 1] : Round(acc, lines[n]) \in Kept[n]
  BY <1>1, RoundSound
<1>4. Rounds(w, lines)[Len(lines)] \in Kept[Len(lines)]
  <2> HIDE DEF Kept
  <2>. QED BY <1>1, <1>2, <1>3, LoopInduction
<1>5. Kept[Len(lines)] = Sounds(lines, Len(lines))
  BY <1>1
<1> HIDE DEF Kept
<1>. QED BY <1>4, <1>5 DEF lines, Sounds

LEMMA GoodProcessInput == ASSUME NEW w \in Good PROVE ProcessInputBufferL(w) \in Good
<1> DEFINE x == Expect(w, w.ses.cmd # NoCmd, "SessionNullCurrentCommand")
           v == Expect(x, w.ses.state # "Unrecoverable", "SessionInvalidSessionState")
           r == Rounds(v, v.ses.input)[Len(v.ses.input)]
<1>1. x \in Good /\ v \in Good /\ w \in World
  BY GoodExpect, Names DEF Good
<1>2. ProcessInputBufferL(w) = IF v.fault # "None" THEN v
                               ELSE IF r.go THEN RequestReadData(r.w) ELSE r.w
  BY DEF ProcessInputBufferL
<1>3. v.fault = "None" => Busy(v)
  <2> SUFFICES ASSUME v.fault = "None" PROVE Busy(v)
    OBVIOUS
  <2> HIDE DEF x
  <2>1. v = x /\ x.fault = "None"
    BY <1>1, ExpectHolds, Names DEF Good
  <2>2. x = w /\ w.fault = "None" /\ w.ses.cmd # NoCmd
    BY <1>1, <2>1, ExpectHolds, Names DEF x
  <2>3. Sound(w)
    BY <2>2 DEF Good
  <2>4. w.ses.open
    BY <2>2, <2>3 DEF Sound
  <2> HIDE DEF v
  <2>. QED BY <1>1, <2>1, <2>2, <2>3, <2>4 DEF Busy
<1> HIDE DEF x, v
<1>4. v.fault = "None" => r.w \in Good
  BY <1>3, RoundsSound
<1> HIDE DEF r
<1>. QED BY <1>1, <1>2, <1>4, GoodRequestReadData

LEMMA GoodAsyncCallBack == ASSUME NEW w \in Good PROVE AsyncCallBack(w) \in Good
<1> DEFINE v == [w EXCEPT !.ses.async = FALSE]
<1>1. w \in World /\ w.ses \in Sessions
  BY WorldFields DEF Good
<1>2. /\ v \in World /\ v.fault = w.fault /\ v.rd = w.rd /\ v.net = w.net
      /\ v.ses = [w.ses EXCEPT !.async = FALSE]
  BY <1>1, SetAsync DEF World
<1>3. AsyncCallBack(w) = ProcessInputBufferL(v)
  BY DEF AsyncCallBack
<1> HIDE DEF v
<1>4. Alike(v.ses, w.ses)
  <2>1. Alike([w.ses EXCEPT !.async = FALSE], w.ses)
    BY <1>1, SessionsAlike, ZenonT(60)
  <2>. QED BY <1>2, <2>1
<1>5. v \in Good
  BY <1>2, <1>4, GoodAlike
<1>. QED BY <1>3, <1>5, GoodProcessInput

\* The lines received become the input of the session.
Delivered(w, data) == [w EXCEPT !.ses.input = data, !.ses.flushTimer = FALSE]

LEMMA DeliveredFields ==
  ASSUME NEW w \in World, NEW data \in Seq(Lines)
  PROVE  LET v == Delivered(w, data)
         IN /\ v \in World /\ v.fault = w.fault /\ v.rd = w.rd /\ v.net = w.net
            /\ v.ses.open = w.ses.open /\ v.ses.cmd = w.ses.cmd /\ v.ses.folder = w.ses.folder
            /\ v.ses.state = w.ses.state /\ v.ses.pending = w.ses.pending
            /\ v.ses.server = w.ses.server /\ v.ses.input = data
<1>1. Delivered(w, data) \in World
  BY SetInput, SetFlushTimer DEF Delivered
<1>2. LET v == [w EXCEPT !.ses.input = data, !.ses.flushTimer = FALSE]
      IN /\ v.fault = w.fault /\ v.rd = w.rd /\ v.net = w.net
         /\ v.ses = [w.ses EXCEPT !.input = data, !.flushTimer = FALSE]
  BY DEF World
<1>3. LET s == [w.ses EXCEPT !.input = data, !.flushTimer = FALSE]
      IN /\ s.open = w.ses.open /\ s.cmd = w.ses.cmd /\ s.folder = w.ses.folder
         /\ s.state = w.ses.state /\ s.pending = w.ses.pending
         /\ s.server = w.ses.server /\ s.input = data
  BY WorldFields DEF Sessions
<1>. QED BY <1>1, <1>2, <1>3 DEF Delivered

LEMMA GoodReceivedDataInd ==
  ASSUME NEW w \in World, NEW data \in Seq(Lines),
         w.fault = "None" /\ w.ses.input = <<>> => Sound(Delivered(w, data))
  PROVE  ReceivedDataIndL(w, data) \in Good
<1> DEFINE a == Expect(w, ~w.ses.async, "AsyncCallBackOpInvalid")
           v == Expect(a, w.ses.input = <<>>, "SessionInputBufferNotEmpty")
           x == Delivered(v, data)
<1>1. a \in World /\ v \in World
  BY ExpectTyped, Names
<1>2. ReceivedDataIndL(w, data) = ProcessInputBufferL(x)
  BY DEF ReceivedDataIndL, Delivered
<1>3. v.fault = "None" => v = w /\ w.fault = "None" /\ w.ses.input = <<>>
  <2> SUFFICES ASSUME v.fault = "None" PROVE v = w /\ w.fault = "None" /\ w.ses.input = <<>>
    OBVIOUS
  <2> HIDE DEF a
  <2>1. w.ses.input = <<>> /\ v = a /\ a.fault = "None"
    BY <1>1, ExpectHolds, Names
  <2>2. (~w.ses.async) \in BOOLEAN
    OBVIOUS
  <2>3. a = w /\ w.fault = "None"
    BY <2>1, <2>2, ExpectHolds, Names DEF a
  <2> HIDE DEF v
  <2>. QED BY <2>1, <2>3
<1> HIDE DEF v
<1>4. x \in World /\ x.fault = v.fault
  BY <1>1, DeliveredFields
<1>5. x \in Good
  BY <1>3, <1>4 DEF Good
<1> HIDE DEF x
<1>. QED BY <1>2, <1>5, GoodProcessInput

LEMMA GoodReaderRun == ASSUME NEW w \in Good PROVE ReaderRunL(w) \in Good
<1> DEFINE v == [w EXCEPT !.rd.timer = FALSE, !.rd.ready = FALSE]
           a == [v EXCEPT !.rd.state = "ReceivedData", !.rd.timer = w.rd.limit, !.rd.limit = FALSE]
           b == [v EXCEPT !.rd.state = "Idle", !.rd.buf = <<>>]
           x == Delivered(b, w.rd.buf)
<1>0. w \in World /\ w.rd \in Readers
  BY WorldFields DEF Good
<1>1. ReaderRunL(w) = CASE w.rd.failed -> StreamsClosed(v)
                        [] ~w.rd.failed /\ w.rd.state = "Read" -> a
                        [] OTHER -> ReceivedDataIndL(b, w.rd.buf)
  BY DEF ReaderRunL
<1>2. v \in World
  BY <1>0, SetTimer, SetReady
<1>3. w.rd.limit \in BOOLEAN /\ w.rd.buf \in Seq(Lines) /\ <<>> \in Seq(Lines) /\ w.rd.failed \in BOOLEAN
  BY <1>0, ReaderFields
<1>4. /\ v.fault = w.fault /\ v.ses = w.ses /\ v.net = w.net
      /\ v.rd = [w.rd EXCEPT !.timer = FALSE, !.ready = FALSE]
  BY <1>0 DEF World
<1> HIDE DEF v
<1>5. v.rd.buf = w.rd.buf
  BY <1>0, <1>4 DEF Readers
<1>6. a \in World /\ b \in World
  BY <1>2, <1>3, SetRdState, SetTimer, SetLimit, SetBuf
<1> DEFINE l == w.rd.limit
<1>7. a = [v EXCEPT !.rd.state = "ReceivedData", !.rd.timer = l, !.rd.limit = FALSE]
  OBVIOUS
<1> HIDE DEF l, a
<1>8. a.fault = v.fault /\ a.ses = v.ses /\ a.net = v.net /\ a.rd.buf = v.rd.buf
  BY <1>2, <1>7 DEF World, Readers
<1>9. a \in Good
  BY <1>4, <1>5, <1>6, <1>8, GoodAlike DEF Alike
<1>10. b.fault = v.fault /\ b.ses = v.ses /\ b.net = v.net /\ b.rd.buf = <<>>
  BY <1>2 DEF World, Readers
<1> HIDE DEF b
<1>11. b.fault = "None" /\ b.ses.input = <<>> => Sound(x)
  <2> SUFFICES ASSUME b.fault = "None", b.ses.input = <<>> PROVE Sound(x)
    OBVIOUS
  <2>1. Sound(w) /\ w.ses.input = <<>>
    BY <1>4, <1>10 DEF Good
  <2>2. /\ x.rd = b.rd /\ x.net = b.net
        /\ x.ses.open = b.ses.open /\ x.ses.cmd = b.ses.cmd /\ x.ses.folder = b.ses.folder
        /\ x.ses.state = b.ses.state /\ x.ses.pending = b.ses.pending
        /\ x.ses.server = b.ses.server /\ x.ses.input = w.rd.buf
    BY <1>3, <1>6, DeliveredFields
  <2> HIDE DEF x
  <2>3. /\ x.net = w.net /\ x.rd.buf = <<>>
        /\ x.ses.open = w.ses.open /\ x.ses.cmd = w.ses.cmd /\ x.ses.folder = w.ses.folder
        /\ x.ses.state = w.ses.state /\ x.ses.pending = w.ses.pending
        /\ x.ses.server = w.ses.server
    BY <1>4, <1>10, <2>2
  <2>4. CASE ~w.ses.open
    BY <2>1, <2>3, <2>4 DEF Sound
  <2>5. CASE w.ses.open
    <3>1. Wired(w.ses.cmd, w.ses.folder, <<>>, w.rd.buf, w.net)
          /\ Shaped(w.ses.cmd, w.ses.state, w.ses.pending, w.ses.folder, w.ses.server)
      BY <2>1, <2>5 DEF Sound
    <3>2. Wired(w.ses.cmd, w.ses.folder, w.rd.buf, <<>>, w.net)
      BY <3>1, QuietEmpty DEF Wired
    <3>. QED BY <2>2, <2>3, <2>5, <3>1, <3>2 DEF Sound
  <2>. QED BY <2>4, <2>5
<1> HIDE DEF x
<1>12. ReceivedDataIndL(b, w.rd.buf) \in Good
  BY <1>3, <1>6, <1>11, GoodReceivedDataInd DEF x
<1>13. StreamsClosed(v) \in Good
  BY <1>2, GoodStreamsClosed
<1>. QED BY <1>1, <1>3, <1>9, <1>12, <1>13

-----------------------------------------------------------------------------
(* The connection and the server                                           *)

\* Lines fit a command as long as the server is in the same mode, or the connection is lost.
LEMMA FitsElsewhere ==
  ASSUME NEW cmd, NEW folder, NEW n, NEW m, NEW s, AllFit(cmd, folder, n, s),
         m.up => n.up /\ m.idling = n.idling /\ m.selected = n.selected
  PROVE  AllFit(cmd, folder, m, s)
  BY DEF AllFit, Fits

LEMMA GoodNet ==
  ASSUME NEW w \in Good, NEW m, m.up => w.net.up, [w EXCEPT !.net = m] \in World,
         Wired(w.ses.cmd, w.ses.folder, w.ses.input, w.rd.buf, w.net)
           => Wired(w.ses.cmd, w.ses.folder, w.ses.input, w.rd.buf, m)
  PROVE  [w EXCEPT !.net = m] \in Good
<1> DEFINE v == [w EXCEPT !.net = m]
<1>1. w \in World /\ w.net.up \in BOOLEAN /\ v \in World
  BY NetFields DEF Good
<1>2. v.fault = w.fault /\ v.ses = w.ses /\ v.rd = w.rd /\ v.net = m
  BY <1>1 DEF World
<1> HIDE DEF v
<1>3. v.net.up \in BOOLEAN
  BY <1>1, NetFields
<1>4. v \in Good
  BY <1>1, <1>2, <1>3 DEF Good, Sound
<1>. QED BY <1>4 DEF v

LEMMA GoodReceived ==
  ASSUME NEW w \in Good, NEW k \in 1 .. Len(w.net.wire)
  PROVE  Received(w, k) \in Good
<1> DEFINE s == w.net.wire
           p == SubSeq(s, 1, k)
           r == SubSeq(s, k + 1, Len(s))
           v == Received(w, k)
           m == [w.net EXCEPT !.wire = r]
<1>1. w \in World /\ v \in World /\ s \in Seq(Lines) /\ w.net \in Nets /\ w.rd \in Readers
  BY ReceivedTyped, NetFields, WorldFields DEF Good
<1>2. v = [w EXCEPT !.rd.buf = p, !.rd.ready = TRUE, !.net.wire = r]
  BY DEF Received
<1>3. \A c, f : AllFit(c, f, w.net, s) =>
        /\ AllFit(c, f, w.net, p) /\ AllFit(c, f, w.net, r)
        /\ Quiet(s) => Quiet(p) /\ Quiet(r)
        /\ ~Quiet(p) => Quiet(r)
  BY <1>1, SplitFits
<1> HIDE DEF p, r, v
<1>4. v.fault = w.fault /\ v.ses = w.ses /\ v.rd.buf = p /\ v.net = m
  BY <1>1, <1>2 DEF World, Readers
<1>5. m.up = w.net.up /\ m.idling = w.net.idling /\ m.selected = w.net.selected
      /\ m.out = w.net.out /\ m.wire = r
  BY <1>1 DEF Nets
<1> HIDE DEF m
<1>6. ASSUME NEW c, NEW f, NEW i, NEW b, Wired(c, f, i, b, w.net) PROVE Wired(c, f, i, p, m)
  <2>1. AllFit(c, f, m, i) /\ AllFit(c, f, m, p) /\ AllFit(c, f, m, r)
    <3>1. AllFit(c, f, w.net, i) /\ AllFit(c, f, w.net, p) /\ AllFit(c, f, w.net, r)
      BY <1>3, <1>6 DEF Wired
    <3>. QED BY <1>5, <3>1, FitsElsewhere
  <2>2. Outgoing(c, f, m) /\ Modes(c, f, m)
    BY <1>5, <1>6 DEF Wired, Outgoing, Modes
  <2>. QED BY <1>3, <1>5, <1>6, <2>1, <2>2 DEF Wired
<1>7. v \in Good
  BY <1>1, <1>4, <1>5, <1>6 DEF Good, Sound
<1>. QED BY <1>7 DEF v

\* New mail is announced by an untagged line, which answers nothing.
LEMMA GoodNewMessage ==
  ASSUME NEW w \in Good, w.net.exists < MaxExists
  PROVE  [w EXCEPT !.net = NewMessage(w.net)] \in Good
<1> DEFINE n == w.net
           m == NewMessage(n)
           l == Exists(n.exists + 1)
           s == IF n.selected = Inbox THEN Append(n.wire, l) ELSE n.wire
<1>1. w \in World /\ n \in Nets /\ m \in Nets /\ n.wire \in Seq(Lines)
  BY WorldFields, NetFields, NewMessageTyped DEF Good
<1>2. m = [n EXCEPT !.exists = n.exists + 1, !.wire = s]
  BY DEF NewMessage
<1>3. l \in Lines /\ l.kind = "exists"
  <2>1. n.exists + 1 \in 0 .. MaxExists
    BY <1>1, SessionAssumption DEF Nets
  <2>. QED BY <2>1, LinesTyped DEF Exists
<1> HIDE DEF l
<1>4. \A c, f : AllFit(c, f, n, n.wire) => AllFit(c, f, n, s)
  BY <1>1, <1>3, AppendFits
<1>5. Quiet(s) <=> Quiet(n.wire)
  BY <1>1, <1>3, AppendFits
<1> HIDE DEF s, m
<1>6. m.up = n.up /\ m.idling = n.idling /\ m.selected = n.selected /\ m.out = n.out /\ m.wire = s
  BY <1>1, <1>2 DEF Nets
<1>7. ASSUME NEW c, NEW f, NEW i, NEW b, Wired(c, f, i, b, n) PROVE Wired(c, f, i, b, m)
  <2>1. AllFit(c, f, m, i) /\ AllFit(c, f, m, b) /\ AllFit(c, f, m, s)
    <3>1. AllFit(c, f, n, i) /\ AllFit(c, f, n, b) /\ AllFit(c, f, n, s)
      BY <1>4, <1>7 DEF Wired
    <3>. QED BY <1>6, <3>1, FitsElsewhere
  <2>2. Outgoing(c, f, m) /\ Modes(c, f, m)
    BY <1>6, <1>7 DEF Wired, Outgoing, Modes
  <2>. QED BY <1>5, <1>6, <1>7, <2>1, <2>2 DEF Wired
<1>8. [w EXCEPT !.net = m] \in World
  BY <1>1, SetNet
<1>9. [w EXCEPT !.net = m] \in Good
  BY <1>6, <1>7, <1>8, GoodNet
<1>. QED BY <1>9 DEF m

\* When the network fails no answer comes that was not on its way.
LEMMA GoodNetworkFails ==
  ASSUME NEW w \in Good, NEW wire \in {w.net.wire, <<>>}
  PROVE  [w EXCEPT !.net.up = FALSE, !.net.wire = wire, !.net.out = <<>>] \in Good
<1> DEFINE n == w.net
           m == [n EXCEPT !.up = FALSE, !.wire = wire, !.out = <<>>]
           v == [w EXCEPT !.net.up = FALSE, !.net.wire = wire, !.net.out = <<>>]
<1>0. <<>> \in Seq(Lines) /\ <<>> \in Seq(Sent)
  OBVIOUS
<1>1. w \in World /\ n \in Nets /\ <<>> \in Seq(Lines) /\ <<>> \in Seq(Sent)
      /\ wire \in Seq(Lines)
  <2>1. w \in World
    BY DEF Good
  <2>2. n \in Nets /\ n.wire \in Seq(Lines)
    BY <2>1, WorldFields, NetFields
  <2>. QED BY <1>0, <2>1, <2>2
<1>2. v = [w EXCEPT !.net = m] /\ v \in World
  <2>1. v \in World
    BY <1>1, SetUp, SetWire, SetOut
  <2>2. v = [w EXCEPT !.net = m]
    BY <1>1 DEF World, Nets
  <2>. QED BY <2>1, <2>2
<1>3. ~m.up /\ m.wire = wire /\ m.out = <<>>
  BY <1>1 DEF Nets
<1> HIDE DEF m, v
<1>4. ASSUME NEW c, NEW f, NEW i, NEW b, Wired(c, f, i, b, n) PROVE Wired(c, f, i, b, m)
  <2>1. AllFit(c, f, m, i) /\ AllFit(c, f, m, b) /\ AllFit(c, f, m, wire)
    <3>1. AllFit(c, f, n, i) /\ AllFit(c, f, n, b) /\ AllFit(c, f, n, n.wire)
      BY <1>4 DEF Wired
    <3>2. AllFit(c, f, m, i) /\ AllFit(c, f, m, b) /\ AllFit(c, f, m, n.wire)
      BY <1>3, <3>1, FitsElsewhere
    <3>. QED BY <3>2, QuietEmpty, QuietFits
  <2>2. Outgoing(c, f, m) /\ Modes(c, f, m)
    BY <1>3 DEF Outgoing, Modes
  <2>. QED BY <1>3, <1>4, <2>1, <2>2, QuietEmpty DEF Wired
<1>5. [w EXCEPT !.net = m] \in Good
  BY <1>2, <1>3, <1>4, GoodNet
<1>. QED BY <1>2, <1>5 DEF v

\* An answer of the server to the command c: the line l after lines that answer nothing.
Answering(n, a, c, l) ==
  /\ a.up = n.up /\ a.out = Tail(n.out) /\ l.tag = c.tag
  /\ \/ c.verb = "select" /\ l.kind = "ok" /\ a.selected = c.box /\ a.idling = n.idling
     \/ c.verb = "fetch" /\ l.kind = "ok" /\ a.selected = n.selected /\ a.idling = n.idling
     \/ c.verb = "idle" /\ l.kind = "cont" /\ a.selected = n.selected /\ a.idling
     \/ c.verb = "done" /\ l.kind = "ok" /\ a.selected = n.selected /\ ~a.idling
     \/ c.verb = "select" /\ l.kind = "no" /\ a.idling = n.idling
     \/ c.verb = "fetch" /\ l.kind = "no" /\ a.selected = n.selected /\ a.idling = n.idling
     \/ c.verb = "idle" /\ l.kind = "no" /\ a.selected = n.selected /\ a.idling = n.idling

LEMMA ReplyFields ==
  ASSUME NEW n \in Nets, n.out # <<>>, NEW l \in Lines
  PROVE  LET a == Reply(n, <<l>>)
         IN /\ a \in Nets /\ a.up = n.up /\ a.out = Tail(n.out) /\ a.wire = Append(n.wire, l)
            /\ a.selected = n.selected /\ a.idling = n.idling
<1>1. <<l>> \in Seq(Lines) /\ n.wire \in Seq(Lines)
  BY DEF Nets
<1>2. n.wire \o <<l>> = Append(n.wire, l)
  BY <1>1, AppendIsConcat
<1>3. Reply(n, <<l>>) \in Nets
  BY <1>1, ReplyTyped
<1>. QED BY <1>2, <1>3 DEF Reply, Nets

LEMMA LinesAssociate ==
  ASSUME NEW r \in Seq(Lines), NEW s \in Seq(Lines), NEW t \in Seq(Lines)
  PROVE  (r \o s) \o t = r \o (s \o t)
<1> DEFINE S == Lines
<1>1. r \in Seq(S) /\ s \in Seq(S) /\ t \in Seq(S)
  OBVIOUS
<1> HIDE DEF S
<1>. QED BY <1>1, ConcatAssociative

LEMMA AnswerForms ==
  ASSUME NEW n \in Nets, n.out # <<>>, NEW a \in Answers(n)
  PROVE  \E l \in Lines, s \in Seq(Lines) :
           /\ a.wire = Append(s, l) /\ (Quiet(n.wire) => Quiet(s))
           /\ Answering(n, a, Head(n.out), l)
<1> DEFINE c == Head(n.out)
           one(k) == Reply(n, <<Line(k, c.tag)>>)
           no == [one("no") EXCEPT !.selected = IF c.verb = "select" THEN NoBox ELSE @]
<1>1. c \in Sent /\ n.wire \in Seq(Lines)
  BY HeadTailProperties DEF Nets
<1>2. c.tag \in 0 .. TagModulus /\ c.box \in Boxes \cup {NoBox} /\ c.verb \in Verbs
  BY <1>1 DEF Sent, Verbs
<1> HIDE DEF c
<1>3. ASSUME NEW k \in {"cont", "ok", "no"}
      PROVE  /\ one(k) \in Nets /\ one(k).up = n.up /\ one(k).out = Tail(n.out)
             /\ one(k).wire = Append(n.wire, Line(k, c.tag))
             /\ one(k).selected = n.selected /\ one(k).idling = n.idling
             /\ Line(k, c.tag) \in Lines /\ Line(k, c.tag).tag = c.tag /\ Line(k, c.tag).kind = k
  <2>1. Line(k, c.tag) \in Lines
    BY <1>2, LinesTyped
  <2>2. Line(k, c.tag).tag = c.tag /\ Line(k, c.tag).kind = k
    BY DEF Line
  <2>. QED BY <2>1, <2>2, ReplyFields
<1>4. CASE a = no /\ c.verb \in Refusals
  <2> DEFINE s == IF c.verb = "select" THEN NoBox ELSE one("no").selected
             l == Line("no", c.tag)
  <2>1. no = [one("no") EXCEPT !.selected = s]
    OBVIOUS
  <2>2. /\ one("no") \in Nets /\ one("no").up = n.up /\ one("no").out = Tail(n.out)
        /\ one("no").wire = Append(n.wire, l)
        /\ one("no").selected = n.selected /\ one("no").idling = n.idling
        /\ l \in Lines /\ l.tag = c.tag /\ l.kind = "no"
    BY <1>3
  <2>3. c.verb # "select" => s = n.selected
    BY <2>2
  <2> HIDE DEF one, no, l, s
  <2>4. /\ a.up = n.up /\ a.out = Tail(n.out) /\ a.wire = Append(n.wire, l)
        /\ a.selected = s /\ a.idling = n.idling
    BY <1>4, <2>1, <2>2 DEF Nets
  <2>5. c.verb \in {"select", "fetch", "idle"}
    BY <1>4, SessionAssumption
  <2>6. Answering(n, a, c, l)
    BY <2>2, <2>3, <2>4, <2>5 DEF Answering
  <2>. QED BY <1>1, <2>2, <2>4, <2>6 DEF c
<1>5. CASE c.verb = "select" /\ a = ServerSelects(n)
  <2> DEFINE x == Exists(n.exists)
             e == IF c.box = Inbox THEN <<x>> ELSE <<>>
             l == Line("ok", c.tag)
             r == Reply(n, Append(e, l))
             s == n.wire \o e
  <2>1. ServerSelects(n) = [r EXCEPT !.selected = c.box]
    BY DEF ServerSelects, c
  <2>2. x \in Lines /\ x.kind = "exists"
    <3>1. n.exists \in 0 .. MaxExists
      BY SessionAssumption DEF Nets
    <3>. QED BY <3>1, LinesTyped DEF Exists
  <2>3. l \in Lines /\ l.tag = c.tag /\ l.kind = "ok"
    BY <1>3
  <2> HIDE DEF x, l
  <2>4. e \in Seq(Lines) /\ Append(e, l) \in Seq(Lines)
    BY <2>2, <2>3
  <2>5. s \in Seq(Lines) /\ (Quiet(n.wire) => Quiet(s))
    <3>1. CASE c.box = Inbox
      <4>1. s = Append(n.wire, x)
        BY <1>1, <2>2, <3>1, AppendIsConcat
      <4>2. Append(n.wire, x) \in Seq(Lines)
        BY <1>1, <2>2
      <4>3. Quiet(n.wire) => Quiet(Append(n.wire, x))
        BY <1>1, <2>2, AppendFits
      <4> HIDE DEF s
      <4>. QED BY <4>1, <4>2, <4>3
    <3>2. CASE c.box # Inbox
      <4>1. s = n.wire
        BY <1>1, <3>2
      <4>. QED BY <1>1, <4>1
    <3>. QED BY <3>1, <3>2
  <2>6. n.wire \o Append(e, l) = Append(s, l)
    <3> HIDE DEF e
    <3>1. Append(e, l) = e \o <<l>> /\ <<l>> \in Seq(Lines)
      BY <2>3, <2>4, AppendIsConcat
    <3>2. n.wire \o (e \o <<l>>) = s \o <<l>>
      BY <1>1, <2>4, <3>1, LinesAssociate
    <3>3. s \o <<l>> = Append(s, l)
      BY <2>3, <2>5, AppendIsConcat
    <3>. QED BY <3>1, <3>2, <3>3
  <2> HIDE DEF e, s
  <2>7. r \in Nets /\ r.up = n.up /\ r.out = Tail(n.out) /\ r.wire = Append(s, l)
        /\ r.idling = n.idling
    <3>1. r \in Nets
      BY <2>4, ReplyTyped
    <3>2. r = [n EXCEPT !.out = Tail(n.out), !.wire = n.wire \o Append(e, l)]
      BY DEF Reply
    <3>. QED BY <2>6, <3>1, <3>2 DEF Nets
  <2> HIDE DEF r
  <2>8. /\ a.up = n.up /\ a.out = Tail(n.out) /\ a.wire = Append(s, l)
        /\ a.selected = c.box /\ a.idling = n.idling
    BY <1>5, <2>1, <2>7 DEF Nets
  <2>9. Answering(n, a, c, l)
    BY <1>5, <2>3, <2>8 DEF Answering
  <2>. QED BY <2>3, <2>5, <2>8, <2>9 DEF c
<1>6. CASE c.verb \in {"fetch", "idle", "done"}
           /\ a = CASE c.verb = "fetch" -> one("ok")
                    [] c.verb = "idle"  -> [one("cont") EXCEPT !.idling = TRUE]
                    [] c.verb = "done"  -> [one("ok") EXCEPT !.idling = FALSE]
  <2> DEFINE k == IF c.verb = "idle" THEN "cont" ELSE "ok"
             l == Line(k, c.tag)
             i == CASE c.verb = "fetch" -> n.idling [] c.verb = "idle" -> TRUE [] OTHER -> FALSE
  <2>1. /\ one(k) \in Nets /\ one(k).up = n.up /\ one(k).out = Tail(n.out)
        /\ one(k).wire = Append(n.wire, l)
        /\ one(k).selected = n.selected /\ one(k).idling = n.idling
        /\ l \in Lines /\ l.tag = c.tag /\ l.kind = k
    BY <1>3
  <2> HIDE DEF l
  <2>2. a = [one(k) EXCEPT !.idling = i]
    <3>1. CASE c.verb = "fetch"
      <4>1. a = one(k) /\ i = one(k).idling
        BY <1>6, <2>1, <3>1
      <4> HIDE DEF one, i
      <4>. QED BY <2>1, <4>1 DEF Nets
    <3>2. CASE c.verb = "idle"
      BY <1>6, <3>2
    <3>3. CASE c.verb = "done"
      BY <1>6, <3>3
    <3>. QED BY <1>6, <3>1, <3>2, <3>3
  <2> HIDE DEF one, i
  <2>3. /\ a.up = n.up /\ a.out = Tail(n.out) /\ a.wire = Append(n.wire, l)
        /\ a.selected = n.selected /\ a.idling = i
    BY <2>1, <2>2 DEF Nets
  <2>4. Answering(n, a, c, l)
    BY <1>6, <2>1, <2>3 DEF Answering, i
  <2>. QED BY <1>1, <2>1, <2>3, <2>4 DEF c
<1>7. Answers(n) = {CASE c.verb = "select" -> ServerSelects(n)
                      [] c.verb = "fetch"  -> one("ok")
                      [] c.verb = "idle"   -> [one("cont") EXCEPT !.idling = TRUE]
                      [] c.verb = "done"   -> [one("ok") EXCEPT !.idling = FALSE]}
                   \cup IF c.verb \in Refusals THEN {no} ELSE {}
  BY DEF Answers, c
<1> HIDE DEF one, no
<1>8. CASE ~(a = no /\ c.verb \in Refusals)
  <2>1. a = CASE c.verb = "select" -> ServerSelects(n)
              [] c.verb = "fetch"  -> one("ok")
              [] c.verb = "idle"   -> [one("cont") EXCEPT !.idling = TRUE]
              [] c.verb = "done"   -> [one("ok") EXCEPT !.idling = FALSE]
    BY <1>7, <1>8
  <2>2. CASE c.verb = "select"
    BY <1>5, <2>1, <2>2
  <2>3. CASE c.verb \in {"fetch", "idle", "done"}
    BY <1>6, <2>1, <2>3
  <2>. QED BY <1>2, <2>2, <2>3 DEF Verbs
<1>. QED BY <1>4, <1>8

LEMMA AnswerWired ==
  ASSUME NEW cmd, NEW folder, NEW input, NEW buf, NEW n \in Nets, n.out # <<>>,
         NEW a \in Answers(n), Wired(cmd, folder, input, buf, n)
  PROVE  Wired(cmd, folder, input, buf, a)
<1> DEFINE c == Head(n.out)
<1>1. PICK l \in Lines, s \in Seq(Lines) :
        a.wire = Append(s, l) /\ (Quiet(n.wire) => Quiet(s)) /\ Answering(n, a, c, l)
  BY AnswerForms
<1>2. Quiet(input) /\ Quiet(buf) /\ Quiet(n.wire)
  BY DEF Wired
<1>3. /\ n.up /\ Len(n.out) = 1 /\ c.verb = Verb(cmd) /\ c.tag = cmd.tag
      /\ cmd.kind = "Select" /\ folder # NoFolder => c.box = folder.box
  BY DEF Wired, Outgoing
<1>4. a.out = <<>>
  <2>1. n.out \in Seq(Sent)
    BY DEF Nets
  <2>2. Tail(n.out) \in Seq(Sent) /\ Len(Tail(n.out)) = 0
    BY <1>3, <2>1, HeadTailProperties
  <2>. QED BY <1>1, <2>2, EmptySeq DEF Answering
<1> HIDE DEF c
<1>5. c.verb \in {"select", "fetch", "idle", "done"} /\ a.up
  BY <1>1, <1>3 DEF Answering
<1>6. /\ c.verb = "select" => cmd.kind = "Select"
      /\ c.verb = "fetch" => cmd.kind = "Fetch"
      /\ c.verb = "idle" => cmd.kind = "Idle" /\ cmd.idle = "WaitContinue"
      /\ c.verb = "done" => cmd.kind = "Idle" /\ cmd.idle = "WaitDone"
  BY <1>3 DEF Verb
<1>7. Modes(cmd, folder, n)
  BY DEF Wired
<1>0. n.idling \in BOOLEAN /\ a.idling \in BOOLEAN /\ n.up = TRUE /\ a.up = TRUE
  <2>1. a \in Nets
    BY AnswersTyped
  <2>. QED BY <1>3, <1>5, <2>1 DEF Nets
<1>8. Modes(cmd, folder, a)
  <2>1. CASE c.verb = "select"
    BY <1>0, <1>1, <1>3, <1>4, <1>6, <1>7, <2>1 DEF Modes, Answering
  <2>2. CASE c.verb = "fetch"
    BY <1>0, <1>1, <1>3, <1>4, <1>6, <1>7, <2>2 DEF Modes, Answering
  <2>3. CASE c.verb = "idle"
    BY <1>0, <1>1, <1>3, <1>4, <1>6, <1>7, <2>3 DEF Modes, Answering
  <2>4. CASE c.verb = "done"
    BY <1>0, <1>1, <1>3, <1>4, <1>6, <1>7, <2>4 DEF Modes, Answering
  <2>. QED BY <1>5, <2>1, <2>2, <2>3, <2>4
<1>9. Fits(cmd, folder, a, l)
  <2>1. l.tag = cmd.tag
    BY <1>1, <1>3 DEF Answering
  <2>2. l.kind \in Expected(cmd)
    BY <1>1, <1>5, <1>6 DEF Answering, Expected
  <2>3. c.verb = "select" \/ c.verb = "fetch" \/ (c.verb = "idle" /\ l.kind = "no") => ~n.idling
    BY <1>0, <1>6, <1>7 DEF Modes
  <2>4. a.idling = (l.kind = "cont")
    BY <1>0, <1>1, <1>5, <2>3 DEF Answering
  <2>5. l.kind = "ok" /\ cmd.kind = "Select" /\ folder # NoFolder => a.selected = folder.box
    BY <1>1, <1>3, <1>6 DEF Answering
  <2>. QED BY <2>1, <2>2, <2>4, <2>5 DEF Fits
<1>10. AllFit(cmd, folder, a, a.wire)
  BY <1>1, <1>2, <1>9, AppendFits
<1>11. AllFit(cmd, folder, a, input) /\ AllFit(cmd, folder, a, buf)
  BY <1>2, QuietFits
<1>12. Outgoing(cmd, folder, a)
  BY <1>4 DEF Outgoing
<1>. QED BY <1>2, <1>4, <1>8, <1>10, <1>11, <1>12 DEF Wired

LEMMA GoodAnswers ==
  ASSUME NEW w \in Good, w.net.out # <<>>, NEW n \in Answers(w.net)
  PROVE  [w EXCEPT !.net = n] \in Good
<1>1. w \in World /\ w.net \in Nets
  BY WorldFields DEF Good
<1>2. n \in Nets
  BY <1>1, AnswersTyped
<1>3. n.up = w.net.up
  BY <1>1, AnswerForms DEF Answering
<1>4. [w EXCEPT !.net = n] \in World
  BY <1>1, <1>2, SetNet
<1>5. Wired(w.ses.cmd, w.ses.folder, w.ses.input, w.rd.buf, w.net)
        => Wired(w.ses.cmd, w.ses.folder, w.ses.input, w.rd.buf, n)
  BY <1>1, AnswerWired
<1>. QED BY <1>3, <1>4, <1>5, GoodNet

-----------------------------------------------------------------------------
(* The commands of the session                                             *)

LEMMA CommandFields ==
  ASSUME NEW kind \in {"Select", "Fetch", "Idle", "Wait"}, NEW t
  PROVE  LET k == Command(kind, t)
         IN /\ k.kind = kind /\ ~k.flushing
            /\ k.idle = IF kind = "Idle" THEN "WaitContinue" ELSE "None"
            /\ kind # "Wait" => k.tag = t
  BY DEF Command

\* A command is sent when nothing else is on its way.
LEMMA StartedWired ==
  ASSUME NEW folder, NEW g, NEW input, NEW buf, NEW n \in Nets, NEW t,
         NEW kind \in {"Select", "Fetch", "Idle", "Wait"}, NEW verb, NEW box,
         kind = "Select" => verb = "select", kind = "Fetch" => verb = "fetch",
         kind = "Idle" => verb = "idle",
         kind = "Select" => (g # NoFolder => g.box = box), kind # "Select" => g = folder,
         Wired(NoCmd, folder, input, buf, n)
  PROVE  Wired(Command(kind, t), g, input, buf, SentTo(n, kind, Sending(verb, t, box)))
<1> DEFINE k == Command(kind, t)
           c == [verb |-> verb, tag |-> t, box |-> box]
           o == Append(n.out, c)
           m == IF kind # "Wait" /\ n.up THEN [n EXCEPT !.out = o] ELSE n
<1>1. Quiet(input) /\ Quiet(buf) /\ Quiet(n.wire) /\ n.out = <<>>
  BY FreeQuiet, FreeCommand
<1>2. Modes(NoCmd, folder, n)
  BY DEF Wired
<1>3. k.kind = kind /\ k.idle = (IF kind = "Idle" THEN "WaitContinue" ELSE "None")
      /\ (kind # "Wait" => k.tag = t)
  BY CommandFields
<1>4. o = <<c>>
  BY <1>1
<1>5. Len(o) = 1 /\ Head(o) = c
  BY <1>4
<1> HIDE DEF k, o
<1>6. m.up = n.up /\ m.wire = n.wire /\ m.idling = n.idling /\ m.selected = n.selected
      /\ m.out = IF kind # "Wait" /\ n.up THEN o ELSE <<>>
  BY <1>1 DEF Nets
<1> HIDE DEF m
<1>7. c.verb = verb /\ c.tag = t /\ c.box = box
  OBVIOUS
<1> HIDE DEF c
<1>8. kind # "Wait" => Verb(k) = verb
  BY <1>3 DEF Verb
<1>9. Outgoing(k, g, m)
  <2> SUFFICES ASSUME m.out # <<>> PROVE Outgoing(k, g, m)
    BY DEF Outgoing
  <2>1. kind # "Wait" /\ n.up /\ m.out = o
    BY <1>6
  <2>. QED BY <1>3, <1>5, <1>6, <1>7, <1>8, <2>1 DEF Outgoing
<1>10. Modes(k, g, m)
  <2>1. n.up => ~n.idling
    BY <1>2, FreeCommand DEF Modes
  <2>2. n.up /\ folder # NoFolder => n.selected = folder.box
    BY <1>2, FreeCommand DEF Modes
  <2>. QED BY <1>3, <1>6, <2>1, <2>2 DEF Modes
<1>11. Wired(k, g, input, buf, m)
  BY <1>1, <1>6, <1>9, <1>10, QuietWired
<1>. QED BY <1>11 DEF k, m, o, c, SentTo, Sending

LEMMA FedFields ==
  ASSUME NEW s \in Sessions, s.pending # "IdleDone"
  PROVE  Alike(FedSession(s), s)
<1>1. CASE s.input # <<>>
  <2>1. Alike([s EXCEPT !.async = TRUE], s)
    BY SessionsAlike, ZenonT(60)
  <2>. QED BY <1>1, <2>1 DEF FedSession
<1>2. CASE s.input = <<>>
  <2> DEFINE f == s.flushTimer \/ s.state = "Flushing"
  <2>1. Asked(s) = [s EXCEPT !.pending = s.pending, !.flushTimer = f]
    BY DEF Asked
  <2>2. s = [s EXCEPT !.pending = s.pending]
    BY DEF Sessions
  <2> HIDE DEF f
  <2>3. Alike(Asked(s), s)
    BY <2>1 DEF Alike, Sessions
  <2>. QED BY <1>2, <2>3 DEF FedSession
<1>. QED BY <1>1, <1>2

LEMMA FedBuffer == ASSUME NEW r \in Readers, NEW s PROVE FedReader(s, r).buf = r.buf
  BY DEF FedReader, ReadWith, Readers

\* v is w with a command, of which the session is told the mailbox afterwards.
HasCommand(v, w, kind, box) ==
  /\ v \in World /\ w.fault = "None" /\ w.ses.cmd = NoCmd
  /\ v.ses.open = w.ses.open /\ v.ses.cmd = Command(kind, NextTag(w.ses.tag))
  /\ v.ses.folder = w.ses.folder /\ v.ses.state = "Normal"
  /\ v.ses.pending = w.ses.pending /\ v.ses.server = w.ses.server
  /\ \A g : /\ kind = "Select" => (g # NoFolder => g.box = box)
            /\ kind # "Select" => g = w.ses.folder
            => Wired(v.ses.cmd, g, v.ses.input, v.rd.buf, v.net)

\* A command is started by an open session that has none; nothing else is on its way.
LEMMA Started ==
  ASSUME NEW w \in World, NEW who \in Objects, NEW kind \in {"Select", "Fetch", "Idle", "Wait"},
         NEW verb, NEW box \in Boxes \cup {NoBox},
         kind = "Select" => verb = "select", kind = "Fetch" => verb = "fetch",
         kind = "Idle" => verb = "idle",
         w.ses.pending # "IdleDone",
         w.fault = "None" => Wired(w.ses.cmd, w.ses.folder, w.ses.input, w.rd.buf, w.net),
         StartCommandL(w, who, kind, verb, box).fault = "None"
  PROVE  HasCommand(StartCommandL(w, who, kind, verb, box), w, kind, box)
<1> DEFINE v == StartCommandL(w, who, kind, verb, box)
           t == NextTag(w.ses.tag)
           k == Command(kind, t)
           z == [w.ses EXCEPT !.cmd = k, !.tag = t]
           s == FedSession(z)
           c == Sending(verb, t, box)
<1>0. kind = "Wait" \/ verb \in Verbs
  BY DEF Verbs
<1>13. HasStarted(v, w, who, kind, verb, box)
  BY <1>0, StartEffect
<1> HIDE DEF v, c, s, z, k
<1>1. /\ w.fault = "None" /\ w.ses.cmd = NoCmd /\ w.ses.state = "Normal"
      /\ v \in World /\ t \in 1 .. TagModulus
      /\ v.ses = StartedSession(w.ses, who, kind)
      /\ v.rd = FedReader(w.ses, w.rd) /\ v.net = SentTo(w.net, kind, c)
  BY <1>13 DEF HasStarted, c
<1> USE DEF v, c, s, z, k
<1>12. v.ses = IF w.ses.report = "None" THEN [s EXCEPT !.report = who] ELSE s
  BY <1>1, ZenonT(60) DEF StartedSession
<1>2. w.ses \in Sessions /\ w.rd \in Readers /\ w.net \in Nets
  BY WorldFields
<1>3. k \in Commands
  <2>1. (IF kind = "Wait" THEN 0 ELSE t) \in 0 .. TagModulus
    BY <1>1, SessionAssumption
  <2> HIDE DEF t
  <2>. QED BY <2>1 DEF Command, Commands
<1> HIDE DEF v, t
<1>4. z \in Sessions
  <2>1. t \in 0 .. TagModulus
    BY <1>1, SessionAssumption
  <2> HIDE DEF k
  <2>. QED BY <1>2, <1>3, <2>1 DEF Sessions
<1> HIDE DEF k
<1>5. /\ z.open = w.ses.open /\ z.cmd = k /\ z.folder = w.ses.folder /\ z.state = w.ses.state
      /\ z.pending = w.ses.pending /\ z.server = w.ses.server /\ z.input = w.ses.input
  BY <1>2 DEF Sessions
<1> HIDE DEF z
<1>6. Alike(s, z)
  BY <1>4, <1>5, FedFields
<1>7. s \in Sessions
  <2>1. CASE w.ses.report # "None"
    BY <1>1, <1>12, <2>1, WorldFields
  <2>2. CASE w.ses.report = "None"
    <3> DEFINE f == z.flushTimer \/ z.state = "Flushing"
               p == IF z.pending = "IdleDone" THEN "None" ELSE z.pending
    <3>1. Asked(z) = [z EXCEPT !.pending = p, !.flushTimer = f]
      BY <1>4 DEF Asked, Sessions
    <3>2. f \in BOOLEAN /\ p \in {"None", "Select", "IdleEnter", "IdleWait", "IdleDone"}
      BY <1>4 DEF Sessions
    <3> HIDE DEF f, p
    <3>3. Asked(z) \in Sessions /\ [z EXCEPT !.async = TRUE] \in Sessions
      BY <1>4, <3>1, <3>2 DEF Sessions
    <3>. QED BY <3>3 DEF FedSession
  <2>. QED BY <2>1, <2>2
<1> HIDE DEF s
<1>8. Alike(v.ses, s)
  <2>1. Alike([s EXCEPT !.report = who], s)
    BY <1>7, SessionsAlike, ZenonT(60)
  <2>2. Alike(s, s)
    BY DEF Alike
  <2>. QED BY <1>12, <2>1, <2>2
<1>9. /\ v.ses.open = w.ses.open /\ v.ses.cmd = k /\ v.ses.folder = w.ses.folder
      /\ v.ses.state = "Normal" /\ v.ses.pending = w.ses.pending /\ v.ses.server = w.ses.server
      /\ v.ses.input = w.ses.input
  BY <1>1, <1>5, <1>6, <1>8 DEF Alike
<1>10. v.rd.buf = w.rd.buf
  BY <1>1, <1>2, FedBuffer
<1>11. ASSUME NEW g, kind = "Select" => (g # NoFolder => g.box = box),
              kind # "Select" => g = w.ses.folder
       PROVE  Wired(v.ses.cmd, g, v.ses.input, v.rd.buf, v.net)
  <2>1. Wired(NoCmd, w.ses.folder, w.ses.input, w.rd.buf, w.net)
    BY <1>1
  <2>2. Wired(k, g, w.ses.input, w.rd.buf, v.net)
    BY <1>1, <1>2, <1>11, <2>1, StartedWired DEF k
  <2>. QED BY <1>9, <1>10, <2>2
<1>. QED BY <1>1, <1>9, <1>10, <1>11 DEF v, k, t, HasCommand

-----------------------------------------------------------------------------
(* The requests of the session's callers                                   *)

LEMMA FreeHolds ==
  ASSUME NEW w \in World
  PROVE  /\ NoOperation(w).fault = "None" =>
              NoOperation(w) = w /\ w.fault = "None" /\ w.ses.pending = "None"
         /\ LoggedIn(w).fault = "None" => LoggedIn(w) = w /\ w.fault = "None"
<1> DEFINE p == w.ses.pending = "None"
           q == w.ses.server # "None"
<1>1. NoOperation(w) = Expect(w, p, "OperationPending") /\ LoggedIn(w) = Expect(w, q, "UnAuthenticated")
  BY DEF NoOperation, LoggedIn
<1>2. p \in BOOLEAN /\ q \in BOOLEAN
  OBVIOUS
<1> HIDE DEF p, q
<1>3. NoOperation(w).fault = "None" => p /\ NoOperation(w) = w /\ w.fault = "None"
  BY <1>1, <1>2, ExpectHolds, Names
<1>4. LoggedIn(w).fault = "None" => LoggedIn(w) = w /\ w.fault = "None"
  BY <1>1, <1>2, ExpectHolds, Names
<1>. QED BY <1>3, <1>4 DEF p

LEMMA ReadyHolds ==
  ASSUME NEW w \in World, LoggedIn(NoOperation(w)).fault = "None"
  PROVE  LoggedIn(NoOperation(w)) = w /\ w.fault = "None" /\ w.ses.pending = "None"
<1> DEFINE n == NoOperation(w)
<1>1. n \in World
  BY AssertedTyped
<1>2. n.fault = "None" => n = w /\ w.fault = "None" /\ w.ses.pending = "None"
  BY FreeHolds
<1> HIDE DEF n
<1>3. LoggedIn(n) = n /\ n.fault = "None"
  BY <1>1, FreeHolds DEF n
<1>. QED BY <1>2, <1>3 DEF n

LEMMA GoodAsserted ==
  ASSUME NEW w \in Good
  PROVE  NoOperation(w) \in Good /\ LoggedIn(w) \in Good /\ InIdleMode(w) \in Good
<1>1. \A u \in Good : LoggedIn(u) \in Good
  BY GoodExpect, Names DEF LoggedIn
<1>. QED BY <1>1, GoodExpect, Names DEF NoOperation, InIdleMode

\* A command other than SELECT is started by a session that has no operation pending.
LEMMA StartedFree ==
  ASSUME NEW w \in Good, NEW who \in Objects, NEW kind \in {"Fetch", "Idle", "Wait"}, NEW verb,
         kind = "Fetch" => verb = "fetch", kind = "Idle" => verb = "idle",
         w.ses.open, w.fault = "None" => w.ses.pending = "None",
         StartCommandL(w, who, kind, verb, NoBox).fault = "None"
  PROVE  LET v == StartCommandL(w, who, kind, verb, NoBox)
         IN /\ v \in World /\ v.ses.open /\ v.ses.cmd = Command(kind, NextTag(w.ses.tag))
            /\ v.ses.state = "Normal" /\ v.ses.pending = "None"
            /\ v.ses.folder # NoFolder => v.ses.server = "Selected"
            /\ Wired(v.ses.cmd, v.ses.folder, v.ses.input, v.rd.buf, v.net)
<1> DEFINE v == StartCommandL(w, who, kind, verb, NoBox)
<1>1. w \in World /\ NoBox \in Boxes \cup {NoBox} /\ (kind = "Wait" \/ verb \in Verbs)
  BY DEF Good, Verbs
<1>2. HasStarted(v, w, who, kind, verb, NoBox)
  BY <1>1, StartEffect
<1>3. w.fault = "None" /\ w.ses.cmd = NoCmd
  BY <1>2 DEF HasStarted
<1>4. /\ w.ses.pending = "None"
      /\ Wired(w.ses.cmd, w.ses.folder, w.ses.input, w.rd.buf, w.net)
      /\ Shaped(w.ses.cmd, w.ses.state, w.ses.pending, w.ses.folder, w.ses.server)
  BY <1>3 DEF Good, Sound
<1>5. w.ses.folder # NoFolder => w.ses.server = "Selected"
  BY <1>3, <1>4, FreeCommand DEF Shaped
<1>6. HasCommand(v, w, kind, NoBox)
  BY <1>1, <1>4, Started
<1> HIDE DEF v
<1>7. kind # "Select"
  OBVIOUS
<1>8. Wired(v.ses.cmd, w.ses.folder, v.ses.input, v.rd.buf, v.net)
  BY <1>6, <1>7 DEF HasCommand
<1>9. /\ v \in World /\ v.ses.open /\ v.ses.cmd = Command(kind, NextTag(w.ses.tag))
      /\ v.ses.state = "Normal" /\ v.ses.pending = "None"
      /\ v.ses.folder # NoFolder => v.ses.server = "Selected"
      /\ Wired(v.ses.cmd, v.ses.folder, v.ses.input, v.rd.buf, v.net)
  BY <1>4, <1>5, <1>6, <1>8 DEF HasCommand
<1>. QED BY <1>9 DEF v

LEMMA CommandShaped ==
  ASSUME NEW t, NEW folder, NEW server, folder # NoFolder => server = "Selected"
  PROVE  /\ Shaped(Command("Fetch", t), "Normal", "None", folder, server)
         /\ Shaped(Command("Wait", t), "Normal", "None", folder, server)
         /\ Shaped(Command("Idle", t), "Normal", "IdleEnter", folder, server)
<1>1. \A k \in {"Fetch", "Wait", "Idle"} :
        /\ Command(k, t).kind = k /\ ~Command(k, t).flushing
        /\ Command(k, t).idle = IF k = "Idle" THEN "WaitContinue" ELSE "None"
  BY DEF Command
<1>. QED BY <1>1 DEF Shaped

LEMMA GoodFetch == ASSUME NEW w \in Good, NEW who \in Objects PROVE FetchL(w, who) \in Good
<1> DEFINE a == Expect(w, w.ses.server = "Selected", "NotSelected")
           v == NoOperation(a)
           u == StartCommandL(v, who, "Fetch", "fetch", NoBox)
<1>1. FetchL(w, who) = IF ~v.ses.open THEN CompleteClosed(v, who) ELSE u
  BY DEF FetchL
<1>2. a \in Good
  BY GoodExpect, Names
<1> HIDE DEF a
<1>3. v \in Good /\ (v.fault = "None" => v.ses.pending = "None")
  BY <1>2, GoodAsserted, FreeHolds DEF Good
<1> HIDE DEF v
<1>4. ASSUME v.ses.open PROVE u \in Good
  <2>1. u \in World
    BY <1>3, StartCommandTyped DEF Good, Verbs
  <2>2. ASSUME u.fault = "None" PROVE Sound(u)
    <3> DEFINE t == NextTag(v.ses.tag)
    <3>1. /\ u \in World /\ u.ses.open /\ u.ses.cmd = Command("Fetch", t)
          /\ u.ses.state = "Normal" /\ u.ses.pending = "None"
          /\ u.ses.folder # NoFolder => u.ses.server = "Selected"
          /\ Wired(u.ses.cmd, u.ses.folder, u.ses.input, u.rd.buf, u.net)
      BY <1>3, <1>4, <2>2, StartedFree
    <3> HIDE DEF u, t
    <3>2. Shaped(u.ses.cmd, "Normal", "None", u.ses.folder, u.ses.server)
      BY <3>1, CommandShaped
    <3>. QED BY <3>1, <3>2 DEF Sound
  <2>. QED BY <2>1, <2>2 DEF Good
<1> HIDE DEF u
<1>. QED BY <1>1, <1>3, <1>4, GoodCompleteClosed

LEMMA GoodWaitForServerEvent ==
  ASSUME NEW w \in Good, NEW who \in Objects
  PROVE  WaitForServerEventL(w, who) \in Good
<1> DEFINE v == LoggedIn(NoOperation(w))
           u == StartCommandL(v, who, "Wait", "none", NoBox)
<1>1. WaitForServerEventL(w, who) = IF ~v.ses.open THEN CompleteClosed(v, who) ELSE u
  BY DEF WaitForServerEventL
<1>2. v.fault = "None" => v.ses.pending = "None"
  BY ReadyHolds DEF Good
<1>3. v \in Good
  BY GoodAsserted
<1> HIDE DEF v
<1>4. ASSUME v.ses.open PROVE u \in Good
  <2>1. u \in World
    BY <1>3, StartCommandTyped DEF Good
  <2>2. ASSUME u.fault = "None" PROVE Sound(u)
    <3> DEFINE t == NextTag(v.ses.tag)
    <3>1. /\ u \in World /\ u.ses.open /\ u.ses.cmd = Command("Wait", t)
          /\ u.ses.state = "Normal" /\ u.ses.pending = "None"
          /\ u.ses.folder # NoFolder => u.ses.server = "Selected"
          /\ Wired(u.ses.cmd, u.ses.folder, u.ses.input, u.rd.buf, u.net)
      BY <1>2, <1>3, <1>4, <2>2, StartedFree
    <3> HIDE DEF u, t
    <3>2. Shaped(u.ses.cmd, "Normal", "None", u.ses.folder, u.ses.server)
      BY <3>1, CommandShaped
    <3>. QED BY <3>1, <3>2 DEF Sound
  <2>. QED BY <2>1, <2>2 DEF Good
<1> HIDE DEF u
<1>. QED BY <1>1, <1>3, <1>4, GoodCompleteClosed

LEMMA GoodEnterIdle == ASSUME NEW w \in Good, NEW who \in Objects PROVE EnterIdleL(w, who) \in Good
<1> DEFINE v == LoggedIn(NoOperation(w))
           u == StartCommandL(v, who, "Idle", "idle", NoBox)
           x == [u EXCEPT !.ses.pending = "IdleEnter"]
<1>1. EnterIdleL(w, who) = IF ~v.ses.open THEN CompleteClosed(v, who) ELSE x
  BY DEF EnterIdleL
<1>2. v.fault = "None" => v.ses.pending = "None"
  BY ReadyHolds DEF Good
<1>3. v \in Good
  BY GoodAsserted
<1> HIDE DEF v
<1>4. ASSUME v.ses.open PROVE x \in Good
  <2>1. u \in World
    BY <1>3, StartCommandTyped DEF Good, Verbs
  <2>2. u.fault = "None" =>
          LET t == NextTag(v.ses.tag)
          IN /\ u \in World /\ u.ses.open /\ u.ses.cmd = Command("Idle", t)
             /\ u.ses.state = "Normal" /\ u.ses.pending = "None"
             /\ u.ses.folder # NoFolder => u.ses.server = "Selected"
             /\ Wired(u.ses.cmd, u.ses.folder, u.ses.input, u.rd.buf, u.net)
    BY <1>2, <1>3, <1>4, StartedFree
  <2> HIDE DEF u
  <2>3. x \in World
    BY <2>1, SetPending
  <2>4. /\ x.fault = u.fault /\ x.rd = u.rd /\ x.net = u.net
        /\ x.ses.open = u.ses.open /\ x.ses.cmd = u.ses.cmd /\ x.ses.folder = u.ses.folder
        /\ x.ses.state = u.ses.state /\ x.ses.pending = "IdleEnter"
        /\ x.ses.server = u.ses.server /\ x.ses.input = u.ses.input
    BY <2>1 DEF World, Sessions
  <2> HIDE DEF x
  <2>5. ASSUME x.fault = "None" PROVE Sound(x)
    <3> DEFINE t == NextTag(v.ses.tag)
    <3>1. /\ u.ses.open /\ u.ses.cmd = Command("Idle", t) /\ u.ses.state = "Normal"
          /\ u.ses.folder # NoFolder => u.ses.server = "Selected"
          /\ Wired(u.ses.cmd, u.ses.folder, u.ses.input, u.rd.buf, u.net)
      BY <2>2, <2>4, <2>5
    <3> HIDE DEF t
    <3>2. Shaped(u.ses.cmd, "Normal", "IdleEnter", u.ses.folder, u.ses.server)
      BY <3>1, CommandShaped
    <3>. QED BY <2>4, <3>1, <3>2 DEF Sound
  <2>. QED BY <2>3, <2>5 DEF Good
<1> HIDE DEF x
<1>. QED BY <1>1, <1>3, <1>4, GoodCompleteClosed

LEMMA ClosedFields ==
  ASSUME NEW w \in World, NEW who \in Objects
  PROVE  LET v == CompleteClosed(w, who)
         IN v \in World /\ v.fault = w.fault /\ v.net = w.net /\ v.rd = w.rd /\ Alike(v.ses, w.ses)
<1> DEFINE q == Queue(w, who)
           v == Complete(q, KErrImapClosed)
<1>1. /\ q \in World /\ q.fault = w.fault /\ q.rd = w.rd /\ q.net = w.net
      /\ w.ses.report # "None" => q = w
      /\ w.ses.report = "None" => q.ses = [w.ses EXCEPT !.report = who]
  BY QueueEffect
<1> HIDE DEF q
<1>2. KErrImapClosed \in Codes
  BY CodesAreStatuses
<1>3. /\ v \in World /\ v.fault = q.fault /\ v.rd = q.rd /\ v.net = q.net
      /\ v.ses = [q.ses EXCEPT !.report = "None"]
  BY <1>1, <1>2, CompleteEffect
<1> HIDE DEF v
<1>4. Alike(q.ses, w.ses)
  <2>1. CASE w.ses.report # "None"
    BY <1>1, <2>1 DEF Alike
  <2>2. CASE w.ses.report = "None"
    <3>1. Alike([w.ses EXCEPT !.report = who], w.ses)
      BY WorldFields, SessionsAlike, ZenonT(60)
    <3>. QED BY <1>1, <2>2, <3>1
  <2>. QED BY <2>1, <2>2
<1>5. Alike(v.ses, q.ses)
  <2>1. Alike([q.ses EXCEPT !.report = "None"], q.ses)
    BY <1>1, WorldFields, SessionsAlike, ZenonT(60)
  <2>. QED BY <1>3, <2>1
<1>6. Alike(v.ses, w.ses)
  BY <1>4, <1>5 DEF Alike
<1>. QED BY <1>1, <1>3, <1>6 DEF v, q, CompleteClosed

LEMMA SelectShaped ==
  ASSUME NEW t, NEW folder, NEW server
  PROVE  Shaped(Command("Select", t), "Normal", "Select", folder, server)
  BY DEF Shaped, Command

LEMMA GoodSelect ==
  ASSUME NEW w \in Good, NEW who \in Objects, NEW box \in Boxes \cup {NoBox}
  PROVE  SelectL(w, who, box) \in Good
<1> DEFINE v == LoggedIn(NoOperation(w))
           c == CompleteClosed(v, who)
           z == [c EXCEPT !.ses.folder = NoFolder]
           p == [v EXCEPT !.ses.pending = "Select"]
           s == StartCommandL(p, who, "Select", "select", box)
           f == [NoFolder EXCEPT !.box = box]
           x == [s EXCEPT !.ses.folder = f]
<1>1. SelectL(w, who, box) = CASE ~v.ses.open -> z
                               [] v.ses.open /\ v.ses.folder.box = box -> Complete(Queue(v, who), KErrNone)
                               [] OTHER -> x
  BY DEF SelectL
<1>2. v \in Good
  BY GoodAsserted
<1> HIDE DEF v
<1>3. v \in World /\ v.ses.open \in BOOLEAN
  BY <1>2, SessionFields DEF Good
<1>4. ASSUME ~v.ses.open PROVE z \in Good
  <2>1. /\ c \in World /\ c.fault = v.fault /\ c.net = v.net /\ Alike(c.ses, v.ses)
    BY <1>3, ClosedFields
  <2> HIDE DEF c
  <2>2. z \in World
    BY <2>1, SetFolder, NoCommandTyped
  <2>3. z.fault = c.fault /\ z.net = c.net /\ z.ses.open = c.ses.open /\ z.ses.cmd = c.ses.cmd
    BY <2>1 DEF World, Sessions
  <2> HIDE DEF z
  <2>. QED BY <1>2, <1>4, <2>1, <2>2, <2>3 DEF Good, Sound, Alike
<1>5. Complete(Queue(v, who), KErrNone) \in Good
  BY <1>2, GoodQueue, GoodComplete, CodesAreStatuses
<1>6. ASSUME v.ses.open PROVE x \in Good
  <2>1. p \in World
    BY <1>3, SetPending
  <2>2. /\ p.fault = v.fault /\ p.rd = v.rd /\ p.net = v.net
        /\ p.ses.open = v.ses.open /\ p.ses.cmd = v.ses.cmd /\ p.ses.folder = v.ses.folder
        /\ p.ses.input = v.ses.input /\ p.ses.pending = "Select"
    BY <1>3 DEF World, Sessions
  <2> HIDE DEF p
  <2>3. s \in World
    BY <2>1, StartCommandTyped DEF Verbs
  <2>4. f \in Mailboxes /\ f.box = box
    BY SessionAssumption DEF NoFolder, Mailboxes
  <2>5. p.fault = "None" => Wired(p.ses.cmd, p.ses.folder, p.ses.input, p.rd.buf, p.net)
    BY <1>2, <1>6, <2>2 DEF Good, Sound
  <2>6. s.fault = "None" => HasCommand(s, p, "Select", box)
    BY <2>1, <2>2, <2>5, Started
  <2> HIDE DEF s, f
  <2>7. x \in World
    BY <2>3, <2>4, SetFolder
  <2>8. /\ x.fault = s.fault /\ x.rd = s.rd /\ x.net = s.net
        /\ x.ses.open = s.ses.open /\ x.ses.cmd = s.ses.cmd /\ x.ses.folder = f
        /\ x.ses.state = s.ses.state /\ x.ses.pending = s.ses.pending
        /\ x.ses.server = s.ses.server /\ x.ses.input = s.ses.input
    BY <2>3 DEF World, Sessions
  <2> HIDE DEF x
  <2>9. ASSUME x.fault = "None" PROVE Sound(x)
    <3>1. HasCommand(s, p, "Select", box)
      BY <2>6, <2>8, <2>9
    <3>2. Wired(s.ses.cmd, f, s.ses.input, s.rd.buf, s.net)
      BY <2>4, <3>1 DEF HasCommand
    <3>3. s.ses.open /\ s.ses.state = "Normal" /\ s.ses.pending = "Select"
      BY <1>6, <2>2, <3>1 DEF HasCommand
    <3>4. Shaped(s.ses.cmd, "Normal", "Select", f, s.ses.server)
      BY <3>1, SelectShaped DEF HasCommand
    <3>. QED BY <2>8, <3>2, <3>3, <3>4 DEF Sound
  <2>. QED BY <2>7, <2>9 DEF Good
<1> HIDE DEF x, z
<1>. QED BY <1>1, <1>3, <1>4, <1>5, <1>6

LEMMA IdleHolds ==
  ASSUME NEW w \in World, InIdleMode(w).fault = "None"
  PROVE  /\ InIdleMode(w) = w /\ w.fault = "None" /\ w.ses.state = "Normal"
         /\ w.ses.pending \in {"IdleEnter", "IdleWait"}
<1> DEFINE p == w.ses.pending \in {"IdleEnter", "IdleWait"}
           n == w.ses.state = "Normal"
           a == LoggedIn(w)
           b == Expect(a, p, "OperationPendingNotIdle")
<1>1. InIdleMode(w) = Expect(b, n, "SessionInvalidSessionState") /\ p \in BOOLEAN /\ n \in BOOLEAN
  BY DEF InIdleMode
<1> HIDE DEF p, n
<1>2. a \in World /\ b \in World
  BY AssertedTyped, ExpectTyped, Names
<1>3. a.fault = "None" => a = w /\ w.fault = "None"
  BY FreeHolds
<1> HIDE DEF b
<1>4. n /\ InIdleMode(w) = b /\ b.fault = "None"
  BY <1>1, <1>2, ExpectHolds, Names
<1> HIDE DEF a
<1>5. p /\ b = a /\ a.fault = "None"
  BY <1>1, <1>2, <1>4, ExpectHolds, Names DEF b
<1>. QED BY <1>3, <1>4, <1>5 DEF p, n

LEMMA GoodWaitForIdleEvent ==
  ASSUME NEW w \in Good, NEW who \in Objects
  PROVE  WaitForIdleEvent(w, who) \in Good
<1> DEFINE v == InIdleMode(w)
           p == [v EXCEPT !.ses.pending = "IdleWait"]
<1>1. WaitForIdleEvent(w, who) = IF ~v.ses.open THEN CompleteClosed(v, who)
                                 ELSE ProcessInputBufferAsync(Queue(p, who))
  BY DEF WaitForIdleEvent
<1>2. v \in Good
  BY GoodAsserted
<1>3. v.fault = "None" => v.ses.pending \in {"IdleEnter", "IdleWait"}
  BY IdleHolds DEF Good
<1> HIDE DEF v
<1>4. ASSUME v.ses.open PROVE p \in Good
  <2>1. v \in World /\ p \in World
    BY <1>2, SetPending DEF Good
  <2>2. /\ p.fault = v.fault /\ p.rd = v.rd /\ p.net = v.net
        /\ p.ses.open = v.ses.open /\ p.ses.cmd = v.ses.cmd /\ p.ses.folder = v.ses.folder
        /\ p.ses.state = v.ses.state /\ p.ses.pending = "IdleWait"
        /\ p.ses.server = v.ses.server /\ p.ses.input = v.ses.input
    BY <2>1 DEF World, Sessions
  <2> HIDE DEF p
  <2>3. ASSUME p.fault = "None" PROVE Sound(p)
    <3>1. /\ Wired(v.ses.cmd, v.ses.folder, v.ses.input, v.rd.buf, v.net)
          /\ Shaped(v.ses.cmd, v.ses.state, v.ses.pending, v.ses.folder, v.ses.server)
      BY <1>2, <1>4, <2>2, <2>3 DEF Good, Sound
    <3>2. v.ses.pending \in {"IdleEnter", "IdleWait"}
      BY <1>3, <2>2, <2>3
    <3>3. Shaped(v.ses.cmd, v.ses.state, "IdleWait", v.ses.folder, v.ses.server)
      BY <3>1, <3>2 DEF Shaped
    <3>. QED BY <1>4, <2>2, <3>1, <3>3 DEF Sound
  <2>. QED BY <2>1, <2>3 DEF Good
<1> HIDE DEF p
<1>. QED BY <1>1, <1>2, <1>4, GoodCompleteClosed, GoodQueue, GoodAsync

\* DONE is sent to a server that idles, and nothing else is on its way.
LEMMA DoneWired ==
  ASSUME NEW cmd \in Commands, NEW folder, NEW input, NEW buf, NEW n \in Nets,
         cmd.kind = "Idle", cmd.idle = "WaitResponse", Wired(cmd, folder, input, buf, n)
  PROVE  LET c == [verb |-> "done", tag |-> cmd.tag, box |-> NoBox]
         IN Wired([cmd EXCEPT !.idle = "WaitDone"], folder, input, buf,
                  IF n.up THEN [n EXCEPT !.out = Append(@, c)] ELSE n)
<1> DEFINE c == [verb |-> "done", tag |-> cmd.tag, box |-> NoBox]
           o == Append(n.out, c)
           k == [cmd EXCEPT !.idle = "WaitDone"]
           m == IF n.up THEN [n EXCEPT !.out = o] ELSE n
<1>1. Quiet(input) /\ Quiet(buf) /\ Quiet(n.wire) /\ n.out = <<>>
  BY FreeQuiet, FreeCommand
<1>2. Modes(cmd, folder, n)
  BY DEF Wired
<1>3. o = <<c>>
  BY <1>1
<1>4. Len(o) = 1 /\ Head(o) = c /\ o # <<>>
  BY <1>3
<1>5. k.kind = "Idle" /\ k.idle = "WaitDone" /\ k.tag = cmd.tag
  BY DEF Commands
<1> HIDE DEF o, k
<1>6. m.up = n.up /\ m.wire = n.wire /\ m.idling = n.idling /\ m.selected = n.selected
      /\ m.out = IF n.up THEN o ELSE <<>>
  BY <1>1 DEF Nets
<1> HIDE DEF m
<1>7. c.verb = "done" /\ c.tag = cmd.tag
  OBVIOUS
<1> HIDE DEF c
<1>8. Verb(k) = "done"
  BY <1>5 DEF Verb
<1>9. Outgoing(k, folder, m)
  BY <1>4, <1>5, <1>6, <1>7, <1>8 DEF Outgoing
<1>10. Modes(k, folder, m)
  <2>1. n.up => n.idling
    BY <1>2 DEF Modes
  <2>2. n.up /\ folder # NoFolder => n.selected = folder.box
    BY <1>2 DEF Modes
  <2>3. m.idling = n.idling /\ n.idling \in BOOLEAN
    BY <1>6 DEF Nets
  <2>. QED BY <1>4, <1>5, <1>6, <2>1, <2>2, <2>3 DEF Modes
<1>11. Wired(k, folder, input, buf, m)
  BY <1>1, <1>6, <1>9, <1>10, QuietWired
<1>. QED BY <1>11 DEF k, m, o, c

LEMMA GoodDoneIdle == ASSUME NEW w \in Good, NEW who \in Objects PROVE DoneIdle(w, who) \in Good
<1> DEFINE i == InIdleMode(w)
           v == Expect(i, w.ses.cmd # NoCmd, "SessionNullCurrentCommand")
           s == Expect(v, v.ses.cmd.idle = "WaitResponse", "IdleStateInvalid")
           p == [s EXCEPT !.ses.pending = "IdleDone", !.ses.cmd.idle = "WaitDone"]
           d == Send(p, "done", NoBox)
<1>1. DoneIdle(w, who) = IF ~v.ses.open THEN CompleteClosed(v, who)
                         ELSE ProcessInputBufferAsync(Queue(d, who))
  BY DEF DoneIdle
<1>2. i \in Good
  BY GoodAsserted
<1>3. i.fault = "None" => i.ses.pending \in {"IdleEnter", "IdleWait"} /\ i.ses.state = "Normal"
  BY IdleHolds DEF Good
<1> HIDE DEF i
<1>4. v \in Good /\ (v.fault = "None" => v = i)
  <2>1. (w.ses.cmd # NoCmd) \in BOOLEAN
    OBVIOUS
  <2>2. v.fault = "None" => v = i
    BY <1>2, <2>1, ExpectHolds, Names DEF Good
  <2>. QED BY <1>2, <2>2, GoodExpect, Names
<1> HIDE DEF v
<1>5. s \in Good /\ (s.fault = "None" => s = v /\ v.ses.cmd.idle = "WaitResponse")
      /\ s.ses.open = v.ses.open
  <2>1. s.fault = "None" => s = v /\ v.ses.cmd.idle = "WaitResponse"
    BY <1>4, ExpectHolds, Names DEF Good
  <2>2. s.ses.open = v.ses.open
    BY <1>4 DEF Expect, Good, World
  <2>. QED BY <1>4, <2>1, <2>2, GoodExpect, Names
<1> HIDE DEF s
<1>6. s \in World
  BY <1>5 DEF Good
<1>7. ASSUME v.ses.open PROVE d \in Good
  <2> DEFINE k == [s.ses.cmd EXCEPT !.idle = "WaitDone"]
             c == [verb |-> "done", tag |-> k.tag, box |-> NoBox]
  <2>1. k \in Commands /\ k.kind = s.ses.cmd.kind /\ k.tag = s.ses.cmd.tag
        /\ k.flushing = s.ses.cmd.flushing /\ k.idle = "WaitDone"
    BY <1>6, SessionFields DEF Commands
  <2>2. p = [s EXCEPT !.ses.pending = "IdleDone", !.ses.cmd = k]
    BY <1>6 DEF World, Sessions
  <2> DEFINE kk == k
  <2>3. kk = k
    OBVIOUS
  <2> HIDE DEF kk
  <2>4. p = [s EXCEPT !.ses.pending = "IdleDone", !.ses.cmd = kk]
    BY <2>2, <2>3
  <2> HIDE DEF p
  <2>5. p \in World
    BY <1>6, <2>1, <2>3, <2>4, SetPending, SetCmd
  <2>6. /\ p.fault = s.fault /\ p.rd = s.rd /\ p.net = s.net
        /\ p.ses.open = s.ses.open /\ p.ses.cmd = kk /\ p.ses.folder = s.ses.folder
        /\ p.ses.state = s.ses.state /\ p.ses.pending = "IdleDone"
        /\ p.ses.server = s.ses.server /\ p.ses.input = s.ses.input
    BY <1>6, <2>4 DEF World, Sessions
  <2>7. NoBox \in Boxes \cup {NoBox} /\ "done" \in Verbs
    BY DEF Verbs
  <2>8. /\ d \in World /\ d.fault = p.fault /\ d.ses = p.ses /\ d.rd = p.rd
        /\ d.net = IF p.net.up
                   THEN [p.net EXCEPT !.out =
                           Append(@, [verb |-> "done", tag |-> p.ses.cmd.tag, box |-> NoBox])]
                   ELSE p.net
    BY <2>5, <2>7, SendEffect
  <2> HIDE DEF d
  <2>9. ASSUME d.fault = "None" PROVE Sound(d)
    <3>1. s = v /\ v = i /\ v.ses.cmd.idle = "WaitResponse" /\ s.fault = "None"
      BY <1>4, <1>5, <2>6, <2>8, <2>9
    <3>2. s.ses.pending \in {"IdleEnter", "IdleWait"} /\ s.ses.state = "Normal"
      BY <1>3, <3>1
    <3>3. /\ Wired(s.ses.cmd, s.ses.folder, s.ses.input, s.rd.buf, s.net)
          /\ Shaped(s.ses.cmd, s.ses.state, s.ses.pending, s.ses.folder, s.ses.server)
      BY <1>5, <1>7, <3>1 DEF Good, Sound
    <3>4. s.ses.cmd.kind = "Idle" /\ ~s.ses.cmd.flushing
      BY <3>1, <3>2, <3>3 DEF Shaped
    <3>5. s.ses.cmd \in Commands /\ s.net \in Nets
      BY <1>6, SessionFields, WorldFields
    <3>6. s.ses.cmd.idle = "WaitResponse"
      BY <3>1
    <3>7. LET a == [verb |-> "done", tag |-> s.ses.cmd.tag, box |-> NoBox]
          IN Wired(k, s.ses.folder, s.ses.input, s.rd.buf,
                   IF s.net.up THEN [s.net EXCEPT !.out = Append(@, a)] ELSE s.net)
      BY <3>3, <3>4, <3>5, <3>6, DoneWired
    <3> HIDE DEF k
    <3>8. d.net = IF s.net.up
                  THEN [s.net EXCEPT !.out =
                          Append(@, [verb |-> "done", tag |-> s.ses.cmd.tag, box |-> NoBox])]
                  ELSE s.net
      BY <2>1, <2>3, <2>6, <2>8
    <3>9. Wired(k, s.ses.folder, s.ses.input, s.rd.buf, d.net)
      BY <3>7, <3>8
    <3>10. Shaped(k, s.ses.state, "IdleDone", s.ses.folder, s.ses.server)
      BY <2>1, <3>2, <3>3, <3>4 DEF Shaped
    <3>. QED BY <1>5, <1>7, <2>3, <2>6, <2>8, <3>9, <3>10 DEF Sound
  <2>. QED BY <2>8, <2>9 DEF Good
<1> HIDE DEF d
<1>. QED BY <1>1, <1>4, <1>7, GoodCompleteClosed, GoodQueue, GoodAsync

\* The wait for an event of the server ends at once: nothing comes of it.
LEMMA FreeSound ==
  ASSUME NEW w \in Good, w.ses.open, w.ses.cmd.kind = "Wait"
  PROVE  [Destroy(w, KErrNone) EXCEPT !.ses.state = "Normal"] \in Good
<1> DEFINE v == [Destroy(w, KErrNone) EXCEPT !.ses.state = "Normal"]
<1>1. w \in World /\ KErrNone \in Codes
  BY CodesAreStatuses DEF Good
<1>2. /\ v \in World /\ v.fault = w.fault /\ v.rd = w.rd /\ v.net = w.net
      /\ v.ses.open = w.ses.open /\ v.ses.input = w.ses.input
      /\ v.ses.folder = w.ses.folder /\ v.ses.server = w.ses.server
      /\ v.ses.state = "Normal" /\ v.ses.cmd = NoCmd /\ v.ses.pending = "None"
  BY <1>1, EndsNormally
<1> HIDE DEF v
<1>3. ASSUME v.fault = "None" PROVE Sound(v)
  <2>1. /\ Wired(w.ses.cmd, w.ses.folder, w.ses.input, w.rd.buf, w.net)
        /\ Shaped(w.ses.cmd, w.ses.state, w.ses.pending, w.ses.folder, w.ses.server)
    BY <1>2, <1>3 DEF Good, Sound
  <2>2. Wired(NoCmd, w.ses.folder, w.ses.input, w.rd.buf, w.net)
    BY <1>1, <2>1, FreeEnds, FreeCommand, WorldFields
  <2>3. w.ses.folder # NoFolder => w.ses.server = "Selected"
    BY <2>1 DEF Shaped
  <2>4. Shaped(NoCmd, "Normal", "None", w.ses.folder, w.ses.server)
    BY <2>3, FreeCommand DEF Shaped
  <2>. QED BY <1>2, <2>2, <2>4 DEF Sound
<1>4. v \in Good
  BY <1>2, <1>3 DEF Good
<1>. QED BY <1>4 DEF v

LEMMA GoodFlush ==
  ASSUME NEW w \in Good, NEW who \in Objects
  PROVE  FlushCancelledCommand(w, who) \in Good
<1> DEFINE q == Queue(w, who)
           n == NoOperation(Expect(q, q.ses.state = "Normal", "SessionInvalidSessionState"))
           a == Expect(q, q.ses.cmd.flushing, "SessionCommandNotFlushing")
           f == Expect(a, q.ses.state = "Flushing", "SessionInvalidSessionState")
           d == [Destroy(f, KErrNone) EXCEPT !.ses.state = "Normal"]
<1>1. FlushCancelledCommand(w, who) =
        CASE ~w.ses.open         -> CompleteClosed(w, who)
          [] w.ses.open /\ w.ses.cmd = NoCmd -> Complete(n, KErrNone)
          [] w.ses.open /\ w.ses.cmd.kind = "Wait" -> d
          [] OTHER -> Feed(f)
  BY DEF FlushCancelledCommand
<1>2. w \in World /\ w.ses.open \in BOOLEAN
  BY SessionFields DEF Good
<1>3. q \in Good /\ q \in World
  BY <1>2, GoodQueue, QueueTyped
<1>4. q.ses.open = w.ses.open /\ q.ses.cmd = w.ses.cmd
  <2>1. CASE w.ses.report # "None"
    BY <2>1 DEF Queue
  <2>2. CASE w.ses.report = "None"
    <3>1. q.ses = [w.ses EXCEPT !.report = who]
      BY <1>2, <2>2, QueueEffect
    <3> HIDE DEF q
    <3>. QED BY <1>2, <3>1, WorldFields DEF Sessions
  <2>. QED BY <2>1, <2>2
<1> HIDE DEF q
<1>5. n \in Good
  BY <1>3, GoodExpect, Names, GoodAsserted
<1>6. a \in Good /\ a.ses = q.ses
  BY <1>3, GoodExpect, Names DEF Expect, World
<1> HIDE DEF a
<1>7. f \in Good /\ f.ses = a.ses
  BY <1>6, GoodExpect, Names DEF Expect, World, Good
<1> HIDE DEF n, f
<1>8. w.ses.open /\ w.ses.cmd.kind = "Wait" => d \in Good
  BY <1>4, <1>6, <1>7, FreeSound
<1> HIDE DEF d
<1>9. CompleteClosed(w, who) \in Good /\ Complete(n, KErrNone) \in Good /\ Feed(f) \in Good
  BY <1>5, <1>7, GoodCompleteClosed, GoodComplete, CodesAreStatuses, GoodFeed
<1>. QED BY <1>1, <1>2, <1>8, <1>9

LEMMA GoodTimers ==
  ASSUME NEW w \in Good
  PROVE  FlushTimeout(w) \in Good /\ ReaderTimeout(w) \in Good /\ ReceiveFailed(w) \in Good
<1>1. FlushTimeout(w) \in Good
  <2> DEFINE v == Expect(w, w.ses.cmd.flushing, "SessionCommandNotFlushing")
  <2>1. v \in Good
    BY GoodExpect, Names
  <2>2. FlushTimeout(w) = Complete(DoCancel(v), KErrImapFlushTimeout)
    BY DEF FlushTimeout
  <2> HIDE DEF v
  <2>. QED BY <2>1, <2>2, GoodCancel, GoodComplete, CodesAreStatuses
<1>2. ReaderTimeout(w) \in Good
  BY GoodStreamsClosed, SetTimer DEF ReaderTimeout, Good
<1>3. ReceiveFailed(w) \in Good
  <2> DEFINE v == ReceiveFailed(w)
  <2>1. w \in World /\ v \in World
    BY CallbacksTyped DEF Good
  <2>2. v = [w EXCEPT !.rd.ready = TRUE, !.rd.failed = TRUE]
    BY DEF ReceiveFailed
  <2> HIDE DEF v
  <2>3. v.fault = w.fault /\ v.ses = w.ses /\ v.net = w.net /\ v.rd.buf = w.rd.buf
    BY <2>1, <2>2 DEF World, Readers
  <2>4. Alike(v.ses, w.ses)
    BY <2>3 DEF Alike
  <2>5. v \in Good
    BY <2>1, <2>3, <2>4, GoodAlike
  <2>. QED BY <2>5 DEF v
<1>. QED BY <1>1, <1>2, <1>3

-----------------------------------------------------------------------------
(* The theorems                                                            *)

\* Nothing that the session is asked for or told leaves the good worlds.
LEMMA GoodIsClosed == Closed(Good)
<1>1. Good \subseteq World
  BY DEF Good
<1>2. \A w \in Good, v \in World : Beside(v, w) => v \in Good
  BY GoodBeside
<1>3. \A w \in Good, name \in Assertions : [w EXCEPT !.fault = name] \in Good
  BY GoodFault, ZenonT(60)
<1>4. \A v \in World : ~v.ses.open /\ ~v.net.up /\ v.ses.cmd = NoCmd => v \in Good
  BY GoodClosed
<1>5. Requests(Good)
  BY GoodSelect, GoodFetch, GoodEnterIdle, GoodWaitForServerEvent, GoodWaitForIdleEvent,
     GoodDoneIdle, GoodFlush DEF Requests
<1>6. Callbacks(Good)
  BY GoodCancel, GoodReaderRun, GoodAsyncCallBack, GoodTimers, GoodReceived DEF Callbacks
<1>7. Surroundings(Good)
  BY GoodAnswers, GoodNewMessage, GoodNetworkFails, ZenonT(60) DEF Surroundings
<1>. QED BY <1>1, <1>2, <1>3, <1>4, <1>5, <1>6, <1>7, ZenonT(60) DEF Closed

LEMMA InitGood == ASSUME Init PROVE Now \in Good
<1>1. Now \in World
  BY InitTyped
<1>2. Now.ses = NewSession /\ Now.rd = NewReader /\ Now.net = NewNet
  BY DEF Now, Init
<1>3. Wired(NoCmd, NoFolder, <<>>, <<>>, NewNet)
  <2>1. NewNet.wire = <<>> /\ NewNet.out = <<>> /\ ~NewNet.idling
    BY DEF NewNet
  <2>2. Outgoing(NoCmd, NoFolder, NewNet) /\ Modes(NoCmd, NoFolder, NewNet)
    BY <2>1, FreeCommand DEF Outgoing, Modes
  <2>. QED BY <2>1, <2>2, QuietEmpty, QuietWired
<1>4. Shaped(NoCmd, "Normal", "None", NoFolder, "Authenticated")
  BY FreeCommand DEF Shaped
<1>5. /\ NewSession.open /\ NewSession.cmd = NoCmd /\ NewSession.folder = NoFolder
      /\ NewSession.input = <<>> /\ NewSession.state = "Normal" /\ NewSession.pending = "None"
      /\ NewSession.server = "Authenticated" /\ NewReader.buf = <<>>
  BY DEF NewSession, NewReader
<1>6. Sound(Now)
  BY <1>2, <1>3, <1>4, <1>5 DEF Sound
<1>. QED BY <1>1, <1>6 DEF Good

\* Session, reader, connection and server always agree, whatever the controllers do.
THEOREM WireSound == Spec => [](Now \in Good)
<1>1. Init => Now \in Good
  BY InitGood
<1>2. Now \in Good /\ [Next]_vars => (Now \in Good)'
  <2>1. ASSUME Now \in Good, Next PROVE Now' \in Good
    BY <2>1, GoodIsClosed, NextStays
  <2>2. ASSUME Now \in Good, UNCHANGED vars PROVE Now' \in Good
    BY <2>2, StutterTyped DEF Good
  <2>. QED BY <2>1, <2>2
<1>. QED BY <1>1, <1>2, PTL DEF Spec

LEMMA RangeIsItems ==
  ASSUME NEW s \in Seq(Lines), NEW l \in Range(s)
  PROVE  \E i \in 1 .. Len(s) : l = s[i]
  BY DEF Range

\* Good worlds: what is in flight fits the command in progress.
LEMMA InFlightFits ==
  ASSUME Now \in Good, Alive, ses.open, NEW l \in InFlight
  PROVE  Fits(ses.cmd, ses.folder, net, l)
<1>1. Wired(ses.cmd, ses.folder, ses.input, rd.buf, net)
  BY DEF Good, Sound, Now, Alive
<1>2. ses.input \in Seq(Lines) /\ rd.buf \in Seq(Lines) /\ net.wire \in Seq(Lines)
  BY DEF Good, Now, World, Sessions, Readers, Nets
<1>3. \A s \in Seq(Lines) : AllFit(ses.cmd, ses.folder, net, s) /\ l \in Range(s)
        => Fits(ses.cmd, ses.folder, net, l)
  BY RangeIsItems DEF AllFit
<1>. QED BY <1>1, <1>2, <1>3 DEF Wired, InFlight

\* The answer that a command reads is its own: whatever is cancelled, flushed, timed out or
\* left behind, a tagged or continuation line on its way to the session carries the tag of
\* the command in progress (CImapCommand::ParseLineL, cimapcommand.cpp:238).
THEOREM AnswersBelong == Spec => []AnswersBelongToCommand
<1>1. Now \in Good => AnswersBelongToCommand
  <2> SUFFICES ASSUME Now \in Good, Alive, ses.open, NEW l \in InFlight, l.kind # "exists"
               PROVE  ses.cmd # NoCmd /\ ses.cmd.tag = l.tag
    BY DEF AnswersBelongToCommand
  <2>1. l.tag = ses.cmd.tag /\ l.kind \in Expected(ses.cmd)
    BY InFlightFits DEF Fits
  <2>2. ses.cmd # NoCmd
    BY <2>1, FreeCommand DEF Expected
  <2>. QED BY <2>1, <2>2
<1>. QED BY <1>1, WireSound, PTL

\* Good worlds: the connection is up only for an open session.
LEMMA UpIsWired ==
  ASSUME Now \in Good, Alive, net.up
  PROVE  Wired(ses.cmd, ses.folder, ses.input, rd.buf, net)
  BY DEF Good, Sound, Now, Alive

\* The server reads DONE exactly when it is in IDLE (CImapIdle::SendMessageL and
\* CImapIdle::Done, cimapidle.cpp).
THEOREM NeverConfused == Spec => []ServerNeverConfused
<1>1. Now \in Good => ServerNeverConfused
  <2> SUFFICES ASSUME Now \in Good, Alive, net.up, net.out # <<>>
               PROVE  (Head(net.out).verb = "done") = net.idling
    BY DEF ServerNeverConfused, Confused
  <2>1. Outgoing(ses.cmd, ses.folder, net) /\ Modes(ses.cmd, ses.folder, net)
    BY UpIsWired DEF Wired
  <2>2. Head(net.out).verb = Verb(ses.cmd)
    BY <2>1 DEF Outgoing
  <2>3. net.idling \in BOOLEAN
    BY DEF Good, Now, World, Nets
  <2>4. Verb(ses.cmd) # "none"
    <3>1. net.out \in Seq(Sent)
      BY DEF Good, Now, World, Nets
    <3>2. Head(net.out) \in Sent
      BY <3>1, HeadTailProperties
    <3>3. Head(net.out).verb \in {"select", "fetch", "idle", "done"}
      BY <3>2 DEF Sent
    <3>. QED BY <2>2, <3>3
  <2>5. CASE ses.cmd.kind = "Idle"
    <3>1. ses.cmd.idle = "WaitContinue" \/ ses.cmd.idle = "WaitDone"
      BY <2>4, <2>5 DEF Verb
    <3>2. CASE ses.cmd.idle = "WaitContinue"
      <4>1. ~net.idling
        BY <2>1, <2>5, <3>2 DEF Modes
      <4>2. Verb(ses.cmd) = "idle"
        BY <2>5, <3>2 DEF Verb
      <4>3. Head(net.out).verb # "done"
        BY <2>2, <4>2
      <4>. QED BY <2>3, <4>1, <4>3
    <3>3. CASE ses.cmd.idle = "WaitDone"
      <4>1. net.idling
        <5>1. net.idling = (net.out # <<>>)
          BY <2>1, <2>5, <3>3 DEF Modes
        <5>. QED BY <5>1
      <4>2. Verb(ses.cmd) = "done"
        BY <2>5, <3>3 DEF Verb
      <4>3. Head(net.out).verb = "done"
        BY <2>2, <4>2
      <4>. QED BY <2>3, <4>1, <4>3
    <3>. QED BY <3>1, <3>2, <3>3
  <2>6. CASE ses.cmd.kind # "Idle"
    <3>1. ~net.idling
      BY <2>1, <2>6 DEF Modes
    <3>2. Verb(ses.cmd) # "done"
      BY <2>6 DEF Verb
    <3>3. Head(net.out).verb # "done"
      BY <2>2, <3>2
    <3>. QED BY <2>3, <3>1, <3>3
  <2>. QED BY <2>5, <2>6
<1>. QED BY <1>1, WireSound, PTL

\* The mailbox on the strength of which SelectL sends nothing is the one that the server has
\* selected (CImapSession::SelectL, cimapsession.cpp:462).
THEOREM SelectedAgree == Spec => []SelectedAgrees
<1>1. Now \in Good => SelectedAgrees
  BY UpIsWired DEF SelectedAgrees, Wired, Modes
<1>. QED BY <1>1, WireSound, PTL
=============================================================================
