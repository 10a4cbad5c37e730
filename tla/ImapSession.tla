---------------------------- MODULE ImapSession ----------------------------
(***************************************************************************)
(* CImapSession on one connection: the command in progress, the input it   *)
(* has not consumed, the CSocketReader below it and the server at the far  *)
(* end. The session is a passive object: its callers and its own callbacks *)
(* change it synchronously, so each of its methods is an operator from one *)
(* world to the next. A world w is a record with at least the fields       *)
(*                                                                         *)
(*   ses    the session      rd     the reader     net   the connection    *)
(*   ao     IsActive and iStatus of the active objects that call it        *)
(*   fault  the first debug assertion that failed, or "None"               *)
(*                                                                         *)
(* The module that owns the variables takes one step per RunL. Modelled:   *)
(* the debug build, in which a failed assertion ends the server thread.    *)
(* A line of the server is one element of a sequence; ImapInput has the    *)
(* splitting of octets into lines. CSocketWriter is left out: a command is *)
(* on its way once it is sent.                                             *)
(***************************************************************************)
EXTENDS Integers, Sequences, SequencesExt

CONSTANTS
  Boxes,        \* the mailboxes of the server
  Inbox,        \* the one whose changes the server reports
  NoBox,        \* no mailbox
  TagModulus,   \* bound: tags are counted modulo this number
  MaxExists,    \* bound: messages in the inbox
  Refusals      \* the commands that the server may answer with NO

ASSUME SessionAssumption ==
  /\ Inbox \in Boxes /\ NoBox \notin Boxes
  /\ TagModulus \in Nat \ {0, 1}
  /\ MaxExists \in Nat \ {0}
  /\ Refusals \subseteq {"select", "fetch", "idle"}

\* Completion codes (cimapsessionconsts.h and e32err.h)
KErrNone             == 0
KErrImapNo           == 1
KErrImapBad          == 2
KErrImapClosed       == 3
KErrImapFlushTimeout == 4
KErrImapCorrupt      == 5
KErrCancel           == -3
KErrNoMemory         == -4
KRequestPending      == -2147483647

NoCmd    == [kind |-> "None", tag |-> 0, flushing |-> FALSE, idle |-> "None"]
NoFolder == [box |-> NoBox, exists |-> 0]

\* What the server sends: "exists" is untagged, "cont" is the "+" of the
\* command whose tag it carries here, "ok" and "no" are tagged.
Exists(n)     == [kind |-> "exists", tag |-> 0, n |-> n]
Line(k, tag)  == [kind |-> k, tag |-> tag, n |-> 0]
Lines == [kind : {"exists", "cont", "ok", "no"}, tag : 0 .. TagModulus,
          n : 0 .. MaxExists]

\* The assertions modelled, and the CActive::Cancel that never returns.
Assertions ==
  {"AlreadyInUse", "AsyncCallBackOpInvalid", "BadInputStreamState",
   "CancelHangs", "CompoundIsNotNull", "IdleStateInvalid",
   "InternalCancelOnBadState", "IsActiveAtStart", "NotSelected",
   "OperationPending", "OperationPendingNotIdle", "SessionBadInputStreamState",
   "SessionCommandNotFlushing", "SessionInputBufferNotEmpty",
   "SessionInvalidSessionState", "SessionNotNullCurrentCommand",
   "SessionNullCurrentCommand", "UnAuthenticated", "UnexpectedStateAtStart",
   "UserInvariant"}

\* The assertion ok of the source, called name in TImapServerPanic.
Expect(w, ok, name) ==
  IF ok \/ w.fault # "None" THEN w ELSE [w EXCEPT !.fault = name]

NextTag(t) == (t % TagModulus) + 1

-----------------------------------------------------------------------------
(***************************************************************************)
(* The caller's request                                                    *)
(***************************************************************************)

\* Queue: a second request is dropped without a word.
Queue(w, who) ==
  IF w.ses.report # "None" THEN w
  ELSE [w EXCEPT !.ses.report = who, !.ao[who].status = KRequestPending]

Complete(w, err) ==
  IF w.ses.report = "None" THEN w
  ELSE [w EXCEPT !.ses.report = "None", !.ao[w.ses.report].status = err]

-----------------------------------------------------------------------------
(***************************************************************************)
(* CSocketReader, called by the session                                    *)
(***************************************************************************)

IsReading(w) == w.rd.state \in {"Read", "ReceivedData"}

\* ReadReq: data received before a cancel is delivered before any other. A
\* time limit asked for is kept until a receive is issued.
ReadReq(w, limit) ==
  [Expect(w, w.rd.state = "Idle", "BadInputStreamState") EXCEPT
     !.rd.state = IF w.rd.buf = <<>> THEN "Read" ELSE "ReceivedData",
     !.rd.ready = TRUE,
     !.rd.limit = limit \/ @]

\* CancelReadReq: what CancelRecv finds already received stays in the buffer.
CancelReadReq(w) ==
  [w EXCEPT !.rd.state = "Idle", !.rd.ready = FALSE, !.rd.failed = FALSE,
            !.rd.timer = FALSE]

-----------------------------------------------------------------------------
(***************************************************************************)
(* Asking for input                                                        *)
(***************************************************************************)

ProcessInputBufferAsync(w) ==
  [Expect(w, ~w.ses.async, "AsyncCallBackOpInvalid") EXCEPT
     !.ses.async = TRUE]

\* The read that follows DONE is limited to ten seconds.
RequestReadData(w) ==
  LET done == w.ses.pending = "IdleDone"
      v    == Expect(w, ~w.ses.async, "AsyncCallBackOpInvalid")
      r    == ReadReq([v EXCEPT !.ses.pending = IF done THEN "None" ELSE @],
                      done)
  IN [r EXCEPT !.ses.flushTimer = @ \/ w.ses.state = "Flushing"]

\* Input that no command has consumed goes before anything read from now on.
Feed(w) ==
  IF w.ses.input # <<>> THEN ProcessInputBufferAsync(w) ELSE RequestReadData(w)

-----------------------------------------------------------------------------
(***************************************************************************)
(* Ending a command                                                        *)
(***************************************************************************)

\* CImapCommand::Cancel and CImapIdle::Cancel: an IDLE that the server has
\* accepted is left for DoneIdle.
CommandCancel(cmd) ==
  [cmd EXCEPT !.flushing =
     @ \/ ~(cmd.kind = "Idle" /\ cmd.idle = "WaitResponse")]

\* Bug: the mailbox is still taken for selected.
BugKeepsMailbox(w) == w

\* DoPendingOperationForCancel, ...ForFail: without its answer a SELECT
\* leaves no mailbox selected.
SelectUndone(w) ==
  IF w.ses.pending # "Select" THEN w
  ELSE [w EXCEPT !.ses.server = "Authenticated", !.ses.folder = NoFolder]

\* Bug: the asynchronous callback is not cancelled.
BugKeepsCallBack(w) ==
  LET v == SelectUndone([CancelReadReq(w) EXCEPT
              !.ses.flushTimer = FALSE, !.ses.cmd = CommandCancel(@)])
  IN IF w.ses.state # "Normal" \/ w.ses.cmd = NoCmd THEN v
     ELSE [v EXCEPT !.ses.state = IF v.ses.cmd.flushing THEN "Flushing" ELSE @]

\* DoCancel
DoCancel(w) ==
  LET v == [(IF w.ses.open THEN CancelReadReq(w) ELSE w) EXCEPT
              !.ses.async = FALSE, !.ses.flushTimer = FALSE]
      u == SelectUndone([v EXCEPT !.ses.cmd = CommandCancel(@)])
  IN IF v.ses.state # "Normal" \/ v.ses.cmd = NoCmd THEN v
     ELSE [u EXCEPT !.ses.state = IF u.ses.cmd.flushing THEN "Flushing" ELSE @]

\* Cancel
SessionCancel(w) == Complete(DoCancel(w), KErrCancel)

\* CompleteAndDestroyCommand(err, EFalse): the next tag follows the tag of
\* the command that is destroyed.
Destroy(w, err) ==
  LET v == Complete(w, err)
  IN [v EXCEPT !.ses.tag = IF v.ses.cmd = NoCmd THEN @ ELSE v.ses.cmd.tag,
               !.ses.cmd = NoCmd, !.ses.pending = "None"]

\* SocketClosed and CloseStreams of the reader, InputStreamCloseInd and
\* OutputStreamCloseInd of the session.
StreamsClosed(w) ==
  LET v == [w EXCEPT !.ses.open = FALSE,
                     !.rd = [@ EXCEPT !.state = "Closed", !.ready = FALSE,
                                      !.failed = FALSE, !.timer = FALSE],
                     !.net.up = FALSE, !.net.wire = <<>>, !.net.out = <<>>]
  IN DoCancel(Destroy(v, KErrImapClosed))

\* CompleteAndDestroyCommand(err, ETrue): the caller is told err, and not
\* that the streams were closed. The session is not used again.
CloseWith(w, err) ==
  [StreamsClosed(Complete(w, err)) EXCEPT !.ses.state = "Unrecoverable"]

\* CompleteIfStreamsClosed
CompleteClosed(w, who) == Complete(Queue(w, who), KErrImapClosed)

-----------------------------------------------------------------------------
(***************************************************************************)
(* Parsing                                                                 *)
(***************************************************************************)

\* Bug: the first line of any kind ends the flush.
BugFlushesOneLine(w, line) == [w |-> w, res |-> "Complete"]

\* ParseBlockL on one line: the world after it, and whether the command
\* wants "More", is "Complete" or found the data "Corrupt".
ParseFlushing(w, line) ==
  [w |-> w,
   res |-> CASE line.kind \in {"ok", "no"} -> "Complete"
             [] line.kind = "cont"         -> "Corrupt"
             [] OTHER                      -> "More"]

ParseCont(w) ==
  IF w.ses.cmd.kind = "Idle" /\ w.ses.cmd.idle = "WaitContinue"
  THEN [w |-> [w EXCEPT !.ses.cmd.idle = "WaitResponse"], res |-> "More"]
  ELSE [w |-> w, res |-> "Corrupt"]

ParseUntagged(w, line) ==
  [w |-> IF w.ses.folder = NoFolder THEN w
         ELSE [w EXCEPT !.ses.folder.exists = line.n],
   res |-> IF w.ses.cmd.kind = "Wait" THEN "Complete" ELSE "More"]

ParseTagged(w, line) ==
  [w |-> w,
   res |-> IF w.ses.cmd.kind # "Wait" /\ line.tag = w.ses.cmd.tag
           THEN "Complete" ELSE "Corrupt"]

ParseBlockL(w, line) ==
  IF w.ses.cmd.flushing THEN ParseFlushing(w, line)
  ELSE CASE line.kind = "cont"   -> ParseCont(w)
         [] line.kind = "exists" -> ParseUntagged(w, line)
         [] OTHER                -> ParseTagged(w, line)

\* CommandComplete. A line that completes CImapServerEventWait counts as OK.
CommandComplete(w, line) ==
  IF line.kind = "no"
  THEN [Destroy(SelectUndone(w), KErrImapNo) EXCEPT !.ses.state = "Normal"]
  ELSE LET v == IF w.ses.state = "Normal" /\ w.ses.pending = "Select"
                THEN [w EXCEPT !.ses.server = "Selected"] ELSE w
       IN [Destroy(v, KErrNone) EXCEPT !.ses.state = "Normal"]

\* Bug: only the first line after the continuation answers the caller.
BugAnswersOnce(w) ==
  w.ses.pending = "IdleEnter" /\ w.ses.cmd.idle = "WaitResponse"

\* DoPendingOperationForIntermediateResponse: an IDLE that has been accepted
\* answers its caller at every line, and reads no further.
Intermediate(w) ==
  /\ w.ses.pending \in {"IdleEnter", "IdleWait"}
  /\ w.ses.cmd.idle = "WaitResponse"

\* One round of the loop of ProcessInputBufferL; go is continueReadingData.
Round(acc, line) ==
  LET p == ParseBlockL([acc.w EXCEPT !.ses.input = Tail(@)], line)
  IN IF ~acc.go THEN acc
     ELSE CASE p.res = "Corrupt" ->
                 [w |-> CloseWith(p.w, KErrImapCorrupt), go |-> FALSE]
            [] p.res = "Complete" ->
                 [w |-> CommandComplete(p.w, line), go |-> FALSE]
            [] OTHER ->
                 IF Intermediate(p.w)
                 THEN [w |-> Complete(p.w, KErrNone), go |-> FALSE]
                 ELSE [w |-> p.w, go |-> TRUE]

\* After n rounds. (A recursive function and not FoldLeft: proofs can use it.)
Rounds(w, lines) ==
  LET after[n \in 0 .. Len(lines)] ==
        IF n = 0 THEN [w |-> w, go |-> TRUE] ELSE Round(after[n - 1], lines[n])
  IN after

\* ProcessInputBufferL
ProcessInputBufferL(w) ==
  LET v == Expect(Expect(w, w.ses.cmd # NoCmd, "SessionNullCurrentCommand"),
                   w.ses.state # "Unrecoverable", "SessionInvalidSessionState")
      r == Rounds(v, v.ses.input)[Len(v.ses.input)]
  IN IF v.fault # "None" THEN v
     ELSE IF r.go THEN RequestReadData(r.w) ELSE r.w

\* ReceivedDataIndL
ReceivedDataIndL(w, data) ==
  LET v == Expect(Expect(w, ~w.ses.async, "AsyncCallBackOpInvalid"),
                   w.ses.input = <<>>, "SessionInputBufferNotEmpty")
  IN ProcessInputBufferL([v EXCEPT !.ses.input = data,
                                   !.ses.flushTimer = FALSE])

-----------------------------------------------------------------------------
(***************************************************************************)
(* The requests of the session. who is the active object whose iStatus is  *)
(* passed.                                                                 *)
(***************************************************************************)

\* What SendMessageL and SendDone hand to the output stream.
Send(w, verb, box) ==
  IF ~w.net.up THEN w
  ELSE [w EXCEPT !.net.out =
          Append(@, [verb |-> verb, tag |-> w.ses.cmd.tag, box |-> box])]

NoOperation(w) == Expect(w, w.ses.pending = "None", "OperationPending")
LoggedIn(w)    == Expect(w, w.ses.server # "None", "UnAuthenticated")

\* The assertions of StartCommandL
CanStart(w) ==
  LET a == Expect(w, w.ses.cmd = NoCmd, "SessionNotNullCurrentCommand")
      b == Expect(a, ~IsReading(w), "SessionBadInputStreamState")
  IN Expect(b, w.ses.state = "Normal", "SessionInvalidSessionState")

\* StartCommandL. CImapServerEventWait sends nothing and never learns its
\* tag: GetTagId will return 0.
StartCommandL(w, who, kind, verb, box) ==
  LET v == CanStart(w)
      t == NextTag(v.ses.tag)
      c == [NoCmd EXCEPT !.kind = kind,
                         !.tag  = IF kind = "Wait" THEN 0 ELSE t,
                         !.idle = IF kind = "Idle" THEN "WaitContinue" ELSE @]
      s == [v EXCEPT !.ses.cmd = c, !.ses.tag = t]
  IN Queue(Feed(IF kind = "Wait" THEN s ELSE Send(s, verb, box)), who)

\* Bug: nobody completes the request for a mailbox already selected.
BugSelectsSilently(w, who, box) ==
  LET v == LoggedIn(NoOperation(w))
      s == StartCommandL([v EXCEPT !.ses.pending = "Select"], who,
                         "Select", "select", box)
  IN IF v.ses.folder.box = box THEN Queue(v, who)
     ELSE [s EXCEPT !.ses.folder = [NoFolder EXCEPT !.box = box]]

\* SelectL, aSelectBox being ETrue in every call: a mailbox that is already
\* selected is not selected again.
SelectL(w, who, box) ==
  LET v == LoggedIn(NoOperation(w))
      s == StartCommandL([v EXCEPT !.ses.pending = "Select"], who,
                         "Select", "select", box)
  IN CASE ~v.ses.open -> [CompleteClosed(v, who) EXCEPT !.ses.folder = NoFolder]
       [] v.ses.open /\ v.ses.folder.box = box -> Complete(Queue(v, who), KErrNone)
       [] OTHER -> [s EXCEPT !.ses.folder = [NoFolder EXCEPT !.box = box]]

\* FetchFlagsL, FetchBodyL and the other commands on a selected mailbox
FetchL(w, who) ==
  LET v == NoOperation(Expect(w, w.ses.server = "Selected", "NotSelected"))
  IN IF ~v.ses.open THEN CompleteClosed(v, who)
     ELSE StartCommandL(v, who, "Fetch", "fetch", NoBox)

EnterIdleL(w, who) ==
  LET v == LoggedIn(NoOperation(w))
  IN IF ~v.ses.open THEN CompleteClosed(v, who)
     ELSE [StartCommandL(v, who, "Idle", "idle", NoBox) EXCEPT
             !.ses.pending = "IdleEnter"]

\* The assertions that WaitForIdleEvent and DoneIdle share
InIdleMode(w) ==
  Expect(Expect(LoggedIn(w),
                  w.ses.pending \in {"IdleEnter", "IdleWait"},
                  "OperationPendingNotIdle"),
          w.ses.state = "Normal", "SessionInvalidSessionState")

WaitForIdleEvent(w, who) ==
  LET v == InIdleMode(w)
  IN IF ~v.ses.open THEN CompleteClosed(v, who)
     ELSE ProcessInputBufferAsync(Queue([v EXCEPT !.ses.pending = "IdleWait"],
                                        who))

DoneIdle(w, who) ==
  LET v == Expect(InIdleMode(w), w.ses.cmd # NoCmd,
                   "SessionNullCurrentCommand")
      s == Expect(v, v.ses.cmd.idle = "WaitResponse", "IdleStateInvalid")
      d == Send([s EXCEPT !.ses.pending = "IdleDone",
                          !.ses.cmd.idle = "WaitDone"], "done", NoBox)
  IN IF ~v.ses.open THEN CompleteClosed(v, who)
     ELSE ProcessInputBufferAsync(Queue(d, who))

WaitForServerEventL(w, who) ==
  LET v == LoggedIn(NoOperation(w))
  IN IF ~v.ses.open THEN CompleteClosed(v, who)
     ELSE StartCommandL(v, who, "Wait", "none", NoBox)

\* Bugs: every command is taken for one that CanCompleteFlushNow; with no
\* command to flush nobody is answered.
BugFlushesNothing(w, who) ==
  IF w.ses.cmd = NoCmd THEN Complete(Queue(w, who), KErrNone)
  ELSE [Destroy(Queue(w, who), KErrNone) EXCEPT !.ses.state = "Normal"]

BugFlushWaits(w, who) ==
  IF w.ses.cmd = NoCmd \/ ~w.ses.open THEN Queue(w, who)
  ELSE IF w.ses.cmd.kind = "Wait"
       THEN [Destroy(Queue(w, who), KErrNone) EXCEPT !.ses.state = "Normal"]
       ELSE Feed(Queue(w, who))

\* FlushCancelledCommand
FlushCancelledCommand(w, who) ==
  LET q == Queue(w, who)
      n == NoOperation(Expect(q, q.ses.state = "Normal",
                               "SessionInvalidSessionState"))
      f == Expect(Expect(q, q.ses.cmd.flushing, "SessionCommandNotFlushing"),
                   q.ses.state = "Flushing", "SessionInvalidSessionState")
  IN CASE ~w.ses.open         -> CompleteClosed(w, who)
       [] w.ses.open /\ w.ses.cmd = NoCmd -> Complete(n, KErrNone)
       [] w.ses.open /\ w.ses.cmd.kind = "Wait" ->
            [Destroy(f, KErrNone) EXCEPT !.ses.state = "Normal"]
       [] OTHER -> Feed(f)

-----------------------------------------------------------------------------
(***************************************************************************)
(* The session's own callbacks: the RunLs of the reader and of the         *)
(* asynchronous callback, and the two timers. Each is a guard and a world. *)
(***************************************************************************)

\* Bug: the time limit is kept for the next receive.
BugKeepsLimit(w) ==
  LET v == [w EXCEPT !.rd.timer = FALSE, !.rd.ready = FALSE]
  IN CASE w.rd.failed -> StreamsClosed(v)
       [] ~w.rd.failed /\ w.rd.state = "Read" ->
            [v EXCEPT !.rd.state = "ReceivedData", !.rd.timer = w.rd.limit]
       [] OTHER ->
            ReceivedDataIndL([v EXCEPT !.rd.state = "Idle", !.rd.buf = <<>>],
                             w.rd.buf)

\* CSocketReader::RunL
ReaderRunL(w) ==
  LET v == [w EXCEPT !.rd.timer = FALSE, !.rd.ready = FALSE]
  IN CASE w.rd.failed -> StreamsClosed(v)
       [] ~w.rd.failed /\ w.rd.state = "Read" ->
            [v EXCEPT !.rd.state = "ReceivedData",
                      !.rd.timer = w.rd.limit, !.rd.limit = FALSE]
       [] OTHER ->
            ReceivedDataIndL([v EXCEPT !.rd.state = "Idle", !.rd.buf = <<>>],
                             w.rd.buf)

Receiving(w) == w.rd.state = "ReceivedData" /\ ~w.rd.ready

\* RecvOneOrMore completes with some of what has arrived, or with an error.
Received(w, k) ==
  [w EXCEPT !.rd.buf = SubSeq(w.net.wire, 1, k), !.rd.ready = TRUE,
            !.net.wire = SubSeq(@, k + 1, Len(@))]

ReceiveFailed(w) == [w EXCEPT !.rd.ready = TRUE, !.rd.failed = TRUE]

\* AsyncCallBack
AsyncCallBack(w) == ProcessInputBufferL([w EXCEPT !.ses.async = FALSE])

\* OnTimerL of the session, after ten seconds without a line to flush
FlushTimeout(w) ==
  LET v == Expect(w, w.ses.cmd.flushing, "SessionCommandNotFlushing")
  IN Complete(DoCancel(v), KErrImapFlushTimeout)

\* OnTimerL of the reader
ReaderTimeout(w) == StreamsClosed([w EXCEPT !.rd.timer = FALSE])

-----------------------------------------------------------------------------
(***************************************************************************)
(* The server, as the code relies on it: a command is answered by tagged   *)
(* lines, IDLE by a continuation and, after DONE, by a tagged OK. New mail *)
(* is announced while the inbox is selected.                               *)
(***************************************************************************)

Reply(net, lines) ==
  [net EXCEPT !.out = Tail(@), !.wire = @ \o lines]

ServerSelects(net) ==
  LET c == Head(net.out)
      e == IF c.box = Inbox THEN <<Exists(net.exists)>> ELSE <<>>
  IN [Reply(net, Append(e, Line("ok", c.tag))) EXCEPT !.selected = c.box]

\* Every answer the server may give to the command it reads next.
Answers(net) ==
  LET c  == Head(net.out)
      no == [Reply(net, <<Line("no", c.tag)>>) EXCEPT
               !.selected = IF c.verb = "select" THEN NoBox ELSE @]
      yes == CASE c.verb = "select" -> ServerSelects(net)
               [] c.verb = "fetch"  -> Reply(net, <<Line("ok", c.tag)>>)
               [] c.verb = "idle"   -> [Reply(net, <<Line("cont", c.tag)>>)
                                          EXCEPT !.idling = TRUE]
               [] c.verb = "done"   -> [Reply(net, <<Line("ok", c.tag)>>)
                                          EXCEPT !.idling = FALSE]
  IN {yes} \cup IF c.verb \in Refusals THEN {no} ELSE {}

\* A message arrives in the inbox.
NewMessage(net) ==
  LET n == net.exists + 1
  IN [net EXCEPT !.exists = n,
        !.wire = IF net.selected = Inbox THEN Append(@, Exists(n)) ELSE @]

\* DONE is the only thing a server in IDLE expects.
Confused(net) ==
  /\ net.out # <<>>
  /\ (Head(net.out).verb = "done") # net.idling

-----------------------------------------------------------------------------
\* A connection on which the login has just completed.
NewSession == [server |-> "Authenticated", state |-> "Normal",
               pending |-> "None", cmd |-> NoCmd, tag |-> 0,
               folder |-> NoFolder, input |-> <<>>, async |-> FALSE,
               report |-> "None", open |-> TRUE, flushTimer |-> FALSE]
NewReader  == [state |-> "Idle", ready |-> FALSE, failed |-> FALSE,
               buf |-> <<>>, limit |-> FALSE, timer |-> FALSE]
NewNet     == [up |-> TRUE, wire |-> <<>>, out |-> <<>>, selected |-> NoBox,
               idling |-> FALSE, exists |-> 1]

SessionType(ses) ==
  /\ ses.server \in {"Authenticated", "Selected"}
  /\ ses.state \in {"Normal", "Flushing", "Unrecoverable"}
  /\ ses.pending \in {"None", "Select", "IdleEnter", "IdleWait", "IdleDone"}
  /\ ses.cmd \in [kind : {"None", "Select", "Fetch", "Idle", "Wait"},
                  tag : 0 .. TagModulus, flushing : BOOLEAN,
                  idle : {"None", "WaitContinue", "WaitResponse", "WaitDone"}]
  /\ ses.tag \in 0 .. TagModulus
  /\ ses.folder \in [box : Boxes \cup {NoBox}, exists : 0 .. MaxExists]
  /\ ses.input \in Seq(Lines)
  /\ {ses.async, ses.open, ses.flushTimer} \subseteq BOOLEAN

ReaderType(rd) ==
  /\ rd.state \in {"Idle", "Read", "ReceivedData", "Closed"}
  /\ {rd.ready, rd.failed, rd.limit, rd.timer} \subseteq BOOLEAN
  /\ rd.buf \in Seq(Lines)

NetType(net) ==
  /\ {net.up, net.idling} \subseteq BOOLEAN
  /\ net.wire \in Seq(Lines)
  /\ net.out \in Seq([verb : {"select", "fetch", "idle", "done"},
                      tag : 0 .. TagModulus, box : Boxes \cup {NoBox}])
  /\ net.selected \in Boxes \cup {NoBox}
  /\ net.exists \in 1 .. MaxExists

=============================================================================
