------------------------ MODULE SmsOutboxTypeProofs ------------------------
(***************************************************************************)
(* Proofs about SmsOutboxSend, for any messages, numbers of recipients,    *)
(* errors, client operations and number of requests.                       *)
(*                                                                         *)
(* First part: no wake-up is lost (NoLostWakeup). The invariant, Chain,    *)
(* says of the active objects, as a function a, that they form a chain of  *)
(* waiting parents down to the one object at work. Every action changes    *)
(* the objects in one of a few ways (an object answers its parent, runs    *)
(* itself next, waits for a service, starts the objects below it, or all   *)
(* are deleted); one lemma for each says that it keeps the chain.          *)
(*                                                                         *)
(* Second part: the type invariant, and that the outbox sender deals with  *)
(* one message at a time. Neither is inductive. That a header is stored    *)
(* under its own message needs the entry, the header and the progress in   *)
(* memory to be the current message's (Shape); that the current message is *)
(* still open needs the chain of active objects (WakeInv); and Shape needs *)
(* the types. The three together are the invariant IInv. Before them,      *)
(* lemmas about the operators of SmsScheduledEntry and SmsMessageStore:    *)
(* what they make of an entry, a recipient or a list of recipients is of   *)
(* the right type again, belongs to the same message, and never turns a    *)
(* recipient recorded as sent into one that is not.                        *)
(***************************************************************************)
EXTENDS SmsOutboxSend, TLAPS, SequenceTheorems, FiniteSetTheorems, NaturalsInduction,
        WellFoundedInduction

AoSet == [Objects -> [active : BOOLEAN, status : Int, report : BOOLEAN]]

LogStates == {"GetLogEvent", "AddLogEvent", "ChangeLogEvent"}

Waits(a, o) == a[o].active /\ a[o].status = KRequestPending

Done(a, o) == a[o].active /\ a[o].status # KRequestPending

\* o is at the logger or the socket; s is the state of CSmsOutboxSend and r
\* that of CSmsRecipientSend.
Serves(o, s, r) == \/ o = "Rcpt" /\ r # "Waiting"
                   \/ o = "Outbox" /\ s \in LogStates

Chain(a, s, r) ==
  /\ a \in AoSet
  /\ \A o \in Objects : a[o].active = a[o].report
  /\ \A o \in Objects \ {"Mtm"} : a[o].active => Waits(a, Parent(o))
  /\ \A o \in Objects : Waits(a, o) =>
       Serves(o, s, r) \/ \E c \in Objects \ {"Mtm"} : Parent(c) = o /\ a[c].active
  /\ a["Session"].active => s = "Sending"

\* A progress record has these fields and no others.
Progress(p) == p = [state |-> p.state, error |-> p.error, msgDone |-> p.msgDone,
                    msgCount |-> p.msgCount, rcpDone |-> p.rcpDone,
                    rcpCount |-> p.rcpCount]

WakeInv == Progress(progress) /\ Chain(ao, progress.state, rcptState)

\* An error that completes a request is not the value of a pending one.
Final == Int \ {KRequestPending}

-----------------------------------------------------------------------------
\* An object at rest neither works nor owes a report.
LEMMA IdleFields == /\ IdleObject.active = FALSE /\ IdleObject.report = FALSE
                    /\ IdleObject.status = KErrNone /\ KErrNone # KRequestPending
BY DEF IdleObject, KErrNone, KRequestPending

\* The chain, link by link.
LEMMA ChainLinks ==
  ASSUME NEW a, NEW s, NEW r, Chain(a, s, r)
  PROVE  /\ a["Outbox"].active => Waits(a, "Mtm")
         /\ a["Session"].active => Waits(a, "Outbox")
         /\ a["Send"].active => Waits(a, "Session")
         /\ a["Rcpt"].active => Waits(a, "Send")
         /\ Waits(a, "Mtm") => a["Outbox"].active
         /\ Waits(a, "Outbox") => s \in LogStates \/ a["Session"].active
         /\ a["Session"].active => s = "Sending" /\ s \notin LogStates
         /\ Waits(a, "Session") => a["Send"].active
         /\ Waits(a, "Send") => a["Rcpt"].active
         /\ Waits(a, "Rcpt") => r # "Waiting"
BY DEF Chain, Objects, Parent, Serves, LogStates

\* No error of the code is the status of a request that is still pending.
LEMMA ErrorsFinal ==
  /\ StoreErrors \subseteq Final /\ SendErrors \subseteq Final
  /\ KErrNone \in Final /\ KErrNotFound \in Final /\ KErrUnknownBioType \in Final
  /\ KErrCancel \in Final
BY StoreAssumption DEF Final, KErrNone, KErrNotFound, KErrUnknownBioType,
   KErrNotSupported, KRequestPending, KErrCancel

\* An object that answers is at rest, and its parent runs next.
LEMMA AnswersKeepChain ==
  ASSUME NEW a, NEW s, NEW r, NEW s2, NEW r2, Chain(a, s, r),
         NEW o \in Objects \ {"Mtm"}, Done(a, o), NEW e \in Final,
         s2 = s \/ o \in {"Outbox", "Session"}
  PROVE  Chain(Answers(a, o, e), s2, r2)
<1> DEFINE b == Answers(a, o, e)
<1>1. /\ Parent(o) \in Objects \ {o}
      /\ \A c \in Objects \ {"Mtm"} : Parent(c) \in Objects /\ (Parent(c) = Parent(o) => c = o)
  BY DEF Objects, Parent
<1>2. /\ b \in AoSet
      /\ b[o] = IdleObject
      /\ b[Parent(o)] = [a[Parent(o)] EXCEPT !.status = e]
      /\ \A q \in Objects \ {o, Parent(o)} : b[q] = a[q]
  <2> DEFINE p == Parent(o)
  <2>1. p \in Objects \ {o} /\ o \in Objects
    BY <1>1
  <2>2. b = [[a EXCEPT ![o] = IdleObject] EXCEPT ![p].status = e]
    BY DEF Answers
  <2>3. /\ IdleObject \in [active : BOOLEAN, status : Int, report : BOOLEAN]
        /\ e \in Int /\ a \in AoSet
    BY DEF IdleObject, KErrNone, Final, Chain
  <2> HIDE DEF p, b
  <2>4. /\ b \in AoSet
        /\ b[o] = IdleObject
        /\ b[p] = [a[p] EXCEPT !.status = e]
        /\ \A q \in Objects \ {o, p} : b[q] = a[q]
    BY <2>1, <2>2, <2>3 DEF AoSet
  <2>. QED BY <2>4 DEF p, b
<1>3. \A c \in Objects \ {"Mtm"} : Parent(c) = o => ~a[c].active
  BY DEF Chain, Waits, Done
<1>4. \A q \in Objects : b[q].active = b[q].report
  BY <1>1, <1>2 DEF Chain, AoSet, IdleObject
<1>5. \A c \in Objects \ {"Mtm"} : b[c].active => Waits(b, Parent(c))
  BY <1>1, <1>2, <1>3 DEF Chain, Waits, IdleObject, AoSet
<1>6. ASSUME NEW q \in Objects, Waits(b, q)
      PROVE  \E c \in Objects \ {"Mtm"} : Parent(c) = q /\ b[c].active
  <2>1. q \notin {o, Parent(o)} /\ Waits(a, q)
    BY <1>1, <1>2, <1>6 DEF Waits, IdleObject, Final, Chain, AoSet
  <2>2. \E c \in Objects \ {"Mtm", o} : Parent(c) = q /\ a[c].active
    BY <2>1, ChainLinks DEF Objects, Parent, Done, Waits
  <2>. QED BY <1>1, <1>2, <2>1, <2>2 DEF Chain, AoSet
<1>7. b["Session"].active => s2 = "Sending"
  BY <1>2, ChainLinks DEF Chain, Objects, Parent, Done, Waits, IdleObject, AoSet
<1>. QED BY <1>2, <1>4, <1>5, <1>6, <1>7 DEF Chain

\* The object at work runs itself next, or waits for a service.
LEMMA StepKeepsChain ==
  ASSUME NEW a, NEW s, NEW r, NEW s2, NEW r2, Chain(a, s, r),
         NEW o \in Objects \ {"Mtm"}, Done(a, o), NEW st \in Int,
         st = KRequestPending => Serves(o, s2, r2),
         s2 = s \/ o = "Outbox"
  PROVE  Chain([a EXCEPT ![o] = [active |-> TRUE, status |-> st, report |-> TRUE]], s2, r2)
<1> DEFINE rec == [active |-> TRUE, status |-> st, report |-> TRUE]
           b   == [a EXCEPT ![o] = rec]
<1>1. /\ b \in AoSet /\ b[o] = rec
      /\ \A q \in Objects \ {o} : b[q] = a[q]
  BY DEF Chain, AoSet
<1> HIDE DEF b
<1>2. \A q \in Objects : b[q].active = b[q].report
  <2>1. b[o].active = TRUE /\ b[o].report = TRUE
    BY <1>1
  <2>. QED BY <1>1, <2>1 DEF Chain
<1>3. \A c \in Objects \ {"Mtm"} : Parent(c) = o => ~a[c].active /\ c # o
  BY DEF Chain, Waits, Done, Objects, Parent
<1>4. \A c \in Objects \ {"Mtm"} : b[c].active => Waits(b, Parent(c))
  <2>1. \A c \in Objects \ {"Mtm"} : Parent(c) \in Objects
    BY DEF Objects, Parent
  <2>2. ASSUME NEW c \in Objects \ {"Mtm"}, b[c].active PROVE Waits(b, Parent(c))
    <3>1. a[c].active
      BY <1>1, <2>2 DEF Done
    <3>2. Parent(c) # o /\ Waits(a, Parent(c))
      BY <1>3, <3>1 DEF Chain
    <3>. QED BY <1>1, <2>1, <3>2 DEF Waits
  <2>. QED BY <2>2
<1>5. ASSUME NEW q \in Objects, Waits(b, q)
      PROVE  Serves(q, s2, r2) \/ \E c \in Objects \ {"Mtm"} : Parent(c) = q /\ b[c].active
  <2>1. CASE q = o
    BY <1>1, <1>5, <2>1 DEF Waits
  <2>2. CASE q # o
    <3>1. Waits(a, q)
      BY <1>1, <1>5, <2>2 DEF Waits
    <3>2. \E c \in Objects \ {"Mtm"} : Parent(c) = q /\ a[c].active
      BY <2>2, <3>1, ChainLinks DEF Objects, Parent, Done, Waits
    <3>. QED BY <1>1, <3>2
  <2>. QED BY <2>1, <2>2
<1>6. b["Session"].active => s2 = "Sending"
  BY <1>1, ChainLinks DEF Objects, Done, Waits
<1>. QED BY <1>1, <1>2, <1>4, <1>5, <1>6 DEF Chain, b

\* An object completes its own request (RequestComplete(&iStatus, ...)).
LEMMA RunsNextKeepsChain ==
  ASSUME NEW a, NEW s, NEW r, NEW s2, NEW r2, Chain(a, s, r),
         NEW o \in Objects \ {"Mtm"}, Done(a, o), NEW e \in Final,
         s2 = s \/ o = "Outbox"
  PROVE  Chain(RunsNext(a, o, e), s2, r2)
BY StepKeepsChain DEF RunsNext, Final

\* An object starts the logger or the socket.
LEMMA AwaitsKeepsChain ==
  ASSUME NEW a, NEW s, NEW r, NEW s2, NEW r2, Chain(a, s, r),
         NEW o \in Objects \ {"Mtm"}, Done(a, o), Serves(o, s2, r2),
         s2 = s \/ o = "Outbox"
  PROVE  Chain(Awaits(a, o), s2, r2)
BY StepKeepsChain DEF Awaits, KRequestPending

\* The logger or the socket completes a request.
LEMMA ServiceKeepsChain ==
  ASSUME NEW a, NEW s, NEW r, Chain(a, s, r), NEW o \in {"Rcpt", "Outbox"},
         Waits(a, o), Serves(o, s, r), NEW e \in Final
  PROVE  Chain([a EXCEPT ![o].status = e], s, r)
<1> DEFINE b == [a EXCEPT ![o].status = e]
<1>1. o \in Objects \ {"Mtm"} /\ e \in Int /\ e # KRequestPending
  BY DEF Objects, Final
<1>2. /\ b \in AoSet /\ b[o] = [a[o] EXCEPT !.status = e]
      /\ \A q \in Objects \ {o} : b[q] = a[q]
  BY <1>1 DEF Chain, AoSet
<1>3. /\ b[o].active = a[o].active /\ b[o].report = a[o].report
      /\ b[o].status = e
  BY <1>1, <1>2 DEF Chain, AoSet
<1>4. \A c \in Objects \ {"Mtm"} : Parent(c) = o => ~a[c].active
  BY ChainLinks DEF Objects, Parent, Serves
<1> HIDE DEF b
<1>5. \A q \in Objects : b[q].active = b[q].report
  BY <1>1, <1>2, <1>3 DEF Chain
<1>6. \A c \in Objects \ {"Mtm"} : b[c].active => Waits(b, Parent(c))
  <2>1. \A c \in Objects \ {"Mtm"} : Parent(c) \in Objects
    BY DEF Objects, Parent
  <2>. QED BY <1>2, <1>3, <1>4, <2>1 DEF Chain, Waits
<1>7. ASSUME NEW q \in Objects, Waits(b, q)
      PROVE  Serves(q, s, r) \/ \E c \in Objects \ {"Mtm"} : Parent(c) = q /\ b[c].active
  <2>1. CASE q = o
    BY <2>1
  <2>2. CASE q # o
    <3>1. Waits(a, q)
      BY <1>2, <1>7, <2>2 DEF Waits
    <3>2. Serves(q, s, r) \/ \E c \in Objects \ {"Mtm"} : Parent(c) = q /\ a[c].active
      BY <3>1 DEF Chain
    <3>3. \A c \in Objects : b[c].active = a[c].active
      BY <1>2, <1>3
    <3>. QED BY <3>2, <3>3
  <2>. QED BY <2>1, <2>2
<1>8. b["Session"].active => s = "Sending"
  BY <1>2 DEF Chain, Objects
<1>. QED BY <1>2, <1>5, <1>6, <1>7, <1>8 DEF Chain, b

\* The converse of ChainLinks.
LEMMA LinksMakeChain ==
  ASSUME NEW a \in AoSet, NEW s, NEW r,
         \A o \in Objects : a[o].active = a[o].report,
         a["Outbox"].active => Waits(a, "Mtm"),
         a["Session"].active => Waits(a, "Outbox"),
         a["Send"].active => Waits(a, "Session"),
         a["Rcpt"].active => Waits(a, "Send"),
         Waits(a, "Mtm") => a["Outbox"].active,
         Waits(a, "Outbox") => s \in LogStates \/ a["Session"].active,
         Waits(a, "Session") => a["Send"].active,
         Waits(a, "Send") => a["Rcpt"].active,
         Waits(a, "Rcpt") => r # "Waiting",
         a["Session"].active => s = "Sending"
  PROVE  Chain(a, s, r)
BY DEF Chain, Objects, Parent, Serves

\* One object changes, and the others do not.
LEMMA AwaitsAt ==
  ASSUME NEW a \in AoSet, NEW o \in Objects
  PROVE  /\ Awaits(a, o) \in AoSet
         /\ Awaits(a, o)[o] = [active |-> TRUE, status |-> KRequestPending, report |-> TRUE]
         /\ \A q \in Objects \ {o} : Awaits(a, o)[q] = a[q]
BY DEF Awaits, AoSet, KRequestPending

\* The same of an object that runs itself next.
LEMMA RunsNextAt ==
  ASSUME NEW a \in AoSet, NEW o \in Objects, NEW e \in Final
  PROVE  /\ RunsNext(a, o, e) \in AoSet
         /\ RunsNext(a, o, e)[o] = [active |-> TRUE, status |-> e, report |-> TRUE]
         /\ \A q \in Objects \ {o} : RunsNext(a, o, e)[q] = a[q]
BY DEF RunsNext, AoSet, Final

\* The same of an object that comes to rest.
LEMMA RestsAt ==
  ASSUME NEW a \in AoSet, NEW o \in Objects
  PROVE  /\ [a EXCEPT ![o] = IdleObject] \in AoSet
         /\ [a EXCEPT ![o] = IdleObject][o] = IdleObject
         /\ \A q \in Objects \ {o} : [a EXCEPT ![o] = IdleObject][q] = a[q]
BY DEF IdleObject, AoSet, KErrNone

\* The outbox sender starts the session and CSmsSend.
LEMMA ChainStartsKeepsChain ==
  ASSUME WakeInv, Done(ao, "Outbox"), NEW err \in Final, NEW r2
  PROVE  Chain(ChainStarts(err), "Sending", r2)
<1> DEFINE b == ChainStarts(err)
<1>1. /\ b \in AoSet
      /\ b["Mtm"] = ao["Mtm"] /\ b["Rcpt"] = ao["Rcpt"]
      /\ b["Outbox"] = [active |-> TRUE, status |-> KRequestPending, report |-> TRUE]
      /\ b["Session"] = [active |-> TRUE, status |-> KRequestPending, report |-> TRUE]
      /\ b["Send"] = [active |-> TRUE, status |-> err, report |-> TRUE]
  <2> DEFINE c == Awaits(ao, "Outbox")
             d == Awaits(c, "Session")
  <2>1. ao \in AoSet
    BY DEF WakeInv, Chain
  <2>2. /\ c \in AoSet /\ \A q \in Objects \ {"Outbox"} : c[q] = ao[q]
        /\ c["Outbox"] = [active |-> TRUE, status |-> KRequestPending, report |-> TRUE]
    BY <2>1, AwaitsAt DEF Objects
  <2> HIDE DEF c
  <2>3. /\ d \in AoSet /\ \A q \in Objects \ {"Session"} : d[q] = c[q]
        /\ d["Session"] = [active |-> TRUE, status |-> KRequestPending, report |-> TRUE]
    BY <2>2, AwaitsAt DEF Objects
  <2> HIDE DEF d
  <2>4. b = RunsNext(d, "Send", err)
    BY DEF ChainStarts, c, d
  <2> HIDE DEF b
  <2>5. /\ b \in AoSet /\ \A q \in Objects \ {"Send"} : b[q] = d[q]
        /\ b["Send"] = [active |-> TRUE, status |-> err, report |-> TRUE]
    <3>1. "Send" \in Objects
      BY DEF Objects
    <3>. QED BY <2>3, <2>4, <3>1, RunsNextAt
  <2>. QED BY <2>2, <2>3, <2>5 DEF Objects
<1>2. /\ ~ao["Session"].active
      /\ ~ao["Send"].active /\ ~ao["Rcpt"].active /\ Waits(ao, "Mtm")
      /\ ao["Mtm"].active = ao["Mtm"].report /\ ao["Rcpt"].active = ao["Rcpt"].report
  <2>1. Chain(ao, progress.state, rcptState)
    BY DEF WakeInv
  <2>2. /\ ~ao["Session"].active /\ ~ao["Send"].active /\ ~ao["Rcpt"].active
        /\ Waits(ao, "Mtm")
    BY <2>1, ChainLinks DEF Done, Waits
  <2>. QED BY <2>1, <2>2 DEF Chain, Objects
<1>3. err # KRequestPending
  BY DEF Final
<1> HIDE DEF b
<1>6. \A o \in {"Outbox", "Session", "Send"} : b[o].active = TRUE /\ b[o].report = TRUE
  BY <1>1
<1>4. \A o \in Objects : b[o].active = b[o].report
  BY <1>1, <1>2, <1>6 DEF Objects
<1>5. /\ Waits(b, "Mtm") /\ Waits(b, "Outbox") /\ Waits(b, "Session")
      /\ b["Outbox"].active /\ b["Session"].active /\ b["Send"].active
      /\ ~Waits(b, "Send") /\ ~Waits(b, "Rcpt") /\ ~b["Rcpt"].active
  BY <1>1, <1>2, <1>3 DEF Waits
<1>7. Chain(b, "Sending", r2)
  BY <1>1, <1>4, <1>5, LinksMakeChain
<1>. QED BY <1>7 DEF b

\* CSmsSend starts CSmsRecipientSend, which turns to the logger.
LEMMA SendStartsRcptKeepsChain ==
  ASSUME NEW a, NEW s, NEW r, NEW r2, Chain(a, s, r), Done(a, "Send"), r2 # "Waiting"
  PROVE  Chain(Awaits(Awaits(a, "Send"), "Rcpt"), s, r2)
<1> DEFINE b == Awaits(Awaits(a, "Send"), "Rcpt")
<1>1. /\ b \in AoSet
      /\ \A o \in Objects \ {"Send", "Rcpt"} : b[o] = a[o]
      /\ b["Send"] = [active |-> TRUE, status |-> KRequestPending, report |-> TRUE]
      /\ b["Rcpt"] = [active |-> TRUE, status |-> KRequestPending, report |-> TRUE]
  <2> DEFINE c == Awaits(a, "Send")
  <2>1. /\ c \in AoSet /\ \A q \in Objects \ {"Send"} : c[q] = a[q]
        /\ c["Send"] = [active |-> TRUE, status |-> KRequestPending, report |-> TRUE]
    BY AwaitsAt DEF Objects, Chain
  <2> HIDE DEF c
  <2>2. b = Awaits(c, "Rcpt")
    BY DEF c
  <2> HIDE DEF b
  <2>. QED BY <2>1, <2>2, AwaitsAt DEF Objects
<1> HIDE DEF b
<1>2. \A o \in {"Send", "Rcpt"} : b[o].active = TRUE /\ b[o].report = TRUE
  BY <1>1
<1>3. \A o \in Objects : b[o].active = b[o].report
  BY <1>1, <1>2 DEF Chain, Objects
<1>4. /\ Waits(b, "Mtm") /\ Waits(b, "Outbox") /\ Waits(b, "Session")
      /\ b["Outbox"].active /\ b["Session"].active /\ s = "Sending"
  BY <1>1, ChainLinks DEF Waits, Done, Objects
<1>5. b["Send"].active /\ Waits(b, "Send") /\ b["Rcpt"].active
  BY <1>1 DEF Waits
<1>6. Chain(b, s, r2)
  BY <1>1, <1>3, <1>4, <1>5, LinksMakeChain
<1>. QED BY <1>6 DEF b

\* CompleteCommand deletes the chain.
LEMMA IdleIsChain ==
  ASSUME NEW s, NEW r PROVE Chain([o \in Objects |-> IdleObject], s, r)
<1> DEFINE b == [o \in Objects |-> IdleObject]
<1>1. b \in AoSet /\ \A o \in Objects : b[o] = IdleObject
  BY DEF AoSet, IdleObject, KErrNone
<1> HIDE DEF b
<1>2. \A o \in Objects : ~b[o].active /\ b[o].active = b[o].report /\ ~Waits(b, o)
  BY <1>1, IdleFields DEF Waits
<1>3. Chain(b, s, r)
  BY <1>1, <1>2, LinksMakeChain DEF Objects
<1>. QED BY <1>3 DEF b

\* A request arrives at rest.
LEMMA StartKeepsChain ==
  ASSUME NEW a, NEW s, NEW r, NEW s2, NEW r2, Chain(a, s, r), ~a["Mtm"].report,
         NEW e \in Final
  PROVE  Chain(RunsNext(Awaits(a, "Mtm"), "Outbox", e), s2, r2)
<1> DEFINE b == RunsNext(Awaits(a, "Mtm"), "Outbox", e)
<1>1. /\ b \in AoSet /\ e # KRequestPending
      /\ \A o \in Objects \ {"Mtm", "Outbox"} : b[o] = a[o]
      /\ b["Mtm"] = [active |-> TRUE, status |-> KRequestPending, report |-> TRUE]
      /\ b["Outbox"] = [active |-> TRUE, status |-> e, report |-> TRUE]
  <2> DEFINE c == Awaits(a, "Mtm")
  <2>1. /\ c \in AoSet /\ \A q \in Objects \ {"Mtm"} : c[q] = a[q]
        /\ c["Mtm"] = [active |-> TRUE, status |-> KRequestPending, report |-> TRUE]
    BY AwaitsAt DEF Objects, Chain
  <2> HIDE DEF c
  <2>2. b = RunsNext(c, "Outbox", e) /\ e # KRequestPending
    BY DEF c, Final
  <2> HIDE DEF b
  <2>3. /\ b \in AoSet /\ \A q \in Objects \ {"Outbox"} : b[q] = c[q]
        /\ b["Outbox"] = [active |-> TRUE, status |-> e, report |-> TRUE]
    <3>1. "Outbox" \in Objects
      BY DEF Objects
    <3>. QED BY <2>1, <2>2, <3>1, RunsNextAt
  <2>. QED BY <2>1, <2>2, <2>3 DEF Objects
<1> HIDE DEF b
<1>2. ~a["Session"].active /\ ~a["Send"].active /\ ~a["Rcpt"].active
  <2>1. a["Mtm"].active = a["Mtm"].report
    BY DEF Chain, Objects
  <2>2. ~a["Mtm"].active
    BY <2>1
  <2>. QED BY <2>2, ChainLinks DEF Waits
<1>3. \A o \in {"Mtm", "Outbox"} : b[o].active = TRUE /\ b[o].report = TRUE
  BY <1>1
<1>5. \A o \in Objects : b[o].active = b[o].report
  <2>1. \A o \in {"Session", "Send", "Rcpt"} : b[o].active = b[o].report
    BY <1>1 DEF Chain, Objects
  <2>. QED BY <1>3, <2>1 DEF Objects
<1>6. /\ Waits(b, "Mtm") /\ b["Outbox"].active /\ ~Waits(b, "Outbox")
      /\ \A o \in {"Session", "Send", "Rcpt"} : ~b[o].active /\ ~Waits(b, o)
  BY <1>1, <1>2, <1>3 DEF Waits, Objects
<1>4. Chain(b, s2, r2)
  BY <1>1, <1>5, <1>6, LinksMakeChain
<1>. QED BY <1>4 DEF b

\* The session is cancelled, and the outbox sender runs next.
LEMMA PollKeepsChain ==
  ASSUME NEW a, NEW s, NEW r, NEW s2, NEW r2, Chain(a, s, r), a["Session"].active
  PROVE  Chain([a EXCEPT !["Rcpt"] = IdleObject, !["Send"] = IdleObject,
                         !["Session"] = IdleObject, !["Outbox"].status = KErrNone], s2, r2)
<1> DEFINE b == [a EXCEPT !["Rcpt"] = IdleObject, !["Send"] = IdleObject,
                          !["Session"] = IdleObject, !["Outbox"].status = KErrNone]
<1>1. /\ b \in AoSet
      /\ b["Mtm"] = a["Mtm"]
      /\ b["Outbox"] = [a["Outbox"] EXCEPT !.status = KErrNone]
      /\ \A o \in {"Session", "Send", "Rcpt"} : b[o] = IdleObject
  <2> DEFINE c == [a EXCEPT !["Rcpt"] = IdleObject]
             d == [c EXCEPT !["Send"] = IdleObject]
             f == [d EXCEPT !["Session"] = IdleObject]
  <2>1. /\ c \in AoSet /\ \A q \in Objects \ {"Rcpt"} : c[q] = a[q]
        /\ c["Rcpt"] = IdleObject
    BY RestsAt DEF Objects, Chain
  <2> HIDE DEF c
  <2>2. /\ d \in AoSet /\ \A q \in Objects \ {"Send"} : d[q] = c[q]
        /\ d["Send"] = IdleObject
    BY <2>1, RestsAt DEF Objects
  <2> HIDE DEF d
  <2>3. /\ f \in AoSet /\ \A q \in Objects \ {"Session"} : f[q] = d[q]
        /\ f["Session"] = IdleObject
    BY <2>2, RestsAt DEF Objects
  <2> HIDE DEF f
  <2>4. b = [f EXCEPT !["Outbox"].status = KErrNone]
    BY DEF c, d, f
  <2> HIDE DEF b
  <2>5. f["Outbox"] = a["Outbox"] /\ f["Mtm"] = a["Mtm"]
    BY <2>1, <2>2, <2>3 DEF Objects
  <2>6. b \in AoSet /\ b["Outbox"] = [f["Outbox"] EXCEPT !.status = KErrNone]
    BY <2>3, <2>4 DEF AoSet, Objects, KErrNone
  <2>. QED BY <2>1, <2>2, <2>3, <2>4, <2>5, <2>6 DEF Objects, AoSet
<1> HIDE DEF b
<1>2. /\ b["Outbox"].active = a["Outbox"].active /\ b["Outbox"].status = KErrNone
      /\ b["Outbox"].report = a["Outbox"].report
  BY <1>1 DEF Chain, AoSet, Objects
<1>3. a["Outbox"].active /\ Waits(a, "Mtm")
  BY ChainLinks DEF Waits
<1>5. \A o \in Objects : b[o].active = b[o].report
  <2>1. \A o \in {"Session", "Send", "Rcpt"} : b[o].active = b[o].report
    BY <1>1, IdleFields
  <2>2. a["Outbox"].active = a["Outbox"].report /\ a["Mtm"].active = a["Mtm"].report
    BY DEF Chain, Objects
  <2>. QED BY <1>1, <1>2, <2>1, <2>2 DEF Objects
<1>6. /\ Waits(b, "Mtm") /\ b["Outbox"].active /\ ~Waits(b, "Outbox")
      /\ \A o \in {"Session", "Send", "Rcpt"} : ~b[o].active /\ ~Waits(b, o)
  BY <1>1, <1>2, <1>3, IdleFields DEF Waits
<1>4. Chain(b, s2, r2)
  BY <1>1, <1>5, <1>6, LinksMakeChain
<1>. QED BY <1>4 DEF b

-----------------------------------------------------------------------------
\* Changing one field of a progress record.
LEMMA ProgressFields ==
  ASSUME NEW p, Progress(p), NEW v
  PROVE  /\ Progress([p EXCEPT !.state = v]) /\ [p EXCEPT !.state = v].state = v
         /\ Progress([p EXCEPT !.error = v]) /\ [p EXCEPT !.error = v].state = p.state
         /\ Progress([p EXCEPT !.msgDone = v]) /\ [p EXCEPT !.msgDone = v].state = p.state
         /\ Progress([p EXCEPT !.rcpDone = v]) /\ [p EXCEPT !.rcpDone = v].state = p.state
         /\ Progress([p EXCEPT !.rcpCount = v]) /\ [p EXCEPT !.rcpCount = v].state = p.state
BY DEF Progress

\* With no request, nothing is active.
LEMMA InitWakeInv == Init => WakeInv
<1> SUFFICES ASSUME Init PROVE WakeInv
  OBVIOUS
<1>1. Progress(progress)
  BY DEF Init, NewProgress, Progress
<1>2. Chain(ao, progress.state, rcptState)
  BY IdleIsChain DEF Init
<1>. QED BY <1>1, <1>2 DEF WakeInv

\* CSmsOutboxSend::Start queues the outbox sender and completes its request.
LEMMA StartsKeepsWakeInv ==
  ASSUME WakeInv, NEW err \in Final, Starts(err), Progress(progress')
  PROVE  WakeInv'
<1>1. Chain(ao', progress'.state, rcptState')
  BY StartKeepsChain DEF Starts, WakeInv
<1>. QED BY <1>1 DEF WakeInv

\* Whatever FindOtherMessagesL does, a request starts the chain.
LEMMA RequestKeepsWakeInv == WakeInv /\ Request => WakeInv'
<1> SUFFICES ASSUME WakeInv, NEW sel \in SUBSET Msgs,
                    \/ StartSend(sel)
                    \/ StartFindsNothing(sel)
                    \/ StartReSchedules(sel, KErrNone, Accepted(sel \cup Found(sel)))
                    \/ \E e \in StoreErrors :
                         \/ \E done \in SUBSET Accepted(sel \cup Found(sel)) :
                              StartReSchedules(sel, e, done)
                         \/ \E found \in SUBSET Found(sel) : \E done \in SUBSET (sel \cup found) :
                              StartFails(sel, e, found, done)
             PROVE  WakeInv'
  BY DEF Request
<1>1. CASE StartSend(sel)
  BY <1>1, ErrorsFinal, StartsKeepsWakeInv DEF StartSend, NewProgress, Progress
<1>2. CASE StartFindsNothing(sel)
  <2>1. DivideError(sel \cup Found(sel)) \in Final
    BY ErrorsFinal DEF DivideError
  <2>. QED BY <1>2, <2>1, StartsKeepsWakeInv DEF StartFindsNothing, NewProgress, Progress
<1>3. ASSUME NEW e \in StoreErrors \cup {KErrNone}, NEW done, StartReSchedules(sel, e, done)
      PROVE  WakeInv'
  BY <1>3, ErrorsFinal, StartsKeepsWakeInv DEF StartReSchedules, NewProgress, Progress
<1>4. ASSUME NEW e \in StoreErrors, NEW found, NEW done, StartFails(sel, e, found, done)
      PROVE  WakeInv'
  BY <1>4, ErrorsFinal, StartsKeepsWakeInv DEF StartFails, NewProgress, Progress
<1>. QED BY <1>1, <1>2, <1>3, <1>4

-----------------------------------------------------------------------------
(* The outbox sender                                                       *)

\* SendNextHeaderL starts the session and CSmsSend, or completes itself.
LEMMA SendNextHeaderKeepsWakeInv ==
  ASSUME WakeInv, Done(ao, "Outbox"), SendNextHeaderL
  PROVE  WakeInv'
<1> DEFINE sendable == {i \in 0 .. Len(queue) - 1 : /\ Exists(queue[i + 1])
                                                    /\ CanSendMessage(index[queue[i + 1]])}
           skipped == FirstFrom(0, Len(queue), sendable)
           p == [progress EXCEPT !.msgDone = @ + skipped + 1]
           m == queue[skipped + 1]
           q == [p EXCEPT !.state = "Sending"]
<1> HIDE DEF skipped
<1>1. Progress(p) /\ Progress(q) /\ q.state = "Sending"
  <2>1. Progress(p)
    BY ProgressFields DEF WakeInv
  <2> HIDE DEF p
  <2>. QED BY <2>1, ProgressFields
<1>2. rcptState' = rcptState
  BY DEF SendNextHeaderL
<1>3. CASE progress' = [p EXCEPT !.state = "Complete"] /\ ao' = RunsNext(ao, "Outbox", KErrNone)
  BY <1>1, <1>3, ErrorsFinal, RunsNextKeepsChain DEF WakeInv, Progress, Objects
<1>4. CASE OpensEntry(m, q) \/ OpenFindsNoRecipient(m, q) \/ OpenCannotChange(m, q)
             \/ OpenCannotRead(m, q)
  <2>1. Progress(progress') /\ progress'.state = "Sending"
    BY <1>1, <1>4 DEF OpensEntry, OpenFindsNoRecipient, OpenCannotChange, OpenCannotRead, Progress
  <2>2. \E err \in Final : ao' = ChainStarts(err)
    BY <1>4, ErrorsFinal DEF OpensEntry, OpenFindsNoRecipient, OpenCannotChange, OpenCannotRead
  <2>. QED BY <1>2, <2>1, <2>2, ChainStartsKeepsChain DEF WakeInv
<1>. QED BY <1>3, <1>4 DEF SendNextHeaderL, skipped

\* CSmsOutboxSend answers CSmsServerMtm.
LEMMA OutboxAnswersKeepsWakeInv ==
  ASSUME WakeInv, Done(ao, "Outbox"), NEW ix, NEW e \in Final, OutboxAnswers(ix, e),
         rcptState' = rcptState
  PROVE  WakeInv'
<1>1. Progress(progress')
  BY DEF OutboxAnswers, WakeInv, Progress
<1>2. ao' = Answers(ao, "Outbox", e)
  BY DEF OutboxAnswers
<1>. QED BY <1>1, <1>2, AnswersKeepChain DEF WakeInv, Objects

\* LogEntry waits for the logger, or completes its own request.
LEMMA LogEntryKeepsWakeInv ==
  ASSUME WakeInv, Done(ao, "Outbox"), NEW p, Progress(p), NEW rs, NEW from,
         LogEntry(p, rs, from), rcptState' = rcptState
  PROVE  WakeInv'
<1>1. Progress(progress')
  BY DEF LogEntry, Progress
<1>2. CASE ao' = RunsNext(ao, "Outbox", KErrNone)
  BY <1>1, <1>2, ErrorsFinal, RunsNextKeepsChain DEF WakeInv, Objects
<1>3. CASE ao' = Awaits(ao, "Outbox") /\ progress'.state \in {"GetLogEvent", "AddLogEvent"}
  BY <1>1, <1>3, AwaitsKeepsChain DEF WakeInv, Objects, Serves, LogStates
<1>. QED BY <1>2, <1>3 DEF LogEntry, Progress

\* Every RunL of CSmsOutboxSend keeps the chain.
LEMMA OutboxRunLKeepsWakeInv == WakeInv /\ OutboxRunL => WakeInv'
<1> SUFFICES ASSUME WakeInv, OutboxRunL PROVE WakeInv'
  OBVIOUS
<1> USE ErrorsFinal
<1>0. Done(ao, "Outbox") /\ ao["Outbox"].status \in Final
  BY DEF OutboxRunL, OutboxFails, OutboxSendsNext, OutboxCompletes, OutboxMessageDeleted,
         OutboxSendingDone, OutboxReSchedules, OutboxReScheduled, OutboxGotLogEvent,
         OutboxWroteLogEvent, OutboxMovesSent, OutboxKeepsUnsent, OutboxRuns, Runnable,
         Done, WakeInv, Chain, AoSet, Objects, Final
<1>1. CASE OutboxFails
  BY <1>0, <1>1, OutboxAnswersKeepsWakeInv DEF OutboxFails
<1>2. CASE OutboxSendsNext
  BY <1>0, <1>2, SendNextHeaderKeepsWakeInv DEF OutboxSendsNext
<1>3. CASE OutboxCompletes
  BY <1>0, <1>3, OutboxAnswersKeepsWakeInv DEF OutboxCompletes
<1>4. CASE OutboxMessageDeleted
  BY <1>0, <1>4, SendNextHeaderKeepsWakeInv DEF OutboxMessageDeleted
<1>5. ASSUME ao' = RunsNext(ao, "Outbox", KErrNone), rcptState' = rcptState,
             NEW st, progress' = [progress EXCEPT !.state = st]
      PROVE  WakeInv'
  <2>1. Progress(progress')
    BY <1>5 DEF WakeInv, Progress
  <2>. QED BY <1>0, <1>5, <2>1, RunsNextKeepsChain DEF WakeInv, Objects
<1>6. CASE OutboxSendingDone
  BY <1>5, <1>6 DEF OutboxSendingDone
<1>7. CASE OutboxReSchedules
  <2>1. \/ /\ progress' = [progress EXCEPT !.state = "ReScheduling"]
           /\ ao' = RunsNext(ao, "Outbox", KErrNone)
        \/ \E e \in StoreErrors : \E ix : OutboxAnswers(ix, e)
    BY <1>7 DEF OutboxReSchedules
  <2>2. rcptState' = rcptState
    BY <1>7 DEF OutboxReSchedules
  <2>. QED BY <1>0, <1>5, <2>1, <2>2, OutboxAnswersKeepsWakeInv
<1>8. CASE OutboxReScheduled
  <2>1. \A n : Progress([progress EXCEPT !.rcpCount = n])
    BY DEF WakeInv, Progress
  <2>. QED BY <1>0, <1>8, <2>1, LogEntryKeepsWakeInv DEF OutboxReScheduled
<1>9. CASE OutboxGotLogEvent
  <2>1. Progress(progress) /\ rcptState' = rcptState
    BY <1>9 DEF OutboxGotLogEvent, WakeInv
  <2>2. CASE logRes = KErrNone \/ -logRes = KErrNotFound
    <3>1. /\ Progress(progress') /\ progress'.state \in LogStates
          /\ ao' = Awaits(ao, "Outbox")
      BY <1>9, <2>1, <2>2 DEF OutboxGotLogEvent, Progress, LogStates
    <3>. QED BY <1>0, <2>1, <3>1, AwaitsKeepsChain DEF WakeInv, Objects, Serves
  <2>3. CASE ~(logRes = KErrNone \/ -logRes = KErrNotFound)
    BY <1>0, <1>9, <2>1, <2>3, LogEntryKeepsWakeInv DEF OutboxGotLogEvent
  <2>. QED BY <2>2, <2>3
<1>10. CASE OutboxWroteLogEvent
  BY <1>0, <1>10, LogEntryKeepsWakeInv DEF OutboxWroteLogEvent, WakeInv
<1>11. CASE OutboxMovesSent
  <2>1. \/ /\ progress' = [progress EXCEPT !.state = "MovingEntry"]
           /\ ao' = RunsNext(ao, "Outbox", KErrNone)
        \/ \E e \in StoreErrors : \E ix : OutboxAnswers(ix, e)
    BY <1>11 DEF OutboxMovesSent
  <2>2. rcptState' = rcptState
    BY <1>11 DEF OutboxMovesSent
  <2>. QED BY <1>0, <1>5, <2>1, <2>2, OutboxAnswersKeepsWakeInv
<1>12. CASE OutboxKeepsUnsent
  <2>1. \/ /\ progress' = [progress EXCEPT !.state = "MovingEntry"]
           /\ ao' = RunsNext(ao, "Outbox", KErrNone)
        \/ \E e \in StoreErrors : \E ix : OutboxAnswers(ix, e)
    BY <1>12 DEF OutboxKeepsUnsent
  <2>2. rcptState' = rcptState
    BY <1>12 DEF OutboxKeepsUnsent
  <2>. QED BY <1>0, <1>5, <2>1, <2>2, OutboxAnswersKeepsWakeInv
<1>. QED BY <1>1, <1>2, <1>3, <1>4, <1>6, <1>7, <1>8, <1>9, <1>10, <1>11, <1>12 DEF OutboxRunL

-----------------------------------------------------------------------------
(* CSmsSendSession and CSmsSend                                            *)

\* The session passes the answer of CSmsSend on to CSmsOutboxSend.
LEMMA SessionRunsKeepsWakeInv == WakeInv /\ SessionRuns => WakeInv'
<1> SUFFICES ASSUME WakeInv, SessionRuns PROVE WakeInv'
  OBVIOUS
<1>1. Progress(progress') /\ Done(ao, "Session")
  BY ProgressFields DEF SessionRuns, WakeInv, Runnable, Done
<1>2. ao' = Answers(ao, "Session", KErrNone) /\ rcptState' = rcptState
  BY DEF SessionRuns
<1>. QED BY <1>1, <1>2, ErrorsFinal, AnswersKeepChain DEF WakeInv, Objects

\* The fields of a snapshot.
LEMMA SnapshotFields ==
  ASSUME NEW ix, NEW en, NEW p, NEW sn, NEW c
  PROVE  /\ Snapshot(ix, en, p, sn, c).index = ix
         /\ Snapshot(ix, en, p, sn, c).entry = en
         /\ Snapshot(ix, en, p, sn, c).progress = p
         /\ Snapshot(ix, en, p, sn, c).send = sn
         /\ Snapshot(ix, en, p, sn, c).ctx = c
BY DEF Snapshot

\* CSmsSend's DoComplete leaves the state of the outbox sender alone.
LEMMA SendCompletedProgress ==
  ASSUME NEW s, NEW e, NEW st, Progress(s.progress)
  PROVE  /\ Progress(SendCompleted(s, e, st).progress)
         /\ SendCompleted(s, e, st).progress.state = s.progress.state
<1> DEFINE q == [s.progress EXCEPT !.error = e]
<1>1. Progress(q) /\ q.state = s.progress.state
  BY ProgressFields
<1>2. \E ix, en, sn, c : SendCompleted(s, e, st) = Snapshot(ix, en, q, sn, c)
  BY DEF SendCompleted
<1> HIDE DEF q
<1>3. SendCompleted(s, e, st).progress = q
  BY <1>2, SnapshotFields
<1>. QED BY <1>1, <1>3

\* CSmsSend answers the session, and leaves the rest alone.
LEMMA SendAnswersKeepsWakeInv ==
  ASSUME WakeInv, Done(ao, "Send"), ao' = Answers(ao, "Send", KErrNone),
         rcptState' = rcptState, Progress(progress'), progress'.state = progress.state
  PROVE  WakeInv'
BY ErrorsFinal, AnswersKeepChain DEF WakeInv, Objects

\* Every RunL of CSmsSend keeps the chain.
LEMMA SendRunLKeepsWakeInv == WakeInv /\ SendRunL => WakeInv'
<1> SUFFICES ASSUME WakeInv, SendRunL PROVE WakeInv'
  OBVIOUS
<1>0. Done(ao, "Send") /\ Progress(progress)
  BY DEF SendRunL, SendFails, SendNextRecipient, SendAllTried, SendFindsDeleted,
         SendRecipientDone, SendRuns, Runnable, Done, WakeInv
<1>1. CASE SendFails
  <2>1. Progress(progress') /\ progress'.state = progress.state
    BY <1>0, <1>1, SendCompletedProgress, SnapshotFields DEF SendFails, Becomes
  <2>. QED BY <1>0, <1>1, <2>1, SendAnswersKeepsWakeInv DEF SendFails
<1>2. CASE SendNextRecipient
  <2>1. /\ Progress(progress') /\ progress'.state = progress.state
        /\ rcptState' # "Waiting" /\ ao' = Awaits(Awaits(ao, "Send"), "Rcpt")
    BY <1>0, <1>2, ProgressFields DEF SendNextRecipient
  <2>. QED BY <1>0, <2>1, SendStartsRcptKeepsChain DEF WakeInv
<1>3. CASE SendAllTried
  <2>1. CASE progress' = [progress EXCEPT !.rcpDone = progress.rcpCount,
                            !.error = IF @ = KErrNone THEN send.failedStatus ELSE @]
    <3>1. Progress(progress') /\ progress'.state = progress.state
      BY <1>0, <2>1 DEF Progress
    <3>. QED BY <1>0, <1>3, <3>1, SendAnswersKeepsWakeInv DEF SendAllTried
  <2>2. ASSUME NEW e, NEW st, NEW sn,
               Becomes(SendCompleted(
                   Snapshot(index, entry, [progress EXCEPT !.rcpDone = progress.rcpCount],
                            sn, ctx), e, st))
        PROVE  WakeInv'
    <3> DEFINE p == [progress EXCEPT !.rcpDone = progress.rcpCount]
               snap == Snapshot(index, entry, p, sn, ctx)
    <3>0. Progress(p) /\ p.state = progress.state
      BY <1>0, ProgressFields
    <3>2. snap.progress = p
      BY DEF Snapshot
    <3> HIDE DEF p, snap
    <3>1. Progress(progress') /\ progress'.state = progress.state
      <4>1. progress' = SendCompleted(snap, e, st).progress
        BY <2>2, Zenon DEF Becomes, snap, p
      <4>. QED BY <3>0, <3>2, <4>1, SendCompletedProgress
    <3>. QED BY <1>0, <1>3, <3>1, SendAnswersKeepsWakeInv DEF SendAllTried
  <2>. QED BY <1>3, <2>1, <2>2 DEF SendAllTried
<1>4. CASE SendFindsDeleted
  <2> DEFINE p == [progress EXCEPT !.rcpDone = @ + 1]
             snap == Snapshot(index, entry, p, send, ctx)
  <2>0. Progress(p) /\ p.state = progress.state
    BY <1>0, ProgressFields
  <2>3. snap.progress = p
    BY DEF Snapshot
  <2>2. progress' = SendCompleted(snap, KErrNotFound, TRUE).progress
    BY <1>4, Zenon DEF SendFindsDeleted, Becomes
  <2> HIDE DEF p, snap
  <2>1. Progress(progress') /\ progress'.state = progress.state
    BY <2>0, <2>2, <2>3, SendCompletedProgress
  <2>. QED BY <1>0, <1>4, <2>1, SendAnswersKeepsWakeInv DEF SendFindsDeleted
<1>5. CASE SendRecipientDone
  <2>1. PICK i, en, sn :
          LET snap == Snapshot(index, en, [progress EXCEPT !.rcpDone = i], sn, entry.id)
          IN  \/ Becomes(snap) /\ ao' = RunsNext(ao, "Send", KErrNone)
              \/ /\ \E x \in StoreErrors, st \in Stores :
                      Becomes(SendCompleted(snap, x, st))
                 /\ ao' = Answers(ao, "Send", KErrNone)
    BY <1>5, Zenon DEF SendRecipientDone
  <2> DEFINE p == [progress EXCEPT !.rcpDone = i]
             snap == Snapshot(index, en, p, sn, entry.id)
  <2>2. Progress(p) /\ p.state = progress.state
    BY <1>0, ProgressFields
  <2>6. snap.progress = p
    BY DEF Snapshot
  <2>3. rcptState' = rcptState
    BY <1>5 DEF SendRecipientDone
  <2>4. CASE Becomes(snap) /\ ao' = RunsNext(ao, "Send", KErrNone)
    <3>1. progress' = p
      BY <2>4, <2>6 DEF Becomes
    <3> HIDE DEF p, snap
    <3>. QED BY <1>0, <2>2, <2>3, <2>4, <3>1, ErrorsFinal, RunsNextKeepsChain DEF WakeInv, Objects
  <2>5. ASSUME NEW x, NEW st, Becomes(SendCompleted(snap, x, st)),
               ao' = Answers(ao, "Send", KErrNone)
        PROVE  WakeInv'
    <3> HIDE DEF p, snap
    <3>1. Progress(progress') /\ progress'.state = progress.state
      BY <2>2, <2>5, <2>6, SendCompletedProgress DEF Becomes
    <3>. QED BY <1>0, <2>3, <2>5, <3>1, SendAnswersKeepsWakeInv
  <2>. QED BY <2>1, <2>4, <2>5
<1>. QED BY <1>1, <1>2, <1>3, <1>4, <1>5 DEF SendRunL

-----------------------------------------------------------------------------
(* CSmsRecipientSend and the services                                      *)

\* CSmsRecipientSend answers CSmsSend.
LEMMA RcptAnswersKeepsWakeInv ==
  ASSUME WakeInv, Done(ao, "Rcpt"), NEW e, RcptAnswers(e)
  PROVE  WakeInv'
<1>1. Progress(progress') /\ progress'.state = progress.state
  BY ProgressFields DEF RcptAnswers, WakeInv
<1>2. ao' = Answers(ao, "Rcpt", KErrNone)
  BY DEF RcptAnswers
<1>. QED BY <1>1, <1>2, ErrorsFinal, AnswersKeepChain DEF WakeInv, Objects

\* CSmsRecipientSend turns to the logger or the socket.
LEMMA RcptAwaitsKeepsWakeInv ==
  ASSUME WakeInv, Done(ao, "Rcpt"), ao' = Awaits(ao, "Rcpt"), rcptState' # "Waiting",
         progress' = progress
  PROVE  WakeInv'
BY AwaitsKeepsChain DEF WakeInv, Objects, Serves

\* SendMessageL either answers CSmsSend or waits for the socket.
LEMMA SendMessageKeepsWakeInv ==
  ASSUME WakeInv, Done(ao, "Rcpt"), SendMessageL
  PROVE  WakeInv'
<1>1. \/ \E e : RcptAnswers(e)
      \/ rcptState' = "SendingMessage" /\ ao' = Awaits(ao, "Rcpt") /\ progress' = progress
  BY DEF SendMessageL
<1>. QED BY <1>1, RcptAnswersKeepsWakeInv, RcptAwaitsKeepsWakeInv

\* Every RunL of CSmsRecipientSend keeps the chain.
LEMMA RcptRunLKeepsWakeInv == WakeInv /\ RcptRunL => WakeInv'
<1> SUFFICES ASSUME WakeInv, RcptRunL PROVE WakeInv'
  OBVIOUS
<1>0. Done(ao, "Rcpt")
  BY DEF RcptRunL, RcptFails, RcptGotLogEvent, RcptWroteLogEvent, RcptSent, RcptRuns,
         Runnable, Done
<1>1. CASE RcptFails
  BY <1>0, <1>1, RcptAnswersKeepsWakeInv DEF RcptFails
<1>2. CASE RcptGotLogEvent
  BY <1>0, <1>2, RcptAwaitsKeepsWakeInv, SendMessageKeepsWakeInv DEF RcptGotLogEvent
<1>3. CASE RcptWroteLogEvent
  BY <1>0, <1>3, SendMessageKeepsWakeInv DEF RcptWroteLogEvent
<1>4. CASE RcptSent
  BY <1>0, <1>4, RcptAnswersKeepsWakeInv DEF RcptSent
<1>. QED BY <1>1, <1>2, <1>3, <1>4 DEF RcptRunL

\* The logger and the socket complete only who waits for them.
LEMMA ServicesKeepWakeInv == WakeInv /\ Services => WakeInv'
<1> SUFFICES ASSUME WakeInv, Services PROVE WakeInv'
  OBVIOUS
<1> USE ErrorsFinal
<1>1. ASSUME NEW o \in {"Rcpt", "Outbox"}, LoggerCompletes(o) PROVE WakeInv'
  <2>1. /\ Waits(ao, o) /\ Serves(o, progress.state, rcptState)
        /\ ao' = [ao EXCEPT ![o].status = KErrNone]
        /\ UNCHANGED <<progress, rcptState>>
    BY <1>1 DEF LoggerCompletes, Pending, Waits, Serves, LogStates
  <2>. QED BY <2>1, ServiceKeepsChain DEF WakeInv
<1>2. CASE SocketCompletes
  <2>1. PICK e \in Final : ao' = [ao EXCEPT !["Rcpt"].status = e]
    BY <1>2 DEF SocketCompletes
  <2>2. /\ Waits(ao, "Rcpt") /\ Serves("Rcpt", progress.state, rcptState)
        /\ UNCHANGED <<progress, rcptState>>
    BY <1>2 DEF SocketCompletes, Pending, Waits, Serves
  <2>. QED BY <2>1, <2>2, ServiceKeepsChain DEF WakeInv
<1>. QED BY <1>1, <1>2 DEF Services

-----------------------------------------------------------------------------
(* CSmsServerMtm and the client                                            *)

\* CompleteCommand leaves everything at rest.
LEMMA CompletesCommandKeepsWakeInv == CompletesCommand => WakeInv'
<1> SUFFICES ASSUME CompletesCommand PROVE WakeInv'
  OBVIOUS
<1>1. Progress(progress')
  BY DEF CompletesCommand, NewProgress, Progress
<1>. QED BY <1>1, IdleIsChain DEF CompletesCommand, WakeInv

\* A poll that cancels the session wakes the outbox sender.
LEMMA ProgressPollKeepsWakeInv == WakeInv /\ ProgressPoll => WakeInv'
<1> SUFFICES ASSUME WakeInv, ProgressPoll PROVE WakeInv'
  OBVIOUS
<1>0. Progress(progress) /\ ao["Session"].active
  BY DEF WakeInv, ProgressPoll
<1>1. Progress(progress')
  <2>1. PICK st \in Stores : progress' = SessionCancelled(st).progress
    BY DEF ProgressPoll, Becomes
  <2> DEFINE p1 == IF ao["Rcpt"].active THEN [progress EXCEPT !.error = KErrCancel]
                                        ELSE progress
             s1 == Snapshot(index, entry, p1, send, ctx)
             s2 == IF ao["Send"].active THEN SendCompleted(s1, KErrCancel, st) ELSE s1
             p2 == [s2.progress EXCEPT !.error = IF @ = KErrNone THEN KErrCancel ELSE @]
  <2>2. Progress(p1)
    BY <1>0, ProgressFields
  <2>3. s1.progress = p1
    BY DEF Snapshot
  <2> HIDE DEF p1, s1
  <2>4. Progress(s2.progress)
    BY <2>2, <2>3, SendCompletedProgress
  <2> HIDE DEF s2
  <2>5. Progress(p2)
    BY <2>4, ProgressFields
  <2> HIDE DEF p2
  <2>6. SessionCancelled(st) = Snapshot(s2.index, s2.entry, p2, s2.send, s2.ctx)
    BY <1>0 DEF SessionCancelled, s2, s1, p1, p2
  <2>. QED BY <2>1, <2>5, <2>6, SnapshotFields
<1>2. Chain(ao', progress'.state, rcptState')
  <2> DEFINE b == [ao EXCEPT !["Rcpt"] = IdleObject, !["Send"] = IdleObject,
                     !["Session"] = IdleObject, !["Outbox"].status = KErrNone]
  <2>1. ao' = b
    BY DEF ProgressPoll
  <2>2. Chain(b, progress'.state, rcptState')
    BY <1>0, PollKeepsChain, Zenon DEF WakeInv
  <2> HIDE DEF b
  <2>. QED BY <2>1, <2>2
<1>. QED BY <1>1, <1>2 DEF WakeInv

\* WakeInv is inductive.
LEMMA StepKeepsWakeInv == WakeInv /\ [Next]_vars => WakeInv'
<1> SUFFICES ASSUME WakeInv, [Next]_vars PROVE WakeInv'
  OBVIOUS
<1>1. CASE Request
  BY <1>1, RequestKeepsWakeInv
<1>2. CASE MtmRuns
  BY <1>2, CompletesCommandKeepsWakeInv DEF MtmRuns
<1>3. CASE OutboxRunL
  BY <1>3, OutboxRunLKeepsWakeInv
<1>4. CASE SessionRuns
  BY <1>4, SessionRunsKeepsWakeInv
<1>5. CASE SendRunL
  BY <1>5, SendRunLKeepsWakeInv
<1>6. CASE RcptRunL
  BY <1>6, RcptRunLKeepsWakeInv
<1>7. CASE Services
  BY <1>7, ServicesKeepWakeInv
<1>8. CASE ProgressPoll
  BY <1>8, ProgressPollKeepsWakeInv
<1>9. CASE MtmCancel
  BY <1>9, CompletesCommandKeepsWakeInv DEF MtmCancel
<1>10. CASE ClientStep
  BY <1>10 DEF ClientStep, WakeInv
<1>11. CASE UNCHANGED vars
  BY <1>11 DEF vars, WakeInv
<1>. QED BY <1>1, <1>2, <1>3, <1>4, <1>5, <1>6, <1>7, <1>8, <1>9, <1>10, <1>11 DEF Next

\* What is inductive is what matters: the chain has no lost wake-up.
LEMMA WakeInvImpliesNoLostWakeup == WakeInv => NoLostWakeup
BY DEF WakeInv, Chain, NoLostWakeup, Waits, Pending, Serves, AtService, LogStates

\* No wake-up is lost and none is duplicated, whatever the messages, the
\* errors and the client's operations, and however many requests there are.
THEOREM WakeupsAreKept == Spec => []NoLostWakeup
<1>1. Spec => []WakeInv
  BY InitWakeInv, StepKeepsWakeInv, PTL DEF Spec
<1>. QED BY <1>1, WakeInvImpliesNoLostWakeup, PTL

-----------------------------------------------------------------------------
(* The first recipient that is wanted                                      *)

\* A set of natural numbers that is not empty has a least element.
LEMMA LeastNumber ==
  ASSUME NEW S, S \subseteq Nat, S # {}
  PROVE  \E i \in S : \A j \in S : i <= j
<1>1. IsWellFoundedOn({ss \in Nat \X Nat : ss[1] < ss[2]}, Nat)
  BY NatLessThanWellFounded DEF OpToRel
<1>2. PICK i \in S : \A j \in S : <<j, i>> \notin {ss \in Nat \X Nat : ss[1] < ss[2]}
  BY <1>1, WFMin
<1>3. \A j \in S : i <= j
  <2> SUFFICES ASSUME NEW j \in S PROVE i <= j
    OBVIOUS
  <2>1. <<j, i>> \in Nat \X Nat /\ i \in Nat /\ j \in Nat
    OBVIOUS
  <2>2. ~(j < i)
    BY <1>2, <2>1
  <2>. QED BY <2>1, <2>2
<1>. QED BY <1>3

\* And so has a set of integers with a lower bound.
LEMMA LeastInteger ==
  ASSUME NEW S, S \subseteq Int, S # {}, NEW low \in Int, \A i \in S : low <= i
  PROVE  \E i \in S : \A j \in S : i <= j
<1> DEFINE T == {i - low : i \in S}
<1>1. T \subseteq Nat /\ T # {}
  <2>1. \A i \in S : i - low \in Nat
    OBVIOUS
  <2>2. PICK i \in S : TRUE
    OBVIOUS
  <2>3. i - low \in T
    BY <2>2
  <2>. QED BY <2>1, <2>3
<1>2. PICK k \in T : \A j \in T : k <= j
  <2> HIDE DEF T
  <2>. QED BY <1>1, LeastNumber
<1>3. PICK i \in S : k = i - low
  OBVIOUS
<1>4. \A j \in S : i <= j
  <2> SUFFICES ASSUME NEW j \in S PROVE i <= j
    OBVIOUS
  <2>1. i - low <= j - low
    BY <1>2, <1>3
  <2>. QED BY <2>1
<1>. QED BY <1>4

\* FirstFrom returns the first wanted index at or after "from", or n.
LEMMA FirstFromRange ==
  ASSUME NEW from \in Int, NEW n \in Int, NEW wanted
  PROVE  \/ /\ FirstFrom(from, n, wanted) \in from .. n - 1
            /\ FirstFrom(from, n, wanted) \in wanted
            /\ \A j \in from .. FirstFrom(from, n, wanted) - 1 : j \notin wanted
         \/ /\ FirstFrom(from, n, wanted) = n
            /\ \A i \in from .. n - 1 : i \notin wanted
<1> DEFINE S == {i \in from .. n - 1 : i \in wanted}
           P(i) == i \in wanted /\ \A j \in from .. i - 1 : j \notin wanted
<1>1. CASE S = {}
  BY <1>1 DEF FirstFrom
<1>2. CASE S # {}
  <2>0. S \subseteq Int /\ \A i \in S : from <= i
    OBVIOUS
  <2>1. PICK i \in S : \A j \in S : i <= j
    <3> HIDE DEF S
    <3>. QED BY <1>2, <2>0, LeastInteger
  <2>2. i \in from .. n - 1 /\ P(i)
    BY <2>1
  <2>3. FirstFrom(from, n, wanted) = CHOOSE k \in from .. n - 1 : P(k)
    BY <2>2 DEF FirstFrom
  <2>. QED BY <2>2, <2>3
<1>. QED BY <1>1, <1>2
-----------------------------------------------------------------------------
(* Recipients                                                              *)

\* The number of recipients of a message, and how its recipients are typed.
LEMMA RcptsOf ==
  ASSUME NEW m \in Msgs, NEW rs
  PROVE  /\ RcpCount[m] \in Nat
         /\ rs \in Rcpts(m) => /\ rs = [i \in 1 .. RcpCount[m] |-> rs[i]]
                               /\ DOMAIN rs = 1 .. RcpCount[m]
                               /\ \A i \in DOMAIN rs : rs[i] \in RcptRec(Errors)
         /\ (/\ rs = [i \in 1 .. RcpCount[m] |-> rs[i]]
             /\ \A i \in 1 .. RcpCount[m] : rs[i] \in RcptRec(Errors))
              => rs \in Rcpts(m)
<1>1. RcpCount[m] \in Nat
  BY StoreAssumption
<1>2. rs \in Rcpts(m) => /\ rs = [i \in 1 .. RcpCount[m] |-> rs[i]]
                        /\ DOMAIN rs = 1 .. RcpCount[m]
                        /\ \A i \in DOMAIN rs : rs[i] \in RcptRec(Errors)
  BY Zenon DEF Rcpts
<1>3. ASSUME rs = [i \in 1 .. RcpCount[m] |-> rs[i]],
             \A i \in 1 .. RcpCount[m] : rs[i] \in RcptRec(Errors)
      PROVE  rs \in Rcpts(m)
  BY <1>3, Zenon DEF Rcpts
<1>. QED BY <1>1, <1>2, <1>3

\* A recipient of a new message.
LEMMA NewRcptType == NewRcpt \in RcptRec(Errors) /\ NotSent(NewRcpt)
BY DEF NewRcpt, RcptRec, RcptStatuses, Errors, NotSent

\* CheckRecipient leaves a recipient that was sent alone, and any other one
\* unsent, unless its error means that it was sent.
LEMMA CheckRecipientType ==
  ASSUME NEW r \in RcptRec(Errors), NEW a
  PROVE  /\ CheckRecipient(r, a) \in RcptRec(Errors)
         /\ ~NotSent(r) => CheckRecipient(r, a) = r
         /\ NotSent(r) /\ a.action # "SentAlready" => NotSent(CheckRecipient(r, a))
BY DEF CheckRecipient, RcptRec, RcptStatuses, NotSent

\* Re-scheduling keeps the recipients of a message, and every recipient that
\* was sent; no action of the tables makes an unsent recipient sent.
LEMMA ReScheduledRecipientsType ==
  ASSUME NEW m \in Msgs, NEW rs \in Rcpts(m), NEW act
  PROVE  /\ ReScheduledRecipients(rs, act) \in Rcpts(m)
         /\ \A i \in 1 .. RcpCount[m] :
              ~NotSent(rs[i]) => ~NotSent(ReScheduledRecipients(rs, act)[i])
         /\ \A i \in 1 .. RcpCount[m] :
              NotSent(rs[i]) /\ act[i].action # "SentAlready"
                => NotSent(ReScheduledRecipients(rs, act)[i])
<1> DEFINE N == 1 .. RcpCount[m]
           checked == CheckedRecipients(rs, act)
           counted == RecipientsIncreaseRetries(checked)
           failed  == RecipientsSetFailed(checked)
<1>1. DOMAIN rs = N /\ \A i \in N : rs[i] \in RcptRec(Errors)
  BY RcptsOf
<1>2. /\ checked = [i \in N |-> CheckRecipient(rs[i], act[i])]
      /\ \A i \in N : /\ checked[i] \in RcptRec(Errors)
                      /\ ~NotSent(rs[i]) => checked[i] = rs[i]
                      /\ NotSent(rs[i]) /\ act[i].action # "SentAlready"
                           => NotSent(checked[i])
  BY <1>1, CheckRecipientType DEF CheckedRecipients
<1> HIDE DEF checked
<1>3. /\ counted = [i \in N |-> IF NotSent(checked[i])
                                  THEN [checked[i] EXCEPT !.retries = @ + 1]
                                  ELSE checked[i]]
      /\ \A i \in N : /\ counted[i] \in RcptRec(Errors)
                      /\ NotSent(counted[i]) <=> NotSent(checked[i])
  <2>1. ASSUME NEW r \in RcptRec(Errors)
        PROVE  /\ [r EXCEPT !.retries = @ + 1] \in RcptRec(Errors)
               /\ NotSent([r EXCEPT !.retries = @ + 1]) <=> NotSent(r)
    BY DEF RcptRec, NotSent
  <2>. QED BY <1>2, <2>1 DEF RecipientsIncreaseRetries
<1>4. /\ failed = [i \in N |-> IF NotSent(checked[i])
                                 THEN [checked[i] EXCEPT !.status = "FailedToSend"]
                                 ELSE checked[i]]
      /\ \A i \in N : /\ failed[i] \in RcptRec(Errors)
                      /\ NotSent(failed[i]) <=> NotSent(checked[i])
  <2>1. ASSUME NEW r \in RcptRec(Errors), NotSent(r)
        PROVE  /\ [r EXCEPT !.status = "FailedToSend"] \in RcptRec(Errors)
               /\ NotSent([r EXCEPT !.status = "FailedToSend"])
    BY <2>1 DEF RcptRec, RcptStatuses, NotSent
  <2>. QED BY <1>2, <2>1 DEF RecipientsSetFailed
<1> HIDE DEF counted, failed
<1>5. ReScheduledRecipients(rs, act) \in {counted, checked, failed}
  BY DEF ReScheduledRecipients, counted, checked, failed
<1>6. ASSUME NEW x \in {counted, checked, failed}
      PROVE  /\ x \in Rcpts(m)
             /\ \A i \in N : NotSent(x[i]) <=> NotSent(checked[i])
  <2>1. CASE x = counted
    BY <1>3, <2>1 DEF Rcpts
  <2>2. CASE x = checked
    BY <1>2, <2>2 DEF Rcpts
  <2>3. CASE x = failed
    BY <1>4, <2>3 DEF Rcpts
  <2>. QED BY <1>6, <2>1, <2>2, <2>3
<1>7. \A i \in N : NotSent(rs[i]) => (act[i].action # "SentAlready" => NotSent(checked[i]))
  BY <1>2
<1>8. \A i \in N : ~NotSent(rs[i]) => ~NotSent(checked[i])
  BY <1>2
<1>. QED BY <1>5, <1>6, <1>7, <1>8

\* The result of a send goes into the recipient's error and status; a send
\* without an error, and no other, makes an unsent recipient sent.
LEMMA RecipientAfterSendType ==
  ASSUME NEW r \in RcptRec(Errors), NEW err \in Errors, NEW reports \in BOOLEAN
  PROVE  /\ RecipientAfterSend(r, err, reports) \in RcptRec(Errors)
         /\ NotSent(RecipientAfterSend(r, err, reports)) <=> err # KErrNone
<1> DEFINE acked  == r.ack \/ (err = KErrNone /\ reports)
           status == CASE err = KErrNone   -> "SentSuccessfully"
                       [] err = KErrCancel -> "NotYetSent"
                       [] OTHER            -> "FailedToSend"
<1>1. RecipientAfterSend(r, err, reports)
        = [r EXCEPT !.err = err, !.ack = acked, !.status = status]
  BY DEF RecipientAfterSend
<1>2. acked \in BOOLEAN
  BY DEF RcptRec
<1>3. status \in RcptStatuses /\ (status # "SentSuccessfully" <=> err # KErrNone)
  BY DEF RcptStatuses, KErrNone, KErrCancel
<1> HIDE DEF acked, status
<1>. QED BY <1>1, <1>2, <1>3 DEF RcptRec, NotSent

-----------------------------------------------------------------------------
(* Index entries                                                           *)

\* TMsvEntry().
LEMMA NullEntryType == NullEntry \in EntryRec
BY DEF NullEntry, EntryRec, Errors, SendingStates

\* OpenEntryL marks the entry of a message.
LEMMA OpenedEntryType ==
  ASSUME NEW e \in EntryRec
  PROVE  /\ OpenedEntry(e) \in EntryRec
         /\ OpenedEntry(e).id = e.id /\ OpenedEntry(e).folder = e.folder
BY DEF OpenedEntry, EntryRec, Errors, SendingStates

\* Re-scheduling marks the entry of a message.
LEMMA ReScheduledEntryType ==
  ASSUME NEW e \in EntryRec, NEW rs, NEW act
  PROVE  /\ ReScheduledEntry(e, rs, act) \in EntryRec
         /\ ReScheduledEntry(e, rs, act).id = e.id
         /\ ReScheduledEntry(e, rs, act).folder = e.folder
BY DEF ReScheduledEntry, EntryRec, Errors, SendingStates

\* UpdateEntryAfterAllSentL marks the entry of a message; with an error that
\* is not a cancel, it leaves the sending state alone.
LEMMA EntryAfterAllSentType ==
  ASSUME NEW e \in EntryRec, NEW s \in SendRec, NEW n \in Nat
  PROVE  /\ EntryAfterAllSent(e, s, n) \in EntryRec
         /\ EntryAfterAllSent(e, s, n).id = e.id
         /\ EntryAfterAllSent(e, s, n).folder = e.folder
         /\ e.err \notin {KErrNone, KErrCancel}
              => EntryAfterAllSent(e, s, n).state = e.state
<1> DEFINE acked  == s.reports /\ s.sentRcpts > 0
           setsId == acked /\ Kind[e.id] = "text"
           single == setsId /\ s.sentRcpts = 1 /\ ~e.ackPending
           error  == e.failed \/ e.err # KErrNone
           failed == error \/ (single /\ n = 0)
           state  == CASE ~failed -> "Sent"
                       [] error /\ e.err = KErrCancel /\ ~(single /\ n = 0)
                                  -> "Suspended"
                       [] OTHER   -> e.state
           ack    == e.ackPending \/ acked
           idOk   == IF setsId THEN single /\ n > 0 ELSE e.msgIdValid
           d1     == [e EXCEPT !.connected = FALSE]
           d2     == [e EXCEPT !.connected = FALSE, !.failed = failed, !.state = state,
                               !.ackPending = ack, !.msgIdValid = idOk]
<1>1. EntryAfterAllSent(e, s, n) = IF e.state = "Suspended" THEN d1 ELSE d2
  BY DEF EntryAfterAllSent
<1>2. e.failed \in BOOLEAN /\ e.ackPending \in BOOLEAN /\ e.msgIdValid \in BOOLEAN
      /\ s.reports \in BOOLEAN /\ e.state \in SendingStates
  BY DEF EntryRec, SendRec
<1>3. failed \in BOOLEAN /\ ack \in BOOLEAN /\ idOk \in BOOLEAN
  BY <1>2
<1>4. /\ state \in SendingStates
      /\ e.err \notin {KErrNone, KErrCancel} => state = e.state
  BY <1>2 DEF SendingStates
<1> HIDE DEF failed, ack, idOk, state
<1>5. d1 \in EntryRec /\ d2 \in EntryRec
  BY <1>3, <1>4 DEF EntryRec
<1>6. /\ d1.id = e.id /\ d2.id = e.id /\ d1.folder = e.folder /\ d2.folder = e.folder
      /\ d1.state = e.state /\ d2.state = state
  BY DEF EntryRec
<1>. QED BY <1>1, <1>4, <1>5, <1>6

\* FailOutstandingMessages keeps whose entry is whose, and where it is.
LEMMA FailOutstandingType ==
  ASSUME NEW ix \in [Msgs -> EntryRec], NEW sel, NEW err \in Errors,
         NEW st \in SendingStates
  PROVE  /\ FailOutstanding(ix, sel, err, st) \in [Msgs -> EntryRec]
         /\ \A m \in Msgs : /\ FailOutstanding(ix, sel, err, st)[m].id = ix[m].id
                            /\ FailOutstanding(ix, sel, err, st)[m].folder = ix[m].folder
<1>1. ASSUME NEW e \in EntryRec
      PROVE  /\ FailIfOutstanding(e, err, st) \in EntryRec
             /\ FailIfOutstanding(e, err, st).id = e.id
             /\ FailIfOutstanding(e, err, st).folder = e.folder
  BY DEF FailIfOutstanding, EntryRec
<1>. QED BY <1>1 DEF FailOutstanding

-----------------------------------------------------------------------------
(* Types, as predicates on values                                          *)

Ids == Msgs \cup {NoMsg}

\* The index entries: each message has its own.
TypedIndex(ix) == ix \in [Msgs -> EntryRec] /\ \A m \in Msgs : ix[m].id = m

\* The stored headers.
TypedHeaders(hs) == /\ hs = [m \in Msgs |-> hs[m]]
                    /\ \A m \in Msgs : hs[m] \in Rcpts(m)

\* A header in memory is empty or a message's.
TypedHeader(h) == \/ h = NullHeader
                  \/ /\ h.id \in Msgs
                     /\ h = [id |-> h.id, rcpts |-> h.rcpts]
                     /\ h.rcpts \in Rcpts(h.id)

ProgressRec == [state : OutboxStates, error : Errors, msgDone : Int,
                msgCount : Nat, rcpDone : Int, rcpCount : Nat]

TypedObjects == [Objects -> [active : BOOLEAN, status : Errors \cup {KRequestPending},
                             report : BOOLEAN]]

StoreTypes == TypedIndex(index) /\ TypedHeaders(header)

MemTypes == ctx \in Ids /\ entry \in EntryRec /\ TypedHeader(hdr)

WorkTypes ==
  /\ progress \in ProgressRec
  /\ current \in Ids
  /\ selection \subseteq Msgs
  /\ queue \in Seq(Msgs)
  /\ condMet \in BOOLEAN
  /\ send \in SendRec
  /\ rcptState \in RcptStates
  /\ logRes \in LogResults \cup {KErrNone}
  /\ ao \in TypedObjects

HistTypes ==
  /\ DOMAIN delivered = Msgs
  /\ \A m \in Msgs : delivered[m] \in [1 .. RcpCount[m] -> Nat]
  /\ DOMAIN handed = Msgs
  /\ \A m \in Msgs : handed[m] \subseteq 1 .. RcpCount[m]
  /\ requests \in 0 .. MaxRequests

Types == StoreTypes /\ MemTypes /\ WorkTypes /\ HistTypes

-----------------------------------------------------------------------------
(* Shape: whose the entry, the header and the progress in memory are       *)

\* CSmsSend works on a message it has opened: what it does comes from the
\* entry and the header of the current message.
Opened ==
  /\ current \in Msgs /\ entry.id = current /\ hdr.id = current
  /\ progress.rcpCount = RcpCount[current]
  /\ progress.rcpDone \in 0 .. progress.rcpCount
  /\ send.state # "Waiting"
  /\ send.state = "SendingEntry" => progress.rcpDone < progress.rcpCount

\* CSmsSend could not open the message: the header in memory may be that of
\* the message before. But the entry is the current message's and still
\* locked, so that the outbox sender will judge it failed and read both again.
NotOpened ==
  /\ ctx = current /\ Exists(current) /\ CanSendMessage(index[current])
  /\ \/ /\ ao["Send"].active /\ send.state = "OpeningEntry"
        /\ ao["Send"].status \notin {KErrNone, KErrCancel, KRequestPending}
     \/ /\ ~ao["Send"].active
        /\ progress.error # KErrNone /\ entry.state # "Suspended"

SendingShape ==
  progress.state = "Sending" => /\ current \in Msgs /\ entry.id = current
                                /\ hdr.id = current \/ NotOpened

SendShape ==
  ao["Send"].active =>
    IF ao["Send"].status \in {KErrNone, KRequestPending}
      THEN Opened ELSE send.state = "OpeningEntry"

RcptShape == ao["Rcpt"].active => send.state = "SendingEntry"

LogShape ==
  progress.state \in LogStates \cup {"ReScheduling", "LogEntryComplete"}
    => current \in Msgs /\ ctx = current /\ entry.id = current /\ hdr.id = current

Shape == SendingShape /\ SendShape /\ RcptShape /\ LogShape

IInv == Types /\ WakeInv /\ Shape

-----------------------------------------------------------------------------
(* Errors, indexes, headers and objects                                    *)

\* Every error is an integer, and none is the status of a pending request.
LEMMA ErrorsKnown ==
  /\ StoreErrors \subseteq Errors /\ SendErrors \subseteq Errors
  /\ {KErrNone, KErrNotFound, KErrCancel, KErrUnknownBioType} \subseteq Errors
  /\ Errors \subseteq Final
  /\ \A e \in StoreErrors : e \notin {KErrNone, KErrCancel, KRequestPending}
BY ErrorsFinal, StoreAssumption DEF Errors

\* One entry of the index is written.
LEMMA IndexWritten ==
  ASSUME NEW ix, TypedIndex(ix), NEW m \in Msgs, NEW e \in EntryRec, e.id = m
  PROVE  /\ TypedIndex([ix EXCEPT ![m] = e])
         /\ [ix EXCEPT ![m] = e][m] = e
BY DEF TypedIndex

\* One header is stored.
LEMMA HeaderStored ==
  ASSUME NEW hs, TypedHeaders(hs), NEW m \in Msgs, NEW rs \in Rcpts(m)
  PROVE  TypedHeaders([hs EXCEPT ![m] = rs])
<1> DEFINE g == [hs EXCEPT ![m] = rs]
<1>1. g = [q \in Msgs |-> IF q = m THEN rs ELSE hs[q]]
  BY DEF TypedHeaders
<1> HIDE DEF g
<1>2. g = [q \in Msgs |-> g[q]] /\ \A q \in Msgs : g[q] \in Rcpts(q)
  BY <1>1 DEF TypedHeaders
<1>. QED BY <1>2 DEF TypedHeaders, g

\* A header is read.
LEMMA HeaderRead ==
  ASSUME NEW hs, TypedHeaders(hs), NEW m \in Ids
  PROVE  TypedHeader(HeaderOf(hs, m)) /\ HeaderOf(hs, m).id = m
BY DEF HeaderOf, TypedHeader, TypedHeaders, NullHeader, Ids

\* The recipients of a header in memory.
LEMMA HeaderRecipients ==
  ASSUME NEW h, TypedHeader(h), h.id \in Msgs
  PROVE  h = [id |-> h.id, rcpts |-> h.rcpts] /\ h.rcpts \in Rcpts(h.id)
BY StoreAssumption DEF TypedHeader, NullHeader

\* They are changed.
LEMMA RecipientsChanged ==
  ASSUME NEW h, TypedHeader(h), h.id \in Msgs, NEW rs \in Rcpts(h.id)
  PROVE  /\ h.rcpts \in Rcpts(h.id)
         /\ TypedHeader([h EXCEPT !.rcpts = rs])
         /\ [h EXCEPT !.rcpts = rs].id = h.id
         /\ [h EXCEPT !.rcpts = rs].rcpts = rs
<1>1. h = [id |-> h.id, rcpts |-> h.rcpts] /\ h.rcpts \in Rcpts(h.id)
  BY HeaderRecipients
<1>2. [h EXCEPT !.rcpts = rs] = [id |-> h.id, rcpts |-> rs]
  BY <1>1
<1>. QED BY <1>1, <1>2 DEF TypedHeader

\* The log id of a recipient is changed.
LEMMA LogIdChanged ==
  ASSUME NEW m \in Msgs, NEW rs \in Rcpts(m), NEW i, NEW b \in BOOLEAN
  PROVE  [rs EXCEPT ![i].log = b] \in Rcpts(m)
<1>1. \A r \in RcptRec(Errors) : [r EXCEPT !.log = b] \in RcptRec(Errors)
  BY DEF RcptRec
<1>. QED BY <1>1 DEF Rcpts

\* The ways in which an action changes the objects.
LEMMA ObjectsChanged ==
  ASSUME NEW a \in TypedObjects, NEW o \in Objects, NEW e \in Errors
  PROVE  /\ RunsNext(a, o, e) \in TypedObjects
         /\ Awaits(a, o) \in TypedObjects
         /\ [a EXCEPT ![o] = IdleObject] \in TypedObjects
         /\ [a EXCEPT ![o].status = e] \in TypedObjects
         /\ o # "Mtm" => Answers(a, o, e) \in TypedObjects
<1>1. IdleObject \in [active : BOOLEAN, status : Errors \cup {KRequestPending},
                      report : BOOLEAN]
  BY ErrorsKnown DEF IdleObject
<1>2. o # "Mtm" => Parent(o) \in Objects
  BY DEF Parent, Objects
<1>3. \A q \in Objects : [a EXCEPT ![q] = IdleObject] \in TypedObjects
  BY <1>1 DEF TypedObjects
<1>4. ASSUME NEW b \in TypedObjects, NEW q \in Objects
      PROVE  [b EXCEPT ![q].status = e] \in TypedObjects
  BY DEF TypedObjects
<1>5. Answers(a, o, e) = [[a EXCEPT ![o] = IdleObject] EXCEPT ![Parent(o)].status = e]
  BY DEF Answers
<1>6. RunsNext(a, o, e) \in TypedObjects
  BY DEF RunsNext, TypedObjects
<1>7. Awaits(a, o) \in TypedObjects
  BY DEF Awaits, TypedObjects
<1>8. ASSUME o # "Mtm" PROVE Answers(a, o, e) \in TypedObjects
  <2>1. [a EXCEPT ![o] = IdleObject] \in TypedObjects /\ Parent(o) \in Objects
    BY <1>2, <1>3, <1>8
  <2>. QED BY <1>4, <1>5, <2>1, Zenon
<1>9. [a EXCEPT ![o] = IdleObject] \in TypedObjects
      /\ [a EXCEPT ![o].status = e] \in TypedObjects
  BY <1>3, <1>4
<1>. QED BY <1>6, <1>7, <1>8, <1>9, Zenon

-----------------------------------------------------------------------------
(* Completing CSmsSend, as a function                                      *)

\* What SendCompleted reads and makes is typed.
TypedSnapshot(s) ==
  /\ s = Snapshot(s.index, s.entry, s.progress, s.send, s.ctx)
  /\ TypedIndex(s.index) /\ s.entry \in EntryRec /\ s.progress \in ProgressRec
  /\ s.send \in SendRec /\ s.ctx \in Ids

\* A snapshot is read back as it was made.
LEMMA SnapshotTyped ==
  ASSUME NEW ix, TypedIndex(ix), NEW en \in EntryRec, NEW p \in ProgressRec,
         NEW sn \in SendRec, NEW c \in Ids
  PROVE  /\ TypedSnapshot(Snapshot(ix, en, p, sn, c))
         /\ Snapshot(ix, en, p, sn, c).index = ix
         /\ Snapshot(ix, en, p, sn, c).entry = en
         /\ Snapshot(ix, en, p, sn, c).progress = p
         /\ Snapshot(ix, en, p, sn, c).send = sn
         /\ Snapshot(ix, en, p, sn, c).ctx = c
BY DEF TypedSnapshot, Snapshot

\* An error in the progress, and nothing else, or a state and an error.
LEMMA ProgressChanged ==
  ASSUME NEW p \in ProgressRec, NEW e \in Errors, NEW s \in OutboxStates
  PROVE  /\ [p EXCEPT !.error = e] \in ProgressRec
         /\ [p EXCEPT !.state = s] \in ProgressRec
         /\ [p EXCEPT !.error = e].error = e
         /\ [p EXCEPT !.error = e].state = p.state
         /\ [p EXCEPT !.error = e].rcpDone = p.rcpDone
         /\ [p EXCEPT !.error = e].rcpCount = p.rcpCount
         /\ [p EXCEPT !.state = s].state = s
         /\ [p EXCEPT !.state = s].error = p.error
         /\ [p EXCEPT !.state = s, !.error = e] \in ProgressRec
         /\ [p EXCEPT !.state = s, !.error = e].state = s
BY DEF ProgressRec

\* DoComplete(e): the types are kept, and so is whose entry is in memory; an
\* error that is no cancel leaves the state of the message alone.
LEMMA SendCompletedTyped ==
  ASSUME NEW s, TypedSnapshot(s), NEW e \in Errors, NEW st \in BOOLEAN
  PROVE  /\ TypedSnapshot(SendCompleted(s, e, st))
         /\ SendCompleted(s, e, st).entry.id = s.entry.id
         /\ SendCompleted(s, e, st).progress.state = s.progress.state
         /\ SendCompleted(s, e, st).progress.error = e
         /\ s.entry.id \in Msgs /\ s.index[s.entry.id].folder # "None" =>
              /\ SendCompleted(s, e, st).ctx = s.entry.id
              /\ SendCompleted(s, e, st).index[s.entry.id].folder # "None"
              /\ e \notin {KErrNone, KErrCancel} =>
                   /\ SendCompleted(s, e, st).index[s.entry.id].state
                        = s.index[s.entry.id].state
                   /\ SendCompleted(s, e, st).entry.state
                        = s.index[s.entry.id].state
<1> DEFINE m    == s.entry.id
           read == [s.index[m] EXCEPT !.err = e]
           done == EntryAfterAllSent(read, s.send, s.progress.rcpCount)
           p    == [s.progress EXCEPT !.error = e]
           sn   == [s.send EXCEPT !.state = "Waiting"]
           sn2  == [sn EXCEPT !.failedStatus = KErrNone]
           ix   == IF st THEN [s.index EXCEPT ![m] = done] ELSE s.index
           r    == SendCompleted(s, e, st)
<1>1. m \in Ids /\ (m # NoMsg <=> m \in Msgs)
  BY StoreAssumption DEF TypedSnapshot, EntryRec, Ids
<1>2. p \in ProgressRec /\ p.state = s.progress.state /\ p.error = e
  BY ProgressChanged DEF TypedSnapshot, ProgressRec
<1>3. sn \in SendRec /\ sn2 \in SendRec
  BY ErrorsKnown DEF TypedSnapshot, SendRec, SendStates
<1>4. r = IF m # NoMsg /\ s.index[m].folder # "None"
            THEN Snapshot(ix, done, p, sn2, m)
            ELSE Snapshot(s.index, s.entry, p, sn, s.ctx)
  BY DEF SendCompleted
<1>5. CASE m \in Msgs /\ s.index[m].folder # "None"
  <2>1. /\ read \in EntryRec /\ read.id = m /\ read.err = e
        /\ read.state = s.index[m].state /\ read.folder = s.index[m].folder
    BY <1>5 DEF TypedSnapshot, TypedIndex, EntryRec
  <2>2. s.send \in SendRec /\ s.progress.rcpCount \in Nat
    BY DEF TypedSnapshot, ProgressRec
  <2> HIDE DEF read
  <2>3. /\ done \in EntryRec /\ done.id = m /\ done.folder # "None"
        /\ e \notin {KErrNone, KErrCancel} => done.state = s.index[m].state
    BY <1>5, <2>1, <2>2, EntryAfterAllSentType
  <2> HIDE DEF done
  <2>4. /\ TypedIndex(ix) /\ ix[m] \in {done, s.index[m]}
    BY <1>5, <2>3, IndexWritten DEF TypedSnapshot
  <2> HIDE DEF ix, p, sn, sn2, m
  <2>5. r = Snapshot(ix, done, p, sn2, m)
    BY <1>1, <1>4, <1>5
  <2>6. /\ TypedSnapshot(r) /\ r.index = ix /\ r.entry = done /\ r.progress = p
        /\ r.ctx = m
    BY <1>1, <1>2, <1>3, <2>3, <2>4, <2>5, SnapshotTyped
  <2>. QED BY <1>2, <1>5, <2>3, <2>4, <2>6 DEF p, m
<1>6. CASE ~(m \in Msgs /\ s.index[m].folder # "None")
  <2> HIDE DEF p, sn, m
  <2>1. r = Snapshot(s.index, s.entry, p, sn, s.ctx)
    BY <1>1, <1>4, <1>6
  <2>2. TypedSnapshot(r) /\ r.entry = s.entry /\ r.progress = p
    BY <1>2, <1>3, <2>1, SnapshotTyped DEF TypedSnapshot
  <2>. QED BY <1>2, <1>6, <2>2 DEF p, m
<1>. QED BY <1>5, <1>6

-----------------------------------------------------------------------------
(* What the invariant says of the object at work                           *)

\* While an object runs, those below it are at rest, and those above wait.
LEMMA BelowIsAtRest ==
  ASSUME WakeInv
  PROVE  /\ Done(ao, "Outbox") => /\ ~ao["Session"].active
                                  /\ ~ao["Send"].active /\ ~ao["Rcpt"].active
         /\ Done(ao, "Session") => /\ ~ao["Send"].active /\ ~ao["Rcpt"].active
         /\ Done(ao, "Send") => ~ao["Rcpt"].active
         /\ ao["Rcpt"].active => Waits(ao, "Send")
         /\ ao["Send"].active => progress.state = "Sending" /\ Waits(ao, "Session")
         /\ ao["Session"].active => progress.state = "Sending" /\ Waits(ao, "Outbox")
         /\ ~ao["Mtm"].report => \A o \in Objects : ~ao[o].active
<1>1. Chain(ao, progress.state, rcptState)
  BY DEF WakeInv
<1>2. ~ao["Mtm"].report => ~ao["Mtm"].active
  BY <1>1 DEF Chain, Objects
<1>. QED BY <1>1, <1>2, ChainLinks DEF Waits, Done, Objects

\* While a recipient is being sent to, CSmsSend has opened its message, and
\* the recipient is one of the message's.
LEMMA RecipientIsOpened ==
  ASSUME IInv, ao["Rcpt"].active
  PROVE  /\ Opened /\ send.state = "SendingEntry"
         /\ progress.rcpDone \in Nat
         /\ Recipient \in 1 .. RcpCount[current]
<1>1. ao["Send"].active /\ ao["Send"].status = KRequestPending
  BY BelowIsAtRest DEF IInv, Waits
<1>2. Opened /\ send.state = "SendingEntry"
  BY <1>1 DEF IInv, Shape, SendShape, RcptShape
<1>3. RcpCount[current] \in Nat
  BY <1>2, StoreAssumption DEF Opened
<1>. QED BY <1>2, <1>3 DEF Opened, Recipient

-----------------------------------------------------------------------------
(* The initial states, and what the invariant implies                      *)

\* TSmsProgress(), CSmsSend and the history of a new request.
LEMMA NewTyped ==
  /\ NewProgress \in ProgressRec /\ NewSend \in SendRec
  /\ DOMAIN NothingDelivered = Msgs
  /\ \A m \in Msgs : NothingDelivered[m] \in [1 .. RcpCount[m] -> Nat]
  /\ [o \in Objects |-> IdleObject] \in TypedObjects
  /\ <<>> \in Seq(Msgs)
<1>1. KErrNone \in Errors
  BY ErrorsKnown
<1>2. "Waiting" \in OutboxStates
  BY DEF OutboxStates
<1>3. NewProgress \in ProgressRec
  BY <1>1, <1>2 DEF NewProgress, ProgressRec
<1>4. NewSend \in SendRec
  BY <1>1 DEF NewSend, SendRec, SendStates
<1>5. \A m \in Msgs : NothingDelivered[m] = [i \in 1 .. RcpCount[m] |-> 0]
  BY DEF NothingDelivered
<1>6. [o \in Objects |-> IdleObject] \in TypedObjects
  BY <1>1 DEF TypedObjects, IdleObject
<1>. QED BY <1>3, <1>4, <1>5, <1>6 DEF NothingDelivered

LEMMA InitIInv == Init => IInv
<1> SUFFICES ASSUME Init PROVE IInv
  OBVIOUS
<1>1. WakeInv
  BY InitWakeInv
<1>2. TypedIndex(index)
  <2>1. PICK s \in [Msgs -> InitStates] :
          index = [m \in Msgs |->
                     [NullEntry EXCEPT !.id = m, !.folder = "Outbox", !.state = s[m],
                                       !.scheduled = (s[m] = "Resend"),
                                       !.failed = (s[m] = "Failed")]]
    BY DEF Init
  <2>2. \A m \in Msgs : s[m] \in SendingStates
    BY OutboxAssumption
  <2>. QED BY <2>1, <2>2, NullEntryType DEF TypedIndex, EntryRec
<1>3. TypedHeaders(header)
  BY NewRcptType DEF Init, TypedHeaders, Rcpts
<1>4. MemTypes
  BY NullEntryType DEF Init, MemTypes, TypedHeader, Ids
<1>5. WorkTypes
  BY NewTyped DEF Init, WorkTypes, Ids, RcptStates
<1>6. HistTypes
  <2>1. 0 \in 0 .. MaxRequests
    BY OutboxAssumption
  <2>2. \A m \in Msgs : handed[m] = {}
    BY DEF Init
  <2>3. DOMAIN handed = Msgs /\ requests = 0 /\ delivered = NothingDelivered
    BY DEF Init
  <2>. QED BY <2>1, <2>2, <2>3, NewTyped DEF HistTypes
<1>7. Shape
  BY DEF Init, Shape, SendingShape, SendShape, RcptShape, LogShape, LogStates,
     NewProgress, IdleObject, Objects
<1>. QED BY <1>1, <1>2, <1>3, <1>4, <1>5, <1>6, <1>7 DEF IInv, Types, StoreTypes

LEMMA IInvImpliesTypeOK == IInv => TypeOK
<1> SUFFICES ASSUME Types PROVE TypeOK
  BY DEF IInv
<1>1. /\ hdr.id \in Msgs \cup {NoMsg}
      /\ hdr = IF hdr.id = NoMsg THEN NullHeader
               ELSE [id |-> hdr.id, rcpts |-> hdr.rcpts]
      /\ hdr.id # NoMsg => hdr.rcpts \in Rcpts(hdr.id)
  BY StoreAssumption DEF Types, MemTypes, TypedHeader, NullHeader
<1>2. DOMAIN header = Msgs /\ \A m \in Msgs : header[m] \in Rcpts(m)
  BY DEF Types, StoreTypes, TypedHeaders
<1>. QED BY <1>1, <1>2 DEF TypeOK, Types, StoreTypes, TypedIndex, MemTypes, WorkTypes,
         HistTypes, Ids, ProgressRec, TypedObjects

LEMMA IInvImpliesOneMessageAtATime == IInv => OneMessageAtATime
<1> SUFFICES ASSUME IInv PROVE OneMessageAtATime
  OBVIOUS
<1>1. ASSUME progress.state = "Sending" PROVE entry.id = current
  BY <1>1 DEF IInv, Shape, SendingShape
<1>2. ASSUME progress.state \in {"ReScheduling", "GetLogEvent", "AddLogEvent",
                                 "ChangeLogEvent", "LogEntryComplete"}
      PROVE  ctx = current /\ entry.id = current /\ hdr.id = current
  BY <1>2 DEF IInv, Shape, LogShape, LogStates
<1>3. ASSUME ao["Send"].active, send.state \in {"SendingEntry", "UpdatingRecipient"}
      PROVE  entry.id = current /\ hdr.id = current
  BY <1>3 DEF IInv, Shape, SendShape, Opened
<1>. QED BY <1>1, <1>2, <1>3 DEF OneMessageAtATime

-----------------------------------------------------------------------------
(* A request                                                               *)

\* DivideMessagesL and FindOtherMessagesL keep the index typed.
LEMMA DividedTyped ==
  ASSUME TypedIndex(index), NEW done
  PROVE  TypedIndex(Divided(done))
<1>1. ASSUME NEW m \in Msgs
      PROVE  Divided(done)[m] \in EntryRec /\ Divided(done)[m].id = m
  <2>1. index[m] \in EntryRec /\ index[m].id = m
    BY DEF TypedIndex
  <2>2. Divided(done)[m] \in {index[m], [index[m] EXCEPT !.state = "Waiting"],
                              [index[m] EXCEPT !.failed = TRUE, !.state = "Failed",
                                               !.err = KErrUnknownBioType]}
    BY DEF Divided
  <2>. QED BY <2>1, <2>2, ErrorsKnown DEF EntryRec, SendingStates
<1>2. Divided(done) = [m \in Msgs |-> Divided(done)[m]]
  BY DEF Divided
<1>. QED BY <1>1, <1>2 DEF TypedIndex

LEMMA MadeWaitingTyped ==
  ASSUME NEW ix, TypedIndex(ix), NEW acc
  PROVE  TypedIndex(MadeWaiting(ix, acc))
BY DEF TypedIndex, MadeWaiting, EntryRec, SendingStates

\* The queue of messages is a sequence of them, and their number is known.
LEMMA QueuesTyped ==
  ASSUME NEW acc, acc \subseteq Msgs, NEW sel
  PROVE  /\ Cardinality(acc) \in Nat
         /\ \A q \in Queues(sel, acc) : q \in Seq(Msgs)
<1>1. Cardinality(acc) \in Nat
  BY StoreAssumption, FS_Subset, FS_CardinalityType
<1>2. ASSUME NEW q \in Queues(sel, acc) PROVE q \in Seq(Msgs)
  <2>1. q \in SetToSeqs(acc)
    BY DEF Queues
  <2>2. q \in [1 .. Cardinality(acc) -> acc]
    BY <2>1 DEF SetToSeqs
  <2>3. \A i \in 1 .. Cardinality(acc) : q[i] \in Msgs
    BY <2>2
  <2>. QED BY <1>1, <2>2, <2>3, SeqDef
<1>. QED BY <1>1, <1>2

\* The progress of a request that starts.
LEMMA StartProgress ==
  ASSUME NEW s \in {"FindingOtherMessages", "Complete"}, NEW n \in Nat
  PROVE  /\ [NewProgress EXCEPT !.state = s] \in ProgressRec
         /\ [NewProgress EXCEPT !.state = s].state = s
         /\ [NewProgress EXCEPT !.state = s, !.msgCount = n] \in ProgressRec
         /\ [NewProgress EXCEPT !.state = s, !.msgCount = n].state = s
         /\ [NewProgress EXCEPT !.state = s, !.msgDone = -1, !.msgCount = n] \in ProgressRec
         /\ [NewProgress EXCEPT !.state = s, !.msgDone = -1, !.msgCount = n].state = s
<1>1. s \in OutboxStates /\ -1 \in Int
  BY DEF OutboxStates
<1>2. NewProgress \in ProgressRec
  BY NewTyped
<1>. QED BY <1>1, <1>2 DEF ProgressRec

\* A request starts with no object active, so that nothing is said of the
\* message in memory yet.
LEMMA StartsKeepsIInv ==
  ASSUME IInv, NEW err \in Errors, Starts(err), StoreTypes', MemTypes',
         progress' \in ProgressRec,
         progress'.state \in {"FindingOtherMessages", "Complete"},
         selection' \subseteq Msgs, queue' \in Seq(Msgs), condMet' \in BOOLEAN
  PROVE  Types' /\ Shape'
<1>1. ao' \in TypedObjects
  BY ObjectsChanged DEF IInv, Types, WorkTypes, Starts, Objects
<1>2. WorkTypes'
  BY <1>1 DEF IInv, Types, WorkTypes, Starts
<1>3. HistTypes'
  <2>1. requests' \in 0 .. MaxRequests
    BY OutboxAssumption DEF IInv, Types, HistTypes, Starts
  <2>. QED BY <2>1, NewTyped DEF IInv, Types, HistTypes, Starts
<1>4. ~ao'["Send"].active /\ ~ao'["Rcpt"].active
  <2>1. ~ao["Send"].active /\ ~ao["Rcpt"].active
    BY BelowIsAtRest DEF IInv, Starts, Objects
  <2>2. ao'["Send"] = ao["Send"] /\ ao'["Rcpt"] = ao["Rcpt"]
    BY DEF IInv, Types, WorkTypes, TypedObjects, Starts, RunsNext, Awaits, Objects
  <2>. QED BY <2>1, <2>2
<1>5. Shape'
  BY <1>4 DEF Shape, SendingShape, SendShape, RcptShape, LogShape, LogStates
<1>. QED BY <1>2, <1>3, <1>5 DEF Types

\* What is accepted, or has a type that is not supported, is a message.
LEMMA ChosenAreMessages ==
  ASSUME NEW sel \in SUBSET Msgs
  PROVE  /\ Found(sel) \subseteq Msgs /\ sel \cup Found(sel) \subseteq Msgs
         /\ \A all \in SUBSET Msgs : Accepted(all) \subseteq Msgs /\ BadBio(all) \subseteq Msgs
BY DEF Found, Accepted, BadBio

LEMMA StartSendKeepsIInv ==
  ASSUME IInv, NEW sel \in SUBSET Msgs, StartSend(sel)
  PROVE  Types' /\ Shape'
<1> DEFINE all == sel \cup Found(sel)
           acc == Accepted(all)
           ix  == MadeWaiting(Divided(all), acc)
<1>1. acc \subseteq Msgs /\ BadBio(all) \subseteq Msgs
  BY ChosenAreMessages
<1>2. TypedIndex(index) /\ TypedHeaders(header)
  BY DEF IInv, Types, StoreTypes
<1>3. TypedIndex(ix)
  BY <1>2, DividedTyped, MadeWaitingTyped
<1>4. Cardinality(acc) \in Nat /\ \A q \in Queues(sel, acc) : q \in Seq(Msgs)
  BY <1>1, QueuesTyped
<1> HIDE DEF ix
<1>5. PICK q \in Queues(sel, acc), c \in acc, h \in acc \cup BadBio(all) :
        queue' = q /\ ctx' = c /\ entry' = ix[c] /\ hdr' = HeaderOf(header, h)
  BY DEF StartSend, ix
<1>6. StoreTypes' /\ MemTypes' /\ queue' \in Seq(Msgs)
  <2>1. StoreTypes'
    BY <1>2, <1>3 DEF StartSend, StoreTypes, ix
  <2>2. ix[c] \in EntryRec /\ c \in Ids /\ h \in Ids
    BY <1>1, <1>3 DEF TypedIndex, Ids
  <2>3. TypedHeader(HeaderOf(header, h))
    BY <1>2, <2>2, HeaderRead
  <2>4. MemTypes'
    BY <1>5, <2>2, <2>3 DEF MemTypes
  <2>. QED BY <1>4, <1>5, <2>1, <2>4
<1>7. /\ progress' \in ProgressRec /\ progress'.state = "FindingOtherMessages"
  <2>1. progress' = [NewProgress EXCEPT !.state = "FindingOtherMessages",
                                        !.msgDone = -1, !.msgCount = Cardinality(acc)]
    BY DEF StartSend
  <2> HIDE DEF acc
  <2>. QED BY <1>4, <2>1, StartProgress
<1>8. selection' \subseteq Msgs /\ condMet' \in BOOLEAN /\ Starts(KErrNone)
  BY <1>1 DEF StartSend
<1>. QED BY <1>6, <1>7, <1>8, ErrorsKnown, StartsKeepsIInv

\* Re-scheduling some messages keeps the index and the headers typed.
LEMMA ReSchedulingTyped ==
  ASSUME NEW ix, TypedIndex(ix), NEW hs, TypedHeaders(hs), NEW done
  PROVE  /\ TypedIndex([m \in Msgs |-> IF m \in done
                                         THEN ReScheduledEntry(ix[m], hs[m], CondActions(m))
                                         ELSE ix[m]])
         /\ TypedHeaders([m \in Msgs |-> IF m \in done
                                           THEN ReScheduledRecipients(hs[m], CondActions(m))
                                           ELSE hs[m]])
<1>1. ASSUME NEW m \in Msgs
      PROVE  /\ ReScheduledEntry(ix[m], hs[m], CondActions(m)) \in EntryRec
             /\ ReScheduledEntry(ix[m], hs[m], CondActions(m)).id = m
             /\ ReScheduledRecipients(hs[m], CondActions(m)) \in Rcpts(m)
  <2>1. ix[m] \in EntryRec /\ ix[m].id = m /\ hs[m] \in Rcpts(m)
    BY DEF TypedIndex, TypedHeaders
  <2>. QED BY <2>1, ReScheduledEntryType, ReScheduledRecipientsType
<1>. QED BY <1>1 DEF TypedIndex, TypedHeaders

LEMMA StartReSchedulesKeepsIInv ==
  ASSUME IInv, NEW sel \in SUBSET Msgs, NEW err \in StoreErrors \cup {KErrNone}, NEW done,
         StartReSchedules(sel, err, done)
  PROVE  Types' /\ Shape'
<1> DEFINE all == sel \cup Found(sel)
           acc == Accepted(all)
           ix  == Divided(all)
           hs  == [m \in Msgs |-> IF m \in done
                                    THEN ReScheduledRecipients(header[m], CondActions(m))
                                    ELSE header[m]]
           ix2 == [m \in Msgs |-> IF m \in done
                                    THEN ReScheduledEntry(ix[m], header[m], CondActions(m))
                                    ELSE ix[m]]
<1>1. acc \subseteq Msgs /\ BadBio(all) \subseteq Msgs
  BY ChosenAreMessages
<1>2. TypedIndex(ix) /\ TypedHeaders(header)
  BY DividedTyped DEF IInv, Types, StoreTypes
<1>3. TypedIndex(ix2) /\ TypedHeaders(hs)
  <2> HIDE DEF ix
  <2>. QED BY <1>2, ReSchedulingTyped
<1>4. Cardinality(acc) \in Nat /\ \A q \in Queues(sel, acc) : q \in Seq(Msgs)
  BY <1>1, QueuesTyped
<1>5. /\ index' = ix2 /\ header' = hs /\ selection' = acc /\ condMet' = FALSE
      /\ Starts(err)
      /\ \E q \in Queues(sel, acc), c \in acc, h \in acc \cup BadBio(all) \cup {NoMsg} :
           queue' = q /\ ctx' = c /\ entry' = ix2[c] /\ hdr' = HeaderOf(hs, h)
  BY DEF StartReSchedules
<1> HIDE DEF ix, ix2, hs, acc
<1>6. PICK q \in Queues(sel, acc), c \in acc, h \in acc \cup BadBio(all) \cup {NoMsg} :
        queue' = q /\ ctx' = c /\ entry' = ix2[c] /\ hdr' = HeaderOf(hs, h)
  BY <1>5
<1>7. MemTypes'
  <2>1. ix2[c] \in EntryRec /\ c \in Ids /\ h \in Ids
    BY <1>1, <1>3 DEF TypedIndex, Ids
  <2>2. TypedHeader(HeaderOf(hs, h))
    BY <1>3, <2>1, HeaderRead
  <2>. QED BY <1>6, <2>1, <2>2 DEF MemTypes
<1>8. /\ progress' \in ProgressRec /\ progress'.state = "Complete"
  <2>1. progress' = [NewProgress EXCEPT !.state = "Complete", !.msgDone = -1,
                                        !.msgCount = Cardinality(acc)]
    BY DEF StartReSchedules, acc
  <2>. QED BY <1>4, <2>1, StartProgress
<1>9. StoreTypes'
  BY <1>3, <1>5 DEF StoreTypes
<1>10. err \in Errors /\ queue' \in Seq(Msgs)
  BY <1>4, <1>6, ErrorsKnown
<1>. QED BY <1>1, <1>5, <1>7, <1>8, <1>9, <1>10, StartsKeepsIInv

LEMMA StartFindsNothingKeepsIInv ==
  ASSUME IInv, NEW sel \in SUBSET Msgs, StartFindsNothing(sel)
  PROVE  Types' /\ Shape'
<1> DEFINE all == sel \cup Found(sel)
<1>1. all \subseteq Msgs /\ BadBio(all) \subseteq Msgs
  BY ChosenAreMessages
<1>2. TypedIndex(Divided(all)) /\ TypedHeaders(header)
  BY DividedTyped DEF IInv, Types, StoreTypes
<1>3. DivideError(all) \in Errors /\ Starts(DivideError(all))
  BY ErrorsKnown DEF DivideError, StartFindsNothing
<1>4. StoreTypes'
  BY <1>2 DEF StoreTypes, StartFindsNothing
<1>5. PICK h \in BadBio(all) \cup {NoMsg} : hdr' = HeaderOf(header, h)
  BY DEF StartFindsNothing
<1>6. TypedHeader(hdr')
  BY <1>1, <1>2, <1>5, HeaderRead DEF Ids
<1>7. MemTypes'
  BY <1>1, <1>6 DEF StartFindsNothing, IInv, Types, MemTypes, Ids
<1>8. /\ progress' \in ProgressRec /\ progress'.state = "FindingOtherMessages"
  <2>1. progress' = [NewProgress EXCEPT !.state = "FindingOtherMessages"]
    BY DEF StartFindsNothing
  <2>. QED BY <2>1, StartProgress
<1>9. selection' \subseteq Msgs /\ queue' \in Seq(Msgs) /\ condMet' \in BOOLEAN
  BY NewTyped DEF StartFindsNothing
<1>. QED BY <1>3, <1>4, <1>7, <1>8, <1>9, StartsKeepsIInv

LEMMA StartFailsKeepsIInv ==
  ASSUME IInv, NEW sel \in SUBSET Msgs, NEW err \in StoreErrors, NEW found, NEW done,
         StartFails(sel, err, found, done)
  PROVE  Types' /\ Shape'
<1> DEFINE all == sel \cup found
<1>1. all \subseteq Msgs /\ done \subseteq Msgs
  BY ChosenAreMessages DEF StartFails
<1>2. Accepted(done) \subseteq Msgs /\ BadBio(done) \subseteq Msgs
  BY <1>1, ChosenAreMessages
<1>3. TypedIndex(Divided(done)) /\ TypedHeaders(header)
  BY DividedTyped DEF IInv, Types, StoreTypes
<1>4. StoreTypes'
  BY <1>3 DEF StoreTypes, StartFails
<1>5. PICK h \in Accepted(done) \cup BadBio(done) \cup {NoMsg} : hdr' = HeaderOf(header, h)
  BY DEF StartFails
<1>6. TypedHeader(hdr')
  BY <1>2, <1>3, <1>5, HeaderRead DEF Ids
<1>7. MemTypes'
  BY <1>1, <1>6 DEF StartFails, IInv, Types, MemTypes, Ids
<1>8. /\ progress' \in ProgressRec /\ progress'.state = "FindingOtherMessages"
  <2>1. progress' = [NewProgress EXCEPT !.state = "FindingOtherMessages",
                                        !.msgCount = Cardinality(Accepted(done))]
    BY DEF StartFails
  <2>2. Cardinality(Accepted(done)) \in Nat
    BY <1>2, QueuesTyped
  <2>. QED BY <2>1, <2>2, StartProgress
<1>9. selection' \subseteq Msgs /\ queue' \in Seq(Msgs) /\ condMet' \in BOOLEAN
  BY <1>1, <1>2, NewTyped DEF StartFails
<1>10. err \in Errors /\ Starts(err)
  BY ErrorsKnown DEF StartFails
<1>. QED BY <1>4, <1>7, <1>8, <1>9, <1>10, StartsKeepsIInv

LEMMA RequestKeepsIInv == IInv /\ Request => Types' /\ Shape'
<1> SUFFICES ASSUME IInv, NEW sel \in SUBSET Msgs,
                    \/ StartSend(sel)
                    \/ StartFindsNothing(sel)
                    \/ StartReSchedules(sel, KErrNone, Accepted(sel \cup Found(sel)))
                    \/ \E e \in StoreErrors :
                         \/ \E done \in SUBSET Accepted(sel \cup Found(sel)) :
                              StartReSchedules(sel, e, done)
                         \/ \E found \in SUBSET Found(sel) : \E done \in SUBSET (sel \cup found) :
                              StartFails(sel, e, found, done)
             PROVE  Types' /\ Shape'
  BY DEF Request
<1>. QED BY StartSendKeepsIInv, StartFindsNothingKeepsIInv, StartReSchedulesKeepsIInv,
            StartFailsKeepsIInv

-----------------------------------------------------------------------------
(* The outbox sender: the next message                                     *)

\* The outbox sender starts CSmsSend.
LEMMA ChainStartsTyped ==
  ASSUME IInv, Done(ao, "Outbox"), NEW err \in Errors
  PROVE  /\ ChainStarts(err) \in TypedObjects
         /\ ChainStarts(err)["Send"] = [active |-> TRUE, status |-> err, report |-> TRUE]
         /\ ~ChainStarts(err)["Rcpt"].active
<1>1. ao \in TypedObjects /\ ~ao["Rcpt"].active
  BY BelowIsAtRest DEF IInv, Types, WorkTypes
<1>2. ChainStarts(err) \in TypedObjects
  BY <1>1, ObjectsChanged DEF ChainStarts, Objects
<1>. QED BY <1>1, <1>2 DEF ChainStarts, RunsNext, Awaits, TypedObjects, Objects

\* OpenEntryL counts the recipients of the message.
Counts(p, d, n) == [p EXCEPT !.rcpDone = d, !.rcpCount = n]

LEMMA ProgressCounts ==
  ASSUME NEW p \in ProgressRec, NEW d \in Int, NEW n \in Nat
  PROVE  /\ Counts(p, d, n) \in ProgressRec
         /\ Counts(p, d, n).state = p.state
         /\ Counts(p, d, n).rcpDone = d
         /\ Counts(p, d, n).rcpCount = n
BY DEF ProgressRec, Counts

\* SendNextHeaderL has chosen m; the message is opened, or it cannot be.
LEMMA OpeningKeepsIInv ==
  ASSUME IInv, Done(ao, "Outbox"), NEW m \in Msgs, NEW p \in ProgressRec,
         Exists(m), CanSendMessage(index[m]), p.state = "Sending",
         current' = m, ctx' = m, queue' \in Seq(Msgs),
         \/ OpensEntry(m, p) \/ OpenFindsNoRecipient(m, p)
         \/ OpenCannotChange(m, p) \/ OpenCannotRead(m, p),
         UNCHANGED <<header, selection, condMet, rcptState, logRes, histVars>>
  PROVE  Types' /\ Shape'
<1>1. /\ TypedIndex(index) /\ TypedHeaders(header) /\ TypedHeader(hdr) /\ send \in SendRec
      /\ index[m] \in EntryRec /\ index[m].id = m
  BY DEF IInv, Types, StoreTypes, MemTypes, WorkTypes, TypedIndex
<1>2. /\ OpenedEntry(index[m]) \in EntryRec /\ OpenedEntry(index[m]).id = m
      /\ OpenedEntry(index[m]).folder = index[m].folder
      /\ TypedIndex([index EXCEPT ![m] = OpenedEntry(index[m])])
  BY <1>1, OpenedEntryType, IndexWritten
<1>3. TypedHeader(HeaderOf(header, m)) /\ HeaderOf(header, m).id = m
  BY <1>1, HeaderRead DEF Ids
<1>4. \A n \in Nat : /\ Counts(p, 0, n) \in ProgressRec
                     /\ Counts(p, 0, n).state = "Sending"
                     /\ Counts(p, 0, n).rcpDone = 0 /\ Counts(p, 0, n).rcpCount = n
  BY ProgressCounts
<1>5. LET s1 == [send EXCEPT !.state = "OpeningEntry", !.sentRcpts = 0,
                             !.reports = m \in DeliveryReports]
          s2 == [send EXCEPT !.state = "OpeningEntry"]
      IN  /\ s1 \in SendRec /\ s1.state = "OpeningEntry"
          /\ s2 \in SendRec /\ s2.state = "OpeningEntry"
  <2>1. (m \in DeliveryReports) \in BOOLEAN /\ "OpeningEntry" \in SendStates
    BY DEF SendStates
  <2>. QED BY <1>1, <2>1 DEF SendRec
<1>6. send' \in SendRec /\ send'.state = "OpeningEntry"
  BY <1>5 DEF OpensEntry, OpenFindsNoRecipient, OpenCannotChange, OpenCannotRead
<1>7. RcpCount[m] \in Nat
  BY StoreAssumption
<1>8. progress' \in ProgressRec /\ progress'.state = "Sending"
  <2>1. progress' \in {p, Counts(p, 0, RcpCount[m]), Counts(p, 0, 0)}
    BY DEF OpensEntry, OpenFindsNoRecipient, OpenCannotChange, OpenCannotRead, Counts
  <2>2. 0 \in Nat
    OBVIOUS
  <2>. QED BY <1>4, <1>7, <2>1, <2>2
<1>9. TypedIndex(index') /\ StoreTypes'
  BY <1>1, <1>2 DEF StoreTypes, OpensEntry, OpenFindsNoRecipient, OpenCannotChange,
     OpenCannotRead
<1>10. entry' \in EntryRec /\ entry'.id = m
  BY <1>1, <1>2 DEF OpensEntry, OpenFindsNoRecipient, OpenCannotChange, OpenCannotRead
<1>11. TypedHeader(hdr')
  <2>1. TypedHeader(NullHeader)
    BY DEF TypedHeader
  <2>. QED BY <1>1, <1>3, <2>1 DEF HalfRead, OpensEntry, OpenFindsNoRecipient,
           OpenCannotChange, OpenCannotRead
<1>12. PICK err \in Errors :
         /\ ao' = ChainStarts(err)
         /\ OpensEntry(m, p) => err = KErrNone
         /\ ~OpensEntry(m, p) => err \notin {KErrNone, KErrCancel, KRequestPending}
  <2>1. KErrNone \in Errors /\ KErrNotFound \in Errors
    BY ErrorsKnown
  <2>2. KErrNotFound \notin {KErrNone, KErrCancel, KRequestPending}
    BY DEF KErrNotFound, KErrNone, KErrCancel, KRequestPending
  <2>3. CASE OpensEntry(m, p)
    BY <2>1, <2>3 DEF OpensEntry
  <2>4. CASE ~OpensEntry(m, p) /\ OpenFindsNoRecipient(m, p)
    BY <2>1, <2>2, <2>4 DEF OpenFindsNoRecipient
  <2>5. CASE ~OpensEntry(m, p) /\ (OpenCannotChange(m, p) \/ OpenCannotRead(m, p))
    <3>1. PICK x \in StoreErrors : ao' = ChainStarts(x)
      BY <2>5 DEF OpenCannotChange, OpenCannotRead
    <3>. QED BY <2>5, <3>1, ErrorsKnown
  <2>. QED BY <2>3, <2>4, <2>5
<1>13. /\ ao' \in TypedObjects /\ ~ao'["Rcpt"].active
       /\ ao'["Send"].active /\ ao'["Send"].status = err
  <2>1. /\ ao' \in TypedObjects /\ ~ao'["Rcpt"].active
        /\ ao'["Send"] = [active |-> TRUE, status |-> err, report |-> TRUE]
    BY <1>12, ChainStartsTyped
  <2>. QED BY <2>1
<1>14. MemTypes'
  BY <1>10, <1>11 DEF MemTypes, Ids
<1>15. WorkTypes' /\ HistTypes'
  BY <1>6, <1>8, <1>13 DEF IInv, Types, WorkTypes, HistTypes, histVars, Ids
<1>16. CASE OpensEntry(m, p)
  <2>1. hdr'.id = m /\ progress'.rcpCount = RcpCount[m] /\ progress'.rcpDone = 0
    <3>1. progress' = Counts(p, 0, RcpCount[m]) /\ hdr' = HeaderOf(header, m)
      BY <1>16 DEF OpensEntry, Counts
    <3>. QED BY <1>3, <1>4, <1>7, <3>1
  <2>2. Opened'
    BY <1>6, <1>7, <1>10, <2>1 DEF Opened
  <2>. QED BY <1>6, <1>8, <1>9, <1>10, <1>12, <1>13, <1>14, <1>15, <1>16, <2>1, <2>2
           DEF Types, Shape, SendingShape, SendShape, RcptShape, LogShape, LogStates
<1>17. CASE ~OpensEntry(m, p)
  <2>1. index' = index
    BY <1>17 DEF OpenFindsNoRecipient, OpenCannotChange, OpenCannotRead
  <2>2. NotOpened'
    BY <1>6, <1>12, <1>13, <1>17, <2>1 DEF NotOpened, Exists
  <2>3. ao'["Send"].status \notin {KErrNone, KRequestPending}
    BY <1>12, <1>13, <1>17
  <2>. QED BY <1>6, <1>8, <1>9, <1>10, <1>13, <1>14, <1>15, <2>2, <2>3
           DEF Types, Shape, SendingShape, SendShape, RcptShape, LogShape, LogStates
<1>. QED BY <1>16, <1>17

\* SendNextHeaderL, with a message left or with none.
LEMMA SendNextHeaderKeepsIInv ==
  ASSUME IInv, Done(ao, "Outbox"), SendNextHeaderL
  PROVE  Types' /\ Shape'
<1> DEFINE sendable == {i \in 0 .. Len(queue) - 1 : /\ Exists(queue[i + 1])
                                                    /\ CanSendMessage(index[queue[i + 1]])}
           skipped == FirstFrom(0, Len(queue), sendable)
           passed  == {i \in 1 .. skipped : Exists(queue[i])}
           p == [progress EXCEPT !.msgDone = @ + skipped + 1]
           m == queue[skipped + 1]
           q == [p EXCEPT !.state = "Sending"]
           z == [p EXCEPT !.state = "Complete"]
<1>1. queue \in Seq(Msgs) /\ progress \in ProgressRec
  BY DEF IInv, Types, WorkTypes
<1>2. /\ Len(queue) \in Nat /\ skipped \in 0 .. Len(queue)
      /\ skipped < Len(queue) => skipped \in sendable
  <2>1. Len(queue) \in Nat
    BY <1>1
  <2> HIDE DEF sendable
  <2>. QED BY <2>1, FirstFromRange
<1>3. skipped < Len(queue) => m \in Msgs /\ Exists(m) /\ CanSendMessage(index[m])
  <2> SUFFICES ASSUME skipped < Len(queue)
               PROVE  m \in Msgs /\ Exists(m) /\ CanSendMessage(index[m])
    OBVIOUS
  <2>1. skipped \in sendable
    BY <1>2
  <2> HIDE DEF skipped
  <2>2. skipped + 1 \in 1 .. Len(queue)
    BY <1>2
  <2>. QED BY <1>1, <2>1, <2>2
<1> HIDE DEF skipped
<1>4. /\ p \in ProgressRec /\ q \in ProgressRec /\ q.state = "Sending"
      /\ z \in ProgressRec /\ z.state = "Complete"
  <2>1. p \in ProgressRec
    BY <1>1, <1>2 DEF ProgressRec
  <2>2. "Sending" \in OutboxStates /\ "Complete" \in OutboxStates
    BY DEF OutboxStates
  <2> HIDE DEF p
  <2>. QED BY <2>1, <2>2 DEF ProgressRec
<1>5. SubSeq(queue, skipped + 2, Len(queue)) \in Seq(Msgs)
  <2> DEFINE t == SubSeq(queue, skipped + 2, Len(queue))
             n == Len(queue) - skipped - 1
  <2>1. CASE skipped < Len(queue)
    BY <1>1, <1>2, <2>1, SubSeqProperties
  <2>2. CASE skipped = Len(queue)
    <3>1. t = << >>
      BY <1>1, <1>2, <2>2, SubSeqEmpty
    <3>. QED BY <3>1, NewTyped
  <2>. QED BY <1>2, <2>1, <2>2
<1> HIDE DEF p, m, q, z
<1>6. /\ queue' \in Seq(Msgs)
      /\ UNCHANGED <<header, selection, condMet, rcptState, logRes, histVars>>
  BY <1>5 DEF SendNextHeaderL, skipped
<1>7. CASE skipped < Len(queue)
  <2>1. /\ current' = m /\ ctx' = m
        /\ \/ OpensEntry(m, q) \/ OpenFindsNoRecipient(m, q)
           \/ OpenCannotChange(m, q) \/ OpenCannotRead(m, q)
    BY <1>2, <1>7 DEF SendNextHeaderL, skipped, p, m, q
  <2>. QED BY <1>3, <1>4, <1>6, <1>7, <2>1, OpeningKeepsIInv
<1>8. CASE skipped = Len(queue)
  <2>1. /\ current' = NoMsg /\ progress' = z
        /\ ao' = RunsNext(ao, "Outbox", KErrNone)
        /\ ctx' = ctx \/ \E k \in passed : ctx' = queue[k]
        /\ UNCHANGED <<index, entry, hdr, send>>
    <3>1. ~(skipped < Len(queue))
      BY <1>2, <1>8
    <3>. QED BY <3>1, Zenon DEF SendNextHeaderL, skipped, p, z
  <2>2. ctx' \in Ids
    <3>1. \A k \in passed : queue[k] \in Msgs
      BY <1>1, <1>2, <1>8
    <3>. QED BY <2>1, <3>1 DEF IInv, Types, MemTypes, Ids
  <2>3. /\ ao \in TypedObjects /\ ao' \in TypedObjects
        /\ ao'["Send"] = ao["Send"] /\ ao'["Rcpt"] = ao["Rcpt"]
    BY <2>1, ObjectsChanged, ErrorsKnown DEF IInv, Types, WorkTypes, RunsNext, Objects,
       TypedObjects
  <2>4. ~ao'["Send"].active /\ ~ao'["Rcpt"].active
    BY <2>3, BelowIsAtRest DEF IInv
  <2>5. Types'
    BY <1>4, <1>6, <2>1, <2>2, <2>3 DEF IInv, Types, StoreTypes, MemTypes, WorkTypes,
       HistTypes, histVars, Ids
  <2>. QED BY <1>4, <2>1, <2>4, <2>5
           DEF Shape, SendingShape, SendShape, RcptShape, LogShape, LogStates
<1>. QED BY <1>2, <1>7, <1>8

-----------------------------------------------------------------------------
(* The outbox sender: its other steps                                      *)

\* The outbox sender answers: FailOutstandingMessages keeps the index typed.
LEMMA OutboxAnswersKeepsIInv ==
  ASSUME IInv, Done(ao, "Outbox"), NEW ix, TypedIndex(ix), NEW e \in Errors,
         OutboxAnswers(ix, e), TypedHeaders(header'), entry' \in EntryRec,
         TypedHeader(hdr'),
         UNCHANGED <<current, outVars, queue, send, rcptState, logRes, histVars>>
  PROVE  Types' /\ Shape'
<1> DEFINE err == IF progress.error = KErrNone THEN e ELSE progress.error
<1>1. /\ progress \in ProgressRec /\ ao \in TypedObjects /\ selection \subseteq Msgs
      /\ ctx \in Ids
  BY DEF IInv, Types, WorkTypes, MemTypes
<1>2. err \in Errors
  BY <1>1 DEF ProgressRec
<1>3. progress' \in ProgressRec /\ progress'.state = "Waiting"
  <2>1. progress' = [progress EXCEPT !.state = "Waiting", !.error = err]
    BY DEF OutboxAnswers
  <2>2. "Waiting" \in OutboxStates
    BY DEF OutboxStates
  <2> HIDE DEF err
  <2>. QED BY <1>1, <1>2, <2>1, <2>2 DEF ProgressRec
<1>4. TypedIndex(index')
  <2>1. index' \in {ix, FailOutstanding(ix, selection, err, "Failed")}
    BY DEF OutboxAnswers
  <2>2. "Failed" \in SendingStates
    BY DEF SendingStates
  <2> HIDE DEF err
  <2>. QED BY <1>2, <2>1, <2>2, FailOutstandingType DEF TypedIndex
<1>5. ctx' \in Ids
  BY <1>1 DEF OutboxAnswers, Ids
<1>6. /\ ao' \in TypedObjects /\ ~ao'["Send"].active /\ ~ao'["Rcpt"].active
  <2>1. ao' = Answers(ao, "Outbox", e)
    BY DEF OutboxAnswers
  <2>2. ~ao["Send"].active /\ ~ao["Rcpt"].active
    BY BelowIsAtRest DEF IInv
  <2>3. ao'["Send"] = ao["Send"] /\ ao'["Rcpt"] = ao["Rcpt"]
    BY <1>1, <2>1 DEF Answers, Parent, TypedObjects, Objects
  <2>. QED BY <1>1, <2>1, <2>2, <2>3, ObjectsChanged DEF Objects
<1>7. Types'
  BY <1>3, <1>4, <1>5, <1>6 DEF IInv, Types, StoreTypes, MemTypes, WorkTypes, HistTypes,
     histVars, outVars
<1>. QED BY <1>3, <1>6, <1>7 DEF Shape, SendingShape, SendShape, RcptShape, LogShape,
         LogStates

\* The outbox sender goes on, or waits for the logger.
LEMMA OutboxStepKeepsIInv ==
  ASSUME IInv, Done(ao, "Outbox"),
         \/ ao' = RunsNext(ao, "Outbox", KErrNone) \/ ao' = Awaits(ao, "Outbox"),
         StoreTypes', MemTypes', progress' \in ProgressRec,
         progress'.state # "Sending", LogShape',
         UNCHANGED <<current, outVars, queue, send, rcptState, logRes, histVars>>
  PROVE  Types' /\ Shape'
<1>1. ao \in TypedObjects
  BY DEF IInv, Types, WorkTypes
<1>2. ~ao["Send"].active /\ ~ao["Rcpt"].active
  BY BelowIsAtRest DEF IInv
<1>3. ao' \in TypedObjects
  BY <1>1, ObjectsChanged, ErrorsKnown DEF Objects
<1>4. ao'["Send"] = ao["Send"] /\ ao'["Rcpt"] = ao["Rcpt"]
  BY <1>1 DEF RunsNext, Awaits, TypedObjects, Objects
<1>5. Types'
  BY <1>3 DEF IInv, Types, WorkTypes, HistTypes, histVars, outVars
<1>. QED BY <1>2, <1>4, <1>5 DEF Shape, SendingShape, SendShape, RcptShape

\* Once sending has ended, either the header in memory is the current
\* message's or ReScheduleFailedMessageL will judge that message failed.
LEMMA JudgedTyped ==
  ASSUME IInv, Done(ao, "Outbox"), progress.state = "Sending"
  PROVE  /\ current \in Msgs /\ entry.id = current
         /\ JudgedEntry \in EntryRec /\ JudgedEntry.id = current
         /\ hdr.id = current \/ (JudgedEntry.failed /\ JudgedEntry.state # "Suspended")
<1>1. /\ current \in Msgs /\ entry.id = current /\ entry \in EntryRec
      /\ index[current] \in EntryRec /\ index[current].id = current
      /\ progress.error \in Errors
  BY DEF IInv, Types, StoreTypes, TypedIndex, MemTypes, WorkTypes, ProgressRec, Shape,
     SendingShape
<1> DEFINE e == IF ctx # entry.id THEN index[entry.id] ELSE entry
           f == [e EXCEPT !.failed = TRUE, !.err = progress.error]
<1>2. e \in EntryRec /\ e.id = current
  BY <1>1
<1>3. JudgedEntry = IF ~e.failed /\ progress.error # KErrNone THEN f ELSE e
  BY DEF JudgedEntry
<1>4. f \in EntryRec /\ f.id = current /\ f.failed = TRUE /\ f.state = e.state
  <2> HIDE DEF e
  <2>. QED BY <1>1, <1>2 DEF EntryRec
<1>5. ASSUME NotOpened PROVE JudgedEntry.failed /\ JudgedEntry.state # "Suspended"
  <2>1. ctx = current /\ progress.error # KErrNone /\ entry.state # "Suspended"
    BY <1>5, BelowIsAtRest DEF NotOpened, IInv
  <2>2. e = entry
    BY <1>1, <2>1
  <2> HIDE DEF e, f
  <2>3. CASE e.failed
    BY <1>3, <2>1, <2>2, <2>3
  <2>4. CASE ~e.failed
    BY <1>3, <1>4, <2>1, <2>2, <2>4
  <2>. QED BY <2>3, <2>4
<1>6. hdr.id = current \/ NotOpened
  BY DEF IInv, Shape, SendingShape
<1> HIDE DEF e, f
<1>. QED BY <1>1, <1>2, <1>3, <1>4, <1>5, <1>6

LEMMA OutboxSendingDoneKeepsIInv ==
  ASSUME IInv, OutboxSendingDone
  PROVE  Types' /\ Shape'
<1>1. Done(ao, "Outbox") /\ progress.state = "Sending"
  BY DEF OutboxSendingDone, OutboxRuns, Runnable, Done
<1>2. /\ current \in Msgs /\ entry.id = current /\ hdr.id = current
      /\ JudgedEntry \in EntryRec /\ JudgedEntry.id = current
  BY <1>1, JudgedTyped DEF OutboxSendingDone
<1>3. entry' \in EntryRec /\ entry'.id = current
  <2>1. entry' = [JudgedEntry EXCEPT !.scheduled = FALSE]
    BY DEF OutboxSendingDone
  <2>. QED BY <1>2, <2>1 DEF EntryRec
<1>4. progress' \in ProgressRec /\ progress'.state = "ReScheduling"
  <2>1. progress' = [progress EXCEPT !.state = "ReScheduling"]
    BY DEF OutboxSendingDone
  <2>2. progress \in ProgressRec /\ "ReScheduling" \in OutboxStates
    BY DEF IInv, Types, WorkTypes, OutboxStates
  <2>. QED BY <2>1, <2>2 DEF ProgressRec
<1>5. StoreTypes' /\ MemTypes'
  BY <1>2, <1>3 DEF OutboxSendingDone, IInv, Types, StoreTypes, MemTypes, storeVars, Ids
<1>6. LogShape'
  BY <1>2, <1>3 DEF OutboxSendingDone, LogShape
<1>. QED BY <1>1, <1>4, <1>5, <1>6, OutboxStepKeepsIInv DEF OutboxSendingDone


\* DoReScheduleL on the judged message, done or left at one of two places.
LEMMA OutboxReSchedulesKeepsIInv ==
  ASSUME IInv, OutboxReSchedules
  PROVE  Types' /\ Shape'
<1> DEFINE m   == entry.id
           act == ListedActions(header[m])
           ix  == [index EXCEPT ![m] = ReScheduledEntry(@, header[m], act)]
           hs  == [header EXCEPT ![m] = ReScheduledRecipients(@, act)]
<1>1. Done(ao, "Outbox") /\ progress.state = "Sending"
  BY DEF OutboxReSchedules, OutboxRuns, Runnable, Done
<1>2. m \in Msgs /\ m = current /\ JudgedEntry \in EntryRec
  BY <1>1, JudgedTyped
<1>3. TypedIndex(index) /\ TypedHeaders(header) /\ TypedHeader(hdr)
  BY DEF IInv, Types, StoreTypes, MemTypes
<1>4. /\ ReScheduledEntry(index[m], header[m], act) \in EntryRec
      /\ ReScheduledEntry(index[m], header[m], act).id = m
      /\ ReScheduledRecipients(header[m], act) \in Rcpts(m)
  <2>1. index[m] \in EntryRec /\ index[m].id = m /\ header[m] \in Rcpts(m)
    BY <1>2, <1>3 DEF TypedIndex, TypedHeaders
  <2> HIDE DEF m, act
  <2>. QED BY <1>2, <2>1, ReScheduledEntryType, ReScheduledRecipientsType
<1>5. /\ TypedIndex(ix) /\ ix[m] \in EntryRec /\ ix[m].id = m
      /\ TypedHeaders(hs) /\ TypedHeader(HeaderOf(hs, m)) /\ HeaderOf(hs, m).id = m
  <2>1. TypedHeaders(hs)
    <3> HIDE DEF m, act
    <3>. QED BY <1>2, <1>3, <1>4, HeaderStored
  <2>2. TypedIndex(ix) /\ ix[m] \in EntryRec /\ ix[m].id = m
    <3> HIDE DEF m, act
    <3>. QED BY <1>2, <1>3, <1>4, IndexWritten
  <2> HIDE DEF hs, ix, m
  <2>. QED BY <1>2, <2>1, <2>2, HeaderRead DEF Ids
<1>6. UNCHANGED <<current, outVars, queue, send, rcptState, logRes, histVars>>
  BY DEF OutboxReSchedules
<1>7. \/ /\ index' = ix /\ header' = hs
         /\ ctx' = m /\ entry' = ix[m] /\ hdr' = HeaderOf(hs, m)
         /\ progress' = [progress EXCEPT !.state = "ReScheduling"]
         /\ ao' = RunsNext(ao, "Outbox", KErrNone)
      \/ \E e \in StoreErrors :
           OutboxAnswers(index, e) /\ entry' = JudgedEntry /\ header' = header /\ hdr' = hdr
      \/ \E e \in StoreErrors :
           OutboxAnswers(ix, e) /\ entry' = ix[m] /\ header' = hs /\ hdr' \in HalfRead
  BY DEF OutboxReSchedules
<1> HIDE DEF ix, hs, act, m
<1>8. CASE /\ index' = ix /\ header' = hs
           /\ ctx' = m /\ entry' = ix[m] /\ hdr' = HeaderOf(hs, m)
           /\ progress' = [progress EXCEPT !.state = "ReScheduling"]
           /\ ao' = RunsNext(ao, "Outbox", KErrNone)
  <2>1. progress' \in ProgressRec /\ progress'.state = "ReScheduling"
    <3>1. progress \in ProgressRec /\ "ReScheduling" \in OutboxStates
      BY DEF IInv, Types, WorkTypes, OutboxStates
    <3>. QED BY <1>8, <3>1 DEF ProgressRec
  <2>2. StoreTypes' /\ MemTypes'
    BY <1>2, <1>5, <1>8 DEF StoreTypes, MemTypes, Ids
  <2>3. LogShape'
    BY <1>2, <1>5, <1>6, <1>8 DEF LogShape
  <2>. QED BY <1>1, <1>6, <1>8, <2>1, <2>2, <2>3, OutboxStepKeepsIInv
<1>9. ASSUME NEW e \in StoreErrors, OutboxAnswers(index, e),
             entry' = JudgedEntry, header' = header, hdr' = hdr
      PROVE  Types' /\ Shape'
  BY <1>1, <1>2, <1>3, <1>6, <1>9, ErrorsKnown, OutboxAnswersKeepsIInv
<1>10. ASSUME NEW e \in StoreErrors, OutboxAnswers(ix, e),
              entry' = ix[m], header' = hs, hdr' \in HalfRead
       PROVE  Types' /\ Shape'
  <2>1. TypedHeader(hdr')
    BY <1>3, <1>10 DEF HalfRead, TypedHeader
  <2>. QED BY <1>1, <1>5, <1>6, <1>10, <2>1, ErrorsKnown, OutboxAnswersKeepsIInv
<1>. QED BY <1>7, <1>8, <1>9, <1>10

\* LogEntry goes to another state and another recipient.
LogsTo(p, s, d, q) == \/ q = [p EXCEPT !.state = s, !.rcpDone = d]
                      \/ q = [p EXCEPT !.rcpDone = d, !.state = s]

LEMMA ProgressLogs ==
  ASSUME NEW p \in ProgressRec, NEW s \in OutboxStates, NEW d \in Int, NEW q,
         LogsTo(p, s, d, q)
  PROVE  q \in ProgressRec /\ q.state = s
<1>1. CASE q = [p EXCEPT !.state = s, !.rcpDone = d]
  BY <1>1 DEF ProgressRec
<1>2. CASE q = [p EXCEPT !.rcpDone = d, !.state = s]
  BY <1>2 DEF ProgressRec
<1>. QED BY <1>1, <1>2 DEF LogsTo

\* Writing the log of a message stays with that message.
LEMMA LogEntryKeepsIInv ==
  ASSUME IInv, Done(ao, "Outbox"), NEW p \in ProgressRec, NEW rs, NEW from \in Int,
         LogEntry(p, rs, from), TypedHeader(hdr'),
         progress.state \in LogStates \cup {"ReScheduling", "LogEntryComplete"},
         hdr'.id = hdr.id, UNCHANGED <<storeVars, ctx, entry>>,
         UNCHANGED <<current, outVars, queue, send, rcptState, logRes, histVars>>
  PROVE  Types' /\ Shape'
<1> DEFINE toLog == {i \in 0 .. p.rcpCount - 1 : CanLogRecipient(rs[i + 1])}
           next  == FirstFrom(from + 1, p.rcpCount, toLog)
<1>1. next \in Int
  <2>1. from + 1 \in Int /\ p.rcpCount \in Int
    BY DEF ProgressRec
  <2> HIDE DEF toLog
  <2>. QED BY <2>1, FirstFromRange
<1> HIDE DEF next
<1>2. \/ LogsTo(p, "LogEntryComplete", from + 1, progress')
      \/ LogsTo(p, "LogEntryComplete", next, progress')
      \/ LogsTo(p, "GetLogEvent", next, progress')
      \/ LogsTo(p, "AddLogEvent", next, progress')
  BY DEF LogEntry, LogsTo, next
<1>3. progress' \in ProgressRec /\ progress'.state \in LogStates \cup {"LogEntryComplete"}
  <2>1. {"LogEntryComplete", "GetLogEvent", "AddLogEvent"} \subseteq OutboxStates
    BY DEF OutboxStates
  <2>2. from + 1 \in Int
    OBVIOUS
  <2>. QED BY <1>1, <1>2, <2>1, <2>2, ProgressLogs DEF LogStates
<1>4. ao' = RunsNext(ao, "Outbox", KErrNone) \/ ao' = Awaits(ao, "Outbox")
  BY DEF LogEntry
<1>5. StoreTypes' /\ MemTypes'
  BY DEF IInv, Types, StoreTypes, MemTypes, storeVars
<1>6. LogShape'
  BY DEF IInv, Shape, LogShape
<1>. QED BY <1>3, <1>4, <1>5, <1>6, OutboxStepKeepsIInv DEF LogStates


\* The logging of a message, from the first recipient to the last.
LEMMA OutboxLogsKeepsIInv ==
  ASSUME IInv, OutboxReScheduled \/ OutboxGotLogEvent \/ OutboxWroteLogEvent
  PROVE  Types' /\ Shape'
<1>1. /\ Done(ao, "Outbox")
      /\ progress.state \in LogStates \cup {"ReScheduling", "LogEntryComplete"}
  BY DEF OutboxReScheduled, OutboxGotLogEvent, OutboxWroteLogEvent, OutboxRuns, Runnable,
     Done, LogStates
<1>2. current \in Msgs /\ hdr.id = current /\ RcpCount[current] \in Nat
  BY <1>1, StoreAssumption DEF IInv, Shape, LogShape
<1>3. /\ progress \in ProgressRec /\ progress.rcpDone \in Int /\ TypedHeader(hdr)
  BY DEF IInv, Types, WorkTypes, MemTypes, ProgressRec
<1>4. /\ UNCHANGED <<storeVars, ctx, entry>>
      /\ UNCHANGED <<current, outVars, queue, send, rcptState, logRes, histVars>>
  BY DEF OutboxReScheduled, OutboxGotLogEvent, OutboxWroteLogEvent
<1>5. CASE OutboxReScheduled
  <2> DEFINE p == [progress EXCEPT !.rcpCount = RcpCount[hdr.id]]
  <2>1. p \in ProgressRec
    BY <1>2, <1>3 DEF ProgressRec
  <2>2. LogEntry(p, hdr.rcpts, -1) /\ hdr' = hdr
    BY <1>5 DEF OutboxReScheduled
  <2>3. -1 \in Int
    OBVIOUS
  <2> HIDE DEF p
  <2>. QED BY <1>1, <1>3, <1>4, <2>1, <2>2, <2>3, LogEntryKeepsIInv
<1>6. CASE OutboxGotLogEvent
  <2>1. hdr' = hdr
    BY <1>6 DEF OutboxGotLogEvent
  <2>2. CASE LogEntry(progress, hdr.rcpts, progress.rcpDone)
    BY <1>1, <1>3, <1>4, <2>1, <2>2, LogEntryKeepsIInv
  <2>3. CASE /\ progress' = [progress EXCEPT !.state = IF logRes = KErrNone
                                          THEN "ChangeLogEvent" ELSE "AddLogEvent"]
             /\ ao' = Awaits(ao, "Outbox")
    <3>1. \E s \in {"ChangeLogEvent", "AddLogEvent"} :
            progress' = [progress EXCEPT !.state = s]
      BY <2>3
    <3>2. progress' \in ProgressRec /\ progress'.state \in LogStates
      <4>1. {"ChangeLogEvent", "AddLogEvent"} \subseteq OutboxStates \cap LogStates
        BY DEF OutboxStates, LogStates
      <4>. QED BY <1>3, <3>1, <4>1 DEF ProgressRec
    <3>3. StoreTypes' /\ MemTypes'
      BY <1>4, <2>1 DEF IInv, Types, StoreTypes, MemTypes, storeVars
    <3>4. LogShape'
      BY <1>1, <1>4, <2>1 DEF IInv, Shape, LogShape
    <3>. QED BY <1>1, <1>4, <2>3, <3>2, <3>3, <3>4, OutboxStepKeepsIInv DEF LogStates
  <2>. QED BY <1>6, <2>2, <2>3 DEF OutboxGotLogEvent
<1>7. CASE OutboxWroteLogEvent
  <2> DEFINE b  == logRes = KErrNone
             rs == [hdr.rcpts EXCEPT ![progress.rcpDone + 1].log = b]
  <2>1. rs \in Rcpts(hdr.id)
    <3>1. hdr.rcpts \in Rcpts(hdr.id) /\ hdr.id \in Msgs /\ b \in BOOLEAN
      BY <1>2, <1>3, HeaderRecipients
    <3> HIDE DEF b
    <3>. QED BY <3>1, LogIdChanged
  <2>2. hdr' = hdr \/ hdr' = [hdr EXCEPT !.rcpts = rs]
    BY <1>7 DEF OutboxWroteLogEvent
  <2> HIDE DEF rs
  <2>3. TypedHeader(hdr') /\ hdr'.id = hdr.id
    <3>1. /\ TypedHeader([hdr EXCEPT !.rcpts = rs])
          /\ [hdr EXCEPT !.rcpts = rs].id = hdr.id
      BY <1>2, <1>3, <2>1, RecipientsChanged
    <3>. QED BY <1>3, <2>2, <3>1
  <2>4. LogEntry(progress, hdr'.rcpts, progress.rcpDone)
    BY <1>7 DEF OutboxWroteLogEvent
  <2>. QED BY <1>1, <1>3, <1>4, <2>3, <2>4, LogEntryKeepsIInv
<1>. QED BY <1>5, <1>6, <1>7


\* MoveEntryL: the entry of the current message is written, whether or not
\* the message is moved; an unsent one has its header stored as well.
LEMMA OutboxMovesKeepsIInv ==
  ASSUME IInv, OutboxMovesSent \/ OutboxKeepsUnsent
  PROVE  Types' /\ Shape'
<1> DEFINE m    == entry.id
           sent == [entry EXCEPT !.connected = FALSE, !.failed = FALSE, !.state = "Sent"]
           gone == [sent EXCEPT !.folder = "Sent"]
           hs   == [header EXCEPT ![m] = hdr.rcpts]
<1>1. Done(ao, "Outbox") /\ progress.state = "LogEntryComplete"
  BY DEF OutboxMovesSent, OutboxKeepsUnsent, OutboxRuns, Runnable, Done
<1>2. m = current /\ m \in Msgs /\ hdr.id = m
  BY <1>1 DEF IInv, Shape, LogShape
<1>3. /\ TypedIndex(index) /\ TypedHeaders(header) /\ TypedHeader(hdr)
      /\ entry \in EntryRec /\ progress \in ProgressRec
  BY DEF IInv, Types, StoreTypes, MemTypes, WorkTypes
<1>4. /\ sent \in EntryRec /\ sent.id = m /\ gone \in EntryRec /\ gone.id = m
  BY <1>3 DEF EntryRec, SendingStates
<1>5. TypedHeaders(hs)
  <2>1. hdr.rcpts \in Rcpts(m)
    BY <1>2, <1>3, HeaderRecipients
  <2> HIDE DEF m
  <2>. QED BY <1>2, <1>3, <2>1, HeaderStored
<1>6. /\ TypedIndex([index EXCEPT ![m] = sent]) /\ TypedIndex([index EXCEPT ![m] = gone])
      /\ TypedIndex([index EXCEPT ![m] = entry])
  <2> HIDE DEF sent, gone
  <2>. QED BY <1>2, <1>3, <1>4, IndexWritten
<1>7. UNCHANGED <<hdr, current, outVars, queue, send, rcptState, logRes, histVars>>
  BY DEF OutboxMovesSent, OutboxKeepsUnsent, memVars
<1>8. \/ /\ entry' \in {sent, gone, entry} /\ index' = [index EXCEPT ![m] = entry']
         /\ header' \in {header, hs} /\ ctx' = ctx
         /\ progress' = [progress EXCEPT !.state = "MovingEntry"]
         /\ ao' = RunsNext(ao, "Outbox", KErrNone)
      \/ \E e \in StoreErrors :
           /\ \/ OutboxAnswers(index, e) \/ OutboxAnswers([index EXCEPT ![m] = sent], e)
           /\ entry' \in {sent, entry} /\ header' \in {header, hs}
  <2>1. CASE OutboxMovesSent
    BY <2>1 DEF OutboxMovesSent
  <2>2. CASE OutboxKeepsUnsent
    BY <2>2 DEF OutboxKeepsUnsent, memVars
  <2>. QED BY <2>1, <2>2
<1> HIDE DEF sent, gone, hs, m
<1>9. TypedHeaders(header') /\ TypedHeader(hdr') /\ entry' \in EntryRec /\ entry'.id = m
  BY <1>3, <1>4, <1>5, <1>7, <1>8 DEF m
<1>10. CASE /\ entry' \in {sent, gone, entry} /\ index' = [index EXCEPT ![m] = entry']
            /\ ctx' = ctx
            /\ progress' = [progress EXCEPT !.state = "MovingEntry"]
            /\ ao' = RunsNext(ao, "Outbox", KErrNone)
  <2>1. progress' \in ProgressRec /\ progress'.state = "MovingEntry"
    <3>1. "MovingEntry" \in OutboxStates
      BY DEF OutboxStates
    <3>. QED BY <1>3, <1>10, <3>1 DEF ProgressRec
  <2>2. StoreTypes' /\ MemTypes'
    BY <1>6, <1>9, <1>10 DEF StoreTypes, MemTypes, IInv, Types
  <2>3. LogShape'
    BY <2>1 DEF LogShape, LogStates
  <2>. QED BY <1>1, <1>7, <1>10, <2>1, <2>2, <2>3, OutboxStepKeepsIInv
<1>11. ASSUME NEW e \in StoreErrors,
              OutboxAnswers(index, e) \/ OutboxAnswers([index EXCEPT ![m] = sent], e)
       PROVE  Types' /\ Shape'
  BY <1>1, <1>3, <1>6, <1>7, <1>9, <1>11, ErrorsKnown, OutboxAnswersKeepsIInv
<1>. QED BY <1>8, <1>10, <1>11

LEMMA OutboxRunLKeepsIInv == IInv /\ OutboxRunL => Types' /\ Shape'
<1> SUFFICES ASSUME IInv, OutboxRunL PROVE Types' /\ Shape'
  OBVIOUS
<1>1. Done(ao, "Outbox")
  BY DEF OutboxRunL, OutboxFails, OutboxSendsNext, OutboxCompletes, OutboxMessageDeleted,
         OutboxSendingDone, OutboxReSchedules, OutboxReScheduled, OutboxGotLogEvent,
         OutboxWroteLogEvent, OutboxMovesSent, OutboxKeepsUnsent, OutboxRuns, Runnable,
         Done
<1>2. CASE OutboxSendsNext \/ OutboxMessageDeleted
  BY <1>1, <1>2, SendNextHeaderKeepsIInv DEF OutboxSendsNext, OutboxMessageDeleted
<1>3. CASE OutboxFails \/ OutboxCompletes
  <2>1. ao["Outbox"].status \in Errors /\ KErrNone \in Errors
    BY <1>1, ErrorsKnown DEF IInv, Types, WorkTypes, TypedObjects, Objects, Done
  <2>2. /\ TypedIndex(index) /\ TypedHeaders(header) /\ entry \in EntryRec
        /\ TypedHeader(hdr)
    BY DEF IInv, Types, StoreTypes, MemTypes
  <2>3. \E e \in Errors : OutboxAnswers(index, e)
    BY <1>3, <2>1 DEF OutboxFails, OutboxCompletes
  <2>4. /\ header' = header /\ entry' = entry /\ hdr' = hdr
        /\ UNCHANGED <<current, outVars, queue, send, rcptState, logRes, histVars>>
    BY <1>3 DEF OutboxFails, OutboxCompletes, memVars
  <2>. QED BY <1>1, <2>2, <2>3, <2>4, OutboxAnswersKeepsIInv
<1>. QED BY <1>2, <1>3, OutboxSendingDoneKeepsIInv, OutboxReSchedulesKeepsIInv,
         OutboxLogsKeepsIInv, OutboxMovesKeepsIInv DEF OutboxRunL

-----------------------------------------------------------------------------
(* CSmsSendSession and CSmsSend                                            *)

LEMMA SessionRunsKeepsIInv == IInv /\ SessionRuns => Types' /\ Shape'
<1> SUFFICES ASSUME IInv, SessionRuns PROVE Types' /\ Shape'
  OBVIOUS
<1>1. Done(ao, "Session") /\ progress.state = "Sending"
  BY BelowIsAtRest DEF SessionRuns, Runnable, Done, IInv
<1>2. ~ao["Send"].active /\ ~ao["Rcpt"].active
  BY <1>1, BelowIsAtRest DEF IInv
<1>3. progress \in ProgressRec /\ ao \in TypedObjects /\ ao["Session"].status \in Errors
  BY <1>1 DEF IInv, Types, WorkTypes, TypedObjects, Objects, Done
<1>4. /\ progress' \in ProgressRec /\ progress'.state = "Sending"
      /\ progress.error # KErrNone => progress'.error # KErrNone
  BY <1>1, <1>3 DEF SessionRuns, ProgressRec
<1>5. /\ ao' \in TypedObjects
      /\ ao'["Send"] = ao["Send"] /\ ao'["Rcpt"] = ao["Rcpt"]
  <2>1. ao' = Answers(ao, "Session", KErrNone)
    BY DEF SessionRuns
  <2>2. ao'["Send"] = ao["Send"] /\ ao'["Rcpt"] = ao["Rcpt"]
    BY <1>3, <2>1 DEF Answers, Parent, TypedObjects, Objects
  <2>. QED BY <1>3, <2>1, <2>2, ObjectsChanged, ErrorsKnown DEF Objects
<1>6. UNCHANGED <<storeVars, ctx, memVars, current, outVars, queue, send, rcptState,
                  logRes, histVars>>
  BY DEF SessionRuns
<1>7. Types'
  BY <1>4, <1>5, <1>6 DEF IInv, Types, StoreTypes, MemTypes, WorkTypes, HistTypes,
     storeVars, memVars, outVars, histVars
<1>8. NotOpened => NotOpened'
  BY <1>2, <1>4, <1>5, <1>6 DEF NotOpened, Exists, storeVars, memVars
<1>9. SendingShape'
  BY <1>1, <1>6, <1>8 DEF IInv, Shape, SendingShape, memVars
<1>. QED BY <1>2, <1>4, <1>5, <1>7, <1>9
         DEF Shape, SendShape, RcptShape, LogShape, LogStates

\* CSmsSend answers: the message in memory is still the current one, or it
\* could not be opened.
LEMMA SendAnswersKeepsIInv ==
  ASSUME IInv, Done(ao, "Send"), NEW s, TypedSnapshot(s), Becomes(s),
         ao' = Answers(ao, "Send", KErrNone), TypedHeaders(header'), TypedHeader(hdr'),
         current \in Msgs, s.entry.id = current, s.progress.state = "Sending",
         \/ hdr'.id = current
         \/ /\ s.ctx = current /\ s.index[current].folder # "None"
            /\ CanSendMessage(s.index[current])
            /\ s.progress.error # KErrNone /\ s.entry.state # "Suspended",
         UNCHANGED <<current, outVars, queue, rcptState, logRes, histVars>>
  PROVE  Types' /\ Shape'
<1>1. /\ TypedIndex(index') /\ entry' \in EntryRec /\ progress' \in ProgressRec
      /\ send' \in SendRec /\ ctx' \in Ids
      /\ entry'.id = current /\ progress'.state = "Sending"
  BY DEF TypedSnapshot, Becomes
<1>2. /\ ao \in TypedObjects /\ ~ao["Rcpt"].active
  BY BelowIsAtRest DEF IInv, Types, WorkTypes
<1>3. /\ ao' \in TypedObjects
      /\ ao'["Send"] = IdleObject /\ ao'["Rcpt"] = ao["Rcpt"]
  <2>1. ao' \in TypedObjects
    BY <1>2, ObjectsChanged, ErrorsKnown DEF Objects
  <2>. QED BY <1>2, <2>1 DEF Answers, Parent, TypedObjects, Objects
<1>4. ~ao'["Send"].active /\ ~ao'["Rcpt"].active
  BY <1>2, <1>3, IdleFields
<1>5. Types'
  BY <1>1, <1>3 DEF IInv, Types, StoreTypes, MemTypes, WorkTypes, HistTypes, histVars,
     outVars
<1>6. hdr'.id = current \/ NotOpened'
  BY <1>4, StoreAssumption DEF NotOpened, Exists, Becomes
<1>. QED BY <1>1, <1>4, <1>5, <1>6
         DEF Shape, SendingShape, SendShape, RcptShape, LogShape, LogStates

\* The state of CSmsSend, as a snapshot.
LEMMA SnapshotNow ==
  ASSUME IInv
  PROVE  /\ TypedSnapshot(Snapshot(index, entry, progress, send, ctx))
         /\ Snapshot(index, entry, progress, send, ctx).index = index
         /\ Snapshot(index, entry, progress, send, ctx).entry = entry
         /\ Snapshot(index, entry, progress, send, ctx).progress = progress
BY SnapshotTyped DEF IInv, Types, StoreTypes, MemTypes, WorkTypes

LEMMA StoresType == Stores \subseteq BOOLEAN
BY DEF Stores

\* CSmsSend could not open the message, or the request was cancelled.
LEMMA SendFailsKeepsIInv ==
  ASSUME IInv, SendFails
  PROVE  Types' /\ Shape'
<1> DEFINE s0 == Snapshot(index, entry, progress, send, ctx)
           e  == ao["Send"].status
<1>1. Done(ao, "Send") /\ e # KErrNone /\ progress.state = "Sending"
  BY BelowIsAtRest DEF SendFails, Runnable, Done, IInv
<1>2. e \in Errors
  BY <1>1 DEF IInv, Types, WorkTypes, TypedObjects, Objects, Done
<1>3. /\ current \in Msgs /\ entry.id = current
      /\ hdr.id = current \/ NotOpened
  BY <1>1 DEF IInv, Shape, SendingShape
<1>4. PICK st \in BOOLEAN : Becomes(SendCompleted(s0, e, st))
  BY StoresType DEF SendFails
<1>5. /\ TypedSnapshot(s0) /\ s0.entry = entry /\ s0.progress = progress /\ s0.index = index
  BY SnapshotNow
<1> DEFINE r == SendCompleted(s0, e, st)
<1> HIDE DEF s0
<1>6. /\ TypedSnapshot(r) /\ r.entry.id = current /\ r.progress.state = "Sending"
      /\ r.progress.error = e
      /\ index[current].folder # "None" =>
           /\ r.ctx = current /\ r.index[current].folder # "None"
           /\ e \notin {KErrNone, KErrCancel} =>
                /\ r.index[current].state = index[current].state
                /\ r.entry.state = index[current].state
  <2>1. /\ TypedSnapshot(r) /\ r.entry.id = s0.entry.id
        /\ r.progress.state = s0.progress.state /\ r.progress.error = e
        /\ s0.entry.id \in Msgs /\ s0.index[s0.entry.id].folder # "None" =>
             /\ r.ctx = s0.entry.id
             /\ r.index[s0.entry.id].folder # "None"
             /\ e \notin {KErrNone, KErrCancel} =>
                  /\ r.index[s0.entry.id].state = s0.index[s0.entry.id].state
                  /\ r.entry.state = s0.index[s0.entry.id].state
    <3> HIDE DEF e
    <3>. QED BY <1>2, <1>5, SendCompletedTyped, Zenon
  <2> HIDE DEF r, e
  <2>. QED BY <1>1, <1>3, <1>5, <2>1
<1> HIDE DEF r
<1>7. \/ hdr.id = current
      \/ /\ r.ctx = current /\ r.index[current].folder # "None"
         /\ CanSendMessage(r.index[current])
         /\ r.progress.error # KErrNone /\ r.entry.state # "Suspended"
  <2>1. CASE hdr.id = current
    BY <2>1
  <2>2. CASE NotOpened
    <3>1. /\ index[current].folder # "None" /\ CanSendMessage(index[current])
          /\ e \notin {KErrNone, KErrCancel}
      BY <1>1, <2>2 DEF NotOpened, Exists, Done
    <3>. QED BY <1>1, <1>6, <3>1 DEF CanSendMessage
  <2>. QED BY <1>3, <2>1, <2>2
<1>8. /\ ao' = Answers(ao, "Send", KErrNone) /\ header' = header /\ hdr' = hdr
      /\ UNCHANGED <<current, outVars, queue, rcptState, logRes, histVars>>
  BY DEF SendFails
<1>9. TypedHeaders(header) /\ TypedHeader(hdr)
  BY DEF IInv, Types, StoreTypes, MemTypes
<1>10. Becomes(r)
  BY <1>4 DEF r
<1>. QED BY <1>1, <1>3, <1>6, <1>7, <1>8, <1>9, <1>10, SendAnswersKeepsIInv


\* CSmsSend completes with an error on a message it had opened.
LEMMA SendCompletesKeepsIInv ==
  ASSUME IInv, Done(ao, "Send"), NEW s, TypedSnapshot(s), NEW e \in Errors,
         NEW st \in BOOLEAN, Becomes(SendCompleted(s, e, st)),
         ao' = Answers(ao, "Send", KErrNone), TypedHeaders(header'), TypedHeader(hdr'),
         current \in Msgs, s.entry.id = current, s.progress.state = "Sending",
         hdr'.id = current,
         UNCHANGED <<current, outVars, queue, rcptState, logRes, histVars>>
  PROVE  Types' /\ Shape'
<1> DEFINE r == SendCompleted(s, e, st)
<1>1. TypedSnapshot(r) /\ r.entry.id = s.entry.id /\ r.progress.state = s.progress.state
  BY SendCompletedTyped, Zenon
<1>2. Becomes(r)
  OBVIOUS
<1> HIDE DEF r
<1>. QED BY <1>1, <1>2, SendAnswersKeepsIInv

\* While CSmsSend runs without an error, it has opened the current message.
LEMMA SendRunsOpened ==
  ASSUME IInv, NEW states, SendRuns(states)
  PROVE  /\ Done(ao, "Send") /\ Opened /\ progress.state = "Sending"
         /\ ~ao["Rcpt"].active
         /\ RcpCount[current] \in Nat /\ progress.rcpDone \in Int
         /\ progress.rcpCount \in Int
<1>1. Done(ao, "Send") /\ ao["Send"].status = KErrNone
  BY DEF SendRuns, Runnable, Done
<1>2. Opened
  BY <1>1 DEF IInv, Shape, SendShape, Done
<1>3. progress.state = "Sending" /\ ~ao["Rcpt"].active
  BY <1>1, BelowIsAtRest DEF IInv, Done
<1>4. RcpCount[current] \in Nat /\ progress \in ProgressRec
  BY <1>2, StoreAssumption DEF Opened, IInv, Types, WorkTypes
<1>. QED BY <1>1, <1>2, <1>3, <1>4 DEF ProgressRec

\* The number of the recipient that has been dealt with.
LEMMA ProgressDone ==
  ASSUME NEW p \in ProgressRec, NEW d \in Int
  PROVE  /\ [p EXCEPT !.rcpDone = d] \in ProgressRec
         /\ [p EXCEPT !.rcpDone = d].state = p.state
         /\ [p EXCEPT !.rcpDone = d].rcpDone = d
         /\ [p EXCEPT !.rcpDone = d].rcpCount = p.rcpCount
BY DEF ProgressRec

LEMMA SendNextRecipientKeepsIInv ==
  ASSUME IInv, SendNextRecipient
  PROVE  Types' /\ Shape'
<1>1. /\ Done(ao, "Send") /\ Opened /\ progress.state = "Sending"
      /\ RcpCount[current] \in Nat /\ progress.rcpDone \in Int /\ progress.rcpCount \in Int
  BY SendRunsOpened DEF SendNextRecipient
<1>2. NextRecipient \in 0 .. progress.rcpCount - 1 /\ NextRecipient \in Int
  <2> DEFINE able == {i \in 0 .. progress.rcpCount - 1 :
                        CanSendMessageToRecipient(entry, hdr.rcpts[i + 1])}
  <2>1. NextRecipient = FirstFrom(progress.rcpDone, progress.rcpCount, able)
    BY DEF NextRecipient
  <2>2. NextRecipient < progress.rcpCount /\ progress.rcpDone >= 0
    BY <1>1 DEF SendNextRecipient, Opened
  <2> HIDE DEF able
  <2>. QED BY <1>1, <2>1, <2>2, FirstFromRange
<1>3. /\ progress' \in ProgressRec /\ progress'.state = "Sending"
      /\ progress'.rcpDone = NextRecipient /\ progress'.rcpCount = progress.rcpCount
  <2> DEFINE d == NextRecipient
  <2>1. progress' = [progress EXCEPT !.rcpDone = d]
    BY DEF SendNextRecipient
  <2>2. progress \in ProgressRec /\ d \in Int
    BY <1>2 DEF IInv, Types, WorkTypes
  <2> HIDE DEF d
  <2>3. progress' \in ProgressRec /\ progress'.state = progress.state /\ progress'.rcpDone = d
        /\ progress'.rcpCount = progress.rcpCount
    BY <2>1, <2>2 DEF ProgressRec
  <2>. QED BY <1>1, <2>3 DEF d
<1>4. send' \in SendRec /\ send'.state = "SendingEntry"
  <2>1. send' = [send EXCEPT !.state = "SendingEntry"] /\ send \in SendRec
    BY DEF SendNextRecipient, IInv, Types, WorkTypes
  <2>. QED BY <2>1 DEF SendRec, SendStates
<1>5. ao' \in TypedObjects /\ ao'["Send"].status = KRequestPending
  <2>1. ao' = Awaits(Awaits(ao, "Send"), "Rcpt") /\ ao \in TypedObjects
    BY DEF SendNextRecipient, IInv, Types, WorkTypes
  <2>2. ao' \in TypedObjects
    BY <2>1, ObjectsChanged, ErrorsKnown DEF Objects
  <2>. QED BY <2>1, <2>2 DEF Awaits, TypedObjects, Objects
<1>6. /\ rcptState' \in RcptStates /\ ctx' \in Ids
      /\ UNCHANGED <<storeVars, memVars, current, outVars, queue, logRes, histVars>>
  BY DEF SendNextRecipient, RcptStates, Ids
<1>7. Types'
  BY <1>3, <1>4, <1>5, <1>6 DEF IInv, Types, StoreTypes, MemTypes, WorkTypes, HistTypes,
     storeVars, memVars, outVars, histVars
<1>8. Opened'
  BY <1>1, <1>2, <1>3, <1>4, <1>6 DEF Opened, memVars
<1>. QED BY <1>3, <1>4, <1>5, <1>7, <1>8 DEF Opened, Shape, SendingShape, SendShape,
         RcptShape, LogShape, LogStates

\* UpdateAfterRecipientSentL finds that the message has been deleted.
LEMMA SendFindsDeletedKeepsIInv ==
  ASSUME IInv, SendFindsDeleted
  PROVE  Types' /\ Shape'
<1> DEFINE p == [progress EXCEPT !.rcpDone = @ + 1]
           s == Snapshot(index, entry, p, send, ctx)
<1>1. /\ Done(ao, "Send") /\ Opened /\ progress.state = "Sending"
      /\ progress.rcpDone \in Int
  BY SendRunsOpened DEF SendFindsDeleted
<1>2. p \in ProgressRec /\ p.state = "Sending"
  <2>1. progress \in ProgressRec /\ progress.rcpDone + 1 \in Int
    BY <1>1 DEF IInv, Types, WorkTypes
  <2>. QED BY <1>1, <2>1 DEF ProgressRec
<1> HIDE DEF p
<1>3. TypedSnapshot(s) /\ s.entry = entry /\ s.progress = p
  BY <1>2, SnapshotTyped DEF IInv, Types, StoreTypes, MemTypes, WorkTypes
<1>4. Becomes(SendCompleted(s, KErrNotFound, TRUE))
  BY DEF SendFindsDeleted, p
<1>5. /\ ao' = Answers(ao, "Send", KErrNone) /\ header' = header /\ hdr' = hdr
      /\ UNCHANGED <<current, outVars, queue, rcptState, logRes, histVars>>
  BY DEF SendFindsDeleted
<1>6. TypedHeaders(header') /\ TypedHeader(hdr')
  BY <1>5 DEF IInv, Types, StoreTypes, MemTypes
<1>7. current \in Msgs /\ entry.id = current /\ hdr'.id = current
  BY <1>1, <1>5 DEF Opened
<1>8. KErrNotFound \in Errors /\ TRUE \in BOOLEAN
  BY ErrorsKnown
<1> HIDE DEF s
<1>. QED BY <1>1, <1>2, <1>3, <1>4, <1>5, <1>6, <1>7, <1>8, SendCompletesKeepsIInv


\* UpdateEntryAfterAllSentL, and its ChangeEntryL done or left.
LEMMA SendAllTriedKeepsIInv ==
  ASSUME IInv, SendAllTried
  PROVE  Types' /\ Shape'
<1> DEFINE done == EntryAfterAllSent(entry, send, progress.rcpCount)
           err  == IF progress.error = KErrNone THEN send.failedStatus ELSE progress.error
           p1   == [progress EXCEPT !.rcpDone = progress.rcpCount, !.error = err]
           p2   == [progress EXCEPT !.rcpDone = progress.rcpCount]
           sn1  == [send EXCEPT !.state = "Waiting", !.failedStatus = KErrNone]
           sn2  == [send EXCEPT !.failedStatus = KErrNone]
           ix   == [index EXCEPT ![entry.id] = done]
           s1   == Snapshot(ix, done, p1, sn1, ctx)
           s2   == Snapshot(index, entry, p2, sn2, ctx)
<1>1. /\ Done(ao, "Send") /\ Opened /\ progress.state = "Sending"
      /\ progress.rcpCount \in Int
  BY SendRunsOpened DEF SendAllTried
<1>2. current \in Msgs /\ entry.id = current /\ hdr.id = current
  BY <1>1 DEF Opened
<1>3. /\ TypedIndex(index) /\ TypedHeaders(header) /\ TypedHeader(hdr) /\ entry \in EntryRec
      /\ ctx \in Ids /\ progress \in ProgressRec /\ send \in SendRec
  BY DEF IInv, Types, StoreTypes, MemTypes, WorkTypes
<1>4. done \in EntryRec /\ done.id = current
  BY <1>2, <1>3, EntryAfterAllSentType DEF ProgressRec
<1>5. TypedIndex(ix)
  <2> HIDE DEF done
  <2>. QED BY <1>2, <1>3, <1>4, IndexWritten
<1>6. /\ sn1 \in SendRec /\ sn2 \in SendRec
  BY <1>3, ErrorsKnown DEF SendRec, SendStates
<1>7. /\ p1 \in ProgressRec /\ p1.state = "Sending"
      /\ p2 \in ProgressRec /\ p2.state = "Sending"
  <2>1. err \in Errors
    BY <1>3 DEF ProgressRec, SendRec
  <2> HIDE DEF err
  <2>. QED BY <1>1, <1>3, <2>1 DEF ProgressRec
<1>8. /\ ao' = Answers(ao, "Send", KErrNone) /\ header' = header /\ hdr' = hdr
      /\ UNCHANGED <<current, outVars, queue, rcptState, logRes, histVars>>
  BY DEF SendAllTried
<1>9. \/ /\ index' = ix /\ entry' = done /\ progress' = p1 /\ send' = sn1 /\ ctx' = ctx
      \/ \E e \in StoreErrors, st \in Stores : Becomes(SendCompleted(s2, e, st))
  BY DEF SendAllTried
<1> HIDE DEF done, p1, p2, sn1, sn2, ix
<1>10. /\ TypedSnapshot(s1) /\ s1.index = ix /\ s1.entry = done /\ s1.progress = p1
       /\ s1.send = sn1 /\ s1.ctx = ctx
       /\ TypedSnapshot(s2) /\ s2.entry = entry /\ s2.progress = p2
  BY <1>3, <1>4, <1>5, <1>6, <1>7, SnapshotTyped
<1> HIDE DEF s1, s2
<1>11. CASE /\ index' = ix /\ entry' = done /\ progress' = p1 /\ send' = sn1 /\ ctx' = ctx
  <2>1. Becomes(s1)
    BY <1>10, <1>11 DEF Becomes
  <2>. QED BY <1>1, <1>2, <1>3, <1>4, <1>7, <1>8, <1>10, <2>1, SendAnswersKeepsIInv
<1>12. ASSUME NEW e \in StoreErrors, NEW st \in Stores, Becomes(SendCompleted(s2, e, st))
       PROVE  Types' /\ Shape'
  <2>1. e \in Errors /\ st \in BOOLEAN
    BY ErrorsKnown, StoresType
  <2>. QED BY <1>1, <1>2, <1>3, <1>7, <1>8, <1>10, <1>12, <2>1, SendCompletesKeepsIInv
<1>. QED BY <1>9, <1>11, <1>12

\* UpdateAfterRecipientSentL, and its StoreHeaderL done or left.
LEMMA SendRecipientDoneKeepsIInv ==
  ASSUME IInv, SendRecipientDone
  PROVE  Types' /\ Shape'
<1> DEFINE m    == entry.id
           err  == progress.error
           i    == progress.rcpDone + 1
           rs   == [hdr.rcpts EXCEPT ![i] = RecipientAfterSend(@, err, send.reports)]
           e    == IF err = KErrNone THEN index[m]
                   ELSE [index[m] EXCEPT !.err = err, !.failed = TRUE]
           sn   == [send EXCEPT !.state = "UpdatingRecipient",
                      !.failedStatus = IF err # KErrNone /\ progress.rcpCount > 1
                                         THEN err ELSE @,
                      !.sentRcpts = IF err = KErrNone /\ send.reports THEN @ + 1 ELSE @]
           p    == [progress EXCEPT !.rcpDone = i]
           snap == Snapshot(index, e, p, sn, m)
<1>1. /\ Done(ao, "Send") /\ Opened /\ progress.state = "Sending" /\ ~ao["Rcpt"].active
      /\ RcpCount[current] \in Nat /\ progress.rcpDone \in Int /\ progress.rcpCount \in Int
  BY SendRunsOpened DEF SendRecipientDone
<1>2. current \in Msgs /\ m = current /\ hdr.id = current /\ send.state = "SendingEntry"
  BY <1>1 DEF Opened, SendRecipientDone, SendRuns
<1>3. /\ TypedIndex(index) /\ TypedHeaders(header) /\ TypedHeader(hdr)
      /\ progress \in ProgressRec /\ send \in SendRec /\ ao \in TypedObjects
      /\ index[m] \in EntryRec /\ index[m].id = m /\ err \in Errors
  BY <1>2 DEF IInv, Types, StoreTypes, MemTypes, WorkTypes, TypedIndex, ProgressRec
<1>4. hdr.rcpts \in Rcpts(m)
  BY <1>2, <1>3, HeaderRecipients
<1>5. rs \in Rcpts(m)
  <2>1. send.reports \in BOOLEAN
    BY <1>3 DEF SendRec
  <2>2. \A r \in RcptRec(Errors) :
          RecipientAfterSend(r, err, send.reports) \in RcptRec(Errors)
    BY <1>3, <2>1, RecipientAfterSendType
  <2> HIDE DEF m, i, err
  <2>. QED BY <1>4, <2>2 DEF Rcpts
<1>6. e \in EntryRec /\ e.id = m
  <2> HIDE DEF m, err
  <2>. QED BY <1>3 DEF EntryRec
<1>7. sn \in SendRec /\ sn.state = "UpdatingRecipient"
  <2> DEFINE f == IF err # KErrNone /\ progress.rcpCount > 1
                    THEN err ELSE send.failedStatus
             n == IF err = KErrNone /\ send.reports
                    THEN send.sentRcpts + 1 ELSE send.sentRcpts
  <2>1. f \in Errors /\ n \in Nat
    BY <1>3 DEF SendRec
  <2>2. "UpdatingRecipient" \in SendStates
    BY DEF SendStates
  <2>3. sn = [send EXCEPT !.state = "UpdatingRecipient", !.failedStatus = f, !.sentRcpts = n]
    OBVIOUS
  <2> HIDE DEF f, n, sn
  <2>. QED BY <1>3, <2>1, <2>2, <2>3 DEF SendRec
<1>8. /\ p \in ProgressRec /\ p.state = "Sending" /\ p.rcpDone = i
      /\ p.rcpCount = progress.rcpCount
  <2>1. i \in Int
    BY <1>1
  <2> HIDE DEF i
  <2>. QED BY <1>1, <1>3, <2>1, ProgressDone DEF ProgressRec
<1>9. /\ TypedHeader([hdr EXCEPT !.rcpts = rs]) /\ [hdr EXCEPT !.rcpts = rs].id = m
  <2> HIDE DEF rs
  <2>. QED BY <1>2, <1>3, <1>5, RecipientsChanged
<1>10. /\ hdr' = [hdr EXCEPT !.rcpts = rs]
       /\ UNCHANGED <<current, outVars, queue, rcptState, logRes, histVars>>
       /\ \/ /\ header' = [header EXCEPT ![m] = rs]
             /\ Becomes(snap)
             /\ ao' = RunsNext(ao, "Send", KErrNone)
          \/ /\ \E x \in StoreErrors, st \in Stores : Becomes(SendCompleted(snap, x, st))
             /\ ao' = Answers(ao, "Send", KErrNone)
             /\ header' = header
  BY DEF SendRecipientDone
<1> HIDE DEF rs, e, sn, p, m
<1>11. /\ TypedSnapshot(snap) /\ snap.index = index /\ snap.entry = e
       /\ snap.progress = p /\ snap.send = sn /\ snap.ctx = m
  BY <1>2, <1>3, <1>6, <1>7, <1>8, SnapshotTyped DEF Ids
<1> HIDE DEF snap
<1>12. TypedHeader(hdr') /\ hdr'.id = current
  BY <1>2, <1>9, <1>10
<1>13. CASE /\ header' = [header EXCEPT ![m] = rs] /\ Becomes(snap)
            /\ ao' = RunsNext(ao, "Send", KErrNone)
  <2>1. TypedHeaders(header')
    BY <1>2, <1>3, <1>5, <1>13, HeaderStored
  <2>2. /\ index' = index /\ entry' = e /\ progress' = p /\ send' = sn /\ ctx' = m
    BY <1>11, <1>13 DEF Becomes
  <2>3. /\ ao' \in TypedObjects /\ ao'["Send"].status = KErrNone
        /\ ao'["Rcpt"] = ao["Rcpt"]
    <3>1. ao' \in TypedObjects
      BY <1>3, <1>13, ObjectsChanged, ErrorsKnown DEF Objects
    <3>. QED BY <1>3, <1>13, <3>1 DEF RunsNext, TypedObjects, Objects
  <2>4. Types'
    BY <1>2, <1>3, <1>6, <1>7, <1>8, <1>10, <1>12, <2>1, <2>2, <2>3 DEF IInv, Types,
       StoreTypes, MemTypes, WorkTypes, HistTypes, histVars, outVars, Ids
  <2>5. Opened'
    <3>1. i \in 0 .. progress.rcpCount
      BY <1>1, <1>2 DEF Opened
    <3> HIDE DEF i
    <3>. QED BY <1>1, <1>2, <1>6, <1>7, <1>8, <1>10, <1>12, <2>2, <3>1 DEF Opened
  <2>. QED BY <1>1, <1>8, <2>2, <2>3, <2>4, <2>5 DEF Opened, Shape, SendingShape,
           SendShape, RcptShape, LogShape, LogStates
<1>14. ASSUME NEW x \in StoreErrors, NEW st \in Stores, Becomes(SendCompleted(snap, x, st)),
              ao' = Answers(ao, "Send", KErrNone), header' = header
       PROVE  Types' /\ Shape'
  <2>1. x \in Errors /\ st \in BOOLEAN
    BY ErrorsKnown, StoresType
  <2>. QED BY <1>1, <1>2, <1>3, <1>6, <1>8, <1>10, <1>11, <1>12, <1>14, <2>1,
           SendCompletesKeepsIInv
<1>. QED BY <1>10, <1>13, <1>14

LEMMA SendRunLKeepsIInv == IInv /\ SendRunL => Types' /\ Shape'
BY SendFailsKeepsIInv, SendNextRecipientKeepsIInv, SendAllTriedKeepsIInv,
   SendFindsDeletedKeepsIInv, SendRecipientDoneKeepsIInv DEF SendRunL

-----------------------------------------------------------------------------
(* CSmsRecipientSend                                                       *)

\* What every RunL of CSmsRecipientSend has in common: it answers CSmsSend
\* or waits for a service, and the message stays open.
RcptMoves ==
  /\ rcptState' \in RcptStates
  /\ \/ progress' = progress
     \/ \E e \in Errors : progress' = [progress EXCEPT !.error = e]
  /\ ao' \in {Answers(ao, "Rcpt", KErrNone), Awaits(ao, "Rcpt")}
  /\ TypedHeaders(header') /\ TypedHeader(hdr') /\ hdr'.id = hdr.id
  /\ ctx' \in Ids
  /\ UNCHANGED <<index, entry, current, outVars, queue, send, logRes, histVars>>

LEMMA RcptMovesKeepsIInv ==
  ASSUME IInv, Done(ao, "Rcpt"), RcptMoves
  PROVE  Types' /\ Shape'
<1>1. ao["Rcpt"].active
  BY DEF Done
<1>2. Opened /\ send.state = "SendingEntry"
  BY <1>1, RecipientIsOpened
<1>3. progress.state = "Sending"
  BY <1>1, BelowIsAtRest DEF IInv, Waits
<1>4. /\ progress' \in ProgressRec /\ progress'.state = "Sending"
      /\ progress'.rcpDone = progress.rcpDone /\ progress'.rcpCount = progress.rcpCount
  <2>1. progress \in ProgressRec
    BY DEF IInv, Types, WorkTypes
  <2>2. CASE progress' = progress
    BY <1>3, <2>1, <2>2
  <2>3. ASSUME NEW e \in Errors, progress' = [progress EXCEPT !.error = e]
        PROVE  /\ progress' \in ProgressRec /\ progress'.state = progress.state
               /\ progress'.rcpDone = progress.rcpDone
               /\ progress'.rcpCount = progress.rcpCount
    BY <2>1, <2>3 DEF ProgressRec
  <2>. QED BY <1>3, <2>2, <2>3 DEF RcptMoves
<1>5. /\ ao \in TypedObjects /\ ao' \in TypedObjects
      /\ ao'["Send"].status \in {KErrNone, KRequestPending}
  <2>1. ao \in TypedObjects /\ ao["Send"].status = KRequestPending
    BY <1>1, BelowIsAtRest DEF IInv, Types, WorkTypes, Waits
  <2>2. ao' \in TypedObjects
    BY <2>1, ObjectsChanged, ErrorsKnown DEF RcptMoves, Objects
  <2>3. CASE ao' = Answers(ao, "Rcpt", KErrNone)
    BY <2>1, <2>2, <2>3 DEF Answers, Parent, TypedObjects, Objects
  <2>4. CASE ao' = Awaits(ao, "Rcpt")
    BY <2>1, <2>2, <2>4 DEF Awaits, TypedObjects, Objects
  <2>. QED BY <2>1, <2>2, <2>3, <2>4 DEF RcptMoves
<1>6. Types'
  BY <1>4, <1>5 DEF RcptMoves, IInv, Types, StoreTypes, MemTypes, WorkTypes, HistTypes,
     outVars, histVars
<1>7. Opened'
  BY <1>2, <1>4 DEF Opened, RcptMoves
<1>. QED BY <1>2, <1>4, <1>5, <1>6, <1>7 DEF RcptMoves, Opened, Shape, SendingShape,
         SendShape, RcptShape, LogShape, LogStates

\* Answering CSmsSend with an error, which may be KErrNone.
LEMMA RcptAnswersMoves ==
  ASSUME IInv, NEW e \in Errors, RcptAnswers(e),
         TypedHeaders(header'), TypedHeader(hdr'), hdr'.id = hdr.id, ctx' \in Ids,
         UNCHANGED <<index, entry, current, outVars, queue, send, logRes, histVars>>
  PROVE  RcptMoves
BY DEF RcptMoves, RcptAnswers, RcptStates

LEMMA SendMessageMoves ==
  ASSUME IInv, ao["Rcpt"].active, SendMessageL, TypedHeader(hdr'), hdr'.id = hdr.id,
         UNCHANGED <<index, entry, current, outVars, queue, send, logRes, histVars>>
  PROVE  RcptMoves
<1> DEFINE m  == entry.id
           hs == IF Kind[m] = "text" THEN [header EXCEPT ![m] = hdr'.rcpts] ELSE header
<1>1. m \in Msgs /\ m = hdr'.id /\ TypedHeaders(header) /\ ctx \in Ids
  BY RecipientIsOpened DEF Opened, IInv, Types, StoreTypes, MemTypes
<1>2. TypedHeaders(hs)
  <2> DEFINE rs == hdr'.rcpts
  <2>1. rs \in Rcpts(m)
    BY <1>1, HeaderRecipients
  <2> HIDE DEF rs, m
  <2>2. TypedHeaders([header EXCEPT ![m] = rs])
    BY <1>1, <2>1, HeaderStored
  <2>. QED BY <1>1, <2>2 DEF rs
<1>3. \/ /\ \E e \in StoreErrors \cup SendErrors \cup {KErrNotFound} : RcptAnswers(e)
         /\ header' \in {header, hs} /\ ctx' \in {ctx, m}
      \/ /\ rcptState' = "SendingMessage" /\ ao' = Awaits(ao, "Rcpt")
         /\ header' = hs /\ ctx' = ctx /\ progress' = progress
  BY DEF SendMessageL
<1> HIDE DEF hs
<1>4. TypedHeaders(header') /\ ctx' \in Ids
  BY <1>1, <1>2, <1>3 DEF Ids
<1>5. ASSUME NEW e \in StoreErrors \cup SendErrors \cup {KErrNotFound}, RcptAnswers(e)
      PROVE  RcptMoves
  <2>1. e \in Errors
    BY ErrorsKnown
  <2>. QED BY <1>4, <1>5, <2>1, RcptAnswersMoves
<1>6. CASE rcptState' = "SendingMessage" /\ ao' = Awaits(ao, "Rcpt") /\ progress' = progress
  BY <1>4, <1>6 DEF RcptMoves, RcptStates
<1>. QED BY <1>3, <1>5, <1>6

\* Every RunL of CSmsRecipientSend.
LEMMA RcptRunLMoves ==
  ASSUME IInv, RcptRunL
  PROVE  RcptMoves /\ Done(ao, "Rcpt")
<1>1. Done(ao, "Rcpt") /\ ao["Rcpt"].active
  BY DEF RcptRunL, RcptFails, RcptGotLogEvent, RcptWroteLogEvent, RcptSent, RcptRuns,
     Runnable, Done
<1>2. /\ TypedHeaders(header) /\ TypedHeader(hdr) /\ ctx \in Ids
      /\ ao["Rcpt"].status \in Errors /\ KErrNone \in Errors
  BY <1>1, ErrorsKnown DEF IInv, Types, StoreTypes, MemTypes, WorkTypes, TypedObjects,
     Objects, Done
<1>3. hdr.id \in Msgs
  BY <1>1, RecipientIsOpened DEF Opened
<1>4. ASSUME RcptFails PROVE RcptMoves
  BY <1>2, <1>4, RcptAnswersMoves DEF RcptFails, storeVars, memVars
<1>5. ASSUME RcptSent PROVE RcptMoves
  BY <1>2, <1>5, RcptAnswersMoves DEF RcptSent, storeVars, memVars
<1>6. ASSUME RcptGotLogEvent PROVE RcptMoves
  <2>1. /\ hdr' = hdr
        /\ UNCHANGED <<index, entry, current, outVars, queue, send, logRes, histVars>>
    BY <1>6 DEF RcptGotLogEvent
  <2>2. CASE SendMessageL
    BY <1>1, <1>2, <2>1, <2>2, SendMessageMoves
  <2>3. CASE /\ rcptState' \in {"ChangeLogEvent", "AddLogEvent"}
             /\ ao' = Awaits(ao, "Rcpt") /\ UNCHANGED <<header, ctx, progress>>
    BY <1>2, <2>1, <2>3 DEF RcptMoves, RcptStates
  <2>. QED BY <1>6, <2>2, <2>3 DEF RcptGotLogEvent
<1>7. ASSUME RcptWroteLogEvent PROVE RcptMoves
  <2> DEFINE b  == logRes = KErrNone
             i  == Recipient
             rs == [hdr.rcpts EXCEPT ![i].log = b]
  <2>1. rs \in Rcpts(hdr.id)
    <3>1. hdr.rcpts \in Rcpts(hdr.id) /\ b \in BOOLEAN
      BY <1>2, <1>3, HeaderRecipients
    <3> HIDE DEF b, i
    <3>. QED BY <1>3, <3>1, LogIdChanged
  <2>2. hdr' = hdr \/ hdr' = [hdr EXCEPT !.rcpts = rs]
    BY <1>2, <1>3, <1>7, HeaderRecipients DEF RcptWroteLogEvent
  <2> HIDE DEF rs
  <2>3. TypedHeader(hdr') /\ hdr'.id = hdr.id
    <3> DEFINE h == [hdr EXCEPT !.rcpts = rs]
    <3>1. TypedHeader(h) /\ h.id = hdr.id
      BY <1>2, <1>3, <2>1, RecipientsChanged
    <3>2. hdr' = hdr \/ hdr' = h
      BY <2>2
    <3> HIDE DEF h
    <3>. QED BY <1>2, <3>1, <3>2
  <2>4. /\ SendMessageL
        /\ UNCHANGED <<index, entry, current, outVars, queue, send, logRes, histVars>>
    BY <1>7 DEF RcptWroteLogEvent
  <2>. QED BY <1>1, <2>3, <2>4, SendMessageMoves
<1>8. RcptMoves
  BY <1>4, <1>5, <1>6, <1>7 DEF RcptRunL
<1>. QED BY <1>1, <1>8

LEMMA RcptRunLKeepsIInv == IInv /\ RcptRunL => Types' /\ Shape'
BY RcptRunLMoves, RcptMovesKeepsIInv

-----------------------------------------------------------------------------
(* The event logger and the socket                                         *)

\* A service completes the request of an object that waits for it. Neither
\* CSmsSend nor what is in memory is affected.
LEMMA ServiceKeepsIInv ==
  ASSUME IInv, NEW o \in {"Rcpt", "Outbox"}, NEW e \in Errors,
         ao' = [ao EXCEPT ![o].status = e], logRes' \in LogResults \cup {KErrNone},
         HistTypes',
         UNCHANGED <<storeVars, ctx, memVars, progress, current, outVars, queue, send,
                     rcptState>>
  PROVE  Types' /\ Shape'
<1>1. /\ ao' \in TypedObjects
      /\ ao'["Send"] = ao["Send"] /\ ao'["Rcpt"].active = ao["Rcpt"].active
  <2>1. ao \in TypedObjects /\ o \in Objects
    BY DEF IInv, Types, WorkTypes, Objects
  <2>2. ao' \in TypedObjects
    BY <2>1, ObjectsChanged
  <2>. QED BY <2>1, <2>2 DEF TypedObjects, Objects
<1>2. Types'
  BY <1>1 DEF IInv, Types, StoreTypes, MemTypes, WorkTypes, storeVars, memVars, outVars
<1>. QED BY <1>1, <1>2 DEF IInv, Shape, SendingShape, SendShape, RcptShape, LogShape,
         LogStates, Opened, NotOpened, Exists, storeVars, memVars

\* The socket counts a hand-over for the recipient that is being sent to.
LEMMA SocketKeepsHistTypes ==
  ASSUME IInv, SocketCompletes
  PROVE  HistTypes'
<1> DEFINE m == entry.id
           i == Recipient
<1>1. m \in Msgs /\ i \in 1 .. RcpCount[m]
  BY RecipientIsOpened DEF SocketCompletes, Pending, Opened
<1>2. \/ /\ delivered' = [delivered EXCEPT ![m][i] = @ + 1]
         /\ handed' = [handed EXCEPT ![m] = @ \cup {i}]
      \/ delivered' = delivered /\ handed' = handed
  BY DEF SocketCompletes
<1>3. HistTypes /\ requests' = requests
  BY DEF IInv, Types, SocketCompletes
<1> HIDE DEF m, i
<1>4. /\ DOMAIN delivered' = Msgs
      /\ \A q \in Msgs : delivered'[q] \in [1 .. RcpCount[q] -> Nat]
  <2>1. CASE delivered' = [delivered EXCEPT ![m][i] = @ + 1]
    <3>1. delivered[m] \in [1 .. RcpCount[m] -> Nat] /\ DOMAIN delivered = Msgs
      BY <1>1, <1>3 DEF HistTypes
    <3>2. [delivered[m] EXCEPT ![i] = @ + 1] \in [1 .. RcpCount[m] -> Nat]
      BY <1>1, <3>1
    <3>3. delivered' = [delivered EXCEPT ![m] = [delivered[m] EXCEPT ![i] = @ + 1]]
      BY <2>1
    <3>. QED BY <1>1, <1>3, <3>1, <3>2, <3>3 DEF HistTypes
  <2>. QED BY <1>2, <1>3, <2>1 DEF HistTypes
<1>5. /\ DOMAIN handed' = Msgs
      /\ \A q \in Msgs : handed'[q] \subseteq 1 .. RcpCount[q]
  BY <1>1, <1>2, <1>3 DEF HistTypes
<1>. QED BY <1>3, <1>4, <1>5 DEF HistTypes

LEMMA ServicesKeepIInv == IInv /\ Services => Types' /\ Shape'
<1> SUFFICES ASSUME IInv, Services PROVE Types' /\ Shape'
  OBVIOUS
<1>1. ASSUME NEW o \in {"Rcpt", "Outbox"}, LoggerCompletes(o)
      PROVE  Types' /\ Shape'
  <2>1. HistTypes'
    BY <1>1 DEF LoggerCompletes, histVars, IInv, Types, HistTypes
  <2>2. KErrNone \in Errors
    BY ErrorsKnown
  <2>. QED BY <1>1, <2>1, <2>2, ServiceKeepsIInv DEF LoggerCompletes
<1>2. CASE SocketCompletes
  <2>1. HistTypes' /\ logRes \in LogResults \cup {KErrNone}
    BY <1>2, SocketKeepsHistTypes DEF IInv, Types, WorkTypes
  <2>2. PICK e \in SendErrors \cup {KErrNone} : ao' = [ao EXCEPT !["Rcpt"].status = e]
    BY <1>2 DEF SocketCompletes
  <2>3. e \in Errors
    BY ErrorsKnown
  <2>4. /\ logRes' = logRes
        /\ UNCHANGED <<storeVars, ctx, memVars, progress, current, outVars, queue, send,
                       rcptState>>
    BY <1>2 DEF SocketCompletes
  <2>. QED BY <2>1, <2>2, <2>3, <2>4, ServiceKeepsIInv
<1>. QED BY <1>1, <1>2 DEF Services

-----------------------------------------------------------------------------
(* CSmsServerMtm, and the client                                           *)

\* Once the command is complete everything in memory is new.
LEMMA CompletesKeepsIInv ==
  ASSUME IInv, CompletesCommand, TypedIndex(index'), UNCHANGED <<header, histVars>>
  PROVE  Types' /\ Shape'
<1>1. StoreTypes'
  BY DEF StoreTypes, IInv, Types
<1>2. MemTypes'
  BY NullEntryType DEF CompletesCommand, MemTypes, TypedHeader, Ids
<1>3. WorkTypes'
  BY NewTyped DEF CompletesCommand, WorkTypes, Ids, RcptStates
<1>4. HistTypes'
  BY DEF histVars, IInv, Types, HistTypes
<1>5. Shape'
  BY DEF CompletesCommand, Shape, SendingShape, SendShape, RcptShape, LogShape, LogStates,
     NewProgress, IdleObject, Objects
<1>. QED BY <1>1, <1>2, <1>3, <1>4, <1>5 DEF Types

\* Cancelling the session: the entry in memory remains the same message's.
LEMMA SessionCancelledTyped ==
  ASSUME IInv, NEW st \in BOOLEAN
  PROVE  /\ TypedSnapshot(SessionCancelled(st))
         /\ SessionCancelled(st).entry.id = entry.id
         /\ SessionCancelled(st).progress.state = progress.state
<1> DEFINE p1 == IF ao["Rcpt"].active THEN [progress EXCEPT !.error = KErrCancel]
                 ELSE progress
           s1 == Snapshot(index, entry, p1, send, ctx)
           s2 == IF ao["Send"].active THEN SendCompleted(s1, KErrCancel, st) ELSE s1
           e2 == IF s2.progress.error = KErrNone THEN KErrCancel ELSE s2.progress.error
           p2 == [s2.progress EXCEPT !.error = e2]
           s3 == Snapshot(s2.index, s2.entry, p2, s2.send, s2.ctx)
<1>1. KErrCancel \in Errors
  BY ErrorsKnown
<1>2. p1 \in ProgressRec /\ p1.state = progress.state
  BY <1>1 DEF IInv, Types, WorkTypes, ProgressRec
<1>3. TypedSnapshot(s1) /\ s1.entry = entry /\ s1.progress = p1
  <2> HIDE DEF p1
  <2>. QED BY <1>2, SnapshotTyped DEF IInv, Types, StoreTypes, MemTypes, WorkTypes
<1>4. TypedSnapshot(s2) /\ s2.entry.id = entry.id /\ s2.progress.state = progress.state
  <2> DEFINE r == SendCompleted(s1, KErrCancel, st)
  <2> HIDE DEF s1
  <2>1. TypedSnapshot(r) /\ r.entry.id = s1.entry.id /\ r.progress.state = s1.progress.state
    BY <1>1, <1>3, SendCompletedTyped, Zenon
  <2> HIDE DEF r, p1
  <2>. QED BY <1>2, <1>3, <2>1 DEF r
<1>5. SessionCancelled(st) = IF ao["Session"].active THEN s3 ELSE s1
  BY DEF SessionCancelled
<1>6. TypedSnapshot(s3) /\ s3.entry = s2.entry /\ s3.progress = p2
      /\ p2.state = s2.progress.state
  <2> HIDE DEF s2
  <2>1. s2.progress \in ProgressRec /\ e2 \in Errors
    BY <1>1, <1>4 DEF TypedSnapshot, ProgressRec
  <2> HIDE DEF e2
  <2>2. p2 \in ProgressRec /\ p2.state = s2.progress.state
    BY <2>1 DEF ProgressRec
  <2> HIDE DEF p2
  <2>. QED BY <1>4, <2>2, SnapshotTyped DEF TypedSnapshot
<1> HIDE DEF s1, s2, s3, p1, p2
<1>. QED BY <1>2, <1>3, <1>4, <1>5, <1>6

\* The request ends, or is cancelled with all its messages suspended.
LEMMA MtmKeepsIInv == IInv /\ (MtmRuns \/ MtmCancel) => Types' /\ Shape'
<1> SUFFICES ASSUME IInv, MtmRuns \/ MtmCancel PROVE Types' /\ Shape'
  OBVIOUS
<1>1. TypedIndex(index)
  BY DEF IInv, Types, StoreTypes
<1>2. CASE MtmRuns
  BY <1>1, <1>2, CompletesKeepsIInv DEF MtmRuns, storeVars
<1>3. CASE MtmCancel
  <2>1. PICK st \in BOOLEAN :
          \/ index' = index
          \/ index' = FailOutstanding(index, selection, KErrCancel, "Suspended")
          \/ index' = FailOutstanding(SessionCancelled(st).index, selection,
                                      KErrCancel, "Suspended")
    BY <1>3, StoresType DEF MtmCancel
  <2>2. TypedIndex(SessionCancelled(st).index)
    BY SessionCancelledTyped DEF TypedSnapshot
  <2>3. "Suspended" \in SendingStates /\ KErrCancel \in Errors
    BY ErrorsKnown DEF SendingStates
  <2>4. ASSUME NEW ix, TypedIndex(ix)
        PROVE  TypedIndex(FailOutstanding(ix, selection, KErrCancel, "Suspended"))
    <3>1. ix \in [Msgs -> EntryRec] /\ \A m \in Msgs : ix[m].id = m
      BY <2>4 DEF TypedIndex
    <3> DEFINE fx == FailOutstanding(ix, selection, KErrCancel, "Suspended")
    <3>2. fx \in [Msgs -> EntryRec] /\ \A m \in Msgs : fx[m].id = ix[m].id
      BY <2>3, <3>1, FailOutstandingType
    <3> HIDE DEF fx
    <3>. QED BY <3>1, <3>2 DEF TypedIndex, fx
  <2>5. TypedIndex(index')
    BY <1>1, <2>1, <2>2, <2>4
  <2>. QED BY <1>3, <2>5, CompletesKeepsIInv DEF MtmCancel
<1>. QED BY <1>2, <1>3

\* A poll finds that the current message has been deleted or suspended: the
\* entry and the header in memory are those of that message.
LEMMA PollKeepsIInv ==
  ASSUME IInv, ProgressPoll
  PROVE  Types' /\ Shape'
<1>1. /\ progress.state = "Sending" /\ current \in Msgs /\ entry.id = current
      /\ hdr.id = current
  BY DEF ProgressPoll, IInv, Shape, SendingShape, NotOpened, CanSendMessage
<1>2. PICK st \in BOOLEAN : Becomes(SessionCancelled(st))
  BY StoresType DEF ProgressPoll
<1>3. /\ TypedSnapshot(SessionCancelled(st))
      /\ SessionCancelled(st).entry.id = current
      /\ SessionCancelled(st).progress.state = "Sending"
  BY <1>1, SessionCancelledTyped
<1>4. /\ TypedIndex(index') /\ entry' \in EntryRec /\ progress' \in ProgressRec
      /\ send' \in SendRec /\ ctx' \in Ids
      /\ entry'.id = current /\ progress'.state = "Sending"
  BY <1>2, <1>3 DEF TypedSnapshot, Becomes
<1>5. /\ ao' = [ao EXCEPT !["Rcpt"] = IdleObject, !["Send"] = IdleObject,
                          !["Session"] = IdleObject, !["Outbox"].status = KErrNone]
      /\ rcptState' = "Waiting"
      /\ UNCHANGED <<header, hdr, current, outVars, queue, logRes, histVars>>
  BY DEF ProgressPoll
<1>6. ao' \in TypedObjects /\ ~ao'["Send"].active /\ ~ao'["Rcpt"].active
  <2>1. ao \in TypedObjects /\ KErrNone \in Errors
    BY ErrorsKnown DEF IInv, Types, WorkTypes
  <2>2. IdleObject \in [active : BOOLEAN, status : Errors \cup {KRequestPending},
                        report : BOOLEAN]
    BY <2>1 DEF IdleObject
  <2>. QED BY <1>5, <2>1, <2>2, IdleFields DEF TypedObjects, Objects
<1>7. Types'
  BY <1>4, <1>5, <1>6 DEF IInv, Types, StoreTypes, MemTypes, WorkTypes, HistTypes,
     RcptStates, outVars, histVars
<1>. QED BY <1>1, <1>4, <1>5, <1>6, <1>7 DEF Shape, SendingShape, SendShape, RcptShape,
         LogShape, LogStates

\* The client writes one entry, which keeps its id; never the locked one,
\* which is all that matters for a message CSmsSend could not open.
LEMMA ClientStepKeepsIInv == IInv /\ ClientStep => Types' /\ Shape'
<1> SUFFICES ASSUME IInv, ClientStep PROVE Types' /\ Shape'
  OBVIOUS
<1>1. UNCHANGED <<header, ctx, memVars, progress, current, outVars, queue, send,
                  rcptState, logRes, ao, histVars>>
  BY DEF ClientStep
<1>2. PICK m \in Msgs : Suspend(m) \/ Resume(m) \/ Delete(m) \/ DateArrives(m)
  BY DEF ClientStep
<1>3. TypedIndex(index) /\ index[m] \in EntryRec /\ index[m].id = m
  BY DEF IInv, Types, StoreTypes, TypedIndex
<1>4. PICK e \in EntryRec :
        /\ e.id = m /\ index' = [index EXCEPT ![m] = e]
        /\ \/ ctx # m
           \/ e.folder = index[m].folder /\ e.state = index[m].state
  <2>1. CASE Suspend(m)
    <3> DEFINE e == [index[m] EXCEPT !.state = "Suspended"]
    <3>1. e \in EntryRec /\ e.id = m
      BY <1>3 DEF EntryRec, SendingStates
    <3>. QED BY <2>1, <3>1 DEF Suspend, ClientMay
  <2>2. CASE Resume(m)
    <3> DEFINE e == [index[m] EXCEPT !.state = "Waiting"]
    <3>1. e \in EntryRec /\ e.id = m
      BY <1>3 DEF EntryRec, SendingStates
    <3>. QED BY <2>2, <3>1 DEF Resume, ClientMay
  <2>3. CASE Delete(m)
    <3> DEFINE e == [NullEntry EXCEPT !.id = m]
    <3>1. e \in EntryRec /\ e.id = m
      BY NullEntryType DEF EntryRec
    <3>. QED BY <2>3, <3>1 DEF Delete, ClientMay
  <2>4. CASE DateArrives(m)
    <3> DEFINE e == [index[m] EXCEPT !.due = TRUE]
    <3>1. /\ e \in EntryRec /\ e.id = m
          /\ e.folder = index[m].folder /\ e.state = index[m].state
      BY <1>3 DEF EntryRec
    <3>. QED BY <2>4, <3>1 DEF DateArrives
  <2>. QED BY <1>2, <2>1, <2>2, <2>3, <2>4
<1>5. TypedIndex(index')
  BY <1>3, <1>4, IndexWritten
<1>6. Types'
  BY <1>1, <1>5 DEF IInv, Types, StoreTypes, MemTypes, WorkTypes, HistTypes, memVars,
     outVars, histVars
<1>7. NotOpened => NotOpened'
  <2> SUFFICES ASSUME NotOpened
               PROVE  Exists(current)' /\ CanSendMessage(index[current])'
    BY <1>1 DEF NotOpened, memVars
  <2>1. current \in Msgs /\ ctx = current
    BY DEF NotOpened, Exists, IInv, Types, WorkTypes, Ids
  <2>2. /\ index'[current].folder = index[current].folder
        /\ index'[current].state = index[current].state
    BY <1>3, <1>4, <2>1 DEF TypedIndex
  <2>. QED BY <1>1, <2>2 DEF NotOpened, Exists, CanSendMessage
<1>. QED BY <1>1, <1>6, <1>7 DEF IInv, Shape, SendingShape, SendShape, RcptShape,
         LogShape, Opened, memVars

-----------------------------------------------------------------------------
(* The theorems                                                            *)

LEMMA StutterKeepsIInv == IInv /\ UNCHANGED vars => Types' /\ Shape'
BY DEF vars, IInv, Types, StoreTypes, MemTypes, WorkTypes, HistTypes, Shape,
   SendingShape, SendShape, RcptShape, LogShape, Opened, NotOpened, Exists

LEMMA StepKeepsIInv == IInv /\ [Next]_vars => IInv'
<1> SUFFICES ASSUME IInv, [Next]_vars PROVE IInv'
  OBVIOUS
<1>1. WakeInv'
  BY StepKeepsWakeInv DEF IInv
<1>2. Types' /\ Shape'
  BY RequestKeepsIInv, MtmKeepsIInv, OutboxRunLKeepsIInv, SessionRunsKeepsIInv,
     SendRunLKeepsIInv, RcptRunLKeepsIInv, ServicesKeepIInv, PollKeepsIInv,
     ClientStepKeepsIInv, StutterKeepsIInv DEF Next
<1>. QED BY <1>1, <1>2 DEF IInv

LEMMA SpecKeepsIInv == Spec => []IInv
<1>1. Init => IInv
  BY InitIInv
<1>2. IInv /\ [Next]_vars => IInv'
  BY StepKeepsIInv
<1>. QED BY <1>1, <1>2, PTL DEF Spec

\* Type correctness: whatever the messages, their recipients and the errors
\* of the store, the logger and the network, every index entry, header,
\* progress record and active object keeps its type; in particular a header
\* is stored only under the message it was read from, and no recipient
\* outside it is written (iRcpDone indexes the recipients of whatever header
\* is in memory, SMSSSEND.CPP:165 and 203, SMSSOUTB.CPP:259).
THEOREM TypesAreKept == Spec => []TypeOK
<1>1. IInv => TypeOK
  BY IInvImpliesTypeOK
<1>. QED BY <1>1, SpecKeepsIInv, PTL

\* One message at a time: the entry, the header and the locked entry are the
\* current message's whenever CSmsOutboxSend or CSmsSend uses them, although
\* each is read, unlocked and read again at different times and the client
\* may delete the message in between.
THEOREM OneMessageIsDealtWith == Spec => []OneMessageAtATime
<1>1. IInv => OneMessageAtATime
  BY IInvImpliesOneMessageAtATime
<1>. QED BY <1>1, SpecKeepsIInv, PTL
=============================================================================
