--------------------------- MODULE CaseLinkProofs ---------------------------
(***************************************************************************)
(* Theorems about CaseLink for every set of handlers, CNRs and tiers: its  *)
(* types, that a connected matter was fetched, and that it shows its own   *)
(* record but for the races ShowsItsRecord names.  The invariant adds that *)
(* a handler that asks eCourts, or commits, has read a usable CNR.         *)
(***************************************************************************)
EXTENDS CaseLink, TLAPS

Asked == \A h \in Handlers : pc[h] \in {"ask", "commit"} => loc[h].read \in Cnrs

IInv == TypeOK /\ Asked /\ LinkedWasFetched /\ ShowsItsRecord

-----------------------------------------------------------------------------
(* Facts about the operators *)

LEMMA NoLocType == NoLoc \in Loc
  BY LinkAssumption DEF NoLoc, Loc, Ops

LEMMA FreshType == FreshStatus \in LinkStatus /\ FreshStatus # "linked"
  BY DEF FreshStatus, LinkStatus

\* A failure connects nothing.
LEMMA FailureType ==
    ASSUME link \in LinkStatus, NEW a
    PROVE  /\ AfterFailure(a) \in LinkStatus
           /\ AfterFailure(a) = "linked" => link = "linked"
  BY DEF AfterFailure, LinkStatus

LEMMA RetriedType ==
    ASSUME TypeOK, NEW h \in Handlers
    PROVE  Retried(h) \subseteq 0 .. RETRY_LIMIT
<1>1. loc[h].used \in 0 .. RETRY_LIMIT /\ queue \subseteq 0 .. RETRY_LIMIT
  BY DEF TypeOK, Loc
<1>2. CASE loc[h].op = "job" /\ loc[h].used < RETRY_LIMIT
  <2>1. loc[h].used + 1 \in 0 .. RETRY_LIMIT
    BY <1>1, <1>2, LinkAssumption
  <2>2. QED
    BY <1>1, <1>2, <2>1 DEF Retried
<1>3. CASE ~(loc[h].op = "job" /\ loc[h].used < RETRY_LIMIT)
  BY <1>1, <1>3 DEF Retried
<1>4. QED
  BY <1>2, <1>3

LEMMA InitIInv == Init => IInv
<1> SUFFICES ASSUME Init PROVE IInv
  OBVIOUS
<1>1. pc \in [Handlers -> Pc] /\ \A h \in Handlers : pc[h] \in {"idle", "queue"}
  BY DEF Init, Pc
<1>2. loc \in [Handlers -> Loc]
  BY NoLocType DEF Init, Loc, NoLoc, Ops
<1>3. TypeOK
  <2>1. /\ registry \in [Cnrs -> Tiers \cup {Unregistered}]
        /\ cnr \in Cnrs \cup {NoCnr} /\ source \in Cnrs \cup {NoCnr} /\ link \in LinkStatus
    BY DEF Init, LinkStatus
  <2>2. /\ open \in BOOLEAN /\ deleted \in BOOLEAN /\ raced \in BOOLEAN
        /\ queue \subseteq 0 .. RETRY_LIMIT
    BY DEF Init
  <2>3. ops \in 0 .. MaxOps /\ faults \in 0 .. MaxFaults
    BY LinkAssumption DEF Init
  <2>4. QED
    BY <1>1, <1>2, <2>1, <2>2, <2>3 DEF TypeOK
<1>4. Asked
  BY <1>1 DEF Asked
<1>5. link = "linked" => source = cnr /\ cnr \in Cnrs
  BY DEF Init
<1>6. QED
  BY <1>3, <1>4, <1>5, LinkAssumption DEF IInv, LinkedWasFetched, ShowsItsRecord

-----------------------------------------------------------------------------
(* Frames *)

\* What a step of one handler does to the handlers.
LEMMA HandlerMoves ==
    ASSUME IInv, NEW h \in Handlers, NEW p \in Pc, NEW x \in Loc,
           p \in {"ask", "commit"} => x.read \in Cnrs,
           pc' = [pc EXCEPT ![h] = p], loc' = [loc EXCEPT ![h] = x]
    PROVE  /\ pc' \in [Handlers -> Pc] /\ loc' \in [Handlers -> Loc]
           /\ Asked'
           /\ \A g \in Handlers \ {h} : Unreset(g)' <=> Unreset(g)
           /\ pc'[h] = p /\ loc'[h] = x
<1>1. pc \in [Handlers -> Pc] /\ loc \in [Handlers -> Loc]
  BY DEF IInv, TypeOK
<1>2. Asked'
  BY <1>1 DEF IInv, Asked
<1>3. QED
  BY <1>1, <1>2 DEF Unreset

\* A step that leaves the matter alone, or takes a connection away.
LEMMA QuietStep ==
    ASSUME IInv, NEW h \in Handlers, NEW p \in Pc, NEW x \in Loc,
           p \in {"ask", "commit"} => x.read \in Cnrs,
           pc' = [pc EXCEPT ![h] = p], loc' = [loc EXCEPT ![h] = x],
           ~Unreset(h),
           queue' \subseteq 0 .. RETRY_LIMIT,
           link' \in LinkStatus, link' = "linked" => link = "linked",
           ops' \in 0 .. MaxOps, faults' \in 0 .. MaxFaults,
           UNCHANGED <<registry, cnr, source, open, deleted, raced>>
    PROVE  IInv'
<1>1. TypeOK'
  BY HandlerMoves DEF IInv, TypeOK
<1>2. ShowsItsRecord'
  BY HandlerMoves DEF IInv, ShowsItsRecord
<1>3. LinkedWasFetched'
  BY DEF IInv, LinkedWasFetched
<1>4. QED
  BY <1>1, <1>2, <1>3, HandlerMoves DEF IInv

\* No handler moves.
LEMMA TrashStep == ASSUME IInv, Trash PROVE IInv'
<1>1. TypeOK'
  <2>1. ops' \in 0 .. MaxOps /\ deleted' \in BOOLEAN
    BY LinkAssumption DEF Trash, IInv, TypeOK
  <2>2. QED
    BY <2>1 DEF Trash, IInv, TypeOK
<1>2. Asked' /\ LinkedWasFetched' /\ ShowsItsRecord'
  BY DEF Trash, IInv, Asked, LinkedWasFetched, ShowsItsRecord, Unreset
<1>3. QED
  BY <1>1, <1>2 DEF IInv

LEMMA RegisterStep == ASSUME IInv, NEW c \in Cnrs, Register(c) PROVE IInv'
<1>1. registry' \in [Cnrs -> Tiers \cup {Unregistered}]
  BY DEF Register, IInv, TypeOK
<1>2. QED
  BY <1>1 DEF Register, matter, IInv, TypeOK, Asked, LinkedWasFetched, ShowsItsRecord, Unreset

-----------------------------------------------------------------------------
(* Handlers that start *)

LEMMA BeginStep ==
    ASSUME IInv, NEW h \in Handlers, NEW p \in {"read", "verify", "set"}, NEW x \in Loc,
           Begin(h, p, x)
    PROVE  IInv'
<1>1. /\ pc[h] = "idle" /\ pc' = [pc EXCEPT ![h] = p] /\ loc' = [loc EXCEPT ![h] = x]
      /\ ops < MaxOps /\ ops' = ops + 1
      /\ UNCHANGED <<registry, matter, queue, raced, faults>>
  BY DEF Begin, Goto
<1>2. ops' \in 0 .. MaxOps
  BY <1>1, LinkAssumption DEF IInv, TypeOK
<1>3. p \in Pc /\ p \notin {"ask", "commit"} /\ ~Unreset(h)
  BY <1>1 DEF Pc, Unreset
<1>4. TypeOK
  BY DEF IInv
<1>5. QED
  BY <1>1, <1>2, <1>3, <1>4, QuietStep DEF matter, TypeOK

LEMMA RequestStep == ASSUME IInv, NEW h \in Handlers, Request(h) PROVE IInv'
<1>1. ASSUME NEW t \in Tiers \cup {AnyTier}, BeginSync(h, t)
      PROVE  IInv'
  <2>1. [NoLoc EXCEPT !.op = "sync", !.tier = t] \in Loc
    BY NoLocType DEF Loc, Ops
  <2>2. QED
    BY <1>1, <2>1, BeginStep DEF BeginSync
<1>2. ASSUME NEW c \in Cnrs, NEW t \in Tiers \cup {AnyTier}, BeginLink(h, c, t)
      PROVE  IInv'
  <2>1. [NoLoc EXCEPT !.op = "link", !.want = c, !.tier = t] \in Loc
    BY NoLocType DEF Loc, Ops
  <2>2. QED
    BY <1>2, <2>1, BeginStep DEF BeginLink
<1>3. ASSUME NEW c \in Cnrs, BeginNumber(h, c)
      PROVE  IInv'
  <2>1. registry[c] \in Tiers
    BY <1>3 DEF BeginNumber, IInv, TypeOK
  <2>2. [NoLoc EXCEPT !.op = "number", !.want = c, !.tier = registry[c], !.verified = TRUE] \in Loc
    BY <2>1, NoLocType DEF Loc, Ops
  <2>3. QED
    BY <1>3, <2>2, BeginStep DEF BeginNumber
<1>4. ASSUME NEW c \in Cnrs, BeginAttach(h, c)
      PROVE  IInv'
  <2>1. [NoLoc EXCEPT !.op = "attach", !.want = c] \in Loc
    BY NoLocType DEF Loc, Ops
  <2>2. QED
    BY <1>4, <2>1, BeginStep DEF BeginAttach
<1>5. ASSUME NEW c \in Cnrs \cup {NoCnr}, BeginEdit(h, c)
      PROVE  IInv'
  <2>1. (IF deleted THEN c ELSE cnr) \in Cnrs \cup {NoCnr}
    BY DEF IInv, TypeOK
  <2>2. [NoLoc EXCEPT !.op = "edit", !.want = c, !.read = IF deleted THEN c ELSE cnr] \in Loc
    BY <2>1, NoLocType DEF Loc, Ops
  <2>3. QED
    BY <1>5, <2>2, BeginStep DEF BeginEdit
<1>6. CASE BeginWebhook(h)
  <2>1. [NoLoc EXCEPT !.op = "webhook"] \in Loc
    BY NoLocType DEF Loc, Ops
  <2>2. QED
    BY <1>6, <2>1, BeginStep DEF BeginWebhook
<1>7. QED
  BY <1>1, <1>2, <1>3, <1>4, <1>5, <1>6 DEF Request

LEMMA BeginSweepStep == ASSUME IInv, NEW h \in Handlers, BeginSweep(h) PROVE IInv'
<1> DEFINE x == [NoLoc EXCEPT !.op = "sweep"]
<1>1. x \in Loc /\ "read" \in Pc
  BY NoLocType DEF Loc, Ops, Pc
<1>2. /\ pc[h] = "idle" /\ pc' = [pc EXCEPT ![h] = "read"] /\ loc' = [loc EXCEPT ![h] = x]
      /\ UNCHANGED <<registry, matter, queue, raced, ops, faults>>
  BY DEF BeginSweep, Goto
<1> HIDE DEF x
<1>3. TypeOK /\ ~Unreset(h)
  BY <1>2 DEF IInv, Unreset
<1>4. QED
  BY <1>1, <1>2, <1>3, QuietStep DEF matter, TypeOK

LEMMA TakeJobStep ==
    ASSUME IInv, NEW h \in Handlers, NEW used \in queue, TakeJob(h, used)
    PROVE  IInv'
<1> DEFINE x == [NoLoc EXCEPT !.op = "job", !.used = used]
<1>1. x \in Loc /\ "peek" \in Pc
  BY NoLocType DEF Loc, Ops, Pc, IInv, TypeOK
<1>2. /\ pc[h] = "idle" /\ pc' = [pc EXCEPT ![h] = "peek"] /\ loc' = [loc EXCEPT ![h] = x]
      /\ queue' \subseteq queue
      /\ UNCHANGED <<registry, matter, raced, ops, faults>>
  BY DEF TakeJob, Goto
<1> HIDE DEF x
<1>3. TypeOK /\ ~Unreset(h)
  BY <1>2 DEF IInv, Unreset
<1>4. QED
  BY <1>1, <1>2, <1>3, QuietStep DEF matter, TypeOK

-----------------------------------------------------------------------------
(* Handlers at work *)

\* A handler goes on, or returns, and touches nothing but the queue.
LEMMA GoesOn ==
    ASSUME IInv, NEW h \in Handlers, NEW p \in Pc, p \notin {"ask", "commit"},
           ~Unreset(h), Goto(h, p), UNCHANGED loc,
           queue' \subseteq 0 .. RETRY_LIMIT, faults' \in 0 .. MaxFaults,
           UNCHANGED <<registry, matter, raced, ops>>
    PROVE  IInv'
<1>1. TypeOK /\ loc[h] \in Loc /\ loc' = [loc EXCEPT ![h] = loc[h]]
  BY DEF IInv, TypeOK
<1>2. QED
  BY <1>1, QuietStep DEF Goto, matter, TypeOK

LEMMA Returns ==
    ASSUME IInv, NEW h \in Handlers, ~Unreset(h), Return(h),
           queue' \subseteq 0 .. RETRY_LIMIT, faults' \in 0 .. MaxFaults,
           UNCHANGED <<registry, matter, raced, ops>>
    PROVE  IInv'
<1>1. TypeOK /\ "idle" \in Pc
  BY DEF IInv, Pc
<1>2. QED
  BY <1>1, NoLocType, QuietStep DEF Return, Goto, matter, TypeOK

LEMMA VerifyStep == ASSUME IInv, NEW h \in Handlers, Verify(h) PROVE IInv'
<1>1. /\ pc[h] = "verify" /\ ~Unreset(h) /\ TypeOK
      /\ UNCHANGED <<registry, matter, queue, raced, ops, faults>>
  BY DEF Verify, Unreset, IInv
<1>2. CASE loc' = [loc EXCEPT ![h].verified = TRUE] /\ Goto(h, "set")
  <2> DEFINE x == [loc[h] EXCEPT !.verified = TRUE]
  <2>1. x \in Loc /\ loc' = [loc EXCEPT ![h] = x] /\ "set" \in Pc
    <3>1. loc[h] \in Loc
      BY <1>1 DEF TypeOK
    <3>2. x \in Loc
      BY <3>1 DEF Loc
    <3>3. QED
      BY <1>2, <3>2 DEF Pc
  <2> HIDE DEF x
  <2>2. QED
    BY <1>1, <1>2, <2>1, QuietStep DEF Goto, matter, TypeOK
<1>3. CASE Return(h)
  BY <1>1, <1>3, Returns DEF TypeOK
<1>4. CASE Goto(h, "check") /\ UNCHANGED loc
  BY <1>1, <1>4, GoesOn DEF TypeOK, Pc
<1>5. QED
  BY <1>2, <1>3, <1>4 DEF Verify

LEMMA CheckStep == ASSUME IInv, NEW h \in Handlers, Check(h) PROVE IInv'
<1>1. ~Unreset(h) /\ TypeOK /\ UNCHANGED <<registry, matter, queue, raced, ops, faults>>
  BY DEF Check, Unreset, IInv
<1>2. QED
  BY <1>1, Returns, GoesOn DEF Check, TypeOK, Pc

LEMMA EnqueueStep == ASSUME IInv, NEW h \in Handlers, Enqueue(h) PROVE IInv'
<1>1. ~Unreset(h) /\ TypeOK /\ UNCHANGED <<registry, matter, raced, ops>>
  BY DEF Enqueue, Unreset, IInv
<1>2. queue' \subseteq 0 .. RETRY_LIMIT
  <2>1. 0 \in 0 .. RETRY_LIMIT
    BY LinkAssumption
  <2>2. QED
    BY <1>1, <2>1 DEF Enqueue, TypeOK
<1>3. faults' \in 0 .. MaxFaults
  BY <1>1, LinkAssumption DEF Enqueue, TypeOK
<1>4. CASE Return(h)
  BY <1>1, <1>2, <1>3, <1>4, Returns
<1>5. CASE Goto(h, "fail") /\ UNCHANGED loc
  BY <1>1, <1>2, <1>3, <1>5, GoesOn DEF Pc
<1>6. QED
  BY <1>4, <1>5 DEF Enqueue

LEMMA PeekStep == ASSUME IInv, NEW h \in Handlers, Peek(h) PROVE IInv'
<1>1. ~Unreset(h) /\ TypeOK /\ UNCHANGED <<registry, matter, queue, raced, ops, faults>>
  BY DEF Peek, Unreset, IInv
<1>2. QED
  BY <1>1, Returns, GoesOn DEF Peek, TypeOK, Pc

LEMMA ReadCaseStep == ASSUME IInv, NEW h \in Handlers, ReadCase(h) PROVE IInv'
<1> DEFINE a == IF Usable(cnr) THEN loc[h].answer ELSE "case"
           x == [loc[h] EXCEPT !.read = cnr, !.answer = a]
           p == IF Usable(cnr) THEN "ask" ELSE "fail"
<1>1. ~Unreset(h) /\ TypeOK /\ UNCHANGED <<registry, matter, queue, raced, ops, faults>>
  BY DEF ReadCase, Unreset, IInv
<1>2. a \in {"found", "not_found", "case", "upstream"} /\ cnr \in Cnrs \cup {NoCnr}
  BY <1>1 DEF TypeOK, Loc
<1>3. pc' = [pc EXCEPT ![h] = p] /\ loc' = [loc EXCEPT ![h] = x]
  BY <1>1 DEF ReadCase, Goto, TypeOK
<1> HIDE DEF a
<1>4. x \in Loc /\ x.read = cnr
  BY <1>1, <1>2 DEF TypeOK, Loc
<1>5. p \in Pc /\ (p \in {"ask", "commit"} => x.read \in Cnrs)
  BY <1>4 DEF Pc, Usable
<1> HIDE DEF x, p
<1>6. QED
  BY <1>1, <1>3, <1>4, <1>5, QuietStep DEF matter, TypeOK

\* eCourts answers or does not; the CNR read stays.
LEMMA AnswerStep ==
    ASSUME IInv, NEW h \in Handlers, Answer(h) \/ Unreachable(h)
    PROVE  IInv'
<1>1. /\ pc[h] = "ask" /\ ~Unreset(h) /\ TypeOK
      /\ UNCHANGED <<registry, matter, queue, raced, ops, faults>>
  BY DEF Answer, Unreachable, Unreset, IInv
<1>2. ASSUME NEW a \in {"found", "not_found", "upstream"}, NEW p \in {"commit", "fail", "requeue"},
             loc' = [loc EXCEPT ![h].answer = a], Goto(h, p)
      PROVE  IInv'
  <2> DEFINE x == [loc[h] EXCEPT !.answer = a]
  <2>1. x \in Loc /\ x.read = loc[h].read /\ loc' = [loc EXCEPT ![h] = x] /\ p \in Pc
    BY <1>1, <1>2 DEF TypeOK, Loc, Pc
  <2>2. x.read \in Cnrs
    BY <1>1, <2>1 DEF IInv, Asked
  <2> HIDE DEF x
  <2>3. QED
    BY <1>1, <1>2, <2>1, <2>2, QuietStep DEF Goto, matter, TypeOK
<1>3. QED
  BY <1>2 DEF Answer, Unreachable

LEMMA FailStep == ASSUME IInv, NEW h \in Handlers, Fail(h) PROVE IInv'
<1>1. /\ ~Unreset(h) /\ TypeOK
      /\ pc' = [pc EXCEPT ![h] = "idle"] /\ loc' = [loc EXCEPT ![h] = NoLoc]
      /\ UNCHANGED <<registry, cnr, source, open, deleted, raced, ops, faults>>
  BY DEF Fail, Return, Goto, Unreset, IInv
<1>2. link' \in LinkStatus /\ (link' = "linked" => link = "linked")
  BY <1>1, FailureType DEF Fail, TypeOK
<1>3. queue' \subseteq 0 .. RETRY_LIMIT
  BY <1>1, RetriedType DEF Fail, TypeOK
<1>4. QED
  BY <1>1, <1>2, <1>3, NoLocType, QuietStep DEF TypeOK, Pc

\* A new CNR: either the link state is still to be reset, or the edit compared
\* with a CNR that was not there any more, or nothing changed.
LEMMA SetCnrStep == ASSUME IInv, NEW h \in Handlers, SetCnr(h) PROVE IInv'
<1>1. /\ pc[h] = "set" /\ ~Unreset(h) /\ TypeOK
      /\ UNCHANGED <<registry, link, source, open, deleted, queue, ops, faults>>
  BY DEF SetCnr, Unreset, IInv
<1>2. CASE Return(h) /\ UNCHANGED <<cnr, raced>>
  BY <1>1, <1>2, Returns DEF matter, TypeOK
<1>3. CASE cnr' = loc[h].want /\ raced' \in BOOLEAN
  <2>1. cnr' \in Cnrs \cup {NoCnr} /\ loc[h] \in Loc
    BY <1>1, <1>3 DEF TypeOK, Loc
  <2>2. ASSUME NEW p \in {"reset", "queue"}, Goto(h, p), UNCHANGED <<loc, raced>>,
               p = "queue" => loc[h].op = "edit"
        PROVE  IInv'
    <3>1. /\ pc' = [pc EXCEPT ![h] = p] /\ loc' = [loc EXCEPT ![h] = loc[h]] /\ p \in Pc
          /\ p \notin {"ask", "commit"}
      BY <1>1, <2>2 DEF Goto, TypeOK, Pc
    <3>2. /\ pc' \in [Handlers -> Pc] /\ loc' \in [Handlers -> Loc] /\ Asked'
          /\ pc'[h] = p /\ loc'[h] = loc[h]
      BY <2>1, <3>1, HandlerMoves
    <3>3. Unreset(h)'
      BY <2>2, <3>2 DEF Unreset
    <3>4. TypeOK'
      BY <1>1, <1>3, <2>1, <3>2 DEF TypeOK
    <3>5. QED
      BY <1>1, <3>2, <3>3, <3>4 DEF IInv, ShowsItsRecord, LinkedWasFetched
  <2>3. CASE Return(h) /\ ~SeesChange(h) /\ raced' = (raced \/ cnr # loc[h].read)
    <3>1. /\ pc' = [pc EXCEPT ![h] = "idle"] /\ loc' = [loc EXCEPT ![h] = NoLoc]
          /\ "idle" \in Pc
      BY <2>3 DEF Return, Goto, Pc
    <3>2. /\ pc' \in [Handlers -> Pc] /\ loc' \in [Handlers -> Loc] /\ Asked'
          /\ \A g \in Handlers \ {h} : Unreset(g)' <=> Unreset(g)
      BY <3>1, NoLocType, HandlerMoves
    <3>3. cnr' = cnr \/ raced'
      BY <1>3, <2>3 DEF SeesChange
    <3>4. raced => raced'
      BY <2>3
    <3>5. TypeOK'
      BY <1>1, <1>3, <2>1, <3>2 DEF TypeOK
    <3>6. QED
      BY <1>1, <3>2, <3>3, <3>4, <3>5 DEF IInv, ShowsItsRecord, LinkedWasFetched
  <2>4. \/ Goto(h, "reset") /\ UNCHANGED <<loc, raced>>
        \/ Goto(h, "queue") /\ UNCHANGED <<loc, raced>> /\ loc[h].op = "edit"
        \/ Return(h) /\ ~SeesChange(h) /\ raced' = (raced \/ cnr # loc[h].read)
        \/ Return(h) /\ UNCHANGED <<cnr, raced>>
    BY DEF SetCnr
  <2>5. QED
    BY <1>2, <2>2, <2>3, <2>4
<1>4. raced' \in BOOLEAN
  BY <1>1 DEF SetCnr, TypeOK
<1>5. QED
  BY <1>2, <1>3, <1>4 DEF SetCnr

\* The reset: the matter is no longer connected, or the reset missed it.
LEMMA ResetLinkStateShows ==
    ASSUME IInv, ResetLinkState, UNCHANGED <<registry, cnr, source, open, deleted, ops>>,
           pc' \in [Handlers -> Pc], loc' \in [Handlers -> Loc], Asked',
           queue' \subseteq 0 .. RETRY_LIMIT, faults' \in 0 .. MaxFaults
    PROVE  IInv'
<1>1. /\ link' \in LinkStatus /\ raced' \in BOOLEAN
      /\ link' = "linked" => link = "linked" /\ raced'
  BY FreshType DEF ResetLinkState, IInv, TypeOK
<1>2. QED
  BY <1>1 DEF IInv, TypeOK, ShowsItsRecord, LinkedWasFetched

LEMMA ResetStep == ASSUME IInv, NEW h \in Handlers, Reset(h) PROVE IInv'
<1> DEFINE p == IF loc[h].op = "attach" THEN "queue" ELSE "read"
<1>1. /\ pc' = [pc EXCEPT ![h] = p] /\ loc' = [loc EXCEPT ![h] = loc[h]] /\ loc[h] \in Loc
      /\ p \in Pc /\ p \notin {"ask", "commit"} /\ TypeOK
  BY DEF Reset, Goto, Pc, IInv, TypeOK
<1> HIDE DEF p
<1>2. pc' \in [Handlers -> Pc] /\ loc' \in [Handlers -> Loc] /\ Asked'
  BY <1>1, HandlerMoves
<1>3. QED
  BY <1>1, <1>2, ResetLinkStateShows DEF Reset, TypeOK

LEMMA QueueLinkStep == ASSUME IInv, NEW h \in Handlers, QueueLink(h) PROVE IInv'
<1>1. TypeOK /\ loc[h] \in Loc /\ NoLoc \in Loc /\ {"enqueue", "fail", "idle"} \subseteq Pc
  BY NoLocType DEF Pc, IInv, TypeOK
<1>2. PICK p \in {"enqueue", "fail", "idle"}, x \in {loc[h], NoLoc} :
          pc' = [pc EXCEPT ![h] = p] /\ loc' = [loc EXCEPT ![h] = x]
  BY <1>1 DEF QueueLink, Return, Goto, TypeOK
<1>3. pc' \in [Handlers -> Pc] /\ loc' \in [Handlers -> Loc] /\ Asked'
  BY <1>1, <1>2, HandlerMoves
<1>4. QED
  BY <1>1, <1>3, ResetLinkStateShows DEF QueueLink, TypeOK

\* A commit shows what it has read; it is out of step if that is not the CNR.
LEMMA CommitStep == ASSUME IInv, NEW h \in Handlers, Commit(h) PROVE IInv'
<1>1. /\ pc[h] = "commit" /\ TypeOK
      /\ pc' = [pc EXCEPT ![h] = "idle"] /\ loc' = [loc EXCEPT ![h] = NoLoc] /\ "idle" \in Pc
  BY DEF Commit, Return, Goto, Pc, IInv
<1>2. loc[h].read \in Cnrs
  BY <1>1 DEF IInv, Asked
<1>3. pc' \in [Handlers -> Pc] /\ loc' \in [Handlers -> Loc] /\ Asked'
  BY <1>1, NoLocType, HandlerMoves
<1>4. TypeOK'
  BY <1>1, <1>2, <1>3 DEF Commit, TypeOK, LinkStatus
<1>5. ShowsItsRecord' /\ LinkedWasFetched'
  BY <1>2, LinkAssumption DEF Commit, ShowsItsRecord, LinkedWasFetched
<1>6. QED
  BY <1>3, <1>4, <1>5 DEF IInv

LEMMA CrashStep == ASSUME IInv, NEW h \in Handlers, Crash(h) PROVE IInv'
<1>1. /\ pc' = [pc EXCEPT ![h] = "idle"] /\ loc' = [loc EXCEPT ![h] = NoLoc] /\ "idle" \in Pc
      /\ raced' = (raced \/ Unreset(h)) /\ TypeOK
      /\ UNCHANGED <<registry, cnr, link, source, open, deleted, ops>>
  BY DEF Crash, Return, Goto, Pc, IInv, matter
<1>2. /\ pc' \in [Handlers -> Pc] /\ loc' \in [Handlers -> Loc] /\ Asked'
      /\ \A g \in Handlers \ {h} : Unreset(g)' <=> Unreset(g)
  BY <1>1, NoLocType, HandlerMoves
<1>3. queue' \subseteq 0 .. RETRY_LIMIT /\ faults' \in 0 .. MaxFaults /\ raced' \in BOOLEAN
  BY <1>1, RetriedType, LinkAssumption DEF Crash, TypeOK
<1>4. TypeOK'
  BY <1>1, <1>2, <1>3 DEF TypeOK
<1>5. ShowsItsRecord' /\ LinkedWasFetched'
  BY <1>1, <1>2 DEF IInv, ShowsItsRecord, LinkedWasFetched
<1>6. QED
  BY <1>2, <1>4, <1>5 DEF IInv

-----------------------------------------------------------------------------
(* The theorems *)

LEMMA NextIInv == IInv /\ [Next]_vars => IInv'
<1> SUFFICES ASSUME IInv, [Next]_vars PROVE IInv'
  OBVIOUS
<1>1. CASE UNCHANGED vars
  BY <1>1 DEF vars, IInv, TypeOK, Asked, LinkedWasFetched, ShowsItsRecord, Unreset
<1>2. CASE Trash \/ \E c \in Cnrs : Register(c)
  BY <1>2, TrashStep, RegisterStep
<1>3. ASSUME NEW h \in Handlers,
             Request(h) \/ BeginSweep(h) \/ (\E used \in queue : TakeJob(h, used)) \/ Crash(h)
      PROVE  IInv'
  BY <1>3, RequestStep, BeginSweepStep, TakeJobStep, CrashStep
<1>4. ASSUME NEW h \in Handlers, Work(h)
      PROVE  IInv'
  BY <1>4, VerifyStep, CheckStep, SetCnrStep, ResetStep, QueueLinkStep, EnqueueStep,
     PeekStep, ReadCaseStep, AnswerStep, CommitStep, FailStep DEF Work
<1>5. QED
  BY <1>1, <1>2, <1>3, <1>4 DEF Next

\* Every reachable state satisfies the inductive invariant.
THEOREM Inductive == Spec => []IInv
  BY InitIInv, NextIInv, PTL DEF Spec

\* Every variable keeps its type; a link job is retried RETRY_LIMIT times at most.
THEOREM TypeCorrect == Spec => []TypeOK
<1>1. IInv => TypeOK
  BY DEF IInv
<1>2. QED
  BY <1>1, Inductive, PTL

\* However many handlers race, fail and die, no matter is marked linked that
\* was never read from eCourts.
THEOREM LinkedIsFetched == Spec => []LinkedWasFetched
<1>1. IInv => LinkedWasFetched
  BY DEF IInv
<1>2. QED
  BY <1>1, Inductive, PTL

\* A connected matter shows the record of its own CNR, but for the reset still
\* to come and the four ways of writing the two out of step.
THEOREM RecordShown == Spec => []ShowsItsRecord
<1>1. IInv => ShowsItsRecord
  BY DEF IInv
<1>2. QED
  BY <1>1, Inductive, PTL

=============================================================================
