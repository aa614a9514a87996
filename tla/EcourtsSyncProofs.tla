------------------------- MODULE EcourtsSyncProofs -------------------------
(***************************************************************************)
(* Theorems about EcourtsSync for every number of cases, workers, attempts *)
(* and runs: its type correctness, how far the overlap guard goes, and     *)
(* that an announced retry is on its way.  The inductive invariant is      *)
(* TypeOK /\ GuardInv; each action preserves both, and OverlapOnlyByRace   *)
(* follows from GuardInv alone; RetryInv is inductive given the two.       *)
(***************************************************************************)
EXTENDS EcourtsSync, FiniteSetTheorems, WellFoundedInduction, TLAPS

IInv == TypeOK /\ GuardInv

-----------------------------------------------------------------------------
(* Facts about the operators *)

\* Every date the clock can show is a date, and so is the latest due slot's.
LEMMA DueSlotType ==
    ASSUME NEW t \in Times
    PROVE  /\ Day(t) \in Dates
           /\ LatestDueSlot(t).slot \in {"morning", "evening"}
           /\ LatestDueSlot(t).date \in Dates
<1>1. Day(t) \in Dates
  BY DEF Dates
<1>2. CASE t % 3 = 0
  <2>1. t # 1
    BY <1>2 DEF Times
  <2>2. t - 1 \in Times
    BY <2>1, ParamAssumption DEF Times
  <2>3. QED
    BY <1>1, <1>2, <2>2 DEF LatestDueSlot, Dates
<1>3. CASE t % 3 # 0
  BY <1>1, <1>3 DEF LatestDueSlot, Times, ParamAssumption
<1>4. QED
  BY <1>2, <1>3

\* Jobs are well typed as the handlers make them.
LEMMA JobType ==
    /\ NoJob \in Job
    /\ \A s \in Slots : SlotJob(s) \in Job
    /\ \A t \in Times : CatchupJob(LatestDueSlot(t)) \in Job
    /\ \A s \in Slots, d \in Dates, a \in 1 .. MAX_ATTEMPTS, b \in 0 .. MAX_BUSY_DEFERRALS :
          RetryJob(s, d, a, b) \in Job
<1>1. NoJob \in Job
  BY ParamAssumption DEF NoJob, Job, Kinds, Slots
<1>2. \A s \in Slots : SlotJob(s) \in Job
  BY <1>1, ParamAssumption DEF SlotJob, Job, NoJob, Kinds, Slots
<1>3. \A t \in Times : CatchupJob(LatestDueSlot(t)) \in Job
  BY DueSlotType, ParamAssumption DEF CatchupJob, Job, Kinds, Slots
<1>4. QED
  BY <1>1, <1>2, <1>3 DEF RetryJob, Job, Kinds

\* The idle locals are well typed.
LEMMA NoCtxType == NoCtx \in Ctx
  BY ParamAssumption DEF NoCtx, Ctx

\* Sets of cases are finite.
LEMMA CaseSets == \A S \in SUBSET Cases : IsFiniteSet(S) /\ Cardinality(S) \in Nat
  BY FS_Subset, FS_CardinalityType, ParamAssumption

\* Closing rows keeps them rows, and touches only the old running ones.
LEMMA ClosedType ==
    ASSUME TypeOK
    PROVE  /\ Closed \in [RunIds -> Row]
           /\ \A i \in RunIds : /\ i > nruns <=> Closed[i].status = "none"
                                /\ Closed[i].old = runs[i].old
                                /\ Closed[i].status = runs[i].status \/ runs[i].old
                                /\ Closed[i].status = "running" =>
                                       runs[i].status = "running" /\ ~runs[i].old
<1>1. ASSUME NEW i \in RunIds, i \in RunningRows, runs[i].old
      PROVE  /\ Closed[i] \in Row
             /\ Closed[i].status = "failed" /\ Closed[i].old
             /\ i <= nruns /\ runs[i].status = "running"
  BY <1>1 DEF TypeOK, Closed, Row, RunStatus, RunningRows
<1>2. ASSUME NEW i \in RunIds, ~(i \in RunningRows /\ runs[i].old)
      PROVE  Closed[i] = runs[i]
  BY <1>2 DEF Closed
<1>3. ASSUME NEW i \in RunIds
      PROVE  /\ runs[i] \in Row
             /\ i > nruns <=> runs[i].status = "none"
             /\ nruns \in Int /\ i \in Int
             /\ runs[i].status = "running" => i <= nruns
  BY <1>3 DEF TypeOK, RunIds
<1>4. Closed \in [RunIds -> Row]
  BY <1>1, <1>2, <1>3 DEF Closed
<1>5. SUFFICES ASSUME NEW i \in RunIds
               PROVE  /\ i > nruns <=> Closed[i].status = "none"
                      /\ Closed[i].old = runs[i].old
                      /\ Closed[i].status = runs[i].status \/ runs[i].old
                      /\ Closed[i].status = "running" => runs[i].status = "running" /\ ~runs[i].old
  BY <1>4
<1>6. CASE i \in RunningRows /\ runs[i].old
  BY <1>1, <1>3, <1>6
<1>7. CASE ~(i \in RunningRows /\ runs[i].old)
  BY <1>2, <1>3, <1>7 DEF RunningRows
<1>8. QED
  BY <1>6, <1>7

-----------------------------------------------------------------------------
(* The initial states *)

LEMMA InitIInv == Init => IInv
<1> SUFFICES ASSUME Init PROVE IInv
  OBVIOUS
<1>1. NoRow \in Row /\ NoRow.status = "none"
  <2>1. 1 \in Times /\ Day(1) = 1
    BY ParamAssumption DEF Times, Day
  <2>2. 1 \in Dates
    BY <2>1, DueSlotType
  <2>3. QED
    BY <2>2, ParamAssumption DEF NoRow, Row, RunStatus, Slots
<1>2. NoSummary \in Summary
  BY DEF NoSummary, Summary
<1>3. cases \in [Cases -> Case]
  <2> DEFINE known == [live |-> TRUE,  link |-> "linked",  synced |-> 0, tried |-> 0]
             fresh == [live |-> FALSE, link |-> "pending", synced |-> 0, tried |-> 0]
  <2>1. known \in Case /\ fresh \in Case
    BY ParamAssumption DEF Case, LinkStatus
  <2>2. cases \in [Cases -> {known, fresh}]
    BY Zenon DEF Init, StartsAt
  <2> HIDE DEF known, fresh
  <2>3. QED
    BY <2>1, <2>2
<1>4. queue \subseteq Job
  BY JobType DEF Init, StartsAt, LatestDueSlot, Slots
<1>5. TypeOK
  <2>1. now \in Times /\ graceOver \in BOOLEAN /\ nruns \in 0 .. MaxRuns
        /\ faults \in 0 .. MaxFaults /\ user \in 0 .. MaxUser
    <3>1. now = 1 /\ graceOver = FALSE /\ nruns = 0 /\ faults = 0 /\ user = 0
      BY Zenon DEF Init, StartsAt
    <3>2. graceOver \in BOOLEAN
      BY <3>1
    <3>3. 1 \in Times /\ 0 \in 0 .. MaxRuns /\ 0 \in 0 .. MaxFaults /\ 0 \in 0 .. MaxUser
      BY ParamAssumption DEF Times
    <3>4. QED
      BY <3>1, <3>2, <3>3
  <2>2. /\ runs \in [RunIds -> Row]
        /\ \A i \in RunIds : i > nruns <=> runs[i].status = "none"
    BY <1>1, ParamAssumption DEF Init, StartsAt, RunIds
  <2>3. pc \in [Workers -> Pc] /\ job \in [Workers -> Job] /\ ctx \in [Workers -> Ctx]
    BY NoCtxType, JobType DEF Init, StartsAt, Pc
  <2>4. summary \in [Slots -> [Dates -> Summary]] /\ lost \subseteq Slots \X Dates
    BY <1>2 DEF Init, StartsAt
  <2>5. QED
    BY <1>3, <1>4, <2>1, <2>2, <2>3, <2>4 DEF TypeOK
<1>6. GuardInv
  <2>1. \A w \in Workers : pc[w] = "idle" /\ ctx[w].streak = 0
    BY DEF Init, StartsAt, NoCtx
  <2>2. QED
    BY <2>1 DEF GuardInv, WorkerInv, HoldsRow, Walking
<1>7. QED
  BY <1>5, <1>6 DEF IInv

-----------------------------------------------------------------------------
(* The environment *)

\* Steps that leave the rows and the workers alone keep GuardInv.
LEMMA GuardFrame ==
    GuardInv /\ UNCHANGED <<runs, nruns, pc, ctx>> => GuardInv'
  BY DEF GuardInv, WorkerInv, HoldsRow, Walking

LEMMA TickStep == IInv /\ Tick => IInv'
<1> SUFFICES ASSUME IInv, Tick PROVE IInv'
  OBVIOUS
<1>1. now' \in Times
  BY ParamAssumption DEF IInv, TypeOK, Tick, Times
<1>2. SlotJob(LatestDueSlot(now').slot) \in Job
  BY <1>1, DueSlotType, JobType DEF Slots
<1>3. TypeOK'
  BY <1>1, <1>2 DEF IInv, TypeOK, Tick, dbVars
<1>4. QED
  BY <1>3, GuardFrame DEF IInv, Tick, dbVars

LEMMA GraceEndsStep == IInv /\ GraceEnds => IInv'
  BY GuardFrame DEF IInv, TypeOK, GraceEnds, dbVars

LEMMA WatchdogStep == IInv /\ Watchdog => IInv'
<1> SUFFICES ASSUME IInv, Watchdog PROVE IInv'
  OBVIOUS
<1>1. CatchupJob(LatestDueSlot(now)) \in Job
  BY JobType DEF IInv, TypeOK
<1>2. QED
  BY <1>1, GuardFrame DEF IInv, TypeOK, Watchdog, dbVars, envVars

LEMMA RunAgesStep == ASSUME IInv, NEW i \in RunIds, RunAges(i) PROVE IInv'
<1>1. /\ runs' \in [RunIds -> Row]
      /\ \A j \in RunIds : runs'[j].status = runs[j].status /\ (runs[j].old => runs'[j].old)
  <2>1. runs \in [RunIds -> Row] /\ runs' = [runs EXCEPT ![i] = [runs[i] EXCEPT !.old = TRUE]]
    BY DEF IInv, TypeOK, RunAges
  <2>2. [runs[i] EXCEPT !.old = TRUE] \in Row /\ [runs[i] EXCEPT !.old = TRUE].status = runs[i].status
    BY <2>1 DEF Row
  <2>3. \A j \in RunIds \ {i} : runs'[j] = runs[j]
    BY <2>1
  <2>4. runs'[i].status = runs[i].status /\ (runs[i].old => runs'[i].old) /\ runs' \in [RunIds -> Row]
    BY <2>1, <2>2 DEF Row
  <2>5. QED
    BY <2>3, <2>4
<1>2. TypeOK'
  BY <1>1 DEF IInv, TypeOK, RunAges, envVars
<1>3. GuardInv'
  <2>1. \A w \in Workers : HoldsRow(w) => ctx[w].run \in RunIds
    BY DEF IInv, TypeOK, GuardInv, WorkerInv, RunIds, Ctx
  <2>2. QED
    BY <1>1, <2>1 DEF IInv, GuardInv, WorkerInv, RunAges, HoldsRow, Walking
<1>4. QED
  BY <1>2, <1>3 DEF IInv

LEMMA ManualRunStep == IInv /\ ManualRun => IInv'
<1> SUFFICES ASSUME IInv, ManualRun PROVE IInv'
  OBVIOUS
<1>1. SlotJob("manual") \in Job
  BY JobType DEF Slots
<1>2. user' \in 0 .. MaxUser
  BY ParamAssumption DEF IInv, TypeOK, ManualRun
<1>3. QED
  BY <1>1, <1>2, GuardFrame DEF IInv, TypeOK, ManualRun, dbVars, envVars

\* What one case can become is a case.
LEMMA CaseType ==
    ASSUME TypeOK, NEW c \in Cases
    PROVE  /\ Synced(c) \subseteq Case
           /\ NotFound(c) \in Case /\ CaseError(c) \in Case /\ Upstream(c) \in Case
<1>1. cases[c] \in Case /\ nruns \in 0 .. MaxRuns
  BY DEF TypeOK
<1>2. Synced(c) \subseteq Case
  <2>1. \A l \in BOOLEAN : [live |-> l, link |-> "linked", synced |-> nruns, tried |-> nruns] \in Case
    BY <1>1 DEF Case, LinkStatus
  <2>2. QED
    BY <2>1 DEF Synced
<1>3. NotFound(c) \in Case /\ CaseError(c) \in Case
  BY <1>1 DEF NotFound, CaseError, Case, LinkStatus
<1>4. Upstream(c) \in Case
  BY <1>1 DEF Upstream, Case, LinkStatus
<1>5. QED
  BY <1>2, <1>3, <1>4

LEMMA CaseAddedStep == ASSUME IInv, NEW c \in Cases, CaseAdded(c) PROVE IInv'
<1>1. cases' \in [Cases -> Case] /\ user' \in 0 .. MaxUser
  BY ParamAssumption DEF IInv, TypeOK, CaseAdded, Case, LinkStatus
<1>2. QED
  BY <1>1, GuardFrame DEF IInv, TypeOK, CaseAdded, envVars

LEMMA UserSyncStep == ASSUME IInv, NEW c \in Cases, UserSync(c) PROVE IInv'
<1>1. cases' \in [Cases -> Case] /\ user' \in 0 .. MaxUser
  BY CaseType, ParamAssumption DEF IInv, TypeOK, UserSync
<1>2. QED
  BY <1>1, GuardFrame DEF IInv, TypeOK, UserSync, envVars

-----------------------------------------------------------------------------
(* The handlers *)

\* A step of worker w that only ends runs, and none but its own unless it is
\* old, keeps every other worker's invariant.
LEMMA OtherWorkers ==
    ASSUME IInv, NEW w \in Workers,
           nruns' \in Nat, nruns' >= nruns,
           \A i \in RunIds : i <= nruns =>
               /\ runs'[i].status = "running" => runs[i].status = "running"
               /\ runs[i].old => runs'[i].old
               /\ \/ runs'[i].status = runs[i].status
                  \/ runs'[i].old
                  \/ HoldsRow(w) /\ i = ctx[w].run,
           \A v \in Workers \ {w} : pc'[v] = pc[v] /\ ctx'[v] = ctx[v]
    PROVE  \A v \in Workers \ {w} : WorkerInv(v)'
<1> TAKE v \in Workers \ {w}
<1>1. /\ v \in Workers /\ v # w /\ pc'[v] = pc[v] /\ ctx'[v] = ctx[v]
      /\ WorkerInv(v)
      /\ ctx[v] \in Ctx /\ nruns \in 0 .. MaxRuns
      /\ HoldsRow(v) /\ HoldsRow(w) => ctx[v].run # ctx[w].run
  BY DEF IInv, TypeOK, GuardInv
<1>2. HoldsRow(v)' <=> HoldsRow(v)
  BY <1>1 DEF HoldsRow
<1>3. Walking(v)' <=> Walking(v)
  BY <1>1 DEF Walking
<1>4. HoldsRow(v) => ctx[v].run \in RunIds /\ ctx[v].run <= nruns /\ ctx[v].seen < ctx[v].run
  BY <1>1 DEF WorkerInv, RunIds, Ctx
<1>5. Walking(v) => HoldsRow(v)
  BY DEF Walking, HoldsRow
<1>6. Walking(v) => runs'[ctx[v].run].status = "running" \/ runs'[ctx[v].run].old
  BY <1>1, <1>4, <1>5 DEF WorkerInv
<1>7. pc[v] = "insert" \/ HoldsRow(v) =>
          \A i \in RunIds : i <= ctx[v].seen => runs'[i].status # "running"
  BY <1>1, <1>4 DEF WorkerInv, RunIds, Ctx
<1>8. pc[v] = "insert" => ctx[v].seen <= nruns'
  BY <1>1 DEF WorkerInv, Ctx
<1>9. HoldsRow(v) => ctx[v].seen < ctx[v].run /\ ctx[v].run <= nruns'
  BY <1>1, <1>4 DEF RunIds
<1>10. /\ pc[v] # "idle" => ctx[v].date \in Dates
       /\ pc[v] = "loop" /\ ctx[v].todo # {} => ctx[v].streak < BREAKER_THRESHOLD
       /\ pc[v] \in {"idle", "recheck", "guard", "insert", "select"} => ctx[v].streak = 0
  BY <1>1 DEF WorkerInv
<1>11. QED
  BY <1>1, <1>2, <1>3, <1>6, <1>7, <1>8, <1>9, <1>10 DEF WorkerInv

\* The handler's return leaves well-typed, idle state.
LEMMA ReturnFrame ==
    ASSUME IInv, NEW w \in Workers, Return(w)
    PROVE  /\ pc' \in [Workers -> Pc] /\ job' \in [Workers -> Job] /\ ctx' \in [Workers -> Ctx]
           /\ WorkerInv(w)' /\ ~HoldsRow(w)'
           /\ \A v \in Workers \ {w} : pc'[v] = pc[v] /\ ctx'[v] = ctx[v]
<1>1. pc' \in [Workers -> Pc] /\ job' \in [Workers -> Job] /\ ctx' \in [Workers -> Ctx]
  BY NoCtxType, JobType DEF IInv, TypeOK, Return, Goto, Pc
<1>2. pc'[w] = "idle" /\ ctx'[w] = NoCtx
  BY DEF IInv, TypeOK, Return, Goto
<1>3. ~HoldsRow(w)' /\ ~Walking(w)'
  BY <1>2 DEF HoldsRow, Walking
<1>4. NoCtx.streak = 0
  BY DEF NoCtx
<1>5. WorkerInv(w)'
  BY <1>2, <1>3, <1>4 DEF WorkerInv
<1>6. QED
  BY <1>1, <1>3, <1>5 DEF IInv, TypeOK, Return, Goto

\* Workers keep distinct rows when no other worker moves and w, if it holds a
\* row, keeps its own or takes one past nruns.
LEMMA DistinctRows ==
    ASSUME IInv, NEW w \in Workers,
           \A v \in Workers \ {w} : pc'[v] = pc[v] /\ ctx'[v] = ctx[v],
           HoldsRow(w)' => \/ HoldsRow(w) /\ ctx'[w].run = ctx[w].run
                           \/ ctx'[w].run > nruns
    PROVE  \A u, v \in Workers : HoldsRow(u)' /\ HoldsRow(v)' /\ u # v => ctx'[u].run # ctx'[v].run
<1>1. \A v \in Workers \ {w} : HoldsRow(v)' <=> HoldsRow(v)
  BY DEF HoldsRow
<1>2. \A v \in Workers : HoldsRow(v) => ctx[v].run <= nruns /\ ctx[v].run \in Int
  BY DEF IInv, TypeOK, GuardInv, WorkerInv, Ctx
<1>3. nruns \in Int
  BY DEF IInv, TypeOK
<1>4. QED
  BY <1>1, <1>2, <1>3 DEF IInv, GuardInv

LEMMA TakeStep == ASSUME IInv, NEW w \in Workers, NEW j \in queue, Take(w, j) PROVE IInv'
<1>1. j \in Job /\ now \in Times /\ ctx[w] \in Ctx
  BY DEF IInv, TypeOK
<1>2. Day(now) \in Dates
  BY <1>1, DueSlotType
<1>3. DEFINE d == IF j.date = NoDate THEN Day(now) ELSE j.date
<1>4. d \in Dates
  BY <1>1, <1>2 DEF Job
<1>5. /\ pc' = [pc EXCEPT ![w] = IF j.kind = "catchup" THEN "recheck" ELSE "guard"]
      /\ ctx' = [ctx EXCEPT ![w].date = d]
      /\ job' = [job EXCEPT ![w] = j]
      /\ queue' = queue \ {j}
      /\ pc[w] = "idle"
      /\ UNCHANGED <<envVars, dbVars, lost, faults, user>>
  BY DEF Take, Goto
<1> HIDE DEF d
<1>6. ctx'[w] \in Ctx /\ ctx'[w].date \in Dates /\ ctx'[w].streak = ctx[w].streak
  BY <1>1, <1>4, <1>5 DEF IInv, TypeOK, Ctx
<1>7. TypeOK'
  BY <1>1, <1>5, <1>6 DEF IInv, TypeOK, envVars, dbVars, Pc
<1>8. pc'[w] \in {"recheck", "guard"}
  BY <1>5 DEF IInv, TypeOK
<1>9. WorkerInv(w)'
  BY <1>5, <1>6, <1>8 DEF IInv, GuardInv, WorkerInv, HoldsRow, Walking
<1>10. \A v \in Workers \ {w} : pc'[v] = pc[v] /\ ctx'[v] = ctx[v]
  BY <1>5 DEF IInv, TypeOK
<1>11. \A v \in Workers \ {w} : WorkerInv(v)'
  BY <1>5, <1>10, OtherWorkers DEF dbVars, IInv, TypeOK
<1>12. ~HoldsRow(w)'
  BY <1>8 DEF HoldsRow
<1>13. QED
  BY <1>7, <1>9, <1>10, <1>11, <1>12, DistinctRows DEF IInv, GuardInv

LEMMA RecheckStep == ASSUME IInv, NEW w \in Workers, Recheck(w) PROVE IInv'
<1>1. UNCHANGED <<envVars, queue, dbVars, faults, lost, user>> /\ pc[w] = "recheck"
  BY DEF Recheck
<1>2. CASE Return(w)
  BY <1>1, <1>2, ReturnFrame, OtherWorkers, DistinctRows
     DEF IInv, TypeOK, GuardInv, envVars, dbVars
<1>3. CASE Goto(w, "guard") /\ UNCHANGED <<job, ctx>>
  <2>1. TypeOK'
    BY <1>1, <1>3 DEF IInv, TypeOK, Goto, Pc, envVars, dbVars
  <2>2. GuardInv'
    BY <1>1, <1>3 DEF IInv, TypeOK, GuardInv, WorkerInv, HoldsRow, Walking, Goto, dbVars
  <2>3. QED
    BY <2>1, <2>2 DEF IInv
<1>4. QED
  BY <1>2, <1>3 DEF Recheck

LEMMA GuardFreeStep == ASSUME IInv, NEW w \in Workers, GuardFree(w) PROVE IInv'
<1>1. /\ pc[w] = "guard" /\ ~Busy /\ runs' = Closed
      /\ ctx' = [ctx EXCEPT ![w].seen = nruns]
      /\ pc' = [pc EXCEPT ![w] = "insert"]
      /\ UNCHANGED <<envVars, queue, nruns, cases, summary, job, faults, lost, user>>
  BY DEF GuardFree, Goto
<1>2. ctx[w] \in Ctx /\ nruns \in 0 .. MaxRuns
  BY DEF IInv, TypeOK
<1>3. /\ ctx'[w] \in Ctx /\ ctx'[w].seen = nruns
      /\ ctx'[w].date = ctx[w].date /\ ctx'[w].streak = ctx[w].streak
  BY <1>1, <1>2 DEF IInv, TypeOK, Ctx
<1>4. TypeOK'
  BY <1>1, <1>3, ClosedType DEF IInv, TypeOK, envVars, Pc
<1>5. \A v \in Workers \ {w} : pc'[v] = pc[v] /\ ctx'[v] = ctx[v]
  BY <1>1 DEF IInv, TypeOK
<1>6. \A v \in Workers \ {w} : WorkerInv(v)'
  BY <1>1, <1>2, <1>5, ClosedType, OtherWorkers DEF IInv
<1>7. pc'[w] = "insert" /\ ~HoldsRow(w)' /\ ~Walking(w)'
  BY <1>1 DEF IInv, TypeOK, HoldsRow, Walking
<1>8. \A i \in RunIds : i <= nruns => runs'[i].status # "running"
  BY <1>1 DEF Busy
<1>9. WorkerInv(w)'
  <2>1. ctx[w].date \in Dates /\ ctx[w].streak = 0
    BY <1>1 DEF IInv, GuardInv, WorkerInv
  <2>2. QED
    BY <1>1, <1>2, <1>3, <1>7, <1>8, <2>1 DEF WorkerInv
<1>10. QED
  BY <1>4, <1>5, <1>6, <1>7, <1>9, DistinctRows DEF IInv, GuardInv

LEMMA GuardBusyStep == ASSUME IInv, NEW w \in Workers, GuardBusy(w) PROVE IInv'
<1> DEFINE again == RetryJob(job[w].slot, ctx[w].date, job[w].attempt, job[w].busy + 1)
<1>1. /\ pc[w] = "guard" /\ runs' = Closed /\ Return(w)
      /\ UNCHANGED <<envVars, nruns, cases, summary, user>>
  BY DEF GuardBusy
<1>2. \/ job[w].busy + 1 <= MAX_BUSY_DEFERRALS /\ queue' = queue \cup {again} /\ UNCHANGED <<lost, faults>>
      \/ faults < MaxFaults /\ faults' = faults + 1 /\ lost' = lost \cup {KeyOf(w)} /\ UNCHANGED queue
      \/ lost' = lost \cup {KeyOf(w)} /\ UNCHANGED <<queue, faults>>
  BY DEF GuardBusy
<1>3. job[w] \in Job /\ ctx[w].date \in Dates
  BY <1>1 DEF IInv, TypeOK, GuardInv, WorkerInv
<1>4. KeyOf(w) \in Slots \X Dates
  BY <1>3 DEF KeyOf, Job
<1>5. job[w].busy + 1 <= MAX_BUSY_DEFERRALS => again \in Job
  <2>1. job[w].busy + 1 <= MAX_BUSY_DEFERRALS => job[w].busy + 1 \in 0 .. MAX_BUSY_DEFERRALS
    BY <1>3, ParamAssumption DEF Job
  <2>2. job[w].slot \in Slots /\ job[w].attempt \in 1 .. MAX_ATTEMPTS
    BY <1>3 DEF Job
  <2>3. QED
    BY <1>3, <2>1, <2>2, JobType
<1> HIDE DEF again
<1>6. queue' \subseteq Job /\ lost' \subseteq Slots \X Dates /\ faults' \in 0 .. MaxFaults
  BY <1>2, <1>4, <1>5, ParamAssumption DEF IInv, TypeOK
<1>7. TypeOK'
  BY <1>1, <1>6, ReturnFrame, ClosedType DEF IInv, TypeOK, envVars
<1>8. \A v \in Workers \ {w} : WorkerInv(v)'
  BY <1>1, ReturnFrame, ClosedType, OtherWorkers DEF IInv, TypeOK
<1>9. QED
  BY <1>1, <1>7, <1>8, ReturnFrame, DistinctRows DEF IInv, GuardInv

LEMMA InsertRunStep == ASSUME IInv, NEW w \in Workers, InsertRun(w) PROVE IInv'
<1> DEFINE row == [slot |-> job[w].slot, date |-> ctx[w].date, attempt |-> job[w].attempt,
                   status |-> "running", old |-> FALSE]
<1>1. /\ pc[w] = "insert" /\ nruns < MaxRuns /\ nruns' = nruns + 1
      /\ runs' = [runs EXCEPT ![nruns + 1] = row]
      /\ ctx' = [ctx EXCEPT ![w].run = nruns + 1]
      /\ pc' = [pc EXCEPT ![w] = "select"]
      /\ UNCHANGED <<envVars, queue, cases, summary, job, faults, lost, user>>
  BY DEF InsertRun, Goto
<1>2. /\ ctx[w] \in Ctx /\ nruns \in 0 .. MaxRuns /\ nruns + 1 \in RunIds /\ MaxRuns \in Nat
      /\ job[w] \in Job /\ ctx[w].date \in Dates
  BY <1>1, ParamAssumption DEF IInv, TypeOK, GuardInv, WorkerInv, RunIds
<1>3. row \in Row /\ row.status = "running" /\ ~row.old
  BY <1>2 DEF Row, RunStatus, Job
<1> HIDE DEF row
<1>4. /\ ctx'[w] \in Ctx /\ ctx'[w].run = nruns + 1 /\ ctx'[w].seen = ctx[w].seen
      /\ ctx'[w].date = ctx[w].date /\ ctx'[w].streak = ctx[w].streak
  <2>1. nruns + 1 \in 0 .. MaxRuns
    BY <1>2 DEF RunIds
  <2>2. QED
    BY <1>1, <1>2, <2>1 DEF IInv, TypeOK, Ctx
<1>5. /\ runs' \in [RunIds -> Row]
      /\ runs'[nruns + 1] = row
      /\ \A i \in RunIds : i # nruns + 1 => runs'[i] = runs[i]
  BY <1>1, <1>2, <1>3 DEF IInv, TypeOK
<1>6. \A i \in RunIds : i > nruns' <=> runs'[i].status = "none"
  <2>1. \A i \in RunIds : i > nruns <=> runs[i].status = "none"
    BY DEF IInv, TypeOK
  <2>2. QED
    BY <1>1, <1>2, <1>3, <1>5, <2>1 DEF RunIds
<1>7. TypeOK'
  BY <1>1, <1>2, <1>4, <1>5, <1>6 DEF IInv, TypeOK, envVars, Pc
<1>8. \A v \in Workers \ {w} : pc'[v] = pc[v] /\ ctx'[v] = ctx[v]
  BY <1>1 DEF IInv, TypeOK
<1>9. \A i \in RunIds : i <= nruns => runs'[i] = runs[i]
  BY <1>2, <1>5 DEF RunIds
<1>10. \A v \in Workers \ {w} : WorkerInv(v)'
  BY <1>1, <1>2, <1>8, <1>9, OtherWorkers
<1>11. pc'[w] = "select" /\ HoldsRow(w)' /\ ~HoldsRow(w)
  BY <1>1 DEF IInv, TypeOK, HoldsRow
<1>12. ctx[w].seen <= nruns /\ ctx[w].streak = 0
       /\ \A i \in RunIds : i <= ctx[w].seen => runs[i].status # "running"
  BY <1>1 DEF IInv, GuardInv, WorkerInv
<1>13. \A i \in RunIds : i <= ctx[w].seen => runs'[i].status # "running"
  BY <1>2, <1>9, <1>12 DEF RunIds, Ctx
<1>14. ctx'[w].seen < ctx'[w].run /\ ctx'[w].run <= nruns'
  BY <1>1, <1>2, <1>4, <1>12 DEF Ctx
<1>15. WorkerInv(w)'
  BY <1>2, <1>3, <1>4, <1>5, <1>11, <1>12, <1>13, <1>14 DEF WorkerInv
<1>16. ctx'[w].run > nruns
  BY <1>2, <1>4
<1>17. QED
  BY <1>7, <1>8, <1>10, <1>15, <1>16, DistinctRows DEF IInv, GuardInv

\* The cutoff of a run is a run.
LEMMA CutoffType ==
    ASSUME NEW s, NEW d, NEW a, NEW own \in 0 .. MaxRuns
    PROVE  Cutoff(s, d, a, own) \in 0 .. MaxRuns
<1>1. CASE a > 1 /\ FirstAttempts(s, d) # {}
  <2>2. FirstAttempts(s, d) \subseteq 1 .. MaxRuns
    BY DEF FirstAttempts, RunIds
  \* The intervals 1 .. i are well ordered by strict inclusion.
  <2>3. \E i \in FirstAttempts(s, d) : \A j \in FirstAttempts(s, d) : i <= j
    <3> DEFINE S == 1 .. MaxRuns
               T == {1 .. i : i \in FirstAttempts(s, d)}
    <3>1. IsFiniteSet(S)
      BY FS_Interval, ParamAssumption
    <3>2. T \subseteq FiniteSubsetsOf(S) /\ T # {}
      <4>1. \A i \in S : 1 .. i \in SUBSET S
        BY ParamAssumption
      <4>2. T \subseteq SUBSET S
        BY <2>2, <4>1
      <4>3. FiniteSubsetsOf(S) = SUBSET S
        BY <3>1, FS_FiniteSubsetsOfFinite
      <4>4. T # {}
        BY <1>1
      <4>5. QED
        BY <4>2, <4>3, <4>4
    <3>3. IsWellFoundedOn(StrictSubsetOrdering(S), FiniteSubsetsOf(S))
      BY FS_StrictSubsetOrderingWellFounded
    <3>4. \E x \in T : \A y \in T : ~ <<y, x>> \in StrictSubsetOrdering(S)
      BY <3>2, <3>3, WFMin
    <3>5. PICK i \in FirstAttempts(s, d) :
             \A j \in FirstAttempts(s, d) : ~ <<1 .. j, 1 .. i>> \in StrictSubsetOrdering(S)
      BY <3>4
    <3>6. ASSUME NEW j \in FirstAttempts(s, d), j < i
          PROVE  FALSE
      <4>1. i \in S /\ j \in S /\ i \in Nat /\ j \in Nat /\ MaxRuns \in Nat
        BY <2>2, ParamAssumption
      <4>2. 1 .. j \subseteq 1 .. i /\ i \in 1 .. i /\ i \notin 1 .. j
        BY <3>6, <4>1
      <4>3. 1 .. i \subseteq S /\ 1 .. j \subseteq S
        BY <4>1
      <4>4. QED
        BY <3>5, <4>2, <4>3 DEF StrictSubsetOrdering
    <3>7. QED
      BY <2>2, <3>6
  <2>4. QED
    BY <1>1, <2>2, <2>3, ParamAssumption DEF Cutoff
<1>2. CASE ~(a > 1 /\ FirstAttempts(s, d) # {})
  BY <1>2 DEF Cutoff
<1>3. QED
  BY <1>1, <1>2


LEMMA SelectRowsStep == ASSUME IInv, NEW w \in Workers, SelectRows(w) PROVE IInv'
<1> DEFINE cutoff == Cutoff(job[w].slot, ctx[w].date, job[w].attempt, ctx[w].run)
           todo   == Rows(job[w].attempt, cutoff)
<1>1. /\ pc[w] = "select"
      /\ ctx' = [ctx EXCEPT ![w].cutoff = cutoff, ![w].todo = todo, ![w].scanned = Cardinality(todo)]
      /\ pc' = [pc EXCEPT ![w] = "loop"]
      /\ UNCHANGED <<envVars, queue, dbVars, job, faults, lost, user>>
  BY DEF SelectRows, Goto
<1>2. ctx[w] \in Ctx
  BY DEF IInv, TypeOK
<1>3. cutoff \in 0 .. MaxRuns
  BY <1>2, CutoffType DEF Ctx
<1>4. todo \in SUBSET Cases /\ Cardinality(todo) \in Nat
  <2>1. todo \in SUBSET Cases
    BY DEF Rows, Unreachable
  <2>2. QED
    BY <2>1, CaseSets
<1> HIDE DEF cutoff, todo
<1>5. /\ ctx'[w] \in Ctx
      /\ ctx'[w].run = ctx[w].run /\ ctx'[w].seen = ctx[w].seen
      /\ ctx'[w].date = ctx[w].date /\ ctx'[w].streak = ctx[w].streak
  BY <1>1, <1>2, <1>3, <1>4 DEF IInv, TypeOK, Ctx
<1>6. TypeOK'
  BY <1>1, <1>5 DEF IInv, TypeOK, envVars, dbVars, Pc
<1>7. \A v \in Workers \ {w} : pc'[v] = pc[v] /\ ctx'[v] = ctx[v]
  BY <1>1 DEF IInv, TypeOK
<1>8. \A v \in Workers \ {w} : WorkerInv(v)'
  BY <1>1, <1>7, OtherWorkers DEF dbVars, IInv, TypeOK
<1>9. pc'[w] = "loop" /\ HoldsRow(w) /\ Walking(w)
  BY <1>1 DEF IInv, TypeOK, HoldsRow, Walking
<1>10. WorkerInv(w) /\ ctx[w].streak = 0 /\ BREAKER_THRESHOLD > 0
  BY <1>1, ParamAssumption DEF IInv, GuardInv, WorkerInv
<1>11. WorkerInv(w)'
  BY <1>1, <1>5, <1>9, <1>10 DEF WorkerInv, dbVars
<1>12. QED
  BY <1>5, <1>6, <1>7, <1>8, <1>9, <1>11, DistinctRows DEF IInv, GuardInv

\* One case of the walk: the cases table and w's counters change, not its row.
LEMMA WalkFrame ==
    ASSUME IInv, NEW w \in Workers, pc[w] = "loop",
           NEW c \in Cases, NEW k \in Case, cases' = [cases EXCEPT ![c] = k],
           NEW x \in Ctx, ctx' = [ctx EXCEPT ![w] = x],
           x.run = ctx[w].run, x.seen = ctx[w].seen, x.date = ctx[w].date,
           x.todo # {} => x.streak < BREAKER_THRESHOLD,
           faults' \in 0 .. MaxFaults,
           UNCHANGED <<envVars, queue, runs, nruns, summary, pc, job, lost, user>>
    PROVE  IInv'
<1>1. TypeOK'
  <2>1. cases' \in [Cases -> Case] /\ ctx' \in [Workers -> Ctx]
    BY DEF IInv, TypeOK
  <2>2. QED
    BY <2>1 DEF IInv, TypeOK, envVars
<1>2. \A v \in Workers \ {w} : pc'[v] = pc[v] /\ ctx'[v] = ctx[v]
  BY DEF IInv, TypeOK
<1>3. \A v \in Workers \ {w} : WorkerInv(v)'
  BY <1>2, OtherWorkers DEF IInv, TypeOK
<1>4. ctx'[w] = x /\ pc'[w] = "loop" /\ HoldsRow(w) /\ Walking(w)
  BY DEF IInv, TypeOK, HoldsRow, Walking
<1>5. WorkerInv(w)
  BY DEF IInv, GuardInv
<1>6. WorkerInv(w)'
  BY <1>4, <1>5 DEF WorkerInv
<1>7. QED
  BY <1>1, <1>2, <1>3, <1>4, <1>6, DistinctRows DEF IInv, GuardInv

LEMMA SyncAnsweredStep ==
    ASSUME IInv, NEW w \in Workers, NEW c \in Cases, SyncAnswered(w, c)
    PROVE  IInv'
<1>1. /\ pc[w] = "loop"
      /\ UNCHANGED <<envVars, queue, runs, nruns, summary, pc, job, faults, lost, user>>
  BY DEF SyncAnswered
<1>2. ctx[w] \in Ctx /\ ctx[w].todo \ {c} \in SUBSET Cases
  BY DEF IInv, TypeOK, Ctx
<1>3. TypeOK /\ BREAKER_THRESHOLD > 0 /\ faults' \in 0 .. MaxFaults
  BY <1>1, ParamAssumption DEF IInv, TypeOK
<1>4. ASSUME NEW k \in Synced(c), cases' = [cases EXCEPT ![c] = k],
             ctx' = [ctx EXCEPT ![w].todo = @ \ {c}, ![w].streak = 0, ![w].synced = @ + 1]
      PROVE  IInv'
  <2> DEFINE x == [ctx[w] EXCEPT !.todo = @ \ {c}, !.streak = 0, !.synced = @ + 1]
  <2>1. k \in Case
    BY <1>3, CaseType
  <2>2. /\ x \in Ctx /\ x.run = ctx[w].run /\ x.seen = ctx[w].seen /\ x.date = ctx[w].date
        /\ x.streak < BREAKER_THRESHOLD
    <3>1. ctx[w].synced + 1 \in Nat /\ 0 \in 0 .. BREAKER_THRESHOLD
      BY <1>2, ParamAssumption DEF Ctx
    <3>2. x \in Ctx
      BY <1>2, <3>1 DEF Ctx
    <3>3. QED
      BY <1>2, <1>3, <3>2 DEF Ctx
  <2>3. ctx' = [ctx EXCEPT ![w] = x]
    BY <1>3, <1>4 DEF TypeOK
  <2> HIDE DEF x
  <2>4. QED
    BY <1>1, <1>3, <1>4, <2>1, <2>2, <2>3, WalkFrame
<1>5. ASSUME cases' = [cases EXCEPT ![c] = NotFound(c)],
             ctx' = [ctx EXCEPT ![w].todo = @ \ {c}, ![w].streak = 0, ![w].notFound = @ + 1]
      PROVE  IInv'
  <2> DEFINE x == [ctx[w] EXCEPT !.todo = @ \ {c}, !.streak = 0, !.notFound = @ + 1]
  <2>1. NotFound(c) \in Case
    BY <1>3, CaseType
  <2>2. /\ x \in Ctx /\ x.run = ctx[w].run /\ x.seen = ctx[w].seen /\ x.date = ctx[w].date
        /\ x.streak < BREAKER_THRESHOLD
    <3>1. ctx[w].notFound + 1 \in Nat /\ 0 \in 0 .. BREAKER_THRESHOLD
      BY <1>2, ParamAssumption DEF Ctx
    <3>2. x \in Ctx
      BY <1>2, <3>1 DEF Ctx
    <3>3. QED
      BY <1>2, <1>3, <3>2 DEF Ctx
  <2>3. ctx' = [ctx EXCEPT ![w] = x]
    BY <1>3, <1>5 DEF TypeOK
  <2> HIDE DEF x
  <2>4. QED
    BY <1>1, <1>3, <1>5, <2>1, <2>2, <2>3, WalkFrame
<1>6. ASSUME cases' = [cases EXCEPT ![c] = CaseError(c)],
             ctx' = [ctx EXCEPT ![w].todo = @ \ {c}, ![w].streak = 0, ![w].failed = @ + 1]
      PROVE  IInv'
  <2> DEFINE x == [ctx[w] EXCEPT !.todo = @ \ {c}, !.streak = 0, !.failed = @ + 1]
  <2>1. CaseError(c) \in Case
    BY <1>3, CaseType
  <2>2. /\ x \in Ctx /\ x.run = ctx[w].run /\ x.seen = ctx[w].seen /\ x.date = ctx[w].date
        /\ x.streak < BREAKER_THRESHOLD
    <3>1. ctx[w].failed + 1 \in Nat /\ 0 \in 0 .. BREAKER_THRESHOLD
      BY <1>2, ParamAssumption DEF Ctx
    <3>2. x \in Ctx
      BY <1>2, <3>1 DEF Ctx
    <3>3. QED
      BY <1>2, <1>3, <3>2 DEF Ctx
  <2>3. ctx' = [ctx EXCEPT ![w] = x]
    BY <1>3, <1>6 DEF TypeOK
  <2> HIDE DEF x
  <2>4. QED
    BY <1>1, <1>3, <1>6, <2>1, <2>2, <2>3, WalkFrame
<1>7. QED
  BY <1>4, <1>5, <1>6 DEF SyncAnswered

\* The locals after a failure, from what the try made of them.
LEMMA FailureType ==
    ASSUME NEW x \in Ctx, x.streak < BREAKER_THRESHOLD, NEW c
    PROVE  LET y == CountFailure(x, c)
           IN  /\ y \in Ctx
               /\ y.run = x.run /\ y.seen = x.seen /\ y.date = x.date /\ y.retrying = x.retrying
               /\ y.todo # {} => y.streak < BREAKER_THRESHOLD
<1> DEFINE trips == Trips(x.streak)
           left  == IF trips THEN {} ELSE x.todo \ {c}
           late  == IF trips THEN Cardinality(Deferred(x, c)) ELSE x.deferred
           y     == [x EXCEPT !.todo = left, !.streak = @ + 1, !.failed = @ + 1,
                              !.deferred = late, !.tripped = trips]
<1>1. CountFailure(x, c) = y
  BY DEF CountFailure
<1>2. BREAKER_THRESHOLD \in Nat /\ x.streak \in Nat
  BY ParamAssumption DEF Ctx
<1>3. x.streak + 1 \in 0 .. BREAKER_THRESHOLD /\ x.failed + 1 \in Nat
  BY <1>2 DEF Ctx
<1>4. left \in SUBSET Cases
  BY DEF Ctx
<1>5. late \in Nat
  <2>1. Deferred(x, c) \in SUBSET Cases
    BY DEF Ctx, Deferred
  <2>2. QED
    BY <2>1, CaseSets DEF Ctx
<1>6. trips \in BOOLEAN /\ (left # {} => x.streak + 1 < BREAKER_THRESHOLD)
  BY <1>2 DEF Trips
<1> HIDE DEF left, late, trips
<1>7. y \in Ctx
  BY <1>3, <1>4, <1>5, <1>6 DEF Ctx
<1>8. /\ y.todo = left /\ y.streak = x.streak + 1
      /\ y.run = x.run /\ y.seen = x.seen /\ y.date = x.date /\ y.retrying = x.retrying
  BY DEF Ctx
<1> HIDE DEF y
<1>9. QED
  BY <1>1, <1>6, <1>7, <1>8

\* So are the locals that come to the catch once the case was counted.
LEMMA SuccessType ==
    ASSUME NEW x \in Ctx
    PROVE  LET y == CountSuccess(x)
           IN  /\ y \in Ctx /\ y.streak = 0 /\ y.todo = x.todo
               /\ y.synced = x.synced + 1 /\ y.twice = x.twice + 1
               /\ y.run = x.run /\ y.seen = x.seen /\ y.date = x.date /\ y.retrying = x.retrying
               /\ y.scanned = x.scanned /\ y.notFound = x.notFound /\ y.failed = x.failed
               /\ y.deferred = x.deferred /\ y.tripped = x.tripped
<1> DEFINE y == [x EXCEPT !.streak = 0, !.synced = @ + 1, !.twice = @ + 1]
<1>1. CountSuccess(x) = y
  BY DEF CountSuccess
<1>2. x.synced + 1 \in Nat /\ x.twice + 1 \in Nat /\ 0 \in 0 .. BREAKER_THRESHOLD
  BY ParamAssumption DEF Ctx
<1>3. y \in Ctx
  BY <1>2 DEF Ctx
<1>4. QED
  BY <1>1, <1>3 DEF Ctx

LEMMA SyncUnreachableStep ==
    ASSUME IInv, NEW w \in Workers, NEW c \in Cases, SyncUnreachable(w, c)
    PROVE  IInv'
<1> DEFINE y == CountFailure(ctx[w], c)
<1>1. /\ pc[w] = "loop" /\ c \in ctx[w].todo /\ cases' = [cases EXCEPT ![c] = Upstream(c)]
      /\ ctx' = [ctx EXCEPT ![w] = y]
      /\ UNCHANGED <<envVars, queue, runs, nruns, summary, pc, job, faults, lost, user>>
  BY DEF SyncUnreachable
<1>2. ctx[w] \in Ctx /\ ctx[w].streak < BREAKER_THRESHOLD /\ faults' \in 0 .. MaxFaults
  BY <1>1 DEF IInv, TypeOK, GuardInv, WorkerInv
<1>3. Upstream(c) \in Case
  BY CaseType DEF IInv
<1>4. /\ y \in Ctx /\ y.run = ctx[w].run /\ y.seen = ctx[w].seen /\ y.date = ctx[w].date
      /\ y.todo # {} => y.streak < BREAKER_THRESHOLD
  BY <1>2, FailureType
<1> HIDE DEF y
<1>5. QED
  BY <1>1, <1>2, <1>3, <1>4, WalkFrame

LEMMA SyncInterruptedStep ==
    ASSUME IInv, NEW w \in Workers, NEW c \in Cases, SyncInterrupted(w, c)
    PROVE  IInv'
<1>1. PICK k \in Synced(c), x \in {ctx[w], CountSuccess(ctx[w])} :
        /\ pc[w] = "loop" /\ c \in ctx[w].todo /\ faults < MaxFaults /\ faults' = faults + 1
        /\ cases' = [cases EXCEPT ![c] = k]
        /\ ctx' = [ctx EXCEPT ![w] = CountFailure(x, c)]
        /\ UNCHANGED <<envVars, queue, runs, nruns, summary, pc, job, lost, user>>
  BY DEF SyncInterrupted
<1>2. ctx[w] \in Ctx /\ ctx[w].streak < BREAKER_THRESHOLD /\ faults' \in 0 .. MaxFaults
  BY <1>1, ParamAssumption DEF IInv, TypeOK, GuardInv, WorkerInv
<1>3. k \in Case
  BY CaseType DEF IInv
<1>4. /\ x \in Ctx /\ x.streak < BREAKER_THRESHOLD
      /\ x.run = ctx[w].run /\ x.seen = ctx[w].seen /\ x.date = ctx[w].date
  BY <1>2, SuccessType, ParamAssumption
<1> DEFINE y == CountFailure(x, c)
<1>5. /\ y \in Ctx /\ y.run = ctx[w].run /\ y.seen = ctx[w].seen /\ y.date = ctx[w].date
      /\ y.todo # {} => y.streak < BREAKER_THRESHOLD
  BY <1>4, FailureType
<1>6. ctx' = [ctx EXCEPT ![w] = y]
  BY <1>1
<1> HIDE DEF y
<1>7. QED
  BY <1>1, <1>2, <1>3, <1>5, <1>6, WalkFrame

\* A worker ends its own row.
RowEnds(w, status) ==
    HoldsRow(w) /\ runs' = [runs EXCEPT ![ctx[w].run].status = status]

LEMMA RowEndsType ==
    ASSUME IInv, NEW w \in Workers, NEW st \in {"finished", "failed"}, RowEnds(w, st)
    PROVE  /\ runs' \in [RunIds -> Row]
           /\ \A i \in RunIds : /\ i > nruns <=> runs'[i].status = "none"
                                /\ runs'[i].old = runs[i].old
                                /\ runs'[i].status = "running" => runs[i].status = "running"
                                /\ \/ runs'[i].status = runs[i].status
                                   \/ HoldsRow(w) /\ i = ctx[w].run
<1> DEFINE own == ctx[w].run
<1>1. own \in RunIds /\ own <= nruns /\ nruns \in Int
  BY DEF RowEnds, IInv, TypeOK, GuardInv, WorkerInv, RunIds, Ctx
<1>2. /\ runs \in [RunIds -> Row]
      /\ \A i \in RunIds : i > nruns <=> runs[i].status = "none"
  BY DEF IInv, TypeOK
<1>3. runs' = [runs EXCEPT ![own].status = st] /\ HoldsRow(w)
  BY DEF RowEnds
<1> HIDE DEF own
<1>4. runs'[own] \in Row /\ runs'[own].status = st /\ runs'[own].old = runs[own].old
  BY <1>1, <1>2, <1>3 DEF Row, RunStatus
<1>5. \A i \in RunIds \ {own} : runs'[i] = runs[i]
  BY <1>2, <1>3
<1>6. runs' \in [RunIds -> Row]
  BY <1>2, <1>3, <1>4, <1>5
<1>7. SUFFICES ASSUME NEW i \in RunIds
               PROVE  /\ i > nruns <=> runs'[i].status = "none"
                      /\ runs'[i].old = runs[i].old
                      /\ runs'[i].status = "running" => runs[i].status = "running"
                      /\ runs'[i].status = runs[i].status \/ i = own
  BY <1>3, <1>6 DEF own
<1>8. CASE i = own
  BY <1>1, <1>4, <1>8 DEF RunIds
<1>9. CASE i # own
  BY <1>2, <1>5, <1>9
<1>10. QED
  BY <1>8, <1>9

\* The end of the walk: w's row leaves 'running', and w no longer walks.
LEMMA FinishStep == ASSUME IInv, NEW w \in Workers, Finish(w) PROVE IInv'
<1>1. /\ pc[w] = "loop" /\ runs' = [runs EXCEPT ![ctx[w].run].status = "finished"]
      /\ pc' = [pc EXCEPT ![w] = "retry"]
      /\ UNCHANGED <<envVars, queue, nruns, cases, summary, job, ctx, lost, faults, user>>
  BY DEF Finish, Goto
<1>2. RowEnds(w, "finished")
  BY <1>1 DEF RowEnds, HoldsRow
<1>3. TypeOK'
  BY <1>1, <1>2, RowEndsType DEF IInv, TypeOK, envVars, Pc
<1>4. \A v \in Workers \ {w} : pc'[v] = pc[v] /\ ctx'[v] = ctx[v]
  BY <1>1 DEF IInv, TypeOK
<1>5. \A v \in Workers \ {w} : WorkerInv(v)'
  BY <1>1, <1>2, <1>4, RowEndsType, OtherWorkers DEF IInv, TypeOK
<1>6. pc'[w] = "retry" /\ HoldsRow(w) /\ HoldsRow(w)' /\ ~Walking(w)'
  BY <1>1 DEF IInv, TypeOK, HoldsRow, Walking
<1>7. WorkerInv(w)
  BY DEF IInv, GuardInv
<1>8. WorkerInv(w)'
  BY <1>1, <1>2, <1>6, <1>7, RowEndsType DEF WorkerInv
<1>9. QED
  BY <1>1, <1>3, <1>4, <1>5, <1>6, <1>8, DistinctRows DEF IInv, GuardInv

LEMMA ScheduleRetryStep == ASSUME IInv, NEW w \in Workers, ScheduleRetry(w) PROVE IInv'
<1> DEFINE next == RetryJob(job[w].slot, ctx[w].date, job[w].attempt + 1, 0)
<1>1. /\ pc[w] = "retry" /\ pc' = [pc EXCEPT ![w] = "summary"]
      /\ UNCHANGED <<envVars, dbVars, job, lost, user>>
  BY DEF ScheduleRetry, Goto
<1>2. \/ /\ WillRetry(w) /\ queue' = queue \cup {next} /\ faults' = faults
         /\ ctx' = [ctx EXCEPT ![w].retrying = TRUE]
      \/ /\ queue' = queue /\ faults < MaxFaults /\ faults' = faults + 1
         /\ ctx' = [ctx EXCEPT ![w].retrying = FALSE]
      \/ queue' = queue /\ faults' = faults /\ ctx' = ctx
  BY DEF ScheduleRetry, Scheduled, NextAttempt
<1>3. ctx[w] \in Ctx /\ job[w] \in Job /\ ctx[w].date \in Dates
  BY <1>1 DEF IInv, TypeOK, GuardInv, WorkerInv
<1>4. WillRetry(w) => next \in Job
  <2>1. WillRetry(w) => job[w].attempt + 1 \in 1 .. MAX_ATTEMPTS
    BY <1>3, ParamAssumption DEF WillRetry, Job
  <2>2. job[w].slot \in Slots /\ 0 \in 0 .. MAX_BUSY_DEFERRALS
    BY <1>3, ParamAssumption DEF Job
  <2>3. QED
    BY <1>3, <2>1, <2>2, JobType
<1> HIDE DEF next
<1>5. /\ ctx' \in [Workers -> Ctx]
      /\ ctx'[w].run = ctx[w].run /\ ctx'[w].seen = ctx[w].seen /\ ctx'[w].date = ctx[w].date
      /\ \A v \in Workers \ {w} : ctx'[v] = ctx[v]
  <2>1. CASE ctx' = ctx
    BY <2>1 DEF IInv, TypeOK
  <2>2. ASSUME NEW b \in BOOLEAN, ctx' = [ctx EXCEPT ![w].retrying = b]
        PROVE  /\ ctx' \in [Workers -> Ctx]
               /\ ctx'[w].run = ctx[w].run /\ ctx'[w].seen = ctx[w].seen /\ ctx'[w].date = ctx[w].date
               /\ \A v \in Workers \ {w} : ctx'[v] = ctx[v]
    BY <1>3, <2>2 DEF IInv, TypeOK, Ctx
  <2>3. QED
    BY <1>2, <2>1, <2>2, Zenon
<1>6. queue' \subseteq Job /\ faults' \in 0 .. MaxFaults
  BY <1>2, <1>4, ParamAssumption DEF IInv, TypeOK
<1>7. TypeOK'
  <2>1. pc' \in [Workers -> Pc]
    BY <1>1 DEF IInv, TypeOK, Pc
  <2>2. QED
    BY <1>1, <1>5, <1>6, <2>1 DEF IInv, TypeOK, envVars, dbVars
<1>8. \A v \in Workers \ {w} : pc'[v] = pc[v] /\ ctx'[v] = ctx[v]
  BY <1>1, <1>5 DEF IInv, TypeOK
<1>9. \A v \in Workers \ {w} : WorkerInv(v)'
  BY <1>1, <1>8, OtherWorkers DEF dbVars, IInv, TypeOK
<1>10. pc'[w] = "summary" /\ HoldsRow(w) /\ HoldsRow(w)' /\ ~Walking(w)'
  BY <1>1 DEF IInv, TypeOK, HoldsRow, Walking
<1>11. WorkerInv(w)
  BY DEF IInv, GuardInv
<1>12. WorkerInv(w)'
  BY <1>1, <1>5, <1>10, <1>11 DEF WorkerInv, dbVars
<1>13. QED
  BY <1>5, <1>7, <1>8, <1>9, <1>10, <1>12, DistinctRows DEF IInv, GuardInv

\* A handler that returns leaves the rows as they are, or ends its own.
LEMMA ReturnStep ==
    ASSUME IInv, NEW w \in Workers, Return(w),
           queue' \subseteq Job, lost' \subseteq Slots \X Dates, faults' \in 0 .. MaxFaults,
           summary' \in [Slots -> [Dates -> Summary]],
           runs' = runs \/ RowEnds(w, "failed"),
           UNCHANGED <<envVars, nruns, cases, user>>
    PROVE  IInv'
<1>1. /\ runs' \in [RunIds -> Row]
      /\ \A i \in RunIds : /\ i > nruns <=> runs'[i].status = "none"
                           /\ runs'[i].old = runs[i].old
                           /\ runs'[i].status = "running" => runs[i].status = "running"
                           /\ \/ runs'[i].status = runs[i].status
                              \/ HoldsRow(w) /\ i = ctx[w].run
  <2>1. CASE runs' = runs
    BY <2>1 DEF IInv, TypeOK
  <2>2. CASE RowEnds(w, "failed")
    BY <2>2, RowEndsType
  <2>3. QED
    BY <2>1, <2>2
<1>2. TypeOK'
  BY <1>1, ReturnFrame DEF IInv, TypeOK, envVars
<1>3. \A v \in Workers \ {w} : WorkerInv(v)'
  <2>1. nruns' \in Nat /\ nruns' >= nruns
    BY DEF IInv, TypeOK
  <2>2. \A v \in Workers \ {w} : pc'[v] = pc[v] /\ ctx'[v] = ctx[v]
    BY ReturnFrame
  <2>3. \A i \in RunIds :
            /\ runs'[i].status = "running" => runs[i].status = "running"
            /\ runs[i].old => runs'[i].old
            /\ \/ runs'[i].status = runs[i].status
               \/ HoldsRow(w) /\ i = ctx[w].run
    BY <1>1
  <2>4. QED
    BY <2>1, <2>2, <2>3, OtherWorkers
<1>4. QED
  BY <1>2, <1>3, ReturnFrame, DistinctRows DEF IInv, GuardInv

\* What the handlers note or put back when they give up is well typed.
LEMMA KeyType ==
    ASSUME IInv, NEW w \in Workers, pc[w] # "idle"
    PROVE  KeyOf(w) \in Slots \X Dates /\ job[w] \in Job
  BY DEF IInv, TypeOK, GuardInv, WorkerInv, KeyOf, Job

LEMMA SendSummaryStep == ASSUME IInv, NEW w \in Workers, SendSummary(w) PROVE IInv'
<1> DEFINE told == [retrying |-> SaysRetrying(w), clean |-> Tally(ctx[w].cutoff) = 0]
<1>1. /\ pc[w] = "summary" /\ Return(w)
      /\ UNCHANGED <<envVars, queue, runs, nruns, cases, faults, user>>
      /\ \/ summary' = [summary EXCEPT ![job[w].slot][ctx[w].date] = told] /\ UNCHANGED lost
         \/ lost' = lost \cup {KeyOf(w)} /\ UNCHANGED summary
  BY DEF SendSummary
<1>2. /\ KeyOf(w) \in Slots \X Dates
      /\ job[w].slot \in Slots /\ ctx[w].date \in Dates /\ ctx[w] \in Ctx
  BY <1>1, KeyType DEF IInv, TypeOK, KeyOf, Job
<1>3. told \in Summary
  BY <1>2 DEF Summary, SaysRetrying, Ctx
<1> HIDE DEF told
<1>4. summary' \in [Slots -> [Dates -> Summary]] /\ lost' \subseteq Slots \X Dates
  <2>1. summary \in [Slots -> [Dates -> Summary]] /\ lost \subseteq Slots \X Dates
    BY DEF IInv, TypeOK
  <2>2. CASE summary' = [summary EXCEPT ![job[w].slot][ctx[w].date] = told] /\ UNCHANGED lost
    BY <1>2, <1>3, <2>1, <2>2
  <2>3. CASE lost' = lost \cup {KeyOf(w)} /\ UNCHANGED summary
    BY <1>2, <2>1, <2>3
  <2>4. QED
    BY <1>1, <2>2, <2>3
<1>5. queue' \subseteq Job /\ faults' \in 0 .. MaxFaults
  BY <1>1 DEF IInv, TypeOK
<1>6. QED
  BY <1>1, <1>4, <1>5, ReturnStep

LEMMA RunThrowsStep == ASSUME IInv, NEW w \in Workers, RunThrows(w) PROVE IInv'
<1>1. /\ pc[w] \in {"select", "loop"} /\ faults < MaxFaults /\ faults' = faults + 1
      /\ runs' = [runs EXCEPT ![ctx[w].run].status = "failed"]
      /\ Redeliver(w) /\ Return(w)
      /\ UNCHANGED <<envVars, nruns, cases, summary, user>>
  BY DEF RunThrows
<1>2. RowEnds(w, "failed")
  BY <1>1 DEF RowEnds, HoldsRow
<1>3. queue' \subseteq Job /\ lost' \subseteq Slots \X Dates
  BY <1>1, KeyType DEF Redeliver, IInv, TypeOK
<1>4. faults' \in 0 .. MaxFaults /\ summary' \in [Slots -> [Dates -> Summary]]
  BY <1>1, ParamAssumption DEF IInv, TypeOK
<1>5. QED
  BY <1>1, <1>2, <1>3, <1>4, ReturnStep

LEMMA CrashStep == ASSUME IInv, NEW w \in Workers, Crash(w) PROVE IInv'
<1>1. /\ pc[w] # "idle" /\ faults < MaxFaults /\ faults' = faults + 1
      /\ Redeliver(w) /\ Return(w)
      /\ UNCHANGED <<envVars, dbVars, user>>
  BY DEF Crash
<1>2. queue' \subseteq Job /\ lost' \subseteq Slots \X Dates
  BY <1>1, KeyType DEF Redeliver, IInv, TypeOK
<1>3. faults' \in 0 .. MaxFaults /\ summary' \in [Slots -> [Dates -> Summary]]
  BY <1>1, ParamAssumption DEF IInv, TypeOK, dbVars
<1>4. QED
  BY <1>1, <1>2, <1>3, ReturnStep DEF dbVars

LEMMA ExpireStep == ASSUME IInv, NEW w \in Workers, Expire(w) PROVE IInv'
<1>1. queue' \subseteq Job /\ faults' \in 0 .. MaxFaults
  BY ParamAssumption DEF IInv, TypeOK, Expire
<1>2. TypeOK'
  BY <1>1 DEF IInv, TypeOK, Expire, envVars, dbVars
<1>3. QED
  BY <1>2, GuardFrame DEF IInv, Expire, dbVars

-----------------------------------------------------------------------------
(* The theorems *)

LEMMA NextIInv == IInv /\ [Next]_vars => IInv'
<1> SUFFICES ASSUME IInv, [Next]_vars PROVE IInv'
  OBVIOUS
<1>1. CASE UNCHANGED vars
  <2>1. TypeOK'
    BY <1>1 DEF vars, IInv, TypeOK
  <2>2. QED
    BY <1>1, <2>1, GuardFrame DEF vars, IInv
<1>2. CASE Environment
  BY <1>2, TickStep, GraceEndsStep, WatchdogStep, ManualRunStep, RunAgesStep, CaseAddedStep, UserSyncStep
     DEF Environment
<1>3. ASSUME NEW w \in Workers, \E j \in queue : Take(w, j)
      PROVE  IInv'
  BY <1>3, TakeStep
<1>4. ASSUME NEW w \in Workers, Step(w)
      PROVE  IInv'
  BY <1>4, RecheckStep, GuardFreeStep, GuardBusyStep, InsertRunStep, SelectRowsStep,
     SyncAnsweredStep, SyncUnreachableStep, SyncInterruptedStep, FinishStep, ScheduleRetryStep, SendSummaryStep DEF Step
<1>5. ASSUME NEW w \in Workers, RunThrows(w) \/ Crash(w) \/ Expire(w)
      PROVE  IInv'
  BY <1>5, RunThrowsStep, CrashStep, ExpireStep
<1>6. QED
  BY <1>1, <1>2, <1>3, <1>4, <1>5 DEF Next

\* Every reachable state satisfies the inductive invariant.
THEOREM Inductive == Spec => []IInv
  BY InitIInv, NextIInv, PTL DEF Spec

\* Every variable keeps its type: no row is written past the last, attempts and
\* deferrals stay within their limits, the breaker's streak never exceeds it.
THEOREM TypeCorrect == Spec => []TypeOK
<1>1. IInv => TypeOK
  BY DEF IInv
<1>2. QED
  BY <1>1, Inductive, PTL

\* What the overlap guard keeps of each worker and its row.
THEOREM GuardCorrect == Spec => []GuardInv
<1>1. IInv => GuardInv
  BY DEF IInv
<1>2. QED
  BY <1>1, Inductive, PTL

\* However many workers run, crash and are handed jobs again, two walks overlap
\* only by the race between the guard's select and the insert, or because the
\* earlier one has outlived STALE_RUN_HOURS.
THEOREM OverlapBounded == Spec => []OverlapOnlyByRace
<1>1. IInv => OverlapOnlyByRace
  <2> SUFFICES ASSUME IInv, NEW v \in Workers, NEW w \in Workers,
                      Walking(v), Walking(w), ctx[v].run < ctx[w].run, ~(ctx[w].seen < ctx[v].run)
               PROVE  runs[ctx[v].run].old
    BY DEF OverlapOnlyByRace
  <2>1. HoldsRow(v) /\ HoldsRow(w)
    BY DEF Walking, HoldsRow
  <2>2. WorkerInv(v) /\ WorkerInv(w) /\ ctx[v] \in Ctx /\ ctx[w] \in Ctx /\ nruns \in 0 .. MaxRuns
    BY DEF IInv, TypeOK, GuardInv
  <2>3. ctx[v].run \in RunIds /\ ctx[v].run <= ctx[w].seen
    BY <2>1, <2>2 DEF WorkerInv, Ctx, RunIds
  <2>4. runs[ctx[v].run].status # "running"
    BY <2>1, <2>2, <2>3 DEF WorkerInv
  <2>5. QED
    BY <2>2, <2>4 DEF WorkerInv
<1>2. QED
  BY <1>1, Inductive, PTL

-----------------------------------------------------------------------------
(* That a slot is being retried is true *)

IsRetry(j, s, d) == j.kind = "retry" /\ j.slot = s /\ j.date = d
Queued(s, d)  == \E j \in queue : IsRetry(j, s, d)
Working(s, d) == \E w \in Workers : pc[w] # "idle" /\ job[w].kind = "retry" /\ KeyOf(w) = <<s, d>>

\* What every worker and every queued job keep of the retries: a retry has its
\* date from the start, it is not rechecked, and one that a worker is about to
\* announce is still queued.
RetryOf(w) ==
    /\ pc[w] = "recheck" => job[w].kind # "retry"
    /\ pc[w] # "idle" /\ job[w].kind = "retry" => job[w].date = ctx[w].date
    /\ ctx[w].retrying => pc[w] = "summary" /\ Queued(job[w].slot, ctx[w].date)
RetryInv ==
    /\ \A j \in queue : j.kind = "retry" => j.date \in Dates
    /\ \A w \in Workers : RetryOf(w)
    /\ \A s \in Slots, d \in Dates :
          summary[s][d].retrying /\ <<s, d>> \notin lost => Queued(s, d) \/ Working(s, d)

LEMMA RetryInit == Init => RetryInv
<1> SUFFICES ASSUME Init PROVE RetryInv
  OBVIOUS
<1>1. \A j \in queue : j.kind # "retry"
  BY DEF Init, StartsAt, SlotJob, NoJob
<1>2. \A w \in Workers : pc[w] = "idle" /\ ~ctx[w].retrying
  BY DEF Init, StartsAt, NoCtx
<1>3. \A s \in Slots, d \in Dates : ~summary[s][d].retrying
  BY DEF Init, StartsAt, NoSummary
<1>4. QED
  BY <1>1, <1>2, <1>3 DEF RetryInv, RetryOf

\* Jobs are only added, and no worker changes what it does for whom.
LEMMA RetryStays ==
    ASSUME RetryInv, queue \subseteq queue', summary' = summary, lost \subseteq lost',
           \A j \in queue' \ queue : j.kind = "retry" => j.date \in Dates,
           job' = job,
           \A w \in Workers : /\ ctx'[w].date = ctx[w].date /\ ctx'[w].retrying = ctx[w].retrying
                              /\ pc'[w] = pc[w] \/ {"idle", "recheck", "summary"} \cap {pc[w], pc'[w]} = {}
    PROVE  RetryInv'
<1>1. \A s \in Slots, d \in Dates : (Queued(s, d) => Queued(s, d)') /\ (Working(s, d) => Working(s, d)')
  BY DEF Queued, Working, KeyOf
<1>2. \A j \in queue' : j.kind = "retry" => j.date \in Dates
  BY DEF RetryInv
<1>3. ASSUME NEW w \in Workers PROVE RetryOf(w)'
  BY DEF RetryInv, RetryOf, Queued
<1>4. \A s \in Slots, d \in Dates :
          summary'[s][d].retrying /\ <<s, d>> \notin lost' => Queued(s, d)' \/ Working(s, d)'
  BY <1>1 DEF RetryInv
<1>5. QED
  BY <1>2, <1>3, <1>4 DEF RetryInv

\* A worker goes on with its job, or gives it back or up.
LEMMA RetryMoves ==
    ASSUME RetryInv, NEW w \in Workers, pc[w] # "idle",
           NEW slot, NEW date, slot = job[w].slot, date = ctx[w].date,
           queue \subseteq queue', lost \subseteq lost',
           \A j \in queue' \ queue : j.kind = "retry" => j.date \in Dates,
           \A v \in Workers \ {w} : pc'[v] = pc[v] /\ job'[v] = job[v] /\ ctx'[v] = ctx[v],
           \/ /\ pc'[w] \notin {"idle", "recheck"} /\ job'[w] = job[w] /\ ctx'[w].date = ctx[w].date
              /\ ctx'[w].retrying => pc'[w] = "summary" /\ Queued(slot, date)'
           \/ /\ pc'[w] = "idle" /\ ~ctx'[w].retrying
              /\ job[w].kind = "retry" =>
                    <<slot, date>> \in lost' \/ Queued(slot, date)' \/ ~summary'[slot][date].retrying,
           \A s \in Slots, d \in Dates :
              \/ summary'[s][d] = summary[s][d] \/ Queued(s, d) \/ ~summary'[s][d].retrying
    PROVE  RetryInv'
<1>1. \A s \in Slots, d \in Dates :
          Working(s, d) => \/ Working(s, d)' \/ <<s, d>> \in lost' \/ Queued(s, d)'
                           \/ ~summary'[s][d].retrying
  <2> SUFFICES ASSUME NEW s \in Slots, NEW d \in Dates, NEW v \in Workers,
                      pc[v] # "idle", job[v].kind = "retry", job[v].slot = s, ctx[v].date = d
               PROVE  \/ Working(s, d)' \/ <<s, d>> \in lost' \/ Queued(s, d)'
                      \/ ~summary'[s][d].retrying
    BY DEF Working, KeyOf
  <2>1. CASE pc'[v] # "idle"
    <3>1. job'[v].kind = "retry" /\ job'[v].slot = s /\ ctx'[v].date = d
      BY <2>1
    <3>2. QED
      BY <2>1, <3>1 DEF Working, KeyOf
  <2>2. CASE pc'[v] = "idle"
    <3>1. v = w
      BY <2>2
    <3>2. QED
      BY <2>2, <3>1 DEF KeyOf
  <2>3. QED
    BY <2>1, <2>2
<1>2. \A j \in queue' : j.kind = "retry" => j.date \in Dates
  BY DEF RetryInv
<1>3. \A s, d : Queued(s, d) => Queued(s, d)'
  BY DEF Queued
<1>4. ASSUME NEW v \in Workers \ {w} PROVE RetryOf(v)'
  BY <1>3 DEF RetryInv, RetryOf
<1>5. RetryOf(w)'
  BY DEF RetryInv, RetryOf
<1>6. \A s \in Slots, d \in Dates :
          summary'[s][d].retrying /\ <<s, d>> \notin lost' => Queued(s, d)' \/ Working(s, d)'
  BY <1>1, <1>3 DEF RetryInv
<1>7. QED
  BY <1>2, <1>4, <1>5, <1>6 DEF RetryInv

LEMMA RetryTake == ASSUME IInv, RetryInv, NEW w \in Workers, NEW j \in queue, Take(w, j) PROVE RetryInv'
<1>1. /\ pc[w] = "idle" /\ queue' = queue \ {j} /\ UNCHANGED <<summary, lost>>
      /\ j.kind = "retry" => \A v \in Workers : ~(pc[v] = "summary" /\ KeyOf(v) = <<j.slot, j.date>>)
      /\ pc' = [pc EXCEPT ![w] = IF j.kind = "catchup" THEN "recheck" ELSE "guard"]
      /\ job' = [job EXCEPT ![w] = j]
      /\ ctx' = [ctx EXCEPT ![w].date = IF j.date = NoDate THEN Day(now) ELSE j.date]
  BY DEF Take, Goto, dbVars
<1>2. /\ pc \in [Workers -> Pc] /\ job \in [Workers -> Job] /\ ctx \in [Workers -> Ctx] /\ ctx[w] \in Ctx
      /\ j \in Job
  BY DEF IInv, TypeOK
<1>3. /\ pc'[w] = IF j.kind = "catchup" THEN "recheck" ELSE "guard"
      /\ job'[w] = j /\ ctx'[w].date = (IF j.date = NoDate THEN Day(now) ELSE j.date)
      /\ ctx'[w].retrying = ctx[w].retrying
      /\ \A v \in Workers \ {w} : pc'[v] = pc[v] /\ job'[v] = job[v] /\ ctx'[v] = ctx[v]
  BY <1>1, <1>2 DEF Ctx
<1>4. \A d \in Dates : d # NoDate
  BY DEF Dates, Times, Day, NoDate
<1>5. j.kind = "retry" => j.date \in Dates /\ ctx'[w].date = j.date
  BY <1>3, <1>4 DEF RetryInv
<1>6. ASSUME NEW v \in Workers PROVE RetryOf(v)'
  <2>1. CASE v = w
    <3>1. ~ctx'[w].retrying
      BY <1>1, <1>3 DEF RetryInv, RetryOf
    <3>2. QED
      BY <1>3, <1>5, <2>1, <3>1 DEF RetryOf
  <2>2. CASE v # w
    <3>1. RetryOf(v) /\ pc'[v] = pc[v] /\ job'[v] = job[v] /\ ctx'[v] = ctx[v]
      BY <1>3, <2>2 DEF RetryInv
    <3>2. ctx[v].retrying => Queued(job[v].slot, ctx[v].date)'
      BY <1>1, <3>1 DEF RetryOf, Queued, IsRetry, KeyOf
    <3>3. QED
      BY <3>1, <3>2 DEF RetryOf
  <2>3. QED
    BY <2>1, <2>2
<1>7. ASSUME NEW s \in Slots, NEW d \in Dates, Queued(s, d) \/ Working(s, d)
      PROVE  Queued(s, d)' \/ Working(s, d)'
  <2>1. ASSUME NEW v \in Workers, pc[v] # "idle", job[v].kind = "retry", KeyOf(v) = <<s, d>>
        PROVE  Working(s, d)'
    BY <1>1, <1>3, <2>1 DEF Working, KeyOf
  <2>2. ASSUME IsRetry(j, s, d) PROVE Working(s, d)'
    BY <1>3, <1>5, <2>2 DEF Working, KeyOf, IsRetry
  <2>3. ASSUME NEW i \in queue \ {j}, IsRetry(i, s, d) PROVE Queued(s, d)'
    BY <1>1, <2>3 DEF Queued
  <2>4. QED
    BY <1>7, <2>1, <2>2, <2>3 DEF Queued, Working
<1>8. QED
  BY <1>1, <1>6, <1>7 DEF RetryInv

\* A job given back is queued again, with its date if it is a retry.
LEMMA RetryReturns ==
    ASSUME IInv, RetryInv, NEW w \in Workers, pc[w] # "idle", Return(w), UNCHANGED summary,
           \/ job[w].kind # "retry" /\ queue' = queue /\ lost' = lost
           \/ Redeliver(w)
           \/ \E a, b : queue' = queue \cup {RetryJob(job[w].slot, ctx[w].date, a, b)} /\ lost' = lost
           \/ queue' = queue /\ lost' = lost \cup {KeyOf(w)}
    PROVE  RetryInv'
<1> DEFINE Back == /\ queue \subseteq queue' /\ lost \subseteq lost'
                   /\ \A j \in queue' \ queue : j.kind = "retry" => j.date \in Dates
<1>0. PICK slot, date : slot = job[w].slot /\ date = ctx[w].date
  OBVIOUS
<1>1. /\ pc'[w] = "idle" /\ ~ctx'[w].retrying
      /\ \A v \in Workers \ {w} : pc'[v] = pc[v] /\ job'[v] = job[v] /\ ctx'[v] = ctx[v]
  BY DEF IInv, TypeOK, Return, Goto, NoCtx
<1>2. ctx[w].date \in Dates /\ RetryOf(w)
  BY DEF IInv, GuardInv, WorkerInv, RetryInv
<1>3. Back /\ (job[w].kind = "retry" => <<slot, date>> \in lost' \/ Queued(slot, date)')
  <2>1. CASE job[w].kind # "retry" /\ queue' = queue /\ lost' = lost
    BY <2>1
  <2>2. CASE Redeliver(w)
    <3>1. CASE queue' = queue \cup {job[w]} /\ UNCHANGED lost
      BY <1>0, <1>2, <3>1 DEF RetryOf, Queued, IsRetry
    <3>2. CASE lost' = lost \cup {KeyOf(w)} /\ UNCHANGED queue
      BY <1>0, <3>2 DEF KeyOf
    <3>3. QED
      BY <2>2, <3>1, <3>2 DEF Redeliver
  <2>3. ASSUME NEW a, NEW b, queue' = queue \cup {RetryJob(job[w].slot, ctx[w].date, a, b)}, lost' = lost
        PROVE  Back /\ Queued(slot, date)'
    <3>1. PICK j : j = RetryJob(slot, date, a, b)
      OBVIOUS
    <3>2. IsRetry(j, slot, date)
      BY <3>1 DEF IsRetry, RetryJob
    <3>3. queue' = queue \cup {j}
      BY <1>0, <2>3, <3>1
    <3>4. QED
      BY <1>0, <1>2, <2>3, <3>2, <3>3 DEF Queued, IsRetry
  <2>4. CASE queue' = queue /\ lost' = lost \cup {KeyOf(w)}
    BY <1>0, <2>4 DEF KeyOf
  <2>5. QED
    BY <2>1, <2>2, <2>3, <2>4
<1>4. QED
  BY <1>0, <1>1, <1>3, RetryMoves

LEMMA RetryNext == IInv /\ RetryInv /\ [Next]_vars => RetryInv'
<1> SUFFICES ASSUME IInv, RetryInv, [Next]_vars PROVE RetryInv'
  OBVIOUS
<1>t. pc \in [Workers -> Pc] /\ job \in [Workers -> Job] /\ ctx \in [Workers -> Ctx]
  BY DEF IInv, TypeOK
<1>1. CASE UNCHANGED vars
  <2>1. \A s \in Slots, d \in Dates : Queued(s, d)' = Queued(s, d) /\ Working(s, d)' = Working(s, d)
    BY <1>1 DEF vars, Queued, Working, KeyOf
  <2>2. QED
    BY <1>1, RetryStays DEF vars
<1>2. CASE Environment
  <2>1. /\ UNCHANGED <<pc, job, ctx, summary, lost>> /\ queue \subseteq queue'
    BY <1>2 DEF Environment, Tick, GraceEnds, Watchdog, ManualRun, RunAges, CaseAdded, UserSync, dbVars
  <2>2. \A j \in queue' \ queue : j.kind # "retry"
    <3>1. ASSUME NEW s PROVE SlotJob(s).kind = "slot"
      BY DEF SlotJob, NoJob
    <3>2. CatchupJob(LatestDueSlot(now)).kind = "catchup"
      BY DEF CatchupJob
    <3>3. queue' \subseteq queue \cup {SlotJob(LatestDueSlot(now').slot), SlotJob("manual"), CatchupJob(LatestDueSlot(now))}
      BY <1>2 DEF Environment, Tick, GraceEnds, Watchdog, ManualRun, RunAges, CaseAdded, UserSync
    <3>4. QED
      BY <3>1, <3>2, <3>3
  <2>3. QED
    BY <2>1, <2>2, RetryStays
<1>3. ASSUME NEW w \in Workers, NEW j \in queue, Take(w, j) PROVE RetryInv'
  BY <1>3, RetryTake
\* The walk.
<1>4. ASSUME NEW w \in Workers,
             \/ GuardFree(w) \/ InsertRun(w) \/ SelectRows(w) \/ Finish(w)
             \/ \E c \in Cases : SyncAnswered(w, c) \/ SyncUnreachable(w, c) \/ SyncInterrupted(w, c)
      PROVE  RetryInv'
  <2>1. UNCHANGED <<queue, job, summary, lost>>
    BY <1>4 DEF GuardFree, InsertRun, SelectRows, Finish, SyncAnswered, SyncUnreachable,
          SyncInterrupted, dbVars
  <2>2. \A v \in Workers : \/ pc'[v] = pc[v]
                            \/ {"idle", "recheck", "summary"} \cap {pc[v], pc'[v]} = {}
    BY <1>4, <1>t DEF GuardFree, InsertRun, SelectRows, Finish, SyncAnswered, SyncUnreachable,
                       SyncInterrupted, Goto
  <2>3. \A v \in Workers : ctx'[v].date = ctx[v].date /\ ctx'[v].retrying = ctx[v].retrying
    <3>1. ctx[w] \in Ctx
      BY <1>t
    <3>2. CASE GuardFree(w) \/ InsertRun(w) \/ SelectRows(w) \/ Finish(w)
      BY <1>t, <3>1, <3>2 DEF GuardFree, InsertRun, SelectRows, Finish, Ctx
    <3>3. ASSUME NEW c \in Cases, SyncAnswered(w, c)
          PROVE  \A v \in Workers : ctx'[v].date = ctx[v].date /\ ctx'[v].retrying = ctx[v].retrying
      BY <1>t, <3>1, <3>3 DEF SyncAnswered, Ctx
    <3>4. ASSUME NEW c \in Cases, SyncUnreachable(w, c) \/ SyncInterrupted(w, c)
          PROVE  \A v \in Workers : ctx'[v].date = ctx[v].date /\ ctx'[v].retrying = ctx[v].retrying
      <4>1. PICK x \in {ctx[w], CountSuccess(ctx[w])} : ctx' = [ctx EXCEPT ![w] = CountFailure(x, c)]
        BY <3>4 DEF SyncUnreachable, SyncInterrupted
      <4>2. pc[w] = "loop" /\ c \in ctx[w].todo
        BY <3>4 DEF SyncUnreachable, SyncInterrupted
      <4>3. x \in Ctx /\ x.streak < BREAKER_THRESHOLD /\ x.date = ctx[w].date /\ x.retrying = ctx[w].retrying
        BY <3>1, <4>2, SuccessType, ParamAssumption DEF IInv, GuardInv, WorkerInv
      <4>4. CountFailure(x, c).date = ctx[w].date /\ CountFailure(x, c).retrying = ctx[w].retrying
        BY <4>3, FailureType
      <4>5. QED
        BY <1>t, <4>1, <4>4
    <3>5. QED
      BY <1>4, <3>2, <3>3, <3>4
  <2>4. QED
    BY <2>1, <2>2, <2>3, RetryStays
<1>5. ASSUME NEW w \in Workers, Expire(w) PROVE RetryInv'
  <2>1. /\ pc[w] # "idle" /\ queue' = queue \cup {job[w]}
        /\ UNCHANGED <<pc, job, ctx, summary, lost>>
    BY <1>5 DEF Expire, Walking, dbVars
  <2>2. job[w].kind = "retry" => job[w].date \in Dates
    BY <2>1 DEF RetryInv, RetryOf, IInv, GuardInv, WorkerInv
  <2>3. QED
    BY <2>1, <2>2, RetryStays
<1>6. ASSUME NEW w \in Workers, ScheduleRetry(w) PROVE RetryInv'
  <2>0. PICK slot, date : slot = job[w].slot /\ date = ctx[w].date
    OBVIOUS
  <2>1. /\ pc[w] = "retry" /\ pc' = [pc EXCEPT ![w] = "summary"] /\ UNCHANGED <<job, summary, lost>>
    BY <1>6 DEF ScheduleRetry, Goto, dbVars
  <2>2. PICK j : j = RetryJob(slot, date, NextAttempt(w), 0)
    OBVIOUS
  <2>3. IsRetry(j, slot, date) /\ date \in Dates
    BY <2>0, <2>1, <2>2 DEF IsRetry, RetryJob, IInv, GuardInv, WorkerInv
  <2>4. /\ ctx'[w].date = ctx[w].date /\ \A v \in Workers \ {w} : ctx'[v] = ctx[v]
        /\ ctx'[w].retrying => queue' = queue \cup {j}
        /\ queue' = queue \/ queue' = queue \cup {j}
    <3>0. ctx[w] \in Ctx /\ ~ctx[w].retrying
      BY <1>t, <2>1 DEF RetryInv, RetryOf
    <3>1. \/ queue' = queue \cup {j} /\ ctx' = [ctx EXCEPT ![w].retrying = TRUE]
          \/ queue' = queue /\ ctx' = [ctx EXCEPT ![w].retrying = FALSE]
          \/ queue' = queue /\ ctx' = ctx
      BY <1>6, <2>0, <2>2 DEF ScheduleRetry, Scheduled
    <3>2. CASE queue' = queue \cup {j} /\ ctx' = [ctx EXCEPT ![w].retrying = TRUE]
      BY <1>t, <3>0, <3>2 DEF Ctx
    <3>3. CASE queue' = queue /\ ctx' = [ctx EXCEPT ![w].retrying = FALSE]
      BY <1>t, <3>0, <3>3 DEF Ctx
    <3>4. CASE queue' = queue /\ ctx' = ctx
      BY <3>0, <3>4
    <3>5. QED
      BY <3>1, <3>2, <3>3, <3>4
  <2>5. pc'[w] = "summary" /\ \A v \in Workers \ {w} : pc'[v] = pc[v]
    BY <1>t, <2>1
  <2>6. ctx'[w].retrying => Queued(slot, date)'
    BY <2>3, <2>4 DEF Queued
  <2>7. \A i \in queue' \ queue : i.kind = "retry" => i.date \in Dates
    BY <2>3, <2>4 DEF IsRetry
  <2>8. QED
    BY <2>0, <2>1, <2>4, <2>5, <2>6, <2>7, RetryMoves
<1>7. ASSUME NEW w \in Workers, SendSummary(w) PROVE RetryInv'
  <2>0. PICK slot \in Slots, date \in Dates : slot = job[w].slot /\ date = ctx[w].date
    BY <1>7, <1>t DEF SendSummary, IInv, GuardInv, WorkerInv, Job
  <2>1. /\ pc[w] = "summary" /\ Return(w) /\ UNCHANGED queue /\ lost \subseteq lost'
        /\ \/ \E b : summary' = [summary EXCEPT ![slot][date] = [retrying |-> ctx[w].retrying, clean |-> b]]
           \/ <<slot, date>> \in lost' /\ UNCHANGED summary
    BY <1>7, <2>0 DEF SendSummary, SaysRetrying, KeyOf
  <2>2. /\ pc'[w] = "idle" /\ ~ctx'[w].retrying
        /\ \A v \in Workers \ {w} : pc'[v] = pc[v] /\ job'[v] = job[v] /\ ctx'[v] = ctx[v]
    BY <1>t, <2>1 DEF Return, Goto, NoCtx
  <2>3. ctx[w].retrying => Queued(slot, date) /\ Queued(slot, date)'
    BY <2>0, <2>1 DEF RetryInv, RetryOf, Queued
  <2>4. /\ \A s \in Slots, d \in Dates : \/ summary'[s][d] = summary[s][d] \/ Queued(s, d)
                                         \/ ~summary'[s][d].retrying
        /\ <<slot, date>> \in lost' \/ Queued(slot, date)' \/ ~summary'[slot][date].retrying
    <3>1. CASE <<slot, date>> \in lost' /\ UNCHANGED summary
      BY <3>1
    <3>2. ASSUME NEW b, summary' = [summary EXCEPT ![slot][date] = [retrying |-> ctx[w].retrying, clean |-> b]]
          PROVE  /\ summary'[slot][date].retrying = ctx[w].retrying
                 /\ \A s \in Slots, d \in Dates : <<s, d>> # <<slot, date>> => summary'[s][d] = summary[s][d]
      <4>1. summary \in [Slots -> [Dates -> Summary]]
        BY DEF IInv, TypeOK
      <4>2. summary'[slot] = [summary[slot] EXCEPT ![date] = [retrying |-> ctx[w].retrying, clean |-> b]]
        BY <2>0, <3>2, <4>1
      <4>3. \A s \in Slots : s # slot => summary'[s] = summary[s]
        BY <3>2, <4>1
      <4>4. QED
        BY <2>0, <4>1, <4>2, <4>3
    <3>3. QED
      BY <2>1, <2>3, <3>1, <3>2
  <2>5. pc[w] # "idle" /\ queue \subseteq queue' /\ lost \subseteq lost' /\ queue' \ queue = {}
    BY <2>1
  <2>6. job[w].kind = "retry" =>
            <<slot, date>> \in lost' \/ Queued(slot, date)' \/ ~summary'[slot][date].retrying
    BY <2>4
  <2>7. QED
    BY <2>0, <2>2, <2>4, <2>5, <2>6, RetryMoves, SMTT(20)
<1>8. ASSUME NEW w \in Workers, Recheck(w) PROVE RetryInv'
  <2>1. /\ pc[w] = "recheck" /\ UNCHANGED <<queue, summary, lost>>
        /\ (Goto(w, "guard") /\ UNCHANGED <<job, ctx>>) \/ Return(w)
    BY <1>8 DEF Recheck, dbVars
  <2>2. job[w].kind # "retry" /\ ~ctx[w].retrying
    BY <2>1 DEF RetryInv, RetryOf
  <2>3. CASE Return(w)
    BY <2>1, <2>2, <2>3, RetryReturns
  <2>4. CASE Goto(w, "guard") /\ UNCHANGED <<job, ctx>>
    <3>0. PICK slot, date : slot = job[w].slot /\ date = ctx[w].date
      OBVIOUS
    <3>1. pc'[w] = "guard" /\ \A v \in Workers \ {w} : pc'[v] = pc[v]
      BY <1>t, <2>4 DEF Goto
    <3>2. QED
      BY <2>1, <2>2, <2>4, <3>0, <3>1, RetryMoves
  <2>5. QED
    BY <2>1, <2>3, <2>4
<1>9. ASSUME NEW w \in Workers, GuardBusy(w) \/ RunThrows(w) \/ Crash(w) PROVE RetryInv'
  <2>1. /\ pc[w] # "idle" /\ Return(w) /\ UNCHANGED summary
        /\ \/ Redeliver(w)
           \/ \E a, b : queue' = queue \cup {RetryJob(job[w].slot, ctx[w].date, a, b)} /\ lost' = lost
           \/ queue' = queue /\ lost' = lost \cup {KeyOf(w)}
    BY <1>9 DEF GuardBusy, RunThrows, Crash, dbVars
  <2>2. QED
    BY <2>1, RetryReturns
<1>10. QED
  BY <1>1, <1>2, <1>3, <1>4, <1>5, <1>6, <1>7, <1>8, <1>9 DEF Next, Step

\* However many runs, workers and slots there are: as long as an advocate's
\* summary says that a slot is being retried, a job of that slot is on its way,
\* unless one was given up or there was nobody left to tell.
THEOREM RetriesAreTold == Spec => []RetryingIsTrue
<1>1. RetryInv => RetryingIsTrue
  BY DEF RetryInv, RetryingIsTrue, Queued, Working, IsRetry, Alive
<1>2. Spec => []RetryInv
  BY RetryInit, RetryNext, Inductive, PTL DEF Spec
<1>3. QED
  BY <1>1, <1>2, PTL

=============================================================================
