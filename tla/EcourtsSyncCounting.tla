------------------------ MODULE EcourtsSyncCounting ------------------------
(***************************************************************************)
(* What a run counts, for every number of cases and workers and every      *)
(* threshold: the counters account for each case it scanned (twice for one *)
(* whose notification failed after it was counted as synced), and the      *)
(* breaker trips exactly on the last failure of a streak.  Both follow     *)
(* from one invariant on a worker's position and locals (Counted), which   *)
(* is inductive together with EcourtsSyncProofs' IInv: from IInv comes     *)
(* that the streak is below the threshold while there is a case to walk.   *)
(***************************************************************************)
EXTENDS EcourtsSyncProofs

Before == {"idle", "recheck", "guard", "insert", "select"}
After  == {"loop", "retry", "summary"}

Total(x) == x.synced + x.notFound + x.failed + x.deferred + Cardinality(x.todo)

Counted(p, x) ==
    /\ p \in Before => /\ x.synced = 0 /\ x.notFound = 0 /\ x.failed = 0
                       /\ x.twice = 0 /\ x.deferred = 0 /\ x.tripped = FALSE
    /\ p \in After => /\ x.scanned + x.twice = Total(x)
                      /\ x.tripped <=> x.streak = BREAKER_THRESHOLD
                      /\ x.tripped => x.todo = {}
                      /\ x.streak <= x.failed
                      /\ ~x.tripped => x.deferred = 0

CountInv == \A w \in Workers : Counted(pc[w], ctx[w])

-----------------------------------------------------------------------------
(* Frames *)

LEMMA InitCount == Init => CountInv
  BY DEF Init, StartsAt, CountInv, Counted, NoCtx, Before, After

LEMMA CountUnchanged == CountInv /\ UNCHANGED <<pc, ctx>> => CountInv'
  BY DEF CountInv

\* One worker moves.
LEMMA CountMoves ==
    ASSUME IInv, CountInv, NEW w \in Workers, NEW p, NEW x, Counted(p, x),
           pc' = [pc EXCEPT ![w] = p], ctx' = [ctx EXCEPT ![w] = x]
    PROVE  CountInv'
<1>1. pc \in [Workers -> Pc] /\ ctx \in [Workers -> Ctx]
  BY DEF IInv, TypeOK
<1>2. SUFFICES ASSUME NEW v \in Workers PROVE Counted(pc'[v], ctx'[v])
  BY DEF CountInv, Counted, Total
<1>3. CASE v = w
  BY <1>1, <1>3
<1>4. CASE v # w
  BY <1>1, <1>4 DEF CountInv
<1>5. QED
  BY <1>3, <1>4

LEMMA CountReturns ==
    ASSUME IInv, CountInv, NEW w \in Workers, Return(w)
    PROVE  CountInv'
<1>1. pc' = [pc EXCEPT ![w] = "idle"] /\ ctx' = [ctx EXCEPT ![w] = NoCtx]
  BY DEF Return, Goto
<1>2. Counted("idle", NoCtx)
  BY DEF Counted, NoCtx, Before, After
<1>3. QED
  BY <1>1, <1>2, CountMoves

\* One worker moves and keeps its locals.
LEMMA CountGoes ==
    ASSUME IInv, CountInv, NEW w \in Workers, NEW p, Goto(w, p), UNCHANGED ctx,
           \/ pc[w] \in Before /\ p \in Before
           \/ pc[w] \in After /\ p \in After
    PROVE  CountInv'
<1>1. Counted(pc[w], ctx[w]) /\ ctx' = [ctx EXCEPT ![w] = ctx[w]]
  BY DEF CountInv, IInv, TypeOK
<1>2. Counted(p, ctx[w])
  BY <1>1 DEF Counted, Before, After
<1>3. QED
  BY <1>1, <1>2, CountMoves DEF Goto

-----------------------------------------------------------------------------
(* The steps that touch the locals *)

LEMMA CountTake ==
    ASSUME IInv, CountInv, NEW w \in Workers, NEW j \in queue, Take(w, j)
    PROVE  CountInv'
<1> DEFINE d == IF j.date = NoDate THEN Day(now) ELSE j.date
           x == [ctx[w] EXCEPT !.date = d]
           p == IF j.kind = "catchup" THEN "recheck" ELSE "guard"
<1>1. /\ pc[w] = "idle" /\ pc' = [pc EXCEPT ![w] = p]
      /\ ctx' = [ctx EXCEPT ![w] = x] /\ ctx[w] \in Ctx
  BY DEF Take, Goto, IInv, TypeOK
<1>2. Counted(pc[w], ctx[w])
  BY DEF CountInv
<1>3. Counted(p, x)
  BY <1>1, <1>2 DEF Counted, Before, After, Ctx
<1> HIDE DEF x, p
<1>4. QED
  BY <1>1, <1>3, CountMoves

LEMMA CountGuardFree ==
    ASSUME IInv, CountInv, NEW w \in Workers, GuardFree(w)
    PROVE  CountInv'
<1> DEFINE x == [ctx[w] EXCEPT !.seen = nruns]
<1>1. /\ pc[w] = "guard" /\ pc' = [pc EXCEPT ![w] = "insert"]
      /\ ctx' = [ctx EXCEPT ![w] = x] /\ ctx[w] \in Ctx
  BY DEF GuardFree, Goto, IInv, TypeOK
<1>2. Counted(pc[w], ctx[w])
  BY DEF CountInv
<1>3. Counted("insert", x)
  BY <1>1, <1>2 DEF Counted, Before, After, Ctx
<1> HIDE DEF x
<1>4. QED
  BY <1>1, <1>3, CountMoves

LEMMA CountInsertRun ==
    ASSUME IInv, CountInv, NEW w \in Workers, InsertRun(w)
    PROVE  CountInv'
<1> DEFINE x == [ctx[w] EXCEPT !.run = nruns + 1]
<1>1. /\ pc[w] = "insert" /\ pc' = [pc EXCEPT ![w] = "select"]
      /\ ctx' = [ctx EXCEPT ![w] = x] /\ ctx[w] \in Ctx
  BY DEF InsertRun, Goto, IInv, TypeOK
<1>2. Counted(pc[w], ctx[w])
  BY DEF CountInv
<1>3. Counted("select", x)
  BY <1>1, <1>2 DEF Counted, Before, After, Ctx
<1> HIDE DEF x
<1>4. QED
  BY <1>1, <1>3, CountMoves

\* The walk begins with everything to do and nothing counted.
LEMMA CountSelectRows ==
    ASSUME IInv, CountInv, NEW w \in Workers, SelectRows(w)
    PROVE  CountInv'
<1> DEFINE cutoff == Cutoff(job[w].slot, ctx[w].date, job[w].attempt, ctx[w].run)
           todo   == Rows(job[w].attempt, cutoff)
           x      == [ctx[w] EXCEPT !.cutoff = cutoff, !.todo = todo, !.scanned = Cardinality(todo)]
<1> HIDE DEF cutoff
<1>1. /\ pc[w] = "select" /\ pc' = [pc EXCEPT ![w] = "loop"]
      /\ ctx' = [ctx EXCEPT ![w] = x] /\ ctx[w] \in Ctx
  BY DEF SelectRows, Goto, IInv, TypeOK, cutoff
<1>2. Counted(pc[w], ctx[w]) /\ ctx[w].streak = 0
  BY <1>1 DEF CountInv, IInv, GuardInv, WorkerInv
<1>3. todo \in SUBSET Cases
  BY DEF Rows, Unreachable
<1>4. Cardinality(todo) \in Nat
  BY <1>3, CaseSets
<1> HIDE DEF todo
<1>5. /\ x.scanned = Cardinality(todo) /\ x.todo = todo /\ x.streak = 0
      /\ x.synced = 0 /\ x.notFound = 0 /\ x.failed = 0 /\ x.deferred = 0 /\ x.twice = 0
      /\ x.tripped = FALSE
  BY <1>1, <1>2 DEF Counted, Before, Ctx
<1> HIDE DEF x
<1>6. Counted("loop", x)
  BY <1>4, <1>5, ParamAssumption DEF Counted, Total, Before, After
<1>7. QED
  BY <1>1, <1>6, CountMoves

\* What is known of a worker with a case in front of it.
LEMMA WalkingCounts ==
    ASSUME IInv, CountInv, NEW w \in Workers, pc[w] = "loop", NEW c \in ctx[w].todo
    PROVE  /\ ctx[w] \in Ctx
           /\ ctx[w].scanned + ctx[w].twice = Total(ctx[w])
           /\ ctx[w].streak < BREAKER_THRESHOLD /\ ctx[w].streak <= ctx[w].failed
           /\ ctx[w].tripped = FALSE /\ ctx[w].deferred = 0
           /\ Cardinality(ctx[w].todo \ {c}) = Cardinality(ctx[w].todo) - 1
           /\ Cardinality(ctx[w].todo) \in Nat /\ Cardinality(ctx[w].todo \ {c}) \in Nat
<1>1. ctx[w] \in Ctx
  BY DEF IInv, TypeOK
<1>2. ctx[w].streak < BREAKER_THRESHOLD
  BY DEF IInv, GuardInv, WorkerInv
<1>3. Counted("loop", ctx[w])
  BY DEF CountInv
<1>4. ctx[w].tripped = FALSE
  BY <1>1, <1>2, <1>3, ParamAssumption DEF Counted, After, Ctx
<1>5. ctx[w].todo \in SUBSET Cases /\ ctx[w].todo \ {c} \in SUBSET Cases
  BY <1>1 DEF Ctx
<1>6. Cardinality(ctx[w].todo \ {c}) = Cardinality(ctx[w].todo) - 1
  BY <1>5, CaseSets, FS_RemoveElement
<1>7. QED
  BY <1>1, <1>2, <1>3, <1>4, <1>5, <1>6, CaseSets DEF Counted, After

LEMMA CountSyncAnswered ==
    ASSUME IInv, CountInv, NEW w \in Workers, NEW c \in Cases, SyncAnswered(w, c)
    PROVE  CountInv'
<1> DEFINE rest == ctx[w].todo \ {c}
<1>1. pc[w] = "loop" /\ c \in ctx[w].todo /\ pc' = [pc EXCEPT ![w] = "loop"]
  BY DEF SyncAnswered, IInv, TypeOK
<1>2. /\ ctx[w] \in Ctx
      /\ ctx[w].scanned + ctx[w].twice = Total(ctx[w])
      /\ ctx[w].tripped = FALSE /\ ctx[w].deferred = 0
      /\ Cardinality(rest) = Cardinality(ctx[w].todo) - 1
      /\ Cardinality(ctx[w].todo) \in Nat /\ Cardinality(rest) \in Nat
  BY <1>1, WalkingCounts
<1> HIDE DEF rest
<1>3. ASSUME NEW x, x \in Ctx,
             x.scanned = ctx[w].scanned, x.twice = ctx[w].twice, x.todo = rest, x.streak = 0,
             x.tripped = FALSE, x.deferred = 0,
             x.synced + x.notFound + x.failed = ctx[w].synced + ctx[w].notFound + ctx[w].failed + 1
      PROVE  Counted("loop", x)
  <2>1. x.scanned + x.twice = Total(x)
    BY <1>2, <1>3 DEF Total, Ctx
  <2>2. x.streak <= x.failed /\ x.streak # BREAKER_THRESHOLD
    BY <1>3, ParamAssumption DEF Ctx
  <2>3. QED
    BY <1>3, <2>1, <2>2 DEF Counted, Before, After
<1>4. /\ rest \in SUBSET Cases /\ 0 \in 0 .. BREAKER_THRESHOLD
      /\ ctx[w].synced + 1 \in Nat /\ ctx[w].notFound + 1 \in Nat /\ ctx[w].failed + 1 \in Nat
  BY <1>2, ParamAssumption DEF rest, Ctx
<1>5. CASE ctx' = [ctx EXCEPT ![w].todo = @ \ {c}, ![w].streak = 0, ![w].synced = @ + 1]
  <2> DEFINE x == [ctx[w] EXCEPT !.todo = rest, !.streak = 0, !.synced = @ + 1]
  <2>1. ctx' = [ctx EXCEPT ![w] = x]
    BY <1>5 DEF IInv, TypeOK, rest
  <2>2. x \in Ctx
    BY <1>2, <1>4 DEF Ctx
  <2>3. /\ x.scanned = ctx[w].scanned /\ x.twice = ctx[w].twice /\ x.todo = rest /\ x.streak = 0
        /\ x.tripped = ctx[w].tripped /\ x.deferred = ctx[w].deferred
        /\ x.synced = ctx[w].synced + 1 /\ x.notFound = ctx[w].notFound /\ x.failed = ctx[w].failed
    BY <1>2 DEF Ctx
  <2> HIDE DEF x
  <2>4. x.synced + x.notFound + x.failed = ctx[w].synced + ctx[w].notFound + ctx[w].failed + 1
    BY <1>2, <2>3 DEF Ctx
  <2>5. Counted("loop", x)
    BY <1>2, <1>3, <2>2, <2>3, <2>4
  <2>6. QED
    BY <1>1, <2>1, <2>5, CountMoves
<1>6. CASE ctx' = [ctx EXCEPT ![w].todo = @ \ {c}, ![w].streak = 0, ![w].notFound = @ + 1]
  <2> DEFINE x == [ctx[w] EXCEPT !.todo = rest, !.streak = 0, !.notFound = @ + 1]
  <2>1. ctx' = [ctx EXCEPT ![w] = x]
    BY <1>6 DEF IInv, TypeOK, rest
  <2>2. x \in Ctx
    BY <1>2, <1>4 DEF Ctx
  <2>3. /\ x.scanned = ctx[w].scanned /\ x.twice = ctx[w].twice /\ x.todo = rest /\ x.streak = 0
        /\ x.tripped = ctx[w].tripped /\ x.deferred = ctx[w].deferred
        /\ x.notFound = ctx[w].notFound + 1 /\ x.synced = ctx[w].synced /\ x.failed = ctx[w].failed
    BY <1>2 DEF Ctx
  <2> HIDE DEF x
  <2>4. x.synced + x.notFound + x.failed = ctx[w].synced + ctx[w].notFound + ctx[w].failed + 1
    BY <1>2, <2>3 DEF Ctx
  <2>5. Counted("loop", x)
    BY <1>2, <1>3, <2>2, <2>3, <2>4
  <2>6. QED
    BY <1>1, <2>1, <2>5, CountMoves
<1>7. CASE ctx' = [ctx EXCEPT ![w].todo = @ \ {c}, ![w].streak = 0, ![w].failed = @ + 1]
  <2> DEFINE x == [ctx[w] EXCEPT !.todo = rest, !.streak = 0, !.failed = @ + 1]
  <2>1. ctx' = [ctx EXCEPT ![w] = x]
    BY <1>7 DEF IInv, TypeOK, rest
  <2>2. x \in Ctx
    BY <1>2, <1>4 DEF Ctx
  <2>3. /\ x.scanned = ctx[w].scanned /\ x.twice = ctx[w].twice /\ x.todo = rest /\ x.streak = 0
        /\ x.tripped = ctx[w].tripped /\ x.deferred = ctx[w].deferred
        /\ x.failed = ctx[w].failed + 1 /\ x.synced = ctx[w].synced /\ x.notFound = ctx[w].notFound
    BY <1>2 DEF Ctx
  <2> HIDE DEF x
  <2>4. x.synced + x.notFound + x.failed = ctx[w].synced + ctx[w].notFound + ctx[w].failed + 1
    BY <1>2, <2>3 DEF Ctx
  <2>5. Counted("loop", x)
    BY <1>2, <1>3, <2>2, <2>3, <2>4
  <2>6. QED
    BY <1>1, <2>1, <2>5, CountMoves
<1>8. QED
  BY <1>5, <1>6, <1>7 DEF SyncAnswered

\* The failure that trips the breaker moves what is left to the deferred.
LEMMA FailureCounts ==
    ASSUME NEW x \in Ctx, NEW c \in x.todo,
           x.streak < BREAKER_THRESHOLD, x.streak <= x.failed, x.deferred = 0,
           x.scanned + x.twice = Total(x)
    PROVE  Counted("loop", CountFailure(x, c))
<1> DEFINE trips == Trips(x.streak)
           left  == IF trips THEN {} ELSE x.todo \ {c}
           late  == IF trips THEN Cardinality(Deferred(x, c)) ELSE x.deferred
           y     == [x EXCEPT !.todo = left, !.streak = @ + 1, !.failed = @ + 1,
                              !.deferred = late, !.tripped = trips]
<1>1. CountFailure(x, c) = y
  BY DEF CountFailure
<1>2. /\ x.synced \in Nat /\ x.notFound \in Nat /\ x.failed \in Nat /\ x.streak \in Nat
      /\ x.scanned \in Nat /\ x.twice \in Nat /\ BREAKER_THRESHOLD \in Nat
  BY ParamAssumption DEF Ctx
<1>3. /\ Cardinality(x.todo \ {c}) = Cardinality(x.todo) - 1
      /\ Cardinality(x.todo) \in Nat /\ Cardinality(x.todo \ {c}) \in Nat
  <2>1. x.todo \in SUBSET Cases /\ x.todo \ {c} \in SUBSET Cases
    BY DEF Ctx
  <2>2. QED
    BY <2>1, CaseSets, FS_RemoveElement
<1>4. Cardinality(left) + late = Cardinality(x.todo) - 1 /\ late \in Nat /\ Cardinality(left) \in Nat
  BY <1>3, FS_EmptySet DEF Deferred
<1>5. /\ trips <=> x.streak + 1 = BREAKER_THRESHOLD
      /\ trips => left = {}
      /\ ~trips => late = 0
      /\ trips \in BOOLEAN
  BY <1>2 DEF Trips
<1> HIDE DEF left, late, trips
<1>6. /\ y.scanned = x.scanned /\ y.twice = x.twice /\ y.todo = left /\ y.streak = x.streak + 1
      /\ y.failed = x.failed + 1 /\ y.deferred = late /\ y.tripped = trips
      /\ y.synced = x.synced /\ y.notFound = x.notFound
  BY DEF Ctx
<1> HIDE DEF y
<1>7. y.scanned + y.twice = Total(y)
  BY <1>2, <1>3, <1>4, <1>6 DEF Total
<1>8. y.streak <= y.failed
  BY <1>2, <1>6
<1>9. QED
  BY <1>1, <1>5, <1>6, <1>7, <1>8 DEF Counted, Before, After

LEMMA CountSyncUnreachable ==
    ASSUME IInv, CountInv, NEW w \in Workers, NEW c \in Cases, SyncUnreachable(w, c)
    PROVE  CountInv'
<1> DEFINE y == CountFailure(ctx[w], c)
<1>1. /\ pc[w] = "loop" /\ c \in ctx[w].todo /\ pc' = [pc EXCEPT ![w] = "loop"]
      /\ ctx' = [ctx EXCEPT ![w] = y]
  BY DEF SyncUnreachable, IInv, TypeOK
<1>2. Counted("loop", y)
  BY <1>1, WalkingCounts, FailureCounts
<1> HIDE DEF y
<1>3. QED
  BY <1>1, <1>2, CountMoves

\* A case that was counted as synced adds to both sides when it fails as well.
LEMMA CountSyncInterrupted ==
    ASSUME IInv, CountInv, NEW w \in Workers, NEW c \in Cases, SyncInterrupted(w, c)
    PROVE  CountInv'
<1>1. PICK x \in {ctx[w], CountSuccess(ctx[w])} :
        /\ pc[w] = "loop" /\ c \in ctx[w].todo /\ pc' = [pc EXCEPT ![w] = "loop"]
        /\ ctx' = [ctx EXCEPT ![w] = CountFailure(x, c)]
  BY DEF SyncInterrupted, IInv, TypeOK
<1>2. /\ ctx[w] \in Ctx
      /\ ctx[w].scanned + ctx[w].twice = Total(ctx[w])
      /\ ctx[w].streak < BREAKER_THRESHOLD /\ ctx[w].streak <= ctx[w].failed
      /\ ctx[w].deferred = 0 /\ Cardinality(ctx[w].todo) \in Nat
  BY <1>1, WalkingCounts
<1>3. /\ x \in Ctx /\ x.todo = ctx[w].todo
      /\ x.scanned + x.twice = Total(x)
      /\ x.streak < BREAKER_THRESHOLD /\ x.streak <= x.failed /\ x.deferred = 0
  <2>1. CASE x = ctx[w]
    BY <1>2, <2>1
  <2>2. CASE x = CountSuccess(ctx[w])
    <3>1. /\ x \in Ctx /\ x.streak = 0 /\ x.todo = ctx[w].todo
          /\ x.synced = ctx[w].synced + 1 /\ x.twice = ctx[w].twice + 1
          /\ x.scanned = ctx[w].scanned /\ x.notFound = ctx[w].notFound
          /\ x.failed = ctx[w].failed /\ x.deferred = ctx[w].deferred
      BY <1>2, <2>2, SuccessType
    <3>2. x.scanned + x.twice = Total(x)
      BY <1>2, <3>1 DEF Total, Ctx
    <3>3. x.streak < BREAKER_THRESHOLD /\ x.streak <= x.failed
      BY <1>2, <3>1, ParamAssumption DEF Ctx
    <3>4. QED
      BY <1>2, <3>1, <3>2, <3>3
  <2>3. QED
    BY <2>1, <2>2
<1>4. Counted("loop", CountFailure(x, c))
  BY <1>1, <1>3, FailureCounts
<1>5. QED
  BY <1>1, <1>4, CountMoves

LEMMA CountScheduleRetry ==
    ASSUME IInv, CountInv, NEW w \in Workers, ScheduleRetry(w)
    PROVE  CountInv'
<1>1. pc[w] = "retry" /\ pc' = [pc EXCEPT ![w] = "summary"] /\ ctx[w] \in Ctx
  BY DEF ScheduleRetry, Goto, IInv, TypeOK
<1>2. Counted("retry", ctx[w])
  BY <1>1 DEF CountInv
<1>3. ASSUME NEW b \in BOOLEAN, ctx' = [ctx EXCEPT ![w].retrying = b]
      PROVE  CountInv'
  <2> DEFINE x == [ctx[w] EXCEPT !.retrying = b]
  <2>1. ctx' = [ctx EXCEPT ![w] = x]
    BY <1>3 DEF IInv, TypeOK
  <2>2. Counted("summary", x)
    BY <1>1, <1>2 DEF Counted, Total, Before, After, Ctx
  <2> HIDE DEF x
  <2>3. QED
    BY <1>1, <2>1, <2>2, CountMoves
<1>4. CASE ctx' = ctx
  BY <1>1, <1>4, CountGoes DEF Goto, Before, After
<1>5. QED
  BY <1>3, <1>4 DEF ScheduleRetry, Scheduled

-----------------------------------------------------------------------------
(* The theorems *)

LEMMA NextCount == IInv /\ CountInv /\ [Next]_vars => CountInv'
<1> SUFFICES ASSUME IInv, CountInv, [Next]_vars PROVE CountInv'
  OBVIOUS
<1>1. CASE UNCHANGED vars
  BY <1>1, CountUnchanged DEF vars
<1>2. CASE Environment
  BY <1>2, CountUnchanged
     DEF Environment, Tick, GraceEnds, Watchdog, ManualRun, RunAges, CaseAdded, UserSync
<1>3. ASSUME NEW w \in Workers, \E j \in queue : Take(w, j)
      PROVE  CountInv'
  BY <1>3, CountTake
<1>4. ASSUME NEW w \in Workers, Step(w)
      PROVE  CountInv'
  <2>1. CASE Recheck(w)
    BY <2>1, CountGoes, CountReturns DEF Recheck, Before, After
  <2>2. CASE GuardBusy(w) \/ SendSummary(w)
    BY <2>2, CountReturns DEF GuardBusy, SendSummary
  <2>3. CASE Finish(w)
    BY <2>3, CountGoes DEF Finish, Before, After
  <2>4. QED
    BY <1>4, <2>1, <2>2, <2>3, CountGuardFree, CountInsertRun, CountSelectRows,
       CountSyncAnswered, CountSyncUnreachable, CountSyncInterrupted, CountScheduleRetry DEF Step
<1>5. ASSUME NEW w \in Workers, RunThrows(w) \/ Crash(w) \/ Expire(w)
      PROVE  CountInv'
  BY <1>5, CountReturns, CountUnchanged DEF RunThrows, Crash, Expire
<1>6. QED
  BY <1>1, <1>2, <1>3, <1>4, <1>5 DEF Next

\* Every reachable state counts right.
THEOREM Counting == Spec => []CountInv
<1>1. Spec => []IInv
  BY Inductive
<1>2. IInv /\ CountInv /\ [Next]_vars => CountInv'
  BY NextCount
<1>3. QED
  BY <1>1, <1>2, InitCount, PTL DEF Spec

\* The counters of a run account for every case it scanned, whatever the
\* answers, wherever the breaker stopped it, for every number of cases: once,
\* and a second time only if the case failed after it was counted as synced.
THEOREM TallyCorrect == Spec => []TallyConserved
<1>1. CountInv => TallyConserved
  BY DEF CountInv, Counted, Total, After, TallyConserved
<1>2. QED
  BY <1>1, Counting, PTL

\* A run is upstream_down exactly when its last BREAKER_THRESHOLD cases came to
\* the catch without an answer; it then asks for no more, and only then leaves cases out.
THEOREM BreakerCorrect == Spec => []BreakerSound
<1>1. IInv /\ CountInv => BreakerSound
  <2> SUFFICES ASSUME IInv, CountInv, NEW w \in Workers, pc[w] \in After
               PROVE  /\ ctx[w].tripped <=> ctx[w].streak = BREAKER_THRESHOLD
                      /\ ctx[w].tripped => ctx[w].todo = {} /\ ctx[w].failed >= BREAKER_THRESHOLD
                      /\ ~ctx[w].tripped => ctx[w].deferred = 0
    BY DEF BreakerSound, After
  <2>1. Counted(pc[w], ctx[w]) /\ ctx[w] \in Ctx
    BY DEF CountInv, IInv, TypeOK
  <2>2. QED
    BY <2>1, ParamAssumption DEF Counted, Ctx
<1>2. QED
  BY <1>1, Counting, Inductive, PTL

=============================================================================
