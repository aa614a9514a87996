---------------------------- MODULE EcourtsSync ----------------------------
(***************************************************************************)
(* The scheduled eCourts refresh of LexDraft: the 09:00 / 19:00 IST slots, *)
(* their retries, the overlap guard on ecourts_sync_runs, the circuit      *)
(* breaker, the busy deferrals, the watchdog that recovers missed slots,   *)
(* and the per-advocate summary (ecourts-sync-runs.service.ts, with the    *)
(* handlers of jobs.service.ts that call it).                              *)
(*                                                                         *)
(* A worker is one pg-boss worker of one API process: it takes a job from  *)
(* the queue and walks runScheduledSync one database statement (or one     *)
(* case) at a time, so two workers interleave wherever the code awaits.    *)
(* Time of a database row is measured in runs inserted: a run row's id is  *)
(* its started_at, and a case synced now is stamped with nruns, so         *)
(* "synced_at >= cutoff" of the SQL is "synced >= cutoff" here.            *)
(***************************************************************************)
EXTENDS Integers, FiniteSets

CONSTANTS
    Cases,               \* matters with a usable CNR
    Workers,             \* pg-boss workers, of all API processes
    MAX_ATTEMPTS,        \* first run + retries of one slot (7)
    BREAKER_THRESHOLD,   \* consecutive upstream failures that stop a run (5)
    MAX_BUSY_DEFERRALS,  \* times a run is put back behind another one (12)
    MaxRuns,             \* bound: run rows in the table
    MaxNow,              \* bound: 09:00 / 19:00 / 00:00 boundaries passed
    MaxFaults,           \* bound: crashes, failing or expiring jobs, failing enqueues
    MaxUser              \* bound: manual runs, syncs and additions by users

ASSUME ParamAssumption ==
    /\ MAX_ATTEMPTS \in Nat \ {0}
    /\ BREAKER_THRESHOLD \in Nat \ {0}
    /\ MAX_BUSY_DEFERRALS \in Nat
    /\ MaxRuns \in Nat /\ MaxNow \in Nat /\ MaxFaults \in Nat /\ MaxUser \in Nat
    /\ IsFiniteSet(Cases)

VARIABLES
    now,        \* boundaries passed: now % 3 = 0 night, 1 after 09:00, 2 after 19:00
    graceOver,  \* CATCHUP_GRACE_MS has passed since the latest slot was due
    queue,      \* jobs waiting in pg-boss
    runs,       \* the rows of ecourts_sync_runs, in insertion order
    nruns,      \* how many of them exist
    cases,      \* the eCourts columns of the cases table
    pc,         \* where each worker stands in its handler
    job,        \* the job each worker holds
    ctx,        \* the local variables of each worker's runScheduledSync
    summary,    \* the summary notification of each slot and date
    lost,       \* history: each <<slot, date>> with a job given up before it
                \* ran, or a last summary that had nobody to go to
    faults,     \* faults so far
    user        \* user actions so far

dbVars  == <<runs, nruns, cases, summary>>
envVars == <<now, graceOver>>
vars == <<now, graceOver, queue, runs, nruns, cases, pc, job, ctx, summary, lost, faults, user>>

-----------------------------------------------------------------------------
(* Dates and slots *)

Slots  == {"morning", "evening", "manual"}
Times  == 1 .. MaxNow + 1
Day(t) == t \div 3 + 1
Dates  == {Day(t) : t \in Times}
NoDate == 0

\* The most recent 09:00 / 19:00 slot at or before t.
LatestDueSlot(t) ==
    IF t % 3 = 2 THEN [slot |-> "evening", date |-> Day(t)]
    ELSE IF t % 3 = 1 THEN [slot |-> "morning", date |-> Day(t)]
    ELSE [slot |-> "evening", date |-> Day(t - 1)]

RunIds == 1 .. MaxRuns

HasRow(d) == \E i \in RunIds : /\ i <= nruns
                               /\ runs[i].slot = d.slot
                               /\ runs[i].date = d.date

\* missedSlot(): the latest due slot has no run row and its grace is over.
Missed == graceOver /\ ~HasRow(LatestDueSlot(now))

-----------------------------------------------------------------------------
(* Records *)

Kinds == {"slot", "catchup", "retry"}
Job == [kind : Kinds, slot : Slots, date : Dates \cup {NoDate},
        attempt : 1 .. MAX_ATTEMPTS, busy : 0 .. MAX_BUSY_DEFERRALS]
NoJob == [kind |-> "slot", slot |-> "manual", date |-> NoDate, attempt |-> 1, busy |-> 0]

SlotJob(s) == [NoJob EXCEPT !.slot = s]
CatchupJob(d) == [kind |-> "catchup", slot |-> d.slot, date |-> d.date, attempt |-> 1, busy |-> 0]
RetryJob(s, d, a, b) == [kind |-> "retry", slot |-> s, date |-> d, attempt |-> a, busy |-> b]

\* finished: completed, partial or upstream_down, which no query tells apart.
RunStatus == {"none", "running", "finished", "failed"}
\* old: started more than STALE_RUN_HOURS ago.
Row == [slot : Slots, date : Dates, attempt : 1 .. MAX_ATTEMPTS,
        status : RunStatus, old : BOOLEAN]
NoRow == [slot |-> "manual", date |-> 1, attempt |-> 1, status |-> "none", old |-> FALSE]

LinkStatus == {"pending", "linked", "not_found", "error"}
Case == [live : BOOLEAN, link : LinkStatus, synced : 0 .. MaxRuns, tried : 0 .. MaxRuns]

Pc == {"idle", "recheck", "guard", "insert", "select", "loop", "retry", "summary"}
\* seen: how many rows existed when the worker looked for a running one
\* (history: no variable of the code holds it).  twice: how many cases it
\* counted as synced and then as failed (history too).
Ctx == [date : Dates \cup {NoDate}, seen : 0 .. MaxRuns, run : 0 .. MaxRuns, cutoff : 0 .. MaxRuns,
        todo : SUBSET Cases, streak : 0 .. BREAKER_THRESHOLD, scanned : Nat,
        synced : Nat, notFound : Nat, failed : Nat, deferred : Nat, twice : Nat,
        tripped : BOOLEAN, retrying : BOOLEAN]
NoCtx == [date |-> NoDate, seen |-> 0, run |-> 0, cutoff |-> 0, todo |-> {}, streak |-> 0,
          scanned |-> 0, synced |-> 0, notFound |-> 0, failed |-> 0, deferred |-> 0,
          twice |-> 0, tripped |-> FALSE, retrying |-> FALSE]

\* What a summary says: the slot is being retried; no case is unreachable.
Summary == [retrying : BOOLEAN, clean : BOOLEAN]
NoSummary == [retrying |-> FALSE, clean |-> FALSE]

-----------------------------------------------------------------------------
(* Queries *)

RunningRows == {i \in RunIds : i <= nruns /\ runs[i].status = "running"}

\* The latest answer on the case since the cutoff is "no such record" or an error.
Answered(c, cutoff) == /\ cases[c].link \in {"not_found", "error"}
                       /\ cases[c].tried >= cutoff

\* countUnreachable(cutoff), and the row filter of a retry.
Unreachable(cutoff) ==
    {c \in Cases : /\ cases[c].live
                   /\ cases[c].synced < cutoff
                   /\ ~Answered(c, cutoff)}

\* The window of a slot opens at its earliest first attempt; a retry whose
\* slot has no first attempt on record falls back to its own start.
FirstAttempts(s, d) ==
    {i \in RunIds : /\ i <= nruns
                    /\ runs[i].slot = s /\ runs[i].date = d /\ runs[i].attempt = 1}
Cutoff(s, d, attempt, own) ==
    IF attempt > 1 /\ FirstAttempts(s, d) # {}
    THEN CHOOSE i \in FirstAttempts(s, d) : \A j \in FirstAttempts(s, d) : i <= j
    ELSE own

\* The cases a run walks.
Rows(attempt, cutoff) == IF attempt = 1 THEN {c \in Cases : cases[c].live}
                         ELSE Unreachable(cutoff)

\* The number a summary shows as unreachable: total less the three counts.
Tally(cutoff) ==
    LET live     == {c \in Cases : cases[c].live}
        synced   == {c \in live : cases[c].synced >= cutoff}
        answered == {c \in live : Answered(c, cutoff)}
        rest     == Cardinality(live) - Cardinality(synced) - Cardinality(answered)
    IN  IF rest > 0 THEN rest ELSE 0

-----------------------------------------------------------------------------
(* Initial state: a slot that falls due, an idle service, and a cases table  *)
(* left by earlier days (no synced_at inside any window of this behaviour).  *)

\* The slot of boundary t is due; pg-boss has its job, or nobody was up for it.
StartsAt(t) ==
    /\ now = t /\ graceOver = FALSE
    /\ queue \in {{}, {SlotJob(LatestDueSlot(t).slot)}}
    /\ runs = [i \in RunIds |-> NoRow] /\ nruns = 0
    /\ cases \in [Cases -> {[live |-> TRUE,  link |-> "linked",  synced |-> 0, tried |-> 0],
                            [live |-> FALSE, link |-> "pending", synced |-> 0, tried |-> 0]}]
    /\ pc = [w \in Workers |-> "idle"]
    /\ job = [w \in Workers |-> NoJob]
    /\ ctx = [w \in Workers |-> NoCtx]
    /\ summary = [s \in Slots |-> [d \in Dates |-> NoSummary]]
    /\ lost = {} /\ faults = 0 /\ user = 0

\* 09:00 of the first day.
Init == StartsAt(1)

-----------------------------------------------------------------------------
(* The clock and the users *)

\* The next boundary.  At 09:00 and 19:00 pg-boss fires the cron only if a
\* process is up at that minute.
Tick ==
    /\ now <= MaxNow
    /\ now' = now + 1
    /\ IF now' % 3 = 0
         THEN graceOver /\ UNCHANGED <<graceOver, queue>>
         ELSE /\ graceOver' = FALSE
              /\ queue' \in {queue, queue \cup {SlotJob(LatestDueSlot(now').slot)}}
    /\ UNCHANGED <<dbVars, pc, job, ctx, lost, faults, user>>

GraceEnds ==
    /\ ~graceOver
    /\ graceOver' = TRUE
    /\ UNCHANGED <<now, queue, dbVars, pc, job, ctx, lost, faults, user>>

\* ensureScheduledSyncRan(), at startup and from the 15-minute watchdog.
Watchdog ==
    /\ Missed
    /\ queue' = queue \cup {CatchupJob(LatestDueSlot(now))}
    /\ UNCHANGED <<envVars, dbVars, pc, job, ctx, lost, faults, user>>

\* STALE_RUN_HOURS pass over a row that is still 'running'.
RunAges(i) ==
    /\ i <= nruns /\ runs[i].status = "running" /\ ~runs[i].old
    /\ runs' = [runs EXCEPT ![i].old = TRUE]
    /\ UNCHANGED <<envVars, queue, nruns, cases, summary, pc, job, ctx, lost, faults, user>>

\* Someone triggers 'ecourts.sync.daily'.
ManualRun ==
    /\ user < MaxUser
    /\ user' = user + 1
    /\ queue' = queue \cup {SlotJob("manual")}
    /\ UNCHANGED <<envVars, dbVars, pc, job, ctx, lost, faults>>

CaseAdded(c) ==
    /\ user < MaxUser /\ ~cases[c].live /\ cases[c].tried = 0
    /\ user' = user + 1
    /\ cases' = [cases EXCEPT ![c] = [live |-> TRUE, link |-> "pending", synced |-> 0, tried |-> 0]]
    /\ UNCHANGED <<envVars, queue, runs, nruns, summary, pc, job, ctx, lost, faults>>

-----------------------------------------------------------------------------
(* One case: syncCaseFromEcourts, or recordSyncFailure when it throws.  A    *)
(* success writes 'Closed' for a disposed case, which takes it off the       *)
(* candidates, and 'Active' otherwise, which can bring a closed one back.    *)
(* An unreachable eCourts leaves a linked case linked.                       *)

Synced(c)   == {[live |-> l, link |-> "linked", synced |-> nruns, tried |-> nruns] :
                   l \in BOOLEAN}
NotFound(c) == [cases[c] EXCEPT !.link = "not_found", !.tried = nruns]
CaseError(c) == [cases[c] EXCEPT !.link = "error", !.tried = nruns]
Upstream(c) == [cases[c] EXCEPT !.link = IF @ = "linked" THEN "linked" ELSE "pending",
                                !.tried = nruns]

\* An advocate's "Sync now" (of a closed matter too), or a link job, outside
\* the scheduled runs.
UserSync(c) ==
    /\ user < MaxUser /\ (cases[c].live \/ cases[c].tried > 0)
    /\ user' = user + 1
    /\ \E k \in Synced(c) \cup {NotFound(c), CaseError(c), Upstream(c)} :
          cases' = [cases EXCEPT ![c] = k]
    /\ UNCHANGED <<envVars, queue, runs, nruns, summary, pc, job, ctx, lost, faults>>

-----------------------------------------------------------------------------
(* The handlers *)

Goto(w, l) == pc' = [pc EXCEPT ![w] = l]
\* The handler returns: the worker is free, its locals are gone.
Return(w) == /\ Goto(w, "idle")
             /\ job' = [job EXCEPT ![w] = NoJob]
             /\ ctx' = [ctx EXCEPT ![w] = NoCtx]

\* The worker has a run row open and cases to walk.
Walking(w) == pc[w] \in {"select", "loop"}

\* The slot and date a worker is running.
KeyOf(w) == <<job[w].slot, ctx[w].date>>

\* pg-boss hands a job to a worker.  A job without a date gets the day it
\* starts on (runScheduledSync: opts.runDate ?? istDate()).  RETRY_DELAY_SEC
\* outlasts the summaries its sender still has to send.
Take(w, j) ==
    /\ pc[w] = "idle" /\ j \in queue
    /\ j.kind = "retry" => \A v \in Workers : ~(pc[v] = "summary" /\ KeyOf(v) = <<j.slot, j.date>>)
    /\ queue' = queue \ {j}
    /\ job' = [job EXCEPT ![w] = j]
    /\ ctx' = [ctx EXCEPT ![w].date = IF j.date = NoDate THEN Day(now) ELSE j.date]
    /\ Goto(w, IF j.kind = "catchup" THEN "recheck" ELSE "guard")
    /\ UNCHANGED <<envVars, dbVars, lost, faults, user>>

\* ecourts.sync.catchup: run the slot only if it is still the missed one.
Recheck(w) ==
    /\ pc[w] = "recheck"
    /\ IF Missed /\ LatestDueSlot(now) = [slot |-> job[w].slot, date |-> job[w].date]
         THEN Goto(w, "guard") /\ UNCHANGED <<job, ctx>>
         ELSE Return(w)
    /\ UNCHANGED <<envVars, queue, dbVars, faults, lost, user>>

\* The overlap guard: close rows that are too old, then look for a running
\* one.  (Two statements; whatever another worker does between them could as
\* well have come before or after both.)
Closed_Nothing == runs  \* mutant: the stale rows are left alone
Closed == [i \in RunIds |-> IF i \in RunningRows /\ runs[i].old
                            THEN [runs[i] EXCEPT !.status = "failed"] ELSE runs[i]]
Busy_Never == FALSE  \* mutant: no guard
Busy == \E i \in RunIds : i <= nruns /\ Closed[i].status = "running"

GuardFree(w) ==
    /\ pc[w] = "guard" /\ ~Busy
    /\ runs' = Closed
    /\ ctx' = [ctx EXCEPT ![w].seen = nruns]
    /\ Goto(w, "insert")
    /\ UNCHANGED <<envVars, queue, nruns, cases, summary, job, faults, lost, user>>

\* Put the run back behind the other one, at most MAX_BUSY_DEFERRALS times;
\* an enqueue that fails is only logged.
GuardBusy(w) ==
    /\ pc[w] = "guard" /\ Busy
    /\ runs' = Closed
    /\ LET again == RetryJob(job[w].slot, ctx[w].date, job[w].attempt, job[w].busy + 1)
       IN  \/ /\ job[w].busy + 1 <= MAX_BUSY_DEFERRALS
              /\ queue' = queue \cup {again}
              /\ UNCHANGED <<lost, faults>>
           \/ /\ job[w].busy + 1 <= MAX_BUSY_DEFERRALS /\ faults < MaxFaults
              /\ faults' = faults + 1
              /\ lost' = lost \cup {KeyOf(w)}
              /\ UNCHANGED queue
           \/ /\ job[w].busy + 1 > MAX_BUSY_DEFERRALS
              /\ lost' = lost \cup {KeyOf(w)}
              /\ UNCHANGED <<queue, faults>>
    /\ Return(w)
    /\ UNCHANGED <<envVars, nruns, cases, summary, user>>

\* insert into ecourts_sync_runs: no constraint keeps a second running row out.
InsertRun(w) ==
    /\ pc[w] = "insert" /\ nruns < MaxRuns
    /\ nruns' = nruns + 1
    /\ runs' = [runs EXCEPT ![nruns + 1] =
                   [slot |-> job[w].slot, date |-> ctx[w].date, attempt |-> job[w].attempt,
                    status |-> "running", old |-> FALSE]]
    /\ ctx' = [ctx EXCEPT ![w].run = nruns + 1]
    /\ Goto(w, "select")
    /\ UNCHANGED <<envVars, queue, cases, summary, job, faults, lost, user>>

\* The cutoff, and the cases to walk.  (The code walks the least recently
\* synced first; any order is allowed here.)
SelectRows(w) ==
    /\ pc[w] = "select"
    /\ LET cutoff == Cutoff(job[w].slot, ctx[w].date, job[w].attempt, ctx[w].run)
           todo   == Rows(job[w].attempt, cutoff)
       IN  ctx' = [ctx EXCEPT ![w].cutoff = cutoff, ![w].todo = todo,
                              ![w].scanned = Cardinality(todo)]
    /\ Goto(w, "loop")
    /\ UNCHANGED <<envVars, queue, dbVars, job, faults, lost, user>>

\* eCourts answers for the next case.
SyncAnswered(w, c) ==
    /\ pc[w] = "loop" /\ c \in ctx[w].todo
    /\ \/ /\ \E k \in Synced(c) : cases' = [cases EXCEPT ![c] = k]
          /\ ctx' = [ctx EXCEPT ![w].todo = @ \ {c}, ![w].streak = 0, ![w].synced = @ + 1]
       \/ /\ cases' = [cases EXCEPT ![c] = NotFound(c)]
          /\ ctx' = [ctx EXCEPT ![w].todo = @ \ {c}, ![w].streak = 0, ![w].notFound = @ + 1]
       \/ /\ cases' = [cases EXCEPT ![c] = CaseError(c)]
          /\ ctx' = [ctx EXCEPT ![w].todo = @ \ {c}, ![w].streak = 0, ![w].failed = @ + 1]
    /\ UNCHANGED <<envVars, queue, runs, nruns, summary, pc, job, faults, lost, user>>

\* mutant: one failure too late
Trips_Late(streak) == streak + 1 > BREAKER_THRESHOLD
\* One more failure in a row trips the breaker.
Trips(streak) == streak + 1 >= BREAKER_THRESHOLD

\* mutant: the case that tripped the breaker is deferred too
Deferred_Inclusive(x, c) == x.todo
\* The cases the breaker leaves out.
Deferred(x, c) == x.todo \ {c}

\* The catch of the loop, for an error that is not an answer of eCourts: the
\* locals x after case c.
CountFailure(x, c) ==
    LET trips == Trips(x.streak)
    IN  [x EXCEPT !.todo = IF trips THEN {} ELSE @ \ {c},
                  !.streak = @ + 1,
                  !.failed = @ + 1,
                  !.deferred = IF trips THEN Cardinality(Deferred(x, c)) ELSE @,
                  !.tripped = trips]

\* eCourts is unreachable for the next case.
SyncUnreachable(w, c) ==
    /\ pc[w] = "loop" /\ c \in ctx[w].todo
    /\ cases' = [cases EXCEPT ![c] = Upstream(c)]
    /\ ctx' = [ctx EXCEPT ![w] = CountFailure(ctx[w], c)]
    /\ UNCHANGED <<envVars, queue, runs, nruns, summary, pc, job, faults, lost, user>>

\* The same try notifies of the changes: when that throws, a case that has
\* been counted as synced comes to the catch.
CountSuccess(x) == [x EXCEPT !.streak = 0, !.synced = @ + 1, !.twice = @ + 1]

\* eCourts answers and the case is written, but our own database fails after
\* it: in the rest of syncCaseFromEcourts, or in the notification.
SyncInterrupted(w, c) ==
    /\ pc[w] = "loop" /\ c \in ctx[w].todo /\ faults < MaxFaults
    /\ faults' = faults + 1
    /\ \E k \in Synced(c) : cases' = [cases EXCEPT ![c] = k]
    /\ \E x \in {ctx[w], CountSuccess(ctx[w])} :
          ctx' = [ctx EXCEPT ![w] = CountFailure(x, c)]
    /\ UNCHANGED <<envVars, queue, runs, nruns, summary, pc, job, lost, user>>

\* The final update of the row, by id and whatever its status has become.
Finish(w) ==
    /\ pc[w] = "loop" /\ ctx[w].todo = {}
    /\ runs' = [runs EXCEPT ![ctx[w].run].status = "finished"]
    /\ Goto(w, "retry")
    /\ UNCHANGED <<envVars, queue, nruns, cases, summary, job, ctx, lost, faults, user>>

\* mutant: one attempt too many
WillRetry_OneMore(w) ==
    Unreachable(ctx[w].cutoff) # {} /\ job[w].attempt <= MAX_ATTEMPTS

\* countUnreachable finds some, and there is an attempt left.
WillRetry(w) == Unreachable(ctx[w].cutoff) # {} /\ job[w].attempt < MAX_ATTEMPTS

\* mutant: retryScheduled does not depend on the enqueue
Scheduled_Assumed(enqueued) == TRUE
\* enqueueRetry's result, which the summary repeats.
Scheduled(enqueued) == enqueued

NextAttempt(w) == job[w].attempt + 1

\* Queue the next attempt; an enqueue that fails is only logged.
ScheduleRetry(w) ==
    /\ pc[w] = "retry"
    /\ \/ /\ WillRetry(w)
          /\ queue' = queue \cup {RetryJob(job[w].slot, ctx[w].date, NextAttempt(w), 0)}
          /\ ctx' = [ctx EXCEPT ![w].retrying = Scheduled(TRUE)]
          /\ UNCHANGED faults
       \/ /\ WillRetry(w) /\ faults < MaxFaults
          /\ faults' = faults + 1
          /\ ctx' = [ctx EXCEPT ![w].retrying = Scheduled(FALSE)]
          /\ UNCHANGED queue
       \/ ~WillRetry(w) /\ UNCHANGED <<queue, ctx, faults>>
    /\ Goto(w, "summary")
    /\ UNCHANGED <<envVars, dbVars, job, lost, user>>

SaysRetrying(w) == ctx[w].retrying

\* sendRunSummaries: upserts the one notification of this slot and date; an
\* advocate left without a live matter gets none, and keeps the earlier one.
SendSummary(w) ==
    /\ pc[w] = "summary"
    /\ IF \E c \in Cases : cases[c].live
         THEN /\ summary' = [summary EXCEPT ![job[w].slot][ctx[w].date] =
                                [retrying |-> SaysRetrying(w), clean |-> Tally(ctx[w].cutoff) = 0]]
              /\ UNCHANGED lost
         ELSE lost' = lost \cup {KeyOf(w)} /\ UNCHANGED summary
    /\ Return(w)
    /\ UNCHANGED <<envVars, queue, runs, nruns, cases, faults, user>>

\* pg-boss runs the job of a dead handler again, or has no retry left for it.
Redeliver(w) ==
    \/ queue' = queue \cup {job[w]} /\ UNCHANGED lost
    \/ lost' = lost \cup {KeyOf(w)} /\ UNCHANGED queue

\* The database fails under the walk: the row is closed as failed, the error
\* goes to pg-boss.
RunThrows(w) ==
    /\ pc[w] \in {"select", "loop"} /\ faults < MaxFaults
    /\ faults' = faults + 1
    /\ runs' = [runs EXCEPT ![ctx[w].run].status = "failed"]
    /\ Redeliver(w)
    /\ Return(w)
    /\ UNCHANGED <<envVars, nruns, cases, summary, user>>

\* The process dies: nothing is closed.  (So does a database error outside the
\* try block: before the walk, in the final update or after it.)
Crash(w) ==
    /\ pc[w] # "idle" /\ faults < MaxFaults
    /\ faults' = faults + 1
    /\ Redeliver(w)
    /\ Return(w)
    /\ UNCHANGED <<envVars, dbVars, user>>

\* pg-boss takes a job for dead once it expires and hands it out again, while
\* the handler walks on: after RUN_EXPIRE_SEC, or sooner if the job was queued
\* without it (the manual one: pg-boss's default of 15 minutes).
Expire(w) ==
    /\ Walking(w) /\ faults < MaxFaults
    /\ runs[ctx[w].run].old \/ job[w] = SlotJob("manual")
    /\ faults' = faults + 1
    /\ queue' = queue \cup {job[w]}
    /\ UNCHANGED <<envVars, dbVars, pc, job, ctx, lost, user>>

-----------------------------------------------------------------------------
Environment ==
    \/ Tick \/ GraceEnds \/ Watchdog \/ ManualRun
    \/ \E i \in RunIds : RunAges(i)
    \/ \E c \in Cases : CaseAdded(c) \/ UserSync(c)

Step(w) ==
    \/ Recheck(w) \/ GuardFree(w) \/ GuardBusy(w) \/ InsertRun(w) \/ SelectRows(w)
    \/ \E c \in Cases : SyncAnswered(w, c) \/ SyncUnreachable(w, c) \/ SyncInterrupted(w, c)
    \/ Finish(w) \/ ScheduleRetry(w) \/ SendSummary(w)

Next ==
    \/ Environment
    \/ \E w \in Workers : \/ \E j \in queue : Take(w, j)
                          \/ Step(w) \/ RunThrows(w) \/ Crash(w) \/ Expire(w)

Spec == Init /\ [][Next]_vars

\* What the code's scheduling gives: pg-boss keeps handing out jobs, a handler
\* that is not killed runs on, the 15-minute watchdog keeps firing, and time
\* passes over a row left running.  Nothing is assumed of eCourts or users.
Fairness ==
    /\ WF_vars(Watchdog)
    /\ \A i \in RunIds : WF_vars(RunAges(i))
    /\ \A w \in Workers : WF_vars(Step(w)) /\ WF_vars(\E j \in queue : Take(w, j))

FairSpec == Spec /\ Fairness

-----------------------------------------------------------------------------
(* Properties *)

\* Every variable has its type: rows past nruns do not exist, and a worker
\* that walks holds a row of the table.
TypeOK ==
    /\ now \in Times /\ graceOver \in BOOLEAN
    /\ queue \subseteq Job
    /\ nruns \in 0 .. MaxRuns
    /\ runs \in [RunIds -> Row]
    /\ \A i \in RunIds : i > nruns <=> runs[i].status = "none"
    /\ cases \in [Cases -> Case]
    /\ pc \in [Workers -> Pc]
    /\ job \in [Workers -> Job]
    /\ ctx \in [Workers -> Ctx]
    /\ summary \in [Slots -> [Dates -> Summary]]
    /\ lost \subseteq Slots \X Dates
    /\ faults \in 0 .. MaxFaults /\ user \in 0 .. MaxUser

\* The overlap guard, as far as it goes: of two workers that walk cases at the
\* same time, the later run looked for a running row before the earlier row
\* existed, or the earlier run has gone past STALE_RUN_HOURS.
OverlapOnlyByRace ==
    \A v, w \in Workers :
        Walking(v) /\ Walking(w) /\ ctx[v].run < ctx[w].run =>
            \/ ctx[w].seen < ctx[v].run
            \/ runs[ctx[v].run].old

\* What the guard's steps keep true of every worker, from which
\* OverlapOnlyByRace follows: a worker past the insert holds a row of its own,
\* inserted after it looked; that row stays running, or has grown old, as long
\* as it walks; and no row it looked at is running again.
HoldsRow(w) == pc[w] \in {"select", "loop", "retry", "summary"}
WorkerInv(w) ==
    /\ pc[w] # "idle" => ctx[w].date \in Dates
    /\ pc[w] = "insert" => ctx[w].seen <= nruns
    /\ HoldsRow(w) => ctx[w].seen < ctx[w].run /\ ctx[w].run <= nruns
    /\ Walking(w) => runs[ctx[w].run].status = "running" \/ runs[ctx[w].run].old
    /\ pc[w] = "loop" /\ ctx[w].todo # {} => ctx[w].streak < BREAKER_THRESHOLD
    /\ pc[w] \in {"idle", "recheck", "guard", "insert", "select"} => ctx[w].streak = 0
    /\ pc[w] = "insert" \/ HoldsRow(w) =>
           \A i \in RunIds : i <= ctx[w].seen => runs[i].status # "running"
GuardInv ==
    /\ \A w \in Workers : WorkerInv(w)
    /\ \A v, w \in Workers : HoldsRow(v) /\ HoldsRow(w) /\ v # w => ctx[v].run # ctx[w].run

\* The counters of a run account for every case it scanned, whatever mix of
\* answers it got and wherever the breaker stopped it: each case is counted
\* once, but for those whose notification failed after they were counted as
\* synced, which are counted as failed as well.
TallyConserved ==
    \A w \in Workers : pc[w] \in {"loop", "retry", "summary"} =>
        ctx[w].scanned + ctx[w].twice =
            ctx[w].synced + ctx[w].notFound + ctx[w].failed + ctx[w].deferred
            + Cardinality(ctx[w].todo)

\* A run is marked upstream_down exactly when its last BREAKER_THRESHOLD cases
\* all came to the catch without an answer (the first of them may be one that
\* eCourts answered and whose notification failed), and it contacts eCourts no
\* more after that.
BreakerSound ==
    \A w \in Workers : pc[w] \in {"loop", "retry", "summary"} =>
        /\ ctx[w].tripped <=> ctx[w].streak = BREAKER_THRESHOLD
        /\ ctx[w].tripped => ctx[w].todo = {} /\ ctx[w].failed >= BREAKER_THRESHOLD
        /\ ~ctx[w].tripped => ctx[w].deferred = 0

\* Some job, queued or in a worker's hands, is for this slot and date.
Alive(s, d) ==
    \/ \E j \in queue : j.slot = s /\ j.date = d
    \/ \E w \in Workers : pc[w] # "idle" /\ KeyOf(w) = <<s, d>>

\* An advocate who is told that a slot is being retried is told the truth: as
\* long as the summary says so, a job of that slot is on its way, unless one
\* was given up or the attempt that ended the slot had nobody to tell.
RetryingIsTrue ==
    \A s \in Slots, d \in Dates :
        summary[s][d].retrying /\ <<s, d>> \notin lost => Alive(s, d)

\* A summary that says nothing is unreachable is never sent while a case has
\* neither been synced nor answered since the slot's window opened:
\* "so the bell shows the latest truth".  Tally subtracts twice a case that
\* was synced and then answered in the same window, so it fails.
SummaryShowsTruth ==
    [][\A w \in Workers :
          SendSummary(w) /\ summary'[job[w].slot][ctx[w].date].clean =>
              Unreachable(ctx[w].cutoff) = {}]_vars

\* A slot that is due and has no run on record gets one from the watchdog, even
\* behind a crashed run whose row is still 'running' (or the next slot is due).
MissedSlotRecovered == Missed ~> ~Missed

\* Attempts and deferrals are bounded, so the service comes to rest.
ChainsEnd == <>[](queue = {} /\ \A w \in Workers : pc[w] = "idle")

=============================================================================
