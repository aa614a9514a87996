------------------------------ MODULE CaseStore ------------------------------
(***************************************************************************)
(* One case record as an advocate sees it (ecourts-case-store.service.ts): *)
(* served from the store, else asked of eCourts, else fetched by a queued  *)
(* job.  Every replica remembers for itself what it queued and that        *)
(* eCourts is down.  The times are events: a record grows stale, a pause   *)
(* or the two hours of a replica's memory end.                             *)
(***************************************************************************)
EXTENDS Naturals

CONSTANTS
    Replicas,
    Handlers, \* requests and jobs that may run at the same time
    NoReplica

VARIABLES
    stored,   \* the row of ecourts_case_store
    paused,   \* upstreamDownUntil, in each replica
    queuedAt, \* the case and its advocate are in this replica's queuedAt
    jobs,     \* replicas with a job ecourts.case.fetch that waits for its next run
    pc, at,   \* each handler, and the replica it runs in
    job,      \* the job it was handed
    told,     \* the advocate's last answer was "queued", nothing came since
    adrift,   \* history: this replica may remember a job that is not there
    excused   \* history: the promise was given or lost that way, or ran out

storeVars == <<stored, paused, queuedAt, jobs, pc, at, job, told, adrift, excused>>

Bodies == {"case", "none"}   \* the record, or that eCourts has none
TypeOK ==
    /\ stored \in {"absent", "case", "oldCase", "none", "oldNone"}
    /\ paused \in [Replicas -> BOOLEAN] /\ queuedAt \in [Replicas -> BOOLEAN]
    /\ jobs \subseteq Replicas
    /\ pc \in [Handlers -> {"idle", "live", "queue", "enqueue", "refresh", "job", "notify"}]
    /\ at \in [Handlers -> Replicas \cup {NoReplica}]
    /\ job \in [Handlers -> Replicas \cup {NoReplica}]
    /\ told \in BOOLEAN /\ adrift \in [Replicas -> BOOLEAN] /\ excused \in BOOLEAN

Init ==
    /\ stored = "absent"
    /\ paused = [r \in Replicas |-> FALSE] /\ queuedAt = [r \in Replicas |-> FALSE]
    /\ jobs = {}
    /\ pc = [h \in Handlers |-> "idle"]
    /\ at = [h \in Handlers |-> NoReplica] /\ job = [h \in Handlers |-> NoReplica]
    /\ told = FALSE /\ adrift = [r \in Replicas |-> FALSE] /\ excused = FALSE

-----------------------------------------------------------------------------
Goes(h, l) == pc' = [pc EXCEPT ![h] = l] /\ UNCHANGED <<at, job>>
Ends(h) ==
    /\ pc' = [pc EXCEPT ![h] = "idle"]
    /\ at' = [at EXCEPT ![h] = NoReplica] /\ job' = [job EXCEPT ![h] = NoReplica]

Answer == told' = FALSE /\ excused' = FALSE
SaysQueued(r) == told' = TRUE /\ excused' = (excused \/ adrift[r])

\* writeStored after an answer of eCourts: not awaited, and a failure of it is
\* only logged.
Written(b) == stored' \in {b, stored}

-----------------------------------------------------------------------------
(* getCase *)

Refreshing(r) == \E g \in Handlers : pc[g] = "refresh" /\ at[g] = r

\* What is stored and may be shown; an old record is refreshed behind it, once
\* in each replica.
Served(h, r) ==
    /\ pc[h] = "idle"
    /\ stored \in {"case", "oldCase", "none"}
    /\ IF stored = "oldCase" /\ ~Refreshing(r)
       THEN /\ pc' = [pc EXCEPT ![h] = "refresh"]
            /\ at' = [at EXCEPT ![h] = r] /\ UNCHANGED job
       ELSE UNCHANGED <<pc, at, job>>
    /\ Answer
    /\ UNCHANGED <<stored, paused, queuedAt, jobs, adrift>>

\* An old "none" is refreshed (by g) and asked for again as well.
Missing(h, g, r) ==
    /\ pc[h] = "idle" /\ stored \in {"absent", "oldNone"}
    /\ IF stored = "oldNone" /\ ~Refreshing(r)
       THEN /\ g # h /\ pc[g] = "idle"
            /\ pc' = [pc EXCEPT ![h] = "live", ![g] = "refresh"]
            /\ at' = [at EXCEPT ![h] = r, ![g] = r]
       ELSE pc' = [pc EXCEPT ![h] = "live"] /\ at' = [at EXCEPT ![h] = r]
    /\ UNCHANGED <<stored, paused, queuedAt, jobs, job, told, adrift, excused>>

\* fetchLive, for a request or a refresh: not while eCourts is paused.
LiveAnswered(h, b) ==
    /\ pc[h] \in {"live", "refresh"} /\ ~paused[at[h]]
    /\ Written(b)
    /\ IF pc[h] = "live" THEN Answer ELSE UNCHANGED <<told, excused>>
    /\ Ends(h)
    /\ UNCHANGED <<paused, queuedAt, jobs, adrift>>

\* Paused, or down, and from now on paused.
LiveFails(h) ==
    /\ pc[h] \in {"live", "refresh"}
    /\ paused' = [paused EXCEPT ![at[h]] = TRUE]
    /\ IF pc[h] = "live" THEN Goes(h, "queue") ELSE Ends(h)
    /\ UNCHANGED <<stored, queuedAt, jobs, told, adrift, excused>>

\* eCourts answers with something else; the request fails, nothing is kept.
LiveThrows(h) ==
    /\ pc[h] \in {"live", "refresh"} /\ ~paused[at[h]]
    /\ Ends(h)
    /\ UNCHANGED <<stored, paused, queuedAt, jobs, told, adrift, excused>>

-----------------------------------------------------------------------------
(* queueFetch *)

AlreadyQueued(h) ==
    /\ pc[h] = "queue" /\ queuedAt[at[h]]
    /\ SaysQueued(at[h])
    /\ Ends(h)
    /\ UNCHANGED <<stored, paused, queuedAt, jobs, adrift>>

\* Remembered before it is done.
Remember(h) ==
    /\ pc[h] = "queue" /\ ~queuedAt[at[h]]
    /\ queuedAt' = [queuedAt EXCEPT ![at[h]] = TRUE]
    /\ Goes(h, "enqueue")
    /\ UNCHANGED <<stored, paused, jobs, told, adrift, excused>>

Enqueued(h) ==
    /\ pc[h] = "enqueue"
    /\ jobs' = jobs \cup {at[h]}
    /\ adrift' = [adrift EXCEPT ![at[h]] = FALSE]
    /\ told' = TRUE /\ excused' = FALSE
    /\ Ends(h)
    /\ UNCHANGED <<stored, paused, queuedAt>>

\* "could not queue" is logged, and the advocate is told the same.
EnqueueFails(h) ==
    /\ pc[h] = "enqueue"
    /\ adrift' = [adrift EXCEPT ![at[h]] = TRUE]
    /\ told' = TRUE /\ excused' = TRUE
    /\ Ends(h)
    /\ UNCHANGED <<stored, paused, queuedAt, jobs>>

-----------------------------------------------------------------------------
(* runCaseFetchJob, in whichever replica takes the job *)

Take(h, r, j) ==
    /\ pc[h] = "idle" /\ j \in jobs
    /\ jobs' = jobs \ {j}
    /\ pc' = [pc EXCEPT ![h] = "job"]
    /\ at' = [at EXCEPT ![h] = r] /\ job' = [job EXCEPT ![h] = j]
    /\ UNCHANGED <<stored, paused, queuedAt, told, adrift, excused>>

Forgotten_Kept(r) == queuedAt  \* mutant: the memory of the job outlives it
Forgotten(r) == [queuedAt EXCEPT ![r] = FALSE]

\* The pause is not asked, and the replica that answers forgets the job.
JobAnswered(h, b) ==
    /\ pc[h] = "job"
    /\ Written(b)
    /\ queuedAt' = Forgotten(at[h])
    /\ Goes(h, "notify")
    /\ UNCHANGED <<paused, jobs, told, adrift, excused>>

\* notificationsStore.create swallows its failure: the job is over all the same.
JobNotifies(h, sent) ==
    /\ pc[h] = "notify"
    /\ adrift' = [adrift EXCEPT ![job[h]] = @ \/ (job[h] # at[h] /\ queuedAt[job[h]])]
    /\ IF sent THEN Answer ELSE excused' = told /\ UNCHANGED told
    /\ Ends(h)
    /\ UNCHANGED <<stored, paused, queuedAt, jobs>>

\* eCourts is down, which pauses the replica, or refuses ...
JobThrows(h) ==
    /\ pc[h] = "job"
    /\ paused' \in {paused, [paused EXCEPT ![at[h]] = TRUE]}

\* ... and pg-boss tries again ...
JobFails(h) ==
    /\ JobThrows(h)
    /\ jobs' = jobs \cup {job[h]}
    /\ Ends(h)
    /\ UNCHANGED <<stored, queuedAt, told, adrift, excused>>

\* ... but for the last time, and nobody is told.
JobGivesUp(h) ==
    /\ JobThrows(h)
    /\ adrift' = [adrift EXCEPT ![job[h]] = @ \/ queuedAt[job[h]]]
    /\ excused' = told
    /\ Ends(h)
    /\ UNCHANGED <<stored, queuedAt, jobs, told>>

-----------------------------------------------------------------------------
(* Time and restarts *)

GrowsOld ==
    /\ stored \in {"case", "none"}
    /\ stored' = IF stored = "none" THEN "oldNone" ELSE "oldCase"
    /\ UNCHANGED <<paused, queuedAt, jobs, pc, at, job, told, adrift, excused>>

PauseEnds(r) ==
    /\ paused' = [paused EXCEPT ![r] = FALSE]
    /\ UNCHANGED <<stored, queuedAt, jobs, pc, at, job, told, adrift, excused>>

\* QUEUE_WINDOW_MS
WindowEnds(r) ==
    /\ \A h \in Handlers : ~(pc[h] = "enqueue" /\ at[h] = r)
    /\ queuedAt' = [queuedAt EXCEPT ![r] = FALSE]
    /\ adrift' = [adrift EXCEPT ![r] = FALSE]
    /\ UNCHANGED <<stored, paused, jobs, pc, at, job, told, excused>>

\* A job it held goes back to the queue.
Restart(r) ==
    LET here == {h \in Handlers : at[h] = r} IN
    /\ paused' = [paused EXCEPT ![r] = FALSE] /\ queuedAt' = [queuedAt EXCEPT ![r] = FALSE]
    /\ adrift' = [adrift EXCEPT ![r] = FALSE]
    /\ pc'  = [h \in Handlers |-> IF h \in here THEN "idle" ELSE pc[h]]
    /\ at'  = [h \in Handlers |-> IF h \in here THEN NoReplica ELSE at[h]]
    /\ job' = [h \in Handlers |-> IF h \in here THEN NoReplica ELSE job[h]]
    /\ jobs' = jobs \cup {job[h] : h \in {g \in here : job[g] # NoReplica}}
    /\ excused' = (excused \/ (told /\ \E h \in here : pc[h] = "enqueue"))
    /\ UNCHANGED <<stored, told>>

Next ==
    \/ GrowsOld
    \/ \E r \in Replicas :
          \/ PauseEnds(r) \/ WindowEnds(r) \/ Restart(r)
          \/ \E h \in Handlers :
                \/ Served(h, r) \/ \E g \in Handlers : Missing(h, g, r)
                \/ \E j \in Replicas : Take(h, r, j)
    \/ \E h \in Handlers :
          \/ LiveFails(h) \/ LiveThrows(h) \/ AlreadyQueued(h) \/ Remember(h)
          \/ Enqueued(h) \/ EnqueueFails(h)
          \/ JobFails(h) \/ JobGivesUp(h)
          \/ JobNotifies(h, TRUE) \/ JobNotifies(h, FALSE)
          \/ \E b \in Bodies : LiveAnswered(h, b) \/ JobAnswered(h, b)

Spec == Init /\ [][Next]_storeVars

-----------------------------------------------------------------------------
\* "DifAi will keep trying in the background and notify you as soon as this
\* case is ready": whoever was told so has a job that goes on, unless the job
\* could not be queued, its last attempt or its notification failed, or a
\* replica still remembers a job that another one has finished.
QueuedIsTrue ==
    told /\ ~excused =>
        jobs # {} \/ \E h \in Handlers : pc[h] = "enqueue" \/ job[h] # NoReplica

=============================================================================
