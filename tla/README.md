# LexDraft, in TLA+

LexDraft is a practice-management service for Indian advocates: a TypeScript API
(`apps/api`) over Postgres, a job queue in the same database (pg-boss), a web
application, and a stateless Python drafting engine. What can go wrong in it is
seldom inside one function. It is two handlers on one row, a job that is handed
out twice, a process that dies between two statements, an answer of an outside
service (eCourts, the e-filing portal, a payment provider) that arrives after
the row it is about has changed. This directory models those parts.

All paths below are relative to `src/`; `services/` is `apps/api/src/services/`.

## 1. Inventory

### Modelled

**eCourts scheduled sync** (`services/ecourts-sync-runs.service.ts`; its jobs in
`services/jobs.service.ts`). *State*: the table `ecourts_sync_runs`, the eCourts
columns of `cases`, one notification per advocate, slot and date, and the
pg-boss queues. *Operations*: `runScheduledSync` (09:00 and 19:00 IST, manual,
retry, catch-up), `missedSlot` / `ensureScheduledSyncRan` (watchdog, every 15
minutes and at start-up), `enqueueRetry`, `countUnreachable`,
`sendRunSummaries`. *Interaction*: reads the candidates, calls
`syncCaseFromEcourts` for each, records every outcome, starts the e-filing
tracker afterwards. *Hard*: the overlap guard is a select followed by an insert;
runs die and leave a `running` row; runs outlive the time after which others
take them for dead; retries are deferred, dropped, or fail to be queued; three
counts are subtracted that are not disjoint; a case is notified of in the `try`
that has counted it. *Correct means*: no two walks
unless the guard was raced or outlived; the counters of a run add up; the
circuit breaker stops exactly on the fifth failure in a row; an announced retry
comes; retries end; a missed slot is run.

**A matter's link to eCourts** (`services/ecourts-link.service.ts`,
`services/case-sync.service.ts`, `routes/cases.routes.ts`, the webhook). *State*:
`cases.cnr`, `ecourts_link_status`, the fetched details, open or closed, in the
trash or not; the queue `ecourts.case.link`. *Operations*: link by CNR, link by
case number, edit of the matter, `attachCnr` of a filing, "Sync now" with or
without a forced court tier, webhook, link job with retries, the daily sweep,
trash and restore. *Hard*: eCourts takes seconds and the row is updated by id
afterwards; CNR and status are two updates; two queues and two users write the
same columns. *Correct means*: what is shown as linked is the record of the
matter's own CNR and was really fetched; every matter with a registered CNR is
connected in the end.

**e-filing** (`services/efiling-filings.service.ts`, `efiling-bundle.service.ts`,
`efiling-portal-sync.service.ts`, `efiling-tracker.service.ts`). *State*: the
filing's status, checklist (`steps`), numbers, CNR and tracking state; payments;
documents and their bundle; events; on the other side the case on
filing.ecourts.gov.in. *Operations*: ten requests of the advocate, the portal
sync (`goalFor`, `pathTo`, one guarded update per move, `register`,
`syncPayments`, `syncDocuments`), the tracker (`lookupFiling`, `applyOutcome`,
`closeAlreadyLinked`, and the breaker that puts off what is left). *Hard*: four
writers that read the row, work for minutes and write it by id; two lists of
documents, one of which the sync extends. *Correct means*: the sync is idempotent and only makes moves
the status machine allows; a registration, a step, a bundle is not lost; a
filing before the court ends up registered.

**Electronic signatures** (`services/esign.service.ts`, `esign-audit.service.ts`).
*State*: a request, its signers, the one-time codes mailed to them, the signed
document, the audit log with its hash chain. *Operations*: send, open, consent,
code, verify, sign, decline, cancel, complete; `record` and `verifyChain`.
*Hard*: sign and complete are five statements and two signers take them at once;
the limit of a code is compared with a count read earlier; audit rows are chained
to the newest row as each process sees it. *Correct means*: consent, proof,
signature in this order for everybody, a document only when all have signed, and
then always; a log that verifies is the one that was written.

**Seats, invitations, co-counsel** (`invitations.service.ts`,
`co-counsel.service.ts`, seat and user changes of `admin.service.ts` and
`firm-admin.service.ts`). *State*: the users and seats of a firm, one table of
invitations of two kinds, handovers, grants. *Operations*: create, resend, cancel,
accept, the expiry sweep; handover to a user or by link, accept, cancel; the
operator's move of an account to another firm. *Hard*: seats are counted before a
row is inserted; a link is checked before an account is made and marked after.
*Correct means*: no more members than seats; a handover has one taker; a guest
becomes a member of the referring firm by the operator's hand alone.

**Coverage board** (`coverage.service.ts`). *State*: a posting. *Operations*:
create, claim, cancel, complete. *Hard*: one of the three writes under a
condition, two do not. *Correct means*: a claimer stays, an ending stays.

**Hearings of a matter** (`hearings.service.ts`, the date and hearing writes of
`case-sync.service.ts` and `cases.service.ts`). *State*: `cases.next_hearing`,
`hearings`. *Operations*: create, update, remove, `syncCaseNextHearing`,
`materializeCaseHearings`, edit of the matter, the eCourts sync. *Hard*: three
writers of one date, one of which turns it into a row whenever somebody reads a
list; a hearing can move between matters, which is read in one statement and
written in another. *Correct means*: the date announced, and reminded of, is the right one; a
hearing that was deleted stays deleted.

**A case looked up** (`ecourts-case-store.service.ts`). *State*: the stored
record; in every replica a pause after a failure, a memory of what was queued, a
limiter; the jobs. *Operations*: `getCase`, background refresh, `queueFetch`,
`runCaseFetchJob`, `limited`. *Hard*: what is remembered in a process is about a
job that any process may run. *Correct means*: "DifAi will keep trying" is true;
no place of the limiter is lost.

**Plan and billing** (`billing.service.ts`). *State*: the firm's plan columns,
`billing_events`. *Operations*: checkout, webhook. *Hard*: deliveries twice, at
once, late, out of order; a crash between applying and logging. *Correct means*:
an event takes effect once; the firm ends where its subscription's events do.

**AI quota** (`ai-quota.service.ts`). *State*: the rows of one user, the renewal
date. *Operations*: `assertCanGenerate`, the generation, renewals. *Hard*: minutes
between the check and the row; the cycle is counted back from the renewal.
*Correct means*: the cap holds, but for what runs together.

**Caches of entitlements** (`permissions.service.ts`, `services/tenant.ts`,
`plan-status.service.ts`, `cache-broadcaster.ts`). *State*: an entry per replica,
notifications under way. *Operations*: read through, write and invalidate,
NOTIFY. *Hard*: an entry read before a change and stored after its invalidation;
lost notifications. *Correct means*: nothing is older than the TTL.

**Members and erasure** (`firm-admin.service.ts`, `dpdp.service.ts`,
`admin.service.ts`). *State*: role and status of each member, requests to be
erased. *Operations*: update by the firm or the platform, delete, request
erasure, take it back, the purge. *Hard*: the last admin is counted in a
statement of its own; an account in its waiting period goes on being edited.
*Correct means*: the firm keeps an admin; who takes it back has lost nothing.

**Title reports** (`title-reports.service.ts`, `title-reports.ai.service.ts`). *State*:
the header with status and verdict, the defects, the runs of the language model.
*Operations*: edit, transition, acknowledge a defect, analyse, synthesise an opinion.
*Hard*: an analysis goes on for minutes behind a request that was answered, replaces
the defects of the one before, and fails in the middle. *Correct means*: what the
advocate entered stays, the other defects are those of the last analysis, and the
opinion is on the report.

### Not modelled

| Component | Why |
|---|---|
| Run bookkeeping of the e-filing tracker (`efiling-tracker.service.ts:225-370`) | a second, simpler copy of the scheduled sync's; what a run does to a filing is in `EfilingFiling` |
| Sign-in, MFA, phone OTP (`auth.service.ts`, `mfa.service.ts`, `phone-otp.service.ts`) | counters read before they are incremented: the same form as the codes of `Esign`, which carries the argument |
| Deleting an account (`firm-admin.service.ts`, `admin.service.ts`) beside invitations and grants | `Members` has it, for what the firm keeps; it only takes seats and accounts away |
| Creating a filing for a portal case the firm has no filing of | a single import; from then on it is the filing of `EfilingFiling` |
| The rest of title reports: documents and their extraction, land records, number and quota | prompts, text, and rows of their own that no transition looks at |
| Pipeline stages (`case-pipeline.service.ts`) | one transaction on one row; the graph it moves in is data |
| Client portal, team chat, rate limiter, intake, drafting, review, mock arguments, matter intelligence, firm records | single statements, prompts and text; no protocol of their own |
| e-filing live sessions, portal automation, particulars | cookie sessions and HTML forms of filing.ecourts.gov.in: I/O; their one step on a filing is a transition |
| eCourts client and parsers | I/O and scraping; their answers are the environment of every model here |
| Middleware, web application, shared packages, the Python engine | requests checked and views drawn one at a time, schemas, generated text. The web application is most of the lines of this repository and keeps no state that two actors share |

The hazards of each part, with the line where they bite and the properties that
watch over them, are in `PROJECT.json`.

## 2. Modules

| Module | Models |
|---|---|
| `EcourtsSync` | the scheduled sync: clock, queue, workers, run rows, cases, summaries |
| `EcourtsSyncProofs`, `EcourtsSyncCounting` | its theorems: types, the overlap guard, overlapping runs, retries; the counters and the breaker |
| `CaseLink`, `CaseLinkProofs` | one matter and every handler that writes its CNR, link state and record; its theorems |
| `EfilingFiling`, `EfilingProofs` | one filing, its matter, the portal, the advocate, the sync and the tracker; its theorems |
| `SignaturePromise` | what an electronic signature promises, as two actions |
| `Esign`, `EsignProofs` | one signature request with its codes and its document; its theorems, among them that it implements `SignaturePromise` |
| `EsignAudit` | the hash-chained audit log, and somebody who changes the table |
| `Invitations`, `CoCounsel` | seats and invitations; handovers, which extend them, since they share the table |
| `Coverage` | one posting of the coverage board |
| `Hearings` | the next date of one matter and its hearings |
| `CaseStore`, `LiveCalls` | one case as it is looked up; the limiter of live calls |
| `Billing`, `AiQuota`, `EntitlementCache`, `Members` | the plan, its quota, the caches of it, the members |
| `TitleReport` | one title report, its defects, analyses and opinion |
| `MCEcourtsSync`, `MCCaseLink`, `MCEfilingFiling`, `MCEsign` | symmetry for TLC |
| `MCOffice`, `MCAccount` | several of the small modules in one run each, see below |
| `OfficeProofs`, `HandoverProofs`, `AccountProofs` | theorems about the modules that `MCOffice` and `MCAccount` instantiate |

The `.cfg` files are named `<module>_<question>.cfg`.

The first three meet at the matter: `EcourtsSync` sees a case as the outcome of one
sync (`Synced`, `NotFound`, `CaseError`, `Upstream`), `CaseLink` opens that step
up for one matter's link, `Hearings` for its dates, and `EfilingFiling` sees the
matter as a CNR that others may change (`EditMatter`) and that `attachCnr` sets.
They share no variables: each takes the steps of the others as its environment,
which is weaker (more behaviours) than composing them. Where the code's
components do share rows, the modules share variables: `CoCounsel` extends
`Invitations` and interleaves with all of its actions.

`MCOffice` and `MCAccount` instantiate modules that share no state at all. In
every behaviour the variable `part` says which module moves, and the others rest
in their one initial state: that is the union of the separate state spaces, where
an interleaving would only be their product. Sets of model values are shared (the
handlers of one part and the recorders of another are both `Requests`), so that a
symmetry counts once. The constants' values are those a run of the module alone
would have.

### EcourtsSync

A worker is one pg-boss worker of one API process. `pc` says where it stands in
`runScheduledSync`, `ctx` holds its local variables, `job` what it was handed.

| Action | Code |
|---|---|
| `Tick`, `GraceEnds`, `RunAges` | time: the slot boundaries, `CATCHUP_GRACE_MS`, `STALE_RUN_HOURS` |
| `Watchdog`, `Recheck` | `ensureScheduledSyncRan`, and the check at the head of the catch-up job |
| `Take` | pg-boss hands out a job; `opts.runDate ?? istDate()` |
| `GuardFree`, `GuardBusy`, `InsertRun` | the overlap guard: close old rows, look for a running one, defer or insert |
| `SelectRows`, `SyncAnswered`, `SyncUnreachable`, `Finish` | the walk, one case at a time, with the breaker |
| `SyncInterrupted` | the case is written, and then our own database fails: before it is counted, or at the notification, after (`CountSuccess`); either way the catch counts it as failed (`CountFailure`) |
| `ScheduleRetry`, `SendSummary` | `countUnreachable`, `enqueueRetry`, `sendRunSummaries` |
| `RunThrows`, `Crash`, `Expire` | the catch block; a dead process; pg-boss taking a live job for dead |
| `ManualRun`, `CaseAdded`, `UserSync` | users in the middle of it |

Abstractions. Time of a row is counted in run rows: a run's id is its
`started_at`, a case synced now is stamped with the number of rows, so
`synced_at >= cutoff` is `synced >= cutoff`. The statuses completed, partial and
upstream_down of a finished run are one, since no query tells them apart. The
queue is a set: two equal jobs waiting at once count as one (the code uses
singleton keys for the catch-up, and a second equal job adds no new step). One
advocate owns all matters, so there is one summary per slot and date. The order
of the walk is free; the code's (least recently synced first) is one of them.
History, which no code reads: `lost` (a job given up, or a last summary with nobody
to go to), `ctx.seen` (the rows that existed when the guard looked), `ctx.twice` (the
cases counted as synced and as failed), and the counter bounds.

### CaseLink

One handler is one request, job or case of a run; it takes a step per database
statement and per eCourts call. `source` is the CNR whose record the matter
shows, the whole of `mapEcourtsToCase` and the transaction behind it. Other
matters appear only as the unique index that may refuse a CNR. `raced` is
history: set where the CNR and the link state are written out of step, cleared
when they are written together again.

### EfilingFiling

`pc`/`loc` are again the handlers. A request is split where another writer can
come in between: `Begin…` reads the row, the second action writes by id. The
sync is `BeginSync` (reads the portal), `LoadFiling` (`goalFor`, `pathTo`), `Hop`
(one guarded update and its event), `ReadMatter`/`Attach`/`SetCnr`/`Register`
(`register`), `SyncFee`/`Insert`/`Tick` (`syncPayments`),
`FindPaper`/`SavePaper`/`LinkPaper`/`ListPaper` (`syncDocuments`: is the paper with the
matter, fetch and save it, is it on the filing's list, list it). `Register` also is the
end of `attachCnr` and of `closeAlreadyLinked`. `TrackDeferred` is the tracker's
breaker, open before the run comes to this filing. `pathTo` is stated as what it
computes, a shortest path of allowed moves; three moves suffice for any goal of
`goalFor`. Of the checklist, five of the steps stand for all: the three required
ones, one that may be skipped, and the court fee. The document list is the number of
its changes (`docs`), a bundle the list it was made from. One paper stands for the two
the portal hands out (the acknowledgement and the eFiled case, each found by its name):
`papers` are its copies on the matter, more than one if two syncs save it at once,
`listed` those on the filing's list. Nobody deletes it from the matter.
`objector` and `quiet` are history.

### SignaturePromise, Esign, EsignAudit

A handler of `Esign` is one HTTP request; a route that is one statement is one
action (`Open`, `ProvideConsent`, `Cancel`, `Expires`).

| Action | Code |
|---|---|
| `BeginSend` ... `Sent` | `send`: read, mark, mail |
| the code: issue, `OtpExpires`, attempt, verify | `sendOtp`, `verifyOtp`: read, compare, count, in two statements |
| sign, count, store, `Completed`, `Partial` | `sign` and `completeRequest` |
| `Declined`, `Cancel` | `decline`, `cancel` |
| `Fail` | a statement, the mail or the storage fails |

`raced` is history: two signatures overlapped, or somebody signed after everybody
had. A signer's stage is read off `consented`, `proved` and `signedAt`, the
document is there when `docs > 0`: with this mapping `Esign` implements
`SignaturePromise` (`PromiseKept`). In `EsignAudit` a hash is the sequence of what
was hashed, so two hashes are equal exactly when what they cover is; the table is a
set of rows, which the code reads in the order of their stamps and, within a
millisecond, of their ids. Ids are drawn at random and are never drawn twice, clocks
of two processes may disagree. `Tamper` is one row changed, reassigned or deleted.

### Invitations, CoCounsel, Coverage

`Invitations`: `BeginCreate`/`CheckDuplicate`/`InsertInvite` are `create`,
`BeginAccept`/`RecheckSeats`/`Register`/`MarkAccepted` are `accept`, `Cancel`,
`Resend`, `GetsOld` and `Sweep` the rest of a row's life, `CreateUser`,
`SetUserStatus`, `MoveUser` and `UpdateSeats` what an admin does by hand (bounded by
`MaxByHand`); `MoveUser` is the operator's `updateUser` with a firm, which takes any
account, a guest's too, into the firm or out of it. `CoCounsel` adds `HandoverToUser`, `HandoverByLink`/`InsertHandover`,
`BeginCancelHandover`/`CancelHandover`, `BeginAcceptExisting`,
`BeginAcceptByToken`/`RegisterGuest`/`Grant`. `extra`, `takenBy`, `crossed` and `moved`
are history. `Coverage` splits claim, cancel and complete into what they read and what
they write.

### Hearings

Each statement is a step: `CreateHearing`, `RemoveHearing` and `Update` change a row
(`ChangeRow`), `Recompute` is `syncCaseNextHearing`; `Materialise` is the one `insert ...
select` that every list runs; `BeginSync` reads the matter, `Commit` is the
transaction after eCourts has answered (anything). `Tick` is midnight.

A hearing is a row with a day, or it is `Elsewhere`, at another matter of the firm, or
`Deleted`; past days are one, since no statement tells them apart. `update` is two
steps, as in the code: `BeginUpdate` reads which matter the hearing is of, `Update`
writes it by id and recomputes the matter it goes to and the one that was read. If
another update has moved the hearing in between, the matter it is taken from now gets
no recompute: that is `owed`. Which requests recompute other matters is not followed.

`Commit` replaces the rows by the next date and the court's history, en bloc and
unfiltered, as `hearingRowsFromHistory` does, so a row of today may stand beside the
next date. What is assumed of the court is that its history has no day after today:
it lists hearings that were held. `by`, `told`, `gone` and `owed` are history: who
wrote the date last, what the court said, the days whose last hearing was deleted or
moved away, and a recompute that nobody will do, since its process died or it was
never asked for.

### CaseStore, LiveCalls

`Served` and `Missing` are `getCase` by what the store holds, `LiveAnswered`,
`LiveFails` and `LiveThrows` the live call of a request or of a background refresh,
`AlreadyQueued`, `Remember`, `Enqueued`, `EnqueueFails` are `queueFetch`, `Take`,
`JobAnswered`, `JobNotifies`, `JobFails` and `JobGivesUp` the job. Jobs are a set by
the replica that queued them: a second one that waits beside the first is not
counted. One case, one advocate who always asks to be told. A lookup of an old "none"
needs two handlers (itself and the refresh it starts). `adrift` and `excused` are
history. In `LiveCalls` a caller that is woken goes on in a microtask of its own
(`Resume`), which is where another may overtake it (`barged`).

### Billing, AiQuota, EntitlementCache, Members

`Billing`: the provider numbers its events (`Emit`) and delivers any of them again
until it is answered; a delivery is `Deliver`, `ReadSubscription`, `UpdateFirm`,
`LogEvent`. `renews_at` is the number of the event that set it. `AiQuota`: time is
months since the plan began, of which the renewal day is one; a generation is the
check and, minutes later, the row. `EntitlementCache`: what the database says is a
version; `until` remembers when each stopped being true; a fill is `Miss`, `Read`,
`Store`; `Write` and `Invalidate` are two steps, and the NOTIFY reaches those that
listen (`down` do not). `kind` says which of the three caches it is. `Members`: an
update that takes an admin away is `BeginUpdate`, `CountOthers`, `Update`; the purge
is two statements (`PurgeDrafts`, `PurgeUsers`), taking the request back also
(`BeginCancel`, `Undelete`).

### TitleReport

| Action | Code |
|---|---|
| `Fill`, `Clear`, `addManualDefect`, `applyDefectAck`, `Patch` | the advocate's edits; the parts that a transition asks for are one |
| `BeginTransition`, `Transition` | `transition`: the row is read and checked, then updated by id |
| `Enqueue`, `StartAnalysis` | `enqueueDefectsAnalysis`: the count of the day, then the row of the run |
| `Analyse`, `Replace`, `Commit`, `FinishAnalysis` | `runDefectsAnalysis`; `replaceAiDefects` is a transaction, and its delete has seen the rows of before it (`seen`) |
| `StoreFails`, `Crash` | a statement fails and the template is stored; the process dies behind its request |
| `BeginOpinion`, `StartOpinion`, `Mirror` | `synthesiseOpinion`, with an analysis first where there is none |

A defect is the run it comes from, whether it blocks, and whether it was settled
(acknowledged or dismissed, which no check tells apart); an analysis finds one at
most. `update` changes nothing, because its statement cannot be parsed (`Parses`).
`answered`, `byHand`, `overlapped` and `failed` are history.

## 3. Runs

| Run | Properties | What it shows |
|---|---|---|
| `sync_overlap` | `TypeOK`, `OverlapOnlyByRace`, `RetryingIsTrue` | two workers, one case, stale rows, deferrals, a crash or an expired job |
| `sync_users` | `TallyConserved`, `BreakerSound` | one worker, three cases (one more than the breaker's two), every mix of answers, a notification that throws, one user action |
| `sync_live` | `ChainsEnd`, `MissedSlotRecovered` | two slots with nothing to walk, or the last slot with its case, retries and deferrals; a crash; the watchdog |
| `link_all` | `TypeOK`, `ShowsItsRecord`, `LinkedWasFetched`, `EventuallyConnected` | two handlers, two CNRs, a crash; safety and, under fairness, that the matter is connected |
| `filing_race` | `HopsAllowed`, `RegistrationUndoneOnlyByStale`, `BundleFollowsDocuments`, `SyncIdempotent` | two handlers, two requests, one portal move |
| `filing_live` | `TrackedFilingLands`, `RegistrationLands` | one handler, which may die, one request, two portal moves, two CNRs |
| `esign_sign` | `TypeOK`, `AttemptsBounded`, `OneDocument`, `SealIsUnderWay`, `CompletionStands`, `PromiseKept` | two signers and two requests at a time, a failure anywhere; the refinement |
| `office_all` | `SeatsKept`, `HandoverEndsOnce`, `GuestsAreNotMembers`, `ChainTellsTruth`, `PostingStands`, `NextHearingIsRight`, `RemovedStaysRemoved`, `QueuedIsTrue`, `PlacesKept` | invitations with handovers and moved accounts, the coverage board, the audit log, hearings that move between matters, the case store, the limiter |
| `account_all` | `AppliedOnce`, `SettledIsTrue`, `CapKept`, `StaleAtMostTTL`, `NewsIsOnItsWay`, `AdminRemains`, `TakenBackIsWhole`, `DefectsAreOfLastRun` | the plan, the quota, the caches, the members, a title report |
| `seats_v_lastseat` | `KeepsItsSeat` | violated: see below |
| `quota_v_annual` | `MonthlyCapHeld` | violated |
| `title_v_opinion` | `OpinionIsMirrored` | violated |

Many of these properties name the ways in which the code may miss what one would
wish (`unless two accepted at the same moment`). They claim that there is no other
way; each exception is history kept by the model and can be seen happening.

### Bounds, and why they are enough

The code's constants are parameters (7 attempts, threshold 5, 12 deferrals, 6
retries of a link job). Each is only compared with a counter that grows by one,
so 1 or 2 shows the case below, at and above the limit. Two workers are enough
for every property, which speak of pairs at most; two CNRs for every "own or
other"; three cases so that the breaker (2) can trip with one left over, or be
reset by an answer in between. `MaxRuns`, `MaxNow`, `MaxOps`, `MaxPortal`,
`MaxFaults` and `MaxUser` bound how much happens, never what: a fault is a
crash, a thrown error, an expiry or a lost enqueue at any point. `sync_users` walks
its three cases in one run, so the counters of a retry, which walks fewer, are left
to the other two runs' smaller instances and to `TallyCorrect`. In `sync_live`,
`MaxRuns` is what a behaviour of the configuration inserts at most (with one more
nothing changes), so no run waits for ever at `InsertRun`. It starts from two kinds
of states (`FewSlots`): with two slots ahead no matter is live, since whether a slot
is run does not depend on how many cases the run walks; with one matter to retry, the
last slot is due. `link_all` uses one court
tier; a forced tier only changes which answer eCourts gives, and any answer is
possible at one tier too, as a CNR may appear at any time.

In `esign_sign` a code may be tried once, so the limit is met by the first mistake
and overrun by two requests together. In `office_all`, two people and two
invitations compete for up to three seats (the owner's among them), one handover is
taken by two; three events of the log are the fewest in which a middle one can be
deleted; two days are today and a day to come, two hearings one on each, on the same or
one of them away, and two handlers the fewest whose moves race; two handlers in
two replicas let a job run where it was queued or elsewhere, while a lookup is under
way; five calls for two places leave some waiting while one is woken and one overtakes.
In `account_all`, three events of the provider are a start, a change, and one in the
wrong place; a cap of one is met by the first generation; a TTL of two ticks has a
moment before, at and after it; two analyses on a title report are one that replaces
and one that is replaced, with an opinion in place of either (three were checked
alone, with two handlers, and change nothing).

The distinct states: `sync_overlap` 1,064,504, `sync_users` 488,923, `sync_live`
327,504, `filing_race` 2,184,321, `filing_live` 268,659, `office_all` 1,268,228 (of which
the handovers 751,755, the log 318,234, the case store 108,117, the hearings 87,954),
`account_all` 2,170,651.

Symmetry is used in the safety runs only, over handlers, workers and the people or
documents that take the same part; in `account_all` over requests alone, since over
users and replicas it costs more time than it saves. `CHECK_DEADLOCK FALSE` is set
almost everywhere, because a bounded number of boundaries, requests and faults ends,
as the service may with nothing to do, and a deleted filing has no next step.

### Fairness

*EcourtsSync*: weak fairness for the watchdog (a pg-boss cron, every 15 minutes),
for the ageing of a row still running (time), for each worker's next step (a
handler that is not killed goes on: every call has a timeout) and for handing
out a waiting job. None for eCourts, users, or the crons themselves. `Crash`
needs no fairness and is bounded.

*CaseLink*: weak fairness of every handler's work; strong fairness of the sweep
(09:00 and 19:00, every day: a matter that is a candidate again and again is
walked) and of eCourts answering a handler that asks. Nothing is assumed of the
link jobs; they may all be lost.

*EfilingFiling*: weak fairness of every handler's work, strong fairness of the
tracker (it follows every scheduled run) and of the portal sync. The last one is
not a schedule but the dashboard, which syncs while it is open:
`RegistrationLands` speaks of an advocate who comes back. That the tracker runs does
not mean that it reaches a filing: after five filings in a row for which eCourts does
not answer it puts off everything behind them, a filing whose matter has a CNR too,
which needs no answer; and the ones put off are stamped after the five, so that they
come last again (`efiling-tracker.service.ts:296`, `:325-338`). While eCourts is down
such a filing waits. `TrackedFilingLands` therefore assumes, in `Reached`, something
of eCourts and not of the code: that again and again it answers for as long as a run
takes to reach this filing.

### What the code does not keep

Three statements of the source are refuted by a run and reported as findings
(`KeepsItsSeat`, `MonthlyCapHeld`, `OpinionIsMirrored`); two more are contradicted as
plainly, and are stated here only.

The findings:

* `KeepsItsSeat`. Accepting an invitation counts it among the pending ones, so the
  one that holds the last seat is refused, though nothing of what the comment names
  has happened (`invitations.service.ts:445-449`).
* `MonthlyCapHeld`. The cycle is the month before `renews_at`; a plan paid by the
  year has none of its days in it until the last month, and no cap
  (`ai-quota.service.ts:113`).
* `OpinionIsMirrored`. The statement that updates the header of a title report has
  "then ... else ... end" without a "case when" (`title-reports.service.ts:366-368`),
  so the database refuses it: the opinion is given, and does not reach the report.
  No report gets a verdict, and so none passes to review.

The other two:

* **Acknowledged AI defects are deleted.** Of `replaceAiDefects` its comment says
  "manual / acknowledged defects are preserved; the AI-flagged rows are wiped and
  re-inserted" (`title-reports.service.ts:1856-1857`). The statement below it deletes
  every row with `source = 'ai'`, acknowledged, dismissed or open (`:1893-1895`, and
  `:1870` in memory). Acknowledging or dismissing does not change the source. So the
  next analysis takes an advocate's acknowledgement away with the defect, and what the
  advocate had settled may come back as open, or not at all. `Wiped` models what the
  code does. `DefectsAreOfLastRun` neither asks for this nor excludes it: it speaks of
  the defects entered by hand, and of AI defects that nobody has settled.
* **A failing notification reaches the sync.** `caseUpdatedFromEcourts` says of itself
  "a wiring failure logs and never bubbles into the sync batch"
  (`notifications.service.ts:439-440`), but its queries are not guarded (`:461-466`)
  and it is awaited in the `try` of the walk, after `synced += 1`
  (`ecourts-sync-runs.service.ts:240-245`). When one throws, the catch counts the same
  case as failed, and as unreachable for the breaker. `TallyConserved` counts these
  cases by name (`twice`): `synced + notFound + failed + deferred` of a finished run is
  `scanned` plus them.

Others are visible in the models and have no run of their own. Those that have
a positive counterpart: two walks at once (`OverlapOnlyByRace` says when); a bundle
that is not of the document list, by a stale build or, as the comment on `LINK_DOCS`
intends, because a portal's paper was listed beside it (`BundleFollowsDocuments`); a
registration undone by a stale transition (`RegistrationUndoneOnlyByStale`); a guest
whose grant stays active when the operator moves the account into the referring firm
(`GuestsAreNotMembers`, `admin.service.ts:643-674`); a matter that two racing moves of
a hearing leave without a recompute (`NextHearingIsRight`,
`hearings.service.ts:485-515`); a filing the tracker's breaker puts off as long as
eCourts is down (`TrackedFilingLands`). Those that have none:

* a cron job that starts after midnight is recorded as the next day's slot
  (`ecourts-sync-runs.service.ts:160`);
* a retry that meets another run twelve times is dropped, and its slot is not
  looked at again, since "any run row counts" (`:113`, `:180`);
* a deferred first attempt sits on the retry queue and walks every case, not only
  those "the slot hasn't successfully synced yet" (`:21`, `:223`);
* an advocate whose last live matter is closed by a retry keeps the notification
  that the slot is being retried (`:352`);
* a link by CNR while eCourts is down checks that the matter is not connected and
  saves the CNR in another statement (`ecourts-link.service.ts:345`);
* a sync with a forced tier records `not_found`, which is documented as "on both
  tiers" (`case-sync.service.ts:138`, `ecourts-link.service.ts:33`);
* the portal sync replaces a CNR entered between its read of the matter and its
  `attachCnr` (`efiling-portal-sync.service.ts:545`), and enters a GRN twice when
  the advocate enters it in between (`:599`); two syncs at once may save the portal's paper
  twice (`:645`), and each copy then is listed, which `SyncIdempotent` excepts;
* a filing that reaches the portal between the check and the delete is deleted
  (`efiling-filings.service.ts:559-562`);
* choosing one of the tracker's old candidates registers a filing that was
  withdrawn or rejected (`:457-461`);
* a case that is synced and later answered "no such record" or "error" in the same
  window is subtracted twice from the total, so a case never reached disappears from
  the summary (`ecourts-sync-runs.service.ts:385`);
* "We re-read inside the transaction below" (`case-sync.service.ts:109`) is not done:
  a sync that outlives a change of the CNR commits the old one's record
  (`ShowsItsRecord` names it, `EventuallyConnected` says that it is repaired);
* recording a payment and two transitions write back the whole `steps` object they
  read (`efiling-filings.service.ts:299`, `:522`);
* after one objection of the portal, the sync also clears one that the advocate
  recorded by hand (`efiling-portal-sync.service.ts:485-487`).

Part by part, what the smaller models show besides:

* *signatures*: `sign` and `decline` look at the signer, not at the request, so a
  cancelled request can still be signed (`esign.service.ts:357`); when the document
  cannot be stored after the last signature, nothing completes the request (`:400`);
  the hash of an audit row covers neither the signer, nor the address, nor the
  browser; the newest row deleted, and any row deleted of a log that two records had
  forked, go unseen;
* *seats and handovers*: a pending handover takes a seat; the acceptance of an
  invitation does not look at its kind; `cancelHandover` leaves the invitation open;
  a process that dies between the guest's account and the grant leaves a link that
  can be used no more;
* *hearings*: when the announced date has passed, a hearing entered earlier for a
  later day is announced and reminded of by nothing, although the recompute "closes
  the same gap for manually-entered hearings" (`hearings.service.ts:93-103`): it runs
  on changes only, which is why `NextHearingIsRight` speaks of dates to come; a hearing
  comes back if a list is read between its deletion and the recompute, or the process
  dies there, or after two racing moves (`:122`); a typed correction of the date leaves the row made of the old
  one, whose date the next change of a hearing brings back; two `insert ... select` at
  the same moment may both make the row (there is no unique index; the model takes
  each statement as one step);
* *case store*: a replica that could not queue the job remembers it as queued and says
  so for two hours (`ecourts-case-store.service.ts:259`); so does the one that queued
  it, when another has done it; when the retries run out, or the notification cannot
  be written, nobody is told;
* *limiter*: callers that overtake a woken one exceed `MAX_CONCURRENT`; two callers
  that sleep on the same `lastStart` start together, and those already waiting go out
  during a pause (read in the code; `LiveCalls` has no clock);
* *billing*: no dates are compared, so a late event puts back the status before; a
  renewal of the subscription that was replaced takes the firm back to it;
* *quota*: a generation on the day of a renewal that is not recorded yet is counted in
  the old cycle;
* *caches*: a feature set read before a change and stored after its invalidation stays
  for the TTL; the plan's cache is dropped in one replica only;
* *members*: asking to be erased does not look for another admin; two demotions checked
  together both pass; the platform's own check puts `for update` on an aggregate, which
  Postgres refuses (`admin.service.ts:77-85`), so in the model no such change of an
  admin goes through; reactivating an account leaves the purge date of its erasure;
* *title reports*: two analyses that overlap leave the defects of both;
  an opinion without an analysis starts one beyond the day's cap; a process that dies
  leaves its run "running"; a transition checks the status it has read and updates by id.

## 4. Proofs

`EcourtsSyncProofs` proves, for any sets of workers and cases (cases finite) and
any values of the bounds that satisfy `ParamAssumption`:

* `TypeCorrect`: `Spec => []TypeOK`;
* `GuardCorrect`: `Spec => []GuardInv`;
* `OverlapBounded`: `Spec => []OverlapOnlyByRace`;
* `RetriesAreTold`: `Spec => []RetryingIsTrue`.

`TypeOK` is not inductive: the breaker's streak stays within its type only
because a run stops when it trips, and a row index stays within the table only
because a worker past `InsertRun` holds a row. `GuardInv` says those things. It
also says why the guard works as far as it does: a worker remembers (`seen`) how
many rows there were when it looked, none of those is `running` any more, and
nothing makes a row running again; its own row is newer than all of them. So if
an earlier run still walks, its row is running or old; if it is not old, it is
not among the rows the later worker looked at: it was inserted after that look,
which is the race. The invariant is `TypeOK /\ GuardInv`; `Inductive` has one
step per action, each worker's part of `GuardInv` is carried over by lemmas for
a worker that does not move and rows that do not change, and the temporal
theorems combine them.

`RetryingIsTrue` has an invariant of its own, `RetryInv`: as long as a summary says
that a slot is being retried and the slot is not `lost`, a retry of it is queued or in
a worker's hands; a retry carries its date and is never rechecked; and a worker that
is about to announce one has queued it before. A retry leaves the queue only into a
worker's hands, and those only when a summary of the slot is sent, the next retry is
queued, the job is deferred or handed out again, or the slot counts as lost.

`EcourtsSyncCounting` proves `TallyCorrect` (`Spec => []TallyConserved`) and
`BreakerCorrect` (`Spec => []BreakerSound`). The first says that `scanned + twice` is
the sum of the counters and of what is left to walk: no case is lost, and one is counted
twice only where its notification threw. Neither property is inductive: that a
case adds one to one counter, or two, says nothing about the streak, and a run that
trips with `failed >= BREAKER_THRESHOLD` does so only because the streak never
exceeds the failures. `CountInv` adds `streak <= failed` and zero counters before
the walk; it is inductive relative to the `IInv` of `EcourtsSyncProofs`, which gives
that the streak is below the threshold while the walk goes on. Taking a case from
`todo` uses the library's facts on `Cardinality`.

`CaseLinkProofs` proves, for any sets of handlers, CNRs and tiers that satisfy
`LinkAssumption`:

* `TypeCorrect`: `Spec => []TypeOK`;
* `LinkedIsFetched`: `Spec => []LinkedWasFetched`;
* `RecordShown`: `Spec => []ShowsItsRecord`.

The invariant adds one fact to these three, `Asked`: a handler that asks eCourts or
commits has read a usable CNR. Without it a commit could mark a matter linked with no
record. The argument for `ShowsItsRecord` is that only `SetCnr` moves the CNR away
from the record shown, and it leaves its handler between the two writes (`Unreset`)
or sets `raced`; that this handler leaves `Unreset` only by a reset, which ends the
connection or sets `raced`, or by a crash, which sets `raced`; and that a commit,
which alone connects, compares what it read. `HandlerMoves` and `QuietStep` carry
the other handlers, so the steps are about one handler each.

`EsignProofs` proves, for any signers and any number of requests at a time, and any
values of the bounds that satisfy `EsignAssumption`:

* `TypeCorrect`, `AttemptsLimited`, `DocumentMadeOnce`, `SealFollows`: `TypeOK`,
  `AttemptsBounded`, `OneDocument` and `SealIsUnderWay` as invariants;
* `CompletedStays`: `Spec => CompletionStands`;
* `Implements`: `Spec => PromiseKept`, the refinement;
* `EveryoneSigned`: a document that was made, and a request that is shown as completed,
  has every signer's signature, consent and proved mailbox, whatever overlapped or
  failed. The promise speaks of the document only, so this says more than `Implements`
  about the status; it is part of `Order` and no run spends a property on it.

The invariant is `Typed /\ Order /\ Alone`. `Typed` adds to the types whom a busy
handler is about and that the codes are numbered. `Order` is what the refinement needs:
nobody has proved without consent or signed without proof, a handler that writes either
has seen what comes before, and a document was made only when all had signed. `Alone`
says what holds as long as no two signatures have overlapped: one handler at most is
past its signature. Each of the three has one lemma with a step per action; the
attempts are counted with the library's facts on `Cardinality`.

`EfilingProofs` proves, for any number of handlers, any CNRs and any bounds that satisfy
`FilingAssumption`:

* `FilingTypesKept`: `Spec => []TypeOK`, which no run spends a property on;
* `HopsStayAllowed`, `RegistrationIsNotUndone`, `BundlesOfDocuments`: `Spec =>` the
  action properties `HopsAllowed`, `RegistrationUndoneOnlyByStale`,
  `BundleFollowsDocuments`;
* `SyncsSettle`: `Spec => SyncIdempotent`.

`FilingInv` says of each handler that what it has read allows what it is about to do:
the moves on its path follow one another from the status it believes in (`Walks`), a
transition past its checks had read a status that allows it (`Asked`), and a sync about
to list a paper believes in a status of `LINK_DOCS` (`Lists`). No other
handler changes that, so every step is one handler's move to a sound place
(`HandlerStep`). A hop happens only where the filing is what the walk believes, hence
allowed; a registered filing has nowhere to go, so neither a hop nor a transition that
read it as registered leaves it. `PathToIsPath` shows that a shortest path exists when
any does, by its three lengths. `BundlesOfDocuments` needs `Lists` alone.
`SyncsSettle` rests on `QuietInv`. While `quiet` is "syncing" one sync is under way and
no other (`OneSync`), and `SyncInv` follows it: whatever goal it set out for stays the
goal when it arrives (`GoalStands`: `goalFor` is idempotent, whether or not the
objection is the portal's), so at the fee step the filing is at rest (`Rests`), after it
the fee is on record too (`Paid`), and after the last the paper is with the matter and,
if it is the only copy and belongs on the list, on it (`Filed`). Once it is "settled",
every sync that starts passes through without a change, however many there are, until a handler of another kind, the
portal or a crash takes the word back.

`OfficeProofs` and `HandoverProofs` are about the instances of `MCOffice`, under
`OfficeAssumption` (finite sets of requests, users, invitations and calls; the bounds,
those on events and time among them, are numbers, two of them not zero; `Nobody` is
nobody). First each step of the whole
is shown to be a step of one component or to leave it alone, then the component's own
invariant is inductive.

* `PostingKept` (`PostingStands`): an open posting has no claimer (`Unclaimed`) and, as
  long as no two requests to end it have overlapped, no request is about to end what
  has ended (`OneEnding`).
* `LimiterKeepsPlaces` (`PlacesKept`): the counter is the number of callers that run,
  the list holds exactly those that sleep, and while anybody sleeps the places are
  taken or promised. Callers are counted with the library's facts on `Cardinality`.
* `QueuedPromiseHolds` (`QueuedIsTrue`): what a replica remembers to have queued has a
  job behind it (`Remembered`), unless it is marked as adrift.
* `MatterAnnouncesRight` (`NextHearingIsRight`) and `RemovedIsRemoved`
  (`RemovedStaysRemoved`), for any number of days and hearings: a sync nobody has
  overtaken still holds the date that is announced (`SyncIsFresh`), a day whose hearing
  is gone has none (`GoneIsEmpty`), and without a recompute pending or owed the
  announced date is not one of those (`NotGone`). Every change of a row leaves a
  recompute of the matter, but for the two ways to owe one. That the earliest of the days exists is taken from
  well-founded induction (`LeastExists`).
* `SeatsAreKept` (`SeatsKept`): counting seats in the state is not enough, since an
  acceptance checks them before it adds a user. The invariant counts these claims too
  (`Claims`, `Seated`), and that each of them is backed by a pending invitation.
* `HandoversEndOnce` (`HandoverEndsOnce`): a handover that was taken is closed for good:
  its invitation is used, and unless it was crossed nobody is at work on it
  (`TakenOnce`, from `Made` and `Linked`).
* `GuestsStayOutside` (`GuestsAreNotMembers`): whoever has access, or is about to get
  it, has an account elsewhere (`Apart`), unless the operator has moved the account
  (`moved`).
* `LogTellsTruth` (`ChainTellsTruth`): `Chain` says that as long as no two records
  overlapped the log as written verifies, and that an event about to be inserted is
  its next link. `Touched` says what the table may have become: the log as written, or
  that log without one row, or with one row changed that kept its place and its hashes.
  A changed content then no longer gives the stored hash (`EditShows`). A row deleted
  below another leaves one that hangs on a hash longer by one than that of its new
  predecessor (`GapShows`), so it shows unless it was the newest.
* `PrintedHashSeals` (`HashSeals`, which no run checks: it quantifies over every table)
  says what the log is worth beside a hash nobody can change, such as the newest one
  that `complete` prints on the signed document. Whatever the table is turned into, if
  it verifies and has a row of a written hash, it has the same events up to that row,
  each once. That closes the gap `ChainTellsTruth` leaves, the newest row deleted, for
  whoever compares with the printed hash. Two rows of one hash hang on rows of one hash
  (`HangsOn`), so a shortest pair of rows that disagree would have a shorter one below
  it (`SameLog`, `OwnHashes`). Both rest on the model's hash: equal only for equal
  contents.

`AccountProofs` is about the instances of `MCAccount`, under `AccountAssumption` (a
finite, non-empty set of requests; the cap, the TTL and the bounds are numbers, zero
included; a term is at least a month; `Nobody` is nobody).

* `AnAdminRemains` (`AdminRemains`), `TakenBackInTimeIsWhole` (`TakenBackIsWhole`): until
  something unguarded happens, one request at most is about to take an admin away, and
  another admin is there; what is lost belongs to accounts that are due or came late.
* `CapIsKept` (`CapKept`): rows and generations under way together stay below the cap
  plus the number of requests, in every month whose own rows were counted.
* `StaleForTTLOnly` (`StaleAtMostTTL`), `NewsArrives` (`NewsIsOnItsWay`): what a request
  has read was current when it began to read, so what it stores expires in time; and an
  old entry or reading has its invalidation still to come, unless it is excused.
* `EventsTakeEffectOnce` (`AppliedOnce`), `FirmEndsRight` (`SettledIsTrue`): an event in a
  handler's hands is not logged and in nobody else's, unless it is excused; while the
  events of a subscription are applied in order, the firm's subscription is the newest
  activated one and its status the one its last event ends in.
* `ReportKeepsItsDefects` (`DefectsAreOfLastRun`): until analyses overlap or one fails,
  the open defects that are not by hand are of one analysis, and the request in the
  middle of the next has not written yet.

The inductive invariants were checked by TLC on the runs' instances before they were
proved. `AiQuota`'s set of dates was restated for these proofs (as the sums of a month
and a term), without a change of what it contains.

Every safety invariant and every action property of the passing runs is stated by a
theorem. Only model-checked are the five liveness properties (`ChainsEnd`,
`MissedSlotRecovered`, `EventuallyConnected`, `TrackedFilingLands`,
`RegistrationLands`): fairness and `ENABLED` are out of the prover's reach.

## 5. Plan

Done, in the order of what matters to an advocate who relies on the service: the
scheduled sync, the link of a matter, e-filing; signatures with their promise; seats,
handovers, coverage; the plan, its quota, its caches and its members; hearings, the
case store and its limiter; title reports.

Left, in this order:

1. an abstract slot (due, running, done, given up) that `EcourtsSync` refines, and a
   register with a bounded lag that `EntitlementCache` refines;
2. the run bookkeeping of the tracker, started by the scheduled sync.
