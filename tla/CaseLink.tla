------------------------------ MODULE CaseLink ------------------------------
(***************************************************************************)
(* The connection of one matter to eCourts: its CNR, its link status, and  *)
(* everything that changes them while other handlers are under way         *)
(* (ecourts-link.service.ts, syncCaseFromEcourts of case-sync.service.ts,  *)
(* the matter routes of cases.routes.ts, the per-case part of a scheduled  *)
(* run, the eCourts webhook, and the eFiling tracker's attachCnr).         *)
(*                                                                         *)
(* A handler is a request, a job or one case of a run.  It takes one step  *)
(* per database statement or eCourts call, so handlers interleave where    *)
(* the code awaits.  Other matters of the firm appear only through the     *)
(* unique index on (firm, CNR), which may refuse a new CNR.                *)
(***************************************************************************)
EXTENDS Naturals, FiniteSets

CONSTANTS
    Cnrs,        \* well-formed case record numbers
    NoCnr,       \* a blank or TEMP-... placeholder
    Tiers,       \* the two eCourts back ends, District and High Court
    Unregistered,\* of a CNR eCourts has no case for
    AnyTier,     \* a lookup that tries both tiers
    Handlers,    \* handlers that can run at the same time
    RETRY_LIMIT, \* pg-boss retries of a link job (6)
    MaxOps,      \* bound: user requests
    MaxFaults    \* bound: crashes and failing enqueues

ASSUME LinkAssumption ==
    /\ NoCnr \notin Cnrs
    /\ AnyTier \notin Tiers /\ Unregistered \notin Tiers
    /\ RETRY_LIMIT \in Nat /\ MaxOps \in Nat /\ MaxFaults \in Nat

VARIABLES
    registry,  \* eCourts: the tier each CNR is registered on, if it is
    cnr,       \* cases.cnr
    link,      \* cases.ecourts_link_status
    source,    \* the CNR whose record the matter's details and hearings show
    open,      \* cases.status is Active or Pending
    deleted,   \* cases.deleted_at is set
    queue,     \* waiting ecourts.case.link jobs, each the retries it has used
    pc,        \* where each handler stands
    loc,       \* each handler's local variables
    raced,     \* history: the CNR and the link state were written out of step
    ops, faults

matter == <<cnr, link, source, open, deleted>>
vars == <<registry, cnr, link, source, open, deleted, queue, pc, loc, raced, ops, faults>>

-----------------------------------------------------------------------------
LinkStatus == {"unlinked", "pending", "linked", "not_found", "error"}

Ops == {"sync", "webhook", "sweep", "job", "link", "number", "edit", "attach"}
\* want: the CNR to save; tier: the tier the caller forced; read: the CNR the
\* handler has read; verified: eCourts has confirmed want; answer: what the
\* sync came to; used: the retries this link job has used.
Loc == [op : Ops, want : Cnrs \cup {NoCnr}, tier : Tiers \cup {AnyTier},
        read : Cnrs \cup {NoCnr}, verified : BOOLEAN,
        answer : {"found", "not_found", "case", "upstream"}, used : 0 .. RETRY_LIMIT]
NoLoc == [op |-> "sync", want |-> NoCnr, tier |-> AnyTier, read |-> NoCnr,
          verified |-> FALSE, answer |-> "found", used |-> 0]

Pc == {"idle", "verify", "check", "set", "reset", "requeue", "queue", "enqueue", "peek",
       "read", "ask", "commit", "fail"}

Usable(c) == c \in Cnrs

\* lookupByCnr on the tiers the caller allows finds the case.
OnRecord(c, tier) == registry[c] \in IF tier = AnyTier THEN Tiers ELSE {tier}

-----------------------------------------------------------------------------
(* A matter connected some time ago, or one just created and about to be    *)
(* queued for its first fetch (POST /cases, import, portal sync).           *)

Init ==
    /\ registry \in [Cnrs -> Tiers \cup {Unregistered}]
    /\ \/ /\ cnr \in {c \in Cnrs : registry[c] # Unregistered}
          /\ link = "linked" /\ source = cnr
          /\ pc = [h \in Handlers |-> "idle"]
       \/ /\ cnr \in Cnrs \cup {NoCnr}
          /\ link = "unlinked" /\ source = NoCnr
          /\ \E h \in Handlers : pc = [[g \in Handlers |-> "idle"] EXCEPT ![h] = "queue"]
    /\ loc = [h \in Handlers |-> IF pc[h] = "queue" THEN [NoLoc EXCEPT !.op = "attach"] ELSE NoLoc]
    /\ open = TRUE /\ deleted = FALSE
    /\ queue = {} /\ raced = FALSE /\ ops = 0 /\ faults = 0

Goto(h, l) == pc' = [pc EXCEPT ![h] = l]
Return(h)  == Goto(h, "idle") /\ loc' = [loc EXCEPT ![h] = NoLoc]

-----------------------------------------------------------------------------
(* eCourts and the users *)

\* A freshly registered case appears on eCourts.
Register(c) ==
    /\ registry[c] = Unregistered
    /\ \E t \in Tiers : registry' = [registry EXCEPT ![c] = t]
    /\ UNCHANGED <<matter, queue, pc, loc, raced, ops, faults>>

\* Move the matter to the trash, or back.
Trash ==
    /\ ops < MaxOps /\ ops' = ops + 1
    /\ deleted' = ~deleted
    /\ UNCHANGED <<registry, cnr, link, source, open, queue, pc, loc, raced, faults>>

\* A request of a user (or of another service) starts with these arguments.
Begin(h, l, arguments) ==
    /\ pc[h] = "idle" /\ ops < MaxOps
    /\ ops' = ops + 1
    /\ loc' = [loc EXCEPT ![h] = arguments]
    /\ Goto(h, l)
    /\ UNCHANGED <<registry, matter, queue, raced, faults>>

\* POST /:id/sync-from-ecourts; the body may force a tier.
BeginSync(h, t) == Begin(h, "read", [NoLoc EXCEPT !.op = "sync", !.tier = t])

\* The eCourts webhook finds the matter by its CNR.
BeginWebhook(h) == Usable(cnr) /\ Begin(h, "read", [NoLoc EXCEPT !.op = "webhook"])

\* POST /:id/ecourts/link with a CNR.
BeginLink(h, c, t) ==
    Begin(h, "verify", [NoLoc EXCEPT !.op = "link", !.want = c, !.tier = t])

\* ... or with a case number, which eCourts resolves to a single CNR; when it
\* is unreachable or the answer is not single, nothing happens.
BeginNumber(h, c) ==
    /\ registry[c] # Unregistered
    /\ Begin(h, "set", [NoLoc EXCEPT !.op = "number", !.want = c, !.tier = registry[c],
                                     !.verified = TRUE])

\* PATCH /:id with a CNR or a placeholder: the old CNR is read first (of a
\* deleted matter there is none, and no change to it is seen).
BeginEdit(h, c) ==
    Begin(h, "set", [NoLoc EXCEPT !.op = "edit", !.want = c, !.read = IF deleted THEN c ELSE cnr])

\* attachCnr: the advocate or the tracker registers a filing with its CNR.
BeginAttach(h, c) == Begin(h, "set", [NoLoc EXCEPT !.op = "attach", !.want = c])

\* mutant: a CNR that was not found is not asked about again
Candidate_Pending == open /\ ~deleted /\ Usable(cnr) /\ link \in {"linked", "pending"}
\* The cases a scheduled run, or a firm's "Sync from eCourts", walks.
Candidate == open /\ ~deleted /\ Usable(cnr)

BeginSweep(h) ==
    /\ pc[h] = "idle" /\ Candidate
    /\ loc' = [loc EXCEPT ![h] = [NoLoc EXCEPT !.op = "sweep"]]
    /\ Goto(h, "read")
    /\ UNCHANGED <<registry, matter, queue, raced, ops, faults>>

\* pg-boss hands out an ecourts.case.link job.
TakeJob(h, used) ==
    /\ pc[h] = "idle" /\ used \in queue
    /\ queue' = queue \ {used}
    /\ loc' = [loc EXCEPT ![h] = [NoLoc EXCEPT !.op = "job", !.used = used]]
    /\ Goto(h, "peek")
    /\ UNCHANGED <<registry, matter, raced, ops, faults>>

-----------------------------------------------------------------------------
(* Saving a CNR *)

\* linkByCnr: verify before saving.
Verify(h) ==
    /\ pc[h] = "verify"
    /\ \/ /\ OnRecord(loc[h].want, loc[h].tier)
          /\ loc' = [loc EXCEPT ![h].verified = TRUE]
          /\ Goto(h, "set")
       \/ ~OnRecord(loc[h].want, loc[h].tier) /\ Return(h)
       \/ Goto(h, "check") /\ UNCHANGED loc                   \* unreachable
    /\ UNCHANGED <<registry, matter, queue, raced, ops, faults>>

\* eCourts is down: a connected matter keeps its CNR.
Connected(c) == ~deleted /\ link = "linked" /\ Usable(cnr) /\ cnr # c

Check(h) ==
    /\ pc[h] = "check"
    /\ IF Connected(loc[h].want) THEN Return(h) ELSE Goto(h, "set") /\ UNCHANGED loc
    /\ UNCHANGED <<registry, matter, queue, raced, ops, faults>>

\* PATCH compares the CNR it read before the update with the one it wrote.
SeesChange_Never(h) == FALSE  \* mutant: an edited CNR does not reset the link
SeesChange(h) == loc[h].read # loc[h].want

\* The update of cases.cnr (setCnr, or casesService.update).  It is refused when
\* another matter has the CNR or this one is deleted.
SetCnr(h) ==
    /\ pc[h] = "set"
    /\ \/ Return(h) /\ UNCHANGED <<cnr, raced>>
       \/ /\ ~deleted
          /\ cnr' = loc[h].want
          /\ IF loc[h].op # "edit" THEN Goto(h, "reset") /\ UNCHANGED <<loc, raced>>
             ELSE IF SeesChange(h) THEN Goto(h, "queue") /\ UNCHANGED <<loc, raced>>
             ELSE Return(h) /\ raced' = (raced \/ cnr # loc[h].read)
    /\ UNCHANGED <<registry, link, source, open, deleted, queue, ops, faults>>

\* resetLinkState, which a deleted matter escapes.
FreshStatus == IF Usable(cnr) THEN "pending" ELSE "unlinked"

ResetLinkState ==
    IF deleted THEN raced' = TRUE /\ UNCHANGED link
    ELSE link' = FreshStatus /\ raced' = FALSE

\* setCnr's reset; then the sync of linkNowOrQueue, or attachCnr's queueLink.
Reset(h) ==
    /\ pc[h] = "reset"
    /\ ResetLinkState
    /\ Goto(h, IF loc[h].op = "attach" THEN "queue" ELSE "read")
    /\ UNCHANGED <<registry, cnr, source, open, deleted, queue, loc, ops, faults>>

\* queueLink: reset, then queue a job if the matter is pending.  linkNowOrQueue
\* ("requeue") still has the failure to record.
QueueLink(h) ==
    /\ pc[h] \in {"queue", "requeue"}
    /\ ResetLinkState
    /\ IF ~deleted /\ link' = "pending"
         THEN Goto(h, "enqueue") /\ UNCHANGED loc
         ELSE IF pc[h] = "requeue" THEN Goto(h, "fail") /\ UNCHANGED loc ELSE Return(h)
    /\ UNCHANGED <<registry, cnr, source, open, deleted, queue, ops, faults>>

\* An enqueue that fails is only logged.
Enqueue(h) ==
    /\ pc[h] = "enqueue"
    /\ \/ queue' = queue \cup {0} /\ UNCHANGED faults
       \/ faults < MaxFaults /\ faults' = faults + 1 /\ UNCHANGED queue
    /\ IF loc[h].op \in {"link", "number"} THEN Goto(h, "fail") /\ UNCHANGED loc ELSE Return(h)
    /\ UNCHANGED <<registry, matter, raced, ops>>

-----------------------------------------------------------------------------
(* Fetching the case *)

\* runLinkJob: deleted, re-pointed to a placeholder or linked meanwhile.
Peek(h) ==
    /\ pc[h] = "peek"
    /\ IF deleted \/ ~Usable(cnr) \/ link = "linked" THEN Return(h)
       ELSE Goto(h, "read") /\ UNCHANGED loc
    /\ UNCHANGED <<registry, matter, queue, raced, ops, faults>>

\* syncCaseFromEcourts reads the row; without a usable CNR it throws.
ReadCase(h) ==
    /\ pc[h] = "read"
    /\ loc' = [loc EXCEPT ![h].read = cnr, ![h].answer = IF Usable(cnr) THEN @ ELSE "case"]
    /\ Goto(h, IF Usable(cnr) THEN "ask" ELSE "fail")
    /\ UNCHANGED <<registry, matter, queue, raced, ops, faults>>

\* eCourts answers on the allowed tiers.
Answer(h) ==
    /\ pc[h] = "ask"
    /\ LET found == OnRecord(loc[h].read, loc[h].tier)
       IN  /\ loc' = [loc EXCEPT ![h].answer = IF found THEN "found" ELSE "not_found"]
           /\ Goto(h, IF found THEN "commit" ELSE "fail")
    /\ UNCHANGED <<registry, matter, queue, raced, ops, faults>>

\* eCourts is unreachable.  linkNowOrQueue queues a job before it records why.
Unreachable(h) ==
    /\ pc[h] = "ask"
    /\ loc' = [loc EXCEPT ![h].answer = "upstream"]
    /\ Goto(h, IF loc[h].op \in {"link", "number"} THEN "requeue" ELSE "fail")
    /\ UNCHANGED <<registry, matter, queue, raced, ops, faults>>

\* The transaction: details, hearings, acts and parties are replaced by the
\* fetched record, whatever the CNR has become; a disposed case is closed and
\* any other one is open.
Commit(h) ==
    /\ pc[h] = "commit"
    /\ link' = "linked" /\ source' = loc[h].read
    /\ open' \in BOOLEAN
    /\ raced' = (loc[h].read # cnr)
    /\ Return(h)
    /\ UNCHANGED <<registry, cnr, deleted, queue, ops, faults>>

\* recordSyncFailure's new status, by the kind of failure.
AfterFailure_Links(answer) ==  \* mutant: an unreachable eCourts leaves no status but linked
    IF answer = "not_found" THEN "not_found" ELSE IF answer = "case" THEN "error" ELSE "linked"
AfterFailure(answer) ==
    CASE answer = "not_found" -> "not_found"
      [] answer = "case"      -> "error"
      [] OTHER                -> IF link = "linked" THEN "linked" ELSE "pending"

\* pg-boss runs a link job again only when its handler threw.
Retried_Unlimited(h) ==  \* mutant: and never gives up
    IF loc[h].op = "job" THEN queue \cup {loc[h].used + 1} ELSE queue
Retried(h) ==
    IF loc[h].op = "job" /\ loc[h].used < RETRY_LIMIT THEN queue \cup {loc[h].used + 1} ELSE queue

\* recordSyncFailure; the webhook's dispatcher only logs.
Fail(h) ==
    /\ pc[h] = "fail"
    /\ IF loc[h].op = "webhook" THEN UNCHANGED link ELSE link' = AfterFailure(loc[h].answer)
    /\ queue' = IF loc[h].answer = "upstream" THEN Retried(h) ELSE queue
    /\ Return(h)
    /\ UNCHANGED <<registry, cnr, source, open, deleted, raced, ops, faults>>

\* A handler has saved a CNR and not yet reset the link state.
Unreset(h) == pc[h] = "reset" \/ (pc[h] = "queue" /\ loc[h].op = "edit")

\* The process dies, or the database fails under the handler.
Crash(h) ==
    /\ pc[h] # "idle" /\ faults < MaxFaults
    /\ faults' = faults + 1
    /\ queue' = Retried(h)
    /\ raced' = (raced \/ Unreset(h))
    /\ Return(h)
    /\ UNCHANGED <<registry, matter, ops>>

-----------------------------------------------------------------------------
Request(h) ==
    \/ \E t \in Tiers \cup {AnyTier} : BeginSync(h, t) \/ \E c \in Cnrs : BeginLink(h, c, t)
    \/ \E c \in Cnrs : BeginNumber(h, c) \/ BeginAttach(h, c)
    \/ \E c \in Cnrs \cup {NoCnr} : BeginEdit(h, c)
    \/ BeginWebhook(h)

Work(h) ==
    \/ Verify(h) \/ Check(h) \/ SetCnr(h) \/ Reset(h) \/ QueueLink(h) \/ Enqueue(h)
    \/ Peek(h) \/ ReadCase(h) \/ Answer(h) \/ Unreachable(h) \/ Commit(h) \/ Fail(h)

Next ==
    \/ Trash \/ \E c \in Cnrs : Register(c)
    \/ \E h \in Handlers :
          \/ Request(h) \/ BeginSweep(h) \/ (\E used \in queue : TakeJob(h, used))
          \/ Work(h) \/ Crash(h)

Spec == Init /\ [][Next]_vars

\* Handlers run on, the 09:00 and 19:00 runs come round again and again, and an
\* eCourts that is asked for ever answers.  Nothing is assumed of pg-boss: the
\* link jobs may never run.
FairSpec ==
    /\ Spec
    /\ \A h \in Handlers : WF_vars(Work(h)) /\ SF_vars(Answer(h))
    /\ SF_vars(\E h \in Handlers : BeginSweep(h))

-----------------------------------------------------------------------------
(* Properties *)

\* Every variable has its type.
TypeOK ==
    /\ registry \in [Cnrs -> Tiers \cup {Unregistered}]
    /\ cnr \in Cnrs \cup {NoCnr} /\ source \in Cnrs \cup {NoCnr}
    /\ link \in LinkStatus /\ open \in BOOLEAN /\ deleted \in BOOLEAN
    /\ queue \subseteq 0 .. RETRY_LIMIT
    /\ pc \in [Handlers -> Pc] /\ loc \in [Handlers -> Loc]
    /\ raced \in BOOLEAN /\ ops \in 0 .. MaxOps /\ faults \in 0 .. MaxFaults

\* A matter shown as connected shows the record of its own CNR, unless a
\* handler is between the update of the CNR and the reset of the link state,
\* or the two were written out of step: a sync that committed what it had
\* fetched for an older CNR, an edit that took a concurrent change for its
\* own, a reset that found the matter deleted, or a crash before the reset.
ShowsItsRecord ==
    link = "linked" => source = cnr \/ raced \/ \E h \in Handlers : Unreset(h)

\* Connected means fetched: whatever fails, in whatever order, no matter gets
\* the status 'linked' that has never been read from eCourts.
LinkedWasFetched == link = "linked" => source # NoCnr

\* Once eCourts knows the matter's CNR, the matter ends up connected to it and
\* showing its record, whatever was lost, retried or raced before; unless it
\* was closed, deleted or left without a CNR.
OutOfReach == ~open \/ deleted \/ ~Usable(cnr) \/ registry[cnr] = Unregistered
EventuallyConnected == <>[](OutOfReach \/ (link = "linked" /\ source = cnr))

\* "We re-read inside the transaction below" (syncCaseFromEcourts): a sync
\* commits what it fetched only if the matter still has that CNR.  The
\* transaction reads nothing again, so it fails.
CommitsOwnRecord == [][\A h \in Handlers : Commit(h) => loc[h].read = cnr]_vars

=============================================================================
