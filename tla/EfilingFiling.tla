---------------------------- MODULE EfilingFiling ----------------------------
(***************************************************************************)
(* One e-filing of a new case, from draft to registration, and everyone    *)
(* who writes it at the same time: the advocate's requests                 *)
(* (efiling-filings.service.ts), the bundle builder                        *)
(* (efiling-bundle.service.ts), the sync with the advocate's account on    *)
(* the portal (efiling-portal-sync.service.ts) and the tracker that looks  *)
(* for the registered case on eCourts (efiling-tracker.service.ts).        *)
(*                                                                         *)
(* A handler is a request, or a run's work on this filing; it takes one    *)
(* step per statement that the others can tell apart.                      *)
(***************************************************************************)
EXTENDS Naturals, Sequences, FiniteSets

CONSTANTS
    Cnrs,       \* well-formed case record numbers
    NoCnr,      \* none, or a TEMP-... placeholder
    CourtCnr,   \* the CNR the court gives this case
    Handlers,   \* handlers that can run at the same time
    MaxOps,     \* bound: requests of the advocate
    MaxPortal,  \* bound: moves on the portal
    MaxFaults   \* bound: handlers that die

ASSUME FilingAssumption ==
    /\ NoCnr \notin Cnrs /\ CourtCnr \in Cnrs
    /\ MaxOps \in Nat /\ MaxPortal \in Nat /\ MaxFaults \in Nat

VARIABLES
    exists,    \* the filing's row is there
    status,    \* efiling_filings.status
    steps,     \* efiling_filings.steps, the advocate's checklist
    numbered,  \* efiling_filings.efiling_no is set
    fcnr,      \* efiling_filings.cnr
    tracking,  \* efiling_filings.tracking_status
    cands,     \* efiling_filings.tracking_candidates
    mcnr,      \* cases.cnr of the filing's matter
    payments,  \* rows of efiling_payments that hold the court fee's GRN
    docs,      \* the document list, by the number of times it was changed
    papers,    \* copies on the matter of the paper the portal hands out (the
               \* Acknowledgement; the eFiled case PDF is treated alike)
    listed,    \* those of the copies that are on the filing's document list
    bundle,    \* the document list the bundle was made from; 0: no bundle
    portal,    \* the case on filing.ecourts.gov.in
    portalObjected, \* an event says that the portal sync recorded an objection
    objector,  \* history: who recorded the objection the filing holds
    quiet,     \* history: a sync is alone with the filing, or has finished and
               \* nothing but further syncs has touched it since
    pc, loc,   \* where each handler stands, and its local variables
    ops, moves, faults

filing == <<exists, status, steps, numbered, fcnr, tracking, cands>>
others == <<mcnr, payments, docs, papers, listed, bundle>>
events == <<portalObjected, objector, quiet>>
bounds == <<ops, moves, faults>>
vars == <<filing, others, portal, events, pc, loc, bounds>>

-----------------------------------------------------------------------------
(* The status machine and the portal's steps *)

Status == {"draft", "ready", "efiled", "submitted", "objected", "refiled", "accepted",
           "registered", "rejected", "withdrawn"}

\* mutant: a registered filing can be withdrawn
TRANSITIONS_Reopened == [s \in Status |->
    CASE s = "draft"     -> {"ready", "efiled", "withdrawn"}
      [] s = "ready"     -> {"draft", "efiled", "withdrawn"}
      [] s = "efiled"    -> {"submitted", "withdrawn"}
      [] s \in {"submitted", "refiled"} ->
            {"objected", "accepted", "registered", "rejected", "withdrawn"}
      [] s = "objected"  -> {"refiled", "rejected", "withdrawn"}
      [] s = "accepted"  -> {"objected", "registered"}
      [] s = "registered" -> {"withdrawn"}
      [] OTHER -> {"draft"}]
TRANSITIONS == [s \in Status |->
    CASE s = "draft"     -> {"ready", "efiled", "withdrawn"}
      [] s = "ready"     -> {"draft", "efiled", "withdrawn"}
      [] s = "efiled"    -> {"submitted", "withdrawn"}
      [] s \in {"submitted", "refiled"} ->
            {"objected", "accepted", "registered", "rejected", "withdrawn"}
      [] s = "objected"  -> {"refiled", "rejected", "withdrawn"}
      [] s = "accepted"  -> {"objected", "registered"}
      [] s \in {"rejected", "withdrawn"} -> {"draft"}
      [] OTHER -> {}]
CanTransition(from, to) == to \in TRANSITIONS[from]

TRACKED_STATUSES == {"submitted", "objected", "refiled", "accepted"}

\* Statuses whose bundle is final: the portal's papers are listed beside it.
LINK_DOCS == {"submitted", "refiled", "accepted", "registered"}

\* vakalat stands for the steps that may be skipped (indexing, eSign, oath too).
RequiredSteps == {"efile_case", "upload", "final_submit"}
Steps == RequiredSteps \cup {"vakalat", "court_fee"}
StepState == {"pending", "done", "not_applicable"}
Ticked(s, ks) == [k \in Steps |-> IF k \in ks THEN "done" ELSE s[k]]

\* missingBeforeSubmit finds nothing.
ReadyToSubmit(s) ==
    /\ \A k \in RequiredSteps \ {"final_submit"} : s[k] = "done"
    /\ \A k \in Steps \ RequiredSteps : s[k] # "pending"

RANK == [s \in Status |->
    CASE s = "draft" -> 1 [] s = "ready" -> 2 [] s = "efiled" -> 3 [] s = "submitted" -> 4
      [] s \in {"objected", "refiled"} -> 5 [] s = "accepted" -> 6 [] s = "registered" -> 7
      [] OTHER -> 0]

\* stepsFor: the steps a status implies.
StepsFor(s) == IF RANK[s] >= RANK["submitted"] THEN RequiredSteps
               ELSE IF RANK[s] >= RANK["efiled"] THEN {"efile_case"} ELSE {}

-----------------------------------------------------------------------------
(* What the portal shows, and what the sync makes of it *)

PortalStage == {"ready", "efiled", "submitted", "accepted", "registered"}
Portal == [stage : PortalStage, objected : BOOLEAN, paid : BOOLEAN]

PortalStatus(p) == IF p.stage # "registered" /\ p.objected THEN "objected" ELSE p.stage

\* pathTo: the shortest run of allowed moves (three at most, for any goal); <<>>
\* stands for no path.
Nodes == Status \ {"draft", "withdrawn", "rejected"}
IsPath(from, p, to) ==
    /\ p # <<>> /\ p[Len(p)] = to
    /\ CanTransition(from, p[1])
    /\ \A i \in 1 .. Len(p) - 1 : CanTransition(p[i], p[i + 1])
\* mutant: one move or none
Paths_OneMove == [from \in Status |-> [to \in Nodes |->
                    IF CanTransition(from, to) THEN {<<to>>} ELSE {}]]
Paths == [from \in Status |-> [to \in Nodes |->
            {p \in UNION {[1 .. n -> Nodes] : n \in 1 .. 3} : IsPath(from, p, to)}]]
PathTo(from, to) ==
    IF Paths[from][to] = {} THEN <<>>
    ELSE CHOOSE p \in Paths[from][to] : \A q \in Paths[from][to] : Len(p) <= Len(q)

\* goalFor: the status to move to, or the current one to leave it.
GoalFor_Clears(current, p, fromPortal) ==  \* mutant: clears before it looks at the list
    IF current \in {"registered", "withdrawn", "rejected"} THEN current
    ELSE IF current = "objected" /\ fromPortal THEN "refiled"
    ELSE IF PortalStatus(p) = "objected" THEN "objected"
    ELSE IF RANK[PortalStatus(p)] > RANK[current] THEN PortalStatus(p) ELSE current
GoalFor(current, p, fromPortal) ==
    LET t == PortalStatus(p)
    IN  IF current \in {"registered", "withdrawn", "rejected"} THEN current
        ELSE IF t \in {"registered", "objected"} THEN t
        ELSE IF current = "objected"
             THEN IF ~fromPortal THEN current ELSE IF RANK[t] > RANK["refiled"] THEN t ELSE "refiled"
        ELSE IF RANK[t] > RANK[current] THEN t ELSE current

-----------------------------------------------------------------------------
TrackingStatus == {"idle", "searching", "matched", "ambiguous", "not_found", "error"}
Usable(c) == c \in Cnrs

Ops == {"transition", "choose", "track", "sync", "pay", "docs", "bundle", "remove"}
Pc == {"idle", "grn", "write", "insert", "tick", "docs", "bundle", "delete",
       "attach", "setCnr", "register", "close", "lookup",
       "load", "hop", "keep", "fee", "paper", "save", "link", "list"}
\* read, steps, docs: what the handler has read of the filing; to: the status
\* asked for; cnr: the CNR to save; snap, path: the portal as it was read, and
\* the moves still to make; copy: the portal's paper as the matter has it.  What
\* the sync has read is the status it believes in, its own moves included.
Loc == [op : Ops, read : Status, steps : [Steps -> StepState], docs : Nat, to : Status,
        cnr : Cnrs \cup {NoCnr}, snap : Portal, path : Seq(Nodes), copy : Nat]
AllPending == [k \in Steps |-> "pending"]
NoLoc == [op |-> "transition", read |-> "draft", steps |-> AllPending, docs |-> 0, to |-> "draft",
          cnr |-> NoCnr, snap |-> [stage |-> "ready", objected |-> FALSE, paid |-> FALSE],
          path |-> <<>>, copy |-> 0]

\* A filing as the earlier steps of its life, one at a time, have left it.
Init ==
    /\ exists = TRUE
    /\ status \in {"draft", "efiled", "submitted", "objected"}
    /\ steps = IF status = "draft" THEN AllPending
               ELSE Ticked([AllPending EXCEPT !["vakalat"] = "not_applicable"],
                           StepsFor(status) \cup {"upload", "court_fee"})
    /\ numbered = (status # "draft") /\ payments = IF numbered THEN 1 ELSE 0
    /\ fcnr = NoCnr /\ tracking = "idle" /\ cands = {} /\ mcnr = NoCnr
    /\ docs = 1 /\ papers = IF numbered THEN 1 ELSE 0
    /\ listed = IF status \in {"submitted", "objected"} THEN {1} ELSE {}
    /\ bundle = IF numbered THEN 1 ELSE 0
    /\ portal = [stage |-> IF status = "objected" THEN "submitted"
                           ELSE IF status = "draft" THEN "ready" ELSE status,
                 objected |-> status = "objected", paid |-> numbered]
    /\ portalObjected = (status = "objected")
    /\ objector = IF status = "objected" THEN "portal" ELSE "none"
    /\ quiet = "no"
    /\ pc = [h \in Handlers |-> "idle"] /\ loc = [h \in Handlers |-> NoLoc]
    /\ ops = 0 /\ moves = 0 /\ faults = 0

\* The history of quiet: the syncs under way, what a step of h makes of it, and
\* h's last step.
UnderWay == {h \in Handlers : pc[h] # "idle" /\ loc[h].op = "sync"}
Undisturbed(h) == IF loc[h].op = "sync" /\ quiet # "no" THEN "syncing" ELSE "no"
Finished(h)    == IF Undisturbed(h) = "syncing" THEN "settled" ELSE "no"

Goto(h, l) == pc' = [pc EXCEPT ![h] = l]
Return(h)  == Goto(h, "idle") /\ loc' = [loc EXCEPT ![h] = NoLoc]

-----------------------------------------------------------------------------
(* The portal, and the requests that are a single statement *)

\* The advocate or the court moves the case on, objects to it, or takes the
\* objection off the list.
PortalMoves ==
    /\ moves < MaxPortal /\ moves' = moves + 1
    /\ portal' \in
          {q \in Portal :
              \/ /\ <<portal.stage, q.stage>> \in
                       {<<"ready", "efiled">>, <<"efiled", "submitted">>,
                        <<"submitted", "accepted">>, <<"accepted", "registered">>}
                 /\ q.stage = "submitted" => q.paid
                 /\ (q.paid <=> portal.paid) \/ q.stage = "submitted"
                 /\ ~portal.objected /\ ~q.objected
              \/ /\ portal.stage = "submitted" /\ q = [portal EXCEPT !.objected = ~@]}
    /\ quiet' = "no"
    /\ UNCHANGED <<filing, others, portalObjected, objector, pc, loc, ops, faults>>

Request == exists /\ ops < MaxOps /\ ops' = ops + 1 /\ quiet' = "no"

\* PATCH with a step: merged in the database.
TickStep(k, v) ==
    /\ Request /\ (k \in RequiredSteps => v # "not_applicable")
    /\ steps' = [steps EXCEPT ![k] = v]
    /\ UNCHANGED <<exists, status, numbered, fcnr, tracking, cands, others, portal,
                   portalObjected, objector, pc, loc, moves, faults>>

\* PATCH with the eFiling number, or with the court's filing number.
EnterNumbers ==
    /\ Request
    /\ \/ numbered' \in BOOLEAN /\ UNCHANGED tracking
       \/ tracking' = "idle" /\ UNCHANGED numbered
    /\ UNCHANGED <<exists, status, steps, fcnr, cands, others, portal,
                   portalObjected, objector, pc, loc, moves, faults>>

HasPayment == payments > 0
DeletePayment ==
    /\ Request /\ HasPayment
    /\ payments' = payments - 1
    /\ UNCHANGED <<filing, mcnr, docs, papers, listed, bundle, portal, portalObjected, objector, pc, loc, moves, faults>>

\* The advocate gives the matter a CNR (linkByCnr, PATCH of the matter).
EditMatter(c) ==
    /\ Request
    /\ mcnr' = c
    /\ UNCHANGED <<filing, payments, docs, papers, listed, bundle, portal, portalObjected, objector, pc, loc, moves, faults>>

-----------------------------------------------------------------------------
(* Requests that read the filing and write it later *)

\* A request loads the filing.
Begin(h, l, arguments) ==
    /\ pc[h] = "idle" /\ Request
    /\ loc' = [loc EXCEPT ![h] = [arguments EXCEPT !.read = status, !.steps = steps, !.docs = docs]]
    /\ Goto(h, l)
    /\ UNCHANGED <<filing, others, portal, portalObjected, objector, moves, faults>>

\* POST /filings/:id/transition, up to its checks.  Whether the particulars and
\* documents are ready is the advocate's affair; "eFile Case" needs its number.
BeginTransition(h, to, c) ==
    /\ CanTransition(status, to)
    /\ to = "submitted" => ReadyToSubmit(steps)
    /\ Begin(h, IF to = "submitted" /\ steps["court_fee"] # "not_applicable" THEN "grn" ELSE "write",
             [NoLoc EXCEPT !.op = "transition", !.to = to, !.cnr = c])

\* A payment with a GRN is on record.
CheckGrn(h) ==
    /\ pc[h] = "grn"
    /\ IF payments > 0 THEN Goto(h, "write") /\ UNCHANGED loc ELSE Return(h)
    /\ UNCHANGED <<filing, others, portal, events, bounds>>

\* The update: by id, whatever the status has become.  The steps it writes are
\* those it has read.  Registered by hand goes on to attachCnr.
WrittenSteps(h) ==
    CASE loc[h].to = "efiled"    -> Ticked(loc[h].steps, {"efile_case"})
      [] loc[h].to = "submitted" -> Ticked(loc[h].steps, {"final_submit"})
      [] OTHER -> steps

Write(h) ==
    /\ pc[h] = "write"
    /\ IF exists
         THEN /\ status' = loc[h].to /\ steps' = WrittenSteps(h)
              /\ numbered' = (numbered \/ loc[h].to = "efiled")
              /\ tracking' = IF loc[h].to \in TRACKED_STATUSES \cup {"draft"} THEN "idle" ELSE tracking
              /\ cands' = IF loc[h].to = "draft" THEN {} ELSE cands
              /\ objector' = IF loc[h].to = "objected" THEN "advocate" ELSE objector
         ELSE UNCHANGED <<status, steps, numbered, tracking, cands, objector>>
    /\ IF loc[h].to = "registered" /\ Usable(loc[h].cnr)
         THEN Goto(h, "attach") /\ UNCHANGED loc ELSE Return(h)
    /\ quiet' = "no"
    /\ UNCHANGED <<exists, fcnr, others, portal, portalObjected, bounds>>

\* POST /filings/:id/payments with the court fee's GRN: insert, then tick the
\* step in the steps it has read.
BeginPayment(h) == Begin(h, "insert", [NoLoc EXCEPT !.op = "pay"])
Insert(h) ==
    /\ pc[h] = "insert"
    /\ IF exists THEN payments' = payments + 1 /\ Goto(h, "tick") /\ UNCHANGED loc
                 ELSE UNCHANGED payments /\ Return(h)
    /\ quiet' = Undisturbed(h)
    /\ UNCHANGED <<filing, mcnr, docs, papers, listed, bundle, portal, portalObjected, objector, bounds>>

\* The sync merges the step in the database, and goes on to the papers.
FeeStep(h) == Ticked(IF loc[h].op = "sync" THEN steps ELSE loc[h].steps, {"court_fee"})
Tick(h) ==
    /\ pc[h] = "tick"
    /\ steps' = IF exists THEN FeeStep(h) ELSE steps
    /\ IF exists /\ loc[h].op = "sync" THEN Goto(h, "paper") /\ UNCHANGED loc ELSE Return(h)
    /\ quiet' = Undisturbed(h)
    /\ UNCHANGED <<exists, status, numbered, fcnr, tracking, cands, others, portal,
                   portalObjected, objector, bounds>>

\* PUT /filings/:id/documents: replace the list (the portal's papers may be
\* among the chosen ones) and drop the bundle, in a transaction.
BeginDocuments(h) ==
    /\ status \in {"draft", "ready", "efiled", "objected"}
    /\ Begin(h, "docs", [NoLoc EXCEPT !.op = "docs"])
\* mutant: the bundle stays
BundleAfter_Kept == bundle
\* The new list has no bundle yet.
BundleAfter == 0

SetDocuments(h) ==
    /\ pc[h] = "docs"
    /\ IF exists THEN docs' = docs + 1 /\ bundle' = BundleAfter /\ listed' \in SUBSET (1 .. papers)
                 ELSE UNCHANGED <<docs, listed, bundle>>
    /\ quiet' = "no"
    /\ Return(h)
    /\ UNCHANGED <<filing, mcnr, payments, papers, portal, portalObjected, objector, bounds>>

\* Build the bundle of the documents read; the update is by id.
BeginBundle(h) == Begin(h, "bundle", [NoLoc EXCEPT !.op = "bundle"])
BuildBundle(h) ==
    /\ pc[h] = "bundle"
    /\ bundle' = IF exists THEN loc[h].docs ELSE bundle
    /\ quiet' = "no"
    /\ Return(h)
    /\ UNCHANGED <<filing, mcnr, payments, docs, papers, listed, portal, portalObjected, objector, bounds>>

\* DELETE /filings/:id.
BeginRemove(h) ==
    /\ status \in {"draft", "ready", "withdrawn", "rejected"}
    /\ Begin(h, "delete", [NoLoc EXCEPT !.op = "remove"])
Delete(h) ==
    /\ pc[h] = "delete"
    /\ exists' = FALSE
    /\ quiet' = "no"
    /\ Return(h)
    /\ UNCHANGED <<status, steps, numbered, fcnr, tracking, cands, others, portal,
                   portalObjected, objector, bounds>>

-----------------------------------------------------------------------------
(* attachCnr *)

\* chooseCandidate: one of the tracker's candidates, in any status.
BeginChoose(h, c) ==
    /\ c \in cands
    /\ Begin(h, "attach", [NoLoc EXCEPT !.op = "choose", !.cnr = c])

\* What a failure does: the sync falls back to the filing alone, the tracker
\* notes an error, a request fails.
AttachFails(h) ==
    IF loc[h].op = "sync" THEN Goto(h, "keep") /\ UNCHANGED <<loc, tracking>>
    ELSE /\ tracking' = IF exists /\ loc[h].op = "track" THEN "error" ELSE tracking
         /\ Return(h)

Attach(h) ==
    /\ pc[h] = "attach"
    /\ IF exists THEN Goto(h, "setCnr") /\ UNCHANGED <<loc, tracking>> ELSE AttachFails(h)
    /\ quiet' = IF loc[h].op = "sync" THEN quiet ELSE "no"
    /\ UNCHANGED <<exists, status, steps, numbered, fcnr, cands, others, portal,
                   portalObjected, objector, bounds>>

\* attachCnrAndQueue: the matter takes the CNR, unless another matter has it.
SetCnr(h) ==
    /\ pc[h] = "setCnr"
    /\ \/ mcnr' = loc[h].cnr /\ Goto(h, "register") /\ UNCHANGED <<loc, tracking>>
       \/ AttachFails(h) /\ UNCHANGED mcnr
    /\ quiet' = Undisturbed(h)
    /\ UNCHANGED <<exists, status, steps, numbered, fcnr, cands, payments, docs, papers, listed, bundle,
                   portal, portalObjected, objector, bounds>>

\* The filing is registered, whatever its status has become: attachCnr's
\* update, the sync's fallback, and the tracker's closeAlreadyLinked.  (Of a
\* filing that is gone there is nothing to update, and the event row fails.)
\* A sync has made its last move, and goes on.
Register(h) ==
    /\ pc[h] \in {"register", "keep", "close"}
    /\ IF exists
         THEN /\ status' = "registered" /\ fcnr' = loc[h].cnr /\ tracking' = "matched"
              /\ cands' = {}
         ELSE UNCHANGED <<status, fcnr, tracking, cands>>
    /\ IF exists /\ loc[h].op = "sync"
         THEN Goto(h, "fee") /\ loc' = [loc EXCEPT ![h].read = "registered", ![h].path = <<>>]
         ELSE Return(h)
    /\ quiet' = Undisturbed(h)
    /\ UNCHANGED <<exists, steps, numbered, others, portal, portalObjected, objector, bounds>>

-----------------------------------------------------------------------------
(* The tracker's work on this filing *)

\* mutant: a matter with a CNR of its own is left to the eCourts sync
Tracks_Unlinked == exists /\ status \in TRACKED_STATUSES /\ ~Usable(mcnr)
Tracks == exists /\ status \in TRACKED_STATUSES

BeginTrack(h) ==
    /\ pc[h] = "idle" /\ Tracks
    /\ loc' = [loc EXCEPT ![h] = [NoLoc EXCEPT !.op = "track", !.cnr = mcnr]]
    /\ Goto(h, IF Usable(mcnr) THEN "close" ELSE "lookup")
    /\ UNCHANGED <<filing, others, portal, events, bounds>>

\* lookupFiling and applyOutcome: no match, several, unreachable eCourts or a
\* filing that cannot be searched for; or a single match.  A search by name may
\* find any case.
Lookup(h) ==
    /\ pc[h] = "lookup"
    /\ \/ \E c \in Cnrs :
             /\ loc' = [loc EXCEPT ![h].cnr = c]
             /\ Goto(h, "attach")
             /\ UNCHANGED <<tracking, cands>>
       \/ /\ \E t \in {"not_found", "searching", "error"} : tracking' = IF exists THEN t ELSE tracking
          /\ UNCHANGED cands /\ Return(h)
       \/ /\ exists /\ Cardinality(Cnrs) > 1 /\ tracking' = "ambiguous" /\ cands' = Cnrs
          /\ Return(h)
    /\ quiet' = "no"
    /\ UNCHANGED <<exists, status, steps, numbered, fcnr, others, portal,
                   portalObjected, objector, bounds>>

\* The run stops at the breaker, five unreachable lookups in a row before it
\* comes to this filing: all that is left of the list is put off.
TrackDeferred(h) ==
    /\ pc[h] \in {"close", "lookup"}
    /\ tracking' = IF exists THEN "searching" ELSE tracking
    /\ quiet' = "no"
    /\ Return(h)
    /\ UNCHANGED <<exists, status, steps, numbered, fcnr, cands, others, portal,
                   portalObjected, objector, bounds>>

-----------------------------------------------------------------------------
(* The sync with the portal *)

\* Read the portal's lists.
BeginSync(h) ==
    /\ pc[h] = "idle" /\ exists /\ numbered
    /\ loc' = [loc EXCEPT ![h] = [NoLoc EXCEPT !.op = "sync", !.snap = portal]]
    /\ Goto(h, "load")
    /\ quiet' = IF quiet = "settled" THEN "settled" ELSE IF UnderWay = {} THEN "syncing" ELSE "no"
    /\ UNCHANGED <<filing, others, portal, portalObjected, objector, bounds>>

\* Load the filing, find the moves to make.  A filing that stays objected gets
\* the portal's reasons.
LoadFiling(h) ==
    /\ pc[h] = "load"
    /\ LET goal == GoalFor(status, loc[h].snap, portalObjected)
           path == IF goal = status THEN <<>> ELSE PathTo(status, goal)
       IN  IF ~exists THEN Return(h) /\ UNCHANGED objector
           ELSE /\ loc' = [loc EXCEPT ![h].read = status, ![h].path = path]
                /\ Goto(h, IF path = <<>> THEN "fee" ELSE "hop")
                /\ objector' = IF status = "objected" /\ PortalStatus(loc[h].snap) = "objected"
                               THEN "portal" ELSE objector
    /\ UNCHANGED <<filing, others, portal, portalObjected, quiet, bounds>>

\* The status the sync believes in is the one the filing has.
Believed_Assumed(h) == TRUE  \* mutant: the update is by id alone
Believed(h) == status = loc[h].read

\* One move: an update that only finds the filing in the status the sync
\* believes in, and an event whether it did or not.  Registration is not one.
Hop(h) ==
    /\ pc[h] = "hop" /\ loc[h].path # <<>> /\ Head(loc[h].path) # "registered"
    /\ LET to == Head(loc[h].path)
       IN  /\ IF exists /\ Believed(h)
                THEN /\ status' = to /\ steps' = Ticked(steps, StepsFor(to))
                     /\ tracking' = IF to \in TRACKED_STATUSES THEN "idle" ELSE tracking
                     /\ objector' = IF to = "objected" THEN "portal" ELSE objector
                ELSE UNCHANGED <<status, steps, tracking, objector>>
           /\ portalObjected' = (portalObjected \/ (exists /\ to = "objected"))
           /\ IF ~exists THEN Return(h)
              ELSE /\ loc' = [loc EXCEPT ![h].read = to, ![h].path = Tail(@)]
                   /\ Goto(h, IF Len(loc[h].path) = 1 THEN "fee" ELSE "hop")
    /\ quiet' = Undisturbed(h)
    /\ UNCHANGED <<exists, numbered, fcnr, cands, others, portal, bounds>>

\* register: the matter keeps a working CNR of its own.
KeepsOwn == Usable(mcnr) /\ mcnr # CourtCnr

ReadMatter(h) ==
    /\ pc[h] = "hop" /\ loc[h].path # <<>> /\ Head(loc[h].path) = "registered"
    /\ loc' = [loc EXCEPT ![h].cnr = CourtCnr]
    /\ Goto(h, IF KeepsOwn THEN "keep" ELSE "attach")
    /\ UNCHANGED <<filing, others, portal, events, bounds>>

\* syncPayments: a GRN is entered unless the firm has it.
SyncFee(h) ==
    /\ pc[h] = "fee"
    /\ Goto(h, IF loc[h].snap.paid /\ payments = 0 THEN "insert" ELSE "paper")
    /\ UNCHANGED <<filing, others, portal, loc, events, bounds>>

\* syncDocuments: the portal hands out the paper from the eFiling on; the matter
\* may have a copy (any, if it has more).
Shown(p) == p.stage # "ready"
FindPaper(h) ==
    /\ pc[h] = "paper"
    /\ \/ ~Shown(loc[h].snap) /\ Return(h) /\ quiet' = Finished(h)
       \/ /\ Shown(loc[h].snap)
          /\ \/ \E k \in 1 .. papers : loc' = [loc EXCEPT ![h].copy = k] /\ Goto(h, "link")
             \/ papers = 0 /\ Goto(h, "save") /\ UNCHANGED loc
          /\ UNCHANGED quiet
    /\ UNCHANGED <<filing, others, portal, portalObjected, objector, bounds>>

\* Fetch it from the portal, which may fail, and save it with the matter; of a
\* filing that is gone there is no event to record.
SavePaper(h) ==
    /\ pc[h] = "save"
    /\ \/ Return(h) /\ quiet' = "no" /\ UNCHANGED papers
       \/ /\ papers' = papers + 1 /\ quiet' = Undisturbed(h)
          /\ IF exists THEN loc' = [loc EXCEPT ![h].copy = papers + 1] /\ Goto(h, "link") ELSE Return(h)
    /\ UNCHANGED <<filing, mcnr, payments, docs, listed, bundle, portal, portalObjected, objector, bounds>>

\* A filing the sync believes final gets the copy, unless it is on the list.
LinkPaper(h) ==
    /\ pc[h] = "link"
    /\ IF loc[h].read \in LINK_DOCS /\ loc[h].copy \notin listed
         THEN Goto(h, "list") /\ UNCHANGED <<loc, quiet>>
         ELSE Return(h) /\ quiet' = Finished(h)
    /\ UNCHANGED <<filing, others, portal, portalObjected, objector, bounds>>

\* The bundle stays.
ListPaper(h) ==
    /\ pc[h] = "list"
    /\ IF exists THEN docs' = docs + 1 /\ listed' = listed \cup {loc[h].copy}
                 ELSE UNCHANGED <<docs, listed>>
    /\ Return(h) /\ quiet' = Finished(h)
    /\ UNCHANGED <<filing, mcnr, payments, papers, bundle, portal, portalObjected, objector, bounds>>

\* The process dies, or the database fails under the handler.
Crash(h) ==
    /\ pc[h] # "idle" /\ faults < MaxFaults
    /\ faults' = faults + 1 /\ quiet' = "no"
    /\ Return(h)
    /\ UNCHANGED <<filing, others, portal, portalObjected, objector, ops, moves>>

-----------------------------------------------------------------------------
BeginRequest(h) ==
    \/ \E to \in Status, c \in Cnrs \cup {NoCnr} :
          (to # "registered" => c = NoCnr) /\ BeginTransition(h, to, c)
    \/ BeginPayment(h) \/ BeginDocuments(h) \/ BeginBundle(h) \/ BeginRemove(h)
    \/ \E c \in Cnrs : BeginChoose(h, c)

Work(h) ==
    \/ CheckGrn(h) \/ Write(h) \/ Insert(h) \/ Tick(h) \/ SetDocuments(h) \/ BuildBundle(h)
    \/ Delete(h) \/ Attach(h) \/ SetCnr(h) \/ Register(h) \/ Lookup(h) \/ TrackDeferred(h)
    \/ LoadFiling(h) \/ Hop(h) \/ ReadMatter(h) \/ SyncFee(h)
    \/ FindPaper(h) \/ SavePaper(h) \/ LinkPaper(h) \/ ListPaper(h)

Next ==
    \/ PortalMoves \/ EnterNumbers \/ DeletePayment
    \/ \E k \in Steps, v \in StepState : TickStep(k, v)
    \/ \E c \in Cnrs : EditMatter(c)
    \/ \E h \in Handlers : BeginRequest(h) \/ BeginTrack(h) \/ BeginSync(h) \/ Work(h) \/ Crash(h)

Spec == Init /\ [][Next]_vars

\* Handlers run on; the tracker comes round after every 09:00 and 19:00 run, and
\* the advocate's dashboard keeps syncing.  The last conjunct is an assumption
\* about eCourts and not about the code: again and again eCourts answers for as
\* long as a run takes to reach this filing, which is last in line while others
\* are unreachable; without it a run may stop at the breaker every time.
Reached == \E h \in Handlers : pc[h] = "close" /\ Register(h)
FairSpec ==
    /\ Spec
    /\ \A h \in Handlers : WF_vars(Work(h))
    /\ SF_vars(\E h \in Handlers : BeginTrack(h)) /\ SF_vars(\E h \in Handlers : BeginSync(h))
    /\ SF_vars(Reached)

-----------------------------------------------------------------------------
(* Properties *)

\* Every variable keeps its type; the bounds are never passed.
TypeOK ==
    /\ exists \in BOOLEAN /\ status \in Status /\ steps \in [Steps -> StepState]
    /\ numbered \in BOOLEAN /\ fcnr \in Cnrs \cup {NoCnr} /\ tracking \in TrackingStatus
    /\ cands \subseteq Cnrs /\ mcnr \in Cnrs \cup {NoCnr}
    /\ payments \in Nat /\ docs \in Nat /\ bundle \in Nat
    /\ papers \in Nat /\ listed \subseteq Nat
    /\ portal \in Portal /\ portalObjected \in BOOLEAN
    /\ objector \in {"none", "advocate", "portal"} /\ quiet \in {"no", "syncing", "settled"}
    /\ pc \in [Handlers -> Pc] /\ loc \in [Handlers -> Loc]
    /\ ops \in 0 .. MaxOps /\ moves \in 0 .. MaxPortal /\ faults \in 0 .. MaxFaults

SyncStep(h) == loc[h].op = "sync" /\ Work(h)

\* "Idempotent: a second run with nothing new on the portal changes nothing":
\* once a sync has finished and nobody has touched the filing or the portal
\* since, no step of a sync changes the filing, its matter or its payments, nor,
\* unless syncs at the same time have saved the paper twice, the documents.
SyncIdempotent ==
    [][\A h \in Handlers :
          quiet = "settled" /\ SyncStep(h) =>
             /\ UNCHANGED <<filing, mcnr, payments>>
             /\ papers <= 1 => UNCHANGED <<papers, listed, docs>>]_vars

\* Whatever happens to the filing while the sync walks its path, each of the
\* sync's moves is one that the status machine allows from the status the
\* filing really has, or no move at all
\* (registration is not a move of this kind).
HopsAllowed ==
    [][\A h \in Handlers : Hop(h) => status' = status \/ CanTransition(status, status')]_vars

\* No request, sync or tracker run that sees the filing registered takes it out
\* of "registered": only a transition that had read another status undoes it.
RegistrationUndoneOnlyByStale ==
    [][status = "registered" /\ status' # "registered" =>
          \E h \in Handlers : /\ pc[h] = "write" /\ loc[h].read # "registered"
                              /\ status' = loc[h].to]_vars

\* A bundle is of the filing's document list, but for two holes: a build that
\* had read the list before it changed and wrote its bundle after, and, as
\* LINK_DOCS intends, a portal's paper listed beside the bundle of a filing that
\* the sync believes is final.
BundleFollowsDocuments ==
    [][(bundle \in {0, docs} /\ bundle' \notin {0, docs'}) =>
          \E h \in Handlers : \/ BuildBundle(h) /\ loc[h].docs # docs
                              \/ ListPaper(h) /\ loc[h].read \in LINK_DOCS]_vars

\* A filing before the court whose matter has a CNR does not stay open: the
\* tracker closes it without a lookup in the first run that reaches it, unless
\* it moves on or goes first.  That a run reaches it is assumed (Reached): the
\* breaker puts off every filing behind five unreachable ones, linked or not.
TrackedFilingLands ==
    (exists /\ status \in TRACKED_STATUSES /\ Usable(mcnr))
       ~> ~(exists /\ status \in TRACKED_STATUSES /\ Usable(mcnr))

\* A case the portal shows as registered ends up registered here, wherever the
\* filing was left behind, unless the advocate closed or deleted it.
RegistrationLands ==
    (exists /\ numbered /\ portal.stage = "registered")
       ~> (~exists \/ ~numbered \/ status \in {"registered", "withdrawn", "rejected"})

(* What the source says, and the code does not keep *)

\* "ticking two steps in quick succession must not lose one of them": a step
\* that is done becomes pending only when the advocate unticks it.
StepsNeverLost ==
    [][\A k \in Steps : steps[k] = "done" /\ steps'[k] # "done" =>
          \E v \in StepState : TickStep(k, v)]_vars

\* "so the portal may clear it": the sync only clears an objection that the
\* portal raised.
ClearsOnlyItsOwn ==
    [][\A h \in Handlers : Hop(h) /\ status = "objected" /\ status' # "objected" =>
          objector = "portal"]_vars

=============================================================================
