------------------------------ MODULE MCOffice ------------------------------
(* The components around one matter: its handovers with the firm's          *)
(* invitations, the coverage board, the audit log of a signature, its       *)
(* hearings, and the eCourts case as it is looked up.  They share no state, *)
(* so every behaviour is one component's: part says whose.  Sets of model   *)
(* values are shared between the parts: Requests are whatever handlers a    *)
(* part has, Users its people or replicas, Invites documents or hearings.   *)
EXTENDS Naturals, FiniteSets, Sequences, TLC

CONSTANTS
    Requests, Users, Nobody,
    Invites, Handovers, MaxSeats, MaxByHand,
    Lawyers, Admins,
    MaxEvents, MaxTime,
    MaxDay,
    Calls, MAX_CONCURRENT

\* Calls and people are finitely many, and Nobody is none of them.
ASSUME OfficeAssumption ==
    /\ IsFiniteSet(Calls) /\ MAX_CONCURRENT \in Nat
    /\ IsFiniteSet(Requests) /\ IsFiniteSet(Users) /\ IsFiniteSet(Invites)
    /\ MaxSeats \in Nat /\ MaxByHand \in Nat /\ MaxDay \in Nat \ {0}
    /\ MaxEvents \in Nat /\ MaxTime \in Nat
    /\ Nobody \notin Requests \cup Users \cup Invites \cup Handovers \cup Lawyers

VARIABLES
    part, \* the component that moves; the others rest in their initial state
    seats, users, outside, active, inv, guestPc, loc, extra, byHand,
    request, grants, about, takenBy, crossed, moved,
    requestedBy, posting, claimedBy, coverPc, who, raced,
    now, rows, auditPc, ev, written, chained, recut,
    today, next, live, hearings, hearingPc, sync, announced, by, gone, owed,
    stored, paused, queuedAt, jobs, casePc, at, job, told, adrift, excused,
    running, waiting, callPc, barged

H == INSTANCE CoCounsel WITH Emails <- Users, Guests <- Requests, Nil <- Nobody, pc <- guestPc
C == INSTANCE Coverage WITH status <- posting, pc <- coverPc
A == INSTANCE EsignAudit WITH Recorders <- Requests, Signers <- Users, Contents <- Invites,
                              pc <- auditPc
D == INSTANCE Hearings WITH Handlers <- Requests, Ids <- Invites, Nil <- Nobody,
                            pc <- hearingPc, rows <- hearings, loc <- sync, told <- announced
S == INSTANCE CaseStore WITH Handlers <- Requests, Replicas <- Users, NoReplica <- Nobody,
                             pc <- casePc
L == INSTANCE LiveCalls WITH active <- running, pc <- callPc

Parts == {"handover", "coverage", "audit", "hearings", "case", "calls"}

\* A part that rests has but one initial state.
Init ==
    /\ part \in Parts
    /\ H!CoInit /\ (part # "handover" => seats = 1 /\ outside = {})
    /\ C!Init   /\ (part # "coverage" => requestedBy = CHOOSE u \in Lawyers : u \notin Admins)
    /\ A!Init
    /\ D!Init   /\ (part # "hearings" => next = 0)
    /\ S!Init /\ L!Init

handoverVars == <<seats, users, outside, active, inv, guestPc, loc, extra, byHand,
                  request, grants, about, takenBy, crossed, moved>>
coverVars    == <<requestedBy, posting, claimedBy, coverPc, who, raced>>
auditVars    == <<now, rows, auditPc, ev, written, chained, recut>>
dateVars     == <<today, next, live, hearings, hearingPc, sync, announced, by, gone, owed>>
caseVars     == <<stored, paused, queuedAt, jobs, casePc, at, job, told, adrift, excused>>
callVars     == <<running, waiting, callPc, barged>>
peopleVars   == <<handoverVars, coverVars, auditVars>>
courtVars    == <<dateVars, caseVars, callVars>>
vars == <<part, peopleVars, courtVars>>

Handover == part = "handover" /\ H!CoNext /\ UNCHANGED <<part, coverVars, auditVars, courtVars>>
Cover    == part = "coverage" /\ C!Next /\ UNCHANGED <<part, handoverVars, auditVars, courtVars>>
Audit    == part = "audit" /\ A!Next /\ UNCHANGED <<part, handoverVars, coverVars, courtVars>>
Hear     == part = "hearings" /\ D!Next /\ UNCHANGED <<part, peopleVars, caseVars, callVars>>
LookUp   == part = "case" /\ S!Next /\ UNCHANGED <<part, peopleVars, dateVars, callVars>>
Call     == part = "calls" /\ L!Next /\ UNCHANGED <<part, peopleVars, dateVars, caseVars>>

Next == Handover \/ Cover \/ Audit \/ Hear \/ LookUp \/ Call
Spec == Init /\ [][Next]_vars

Symmetry == Permutations(Requests) \cup Permutations(Users) \cup Permutations(Invites)

-----------------------------------------------------------------------------
(* The properties are stated and explained in the modules of the parts. *)

\* No more active members than seats (assertSeatCapNotExceeded).
SeatsKept == H!SeatsKept

\* A handover is taken by one advocate, a cancelled one by nobody (cancelHandover,
\* acceptExisting, acceptByToken).
HandoverEndsOnce == H!HandoverEndsOnce

\* A co-counsel guest is not a member of the firm (registerCoCounselGuest), unless
\* the operator moved the account (updateUser).
GuestsAreNotMembers == H!GuestsAreNotMembers

\* A posting keeps its claimer and its ending (coverage claim, cancel, complete).
PostingStands == C!PostingStands

\* verifyChain accuses no untouched log and vouches only for what was written.
ChainTellsTruth == A!ChainTellsTruth

\* The matter announces the right next hearing (syncCaseNextHearing, the sync).
NextHearingIsRight == D!NextHearingIsRight

\* A deleted hearing does not come back (materializeCaseHearings).
RemovedStaysRemoved == D!RemovedStaysRemoved

\* "DifAi will keep trying in the background" is true (queueFetch).
QueuedIsTrue == S!QueuedIsTrue

\* No place of the limiter is lost (limited).
PlacesKept == L!PlacesKept

=============================================================================
