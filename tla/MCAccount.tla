------------------------------ MODULE MCAccount ------------------------------
(* The components of a firm's account: its plan as the provider reports it, *)
(* the quota counted from it, the caches of it, its members, and a title    *)
(* report that they write.  They share no state, so every behaviour is one  *)
(* component's: part says whose.                                            *)
EXTENDS Naturals, FiniteSets, Sequences, TLC

CONSTANTS
    Requests, Users, Nobody,
    Subs, Solo, MaxEvents, MaxFaults,
    monthly_cap, Terms, MaxMonths, MaxMade,
    Replicas, TTL, MaxTime, MaxVersion,
    DEFECTS_RUNS_PER_24H, MaxAiRuns

\* There is a request, a cap may be zero, a payment buys a month at least, and
\* Nobody is nothing else.
ASSUME AccountAssumption ==
    /\ IsFiniteSet(Requests) /\ Requests # {}
    /\ monthly_cap \in Nat /\ Terms \subseteq Nat \ {0}
    /\ MaxMonths \in Nat /\ MaxMade \in Nat /\ TTL \in Nat /\ MaxTime \in Nat /\ MaxVersion \in Nat
    /\ MaxEvents \in Nat /\ MaxAiRuns \in Nat
    /\ Nobody \notin Subs \cup Replicas \cup Users

VARIABLES
    part, \* the component that moves; the others rest in their initial state
    freePlan, open, events, firm, logged, hookPc, event,
    applied, again, excused, disorder, faults,
    month, firstDay, renewsAt, made, draftPc, miscounted,
    kind, now, version, until, writers, inbox, cache, fill,
    admins, status, asked, due, lost, memberPc, loc, purging,
    unguarded, late,
    stage, verdict, has, defects, aiRuns, task, answered, byHand, overlapped, failed

B == INSTANCE Billing WITH Hooks <- Requests, NoSub <- Nobody, pc <- hookPc
Q == INSTANCE AiQuota WITH Drafts <- Requests, NoRenewal <- Nobody, pc <- draftPc
K == INSTANCE EntitlementCache WITH Fills <- Requests, NoReplica <- Nobody
M == INSTANCE Members WITH People <- Users, pc <- memberPc
T == INSTANCE TitleReport WITH Handlers <- Requests, status <- stage

\* A part that rests has but one initial state.
Init ==
    /\ part \in {"billing", "quota", "cache", "members", "title"}
    /\ B!Init /\ (part # "billing" => freePlan)
    /\ Q!Init /\ (part # "quota" => firstDay /\ renewsAt = Nobody)
    /\ K!Init /\ (part # "cache" => kind = "local")
    /\ M!Init /\ (part # "members" => admins = Users)
    /\ T!Init

billVars   == <<freePlan, open, events, firm, logged, hookPc, event,
                applied, again, excused, disorder, faults>>
quotaVars  == <<month, firstDay, renewsAt, made, draftPc, miscounted>>
cacheVars  == <<kind, now, version, until, writers, inbox, cache, fill>>
memberVars == <<admins, status, asked, due, lost, memberPc, loc, purging,
                unguarded, late>>
titleVars  == <<stage, verdict, has, defects, aiRuns, task, answered, byHand,
                overlapped, failed>>
vars == <<part, billVars, quotaVars, cacheVars, memberVars, titleVars>>

Bill   == part = "billing" /\ B!Next /\ UNCHANGED <<part, quotaVars, cacheVars, memberVars, titleVars>>
Draft  == part = "quota" /\ Q!Next /\ UNCHANGED <<part, billVars, cacheVars, memberVars, titleVars>>
Serve  == part = "cache" /\ K!Next /\ UNCHANGED <<part, billVars, quotaVars, memberVars, titleVars>>
Member == part = "members" /\ M!Next /\ UNCHANGED <<part, billVars, quotaVars, cacheVars, titleVars>>
Report == part = "title" /\ T!Next /\ UNCHANGED <<part, billVars, quotaVars, cacheVars, memberVars>>

Next == Bill \/ Draft \/ Serve \/ Member \/ Report
Spec == Init /\ [][Next]_vars

Symmetry == Permutations(Requests)

-----------------------------------------------------------------------------
(* The properties are stated and explained in the modules of the parts. *)

\* A redelivered event takes no second effect (handleWebhook).
AppliedOnce == B!AppliedOnce

\* The firm ends with the status its subscription's events say (handleWebhook).
SettledIsTrue == B!SettledIsTrue

\* The monthly cap on AI generations (assertCanGenerate).
CapKept == Q!CapKept

\* A cache serves nothing that has been old for longer than its TTL.
StaleAtMostTTL == K!StaleAtMostTTL

\* An old entry is served only until the invalidation arrives.
NewsIsOnItsWay == K!NewsIsOnItsWay

\* The firm keeps an active admin (updateUser).
AdminRemains == M!AdminRemains

\* A member who took the erasure back has lost nothing (cancelDeletion).
TakenBackIsWhole == M!TakenBackIsWhole

\* The advocate's own defects stay on a title report, and open AI defects are the
\* last analysis's (replaceAiDefects).
DefectsAreOfLastRun == T!DefectsAreOfLastRun

=============================================================================
