---------------------------- MODULE AccountProofs ----------------------------
(* A firm's account, for any number of requests, users, replicas, events    *)
(* and runs.  The definitions proved about are those of Billing, AiQuota,   *)
(* EntitlementCache, Members and TitleReport, which MCAccount instantiates  *)
(* as B, Q, K, M and T.                                                     *)
EXTENDS MCAccount, TLAPS, FiniteSetTheorems

\* Every step of the whole is one of each part, or leaves it as it is.
LEMMA AccountSteps ==
    ASSUME [Next]_vars
    PROVE  /\ [B!Next]_(B!billVars)
           /\ [Q!Next]_(Q!quotaVars)
           /\ [K!Next]_(K!cacheVars)
           /\ [M!Next]_(M!memberVars)
           /\ [T!Next]_(T!reportVars)
<1>1. [B!Next]_(B!billVars)
  BY DEF Next, vars, Bill, Draft, Serve, Member, Report, billVars, B!billVars
<1>2. [Q!Next]_(Q!quotaVars)
  BY DEF Next, vars, Bill, Draft, Serve, Member, Report, quotaVars, Q!quotaVars
<1>3. [K!Next]_(K!cacheVars)
  BY DEF Next, vars, Bill, Draft, Serve, Member, Report, cacheVars, K!cacheVars
<1>4. [M!Next]_(M!memberVars)
  BY DEF Next, vars, Bill, Draft, Serve, Member, Report, memberVars, M!memberVars
<1>5. [T!Next]_(T!reportVars)
  BY DEF Next, vars, Bill, Draft, Serve, Member, Report, titleVars, T!reportVars, T!headerVars, T!pastVars
<1>6. QED
  BY <1>1, <1>2, <1>3, <1>4, <1>5

-----------------------------------------------------------------------------
(* The members of a firm *)

\* Until something goes unguarded: an admin is there, one request at most is past
\* the count of the others, and those it counted are still there.
Counted ==
    unguarded \/
    /\ M!AdminAlways
    /\ \A r, q \in Requests : memberPc[r] = "update" /\ memberPc[q] = "update" => r = q
    /\ \A r \in Requests : memberPc[r] = "update" => M!OtherAdmins(loc[r].who) # {}

\* What the purge took is missing from accounts that are due, or came late.
Purged == lost \cap M!Present \subseteq due \cup late

MemberInv == M!TypeOK /\ Counted /\ Purged

-----------------------------------------------------------------------------
(* The quota *)

\* The generations that are being made.
Busy == {d \in Requests : draftPc[d] = "generate"}

\* Rows and generations under way count together against the cap.
Capped ==
    \A k \in Q!Months \ miscounted :
        made[k] + (IF k = month THEN Cardinality(Busy) ELSE 0) < monthly_cap + Cardinality(Requests)

QuotaInv ==
    /\ Q!TypeOK /\ Capped
    /\ monthly_cap = 0 => Busy = {}
    /\ \A k \in Q!Months : k > month => made[k] = 0 /\ k \notin miscounted

-----------------------------------------------------------------------------
(* The caches *)

\* Until when a version was the current one, as far as it is known now.
Since == [v \in K!Versions |-> IF v = version THEN now ELSE until[v]]

\* What was read was current when the request began to read, and what is stored
\* expires TTL later.
FillsAreOfLate ==
    \A f \in Requests : fill[f].read => fill[f].start <= Since[fill[f].version]
EntriesAreOfLate ==
    \A r \in Replicas : cache[r].expiresAt <=
        Since[cache[r].version] + TTL + (IF kind = "local" THEN cache[r].took ELSE 0)
NewsIsOnItsWayTo(r, x) == inbox[r] > 0 \/ writers # {} \/ x.excused
\* An old version that a request has read has its invalidation still to come.
FillsAreTold ==
    \A f \in Requests : fill[f].read /\ fill[f].version # version => NewsIsOnItsWayTo(fill[f].at, fill[f])

CacheTypes ==
    /\ kind \in K!Kinds /\ now \in 0 .. MaxTime
    /\ version \in K!Versions /\ until \in [K!Versions -> 0 .. MaxTime]
    /\ writers \subseteq Replicas /\ inbox \in [Replicas -> Nat]
    /\ cache \in [Replicas -> K!Entry] /\ fill \in [Requests -> K!Fill]
    /\ \A r \in Replicas : cache[r].version <= version
    /\ \A f \in Requests : /\ fill[f].version <= version /\ fill[f].start <= now
                           /\ fill[f].read => fill[f].at \in Replicas
    /\ \A v \in K!Versions : v < version => until[v] <= now

CacheInv ==
    /\ CacheTypes
    /\ FillsAreOfLate /\ EntriesAreOfLate
    /\ FillsAreTold /\ K!NewsIsOnItsWay

-----------------------------------------------------------------------------
(* The plan as the provider reports it *)

\* An event in a handler's hands is not logged, and in no other's.
HandledOnce ==
    \A h \in Requests :
        LET n == event[h] IN
        /\ hookPc[h] = "idle" <=> n = 0
        /\ n \notin excused /\ n # 0 =>
              n \notin logged /\ \A g \in Requests \ {h} : event[g] # n

\* What was applied is logged, or in the hands of the handler that is to log it.
Logs ==
    \A n \in applied \ excused :
        n \in logged \/ \E h \in Requests : event[h] = n /\ hookPc[h] = "log"

BillInv ==
    /\ hookPc \in [Requests -> {"idle", "read", "update", "log"}]
    /\ event \in [Requests -> B!Numbers \cup {0}]
    /\ events \in Seq([sub : Subs, type : B!Types])
    /\ HandledOnce /\ Logs /\ B!AppliedOnce

\* The last number of a set; the applied events of a subscription, by type.
LastOf(n, S) == n \in S /\ \A m \in S : m <= n
Done(s, types) == applied \cap B!OfSub(s, types)
After == [active |-> "active", on_hold |-> "past_due", expired |-> "cancelled"]

\* A handler is at a step that its event's type leads to.
HandlersKnow ==
    \A h \in Requests :
        /\ hookPc[h] = "read" => events[event[h]].type \in {"on_hold", "cancelled", "expired"}
        /\ hookPc[h] = "update" => events[event[h]].type # "failed"

\* An event whose handler has come to the log has been applied.
LoggedAreDone ==
    \A n \in B!Numbers :
        events[n].type # "failed" /\ (n \in logged \/ \E h \in Requests : event[h] = n /\ hookPc[h] = "log")
        => n \in applied

\* Events of a subscription are applied in their order.
InOrder ==
    \A n \in applied : \A m \in B!OfSub(events[n].sub, B!Types \ {"failed"}) : m < n => m \in applied

\* The firm still has the subscription that a handler has read.
SameStill ==
    \A h \in Requests :
        hookPc[h] = "update" /\ events[event[h]].type # "active" => firm.sub = events[event[h]].sub

\* The firm has the last renewal and the last status of its subscription's
\* applied events.
FirmFollows ==
    firm.sub # Nobody =>
        /\ LastOf(firm.renewsAt, Done(firm.sub, {"active", "cancelled"}))
        /\ \E n \in B!Numbers :
              /\ LastOf(n, Done(firm.sub, {"active", "on_hold", "expired"}))
              /\ firm.status = After[events[n].type]

FirmInv ==
    /\ applied \subseteq B!Numbers /\ logged \subseteq B!Numbers
    /\ firm \in [status : {"trial", "active", "past_due", "cancelled"}, sub : Subs \cup {Nobody}, renewsAt : Nat]
    /\ HandlersKnow /\ LoggedAreDone
    /\ disorder \/ (InOrder /\ SameStill /\ FirmFollows)

-----------------------------------------------------------------------------
(* A title report *)

Labels == {"idle", "transition", "start", "analyse", "replace", "commit", "finish", "opine", "mirror"}
Tasks == [pc : Labels, run : 0 .. MaxAiRuns, spoilt : BOOLEAN, seen : SUBSET (0 .. MaxAiRuns),
          opines : BOOLEAN, to : DOMAIN T!VALID_TRANSITIONS]
Opining == [T!Idle EXCEPT !.pc = "opine", !.opines = TRUE]

Rows == [from : 0 .. MaxAiRuns, blocker : BOOLEAN, settled : BOOLEAN]
Records == [type : {"defects", "opinion"}, status : {"running", "done", "failed"}]
TitleTypes == defects \subseteq Rows /\ aiRuns \in Seq(Records) /\ task \in [Requests -> Tasks]

Analyses == {"analyse", "replace", "commit", "finish"}
Froms == {d.from : d \in {d \in defects : d.from # 0}}

\* As long as analyses do not overlap: the one that runs is the last, and what
\* earlier ones found is gone when it inserts what it has found.
OneRun ==
    /\ \A h, g \in T!Analysing : h = g
    /\ \A h \in T!Analysing :
          /\ task[h].run \in T!Runs("defects")
          /\ \A i \in T!Runs("defects") : i <= task[h].run
    /\ \A h \in Requests :
          /\ task[h].pc = "commit" => Froms \subseteq task[h].seen
          /\ task[h].pc = "finish" => Froms \subseteq {task[h].run}
    /\ \A f \in Froms : \A i \in T!Stored : i <= f

TitleInv ==
    /\ TitleTypes
    /\ \A h \in Requests : 0 \notin task[h].seen
    /\ byHand => \E d \in defects : d.from = 0
    /\ overlapped \/ failed \/ OneRun

-----------------------------------------------------------------------------
(* Proofs: the members *)

LEMMA MemberTypes == M!TypeOK /\ [M!Next]_(M!memberVars) => (M!TypeOK)'
<1> SUFFICES ASSUME M!TypeOK, [M!Next]_(M!memberVars) PROVE (M!TypeOK)'
  OBVIOUS
<1> DEFINE Local == [who : Users \cup {Nobody}, what : M!Lessens \cup {"none"}]
           Steps == {"idle", "count", "update", "undelete"}
           Statuses == {"active", "suspended", "deactivated", "gone"}
<1>t. /\ admins \subseteq Users /\ asked \subseteq Users /\ due \subseteq asked
      /\ status \in [Users -> Statuses] /\ memberPc \in [Requests -> Steps] /\ loc \in [Requests -> Local]
      /\ purging \in BOOLEAN /\ unguarded \in BOOLEAN /\ lost \subseteq Users /\ late \subseteq Users
  BY DEF M!TypeOK
<1> DEFINE Sets == /\ admins' \subseteq Users /\ asked' \subseteq Users /\ due' \subseteq asked'
                   /\ lost' \subseteq Users /\ late' \subseteq Users
                   /\ purging' \in BOOLEAN /\ unguarded' \in BOOLEAN
           Works == memberPc' \in [Requests -> Steps] /\ loc' \in [Requests -> Local]
           Known == status' \in [Users -> Statuses]
<1>q. ASSUME Sets, Works, Known PROVE (M!TypeOK)'
  BY <1>q DEF M!TypeOK
<1>s. ASSUME NEW r \in Requests, NEW l \in Steps, NEW u \in Users, NEW c \in M!Lessens \cup {"none"},
             M!Start(r, l, u, c)
      PROVE  Works
  BY <1>s, <1>t DEF M!Start
<1>r. ASSUME NEW r \in Requests, M!Return(r) PROVE Works
  <2>1. M!NoLoc \in Local
    BY DEF M!NoLoc
  <2>2. QED
    BY <1>r, <1>t, <2>1 DEF M!Return
<1>c. ASSUME NEW u \in Users \cup {Nobody}, NEW c, M!Changed(u, c) PROVE admins' \subseteq Users /\ Known
  <2>1. admins' \subseteq Users
    BY <1>c, <1>t DEF M!Changed, M!Present
  <2>2. status' \in [Users -> Statuses]
    BY <1>c, <1>t DEF M!Changed, M!Present
  <2>3. QED
    BY <2>1, <2>2
<1>1. ASSUME NEW r \in Requests, NEW u \in Users, NEW c \in M!Lessens, M!BeginUpdate(r, u, c)
      PROVE  (M!TypeOK)'
  <2>1. Works
    BY <1>1, <1>s DEF M!BeginUpdate
  <2>2. Sets /\ Known
    BY <1>1, <1>t DEF M!BeginUpdate
  <2>3. QED
    BY <1>q, <2>1, <2>2
<1>2. ASSUME NEW u \in Users, NEW c \in M!Changes, M!Raise(u, c) \/ M!PlatformUpdate(u, c)
      PROVE  (M!TypeOK)'
  <2>1. Works /\ Known
    BY <1>2, <1>c, <1>t DEF M!Raise, M!PlatformUpdate
  <2>2. Sets
    BY <1>2, <1>c, <1>t DEF M!Raise, M!PlatformUpdate
  <2>3. QED
    BY <1>q, <2>1, <2>2
<1>3. ASSUME NEW r \in Requests, M!CountOthers(r) PROVE (M!TypeOK)'
  <2>1. Works
    BY <1>3, <1>r, <1>t DEF M!CountOthers
  <2>2. Sets /\ Known
    BY <1>3, <1>t DEF M!CountOthers
  <2>3. QED
    BY <1>q, <2>1, <2>2
<1>4. ASSUME NEW r \in Requests, M!Update(r) PROVE (M!TypeOK)'
  <2>1. Works /\ loc[r].who \in Users \cup {Nobody}
    BY <1>4, <1>r, <1>t DEF M!Update
  <2>2. admins' \subseteq Users /\ Known
    BY <1>4, <1>c, <2>1 DEF M!Update
  <2>3. Sets
    BY <1>4, <1>t, <2>2 DEF M!Update
  <2>4. QED
    BY <1>q, <2>1, <2>2, <2>3
<1>5. ASSUME NEW u \in Users, M!PlatformDelete(u) \/ M!RequestDeletion(u) \/ M!Deadline(u)
      PROVE  (M!TypeOK)'
  <2>1. Works /\ Known
    BY <1>5, <1>t DEF M!PlatformDelete, M!RequestDeletion, M!Deadline
  <2>2. Sets
    BY <1>5, <1>t DEF M!PlatformDelete, M!RequestDeletion, M!Deadline
  <2>3. QED
    BY <1>q, <2>1, <2>2
<1>6. ASSUME NEW r \in Requests, NEW u \in Users, M!BeginCancel(r, u) PROVE (M!TypeOK)'
  <2>1. Works
    BY <1>6, <1>s DEF M!BeginCancel
  <2>2. Sets /\ Known
    BY <1>6, <1>t DEF M!BeginCancel
  <2>3. QED
    BY <1>q, <2>1, <2>2
<1>7. ASSUME NEW r \in Requests, M!Undelete(r) PROVE (M!TypeOK)'
  <2>1. Works
    BY <1>7, <1>r DEF M!Undelete
  <2>2. Sets /\ Known
    BY <1>7, <1>t DEF M!Undelete, M!TakenBack, M!Present
  <2>3. QED
    BY <1>q, <2>1, <2>2
<1>8. ASSUME M!PurgeDrafts \/ M!PurgeUsers PROVE (M!TypeOK)'
  <2>1. Works /\ Known
    BY <1>8, <1>t DEF M!PurgeDrafts, M!PurgeUsers
  <2>2. Sets
    BY <1>8, <1>t DEF M!PurgeDrafts, M!PurgeUsers, M!Due
  <2>3. QED
    BY <1>q, <2>1, <2>2
<1>9. CASE UNCHANGED M!memberVars
  BY <1>9 DEF M!memberVars, M!TypeOK
<1>10. QED
  BY <1>1, <1>2, <1>3, <1>4, <1>5, <1>6, <1>7, <1>8, <1>9 DEF M!Next

\* As long as no active admin is lost, every count stays right.
LEMMA CountStays ==
    ASSUME Counted, ~unguarded' => ~unguarded,
           admins \cap M!Active \subseteq admins' \cap (M!Active)',
           \A r \in Requests : memberPc'[r] = "update" => memberPc[r] = "update" /\ loc'[r] = loc[r]
    PROVE  Counted'
BY DEF Counted, M!AdminAlways, M!OtherAdmins

LEMMA CountedNext == M!TypeOK /\ Counted /\ [M!Next]_(M!memberVars) => Counted'
<1> SUFFICES ASSUME M!TypeOK, Counted, [M!Next]_(M!memberVars) PROVE Counted'
  OBVIOUS
<1>t. /\ admins \subseteq Users /\ asked \subseteq Users /\ due \subseteq asked
      /\ status \in [Users -> {"active", "suspended", "deactivated", "gone"}]
      /\ memberPc \in [Requests -> {"idle", "count", "update", "undelete"}]
      /\ DOMAIN loc = Requests
  BY DEF M!TypeOK
<1>a. M!Active = {u \in Users : status[u] = "active"} /\ (M!Active)' = {u \in Users : status'[u] = "active"}
  BY DEF M!Active
<1>1. ASSUME NEW r \in Requests, NEW u \in Users, NEW c \in M!Lessens, M!BeginUpdate(r, u, c)
      PROVE  Counted'
  <2>1. UNCHANGED <<admins, status>> /\ memberPc[r] = "idle" /\ loc'[r].who = u
        /\ \A q \in Requests \ {r} : memberPc'[q] = memberPc[q] /\ loc'[q] = loc[q]
    BY <1>1, <1>t DEF M!BeginUpdate, M!Start
  <2>2. CASE M!Guarded(u, c)
    <3>1. memberPc'[r] = "count"
      BY <1>1, <1>t, <2>2 DEF M!BeginUpdate, M!Start
    <3>2. ~unguarded' => ~unguarded
      BY <1>1 DEF M!BeginUpdate
    <3>3. QED
      BY <1>a, <2>1, <3>1, <3>2, CountStays
  <2>3. CASE ~M!Guarded(u, c)
    <3>1. memberPc'[r] = "update" /\ u \notin admins
      BY <1>1, <1>t, <2>3 DEF M!BeginUpdate, M!Start, M!Guarded, M!Lessens
    <3>2. ~unguarded' => ~unguarded /\ \A q \in Requests : memberPc[q] # "update"
      BY <1>1, <2>3 DEF M!BeginUpdate, M!Lessening
    <3>3. CASE unguarded'
      BY <3>3 DEF Counted
    <3>4. CASE ~unguarded'
      <4>1. admins \cap M!Active # {} /\ admins' = admins /\ (M!Active)' = M!Active
        BY <1>a, <2>1, <3>2, <3>4 DEF Counted, M!AdminAlways
      <4>2. \A q \in Requests : memberPc'[q] = "update" => q = r
        BY <2>1, <3>2, <3>4
      <4>3. QED
        BY <2>1, <3>1, <4>1, <4>2 DEF Counted, M!AdminAlways, M!OtherAdmins
    <3>5. QED
      BY <3>3, <3>4
  <2>4. QED
    BY <2>2, <2>3
<1>2. ASSUME NEW u \in Users, NEW c \in M!Changes, M!Raise(u, c) PROVE Counted'
  <2>1. admins \subseteq admins' /\ M!Active \subseteq (M!Active)'
    BY <1>2, <1>a, <1>t DEF M!Raise, M!Changed, M!Changes, M!Lessens
  <2>2. (~unguarded' => ~unguarded) /\ UNCHANGED <<memberPc, loc>>
    BY <1>2 DEF M!Raise
  <2>3. QED
    BY <2>1, <2>2, CountStays
<1>3. ASSUME NEW u \in Users, NEW c \in M!Changes, M!PlatformUpdate(u, c) PROVE Counted'
  <2>1. admins' = admins /\ (c = "suspend" => u \notin admins) /\ c \in {"suspend", "reactivate"}
    BY <1>3 DEF M!PlatformUpdate, M!Changed, M!Guarded
  <2>2. admins \cap M!Active \subseteq admins' \cap (M!Active)'
    BY <1>3, <1>a, <1>t, <2>1 DEF M!PlatformUpdate, M!Changed
  <2>3. UNCHANGED <<memberPc, loc, unguarded>>
    BY <1>3 DEF M!PlatformUpdate
  <2>4. QED
    BY <2>2, <2>3, CountStays
<1>4. ASSUME NEW r \in Requests, M!CountOthers(r) PROVE Counted'
  <2>1. UNCHANGED <<admins, status>> /\ \A q \in Requests \ {r} : memberPc'[q] = memberPc[q] /\ loc'[q] = loc[q]
    BY <1>4, <1>t DEF M!CountOthers, M!Return
  <2>2. CASE M!OtherAdmins(loc[r].who) = {}
    <3>1. memberPc'[r] = "idle" /\ unguarded' = unguarded
      BY <1>4, <1>t, <2>2 DEF M!CountOthers, M!Return
    <3>2. QED
      BY <1>a, <2>1, <3>1, CountStays
  <2>3. CASE M!OtherAdmins(loc[r].who) # {}
    <3>1. loc' = loc /\ unguarded' = (unguarded \/ M!Lessening) /\ memberPc[r] = "count"
      BY <1>4, <2>3 DEF M!CountOthers
    <3>2. QED
      BY <1>a, <2>1, <2>3, <3>1 DEF Counted, M!Lessening, M!AdminAlways, M!OtherAdmins
  <2>4. QED
    BY <2>2, <2>3
<1>5. ASSUME NEW r \in Requests, M!Update(r) PROVE Counted'
  <2>1. /\ memberPc[r] = "update" /\ memberPc'[r] = "idle" /\ unguarded' = unguarded
        /\ \A q \in Requests \ {r} : memberPc'[q] = memberPc[q]
    BY <1>5, <1>t DEF M!Update, M!Return
  <2>2. loc[r].what \in M!Lessens \cup {"none"}
    BY DEF M!TypeOK
  <2>3. (admins \cap M!Active) \ {loc[r].who} \subseteq admins' \cap (M!Active)'
    BY <1>5, <1>a, <1>t, <2>2 DEF M!Update, M!Changed, M!Lessens
  <2>4. QED
    BY <2>1, <2>3 DEF Counted, M!AdminAlways, M!OtherAdmins
<1>6. ASSUME NEW u \in Users, M!PlatformDelete(u) \/ M!RequestDeletion(u) \/ M!Deadline(u)
      PROVE  Counted'
  <2>1. UNCHANGED <<admins, memberPc, loc>>
    BY <1>6 DEF M!PlatformDelete, M!RequestDeletion, M!Deadline
  <2>0. ~unguarded' => ~unguarded
    BY <1>6, Zenon DEF M!PlatformDelete, M!RequestDeletion, M!Deadline
  <2>2. ASSUME ~unguarded' PROVE admins \cap M!Active \subseteq admins' \cap (M!Active)'
    BY <1>6, <1>a, <1>t, <2>2 DEF M!PlatformDelete, M!RequestDeletion, M!Deadline
  <2>3. CASE unguarded'
    BY <2>3 DEF Counted
  <2>4. QED
    BY <2>0, <2>1, <2>2, <2>3, CountStays
<1>7. ASSUME NEW r \in Requests, NEW u \in Users, M!BeginCancel(r, u) PROVE Counted'
  <2>1. /\ UNCHANGED <<admins, status, unguarded>> /\ memberPc'[r] = "undelete"
        /\ \A q \in Requests \ {r} : memberPc'[q] = memberPc[q] /\ loc'[q] = loc[q]
    BY <1>7, <1>t DEF M!BeginCancel, M!Start
  <2>2. QED
    BY <1>a, <2>1, CountStays
<1>8. ASSUME NEW r \in Requests, M!Undelete(r) PROVE Counted'
  <2>1. /\ UNCHANGED <<admins, unguarded>> /\ memberPc'[r] = "idle"
        /\ \A q \in Requests \ {r} : memberPc'[q] = memberPc[q] /\ loc'[q] = loc[q]
    BY <1>8, <1>t DEF M!Undelete, M!Return
  <2>2. M!Active \subseteq (M!Active)'
    BY <1>8, <1>a, <1>t DEF M!Undelete, M!TakenBack
  <2>3. QED
    BY <2>1, <2>2, CountStays
<1>9. CASE M!PurgeUsers
  <2>1. UNCHANGED <<memberPc, loc>> /\ unguarded' = (unguarded \/ admins \cap due # {})
    BY <1>9 DEF M!PurgeUsers, M!Due
  <2>2. ASSUME ~unguarded' PROVE admins \cap M!Active \subseteq admins' \cap (M!Active)'
    BY <1>9, <1>a, <1>t, <2>1, <2>2 DEF M!PurgeUsers, M!Due
  <2>3. CASE unguarded'
    BY <2>3 DEF Counted
  <2>4. QED
    BY <2>1, <2>2, <2>3, CountStays
<1>10. CASE UNCHANGED <<admins, status, memberPc, loc, unguarded>>
  BY <1>10, <1>a, CountStays
<1>11. QED
  BY <1>1, <1>2, <1>3, <1>4, <1>5, <1>6, <1>7, <1>8, <1>9, <1>10
     DEF M!Next, M!PurgeDrafts, M!memberVars

LEMMA PurgedNext == M!TypeOK /\ Purged /\ [M!Next]_(M!memberVars) => Purged'
<1> SUFFICES ASSUME M!TypeOK, Purged, [M!Next]_(M!memberVars),
                    NEW u \in Users, u \in lost', status'[u] # "gone", u \notin due'
             PROVE  u \in late'
  BY DEF Purged, M!Present
<1>t. /\ due \subseteq asked /\ asked \subseteq Users
      /\ status \in [Users -> {"active", "suspended", "deactivated", "gone"}]
      /\ u \in lost /\ status[u] # "gone" => u \in due \cup late
  BY DEF M!TypeOK, Purged, M!Present
<1>1. CASE \E v \in Users, c \in M!Changes : M!Raise(v, c) \/ M!PlatformUpdate(v, c)
  BY <1>1, <1>t DEF M!Raise, M!PlatformUpdate, M!Changed, M!Present
<1>2. CASE \E r \in Requests : M!Update(r)
  BY <1>2, <1>t DEF M!Update, M!Changed, M!Present
<1>3. CASE \E v \in Users : M!PlatformDelete(v) \/ M!RequestDeletion(v) \/ M!Deadline(v)
  BY <1>3, <1>t DEF M!PlatformDelete, M!RequestDeletion, M!Deadline, M!Present
<1>4. CASE \E r \in Requests : M!Undelete(r)
  BY <1>4, <1>t DEF M!Undelete, M!TakenBack, M!Present
<1>5. CASE M!PurgeDrafts \/ M!PurgeUsers
  BY <1>5, <1>t DEF M!PurgeDrafts, M!PurgeUsers, M!Due
<1>6. CASE UNCHANGED <<lost, status, due, late>>
  BY <1>6, <1>t
<1>7. QED
  BY <1>1, <1>2, <1>3, <1>4, <1>5, <1>6
     DEF M!Next, M!BeginUpdate, M!CountOthers, M!BeginCancel, M!memberVars

LEMMA MemberNext == MemberInv /\ [Next]_vars => MemberInv'
  BY AccountSteps, MemberTypes, CountedNext, PurgedNext DEF MemberInv

LEMMA MemberInit == M!Init => MemberInv
<1> SUFFICES ASSUME M!Init PROVE MemberInv
  OBVIOUS
<1>1. M!NoLoc \in [who : Users \cup {Nobody}, what : M!Lessens \cup {"none"}]
  BY DEF M!NoLoc
<1>2. M!TypeOK
  BY <1>1 DEF M!Init, M!TypeOK
<1>3. Counted
  <2>1. admins # {} /\ admins \subseteq Users /\ \A u \in Users : status[u] = "active"
    <3>1. admins \in SUBSET Users /\ admins \notin {{}}
      BY Zenon DEF M!Init
    <3>2. status = [u \in Users |-> "active"]
      BY DEF M!Init
    <3>3. QED
      BY <3>1, <3>2
  <2>2. admins \cap M!Active # {}
    BY <2>1 DEF M!Active
  <2>3. \A r \in Requests : memberPc[r] # "update"
    BY DEF M!Init
  <2>4. QED
    BY <2>2, <2>3 DEF Counted, M!AdminAlways
<1>4. Purged
  BY DEF M!Init, Purged
<1>5. QED
  BY <1>2, <1>3, <1>4 DEF MemberInv

LEMMA MembersKept == Spec => []MemberInv
<1>1. Init => MemberInv
  BY MemberInit DEF Init
<1>2. QED
  BY <1>1, MemberNext, PTL DEF Spec

\* Whatever the firm's admins and the platform change about roles and statuses,
\* and whoever is erased, an active Firm Admin remains (updateUser of
\* firm-admin.service.ts counts the others before it takes one away), unless a
\* second change was on its way or an admin left by erasure, which counts nobody.
THEOREM AnAdminRemains == Spec => []AdminRemains
<1>1. MemberInv => AdminRemains
  BY DEF MemberInv, Counted, AdminRemains, M!AdminRemains
<1>2. QED
  BY <1>1, MembersKept, PTL

\* A member who took the erasure back in time has lost nothing to the purge that
\* runs beside it (cancelDeletion, purgeDueDeletions).
THEOREM TakenBackInTimeIsWhole == Spec => []TakenBackIsWhole
<1>1. MemberInv => TakenBackIsWhole
  BY DEF MemberInv, Purged, M!TypeOK, TakenBackIsWhole, M!TakenBackIsWhole
<1>2. QED
  BY <1>1, MembersKept, PTL

-----------------------------------------------------------------------------
(* Proofs: the quota *)

LEMMA QuotaCardinality == ASSUME NEW S_ PROVE Q!Cardinality(S_) = Cardinality(S_)
  BY DEF Q!Cardinality, Cardinality

\* How the generations that are being made change in number.
LEMMA BusyGrows ==
    ASSUME draftPc \in [Requests -> {"idle", "generate"}], NEW d \in Requests
    PROVE  /\ Cardinality(Busy) \in Nat /\ Cardinality(Requests) \in Nat
           /\ Cardinality(Busy) <= Cardinality(Requests)
           /\ draftPc' = [draftPc EXCEPT ![d] = "generate"] =>
                 /\ Cardinality(Busy') \in Nat /\ Cardinality(Busy') <= Cardinality(Requests)
           /\ draftPc[d] = "generate" /\ draftPc' = [draftPc EXCEPT ![d] = "idle"] =>
                 /\ Cardinality(Busy') = Cardinality(Busy) - 1
                 /\ Busy' \subseteq Busy
<1>f. IsFiniteSet(Requests)
  BY AccountAssumption
<1>1. /\ IsFiniteSet(Busy) /\ Cardinality(Busy) \in Nat /\ Cardinality(Requests) \in Nat
      /\ Cardinality(Busy) <= Cardinality(Requests)
  <2>1. Busy \subseteq Requests
    BY DEF Busy
  <2>2. QED
    BY <1>f, <2>1, FS_Subset, FS_CardinalityType
<1>2. /\ Cardinality(Busy') \in Nat /\ Cardinality(Busy') <= Cardinality(Requests)
  <2>1. Busy' \subseteq Requests
    BY DEF Busy
  <2>2. QED
    BY <1>f, <2>1, FS_Subset, FS_CardinalityType
<1>3. ASSUME draftPc[d] = "generate", draftPc' = [draftPc EXCEPT ![d] = "idle"]
      PROVE  Cardinality(Busy') = Cardinality(Busy) - 1 /\ Busy' \subseteq Busy
  <2>1. d \in Busy /\ Busy' = Busy \ {d}
    BY <1>3 DEF Busy
  <2>2. QED
    BY <1>1, <2>1, FS_RemoveElement
<1>4. QED
  BY <1>1, <1>2, <1>3

LEMMA QuotaNext == QuotaInv /\ [Q!Next]_(Q!quotaVars) => QuotaInv'
<1> SUFFICES ASSUME QuotaInv, [Q!Next]_(Q!quotaVars) PROVE QuotaInv'
  OBVIOUS
<1> DEFINE b == Cardinality(Busy)  n == Cardinality(Requests)
           Dates == {Nobody} \cup Q!Dates
<1>t. /\ month \in Q!Months /\ firstDay \in BOOLEAN /\ renewsAt \in Dates
      /\ made \in [Q!Months -> 0 .. MaxMade] /\ draftPc \in [Requests -> {"idle", "generate"}]
      /\ miscounted \subseteq Q!Months
  BY DEF QuotaInv, Q!TypeOK
<1>n. /\ Q!Months = 0 .. MaxMonths /\ MaxMonths \in Nat /\ MaxMade \in Nat /\ monthly_cap \in Nat
      /\ IsFiniteSet(Requests) /\ Terms \subseteq Nat \ {0}
  BY AccountAssumption DEF Q!Months
<1>m. month \in Nat /\ month <= MaxMonths /\ \A k \in Q!Months : k \in Nat /\ k <= MaxMonths /\ made[k] \in Nat
  BY <1>n, <1>t
<1>b. b \in Nat /\ n \in Nat /\ b <= n /\ n > 0
  <2>1. PICK d \in Requests : TRUE
    BY AccountAssumption
  <2>2. b \in Nat /\ n \in Nat /\ b <= n
    BY <1>t, <2>1, BusyGrows
  <2>3. n # 0
    BY <1>n, <2>1, FS_EmptySet
  <2>4. QED
    BY <2>2, <2>3
<1>i. /\ \A k \in Q!Months \ miscounted : made[k] + (IF k = month THEN b ELSE 0) < monthly_cap + n
      /\ monthly_cap = 0 => Busy = {}
      /\ \A k \in Q!Months : k > month => made[k] = 0 /\ k \notin miscounted
  BY DEF QuotaInv, Capped
<1>c. \A k \in Q!Months \ miscounted : made[k] < monthly_cap + n
  BY <1>b, <1>i, <1>m, <1>n
<1>1. ASSUME NEW d \in Requests, Q!Generate(d) PROVE QuotaInv'
  <2>1. /\ UNCHANGED <<month, firstDay, renewsAt, made>> /\ draftPc' = [draftPc EXCEPT ![d] = "generate"]
        /\ Q!used < monthly_cap
        /\ miscounted' = IF Q!Cycle = month THEN miscounted ELSE miscounted \cup {month}
    BY <1>1 DEF Q!Generate, Q!MayGenerate
  <2>2. Cardinality(Busy') \in Nat /\ Cardinality(Busy') <= n
    BY <1>t, <2>1, BusyGrows
  <2>3. month \notin miscounted' => made[month] < monthly_cap
    BY <1>t, <2>1 DEF Q!used
  <2>4. Capped'
    <3>1. SUFFICES ASSUME NEW k \in Q!Months, k \notin miscounted'
                   PROVE  made'[k] + (IF k = month' THEN Cardinality(Busy') ELSE 0) < monthly_cap + n
      BY DEF Capped
    <3>2. CASE k = month
      BY <1>b, <1>m, <1>n, <2>1, <2>2, <2>3, <3>1, <3>2
    <3>3. CASE k # month
      BY <1>c, <1>m, <2>1, <3>1, <3>3
    <3>4. QED
      BY <3>2, <3>3
  <2>5. monthly_cap # 0
    <3>1. Q!used \in Nat
      BY <1>m DEF Q!used
    <3>2. QED
      BY <1>n, <2>1, <3>1
  <2>6. \A k \in Q!Months : k > month' => made'[k] = 0 /\ k \notin miscounted'
    BY <1>i, <1>m, <2>1
  <2>7. (Q!TypeOK)'
    BY <1>t, <2>1 DEF Q!TypeOK
  <2>8. QED
    BY <2>4, <2>5, <2>6, <2>7 DEF QuotaInv
<1>2. ASSUME NEW d \in Requests, Q!Record(d) \/ Q!NotRecorded(d) PROVE QuotaInv'
  <2>1. /\ UNCHANGED <<month, firstDay, renewsAt, miscounted>>
        /\ draftPc[d] = "generate" /\ draftPc' = [draftPc EXCEPT ![d] = "idle"]
    BY <1>2 DEF Q!Record, Q!NotRecorded
  <2>2. Cardinality(Busy') = b - 1 /\ Busy' \subseteq Busy
    BY <1>t, <2>1, BusyGrows
  <2>3. \/ made' = made
        \/ made[month] < MaxMade /\ made' = [made EXCEPT ![month] = made[month] + 1]
    BY <1>2 DEF Q!Record, Q!NotRecorded
  <2>4. /\ made' \in [Q!Months -> 0 .. MaxMade]
        /\ \A k \in Q!Months \ {month} : made'[k] = made[k]
        /\ made'[month] \in {made[month], made[month] + 1}
    <3>1. CASE made' = made
      BY <1>t, <3>1
    <3>2. CASE made[month] < MaxMade /\ made' = [made EXCEPT ![month] = made[month] + 1]
      BY <1>m, <1>n, <1>t, <3>2
    <3>3. QED
      BY <2>3, <3>1, <3>2
  <2>5. Capped'
    <3>1. SUFFICES ASSUME NEW k \in Q!Months \ miscounted
                   PROVE  made'[k] + (IF k = month THEN b - 1 ELSE 0) < monthly_cap + n
      BY <2>1, <2>2 DEF Capped
    <3>2. CASE k = month
      <4>1. made[month] + b < monthly_cap + n
        BY <1>i, <3>1, <3>2
      <4>2. made'[month] <= made[month] + 1 /\ made[month] \in Nat /\ made'[month] \in Nat
        BY <1>m, <1>n, <2>4
      <4>3. made'[month] + (b - 1) < monthly_cap + n
        <5>1. ASSUME NEW x \in Nat, NEW y \in Nat, NEW u \in Nat, NEW v \in Nat, NEW k_ \in Nat,
                     y <= x + 1, x + u < v + k_
              PROVE  y + (u - 1) < v + k_
          BY <5>1
        <5>2. b \in Nat /\ n \in Nat /\ monthly_cap \in Nat
          BY <1>b, <1>n
        <5> HIDE DEF b, n
        <5>3. QED
          BY <4>1, <4>2, <5>1, <5>2
      <4>4. QED
        BY <3>2, <4>3
    <3>3. CASE k # month
      BY <1>c, <1>m, <2>4, <3>1, <3>3
    <3>4. QED
      BY <3>2, <3>3
  <2>6. (Q!TypeOK)'
    BY <1>t, <2>1, <2>4 DEF Q!TypeOK
  <2>7. \A k \in Q!Months : k > month' => made'[k] = 0 /\ k \notin miscounted'
    BY <1>i, <1>m, <2>1, <2>4
  <2>8. monthly_cap = 0 => Busy' = {}
    BY <1>i, <2>2
  <2>9. QED
    BY <2>5, <2>6, <2>7, <2>8 DEF QuotaInv
<1>3. ASSUME NEW t \in Terms, Q!Renewed(t) PROVE QuotaInv'
  <2>1. renewsAt' = month + t /\ UNCHANGED <<month, firstDay, made, draftPc, miscounted>>
    BY <1>3 DEF Q!Renewed
  <2>2. renewsAt' \in Dates
    BY <1>t, <2>1 DEF Q!Dates
  <2>3. Busy' = Busy
    BY <2>1 DEF Busy
  <2>4. QED
    BY <1>i, <1>t, <2>1, <2>2, <2>3 DEF QuotaInv, Q!TypeOK, Capped
<1>4. CASE Q!NextDay
  <2>1. /\ UNCHANGED <<renewsAt, made, draftPc, miscounted>> /\ firstDay' \in BOOLEAN
        /\ month' = month \/ (month < MaxMonths /\ month' = month + 1)
    BY <1>4 DEF Q!NextDay
  <2>2. month' \in Q!Months /\ Busy' = Busy
    BY <1>m, <1>n, <1>t, <2>1 DEF Busy
  <2>3. (Q!TypeOK)'
    BY <1>t, <2>1, <2>2 DEF Q!TypeOK
  <2>4. \A k \in Q!Months : k > month' => made'[k] = 0 /\ k \notin miscounted'
    BY <1>i, <1>m, <2>1
  <2>5. Capped'
    <3>1. SUFFICES ASSUME NEW k \in Q!Months \ miscounted
                   PROVE  made[k] + (IF k = month' THEN b ELSE 0) < monthly_cap + n
      BY <2>1, <2>2 DEF Capped
    <3>2. CASE month' = month
      BY <1>i, <3>1, <3>2
    <3>3. CASE month' # month /\ k = month'
      <4>1. made[k] = 0
        BY <1>i, <1>m, <2>1, <3>3
      <4>2. b < monthly_cap + n
        <5>1. CASE monthly_cap = 0
          <6>1. b = 0
            BY <1>i, <5>1, FS_EmptySet
          <6>2. QED
            BY <1>b, <5>1, <6>1
        <5>2. CASE monthly_cap # 0
          BY <1>b, <1>n, <5>2
        <5>3. QED
          BY <5>1, <5>2
      <4>3. QED
        BY <1>b, <3>3, <4>1, <4>2
    <3>4. CASE k # month'
      BY <1>c, <1>m, <3>1, <3>4
    <3>5. QED
      BY <3>2, <3>3, <3>4
  <2>6. QED
    BY <1>i, <2>2, <2>3, <2>4, <2>5 DEF QuotaInv
<1>5. CASE UNCHANGED Q!quotaVars
  <2>1. UNCHANGED <<month, firstDay, renewsAt, made, draftPc, miscounted>>
    BY <1>5 DEF Q!quotaVars
  <2>2. Busy' = Busy
    BY <2>1 DEF Busy
  <2>3. QED
    BY <1>i, <1>t, <2>1, <2>2 DEF QuotaInv, Q!TypeOK, Capped
<1>6. QED
  BY <1>1, <1>2, <1>3, <1>4, <1>5 DEF Q!Next

LEMMA QuotaInit == Q!Init => QuotaInv
<1> SUFFICES ASSUME Q!Init PROVE QuotaInv
  OBVIOUS
<1>1. /\ month = 0 /\ firstDay \in BOOLEAN /\ renewsAt \in {Nobody} \cup Terms
      /\ made = [k \in Q!Months |-> 0] /\ draftPc = [d \in Requests |-> "idle"] /\ miscounted = {}
  BY DEF Q!Init
<1>2. 0 \in Q!Months /\ 0 \in 0 .. MaxMade /\ \A k \in Q!Months : k \in Nat
  BY AccountAssumption DEF Q!Months
<1>3. Terms \subseteq Q!Dates
  <2>1. \A t \in Terms : 0 + t = t
    BY AccountAssumption
  <2>2. QED
    BY <1>2, <2>1 DEF Q!Dates
<1>4. Q!TypeOK
  BY <1>1, <1>2, <1>3 DEF Q!TypeOK
<1>5. Busy = {}
  BY <1>1 DEF Busy
<1>6. Cardinality(Busy) = 0 /\ Cardinality(Requests) \in Nat \ {0}
  BY <1>5, AccountAssumption, FS_EmptySet, FS_CardinalityType
<1>7. Capped
  BY <1>1, <1>6, AccountAssumption DEF Capped
<1>8. QED
  BY <1>1, <1>4, <1>5, <1>7 DEF QuotaInv

\* The cap on a user's AI generations is not exceeded by as many as run at the same
\* time (assertCanGenerate, record), whatever the cap, zero included, and however
\* plans are renewed, in every month whose own rows were counted.
THEOREM CapIsKept == Spec => []CapKept
<1>1. Init => QuotaInv
  BY QuotaInit DEF Init
<1>2. QuotaInv /\ [Next]_vars => QuotaInv'
  BY AccountSteps, QuotaNext
<1>3. QuotaInv => CapKept
  <2> SUFFICES ASSUME QuotaInv, NEW k \in Q!Months \ miscounted
               PROVE  made[k] < monthly_cap + Cardinality(Requests)
    BY QuotaCardinality DEF CapKept, Q!CapKept
  <2>1. made[k] + (IF k = month THEN Cardinality(Busy) ELSE 0) < monthly_cap + Cardinality(Requests)
    BY DEF QuotaInv, Capped
  <2>2. Cardinality(Busy) \in Nat /\ Cardinality(Requests) \in Nat
    BY AccountAssumption, BusyGrows DEF QuotaInv, Q!TypeOK
  <2>3. made[k] \in Nat /\ monthly_cap \in Nat
    BY AccountAssumption DEF QuotaInv, Q!TypeOK
  <2>4. QED
    BY <2>1, <2>2, <2>3
<1>4. QED
  BY <1>1, <1>2, <1>3, PTL DEF Spec

-----------------------------------------------------------------------------
(* Proofs: the caches *)

LEMMA EntryExcused ==
    ASSUME NEW e \in K!Entry, NEW x \in BOOLEAN
    PROVE  LET d == [e EXCEPT !.excused = x] IN
           /\ d \in K!Entry /\ d.excused = x
           /\ d.version = e.version /\ d.expiresAt = e.expiresAt /\ d.took = e.took
  BY DEF K!Entry

LEMMA FillExcused ==
    ASSUME NEW g \in K!Fill, NEW x \in BOOLEAN
    PROVE  LET d == [g EXCEPT !.excused = x] IN
           /\ d \in K!Fill /\ d.excused = x
           /\ d.at = g.at /\ d.start = g.start /\ d.version = g.version /\ d.read = g.read
  BY DEF K!Fill

LEMMA FillHasRead ==
    ASSUME NEW g \in K!Fill, NEW v \in K!Versions
    PROVE  LET d == [g EXCEPT !.version = v, !.read = TRUE] IN
           d \in K!Fill /\ d.at = g.at /\ d.start = g.start /\ d.version = v
  BY DEF K!Fill

LEMMA Nothing ==
    /\ K!NoEntry \in K!Entry /\ K!NoEntry.version = 0 /\ K!NoEntry.expiresAt = 0 /\ K!NoEntry.took = 0
    /\ K!NoFill \in K!Fill /\ ~K!NoFill.read /\ K!NoFill.version = 0 /\ K!NoFill.start = 0
    /\ K!NoFill.at = Nobody
  BY AccountAssumption DEF K!NoEntry, K!Entry, K!NoFill, K!Fill, K!Versions

\* What is marked in FillsExcused and CacheExcused, and that nothing else changes.
LEMMA ExcusedFills ==
    ASSUME CacheTypes, NEW R, NEW f \in Requests
    PROVE  LET d == K!FillsExcused(R)[f] IN
           /\ d \in K!Fill
           /\ d.at = fill[f].at /\ d.start = fill[f].start
           /\ d.version = fill[f].version /\ d.read = fill[f].read
           /\ fill[f].excused => d.excused
           /\ fill[f].at \in R /\ fill[f].read /\ fill[f].version # version => d.excused
<1> DEFINE x == fill[f].excused \/ (fill[f].at \in R /\ fill[f].read /\ fill[f].version # version)
<1>1. fill[f] \in K!Fill
  BY DEF CacheTypes
<1>2. x \in BOOLEAN
  BY Zenon
<1>3. K!FillsExcused(R)[f] = [fill[f] EXCEPT !.excused = x]
  BY DEF K!FillsExcused
<1> HIDE DEF x
<1>4. QED
  <2>1. LET d == [fill[f] EXCEPT !.excused = x] IN
        /\ d \in K!Fill /\ d.excused = x
        /\ d.at = fill[f].at /\ d.start = fill[f].start
        /\ d.version = fill[f].version /\ d.read = fill[f].read
    BY <1>1, <1>2, FillExcused
  <2>2. /\ fill[f].excused => x
        /\ fill[f].at \in R /\ fill[f].read /\ fill[f].version # version => x
    BY DEF x
  <2>3. QED
    BY <1>3, <2>1, <2>2

LEMMA ExcusedEntries ==
    ASSUME CacheTypes, NEW R, NEW r \in Replicas
    PROVE  LET d == K!CacheExcused(R)[r] IN
           /\ d \in K!Entry
           /\ d.version = cache[r].version /\ d.expiresAt = cache[r].expiresAt /\ d.took = cache[r].took
           /\ cache[r].excused => d.excused
           /\ r \in R /\ K!Live(r) /\ cache[r].version # version => d.excused
<1> DEFINE x == cache[r].excused \/ (r \in R /\ K!Live(r) /\ cache[r].version # version)
<1>1. cache[r] \in K!Entry
  BY DEF CacheTypes
<1>2. x \in BOOLEAN
  BY Zenon
<1>3. K!CacheExcused(R)[r] = [cache[r] EXCEPT !.excused = x]
  BY DEF K!CacheExcused
<1> HIDE DEF x
<1>4. QED
  <2>1. LET d == [cache[r] EXCEPT !.excused = x] IN
        /\ d \in K!Entry /\ d.excused = x
        /\ d.version = cache[r].version /\ d.expiresAt = cache[r].expiresAt /\ d.took = cache[r].took
    BY <1>1, <1>2, EntryExcused
  <2>2. /\ cache[r].excused => x
        /\ r \in R /\ K!Live(r) /\ cache[r].version # version => x
    BY DEF x
  <2>3. QED
    BY <1>3, <2>1, <2>2

\* What a step does to one entry and to one fill.
EntryStays(r) ==
    /\ cache'[r] \in K!Entry
    /\ cache'[r].version = cache[r].version /\ cache'[r].expiresAt = cache[r].expiresAt
    /\ cache'[r].took = cache[r].took
    /\ cache[r].excused => cache'[r].excused
EntryStored(r) ==
    \E f \in Requests :
        /\ fill[f].read /\ fill[f].at = r
        /\ cache'[r] = [version |-> fill[f].version, expiresAt |-> K!Expiry(f),
                        took |-> now - fill[f].start, excused |-> fill[f].excused]
FillStays(f) ==
    /\ fill'[f] \in K!Fill
    /\ fill'[f].at = fill[f].at /\ fill'[f].start = fill[f].start
    /\ fill'[f].version = fill[f].version /\ fill'[f].read = fill[f].read
    /\ fill[f].excused => fill'[f].excused
FillBegins(f) ==
    /\ fill'[f] \in K!Fill /\ ~fill'[f].read
    /\ fill'[f].start = now /\ fill'[f].version = 0
FillReads(f) ==
    /\ fill'[f] \in K!Fill /\ fill'[f].at = fill[f].at /\ fill[f].at \in Replicas
    /\ fill'[f].start = fill[f].start /\ fill'[f].version = version

\* The clock and the version only go forward, and a change is dated.
Forward ==
    /\ kind' = kind
    /\ \/ UNCHANGED <<now, version, until>>
       \/ now' = now + 1 /\ now < MaxTime /\ UNCHANGED <<version, until>>
       \/ version' = version + 1 /\ version < MaxVersion /\ now' = now /\ until' = [until EXCEPT ![version] = now]
Moved ==
    /\ Forward
    /\ DOMAIN cache' = Replicas /\ DOMAIN fill' = Requests
    /\ cache' = [r \in Replicas |-> cache'[r]] /\ fill' = [f \in Requests |-> fill'[f]]
    /\ \A r \in Replicas : EntryStays(r) \/ cache'[r] = K!NoEntry \/ EntryStored(r)
    /\ \A f \in Requests : FillStays(f) \/ fill'[f] = K!NoFill \/ FillBegins(f) \/ FillReads(f)

LEMMA CacheMoves == CacheTypes /\ [K!Next]_(K!cacheVars) => Moved
<1> SUFFICES ASSUME CacheTypes, [K!Next]_(K!cacheVars) PROVE Moved
  OBVIOUS
<1>t. /\ now \in 0 .. MaxTime /\ version \in K!Versions
      /\ cache \in [Replicas -> K!Entry] /\ fill \in [Requests -> K!Fill]
  BY DEF CacheTypes
<1>u. ASSUME UNCHANGED <<kind, now, version, until>> PROVE Forward
  BY <1>u DEF Forward
<1>c. ASSUME UNCHANGED cache
      PROVE  /\ DOMAIN cache' = Replicas /\ cache' = [r \in Replicas |-> cache'[r]]
             /\ \A r \in Replicas : EntryStays(r)
  BY <1>c, <1>t DEF EntryStays
<1>f. ASSUME UNCHANGED fill
      PROVE  /\ DOMAIN fill' = Requests /\ fill' = [f \in Requests |-> fill'[f]]
             /\ \A f \in Requests : FillStays(f)
  BY <1>f, <1>t DEF FillStays
<1>fe. ASSUME NEW f \in Requests, NEW v \in K!Fill, fill' = [fill EXCEPT ![f] = v]
       PROVE  /\ DOMAIN fill' = Requests /\ fill' = [g \in Requests |-> fill'[g]]
              /\ fill'[f] = v /\ \A g \in Requests \ {f} : FillStays(g)
  BY <1>fe, <1>t DEF FillStays
<1>1. ASSUME NEW f \in Requests, NEW r \in Replicas, K!Miss(f, r) PROVE Moved
  <2> DEFINE v == [K!NoFill EXCEPT !.at = r, !.start = now]
  <2>1. v \in K!Fill /\ v.start = now /\ ~v.read /\ v.version = 0
    <3>1. K!NoFill \in K!Fill /\ now \in 0 .. MaxTime
      BY <1>t, Nothing
    <3>2. ASSUME NEW g \in K!Fill
          PROVE  LET d == [g EXCEPT !.at = r, !.start = now] IN
                 d \in K!Fill /\ d.start = now /\ d.version = g.version /\ d.read = g.read
      BY <3>1 DEF K!Fill
    <3>3. QED
      BY <3>1, <3>2, Nothing
  <2> HIDE DEF v
  <2>2. fill' = [fill EXCEPT ![f] = v]
    BY <1>1 DEF K!Miss, v
  <2>3. FillBegins(f)
    BY <1>fe, <2>1, <2>2 DEF FillBegins
  <2>4. QED
    BY <1>1, <1>c, <1>fe, <1>u, <2>1, <2>2, <2>3 DEF K!Miss, Moved
<1>2. ASSUME NEW f \in Requests, K!Read(f) PROVE Moved
  <2> DEFINE v == [fill[f] EXCEPT !.version = version, !.read = TRUE]
  <2>1. v \in K!Fill /\ v.at = fill[f].at /\ v.start = fill[f].start /\ v.version = version
    BY <1>t, FillHasRead
  <2>2. fill' = [fill EXCEPT ![f] = v]
    BY <1>2 DEF K!Read
  <2> HIDE DEF v
  <2>3. fill[f].at \in Replicas
    BY <1>2, <1>t DEF K!Read, K!Fill
  <2>4. FillReads(f)
    BY <1>fe, <2>1, <2>2, <2>3 DEF FillReads
  <2>5. QED
    BY <1>2, <1>c, <1>fe, <1>u, <2>1, <2>2, <2>4 DEF K!Read, Moved
<1>3. ASSUME NEW f \in Requests, K!Store(f) PROVE Moved
  <2>1. fill' = [fill EXCEPT ![f] = K!NoFill] /\ fill[f].at \in Replicas
    BY <1>3 DEF K!Store, CacheTypes
  <2> DEFINE e == [version |-> fill[f].version, expiresAt |-> K!Expiry(f),
                   took |-> now - fill[f].start, excused |-> fill[f].excused]
  <2>2. cache' = [cache EXCEPT ![fill[f].at] = e]
    BY <1>3 DEF K!Store
  <2>3. EntryStored(fill[f].at)
    BY <1>3, <1>t, <2>1, <2>2 DEF K!Store, EntryStored
  <2> HIDE DEF e
  <2>4. /\ DOMAIN cache' = Replicas /\ cache' = [r \in Replicas |-> cache'[r]]
        /\ \A r \in Replicas \ {fill[f].at} : EntryStays(r)
    BY <1>t, <2>2 DEF EntryStays
  <2>5. QED
    BY <1>3, <1>fe, <1>u, <2>1, <2>3, <2>4, Nothing DEF K!Store, Moved
<1>4. ASSUME NEW f \in Requests, K!Abandon(f) PROVE Moved
  BY <1>4, <1>c, <1>fe, <1>u, Nothing DEF K!Abandon, Moved
<1>5. ASSUME NEW r \in Replicas, K!Write(r) PROVE Moved
  <2>1. Forward
    BY <1>5 DEF K!Write, Forward
  <2>2. QED
    BY <1>5, <1>c, <1>f, <2>1 DEF K!Write, Moved
<1>e. ASSUME NEW R, NEW r \in Replicas, cache' = [K!CacheExcused(R) EXCEPT ![r] = K!NoEntry]
      PROVE  /\ DOMAIN cache' = Replicas /\ cache' = [q \in Replicas |-> cache'[q]]
             /\ \A q \in Replicas : EntryStays(q) \/ cache'[q] = K!NoEntry
  <2>1. DOMAIN K!CacheExcused(R) = Replicas
    BY DEF K!CacheExcused
  <2>2. cache' = [q \in Replicas |-> IF q = r THEN K!NoEntry ELSE K!CacheExcused(R)[q]]
    BY <1>e, <2>1
  <2>3. \A q \in Replicas \ {r} : cache'[q] = K!CacheExcused(R)[q]
    BY <2>2
  <2>4. QED
    BY <2>2, <2>3, ExcusedEntries DEF EntryStays
<1>g. ASSUME NEW R, fill' = K!FillsExcused(R)
      PROVE  /\ DOMAIN fill' = Requests /\ fill' = [f \in Requests |-> fill'[f]]
             /\ \A f \in Requests : FillStays(f)
  <2>1. fill' = [f \in Requests |-> fill'[f]]
    BY <1>g DEF K!FillsExcused
  <2>2. QED
    BY <1>g, <2>1, ExcusedFills DEF FillStays
<1>6. ASSUME NEW r \in Replicas, NEW down \in SUBSET Replicas, K!Invalidate(r, down) PROVE Moved
  BY <1>6, <1>e, <1>g, <1>u DEF K!Invalidate, Moved
<1>7. ASSUME NEW r \in Replicas, K!Crash(r) PROVE Moved
  <2>1. fill' = [f \in Requests |-> IF fill[f].at = r THEN K!NoFill ELSE K!FillsExcused(Replicas)[f]]
    BY <1>7 DEF K!Crash
  <2>2. /\ DOMAIN fill' = Requests /\ fill' = [f \in Requests |-> fill'[f]]
        /\ \A f \in Requests : FillStays(f) \/ fill'[f] = K!NoFill
    <3>1. DOMAIN fill' = Requests /\ fill' = [f \in Requests |-> fill'[f]]
      BY <2>1
    <3>2. \A f \in Requests : fill'[f] = K!NoFill \/ fill'[f] = K!FillsExcused(Replicas)[f]
      BY <2>1
    <3>3. QED
      BY <3>1, <3>2, ExcusedFills DEF FillStays
  <2>3. QED
    BY <1>7, <1>e, <1>u, <2>2 DEF K!Crash, Moved
<1>8. ASSUME NEW r \in Replicas, K!Deliver(r) PROVE Moved
  <2>1. cache' = [cache EXCEPT ![r] = K!NoEntry] /\ fill' = K!FillsExcused({r})
    BY <1>8 DEF K!Deliver
  <2>2. /\ DOMAIN cache' = Replicas /\ cache' = [q \in Replicas |-> cache'[q]]
        /\ \A q \in Replicas : EntryStays(q) \/ cache'[q] = K!NoEntry
    BY <1>t, <2>1 DEF EntryStays
  <2>3. QED
    BY <1>8, <1>g, <1>u, <2>1, <2>2 DEF K!Deliver, Moved
<1>9. CASE K!Tick
  <2>1. /\ DOMAIN cache' = Replicas /\ cache' = [q \in Replicas |-> cache'[q]]
        /\ \A q \in Replicas : EntryStays(q) \/ cache'[q] = K!NoEntry
    BY <1>9, <1>t DEF K!Tick, EntryStays
  <2>2. Forward
    BY <1>9 DEF K!Tick, Forward
  <2>3. QED
    BY <1>9, <1>f, <2>1, <2>2 DEF K!Tick, Moved
<1>10. CASE UNCHANGED K!cacheVars
  BY <1>10, <1>c, <1>f, <1>u DEF K!cacheVars, Moved
<1>11. QED
  BY <1>1, <1>2, <1>3, <1>4, <1>5, <1>6, <1>7, <1>8, <1>9, <1>10 DEF K!Next

\* Nothing that has been current is forgotten to have been.
LEMMA SinceGrows ==
    ASSUME CacheTypes, Forward
    PROVE  /\ now' \in 0 .. MaxTime /\ version' \in K!Versions /\ until' \in [K!Versions -> 0 .. MaxTime]
           /\ now <= now' /\ version <= version'
           /\ \A v \in K!Versions : v < version' => until'[v] <= now'
           /\ \A v \in K!Versions : v <= version => Since[v] <= Since'[v] /\ Since[v] \in Nat /\ Since'[v] \in Nat
<1>t. /\ now \in Nat /\ now <= MaxTime /\ version \in Nat /\ version <= MaxVersion
      /\ until \in [K!Versions -> 0 .. MaxTime] /\ K!Versions = 0 .. MaxVersion
      /\ MaxTime \in Nat /\ MaxVersion \in Nat
      /\ \A v \in K!Versions : v < version => until[v] <= now
  BY AccountAssumption DEF CacheTypes, K!Versions
<1>1. CASE UNCHANGED <<now, version, until>>
  BY <1>1, <1>t DEF Since
<1>2. CASE now' = now + 1 /\ now < MaxTime /\ UNCHANGED <<version, until>>
  BY <1>2, <1>t DEF Since
<1>3. CASE version' = version + 1 /\ version < MaxVersion /\ now' = now /\ until' = [until EXCEPT ![version] = now]
  <2>1. now' \in 0 .. MaxTime /\ version' \in K!Versions /\ now <= now' /\ version <= version'
    BY <1>3, <1>t
  <2>2. until' \in [K!Versions -> 0 .. MaxTime]
    BY <1>3, <1>t
  <2>3. until'[version] = now /\ \A v \in K!Versions \ {version} : until'[v] = until[v]
    BY <1>3, <1>t
  <2>4. \A v \in K!Versions : v < version' => until'[v] <= now'
    BY <1>3, <1>t, <2>3
  <2>5. \A v \in K!Versions : v <= version => Since[v] <= Since'[v] /\ Since[v] \in Nat /\ Since'[v] \in Nat
    BY <1>3, <1>t, <2>3 DEF Since
  <2>6. QED
    BY <2>1, <2>2, <2>4, <2>5
<1>4. QED
  BY <1>1, <1>2, <1>3 DEF Forward

LEMMA InboxTypes ==
    ASSUME CacheTypes, [K!Next]_(K!cacheVars)
    PROVE  writers' \subseteq Replicas /\ inbox' \in [Replicas -> Nat]
<1>t. writers \subseteq Replicas /\ inbox \in [Replicas -> Nat]
  BY DEF CacheTypes
<1>1. CASE \E r \in Replicas, down \in SUBSET Replicas : K!Invalidate(r, down)
  BY <1>1, <1>t DEF K!Invalidate
<1>2. CASE \E r \in Replicas : K!Crash(r) \/ K!Deliver(r) \/ K!Write(r)
  BY <1>2, <1>t DEF K!Crash, K!Deliver, K!Write
<1>3. CASE UNCHANGED <<writers, inbox>>
  BY <1>3, <1>t
<1>4. QED
  BY <1>1, <1>2, <1>3 DEF K!Next, K!cacheVars, K!Tick, K!Miss, K!Read, K!Store, K!Abandon

\* Of what a fill stores.
LEMMA StoredFacts ==
    ASSUME CacheTypes, NEW r \in Replicas, EntryStored(r)
    PROVE  \E f \in Requests :
              /\ fill[f].read /\ fill[f].at = r
              /\ cache'[r] \in K!Entry
              /\ cache'[r].version = fill[f].version /\ cache'[r].excused = fill[f].excused
              /\ cache'[r].expiresAt = IF kind = "local" THEN now + TTL ELSE fill[f].start + TTL
              /\ cache'[r].took = now - fill[f].start
<1>1. PICK f \in Requests :
        /\ fill[f].read /\ fill[f].at = r
        /\ cache'[r] = [version |-> fill[f].version, expiresAt |-> K!Expiry(f),
                        took |-> now - fill[f].start, excused |-> fill[f].excused]
  BY DEF EntryStored
<1>2. /\ fill[f].start \in 0 .. MaxTime /\ fill[f].version \in K!Versions /\ fill[f].excused \in BOOLEAN
      /\ fill[f].start <= now /\ now \in 0 .. MaxTime
  BY DEF CacheTypes, K!Fill
<1>3. /\ TTL \in Nat /\ MaxTime \in Nat /\ K!Expiry(f) = IF kind = "local" THEN now + TTL ELSE fill[f].start + TTL
  BY AccountAssumption DEF K!Expiry
<1>4. K!Expiry(f) \in 0 .. MaxTime + TTL /\ now - fill[f].start \in 0 .. MaxTime
  BY <1>2, <1>3
<1>5. cache'[r] \in K!Entry
  BY <1>1, <1>2, <1>4 DEF K!Entry
<1>6. QED
  BY <1>1, <1>3, <1>5

LEMMA CacheTypesNext == CacheTypes /\ [K!Next]_(K!cacheVars) => CacheTypes'
<1> SUFFICES ASSUME CacheTypes, [K!Next]_(K!cacheVars) PROVE CacheTypes'
  OBVIOUS
<1>m. Moved
  BY CacheMoves
<1>g. /\ now' \in 0 .. MaxTime /\ version' \in K!Versions /\ until' \in [K!Versions -> 0 .. MaxTime]
      /\ now <= now' /\ version <= version'
      /\ \A v \in K!Versions : v < version' => until'[v] <= now'
  BY <1>m, SinceGrows DEF Moved
<1>n. now \in Nat /\ now' \in Nat /\ version \in Nat /\ version' \in Nat /\ MaxTime \in Nat
  BY <1>g, AccountAssumption DEF CacheTypes, K!Versions
<1>1. \A r \in Replicas : cache'[r] \in K!Entry /\ cache'[r].version <= version'
  <2> SUFFICES ASSUME NEW r \in Replicas PROVE cache'[r] \in K!Entry /\ cache'[r].version <= version'
    OBVIOUS
  <2>1. cache[r] \in K!Entry /\ cache[r].version <= version /\ cache[r].version \in Nat
    BY AccountAssumption DEF CacheTypes, K!Entry, K!Versions
  <2>2. CASE EntryStays(r)
    BY <1>g, <1>n, <2>1, <2>2 DEF EntryStays
  <2>3. CASE cache'[r] = K!NoEntry
    BY <1>n, <2>3, Nothing
  <2>4. CASE EntryStored(r)
    <3>1. PICK f \in Requests : cache'[r] \in K!Entry /\ cache'[r].version = fill[f].version
      BY <2>4, StoredFacts
    <3>2. fill[f].version <= version /\ fill[f].version \in Nat
      BY AccountAssumption DEF CacheTypes, K!Fill, K!Versions
    <3>3. QED
      BY <1>g, <1>n, <3>1, <3>2
  <2>5. QED
    BY <1>m, <2>2, <2>3, <2>4 DEF Moved
<1>2. \A f \in Requests : /\ fill'[f] \in K!Fill /\ fill'[f].version <= version' /\ fill'[f].start <= now'
                          /\ fill'[f].read => fill'[f].at \in Replicas
  <2> SUFFICES ASSUME NEW f \in Requests
               PROVE  /\ fill'[f] \in K!Fill /\ fill'[f].version <= version' /\ fill'[f].start <= now'
                      /\ fill'[f].read => fill'[f].at \in Replicas
    OBVIOUS
  <2>1. /\ fill[f].version <= version /\ fill[f].version \in Nat
        /\ fill[f].start <= now /\ fill[f].start \in Nat
        /\ fill[f].read => fill[f].at \in Replicas
    BY AccountAssumption DEF CacheTypes, K!Fill, K!Versions
  <2>2. CASE FillStays(f)
    BY <1>g, <1>n, <2>1, <2>2 DEF FillStays
  <2>3. CASE fill'[f] = K!NoFill
    BY <1>n, <2>3, Nothing
  <2>4. CASE FillBegins(f)
    BY <1>g, <1>n, <2>4 DEF FillBegins
  <2>5. CASE FillReads(f)
    BY <1>g, <1>n, <2>1, <2>5 DEF FillReads
  <2>6. QED
    BY <1>m, <2>2, <2>3, <2>4, <2>5 DEF Moved
<1>3. cache' \in [Replicas -> K!Entry] /\ fill' \in [Requests -> K!Fill]
  BY <1>1, <1>2, <1>m DEF Moved
<1>4. kind' \in K!Kinds
  BY <1>m DEF Moved, Forward, CacheTypes
<1>5. QED
  BY <1>1, <1>2, <1>3, <1>4, <1>g, InboxTypes DEF CacheTypes

LEMMA FillsAreOfLateNext == CacheTypes /\ FillsAreOfLate /\ Moved => FillsAreOfLate'
<1> SUFFICES ASSUME CacheTypes, FillsAreOfLate, Moved, NEW f \in Requests, fill'[f].read
             PROVE  fill'[f].start <= Since'[fill'[f].version]
  BY DEF FillsAreOfLate
<1>1. /\ fill[f].version \in K!Versions /\ fill[f].version <= version
      /\ fill[f].start \in Nat /\ fill[f].start <= now /\ version \in K!Versions /\ version <= version
  BY AccountAssumption DEF CacheTypes, K!Fill, K!Versions
<1>2. CASE FillStays(f)
  <2>1. fill[f].start <= Since[fill[f].version]
    BY <1>2 DEF FillStays, FillsAreOfLate
  <2>2. PICK v \in K!Versions : v = fill[f].version
    BY <1>1
  <2>3. Since[v] <= Since'[v] /\ Since[v] \in Nat /\ Since'[v] \in Nat
    BY <1>1, <2>2, SinceGrows DEF Moved
  <2>4. fill'[f].start = fill[f].start /\ fill'[f].version = v
    BY <1>2, <2>2 DEF FillStays
  <2>5. fill[f].start <= Since'[v]
    BY <1>1, <2>1, <2>2, <2>3
  <2>6. QED
    BY <2>4, <2>5 DEF Since
<1>3. CASE FillReads(f)
  <2>1. PICK v \in K!Versions : v = version
    BY <1>1
  <2>2. Since[v] <= Since'[v] /\ Since[v] \in Nat /\ Since'[v] \in Nat /\ Since[v] = now
    BY <1>1, <2>1, SinceGrows DEF Moved, Since
  <2>3. fill'[f].start = fill[f].start /\ fill'[f].version = v
    BY <1>3, <2>1 DEF FillReads
  <2>4. fill[f].start <= Since'[v]
    BY <1>1, <2>2
  <2>5. QED
    BY <2>3, <2>4 DEF Since
<1>4. QED
  BY <1>2, <1>3, Nothing DEF Moved, FillBegins

LEMMA EntriesAreOfLateNext ==
    CacheTypes /\ FillsAreOfLate /\ EntriesAreOfLate /\ Moved => EntriesAreOfLate'
<1> SUFFICES ASSUME CacheTypes, FillsAreOfLate, EntriesAreOfLate, Moved, NEW r \in Replicas
             PROVE  cache'[r].expiresAt <=
                        Since'[cache'[r].version] + TTL + (IF kind' = "local" THEN cache'[r].took ELSE 0)
  BY DEF EntriesAreOfLate
<1>k. kind' = kind /\ TTL \in Nat /\ MaxTime \in Nat
  BY AccountAssumption DEF Moved, Forward
<1>1. CASE EntryStays(r)
  <2>1. PICK v \in K!Versions : v = cache[r].version /\ v <= version
    BY DEF CacheTypes, K!Entry
  <2>2. cache[r].expiresAt \in Nat /\ cache[r].took \in Nat
    BY <1>k DEF CacheTypes, K!Entry
  <2>3. Since[v] <= Since'[v] /\ Since[v] \in Nat /\ Since'[v] \in Nat
    BY <2>1, SinceGrows DEF Moved
  <2>4. cache[r].expiresAt <= Since[v] + TTL + (IF kind = "local" THEN cache[r].took ELSE 0)
    BY <2>1 DEF EntriesAreOfLate
  <2>5. cache[r].expiresAt <= Since'[v] + TTL + (IF kind = "local" THEN cache[r].took ELSE 0)
    BY <1>k, <2>2, <2>3, <2>4
  <2>6. QED
    BY <1>1, <1>k, <2>1, <2>5 DEF EntryStays
<1>2. CASE cache'[r] = K!NoEntry
  <2>1. PICK v \in K!Versions : v = 0
    BY AccountAssumption DEF K!Versions
  <2>2. v <= version
    BY <2>1, AccountAssumption DEF CacheTypes, K!Versions
  <2>3. Since'[v] \in Nat
    BY <2>2, SinceGrows DEF Moved
  <2>4. QED
    BY <1>2, <1>k, <2>1, <2>3, Nothing
<1>3. CASE EntryStored(r)
  <2>1. PICK f \in Requests :
            /\ fill[f].read /\ cache'[r].version = fill[f].version
            /\ cache'[r].expiresAt = IF kind = "local" THEN now + TTL ELSE fill[f].start + TTL
            /\ cache'[r].took = now - fill[f].start
    BY <1>3, StoredFacts
  <2>2. PICK v \in K!Versions : v = fill[f].version /\ v <= version
    BY DEF CacheTypes, K!Fill
  <2>3. Since[v] <= Since'[v] /\ Since[v] \in Nat /\ Since'[v] \in Nat
    BY <2>2, SinceGrows DEF Moved
  <2>4. fill[f].start \in Nat /\ fill[f].start <= Since[v] /\ now \in Nat
    BY <1>k, <2>1, <2>2 DEF CacheTypes, K!Fill, FillsAreOfLate
  <2>5. QED
    BY <1>k, <2>1, <2>2, <2>3, <2>4
<1>4. QED
  BY <1>1, <1>2, <1>3 DEF Moved

LEMMA ToldNext ==
    ASSUME CacheTypes, CacheTypes', FillsAreTold, K!NewsIsOnItsWay, [K!Next]_(K!cacheVars)
    PROVE  FillsAreTold' /\ (K!NewsIsOnItsWay)'
<1>m. Moved
  BY CacheMoves
<1>n. /\ now \in Nat /\ now' \in Nat /\ now <= now' /\ ~(0 > now')
      /\ inbox \in [Replicas -> Nat]
      /\ \A r \in Replicas : cache[r].expiresAt \in Nat
  <2>1. now <= now' /\ now \in 0 .. MaxTime /\ now' \in 0 .. MaxTime
    BY <1>m, SinceGrows DEF CacheTypes, Moved
  <2>2. \A r \in Replicas : cache[r].expiresAt \in Nat
    BY AccountAssumption DEF CacheTypes, K!Entry
  <2>3. QED
    BY <2>1, <2>2, AccountAssumption DEF CacheTypes
<1>i. /\ \A f \in Requests : fill[f].read /\ fill[f].version # version =>
             inbox[fill[f].at] > 0 \/ writers # {} \/ fill[f].excused
      /\ \A r \in Replicas : cache[r].expiresAt > now /\ cache[r].version # version =>
             inbox[r] > 0 \/ writers # {} \/ cache[r].excused
  BY DEF FillsAreTold, NewsIsOnItsWayTo, K!NewsIsOnItsWay, K!Live
<1> DEFINE FillGoal(f) == fill'[f].read /\ fill'[f].version # version' =>
                              inbox'[fill'[f].at] > 0 \/ writers' # {} \/ fill'[f].excused
           EntryGoal(r) == cache'[r].expiresAt > now' /\ cache'[r].version # version' =>
                              inbox'[r] > 0 \/ writers' # {} \/ cache'[r].excused
<1>q. ASSUME \A f \in Requests : FillGoal(f), \A r \in Replicas : EntryGoal(r)
      PROVE  FillsAreTold' /\ (K!NewsIsOnItsWay)'
  BY <1>q DEF FillsAreTold, NewsIsOnItsWayTo, K!NewsIsOnItsWay, K!Live
<1>1. ASSUME UNCHANGED <<version, writers, inbox>> PROVE FillsAreTold' /\ (K!NewsIsOnItsWay)'
  <2>1. ASSUME NEW f \in Requests PROVE FillGoal(f)
    BY <1>1, <1>i, <1>m, Nothing DEF Moved, FillStays, FillBegins, FillReads
  <2>2. ASSUME NEW r \in Replicas PROVE EntryGoal(r)
    <3>1. CASE EntryStays(r)
      BY <1>1, <1>i, <1>n, <3>1 DEF EntryStays
    <3>2. CASE cache'[r] = K!NoEntry
      BY <1>n, <3>2, Nothing
    <3>3. CASE EntryStored(r)
      <4>1. PICK f \in Requests : /\ fill[f].read /\ fill[f].at = r
                                  /\ cache'[r].version = fill[f].version
                                  /\ cache'[r].excused = fill[f].excused
        BY <3>3, StoredFacts
      <4>2. QED
        BY <1>1, <1>i, <4>1
    <3>4. QED
      BY <1>m, <3>1, <3>2, <3>3 DEF Moved
  <2>3. QED
    BY <1>q, <2>1, <2>2
<1>2. ASSUME NEW r \in Replicas, K!Write(r) PROVE FillsAreTold' /\ (K!NewsIsOnItsWay)'
  <2>1. writers' # {}
    BY <1>2 DEF K!Write
  <2>2. QED
    BY <1>q, <2>1
<1>3. ASSUME NEW r \in Replicas, NEW down \in SUBSET Replicas, K!Invalidate(r, down)
      PROVE  FillsAreTold' /\ (K!NewsIsOnItsWay)'
  <2>1. PICK deaf \in SUBSET Replicas :
            /\ deaf = IF kind = "local" THEN Replicas ELSE down
            /\ cache' = [K!CacheExcused(deaf) EXCEPT ![r] = K!NoEntry]
            /\ fill' = K!FillsExcused(deaf) /\ UNCHANGED <<now, version>>
            /\ inbox' = [q \in Replicas |-> IF q \in K!Hears(r) \ down THEN inbox[q] + 1 ELSE inbox[q]]
    BY <1>3 DEF K!Invalidate
  <2>2. \A q \in Replicas \ deaf : inbox'[q] > 0
    <3>1. ASSUME NEW q \in Replicas \ deaf PROVE inbox'[q] > 0
      <4>1. q \in K!Hears(r) \ down
        BY <2>1, <3>1 DEF K!Hears, K!Kinds, CacheTypes
      <4>2. QED
        BY <1>n, <2>1, <4>1
    <3>2. QED
      BY <3>1
  <2>3. ASSUME NEW f \in Requests PROVE FillGoal(f)
    <3>1. fill[f].read => fill[f].at \in Replicas
      BY DEF CacheTypes
    <3>2. QED
      BY <2>1, <2>2, <3>1, ExcusedFills
  <2>4. ASSUME NEW q \in Replicas PROVE EntryGoal(q)
    <3>1. DOMAIN K!CacheExcused(deaf) = Replicas
      BY DEF K!CacheExcused
    <3>2. CASE q = r
      BY <1>n, <2>1, <3>1, <3>2, Nothing
    <3>3. CASE q # r
      BY <2>1, <2>2, <3>1, <3>3, ExcusedEntries DEF K!Live
    <3>4. QED
      BY <3>2, <3>3
  <2>5. QED
    BY <1>q, <2>3, <2>4
<1>4. ASSUME NEW r \in Replicas, K!Crash(r) PROVE FillsAreTold' /\ (K!NewsIsOnItsWay)'
  <2>1. /\ cache' = [K!CacheExcused(Replicas) EXCEPT ![r] = K!NoEntry]
        /\ fill' = [f \in Requests |-> IF fill[f].at = r THEN K!NoFill ELSE K!FillsExcused(Replicas)[f]]
        /\ UNCHANGED <<now, version>>
    BY <1>4 DEF K!Crash
  <2>2. ASSUME NEW f \in Requests PROVE FillGoal(f)
    <3>1. fill[f].read => fill[f].at \in Replicas
      BY DEF CacheTypes
    <3>2. CASE fill[f].at = r
      BY <2>1, <3>2, Nothing
    <3>3. CASE fill[f].at # r
      BY <2>1, <3>1, <3>3, ExcusedFills
    <3>4. QED
      BY <3>2, <3>3
  <2>3. ASSUME NEW q \in Replicas PROVE EntryGoal(q)
    <3>1. DOMAIN K!CacheExcused(Replicas) = Replicas
      BY DEF K!CacheExcused
    <3>2. CASE q = r
      BY <1>n, <2>1, <3>1, <3>2, Nothing
    <3>3. CASE q # r
      BY <2>1, <3>1, <3>3, ExcusedEntries DEF K!Live
    <3>4. QED
      BY <3>2, <3>3
  <2>4. QED
    BY <1>q, <2>2, <2>3
<1>5. ASSUME NEW r \in Replicas, K!Deliver(r) PROVE FillsAreTold' /\ (K!NewsIsOnItsWay)'
  <2>1. /\ cache' = [cache EXCEPT ![r] = K!NoEntry] /\ fill' = K!FillsExcused({r})
        /\ UNCHANGED <<now, version, writers>>
        /\ \A q \in Replicas \ {r} : inbox'[q] = inbox[q]
    BY <1>5, <1>n DEF K!Deliver
  <2>2. ASSUME NEW f \in Requests PROVE FillGoal(f)
    <3>1. fill[f].read => fill[f].at \in Replicas
      BY DEF CacheTypes
    <3>2. QED
      BY <1>i, <2>1, <3>1, ExcusedFills
  <2>3. ASSUME NEW q \in Replicas PROVE EntryGoal(q)
    <3>1. DOMAIN cache = Replicas
      BY DEF CacheTypes
    <3>2. CASE q = r
      BY <1>n, <2>1, <3>1, <3>2, Nothing
    <3>3. CASE q # r
      BY <1>i, <2>1, <3>1, <3>3
    <3>4. QED
      BY <3>2, <3>3
  <2>4. QED
    BY <1>q, <2>2, <2>3
<1>6. QED
  BY <1>1, <1>2, <1>3, <1>4, <1>5 DEF K!Next, K!cacheVars, K!Tick, K!Miss, K!Read, K!Store, K!Abandon

LEMMA CacheNext == CacheInv /\ [Next]_vars => CacheInv'
<1> SUFFICES ASSUME CacheInv, [Next]_vars PROVE CacheInv'
  OBVIOUS
<1>1. [K!Next]_(K!cacheVars)
  BY AccountSteps
<1>2. CacheTypes' /\ Moved
  BY <1>1, CacheTypesNext, CacheMoves DEF CacheInv
<1>3. FillsAreOfLate' /\ EntriesAreOfLate'
  BY <1>2, FillsAreOfLateNext, EntriesAreOfLateNext DEF CacheInv
<1>4. FillsAreTold' /\ (K!NewsIsOnItsWay)'
  BY <1>1, <1>2, ToldNext DEF CacheInv
<1>5. QED
  BY <1>2, <1>3, <1>4 DEF CacheInv

LEMMA CacheInit == K!Init => CacheInv
<1> SUFFICES ASSUME K!Init PROVE CacheInv
  OBVIOUS
<1>i. /\ kind \in K!Kinds /\ now = 0 /\ version = 0 /\ until = [v \in K!Versions |-> MaxTime]
      /\ writers = {} /\ inbox = [r \in Replicas |-> 0]
      /\ cache = [r \in Replicas |-> K!NoEntry] /\ fill = [f \in Requests |-> K!NoFill]
  BY DEF K!Init
<1>a. /\ MaxTime \in Nat /\ MaxVersion \in Nat /\ TTL \in Nat /\ K!Versions = 0 .. MaxVersion
  BY AccountAssumption DEF K!Versions
<1>1. CacheTypes
  <2>1. now \in 0 .. MaxTime /\ version \in K!Versions /\ until \in [K!Versions -> 0 .. MaxTime]
    BY <1>a, <1>i
  <2>2. inbox \in [Replicas -> Nat] /\ cache \in [Replicas -> K!Entry] /\ fill \in [Requests -> K!Fill]
    BY <1>i, Nothing
  <2>3. \A r \in Replicas : cache[r].version <= version
    BY <1>i, Nothing
  <2>4. \A f \in Requests : fill[f].version <= version /\ fill[f].start <= now /\ ~fill[f].read
    BY <1>i, Nothing
  <2>5. \A v \in K!Versions : ~(v < version)
    BY <1>a, <1>i
  <2>6. QED
    BY <1>i, <2>1, <2>2, <2>3, <2>4, <2>5 DEF CacheTypes
<1>2. FillsAreOfLate /\ FillsAreTold
  BY <1>i, Nothing DEF FillsAreOfLate, FillsAreTold
<1>3. EntriesAreOfLate
  <2>1. Since[0] = 0
    BY <1>a, <1>i DEF Since
  <2>2. QED
    BY <1>a, <1>i, <2>1, Nothing DEF EntriesAreOfLate
<1>4. K!NewsIsOnItsWay
  BY <1>i, Nothing DEF K!NewsIsOnItsWay, K!Live
<1>5. QED
  BY <1>1, <1>2, <1>3, <1>4 DEF CacheInv

LEMMA CachesKept == Spec => []CacheInv
<1>1. Init => CacheInv
  BY CacheInit DEF Init
<1>2. QED
  BY <1>1, CacheNext, PTL DEF Spec

\* Whatever is lost on its way and whoever crashes, no replica serves what stopped
\* being true longer than the TTL ago (CACHE_TTL_MS; for the plan's cache, plus
\* the time the load took), for any number of replicas, requests and changes.
THEOREM StaleForTTLOnly == Spec => []StaleAtMostTTL
<1>1. CacheInv => StaleAtMostTTL
  <2> SUFFICES ASSUME CacheInv, NEW r \in Replicas,
                      cache[r].expiresAt > now, cache[r].version # version
               PROVE  now - until[cache[r].version] < TTL + (IF kind = "local" THEN cache[r].took ELSE 0)
    BY DEF StaleAtMostTTL, K!StaleAtMostTTL, K!Live
  <2>1. /\ TTL \in Nat /\ MaxTime \in Nat /\ now \in Nat
        /\ cache[r].expiresAt \in Nat /\ cache[r].took \in Nat /\ cache[r].version \in K!Versions
    BY AccountAssumption DEF CacheInv, CacheTypes, K!Entry
  <2>2. Since[cache[r].version] = until[cache[r].version] /\ until[cache[r].version] \in Nat
    BY <2>1 DEF CacheInv, CacheTypes, Since
  <2>3. cache[r].expiresAt <=
            until[cache[r].version] + TTL + (IF kind = "local" THEN cache[r].took ELSE 0)
    BY <2>2 DEF CacheInv, EntriesAreOfLate
  <2>4. QED
    BY <2>1, <2>2, <2>3
<1>2. QED
  BY <1>1, CachesKept, PTL

\* An old entry is served only until the invalidation arrives, unless none could
\* be sent or received, or it came while the entry was being read
\* (resolveFeatures, invalidatePermissionCache, the NOTIFY of the broadcaster).
THEOREM NewsArrives == Spec => []NewsIsOnItsWay
<1>1. CacheInv => NewsIsOnItsWay
  BY DEF CacheInv, NewsIsOnItsWay
<1>2. QED
  BY <1>1, CachesKept, PTL

-----------------------------------------------------------------------------
(* Proofs: the plan as the provider reports it *)

LEMMA BillStart == Init => BillInv
<1> SUFFICES ASSUME Init PROVE BillInv
  OBVIOUS
<1>1. /\ events = << >> /\ logged = {} /\ applied = {} /\ again = {}
      /\ hookPc = [h \in Requests |-> "idle"] /\ event = [h \in Requests |-> 0]
  BY DEF Init, B!Init
<1>2. QED
  BY <1>1 DEF BillInv, HandledOnce, Logs, B!AppliedOnce, B!Numbers

\* A handler that has considered its event goes on to log it, and no event but
\* one that met a fault or two handlers is considered again.
LEMMA Considered ==
    ASSUME BillInv, NEW h \in Requests, hookPc[h] \in {"read", "update"},
           B!Consider(event[h]), B!Goto(h, "log"), UNCHANGED <<events, logged, excused>>
    PROVE  BillInv'
<1> DEFINE n == event[h]
<1>1. /\ hookPc \in [Requests -> {"idle", "read", "update", "log"}]
      /\ event \in [Requests -> B!Numbers \cup {0}]
      /\ events \in Seq([sub : Subs, type : B!Types])
      /\ HandledOnce /\ Logs /\ again \subseteq excused
  BY DEF BillInv, B!AppliedOnce
<1>2. /\ hookPc' = [hookPc EXCEPT ![h] = "log"] /\ event' = event
      /\ hookPc'[h] = "log" /\ \A g \in Requests \ {h} : hookPc'[g] = hookPc[g]
  BY <1>1 DEF B!Goto
<1>3. applied' = applied \cup {n} /\ again' \subseteq again \cup {n} /\ (n \notin applied => again' = again)
  BY DEF B!Consider
<1>4. hookPc'  \in [Requests -> {"idle", "read", "update", "log"}]
  BY <1>1, <1>2
<1>5. HandledOnce'
  BY <1>1, <1>2 DEF HandledOnce
<1>6. Logs'
  BY <1>1, <1>2, <1>3 DEF Logs
<1>7. again' \subseteq excused'
  <2>1. ASSUME n \notin excused PROVE n \notin applied
    <3>1. n \notin logged /\ \A g \in Requests \ {h} : event[g] # n
      BY <1>1, <2>1 DEF HandledOnce
    <3>2. QED
      BY <1>1, <2>1, <3>1 DEF Logs
  <2>2. QED
    BY <1>1, <1>3, <2>1
<1>8. QED
  BY <1>1, <1>2, <1>4, <1>5, <1>6, <1>7 DEF BillInv, B!AppliedOnce, B!Numbers

LEMMA BillNext == BillInv /\ [B!Next]_(B!billVars) => BillInv'
<1> SUFFICES ASSUME BillInv, [B!Next]_(B!billVars) PROVE BillInv'
  OBVIOUS
<1>t. /\ hookPc \in [Requests -> {"idle", "read", "update", "log"}]
      /\ event \in [Requests -> B!Numbers \cup {0}]
      /\ events \in Seq([sub : Subs, type : B!Types])
      /\ HandledOnce /\ Logs /\ again \subseteq excused
  BY DEF BillInv, B!AppliedOnce
<1>n. B!Numbers = 1 .. Len(events) /\ Len(events) \in Nat
  BY <1>t DEF B!Numbers
<1>u. ASSUME UNCHANGED <<hookPc, event, logged, applied, again, excused>>,
             events' \in Seq([sub : Subs, type : B!Types]), B!Numbers \subseteq (B!Numbers)'
      PROVE  BillInv'
  BY <1>t, <1>u DEF BillInv, HandledOnce, Logs, B!AppliedOnce
<1>1. ASSUME NEW s \in Subs, B!Checkout(s) PROVE BillInv'
  BY <1>1, <1>t, <1>u DEF B!Checkout, B!Numbers
<1>2. ASSUME NEW s \in Subs, NEW type \in B!Types, B!Emit(s, type) PROVE BillInv'
  <2>1. events' = Append(events, [sub |-> s, type |-> type])
    BY <1>2 DEF B!Emit
  <2>2. events' \in Seq([sub : Subs, type : B!Types]) /\ Len(events') = Len(events) + 1
    BY <1>t, <2>1
  <2>3. B!Numbers \subseteq (B!Numbers)'
    BY <1>n, <2>2 DEF B!Numbers
  <2>4. QED
    BY <1>2, <1>u, <2>2, <2>3 DEF B!Emit
<1>3. ASSUME NEW h \in Requests, NEW n \in 1 .. MaxEvents, B!Deliver(h, n) PROVE BillInv'
  <2>1. n \in B!Numbers /\ n # 0 /\ hookPc[h] = "idle"
        /\ UNCHANGED <<events, logged, applied, again>>
    BY <1>3, <1>n DEF B!Deliver
  <2>2. CASE B!Seen(n)
    BY <1>3, <1>t, <1>u, <2>2 DEF B!Deliver, B!Numbers
  <2>3. CASE ~B!Seen(n)
    <3>1. B!FirstStep(events[n].type) \in {"read", "update", "log"}
      BY DEF B!FirstStep
    <3>2. /\ hookPc' = [hookPc EXCEPT ![h] = B!FirstStep(events[n].type)]
          /\ event' = [event EXCEPT ![h] = n]
          /\ excused' = IF \E g \in Requests : event[g] = n THEN excused \cup {n} ELSE excused
          /\ n \notin logged
      BY <1>3, <2>3 DEF B!Deliver, B!Seen
    <3>3. /\ hookPc' \in [Requests -> {"idle", "read", "update", "log"}]
          /\ event' \in [Requests -> B!Numbers \cup {0}]
          /\ hookPc'[h] # "idle" /\ event'[h] = n
          /\ \A g \in Requests \ {h} : hookPc'[g] = hookPc[g] /\ event'[g] = event[g]
      BY <1>t, <2>1, <3>1, <3>2
    <3>4. excused \subseteq excused' /\ (n \notin excused' => \A g \in Requests : event[g] # n)
      BY <3>2
    <3>5. HandledOnce'
      BY <1>t, <2>1, <3>2, <3>3, <3>4 DEF HandledOnce
    <3>6. Logs'
      BY <1>t, <2>1, <3>3, <3>4 DEF Logs
    <3>7. QED
      BY <1>t, <2>1, <3>3, <3>4, <3>5, <3>6 DEF BillInv, B!AppliedOnce, B!Numbers
  <2>4. QED
    BY <2>2, <2>3
<1>4. ASSUME NEW h \in Requests, B!ReadSubscription(h) PROVE BillInv'
  <2>1. CASE B!SameSubscription(event[h])
    <3>1. /\ hookPc' = [hookPc EXCEPT ![h] = "update"] /\ hookPc[h] = "read"
          /\ UNCHANGED <<events, event, logged, applied, again, excused>>
      BY <1>4, <2>1 DEF B!ReadSubscription, B!Goto
    <3>2. /\ hookPc' \in [Requests -> {"idle", "read", "update", "log"}]
          /\ \A g \in Requests : /\ hookPc'[g] = "idle" <=> hookPc[g] = "idle"
                                 /\ hookPc[g] = "log" => hookPc'[g] = "log"
      BY <1>t, <3>1
    <3>3. HandledOnce' /\ Logs'
      BY <1>t, <3>1, <3>2 DEF HandledOnce, Logs
    <3>4. QED
      BY <1>t, <3>1, <3>2, <3>3 DEF BillInv, B!AppliedOnce, B!Numbers
  <2>2. CASE ~B!SameSubscription(event[h])
    BY <1>4, <2>2, Considered DEF B!ReadSubscription
  <2>3. QED
    BY <2>1, <2>2
<1>5. ASSUME NEW h \in Requests, B!UpdateFirm(h) PROVE BillInv'
  BY <1>5, Considered DEF B!UpdateFirm
<1>r. ASSUME NEW h \in Requests, B!Return(h), hookPc[h] # "idle", UNCHANGED <<events, applied, again>>,
             \/ logged' = logged \cup {event[h]} /\ excused' = excused
             \/ logged' = logged /\ excused' = excused \cup {event[h]}
      PROVE  BillInv'
  <2>1. /\ hookPc' \in [Requests -> {"idle", "read", "update", "log"}]
        /\ event' \in [Requests -> B!Numbers \cup {0}]
        /\ hookPc'[h] = "idle" /\ event'[h] = 0
        /\ \A g \in Requests \ {h} : hookPc'[g] = hookPc[g] /\ event'[g] = event[g]
    BY <1>t, <1>r DEF B!Return
  <2>2. excused \subseteq excused' /\ logged \subseteq logged'
        /\ event[h] \in excused' \cup logged' /\ logged' \subseteq logged \cup {event[h]}
    BY <1>r
  <2>3. HandledOnce'
    <3>1. ASSUME NEW g \in Requests \ {h}, event[g] \notin excused', event[g] # 0
          PROVE  event[g] \notin logged'
      BY <1>t, <2>2, <3>1 DEF HandledOnce
    <3>2. QED
      BY <1>t, <2>1, <2>2, <3>1 DEF HandledOnce
  <2>4. Logs'
    BY <1>t, <1>r, <2>1, <2>2 DEF Logs
  <2>5. QED
    BY <1>t, <1>r, <2>1, <2>2, <2>3, <2>4 DEF BillInv, B!AppliedOnce, B!Numbers
<1>6. ASSUME NEW h \in Requests, B!LogEvent(h) \/ B!Fail(h) PROVE BillInv'
  BY <1>6, <1>r DEF B!LogEvent, B!Fail
<1>7. CASE UNCHANGED B!billVars
  BY <1>7, <1>t, <1>u DEF B!billVars, B!Numbers
<1>8. QED
  BY <1>1, <1>2, <1>3, <1>4, <1>5, <1>6, <1>7 DEF B!Next

\* A redelivered event takes no second effect (handleWebhook), unless its first
\* handler failed or two handlers had it at once.
THEOREM EventsTakeEffectOnce == Spec => []AppliedOnce
<1>1. BillInv => AppliedOnce
  BY DEF BillInv, AppliedOnce
<1>2. Spec => []BillInv
  BY BillStart, BillNext, AccountSteps, PTL DEF Spec
<1>3. QED
  BY <1>1, <1>2, PTL

-----------------------------------------------------------------------------
(* Proofs: the status that the events end in *)

LEMMA ElementOfSeq ==
    ASSUME NEW S, NEW s_ \in Seq(S), NEW n \in 1 .. Len(s_)
    PROVE  s_[n] \in S
OBVIOUS

LEMMA FirmStart == Init => FirmInv
<1> SUFFICES ASSUME Init PROVE FirmInv
  OBVIOUS
<1>1. /\ firm = [status |-> "trial", sub |-> Nobody, renewsAt |-> 0]
      /\ events = << >> /\ logged = {} /\ applied = {}
      /\ hookPc = [h \in Requests |-> "idle"] /\ event = [h \in Requests |-> 0]
  BY DEF Init, B!Init
<1>2. firm \in [status : {"trial", "active", "past_due", "cancelled"}, sub : Subs \cup {Nobody}, renewsAt : Nat]
  BY <1>1
<1>3. InOrder /\ SameStill /\ FirmFollows
  BY <1>1 DEF InOrder, SameStill, FirmFollows
<1>4. HandlersKnow /\ LoggedAreDone /\ applied \subseteq B!Numbers /\ logged \subseteq B!Numbers
  BY <1>1 DEF HandlersKnow, LoggedAreDone, B!Numbers
<1>5. QED
  BY <1>2, <1>3, <1>4 DEF FirmInv

\* A handler that has considered its event, which is now done.
LEMMA DoneNext ==
    ASSUME BillInv, FirmInv, NEW h \in Requests, hookPc[h] \in {"read", "update"},
           B!Consider(event[h]), B!Goto(h, "log"), UNCHANGED <<events, logged>>
    PROVE  /\ event[h] \in B!Numbers /\ events[event[h]] \in [sub : Subs, type : B!Types \ {"failed"}]
           /\ applied' = applied \cup {event[h]}
           /\ applied' \subseteq (B!Numbers)' /\ logged' \subseteq (B!Numbers)'
           /\ HandlersKnow' /\ LoggedAreDone'
           /\ ~B!OutOfOrder(event[h]) =>
                 /\ InOrder => InOrder'
                 /\ \A m \in B!OfSub(events[event[h]].sub, B!Types \ {"failed"}) : m \in applied' => m <= event[h]
<1> DEFINE n == event[h]
<1>t. /\ hookPc \in [Requests -> {"idle", "read", "update", "log"}]
      /\ event \in [Requests -> B!Numbers \cup {0}]
      /\ events \in Seq([sub : Subs, type : B!Types])
      /\ HandledOnce /\ HandlersKnow /\ LoggedAreDone
      /\ applied \subseteq B!Numbers /\ logged \subseteq B!Numbers
  BY DEF BillInv, FirmInv
<1>n. B!Numbers = 1 .. Len(events) /\ Len(events) \in Nat /\ (B!Numbers)' = B!Numbers
  BY <1>t DEF B!Numbers
<1>1. n \in B!Numbers
  BY <1>t DEF HandledOnce
<1>2. events[n] \in [sub : Subs, type : B!Types] /\ events[n].type # "failed"
  <2>1. events[n] \in [sub : Subs, type : B!Types]
    BY <1>t, <1>1, <1>n, ElementOfSeq
  <2>2. events[n].type # "failed"
    BY <1>t DEF HandlersKnow
  <2>3. QED
    BY <2>1, <2>2
<1>3. applied' = applied \cup {n}
  BY DEF B!Consider
<1>4. event' = event /\ hookPc'[h] = "log" /\ \A g \in Requests \ {h} : hookPc'[g] = hookPc[g]
  BY <1>t DEF B!Goto
<1>5. HandlersKnow' /\ LoggedAreDone'
  BY <1>t, <1>n, <1>3, <1>4 DEF HandlersKnow, LoggedAreDone
<1>6. ASSUME ~B!OutOfOrder(n)
      PROVE  \A m \in B!OfSub(events[n].sub, B!Types \ {"failed"}) :
                 (m < n => m \in applied) /\ (m \in applied' => m <= n)
  <2>1. SUFFICES ASSUME NEW m \in B!OfSub(events[n].sub, B!Types \ {"failed"})
                 PROVE  (m < n => m \in applied) /\ (m \in applied' => m <= n)
    OBVIOUS
  <2>2. m \in Nat /\ n \in Nat
    BY <1>1, <1>n DEF B!OfSub
  <2>3. ~(m < n /\ m \notin applied) /\ ~(m > n /\ m \in applied)
    BY <1>6 DEF B!OutOfOrder
  <2>4. QED
    BY <1>3, <2>2, <2>3
<1>7. ASSUME ~B!OutOfOrder(n), InOrder PROVE InOrder'
  BY <1>n, <1>3, <1>6, <1>7 DEF InOrder, B!OfSub
<1>8. QED
  BY <1>n, <1>t, <1>1, <1>2, <1>3, <1>5, <1>6, <1>7

\* The firm has what its subscription's last events say, after one more.
LEMMA UpdatedFollows ==
    ASSUME BillInv, FirmInv, SameStill, FirmFollows, NEW h \in Requests, hookPc[h] = "update",
           firm' = B!Updated(event[h]), B!Consider(event[h]), B!Goto(h, "log"),
           UNCHANGED <<events, logged>>, ~B!OutOfOrder(event[h])
    PROVE  FirmFollows'
<1> DEFINE Dates == {"active", "cancelled"}
           States == {"active", "on_hold", "expired"}
<1>0. PICK n \in B!Numbers, s \in Subs : n = event[h] /\ s = events[n].sub
  BY DoneNext
<1>1. /\ events[n].type \in B!Types \ {"failed"} /\ events[n].sub = s
      /\ applied' = applied \cup {n}
      /\ \A m \in B!OfSub(s, B!Types \ {"failed"}) : m \in applied' => m <= n
  BY <1>0, DoneNext
<1>2. (B!Numbers)' = B!Numbers /\ Nobody \notin Subs
  BY AccountAssumption DEF B!Numbers
<1>3. ASSUME NEW types \in {Dates, States}
      PROVE  IF events[n].type \in types THEN LastOf(n, Done(s, types)')
             ELSE Done(s, types)' = Done(s, types)
  BY <1>1, <1>2 DEF LastOf, Done, B!OfSub, B!Types
<1>4. events[n].type # "active" => firm.sub = s
  BY <1>0 DEF SameStill
<1>f. firm \in [status : {"trial", "active", "past_due", "cancelled"}, sub : Subs \cup {Nobody}, renewsAt : Nat]
  BY DEF FirmInv
<1>5. CASE events[n].type = "active"
  <2>1. firm' = [status |-> "active", sub |-> s, renewsAt |-> n]
    BY <1>0, <1>5 DEF B!Updated
  <2>2. LastOf(n, Done(s, Dates)') /\ LastOf(n, Done(s, States)')
    BY <1>3, <1>5
  <2>3. QED
    BY <1>1, <1>2, <1>5, <2>1, <2>2 DEF FirmFollows, LastOf, Done, B!OfSub, After
<1>6. CASE events[n].type = "on_hold"
  <2>1. firm' = [firm EXCEPT !.status = "past_due"]
    BY <1>0, <1>6 DEF B!Updated
  <2>2. firm'.sub = s /\ firm'.renewsAt = firm.renewsAt /\ firm'.status = "past_due"
    BY <1>f, <1>4, <1>6, <2>1
  <2>3. Done(s, Dates)' = Done(s, Dates) /\ LastOf(n, Done(s, States)')
    BY <1>3, <1>6
  <2>4. LastOf(firm.renewsAt, Done(s, Dates))
    BY <1>2, <1>4, <1>6 DEF FirmFollows
  <2>5. QED
    BY <1>1, <1>2, <1>6, <2>2, <2>3, <2>4 DEF FirmFollows, LastOf, Done, B!OfSub, After
<1>7. CASE events[n].type = "cancelled"
  <2>1. firm' = [firm EXCEPT !.renewsAt = n]
    BY <1>0, <1>7 DEF B!Updated
  <2>2. firm'.sub = s /\ firm'.renewsAt = n /\ firm'.status = firm.status
    BY <1>f, <1>4, <1>7, <2>1
  <2>3. LastOf(n, Done(s, Dates)') /\ Done(s, States)' = Done(s, States)
    BY <1>3, <1>7
  <2>4. PICK k \in B!Numbers : LastOf(k, Done(s, States)) /\ firm.status = After[events[k].type]
    BY <1>2, <1>4, <1>7 DEF FirmFollows
  <2>5. QED
    BY <1>2, <2>2, <2>3, <2>4 DEF FirmFollows, LastOf, Done, B!OfSub
<1>8. CASE events[n].type = "expired"
  <2>1. CASE firm' = [status |-> "trial", sub |-> Nobody, renewsAt |-> 0]
    BY <2>1 DEF FirmFollows
  <2>2. CASE firm' = [firm EXCEPT !.status = "cancelled"]
    <3>2. firm'.sub = s /\ firm'.renewsAt = firm.renewsAt /\ firm'.status = "cancelled"
      BY <1>f, <1>4, <1>8, <2>2
    <3>3. Done(s, Dates)' = Done(s, Dates) /\ LastOf(n, Done(s, States)')
      BY <1>3, <1>8
    <3>4. LastOf(firm.renewsAt, Done(s, Dates))
      BY <1>2, <1>4, <1>8 DEF FirmFollows
    <3>5. QED
      BY <1>1, <1>2, <1>8, <3>2, <3>3, <3>4 DEF FirmFollows, LastOf, Done, B!OfSub, After
  <2>3. QED
    BY <1>0, <1>8, <2>1, <2>2 DEF B!Updated
<1>9. QED
  BY <1>1, <1>5, <1>6, <1>7, <1>8 DEF B!Types

LEMMA FirmNext == BillInv /\ FirmInv /\ [B!Next]_(B!billVars) => FirmInv'
<1> SUFFICES ASSUME BillInv, FirmInv, [B!Next]_(B!billVars) PROVE FirmInv'
  OBVIOUS
<1> DEFINE Firms == [status : {"trial", "active", "past_due", "cancelled"},
                     sub : Subs \cup {Nobody}, renewsAt : Nat]
<1>t. /\ hookPc \in [Requests -> {"idle", "read", "update", "log"}]
      /\ event \in [Requests -> B!Numbers \cup {0}]
      /\ events \in Seq([sub : Subs, type : B!Types])
      /\ applied \subseteq B!Numbers /\ logged \subseteq B!Numbers
      /\ firm \in Firms
      /\ HandledOnce /\ HandlersKnow /\ LoggedAreDone
      /\ disorder \/ (InOrder /\ SameStill /\ FirmFollows)
  BY DEF BillInv, FirmInv
<1>n. B!Numbers = 1 .. Len(events) /\ Len(events) \in Nat
  BY <1>t DEF B!Numbers
<1>u. ASSUME UNCHANGED <<firm, applied, events, hookPc, event, logged, disorder>> PROVE FirmInv'
  BY <1>u DEF FirmInv, HandlersKnow, LoggedAreDone, InOrder, SameStill, FirmFollows,
              LastOf, Done, B!OfSub, B!Numbers
\* The handlers move, and nothing is done.
<1>v. ASSUME UNCHANGED <<firm, applied, events>>, ~disorder' => ~disorder,
             logged' \subseteq B!Numbers, HandlersKnow', LoggedAreDone', ~disorder' => SameStill'
      PROVE  FirmInv'
  <2>1. applied' \subseteq (B!Numbers)' /\ logged' \subseteq (B!Numbers)' /\ firm' \in Firms
    BY <1>t, <1>v DEF B!Numbers
  <2>2. ASSUME ~disorder, InOrder, FirmFollows PROVE InOrder' /\ FirmFollows'
    BY <1>v, <2>2 DEF InOrder, FirmFollows, LastOf, Done, B!OfSub, B!Numbers
  <2>3. QED
    BY <1>t, <1>v, <2>1, <2>2 DEF FirmInv
<1>1. ASSUME NEW s \in Subs, B!Checkout(s) PROVE FirmInv'
  BY <1>1, <1>u DEF B!Checkout
<1>2. ASSUME NEW s \in Subs, NEW type \in B!Types, B!Emit(s, type) PROVE FirmInv'
  <2>1. /\ events' = Append(events, [sub |-> s, type |-> type])
        /\ UNCHANGED <<firm, applied, hookPc, event, logged, disorder>>
    BY <1>2 DEF B!Emit
  <2>2. Len(events') = Len(events) + 1 /\ \A n \in B!Numbers : events'[n] = events[n]
    BY <1>t, <1>n, <2>1
  <2>3. (B!Numbers)' = B!Numbers \cup {Len(events) + 1} /\ Len(events) + 1 \notin B!Numbers
    BY <1>n, <1>t, <2>1, <2>2 DEF B!Numbers
  <2>4. HandlersKnow'
    <3>1. ASSUME NEW h \in Requests, hookPc[h] \in {"read", "update"} PROVE event[h] \in B!Numbers
      BY <1>t, <3>1 DEF HandledOnce
    <3>2. QED
      BY <1>t, <2>1, <2>2, <3>1 DEF HandlersKnow
  <2>5. LoggedAreDone'
    <3>1. ASSUME NEW h \in Requests PROVE event[h] # Len(events) + 1
      BY <1>t, <1>n, <2>3
    <3>2. QED
      BY <1>t, <2>1, <2>2, <2>3, <3>1 DEF LoggedAreDone
  <2>6. ASSUME InOrder PROVE InOrder'
    <3>1. ASSUME NEW n \in applied, NEW m \in (B!OfSub(events[n].sub, B!Types \ {"failed"}))', m < n
          PROVE  m \in B!OfSub(events[n].sub, B!Types \ {"failed"})
      <4>1. m \in B!Numbers
        BY <1>n, <1>t, <2>3, <3>1 DEF B!OfSub
      <4>2. QED
        BY <1>t, <2>2, <3>1, <4>1 DEF B!OfSub
    <3>2. QED
      BY <1>t, <2>1, <2>2, <2>6, <3>1 DEF InOrder, B!OfSub
  <2>7. ASSUME SameStill PROVE SameStill'
    <3>1. ASSUME NEW h \in Requests, hookPc[h] = "update" PROVE event[h] \in B!Numbers
      BY <1>t, <3>1 DEF HandledOnce
    <3>2. QED
      BY <2>1, <2>2, <2>7, <3>1 DEF SameStill
  <2>8. ASSUME FirmFollows PROVE FirmFollows'
    <3>1. ASSUME NEW types PROVE Done(firm.sub, types)' = Done(firm.sub, types)
      BY <1>t, <2>1, <2>2, <2>3 DEF Done, B!OfSub
    <3>2. QED
      BY <2>1, <2>2, <2>3, <2>8, <3>1 DEF FirmFollows, LastOf
  <2>9. applied' \subseteq (B!Numbers)' /\ logged' \subseteq (B!Numbers)' /\ firm' \in Firms
    BY <1>t, <2>1, <2>3
  <2>10. QED
    BY <1>t, <2>1, <2>4, <2>5, <2>6, <2>7, <2>8, <2>9 DEF FirmInv
<1>3. ASSUME NEW h \in Requests, NEW n \in 1 .. MaxEvents, B!Deliver(h, n) PROVE FirmInv'
  <2>1. n \in B!Numbers /\ UNCHANGED <<firm, events, logged, applied, disorder>>
    BY <1>3 DEF B!Deliver
  <2>2. CASE B!Seen(n)
    BY <1>3, <1>u, <2>1, <2>2 DEF B!Deliver
  <2>3. CASE ~B!Seen(n)
    <3>1. /\ hookPc'[h] = B!FirstStep(events[n].type) /\ event'[h] = n
          /\ \A g \in Requests \ {h} : hookPc'[g] = hookPc[g] /\ event'[g] = event[g]
      BY <1>3, <1>t, <2>3 DEF B!Deliver
    <3>2. events[n].type \in B!Types
      <4>1. events[n] \in [sub : Subs, type : B!Types]
        BY <1>n, <1>t, <2>1, ElementOfSeq
      <4>2. QED
        BY <4>1
    <3>3. /\ B!FirstStep(events[n].type) = "read" => events[n].type \in {"on_hold", "cancelled", "expired"}
          /\ B!FirstStep(events[n].type) = "update" => events[n].type = "active"
          /\ B!FirstStep(events[n].type) = "log" => events[n].type = "failed"
      BY <3>2 DEF B!FirstStep, B!Types
    <3>4. HandlersKnow' /\ LoggedAreDone'
      BY <1>t, <2>1, <3>1, <3>3 DEF HandlersKnow, LoggedAreDone, B!Numbers
    <3>5. ASSUME SameStill PROVE SameStill'
      BY <2>1, <3>1, <3>3, <3>5 DEF SameStill
    <3>6. QED
      BY <1>t, <1>v, <2>1, <3>4, <3>5
  <2>4. QED
    BY <2>2, <2>3
<1>4. ASSUME NEW h \in Requests, B!ReadSubscription(h) PROVE FirmInv'
  <2>1. /\ hookPc[h] = "read" /\ UNCHANGED <<firm, events, logged>>
        /\ disorder' = (disorder \/ B!OutOfOrder(event[h]))
    BY <1>4 DEF B!ReadSubscription
  <2>2. CASE B!SameSubscription(event[h])
    <3>1. /\ hookPc'[h] = "update" /\ UNCHANGED <<event, applied>>
          /\ \A g \in Requests \ {h} : hookPc'[g] = hookPc[g]
      BY <1>4, <1>t, <2>2 DEF B!ReadSubscription, B!Goto
    <3>2. HandlersKnow' /\ LoggedAreDone'
      BY <1>t, <2>1, <3>1 DEF HandlersKnow, LoggedAreDone, B!Numbers
    <3>3. ASSUME SameStill PROVE SameStill'
      BY <2>1, <2>2, <3>1, <3>3 DEF SameStill, B!SameSubscription
    <3>4. QED
      BY <1>t, <1>v, <2>1, <3>1, <3>2, <3>3
  <2>3. CASE ~B!SameSubscription(event[h])
    <3>1. B!Goto(h, "log") /\ B!Consider(event[h])
      BY <1>4, <2>3 DEF B!ReadSubscription
    <3>2. /\ event[h] \in B!Numbers /\ applied' = applied \cup {event[h]}
          /\ applied' \subseteq (B!Numbers)' /\ logged' \subseteq (B!Numbers)'
          /\ HandlersKnow' /\ LoggedAreDone'
          /\ ~B!OutOfOrder(event[h]) /\ InOrder => InOrder'
      BY <2>1, <3>1, DoneNext
    <3>3. ASSUME SameStill PROVE SameStill'
      BY <1>t, <2>1, <3>1, <3>3 DEF SameStill, B!Goto
    <3>4. ASSUME FirmFollows PROVE FirmFollows'
      <4>1. ASSUME NEW types PROVE Done(firm.sub, types)' = Done(firm.sub, types)
        BY <2>1, <2>3, <3>2 DEF Done, B!OfSub, B!SameSubscription, B!Numbers
      <4>2. QED
        BY <2>1, <3>4, <4>1 DEF FirmFollows, LastOf, B!Numbers
    <3>5. QED
      BY <1>t, <2>1, <3>2, <3>3, <3>4 DEF FirmInv
  <2>4. QED
    BY <2>2, <2>3
<1>5. ASSUME NEW h \in Requests, B!UpdateFirm(h) PROVE FirmInv'
  <2>1. /\ hookPc[h] = "update" /\ firm' = B!Updated(event[h]) /\ B!Consider(event[h])
        /\ disorder' = (disorder \/ B!OutOfOrder(event[h])
                          \/ (firm'.sub # firm.sub /\ B!MidUpdate(h)))
        /\ B!Goto(h, "log") /\ UNCHANGED <<events, logged>>
    BY <1>5 DEF B!UpdateFirm
  <2>2. /\ event[h] \in B!Numbers /\ events[event[h]] \in [sub : Subs, type : B!Types \ {"failed"}]
        /\ applied' \subseteq (B!Numbers)' /\ logged' \subseteq (B!Numbers)'
        /\ HandlersKnow' /\ LoggedAreDone'
        /\ ~B!OutOfOrder(event[h]) /\ InOrder => InOrder'
    BY <2>1, DoneNext
  <2>3. firm' \in Firms
    <3>1. event[h] \in Nat
      BY <1>n, <2>2
    <3>2. [status |-> "active", sub |-> events[event[h]].sub, renewsAt |-> event[h]] \in Firms
      BY <2>2, <3>1
    <3>3. /\ [firm EXCEPT !.status = "past_due"] \in Firms
          /\ [firm EXCEPT !.status = "cancelled"] \in Firms
          /\ [firm EXCEPT !.renewsAt = event[h]] \in Firms
      BY <1>t, <3>1
    <3>4. [status |-> "trial", sub |-> Nobody, renewsAt |-> 0] \in Firms
      OBVIOUS
    <3>5. QED
      BY <2>1, <2>2, <3>2, <3>3, <3>4 DEF B!Updated
  <2>4. ASSUME ~disorder' PROVE InOrder' /\ SameStill' /\ FirmFollows'
    <3>1. ~disorder /\ ~B!OutOfOrder(event[h]) /\ ~(firm'.sub # firm.sub /\ B!MidUpdate(h))
      BY <2>1, <2>4, Zenon
    <3>2. InOrder /\ SameStill /\ FirmFollows
      BY <1>t, <3>1
    <3>3. FirmFollows'
      BY <2>1, <3>1, <3>2, UpdatedFollows
    <3>4. SameStill'
      BY <1>t, <2>1, <3>1, <3>2 DEF SameStill, B!MidUpdate, B!Goto
    <3>5. QED
      BY <2>2, <3>1, <3>2, <3>3, <3>4
  <2>5. QED
    BY <2>2, <2>3, <2>4 DEF FirmInv
<1>6. ASSUME NEW h \in Requests, B!LogEvent(h) \/ B!Fail(h) PROVE FirmInv'
  <2>1. /\ hookPc[h] # "idle" /\ UNCHANGED <<firm, events, applied, disorder>>
        /\ logged' \in {logged, logged \cup {event[h]}}
        /\ logged' # logged => hookPc[h] = "log"
    BY <1>6 DEF B!LogEvent, B!Fail
  <2>2. /\ hookPc'[h] = "idle" /\ \A g \in Requests \ {h} : hookPc'[g] = hookPc[g] /\ event'[g] = event[g]
    BY <1>6, <1>t DEF B!LogEvent, B!Fail, B!Return
  <2>3. HandlersKnow' /\ (SameStill => SameStill')
    BY <1>t, <2>1, <2>2 DEF HandlersKnow, SameStill
  <2>4. LoggedAreDone'
    BY <1>t, <2>1, <2>2 DEF LoggedAreDone, B!Numbers
  <2>5. logged' \subseteq B!Numbers
    BY <1>t, <2>1 DEF HandledOnce
  <2>6. QED
    BY <1>t, <1>v, <2>1, <2>3, <2>4, <2>5
<1>7. CASE UNCHANGED B!billVars
  BY <1>7, <1>u DEF B!billVars
<1>8. QED
  BY <1>1, <1>2, <1>3, <1>4, <1>5, <1>6, <1>7 DEF B!Next

LEMMA MaxIsLast ==
    ASSUME NEW S \in SUBSET Nat, NEW n \in Nat, LastOf(n, S)
    PROVE  B!Max(S) = n
<1>1. n \in S /\ \A m \in S : n >= m
  BY DEF LastOf
<1>2. ASSUME NEW k \in S, \A m \in S : k >= m PROVE k = n
  BY <1>1, <1>2
<1>3. QED
  BY <1>1, <1>2 DEF B!Max

\* When every event has been dealt with, in the order of its subscription, the
\* firm has the status and the renewal date that the events of its own subscription
\* ended in, however they were mixed with another's (handleWebhook).
THEOREM FirmEndsRight == Spec => []SettledIsTrue
<1>1. BillInv /\ FirmInv => SettledIsTrue
  <2> SUFFICES ASSUME BillInv, FirmInv, logged = B!Numbers, \A h \in Requests : hookPc[h] = "idle",
                      ~disorder, firm.sub # Nobody
               PROVE  LET last == B!Max(B!OfSub(firm.sub, {"active", "on_hold", "expired"}))
                      IN  /\ firm.renewsAt = B!Max(B!OfSub(firm.sub, {"active", "cancelled"}))
                          /\ firm.status = CASE events[last].type = "active" -> "active"
                                             [] events[last].type = "on_hold" -> "past_due"
                                             [] OTHER -> "cancelled"
    BY DEF SettledIsTrue, B!SettledIsTrue
  <2>1. FirmFollows /\ LoggedAreDone /\ events \in Seq([sub : Subs, type : B!Types])
        /\ applied \subseteq B!Numbers
    BY DEF FirmInv, BillInv
  <2>2. B!Numbers \subseteq Nat
    BY <2>1 DEF B!Numbers
  <2>3. \A types \in SUBSET (B!Types \ {"failed"}) :
            Done(firm.sub, types) = B!OfSub(firm.sub, types) /\ B!OfSub(firm.sub, types) \subseteq Nat
    BY <2>1, <2>2 DEF LoggedAreDone, Done, B!OfSub
  <2>4. PICK n \in B!Numbers : /\ LastOf(n, Done(firm.sub, {"active", "on_hold", "expired"}))
                               /\ firm.status = After[events[n].type]
    BY <2>1 DEF FirmFollows
  <2>5. LastOf(firm.renewsAt, Done(firm.sub, {"active", "cancelled"}))
    BY <2>1 DEF FirmFollows
  <2>6. /\ {"active", "on_hold", "expired"} \in SUBSET (B!Types \ {"failed"})
        /\ {"active", "cancelled"} \in SUBSET (B!Types \ {"failed"})
    BY DEF B!Types
  <2>7. B!Max(B!OfSub(firm.sub, {"active", "on_hold", "expired"})) = n
    BY <2>2, <2>3, <2>4, <2>6, MaxIsLast
  <2>8. B!Max(B!OfSub(firm.sub, {"active", "cancelled"})) = firm.renewsAt
    BY <2>2, <2>3, <2>5, <2>6, MaxIsLast DEF LastOf
  <2>9. events[n].type \in {"active", "on_hold", "expired"}
    BY <2>4 DEF LastOf, Done, B!OfSub
  <2>10. QED
    BY <2>4, <2>7, <2>8, <2>9 DEF After
<1>2. Spec => []BillInv
  BY BillStart, BillNext, AccountSteps, PTL DEF Spec
<1>3. Spec => []FirmInv
  BY <1>2, FirmStart, FirmNext, AccountSteps, PTL DEF Spec
<1>4. QED
  BY <1>1, <1>2, <1>3, PTL

-----------------------------------------------------------------------------
(* Proofs: a title report *)

LEMMA TaskIdle ==
    /\ T!Idle \in Tasks /\ T!Idle.pc = "idle" /\ T!Idle.seen = {}
    /\ Opining \in Tasks /\ Opining.pc = "opine" /\ Opining.seen = {}
<1> DEFINE i == [pc |-> "idle", run |-> 0, spoilt |-> FALSE, seen |-> {}, opines |-> FALSE, to |-> "draft"]
<1>1. T!Idle = i
  BY DEF T!Idle
<1>2. 0 \in 0 .. MaxAiRuns /\ "draft" \in DOMAIN T!VALID_TRANSITIONS
  BY AccountAssumption DEF T!VALID_TRANSITIONS
<1>3. i \in Tasks
  BY <1>2 DEF Tasks, Labels
<1>4. T!Idle \in Tasks
  BY <1>1, <1>3
<1>5. T!Idle.pc = "idle" /\ T!Idle.seen = {}
  BY <1>1
<1>6. ASSUME NEW t \in Tasks
      PROVE  /\ [t EXCEPT !.pc = "opine", !.opines = TRUE] \in Tasks
             /\ [t EXCEPT !.pc = "opine", !.opines = TRUE].pc = "opine"
             /\ [t EXCEPT !.pc = "opine", !.opines = TRUE].seen = t.seen
  BY DEF Tasks, Labels
<1>7. QED
  BY <1>4, <1>5, <1>6 DEF Opining

\* A handler goes to another label, and writes one more field.
LEMMA TaskWrites ==
    ASSUME task \in [Requests -> Tasks], NEW h \in Requests, NEW l \in Labels,
           \/ task' = [task EXCEPT ![h].pc = l]
           \/ \E s \in DOMAIN T!VALID_TRANSITIONS : task' = [task EXCEPT ![h].pc = l, ![h].to = s]
           \/ task' = [task EXCEPT ![h].pc = l, ![h].spoilt = TRUE]
           \/ task' = [task EXCEPT ![h].pc = l, ![h].opines = TRUE]
    PROVE  /\ task' \in [Requests -> Tasks]
           /\ task'[h].pc = l /\ task'[h].run = task[h].run /\ task'[h].seen = task[h].seen
           /\ \A g \in Requests \ {h} : task'[g] = task[g]
<1>1. task[h] \in Tasks
  OBVIOUS
<1>2. CASE task' = [task EXCEPT ![h].pc = l]
  BY <1>1, <1>2 DEF Tasks
<1>3. ASSUME NEW s \in DOMAIN T!VALID_TRANSITIONS, task' = [task EXCEPT ![h].pc = l, ![h].to = s]
      PROVE  /\ task' \in [Requests -> Tasks]
             /\ task'[h].pc = l /\ task'[h].run = task[h].run /\ task'[h].seen = task[h].seen
             /\ \A g \in Requests \ {h} : task'[g] = task[g]
  BY <1>1, <1>3 DEF Tasks
<1>4. CASE task' = [task EXCEPT ![h].pc = l, ![h].spoilt = TRUE]
  BY <1>1, <1>4 DEF Tasks
<1>5. CASE task' = [task EXCEPT ![h].pc = l, ![h].opines = TRUE]
  BY <1>1, <1>5 DEF Tasks
<1>6. QED
  BY <1>2, <1>3, <1>4, <1>5

\* A handler is given a run.
LEMMA TaskTakes ==
    ASSUME task \in [Requests -> Tasks], NEW h \in Requests, NEW l \in Labels,
           NEW r \in 0 .. MaxAiRuns, task' = [task EXCEPT ![h].pc = l, ![h].run = r]
    PROVE  /\ task' \in [Requests -> Tasks]
           /\ task'[h].pc = l /\ task'[h].run = r /\ task'[h].seen = task[h].seen
           /\ \A g \in Requests \ {h} : task'[g] = task[g]
<1>1. task[h] \in Tasks
  OBVIOUS
<1>2. QED
  BY <1>1 DEF Tasks

\* Its delete sees the rows that there are.
LEMMA TaskSees ==
    ASSUME task \in [Requests -> Tasks], NEW h \in Requests, NEW l \in Labels,
           Froms \in SUBSET (0 .. MaxAiRuns), task' = [task EXCEPT ![h].pc = l, ![h].seen = Froms]
    PROVE  /\ task' \in [Requests -> Tasks]
           /\ task'[h].pc = l /\ task'[h].run = task[h].run /\ task'[h].seen = Froms
           /\ \A g \in Requests \ {h} : task'[g] = task[g]
<1>1. task[h] \in Tasks
  OBVIOUS
<1>2. QED
  BY <1>1 DEF Tasks

\* A handler has ended its analysis, or its request.
LEMMA TaskEnds ==
    ASSUME task \in [Requests -> Tasks], NEW h \in Requests, T!Analysed(h) \/ T!Return(h)
    PROVE  /\ task' \in [Requests -> Tasks]
           /\ task'[h].pc \in {"idle", "opine"} /\ task'[h].seen = {}
           /\ \A g \in Requests \ {h} : task'[g] = task[g]
<1>1. task' = [task EXCEPT ![h] = T!Idle] \/ task' = [task EXCEPT ![h] = Opining]
  BY DEF T!Analysed, T!Return, Opining
<1>2. QED
  BY <1>1, TaskIdle

\* A run ends, of whatever type it is.
LEMMA RunEnds ==
    ASSUME aiRuns \in Seq(Records), NEW i, NEW s \in {"done", "failed"}, T!EndRun(i, s)
    PROVE  aiRuns' \in Seq(Records) /\ Len(aiRuns') = Len(aiRuns) /\ T!Runs("defects")' = T!Runs("defects")
<1>0. Len(aiRuns) \in Nat /\ DOMAIN aiRuns = 1 .. Len(aiRuns)
  OBVIOUS
<1>1. aiRuns' = [aiRuns EXCEPT ![i].status = s] /\ \A j \in DOMAIN aiRuns : aiRuns[j] \in Records
  <2>1. \A j \in 1 .. Len(aiRuns) : aiRuns[j] \in Records
    BY ElementOfSeq
  <2>2. QED
    BY <1>0, <2>1 DEF T!EndRun
<1>2. ASSUME NEW j \in DOMAIN aiRuns
      PROVE  aiRuns'[j] \in Records /\ aiRuns'[j].type = aiRuns[j].type
  BY <1>0, <1>1 DEF Records
<1>3. DOMAIN aiRuns' = 1 .. Len(aiRuns)
  BY <1>0, <1>1
<1>4. aiRuns' \in Seq(Records) /\ Len(aiRuns') = Len(aiRuns)
  <2>1. aiRuns' \in [1 .. Len(aiRuns) -> Records]
    BY <1>0, <1>1, <1>2, <1>3
  <2>2. QED
    BY <1>0, <1>1, <2>1
<1>5. T!Runs("defects")' = T!Runs("defects")
  BY <1>0, <1>1, <1>2, <1>3 DEF T!Runs
<1>6. QED
  BY <1>4, <1>5

\* A run starts.
LEMMA RunStarts ==
    ASSUME aiRuns \in Seq(Records), NEW t \in {"defects", "opinion"}, T!startAiRun(t)
    PROVE  /\ aiRuns' \in Seq(Records)
           /\ T!Runs("defects") \subseteq 1 .. Len(aiRuns)
           /\ T!Runs("defects")' = T!Runs("defects") \cup (IF t = "defects" THEN {Len(aiRuns) + 1} ELSE {})
<1>1. aiRuns' = Append(aiRuns, [type |-> t, status |-> "running"]) /\ [type |-> t, status |-> "running"] \in Records
  BY DEF T!startAiRun, Records
<1>2. aiRuns' \in Seq(Records) /\ Len(aiRuns') = Len(aiRuns) + 1 /\ Len(aiRuns) \in Nat
  BY <1>1
<1>3. \A j \in 1 .. Len(aiRuns) : aiRuns'[j] = aiRuns[j]
  BY <1>1
<1>4. aiRuns'[Len(aiRuns) + 1].type = t
  BY <1>1, <1>2
<1>5. DOMAIN aiRuns = 1 .. Len(aiRuns) /\ DOMAIN aiRuns' = 1 .. Len(aiRuns) + 1
  BY <1>2
<1>6. QED
  BY <1>2, <1>3, <1>4, <1>5 DEF T!Runs

\* Steps that neither analyse nor find leave the analyses as they are.
LEMMA OneRunStays ==
    ASSUME OneRun, task \in [Requests -> Tasks], T!Runs("defects")' = T!Runs("defects"), Froms' \subseteq Froms,
           \A h \in Requests : {task[h].pc, task'[h].pc} \cap Analyses # {} => task'[h] = task[h]
    PROVE  OneRun'
<1>1. (T!Analysing)' = T!Analysing /\ \A h \in T!Analysing : task'[h] = task[h]
  BY DEF T!Analysing, Analyses
<1>2. T!Stored' = T!Stored
  BY <1>1 DEF T!Stored
<1>3. \A h \in Requests : task'[h].pc \in {"commit", "finish"} => task'[h] = task[h]
  BY DEF Analyses
<1>4. QED
  BY <1>1, <1>2, <1>3 DEF OneRun

\* The one analysis goes on, or ends.
LEMMA OneRunMoves ==
    ASSUME OneRun, NEW h \in T!Analysing, T!Runs("defects")' = T!Runs("defects"),
           T!Runs("defects") \subseteq Nat,
           \A g \in Requests \ {h} : task'[g] = task[g],
           Froms' \subseteq Froms \cup {task[h].run},
           h \in (T!Analysing)' =>
               /\ task'[h].run = task[h].run
               /\ task'[h].pc = "commit" => Froms' \subseteq task'[h].seen
               /\ task'[h].pc = "finish" => Froms' \subseteq {task[h].run},
           h \notin (T!Analysing)' => Froms' \subseteq {task[h].run}
    PROVE  OneRun'
<1> DEFINE run == task[h].run
<1>1. T!Analysing = {h} /\ run \in T!Runs("defects") /\ \A i \in T!Runs("defects") : i <= run
  BY DEF OneRun
<1>2. h \in Requests /\ (T!Analysing)' \subseteq {h}
  BY <1>1 DEF T!Analysing
<1>3. \A g \in Requests : task'[g].pc \in {"commit", "finish"} => g = h /\ h \in (T!Analysing)'
  BY <1>2 DEF T!Analysing
<1>4. T!Stored = T!Runs("defects") \ {run}
  BY <1>1 DEF T!Stored
<1>5. CASE h \in (T!Analysing)'
  <2>1. T!Stored' = T!Stored
    BY <1>2, <1>4, <1>5 DEF T!Stored
  <2>2. \A f \in Froms' : \A i \in T!Stored' : i <= f
    BY <1>1, <1>4, <2>1 DEF OneRun
  <2>3. QED
    BY <1>1, <1>2, <1>3, <1>5, <2>2 DEF OneRun
<1>6. CASE h \notin (T!Analysing)'
  <2>1. (T!Analysing)' = {} /\ T!Stored' = T!Runs("defects")
    BY <1>2, <1>6 DEF T!Stored
  <2>2. QED
    BY <1>1, <1>3, <1>6, <2>1 DEF OneRun
<1>7. QED
  BY <1>5, <1>6

LEMMA TitleStart == Init => TitleInv
<1> SUFFICES ASSUME Init PROVE TitleInv
  OBVIOUS
<1>1. /\ defects = {} /\ aiRuns = <<>> /\ task = [h \in Requests |-> T!Idle] /\ byHand = FALSE
  BY DEF Init, T!Init
<1>2. TitleTypes
  BY <1>1, TaskIdle DEF TitleTypes
<1>3. \A h \in Requests : task[h].pc = "idle" /\ task[h].seen = {}
  BY <1>1, TaskIdle
<1>4. T!Analysing = {} /\ Froms = {}
  BY <1>1, <1>3 DEF T!Analysing, Froms
<1>5. OneRun
  BY <1>3, <1>4 DEF OneRun
<1>6. QED
  BY <1>1, <1>2, <1>3, <1>5 DEF TitleInv

LEMMA TitleNext == TitleInv /\ [T!Next]_(T!reportVars) => TitleInv'
<1> SUFFICES ASSUME TitleInv, [T!Next]_(T!reportVars) PROVE TitleInv'
  OBVIOUS
<1>t. /\ defects \subseteq Rows /\ aiRuns \in Seq(Records) /\ task \in [Requests -> Tasks]
      /\ \A h \in Requests : 0 \notin task[h].seen
      /\ byHand => \E d \in defects : d.from = 0
      /\ overlapped \/ failed \/ OneRun
      /\ MaxAiRuns \in Nat
  BY AccountAssumption DEF TitleInv, TitleTypes
<1>n. T!Runs("defects") \subseteq 1 .. Len(aiRuns) /\ Len(aiRuns) \in Nat /\ T!Runs("defects") \subseteq Nat
  BY <1>t DEF T!Runs
<1> DEFINE Known == overlapped' \/ failed' \/ OneRun'
           Sees == \A h \in Requests : 0 \notin task'[h].seen
           Entered == byHand' => \E d \in defects' : d.from = 0
\* What the advocate does.
<1>a. ASSUME UNCHANGED <<aiRuns, task, overlapped, failed>>, defects' \subseteq Rows, Froms' \subseteq Froms, Entered
      PROVE  TitleInv'
  <2>1. T!Runs("defects")' = T!Runs("defects")
    BY <1>a DEF T!Runs
  <2>2. ASSUME OneRun PROVE OneRun'
    BY <1>a, <1>t, <2>1, <2>2, OneRunStays
  <2>3. QED
    BY <1>a, <1>t, <2>2 DEF TitleInv, TitleTypes
\* What a handler does that is not an analysis.
<1>h. ASSUME NEW h \in Requests, UNCHANGED <<defects, byHand>>,
             ~overlapped' /\ ~failed' => ~overlapped /\ ~failed,
             aiRuns' \in Seq(Records), task' \in [Requests -> Tasks],
             \A g \in Requests \ {h} : task'[g] = task[g],
             task'[h].seen \in {{}, task[h].seen},
             ~failed' => /\ task[h].pc \notin Analyses /\ task'[h].pc \notin Analyses
                         /\ T!Runs("defects")' = T!Runs("defects")
      PROVE  TitleInv'
  <2>1. ASSUME ~overlapped', ~failed' PROVE OneRun'
    <3>1. OneRun
      BY <1>h, <1>t, <2>1, Zenon
    <3>2. Froms' = Froms
      BY <1>h DEF Froms
    <3>3. QED
      BY <1>h, <1>t, <2>1, <3>1, <3>2, OneRunStays
  <2>2. Sees /\ Entered
    BY <1>h, <1>t
  <2>3. QED
    BY <1>h, <1>t, <2>1, <2>2 DEF TitleInv, TitleTypes
\* The analysis goes on, or ends.
<1>g. ASSUME NEW h \in T!Analysing, UNCHANGED <<byHand, overlapped, failed>>,
             defects' \subseteq Rows, aiRuns' \in Seq(Records), task' \in [Requests -> Tasks],
             T!Runs("defects")' = T!Runs("defects"),
             \A g \in Requests \ {h} : task'[g] = task[g],
             0 \notin task'[h].seen, Entered,
             OneRun => /\ Froms' \subseteq Froms \cup {task[h].run}
                       /\ h \in (T!Analysing)' =>
                             /\ task'[h].run = task[h].run
                             /\ task'[h].pc = "commit" => Froms' \subseteq task'[h].seen
                             /\ task'[h].pc = "finish" => Froms' \subseteq {task[h].run}
                       /\ h \notin (T!Analysing)' => Froms' \subseteq {task[h].run}
      PROVE  TitleInv'
  <2>1. OneRun => OneRun'
    BY <1>g, <1>n, OneRunMoves
  <2>2. Sees
    BY <1>g, <1>t
  <2>3. QED
    BY <1>g, <1>t, <2>1, <2>2 DEF TitleInv, TitleTypes
<1>1. ASSUME NEW p, T!Fill(p) \/ T!Clear \/ T!Patch(p) PROVE TitleInv'
  <2>1. UNCHANGED <<defects, aiRuns, task, byHand, overlapped, failed>>
    BY <1>1 DEF T!Fill, T!Clear, T!Patch, T!pastVars
  <2>2. QED
    BY <1>a, <1>t, <2>1 DEF Froms
<1>2. ASSUME NEW b \in BOOLEAN, T!addManualDefect(b) PROVE TitleInv'
  <2>1. /\ defects' = defects \cup {[from |-> 0, blocker |-> b, settled |-> FALSE]}
        /\ UNCHANGED <<aiRuns, task, overlapped, failed>>
    BY <1>2 DEF T!addManualDefect
  <2>2. PICK e \in Rows : e.from = 0 /\ e = [from |-> 0, blocker |-> b, settled |-> FALSE]
    <3>1. [from |-> 0, blocker |-> b, settled |-> FALSE] \in Rows
      BY <1>t DEF Rows
    <3>2. QED
      BY <3>1
  <2>3. defects' \subseteq Rows /\ Froms' \subseteq Froms
    BY <1>t, <2>1, <2>2 DEF Froms
  <2>4. Entered
    BY <2>1, <2>2
  <2>5. QED
    BY <1>a, <2>1, <2>3, <2>4
<1>3. ASSUME NEW d \in defects, T!applyDefectAck(d) PROVE TitleInv'
  <2>1. UNCHANGED <<aiRuns, task, byHand, overlapped, failed>>
    BY <1>3 DEF T!applyDefectAck, T!pastVars
  <2>2. PICK e \in Rows : e.from = d.from /\ defects' = (defects \ {d}) \cup {e}
    <3>1. /\ [d EXCEPT !.settled = TRUE] \in Rows /\ [d EXCEPT !.settled = TRUE].from = d.from
          /\ [d EXCEPT !.blocker = ~d.blocker] \in Rows /\ [d EXCEPT !.blocker = ~d.blocker].from = d.from
      BY <1>t DEF Rows
    <3>2. QED
      BY <1>3, <3>1 DEF T!applyDefectAck
  <2>3. defects' \subseteq Rows /\ Froms' \subseteq Froms
    BY <1>t, <2>2 DEF Froms
  <2>4. Entered
    BY <1>t, <2>1, <2>2
  <2>5. QED
    BY <1>a, <2>1, <2>3, <2>4
<1>4. ASSUME NEW h \in Requests,
             \/ \E s \in DOMAIN T!VALID_TRANSITIONS : T!BeginTransition(h, s)
             \/ T!Enqueue(h) \/ T!BeginOpinion(h)
      PROVE  TitleInv'
  <2>1. /\ task[h].pc = "idle" /\ UNCHANGED <<defects, aiRuns, byHand, overlapped, failed>>
    BY <1>4 DEF T!BeginTransition, T!Enqueue, T!BeginOpinion, T!pastVars
  <2>l. PICK l \in {"transition", "start", "opine"} :
              \/ task' = [task EXCEPT ![h].pc = l]
              \/ \E s \in DOMAIN T!VALID_TRANSITIONS : task' = [task EXCEPT ![h].pc = l, ![h].to = s]
              \/ task' = [task EXCEPT ![h].pc = l, ![h].opines = TRUE]
    BY <1>4 DEF T!BeginTransition, T!Enqueue, T!BeginOpinion, T!Goto
  <2>2. /\ task' \in [Requests -> Tasks] /\ task'[h].pc \in {"transition", "start", "opine"}
        /\ task'[h].seen = task[h].seen /\ \A g \in Requests \ {h} : task'[g] = task[g]
    <3>1. l \in Labels /\ task \in [Requests -> Tasks]
      BY <1>t DEF Labels
    <3>2. /\ task' \in [Requests -> Tasks]
          /\ task'[h].pc = l /\ task'[h].seen = task[h].seen
          /\ \A g \in Requests \ {h} : task'[g] = task[g]
      BY <2>l, <3>1, TaskWrites
    <3>3. QED
      BY <3>2
  <2>3. QED
    BY <1>h, <1>t, <2>1, <2>2 DEF Analyses, T!Runs
<1>5. ASSUME NEW h \in Requests, T!Transition(h) \/ T!Mirror(h) \/ T!Crash(h) PROVE TitleInv'
  <2>1. /\ UNCHANGED <<defects, byHand, overlapped>> /\ T!Return(h)
        /\ failed' = failed \/ (failed' /\ ~failed)
        /\ ~failed' => task[h].pc \notin Analyses
        /\ aiRuns' = aiRuns \/ \E s \in {"done", "failed"} : T!EndRun(task[h].run, s)
    BY <1>5 DEF T!Transition, T!Mirror, T!Crash, T!pastVars, Analyses
  <2>2. /\ task' \in [Requests -> Tasks] /\ task'[h].pc \in {"idle", "opine"} /\ task'[h].seen = {}
        /\ \A g \in Requests \ {h} : task'[g] = task[g]
    BY <1>t, <2>1, TaskEnds
  <2>3. aiRuns' \in Seq(Records) /\ T!Runs("defects")' = T!Runs("defects")
    BY <1>t, <2>1, RunEnds DEF T!Runs
  <2>4. ~failed' => ~failed
    BY <2>1, Zenon
  <2>5. QED
    BY <1>h, <2>1, <2>2, <2>3, <2>4 DEF Analyses
<1>6. ASSUME NEW h \in Requests, T!StoreFails(h) PROVE TitleInv'
  <2>1. /\ UNCHANGED <<defects, byHand>> /\ failed' = TRUE /\ T!EndRun(task[h].run, "failed")
        /\ T!Return(h) \/ task' = [task EXCEPT ![h].pc = "replace", ![h].spoilt = TRUE]
    BY <1>6 DEF T!StoreFails
  <2>2. /\ task' \in [Requests -> Tasks] /\ task'[h].seen \in {{}, task[h].seen}
        /\ \A g \in Requests \ {h} : task'[g] = task[g]
    <3>1. CASE T!Return(h)
      BY <1>t, <3>1, TaskEnds
    <3>2. CASE task' = [task EXCEPT ![h].pc = "replace", ![h].spoilt = TRUE]
      BY <1>t, <3>2, TaskWrites DEF Labels
    <3>3. QED
      BY <2>1, <3>1, <3>2
  <2>3. aiRuns' \in Seq(Records)
    BY <1>t, <2>1, RunEnds
  <2>4. QED
    BY <1>h, <2>1, <2>2, <2>3
<1>7. ASSUME NEW h \in Requests, T!StartOpinion(h) PROVE TitleInv'
  <2>1. /\ task[h].pc = "opine" /\ Len(aiRuns) < MaxAiRuns /\ T!startAiRun("opinion")
        /\ task' = [task EXCEPT ![h].pc = "mirror", ![h].run = Len(aiRuns) + 1]
        /\ UNCHANGED <<defects, byHand, overlapped, failed>>
    BY <1>7 DEF T!StartOpinion, T!pastVars
  <2>2. Len(aiRuns) + 1 \in 0 .. MaxAiRuns /\ "mirror" \in Labels
    BY <1>t, <1>n, <2>1 DEF Labels
  <2>3. /\ task' \in [Requests -> Tasks] /\ task'[h].pc = "mirror" /\ task'[h].seen = task[h].seen
        /\ \A g \in Requests \ {h} : task'[g] = task[g]
    BY <1>t, <2>1, <2>2, TaskTakes
  <2>4. aiRuns' \in Seq(Records) /\ T!Runs("defects")' = T!Runs("defects")
    BY <1>t, <2>1, RunStarts
  <2>5. QED
    BY <1>h, <2>1, <2>3, <2>4 DEF Analyses
<1>8. ASSUME NEW h \in Requests, T!StartAnalysis(h) PROVE TitleInv'
  <2>1. /\ task[h].pc = "start" /\ Len(aiRuns) < MaxAiRuns /\ T!startAiRun("defects")
        /\ task' = [task EXCEPT ![h].pc = "analyse", ![h].run = Len(aiRuns) + 1]
        /\ overlapped' = (overlapped \/ T!Analysing # {})
        /\ UNCHANGED <<defects, byHand, failed>>
    BY <1>8 DEF T!StartAnalysis
  <2>2. Len(aiRuns) + 1 \in 0 .. MaxAiRuns /\ "analyse" \in Labels
    BY <1>t, <1>n, <2>1 DEF Labels
  <2>3. /\ task' \in [Requests -> Tasks] /\ task'[h].pc = "analyse" /\ task'[h].seen = task[h].seen
        /\ task'[h].run = Len(aiRuns) + 1 /\ \A g \in Requests \ {h} : task'[g] = task[g]
    BY <1>t, <2>1, <2>2, TaskTakes
  <2>4. aiRuns' \in Seq(Records) /\ T!Runs("defects")' = T!Runs("defects") \cup {Len(aiRuns) + 1}
    BY <1>t, <2>1, RunStarts
  <2>5. ASSUME ~overlapped', ~failed' PROVE OneRun'
    <3>1. OneRun /\ T!Analysing = {}
      BY <1>t, <2>1, <2>5, Zenon
    <3>2. (T!Analysing)' = {h}
      BY <2>3, <3>1 DEF T!Analysing
    <3>3. \A i \in T!Runs("defects")' : i <= Len(aiRuns) + 1
      BY <1>n, <2>4
    <3>4. Froms' = Froms /\ T!Stored' \subseteq T!Stored
      BY <2>1, <2>3, <2>4, <3>1, <3>2 DEF Froms, T!Stored
    <3>5. \A g \in Requests : task'[g].pc \notin {"commit", "finish"}
      BY <2>3, <3>1 DEF T!Analysing
    <3>6. QED
      BY <2>3, <2>4, <3>1, <3>2, <3>3, <3>4, <3>5 DEF OneRun
  <2>6. Sees /\ Entered
    BY <1>t, <2>1, <2>3
  <2>7. QED
    BY <1>t, <2>1, <2>3, <2>4, <2>5, <2>6 DEF TitleInv, TitleTypes
<1>9. ASSUME NEW h \in Requests, T!Analyse(h) PROVE TitleInv'
  <2>1. /\ h \in T!Analysing /\ UNCHANGED <<defects, byHand, overlapped, failed>>
        /\ aiRuns' = aiRuns \/ T!EndRun(task[h].run, "failed")
        /\ \/ task' = [task EXCEPT ![h].pc = "replace"]
           \/ task' = [task EXCEPT ![h].pc = "replace", ![h].spoilt = TRUE]
    BY <1>9 DEF T!Analyse, T!Goto, T!pastVars, T!Analysing
  <2>2. /\ task' \in [Requests -> Tasks] /\ task'[h].pc = "replace" /\ task'[h].seen = task[h].seen
        /\ task'[h].run = task[h].run /\ \A g \in Requests \ {h} : task'[g] = task[g]
    BY <1>t, <2>1, TaskWrites DEF Labels
  <2>3. aiRuns' \in Seq(Records) /\ T!Runs("defects")' = T!Runs("defects")
    BY <1>t, <2>1, RunEnds DEF T!Runs
  <2>4. Froms' = Froms /\ h \in (T!Analysing)'
    BY <2>1, <2>2 DEF Froms, T!Analysing
  <2>5. QED
    BY <1>g, <1>t, <2>1, <2>2, <2>3, <2>4
<1>10. ASSUME NEW h \in Requests, T!Replace(h) PROVE TitleInv'
  <2>1. /\ h \in T!Analysing /\ UNCHANGED <<defects, aiRuns, byHand, overlapped, failed>>
        /\ task' = [task EXCEPT ![h].pc = "commit", ![h].seen = Froms]
    BY <1>10 DEF T!Replace, T!Wiped, T!pastVars, T!Analysing, Froms
  <2>2. Froms \in SUBSET (0 .. MaxAiRuns) /\ 0 \notin Froms /\ 0 \in 0 .. MaxAiRuns /\ "commit" \in Labels
    BY <1>t DEF Froms, Rows, Labels
  <2>3. /\ task' \in [Requests -> Tasks] /\ task'[h].pc = "commit" /\ task'[h].seen = Froms
        /\ task'[h].run = task[h].run /\ \A g \in Requests \ {h} : task'[g] = task[g]
    BY <1>t, <2>1, <2>2, TaskSees
  <2>4. Froms' = Froms /\ h \in (T!Analysing)'
    BY <2>1, <2>3 DEF Froms, T!Analysing
  <2>5. QED
    BY <1>g, <1>t, <2>1, <2>2, <2>3, <2>4 DEF T!Runs
<1>11. ASSUME NEW h \in Requests, T!Commit(h) PROVE TitleInv'
  <2>1. /\ h \in T!Analysing /\ task[h].pc = "commit" /\ UNCHANGED <<aiRuns, byHand, overlapped, failed>>
        /\ T!Analysed(h) \/ task' = [task EXCEPT ![h].pc = "finish"]
    BY <1>11 DEF T!Commit, T!Goto, T!pastVars, T!Analysing
  <2>2. PICK found \in SUBSET {[from |-> task[h].run, blocker |-> b, settled |-> FALSE] : b \in BOOLEAN} :
            defects' = {d \in defects : d.from \notin task[h].seen} \cup found
    BY <1>11 DEF T!Commit
  <2>3. found \subseteq Rows /\ \A d \in found : d.from = task[h].run
    <3>1. task[h].run \in 0 .. MaxAiRuns
      BY <1>t, <2>1 DEF T!Analysing, Tasks
    <3>2. ASSUME NEW b \in BOOLEAN
          PROVE  /\ [from |-> task[h].run, blocker |-> b, settled |-> FALSE] \in Rows
                 /\ [from |-> task[h].run, blocker |-> b, settled |-> FALSE].from = task[h].run
      BY <3>1 DEF Rows
    <3>3. QED
      BY <3>2
  <2>4. /\ task' \in [Requests -> Tasks] /\ \A g \in Requests \ {h} : task'[g] = task[g]
        /\ 0 \notin task'[h].seen
        /\ h \in (T!Analysing)' => task'[h].run = task[h].run /\ task'[h].pc = "finish"
    <3>1. CASE T!Analysed(h)
      BY <1>t, <2>1, <3>1, TaskEnds DEF T!Analysing
    <3>2. CASE task' = [task EXCEPT ![h].pc = "finish"]
      BY <1>t, <2>1, <3>2, TaskWrites DEF T!Analysing, Labels
    <3>3. QED
      BY <2>1, <3>1, <3>2
  <2>5. defects' \subseteq Rows /\ Entered
    BY <1>t, <2>1, <2>2, <2>3 DEF T!Analysing
  <2>6. OneRun => Froms' \subseteq {task[h].run}
    <3>1. OneRun => Froms \subseteq task[h].seen
      BY <2>1 DEF OneRun, T!Analysing
    <3>2. QED
      BY <2>2, <2>3, <3>1 DEF Froms
  <2>7. T!Runs("defects")' = T!Runs("defects") /\ aiRuns' \in Seq(Records)
    BY <1>t, <2>1 DEF T!Runs
  <2>8. QED
    BY <1>g, <2>1, <2>4, <2>5, <2>6, <2>7
<1>12. ASSUME NEW h \in Requests, T!FinishAnalysis(h) PROVE TitleInv'
  <2>1. /\ h \in T!Analysing /\ task[h].pc = "finish" /\ UNCHANGED <<defects, byHand, overlapped, failed>>
        /\ T!Analysed(h) /\ T!EndRun(task[h].run, "done")
    BY <1>12 DEF T!FinishAnalysis, T!pastVars, T!Analysing
  <2>2. /\ task' \in [Requests -> Tasks] /\ \A g \in Requests \ {h} : task'[g] = task[g]
        /\ 0 \notin task'[h].seen /\ h \notin (T!Analysing)'
    BY <1>t, <2>1, TaskEnds DEF T!Analysing
  <2>3. aiRuns' \in Seq(Records) /\ T!Runs("defects")' = T!Runs("defects")
    BY <1>t, <2>1, RunEnds
  <2>4. OneRun => Froms' \subseteq {task[h].run} /\ Froms' = Froms
    BY <2>1 DEF OneRun, T!Analysing, Froms
  <2>5. QED
    BY <1>g, <1>t, <2>1, <2>2, <2>3, <2>4
<1>13. CASE UNCHANGED T!reportVars
  BY <1>13, <1>a, <1>t DEF T!reportVars, T!pastVars, Froms
<1>14. QED
  BY <1>1, <1>2, <1>3, <1>4, <1>5, <1>6, <1>7, <1>8, <1>9, <1>10, <1>11, <1>12, <1>13
     DEF T!Next, T!Advocate, T!Handler

\* What the advocate entered stays on the report, and the AI defects that nobody
\* settled are those of the last analysis, unless two analyses overlapped or a step
\* of one failed (replaceAiDefects), for any number of requests and runs.
THEOREM ReportKeepsItsDefects == Spec => []DefectsAreOfLastRun
<1>1. TitleInv => DefectsAreOfLastRun
  <2> SUFFICES ASSUME TitleInv PROVE DefectsAreOfLastRun
    OBVIOUS
  <2>1. OneRun => \A d \in defects : d.from # 0 /\ ~d.settled => \A i \in T!Stored : i <= d.from
    BY DEF OneRun, Froms
  <2>2. QED
    BY <2>1, Zenon DEF TitleInv, DefectsAreOfLastRun, T!DefectsAreOfLastRun
<1>2. Spec => []TitleInv
  BY TitleStart, TitleNext, AccountSteps, PTL DEF Spec
<1>3. QED
  BY <1>1, <1>2, PTL

=============================================================================
