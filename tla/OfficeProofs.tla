----------------------------- MODULE OfficeProofs -----------------------------
(* What the components around one matter keep, for any number of calls,     *)
(* lawyers, requests and replicas.  The definitions proved about are those  *)
(* of the components' modules, under the names MCOffice gives to their      *)
(* instances.                                                               *)
EXTENDS MCOffice, TLAPS, FiniteSetTheorems, WellFoundedInduction

(* Every step is one component's step or leaves it alone. *)

LEMMA CallSteps == [Next]_vars => [L!Next]_(L!callVars)
  BY DEF Next, vars, Handover, Cover, Audit, Hear, LookUp, Call, courtVars, callVars, L!callVars

\* An instance has a Cardinality of its own, which is the same.
LEMMA CallCardinality == ASSUME NEW S_ PROVE L!Cardinality(S_) = Cardinality(S_)
  BY DEF L!Cardinality, Cardinality

-----------------------------------------------------------------------------
(* The limiter of interactive calls (LiveCalls) *)

Running == {c \in Calls : callPc[c] = "running"}

\* The count is the number of calls that run, and the queue holds the callers
\* that sleep, each once: what a Tail leaves is neither woken nor lost.
Counted == running = Cardinality(Running)
Sleeping ==
    /\ \A i \in 1 .. Len(waiting) : callPc[waiting[i]] = "waiting"
    /\ \A i, j \in 1 .. Len(waiting) : waiting[i] = waiting[j] => i = j

CallTypes == /\ waiting \in Seq(Calls) /\ barged \in Nat
             /\ callPc \in [Calls -> {"idle", "waiting", "woken", "running"}]

Promised == Cardinality(L!Woken)
Kept == /\ waiting # <<>> => running + Promised >= MAX_CONCURRENT
        /\ running + Promised <= MAX_CONCURRENT + barged

CallInv == CallTypes /\ Counted /\ Sleeping /\ Kept

LEMMA CallSets ==
    /\ IsFiniteSet(Running) /\ Cardinality(Running) \in Nat
    /\ IsFiniteSet(L!Woken) /\ Promised \in Nat
<1>1. Running \subseteq Calls /\ L!Woken \subseteq Calls
  BY DEF Running, L!Woken
<1>2. QED
  BY <1>1, FS_Subset, FS_CardinalityType, OfficeAssumption DEF Promised

LEMMA CallInit == L!Init => CallInv
<1> SUFFICES ASSUME L!Init PROVE CallInv
  OBVIOUS
<1>1. Running = {} /\ L!Woken = {}
  BY DEF L!Init, Running, L!Woken
<1>2. QED
  BY <1>1, FS_EmptySet, OfficeAssumption DEF L!Init, CallInv, CallTypes, Counted, Sleeping, Kept, Promised

LEMMA CallNext == CallInv /\ [L!Next]_(L!callVars) => CallInv'
<1> SUFFICES ASSUME CallInv, [L!Next]_(L!callVars) PROVE CallInv'
  OBVIOUS
<1>i. CallTypes /\ Counted /\ Sleeping /\ Kept
  BY DEF CallInv
<1>m. MAX_CONCURRENT \in Nat /\ running \in Nat /\ Promised \in Nat /\ barged \in Nat
  BY <1>i, OfficeAssumption, CallSets DEF Counted, CallTypes
<1>1. ASSUME NEW c \in Calls, L!Enter(c) PROVE CallInv'
  <2>1. c \notin Running /\ Running' = Running \cup {c} /\ (L!Woken)' = L!Woken
    BY <1>1, <1>i DEF L!Enter, CallTypes, Running, L!Woken
  <2>2. CallTypes' /\ Sleeping'
    BY <1>1, <1>i DEF L!Enter, CallTypes, Sleeping
  <2>c. Counted'
    BY <1>1, <1>i, <2>1, FS_AddElement, CallSets DEF L!Enter, Counted
  <2>3. Promised' = Promised /\ (L!Woken = {} => Promised = 0)
    BY <2>1, FS_EmptySet DEF Promised
  <2>4. Kept'
    BY <1>1, <1>i, <1>m, <2>3 DEF L!Enter, L!Full, Kept
  <2>5. QED
    BY <2>2, <2>c, <2>4 DEF CallInv
<1>2. ASSUME NEW c \in Calls, L!Queue(c) PROVE CallInv'
  <2>1. Running' = Running /\ (L!Woken)' = L!Woken
    BY <1>2, <1>i DEF L!Queue, CallTypes, Running, L!Woken
  <2>p. Promised' = Promised
    BY <2>1 DEF Promised
  <2>2. CallTypes' /\ Counted'
    BY <1>2, <1>i, <2>1 DEF L!Queue, CallTypes, Counted
  <2>3. Sleeping'
    BY <1>2, <1>i DEF L!Queue, CallTypes, Sleeping
  <2>4. Kept'
    BY <1>2, <1>i, <1>m, <2>p DEF L!Queue, L!Full, Kept
  <2>5. QED
    BY <2>2, <2>3, <2>4 DEF CallInv
<1>3. ASSUME NEW c \in Calls, L!Resume(c) PROVE CallInv'
  <2>1. /\ c \notin Running /\ Running' = Running \cup {c}
        /\ c \in L!Woken /\ (L!Woken)' = L!Woken \ {c}
    BY <1>3, <1>i DEF L!Resume, CallTypes, Running, L!Woken
  <2>2. CallTypes' /\ Sleeping'
    BY <1>3, <1>i DEF L!Resume, CallTypes, Sleeping
  <2>c. Counted'
    BY <1>3, <1>i, <2>1, FS_AddElement, CallSets DEF L!Resume, Counted
  <2>3. Promised' = Promised - 1
    BY <2>1, FS_RemoveElement, CallSets DEF Promised
  <2>4. Kept'
    BY <1>3, <1>i, <1>m, <2>3 DEF L!Resume, Kept
  <2>5. QED
    BY <2>2, <2>c, <2>4 DEF CallInv
<1>4. ASSUME NEW c \in Calls, L!Finish(c) PROVE CallInv'
  <2>r. c \in Running /\ Running' = Running \ {c}
    <3>1. CASE waiting = <<>>
      BY <1>4, <1>i, <3>1 DEF L!Finish, CallTypes, Running
    <3>2. CASE waiting # <<>>
      <4>1. Head(waiting) \in Calls /\ callPc[Head(waiting)] = "waiting"
        BY <1>i, <3>2 DEF CallTypes, Sleeping
      <4>2. QED
        BY <1>4, <1>i, <3>2, <4>1 DEF L!Finish, CallTypes, Running
    <3>3. QED
      BY <3>1, <3>2
  <2>c. Counted'
    BY <1>4, <1>i, <2>r, FS_RemoveElement, CallSets DEF L!Finish, Counted
  <2>1. CASE waiting = <<>>
    <3>1. (L!Woken)' = L!Woken
      BY <1>4, <1>i, <2>1 DEF L!Finish, CallTypes, L!Woken
    <3>2. (CallTypes /\ Sleeping)'
      BY <1>4, <1>i, <2>1 DEF L!Finish, CallTypes, Sleeping
    <3>p. Promised' = Promised
      BY <3>1 DEF Promised
    <3>3. Kept'
      BY <1>4, <1>i, <1>m, <2>1, <3>p DEF L!Finish, Kept
    <3>4. QED
      BY <2>c, <3>2, <3>3 DEF CallInv
  <2>2. CASE waiting # <<>>
    <3> DEFINE w == Head(waiting)
    <3>1. w \in Calls /\ w = waiting[1] /\ callPc[w] = "waiting" /\ w # c
      BY <1>4, <1>i, <2>2 DEF CallTypes, Sleeping, L!Finish
    <3>2. callPc' = [callPc EXCEPT ![c] = "idle", ![w] = "woken"] /\ waiting' = Tail(waiting)
      BY <1>4, <2>2 DEF L!Finish
    <3>3. CallTypes'
      BY <1>4, <1>i, <2>2, <3>1, <3>2 DEF L!Finish, CallTypes
    <3>4. Sleeping'
      <4>1. ASSUME NEW i \in 1 .. Len(waiting')
            PROVE  waiting'[i] = waiting[i+1] /\ i + 1 \in 2 .. Len(waiting)
        BY <1>i, <2>2, <3>2 DEF CallTypes
      <4>2. \A i \in 1 .. Len(waiting') :
               waiting'[i] # w /\ callPc[waiting'[i]] = "waiting" /\ waiting'[i] \in Calls
        BY <1>i, <2>2, <3>1, <4>1 DEF CallTypes, Sleeping
      <4>3. \A i \in 1 .. Len(waiting') : callPc'[waiting'[i]] = "waiting"
        BY <1>4, <1>i, <3>1, <3>2, <4>2 DEF CallTypes, L!Finish
      <4>4. Len(waiting') \in Nat /\ Len(waiting) \in Nat
        BY <1>i, <3>3 DEF CallTypes
      <4>5. \A i, j \in 1 .. Len(waiting') : waiting'[i] = waiting'[j] => i = j
        BY <1>i, <4>1, <4>4 DEF Sleeping
      <4>6. QED
        BY <4>3, <4>5 DEF Sleeping
    <3>5. w \notin L!Woken /\ (L!Woken)' = L!Woken \cup {w}
      BY <1>4, <1>i, <3>1, <3>2 DEF L!Finish, CallTypes, L!Woken
    <3>6. Promised' = Promised + 1
      BY <3>5, FS_AddElement, CallSets DEF Promised
    <3>7. Kept'
      BY <1>4, <1>i, <1>m, <2>2, <3>6 DEF L!Finish, Kept
    <3>8. QED
      BY <2>c, <3>3, <3>4, <3>7 DEF CallInv
  <2>3. QED
    BY <2>1, <2>2
<1>5. CASE UNCHANGED L!callVars
  BY <1>5 DEF L!callVars, CallInv, CallTypes, Counted, Sleeping, Running, Kept, Promised, L!Woken
<1>6. QED
  BY <1>1, <1>2, <1>3, <1>4, <1>5 DEF L!Next

\* The limiter loses no place and exceeds its limit only by callers that
\* overtook one already woken, for any limit and any number of calls
\* (limited of ecourts-case-store.service.ts).
THEOREM LimiterKeepsPlaces == Spec => []PlacesKept
<1>1. Init => CallInv
  BY CallInit DEF Init
<1>2. CallInv /\ [Next]_vars => CallInv'
  BY CallNext, CallSteps
<1>3. CallInv => PlacesKept
  BY CallCardinality DEF CallInv, Kept, Promised, PlacesKept, L!PlacesKept
<1>4. QED
  BY <1>1, <1>2, <1>3, PTL DEF Spec

-----------------------------------------------------------------------------
(* The case store and its job (CaseStore) *)

LEMMA CaseSteps == [Next]_vars => [S!Next]_(S!storeVars)
  BY DEF Next, vars, Handover, Cover, Audit, Hear, LookUp, Call, courtVars, caseVars, S!storeVars

Busy == {"enqueue", "job", "notify"}

CaseTypes ==
    /\ S!TypeOK
    /\ \A h \in Requests : casePc[h] # "idle" => at[h] \in Users
    /\ \A h \in Requests : casePc[h] \in {"job", "notify"} => job[h] \in Users

\* What replica r remembers is in the queue, on its way there, or in the hands
\* of a handler; but no more in those of one that has answered in r itself, since
\* r has forgotten that job.
HasJob(r) ==
    \/ r \in jobs
    \/ \E h \in Requests : casePc[h] = "enqueue" /\ at[h] = r
    \/ \E h \in Requests : job[h] = r /\ (casePc[h] = "job" \/ (casePc[h] = "notify" /\ at[h] # r))
Remembered == \A r \in Users : queuedAt[r] /\ ~adrift[r] => HasJob(r)
Goes == told /\ ~excused => jobs # {} \/ \E h \in Requests : casePc[h] \in Busy

CaseInv == CaseTypes /\ Remembered /\ Goes

LEMMA CaseTypesNext == CaseTypes /\ [S!Next]_(S!storeVars) => CaseTypes'
<1> SUFFICES ASSUME CaseTypes, [S!Next]_(S!storeVars) PROVE CaseTypes'
  OBVIOUS
<1> USE DEF CaseTypes, S!TypeOK
<1>e. ASSUME NEW h \in Requests, S!Ends(h)
      PROVE  /\ casePc' \in [Requests -> {"idle", "live", "queue", "enqueue", "refresh", "job", "notify"}]
             /\ at' \in [Requests -> Users \cup {Nobody}] /\ job' \in [Requests -> Users \cup {Nobody}]
             /\ \A g \in Requests : casePc'[g] # "idle" => at'[g] \in Users
             /\ \A g \in Requests : casePc'[g] \in {"job", "notify"} => job'[g] \in Users
  BY <1>e DEF S!Ends
<1>1. ASSUME NEW h \in Requests, NEW r \in Users, S!Served(h, r) PROVE CaseTypes'
  BY <1>1 DEF S!Served, S!Answer
<1>2. ASSUME NEW h \in Requests, NEW r \in Users, NEW g \in Requests, S!Missing(h, g, r)
      PROVE  CaseTypes'
  BY <1>2 DEF S!Missing
<1>3. ASSUME NEW h \in Requests, NEW b \in S!Bodies, S!LiveAnswered(h, b) PROVE CaseTypes'
  BY <1>3 DEF S!LiveAnswered, S!Written, S!Answer, S!Ends, S!Bodies
<1>4. ASSUME NEW h \in Requests, S!LiveFails(h) PROVE CaseTypes'
  <2>1. CASE S!Ends(h)
    BY <1>4, <1>e, <2>1 DEF S!LiveFails
  <2>2. CASE S!Goes(h, "queue")
    BY <1>4, <2>2 DEF S!LiveFails, S!Goes
  <2>3. QED
    BY <1>4, <2>1, <2>2 DEF S!LiveFails
<1>5. ASSUME NEW h \in Requests, S!LiveThrows(h) PROVE CaseTypes'
  BY <1>5 DEF S!LiveThrows, S!Ends
<1>6. ASSUME NEW h \in Requests, S!AlreadyQueued(h) PROVE CaseTypes'
  BY <1>6 DEF S!AlreadyQueued, S!SaysQueued, S!Ends
<1>7. ASSUME NEW h \in Requests, S!Remember(h) PROVE CaseTypes'
  BY <1>7 DEF S!Remember, S!Goes
<1>8. ASSUME NEW h \in Requests, S!Enqueued(h) \/ S!EnqueueFails(h) PROVE CaseTypes'
  <2>1. /\ S!Ends(h) /\ at[h] \in Users /\ UNCHANGED <<stored, paused, queuedAt>>
        /\ told' = TRUE /\ excused' \in BOOLEAN
    BY <1>8 DEF S!Enqueued, S!EnqueueFails
  <2>j. jobs' \subseteq Users
    BY <1>8, <2>1 DEF S!Enqueued, S!EnqueueFails
  <2>2. adrift' \in [Users -> BOOLEAN]
    BY <1>8 DEF S!Enqueued, S!EnqueueFails
  <2>3. QED
    BY <1>e, <2>1, <2>2, <2>j
<1>9. ASSUME NEW h \in Requests, NEW r \in Users, NEW j \in Users, S!Take(h, r, j)
      PROVE  CaseTypes'
  BY <1>9 DEF S!Take
<1>10. ASSUME NEW h \in Requests, NEW b \in S!Bodies, S!JobAnswered(h, b) PROVE CaseTypes'
  BY <1>10 DEF S!JobAnswered, S!Written, S!Forgotten, S!Goes, S!Bodies
<1>11. ASSUME NEW h \in Requests, NEW sent \in BOOLEAN, S!JobNotifies(h, sent) PROVE CaseTypes'
  BY <1>11 DEF S!JobNotifies, S!Answer, S!Ends
<1>12. ASSUME NEW h \in Requests, S!JobFails(h) PROVE CaseTypes'
  <2>1. S!Ends(h) /\ job[h] \in Users /\ UNCHANGED <<stored, queuedAt, told, adrift, excused>>
    BY <1>12 DEF S!JobFails, S!JobThrows
  <2>2. paused' \in [Users -> BOOLEAN] /\ jobs' \subseteq Users
    BY <1>12, <2>1 DEF S!JobFails, S!JobThrows
  <2>3. QED
    BY <1>e, <2>1, <2>2
<1>13. ASSUME NEW h \in Requests, S!JobGivesUp(h) PROVE CaseTypes'
  BY <1>13, <1>e DEF S!JobGivesUp, S!JobThrows
<1>14. ASSUME NEW r \in Users, S!PauseEnds(r) \/ S!WindowEnds(r) PROVE CaseTypes'
  BY <1>14 DEF S!PauseEnds, S!WindowEnds
<1>15. ASSUME NEW r \in Users, S!Restart(r) PROVE CaseTypes'
  BY <1>15 DEF S!Restart
<1>16. CASE S!GrowsOld \/ UNCHANGED S!storeVars
  BY <1>16 DEF S!GrowsOld, S!storeVars
<1>17. QED
  BY <1>1, <1>2, <1>3, <1>4, <1>5, <1>6, <1>7, <1>8, <1>9, <1>10, <1>11, <1>12, <1>13, <1>14,
     <1>15, <1>16 DEF S!Next

\* A step that leaves what is queued and remembered alone, and every handler that
\* has a job or brings one.
Quiet ==
    /\ UNCHANGED <<jobs, queuedAt, adrift>>
    /\ told' /\ ~excused' => told /\ ~excused
    /\ \A h \in Requests :
          casePc[h] \in Busy => casePc'[h] = casePc[h] /\ at'[h] = at[h] /\ job'[h] = job[h]

LEMMA QuietKeeps == CaseInv /\ Quiet => Remembered' /\ Goes'
<1> SUFFICES ASSUME CaseInv, Quiet PROVE Remembered' /\ Goes'
  OBVIOUS
<1>1. ASSUME NEW r \in Users, queuedAt'[r], ~adrift'[r] PROVE HasJob(r)'
  <2>1. HasJob(r)
    BY <1>1 DEF CaseInv, Remembered, Quiet
  <2>2. QED
    BY <2>1 DEF HasJob, Quiet, Busy
<1>2. Goes'
  BY DEF CaseInv, Goes, Quiet, Busy
<1>3. QED
  BY <1>1, <1>2 DEF Remembered

LEMMA CaseNext == CaseInv /\ [S!Next]_(S!storeVars) => CaseInv'
<1> SUFFICES ASSUME CaseInv, [S!Next]_(S!storeVars) PROVE CaseInv'
  OBVIOUS
<1>t. CaseTypes /\ CaseTypes'
  BY CaseTypesNext DEF CaseInv
<1>i. Remembered /\ Goes
  BY DEF CaseInv
<1>n. Nobody \notin Users
  BY OfficeAssumption
<1> USE DEF CaseTypes, S!TypeOK, Busy
<1>1. ASSUME NEW h \in Requests, NEW r \in Users, S!Served(h, r) PROVE Quiet
  BY <1>1, <1>t DEF S!Served, S!Answer, Quiet
<1>2. ASSUME NEW h \in Requests, NEW r \in Users, NEW g \in Requests, S!Missing(h, g, r)
      PROVE  Quiet
  BY <1>2, <1>t DEF S!Missing, Quiet
<1>3. ASSUME NEW h \in Requests, NEW b \in S!Bodies, S!LiveAnswered(h, b) PROVE Quiet
  BY <1>3, <1>t DEF S!LiveAnswered, S!Answer, S!Ends, Quiet
<1>4. ASSUME NEW h \in Requests, S!LiveFails(h) \/ S!LiveThrows(h) PROVE Quiet
  BY <1>4, <1>t DEF S!LiveFails, S!LiveThrows, S!Goes, S!Ends, Quiet
<1>5. ASSUME NEW r \in Users, S!PauseEnds(r) PROVE Quiet
  BY <1>5, <1>t DEF S!PauseEnds, Quiet
<1>6. ASSUME S!GrowsOld \/ UNCHANGED S!storeVars PROVE Quiet
  <2>1. UNCHANGED <<jobs, queuedAt, adrift, casePc, at, job, told, excused>>
    BY <1>6 DEF S!GrowsOld, S!storeVars
  <2>2. QED
    BY <2>1, Zenon DEF Quiet
<1>7. ASSUME NEW h \in Requests, S!AlreadyQueued(h) PROVE Remembered' /\ Goes'
  <2>1. HasJob(at[h]) \/ adrift[at[h]]
    BY <1>7, <1>t, <1>i DEF S!AlreadyQueued, Remembered
  <2>2. UNCHANGED <<jobs, queuedAt, adrift>>
    BY <1>7 DEF S!AlreadyQueued
  <2>3. \A g \in Requests : casePc[g] \in Busy =>
           g # h /\ casePc'[g] = casePc[g] /\ at'[g] = at[g] /\ job'[g] = job[g]
    BY <1>7, <1>t DEF S!AlreadyQueued, S!Ends
  <2>4. \A r \in Users : HasJob(r) => HasJob(r)'
    BY <2>2, <2>3 DEF HasJob
  <2>5. Remembered'
    BY <2>2, <2>4, <1>i DEF Remembered
  <2>6. HasJob(at[h]) => jobs # {} \/ \E g \in Requests : casePc[g] \in Busy
    BY DEF HasJob
  <2>7. Goes'
    BY <1>7, <2>1, <2>2, <2>3, <2>6, <1>t DEF S!AlreadyQueued, S!SaysQueued, Goes
  <2>8. QED
    BY <2>5, <2>7
<1>8. ASSUME NEW h \in Requests, S!Remember(h) PROVE Remembered' /\ Goes'
  <2>0. PICK q \in Users : q = at[h]
    BY <1>8, <1>t DEF S!Remember
  <2>1. \A r \in Users : HasJob(r) => HasJob(r)'
    BY <1>8, <1>t DEF S!Remember, S!Goes, HasJob
  <2>2. HasJob(q)'
    BY <1>8, <1>t, <2>0 DEF S!Remember, S!Goes, HasJob
  <2>3. Remembered'
    <3>1. UNCHANGED adrift /\ \A r \in Users \ {q} : queuedAt'[r] = queuedAt[r]
      BY <1>8, <1>t, <2>0 DEF S!Remember
    <3>2. QED
      BY <1>i, <2>1, <2>2, <3>1, Zenon DEF Remembered
  <2>4. Goes'
    BY <1>8, <1>t, <1>i DEF S!Remember, S!Goes, Goes
  <2>5. QED
    BY <2>3, <2>4
<1>9. ASSUME NEW h \in Requests, S!Enqueued(h) \/ S!EnqueueFails(h) PROVE Remembered' /\ Goes'
  <2>0. PICK q \in Users : q = at[h]
    BY <1>9, <1>t DEF S!Enqueued, S!EnqueueFails
  <2>1. \A r \in Users \ {q} : HasJob(r) => HasJob(r)'
    BY <1>9, <1>t, <2>0 DEF S!Enqueued, S!EnqueueFails, S!Ends, HasJob
  <2>2. HasJob(q)' \/ adrift'[q]
    <3>1. CASE S!Enqueued(h)
      BY <3>1, <2>0 DEF S!Enqueued, HasJob
    <3>2. CASE S!EnqueueFails(h)
      BY <3>2, <2>0, <1>t DEF S!EnqueueFails
    <3>3. QED
      BY <1>9, <3>1, <3>2
  <2>3. UNCHANGED queuedAt /\ \A r \in Users \ {q} : adrift'[r] = adrift[r]
    BY <1>9, <1>t, <2>0 DEF S!Enqueued, S!EnqueueFails
  <2>4. Remembered'
    BY <1>i, <2>1, <2>2, <2>3, Zenon DEF Remembered
  <2>5. Goes'
    BY <1>9, <1>t, <2>0 DEF S!Enqueued, S!EnqueueFails, Goes
  <2>6. QED
    BY <2>4, <2>5
<1>10. ASSUME NEW h \in Requests, NEW r \in Users, NEW j \in Users, S!Take(h, r, j)
      PROVE  Remembered' /\ Goes'
  <2>1. ASSUME NEW q \in Users, HasJob(q) PROVE HasJob(q)'
    <3>1. CASE q = j
      <4>1. job'[h] = q /\ casePc'[h] = "job"
        BY <1>10, <1>t, <3>1 DEF S!Take
      <4>2. QED
        BY <4>1 DEF HasJob
    <3>2. CASE q # j /\ q \in jobs
      BY <1>10, <3>2 DEF S!Take, HasJob
    <3>3. \A g \in Requests : casePc[g] \in Busy =>
             casePc'[g] = casePc[g] /\ at'[g] = at[g] /\ job'[g] = job[g]
      BY <1>10, <1>t DEF S!Take
    <3>4. CASE q # j /\ q \notin jobs
      BY <2>1, <3>3, <3>4 DEF HasJob
    <3>5. QED
      BY <3>1, <3>2, <3>4
  <2>2. QED
    BY <1>10, <1>t, <1>i, <2>1 DEF S!Take, Remembered, Goes
<1>11. ASSUME NEW h \in Requests, NEW b \in S!Bodies, S!JobAnswered(h, b)
       PROVE  Remembered' /\ Goes'
  <2>1. \A r \in Users \ {at[h]} : HasJob(r) => HasJob(r)'
    BY <1>11, <1>t DEF S!JobAnswered, S!Goes, HasJob
  <2>2. Remembered'
    BY <1>11, <1>t, <1>i, <2>1 DEF S!JobAnswered, S!Forgotten, Remembered
  <2>3. Goes'
    BY <1>11, <1>t DEF S!JobAnswered, S!Goes, Goes
  <2>4. QED
    BY <2>2, <2>3
<1>12. ASSUME NEW h \in Requests, NEW sent \in BOOLEAN, S!JobNotifies(h, sent)
       PROVE  Remembered' /\ Goes'
  <2>1. \A r \in Users : HasJob(r) => HasJob(r)' \/ (r = job[h] /\ r # at[h])
    BY <1>12, <1>t DEF S!JobNotifies, S!Ends, HasJob
  <2>2. UNCHANGED queuedAt
    BY <1>12 DEF S!JobNotifies
  <2>3. \A r \in Users : ~adrift'[r] =>
           ~adrift[r] /\ ~(r = job[h] /\ r # at[h] /\ queuedAt[r])
    BY <1>12, <1>t DEF S!JobNotifies
  <2>4. Remembered'
    BY <1>i, <2>1, <2>2, <2>3 DEF Remembered
  <2>5. Goes'
    BY <1>12, <1>t DEF S!JobNotifies, S!Answer, Goes
  <2>6. QED
    BY <2>4, <2>5
<1>13. ASSUME NEW h \in Requests, S!JobFails(h) PROVE Remembered' /\ Goes'
  <2>1. \A r \in Users : HasJob(r) => HasJob(r)'
    BY <1>13, <1>t DEF S!JobFails, S!JobThrows, S!Ends, HasJob
  <2>2. QED
    BY <1>13, <1>t, <1>i, <2>1 DEF S!JobFails, S!JobThrows, Remembered, Goes
<1>14. ASSUME NEW h \in Requests, S!JobGivesUp(h) PROVE Remembered' /\ Goes'
  <2>1. \A r \in Users \ {job[h]} : HasJob(r) => HasJob(r)'
    BY <1>14, <1>t DEF S!JobGivesUp, S!JobThrows, S!Ends, HasJob
  <2>2. Remembered'
    BY <1>14, <1>t, <1>i, <2>1 DEF S!JobGivesUp, S!JobThrows, Remembered
  <2>3. Goes'
    BY <1>14, <1>t DEF S!JobGivesUp, Goes
  <2>4. QED
    BY <2>2, <2>3
<1>15. ASSUME NEW r \in Users, S!WindowEnds(r) PROVE Remembered' /\ Goes'
  <2>1. \A q \in Users : HasJob(q) => HasJob(q)'
    BY <1>15, <1>t DEF S!WindowEnds, HasJob
  <2>2. QED
    BY <1>15, <1>t, <1>i, <2>1 DEF S!WindowEnds, Remembered, Goes
<1>16. ASSUME NEW r \in Users, S!Restart(r) PROVE Remembered' /\ Goes'
  <2>1. \A q \in Users \ {r} : HasJob(q) => HasJob(q)'
    BY <1>16, <1>t, <1>n DEF S!Restart, HasJob
  <2>2. Remembered'
    BY <1>16, <1>t, <1>i, <2>1 DEF S!Restart, Remembered
  <2>3. Goes'
    <3>1. SUFFICES ASSUME told', ~excused' PROVE jobs' # {} \/ \E h \in Requests : casePc'[h] \in Busy
      BY Zenon DEF Goes
    <3>2. told /\ ~excused /\ \A h \in Requests : ~(at[h] = r /\ casePc[h] = "enqueue")
      BY <1>16, <3>1 DEF S!Restart
    <3>3. CASE jobs # {}
      BY <1>16, <3>3 DEF S!Restart
    <3>4. CASE \E h \in Requests : casePc[h] \in Busy
      <4>1. PICK h \in Requests : casePc[h] \in Busy
        BY <3>4
      <4>2. CASE at[h] # r
        BY <1>16, <4>1, <4>2 DEF S!Restart
      <4>3. CASE at[h] = r
        <5>1. job[h] \in Users /\ job[h] # Nobody
          BY <1>t, <1>n, <3>2, <4>1, <4>3
        <5>2. job[h] \in jobs'
          BY <1>16, <4>3, <5>1 DEF S!Restart
        <5>3. QED
          BY <5>2
      <4>4. QED
        BY <4>2, <4>3
    <3>5. QED
      BY <1>i, <3>2, <3>3, <3>4 DEF Goes
  <2>4. QED
    BY <2>2, <2>3
<1> HIDE DEF CaseTypes, S!TypeOK, Busy
<1>q. Quiet => Remembered' /\ Goes'
  BY QuietKeeps
<1>17. Remembered' /\ Goes'
  BY <1>q, <1>1, <1>2, <1>3, <1>4, <1>5, <1>6, <1>7, <1>8, <1>9, <1>10, <1>11, <1>12,
     <1>13, <1>14, <1>15, <1>16 DEF S!Next
<1>18. QED
  BY <1>t, <1>17 DEF CaseInv

\* Whoever was told that "DifAi will keep trying" has a job that goes on, unless
\* it was lost in one of the ways the code gives up or forgets (queueFetch and
\* runCaseFetchJob of ecourts-case-store.service.ts), for any number of replicas.
THEOREM QueuedPromiseHolds == Spec => []QueuedIsTrue
<1>1. Init => CaseInv
  BY DEF Init, S!Init, CaseInv, CaseTypes, S!TypeOK, Remembered, Goes
<1>2. CaseInv /\ [Next]_vars => CaseInv'
  BY CaseNext, CaseSteps
<1>3. CaseInv => QueuedIsTrue
  <2>1. Nobody \notin Users
    BY OfficeAssumption
  <2>2. QED
    BY <2>1 DEF CaseInv, CaseTypes, Goes, Busy, QueuedIsTrue, S!QueuedIsTrue
<1>4. QED
  BY <1>1, <1>2, <1>3, PTL DEF Spec

-----------------------------------------------------------------------------
(* The coverage board (Coverage) *)

LEMMA CoverSteps == [Next]_vars => [C!Next]_(C!coverVars)
  BY DEF Next, vars, Handover, Cover, Audit, Hear, LookUp, Call, peopleVars, coverVars, C!coverVars

\* An open posting has no claimer.  As long as no two requests to end it have
\* overlapped, one at most is under way, and none once the posting has ended.
Unclaimed == posting = "open" => claimedBy = Nobody
OneEnding == ~raced => /\ \A r, q \in C!Ending : r = q
                       /\ C!Ended => C!Ending = {}

PostingInv == C!TypeOK /\ Unclaimed /\ OneEnding

LEMMA PostingInit == C!Init => PostingInv
  BY DEF C!Init, PostingInv, C!TypeOK, Unclaimed, OneEnding, C!Ending, C!Ended

LEMMA PostingTypes == C!TypeOK /\ [C!Next]_(C!coverVars) => C!TypeOK'
<1> SUFFICES ASSUME C!TypeOK, [C!Next]_(C!coverVars) PROVE C!TypeOK'
  OBVIOUS
<1>1. ASSUME NEW r \in Requests, C!Claim(r) \/ C!Cancel(r) \/ C!Complete(r) PROVE C!TypeOK'
  BY <1>1 DEF C!Claim, C!Cancel, C!Complete, C!Return, C!TypeOK
<1>2. ASSUME NEW r \in Requests, NEW u \in Lawyers,
             C!BeginClaim(r, u) \/ C!BeginCancel(r, u) \/ C!BeginComplete(r, u)
      PROVE  C!TypeOK'
  BY <1>2 DEF C!BeginClaim, C!BeginCancel, C!BeginComplete, C!Start, C!TypeOK
<1>3. CASE UNCHANGED C!coverVars
  BY <1>3 DEF C!coverVars, C!TypeOK
<1>4. QED
  BY <1>1, <1>2, <1>3 DEF C!Next

LEMMA PostingNext == PostingInv /\ [C!Next]_(C!coverVars) => PostingInv'
<1> SUFFICES ASSUME PostingInv, [C!Next]_(C!coverVars) PROVE PostingInv'
  OBVIOUS
<1>t. C!TypeOK /\ C!TypeOK'
  BY PostingTypes DEF PostingInv
<1>1. ASSUME NEW r \in Requests, C!Claim(r) PROVE (Unclaimed /\ OneEnding)'
  <2>1. C!Ending' = C!Ending /\ (C!Ended' <=> C!Ended)
    BY <1>1, <1>t DEF C!Claim, C!Claimable, C!Return, C!Ending, C!Ended, C!TypeOK
  <2>2. QED
    BY <1>1, <2>1 DEF C!Claim, C!Claimable, PostingInv, Unclaimed, OneEnding
<1>2. ASSUME NEW r \in Requests, C!Cancel(r) \/ C!Complete(r) PROVE (Unclaimed /\ OneEnding)'
  <2>1. r \in C!Ending /\ C!Ending' = C!Ending \ {r}
    BY <1>2, <1>t DEF C!Cancel, C!Complete, C!Return, C!Ending, C!TypeOK
  <2>2. QED
    BY <1>2, <2>1 DEF C!Cancel, C!Complete, PostingInv, Unclaimed, OneEnding
<1>3. ASSUME NEW r \in Requests, NEW u \in Lawyers, C!BeginClaim(r, u)
      PROVE  (Unclaimed /\ OneEnding)'
  <2>1. C!Ending' = C!Ending /\ (C!Ended' <=> C!Ended)
    BY <1>3, <1>t DEF C!BeginClaim, C!Start, C!Ending, C!Ended, C!TypeOK
  <2>2. QED
    BY <1>3, <2>1 DEF C!BeginClaim, PostingInv, Unclaimed, OneEnding
<1>4. ASSUME NEW r \in Requests, NEW u \in Lawyers, C!BeginCancel(r, u) \/ C!BeginComplete(r, u)
      PROVE  (Unclaimed /\ OneEnding)'
  <2>1. C!Ending' = C!Ending \cup {r} /\ ~C!Ended /\ ~C!Ended'
    BY <1>4, <1>t DEF C!BeginCancel, C!BeginComplete, C!MayCancel, C!Start, C!Ending, C!Ended, C!TypeOK
  <2>2. UNCHANGED <<posting, claimedBy>> /\ raced' = (raced \/ C!Ending # {})
    BY <1>4 DEF C!BeginCancel, C!BeginComplete
  <2>3. QED
    BY <2>1, <2>2 DEF PostingInv, Unclaimed, OneEnding
<1>5. CASE UNCHANGED C!coverVars
  <2>1. C!Ending' = C!Ending /\ (C!Ended' <=> C!Ended)
    BY <1>5 DEF C!coverVars, C!Ending, C!Ended
  <2>2. (Unclaimed /\ OneEnding)'
    BY <1>5, <2>1 DEF C!coverVars, PostingInv, Unclaimed, OneEnding
  <2>3. QED
    BY <1>t, <2>2 DEF PostingInv
<1>6. QED
  BY <1>t, <1>1, <1>2, <1>3, <1>4, <1>5 DEF C!Next, PostingInv

LEMMA Stands ==
    ASSUME PostingInv, [C!Next]_(C!coverVars)
    PROVE  /\ claimedBy # Nobody => claimedBy' = claimedBy
           /\ C!Ended => posting' = posting \/ raced
<1>1. ASSUME NEW r \in Requests, C!Cancel(r) \/ C!Complete(r)
      PROVE  claimedBy' = claimedBy /\ (C!Ended => raced)
  <2>1. r \in C!Ending
    BY <1>1 DEF C!Cancel, C!Complete, C!Ending
  <2>2. QED
    BY <1>1, <2>1 DEF C!Cancel, C!Complete, PostingInv, OneEnding
<1>2. ASSUME NEW r \in Requests, C!Claim(r)
      PROVE  /\ claimedBy # Nobody => claimedBy' = claimedBy
             /\ C!Ended => posting' = posting
  BY <1>2 DEF C!Claim, C!Claimable, C!Ended, PostingInv, Unclaimed
<1>3. QED
  BY <1>1, <1>2 DEF C!Next, C!coverVars, C!BeginClaim, C!BeginCancel, C!BeginComplete


\* The conditional update of claim and the checks of cancel and complete are
\* enough (coverage.service.ts): a claimer is never overwritten, and an ending only
\* by a request that overlapped with the one that wrote it, for any number of
\* lawyers and requests.
THEOREM PostingKept == Spec => PostingStands
<1>1. Init => PostingInv
  BY PostingInit DEF Init
<1>2. PostingInv /\ [Next]_vars => PostingInv'
  BY PostingNext, CoverSteps
<1>3. PostingInv /\ [Next]_vars
        => [/\ claimedBy # Nobody => claimedBy' = claimedBy
            /\ C!Ended => posting' = posting \/ raced]_(C!coverVars)
  BY Stands, CoverSteps
<1>4. QED
  BY <1>1, <1>2, <1>3, PTL DEF Spec, PostingStands, C!PostingStands

-----------------------------------------------------------------------------
(* The next hearing of the matter (Hearings) *)

LEMMA HearingSteps == [Next]_vars => [D!Next]_(D!hearingVars)
  BY DEF Next, vars, Handover, Cover, Audit, Hear, LookUp, Call, courtVars, dateVars, D!hearingVars

LEMMA LeastExists == ASSUME NEW T \in SUBSET Nat, T # {} PROVE \E m \in T : \A y \in T : m <= y
<1>1. IsWellFoundedOn({p \in Nat \X Nat : p[1] < p[2]}, Nat)
  BY NatLessThanWellFounded DEF OpToRel
<1>2. PICK m \in T : \A y \in T : <<y, m>> \notin {p \in Nat \X Nat : p[1] < p[2]}
  BY <1>1, WFMin
<1>3. ASSUME NEW y \in T PROVE m <= y
  <2>1. y \in Nat /\ m \in Nat /\ ~(y < m)
    BY <1>2
  <2>2. QED
    BY <2>1
<1>4. QED
  BY <1>3

LEMMA EarliestIs ==
    ASSUME NEW T \in SUBSET D!Days, T # {}
    PROVE  D!Min(T) \in T /\ \A d \in T : D!Min(T) <= d
<1>1. T \in SUBSET Nat
  BY OfficeAssumption DEF D!Days
<1>2. QED
  BY <1>1, LeastExists DEF D!Min

\* A sync that no write has overtaken still holds the date that is announced.
SyncIsFresh ==
    \A h \in Requests : hearingPc[h] = "ask" /\ ~sync[h].touched => sync[h].date = next

LEMMA DaysAre ==
    /\ MaxDay \in Nat \ {0}
    /\ D!NoDate = 0 /\ D!Days = 1 .. MaxDay /\ D!Dates = 0 .. MaxDay
    /\ D!Elsewhere \notin D!Dates /\ D!Deleted \notin D!Dates
    /\ \A a \in D!Answers : D!DateOf(a) \in D!Dates
    /\ D!Open \subseteq D!Dates
  BY OfficeAssumption DEF D!Days, D!NoDate, D!Dates, D!Disposed, D!DateOf, D!Answers, D!Open,
     D!Elsewhere, D!Deleted

\* What the handlers hold, and where a hearing can be.
Work == [date : D!Dates, live : BOOLEAN, touched : BOOLEAN,
         hearing : Invites \cup {Nobody}, ours : BOOLEAN]
Places == D!Dates \cup {D!Elsewhere, D!Deleted}
Steps == {"idle", "update", "recompute", "ask"}

LEMMA HearingTyped ==
    D!TypeOK => /\ today \in D!Days /\ next \in D!Dates /\ live \in BOOLEAN
                /\ hearings \in [Invites -> Places] /\ hearingPc \in [Requests -> Steps]
                /\ sync \in [Requests -> Work] /\ announced \in D!Dates
                /\ gone \subseteq D!Days /\ owed \in BOOLEAN
  BY DEF D!TypeOK, Work, Places, Steps

LEMMA WorkIs ==
    /\ D!NoWork \in Work
    /\ \A x \in Work : [x EXCEPT !.touched = TRUE] \in Work /\ [x EXCEPT !.touched = TRUE].touched
<1>1. D!NoWork \in Work
  BY DaysAre DEF D!NoWork, Work
<1>2. ASSUME NEW x \in Work
      PROVE  [x EXCEPT !.touched = TRUE] \in Work /\ [x EXCEPT !.touched = TRUE].touched
  BY DEF Work
<1>3. QED
  BY <1>1, <1>2

LEMMA WorkTaken ==
    ASSUME NEW d \in D!Dates, NEW b \in BOOLEAN, NEW i \in Invites
    PROVE  /\ [D!NoWork EXCEPT !.date = d, !.live = b] \in Work
           /\ [D!NoWork EXCEPT !.date = d, !.live = b].date = d
           /\ [D!NoWork EXCEPT !.hearing = i, !.ours = b] \in Work
<1>1. ASSUME NEW x \in Work
      PROVE  /\ [x EXCEPT !.date = d, !.live = b] \in Work
             /\ [x EXCEPT !.date = d, !.live = b].date = d
             /\ [x EXCEPT !.hearing = i, !.ours = b] \in Work
  BY DEF Work
<1>2. QED
  BY <1>1, WorkIs

LEMMA HearingTypes == D!TypeOK /\ [D!Next]_(D!hearingVars) => (D!TypeOK)'
<1> SUFFICES ASSUME D!TypeOK, [D!Next]_(D!hearingVars) PROVE (D!TypeOK)'
  OBVIOUS
<1>t. /\ today \in D!Days /\ next \in D!Dates /\ live \in BOOLEAN
      /\ hearings \in [Invites -> Places] /\ hearingPc \in [Requests -> Steps]
      /\ sync \in [Requests -> Work] /\ announced \in D!Dates
      /\ gone \subseteq D!Days /\ owed \in BOOLEAN
  BY HearingTyped
<1>b. by \in {"hearing", "court", "other"}
  BY DEF D!TypeOK
<1>q. ASSUME   /\ today' \in D!Days /\ next' \in D!Dates /\ live' \in BOOLEAN
               /\ hearings' \in [Invites -> Places] /\ hearingPc' \in [Requests -> Steps]
               /\ sync' \in [Requests -> Work] /\ announced' \in D!Dates
               /\ by' \in {"hearing", "court", "other"}
               /\ gone' \subseteq D!Days /\ owed' \in BOOLEAN
      PROVE    (D!TypeOK)'
  BY <1>q DEF D!TypeOK, Work, Places, Steps
<1>o. D!Overtaken \in [Requests -> Work]
  BY <1>t, WorkIs DEF D!Overtaken
<1>p. \A h \in Requests, l \in Steps : [hearingPc EXCEPT ![h] = l] \in [Requests -> Steps]
  BY <1>t
<1>w. \A h \in Requests, x \in Work : [sync EXCEPT ![h] = x] \in [Requests -> Work]
  BY <1>t
<1>l. {"idle", "update", "recompute", "ask"} \subseteq Steps
  BY DEF Steps
<1>n. D!NoDate \in D!Dates
  BY DEF D!Dates
<1>c. ASSUME NEW i, NEW p \in Places, D!ChangeRow(i, p)
      PROVE  /\ hearings' \in [Invites -> Places] /\ gone' \subseteq D!Days
             /\ UNCHANGED <<today, next, live, announced, by>>
  <2>1. hearings' = [hearings EXCEPT ![i] = p] /\ gone' \subseteq gone \cup D!Listed(hearings)
        /\ UNCHANGED <<today, next, live, announced, by>>
    BY <1>c DEF D!ChangeRow
  <2>2. QED
    BY <1>t, <2>1 DEF D!Listed
<1>e. ASSUME NEW h \in Requests, D!End(h)
      PROVE  hearingPc' \in [Requests -> Steps] /\ sync' \in [Requests -> Work]
  BY <1>e, <1>l, <1>p, <1>w, WorkIs DEF D!End
<1>1. ASSUME NEW d \in D!Days, D!TypeNext(d) PROVE (D!TypeOK)'
  <2>1. d \in D!Dates
    BY DEF D!Dates
  <2>2. next' = d /\ by' = "other" /\ announced' = D!NoDate /\ owed' = FALSE /\ gone' = gone \ {d}
        /\ sync' = D!Overtaken /\ UNCHANGED <<today, live, hearings, hearingPc>>
    BY <1>1 DEF D!TypeNext, D!Wrote
  <2>3. QED
    BY <1>q, <1>t, <1>o, <1>n, <2>1, <2>2
<1>2. ASSUME NEW b \in BOOLEAN, D!TypeStatus(b) PROVE (D!TypeOK)'
  BY <1>2, <1>q, <1>t, <1>b DEF D!TypeStatus
<1>3. ASSUME NEW h \in Requests, NEW i, NEW p \in Places, D!ChangeRow(i, p),
             hearingPc' = [hearingPc EXCEPT ![h] = "recompute"], UNCHANGED <<sync, owed>>
      PROVE  (D!TypeOK)'
  BY <1>3, <1>q, <1>t, <1>b, <1>c, <1>p, <1>l
<1>4. ASSUME NEW h \in Requests, NEW i \in Invites, NEW d \in D!Open, D!CreateHearing(h, i, d)
      PROVE  (D!TypeOK)'
  <2>1. d \in Places
    BY DaysAre DEF Places
  <2>2. QED
    BY <1>3, <1>4, <2>1 DEF D!CreateHearing
<1>5. ASSUME NEW h \in Requests, NEW i \in Invites, D!RemoveHearing(h, i) PROVE (D!TypeOK)'
  <2>1. D!Deleted \in Places
    BY DEF Places
  <2>2. QED
    BY <1>3, <1>5, <2>1 DEF D!RemoveHearing
<1>6. ASSUME NEW h \in Requests, NEW i \in Invites, D!BeginUpdate(h, i) PROVE (D!TypeOK)'
  <2>1. D!Ours(i) \in BOOLEAN
    BY DEF D!Ours
  <2>2. [D!NoWork EXCEPT !.hearing = i, !.ours = D!Ours(i)] \in Work
    BY <2>1, <1>n, WorkTaken
  <2>3. /\ hearingPc' = [hearingPc EXCEPT ![h] = "update"]
        /\ sync' = [sync EXCEPT ![h] = [D!NoWork EXCEPT !.hearing = i, !.ours = D!Ours(i)]]
        /\ UNCHANGED <<today, next, live, hearings, announced, by, gone, owed>>
    BY <1>6 DEF D!BeginUpdate
  <2>4. sync' \in [Requests -> Work]
    BY <1>w, <2>2, <2>3
  <2>5. hearingPc' \in [Requests -> Steps]
    BY <1>p, <1>l, <2>3
  <2>6. QED
    BY <1>q, <1>t, <1>b, <2>3, <2>4, <2>5
<1>7. ASSUME NEW h \in Requests, NEW p \in D!Open \cup {D!Elsewhere}, D!Update(h, p)
      PROVE  (D!TypeOK)'
  <2>1. p \in Places
    BY DaysAre DEF Places
  <2>2. CASE D!End(h) /\ UNCHANGED <<today, next, live, hearings, announced, by, gone, owed>>
    BY <1>q, <1>t, <1>b, <1>e, <2>2
  <2>3. ASSUME D!ChangeRow(sync[h].hearing, p),
               hearingPc' = [hearingPc EXCEPT ![h] = "recompute"],
               sync' = [sync EXCEPT ![h] = D!NoWork], UNCHANGED owed
        PROVE  (D!TypeOK)'
    <3>1. sync' \in [Requests -> Work]
      BY <1>w, WorkIs, <2>3
    <3>2. hearingPc' \in [Requests -> Steps]
      BY <1>p, <1>l, <2>3
    <3>3. QED
      BY <1>q, <1>t, <1>b, <1>c, <2>1, <2>3, <3>1, <3>2
  <2>4. ASSUME D!ChangeRow(sync[h].hearing, p), D!End(h),
               owed' = (owed \/ D!Ours(sync[h].hearing))
        PROVE  (D!TypeOK)'
    <3>1. owed' \in BOOLEAN
      BY <1>t, <2>4 DEF D!Ours
    <3>2. QED
      BY <1>q, <1>t, <1>b, <1>c, <1>e, <2>1, <2>4, <3>1
  <2>5. QED
    BY <1>7, <2>2, <2>3, <2>4 DEF D!Update
<1>8. ASSUME NEW h \in Requests, D!Recompute(h) PROVE (D!TypeOK)'
  <2>1. D!Recomputed \in D!Dates
    <3>1. D!Upcoming \in SUBSET D!Days
      BY DEF D!Upcoming, D!Listed
    <3>2. D!Upcoming # {} => D!Min(D!Upcoming) \in D!Days
      BY <3>1, EarliestIs
    <3>3. QED
      BY <3>2, <1>n DEF D!Recomputed, D!Earliest, D!Dates
  <2>2. /\ next' = D!Recomputed /\ by' = "hearing" /\ announced' = D!NoDate /\ owed' = FALSE
        /\ hearingPc' = [hearingPc EXCEPT ![h] = "idle"] /\ sync' = D!Overtaken
        /\ UNCHANGED <<today, live, hearings, gone>>
    BY <1>8 DEF D!Recompute, D!Wrote
  <2>3. hearingPc' \in [Requests -> Steps]
    BY <1>p, <1>l, <2>2
  <2>4. QED
    BY <1>q, <1>t, <1>o, <1>n, <2>1, <2>2, <2>3
<1>9. ASSUME NEW i \in Invites, D!Materialise(i) PROVE (D!TypeOK)'
  <2>1. hearings' = [hearings EXCEPT ![i] = next] /\ gone' = gone \ {next}
        /\ UNCHANGED <<today, next, live, hearingPc, sync, announced, by, owed>>
    BY <1>9 DEF D!Materialise
  <2>2. hearings' \in [Invites -> Places]
    BY <1>t, <2>1 DEF Places
  <2>3. QED
    BY <1>q, <1>t, <1>b, <2>1, <2>2
<1>10. ASSUME NEW h \in Requests, D!BeginSync(h) PROVE (D!TypeOK)'
  <2>1. [D!NoWork EXCEPT !.date = next, !.live = live] \in Work
    <3>1. ASSUME NEW x \in Work PROVE [x EXCEPT !.date = next, !.live = live] \in Work
      BY <1>t DEF Work
    <3>2. QED
      BY <3>1, WorkIs
  <2>2. /\ hearingPc' = [hearingPc EXCEPT ![h] = "ask"]
        /\ sync' = [sync EXCEPT ![h] = [D!NoWork EXCEPT !.date = next, !.live = live]]
        /\ UNCHANGED <<today, next, live, hearings, announced, by, gone, owed>>
    BY <1>10 DEF D!BeginSync
  <2>3. sync' \in [Requests -> Work]
    BY <1>w, <2>1, <2>2
  <2>4. hearingPc' \in [Requests -> Steps]
    BY <1>p, <1>l, <2>2
  <2>5. QED
    BY <1>q, <1>t, <1>b, <2>2, <2>3, <2>4
<1>11. ASSUME NEW h \in Requests, D!SyncFails(h) \/ D!Crash(h) PROVE (D!TypeOK)'
  <2>1. D!End(h) /\ UNCHANGED <<today, next, live, hearings, announced, by, gone>>
        /\ owed' \in BOOLEAN
    BY <1>11, <1>t DEF D!SyncFails, D!Crash
  <2>2. QED
    BY <1>q, <1>t, <1>b, <1>e, <2>1
<1>12. ASSUME NEW h \in Requests, NEW a \in D!Answers,
              NEW court \in [Invites -> D!Open \cap {D!NoDate, today, D!DateOf(a)}],
              D!Commit(h, a, court)
       PROVE  (D!TypeOK)'
  <2>1. next' \in D!Dates
    BY <1>12, <1>t, DaysAre DEF D!Commit, D!Patched
  <2>2. hearings' \in [Invites -> Places]
    <3>1. \A i \in Invites : court[i] \in Places
      BY DaysAre DEF Places
    <3>2. D!Deleted \in Places
      BY DEF Places
    <3>3. hearings' = [i \in Invites |-> IF court[i] # D!NoDate THEN court[i]
                                         ELSE IF D!Ours(i) THEN D!Deleted ELSE hearings[i]]
      BY <1>12 DEF D!Commit
    <3>4. QED
      BY <1>t, <3>1, <3>2, <3>3
  <2>3. hearingPc' \in [Requests -> Steps]
    BY <1>12, <1>p, <1>l DEF D!Commit
  <2>4. sync' \in [Requests -> Work]
    BY <1>12, <1>o, WorkIs DEF D!Commit
  <2>5. announced' \in D!Dates /\ by' \in {"hearing", "court", "other"}
    BY <1>12, <1>n, DaysAre DEF D!Commit, D!Wrote
  <2>6. live' \in BOOLEAN /\ owed' \in BOOLEAN
    <3>1. owed' = (owed /\ sync[h].touched) /\ sync[h].touched \in BOOLEAN
      BY <1>12, <1>t DEF D!Commit, Work
    <3>2. live' \in BOOLEAN
      BY <1>12, <1>t DEF D!Commit
    <3>3. QED
      BY <1>t, <3>1, <3>2
  <2>7. gone' \subseteq D!Days /\ today' = today
    BY <1>12, <1>t DEF D!Commit
  <2>8. QED
    BY <1>q, <1>t, <2>1, <2>2, <2>3, <2>4, <2>5, <2>6, <2>7
<1>13. CASE D!Tick
  <2>1. /\ today' \in D!Days /\ gone' \subseteq D!Days
        /\ UNCHANGED <<next, live, hearingPc, sync, announced, by, owed>>
    BY <1>13, <1>t, DaysAre DEF D!Tick
  <2>2. hearings' \in [Invites -> Places]
    BY <1>13, <1>t, <1>n DEF D!Tick, Places
  <2>3. QED
    BY <1>q, <1>t, <1>b, <2>1, <2>2
<1>14. CASE UNCHANGED D!hearingVars
  BY <1>14, <1>q, <1>t, <1>b DEF D!hearingVars
<1>15. QED
  BY <1>1, <1>2, <1>4, <1>5, <1>6, <1>7, <1>8, <1>9, <1>10, <1>11, <1>12, <1>13, <1>14 DEF D!Next

\* The two halves of NextHearingIsRight, and what keeps a removed hearing away.
AfterHearing ==
    ~D!Pending /\ ~owed /\ by = "hearing" /\ (next = D!NoDate \/ next >= today)
        => next = D!Earliest
AfterCourt ==
    ~D!Pending /\ ~owed /\ by = "court"
        => /\ next = announced
           /\ next # D!NoDate /\ next >= today => next \in D!Upcoming
           /\ \A d \in D!Upcoming : d > today => d = next
GoneIsEmpty == gone \cap D!Listed(hearings) = {}
NotGone == ~D!Pending /\ ~owed /\ next >= today => next \notin gone

Rest == AfterHearing /\ AfterCourt /\ GoneIsEmpty /\ NotGone
HearingInv == D!TypeOK /\ SyncIsFresh /\ Rest

\* The earliest hearing to come is one of those listed.
LEMMA EarliestUpcoming ==
    /\ D!Upcoming = {} => D!Earliest = D!NoDate
    /\ D!Upcoming # {} => D!Earliest \in D!Upcoming
    /\ D!Upcoming \subseteq D!Listed(hearings) /\ \A d \in D!Upcoming : d >= today
    /\ D!Upcoming \in SUBSET D!Days /\ D!Listed(hearings) \subseteq D!Days
<1>1. D!Upcoming \in SUBSET D!Days /\ D!Upcoming \subseteq D!Listed(hearings)
      /\ D!Listed(hearings) \subseteq D!Days /\ \A d \in D!Upcoming : d >= today
  BY DEF D!Upcoming, D!Listed
<1>2. CASE D!Upcoming # {}
  <2>1. D!Min(D!Upcoming) \in D!Upcoming
    BY <1>1, <1>2, EarliestIs
  <2>2. D!Earliest \in D!Upcoming
    BY <1>2, <2>1 DEF D!Earliest
  <2>3. QED
    BY <1>1, <1>2, <2>2
<1>3. CASE D!Upcoming = {}
  BY <1>1, <1>3 DEF D!Earliest
<1>4. QED
  BY <1>2, <1>3

LEMMA FreshNext == HearingInv /\ [D!Next]_(D!hearingVars) => SyncIsFresh'
<1> SUFFICES ASSUME HearingInv, [D!Next]_(D!hearingVars) PROVE SyncIsFresh'
  OBVIOUS
<1>i. SyncIsFresh /\ hearingPc \in [Requests -> Steps] /\ sync \in [Requests -> Work]
      /\ next \in D!Dates /\ live \in BOOLEAN
  BY HearingTyped DEF HearingInv
<1>o. \A h \in Requests : hearingPc[h] = "ask" => D!Overtaken[h].touched
  BY <1>i, WorkIs DEF D!Overtaken
<1>1. ASSUME NEW d \in D!Days, D!TypeNext(d) PROVE SyncIsFresh'
  BY <1>1, <1>o DEF D!TypeNext, SyncIsFresh
<1>2. ASSUME NEW h \in Requests, D!Recompute(h) PROVE SyncIsFresh'
  BY <1>2, <1>i, <1>o DEF D!Recompute, SyncIsFresh
<1>3. ASSUME NEW h \in Requests, D!BeginSync(h) PROVE SyncIsFresh'
  <2>x. ASSUME NEW x \in Work PROVE [x EXCEPT !.date = next, !.live = live].date = next
    BY DEF Work
  <2>1. sync'[h].date = next
    BY <1>3, <1>i, <2>x, WorkIs DEF D!BeginSync
  <2>2. next' = next /\ \A g \in Requests \ {h} : sync'[g] = sync[g] /\ hearingPc'[g] = hearingPc[g]
    BY <1>3, <1>i DEF D!BeginSync
  <2>3. QED
    BY <1>i, <2>1, <2>2 DEF SyncIsFresh
<1>4. ASSUME NEW h \in Requests, NEW a, NEW court, D!Commit(h, a, court) PROVE SyncIsFresh'
  <2>1. \A g \in Requests \ {h} : sync'[g] = D!Overtaken[g] /\ hearingPc'[g] = hearingPc[g]
    BY <1>4, <1>i DEF D!Commit, D!Overtaken
  <2>2. hearingPc'[h] = "idle"
    BY <1>4, <1>i DEF D!Commit
  <2>3. QED
    BY <1>o, <2>1, <2>2 DEF SyncIsFresh
<1>5. ASSUME next' = next,
             \A h \in Requests : hearingPc'[h] = "ask" => hearingPc[h] = "ask" /\ sync'[h] = sync[h]
      PROVE  SyncIsFresh'
  BY <1>5, <1>i DEF SyncIsFresh
<1>6. ASSUME NEW h \in Requests, D!End(h), next' = next PROVE SyncIsFresh'
  BY <1>5, <1>6, <1>i DEF D!End
<1>7. ASSUME NEW h \in Requests, NEW i, NEW p,
             D!CreateHearing(h, i, p) \/ D!RemoveHearing(h, i) \/ D!BeginUpdate(h, i)
      PROVE  SyncIsFresh'
  <2>1. hearingPc[h] = "idle" /\ next' = next
    BY <1>7 DEF D!CreateHearing, D!RemoveHearing, D!BeginUpdate, D!ChangeRow
  <2>2. hearingPc'[h] # "ask"
    BY <1>7, <1>i DEF D!CreateHearing, D!RemoveHearing, D!BeginUpdate
  <2>3. \A g \in Requests \ {h} : hearingPc'[g] = hearingPc[g] /\ sync'[g] = sync[g]
    BY <1>7, <1>i DEF D!CreateHearing, D!RemoveHearing, D!BeginUpdate
  <2>4. QED
    BY <1>5, <2>1, <2>2, <2>3
<1>8. ASSUME NEW h \in Requests, NEW p, D!Update(h, p) PROVE SyncIsFresh'
  <2>1. next' = next
    BY <1>8 DEF D!Update, D!ChangeRow
  <2>2. CASE D!End(h)
    BY <1>6, <2>1, <2>2
  <2>3. CASE hearingPc' = [hearingPc EXCEPT ![h] = "recompute"] /\ sync' = [sync EXCEPT ![h] = D!NoWork]
    BY <1>5, <1>i, <2>1, <2>3
  <2>4. QED
    BY <1>8, <2>2, <2>3 DEF D!Update
<1>9. ASSUME NEW h \in Requests, D!SyncFails(h) \/ D!Crash(h) PROVE SyncIsFresh'
  BY <1>6, <1>9 DEF D!SyncFails, D!Crash
<1>10. CASE (\E i \in Invites : D!Materialise(i)) \/ D!Tick \/ (\E b \in BOOLEAN : D!TypeStatus(b))
            \/ UNCHANGED D!hearingVars
  BY <1>5, <1>10 DEF D!Materialise, D!Tick, D!TypeStatus, D!hearingVars
<1>11. QED
  BY <1>1, <1>2, <1>3, <1>4, <1>7, <1>8, <1>9, <1>10 DEF D!Next

\* A step that leaves the date and the days that are listed alone, and settles nothing.
LEMMA SettledKeeps ==
    ASSUME Rest, UNCHANGED <<today, next, announced, by>>,
           D!Listed(hearings') = D!Listed(hearings), gone' \subseteq gone,
           ~(D!Pending)' /\ ~owed' => ~D!Pending /\ ~owed
    PROVE  Rest'
<1>1. (D!Upcoming)' = D!Upcoming
  BY DEF D!Upcoming
<1>2. (D!Earliest)' = D!Earliest
  BY <1>1 DEF D!Earliest
<1>3. AfterHearing' /\ AfterCourt'
  BY <1>1, <1>2 DEF Rest, AfterHearing, AfterCourt
<1>4. GoneIsEmpty' /\ NotGone'
  BY DEF Rest, GoneIsEmpty, NotGone
<1>5. QED
  BY <1>3, <1>4 DEF Rest

\* A change of the rows is followed by a recompute, or owes one.
LEMMA ChangeKeeps ==
    ASSUME NEW i, NEW p, D!ChangeRow(i, p), (D!Pending)' \/ owed'
    PROVE  Rest'
<1>1. GoneIsEmpty'
  BY DEF D!ChangeRow, GoneIsEmpty
<1>2. QED
  BY <1>1 DEF Rest, AfterHearing, AfterCourt, NotGone

LEMMA HearingNext == HearingInv /\ [D!Next]_(D!hearingVars) => HearingInv'
<1> SUFFICES ASSUME HearingInv, [D!Next]_(D!hearingVars) PROVE HearingInv'
  OBVIOUS
<1>t. D!TypeOK /\ (D!TypeOK)' /\ SyncIsFresh /\ SyncIsFresh'
  BY HearingTypes, FreshNext DEF HearingInv
<1>i. AfterHearing /\ AfterCourt /\ GoneIsEmpty /\ NotGone /\ Rest
  BY DEF HearingInv, Rest
<1>d. MaxDay \in Nat /\ D!NoDate = 0 /\ D!Days = 1 .. MaxDay /\ D!Dates = 0 .. MaxDay
  BY DaysAre
<1>e. /\ today \in 1 .. MaxDay /\ next \in 0 .. MaxDay /\ announced \in 0 .. MaxDay
      /\ gone \subseteq 1 .. MaxDay /\ hearingPc \in [Requests -> Steps]
      /\ sync \in [Requests -> Work] /\ hearings \in [Invites -> Places] /\ owed \in BOOLEAN
  BY <1>t, <1>d, HearingTyped
<1>u. /\ D!Upcoming = {} => D!Earliest = D!NoDate
      /\ D!Upcoming # {} => D!Earliest \in D!Upcoming
      /\ D!Upcoming \subseteq D!Listed(hearings) /\ \A d \in D!Upcoming : d >= today
      /\ D!Upcoming \in SUBSET D!Days /\ D!Listed(hearings) \subseteq D!Days
  BY EarliestUpcoming
<1>p. ASSUME NEW h \in Requests, hearingPc[h] # "recompute",
             NEW l \in {"idle", "update", "ask"}, hearingPc' = [hearingPc EXCEPT ![h] = l]
      PROVE  (D!Pending)' <=> D!Pending
  BY <1>p, <1>e DEF D!Pending
<1>q. ASSUME NEW h \in Requests, hearingPc' = [hearingPc EXCEPT ![h] = "recompute"]
      PROVE  (D!Pending)'
  BY <1>q, <1>e DEF D!Pending
<1>1. ASSUME NEW d \in D!Days, D!TypeNext(d) PROVE Rest'
  <2>1. /\ next' = d /\ gone' = gone \ {d} /\ by' = "other" /\ hearings' = hearings
    BY <1>1 DEF D!TypeNext, D!Wrote
  <2>2. GoneIsEmpty' /\ NotGone'
    BY <2>1, <1>i DEF GoneIsEmpty, NotGone
  <2>3. QED
    BY <2>1, <2>2 DEF Rest, AfterHearing, AfterCourt
<1>2. ASSUME NEW b \in BOOLEAN, D!TypeStatus(b) PROVE Rest'
  <2>1. UNCHANGED <<today, next, announced, by, hearings, hearingPc, gone, owed>>
    BY <1>2 DEF D!TypeStatus
  <2>2. (D!Pending)' <=> D!Pending
    BY <2>1 DEF D!Pending
  <2>3. QED
    BY <1>i, <2>1, <2>2, SettledKeeps
<1>3. ASSUME NEW h \in Requests, NEW i \in Invites, NEW d, D!CreateHearing(h, i, d) PROVE Rest'
  BY <1>3, <1>q, ChangeKeeps DEF D!CreateHearing
<1>4. ASSUME NEW h \in Requests, NEW i \in Invites, D!RemoveHearing(h, i) PROVE Rest'
  BY <1>4, <1>q, ChangeKeeps DEF D!RemoveHearing
<1>5. ASSUME NEW h \in Requests, NEW i \in Invites, D!BeginUpdate(h, i) PROVE Rest'
  <2>1. /\ UNCHANGED <<today, next, announced, by, hearings, gone, owed>>
        /\ hearingPc[h] = "idle" /\ hearingPc' = [hearingPc EXCEPT ![h] = "update"]
    BY <1>5 DEF D!BeginUpdate
  <2>2. (D!Pending)' <=> D!Pending
    BY <1>p, <2>1
  <2>3. QED
    BY <1>i, <2>1, <2>2, SettledKeeps
<1>6. ASSUME NEW h \in Requests, NEW p, D!Update(h, p) PROVE Rest'
  <2> DEFINE i == sync[h].hearing
  <2>u. hearingPc[h] = "update"
    BY <1>6 DEF D!Update
  <2>1. CASE D!End(h) /\ UNCHANGED <<today, next, live, hearings, announced, by, gone, owed>>
    <3>1. (D!Pending)' <=> D!Pending
      BY <1>p, <2>u, <2>1 DEF D!End
    <3>2. QED
      BY <1>i, <2>1, <3>1, SettledKeeps
  <2>2. ASSUME D!ChangeRow(i, p), hearingPc' = [hearingPc EXCEPT ![h] = "recompute"] PROVE Rest'
    BY <1>q, <2>2, ChangeKeeps
  <2>3. ASSUME D!ChangeRow(i, p), p = D!Elsewhere, D!End(h), owed' = (owed \/ D!Ours(i))
        PROVE  Rest'
    <3>1. CASE owed'
      BY <2>3, <3>1, ChangeKeeps
    <3>2. CASE ~owed'
      <4>1. D!Elsewhere \notin D!Days /\ hearings[i] \notin D!Days
        BY <2>3, <3>2, DaysAre DEF D!Ours, D!Dates
      <4>2. hearings' = [hearings EXCEPT ![i] = D!Elsewhere]
        BY <2>3 DEF D!ChangeRow
      <4>3. \A j \in Invites : IF j = i THEN hearings'[j] = D!Elsewhere ELSE hearings'[j] = hearings[j]
        BY <1>e, <4>2
      <4>4. D!Listed(hearings') = D!Listed(hearings)
        BY <4>1, <4>3 DEF D!Listed
      <4>5. gone' \subseteq gone /\ UNCHANGED <<today, next, announced, by>>
        BY <2>3, <4>4 DEF D!ChangeRow
      <4>6. (D!Pending)' <=> D!Pending
        BY <1>p, <2>u, <2>3 DEF D!End
      <4>7. ~owed
        BY <2>3, <3>2
      <4>8. QED
        BY <1>i, <4>4, <4>5, <4>6, <4>7, SettledKeeps
    <3>3. QED
      BY <3>1, <3>2
  <2>4. QED
    BY <1>6, <2>1, <2>2, <2>3 DEF D!Update
<1>7. ASSUME NEW h \in Requests, D!Recompute(h) PROVE Rest'
  <2>1. next' = D!Earliest /\ UNCHANGED <<today, hearings, gone>> /\ by' = "hearing"
    BY <1>7 DEF D!Recompute, D!Recomputed, D!Wrote
  <2>2. (D!Earliest)' = D!Earliest
    BY <2>1 DEF D!Earliest, D!Upcoming
  <2>3. D!Earliest >= today => D!Earliest \notin gone
    <3>1. D!Earliest = D!NoDate \/ D!Earliest \in D!Listed(hearings)
      BY <1>u
    <3>2. D!NoDate \notin gone
      BY <1>d, <1>e
    <3>3. QED
      BY <1>i, <3>1, <3>2 DEF GoneIsEmpty
  <2>4. QED
    BY <1>i, <2>1, <2>2, <2>3 DEF Rest, AfterHearing, AfterCourt, GoneIsEmpty, NotGone
<1>8. ASSUME NEW i \in Invites, D!Materialise(i) PROVE Rest'
  <2>1. /\ next # D!NoDate /\ next >= today /\ next \notin D!Listed(hearings)
        /\ UNCHANGED <<today, next, hearingPc, announced, by, owed>> /\ gone' = gone \ {next}
        /\ hearings' = [hearings EXCEPT ![i] = next]
    BY <1>8 DEF D!Materialise
  <2>2. (D!Pending)' <=> D!Pending
    BY <2>1 DEF D!Pending
  <2>3. D!Pending \/ owed \/ by # "hearing"
    <3>1. next # D!Earliest
      BY <1>u, <2>1
    <3>2. QED
      BY <1>i, <2>1, <3>1 DEF AfterHearing
  <2>4. D!Pending \/ owed \/ by # "court"
    BY <1>i, <1>u, <2>1 DEF AfterCourt
  <2>5. D!Listed(hearings') \subseteq D!Listed(hearings) \cup {next}
    <3>1. \A j \in Invites : hearings'[j] = next \/ hearings'[j] = hearings[j]
      BY <1>e, <2>1
    <3>2. QED
      BY <3>1 DEF D!Listed
  <2>6. GoneIsEmpty'
    BY <1>i, <2>1, <2>5 DEF GoneIsEmpty
  <2>7. QED
    BY <2>1, <2>2, <2>3, <2>4, <2>6 DEF Rest, AfterHearing, AfterCourt, NotGone
<1>9. ASSUME NEW h \in Requests, D!BeginSync(h) \/ D!SyncFails(h) PROVE Rest'
  <2>1. UNCHANGED <<today, next, hearings, announced, by, gone, owed>>
    BY <1>9 DEF D!BeginSync, D!SyncFails
  <2>2. (D!Pending)' <=> D!Pending
    BY <1>9, <1>p DEF D!BeginSync, D!SyncFails, D!End
  <2>3. QED
    BY <1>i, <2>1, <2>2, SettledKeeps
<1>10. ASSUME NEW h \in Requests, NEW a \in D!Answers,
              NEW court \in [Invites -> D!Open \cap {D!NoDate, today, D!DateOf(a)}],
              D!Commit(h, a, court)
       PROVE  Rest'
  <2>1. hearingPc[h] = "ask" /\ ((D!Pending)' <=> D!Pending)
    BY <1>10, <1>p DEF D!Commit
  <2>2. D!Listed(hearings') \subseteq D!Listed(court)
    <3>1. \A i \in Invites : hearings'[i] = court[i] \/ hearings'[i] \notin D!Days
      BY <1>10, DaysAre DEF D!Commit, D!Ours, D!Dates
    <3>2. QED
      BY <3>1 DEF D!Listed
  <2>c. D!Listed(court) \subseteq D!Listed(hearings')
    <3>1. \A i \in Invites : court[i] \in D!Days => hearings'[i] = court[i]
      BY <1>10, <1>d DEF D!Commit
    <3>2. QED
      BY <3>1 DEF D!Listed
  <2>3. /\ gone' = gone \ D!Listed(court) /\ today' = today
        /\ next' = (IF a = sync[h].date THEN next ELSE D!DateOf(a))
        /\ owed' = (owed /\ sync[h].touched)
        /\ IF sync[h].touched THEN by' = "other" ELSE by' = "court" /\ announced' = D!DateOf(a)
    BY <1>10 DEF D!Commit, D!Patched, D!Wrote
  <2>a. D!DateOf(a) >= today => D!DateOf(a) \in D!Listed(court)
    <3>1. D!DateOf(a) \in D!Open => D!DateOf(a) \in D!Listed(court) \cup {D!NoDate}
      BY <1>10 DEF D!Commit
    <3>2. D!DateOf(a) >= today => D!DateOf(a) \in D!Open /\ D!DateOf(a) # D!NoDate
      BY <1>d, <1>e, DaysAre DEF D!Open
    <3>3. QED
      BY <3>1, <3>2
  <2>4. ~sync[h].touched => next' = D!DateOf(a)
    <3>1. ~sync[h].touched => sync[h].date = next
      BY <1>t, <2>1 DEF SyncIsFresh
    <3>2. a \in D!Dates => D!DateOf(a) = a
      BY DaysAre, <1>d DEF D!DateOf, D!Disposed
    <3>3. QED
      BY <1>d, <1>e, <2>3, <3>1, <3>2
  <2>5. GoneIsEmpty'
    BY <2>2, <2>3 DEF GoneIsEmpty
  <2>6. AfterCourt'
    <3>1. \A d \in D!Listed(court) : d = today \/ d = D!DateOf(a)
      BY <1>d DEF D!Listed
    <3>2. (D!Upcoming)' = {d \in D!Listed(court) : d >= today}
      BY <2>2, <2>c, <2>3 DEF D!Upcoming
    <3>3. \A d \in (D!Upcoming)' : d > today => d = D!DateOf(a)
      BY <3>1, <3>2, <1>e
    <3>4. D!DateOf(a) >= today => D!DateOf(a) \in (D!Upcoming)'
      BY <2>a, <3>2
    <3>5. QED
      BY <2>3, <2>4, <3>3, <3>4 DEF AfterCourt
  <2>7. NotGone'
    <3>1. CASE sync[h].touched
      BY <1>i, <2>1, <2>3, <2>a, <3>1 DEF NotGone
    <3>2. CASE ~sync[h].touched
      BY <2>3, <2>4, <2>a, <3>2 DEF NotGone
    <3>3. QED
      BY <3>1, <3>2
  <2>8. QED
    BY <2>3, <2>5, <2>6, <2>7 DEF Rest, AfterHearing
<1>11. ASSUME D!Tick PROVE Rest'
  <2>1. /\ today' = today + 1 /\ gone' = gone \ {today}
        /\ UNCHANGED <<next, hearingPc, announced, by, owed>>
    BY <1>11 DEF D!Tick
  <2>2. (D!Pending)' <=> D!Pending
    BY <2>1 DEF D!Pending
  <2>l. D!Listed(hearings') = D!Listed(hearings) \ {today}
    <3>1. \A i \in Invites : hearings'[i] = IF hearings[i] = today THEN D!NoDate ELSE hearings[i]
      BY <1>11 DEF D!Tick
    <3>2. D!NoDate \notin D!Days
      BY <1>d
    <3>3. QED
      BY <3>1, <3>2 DEF D!Listed
  <2>3. (D!Upcoming)' = D!Upcoming \ {today}
    BY <1>d, <1>e, <1>u, <2>1, <2>l DEF D!Upcoming
  <2>4. ASSUME next = D!Earliest, next = D!NoDate \/ next >= today'
        PROVE  next = (D!Earliest)'
    <3>1. today \notin D!Upcoming
      <4>1. CASE D!Upcoming = {}
        BY <4>1
      <4>2. CASE D!Upcoming # {}
        <5>1. D!Earliest = D!Min(D!Upcoming) /\ D!Earliest \in D!Upcoming
          BY <1>u, <4>2 DEF D!Earliest
        <5>2. next >= today' /\ \A d \in D!Upcoming : next <= d
          BY <1>d, <1>u, <2>4, <4>2, <5>1, EarliestIs
        <5>3. QED
          BY <1>e, <2>1, <5>2
      <4>3. QED
        BY <4>1, <4>2
    <3>2. (D!Upcoming)' = D!Upcoming
      BY <2>3, <3>1
    <3>3. QED
      BY <2>4, <3>2 DEF D!Earliest
  <2>5. AfterHearing'
    <3>1. next >= today' => next >= today
      BY <1>e, <2>1
    <3>2. QED
      BY <1>i, <2>1, <2>2, <2>4, <3>1 DEF AfterHearing, D!NoDate
  <2>6. AfterCourt'
    <3>1. next >= today' => next >= today /\ next # today
      BY <1>e, <2>1
    <3>2. \A d \in (D!Upcoming)' : d \in D!Upcoming /\ (d > today' => d > today)
      BY <1>d, <1>e, <1>u, <2>1, <2>3
    <3>3. QED
      BY <1>i, <2>1, <2>2, <2>3, <3>1, <3>2 DEF AfterCourt, D!NoDate
  <2>7. GoneIsEmpty' /\ NotGone'
    <3>1. next >= today' => next >= today
      BY <1>e, <2>1
    <3>2. QED
      BY <1>i, <2>1, <2>2, <2>l, <3>1 DEF GoneIsEmpty, NotGone
  <2>8. QED
    BY <2>5, <2>6, <2>7 DEF Rest
<1>12. ASSUME NEW h \in Requests, D!Crash(h) PROVE Rest'
  <2>1. /\ UNCHANGED <<today, next, hearings, announced, by, gone>>
        /\ owed' = (owed \/ hearingPc[h] = "recompute")
        /\ hearingPc' = [hearingPc EXCEPT ![h] = "idle"]
    BY <1>12 DEF D!Crash, D!End
  <2>2. ~(D!Pending)' /\ ~owed' => ~D!Pending /\ ~owed
    BY <1>p, <2>1
  <2>3. QED
    BY <1>i, <2>1, <2>2, SettledKeeps
<1>13. ASSUME UNCHANGED D!hearingVars PROVE Rest'
  <2>1. UNCHANGED <<today, next, announced, by, hearings, hearingPc, gone, owed>>
    BY <1>13 DEF D!hearingVars
  <2>2. (D!Pending)' <=> D!Pending
    BY <2>1 DEF D!Pending
  <2>3. QED
    BY <1>i, <2>1, <2>2, SettledKeeps
<1>14. Rest'
  BY <1>1, <1>2, <1>3, <1>4, <1>5, <1>6, <1>7, <1>8, <1>9, <1>10, <1>11, <1>12, <1>13 DEF D!Next
<1>15. QED
  BY <1>t, <1>14 DEF HearingInv

LEMMA HearingInit == D!Init => HearingInv
<1> SUFFICES ASSUME D!Init PROVE HearingInv
  OBVIOUS
<1>1. D!TypeOK
  <2>1. sync \in [Requests -> Work]
    BY WorkIs DEF D!Init
  <2>2. hearings \in [Invites -> Places]
    BY DEF D!Init, Places
  <2>3. today \in D!Days /\ next \in D!Dates /\ announced \in D!Dates /\ gone \subseteq D!Days
    BY DaysAre DEF D!Init
  <2>4. live \in BOOLEAN /\ owed \in BOOLEAN /\ by \in {"hearing", "court", "other"}
    BY DEF D!Init
  <2>5. hearingPc \in [Requests -> Steps]
    BY DEF D!Init, Steps
  <2>6. QED
    BY <2>1, <2>2, <2>3, <2>4, <2>5 DEF D!TypeOK, Work, Places, Steps
<1>2. Rest
  BY DEF D!Init, Rest, AfterHearing, AfterCourt, GoneIsEmpty, NotGone
<1>3. SyncIsFresh
  BY DEF D!Init, SyncIsFresh
<1>4. QED
  BY <1>1, <1>2, <1>3 DEF HearingInv

\* However edits, moves between matters, recomputes and syncs overlap, a matter
\* whose last recompute is done, and which is owed none, announces its earliest
\* hearing, and after a sync nobody overtook what the court said and no other
\* day after today (syncCaseNextHearing, buildCasePatch), for any number of days,
\* hearings and requests.
THEOREM MatterAnnouncesRight == Spec => []NextHearingIsRight
<1>1. Init => HearingInv
  BY HearingInit DEF Init
<1>2. HearingInv /\ [Next]_vars => HearingInv'
  BY HearingNext, HearingSteps
<1>3. HearingInv => NextHearingIsRight
  BY DEF HearingInv, Rest, AfterHearing, AfterCourt, NextHearingIsRight, D!NextHearingIsRight
<1>4. QED
  BY <1>1, <1>2, <1>3, PTL DEF Spec

\* A hearing that was deleted or moved away is not made again from the date
\* (materializeCaseHearings), unless a recompute is still to come, or is owed:
\* its process died, or a racing update moved the hearing on and recomputed
\* another matter (update of hearings.service.ts).
THEOREM RemovedIsRemoved == Spec => RemovedStaysRemoved
<1>1. Init => HearingInv
  BY HearingInit DEF Init
<1>2. HearingInv /\ [Next]_vars => HearingInv'
  BY HearingNext, HearingSteps
<1>3. HearingInv /\ [Next]_vars
        => [(\E i \in Invites : D!Materialise(i)) /\ next \in gone
               => D!Pending \/ owed]_(D!hearingVars)
  <2>1. (\E i \in Invites : D!Materialise(i)) => next >= today
    BY DEF D!Materialise
  <2>2. QED
    BY HearingSteps, <2>1 DEF HearingInv, Rest, NotGone
<1>4. QED
  BY <1>1, <1>2, <1>3, PTL DEF Spec, RemovedStaysRemoved, D!RemovedStaysRemoved

-----------------------------------------------------------------------------
(* The audit log (EsignAudit) *)

\* The rows a record writes: its hash is the hash of what it read and of itself.
Marks  == Invites \X Nat
Events == [id : A!Ids, at : 0 .. MaxTime, content : Invites, about : Users,
           prev : Seq(Marks), hash : Seq(Marks)]

AuditTypes ==
    /\ now \in 0 .. MaxTime /\ chained \in BOOLEAN /\ recut \in BOOLEAN
    /\ auditPc \in [Requests -> {"idle", "insert"}] /\ DOMAIN ev = Requests
    /\ rows \subseteq Events /\ written \subseteq Events
    /\ \A h \in A!Pending : ev[h] \in Events

\* No id is given twice.
OwnIds(T) == \A r, q \in T : r.id = q.id => r = q
FreshIds ==
    /\ OwnIds(written)
    /\ \A h \in A!Pending : \A r \in written : r.id # ev[h].id
    /\ \A g, h \in A!Pending : g # h => ev[g].id # ev[h].id

\* A chained log verifies, and the event on its way will be the next link.
Links(e, T) == /\ \A r \in T : r.at < e.at
               /\ e.prev = A!LastHash(T) /\ e.hash = A!computeHash(e.prev, e.content, e.at)
Chain == chained /\ rows = written =>
             /\ A!verifyChain(rows)
             /\ \A h \in A!Pending : A!Pending = {h} /\ Links(ev[h], rows)

\* What the table can be once it is touched: never again what was written, and
\* other than that in one row, which kept its place and its hashes or is gone.
Marked(r, s) == r # s /\ \A f \in {"id", "at", "prev", "hash"} : s[f] = r[f]
Touched ==
    \/ rows = written
    \/ \E r \in written, s \in rows : rows = (written \ {r}) \cup {s} /\ Marked(r, s)
    \/ \E r \in written : rows = written \ {r} /\ (recut \/ \E q \in written : A!Before(r, q))

AuditInv == AuditTypes /\ FreshIds /\ Chain /\ Touched

LEMMA AuditSteps == [Next]_vars => [A!Next]_(A!auditVars)
  BY DEF Next, vars, Handover, Cover, Audit, Hear, LookUp, Call, peopleVars, auditVars, A!auditVars

(* The order in which the log is read *)

LEMMA EventNumbers == ASSUME NEW x \in Events PROVE x.at \in Nat /\ x.id \in Nat
  BY OfficeAssumption DEF Events, A!Ids

\* The row that none follows is the newest.
LEMMA NewestIs ==
  ASSUME NEW T \in SUBSET Events, OwnIds(T), NEW r \in T, \A q \in T : ~A!Before(r, q)
  PROVE  A!Newest(T) = r
<1>1. ASSUME NEW s \in T, \A q \in T : ~A!Before(s, q) PROVE s = r
  <2>1. /\ s.at \in Nat /\ s.id \in Nat /\ r.at \in Nat /\ r.id \in Nat
        /\ ~A!Before(s, r) /\ ~A!Before(r, s)
    BY <1>1 DEF Events, A!Ids
  <2>2. s.id = r.id
    BY <2>1 DEF A!Before
  <2>3. QED
    BY <2>2 DEF OwnIds
<1>2. QED
  BY <1>1 DEF A!Newest

\* Of some rows one comes first.
LEMMA FirstExists ==
  ASSUME NEW T \in SUBSET Events, T # {}
  PROVE  \E j \in T : \A q \in T : ~A!Before(q, j)
<1>0. ASSUME NEW r \in T PROVE r.at \in Nat /\ r.id \in Nat
  BY EventNumbers
<1> DEFINE At == {r.at : r \in T}
<1>1. At \in SUBSET Nat /\ At # {}
  BY DEF Events
<1>2. PICK t \in At : \A u \in At : t <= u
  BY <1>1, LeastExists
<1> DEFINE U == {r \in T : r.at = t}
           Id == {r.id : r \in U}
<1>3. Id \in SUBSET Nat /\ Id # {}
  BY <1>2 DEF Events, A!Ids
<1>4. PICK i \in Id : \A k \in Id : i <= k
  BY <1>3, LeastExists
<1>5. PICK j \in U : j.id = i
  BY <1>4
<1>6. ASSUME NEW q \in T, A!Before(q, j) PROVE FALSE
  <2>0. j \in T /\ j.at = t
    BY <1>5
  <2>1. q.at \in Nat /\ j.at \in Nat /\ q.id \in Nat /\ j.id \in Nat /\ j.at = t
    BY <2>0, <1>0
  <2>2. t <= q.at
    BY <1>2
  <2>3. q.at = t /\ q.id < i
    BY <2>1, <2>2, <1>5, <1>6 DEF A!Before
  <2>4. q.id \in Id
    BY <2>3
  <2>5. i <= q.id /\ i \in Nat
    BY <2>4, <1>4, <1>3
  <2>6. QED
    BY <2>5, <2>3, <2>1
<1>7. QED
  BY <1>5, <1>6

\* A hash tells what went into it, and is longer than the one before it.
LEMMA HashTells ==
  ASSUME NEW p \in Seq(Marks), NEW q \in Seq(Marks),
         NEW c \in Invites, NEW d \in Invites, NEW t \in Nat, NEW u \in Nat
  PROVE  /\ A!computeHash(p, c, t) = A!computeHash(q, d, u) => p = q /\ c = d /\ t = u
         /\ A!computeHash(p, c, t) # p
         /\ A!computeHash(p, c, t) \in Seq(Marks)
<1> DEFINE x == <<c, t>>
           y == <<d, u>>
<1>1. x \in Marks /\ y \in Marks
  BY DEF Marks
<1>2. x = y => c = d /\ t = u
  OBVIOUS
<1>3. A!computeHash(p, c, t) = Append(p, x) /\ A!computeHash(q, d, u) = Append(q, y)
  BY DEF A!computeHash
<1> HIDE DEF x, y
<1>4. Append(p, x) \in Seq(Marks) /\ Len(Append(p, x)) = Len(p) + 1 /\ Len(p) \in Nat
  BY <1>1
<1>5. Append(p, x) # p
  BY <1>4
<1>6. ASSUME Append(p, x) = Append(q, y) PROVE p = q /\ x = y
  <2>1. /\ Append(p, x)[Len(p) + 1] = x /\ Append(q, y)[Len(q) + 1] = y
        /\ \A i \in 1 .. Len(p) : Append(p, x)[i] = p[i]
        /\ \A i \in 1 .. Len(q) : Append(q, y)[i] = q[i]
    BY <1>1
  <2>2. Len(p) = Len(q)
    BY <1>1, <1>6, <1>4
  <2>3. x = y
    BY <2>1, <2>2, <1>6
  <2>4. \A i \in 1 .. Len(p) : p[i] = q[i]
    BY <2>1, <2>2, <1>6
  <2>5. p = q
    BY <2>2, <2>4
  <2>6. QED
    BY <2>3, <2>5
<1>7. QED
  BY <1>2, <1>3, <1>4, <1>5, <1>6

\* Of some rows one comes last, and is the newest.
LEMMA LastExists ==
  ASSUME NEW T \in SUBSET Events, T # {}
  PROVE  \E j \in T : \A q \in T : ~A!Before(j, q)
<1> DEFINE At == {MaxTime - r.at : r \in T}
<1>n. MaxTime \in Nat /\ MaxEvents \in Nat
  BY OfficeAssumption
<1>0. ASSUME NEW r \in T PROVE /\ r.at \in Nat /\ MaxTime - r.at \in Nat
                              /\ r.id \in Nat /\ MaxEvents - r.id \in Nat
  BY <1>n DEF Events, A!Ids
<1>1. At \in SUBSET Nat /\ At # {}
  BY <1>0
<1>2. PICK t \in At : \A u \in At : t <= u
  BY <1>1, LeastExists
<1> DEFINE U == {r \in T : MaxTime - r.at = t}
           Id == {MaxEvents - r.id : r \in U}
<1>3. Id \in SUBSET Nat /\ Id # {}
  BY <1>0, <1>2
<1>4. PICK i \in Id : \A k \in Id : i <= k
  BY <1>3, LeastExists
<1>5. PICK j \in U : MaxEvents - j.id = i
  BY <1>4
<1>6. ASSUME NEW q \in T, A!Before(j, q) PROVE FALSE
  <2>1. j \in T /\ MaxTime - j.at = t
    BY <1>5
  <2>2. t <= MaxTime - q.at
    BY <1>2
  <2>3. q.at = j.at /\ j.id < q.id
    BY <2>1, <2>2, <1>0, <1>6, <1>n DEF A!Before
  <2>4. MaxEvents - q.id \in Id
    BY <2>1, <2>3
  <2>5. i <= MaxEvents - q.id
    BY <2>4, <1>4
  <2>6. QED
    BY <2>5, <2>3, <2>1, <1>5, <1>0, <1>n
<1>7. QED
  BY <1>5, <1>6

LEMMA LastHashType ==
  ASSUME NEW T \in SUBSET Events, OwnIds(T)
  PROVE  A!LastHash(T) \in Seq(Marks) /\ (T # {} => A!Newest(T) \in T)
<1>1. CASE T = {}
  BY <1>1 DEF A!LastHash, A!NoHash
<1>2. CASE T # {}
  <2>1. PICK j \in T : \A q \in T : ~A!Before(j, q)
    BY <1>2, LastExists
  <2>2. A!Newest(T) = j
    BY <2>1, NewestIs
  <2>3. QED
    BY <2>2, <1>2 DEF A!LastHash, Events
<1>3. QED
  BY <1>1, <1>2

(* The invariant *)

LEMMA AuditInit == A!Init => AuditInv
<1> SUFFICES ASSUME A!Init PROVE AuditInv
  OBVIOUS
<1>1. A!Pending = {} /\ rows = {} /\ written = {} /\ chained = TRUE
  BY DEF A!Init, A!Pending
<1>2. AuditTypes
  <2>1. 0 \in 0 .. MaxTime
    BY OfficeAssumption
  <2>2. DOMAIN ev = Requests /\ auditPc \in [Requests -> {"idle", "insert"}]
    BY DEF A!Init
  <2>3. QED
    BY <1>1, <2>1, <2>2 DEF A!Init, AuditTypes
<1>3. FreshIds /\ Chain /\ Touched
  BY <1>1 DEF FreshIds, OwnIds, Chain, A!verifyChain, Touched
<1>4. QED
  BY <1>2, <1>3 DEF AuditInv

\* What stamping an event does.
StampOf(h, id, c, s) ==
    [id |-> id, at |-> now, content |-> c, about |-> s,
     prev |-> A!LastHash(rows), hash |-> A!computeHash(A!LastHash(rows), c, now)]

LEMMA RowsTypes == AuditTypes /\ FreshIds /\ Touched => OwnIds(rows) /\ \A r \in rows : \E q \in written : q.id = r.id
<1> SUFFICES ASSUME AuditTypes, FreshIds, Touched PROVE OwnIds(rows) /\ \A r \in rows : \E q \in written : q.id = r.id
  OBVIOUS
<1>1. CASE rows = written
  BY <1>1 DEF FreshIds
<1>2. ASSUME NEW r \in written, NEW s \in rows, rows = (written \ {r}) \cup {s}, Marked(r, s)
      PROVE  OwnIds(rows) /\ \A x \in rows : \E q \in written : q.id = x.id
  <2>1. s["id"] = r["id"]
    BY <1>2 DEF Marked
  <2>2. s.id = r.id
    BY <2>1
  <2>3. QED
    BY <1>2, <2>2 DEF FreshIds, OwnIds
<1>3. ASSUME NEW r \in written, rows = written \ {r}
      PROVE  OwnIds(rows) /\ \A x \in rows : \E q \in written : q.id = x.id
  BY <1>3 DEF FreshIds, OwnIds
<1>4. QED
  BY <1>1, <1>2, <1>3 DEF Touched

LEMMA AuditNextTypes == AuditInv /\ [A!Next]_(A!auditVars) => AuditTypes'
<1> SUFFICES ASSUME AuditInv, [A!Next]_(A!auditVars) PROVE AuditTypes'
  OBVIOUS
<1>i. AuditTypes /\ FreshIds /\ Touched
  BY DEF AuditInv
<1>o. OwnIds(rows) /\ rows \in SUBSET Events
  BY <1>i, RowsTypes DEF AuditTypes
<1>l. A!LastHash(rows) \in Seq(Marks)
  BY <1>o, LastHashType
<1>1. CASE A!Clock
  BY <1>1, <1>i, OfficeAssumption DEF A!Clock, AuditTypes, A!Pending
<1>2. CASE A!Tamper
  <2>1. PICK r \in rows : A!Delete(r) \/ (\E c \in Invites : A!Rewrite(r, c)) \/ (\E s \in Users : A!Reassign(r, s))
    BY <1>2 DEF A!Tamper
  <2>2. /\ UNCHANGED <<now, auditPc, ev, written, chained>>
        /\ recut' \in BOOLEAN /\ rows' \subseteq Events
    <3>1. r \in Events
      BY <1>o
    <3>2. CASE A!Delete(r)
      BY <3>2, <1>o, <1>i DEF A!Delete, AuditTypes
    <3>3. ASSUME NEW c \in Invites, A!Rewrite(r, c)
          PROVE  rows' \subseteq Events /\ UNCHANGED <<now, auditPc, ev, written, chained, recut>>
      <4>1. [r EXCEPT !.content = c] \in Events
        BY <3>1 DEF Events
      <4>2. QED
        BY <4>1, <3>3, <1>o DEF A!Rewrite
    <3>4. ASSUME NEW s \in Users, A!Reassign(r, s)
          PROVE  rows' \subseteq Events /\ UNCHANGED <<now, auditPc, ev, written, chained, recut>>
      <4>1. [r EXCEPT !.about = s] \in Events
        BY <3>1 DEF Events
      <4>2. QED
        BY <4>1, <3>4, <1>o DEF A!Reassign
    <3>5. QED
      BY <2>1, <3>2, <3>3, <3>4, <1>i DEF AuditTypes
  <2>3. QED
    BY <2>2, <1>i DEF AuditTypes, A!Pending
<1>3. ASSUME NEW h \in Requests, A!Insert(h) PROVE AuditTypes'
  <2>1. h \in A!Pending /\ ev[h] \in Events
    BY <1>3, <1>i DEF A!Insert, AuditTypes
  <2>2. auditPc' = [auditPc EXCEPT ![h] = "idle"] /\ ev' = [ev EXCEPT ![h] = A!NoHash]
        /\ rows' = rows \cup {ev[h]} /\ written' = written \cup {ev[h]} /\ UNCHANGED <<now, chained, recut>>
    BY <1>3 DEF A!Insert
  <2>3. \A g \in A!Pending' : g \in A!Pending /\ ev'[g] = ev[g]
    BY <2>2, <1>i DEF A!Pending, AuditTypes
  <2>4. QED
    BY <2>1, <2>2, <2>3, <1>i DEF AuditTypes
<1>4. ASSUME NEW h \in Requests, NEW c \in Invites, NEW s \in Users, A!Stamp(h, c, s) PROVE AuditTypes'
  <2>1. PICK id \in A!Ids : ev' = [ev EXCEPT ![h] = StampOf(h, id, c, s)]
    BY <1>4 DEF A!Stamp, StampOf
  <2>2. StampOf(h, id, c, s) \in Events
    <3>1. now \in Nat /\ now \in 0 .. MaxTime
      BY <1>i DEF AuditTypes
    <3>2. A!computeHash(A!LastHash(rows), c, now) \in Seq(Marks)
      BY <3>1, <1>l, HashTells
    <3>3. QED
      BY <3>1, <3>2, <1>l DEF StampOf, Events
  <2>3. auditPc' = [auditPc EXCEPT ![h] = "insert"] /\ UNCHANGED <<now, rows, written, recut>>
        /\ chained' \in BOOLEAN
    BY <1>4, <1>i DEF A!Stamp, AuditTypes
  <2>4. \A g \in A!Pending' : ev'[g] \in Events
    BY <2>1, <2>2, <2>3, <1>i DEF A!Pending, AuditTypes
  <2>5. QED
    BY <2>1, <2>3, <2>4, <1>i DEF AuditTypes
<1>5. CASE UNCHANGED A!auditVars
  BY <1>5, <1>i DEF A!auditVars, AuditTypes, A!Pending
<1>6. QED
  BY <1>1, <1>2, <1>3, <1>4, <1>5 DEF A!Next

\* The rows of a record on its way are no rows yet.
LEMMA AuditNextFresh == AuditInv /\ [A!Next]_(A!auditVars) => FreshIds'
<1> SUFFICES ASSUME AuditInv, [A!Next]_(A!auditVars) PROVE FreshIds'
  OBVIOUS
<1>i. AuditTypes /\ FreshIds
  BY DEF AuditInv
<1>1. ASSUME UNCHANGED <<written, auditPc, ev>> PROVE FreshIds'
  BY <1>1, <1>i DEF FreshIds, A!Pending, OwnIds
<1>2. CASE A!Clock \/ A!Tamper \/ UNCHANGED A!auditVars
  BY <1>1, <1>2 DEF A!Clock, A!Tamper, A!Delete, A!Rewrite, A!Reassign, A!auditVars
<1>3. ASSUME NEW h \in Requests, A!Insert(h) PROVE FreshIds'
  <2>1. /\ h \in A!Pending /\ auditPc' = [auditPc EXCEPT ![h] = "idle"]
        /\ ev' = [ev EXCEPT ![h] = A!NoHash] /\ written' = written \cup {ev[h]}
    BY <1>3 DEF A!Insert
  <2>2. \A g \in A!Pending' : g \in A!Pending /\ g # h /\ ev'[g] = ev[g]
    BY <2>1, <1>i DEF A!Pending, AuditTypes
  <2>3. OwnIds(written')
    BY <2>1, <1>i DEF FreshIds, OwnIds
  <2>4. QED
    BY <2>1, <2>2, <2>3, <1>i DEF FreshIds, OwnIds
<1>4. ASSUME NEW h \in Requests, NEW c \in Invites, NEW s \in Users, A!Stamp(h, c, s) PROVE FreshIds'
  <2>1. PICK id \in A!Ids \ ({r.id : r \in written} \cup {ev[g].id : g \in A!Pending}) :
               ev' = [ev EXCEPT ![h] = StampOf(h, id, c, s)]
    BY <1>4 DEF A!Stamp, StampOf
  <2>2. auditPc' = [auditPc EXCEPT ![h] = "insert"] /\ UNCHANGED written
    BY <1>4 DEF A!Stamp
  <2>3. StampOf(h, id, c, s).id = id
    BY DEF StampOf
  <2>4. \A g \in A!Pending' : \/ g = h /\ ev'[g].id = id
                              \/ g # h /\ g \in A!Pending /\ ev'[g] = ev[g]
    BY <2>1, <2>2, <2>3, <1>i DEF A!Pending, AuditTypes
  <2>5. (\A r \in written : r.id # id) /\ (\A g \in A!Pending : ev[g].id # id)
    BY <2>1
  <2>6. QED
    BY <2>2, <2>4, <2>5, <1>i DEF FreshIds, OwnIds
<1>5. QED
  BY <1>2, <1>3, <1>4 DEF A!Next

\* Whatever happens to a settled table, it is not what was written afterwards.
LEMMA TamperTouches ==
  AuditInv /\ A!Tamper => /\ rows = written /\ rows' # written /\ Touched'
                          /\ UNCHANGED <<now, auditPc, ev, written, chained>>
<1> SUFFICES ASSUME AuditInv, A!Tamper
             PROVE  /\ rows = written /\ rows' # written /\ Touched'
                    /\ UNCHANGED <<now, auditPc, ev, written, chained>>
  OBVIOUS
<1>i. AuditTypes /\ FreshIds /\ OwnIds(written) /\ written \in SUBSET Events
  BY DEF AuditInv, AuditTypes, FreshIds
<1>1. PICK r \in rows : A!Delete(r) \/ (\E c \in Invites : A!Rewrite(r, c)) \/ (\E s \in Users : A!Reassign(r, s))
  BY DEF A!Tamper
<1>2. rows = written /\ r \in written /\ r \in Events /\ UNCHANGED <<now, auditPc, ev, written, chained>>
  BY <1>1, <1>i DEF A!Delete, A!Rewrite, A!Reassign, A!Settled
<1>3. CASE A!Delete(r)
  <2>1. rows' = written \ {r} /\ recut' = (r = A!Newest(written))
    BY <1>2, <1>3 DEF A!Delete
  <2>2. CASE \E q \in written : A!Before(r, q)
    <3>1. PICK q \in written : A!Before(r, q)
      BY <2>2
    <3>2. q \in written'
      BY <1>2
    <3>3. \E y \in written' : A!Before(r, y)
      BY <3>1, <3>2
    <3>4. QED
      BY <2>1, <3>3, <1>2 DEF Touched
  <2>3. CASE ~\E q \in written : A!Before(r, q)
    <3>1. A!Newest(written) = r
      BY <2>3, <1>2, <1>i, NewestIs
    <3>2. QED
      BY <2>1, <3>1, <1>2 DEF Touched
  <2>4. QED
    BY <2>2, <2>3
<1>4. ASSUME NEW s, s # r, rows' = (rows \ {r}) \cup {s}, \A f \in {"id", "at", "prev", "hash"} : s[f] = r[f]
      PROVE  rows' # written /\ Touched'
  <2>1. r \notin rows' /\ s \in rows' /\ r \in written' /\ rows' = (written' \ {r}) \cup {s}
    BY <1>2, <1>4
  <2>2. Marked(r, s)
    BY <1>4 DEF Marked
  <2>3. \E x \in written', y \in rows' : rows' = (written' \ {x}) \cup {y} /\ Marked(x, y)
    BY <2>1, <2>2
  <2>4. QED
    BY <2>1, <2>3, <1>2 DEF Touched
<1>5. ASSUME NEW c \in Invites, A!Rewrite(r, c) PROVE rows' # written /\ Touched'
  <2>1. r.content # c /\ rows' = (rows \ {r}) \cup {[r EXCEPT !.content = c]}
    BY <1>5 DEF A!Rewrite
  <2>2. /\ [r EXCEPT !.content = c] # r
        /\ \A f \in {"id", "at", "prev", "hash"} : [r EXCEPT !.content = c][f] = r[f]
    BY <2>1, <1>2 DEF Events
  <2>3. QED
    BY <2>1, <2>2, <1>4
<1>6. ASSUME NEW s \in Users, A!Reassign(r, s) PROVE rows' # written /\ Touched'
  <2>1. r.about # s /\ rows' = (rows \ {r}) \cup {[r EXCEPT !.about = s]}
    BY <1>6 DEF A!Reassign
  <2>2. /\ [r EXCEPT !.about = s] # r
        /\ \A f \in {"id", "at", "prev", "hash"} : [r EXCEPT !.about = s][f] = r[f]
    BY <2>1, <1>2 DEF Events
  <2>3. QED
    BY <2>1, <2>2, <1>4
<1>7. rows' # written /\ Touched'
  <2>1. CASE A!Delete(r)
    BY <2>1, <1>3, <1>2 DEF A!Delete
  <2>2. QED
    BY <1>1, <2>1, <1>5, <1>6
<1>8. QED
  BY <1>2, <1>7

LEMMA AuditNextTouched == AuditInv /\ [A!Next]_(A!auditVars) => Touched' /\ (rows' = written' => rows = written)
<1> SUFFICES ASSUME AuditInv, [A!Next]_(A!auditVars) PROVE Touched' /\ (rows' = written' => rows = written)
  OBVIOUS
<1>i. AuditTypes /\ FreshIds /\ Touched
  BY DEF AuditInv
<1>1. ASSUME UNCHANGED <<rows, written, recut>> PROVE Touched' /\ (rows' = written' => rows = written)
  BY <1>1, <1>i DEF Touched
<1>2. CASE A!Clock \/ UNCHANGED A!auditVars
  BY <1>1, <1>2 DEF A!Clock, A!auditVars
<1>3. CASE A!Tamper
  BY <1>3, TamperTouches
<1>4. ASSUME NEW h \in Requests, NEW c \in Invites, NEW s \in Users, A!Stamp(h, c, s)
      PROVE  Touched' /\ (rows' = written' => rows = written)
  BY <1>1, <1>4 DEF A!Stamp
<1>5. ASSUME NEW h \in Requests, A!Insert(h) PROVE Touched' /\ (rows' = written' => rows = written)
  <2>1. h \in A!Pending /\ rows' = rows \cup {ev[h]} /\ written' = written \cup {ev[h]} /\ UNCHANGED recut
    BY <1>5 DEF A!Insert
  <2>2. ev[h] \notin written /\ ev[h] \notin rows
    <3>1. \A q \in written : q.id # ev[h].id
      BY <2>1, <1>i DEF FreshIds
    <3>2. \A r \in rows : \E q \in written : q.id = r.id
      BY <1>i, RowsTypes
    <3>3. QED
      BY <3>1, <3>2
  <2>3. CASE rows = written
    BY <2>1, <2>3 DEF Touched
  <2>4. ASSUME NEW r \in written, NEW s \in rows, rows = (written \ {r}) \cup {s}, Marked(r, s)
        PROVE  Touched'
    <3>1. rows' = (written' \ {r}) \cup {s} /\ r \in written' /\ s \in rows'
      BY <2>1, <2>2, <2>4
    <3>2. \E x \in written', y \in rows' : rows' = (written' \ {x}) \cup {y} /\ Marked(x, y)
      BY <3>1, <2>4
    <3>3. QED
      BY <3>2 DEF Touched
  <2>5. ASSUME NEW r \in written, rows = written \ {r}, recut \/ \E q \in written : A!Before(r, q)
        PROVE  Touched'
    <3>1. rows' = written' \ {r} /\ r \in written' /\ written \subseteq written'
      BY <2>1, <2>2, <2>5
    <3>2. recut' \/ \E q \in written' : A!Before(r, q)
      BY <2>1, <2>5, <3>1
    <3>3. QED
      BY <3>1, <3>2 DEF Touched
  <2>6. rows' = written' => rows = written
    BY <2>1, <2>2
  <2>7. QED
    BY <2>3, <2>4, <2>5, <2>6, <1>i DEF Touched
<1>6. QED
  BY <1>2, <1>3, <1>4, <1>5 DEF A!Next

\* A link that continues a log makes a log.
LEMMA LinkAdded ==
  ASSUME NEW T \in SUBSET Events, OwnIds(T), A!verifyChain(T), NEW e \in Events, Links(e, T)
  PROVE  A!verifyChain(T \cup {e})
<1>1. \A r \in T : r.at \in Nat /\ e.at \in Nat /\ r.at < e.at
  BY OfficeAssumption DEF Events, Links
<1>2. A!Below(T \cup {e}, e) = T
  BY <1>1, OfficeAssumption DEF A!Below, A!Before, Events, A!Ids
<1>3. ASSUME NEW r \in T PROVE A!Below(T \cup {e}, r) = A!Below(T, r)
  BY <1>1 DEF A!Below, A!Before
<1>4. e.prev = A!LastHash(T) /\ e.hash = A!computeHash(A!LastHash(T), e.content, e.at)
  BY DEF Links
<1>5. ASSUME NEW r \in T
      PROVE  r.prev = A!LastHash(A!Below(T, r)) /\ r.hash = A!computeHash(A!LastHash(A!Below(T, r)), r.content, r.at)
  BY DEF A!verifyChain
<1>6. ASSUME NEW r \in T \cup {e}
      PROVE  /\ r.prev = A!LastHash(A!Below(T \cup {e}, r))
             /\ r.hash = A!computeHash(A!LastHash(A!Below(T \cup {e}, r)), r.content, r.at)
  <2>1. CASE r = e
    BY <2>1, <1>2, <1>4
  <2>2. CASE r \in T
    BY <2>2, <1>3, <1>5
  <2>3. QED
    BY <2>1, <2>2
<1>7. QED
  BY <1>6 DEF A!verifyChain

LEMMA AuditNextChain == AuditInv /\ [A!Next]_(A!auditVars) => Chain'
<1> SUFFICES ASSUME AuditInv, [A!Next]_(A!auditVars), chained', rows' = written'
             PROVE  /\ A!verifyChain(rows)'
                    /\ \A h \in A!Pending' : A!Pending' = {h} /\ Links(ev[h], rows)'
  BY DEF Chain
<1>i. AuditTypes /\ FreshIds /\ Chain /\ Touched
  BY DEF AuditInv
<1>w. rows = written
  BY AuditNextTouched
<1>o. rows \in SUBSET Events /\ OwnIds(rows)
  BY <1>i, <1>w DEF AuditTypes, FreshIds
<1>1. ASSUME UNCHANGED <<rows, written, auditPc, ev, chained>>
      PROVE  /\ A!verifyChain(rows)'
             /\ \A h \in A!Pending' : A!Pending' = {h} /\ Links(ev[h], rows)'
  <2>1. A!Pending' = A!Pending
    BY <1>1 DEF A!Pending
  <2>2. A!verifyChain(rows) /\ \A h \in A!Pending : A!Pending = {h} /\ Links(ev[h], rows)
    BY <1>1, <1>i, <1>w DEF Chain
  <2>3. QED
    BY <2>1, <2>2, <1>1
<1>2. CASE A!Clock \/ UNCHANGED A!auditVars
  BY <1>1, <1>2 DEF A!Clock, A!auditVars
<1>3. CASE A!Tamper
  BY <1>3, TamperTouches
<1>4. ASSUME NEW h \in Requests, A!Insert(h)
      PROVE  /\ A!verifyChain(rows)'
             /\ \A g \in A!Pending' : A!Pending' = {g} /\ Links(ev[g], rows)'
  <2>1. /\ h \in A!Pending /\ rows' = rows \cup {ev[h]} /\ UNCHANGED chained
        /\ auditPc' = [auditPc EXCEPT ![h] = "idle"]
    BY <1>4 DEF A!Insert
  <2>2. A!verifyChain(rows) /\ A!Pending = {h} /\ Links(ev[h], rows) /\ ev[h] \in Events
    BY <2>1, <1>i, <1>w DEF Chain, AuditTypes
  <2>3. PICK e \in Events : e = ev[h]
    BY <2>2
  <2>4. A!verifyChain(rows \cup {e})
    BY <2>2, <2>3, <1>o, LinkAdded
  <2>5. A!Pending' = {}
    BY <2>1, <2>2, <1>i DEF A!Pending, AuditTypes
  <2>6. PICK T : T = rows \cup {e}
    OBVIOUS
  <2>7. rows' = T /\ A!verifyChain(T)
    BY <2>1, <2>3, <2>4, <2>6
  <2>8. A!verifyChain(rows)'
    BY <2>7
  <2>9. QED
    BY <2>5, <2>8
<1>5. ASSUME NEW h \in Requests, NEW c \in Invites, NEW s \in Users, A!Stamp(h, c, s)
      PROVE  /\ A!verifyChain(rows)'
             /\ \A g \in A!Pending' : A!Pending' = {g} /\ Links(ev[g], rows)'
  <2>1. PICK id \in A!Ids : ev' = [ev EXCEPT ![h] = StampOf(h, id, c, s)]
    BY <1>5 DEF A!Stamp, StampOf
  <2>2. /\ auditPc' = [auditPc EXCEPT ![h] = "insert"] /\ UNCHANGED rows
        /\ chained /\ A!Pending = {} /\ \A r \in rows : r.at < now
    BY <1>5 DEF A!Stamp
  <2>3. A!Pending' = {h}
    BY <2>2, <1>i DEF A!Pending, AuditTypes
  <2>4. PICK e : e = StampOf(h, id, c, s)
    OBVIOUS
  <2>5. ev'[h] = e
    BY <2>1, <2>4, <1>i DEF AuditTypes
  <2>6. PICK T : T = rows
    OBVIOUS
  <2>7. Links(e, T) /\ A!verifyChain(T)
    BY <2>2, <2>4, <2>6, <1>i, <1>w DEF Links, StampOf, Chain
  <2>8. rows' = T
    BY <2>2, <2>6
  <2>9. A!verifyChain(rows)' /\ Links(ev[h], rows)'
    BY <2>5, <2>7, <2>8
  <2>10. QED
    BY <2>3, <2>9
<1>6. QED
  BY <1>2, <1>3, <1>4, <1>5 DEF A!Next

(* What a verified log says *)

\* A row was deleted from a log that verified, with rows after it: the next of
\* these hangs on its hash, which is not the hash the row itself hangs on.
LEMMA GapShows ==
  ASSUME NEW W \in SUBSET Events, OwnIds(W), NEW r \in W, NEW q \in W, A!Before(r, q),
         A!verifyChain(W)
  PROVE  ~A!verifyChain(W \ {r})
<1> DEFINE U == {x \in W : A!Before(r, x)}
<1>1. PICK j \in U : \A x \in U : ~A!Before(x, j)
  <2>1. U \in SUBSET Events /\ U # {}
    OBVIOUS
  <2>2. QED
    BY <2>1, FirstExists
<1>2. j \in W /\ A!Before(r, j)
  BY <1>1
<1>n. ASSUME NEW x \in W PROVE x.at \in Nat /\ x.id \in Nat
  BY EventNumbers
<1>3. A!Below(W, j) \in SUBSET Events /\ OwnIds(A!Below(W, j)) /\ r \in A!Below(W, j)
  BY <1>2 DEF A!Below, OwnIds
<1>4. ASSUME NEW x \in A!Below(W, j) PROVE ~A!Before(r, x)
  BY <1>1 DEF A!Below
<1>5. A!Newest(A!Below(W, j)) = r
  BY <1>3, <1>4, NewestIs
<1>6. j.prev = r.hash
  BY <1>2, <1>3, <1>5 DEF A!verifyChain, A!LastHash
<1>7. A!Below(W \ {r}, j) = A!Below(W, r)
  <2>1. ASSUME NEW x \in W, x # r, A!Before(x, j) PROVE A!Before(x, r)
    <3>1. ~A!Before(r, x)
      BY <2>1, <1>4 DEF A!Below
    <3>2. x.id # r.id
      BY <2>1 DEF OwnIds
    <3>3. QED
      BY <3>1, <3>2, <1>n DEF A!Before
  <2>2. ASSUME NEW x \in W, A!Before(x, r) PROVE x # r /\ A!Before(x, j)
    BY <2>2, <1>2, <1>n DEF A!Before
  <2>3. QED
    BY <2>1, <2>2 DEF A!Below
<1>8. j # r
  BY <1>2, <1>n DEF A!Before
<1>9. r.prev = A!LastHash(A!Below(W, r)) /\ r.hash = A!computeHash(r.prev, r.content, r.at)
  BY DEF A!verifyChain
<1>10. r.hash # r.prev
  <2>1. r.prev \in Seq(Marks) /\ r.content \in Invites /\ r.at \in Nat
    BY <1>n DEF Events
  <2>2. QED
    BY <2>1, <1>9, HashTells
<1>11. ASSUME A!verifyChain(W \ {r}) PROVE FALSE
  <2>1. j \in W \ {r}
    BY <1>2, <1>8
  <2>2. j.prev = A!LastHash(A!Below(W \ {r}, j))
    BY <2>1, <1>11 DEF A!verifyChain
  <2>3. QED
    BY <2>2, <1>7, <1>9, <1>6, <1>10
<1>12. QED
  BY <1>11

\* One row was changed and kept its hash: its content is what it was.
LEMMA EditShows ==
  ASSUME NEW W \in SUBSET Events, NEW T \in SUBSET Events, NEW r \in W, NEW s \in T,
         T = (W \ {r}) \cup {s}, Marked(r, s), A!verifyChain(W), A!verifyChain(T)
  PROVE  A!Hashed(T) = A!Hashed(W)
<1>1. s["id"] = r["id"] /\ s["at"] = r["at"] /\ s["hash"] = r["hash"]
  BY DEF Marked
<1>2. s.id = r.id /\ s.at = r.at /\ s.hash = r.hash
  BY <1>1
<1>3. /\ r.prev \in Seq(Marks) /\ r.content \in Invites /\ r.at \in Nat
      /\ s.prev \in Seq(Marks) /\ s.content \in Invites /\ s.at \in Nat
  BY OfficeAssumption DEF Events
<1>4. /\ r.hash = A!computeHash(r.prev, r.content, r.at)
      /\ s.hash = A!computeHash(s.prev, s.content, s.at)
  BY DEF A!verifyChain
<1>5. s.content = r.content
  <2>1. A!computeHash(r.prev, r.content, r.at) = A!computeHash(s.prev, s.content, s.at)
    BY <1>2, <1>4
  <2>2. ASSUME NEW p \in Seq(Marks), NEW q \in Seq(Marks), NEW c \in Invites, NEW d \in Invites,
               NEW t \in Nat, NEW u \in Nat
        PROVE  A!computeHash(p, c, t) = A!computeHash(q, d, u) => c = d
    BY HashTells
  <2>3. QED
    BY <2>1, <2>2, <1>3
<1>6. <<s.at, s.id, s.content>> = <<r.at, r.id, r.content>>
  BY <1>2, <1>5
<1>7. QED
  BY <1>6 DEF A!Hashed

LEMMA AuditTruth == AuditInv => A!ChainTellsTruth
<1> SUFFICES ASSUME AuditInv PROVE A!ChainTellsTruth
  OBVIOUS
<1>i. AuditTypes /\ FreshIds /\ Chain /\ Touched
  BY DEF AuditInv
<1>o. rows \in SUBSET Events /\ written \in SUBSET Events /\ OwnIds(written)
  BY <1>i DEF AuditTypes, FreshIds
<1>1. ASSUME A!verifyChain(rows), A!verifyChain(written), ~recut PROVE A!Hashed(rows) = A!Hashed(written)
  <2>1. CASE rows = written
    BY <2>1
  <2>2. ASSUME NEW r \in written, NEW s \in rows, rows = (written \ {r}) \cup {s}, Marked(r, s)
        PROVE  A!Hashed(rows) = A!Hashed(written)
    BY <2>2, <1>1, <1>o, EditShows
  <2>3. ASSUME NEW r \in written, rows = written \ {r}, \E q \in written : A!Before(r, q)
        PROVE  FALSE
    BY <2>3, <1>1, <1>o, GapShows
  <2>4. QED
    BY <2>1, <2>2, <2>3, <1>1, <1>i DEF Touched
<1>2. chained /\ rows = written => A!verifyChain(rows)
  BY <1>i DEF Chain
<1>3. QED
  BY <1>1, <1>2 DEF A!ChainTellsTruth

\* The log of a signature: verifyChain accuses no log that nobody touched and
\* that was recorded in turn, and a log it finds intact holds what was written,
\* unless its newest row is gone (esign-audit.service.ts, record, verifyChain).
THEOREM LogTellsTruth == Spec => []ChainTellsTruth
<1>1. Init => AuditInv
  BY AuditInit DEF Init
<1>2. AuditInv /\ [Next]_vars => AuditInv'
  BY AuditSteps, AuditNextTypes, AuditNextFresh, AuditNextTouched, AuditNextChain DEF AuditInv
<1>3. AuditInv => ChainTellsTruth
  BY AuditTruth DEF ChainTellsTruth
<1>4. QED
  BY <1>1, <1>2, <1>3, PTL DEF Spec

(* What the last hash of a log seals (printed under the signed document) *)

\* The log up to a row, and what its hashes cover, each event at its place.
UpTo(T, r) == A!Below(T, r) \cup {r}
Says(T)    == {<<r.hash, r.content, r.at>> : r \in T}

\* A row of a log that verifies hangs on the row below it, if there is one.
LEMMA HangsOn ==
  ASSUME NEW T \in SUBSET Events, OwnIds(T), A!verifyChain(T), NEW r \in T
  PROVE  /\ r.hash = A!computeHash(r.prev, r.content, r.at) /\ Len(r.hash) = Len(r.prev) + 1
         /\ \/ A!Below(T, r) = {} /\ r.prev = <<>>
            \/ \E n \in A!Below(T, r) : r.prev = n.hash /\ n.hash # <<>> /\ A!Below(T, r) = UpTo(T, n)
<1>1. r.prev = A!LastHash(A!Below(T, r)) /\ r.hash = A!computeHash(r.prev, r.content, r.at)
  BY DEF A!verifyChain
<1>2. ASSUME NEW x \in T
      PROVE  /\ x.prev \in Seq(Marks) /\ x.content \in Invites /\ x.at \in Nat /\ x.id \in Nat
             /\ Len(A!computeHash(x.prev, x.content, x.at)) = Len(x.prev) + 1
  <2>1. x.prev \in Seq(Marks) /\ x.content \in Invites /\ x.at \in Nat /\ x.id \in Nat
    BY OfficeAssumption DEF Events, A!Ids
  <2>2. <<x.content, x.at>> \in Marks
    BY <2>1 DEF Marks
  <2>3. QED
    BY <2>1, <2>2 DEF A!computeHash
<1>3. Len(r.hash) = Len(r.prev) + 1
  BY <1>1, <1>2
<1>4. CASE A!Below(T, r) = {}
  BY <1>1, <1>3, <1>4 DEF A!LastHash, A!NoHash
<1>5. CASE A!Below(T, r) # {}
  <2>1. A!Below(T, r) \in SUBSET Events /\ OwnIds(A!Below(T, r))
    BY DEF A!Below, OwnIds
  <2>2. PICK n \in A!Below(T, r) : \A q \in A!Below(T, r) : ~A!Before(n, q)
    BY <2>1, <1>5, LastExists
  <2>3. A!Newest(A!Below(T, r)) = n
    BY <2>1, <2>2, NewestIs
  <2>4. r.prev = n.hash
    BY <1>1, <1>5, <2>3 DEF A!LastHash
  <2>5. n \in T /\ A!Before(n, r)
    BY DEF A!Below
  <2>6. n.hash # <<>>
    <3>1. n.hash = A!computeHash(n.prev, n.content, n.at)
      BY <2>5 DEF A!verifyChain
    <3>2. Len(n.hash) = Len(n.prev) + 1 /\ Len(n.prev) \in Nat
      BY <3>1, <2>5, <1>2
    <3>3. QED
      BY <3>2
  <2>7. A!Below(T, r) = UpTo(T, n)
    <3>1. ASSUME NEW q \in T, A!Before(q, r), q # n PROVE A!Before(q, n)
      <4>1. ~A!Before(n, q) /\ q.id # n.id
        BY <3>1, <2>2, <2>5 DEF A!Below, OwnIds
      <4>2. QED
        BY <4>1, <1>2, <2>5 DEF A!Before
    <3>2. ASSUME NEW q \in T, A!Before(q, n) PROVE A!Before(q, r)
      BY <3>2, <2>5, <1>2 DEF A!Before
    <3>3. QED
      BY <3>1, <3>2, <2>5 DEF A!Below, UpTo
  <2>8. QED
    BY <1>1, <1>3, <2>4, <2>6, <2>7
<1>6. QED
  BY <1>4, <1>5

\* Equal hashes of two logs that verify cover the same event and hang on equal
\* hashes.
LEMMA SameLink ==
  ASSUME NEW W \in SUBSET Events, OwnIds(W), A!verifyChain(W), NEW w \in W,
         NEW T \in SUBSET Events, OwnIds(T), A!verifyChain(T), NEW q \in T, q.hash = w.hash
  PROVE  q.prev = w.prev /\ q.content = w.content /\ q.at = w.at
<1>1. /\ q.prev \in Seq(Marks) /\ q.content \in Invites /\ q.at \in Nat
      /\ w.prev \in Seq(Marks) /\ w.content \in Invites /\ w.at \in Nat
  BY OfficeAssumption DEF Events
<1>2. A!computeHash(q.prev, q.content, q.at) = A!computeHash(w.prev, w.content, w.at)
  BY DEF A!verifyChain
<1>3. ASSUME NEW p1 \in Seq(Marks), NEW p2 \in Seq(Marks), NEW c1 \in Invites, NEW c2 \in Invites,
             NEW t1 \in Nat, NEW t2 \in Nat
      PROVE  A!computeHash(p1, c1, t1) = A!computeHash(p2, c2, t2) => p1 = p2 /\ c1 = c2 /\ t1 = t2
  BY HashTells
<1>4. QED
  BY <1>1, <1>2, <1>3

\* Up to rows of equal hash, two logs that verify say the same: the shortest
\* hash of which this were not so would hang on a shorter one.
LEMMA SameLog ==
  ASSUME NEW W \in SUBSET Events, OwnIds(W), A!verifyChain(W),
         NEW T \in SUBSET Events, OwnIds(T), A!verifyChain(T)
  PROVE  \A w \in W, q \in T : q.hash = w.hash => Says(UpTo(T, q)) = Says(UpTo(W, w))
<1> DEFINE Bad(w, q) == q.hash = w.hash /\ Says(UpTo(T, q)) # Says(UpTo(W, w))
           Lengths == {n \in Nat : \E w \in W, q \in T : Bad(w, q) /\ Len(w.hash) = n}
<1>0. \A w \in W : Len(w.hash) \in Nat /\ Len(w.prev) \in Nat
  BY DEF Events
<1>1. SUFFICES ASSUME Lengths # {} PROVE FALSE
  BY <1>0
<1>2. PICK m \in Lengths : \A n \in Lengths : m <= n
  <2>1. Lengths \in SUBSET Nat
    OBVIOUS
  <2> HIDE DEF Lengths
  <2>2. QED
    BY <2>1, <1>1, LeastExists
<1>3. PICK w \in W, q \in T : Bad(w, q) /\ Len(w.hash) = m
  BY <1>2
<1>4. q.prev = w.prev /\ q.content = w.content /\ q.at = w.at
  BY <1>3, SameLink
<1>5. /\ Len(w.hash) = Len(w.prev) + 1
      /\ \/ A!Below(W, w) = {} /\ w.prev = <<>>
         \/ \E n \in A!Below(W, w) : w.prev = n.hash /\ n.hash # <<>> /\ A!Below(W, w) = UpTo(W, n)
  BY HangsOn
<1>6. \/ A!Below(T, q) = {} /\ q.prev = <<>>
      \/ \E n \in A!Below(T, q) : q.prev = n.hash /\ n.hash # <<>> /\ A!Below(T, q) = UpTo(T, n)
  BY HangsOn
<1>7. Says(A!Below(T, q)) = Says(A!Below(W, w))
  <2>1. CASE A!Below(W, w) = {} /\ w.prev = <<>>
    BY <2>1, <1>4, <1>6
  <2>2. ASSUME NEW a \in A!Below(W, w), w.prev = a.hash, a.hash # <<>>, A!Below(W, w) = UpTo(W, a)
        PROVE  Says(A!Below(T, q)) = Says(A!Below(W, w))
    <3>1. PICK b \in A!Below(T, q) : q.prev = b.hash /\ A!Below(T, q) = UpTo(T, b)
      BY <2>2, <1>4, <1>6
    <3>2. a \in W /\ b \in T /\ b.hash = a.hash
      BY <3>1, <2>2, <1>4 DEF A!Below
    <3>3. Len(a.hash) < m
      BY <2>2, <3>2, <1>3, <1>5, <1>0
    <3>4. ~Bad(a, b)
      <4>1. Len(a.hash) \in Nat /\ Len(a.hash) \notin Lengths
        BY <3>2, <3>3, <1>0, <1>2
      <4>2. QED
        BY <4>1, <3>2
    <3>5. Says(UpTo(T, b)) = Says(UpTo(W, a))
      BY <3>2, <3>4
    <3>6. QED
      BY <3>1, <2>2, <3>5
  <2>3. QED
    BY <2>1, <2>2, <1>5
<1>8. ASSUME NEW U, NEW V, NEW r, NEW s, Says(U) = Says(V),
             r.hash = s.hash, r.content = s.content, r.at = s.at
      PROVE  Says(U \cup {r}) = Says(V \cup {s})
  <2>1. Says(U \cup {r}) = Says(U) \cup {<<r.hash, r.content, r.at>>}
    BY DEF Says
  <2>2. Says(V \cup {s}) = Says(V) \cup {<<s.hash, s.content, s.at>>}
    BY DEF Says
  <2>3. QED
    BY <2>1, <2>2, <1>8
<1>9. Says(UpTo(T, q)) = Says(UpTo(W, w))
  BY <1>3, <1>4, <1>7, <1>8 DEF UpTo
<1>10. QED
  BY <1>3, <1>9

\* No two rows of a log that verifies have the same hash: the shortest one they
\* had would hang on another.
LEMMA OwnHashes ==
  ASSUME NEW T \in SUBSET Events, OwnIds(T), A!verifyChain(T)
  PROVE  \A r, q \in T : r.hash = q.hash => r = q
<1> DEFINE Bad(r, q) == r.hash = q.hash /\ A!Before(r, q)
           Lengths == {n \in Nat : \E r, q \in T : Bad(r, q) /\ Len(r.hash) = n}
<1>0. ASSUME NEW x \in T PROVE /\ Len(x.hash) \in Nat /\ Len(x.prev) \in Nat
                              /\ x.id \in Nat /\ x.at \in Nat
  <2>1. x.hash \in Seq(Marks) /\ x.prev \in Seq(Marks)
    BY DEF Events
  <2>2. QED
    BY <2>1, EventNumbers
<1>1. ASSUME NEW r \in T, NEW q \in T, Bad(r, q) PROVE FALSE
  <2>0. Lengths # {} /\ Lengths \in SUBSET Nat
    BY <1>1, <1>0
  <2>1. PICK m \in Lengths : \A n \in Lengths : m <= n
    <3> HIDE DEF Lengths
    <3>1. QED
      BY <2>0, LeastExists
  <2>2. PICK x \in T, y \in T : Bad(x, y) /\ Len(x.hash) = m
    BY <2>1
  <2>3. x.prev = y.prev
    BY <2>2, SameLink
  <2>4. /\ Len(x.hash) = Len(x.prev) + 1
        /\ \/ A!Below(T, x) = {} /\ x.prev = <<>>
           \/ \E n \in A!Below(T, x) : x.prev = n.hash /\ n.hash # <<>> /\ A!Below(T, x) = UpTo(T, n)
    BY HangsOn
  <2>5. \/ A!Below(T, y) = {} /\ y.prev = <<>>
        \/ \E n \in A!Below(T, y) : y.prev = n.hash /\ n.hash # <<>> /\ A!Below(T, y) = UpTo(T, n)
    BY HangsOn
  <2>6. x \in A!Below(T, y)
    BY <2>2 DEF A!Below
  <2>7. PICK b \in A!Below(T, y) : y.prev = b.hash /\ b.hash # <<>> /\ A!Below(T, y) = UpTo(T, b)
    BY <2>5, <2>6
  <2>8. PICK a \in A!Below(T, x) : x.prev = a.hash
    BY <2>4, <2>7, <2>3
  <2>9. a \in T /\ b \in T /\ A!Before(a, x) /\ a.hash = b.hash
    BY <2>3, <2>7, <2>8 DEF A!Below
  <2>10. x = b \/ A!Before(x, b)
    BY <2>6, <2>7 DEF UpTo, A!Below
  <2>11. A!Before(a, b)
    <3>1. /\ a.id \in Nat /\ a.at \in Nat /\ b.id \in Nat /\ b.at \in Nat
          /\ x.id \in Nat /\ x.at \in Nat
      BY <2>9, <1>0
    <3>2. QED
      BY <2>9, <2>10, <3>1 DEF A!Before
  <2>12. Len(a.hash) < m
    BY <2>2, <2>4, <2>8, <2>9, <1>0
  <2>13. QED
    BY <2>1, <2>9, <2>11, <2>12, <1>0
<1>2. ASSUME NEW r \in T, NEW q \in T, r.hash = q.hash, r # q PROVE FALSE
  <2>1. r.id # q.id
    BY <1>2 DEF OwnIds
  <2>2. A!Before(r, q) \/ A!Before(q, r)
    BY <2>1, <1>0 DEF A!Before
  <2>3. QED
    BY <2>2, <1>2, <1>1
<1>3. QED
  BY <1>2

\* A hash of the log that was written, kept elsewhere (complete prints the
\* newest on the last page of the signed document), seals all that was on record
\* then: whatever the table is turned into, if it verifies and has a row of that
\* hash, it has the same events up to there, each of them once.
HashSeals ==
    A!verifyChain(written) =>
        \A T \in SUBSET Events : OwnIds(T) /\ A!verifyChain(T) =>
            /\ \A w \in written, q \in T : q.hash = w.hash => Says(UpTo(T, q)) = Says(UpTo(written, w))
            /\ \A r, q \in T : r.hash = q.hash => r = q

\* What verifyChain is worth beside a hash nobody can change, for every way of
\* changing the table: more than ChainTellsTruth, in which one row changes
\* (esign-audit.service.ts, verifyChain; esign.service.ts, complete).
THEOREM PrintedHashSeals == Spec => []HashSeals
<1>1. Init => AuditInv
  BY AuditInit DEF Init
<1>2. AuditInv /\ [Next]_vars => AuditInv'
  BY AuditSteps, AuditNextTypes, AuditNextFresh, AuditNextTouched, AuditNextChain DEF AuditInv
<1>3. AuditInv => HashSeals
  <2> SUFFICES ASSUME AuditInv PROVE HashSeals
    OBVIOUS
  <2>1. written \in SUBSET Events /\ OwnIds(written)
    BY DEF AuditInv, AuditTypes, FreshIds
  <2>2. QED
    BY <2>1, SameLog, OwnHashes DEF HashSeals
<1>4. QED
  BY <1>1, <1>2, <1>3, PTL DEF Spec

=============================================================================
