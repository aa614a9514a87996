------------------------------ MODULE LiveCalls ------------------------------
(***************************************************************************)
(* The limiter of interactive eCourts calls in one API process (limited in *)
(* ecourts-case-store.service.ts): a count of calls under way, and a queue *)
(* of callers that sleep on a promise.  A caller that is woken goes on in  *)
(* a microtask of its own, so another may come in between its wake-up and  *)
(* its active += 1.  The pause of MIN_GAP_MS before a call is part of the  *)
(* call.                                                                   *)
(***************************************************************************)
EXTENDS Naturals, Sequences, FiniteSets

CONSTANTS
    Calls,          \* lookups that may want a place at the same time
    MAX_CONCURRENT

VARIABLES
    active, waiting,
    pc,      \* where each call stands
    barged   \* history: places taken by callers that overtook a woken one

callVars == <<active, waiting, pc, barged>>

TypeOK ==
    /\ active \in 0 .. Cardinality(Calls)
    /\ waiting \in Seq(Calls)
    /\ pc \in [Calls -> {"idle", "waiting", "woken", "running"}]
    /\ barged \in Nat

Init ==
    /\ active = 0 /\ waiting = <<>>
    /\ pc = [c \in Calls |-> "idle"]
    /\ barged = 0

Woken == {c \in Calls : pc[c] = "woken"}

-----------------------------------------------------------------------------
Full_OffByOne == active > MAX_CONCURRENT  \* mutant: > for >=
Full == active >= MAX_CONCURRENT

Enter(c) ==
    /\ pc[c] = "idle" /\ ~Full
    /\ active' = active + 1
    /\ pc' = [pc EXCEPT ![c] = "running"]
    /\ barged' = IF Woken = {} THEN barged ELSE barged + 1
    /\ UNCHANGED waiting

Queue(c) ==
    /\ pc[c] = "idle" /\ Full
    /\ waiting' = Append(waiting, c)
    /\ pc' = [pc EXCEPT ![c] = "waiting"]
    /\ UNCHANGED <<active, barged>>

\* The continuation of a caller whose promise was resolved: it looks at the
\* count no more.
Resume(c) ==
    /\ pc[c] = "woken"
    /\ active' = active + 1
    /\ pc' = [pc EXCEPT ![c] = "running"]
    /\ UNCHANGED <<waiting, barged>>

\* The finally block, whether the call returned or threw.
Finish(c) ==
    /\ pc[c] = "running"
    /\ active' = active - 1
    /\ IF waiting = <<>>
       THEN /\ pc' = [pc EXCEPT ![c] = "idle"]
            /\ barged' = IF barged = 0 THEN 0 ELSE barged - 1
            /\ UNCHANGED waiting
       ELSE /\ pc' = [pc EXCEPT ![c] = "idle", ![Head(waiting)] = "woken"]
            /\ waiting' = Tail(waiting)
            /\ UNCHANGED barged

Next == \E c \in Calls : Enter(c) \/ Queue(c) \/ Resume(c) \/ Finish(c)

Spec == Init /\ [][Next]_callVars

-----------------------------------------------------------------------------
\* Nobody sleeps while a place is free, and the limit is exceeded only by
\* callers that overtook one already woken, one place each: the places in use
\* are those taken and those promised to a woken caller (limited, whose check,
\* wake-up and count are three steps).
PlacesKept ==
    LET places == active + Cardinality(Woken) IN
    /\ waiting # <<>> => places >= MAX_CONCURRENT
    /\ places <= MAX_CONCURRENT + barged

=============================================================================
