--------------------------- MODULE EntitlementCache ---------------------------
(***************************************************************************)
(* What a user may do, cached in every replica of the API: their features  *)
(* (permissions.service.ts) or their firm (tenant.ts), dropped everywhere  *)
(* by a NOTIFY (cache-broadcaster.ts), and the state of their plan         *)
(* (plan-status.service.ts), dropped only where it was changed.            *)
(*                                                                         *)
(* What the database says is a version, raised by every change.            *)
(***************************************************************************)
EXTENDS Naturals, FiniteSets

CONSTANTS
    Replicas,
    Fills,      \* requests that find nothing in the cache and read the database
    NoReplica,
    TTL,        \* CACHE_TTL_MS, in steps of the clock
    MaxTime,    \* bound: the clock
    MaxVersion  \* bound: changes

VARIABLES
    kind,     \* which cache this is
    now,
    version, until, \* the current version; when each earlier one was replaced
    writers,  \* replicas that have changed it and not yet invalidated
    inbox,    \* invalidations on their way to each replica
    cache,    \* each replica's entry
    fill      \* each fill: where it is, when it began, what it has read

cacheVars == <<kind, now, version, until, writers, inbox, cache, fill>>

-----------------------------------------------------------------------------
Kinds == {"broadcast", "local"}
Versions == 0 .. MaxVersion

\* took: how long the fill was under way; excused: no invalidation will come for
\* it, or one came while it was being read.
NoEntry == [version |-> 0, expiresAt |-> 0, took |-> 0, excused |-> FALSE]
Entry == [version : Versions, expiresAt : 0 .. MaxTime + TTL, took : 0 .. MaxTime, excused : BOOLEAN]
NoFill == [at |-> NoReplica, start |-> 0, version |-> 0, read |-> FALSE, excused |-> FALSE]
Fill == [at : Replicas \cup {NoReplica}, start : 0 .. MaxTime, version : Versions,
         read : BOOLEAN, excused : BOOLEAN]

Init ==
    /\ kind \in Kinds
    /\ now = 0 /\ version = 0 /\ until = [v \in Versions |-> MaxTime]
    /\ writers = {}
    /\ inbox = [r \in Replicas |-> 0]
    /\ cache = [r \in Replicas |-> NoEntry]
    /\ fill = [f \in Fills |-> NoFill]

Live(r) == cache[r].expiresAt > now

-----------------------------------------------------------------------------
(* resolveFeatures, firmIdForUser, getPlanState *)

Miss(f, r) ==
    /\ fill[f] = NoFill /\ ~Live(r)
    /\ fill' = [fill EXCEPT ![f] = [NoFill EXCEPT !.at = r, !.start = now]]
    /\ UNCHANGED <<kind, now, version, until, writers, inbox, cache>>

\* Of resolveFeatures, the read the features come from.
Read(f) ==
    /\ fill[f].at # NoReplica /\ ~fill[f].read
    /\ fill' = [fill EXCEPT ![f].version = version, ![f].read = TRUE]
    /\ UNCHANGED <<kind, now, version, until, writers, inbox, cache>>

Expiry_FromEnd(f) == now + TTL  \* mutant: counted from the end of the fill

\* The plan's is counted from the end of the load, the others' from its start.
Expiry(f) == IF kind = "local" THEN now + TTL ELSE fill[f].start + TTL

Store(f) ==
    /\ fill[f].read
    /\ cache' = [cache EXCEPT ![fill[f].at] =
           [version |-> fill[f].version, expiresAt |-> Expiry(f),
            took |-> now - fill[f].start, excused |-> fill[f].excused]]
    /\ fill' = [fill EXCEPT ![f] = NoFill]
    /\ UNCHANGED <<kind, now, version, until, writers, inbox>>

\* The request dies, or the database does.
Abandon(f) ==
    /\ fill[f] # NoFill
    /\ fill' = [fill EXCEPT ![f] = NoFill]
    /\ UNCHANGED <<kind, now, version, until, writers, inbox, cache>>

-----------------------------------------------------------------------------
(* A change, and the calls of invalidate...Cache after it *)

Write(r) ==
    /\ r \notin writers /\ version < MaxVersion
    /\ writers' = writers \cup {r}
    /\ version' = version + 1
    /\ until' = [until EXCEPT ![version] = now]
    /\ UNCHANGED <<kind, now, inbox, cache, fill>>

\* What replicas R hold, or are about to store, stays: nobody will tell them
\* that it is old.
FillsExcused(R) ==
    [f \in Fills |->
        [fill[f] EXCEPT !.excused = @ \/ (fill[f].at \in R /\ fill[f].read
                                          /\ fill[f].version # version)]]
CacheExcused(R) ==
    [r \in Replicas |->
        [cache[r] EXCEPT !.excused = @ \/ (r \in R /\ Live(r) /\ cache[r].version # version)]]

Hears_NotAll(r) == {r}  \* mutant: the change is announced to nobody else

\* Who a NOTIFY is sent to, the sender too; there is none for the plan's cache.
Hears(r) == IF kind = "broadcast" THEN Replicas ELSE {}

\* The local entry is dropped and the NOTIFY sent; it fails, or does not reach
\* a replica whose LISTEN connection is down.
Invalidate(r, down) ==
    /\ r \in writers /\ (kind = "local" => down = {})
    /\ writers' = writers \ {r}
    /\ inbox' = [q \in Replicas |-> IF q \in Hears(r) \ down THEN inbox[q] + 1 ELSE inbox[q]]
    /\ LET deaf == IF kind = "local" THEN Replicas ELSE down IN
       /\ cache' = [CacheExcused(deaf) EXCEPT ![r] = NoEntry]
       /\ fill' = FillsExcused(deaf)
    /\ UNCHANGED <<kind, now, version, until>>

\* The replica dies with its cache and its requests before it invalidates.
Crash(r) ==
    /\ r \in writers
    /\ writers' = writers \ {r}
    /\ inbox' = [inbox EXCEPT ![r] = 0]
    /\ cache' = [CacheExcused(Replicas) EXCEPT ![r] = NoEntry]
    /\ fill' = [f \in Fills |-> IF fill[f].at = r THEN NoFill ELSE FillsExcused(Replicas)[f]]
    /\ UNCHANGED <<kind, now, version, until>>

\* An entry that is being read at the moment is not there to be dropped.
Deliver(r) ==
    /\ inbox[r] > 0
    /\ inbox' = [inbox EXCEPT ![r] = @ - 1]
    /\ cache' = [cache EXCEPT ![r] = NoEntry]
    /\ fill' = FillsExcused({r})
    /\ UNCHANGED <<kind, now, version, until, writers>>

\* An entry that has expired is as good as none.
Tick ==
    /\ now < MaxTime /\ now' = now + 1
    /\ cache' = [r \in Replicas |-> IF cache[r].expiresAt > now' THEN cache[r] ELSE NoEntry]
    /\ UNCHANGED <<kind, version, until, writers, inbox, fill>>

Next ==
    \/ Tick
    \/ \E r \in Replicas :
          \/ Write(r) \/ Crash(r) \/ Deliver(r)
          \/ \E down \in SUBSET Replicas : Invalidate(r, down)
          \/ \E f \in Fills : Miss(f, r)
    \/ \E f \in Fills : Read(f) \/ Store(f) \/ Abandon(f)

Spec == Init /\ [][Next]_cacheVars

-----------------------------------------------------------------------------
(* Properties *)

TypeOK ==
    /\ kind \in Kinds /\ now \in 0 .. MaxTime
    /\ version \in Versions /\ until \in [Versions -> 0 .. MaxTime]
    /\ writers \subseteq Replicas
    /\ inbox \in [Replicas -> 0 .. MaxVersion]
    /\ cache \in [Replicas -> Entry] /\ fill \in [Fills -> Fill]

\* "Each replica's TTL bounds the stale window", whatever is lost or crashes: what
\* is served was true at some moment of the last TTL.  Of the plan's cache the
\* time the load took comes on top.
StaleAtMostTTL ==
    \A r \in Replicas :
        LET e == cache[r]
            window == TTL + IF kind = "local" THEN e.took ELSE 0
        IN  Live(r) /\ e.version # version => now - until[e.version] < window

\* Within the TTL, an old entry is served only until the invalidation arrives,
\* unless that could not be sent or received, the plan's has none for this
\* replica, or it came while the entry was being read.
NewsIsOnItsWay ==
    \A r \in Replicas :
        Live(r) /\ cache[r].version # version
            => inbox[r] > 0 \/ writers # {} \/ cache[r].excused

=============================================================================
