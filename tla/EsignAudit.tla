----------------------------- MODULE EsignAudit -----------------------------
(***************************************************************************)
(* The hash-chained log of one signature request (esign-audit.service.ts): *)
(* events recorded by concurrent requests, stored rows changed afterwards, *)
(* and what verifyChain says of them.  The table is a set of rows, which   *)
(* the code reads in the order of their stamps.                            *)
(*                                                                         *)
(* A hash is free of collisions, so it is modelled as the sequence of all  *)
(* that went into it: the events on the chain up to and including its own. *)
(***************************************************************************)
EXTENDS Naturals, FiniteSets, Sequences

CONSTANTS
    Recorders, \* requests that record an event at the same time
    Contents,  \* event types and details, all that a hash covers besides time
    Signers,   \* who an event is about: a column no hash covers
    MaxEvents, \* bound: events recorded
    MaxTime    \* bound: milliseconds

VARIABLES
    now,      \* the clock of the process that looks at it
    rows,     \* esign_audit_events
    pc, ev,   \* each recorder, and the event it is about to insert
    written,  \* history: the rows as they were inserted
    chained,  \* history: no two records have overlapped, nor their stamps
    recut     \* history: the newest row was deleted

auditVars == <<now, rows, pc, ev, written, chained, recut>>

-----------------------------------------------------------------------------
NoHash == << >>

computeHash_Unchained(prev, content, at) == <<<<content, at>>>>  \* mutant: the previous hash is left out

computeHash(prev, content, at) == Append(prev, <<content, at>>)

\* id: gen_random_uuid(), so rows of one millisecond come in any order.
Ids == 1 .. MaxEvents
IsRow(r) == /\ r.id \in Ids /\ r.at \in 0 .. MaxTime
            /\ r.content \in Contents /\ r.about \in Signers
            /\ Len(r.prev) < MaxEvents /\ Len(r.hash) <= MaxEvents

\* order by occurred_at, id
Before(r, q) == r.at < q.at \/ (r.at = q.at /\ r.id < q.id)
Below(S, r) == {q \in S : Before(q, r)}
Newest(S) == CHOOSE r \in S : \A q \in S : ~Before(r, q)

LastHash(S) == IF S = {} THEN NoHash ELSE Newest(S).hash

\* verifyChain: recompute every hash in stored order, the hash before a row
\* being that of the newest row below it.
verifyChain(S) ==
    \A r \in S : /\ r.prev = LastHash(Below(S, r))
                 /\ r.hash = computeHash(LastHash(Below(S, r)), r.content, r.at)

-----------------------------------------------------------------------------
Pending == {h \in Recorders : pc[h] = "insert"}

Init ==
    /\ now = 0 /\ rows = {} /\ written = {}
    /\ pc = [h \in Recorders |-> "idle"] /\ ev = [h \in Recorders |-> NoHash]
    /\ chained = TRUE /\ recut = FALSE

\* Clocks of two processes may disagree, so time may also seem to step back.
Clock ==
    /\ now' \in 0 .. MaxTime /\ now' # now
    /\ UNCHANGED <<rows, pc, ev, written, chained, recut>>

\* record: read the newest hash and stamp the event ...
Stamp(h, content, about) ==
    /\ h \notin Pending
    /\ pc' = [pc EXCEPT ![h] = "insert"]
    /\ \E id \in Ids \ ({r.id : r \in written} \cup {ev[g].id : g \in Pending}) :
           ev' = [ev EXCEPT ![h] = [id |-> id, at |-> now, content |-> content, about |-> about,
                                    prev |-> LastHash(rows),
                                    hash |-> computeHash(LastHash(rows), content, now)]]
    /\ chained' = (chained /\ Pending = {} /\ (\A r \in rows : r.at < now))
    /\ UNCHANGED <<now, rows, written, recut>>

\* ... and insert it.
Insert(h) ==
    /\ h \in Pending
    /\ rows' = rows \cup {ev[h]}
    /\ written' = written \cup {ev[h]}
    /\ pc' = [pc EXCEPT ![h] = "idle"] /\ ev' = [ev EXCEPT ![h] = NoHash]
    /\ UNCHANGED <<now, chained, recut>>

-----------------------------------------------------------------------------
(* Somebody changes the table behind the code's back. *)

Settled == rows = written /\ Pending = {}

Rewrite(r, content) ==
    /\ Settled /\ r.content # content
    /\ rows' = (rows \ {r}) \cup {[r EXCEPT !.content = content]}
    /\ UNCHANGED <<now, pc, ev, written, chained, recut>>

Reassign(r, about) ==
    /\ Settled /\ r.about # about
    /\ rows' = (rows \ {r}) \cup {[r EXCEPT !.about = about]}
    /\ UNCHANGED <<now, pc, ev, written, chained, recut>>

Delete(r) ==
    /\ Settled
    /\ rows' = rows \ {r}
    /\ recut' = (r = Newest(rows))
    /\ UNCHANGED <<now, pc, ev, written, chained>>

Tamper ==
    \E r \in rows :
        \/ Delete(r)
        \/ \E c \in Contents : Rewrite(r, c)
        \/ \E s \in Signers : Reassign(r, s)

Next ==
    \/ Clock \/ Tamper
    \/ \E h \in Recorders : Insert(h) \/ \E c \in Contents, s \in Signers : Stamp(h, c, s)

Spec == Init /\ [][Next]_auditVars

-----------------------------------------------------------------------------
(* Properties *)

TypeOK ==
    /\ now \in 0 .. MaxTime
    /\ \A S \in {rows, written} : Cardinality(S) <= MaxEvents /\ \A r \in S : IsRow(r)
    /\ pc \in [Recorders -> {"idle", "insert"}]
    /\ \A h \in Recorders : ev[h] = NoHash \/ IsRow(ev[h])
    /\ {chained, recut} \subseteq BOOLEAN

\* All that a hash covers of the rows, each at the place its stamp and id give it.
Hashed(S) == {<<r.at, r.id, r.content>> : r \in S}

\* verifyChain never accuses a log that nobody touched, as long as events are
\* recorded one after the other and their stamps increase; and a log that
\* verifies is the one that was written, in every column a hash covers, whatever
\* row was changed or deleted in the meantime.  Two things go unseen: the newest
\* row deleted, and a row deleted of a log that concurrent records had forked,
\* so that it did not verify to begin with.
ChainTellsTruth ==
    /\ chained /\ rows = written => verifyChain(rows)
    /\ verifyChain(rows) /\ verifyChain(written) => recut \/ Hashed(rows) = Hashed(written)

=============================================================================
