---------------------------- MODULE Invitations -----------------------------
(***************************************************************************)
(* The seats of one firm and the invitations to them                       *)
(* (invitations.service.ts), with the firm admin's own changes to users    *)
(* (firm-admin.service.ts) and the operator's to the seats                 *)
(* (admin.service.ts) beside them.  A handler is one request to create or  *)
(* to accept an invitation and takes one step per statement.  The table of *)
(* invitations is shared with co-counsel handovers (CoCounsel).            *)
(***************************************************************************)
EXTENDS Naturals, FiniteSets

CONSTANTS
    Invites,  \* invitation ids
    Emails,   \* people, by the address that is unique among users
    Guests,   \* requests that can run at the same time
    Nil,      \* no invitation, no address
    MaxSeats, \* bound: seats of the firm
    MaxByHand \* bound: changes of users and seats by hand, and crashes

VARIABLES
    seats,   \* firms.seats
    users,   \* addresses with an account in the firm, besides the owner's
    outside, \* addresses with an account in another firm, or in none
    active,  \* those of them with status active
    inv,     \* invitations: to whom, status, past expires_at
    pc, loc, \* each handler, its invitation and address
    extra,   \* history: seats the checks were bypassed for
    byHand

seatVars == <<seats, users, outside, active, inv, pc, loc, extra, byHand>>

-----------------------------------------------------------------------------
InviteStatus == {"none", "pending", "accepted", "expired", "cancelled"}
Kinds == {"firm_member", "co_counsel_handover"}
Invite == [to : Emails \cup {Nil}, kind : Kinds, status : InviteStatus, overdue : BOOLEAN]
NoInvite == [to |-> Nil, kind |-> "firm_member", status |-> "none", overdue |-> FALSE]

Insert(e, kind) == [to |-> e, kind |-> kind, status |-> "pending", overdue |-> FALSE]

Pending == {i \in Invites : inv[i].status = "pending"}

Init ==
    /\ seats \in 1 .. MaxSeats
    /\ users = {} /\ active = {} /\ outside \in SUBSET Emails
    /\ inv = [i \in Invites |-> NoInvite]
    /\ pc = [h \in Guests |-> "idle"] /\ loc = [h \in Guests |-> [inv |-> Nil, to |-> Nil]]
    /\ extra = 0 /\ byHand = 0

Goto(h, l) == pc' = [pc EXCEPT ![h] = l] /\ UNCHANGED loc
Start(h, l, i, e) ==
    /\ pc[h] = "idle"
    /\ pc' = [pc EXCEPT ![h] = l]
    /\ loc' = [loc EXCEPT ![h] = [inv |-> i, to |-> e]]
Return(h) ==
    /\ pc' = [pc EXCEPT ![h] = "idle"]
    /\ loc' = [loc EXCEPT ![h] = [inv |-> Nil, to |-> Nil]]

SeatFree_IgnoresPending == 1 + Cardinality(active) < seats  \* mutant: only users are counted

\* assertSeatCapNotExceeded: the owner, the active users and every pending
\* invitation, those of handovers too.
SeatFree == 1 + Cardinality(active) + Cardinality(Pending) < seats

-----------------------------------------------------------------------------
(* create *)

NewId(i) == inv[i] = NoInvite /\ \A g \in Guests : loc[g].inv # i

BeginCreate(h, i, e) ==
    /\ NewId(i)
    /\ SeatFree
    /\ Start(h, "duplicate", i, e)
    /\ UNCHANGED <<seats, users, outside, active, inv, extra, byHand>>

CheckDuplicate(h) ==
    /\ pc[h] = "duplicate"
    /\ IF \E i \in Pending : inv[i].to = loc[h].to THEN Return(h) ELSE Goto(h, "insert")
    /\ UNCHANGED <<seats, users, outside, active, inv, extra, byHand>>

InsertInvite(h) ==
    /\ pc[h] = "insert"
    /\ inv' = [inv EXCEPT ![loc[h].inv] = Insert(loc[h].to, "firm_member")]
    /\ Return(h)
    /\ UNCHANGED <<seats, users, outside, active, extra, byHand>>

-----------------------------------------------------------------------------
(* cancel, resend, and the expiry that list and lookupByToken record *)

SetInvite(i, status, overdue) ==
    /\ i \in Pending
    /\ inv' = [inv EXCEPT ![i].status = status, ![i].overdue = overdue]
    /\ UNCHANGED <<seats, users, outside, active, pc, loc, extra, byHand>>

Cancel(i) == SetInvite(i, "cancelled", inv[i].overdue)
Resend(i) == SetInvite(i, "pending", FALSE)
GetsOld(i) == SetInvite(i, "pending", TRUE)
Sweep(i)  == inv[i].overdue /\ SetInvite(i, "expired", TRUE)

-----------------------------------------------------------------------------
(* accept *)

\* Whatever the kind of the invitation; an open link, to nobody, is refused.
BeginAccept(h, i) ==
    /\ i \in Pending /\ ~inv[i].overdue /\ inv[i].to # Nil
    /\ Start(h, "recheck", i, inv[i].to)
    /\ UNCHANGED <<seats, users, outside, active, inv, extra, byHand>>

\* The invitation that is being accepted is pending and counts as well.
RecheckSeats(h) ==
    /\ pc[h] = "recheck"
    /\ IF SeatFree THEN Goto(h, "register") ELSE Return(h)
    /\ UNCHANGED <<seats, users, outside, active, inv, extra, byHand>>

\* registerExternalUser; the unique index refuses an address in use.
Register(h) ==
    /\ pc[h] = "register"
    /\ IF loc[h].to \in users \cup outside
       THEN Return(h) /\ UNCHANGED <<users, active, extra>>
       ELSE /\ users' = users \cup {loc[h].to}
            /\ active' = active \cup {loc[h].to}
            /\ extra' = IF loc[h].inv \in Pending THEN extra ELSE extra + 1
            /\ Goto(h, "mark")
    /\ UNCHANGED <<seats, outside, inv, byHand>>

\* The invitation is updated by id, whatever has become of it.
MarkAccepted(h) ==
    /\ pc[h] = "mark"
    /\ inv' = [inv EXCEPT ![loc[h].inv].status = "accepted"]
    /\ Return(h)
    /\ UNCHANGED <<seats, users, outside, active, extra, byHand>>

-----------------------------------------------------------------------------
(* By hand: none of these looks at the seats. *)

ByHand == byHand < MaxByHand /\ byHand' = byHand + 1

CreateUser(e) ==
    /\ ByHand /\ e \notin users \cup outside
    /\ users' = users \cup {e} /\ active' = active \cup {e} /\ extra' = extra + 1
    /\ UNCHANGED <<seats, outside, inv, pc, loc>>

SetUserStatus(e) ==
    /\ ByHand /\ e \in users
    /\ \/ e \in active /\ active' = active \ {e} /\ UNCHANGED extra
       \/ e \notin active /\ active' = active \cup {e} /\ extra' = extra + 1
    /\ UNCHANGED <<seats, users, outside, inv, pc, loc>>

\* The operator's updateUser with a firm: an account, a co-counsel guest's too,
\* moves into the firm, as active or not, or out of it.
MoveUser(e) ==
    /\ ByHand
    /\ \/ /\ e \in outside
          /\ outside' = outside \ {e} /\ users' = users \cup {e}
          /\ \/ active' = active \cup {e} /\ extra' = extra + 1
             \/ UNCHANGED <<active, extra>>
       \/ /\ e \in users
          /\ outside' = outside \cup {e} /\ users' = users \ {e}
          /\ active' = active \ {e} /\ UNCHANGED extra
    /\ UNCHANGED <<seats, inv, pc, loc>>

UpdateSeats(n) ==
    /\ ByHand /\ n # seats
    /\ seats' = n
    /\ extra' = IF n < seats THEN extra + (seats - n) ELSE extra
    /\ UNCHANGED <<users, outside, active, inv, pc, loc>>

Crash(h) ==
    /\ ByHand /\ pc[h] # "idle"
    /\ Return(h)
    /\ UNCHANGED <<seats, users, outside, active, inv, extra>>

-----------------------------------------------------------------------------
Next ==
    \/ \E i \in Invites : Cancel(i) \/ Resend(i) \/ GetsOld(i) \/ Sweep(i)
    \/ \E e \in Emails : CreateUser(e) \/ SetUserStatus(e) \/ MoveUser(e)
    \/ \E n \in 1 .. MaxSeats : UpdateSeats(n)
    \/ \E h \in Guests :
          \/ \E i \in Invites : BeginAccept(h, i) \/ \E e \in Emails : BeginCreate(h, i, e)
          \/ CheckDuplicate(h) \/ InsertInvite(h)
          \/ RecheckSeats(h) \/ Register(h) \/ MarkAccepted(h) \/ Crash(h)

Spec == Init /\ [][Next]_seatVars

-----------------------------------------------------------------------------
(* Properties *)

\* However invitations are created and accepted at the same time, they bring no
\* firm over its seats.  What does is counted in extra: a user added, moved in
\* or reactivated by hand, seats taken away, and an invitation that was cancelled
\* or expired while it was being accepted.
SeatsKept == 1 + Cardinality(active) <= seats + extra

\* The comment in accept says when an invitation is refused for want of a seat:
\* "if seats were reduced or another invite was accepted in the meantime".  So
\* where nothing was done by hand, and no other invitation is in the way, the
\* invitation still has the seat that create found for it.
KeepsItsSeat ==
    [][\A h \in Guests :
          pc[h] = "recheck" /\ pc'[h] = "idle" /\ byHand' = 0 /\ extra = 0
              => 1 + Cardinality(active) + Cardinality(Pending \ {loc[h].inv}) >= seats]_seatVars

=============================================================================
