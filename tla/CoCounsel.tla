------------------------------ MODULE CoCounsel ------------------------------
(***************************************************************************)
(* Handovers of one matter to advocates outside the firm                   *)
(* (co-counsel.service.ts): to one with an account, who is notified, or by *)
(* a link that is an invitation in the table Invitations models.           *)
(***************************************************************************)
EXTENDS Invitations

CONSTANT Handovers

VARIABLES
    request, \* handover_requests
    grants,  \* who has an active row in case_guest_grants
    about,   \* the handover each request is about
    takenBy, \* history: who was granted access by each handover
    crossed, \* history: handovers granted twice at once, or while being cancelled
    moved    \* history: accounts the operator moved into or out of the firm

coVars == <<request, grants, about, takenBy, crossed, moved>>
vars == <<seatVars, coVars>>

-----------------------------------------------------------------------------
Handover == [kind : {"none", "existing_external_user", "invitation"},
             to : Emails \cup {Nil}, inv : Invites \cup {Nil},
             status : {"pending", "accepted", "cancelled"}]
NoHandover == [kind |-> "none", to |-> Nil, inv |-> Nil, status |-> "pending"]

CoInit ==
    /\ Init
    /\ request = [k \in Handovers |-> NoHandover]
    /\ grants = {} /\ crossed = {} /\ moved = {}
    /\ about = [h \in Guests |-> Nil]
    /\ takenBy = [k \in Handovers |-> {}]

Begin(h, l, i, e, k) == Start(h, l, i, e) /\ about' = [about EXCEPT ![h] = k]
End(h) == Return(h) /\ about' = [about EXCEPT ![h] = Nil]

New(k) == request[k] = NoHandover /\ \A h \in Guests : about[h] # k

-----------------------------------------------------------------------------
(* requestHandover *)

HandoverToUser(k, e) ==
    /\ New(k) /\ e \in outside
    /\ request' = [request EXCEPT ![k] =
           [kind |-> "existing_external_user", to |-> e, inv |-> Nil, status |-> "pending"]]
    /\ UNCHANGED <<seatVars, grants, about, takenBy, crossed, moved>>

\* The invitation first, then the handover; e is Nil for an open link.  That
\* the address has no account is looked up in the same step.
HandoverByLink(h, k, i, e) ==
    /\ New(k) /\ NewId(i) /\ e \notin users \cup outside
    /\ inv' = [inv EXCEPT ![i] = Insert(e, "co_counsel_handover")]
    /\ Begin(h, "handover", i, e, k)
    /\ UNCHANGED <<seats, users, outside, active, extra, byHand, request, grants, takenBy, crossed, moved>>

InsertHandover(h) ==
    /\ pc[h] = "handover"
    /\ request' = [request EXCEPT ![about[h]] =
           [kind |-> "invitation", to |-> Nil, inv |-> loc[h].inv, status |-> "pending"]]
    /\ End(h)
    /\ UNCHANGED <<seats, users, outside, active, inv, extra, byHand, grants, takenBy, crossed, moved>>

-----------------------------------------------------------------------------
(* cancelHandover: the status is read, then the row updated by id. *)

MayCancel(k) == request[k].status = "pending"

BeginCancelHandover(h, k) ==
    /\ request[k] # NoHandover /\ MayCancel(k)
    /\ Begin(h, "cancel", Nil, Nil, k)
    /\ UNCHANGED <<seats, users, outside, active, inv, extra, byHand, request, grants, takenBy, crossed, moved>>

CancelHandover(h) ==
    /\ pc[h] = "cancel"
    /\ request' = [request EXCEPT ![about[h]].status = "cancelled"]
    /\ End(h)
    /\ UNCHANGED <<seats, users, outside, active, inv, extra, byHand, grants, takenBy, crossed, moved>>

-----------------------------------------------------------------------------
(* acceptExisting, acceptByToken *)

BeginAcceptExisting(h, k) ==
    /\ request[k].kind = "existing_external_user" /\ request[k].status = "pending"
    /\ Begin(h, "grant", Nil, request[k].to, k)
    /\ UNCHANGED <<seats, users, outside, active, inv, extra, byHand, request, grants, takenBy, crossed, moved>>

Opens_Again(i) == ~inv[i].overdue  \* mutant: a link that was used opens again

\* Only the invitation is looked at, not the handover.
Opens(i) == i \in Pending /\ ~inv[i].overdue

\* The link is mailed or shown when its handover is there.
BeginAcceptByToken(h, k, e) ==
    /\ request[k].kind = "invitation"
    /\ Opens(request[k].inv)
    /\ inv[request[k].inv].to \in {e, Nil}
    /\ Begin(h, "guest", request[k].inv, e, k)
    /\ UNCHANGED <<seats, users, outside, active, inv, extra, byHand, request, grants, takenBy, crossed, moved>>

HasAccount_OfGuests(e) == e \in outside  \* mutant: members of the firm are not looked for

HasAccount(e) == e \in users \cup outside

\* registerCoCounselGuest: an account and a firm of their own.
RegisterGuest(h) ==
    /\ pc[h] = "guest"
    /\ IF HasAccount(loc[h].to)
       THEN End(h) /\ UNCHANGED outside
       ELSE Goto(h, "grant") /\ outside' = outside \cup {loc[h].to} /\ UNCHANGED about
    /\ UNCHANGED <<seats, users, active, inv, extra, byHand, request, grants, takenBy, crossed, moved>>

\* One transaction: the grant, and what became of the invitation and the handover.
Grant(h) ==
    /\ pc[h] = "grant"
    /\ LET k == about[h] IN
       /\ grants' = grants \cup {loc[h].to}
       /\ takenBy' = [takenBy EXCEPT ![k] = @ \cup {loc[h].to}]
       /\ request' = [request EXCEPT ![k].status = "accepted"]
       /\ crossed' = IF \E g \in Guests \ {h} : about[g] = k THEN crossed \cup {k} ELSE crossed
    /\ inv' = IF loc[h].inv = Nil THEN inv ELSE [inv EXCEPT ![loc[h].inv].status = "accepted"]
    /\ End(h)
    /\ UNCHANGED <<seats, users, outside, active, extra, byHand, moved>>

-----------------------------------------------------------------------------
CoNext ==
    \/ /\ Next
       /\ about' = [h \in Guests |-> IF pc'[h] = "idle" THEN Nil ELSE about[h]]
       /\ moved' = moved \cup (outside \ outside') \cup (users \ users')
       /\ UNCHANGED <<request, grants, takenBy, crossed>>
    \/ \E k \in Handovers :
          \/ \E e \in Emails : HandoverToUser(k, e)
          \/ \E h \in Guests :
                \/ BeginCancelHandover(h, k) \/ BeginAcceptExisting(h, k)
                \/ \E e \in Emails : BeginAcceptByToken(h, k, e)
                \/ \E i \in Invites, e \in Emails \cup {Nil} : HandoverByLink(h, k, i, e)
    \/ \E h \in Guests :
          InsertHandover(h) \/ CancelHandover(h) \/ RegisterGuest(h) \/ Grant(h)

CoSpec == CoInit /\ [][CoNext]_vars

-----------------------------------------------------------------------------
(* Properties *)

TypeOK ==
    /\ seats \in 1 .. MaxSeats /\ active \subseteq users
    /\ users \subseteq Emails /\ outside \subseteq Emails /\ grants \subseteq Emails
    /\ inv \in [Invites -> Invite]
    /\ pc \in [Guests -> {"idle", "duplicate", "insert", "recheck", "register", "mark",
                          "handover", "cancel", "guest", "grant"}]
    /\ loc \in [Guests -> [inv : Invites \cup {Nil}, to : Emails \cup {Nil}]]
    /\ extra \in Nat /\ byHand \in 0 .. MaxByHand
    /\ request \in [Handovers -> Handover] /\ about \in [Guests -> Handovers \cup {Nil}]
    /\ takenBy \in [Handovers -> SUBSET Emails] /\ crossed \subseteq Handovers
    /\ moved \subseteq Emails

\* A handover is taken by one advocate, by whatever way, and the firm never
\* reads "cancelled" of one that gave somebody access: unless two acceptances,
\* or an acceptance and the cancellation, crossed (the link of acceptByToken is
\* checked before the account is made and marked after).
HandoverEndsOnce ==
    \A k \in Handovers \ crossed :
        Cardinality(takenBy[k]) <= IF request[k].status = "cancelled" THEN 0 ELSE 1

\* "must NOT gain membership in the referring firm": nobody with access as a
\* guest has an account in the firm, though both kinds of invitation may be
\* open for one address and accepted together.  The operator can make one of a
\* guest by moving the account, which leaves the grant as it is.
GuestsAreNotMembers == grants \cap users \subseteq moved

=============================================================================
