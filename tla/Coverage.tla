------------------------------- MODULE Coverage -------------------------------
(***************************************************************************)
(* One posting on the coverage board (coverage.service.ts): a lawyer asks  *)
(* for cover at a hearing, a colleague claims it and marks it complete,    *)
(* the requester or a firm admin cancels it.  claim writes under a         *)
(* condition; cancel and complete read first and update by id.             *)
(***************************************************************************)
EXTENDS Naturals, FiniteSets

CONSTANTS
    Lawyers,  \* users of the firm
    Admins,   \* those of them with the system role Firm Admin
    Requests, \* requests that can run at the same time
    Nobody

VARIABLES
    requestedBy, status, claimedBy,
    pc, who,  \* each request, and the user who makes it
    raced     \* history: a cancel or complete began while another was under way

coverVars == <<requestedBy, status, claimedBy, pc, who, raced>>

-----------------------------------------------------------------------------
\* create
Init ==
    /\ requestedBy \in Lawyers
    /\ status = "open" /\ claimedBy = Nobody
    /\ pc = [r \in Requests |-> "idle"] /\ who = [r \in Requests |-> Nobody]
    /\ raced = FALSE

Start(r, l, u) ==
    /\ pc[r] = "idle"
    /\ pc' = [pc EXCEPT ![r] = l] /\ who' = [who EXCEPT ![r] = u]
Return(r) == pc' = [pc EXCEPT ![r] = "idle"] /\ who' = [who EXCEPT ![r] = Nobody]

\* A request that will end the posting.
Ending == {r \in Requests : pc[r] \in {"cancel", "complete"}}

Ended == status \in {"completed", "cancelled"}

BeginClaim(r, u) ==
    /\ u # requestedBy
    /\ Start(r, "claim", u)
    /\ UNCHANGED <<requestedBy, status, claimedBy, raced>>

Claimable_Any == ~Ended  \* mutant: a claim may be overwritten

\* and status = 'open', in the update itself
Claimable == status = "open"

Claim(r) ==
    /\ pc[r] = "claim"
    /\ IF Claimable
       THEN status' = "claimed" /\ claimedBy' = who[r]
       ELSE UNCHANGED <<status, claimedBy>>
    /\ Return(r)
    /\ UNCHANGED <<requestedBy, raced>>

MayCancel(u) ==
    /\ ~Ended
    /\ u = requestedBy \/ u \in Admins

BeginCancel(r, u) ==
    /\ MayCancel(u)
    /\ Start(r, "cancel", u)
    /\ raced' = (raced \/ Ending # {})
    /\ UNCHANGED <<requestedBy, status, claimedBy>>

Cancel(r) ==
    /\ pc[r] = "cancel"
    /\ status' = "cancelled"
    /\ Return(r)
    /\ UNCHANGED <<requestedBy, claimedBy, raced>>

BeginComplete(r, u) ==
    /\ status = "claimed" /\ claimedBy = u
    /\ Start(r, "complete", u)
    /\ raced' = (raced \/ Ending # {})
    /\ UNCHANGED <<requestedBy, status, claimedBy>>

Complete(r) ==
    /\ pc[r] = "complete"
    /\ status' = "completed"
    /\ Return(r)
    /\ UNCHANGED <<requestedBy, claimedBy, raced>>

Next ==
    \E r \in Requests :
        \/ Claim(r) \/ Cancel(r) \/ Complete(r)
        \/ \E u \in Lawyers : BeginClaim(r, u) \/ BeginCancel(r, u) \/ BeginComplete(r, u)

Spec == Init /\ [][Next]_coverVars

-----------------------------------------------------------------------------
(* Properties *)

TypeOK ==
    /\ requestedBy \in Lawyers /\ claimedBy \in Lawyers \cup {Nobody}
    /\ status \in {"open", "claimed", "completed", "cancelled"}
    /\ pc \in [Requests -> {"idle", "claim", "cancel", "complete"}]
    /\ who \in [Requests -> Lawyers \cup {Nobody}]
    /\ raced \in BOOLEAN

\* "A losing racer gets ConflictError, not a silent overwrite of the winner's
\* claim", and "We don't allow cancellation after completion - that would rewrite
\* history": whoever claimed a posting stays its claimer, and a posting that ended
\* keeps its ending, unless two requests to end it overlapped.
PostingStands ==
    [][/\ claimedBy # Nobody => claimedBy' = claimedBy
       /\ Ended => status' = status \/ raced]_coverVars

=============================================================================
