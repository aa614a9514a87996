---------------------------- MODULE HandoverProofs ----------------------------
(* The firm's seats, its invitations and the handovers of a matter, for any *)
(* number of seats, people, invitations and requests.  The definitions      *)
(* proved about are those of CoCounsel and Invitations, which MCOffice      *)
(* instantiates as H.                                                       *)
EXTENDS MCOffice, TLAPS, FiniteSetTheorems

LEMMA HandoverSteps == [Next]_vars => [H!CoNext]_(H!vars)
  BY DEF Next, vars, Handover, Cover, Audit, Hear, LookUp, Call, peopleVars, handoverVars,
     H!vars, H!seatVars, H!coVars

LEMMA HandoverCardinality == ASSUME NEW S_ PROVE H!Cardinality(S_) = Cardinality(S_)
  BY DEF H!Cardinality, Cardinality

-----------------------------------------------------------------------------
(* Types *)

Labels == {"idle", "duplicate", "insert", "recheck", "register", "mark",
           "handover", "cancel", "guest", "grant"}
Local == [inv : Invites \cup {Nobody}, to : Users \cup {Nobody}]

\* Every status written is one, whatever the invitation was.
LEMMA InviteUpdates ==
    ASSUME NEW f \in [Invites -> H!Invite], NEW i \in Invites,
           NEW s \in H!InviteStatus, NEW b \in BOOLEAN
    PROVE  /\ [f EXCEPT ![i].status = s] \in [Invites -> H!Invite]
           /\ [f EXCEPT ![i].status = s, ![i].overdue = b] \in [Invites -> H!Invite]
           /\ \A j \in Invites \ {i} :
                 /\ [f EXCEPT ![i].status = s][j] = f[j]
                 /\ [f EXCEPT ![i].status = s, ![i].overdue = b][j] = f[j]
           /\ [f EXCEPT ![i].status = s][i].status = s
           /\ [f EXCEPT ![i].status = s, ![i].overdue = b][i].status = s
           /\ [f EXCEPT ![i].status = s][i].to = f[i].to
           /\ [f EXCEPT ![i].status = s, ![i].overdue = b][i].to = f[i].to
  BY DEF H!Invite

LEMMA InviteSet ==
    ASSUME NEW f \in [Invites -> H!Invite], NEW i \in Invites, NEW s \in H!InviteStatus,
           NEW b \in BOOLEAN, NEW g, g = [f EXCEPT ![i].status = s, ![i].overdue = b]
    PROVE  g \in [Invites -> H!Invite]
<1>1. [f[i] EXCEPT !.status = s, !.overdue = b] \in H!Invite
  BY DEF H!Invite
<1>2. g = [f EXCEPT ![i] = [f[i] EXCEPT !.status = s, !.overdue = b]]
  OBVIOUS
<1>3. QED
  BY <1>1, <1>2

LEMMA RequestUpdates ==
    ASSUME NEW f \in [Handovers -> H!Handover], NEW k \in Handovers,
           NEW s \in {"pending", "accepted", "cancelled"}
    PROVE  /\ [f EXCEPT ![k].status = s] \in [Handovers -> H!Handover]
           /\ \A j \in Handovers \ {k} : [f EXCEPT ![k].status = s][j] = f[j]
           /\ LET r == [f EXCEPT ![k].status = s][k] IN
              r.status = s /\ r.kind = f[k].kind /\ r.inv = f[k].inv /\ r.to = f[k].to
  BY DEF H!Handover

LEMMA RequestSet ==
    ASSUME NEW f \in [Handovers -> H!Handover], NEW k \in Handovers,
           NEW s \in {"pending", "accepted", "cancelled"}, NEW g, g = [f EXCEPT ![k].status = s]
    PROVE  g \in [Handovers -> H!Handover]
<1>1. [f[k] EXCEPT !.status = s] \in H!Handover
  BY DEF H!Handover
<1>2. g = [f EXCEPT ![k] = [f[k] EXCEPT !.status = s]]
  OBVIOUS
<1>3. QED
  BY <1>1, <1>2

\* What a handler at work holds: an invitation, a person, a handover.
Member == {"duplicate", "insert", "recheck", "register", "mark"}
Counsel == {"handover", "cancel", "guest", "grant"}
Placed ==
    \A h \in Requests :
        /\ guestPc[h] \in Member => loc[h].inv \in Invites /\ loc[h].to \in Users
        /\ guestPc[h] = "handover" => loc[h].inv \in Invites
        /\ guestPc[h] \in {"guest", "grant"} => loc[h].to \in Users
        /\ IF guestPc[h] \in Counsel THEN about[h] \in Handovers ELSE about[h] = Nobody
Requested ==
    \A k \in Handovers :
        /\ request[k].kind = "existing_external_user" => request[k].to \in Users
        /\ request[k].kind = "invitation" => request[k].inv \in Invites

Types == H!TypeOK /\ Placed /\ Requested

\* What a handler takes up and what it puts down.
LEMMA Starts ==
    ASSUME H!TypeOK, NEW h \in Requests, NEW l \in Labels,
           NEW i \in Invites \cup {Nobody}, NEW e \in Users \cup {Nobody}, H!Start(h, l, i, e)
    PROVE  /\ guestPc[h] = "idle" /\ guestPc'[h] = l /\ loc'[h].inv = i /\ loc'[h].to = e
           /\ guestPc' \in [Requests -> Labels] /\ loc' \in [Requests -> Local]
           /\ \A g \in Requests \ {h} : guestPc'[g] = guestPc[g] /\ loc'[g] = loc[g]
  BY DEF H!TypeOK, H!Start, Labels, Local

LEMMA Returns ==
    ASSUME H!TypeOK, NEW h \in Requests, H!Return(h)
    PROVE  /\ guestPc'[h] = "idle"
           /\ guestPc' \in [Requests -> Labels] /\ loc' \in [Requests -> Local]
           /\ \A g \in Requests \ {h} : guestPc'[g] = guestPc[g] /\ loc'[g] = loc[g]
  BY DEF H!TypeOK, H!Return, Labels, Local

LEMMA GoesOn ==
    ASSUME H!TypeOK, NEW h \in Requests, NEW l \in Labels, H!Goto(h, l)
    PROVE  /\ guestPc'[h] = l /\ loc' = loc
           /\ guestPc' \in [Requests -> Labels] /\ loc' \in [Requests -> Local]
           /\ \A g \in Requests \ {h} : guestPc'[g] = guestPc[g]
  BY DEF H!TypeOK, H!Goto, Labels, Local

\* A step of the seats and the invitations, seen from the handovers.
SeatFrame ==
    /\ about' = [h \in Requests |-> IF guestPc'[h] = "idle" THEN Nobody ELSE about[h]]
    /\ moved' = moved \cup (outside \ outside') \cup (users \ users')
    /\ UNCHANGED <<request, grants, takenBy, crossed>>

\* Every such step: how a handler may move, and that it leaves the handovers.
SeatMove(h) ==
    \/ guestPc'[h] = guestPc[h] /\ loc'[h] = loc[h]
    \/ guestPc'[h] = "idle"
    \/ /\ guestPc[h] \notin Counsel /\ guestPc'[h] \in Member
       /\ loc'[h].inv \in Invites /\ loc'[h].to \in Users

LEMMA SeatMoves ==
    ASSUME Types, SeatFrame,
           (H!TypeOK)', \A h \in Requests : SeatMove(h)
    PROVE  Types'
<1>1. Placed'
  BY DEF Types, Placed, SeatFrame, SeatMove, H!TypeOK, Member, Counsel
<1>2. Requested'
  BY DEF Types, Requested, SeatFrame
<1>3. QED
  BY <1>1, <1>2 DEF Types

LEMMA SeatTypes == Types /\ H!Next /\ SeatFrame => Types'
<1> SUFFICES ASSUME Types, H!Next, SeatFrame PROVE Types'
  OBVIOUS
<1>t. H!TypeOK /\ Placed
  BY DEF Types
<1>c. /\ guestPc \in [Requests -> Labels] /\ loc \in [Requests -> Local]
      /\ inv \in [Invites -> H!Invite] /\ users \subseteq Users /\ active \subseteq users
      /\ MaxByHand \in Nat /\ MaxSeats \in Nat
  BY <1>t, OfficeAssumption DEF H!TypeOK, Labels, Local
<1>f. about' \in [Requests -> Handovers \cup {Nobody}] /\ moved' \subseteq Users
  BY <1>t DEF SeatFrame, H!TypeOK
<1> DEFINE Moved == /\ guestPc' \in [Requests -> Labels] /\ loc' \in [Requests -> Local]
                    /\ \A h \in Requests : SeatMove(h)
<1>m. ASSUME Moved, inv' \in [Invites -> H!Invite], UNCHANGED <<seats, users, outside, active, extra, byHand>>
      PROVE  Types'
  <2>1. (H!TypeOK)'
    BY <1>m, <1>t, <1>f DEF H!TypeOK, SeatFrame, Labels, Local
  <2>2. QED
    BY <1>m, <2>1, SeatMoves
<1>1. ASSUME NEW i \in Invites, H!Cancel(i) \/ H!Resend(i) \/ H!GetsOld(i) \/ H!Sweep(i) PROVE Types'
  <2>1. PICK s \in H!InviteStatus, b \in BOOLEAN : H!SetInvite(i, s, b)
    <3>1. inv[i].overdue \in BOOLEAN
      BY <1>c DEF H!Invite
    <3>2. QED
      BY <1>1, <3>1 DEF H!Cancel, H!Resend, H!GetsOld, H!Sweep, H!InviteStatus
  <2>2. inv' \in [Invites -> H!Invite]
    <3>1. inv' = [inv EXCEPT ![i].status = s, ![i].overdue = b]
      BY <2>1 DEF H!SetInvite
    <3>2. QED
      BY <1>c, <3>1, InviteSet
  <2>3. UNCHANGED <<seats, users, outside, active, guestPc, loc, extra, byHand>>
    BY <2>1 DEF H!SetInvite
  <2>4. Moved
    BY <1>c, <2>3 DEF SeatMove
  <2>5. QED
    BY <1>m, <2>2, <2>3, <2>4
<1>h. ASSUME UNCHANGED <<inv, guestPc, loc>>, active' \subseteq users',
             users' \subseteq Users, outside' \subseteq Users, seats' \in 1 .. MaxSeats, extra' \in Nat, H!ByHand
      PROVE  Types'
  <2>1. byHand' \in 0 .. MaxByHand
    BY <1>c, <1>h, <1>t DEF H!ByHand, H!TypeOK
  <2>2. (H!TypeOK)'
    BY <1>h, <1>t, <1>f, <2>1 DEF H!TypeOK, SeatFrame
  <2>3. \A h \in Requests : SeatMove(h)
    BY <1>h DEF SeatMove
  <2>4. QED
    BY <2>2, <2>3, SeatMoves
<1>2. ASSUME NEW e \in Users, H!CreateUser(e) PROVE Types'
  <2>1. extra' \in Nat /\ seats' \in 1 .. MaxSeats /\ outside' \subseteq Users /\ H!ByHand
    BY <1>2, <1>t DEF H!CreateUser, H!TypeOK
  <2>2. users' \subseteq Users /\ active' \subseteq users'
    BY <1>2, <1>c DEF H!CreateUser
  <2>3. UNCHANGED <<inv, guestPc, loc>>
    BY <1>2 DEF H!CreateUser
  <2>4. QED
    BY <1>h, <2>1, <2>2, <2>3
<1>3. ASSUME NEW e \in Users, H!SetUserStatus(e) PROVE Types'
  <2>1. extra' \in Nat /\ seats' \in 1 .. MaxSeats /\ outside' \subseteq Users /\ H!ByHand
    BY <1>3, <1>t DEF H!SetUserStatus, H!TypeOK
  <2>2. users' = users /\ active' \subseteq users
    BY <1>3, <1>c DEF H!SetUserStatus
  <2>3. UNCHANGED <<inv, guestPc, loc>>
    BY <1>3 DEF H!SetUserStatus
  <2>4. QED
    BY <1>c, <1>h, <2>1, <2>2, <2>3
<1>13. ASSUME NEW e \in Users, H!MoveUser(e) PROVE Types'
  <2>1. extra' \in Nat /\ seats' \in 1 .. MaxSeats /\ H!ByHand /\ UNCHANGED <<inv, guestPc, loc>>
    BY <1>13, <1>t DEF H!MoveUser, H!TypeOK
  <2>2. users' \subseteq Users /\ outside' \subseteq Users /\ active' \subseteq users'
    <3>1. outside \subseteq Users /\ users \subseteq Users /\ active \subseteq users
      BY <1>t DEF H!TypeOK
    <3>2. CASE outside' = outside \ {e} /\ users' = users \cup {e}
               /\ (active' = active \cup {e} \/ UNCHANGED active)
      BY <3>1, <3>2
    <3>3. CASE outside' = outside \cup {e} /\ users' = users \ {e} /\ active' = active \ {e}
      BY <3>1, <3>3
    <3>4. QED
      BY <1>13, <3>2, <3>3 DEF H!MoveUser
  <2>3. QED
    BY <1>h, <2>1, <2>2
<1>4. ASSUME NEW n \in 1 .. MaxSeats, H!UpdateSeats(n) PROVE Types'
  <2>1. seats \in Nat /\ extra \in Nat /\ n \in Nat /\ H!ByHand /\ seats' = n
        /\ extra' = IF n < seats THEN extra + (seats - n) ELSE extra
    BY <1>4, <1>c, <1>t DEF H!UpdateSeats, H!TypeOK
  <2>2. extra' \in Nat
    BY <2>1
  <2>3. UNCHANGED <<users, outside, active, inv, guestPc, loc>> /\ outside \subseteq Users
    BY <1>4, <1>t DEF H!UpdateSeats, H!TypeOK
  <2>4. QED
    BY <1>4, <1>c, <1>h, <2>1, <2>2, <2>3
<1>5. ASSUME NEW h \in Requests, NEW i \in Invites, H!BeginAccept(h, i) PROVE Types'
  <2>1. inv[i].to \in Users /\ "recheck" \in Labels
    BY <1>5, <1>c DEF H!BeginAccept, H!Invite, Labels
  <2>2. Moved
    BY <1>5, <1>t, <2>1, Starts DEF H!BeginAccept, SeatMove, Counsel, Member
  <2>3. QED
    BY <1>5, <1>c, <1>m, <2>2 DEF H!BeginAccept
<1>6. ASSUME NEW h \in Requests, NEW i \in Invites, NEW e \in Users, H!BeginCreate(h, i, e) PROVE Types'
  <2>1. "duplicate" \in Labels
    BY DEF Labels
  <2>2. Moved
    BY <1>6, <1>t, <2>1, Starts DEF H!BeginCreate, SeatMove, Counsel, Member
  <2>3. QED
    BY <1>6, <1>c, <1>m, <2>2 DEF H!BeginCreate
<1>r. ASSUME NEW h \in Requests, H!Return(h) PROVE Moved
  BY <1>r, <1>t, Returns DEF SeatMove
<1>g. ASSUME NEW h \in Requests, NEW l \in Member, H!Goto(h, l), guestPc[h] \in Member PROVE Moved
  <2>1. l \in Labels /\ guestPc[h] \notin Counsel
    BY <1>g DEF Labels, Member, Counsel
  <2>2. loc[h].inv \in Invites /\ loc[h].to \in Users
    BY <1>g, <1>t DEF Placed
  <2>3. QED
    BY <1>g, <1>t, <2>1, <2>2, GoesOn DEF SeatMove
<1>7. ASSUME NEW h \in Requests, H!CheckDuplicate(h) PROVE Types'
  <2>1. Moved
    BY <1>7, <1>r, <1>g DEF H!CheckDuplicate, Member
  <2>2. QED
    BY <1>7, <1>c, <1>m, <2>1 DEF H!CheckDuplicate
<1>8. ASSUME NEW h \in Requests, H!InsertInvite(h) PROVE Types'
  <2>1. loc[h].inv \in Invites /\ loc[h].to \in Users
    BY <1>8, <1>t DEF H!InsertInvite, Placed, Member
  <2>2. H!Insert(loc[h].to, "firm_member") \in H!Invite
    BY <2>1 DEF H!Insert, H!Invite, H!Kinds, H!InviteStatus
  <2>3. inv' \in [Invites -> H!Invite]
    BY <1>8, <1>c, <2>1, <2>2 DEF H!InsertInvite
  <2>4. QED
    BY <1>8, <1>m, <1>r, <2>3 DEF H!InsertInvite
<1>9. ASSUME NEW h \in Requests, H!RecheckSeats(h) PROVE Types'
  <2>1. Moved
    BY <1>9, <1>r, <1>g DEF H!RecheckSeats, Member
  <2>2. QED
    BY <1>9, <1>c, <1>m, <2>1 DEF H!RecheckSeats
<1>10. ASSUME NEW h \in Requests, H!Register(h) PROVE Types'
  <2>1. guestPc[h] \in Member /\ loc[h].to \in Users
    BY <1>10, <1>t DEF H!Register, Placed, Member
  <2>2. Moved
    BY <1>10, <1>r, <1>g, <2>1 DEF H!Register, Member
  <2>3. /\ users' \subseteq Users /\ active' \subseteq users' /\ extra' \in Nat
        /\ UNCHANGED <<seats, outside, inv, byHand>>
    BY <1>10, <1>c, <1>t, <2>1 DEF H!Register, H!TypeOK
  <2>4. (H!TypeOK)'
    BY <1>t, <1>f, <2>2, <2>3 DEF H!TypeOK, SeatFrame, Labels, Local
  <2>5. QED
    BY <2>2, <2>4, SeatMoves
<1>11. ASSUME NEW h \in Requests, H!MarkAccepted(h) PROVE Types'
  <2>1. loc[h].inv \in Invites /\ "accepted" \in H!InviteStatus
    BY <1>11, <1>t DEF H!MarkAccepted, Placed, Member, H!InviteStatus
  <2>2. inv' \in [Invites -> H!Invite]
    BY <1>11, <1>c, <2>1, InviteUpdates DEF H!MarkAccepted
  <2>3. QED
    BY <1>11, <1>m, <1>r, <2>2 DEF H!MarkAccepted
<1>12. ASSUME NEW h \in Requests, H!Crash(h) PROVE Types'
  <2>1. byHand' \in 0 .. MaxByHand
    BY <1>12, <1>c, <1>t DEF H!Crash, H!ByHand, H!TypeOK
  <2>2. Moved
    BY <1>12, <1>r DEF H!Crash
  <2>3. (H!TypeOK)'
    BY <1>12, <1>t, <1>f, <2>1, <2>2 DEF H!Crash, H!TypeOK, SeatFrame, Labels, Local
  <2>4. QED
    BY <2>2, <2>3, SeatMoves
<1>14. QED
  BY <1>1, <1>2, <1>3, <1>4, <1>5, <1>6, <1>7, <1>8, <1>9, <1>10, <1>11, <1>12, <1>13 DEF H!Next

\* A step of the handovers moves one handler.
LEMMA CounselMoves ==
    ASSUME Types, NEW h \in Requests,
           \A g \in Requests \ {h} : guestPc'[g] = guestPc[g] /\ loc'[g] = loc[g] /\ about'[g] = about[g],
           \/ guestPc'[h] = "idle" /\ about'[h] = Nobody
           \/ /\ guestPc'[h] \in Counsel /\ about'[h] \in Handovers
              /\ guestPc'[h] = "handover" => loc'[h].inv \in Invites
              /\ guestPc'[h] \in {"guest", "grant"} => loc'[h].to \in Users
    PROVE  Placed'
  BY DEF Types, Placed, Member, Counsel

LEMMA CounselTypes ==
    ASSUME Types, H!CoNext, ~(H!Next /\ SeatFrame)
    PROVE  Types'
<1>t. H!TypeOK /\ Placed /\ Requested
  BY DEF Types
<1>c. /\ inv \in [Invites -> H!Invite] /\ request \in [Handovers -> H!Handover]
      /\ about \in [Requests -> Handovers \cup {Nobody}]
  BY <1>t DEF H!TypeOK
<1>l. Counsel \subseteq Labels /\ "idle" \in Labels
  BY DEF Counsel, Labels
<1>b. ASSUME NEW h \in Requests, NEW l \in Counsel, NEW i \in Invites \cup {Nobody},
             NEW e \in Users \cup {Nobody}, NEW k \in Handovers, H!Begin(h, l, i, e, k)
      PROVE  /\ guestPc'[h] = l /\ loc'[h].inv = i /\ loc'[h].to = e /\ about'[h] = k
             /\ guestPc' \in [Requests -> Labels] /\ loc' \in [Requests -> Local]
             /\ about' \in [Requests -> Handovers \cup {Nobody}]
             /\ \A g \in Requests \ {h} :
                   guestPc'[g] = guestPc[g] /\ loc'[g] = loc[g] /\ about'[g] = about[g]
  <2>1. l \in Labels /\ H!Start(h, l, i, e) /\ about' = [about EXCEPT ![h] = k]
    BY <1>b, <1>l DEF H!Begin
  <2>2. /\ guestPc'[h] = l /\ loc'[h].inv = i /\ loc'[h].to = e
        /\ guestPc' \in [Requests -> Labels] /\ loc' \in [Requests -> Local]
        /\ \A g \in Requests \ {h} : guestPc'[g] = guestPc[g] /\ loc'[g] = loc[g]
    BY <1>t, <2>1, Starts
  <2>3. QED
    BY <1>c, <2>1, <2>2
<1>e. ASSUME NEW h \in Requests, H!End(h)
      PROVE  /\ guestPc'[h] = "idle" /\ about'[h] = Nobody
             /\ guestPc' \in [Requests -> Labels] /\ loc' \in [Requests -> Local]
             /\ about' \in [Requests -> Handovers \cup {Nobody}]
             /\ \A g \in Requests \ {h} :
                   guestPc'[g] = guestPc[g] /\ loc'[g] = loc[g] /\ about'[g] = about[g]
  BY <1>e, <1>c, <1>t, Returns DEF H!End
<1>1. ASSUME NEW k \in Handovers, NEW e \in Users, H!HandoverToUser(k, e) PROVE Types'
  <2>1. [kind |-> "existing_external_user", to |-> e, inv |-> Nobody, status |-> "pending"] \in H!Handover
    BY DEF H!Handover
  <2>2. (H!TypeOK)' /\ Requested'
    BY <1>1, <1>t, <2>1 DEF H!HandoverToUser, H!TypeOK, H!seatVars, Requested
  <2>3. Placed'
    BY <1>1, <1>t DEF H!HandoverToUser, H!seatVars, Placed
  <2>4. QED
    BY <2>2, <2>3 DEF Types
<1>o. ASSUME UNCHANGED <<seats, users, active, extra, byHand, takenBy, crossed, grants, moved>>,
             inv' \in [Invites -> H!Invite], request' \in [Handovers -> H!Handover],
             outside' \subseteq Users,
             guestPc' \in [Requests -> Labels], loc' \in [Requests -> Local],
             about' \in [Requests -> Handovers \cup {Nobody}]
      PROVE  (H!TypeOK)'
  BY <1>o, <1>t DEF H!TypeOK, Labels, Local
<1>s. outside \subseteq Users
  BY <1>t DEF H!TypeOK
<1>2. ASSUME NEW h \in Requests, NEW k \in Handovers, H!BeginCancelHandover(h, k) PROVE Types'
  <2>1. H!Begin(h, "cancel", Nobody, Nobody, k) /\ "cancel" \in Counsel
    BY <1>2 DEF H!BeginCancelHandover, Counsel
  <2>2. Placed'
    BY <1>b, <2>1, CounselMoves
  <2>3. (H!TypeOK)' /\ Requested'
    BY <1>2, <1>b, <1>c, <1>o, <1>s, <1>t, <2>1 DEF H!BeginCancelHandover, Requested
  <2>4. QED
    BY <2>2, <2>3 DEF Types
<1>3. ASSUME NEW h \in Requests, NEW k \in Handovers, H!BeginAcceptExisting(h, k) PROVE Types'
  <2>1. H!Begin(h, "grant", Nobody, request[k].to, k) /\ "grant" \in Counsel /\ request[k].to \in Users
    BY <1>3, <1>t DEF H!BeginAcceptExisting, Counsel, Requested
  <2>2. Placed'
    BY <1>b, <2>1, CounselMoves
  <2>3. (H!TypeOK)' /\ Requested'
    BY <1>3, <1>b, <1>c, <1>o, <1>s, <1>t, <2>1 DEF H!BeginAcceptExisting, Requested
  <2>4. QED
    BY <2>2, <2>3 DEF Types
<1>4. ASSUME NEW h \in Requests, NEW k \in Handovers, NEW e \in Users, H!BeginAcceptByToken(h, k, e)
      PROVE  Types'
  <2>1. H!Begin(h, "guest", request[k].inv, e, k) /\ "guest" \in Counsel /\ request[k].inv \in Invites
    BY <1>4, <1>t DEF H!BeginAcceptByToken, Counsel, Requested
  <2>2. Placed'
    BY <1>b, <2>1, CounselMoves
  <2>3. (H!TypeOK)' /\ Requested'
    BY <1>4, <1>b, <1>c, <1>o, <1>s, <1>t, <2>1 DEF H!BeginAcceptByToken, Requested
  <2>4. QED
    BY <2>2, <2>3 DEF Types
<1>5. ASSUME NEW h \in Requests, NEW k \in Handovers, NEW i \in Invites, NEW e \in Users \cup {Nobody},
             H!HandoverByLink(h, k, i, e)
      PROVE  Types'
  <2>1. H!Begin(h, "handover", i, e, k) /\ "handover" \in Counsel
    BY <1>5 DEF H!HandoverByLink, Counsel
  <2>2. Placed'
    BY <1>b, <2>1, CounselMoves
  <2>3. H!Insert(e, "co_counsel_handover") \in H!Invite
    BY DEF H!Insert, H!Invite, H!Kinds, H!InviteStatus
  <2>4. inv' \in [Invites -> H!Invite]
    BY <1>5, <1>c, <2>3 DEF H!HandoverByLink
  <2>5. (H!TypeOK)' /\ Requested'
    BY <1>5, <1>b, <1>c, <1>o, <1>s, <1>t, <2>1, <2>4 DEF H!HandoverByLink, Requested
  <2>6. QED
    BY <2>2, <2>5 DEF Types
<1>6. ASSUME NEW h \in Requests, H!InsertHandover(h) PROVE Types'
  <2>1. H!End(h) /\ about[h] \in Handovers /\ loc[h].inv \in Invites
    BY <1>6, <1>t DEF H!InsertHandover, Placed, Counsel
  <2>2. Placed'
    BY <1>e, <2>1, CounselMoves
  <2>3. [kind |-> "invitation", to |-> Nobody, inv |-> loc[h].inv, status |-> "pending"] \in H!Handover
    BY <2>1 DEF H!Handover
  <2>4. request' \in [Handovers -> H!Handover] /\ Requested'
    BY <1>6, <1>c, <1>t, <2>1, <2>3 DEF H!InsertHandover, Requested
  <2>5. (H!TypeOK)'
    BY <1>6, <1>e, <1>c, <1>o, <1>s, <2>1, <2>4 DEF H!InsertHandover
  <2>6. QED
    BY <2>2, <2>4, <2>5 DEF Types
<1>q. ASSUME NEW k \in Handovers, NEW s \in {"accepted", "cancelled"},
             request' = [request EXCEPT ![k].status = s]
      PROVE  request' \in [Handovers -> H!Handover] /\ Requested'
  <2>1. \A j \in Handovers : /\ request'[j].kind = request[j].kind
                             /\ request'[j].to = request[j].to /\ request'[j].inv = request[j].inv
    BY <1>q, <1>c, RequestUpdates
  <2>2. request' \in [Handovers -> H!Handover]
    BY <1>q, <1>c, RequestSet
  <2>3. Requested'
    BY <1>t, <2>1 DEF Requested
  <2>4. QED
    BY <2>2, <2>3
<1>7. ASSUME NEW h \in Requests, H!CancelHandover(h) PROVE Types'
  <2>1. H!End(h) /\ about[h] \in Handovers
    BY <1>7, <1>t DEF H!CancelHandover, Placed, Counsel
  <2>2. Placed'
    BY <1>e, <2>1, CounselMoves
  <2>3. request' \in [Handovers -> H!Handover] /\ Requested'
    BY <1>7, <1>q, <2>1 DEF H!CancelHandover
  <2>4. (H!TypeOK)'
    BY <1>7, <1>e, <1>c, <1>o, <1>s, <2>1, <2>3 DEF H!CancelHandover
  <2>5. QED
    BY <2>2, <2>3, <2>4 DEF Types
<1>8. ASSUME NEW h \in Requests, H!RegisterGuest(h) PROVE Types'
  <2>1. about[h] \in Handovers /\ loc[h].to \in Users
    BY <1>8, <1>t DEF H!RegisterGuest, Placed, Counsel
  <2>2. outside' \subseteq Users
    BY <1>8, <1>s, <2>1 DEF H!RegisterGuest
  <2>3. CASE H!End(h)
    <3>1. (H!TypeOK)'
      BY <1>8, <1>e, <1>c, <1>o, <2>2, <2>3 DEF H!RegisterGuest
    <3>2. Placed'
      BY <1>e, <2>3, CounselMoves
    <3>3. Requested'
      BY <1>8, <1>t DEF H!RegisterGuest, Requested
    <3>4. QED
      BY <3>1, <3>2, <3>3 DEF Types
  <2>4. CASE H!Goto(h, "grant") /\ UNCHANGED about
    <3>0. "grant" \in Labels
      BY DEF Labels
    <3>1. (H!TypeOK)'
      BY <1>8, <1>c, <1>o, <1>t, <2>2, <2>4, <3>0, GoesOn DEF H!RegisterGuest
    <3>2. guestPc'[h] \in Counsel /\ guestPc'[h] = "grant"
      BY <1>t, <2>4, <3>0, GoesOn DEF Counsel
    <3>3. Placed'
      BY <1>t, <2>1, <2>4, <3>0, <3>2, GoesOn, CounselMoves
    <3>4. Requested'
      BY <1>8, <1>t DEF H!RegisterGuest, Requested
    <3>5. QED
      BY <3>1, <3>3, <3>4 DEF Types
  <2>5. QED
    BY <1>8, <2>3, <2>4 DEF H!RegisterGuest
<1>9. ASSUME NEW h \in Requests, H!Grant(h) PROVE Types'
  <2>1. H!End(h) /\ about[h] \in Handovers /\ loc[h].to \in Users /\ loc[h].inv \in Invites \cup {Nobody}
    BY <1>9, <1>t DEF H!Grant, Placed, Counsel, H!TypeOK
  <2>2. Placed'
    BY <1>e, <2>1, CounselMoves
  <2>3. request' \in [Handovers -> H!Handover] /\ Requested'
    BY <1>9, <1>q, <2>1 DEF H!Grant
  <2>4. inv' \in [Invites -> H!Invite]
    <3>1. "accepted" \in H!InviteStatus
      BY DEF H!InviteStatus
    <3>2. CASE loc[h].inv = Nobody
      BY <1>9, <1>c, <3>2 DEF H!Grant
    <3>3. CASE loc[h].inv # Nobody
      BY <1>9, <1>c, <2>1, <3>1, <3>3, InviteUpdates DEF H!Grant
    <3>4. QED
      BY <3>2, <3>3
  <2>5. grants' \subseteq Users /\ takenBy' \in [Handovers -> SUBSET Users] /\ crossed' \subseteq Handovers
    BY <1>9, <1>t, <2>1 DEF H!Grant, H!TypeOK
  <2>6. (H!TypeOK)'
    BY <1>9, <1>e, <1>t, <2>1, <2>3, <2>4, <2>5 DEF H!Grant, H!TypeOK, Labels, Local
  <2>7. QED
    BY <2>2, <2>3, <2>6 DEF Types
<1>10. QED
  BY <1>1, <1>2, <1>3, <1>4, <1>5, <1>6, <1>7, <1>8, <1>9 DEF H!CoNext, SeatFrame

LEMMA TypesNext == Types /\ [H!CoNext]_(H!vars) => Types'
<1> SUFFICES ASSUME Types, [H!CoNext]_(H!vars) PROVE Types'
  OBVIOUS
<1>1. CASE H!Next /\ SeatFrame
  BY <1>1, SeatTypes
<1>2. CASE UNCHANGED H!vars
  BY <1>2 DEF H!vars, H!seatVars, H!coVars, Types, H!TypeOK, Placed, Requested
<1>3. QED
  BY <1>1, <1>2, CounselTypes

-----------------------------------------------------------------------------
(* The invariants *)

\* An invitation that is about to be inserted is nobody else's.
Reserved ==
    \A h \in Requests : guestPc[h] \in {"duplicate", "insert"} =>
        /\ inv[loc[h].inv] = H!NoInvite
        /\ \A g \in Requests \ {h} : loc[g].inv # loc[h].inv

\* What a handler that accepts knows of the address is still right.
Addressed ==
    \A h \in Requests : guestPc[h] \in {"recheck", "register"} =>
        loc[h].to = inv[loc[h].inv].to

\* The pending invitations whose acceptance has passed the check of the seats
\* and still adds a user: each has its seat.
Claims ==
    {i \in H!Pending :
        /\ inv[i].to \notin users \cup outside
        /\ \E h \in Requests : guestPc[h] = "register" /\ loc[h].inv = i}

Seated == 1 + Cardinality(active) + Cardinality(Claims) <= seats + extra

\* Whoever has access, or is about to get it, has an account in another firm,
\* or had one and was moved by the operator.
Others == outside \cup moved
Apart ==
    /\ users \cap outside = {}
    /\ grants \subseteq Others
    /\ \A h \in Requests : guestPc[h] = "grant" => loc[h].to \in Others
    /\ \A k \in Handovers : request[k].kind = "existing_external_user" => request[k].to \in Others

\* A handover exists once it has a kind, and is being made by one handler.
Made ==
    /\ \A h \in Requests : guestPc[h] = "handover" =>
          /\ request[about[h]] = H!NoHandover
          /\ \A g \in Requests \ {h} : about[g] # about[h]
    /\ \A h \in Requests : guestPc[h] \in {"cancel", "guest", "grant"} =>
          request[about[h]].kind # "none"
    /\ \A k \in Handovers : request[k].kind = "none" =>
          request[k] = H!NoHandover /\ takenBy[k] = {}

\* The link that is being followed is the handover's.
Linked ==
    \A h \in Requests :
        /\ guestPc[h] = "guest" => request[about[h]].kind = "invitation"
        /\ guestPc[h] \in {"guest", "grant"} =>
              loc[h].inv = IF request[about[h]].kind = "invitation"
                           THEN request[about[h]].inv ELSE Nobody

\* A handover that was taken is closed for good: its invitation is used, and
\* unless somebody crossed it nobody is at work on it.
TakenOnce ==
    \A k \in Handovers : takenBy[k] # {} =>
        /\ request[k].kind = "invitation" => inv[request[k].inv].status = "accepted"
        /\ k \notin crossed =>
              /\ request[k].status = "accepted"
              /\ \E e \in Users : takenBy[k] = {e}
              /\ \A h \in Requests : about[h] # k

-----------------------------------------------------------------------------
(* What any step does to an invitation and to a handler *)

Kept(i) ==
    /\ inv'[i].to = inv[i].to
    /\ inv'[i].status = "pending" => inv[i].status = "pending"
    /\ inv[i].status = "accepted" => inv'[i].status = "accepted"
    /\ \/ inv'[i] = inv[i] \/ inv[i].status = "pending"
       \/ \E g \in Requests : guestPc[g] \in {"mark", "grant"} /\ loc[g].inv = i
Inserted(i) ==
    /\ inv[i] = H!NoInvite
    /\ \A g \in Requests : loc'[g].inv = i => guestPc'[g] = "handover"

Stays(h) == guestPc'[h] = guestPc[h] /\ loc'[h] = loc[h] /\ about'[h] = about[h]
PutsDown(h) == guestPc'[h] = "idle" /\ loc'[h].inv = Nobody /\ about'[h] = Nobody
TakesUp(h) ==
    LET i == loc'[h].inv  k == about'[h] IN
    \/ guestPc'[h] = "duplicate" /\ H!NewId(i) /\ k = Nobody
    \/ guestPc'[h] = "handover" /\ H!NewId(i) /\ H!New(k)
    \/ /\ guestPc'[h] = "recheck" /\ inv[i].status = "pending" /\ loc'[h].to = inv[i].to /\ k = Nobody
    \/ /\ guestPc'[h] = "guest" /\ inv[i].status = "pending"
       /\ request[k].kind = "invitation" /\ request[k].inv = i
    \/ guestPc'[h] = "cancel" /\ i = Nobody /\ request[k] # H!NoHandover /\ request[k].status = "pending"
    \/ /\ guestPc'[h] = "grant" /\ i = Nobody /\ request[k].kind = "existing_external_user"
       /\ request[k].status = "pending" /\ loc'[h].to = request[k].to
Continues(h) ==
    /\ loc'[h] = loc[h] /\ about'[h] = about[h]
    /\ \/ guestPc[h] = "duplicate" /\ guestPc'[h] = "insert"
       \/ guestPc[h] = "recheck" /\ guestPc'[h] = "register" /\ H!RecheckSeats(h)
       \/ guestPc[h] = "register" /\ guestPc'[h] = "mark"
       \/ guestPc[h] = "guest" /\ guestPc'[h] = "grant" /\ loc[h].to \in outside'

OneMoves ==
    \/ \A h \in Requests : Stays(h)
    \/ \E h \in Requests :
          /\ PutsDown(h) \/ (guestPc[h] = "idle" /\ TakesUp(h)) \/ Continues(h)
          /\ \A g \in Requests \ {h} : Stays(g)
Moves == OneMoves /\ \A i \in Invites : Kept(i) \/ Inserted(i)

LEMMA KeptSame == (UNCHANGED inv) => \A i \in Invites : Kept(i)
  BY DEF Kept

\* One invitation gets another status, never that of a pending one, and only
\* when it is pending or a handler marks it as accepted.
LEMMA KeptUpdate ==
    ASSUME Types, NEW i \in Invites, NEW s \in H!InviteStatus, NEW b \in BOOLEAN,
           \/ inv' = [inv EXCEPT ![i].status = s]
           \/ inv' = [inv EXCEPT ![i].status = s, ![i].overdue = b],
           \/ inv[i].status = "pending"
           \/ s = "accepted" /\ \E g \in Requests : guestPc[g] \in {"mark", "grant"} /\ loc[g].inv = i
    PROVE  \A j \in Invites : Kept(j)
<1>1. inv \in [Invites -> H!Invite]
  BY DEF Types, H!TypeOK
<1>2. /\ inv'[i].to = inv[i].to /\ inv'[i].status = s
      /\ \A j \in Invites \ {i} : inv'[j] = inv[j]
  <2>1. CASE inv' = [inv EXCEPT ![i].status = s]
    BY <1>1, <2>1, InviteUpdates
  <2>2. CASE inv' = [inv EXCEPT ![i].status = s, ![i].overdue = b]
    BY <1>1, <2>2, InviteUpdates
  <2>3. QED
    BY <2>1, <2>2
<1>3. QED
  BY <1>2 DEF Kept

LEMMA SeatStepsMove == Types /\ Reserved /\ H!Next /\ SeatFrame => Moves
<1> SUFFICES ASSUME Types, Reserved, H!Next, SeatFrame PROVE Moves
  OBVIOUS
<1>t. H!TypeOK /\ Placed
  BY DEF Types
<1>c. inv \in [Invites -> H!Invite] /\ \A h \in Requests : guestPc[h] \in Labels
  BY <1>t DEF H!TypeOK, Labels
<1>f. \A h \in Requests : about'[h] = IF guestPc'[h] = "idle" THEN Nobody ELSE about[h]
  BY DEF SeatFrame
<1>a. \A h \in Requests : guestPc[h] \notin Counsel => about[h] = Nobody
  BY <1>t DEF Placed
<1>s. ASSUME NEW h \in Requests, guestPc'[h] = guestPc[h], loc'[h] = loc[h] PROVE Stays(h)
  <2>1. guestPc[h] = "idle" => about[h] = Nobody
    BY <1>a DEF Counsel
  <2>2. QED
    BY <1>s, <1>f, <2>1 DEF Stays
<1>u. ASSUME UNCHANGED <<guestPc, loc>> PROVE OneMoves
  BY <1>u, <1>s DEF OneMoves
<1>r. ASSUME NEW h \in Requests, H!Return(h)
      PROVE  /\ OneMoves
             /\ loc'[h].inv = Nobody /\ \A g \in Requests \ {h} : loc'[g] = loc[g]
  <2>1. loc'[h].inv = Nobody
    BY <1>r, <1>t DEF H!Return, H!TypeOK
  <2>2. PutsDown(h) /\ \A g \in Requests \ {h} : Stays(g)
    BY <1>r, <1>f, <1>s, <1>t, <2>1, Returns DEF PutsDown
  <2>3. QED
    BY <2>1, <2>2 DEF OneMoves, Stays
<1>g. ASSUME NEW h \in Requests, NEW l \in Labels, H!Goto(h, l),
             <<guestPc[h], l>> \in {<<"duplicate", "insert">>, <<"recheck", "register">>, <<"register", "mark">>},
             guestPc[h] = "recheck" => H!RecheckSeats(h)
      PROVE  OneMoves
  <2>1. guestPc'[h] = l /\ loc' = loc /\ \A g \in Requests \ {h} : Stays(g)
    BY <1>g, <1>s, <1>t, GoesOn
  <2>2. about'[h] = about[h]
    BY <1>f, <1>g, <2>1
  <2>3. Continues(h)
    BY <1>g, <2>1, <2>2 DEF Continues
  <2>4. QED
    BY <2>1, <2>3 DEF OneMoves
<1>b. ASSUME NEW h \in Requests, NEW l \in {"duplicate", "recheck"}, NEW i \in Invites, NEW e \in Users,
             H!Start(h, l, i, e)
      PROVE  /\ guestPc[h] = "idle" /\ guestPc'[h] = l /\ loc'[h].inv = i /\ loc'[h].to = e
             /\ about'[h] = Nobody /\ \A g \in Requests \ {h} : Stays(g)
  <2>1. l \in Labels
    BY DEF Labels
  <2>2. guestPc[h] = "idle" /\ guestPc'[h] = l /\ loc'[h].inv = i /\ loc'[h].to = e
    BY <1>b, <1>t, <2>1, Starts
  <2>3. \A g \in Requests \ {h} : Stays(g)
    BY <1>b, <1>s, <1>t, <2>1, Starts
  <2>4. about'[h] = Nobody
    BY <1>a, <1>f, <2>2 DEF Counsel
  <2>5. QED
    BY <2>2, <2>3, <2>4
<1>l. {"insert", "register", "mark"} \subseteq Labels
  BY DEF Labels
<1>1. ASSUME NEW i \in Invites, H!Cancel(i) \/ H!Resend(i) \/ H!GetsOld(i) \/ H!Sweep(i) PROVE Moves
  <2>1. PICK s \in H!InviteStatus, b \in BOOLEAN : H!SetInvite(i, s, b)
    <3>1. inv[i].overdue \in BOOLEAN
      BY <1>c DEF H!Invite
    <3>2. QED
      BY <1>1, <3>1 DEF H!Cancel, H!Resend, H!GetsOld, H!Sweep, H!InviteStatus
  <2>2. \A j \in Invites : Kept(j)
    BY <2>1, KeptUpdate DEF H!SetInvite, H!Pending
  <2>3. QED
    BY <1>u, <2>1, <2>2 DEF H!SetInvite, Moves
<1>2. ASSUME UNCHANGED <<inv, guestPc, loc>> PROVE Moves
  BY <1>2, <1>u, KeptSame DEF Moves
<1>5. ASSUME NEW h \in Requests, NEW i \in Invites, H!BeginAccept(h, i) PROVE Moves
  <2>1. inv[i].to \in Users /\ inv[i].status = "pending" /\ H!Start(h, "recheck", i, inv[i].to)
    BY <1>5, <1>c DEF H!BeginAccept, H!Invite, H!Pending
  <2>2. /\ guestPc[h] = "idle" /\ guestPc'[h] = "recheck" /\ loc'[h].inv = i /\ loc'[h].to = inv[i].to
        /\ about'[h] = Nobody /\ \A g \in Requests \ {h} : Stays(g)
    BY <1>b, <2>1
  <2>3. TakesUp(h)
    BY <2>1, <2>2 DEF TakesUp
  <2>4. QED
    BY <1>5, <2>2, <2>3, KeptSame DEF H!BeginAccept, Moves, OneMoves
<1>6. ASSUME NEW h \in Requests, NEW i \in Invites, NEW e \in Users, H!BeginCreate(h, i, e) PROVE Moves
  <2>1. /\ guestPc[h] = "idle" /\ guestPc'[h] = "duplicate" /\ loc'[h].inv = i
        /\ about'[h] = Nobody /\ \A g \in Requests \ {h} : Stays(g)
    BY <1>6, <1>b DEF H!BeginCreate
  <2>2. TakesUp(h)
    BY <1>6, <2>1 DEF TakesUp, H!BeginCreate
  <2>3. QED
    BY <1>6, <2>1, <2>2, KeptSame DEF H!BeginCreate, Moves, OneMoves
<1>7. ASSUME NEW h \in Requests, H!CheckDuplicate(h) PROVE Moves
  BY <1>7, <1>g, <1>l, <1>r, KeptSame DEF H!CheckDuplicate, Moves
<1>8. ASSUME NEW h \in Requests, H!InsertInvite(h) PROVE Moves
  <2>1. /\ loc[h].inv \in Invites /\ inv[loc[h].inv] = H!NoInvite
        /\ \A g \in Requests \ {h} : loc[g].inv # loc[h].inv
    BY <1>8, <1>t DEF H!InsertInvite, Placed, Member, Reserved
  <2>2. OneMoves /\ loc'[h].inv = Nobody /\ \A g \in Requests \ {h} : loc'[g] = loc[g]
    BY <1>8, <1>r DEF H!InsertInvite
  <2>3. Nobody \notin Invites
    BY OfficeAssumption
  <2>4. Inserted(loc[h].inv)
    BY <2>1, <2>2, <2>3 DEF Inserted
  <2>5. \A j \in Invites \ {loc[h].inv} : inv'[j] = inv[j]
    BY <1>8, <1>c DEF H!InsertInvite
  <2>6. QED
    BY <2>2, <2>4, <2>5 DEF Moves, Kept
<1>9. ASSUME NEW h \in Requests, H!RecheckSeats(h) PROVE Moves
  <2>1. guestPc[h] = "recheck" /\ UNCHANGED inv /\ (H!Goto(h, "register") \/ H!Return(h))
    BY <1>9 DEF H!RecheckSeats
  <2>2. OneMoves
    BY <1>9, <1>g, <1>l, <1>r, <2>1
  <2>3. QED
    BY <2>1, <2>2, KeptSame DEF Moves
<1>10. ASSUME NEW h \in Requests, H!Register(h) PROVE Moves
  BY <1>10, <1>g, <1>l, <1>r, KeptSame DEF H!Register, Moves
<1>11. ASSUME NEW h \in Requests, H!MarkAccepted(h) PROVE Moves
  <2>1. loc[h].inv \in Invites /\ "accepted" \in H!InviteStatus
    BY <1>11, <1>t DEF H!MarkAccepted, Placed, Member, H!InviteStatus
  <2>2. \A j \in Invites : Kept(j)
    BY <1>11, <2>1, KeptUpdate DEF H!MarkAccepted
  <2>3. QED
    BY <1>11, <1>r, <2>2 DEF H!MarkAccepted, Moves
<1>12. ASSUME NEW h \in Requests, H!Crash(h) PROVE Moves
  BY <1>12, <1>r, KeptSame DEF H!Crash, Moves
<1>13. QED
  BY <1>1, <1>2, <1>5, <1>6, <1>7, <1>8, <1>9, <1>10, <1>11, <1>12
     DEF H!Next, H!CreateUser, H!SetUserStatus, H!MoveUser, H!UpdateSeats

LEMMA CounselStepsMove ==
    ASSUME Types, H!CoNext, ~(H!Next /\ SeatFrame)
    PROVE  Moves
<1>t. H!TypeOK /\ Placed /\ Requested
  BY DEF Types
<1>c. /\ inv \in [Invites -> H!Invite] /\ about \in [Requests -> Handovers \cup {Nobody}]
      /\ loc \in [Requests -> Local]
  BY <1>t DEF H!TypeOK, Local
<1>l. Counsel \subseteq Labels /\ "idle" \in Labels
  BY DEF Counsel, Labels
<1>b. ASSUME NEW h \in Requests, NEW l \in Counsel, NEW i \in Invites \cup {Nobody},
             NEW e \in Users \cup {Nobody}, NEW k \in Handovers, H!Begin(h, l, i, e, k)
      PROVE  /\ guestPc[h] = "idle" /\ guestPc'[h] = l /\ loc'[h].inv = i /\ loc'[h].to = e
             /\ about'[h] = k /\ \A g \in Requests \ {h} : Stays(g)
  <2>1. l \in Labels /\ H!Start(h, l, i, e) /\ about' = [about EXCEPT ![h] = k]
    BY <1>b, <1>l DEF H!Begin
  <2>2. /\ guestPc[h] = "idle" /\ guestPc'[h] = l /\ loc'[h].inv = i /\ loc'[h].to = e
        /\ \A g \in Requests \ {h} : guestPc'[g] = guestPc[g] /\ loc'[g] = loc[g]
    BY <1>t, <2>1, Starts
  <2>3. QED
    BY <1>c, <2>1, <2>2 DEF Stays
<1>e. ASSUME NEW h \in Requests, H!End(h) PROVE OneMoves
  <2>1. loc'[h].inv = Nobody
    BY <1>c, <1>e DEF H!End, H!Return
  <2>2. PutsDown(h) /\ \A g \in Requests \ {h} : Stays(g)
    BY <1>c, <1>e, <1>t, <2>1, Returns DEF H!End, PutsDown, Stays
  <2>3. QED
    BY <2>2 DEF OneMoves
<1>1. ASSUME NEW k \in Handovers, NEW e \in Users, H!HandoverToUser(k, e) PROVE Moves
  BY <1>1, KeptSame DEF H!HandoverToUser, H!seatVars, Moves, OneMoves, Stays
<1>2. ASSUME NEW h \in Requests, NEW k \in Handovers, H!BeginCancelHandover(h, k) PROVE Moves
  <2>1. H!Begin(h, "cancel", Nobody, Nobody, k) /\ "cancel" \in Counsel
    BY <1>2 DEF H!BeginCancelHandover, Counsel
  <2>2. TakesUp(h) /\ guestPc[h] = "idle" /\ \A g \in Requests \ {h} : Stays(g)
    BY <1>2, <1>b, <2>1 DEF H!BeginCancelHandover, H!MayCancel, TakesUp
  <2>3. QED
    BY <1>2, <2>2, KeptSame DEF H!BeginCancelHandover, Moves, OneMoves
<1>3. ASSUME NEW h \in Requests, NEW k \in Handovers, H!BeginAcceptExisting(h, k) PROVE Moves
  <2>1. H!Begin(h, "grant", Nobody, request[k].to, k) /\ "grant" \in Counsel /\ request[k].to \in Users
    BY <1>3, <1>t DEF H!BeginAcceptExisting, Counsel, Requested
  <2>2. TakesUp(h) /\ guestPc[h] = "idle" /\ \A g \in Requests \ {h} : Stays(g)
    BY <1>3, <1>b, <2>1 DEF H!BeginAcceptExisting, TakesUp
  <2>3. QED
    BY <1>3, <2>2, KeptSame DEF H!BeginAcceptExisting, Moves, OneMoves
<1>4. ASSUME NEW h \in Requests, NEW k \in Handovers, NEW e \in Users, H!BeginAcceptByToken(h, k, e)
      PROVE  Moves
  <2>1. H!Begin(h, "guest", request[k].inv, e, k) /\ "guest" \in Counsel /\ request[k].inv \in Invites
    BY <1>4, <1>t DEF H!BeginAcceptByToken, Counsel, Requested
  <2>2. TakesUp(h) /\ guestPc[h] = "idle" /\ \A g \in Requests \ {h} : Stays(g)
    BY <1>4, <1>b, <2>1 DEF H!BeginAcceptByToken, H!Opens, H!Pending, TakesUp
  <2>3. QED
    BY <1>4, <2>2, KeptSame DEF H!BeginAcceptByToken, Moves, OneMoves
<1>5. ASSUME NEW h \in Requests, NEW k \in Handovers, NEW i \in Invites, NEW e \in Users \cup {Nobody},
             H!HandoverByLink(h, k, i, e)
      PROVE  Moves
  <2>1. H!Begin(h, "handover", i, e, k) /\ "handover" \in Counsel /\ H!NewId(i) /\ H!New(k)
    BY <1>5 DEF H!HandoverByLink, Counsel
  <2>2. /\ guestPc[h] = "idle" /\ guestPc'[h] = "handover" /\ loc'[h].inv = i /\ about'[h] = k
        /\ \A g \in Requests \ {h} : Stays(g)
    BY <1>b, <2>1
  <2>3. TakesUp(h)
    BY <2>1, <2>2 DEF TakesUp
  <2>4. Inserted(i)
    BY <2>1, <2>2 DEF Inserted, H!NewId, Stays
  <2>5. \A j \in Invites \ {i} : inv'[j] = inv[j]
    BY <1>5, <1>c DEF H!HandoverByLink
  <2>6. QED
    BY <2>2, <2>3, <2>4, <2>5 DEF Moves, OneMoves, Kept
<1>6. ASSUME NEW h \in Requests, H!InsertHandover(h) \/ H!CancelHandover(h) PROVE Moves
  BY <1>6, <1>e, KeptSame DEF H!InsertHandover, H!CancelHandover, Moves
<1>8. ASSUME NEW h \in Requests, H!RegisterGuest(h) PROVE Moves
  <2>1. CASE H!End(h)
    BY <1>8, <1>e, <2>1, KeptSame DEF H!RegisterGuest, Moves
  <2>2. CASE H!Goto(h, "grant") /\ UNCHANGED about /\ outside' = outside \cup {loc[h].to}
    <3>1. "grant" \in Labels
      BY DEF Labels
    <3>2. Continues(h) /\ \A g \in Requests \ {h} : Stays(g)
      BY <1>8, <1>t, <2>2, <3>1, GoesOn DEF H!RegisterGuest, Continues, Stays
    <3>3. QED
      BY <1>8, <3>2, KeptSame DEF H!RegisterGuest, Moves, OneMoves
  <2>3. QED
    BY <1>8, <2>1, <2>2 DEF H!RegisterGuest
<1>9. ASSUME NEW h \in Requests, H!Grant(h) PROVE Moves
  <2>1. OneMoves
    BY <1>9, <1>e DEF H!Grant
  <2>2. CASE loc[h].inv = Nobody
    BY <1>9, <2>1, <2>2, KeptSame DEF H!Grant, Moves
  <2>3. CASE loc[h].inv # Nobody
    <3>1. loc[h].inv \in Invites /\ "accepted" \in H!InviteStatus
      BY <1>c, <2>3 DEF Local, H!InviteStatus
    <3>2. inv' = [inv EXCEPT ![loc[h].inv].status = "accepted"] /\ guestPc[h] = "grant"
      BY <1>9, <2>3 DEF H!Grant
    <3>3. \A j \in Invites : Kept(j)
      BY <3>1, <3>2, KeptUpdate
    <3>4. QED
      BY <2>1, <3>3 DEF Moves
  <2>4. QED
    BY <2>2, <2>3
<1>10. QED
  BY <1>1, <1>2, <1>3, <1>4, <1>5, <1>6, <1>8, <1>9 DEF H!CoNext, SeatFrame

LEMMA StepsMove == Types /\ Reserved /\ [H!CoNext]_(H!vars) => Moves
<1> SUFFICES ASSUME Types, Reserved, [H!CoNext]_(H!vars) PROVE Moves
  OBVIOUS
<1>1. CASE UNCHANGED H!vars
  BY <1>1, KeptSame DEF H!vars, H!seatVars, H!coVars, Moves, OneMoves, Stays
<1>2. CASE H!Next /\ SeatFrame
  BY <1>2, SeatStepsMove
<1>3. QED
  BY <1>1, <1>2, CounselStepsMove

-----------------------------------------------------------------------------
(* They are invariant *)

LEMMA ReservedNext == Types /\ Types' /\ Reserved /\ Moves => Reserved'
<1> SUFFICES ASSUME Types, Types', Reserved, Moves,
                    NEW h \in Requests, guestPc'[h] \in {"duplicate", "insert"}
             PROVE  /\ inv'[loc'[h].inv] = H!NoInvite
                    /\ \A g \in Requests \ {h} : loc'[g].inv # loc'[h].inv
  BY DEF Reserved
<1> DEFINE i == loc'[h].inv
<1>n. i \in Invites /\ Nobody \notin Invites
  BY OfficeAssumption DEF Types, Placed, Member
<1>1. /\ inv[i] = H!NoInvite /\ \A g \in Requests \ {h} : loc[g].inv # i
      /\ \A g \in Requests : guestPc[g] \in {"mark", "grant"} => loc[g].inv # i
  <2>1. CASE guestPc[h] \in {"duplicate", "insert"} /\ loc'[h] = loc[h]
    BY <2>1 DEF Reserved
  <2>2. CASE guestPc[h] = "idle" /\ H!NewId(i)
    BY <2>2 DEF H!NewId
  <2>3. QED
    BY <2>1, <2>2 DEF Moves, OneMoves, Stays, PutsDown, TakesUp, Continues
<1>2. inv'[i] = H!NoInvite
  <2>1. H!NoInvite.status = "none"
    BY DEF H!NoInvite
  <2>2. ~Inserted(i)
    BY DEF Inserted
  <2>3. QED
    BY <1>1, <1>n, <2>1, <2>2 DEF Moves, Kept
<1>3. ASSUME NEW g \in Requests \ {h}, loc'[g].inv = i PROVE FALSE
  <2>0. inv[i].status = "none"
    BY <1>1 DEF H!NoInvite
  <2>1. ~Stays(g) /\ ~Continues(g) /\ ~PutsDown(g)
    BY <1>1, <1>3, <1>n DEF Stays, Continues, PutsDown
  <2>2. TakesUp(g) /\ Stays(h)
    BY <2>1 DEF Moves, OneMoves
  <2>3. H!NewId(i)
    BY <1>3, <1>n, <2>0, <2>2 DEF TakesUp
  <2>4. QED
    BY <2>2, <2>3 DEF H!NewId, Stays
<1>4. QED
  BY <1>2, <1>3

LEMMA AddressedNext == Types /\ Types' /\ Reserved /\ Addressed /\ Moves => Addressed'
<1> SUFFICES ASSUME Types, Types', Reserved, Addressed, Moves,
                    NEW h \in Requests, guestPc'[h] \in {"recheck", "register"}
             PROVE  loc'[h].to = inv'[loc'[h].inv].to
  BY DEF Addressed
<1> DEFINE i == loc'[h].inv
<1>1. i \in Invites
  BY DEF Types, Placed, Member
<1>2. loc'[h].to = inv[i].to
  BY DEF Addressed, Moves, OneMoves, Stays, PutsDown, TakesUp, Continues
<1>3. ~Inserted(i)
  BY DEF Inserted
<1>4. QED
  BY <1>1, <1>2, <1>3 DEF Moves, Kept

LEMMA OthersStay ==
    [H!CoNext]_(H!vars) => Others \subseteq Others' /\ users \cup outside \subseteq (users \cup outside)'
<1> SUFFICES ASSUME [H!CoNext]_(H!vars)
             PROVE  Others \subseteq Others' /\ users \cup outside \subseteq (users \cup outside)'
  OBVIOUS
<1>1. CASE H!Next /\ SeatFrame
  <2>1. Others \subseteq Others'
    BY <1>1 DEF SeatFrame, Others
  <2>2. CASE \E h \in Requests : H!Register(h)
    BY <2>1, <2>2 DEF H!Register
  <2>3. CASE \E e \in Users : H!CreateUser(e)
    BY <2>1, <2>3 DEF H!CreateUser
  <2>4. CASE \E e \in Users : H!MoveUser(e)
    BY <2>1, <2>4 DEF H!MoveUser
  <2>5. CASE UNCHANGED <<users, outside>>
    BY <2>1, <2>5
  <2>6. QED
    BY <1>1, <2>2, <2>3, <2>4, <2>5 DEF H!Next, H!Cancel, H!Resend, H!GetsOld, H!Sweep, H!SetInvite,
       H!SetUserStatus, H!UpdateSeats, H!BeginAccept, H!BeginCreate, H!CheckDuplicate,
       H!InsertInvite, H!RecheckSeats, H!MarkAccepted, H!Crash
<1>2. CASE \E h \in Requests : H!RegisterGuest(h)
  BY <1>2 DEF H!RegisterGuest, Others
<1>3. CASE UNCHANGED <<users, outside, moved>>
  BY <1>3 DEF Others
<1>4. QED
  BY <1>1, <1>2, <1>3 DEF H!CoNext, SeatFrame, H!vars, H!seatVars, H!coVars,
     H!HandoverToUser, H!BeginCancelHandover, H!BeginAcceptExisting,
     H!BeginAcceptByToken, H!HandoverByLink, H!InsertHandover, H!CancelHandover, H!Grant

LEMMA ApartNext ==
    ASSUME Types, Types', Apart, [H!CoNext]_(H!vars), Moves
    PROVE  Apart'
<1>i. /\ users \cap outside = {} /\ grants \subseteq Others
      /\ \A h \in Requests : guestPc[h] = "grant" => loc[h].to \in Others
      /\ \A k \in Handovers : request[k].kind = "existing_external_user" => request[k].to \in Others
  BY DEF Apart
<1>r. request \in [Handovers -> H!Handover] /\ about \in [Requests -> Handovers \cup {Nobody}]
  BY DEF Types, H!TypeOK
<1>o. Others \subseteq Others' /\ outside \subseteq Others
  BY OthersStay DEF Others
<1>1. users' \cap outside' = {}
  <2>1. CASE \E h \in Requests : H!Register(h)
    BY <1>i, <2>1 DEF H!Register
  <2>2. CASE \E e \in Users : H!CreateUser(e)
    BY <1>i, <2>2 DEF H!CreateUser
  <2>3. CASE \E e \in Users : H!MoveUser(e)
    BY <1>i, <2>3 DEF H!MoveUser
  <2>4. CASE \E h \in Requests : H!RegisterGuest(h)
    BY <1>i, <2>4 DEF H!RegisterGuest, H!HasAccount
  <2>5. CASE UNCHANGED <<users, outside>>
    BY <1>i, <2>5
  <2>6. QED
    BY <2>1, <2>2, <2>3, <2>4, <2>5 DEF H!CoNext, H!vars, H!seatVars, H!coVars, H!Next, H!Cancel,
       H!Resend, H!GetsOld, H!Sweep, H!SetInvite, H!SetUserStatus, H!UpdateSeats, H!BeginAccept,
       H!BeginCreate, H!CheckDuplicate, H!InsertInvite, H!RecheckSeats, H!MarkAccepted, H!Crash,
       H!HandoverToUser, H!BeginCancelHandover, H!BeginAcceptExisting,
       H!BeginAcceptByToken, H!HandoverByLink, H!InsertHandover, H!CancelHandover, H!Grant
<1>2. grants' \subseteq Others
  <2>1. CASE \E h \in Requests : H!Grant(h)
    BY <1>i, <2>1 DEF H!Grant
  <2>2. CASE UNCHANGED grants
    BY <1>i, <2>2
  <2>3. QED
    BY <2>1, <2>2 DEF H!CoNext, H!vars, H!coVars,
       H!HandoverToUser, H!BeginCancelHandover, H!BeginAcceptExisting,
       H!BeginAcceptByToken, H!HandoverByLink, H!InsertHandover, H!CancelHandover, H!RegisterGuest
<1>3. \A k \in Handovers : request'[k].kind = "existing_external_user" => request'[k].to \in Others
  <2>1. CASE \E k \in Handovers, e \in Users : H!HandoverToUser(k, e)
    BY <1>i, <1>o, <1>r, <2>1 DEF H!HandoverToUser
  <2>2. CASE \E h \in Requests : H!InsertHandover(h)
    BY <1>i, <1>r, <2>2 DEF H!InsertHandover
  <2>3. CASE \E h \in Requests : H!CancelHandover(h) \/ H!Grant(h)
    <3>1. PICK h \in Requests, s \in {"accepted", "cancelled"} :
              /\ request' = [request EXCEPT ![about[h]].status = s]
              /\ guestPc[h] \in {"cancel", "grant"}
      BY <2>3 DEF H!CancelHandover, H!Grant
    <3>2. about[h] \in Handovers
      BY <3>1 DEF Types, Placed, Counsel
    <3>3. \A k \in Handovers : request'[k].kind = request[k].kind /\ request'[k].to = request[k].to
      BY <1>r, <3>1, <3>2, RequestUpdates
    <3>4. QED
      BY <1>i, <3>3
  <2>4. CASE UNCHANGED request
    BY <1>i, <2>4
  <2>5. QED
    BY <2>1, <2>2, <2>3, <2>4 DEF H!CoNext, H!vars, H!coVars, H!BeginCancelHandover,
       H!BeginAcceptExisting, H!BeginAcceptByToken, H!HandoverByLink, H!RegisterGuest
<1>4. ASSUME NEW h \in Requests, guestPc'[h] = "grant" PROVE loc'[h].to \in Others'
  <2>1. ASSUME TakesUp(h) PROVE loc'[h].to \in Others
    <3>1. about'[h] \in Handovers
      BY <1>4 DEF Types, Placed, Counsel
    <3>2. QED
      BY <1>4, <1>i, <2>1, <3>1 DEF TakesUp
  <2>2. ASSUME Stays(h) PROVE loc'[h].to \in Others
    BY <1>4, <1>i, <2>2 DEF Stays
  <2>3. ASSUME Continues(h) PROVE loc'[h].to \in Others'
    BY <1>4, <2>3 DEF Continues, Others
  <2>4. ~PutsDown(h)
    BY <1>4 DEF PutsDown
  <2>5. QED
    BY <1>o, <2>1, <2>2, <2>3, <2>4 DEF Moves, OneMoves
<1>5. QED
  BY <1>1, <1>2, <1>3, <1>4, <1>o DEF Apart

LEMMA ClaimsAreFinite ==
    ASSUME Types
    PROVE  /\ IsFiniteSet(active) /\ IsFiniteSet(H!Pending) /\ IsFiniteSet(Claims)
           /\ Claims \subseteq H!Pending
           /\ Cardinality(active) \in Nat /\ Cardinality(H!Pending) \in Nat /\ Cardinality(Claims) \in Nat
           /\ seats \in Nat /\ extra \in Nat /\ MaxSeats \in Nat
<1>1. active \subseteq Users /\ H!Pending \subseteq Invites /\ Claims \subseteq H!Pending
  BY DEF Types, H!TypeOK, H!Pending, Claims
<1>2. IsFiniteSet(active) /\ IsFiniteSet(H!Pending) /\ IsFiniteSet(Claims)
  BY <1>1, FS_Subset, OfficeAssumption
<1>3. Cardinality(active) \in Nat /\ Cardinality(H!Pending) \in Nat /\ Cardinality(Claims) \in Nat
  BY <1>2, FS_CardinalityType
<1>4. seats \in Nat /\ extra \in Nat /\ MaxSeats \in Nat
  BY OfficeAssumption DEF Types, H!TypeOK
<1>5. QED
  BY <1>1, <1>2, <1>3, <1>4

LEMMA SizesLater ==
    Types' => (/\ Cardinality(active) \in Nat /\ Cardinality(Claims) \in Nat
               /\ seats \in Nat /\ extra \in Nat)'
<1>1. Types => /\ Cardinality(active) \in Nat /\ Cardinality(Claims) \in Nat
               /\ seats \in Nat /\ extra \in Nat
  BY ClaimsAreFinite
<1>2. QED
  BY <1>1, PTL

\* Only the check of the seats makes a claim.
LEMMA ClaimsShrink ==
    ASSUME Types, Types', Reserved, Moves, [H!CoNext]_(H!vars),
           \A h \in Requests : ~H!RecheckSeats(h) \/ guestPc'[h] # "register"
    PROVE  Claims' \subseteq Claims
<1> SUFFICES ASSUME NEW i \in Claims' PROVE i \in Claims
  OBVIOUS
<1>1. PICK h \in Requests : guestPc'[h] = "register" /\ loc'[h].inv = i
  BY DEF Claims
<1>2. i \in Invites /\ inv'[i].status = "pending" /\ inv'[i].to \notin users' \cup outside'
  BY DEF Claims, H!Pending
<1>3. Stays(h)
  BY <1>1 DEF Moves, OneMoves, PutsDown, TakesUp, Continues
<1>4. Kept(i)
  BY <1>1, <1>2 DEF Moves, Inserted
<1>5. inv[i].to \notin users \cup outside
  BY <1>2, <1>4, OthersStay DEF Kept
<1>6. QED
  BY <1>1, <1>2, <1>3, <1>4, <1>5 DEF Kept, Stays, Claims, H!Pending

LEMMA SeatedNext ==
    ASSUME Types, Types', Reserved, Addressed, Seated, [H!CoNext]_(H!vars), Moves
    PROVE  Seated'
<1> DEFINE a == Cardinality(active)  c == Cardinality(Claims)
           aa == Cardinality(active')  cc == Cardinality(Claims')
<1>n. /\ a \in Nat /\ c \in Nat /\ aa \in Nat /\ cc \in Nat
      /\ seats \in Nat /\ extra \in Nat /\ seats' \in Nat /\ extra' \in Nat
      /\ IsFiniteSet(active) /\ IsFiniteSet(Claims)
  BY ClaimsAreFinite, SizesLater
<1>i. 1 + a + c <= seats + extra
  BY DEF Seated
<1> SUFFICES 1 + aa + cc <= seats' + extra'
  BY DEF Seated
<1>1. ASSUME NEW h \in Requests, H!RecheckSeats(h), guestPc'[h] = "register"
      PROVE  1 + aa + cc <= seats' + extra'
  <2>1. H!SeatFree /\ UNCHANGED <<seats, active, extra, inv>>
    BY <1>1 DEF H!RecheckSeats, H!Return, Types, H!TypeOK
  <2>2. 1 + a + Cardinality(H!Pending) < seats
    BY <2>1, HandoverCardinality DEF H!SeatFree
  <2>3. Claims' \subseteq H!Pending
    BY <2>1 DEF Claims, H!Pending
  <2>4. cc <= Cardinality(H!Pending) /\ Cardinality(H!Pending) \in Nat
    BY <2>3, ClaimsAreFinite, FS_Subset
  <2>5. aa = a
    BY <2>1
  <2>6. QED
    BY <1>n, <2>1, <2>2, <2>4, <2>5
<1>2. ASSUME \A h \in Requests : ~H!RecheckSeats(h) \/ guestPc'[h] # "register"
      PROVE  1 + aa + cc <= seats' + extra'
  <2>c. Claims' \subseteq Claims /\ cc <= c
    BY <1>2, <1>n, ClaimsShrink, FS_Subset
  <2>a. \A e : Cardinality(active \cup {e}) <= a + 1 /\ Cardinality(active \cup {e}) \in Nat
    <3>1. SUFFICES ASSUME NEW e
                   PROVE  Cardinality(active \cup {e}) <= a + 1 /\ Cardinality(active \cup {e}) \in Nat
      OBVIOUS
    <3>2. CASE e \in active
      <4>1. active \cup {e} = active
        BY <3>2
      <4>2. QED
        <5>1. Cardinality(active \cup {e}) = a
          BY <4>1, Zenon
        <5>2. QED
          BY <1>n, <5>1
    <3>3. CASE e \notin active
      <4>1. Cardinality(active \cup {e}) = Cardinality(active) + 1
        BY <1>n, <3>3, FS_AddElement
      <4>2. QED
        BY <1>n, <4>1
    <3>4. QED
      BY <3>2, <3>3
  <2>1. ASSUME NEW h \in Requests, H!Register(h) PROVE 1 + aa + cc <= seats' + extra'
    <3>1. CASE UNCHANGED <<active, extra>>
      <4>1. aa = a /\ seats' = seats
        BY <2>1, <3>1 DEF H!Register
      <4>2. QED
        BY <1>i, <1>n, <2>c, <3>1, <4>1
    <3>2. CASE /\ loc[h].to \notin users \cup outside
               /\ users' = users \cup {loc[h].to} /\ active' = active \cup {loc[h].to}
               /\ extra' = IF loc[h].inv \in H!Pending THEN extra ELSE extra + 1
      <4>1. aa <= a + 1 /\ seats' = seats /\ inv' = inv
        BY <2>1, <2>a, <3>2 DEF H!Register
      <4>2. ASSUME loc[h].inv \in H!Pending PROVE cc <= c - 1
        <5>1. loc[h].inv \in Claims
          BY <2>1, <3>2, <4>2 DEF H!Register, Claims, Addressed
        <5>2. loc[h].inv \notin Claims'
          BY <2>1, <3>2, <4>1 DEF H!Register, Claims, Addressed
        <5>3. Claims' \subseteq Claims \ {loc[h].inv}
          BY <2>c, <5>2
        <5>4. cc <= Cardinality(Claims \ {loc[h].inv}) /\ Cardinality(Claims \ {loc[h].inv}) = c - 1
          BY <1>n, <5>1, <5>3, FS_RemoveElement, FS_Subset
        <5>5. QED
          BY <5>4
      <4>3. QED
        BY <1>i, <1>n, <2>c, <3>2, <4>1, <4>2
    <3>3. QED
      BY <2>1, <3>1, <3>2 DEF H!Register
  <2>2. ASSUME NEW e \in Users, H!CreateUser(e) PROVE 1 + aa + cc <= seats' + extra'
    <3>1. aa <= a + 1 /\ seats' = seats /\ extra' = extra + 1
      BY <2>2, <2>a DEF H!CreateUser
    <3>2. QED
      BY <1>i, <1>n, <2>c, <3>1
  <2>3. ASSUME NEW e \in Users, H!SetUserStatus(e) PROVE 1 + aa + cc <= seats' + extra'
    <3>0. seats' = seats
      BY <2>3 DEF H!SetUserStatus
    <3>1. CASE active' = active \ {e} /\ UNCHANGED extra
      <4>1. aa <= a
        BY <1>n, <3>1, FS_Subset
      <4>2. QED
        BY <1>i, <1>n, <2>c, <3>0, <3>1, <4>1
    <3>2. CASE active' = active \cup {e} /\ extra' = extra + 1
      <4>1. aa <= a + 1
        BY <2>a, <3>2
      <4>2. QED
        BY <1>i, <1>n, <2>c, <3>0, <3>2, <4>1
    <3>3. QED
      BY <2>3, <3>1, <3>2 DEF H!SetUserStatus
  <2>7. ASSUME NEW e \in Users, H!MoveUser(e) PROVE 1 + aa + cc <= seats' + extra'
    <3>0. seats' = seats
      BY <2>7 DEF H!MoveUser
    <3>1. CASE (active' = active \ {e} \/ UNCHANGED active) /\ UNCHANGED extra
      <4>1. aa <= a
        BY <1>n, <3>1, FS_Subset
      <4>2. QED
        BY <1>i, <1>n, <2>c, <3>0, <3>1, <4>1
    <3>2. CASE active' = active \cup {e} /\ extra' = extra + 1
      <4>1. aa <= a + 1
        BY <2>a, <3>2
      <4>2. QED
        BY <1>i, <1>n, <2>c, <3>0, <3>2, <4>1
    <3>3. QED
      BY <2>7, <3>1, <3>2 DEF H!MoveUser
  <2>4. ASSUME NEW n \in 1 .. MaxSeats, H!UpdateSeats(n) PROVE 1 + aa + cc <= seats' + extra'
    <3>1. aa = a /\ seats' = n /\ n \in Nat /\ extra' = IF n < seats THEN extra + (seats - n) ELSE extra
      BY <2>4, OfficeAssumption DEF H!UpdateSeats
    <3>2. QED
      BY <1>i, <1>n, <2>c, <3>1
  <2>5. CASE UNCHANGED <<seats, active, extra>>
    <3>1. aa = a
      BY <2>5
    <3>2. QED
      BY <1>i, <1>n, <2>5, <2>c, <3>1
  <2>6. QED
    BY <2>1, <2>2, <2>3, <2>4, <2>5, <2>7 DEF H!CoNext, H!vars, H!seatVars, H!coVars, H!Next, H!Cancel,
       H!Resend, H!GetsOld, H!Sweep, H!SetInvite, H!BeginAccept, H!BeginCreate,
       H!CheckDuplicate, H!InsertInvite, H!RecheckSeats, H!MarkAccepted, H!Crash, H!HandoverToUser,
       H!BeginCancelHandover, H!BeginAcceptExisting, H!BeginAcceptByToken, H!HandoverByLink,
       H!InsertHandover, H!CancelHandover, H!RegisterGuest, H!Grant
<1>3. QED
  BY <1>1, <1>2

-----------------------------------------------------------------------------
(* What any step does to a handover *)

SameLink(k) ==
    /\ request'[k].kind = request[k].kind
    /\ request'[k].inv = request[k].inv
HandoverMove(k) ==
    \/ request'[k] = request[k] /\ takenBy'[k] = takenBy[k]
    \/ /\ H!New(k) /\ takenBy'[k] = takenBy[k] /\ request'[k].kind = "existing_external_user"
       /\ UNCHANGED <<guestPc, loc, about>>
    \/ /\ \E h \in Requests : guestPc[h] = "handover" /\ about[h] = k /\ PutsDown(h)
       /\ takenBy'[k] = takenBy[k] /\ request'[k].kind = "invitation"
    \/ /\ \E h \in Requests : guestPc[h] = "cancel" /\ about[h] = k /\ PutsDown(h)
       /\ takenBy'[k] = takenBy[k] /\ SameLink(k)
    \/ \E h \in Requests :
          /\ guestPc[h] = "grant" /\ about[h] = k /\ PutsDown(h) /\ SameLink(k)
          /\ request'[k].status = "accepted" /\ takenBy'[k] = takenBy[k] \cup {loc[h].to}
          /\ loc[h].inv \in Invites => inv'[loc[h].inv].status = "accepted"
          /\ k \notin crossed' => \A g \in Requests \ {h} : about[g] # k

LEMMA HandoversMove ==
    ASSUME Types, [H!CoNext]_(H!vars)
    PROVE  crossed \subseteq crossed' /\ \A k \in Handovers : HandoverMove(k)
<1>t. H!TypeOK /\ Placed
  BY DEF Types
<1>c. /\ inv \in [Invites -> H!Invite] /\ request \in [Handovers -> H!Handover]
      /\ about \in [Requests -> Handovers \cup {Nobody}] /\ takenBy \in [Handovers -> SUBSET Users]
      /\ loc \in [Requests -> Local]
  BY <1>t DEF H!TypeOK, Local
<1>e. ASSUME NEW h \in Requests, H!End(h) PROVE PutsDown(h)
  BY <1>c, <1>e, <1>t, Returns DEF H!End, H!Return, PutsDown
<1>1. ASSUME NEW j \in Handovers, NEW e \in Users, H!HandoverToUser(j, e), NEW k \in Handovers
      PROVE  HandoverMove(k)
  <2>1. /\ H!New(j) /\ takenBy' = takenBy /\ request'[j].kind = "existing_external_user"
        /\ UNCHANGED <<guestPc, loc, about>>
        /\ j # k => request'[k] = request[k]
    BY <1>1, <1>c DEF H!HandoverToUser, H!seatVars
  <2>2. QED
    BY <2>1 DEF HandoverMove
<1>2. ASSUME NEW h \in Requests, H!InsertHandover(h), NEW k \in Handovers PROVE HandoverMove(k)
  <2>1. about[h] \in Handovers /\ guestPc[h] = "handover" /\ PutsDown(h) /\ takenBy' = takenBy
    BY <1>2, <1>e, <1>t DEF H!InsertHandover, Placed, Counsel
  <2>2. request'[about[h]].kind = "invitation" /\ (about[h] # k => request'[k] = request[k])
    BY <1>2, <1>c, <2>1 DEF H!InsertHandover
  <2>3. QED
    BY <2>1, <2>2 DEF HandoverMove
<1>q. ASSUME NEW j \in Handovers, NEW s \in {"accepted", "cancelled"}, NEW k \in Handovers,
             request' = [request EXCEPT ![j].status = s]
      PROVE  SameLink(j) /\ request'[j].status = s /\ (j # k => request'[k] = request[k])
  BY <1>c, <1>q, RequestUpdates DEF SameLink
<1>3. ASSUME NEW h \in Requests, H!CancelHandover(h), NEW k \in Handovers PROVE HandoverMove(k)
  <2>1. about[h] \in Handovers /\ guestPc[h] = "cancel" /\ PutsDown(h) /\ takenBy' = takenBy
    BY <1>3, <1>e, <1>t DEF H!CancelHandover, Placed, Counsel
  <2>2. SameLink(about[h]) /\ (about[h] # k => request'[k] = request[k])
    BY <1>3, <1>q, <2>1 DEF H!CancelHandover
  <2>3. QED
    BY <2>1, <2>2 DEF HandoverMove
<1>4. ASSUME NEW h \in Requests, H!Grant(h), NEW k \in Handovers PROVE HandoverMove(k)
  <2>1. about[h] \in Handovers /\ guestPc[h] = "grant" /\ PutsDown(h)
    BY <1>4, <1>e, <1>t DEF H!Grant, Placed, Counsel
  <2>2. SameLink(about[h]) /\ request'[about[h]].status = "accepted" /\ (about[h] # k => request'[k] = request[k])
    BY <1>4, <1>q, <2>1 DEF H!Grant
  <2>3. /\ takenBy'[about[h]] = takenBy[about[h]] \cup {loc[h].to}
        /\ about[h] # k => takenBy'[k] = takenBy[k]
    BY <1>4, <1>c, <2>1 DEF H!Grant
  <2>4. ASSUME loc[h].inv \in Invites PROVE inv'[loc[h].inv].status = "accepted"
    <3>1. inv' = [inv EXCEPT ![loc[h].inv].status = "accepted"] /\ "accepted" \in H!InviteStatus
      BY <1>4, <2>4, OfficeAssumption DEF H!Grant, H!InviteStatus
    <3>2. QED
      BY <1>c, <2>4, <3>1, InviteUpdates
  <2>5. about[h] \notin crossed' => \A g \in Requests \ {h} : about[g] # about[h]
    BY <1>4 DEF H!Grant
  <2>6. CASE about[h] = k
    BY <2>1, <2>2, <2>3, <2>4, <2>5, <2>6 DEF HandoverMove
  <2>7. CASE about[h] # k
    BY <2>2, <2>3, <2>7 DEF HandoverMove
  <2>8. QED
    BY <2>6, <2>7
<1>5. ASSUME UNCHANGED <<request, takenBy>>, NEW k \in Handovers PROVE HandoverMove(k)
  BY <1>5 DEF HandoverMove
<1>6. crossed \subseteq crossed'
  <2>1. CASE \E h \in Requests : H!Grant(h)
    BY <2>1 DEF H!Grant
  <2>2. CASE UNCHANGED crossed
    BY <2>2
  <2>3. QED
    BY <2>1, <2>2 DEF H!CoNext, H!vars, H!coVars, H!HandoverToUser, H!BeginCancelHandover,
       H!BeginAcceptExisting, H!BeginAcceptByToken, H!HandoverByLink, H!InsertHandover,
       H!CancelHandover, H!RegisterGuest
<1>7. QED
  BY <1>1, <1>2, <1>3, <1>4, <1>5, <1>6 DEF H!CoNext, H!vars, H!coVars, H!BeginCancelHandover,
     H!BeginAcceptExisting, H!BeginAcceptByToken, H!HandoverByLink, H!RegisterGuest

LEMMA KindStays ==
    ASSUME Types, Made, NEW k \in Handovers, HandoverMove(k), request[k].kind # "none"
    PROVE  SameLink(k)
BY DEF HandoverMove, SameLink, Made, H!New, H!NoHandover

LEMMA MadeNext ==
    ASSUME Types, Types', Made, Moves, \A k \in Handovers : HandoverMove(k)
    PROVE  Made'
<1>n. Nobody \notin Handovers
  BY OfficeAssumption
<1>p. /\ \A h \in Requests : guestPc[h] \in Counsel => about[h] \in Handovers
      /\ \A h \in Requests : guestPc'[h] \in Counsel => about'[h] \in Handovers
  BY DEF Types, Placed
<1>1. ASSUME NEW h \in Requests, guestPc'[h] = "handover"
      PROVE  /\ request'[about'[h]] = H!NoHandover
             /\ \A g \in Requests \ {h} : about'[g] # about'[h]
  <2> DEFINE k == about'[h]
  <2>0. k \in Handovers /\ H!NoHandover.kind = "none"
    BY <1>1, <1>p DEF Counsel, H!NoHandover
  <2>1. CASE Stays(h)
    <3>1. guestPc[h] = "handover" /\ about[h] = k /\ request[k] = H!NoHandover
          /\ \A g \in Requests \ {h} : about[g] # k
      BY <1>1, <2>1 DEF Stays, Made
    <3>2. ASSUME NEW g \in Requests, PutsDown(g) PROVE about[g] # k
      BY <1>1, <3>1, <3>2 DEF PutsDown
    <3>3. request'[k] = H!NoHandover
      BY <2>0, <3>1, <3>2 DEF HandoverMove, H!New
    <3>4. ASSUME NEW g \in Requests \ {h}, about'[g] = k PROVE FALSE
      <4>1. TakesUp(g)
        BY <1>n, <2>0, <3>1, <3>4 DEF Moves, OneMoves, Stays, PutsDown, Continues
      <4>2. QED
        BY <1>n, <2>0, <3>1, <3>4, <4>1 DEF TakesUp, H!New
    <3>5. QED
      BY <3>3, <3>4
  <2>2. CASE ~Stays(h)
    <3>1. TakesUp(h) /\ guestPc[h] = "idle" /\ \A g \in Requests \ {h} : Stays(g)
      BY <1>1, <2>2 DEF Moves, OneMoves, PutsDown, Continues
    <3>2. H!New(k)
      BY <1>1, <3>1 DEF TakesUp
    <3>3. request'[k] = request[k]
      BY <1>1, <2>0, <3>1, <3>2 DEF HandoverMove, H!New
    <3>4. QED
      BY <3>1, <3>2, <3>3 DEF H!New, Stays
  <2>3. QED
    BY <2>1, <2>2
<1>2. ASSUME NEW h \in Requests, guestPc'[h] \in {"cancel", "guest", "grant"}
      PROVE  request'[about'[h]].kind # "none"
  <2>1. about'[h] \in Handovers
    BY <1>2, <1>p DEF Counsel
  <2>2. request[about'[h]].kind # "none"
    BY <1>2, <2>1 DEF Made, Moves, OneMoves, Stays, PutsDown, TakesUp, Continues
  <2>3. QED
    BY <2>1, <2>2, KindStays DEF SameLink
<1>3. ASSUME NEW k \in Handovers, request'[k].kind = "none"
      PROVE  request'[k] = H!NoHandover /\ takenBy'[k] = {}
  <2>1. request[k].kind = "none"
    BY <1>3, KindStays DEF SameLink
  <2>2. request[k] = H!NoHandover /\ takenBy[k] = {}
    BY <2>1 DEF Made
  <2>3. request'[k] = request[k] /\ takenBy'[k] = takenBy[k]
    BY <1>3, <2>1 DEF HandoverMove, Made
  <2>4. QED
    BY <2>2, <2>3
<1>4. QED
  BY <1>1, <1>2, <1>3 DEF Made

LEMMA LinkedNext ==
    ASSUME Types, Types', Made, Linked, Moves, \A k \in Handovers : HandoverMove(k)
    PROVE  Linked'
<1> SUFFICES ASSUME NEW h \in Requests, guestPc'[h] \in {"guest", "grant"}
             PROVE  /\ guestPc'[h] = "guest" => request'[about'[h]].kind = "invitation"
                    /\ loc'[h].inv = IF request'[about'[h]].kind = "invitation"
                                     THEN request'[about'[h]].inv ELSE Nobody
  BY DEF Linked
<1> DEFINE k == about'[h]
<1>1. k \in Handovers
  BY DEF Types, Placed, Counsel
<1>2. /\ request[k].kind # "none"
      /\ guestPc'[h] = "guest" => request[k].kind = "invitation"
      /\ loc'[h].inv = IF request[k].kind = "invitation" THEN request[k].inv ELSE Nobody
  BY <1>1 DEF Made, Linked, Moves, OneMoves, Stays, PutsDown, TakesUp, Continues
<1>3. SameLink(k)
  BY <1>1, <1>2, KindStays
<1>4. QED
  BY <1>2, <1>3 DEF SameLink

LEMMA TakenOnceNext ==
    ASSUME Types, Types', Made, Linked, TakenOnce, Moves, crossed \subseteq crossed',
           \A k \in Handovers : HandoverMove(k)
    PROVE  TakenOnce'
<1> SUFFICES ASSUME NEW k \in Handovers, takenBy'[k] # {}
             PROVE  /\ request'[k].kind = "invitation" => inv'[request'[k].inv].status = "accepted"
                    /\ k \notin crossed' =>
                          /\ request'[k].status = "accepted"
                          /\ \E e \in Users : takenBy'[k] = {e}
                          /\ \A h \in Requests : about'[h] # k
  BY DEF TakenOnce
<1>n. Nobody \notin Handovers /\ Nobody \notin Invites
  BY OfficeAssumption
<1>i. request[k].kind = "invitation" => request[k].inv \in Invites
  BY DEF Types, Requested
<1>k. request[k].kind # "none"
  BY DEF HandoverMove, Made, SameLink, H!New, H!NoHandover
<1>s. SameLink(k)
  BY <1>k, KindStays
<1>a. \A i \in Invites : inv[i].status = "accepted" => inv'[i].status = "accepted"
  BY DEF Moves, Kept, Inserted, H!NoInvite
<1>1. CASE takenBy'[k] = takenBy[k]
  <2>1. request'[k].kind = "invitation" => inv'[request'[k].inv].status = "accepted"
    BY <1>1, <1>a, <1>i, <1>s DEF TakenOnce, SameLink
  <2>2. ASSUME k \notin crossed'
        PROVE  /\ request'[k].status = "accepted"
               /\ \E e \in Users : takenBy'[k] = {e}
               /\ \A h \in Requests : about'[h] # k
    <3>1. /\ request[k].status = "accepted" /\ \E e \in Users : takenBy[k] = {e}
          /\ \A h \in Requests : about[h] # k
          /\ request[k].kind = "invitation" => inv[request[k].inv].status = "accepted"
      BY <1>1, <2>2 DEF TakenOnce
    <3>2. request'[k] = request[k]
      BY <1>k, <3>1 DEF HandoverMove, H!New, H!NoHandover
    <3>3. ASSUME NEW h \in Requests, about'[h] = k PROVE FALSE
      <4>1. TakesUp(h)
        BY <1>n, <3>1, <3>3 DEF Moves, OneMoves, Stays, PutsDown, Continues
      <4>2. QED
        BY <1>k, <1>n, <3>1, <3>3, <4>1 DEF TakesUp, H!New, H!NoHandover
    <3>4. QED
      BY <1>1, <3>1, <3>2, <3>3
  <2>3. QED
    BY <2>1, <2>2
<1>2. CASE takenBy'[k] # takenBy[k]
  <2>1. PICK h \in Requests :
            /\ guestPc[h] = "grant" /\ about[h] = k /\ PutsDown(h)
            /\ request'[k].status = "accepted" /\ takenBy'[k] = takenBy[k] \cup {loc[h].to}
            /\ loc[h].inv \in Invites => inv'[loc[h].inv].status = "accepted"
            /\ k \notin crossed' => \A g \in Requests \ {h} : about[g] # k
    BY <1>2 DEF HandoverMove
  <2>2. request'[k].kind = "invitation" => inv'[request'[k].inv].status = "accepted"
    BY <1>i, <1>s, <2>1 DEF Linked, SameLink
  <2>3. ASSUME k \notin crossed'
        PROVE  /\ \E e \in Users : takenBy'[k] = {e}
               /\ \A g \in Requests : about'[g] # k
    <3>1. takenBy[k] = {} /\ loc[h].to \in Users
      BY <2>1, <2>3 DEF TakenOnce, Types, Placed
    <3>2. \A g \in Requests \ {h} : Stays(g)
      BY <2>1 DEF Moves, OneMoves, Stays, PutsDown, TakesUp, Continues
    <3>3. \A g \in Requests : about'[g] # k
      BY <1>n, <2>1, <2>3, <3>2 DEF Stays, PutsDown
    <3>4. QED
      BY <2>1, <3>1, <3>3
  <2>4. QED
    BY <2>1, <2>2, <2>3
<1>3. QED
  BY <1>1, <1>2

-----------------------------------------------------------------------------
(* The theorems *)

HandoverInv ==
    /\ Types /\ Reserved
    /\ Addressed /\ Seated
    /\ Apart
    /\ Made /\ Linked /\ TakenOnce

LEMMA HandoverInit == H!CoInit => HandoverInv
<1> SUFFICES ASSUME H!CoInit PROVE HandoverInv
  OBVIOUS
<1>i. /\ seats \in 1 .. MaxSeats /\ users = {} /\ active = {} /\ outside \in SUBSET Users
      /\ inv = [i \in Invites |-> H!NoInvite] /\ guestPc = [h \in Requests |-> "idle"]
      /\ loc = [h \in Requests |-> [inv |-> Nobody, to |-> Nobody]]
      /\ extra = 0 /\ byHand = 0 /\ request = [k \in Handovers |-> H!NoHandover]
      /\ grants = {} /\ crossed = {} /\ moved = {} /\ about = [h \in Requests |-> Nobody]
      /\ takenBy = [k \in Handovers |-> {}]
  BY DEF H!CoInit, H!Init
<1>1. Types
  <2>1. H!NoInvite \in H!Invite
    BY DEF H!NoInvite, H!Invite, H!Kinds, H!InviteStatus
  <2>2. H!NoHandover \in H!Handover
    BY DEF H!NoHandover, H!Handover
  <2>3. 0 \in 0 .. MaxByHand
    BY OfficeAssumption
  <2>4. H!TypeOK
    BY <1>i, <2>1, <2>2, <2>3 DEF H!TypeOK
  <2>5. Placed
    BY <1>i DEF Placed, Member, Counsel
  <2>6. Requested
    BY <1>i DEF Requested, H!NoHandover
  <2>7. QED
    BY <2>4, <2>5, <2>6 DEF Types
<1>2. Reserved /\ Addressed /\ Apart
  BY <1>i DEF Reserved, Addressed, Apart, H!NoHandover
<1>3. Seated
  <2>1. Claims = {} /\ active = {}
    BY <1>i DEF Claims
  <2>2. Cardinality(Claims) = 0 /\ Cardinality(active) = 0
    BY <2>1, FS_EmptySet
  <2>3. seats \in Nat /\ seats >= 1 /\ extra = 0
    BY <1>i, OfficeAssumption
  <2>4. QED
    BY <2>2, <2>3 DEF Seated
<1>4. Made /\ Linked /\ TakenOnce
  BY <1>i DEF Made, Linked, TakenOnce, H!NoHandover
<1>5. QED
  BY <1>1, <1>2, <1>3, <1>4 DEF HandoverInv

LEMMA HandoverNext == HandoverInv /\ [Next]_vars => HandoverInv'
<1> SUFFICES ASSUME HandoverInv, [Next]_vars PROVE HandoverInv'
  OBVIOUS
<1>1. [H!CoNext]_(H!vars)
  BY HandoverSteps
<1>2. Types' /\ Moves
  BY <1>1, TypesNext, StepsMove DEF HandoverInv
<1>3. crossed \subseteq crossed' /\ \A k \in Handovers : HandoverMove(k)
  BY <1>1, HandoversMove DEF HandoverInv
<1>4. Reserved' /\ Addressed'
  BY <1>2, ReservedNext, AddressedNext DEF HandoverInv
<1>5. Seated' /\ Apart'
  BY <1>1, <1>2, SeatedNext, ApartNext DEF HandoverInv
<1>6. Made' /\ Linked' /\ TakenOnce'
  BY <1>2, <1>3, MadeNext, LinkedNext, TakenOnceNext DEF HandoverInv
<1>7. QED
  BY <1>2, <1>4, <1>5, <1>6 DEF HandoverInv

LEMMA HandoverKept == Spec => []HandoverInv
<1>1. Init => HandoverInv
  BY HandoverInit DEF Init
<1>2. QED
  BY <1>1, HandoverNext, PTL DEF Spec

\* However invitations are created, accepted, cancelled and expire at the same
\* time, and handovers reserve seats beside them, they bring no firm over its
\* seats (assertSeatCapNotExceeded, checked again by accept), for any number of
\* seats, people and requests.
THEOREM SeatsAreKept == Spec => []SeatsKept
<1>1. HandoverInv => SeatsKept
  <2> SUFFICES ASSUME HandoverInv PROVE SeatsKept
    OBVIOUS
  <2>1. 1 + Cardinality(active) + Cardinality(Claims) <= seats + extra
    BY DEF HandoverInv, Seated
  <2>2. /\ Cardinality(active) \in Nat /\ Cardinality(Claims) \in Nat
        /\ seats \in Nat /\ extra \in Nat
    BY ClaimsAreFinite DEF HandoverInv
  <2>3. 1 + Cardinality(active) <= seats + extra
    BY <2>1, <2>2
  <2>4. QED
    BY <2>3, HandoverCardinality DEF SeatsKept, H!SeatsKept
<1>2. QED
  BY <1>1, HandoverKept, PTL

\* A handover is taken by one advocate and then never cancelled, whichever of
\* its ways is used and however often (acceptExisting, acceptByToken,
\* cancelHandover), unless two of them crossed on the same handover.
THEOREM HandoversEndOnce == Spec => []HandoverEndsOnce
<1>1. HandoverInv => HandoverEndsOnce
  <2> SUFFICES ASSUME HandoverInv, NEW k \in Handovers \ crossed
               PROVE  Cardinality(takenBy[k]) <= IF request[k].status = "cancelled" THEN 0 ELSE 1
    BY HandoverCardinality DEF HandoverEndsOnce, H!HandoverEndsOnce
  <2>1. CASE takenBy[k] = {}
    <3>1. Cardinality(takenBy[k]) = 0
      BY <2>1, FS_EmptySet
    <3>2. QED
      BY <3>1
  <2>2. CASE takenBy[k] # {}
    <3>1. request[k].status = "accepted" /\ \E e \in Users : takenBy[k] = {e}
      BY <2>2 DEF HandoverInv, TakenOnce
    <3>2. Cardinality(takenBy[k]) = 1
      BY <3>1, FS_Singleton
    <3>3. QED
      BY <3>1, <3>2
  <2>3. QED
    BY <2>1, <2>2
<1>2. QED
  BY <1>1, HandoverKept, PTL

\* Nobody has both access as a guest and an account in the firm, though both
\* kinds of invitation are open for one address and are accepted together
\* (registerCoCounselGuest and registerExternalUser refuse an address in use),
\* unless the operator moved the account (updateUser), which keeps the grant.
THEOREM GuestsStayOutside == Spec => []GuestsAreNotMembers
<1>1. HandoverInv => GuestsAreNotMembers
  BY DEF HandoverInv, Apart, Others, GuestsAreNotMembers, H!GuestsAreNotMembers
<1>2. QED
  BY <1>1, HandoverKept, PTL

=============================================================================
