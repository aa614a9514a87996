------------------------------- MODULE Members -------------------------------
(***************************************************************************)
(* The members of one firm: their role and status as the firm admin        *)
(* (firm-admin.service.ts) and the platform (admin.service.ts) change      *)
(* them, and their erasure at their own request (dpdp.service.ts), which   *)
(* waits out a retention period before a job deletes them.                 *)
(***************************************************************************)
EXTENDS Naturals, FiniteSets

CONSTANTS
    People,
    Requests, \* requests that can run at the same time
    Nobody

VARIABLES
    admins,     \* users with the system role Firm Admin
    status,     \* users.status
    asked, due, \* users with deleted_at; those whose scheduled_purge_at is past
    lost,       \* users whose drafts were purged; those of asked are hidden
    pc, loc,    \* each request, the user and the change it is about
    purging,    \* purgeDueDeletions has deleted the drafts, not the users yet
    unguarded,  \* history: a change that takes an admin away was not alone, or
                \* an admin asked for erasure or was erased
    late        \* history: took an erasure back after its deadline

memberVars == <<admins, status, asked, due, lost, pc, loc, purging,
                unguarded, late>>

-----------------------------------------------------------------------------
Changes == {"demote", "promote", "suspend", "reactivate"}
Lessens == {"demote", "suspend"}
NoLoc == [who |-> Nobody, what |-> "none"]

Present == {u \in People : status[u] # "gone"}
Active == {u \in People : status[u] = "active"}

\* createFirm: every firm is born with an active Firm Admin.
Init ==
    /\ admins \in (SUBSET People) \ {{}}
    /\ status = [u \in People |-> "active"]
    /\ asked = {} /\ due = {}
    /\ lost = {}
    /\ pc = [r \in Requests |-> "idle"] /\ loc = [r \in Requests |-> NoLoc]
    /\ purging = FALSE
    /\ unguarded = FALSE /\ late = {}

Start(r, l, u, c) ==
    /\ pc[r] = "idle" /\ u \in Present
    /\ pc' = [pc EXCEPT ![r] = l]
    /\ loc' = [loc EXCEPT ![r] = [who |-> u, what |-> c]]
Return(r) == pc' = [pc EXCEPT ![r] = "idle"] /\ loc' = [loc EXCEPT ![r] = NoLoc]

\* An update by id changes nothing of a user who is deleted.
Changed(u, c) ==
    /\ admins' = CASE c = "demote" -> admins \ {u}
                   [] c = "promote" /\ u \in Present -> admins \cup {u}
                   [] OTHER -> admins
    /\ status' = CASE c = "suspend" /\ u \in Present -> [status EXCEPT ![u] = "suspended"]
                   [] c = "reactivate" /\ u \in Present -> [status EXCEPT ![u] = "active"]
                   [] OTHER -> status

-----------------------------------------------------------------------------
(* firm-admin.service.ts updateUser *)

Guarded(u, c) == u \in admins /\ c # "reactivate"

\* A change that takes an admin away is on its way.
Lessening == \E q \in Requests : pc[q] = "update"

BeginUpdate(r, u, c) ==
    /\ Start(r, IF Guarded(u, c) THEN "count" ELSE "update", u, c)
    /\ unguarded' = (unguarded \/ (~Guarded(u, c) /\ Lessening))
    /\ UNCHANGED <<admins, status, asked, due, lost, purging, late>>

\* Nothing is counted, so nothing comes between the check and the update.
Raise(u, c) ==
    /\ c \in Changes \ Lessens /\ (c = "promote" => u \notin admins)
    /\ Changed(u, c)
    /\ unguarded' = (unguarded \/ Lessening)
    /\ UNCHANGED <<asked, due, lost, pc, loc, purging, late>>

OtherAdmins_Suspended(u) == (admins \cap Present) \ {u}  \* mutant: suspended admins count

OtherAdmins(u) == (admins \cap Active) \ {u}

\* Last-admin protection; no lock is held between the count and the update.
CountOthers(r) ==
    /\ pc[r] = "count"
    /\ IF OtherAdmins(loc[r].who) = {}
       THEN Return(r) /\ UNCHANGED unguarded
       ELSE /\ pc' = [pc EXCEPT ![r] = "update"] /\ UNCHANGED loc
            /\ unguarded' = (unguarded \/ Lessening)
    /\ UNCHANGED <<admins, status, asked, due, lost, purging, late>>

Update(r) ==
    /\ pc[r] = "update"
    /\ Changed(loc[r].who, loc[r].what)
    /\ Return(r)
    /\ UNCHANGED <<asked, due, lost, purging, unguarded, late>>

-----------------------------------------------------------------------------
(* admin.service.ts updateUser and deleteUser.  For an admin the check is  *)
(* an aggregate FOR UPDATE, which the database refuses: nothing changes.   *)

PlatformUpdate(u, c) ==
    /\ u \in Present /\ c \in {"suspend", "reactivate"}
    /\ ~Guarded(u, c)
    /\ Changed(u, c)
    /\ UNCHANGED <<asked, due, lost, pc, loc, purging, unguarded, late>>

PlatformDelete(u) ==
    /\ u \in Present \ admins
    /\ status' = [status EXCEPT ![u] = "gone"]
    /\ lost' = lost \ {u}
    /\ asked' = asked \ {u} /\ due' = due \ {u}
    /\ UNCHANGED <<admins, pc, loc, purging, unguarded, late>>

-----------------------------------------------------------------------------
(* dpdp.service.ts *)

RequestDeletion(u) ==
    /\ u \in Present \ asked
    /\ asked' = asked \cup {u}
    /\ status' = [status EXCEPT ![u] = "deactivated"]
    /\ unguarded' = (unguarded \/ u \in admins)
    /\ UNCHANGED <<admins, due, lost, pc, loc, purging, late>>

Deadline(u) ==
    /\ u \in asked \ due /\ due' = due \cup {u}
    /\ UNCHANGED <<admins, status, asked, lost, pc, loc, purging, unguarded, late>>

BeginCancel(r, u) ==
    /\ u \in asked \ due
    /\ Start(r, "undelete", u, "none")
    /\ UNCHANGED <<admins, status, asked, due, lost, purging, unguarded, late>>

TakenBack(u) ==
    /\ status' = [status EXCEPT ![u] = "active"]
    /\ asked' = asked \ {u} /\ due' = due \ {u}

\* cancelDeletion; the rows it updates are gone where the user is.
Undelete(r) ==
    /\ pc[r] = "undelete"
    /\ LET u == loc[r].who IN
       IF u \in Present
       THEN /\ TakenBack(u)
            /\ late' = IF u \in due THEN late \cup {u} ELSE late
       ELSE UNCHANGED <<asked, due, status, late>>
    /\ Return(r)
    /\ UNCHANGED <<admins, lost, purging, unguarded>>

Due_Asked == asked  \* mutant: the deadline is not compared

Due == due

\* purgeDueDeletions: the drafts in one statement, the users in another.
PurgeDrafts ==
    /\ ~purging /\ purging' = TRUE
    /\ lost' = lost \cup Due
    /\ UNCHANGED <<admins, status, asked, due, pc, loc, unguarded, late>>

PurgeUsers ==
    /\ purging /\ purging' = FALSE
    /\ status' = [u \in People |-> IF u \in Due THEN "gone" ELSE status[u]]
    /\ lost' = lost \ Due
    /\ admins' = admins \ Due /\ asked' = asked \ Due /\ due' = {}
    /\ unguarded' = (unguarded \/ admins \cap Due # {})
    /\ late' = late \ Due
    /\ UNCHANGED <<pc, loc>>

-----------------------------------------------------------------------------
Next ==
    \/ PurgeDrafts \/ PurgeUsers
    \/ \E u \in People :
          \/ RequestDeletion(u) \/ Deadline(u) \/ PlatformDelete(u)
          \/ \E c \in Changes : Raise(u, c) \/ PlatformUpdate(u, c)
          \/ \E r \in Requests : BeginCancel(r, u) \/ \E c \in Lessens : BeginUpdate(r, u, c)
    \/ \E r \in Requests : CountOthers(r) \/ Update(r) \/ Undelete(r)

Spec == Init /\ [][Next]_memberVars

-----------------------------------------------------------------------------
(* Properties *)

TypeOK ==
    /\ admins \subseteq People /\ asked \subseteq People /\ due \subseteq asked
    /\ status \in [People -> {"active", "suspended", "deactivated", "gone"}]
    /\ pc \in [Requests -> {"idle", "count", "update", "undelete"}]
    /\ loc \in [Requests -> [who : People \cup {Nobody}, what : Lessens \cup {"none"}]]
    /\ {purging, unguarded} \subseteq BOOLEAN
    /\ lost \subseteq People /\ late \subseteq People

\* "every firm must keep at least one active Firm Admin at all times".
AdminAlways == admins \cap Active # {}

\* The firm keeps an admin through every change of roles and statuses, unless
\* two were checked together, or an admin asked to be erased or had asked earlier,
\* which looks at nobody else.
AdminRemains == AdminAlways \/ unguarded

\* Whoever took their erasure back has everything again, unless it was checked
\* before the deadline, written after it, and the purge came in between.
TakenBackIsWhole ==
    lost \cap Present \subseteq asked \cup late

=============================================================================
