------------------------------ MODULE Hearings ------------------------------
(***************************************************************************)
(* The next hearing date of one matter and its hearing rows.  The date is  *)
(* written by three parties: whoever edits the matter, the recompute that  *)
(* follows every change of a hearing (hearings.service.ts), and the        *)
(* eCourts sync (case-sync.service.ts).  Every read of a list of hearings  *)
(* turns the date into a row if there is none.  Each statement is a step.  *)
(* A hearing may be moved to another matter of the firm and back.  One of  *)
(* a past day is as one without a date: no statement tells them apart.     *)
(***************************************************************************)
EXTENDS Naturals, FiniteSetsExt

CONSTANTS
    Handlers, \* requests and syncs that may run at the same time
    Ids,      \* hearings of the firm; one that is gone gives its id to a new one
    Nil,      \* no hearing
    MaxDay    \* the days there are

Days == 1 .. MaxDay
NoDate == 0
Disposed == MaxDay + 1
Elsewhere == MaxDay + 1
Deleted == MaxDay + 2

VARIABLES
    today,  \* current_date
    next,   \* cases.next_hearing
    live,   \* the matter's status is Active or Pending
    rows,   \* the day of each hearing of the matter, NoDate if it is past;
            \* the others are Elsewhere or Deleted
    pc, loc,
    by,     \* history: who wrote the date last
    told,   \* history: if it was a sync, its next date
    gone,   \* history: days whose last hearing was deleted or moved away
    owed    \* history: a hearing changed, and no recompute followed or will

hearingVars == <<today, next, live, rows, pc, loc, told, by, gone, owed>>

Dates == Days \cup {NoDate}
Open == {d \in Dates : d = NoDate \/ d >= today}
Answers == Dates \cup {Disposed}  \* of eCourts: its next date, none, or disposed
NoWork == [date |-> NoDate, live |-> TRUE, touched |-> FALSE, hearing |-> Nil, ours |-> FALSE]

TypeOK ==
    /\ today \in Days /\ next \in Dates /\ live \in BOOLEAN
    /\ rows \in [Ids -> Dates \cup {Elsewhere, Deleted}]
    /\ pc \in [Handlers -> {"idle", "update", "recompute", "ask"}]
    /\ loc \in [Handlers -> [date : Dates, live : BOOLEAN, touched : BOOLEAN,
                             hearing : Ids \cup {Nil}, ours : BOOLEAN]]
    /\ told \in Dates /\ by \in {"hearing", "court", "other"}
    /\ gone \subseteq Days /\ owed \in BOOLEAN

\* A matter saved with a date or without.
Init ==
    /\ today = 1 /\ next \in Dates /\ live = TRUE
    /\ rows = [i \in Ids |-> Elsewhere]
    /\ pc = [h \in Handlers |-> "idle"] /\ loc = [h \in Handlers |-> NoWork]
    /\ told = NoDate /\ by = "other" /\ gone = {} /\ owed = FALSE

-----------------------------------------------------------------------------
(* Helpers *)

Ours(i) == rows[i] \in Dates
Held(i) == \E h \in Handlers : loc[h].hearing = i
Free(i) == ~Ours(i) /\ ~Held(i)

Listed(f) == Days \cap {f[i] : i \in Ids}
Upcoming == {d \in Listed(rows) : d >= today}
Earliest == IF Upcoming = {} THEN NoDate ELSE Min(Upcoming)

\* The syncs that have read the date before it was written.
Overtaken == [h \in Handlers |-> IF pc[h] = "ask"
                                 THEN [loc[h] EXCEPT !.touched = TRUE] ELSE loc[h]]

Wrote(who, date) == by' = who /\ told' = date

End(h) == pc' = [pc EXCEPT ![h] = "idle"] /\ loc' = [loc EXCEPT ![h] = NoWork]

-----------------------------------------------------------------------------
(* The advocate *)

\* The date typed into the matter: coalesce(patch.next, next_hearing).
TypeNext(d) ==
    /\ next' = d /\ Wrote("other", NoDate) /\ owed' = FALSE
    /\ gone' = gone \ {d}
    /\ loc' = Overtaken
    /\ UNCHANGED <<today, live, rows, pc>>

\* Or its status.
TypeStatus(b) ==
    /\ live' = b
    /\ UNCHANGED <<today, next, rows, pc, loc, told, by, gone, owed>>

\* The statement of create, update and remove that changes the hearing.
ChangeRow(i, p) ==
    /\ rows' = [rows EXCEPT ![i] = p]
    /\ gone' = (gone \cup Listed(rows)) \ Listed(rows')
    /\ UNCHANGED <<today, next, live, told, by>>

CreateHearing(h, i, d) ==
    /\ pc[h] = "idle" /\ Free(i)
    /\ ChangeRow(i, d)
    /\ pc' = [pc EXCEPT ![h] = "recompute"]
    /\ UNCHANGED <<loc, owed>>

\* The row that was deleted says which matter it was of.
RemoveHearing(h, i) ==
    /\ pc[h] = "idle" /\ Ours(i)
    /\ ChangeRow(i, Deleted)
    /\ pc' = [pc EXCEPT ![h] = "recompute"]
    /\ UNCHANGED <<loc, owed>>

\* update reads which matter the hearing is of, in a statement of its own.
BeginUpdate(h, i) ==
    /\ pc[h] = "idle" /\ rows[i] # Deleted
    /\ pc' = [pc EXCEPT ![h] = "update"]
    /\ loc' = [loc EXCEPT ![h] = [NoWork EXCEPT !.hearing = i, !.ours = Ours(i)]]
    /\ UNCHANGED <<today, next, live, rows, told, by, gone, owed>>

\* The row is written by id, and the date recomputed of the matter it is in now
\* and of the one that was read: not of one that another update brought it to
\* in between.  A hearing that is deleted by now is not found.
Update(h, p) ==
    LET i == loc[h].hearing IN
    /\ pc[h] = "update"
    /\ \/ /\ rows[i] = Deleted
          /\ End(h)
          /\ UNCHANGED <<today, next, live, rows, told, by, gone, owed>>
       \/ /\ rows[i] # Deleted
          /\ ChangeRow(i, p)
          /\ IF p # Elsewhere \/ loc[h].ours
             THEN /\ pc' = [pc EXCEPT ![h] = "recompute"] /\ loc' = [loc EXCEPT ![h] = NoWork]
                  /\ UNCHANGED owed
             ELSE End(h) /\ owed' = (owed \/ Ours(i))

Recomputed_Kept == IF Upcoming = {} THEN next ELSE Min(Upcoming)  \* mutant: no row, no change
Recomputed == Earliest

\* syncCaseNextHearing
Recompute(h) ==
    /\ pc[h] = "recompute"
    /\ next' = Recomputed /\ Wrote("hearing", NoDate) /\ owed' = FALSE
    /\ pc' = [pc EXCEPT ![h] = "idle"]
    /\ loc' = Overtaken
    /\ UNCHANGED <<today, live, rows, gone>>

\* materializeCaseHearings, after a matter is saved, after a sync and before
\* every list of hearings (a throttled call does nothing).
Materialise(i) ==
    /\ live /\ next # NoDate /\ next >= today
    /\ next \notin Listed(rows) /\ Free(i)
    /\ rows' = [rows EXCEPT ![i] = next]
    /\ gone' = gone \ {next}
    /\ UNCHANGED <<today, next, live, pc, loc, told, by, owed>>

-----------------------------------------------------------------------------
(* The eCourts sync *)

BeginSync(h) ==
    /\ pc[h] = "idle"
    /\ loc' = [loc EXCEPT ![h] = [NoWork EXCEPT !.date = next, !.live = live]]
    /\ pc' = [pc EXCEPT ![h] = "ask"]
    /\ UNCHANGED <<today, next, live, rows, told, by, gone, owed>>

\* No record, eCourts down, or the process dies.
SyncFails(h) ==
    /\ pc[h] = "ask"
    /\ End(h)
    /\ UNCHANGED <<today, next, live, rows, told, by, gone, owed>>

DateOf(a) == IF a = Disposed THEN NoDate ELSE a

\* buildCasePatch compares with the row read before the call; an unchanged
\* field is not written.
Patched_Wiped(a, read) == IF a = read THEN NoDate ELSE DateOf(a)  \* mutant: unchanged is written as null
Patched(a, read) == IF a = read THEN next ELSE DateOf(a)

\* The answer, which may be anything, and the transaction: the matter, then its
\* hearings en bloc, by what id each gets.  They are the next date and the court's
\* history: of hearings that were held, but one of today is not left out.  Of
\* several statuses that are live, or are not, one may replace another.
Commit(h, a, court) ==
    /\ pc[h] = "ask"
    /\ \A i \in Ids : court[i] # NoDate => ~Held(i)
    /\ DateOf(a) \in Open => DateOf(a) \in Listed(court) \cup {NoDate}
    /\ next' = Patched(a, loc[h].date)
    /\ live' \in {a # Disposed} \cup IF loc[h].live = (a # Disposed) THEN {live} ELSE {}
    /\ rows' = [i \in Ids |-> IF court[i] # NoDate THEN court[i]
                              ELSE IF Ours(i) THEN Deleted ELSE rows[i]]
    /\ IF loc[h].touched THEN Wrote("other", NoDate) ELSE Wrote("court", DateOf(a))
    /\ owed' = (owed /\ loc[h].touched)
    /\ gone' = gone \ Listed(court)
    /\ pc' = [pc EXCEPT ![h] = "idle"]
    /\ loc' = [Overtaken EXCEPT ![h] = NoWork]
    /\ UNCHANGED today

-----------------------------------------------------------------------------
(* The world *)

Tick ==
    /\ today < MaxDay
    /\ today' = today + 1
    /\ rows' = [i \in Ids |-> IF rows[i] = today THEN NoDate ELSE rows[i]]
    /\ gone' = gone \ {today}
    /\ UNCHANGED <<next, live, pc, loc, told, by, owed>>

\* The process dies before it has changed a hearing, or before the recompute.
Crash(h) ==
    /\ pc[h] \in {"update", "recompute"}
    /\ End(h)
    /\ owed' = (owed \/ pc[h] = "recompute")
    /\ UNCHANGED <<today, next, live, rows, told, by, gone>>

Next ==
    \/ Tick
    \/ \E i \in Ids : Materialise(i)
    \/ \E d \in Days : TypeNext(d)
    \/ \E b \in BOOLEAN : TypeStatus(b)
    \/ \E h \in Handlers :
          \/ Recompute(h) \/ BeginSync(h) \/ SyncFails(h) \/ Crash(h)
          \/ \E a \in Answers : \E court \in [Ids -> Open \cap {NoDate, today, DateOf(a)}] : Commit(h, a, court)
          \/ \E i \in Ids : RemoveHearing(h, i) \/ BeginUpdate(h, i) \/ \E d \in Open : CreateHearing(h, i, d)
          \/ \E p \in Open \cup {Elsewhere} : Update(h, p)

Spec == Init /\ [][Next]_hearingVars

-----------------------------------------------------------------------------
Pending == \E h \in Handlers : pc[h] = "recompute"

\* However handlers overlap, once the last recompute is done the matter
\* announces its earliest hearing still to come, as long as the date announced
\* has not passed; and after a sync that nobody's write overtook it announces
\* what the court said, shows that hearing and none on a later day than today but
\* that (today's may be the court's history).  Not so where a recompute is owed: its
\* process died, or a hearing that came from another matter was moved away again
\* by an update that had found it there.
NextHearingIsRight ==
    ~Pending /\ ~owed =>
        /\ by = "hearing" /\ (next = NoDate \/ next >= today) => next = Earliest
        /\ by = "court" =>
              /\ next = told
              /\ next # NoDate /\ next >= today => next \in Upcoming
              /\ \A d \in Upcoming : d > today => d = next

\* "Deleting the row recomputes next_hearing (syncCaseNextHearing), so it
\* doesn't come back", unless a list is read between the two statements or the
\* second one is owed.
RemovedStaysRemoved ==
    [][(\E i \in Ids : Materialise(i)) /\ next \in gone => Pending \/ owed]_hearingVars

=============================================================================
