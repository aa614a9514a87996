-------------------------------- MODULE AiQuota --------------------------------
(***************************************************************************)
(* The monthly cap on the AI generations of one user (ai-quota.service.ts) *)
(* and the renewal date of the firm's plan that its cycle is counted back  *)
(* from.  A month begins on the day the plan renews: it has a first day    *)
(* and the others, which is all that requireActivePlan can tell apart.     *)
(***************************************************************************)
EXTENDS Naturals, FiniteSets

CONSTANTS
    Drafts,      \* generations that can run at the same time
    monthly_cap, \* plan_ai_caps
    Terms,       \* what a payment buys, in months: 1 and 12 in the code
    NoRenewal,   \* renews_at is null
    MaxMonths,   \* bound: the clock
    MaxMade      \* bound: rows of one month

Months == 0 .. MaxMonths
Dates == {m + n : m \in Months, n \in Terms}

VARIABLES
    month, firstDay, \* today
    renewsAt,        \* firms.renews_at, the first day of that month
    made,            \* how many rows ai_generations has of each month
    pc,
    miscounted       \* history: months in which the cap was checked on other rows

quotaVars == <<month, firstDay, renewsAt, made, pc, miscounted>>

-----------------------------------------------------------------------------
Init ==
    /\ month = 0 /\ firstDay \in BOOLEAN
    /\ renewsAt \in {NoRenewal} \cup Terms
    /\ made = [k \in Months |-> 0]
    /\ pc = [d \in Drafts |-> "idle"]
    /\ miscounted = {}

\* status: the month before the renewal, or the calendar's.
Cycle == IF renewsAt = NoRenewal THEN month ELSE renewsAt - 1
used == IF Cycle \in Months THEN made[Cycle] ELSE 0

\* evaluatePlanState: renews_at before the day that it is.
Lapsed ==
    /\ renewsAt # NoRenewal
    /\ renewsAt < month \/ (renewsAt = month /\ ~firstDay)

MayGenerate_AtCap == used <= monthly_cap  \* mutant: one more than the cap

\* assertCanGenerate
MayGenerate == used < monthly_cap

Generate(d) ==
    /\ pc[d] = "idle" /\ ~Lapsed
    /\ MayGenerate
    /\ pc' = [pc EXCEPT ![d] = "generate"]
    /\ miscounted' = IF Cycle = month THEN miscounted ELSE miscounted \cup {month}
    /\ UNCHANGED <<month, firstDay, renewsAt, made>>

\* record
Record(d) ==
    /\ pc[d] = "generate" /\ made[month] < MaxMade
    /\ made' = [made EXCEPT ![month] = @ + 1]
    /\ pc' = [pc EXCEPT ![d] = "idle"]
    /\ UNCHANGED <<month, firstDay, renewsAt, miscounted>>

\* The model failed, or the record did, which the route only logs.
NotRecorded(d) ==
    /\ pc[d] = "generate"
    /\ pc' = [pc EXCEPT ![d] = "idle"]
    /\ UNCHANGED <<month, firstDay, renewsAt, made, miscounted>>

\* subscription.active, .renewed or .plan_changed, some time after the payment.
Renewed(n) ==
    /\ renewsAt' = month + n
    /\ UNCHANGED <<month, firstDay, made, pc, miscounted>>

NextDay ==
    /\ IF firstDay
       THEN firstDay' = FALSE /\ UNCHANGED month
       ELSE firstDay' = TRUE /\ month < MaxMonths /\ month' = month + 1
    /\ UNCHANGED <<renewsAt, made, pc, miscounted>>

Next ==
    \/ NextDay
    \/ \E n \in Terms : Renewed(n)
    \/ \E d \in Drafts : Generate(d) \/ Record(d) \/ NotRecorded(d)

Spec == Init /\ [][Next]_quotaVars

-----------------------------------------------------------------------------
(* Properties *)

TypeOK ==
    /\ month \in Months /\ firstDay \in BOOLEAN
    /\ renewsAt \in {NoRenewal} \cup Dates
    /\ made \in [Months -> 0 .. MaxMade]
    /\ pc \in [Drafts -> {"idle", "generate"}]
    /\ miscounted \subseteq Months

\* The cap is compared minutes before the generation is recorded, so those that
\* run at the same time may go over it, by all but one of them and never more,
\* however plans are renewed.  That is in the months whose own rows were
\* counted: not so where a renewal is more than a month off (every annual plan),
\* nor on the day of a renewal that is not recorded yet.
CapKept ==
    \A k \in Months \ miscounted : made[k] < monthly_cap + Cardinality(Drafts)

\* "Enforces a per-user monthly cap anchored to the firm's billing cycle".
MonthlyCapHeld ==
    \A k \in Months : made[k] < monthly_cap + Cardinality(Drafts)

=============================================================================
