------------------------------- MODULE Billing -------------------------------
(***************************************************************************)
(* One firm's plan as the payment provider reports it (handleWebhook of    *)
(* billing.service.ts).  The provider numbers its events; it delivers each *)
(* until it is answered, perhaps more than once and not always in order,   *)
(* and deliveries can be handled at the same time.                         *)
(***************************************************************************)
EXTENDS Naturals, Sequences, FiniteSets, FiniteSetsExt

CONSTANTS
    Subs,      \* subscriptions that checkouts may lead to, each of another product
    Solo,      \* those of the Solo plan
    NoSub,
    Hooks,     \* deliveries that can be handled at the same time
    MaxEvents, \* bound: events of the provider
    MaxFaults  \* bound: handlers that die or are refused by the database

VARIABLES
    freePlan, \* FREE_PLAN_ENDS_AT is not over
    open,     \* checkouts that were opened
    events,   \* the provider's: the event's number is its webhook-id
    firm,     \* plan_status, dodo_subscription_id, and the event renews_at is from
    logged,   \* billing_events with a webhook_id
    pc, event, \* each handler, and the event it was given
    applied,  \* history: events that were considered, with or without effect
    again,    \* history: events considered a second time
    excused,  \* history: events that met a fault or were handled twice at once
    disorder, \* history: events of one subscription were not considered in order,
              \* or another subscription took over between the read and the update
    faults

billVars == <<freePlan, open, events, firm, logged, pc, event,
              applied, again, excused, disorder, faults>>

-----------------------------------------------------------------------------
Types == {"active", "on_hold", "cancelled", "expired", "failed"}
Numbers == DOMAIN events
OfSub(s, types) == {n \in Numbers : events[n].sub = s /\ events[n].type \in types}

Init ==
    /\ freePlan \in BOOLEAN
    /\ open = {} /\ events = << >>
    /\ firm = [status |-> "trial", sub |-> NoSub, renewsAt |-> 0]
    /\ logged = {}
    /\ pc = [h \in Hooks |-> "idle"] /\ event = [h \in Hooks |-> 0]
    /\ applied = {} /\ again = {} /\ excused = {} /\ disorder = FALSE /\ faults = 0

-----------------------------------------------------------------------------
(* The firm and the provider *)

\* startCheckout refuses the plan that the firm is on.
Checkout(s) ==
    /\ s \notin open /\ ~(firm.sub = s /\ firm.status = "active")
    /\ open' = open \cup {s}
    /\ UNCHANGED <<freePlan, events, firm, logged, pc, event,
                   applied, again, excused, disorder, faults>>

\* The life of a subscription.  "active" stands for renewed, plan_changed and
\* unpaused too, "on_hold" for past_due, which the handler treats alike.
Comes(s, type) ==
    LET last == IF OfSub(s, Types) = {} THEN "none" ELSE events[Max(OfSub(s, Types))].type
    IN  CASE last \in {"none", "failed"} -> type \in {"active", "failed"}
          [] last \in {"active", "on_hold"} -> type # "failed"
          [] last = "cancelled" -> type = "expired"
          [] OTHER -> FALSE

Emit(s, type) ==
    /\ s \in open /\ Len(events) < MaxEvents /\ Comes(s, type)
    /\ events' = Append(events, [sub |-> s, type |-> type])
    /\ UNCHANGED <<freePlan, open, firm, logged, pc, event,
                   applied, again, excused, disorder, faults>>

-----------------------------------------------------------------------------
(* handleWebhook *)

Goto(h, l) == pc' = [pc EXCEPT ![h] = l] /\ UNCHANGED event
Return(h) == pc' = [pc EXCEPT ![h] = "idle"] /\ event' = [event EXCEPT ![h] = 0]

FirstStep(type) ==
    CASE type = "active" -> "update" [] type = "failed" -> "log" [] OTHER -> "read"

Seen_Never(n) == FALSE  \* mutant: a redelivery is not recognised

\* Redelivery of an event we already handled.
Seen(n) == n \in logged

Deliver(h, n) ==
    /\ pc[h] = "idle" /\ n \in Numbers
    /\ IF Seen(n)
       THEN UNCHANGED <<pc, event, excused>>
       ELSE /\ pc' = [pc EXCEPT ![h] = FirstStep(events[n].type)]
            /\ event' = [event EXCEPT ![h] = n]
            /\ excused' = IF \E g \in Hooks : event[g] = n THEN excused \cup {n} ELSE excused
    /\ UNCHANGED <<freePlan, open, events, firm, logged, applied, again, disorder, faults>>

\* Events of its subscription that come before and are not done, or after and are.
OutOfOrder(n) ==
    \E m \in OfSub(events[n].sub, Types \ {"failed"}) :
        (m < n /\ m \notin applied) \/ (m > n /\ m \in applied)

Consider(n) ==
    /\ applied' = applied \cup {n}
    /\ again' = IF n \in applied THEN again \cup {n} ELSE again

SameSubscription_Any(n) == TRUE  \* mutant: an old subscription is not told apart

SameSubscription(n) == firm.sub = events[n].sub

ReadSubscription(h) ==
    /\ pc[h] = "read"
    /\ disorder' = (disorder \/ OutOfOrder(event[h]))
    /\ IF SameSubscription(event[h])
       THEN Goto(h, "update") /\ UNCHANGED <<applied, again>>
       ELSE Goto(h, "log") /\ Consider(event[h])
    /\ UNCHANGED <<freePlan, open, events, firm, logged, excused, faults>>

Updated(n) ==
    LET s == events[n].sub
        type == events[n].type
    IN  CASE type = "active" -> [status |-> "active", sub |-> s, renewsAt |-> n]
          [] type = "on_hold" -> [firm EXCEPT !.status = "past_due"]
          [] type = "cancelled" -> [firm EXCEPT !.renewsAt = n]
          [] type = "expired" /\ s \in Solo /\ freePlan ->
                 [status |-> "trial", sub |-> NoSub, renewsAt |-> 0]
          [] OTHER -> [firm EXCEPT !.status = "cancelled"]

\* Another handler has read which subscription it is, and not yet updated.
MidUpdate(h) ==
    \E g \in Hooks \ {h} : pc[g] = "update" /\ events[event[g]].type # "active"

UpdateFirm(h) ==
    /\ pc[h] = "update"
    /\ LET n == event[h] IN
       /\ firm' = Updated(n)
       /\ Consider(n)
       /\ disorder' = (disorder \/ OutOfOrder(n)
                         \/ (firm'.sub # firm.sub /\ MidUpdate(h)))
    /\ Goto(h, "log")
    /\ UNCHANGED <<freePlan, open, events, logged, excused, faults>>

\* webhook_id is unique: the second insert fails, and with it the request.
LogEvent(h) ==
    /\ pc[h] = "log"
    /\ logged' = logged \cup {event[h]}
    /\ Return(h)
    /\ UNCHANGED <<freePlan, open, events, firm, applied, again, excused, disorder, faults>>

\* The provider is answered 500 or nothing, and will deliver again.
Fail(h) ==
    /\ pc[h] # "idle" /\ faults < MaxFaults
    /\ faults' = faults + 1
    /\ excused' = excused \cup {event[h]}
    /\ Return(h)
    /\ UNCHANGED <<freePlan, open, events, firm, logged, applied, again, disorder>>

Next ==
    \/ \E s \in Subs : Checkout(s) \/ \E type \in Types : Emit(s, type)
    \/ \E h \in Hooks :
          \/ \E n \in 1 .. MaxEvents : Deliver(h, n)
          \/ ReadSubscription(h) \/ UpdateFirm(h) \/ LogEvent(h) \/ Fail(h)

Spec == Init /\ [][Next]_billVars

-----------------------------------------------------------------------------
(* Properties *)

TypeOK ==
    /\ freePlan \in BOOLEAN /\ open \subseteq Subs
    /\ Len(events) <= MaxEvents
    /\ \A n \in Numbers : events[n] \in [sub : Subs, type : Types]
    /\ firm \in [status : {"trial", "active", "past_due", "cancelled"},
                 sub : Subs \cup {NoSub}, renewsAt : 0 .. MaxEvents]
    /\ logged \subseteq Numbers /\ again \subseteq applied /\ applied \subseteq Numbers
    /\ pc \in [Hooks -> {"idle", "read", "update", "log"}]
    /\ event \in [Hooks -> Numbers \cup {0}]

\* "Redelivery of an event we already handled: stop here": an event takes
\* effect once, unless its handler failed before it was logged, or it was
\* delivered again while the first delivery was being handled.
AppliedOnce == again \subseteq excused

\* When every event has been dealt with, the firm has the status and the
\* renewal date that the events of its own subscription ended in, however they
\* were mixed with those of another subscription.  This takes that each
\* subscription's own events are considered in order: the handler compares no
\* dates, so a renewal and a hold that are swapped leave the wrong one standing.
SettledIsTrue ==
    LET last == Max(OfSub(firm.sub, {"active", "on_hold", "expired"}))
    IN  logged = Numbers /\ (\A h \in Hooks : pc[h] = "idle") /\ ~disorder /\ firm.sub # NoSub
        => /\ firm.renewsAt = Max(OfSub(firm.sub, {"active", "cancelled"}))
           /\ firm.status = CASE events[last].type = "active" -> "active"
                              [] events[last].type = "on_hold" -> "past_due"
                              [] OTHER -> "cancelled"

=============================================================================
