---------------------------- MODULE Subscriptions ----------------------------
(***************************************************************************)
(* The access of one organization: SubscriptionsService, its document in   *)
(* `organization_subscriptions` and its record of the Stripe events it has *)
(* processed.                                                              *)
(*                                                                         *)
(* Stripe is external: it holds the subscriptions and reports every change *)
(* by an event that carries a snapshot.  Events are delivered at least     *)
(* once, in any order, until a delivery is answered without an error.  A   *)
(* handler (a webhook or a call of a user) reads, and some awaits later    *)
(* writes, the organization's only document.  Customers, prices and the    *)
(* ops alert are left out; the add-ons are the number of seats.            *)
(***************************************************************************)
EXTENDS Naturals, Sequences

CONSTANTS
  Handlers,             (* calls and webhooks in flight                     *)
  Subs,                 (* Stripe subscriptions, used and not yet used      *)
  NoSub,                (* `stripeSubscriptionId` is undefined              *)
  TrialDays,            (* STRIPE_TRIAL_DAYS                                *)
  PeriodDays,           (* the days a payment buys                          *)
  MaxTrialExtensions,   (* MAX_TRIAL_EXTENSIONS                             *)
  Serial,               (* TRUE: handlers do not overlap, none fails, and   *)
                        (* events come in their order                       *)
  MaxDay, MaxSeats, MaxEvents, MaxFailures, MaxStaff  (* bounds             *)

ASSUME SubscriptionsAssumption ==
  /\ NoSub \notin Subs
  /\ TrialDays \in Nat \ {0}
  /\ PeriodDays \in Nat \ {0}
  /\ MaxTrialExtensions \in Nat
  /\ Serial \in BOOLEAN
  /\ {MaxDay, MaxSeats, MaxEvents, MaxFailures, MaxStaff} \subseteq Nat

VARIABLES
  today,           (* the day; 0 stands for an undefined date               *)
  billingOpen,     (* isStripeCheckoutConfigured()                          *)
  offer,           (* Stripe: the checkout session of a subscription        *)
  stripe,          (* Stripe: the subscriptions                             *)
  events,          (* Stripe: the events emitted                            *)
  doc,             (* organization_subscriptions: the document              *)
  processed,       (* processed_stripe_events                               *)
  pc,              (* handlers: the await a handler is at                   *)
  event,           (* handlers: the event it handles, 0 for a user's call   *)
  snapshot,        (* handlers: the subscription as Stripe reported it      *)
  known,           (* handlers: the trialEndsAt it has read                 *)
  selfExtensions,  (* trial extensions granted to the organization's users  *)
  staffExtensions, (* trial extensions granted by the staff                 *)
  failures         (* handlers that failed so far                           *)

stripeVars == <<offer, stripe, events>>
locals     == <<event, snapshot, known>>
counters   == <<selfExtensions, staffExtensions, failures>>
vars == <<today, billingOpen, stripeVars, doc, processed, pc, locals, counters>>

(* What Stripe reports of a checkout that is not paid yet ("incomplete") is *)
(* left out: it gives neither access nor an active subscription.           *)
Statuses == {"none", "trialing", "active", "past_due", "unpaid", "canceled"}
View     == [sub: Subs \cup {NoSub}, status: Statuses, trialEnd: Nat,
             periodEnd: Nat, seats: Nat]
Nothing  == [sub |-> NoSub, status |-> "none", trialEnd |-> 0,
             periodEnd |-> 0, seats |-> 0]
Steps    == {"idle", "fetch", "persist", "delete", "record", "startTrial",
             "extendTrial", "staffExtend", "addons"}

TypeOK ==
  /\ today \in Nat \ {0}
  /\ billingOpen \in BOOLEAN
  /\ offer \in [Subs -> {"none", "trial", "paid", "used"}]
  /\ stripe \in [Subs -> View]
  /\ events \in Seq([kind: {"checkout", "upsert", "deleted"}, of: View])
  /\ doc \in [view: View, extensions: Nat]
  /\ processed \subseteq 1..Len(events)
  /\ pc \in [Handlers -> Steps]
  /\ event \in [Handlers -> 0..Len(events)]
  /\ snapshot \in [Handlers -> View]
  /\ known \in [Handlers -> Nat]
  /\ {selfExtensions, staffExtensions, failures} \subseteq Nat

Init ==
  /\ today = 1
  /\ billingOpen = FALSE
  /\ offer = [s \in Subs |-> "none"]
  /\ stripe = [s \in Subs |-> Nothing]
  /\ events = << >>
  /\ doc = [view |-> Nothing, extensions |-> 0]
  /\ processed = {}
  /\ pc = [h \in Handlers |-> "idle"]
  /\ event = [h \in Handlers |-> 0]
  /\ snapshot = [h \in Handlers |-> Nothing]
  /\ known = [h \in Handlers |-> 0]
  /\ selfExtensions = 0
  /\ staffExtensions = 0
  /\ failures = 0

-----------------------------------------------------------------------------
(* Vocabulary of the operations.                                           *)

(* hasActiveBaseSubscription *)
HasActiveBase(v) ==
  /\ v.sub # NoSub
  /\ \/ v.status \in {"trialing", "active", "past_due"}
     \/ v.status = "canceled" /\ v.periodEnd > today

(* computeHasAccess *)
HasAccess(v) ==
  \/ v.status \in {"active", "past_due"}
  \/ v.status = "trialing" /\ (v.trialEnd = 0 \/ v.trialEnd > today)
  \/ v.status = "canceled" /\ v.periodEnd > today

Quiet == \A h \in Handlers : pc[h] = "idle"

Enter(h, p) ==
  /\ pc[h] = "idle"
  /\ Serial => Quiet
  /\ pc' = [pc EXCEPT ![h] = p]

Advance(h, from, to) ==
  /\ pc[h] = from
  /\ pc' = [pc EXCEPT ![h] = to]

Leave(h, from) ==
  /\ Advance(h, from, "idle")
  /\ event' = [event EXCEPT ![h] = 0]
  /\ snapshot' = [snapshot EXCEPT ![h] = Nothing]
  /\ known' = [known EXCEPT ![h] = 0]

(* A date in a $set that is undefined is dropped: the stored one stays.    *)
Kept(date, stored) == IF date = 0 THEN stored ELSE date

-----------------------------------------------------------------------------
(* Stripe, as the service relies on it.                                    *)

Emit(kinds, v) ==
  /\ Len(events) + Len(kinds) <= MaxEvents
  /\ events' = events \o [k \in 1..Len(kinds) |-> [kind |-> kinds[k], of |-> v]]

(* A checkout that the customer completes creates the subscription.        *)
CheckoutDone(s) ==
  LET trial == offer[s] = "trial"
      v == [sub |-> s,
            status |-> IF trial THEN "trialing" ELSE "active",
            trialEnd |-> IF trial THEN today + TrialDays ELSE 0,
            periodEnd |-> today + (IF trial THEN TrialDays ELSE PeriodDays),
            seats |-> 0]
  IN  /\ offer[s] \in {"trial", "paid"}
      /\ offer' = [offer EXCEPT ![s] = "used"]
      /\ stripe' = [stripe EXCEPT ![s] = v]
      /\ Emit(<<"upsert", "checkout">>, v)
      /\ UNCHANGED <<today, billingOpen, doc, processed, pc, locals, counters>>

StripeChange(s, v, kind) ==
  /\ stripe' = [stripe EXCEPT ![s] = v]
  /\ Emit(<<kind>>, v)
  /\ UNCHANGED <<today, billingOpen, offer, doc, processed, pc, locals,
                 counters>>

(* A payment, a failed one, the end of the retries, another number of      *)
(* seats, a cancellation.                                                  *)
Pays(s) ==
  /\ stripe[s].status \in {"trialing", "past_due", "unpaid"}
  /\ StripeChange(s, [stripe[s] EXCEPT !.status = "active",
                                       !.periodEnd = today + PeriodDays],
                  "upsert")

FailsToPay(s) ==
  /\ stripe[s].status = "active"
  /\ StripeChange(s, [stripe[s] EXCEPT !.status = "past_due"], "upsert")

GivesUp(s) ==
  /\ stripe[s].status = "past_due"
  /\ StripeChange(s, [stripe[s] EXCEPT !.status = "unpaid"], "upsert")

ChangesSeats(s, n) ==
  /\ stripe[s].status \in {"trialing", "active"}
  /\ n # stripe[s].seats
  /\ StripeChange(s, [stripe[s] EXCEPT !.seats = n], "upsert")

Cancels(s) ==
  /\ stripe[s].status \in {"trialing", "active", "past_due", "unpaid"}
  /\ StripeChange(s, [stripe[s] EXCEPT !.status = "canceled"], "deleted")

-----------------------------------------------------------------------------
(* Checkout.  createCheckoutSession offers Stripe's trial when it has read *)
(* neither a trial nor an active subscription.                             *)
CreateCheckoutSession(s) ==
  /\ billingOpen
  /\ offer[s] = "none"
  /\ Serial => Quiet
  /\ offer' = [offer EXCEPT ![s] =
                 IF doc.view.trialEnd # 0 \/ HasActiveBase(doc.view)
                 THEN "paid" ELSE "trial"]
  /\ UNCHANGED <<today, billingOpen, stripe, events, doc, processed, pc,
                 locals, counters>>

-----------------------------------------------------------------------------
(* handleStripeWebhook: an event that is not recorded as processed goes to *)
(* its handler.  onCheckoutSessionCompleted first retrieves the            *)
(* subscription.                                                           *)
Oldest(e) == \A d \in 1..(e - 1) : d \in processed

Receive(h, e) ==
  /\ e \notin processed
  /\ Serial => Oldest(e)
  /\ Enter(h, CASE events[e].kind = "checkout" -> "fetch"
                [] events[e].kind = "upsert"   -> "persist"
                [] events[e].kind = "deleted"  -> "delete")
  /\ event' = [event EXCEPT ![h] = e]
  /\ snapshot' = [snapshot EXCEPT ![h] = events[e].of]
  /\ UNCHANGED <<today, billingOpen, stripeVars, doc, processed, known,
                 counters>>

Fetch(h) ==
  /\ Advance(h, "fetch", "persist")
  /\ snapshot' = [snapshot EXCEPT ![h] = stripe[snapshot[h].sub]]
  /\ UNCHANGED <<today, billingOpen, stripeVars, doc, processed, event, known,
                 counters>>

(* persistSubscription writes the snapshot over the document, however old. *)
Mirror(v) ==
  [v EXCEPT !.trialEnd = Kept(v.trialEnd, doc.view.trialEnd),
            !.periodEnd = Kept(v.periodEnd, doc.view.periodEnd)]

PaidAtOnce(v) == [Mirror(v) EXCEPT !.status = "active"]    \* slip of Persisted
Persisted(v)  == Mirror(v)

PersistThenRecord(h) ==                                    \* slip of Persist
  /\ Advance(h, "persist", "record")
  /\ doc' = [doc EXCEPT !.view = Persisted(snapshot[h])]
  /\ UNCHANGED <<today, billingOpen, stripeVars, processed, locals, counters>>
Persist(h) ==
  /\ IF event[h] = 0 THEN Leave(h, "persist")
                     ELSE Advance(h, "persist", "record") /\ UNCHANGED locals
  /\ doc' = [doc EXCEPT !.view = Persisted(snapshot[h])]
  /\ UNCHANGED <<today, billingOpen, stripeVars, processed, counters>>

(* onSubscriptionDeleted writes neither the add-ons nor the customer.      *)
DeletedButKept(v) == doc.view                              \* slip of Deleted
Deleted(v) ==
  [Mirror(v) EXCEPT !.status = "canceled", !.seats = doc.view.seats]

Delete(h) ==
  /\ Advance(h, "delete", "record")
  /\ doc' = [doc EXCEPT !.view = Deleted(snapshot[h])]
  /\ UNCHANGED <<today, billingOpen, stripeVars, processed, locals, counters>>

(* The event is recorded only after its handler; a duplicate key is        *)
(* ignored.                                                                *)
RecordNothing(h) == Leave(h, "record") /\ UNCHANGED processed \* slip of Recorded
Recorded(h)      == Leave(h, "record") /\ processed' = processed \cup {event[h]}

Record(h) ==
  /\ Recorded(h)
  /\ UNCHANGED <<today, billingOpen, stripeVars, doc, counters>>

(* Any handler may fail at an await: the webhook answers 500 and Stripe    *)
(* delivers the event again.                                               *)
Fail(h) ==
  /\ ~Serial
  /\ failures < MaxFailures
  /\ pc[h] # "idle"
  /\ failures' = failures + 1
  /\ Leave(h, pc[h])
  /\ UNCHANGED <<today, billingOpen, stripeVars, doc, processed,
                 selfExtensions, staffExtensions>>

-----------------------------------------------------------------------------
(* Trials.  Each operation reads and checks the document, then writes it.  *)
TrialRead(h, p) ==
  /\ Enter(h, p)
  /\ known' = [known EXCEPT ![h] = doc.view.trialEnd]
  /\ UNCHANGED <<today, billingOpen, stripeVars, doc, processed, event,
                 snapshot, counters>>

StartTrialRead(h) ==
  /\ ~HasActiveBase(doc.view)
  /\ doc.view.status \notin {"active", "past_due"}
  /\ ~(doc.view.status = "trialing" /\ HasAccess(doc.view))
  /\ doc.view.trialEnd = 0
  /\ TrialRead(h, "startTrial")

TrialFrom(day) ==
  [doc.view EXCEPT !.status = "trialing", !.trialEnd = day + TrialDays]

StartTrial(h) ==
  /\ Leave(h, "startTrial")
  /\ doc' = [doc EXCEPT !.view = TrialFrom(today)]
  /\ UNCHANGED <<today, billingOpen, stripeVars, processed, counters>>

CapIsInclusive == doc.extensions <= MaxTrialExtensions     \* slip of UnderCap
UnderCap       == doc.extensions < MaxTrialExtensions

ExtendTrialRead(h) ==
  /\ ~billingOpen
  /\ doc.view.trialEnd # 0
  /\ ~HasActiveBase(doc.view)
  /\ ~HasAccess(doc.view)
  /\ UnderCap
  /\ TrialRead(h, "extendTrial")

ExtendTrial(h) ==
  /\ Leave(h, "extendTrial")
  /\ doc' = [view |-> TrialFrom(today), extensions |-> doc.extensions + 1]
  /\ selfExtensions' = selfExtensions + 1
  /\ UNCHANGED <<today, billingOpen, stripeVars, processed, staffExtensions,
                 failures>>

(* The staff extends from the end of the trial it has read, or from today. *)
AnyoneExtends     == TRUE                              \* slip of StaffMayExtend
StaffMayExtend    == ~HasActiveBase(doc.view)

StaffExtendRead(h) ==
  /\ staffExtensions < MaxStaff
  /\ StaffMayExtend
  /\ TrialRead(h, "staffExtend")

StaffExtend(h) ==
  /\ Leave(h, "staffExtend")
  /\ doc' = [view |-> TrialFrom(IF known[h] > today THEN known[h] ELSE today),
             extensions |-> doc.extensions + 1]
  /\ staffExtensions' = staffExtensions + 1
  /\ UNCHANGED <<today, billingOpen, stripeVars, processed, selfExtensions,
                 failures>>

-----------------------------------------------------------------------------
(* updateSubscriptionAddons changes the subscription at Stripe.  Without a *)
(* page to send the user to it persists what Stripe answered; with one it  *)
(* leaves the document to the webhook.  A change that a payment has to     *)
(* confirm is made by Stripe later (ChangesSeats).                         *)
AddonsRead(h) ==
  /\ HasActiveBase(doc.view)
  /\ Enter(h, "addons")
  /\ snapshot' = [snapshot EXCEPT ![h] = doc.view]
  /\ UNCHANGED <<today, billingOpen, stripeVars, doc, processed, event, known,
                 counters>>

AddonsUpdate(h, n) ==
  LET s == snapshot[h].sub
      v == [stripe[s] EXCEPT !.seats = n]
  IN  /\ pc[h] = "addons"
      /\ stripe[s].status \in {"trialing", "active", "past_due"}
      /\ n # stripe[s].seats
      /\ \/ /\ Advance(h, "addons", "persist")
            /\ snapshot' = [snapshot EXCEPT ![h] = v]
            /\ UNCHANGED <<event, known>>
         \/ Leave(h, "addons")
      /\ stripe' = [stripe EXCEPT ![s] = v]
      /\ Emit(<<"upsert">>, v)
      /\ UNCHANGED <<today, billingOpen, offer, doc, processed, counters>>

(* Stripe refuses, nothing changes, or a payment is due first.             *)
AddonsGiveUp(h) ==
  /\ Leave(h, "addons")
  /\ UNCHANGED <<today, billingOpen, stripeVars, doc, processed, counters>>

-----------------------------------------------------------------------------
NextDay ==
  /\ today < MaxDay
  /\ today' = today + 1
  /\ UNCHANGED <<billingOpen, stripeVars, doc, processed, pc, locals, counters>>

OpenBilling ==
  /\ ~billingOpen
  /\ billingOpen' = TRUE
  /\ UNCHANGED <<today, stripeVars, doc, processed, pc, locals, counters>>

StripeActs ==
  \E s \in Subs : \/ CheckoutDone(s)
                  \/ Pays(s)
                  \/ FailsToPay(s)
                  \/ GivesUp(s)
                  \/ Cancels(s)
                  \/ \E n \in 0..MaxSeats : ChangesSeats(s, n)

UserCalls(h) ==
  \/ StartTrialRead(h)
  \/ ExtendTrialRead(h)
  \/ StaffExtendRead(h)
  \/ AddonsRead(h)

Continue(h) ==
  \/ Fetch(h)
  \/ Persist(h)
  \/ Delete(h)
  \/ Record(h)
  \/ StartTrial(h)
  \/ ExtendTrial(h)
  \/ StaffExtend(h)
  \/ \E n \in 0..MaxSeats : AddonsUpdate(h, n)
  \/ AddonsGiveUp(h)

Deliver(e) == \E h \in Handlers : Receive(h, e)

Next ==
  \/ NextDay
  \/ OpenBilling
  \/ StripeActs
  \/ \E s \in Subs : CreateCheckoutSession(s)
  \/ \E e \in 1..Len(events) : Deliver(e)
  \/ \E h \in Handlers : UserCalls(h) \/ Continue(h) \/ Fail(h)

Spec == Init /\ [][Next]_vars

(* Stripe delivers an event again until it is answered, for days, and Node *)
(* always has room for one more request; a request that runs reaches its   *)
(* next await.                                                             *)
Fairness ==
  /\ \A e \in 1..MaxEvents : SF_vars(e \in 1..Len(events) /\ Deliver(e))
  /\ \A h \in Handlers : WF_vars(Continue(h))

FairSpec == Spec /\ Fairness

-----------------------------------------------------------------------------
(***************************************************************************)
(* Properties that hold however the deliveries overlap, fail or reorder.   *)
(***************************************************************************)

(* The document never invents a paid, unpaid or canceled status: Stripe    *)
(* has reported it, of that very subscription.                             *)
StatusWasReported ==
  doc.view.status \in {"active", "past_due", "unpaid", "canceled"} =>
    \E e \in 1..Len(events) :
      events[e].of.sub = doc.view.sub /\ events[e].of.status = doc.view.status

(* Every event is recorded in the end, whatever handler failed on it.      *)
EveryEventRecorded ==
  \A e \in 1..MaxEvents : e \in 1..Len(events) ~> e \in processed

(* docs/product/journeys/15-abonnement.md: at most two extensions by the   *)
(* organization itself (handlers that do not overlap).                     *)
TrialExtensionsCapped == selfExtensions <= MaxTrialExtensions

(***************************************************************************)
(* Why the statuses are reported ones, and the cap of extensions holds:    *)
(* the invariant that every step preserves.                                *)
(***************************************************************************)

(* An event has reported this status of this subscription.                 *)
Reported(v) ==
  \E e \in 1..Len(events) :
    events[e].of.sub = v.sub /\ events[e].of.status = v.status

(* Stripe has reported every subscription it has as it is, and its events  *)
(* are about such subscriptions.                                           *)
StripeInv ==
  /\ \A s \in Subs : stripe[s].status # "none" =>
       stripe[s].sub = s /\ Reported(stripe[s])
  /\ \A e \in 1..Len(events) :
       /\ events[e].of.sub \in Subs
       /\ stripe[events[e].of.sub].status # "none"
       /\ events[e].kind = "deleted" => events[e].of.status = "canceled"

(* What a handler holds at each await: a snapshot it is about to write may *)
(* be old, but Stripe did report it.                                       *)
HandlerInv(h) ==
  /\ pc[h] \in {"fetch", "addons"} => snapshot[h].sub \in Subs
  /\ pc[h] = "fetch" => stripe[snapshot[h].sub].status # "none"
  /\ pc[h] \in {"persist", "delete"} => Reported(snapshot[h])
  /\ pc[h] = "delete" => snapshot[h].status = "canceled"
  /\ pc[h] \in {"delete", "record"} => event[h] # 0

(* Without overlap no other handler writes the document between the checks *)
(* of a trial operation and its write.                                     *)
SerialInv ==
  /\ selfExtensions <= doc.extensions
  /\ Serial =>
       /\ \A g, h \in Handlers : pc[g] # "idle" /\ pc[h] # "idle" => g = h
       /\ \A h \in Handlers :
            /\ pc[h] = "extendTrial" => doc.extensions < MaxTrialExtensions
            /\ pc[h] \in {"startTrial", "extendTrial", "staffExtend"} =>
                 doc.view.status \notin {"active", "past_due"}
       /\ TrialExtensionsCapped

SubscriptionsInv ==
  /\ TypeOK
  /\ StatusWasReported
  /\ StripeInv
  /\ \A h \in Handlers : HandlerInv(h)
  /\ SerialInv

(***************************************************************************)
(* Properties of handlers that do not overlap, with events in order.       *)
(***************************************************************************)
CaughtUp == Quiet /\ processed = 1..Len(events)

(* Once every event is processed the document says what Stripe says of the *)
(* subscription it names, unless a trial was granted once it had ended or  *)
(* was given up as unpaid.                                                 *)
MirrorsStripe ==
  CaughtUp /\ Len(events) > 0 =>
    LET v == doc.view
    IN  /\ v.sub \in Subs
        /\ \/ v.status = "canceled" /\ stripe[v.sub].status = "canceled"
           \/ v.status = "trialing"  /\ stripe[v.sub].status \in {"unpaid", "canceled"}
           \/ v.status = stripe[v.sub].status /\ v.seats = stripe[v.sub].seats

Paid == {"active", "past_due"}

(* Handler h writes what event e reports: a trial of the subscription that *)
(* the document then names.                                                *)
WritesTrialOf(h, e) ==
  /\ pc[h] = "persist" /\ pc'[h] = "record" /\ event[h] = e
  /\ e \in 1..Len(events) \ processed
  /\ events[e].of.sub = doc'.view.sub
  /\ events[e].of.status = "trialing"

(* An event after e that is still to be processed reports what v says.     *)
ReportToCome(v, e) ==
  \E d \in (e + 1)..Len(events) : /\ d \notin processed
                                  /\ events[d].of.sub = v.sub
                                  /\ events[d].of.status = v.status

(* No trial that the organization or the staff grants replaces a status    *)
(* that is paid.  A webhook that reports a trial does, but either of       *)
(* another subscription, or for a time: the document was ahead of the      *)
(* events, and the one that reports the paid status is still to come.      *)
PaidNotDemoted ==
  [][doc.view.status \in Paid /\ doc'.view.status = "trialing"
     => \E h \in Handlers, e \in 1..Len(events) :
          /\ WritesTrialOf(h, e)
          /\ doc'.view.sub = doc.view.sub => ReportToCome(doc.view, e)]_doc

=============================================================================
