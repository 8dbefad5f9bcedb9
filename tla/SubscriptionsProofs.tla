------------------------- MODULE SubscriptionsProofs -------------------------
(***************************************************************************)
(* SubscriptionsInv is inductive, hence what Subscriptions promises of the *)
(* document's status and of the extensions of a trial holds for any number *)
(* of handlers, subscriptions, days, events and failures.                  *)
(***************************************************************************)
EXTENDS Subscriptions, SequenceTheorems, TLAPS

Kinds == {"checkout", "upsert", "deleted"}
Event == [kind: Kinds, of: View]

(* Stripe changes subscription s to v and reports it; a trial is how a     *)
(* subscription starts.                                                    *)
Changed(s, v, kinds) ==
  /\ v.sub = s
  /\ v.status # "none"
  /\ v.status = "trialing" => stripe[s].status = "trialing" \/ offer[s] # "used"
  /\ Len(kinds) > 0
  /\ \A k \in 1..Len(kinds) : kinds[k] = "deleted" => v.status = "canceled"
  /\ stripe' = [stripe EXCEPT ![s] = v]
  /\ Emit(kinds, v)

(* No event is lost, and no subscription forgotten.                        *)
Grown ==
  /\ Len(events) <= Len(events')
  /\ \A e \in 1..Len(events) : events'[e] = events[e]
  /\ \A s \in Subs : stripe[s].status # "none" => stripe'[s].status # "none"

-----------------------------------------------------------------------------
(* The events emitted follow those there were, and carry the snapshot.     *)
LEMMA EmitFacts ==
  ASSUME events \in Seq(Event), NEW kinds \in Seq(Kinds), NEW v \in View,
         Emit(kinds, v)
  PROVE  /\ events' \in Seq(Event)
         /\ Len(events') = Len(events) + Len(kinds)
         /\ \A e \in 1..Len(events) : events'[e] = events[e]
         /\ \A k \in 1..Len(kinds) :
              events'[Len(events) + k] = [kind |-> kinds[k], of |-> v]
<1> DEFINE new == [k \in 1..Len(kinds) |-> [kind |-> kinds[k], of |-> v]]
<1>1. Len(kinds) \in Nat /\ \A k \in 1..Len(kinds) : kinds[k] \in Kinds
  BY LenProperties, ElementOfSeq
<1>2. \A k \in 1..Len(kinds) : [kind |-> kinds[k], of |-> v] \in Event
  BY <1>1 DEF Event
<1>3. new \in [1..Len(kinds) -> Event]
  BY <1>2
<1>4. new \in Seq(Event) /\ Len(new) = Len(kinds)
  <2> HIDE DEF new
  <2>1. new \in Seq(Event)
    BY <1>1, <1>3, IsASeq
  <2>2. DOMAIN new = 1..Len(kinds)
    BY <1>3
  <2> QED
    BY <1>1, <2>1, <2>2, LenProperties
<1>5. events' = events \o new
  BY DEF Emit
<1>6. \A k \in 1..Len(kinds) : new[k] = [kind |-> kinds[k], of |-> v]
  OBVIOUS
<1> HIDE DEF new
<1>7. /\ events \o new \in Seq(Event)
      /\ Len(events \o new) = Len(events) + Len(new)
      /\ \A i \in 1..(Len(events) + Len(new)) :
           (events \o new)[i] = IF i <= Len(events) THEN events[i]
                                                    ELSE new[i - Len(events)]
  BY <1>4, ConcatProperties
<1>8. Len(events) \in Nat
  BY LenProperties
<1> QED
  BY <1>1, <1>4, <1>5, <1>6, <1>7, <1>8

(* A change that Stripe reports leaves it consistent with its events.      *)
LEMMA ChangedFacts ==
  ASSUME TypeOK, StripeInv,
         NEW s \in Subs, NEW v \in View, NEW kinds \in Seq(Kinds),
         Changed(s, v, kinds)
  PROVE  /\ stripe' \in [Subs -> View]
         /\ events' \in Seq(Event)
         /\ Grown
         /\ StripeInv'
         /\ \E e \in 1..Len(events') : events'[e].of = v
<1>1. events \in Seq(Event) /\ stripe \in [Subs -> View]
  BY DEF TypeOK, Event, Kinds
<1>2. /\ events' \in Seq(Event)
      /\ Len(events') = Len(events) + Len(kinds)
      /\ \A e \in 1..Len(events) : events'[e] = events[e]
      /\ \A k \in 1..Len(kinds) :
           events'[Len(events) + k] = [kind |-> kinds[k], of |-> v]
  BY <1>1, EmitFacts DEF Changed
<1>3. Len(events) \in Nat /\ Len(kinds) \in Nat
  BY <1>1, LenProperties
<1>4. /\ stripe' \in [Subs -> View]
      /\ stripe'[s] = v
      /\ \A x \in Subs \ {s} : stripe'[x] = stripe[x]
  BY <1>1 DEF Changed
<1>5. Grown
  BY <1>2, <1>3, <1>4 DEF Grown, Changed
<1>6. Len(events) + 1 \in 1..Len(events') /\ events'[Len(events) + 1].of = v
  <2>1. 1 \in 1..Len(kinds)
    BY <1>3 DEF Changed
  <2>2. events'[Len(events) + 1] = [kind |-> kinds[1], of |-> v]
    BY <1>2, <2>1
  <2> QED
    BY <1>2, <1>3, <2>1, <2>2
<1>7. ASSUME NEW x \in Subs, stripe'[x].status # "none"
      PROVE  /\ stripe'[x].sub = x
             /\ \E e \in 1..Len(events') :
                  /\ events'[e].of.sub = stripe'[x].sub
                  /\ events'[e].of.status = stripe'[x].status
  <2>1. CASE x = s
    BY <1>4, <1>6, <2>1 DEF Changed
  <2>2. CASE x # s
    <3>1. stripe'[x] = stripe[x] /\ stripe[x].sub = x /\ Reported(stripe[x])
      BY <1>4, <1>7, <2>2 DEF StripeInv
    <3> QED
      BY <1>2, <1>3, <3>1 DEF Reported
  <2> QED
    BY <2>1, <2>2
<1>8. ASSUME NEW e \in 1..Len(events')
      PROVE  /\ events'[e].of.sub \in Subs
             /\ stripe'[events'[e].of.sub].status # "none"
             /\ events'[e].kind = "deleted" => events'[e].of.status = "canceled"
  <2>1. CASE e \in 1..Len(events)
    BY <1>2, <1>5, <2>1 DEF StripeInv, Grown
  <2>2. CASE e \notin 1..Len(events)
    <3>1. /\ e - Len(events) \in 1..Len(kinds)
          /\ e = Len(events) + (e - Len(events))
      BY <1>2, <1>3, <2>2
    <3>2. events'[e] = [kind |-> kinds[e - Len(events)], of |-> v]
      BY <1>2, <3>1
    <3> QED
      BY <1>4, <3>1, <3>2 DEF Changed
  <2> QED
    BY <2>1, <2>2
<1>9. StripeInv'
  BY <1>7, <1>8 DEF StripeInv, Reported
<1> QED
  BY <1>2, <1>4, <1>5, <1>6, <1>9

(* Every step of Stripe is such a change.                                  *)
LEMMA StripeReports ==
  ASSUME TypeOK, StripeInv, StripeActs
  PROVE  /\ \E s \in Subs, v \in View, kinds \in Seq(Kinds) :
              Changed(s, v, kinds)
         /\ offer' \in [Subs -> {"none", "trial", "paid", "used"}]
         /\ UNCHANGED <<today, billingOpen, doc, processed, pc, locals, counters>>
<1> USE DEF TypeOK
<1> DEFINE Goal == /\ \E s \in Subs, v \in View, kinds \in Seq(Kinds) :
                        Changed(s, v, kinds)
                   /\ offer' \in [Subs -> {"none", "trial", "paid", "used"}]
                   /\ UNCHANGED <<today, billingOpen, doc, processed, pc,
                                  locals, counters>>
<1>0. today + TrialDays \in Nat /\ today + PeriodDays \in Nat
  <2>1. today \in Nat /\ TrialDays \in Nat /\ PeriodDays \in Nat
    BY SubscriptionsAssumption
  <2> QED
    BY <2>1
<1>1. PICK s \in Subs : \/ CheckoutDone(s)
                        \/ Pays(s)
                        \/ FailsToPay(s)
                        \/ GivesUp(s)
                        \/ Cancels(s)
                        \/ \E n \in 0..MaxSeats : ChangesSeats(s, n)
  BY DEF StripeActs
<1>2. /\ <<"upsert", "checkout">> \in Seq(Kinds)
      /\ <<"upsert">> \in Seq(Kinds)
      /\ <<"deleted">> \in Seq(Kinds)
  BY DEF Kinds
<1>3. ASSUME NEW v \in View, NEW kind \in {"upsert", "deleted"},
             v.sub = stripe[s].sub, stripe[s].status # "none",
             v.status # "none", kind = "deleted" => v.status = "canceled",
             v.status = "trialing" => stripe[s].status = "trialing",
             StripeChange(s, v, kind)
      PROVE  Goal
  <2>1. <<kind>> \in Seq(Kinds) /\ Len(<<kind>>) = 1 /\ <<kind>>[1] = kind
    BY <1>2
  <2>2. v.sub = s
    BY <1>3 DEF StripeInv
  <2>3. Changed(s, v, <<kind>>)
    BY <1>3, <2>1, <2>2 DEF Changed, StripeChange
  <2> QED
    BY <1>3, <2>1, <2>3 DEF StripeChange
<1>4. CASE CheckoutDone(s)
  <2>1. PICK v \in View :
          /\ v.sub = s
          /\ v.status # "none"
          /\ stripe' = [stripe EXCEPT ![s] = v]
          /\ Emit(<<"upsert", "checkout">>, v)
    <3> DEFINE trial == offer[s] = "trial"
               v == [sub |-> s,
                     status |-> IF trial THEN "trialing" ELSE "active",
                     trialEnd |-> IF trial THEN today + TrialDays ELSE 0,
                     periodEnd |-> today + (IF trial THEN TrialDays
                                                     ELSE PeriodDays),
                     seats |-> 0]
    <3>1. v \in View
      BY <1>0 DEF View, Statuses
    <3>2. v.sub = s /\ v.status # "none"
      OBVIOUS
    <3>3. /\ stripe' = [stripe EXCEPT ![s] = v]
          /\ Emit(<<"upsert", "checkout">>, v)
      BY <1>4 DEF CheckoutDone
    <3> QED
      BY <3>1, <3>2, <3>3
  <2>2. /\ Len(<<"upsert", "checkout">>) = 2
        /\ \A k \in 1..2 : <<"upsert", "checkout">>[k] # "deleted"
    OBVIOUS
  <2>3. offer[s] # "used"
    BY <1>4 DEF CheckoutDone
  <2>4. Changed(s, v, <<"upsert", "checkout">>)
    BY <2>1, <2>2, <2>3 DEF Changed
  <2> QED
    BY <1>2, <1>4, <2>4 DEF CheckoutDone
<1>5. CASE Pays(s)
  <2>1. [stripe[s] EXCEPT !.status = "active", !.periodEnd = today + PeriodDays]
          \in View
    BY <1>0 DEF View, Statuses
  <2> QED
    BY <1>3, <1>5, <2>1 DEF Pays, View
<1>6. ASSUME NEW st \in {"past_due", "unpaid", "canceled"}
      PROVE  /\ [stripe[s] EXCEPT !.status = st] \in View
             /\ [stripe[s] EXCEPT !.status = st].sub = stripe[s].sub
             /\ [stripe[s] EXCEPT !.status = st].status = st
  BY DEF View, Statuses
<1>7. CASE FailsToPay(s)
  BY <1>3, <1>6, <1>7 DEF FailsToPay
<1>8. CASE GivesUp(s)
  BY <1>3, <1>6, <1>8 DEF GivesUp
<1>9. CASE Cancels(s)
  BY <1>3, <1>6, <1>9 DEF Cancels
<1>10. ASSUME NEW n \in 0..MaxSeats, ChangesSeats(s, n)
       PROVE  Goal
  <2>1. n \in Nat
    BY SubscriptionsAssumption
  <2>2. /\ [stripe[s] EXCEPT !.seats = n] \in View
        /\ [stripe[s] EXCEPT !.seats = n].sub = stripe[s].sub
        /\ [stripe[s] EXCEPT !.seats = n].status = stripe[s].status
    BY <2>1 DEF View
  <2> QED
    BY <1>3, <1>10, <2>2 DEF ChangesSeats
<1> QED
  BY <1>1, <1>4, <1>5, <1>7, <1>8, <1>9, <1>10

(* So is a change of the seats that a user asks for.                       *)
LEMMA AddonsReports ==
  ASSUME TypeOK, StripeInv, NEW h \in Handlers, HandlerInv(h),
         NEW n \in 0..MaxSeats, AddonsUpdate(h, n)
  PROVE  \E s \in Subs, v \in View, kinds \in Seq(Kinds) :
           /\ Changed(s, v, kinds)
           /\ \/ /\ Advance(h, "addons", "persist")
                 /\ snapshot' = [snapshot EXCEPT ![h] = v]
                 /\ UNCHANGED <<event, known>>
              \/ Leave(h, "addons")
           /\ UNCHANGED <<today, billingOpen, offer, doc, processed, counters>>
<1> DEFINE s == snapshot[h].sub
           v == [stripe[s] EXCEPT !.seats = n]
<1>1. s \in Subs
  BY DEF AddonsUpdate, HandlerInv
<1>2. stripe[s] \in View /\ stripe[s].status # "none" /\ stripe[s].sub = s
  BY <1>1 DEF AddonsUpdate, StripeInv, TypeOK
<1>3. n \in Nat
  BY SubscriptionsAssumption
<1>4. v \in View /\ v.sub = s /\ v.status = stripe[s].status
  BY <1>2, <1>3 DEF View
<1>5. /\ <<"upsert">> \in Seq(Kinds)
      /\ Len(<<"upsert">>) = 1
      /\ <<"upsert">>[1] = "upsert"
  BY DEF Kinds
<1>6. /\ stripe' = [stripe EXCEPT ![s] = v]
      /\ Emit(<<"upsert">>, v)
  BY DEF AddonsUpdate
<1>7. Changed(s, v, <<"upsert">>)
  BY <1>2, <1>4, <1>5, <1>6 DEF Changed
<1>8. /\ \/ /\ Advance(h, "addons", "persist")
            /\ snapshot' = [snapshot EXCEPT ![h] = v]
            /\ UNCHANGED <<event, known>>
         \/ Leave(h, "addons")
      /\ UNCHANGED <<today, billingOpen, offer, doc, processed, counters>>
  BY DEF AddonsUpdate
<1> HIDE DEF s, v
<1> QED
  BY <1>1, <1>4, <1>5, <1>7, <1>8

(* A handler that ends forgets what it held.                               *)
LEMMA LeaveFacts ==
  ASSUME TypeOK, NEW h \in Handlers, NEW p, Leave(h, p)
  PROVE  /\ pc' \in [Handlers -> Steps]
         /\ event' \in [Handlers -> 0..Len(events)]
         /\ snapshot' \in [Handlers -> View]
         /\ known' \in [Handlers -> Nat]
         /\ pc[h] = p /\ pc'[h] = "idle"
         /\ \A g \in Handlers \ {h} :
              pc'[g] = pc[g] /\ snapshot'[g] = snapshot[g] /\ event'[g] = event[g]
<1>1. Nothing \in View
  BY DEF Nothing, View, Statuses
<1>2. Len(events) \in Nat
  BY LenProperties DEF TypeOK
<1>3. event' \in [Handlers -> 0..Len(events)]
  BY <1>2 DEF Leave, TypeOK
<1>4. snapshot' \in [Handlers -> View]
  BY <1>1 DEF Leave, TypeOK
<1>5. pc' \in [Handlers -> Steps] /\ known' \in [Handlers -> Nat]
  BY DEF Leave, Advance, TypeOK, Steps
<1> QED
  BY <1>3, <1>4, <1>5 DEF Leave, Advance, TypeOK

(* What the handlers write keeps the subscription or names the reported    *)
(* one.                                                                    *)
LEMMA WriteFacts ==
  ASSUME TypeOK, NEW v \in View
  PROVE  /\ Persisted(v) \in View
         /\ Persisted(v).sub = v.sub /\ Persisted(v).status = v.status
         /\ Deleted(v) \in View
         /\ Deleted(v).sub = v.sub /\ Deleted(v).status = "canceled"
         /\ \A d \in Nat : TrialFrom(d) \in View /\ TrialFrom(d).status = "trialing"
<1>1. doc.view \in View
  BY DEF TypeOK
<1>2. \A a, b \in Nat : Kept(a, b) \in Nat
  BY DEF Kept
<1>3. /\ Mirror(v) \in View
      /\ Mirror(v).sub = v.sub /\ Mirror(v).status = v.status
  BY <1>1, <1>2 DEF Mirror, View
<1>4. /\ Deleted(v) \in View
      /\ Deleted(v).sub = v.sub /\ Deleted(v).status = "canceled"
  BY <1>1, <1>3 DEF Deleted, View, Statuses
<1>5. ASSUME NEW d \in Nat
      PROVE  TrialFrom(d) \in View /\ TrialFrom(d).status = "trialing"
  <2>1. d + TrialDays \in Nat
    BY SubscriptionsAssumption
  <2> QED
    BY <1>1, <2>1 DEF TrialFrom, View, Statuses
<1> QED
  BY <1>3, <1>4, <1>5 DEF Persisted

-----------------------------------------------------------------------------
(* The variables keep their types.                                         *)
LEMMA TypeStep ==
  ASSUME TypeOK, StripeInv, \A h \in Handlers : HandlerInv(h), [Next]_vars
  PROVE  TypeOK'
<1>1. events \in Seq(Event) /\ Len(events) \in Nat
  BY LenProperties DEF TypeOK, Event, Kinds
<1>2. ASSUME events' \in Seq(Event), Grown
      PROVE  /\ events' \in Seq([kind: {"checkout", "upsert", "deleted"}, of: View])
             /\ 1..Len(events) \subseteq 1..Len(events')
             /\ 0..Len(events) \subseteq 0..Len(events')
  <2>1. Len(events') \in Nat
    BY <1>2, LenProperties
  <2> QED
    BY <1>1, <1>2, <2>1 DEF Grown, Event, Kinds
<1>3. CASE NextDay
  BY <1>3 DEF NextDay, TypeOK, stripeVars, locals, counters
<1>4. CASE OpenBilling
  BY <1>4 DEF OpenBilling, TypeOK, stripeVars, locals, counters
<1>5. CASE StripeActs
  <2>1. /\ stripe' \in [Subs -> View] /\ events' \in Seq(Event) /\ Grown
        /\ offer' \in [Subs -> {"none", "trial", "paid", "used"}]
        /\ UNCHANGED <<today, billingOpen, doc, processed, pc, locals, counters>>
    BY <1>5, StripeReports, ChangedFacts
  <2>2. event' \in [Handlers -> 0..Len(events')]
    BY <1>2, <2>1 DEF TypeOK, locals
  <2> QED
    BY <1>2, <2>1, <2>2 DEF TypeOK, locals, counters
<1>6. ASSUME NEW s \in Subs, CreateCheckoutSession(s)
      PROVE  TypeOK'
  BY <1>6 DEF CreateCheckoutSession, TypeOK, locals, counters
<1>7. ASSUME NEW e \in 1..Len(events), NEW h \in Handlers, Receive(h, e)
      PROVE  TypeOK'
  <2>1. events[e] \in Event
    BY <1>1, ElementOfSeq
  <2>2. events[e].of \in View /\ e \in 0..Len(events)
    BY <1>1, <2>1 DEF Event
  <2>3. pc' \in [Handlers -> Steps]
    BY <1>7, <2>1 DEF Receive, Enter, TypeOK, Steps, Event, Kinds
  <2> QED
    BY <1>7, <2>2, <2>3 DEF Receive, TypeOK, stripeVars, counters
<1>8. ASSUME NEW h \in Handlers, NEW p \in Steps, TrialRead(h, p)
      PROVE  TypeOK'
  <2>1. doc.view.trialEnd \in Nat
    BY DEF TypeOK, View
  <2> QED
    BY <1>8, <2>1 DEF TrialRead, Enter, TypeOK, stripeVars, counters
<1>9. ASSUME NEW h \in Handlers, UserCalls(h)
      PROVE  TypeOK'
  <2>1. {"startTrial", "extendTrial", "staffExtend", "addons"} \subseteq Steps
    BY DEF Steps
  <2>2. CASE StartTrialRead(h)
    BY <1>8, <2>1, <2>2 DEF StartTrialRead
  <2>3. CASE ExtendTrialRead(h)
    BY <1>8, <2>1, <2>3 DEF ExtendTrialRead
  <2>4. CASE StaffExtendRead(h)
    BY <1>8, <2>1, <2>4 DEF StaffExtendRead
  <2>5. CASE AddonsRead(h)
    BY <2>1, <2>5 DEF AddonsRead, Enter, TypeOK, stripeVars, counters
  <2> QED
    BY <1>9, <2>2, <2>3, <2>4, <2>5 DEF UserCalls
<1>10. ASSUME NEW h \in Handlers, NEW n \in 0..MaxSeats, AddonsUpdate(h, n)
       PROVE  TypeOK'
  <2>1. PICK s \in Subs, v \in View, kinds \in Seq(Kinds) :
           /\ Changed(s, v, kinds)
           /\ \/ /\ Advance(h, "addons", "persist")
                 /\ snapshot' = [snapshot EXCEPT ![h] = v]
                 /\ UNCHANGED <<event, known>>
              \/ Leave(h, "addons")
           /\ UNCHANGED <<today, billingOpen, offer, doc, processed, counters>>
    BY <1>10, AddonsReports
  <2>2. stripe' \in [Subs -> View] /\ events' \in Seq(Event) /\ Grown
    BY <2>1, ChangedFacts
  <2>3. /\ pc' \in [Handlers -> Steps]
        /\ snapshot' \in [Handlers -> View]
        /\ event' \in [Handlers -> 0..Len(events)]
        /\ known' \in [Handlers -> Nat]
    <3>1. CASE Leave(h, "addons")
      BY <3>1, LeaveFacts
    <3>2. CASE /\ Advance(h, "addons", "persist")
               /\ snapshot' = [snapshot EXCEPT ![h] = v]
               /\ UNCHANGED <<event, known>>
      BY <3>2 DEF Advance, TypeOK, Steps
    <3> QED
      BY <2>1, <3>1, <3>2
  <2>4. event' \in [Handlers -> 0..Len(events')]
    BY <1>2, <2>2, <2>3
  <2> QED
    BY <1>2, <2>1, <2>2, <2>3, <2>4 DEF TypeOK, counters
<1>11. ASSUME NEW h \in Handlers, Continue(h)
       PROVE  TypeOK'
  <2>1. CASE Fetch(h)
    <3>1. snapshot[h].sub \in Subs
      BY <2>1 DEF Fetch, Advance, HandlerInv
    <3>2. stripe[snapshot[h].sub] \in View
      BY <3>1 DEF TypeOK
    <3> QED
      BY <2>1, <3>2 DEF Fetch, Advance, TypeOK, Steps, stripeVars, counters
  <2>2. CASE Persist(h)
    <3>1. Persisted(snapshot[h]) \in View
      BY WriteFacts DEF TypeOK
    <3>2. doc' \in [view: View, extensions: Nat]
      BY <2>2, <3>1 DEF Persist, TypeOK
    <3>3. /\ pc' \in [Handlers -> Steps]
          /\ snapshot' \in [Handlers -> View]
          /\ event' \in [Handlers -> 0..Len(events)]
          /\ known' \in [Handlers -> Nat]
      <4>1. CASE event[h] = 0
        BY <2>2, <4>1, LeaveFacts DEF Persist
      <4>2. CASE event[h] # 0
        BY <2>2, <4>2 DEF Persist, Advance, TypeOK, Steps, locals
      <4> QED
        BY <4>1, <4>2
    <3>4. UNCHANGED <<today, billingOpen, stripeVars, processed, counters>>
      BY <2>2 DEF Persist
    <3> QED
      BY <3>2, <3>3, <3>4 DEF TypeOK, stripeVars, counters
  <2>3. CASE Delete(h)
    <3>1. Deleted(snapshot[h]) \in View
      BY WriteFacts DEF TypeOK
    <3>2. doc' \in [view: View, extensions: Nat]
      BY <2>3, <3>1 DEF Delete, TypeOK
    <3>3. /\ pc' \in [Handlers -> Steps]
          /\ UNCHANGED <<today, billingOpen, stripeVars, processed, locals,
                         counters>>
      BY <2>3 DEF Delete, Advance, TypeOK, Steps
    <3> QED
      BY <3>2, <3>3 DEF TypeOK, stripeVars, locals, counters
  <2>4. CASE Record(h)
    <3>1. event[h] \in 1..Len(events)
      BY <1>1, <2>4 DEF Record, Recorded, Leave, Advance, HandlerInv, TypeOK
    <3>2. processed' \subseteq 1..Len(events)
      BY <2>4, <3>1 DEF Record, Recorded, TypeOK
    <3>3. Leave(h, "record")
      BY <2>4 DEF Record, Recorded
    <3>4. UNCHANGED <<today, billingOpen, stripeVars, doc, counters>>
      BY <2>4 DEF Record
    <3> QED
      BY <3>2, <3>3, <3>4, LeaveFacts DEF TypeOK, stripeVars, counters
  <2>5. CASE StartTrial(h)
    <3>1. TrialFrom(today) \in View
      BY WriteFacts DEF TypeOK
    <3>2. doc' \in [view: View, extensions: Nat]
      BY <2>5, <3>1 DEF StartTrial, TypeOK
    <3>3. Leave(h, "startTrial")
      BY <2>5 DEF StartTrial
    <3>4. UNCHANGED <<today, billingOpen, stripeVars, processed, counters>>
      BY <2>5 DEF StartTrial
    <3> QED
      BY <3>2, <3>3, <3>4, LeaveFacts DEF TypeOK, stripeVars, counters
  <2>6. CASE ExtendTrial(h)
    <3>1. TrialFrom(today) \in View
      BY WriteFacts DEF TypeOK
    <3>2. doc' \in [view: View, extensions: Nat]
      BY <2>6, <3>1 DEF ExtendTrial, TypeOK
    <3>3. Leave(h, "extendTrial")
      BY <2>6 DEF ExtendTrial
    <3>4. /\ selfExtensions' \in Nat
          /\ UNCHANGED <<today, billingOpen, stripeVars, processed,
                         staffExtensions, failures>>
      BY <2>6 DEF ExtendTrial, TypeOK
    <3> QED
      BY <3>2, <3>3, <3>4, LeaveFacts DEF TypeOK, stripeVars
  <2>7. CASE StaffExtend(h)
    <3>1. (IF known[h] > today THEN known[h] ELSE today) \in Nat
      BY DEF TypeOK
    <3>2. TrialFrom(IF known[h] > today THEN known[h] ELSE today) \in View
      BY <3>1, WriteFacts DEF TypeOK
    <3>3. doc' \in [view: View, extensions: Nat]
      BY <2>7, <3>2 DEF StaffExtend, TypeOK
    <3>4. Leave(h, "staffExtend")
      BY <2>7 DEF StaffExtend
    <3>5. /\ staffExtensions' \in Nat
          /\ UNCHANGED <<today, billingOpen, stripeVars, processed,
                         selfExtensions, failures>>
      BY <2>7 DEF StaffExtend, TypeOK
    <3> QED
      BY <3>3, <3>4, <3>5, LeaveFacts DEF TypeOK, stripeVars
  <2>8. CASE \E n \in 0..MaxSeats : AddonsUpdate(h, n)
    BY <1>10, <2>8
  <2>9. CASE AddonsGiveUp(h)
    <3>1. Leave(h, "addons")
      BY <2>9 DEF AddonsGiveUp
    <3> QED
      BY <2>9, <3>1, LeaveFacts DEF AddonsGiveUp, TypeOK, stripeVars, counters
  <2> QED
    BY <1>11, <2>1, <2>2, <2>3, <2>4, <2>5, <2>6, <2>7, <2>8, <2>9 DEF Continue
<1>12. ASSUME NEW h \in Handlers, Fail(h)
       PROVE  TypeOK'
  <2>1. Leave(h, pc[h])
    BY <1>12 DEF Fail
  <2>2. failures' \in Nat
    BY <1>12 DEF Fail, TypeOK
  <2>3. UNCHANGED <<today, billingOpen, stripeVars, doc, processed,
                    selfExtensions, staffExtensions>>
    BY <1>12 DEF Fail
  <2> QED
    BY <2>1, <2>2, <2>3, LeaveFacts DEF TypeOK, stripeVars
<1>13. CASE UNCHANGED vars
  BY <1>13 DEF vars, TypeOK, stripeVars, locals, counters
<1> QED
  BY <1>3, <1>4, <1>5, <1>6, <1>7, <1>9, <1>11, <1>12, <1>13 DEF Next, Deliver

-----------------------------------------------------------------------------
(* What every step does to Stripe and its events: nothing, or one change   *)
(* that is reported.                                                       *)
LEMMA StripeMoves ==
  ASSUME TypeOK, StripeInv, \A h \in Handlers : HandlerInv(h), [Next]_vars
  PROVE  \/ UNCHANGED <<stripe, events>>
         \/ \E s \in Subs, v \in View, kinds \in Seq(Kinds) : Changed(s, v, kinds)
<1>1. CASE StripeActs
  BY <1>1, StripeReports
<1>2. CASE \E h \in Handlers, n \in 0..MaxSeats : AddonsUpdate(h, n)
  BY <1>2, AddonsReports
<1>3. ASSUME NEW h \in Handlers, Continue(h),
             ~ \E n \in 0..MaxSeats : AddonsUpdate(h, n)
      PROVE  UNCHANGED <<stripe, events>>
  BY <1>3 DEF Continue, Fetch, Persist, Delete, Record, StartTrial, ExtendTrial,
              StaffExtend, AddonsGiveUp, stripeVars
<1>4. ASSUME NEW h \in Handlers, UserCalls(h)
      PROVE  UNCHANGED <<stripe, events>>
  BY <1>4 DEF UserCalls, StartTrialRead, ExtendTrialRead, StaffExtendRead,
              TrialRead, AddonsRead, stripeVars
<1>5. ASSUME NEW h \in Handlers, Fail(h)
      PROVE  UNCHANGED <<stripe, events>>
  BY <1>5 DEF Fail, stripeVars
<1>6. ASSUME NEW e \in 1..Len(events), Deliver(e)
      PROVE  UNCHANGED <<stripe, events>>
  BY <1>6 DEF Deliver, Receive, stripeVars
<1>7. CASE \/ NextDay
           \/ OpenBilling
           \/ \E s \in Subs : CreateCheckoutSession(s)
           \/ UNCHANGED vars
  BY <1>7 DEF NextDay, OpenBilling, CreateCheckoutSession, vars, stripeVars
<1> QED
  BY <1>1, <1>2, <1>3, <1>4, <1>5, <1>6, <1>7 DEF Next

(* Either way no event is lost.                                            *)
LEMMA StripeStep ==
  ASSUME TypeOK, StripeInv, \A h \in Handlers : HandlerInv(h), [Next]_vars
  PROVE  Grown /\ StripeInv'
<1>1. Len(events) \in Nat
  BY LenProperties DEF TypeOK
<1>2. CASE UNCHANGED <<stripe, events>>
  BY <1>1, <1>2 DEF Grown, StripeInv, Reported
<1> QED
  BY <1>2, StripeMoves, ChangedFacts

(* What a handler holds stays true while Stripe goes on.                   *)
LEMMA HandlerKept ==
  ASSUME TypeOK, TypeOK', Grown, NEW h \in Handlers, HandlerInv(h),
         pc'[h] = pc[h], snapshot'[h] = snapshot[h], event'[h] = event[h]
  PROVE  HandlerInv(h)'
<1>1. Len(events) \in Nat /\ Len(events') \in Nat
  BY LenProperties DEF TypeOK
<1>2. Reported(snapshot[h]) => Reported(snapshot[h])'
  BY <1>1 DEF Reported, Grown
<1> QED
  BY <1>2 DEF HandlerInv, Grown

(* A handler that is idle, or is about to write the document, or has read  *)
(* what it needs of it, holds nothing to be wrong about.                   *)
LEMMA HandlerIdle ==
  ASSUME NEW h \in Handlers,
         pc'[h] \in {"idle", "startTrial", "extendTrial", "staffExtend"}
  PROVE  HandlerInv(h)'
BY DEF HandlerInv

(* At each await a handler holds a snapshot that Stripe has reported.      *)
LEMMA HandlerStep ==
  ASSUME TypeOK, TypeOK', Grown, StripeInv, StripeInv',
         \A h \in Handlers : HandlerInv(h), [Next]_vars
  PROVE  \A h \in Handlers : HandlerInv(h)'
<1>1. Len(events) \in Nat /\ Len(events') \in Nat
  BY LenProperties DEF TypeOK
<1>2. CASE UNCHANGED <<pc, snapshot, event>>
  BY <1>2, HandlerKept
<1>3. CASE \/ NextDay
           \/ OpenBilling
           \/ StripeActs
           \/ \E s \in Subs : CreateCheckoutSession(s)
           \/ UNCHANGED vars
  <2>1. CASE StripeActs
    BY <1>2, <2>1, StripeReports DEF locals
  <2> QED
    BY <1>2, <1>3, <2>1
       DEF NextDay, OpenBilling, CreateCheckoutSession, vars, locals
<1>4. ASSUME NEW h \in Handlers, HandlerInv(h)',
             \A g \in Handlers \ {h} :
               pc'[g] = pc[g] /\ snapshot'[g] = snapshot[g] /\ event'[g] = event[g]
      PROVE  \A g \in Handlers : HandlerInv(g)'
  BY <1>4, HandlerKept
<1>5. ASSUME NEW h \in Handlers, NEW p, Leave(h, p)
      PROVE  \A g \in Handlers : HandlerInv(g)'
  BY <1>4, <1>5, LeaveFacts, HandlerIdle
<1>6. ASSUME NEW e \in 1..Len(events), NEW h \in Handlers, Receive(h, e)
      PROVE  \A g \in Handlers : HandlerInv(g)'
  <2>1. events[e] \in Event
    BY ElementOfSeq DEF TypeOK, Event, Kinds
  <2>2. /\ snapshot'[h] = events[e].of
        /\ event'[h] = e
        /\ \A g \in Handlers \ {h} :
             pc'[g] = pc[g] /\ snapshot'[g] = snapshot[g] /\ event'[g] = event[g]
    BY <1>6 DEF Receive, Enter, TypeOK
  <2>3. /\ pc'[h] \in {"fetch", "persist", "delete"}
        /\ pc'[h] = "delete" => events[e].kind = "deleted"
    BY <1>6, <2>1 DEF Receive, Enter, TypeOK, Event, Kinds
  <2>4. e \in 1..Len(events') /\ events'[e] = events[e]
    BY <1>1 DEF Grown
  <2>5. Reported(snapshot[h])'
    BY <2>2, <2>4 DEF Reported
  <2>6. /\ events[e].of.sub \in Subs
        /\ stripe'[events[e].of.sub].status # "none"
        /\ pc'[h] = "delete" => events[e].of.status = "canceled"
    BY <2>3 DEF StripeInv, Grown
  <2>7. HandlerInv(h)'
    BY <2>2, <2>3, <2>5, <2>6 DEF HandlerInv
  <2> QED
    BY <1>4, <2>2, <2>7
<1>7. ASSUME NEW h \in Handlers, UserCalls(h)
      PROVE  \A g \in Handlers : HandlerInv(g)'
  <2>1. ASSUME NEW p \in {"startTrial", "extendTrial", "staffExtend"},
               TrialRead(h, p)
        PROVE  \A g \in Handlers : HandlerInv(g)'
    BY <1>4, <2>1, HandlerIdle DEF TrialRead, Enter, TypeOK
  <2>2. CASE AddonsRead(h)
    <3>1. doc.view.sub \in Subs
      BY <2>2 DEF AddonsRead, HasActiveBase, TypeOK, View
    <3>2. /\ pc'[h] = "addons"
          /\ snapshot'[h] = doc.view
          /\ \A g \in Handlers \ {h} :
               pc'[g] = pc[g] /\ snapshot'[g] = snapshot[g] /\ event'[g] = event[g]
      BY <2>2 DEF AddonsRead, Enter, TypeOK
    <3>3. HandlerInv(h)'
      BY <3>1, <3>2 DEF HandlerInv
    <3> QED
      BY <1>4, <3>2, <3>3
  <2> QED
    BY <1>7, <2>1, <2>2
       DEF UserCalls, StartTrialRead, ExtendTrialRead, StaffExtendRead
<1>8. ASSUME NEW h \in Handlers, Continue(h)
      PROVE  \A g \in Handlers : HandlerInv(g)'
  <2>1. CASE Fetch(h)
    <3>1. /\ pc'[h] = "persist"
          /\ snapshot'[h] = stripe[snapshot[h].sub]
          /\ \A g \in Handlers \ {h} :
               pc'[g] = pc[g] /\ snapshot'[g] = snapshot[g] /\ event'[g] = event[g]
      BY <2>1 DEF Fetch, Advance, TypeOK
    <3>2. Reported(stripe[snapshot[h].sub])
      BY <2>1 DEF Fetch, Advance, HandlerInv, StripeInv
    <3>3. Reported(snapshot[h])'
      BY <1>1, <3>1, <3>2 DEF Reported, Grown
    <3>4. HandlerInv(h)'
      BY <3>1, <3>3 DEF HandlerInv
    <3> QED
      BY <1>4, <3>1, <3>4
  <2>2. CASE Persist(h)
    <3>1. CASE event[h] = 0
      BY <1>5, <2>2, <3>1 DEF Persist
    <3>2. CASE event[h] # 0
      <4>1. /\ pc'[h] = "record"
            /\ \A g \in Handlers \ {h} : pc'[g] = pc[g]
            /\ UNCHANGED <<snapshot, event>>
        BY <2>2, <3>2 DEF Persist, Advance, TypeOK, locals
      <4>2. HandlerInv(h)'
        BY <3>2, <4>1 DEF HandlerInv
      <4> QED
        BY <1>4, <4>1, <4>2
    <3> QED
      BY <3>1, <3>2
  <2>3. CASE Delete(h)
    <3>1. /\ pc[h] = "delete" /\ pc'[h] = "record"
          /\ \A g \in Handlers \ {h} : pc'[g] = pc[g]
          /\ UNCHANGED <<snapshot, event>>
      BY <2>3 DEF Delete, Advance, TypeOK, locals
    <3>2. HandlerInv(h)'
      BY <3>1 DEF HandlerInv
    <3> QED
      BY <1>4, <3>1, <3>2
  <2>4. CASE \E n \in 0..MaxSeats : AddonsUpdate(h, n)
    <3>1. PICK s \in Subs, v \in View, kinds \in Seq(Kinds) :
             /\ Changed(s, v, kinds)
             /\ \/ /\ Advance(h, "addons", "persist")
                   /\ snapshot' = [snapshot EXCEPT ![h] = v]
                   /\ UNCHANGED <<event, known>>
                \/ Leave(h, "addons")
      BY <2>4, AddonsReports
    <3>2. CASE Leave(h, "addons")
      BY <1>5, <3>2
    <3>3. CASE /\ Advance(h, "addons", "persist")
               /\ snapshot' = [snapshot EXCEPT ![h] = v]
               /\ UNCHANGED <<event, known>>
      <4>1. /\ pc'[h] = "persist"
            /\ snapshot'[h] = v
            /\ \A g \in Handlers \ {h} :
                 pc'[g] = pc[g] /\ snapshot'[g] = snapshot[g] /\ event'[g] = event[g]
        BY <3>3 DEF Advance, TypeOK
      <4>2. \E e \in 1..Len(events') : events'[e].of = v
        BY <3>1, ChangedFacts
      <4>3. Reported(snapshot[h])'
        BY <4>1, <4>2 DEF Reported
      <4>4. HandlerInv(h)'
        BY <4>1, <4>3 DEF HandlerInv
      <4> QED
        BY <1>4, <4>1, <4>4
    <3> QED
      BY <3>1, <3>2, <3>3
  <2>5. CASE \/ Record(h)
             \/ StartTrial(h)
             \/ ExtendTrial(h)
             \/ StaffExtend(h)
             \/ AddonsGiveUp(h)
    BY <1>5, <2>5
       DEF Record, Recorded, StartTrial, ExtendTrial, StaffExtend, AddonsGiveUp
  <2> QED
    BY <1>8, <2>1, <2>2, <2>3, <2>4, <2>5 DEF Continue
<1>9. ASSUME NEW h \in Handlers, Fail(h)
      PROVE  \A g \in Handlers : HandlerInv(g)'
  BY <1>5, <1>9 DEF Fail
<1> QED
  BY <1>3, <1>6, <1>7, <1>8, <1>9 DEF Next, Deliver

-----------------------------------------------------------------------------
(* The steps that write the document.                                      *)
LEMMA Writers ==
  ASSUME [Next]_vars
  PROVE  \/ UNCHANGED <<doc, selfExtensions>>
         \/ \E h \in Handlers : \/ Persist(h)
                                \/ Delete(h)
                                \/ StartTrial(h)
                                \/ ExtendTrial(h)
                                \/ StaffExtend(h)
<1>1. CASE StripeActs
  BY <1>1 DEF StripeActs, CheckoutDone, Pays, FailsToPay, GivesUp, Cancels,
              ChangesSeats, StripeChange, counters
<1>2. CASE \E h \in Handlers : UserCalls(h)
  BY <1>2 DEF UserCalls, StartTrialRead, ExtendTrialRead, StaffExtendRead,
              TrialRead, AddonsRead, counters
<1>3. CASE \E h \in Handlers : Continue(h)
  BY <1>3 DEF Continue, Fetch, Record, AddonsUpdate, AddonsGiveUp, counters
<1>4. CASE \E h \in Handlers : Fail(h)
  BY <1>4 DEF Fail
<1>5. CASE \/ NextDay
           \/ OpenBilling
           \/ \E s \in Subs : CreateCheckoutSession(s)
           \/ \E e \in 1..Len(events) : Deliver(e)
           \/ UNCHANGED vars
  BY <1>5 DEF NextDay, OpenBilling, CreateCheckoutSession, Deliver, Receive,
              vars, counters
<1> QED
  BY <1>1, <1>2, <1>3, <1>4, <1>5 DEF Next

(* What a write puts in the document, as far as the properties go.         *)
LEMMA Written ==
  ASSUME TypeOK, NEW h \in Handlers
  PROVE  /\ Persist(h) => /\ doc'.view.sub = snapshot[h].sub
                          /\ doc'.view.status = snapshot[h].status
         /\ Delete(h) => /\ doc'.view.sub = snapshot[h].sub
                         /\ doc'.view.status = "canceled"
         /\ StartTrial(h) \/ ExtendTrial(h) \/ StaffExtend(h) =>
              doc'.view.status = "trialing"
<1>1. doc \in [view: View, extensions: Nat] /\ snapshot[h] \in View
  BY DEF TypeOK
<1>2. today \in Nat /\ (IF known[h] > today THEN known[h] ELSE today) \in Nat
  BY DEF TypeOK
<1>3. CASE Persist(h)
  <2>1. doc'.view = Persisted(snapshot[h])
    BY <1>1, <1>3 DEF Persist
  <2> QED
    BY <1>1, <1>3, <2>1, WriteFacts
       DEF Persist, Delete, StartTrial, ExtendTrial, StaffExtend, Leave, Advance
<1>4. CASE Delete(h)
  <2>1. doc'.view = Deleted(snapshot[h])
    BY <1>1, <1>4 DEF Delete
  <2> QED
    BY <1>1, <1>4, <2>1, WriteFacts
       DEF Persist, Delete, StartTrial, ExtendTrial, StaffExtend, Leave, Advance
<1>5. CASE StartTrial(h) \/ ExtendTrial(h) \/ StaffExtend(h)
  <2>1. /\ pc[h] \notin {"persist", "delete"}
        /\ \E d \in Nat : doc'.view = TrialFrom(d)
    BY <1>1, <1>2, <1>5 DEF StartTrial, ExtendTrial, StaffExtend, Leave, Advance
  <2> QED
    BY <1>1, <2>1, WriteFacts DEF Persist, Delete, Leave, Advance
<1> QED
  BY <1>3, <1>4, <1>5

(* The document's status, if it is not that of a trial, has been reported  *)
(* of the subscription it names.                                           *)
LEMMA StatusStep ==
  ASSUME TypeOK, TypeOK', Grown, StatusWasReported,
         \A h \in Handlers : HandlerInv(h), [Next]_vars
  PROVE  StatusWasReported'
<1>1. Len(events) \in Nat /\ Len(events') \in Nat
  BY LenProperties DEF TypeOK
<1>2. CASE UNCHANGED doc
  BY <1>1, <1>2 DEF StatusWasReported, Grown
<1>3. ASSUME NEW h \in Handlers, Persist(h)
      PROVE  StatusWasReported'
  <2>1. Reported(snapshot[h])
    BY <1>3 DEF Persist, Leave, Advance, HandlerInv
  <2> QED
    BY <1>1, <1>3, <2>1, Written DEF StatusWasReported, Reported, Grown
<1>4. ASSUME NEW h \in Handlers, Delete(h)
      PROVE  StatusWasReported'
  <2>1. Reported(snapshot[h]) /\ snapshot[h].status = "canceled"
    BY <1>4 DEF Delete, Advance, HandlerInv
  <2> QED
    BY <1>1, <1>4, <2>1, Written DEF StatusWasReported, Reported, Grown
<1>5. ASSUME NEW h \in Handlers, StartTrial(h) \/ ExtendTrial(h) \/ StaffExtend(h)
      PROVE  StatusWasReported'
  BY <1>5, Written DEF StatusWasReported
<1> QED
  BY <1>2, <1>3, <1>4, <1>5, Writers

-----------------------------------------------------------------------------
(* Handlers that do not overlap.                                           *)

(* A handler starts only when no other runs.                               *)
LEMMA Starts ==
  ASSUME TypeOK, StripeInv, [Next]_vars, Serial
  PROVE  \/ \A h \in Handlers : pc'[h] # "idle" => pc[h] # "idle"
         \/ \E h \in Handlers :
              Quiet /\ \A g \in Handlers \ {h} : pc'[g] = pc[g]
<1>1. ASSUME NEW h \in Handlers, NEW p, Enter(h, p)
      PROVE  Quiet /\ \A g \in Handlers \ {h} : pc'[g] = pc[g]
  BY <1>1 DEF Enter, TypeOK
<1>2. ASSUME NEW h \in Handlers, NEW p, NEW q, p # "idle", Advance(h, p, q)
      PROVE  \A g \in Handlers : pc'[g] # "idle" => pc[g] # "idle"
  BY <1>2 DEF Advance, TypeOK
<1>3. CASE \E h \in Handlers : UserCalls(h)
  BY <1>1, <1>3 DEF UserCalls, StartTrialRead, ExtendTrialRead, StaffExtendRead,
                    TrialRead, AddonsRead
<1>4. CASE \E h \in Handlers : Continue(h)
  BY <1>2, <1>4 DEF Continue, Fetch, Persist, Delete, Record, Recorded, StartTrial,
                    ExtendTrial, StaffExtend, AddonsUpdate, AddonsGiveUp, Leave
<1>5. CASE \E h \in Handlers : Fail(h)
  BY <1>5 DEF Fail
<1>6. CASE \E e \in 1..Len(events) : Deliver(e)
  BY <1>1, <1>6 DEF Deliver, Receive
<1>7. CASE StripeActs
  BY <1>7, StripeReports
<1>8. CASE \/ NextDay
           \/ OpenBilling
           \/ \E s \in Subs : CreateCheckoutSession(s)
           \/ UNCHANGED vars
  BY <1>8 DEF NextDay, OpenBilling, CreateCheckoutSession, vars
<1> QED
  BY <1>3, <1>4, <1>5, <1>6, <1>7, <1>8 DEF Next

(* A trial operation has just made its checks, or made them before.        *)
LEMMA TrialChecks ==
  ASSUME TypeOK, StripeInv, StatusWasReported, [Next]_vars, NEW h \in Handlers,
         pc'[h] \in {"startTrial", "extendTrial", "staffExtend"}
  PROVE  \/ pc'[h] = pc[h]
         \/ /\ UNCHANGED doc
            /\ doc.view.status \notin {"active", "past_due"}
            /\ pc'[h] = "extendTrial" => doc.extensions < MaxTrialExtensions
<1>1. doc.view.status \in {"active", "past_due"} => HasActiveBase(doc.view)
  <2>1. doc.view.status \in {"active", "past_due"} => doc.view.sub \in Subs
    BY DEF StatusWasReported, StripeInv
  <2> QED
    BY <2>1, SubscriptionsAssumption DEF HasActiveBase
<1>2. CASE pc' = pc
  BY <1>2
<1>3. ASSUME NEW g \in Handlers, NEW p, NEW q, Advance(g, p, q),
             q \notin {"startTrial", "extendTrial", "staffExtend"}
      PROVE  pc'[h] = pc[h]
  BY <1>3 DEF Advance, TypeOK
<1>4. ASSUME NEW g \in Handlers, UserCalls(g)
      PROVE  \/ pc'[h] = pc[h]
             \/ /\ UNCHANGED doc
                /\ doc.view.status \notin {"active", "past_due"}
                /\ pc'[h] = "extendTrial" => doc.extensions < MaxTrialExtensions
  <2>1. CASE StartTrialRead(g)
    BY <2>1 DEF StartTrialRead, TrialRead, Enter, TypeOK
  <2>2. CASE ExtendTrialRead(g)
    BY <1>1, <2>2 DEF ExtendTrialRead, TrialRead, Enter, UnderCap, TypeOK
  <2>3. CASE StaffExtendRead(g)
    BY <1>1, <2>3 DEF StaffExtendRead, StaffMayExtend, TrialRead, Enter, TypeOK
  <2>4. CASE AddonsRead(g)
    BY <2>4 DEF AddonsRead, Enter, TypeOK
  <2> QED
    BY <1>4, <2>1, <2>2, <2>3, <2>4 DEF UserCalls
<1>5. ASSUME NEW g \in Handlers, Continue(g)
      PROVE  pc'[h] = pc[h]
  BY <1>3, <1>5 DEF Continue, Fetch, Persist, Delete, Record, Recorded, StartTrial,
                    ExtendTrial, StaffExtend, AddonsUpdate, AddonsGiveUp, Leave
<1>6. ASSUME NEW g \in Handlers, Fail(g)
      PROVE  pc'[h] = pc[h]
  BY <1>3, <1>6 DEF Fail, Leave
<1>7. ASSUME NEW e \in 1..Len(events), Deliver(e)
      PROVE  pc'[h] = pc[h]
  <2>1. events[e] \in Event
    BY ElementOfSeq DEF TypeOK, Event, Kinds
  <2> QED
    BY <1>7, <2>1 DEF Deliver, Receive, Enter, TypeOK, Event, Kinds
<1>8. CASE StripeActs
  BY <1>8, StripeReports
<1>9. CASE \/ NextDay
           \/ OpenBilling
           \/ \E s \in Subs : CreateCheckoutSession(s)
           \/ UNCHANGED vars
  BY <1>9 DEF NextDay, OpenBilling, CreateCheckoutSession, vars
<1> QED
  BY <1>4, <1>5, <1>6, <1>7, <1>8, <1>9 DEF Next

(* No other handler writes the document between the checks of a trial      *)
(* operation and its write, so the cap of extensions holds.                *)
LEMMA SerialStep ==
  ASSUME TypeOK, TypeOK', StripeInv, StatusWasReported, SerialInv, [Next]_vars
  PROVE  SerialInv'
<1>1. /\ doc \in [view: View, extensions: Nat] /\ selfExtensions \in Nat
      /\ selfExtensions <= doc.extensions
  BY DEF TypeOK, SerialInv
<1>2. selfExtensions' <= doc'.extensions
  <2>1. ASSUME NEW h \in Handlers, Persist(h) \/ Delete(h)
        PROVE  doc'.extensions = doc.extensions /\ selfExtensions' = selfExtensions
    BY <1>1, <2>1 DEF Persist, Delete, counters
  <2>2. ASSUME NEW h \in Handlers, StartTrial(h)
        PROVE  doc'.extensions = doc.extensions /\ selfExtensions' = selfExtensions
    BY <1>1, <2>2 DEF StartTrial, counters
  <2>3. ASSUME NEW h \in Handlers, ExtendTrial(h)
        PROVE  /\ doc'.extensions = doc.extensions + 1
               /\ selfExtensions' = selfExtensions + 1
    BY <1>1, <2>3 DEF ExtendTrial
  <2>4. ASSUME NEW h \in Handlers, StaffExtend(h)
        PROVE  /\ doc'.extensions = doc.extensions + 1
               /\ selfExtensions' = selfExtensions
    BY <1>1, <2>4 DEF StaffExtend
  <2> QED
    BY <1>1, <2>1, <2>2, <2>3, <2>4, Writers
<1>3. ASSUME Serial
      PROVE  \A g, h \in Handlers : pc'[g] # "idle" /\ pc'[h] # "idle" => g = h
  <2>1. \A g, h \in Handlers : pc[g] # "idle" /\ pc[h] # "idle" => g = h
    BY <1>3 DEF SerialInv
  <2> QED
    BY <1>3, <2>1, Starts DEF Quiet
<1>4. ASSUME Serial, NEW h \in Handlers,
             pc'[h] \in {"startTrial", "extendTrial", "staffExtend"}
      PROVE  /\ pc'[h] = "extendTrial" => doc'.extensions < MaxTrialExtensions
             /\ doc'.view.status \notin {"active", "past_due"}
  <2>1. CASE pc'[h] = pc[h]
    <3>1. UNCHANGED doc
      <4>1. ASSUME NEW g \in Handlers, \/ Persist(g)
                                       \/ Delete(g)
                                       \/ StartTrial(g)
                                       \/ ExtendTrial(g)
                                       \/ StaffExtend(g)
            PROVE  FALSE
        <5>1. /\ pc[g] # "idle"
              /\ pc'[g] \in {"idle", "record"}
          BY <4>1 DEF Persist, Delete, StartTrial, ExtendTrial, StaffExtend, Leave,
                      Advance, TypeOK
        <5>2. g = h
          BY <1>4, <2>1, <5>1 DEF SerialInv
        <5> QED
          BY <1>4, <5>1, <5>2
      <4> QED
        BY <4>1, Writers
    <3> QED
      BY <1>4, <2>1, <3>1 DEF SerialInv
  <2>2. CASE pc'[h] # pc[h]
    BY <1>4, <2>2, TrialChecks
  <2> QED
    BY <2>1, <2>2
<1>5. ASSUME Serial
      PROVE  TrialExtensionsCapped'
  <2>1. ASSUME NEW h \in Handlers, ExtendTrial(h)
        PROVE  selfExtensions' <= MaxTrialExtensions
    <3>1. /\ doc.extensions < MaxTrialExtensions
          /\ selfExtensions' = selfExtensions + 1
      BY <1>5, <2>1 DEF ExtendTrial, Leave, Advance, SerialInv
    <3> QED
      BY <1>1, <3>1, SubscriptionsAssumption
  <2>2. ASSUME NEW h \in Handlers,
               Persist(h) \/ Delete(h) \/ StartTrial(h) \/ StaffExtend(h)
        PROVE  UNCHANGED selfExtensions
    BY <2>2 DEF Persist, Delete, StartTrial, StaffExtend, counters
  <2> QED
    BY <1>5, <2>1, <2>2, Writers DEF SerialInv, TrialExtensionsCapped
<1> QED
  BY <1>2, <1>3, <1>4, <1>5 DEF SerialInv

-----------------------------------------------------------------------------
(* The service starts with nothing known and nothing under way.            *)
LEMMA InitInv ==
  Init => SubscriptionsInv
<1> SUFFICES ASSUME Init
             PROVE  SubscriptionsInv
  OBVIOUS
<1>1. Nothing \in View /\ Nothing.status = "none" /\ Nothing.sub = NoSub
  BY DEF Nothing, View, Statuses
<1>2. events = << >> /\ Len(events) = 0
  BY DEF Init
<1>3. TypeOK
  <2>1. events \in Seq([kind: {"checkout", "upsert", "deleted"}, of: View])
    BY <1>2
  <2>2. doc \in [view: View, extensions: Nat]
    BY <1>1 DEF Init
  <2>3. /\ stripe \in [Subs -> View]
        /\ snapshot \in [Handlers -> View]
        /\ event \in [Handlers -> 0..Len(events)]
    BY <1>1, <1>2 DEF Init
  <2>4. billingOpen \in BOOLEAN
    BY Zenon DEF Init
  <2>5. /\ today \in Nat \ {0}
        /\ offer \in [Subs -> {"none", "trial", "paid", "used"}]
        /\ processed \subseteq 1..Len(events)
        /\ pc \in [Handlers -> Steps]
        /\ known \in [Handlers -> Nat]
        /\ {selfExtensions, staffExtensions, failures} \subseteq Nat
    BY DEF Init, Steps
  <2> QED
    BY <2>1, <2>2, <2>3, <2>4, <2>5 DEF TypeOK
<1>4. StatusWasReported
  BY <1>1 DEF Init, StatusWasReported
<1>5. StripeInv
  BY <1>1, <1>2 DEF Init, StripeInv
<1>6. \A h \in Handlers : HandlerInv(h)
  BY DEF Init, HandlerInv
<1>7. SerialInv
  BY SubscriptionsAssumption DEF Init, SerialInv, TrialExtensionsCapped
<1> QED
  BY <1>3, <1>4, <1>5, <1>6, <1>7 DEF SubscriptionsInv

(* Every step, of whatever handler, keeps the invariant.                   *)
LEMMA InvStep ==
  SubscriptionsInv /\ [Next]_vars => SubscriptionsInv'
<1> SUFFICES ASSUME SubscriptionsInv, [Next]_vars
             PROVE  SubscriptionsInv'
  OBVIOUS
<1> USE DEF SubscriptionsInv
<1>1. TypeOK'
  BY TypeStep
<1>2. Grown /\ StripeInv'
  BY StripeStep
<1>3. \A h \in Handlers : HandlerInv(h)'
  BY <1>1, <1>2, HandlerStep
<1>4. StatusWasReported'
  BY <1>1, <1>2, StatusStep
<1>5. SerialInv'
  BY <1>1, SerialStep
<1> QED
  BY <1>1, <1>2, <1>3, <1>4, <1>5

(* The invariant: Stripe has reported what every handler is about to write *)
(* and what the document says, whatever overlaps, fails or comes late.     *)
THEOREM SubscriptionsInvariant == Spec => []SubscriptionsInv
<1> QED
  BY InitInv, InvStep, PTL DEF Spec

(* The document and the state of every handler keep their types.           *)
THEOREM TypeCorrect == Spec => []TypeOK
<1>1. SubscriptionsInv => TypeOK
  BY DEF SubscriptionsInv
<1> QED
  BY <1>1, SubscriptionsInvariant, PTL

(* persistSubscription and onSubscriptionDeleted never leave the document  *)
(* with a paid, unpaid or canceled status that Stripe has not reported of  *)
(* the subscription it names.                                              *)
THEOREM StatusIsReported == Spec => []StatusWasReported
<1>1. SubscriptionsInv => StatusWasReported
  BY DEF SubscriptionsInv
<1> QED
  BY <1>1, SubscriptionsInvariant, PTL

(* extendTrial grants no more than MaxTrialExtensions extensions if its    *)
(* check and its write do not overlap with another handler.                *)
THEOREM ExtensionsAreCapped ==
  ASSUME Serial
  PROVE  Spec => []TrialExtensionsCapped
<1>1. SubscriptionsInv => TrialExtensionsCapped
  BY DEF SubscriptionsInv, SerialInv
<1> QED
  BY <1>1, SubscriptionsInvariant, PTL

-----------------------------------------------------------------------------
(* The mirror of Stripe, while handlers do not overlap and events come in  *)
(* order.  What the document says is right once the last event has written *)
(* it: that event carries what Stripe still has, and so does what its      *)
(* handler is about to write.  A user's change that is being written is in *)
(* an event still to come.                                                 *)
Handling == {"fetch", "persist", "delete", "record"}
Granting == {"startTrial", "extendTrial", "staffExtend"}
Last     == Len(events)

LastWritten == \/ Last \in processed
               \/ \E h \in Handlers : pc[h] = "record" /\ event[h] = Last

Right(v) ==
  /\ v.sub \in Subs /\ stripe[v.sub].status # "none"
  /\ \/ v.status = "canceled" /\ stripe[v.sub].status = "canceled"
     \/ v.status = "trialing" /\ stripe[v.sub].status \in {"unpaid", "canceled"}
     \/ v.status = stripe[v.sub].status /\ v.seats = stripe[v.sub].seats

InTurn(h) ==
  /\ pc[h] \notin Handling => event[h] = 0
  /\ pc[h] = "fetch" => event[h] # 0
  /\ event[h] # 0 => event[h] \notin processed /\ Oldest(event[h])
  /\ pc[h] = "persist" /\ event[h] = 0 => Last \notin processed
  /\ pc[h] \in {"persist", "delete"} /\ event[h] # 0 /\ event[h] = Last =>
       snapshot[h] = stripe[snapshot[h].sub]
  /\ pc[h] \in Granting =>
       doc.view.sub = NoSub \/ doc.view.status \notin {"trialing", "active", "past_due"}

MirrorInv ==
  Serial => /\ \A e \in processed : Oldest(e)
            /\ \A h \in Handlers : InTurn(h)
            /\ Last > 0 => stripe[events[Last].of.sub] = events[Last].of
            /\ LastWritten => Right(doc.view)

LEMMA MirrorInit == Init => MirrorInv
<1> SUFFICES ASSUME Init  PROVE MirrorInv
  OBVIOUS
<1>1. Last = 0 /\ processed = {}
  BY DEF Init, Last
<1>2. \A h \in Handlers : pc[h] = "idle" /\ event[h] = 0
  BY DEF Init
<1>3. \A h \in Handlers : InTurn(h)
  BY <1>2 DEF InTurn, Granting
<1>4. ~LastWritten
  BY <1>1, <1>2 DEF LastWritten
<1> QED
  BY <1>1, <1>3, <1>4 DEF MirrorInv

(* The handler that runs is the only one: the others hold nothing.         *)
LEMMA OthersInTurn ==
  ASSUME SerialInv, MirrorInv, Serial, NEW h \in Handlers,
         pc[h] # "idle" \/ Quiet,
         \A g \in Handlers \ {h} : pc'[g] = pc[g] /\ event'[g] = event[g]
  PROVE  \A g \in Handlers \ {h} : /\ pc[g] = "idle" /\ pc'[g] = "idle"
                                   /\ event[g] = 0 /\ event'[g] = 0
                                   /\ InTurn(g)'
<1> TAKE g \in Handlers \ {h}
<1>1. pc[g] = "idle" /\ pc'[g] = "idle"
  BY DEF SerialInv, Quiet
<1>2. event[g] = 0
  BY <1>1 DEF MirrorInv, InTurn, Handling
<1>3. event'[g] = 0
  BY <1>2
<1>4. InTurn(g)'
  BY <1>1, <1>3 DEF InTurn, Granting
<1> QED
  BY <1>1, <1>2, <1>3, <1>4

(* An event that is emitted is the last one, carries what Stripe has and   *)
(* is still to come.                                                       *)
LEMMA EmittedLast ==
  ASSUME TypeOK, StripeInv, NEW s \in Subs, NEW v \in View, NEW kinds \in Seq(Kinds),
         Changed(s, v, kinds)
  PROVE  /\ Last \in Nat /\ Last' \in Nat /\ Last < Last'
         /\ stripe'[events'[Last'].of.sub] = events'[Last'].of
<1>1. events \in Seq(Event) /\ stripe \in [Subs -> View]
  BY DEF TypeOK, Event, Kinds
<1>2. Len(events) \in Nat /\ Len(kinds) \in Nat /\ Len(kinds) > 0
  BY <1>1, LenProperties DEF Changed
<1>3. /\ Len(events') = Len(events) + Len(kinds)
      /\ \A k \in 1..Len(kinds) : events'[Len(events) + k] = [kind |-> kinds[k], of |-> v]
  BY <1>1, EmitFacts DEF Changed
<1>4. events'[Len(events')].of = v
  <2>1. Len(kinds) \in 1..Len(kinds)
    BY <1>2
  <2>2. events'[Len(events')] = [kind |-> kinds[Len(kinds)], of |-> v]
    BY <1>3, <2>1
  <2> QED
    BY <2>2
<1>5. stripe'[s] = v /\ v.sub = s
  BY <1>1 DEF Changed
<1> QED
  BY <1>2, <1>3, <1>4, <1>5 DEF Last

(* After a change of Stripe the document is behind.                        *)
LEMMA BehindStripe ==
  ASSUME TypeOK, StripeInv, MirrorInv, Serial,
         NEW s \in Subs, NEW v \in View, NEW kinds \in Seq(Kinds), Changed(s, v, kinds),
         UNCHANGED processed, \A h \in Handlers : event'[h] \in {0, event[h]},
         \A h \in Handlers : InTurn(h)'
  PROVE  MirrorInv'
<1>1. /\ Last \in Nat /\ Last' \in Nat /\ Last < Last'
      /\ stripe'[events'[Last'].of.sub] = events'[Last'].of
  BY EmittedLast
<1>2. processed \subseteq 1..Last /\ event \in [Handlers -> 0..Last]
  BY DEF TypeOK, Last
<1>3. Last' \notin processed'
  BY <1>1, <1>2
<1>4. \A h \in Handlers : event'[h] # Last'
  BY <1>1, <1>2
<1>5. ~LastWritten'
  BY <1>3, <1>4 DEF LastWritten
<1>6. \A e \in processed' : Oldest(e)'
  BY DEF MirrorInv, Oldest
<1> QED
  BY <1>1, <1>5, <1>6 DEF MirrorInv

(* A step that leaves Stripe and the processed events alone.               *)
LEMMA SameStripe ==
  ASSUME TypeOK, SerialInv, MirrorInv, Serial, UNCHANGED <<stripe, events, processed>>,
         NEW h \in Handlers, pc[h] # "idle" \/ Quiet,
         \A g \in Handlers \ {h} : pc'[g] = pc[g] /\ event'[g] = event[g],
         InTurn(h)',
         Last \in processed \/ (pc'[h] = "record" /\ event'[h] = Last) => Right(doc.view)'
  PROVE  MirrorInv'
<1>1. \A g \in Handlers \ {h} : InTurn(g)' /\ pc'[g] = "idle"
  BY OthersInTurn
<1>2. Last' = Last
  BY DEF Last
<1>3. LastWritten' => Last \in processed \/ (pc'[h] = "record" /\ event'[h] = Last)
  <2>1. ASSUME NEW g \in Handlers, pc'[g] = "record", event'[g] = Last'
        PROVE  pc'[h] = "record" /\ event'[h] = Last
    <3>1. g = h
      BY <1>1, <2>1
    <3> QED
      BY <1>2, <2>1, <3>1
  <2>2. Last' \in processed' => Last \in processed
    BY <1>2
  <2> QED
    BY <2>1, <2>2 DEF LastWritten
<1>4. \A e \in processed' : Oldest(e)'
  BY DEF MirrorInv, Oldest
<1>5. Last' > 0 => stripe'[events'[Last'].of.sub] = events'[Last'].of
  BY <1>2 DEF MirrorInv
<1> QED
  BY <1>1, <1>3, <1>4, <1>5 DEF MirrorInv

(* What is written of the seats, and what a trial leaves of the document.  *)
LEMMA WrittenView ==
  ASSUME TypeOK, NEW h \in Handlers
  PROVE  /\ Persist(h) => doc'.view.seats = snapshot[h].seats
         /\ StartTrial(h) \/ ExtendTrial(h) \/ StaffExtend(h) => doc'.view.sub = doc.view.sub
<1>1. /\ doc \in [view: View, extensions: Nat] /\ snapshot[h] \in View /\ doc.view \in View
  BY DEF TypeOK
<1>2. Persisted(snapshot[h]).seats = snapshot[h].seats
  BY <1>1 DEF Persisted, Mirror, View
<1>3. \A d : TrialFrom(d).sub = doc.view.sub
  BY <1>1 DEF TrialFrom, View
<1>4. Persist(h) => doc'.view = Persisted(snapshot[h])
  BY <1>1 DEF Persist
<1>5. StartTrial(h) \/ ExtendTrial(h) \/ StaffExtend(h) => \E d : doc'.view = TrialFrom(d)
  BY <1>1 DEF StartTrial, ExtendTrial, StaffExtend
<1> QED
  BY <1>2, <1>3, <1>4, <1>5

(* A handler about to write an event is the first to: if the last event    *)
(* has been processed, all have, and this is not one.                      *)
LEMMA StillToCome ==
  ASSUME TypeOK, MirrorInv, Serial, NEW h \in Handlers, event[h] # 0
  PROVE  Last \notin processed
<1>1. event[h] \in 1..Last /\ Last \in Nat
  BY LenProperties DEF TypeOK, Last
<1>2. event[h] \notin processed /\ \A e \in processed : \A d \in 1..(e - 1) : d \in processed
  BY DEF MirrorInv, InTurn, Oldest
<1> QED
  BY <1>1, <1>2

LEMMA MirrorStep ==
  ASSUME SubscriptionsInv, MirrorInv, Serial, [Next]_vars
  PROVE  MirrorInv'
<1> USE DEF SubscriptionsInv
<1>1. \A h \in Handlers : InTurn(h) /\ HandlerInv(h)
  BY DEF MirrorInv
<1>2. Last \in processed => Right(doc.view)
  BY DEF MirrorInv, LastWritten
<1>3. ASSUME UNCHANGED <<stripe, events, doc, processed, pc, event, snapshot>>
      PROVE  MirrorInv'
  BY <1>3 DEF MirrorInv, InTurn, Last, LastWritten, Right, Oldest
<1>4. CASE \/ NextDay
           \/ OpenBilling
           \/ \E s \in Subs : CreateCheckoutSession(s)
           \/ UNCHANGED vars
  BY <1>3, <1>4 DEF NextDay, OpenBilling, CreateCheckoutSession, vars, stripeVars, locals
<1>5. CASE StripeActs
  <2>1. PICK s \in Subs, v \in View, kinds \in Seq(Kinds) : Changed(s, v, kinds)
    BY <1>5, StripeReports
  <2>2. UNCHANGED <<doc, processed, pc, event, snapshot>>
    BY <1>5, StripeReports DEF locals
  <2>3. Last \in Nat /\ Last' \in Nat /\ Last < Last'
    BY <2>1, EmittedLast
  <2>4. processed \subseteq 1..Last /\ event \in [Handlers -> 0..Last]
    BY DEF TypeOK, Last
  <2>5. Last' \notin processed' /\ \A h \in Handlers : event'[h] # Last'
    BY <2>2, <2>3, <2>4
  <2>6. \A h \in Handlers : InTurn(h)'
    BY <1>1, <2>2, <2>5 DEF InTurn, Oldest
  <2> QED
    BY <2>1, <2>2, <2>6, BehindStripe
<1>6. ASSUME NEW h \in Handlers, NEW n \in 0..MaxSeats, AddonsUpdate(h, n)
      PROVE  MirrorInv'
  <2>1. PICK s \in Subs, v \in View, kinds \in Seq(Kinds) :
           /\ Changed(s, v, kinds)
           /\ \/ /\ Advance(h, "addons", "persist")
                 /\ snapshot' = [snapshot EXCEPT ![h] = v]
                 /\ UNCHANGED <<event, known>>
              \/ Leave(h, "addons")
           /\ UNCHANGED <<today, billingOpen, offer, doc, processed, counters>>
    BY <1>6, AddonsReports
  <2>2. /\ pc[h] = "addons" /\ event[h] = 0
        /\ pc'[h] \in {"idle", "persist"} /\ event'[h] = 0
        /\ \A g \in Handlers \ {h} : pc'[g] = pc[g] /\ event'[g] = event[g]
    <3>1. pc[h] = "addons" /\ event[h] = 0
      BY <1>1, <1>6 DEF AddonsUpdate, InTurn, Handling
    <3>2. CASE Leave(h, "addons")
      BY <3>1, <3>2 DEF Leave, Advance, TypeOK
    <3>3. CASE Advance(h, "addons", "persist") /\ UNCHANGED <<event, known>>
      BY <3>1, <3>3 DEF Advance, TypeOK
    <3> QED
      BY <2>1, <3>1, <3>2, <3>3
  <2>3. Last \in Nat /\ Last' \in Nat /\ Last < Last'
    BY <2>1, EmittedLast
  <2>4. Last' \notin processed'
    <3>1. processed \subseteq 1..Last
      BY DEF TypeOK, Last
    <3> QED
      BY <2>1, <2>3, <3>1
  <2>5. InTurn(h)'
    BY <2>2, <2>4 DEF InTurn, Granting
  <2>6. \A g \in Handlers : InTurn(g)'
    BY <2>2, <2>5, OthersInTurn
  <2> QED
    BY <2>1, <2>2, <2>6, BehindStripe
<1>7. ASSUME NEW h \in Handlers, UNCHANGED <<stripe, events, doc, processed>>,
             pc[h] # "idle" \/ Quiet, InTurn(h)', pc'[h] # "record",
             \A g \in Handlers \ {h} : pc'[g] = pc[g] /\ event'[g] = event[g]
      PROVE  MirrorInv'
  BY <1>2, <1>7, SameStripe DEF Right
<1>8. ASSUME NEW e \in 1..Len(events), NEW h \in Handlers, Receive(h, e)
      PROVE  MirrorInv'
  <2>1. events[e] \in Event
    BY ElementOfSeq DEF TypeOK, Event, Kinds
  <2>2. /\ pc'[h] \in {"fetch", "persist", "delete"}
        /\ event'[h] = e /\ snapshot'[h] = events[e].of
        /\ e \notin processed /\ Oldest(e) /\ Quiet
        /\ \A g \in Handlers \ {h} : pc'[g] = pc[g] /\ event'[g] = event[g]
        /\ UNCHANGED <<stripe, events, doc, processed>>
    BY <1>8, <2>1 DEF Receive, Enter, TypeOK, Event, Kinds, stripeVars
  <2>3. e # 0 /\ Last' = Last /\ Oldest(e)'
    BY <2>2 DEF Last, Oldest
  <2>4. e = Last => events[e].of = stripe[events[e].of.sub]
    BY <2>3 DEF MirrorInv, Last
  <2>5. InTurn(h)'
    BY <2>2, <2>3, <2>4 DEF InTurn, Granting, Handling, Oldest
  <2> QED
    BY <1>7, <2>2, <2>5
<1>9. ASSUME NEW h \in Handlers, UserCalls(h)
      PROVE  MirrorInv'
  <2>1. ASSUME NEW p \in Granting, TrialRead(h, p), ~HasActiveBase(doc.view)
        PROVE  MirrorInv'
    <3>1. /\ pc'[h] = p /\ event'[h] = event[h] /\ pc[h] = "idle" /\ Quiet
          /\ \A g \in Handlers \ {h} : pc'[g] = pc[g] /\ event'[g] = event[g]
          /\ UNCHANGED <<stripe, events, doc, processed>>
      BY <2>1 DEF TrialRead, Enter, TypeOK, stripeVars
    <3>2. event[h] = 0
      BY <1>1, <3>1 DEF InTurn, Handling
    <3>3. doc.view.sub = NoSub \/ doc.view.status \notin {"trialing", "active", "past_due"}
      BY <2>1 DEF HasActiveBase
    <3>4. InTurn(h)'
      BY <3>1, <3>2, <3>3 DEF InTurn, Granting
    <3> QED
      BY <1>7, <3>1, <3>4 DEF Granting
  <2>2. CASE StartTrialRead(h) \/ ExtendTrialRead(h) \/ StaffExtendRead(h)
    BY <2>1, <2>2
       DEF StartTrialRead, ExtendTrialRead, StaffExtendRead, StaffMayExtend, Granting
  <2>3. CASE AddonsRead(h)
    <3>1. /\ pc'[h] = "addons" /\ event'[h] = event[h] /\ pc[h] = "idle" /\ Quiet
          /\ \A g \in Handlers \ {h} : pc'[g] = pc[g] /\ event'[g] = event[g]
          /\ UNCHANGED <<stripe, events, doc, processed>>
      BY <2>3 DEF AddonsRead, Enter, TypeOK, stripeVars
    <3>2. event[h] = 0
      BY <1>1, <3>1 DEF InTurn, Handling
    <3>3. InTurn(h)'
      BY <3>1, <3>2 DEF InTurn, Granting
    <3> QED
      BY <1>7, <3>1, <3>3
  <2> QED
    BY <1>9, <2>2, <2>3 DEF UserCalls
<1>10. ASSUME NEW h \in Handlers, NEW p, Leave(h, p), p # "idle",
              UNCHANGED <<stripe, events, processed>>,
              Last \in processed => Right(doc.view)'
       PROVE  MirrorInv'
  <2>1. /\ pc[h] # "idle" /\ pc'[h] = "idle" /\ event'[h] = 0
        /\ \A g \in Handlers \ {h} : pc'[g] = pc[g] /\ event'[g] = event[g]
    BY <1>10 DEF Leave, Advance, TypeOK
  <2>2. InTurn(h)'
    BY <2>1 DEF InTurn, Granting
  <2> QED
    BY <1>10, <2>1, <2>2, SameStripe
<1>11. ASSUME NEW h \in Handlers, Fetch(h)
       PROVE  MirrorInv'
  <2>1. /\ pc[h] = "fetch" /\ pc'[h] = "persist" /\ event' = event
        /\ snapshot'[h] = stripe[snapshot[h].sub]
        /\ \A g \in Handlers \ {h} : pc'[g] = pc[g]
        /\ UNCHANGED <<stripe, events, doc, processed>>
    BY <1>11 DEF Fetch, Advance, TypeOK, stripeVars
  <2>2. snapshot'[h] = stripe[snapshot'[h].sub]
    BY <1>1, <2>1 DEF HandlerInv, StripeInv
  <2>3. event[h] # 0 /\ event[h] \notin processed /\ Oldest(event[h])
    BY <1>1, <2>1 DEF InTurn
  <2>4. InTurn(h)'
    BY <2>1, <2>2, <2>3 DEF InTurn, Granting, Handling, Oldest
  <2> QED
    BY <1>7, <2>1, <2>4
<1>12. ASSUME NEW h \in Handlers, pc[h] \in {"persist", "delete"}, event[h] # 0
       PROVE  /\ snapshot[h].sub \in Subs /\ stripe[snapshot[h].sub].status # "none"
              /\ event[h] = Last => snapshot[h] = stripe[snapshot[h].sub]
  BY <1>1, <1>12 DEF HandlerInv, Reported, StripeInv, InTurn
<1>13. ASSUME NEW h \in Handlers, pc[h] \in {"persist", "delete"}, event[h] # 0,
              Advance(h, pc[h], "record"), UNCHANGED <<stripe, events, processed, event>>,
              event[h] = Last => Right(doc.view)'
       PROVE  MirrorInv'
  <2>1. pc'[h] = "record" /\ \A g \in Handlers \ {h} : pc'[g] = pc[g]
    BY <1>13 DEF Advance, TypeOK
  <2>2. event[h] \notin processed /\ Oldest(event[h])
    BY <1>1, <1>13 DEF InTurn
  <2>3. InTurn(h)'
    BY <1>13, <2>1, <2>2 DEF InTurn, Granting, Handling, Oldest
  <2>4. Last \notin processed
    BY <1>13, StillToCome
  <2> QED
    BY <1>13, <2>1, <2>3, <2>4, SameStripe
<1>14. ASSUME NEW h \in Handlers, Persist(h)
       PROVE  MirrorInv'
  <2>1. CASE event[h] = 0
    <3>1. Last \notin processed
      BY <1>1, <1>14, <2>1 DEF Persist, Leave, Advance, InTurn
    <3> QED
      BY <1>10, <1>14, <2>1, <3>1 DEF Persist, stripeVars
  <2>2. CASE event[h] # 0
    <3>1. /\ pc[h] = "persist" /\ Advance(h, pc[h], "record")
          /\ UNCHANGED <<stripe, events, processed, event>>
      BY <1>14, <2>2 DEF Persist, Advance, stripeVars, locals
    <3>2. /\ doc'.view.sub = snapshot[h].sub /\ doc'.view.status = snapshot[h].status
          /\ doc'.view.seats = snapshot[h].seats
      BY <1>14, Written, WrittenView
    <3>3. event[h] = Last => Right(doc.view)'
      BY <1>12, <2>2, <3>1, <3>2 DEF Right
    <3> QED
      BY <1>13, <2>2, <3>1, <3>3
  <2> QED
    BY <2>1, <2>2
<1>15. ASSUME NEW h \in Handlers, Delete(h)
       PROVE  MirrorInv'
  <2>1. /\ pc[h] = "delete" /\ Advance(h, pc[h], "record")
        /\ UNCHANGED <<stripe, events, processed, event>>
    BY <1>15 DEF Delete, Advance, stripeVars, locals
  <2>2. event[h] # 0 /\ snapshot[h].status = "canceled"
    BY <1>1, <2>1 DEF HandlerInv
  <2>3. doc'.view.sub = snapshot[h].sub /\ doc'.view.status = "canceled"
    BY <1>15, Written
  <2>4. event[h] = Last => Right(doc.view)'
    BY <1>12, <2>1, <2>2, <2>3 DEF Right
  <2> QED
    BY <1>13, <2>1, <2>2, <2>4
<1>16. ASSUME NEW h \in Handlers, Record(h)
       PROVE  MirrorInv'
  <2>1. /\ pc[h] = "record" /\ pc'[h] = "idle" /\ event'[h] = 0
        /\ \A g \in Handlers \ {h} : pc'[g] = pc[g] /\ event'[g] = event[g]
        /\ processed' = processed \cup {event[h]}
        /\ UNCHANGED <<stripe, events, doc>>
    BY <1>16 DEF Record, Recorded, Leave, Advance, TypeOK, stripeVars
  <2>2. Oldest(event[h])
    BY <1>1, <2>1 DEF HandlerInv, InTurn
  <2>3. \A e \in processed' : Oldest(e)'
    BY <2>1, <2>2 DEF MirrorInv, Oldest
  <2>4. \A g \in Handlers : pc'[g] = "idle" /\ event'[g] = 0
    BY <2>1, OthersInTurn
  <2>5. \A g \in Handlers : InTurn(g)'
    BY <2>4 DEF InTurn, Granting
  <2>6. Last' = Last
    BY <2>1 DEF Last
  <2>7. LastWritten' => LastWritten
    BY <2>1, <2>4, <2>6 DEF LastWritten
  <2>8. LastWritten' => Right(doc.view)'
    BY <2>1, <2>7 DEF MirrorInv, Right
  <2>9. Last' > 0 => stripe'[events'[Last'].of.sub] = events'[Last'].of
    BY <2>1, <2>6 DEF MirrorInv
  <2> QED
    BY <2>3, <2>5, <2>8, <2>9 DEF MirrorInv
<1>17. ASSUME NEW h \in Handlers, StartTrial(h) \/ ExtendTrial(h) \/ StaffExtend(h)
       PROVE  MirrorInv'
  <2>1. PICK p \in Granting : Leave(h, p)
    BY <1>17 DEF StartTrial, ExtendTrial, StaffExtend, Granting
  <2>2. UNCHANGED <<stripe, events, processed>>
    BY <1>17 DEF StartTrial, ExtendTrial, StaffExtend, stripeVars
  <2>3. doc'.view.sub = doc.view.sub /\ doc'.view.status = "trialing"
    BY <1>17, Written, WrittenView
  <2>4. doc.view.sub = NoSub \/ doc.view.status \notin {"trialing", "active", "past_due"}
    BY <1>1, <2>1 DEF Leave, Advance, InTurn
  <2>5. ASSUME Last \in processed
        PROVE  Right(doc.view)'
    <3>1. Right(doc.view)
      BY <1>2, <2>5
    <3>2. doc.view.status \in Statuses /\ stripe[doc.view.sub].status \in Statuses
      BY <3>1 DEF Right, TypeOK, View
    <3>3. stripe[doc.view.sub].status \in {"unpaid", "canceled"}
      BY <2>4, <3>1, <3>2, SubscriptionsAssumption DEF Right, Statuses
    <3> QED
      BY <2>2, <2>3, <3>1, <3>3 DEF Right
  <2> QED
    BY <1>10, <2>1, <2>2, <2>5 DEF Granting
<1>18. ASSUME NEW h \in Handlers, AddonsGiveUp(h)
       PROVE  MirrorInv'
  <2>1. Leave(h, "addons") /\ UNCHANGED <<stripe, events, processed, doc>>
    BY <1>18 DEF AddonsGiveUp, stripeVars
  <2>2. Last \in processed => Right(doc.view)'
    BY <1>2, <2>1 DEF Right
  <2> QED
    BY <1>10, <2>1, <2>2
<1>19. ASSUME NEW h \in Handlers, Continue(h) \/ Fail(h)
       PROVE  MirrorInv'
  BY <1>6, <1>11, <1>14, <1>15, <1>16, <1>17, <1>18, <1>19 DEF Continue, Fail
<1> QED
  BY <1>4, <1>5, <1>8, <1>9, <1>19 DEF Next, Deliver

(* Handlers that do not overlap, with events in their order: once every    *)
(* event is processed the document says what Stripe says.                  *)
THEOREM StripeIsMirrored ==
  ASSUME Serial
  PROVE  Spec => []MirrorsStripe
<1>1. SubscriptionsInv /\ MirrorInv => MirrorsStripe
  <2> SUFFICES ASSUME SubscriptionsInv, MirrorInv, CaughtUp, Len(events) > 0
               PROVE  Right(doc.view)
    BY DEF MirrorsStripe, Right
  <2>1. Len(events) \in 1..Len(events)
    BY LenProperties DEF SubscriptionsInv, TypeOK
  <2> QED
    BY <2>1 DEF CaughtUp, MirrorInv, LastWritten, Last
<1>2. Spec => []MirrorInv
  BY MirrorInit, MirrorStep, SubscriptionsInvariant, PTL DEF Spec
<1> QED
  BY <1>1, <1>2, SubscriptionsInvariant, PTL

-----------------------------------------------------------------------------
(* A subscription has its trial at the start, if it has one: once Stripe   *)
(* has reported something else of it, it reports no trial any more.        *)
OnceInv ==
  /\ \A s \in Subs : offer[s] # "used" => stripe[s].status = "none"
  /\ \A e \in 1..Len(events) :
       events[e].of.status # "trialing" => stripe[events[e].of.sub].status # "trialing"
  /\ \A d, e \in 1..Len(events) :
       d < e /\ events[d].of.sub = events[e].of.sub /\ events[e].of.status = "trialing"
         => events[d].of.status = "trialing"

(* A handler that is about to write a trial has it from the event it       *)
(* handles; what a user's change of seats writes is no trial of a          *)
(* subscription that pays.                                                 *)
Holds(h) ==
  /\ pc[h] = "fetch" => snapshot[h] = events[event[h]].of
  /\ pc[h] = "addons" => snapshot[h] = doc.view
  /\ pc[h] = "persist" /\ event[h] # 0 =>
       /\ snapshot[h].sub = events[event[h]].of.sub
       /\ snapshot[h].status = "trialing" => events[event[h]].of.status = "trialing"
  /\ pc[h] = "persist" /\ event[h] = 0 /\ snapshot[h].status = "trialing" =>
       doc.view.status \notin Paid

TrialInv == OnceInv /\ (Serial => \A h \in Handlers : Holds(h))

LEMMA TrialInit == Init => TrialInv
<1> SUFFICES ASSUME Init  PROVE TrialInv
  OBVIOUS
<1>1. events = << >> /\ Len(events) = 0
  BY DEF Init
<1>2. \A s \in Subs : stripe[s].status = "none"
  BY DEF Init, Nothing
<1>3. OnceInv
  BY <1>1, <1>2 DEF OnceInv
<1>4. \A h \in Handlers : Holds(h)
  BY DEF Init, Holds
<1> QED
  BY <1>3, <1>4 DEF TrialInv

(* A subscription that is still on offer was on offer, and Stripe does not *)
(* have it yet.                                                            *)
LEMMA OfferStep ==
  ASSUME SubscriptionsInv, OnceInv, [Next]_vars, NEW s \in Subs, offer'[s] # "used"
  PROVE  offer[s] # "used" /\ stripe'[s] = stripe[s]
<1>1. offer \in [Subs -> {"none", "trial", "paid", "used"}] /\ stripe \in [Subs -> View]
  BY DEF SubscriptionsInv, TypeOK
<1>2. CASE UNCHANGED <<offer, stripe>>
  BY <1>2
<1>3. ASSUME NEW x \in Subs, NEW v, stripe' = [stripe EXCEPT ![x] = v],
             UNCHANGED offer, stripe[x].status # "none"
      PROVE  offer[s] # "used" /\ stripe'[s] = stripe[s]
  BY <1>1, <1>3 DEF OnceInv
<1>4. CASE StripeActs
  <2>1. PICK x \in Subs : \/ CheckoutDone(x)
                          \/ Pays(x)
                          \/ FailsToPay(x)
                          \/ GivesUp(x)
                          \/ Cancels(x)
                          \/ \E n \in 0..MaxSeats : ChangesSeats(x, n)
    BY <1>4 DEF StripeActs
  <2>2. CASE CheckoutDone(x)
    BY <1>1, <2>2 DEF CheckoutDone
  <2>3. CASE ~CheckoutDone(x)
    <3>1. /\ stripe[x].status # "none" /\ UNCHANGED offer
          /\ \E v : stripe' = [stripe EXCEPT ![x] = v]
      BY <2>1, <2>3 DEF Pays, FailsToPay, GivesUp, Cancels, ChangesSeats, StripeChange
    <3> QED
      BY <1>3, <3>1
  <2> QED
    BY <2>2, <2>3
<1>5. ASSUME NEW h \in Handlers, NEW n \in 0..MaxSeats, AddonsUpdate(h, n)
      PROVE  offer[s] # "used" /\ stripe'[s] = stripe[s]
  <2>1. snapshot[h].sub \in Subs
    BY <1>5 DEF SubscriptionsInv, HandlerInv, AddonsUpdate
  <2>2. /\ stripe[snapshot[h].sub].status # "none" /\ UNCHANGED offer
        /\ \E v : stripe' = [stripe EXCEPT ![snapshot[h].sub] = v]
    BY <1>5 DEF AddonsUpdate
  <2> QED
    BY <1>3, <2>1, <2>2
<1>6. ASSUME NEW x \in Subs, CreateCheckoutSession(x)
      PROVE  offer[s] # "used" /\ stripe'[s] = stripe[s]
  BY <1>1, <1>6 DEF CreateCheckoutSession
<1>7. ASSUME NEW h \in Handlers, UserCalls(h) \/ Fail(h)
      PROVE  UNCHANGED <<offer, stripe>>
  BY <1>7 DEF UserCalls, StartTrialRead, ExtendTrialRead, StaffExtendRead, TrialRead,
              AddonsRead, Fail, stripeVars
<1>8. ASSUME NEW h \in Handlers, Continue(h), ~ \E n \in 0..MaxSeats : AddonsUpdate(h, n)
      PROVE  UNCHANGED <<offer, stripe>>
  BY <1>8 DEF Continue, Fetch, Persist, Delete, Record, StartTrial, ExtendTrial,
              StaffExtend, AddonsGiveUp, stripeVars
<1>9. CASE \/ NextDay
           \/ OpenBilling
           \/ \E e \in 1..Len(events) : Deliver(e)
           \/ UNCHANGED vars
  BY <1>9 DEF NextDay, OpenBilling, Deliver, Receive, vars, stripeVars
<1> QED
  BY <1>2, <1>4, <1>5, <1>6, <1>7, <1>8, <1>9 DEF Next

(* A subscription of which Stripe has reported an event is no longer on    *)
(* offer, so that a trial is reported of it only as long as it is one.     *)
LEMMA OnceStep ==
  ASSUME SubscriptionsInv, OnceInv, [Next]_vars
  PROVE  OnceInv'
<1>1. events \in Seq(Event) /\ Len(events) \in Nat /\ stripe \in [Subs -> View]
  BY LenProperties DEF SubscriptionsInv, TypeOK, Event, Kinds
<1>2. \A s \in Subs : offer'[s] # "used" => stripe'[s].status = "none"
  BY OfferStep DEF OnceInv
<1>3. CASE UNCHANGED <<stripe, events>>
  BY <1>2, <1>3 DEF OnceInv
<1>4. ASSUME NEW s \in Subs, NEW v \in View, NEW kinds \in Seq(Kinds), Changed(s, v, kinds)
      PROVE  OnceInv'
  <2>1. /\ Len(kinds) \in Nat
        /\ Len(events') = Len(events) + Len(kinds)
        /\ \A e \in 1..Len(events) : events'[e] = events[e]
        /\ \A k \in 1..Len(kinds) : events'[Len(events) + k] = [kind |-> kinds[k], of |-> v]
    BY <1>1, <1>4, EmitFacts, LenProperties DEF Changed
  <2>2. /\ v.sub = s /\ stripe'[s] = v
        /\ \A x \in Subs \ {s} : stripe'[x] = stripe[x]
    BY <1>1, <1>4 DEF Changed
  <2>3. ASSUME NEW e \in 1..Len(events), events[e].of.sub = s, v.status = "trialing"
        PROVE  events[e].of.status = "trialing"
    <3>1. stripe[s].status # "none"
      BY <2>3 DEF SubscriptionsInv, StripeInv
    <3>2. stripe[s].status = "trialing"
      BY <1>4, <2>3, <3>1 DEF Changed, OnceInv
    <3> QED
      BY <2>3, <3>2 DEF OnceInv
  <2>4. ASSUME NEW e \in 1..Len(events'), e \notin 1..Len(events)
        PROVE  events'[e].of = v
    <3>1. e - Len(events) \in 1..Len(kinds) /\ e = Len(events) + (e - Len(events))
      BY <1>1, <2>1, <2>4
    <3>2. events'[e] = [kind |-> kinds[e - Len(events)], of |-> v]
      BY <2>1, <3>1
    <3> QED
      BY <3>2
  <2>5. ASSUME NEW e \in 1..Len(events'), events'[e].of.status # "trialing"
        PROVE  stripe'[events'[e].of.sub].status # "trialing"
    <3>1. CASE e \in 1..Len(events)
      <4>1. /\ events'[e] = events[e] /\ events[e].of.sub \in Subs
            /\ stripe[events[e].of.sub].status # "trialing"
        BY <2>1, <2>5, <3>1 DEF SubscriptionsInv, StripeInv, OnceInv
      <4> QED
        BY <2>2, <2>3, <2>5, <3>1, <4>1
    <3>2. CASE e \notin 1..Len(events)
      BY <2>2, <2>4, <2>5, <3>2
    <3> QED
      BY <3>1, <3>2
  <2>6. ASSUME NEW d \in 1..Len(events'), NEW e \in 1..Len(events'), d < e,
               events'[d].of.sub = events'[e].of.sub, events'[e].of.status = "trialing"
        PROVE  events'[d].of.status = "trialing"
    <3>1. CASE e \in 1..Len(events)
      <4>1. d \in 1..Len(events)
        BY <1>1, <2>1, <2>6, <3>1
      <4> QED
        BY <2>1, <2>6, <3>1, <4>1 DEF OnceInv
    <3>2. CASE e \notin 1..Len(events)
      <4>1. events'[e].of = v
        BY <2>4, <3>2
      <4>2. CASE d \in 1..Len(events)
        BY <2>1, <2>2, <2>3, <2>6, <4>1, <4>2
      <4>3. CASE d \notin 1..Len(events)
        BY <2>4, <2>6, <4>1, <4>3
      <4> QED
        BY <4>2, <4>3
    <3> QED
      BY <3>1, <3>2
  <2> QED
    BY <1>2, <2>5, <2>6 DEF OnceInv
<1> QED
  BY <1>3, <1>4, StripeMoves DEF SubscriptionsInv

(* What the handler that runs holds; the others hold nothing.              *)
LEMMA HoldsStep ==
  ASSUME SubscriptionsInv, MirrorInv, TrialInv, Serial, [Next]_vars
  PROVE  \A h \in Handlers : Holds(h)'
<1> USE DEF SubscriptionsInv
<1>1. \A h \in Handlers : InTurn(h) /\ HandlerInv(h) /\ Holds(h)
  BY DEF MirrorInv, TrialInv
<1>2. Grown /\ event \in [Handlers -> 0..Len(events)] /\ Len(events) \in Nat
  BY StripeStep, LenProperties DEF TypeOK
<1>3. ASSUME UNCHANGED <<doc, pc, event, snapshot>>
      PROVE  \A h \in Handlers : Holds(h)'
  <2> TAKE h \in Handlers
  <2>1. pc[h] = "fetch" => event[h] # 0
    BY <1>1 DEF InTurn
  <2>2. event[h] # 0 => events'[event[h]] = events[event[h]]
    BY <1>2 DEF Grown
  <2> QED
    BY <1>1, <1>3, <2>1, <2>2 DEF Holds
<1>4. CASE \/ NextDay
           \/ OpenBilling
           \/ StripeActs
           \/ \E s \in Subs : CreateCheckoutSession(s)
           \/ UNCHANGED vars
  <2>1. StripeActs => UNCHANGED <<doc, pc, event, snapshot>>
    BY StripeReports DEF locals
  <2> QED
    BY <1>3, <1>4, <2>1 DEF NextDay, OpenBilling, CreateCheckoutSession, vars, locals
<1>5. ASSUME NEW h \in Handlers, pc[h] # "idle" \/ Quiet, Holds(h)',
             \A g \in Handlers \ {h} : pc'[g] = pc[g] /\ event'[g] = event[g]
      PROVE  \A g \in Handlers : Holds(g)'
  <2>1. \A g \in Handlers \ {h} : pc'[g] = "idle"
    BY <1>5, OthersInTurn
  <2> QED
    BY <1>5, <2>1 DEF Holds
<1>6. ASSUME NEW h \in Handlers, pc[h] # "idle" \/ Quiet,
             pc'[h] \notin {"fetch", "addons", "persist"},
             \A g \in Handlers \ {h} : pc'[g] = pc[g] /\ event'[g] = event[g]
      PROVE  \A g \in Handlers : Holds(g)'
  BY <1>5, <1>6 DEF Holds
<1>7. ASSUME NEW h \in Handlers, NEW p, Leave(h, p), p # "idle"
      PROVE  \A g \in Handlers : Holds(g)'
  BY <1>6, <1>7, LeaveFacts
<1>8. ASSUME NEW e \in 1..Len(events), NEW h \in Handlers, Receive(h, e)
      PROVE  \A g \in Handlers : Holds(g)'
  <2>1. events[e] \in Event
    BY ElementOfSeq DEF TypeOK, Event, Kinds
  <2>2. /\ pc'[h] \in {"fetch", "persist", "delete"}
        /\ event'[h] = e /\ snapshot'[h] = events[e].of /\ Quiet
        /\ \A g \in Handlers \ {h} : pc'[g] = pc[g] /\ event'[g] = event[g]
        /\ UNCHANGED events
    BY <1>8, <2>1 DEF Receive, Enter, TypeOK, Event, Kinds, stripeVars
  <2>3. e # 0
    OBVIOUS
  <2>4. Holds(h)'
    BY <2>2, <2>3 DEF Holds
  <2> QED
    BY <1>5, <2>2, <2>4
<1>9. ASSUME NEW h \in Handlers, UserCalls(h)
      PROVE  \A g \in Handlers : Holds(g)'
  <2>1. ASSUME NEW p \in Granting, TrialRead(h, p)
        PROVE  \A g \in Handlers : Holds(g)'
    <3>1. /\ pc'[h] = p /\ Quiet
          /\ \A g \in Handlers \ {h} : pc'[g] = pc[g] /\ event'[g] = event[g]
      BY <2>1 DEF TrialRead, Enter, TypeOK
    <3> QED
      BY <1>6, <3>1 DEF Granting
  <2>2. CASE StartTrialRead(h) \/ ExtendTrialRead(h) \/ StaffExtendRead(h)
    BY <2>1, <2>2 DEF StartTrialRead, ExtendTrialRead, StaffExtendRead, Granting
  <2>3. CASE AddonsRead(h)
    <3>1. /\ pc'[h] = "addons" /\ Quiet /\ snapshot'[h] = doc.view /\ UNCHANGED doc
          /\ \A g \in Handlers \ {h} : pc'[g] = pc[g] /\ event'[g] = event[g]
      BY <2>3 DEF AddonsRead, Enter, TypeOK
    <3>2. Holds(h)'
      BY <3>1 DEF Holds
    <3> QED
      BY <1>5, <3>1, <3>2
  <2> QED
    BY <1>9, <2>2, <2>3 DEF UserCalls
<1>10. ASSUME NEW h \in Handlers, Fetch(h)
       PROVE  \A g \in Handlers : Holds(g)'
  <2>1. /\ pc[h] = "fetch" /\ pc'[h] = "persist" /\ UNCHANGED <<event, events>>
        /\ snapshot'[h] = stripe[snapshot[h].sub]
        /\ \A g \in Handlers \ {h} : pc'[g] = pc[g]
    BY <1>10 DEF Fetch, Advance, TypeOK, stripeVars
  <2>2. /\ event[h] \in 1..Len(events) /\ event[h] # 0
        /\ snapshot[h] = events[event[h]].of
    BY <1>1, <1>2, <2>1 DEF InTurn, Holds
  <2>3. /\ stripe[snapshot[h].sub].sub = snapshot[h].sub
        /\ stripe[snapshot[h].sub].status = "trialing" => events[event[h]].of.status = "trialing"
    BY <1>1, <2>1, <2>2 DEF HandlerInv, StripeInv, TrialInv, OnceInv
  <2>4. Holds(h)'
    BY <2>1, <2>2, <2>3 DEF Holds
  <2> QED
    BY <1>5, <2>1, <2>4
<1>11. ASSUME NEW h \in Handlers, NEW n \in 0..MaxSeats, AddonsUpdate(h, n)
       PROVE  \A g \in Handlers : Holds(g)'
  <2> DEFINE s == snapshot[h].sub
             v == [stripe[s] EXCEPT !.seats = n]
  <2>1. /\ pc[h] = "addons" /\ UNCHANGED doc
        /\ \/ /\ Advance(h, "addons", "persist")
              /\ snapshot' = [snapshot EXCEPT ![h] = v]
              /\ UNCHANGED event
           \/ Leave(h, "addons")
    BY <1>11 DEF AddonsUpdate
  <2>2. /\ event[h] = 0 /\ snapshot[h] = doc.view /\ s \in Subs
    BY <1>1, <2>1 DEF InTurn, Handling, Holds, HandlerInv
  <2>3. v.status = stripe[s].status
    BY <2>2 DEF TypeOK, View
  <2>4. v.status = "trialing" => doc.view.status \notin Paid
    <3>1. doc.view.status \in Paid =>
            \E e \in 1..Len(events) : events[e].of.sub = s /\ events[e].of.status \in Paid
      BY <2>2 DEF StatusWasReported, Paid
    <3>2. doc.view.status \in Paid => stripe[s].status # "trialing"
      BY <3>1 DEF TrialInv, OnceInv, Paid
    <3> QED
      BY <2>3, <3>2
  <2> HIDE DEF v
  <2>5. CASE /\ Advance(h, "addons", "persist")
             /\ snapshot' = [snapshot EXCEPT ![h] = v]
             /\ UNCHANGED event
    <3>1. /\ pc'[h] = "persist" /\ snapshot'[h] = v /\ event'[h] = 0
          /\ \A g \in Handlers \ {h} : pc'[g] = pc[g] /\ event'[g] = event[g]
      BY <2>2, <2>5 DEF Advance, TypeOK
    <3>2. Holds(h)'
      BY <2>1, <2>4, <3>1 DEF Holds
    <3> QED
      BY <1>5, <2>1, <3>1, <3>2
  <2> QED
    BY <1>7, <2>1, <2>5
<1>12. ASSUME NEW h \in Handlers, Persist(h) \/ Delete(h)
       PROVE  \A g \in Handlers : Holds(g)'
  <2>1. \/ \E p : Leave(h, p) /\ p # "idle"
        \/ /\ pc[h] # "idle" /\ pc'[h] = "record"
           /\ \A g \in Handlers \ {h} : pc'[g] = pc[g] /\ event'[g] = event[g]
    BY <1>12 DEF Persist, Delete, Advance, TypeOK, locals
  <2> QED
    BY <1>6, <1>7, <2>1
<1>13. ASSUME NEW h \in Handlers, \/ Record(h)
                                  \/ StartTrial(h)
                                  \/ ExtendTrial(h)
                                  \/ StaffExtend(h)
                                  \/ AddonsGiveUp(h)
       PROVE  \A g \in Handlers : Holds(g)'
  BY <1>7, <1>13 DEF Record, Recorded, StartTrial, ExtendTrial, StaffExtend, AddonsGiveUp
<1>14. ASSUME NEW h \in Handlers, Continue(h) \/ Fail(h)
       PROVE  \A g \in Handlers : Holds(g)'
  BY <1>10, <1>11, <1>12, <1>13, <1>14 DEF Continue, Fail
<1> QED
  BY <1>4, <1>8, <1>9, <1>14 DEF Next, Deliver

LEMMA TrialStep ==
  ASSUME SubscriptionsInv, MirrorInv, TrialInv, [Next]_vars
  PROVE  TrialInv'
<1>1. OnceInv'
  BY OnceStep DEF TrialInv
<1> QED
  BY <1>1, HoldsStep DEF TrialInv

(* The write of a trial over a status that is paid.                        *)
LEMMA TrialWritten ==
  ASSUME SubscriptionsInv, MirrorInv, TrialInv, Serial, NEW h \in Handlers, Persist(h),
         doc.view.status \in Paid, doc'.view.status = "trialing"
  PROVE  \E e \in 1..Len(events) :
           /\ WritesTrialOf(h, e)
           /\ doc'.view.sub = doc.view.sub => ReportToCome(doc.view, e)
<1> USE DEF SubscriptionsInv
<1> DEFINE e == event[h]
<1>1. /\ pc[h] = "persist"
      /\ doc'.view.sub = snapshot[h].sub /\ snapshot[h].status = "trialing"
  BY Written DEF Persist, Leave, Advance
<1>2. Holds(h) /\ InTurn(h)
  BY DEF TrialInv, MirrorInv
<1>3. e # 0
  BY <1>1, <1>2 DEF Holds
<1>4. /\ e \in 1..Len(events) /\ e \notin processed /\ Len(events) \in Nat
      /\ events[e].of.sub = doc'.view.sub /\ events[e].of.status = "trialing"
  BY <1>1, <1>2, <1>3, LenProperties DEF TypeOK, InTurn, Holds
<1>5. pc'[h] = "record"
  BY <1>3 DEF Persist, Advance, TypeOK
<1>6. WritesTrialOf(h, e)
  BY <1>1, <1>4, <1>5 DEF WritesTrialOf
<1>7. ASSUME doc'.view.sub = doc.view.sub
      PROVE  ReportToCome(doc.view, e)
  <2>1. PICK d \in 1..Len(events) : /\ events[d].of.sub = doc.view.sub
                                    /\ events[d].of.status = doc.view.status
    BY DEF StatusWasReported, Paid
  <2>2. events[d].of.status # "trialing"
    BY <2>1 DEF Paid
  <2>3. ~(d < e) /\ d # e
    BY <1>4, <1>7, <2>1, <2>2 DEF TrialInv, OnceInv
  <2>4. d \in (e + 1)..Len(events) /\ e \in 1..(d - 1)
    BY <1>4, <2>3
  <2>5. d \notin processed
    BY <1>4, <2>4 DEF MirrorInv, Oldest
  <2> QED
    BY <2>1, <2>4, <2>5 DEF ReportToCome
<1> QED
  BY <1>4, <1>6, <1>7

(* No trial operation replaces a paid status if handlers do not overlap    *)
(* and events come in order.  The webhook that does reports a trial of     *)
(* another subscription, or is followed by the event of the paid status.   *)
THEOREM PaidIsNotDemoted ==
  ASSUME Serial
  PROVE  Spec => PaidNotDemoted
<1> DEFINE Justified ==
      doc.view.status \in Paid /\ doc'.view.status = "trialing"
        => \E h \in Handlers, e \in 1..Len(events) :
             /\ WritesTrialOf(h, e)
             /\ doc'.view.sub = doc.view.sub => ReportToCome(doc.view, e)
<1>1. SubscriptionsInv /\ MirrorInv /\ TrialInv /\ [Next]_vars => [Justified]_doc
  <2> SUFFICES ASSUME SubscriptionsInv, MirrorInv, TrialInv, [Next]_vars, doc' # doc
               PROVE  Justified
    OBVIOUS
  <2>1. ASSUME NEW h \in Handlers, Persist(h)
        PROVE  Justified
    BY <2>1, TrialWritten
  <2>2. ASSUME NEW h \in Handlers, Delete(h)
        PROVE  Justified
    BY <2>2, Written DEF SubscriptionsInv
  <2>3. ASSUME NEW h \in Handlers, StartTrial(h) \/ ExtendTrial(h) \/ StaffExtend(h)
        PROVE  Justified
    BY <2>3
       DEF StartTrial, ExtendTrial, StaffExtend, Leave, Advance, SubscriptionsInv, SerialInv,
           Paid
  <2> QED
    BY <2>1, <2>2, <2>3, Writers
<1>2. Spec => []MirrorInv
  BY MirrorInit, MirrorStep, SubscriptionsInvariant, PTL DEF Spec
<1>3. Spec => []TrialInv
  BY <1>2, TrialInit, TrialStep, SubscriptionsInvariant, PTL DEF Spec
<1> QED
  BY <1>1, <1>2, <1>3, SubscriptionsInvariant, PTL DEF Spec, PaidNotDemoted

=============
