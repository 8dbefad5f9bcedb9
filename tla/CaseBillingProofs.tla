-------------------------- MODULE CaseBillingProofs --------------------------
(***************************************************************************)
(* What CaseBilling promises, for any quote, amounts, invoices and stops.  *)
(***************************************************************************)
EXTENDS CaseBilling, DataLemmas

-----------------------------------------------------------------------------
(* Types.                                                                  *)

Places == {"idle", "list", "insert", "finalize", "pay", "cancel", "credit",
           "recompute", "weigh", "apply", "sync", "mark", "accept", "toInvoice"}

(* A request that is about to save an invoice has one.                     *)
Saving == {"finalize", "pay", "cancel", "credit"}
PointersOK == \A r \in Requests : pc[r] \in Saving => op[r].id \in DOMAIN invoices

TypeInv == TypeOK /\ PointersOK

(* The invoices of a case.                                                 *)
LEMMA InvoiceFacts ==
  ASSUME invoices \in Seq(Invoice)
  PROVE  /\ IsFiniteSet(DOMAIN invoices)
         /\ \A i \in DOMAIN invoices :
              /\ i \in Nat
              /\ invoices[i] \in Invoice
              /\ invoices[i].status \in InvoiceStatuses
              /\ invoices[i].amount \in Int /\ invoices[i].situation \in Nat
  <1>1. \A i \in DOMAIN invoices : i \in Nat /\ invoices[i] \in Invoice
    BY SeqFacts
  <1> QED  BY <1>1, SeqFacts DEF Invoice

(* Some of them, and what they add up to.                                  *)
LEMMA SomeFinite ==
  ASSUME invoices \in Seq(Invoice), NEW I \in SUBSET DOMAIN invoices
  PROVE  IsFiniteSet(I) /\ I \subseteq Nat /\ Sum(I) \in Int
  <1>1. IsFiniteSet(I) /\ I \subseteq Nat  BY InvoiceFacts, FS_Subset
  <1> DEFINE f == [i \in DOMAIN invoices |-> invoices[i].amount]
  <1>2. \A i \in I : f[i] \in Int  BY InvoiceFacts
  <1> HIDE DEF f
  <1>3. SumFunctionOnSet(f, I) \in Int  BY <1>1, <1>2, SumType
  <1> QED  BY <1>1, <1>3 DEF Sum, f

(* An element more adds to the sum.                                        *)
LEMMA SumWith ==
  ASSUME NEW f, NEW S, IsFiniteSet(S), NEW x, x \notin S,
         \A y \in S : f[y] \in Int, f[x] \in Int
  PROVE  SumFunctionOnSet(f, S \cup {x}) = f[x] + SumFunctionOnSet(f, S)
  <1> DEFINE T == S \cup {x}
  <1>1. IsFiniteSet(T) /\ x \in T /\ T \ {x} = S  BY FS_AddElement
  <1>2. \A y \in T : f[y] \in Int  OBVIOUS
  <1> HIDE DEF T
  <1>3. SumFunctionOnSet(f, T) = f[x] + SumFunctionOnSet(f, T \ {x})
    BY <1>1, <1>2, SumWithout
  <1> QED  BY <1>1, <1>3 DEF T

LEMMA Subsets ==
  /\ Active \in SUBSET DOMAIN invoices /\ Quoted \in SUBSET Active
  /\ Situations \in SUBSET Quoted /\ Quoted \in SUBSET DOMAIN invoices
  /\ Situations \in SUBSET DOMAIN invoices
  BY DEF Active, Listed, Quoted, Situations

(* The greatest of a finite set of naturals.                               *)
LEMMA MaxFacts ==
  ASSUME NEW S \in SUBSET Nat, IsFiniteSet(S), S # {}
  PROVE  Max(S) \in S /\ \A x \in S : Max(S) >= x
  BY FiniteGreatest DEF HasGreatest, Max

(* The next situation comes after all there are.                           *)
LEMMA NextIsNew ==
  ASSUME invoices \in Seq(Invoice)
  PROVE  /\ NextSituation \in Nat
         /\ \A i \in Situations : invoices[i].situation < NextSituation
  <1> DEFINE S == {invoices[i].situation : i \in Situations}
             T == S \cup {0}
  <1>1. IsFiniteSet(Situations)  BY Subsets, SomeFinite
  <1>2. IsFiniteSet(S)
    <2> DEFINE f == [i \in Situations |-> invoices[i].situation]
    <2>1. f \in Surjection(Situations, S)  BY DEF Surjection
    <2> HIDE DEF f, S
    <2> QED  BY <1>1, <2>1, FS_Surjection
  <1>3. IsFiniteSet(T)  BY <1>2, FS_AddElement
  <1>4. T \subseteq Nat  BY Subsets, InvoiceFacts
  <1>5. T # {} /\ \A i \in Situations : invoices[i].situation \in T  OBVIOUS
  <1>6. NextSituation = Max(T) + 1  BY DEF NextSituation
  <1> HIDE DEF T
  <1>7. Max(T) \in T /\ \A x \in T : Max(T) >= x  BY <1>3, <1>4, <1>5, MaxFacts
  <1>8. Max(T) \in Nat  BY <1>4, <1>7
  <1>9. ASSUME NEW i \in Situations  PROVE invoices[i].situation < NextSituation
    <2>1. invoices[i].situation \in T /\ invoices[i].situation \in Nat
      BY <1>4, <1>5
    <2> QED  BY <1>6, <1>7, <1>8, <2>1
  <1> QED  BY <1>6, <1>8, <1>9

LEMMA AggregateType == \A total : Aggregate(total) \in BillingStatuses
  BY DEF Aggregate, BillingStatuses

LEMMA WorkStatusType ==
  \A status \in InvoiceStatuses : WorkStatus(status) \in BillingStatuses
  BY DEF WorkStatus, InvoiceStatuses, BillingStatuses

LEMMA BackToType ==
  ASSUME invoices \in Seq(Invoice), NEW id
  PROVE  BackTo(id) \in BillingStatuses
  <1> DEFINE others == {i \in Active \ {id} : invoices[i].work}
  <1>1. others \in SUBSET DOMAIN invoices  BY Subsets
  <1>2. CASE others = {}  BY <1>2 DEF BackTo, BillingStatuses
  <1>3. CASE others # {}
    <2>1. IsFiniteSet(others) /\ others \subseteq Nat  BY <1>1, SomeFinite
    <2>2. BackTo(id) = WorkStatus(invoices[Max(others)].status)
      BY <1>3 DEF BackTo
    <2> HIDE DEF others
    <2>3. Max(others) \in others  BY <1>3, <2>1, MaxFacts
    <2>4. invoices[Max(others)].status \in InvoiceStatuses
      BY <1>1, <2>3, InvoiceFacts
    <2> QED  BY <2>2, <2>4, WorkStatusType
  <1> QED  BY <1>2, <1>3

(* The amounts of an invoice of a kind.                                    *)
LEMMA AmountsType ==
  ASSUME NEW kind, NEW already \in Int, NEW amount \in Amounts(kind, already)
  PROVE  /\ amount \in Int /\ amount > 0
         /\ kind # "custom" /\ already <= QuoteTotal => already + amount <= QuoteTotal
  BY CaseBillingAssumption DEF Amounts

-----------------------------------------------------------------------------
(* A request that enters with a well-formed question keeps the types ...   *)
LEMMA EnterType ==
  ASSUME TypeInv, NEW r \in Requests, NEW to \in Places, NEW o \in Op,
         to \in Saving => o.id \in DOMAIN invoices,
         Enter(r, to, o), accepted' \in BOOLEAN,
         UNCHANGED <<billing, work, invoices, aborts, stale>>
  PROVE  TypeInv'
  <1>1. TypeOK'
    BY DEF Enter, TypeInv, TypeOK, Places
  <1>2. PointersOK'
    BY DEF Enter, TypeInv, TypeOK, PointersOK
  <1> QED  BY <1>1, <1>2 DEF TypeInv

(* ... and so does one that goes on or ends.                               *)
LEMMA GoOnType ==
  ASSUME TypeInv, NEW r \in Requests, NEW from \in Places, NEW to \in Places \ Saving,
         Advance(r, from, to), op' \in [Requests -> Op],
         \A s \in Requests \ {r} : op'[s] = op[s],
         invoices' \in Seq(Invoice), DOMAIN invoices \subseteq DOMAIN invoices',
         billing' \in BillingStatuses, work' \in BillingStatuses, stale' \in BOOLEAN,
         UNCHANGED <<accepted, aborts>>
  PROVE  TypeInv'
  <1>1. pc' \in [Requests -> Places]  BY DEF Advance, TypeInv, TypeOK, Places
  <1>2. TypeOK'
    BY <1>1 DEF TypeInv, TypeOK, Places
  <1>3. PointersOK'
    BY DEF Advance, TypeInv, TypeOK, PointersOK
  <1> QED  BY <1>2, <1>3 DEF TypeInv

LEMMA NoOpType == NoOp \in Op
  BY CaseBillingAssumption
     DEF NoOp, Op, FromQuote, InvoiceStatuses, BillingStatuses

(* What Leave does is to go to "idle" with no question.                    *)
LEMMA LeaveType ==
  ASSUME TypeInv, NEW r \in Requests, NEW from, Leave(r, from)
  PROVE  /\ op' \in [Requests -> Op]
         /\ \A s \in Requests \ {r} : op'[s] = op[s]
         /\ Advance(r, from, "idle")
  BY NoOpType DEF Leave, TypeInv, TypeOK

(* The calls.                                                              *)
LEMMA CallType ==
  ASSUME TypeInv, NEW r \in Requests, Call(r)
  PROVE  TypeInv'
  <1>1. ASSUME NEW kind \in FromQuote \cup {"custom"}, NEW status \in {"draft", "finalized"},
               NEW bills \in BOOLEAN, CreateRead(r, kind, status, bills)
        PROVE  TypeInv'
    <2> DEFINE o == [NoOp EXCEPT !.kind = kind, !.status = status, !.work = bills,
                                 !.total = IF kind = "custom" THEN 0 ELSE QuoteTotal]
               to == IF kind = "custom" THEN "insert" ELSE "list"
    <2>1. o \in Op
      <3>1. status \in InvoiceStatuses /\ QuoteTotal \in Nat
        BY CaseBillingAssumption DEF InvoiceStatuses
      <3>2. ASSUME NEW b \in Op
            PROVE  [b EXCEPT !.kind = kind, !.status = status, !.work = bills,
                             !.total = IF kind = "custom" THEN 0 ELSE QuoteTotal] \in Op
        BY <3>1 DEF Op
      <3> QED  BY <3>2, NoOpType
    <2>2. Enter(r, to, o)  BY <1>1 DEF CreateRead
    <2>3. to \in Places /\ to \notin Saving  BY DEF Places, Saving
    <2>4. accepted' \in BOOLEAN  BY <1>1 DEF CreateRead, TypeInv, TypeOK
    <2> HIDE DEF o, to
    <2> QED  BY <1>1, <2>1, <2>2, <2>3, <2>4, EnterType DEF CreateRead
  <1>2. ASSUME NEW i \in DOMAIN invoices, NEW status \in InvoiceStatuses,
               NEW to \in {"finalize", "recompute", "pay", "cancel"},
               Enter(r, to, Target(i, status)),
               UNCHANGED <<accepted, billing, work, invoices, aborts, stale>>
        PROVE  TypeInv'
    <2>1. i \in Nat /\ invoices[i] \in Invoice
      BY InvoiceFacts DEF TypeInv, TypeOK
    <2>2. invoices[i].work \in BOOLEAN  BY <2>1, Zenon DEF Invoice
    <2>3. Target(i, status) \in Op /\ Target(i, status).id = i
      <3>1. ASSUME NEW b \in Op, NEW bills \in BOOLEAN
            PROVE  /\ [b EXCEPT !.id = i, !.status = status, !.work = bills] \in Op
                   /\ [b EXCEPT !.id = i, !.status = status, !.work = bills].id = i
        BY <2>1 DEF Op
      <3> QED  BY <2>2, <3>1, NoOpType DEF Target
    <2>5. to \in Places  BY DEF Places
    <2>6. accepted' \in BOOLEAN  BY <1>2 DEF TypeInv, TypeOK
    <2> QED  BY <1>2, <2>3, <2>5, <2>6, EnterType
  <1>3. ASSUME NEW i \in DOMAIN invoices,
               FinalizeRead(r, i) \/ MarkPaidRead(r, i) \/ CancelRead(r, i)
        PROVE  TypeInv'
    BY <1>2, <1>3 DEF FinalizeRead, MarkPaidRead, CancelRead, InvoiceStatuses
  <1>4. ASSUME NEW i \in DOMAIN invoices, CreditRead(r, i)  PROVE TypeInv'
    <2> DEFINE o == [NoOp EXCEPT !.kind = "credit", !.id = i, !.status = "finalized"]
    <2>1. i \in Nat  BY InvoiceFacts DEF TypeInv, TypeOK
    <2>2. o \in Op /\ o.id = i
      <3>1. "finalized" \in InvoiceStatuses  BY DEF InvoiceStatuses
      <3>2. ASSUME NEW b \in Op
            PROVE  /\ [b EXCEPT !.kind = "credit", !.id = i, !.status = "finalized"] \in Op
                   /\ [b EXCEPT !.kind = "credit", !.id = i, !.status = "finalized"].id = i
        BY <2>1, <3>1 DEF Op
      <3> QED  BY <3>2, NoOpType
    <2>4. Enter(r, "credit", o) /\ "credit" \in Places
      BY <1>4 DEF CreditRead, Places
    <2>5. accepted' \in BOOLEAN  BY <1>4 DEF CreditRead, TypeInv, TypeOK
    <2> HIDE DEF o
    <2> QED  BY <1>4, <2>2, <2>4, <2>5, EnterType DEF CreditRead
  <1>5. CASE AcceptQuote(r)
    <2>1. Enter(r, "accept", NoOp) /\ accepted' \in BOOLEAN
      BY <1>5 DEF AcceptQuote
    <2>2. "accept" \in Places /\ "accept" \notin Saving  BY DEF Places, Saving
    <2> QED  BY <1>5, <2>1, <2>2, NoOpType, EnterType DEF AcceptQuote
  <1>6. ASSUME NEW b \in BillingStatuses, EditBilling(r, b)  PROVE TypeInv'
    BY <1>6 DEF EditBilling, TypeInv, TypeOK, PointersOK
  <1> QED  BY <1>1, <1>3, <1>4, <1>5, <1>6 DEF Call

(* What follows the derivation of the status of the case.                  *)
LEMMA AfterType ==
  ASSUME TypeInv, NEW r \in Requests, NEW from, AfterBilling(r, from)
  PROVE  \E to \in Places \ Saving :
           /\ Advance(r, from, to)
           /\ op' \in [Requests -> Op]
           /\ \A s \in Requests \ {r} : op'[s] = op[s]
  <1>1. "idle" \in Places \ Saving /\ "sync" \in Places \ Saving  BY DEF Places, Saving
  <1>2. CASE op[r].work
    BY <1>1, <1>2 DEF AfterBilling, TypeInv, TypeOK
  <1>3. CASE ~op[r].work
    BY <1>1, <1>3, LeaveType DEF AfterBilling
  <1> QED  BY <1>2, <1>3

(* The steps of a request.                                                 *)
LEMMA ContinueType ==
  ASSUME TypeInv, NEW r \in Requests, Continue(r)
  PROVE  TypeInv'
  <1>1. /\ op[r] \in Op /\ invoices \in Seq(Invoice) /\ op \in [Requests -> Op]
        /\ billing \in BillingStatuses /\ work \in BillingStatuses /\ stale \in BOOLEAN
    BY DEF TypeInv, TypeOK
  <1>2. ASSUME NEW from \in Places, NEW to \in Places \ Saving, Advance(r, from, to),
               NEW o \in Op, op' = [op EXCEPT ![r] = o],
               UNCHANGED <<accepted, billing, work, invoices, aborts, stale>>
        PROVE  TypeInv'
    <2>1. op' \in [Requests -> Op] /\ \A s \in Requests \ {r} : op'[s] = op[s]
      BY <1>1, <1>2
    <2> QED  BY <1>1, <1>2, <2>1, GoOnType
  <1>3. ASSUME NEW from \in Places, Leave(r, from), work' \in BillingStatuses,
               billing' \in BillingStatuses, stale' \in BOOLEAN,
               UNCHANGED <<accepted, invoices, aborts>>
        PROVE  TypeInv'
    <2>1. "idle" \in Places \ Saving  BY DEF Places, Saving
    <2> QED  BY <1>1, <1>3, <2>1, LeaveType, GoOnType
  <1>4. ASSUME NEW from \in Places, AfterBilling(r, from),
               billing' \in BillingStatuses, stale' \in BOOLEAN,
               UNCHANGED <<accepted, work, invoices, aborts>>
        PROVE  TypeInv'
    BY <1>1, <1>4, AfterType, GoOnType
  <1>5. CASE CreateList(r)
    <2> DEFINE situation == IF op[r].kind = "situation" THEN NextSituation ELSE 0
               o == [op[r] EXCEPT !.already = AlreadyInvoiced, !.situation = situation]
    <2>1. AlreadyInvoiced \in Int
      BY <1>1, Subsets, SomeFinite DEF AlreadyInvoiced
    <2>2. situation \in Nat  BY <1>1, NextIsNew
    <2>3. op' = [op EXCEPT ![r] = o]  BY <1>1, <1>5 DEF CreateList
    <2> HIDE DEF situation
    <2>4. o \in Op  BY <1>1, <2>1, <2>2 DEF Op
    <2>5. Advance(r, "list", "insert") /\ "list" \in Places /\ "insert" \in Places \ Saving
      BY <1>5 DEF CreateList, Places, Saving
    <2> HIDE DEF o
    <2> QED  BY <1>2, <1>5, <2>3, <2>4, <2>5 DEF CreateList
  <1>6. CASE CreateInsert(r)
    <2>1. PICK amount \in Amounts(op[r].kind, op[r].already) :
            invoices' = Append(invoices,
              [status |-> op[r].status, deleted |-> FALSE, amount |-> amount,
               quoted |-> op[r].kind # "custom", situation |-> op[r].situation,
               work |-> op[r].work])
      BY <1>6 DEF CreateInsert
    <2> DEFINE e == [status |-> op[r].status, deleted |-> FALSE, amount |-> amount,
                     quoted |-> op[r].kind # "custom", situation |-> op[r].situation,
                     work |-> op[r].work]
    <2>2. amount \in Int
      BY <1>1, AmountsType DEF Op
    <2>3. op[r].work \in BOOLEAN  BY <1>1, Zenon DEF Op
    <2>4. e \in Invoice  BY <1>1, <2>2, <2>3 DEF Op, Invoice
    <2>5. invoices' = Append(invoices, e)  BY <2>1
    <2> HIDE DEF e
    <2>6. invoices' \in Seq(Invoice) /\ DOMAIN invoices \subseteq DOMAIN invoices'
      BY <1>1, <2>4, <2>5, SeqAdd
    <2>7. Len(invoices) + 1 \in Nat  BY <1>1, SeqFacts
    <2>8. [op[r] EXCEPT !.id = Len(invoices) + 1] \in Op  BY <1>1, <2>7 DEF Op
    <2>9. op' = [op EXCEPT ![r] = [op[r] EXCEPT !.id = Len(invoices) + 1]]
      BY <1>1, <1>6 DEF CreateInsert
    <2>10. op' \in [Requests -> Op] /\ \A s \in Requests \ {r} : op'[s] = op[s]
      BY <1>1, <2>8, <2>9
    <2>11. /\ Advance(r, "insert", "recompute")
           /\ "insert" \in Places /\ "recompute" \in Places \ Saving
           /\ UNCHANGED <<accepted, billing, work, aborts, stale>>
      BY <1>6 DEF CreateInsert, Places, Saving
    <2> QED  BY <1>1, <2>6, <2>10, <2>11, GoOnType
  <1>7. CASE CreateRefused(r)
    BY <1>1, <1>3, <1>7 DEF CreateRefused, Places
  <1>8. ASSUME NEW from \in {"finalize", "pay", "cancel"}, NEW changed \in Invoice,
               Save(r, from, changed)
        PROVE  TypeInv'
    <2>1. op[r].id \in DOMAIN invoices
      BY <1>8 DEF Save, Advance, TypeInv, PointersOK, Saving
    <2>2. invoices' = [invoices EXCEPT ![op[r].id] = changed]  BY <1>8 DEF Save
    <2>3. invoices' \in Seq(Invoice) /\ DOMAIN invoices' = DOMAIN invoices
      BY <1>1, <2>1, <2>2, SeqPut
    <2>4. /\ Advance(r, from, "recompute")
          /\ from \in Places /\ "recompute" \in Places \ Saving
          /\ UNCHANGED <<accepted, billing, work, op, aborts, stale>>
      BY <1>8 DEF Save, Places, Saving
    <2> QED  BY <1>1, <2>3, <2>4, GoOnType
  <1>9. CASE FinalizeSave(r)
    <2>1. op[r].id \in DOMAIN invoices
      BY <1>9 DEF FinalizeSave, Save, Advance, TypeInv, PointersOK, Saving
    <2>2. invoices[op[r].id] \in Invoice  BY <1>1, <2>1, InvoiceFacts
    <2>3. [invoices[op[r].id] EXCEPT !.status = "finalized"] \in Invoice
      BY <2>2 DEF Invoice, InvoiceStatuses
    <2> QED  BY <1>8, <1>9, <2>3 DEF FinalizeSave
  <1>10. CASE MarkPaidSave(r)
    <2>1. op[r].id \in DOMAIN invoices
      BY <1>10 DEF MarkPaidSave, Save, Advance, TypeInv, PointersOK, Saving
    <2>2. invoices[op[r].id] \in Invoice  BY <1>1, <2>1, InvoiceFacts
    <2>3. [invoices[op[r].id] EXCEPT !.status = "paid"] \in Invoice
      BY <2>2 DEF Invoice, InvoiceStatuses
    <2> QED  BY <1>8, <1>10, <2>3 DEF MarkPaidSave
  <1>11. CASE CancelSave(r)
    <2>1. op[r].id \in DOMAIN invoices
      BY <1>11 DEF CancelSave, Save, Advance, TypeInv, PointersOK, Saving
    <2>2. invoices[op[r].id] \in Invoice  BY <1>1, <2>1, InvoiceFacts
    <2>3. [invoices[op[r].id] EXCEPT !.status = "cancelled", !.deleted = TRUE] \in Invoice
      BY <2>2 DEF Invoice, InvoiceStatuses
    <2> QED  BY <1>8, <1>11, <2>3 DEF CancelSave
  <1>12. CASE CreditInsert(r)
    <2> DEFINE original == invoices[op[r].id]
               size == IF original.amount < 0 THEN -original.amount ELSE original.amount
    <2>1. PICK amount \in 1..size :
            invoices' = Append(invoices,
              [status |-> "finalized", deleted |-> FALSE, amount |-> -amount,
               quoted |-> original.quoted, situation |-> 0, work |-> FALSE])
      BY <1>12 DEF CreditInsert
    <2> DEFINE e == [status |-> "finalized", deleted |-> FALSE, amount |-> -amount,
                     quoted |-> original.quoted, situation |-> 0, work |-> FALSE]
    <2>2. op[r].id \in DOMAIN invoices
      BY <1>12 DEF CreditInsert, Advance, TypeInv, PointersOK, Saving
    <2>3. original \in Invoice  BY <1>1, <2>2, InvoiceFacts
    <2>4. original.quoted \in BOOLEAN  BY <2>3, Zenon DEF Invoice
    <2> HIDE DEF original
    <2>5. e \in Invoice  BY <2>4 DEF Invoice, InvoiceStatuses
    <2>6. invoices' = Append(invoices, e)  BY <2>1
    <2> HIDE DEF e
    <2>7. invoices' \in Seq(Invoice) /\ DOMAIN invoices \subseteq DOMAIN invoices'
      BY <1>1, <2>5, <2>6, SeqAdd
    <2>8. /\ Advance(r, "credit", "recompute")
          /\ "credit" \in Places /\ "recompute" \in Places \ Saving
          /\ UNCHANGED <<accepted, billing, work, op, aborts, stale>>
      BY <1>12 DEF CreditInsert, Places, Saving
    <2> QED  BY <1>1, <2>7, <2>8, GoOnType
  <1>13. CASE RecomputeRead(r)
    <2>1. [op[r] EXCEPT !.billing = billing] \in Op  BY <1>1 DEF Op
    <2>2. op' = [op EXCEPT ![r] = [op[r] EXCEPT !.billing = billing]]
      BY <1>1, <1>13 DEF RecomputeRead
    <2>3. /\ Advance(r, "recompute", "weigh")
          /\ "recompute" \in Places /\ "weigh" \in Places \ Saving
      BY <1>13 DEF RecomputeRead, Places, Saving
    <2> QED  BY <1>2, <1>13, <2>1, <2>2, <2>3 DEF RecomputeRead
  <1>14. CASE RecomputeList(r)
    <2> DEFINE next == Aggregate(op[r].total)
    <2>1. next \in BillingStatuses  BY AggregateType
    <2>2. CASE Active # {} /\ MayApply(op[r].billing, next)
      <3> HIDE DEF next
      <3>1. [op[r] EXCEPT !.next = next] \in Op  BY <1>1, <2>1 DEF Op
      <3>2. op' = [op EXCEPT ![r] = [op[r] EXCEPT !.next = next]]
        BY <1>1, <1>14, <2>2 DEF RecomputeList, next
      <3>3. /\ Advance(r, "weigh", "apply") /\ UNCHANGED stale
            /\ "weigh" \in Places /\ "apply" \in Places \ Saving
        BY <1>14, <2>2 DEF RecomputeList, Places, Saving, next
      <3> QED  BY <1>2, <1>14, <3>1, <3>2, <3>3 DEF RecomputeList
    <2>3. CASE ~(Active # {} /\ MayApply(op[r].billing, next))
      <3>1. AfterBilling(r, "weigh") /\ stale' = FALSE /\ "weigh" \in Places
        BY <1>14, <2>3 DEF RecomputeList, Places
      <3> QED  BY <1>1, <1>4, <1>14, <3>1 DEF RecomputeList
    <2> QED  BY <2>2, <2>3
  <1>15. CASE RecomputeApply(r)
    <2>1. op[r].next \in BillingStatuses  BY <1>1 DEF Op
    <2> QED  BY <1>4, <1>15, <2>1 DEF RecomputeApply, Places
  <1>16. CASE SyncForward(r)
    <2> DEFINE next == WorkStatus(op[r].status)
    <2>1. next \in BillingStatuses  BY <1>1, WorkStatusType DEF Op
    <2>2. CASE Rank(next) > Rank(work)
      <3> HIDE DEF next
      <3>1. [op[r] EXCEPT !.next = next] \in Op  BY <1>1, <2>1 DEF Op
      <3>2. op' = [op EXCEPT ![r] = [op[r] EXCEPT !.next = next]]
        BY <1>1, <1>16, <2>2 DEF SyncForward, next
      <3>3. /\ Advance(r, "sync", "mark")
            /\ "sync" \in Places /\ "mark" \in Places \ Saving
        BY <1>16, <2>2 DEF SyncForward, Places, Saving, next
      <3> QED  BY <1>2, <1>16, <3>1, <3>2, <3>3 DEF SyncForward
    <2>3. CASE ~(Rank(next) > Rank(work))
      <3>1. Leave(r, "sync") /\ "sync" \in Places
        BY <1>16, <2>3 DEF SyncForward, Places
      <3> QED  BY <1>1, <1>3, <1>16, <3>1 DEF SyncForward
    <2> QED  BY <2>2, <2>3
  <1>17. CASE SyncBack(r)
    <2>1. [op[r] EXCEPT !.next = BackTo(op[r].id)] \in Op
      BY <1>1, BackToType DEF Op
    <2>2. op' = [op EXCEPT ![r] = [op[r] EXCEPT !.next = BackTo(op[r].id)]]
      BY <1>1, <1>17 DEF SyncBack
    <2>3. /\ Advance(r, "sync", "mark")
          /\ "sync" \in Places /\ "mark" \in Places \ Saving
      BY <1>17 DEF SyncBack, Places, Saving
    <2> QED  BY <1>2, <1>17, <2>1, <2>2, <2>3 DEF SyncBack
  <1>18. CASE Mark(r)
    <2>1. op[r].next \in BillingStatuses  BY <1>1 DEF Op
    <2> QED  BY <1>1, <1>3, <1>18, <2>1 DEF Mark, Places
  <1>19. CASE AcceptRead(r)
    <2>1. CASE billing = "none"
      <3>1. /\ Advance(r, "accept", "toInvoice") /\ UNCHANGED op
            /\ "accept" \in Places /\ "toInvoice" \in Places \ Saving
        BY <1>19, <2>1 DEF AcceptRead, Places, Saving
      <3> QED  BY <1>1, <1>19, <3>1, GoOnType DEF AcceptRead
    <2>2. CASE billing # "none"
      BY <1>1, <1>3, <1>19, <2>2 DEF AcceptRead, Places
    <2> QED  BY <2>1, <2>2
  <1>20. CASE AcceptWrite(r)
    BY <1>1, <1>3, <1>20 DEF AcceptWrite, Places, BillingStatuses
  <1> QED
    BY <1>5, <1>6, <1>7, <1>9, <1>10, <1>11, <1>12, <1>13, <1>14, <1>15, <1>16, <1>17,
       <1>18, <1>19, <1>20 DEF Continue

(* Every step keeps the types.                                             *)
LEMMA TypeStep == TypeInv /\ [Next]_vars => TypeInv'
  <1> SUFFICES ASSUME TypeInv, [Next]_vars  PROVE TypeInv'
    OBVIOUS
  <1>1. CASE \E r \in Requests : Call(r)  BY <1>1, CallType
  <1>2. CASE \E r \in Requests : Continue(r)  BY <1>2, ContinueType
  <1>3. ASSUME NEW r \in Requests, Abort(r)  PROVE TypeInv'
    <2>1. op' \in [Requests -> Op] /\ \A s \in Requests \ {r} : op'[s] = op[s]
      BY <1>3, LeaveType DEF Abort
    <2>2. pc' = [pc EXCEPT ![r] = "idle"]  BY <1>3 DEF Abort, Leave, Advance
    <2>3. TypeOK'
      BY <1>3, <2>1, <2>2 DEF Abort, TypeInv, TypeOK
    <2>4. PointersOK'
      BY <1>3, <2>1, <2>2 DEF Abort, TypeInv, TypeOK, PointersOK, Saving
    <2> QED  BY <2>3, <2>4 DEF TypeInv
  <1>4. CASE UNCHANGED vars
    BY <1>4 DEF vars, TypeInv, TypeOK, PointersOK
  <1> QED  BY <1>1, <1>2, <1>3, <1>4 DEF Next

LEMMA TypeInit ==
  ASSUME Init
  PROVE  TypeInv
  <1>1. invoices \in Seq(Invoice)  BY DEF Init
  <1>2. accepted \in BOOLEAN /\ stale \in BOOLEAN  BY Zenon DEF Init
  <1>3. TypeOK
    BY <1>1, <1>2, NoOpType DEF Init, TypeOK, BillingStatuses
  <1>4. PointersOK  BY DEF Init, PointersOK, Saving
  <1> QED  BY <1>3, <1>4 DEF TypeInv

(* Every reachable state is well-formed, whatever requests overlap or      *)
(* stop; in particular an intervention is never given the status of an     *)
(* invoice (syncInterventionBillingStatuses translates it).                *)
THEOREM CaseBillingTypeCorrect == Spec => []TypeOK
  <1>1. Init => TypeInv  BY TypeInit
  <1>2. TypeInv => TypeOK  BY DEF TypeInv
  <1> QED  BY <1>1, <1>2, TypeStep, PTL DEF Spec

-----------------------------------------------------------------------------
(***************************************************************************)
(* One request at a time, stopped or not.  The invariant has four parts:   *)
(* what the invoices add up to, what a request knows between two awaits,   *)
(* and how far the case and the intervention are behind the invoices.      *)
(***************************************************************************)
OneRequest == \A r, s \in Requests : r = s

(* A document that takes away from the quote was never a draft.            *)
DraftsPositive == \A i \in DOMAIN invoices : ~Issued(i) => invoices[i].amount > 0

LedgerInv == DraftsPositive /\ SituationsDistinct /\ QuoteNotExceeded

(* What a request at p read still holds.                                   *)
CreatesOK(p, o) ==
  /\ p \in {"list", "insert"} => o.status \in {"draft", "finalized"}
  /\ p = "list" => o.kind \in FromQuote /\ ~o.work
  /\ p = "insert" /\ o.kind # "custom" => o.already = AlreadyInvoiced
  /\ p = "insert" => IF o.kind = "custom" THEN o.situation = 0
                                          ELSE o.situation \in {0, NextSituation}

SavesOK(p, o) ==
  /\ p \in {"finalize", "pay", "cancel"} =>
       Found(o.id) /\ (o.work <=> invoices[o.id].work)
  /\ p = "finalize" => o.status = "finalized" /\ invoices[o.id].status = "draft"
  /\ p = "pay"      => o.status = "paid" /\ Issued(o.id)
  /\ p = "cancel"   => o.status = "cancelled" /\ ~Issued(o.id)
  /\ p = "credit"   => ~o.work

Deriving == {"recompute", "weigh", "apply"}
DerivesOK(p, o) ==
  /\ o.total \in {0, QuoteTotal}
  /\ p = "toInvoice" => billing = "none"
  /\ p \in {"weigh", "apply"} => o.billing = billing
  /\ p = "apply" => o.next = Aggregate(o.total)

(* The invoice of a request that has the intervention to follow it.        *)
FollowsOK(p, o) ==
  /\ p = "sync" => o.work
  /\ p \in Deriving \cup {"sync"} /\ o.work =>
       IF o.status = "cancelled" THEN o.id \notin Active
       ELSE o.id \in Active /\ invoices[o.id].work

Knows(p, o) == CreatesOK(p, o) /\ SavesOK(p, o) /\ DerivesOK(p, o) /\ FollowsOK(p, o)
KnowsInv == \A r \in Requests : Knows(pc[r], op[r])

(* The status of the case is behind only what a request will yet derive.   *)
NotBehind == \E total \in {0, QuoteTotal} : Rank(billing) >= Rank(Aggregate(total))
CaughtInv ==
  ~stale /\ (\A r \in Requests : pc[r] \notin Deriving) => (Active # {} => NotBehind)

(* And that of the intervention only what a request will yet write.        *)
Offered(w) == w \in {"none", "to_invoice"} <=> \A i \in Active : ~invoices[i].work
Owes(p, o) == p = "mark" \/ (p \in Deriving \cup {"sync"} /\ o.work)
WorkInv ==
  aborts = 0 =>
    /\ (\A r \in Requests : ~Owes(pc[r], op[r])) => Offered(work)
    /\ \A r \in Requests : pc[r] = "mark" => Offered(op[r].next)

SerialInv == TypeInv /\ LedgerInv /\ KnowsInv /\ CaughtInv /\ WorkInv

-----------------------------------------------------------------------------
(* How the invoices change: not at all ...                                 *)
LEMMA SameInvoices ==
  ASSUME UNCHANGED invoices
  PROVE  /\ Active' = Active /\ Quoted' = Quoted /\ Situations' = Situations
         /\ AlreadyInvoiced' = AlreadyInvoiced /\ NextSituation' = NextSituation
         /\ \A total : Aggregate(total)' = Aggregate(total)
  <1>1. Active' = Active  BY DEF Active, Listed, Found
  <1>2. Quoted' = Quoted  BY <1>1 DEF Quoted
  <1>3. Situations' = Situations  BY <1>2 DEF Situations
  <1>4. AlreadyInvoiced' = AlreadyInvoiced  BY <1>2 DEF AlreadyInvoiced, Sum
  <1>5. NextSituation' = NextSituation  BY <1>3 DEF NextSituation
  <1>6. \A total : Aggregate(total)' = Aggregate(total)
    BY <1>1 DEF Aggregate, Issued, Sum
  <1> QED  BY <1>1, <1>2, <1>3, <1>4, <1>5, <1>6

(* ... one more ...                                                        *)
LEMMA Inserted ==
  ASSUME invoices \in Seq(Invoice), NEW e \in Invoice, invoices' = Append(invoices, e),
         ~e.deleted, e.status # "cancelled", NEW n, n = Len(invoices) + 1
  PROVE  /\ n \notin DOMAIN invoices /\ DOMAIN invoices' = DOMAIN invoices \cup {n}
         /\ invoices'[n] = e
         /\ \A j \in DOMAIN invoices : invoices'[j] = invoices[j]
         /\ Active' = Active \cup {n}
         /\ Quoted' = IF e.quoted THEN Quoted \cup {n} ELSE Quoted
         /\ Situations' = IF e.quoted /\ e.situation > 0 THEN Situations \cup {n}
                                                         ELSE Situations
         /\ AlreadyInvoiced' = AlreadyInvoiced + (IF e.quoted THEN e.amount ELSE 0)
  <1>1. /\ n \notin DOMAIN invoices /\ DOMAIN invoices' = DOMAIN invoices \cup {n}
        /\ invoices'[n] = e
        /\ \A j \in DOMAIN invoices : invoices'[j] = invoices[j]
        /\ invoices' \in Seq(Invoice)
    BY SeqAdd
  <1>2. Active' = Active \cup {n}  BY <1>1 DEF Active, Listed, Found
  <1>3. Quoted' = IF e.quoted THEN Quoted \cup {n} ELSE Quoted
    BY <1>1, <1>2, Subsets DEF Quoted
  <1>4. Situations' = IF e.quoted /\ e.situation > 0 THEN Situations \cup {n}
                                                     ELSE Situations
    BY <1>1, <1>3, Subsets DEF Situations
  <1>5. AlreadyInvoiced' = AlreadyInvoiced + (IF e.quoted THEN e.amount ELSE 0)
    <2> DEFINE f == [i \in DOMAIN invoices |-> invoices[i].amount]
               g == [i \in DOMAIN invoices \cup {n} |-> IF i = n THEN e.amount ELSE f[i]]
    <2>1. AlreadyInvoiced = SumFunctionOnSet(f, Quoted)  BY DEF AlreadyInvoiced, Sum
    <2>2. [i \in DOMAIN invoices |-> invoices[i].amount]' = g
      BY <1>1
    <2>3. AlreadyInvoiced' = SumFunctionOnSet(g, Quoted')
      BY <2>2 DEF AlreadyInvoiced, Sum
    <2>4. /\ Quoted \in SUBSET DOMAIN invoices /\ IsFiniteSet(Quoted)
          /\ AlreadyInvoiced \in Int
      BY Subsets, SomeFinite DEF AlreadyInvoiced
    <2>5. /\ \A i \in Quoted : g[i] = f[i] /\ f[i] \in Int
          /\ g[n] = e.amount /\ g[n] \in Int
      BY <1>1, <2>4, InvoiceFacts DEF Invoice
    <2> HIDE DEF f, g
    <2>6. SumFunctionOnSet(g, Quoted) = SumFunctionOnSet(f, Quoted)
      BY <2>4, <2>5, SumSame
    <2>7. CASE e.quoted
      <3>1. Quoted' = Quoted \cup {n}  BY <1>3, <2>7
      <3>2. SumFunctionOnSet(g, Quoted \cup {n}) = g[n] + SumFunctionOnSet(g, Quoted)
        BY <1>1, <2>4, <2>5, SumWith
      <3>3. AlreadyInvoiced' = AlreadyInvoiced + e.amount
        <4> DEFINE q == SumFunctionOnSet(f, Quoted)
        <4>1. q \in Int /\ AlreadyInvoiced = q  BY <2>1, <2>4
        <4>2. AlreadyInvoiced' = e.amount + q  BY <2>3, <2>5, <2>6, <3>1, <3>2
        <4> HIDE DEF q
        <4>3. e.amount \in Int  BY <2>5
        <4> QED  BY <4>1, <4>2, <4>3
      <3> QED  BY <2>7, <3>3
    <2>8. CASE ~e.quoted
      BY <1>3, <2>1, <2>3, <2>4, <2>6, <2>8
    <2> QED  BY <2>7, <2>8
  <1> QED  BY <1>1, <1>2, <1>3, <1>4, <1>5

(* ... or one that changes its status or is deleted.                       *)
Kept(e, d) == /\ e.amount = d.amount /\ e.situation = d.situation
              /\ (e.quoted <=> d.quoted) /\ (e.work <=> d.work)

LEMMA Changed ==
  ASSUME invoices \in Seq(Invoice), NEW k \in DOMAIN invoices, NEW e \in Invoice,
         invoices' = [invoices EXCEPT ![k] = e], Kept(e, invoices[k])
  PROVE  /\ DOMAIN invoices' = DOMAIN invoices /\ invoices'[k] = e
         /\ \A i \in DOMAIN invoices \ {k} : invoices'[i] = invoices[i]
         /\ \A i \in DOMAIN invoices : Kept(invoices'[i], invoices[i])
         /\ Active' = IF e.deleted \/ e.status = "cancelled" THEN Active \ {k}
                                                             ELSE Active \cup {k}
         /\ Quoted' = {i \in Active' : invoices[i].quoted}
         /\ Situations' = {i \in Quoted' : invoices[i].situation > 0}
         /\ AlreadyInvoiced' = Sum(Quoted')
  <1>1. /\ DOMAIN invoices' = DOMAIN invoices /\ invoices'[k] = e
        /\ \A i \in DOMAIN invoices \ {k} : invoices'[i] = invoices[i]
    OBVIOUS
  <1>2. \A i \in DOMAIN invoices : Kept(invoices'[i], invoices[i])
    BY <1>1 DEF Kept
  <1>3. Active' = IF e.deleted \/ e.status = "cancelled" THEN Active \ {k}
                                                         ELSE Active \cup {k}
    BY <1>1 DEF Active, Listed, Found
  <1>4. Active' \in SUBSET DOMAIN invoices  BY <1>3, Subsets
  <1>5. Quoted' = {i \in Active' : invoices[i].quoted}
    BY <1>2, <1>4 DEF Quoted, Kept
  <1>6. Situations' = {i \in Quoted' : invoices[i].situation > 0}
    BY <1>2, <1>4, <1>5 DEF Situations, Kept
  <1>7. AlreadyInvoiced' = Sum(Quoted')
    <2>1. [i \in DOMAIN invoices |-> invoices[i].amount]'
            = [i \in DOMAIN invoices |-> invoices[i].amount]
      BY <1>1, <1>2 DEF Kept
    <2> QED  BY <2>1 DEF AlreadyInvoiced, Sum
  <1> QED  BY <1>1, <1>2, <1>3, <1>5, <1>6, <1>7

-----------------------------------------------------------------------------
(* The four steps that write an invoice, and what they write.              *)
LEMMA RequestFacts ==
  ASSUME TypeInv, KnowsInv, NEW r \in Requests
  PROVE  /\ op[r] \in Op /\ Knows(pc[r], op[r])
         /\ invoices \in Seq(Invoice) /\ op \in [Requests -> Op]
         /\ pc \in [Requests -> Places] /\ pc[r] \in Places
         /\ billing \in BillingStatuses /\ work \in BillingStatuses
         /\ aborts \in Nat
  BY DEF TypeInv, TypeOK, KnowsInv, Places

LEMMA Creates ==
  ASSUME TypeInv, LedgerInv, KnowsInv, NEW r \in Requests, CreateInsert(r)
  PROVE  /\ pc[r] = "insert" /\ pc' = [pc EXCEPT ![r] = "recompute"]
         /\ op' = [op EXCEPT ![r] = [op[r] EXCEPT !.id = Len(invoices) + 1]]
         /\ op[r].status \in {"draft", "finalized"}
         /\ \E e \in Invoice :
              /\ invoices' = Append(invoices, e)
              /\ ~e.deleted /\ e.status = op[r].status /\ e.amount > 0
              /\ (e.work <=> op[r].work) /\ e.situation \in {0, NextSituation}
              /\ e.quoted => AlreadyInvoiced + e.amount <= QuoteTotal
  <1> USE RequestFacts
  <1>1. PICK amount \in Amounts(op[r].kind, op[r].already) :
          invoices' = Append(invoices,
            [status |-> op[r].status, deleted |-> FALSE, amount |-> amount,
             quoted |-> op[r].kind # "custom", situation |-> op[r].situation,
             work |-> op[r].work])
    BY DEF CreateInsert
  <1> DEFINE e == [status |-> op[r].status, deleted |-> FALSE, amount |-> amount,
                   quoted |-> op[r].kind # "custom", situation |-> op[r].situation,
                   work |-> op[r].work]
  <1>2. /\ pc[r] = "insert" /\ pc' = [pc EXCEPT ![r] = "recompute"]
        /\ op' = [op EXCEPT ![r] = [op[r] EXCEPT !.id = Len(invoices) + 1]]
    BY DEF CreateInsert, Advance
  <1>3. /\ op[r].status \in {"draft", "finalized"}
        /\ op[r].kind # "custom" => op[r].already = AlreadyInvoiced
        /\ op[r].situation \in {0, NextSituation}
    BY <1>2 DEF Knows, CreatesOK
  <1>4. op[r].already \in Int /\ op[r].situation \in Nat /\ op[r].status \in InvoiceStatuses
    BY DEF Op
  <1>5. op[r].work \in BOOLEAN  BY Zenon DEF Op
  <1>6. /\ amount \in Int /\ amount > 0
        /\ op[r].kind # "custom" => AlreadyInvoiced + amount <= QuoteTotal
    BY <1>3, <1>4, AmountsType DEF LedgerInv, QuoteNotExceeded
  <1>7. e \in Invoice  BY <1>4, <1>5, <1>6 DEF Invoice
  <1>8. invoices' = Append(invoices, e)  BY <1>1
  <1>9. /\ ~e.deleted /\ e.status = op[r].status /\ e.amount > 0
        /\ (e.work <=> op[r].work) /\ e.situation \in {0, NextSituation}
        /\ e.quoted => AlreadyInvoiced + e.amount <= QuoteTotal
    BY <1>3, <1>6
  <1> HIDE DEF e
  <1> QED  BY <1>2, <1>3, <1>7, <1>8, <1>9

LEMMA Credits ==
  ASSUME TypeInv, KnowsInv, NEW r \in Requests, CreditInsert(r)
  PROVE  /\ pc[r] = "credit" /\ pc' = [pc EXCEPT ![r] = "recompute"] /\ ~op[r].work
         /\ \E e \in Invoice :
              /\ invoices' = Append(invoices, e)
              /\ ~e.deleted /\ e.status = "finalized" /\ e.amount < 0
              /\ ~e.work /\ e.situation = 0
  <1> USE RequestFacts
  <1> DEFINE original == invoices[op[r].id]
             size == IF original.amount < 0 THEN -original.amount ELSE original.amount
  <1>1. PICK amount \in 1..size :
          invoices' = Append(invoices,
            [status |-> "finalized", deleted |-> FALSE, amount |-> -amount,
             quoted |-> original.quoted, situation |-> 0, work |-> FALSE])
    BY DEF CreditInsert
  <1> DEFINE e == [status |-> "finalized", deleted |-> FALSE, amount |-> -amount,
                   quoted |-> original.quoted, situation |-> 0, work |-> FALSE]
  <1>2. pc[r] = "credit" /\ pc' = [pc EXCEPT ![r] = "recompute"]
    BY DEF CreditInsert, Advance
  <1>3. op[r].id \in DOMAIN invoices /\ ~op[r].work
    BY <1>2 DEF TypeInv, PointersOK, Saving, Knows, SavesOK
  <1>4. original \in Invoice  BY <1>3, InvoiceFacts
  <1>5. original.quoted \in BOOLEAN  BY <1>4, Zenon DEF Invoice
  <1> HIDE DEF original
  <1>6. e \in Invoice  BY <1>5 DEF Invoice, InvoiceStatuses
  <1>7. invoices' = Append(invoices, e)  BY <1>1
  <1>8. ~e.deleted /\ e.status = "finalized" /\ e.amount < 0 /\ ~e.work /\ e.situation = 0
    OBVIOUS
  <1> HIDE DEF e
  <1> QED  BY <1>2, <1>3, <1>6, <1>7, <1>8

LEMMA Saves ==
  ASSUME TypeInv, KnowsInv, NEW r \in Requests, FinalizeSave(r) \/ MarkPaidSave(r)
  PROVE  /\ pc' = [pc EXCEPT ![r] = "recompute"] /\ op' = op
         /\ pc[r] \in {"finalize", "pay"}
         /\ op[r].id \in Active /\ (op[r].work <=> invoices[op[r].id].work)
         /\ op[r].status \in {"finalized", "paid"}
         /\ \E e \in Invoice :
              /\ invoices' = [invoices EXCEPT ![op[r].id] = e]
              /\ Kept(e, invoices[op[r].id])
              /\ ~e.deleted /\ e.status = op[r].status
  <1> USE RequestFacts
  <1>1. /\ pc' = [pc EXCEPT ![r] = "recompute"] /\ op' = op
        /\ pc[r] \in {"finalize", "pay"}
    BY DEF FinalizeSave, MarkPaidSave, Save, Advance
  <1> DEFINE k == op[r].id
             e == [invoices[k] EXCEPT !.status = op[r].status]
  <1>2. /\ Found(k) /\ (op[r].work <=> invoices[k].work)
        /\ invoices[k].status # "cancelled" /\ op[r].status \in {"finalized", "paid"}
    BY <1>1 DEF Knows, SavesOK, Issued
  <1>3. k \in Active  BY <1>2 DEF Active, Listed, Found
  <1>4. invoices[k] \in Invoice /\ ~invoices[k].deleted  BY <1>2, InvoiceFacts DEF Found
  <1>5. e \in Invoice /\ Kept(e, invoices[k]) /\ ~e.deleted /\ e.status = op[r].status
    BY <1>2, <1>4 DEF Invoice, InvoiceStatuses, Kept
  <1>6. invoices' = [invoices EXCEPT ![k] = e]
    <2>1. CASE FinalizeSave(r)
      <3>1. op[r].status = "finalized"
        BY <2>1 DEF FinalizeSave, Save, Advance, Knows, SavesOK
      <3> QED  BY <2>1, <3>1 DEF FinalizeSave, Save
    <2>2. CASE MarkPaidSave(r)
      <3>1. op[r].status = "paid"
        BY <2>2 DEF MarkPaidSave, Save, Advance, Knows, SavesOK
      <3> QED  BY <2>2, <3>1 DEF MarkPaidSave, Save
    <2> QED  BY <2>1, <2>2
  <1> HIDE DEF e
  <1> QED  BY <1>1, <1>2, <1>3, <1>5, <1>6

LEMMA Cancels ==
  ASSUME TypeInv, KnowsInv, NEW r \in Requests, CancelSave(r)
  PROVE  /\ pc' = [pc EXCEPT ![r] = "recompute"] /\ op' = op /\ pc[r] = "cancel"
         /\ op[r].id \in DOMAIN invoices /\ (op[r].work <=> invoices[op[r].id].work)
         /\ op[r].status = "cancelled" /\ ~Issued(op[r].id)
         /\ \E e \in Invoice :
              /\ invoices' = [invoices EXCEPT ![op[r].id] = e]
              /\ Kept(e, invoices[op[r].id])
              /\ e.status = "cancelled"
  <1> USE RequestFacts
  <1>1. pc' = [pc EXCEPT ![r] = "recompute"] /\ op' = op /\ pc[r] = "cancel"
    BY DEF CancelSave, Save, Advance
  <1> DEFINE k == op[r].id
             e == [invoices[k] EXCEPT !.status = "cancelled", !.deleted = TRUE]
  <1>2. /\ k \in DOMAIN invoices /\ (op[r].work <=> invoices[k].work)
        /\ op[r].status = "cancelled" /\ ~Issued(k)
    BY <1>1 DEF Knows, SavesOK, Found
  <1>3. invoices[k] \in Invoice  BY <1>2, InvoiceFacts
  <1>4. e \in Invoice /\ Kept(e, invoices[k]) /\ e.status = "cancelled"
    BY <1>3 DEF Invoice, InvoiceStatuses, Kept
  <1>5. invoices' = [invoices EXCEPT ![k] = e]  BY DEF CancelSave, Save
  <1> HIDE DEF e
  <1> QED  BY <1>1, <1>2, <1>4, <1>5

-----------------------------------------------------------------------------
(* The ledger: amounts, situations and the quote.                          *)
WritesInvoice(r) == \/ CreateInsert(r)
                    \/ CreditInsert(r)
                    \/ FinalizeSave(r)
                    \/ MarkPaidSave(r)
                    \/ CancelSave(r)

LEMMA Writers ==
  ASSUME [Next]_vars, ~UNCHANGED invoices
  PROVE  \E r \in Requests : WritesInvoice(r)
  <1>1. ASSUME NEW r \in Requests, Call(r)  PROVE UNCHANGED invoices
    BY <1>1 DEF Call, CreateRead, FinalizeRead, MarkPaidRead, CancelRead, CreditRead,
                AcceptQuote, EditBilling
  <1>2. ASSUME NEW r \in Requests, Continue(r)
        PROVE  UNCHANGED invoices \/ WritesInvoice(r)
    BY <1>2 DEF Continue, WritesInvoice, CreateList, CreateRefused, RecomputeRead,
                RecomputeList, RecomputeApply, SyncForward, SyncBack, Mark, AcceptRead,
                AcceptWrite
  <1>3. ASSUME NEW r \in Requests, Abort(r)  PROVE UNCHANGED invoices
    BY <1>3 DEF Abort
  <1> QED  BY <1>1, <1>2, <1>3 DEF Next, vars

LEMMA LedgerInsert ==
  ASSUME TypeInv, LedgerInv, NEW e \in Invoice, invoices' = Append(invoices, e),
         ~e.deleted, e.status # "cancelled", e.status = "draft" => e.amount > 0,
         e.quoted => AlreadyInvoiced + e.amount <= QuoteTotal,
         e.situation \in {0, NextSituation}
  PROVE  LedgerInv'
  <1>1. invoices \in Seq(Invoice)  BY DEF TypeInv, TypeOK
  <1>2. PICK n : n = Len(invoices) + 1  OBVIOUS
  <1>3. /\ n \notin DOMAIN invoices /\ DOMAIN invoices' = DOMAIN invoices \cup {n}
        /\ invoices'[n] = e
        /\ \A j \in DOMAIN invoices : invoices'[j] = invoices[j]
        /\ Situations' = IF e.quoted /\ e.situation > 0 THEN Situations \cup {n}
                                                        ELSE Situations
        /\ AlreadyInvoiced' = AlreadyInvoiced + (IF e.quoted THEN e.amount ELSE 0)
    BY <1>1, <1>2, Inserted
  <1>4. e.status \in InvoiceStatuses  BY DEF Invoice
  <1>5. DraftsPositive'
    <2>1. \A i \in DOMAIN invoices' : Issued(i)' <=> invoices'[i].status \in {"finalized", "paid"}
      BY DEF Issued
    <2>2. \A i \in DOMAIN invoices : ~Issued(i) => invoices[i].amount > 0
      BY DEF LedgerInv, DraftsPositive
    <2> QED  BY <1>3, <1>4, <2>1, <2>2 DEF DraftsPositive, Issued, InvoiceStatuses
  <1>6. SituationsDistinct'
    <2>1. \A i, j \in Situations : invoices[i].situation = invoices[j].situation => i = j
      BY DEF LedgerInv, SituationsDistinct
    <2>2. \A i \in Situations : invoices[i].situation < NextSituation /\ i \in DOMAIN invoices
                                /\ invoices[i].situation \in Nat
      BY <1>1, NextIsNew, Subsets, InvoiceFacts
    <2>3. \A i \in Situations : invoices'[i].situation = invoices[i].situation /\ i # n
      BY <1>3, <2>2
    <2>4. ASSUME NEW i \in Situations', NEW j \in Situations',
                 invoices'[i].situation = invoices'[j].situation
          PROVE  i = j
      <3>1. CASE i \in Situations /\ j \in Situations
        BY <2>1, <2>3, <2>4, <3>1
      <3>2. CASE ~(i \in Situations /\ j \in Situations)
        <4>1. e.quoted /\ e.situation > 0 /\ Situations' = Situations \cup {n}
          BY <1>3, <2>4, <3>2
        <4>2. invoices'[n].situation = NextSituation  BY <1>3, <4>1
        <4>3. \A l \in Situations : invoices'[l].situation # NextSituation
          BY <1>1, <2>2, <2>3, NextIsNew
        <4> QED  BY <2>4, <3>2, <4>1, <4>2, <4>3
      <3> QED  BY <3>1, <3>2
    <2> QED  BY <2>4 DEF SituationsDistinct
  <1>7. QuoteNotExceeded'
    <2>1. AlreadyInvoiced \in Int
      BY <1>1, Subsets, SomeFinite DEF AlreadyInvoiced
    <2>2. AlreadyInvoiced <= QuoteTotal  BY DEF LedgerInv, QuoteNotExceeded
    <2>3. CASE e.quoted  BY <1>3, <2>3 DEF QuoteNotExceeded
    <2>4. CASE ~e.quoted  BY <1>3, <2>1, <2>2, <2>4 DEF QuoteNotExceeded
    <2> QED  BY <2>3, <2>4
  <1> QED  BY <1>5, <1>6, <1>7 DEF LedgerInv

LEMMA LedgerChange ==
  ASSUME TypeInv, LedgerInv, NEW k \in DOMAIN invoices, NEW e \in Invoice,
         invoices' = [invoices EXCEPT ![k] = e], Kept(e, invoices[k]),
         \/ k \in Active /\ ~e.deleted /\ e.status \in {"finalized", "paid"}
         \/ ~Issued(k) /\ e.status = "cancelled"
  PROVE  LedgerInv'
  <1>1. invoices \in Seq(Invoice)  BY DEF TypeInv, TypeOK
  <1>2. /\ DOMAIN invoices' = DOMAIN invoices /\ invoices'[k] = e
        /\ \A i \in DOMAIN invoices \ {k} : invoices'[i] = invoices[i]
        /\ \A i \in DOMAIN invoices : Kept(invoices'[i], invoices[i])
        /\ Active' = IF e.deleted \/ e.status = "cancelled" THEN Active \ {k}
                                                            ELSE Active \cup {k}
        /\ Quoted' = {i \in Active' : invoices[i].quoted}
        /\ Situations' = {i \in Quoted' : invoices[i].situation > 0}
        /\ AlreadyInvoiced' = Sum(Quoted')
    BY <1>1, Changed
  <1>3. Active' \subseteq Active  BY <1>2
  <1>4. Quoted' \subseteq Quoted /\ Situations' \subseteq Situations
    BY <1>2, <1>3 DEF Quoted, Situations
  <1>5. \A i \in DOMAIN invoices : ~Issued(i) => invoices[i].amount > 0
    BY DEF LedgerInv, DraftsPositive
  <1>6. DraftsPositive'
    <2>1. ASSUME NEW i \in DOMAIN invoices, invoices'[i].status \notin {"finalized", "paid"}
          PROVE  invoices'[i].amount > 0
      <3>1. ~Issued(i)  BY <1>2, <2>1 DEF Issued
      <3> QED  BY <1>2, <1>5, <3>1 DEF Kept
    <2> QED  BY <1>2, <2>1 DEF DraftsPositive, Issued
  <1>7. SituationsDistinct'
    BY <1>2, <1>4, Subsets DEF LedgerInv, SituationsDistinct, Kept
  <1>8. QuoteNotExceeded'
    <2>1. AlreadyInvoiced <= QuoteTotal /\ AlreadyInvoiced = Sum(Quoted)
      BY DEF LedgerInv, QuoteNotExceeded, AlreadyInvoiced
    <2>2. CASE Quoted' = Quoted
      BY <1>2, <2>1, <2>2 DEF QuoteNotExceeded
    <2>3. CASE Quoted' # Quoted
      <3>1. k \in Quoted /\ Quoted' = Quoted \ {k} /\ e.status = "cancelled"
        BY <1>2, <2>3 DEF Quoted
      <3>2. ~Issued(k)  BY <3>1
      <3>3. invoices[k].amount > 0  BY <1>5, <3>2
      <3> DEFINE f == [i \in DOMAIN invoices |-> invoices[i].amount]
      <3>4. /\ Quoted \in SUBSET DOMAIN invoices /\ IsFiniteSet(Quoted)
            /\ Sum(Quoted) \in Int
        BY <1>1, Subsets, SomeFinite
      <3>5. f[k] = invoices[k].amount /\ \A i \in Quoted : f[i] \in Int
        BY <1>1, <3>4, InvoiceFacts
      <3>6. /\ Sum(Quoted) = SumFunctionOnSet(f, Quoted)
            /\ Sum(Quoted') = SumFunctionOnSet(f, Quoted')
        BY DEF Sum
      <3> HIDE DEF f
      <3>7. /\ SumFunctionOnSet(f, Quoted) = f[k] + SumFunctionOnSet(f, Quoted \ {k})
            /\ SumFunctionOnSet(f, Quoted \ {k}) \in Int
        BY <3>1, <3>4, <3>5, SumWithout
      <3>8. Sum(Quoted') <= Sum(Quoted)
        <4>1. f[k] \in Int /\ f[k] > 0  BY <3>1, <3>3, <3>5
        <4>2. Sum(Quoted') = SumFunctionOnSet(f, Quoted \ {k})  BY <3>1, <3>6
        <4> QED  BY <3>6, <3>7, <4>1, <4>2
      <3>9. Sum(Quoted') \in Int  BY <3>1, <3>6, <3>7
      <3> QED
        BY <1>2, <2>1, <3>4, <3>8, <3>9, CaseBillingAssumption DEF QuoteNotExceeded
    <2> QED  BY <2>2, <2>3
  <1> QED  BY <1>6, <1>7, <1>8 DEF LedgerInv

LEMMA LedgerStep ==
  ASSUME TypeInv, LedgerInv, KnowsInv, [Next]_vars
  PROVE  LedgerInv'
  <1>1. CASE UNCHANGED invoices
    <2>1. DraftsPositive'
      BY <1>1 DEF LedgerInv, DraftsPositive, Issued
    <2>2. SituationsDistinct' /\ QuoteNotExceeded'
      BY <1>1, SameInvoices DEF LedgerInv, SituationsDistinct, QuoteNotExceeded
    <2> QED  BY <2>1, <2>2 DEF LedgerInv
  <1>2. ASSUME NEW r \in Requests, CreateInsert(r)  PROVE LedgerInv'
    <2>1. PICK e \in Invoice :
            /\ invoices' = Append(invoices, e)
            /\ ~e.deleted /\ e.status = op[r].status /\ e.amount > 0
            /\ (e.work <=> op[r].work) /\ e.situation \in {0, NextSituation}
            /\ e.quoted => AlreadyInvoiced + e.amount <= QuoteTotal
      BY <1>2, Creates
    <2>2. op[r].status # "cancelled"  BY <1>2, Creates
    <2> QED  BY <2>1, <2>2, LedgerInsert
  <1>3. ASSUME NEW r \in Requests, CreditInsert(r)  PROVE LedgerInv'
    <2>1. PICK e \in Invoice :
            /\ invoices' = Append(invoices, e)
            /\ ~e.deleted /\ e.status = "finalized" /\ e.amount < 0
            /\ ~e.work /\ e.situation = 0
      BY <1>3, Credits
    <2>2. AlreadyInvoiced + e.amount <= QuoteTotal
      <3>1. AlreadyInvoiced \in Int
        BY Subsets, SomeFinite DEF AlreadyInvoiced, TypeInv, TypeOK
      <3>2. e.amount \in Int  BY DEF Invoice
      <3>3. AlreadyInvoiced <= QuoteTotal  BY DEF LedgerInv, QuoteNotExceeded
      <3> QED  BY <2>1, <3>1, <3>2, <3>3, CaseBillingAssumption
    <2> QED  BY <2>1, <2>2, LedgerInsert
  <1>4. ASSUME NEW r \in Requests, FinalizeSave(r) \/ MarkPaidSave(r)  PROVE LedgerInv'
    BY <1>4, Saves, Subsets, LedgerChange
  <1>5. ASSUME NEW r \in Requests, CancelSave(r)  PROVE LedgerInv'
    BY <1>5, Cancels, LedgerChange
  <1> QED  BY <1>1, <1>2, <1>3, <1>4, <1>5, Writers DEF WritesInvoice

-----------------------------------------------------------------------------
(* What the request knows.                                                 *)


LEMMA Arrives ==
  ASSUME OneRequest, TypeInv, NEW r \in Requests, NEW p, NEW o,
         pc' = [pc EXCEPT ![r] = p], op' = [op EXCEPT ![r] = o],
         CreatesOK(p, o)', SavesOK(p, o)', DerivesOK(p, o)', FollowsOK(p, o)'
  PROVE  KnowsInv'
  <1>1. pc'[r] = p /\ op'[r] = o  BY DEF TypeInv, TypeOK
  <1>2. Knows(p, o)'  BY DEF Knows
  <1>3. Knows(pc[r], op[r])'  BY <1>1, <1>2
  <1> QED  BY <1>3 DEF KnowsInv, OneRequest

(* Which of these are void, at which place.                                *)
Creating == {"list", "insert"}
LEMMA VoidCreates ==
  ASSUME NEW p, NEW o, p \notin Creating
  PROVE  CreatesOK(p, o)'
  BY DEF CreatesOK, Creating
LEMMA VoidSaves ==
  ASSUME NEW p, NEW o, p \notin Saving
  PROVE  SavesOK(p, o)'
  BY DEF SavesOK, Saving
LEMMA VoidDerives ==
  ASSUME NEW p, NEW o, p \notin {"weigh", "apply", "toInvoice"}, o.total \in {0, QuoteTotal}
  PROVE  DerivesOK(p, o)'
  BY DEF DerivesOK
LEMMA VoidFollows ==
  ASSUME NEW p, NEW o, p \notin Deriving \cup {"sync"}
  PROVE  FollowsOK(p, o)'
  BY DEF FollowsOK, Deriving

LEMMA NoOpFields ==
  /\ NoOp \in Op /\ NoOp.total = QuoteTotal /\ NoOp.situation = 0 /\ ~NoOp.work
  BY NoOpType DEF NoOp

LEMMA LeaveKnows ==
  ASSUME OneRequest, TypeInv, NEW r \in Requests, NEW from, Leave(r, from)
  PROVE  KnowsInv'
  <1>1. PICK o : o = NoOp  OBVIOUS
  <1>2. o.total \in {0, QuoteTotal}  BY <1>1, NoOpFields
  <1>3. pc' = [pc EXCEPT ![r] = "idle"] /\ op' = [op EXCEPT ![r] = o]
    BY <1>1 DEF Leave, Advance
  <1>4. /\ "idle" \notin Creating /\ "idle" \notin Saving
        /\ "idle" \notin {"weigh", "apply", "toInvoice"}
        /\ "idle" \notin Deriving \cup {"sync"}
    BY DEF Creating, Saving, Deriving
  <1> QED
    BY <1>2, <1>3, <1>4, Arrives, VoidCreates, VoidSaves, VoidDerives, VoidFollows

LEMMA AfterKnows ==
  ASSUME OneRequest, TypeInv, KnowsInv, NEW r \in Requests, NEW from \in Deriving,
         AfterBilling(r, from), UNCHANGED invoices
  PROVE  KnowsInv'
  <1> USE RequestFacts
  <1>1. CASE op[r].work
    <2>1. PICK o : o = op[r]  OBVIOUS
    <2>2. pc' = [pc EXCEPT ![r] = "sync"] /\ op' = [op EXCEPT ![r] = o] /\ pc[r] = from
      BY <1>1, <2>1 DEF AfterBilling, Advance
    <2>3. FollowsOK(from, o) /\ o.total \in {0, QuoteTotal}
      BY <2>1, <2>2 DEF Knows, DerivesOK
    <2>4. FollowsOK("sync", o)'
      BY <1>1, <2>1, <2>3, SameInvoices DEF FollowsOK
    <2>5. /\ "sync" \notin Creating /\ "sync" \notin Saving
          /\ "sync" \notin {"weigh", "apply", "toInvoice"}
      BY DEF Creating, Saving
    <2> QED
      BY <2>2, <2>3, <2>4, <2>5, Arrives, VoidCreates, VoidSaves, VoidDerives
  <1>2. CASE ~op[r].work
    BY <1>2, LeaveKnows DEF AfterBilling
  <1> QED  BY <1>1, <1>2

LEMMA CallKnows ==
  ASSUME OneRequest, TypeInv, KnowsInv, NEW r \in Requests, Call(r)
  PROVE  KnowsInv'
  <1> USE RequestFacts
  <1>1. ASSUME NEW kind \in FromQuote \cup {"custom"}, NEW status \in {"draft", "finalized"},
               NEW bills \in BOOLEAN, CreateRead(r, kind, status, bills)
        PROVE  KnowsInv'
    <2>1. PICK p : p = IF kind = "custom" THEN "insert" ELSE "list"  OBVIOUS
    <2>2. PICK o : o = [NoOp EXCEPT !.kind = kind, !.status = status, !.work = bills,
                                    !.total = IF kind = "custom" THEN 0 ELSE QuoteTotal]
      OBVIOUS
    <2>3. /\ o.kind = kind /\ o.status = status /\ (o.work <=> bills)
          /\ o.total \in {0, QuoteTotal} /\ o.situation = 0
      <3>1. ASSUME NEW b \in Op, b.situation = 0
            PROVE  LET c == [b EXCEPT !.kind = kind, !.status = status, !.work = bills,
                                      !.total = IF kind = "custom" THEN 0 ELSE QuoteTotal]
                   IN  /\ c.kind = kind /\ c.status = status /\ (c.work <=> bills)
                       /\ c.total \in {0, QuoteTotal} /\ c.situation = 0
        BY <3>1 DEF Op
      <3> QED  BY <2>2, <3>1, NoOpFields
    <2>4. pc' = [pc EXCEPT ![r] = p] /\ op' = [op EXCEPT ![r] = o]
      BY <1>1, <2>1, <2>2 DEF CreateRead, Enter
    <2>5. bills => kind = "custom"  BY <1>1 DEF CreateRead
    <2>6. CreatesOK(p, o)'
      BY <2>1, <2>3, <2>5 DEF CreatesOK
    <2>7. /\ p \notin Saving /\ p \notin {"weigh", "apply", "toInvoice"}
          /\ p \notin Deriving \cup {"sync"}
      BY <2>1 DEF Saving, Deriving
    <2> QED
      BY <2>3, <2>4, <2>6, <2>7, Arrives, VoidSaves, VoidDerives, VoidFollows
  <1>2. ASSUME NEW i \in DOMAIN invoices, NEW status \in InvoiceStatuses, NEW p,
               pc' = [pc EXCEPT ![r] = p], op' = [op EXCEPT ![r] = Target(i, status)],
               Found(i), UNCHANGED invoices,
               \/ p = "finalize" /\ status = "finalized" /\ invoices[i].status = "draft"
               \/ p = "pay" /\ status = "paid" /\ Issued(i)
               \/ p = "cancel" /\ status = "cancelled" /\ ~Issued(i)
               \/ p = "recompute" /\ status = "paid" /\ Issued(i)
        PROVE  KnowsInv'
    <2>1. PICK o : o = Target(i, status)  OBVIOUS
    <2>2. invoices[i].work \in BOOLEAN
      BY InvoiceFacts, Zenon DEF Invoice
    <2>3. /\ o.id = i /\ o.status = status /\ (o.work <=> invoices[i].work)
          /\ o.total = QuoteTotal
      <3>1. ASSUME NEW b \in Op, NEW bills \in BOOLEAN
            PROVE  LET c == [b EXCEPT !.id = i, !.status = status, !.work = bills]
                   IN  /\ c.id = i /\ c.status = status /\ (c.work <=> bills)
                       /\ c.total = b.total
        BY DEF Op
      <3> QED  BY <2>1, <2>2, <3>1, NoOpFields DEF Target
    <2>4. p \notin Creating /\ p \notin {"weigh", "apply", "toInvoice"}
      BY <1>2 DEF Creating
    <2>5. SavesOK(p, o)'
      BY <1>2, <2>3 DEF SavesOK, Found, Issued
    <2>6. FollowsOK(p, o)'
      <3>1. p = "recompute" => o.status # "cancelled" /\ i \in Active
        BY <1>2, <2>3 DEF Issued, Active, Listed
      <3>2. p \in Deriving \cup {"sync"} => p = "recompute"
        BY <1>2 DEF Deriving
      <3>3. p # "sync" /\ Active' = Active  BY <1>2, SameInvoices
      <3> QED  BY <1>2, <2>3, <3>1, <3>2, <3>3 DEF FollowsOK
    <2> QED  BY <1>2, <2>1, <2>3, <2>4, <2>5, <2>6, Arrives, VoidCreates, VoidDerives
  <1>3. ASSUME NEW i \in DOMAIN invoices,
               FinalizeRead(r, i) \/ MarkPaidRead(r, i) \/ CancelRead(r, i)
        PROVE  KnowsInv'
    <2>1. CASE FinalizeRead(r, i)
      BY <1>2, <2>1 DEF FinalizeRead, Enter, InvoiceStatuses
    <2>2. CASE MarkPaidRead(r, i)
      BY <1>2, <2>2 DEF MarkPaidRead, Enter, InvoiceStatuses
    <2>3. CASE CancelRead(r, i)
      BY <1>2, <2>3 DEF CancelRead, Enter, InvoiceStatuses
    <2> QED  BY <1>3, <2>1, <2>2, <2>3
  <1>4. ASSUME NEW i \in DOMAIN invoices, CreditRead(r, i)  PROVE KnowsInv'
    <2>1. PICK o : o = [NoOp EXCEPT !.kind = "credit", !.id = i, !.status = "finalized"]
      OBVIOUS
    <2>2. ~o.work /\ o.total = QuoteTotal
      <3>1. ASSUME NEW b \in Op, ~b.work
            PROVE  LET c == [b EXCEPT !.kind = "credit", !.id = i, !.status = "finalized"]
                   IN  ~c.work /\ c.total = b.total
        BY <3>1 DEF Op
      <3> QED  BY <2>1, <3>1, NoOpFields
    <2>3. pc' = [pc EXCEPT ![r] = "credit"] /\ op' = [op EXCEPT ![r] = o]
      BY <1>4, <2>1 DEF CreditRead, Enter
    <2>4. SavesOK("credit", o)'  BY <2>2 DEF SavesOK
    <2>5. /\ "credit" \notin Creating /\ "credit" \notin {"weigh", "apply", "toInvoice"}
          /\ "credit" \notin Deriving \cup {"sync"}
      BY DEF Creating, Deriving
    <2> QED  BY <2>2, <2>3, <2>4, <2>5, Arrives, VoidCreates, VoidDerives, VoidFollows
  <1>5. CASE AcceptQuote(r)
    <2>1. PICK o : o = NoOp  OBVIOUS
    <2>2. pc' = [pc EXCEPT ![r] = "accept"] /\ op' = [op EXCEPT ![r] = o]
      BY <1>5, <2>1 DEF AcceptQuote, Enter
    <2>3. o.total \in {0, QuoteTotal}  BY <2>1, NoOpFields
    <2>4. /\ "accept" \notin Creating /\ "accept" \notin Saving
          /\ "accept" \notin {"weigh", "apply", "toInvoice"}
          /\ "accept" \notin Deriving \cup {"sync"}
      BY DEF Creating, Saving, Deriving
    <2> QED
      BY <2>2, <2>3, <2>4, Arrives, VoidCreates, VoidSaves, VoidDerives, VoidFollows
  <1>6. ASSUME NEW b \in BillingStatuses, EditBilling(r, b)  PROVE KnowsInv'
    <2>1. PICK o : o = op[r]  OBVIOUS
    <2>2. pc' = [pc EXCEPT ![r] = "idle"] /\ op' = [op EXCEPT ![r] = o]
      BY <1>6, <2>1 DEF EditBilling
    <2>3. o.total \in {0, QuoteTotal}  BY <2>1 DEF Knows, DerivesOK
    <2>4. /\ "idle" \notin Creating /\ "idle" \notin Saving
          /\ "idle" \notin {"weigh", "apply", "toInvoice"}
          /\ "idle" \notin Deriving \cup {"sync"}
      BY DEF Creating, Saving, Deriving
    <2> QED
      BY <2>2, <2>3, <2>4, Arrives, VoidCreates, VoidSaves, VoidDerives, VoidFollows
  <1> QED  BY <1>1, <1>3, <1>4, <1>5, <1>6 DEF Call

LEMMA ContinueKnows ==
  ASSUME OneRequest, TypeInv, LedgerInv, KnowsInv, NEW r \in Requests, Continue(r)
  PROVE  KnowsInv'
  <1> USE RequestFacts
  <1>1. op[r].total \in {0, QuoteTotal}  BY DEF Knows, DerivesOK
  <1>2. ASSUME NEW o, op' = [op EXCEPT ![r] = o], pc' = [pc EXCEPT ![r] = "recompute"],
               o.total = op[r].total, FollowsOK("recompute", o)'
        PROVE  KnowsInv'
    <2>1. /\ "recompute" \notin Creating /\ "recompute" \notin Saving
          /\ "recompute" \notin {"weigh", "apply", "toInvoice"}
      BY DEF Creating, Saving
    <2> QED  BY <1>1, <1>2, <2>1, Arrives, VoidCreates, VoidSaves, VoidDerives
  <1>3. ASSUME NEW next \in BillingStatuses, op' = [op EXCEPT ![r].next = next],
               pc' = [pc EXCEPT ![r] = "mark"]
        PROVE  KnowsInv'
    <2>1. PICK o : o = [op[r] EXCEPT !.next = next]  OBVIOUS
    <2>2. o.total = op[r].total /\ op' = [op EXCEPT ![r] = o]
      BY <1>3, <2>1 DEF Op
    <2>3. /\ "mark" \notin Creating /\ "mark" \notin Saving
          /\ "mark" \notin {"weigh", "apply", "toInvoice"}
          /\ "mark" \notin Deriving \cup {"sync"}
      BY DEF Creating, Saving, Deriving
    <2> QED
      BY <1>1, <1>3, <2>2, <2>3, Arrives, VoidCreates, VoidSaves, VoidDerives, VoidFollows
  <1>4. CASE CreateList(r)
    <2>1. PICK situation : situation = IF op[r].kind = "situation" THEN NextSituation ELSE 0
      OBVIOUS
    <2>2. PICK o : o = [op[r] EXCEPT !.already = AlreadyInvoiced, !.situation = situation]
      OBVIOUS
    <2>3. /\ o.already = AlreadyInvoiced /\ o.situation = situation
          /\ o.kind = op[r].kind /\ o.status = op[r].status /\ o.total = op[r].total
      BY <2>2 DEF Op
    <2>4. /\ pc[r] = "list" /\ pc' = [pc EXCEPT ![r] = "insert"]
          /\ op' = [op EXCEPT ![r] = o] /\ UNCHANGED invoices
      BY <1>4, <2>1, <2>2 DEF CreateList, Advance
    <2>5. o.kind \in FromQuote /\ o.kind # "custom" /\ o.status \in {"draft", "finalized"}
      BY <2>3, <2>4 DEF Knows, CreatesOK, FromQuote
    <2>6. CreatesOK("insert", o)'
      BY <2>1, <2>3, <2>4, <2>5, SameInvoices DEF CreatesOK
    <2>7. /\ "insert" \notin Saving /\ "insert" \notin {"weigh", "apply", "toInvoice"}
          /\ "insert" \notin Deriving \cup {"sync"}
      BY DEF Saving, Deriving
    <2> QED
      BY <1>1, <2>3, <2>4, <2>6, <2>7, Arrives, VoidSaves, VoidDerives, VoidFollows
  <1>5. CASE CreateInsert(r)
    <2>1. PICK e \in Invoice :
            /\ invoices' = Append(invoices, e)
            /\ ~e.deleted /\ e.status = op[r].status /\ e.amount > 0
            /\ (e.work <=> op[r].work) /\ e.situation \in {0, NextSituation}
            /\ e.quoted => AlreadyInvoiced + e.amount <= QuoteTotal
      BY <1>5, Creates
    <2>2. PICK n : n = Len(invoices) + 1  OBVIOUS
    <2>3. PICK o : o = [op[r] EXCEPT !.id = n]  OBVIOUS
    <2>4. /\ o.id = n /\ o.status = op[r].status /\ (o.work <=> op[r].work)
          /\ o.total = op[r].total
      BY <2>3 DEF Op
    <2>5. /\ pc' = [pc EXCEPT ![r] = "recompute"] /\ op' = [op EXCEPT ![r] = o]
          /\ op[r].status # "cancelled"
      BY <1>5, <2>2, <2>3, Creates
    <2>6. n \in Active' /\ invoices'[n] = e
      BY <2>1, <2>2, <2>5, Inserted
    <2>7. FollowsOK("recompute", o)'
      BY <2>1, <2>4, <2>5, <2>6 DEF FollowsOK
    <2> QED  BY <1>2, <2>4, <2>5, <2>7
  <1>6. CASE CreditInsert(r)
    <2>1. PICK o : o = op[r]  OBVIOUS
    <2>2. op' = [op EXCEPT ![r] = o]  BY <1>6, <2>1 DEF CreditInsert
    <2>3. pc' = [pc EXCEPT ![r] = "recompute"] /\ ~o.work  BY <1>6, <2>1, Credits
    <2>4. FollowsOK("recompute", o)'  BY <2>3 DEF FollowsOK
    <2> QED  BY <1>2, <2>1, <2>2, <2>3, <2>4
  <1>7. CASE CreateRefused(r)
    BY <1>7, LeaveKnows DEF CreateRefused
  <1>8. CASE FinalizeSave(r) \/ MarkPaidSave(r)
    <2>1. PICK e \in Invoice :
            /\ invoices' = [invoices EXCEPT ![op[r].id] = e]
            /\ Kept(e, invoices[op[r].id])
            /\ ~e.deleted /\ e.status = op[r].status
      BY <1>8, Saves
    <2>2. PICK o : o = op[r]  OBVIOUS
    <2>3. /\ pc' = [pc EXCEPT ![r] = "recompute"] /\ op' = [op EXCEPT ![r] = o]
          /\ o.id \in DOMAIN invoices /\ (o.work <=> invoices[o.id].work)
          /\ o.status \in {"finalized", "paid"}
      BY <1>8, <2>2, Saves, Subsets
    <2>4. o.id \in Active' /\ (invoices'[o.id].work <=> invoices[o.id].work)
      <3>1. PICK k : k = op[r].id  OBVIOUS
      <3>2. invoices' = [invoices EXCEPT ![k] = e] /\ Kept(e, invoices[k])
        BY <2>1, <3>1
      <3>3. k \in DOMAIN invoices /\ o.id = k /\ ~e.deleted /\ e.status # "cancelled"
        BY <2>1, <2>2, <2>3, <3>1
      <3>4. Active' = Active \cup {k} /\ invoices'[k] = e
        BY <3>2, <3>3, Changed
      <3> QED  BY <3>2, <3>3, <3>4 DEF Kept
    <2>5. FollowsOK("recompute", o)'
      BY <2>3, <2>4 DEF FollowsOK
    <2> QED  BY <1>2, <2>2, <2>3, <2>5
  <1>9. CASE CancelSave(r)
    <2>1. PICK e \in Invoice :
            /\ invoices' = [invoices EXCEPT ![op[r].id] = e]
            /\ Kept(e, invoices[op[r].id]) /\ e.status = "cancelled"
      BY <1>9, Cancels
    <2>2. PICK o : o = op[r]  OBVIOUS
    <2>3. /\ pc' = [pc EXCEPT ![r] = "recompute"] /\ op' = [op EXCEPT ![r] = o]
          /\ o.id \in DOMAIN invoices /\ o.status = "cancelled"
      BY <1>9, <2>2, Cancels
    <2>4. PICK k : k = op[r].id  OBVIOUS
    <2>5. Active' = Active \ {k}
      <3>1. invoices' = [invoices EXCEPT ![k] = e] /\ Kept(e, invoices[k])
        BY <2>1, <2>4
      <3>2. k \in DOMAIN invoices  BY <2>2, <2>3, <2>4
      <3> QED  BY <2>1, <3>1, <3>2, Changed
    <2>6. o.id \notin Active'  BY <2>2, <2>4, <2>5
    <2>7. FollowsOK("recompute", o)'
      BY <2>3, <2>6 DEF FollowsOK
    <2> QED  BY <1>2, <2>2, <2>3, <2>7
  <1>10. CASE RecomputeRead(r)
    <2>1. PICK o : o = [op[r] EXCEPT !.billing = billing]  OBVIOUS
    <2>2. /\ o.billing = billing /\ o.id = op[r].id /\ o.status = op[r].status
          /\ (o.work <=> op[r].work) /\ o.total = op[r].total
      BY <2>1 DEF Op
    <2>3. /\ pc[r] = "recompute" /\ pc' = [pc EXCEPT ![r] = "weigh"]
          /\ op' = [op EXCEPT ![r] = o] /\ UNCHANGED <<invoices, billing>>
      BY <1>10, <2>1 DEF RecomputeRead, Advance
    <2>4. FollowsOK("recompute", op[r])  BY <2>3 DEF Knows
    <2>5. FollowsOK("weigh", o)'
      BY <2>2, <2>3, <2>4, SameInvoices DEF FollowsOK, Deriving
    <2>6. DerivesOK("weigh", o)'
      BY <1>1, <2>2, <2>3 DEF DerivesOK
    <2>7. "weigh" \notin Creating /\ "weigh" \notin Saving
      BY DEF Creating, Saving
    <2> QED  BY <2>3, <2>5, <2>6, <2>7, Arrives, VoidCreates, VoidSaves
  <1>11. CASE RecomputeList(r)
    <2>1. PICK next : next = Aggregate(op[r].total)  OBVIOUS
    <2>2. CASE Active # {} /\ MayApply(op[r].billing, next)
      <3>1. PICK o : o = [op[r] EXCEPT !.next = next]  OBVIOUS
      <3>2. /\ o.next = next /\ o.id = op[r].id /\ o.status = op[r].status
            /\ (o.work <=> op[r].work) /\ o.total = op[r].total /\ o.billing = op[r].billing
        BY <3>1 DEF Op
      <3>3. /\ pc[r] = "weigh" /\ pc' = [pc EXCEPT ![r] = "apply"]
            /\ op' = [op EXCEPT ![r] = o] /\ UNCHANGED <<invoices, billing>>
        BY <1>11, <2>1, <2>2, <3>1 DEF RecomputeList, Advance
      <3>4. FollowsOK("weigh", op[r]) /\ DerivesOK("weigh", op[r])  BY <3>3 DEF Knows
      <3>5. FollowsOK("apply", o)'
        BY <3>2, <3>3, <3>4, SameInvoices DEF FollowsOK, Deriving
      <3>6. DerivesOK("apply", o)'
        BY <2>1, <3>2, <3>3, <3>4, SameInvoices DEF DerivesOK
      <3>7. "apply" \notin Creating /\ "apply" \notin Saving
        BY DEF Creating, Saving
      <3> QED  BY <3>3, <3>5, <3>6, <3>7, Arrives, VoidCreates, VoidSaves
    <2>3. CASE ~(Active # {} /\ MayApply(op[r].billing, next))
      <3>1. AfterBilling(r, "weigh") /\ UNCHANGED invoices /\ "weigh" \in Deriving
        BY <1>11, <2>1, <2>3 DEF RecomputeList, Deriving
      <3> QED  BY <3>1, AfterKnows
    <2> QED  BY <2>2, <2>3
  <1>12. CASE RecomputeApply(r)
    <2>1. AfterBilling(r, "apply") /\ UNCHANGED invoices /\ "apply" \in Deriving
      BY <1>12 DEF RecomputeApply, Deriving
    <2> QED  BY <2>1, AfterKnows
  <1>13. CASE SyncForward(r)
    <2>1. CASE Rank(WorkStatus(op[r].status)) > Rank(work)
      <3>1. PICK next : next = WorkStatus(op[r].status)  OBVIOUS
      <3>2. next \in BillingStatuses  BY <3>1, WorkStatusType DEF Op
      <3> QED  BY <1>3, <1>13, <2>1, <3>1, <3>2 DEF SyncForward, Advance
    <2>2. CASE ~(Rank(WorkStatus(op[r].status)) > Rank(work))
      BY <1>13, <2>2, LeaveKnows DEF SyncForward
    <2> QED  BY <2>1, <2>2
  <1>14. CASE SyncBack(r)
    <2>1. PICK next : next = BackTo(op[r].id)  OBVIOUS
    <2>2. next \in BillingStatuses  BY <2>1, BackToType
    <2> QED  BY <1>3, <1>14, <2>1, <2>2 DEF SyncBack, Advance
  <1>15. CASE Mark(r)
    BY <1>15, LeaveKnows DEF Mark
  <1>16. CASE AcceptRead(r)
    <2>1. CASE billing = "none"
      <3>1. PICK o : o = op[r]  OBVIOUS
      <3>2. /\ pc' = [pc EXCEPT ![r] = "toInvoice"] /\ op' = [op EXCEPT ![r] = o]
            /\ UNCHANGED billing
        BY <1>16, <2>1, <3>1 DEF AcceptRead, Advance
      <3>3. DerivesOK("toInvoice", o)'
        BY <1>1, <2>1, <3>1, <3>2 DEF DerivesOK
      <3>4. /\ "toInvoice" \notin Creating /\ "toInvoice" \notin Saving
            /\ "toInvoice" \notin Deriving \cup {"sync"}
        BY DEF Creating, Saving, Deriving
      <3> QED  BY <3>2, <3>3, <3>4, Arrives, VoidCreates, VoidSaves, VoidFollows
    <2>2. CASE billing # "none"
      BY <1>16, <2>2, LeaveKnows DEF AcceptRead
    <2> QED  BY <2>1, <2>2
  <1>17. CASE AcceptWrite(r)
    BY <1>17, LeaveKnows DEF AcceptWrite
  <1> QED
    BY <1>4, <1>5, <1>6, <1>7, <1>8, <1>9, <1>10, <1>11, <1>12, <1>13, <1>14, <1>15,
       <1>16, <1>17 DEF Continue

LEMMA KnowsStep ==
  ASSUME OneRequest, TypeInv, LedgerInv, KnowsInv, [Next]_vars
  PROVE  KnowsInv'
  <1>1. CASE \E r \in Requests : Call(r)  BY <1>1, CallKnows
  <1>2. CASE \E r \in Requests : Continue(r)  BY <1>2, ContinueKnows
  <1>3. CASE \E r \in Requests : Abort(r)  BY <1>3, LeaveKnows DEF Abort
  <1>4. CASE UNCHANGED vars
    <2>1. UNCHANGED <<invoices, billing, pc, op>>  BY <1>4 DEF vars
    <2>2. ASSUME NEW r \in Requests  PROVE Knows(pc[r], op[r])'
      <3>1. PICK p, o : p = pc[r] /\ o = op[r]  OBVIOUS
      <3>2. Knows(p, o)  BY <3>1 DEF KnowsInv
      <3>3. CreatesOK(p, o)'
        BY <2>1, <3>2, SameInvoices DEF Knows, CreatesOK
      <3>4. SavesOK(p, o)'
        BY <2>1, <3>2 DEF Knows, SavesOK, Found, Issued
      <3>5. DerivesOK(p, o)'
        BY <2>1, <3>2, SameInvoices DEF Knows, DerivesOK
      <3>6. FollowsOK(p, o)'
        BY <2>1, <3>2, SameInvoices DEF Knows, FollowsOK
      <3>7. Knows(p, o)'  BY <3>3, <3>4, <3>5, <3>6 DEF Knows
      <3> QED  BY <2>1, <3>1, <3>7
    <2> QED  BY <2>2 DEF KnowsInv
  <1> QED  BY <1>1, <1>2, <1>3, <1>4 DEF Next

-----------------------------------------------------------------------------
(* How far the status of the case is behind.                               *)
LEMMA Ranks ==
  /\ \A b \in BillingStatuses : Rank(b) \in 0..5
  /\ Rank("none") = 0 /\ Rank("to_invoice") = 1
  /\ \A b \in BillingStatuses : Rank(b) <= 1 <=> b \in {"none", "to_invoice"}
  BY DEF Rank, BillingStatuses

LEMMA CaughtVoid ==
  ASSUME NEW r \in Requests, stale' \/ pc'[r] \in Deriving
  PROVE  CaughtInv'
  BY DEF CaughtInv

LEMMA CaughtSame ==
  ASSUME OneRequest, CaughtInv, NEW r \in Requests, pc[r] \notin Deriving,
         UNCHANGED <<invoices, billing, stale>>
  PROVE  CaughtInv'
  <1>1. \A s \in Requests : pc[s] \notin Deriving  BY DEF OneRequest
  <1>2. ~stale => (Active # {} => NotBehind)  BY <1>1 DEF CaughtInv
  <1>3. NotBehind => NotBehind'
    BY SameInvoices DEF NotBehind
  <1>4. Active' = Active  BY SameInvoices
  <1> QED  BY <1>2, <1>3, <1>4 DEF CaughtInv

(* The status written, or left in place, is that of the invoices listed.   *)
LEMMA CaughtNow ==
  ASSUME TypeInv, NEW total \in {0, QuoteTotal}, UNCHANGED invoices,
         Active # {} => Rank(billing') >= Rank(Aggregate(total))
  PROVE  CaughtInv'
  <1>1. Active' = Active /\ Aggregate(total)' = Aggregate(total)  BY SameInvoices
  <1>2. Active # {} => Rank(billing') >= Rank(Aggregate(total)')  BY <1>1
  <1>3. Active # {} => NotBehind'  BY <1>2 DEF NotBehind
  <1> QED  BY <1>1, <1>3 DEF CaughtInv

LEMMA CaughtStep ==
  ASSUME OneRequest, TypeInv, LedgerInv, KnowsInv, CaughtInv, [Next]_vars
  PROVE  CaughtInv'
  <1> USE RequestFacts
  <1>1. ASSUME NEW r \in Requests, Call(r)  PROVE CaughtInv'
    <2>1. \/ stale'
          \/ pc[r] = "idle" /\ UNCHANGED <<invoices, billing, stale>>
      BY <1>1 DEF Call, CreateRead, FinalizeRead, MarkPaidRead, CancelRead, CreditRead,
                  AcceptQuote, EditBilling, Enter
    <2> QED  BY <2>1, CaughtVoid, CaughtSame DEF Deriving
  <1>2. ASSUME NEW r \in Requests, Abort(r)  PROVE CaughtInv'
    BY <1>2, CaughtVoid DEF Abort
  <1>3. CASE UNCHANGED vars
    <2>1. UNCHANGED <<invoices, billing, stale, pc>>  BY <1>3 DEF vars
    <2>2. (NotBehind => NotBehind') /\ Active' = Active
      BY <2>1, SameInvoices DEF NotBehind
    <2> QED  BY <2>1, <2>2 DEF CaughtInv
  <1>4. ASSUME NEW r \in Requests, WritesInvoice(r)  PROVE CaughtInv'
    <2>1. pc' = [pc EXCEPT ![r] = "recompute"]
      BY <1>4, Creates, Credits, Saves, Cancels DEF WritesInvoice
    <2> QED  BY <2>1, CaughtVoid DEF Deriving
  <1>5. ASSUME NEW r \in Requests,
               \/ CreateList(r) \/ CreateRefused(r) \/ SyncForward(r) \/ SyncBack(r)
               \/ Mark(r) \/ AcceptRead(r)
        PROVE  CaughtInv'
    <2>1. pc[r] \notin Deriving /\ UNCHANGED <<invoices, billing, stale>>
      BY <1>5 DEF CreateList, CreateRefused, SyncForward, SyncBack, Mark, AcceptRead,
                  Leave, Advance, Deriving
    <2> QED  BY <2>1, CaughtSame
  <1>6. ASSUME NEW r \in Requests, RecomputeRead(r)  PROVE CaughtInv'
    <2>1. pc' = [pc EXCEPT ![r] = "weigh"]  BY <1>6 DEF RecomputeRead, Advance
    <2> QED  BY <2>1, CaughtVoid DEF Deriving
  <1>7. ASSUME NEW r \in Requests, RecomputeList(r)  PROVE CaughtInv'
    <2>1. PICK total : total = op[r].total  OBVIOUS
    <2>2. DerivesOK("weigh", op[r])  BY <1>7 DEF RecomputeList, AfterBilling, Leave, Advance, Knows
    <2>3. total \in {0, QuoteTotal} /\ op[r].billing = billing
      BY <2>1, <2>2 DEF DerivesOK
    <2>4. CASE Active # {} /\ MayApply(op[r].billing, Aggregate(total))
      <3>1. pc' = [pc EXCEPT ![r] = "apply"]
        BY <1>7, <2>1, <2>4 DEF RecomputeList, Advance
      <3> QED  BY <3>1, CaughtVoid DEF Deriving
    <2>5. CASE ~(Active # {} /\ MayApply(op[r].billing, Aggregate(total)))
      <3>1. UNCHANGED <<invoices, billing>>  BY <1>7 DEF RecomputeList
      <3>2. Aggregate(total) \in BillingStatuses  BY AggregateType
      <3>3. Active # {} => Rank(billing) >= Rank(Aggregate(total))
        BY <2>3, <2>5, <3>2, Ranks DEF MayApply
      <3> QED  BY <2>3, <3>1, <3>3, CaughtNow
    <2> QED  BY <2>4, <2>5
  <1>8. ASSUME NEW r \in Requests, RecomputeApply(r)  PROVE CaughtInv'
    <2>1. PICK total : total = op[r].total  OBVIOUS
    <2>2. DerivesOK("apply", op[r])
      BY <1>8 DEF RecomputeApply, AfterBilling, Leave, Advance, Knows
    <2>3. total \in {0, QuoteTotal} /\ op[r].next = Aggregate(total)
      BY <2>1, <2>2 DEF DerivesOK
    <2>4. billing' = op[r].next /\ UNCHANGED invoices  BY <1>8 DEF RecomputeApply
    <2>5. Rank(Aggregate(total)) \in 0..5  BY AggregateType, Ranks
    <2>6. Rank(billing') >= Rank(Aggregate(total))
      <3>1. Rank(billing') = Rank(Aggregate(total))  BY <2>3, <2>4
      <3> QED  BY <2>5, <3>1
    <2> QED  BY <2>3, <2>4, <2>6, CaughtNow
  <1>9. ASSUME NEW r \in Requests, AcceptWrite(r)  PROVE CaughtInv'
    <2>1. /\ pc[r] = "toInvoice" /\ billing' = "to_invoice"
          /\ UNCHANGED <<invoices, stale>>
      BY <1>9 DEF AcceptWrite, Leave, Advance
    <2>2. billing = "none"  BY <2>1 DEF Knows, DerivesOK
    <2>3. \A s \in Requests : pc[s] \notin Deriving  BY <2>1 DEF OneRequest, Deriving
    <2>4. CASE stale  BY <2>1, <2>4, CaughtVoid
    <2>5. CASE Active = {}
      BY <2>1, <2>5, SameInvoices DEF CaughtInv
    <2>6. CASE ~stale /\ Active # {}
      <3>1. PICK total \in {0, QuoteTotal} : Rank(billing) >= Rank(Aggregate(total))
        BY <2>3, <2>6 DEF CaughtInv, NotBehind
      <3>2. Aggregate(total) \in BillingStatuses  BY AggregateType
      <3>3. Rank(billing') >= Rank(Aggregate(total))
        BY <2>1, <2>2, <3>1, <3>2, Ranks
      <3> QED  BY <2>1, <3>3, CaughtNow
    <2> QED  BY <2>4, <2>5, <2>6
  <1> QED
    BY <1>1, <1>2, <1>3, <1>4, <1>5, <1>6, <1>7, <1>8, <1>9 DEF Next, Continue, WritesInvoice

-----------------------------------------------------------------------------
(* How far the status of the intervention is behind.                       *)
LEMMA OfferedSame ==
  ASSUME UNCHANGED invoices
  PROVE  \A w : Offered(w)' <=> Offered(w)
  BY SameInvoices DEF Offered

(* An invoice that does not bill the intervention is nothing to it.        *)
LEMMA OfferedOther ==
  ASSUME TypeInv, LedgerInv, KnowsInv, NEW r \in Requests, WritesInvoice(r), ~op[r].work
  PROVE  \A w : Offered(w)' <=> Offered(w)
  <1> USE RequestFacts
  <1> DEFINE Billed == \E i \in Active : invoices[i].work
  <1> SUFFICES Billed' <=> Billed  BY DEF Offered
  <1>1. ASSUME NEW e \in Invoice, invoices' = Append(invoices, e),
               ~e.deleted, e.status # "cancelled", ~e.work
        PROVE  Billed' <=> Billed
    <2>1. PICK n : n = Len(invoices) + 1  OBVIOUS
    <2>2. /\ invoices'[n] = e /\ Active' = Active \cup {n}
          /\ \A j \in DOMAIN invoices : invoices'[j] = invoices[j]
      BY <1>1, <2>1, Inserted
    <2>3. \A j \in Active : invoices'[j] = invoices[j]  BY <2>2, Subsets
    <2> QED  BY <1>1, <2>2, <2>3
  <1>2. CASE CreateInsert(r)
    <2>1. PICK e \in Invoice :
            /\ invoices' = Append(invoices, e)
            /\ ~e.deleted /\ e.status = op[r].status /\ e.amount > 0
            /\ (e.work <=> op[r].work) /\ e.situation \in {0, NextSituation}
            /\ e.quoted => AlreadyInvoiced + e.amount <= QuoteTotal
      BY <1>2, Creates
    <2>2. op[r].status # "cancelled"  BY <1>2, Creates
    <2> QED  BY <1>1, <2>1, <2>2
  <1>3. CASE CreditInsert(r)
    BY <1>1, <1>3, Credits
  <1>4. ASSUME NEW k, NEW e \in Invoice, k \in DOMAIN invoices,
               invoices' = [invoices EXCEPT ![k] = e], Kept(e, invoices[k]),
               ~invoices[k].work
        PROVE  Billed' <=> Billed
    <2>1. /\ \A i \in DOMAIN invoices : Kept(invoices'[i], invoices[i])
          /\ Active' = IF e.deleted \/ e.status = "cancelled" THEN Active \ {k}
                                                              ELSE Active \cup {k}
      BY <1>4, Changed
    <2>2. \A i \in DOMAIN invoices : invoices'[i].work <=> invoices[i].work
      BY <2>1 DEF Kept
    <2>3. Active \subseteq DOMAIN invoices  BY Subsets
    <2>4. CASE e.deleted \/ e.status = "cancelled"
      BY <1>4, <2>1, <2>2, <2>3, <2>4
    <2>5. CASE ~(e.deleted \/ e.status = "cancelled")
      BY <1>4, <2>1, <2>2, <2>3, <2>5
    <2> QED  BY <2>4, <2>5
  <1>5. CASE FinalizeSave(r) \/ MarkPaidSave(r)
    <2>1. op[r].id \in DOMAIN invoices /\ ~invoices[op[r].id].work
      BY <1>5, Saves, Subsets
    <2> QED  BY <1>4, <1>5, <2>1, Saves
  <1>6. CASE CancelSave(r)
    <2>1. op[r].id \in DOMAIN invoices /\ ~invoices[op[r].id].work
      BY <1>6, Cancels
    <2> QED  BY <1>4, <1>6, <2>1, Cancels
  <1> QED  BY <1>2, <1>3, <1>5, <1>6 DEF WritesInvoice

(* Of the one request, what is to be shown.                                *)
LEMMA WorkOf ==
  ASSUME OneRequest, NEW r \in Requests,
         aborts' = 0 => /\ ~Owes(pc'[r], op'[r]) => Offered(work)'
                        /\ pc'[r] = "mark" => Offered(op[r].next)'
  PROVE  WorkInv'
  BY DEF WorkInv, OneRequest, Owes

(* Nothing changes for the intervention ...                                *)
LEMMA WorkSame ==
  ASSUME OneRequest, WorkInv, NEW r \in Requests, pc[r] # "mark", pc'[r] # "mark",
         UNCHANGED <<work, aborts>>, \A w : Offered(w)' <=> Offered(w),
         ~Owes(pc[r], op[r])
  PROVE  WorkInv'
  <1>1. aborts = 0 => Offered(work)  BY DEF WorkInv, OneRequest
  <1>2. PICK w : w = work  OBVIOUS
  <1>3. aborts' = 0 => Offered(w)'  BY <1>1, <1>2
  <1>4. aborts' = 0 => Offered(work)'  BY <1>2, <1>3 DEF Offered
  <1> QED  BY <1>4, WorkOf

(* ... or the request still has to follow its invoice.                     *)
LEMMA WorkVoid ==
  ASSUME OneRequest, NEW r \in Requests, Owes(pc'[r], op'[r]), pc'[r] # "mark"
  PROVE  WorkInv'
  BY WorkOf

LEMMA BilledStatus ==
  \A status \in InvoiceStatuses :
    status # "cancelled" => /\ WorkStatus(status) \in BillingStatuses
                            /\ WorkStatus(status) \notin {"none", "to_invoice"}
  BY DEF WorkStatus, InvoiceStatuses, BillingStatuses

(* Back to the newest other invoice, or to be invoiced.                    *)
LEMMA BackIsOffered ==
  ASSUME invoices \in Seq(Invoice), NEW id, id \notin Active
  PROVE  Offered(BackTo(id))
  <1> DEFINE others == {i \in Active \ {id} : invoices[i].work}
  <1>1. others \in SUBSET DOMAIN invoices  BY Subsets
  <1>2. others = {} <=> \A i \in Active : ~invoices[i].work  OBVIOUS
  <1>3. CASE others = {}
    <2>1. BackTo(id) = "to_invoice"  BY <1>3 DEF BackTo
    <2> QED  BY <1>2, <1>3, <2>1 DEF Offered
  <1>4. CASE others # {}
    <2>1. IsFiniteSet(others) /\ others \subseteq Nat  BY <1>1, SomeFinite
    <2>2. BackTo(id) = WorkStatus(invoices[Max(others)].status)
      BY <1>4 DEF BackTo
    <2>3. others \subseteq Active  OBVIOUS
    <2> HIDE DEF others
    <2>4. Max(others) \in others  BY <1>4, <2>1, MaxFacts
    <2>5. /\ invoices[Max(others)].status \in InvoiceStatuses
          /\ invoices[Max(others)].status # "cancelled"
      BY <1>1, <2>3, <2>4, InvoiceFacts DEF Active
    <2>6. BackTo(id) \notin {"none", "to_invoice"}  BY <2>2, <2>5, BilledStatus
    <2> QED  BY <1>2, <1>4, <2>6 DEF Offered
  <1> QED  BY <1>3, <1>4

LEMMA WorkStep ==
  ASSUME OneRequest, TypeInv, LedgerInv, KnowsInv, WorkInv, [Next]_vars
  PROVE  WorkInv'
  <1> USE RequestFacts
  <1>1. ASSUME NEW r \in Requests, Call(r)  PROVE WorkInv'
    <2>1. /\ pc[r] = "idle" /\ pc'[r] # "mark"
          /\ UNCHANGED <<invoices, work, aborts>>
      BY <1>1 DEF Call, CreateRead, FinalizeRead, MarkPaidRead, CancelRead, CreditRead,
                  AcceptQuote, EditBilling, Enter
    <2>2. ~Owes(pc[r], op[r]) /\ pc[r] # "mark"  BY <2>1 DEF Owes, Deriving
    <2> QED  BY <2>1, <2>2, OfferedSame, WorkSame
  <1>2. ASSUME NEW r \in Requests, Abort(r)  PROVE WorkInv'
    <2>1. aborts' # 0  BY <1>2 DEF Abort
    <2> QED  BY <2>1 DEF WorkInv
  <1>3. CASE UNCHANGED vars
    <2>1. UNCHANGED <<invoices, work, pc, op, aborts>>  BY <1>3 DEF vars
    <2>2. Offered(work)' <=> Offered(work)
      BY <2>1, SameInvoices DEF Offered
    <2>3. \A r \in Requests : Offered(op[r].next)' <=> Offered(op[r].next)
      BY <2>1, SameInvoices DEF Offered
    <2> QED  BY <2>1, <2>2, <2>3 DEF WorkInv, Owes
  <1>4. ASSUME NEW r \in Requests, WritesInvoice(r)  PROVE WorkInv'
    <2>1. /\ pc' = [pc EXCEPT ![r] = "recompute"] /\ pc[r] \in Saving \cup {"insert"}
          /\ UNCHANGED <<work, aborts>>
      BY <1>4, Creates, Credits, Saves, Cancels
         DEF WritesInvoice, CreateInsert, CreditInsert, FinalizeSave, MarkPaidSave,
             CancelSave, Save, Saving
    <2>2. op'[r].work <=> op[r].work
      <3>1. op' = op \/ op' = [op EXCEPT ![r] = [op[r] EXCEPT !.id = Len(invoices) + 1]]
        BY <1>4, Creates, Saves, Cancels DEF WritesInvoice, CreditInsert
      <3>2. [op[r] EXCEPT !.id = Len(invoices) + 1].work <=> op[r].work
        BY DEF Op
      <3> QED  BY <3>1, <3>2
    <2>3. CASE op[r].work
      <3>1. Owes(pc'[r], op'[r]) /\ pc'[r] # "mark"
        BY <2>1, <2>2, <2>3 DEF Owes, Deriving
      <3> QED  BY <3>1, WorkVoid
    <2>4. CASE ~op[r].work
      <3>1. ~Owes(pc[r], op[r]) /\ pc[r] # "mark" /\ pc'[r] # "mark"
        BY <2>1 DEF Owes, Deriving, Saving
      <3> QED  BY <1>4, <2>1, <2>4, <3>1, OfferedOther, WorkSame
    <2> QED  BY <2>3, <2>4
  <1>5. ASSUME NEW r \in Requests,
               \/ CreateList(r) \/ CreateRefused(r) \/ AcceptRead(r) \/ AcceptWrite(r)
        PROVE  WorkInv'
    <2>1. /\ pc[r] \in {"list", "insert", "accept", "toInvoice"} /\ pc'[r] # "mark"
          /\ UNCHANGED <<invoices, work, aborts>>
      BY <1>5 DEF CreateList, CreateRefused, AcceptRead, AcceptWrite, Leave, Advance
    <2>2. ~Owes(pc[r], op[r]) /\ pc[r] # "mark"  BY <2>1 DEF Owes, Deriving
    <2> QED  BY <2>1, <2>2, OfferedSame, WorkSame
  <1>6. ASSUME NEW r \in Requests,
               RecomputeRead(r) \/ RecomputeList(r) \/ RecomputeApply(r)
        PROVE  WorkInv'
    <2>1. /\ pc[r] \in Deriving /\ pc'[r] # "mark"
          /\ UNCHANGED <<invoices, work, aborts>>
      BY <1>6 DEF RecomputeRead, RecomputeList, RecomputeApply, AfterBilling, Leave,
                  Advance, Deriving
    <2>2. CASE op[r].work
      <3>1. op'[r].work
        <4>1. \/ op' = op
              \/ op' = [op EXCEPT ![r] = [op[r] EXCEPT !.billing = billing]]
              \/ op' = [op EXCEPT ![r] = [op[r] EXCEPT !.next = Aggregate(op[r].total)]]
          BY <1>6, <2>2 DEF RecomputeRead, RecomputeList, RecomputeApply, AfterBilling
        <4>2. /\ [op[r] EXCEPT !.billing = billing].work
              /\ [op[r] EXCEPT !.next = Aggregate(op[r].total)].work
          BY <2>2 DEF Op
        <4> QED  BY <2>2, <4>1, <4>2
      <3>2. pc'[r] \in Deriving \cup {"sync"}
        BY <1>6, <2>2 DEF RecomputeRead, RecomputeList, RecomputeApply, AfterBilling,
                          Advance, Deriving
      <3>3. Owes(pc'[r], op'[r])  BY <3>1, <3>2 DEF Owes
      <3> QED  BY <2>1, <3>3, WorkVoid
    <2>3. CASE ~op[r].work
      <3>1. ~Owes(pc[r], op[r]) /\ pc[r] # "mark"  BY <2>1, <2>3 DEF Owes, Deriving
      <3> QED  BY <2>1, <3>1, OfferedSame, WorkSame
    <2> QED  BY <2>2, <2>3
  <1>7. ASSUME NEW r \in Requests, NEW next \in BillingStatuses,
               pc' = [pc EXCEPT ![r] = "mark"], op' = [op EXCEPT ![r].next = next],
               UNCHANGED invoices, Offered(next)
        PROVE  WorkInv'
    <2>1. pc'[r] = "mark" /\ op'[r].next = next
      BY <1>7 DEF Op
    <2>2. Offered(next)'  BY <1>7, OfferedSame
    <2>3. Offered(op[r].next)'  BY <2>1, <2>2 DEF Offered
    <2>4. Owes(pc'[r], op'[r])  BY <2>1 DEF Owes
    <2> QED  BY <2>3, <2>4, WorkOf
  <1>8. ASSUME NEW r \in Requests, SyncForward(r)  PROVE WorkInv'
    <2>1. PICK next : next = WorkStatus(op[r].status)  OBVIOUS
    <2>2. /\ pc[r] = "sync" /\ op[r].status # "cancelled"
          /\ UNCHANGED <<invoices, work, aborts>>
      BY <1>8 DEF SyncForward, Leave, Advance
    <2>3. op[r].id \in Active /\ invoices[op[r].id].work
      BY <2>2 DEF Knows, FollowsOK
    <2>4. next \in BillingStatuses /\ next \notin {"none", "to_invoice"}
      BY <2>1, <2>2, BilledStatus DEF Op
    <2>5. CASE Rank(next) > Rank(work)
      <3>1. Offered(next)  BY <2>3, <2>4 DEF Offered
      <3>2. pc' = [pc EXCEPT ![r] = "mark"] /\ op' = [op EXCEPT ![r].next = next]
        BY <1>8, <2>1, <2>5 DEF SyncForward, Advance
      <3> QED  BY <1>7, <2>2, <2>4, <3>1, <3>2
    <2>6. CASE ~(Rank(next) > Rank(work))
      <3>1. work \notin {"none", "to_invoice"}  BY <2>4, <2>6, Ranks
      <3>2. Offered(work)  BY <2>3, <3>1 DEF Offered
      <3>3. Offered(work)'  BY <2>2, <3>2, SameInvoices DEF Offered
      <3>4. pc'[r] # "mark"  BY <1>8, <2>1, <2>6 DEF SyncForward, Leave, Advance
      <3> QED  BY <3>3, <3>4, WorkOf
    <2> QED  BY <2>5, <2>6
  <1>9. ASSUME NEW r \in Requests, SyncBack(r)  PROVE WorkInv'
    <2>1. PICK next : next = BackTo(op[r].id)  OBVIOUS
    <2>2. /\ pc[r] = "sync" /\ op[r].status = "cancelled" /\ UNCHANGED invoices
          /\ pc' = [pc EXCEPT ![r] = "mark"] /\ op' = [op EXCEPT ![r].next = next]
      BY <1>9, <2>1 DEF SyncBack, Advance
    <2>3. op[r].id \notin Active  BY <2>2 DEF Knows, FollowsOK
    <2>4. next \in BillingStatuses  BY <2>1, BackToType
    <2>5. Offered(BackTo(op[r].id))  BY <2>3, BackIsOffered
    <2>6. Offered(next)  BY <2>1, <2>5
    <2> QED  BY <1>7, <2>2, <2>4, <2>6
  <1>10. ASSUME NEW r \in Requests, Mark(r)  PROVE WorkInv'
    <2>1. /\ pc[r] = "mark" /\ pc'[r] # "mark" /\ work' = op[r].next
          /\ UNCHANGED <<invoices, aborts>>
      BY <1>10 DEF Mark, Leave, Advance
    <2>2. aborts = 0 => Offered(op[r].next)  BY <2>1 DEF WorkInv
    <2>3. aborts' = 0 => Offered(work)'
      BY <2>1, <2>2, SameInvoices DEF Offered
    <2> QED  BY <2>1, <2>3, WorkOf
  <1> QED
    BY <1>1, <1>2, <1>3, <1>4, <1>5, <1>6, <1>8, <1>9, <1>10
       DEF Next, Continue, WritesInvoice

-----------------------------------------------------------------------------
(* Every step of a lone request keeps the invariant.                       *)
LEMMA SerialStep == OneRequest /\ SerialInv /\ [Next]_vars => SerialInv'
  <1> SUFFICES ASSUME OneRequest, SerialInv, [Next]_vars  PROVE SerialInv'
    OBVIOUS
  <1>1. TypeInv'  BY TypeStep DEF SerialInv
  <1>2. LedgerInv'  BY LedgerStep DEF SerialInv
  <1>3. KnowsInv'  BY KnowsStep DEF SerialInv
  <1>4. CaughtInv'  BY CaughtStep DEF SerialInv
  <1>5. WorkInv'  BY WorkStep DEF SerialInv
  <1> QED  BY <1>1, <1>2, <1>3, <1>4, <1>5 DEF SerialInv

LEMMA SerialInit ==
  ASSUME Init
  PROVE  SerialInv
  <1>1. TypeInv  BY TypeInit
  <1>2. /\ invoices = << >> /\ work = "none"
        /\ \A r \in Requests : pc[r] = "idle" /\ op[r] = NoOp
    BY DEF Init
  <1>3. DOMAIN invoices = {}  BY <1>2
  <1>4. Active = {} /\ Quoted = {} /\ Situations = {}  BY <1>3, Subsets
  <1>5. LedgerInv
    <2>1. AlreadyInvoiced = 0
      BY <1>3, <1>4, SumZero, FS_EmptySet DEF AlreadyInvoiced, Sum
    <2> QED
      BY <1>3, <1>4, <2>1, CaseBillingAssumption
         DEF LedgerInv, DraftsPositive, SituationsDistinct, QuoteNotExceeded
  <1>6. KnowsInv
    BY <1>2, NoOpFields
       DEF KnowsInv, Knows, CreatesOK, SavesOK, DerivesOK, FollowsOK, Deriving
  <1>7. CaughtInv  BY <1>4 DEF CaughtInv
  <1>8. WorkInv
    BY <1>2, <1>4 DEF WorkInv, Offered
  <1> QED  BY <1>1, <1>5, <1>6, <1>7, <1>8 DEF SerialInv

(* A lone request, which may stop anywhere, numbers situations in turn     *)
(* (nextSituationIndex): no two active ones of a case share a number.      *)
THEOREM SituationsAreDistinct ==
  ASSUME OneRequest
  PROVE  Spec => []SituationsDistinct
  <1>1. Init => SerialInv  BY SerialInit
  <1>2. SerialInv /\ [Next]_vars => SerialInv'  BY SerialStep
  <1>3. SerialInv => SituationsDistinct  BY DEF SerialInv, LedgerInv
  <1> QED  BY <1>1, <1>2, <1>3, PTL DEF Spec

(* It does not invoice the quote beyond its total either, whatever the     *)
(* kinds of invoice, drafts and credit notes (sumAlreadyInvoicedHt).       *)
THEOREM QuoteIsNotExceeded ==
  ASSUME OneRequest
  PROVE  Spec => []QuoteNotExceeded
  <1>1. Init => SerialInv  BY SerialInit
  <1>2. SerialInv /\ [Next]_vars => SerialInv'  BY SerialStep
  <1>3. SerialInv => QuoteNotExceeded  BY DEF SerialInv, LedgerInv
  <1> QED  BY <1>1, <1>2, <1>3, PTL DEF Spec

(* Once it has derived the status of the case (recomputeCaseBillingStatus) *)
(* that status is not behind the invoices, whatever was edited or stopped  *)
(* before.                                                                 *)
THEOREM BillingCatchesUp ==
  ASSUME OneRequest
  PROVE  Spec => []BillingCaughtUp
  <1>1. Init => SerialInv  BY SerialInit
  <1>2. SerialInv /\ [Next]_vars => SerialInv'  BY SerialStep
  <1>3. SerialInv => BillingCaughtUp
    <2>1. 0 \in {0, QuoteTotal} /\ QuoteTotal \in {0, QuoteTotal}  OBVIOUS
    <2>2. NotBehind => \/ Rank(billing) >= Rank(Aggregate(0))
                       \/ Rank(billing) >= Rank(Aggregate(QuoteTotal))
      BY DEF NotBehind
    <2>3. Quiet => \A r \in Requests : pc[r] \notin Deriving
      BY DEF Quiet, Deriving
    <2> QED  BY <2>2, <2>3 DEF SerialInv, CaughtInv, BillingCaughtUp
  <1> QED  BY <1>1, <1>2, <1>3, PTL DEF Spec

(* As long as none stops, an intervention is offered for invoicing exactly *)
(* when no active invoice bills it (syncInterventionBillingStatuses).      *)
THEOREM WorkIsOffered ==
  ASSUME OneRequest
  PROVE  Spec => []WorkOffered
  <1>1. Init => SerialInv  BY SerialInit
  <1>2. SerialInv /\ [Next]_vars => SerialInv'  BY SerialStep
  <1>3. SerialInv => WorkOffered
    <2>1. Quiet => \A r \in Requests : ~Owes(pc[r], op[r])
      BY DEF Quiet, Owes, Deriving
    <2> QED  BY <2>1 DEF SerialInv, WorkInv, WorkOffered, Offered
  <1> QED  BY <1>1, <1>2, <1>3, PTL DEF Spec

=============================================================================
