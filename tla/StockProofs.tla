----------------------------- MODULE StockProofs -----------------------------
(***************************************************************************)
(* What Stock promises, for any requests, locations and quantities.        *)
(***************************************************************************)
EXTENDS Stock, DataLemmas

-----------------------------------------------------------------------------
(* Types.  What a request is about follows from the await it is at.        *)

ArticleOK ==
  /\ life \in {"absent", "active", "inactive", "deleted"}
  /\ total \in Nat
  /\ stocks \in Seq([location: Locations, quantity: Int])
  /\ journal \in [net: Int, consumed: Nat, returned: Nat, tagged: Nat]
  /\ location \in [Locations -> {"absent", "default", "other", "deleted"}]

RequestsOK ==
  /\ pc \in [Requests -> {"idle", "insert", "apply", "locate", "move", "record",
                          "take", "give", "note", "create", "pull", "retire"}]
  /\ op \in [Requests -> Op]
  /\ pre \in [Requests -> Nat]
  /\ seen \in [Requests -> [found: BOOLEAN, sum: Int]]

HistoryOK ==
  /\ {calls, aborts} \subseteq Nat
  /\ lost \in Int
  /\ overlapped \in BOOLEAN

LEMMA TypeParts == TypeOK <=> ArticleOK /\ RequestsOK /\ HistoryOK
  BY DEF TypeOK, ArticleOK, RequestsOK, HistoryOK

Shape(r) ==
  /\ pc[r] \in {"idle", "insert"} => pre[r] = 0
  /\ pc[r] = "insert" => op[r].type = "initial"
  /\ pc[r] \in {"apply", "locate", "move"} => op[r].type \in Movements
  /\ pc[r] = "record" => op[r].type \in Movements \cup {"initial"}
  /\ pc[r] \in {"locate", "move", "create", "pull", "retire", "take", "give", "note"}
       => op[r].location \in Locations
  /\ pc[r] \in {"take", "give", "note"} => op[r].destination \in Locations

TypeInv == TypeOK /\ \A r \in Requests : Shape(r)

-----------------------------------------------------------------------------
(* The entries stay a sequence of entries.                                 *)
Entries == [location: Locations, quantity: Int]

LEMMA EntriesType ==
  ASSUME stocks \in Seq(Entries)
  PROVE  /\ Len(stocks) \in Nat
         /\ DOMAIN stocks = 1..Len(stocks)
         /\ IsFiniteSet(DOMAIN stocks)
         /\ \A k \in DOMAIN stocks : /\ k \in Nat
                                     /\ stocks[k] \in Entries
                                     /\ stocks[k].location \in Locations
                                     /\ stocks[k].quantity \in Int
  <1>1. Len(stocks) \in Nat /\ DOMAIN stocks = 1..Len(stocks)  OBVIOUS
  <1>2. IsFiniteSet(DOMAIN stocks)  BY <1>1, FS_Interval
  <1>3. \A k \in DOMAIN stocks : stocks[k] \in Entries  OBVIOUS
  <1> QED  BY <1>1, <1>2, <1>3 DEF Entries

(* What they hold in all.                                                  *)
LEMMA InStockType ==
  ASSUME stocks \in Seq(Entries)
  PROVE  /\ InStock \in Int
         /\ InStock = SumFunctionOnSet([k \in DOMAIN stocks |-> stocks[k].quantity],
                                       DOMAIN stocks)
  <1>1. InStock = SumFunctionOnSet([k \in DOMAIN stocks |-> stocks[k].quantity],
                                   DOMAIN stocks)
    BY DEF InStock, SumFunction
  <1> QED  BY <1>1, EntriesType, SumType

(* The first place of a set of them.                                       *)
LEMMA FirstIn ==
  ASSUME NEW K \in SUBSET Nat, K # {}
  PROVE  First(K) \in K /\ \A j \in K : First(K) <= j
  BY NatLeast DEF First

LEMMA AddType ==
  ASSUME stocks \in Seq(Entries), NEW k \in DOMAIN stocks, NEW n \in Int, Add(k, n)
  PROVE  /\ stocks' \in Seq(Entries)
         /\ DOMAIN stocks' = DOMAIN stocks
         /\ \A j \in DOMAIN stocks :
              /\ stocks'[j].location = stocks[j].location
              /\ stocks'[j].quantity = stocks[j].quantity + (IF j = k THEN n ELSE 0)
  <1>1. stocks'  = [stocks EXCEPT ![k].quantity = @ + n]  BY DEF Add
  <1>2. [stocks[k] EXCEPT !.quantity = @ + n] \in Entries
    BY EntriesType DEF Entries
  <1>3. stocks' \in Seq(Entries) /\ DOMAIN stocks' = DOMAIN stocks
    BY <1>1, <1>2
  <1>4. ASSUME NEW j \in DOMAIN stocks
        PROVE  /\ stocks'[j].location = stocks[j].location
               /\ stocks'[j].quantity = stocks[j].quantity + (IF j = k THEN n ELSE 0)
    BY <1>1, EntriesType DEF Entries
  <1> QED  BY <1>3, <1>4

LEMMA PutType ==
  ASSUME stocks \in Seq(Entries), NEW k \in DOMAIN stocks, NEW n \in Int, Put(k, n)
  PROVE  /\ stocks' \in Seq(Entries)
         /\ DOMAIN stocks' = DOMAIN stocks
         /\ \A j \in DOMAIN stocks :
              /\ stocks'[j].location = stocks[j].location
              /\ stocks'[j].quantity = IF j = k THEN n ELSE stocks[j].quantity
  <1>1. stocks'  = [stocks EXCEPT ![k].quantity = n]  BY DEF Put
  <1>2. [stocks[k] EXCEPT !.quantity = n] \in Entries
    BY EntriesType DEF Entries
  <1>3. stocks' \in Seq(Entries) /\ DOMAIN stocks' = DOMAIN stocks
    BY <1>1, <1>2
  <1>4. ASSUME NEW j \in DOMAIN stocks
        PROVE  /\ stocks'[j].location = stocks[j].location
               /\ stocks'[j].quantity = IF j = k THEN n ELSE stocks[j].quantity
    BY <1>1, EntriesType DEF Entries
  <1> QED  BY <1>3, <1>4

LEMMA PushType ==
  ASSUME stocks \in Seq(Entries), NEW l \in Locations, NEW n \in Int, Push(l, n)
  PROVE  /\ stocks' \in Seq(Entries)
         /\ DOMAIN stocks' = DOMAIN stocks \cup {Len(stocks) + 1}
         /\ Len(stocks) + 1 \notin DOMAIN stocks
         /\ \A j \in DOMAIN stocks : stocks'[j] = stocks[j]
         /\ stocks'[Len(stocks) + 1] = [location |-> l, quantity |-> n]
  <1> DEFINE e == [location |-> l, quantity |-> n]
  <1>1. e \in Entries  BY DEF Entries
  <1>2. stocks' = Append(stocks, e)  BY DEF Push
  <1> HIDE DEF e
  <1>3. stocks' \in Seq(Entries) /\ Len(stocks') = Len(stocks) + 1
    BY <1>1, <1>2
  <1>4. /\ \A j \in 1..Len(stocks) : stocks'[j] = stocks[j]
        /\ stocks'[Len(stocks) + 1] = e
    BY <1>2
  <1>5. Len(stocks) \in Nat  OBVIOUS
  <1> QED  BY <1>3, <1>4, <1>5 DEF e

LEMMA KeepType ==
  ASSUME stocks \in Seq(Entries), NEW K \in SUBSET DOMAIN stocks, Keep(K)
  PROVE  /\ stocks' \in Seq(Entries)
         /\ \E f \in [DOMAIN stocks' -> K] :
              /\ \A i, j \in DOMAIN stocks' : i # j => f[i] # f[j]
              /\ \A i \in DOMAIN stocks' : stocks'[i] = stocks[f[i]]
  <1>1. PICK f \in [1..Cardinality(K) -> K] :
          /\ \A i, j \in DOMAIN f : i < j => f[i] < f[j]
          /\ stocks' = [i \in DOMAIN f |-> stocks[f[i]]]
    BY DEF Keep
  <1>2. IsFiniteSet(K)  BY EntriesType, FS_Subset
  <1>3. Cardinality(K) \in Nat  BY <1>2, FS_CardinalityType
  <1>4. \A i \in 1..Cardinality(K) : f[i] \in K /\ stocks[f[i]] \in Entries /\ f[i] \in Nat
    BY EntriesType
  <1>5. stocks' \in [1..Cardinality(K) -> Entries]  BY <1>1, <1>4
  <1>6. stocks' \in Seq(Entries) /\ DOMAIN stocks' = 1..Cardinality(K)
    BY <1>3, <1>5
  <1>7. \A i, j \in 1..Cardinality(K) : i # j => i < j \/ j < i  BY <1>3
  <1>8. \A i, j \in DOMAIN stocks' : i # j => f[i] # f[j]
    BY <1>1, <1>4, <1>6, <1>7
  <1> QED  BY <1>1, <1>6, <1>8

-----------------------------------------------------------------------------
(* A request that enters, goes on or leaves keeps the types of requests.   *)
Pcs == {"idle", "insert", "apply", "locate", "move", "record", "take", "give",
        "note", "create", "pull", "retire"}

LEMMA NoOpType == NoOp \in Op
  BY DEF NoOp, Op

(* What the operations ask for.                                            *)
LEMMA InitialAsked ==
  ASSUME NEW q \in Nat, NEW l \in Locations \cup {NoLocation}
  PROVE  LET o == [NoOp EXCEPT !.type = "initial", !.quantity = q, !.location = l]
         IN  o \in Op /\ o.type = "initial" /\ o.quantity = q /\ o.location = l
  <1>1. ASSUME NEW b \in Op
        PROVE  LET o == [b EXCEPT !.type = "initial", !.quantity = q, !.location = l]
               IN  o \in Op /\ o.type = "initial" /\ o.quantity = q /\ o.location = l
    BY DEF Op
  <1> QED  BY <1>1, NoOpType

LEMMA PlaceAsked ==
  ASSUME NEW l \in Locations
  PROVE  LET o == [NoOp EXCEPT !.location = l]
         IN  o \in Op /\ o.location = l
  <1>1. ASSUME NEW b \in Op
        PROVE  LET o == [b EXCEPT !.location = l]
               IN  o \in Op /\ o.location = l
    BY DEF Op
  <1> QED  BY <1>1, NoOpType

LEMMA EnterType ==
  ASSUME TypeInv, NEW r \in Requests, NEW p \in Pcs, NEW o \in Op, Enter(r, p, o),
         UNCHANGED pre, p # "idle",
         seen' \in [Requests -> [found: BOOLEAN, sum: Int]],
         UNCHANGED <<aborts, lost>>
  PROVE  /\ RequestsOK' /\ HistoryOK'
         /\ \A s \in Requests : s # r => Shape(s)'
         /\ pc[r] = "idle" /\ pc'[r] = p /\ op'[r] = o
  <1>1. RequestsOK' /\ HistoryOK'
    <2>1. RequestsOK'  BY DEF Enter, TypeInv, TypeOK, RequestsOK, Pcs
    <2>2. overlapped' \in BOOLEAN  BY DEF Enter
    <2>3. {calls', aborts'} \subseteq Nat /\ lost' \in Int
      BY DEF Enter, TypeInv, TypeOK
    <2> QED  BY <2>1, <2>2, <2>3 DEF HistoryOK
  <1>2. \A s \in Requests : s # r => pc'[s] = pc[s] /\ op'[s] = op[s] /\ pre'[s] = pre[s]
    BY DEF Enter, TypeInv, TypeOK
  <1>3. pc[r] = "idle" /\ pc'[r] = p /\ op'[r] = o
    BY DEF Enter, TypeInv, TypeOK
  <1> QED  BY <1>1, <1>2, <1>3 DEF TypeInv, Shape

LEMMA AdvanceType ==
  ASSUME TypeInv, NEW r \in Requests, NEW from \in Pcs, NEW to \in Pcs,
         Advance(r, from, to), UNCHANGED <<op, calls, aborts, lost, overlapped>>,
         pre' \in [Requests -> Nat], \A s \in Requests : s # r => pre'[s] = pre[s],
         seen' \in [Requests -> [found: BOOLEAN, sum: Int]]
  PROVE  /\ RequestsOK' /\ HistoryOK'
         /\ \A s \in Requests : s # r => Shape(s)'
         /\ pc[r] = from /\ pc'[r] = to
  <1>1. RequestsOK' /\ HistoryOK'
    BY DEF Advance, TypeInv, TypeOK, RequestsOK, HistoryOK, Pcs
  <1>2. \A s \in Requests : s # r => pc'[s] = pc[s] /\ op'[s] = op[s] /\ pre'[s] = pre[s]
    BY DEF Advance, TypeInv, TypeOK
  <1>3. pc[r] = from /\ pc'[r] = to
    BY DEF Advance, TypeInv, TypeOK
  <1> QED  BY <1>1, <1>2, <1>3 DEF TypeInv, Shape

LEMMA LeaveType ==
  ASSUME TypeInv, NEW r \in Requests, NEW from \in Pcs,
         Leave(r, from), UNCHANGED <<calls, overlapped>>, aborts' \in Nat, lost' \in Int
  PROVE  /\ RequestsOK' /\ HistoryOK'
         /\ \A s \in Requests : Shape(s)'
         /\ pc[r] = from /\ pc'[r] = "idle"
  <1>1. NoOp \in Op /\ NothingSeen \in [found: BOOLEAN, sum: Int]
    BY DEF NoOp, Op, NothingSeen
  <1>2. RequestsOK' /\ HistoryOK'
    BY <1>1 DEF Leave, Advance, TypeInv, TypeOK, RequestsOK, HistoryOK, Pcs
  <1>3. \A s \in Requests : s # r => pc'[s] = pc[s] /\ op'[s] = op[s] /\ pre'[s] = pre[s]
    BY DEF Leave, Advance, TypeInv, TypeOK
  <1>4. pc[r] = from /\ pc'[r] = "idle" /\ pre'[r] = 0
    BY DEF Leave, Advance, TypeInv, TypeOK
  <1> QED  BY <1>2, <1>3, <1>4 DEF TypeInv, Shape

(* What a request has still to record is a number.                         *)
LEMMA PendingType ==
  ASSUME TypeInv
  PROVE  /\ Pending \in [Requests -> Int]
         /\ \A r \in Requests : NewStock(r) \in Int
  <1>1. ASSUME NEW r \in Requests  PROVE NewStock(r) \in Int
    <2>1. pre[r] \in Nat /\ op[r] \in Op  BY DEF TypeInv, TypeOK
    <2>2. op[r].quantity \in Nat  BY <2>1 DEF Op
    <2>3. CASE op[r].type = "out"  BY <2>1, <2>2, <2>3 DEF NewStock
    <2>4. CASE op[r].type = "in"  BY <2>1, <2>2, <2>4 DEF NewStock
    <2>5. CASE op[r].type \notin {"in", "out"}  BY <2>1, <2>2, <2>5 DEF NewStock
    <2> QED  BY <2>3, <2>4, <2>5
  <1>2. \A r \in Requests : pre[r] \in Int  BY DEF TypeInv, TypeOK
  <1>3. \A r \in Requests : NewStock(r) - pre[r] \in Int  BY <1>1, <1>2
  <1> QED  BY <1>1, <1>3 DEF Pending

-----------------------------------------------------------------------------
(* Each operation keeps the types.                                         *)
LEMMA Whole ==
  ASSUME TypeInv, ArticleOK', RequestsOK', HistoryOK', NEW r \in Requests, Shape(r)',
         \A s \in Requests : s # r => Shape(s)'
  PROVE  TypeInv'
  BY TypeParts DEF ArticleOK, RequestsOK, HistoryOK, TypeInv, TypeOK

LEMMA SameArticle ==
  ASSUME TypeInv, UNCHANGED <<articleVars, journal, location>>
  PROVE  ArticleOK'
  BY DEF articleVars, ArticleOK, TypeInv, TypeOK

LEMMA CallType ==
  ASSUME TypeInv, NEW r \in Requests, Call(r)
  PROVE  TypeInv'
  <1> USE DEF TypeInv
  <1>3. UNCHANGED aborts /\ UNCHANGED lost /\ UNCHANGED pre  BY DEF Call, CreateArticleRead,
      MovementRead, TransferRead, CreateLocationRead, DeleteLocationRead
  <1>4. ASSUME NEW q \in Quantities, NEW l \in Locations \cup {NoLocation},
               CreateArticleRead(r, q, l)
        PROVE  TypeInv'
    <2> DEFINE o == [NoOp EXCEPT !.type = "initial", !.quantity = q, !.location = l]
    <2>1. o \in Op /\ o.type = "initial"
      <3>1. q \in Nat  BY StockAssumption DEF Quantities
      <3> QED  BY InitialAsked, <3>1
    <2>2. Enter(r, "insert", o) /\ UNCHANGED seen /\ UNCHANGED <<articleVars, journal, location>>
      BY <1>4 DEF CreateArticleRead
    <2> HIDE DEF o
    <2>3. /\ RequestsOK' /\ HistoryOK'
          /\ \A s \in Requests : s # r => Shape(s)'
          /\ pc[r] = "idle" /\ pc'[r] = "insert" /\ op'[r] = o
      BY <1>3, <2>1, <2>2, EnterType DEF Pcs, TypeOK
    <2>4. Shape(r)'  BY <1>3, <2>1, <2>3 DEF Shape
    <2> QED  BY Whole, SameArticle, <2>2, <2>3, <2>4
  <1>5. ASSUME NEW q \in Quantities, NEW l \in Locations \cup {NoLocation},
               NEW type \in Movements, NEW by \in {"stock", "tagged", "usage"},
               MovementRead(r, type, q, l, by)
        PROVE  TypeInv'
    <2> DEFINE o == [NoOp EXCEPT !.type = type, !.quantity = q, !.location = l, !.by = by]
    <2>1. /\ o \in Op /\ o.type = type /\ o.quantity = q
          /\ o.location = l /\ o.by = by
      <3>1. q \in Nat  BY StockAssumption DEF Quantities
      <3>2. ASSUME NEW b \in Op
            PROVE  LET x == [b EXCEPT !.type = type, !.quantity = q, !.location = l,
                                      !.by = by]
                   IN  /\ x \in Op /\ x.type = type /\ x.quantity = q
                       /\ x.location = l /\ x.by = by
        BY <3>1 DEF Op
      <3> QED  BY <3>2, NoOpType
    <2>2. Enter(r, "apply", o) /\ UNCHANGED seen /\ UNCHANGED <<articleVars, journal, location>>
      BY <1>5 DEF MovementRead
    <2> HIDE DEF o
    <2>3. /\ RequestsOK' /\ HistoryOK'
          /\ \A s \in Requests : s # r => Shape(s)'
          /\ pc[r] = "idle" /\ pc'[r] = "apply" /\ op'[r] = o
      BY <1>3, <2>1, <2>2, EnterType DEF Pcs, TypeOK
    <2>4. Shape(r)'  BY <1>3, <2>1, <2>3 DEF Shape
    <2> QED  BY Whole, SameArticle, <2>2, <2>3, <2>4
  <1>6. ASSUME NEW q \in Quantities, NEW from \in Locations, NEW to \in Locations,
               TransferRead(r, q, from, to)
        PROVE  TypeInv'
    <2> DEFINE o == [NoOp EXCEPT !.type = "transfer", !.quantity = q, !.location = from,
                                 !.destination = to]
    <2>1. /\ o \in Op /\ o.type = "transfer" /\ o.quantity = q
          /\ o.location = from /\ o.destination = to
      <3>1. q \in Nat  BY StockAssumption DEF Quantities
      <3>2. ASSUME NEW b \in Op
            PROVE  LET x == [b EXCEPT !.type = "transfer", !.quantity = q,
                                      !.location = from, !.destination = to]
                   IN  /\ x \in Op /\ x.type = "transfer" /\ x.quantity = q
                       /\ x.location = from /\ x.destination = to
        BY <3>1 DEF Op
      <3> QED  BY <3>2, NoOpType
    <2>2. Enter(r, "take", o) /\ UNCHANGED <<articleVars, journal, location>>
      BY <1>6 DEF TransferRead
    <2>3. seen' \in [Requests -> [found: BOOLEAN, sum: Int]]
      <3>1. InStock \in Int  BY InStockType DEF TypeOK, Entries
      <3>2. [found |-> At(to) # {}, sum |-> InStock] \in [found: BOOLEAN, sum: Int]
        BY <3>1
      <3> QED  BY <1>6, <3>2 DEF TransferRead, TypeOK
    <2> HIDE DEF o
    <2>4. /\ RequestsOK' /\ HistoryOK'
          /\ \A s \in Requests : s # r => Shape(s)'
          /\ pc[r] = "idle" /\ pc'[r] = "take" /\ op'[r] = o
      BY <1>3, <2>1, <2>2, <2>3, EnterType DEF Pcs
    <2>5. Shape(r)'  BY <1>3, <2>1, <2>4 DEF Shape
    <2> QED  BY Whole, SameArticle, <2>2, <2>4, <2>5
  <1>7. ASSUME NEW l \in Locations, CreateLocationRead(r, l)
        PROVE  TypeInv'
    <2> DEFINE o == [NoOp EXCEPT !.location = l]
    <2>1. o \in Op /\ o.location = l  BY PlaceAsked
    <2>2. Enter(r, "create", o) /\ UNCHANGED <<articleVars, journal, location>>
      BY <1>7 DEF CreateLocationRead
    <2>3. seen' \in [Requests -> [found: BOOLEAN, sum: Int]]
      BY <1>7 DEF CreateLocationRead, TypeOK
    <2> HIDE DEF o
    <2>4. /\ RequestsOK' /\ HistoryOK'
          /\ \A s \in Requests : s # r => Shape(s)'
          /\ pc[r] = "idle" /\ pc'[r] = "create" /\ op'[r] = o
      BY <1>3, <2>1, <2>2, <2>3, EnterType DEF Pcs
    <2>5. Shape(r)'  BY <1>3, <2>1, <2>4 DEF Shape
    <2> QED  BY Whole, SameArticle, <2>2, <2>4, <2>5
  <1>8. ASSUME NEW l \in Locations, DeleteLocationRead(r, l)
        PROVE  TypeInv'
    <2> DEFINE o == [NoOp EXCEPT !.location = l]
    <2>1. o \in Op /\ o.location = l  BY PlaceAsked
    <2>2. Enter(r, "pull", o) /\ UNCHANGED seen /\ UNCHANGED <<articleVars, journal, location>>
      BY <1>8 DEF DeleteLocationRead
    <2> HIDE DEF o
    <2>4. /\ RequestsOK' /\ HistoryOK'
          /\ \A s \in Requests : s # r => Shape(s)'
          /\ pc[r] = "idle" /\ pc'[r] = "pull" /\ op'[r] = o
      BY <1>3, <2>1, <2>2, EnterType DEF Pcs, TypeOK
    <2>5. Shape(r)'  BY <1>3, <2>1, <2>4 DEF Shape
    <2> QED  BY Whole, SameArticle, <2>2, <2>4, <2>5
  <1> QED  BY <1>4, <1>5, <1>6, <1>7, <1>8 DEF Call

(* The entries that a movement or a transfer writes are entries.           *)
LEMMA MoveType ==
  ASSUME stocks \in Seq(Entries), NEW l \in Locations, NEW q \in Nat, NEW found \in BOOLEAN,
         TakeOut(l, q) \/ BringIn(l, q, found) \/ SetTo(l, q, found) \/ Give(l, q, found)
  PROVE  stocks' \in Seq(Entries)
  <1>1. At(l) \subseteq Nat /\ Holding(q) \subseteq Nat  BY EntriesType DEF At, Holding
  <1>2. At(l) # {} => First(At(l)) \in DOMAIN stocks  BY <1>1, FirstIn DEF At
  <1>3. Holding(q) # {} => First(Holding(q)) \in DOMAIN stocks
    BY <1>1, FirstIn DEF Holding
  <1>4. \A k \in DOMAIN stocks : Add(k, -q) \/ Add(k, q) => stocks' \in Seq(Entries)
    BY AddType
  <1>5. \A k \in DOMAIN stocks : Put(k, q) => stocks' \in Seq(Entries)  BY PutType
  <1>6. Push(l, q) => stocks' \in Seq(Entries)
    <2>1. q \in Int  OBVIOUS
    <2> QED  BY <2>1, PushType
  <1>7. UNCHANGED stocks => stocks' \in Seq(Entries)  OBVIOUS
  <1>8. CASE TakeOut(l, q)  BY <1>2, <1>3, <1>4, <1>7, <1>8 DEF TakeOut
  <1>9. CASE BringIn(l, q, found)  BY <1>2, <1>4, <1>6, <1>7, <1>9 DEF BringIn
  <1>10. CASE SetTo(l, q, found)  BY <1>2, <1>5, <1>6, <1>7, <1>10 DEF SetTo
  <1>11. CASE Give(l, q, found)  BY <1>2, <1>4, <1>6, <1>7, <1>11 DEF Give, GiveAdd
  <1> QED  BY <1>8, <1>9, <1>10, <1>11

LEMMA ArticleType ==
  ASSUME TypeInv, NEW r \in Requests,
         \/ CreateArticleInsert(r) \/ ApplyMovement(r) \/ MoveEntry(r) \/ RecordMovement(r)
         \/ TransferTake(r) \/ TransferGive(r) \/ CreateLocationInsert(r)
         \/ DeleteLocationPull(r) \/ DeleteLocationRetire(r)
  PROVE  ArticleOK'
  <1> USE DEF TypeInv
  <1>1. /\ op[r] \in Op /\ op[r].quantity \in Nat /\ seen[r].found \in BOOLEAN
        /\ op[r].location \in Locations \cup {NoLocation}
        /\ stocks \in Seq(Entries) /\ pre[r] \in Nat /\ Shape(r)
    BY DEF TypeOK, Op, Entries
  <1>2. ASSUME stocks' \in Seq(Entries), UNCHANGED <<life, total, journal, location>>
        PROVE  ArticleOK'
    BY <1>2 DEF ArticleOK, TypeOK, Entries
  <1>3. CASE CreateArticleInsert(r)
    <2> DEFINE e == [location |-> op[r].location, quantity |-> op[r].quantity]
    <2>1. op[r].location # NoLocation => e \in Entries  BY <1>1 DEF Entries
    <2>2. stocks' \in Seq(Entries)
      <3> HIDE DEF e
      <3>1. << >> \in Seq(Entries)  OBVIOUS
      <3>2. op[r].location # NoLocation => <<e>> \in Seq(Entries)  BY <2>1
      <3>3. stocks' = << >> \/ (op[r].location # NoLocation /\ stocks' = <<e>>)
        BY <1>3 DEF CreateArticleInsert, e
      <3> QED  BY <3>1, <3>2, <3>3
    <2>3. life' \in {"active", "inactive"} /\ total' \in Nat
      BY <1>1, <1>3 DEF CreateArticleInsert
    <2>4. UNCHANGED <<journal, location>>  BY <1>3 DEF CreateArticleInsert
    <2> QED  BY <2>2, <2>3, <2>4 DEF ArticleOK, TypeOK, Entries
  <1>4. CASE ApplyMovement(r)
    <2>1. NewTotal(r) \in Nat
      <3>1. total \in Nat  BY DEF TypeOK
      <3>2. CASE op[r].type = "in"  BY <1>1, <3>1, <3>2 DEF NewTotal
      <3>3. CASE op[r].type = "out"
        <4>1. total >= op[r].quantity  BY <1>4, <3>3 DEF ApplyMovement, Accepted
        <4> QED  BY <1>1, <3>1, <3>3, <4>1 DEF NewTotal
      <3>4. CASE op[r].type \notin {"in", "out"}  BY <1>1, <3>4 DEF NewTotal
      <3> QED  BY <3>2, <3>3, <3>4
    <2>2. total' = NewTotal(r) /\ UNCHANGED <<life, stocks, journal, location>>
      BY <1>4 DEF ApplyMovement
    <2> QED  BY <2>1, <2>2 DEF ArticleOK, TypeOK
  <1>5. CASE MoveEntry(r)
    <2>1. op[r].location \in Locations
      BY <1>1, <1>5 DEF MoveEntry, Advance, Shape
    <2> QED  BY <1>1, <1>2, <1>5, <2>1, MoveType DEF MoveEntry
  <1>6. CASE RecordMovement(r)
    <2>1. NewStock(r) - pre[r] \in Int  BY <1>1, PendingType
    <2>2. /\ journal.net \in Int /\ journal.consumed \in Nat /\ journal.returned \in Nat
          /\ journal.tagged \in Nat
      BY DEF TypeOK
    <2>3. journal.net + NewStock(r) - pre[r] \in Int  BY <1>1, <2>2, PendingType
    <2>4. journal' \in [net: Int, consumed: Nat, returned: Nat, tagged: Nat]
      BY <1>1, <1>6, <2>2, <2>3 DEF RecordMovement
    <2>5. UNCHANGED <<articleVars, location>>  BY <1>6 DEF RecordMovement
    <2> QED  BY <2>4, <2>5 DEF articleVars, ArticleOK, TypeOK
  <1>7. CASE TransferTake(r)
    <2>1. At(op[r].location) # {} => First(At(op[r].location)) \in DOMAIN stocks
      BY <1>1, EntriesType, FirstIn DEF At
    <2>2. stocks' \in Seq(Entries)
      BY <1>1, <1>7, <2>1, AddType DEF TransferTake
    <2> QED  BY <1>2, <1>7, <2>2 DEF TransferTake
  <1>8. CASE TransferGive(r)
    <2>1. op[r].destination \in Locations
      BY <1>1, <1>8 DEF TransferGive, Advance, Shape
    <2>2. stocks' \in Seq(Entries)
      BY <1>1, <1>8, <2>1, MoveType DEF TransferGive
    <2> QED  BY <1>2, <1>8, <2>2 DEF TransferGive
  <1>9. CASE CreateLocationInsert(r)
    <2>1. location' \in [Locations -> {"absent", "default", "other", "deleted"}]
      BY <1>9 DEF CreateLocationInsert, TypeOK
    <2> QED  BY <1>9, <2>1 DEF CreateLocationInsert, articleVars, ArticleOK, TypeOK
  <1>10. CASE DeleteLocationPull(r)
    <2>1. stocks' \in Seq(Entries)
      BY <1>1, <1>10, KeepType DEF DeleteLocationPull
    <2> QED  BY <1>2, <1>10, <2>1 DEF DeleteLocationPull
  <1>11. CASE DeleteLocationRetire(r)
    <2>1. location' \in [Locations -> {"absent", "default", "other", "deleted"}]
      BY <1>11 DEF DeleteLocationRetire, TypeOK
    <2> QED  BY <1>11, <2>1 DEF DeleteLocationRetire, articleVars, ArticleOK, TypeOK
  <1> QED  BY <1>3, <1>4, <1>5, <1>6, <1>7, <1>8, <1>9, <1>10, <1>11

LEMMA ContinueType ==
  ASSUME TypeInv, NEW r \in Requests, Continue(r) \/ Abort(r)
  PROVE  TypeInv'
  <1>1. /\ op[r] \in Op /\ pre[r] \in Nat /\ total \in Nat /\ Shape(r)
        /\ pre \in [Requests -> Nat] /\ lost \in Int /\ aborts \in Nat
        /\ seen \in [Requests -> [found: BOOLEAN, sum: Int]]
    BY DEF TypeInv, TypeOK
  <1>2. \A s \in Requests : Pending[s] \in Int  BY PendingType
  <1>3. ASSUME NEW from \in Pcs, NEW to \in Pcs, Advance(r, from, to), ArticleOK',
               UNCHANGED <<op, calls, aborts, lost, overlapped>>,
               pre' \in [Requests -> Nat], \A s \in Requests : s # r => pre'[s] = pre[s],
               seen' \in [Requests -> [found: BOOLEAN, sum: Int]],
               pc[r] = from /\ pc'[r] = to => Shape(r)'
        PROVE  TypeInv'
    BY <1>3, AdvanceType, Whole
  <1>4. ASSUME NEW from \in Pcs, Leave(r, from), ArticleOK',
               UNCHANGED <<calls, overlapped>>, aborts' \in Nat, lost' \in Int
        PROVE  TypeInv'
    BY <1>4, LeaveType, Whole
  <1>5. CASE CreateArticleInsert(r)
    <2>1. ArticleOK'  BY <1>5, ArticleType
    <2>2. CASE op[r].quantity > 0
      <3>1. Advance(r, "insert", "record") /\ UNCHANGED locals
        BY <1>5, <2>2 DEF CreateArticleInsert
      <3>2. UNCHANGED <<op, pre, seen, calls, aborts, lost, overlapped>>
        BY <1>5, <3>1 DEF CreateArticleInsert, locals
      <3>3. pc[r] = "insert" /\ pc'[r] = "record" => Shape(r)'
        BY <1>1, <3>2 DEF Shape
      <3> QED  BY <1>1, <1>3, <2>1, <3>1, <3>2, <3>3 DEF Pcs
    <2>3. CASE ~(op[r].quantity > 0)
      <3>1. Leave(r, "insert") /\ UNCHANGED <<calls, aborts, lost, overlapped>>
        BY <1>5, <2>3 DEF CreateArticleInsert
      <3> QED  BY <1>1, <1>4, <2>1, <3>1 DEF Pcs
    <2> QED  BY <2>2, <2>3
  <1>6. CASE CreateArticleRefused(r)
    <2>1. ArticleOK'  BY <1>6, SameArticle DEF CreateArticleRefused
    <2> QED  BY <1>1, <1>4, <1>6, <2>1 DEF CreateArticleRefused, Pcs
  <1>7. CASE ApplyMovement(r)
    <2>1. ArticleOK'  BY <1>7, ArticleType
    <2>2. pre' \in [Requests -> Nat] /\ \A s \in Requests : s # r => pre'[s] = pre[s]
      <3>1. pre' = [pre EXCEPT ![r] = BeforeImage(r)]  BY <1>7 DEF ApplyMovement
      <3>2. BeforeImage(r) \in Nat  BY <1>1 DEF BeforeImage
      <3> QED  BY <1>1, <3>1, <3>2
    <2>3. ASSUME pc[r] = "apply"  PROVE Shape(r)'
      BY <1>1, <1>7, <2>3 DEF ApplyMovement, Advance, Shape, Op, TypeInv, TypeOK
    <2>4. UNCHANGED <<op, seen, calls, aborts, lost, overlapped>>
      BY <1>7 DEF ApplyMovement
    <2>5. \E to \in {"record", "locate"} : Advance(r, "apply", to)
      BY <1>7 DEF ApplyMovement
    <2> QED  BY <1>1, <1>3, <2>1, <2>2, <2>3, <2>4, <2>5 DEF Pcs
  <1>8. CASE RefuseMovement(r)
    <2>1. ArticleOK'  BY <1>8, SameArticle DEF RefuseMovement
    <2> QED  BY <1>1, <1>4, <1>8, <2>1 DEF RefuseMovement, Pcs
  <1>9. CASE SkipLocation(r)
    <2>1. ArticleOK'  BY <1>9, SameArticle DEF SkipLocation
    <2>2. Advance(r, "locate", "record") /\ UNCHANGED <<op, pre, seen, calls, aborts, lost, overlapped>>
      BY <1>9 DEF SkipLocation, locals
    <2>3. pc[r] = "locate" /\ pc'[r] = "record" => Shape(r)'  BY <1>1, <2>2 DEF Shape
    <2> QED  BY <1>1, <1>3, <2>1, <2>2, <2>3 DEF Pcs
  <1>10. CASE LocateEntry(r)
    <2>1. ArticleOK'  BY <1>10, SameArticle DEF LocateEntry
    <2>2. Advance(r, "locate", "move") /\ UNCHANGED <<op, pre, calls, aborts, lost, overlapped>>
      BY <1>10 DEF LocateEntry
    <2>3. pc[r] = "locate" /\ pc'[r] = "move" => Shape(r)'  BY <1>1, <2>2 DEF Shape
    <2>4. seen' \in [Requests -> [found: BOOLEAN, sum: Int]]
      BY <1>1, <1>10 DEF LocateEntry
    <2> QED  BY <1>1, <1>3, <2>1, <2>2, <2>3, <2>4 DEF Pcs
  <1>11. CASE RefuseLocation(r)
    <2>1. ArticleOK'  BY <1>11, SameArticle DEF RefuseLocation
    <2>2. lost' \in Int  BY <1>1, <1>2, <1>11 DEF RefuseLocation
    <2> QED  BY <1>1, <1>4, <1>11, <2>1, <2>2 DEF RefuseLocation, Pcs
  <1>12. CASE MoveEntry(r)
    <2>1. ArticleOK'  BY <1>12, ArticleType
    <2>2. Advance(r, "move", "record") /\ UNCHANGED <<op, pre, seen, calls, aborts, lost, overlapped>>
      BY <1>12 DEF MoveEntry, locals
    <2>3. pc[r] = "move" /\ pc'[r] = "record" => Shape(r)'  BY <1>1, <2>2 DEF Shape
    <2> QED  BY <1>1, <1>3, <2>1, <2>2, <2>3 DEF Pcs
  <1>13. CASE RecordMovement(r)
    <2>1. ArticleOK'  BY <1>13, ArticleType
    <2> QED  BY <1>1, <1>4, <1>13, <2>1 DEF RecordMovement, Pcs
  <1>14. CASE TransferTake(r)
    <2>1. ArticleOK'  BY <1>14, ArticleType
    <2>2. Advance(r, "take", "give") /\ UNCHANGED <<op, pre, seen, calls, aborts, lost, overlapped>>
      BY <1>14 DEF TransferTake, locals
    <2>3. pc[r] = "take" /\ pc'[r] = "give" => Shape(r)'  BY <1>1, <2>2 DEF Shape
    <2> QED  BY <1>1, <1>3, <2>1, <2>2, <2>3 DEF Pcs
  <1>15. CASE TransferGive(r)
    <2>1. ArticleOK'  BY <1>15, ArticleType
    <2>2. Advance(r, "give", "note") /\ UNCHANGED <<op, pre, seen, calls, aborts, lost, overlapped>>
      BY <1>15 DEF TransferGive, locals
    <2>3. pc[r] = "give" /\ pc'[r] = "note" => Shape(r)'  BY <1>1, <2>2 DEF Shape
    <2> QED  BY <1>1, <1>3, <2>1, <2>2, <2>3 DEF Pcs
  <1>16. CASE RecordTransfer(r)
    <2>1. ArticleOK'  BY <1>16, SameArticle DEF RecordTransfer
    <2> QED  BY <1>1, <1>4, <1>16, <2>1 DEF RecordTransfer, Pcs
  <1>17. CASE CreateLocationInsert(r)
    <2>1. ArticleOK'  BY <1>17, ArticleType
    <2> QED  BY <1>1, <1>4, <1>17, <2>1 DEF CreateLocationInsert, Pcs
  <1>18. CASE DeleteLocationPull(r)
    <2>1. ArticleOK'  BY <1>18, ArticleType
    <2>2. Advance(r, "pull", "retire") /\ UNCHANGED <<op, pre, seen, calls, aborts, lost, overlapped>>
      BY <1>18 DEF DeleteLocationPull, locals
    <2>3. pc[r] = "pull" /\ pc'[r] = "retire" => Shape(r)'  BY <1>1, <2>2 DEF Shape
    <2> QED  BY <1>1, <1>3, <2>1, <2>2, <2>3 DEF Pcs
  <1>19. CASE DeleteLocationRetire(r)
    <2>1. ArticleOK'  BY <1>19, ArticleType
    <2> QED  BY <1>1, <1>4, <1>19, <2>1 DEF DeleteLocationRetire, Pcs
  <1>20. CASE Abort(r)
    <2>1. ArticleOK'  BY <1>20, SameArticle DEF Abort
    <2>2. lost' \in Int /\ aborts' \in Nat /\ UNCHANGED <<calls, overlapped>>
      BY <1>1, <1>2, <1>20 DEF Abort
    <2>3. pc[r] \in Pcs /\ Leave(r, pc[r])  BY <1>20 DEF Abort, TypeInv, TypeOK, Pcs
    <2> QED  BY <1>4, <2>1, <2>2, <2>3
  <1> QED
    BY <1>5, <1>6, <1>7, <1>8, <1>9, <1>10, <1>11, <1>12, <1>13, <1>14, <1>15, <1>16,
       <1>17, <1>18, <1>19, <1>20 DEF Continue

LEMMA LifeType ==
  ASSUME TypeInv, SetActive \/ DeleteArticle
  PROVE  TypeInv'
  <1>1. life' \in {"absent", "active", "inactive", "deleted"} /\ overlapped' \in BOOLEAN
    BY DEF SetActive, DeleteArticle
  <1>2. UNCHANGED <<total, stocks, journal, location, pc, op, pre, seen, calls, aborts, lost>>
    BY DEF SetActive, DeleteArticle, locals
  <1>3. ArticleOK' /\ RequestsOK' /\ HistoryOK'
    BY <1>1, <1>2 DEF ArticleOK, RequestsOK, HistoryOK, TypeInv, TypeOK
  <1>4. \A r \in Requests : Shape(r)'  BY <1>2 DEF TypeInv, Shape
  <1> QED  BY <1>3, <1>4, TypeParts DEF ArticleOK, RequestsOK, HistoryOK, TypeInv, TypeOK

LEMMA TypeStep == TypeInv /\ [Next]_vars => TypeInv'
  <1> SUFFICES ASSUME TypeInv, [Next]_vars  PROVE TypeInv'
    OBVIOUS
  <1>1. CASE SetActive \/ DeleteArticle  BY <1>1, LifeType
  <1>2. ASSUME NEW r \in Requests, Call(r)  PROVE TypeInv'
    BY <1>2, CallType
  <1>3. ASSUME NEW r \in Requests, Continue(r) \/ Abort(r)  PROVE TypeInv'
    BY <1>3, ContinueType
  <1>4. CASE UNCHANGED vars
    BY <1>4 DEF vars, articleVars, locals, TypeInv, TypeOK, Shape, Op
  <1> QED  BY <1>1, <1>2, <1>3, <1>4 DEF Next

LEMMA TypeInit == Init => TypeInv
  <1> SUFFICES ASSUME Init  PROVE TypeInv
    OBVIOUS
  <1>1. ArticleOK  BY DEF Init, ArticleOK
  <1>2. NothingSeen \in [found: BOOLEAN, sum: Int]  BY DEF NothingSeen
  <1>3. RequestsOK  BY <1>2, NoOpType DEF Init, RequestsOK
  <1>4. HistoryOK
    <2>1. overlapped \in BOOLEAN  BY DEF Init
    <2>2. calls \in Nat /\ aborts \in Nat /\ lost \in Int  BY DEF Init
    <2> QED  BY <2>1, <2>2 DEF HistoryOK
  <1>5. \A r \in Requests : Shape(r)  BY DEF Init, Shape
  <1> QED  BY <1>1, <1>3, <1>4, <1>5, TypeParts DEF TypeInv

(* The fields of an article, of its locations and of the requests stay of  *)
(* their types: the total in particular is never negative, because the     *)
(* update that takes from it requires what it takes.                       *)
THEOREM TypeCorrect == Spec => []TypeOK
  <1>1. TypeInv => TypeOK  BY DEF TypeInv
  <1> QED  BY <1>1, TypeInit, TypeStep, PTL DEF Spec

-----------------------------------------------------------------------------
(***************************************************************************)
(* The inductive invariant.                                                *)
(***************************************************************************)

(* An article that is not there yet has no stock.                          *)
Accounts ==
  /\ TotalAccounted
  /\ life = "absent" => total = 0

(* The default location is never deleted: whoever is deleting a location   *)
(* has read one that is not the default, and no other becomes it.          *)
DefaultStays ==
  /\ (\E l \in Locations : Live(l)) => Defaults # {}
  /\ \A r \in Requests :
       /\ pc[r] = "create" /\ seen[r].found => Defaults # {}
       /\ pc[r] \in {"pull", "retire"} => location[op[r].location] \in {"other", "deleted"}

(* While requests do not overlap at most one is in flight, and what it has *)
(* read still holds when it writes.                                        *)
Alone == \A r, s \in Requests : pc[r] # "idle" /\ pc[s] # "idle" => r = s

EntriesSane ==
  Present =>
    /\ \A j, k \in DOMAIN stocks : stocks[j].location = stocks[k].location => j = k
    /\ \A k \in DOMAIN stocks : stocks[k].quantity >= 0 /\ Live(stocks[k].location)

Knows(r) ==
  LET l == op[r].location
      d == op[r].destination
      q == op[r].quantity
  IN  /\ pc[r] \in {"insert", "apply", "locate", "move"} => l = NoLocation \/ Live(l)
      /\ pc[r] = "move" /\ Present =>
           /\ seen[r].found <=> At(l) # {}
           /\ op[r].type = "out" => Available(l) >= q
      /\ pc[r] = "take" => At(l) # {} /\ Available(l) >= q /\ InStock = seen[r].sum
      /\ pc[r] \in {"take", "give"} =>
           life = "active" /\ Live(d) /\ (seen[r].found <=> At(d) # {})
      /\ pc[r] = "give" => InStock = seen[r].sum - q
      /\ pc[r] = "note" => InStock = seen[r].sum
      /\ pc[r] = "retire" /\ Present => At(l) = {}
      /\ /\ pc[r] \in {"apply", "locate", "move", "record"}
         /\ op[r].by = "usage" /\ op[r].type = "in"
         => journal.returned + q <= journal.consumed

SoloInv ==
  ~overlapped => /\ Alone
                 /\ EntriesSane
                 /\ \A r \in Requests : Knows(r)
                 /\ journal.returned - journal.tagged <= journal.consumed

IInv == TypeInv /\ Accounts /\ DefaultStays /\ SoloInv

-----------------------------------------------------------------------------
(* The total.                                                              *)

Mine(r) ==
  /\ \E p : pc' = [pc EXCEPT ![r] = p]
  /\ \E o : op' = op \/ op' = [op EXCEPT ![r] = o]
  /\ \E n : pre' = pre \/ pre' = [pre EXCEPT ![r] = n]
  /\ \E x : seen' = seen \/ seen' = [seen EXCEPT ![r] = x]

(* A request changes nothing of another one.                               *)
LEMMA OthersStay ==
  ASSUME TypeInv, NEW r \in Requests, Call(r) \/ Continue(r) \/ Abort(r)
  PROVE  \A s \in Requests : s # r => /\ pc'[s] = pc[s] /\ op'[s] = op[s]
                                      /\ pre'[s] = pre[s] /\ seen'[s] = seen[s]
  <1>1. Mine(r)
    <2> USE DEF Mine
    <2>1. CASE Call(r)
      <3>1. \E p, o : Enter(r, p, o) /\ UNCHANGED pre
        BY <2>1 DEF Call, CreateArticleRead, MovementRead, TransferRead,
           CreateLocationRead, DeleteLocationRead
      <3>2. \E x : seen' = seen \/ seen' = [seen EXCEPT ![r] = x]
        BY <2>1 DEF Call, CreateArticleRead, MovementRead, TransferRead,
           CreateLocationRead, DeleteLocationRead
      <3> QED  BY <3>1, <3>2 DEF Enter
    <2>2. ASSUME NEW from, Leave(r, from)  PROVE Mine(r)
      BY <2>2 DEF Leave, Advance
    <2>3. ASSUME NEW from, NEW to, Advance(r, from, to), UNCHANGED <<op, pre, seen>>
          PROVE  Mine(r)
      BY <2>3 DEF Advance
    <2>4. CASE ApplyMovement(r)
      BY <2>4 DEF ApplyMovement, Advance
    <2>5. CASE LocateEntry(r)
      BY <2>5 DEF LocateEntry, Advance
    <2>6. CASE CreateArticleInsert(r)
      BY <2>2, <2>3, <2>6 DEF CreateArticleInsert, locals
    <2>7. CASE SkipLocation(r) \/ MoveEntry(r) \/ TransferTake(r) \/ TransferGive(r)
               \/ DeleteLocationPull(r)
      <3>1. UNCHANGED <<op, pre, seen>>
        BY <2>7 DEF SkipLocation, MoveEntry, TransferTake, TransferGive,
           DeleteLocationPull, locals
      <3>2. \E from, to : Advance(r, from, to)
        BY <2>7 DEF SkipLocation, MoveEntry, TransferTake, TransferGive,
           DeleteLocationPull
      <3> QED  BY <2>3, <3>1, <3>2
    <2>8. CASE CreateArticleRefused(r) \/ RefuseMovement(r) \/ RefuseLocation(r)
               \/ RecordMovement(r) \/ RecordTransfer(r) \/ CreateLocationInsert(r)
               \/ DeleteLocationRetire(r) \/ Abort(r)
      <3>1. \E from : Leave(r, from)
        BY <2>8 DEF CreateArticleRefused, RefuseMovement, RefuseLocation, RecordMovement,
           RecordTransfer, CreateLocationInsert, DeleteLocationRetire, Abort
      <3> QED  BY <2>2, <3>1
    <2> QED
      BY <2>1, <2>4, <2>5, <2>6, <2>7, <2>8 DEF Continue
  <1>2. pc \in [Requests -> Pcs] /\ op \in [Requests -> Op]
        /\ pre \in [Requests -> Nat] /\ seen \in [Requests -> [found: BOOLEAN, sum: Int]]
    BY DEF TypeInv, TypeOK, Pcs
  <1> QED  BY <1>1, <1>2 DEF Mine

LEMMA PendingNumbers == TypeInv => Pending \in [Requests -> Int]
  BY PendingType

(* What one request does to the total shows in what it has pending, in the *)
(* journal or in what is lost.                                             *)
LEMMA Balanced ==
  ASSUME TypeInv, TypeInv', TotalAccounted, NEW r \in Requests,
         \A s \in Requests : s # r => Pending'[s] = Pending[s],
         total' - total = (journal'.net - journal.net) + (Pending'[r] - Pending[r])
                          + (lost' - lost)
  PROVE  TotalAccounted'
  <1>1. /\ Pending \in [Requests -> Int] /\ Pending' \in [Requests -> Int]
    <2>1. (Pending \in [Requests -> Int])'  BY PendingNumbers, PTL
    <2> QED  BY <2>1, PendingNumbers
  <1>2. /\ SumFunction(Pending) = SumFunctionOnSet(Pending, Requests)
        /\ SumFunction(Pending)' = SumFunctionOnSet(Pending', Requests)
    BY DEF SumFunction, Pending
  <1>3. /\ SumFunctionOnSet(Pending', Requests)
             = SumFunctionOnSet(Pending, Requests) + Pending'[r] - Pending[r]
        /\ SumFunctionOnSet(Pending, Requests) \in Int
    <2>1. \A s \in Requests : Pending[s] \in Int /\ Pending'[s] \in Int  BY <1>1
    <2>2. IsFiniteSet(Requests)  BY StockAssumption
    <2> QED  BY <2>1, <2>2, SumChanged, SumType
  <1>4. /\ total \in Int /\ total' \in Int /\ lost \in Int /\ lost' \in Int
        /\ journal.net \in Int /\ journal'.net \in Int
    BY DEF TypeInv, TypeOK
  <1>5. Pending[r] \in Int /\ Pending'[r] \in Int  BY <1>1
  <1>6. total = journal.net + SumFunctionOnSet(Pending, Requests) + lost
    BY <1>2 DEF TotalAccounted
  <1>7. ASSUME NEW t \in Int, NEW u \in Int, NEW j \in Int, NEW k \in Int, NEW l \in Int,
               NEW m \in Int, NEW p \in Int, NEW q \in Int, NEW s \in Int,
               t = j + s + l, u - t = (k - j) + (q - p) + (m - l)
        PROVE  u = k + (s + q - p) + m
    BY <1>7
  <1>8. total' = journal'.net + SumFunctionOnSet(Pending', Requests) + lost'
    BY <1>3, <1>4, <1>5, <1>6, <1>7
  <1> QED  BY <1>2, <1>8 DEF TotalAccounted

(* What a request has pending, where it is something and where not.        *)
Owes(r) == pc[r] \in {"locate", "move", "record"}

LEMMA PendingAt ==
  ASSUME NEW r \in Requests
  PROVE  Pending[r] = IF Owes(r) THEN NewStock(r) - pre[r] ELSE 0
  BY DEF Pending, Owes

LEMMA AccountsStep ==
  ASSUME TypeInv, TypeInv', Accounts, NEW r \in Requests,
         Call(r) \/ Continue(r) \/ Abort(r)
  PROVE  Accounts'
  <1>1. \A s \in Requests : s # r => Pending'[s] = Pending[s]
    BY OthersStay DEF Pending, NewStock
  <1>2. /\ total \in Nat /\ lost \in Int /\ journal.net \in Int /\ Pending[r] \in Int
        /\ NewStock(r) \in Int /\ pre[r] \in Nat /\ Shape(r) /\ op[r] \in Op
        /\ op[r].quantity \in Nat /\ pc \in [Requests -> Pcs] /\ Pending'[r] \in Int
    <2>1. Pending[r] \in Int /\ NewStock(r) \in Int  BY PendingType
    <2>2. (Pending \in [Requests -> Int])'  BY PendingNumbers, PTL
    <2> QED  BY <2>1, <2>2 DEF TypeInv, TypeOK, Op, Pcs
  <1>3. Pending[r] = IF Owes(r) THEN NewStock(r) - pre[r] ELSE 0
    BY PendingAt
  <1>4. Pending'[r] = IF Owes(r)' THEN NewStock(r)' - pre'[r] ELSE 0
    BY DEF Pending, Owes
  <1> DEFINE Balance == total' - total = (journal'.net - journal.net)
                                         + (Pending'[r] - Pending[r]) + (lost' - lost)
             Present0 == life' = "absent" => life = "absent" /\ total' = total
  <1>5. Balance /\ Present0
    <2>1. ASSUME NEW from, Leave(r, from)
          PROVE  from = pc[r] /\ Pending'[r] = 0
      BY <1>2, <1>4, <2>1 DEF Leave, Advance, Owes
    <2>2. ASSUME NEW from, NEW to, Advance(r, from, to)
          PROVE  from = pc[r] /\ to = pc'[r]
      BY <1>2, <2>2 DEF Advance
    <2>3. ASSUME UNCHANGED <<op, pre>>, Owes(r)' <=> Owes(r)
          PROVE  Pending'[r] = Pending[r]
      BY <1>3, <1>4, <2>3 DEF NewStock
    <2>4. ASSUME UNCHANGED <<life, total, journal, lost>>, Pending'[r] = Pending[r]
          PROVE  Balance /\ Present0
      BY <1>2, <2>4
    <2>5. CASE Call(r)
      <3>1. UNCHANGED <<life, total, journal, lost>>
        BY <2>5 DEF Call, CreateArticleRead, MovementRead, TransferRead,
           CreateLocationRead, DeleteLocationRead, articleVars
      <3>2. \E p \in {"insert", "apply", "take", "create", "pull"} : \E o : Enter(r, p, o)
        BY <2>5 DEF Call, CreateArticleRead, MovementRead, TransferRead,
           CreateLocationRead, DeleteLocationRead
      <3>3. ~Owes(r) /\ ~Owes(r)'
        BY <1>2, <3>2 DEF Enter, Owes
      <3> QED  BY <1>3, <1>4, <2>4, <3>1, <3>3
    <2>6. CASE CreateArticleInsert(r)
      <3>1. /\ total = 0 /\ total' = op[r].quantity /\ pc[r] = "insert"
            /\ UNCHANGED <<journal, lost>> /\ life' # "absent"
        BY <2>1, <2>2, <2>6 DEF CreateArticleInsert, Accounts
      <3>2. ~Owes(r) /\ pre[r] = 0 /\ op[r].type = "initial"
        BY <1>2, <3>1 DEF Owes, Shape
      <3>3. Pending'[r] = op[r].quantity
        <4>1. CASE op[r].quantity > 0
          <5>1. UNCHANGED <<op, pre>> /\ pc'[r] = "record"
            BY <2>2, <2>6, <4>1 DEF CreateArticleInsert, locals
          <5>2. NewStock(r)' = op[r].quantity  BY <3>2, <5>1 DEF NewStock
          <5> QED  BY <1>2, <1>4, <3>2, <5>1, <5>2 DEF Owes
        <4>2. CASE ~(op[r].quantity > 0)
          <5>1. Leave(r, "insert")  BY <2>6, <4>2 DEF CreateArticleInsert
          <5> QED  BY <1>2, <2>1, <4>2, <5>1
        <4> QED  BY <4>1, <4>2
      <3> QED  BY <1>2, <1>3, <3>1, <3>2, <3>3
    <2>7. CASE CreateArticleRefused(r) \/ RefuseMovement(r) \/ RecordTransfer(r)
               \/ CreateLocationInsert(r) \/ DeleteLocationRetire(r)
      <3>1. UNCHANGED <<life, total, journal, lost>>
        BY <2>7 DEF CreateArticleRefused, RefuseMovement, RecordTransfer,
           CreateLocationInsert, DeleteLocationRetire, articleVars
      <3>2. \E from \in {"insert", "apply", "note", "create", "retire"} : Leave(r, from)
        BY <2>7 DEF CreateArticleRefused, RefuseMovement, RecordTransfer,
           CreateLocationInsert, DeleteLocationRetire
      <3>3. ~Owes(r) /\ Pending'[r] = 0  BY <2>1, <3>2 DEF Owes
      <3> QED  BY <1>3, <2>4, <3>1, <3>3
    <2>8. CASE ApplyMovement(r)
      <3>1. /\ pc[r] = "apply" /\ pc'[r] \in {"record", "locate"} /\ total' = NewTotal(r)
            /\ pre'[r] = total /\ UNCHANGED <<life, journal, lost, op>> /\ life = "active"
        BY <2>2, <2>8 DEF ApplyMovement, Accepted, BeforeImage, TypeInv, TypeOK
      <3>2. NewStock(r)' = NewTotal(r)
        BY <3>1 DEF NewStock, NewTotal
      <3>3. NewTotal(r) \in Int  BY <3>1 DEF TypeInv, TypeOK
      <3>4. Pending[r] = 0 /\ Pending'[r] = NewTotal(r) - total
        BY <1>3, <1>4, <3>1, <3>2 DEF Owes
      <3> QED  BY <1>2, <3>1, <3>3, <3>4
    <2>9. CASE SkipLocation(r) \/ LocateEntry(r) \/ MoveEntry(r)
      <3>1. UNCHANGED <<life, total, journal, lost, op, pre>>
        BY <2>9 DEF SkipLocation, LocateEntry, MoveEntry, articleVars, locals
      <3>2. \E from \in {"locate", "move"}, to \in {"move", "record"} : Advance(r, from, to)
        BY <2>9 DEF SkipLocation, LocateEntry, MoveEntry
      <3>3. Owes(r) /\ Owes(r)'  BY <2>2, <3>2 DEF Owes
      <3> QED  BY <2>3, <2>4, <3>1, <3>3
    <2>10. CASE RefuseLocation(r) \/ Abort(r)
      <3>1. /\ UNCHANGED <<life, total, journal>> /\ lost' = lost + Pending[r]
            /\ \E from : Leave(r, from)
        BY <2>10 DEF RefuseLocation, Abort, articleVars
      <3>2. Pending'[r] = 0  BY <2>1, <3>1
      <3> QED  BY <1>2, <3>1, <3>2
    <2>11. CASE RecordMovement(r)
      <3>1. /\ UNCHANGED <<life, total, lost>> /\ Leave(r, "record")
            /\ journal'.net = journal.net + NewStock(r) - pre[r]
        BY <2>11 DEF RecordMovement, articleVars
      <3>2. Owes(r) /\ Pending'[r] = 0  BY <2>1, <3>1 DEF Owes
      <3> QED  BY <1>2, <1>3, <3>1, <3>2
    <2>12. CASE TransferTake(r) \/ TransferGive(r) \/ DeleteLocationPull(r)
      <3>1. UNCHANGED <<life, total, journal, lost, op, pre>>
        BY <2>12 DEF TransferTake, TransferGive, DeleteLocationPull, locals
      <3>2. \E from \in {"take", "give", "pull"}, to \in {"give", "note", "retire"} :
              Advance(r, from, to)
        BY <2>12 DEF TransferTake, TransferGive, DeleteLocationPull
      <3>3. ~Owes(r) /\ ~Owes(r)'  BY <2>2, <3>2 DEF Owes
      <3> QED  BY <2>3, <2>4, <3>1, <3>3
    <2> HIDE DEF Balance, Present0
    <2> QED
      BY <2>5, <2>6, <2>7, <2>8, <2>9, <2>10, <2>11, <2>12 DEF Continue
  <1>6. TotalAccounted'  BY <1>1, <1>5, Balanced DEF Accounts
  <1> QED  BY <1>5, <1>6 DEF Accounts

-----------------------------------------------------------------------------
(* The locations.                                                          *)

(* A location comes to exist, or is deleted when it is not the default.    *)
LEMMA LocationMoves ==
  ASSUME TypeInv, DefaultStays, NEW r \in Requests, Call(r) \/ Continue(r) \/ Abort(r)
  PROVE  \/ UNCHANGED location
         \/ /\ pc[r] = "create" /\ op[r].location \in Locations
            /\ location[op[r].location] = "absent"
            /\ location' = [location EXCEPT ![op[r].location] =
                              IF seen[r].found THEN "other" ELSE "default"]
         \/ /\ pc[r] = "retire" /\ op[r].location \in Locations
            /\ location[op[r].location] \in {"other", "deleted"}
            /\ location' = [location EXCEPT ![op[r].location] = "deleted"]
  <1>1. pc[r] \in {"create", "retire"} => op[r].location \in Locations
    BY DEF TypeInv, Shape
  <1>2. CASE CreateLocationInsert(r)
    BY <1>1, <1>2 DEF CreateLocationInsert, Leave, Advance
  <1>3. CASE DeleteLocationRetire(r)
    BY <1>1, <1>3 DEF DeleteLocationRetire, Leave, Advance, DefaultStays
  <1>4. CASE Call(r)
    BY <1>4 DEF Call, CreateArticleRead, MovementRead, TransferRead, CreateLocationRead,
       DeleteLocationRead
  <1>5. CASE ~CreateLocationInsert(r) /\ ~DeleteLocationRetire(r) /\ ~Call(r)
    BY <1>5 DEF Continue, Abort, CreateArticleInsert, CreateArticleRefused, ApplyMovement,
       RefuseMovement, SkipLocation, LocateEntry, RefuseLocation, MoveEntry, RecordMovement,
       TransferTake, TransferGive, RecordTransfer, DeleteLocationPull
  <1> QED  BY <1>2, <1>3, <1>4, <1>5

(* What a request that is creating or deleting a location holds true.      *)
Places(r) ==
  /\ pc[r] = "create" /\ seen[r].found => Defaults # {}
  /\ pc[r] \in {"pull", "retire"} => location[op[r].location] \in {"other", "deleted"}

LEMMA DefaultStep ==
  ASSUME TypeInv, DefaultStays, NEW r \in Requests, Call(r) \/ Continue(r) \/ Abort(r)
  PROVE  DefaultStays'
  <1>1. /\ location \in [Locations -> {"absent", "default", "other", "deleted"}]
        /\ pc \in [Requests -> Pcs] /\ op \in [Requests -> Op]
        /\ seen \in [Requests -> [found: BOOLEAN, sum: Int]]
        /\ \A s \in Requests : Places(s) /\ Shape(s)
    BY DEF TypeInv, TypeOK, Pcs, DefaultStays, Places
  <1>2. /\ Defaults # {} => Defaults' # {}
        /\ (\E l \in Locations : Live(l)') => Defaults' # {}
        /\ \A l \in Locations : location[l] \in {"other", "deleted"}
             => location'[l] \in {"other", "deleted"}
    <2>1. CASE UNCHANGED location
      BY <2>1 DEF DefaultStays, Defaults, Live
    <2>2. CASE pc[r] = "create" /\ seen[r].found /\ ~UNCHANGED location
      <3>1. PICK d \in Locations : location[d] = "default"
        BY <1>1, <2>2 DEF Places, Defaults
      <3>2. location'[d] = "default"
        BY <1>1, <2>2, <3>1, LocationMoves
      <3> QED  BY <1>1, <2>2, <3>2, LocationMoves DEF Defaults
    <2>3. CASE pc[r] = "create" /\ ~seen[r].found /\ ~UNCHANGED location
      <3>1. op[r].location \in Locations /\ location'[op[r].location] = "default"
        BY <1>1, <2>3, LocationMoves
      <3> QED  BY <1>1, <2>3, <3>1, LocationMoves DEF Defaults
    <2>4. CASE pc[r] = "retire" /\ ~UNCHANGED location
      <3>1. \A l \in Locations : location[l] = "default" <=> location'[l] = "default"
        BY <1>1, <2>4, LocationMoves
      <3>2. \A l \in Locations : Live(l)' => Live(l)
        BY <1>1, <2>4, LocationMoves DEF Live
      <3>3. Defaults' = Defaults  BY <3>1 DEF Defaults
      <3>4. \A l \in Locations : location[l] \in {"other", "deleted"}
              => location'[l] \in {"other", "deleted"}
        BY <1>1, <2>4, LocationMoves
      <3> QED  BY <3>2, <3>3, <3>4 DEF DefaultStays
    <2> QED  BY <2>1, <2>2, <2>3, <2>4, LocationMoves
  <1>3. ASSUME NEW s \in Requests, pc'[s] \in {"create", "pull", "retire"} => pc'[s] = pc[s],
               op'[s] = op[s], seen'[s] = seen[s]
        PROVE  Places(s)'
    BY <1>1, <1>2, <1>3 DEF Places, Shape
  <1>4. Places(r)'
    <2>1. ASSUME NEW from, Leave(r, from)  PROVE Places(r)'
      <3>1. pc' = [pc EXCEPT ![r] = "idle"]  BY <2>1 DEF Leave, Advance
      <3>2. pc'[r] = "idle"  BY <1>1, <3>1
      <3> QED  BY <3>2 DEF Places
    <2>2. CASE CreateLocationRead(r, op'[r].location)
      <3>1. /\ pc' = [pc EXCEPT ![r] = "create"] /\ UNCHANGED location
            /\ seen' = [seen EXCEPT ![r].found = (Defaults # {})]
        BY <2>2 DEF CreateLocationRead, Enter
      <3>2. pc'[r] = "create" /\ (seen'[r].found <=> Defaults # {})  BY <1>1, <3>1
      <3>3. Defaults' = Defaults  BY <3>1 DEF Defaults
      <3> QED  BY <3>2, <3>3 DEF Places
    <2>3. CASE DeleteLocationRead(r, op'[r].location)
      BY <1>1, <1>2, <2>3 DEF DeleteLocationRead, Removable, Enter, Places
    <2>4. ASSUME NEW p \in {"insert", "apply", "take", "locate", "move", "record", "give",
                            "note"}, pc' = [pc EXCEPT ![r] = p]
          PROVE  Places(r)'
      BY <1>1, <2>4 DEF Places
    <2>5. CASE Call(r)
      <3>1. ASSUME NEW l \in Locations, CreateLocationRead(r, l) \/ DeleteLocationRead(r, l)
            PROVE  op'[r].location = l
        BY <1>1, <3>1, PlaceAsked DEF CreateLocationRead, DeleteLocationRead, Enter
      <3>2. ASSUME NEW p \in {"insert", "apply", "take"}, NEW o, Enter(r, p, o)
            PROVE  Places(r)'
        BY <2>4, <3>2 DEF Enter
      <3> QED
        BY <2>2, <2>3, <2>5, <3>1, <3>2 DEF Call, CreateArticleRead, MovementRead, TransferRead
    <2>6. CASE DeleteLocationPull(r)
      BY <1>1, <1>2, <2>6 DEF DeleteLocationPull, Advance, locals, Places, Shape
    <2>7. CASE CreateArticleInsert(r) \/ ApplyMovement(r) \/ SkipLocation(r) \/ LocateEntry(r)
               \/ MoveEntry(r) \/ TransferTake(r) \/ TransferGive(r)
      BY <2>1, <2>4, <2>7 DEF CreateArticleInsert, ApplyMovement, SkipLocation, LocateEntry,
         MoveEntry, TransferTake, TransferGive, Advance
    <2>8. CASE CreateArticleRefused(r) \/ RefuseMovement(r) \/ RefuseLocation(r)
               \/ RecordMovement(r) \/ RecordTransfer(r) \/ CreateLocationInsert(r)
               \/ DeleteLocationRetire(r) \/ Abort(r)
      BY <2>1, <2>8 DEF CreateArticleRefused, RefuseMovement, RefuseLocation, RecordMovement,
         RecordTransfer, CreateLocationInsert, DeleteLocationRetire, Abort
    <2> QED  BY <2>5, <2>6, <2>7, <2>8 DEF Continue
  <1>5. \A s \in Requests : s # r => Places(s)'  BY <1>3, OthersStay
  <1>6. \A s \in Requests : Places(s)'  BY <1>4, <1>5
  <1> QED  BY <1>2, <1>6 DEF DefaultStays, Places

-----------------------------------------------------------------------------
(* The entries, when the one request in flight writes them.                *)

LEMMA AtFirst ==
  ASSUME stocks \in Seq(Entries), NEW l, At(l) # {}
  PROVE  /\ First(At(l)) \in DOMAIN stocks
         /\ stocks[First(At(l))].location = l
         /\ Available(l) = stocks[First(At(l))].quantity
  <1>1. At(l) \in SUBSET Nat  BY EntriesType DEF At
  <1>2. First(At(l)) \in At(l)  BY <1>1, FirstIn
  <1> QED  BY <1>2 DEF At, Available

(* An entry changed, one added, some removed.                              *)
LEMMA AddSane ==
  ASSUME stocks \in Seq(Entries), EntriesSane, Present, UNCHANGED location,
         NEW k \in DOMAIN stocks, NEW n \in Int, Add(k, n), stocks[k].quantity + n >= 0
  PROVE  /\ EntriesSane'
         /\ \A l : At(l)' = At(l)
         /\ InStock' = InStock + n
  <1>1. /\ stocks' \in Seq(Entries) /\ DOMAIN stocks' = DOMAIN stocks
        /\ \A j \in DOMAIN stocks :
             /\ stocks'[j].location = stocks[j].location
             /\ stocks'[j].quantity = stocks[j].quantity + (IF j = k THEN n ELSE 0)
    BY AddType
  <1>2. /\ IsFiniteSet(DOMAIN stocks) /\ \A j \in DOMAIN stocks : stocks[j].quantity \in Int
    BY EntriesType
  <1>3. EntriesSane'
    <2>1. \A j \in DOMAIN stocks : stocks'[j].quantity >= 0
      BY <1>1, <1>2 DEF EntriesSane
    <2> QED  BY <1>1, <2>1 DEF EntriesSane, Live
  <1>4. \A l : At(l)' = At(l)  BY <1>1 DEF At
  <1>5. InStock' = InStock + n
    <2> DEFINE f == [j \in DOMAIN stocks |-> stocks[j].quantity]
               g == [j \in DOMAIN stocks |-> stocks'[j].quantity]
    <2>1. InStock = SumFunctionOnSet(f, DOMAIN stocks)  BY DEF InStock, SumFunction
    <2>2. InStock' = SumFunctionOnSet(g, DOMAIN stocks)
      BY <1>1 DEF InStock, SumFunction
    <2>3. /\ \A j \in DOMAIN stocks : f[j] \in Int /\ g[j] \in Int
          /\ \A j \in DOMAIN stocks \ {k} : g[j] = f[j]
          /\ g[k] = f[k] + n
      BY <1>1, <1>2
    <2> HIDE DEF f, g
    <2>4. /\ SumFunctionOnSet(g, DOMAIN stocks)
               = SumFunctionOnSet(f, DOMAIN stocks) + g[k] - f[k]
          /\ SumFunctionOnSet(f, DOMAIN stocks) \in Int
      BY <1>2, <2>3, SumChanged, SumType
    <2> QED  BY <2>1, <2>2, <2>3, <2>4
  <1> QED  BY <1>3, <1>4, <1>5

LEMMA PutSane ==
  ASSUME stocks \in Seq(Entries), EntriesSane, UNCHANGED location,
         NEW k \in DOMAIN stocks, NEW n \in Nat, Put(k, n), Present
  PROVE  EntriesSane'
  <1>1. n \in Int  OBVIOUS
  <1>2. /\ DOMAIN stocks' = DOMAIN stocks
        /\ \A j \in DOMAIN stocks :
             /\ stocks'[j].location = stocks[j].location
             /\ stocks'[j].quantity = IF j = k THEN n ELSE stocks[j].quantity
    BY <1>1, PutType
  <1>3. \A j \in DOMAIN stocks : stocks'[j].quantity >= 0
    BY <1>2 DEF EntriesSane
  <1> QED  BY <1>2, <1>3 DEF EntriesSane, Live

LEMMA PushSane ==
  ASSUME stocks \in Seq(Entries), EntriesSane, Present, UNCHANGED location,
         NEW l \in Locations, NEW n \in Nat, Push(l, n), At(l) = {}, Live(l)
  PROVE  EntriesSane' /\ InStock' = InStock + n
  <1> DEFINE e == Len(stocks) + 1
  <1>1. n \in Int  OBVIOUS
  <1>2. /\ DOMAIN stocks' = DOMAIN stocks \cup {e} /\ e \notin DOMAIN stocks
        /\ \A j \in DOMAIN stocks : stocks'[j] = stocks[j]
        /\ stocks'[e] = [location |-> l, quantity |-> n]
    BY <1>1, PushType
  <1>3. /\ IsFiniteSet(DOMAIN stocks) /\ \A j \in DOMAIN stocks : stocks[j].quantity \in Int
    BY EntriesType
  <1> HIDE DEF e
  <1>4. stocks'[e].location = l /\ stocks'[e].quantity = n  BY <1>2
  <1>5. EntriesSane'
    <2>1. \A j \in DOMAIN stocks : stocks[j].location # l  BY DEF At
    <2>2. \A j, k \in DOMAIN stocks' : stocks'[j].location = stocks'[k].location => j = k
      BY <1>2, <1>4, <2>1 DEF EntriesSane
    <2>3. (\A k \in DOMAIN stocks : stocks[k].quantity >= 0 /\ Live(stocks[k].location))'
      BY <1>2, <1>4 DEF EntriesSane, Live
    <2> QED  BY <2>2, <2>3 DEF EntriesSane
  <1>6. InStock' = InStock + n
    <2> DEFINE f == [j \in DOMAIN stocks |-> stocks[j].quantity]
               g == [j \in DOMAIN stocks' |-> stocks'[j].quantity]
    <2>1. InStock = SumFunctionOnSet(f, DOMAIN stocks)  BY DEF InStock, SumFunction
    <2>2. InStock' = SumFunctionOnSet(g, DOMAIN stocks')  BY DEF InStock, SumFunction
    <2>3. /\ \A j \in DOMAIN stocks : f[j] \in Int /\ g[j] = f[j]
          /\ g[e] = n
      BY <1>2, <1>3, <1>4
    <2>4. \A j \in DOMAIN stocks' : g[j] \in Int  BY <1>1, <1>2, <2>3
    <2>5. IsFiniteSet(DOMAIN stocks')  BY <1>2, <1>3, FS_AddElement
    <2>6. e \in DOMAIN stocks' /\ DOMAIN stocks' \ {e} = DOMAIN stocks  BY <1>2
    <2> HIDE DEF f, g
    <2>7. SumFunctionOnSet(g, DOMAIN stocks')
            = g[e] + SumFunctionOnSet(g, DOMAIN stocks)
      BY <2>4, <2>5, <2>6, SumWithout
    <2>8. SumFunctionOnSet(g, DOMAIN stocks) = SumFunctionOnSet(f, DOMAIN stocks)
      BY <1>3, <2>3, SumSame
    <2>9. SumFunctionOnSet(f, DOMAIN stocks) \in Int  BY <1>3, <2>3, SumType
    <2> QED  BY <2>1, <2>2, <2>3, <2>7, <2>8, <2>9
  <1> QED  BY <1>5, <1>6

LEMMA KeepSane ==
  ASSUME stocks \in Seq(Entries), EntriesSane, Present, UNCHANGED location,
         NEW l, Keep(DOMAIN stocks \ At(l))
  PROVE  EntriesSane' /\ At(l)' = {}
  <1>1. PICK f \in [DOMAIN stocks' -> DOMAIN stocks \ At(l)] :
          /\ \A i, j \in DOMAIN stocks' : i # j => f[i] # f[j]
          /\ \A i \in DOMAIN stocks' : stocks'[i] = stocks[f[i]]
    BY KeepType
  <1>2. \A i \in DOMAIN stocks' : f[i] \in DOMAIN stocks /\ stocks[f[i]].location # l
    BY DEF At
  <1>3. At(l)' = {}  BY <1>1, <1>2 DEF At
  <1> QED  BY <1>1, <1>2, <1>3 DEF EntriesSane, Live

-----------------------------------------------------------------------------
(* Requests that have not overlapped.                                      *)

Capped == journal.returned - journal.tagged <= journal.consumed

LEMMA SoloOnly ==
  ASSUME TypeInv, SoloInv, ~overlapped', NEW r \in Requests,
         Call(r) \/ Continue(r) \/ Abort(r)
  PROVE  /\ Alone' /\ EntriesSane /\ Capped /\ Knows(r)
         /\ \A s \in Requests : s # r => Knows(s)'
  <1>1. /\ ~overlapped
        /\ \A s \in Requests : s # r => pc[s] = "idle"
    <2>1. CASE Call(r)
      <3>1. \E p, o : Enter(r, p, o)
        BY <2>1 DEF Call, CreateArticleRead, MovementRead, TransferRead,
           CreateLocationRead, DeleteLocationRead
      <3> QED  BY <3>1 DEF Enter, Quiet
    <2>2. CASE Continue(r) \/ Abort(r)
      <3>1. UNCHANGED overlapped
        BY <2>2 DEF Continue, Abort, CreateArticleInsert, CreateArticleRefused, ApplyMovement,
           RefuseMovement, SkipLocation, LocateEntry, RefuseLocation, MoveEntry,
           RecordMovement, TransferTake, TransferGive, RecordTransfer, CreateLocationInsert,
           DeleteLocationPull, DeleteLocationRetire
      <3>2. pc[r] # "idle"
        BY <2>2 DEF Continue, Abort, CreateArticleInsert, CreateArticleRefused, ApplyMovement,
           RefuseMovement, SkipLocation, LocateEntry, RefuseLocation, MoveEntry,
           RecordMovement, TransferTake, TransferGive, RecordTransfer, CreateLocationInsert,
           DeleteLocationPull, DeleteLocationRetire, Leave, Advance
      <3> QED  BY <3>1, <3>2 DEF SoloInv, Alone
    <2> QED  BY <2>1, <2>2
  <1>2. \A s \in Requests : s # r => pc'[s] = "idle"  BY <1>1, OthersStay
  <1>3. \A s \in Requests : pc'[s] = "idle" => Knows(s)'  BY DEF Knows
  <1> QED  BY <1>1, <1>2, <1>3 DEF SoloInv, Alone, Capped

(* What a request finds when it starts it still finds at its first await.  *)
LEMMA KnowsCalled ==
  ASSUME TypeInv, NEW r \in Requests, Call(r)
  PROVE  Knows(r)'
  <1>1. UNCHANGED <<articleVars, journal, location>>
    BY DEF Call, CreateArticleRead, MovementRead, TransferRead, CreateLocationRead,
       DeleteLocationRead
  <1>2. UNCHANGED <<life, total, stocks, journal, location>>  BY <1>1 DEF articleVars
  <1>3. ASSUME NEW p, NEW o, Enter(r, p, o)
        PROVE  pc'[r] = p /\ op'[r] = o
    BY <1>3 DEF Enter, TypeInv, TypeOK
  <1>4. \A l \in Resolved : l = NoLocation \/ Live(l)  BY DEF Resolved
  <1>5. ASSUME NEW q \in Quantities, NEW l \in Locations \cup {NoLocation},
               CreateArticleRead(r, q, l)
        PROVE  Knows(r)'
    <2>1. q \in Nat  BY StockAssumption DEF Quantities
    <2>2. pc'[r] = "insert" /\ op'[r].location = l
      <3> DEFINE o == [NoOp EXCEPT !.type = "initial", !.quantity = q, !.location = l]
      <3>1. Enter(r, "insert", o)  BY <1>5 DEF CreateArticleRead
      <3>2. o.location = l  BY <2>1, InitialAsked
      <3> HIDE DEF o
      <3> QED  BY <1>3, <3>1, <3>2
    <2>3. l = NoLocation \/ Live(l)  BY <1>4, <1>5 DEF CreateArticleRead
    <2> QED  BY <1>2, <2>2, <2>3 DEF Knows, Live
  <1>6. ASSUME NEW q \in Quantities, NEW l \in Locations \cup {NoLocation},
               NEW type \in Movements, NEW by \in {"stock", "tagged", "usage"},
               MovementRead(r, type, q, l, by)
        PROVE  Knows(r)'
    <2>1. ASSUME NEW b \in Op
          PROVE  LET x == [b EXCEPT !.type = type, !.quantity = q, !.location = l, !.by = by]
                 IN  x.type = type /\ x.quantity = q /\ x.location = l /\ x.by = by
      BY DEF Op
    <2>2. /\ pc'[r] = "apply" /\ op'[r].location = l /\ op'[r].quantity = q
          /\ op'[r].type = type /\ op'[r].by = by
      BY <1>3, <1>6, <2>1, NoOpType DEF MovementRead
    <2>3. l = NoLocation \/ Live(l)  BY <1>4, <1>6 DEF MovementRead
    <2>4. by = "usage" /\ type = "in" => journal.returned + q <= journal.consumed
      BY <1>6 DEF MovementRead, Returnable
    <2> QED  BY <1>2, <2>2, <2>3, <2>4 DEF Knows, Live
  <1>7. ASSUME NEW q \in Quantities, NEW from \in Locations, NEW to \in Locations,
               TransferRead(r, q, from, to)
        PROVE  Knows(r)'
    <2>1. ASSUME NEW b \in Op
          PROVE  LET x == [b EXCEPT !.type = "transfer", !.quantity = q, !.location = from,
                                    !.destination = to]
                 IN  x.quantity = q /\ x.location = from /\ x.destination = to
      BY DEF Op
    <2>2. /\ pc'[r] = "take" /\ op'[r].location = from /\ op'[r].quantity = q
          /\ op'[r].destination = to
      BY <1>3, <1>7, <2>1, NoOpType DEF TransferRead
    <2>3. /\ seen'[r].found = (At(to) # {}) /\ seen'[r].sum = InStock
          /\ life = "active" /\ Live(to) /\ q > 0 /\ Available(from) >= q
      BY <1>7 DEF TransferRead, TypeInv, TypeOK
    <2>4. At(from) # {}
      <3>1. q \in Nat  BY StockAssumption DEF Quantities
      <3> QED  BY <2>3, <3>1 DEF Available
    <2>5. InStock' = InStock  BY <1>2 DEF InStock
    <2> QED  BY <1>2, <2>2, <2>3, <2>4, <2>5 DEF Knows, Live, At, Available, First
  <1>8. ASSUME NEW l \in Locations, CreateLocationRead(r, l) \/ DeleteLocationRead(r, l)
        PROVE  Knows(r)'
    <2>1. pc'[r] \in {"create", "pull"}
      BY <1>3, <1>8 DEF CreateLocationRead, DeleteLocationRead
    <2> QED  BY <2>1 DEF Knows
  <1> QED  BY <1>5, <1>6, <1>7, <1>8 DEF Call

LEMMA KnowsLeft ==
  ASSUME TypeInv, NEW r \in Requests, NEW from, Leave(r, from)
  PROVE  Knows(r)'
  <1>1. pc'[r] = "idle"  BY DEF Leave, Advance, TypeInv, TypeOK
  <1> QED  BY <1>1 DEF Knows

(* The writes of the entries.                                              *)
LEMMA MoveSane ==
  ASSUME TypeInv, EntriesSane, NEW r \in Requests, Knows(r), MoveEntry(r)
  PROVE  EntriesSane'
  <1> DEFINE l == op[r].location
             q == op[r].quantity
  <1>1. /\ stocks \in Seq(Entries) /\ q \in Nat /\ -q \in Int /\ pc[r] = "move"
        /\ l \in Locations /\ seen[r].found \in BOOLEAN
    BY DEF TypeInv, TypeOK, Op, Entries, MoveEntry, Advance, Shape
  <1>2. UNCHANGED <<life, location>>  BY DEF MoveEntry
  <1>3. ASSUME UNCHANGED stocks  PROVE EntriesSane'
    BY <1>2, <1>3 DEF EntriesSane, Present, Live
  <1>4. Present' <=> Present  BY <1>2 DEF Present
  <1>5. CASE ~Present  BY <1>4, <1>5 DEF EntriesSane
  <1>6. ASSUME Present, NEW k \in DOMAIN stocks, NEW n \in Int, Add(k, n),
               stocks[k].quantity + n >= 0
        PROVE  EntriesSane'
    BY <1>1, <1>2, <1>6, AddSane
  <1>7. ASSUME Present, op[r].type = "out", TakeOut(l, q)  PROVE EntriesSane'
    <2>1. CASE At(l) # {} /\ Holding(q) # {}
      <3>1. PICK k \in {First(At(l)), First(Holding(q))} : Add(k, -q)
        BY <1>7, <2>1 DEF TakeOut
      <3>2. k \in DOMAIN stocks /\ stocks[k].quantity >= q
        <4>1. First(At(l)) \in DOMAIN stocks /\ stocks[First(At(l))].quantity >= q
          BY <1>1, <1>7, <2>1, AtFirst DEF Knows
        <4>2. First(Holding(q)) \in Holding(q)
          <5>1. Holding(q) \in SUBSET Nat  BY <1>1, EntriesType DEF Holding
          <5> QED  BY <2>1, <5>1, FirstIn
        <4> QED  BY <3>1, <4>1, <4>2 DEF Holding
      <3>3. stocks[k].quantity + (-q) >= 0  BY <1>1, <3>2, EntriesType
      <3> QED  BY <1>1, <1>6, <1>7, <3>1, <3>2, <3>3
    <2>2. CASE ~(At(l) # {} /\ Holding(q) # {})
      BY <1>3, <1>7, <2>2 DEF TakeOut
    <2> QED  BY <2>1, <2>2
  <1>8. ASSUME Present, ~seen[r].found, Push(l, q)  PROVE EntriesSane'
    <2>1. At(l) = {} /\ Live(l)
      BY <1>1, <1>8, StockAssumption DEF Knows
    <2> QED  BY <1>1, <1>2, <1>8, <2>1, PushSane
  <1>9. ASSUME Present, BringIn(l, q, seen[r].found)  PROVE EntriesSane'
    <2>1. CASE seen[r].found /\ At(l) # {}
      <3>1. Add(First(At(l)), q)  BY <1>9, <2>1 DEF BringIn
      <3>2. First(At(l)) \in DOMAIN stocks  BY <1>1, <2>1, AtFirst
      <3>3. stocks[First(At(l))].quantity + q >= 0
        BY <1>1, <1>9, <3>2, EntriesType DEF EntriesSane
      <3>4. q \in Int  BY <1>1
      <3> QED  BY <1>6, <1>9, <3>1, <3>2, <3>3, <3>4
    <2>2. CASE ~(seen[r].found /\ At(l) # {})
      BY <1>3, <1>8, <1>9, <2>2 DEF BringIn
    <2> QED  BY <2>1, <2>2
  <1>10. ASSUME Present, SetTo(l, q, seen[r].found)  PROVE EntriesSane'
    <2>1. CASE seen[r].found /\ At(l) # {}
      <3>1. Put(First(At(l)), q)  BY <1>10, <2>1 DEF SetTo
      <3>2. First(At(l)) \in DOMAIN stocks  BY <1>1, <2>1, AtFirst
      <3> QED  BY <1>1, <1>2, <1>10, <3>1, <3>2, PutSane
    <2>2. CASE ~(seen[r].found /\ At(l) # {})
      BY <1>3, <1>8, <1>10, <2>2 DEF SetTo
    <2> QED  BY <2>1, <2>2
  <1> QED  BY <1>5, <1>7, <1>9, <1>10 DEF MoveEntry

LEMMA TakeSane ==
  ASSUME TypeInv, EntriesSane, NEW r \in Requests, Knows(r), TransferTake(r)
  PROVE  EntriesSane' /\ Knows(r)'
  <1> DEFINE l == op[r].location
             d == op[r].destination
             q == op[r].quantity
             k == First(At(l))
  <1>1. /\ stocks \in Seq(Entries) /\ q \in Nat /\ -q \in Int
        /\ pc[r] = "take" /\ pc'[r] = "give" /\ UNCHANGED <<life, location, op, seen>>
    BY DEF TypeInv, TypeOK, Op, Entries, TransferTake, Advance, locals
  <1>2. /\ life = "active" /\ At(l) # {} /\ Available(l) >= q /\ InStock = seen[r].sum
        /\ Live(d) /\ (seen[r].found <=> At(d) # {})
    BY <1>1 DEF Knows
  <1>3. Add(k, -q)  BY <1>2 DEF TransferTake
  <1>4. k \in DOMAIN stocks /\ stocks[k].quantity >= q
    BY <1>1, <1>2, AtFirst
  <1> HIDE DEF k
  <1>5. stocks[k].quantity + (-q) >= 0  BY <1>1, <1>4, EntriesType
  <1>6. Present  BY <1>2 DEF Present
  <1>7. EntriesSane' /\ (\A m : At(m)' = At(m)) /\ InStock' = InStock + (-q)
    BY <1>1, <1>3, <1>4, <1>5, <1>6, AddSane
  <1>8. InStock \in Int  BY <1>1, InStockType
  <1>9. InStock' = InStock - q  BY <1>1, <1>7, <1>8
  <1>10. At(d)' = At(d) /\ (Live(d)' <=> Live(d)) /\ op'[r] = op[r] /\ seen'[r] = seen[r]
    BY <1>1, <1>7 DEF Live, At
  <1> QED  BY <1>1, <1>2, <1>7, <1>9, <1>10 DEF Knows

LEMMA GiveSane ==
  ASSUME TypeInv, EntriesSane, NEW r \in Requests, Knows(r), TransferGive(r)
  PROVE  EntriesSane' /\ Knows(r)'
  <1> DEFINE d == op[r].destination
             q == op[r].quantity
  <1>1. /\ stocks \in Seq(Entries) /\ q \in Nat /\ q \in Int /\ d \in Locations
        /\ pc[r] = "give" /\ pc'[r] = "note" /\ UNCHANGED <<life, location, op, seen>>
        /\ seen[r].sum \in Int
    BY DEF TypeInv, TypeOK, Op, Entries, TransferGive, Advance, locals, Shape
  <1>2. /\ life = "active" /\ InStock = seen[r].sum - q
        /\ Live(d) /\ (seen[r].found <=> At(d) # {})
    BY <1>1 DEF Knows
  <1>3. Present  BY <1>2 DEF Present
  <1>4. EntriesSane' /\ InStock' = InStock + q
    <2>1. CASE At(d) = {}
      <3>1. Push(d, q)  BY <1>2, <2>1 DEF TransferGive, Give
      <3> QED  BY <1>1, <1>2, <1>3, <2>1, <3>1, PushSane
    <2>2. CASE At(d) # {}
      <3> DEFINE k == First(At(d))
      <3>1. Add(k, q)  BY <1>2, <2>2 DEF TransferGive, Give, GiveAdd
      <3>2. k \in DOMAIN stocks  BY <1>1, <2>2, AtFirst
      <3> HIDE DEF k
      <3>3. stocks[k].quantity + q >= 0
        BY <1>1, <1>3, <3>2, EntriesType DEF EntriesSane
      <3> QED  BY <1>1, <1>3, <3>1, <3>2, <3>3, AddSane
    <2> QED  BY <2>1, <2>2
  <1>5. InStock' = seen'[r].sum  BY <1>1, <1>2, <1>4
  <1> QED  BY <1>1, <1>4, <1>5 DEF Knows

(* Every step of the one request in flight keeps the entries sane, the     *)
(* returns capped and what it will write next justified.                   *)
LEMMA SoloContinue ==
  ASSUME TypeInv, TypeInv', DefaultStays, EntriesSane, Capped, NEW r \in Requests, Knows(r),
         Continue(r) \/ Abort(r)
  PROVE  EntriesSane' /\ Knows(r)' /\ Capped'
  <1>1. /\ op[r] \in Op /\ op[r].quantity \in Nat /\ pc \in [Requests -> Pcs]
        /\ journal \in [net: Int, consumed: Nat, returned: Nat, tagged: Nat]
        /\ stocks \in Seq(Entries) /\ Shape(r)
        /\ location \in [Locations -> {"absent", "default", "other", "deleted"}]
    BY DEF TypeInv, TypeOK, Op, Pcs, Entries
  <1>2. ASSUME NEW from, Leave(r, from)  PROVE Knows(r)' /\ pc[r] = from
    BY <1>2, KnowsLeft DEF Leave, Advance
  <1>3. ASSUME UNCHANGED <<life, stocks, location>>  PROVE EntriesSane'
    BY <1>3 DEF EntriesSane, Present, Live
  <1>4. ASSUME UNCHANGED journal  PROVE Capped'
    BY <1>4 DEF Capped
  <1>5. ASSUME NEW to \in Pcs, NEW from, Advance(r, from, to)
        PROVE  pc[r] = from /\ pc'[r] = to
    BY <1>1, <1>5 DEF Advance
  <1>6. CASE CreateArticleInsert(r)
    <2> DEFINE e == [location |-> op[r].location, quantity |-> op[r].quantity]
    <2>1. pc[r] = "insert" /\ UNCHANGED <<journal, location>>
      BY <1>2, <1>5, <1>6 DEF CreateArticleInsert, Pcs
    <2>2. EntriesSane'
      <3>1. e.location = op[r].location /\ e.quantity >= 0  BY <1>1
      <3>2. op[r].location # NoLocation => Live(e.location)
        BY <2>1, <3>1 DEF Knows
      <3>3. stocks' = << >> \/ (op[r].location # NoLocation /\ stocks' = <<e>>)
        BY <1>6 DEF CreateArticleInsert
      <3> HIDE DEF e
      <3>4. CASE stocks' = << >>  BY <3>4 DEF EntriesSane
      <3>5. CASE op[r].location # NoLocation /\ stocks' = <<e>>
        <4>1. DOMAIN stocks' = {1} /\ stocks'[1] = e  BY <3>5
        <4>2. (stocks[1].quantity >= 0 /\ Live(stocks[1].location))'
          BY <2>1, <3>1, <3>2, <3>5, <4>1 DEF Live
        <4> QED  BY <4>1, <4>2 DEF EntriesSane
      <3> QED  BY <3>3, <3>4, <3>5
    <2>3. Knows(r)'
      <3>1. CASE op[r].quantity > 0
        <4>1. pc'[r] = "record" /\ UNCHANGED op
          BY <1>5, <1>6, <3>1 DEF CreateArticleInsert, locals, Pcs
        <4>2. op'[r].type = "initial"  BY <1>1, <2>1, <4>1 DEF Shape
        <4> QED  BY <4>1, <4>2 DEF Knows
      <3>2. CASE ~(op[r].quantity > 0)
        BY <1>2, <1>6, <3>2 DEF CreateArticleInsert
      <3> QED  BY <3>1, <3>2
    <2> QED  BY <1>4, <2>1, <2>2, <2>3
  <1>7. CASE CreateArticleRefused(r) \/ RefuseMovement(r) \/ RefuseLocation(r)
             \/ RecordTransfer(r) \/ Abort(r)
    <2>1. UNCHANGED <<articleVars, journal, location>>
      BY <1>7 DEF CreateArticleRefused, RefuseMovement, RefuseLocation, RecordTransfer, Abort
    <2>2. \E from : Leave(r, from)
      BY <1>7 DEF CreateArticleRefused, RefuseMovement, RefuseLocation, RecordTransfer, Abort
    <2> QED  BY <1>2, <1>3, <1>4, <2>1, <2>2 DEF articleVars
  <1>8. CASE ApplyMovement(r)
    <2>1. UNCHANGED <<life, stocks, journal, location, op>>  BY <1>8 DEF ApplyMovement
    <2>2. pc[r] = "apply" /\ pc'[r] \in {"record", "locate"}
      BY <1>5, <1>8 DEF ApplyMovement, Pcs
    <2>3. Knows(r)'  BY <2>1, <2>2 DEF Knows, Live
    <2> QED  BY <1>3, <1>4, <2>1, <2>3
  <1>9. CASE SkipLocation(r)
    <2>1. UNCHANGED <<life, stocks, journal, location, op>>
      BY <1>9 DEF SkipLocation, articleVars, locals
    <2>2. pc[r] = "locate" /\ pc'[r] = "record"
      BY <1>5, <1>9 DEF SkipLocation, Pcs
    <2>3. Knows(r)'  BY <2>1, <2>2 DEF Knows
    <2> QED  BY <1>3, <1>4, <2>1, <2>3
  <1>10. CASE LocateEntry(r)
    <2>1. UNCHANGED <<life, stocks, journal, location, op>>
      BY <1>10 DEF LocateEntry, articleVars
    <2>2. pc[r] = "locate" /\ pc'[r] = "move"
      BY <1>5, <1>10 DEF LocateEntry, Pcs
    <2>3. seen'[r].found = (At(op[r].location) # {})
      BY <1>10 DEF LocateEntry, TypeInv, TypeOK
    <2>4. op[r].type = "out" => Available(op[r].location) >= op[r].quantity
      BY <1>10 DEF LocateEntry
    <2>5. Knows(r)'
      BY <2>1, <2>2, <2>3, <2>4 DEF Knows, Live, At, Available, First
    <2> QED  BY <1>3, <1>4, <2>1, <2>5
  <1>11. CASE MoveEntry(r)
    <2>1. UNCHANGED <<life, journal, location, op>>  BY <1>11 DEF MoveEntry, locals
    <2>2. pc[r] = "move" /\ pc'[r] = "record"  BY <1>5, <1>11 DEF MoveEntry, Pcs
    <2>3. Knows(r)'  BY <2>1, <2>2 DEF Knows
    <2> QED  BY <1>4, <1>11, <2>1, <2>3, MoveSane
  <1>12. CASE RecordMovement(r)
    <2>1. /\ pc[r] = "record" /\ Knows(r)' /\ UNCHANGED <<life, stocks, location>>
      BY <1>2, <1>12 DEF RecordMovement, articleVars
    <2>2. op[r].by \in {"stock", "tagged", "usage"}  BY <1>1 DEF Op
    <2>3. CASE op[r].type = "in"
      <3>1. CASE op[r].by = "stock"
        <4>1. /\ journal'.returned = journal.returned + 0
              /\ journal'.consumed = journal.consumed + 0
              /\ journal'.tagged = journal.tagged + 0
          BY <1>12, <2>3, <3>1 DEF RecordMovement
        <4>2. journal.consumed \in Nat /\ journal.returned \in Nat /\ journal.tagged \in Nat
          BY <1>1
        <4> QED  BY <1>3, <2>1, <4>1, <4>2 DEF Capped
      <3>2. CASE op[r].by = "tagged"
        <4>1. /\ journal'.returned = journal.returned + op[r].quantity
              /\ journal'.consumed = journal.consumed + 0
              /\ journal'.tagged = journal.tagged + op[r].quantity
          BY <1>12, <2>3, <3>2 DEF RecordMovement
        <4>2. journal.consumed \in Nat /\ journal.returned \in Nat /\ journal.tagged \in Nat
          BY <1>1
        <4> QED  BY <1>1, <1>3, <2>1, <4>1, <4>2 DEF Capped
      <3>3. CASE op[r].by = "usage"
        <4>1. journal.returned + op[r].quantity <= journal.consumed
          BY <2>1, <2>3, <3>3 DEF Knows
        <4>2. /\ journal'.returned = journal.returned + op[r].quantity
              /\ journal'.consumed = journal.consumed + 0
              /\ journal'.tagged = journal.tagged + 0
          BY <1>12, <2>3, <3>3 DEF RecordMovement
        <4>3. journal.consumed \in Nat /\ journal.returned \in Nat /\ journal.tagged \in Nat
          BY <1>1
        <4> QED  BY <1>1, <2>1, <1>3, <4>1, <4>2, <4>3 DEF Capped
      <3> QED  BY <2>1, <1>3, <2>2, <3>1, <3>2, <3>3
    <2>4. CASE op[r].type # "in"
      <3>1. /\ journal'.returned = journal.returned + 0
            /\ journal'.tagged = journal.tagged + 0
            /\ \/ journal'.consumed = journal.consumed + 0
               \/ journal'.consumed = journal.consumed + op[r].quantity
        BY <1>12, <2>4 DEF RecordMovement
      <3>2. journal.consumed \in Nat /\ journal.returned \in Nat /\ journal.tagged \in Nat
        BY <1>1
      <3> QED  BY <1>1, <1>3, <2>1, <3>1, <3>2 DEF Capped
    <2> QED  BY <1>3, <2>1, <2>3, <2>4
  <1>13. CASE TransferTake(r)
    BY <1>4, <1>13, TakeSane DEF TransferTake
  <1>14. CASE TransferGive(r)
    BY <1>4, <1>14, GiveSane DEF TransferGive
  <1>15. CASE CreateLocationInsert(r)
    <2>1. UNCHANGED <<life, stocks, journal>>
      BY <1>15 DEF CreateLocationInsert, articleVars
    <2>2. \A l \in Locations : Live(l) => Live(l)'
      BY <1>1, <1>15 DEF CreateLocationInsert, Live
    <2>3. \A k \in DOMAIN stocks : stocks[k].location \in Locations  BY <1>1, EntriesType
    <2>4. EntriesSane'  BY <2>1, <2>2, <2>3 DEF EntriesSane, Present
    <2> QED  BY <1>2, <1>4, <1>15, <2>1, <2>4 DEF CreateLocationInsert
  <1>16. CASE DeleteLocationPull(r)
    <2>1. UNCHANGED <<life, journal, location, op>>
      BY <1>16 DEF DeleteLocationPull, locals
    <2>2. pc[r] = "pull" /\ pc'[r] = "retire"
      BY <1>5, <1>16 DEF DeleteLocationPull, Pcs
    <2>3. CASE Present
      <3>1. Keep(DOMAIN stocks \ At(op[r].location))
        BY <1>16, <2>3 DEF DeleteLocationPull
      <3>2. EntriesSane' /\ At(op[r].location)' = {}
        BY <1>1, <2>1, <2>3, <3>1, KeepSane
      <3>3. Knows(r)'  BY <2>1, <2>2, <3>2 DEF Knows, At
      <3> QED  BY <1>4, <2>1, <3>2, <3>3
    <2>4. CASE ~Present
      <3>1. ~Present'  BY <2>1, <2>4 DEF Present
      <3>2. Knows(r)'  BY <2>2, <3>1 DEF Knows
      <3> QED  BY <1>4, <2>1, <3>1, <3>2 DEF EntriesSane
    <2> QED  BY <2>3, <2>4
  <1>17. CASE DeleteLocationRetire(r)
    <2> DEFINE l == op[r].location
    <2>1. /\ UNCHANGED <<life, stocks, journal>> /\ pc[r] = "retire"
          /\ location' = [location EXCEPT ![l] = "deleted"] /\ Knows(r)'
      BY <1>2, <1>17 DEF DeleteLocationRetire, articleVars
    <2>2. EntriesSane'
      <3> SUFFICES ASSUME Present  PROVE EntriesSane'
        BY <2>1 DEF EntriesSane, Present
      <3>1. At(l) = {}  BY <2>1 DEF Knows
      <3>2. \A k \in DOMAIN stocks : stocks[k].location # l /\ stocks[k].location \in Locations
        BY <1>1, <3>1, EntriesType DEF At
      <3>3. \A m \in Locations : m # l /\ Live(m) => Live(m)'
        BY <1>1, <2>1 DEF Live
      <3> QED  BY <2>1, <3>2, <3>3 DEF EntriesSane
    <2> QED  BY <1>4, <2>1, <2>2
  <1> QED
    BY <1>6, <1>7, <1>8, <1>9, <1>10, <1>11, <1>12, <1>13, <1>14, <1>15, <1>16, <1>17
    DEF Continue

LEMMA SoloStep ==
  ASSUME TypeInv, TypeInv', DefaultStays, SoloInv, NEW r \in Requests,
         Call(r) \/ Continue(r) \/ Abort(r)
  PROVE  SoloInv'
  <1> SUFFICES ASSUME ~overlapped'  PROVE SoloInv'
    BY DEF SoloInv
  <1>1. /\ Alone' /\ EntriesSane /\ Capped /\ Knows(r)
        /\ \A s \in Requests : s # r => Knows(s)'
    BY SoloOnly
  <1>2. EntriesSane' /\ Knows(r)' /\ Capped'
    <2>1. CASE Call(r)
      <3>1. UNCHANGED <<life, stocks, location, journal>>
        BY <2>1 DEF Call, CreateArticleRead, MovementRead, TransferRead, CreateLocationRead,
           DeleteLocationRead, articleVars
      <3>2. EntriesSane' /\ Capped'
        BY <1>1, <3>1 DEF EntriesSane, Capped, Present, Live
      <3> QED  BY <2>1, <3>2, KnowsCalled
    <2>2. CASE Continue(r) \/ Abort(r)  BY <1>1, <2>2, SoloContinue
    <2> QED  BY <2>1, <2>2
  <1>3. \A s \in Requests : Knows(s)'  BY <1>1, <1>2
  <1> QED  BY <1>1, <1>2, <1>3 DEF SoloInv, Capped

(* The article is switched on or off, or deleted, with nothing in flight.  *)
LEMMA SoloLife ==
  ASSUME TypeInv, SoloInv, SetActive \/ DeleteArticle
  PROVE  SoloInv'
  <1> SUFFICES ASSUME ~overlapped'  PROVE SoloInv'
    BY DEF SoloInv
  <1>1. /\ ~overlapped /\ Quiet /\ UNCHANGED <<pc, stocks, location, journal>>
        /\ Present' => Present
    BY DEF SetActive, DeleteArticle, Present
  <1>2. EntriesSane'  BY <1>1 DEF SoloInv, EntriesSane, Live
  <1>3. \A r \in Requests : pc'[r] = "idle"  BY <1>1 DEF Quiet
  <1>4. Alone' /\ \A r \in Requests : Knows(r)'
    <2>1. \A r \in Requests : Knows(r)'  BY <1>3 DEF Knows
    <2> QED  BY <1>3, <2>1 DEF Alone
  <1> QED  BY <1>1, <1>2, <1>4 DEF SoloInv

LEMMA IInvInit == Init => IInv
  <1> SUFFICES ASSUME Init  PROVE IInv
    OBVIOUS
  <1>1. Accounts
    <2>1. \A r \in Requests : Pending[r] = 0  BY DEF Init, Pending
    <2>2. SumFunction(Pending) = 0
      BY <2>1, StockAssumption, SumZero DEF SumFunction, Pending
    <2> QED  BY <2>2 DEF Init, Accounts, TotalAccounted
  <1>2. DefaultStays  BY DEF Init, DefaultStays, Live
  <1>3. SoloInv
    <2>1. \A r \in Requests : pc[r] = "idle"  BY DEF Init
    <2>2. EntriesSane  BY DEF Init, EntriesSane
    <2>3. Alone /\ \A r \in Requests : Knows(r)  BY <2>1 DEF Alone, Knows
    <2>4. journal.returned - journal.tagged <= journal.consumed  BY DEF Init
    <2> QED  BY <2>2, <2>3, <2>4 DEF SoloInv
  <1> QED  BY <1>1, <1>2, <1>3, TypeInit DEF IInv

LEMMA IInvStep == IInv /\ [Next]_vars => IInv'
  <1> SUFFICES ASSUME IInv, [Next]_vars  PROVE Accounts' /\ DefaultStays' /\ SoloInv'
    BY TypeStep DEF IInv
  <1>1. TypeInv /\ TypeInv'  BY TypeStep DEF IInv
  <1>2. CASE SetActive \/ DeleteArticle
    <2>1. /\ UNCHANGED <<total, journal, lost, location, pc, op, pre, seen>>
          /\ life' # "absent"
      BY <1>2 DEF SetActive, DeleteArticle, locals
    <2>2. Pending' = Pending  BY <2>1 DEF Pending, NewStock
    <2>3. Accounts'
      BY <2>1, <2>2 DEF IInv, Accounts, TotalAccounted, SumFunction
    <2>4. DefaultStays'  BY <2>1 DEF IInv, DefaultStays, Defaults, Live
    <2> QED  BY <1>1, <1>2, <2>3, <2>4, SoloLife DEF IInv
  <1>3. CASE UNCHANGED vars
    <2>1. UNCHANGED <<life, total, stocks, journal, location, pc, op, pre, seen, lost,
                      overlapped>>
      BY <1>3 DEF vars, articleVars, locals
    <2>2. Accounts'
      BY <2>1 DEF IInv, Accounts, TotalAccounted, Pending, NewStock
    <2>3. DefaultStays'  BY <2>1 DEF IInv, DefaultStays, Defaults, Live
    <2>4. \A r \in Requests : Knows(r)' <=> Knows(r)
      BY <2>1 DEF Knows, Live, Present, At, Available, First, InStock
    <2>5. Alone' <=> Alone  BY <2>1 DEF Alone
    <2>6. EntriesSane' <=> EntriesSane  BY <2>1 DEF EntriesSane, Present, Live
    <2> QED  BY <2>1, <2>2, <2>3, <2>4, <2>5, <2>6 DEF IInv, SoloInv
  <1>4. ASSUME NEW r \in Requests, Call(r) \/ Continue(r) \/ Abort(r)
        PROVE  Accounts' /\ DefaultStays' /\ SoloInv'
    BY <1>1, <1>4, AccountsStep, DefaultStep, SoloStep DEF IInv
  <1> QED  BY <1>2, <1>3, <1>4 DEF Next

LEMMA Inductive == Spec => []IInv
  BY IInvInit, IInvStep, PTL DEF Spec

(* The lines of the journal explain the total, for any number of requests  *)
(* that interleave at their awaits, stop or are refused half way.          *)
THEOREM StockAccounted == Spec => []TotalAccounted
  <1>1. IInv => TotalAccounted  BY DEF IInv, Accounts
  <1> QED  BY <1>1, Inductive, PTL

(* A movement with no location named has one to go to as soon as the       *)
(* organization has any; entries are one for each location, not negative   *)
(* and of locations that exist, as long as requests do not overlap.        *)
THEOREM EntriesStaySane == Spec => []LocationsSane
  <1>1. IInv => LocationsSane
    BY DEF IInv, DefaultStays, SoloInv, EntriesSane, LocationsSane
  <1> QED  BY <1>1, Inductive, PTL

(* A transfer that reaches its journal line has moved what it took.        *)
THEOREM TransfersMove == Spec => []TransfersConserve
  <1>1. IInv => TransfersConserve
    BY DEF IInv, SoloInv, Knows, TransfersConserve
  <1> QED  BY <1>1, Inductive, PTL

(* No usage of an intervention returns more than was consumed on it.       *)
THEOREM ReturnsStayCapped == Spec => []ReturnsCapped
  <1>1. IInv => ReturnsCapped  BY DEF IInv, SoloInv, ReturnsCapped
  <1> QED  BY <1>1, Inductive, PTL

==============================================================================
