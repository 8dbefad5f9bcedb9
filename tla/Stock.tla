-------------------------------- MODULE Stock --------------------------------
(***************************************************************************)
(* The stock of one article: ArticleStockService over its document in      *)
(* `articles` and the collection `stock_movements`, and                    *)
(* StockLocationService over the locations it is kept at.                  *)
(*                                                                         *)
(* A movement changes the total of the article, then the entry of one      *)
(* location, then inserts a line of the journal; a transfer changes two    *)
(* entries, then inserts a line.  Each is one request of several awaits,   *)
(* which may overlap with others or stop anywhere.  Of the journal only    *)
(* the sums the service computes or the properties need are kept, for one  *)
(* intervention.                                                           *)
(***************************************************************************)
EXTENDS Integers, Sequences, FiniteSets, Functions

CONSTANTS
  Requests,     (* requests that may be in flight at the same time          *)
  Locations,    (* stock locations, used and not yet used                   *)
  NoLocation,   (* no location given and no default one                     *)
  MaxQuantity,  (* bound on the quantity of a movement                      *)
  MaxCalls,     (* bound on the calls                                       *)
  MaxAborts     (* bound on the requests stopped between two awaits         *)

ASSUME StockAssumption ==
  /\ NoLocation \notin Locations
  /\ IsFiniteSet(Requests)
  /\ {MaxQuantity, MaxCalls, MaxAborts} \subseteq Nat

VARIABLES
  life,         (* articles: existence, isActive and deletedAt              *)
  total,        (* articles: stockQuantity                                  *)
  stocks,       (* articles: locationStocks                                 *)
  journal,      (* stock_movements: the sums of its lines                   *)
  location,     (* stock_locations: existence, isDefault and deletedAt      *)
  pc,           (* requests: the await a request is at                      *)
  op,           (* requests: what was asked                                 *)
  pre,          (* requests: stockQuantity before the total was changed     *)
  seen,         (* requests: what was read of locationStocks or locations   *)
  calls,        (* calls so far                                             *)
  aborts,       (* requests stopped so far                                  *)
  lost,         (* changes of the total whose request never recorded them   *)
  overlapped    (* two requests have been in flight at the same time        *)

articleVars == <<life, total, stocks>>
locals      == <<op, pre, seen>>
vars == <<articleVars, journal, location, pc, locals, calls, aborts, lost,
          overlapped>>

Quantities == 0..MaxQuantity
Movements  == {"in", "out", "adjustment"}
Op == [type: Movements \cup {"none", "initial", "transfer"},
       quantity: Nat, location: Locations \cup {NoLocation},
       destination: Locations \cup {NoLocation},
       by: {"stock", "tagged", "usage"}]
NoOp        == [type |-> "none", quantity |-> 0, location |-> NoLocation,
                destination |-> NoLocation, by |-> "stock"]
NothingSeen == [found |-> FALSE, sum |-> 0]

TypeOK ==
  /\ life \in {"absent", "active", "inactive", "deleted"}
  /\ total \in Nat
  /\ stocks \in Seq([location: Locations, quantity: Int])
  /\ journal \in [net: Int, consumed: Nat, returned: Nat, tagged: Nat]
  /\ location \in [Locations -> {"absent", "default", "other", "deleted"}]
  /\ pc \in [Requests -> {"idle", "insert", "apply", "locate", "move", "record",
                          "take", "give", "note", "create", "pull", "retire"}]
  /\ op \in [Requests -> Op]
  /\ pre \in [Requests -> Nat]
  /\ seen \in [Requests -> [found: BOOLEAN, sum: Int]]
  /\ {calls, aborts} \subseteq Nat
  /\ lost \in Int
  /\ overlapped \in BOOLEAN

Init ==
  /\ life = "absent"
  /\ total = 0
  /\ stocks = << >>
  /\ journal = [net |-> 0, consumed |-> 0, returned |-> 0, tagged |-> 0]
  /\ location = [l \in Locations |-> "absent"]
  /\ pc = [r \in Requests |-> "idle"]
  /\ op = [r \in Requests |-> NoOp]
  /\ pre = [r \in Requests |-> 0]
  /\ seen = [r \in Requests |-> NothingSeen]
  /\ calls = 0
  /\ aborts = 0
  /\ lost = 0
  /\ overlapped = FALSE

-----------------------------------------------------------------------------
(* Vocabulary of the operations.                                           *)

Quiet == \A r \in Requests : pc[r] = "idle"

Enter(r, p, o) ==
  /\ pc[r] = "idle"
  /\ calls < MaxCalls
  /\ calls' = calls + 1
  /\ pc' = [pc EXCEPT ![r] = p]
  /\ op' = [op EXCEPT ![r] = o]
  /\ overlapped' = (overlapped \/ ~Quiet)

Advance(r, from, to) ==
  /\ pc[r] = from
  /\ pc' = [pc EXCEPT ![r] = to]

Leave(r, from) ==
  /\ Advance(r, from, "idle")
  /\ op' = [op EXCEPT ![r] = NoOp]
  /\ pre' = [pre EXCEPT ![r] = 0]
  /\ seen' = [seen EXCEPT ![r] = NothingSeen]

Live(l)  == location[l] \in {"default", "other"}
Defaults == {l \in Locations : location[l] = "default"}

(* Where a movement may go: the location the user names, else the default  *)
(* one, else none.                                                         *)
Resolved == {l \in Locations : Live(l)}
            \cup (IF Defaults = {} THEN {NoLocation} ELSE {})

(* The entries of a location; MongoDB's positional $ is the first that     *)
(* matches.                                                                *)
At(l)       == {k \in DOMAIN stocks : stocks[k].location = l}
Holding(q)  == {k \in DOMAIN stocks : stocks[k].quantity >= q}
First(K)    == CHOOSE k \in K : \A j \in K : k <= j
Available(l) == IF At(l) = {} THEN 0 ELSE stocks[First(At(l))].quantity

Add(k, n)  == stocks' = [stocks EXCEPT ![k].quantity = @ + n]
Put(k, n)  == stocks' = [stocks EXCEPT ![k].quantity = n]
Push(l, n) == stocks' = Append(stocks, [location |-> l, quantity |-> n])

InStock == SumFunction([k \in DOMAIN stocks |-> stocks[k].quantity])

(* A line of the journal goes from previousStock to newStock.              *)
NewStock(r) ==
  CASE op[r].type = "out" -> pre[r] - op[r].quantity
    [] op[r].type = "in"  -> pre[r] + op[r].quantity
    [] OTHER              -> op[r].quantity

(* What a request has done to the total and not yet recorded.              *)
Pending == [r \in Requests |->
  IF pc[r] \in {"locate", "move", "record"} THEN NewStock(r) - pre[r] ELSE 0]

-----------------------------------------------------------------------------
(* createArticle, with an initial stock kept at one location.              *)
CreateArticleRead(r, q, l) ==
  /\ life = "absent"
  /\ l \in Resolved
  /\ Enter(r, "insert", [NoOp EXCEPT !.type = "initial", !.quantity = q,
                                     !.location = l])
  /\ UNCHANGED <<articleVars, journal, location, pre, seen, aborts, lost>>

CreateArticleInsert(r) ==
  /\ life = "absent"
  /\ life' \in {"active", "inactive"}
  /\ total' = op[r].quantity
  /\ stocks' = IF op[r].quantity > 0 /\ op[r].location # NoLocation
               THEN <<[location |-> op[r].location, quantity |-> op[r].quantity]>>
               ELSE << >>
  /\ IF op[r].quantity > 0
     THEN Advance(r, "insert", "record") /\ UNCHANGED locals
     ELSE Leave(r, "insert")
  /\ UNCHANGED <<journal, location, calls, aborts, lost, overlapped>>

(* The unique index on the reference refuses a second one.                 *)
CreateArticleRefused(r) ==
  /\ life # "absent"
  /\ Leave(r, "insert")
  /\ UNCHANGED <<articleVars, journal, location, calls, aborts, lost,
                 overlapped>>

(* updateArticle switches isActive; deleteArticle is one update.           *)
SetActive ==
  /\ \/ life = "active" /\ life' = "inactive"
     \/ life = "inactive" /\ life' = "active"
  /\ overlapped' = (overlapped \/ ~Quiet)
  /\ UNCHANGED <<total, stocks, journal, location, pc, locals, calls, aborts,
                 lost>>

DeleteArticle ==
  /\ life \in {"active", "inactive"}
  /\ life' = "deleted"
  /\ overlapped' = (overlapped \/ ~Quiet)
  /\ UNCHANGED <<total, stocks, journal, location, pc, locals, calls, aborts,
                 lost>>

-----------------------------------------------------------------------------
(* createArticleMovement, which may name an intervention ("tagged"), and   *)
(* addInterventionArticleUsage ("usage"), which checks what it has read of *)
(* the journal: an article that returns was consumed on the intervention.  *)
Consumed(q)   == journal.consumed >= q                     \* slip of Returnable
Returnable(q) == journal.consumed > 0 /\ journal.returned + q <= journal.consumed

MovementRead(r, type, q, l, by) ==
  /\ type # "adjustment" => q > 0
  /\ by = "usage" => type # "adjustment"
  /\ by = "usage" /\ type = "in" => Returnable(q)
  /\ l \in Resolved
  /\ Enter(r, "apply", [NoOp EXCEPT !.type = type, !.quantity = q,
                                    !.location = l, !.by = by])
  /\ UNCHANGED <<articleVars, journal, location, pre, seen, aborts, lost>>

(* applyStockMovement: findOneAndUpdate changes the total and returns the  *)
(* document as it was (`new: false`).                                      *)
Known(r)    == life = "active"                             \* slip of Accepted
Accepted(r) == /\ life = "active"
               /\ op[r].type = "out" => total >= op[r].quantity

NewTotal(r) == CASE op[r].type = "in"  -> total + op[r].quantity
                 [] op[r].type = "out" -> total - op[r].quantity
                 [] OTHER              -> op[r].quantity

AfterImage(r) == NewTotal(r)                                \* slip of BeforeImage
BeforeImage(r)  == total

ApplyMovement(r) ==
  /\ Accepted(r)
  /\ Advance(r, "apply", IF op[r].location = NoLocation THEN "record"
                                                        ELSE "locate")
  /\ total' = NewTotal(r)
  /\ pre' = [pre EXCEPT ![r] = BeforeImage(r)]
  /\ UNCHANGED <<life, stocks, journal, location, op, seen, calls, aborts,
                 lost, overlapped>>

RefuseMovement(r) ==
  /\ ~Accepted(r)
  /\ Leave(r, "apply")
  /\ UNCHANGED <<articleVars, journal, location, calls, aborts, lost,
                 overlapped>>

(* updateLocationStock reads the entries, however inactive the article ... *)
Present == life \in {"active", "inactive"}
NoEntryRead(r) ==
  \/ ~Present
  \/ op[r].type = "out" /\ stocks = << >>

SkipLocation(r) ==
  /\ NoEntryRead(r)
  /\ Advance(r, "locate", "record")
  /\ UNCHANGED <<articleVars, journal, location, locals, calls, aborts, lost,
                 overlapped>>

LocateEntry(r) ==
  /\ ~NoEntryRead(r)
  /\ op[r].type = "out" => Available(op[r].location) >= op[r].quantity
  /\ Advance(r, "locate", "move")
  /\ seen' = [seen EXCEPT ![r].found = At(op[r].location) # {}]
  /\ UNCHANGED <<articleVars, journal, location, op, pre, calls, aborts, lost,
                 overlapped>>

(* ... and refuses what the location does not hold, once the total has     *)
(* been decremented ...                                                    *)
RefuseLocation(r) ==
  /\ ~NoEntryRead(r)
  /\ op[r].type = "out"
  /\ Available(op[r].location) < op[r].quantity
  /\ Leave(r, "locate")
  /\ lost' = lost + Pending[r]
  /\ UNCHANGED <<articleVars, journal, location, calls, aborts, overlapped>>

(* ... then updates the entry.  With two conditions on the array the       *)
(* positional $ is the first entry that matches either of them.            *)
TakeOut(l, q) ==
  IF Present /\ At(l) # {} /\ Holding(q) # {}
  THEN \E k \in {First(At(l)), First(Holding(q))} : Add(k, -q)
  ELSE UNCHANGED stocks

BringIn(l, q, found) ==
  IF ~Present THEN UNCHANGED stocks
  ELSE IF ~found THEN Push(l, q)
  ELSE IF At(l) # {} THEN Add(First(At(l)), q)
  ELSE UNCHANGED stocks

SetTo(l, q, found) ==
  IF ~Present THEN UNCHANGED stocks
  ELSE IF ~found THEN Push(l, q)
  ELSE IF At(l) # {} THEN Put(First(At(l)), q)
  ELSE UNCHANGED stocks

MoveEntry(r) ==
  LET l == op[r].location
      q == op[r].quantity
  IN  /\ Advance(r, "move", "record")
      /\ \/ op[r].type = "out" /\ TakeOut(l, q)
         \/ op[r].type = "in" /\ BringIn(l, q, seen[r].found)
         \/ op[r].type = "adjustment" /\ SetTo(l, q, seen[r].found)
      /\ UNCHANGED <<life, total, journal, location, locals, calls, aborts,
                     lost, overlapped>>

(* The line of the journal.                                                *)
RecordMovement(r) ==
  LET tagged == op[r].by # "stock"
      out == IF tagged /\ op[r].type = "out" THEN op[r].quantity ELSE 0
      back == IF tagged /\ op[r].type = "in" THEN op[r].quantity ELSE 0
  IN  /\ Leave(r, "record")
      /\ journal' = [net      |-> journal.net + NewStock(r) - pre[r],
                     consumed |-> journal.consumed + out,
                     returned |-> journal.returned + back,
                     tagged   |-> journal.tagged
                                  + IF op[r].by = "tagged" THEN back ELSE 0]
      /\ UNCHANGED <<articleVars, location, calls, aborts, lost, overlapped>>

-----------------------------------------------------------------------------
(* createStockTransfer reads the article and checks the source ...         *)
TransferRead(r, q, from, to) ==
  /\ life = "active"
  /\ q > 0
  /\ from # to
  /\ Live(from)
  /\ Live(to)
  /\ Available(from) >= q
  /\ Enter(r, "take", [NoOp EXCEPT !.type = "transfer", !.quantity = q,
                                   !.location = from, !.destination = to])
  /\ seen' = [seen EXCEPT ![r] = [found |-> At(to) # {}, sum |-> InStock]]
  /\ UNCHANGED <<articleVars, journal, location, pre, aborts, lost>>

(* ... takes from it without checking again ...                            *)
TransferTake(r) ==
  LET from == op[r].location
  IN  /\ Advance(r, "take", "give")
      /\ IF life = "active" /\ At(from) # {}
         THEN Add(First(At(from)), - op[r].quantity)
         ELSE UNCHANGED stocks
      /\ UNCHANGED <<life, total, journal, location, locals, calls, aborts,
                     lost, overlapped>>

(* ... and gives to the entry it has read, or to a new one.                *)
GivePut(to, q)  == Put(First(At(to)), q)                   \* slip of GiveAdd
GiveAdd(to, q)  == Add(First(At(to)), q)
GivePush(to, q, found) == Push(to, q)                      \* slip of Give
Give(to, q, found) ==
  IF ~found THEN Push(to, q)
  ELSE IF At(to) # {} THEN GiveAdd(to, q)
  ELSE UNCHANGED stocks

TransferGive(r) ==
  /\ Advance(r, "give", "note")
  /\ IF life = "active"
     THEN Give(op[r].destination, op[r].quantity, seen[r].found)
     ELSE UNCHANGED stocks
  /\ UNCHANGED <<life, total, journal, location, locals, calls, aborts, lost,
                 overlapped>>

(* The line of a transfer leaves the total as it is.                       *)
RecordTransfer(r) ==
  /\ Leave(r, "note")
  /\ UNCHANGED <<articleVars, journal, location, calls, aborts, lost,
                 overlapped>>

-----------------------------------------------------------------------------
(* createStockLocation makes the first location the default one.           *)
CreateLocationRead(r, l) ==
  /\ location[l] = "absent"
  /\ Enter(r, "create", [NoOp EXCEPT !.location = l])
  /\ seen' = [seen EXCEPT ![r].found = Defaults # {}]
  /\ UNCHANGED <<articleVars, journal, location, pre, aborts, lost>>

CreateLocationInsert(r) ==
  LET l == op[r].location
  IN  /\ Leave(r, "create")
      /\ location' = IF location[l] # "absent" THEN location
                     ELSE [location EXCEPT ![l] = IF seen[r].found THEN "other"
                                                  ELSE "default"]
      /\ UNCHANGED <<articleVars, journal, calls, aborts, lost, overlapped>>

(* deleteStockLocation refuses the default location and, as the two        *)
(* conditions of its count may match two entries, a location with an entry *)
(* while any location holds something.  Then it removes the entries and    *)
(* the location.                                                           *)
Unoccupied(l) == ~(Present /\ At(l) # {} /\ Holding(1) # {})

Removable(l) == location[l] = "other" /\ Unoccupied(l)

DeleteLocationRead(r, l) ==
  /\ Removable(l)
  /\ Enter(r, "pull", [NoOp EXCEPT !.location = l])
  /\ UNCHANGED <<articleVars, journal, location, pre, seen, aborts, lost>>

(* The entries of a subset of places, in the order they were in.           *)
Keep(K) ==
  \E f \in [1..Cardinality(K) -> K] :
    /\ \A i, j \in DOMAIN f : i < j => f[i] < f[j]
    /\ stocks' = [i \in DOMAIN f |-> stocks[f[i]]]

DeleteLocationPull(r) ==
  /\ Advance(r, "pull", "retire")
  /\ IF Present THEN Keep(DOMAIN stocks \ At(op[r].location)) ELSE UNCHANGED stocks
  /\ UNCHANGED <<life, total, journal, location, locals, calls, aborts, lost,
                 overlapped>>

DeleteLocationRetire(r) ==
  /\ Leave(r, "retire")
  /\ location' = [location EXCEPT ![op[r].location] = "deleted"]
  /\ UNCHANGED <<articleVars, journal, calls, aborts, lost, overlapped>>

(* An exception or a restart stops a request; what it wrote stays.         *)
Abort(r) ==
  /\ aborts < MaxAborts
  /\ pc[r] # "idle"
  /\ aborts' = aborts + 1
  /\ lost' = lost + Pending[r]
  /\ Leave(r, pc[r])
  /\ UNCHANGED <<articleVars, journal, location, calls, overlapped>>

-----------------------------------------------------------------------------
Call(r) ==
  \/ \E q \in Quantities, l \in Locations \cup {NoLocation} :
       \/ CreateArticleRead(r, q, l)
       \/ \E type \in Movements, by \in {"stock", "tagged", "usage"} :
            MovementRead(r, type, q, l, by)
  \/ \E q \in Quantities, from, to \in Locations : TransferRead(r, q, from, to)
  \/ \E l \in Locations : CreateLocationRead(r, l) \/ DeleteLocationRead(r, l)

Continue(r) ==
  \/ CreateArticleInsert(r)
  \/ CreateArticleRefused(r)
  \/ ApplyMovement(r)
  \/ RefuseMovement(r)
  \/ SkipLocation(r)
  \/ LocateEntry(r)
  \/ RefuseLocation(r)
  \/ MoveEntry(r)
  \/ RecordMovement(r)
  \/ TransferTake(r)
  \/ TransferGive(r)
  \/ RecordTransfer(r)
  \/ CreateLocationInsert(r)
  \/ DeleteLocationPull(r)
  \/ DeleteLocationRetire(r)

Next ==
  \/ SetActive
  \/ DeleteArticle
  \/ \E r \in Requests : Call(r) \/ Continue(r) \/ Abort(r)

Spec == Init /\ [][Next]_vars

-----------------------------------------------------------------------------
(***************************************************************************)
(* Properties that hold however the requests overlap or stop.              *)
(***************************************************************************)

(* applyStockMovement: the lines of the journal explain the total, up to   *)
(* the changes of requests that have not recorded theirs or never will: no *)
(* line is written twice, or from a total that was not the one changed.    *)
TotalAccounted ==
  total = journal.net + SumFunction(Pending) + lost

(***************************************************************************)
(* Properties of requests that have not overlapped, even if one stopped.   *)
(***************************************************************************)

(* Once an organization has a location it has a default one, whatever      *)
(* overlaps: a movement with no location named is always located.  The     *)
(* entries of an article stay one for each location, hold no negative      *)
(* quantity and are of locations that exist.                               *)
LocationsSane ==
  /\ (\E l \in Locations : Live(l)) => Defaults # {}
  /\ ~overlapped /\ Present =>
    /\ \A j, k \in DOMAIN stocks :
         stocks[j].location = stocks[k].location => j = k
    /\ \A k \in DOMAIN stocks :
         stocks[k].quantity >= 0 /\ Live(stocks[k].location)

(* A transfer neither creates nor destroys stock: the entries hold in all  *)
(* what they held when it was checked.                                     *)
TransfersConserve ==
  \A r \in Requests :
    ~overlapped /\ pc[r] = "note" => InStock = seen[r].sum

(* "Returned quantity cannot exceed already consumed quantity for this     *)
(* intervention": it does not by addInterventionArticleUsage.              *)
ReturnsCapped ==
  ~overlapped => journal.returned - journal.tagged <= journal.consumed

=============================================================================
