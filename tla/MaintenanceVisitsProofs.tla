------------------------ MODULE MaintenanceVisitsProofs ------------------------
(***************************************************************************)
(* What MaintenanceVisits promises, for any requests, runs of the jobs,    *)
(* contracts and calendar.                                                 *)
(***************************************************************************)
EXTENDS MaintenanceVisits, DataLemmas

-----------------------------------------------------------------------------
(***************************************************************************)
(* The inductive invariant.                                                *)
(***************************************************************************)

Op    == [contract: Contracts \cup {None}, read: Contract, to: Contract, visit: Nat]
Round == [left: SUBSET Contracts, read: [Contracts -> Contract], day: 0..MaxDay]
File  == [contract: Contracts, due: Nat, planned: BOOLEAN]

Held     == {"save", "close", "open", "plan", "record", "mark"}
Planning == {"open", "plan", "record"}

(* What a process that is at an await works on is a contract, and the case *)
(* that it has opened is of that contract, for the due date that was read. *)
Fits(at, o, files) ==
  /\ at \in Held => o.contract \in Contracts
  /\ at \in {"plan", "record"} =>
       /\ o.visit \in DOMAIN files
       /\ files[o.visit].contract = o.contract /\ files[o.visit].due = o.read.due
  /\ at = "record" => files[o.visit].planned

Shape(p) == Fits(pc[p], op[p], cases)

TypeInv == TypeOK /\ Blank \in Contract /\ \A p \in Processes : Shape(p)

(* A history of visits is replaced by its version alone, so that a request *)
(* that has read the current version has read the current history.         *)
Versioned(at, o, docs) ==
  LET k == docs[o.contract]
  IN  at \in Planning => /\ o.read.version <= k.version
                         /\ o.read.version = k.version => o.read.visits = k.visits

VersionRead(p) == Versioned(pc[p], op[p], contract)

Filed == \A c \in Contracts : \A i \in DOMAIN contract[c].visits :
           contract[c].visits[i].visit \in DOMAIN cases

VisitInv == VisitsAccounted /\ Filed /\ \A p \in Processes : VersionRead(p)

(* The due date of a contract that no user moved comes with the version:   *)
(* no save writes it, but the one of the visit.                            *)
Steady(at, o, docs) ==
  LET k == docs[o.contract]
  IN  /\ at \in {"save", "close"} => o.to.due = o.read.due /\ o.to.every = o.read.every
      /\ at \in Planning => /\ o.read.every = k.every
                            /\ o.read.version = k.version => o.read.due = k.due

DueRead(p) == op[p].contract \notin moved => Steady(pc[p], op[p], contract)

Length(m) == MonthDays[1 + (m % Len(MonthDays))]

(* The day of the month of d exists in every month, so that no later due   *)
(* date slips.                                                             *)
Short(d) == \A m \in Nat : d - FirstDay[MonthOf(d)] < Length(m)

(* A due date d and the one n months after it: once slipped, it has become *)
(* such a day.                                                             *)
Behind(d, e, n) == \/ MonthOf(e) = MonthOf(d) + n
                   \/ MonthOf(e) = MonthOf(d) + n + 1 /\ Short(e)

NextDue(k, i) == IF i = 1 THEN k.due ELSE k.visits[i - 1].due
InOrder(k) ==
  \A j \in DOMAIN k.visits :
    /\ k.visits[j].due < NextDue(k, j)
    /\ \A i \in 1..j : Behind(k.visits[j].due, NextDue(k, i), ((j + 1) - i) * k.every)

DueInv == /\ \A c \in Contracts \ moved : InOrder(contract[c])
          /\ \A p \in Processes : DueRead(p)

(* Without overlaps, what a process has read is what there is.             *)
Alone == \A p, q \in Processes : pc[p] # "idle" /\ pc[q] # "idle" => p = q

Has(c, d) == \E i \in DOMAIN notices[c] : notices[c][i] = d

Reads(p) ==
  LET o == op[p]
      c == o.contract
  IN  /\ pc[p] \in Held \ {"mark"} => o.read = contract[c]
      /\ pc[p] \in {"save", "close"} =>
           /\ o.to.live => o.read.live
           /\ p \notin Notifiers => /\ o.to.reminded \in {None, o.read.reminded}
                                    /\ c \notin moved => o.to.reminded = o.read.reminded
           /\ p \in Notifiers => /\ o.to.reminded = o.read.due /\ o.to.due = o.read.due
                                 /\ o.to.live = o.read.live

(* ... and so is what a run of the notifier has.                           *)
Follows(n) ==
  LET it == round[n]
      c  == op[n].contract
  IN  /\ pc[n] \in {"idle", "sift", "notify", "mark", "save"}
      /\ pc[n] # "idle" =>
           \A k \in Contracts : /\ it.read[k].due = contract[k].due
                                /\ it.read[k].live = contract[k].live
      /\ pc[n] = "sift" => \A k \in Contracts : it.read[k].reminded = contract[k].reminded
      /\ pc[n] \in {"notify", "mark", "save"} =>
           \A k \in it.left : contract[k].live /\ contract[k].reminded # contract[k].due
      /\ pc[n] \in {"mark", "save"} => c \notin it.left /\ Has(c, contract[c].due)

Marking(c) == \E n \in Notifiers : pc[n] \in {"mark", "save"} /\ op[n].contract = c

Told(c) ==
  /\ contract[c].reminded # None => Has(c, contract[c].reminded)
  /\ faults = 0 /\ c \notin moved =>
       /\ IsInjective(notices[c])
       /\ \A i \in DOMAIN notices[c] : notices[c][i] <= contract[c].due
       /\ Has(c, contract[c].due) =>
            contract[c].reminded = contract[c].due \/ ~contract[c].live \/ Marking(c)

InTurn == /\ Alone
          /\ \A p \in Processes : Reads(p)
          /\ \A n \in Notifiers : Follows(n)
          /\ \A c \in Contracts : Told(c)

RemindInv == ~overlapped => InTurn

IInv == TypeInv /\ VisitInv /\ DueInv /\ RemindInv

-----------------------------------------------------------------------------
(* The calendar.                                                           *)

LEMMA LengthType ==
  ASSUME NEW m \in Nat
  PROVE  /\ Length(m) \in Nat \ {0}
         /\ \A j, k \in Nat : Length(m) <= Length(j) + Length(k)
  <1> DEFINE L == Len(MonthDays)
             at(n) == 1 + (n % L)
  <1>1. MonthDays \in Seq(Nat \ {0}) /\ MonthDays # << >>  BY MaintenanceAssumption
  <1>2. L \in Nat \ {0} /\ DOMAIN MonthDays = 1..L
    BY <1>1
  <1>3. ASSUME NEW n \in Nat  PROVE at(n) \in DOMAIN MonthDays
    <2> HIDE DEF L
    <2>1. n % L \in 0..(L - 1)  BY <1>2
    <2> QED  BY <1>2, <2>1
  <1> HIDE DEF at, L
  <1>4. \A n \in Nat : Length(n) = MonthDays[at(n)]  BY DEF Length, at, L
  <1>5. \A n \in Nat : MonthDays[at(n)] \in Nat \ {0}  BY <1>1, <1>3
  <1>6. \A i, j, k \in DOMAIN MonthDays : MonthDays[i] <= MonthDays[j] + MonthDays[k]
    BY MaintenanceAssumption
  <1> QED  BY <1>3, <1>4, <1>5, <1>6

(* The recursive function exists: it is the sum of the lengths.            *)
LEMMA FirstDayEquation ==
  FirstDay = [m \in Nat |-> IF m = 0 THEN 0 ELSE FirstDay[m - 1] + Length(m - 1)]
  <1> DEFINE len == [m \in Nat |-> IF m = 0 THEN 0 ELSE Length(m - 1)]
             f == [m \in Nat |-> SumFunctionOnSet(len, 1..m)]
             Eq(g) == g = [m \in Nat |-> IF m = 0 THEN 0 ELSE g[m - 1] + Length(m - 1)]
  <1>1. \A m \in Nat : len[m] \in Int
    <2> TAKE m \in Nat
    <2>1. CASE m = 0  BY <2>1
    <2>2. CASE m # 0
      <3>1. m - 1 \in Nat  BY <2>2
      <3>2. Length(m - 1) \in Nat \ {0}  BY <3>1, LengthType
      <3> QED  BY <2>2, <3>2
    <2> QED  BY <2>1, <2>2
  <1>2. ASSUME NEW m \in Nat \ {0}
        PROVE  f[m] = f[m - 1] + Length(m - 1)
    <2>1. IsFiniteSet(1..m) /\ m \in 1..m /\ (1..m) \ {m} = 1..(m - 1) /\ m - 1 \in Nat
      BY FS_Interval
    <2>2. \A x \in 1..m : len[x] \in Int  BY <1>1
    <2>3. len[m] = Length(m - 1)  OBVIOUS
    <2>4. Length(m - 1) \in Int  BY <2>1, LengthType
    <2> HIDE DEF len
    <2>5. /\ SumFunctionOnSet(len, 1..m) = len[m] + SumFunctionOnSet(len, 1..(m - 1))
          /\ SumFunctionOnSet(len, 1..(m - 1)) \in Int
      <3> DEFINE S == 1..m
      <3>1. IsFiniteSet(S) /\ m \in S /\ S \ {m} = 1..(m - 1) /\ \A x \in S : len[x] \in Int
        BY <2>1, <2>2
      <3> HIDE DEF S
      <3>2. /\ SumFunctionOnSet(len, S) = len[m] + SumFunctionOnSet(len, S \ {m})
            /\ SumFunctionOnSet(len, S \ {m}) \in Int
        BY <3>1, SumWithout
      <3> QED  BY <3>1, <3>2 DEF S
    <2> QED  BY <2>1, <2>3, <2>4, <2>5
  <1>3. f[0] = 0
    <2>1. IsFiniteSet(1..0) /\ \A x \in 1..0 : len[x] = 0  BY FS_Interval
    <2> HIDE DEF len
    <2> QED  BY <2>1, SumZero
  <1>4. Eq(f)
    <2> HIDE DEF len
    <2>1. \A m \in Nat : f[m] = IF m = 0 THEN 0 ELSE f[m - 1] + Length(m - 1)
      BY <1>2, <1>3
    <2> QED  BY <2>1
  <1>5. FirstDay = CHOOSE g : g = [m \in Nat |-> IF m = 0 THEN 0
                                     ELSE g[m - 1] + MonthDays[1 + ((m - 1) % Len(MonthDays))]]
    BY DEF FirstDay
  <1>6. FirstDay = CHOOSE g : Eq(g)  BY <1>5 DEF Length
  <1> HIDE DEF f, Eq
  <1>7. Eq(FirstDay)  BY <1>4, <1>6
  <1> QED  BY <1>7 DEF Eq

LEMMA FirstDays ==
  /\ FirstDay[0] = 0
  /\ \A m \in Nat : FirstDay[m] \in Nat /\ FirstDay[m + 1] = FirstDay[m] + Length(m)
  <1>1. FirstDay[0] = 0  BY FirstDayEquation
  <1>2. \A m \in Nat : FirstDay[m + 1] = FirstDay[m] + Length(m)
    <2> TAKE m \in Nat
    <2>1. m + 1 \in Nat /\ m + 1 # 0 /\ (m + 1) - 1 = m  OBVIOUS
    <2> QED  BY <2>1, FirstDayEquation
  <1> DEFINE Bad == {m \in Nat : FirstDay[m] \notin Nat}
  <1>3. ASSUME Bad # {}  PROVE FALSE
    <2>1. PICK n \in Bad : \A m \in Bad : n <= m  BY <1>3, NatLeast
    <2>2. n # 0  BY <1>1, <2>1
    <2>3. n - 1 \in Nat /\ n - 1 \notin Bad /\ (n - 1) + 1 = n  BY <2>1, <2>2
    <2>4. FirstDay[n - 1] \in Nat /\ Length(n - 1) \in Nat  BY <2>3, LengthType
    <2>5. FirstDay[n] = FirstDay[n - 1] + Length(n - 1)  BY <1>2, <2>3
    <2> QED  BY <2>1, <2>4, <2>5
  <1> QED  BY <1>1, <1>2, <1>3

LEMMA FirstDayGrows ==
  ASSUME NEW m \in Nat
  PROVE  /\ \A n \in Nat : n >= m => FirstDay[n] >= FirstDay[m]
         /\ FirstDay[m] >= m
  <1>1. \A k \in Nat : /\ FirstDay[k] \in Nat /\ Length(k) \in Nat \ {0}
                       /\ FirstDay[k + 1] = FirstDay[k] + Length(k)
    BY FirstDays, LengthType
  <1> DEFINE Low == {n \in Nat : n >= m /\ ~(FirstDay[n] >= FirstDay[m])}
             Few == {n \in Nat : ~(FirstDay[n] >= n)}
  <1>2. ASSUME Low # {}  PROVE FALSE
    <2>1. PICK n \in Low : \A k \in Low : n <= k  BY <1>2, NatLeast
    <2>2. n # m  BY <1>1, <2>1
    <2>3. n - 1 \in Nat /\ n - 1 >= m /\ n - 1 \notin Low /\ (n - 1) + 1 = n
      BY <2>1, <2>2
    <2>4. FirstDay[n - 1] >= FirstDay[m]  BY <2>3
    <2>5. FirstDay[n] = FirstDay[n - 1] + Length(n - 1)  BY <1>1, <2>3
    <2>6. FirstDay[n - 1] \in Nat /\ Length(n - 1) \in Nat /\ FirstDay[m] \in Nat
      BY <1>1, <2>3
    <2>7. FirstDay[n] >= FirstDay[m]  BY <2>4, <2>5, <2>6
    <2> QED  BY <2>1, <2>7
  <1>3. ASSUME Few # {}  PROVE FALSE
    <2>1. PICK n \in Few : \A k \in Few : n <= k  BY <1>3, NatLeast
    <2>2. n # 0  BY <2>1, FirstDays
    <2>3. n - 1 \in Nat /\ n - 1 \notin Few /\ (n - 1) + 1 = n
      BY <2>1, <2>2
    <2>4. FirstDay[n - 1] >= n - 1  BY <2>3
    <2>5. FirstDay[n] = FirstDay[n - 1] + Length(n - 1)  BY <1>1, <2>3
    <2>6. FirstDay[n - 1] \in Nat /\ Length(n - 1) \in Nat \ {0}  BY <1>1, <2>3
    <2>7. FirstDay[n] >= n  BY <2>3, <2>4, <2>5, <2>6
    <2> QED  BY <2>1, <2>7
  <1> QED  BY <1>2, <1>3

(* Every day is in one month.                                              *)
In(d, m) == FirstDay[m] <= d /\ d < FirstDay[m + 1]

LEMMA MonthExists ==
  ASSUME NEW d \in Nat
  PROVE  \E m \in 0..d : In(d, m)
  <1> DEFINE T == {m \in Nat : d < FirstDay[m + 1]}
  <1>1. d \in T
    <2>1. d + 1 \in Nat  OBVIOUS
    <2>2. FirstDay[d + 1] >= d + 1 /\ FirstDay[d + 1] \in Nat
      BY <2>1, FirstDayGrows, FirstDays
    <2> QED  BY <2>2
  <1>2. PICK m \in T : \A k \in T : m <= k  BY <1>1, NatLeast
  <1>3. m \in 0..d  BY <1>1, <1>2
  <1>4. FirstDay[m] <= d
    <2>1. CASE m = 0  BY <2>1, FirstDays
    <2>2. CASE m # 0
      <3>1. m - 1 \in Nat /\ m - 1 \notin T /\ (m - 1) + 1 = m  BY <1>2, <2>2
      <3>2. ~(d < FirstDay[m])  BY <3>1
      <3>3. FirstDay[m] \in Nat  BY <1>2, FirstDays
      <3> QED  BY <3>2, <3>3
    <2> QED  BY <2>1, <2>2
  <1> QED  BY <1>2, <1>3, <1>4 DEF In

LEMMA MonthUnique ==
  ASSUME NEW d \in Nat, NEW m \in Nat, NEW n \in Nat, In(d, m), In(d, n)
  PROVE  m = n
  <1>1. m + 1 \in Nat /\ n + 1 \in Nat  OBVIOUS
  <1>2. /\ FirstDay[m] \in Nat /\ FirstDay[n] \in Nat
        /\ FirstDay[m + 1] \in Nat /\ FirstDay[n + 1] \in Nat
    BY <1>1, FirstDays
  <1>3. CASE m < n
    <2>1. FirstDay[n] >= FirstDay[m + 1]  BY <1>1, <1>3, FirstDayGrows
    <2> QED  BY <1>2, <2>1 DEF In
  <1>4. CASE n < m
    <2>1. FirstDay[m] >= FirstDay[n + 1]  BY <1>1, <1>4, FirstDayGrows
    <2> QED  BY <1>2, <2>1 DEF In
  <1> QED  BY <1>3, <1>4

LEMMA MonthIn ==
  ASSUME NEW d \in Nat
  PROVE  /\ MonthOf(d) \in Nat /\ In(d, MonthOf(d))
         /\ \A m \in Nat : In(d, m) => MonthOf(d) = m
  <1>1. MonthOf(d) \in 0..d /\ In(d, MonthOf(d))  BY MonthExists DEF MonthOf, In
  <1>2. MonthOf(d) \in Nat  BY <1>1
  <1> QED  BY <1>1, <1>2, MonthUnique

(* addMonthsDateOnly: the day of that number, or as many days later as the *)
(* month aimed at is too short; no month is short enough to lack it then.  *)
LEMMA AddMonthsBehind ==
  ASSUME NEW d \in Nat, NEW n \in Nat \ {0}
  PROVE  LET e == AddMonths(d, n)
         IN  /\ e \in Nat /\ e > d
             /\ Behind(d, e, n)
             /\ Short(d) => MonthOf(e) = MonthOf(d) + n /\ Short(e)
  <1> DEFINE m == MonthOf(d)
             a == m + n
             off == d - FirstDay[m]
             e == AddMonths(d, n)
  <1>1. m \in Nat /\ In(d, m)  BY MonthIn
  <1> HIDE DEF m
  <1>2. a \in Nat /\ a + 1 \in Nat /\ a + 2 \in Nat /\ m + 1 \in Nat /\ a >= m + 1
        /\ (a + 1) + 1 = a + 2
    BY <1>1
  <1>3. /\ FirstDay[m] \in Nat /\ FirstDay[m + 1] \in Nat /\ FirstDay[a] \in Nat
        /\ FirstDay[a + 1] \in Nat /\ FirstDay[a + 2] \in Nat
    BY <1>1, <1>2, FirstDays
  <1>4. /\ FirstDay[m + 1] = FirstDay[m] + Length(m)
        /\ FirstDay[a + 1] = FirstDay[a] + Length(a)
        /\ FirstDay[a + 2] = FirstDay[a + 1] + Length(a + 1)
    BY <1>1, <1>2, FirstDays
  <1>5. FirstDay[a] >= FirstDay[m + 1]  BY <1>2, FirstDayGrows
  <1>6. /\ Length(m) \in Nat /\ Length(a) \in Nat /\ Length(a + 1) \in Nat
        /\ Length(m) <= Length(a) + Length(a + 1)
    BY <1>1, <1>2, LengthType
  <1>7. e = FirstDay[a] + off  BY DEF AddMonths, m
  <1>8. off \in Nat /\ off < Length(m)  BY <1>1, <1>3, <1>4, <1>6 DEF In
  <1> HIDE DEF e, off
  <1>9. e \in Nat /\ e > d  BY <1>1, <1>3, <1>5, <1>7, <1>8 DEF In
  <1>10. CASE off < Length(a)
    <2>1. In(e, a)  BY <1>3, <1>4, <1>6, <1>7, <1>8, <1>10 DEF In
    <2>2. MonthOf(e) = a  BY <1>2, <1>9, <2>1, MonthIn
    <2>3. e - FirstDay[MonthOf(e)] = off  BY <1>3, <1>7, <1>8, <2>2
    <2>4. Short(d) => \A k \in Nat : off < Length(k)  BY DEF Short, off, m
    <2>5. Short(d) => Short(e)  BY <2>3, <2>4 DEF Short
    <2> QED  BY <1>9, <2>2, <2>5 DEF Behind, e, m
  <1>11. CASE ~(off < Length(a))
    <2>1. In(e, a + 1)
      BY <1>2, <1>3, <1>4, <1>6, <1>7, <1>8, <1>9, <1>11 DEF In
    <2>2. MonthOf(e) = a + 1  BY <1>2, <1>9, <2>1, MonthIn
    <2>3. ~Short(d)  BY <1>2, <1>11 DEF Short, off, m
    <2>4. Short(e)
      <3> SUFFICES ASSUME NEW k \in Nat  PROVE e - FirstDay[MonthOf(e)] < Length(k)
        BY DEF Short
      <3>1. Length(k) \in Nat /\ Length(m) <= Length(a) + Length(k)
        BY <1>1, <1>2, LengthType
      <3> QED  BY <1>3, <1>4, <1>6, <1>7, <1>8, <2>2, <3>1
    <2> QED  BY <1>1, <1>9, <2>2, <2>3, <2>4 DEF Behind, e, m
  <1> QED  BY <1>10, <1>11

(* A contract that has fallen a month behind does not fall behind again.   *)
LEMMA BehindOnce ==
  ASSUME NEW d \in Nat, NEW e \in Nat, NEW n \in Nat, NEW k \in Nat \ {0},
         Behind(d, e, n)
  PROVE  Behind(d, AddMonths(e, k), n + k)
  <1> DEFINE f == AddMonths(e, k)
  <1>1. Behind(e, f, k) /\ (Short(e) => MonthOf(f) = MonthOf(e) + k /\ Short(f))
    BY AddMonthsBehind
  <1>2. MonthOf(d) \in Nat  BY MonthIn
  <1> HIDE DEF f
  <1>3. CASE MonthOf(e) = MonthOf(d) + n
    BY <1>1, <1>2, <1>3 DEF Behind, f
  <1>4. CASE MonthOf(e) = MonthOf(d) + n + 1 /\ Short(e)
    BY <1>1, <1>2, <1>4 DEF Behind, f
  <1> QED  BY <1>3, <1>4 DEF Behind

-----------------------------------------------------------------------------
(* The records that the steps write.                                       *)

(* A save writes what was changed since the contract was read.             *)
LEMMA MergedFacts ==
  ASSUME NEW now \in Contract, NEW read \in Contract, NEW to \in Contract
  PROVE  LET m == Merged(now, read, to)
         IN  /\ m \in Contract
             /\ m.version = now.version /\ m.visits = now.visits
             /\ m.due = IF to.due = read.due THEN now.due ELSE to.due
             /\ m.every = IF to.every = read.every THEN now.every ELSE to.every
             /\ m.reminded = IF to.reminded = read.reminded THEN now.reminded ELSE to.reminded
             /\ m.live = IF to.live = read.live THEN now.live ELSE to.live
  <1> DEFINE Put(s, m, u, e, v, n, p, r, l) ==
               [now EXCEPT !.status = s, !.mode = m, !.due = u, !.ends = e, !.every = v,
                           !.notice = n, !.pending = p, !.reminded = r, !.live = l]
  <1>1. ASSUME NEW s \in Statuses, NEW m \in Modes, NEW u \in Nat, NEW e \in Day,
               NEW v \in Recurrences, NEW n \in Notices, NEW p \in BOOLEAN, NEW r \in Day,
               NEW l \in BOOLEAN
        PROVE  LET d == Put(s, m, u, e, v, n, p, r, l)
               IN  /\ d \in Contract
                   /\ d.version = now.version /\ d.visits = now.visits
                   /\ d.due = u /\ d.every = v /\ d.reminded = r
    BY DEF Contract
  <1>2. ASSUME NEW s, NEW m, NEW u, NEW e, NEW v, NEW n, NEW p \in BOOLEAN, NEW r,
               NEW l \in BOOLEAN
        PROVE  Put(s, m, u, e, v, n, p, r, l).live = l
    BY DEF Contract
  <1> DEFINE s == IF to.status = read.status THEN now.status ELSE to.status
             m == IF to.mode = read.mode THEN now.mode ELSE to.mode
             u == IF to.due = read.due THEN now.due ELSE to.due
             e == IF to.ends = read.ends THEN now.ends ELSE to.ends
             v == IF to.every = read.every THEN now.every ELSE to.every
             n == IF to.notice = read.notice THEN now.notice ELSE to.notice
             p == IF to.pending = read.pending THEN now.pending ELSE to.pending
             r == IF to.reminded = read.reminded THEN now.reminded ELSE to.reminded
             l == IF to.live = read.live THEN now.live ELSE to.live
  <1>3. Merged(now, read, to) = Put(s, m, u, e, v, n, p, r, l)  BY DEF Merged
  <1>4. /\ s \in Statuses /\ m \in Modes /\ u \in Nat /\ e \in Day
        /\ v \in Recurrences /\ n \in Notices /\ r \in Day
    BY DEF Contract
  <1>5. p \in BOOLEAN /\ l \in BOOLEAN  BY DEF Contract
  <1> HIDE DEF Put, s, m, u, e, v, n, p, r, l
  <1>6. LET d == Merged(now, read, to)
        IN  /\ d \in Contract
            /\ d.version = now.version /\ d.visits = now.visits
            /\ d.due = u /\ d.every = v /\ d.reminded = r
    BY <1>1, <1>3, <1>4, <1>5
  <1>7. Merged(now, read, to).live = l  BY <1>2, <1>3, <1>5
  <1> QED  BY <1>6, <1>7 DEF u, v, r, l

(* The contract after a visit.                                             *)
LEMMA AdvancedFacts ==
  ASSUME NEW d \in Contract
  PROVE  LET a == Advanced(d)
         IN  /\ a \in Contract
             /\ a.due = AddMonths(d.due, d.every) /\ a.every = d.every
             /\ a.reminded = None /\ a.live = d.live
  <1> DEFINE next == AddMonths(d.due, d.every)
             s == IF d.ends # None /\ next > d.ends THEN "ended" ELSE d.status
  <1>1. next \in Nat
    <2>1. d.due \in Nat /\ d.every \in Nat \ {0}  BY MaintenanceAssumption DEF Contract
    <2> QED  BY <2>1, AddMonthsBehind
  <1>2. s \in Statuses  BY DEF Contract, Statuses
  <1>3. Advanced(d) = [d EXCEPT !.status = s, !.due = next, !.pending = FALSE,
                                !.reminded = None]
    BY DEF Advanced
  <1> HIDE DEF next, s
  <1>4. None \in Day  BY DEF Day
  <1>5. /\ Advanced(d) \in Contract
        /\ Advanced(d).due = next /\ Advanced(d).every = d.every
        /\ Advanced(d).reminded = None
    BY <1>1, <1>2, <1>3, <1>4 DEF Contract
  <1>6. Advanced(d).live = d.live  BY <1>3 DEF Contract
  <1> QED  BY <1>5, <1>6 DEF next

LEMMA EndedFacts ==
  ASSUME NEW d \in Contract
  PROVE  /\ Ended(d) \in Contract
         /\ Ended(d).due = d.due /\ Ended(d).every = d.every
         /\ Ended(d).reminded = d.reminded /\ Ended(d).live = d.live
  BY DEF Ended, Contract, Statuses

LEMMA PendingFacts ==
  ASSUME NEW d \in Contract
  PROVE  LET e == [d EXCEPT !.pending = TRUE]
         IN  /\ e \in Contract /\ e.due = d.due /\ e.every = d.every
             /\ e.reminded = d.reminded /\ e.live = d.live
  BY DEF Contract

LEMMA RemovedFacts ==
  ASSUME NEW d \in Contract
  PROVE  LET e == [d EXCEPT !.live = FALSE]
         IN  /\ e \in Contract /\ e.due = d.due /\ e.every = d.every
             /\ e.reminded = d.reminded /\ ~e.live
  BY DEF Contract

LEMMA MarkedFacts ==
  ASSUME NEW d \in Contract
  PROVE  LET e == [d EXCEPT !.reminded = d.due, !.pending = TRUE]
         IN  /\ e \in Contract /\ e.due = d.due /\ e.every = d.every
             /\ e.reminded = d.due /\ e.live = d.live
  <1>1. d.due \in Day  BY DEF Contract, Day
  <1> QED  BY <1>1 DEF Contract

LEMMA EditsFacts ==
  ASSUME NEW d \in Contract, NEW to \in Edits(d)
  PROVE  /\ to \in Contract /\ to.live = d.live
         /\ to.reminded \in {None, d.reminded}
  <1>1. None \in Day /\ Dates \subseteq Nat /\ Ends \subseteq Day /\ Chosen \subseteq Statuses
    BY MaintenanceAssumption DEF Day, Statuses
  <1>2. CASE \E x \in Dates : to = [d EXCEPT !.due = x, !.reminded = None]
    BY <1>1, <1>2 DEF Contract
  <1>3. CASE \E x \in Chosen : to = [d EXCEPT !.status = x]  BY <1>1, <1>3 DEF Contract
  <1>4. CASE \E x \in Modes : to = [d EXCEPT !.mode = x]  BY <1>4 DEF Contract
  <1>5. CASE \E x \in Ends : to = [d EXCEPT !.ends = x]  BY <1>1, <1>5 DEF Contract
  <1>6. CASE \E x \in Recurrences : to = [d EXCEPT !.every = x]  BY <1>6 DEF Contract
  <1>7. CASE \E x \in Notices : to = [d EXCEPT !.notice = x]  BY <1>7 DEF Contract
  <1> QED  BY <1>2, <1>3, <1>4, <1>5, <1>6, <1>7 DEF Edits

-----------------------------------------------------------------------------
(* Types.                                                                  *)

LEMMA Types ==
  ASSUME TypeInv
  PROVE  /\ contract \in [Contracts -> Contract]
         /\ cases \in Seq(File)
         /\ pc \in [Processes -> Awaits \cup {"idle"}]
         /\ op \in [Processes -> Op]
         /\ round \in [Jobs -> Round]
         /\ notices \in [Contracts -> Seq(Nat)]
         /\ Jobs \subseteq Processes /\ Requests \subseteq Processes
         /\ Notifiers \subseteq Jobs /\ Worker \in Jobs
         /\ Worker \notin Notifiers /\ Requests \cap Jobs = {}
  BY MaintenanceAssumption DEF TypeInv, TypeOK, File, Op, Round, Processes, Jobs

LEMMA NoOpType ==
  ASSUME TypeInv
  PROVE  NoOp \in Op /\ NoOp.contract = None
  BY DEF TypeInv, NoOp, Op

(* The cases only grow, and a planned one stays so.                        *)
CasesKept ==
  /\ cases' \in Seq(File)
  /\ \A i \in DOMAIN cases : /\ i \in DOMAIN cases'
                             /\ cases'[i].contract = cases[i].contract
                             /\ cases'[i].due = cases[i].due
                             /\ cases[i].planned => cases'[i].planned

(* One process goes on.                                                    *)
Turn(p, at, o) == pc' = [pc EXCEPT ![p] = at] /\ op' = [op EXCEPT ![p] = o]

Procs == /\ pc \in [Processes -> Awaits \cup {"idle"}] /\ op \in [Processes -> Op]
         /\ \A p \in Processes : Shape(p)

LEMMA TurnFacts ==
  ASSUME TypeInv, NEW p \in Processes, NEW at, NEW o, Turn(p, at, o)
  PROVE  /\ pc'[p] = at /\ op'[p] = o
         /\ \A q \in Processes : q # p => pc'[q] = pc[q] /\ op'[q] = op[q]
  BY Types DEF Turn

LEMMA TurnType ==
  ASSUME TypeInv, CasesKept, NEW p \in Processes, NEW at \in Awaits \cup {"idle"}, NEW o \in Op,
         Turn(p, at, o), Fits(at, o, cases')
  PROVE  Procs'
  <1>1. /\ pc'[p] = at /\ op'[p] = o
        /\ \A q \in Processes : q # p => pc'[q] = pc[q] /\ op'[q] = op[q]
    BY TurnFacts
  <1>2. pc' \in [Processes -> Awaits \cup {"idle"}] /\ op' \in [Processes -> Op]
    BY Types DEF Turn
  <1>3. \A q \in Processes : q # p => Shape(q)'
    BY <1>1 DEF Shape, Fits, CasesKept, TypeInv
  <1>4. Shape(p)'  BY <1>1 DEF Shape
  <1> QED  BY <1>2, <1>3, <1>4 DEF Procs

LEMMA SameCases ==
  ASSUME TypeInv, UNCHANGED cases
  PROVE  CasesKept
  BY Types DEF CasesKept

LEMMA WorkingTurn ==
  ASSUME NEW p, NEW at, NEW c, NEW read, NEW to, Working(p, at, c, read, to)
  PROVE  Turn(p, at, [contract |-> c, read |-> read, to |-> to, visit |-> 0])
  BY DEF Working, Turn

LEMMA WorkingType ==
  ASSUME TypeInv, UNCHANGED cases, NEW p \in Processes,
         NEW at \in {"save", "close", "open", "mark"},
         NEW c \in Contracts, NEW read \in Contract, NEW to \in Contract,
         Working(p, at, c, read, to)
  PROVE  Procs'
  <1> DEFINE o == [contract |-> c, read |-> read, to |-> to, visit |-> 0]
  <1>1. o \in Op /\ o.contract = c  BY DEF Op
  <1>2. Turn(p, at, o)  BY DEF Working, Turn
  <1> HIDE DEF o
  <1>3. at \in Awaits \cup {"idle"}  BY DEF Awaits
  <1>4. Fits(at, o, cases')  BY <1>1 DEF Fits
  <1>5. CasesKept  BY SameCases
  <1> QED  BY <1>1, <1>2, <1>3, <1>4, <1>5, TurnType

LEMMA DoneTurn ==
  ASSUME NEW p \in Processes, Done(p)
  PROVE  Turn(p, Resume(p), NoOp) /\ Resume(p) \in {"idle", "round", "notify"}
  BY DEF Done, Turn, Resume

LEMMA DoneType ==
  ASSUME TypeInv, UNCHANGED cases, NEW p \in Processes, Done(p)
  PROVE  Procs'
  <1>1. Turn(p, Resume(p), NoOp) /\ Resume(p) \in {"idle", "round", "notify"}  BY DoneTurn
  <1>2. Resume(p) \in Awaits \cup {"idle"}  BY <1>1 DEF Awaits
  <1>3. Fits(Resume(p), NoOp, cases')  BY <1>1 DEF Fits, Held
  <1> QED  BY <1>1, <1>2, <1>3, TurnType, SameCases, NoOpType

(* A process that moves without working on a contract.                     *)
LEMMA WalkType ==
  ASSUME TypeInv, UNCHANGED cases, NEW p \in Processes,
         NEW at \in {"idle", "search", "round", "sift", "notify"},
         pc' = [pc EXCEPT ![p] = at], op' = op \/ op' = [op EXCEPT ![p] = NoOp]
  PROVE  Procs'
  <1>1. op' = [op EXCEPT ![p] = op[p]] \/ op' = [op EXCEPT ![p] = NoOp]  BY Types
  <1>2. PICK o \in {op[p], NoOp} : Turn(p, at, o)  BY <1>1 DEF Turn
  <1>3. o \in Op  BY Types, NoOpType
  <1>4. at \in Awaits \cup {"idle"}  BY DEF Awaits
  <1>5. Fits(at, o, cases')  BY DEF Fits, Held
  <1> QED  BY <1>2, <1>3, <1>4, <1>5, TurnType, SameCases

LEMMA StayType ==
  ASSUME TypeInv, UNCHANGED <<cases, pc, op>>
  PROVE  Procs'
  BY Types DEF Procs, Shape, TypeInv

LEMMA SaveType ==
  ASSUME TypeInv, NEW c, NEW read \in Contract, NEW to \in Contract, Save(c, read, to)
  PROVE  contract' \in [Contracts -> Contract]
  <1>1. CASE c \in Contracts
    <2>1. Merged(contract[c], read, to) \in Contract  BY <1>1, Types, MergedFacts
    <2> QED  BY <2>1, Types DEF Save
  <1>2. CASE c \notin Contracts
    BY <1>2, Types DEF Save
  <1> QED  BY <1>1, <1>2

(* The steps, one action at a time.                                        *)
RequestStep(r, c) ==
  UpdateRead(r, c) \/ RemoveRead(r, c) \/ \E force \in BOOLEAN : Generate(r, c, force)

ProcessStep(p) ==
  \/ SaveContract(p) \/ CloseContract(p) \/ OpenCase(p) \/ PlanIntervention(p)
  \/ RecordVisit(p) \/ Fail(p)

NoticeStep(n) ==
  \/ SearchReminders(n) \/ EndQueue(n) \/ MarkRead(n) \/ EndReminders(n)
  \/ \E c \in Contracts : QueueReminder(n, c) \/ Remind(n, c)

Alike == StartRound \/ SearchDue \/ EndRound \/ FailToStart \/ NewDay

LEMMA Actions ==
  ASSUME TypeInv, Next
  PROVE  \/ \E r \in Requests, c \in Contracts : RequestStep(r, c)
         \/ \E p \in Processes : ProcessStep(p)
         \/ \E c \in Contracts : ProcessContract(c)
         \/ \E n \in Notifiers : NoticeStep(n)
         \/ \E j \in Jobs : Restart(j)
         \/ Alike
  <1>1. ASSUME NEW p \in Processes, Visit(p) \/ SaveContract(p) \/ Fail(p)
        PROVE  ProcessStep(p)
    BY <1>1 DEF Visit, ProcessStep
  <1>2. ASSUME NEW r \in Requests, Call(r)
        PROVE  \E c \in Contracts : RequestStep(r, c)
    BY <1>2 DEF Call, RequestStep
  <1>3. ASSUME WorkerStep
        PROVE  \/ Alike \/ \E c \in Contracts : ProcessContract(c)
               \/ \E p \in Processes : ProcessStep(p)
    BY <1>1, <1>3, Types DEF WorkerStep, Alike
  <1>4. ASSUME NEW n \in Notifiers, NotifierStep(n)
        PROVE  NoticeStep(n) \/ ProcessStep(n)
    BY <1>4 DEF NotifierStep, NoticeStep, ProcessStep
  <1>5. FailToStart \/ NewDay => Alike  BY DEF Alike
  <1> QED  BY <1>1, <1>2, <1>3, <1>4, <1>5, Types DEF Next

DocsType == contract \in [Contracts -> Contract] /\ cases \in Seq(File)
RoundType == round \in [Jobs -> Round]
CountType == /\ today \in 0..MaxDay /\ notices \in [Contracts -> Seq(Nat)]
             /\ moved \subseteq Contracts /\ {calls, faults, conflicts} \subseteq Nat
FlagType == running \in BOOLEAN /\ overlapped \in BOOLEAN

LEMMA TypeParts ==
  TypeInv <=> Blank \in Contract /\ DocsType /\ Procs /\ RoundType /\ CountType /\ FlagType
  BY DEF TypeInv, TypeOK, DocsType, Procs, RoundType, CountType, FlagType, File, Op, Round

LEMMA RequestType ==
  ASSUME TypeInv, NEW r \in Requests, NEW c \in Contracts, RequestStep(r, c)
  PROVE  DocsType' /\ Procs' /\ RoundType' /\ CountType' /\ FlagType'
  <1>1. Called(r) /\ moved' \in {moved, moved \cup {c}}
    BY DEF RequestStep, UpdateRead, RemoveRead, Generate
  <1>2. /\ UNCHANGED <<today, contract, cases, round, running, notices, faults, conflicts>>
        /\ calls' = calls + 1 /\ overlapped' = (overlapped \/ ~Quiet)
    BY <1>1 DEF Called, Enters
  <1>3. DocsType' /\ RoundType' /\ FlagType'
    BY <1>2, TypeParts DEF DocsType, RoundType, FlagType
  <1>4. CountType'  BY <1>1, <1>2, TypeParts DEF CountType
  <1>5. r \in Processes /\ contract[c] \in Contract  BY Types
  <1>6. PICK at \in {"save", "close", "open"}, to \in Contract :
          Working(r, at, c, contract[c], to)
    <2>1. CASE UpdateRead(r, c)  BY <1>5, <2>1, EditsFacts DEF UpdateRead
    <2>2. CASE RemoveRead(r, c)  BY <1>5, <2>2, RemovedFacts DEF RemoveRead
    <2>3. CASE \E force \in BOOLEAN : Generate(r, c, force)
      BY <1>5, <2>3, EndedFacts DEF Generate, PlanRead
    <2> QED  BY <2>1, <2>2, <2>3 DEF RequestStep
  <1>7. Procs'  BY <1>2, <1>5, <1>6, WorkingType
  <1> QED  BY <1>3, <1>4, <1>7

LEMMA ProcessType ==
  ASSUME TypeInv, NEW p \in Processes, ProcessStep(p)
  PROVE  DocsType' /\ Procs' /\ RoundType' /\ CountType' /\ FlagType'
  <1>1. UNCHANGED <<today, round, running, notices, moved, calls, overlapped>>
    BY DEF ProcessStep, SaveContract, CloseContract, OpenCase, PlanIntervention, RecordVisit,
       Fail, history
  <1>2. faults' \in {faults, faults + 1} /\ conflicts' \in {conflicts, conflicts + 1}
    BY DEF ProcessStep, SaveContract, CloseContract, OpenCase, PlanIntervention, RecordVisit,
       Fail, history
  <1>3. RoundType' /\ FlagType'  BY <1>1, TypeParts DEF RoundType, FlagType
  <1>4. CountType'  BY <1>1, <1>2, TypeParts DEF CountType
  <1>5. op[p] \in Op /\ op[p].read \in Contract /\ op[p].to \in Contract
    BY Types DEF Op
  <1>6. Fits(pc[p], op[p], cases)  BY DEF TypeInv, Shape
  <1>7. CASE SaveContract(p) \/ CloseContract(p)
    <2>1. Save(op[p].contract, op[p].read, op[p].to) /\ Done(p) /\ UNCHANGED cases
      BY <1>7 DEF SaveContract, CloseContract
    <2>2. contract' \in [Contracts -> Contract]  BY <1>5, <2>1, SaveType
    <2> QED  BY <1>3, <1>4, <2>1, <2>2, DoneType, Types DEF DocsType
  <1>8. CASE OpenCase(p)
    <2> DEFINE e == [contract |-> op[p].contract, due |-> op[p].read.due, planned |-> FALSE]
               o == [op[p] EXCEPT !.visit = Len(cases')]
    <2>1. op[p].contract \in Contracts  BY <1>6, <1>8 DEF OpenCase, Fits, Held
    <2>2. e \in File  BY <1>5, <2>1 DEF File, Contract
    <2>3. cases' = Append(cases, e) /\ UNCHANGED contract  BY <1>8 DEF OpenCase
    <2>4. e.contract = op[p].contract /\ e.due = op[p].read.due  OBVIOUS
    <2> HIDE DEF e
    <2>5. /\ cases' \in Seq(File) /\ Len(cases') = Len(cases) + 1
          /\ DOMAIN cases' = DOMAIN cases \cup {Len(cases')} /\ cases'[Len(cases')] = e
          /\ \A j \in DOMAIN cases : cases'[j] = cases[j]
      BY <2>2, <2>3, Types, SeqAdd
    <2>6. CasesKept  BY <2>5 DEF CasesKept
    <2>7. Len(cases') \in Nat  BY <2>5, SeqFacts
    <2>8. /\ o \in Op /\ o.contract = op[p].contract /\ o.read = op[p].read
          /\ o.visit = Len(cases')
      BY <1>5, <2>7 DEF Op
    <2>9. Turn(p, "plan", o)  BY <1>8, Types DEF OpenCase, Turn
    <2> HIDE DEF o
    <2>10. Fits("plan", o, cases')  BY <2>1, <2>4, <2>5, <2>8 DEF Fits
    <2>11. Procs'
      <3>1. "plan" \in Awaits  BY DEF Awaits
      <3> QED  BY <2>6, <2>8, <2>9, <2>10, <3>1, TurnType
    <2> QED  BY <1>3, <1>4, <2>3, <2>5, <2>11, Types DEF DocsType
  <1>9. CASE PlanIntervention(p)
    <2> DEFINE i == op[p].visit
               e == [cases[i] EXCEPT !.planned = TRUE]
    <2>1. i \in DOMAIN cases /\ op[p].contract \in Contracts
          /\ cases[i].contract = op[p].contract /\ cases[i].due = op[p].read.due
      BY <1>6, <1>9 DEF PlanIntervention, Fits, Held
    <2>2. cases[i] \in File  BY <2>1, Types, SeqFacts
    <2>3. e \in File /\ e.contract = cases[i].contract /\ e.due = cases[i].due /\ e.planned
      BY <2>2 DEF File
    <2>4. cases' = [cases EXCEPT ![i] = e] /\ UNCHANGED contract
      BY <1>9 DEF PlanIntervention
    <2> HIDE DEF e, i
    <2>5. /\ cases' \in Seq(File) /\ DOMAIN cases' = DOMAIN cases /\ cases'[i] = e
          /\ \A j \in DOMAIN cases : j # i => cases'[j] = cases[j]
      BY <2>1, <2>3, <2>4, Types, SeqPut
    <2>6. CasesKept  BY <2>3, <2>5 DEF CasesKept
    <2>7. Turn(p, "record", op[p])  BY <1>9, Types DEF PlanIntervention, Turn
    <2>8. Fits("record", op[p], cases')  BY <2>1, <2>3, <2>5 DEF Fits, i
    <2>9. Procs'
      <3>1. "record" \in Awaits  BY DEF Awaits
      <3> QED  BY <1>5, <2>6, <2>7, <2>8, <3>1, TurnType
    <2> QED  BY <1>3, <1>4, <2>4, <2>5, <2>9, Types DEF DocsType
  <1>10. CASE RecordVisit(p)
    <2> DEFINE c == op[p].contract
               d == op[p].read
               m == Merged(contract[c], d, Advanced(d))
               v == <<[visit |-> op[p].visit, due |-> d.due]>> \o d.visits
    <2>1. Done(p) /\ UNCHANGED cases  BY <1>10 DEF RecordVisit
    <2>2. contract' = contract
          \/ contract' = [contract EXCEPT ![c] = [m EXCEPT !.visits = v, !.version = @ + 1]]
      BY <1>10 DEF RecordVisit
    <2>3. c \in Contracts /\ op[p].visit \in DOMAIN cases
      BY <1>6, <1>10 DEF RecordVisit, Fits, Held
    <2>4. m \in Contract
      <3>1. contract[c] \in Contract  BY <2>3, Types
      <3> QED  BY <1>5, <3>1, AdvancedFacts, MergedFacts
    <2>5. v \in Seq(Entry)
      <3>1. op[p].visit \in Nat \ {0}  BY <2>3, Types, SeqFacts
      <3>2. [visit |-> op[p].visit, due |-> d.due] \in Entry
        BY <1>5, <3>1 DEF Entry, Contract
      <3>3. d.visits \in Seq(Entry)  BY <1>5 DEF Contract
      <3> QED  BY <3>2, <3>3, SeqPush
    <2> HIDE DEF m, v, c
    <2>6. [m EXCEPT !.visits = v, !.version = @ + 1] \in Contract
      <3>1. ASSUME NEW k \in Nat  PROVE [m EXCEPT !.visits = v, !.version = k] \in Contract
        BY <2>4, <2>5 DEF Contract
      <3>2. m.version + 1 \in Nat  BY <2>4 DEF Contract
      <3> QED  BY <3>1, <3>2
    <2>7. contract' \in [Contracts -> Contract]  BY <2>2, <2>3, <2>6, Types
    <2> QED  BY <1>3, <1>4, <2>1, <2>7, DoneType, Types DEF DocsType
  <1>11. CASE Fail(p)
    BY <1>3, <1>4, <1>11, DoneType, Types DEF Fail, DocsType
  <1> QED  BY <1>7, <1>8, <1>9, <1>10, <1>11 DEF ProcessStep

(* What is left of a round, and what it has read.                          *)
LEMMA RoundMoves ==
  ASSUME TypeInv, NEW j \in Jobs, NEW left \in SUBSET Contracts
  PROVE  /\ round' = [round EXCEPT ![j].left = left] => RoundType'
         /\ NoRound \in Round
         /\ round' = [round EXCEPT ![j] = NoRound] => RoundType'
         /\ round' = [round EXCEPT ![j] = [left |-> left, read |-> contract, day |-> today]]
              => RoundType'
  <1>1. round[j] \in Round  BY Types
  <1>2. [round[j] EXCEPT !.left = left] \in Round  BY <1>1 DEF Round
  <1>3. NoRound \in Round
    <2>1. 0 \in 0..MaxDay  BY MaintenanceAssumption
    <2> QED  BY <2>1 DEF NoRound, Round, TypeInv
  <1>4. [left |-> left, read |-> contract, day |-> today] \in Round
    BY Types, TypeParts DEF Round, CountType
  <1> QED  BY <1>2, <1>3, <1>4, Types DEF RoundType

LEMMA RoundLeft ==
  ASSUME TypeInv, NEW j \in Jobs
  PROVE  /\ round[j] \in Round /\ round[j].left \subseteq Contracts
         /\ \A c \in Contracts : round[j].read[c] \in Contract
  BY Types DEF Round

LEMMA ProcessContractType ==
  ASSUME TypeInv, NEW c \in Contracts, ProcessContract(c)
  PROVE  DocsType' /\ Procs' /\ RoundType' /\ CountType' /\ FlagType'
  <1> DEFINE d == round[Worker].read[c]
  <1>1. Worker \in Jobs /\ Worker \in Processes /\ d \in Contract /\ contract[c] \in Contract
    BY Types, RoundLeft
  <1>2. /\ UNCHANGED <<today, cases, running, notices, moved, calls, faults, conflicts,
                       overlapped>>
        /\ round' = [round EXCEPT ![Worker].left = @ \ {c}]
    BY DEF ProcessContract, history
  <1>3. CountType' /\ FlagType'  BY <1>2, TypeParts DEF CountType, FlagType
  <1>4. RoundType'
    <2> DEFINE left == round[Worker].left \ {c}
    <2>1. left \in SUBSET Contracts  BY <1>1, RoundLeft
    <2>2. round' = [round EXCEPT ![Worker].left = left]  BY <1>2
    <2> HIDE DEF left
    <2> QED  BY <1>1, <2>1, <2>2, RoundMoves
  <1>5. contract' = contract \/ Save(c, d, Ended(d)) \/ Save(c, d, [d EXCEPT !.pending = TRUE])
    BY DEF ProcessContract
  <1> HIDE DEF d
  <1>6. contract' \in [Contracts -> Contract]
    BY <1>1, <1>5, EndedFacts, PendingFacts, SaveType, Types
  <1>7. Procs'
    <2>1. UNCHANGED <<pc, op>> \/ PlanRead(Worker, c)  BY DEF ProcessContract
    <2>2. CASE PlanRead(Worker, c)
      <3>1. PICK at \in {"close", "open"}, to \in Contract :
              Working(Worker, at, c, contract[c], to)
        BY <1>1, <2>2, EndedFacts DEF PlanRead
      <3> QED  BY <1>1, <1>2, <3>1, WorkingType
    <2> QED  BY <1>2, <2>1, <2>2, StayType
  <1> QED  BY <1>2, <1>3, <1>4, <1>6, <1>7, Types DEF DocsType

LEMMA NoticeType ==
  ASSUME TypeInv, NEW n \in Notifiers, NoticeStep(n)
  PROVE  DocsType' /\ Procs' /\ RoundType' /\ CountType' /\ FlagType'
  <1>1. n \in Jobs /\ n \in Processes  BY Types
  <1>2. /\ UNCHANGED <<today, cases, running, moved, calls, faults, conflicts>>
        /\ overlapped' \in {overlapped, overlapped \/ ~Quiet}
    BY DEF NoticeStep, SearchReminders, EndQueue, MarkRead, EndReminders, QueueReminder,
       Remind, history, Enters
  <1>3. FlagType'
    <2>1. overlapped \in BOOLEAN /\ running \in BOOLEAN  BY TypeParts DEF FlagType
    <2> QED  BY <1>2, <2>1 DEF FlagType
  <1>4. CountType' /\ RoundType'
    <2>1. CASE UNCHANGED notices
      <3>1. CountType'  BY <1>2, <2>1, TypeParts DEF CountType
      <3>2. PICK left \in SUBSET Contracts :
              \/ UNCHANGED round
              \/ round' = [round EXCEPT ![n].left = left]
              \/ round' = [round EXCEPT ![n] = NoRound]
              \/ round' = [round EXCEPT ![n] = [left |-> left, read |-> contract,
                                                day |-> today]]
        <4>1. \A docs, day : Remindable(docs, day) \in SUBSET Contracts  BY DEF Remindable
        <4>2. \A c : round[n].left \ {c} \in SUBSET Contracts  BY <1>1, RoundLeft
        <4> QED
          BY <4>1, <4>2 DEF NoticeStep, SearchReminders, EndQueue, MarkRead, EndReminders,
             QueueReminder, Remind
      <3> QED  BY <1>1, <3>1, <3>2, RoundMoves, TypeParts DEF RoundType
    <2>2. ASSUME NEW c \in Contracts, Remind(n, c)
          PROVE  CountType' /\ RoundType'
      <3>1. notices' \in [Contracts -> Seq(Nat)]
        <4>1. notices[c] \in Seq(Nat) /\ round[n].read[c].due \in Nat
          BY <1>1, Types, RoundLeft DEF Contract
        <4>2. Append(notices[c], round[n].read[c].due) \in Seq(Nat)  BY <4>1
        <4> QED  BY <2>2, <4>2, Types DEF Remind, NotifyMembers
      <3>2. RoundType'
        <4> DEFINE left == round[n].left \ {c}
        <4>1. left \in SUBSET Contracts  BY <1>1, RoundLeft
        <4>2. round' = [round EXCEPT ![n].left = left]  BY <2>2 DEF Remind
        <4> HIDE DEF left
        <4> QED  BY <1>1, <4>1, <4>2, RoundMoves
      <3> QED  BY <1>2, <3>1, <3>2, TypeParts DEF CountType
    <2>3. UNCHANGED notices \/ \E c \in Contracts : Remind(n, c)
      BY DEF NoticeStep, SearchReminders, EndQueue, MarkRead, EndReminders, QueueReminder,
         history
    <2> QED  BY <2>1, <2>2, <2>3
  <1>5. DocsType'
    <2>1. CASE UNCHANGED contract  BY <1>2, <2>1, Types DEF DocsType
    <2>2. ASSUME NEW c \in Contracts, QueueReminder(n, c)
          PROVE  DocsType'
      <3> DEFINE d == round[n].read[c]
      <3>1. Save(c, d, [d EXCEPT !.pending = TRUE]) /\ d \in Contract
        BY <1>1, <2>2, RoundLeft DEF QueueReminder
      <3> HIDE DEF d
      <3> QED  BY <1>2, <3>1, PendingFacts, SaveType, Types DEF DocsType
    <2>3. UNCHANGED contract \/ \E c \in Contracts : QueueReminder(n, c)
      BY DEF NoticeStep, SearchReminders, EndQueue, MarkRead, EndReminders, Remind
    <2> QED  BY <2>1, <2>2, <2>3
  <1>6. Procs'
    <2>1. CASE MarkRead(n)
      <3> DEFINE c == op[n].contract
                 d == contract[c]
      <3>1. c \in Contracts  BY <1>1, <2>1 DEF MarkRead, TypeInv, Shape, Fits, Held
      <3>2. d \in Contract  BY <3>1, Types
      <3>3. Working(n, "save", c, d, [d EXCEPT !.reminded = d.due, !.pending = TRUE]) \/ Done(n)
        BY <2>1 DEF MarkRead
      <3> HIDE DEF c, d
      <3> QED  BY <1>1, <1>2, <3>1, <3>2, <3>3, MarkedFacts, WorkingType, DoneType
    <2>2. ASSUME NEW c \in Contracts, Remind(n, c)
          PROVE  Procs'
      <3>1. Working(n, "mark", c, Blank, Blank) \/ UNCHANGED <<pc, op>>
        BY <2>2 DEF Remind, NotifyMembers
      <3>2. Blank \in Contract  BY DEF TypeInv
      <3> QED  BY <1>1, <1>2, <3>1, <3>2, WorkingType, StayType
    <2>3. ASSUME NEW c \in Contracts, QueueReminder(n, c)
          PROVE  Procs'
      BY <1>2, <2>3, StayType DEF QueueReminder
    <2>4. CASE SearchReminders(n) \/ EndQueue(n) \/ EndReminders(n)
      <3>1. op' = op /\ \E at \in {"idle", "sift", "notify"} : pc' = [pc EXCEPT ![n] = at]
        BY <2>4 DEF SearchReminders, EndQueue, EndReminders
      <3> QED  BY <1>1, <1>2, <3>1, WalkType
    <2> QED  BY <2>1, <2>2, <2>3, <2>4 DEF NoticeStep
  <1> QED  BY <1>3, <1>4, <1>5, <1>6

LEMMA RestartType ==
  ASSUME TypeInv, NEW j \in Jobs, Restart(j)
  PROVE  DocsType' /\ Procs' /\ RoundType' /\ CountType' /\ FlagType'
  <1>1. /\ UNCHANGED <<today, contract, cases, notices, moved, calls, conflicts, overlapped>>
        /\ faults' = faults + 1 /\ running' \in {FALSE, running}
        /\ pc' = [pc EXCEPT ![j] = "idle"] /\ op' = [op EXCEPT ![j] = NoOp]
        /\ round' = [round EXCEPT ![j] = NoRound]
    BY DEF Restart
  <1>2. DocsType' /\ CountType'  BY <1>1, TypeParts DEF DocsType, CountType
  <1>3. FlagType'
    <2>1. overlapped \in BOOLEAN /\ running \in BOOLEAN  BY TypeParts DEF FlagType
    <2> QED  BY <1>1, <2>1 DEF FlagType
  <1>4. RoundType'
    <2>1. {} \in SUBSET Contracts  OBVIOUS
    <2> QED  BY <1>1, <2>1, RoundMoves
  <1>5. Procs'  BY <1>1, Types, WalkType
  <1> QED  BY <1>2, <1>3, <1>4, <1>5

LEMMA AlikeType ==
  ASSUME TypeInv, Alike
  PROVE  DocsType' /\ Procs' /\ RoundType' /\ CountType' /\ FlagType'
  <1>1. /\ UNCHANGED <<contract, cases, op, notices, moved, calls, conflicts>>
        /\ overlapped' \in {overlapped, overlapped \/ ~Quiet}
        /\ running' \in {TRUE, FALSE, running}
        /\ faults' \in {faults, faults + 1}
        /\ today' = today \/ (today < MaxDay /\ today' = today + 1)
    BY DEF Alike, StartRound, SearchDue, EndRound, FailToStart, NewDay, history, jobVars, Enters
  <1>2. DocsType'  BY <1>1, Types DEF DocsType
  <1>3. FlagType'
    <2>1. overlapped \in BOOLEAN /\ running \in BOOLEAN  BY TypeParts DEF FlagType
    <2> QED  BY <1>1, <2>1 DEF FlagType
  <1>4. CountType'
    <2>1. MaxDay \in Nat  BY MaintenanceAssumption
    <2> QED  BY <1>1, <2>1, TypeParts DEF CountType
  <1>5. RoundType'
    <2>1. Candidates \in SUBSET Contracts  BY DEF Candidates
    <2>2. \/ UNCHANGED round \/ round' = [round EXCEPT ![Worker] = NoRound]
          \/ round' = [round EXCEPT ![Worker] = [left |-> Candidates, read |-> contract,
                                                 day |-> today]]
      BY DEF Alike, StartRound, SearchDue, EndRound, FailToStart, NewDay, jobVars
    <2> QED  BY <2>1, <2>2, RoundMoves, Types DEF RoundType
  <1>6. Procs'
    <2>1. UNCHANGED pc \/ \E at \in {"idle", "search", "round"} : pc' = [pc EXCEPT ![Worker] = at]
      BY DEF Alike, StartRound, SearchDue, EndRound, FailToStart, NewDay, jobVars
    <2> QED  BY <1>1, <2>1, StayType, WalkType, Types
  <1> QED  BY <1>2, <1>3, <1>4, <1>5, <1>6

LEMMA TypeStep == TypeInv /\ [Next]_vars => TypeInv'
  <1> SUFFICES ASSUME TypeInv, [Next]_vars  PROVE TypeInv'
    OBVIOUS
  <1>1. CASE UNCHANGED vars
    BY <1>1 DEF vars, jobVars, history, TypeInv, TypeOK, Shape
  <1>2. CASE Next
    <2>1. DocsType' /\ Procs' /\ RoundType' /\ CountType' /\ FlagType'
      BY <1>2, Actions, RequestType, ProcessType, ProcessContractType, NoticeType,
         RestartType, AlikeType
    <2>2. Blank \in Contract  BY DEF TypeInv
    <2>3. (Blank \in Contract /\ DocsType /\ Procs /\ RoundType /\ CountType /\ FlagType)'
      BY <2>1, <2>2
    <2>4. (TypeInv <=> Blank \in Contract /\ DocsType /\ Procs /\ RoundType /\ CountType
                       /\ FlagType)'
      BY TypeParts, PTL
    <2> QED  BY <2>3, <2>4
  <1> QED  BY <1>1, <1>2

LEMMA TypeInit == Init => TypeInv
  <1> SUFFICES ASSUME Init  PROVE TypeInv
    OBVIOUS
  <1>1. Created \subseteq Contract
    <2>1. /\ Chosen \subseteq Statuses /\ Dates \subseteq Nat /\ Ends \subseteq Day
          /\ None \in Day /\ << >> \in Seq(Entry)
      BY MaintenanceAssumption DEF Statuses, Day
    <2>2. SUFFICES ASSUME NEW x \in Created  PROVE x \in Contract
      OBVIOUS
    <2>3. x.status \in Chosen /\ x.due \in Dates /\ x.ends \in Ends
      BY DEF Created
    <2>4. x.reminded = None /\ x.version = 0 /\ x.visits = << >>
      BY DEF Created
    <2>5. x.pending = FALSE /\ x.live = TRUE
      BY DEF Created
    <2>6. x = [status |-> x.status, mode |-> x.mode, due |-> x.due, ends |-> x.ends,
               every |-> x.every, notice |-> x.notice, pending |-> x.pending,
               reminded |-> x.reminded, visits |-> x.visits, version |-> x.version,
               live |-> x.live]
      BY DEF Created
    <2>7. x.mode \in Modes /\ x.every \in Recurrences /\ x.notice \in Notices
      BY DEF Created
    <2>8. ASSUME NEW a \in Statuses, NEW m \in Modes, NEW d \in Nat, NEW e \in Day,
                 NEW k \in Recurrences, NEW n \in Notices, NEW p \in BOOLEAN, NEW t \in Day,
                 NEW v \in Seq(Entry), NEW z \in Nat, NEW l \in BOOLEAN
          PROVE  [status |-> a, mode |-> m, due |-> d, ends |-> e, every |-> k, notice |-> n,
                  pending |-> p, reminded |-> t, visits |-> v, version |-> z, live |-> l]
                    \in Contract
      BY DEF Contract
    <2>9. x.status \in Statuses /\ x.due \in Nat /\ x.ends \in Day
      BY <2>1, <2>3
    <2>10. x.reminded \in Day /\ x.visits \in Seq(Entry) /\ x.version \in Nat
      <3>1. 0 \in Nat  OBVIOUS
      <3> QED  BY <2>1, <2>4, <3>1, Zenon
    <2>11. x.pending \in BOOLEAN /\ x.live \in BOOLEAN
      BY <2>5
    <2> HIDE DEF Contract
    <2> QED  BY <2>6, <2>7, <2>8, <2>9, <2>10, <2>11
  <1>2. Blank \in Created
    <2>1. PICK c \in Contracts : TRUE  BY MaintenanceAssumption
    <2>2. contract[c] \in Created  BY <2>1 DEF Init
    <2> QED  BY <2>2 DEF Blank
  <1>3. Blank \in Contract  BY <1>1, <1>2
  <1>4. NoOp \in Op  BY <1>3 DEF NoOp, Op
  <1>5. NoRound \in Round
    <2>1. 0 \in 0..MaxDay  BY MaintenanceAssumption
    <2> QED  BY <1>3, <2>1 DEF NoRound, Round
  <1>6. DocsType  BY <1>1 DEF Init, DocsType
  <1>7. Procs  BY <1>4 DEF Init, Procs, Shape, Fits, Held
  <1>8. RoundType  BY <1>5 DEF Init, RoundType
  <1>9. CountType
    <2>1. 0 \in 0..MaxDay  BY MaintenanceAssumption
    <2> QED  BY <2>1 DEF Init, CountType
  <1>10. FlagType  BY DEF Init, FlagType
  <1> QED  BY <1>3, <1>6, <1>7, <1>8, <1>9, <1>10, TypeParts

(* The contracts, the rounds of the jobs and what they work on stay of     *)
(* their types.                                                            *)
THEOREM MaintenanceTypeCorrect == Spec => []TypeOK
  <1>1. TypeInv => TypeOK  BY DEF TypeInv
  <1> QED  BY <1>1, TypeInit, TypeStep, PTL DEF Spec

-----------------------------------------------------------------------------
(* The history of visits.                                                  *)

(* What a step writes to the contracts.                                    *)
LEMMA SaveFacts ==
  ASSUME TypeInv, NEW c \in Contracts, NEW read \in Contract, NEW to \in Contract,
         Save(c, read, to)
  PROVE  /\ contract'[c] = Merged(contract[c], read, to)
         /\ contract[c] \in Contract
         /\ \A k \in Contracts : k # c => contract'[k] = contract[k]
  BY Types DEF Save

LEMMA OpFacts ==
  ASSUME TypeInv, NEW p \in Processes
  PROVE  /\ op[p] \in Op /\ op[p].read \in Contract /\ op[p].to \in Contract
         /\ Fits(pc[p], op[p], cases)
         /\ pc[p] \in Held => op[p].contract \in Contracts
  BY Types DEF Op, TypeInv, Shape, Fits

Recording(p) == RecordVisit(p) /\ SameVersion(p)

Writes ==
  \/ UNCHANGED contract
  \/ \E p \in Processes : /\ SaveContract(p) \/ CloseContract(p)
                          /\ Save(op[p].contract, op[p].read, op[p].to)
  \/ \E p \in Processes : Recording(p)
  \/ \E c \in Contracts :
       LET d == round[Worker].read[c]
       IN  /\ ProcessContract(c)
           /\ Save(c, d, Ended(d)) \/ Save(c, d, [d EXCEPT !.pending = TRUE])
  \/ \E n \in Notifiers, c \in Contracts : QueueReminder(n, c)

LEMMA DocsPath ==
  ASSUME TypeInv, Next
  PROVE  Writes
  <1>1. ASSUME NEW r \in Requests, NEW c \in Contracts, RequestStep(r, c)
        PROVE  UNCHANGED contract
    BY <1>1 DEF RequestStep, UpdateRead, RemoveRead, Generate, Called
  <1>2. ASSUME NEW p \in Processes, ProcessStep(p)
        PROVE  Writes
    <2>1. CASE SaveContract(p) \/ CloseContract(p)
      BY <2>1 DEF SaveContract, CloseContract, Writes
    <2>2. CASE RecordVisit(p)  BY <2>2 DEF RecordVisit, Recording, Writes
    <2>3. CASE OpenCase(p) \/ PlanIntervention(p) \/ Fail(p)
      BY <2>3 DEF OpenCase, PlanIntervention, Fail, Writes
    <2> QED  BY <1>2, <2>1, <2>2, <2>3 DEF ProcessStep
  <1>3. ASSUME NEW c \in Contracts, ProcessContract(c)
        PROVE  Writes
    <2>1. LET d == round[Worker].read[c]
          IN  contract' = contract \/ Save(c, d, Ended(d))
                \/ Save(c, d, [d EXCEPT !.pending = TRUE])
      BY <1>3 DEF ProcessContract
    <2> QED  BY <1>3, <2>1 DEF Writes
  <1>4. ASSUME NEW n \in Notifiers, NoticeStep(n)
        PROVE  Writes
    BY <1>4 DEF NoticeStep, SearchReminders, EndQueue, MarkRead, EndReminders, Remind, Writes
  <1>5. ASSUME NEW j \in Jobs, Restart(j)
        PROVE  UNCHANGED contract
    BY <1>5 DEF Restart
  <1>6. Alike => UNCHANGED contract
    BY DEF Alike, StartRound, SearchDue, EndRound, FailToStart, NewDay
  <1> QED  BY <1>1, <1>2, <1>3, <1>4, <1>5, <1>6, Actions DEF Writes

(* Only a visit that is recorded writes the history and the version.       *)
SameHistory(c) == /\ contract'[c].version = contract[c].version
                  /\ contract'[c].visits = contract[c].visits

LEMMA Histories ==
  ASSUME TypeInv, Next
  PROVE  (\A c \in Contracts : SameHistory(c)) \/ (\E p \in Processes : Recording(p))
  <1>1. ASSUME NEW c \in Contracts, NEW read \in Contract, NEW to \in Contract,
               Save(c, read, to)
        PROVE  \A k \in Contracts : SameHistory(k)
    BY <1>1, SaveFacts, MergedFacts DEF SameHistory
  <1>2. ASSUME NEW p \in Processes, SaveContract(p) \/ CloseContract(p),
               Save(op[p].contract, op[p].read, op[p].to)
        PROVE  \A k \in Contracts : SameHistory(k)
    BY <1>1, <1>2, OpFacts DEF SaveContract, CloseContract, Held
  <1>3. ASSUME NEW c \in Contracts, NEW d \in Contract,
               Save(c, d, Ended(d)) \/ Save(c, d, [d EXCEPT !.pending = TRUE])
        PROVE  \A k \in Contracts : SameHistory(k)
    BY <1>1, <1>3, EndedFacts, PendingFacts
  <1>4. \A j \in Jobs, c \in Contracts : round[j].read[c] \in Contract
    BY RoundLeft
  <1>5. ASSUME NEW n \in Notifiers, NEW c \in Contracts, QueueReminder(n, c)
        PROVE  \A k \in Contracts : SameHistory(k)
    BY <1>3, <1>4, <1>5, Types DEF QueueReminder
  <1>6. UNCHANGED contract => \A k \in Contracts : SameHistory(k)
    BY DEF SameHistory
  <1> QED  BY <1>2, <1>3, <1>4, <1>5, <1>6, DocsPath, Types DEF Writes

(* The contract that a visit is recorded on.                               *)
LEMMA RecordingFacts ==
  ASSUME TypeInv, NEW p \in Processes, Recording(p)
  PROVE  LET c == op[p].contract
             d == op[p].read
             m == Merged(contract[c], d, Advanced(d))
             e == [visit |-> op[p].visit, due |-> d.due]
         IN  /\ c \in Contracts /\ contract[c] \in Contract /\ d \in Contract
             /\ pc[p] = "record" /\ e \in Entry
             /\ d.version = contract[c].version
             /\ contract'[c].version = contract[c].version + 1
             /\ contract'[c].visits = <<e>> \o d.visits
             /\ contract'[c].due = m.due /\ contract'[c].every = m.every
             /\ contract'[c].reminded = m.reminded
             /\ contract'[c].live = m.live
             /\ \A k \in Contracts : k # c => contract'[k] = contract[k]
             /\ UNCHANGED <<cases, round, notices, moved, faults, conflicts, overlapped>>
  <1> DEFINE c == op[p].contract
             d == op[p].read
             m == Merged(contract[c], d, Advanced(d))
             e == [visit |-> op[p].visit, due |-> d.due]
             v == <<e>> \o d.visits
  <1>1. /\ pc[p] = "record"
        /\ d.version = contract[c].version
        /\ contract' = [contract EXCEPT ![c] = [m EXCEPT !.visits = v, !.version = @ + 1]]
        /\ UNCHANGED <<cases, round, notices, moved, faults, conflicts, overlapped>>
    BY DEF Recording, RecordVisit, SameVersion
  <1>2. c \in Contracts /\ op[p].visit \in DOMAIN cases /\ d \in Contract
    BY <1>1, OpFacts DEF Fits, Held
  <1>3. contract[c] \in Contract  BY <1>2, Types
  <1>4. m \in Contract /\ m.version = contract[c].version
    BY <1>2, <1>3, AdvancedFacts, MergedFacts
  <1>5. e \in Entry
    <2>1. op[p].visit \in Nat \ {0}  BY <1>2, Types, SeqFacts
    <2> QED  BY <1>2, <2>1 DEF Entry, Contract
  <1> HIDE DEF m, v, c, d, e
  <1>6. ASSUME NEW k  PROVE LET n == [m EXCEPT !.visits = v, !.version = k]
                            IN  /\ n.visits = v /\ n.version = k /\ n.due = m.due
                                /\ n.every = m.every /\ n.reminded = m.reminded
    BY <1>4 DEF Contract
  <1>7. ASSUME NEW k  PROVE [m EXCEPT !.visits = v, !.version = k].live = m.live
    BY <1>4 DEF Contract
  <1>8. contract'[c] = [m EXCEPT !.visits = v, !.version = m.version + 1]
        /\ \A k \in Contracts : k # c => contract'[k] = contract[k]
    BY <1>1, <1>2, Types
  <1>9. /\ contract'[c].version = contract[c].version + 1
        /\ contract'[c].visits = v
        /\ contract'[c].due = m.due /\ contract'[c].every = m.every
        /\ contract'[c].reminded = m.reminded
    BY <1>4, <1>6, <1>8
  <1>10. contract'[c].live = m.live  BY <1>7, <1>8
  <1> QED  BY <1>1, <1>2, <1>3, <1>5, <1>8, <1>9, <1>10 DEF c, d, m, e, v

(* What a process goes on to work on: what it had, or a contract that it   *)
(* has just read.                                                          *)
Fresh(q) ==
  LET c == op'[q].contract
      d == contract[c]
      to == op'[q].to
  IN  /\ c \in Contracts /\ UNCHANGED <<contract, faults>>
      /\ pc'[q] \in {"save", "close", "open"} /\ op'[q].read = d
      /\ moved' \in {moved, moved \cup {c}}
      /\ to.live => d.live
      /\ c \notin moved' => to.due = d.due /\ to.every = d.every
      /\ q \notin Notifiers => /\ to.reminded \in {None, d.reminded}
                               /\ c \notin moved' => to.reminded = d.reminded
      /\ q \in Notifiers => to.reminded = d.due /\ to.due = d.due /\ to.live = d.live

Carries(q) == \/ pc'[q] = pc[q] /\ op'[q] = op[q]
              \/ /\ <<pc[q], pc'[q]>> \in {<<"open", "plan">>, <<"plan", "record">>}
                 /\ op'[q].contract = op[q].contract /\ op'[q].read = op[q].read

LEMMA WorkingFacts ==
  ASSUME TypeInv, NEW p \in Processes, NEW at, NEW c, NEW read, NEW to,
         Working(p, at, c, read, to)
  PROVE  /\ pc'[p] = at
         /\ op'[p].contract = c /\ op'[p].read = read /\ op'[p].to = to
         /\ \A q \in Processes : q # p => pc'[q] = pc[q] /\ op'[q] = op[q]
  <1>1. Turn(p, at, [contract |-> c, read |-> read, to |-> to, visit |-> 0])
    BY WorkingTurn
  <1> QED  BY <1>1, TurnFacts

LEMMA PlanReadFresh ==
  ASSUME TypeInv, NEW p \in Processes \ Notifiers, NEW c \in Contracts, PlanRead(p, c),
         UNCHANGED <<contract, faults, moved>>
  PROVE  /\ Fresh(p) /\ op'[p].contract = c
         /\ \A q \in Processes : q # p => pc'[q] = pc[q] /\ op'[q] = op[q]
  <1> DEFINE d == contract[c]
  <1>1. d \in Contract  BY Types
  <1>2. PICK at \in {"close", "open"}, to \in {Ended(d), d} : Working(p, at, c, d, to)
    BY DEF PlanRead
  <1> HIDE DEF d
  <1>3. /\ to.due = d.due /\ to.every = d.every /\ to.reminded = d.reminded
        /\ to.live = d.live
    BY <1>1, <1>2, EndedFacts
  <1>4. d = contract[c]  BY DEF d
  <1> QED  BY <1>2, <1>3, <1>4, WorkingFacts DEF Fresh

LEMMA RequestPath ==
  ASSUME TypeInv, NEW r \in Requests, NEW c \in Contracts, RequestStep(r, c)
  PROVE  /\ Fresh(r) /\ op'[r].contract = c
         /\ \A q \in Processes : q # r => pc'[q] = pc[q] /\ op'[q] = op[q]
  <1> DEFINE d == contract[c]
  <1>1. d \in Contract /\ r \in Processes \ Notifiers  BY Types
  <1>2. UNCHANGED <<contract, faults>>
    BY DEF RequestStep, UpdateRead, RemoveRead, Generate, Called
  <1>3. CASE UpdateRead(r, c)
    <2>1. PICK to \in Edits(d) \ {d} :
            /\ Working(r, "save", c, d, to)
            /\ moved' = IF \/ to.due # d.due \/ to.reminded # d.reminded
                           \/ to.every # d.every
                        THEN moved \cup {c} ELSE moved
      BY <1>3 DEF UpdateRead
    <2> HIDE DEF d
    <2>2. to \in Contract /\ to.live = d.live /\ to.reminded \in {None, d.reminded}
      BY <1>1, <2>1, EditsFacts
    <2>3. /\ moved' \in {moved, moved \cup {c}}
          /\ c \notin moved' => to.due = d.due /\ to.every = d.every /\ to.reminded = d.reminded
      BY <2>1
    <2>4. d = contract[c]  BY DEF d
    <2> QED  BY <1>1, <1>2, <2>1, <2>2, <2>3, <2>4, WorkingFacts DEF Fresh
  <1>4. CASE RemoveRead(r, c)
    <2> DEFINE to == [d EXCEPT !.live = FALSE]
    <2>1. Working(r, "save", c, d, to) /\ UNCHANGED moved
      BY <1>4 DEF RemoveRead
    <2>2. to.due = d.due /\ to.every = d.every /\ to.reminded = d.reminded /\ ~to.live
      BY <1>1, RemovedFacts
    <2> HIDE DEF d, to
    <2>3. d = contract[c]  BY DEF d
    <2> QED  BY <1>1, <1>2, <2>1, <2>2, <2>3, WorkingFacts DEF Fresh
  <1>5. CASE \E force \in BOOLEAN : Generate(r, c, force)
    BY <1>1, <1>2, <1>5, PlanReadFresh DEF Generate
  <1> QED  BY <1>3, <1>4, <1>5 DEF RequestStep

LEMMA MarkReadPath ==
  ASSUME TypeInv, NEW n \in Notifiers, MarkRead(n)
  PROVE  /\ pc[n] = "mark" /\ UNCHANGED <<contract, round, notices, moved, faults, overlapped>>
         /\ \/ pc'[n] = "notify" /\ ~contract[op[n].contract].live
            \/ /\ Fresh(n) /\ pc'[n] = "save" /\ op'[n].contract = op[n].contract
         /\ \A q \in Processes : q # n => pc'[q] = pc[q] /\ op'[q] = op[q]
  <1> DEFINE c == op[n].contract
             d == contract[c]
             to == [d EXCEPT !.reminded = d.due, !.pending = TRUE]
  <1>1. n \in Processes /\ pc[n] = "mark" /\ c \in Contracts
    BY Types, OpFacts DEF MarkRead, Held
  <1>2. d \in Contract  BY <1>1, Types
  <1>3. /\ UNCHANGED <<contract, round, notices, moved, faults, overlapped>>
        /\ Working(n, "save", c, d, to) \/ (Done(n) /\ ~d.live)
    BY DEF MarkRead, history
  <1>4. CASE Working(n, "save", c, d, to)
    <2>1. to.due = d.due /\ to.every = d.every /\ to.reminded = d.due /\ to.live = d.live
      BY <1>2, MarkedFacts
    <2>2. d = contract[c] /\ c = op[n].contract  OBVIOUS
    <2> HIDE DEF d, to, c
    <2> QED  BY <1>1, <1>3, <1>4, <2>1, <2>2, WorkingFacts DEF Fresh
  <1>5. CASE Done(n) /\ ~d.live
    <2>1. Turn(n, Resume(n), NoOp)  BY <1>1, <1>5, DoneTurn
    <2>2. Resume(n) = "notify"  BY Types DEF Resume
    <2> QED  BY <1>1, <1>3, <1>5, <2>1, <2>2, TurnFacts
  <1> QED  BY <1>3, <1>4, <1>5

LEMMA ProcPath ==
  ASSUME TypeInv, Next, NEW q \in Processes, pc'[q] \in Held
  PROVE  Carries(q) \/ Fresh(q) \/ pc'[q] = "mark"
  <1>1. ASSUME NEW r \in Requests, NEW c \in Contracts, RequestStep(r, c)
        PROVE  Carries(q) \/ Fresh(q)
    BY <1>1, RequestPath DEF Carries
  <1>2. ASSUME NEW p \in Processes, Done(p)
        PROVE  Carries(q)
    BY <1>2, DoneTurn, TurnFacts DEF Carries, Held
  <1>3. ASSUME NEW p \in Processes, ProcessStep(p)
        PROVE  Carries(q)
    <2>1. CASE OpenCase(p)
      <3> DEFINE o == [op[p] EXCEPT !.visit = Len(cases')]
      <3>1. pc[p] = "open" /\ Turn(p, "plan", o)
        BY <2>1, Types DEF OpenCase, Turn
      <3>2. o.contract = op[p].contract /\ o.read = op[p].read
        BY OpFacts DEF Op
      <3> HIDE DEF o
      <3> QED  BY <3>1, <3>2, TurnFacts DEF Carries
    <2>2. CASE PlanIntervention(p)
      <3>1. pc[p] = "plan" /\ Turn(p, "record", op[p])
        BY <2>2, Types DEF PlanIntervention, Turn
      <3> QED  BY <3>1, TurnFacts DEF Carries
    <2>3. CASE Done(p)  BY <1>2, <2>3
    <2> QED
      BY <1>3, <2>1, <2>2, <2>3
      DEF ProcessStep, SaveContract, CloseContract, RecordVisit, Fail
  <1>4. ASSUME NEW c \in Contracts, ProcessContract(c)
        PROVE  Carries(q) \/ Fresh(q)
    <2>1. UNCHANGED <<pc, op>> \/ (PlanRead(Worker, c) /\ UNCHANGED <<contract, faults, moved>>)
      BY <1>4 DEF ProcessContract, history
    <2>2. Worker \in Processes \ Notifiers  BY Types
    <2> QED  BY <2>1, <2>2, PlanReadFresh DEF Carries
  <1>5. ASSUME NEW n \in Notifiers, NoticeStep(n)
        PROVE  Carries(q) \/ Fresh(q) \/ pc'[q] = "mark"
    <2>1. n \in Processes  BY Types
    <2>2. CASE MarkRead(n)  BY <2>2, MarkReadPath DEF Carries, Held
    <2>3. CASE \E c \in Contracts : QueueReminder(n, c)
      BY <2>3 DEF QueueReminder, Carries
    <2>4. CASE \E c \in Contracts : Remind(n, c)
      <3>1. UNCHANGED <<pc, op>> \/ \E c \in Contracts : Working(n, "mark", c, Blank, Blank)
        BY <2>4 DEF Remind, NotifyMembers
      <3> QED  BY <2>1, <3>1, WorkingFacts DEF Carries
    <2>5. CASE SearchReminders(n) \/ EndQueue(n) \/ EndReminders(n)
      <3>1. op' = op /\ \E at \in {"idle", "sift", "notify"} : pc' = [pc EXCEPT ![n] = at]
        BY <2>5 DEF SearchReminders, EndQueue, EndReminders
      <3> QED  BY <2>1, <3>1, Types DEF Carries, Held
    <2> QED  BY <1>5, <2>2, <2>3, <2>4, <2>5 DEF NoticeStep
  <1>6. ASSUME NEW j \in Jobs, Restart(j)
        PROVE  Carries(q)
    <2>1. Turn(j, "idle", NoOp) /\ j \in Processes  BY <1>6, Types DEF Restart, Turn
    <2> QED  BY <2>1, TurnFacts DEF Carries, Held
  <1>7. ASSUME Alike
        PROVE  Carries(q)
    <2>1. op' = op
      BY <1>7 DEF Alike, StartRound, SearchDue, EndRound, FailToStart, NewDay, jobVars
    <2>2. UNCHANGED pc \/ \E at \in {"idle", "search", "round"} : pc' = [pc EXCEPT ![Worker] = at]
      BY <1>7 DEF Alike, StartRound, SearchDue, EndRound, FailToStart, NewDay, jobVars
    <2> QED  BY <2>1, <2>2, Types DEF Carries, Held
  <1> QED  BY <1>1, <1>3, <1>4, <1>5, <1>6, <1>7, Actions

LEMMA VersionStep ==
  ASSUME TypeInv, VisitInv, Next, NEW q \in Processes
  PROVE  VersionRead(q)'
  <1>1. TypeInv'  BY TypeStep
  <1> SUFFICES ASSUME pc'[q] \in Planning
               PROVE  LET o == op'[q]
                          k == contract'[o.contract]
                      IN  /\ o.read.version <= k.version
                          /\ o.read.version = k.version => o.read.visits = k.visits
    BY DEF VersionRead, Versioned
  <1> DEFINE c == op'[q].contract
  <1>2. pc'[q] \in Held /\ pc'[q] # "mark"  BY DEF Held, Planning
  <1>3. c \in Contracts
    <2>1. Shape(q)'  BY <1>1 DEF TypeInv
    <2> QED  BY <1>2, <2>1 DEF Shape, Fits
  <1>4. contract[c] \in Contract /\ op[q].read \in Contract  BY <1>3, Types, OpFacts
  <1>5. CASE Fresh(q)
    <2>1. op'[q].read = contract[c] /\ contract' = contract  BY <1>5 DEF Fresh
    <2> QED  BY <1>4, <2>1 DEF Contract
  <1>6. CASE Carries(q)
    <2>1. pc[q] \in Planning /\ op[q].contract = c /\ op'[q].read = op[q].read
      BY <1>6 DEF Carries, Planning
    <2>2. /\ op[q].read.version <= contract[c].version
          /\ op[q].read.version = contract[c].version => op[q].read.visits = contract[c].visits
      BY <2>1 DEF VisitInv, VersionRead, Versioned
    <2>3. op[q].read.version \in Nat /\ contract[c].version \in Nat  BY <1>4 DEF Contract
    <2> HIDE DEF c
    <2>4. SameHistory(c) \/ contract'[c].version = contract[c].version + 1
      BY <1>3, Histories, RecordingFacts DEF SameHistory
    <2>5. CASE SameHistory(c)  BY <2>1, <2>2, <2>5 DEF SameHistory, c
    <2>6. CASE contract'[c].version = contract[c].version + 1
      BY <2>1, <2>2, <2>3, <2>6 DEF c
    <2> QED  BY <2>4, <2>5, <2>6
  <1> QED  BY <1>2, <1>5, <1>6, ProcPath

(* The cases of a step.                                                    *)
LEMMA CasesPath ==
  ASSUME TypeInv, Next
  PROVE  CasesKept /\ (UNCHANGED cases \/ \E p \in Processes : ProcessStep(p))
  <1>1. ASSUME NEW p \in Processes, ProcessStep(p)
        PROVE  CasesKept
    <2>1. op[p] \in Op /\ op[p].read \in Contract /\ Fits(pc[p], op[p], cases)
      BY OpFacts
    <2>2. CASE UNCHANGED cases  BY <2>2, SameCases
    <2>3. CASE OpenCase(p)
      <3> DEFINE e == [contract |-> op[p].contract, due |-> op[p].read.due, planned |-> FALSE]
      <3>1. op[p].contract \in Contracts  BY <2>1, <2>3 DEF OpenCase, Fits, Held
      <3>2. e \in File  BY <2>1, <3>1 DEF File, Contract
      <3>3. cases' = Append(cases, e)  BY <2>3 DEF OpenCase
      <3> HIDE DEF e
      <3>4. /\ cases' \in Seq(File) /\ DOMAIN cases \subseteq DOMAIN cases'
            /\ \A j \in DOMAIN cases : cases'[j] = cases[j]
        BY <3>2, <3>3, Types, SeqAdd
      <3> QED  BY <3>4 DEF CasesKept
    <2>4. CASE PlanIntervention(p)
      <3> DEFINE i == op[p].visit
                 e == [cases[i] EXCEPT !.planned = TRUE]
      <3>1. i \in DOMAIN cases  BY <2>1, <2>4 DEF PlanIntervention, Fits
      <3>2. cases[i] \in File  BY <3>1, Types, SeqFacts
      <3>3. e \in File /\ e.contract = cases[i].contract /\ e.due = cases[i].due /\ e.planned
        BY <3>2 DEF File
      <3>4. cases' = [cases EXCEPT ![i] = e]  BY <2>4 DEF PlanIntervention
      <3> HIDE DEF e, i
      <3>5. /\ cases' \in Seq(File) /\ DOMAIN cases' = DOMAIN cases /\ cases'[i] = e
            /\ \A j \in DOMAIN cases : j # i => cases'[j] = cases[j]
        BY <3>1, <3>3, <3>4, Types, SeqPut
      <3> QED  BY <3>3, <3>5 DEF CasesKept
    <2> QED
      BY <1>1, <2>2, <2>3, <2>4
      DEF ProcessStep, SaveContract, CloseContract, RecordVisit, Fail
  <1>2. ASSUME NEW r \in Requests, NEW c \in Contracts, RequestStep(r, c)
        PROVE  UNCHANGED cases
    BY <1>2 DEF RequestStep, UpdateRead, RemoveRead, Generate, Called
  <1>3. ASSUME NEW c \in Contracts, ProcessContract(c)  PROVE UNCHANGED cases
    BY <1>3 DEF ProcessContract
  <1>4. ASSUME NEW n \in Notifiers, NoticeStep(n)  PROVE UNCHANGED cases
    BY <1>4 DEF NoticeStep, SearchReminders, EndQueue, MarkRead, EndReminders, QueueReminder,
       Remind
  <1>5. ASSUME NEW j \in Jobs, Restart(j)  PROVE UNCHANGED cases
    BY <1>5 DEF Restart
  <1>6. Alike => UNCHANGED cases
    BY DEF Alike, StartRound, SearchDue, EndRound, FailToStart, NewDay
  <1> QED  BY <1>1, <1>2, <1>3, <1>4, <1>5, <1>6, SameCases, Actions

(* An entry of the history has a case, opened for it and planned.          *)
Covers(e, c, files) ==
  /\ e.visit \in DOMAIN files
  /\ files[e.visit] = [contract |-> c, due |-> e.due, planned |-> TRUE]

LEMMA CoversKept ==
  ASSUME TypeInv, CasesKept, NEW c, NEW e, Covers(e, c, cases)
  PROVE  Covers(e, c, cases')
  <1> DEFINE i == e.visit
  <1>1. i \in DOMAIN cases' /\ i \in DOMAIN cases  BY DEF Covers, CasesKept
  <1>2. cases'[i].contract = c /\ cases'[i].due = e.due /\ cases'[i].planned
    BY <1>1 DEF Covers, CasesKept
  <1>3. cases'[i] \in File  BY <1>1, SeqFacts DEF CasesKept
  <1>4. ASSUME NEW f \in File, f.planned
        PROVE  f = [contract |-> f.contract, due |-> f.due, planned |-> TRUE]
    BY <1>4 DEF File
  <1> QED  BY <1>1, <1>2, <1>3, <1>4 DEF Covers

LEMMA EntriesStep ==
  ASSUME TypeInv, VisitInv, Next, NEW c \in Contracts, NEW i \in DOMAIN contract'[c].visits
  PROVE  Covers(contract'[c].visits[i], c, cases')
  <1>1. CasesKept  BY CasesPath
  <1>2. \A k \in Contracts : \A j \in DOMAIN contract[k].visits :
           Covers(contract[k].visits[j], k, cases)
    BY DEF VisitInv, VisitsAccounted, Filed, Covers
  <1>3. CASE SameHistory(c)  BY <1>1, <1>2, <1>3, CoversKept DEF SameHistory
  <1>4. ASSUME NEW p \in Processes, Recording(p)
        PROVE  Covers(contract'[c].visits[i], c, cases')
    <2> DEFINE d == op[p].read
               e == [visit |-> op[p].visit, due |-> d.due]
    <2>1. /\ op[p].contract \in Contracts /\ pc[p] = "record"
          /\ contract[op[p].contract] \in Contract
          /\ d.version = contract[op[p].contract].version
          /\ contract'[op[p].contract].visits = <<e>> \o d.visits
          /\ \A k \in Contracts : k # op[p].contract => contract'[k] = contract[k]
          /\ e \in Entry /\ d \in Contract
      BY <1>4, RecordingFacts
    <2>2. CASE c # op[p].contract
      BY <1>1, <1>2, <2>1, <2>2, CoversKept
    <2>3. CASE c = op[p].contract
      <3>1. d.visits = contract[c].visits
        BY <2>1, <2>3 DEF VisitInv, VersionRead, Versioned, Planning
      <3>2. Covers(e, c, cases)
        <4>1. /\ op[p].visit \in DOMAIN cases /\ cases[op[p].visit].contract = c
              /\ cases[op[p].visit].due = d.due /\ cases[op[p].visit].planned
          BY <2>1, <2>3, OpFacts DEF Fits
        <4>2. cases[op[p].visit] \in File  BY <4>1, Types, SeqFacts
        <4>3. ASSUME NEW f \in File, f.planned
              PROVE  f = [contract |-> f.contract, due |-> f.due, planned |-> TRUE]
          BY <4>3 DEF File
        <4> QED  BY <4>1, <4>2, <4>3 DEF Covers
      <3>3. d.visits \in Seq(Entry)  BY <2>1 DEF Contract
      <3> HIDE DEF e, d
      <3> DEFINE t == <<e>> \o d.visits
      <3>4. \/ contract'[c].visits[i] = e
            \/ i - 1 \in DOMAIN d.visits /\ contract'[c].visits[i] = d.visits[i - 1]
        <4>1. /\ DOMAIN t = 1..(Len(d.visits) + 1) /\ t[1] = e
              /\ \A j \in 1..(Len(d.visits) + 1) :
                   j # 1 => j - 1 \in DOMAIN d.visits /\ t[j] = d.visits[j - 1]
          BY <2>1, <3>3, SeqPush
        <4>2. contract'[c].visits = t  BY <2>1, <2>3
        <4> HIDE DEF t
        <4> QED  BY <4>1, <4>2
      <3> QED  BY <1>1, <1>2, <3>1, <3>2, <3>4, CoversKept
    <2> QED  BY <2>2, <2>3
  <1> QED  BY <1>3, <1>4, Histories

LEMMA RecordedKept ==
  ASSUME TypeInv, VisitInv, Next
  PROVE  /\ Recorded \subseteq Recorded'
         /\ \A p \in Processes : Recording(p) => op[p].visit \in Recorded'
  <1>1. ASSUME NEW c \in Contracts, SameHistory(c)  PROVE VisitsOf(c) \subseteq VisitsOf(c)'
    BY <1>1 DEF SameHistory, VisitsOf
  <1>2. ASSUME NEW p \in Processes, Recording(p)
        PROVE  /\ op[p].visit \in Recorded'
               /\ \A c \in Contracts : VisitsOf(c) \subseteq VisitsOf(c)'
    <2>0. PICK k \in Contracts : k = op[p].contract  BY <1>2, RecordingFacts
    <2> DEFINE d == op[p].read
               e == [visit |-> op[p].visit, due |-> d.due]
               v == <<e>> \o d.visits
    <2>1. /\ k \in Contracts /\ pc[p] = "record" /\ d \in Contract /\ e \in Entry
          /\ d.version = contract[k].version /\ contract'[k].visits = v
          /\ \A c \in Contracts : c # k => contract'[c] = contract[c]
      BY <1>2, <2>0, RecordingFacts
    <2>2. d.visits = contract[k].visits
      BY <2>0, <2>1 DEF VisitInv, VersionRead, Versioned, Planning
    <2>3. d.visits \in Seq(Entry)  BY <2>1 DEF Contract
    <2>4. e.visit = op[p].visit  OBVIOUS
    <2> HIDE DEF d, e
    <2>5. /\ DOMAIN v = 1..(Len(d.visits) + 1) /\ v[1] = e
          /\ \A i \in 1..(Len(d.visits) + 1) : i # 1 => i - 1 \in DOMAIN d.visits
                                                       /\ v[i] = d.visits[i - 1]
      BY <2>1, <2>3, SeqPush
    <2>6. Len(d.visits) \in Nat /\ DOMAIN d.visits = 1..Len(d.visits)  BY <2>3, SeqFacts
    <2>7. \A i \in DOMAIN d.visits : i + 1 \in DOMAIN v /\ v[i + 1] = d.visits[i]
      <3> TAKE i \in DOMAIN d.visits
      <3>1. i + 1 \in 1..(Len(d.visits) + 1) /\ i + 1 # 1 /\ (i + 1) - 1 = i  BY <2>6
      <3> QED  BY <2>5, <3>1
    <2>8. 1 \in DOMAIN v  BY <2>5, <2>6
    <2> HIDE DEF v
    <2>9. op[p].visit \in VisitsOf(k)'  BY <2>1, <2>4, <2>5, <2>8 DEF VisitsOf
    <2>10. VisitsOf(k) \subseteq VisitsOf(k)'  BY <2>1, <2>2, <2>7 DEF VisitsOf
    <2>11. \A c \in Contracts : c # k => VisitsOf(c) \subseteq VisitsOf(c)'
      BY <2>1 DEF VisitsOf
    <2>12. \A c \in Contracts : VisitsOf(c) \subseteq VisitsOf(c)'  BY <2>10, <2>11
    <2>13. op[p].visit \in Recorded'  BY <2>9 DEF Recorded
    <2> QED  BY <2>12, <2>13
  <1>3. \A c \in Contracts : VisitsOf(c) \subseteq VisitsOf(c)'
    BY <1>1, <1>2, Histories
  <1> QED  BY <1>2, <1>3 DEF Recorded

(* The cases that a step loses.                                            *)
Flies(q)   == pc[q] \in {"plan", "record"}
Keeps(q)   == Flies(q) => \/ pc'[q] \in {"plan", "record"} /\ op'[q].visit = op[q].visit
                          \/ op[q].visit \in Recorded'
NewFlies   == DOMAIN cases' \subseteq DOMAIN cases \cup InFlight'

LEMMA NoneLost ==
  ASSUME TypeInv, VisitInv, Next, NewFlies, \A q \in Processes : Keeps(q)
  PROVE  Lost' \subseteq Lost
  <1> SUFFICES ASSUME NEW x \in Lost'  PROVE x \in Lost
    OBVIOUS
  <1>1. x \in DOMAIN cases' /\ x \notin Recorded' /\ x \notin InFlight'  BY DEF Lost
  <1>2. x \in DOMAIN cases /\ x \notin Recorded  BY <1>1, RecordedKept DEF NewFlies
  <1>3. ASSUME NEW q \in Processes, Flies(q), op[q].visit = x  PROVE FALSE
    BY <1>1, <1>3 DEF Keeps, InFlight
  <1> QED  BY <1>2, <1>3 DEF Lost, InFlight, Flies

LEMMA OneLost ==
  ASSUME TypeInv, VisitInv, Next, NewFlies, NEW p \in Processes,
         \A q \in Processes : q # p => Keeps(q)
  PROVE  Lost' \subseteq Lost \cup {op[p].visit}
  <1> SUFFICES ASSUME NEW x \in Lost', x # op[p].visit  PROVE x \in Lost
    OBVIOUS
  <1>1. x \in DOMAIN cases' /\ x \notin Recorded' /\ x \notin InFlight'  BY DEF Lost
  <1>2. x \in DOMAIN cases /\ x \notin Recorded  BY <1>1, RecordedKept DEF NewFlies
  <1>3. ASSUME NEW q \in Processes, Flies(q), op[q].visit = x  PROVE FALSE
    BY <1>1, <1>3 DEF Keeps, InFlight
  <1> QED  BY <1>2, <1>3 DEF Lost, InFlight, Flies

LEMMA LostBound ==
  ASSUME TypeInv, VisitInv
  PROVE  /\ Lost' \subseteq Lost /\ faults' \in {faults, faults + 1} /\ conflicts' = conflicts
              => Cardinality(Lost') <= faults' + conflicts'
         /\ \A v : /\ Lost' \subseteq Lost \cup {v}
                   /\ \/ faults' = faults + 1 /\ conflicts' = conflicts
                      \/ faults' = faults /\ conflicts' = conflicts + 1
              => Cardinality(Lost') <= faults' + conflicts'
  <1>1. /\ IsFiniteSet(Lost) /\ Cardinality(Lost) \in Nat
        /\ Cardinality(Lost) <= faults + conflicts /\ faults \in Nat /\ conflicts \in Nat
    <2>1. IsFiniteSet(DOMAIN cases)  BY Types, SeqFacts
    <2>2. IsFiniteSet(Lost)  BY <2>1, FS_Subset DEF Lost
    <2> QED  BY <2>2, FS_CardinalityType, TypeParts DEF CountType, VisitInv, VisitsAccounted
  <1>2. ASSUME Lost' \subseteq Lost
        PROVE  Cardinality(Lost') \in Nat /\ Cardinality(Lost') <= Cardinality(Lost)
    BY <1>1, <1>2, FS_Subset, FS_CardinalityType
  <1>3. ASSUME NEW v, Lost' \subseteq Lost \cup {v}
        PROVE  Cardinality(Lost') \in Nat /\ Cardinality(Lost') <= Cardinality(Lost) + 1
    <2> DEFINE S == Lost \cup {v}
    <2>1. IsFiniteSet(S) /\ Cardinality(S) \in {Cardinality(Lost), Cardinality(Lost) + 1}
      BY <1>1, FS_AddElement
    <2>2. Lost' \in SUBSET S  BY <1>3
    <2> HIDE DEF S
    <2>3. IsFiniteSet(Lost') /\ Cardinality(Lost') <= Cardinality(S)
      BY <2>1, <2>2, FS_Subset
    <2>4. Cardinality(Lost') \in Nat  BY <2>3, FS_CardinalityType
    <2> QED  BY <1>1, <2>1, <2>3, <2>4
  <1> QED  BY <1>1, <1>2, <1>3

LEMMA OthersKeep ==
  ASSUME NEW p, \A q \in Processes : q # p => pc'[q] = pc[q] /\ op'[q] = op[q]
  PROVE  \A q \in Processes : q # p => Keeps(q)
  BY DEF Keeps, Flies

LEMMA LostStep ==
  ASSUME TypeInv, VisitInv, Next
  PROVE  Cardinality(Lost') <= faults' + conflicts'
  <1>1. UNCHANGED cases => NewFlies  BY DEF NewFlies
  <1>2. ASSUME NEW p \in Processes, ~Flies(p), UNCHANGED <<cases, conflicts>>,
               \A q \in Processes : q # p => pc'[q] = pc[q] /\ op'[q] = op[q],
               faults' \in {faults, faults + 1}
        PROVE  Cardinality(Lost') <= faults' + conflicts'
    <2>1. \A q \in Processes : Keeps(q)  BY <1>2, OthersKeep DEF Keeps
    <2> QED  BY <1>1, <1>2, <2>1, NoneLost, LostBound
  <1>3. ASSUME UNCHANGED <<pc, op, cases, conflicts>>, faults' \in {faults, faults + 1}
        PROVE  Cardinality(Lost') <= faults' + conflicts'
    <2>1. \A q \in Processes : Keeps(q)  BY <1>3 DEF Keeps, Flies
    <2> QED  BY <1>1, <1>3, <2>1, NoneLost, LostBound
  <1>4. ASSUME NEW p \in Processes, UNCHANGED cases,
               \A q \in Processes : q # p => pc'[q] = pc[q] /\ op'[q] = op[q],
               \/ faults' = faults + 1 /\ conflicts' = conflicts
               \/ faults' = faults /\ conflicts' = conflicts + 1
        PROVE  Cardinality(Lost') <= faults' + conflicts'
    <2>1. \A q \in Processes : q # p => Keeps(q)  BY <1>4, OthersKeep
    <2> QED  BY <1>1, <1>4, <2>1, OneLost, LostBound
  <1>5. ASSUME NEW r \in Requests, NEW c \in Contracts, RequestStep(r, c)
        PROVE  Cardinality(Lost') <= faults' + conflicts'
    <2>1. Called(r)
      BY <1>5 DEF RequestStep, UpdateRead, RemoveRead, Generate
    <2>2. ~Flies(r) /\ UNCHANGED <<cases, faults, conflicts>>  BY <2>1 DEF Called, Flies
    <2> QED  BY <1>2, <1>5, <2>2, RequestPath, Types
  <1>6. ASSUME NEW p \in Processes, Done(p)
        PROVE  \A q \in Processes : q # p => pc'[q] = pc[q] /\ op'[q] = op[q]
    BY <1>6, DoneTurn, TurnFacts
  <1>7. ASSUME NEW p \in Processes, ProcessStep(p)
        PROVE  Cardinality(Lost') <= faults' + conflicts'
    <2>1. CASE SaveContract(p) \/ CloseContract(p)
      <3>1. /\ Done(p) /\ ~Flies(p) /\ UNCHANGED <<cases, faults, conflicts>>
        BY <2>1 DEF SaveContract, CloseContract, Flies, history
      <3> QED  BY <1>2, <1>6, <3>1
    <2>2. CASE OpenCase(p)
      <3> DEFINE o == [op[p] EXCEPT !.visit = Len(cases')]
                 n == Len(cases')
      <3>1. /\ pc[p] = "open" /\ Turn(p, "plan", o) /\ UNCHANGED <<faults, conflicts>>
            /\ \E e : cases' = Append(cases, e)
        BY <2>2, Types DEF OpenCase, Turn, history
      <3>2. o.visit = n  BY OpFacts DEF Op
      <3>3. cases' \in Seq(File)  BY CasesPath DEF CasesKept
      <3>4. DOMAIN cases' = 1..n /\ DOMAIN cases = 1..Len(cases) /\ n = Len(cases) + 1
            /\ Len(cases) \in Nat
        BY <3>1, <3>3, Types, SeqFacts
      <3> HIDE DEF o, n
      <3>5. pc'[p] = "plan" /\ op'[p] = o
            /\ \A q \in Processes : q # p => pc'[q] = pc[q] /\ op'[q] = op[q]
        BY <3>1, TurnFacts
      <3>6. n \in InFlight'  BY <3>2, <3>5 DEF InFlight
      <3>7. NewFlies  BY <3>4, <3>6 DEF NewFlies
      <3>8. ~Flies(p)  BY <3>1 DEF Flies
      <3>9. \A q \in Processes : Keeps(q)  BY <3>5, <3>8, OthersKeep DEF Keeps
      <3> QED  BY <3>1, <3>7, <3>9, NoneLost, LostBound
    <2>3. CASE PlanIntervention(p)
      <3> DEFINE i == op[p].visit
                 e == [cases[i] EXCEPT !.planned = TRUE]
      <3>1. /\ pc[p] = "plan" /\ Turn(p, "record", op[p]) /\ UNCHANGED <<faults, conflicts>>
            /\ cases' = [cases EXCEPT ![i] = e]
        BY <2>3, Types DEF PlanIntervention, Turn, history
      <3>2. DOMAIN cases' = DOMAIN cases  BY <3>1
      <3>3. pc'[p] = "record" /\ op'[p] = op[p]
            /\ \A q \in Processes : q # p => pc'[q] = pc[q] /\ op'[q] = op[q]
        BY <3>1, TurnFacts
      <3>4. \A q \in Processes : Keeps(q)  BY <3>3, OthersKeep DEF Keeps
      <3> QED  BY <3>1, <3>2, <3>4, NoneLost, LostBound DEF NewFlies
    <2>4. CASE RecordVisit(p)
      <3>1. Done(p) /\ UNCHANGED <<cases, faults>>  BY <2>4 DEF RecordVisit
      <3>2. CASE SameVersion(p)
        <4>1. Recording(p)  BY <2>4, <3>2 DEF Recording
        <4>2. conflicts' = conflicts  BY <2>4, <3>2 DEF RecordVisit
        <4>3. \A q \in Processes : Keeps(q)
          BY <1>6, <3>1, <4>1, OthersKeep, RecordedKept DEF Keeps
        <4> QED  BY <1>1, <3>1, <4>2, <4>3, NoneLost, LostBound
      <3>3. CASE ~SameVersion(p)
        <4>1. conflicts' = conflicts + 1  BY <2>4, <3>3 DEF RecordVisit
        <4> QED  BY <1>4, <1>6, <3>1, <4>1
      <3> QED  BY <3>2, <3>3
    <2>5. CASE Fail(p)
      <3>1. Done(p) /\ UNCHANGED <<cases, conflicts>> /\ faults' = faults + 1
        BY <2>5 DEF Fail
      <3> QED  BY <1>4, <1>6, <3>1
    <2> QED  BY <1>7, <2>1, <2>2, <2>3, <2>4, <2>5 DEF ProcessStep
  <1>8. ASSUME NEW c \in Contracts, ProcessContract(c)
        PROVE  Cardinality(Lost') <= faults' + conflicts'
    <2>1. /\ UNCHANGED <<cases, faults, conflicts, moved>> /\ ~Flies(Worker)
          /\ UNCHANGED <<pc, op>> \/ (PlanRead(Worker, c) /\ UNCHANGED contract)
      BY <1>8 DEF ProcessContract, history, Flies
    <2>2. Worker \in Processes \ Notifiers  BY Types
    <2> QED  BY <1>2, <1>3, <2>1, <2>2, PlanReadFresh
  <1>9. ASSUME NEW n \in Notifiers, NoticeStep(n)
        PROVE  Cardinality(Lost') <= faults' + conflicts'
    <2>1. n \in Processes  BY Types
    <2>2. UNCHANGED <<cases, faults, conflicts>>
      BY <1>9 DEF NoticeStep, SearchReminders, EndQueue, MarkRead, EndReminders,
         QueueReminder, Remind, history
    <2>3. UNCHANGED <<pc, op>> \/ ~Flies(n)
      BY <1>9 DEF NoticeStep, SearchReminders, EndQueue, MarkRead, EndReminders,
         QueueReminder, Remind, Flies
    <2>4. \A q \in Processes : q # n => pc'[q] = pc[q] /\ op'[q] = op[q]
      <3>1. CASE MarkRead(n)  BY <3>1, MarkReadPath
      <3>2. CASE \E c \in Contracts : QueueReminder(n, c)  BY <3>2 DEF QueueReminder
      <3>3. CASE \E c \in Contracts : Remind(n, c)
        <4>1. UNCHANGED <<pc, op>> \/ \E c \in Contracts : Working(n, "mark", c, Blank, Blank)
          BY <3>3 DEF Remind, NotifyMembers
        <4> QED  BY <2>1, <4>1, WorkingFacts
      <3>4. CASE SearchReminders(n) \/ EndQueue(n) \/ EndReminders(n)
        <4>1. op' = op /\ \E at : pc' = [pc EXCEPT ![n] = at]
          BY <3>4 DEF SearchReminders, EndQueue, EndReminders
        <4> QED  BY <4>1, Types
      <3> QED  BY <1>9, <3>1, <3>2, <3>3, <3>4 DEF NoticeStep
    <2> QED  BY <1>2, <1>3, <2>1, <2>2, <2>3, <2>4
  <1>10. ASSUME NEW j \in Jobs, Restart(j)
         PROVE  Cardinality(Lost') <= faults' + conflicts'
    <2>1. /\ Turn(j, "idle", NoOp) /\ j \in Processes /\ UNCHANGED <<cases, conflicts>>
          /\ faults' = faults + 1
      BY <1>10, Types DEF Restart, Turn
    <2> QED  BY <1>4, <2>1, TurnFacts
  <1>11. ASSUME Alike
         PROVE  Cardinality(Lost') <= faults' + conflicts'
    <2>1. UNCHANGED <<cases, op, conflicts>> /\ faults' \in {faults, faults + 1}
      BY <1>11 DEF Alike, StartRound, SearchDue, EndRound, FailToStart, NewDay, history, jobVars
    <2>2. UNCHANGED pc \/ (~Flies(Worker) /\ \E at : pc' = [pc EXCEPT ![Worker] = at])
      BY <1>11 DEF Alike, StartRound, SearchDue, EndRound, FailToStart, NewDay, jobVars, Flies
    <2> QED  BY <1>2, <1>3, <2>1, <2>2, Types
  <1> QED  BY <1>5, <1>7, <1>8, <1>9, <1>10, <1>11, Actions

LEMMA VisitStep == TypeInv /\ VisitInv /\ [Next]_vars => VisitInv'
  <1> SUFFICES ASSUME TypeInv, VisitInv, [Next]_vars  PROVE VisitInv'
    OBVIOUS
  <1>1. CASE UNCHANGED vars
    BY <1>1 DEF vars, jobVars, history, VisitInv, VisitsAccounted, Filed, VersionRead, Versioned,
       Lost, Recorded, VisitsOf, InFlight
  <1>2. CASE Next
    <2>1. \A q \in Processes : VersionRead(q)'  BY <1>2, VersionStep
    <2>2. Cardinality(Lost') <= faults' + conflicts'  BY <1>2, LostStep
    <2>3. \A c \in Contracts : \A i \in DOMAIN contract'[c].visits :
             Covers(contract'[c].visits[i], c, cases')
      BY <1>2, EntriesStep
    <2>4. VisitsAccounted' /\ Filed'  BY <2>2, <2>3 DEF VisitsAccounted, Filed, Covers
    <2> QED  BY <2>1, <2>4 DEF VisitInv
  <1> QED  BY <1>1, <1>2

LEMMA VisitInit == Init => VisitInv
  <1> SUFFICES ASSUME Init  PROVE VisitInv
    OBVIOUS
  <1>1. \A c \in Contracts : contract[c].visits = << >>  BY DEF Init, Created
  <1>2. Filed  BY <1>1 DEF Filed
  <1>3. \A p \in Processes : VersionRead(p)
    BY DEF Init, VersionRead, Versioned, Planning
  <1>4. Lost = {} /\ faults + conflicts = 0  BY DEF Lost, Init
  <1>5. VisitsAccounted  BY <1>1, <1>4, FS_EmptySet DEF VisitsAccounted
  <1> QED  BY <1>2, <1>3, <1>5 DEF VisitInv

(* A case opened for a visit is on its contract, with its intervention,    *)
(* unless a call failed or a save was refused.                             *)
THEOREM MaintenanceVisitsAccounted == Spec => []VisitsAccounted
  <1>1. VisitInv => VisitsAccounted  BY DEF VisitInv
  <1> QED  BY <1>1, TypeInit, TypeStep, VisitInit, VisitStep, PTL DEF Spec

-----------------------------------------------------------------------------
(* The due dates.                                                          *)

LEMMA MovedGrows ==
  ASSUME TypeInv, Next
  PROVE  moved \subseteq moved'
  <1>1. ASSUME NEW r \in Requests, NEW c \in Contracts, RequestStep(r, c)
        PROVE  moved \subseteq moved'
    BY <1>1, RequestPath DEF Fresh
  <1>2. ASSUME NEW p \in Processes, ProcessStep(p)
        PROVE  UNCHANGED moved
    BY <1>2 DEF ProcessStep, SaveContract, CloseContract, OpenCase, PlanIntervention,
       RecordVisit, Fail, history
  <1>3. ASSUME NEW c \in Contracts, ProcessContract(c)  PROVE UNCHANGED moved
    BY <1>3 DEF ProcessContract, history
  <1>4. ASSUME NEW n \in Notifiers, NoticeStep(n)  PROVE UNCHANGED moved
    BY <1>4 DEF NoticeStep, SearchReminders, EndQueue, MarkRead, EndReminders, QueueReminder,
       Remind, history
  <1>5. ASSUME NEW j \in Jobs, Restart(j)  PROVE UNCHANGED moved
    BY <1>5 DEF Restart
  <1>6. Alike => UNCHANGED moved
    BY DEF Alike, StartRound, SearchDue, EndRound, FailToStart, NewDay, history
  <1> QED  BY <1>1, <1>2, <1>3, <1>4, <1>5, <1>6, Actions

SameDue(c) == SameHistory(c) /\ contract'[c].due = contract[c].due
                             /\ contract'[c].every = contract[c].every

(* No save but that of a visit moves the due date of a contract, unless a  *)
(* user did.                                                               *)
LEMMA DuesPath ==
  ASSUME TypeInv, DueInv, Next, NEW c \in Contracts \ moved
  PROVE  SameDue(c) \/ \E p \in Processes : Recording(p) /\ op[p].contract = c
  <1>1. ASSUME NEW k \in Contracts, NEW read \in Contract, NEW to \in Contract,
               Save(k, read, to), k = c => to.due = read.due /\ to.every = read.every
        PROVE  SameDue(c)
    BY <1>1, SaveFacts, MergedFacts DEF SameDue, SameHistory
  <1>2. ASSUME NEW p \in Processes, SaveContract(p) \/ CloseContract(p),
               Save(op[p].contract, op[p].read, op[p].to)
        PROVE  SameDue(c)
    <2>1. pc[p] \in {"save", "close"}  BY <1>2 DEF SaveContract, CloseContract
    <2>2. op[p].contract = c => op[p].to.due = op[p].read.due /\ op[p].to.every = op[p].read.every
      BY <2>1 DEF DueInv, DueRead, Steady
    <2> QED  BY <1>1, <1>2, <2>1, <2>2, OpFacts DEF Held
  <1>3. ASSUME NEW k \in Contracts, NEW d \in Contract,
               Save(k, d, Ended(d)) \/ Save(k, d, [d EXCEPT !.pending = TRUE])
        PROVE  SameDue(c)
    BY <1>1, <1>3, EndedFacts, PendingFacts
  <1>4. \A j \in Jobs, k \in Contracts : round[j].read[k] \in Contract
    BY RoundLeft
  <1>5. ASSUME NEW n \in Notifiers, NEW k \in Contracts, QueueReminder(n, k)
        PROVE  SameDue(c)
    BY <1>3, <1>4, <1>5, Types DEF QueueReminder
  <1>6. ASSUME NEW p \in Processes, Recording(p), op[p].contract # c
        PROVE  SameDue(c)
    BY <1>6, RecordingFacts DEF SameDue, SameHistory
  <1>7. UNCHANGED contract => SameDue(c)
    BY DEF SameDue, SameHistory
  <1> QED  BY <1>2, <1>3, <1>4, <1>5, <1>6, <1>7, DocsPath, Types DEF Writes

(* What a visit writes on a contract that no user moved.                   *)
LEMMA DueRecorded ==
  ASSUME TypeInv, VisitInv, DueInv, NEW c \in Contracts \ moved, NEW p \in Processes,
         Recording(p), op[p].contract = c
  PROVE  LET k == contract[c]
             l == contract'[c]
         IN  /\ k.due < l.due /\ l.due = AddMonths(k.due, k.every) /\ l.every = k.every
             /\ l.version = k.version + 1
             /\ \E e \in Entry : e.due = k.due /\ l.visits = <<e>> \o k.visits
  <1> DEFINE d == op[p].read
             k == contract[c]
             m == Merged(k, d, Advanced(d))
             e == [visit |-> op[p].visit, due |-> d.due]
             next == AddMonths(d.due, d.every)
  <1>1. /\ k \in Contract /\ d \in Contract /\ pc[p] = "record" /\ e \in Entry
        /\ d.version = k.version /\ contract'[c].version = k.version + 1
        /\ contract'[c].visits = <<e>> \o d.visits
        /\ contract'[c].due = m.due /\ contract'[c].every = m.every
    BY RecordingFacts
  <1>2. d.visits = k.visits
    BY <1>1 DEF VisitInv, VersionRead, Versioned, Planning
  <1>3. d.every = k.every /\ d.due = k.due
    BY <1>1 DEF DueInv, DueRead, Steady, Planning
  <1>4. d.due \in Nat /\ d.every \in Nat \ {0}  BY <1>1, MaintenanceAssumption DEF Contract
  <1>5. next \in Nat /\ next > d.due
    BY <1>4, AddMonthsBehind
  <1>6. /\ Advanced(d) \in Contract /\ Advanced(d).due = next /\ Advanced(d).every = d.every
    BY <1>1, AdvancedFacts
  <1>7. e.due = d.due  OBVIOUS
  <1> HIDE DEF next, d, k, e
  <1>8. m.due = next /\ m.every = k.every
    BY <1>1, <1>4, <1>5, <1>6, MergedFacts
  <1>9. next = AddMonths(k.due, k.every)  BY <1>3 DEF next
  <1> QED  BY <1>1, <1>2, <1>3, <1>4, <1>5, <1>7, <1>8, <1>9 DEF k

LEMMA HistoryFacts ==
  ASSUME NEW v \in Seq(Entry)
  PROVE  /\ Len(v) \in Nat /\ DOMAIN v = 1..Len(v)
         /\ \A n \in DOMAIN v : n \in Nat /\ v[n].due \in Nat
  <1>1. \A e \in Entry : e.due \in Nat  BY DEF Entry
  <1> QED  BY <1>1, SeqFacts

LEMMA OrderStep ==
  ASSUME TypeInv, VisitInv, DueInv, Next, NEW c \in Contracts \ moved'
  PROVE  InOrder(contract'[c])
  <1>1. c \in Contracts \ moved /\ InOrder(contract[c])  BY MovedGrows DEF DueInv
  <1>2. CASE SameDue(c)
    BY <1>1, <1>2 DEF SameDue, SameHistory, InOrder, NextDue
  <1>3. ASSUME NEW p \in Processes, Recording(p), op[p].contract = c
        PROVE  InOrder(contract'[c])
    <2> DEFINE k == contract[c]
               l == contract'[c]
    <2>1. /\ k.due < l.due /\ l.due = AddMonths(k.due, k.every) /\ l.every = k.every
          /\ \E e \in Entry : e.due = k.due /\ l.visits = <<e>> \o k.visits
      BY <1>1, <1>3, DueRecorded
    <2>2. PICK e \in Entry : e.due = k.due /\ l.visits = <<e>> \o k.visits  BY <2>1
    <2>3. k.visits \in Seq(Entry) /\ k.due \in Nat /\ k.every \in Nat \ {0}
      <3>1. k \in Contract  BY <1>1, Types
      <3> QED  BY <3>1, MaintenanceAssumption DEF Contract
    <2> DEFINE v == k.visits
    <2> HIDE DEF l, k
    <2>4. /\ DOMAIN l.visits = 1..(Len(v) + 1) /\ l.visits[1] = e
          /\ \A i \in 1..(Len(v) + 1) : i # 1 => i - 1 \in DOMAIN v
                                                  /\ l.visits[i] = v[i - 1]
      BY <2>2, <2>3, SeqPush
    <2>5. /\ Len(v) \in Nat /\ DOMAIN v = 1..Len(v)
          /\ \A n \in DOMAIN v : n \in Nat /\ v[n].due \in Nat
      BY <2>3, HistoryFacts
    <2>6. \A j \in DOMAIN v :
            /\ v[j].due < NextDue(k, j)
            /\ \A i \in 1..j : Behind(v[j].due, NextDue(k, i), ((j + 1) - i) * k.every)
      BY <1>1 DEF k, InOrder
    <2>7. /\ NextDue(l, 1) = l.due /\ NextDue(k, 1) = k.due
          /\ \A i \in 2..(Len(v) + 1) : NextDue(l, i) = NextDue(k, i - 1)
      <3>1. NextDue(l, 1) = l.due /\ NextDue(k, 1) = k.due  BY DEF NextDue
      <3>2. ASSUME NEW i \in 2..(Len(v) + 1)  PROVE NextDue(l, i) = NextDue(k, i - 1)
        <4>1. NextDue(l, i) = l.visits[i - 1].due  BY <3>2 DEF NextDue
        <4>2. CASE i = 2  BY <2>2, <2>4, <3>1, <4>1, <4>2
        <4>3. CASE i # 2
          <5>1. i - 1 \in 1..(Len(v) + 1) /\ i - 1 # 1  BY <2>5, <4>3
          <5>2. l.visits[i - 1] = v[(i - 1) - 1]  BY <2>4, <5>1
          <5> QED  BY <4>1, <5>1, <5>2 DEF NextDue
        <4> QED  BY <4>2, <4>3
      <3> QED  BY <3>1, <3>2
    <2> SUFFICES ASSUME NEW j \in DOMAIN l.visits
                 PROVE  /\ l.visits[j].due < NextDue(l, j)
                        /\ \A i \in 1..j :
                             Behind(l.visits[j].due, NextDue(l, i), ((j + 1) - i) * l.every)
      BY DEF InOrder, l
    <2>8. CASE j = 1
      <3>1. l.visits[j].due = k.due  BY <2>2, <2>4, <2>8
      <3>2. Behind(k.due, l.due, k.every)  BY <2>1, <2>3, AddMonthsBehind
      <3>3. \A i \in 1..j : i = 1 /\ ((j + 1) - i) * k.every = k.every  BY <2>3, <2>8
      <3> QED  BY <2>1, <2>7, <2>8, <3>1, <3>2, <3>3
    <2>9. CASE j # 1
      <3> DEFINE g == j - 1
      <3>1. g \in DOMAIN v /\ l.visits[j] = v[g] /\ j \in 2..(Len(v) + 1)
        BY <2>4, <2>5, <2>9
      <3>2. l.visits[j].due < NextDue(l, j)  BY <2>6, <2>7, <3>1
      <3>3. Behind(v[g].due, l.due, j * k.every)
        <4>1. 1 \in 1..g  BY <2>5, <3>1
        <4>2. Behind(v[g].due, k.due, ((g + 1) - 1) * k.every)  BY <2>6, <2>7, <3>1, <4>1
        <4>3. /\ ((g + 1) - 1) * k.every \in Nat
              /\ ((g + 1) - 1) * k.every + k.every = j * k.every
          <5>1. \A x, y \in Nat : x * y \in Nat /\ x * y + y = (x + 1) * y  OBVIOUS
          <5>2. g \in Nat /\ k.every \in Nat /\ (g + 1) - 1 = g /\ g + 1 = j
            BY <2>3, <2>5, <3>1
          <5> HIDE DEF g
          <5> QED  BY <5>1, <5>2
        <4>4. v[g].due \in Nat  BY <2>5, <3>1
        <4> QED  BY <2>1, <2>3, <4>2, <4>3, <4>4, BehindOnce
      <3>4. ASSUME NEW i \in 1..j
            PROVE  Behind(l.visits[j].due, NextDue(l, i), ((j + 1) - i) * l.every)
        <4>1. CASE i = 1
          <5>1. ((j + 1) - i) * k.every = j * k.every  BY <3>1, <4>1
          <5> QED  BY <2>1, <2>7, <3>1, <3>3, <4>1, <5>1
        <4>2. CASE i # 1
          <5>1. i - 1 \in 1..g /\ i \in 2..(Len(v) + 1)  BY <2>5, <3>1, <4>2
          <5>2. (g + 1) - (i - 1) = (j + 1) - i  BY <3>1
          <5>3. Behind(v[g].due, NextDue(k, i - 1), ((g + 1) - (i - 1)) * k.every)
            BY <2>6, <3>1, <5>1
          <5> QED  BY <2>1, <2>7, <3>1, <5>1, <5>2, <5>3
        <4> QED  BY <4>1, <4>2
      <3> QED  BY <3>2, <3>4
    <2> QED  BY <2>8, <2>9
  <1> QED  BY <1>1, <1>2, <1>3, DuesPath

LEMMA DueReadStep ==
  ASSUME TypeInv, VisitInv, DueInv, Next, NEW q \in Processes
  PROVE  DueRead(q)'
  <1> DEFINE c == op'[q].contract
             o == op'[q]
  <1> SUFFICES ASSUME c \notin moved', pc'[q] \in Held, pc'[q] # "mark"
               PROVE  Steady(pc'[q], o, contract')
    BY DEF DueRead, Steady, Held, Planning
  <1>1. CASE Fresh(q)
    BY <1>1 DEF Fresh, Steady
  <1>2. CASE Carries(q)
    <2>1. TypeInv'  BY TypeStep
    <2>2. Shape(q)'  BY <2>1 DEF TypeInv
    <2>3. c \in Contracts \ moved  BY <2>2, MovedGrows DEF Shape, Fits
    <2>4. c = op[q].contract /\ o.read = op[q].read /\ pc[q] \in Held
      BY <1>2 DEF Carries, Held
    <2>5. Steady(pc[q], op[q], contract)  BY <2>3, <2>4 DEF DueInv, DueRead
    <2>6. CASE pc'[q] \in {"save", "close"}
      <3>1. o = op[q] /\ pc'[q] = pc[q]  BY <1>2, <2>6 DEF Carries
      <3> QED  BY <2>5, <2>6, <3>1 DEF Steady, Planning
    <2>7. CASE pc'[q] \in Planning
      <3>1. pc[q] \in Planning  BY <1>2, <2>7 DEF Carries, Planning
      <3>2. /\ o.read.every = contract[c].every
            /\ o.read.version = contract[c].version => o.read.due = contract[c].due
        BY <2>4, <2>5, <3>1 DEF Steady
      <3>3. CASE SameDue(c)
        BY <2>7, <3>2, <3>3 DEF SameDue, SameHistory, Steady, Planning
      <3>4. ASSUME NEW p \in Processes, Recording(p), op[p].contract = c
            PROVE  Steady(pc'[q], o, contract')
        <4>1. contract'[c].every = contract[c].every
              /\ contract'[c].version = contract[c].version + 1
          BY <2>3, <3>4, DueRecorded
        <4>2. o.read.version <= contract[c].version
          BY <2>4, <3>1 DEF VisitInv, VersionRead, Versioned
        <4>3. o.read.version \in Nat /\ contract[c].version \in Nat
          BY <2>3, <2>4, OpFacts, Types DEF Contract
        <4>4. o.read.version # contract'[c].version  BY <4>1, <4>2, <4>3
        <4> QED  BY <2>7, <3>2, <4>1, <4>4 DEF Steady, Planning
      <3> QED  BY <2>3, <3>3, <3>4, DuesPath
    <2> QED  BY <2>6, <2>7 DEF Held, Planning
  <1> QED  BY <1>1, <1>2, ProcPath

LEMMA DueStep == TypeInv /\ VisitInv /\ DueInv /\ [Next]_vars => DueInv'
  <1> SUFFICES ASSUME TypeInv, VisitInv, DueInv, [Next]_vars  PROVE DueInv'
    OBVIOUS
  <1>1. CASE UNCHANGED vars
    BY <1>1 DEF vars, jobVars, history, DueInv, DueRead
  <1>2. CASE Next
    BY <1>2, OrderStep, DueReadStep DEF DueInv
  <1> QED  BY <1>1, <1>2

LEMMA DueInit == Init => DueInv
  <1> SUFFICES ASSUME Init  PROVE DueInv
    OBVIOUS
  <1>1. \A c \in Contracts : contract[c].visits = << >>  BY DEF Init, Created
  <1>2. \A c \in Contracts : InOrder(contract[c])  BY <1>1 DEF InOrder
  <1>3. \A p \in Processes : DueRead(p)  BY DEF Init, DueRead, Steady, Planning
  <1> QED  BY <1>2, <1>3 DEF DueInv

(* In the history of a contract whose due date no user moved, the dates    *)
(* grow, the newest first, and the next one is later than all.             *)
LEMMA OrderedHistory ==
  ASSUME NEW k \in Contract, InOrder(k), NEW i \in DOMAIN k.visits, NEW j \in DOMAIN k.visits,
         i < j
  PROVE  k.visits[i].due > k.visits[j].due
  <1> DEFINE v == k.visits
             Bad == {n \in DOMAIN v : \E m \in DOMAIN v : m < n /\ ~(v[m].due > v[n].due)}
  <1>1. /\ Len(v) \in Nat /\ DOMAIN v = 1..Len(v)
        /\ \A n \in DOMAIN v : v[n].due \in Nat
    <2>1. v \in Seq(Entry)  BY DEF Contract
    <2> HIDE DEF v
    <2> QED  BY <2>1, HistoryFacts
  <1>2. \A n \in DOMAIN v : n # 1 => v[n].due < v[n - 1].due
    BY DEF InOrder, NextDue
  <1> HIDE DEF v
  <1>3. ASSUME Bad # {}  PROVE FALSE
    <2>0. Bad \in SUBSET Nat  BY <1>1
    <2>1. PICK n \in Bad : \A m \in Bad : n <= m
      <3> HIDE DEF Bad
      <3> QED  BY <1>3, <2>0, NatLeast
    <2>2. PICK m \in DOMAIN v : m < n /\ ~(v[m].due > v[n].due)  BY <2>1
    <2>3. /\ n \in DOMAIN v /\ n - 1 \in DOMAIN v /\ n # 1 /\ m \in Nat /\ n \in Nat
      BY <1>1, <2>1, <2>2
    <2>4. n - 1 \notin Bad
      <3> HIDE DEF Bad
      <3> QED  BY <2>1, <2>3
    <2>5. v[n].due < v[n - 1].due  BY <1>2, <2>3
    <2>6. m = n - 1 \/ m < n - 1  BY <2>2, <2>3
    <2>7. m = n - 1 \/ v[m].due > v[n - 1].due  BY <2>3, <2>4, <2>6
    <2> QED  BY <1>1, <2>2, <2>3, <2>5, <2>7
  <1>4. v[i].due > v[j].due  BY <1>3 DEF v
  <1> QED  BY <1>4 DEF v

LEMMA DueInvGivesOnce ==
  ASSUME TypeInv, DueInv
  PROVE  OneVisitPerDue
  <1> SUFFICES ASSUME NEW c \in Contracts \ moved
               PROVE  LET v == contract[c].visits
                      IN  /\ \A i, j \in DOMAIN v : i < j => v[i].due > v[j].due
                          /\ v # << >> => contract[c].due > v[1].due
    BY DEF OneVisitPerDue
  <1> DEFINE k == contract[c]
  <1>1. k \in Contract /\ InOrder(k)  BY Types DEF DueInv
  <1>2. \A i, j \in DOMAIN k.visits : i < j => k.visits[i].due > k.visits[j].due
    BY <1>1, OrderedHistory
  <1>3. ASSUME k.visits # << >>  PROVE k.due > k.visits[1].due
    <2>1. k.visits \in Seq(Entry) /\ k.due \in Nat  BY <1>1 DEF Contract
    <2>2. 1 \in DOMAIN k.visits
      <3> DEFINE v == k.visits
      <3>1. v \in Seq(Entry) /\ v # << >>  BY <1>3, <2>1
      <3> HIDE DEF v
      <3> QED  BY <3>1 DEF v
    <2>3. k.visits[1].due \in Nat  BY <2>1, <2>2, HistoryFacts
    <2>4. k.visits[1].due < k.due  BY <1>1, <2>2 DEF InOrder, NextDue
    <2> QED  BY <2>1, <2>3, <2>4
  <1> QED  BY <1>2, <1>3

LEMMA DueInvGivesMonths ==
  ASSUME TypeInv, DueInv
  PROVE  SlipsOnce
  <1> SUFFICES ASSUME NEW c \in Contracts \ moved, NEW i \in DOMAIN DueDates(c),
                      NEW j \in DOMAIN DueDates(c), i < j
               PROVE  MonthOf(DueDates(c)[i])
                        \in MonthAimed(c, i, j) .. (MonthAimed(c, i, j) + 1)
    BY DEF SlipsOnce
  <1> DEFINE k    == contract[c]
             past == [n \in DOMAIN k.visits |-> k.visits[n].due]
             dues == <<k.due>> \o past
             g    == j - 1
  <1>1. k \in Contract /\ InOrder(k)  BY Types DEF DueInv
  <1>2. k.visits \in Seq(Entry) /\ k.due \in Nat /\ k.every \in Nat \ {0}
    BY <1>1, MaintenanceAssumption DEF Contract
  <1>3. /\ Len(k.visits) \in Nat /\ DOMAIN k.visits = 1..Len(k.visits)
        /\ \A n \in DOMAIN k.visits : k.visits[n].due \in Nat
    BY <1>2, HistoryFacts
  <1>4. past \in Seq(Nat) /\ Len(past) = Len(k.visits) /\ DOMAIN past = DOMAIN k.visits
    <2>1. past \in [1..Len(k.visits) -> Nat]  BY <1>3
    <2>2. \A n \in Nat : \A f \in [1..n -> Nat] : f \in Seq(Nat) /\ Len(f) = n
                                                   /\ DOMAIN f = 1..n
      OBVIOUS
    <2> HIDE DEF past
    <2> QED  BY <1>3, <2>1, <2>2
  <1>5. \A n \in DOMAIN k.visits : past[n] = k.visits[n].due  OBVIOUS
  <1>6. dues = DueDates(c)  BY DEF DueDates
  <1> HIDE DEF past
  <1>7. /\ dues[1] = k.due /\ DOMAIN dues = 1..(Len(past) + 1)
        /\ \A n \in 1..(Len(past) + 1) : n # 1 => dues[n] = past[n - 1]
    BY <1>2, <1>4, SeqPush
  <1>8. /\ i \in 1..g /\ g \in DOMAIN k.visits /\ j \in Nat
        /\ \A n \in 1..g : n \in 1..(Len(past) + 1)
    BY <1>3, <1>4, <1>6, <1>7
  <1>9. \A n \in DOMAIN dues : dues[n] = NextDue(k, n)
    <2> TAKE n \in DOMAIN dues
    <2>1. CASE n = 1  BY <1>7, <2>1 DEF NextDue
    <2>2. CASE n # 1
      <3>1. n \in 1..(Len(past) + 1) /\ n - 1 \in DOMAIN k.visits  BY <1>3, <1>4, <1>7, <2>2
      <3> QED  BY <1>5, <1>7, <2>2, <3>1 DEF NextDue
    <2> QED  BY <2>1, <2>2
  <1> HIDE DEF dues
  <1>10. dues[j] = k.visits[g].due
    <2>1. j \in DOMAIN dues /\ j # 1  BY <1>6, <1>8
    <2> QED  BY <1>9, <2>1 DEF NextDue
  <1>11. Behind(dues[j], dues[i], ((g + 1) - i) * k.every)
    <2>1. Behind(k.visits[g].due, NextDue(k, i), ((g + 1) - i) * k.every)
      BY <1>1, <1>8 DEF InOrder
    <2>2. dues[i] = NextDue(k, i)  BY <1>6, <1>9
    <2> QED  BY <1>10, <2>1, <2>2
  <1>12. MonthAimed(c, i, j) = MonthOf(dues[j]) + ((g + 1) - i) * k.every
    <2>1. (g + 1) - i = j - i  BY <1>8
    <2> QED  BY <1>6, <2>1 DEF MonthAimed
  <1>13. MonthOf(dues[j]) \in Nat
    <2>1. dues[j] \in Nat  BY <1>3, <1>8, <1>10
    <2> QED  BY <2>1, MonthIn
  <1>14. ((g + 1) - i) * k.every \in Nat
    <2>1. (g + 1) - i \in Nat  BY <1>8
    <2>2. k.every \in Nat  BY <1>2
    <2>3. \A x, y \in Nat : x * y \in Nat  OBVIOUS
    <2> QED  BY <2>1, <2>2, <2>3
  <1> QED  BY <1>6, <1>11, <1>12, <1>13, <1>14 DEF Behind

(* Unless a user moved it, no due date is covered twice.                   *)
THEOREM MaintenanceOneVisitPerDue == Spec => []OneVisitPerDue
  BY TypeInit, TypeStep, VisitInit, VisitStep, DueInit, DueStep, DueInvGivesOnce, PTL DEF Spec

(* Whatever the lengths of the months, a contract whose due date no user   *)
(* moved is never ahead of its recurrence, and falls behind it by a month  *)
(* at most once: the slips of addMonthsDateOnly do not add up.             *)
THEOREM MaintenanceSlipsOnce == Spec => []SlipsOnce
  BY TypeInit, TypeStep, VisitInit, VisitStep, DueInit, DueStep, DueInvGivesMonths, PTL DEF Spec

-----------------------------------------------------------------------------
(* The reminders, while one process works at a time.                       *)

Lone(p)   == \A q \in Processes : q # p => pc[q] = "idle"
Others(p) == \A q \in Processes : q # p => pc'[q] = pc[q] /\ op'[q] = op[q]

LEMMA AloneLone ==
  ASSUME TypeInv, InTurn, NEW p \in Processes, pc[p] # "idle" \/ Quiet
  PROVE  Lone(p)
  BY DEF InTurn, Alone, Lone, Quiet

LEMMA OneMoves ==
  ASSUME TypeInv, NEW p \in Processes, Lone(p), Others(p),
         Reads(p)', p \in Notifiers => Follows(p)', \A c \in Contracts : Told(c)'
  PROVE  InTurn'
  <1>1. \A q \in Processes : q # p => pc'[q] = "idle"  BY DEF Lone, Others
  <1>2. Alone'  BY <1>1 DEF Alone
  <1>3. \A q \in Processes : Reads(q)'  BY <1>1 DEF Reads, Held
  <1>4. \A n \in Notifiers : Follows(n)'  BY <1>1, Types DEF Follows
  <1> QED  BY <1>2, <1>3, <1>4 DEF InTurn

LEMMA NotMarking ==
  ASSUME TypeInv, NEW p \in Processes, Lone(p), p \notin Notifiers \/ pc[p] \notin {"mark", "save"}
  PROVE  \A c \in Contracts : ~Marking(c)
  BY Types DEF Lone, Marking

SameAlarm(c) == /\ contract'[c].due = contract[c].due
                /\ contract'[c].reminded = contract[c].reminded
                /\ contract'[c].live = contract[c].live

LEMMA ToldKept ==
  ASSUME TypeInv, NEW c \in Contracts, Told(c), SameAlarm(c), notices'[c] = notices[c],
         faults' \in {faults, faults + 1}, moved \subseteq moved', Marking(c) => Marking(c)'
  PROVE  Told(c)'
  <1>1. faults' = 0 => faults = 0
    <2>1. faults \in Nat  BY TypeParts DEF CountType
    <2> QED  BY <2>1
  <1>2. \A d : Has(c, d)' <=> Has(c, d)  BY DEF Has
  <1> QED  BY <1>1, <1>2 DEF Told, SameAlarm

LEMMA AlarmSaved ==
  ASSUME TypeInv, NEW k \in Contracts, NEW read \in Contract, NEW to \in Contract,
         Save(k, read, to), to.due = read.due, to.reminded = read.reminded,
         to.live = read.live
  PROVE  \A c \in Contracts : SameAlarm(c)
  <1>1. /\ contract'[k] = Merged(contract[k], read, to) /\ contract[k] \in Contract
        /\ \A c \in Contracts : c # k => contract'[c] = contract[c]
    BY SaveFacts
  <1>2. SameAlarm(k)  BY <1>1, MergedFacts DEF SameAlarm
  <1> QED  BY <1>1, <1>2 DEF SameAlarm

(* A request reads a contract.                                             *)
LEMMA RemindRequest ==
  ASSUME TypeInv, InTurn, Next, NEW r \in Requests, NEW c \in Contracts, RequestStep(r, c), Quiet
  PROVE  InTurn'
  <1>1. /\ r \in Processes /\ r \notin Notifiers  BY Types
  <1>2. Fresh(r) /\ Others(r)  BY RequestPath DEF Others
  <1>3. Lone(r)  BY <1>1, AloneLone
  <1>4. UNCHANGED <<contract, notices, faults>>
    BY DEF RequestStep, UpdateRead, RemoveRead, Generate, Called
  <1>5. Reads(r)'  BY <1>1, <1>2 DEF Fresh, Reads, Held
  <1>6. ASSUME NEW k \in Contracts  PROVE Told(k)'
    <2>1. ~Marking(k)  BY <1>1, <1>3, NotMarking
    <2>2. Told(k)  BY DEF InTurn
    <2> QED  BY <1>4, <2>1, <2>2, MovedGrows, ToldKept DEF SameAlarm
  <1> QED  BY <1>1, <1>2, <1>3, <1>5, <1>6, OneMoves

(* A save, while nothing else happens, writes what it means to.            *)
LEMMA RemindSave ==
  ASSUME TypeInv, DueInv, InTurn, NEW p \in Processes, pc[p] \in {"save", "close"},
         Save(op[p].contract, op[p].read, op[p].to), Done(p),
         UNCHANGED <<round, notices, moved, faults>>
  PROVE  InTurn'
  <1> DEFINE k == op[p].contract
             o == op[p]
  <1>0. PICK c \in Contracts : c = k  BY OpFacts DEF Held
  <1>1. Lone(p)  BY AloneLone
  <1>2. Turn(p, Resume(p), NoOp) /\ Resume(p) \in {"idle", "round", "notify"}  BY DoneTurn
  <1>3. pc'[p] \in {"idle", "round", "notify"} /\ Others(p)  BY <1>2, TurnFacts DEF Others
  <1>4. Reads(p)  BY DEF InTurn
  <1>5. /\ o.read = contract[c] /\ o.read \in Contract /\ o.to \in Contract
        /\ contract'[c] = Merged(contract[c], o.read, o.to)
        /\ \A x \in Contracts : x # c => contract'[x] = contract[x]
    BY <1>0, <1>4, OpFacts, SaveFacts DEF Reads, Held
  <1>6. /\ contract'[c].due = o.to.due /\ contract'[c].reminded = o.to.reminded
        /\ contract'[c].live = o.to.live
    BY <1>5, MergedFacts
  <1>7. Reads(p)'  BY <1>3 DEF Reads, Held
  <1>8. ASSUME p \in Notifiers
        PROVE  Follows(p)'
    <2>1. Follows(p)  BY <1>8 DEF InTurn
    <2>2. pc[p] = "save" /\ c \notin round[p].left
      BY <1>0, <2>1 DEF Follows
    <2>3. o.to.reminded = o.read.due /\ o.to.due = o.read.due /\ o.to.live = o.read.live
      BY <1>4, <1>8 DEF Reads
    <2>4. /\ contract'[c].due = contract[c].due /\ contract'[c].live = contract[c].live
          /\ contract'[c].reminded = contract[c].due
      BY <1>5, <1>6, <2>3
    <2>5. pc'[p] = "notify"
      <3>1. Resume(p) = "notify"  BY <1>8, Types DEF Resume
      <3> QED  BY <1>2, <3>1, TurnFacts
    <2>6. round[p].left \subseteq Contracts /\ round' = round  BY <1>8, Types, RoundLeft
    <2> QED  BY <1>5, <2>1, <2>2, <2>4, <2>5, <2>6 DEF Follows
  <1>9. \A d : \A x \in Contracts : Has(x, d)' <=> Has(x, d)  BY DEF Has
  <1>10. ASSUME NEW x \in Contracts, x # c  PROVE Told(x)'
    <2>1. ~Marking(x)  BY <1>0, <1>1, <1>10, Types DEF Lone, Marking
    <2>2. Told(x)  BY DEF InTurn
    <2> QED  BY <1>5, <1>10, <2>1, <2>2, ToldKept DEF SameAlarm
  <1>11. Told(c)'
    <2>1. Told(c)  BY DEF InTurn
    <2>2. CASE p \in Notifiers
      <3>1. /\ contract'[c].due = contract[c].due /\ contract'[c].reminded = contract[c].due
            /\ Has(c, contract[c].due)
        <4>1. Follows(p) BY <2>2 DEF InTurn
        <4>2. pc[p] = "save" /\ Has(c, contract[c].due)  BY <1>0, <4>1 DEF Follows
        <4>3. o.to.reminded = o.read.due /\ o.to.due = o.read.due
          BY <1>4, <2>2 DEF Reads
        <4> QED  BY <1>5, <1>6, <4>2, <4>3
      <3> QED  BY <1>9, <2>1, <3>1 DEF Told
    <2>3. CASE p \notin Notifiers
      <3>1. ~Marking(c)  BY <1>1, <2>3, NotMarking
      <3>2. /\ o.to.reminded \in {None, contract[c].reminded}
            /\ c \notin moved => o.to.reminded = contract[c].reminded
            /\ o.to.live => contract[c].live
        BY <1>0, <1>4, <1>5, <2>3 DEF Reads
      <3>3. c \notin moved => o.to.due = contract[c].due
        BY <1>0, <1>5 DEF DueInv, DueRead, Steady
      <3> QED  BY <1>6, <1>9, <2>1, <3>1, <3>2, <3>3 DEF Told
    <2> QED  BY <2>2, <2>3
  <1> QED  BY <1>1, <1>3, <1>7, <1>8, <1>10, <1>11, OneMoves

(* A process goes on with a visit, or gives up.                            *)
LEMMA RemindProcess ==
  ASSUME TypeInv, VisitInv, DueInv, InTurn, Next, NEW p \in Processes, ProcessStep(p)
  PROVE  InTurn'
  <1>1. UNCHANGED <<round, notices, moved>> /\ faults' \in {faults, faults + 1}
        /\ pc[p] \in Held
    BY DEF ProcessStep, SaveContract, CloseContract, OpenCase, PlanIntervention, RecordVisit,
       Fail, history, Held
  <1>2. pc[p] # "idle"  BY <1>1 DEF Held
  <1>3. Lone(p)  BY <1>2, AloneLone
  <1>4. p \in Notifiers => Follows(p)  BY DEF InTurn
  <1>5. ASSUME Done(p)
        PROVE  /\ Others(p) /\ Reads(p)'
               /\ p \in Notifiers => pc'[p] = "notify"
    <2>1. Turn(p, Resume(p), NoOp) /\ Resume(p) \in {"idle", "round", "notify"}
      BY <1>5, DoneTurn
    <2>2. pc'[p] = Resume(p) /\ Others(p)  BY <2>1, TurnFacts DEF Others
    <2>3. p \in Notifiers => Resume(p) = "notify"  BY Types DEF Resume
    <2>4. Reads(p)'  BY <2>1, <2>2 DEF Reads, Held
    <2> QED  BY <2>2, <2>3, <2>4
  <1>6. ASSUME UNCHANGED contract, p \notin Notifiers \/ faults' = faults + 1,
               NEW c \in Contracts
        PROVE  Told(c)'
    <2>1. Told(c)  BY DEF InTurn
    <2>2. CASE p \notin Notifiers
      <3>1. ~Marking(c)  BY <1>3, <2>2, NotMarking
      <3> QED  BY <1>1, <1>6, <2>1, <3>1, ToldKept DEF SameAlarm
    <2>3. CASE faults' = faults + 1
      <3>1. faults' # 0
        <4>1. faults \in Nat  BY TypeParts DEF CountType
        <4> QED  BY <2>3, <4>1
      <3>2. \A d : Has(c, d)' <=> Has(c, d)  BY <1>1 DEF Has
      <3> QED  BY <1>6, <2>1, <3>1, <3>2 DEF Told
    <2> QED  BY <1>6, <2>2, <2>3
  <1>7. CASE SaveContract(p) \/ CloseContract(p)
    <2>1. /\ pc[p] \in {"save", "close"} /\ Save(op[p].contract, op[p].read, op[p].to)
          /\ Done(p) /\ UNCHANGED <<round, notices, moved, faults>>
      BY <1>7 DEF SaveContract, CloseContract, history
    <2> QED  BY <2>1, RemindSave
  <1>8. CASE OpenCase(p) \/ PlanIntervention(p)
    <2>1. pc[p] \in {"open", "plan"} /\ UNCHANGED <<contract, faults>>
      BY <1>8 DEF OpenCase, PlanIntervention, history
    <2>2. p \notin Notifiers  BY <1>4, <2>1 DEF Follows
    <2>3. Others(p) /\ pc'[p] \in {"plan", "record"}
      <3>1. \E at \in {"plan", "record"} : \E o : Turn(p, at, o)
        BY <1>8, Types DEF OpenCase, PlanIntervention, Turn
      <3> QED  BY <3>1, TurnFacts DEF Others
    <2>4. Carries(p)
      <3>1. pc'[p] \in Held  BY <2>3 DEF Held
      <3> QED  BY <2>1, <2>3, <3>1, ProcPath DEF Fresh
    <2>5. op'[p].contract = op[p].contract /\ op'[p].read = op[p].read
      BY <2>4 DEF Carries
    <2>6. Reads(p)'
      <3>1. op[p].read = contract[op[p].contract]  BY <2>1 DEF InTurn, Reads, Held
      <3> QED  BY <2>1, <2>3, <2>5, <3>1 DEF Reads
    <2>7. \A c \in Contracts : Told(c)'
      BY <1>6, <2>1, <2>2
    <2> QED  BY <1>3, <2>2, <2>3, <2>6, <2>7, OneMoves
  <1>9. CASE RecordVisit(p)
    <2>1. pc[p] = "record" /\ Done(p) /\ UNCHANGED faults  BY <1>9 DEF RecordVisit
    <2>2. p \notin Notifiers  BY <1>4, <2>1 DEF Follows
    <2>3. CASE UNCHANGED contract
      <3>1. \A c \in Contracts : Told(c)'
        BY <1>6, <2>2, <2>3
      <3> QED  BY <1>3, <1>5, <2>1, <2>2, <3>1, OneMoves
    <2>4. CASE Recording(p)
      <3> DEFINE d == op[p].read
      <3>0. PICK c \in Contracts : c = op[p].contract  BY <2>4, RecordingFacts
      <3>1. /\ contract'[c].due = Merged(contract[c], d, Advanced(d)).due
            /\ contract'[c].reminded = Merged(contract[c], d, Advanced(d)).reminded
            /\ contract'[c].live = Merged(contract[c], d, Advanced(d)).live
            /\ d \in Contract
            /\ \A x \in Contracts : x # c => contract'[x] = contract[x]
        BY <2>4, <3>0, RecordingFacts
      <3>2. d = contract[c]  BY <2>1, <3>0 DEF InTurn, Reads, Held
      <3> HIDE DEF d
      <3>3. /\ Advanced(d) \in Contract /\ Advanced(d).due = AddMonths(d.due, d.every)
            /\ Advanced(d).reminded = None /\ Advanced(d).live = d.live
        BY <3>1, AdvancedFacts
      <3>4. d.due \in Nat /\ d.every \in Nat \ {0}
        BY <3>1, MaintenanceAssumption DEF Contract
      <3>5. AddMonths(d.due, d.every) \in Nat /\ AddMonths(d.due, d.every) > d.due
        BY <3>4, AddMonthsBehind
      <3>6. /\ contract'[c].due \in Nat /\ contract'[c].due > contract[c].due
            /\ contract'[c].reminded = None
        BY <3>1, <3>2, <3>3, <3>5, MergedFacts
      <3>7. \A x \in Contracts : ~Marking(x)  BY <1>3, <2>2, NotMarking
      <3>8. ASSUME NEW x \in Contracts, x # c  PROVE Told(x)'
        <4>1. Told(x)  BY DEF InTurn
        <4> QED  BY <1>1, <3>1, <3>7, <3>8, <4>1, ToldKept DEF SameAlarm
      <3>9. Told(c)'
        <4>1. Told(c)  BY DEF InTurn
        <4>2. \A e : Has(c, e)' <=> Has(c, e)  BY <1>1 DEF Has
        <4>3. ASSUME faults = 0, c \notin moved
              PROVE  /\ \A i \in DOMAIN notices[c] : notices[c][i] < contract'[c].due
                     /\ ~Has(c, contract'[c].due)
          <5>1. \A i \in DOMAIN notices[c] : notices[c][i] <= contract[c].due
            BY <4>1, <4>3 DEF Told
          <5>2. \A i \in DOMAIN notices[c] : notices[c][i] \in Nat
            <6>1. notices[c] \in Seq(Nat)  BY Types
            <6> QED  BY <6>1, SeqFacts
          <5>3. contract[c].due \in Nat  BY <3>2, <3>4
          <5>4. \A i \in DOMAIN notices[c] : notices[c][i] < contract'[c].due
            BY <3>6, <5>1, <5>2, <5>3
          <5>5. \A i \in DOMAIN notices[c] : notices[c][i] # contract'[c].due
            BY <3>6, <5>2, <5>4
          <5> QED  BY <5>4, <5>5 DEF Has
        <4>4. \A i \in DOMAIN notices[c] : notices[c][i] < contract'[c].due
                                             => notices[c][i] <= contract'[c].due
          <5>1. notices[c] \in Seq(Nat)  BY Types
          <5>2. \A i \in DOMAIN notices[c] : notices[c][i] \in Nat  BY <5>1, SeqFacts
          <5> QED  BY <3>6, <5>2
        <4> QED  BY <1>1, <2>1, <3>6, <4>1, <4>2, <4>3, <4>4 DEF Told
      <3> QED  BY <1>3, <1>5, <2>1, <2>2, <3>8, <3>9, OneMoves
    <2> QED  BY <1>9, <2>3, <2>4 DEF RecordVisit, Recording
  <1>10. CASE Fail(p)
    <2>1. Done(p) /\ UNCHANGED contract /\ faults' = faults + 1
          /\ pc[p] \in {"save", "close", "open", "plan", "record", "mark"}
      BY <1>10 DEF Fail
    <2>2. \A c \in Contracts : Told(c)'  BY <1>6, <2>1
    <2>3. ASSUME p \in Notifiers  PROVE Follows(p)'
      <3>1. Follows(p) /\ pc[p] \in {"mark", "save"}  BY <1>4, <2>1, <2>3 DEF Follows
      <3> QED  BY <1>1, <1>5, <2>1, <2>3, <3>1 DEF Follows
    <2> QED  BY <1>3, <1>5, <2>1, <2>2, <2>3, OneMoves
  <1> QED  BY <1>7, <1>8, <1>9, <1>10 DEF ProcessStep

(* The worker closes, plans or queues a contract.                          *)
LEMMA RemindRound ==
  ASSUME TypeInv, InTurn, Next, NEW k \in Contracts, ProcessContract(k)
  PROVE  InTurn'
  <1> DEFINE d == round[Worker].read[k]
  <1>1. /\ pc[Worker] = "round" /\ UNCHANGED <<notices, moved, faults>>
        /\ contract' = contract \/ Save(k, d, Ended(d)) \/ Save(k, d, [d EXCEPT !.pending = TRUE])
        /\ UNCHANGED <<pc, op>> \/ (PlanRead(Worker, k) /\ UNCHANGED contract)
    BY DEF ProcessContract, history
  <1>2. Worker \in Processes /\ Worker \notin Notifiers /\ d \in Contract
    BY Types, RoundLeft
  <1> HIDE DEF d
  <1>3. Lone(Worker)  BY <1>1, <1>2, AloneLone
  <1>4. \A c \in Contracts : SameAlarm(c)
    <2>1. contract' = contract => \A c \in Contracts : SameAlarm(c)  BY DEF SameAlarm
    <2>2. Save(k, d, Ended(d)) => \A c \in Contracts : SameAlarm(c)
      BY <1>2, EndedFacts, AlarmSaved
    <2>3. Save(k, d, [d EXCEPT !.pending = TRUE]) => \A c \in Contracts : SameAlarm(c)
      BY <1>2, PendingFacts, AlarmSaved
    <2> QED  BY <1>1, <2>1, <2>2, <2>3
  <1>5. Others(Worker) /\ Reads(Worker)'
    <2>1. CASE UNCHANGED <<pc, op>>
      BY <1>1, <2>1 DEF Others, Reads, Held
    <2>2. CASE PlanRead(Worker, k) /\ UNCHANGED contract
      <3>1. Fresh(Worker) /\ Others(Worker)
        BY <1>1, <1>2, <2>2, PlanReadFresh DEF Others
      <3> QED  BY <1>2, <3>1 DEF Fresh, Reads, Held
    <2> QED  BY <1>1, <2>1, <2>2
  <1>6. ASSUME NEW c \in Contracts  PROVE Told(c)'
    <2>1. ~Marking(c)  BY <1>2, <1>3, NotMarking
    <2>2. Told(c)  BY DEF InTurn
    <2> QED  BY <1>1, <1>4, <2>1, <2>2, ToldKept
  <1> QED  BY <1>2, <1>3, <1>5, <1>6, OneMoves

(* What the notifier has notified, with one more.                          *)
LEMMA Notified ==
  ASSUME NEW s \in Seq(Nat), NEW d \in Nat
  PROVE  LET t == Append(s, d)
         IN  /\ \A e : (\E i \in DOMAIN t : t[i] = e) <=> e = d \/ \E i \in DOMAIN s : s[i] = e
             /\ (\A i \in DOMAIN s : s[i] <= d) => \A i \in DOMAIN t : t[i] <= d
             /\ IsInjective(s) /\ (\A i \in DOMAIN s : s[i] # d) => IsInjective(t)
  <1> DEFINE t == Append(s, d)
             n == Len(s) + 1
  <1>1. /\ DOMAIN t = DOMAIN s \cup {n} /\ n \notin DOMAIN s /\ t[n] = d
        /\ \A j \in DOMAIN s : t[j] = s[j]
    BY SeqAdd
  <1> HIDE DEF t, n
  <1>2. IsInjective(s) /\ (\A i \in DOMAIN s : s[i] # d) => IsInjective(t)
    BY <1>1 DEF IsInjective
  <1>3. \A e : (\E i \in DOMAIN t : t[i] = e) <=> e = d \/ \E i \in DOMAIN s : s[i] = e
    BY <1>1
  <1>4. (\A i \in DOMAIN s : s[i] <= d) => \A i \in DOMAIN t : t[i] <= d
    BY <1>1
  <1> QED  BY <1>2, <1>3, <1>4 DEF t

(* The notifier searches, queues, notifies and marks.                      *)
LEMMA RemindNotice ==
  ASSUME TypeInv, InTurn, Next, NEW n \in Notifiers, NoticeStep(n),
         SearchReminders(n) => Quiet
  PROVE  InTurn'
  <1>1. n \in Processes /\ n \in Jobs  BY Types
  <1>2. UNCHANGED <<moved, faults>>
    BY DEF NoticeStep, SearchReminders, EndQueue, MarkRead, EndReminders, QueueReminder,
       Remind, history
  <1>3. Follows(n) /\ \A c \in Contracts : Told(c)  BY DEF InTurn
  <1>4. Lone(n)
    <2>1. Quiet \/ pc[n] # "idle"
      BY DEF NoticeStep, SearchReminders, EndQueue, MarkRead, EndReminders, QueueReminder,
         Remind
    <2> QED  BY <1>1, <2>1, AloneLone
  <1>5. round[n].left \subseteq Contracts /\ round[n] \in Round /\ round \in [Jobs -> Round]
    BY <1>1, RoundLeft, Types
  <1>6. ASSUME UNCHANGED <<contract, notices>>, NEW c \in Contracts, Marking(c) => Marking(c)'
        PROVE  Told(c)'
    BY <1>2, <1>3, <1>6, ToldKept DEF SameAlarm
  <1>7. CASE SearchReminders(n)
    <2>1. /\ UNCHANGED <<contract, notices, op>> /\ pc' = [pc EXCEPT ![n] = "sift"]
          /\ round' = [round EXCEPT ![n] = [left |-> Remindable(contract, today),
                                            read |-> contract, day |-> today]]
      BY <1>7 DEF SearchReminders
    <2>2. pc'[n] = "sift" /\ Others(n)  BY <1>1, <2>1, Types DEF Others
    <2>3. round'[n].read = contract'  BY <1>1, <1>5, <2>1
    <2>4. Reads(n)' /\ Follows(n)'  BY <2>2, <2>3 DEF Reads, Follows, Held
    <2>5. \A c \in Contracts : ~Marking(c)  BY <1>7 DEF Marking, Quiet, Processes, Jobs
    <2> QED  BY <1>1, <1>4, <1>6, <2>1, <2>2, <2>4, <2>5, OneMoves
  <1>8. ASSUME NEW k \in Contracts, QueueReminder(n, k)
        PROVE  InTurn'
    <2> DEFINE d == round[n].read[k]
    <2>1. /\ pc[n] = "sift" /\ UNCHANGED <<pc, op, notices>>
          /\ Save(k, d, [d EXCEPT !.pending = TRUE])
          /\ round' = [round EXCEPT ![n].left = @ \ {k}]
      BY <1>8 DEF QueueReminder, history
    <2>2. d \in Contract  BY <1>1, RoundLeft
    <2> HIDE DEF d
    <2>3. \A c \in Contracts : SameAlarm(c)  BY <2>1, <2>2, PendingFacts, AlarmSaved
    <2>4. round'[n].read = round[n].read  BY <1>1, <1>5, <2>1 DEF Round
    <2>5. Follows(n)'  BY <1>3, <2>1, <2>3, <2>4 DEF Follows, SameAlarm
    <2>6. Others(n) /\ Reads(n)'  BY <2>1 DEF Others, Reads, Held
    <2>7. \A c \in Contracts : Told(c)'
      <3>1. \A c \in Contracts : ~Marking(c)  BY <1>1, <1>4, <2>1, NotMarking
      <3> QED  BY <1>2, <1>3, <2>1, <2>3, <3>1, ToldKept
    <2> QED  BY <1>1, <1>4, <2>5, <2>6, <2>7, OneMoves
  <1>9. CASE EndQueue(n)
    <2>1. /\ pc[n] = "sift" /\ UNCHANGED <<contract, notices, op>>
          /\ pc' = [pc EXCEPT ![n] = "notify"]
          /\ round' = [round EXCEPT ![n].left = Remindable(round[n].read, round[n].day)]
      BY <1>9 DEF EndQueue, history
    <2>2. pc'[n] = "notify" /\ Others(n)  BY <1>1, <2>1, Types DEF Others
    <2>3. /\ round'[n].read = round[n].read
          /\ round'[n].left = Remindable(round[n].read, round[n].day)
      BY <1>1, <1>5, <2>1 DEF Round
    <2>4. Reads(n)'  BY <2>2 DEF Reads, Held
    <2>5. Follows(n)'
      <3>1. \A k \in Contracts : /\ round[n].read[k].due = contract[k].due
                                 /\ round[n].read[k].live = contract[k].live
                                 /\ round[n].read[k].reminded = contract[k].reminded
        BY <1>3, <2>1 DEF Follows
      <3>2. \A k \in round'[n].left : k \in Contracts /\ round[n].read[k].live
                                      /\ round[n].read[k].reminded # round[n].read[k].due
        BY <2>3 DEF Remindable
      <3>3. \A k \in round'[n].left : contract[k].live /\ contract[k].reminded # contract[k].due
        BY <3>1, <3>2
      <3> QED  BY <2>1, <2>2, <2>3, <3>1, <3>3 DEF Follows
    <2>6. \A c \in Contracts : ~Marking(c)  BY <1>1, <1>4, <2>1, NotMarking
    <2> QED  BY <1>1, <1>4, <1>6, <2>1, <2>2, <2>4, <2>5, <2>6, OneMoves
  <1>10. ASSUME NEW k \in Contracts, Remind(n, k)
         PROVE  InTurn'
    <2>1. /\ pc[n] = "notify" /\ k \in round[n].left /\ UNCHANGED contract
          /\ round' = [round EXCEPT ![n].left = @ \ {k}]
          /\ NotifyMembers(n, k) \/ UNCHANGED <<pc, op, notices>>
      BY <1>10 DEF Remind
    <2>2. round'[n].read = round[n].read /\ round'[n].left = round[n].left \ {k}
      BY <1>1, <1>5, <2>1 DEF Round
    <2>3. \A c \in Contracts : ~Marking(c)  BY <1>1, <1>4, <2>1, NotMarking
    <2>4. CASE UNCHANGED <<pc, op, notices>>
      <3>1. Follows(n)'  BY <1>3, <2>1, <2>2, <2>4 DEF Follows
      <3>2. Others(n) /\ Reads(n)'  BY <2>1, <2>4 DEF Others, Reads, Held
      <3> QED  BY <1>1, <1>4, <1>6, <2>1, <2>3, <2>4, <3>1, <3>2, OneMoves
    <2>5. CASE NotifyMembers(n, k)
      <3> DEFINE u == round[n].read[k].due
      <3>1. /\ pc'[n] = "mark" /\ op'[n].contract = k /\ Others(n)
        <4>1. Working(n, "mark", k, Blank, Blank)  BY <2>5 DEF NotifyMembers
        <4> QED  BY <1>1, <4>1, WorkingFacts DEF Others
      <3>2. u = contract[k].due /\ contract[k].live /\ contract[k].reminded # contract[k].due
        BY <1>3, <2>1 DEF Follows
      <3>3. contract[k] \in Contract /\ u \in Nat  BY <3>2, Types DEF Contract
      <3>4. notices[k] \in Seq(Nat)  BY Types
      <3> HIDE DEF u
      <3>5. /\ notices'[k] = Append(notices[k], u)
            /\ \A c \in Contracts : c # k => notices'[c] = notices[c]
        <4>1. notices' = [notices EXCEPT ![k] = Append(@, u)]  BY <2>5 DEF NotifyMembers, u
        <4> QED  BY <4>1, Types
      <3>6. \A e : Has(k, e)' <=> e = u \/ Has(k, e)
        <4>1. \A e : (\E i \in DOMAIN notices'[k] : notices'[k][i] = e)
                       <=> e = u \/ \E i \in DOMAIN notices[k] : notices[k][i] = e
          <5> DEFINE t == Append(notices[k], u)
          <5>1. \A e : (\E i \in DOMAIN t : t[i] = e)
                         <=> e = u \/ \E i \in DOMAIN notices[k] : notices[k][i] = e
            BY <3>3, <3>4, Notified
          <5>2. t = notices'[k]  BY <3>5
          <5> HIDE DEF t
          <5> QED  BY <5>1, <5>2
        <4> QED  BY <4>1 DEF Has
      <3>7. Reads(n)'  BY <3>1 DEF Reads, Held
      <3>8. Follows(n)'
        <4>1. Has(k, contract[k].due)'
          <5>1. PICK e : e = contract[k].due  OBVIOUS
          <5>2. Has(k, e)'  BY <3>2, <3>6, <5>1
          <5>3. contract'[k].due = e  BY <2>1, <5>1
          <5> QED  BY <5>2, <5>3 DEF Has
        <4> QED  BY <1>3, <2>1, <2>2, <3>1, <4>1 DEF Follows, Has
      <3>9. ASSUME NEW c \in Contracts, c # k  PROVE Told(c)'
        BY <1>2, <1>3, <2>1, <2>3, <3>5, <3>9, ToldKept DEF SameAlarm
      <3>10. Told(k)'
        <4>1. Marking(k)'  BY <3>1 DEF Marking
        <4>2. Told(k)  BY <1>3
        <4>3. contract'[k].reminded # None => Has(k, contract[k].reminded)'
          <5>1. PICK e : e = contract[k].reminded  OBVIOUS
          <5>2. e # None => Has(k, e)  BY <4>2, <5>1 DEF Told
          <5>3. e # None => Has(k, e)'  BY <3>6, <5>2
          <5>4. contract'[k].reminded = e  BY <2>1, <5>1
          <5> QED  BY <5>3, <5>4 DEF Has
        <4>4. ASSUME faults = 0, k \notin moved
              PROVE  /\ IsInjective(notices'[k])
                     /\ \A i \in DOMAIN notices'[k] : notices'[k][i] <= contract'[k].due
          <5>1. /\ IsInjective(notices[k])
                /\ \A i \in DOMAIN notices[k] : notices[k][i] <= u
            BY <3>2, <4>2, <4>4 DEF Told
          <5>2. \A i \in DOMAIN notices[k] : notices[k][i] # u
            BY <2>3, <3>2, <4>2, <4>4 DEF Told, Has
          <5> QED  BY <2>1, <3>2, <3>3, <3>4, <3>5, <5>1, <5>2, Notified
        <4> QED  BY <1>2, <4>1, <4>3, <4>4 DEF Told
      <3> QED  BY <1>1, <1>4, <3>1, <3>7, <3>8, <3>9, <3>10, OneMoves
    <2> QED  BY <2>1, <2>4, <2>5
  <1>11. CASE MarkRead(n)
    <2> DEFINE k == op[n].contract
    <2>1. /\ pc[n] = "mark" /\ UNCHANGED <<contract, round, notices>> /\ Others(n)
          /\ \/ pc'[n] = "notify" /\ ~contract[k].live
             \/ Fresh(n) /\ pc'[n] = "save" /\ op'[n].contract = k
      BY <1>11, MarkReadPath DEF Others
    <2>2. Reads(n)'  BY <2>1 DEF Fresh, Reads, Held
    <2>3. Follows(n)'  BY <1>3, <2>1 DEF Follows, Has
    <2>4. ASSUME NEW c \in Contracts, c # k  PROVE Told(c)'
      <3>1. ~Marking(c)  BY <1>4, <2>4 DEF Lone, Marking, Processes, Jobs
      <3> QED  BY <1>6, <2>1, <3>1
    <2>5. ASSUME NEW c \in Contracts, c = k  PROVE Told(c)'
      <3>1. CASE pc'[n] = "save" /\ op'[n].contract = k
        <4>1. Marking(c)'  BY <2>5, <3>1 DEF Marking
        <4> QED  BY <1>6, <2>1, <4>1
      <3>2. CASE ~contract[k].live
        <4>1. Told(c)  BY <1>3
        <4>2. \A e : Has(c, e)' <=> Has(c, e)  BY <2>1 DEF Has
        <4> QED  BY <1>2, <2>1, <2>5, <3>2, <4>1, <4>2 DEF Told
      <3> QED  BY <2>1, <3>1, <3>2
    <2> QED  BY <1>1, <1>4, <2>1, <2>2, <2>3, <2>4, <2>5, OneMoves
  <1>12. CASE EndReminders(n)
    <2>1. /\ pc[n] = "notify" /\ UNCHANGED <<contract, notices, op>>
          /\ pc' = [pc EXCEPT ![n] = "idle"]
      BY <1>12 DEF EndReminders, history
    <2>2. pc'[n] = "idle" /\ Others(n)  BY <1>1, <2>1, Types DEF Others
    <2>3. Reads(n)' /\ Follows(n)'  BY <2>2 DEF Reads, Follows, Held
    <2>4. \A c \in Contracts : ~Marking(c)  BY <1>1, <1>4, <2>1, NotMarking
    <2> QED  BY <1>1, <1>4, <1>6, <2>1, <2>2, <2>3, <2>4, OneMoves
  <1> QED  BY <1>7, <1>8, <1>9, <1>10, <1>11, <1>12 DEF NoticeStep

LEMMA RemindRestart ==
  ASSUME TypeInv, InTurn, NEW j \in Jobs, Restart(j)
  PROVE  InTurn'
  <1>1. /\ UNCHANGED <<contract, notices, moved>> /\ faults' = faults + 1
        /\ round' = [round EXCEPT ![j] = NoRound]
        /\ Turn(j, "idle", NoOp) /\ j \in Processes
    BY Types DEF Restart, Turn
  <1>2. pc'[j] = "idle" /\ Others(j)  BY <1>1, TurnFacts DEF Others
  <1>3. \A n \in Notifiers : n # j => round'[n] = round[n]  BY <1>1, Types
  <1>4. faults' # 0
    <2>1. faults \in Nat  BY TypeParts DEF CountType
    <2> QED  BY <1>1, <2>1
  <1>5. Alone'  BY <1>2 DEF InTurn, Alone, Others
  <1>6. ASSUME NEW p \in Processes  PROVE Reads(p)'
    BY <1>1, <1>2 DEF InTurn, Reads, Others, Held
  <1>7. ASSUME NEW n \in Notifiers  PROVE Follows(n)'
    <2>1. CASE n = j  BY <1>2, <2>1 DEF Follows
    <2>2. CASE n # j
      <3>1. Follows(n) /\ pc'[n] = pc[n] /\ op'[n] = op[n] /\ round'[n] = round[n]
        BY <1>2, <1>3, <2>2, Types DEF InTurn, Others
      <3> QED  BY <1>1, <3>1 DEF Follows, Has
    <2> QED  BY <2>1, <2>2
  <1>8. ASSUME NEW c \in Contracts  PROVE Told(c)'
    <2>1. Told(c)  BY DEF InTurn
    <2>2. \A d : Has(c, d)' <=> Has(c, d)  BY <1>1 DEF Has
    <2> QED  BY <1>1, <1>4, <2>1, <2>2 DEF Told
  <1> QED  BY <1>5, <1>6, <1>7, <1>8 DEF InTurn

(* The steps of the worker between two contracts, its failed start, a day. *)
LEMMA RemindAlike ==
  ASSUME TypeInv, InTurn, Alike, StartRound => Quiet
  PROVE  InTurn'
  <1>1. /\ UNCHANGED <<contract, op, notices, moved>> /\ faults' \in {faults, faults + 1}
        /\ \A n \in Notifiers : round'[n] = round[n]
    <2>1. UNCHANGED round \/ \E r : round' = [round EXCEPT ![Worker] = r]
      BY DEF Alike, StartRound, SearchDue, EndRound, FailToStart, NewDay, jobVars
    <2>2. \A n \in Notifiers : round'[n] = round[n]  BY <2>1, Types
    <2> QED
      BY <2>2 DEF Alike, StartRound, SearchDue, EndRound, FailToStart, NewDay, history, jobVars
  <1>2. \/ UNCHANGED pc
        \/ /\ pc[Worker] # "idle" \/ Quiet
           /\ \E at \in {"idle", "search", "round"} : pc' = [pc EXCEPT ![Worker] = at]
    BY DEF Alike, StartRound, SearchDue, EndRound, FailToStart, NewDay, jobVars
  <1>3. Worker \in Processes \ Notifiers  BY Types
  <1>4. \A n \in Notifiers : pc'[n] = pc[n]  BY <1>2, Types
  <1>5. ASSUME NEW c \in Contracts  PROVE Told(c)'
    <2>1. Told(c)  BY DEF InTurn
    <2>2. Marking(c) => Marking(c)'  BY <1>1, <1>4 DEF Marking
    <2> QED  BY <1>1, <2>1, <2>2, ToldKept DEF SameAlarm
  <1>6. CASE UNCHANGED pc
    <2>1. Alone'  BY <1>6 DEF InTurn, Alone
    <2>2. \A p \in Processes : Reads(p)'  BY <1>1, <1>6 DEF InTurn, Reads
    <2>3. \A n \in Notifiers : Follows(n)'  BY <1>1, <1>6 DEF InTurn, Follows, Has
    <2> QED  BY <1>5, <2>1, <2>2, <2>3 DEF InTurn
  <1>7. ASSUME pc[Worker] # "idle" \/ Quiet,
               NEW at \in {"idle", "search", "round"}, pc' = [pc EXCEPT ![Worker] = at]
        PROVE  InTurn'
    <2>1. Lone(Worker)  BY <1>3, <1>7, AloneLone
    <2>2. pc'[Worker] = at /\ Others(Worker)  BY <1>1, <1>3, <1>7, Types DEF Others
    <2>3. Reads(Worker)'  BY <2>2 DEF Reads, Held
    <2> QED  BY <1>3, <1>5, <2>1, <2>2, <2>3, OneMoves
  <1> QED  BY <1>2, <1>6, <1>7

LEMMA RemindStep ==
  TypeInv /\ VisitInv /\ DueInv /\ RemindInv /\ [Next]_vars => RemindInv'
  <1> SUFFICES ASSUME TypeInv, VisitInv, DueInv, RemindInv, [Next]_vars, ~overlapped'
               PROVE  InTurn'
    BY DEF RemindInv
  <1>1. CASE UNCHANGED vars
    <2>1. InTurn  BY <1>1 DEF RemindInv, vars, history
    <2>2. UNCHANGED <<contract, pc, op, round, notices, moved, faults>>
      BY <1>1 DEF vars, jobVars, history
    <2>3. Alone'  BY <2>1, <2>2 DEF InTurn, Alone
    <2>4. \A p \in Processes : Reads(p)'  BY <2>1, <2>2 DEF InTurn, Reads
    <2>5. \A n \in Notifiers : Follows(n)'  BY <2>1, <2>2 DEF InTurn, Follows, Has
    <2>6. \A c \in Contracts : Told(c)'  BY <2>1, <2>2 DEF InTurn, Told, Has, Marking
    <2> QED  BY <2>3, <2>4, <2>5, <2>6 DEF InTurn
  <1>2. CASE Next
    <2>1. ASSUME NEW r \in Requests, NEW c \in Contracts, RequestStep(r, c)
          PROVE  InTurn'
      <3>1. overlapped' = (overlapped \/ ~Quiet)
        BY <2>1 DEF RequestStep, UpdateRead, RemoveRead, Generate, Called, Enters
      <3> QED  BY <1>2, <2>1, <3>1, RemindRequest DEF RemindInv
    <2>2. ASSUME NEW p \in Processes, ProcessStep(p)
          PROVE  InTurn'
      <3>1. UNCHANGED overlapped
        BY <2>2 DEF ProcessStep, SaveContract, CloseContract, OpenCase, PlanIntervention,
           RecordVisit, Fail, history
      <3> QED  BY <1>2, <2>2, <3>1, RemindProcess DEF RemindInv
    <2>3. ASSUME NEW c \in Contracts, ProcessContract(c)
          PROVE  InTurn'
      <3>1. UNCHANGED overlapped  BY <2>3 DEF ProcessContract, history
      <3> QED  BY <1>2, <2>3, <3>1, RemindRound DEF RemindInv
    <2>4. ASSUME NEW n \in Notifiers, NoticeStep(n)
          PROVE  InTurn'
      <3>1. UNCHANGED overlapped \/ overlapped' = (overlapped \/ ~Quiet)
        BY <2>4 DEF NoticeStep, SearchReminders, EndQueue, MarkRead, EndReminders,
           QueueReminder, Remind, history, Enters
      <3>2. SearchReminders(n) => Quiet  BY DEF SearchReminders, Enters
      <3> QED  BY <1>2, <2>4, <3>1, <3>2, RemindNotice DEF RemindInv
    <2>5. ASSUME NEW j \in Jobs, Restart(j)
          PROVE  InTurn'
      <3>1. UNCHANGED overlapped  BY <2>5 DEF Restart
      <3> QED  BY <2>5, <3>1, RemindRestart DEF RemindInv
    <2>6. ASSUME Alike
          PROVE  InTurn'
      <3>1. UNCHANGED overlapped \/ overlapped' = (overlapped \/ ~Quiet)
        BY <2>6 DEF Alike, StartRound, SearchDue, EndRound, FailToStart, NewDay, history, Enters
      <3>2. StartRound => Quiet  BY DEF StartRound, Enters
      <3> QED  BY <2>6, <3>1, <3>2, RemindAlike DEF RemindInv
    <2> QED  BY <1>2, <2>1, <2>2, <2>3, <2>4, <2>5, <2>6, Actions
  <1> QED  BY <1>1, <1>2

LEMMA RemindInit == Init => RemindInv
  <1> SUFFICES ASSUME Init  PROVE InTurn
    BY DEF RemindInv
  <1>1. \A p \in Processes : pc[p] = "idle"  BY DEF Init
  <1>2. Alone  BY <1>1 DEF Alone
  <1>3. \A p \in Processes : Reads(p)  BY <1>1 DEF Reads, Held
  <1>4. \A n \in Notifiers : Follows(n)  BY <1>1 DEF Follows, Processes, Jobs
  <1>5. \A c \in Contracts : notices[c] = << >> /\ contract[c].reminded = None
    BY DEF Init, Created
  <1>6. \A c \in Contracts : Told(c)  BY <1>5 DEF Told, Has, IsInjective
  <1> QED  BY <1>2, <1>3, <1>4, <1>6 DEF InTurn

(* While users and jobs do not overlap, somebody was notified of the due   *)
(* date marked as such and, if nothing failed, once.                       *)
THEOREM MaintenanceRemindedTruly == Spec => []RemindedTruly
  <1>1. RemindInv => RemindedTruly  BY DEF RemindInv, RemindedTruly, InTurn, Told, Has
  <1> QED
    BY <1>1, TypeInit, TypeStep, VisitInit, VisitStep, DueInit, DueStep, RemindInit,
       RemindStep, PTL DEF Spec

(* The invariant as a whole.                                               *)
THEOREM MaintenanceInvariant == Spec => []IInv
  BY TypeInit, TypeStep, VisitInit, VisitStep, DueInit, DueStep, RemindInit, RemindStep,
     PTL DEF Spec, IInv

===============================================================================
