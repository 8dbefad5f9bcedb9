------------------------------ MODULE DataLemmas ------------------------------
(***************************************************************************)
(* Facts about the data of the other modules: SumFunctionOnSet(f, S), the  *)
(* sum of f[x] for the x of a finite set S, with its equation, its type    *)
(* and what one element is to it; the greatest of a finite set of          *)
(* naturals; a sequence with one element changed or appended.  Induction   *)
(* is over the size of a set, by least counterexample.                     *)
(***************************************************************************)
EXTENDS Sequences, Functions, FiniteSetTheorems, SequenceTheorems, WellFoundedInduction,
        TLAPS

(* A set of naturals has a least element.                                  *)
LEMMA NatLeast ==
  ASSUME NEW T \in SUBSET Nat, T # {}
  PROVE  \E n \in T : \A m \in T : n <= m
  <1>1. PICK n \in T : \A m \in T : <<m, n>> \notin OpToRel(<, Nat)
    BY WFMin, NatLessThanWellFounded
  <1>2. \A m \in T : ~(m < n)  BY <1>1 DEF OpToRel
  <1> QED  BY <1>2

-----------------------------------------------------------------------------
(* The recursive function that the sum is defined by.                      *)
Pick(s) == CHOOSE x \in s : TRUE

Step(f, s, g) == IF s = {} THEN 0 ELSE f[Pick(s)] + g[s \ {Pick(s)}]

Iterates(f, S, g) == g = [s \in SUBSET S |-> Step(f, s, g)]

LEMMA SumIterates ==
  ASSUME NEW f, NEW S
  PROVE  SumFunctionOnSet(f, S) = (CHOOSE g : Iterates(f, S, g))[S]
  BY DEF SumFunctionOnSet, FoldFunctionOnSet, MapThenFoldSet, Iterates, Step, Pick

LEMMA PickIn ==
  ASSUME NEW s, s # {}
  PROVE  Pick(s) \in s
  BY DEF Pick

(* The subsets of a finite set have a size, and without the element picked *)
(* they are one smaller.                                                   *)
LEMMA Sizes ==
  ASSUME NEW S, IsFiniteSet(S), NEW s \in SUBSET S
  PROVE  /\ IsFiniteSet(s) /\ Cardinality(s) \in Nat
         /\ Cardinality(s) = 0 <=> s = {}
         /\ \A x \in s : /\ s \ {x} \in SUBSET S
                         /\ Cardinality(s \ {x}) = Cardinality(s) - 1
  <1>1. IsFiniteSet(s)  BY FS_Subset
  <1>2. Cardinality(s) \in Nat  BY <1>1, FS_CardinalityType
  <1>3. Cardinality(s) = 0 <=> s = {}  BY <1>1, FS_EmptySet
  <1>4. \A x \in s : Cardinality(s \ {x}) = Cardinality(s) - 1
    BY <1>1, FS_RemoveElement
  <1> QED  BY <1>1, <1>2, <1>3, <1>4

(* The function exists, as it does for the subsets of each size.           *)
UpTo(S, n) == {s \in SUBSET S : Cardinality(s) <= n}

LEMMA IterationExists ==
  ASSUME NEW f, NEW S, IsFiniteSet(S)
  PROVE  \E g : Iterates(f, S, g)
  <1> DEFINE Grows(n) == \E g : g = [s \in UpTo(S, n) |-> Step(f, s, g)]
             Bad == {n \in Nat : ~Grows(n)}
  <1>1. Grows(0)
    <2> DEFINE g0 == [s \in UpTo(S, 0) |-> 0]
    <2>1. \A s \in UpTo(S, 0) : s = {}  BY Sizes DEF UpTo
    <2>2. \A s \in UpTo(S, 0) : Step(f, s, g0) = 0  BY <2>1 DEF Step
    <2>3. g0 = [s \in UpTo(S, 0) |-> Step(f, s, g0)]  BY <2>2
    <2> QED  BY <2>3
  <1>2. ASSUME NEW n \in Nat, Grows(n)
        PROVE  Grows(n + 1)
    <2>1. PICK g : g = [s \in UpTo(S, n) |-> Step(f, s, g)]  BY <1>2
    <2> DEFINE h == [s \in UpTo(S, n + 1) |-> Step(f, s, g)]
    <2>2. \A s \in UpTo(S, n) : s \in UpTo(S, n + 1) /\ h[s] = g[s]
      <3>1. UpTo(S, n) \subseteq UpTo(S, n + 1)  BY Sizes DEF UpTo
      <3>2. ASSUME NEW s \in UpTo(S, n)  PROVE g[s] = Step(f, s, g)
        BY <2>1
      <3> QED  BY <3>1, <3>2
    <2>3. \A s \in UpTo(S, n + 1) : s # {} => s \ {Pick(s)} \in UpTo(S, n)
      BY PickIn, Sizes DEF UpTo
    <2>4. \A s \in UpTo(S, n + 1) : Step(f, s, h) = Step(f, s, g)
      BY <2>2, <2>3 DEF Step
    <2>5. h = [s \in UpTo(S, n + 1) |-> Step(f, s, h)]  BY <2>4
    <2> QED  BY <2>5
  <1>3. Bad = {}
    <2> SUFFICES ASSUME Bad # {}  PROVE FALSE
      OBVIOUS
    <2>1. PICK n \in Bad : \A m \in Bad : n <= m  BY NatLeast
    <2>2. n # 0  BY <1>1
    <2>3. n - 1 \in Nat /\ n - 1 \notin Bad  BY <2>1, <2>2
    <2>4. Grows((n - 1) + 1)  BY <1>2, <2>3
    <2> QED  BY <2>2, <2>4
  <1>4. UpTo(S, Cardinality(S)) = SUBSET S
    BY FS_Subset DEF UpTo
  <1>5. Cardinality(S) \in Nat  BY FS_CardinalityType
  <1>6. Grows(Cardinality(S))  BY <1>3, <1>5
  <1> QED  BY <1>4, <1>6 DEF Iterates

(* On the common subsets two such functions agree.                         *)
LEMMA IterationsAgree ==
  ASSUME NEW f, NEW S, IsFiniteSet(S), NEW U \in SUBSET S, NEW g, NEW h,
         Iterates(f, S, g), Iterates(f, U, h)
  PROVE  \A s \in SUBSET U : g[s] = h[s]
  <1> DEFINE Bad == {s \in SUBSET U : g[s] # h[s]}
             Size == {Cardinality(s) : s \in Bad}
  <1> SUFFICES ASSUME Bad # {}  PROVE FALSE
    OBVIOUS
  <1>1. Size \subseteq Nat /\ Size # {}  BY Sizes
  <1>2. PICK n \in Size : \A m \in Size : n <= m  BY <1>1, NatLeast
  <1>3. PICK s \in Bad : Cardinality(s) = n  BY <1>2
  <1>4. g[s] = Step(f, s, g) /\ h[s] = Step(f, s, h)  BY DEF Iterates
  <1>5. s # {}  BY <1>4 DEF Step
  <1>6. /\ s \ {Pick(s)} \in SUBSET U
        /\ Cardinality(s \ {Pick(s)}) < n
    BY <1>3, <1>5, PickIn, Sizes
  <1>7. s \ {Pick(s)} \notin Bad
    <2> SUFFICES ASSUME s \ {Pick(s)} \in Bad  PROVE FALSE
      OBVIOUS
    <2>1. Cardinality(s \ {Pick(s)}) \in Size  OBVIOUS
    <2> QED  BY <1>1, <1>2, <1>6, <2>1
  <1> QED  BY <1>4, <1>5, <1>6, <1>7 DEF Step

-----------------------------------------------------------------------------
(* The equation of the sum, for the element that it takes first ...        *)
LEMMA SumEquation ==
  ASSUME NEW f, NEW S, IsFiniteSet(S)
  PROVE  SumFunctionOnSet(f, S) =
           IF S = {} THEN 0
           ELSE f[Pick(S)] + SumFunctionOnSet(f, S \ {Pick(S)})
  <1> DEFINE T == S \ {Pick(S)}
  <1>1. PICK g : Iterates(f, S, g) /\ SumFunctionOnSet(f, S) = g[S]
    BY IterationExists, SumIterates
  <1>2. IsFiniteSet(T) /\ T \in SUBSET S  BY FS_Subset
  <1>3. PICK h : Iterates(f, T, h) /\ SumFunctionOnSet(f, T) = h[T]
    <2> HIDE DEF T
    <2> QED  BY <1>2, IterationExists, SumIterates
  <1>4. g[T] = h[T]
    <2> HIDE DEF T
    <2> QED  BY <1>1, <1>2, <1>3, IterationsAgree
  <1>5. g[S] = Step(f, S, g)  BY <1>1 DEF Iterates
  <1> QED  BY <1>1, <1>3, <1>4, <1>5 DEF Step

(* ... its type ...                                                        *)
LEMMA SumType ==
  ASSUME NEW f, NEW S, IsFiniteSet(S), \A x \in S : f[x] \in Int
  PROVE  SumFunctionOnSet(f, S) \in Int
  <1> DEFINE Bad == {s \in SUBSET S : SumFunctionOnSet(f, s) \notin Int}
             Size == {Cardinality(s) : s \in Bad}
  <1> SUFFICES ASSUME Bad # {}  PROVE FALSE
    OBVIOUS
  <1>1. Size \subseteq Nat /\ Size # {}  BY Sizes
  <1>2. PICK n \in Size : \A m \in Size : n <= m  BY <1>1, NatLeast
  <1>3. PICK s \in Bad : Cardinality(s) = n  BY <1>2
  <1>4. SumFunctionOnSet(f, s) =
          IF s = {} THEN 0 ELSE f[Pick(s)] + SumFunctionOnSet(f, s \ {Pick(s)})
    BY SumEquation, Sizes
  <1>5. s # {} /\ Pick(s) \in s  BY <1>4, PickIn
  <1>6. s \ {Pick(s)} \in SUBSET S /\ Cardinality(s \ {Pick(s)}) < n
    BY <1>1, <1>3, <1>5, Sizes
  <1>7. s \ {Pick(s)} \notin Bad
    <2> SUFFICES ASSUME s \ {Pick(s)} \in Bad  PROVE FALSE
      OBVIOUS
    <2>1. Cardinality(s \ {Pick(s)}) \in Size  OBVIOUS
    <2> QED  BY <1>1, <1>2, <1>6, <2>1
  <1>8. f[Pick(s)] \in Int /\ SumFunctionOnSet(f, s \ {Pick(s)}) \in Int
    BY <1>5, <1>6, <1>7
  <1> QED  BY <1>4, <1>8

(* ... and what it depends on.                                             *)
LEMMA SumSame ==
  ASSUME NEW f, NEW g, NEW S, IsFiniteSet(S), \A x \in S : f[x] = g[x]
  PROVE  SumFunctionOnSet(f, S) = SumFunctionOnSet(g, S)
  <1> DEFINE Bad == {s \in SUBSET S : SumFunctionOnSet(f, s) # SumFunctionOnSet(g, s)}
             Size == {Cardinality(s) : s \in Bad}
  <1> SUFFICES ASSUME Bad # {}  PROVE FALSE
    OBVIOUS
  <1>1. Size \subseteq Nat /\ Size # {}  BY Sizes
  <1>2. PICK n \in Size : \A m \in Size : n <= m  BY <1>1, NatLeast
  <1>3. PICK s \in Bad : Cardinality(s) = n  BY <1>2
  <1>4. /\ SumFunctionOnSet(f, s) =
             IF s = {} THEN 0 ELSE f[Pick(s)] + SumFunctionOnSet(f, s \ {Pick(s)})
        /\ SumFunctionOnSet(g, s) =
             IF s = {} THEN 0 ELSE g[Pick(s)] + SumFunctionOnSet(g, s \ {Pick(s)})
    BY SumEquation, Sizes
  <1>5. s # {} /\ Pick(s) \in s  BY <1>4, PickIn
  <1>6. s \ {Pick(s)} \in SUBSET S /\ Cardinality(s \ {Pick(s)}) < n
    BY <1>1, <1>3, <1>5, Sizes
  <1>7. s \ {Pick(s)} \notin Bad
    <2> SUFFICES ASSUME s \ {Pick(s)} \in Bad  PROVE FALSE
      OBVIOUS
    <2>1. Cardinality(s \ {Pick(s)}) \in Size  OBVIOUS
    <2> QED  BY <1>1, <1>2, <1>6, <2>1
  <1> QED  BY <1>4, <1>5, <1>6, <1>7

(* A sum of zeros is zero.                                                 *)
LEMMA SumZero ==
  ASSUME NEW f, NEW S, IsFiniteSet(S), \A x \in S : f[x] = 0
  PROVE  SumFunctionOnSet(f, S) = 0
  <1> DEFINE Bad == {s \in SUBSET S : SumFunctionOnSet(f, s) # 0}
             Size == {Cardinality(s) : s \in Bad}
  <1> SUFFICES ASSUME Bad # {}  PROVE FALSE
    OBVIOUS
  <1>1. Size \subseteq Nat /\ Size # {}  BY Sizes
  <1>2. PICK n \in Size : \A m \in Size : n <= m  BY <1>1, NatLeast
  <1>3. PICK s \in Bad : Cardinality(s) = n  BY <1>2
  <1>4. SumFunctionOnSet(f, s) =
          IF s = {} THEN 0 ELSE f[Pick(s)] + SumFunctionOnSet(f, s \ {Pick(s)})
    BY SumEquation, Sizes
  <1>5. s # {} /\ Pick(s) \in s  BY <1>4, PickIn
  <1>6. s \ {Pick(s)} \in SUBSET S /\ Cardinality(s \ {Pick(s)}) < n
    BY <1>1, <1>3, <1>5, Sizes
  <1>7. s \ {Pick(s)} \notin Bad
    <2> SUFFICES ASSUME s \ {Pick(s)} \in Bad  PROVE FALSE
      OBVIOUS
    <2>1. Cardinality(s \ {Pick(s)}) \in Size  OBVIOUS
    <2> QED  BY <1>1, <1>2, <1>6, <2>1
  <1>8. f[Pick(s)] = 0 /\ SumFunctionOnSet(f, s \ {Pick(s)}) = 0
    BY <1>5, <1>6, <1>7
  <1> QED  BY <1>4, <1>8

(* Any element may be taken first.                                         *)
THEOREM SumWithout ==
  ASSUME NEW f, NEW S, IsFiniteSet(S), \A x \in S : f[x] \in Int, NEW x \in S
  PROVE  /\ SumFunctionOnSet(f, S) = f[x] + SumFunctionOnSet(f, S \ {x})
         /\ SumFunctionOnSet(f, S \ {x}) \in Int
  <1> DEFINE Sum(s) == SumFunctionOnSet(f, s)
             Bad == {s \in SUBSET S : \E y \in s : Sum(s) # f[y] + Sum(s \ {y})}
             Size == {Cardinality(s) : s \in Bad}
  <1>1. \A s \in SUBSET S : Sum(s) \in Int
    <2> TAKE s \in SUBSET S
    <2>1. IsFiniteSet(s) /\ \A y \in s : f[y] \in Int  BY FS_Subset
    <2> QED  BY <2>1, SumType
  <1>2. Bad = {}
    <2> SUFFICES ASSUME Bad # {}  PROVE FALSE
      OBVIOUS
    <2>1. Size \subseteq Nat /\ Size # {}
      <3> HIDE DEF Sum
      <3> QED  BY Sizes
    <2>2. PICK n \in Size : \A m \in Size : n <= m
      <3> HIDE DEF Size
      <3> QED  BY <2>1, NatLeast
    <2>3. PICK s \in Bad : Cardinality(s) = n  BY <2>2
    <2>4. PICK y \in s : Sum(s) # f[y] + Sum(s \ {y})  BY <2>3
    <2> DEFINE c == Pick(s)
               both == s \ {c, y}
    <2>5. c \in s  BY <2>4, PickIn
    <2>6. Sum(s) = f[c] + Sum(s \ {c})  BY <2>4, SumEquation, Sizes
    <2>7. c # y  BY <2>4, <2>6
    <2> HIDE DEF c, Sum
    <2>8. ASSUME NEW z \in {c, y}
          PROVE  s \ {z} \in SUBSET S /\ s \ {z} \notin Bad
      <3>1. z \in s  BY <2>4, <2>5
      <3>2. s \ {z} \in SUBSET S /\ Cardinality(s \ {z}) < n
        BY <2>1, <2>3, <3>1, Sizes
      <3>3. ASSUME s \ {z} \in Bad  PROVE FALSE
        <4>1. Cardinality(s \ {z}) \in Size  BY <3>3
        <4> HIDE DEF Size, Bad
        <4>2. n \in Nat /\ Cardinality(s \ {z}) \in Nat  BY <2>1, <4>1
        <4>3. n <= Cardinality(s \ {z})  BY <2>2, <4>1
        <4> QED  BY <3>2, <4>2, <4>3
      <3> QED  BY <3>2, <3>3
    <2>9. Sum(s \ {c}) = f[y] + Sum(both)
      <3>1. y \in s \ {c} /\ (s \ {c}) \ {y} = both  BY <2>4, <2>7
      <3> QED  BY <2>8, <3>1
    <2>10. Sum(s \ {y}) = f[c] + Sum(both)
      <3>1. c \in s \ {y} /\ (s \ {y}) \ {c} = both  BY <2>5, <2>7
      <3> QED  BY <2>8, <3>1
    <2>11. f[c] \in Int /\ f[y] \in Int /\ Sum(both) \in Int
      BY <1>1, <2>4, <2>5
    <2> QED  BY <2>4, <2>6, <2>9, <2>10, <2>11
  <1>3. Sum(S) = f[x] + Sum(S \ {x})
    <2> HIDE DEF Sum
    <2> QED  BY <1>2
  <1> QED  BY <1>1, <1>3

(* Changing one element changes the sum by as much.                        *)
THEOREM SumChanged ==
  ASSUME NEW f, NEW g, NEW S, IsFiniteSet(S), NEW x \in S,
         \A y \in S : f[y] \in Int /\ g[y] \in Int,
         \A y \in S \ {x} : g[y] = f[y]
  PROVE  SumFunctionOnSet(g, S) = SumFunctionOnSet(f, S) + g[x] - f[x]
  <1>1. SumFunctionOnSet(g, S \ {x}) = SumFunctionOnSet(f, S \ {x})
    BY SumSame, FS_RemoveElement
  <1>2. /\ SumFunctionOnSet(f, S) = f[x] + SumFunctionOnSet(f, S \ {x})
        /\ SumFunctionOnSet(f, S \ {x}) \in Int
    BY SumWithout
  <1>3. SumFunctionOnSet(g, S) = g[x] + SumFunctionOnSet(g, S \ {x})
    BY SumWithout
  <1> QED  BY <1>1, <1>2, <1>3

-----------------------------------------------------------------------------
(* A finite set of naturals has a greatest element.                        *)
HasGreatest(s) == \E x \in s : \A y \in s : x >= y

LEMMA FiniteGreatest ==
  ASSUME NEW S \in SUBSET Nat, IsFiniteSet(S), S # {}
  PROVE  HasGreatest(S)
  <1> DEFINE Bad == {s \in SUBSET S : s # {} /\ ~HasGreatest(s)}
             Size == {Cardinality(s) : s \in Bad}
  <1> SUFFICES ASSUME Bad # {}  PROVE FALSE
    OBVIOUS
  <1>1. Size \subseteq Nat /\ Size # {}
    <2>1. \A s \in Bad : s \in SUBSET S  OBVIOUS
    <2> HIDE DEF Bad
    <2> QED  BY <2>1, Sizes
  <1>2. PICK n \in Size : \A m \in Size : n <= m  BY <1>1, NatLeast
  <1>3. PICK s \in Bad : Cardinality(s) = n  BY <1>2
  <1>4. PICK c \in s : TRUE  BY <1>3
  <1> DEFINE t == s \ {c}
  <1>5. t \in SUBSET S /\ Cardinality(t) < n
    BY <1>1, <1>3, <1>4, Sizes
  <1>6. t \notin Bad
    <2> SUFFICES ASSUME t \in Bad  PROVE FALSE
      OBVIOUS
    <2>1. Cardinality(t) \in Size  OBVIOUS
    <2> HIDE DEF t, Size, Bad
    <2>2. n \in Nat /\ Cardinality(t) \in Nat  BY <1>1, <2>1
    <2> QED  BY <1>2, <1>5, <2>1, <2>2
  <1>7. CASE t = {}
    <2>1. s = {c}  BY <1>4, <1>7
    <2>2. c \in Nat /\ c >= c  BY <1>3, <1>4
    <2> QED  BY <1>3, <2>1, <2>2 DEF HasGreatest
  <1>8. CASE t # {}
    <2>1. PICK x \in t : \A y \in t : x >= y  BY <1>5, <1>6, <1>8 DEF HasGreatest
    <2>2. \A y \in s : y \in Nat  BY <1>3
    <2>3. x \in s /\ c \in s /\ \A y \in s : y = c \/ y \in t  BY <1>4
    <2> HIDE DEF t
    <2>4. \/ \A y \in s : x >= y
          \/ \A y \in s : c >= y
      BY <2>1, <2>2, <2>3
    <2> QED  BY <1>3, <2>3, <2>4 DEF HasGreatest
  <1> QED  BY <1>7, <1>8

-----------------------------------------------------------------------------
(* A sequence with one element changed, or one more.                       *)
LEMMA SeqPut ==
  ASSUME NEW S, NEW s \in Seq(S), NEW k \in DOMAIN s, NEW e \in S
  PROVE  LET t == [s EXCEPT ![k] = e]
         IN  /\ t \in Seq(S) /\ DOMAIN t = DOMAIN s /\ Len(t) = Len(s)
             /\ t[k] = e
             /\ \A j \in DOMAIN s : j # k => t[j] = s[j]
  OBVIOUS

LEMMA SeqAdd ==
  ASSUME NEW S, NEW s \in Seq(S), NEW e \in S
  PROVE  LET t == Append(s, e)
             n == Len(s) + 1
         IN  /\ t \in Seq(S) /\ DOMAIN t = DOMAIN s \cup {n} /\ Len(t) = n
             /\ n \notin DOMAIN s /\ t[n] = e
             /\ \A j \in DOMAIN s : t[j] = s[j]
  <1>1. Append(s, e) \in Seq(S) /\ Len(Append(s, e)) = Len(s) + 1
    OBVIOUS
  <1>2. Len(s) \in Nat /\ DOMAIN s = 1..Len(s)
    OBVIOUS
  <1>3. DOMAIN Append(s, e) = 1..(Len(s) + 1)
    BY <1>1
  <1>4. \A j \in 1..Len(s) : Append(s, e)[j] = s[j]
    OBVIOUS
  <1>5. Append(s, e)[Len(s) + 1] = e
    OBVIOUS
  <1> QED  BY <1>1, <1>2, <1>3, <1>4, <1>5

(* What there is to know of a sequence of elements of a set.               *)
LEMMA SeqFacts ==
  ASSUME NEW S, NEW s \in Seq(S)
  PROVE  /\ Len(s) \in Nat /\ DOMAIN s = 1..Len(s) /\ IsFiniteSet(DOMAIN s)
         /\ \A j \in DOMAIN s : s[j] \in S /\ j \in Nat
  <1>1. Len(s) \in Nat /\ DOMAIN s = 1..Len(s)
    OBVIOUS
  <1>2. IsFiniteSet(DOMAIN s)  BY <1>1, FS_Interval
  <1> QED  BY <1>1, <1>2

(* A sequence with one element in front.                                   *)
LEMMA SeqPush ==
  ASSUME NEW S, NEW s \in Seq(S), NEW e \in S
  PROVE  LET t == <<e>> \o s
         IN  /\ t \in Seq(S) /\ DOMAIN t = 1..(Len(s) + 1) /\ t[1] = e
             /\ \A i \in 1..(Len(s) + 1) : i # 1 => i - 1 \in DOMAIN s /\ t[i] = s[i - 1]
  <1> DEFINE u == <<e>>
  <1>1. u \in Seq(S) /\ Len(u) = 1 /\ u[1] = e  OBVIOUS
  <1> HIDE DEF u
  <1>2. Len(s) \in Nat /\ DOMAIN s = 1..Len(s)  BY SeqFacts
  <1>3. /\ u \o s \in Seq(S) /\ Len(u \o s) = Len(u) + Len(s)
        /\ \A i \in 1 .. Len(u) + Len(s) :
             (u \o s)[i] = IF i <= Len(u) THEN u[i] ELSE s[i - Len(u)]
    BY <1>1, ConcatProperties
  <1>4. DOMAIN (u \o s) = 1..(Len(s) + 1)
    <2>1. DOMAIN (u \o s) = 1..Len(u \o s)  BY <1>3, SeqFacts
    <2> QED  BY <1>1, <1>2, <1>3, <2>1
  <1> QED  BY <1>1, <1>2, <1>3, <1>4 DEF u

===============================================================================
