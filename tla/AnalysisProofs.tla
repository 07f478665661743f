--------------------------- MODULE AnalysisProofs ---------------------------
(***************************************************************************)
(* An analysis of any number of files, with any mails, answers of the      *)
(* sub-agents and errors of the stages: what it promises is proved from    *)
(* one invariant, IInv, with a part per stage.                             *)
(*                                                                         *)
(* First what the model is built from: sorting, lists and their            *)
(* concatenation, Reachable and Kahn's algorithm.  Then the nodes and the  *)
(* invariant; a lemma per stage (FilesKept, GroupsKept, VersionsKept,      *)
(* ChainsKept, EvidenceKept, RecordsKept, DecisionsKept) shows that a step *)
(* keeps its part.  The results are at the end.                            *)
(***************************************************************************)
EXTENDS Analysis, FiniteSetTheorems, NaturalsInduction, WellFoundedInduction, SequenceTheorems, TLAPS

(***************************************************************************)
(* Data: induction for a set of numbers, orders, sorting, sums.            *)
(***************************************************************************)
\* Induction over the natural numbers, for a set of numbers.
LEMMA NatSetInduction ==
    ASSUME NEW S, 0 \in S, \A n \in Nat : n \in S => n + 1 \in S
    PROVE  \A n \in Nat : n \in S
<1>. DEFINE R == OpToRel(<, Nat)
            T == Nat \ S
<1>. SUFFICES ASSUME T # {} PROVE FALSE
  OBVIOUS
<1>1. PICK x \in T : \A y \in T : ~(<<y, x>> \in R)
  BY NatLessThanWellFounded, WFMin
<1>2. x # 0 /\ x \in Nat /\ x - 1 \in Nat
  OBVIOUS
<1>3. <<x - 1, x>> \in R
  BY <1>2 DEF OpToRel
<1>4. x - 1 \in S
  <2>. HIDE DEF R
  <2>. QED  BY <1>1, <1>2, <1>3
<1>5. x \in S
  BY <1>2, <1>4
<1>. QED  BY <1>5

\* R orders S strictly and totally.
Orders(R, S) ==
    /\ \A x \in S : <<x, x>> \notin R
    /\ \A x, y, z \in S : <<x, y>> \in R /\ <<y, z>> \in R => <<x, z>> \in R
    /\ \A x, y \in S : x = y \/ <<x, y>> \in R \/ <<y, x>> \in R

\* The sequence s lists the elements of S, each of them once.
Lists(s, S) ==
    /\ s \in Seq(S)
    /\ \A i, j \in 1..Len(s) : s[i] = s[j] => i = j
    /\ \A x \in S : \E i \in 1..Len(s) : s[i] = x

\* A list is as long as its set is large.
LEMMA ListsCount ==
    ASSUME NEW S, NEW s, Lists(s, S)
    PROVE  IsFiniteSet(S) /\ Len(s) = Cardinality(S) /\ ToSet(s) = S /\ DOMAIN s = 1..Len(s)
<1>1. s \in [1..Len(s) -> S] /\ Len(s) \in Nat /\ DOMAIN s = 1..Len(s)
  BY DEF Lists
<1>2. s \in Bijection(1..Len(s), S)
  BY <1>1 DEF Lists, Bijection, Injection, IsInjective, Surjection
<1>3. ExistsBijection(1..Len(s), S)
  BY <1>2 DEF ExistsBijection
<1>4. ASSUME NEW k \in Nat PROVE IsFiniteSet(1..k) /\ Cardinality(1..k) = k
  BY FS_Interval
<1>5. IsFiniteSet(S) /\ Cardinality(S) = Len(s)
  BY <1>1, <1>3, <1>4, FS_Bijection
<1>6. ToSet(s) = S
  BY <1>1 DEF ToSet, Lists
<1>. QED  BY <1>1, <1>5, <1>6

Below(x, S, R) == {y \in S : <<y, x>> \in R}

\* In a finite set the ranks of an order are 0, 1, ... and grow with it.
LEMMA RanksGrow ==
    ASSUME NEW S, IsFiniteSet(S), NEW R, Orders(R, S)
    PROVE  /\ \A x \in S : Rank(x, S, R) \in 0..(Cardinality(S) - 1)
           /\ \A x, y \in S : <<x, y>> \in R => Rank(x, S, R) < Rank(y, S, R)
<1>0. Cardinality(S) \in Nat
  BY FS_CardinalityType
<1>1. ASSUME NEW x \in S PROVE /\ IsFiniteSet(Below(x, S, R))
                               /\ Rank(x, S, R) = Cardinality(Below(x, S, R))
                               /\ Rank(x, S, R) \in 0..(Cardinality(S) - 1)
  <2>1. Below(x, S, R) \in SUBSET (S \ {x})
    BY DEF Below, Orders
  <2>2. IsFiniteSet(S \ {x}) /\ Cardinality(S \ {x}) = Cardinality(S) - 1
    BY FS_RemoveElement
  <2>3. IsFiniteSet(Below(x, S, R)) /\ Cardinality(Below(x, S, R)) <= Cardinality(S) - 1
    BY <2>1, <2>2, FS_Subset
  <2>4. Cardinality(Below(x, S, R)) \in Nat
    BY <2>3, FS_CardinalityType
  <2>5. Rank(x, S, R) = Cardinality(Below(x, S, R))
    BY DEF Rank, Below
  <2>. QED  BY <1>0, <2>3, <2>4, <2>5
<1>2. ASSUME NEW x \in S, NEW y \in S, <<x, y>> \in R PROVE Rank(x, S, R) < Rank(y, S, R)
  <2>1. Below(x, S, R) \in SUBSET Below(y, S, R)
    BY <1>2 DEF Below, Orders
  <2>2. x \in Below(y, S, R) /\ x \notin Below(x, S, R)
    BY <1>2 DEF Below, Orders
  <2>3. Cardinality(Below(x, S, R)) <= Cardinality(Below(y, S, R))
    BY <2>1, <1>1, FS_Subset
  <2>4. Cardinality(Below(x, S, R)) # Cardinality(Below(y, S, R))
    BY <2>1, <2>2, <1>1, FS_Subset
  <2>. QED  BY <1>1, <2>3, <2>4
<1>. QED  BY <1>1, <1>2

\* Sorting a finite set by a strict total order lists each of its elements once
\* and in order (the sort calls of version_graph.py and file_scanner.py).
THEOREM SortedBySorts ==
    ASSUME NEW S, IsFiniteSet(S), NEW R, Orders(R, S)
    PROVE  /\ Lists(SortedBy(S, R), S)
           /\ \A i, j \in 1..Len(SortedBy(S, R)) :
                i < j => <<SortedBy(S, R)[i], SortedBy(S, R)[j]>> \in R
<1>. DEFINE n == Cardinality(S)
            s == SortedBy(S, R)
            rank == [x \in S |-> Rank(x, S, R)]
<1>0. n \in Nat
  BY FS_CardinalityType
<1>1. \A x, y \in S : x # y => Rank(x, S, R) # Rank(y, S, R)
  <2>1. \A x, y \in S : <<x, y>> \in R => Rank(x, S, R) < Rank(y, S, R)
    BY RanksGrow
  <2>2. \A x \in S : Rank(x, S, R) \in 0..(n - 1)
    BY RanksGrow
  <2>3. \A x \in S : Rank(x, S, R) \in Int
    BY <2>2, <1>0
  <2>. SUFFICES ASSUME NEW x \in S, NEW y \in S, x # y PROVE Rank(x, S, R) # Rank(y, S, R)
    OBVIOUS
  <2>4. <<x, y>> \in R \/ <<y, x>> \in R
    BY DEF Orders
  <2>5. Rank(x, S, R) < Rank(y, S, R) \/ Rank(y, S, R) < Rank(x, S, R)
    BY <2>1, <2>4
  <2>. QED  BY <2>3, <2>5
<1>2. rank \in Injection(S, 0..(n - 1))
  BY <1>1, RanksGrow DEF Injection, IsInjective
<1>3. IsFiniteSet(0..(n - 1)) /\ Cardinality(0..(n - 1)) = n
  BY <1>0, FS_Interval
<1>4. rank \in Surjection(S, 0..(n - 1))
  BY <1>2, <1>3, FS_Injection
<1>5. \A i \in 1..n : \E x \in S : Rank(x, S, R) = i - 1
  <2>. SUFFICES ASSUME NEW i \in 1..n PROVE \E x \in S : Rank(x, S, R) = i - 1
    OBVIOUS
  <2>1. i - 1 \in 0..(n - 1)
    BY <1>0
  <2>. QED  BY <2>1, <1>4 DEF Surjection
<1>6. s = [i \in 1..n |-> CHOOSE x \in S : Rank(x, S, R) = i - 1]
  BY DEF SortedBy
<1>7. \A i \in 1..n : s[i] \in S /\ Rank(s[i], S, R) = i - 1
  BY <1>5, <1>6
<1>8. s \in Seq(S) /\ Len(s) = n
  BY <1>0, <1>6, <1>7
<1>. HIDE DEF s, n
<1>9. \A i, j \in 1..n : s[i] = s[j] => i = j
  BY <1>0, <1>7
<1>10. \A x \in S : \E i \in 1..n : s[i] = x
  <2>. SUFFICES ASSUME NEW x \in S PROVE \E i \in 1..n : s[i] = x
    OBVIOUS
  <2>1. Rank(x, S, R) \in 0..(n - 1)
    BY RanksGrow DEF n
  <2>2. Rank(x, S, R) + 1 \in 1..n /\ (Rank(x, S, R) + 1) - 1 = Rank(x, S, R)
    BY <1>0, <2>1
  <2>3. Rank(s[Rank(x, S, R) + 1], S, R) = Rank(x, S, R) /\ s[Rank(x, S, R) + 1] \in S
    BY <1>7, <2>2
  <2>. QED  BY <1>1, <2>2, <2>3
<1>11. ASSUME NEW i \in 1..n, NEW j \in 1..n, i < j PROVE <<s[i], s[j]>> \in R
  <2>1. s[i] # s[j]
    BY <1>9, <1>11, <1>0
  <2>2. <<s[i], s[j]>> \in R \/ <<s[j], s[i]>> \in R
    BY <2>1, <1>7 DEF Orders
  <2>3. <<s[j], s[i]>> \in R => Rank(s[j], S, R) < Rank(s[i], S, R)
    BY <1>7, RanksGrow
  <2>4. ~(Rank(s[j], S, R) < Rank(s[i], S, R))
    BY <1>0, <1>7, <1>11
  <2>. QED  BY <2>2, <2>3, <2>4
<1>. QED  BY <1>8, <1>9, <1>10, <1>11 DEF Lists, s

\* A finite set that is not empty has a first element in any order.
LEMMA LeastExists ==
    ASSUME NEW S, IsFiniteSet(S), S # {}, NEW R, Orders(R, S)
    PROVE  \E x \in S : \A y \in S : y = x \/ <<x, y>> \in R
<1>. DEFINE s == SortedBy(S, R)
<1>1. Lists(s, S) /\ \A i, j \in 1..Len(s) : i < j => <<s[i], s[j]>> \in R
  BY SortedBySorts
<1>. HIDE DEF s
<1>2. Len(s) \in Nat /\ s \in [1..Len(s) -> S]
  BY <1>1 DEF Lists
<1>3. 1 \in 1..Len(s)
  BY <1>1, <1>2 DEF Lists
<1>4. ASSUME NEW y \in S PROVE y = s[1] \/ <<s[1], y>> \in R
  <2>1. PICK j \in 1..Len(s) : s[j] = y
    BY <1>1 DEF Lists
  <2>2. j = 1 \/ 1 < j
    BY <1>2
  <2>. QED  BY <1>1, <1>3, <2>1, <2>2
<1>. QED  BY <1>2, <1>3, <1>4

\* A finite set of integers that is not empty has a greatest element.
LEMMA GreatestExists ==
    ASSUME NEW S \in SUBSET Int, IsFiniteSet(S), S # {}
    PROVE  Max(S) \in S /\ \A y \in S : Max(S) >= y
<1>. DEFINE R == {p \in S \X S : p[1] > p[2]}
<1>1. Orders(R, S)
  BY DEF Orders
<1>2. PICK x \in S : \A y \in S : y = x \/ <<x, y>> \in R
  <2>. HIDE DEF R
  <2>. QED  BY <1>1, LeastExists
<1>3. ASSUME NEW y \in S PROVE x >= y
  <2>1. y = x \/ x > y
    BY <1>2
  <2>2. x \in Int /\ y \in Int
    OBVIOUS
  <2>. QED  BY <2>1, <2>2
<1>. QED  BY <1>3 DEF Max

(***************************************************************************)
(* The sum of a function with a finite domain, as FoldFunction computes it.*)
(***************************************************************************)
SumFrom(w, g, s) ==
    IF s = {} THEN 0
    ELSE LET x == CHOOSE y \in s : TRUE IN w[x] + g[s \ {x}]

Small(S, m) == {s \in SUBSET S : Cardinality(s) <= m}

SumsUpTo(w, S, g, m) == g = [s \in Small(S, m) |-> SumFrom(w, g, s)]

\* The partial sums of a function exist, whatever is summed first.
LEMMA SumsExist ==
    ASSUME NEW S, IsFiniteSet(S), NEW w
    PROVE  \A m \in Nat : \E g : SumsUpTo(w, S, g, m)
<1>. DEFINE P == {m \in Nat : \E g : SumsUpTo(w, S, g, m)}
<1>0. \A s \in SUBSET S : IsFiniteSet(s) /\ Cardinality(s) \in Nat /\ (Cardinality(s) = 0 <=> s = {})
  BY FS_Subset, FS_CardinalityType, FS_EmptySet
<1>00. ASSUME NEW s \in SUBSET S, s # {}, NEW m \in Nat, s \in Small(S, m + 1)
       PROVE  s \ {CHOOSE y \in s : TRUE} \in Small(S, m)
  <2>1. (CHOOSE y \in s : TRUE) \in s
    BY <1>00
  <2>2. Cardinality(s \ {CHOOSE y \in s : TRUE}) = Cardinality(s) - 1
    BY <2>1, <1>0, FS_RemoveElement
  <2>. QED  BY <2>2, <1>0, <1>00 DEF Small
<1>1. 0 \in P
  <2>1. \A s \in Small(S, 0) : s = {}
    BY <1>0 DEF Small
  <2>. DEFINE g == [s \in Small(S, 0) |-> 0]
  <2>2. g = [s \in Small(S, 0) |-> SumFrom(w, g, s)]
    BY <2>1 DEF SumFrom
  <2>. HIDE DEF g
  <2>3. SumsUpTo(w, S, g, 0)
    BY <2>2 DEF SumsUpTo
  <2>. QED  BY <2>3
<1>2. ASSUME NEW m \in Nat, m \in P PROVE m + 1 \in P
  <2>1. PICK g : SumsUpTo(w, S, g, m)
    BY <1>2
  <2>2. \A s \in Small(S, m) : g[s] = SumFrom(w, g, s)
    BY <2>1 DEF SumsUpTo
  <2>. DEFINE h == [s \in Small(S, m + 1) |-> SumFrom(w, g, s)]
  <2>3. \A s \in Small(S, m) : s \in Small(S, m + 1) /\ h[s] = g[s]
    BY <2>2, <1>0 DEF Small
  <2>4. \A s \in Small(S, m + 1) : SumFrom(w, g, s) = SumFrom(w, h, s)
    <3>. SUFFICES ASSUME NEW s \in Small(S, m + 1) PROVE SumFrom(w, g, s) = SumFrom(w, h, s)
      OBVIOUS
    <3>1. CASE s = {}
      BY <3>1 DEF SumFrom
    <3>2. CASE s # {}
      <4>1. s \ {CHOOSE y \in s : TRUE} \in Small(S, m)
        BY <1>00, <3>2 DEF Small
      <4>2. h[s \ {CHOOSE y \in s : TRUE}] = g[s \ {CHOOSE y \in s : TRUE}]
        BY <2>3, <4>1
      <4>. HIDE DEF h
      <4>. QED  BY <3>2, <4>2 DEF SumFrom
    <3>. QED  BY <3>1, <3>2
  <2>5. h = [s \in Small(S, m + 1) |-> SumFrom(w, h, s)]
    BY <2>4
  <2>. HIDE DEF h
  <2>6. SumsUpTo(w, S, h, m + 1)
    BY <2>5 DEF SumsUpTo
  <2>. QED  BY <2>6
<1>3. \A m \in Nat : m \in P
  <2>. HIDE DEF P
  <2>. QED  BY <1>1, <1>2, NatSetInduction
<1>. QED  BY <1>3

\* The sum of finitely many integers is an integer, and of naturals a natural.
LEMMA SumIsInteger ==
    ASSUME NEW S, IsFiniteSet(S), NEW w \in [S -> Int]
    PROVE  SumFunction(w) \in Int
<1>. DEFINE n == Cardinality(S)
            sums == CHOOSE g : g = [s \in SUBSET S |-> SumFrom(w, g, s)]
<1>0. n \in Nat /\ \A s \in SUBSET S : IsFiniteSet(s) /\ Cardinality(s) \in Nat /\ Cardinality(s) <= n
                       /\ (Cardinality(s) = 0 <=> s = {})
  BY FS_Subset, FS_CardinalityType, FS_EmptySet
<1>1. PICK g0 : SumsUpTo(w, S, g0, n)
  BY <1>0, SumsExist
<1>2. Small(S, n) = SUBSET S
  BY <1>0 DEF Small
<1>3. sums = [s \in SUBSET S |-> SumFrom(w, sums, s)]
  <2>1. g0 = [s \in SUBSET S |-> SumFrom(w, g0, s)]
    BY <1>1, <1>2 DEF SumsUpTo
  <2>. QED  BY <2>1
<1>4. SumFunction(w) = sums[S]
  BY DEF SumFunction, SumFunctionOnSet, FoldFunctionOnSet, MapThenFoldSet, SumFrom
<1>. HIDE DEF sums
<1>. DEFINE Q == {m \in Nat : \A s \in Small(S, m) : s \in SUBSET S /\ sums[s] \in Int}
<1>5. \A s \in SUBSET S : sums[s] = SumFrom(w, sums, s)
  BY <1>3
<1>6. 0 \in Q
  BY <1>0, <1>5 DEF Small, SumFrom
<1>7. ASSUME NEW m \in Nat, m \in Q PROVE m + 1 \in Q
  <2>. SUFFICES ASSUME NEW s \in Small(S, m + 1) PROVE sums[s] \in Int
    BY DEF Small
  <2>0. s \in SUBSET S
    BY DEF Small
  <2>1. CASE s = {}
    BY <2>0, <2>1, <1>5 DEF SumFrom
  <2>2. CASE s # {}
    <3>. DEFINE x == CHOOSE y \in s : TRUE
    <3>1. x \in s
      BY <2>2
    <3>2. sums[s] = w[x] + sums[s \ {x}]
      BY <2>0, <2>2, <1>5 DEF SumFrom
    <3>3. Cardinality(s \ {x}) = Cardinality(s) - 1 /\ s \ {x} \in SUBSET S
      BY <2>0, <3>1, <1>0, FS_RemoveElement
    <3>4. s \ {x} \in Small(S, m)
      BY <2>0, <3>3, <1>0 DEF Small
    <3>5. sums[s \ {x}] \in Int /\ w[x] \in Int
      BY <3>4, <3>1, <2>0, <1>7
    <3>. HIDE DEF x
    <3>. QED  BY <3>2, <3>5
  <2>. QED  BY <2>1, <2>2
<1>8. \A m \in Nat : m \in Q
  <2>. HIDE DEF Q
  <2>. QED  BY <1>6, <1>7, NatSetInduction
<1>9. S \in Small(S, n) /\ n \in Q
  BY <1>0, <1>8, <1>2
<1>. QED  BY <1>4, <1>9

(***************************************************************************)
(* Lists: what stands before what, and how lists are put together.         *)
(***************************************************************************)
Before(s, x, y) == \E i, j \in 1..Len(s) : i < j /\ s[i] = x /\ s[j] = y

\* The list of nothing.
LEMMA EmptyLists == Lists(<<>>, {})
BY DEF Lists

\* A list of one element.
LEMMA SingletonLists ==
    ASSUME NEW x PROVE Lists(<<x>>, {x})
BY DEF Lists

\* What the positions of a list hold, and that no two elements stand before each other.
LEMMA ListsHas ==
    ASSUME NEW s, NEW S, Lists(s, S)
    PROVE  /\ Len(s) \in Nat /\ s \in Seq(S)
           /\ \A i \in 1..Len(s) : s[i] \in S
           /\ \A x, y : Before(s, x, y) => x \in S /\ y \in S /\ x # y
           /\ \A x, y : Before(s, x, y) => ~Before(s, y, x)
<1>1. Len(s) \in Nat /\ s \in Seq(S) /\ \A i \in 1..Len(s) : s[i] \in S
  BY DEF Lists
<1>2. ASSUME NEW x, NEW y, Before(s, x, y) PROVE x \in S /\ y \in S /\ x # y /\ ~Before(s, y, x)
  <2>1. PICK i \in 1..Len(s), j \in 1..Len(s) : i < j /\ s[i] = x /\ s[j] = y
    BY <1>2 DEF Before
  <2>2. \A k \in 1..Len(s) : (s[k] = x => k = i) /\ (s[k] = y => k = j)
    BY <2>1 DEF Lists
  <2>3. ~Before(s, y, x)
    BY <1>1, <2>1, <2>2 DEF Before
  <2>. QED  BY <1>1, <2>1, <2>2, <2>3
<1>. QED  BY <1>1, <1>2

\* Lists of two disjoint sets, one after the other.
LEMMA ListsConcat ==
    ASSUME NEW A, NEW B, A \cap B = {}, NEW s, NEW t, Lists(s, A), Lists(t, B)
    PROVE  /\ Lists(s \o t, A \cup B)
           /\ \A x, y : Before(s, x, y) => Before(s \o t, x, y)
           /\ \A x, y : Before(t, x, y) => Before(s \o t, x, y)
           /\ \A x \in A, y \in B : Before(s \o t, x, y)
<1>. DEFINE q == s \o t
            m == Len(s)
            n == Len(t)
<1>1. s \in Seq(A \cup B) /\ t \in Seq(A \cup B) /\ m \in Nat /\ n \in Nat
  BY ListsHas
<1>2. q \in Seq(A \cup B) /\ Len(q) = m + n
      /\ \A i \in 1..(m + n) : q[i] = IF i <= m THEN s[i] ELSE t[i - m]
  BY <1>1, ConcatProperties
<1>3. (\A i \in 1..m : s[i] \in A) /\ (\A i \in 1..n : t[i] \in B)
  BY ListsHas
<1>. HIDE DEF q, m, n
<1>4. /\ \A i \in 1..m : i \in 1..(m + n) /\ q[i] = s[i]
      /\ \A i \in 1..n : i + m \in 1..(m + n) /\ q[i + m] = t[i]
      /\ \A i \in 1..(m + n) : i \in 1..m \/ (i - m \in 1..n /\ q[i] = t[i - m])
  <2>1. \A i \in 1..m : i \in 1..(m + n) /\ q[i] = s[i]
    BY <1>1, <1>2
  <2>2. ASSUME NEW i \in 1..n PROVE i + m \in 1..(m + n) /\ q[i + m] = t[i]
    <3>1. i + m \in 1..(m + n) /\ ~(i + m <= m) /\ (i + m) - m = i
      BY <1>1
    <3>2. q[i + m] = t[(i + m) - m]
      BY <1>2, <3>1
    <3>. QED  BY <3>1, <3>2
  <2>3. \A i \in 1..(m + n) : i \in 1..m \/ (i - m \in 1..n /\ q[i] = t[i - m])
    BY <1>1, <1>2
  <2>. QED  BY <2>1, <2>2, <2>3
<1>5. ASSUME NEW i \in 1..(m + n), NEW j \in 1..(m + n), q[i] = q[j] PROVE i = j
  <2>1. (i \in 1..m /\ q[i] \in A) \/ (i - m \in 1..n /\ q[i] \in B)
    BY <1>3, <1>4
  <2>2. (j \in 1..m /\ q[j] \in A) \/ (j - m \in 1..n /\ q[j] \in B)
    BY <1>3, <1>4
  <2>3. CASE i \in 1..m /\ j \in 1..m
    BY <2>3, <1>4, <1>5 DEF Lists, m
  <2>4. CASE i - m \in 1..n /\ j - m \in 1..n /\ i \notin 1..m /\ j \notin 1..m
    <3>1. t[i - m] = t[j - m]
      BY <2>4, <1>4, <1>5
    <3>2. i - m = j - m
      BY <2>4, <3>1 DEF Lists, n
    <3>. QED  BY <1>1, <3>2
  <2>. QED  BY <2>1, <2>2, <2>3, <2>4, <1>3, <1>4, <1>5
<1>6. ASSUME NEW x \in A \cup B PROVE \E i \in 1..(m + n) : q[i] = x
  <2>1. CASE x \in A
    <3>1. PICK i \in 1..m : s[i] = x
      BY <2>1 DEF Lists, m
    <3>. QED  BY <3>1, <1>4
  <2>2. CASE x \in B
    <3>1. PICK i \in 1..n : t[i] = x
      BY <2>2 DEF Lists, n
    <3>. QED  BY <3>1, <1>4
  <2>. QED  BY <2>1, <2>2
<1>7. Lists(q, A \cup B)
  BY <1>2, <1>5, <1>6 DEF Lists
<1>8. ASSUME NEW x, NEW y, Before(s, x, y) PROVE Before(q, x, y)
  <2>1. PICK i \in 1..m, j \in 1..m : i < j /\ s[i] = x /\ s[j] = y
    BY <1>8 DEF Before, m
  <2>. QED  BY <2>1, <1>2, <1>4 DEF Before
<1>9. ASSUME NEW x, NEW y, Before(t, x, y) PROVE Before(q, x, y)
  <2>1. PICK i \in 1..n, j \in 1..n : i < j /\ t[i] = x /\ t[j] = y
    BY <1>9 DEF Before, n
  <2>2. i + m < j + m
    BY <2>1, <1>1
  <2>. QED  BY <2>1, <2>2, <1>2, <1>4 DEF Before
<1>10. ASSUME NEW x \in A, NEW y \in B PROVE Before(q, x, y)
  <2>1. PICK i \in 1..m : s[i] = x
    BY DEF Lists, m
  <2>2. PICK j \in 1..n : t[j] = y
    BY DEF Lists, n
  <2>3. i < j + m
    BY <1>1
  <2>. QED  BY <2>1, <2>2, <2>3, <1>2, <1>4 DEF Before
<1>. QED  BY <1>7, <1>8, <1>9, <1>10 DEF q

\* A list without its head.
LEMMA ListsTail ==
    ASSUME NEW S, NEW s, Lists(s, S), s # <<>>
    PROVE  Head(s) \in S /\ Lists(Tail(s), S \ {Head(s)})
<1>1. s \in Seq(S) /\ Len(s) \in Nat \ {0} /\ Head(s) = s[1]
  BY DEF Lists
<1>2. Head(s) \in S /\ Tail(s) \in Seq(S) /\ Len(Tail(s)) = Len(s) - 1
      /\ \A i \in 1..Len(Tail(s)) : Tail(s)[i] = s[i + 1]
  BY <1>1, HeadTailProperties
<1>. DEFINE t == Tail(s)
            n == Len(s)
<1>3. \A i, j \in 1..n : s[i] = s[j] => i = j
  BY DEF Lists
<1>4. \A i \in 1..Len(t) : i + 1 \in 1..n /\ i + 1 # 1 /\ t[i] = s[i + 1]
  BY <1>1, <1>2
<1>5. \A i \in 1..Len(t) : t[i] \in S \ {Head(s)}
  <2>1. \A i \in 1..Len(t) : t[i] # s[1]
    BY <1>1, <1>3, <1>4
  <2>2. \A i \in 1..Len(t) : t[i] \in S
    BY <1>2
  <2>. QED  BY <1>1, <2>1, <2>2
<1>6. t \in Seq(S \ {Head(s)})
  <2>0. t \in Seq(S)
    BY <1>2
  <2>. HIDE DEF t
  <2>1. Len(t) \in Nat /\ t \in [1..Len(t) -> S]
    BY <2>0
  <2>2. t \in [1..Len(t) -> S \ {Head(s)}]
    BY <1>5, <2>1
  <2>. QED  BY <2>1, <2>2
<1>. HIDE DEF t, n
<1>7. ASSUME NEW i \in 1..Len(t), NEW j \in 1..Len(t), t[i] = t[j] PROVE i = j
  <2>1. i + 1 = j + 1
    BY <1>3, <1>4, <1>7
  <2>. QED  BY <2>1, <1>1, <1>2 DEF t
<1>8. ASSUME NEW x \in S \ {Head(s)} PROVE \E i \in 1..Len(t) : t[i] = x
  <2>1. PICK k \in 1..n : s[k] = x
    BY DEF Lists, n
  <2>2. k # 1
    BY <1>1, <2>1
  <2>3. k - 1 \in 1..Len(t) /\ (k - 1) + 1 = k
    BY <1>1, <1>2, <2>2 DEF t, n
  <2>4. t[k - 1] = x
    BY <1>4, <2>1, <2>3
  <2>. QED  BY <2>3, <2>4
<1>. QED  BY <1>2, <1>6, <1>7, <1>8 DEF Lists, t

\* What stands before has the smaller place.
LEMMA PlacesFollow ==
    ASSUME NEW S, NEW s, Lists(s, S), NEW x, NEW y, Before(s, x, y)
    PROVE  Place(s, x) < Place(s, y)
<1>1. PICK i \in 1..Len(s), j \in 1..Len(s) : i < j /\ s[i] = x /\ s[j] = y
  BY DEF Before
<1>2. DOMAIN s = 1..Len(s) /\ \A k \in 1..Len(s) : (s[k] = x => k = i) /\ (s[k] = y => k = j)
  <2>1. \A k, l \in 1..Len(s) : s[k] = s[l] => k = l
    BY DEF Lists
  <2>2. DOMAIN s = 1..Len(s)
    BY DEF Lists
  <2>. QED  BY <1>1, <2>1, <2>2
<1>3. Place(s, x) = i /\ Place(s, y) = j
  BY <1>1, <1>2 DEF Place
<1>. QED  BY <1>1, <1>3

(***************************************************************************)
(* FlattenSeq: the concatenation of sequences, one after the other.        *)
(***************************************************************************)
FlatAt(ss, g, i) == IF i = 1 THEN ss[i] ELSE g[i - 1] \o ss[i]

FlatUpTo(ss, g, m) == g = [i \in 1..m |-> FlatAt(ss, g, i)]

\* The recursive function inside FlattenSeq exists.
LEMMA FlatExists ==
    ASSUME NEW ss
    PROVE  \A n \in Nat : \E g : FlatUpTo(ss, g, n)
<1>. DEFINE P == {m \in Nat : \E g : FlatUpTo(ss, g, m)}
<1>1. 0 \in P
  <2>. DEFINE g == [i \in 1..0 |-> ss]
  <2>1. g = [i \in 1..0 |-> FlatAt(ss, g, i)]
    OBVIOUS
  <2>. HIDE DEF g
  <2>2. FlatUpTo(ss, g, 0)
    BY <2>1 DEF FlatUpTo
  <2>. QED  BY <2>2
<1>2. ASSUME NEW m \in Nat, m \in P PROVE m + 1 \in P
  <2>1. PICK g : FlatUpTo(ss, g, m)
    BY <1>2
  <2>2. \A i \in 1..m : g[i] = FlatAt(ss, g, i)
    BY <2>1 DEF FlatUpTo
  <2>. DEFINE h == [i \in 1..(m + 1) |-> FlatAt(ss, g, i)]
  <2>3. \A i \in 1..m : h[i] = g[i]
    BY <2>2
  <2>4. ASSUME NEW i \in 1..(m + 1) PROVE FlatAt(ss, g, i) = FlatAt(ss, h, i)
    <3>1. CASE i = 1
      BY <3>1 DEF FlatAt
    <3>2. CASE i # 1
      <4>1. i - 1 \in 1..m
        BY <3>2
      <4>2. h[i - 1] = g[i - 1]
        BY <2>3, <4>1
      <4>. HIDE DEF h
      <4>. QED  BY <3>2, <4>2 DEF FlatAt
    <3>. QED  BY <3>1, <3>2
  <2>5. h = [i \in 1..(m + 1) |-> FlatAt(ss, h, i)]
    BY <2>4
  <2>. HIDE DEF h
  <2>6. FlatUpTo(ss, h, m + 1)
    BY <2>5 DEF FlatUpTo
  <2>. QED  BY <2>6
<1>3. \A m \in Nat : m \in P
  <2>. HIDE DEF P
  <2>. QED  BY <1>1, <1>2, NatSetInduction
<1>. QED  BY <1>3

\* The partial results of FlattenSeq.
LEMMA FlattenUnfolds ==
    ASSUME NEW ss, NEW n \in Nat \ {0}, Len(ss) = n
    PROVE  \E g : /\ FlattenSeq(ss) = g[n]
                  /\ g[1] = ss[1]
                  /\ \A i \in 2..n : g[i] = g[i - 1] \o ss[i]
<1>. DEFINE g == CHOOSE g : g = [i \in 1..n |-> FlatAt(ss, g, i)]
<1>1. g = [i \in 1..n |-> FlatAt(ss, g, i)]
  BY FlatExists DEF FlatUpTo
<1>2. FlattenSeq(ss) = g[n]
  BY DEF FlattenSeq, FlatAt
<1>. HIDE DEF g
<1>3. \A i \in 1..n : g[i] = FlatAt(ss, g, i)
  BY <1>1
<1>4. g[1] = ss[1]
  <2>1. 1 \in 1..n
    OBVIOUS
  <2>. QED  BY <1>3, <2>1 DEF FlatAt
<1>5. \A i \in 2..n : g[i] = g[i - 1] \o ss[i]
  <2>1. \A i \in 2..n : i \in 1..n /\ i # 1
    OBVIOUS
  <2>. QED  BY <1>3, <2>1 DEF FlatAt
<1>. QED  BY <1>2, <1>4, <1>5

\* FlattenSeq of sequences over a set is a sequence over it.
LEMMA FlattenIsSeq ==
    ASSUME NEW S, NEW ss, NEW n \in Nat, Len(ss) = n, n = 0 => ss = <<>>,
           \A i \in 1..n : ss[i] \in Seq(S)
    PROVE  FlattenSeq(ss) \in Seq(S)
<1>1. CASE n = 0
  BY <1>1 DEF FlattenSeq
<1>2. CASE n # 0
  <2>0. n \in Nat \ {0}
    BY <1>2
  <2>1. PICK g : /\ FlattenSeq(ss) = g[n]
                 /\ g[1] = ss[1]
                 /\ \A i \in 2..n : g[i] = g[i - 1] \o ss[i]
    BY <2>0, FlattenUnfolds
  <2>. DEFINE Q == {m \in Nat : m + 1 <= n => g[m + 1] \in Seq(S)}
  <2>2. 0 \in Q
    BY <2>1, <1>2
  <2>3. ASSUME NEW m \in Nat, m \in Q PROVE m + 1 \in Q
    <3>. SUFFICES ASSUME m + 2 <= n PROVE g[m + 2] \in Seq(S)
      OBVIOUS
    <3>1. m + 2 \in 2..n /\ (m + 2) - 1 = m + 1
      OBVIOUS
    <3>2. g[m + 2] = g[m + 1] \o ss[m + 2]
      BY <2>1, <3>1
    <3>3. g[m + 1] \in Seq(S) /\ ss[m + 2] \in Seq(S)
      BY <2>3
    <3>. QED  BY <3>2, <3>3
  <2>4. \A m \in Nat : m \in Q
    <3>. HIDE DEF Q
    <3>. QED  BY <2>2, <2>3, NatSetInduction
  <2>5. n - 1 \in Nat /\ (n - 1) + 1 = n
    BY <1>2
  <2>6. n - 1 \in Q
    BY <2>4, <2>5
  <2>. QED  BY <2>1, <2>5, <2>6
<1>. QED  BY <1>1, <1>2

\* Lists of disjoint sets, one after the other, list their union.
LEMMA FlattenLists ==
    ASSUME NEW n \in Nat, NEW ss, Len(ss) = n, n = 0 => ss = <<>>, NEW T,
           \A i \in 1..n : Lists(ss[i], T[i]),
           \A i, j \in 1..n : i # j => T[i] \cap T[j] = {}
    PROVE  /\ Lists(FlattenSeq(ss), UNION {T[i] : i \in 1..n})
           /\ \A i \in 1..n : \A x, y : Before(ss[i], x, y) => Before(FlattenSeq(ss), x, y)
           /\ \A i, j \in 1..n : i < j =>
                \A x \in T[i], y \in T[j] : Before(FlattenSeq(ss), x, y)
<1>1. CASE n = 0
  <2>1. FlattenSeq(ss) = <<>>
    BY <1>1 DEF FlattenSeq
  <2>2. UNION {T[i] : i \in 1..n} = {} /\ 1..n = {}
    BY <1>1
  <2>. QED  BY <2>1, <2>2, EmptyLists
<1>2. CASE n # 0
  <2>0. n \in Nat \ {0}
    BY <1>2
  <2>1. PICK g : /\ FlattenSeq(ss) = g[n]
                 /\ g[1] = ss[1]
                 /\ \A i \in 2..n : g[i] = g[i - 1] \o ss[i]
    BY <2>0, FlattenUnfolds
  <2>. DEFINE Upto(k) == UNION {T[i] : i \in 1..k}
              Good(k) == /\ Lists(g[k], Upto(k))
                         /\ \A i \in 1..k : \A x, y : Before(ss[i], x, y) => Before(g[k], x, y)
                         /\ \A i, j \in 1..k : i < j =>
                                \A x \in T[i], y \in T[j] : Before(g[k], x, y)
              Q == {m \in Nat : m + 1 <= n => Good(m + 1)}
  <2>2. 0 \in Q
    <3>1. Upto(1) = T[1] /\ 1 \in 1..n /\ 1..1 = {1}
      BY <1>2
    <3>2. Lists(g[1], Upto(1))
      <4>1. Lists(ss[1], T[1])
        BY <3>1
      <4>. HIDE DEF Upto
      <4>. QED  BY <2>1, <3>1, <4>1
    <3>3. \A i \in 1..1 : \A x, y : Before(ss[i], x, y) => Before(g[1], x, y)
      BY <2>1, <3>1
    <3>4. \A i, j \in 1..1 : ~(i < j)
      OBVIOUS
    <3>5. Good(1)
      BY <3>2, <3>3, <3>4
    <3>. HIDE DEF Good
    <3>. QED  BY <3>5
  <2>3. ASSUME NEW m \in Nat, m \in Q PROVE m + 1 \in Q
    <3>. SUFFICES ASSUME m + 2 <= n PROVE Good(m + 2)
      <4>1. (m + 1) + 1 = m + 2
        OBVIOUS
      <4>. HIDE DEF Good
      <4>. QED  BY <4>1
    <3>1. m + 2 \in 2..n /\ (m + 2) - 1 = m + 1 /\ m + 2 \in 1..n
      OBVIOUS
    <3>2. g[m + 2] = g[m + 1] \o ss[m + 2]
      BY <2>1, <3>1
    <3>3. Good(m + 1)
      BY <2>3
    <3>4. \A i \in 1..(m + 2) : i \in 1..(m + 1) \/ i = m + 2
      OBVIOUS
    <3>5. Upto(m + 2) = Upto(m + 1) \cup T[m + 2]
      BY <3>4
    <3>6. Upto(m + 1) \cap T[m + 2] = {}
      <4>1. \A i \in 1..(m + 1) : i \in 1..n /\ i # m + 2
        OBVIOUS
      <4>. QED  BY <4>1, <3>1
    <3>7. Lists(ss[m + 2], T[m + 2])
      BY <3>1
    <3>8. /\ Lists(g[m + 2], Upto(m + 1) \cup T[m + 2])
          /\ \A x, y : Before(g[m + 1], x, y) => Before(g[m + 2], x, y)
          /\ \A x, y : Before(ss[m + 2], x, y) => Before(g[m + 2], x, y)
          /\ \A x \in Upto(m + 1), y \in T[m + 2] : Before(g[m + 2], x, y)
      <4>1. Lists(g[m + 1], Upto(m + 1))
        BY <3>3
      <4>2. ASSUME NEW p, NEW q, Lists(p, Upto(m + 1)), Lists(q, T[m + 2])
            PROVE  /\ Lists(p \o q, Upto(m + 1) \cup T[m + 2])
                   /\ \A x, y : Before(p, x, y) => Before(p \o q, x, y)
                   /\ \A x, y : Before(q, x, y) => Before(p \o q, x, y)
                   /\ \A x \in Upto(m + 1), y \in T[m + 2] : Before(p \o q, x, y)
        <5>. HIDE DEF Upto
        <5>. QED  BY <3>6, <4>2, ListsConcat
      <4>. HIDE DEF Upto
      <4>3. /\ Lists(g[m + 1] \o ss[m + 2], Upto(m + 1) \cup T[m + 2])
            /\ \A x, y : Before(g[m + 1], x, y) => Before(g[m + 1] \o ss[m + 2], x, y)
            /\ \A x, y : Before(ss[m + 2], x, y) => Before(g[m + 1] \o ss[m + 2], x, y)
            /\ \A x \in Upto(m + 1), y \in T[m + 2] : Before(g[m + 1] \o ss[m + 2], x, y)
        BY <3>7, <4>1, <4>2
      <4>. QED  BY <3>2, <4>3
    <3>9. ASSUME NEW i \in 1..(m + 2), NEW x, NEW y, Before(ss[i], x, y) PROVE Before(g[m + 2], x, y)
      BY <3>3, <3>4, <3>8, <3>9
    <3>10. ASSUME NEW i \in 1..(m + 2), NEW j \in 1..(m + 2), i < j, NEW x \in T[i], NEW y \in T[j]
           PROVE  Before(g[m + 2], x, y)
      <4>1. i \in 1..(m + 1)
        BY <3>10
      <4>2. CASE j \in 1..(m + 1)
        BY <3>3, <3>8, <3>10, <4>1, <4>2
      <4>3. CASE j = m + 2
        <5>1. x \in Upto(m + 1)
          BY <4>1
        <5>. QED  BY <3>8, <4>3, <5>1
      <4>. QED  BY <3>4, <4>2, <4>3
    <3>. QED  BY <3>5, <3>8, <3>9, <3>10
  <2>4. \A m \in Nat : m \in Q
    <3>. HIDE DEF Q
    <3>. QED  BY <2>2, <2>3, NatSetInduction
  <2>5. n - 1 \in Nat /\ (n - 1) + 1 = n
    BY <1>2
  <2>6. Good(n)
    <3>1. n - 1 \in Q
      BY <2>4, <2>5
    <3>. HIDE DEF Good
    <3>. QED  BY <2>5, <3>1
  <2>. QED  BY <2>1, <2>6
<1>. QED  BY <1>1, <1>2

(***************************************************************************)
(* Reachable: the least closed set of nodes around the first ones.         *)
(***************************************************************************)
Closed(C, nodes, links) == \A m \in C, n \in nodes : {m, n} \in links => n \in C

ReachAt(some, nodes, links, g, k) ==
    IF k = 0 THEN some ELSE g[k - 1] \cup {n \in nodes : \E m \in g[k - 1] : {m, n} \in links}

ReachUpTo(some, nodes, links, g, b) == g = [k \in 0..b |-> ReachAt(some, nodes, links, g, k)]

\* The recursive function inside Reachable exists.
LEMMA ReachExists ==
    ASSUME NEW some, NEW nodes, NEW links
    PROVE  \A b \in Nat : \E g : ReachUpTo(some, nodes, links, g, b)
<1>. DEFINE P == {b \in Nat : \E g : ReachUpTo(some, nodes, links, g, b)}
            At0(g, k) == ReachAt(some, nodes, links, g, k)
<1>1. 0 \in P
  <2>. DEFINE g == [k \in 0..0 |-> some]
  <2>1. g = [k \in 0..0 |-> ReachAt(some, nodes, links, g, k)]
    BY DEF ReachAt
  <2>. HIDE DEF g
  <2>2. ReachUpTo(some, nodes, links, g, 0)
    BY <2>1 DEF ReachUpTo
  <2>. QED  BY <2>2
<1>2. ASSUME NEW b \in Nat, b \in P PROVE b + 1 \in P
  <2>1. PICK g : ReachUpTo(some, nodes, links, g, b)
    BY <1>2
  <2>2. \A k \in 0..b : g[k] = ReachAt(some, nodes, links, g, k)
    BY <2>1 DEF ReachUpTo
  <2>. DEFINE h == [k \in 0..(b + 1) |-> ReachAt(some, nodes, links, g, k)]
  <2>3. \A k \in 0..b : h[k] = g[k]
    BY <2>2
  <2>4. ASSUME NEW k \in 0..(b + 1)
        PROVE  ReachAt(some, nodes, links, g, k) = ReachAt(some, nodes, links, h, k)
    <3>1. CASE k = 0
      BY <3>1 DEF ReachAt
    <3>2. CASE k # 0
      <4>1. k - 1 \in 0..b
        BY <3>2
      <4>2. h[k - 1] = g[k - 1]
        BY <2>3, <4>1
      <4>. HIDE DEF h
      <4>. QED  BY <3>2, <4>2 DEF ReachAt
    <3>. QED  BY <3>1, <3>2
  <2>5. h = [k \in 0..(b + 1) |-> ReachAt(some, nodes, links, h, k)]
    BY <2>4
  <2>. HIDE DEF h
  <2>6. ReachUpTo(some, nodes, links, h, b + 1)
    BY <2>5 DEF ReachUpTo
  <2>. QED  BY <2>6
<1>3. \A b \in Nat : b \in P
  <2>. HIDE DEF P
  <2>. QED  BY <1>1, <1>2, NatSetInduction
<1>. QED  BY <1>3

\* Reachable is the least closed set of nodes that contains the first ones:
\* as many rounds as there are nodes are enough.
THEOREM ReachableCloses ==
    ASSUME NEW nodes, IsFiniteSet(nodes), NEW some \in SUBSET nodes, NEW links
    PROVE  /\ Reachable(some, nodes, links) \in SUBSET nodes
           /\ some \subseteq Reachable(some, nodes, links)
           /\ Closed(Reachable(some, nodes, links), nodes, links)
           /\ \A C \in SUBSET nodes : some \subseteq C /\ Closed(C, nodes, links) =>
                Reachable(some, nodes, links) \subseteq C
<1>. DEFINE n == Cardinality(nodes)
            g == CHOOSE g : g = [k \in 0..n |-> ReachAt(some, nodes, links, g, k)]
<1>0. n \in Nat
  BY FS_CardinalityType
<1>1. g = [k \in 0..n |-> ReachAt(some, nodes, links, g, k)]
  <2>1. \E h : ReachUpTo(some, nodes, links, h, n)
    BY <1>0, ReachExists
  <2>. QED  BY <2>1 DEF ReachUpTo
<1>2. Reachable(some, nodes, links) = g[n]
  BY DEF Reachable, ReachAt
<1>. HIDE DEF g, n
<1>3. g[0] = some
  BY <1>0, <1>1 DEF ReachAt
<1>4. \A k \in 0..(n - 1) : g[k + 1] = g[k] \cup {x \in nodes : \E m \in g[k] : {m, x} \in links}
  <2>1. \A k \in 0..(n - 1) : k + 1 \in 0..n /\ k + 1 # 0 /\ (k + 1) - 1 = k
    BY <1>0
  <2>. QED  BY <1>1, <2>1 DEF ReachAt
<1>. DEFINE Good(k) == /\ g[k] \in SUBSET nodes /\ some \subseteq g[k]
                       /\ Closed(g[k], nodes, links) \/ Cardinality(g[k]) >= k
                       /\ \A C \in SUBSET nodes : some \subseteq C /\ Closed(C, nodes, links) => g[k] \subseteq C
            Q == {k \in Nat : k <= n => Good(k)}
<1>5. 0 \in Q
  <2>1. IsFiniteSet(some)
    BY FS_Subset
  <2>2. Cardinality(g[0]) >= 0
    BY <2>1, <1>3, FS_CardinalityType
  <2>. QED  BY <1>3, <2>2
<1>6. ASSUME NEW k \in Nat, k \in Q PROVE k + 1 \in Q
  <2>. SUFFICES ASSUME k + 1 <= n PROVE Good(k + 1)
    OBVIOUS
  <2>1. Good(k) /\ k \in 0..(n - 1)
    BY <1>0, <1>6
  <2>2. g[k + 1] = g[k] \cup {x \in nodes : \E m \in g[k] : {m, x} \in links}
    BY <1>4, <2>1
  <2>3. g[k + 1] \in SUBSET nodes /\ some \subseteq g[k + 1]
    BY <2>1, <2>2
  <2>4. ASSUME NEW C \in SUBSET nodes, some \subseteq C, Closed(C, nodes, links) PROVE g[k + 1] \subseteq C
    BY <2>1, <2>2, <2>4 DEF Closed
  <2>5. Closed(g[k + 1], nodes, links) \/ Cardinality(g[k + 1]) >= k + 1
    <3>1. CASE Closed(g[k], nodes, links)
      <4>1. g[k + 1] = g[k]
        BY <2>1, <2>2, <3>1 DEF Closed
      <4>. QED  BY <3>1, <4>1
    <3>2. CASE ~Closed(g[k], nodes, links)
      <4>1. PICK x \in nodes : x \notin g[k] /\ x \in g[k + 1]
        BY <2>1, <2>2, <3>2 DEF Closed
      <4>2. IsFiniteSet(g[k + 1]) /\ g[k] \in SUBSET g[k + 1]
        BY <2>2, <2>3, FS_Subset
      <4>3. Cardinality(g[k]) \in Nat /\ Cardinality(g[k + 1]) \in Nat
            /\ Cardinality(g[k]) <= Cardinality(g[k + 1]) /\ Cardinality(g[k]) # Cardinality(g[k + 1])
        BY <4>1, <4>2, FS_Subset, FS_CardinalityType
      <4>. QED  BY <2>1, <3>2, <4>3
    <3>. QED  BY <3>1, <3>2
  <2>. QED  BY <2>3, <2>4, <2>5
<1>7. Good(n)
  <2>1. \A k \in Nat : k \in Q
    <3>. HIDE DEF Q
    <3>. QED  BY <1>5, <1>6, NatSetInduction
  <2>. QED  BY <1>0, <2>1
<1>8. Closed(g[n], nodes, links)
  <2>1. CASE Cardinality(g[n]) >= n
    <3>1. Cardinality(g[n]) <= n /\ Cardinality(g[n]) \in Nat /\ IsFiniteSet(g[n])
      BY <1>7, FS_Subset, FS_CardinalityType DEF n
    <3>2. Cardinality(g[n]) = n
      BY <1>0, <2>1, <3>1
    <3>3. g[n] = nodes
      BY <1>7, <3>2, FS_Subset DEF n
    <3>. QED  BY <3>3 DEF Closed
  <2>. QED  BY <1>7, <2>1
<1>. QED  BY <1>2, <1>7, <1>8

\* The components of the nodes: not empty, closed, and equal when they meet.
LEMMA Components ==
    ASSUME NEW nodes, IsFiniteSet(nodes), NEW links
    PROVE  /\ \A f \in nodes : f \in Reachable({f}, nodes, links) /\ Reachable({f}, nodes, links) \in SUBSET nodes
           /\ \A f \in nodes : Closed(Reachable({f}, nodes, links), nodes, links)
           /\ \A f, h \in nodes : h \in Reachable({f}, nodes, links) =>
                Reachable({h}, nodes, links) = Reachable({f}, nodes, links)
<1>. DEFINE R(f) == Reachable({f}, nodes, links)
<1>1. ASSUME NEW f \in nodes
      PROVE  /\ f \in R(f) /\ R(f) \in SUBSET nodes /\ Closed(R(f), nodes, links)
             /\ \A C \in SUBSET nodes : f \in C /\ Closed(C, nodes, links) => R(f) \subseteq C
  <2>1. {f} \in SUBSET nodes
    OBVIOUS
  <2>. QED  BY <2>1, ReachableCloses
<1>. HIDE DEF R
<1>2. ASSUME NEW f \in nodes, NEW h \in nodes, h \in R(f) PROVE R(h) \subseteq R(f)
  BY <1>1, <1>2
<1>3. ASSUME NEW f \in nodes, NEW h \in nodes, h \in R(f) PROVE f \in R(h)
  <2>. SUFFICES ASSUME f \notin R(h) PROVE FALSE
    OBVIOUS
  <2>1. Closed(nodes \ R(h), nodes, links)
    <3>. SUFFICES ASSUME NEW m \in nodes \ R(h), NEW x \in nodes, {m, x} \in links PROVE x \notin R(h)
      BY DEF Closed
    <3>1. {x, m} \in links
      <4>1. {x, m} = {m, x}
        OBVIOUS
      <4>. QED  BY <4>1
    <3>. QED  BY <1>1, <3>1 DEF Closed
  <2>2. R(f) \subseteq nodes \ R(h)
    BY <1>1, <2>1
  <2>. QED  BY <1>1, <1>3, <2>2
<1>. QED  BY <1>1, <1>2, <1>3 DEF R

(***************************************************************************)
(* The files and their order.                                              *)
(***************************************************************************)
\* The files of a run and their metadata.
LEMMA FilesAreFinite ==
    ASSUME input \in Inputs
    PROVE  /\ IsFiniteSet(File) /\ File \in SUBSET Nat /\ input.count \in Nat /\ NoFile \notin File
           /\ \A f \in File : input.meta[f] \in
                [ext : Extension, sha : Nat, digest : Nat, name : Nat, stem : Nat,
                 modified : Nat, version : Nat, phase : 0..3]
<1>1. input.count \in Nat /\ input.meta \in Metadata(input.count)
  BY FilesAssumption
<1>2. ASSUME NEW k \in Nat PROVE IsFiniteSet(1..k)
  BY FS_Interval
<1>. QED  BY <1>1, <1>2 DEF File, Metadata, NoFile

\* _file_sort_key orders the files totally.
LEMMA OlderIsTotal ==
    ASSUME input \in Inputs
    PROVE  /\ \A f \in File : Older(f, f)
           /\ \A f, g, h \in File : Older(f, g) /\ Older(g, h) => Older(f, h)
           /\ \A f, g \in File : Older(f, g) \/ Older(g, f)
           /\ \A f, g \in File : Older(f, g) /\ Older(g, f) => f = g
<1>1. \A f \in File : f \in Nat /\ input.meta[f].modified \in Nat
  BY FilesAreFinite
<1>. QED  BY <1>1 DEF Older

\* Sorted and InOrder list every set of files.
LEMMA SortedSorts ==
    ASSUME input \in Inputs, NEW S \in SUBSET File
    PROVE  Lists(Sorted(S), S) /\ Lists(InOrder(S), S) /\ IsFiniteSet(S)
<1>0. IsFiniteSet(S) /\ S \in SUBSET Nat
  BY FilesAreFinite, FS_Subset
<1>. DEFINE R == {p \in S \X S : p[1] # p[2] /\ Older(p[1], p[2])}
            T == {p \in S \X S : p[1] < p[2]}
<1>1. Orders(R, S)
  <2>1. /\ \A f, g, h \in S : Older(f, g) /\ Older(g, h) => Older(f, h)
        /\ \A f, g \in S : Older(f, g) \/ Older(g, f)
        /\ \A f, g \in S : Older(f, g) /\ Older(g, f) => f = g
    BY OlderIsTotal
  <2>2. \A x, y : <<x, y>> \in R <=> x \in S /\ y \in S /\ x # y /\ Older(x, y)
    OBVIOUS
  <2>. HIDE DEF R
  <2>. QED  BY <2>1, <2>2 DEF Orders
<1>2. Orders(T, S)
  BY <1>0 DEF Orders
<1>. HIDE DEF R, T
<1>3. Lists(SortedBy(S, R), S) /\ Lists(SortedBy(S, T), S)
  BY <1>0, <1>1, <1>2, SortedBySorts
<1>. QED  BY <1>0, <1>3 DEF Sorted, InOrder, R, T

(***************************************************************************)
(* The groups.                                                             *)
(***************************************************************************)
\* group_related_documents, whatever text is lost: every file is in a group, equal
\* files are in the same, and the groups of one pass have no file in common.
THEOREM GroupsPartition ==
    ASSUME input \in Inputs, NEW some \in SUBSET File, NEW lost
    PROVE  /\ IsFiniteSet(GroupRelatedDocuments(some, lost))
           /\ \A g \in GroupRelatedDocuments(some, lost) : g \in SUBSET some /\ g # {}
           /\ \A f \in some : \E g \in GroupRelatedDocuments(some, lost) : f \in g
           /\ \A g \in GroupRelatedDocuments(some, lost) : \A f \in g, h \in some :
                    Sha(f) = Sha(h) => h \in g
           /\ \A g, h \in GroupRelatedDocuments(some, lost) : g # h => g \cap h = {}
<1>. DEFINE links == input.alike[lost]
                     \cup {{p[1], p[2]} : p \in {q \in some \X some : Sha(q[1]) = Sha(q[2])}}
            R(f) == Reachable({f}, some, links)
<1>1. GroupRelatedDocuments(some, lost) = {R(f) : f \in some}
  BY DEF GroupRelatedDocuments
<1>0. \A f, h \in some : Sha(f) = Sha(h) => {f, h} \in links
  <2>. SUFFICES ASSUME NEW f \in some, NEW h \in some, Sha(f) = Sha(h) PROVE {f, h} \in links
    OBVIOUS
  <2>1. <<f, h>> \in {q \in some \X some : Sha(q[1]) = Sha(q[2])}
    OBVIOUS
  <2>. QED  BY <2>1
<1>2. IsFiniteSet(some)
  BY SortedSorts
<1>. HIDE DEF links
<1>3. /\ \A f \in some : f \in R(f) /\ R(f) \in SUBSET some /\ Closed(R(f), some, links)
      /\ \A f, h \in some : h \in R(f) => R(h) = R(f)
  BY <1>2, Components
<1>. HIDE DEF R
<1>5. \A g \in {R(f) : f \in some} : \A f \in g, h \in some : Sha(f) = Sha(h) => h \in g
  <2>. SUFFICES ASSUME NEW x \in some, NEW f \in R(x), NEW h \in some, Sha(f) = Sha(h)
                PROVE  h \in R(x)
    OBVIOUS
  <2>1. f \in some /\ Closed(R(x), some, links)
    BY <1>3
  <2>2. {f, h} \in links
    BY <1>0, <2>1
  <2>. QED  BY <2>1, <2>2 DEF Closed
<1>4. IsFiniteSet({R(f) : f \in some})
  <2>. DEFINE r == [f \in some |-> R(f)]
  <2>1. r \in Surjection(some, {R(f) : f \in some})
    BY DEF Surjection
  <2>. HIDE DEF r
  <2>. QED  BY <1>2, <2>1, FS_Surjection
<1>. QED  BY <1>1, <1>3, <1>4, <1>5

(***************************************************************************)
(* Where a run is.                                                         *)
(***************************************************************************)
InventoryNodes ==
    {"register_file_metadata", "mark_exact_duplicates", "build_parse_queue", "load_next_parse_job",
     "extract_content", "record_document_result", "record_parse_error", "record_unsupported_file",
     "validate_inventory_results", "inventory_ended"}

ParsingNodes ==
    {"extract_content", "record_document_result", "record_parse_error", "record_unsupported_file"}

\* From the choice of the main versions on, ever shorter.
JudgeNodes ==
    {"dispatch_recommendation_judge_task", "judge_dispatched", "prepare_human_review",
     "request_human_review", "apply_human_selection"}
MarkedNodes == {"validate_recommendation_results"} \cup JudgeNodes
PreservedNodes == {"mark_human_review_items"} \cup MarkedNodes
ReviewedNodes == {"preserve_complete_version_chains"} \cup PreservedNodes
SemanticNodes == {"apply_business_evidence_review_rules"} \cup ReviewedNodes
WeighedNodes == {"apply_semantic_review_rules"} \cup SemanticNodes
ChosenNodes == {"calculate_decision_confidence"} \cup WeighedNodes
RatedNodes == {"select_main_versions"} \cup ChosenNodes
ScoredNodes ==
    {"apply_delivery_rules", "apply_pdf_source_rules", "apply_business_evidence_rules"} \cup RatedNodes
FoundNodes == {"score_version_candidates"} \cup ScoredNodes \cup {"reported"}
VersionNodes ==
    {"group_related_documents", "add_duplicate_version_edges", "build_comparison_queue",
     "load_next_comparison", "compare_document_pair", "infer_version_direction",
     "prepare_version_subagent_input", "summarize_key_changes_with_subagent",
     "apply_subagent_summary", "retain_deterministic_summary", "record_diff_result",
     "record_comparison_error", "build_version_edges", "detect_version_branches",
     "build_version_chains", "validate_version_results", "version_ended"}
EvidenceNodes ==
    {"collect_pdf_candidates", "create_pdf_match_jobs", "match_pdf_to_source_version",
     "load_email_mcp_evidence", "load_local_delivery_log", "match_delivery_to_version",
     "match_email_delivery_to_version", "merge_external_evidence", "validate_evidence_confidence",
     "evidence_ended", "dispatch_evidence_subagent_task", "evidence_dispatched"}
ChainedNodes == {"validate_version_results", "version_ended"} \cup EvidenceNodes
ComparingNodes ==
    {"compare_document_pair", "infer_version_direction", "prepare_version_subagent_input",
     "summarize_key_changes_with_subagent", "apply_subagent_summary", "retain_deterministic_summary",
     "record_diff_result"}

RecommendationNodes == {"find_editable_leaf_versions"} \cup (FoundNodes \ {"reported"})

\* Where only a run gets to whose evidence has passed its validation.
ConfirmedNodes ==
    {"dispatch_evidence_subagent_task", "evidence_dispatched", "reported"} \cup RecommendationNodes

Originals == {f \in File : duplicate[f] = NoFile}

(***************************************************************************)
(* The invariant, stage by stage.                                          *)
(***************************************************************************)
FilesFit ==
    /\ input \in Inputs
    /\ files \in [File -> Status]
    /\ duplicate \in [File -> File \cup {NoFile}]
    /\ \A f \in File \ Originals :
        /\ files[f] = "duplicate" /\ duplicate[f] \in Registered /\ duplicate[f] # f
        /\ Sha(duplicate[f]) = Sha(f) /\ Older(duplicate[f], f)
    /\ ~At("register_file_metadata") /\ ~At("mark_exact_duplicates") =>
        \A f \in File \ Originals : duplicate[f] \in Originals

\* A copy is in every group of its original.  The groups of a first pass have no
\* file in common; those of a second may, but then the evidence stage records it
\* and the run ends there.
GroupsFit ==
    /\ groups \in SUBSET SUBSET File /\ IsFiniteSet(groups)
    /\ \A g \in groups : \A f \in g \ Originals : duplicate[f] \in g
    /\ pc \in InventoryNodes => groups = {}
    /\ "version_analysis" \notin retried =>
        (pc = "group_related_documents" => groups = {}) /\ Disjoint
    /\ pc = "evidence_ended" => Disjoint \/ "validation" \in errors
    /\ pc \in ConfirmedNodes => Disjoint

\* Two files of a group to compare, neither of them a copy.
GroupPairs == {p \in Originals \X Originals \X SUBSET File : p[1] \in p[3] /\ p[2] \in p[3]}

DiffFits(d, p) ==
    /\ {"older", "newer"} \subseteq DOMAIN d
    /\ d.older \in {p[1], p[2], NoFile} /\ d.newer \in {p[1], p[2], NoFile}
    /\ d.older # NoFile => d.newer # NoFile

EdgeFits(e) ==
    /\ e.parent \in e.group /\ e.child \in e.group
    /\ \/ e.relation = "duplicate_of" /\ e.parent = duplicate[e.child]
       \/ /\ e.relation \in {"derived_from", "derived_export"}
          /\ e.parent \in Originals /\ e.child \in Originals
       \/ e.relation \in {"uncertain", "parallel_branch", "semantic_duplicate"}

VersionsFit ==
    /\ comparisons \in Seq(GroupPairs)
    /\ pc = "load_next_comparison" => comparisons # <<>>
    /\ pc \in ComparingNodes => pair \in GroupPairs /\ DiffFits(diff, pair)
    /\ \A p \in DOMAIN diffs : p \in GroupPairs /\ DiffFits(diffs[p], p)
    /\ \A e \in edges : EdgeFits(e)
    /\ pc \in InventoryNodes => comparisons = <<>> /\ diffs = <<>> /\ edges = {}

\* A chain lists its group, copies after originals and, when it is complete,
\* every file after those it derives from.
InOrderOf(chain, group, some) ==
    /\ Lists(chain.order, group)
    /\ \A f \in group : duplicate[f] \in group => Before(chain.order, duplicate[f], f)
    /\ chain.complete => \A e \in some : Before(chain.order, e.parent, e.child)

ChainsFit ==
    /\ DOMAIN chains \subseteq groups
    /\ pc \in ChainedNodes =>
        DOMAIN chains = groups /\ \A g \in groups : InOrderOf(chains[g], g, Within(g, edges))

EvidenceFits ==
    /\ jobs \in SUBSET {f \in File : Ext(f) = "pdf"}
    /\ pc = "match_pdf_to_source_version" => \A f \in jobs : \E g \in groups : f \in g
    /\ DOMAIN exports \in SUBSET File /\ \A f \in DOMAIN exports : exports[f].confidence \in Int
    /\ IsFiniteSet(mails) /\ IsFiniteSet(deliveries)
    /\ \A d \in deliveries : d.confidence \in Int
    /\ business \in SUBSET {[type |-> t, file |-> d.file, mail |-> d.mail, confidence |-> 90] :
                                t \in BusinessType, d \in deliveries}

\* What validate_evidence_confidence asks besides that no file is in two groups.
SourcesFit ==
    /\ \A p \in DOMAIN exports : exports[p].source # NoFile =>
        /\ \E g \in groups : {p, exports[p].source} \subseteq g
        /\ Ext(exports[p].source) \in Editable /\ exports[p].score >= 82
    /\ \A d \in deliveries : d.file # NoFile => Grouped(d.file)

\* What the validations at the end of the inventory and the evidence stage ask is
\* so all the time; the evidence is collected for groups that no longer change.
RecordsFit ==
    /\ pc \in {"load_next_parse_job"} \cup ParsingNodes => queue \in Seq(Originals)
    /\ pc = "load_next_parse_job" => queue # <<>>
    /\ pc \in ParsingNodes => current \in Originals
    /\ InventoryIsValid /\ SourcesFit
    /\ pc \in InventoryNodes \cup VersionNodes => exports = <<>> /\ deliveries = {}

Decision(g) ==
    [scores : [candidates[g] -> 0..Whole], recommended : File \cup {NoFile}, confidence : 0..Whole,
     review : BOOLEAN, by : {"unresolved", "rule", "human"}, preserve : SUBSET g]

\* What the decision of a group has come to at a node.  An excluded file loses
\* its score, and is not chosen while another is left; a group that a rule
\* settled has been through every test so far.
DecisionFits(g, d, node) ==
    /\ d \in Decision(g)
    /\ node \in RatedNodes => \A f \in candidates[g] \cap ExcludedFrom(g) : d.scores[f] = 0
    /\ node \in ChosenNodes =>
        IF candidates[g] \subseteq ExcludedFrom(g) THEN d.recommended = NoFile
        ELSE d.recommended \in candidates[g] \ ExcludedFrom(g)
    /\ node \in WeighedNodes =>
        /\ d.by = (IF d.review THEN "unresolved" ELSE "rule")
        /\ d.by = "rule" => chains[g].complete /\ BranchesOf(g) = {} /\ d.recommended # NoFile
    /\ node \in SemanticNodes /\ d.by = "rule" => ~SemanticReview(g)
    /\ node \in ReviewedNodes /\ d.by = "rule" => ~BusinessReview(g)
    /\ node \in PreservedNodes => d.preserve = g

DecisionsFit ==
    /\ pc \in FoundNodes => candidates = [g \in groups |-> g \cap Originals]
    /\ pc \in ScoredNodes =>
        DOMAIN decisions = groups /\ \A g \in groups : DecisionFits(g, decisions[g], pc)
    /\ pc \in MarkedNodes => pending = UnderReview(decisions)
    /\ AutomaticChoiceIsSafe

IInv == /\ FilesFit /\ GroupsFit /\ VersionsFit /\ ChainsFit /\ EvidenceFits /\ RecordsFit /\ DecisionsFit

(***************************************************************************)
(* Every step belongs to a stage, and leaves the other stages alone.       *)
(***************************************************************************)
\* Each stage keeps to its own nodes and its own data: the inventory stage.
LEMMA InventoryMoves ==
    ASSUME InventoryNext
    PROVE  /\ pc \in InventoryNodes /\ pc' \in InventoryNodes \cup {"group_related_documents", "stopped"}
           /\ UNCHANGED input
BY DEF InventoryNext, RegisterFileMetadata, MarkExactDuplicates, BuildParseQueue, LoadNextParseJob,
       ExtractAndNormalize, RecordDocumentResult, RecordParseError, RecordUnsupportedFile,
       ValidateInventoryResults, EndInventory, Finished, NextParseJob, At, EndStage, InventoryNodes

\* The version stage.
LEMMA VersionMoves ==
    ASSUME VersionNext
    PROVE  /\ pc \in VersionNodes /\ pc' \in VersionNodes \cup {"collect_pdf_candidates", "stopped"}
           /\ UNCHANGED <<input, inventoryVars>>
BY DEF VersionNext, GroupRelatedFiles, AddDuplicateVersionEdges, BuildComparisonQueue, LoadNextComparison,
       CompareDocumentPair, InferVersionDirection, PrepareVersionSubagentInput,
       SummarizeKeyChangesWithSubagent, ApplySubagentSummary, RetainDeterministicSummary,
       RecordDiffResult, RecordComparisonError, BuildVersionEdges, DetectVersionBranches,
       BuildVersionChains, ValidateVersionResults, EndVersion, ComparisonEnds, NextComparison,
       At, EndStage, VersionNodes

\* The evidence stage.
LEMMA EvidenceMoves ==
    ASSUME EvidenceNext
    PROVE  /\ pc \in EvidenceNodes /\ pc' \in EvidenceNodes \cup {"find_editable_leaf_versions", "stopped"}
           /\ UNCHANGED <<input, inventoryVars, versionVars>>
BY DEF EvidenceNext, CollectPdfCandidates, CreatePdfMatchJobs, MatchPdf, JoinPdfMatches,
       LoadEmailMcpEvidence, LoadLocalDeliveryLog, MatchDeliveryToVersion, MatchEmailDeliveryToVersion,
       Matched, MergeExternalEvidence, ValidateEvidenceConfidence, EndEvidence,
       DispatchEvidenceSubagentTask, EndEvidenceDispatch, At, EndStage, EvidenceNodes

\* The recommendation stage.
LEMMA RecommendationMoves ==
    ASSUME RecommendationNext
    PROVE  /\ pc \in RecommendationNodes /\ pc' \in FoundNodes \cup {"stopped"}
           /\ UNCHANGED <<input, inventoryVars, versionVars, evidenceVars>>
BY DEF RecommendationNext, FindEditableLeafVersions, ScoreVersionCandidates, ApplyDeliveryRules,
       ApplyPdfSourceRules, ApplyBusinessEvidenceRules, SelectMainVersions, CalculateDecisionConfidence,
       ApplySemanticReviewRules, ApplyBusinessEvidenceReviewRules, PreserveCompleteVersionChains,
       MarkHumanReviewItems, ValidateRecommendationResults, DispatchRecommendationJudgeTask, EndJudge,
       PrepareHumanReview, RequestHumanReview, ApplyHumanSelection, Step, At, EndStage,
       RecommendationNodes, FoundNodes, ScoredNodes, RatedNodes, ChosenNodes, WeighedNodes, SemanticNodes,
       ReviewedNodes, PreservedNodes, MarkedNodes, JudgeNodes

\* A step is one of one stage; it leaves the data of the other stages alone.
LEMMA StagesMove ==
    ASSUME [Next]_analysisVars
    PROVE  /\ UNCHANGED input
           /\ \/ UNCHANGED analysisVars
              \/ /\ InventoryNext /\ UNCHANGED <<versionVars, evidenceVars, recommendationVars>>
                 /\ pc \in InventoryNodes
                 /\ pc' \in InventoryNodes \cup {"group_related_documents", "stopped"}
              \/ /\ VersionNext /\ UNCHANGED <<inventoryVars, evidenceVars, recommendationVars>>
                 /\ pc \in VersionNodes
                 /\ pc' \in VersionNodes \cup {"collect_pdf_candidates", "stopped"}
              \/ /\ EvidenceNext /\ UNCHANGED <<inventoryVars, versionVars, recommendationVars>>
                 /\ pc \in EvidenceNodes
                 /\ pc' \in EvidenceNodes \cup {"find_editable_leaf_versions", "stopped"}
              \/ /\ RecommendationNext /\ UNCHANGED <<inventoryVars, versionVars, evidenceVars>>
                 /\ pc \in RecommendationNodes
                 /\ pc' \in FoundNodes \cup {"stopped"}
<1>1. CASE UNCHANGED analysisVars
  BY <1>1 DEF analysisVars
<1>2. CASE Ended
  BY <1>2 DEF Ended, analysisVars
<1>3. CASE InventoryNext /\ UNCHANGED <<versionVars, evidenceVars, recommendationVars>>
  BY <1>3, InventoryMoves
<1>4. CASE VersionNext /\ UNCHANGED <<evidenceVars, recommendationVars>>
  BY <1>4, VersionMoves
<1>5. CASE EvidenceNext /\ UNCHANGED recommendationVars
  BY <1>5, EvidenceMoves
<1>6. CASE RecommendationNext
  BY <1>6, RecommendationMoves
<1>. QED  BY <1>1, <1>2, <1>3, <1>4, <1>5, <1>6 DEF Next

\* No node belongs to two stages; the later a set of nodes begins, the smaller it is.
LEMMA NodesApart ==
    /\ InventoryNodes \cap (VersionNodes \cup EvidenceNodes \cup FoundNodes \cup RecommendationNodes) = {}
    /\ VersionNodes \cap (EvidenceNodes \cup FoundNodes \cup RecommendationNodes) = {}
    /\ EvidenceNodes \cap (FoundNodes \cup RecommendationNodes) = {}
    /\ "stopped" \notin InventoryNodes \cup VersionNodes \cup EvidenceNodes \cup FoundNodes \cup RecommendationNodes
    /\ "group_related_documents" \in VersionNodes
    /\ "collect_pdf_candidates" \in EvidenceNodes
    /\ "find_editable_leaf_versions" \in RecommendationNodes \ FoundNodes
    /\ ScoredNodes \subseteq FoundNodes /\ RatedNodes \subseteq ScoredNodes /\ ChosenNodes \subseteq RatedNodes
    /\ WeighedNodes \subseteq ChosenNodes /\ SemanticNodes \subseteq WeighedNodes
    /\ ReviewedNodes \subseteq SemanticNodes /\ PreservedNodes \subseteq ReviewedNodes
    /\ MarkedNodes \subseteq PreservedNodes /\ JudgeNodes \subseteq MarkedNodes
BY DEF InventoryNodes, VersionNodes, EvidenceNodes, RecommendationNodes, FoundNodes, ScoredNodes, RatedNodes,
       ChosenNodes, WeighedNodes, SemanticNodes, ReviewedNodes, PreservedNodes, MarkedNodes, JudgeNodes

\* What the files, their duplicates and the input alone determine.
LEMMA FilesDetermine ==
    ASSUME UNCHANGED <<input, files, duplicate>>
    PROVE  /\ UNCHANGED <<File, Originals, Registered, Analysed>>
           /\ \A f : UNCHANGED <<Ext(f), Sha(f), Sorted(f)>>
           /\ \A f, g : UNCHANGED Older(f, g)
<1>1. UNCHANGED <<File, Originals, Registered, Analysed>>
  BY DEF File, Originals, Registered, Analysed
<1>2. \A f : UNCHANGED <<Ext(f), Sha(f)>>
  BY DEF Ext, Sha
<1>3. \A f, g : UNCHANGED Older(f, g)
  BY DEF Older
<1>4. \A f : UNCHANGED Sorted(f)
  BY DEF Sorted, Older
<1>. QED  BY <1>1, <1>2, <1>3, <1>4

(***************************************************************************)
(* The inventory stage: a copy points at an older file that is no copy.    *)
(***************************************************************************)

\* Among finitely many files one is the oldest.
LEMMA OldestExists ==
    ASSUME input \in Inputs, NEW S \in SUBSET File, S # {}
    PROVE  \E x \in S : \A y \in S : Older(x, y)
<1>. DEFINE R == {p \in S \X S : p[1] # p[2] /\ Older(p[1], p[2])}
<1>1. /\ \A f \in S : Older(f, f)
      /\ \A f, g, h \in S : Older(f, g) /\ Older(g, h) => Older(f, h)
      /\ \A f, g \in S : Older(f, g) \/ Older(g, f)
      /\ \A f, g \in S : Older(f, g) /\ Older(g, f) => f = g
  BY OlderIsTotal
<1>2. \A x, y : <<x, y>> \in R <=> x \in S /\ y \in S /\ x # y /\ Older(x, y)
  OBVIOUS
<1>. HIDE DEF R
<1>3. Orders(R, S)
  BY <1>1, <1>2 DEF Orders
<1>4. IsFiniteSet(S)
  BY SortedSorts
<1>5. PICK x \in S : \A y \in S : y = x \/ <<x, y>> \in R
  BY <1>3, <1>4, LeastExists
<1>6. ASSUME NEW y \in S PROVE Older(x, y)
  <2>1. CASE y = x
    BY <1>1, <2>1
  <2>2. CASE <<x, y>> \in R
    BY <1>2, <2>2
  <2>. QED  BY <1>5, <2>1, <2>2
<1>. QED  BY <1>6

\* The file that a registered file duplicates, or the file itself: the oldest
\* of the registered files with its hash, and the same one for all of them.
LEMMA CanonicalIsOldest ==
    ASSUME input \in Inputs, NEW some \in SUBSET File, NEW f \in some
    PROVE  /\ Canonical(f, some) \in some /\ Sha(Canonical(f, some)) = Sha(f)
           /\ \A g \in some : Sha(g) = Sha(f) =>
                Older(Canonical(f, some), g) /\ Canonical(g, some) = Canonical(f, some)
<1>. DEFINE S == {g \in some : Sha(g) = Sha(f)}
            Oldest(c, g) == Sha(c) = Sha(g) /\ \A h \in some : Sha(h) = Sha(g) => Older(c, h)
<1>1. \E c \in some : Oldest(c, f)
  <2>1. PICK x \in S : \A y \in S : Older(x, y)
    BY OldestExists
  <2>. QED  BY <2>1
<1>2. \A g : Canonical(g, some) = CHOOSE c \in some : Oldest(c, g)
  BY DEF Canonical
<1>3. ASSUME NEW g \in some, Sha(g) = Sha(f)
      PROVE  /\ Canonical(g, some) \in some /\ Oldest(Canonical(g, some), g)
  <2>1. \E c \in some : Oldest(c, g)
    BY <1>1, <1>3
  <2>. HIDE DEF Oldest
  <2>. QED  BY <1>2, <2>1
<1>4. ASSUME NEW g \in some, Sha(g) = Sha(f) PROVE Canonical(g, some) = Canonical(f, some)
  <2>1. Canonical(g, some) \in some /\ Oldest(Canonical(g, some), g)
    BY <1>3, <1>4
  <2>2. Canonical(f, some) \in some /\ Oldest(Canonical(f, some), f)
    BY <1>3
  <2>3. Older(Canonical(g, some), Canonical(f, some)) /\ Older(Canonical(f, some), Canonical(g, some))
    BY <2>1, <2>2, <1>4
  <2>. HIDE DEF Oldest
  <2>. QED  BY <2>1, <2>2, <2>3, OlderIsTotal
<1>. QED  BY <1>3, <1>4

\* A repeated inventory pass may have lost a file that another one duplicates: the
\* chain of copies is one link long again before anything is parsed.
LEMMA FilesKept ==
    ASSUME FilesFit, RecordsFit, [Next]_analysisVars
    PROVE  FilesFit'
<1>0. UNCHANGED input /\ input \in Inputs /\ UNCHANGED File /\ \A f : UNCHANGED Sha(f) /\ \A g : UNCHANGED Older(f, g)
  BY StagesMove DEF FilesFit, File, Sha, Older
<1>1. ASSUME UNCHANGED <<files, duplicate>>,
             (pc \notin {"register_file_metadata", "mark_exact_duplicates"}
                \/ pc' \in {"register_file_metadata", "mark_exact_duplicates"})
      PROVE  FilesFit'
  BY <1>0, <1>1, FilesDetermine DEF FilesFit, At
<1>2. ASSUME NEW status \in Status \ {"unregistered"}, Finished(status), current \in Originals,
             pc \notin {"register_file_metadata", "mark_exact_duplicates"}
      PROVE  FilesFit'
  <2>1. files' = [files EXCEPT ![current] = status] /\ UNCHANGED duplicate
    BY <1>2 DEF Finished
  <2>2. files' \in [File -> Status] /\ Registered \subseteq Registered' /\ UNCHANGED Originals
    BY <1>0, <2>1 DEF FilesFit, Registered, Originals, Status, File
  <2>3. \A f \in File \ Originals : files'[f] = "duplicate"
    BY <1>2, <2>1 DEF FilesFit
  <2>. QED  BY <1>0, <1>2, <2>1, <2>2, <2>3 DEF FilesFit, At
<1>3. CASE RegisterFileMetadata
  <2>1. PICK lost \in SUBSET input.unreadable :
           /\ files' = [f \in File |-> IF f \in lost THEN files[f] ELSE "pending"]
           /\ duplicate' = [f \in File |-> IF f \in lost THEN duplicate[f] ELSE NoFile]
    BY <1>3 DEF RegisterFileMetadata
  <2>2. files' \in [File -> Status] /\ duplicate' \in [File -> File \cup {NoFile}]
    BY <2>1 DEF FilesFit, Status
  <2>3. Registered \subseteq Registered'
    BY <1>0, <2>1 DEF Registered, FilesFit, Status
  <2>4. \A f \in File \ Originals' :
            f \in File \ Originals /\ duplicate'[f] = duplicate[f] /\ files'[f] = files[f]
    BY <1>0, <2>1 DEF Originals
  <2>5. pc' = "mark_exact_duplicates"
    BY <1>3 DEF RegisterFileMetadata
  <2>. QED  BY <1>0, <2>2, <2>3, <2>4, <2>5 DEF FilesFit, At
<1>4. CASE MarkExactDuplicates
  <2>. DEFINE copies == {f \in Registered : Canonical(f, Registered) # f}
  <2>1. /\ duplicate' = [f \in File |-> IF f \in copies THEN Canonical(f, Registered) ELSE duplicate[f]]
        /\ files' = [f \in File |-> IF f \in copies THEN "duplicate" ELSE files[f]]
    BY <1>4 DEF MarkExactDuplicates
  <2>2. Registered \in SUBSET File
    BY DEF Registered
  <2>3. \A f \in Registered :
            /\ Canonical(f, Registered) \in Registered
            /\ Sha(Canonical(f, Registered)) = Sha(f)
            /\ \A g \in Registered : Sha(g) = Sha(f) =>
                 Older(Canonical(f, Registered), g) /\ Canonical(g, Registered) = Canonical(f, Registered)
    BY <1>0, <2>2, CanonicalIsOldest
  <2>4. ASSUME NEW f \in File \ copies PROVE duplicate[f] = NoFile
    <3>. SUFFICES ASSUME duplicate[f] # NoFile PROVE FALSE
      OBVIOUS
    <3>1. f \in Registered /\ duplicate[f] \in Registered /\ duplicate[f] # f /\ Sha(duplicate[f]) = Sha(f) /\ Older(duplicate[f], f)
      BY DEF FilesFit, Originals, Registered
    <3>2. Older(f, duplicate[f])
      BY <2>3, <3>1
    <3>. QED  BY <1>0, <2>2, <3>1, <3>2, OlderIsTotal
  <2>5. files' \in [File -> Status] /\ duplicate' \in [File -> File \cup {NoFile}]
    BY <2>1, <2>2, <2>3 DEF FilesFit, Status
  <2>6. Registered' = Registered
    BY <1>0, <2>1, <2>2, <2>3 DEF Registered
  <2>7. \A f \in File : f \in copies \/ duplicate'[f] = NoFile
    BY <2>1, <2>4
  <2>8. ASSUME NEW f \in copies
        PROVE  /\ duplicate'[f] = Canonical(f, Registered) /\ duplicate'[f] \in Registered
               /\ duplicate'[f] # f /\ Sha(duplicate'[f]) = Sha(f) /\ Older(duplicate'[f], f)
               /\ duplicate'[f] \notin copies
    <3>1. f \in File /\ f \in Registered
      BY <2>2
    <3>2. duplicate'[f] = Canonical(f, Registered)
      BY <2>1, <3>1
    <3>3. duplicate'[f] \in Registered /\ Sha(duplicate'[f]) = Sha(f) /\ Older(duplicate'[f], f)
          /\ Canonical(duplicate'[f], Registered) = Canonical(f, Registered)
      BY <2>3, <3>1, <3>2
    <3>. QED  BY <3>1, <3>2, <3>3
  <2>9. Originals' = File \ copies
    <3>1. \A f \in copies : duplicate'[f] # NoFile
      BY <1>0, <2>2, <2>8, FilesAreFinite
    <3>. QED  BY <1>0, <2>7, <3>1 DEF Originals
  <2>. HIDE DEF copies
  <2>10. \A f \in File \ Originals' :
            /\ files'[f] = "duplicate" /\ duplicate'[f] \in Registered' /\ duplicate'[f] # f
            /\ Sha(duplicate'[f]) = Sha(f) /\ Older(duplicate'[f], f)
            /\ duplicate'[f] \in Originals'
    BY <2>1, <2>2, <2>6, <2>8, <2>9 DEF copies
  <2>. QED  BY <1>0, <2>5, <2>10 DEF FilesFit
<1>5. CASE BuildParseQueue \/ LoadNextParseJob \/ ExtractAndNormalize \/ ValidateInventoryResults
  <2>1. UNCHANGED <<files, duplicate>> /\ pc \notin {"register_file_metadata", "mark_exact_duplicates"}
    BY <1>5 DEF BuildParseQueue, LoadNextParseJob, ExtractAndNormalize, ValidateInventoryResults,
                At, inventoryVars
  <2>. QED  BY <1>1, <2>1
<1>6. CASE EndInventory
  <2>1. UNCHANGED <<files, duplicate>> /\ pc \notin {"register_file_metadata", "mark_exact_duplicates"}
    BY <1>6 DEF EndInventory, At, inventoryVars
  <2>. QED  BY <1>1, <2>1
<1>7. CASE RecordDocumentResult \/ RecordParseError \/ RecordUnsupportedFile
  <2>1. /\ pc \notin {"register_file_metadata", "mark_exact_duplicates"} /\ pc \in ParsingNodes
        /\ Finished("parsed") \/ Finished("failed") \/ Finished("unsupported")
    BY <1>7 DEF RecordDocumentResult, RecordParseError, RecordUnsupportedFile, At, ParsingNodes
  <2>. QED  BY <1>2, <2>1 DEF Status, RecordsFit
<1>8. CASE ~InventoryNext
  <2>1. UNCHANGED <<files, duplicate>>
    BY <1>8, StagesMove DEF inventoryVars, analysisVars
  <2>2. UNCHANGED pc \/ pc \notin InventoryNodes
    BY <1>8, StagesMove, NodesApart DEF analysisVars
  <2>3. {"register_file_metadata", "mark_exact_duplicates"} \subseteq InventoryNodes
    BY DEF InventoryNodes
  <2>. QED  BY <1>1, <2>1, <2>2, <2>3
<1>. QED  BY <1>3, <1>4, <1>5, <1>6, <1>7, <1>8 DEF InventoryNext

(***************************************************************************)
(* The version stage: the comparison queue.                                *)
(***************************************************************************)

\* The pairs of a group are pairs of its files that are no copies.
LEMMA PairsOfOriginals ==
    ASSUME input \in Inputs, NEW group \in SUBSET File
    PROVE  CandidatePairs(group) \in Seq(GroupPairs)
<1>. DEFINE s == Sorted({f \in group : duplicate[f] = NoFile})
            n == Len(s)
            Pairs(far) == [i \in 1..(Len(s) - far) |-> <<s[i], s[i + far], group>>]
            rest == {p \in (DOMAIN s) \X (DOMAIN s) : p[2] > p[1] + 1}
            earlier == {t \in rest \X rest :
                            t[1][1] < t[2][1] \/ (t[1][1] = t[2][1] /\ t[1][2] < t[2][2])}
            order == SortedBy(rest, earlier)
            later == [i \in DOMAIN order |-> <<s[order[i][1]], s[order[i][2]], group>>]
<1>1. CandidatePairs(group) = IF Len(s) < 2 THEN <<>> ELSE Pairs(1) \o later
  BY DEF CandidatePairs
<1>2. s \in Seq(Originals \cap group) /\ n \in Nat /\ DOMAIN s = 1..n
  <2>1. {f \in group : duplicate[f] = NoFile} \in SUBSET File
    OBVIOUS
  <2>2. Lists(s, {f \in group : duplicate[f] = NoFile})
    BY <2>1, SortedSorts
  <2>3. {f \in group : duplicate[f] = NoFile} = Originals \cap group
    BY DEF Originals
  <2>. HIDE DEF s
  <2>. QED  BY <2>2, <2>3 DEF Lists
<1>. HIDE DEF s, n
<1>3. \A i, j \in 1..n : <<s[i], s[j], group>> \in GroupPairs
  <2>1. \A i \in 1..n : s[i] \in Originals \cap group
    BY <1>2 DEF n
  <2>. QED  BY <2>1 DEF GroupPairs
<1>4. rest \in SUBSET ((1..n) \X (1..n)) /\ IsFiniteSet(rest)
  <2>1. rest \in SUBSET ((1..n) \X (1..n))
    BY <1>2
  <2>2. IsFiniteSet(1..n)
    BY <1>2, FS_Interval
  <2>3. IsFiniteSet((1..n) \X (1..n))
    BY <2>2, FS_Product
  <2>. HIDE DEF rest
  <2>. QED  BY <2>1, <2>3, FS_Subset
<1>5. Orders(earlier, rest)
  <2>1. \A x, y : <<x, y>> \in earlier <=>
            x \in rest /\ y \in rest /\ (x[1] < y[1] \/ (x[1] = y[1] /\ x[2] < y[2]))
    <3>. HIDE DEF rest
    <3>. QED  OBVIOUS
  <2>2. \A x \in rest : x[1] \in Int /\ x[2] \in Int /\ x = <<x[1], x[2]>>
    BY <1>2, <1>4
  <2>. HIDE DEF earlier, rest
  <2>3. \A x, y \in rest : x[1] = y[1] /\ x[2] = y[2] => x = y
    BY <2>2
  <2>. QED  BY <2>1, <2>2, <2>3 DEF Orders
<1>6. Lists(order, rest)
  <2>. HIDE DEF earlier, rest
  <2>. QED  BY <1>4, <1>5, SortedBySorts
<1>. HIDE DEF order
<1>7. later \in Seq(GroupPairs)
  <2>1. Len(order) \in Nat /\ DOMAIN order = 1..Len(order) /\ \A i \in 1..Len(order) : order[i] \in rest
    <3>. HIDE DEF rest
    <3>. QED  BY <1>6, ListsCount, ListsHas
  <2>2. \A i \in 1..Len(order) : order[i][1] \in 1..n /\ order[i][2] \in 1..n
    BY <1>4, <2>1
  <2>. QED  BY <1>3, <2>1, <2>2
<1>8. n >= 2 => Pairs(1) \in Seq(GroupPairs)
  <2>. SUFFICES ASSUME n >= 2 PROVE Pairs(1) \in Seq(GroupPairs)
    OBVIOUS
  <2>1. \A i \in 1..(n - 1) : i \in 1..n /\ i + 1 \in 1..n
    BY <1>2
  <2>2. Pairs(1) = [i \in 1..(n - 1) |-> <<s[i], s[i + 1], group>>] /\ n - 1 \in Nat
    BY <1>2 DEF n
  <2>. QED  BY <1>3, <2>1, <2>2
<1>. HIDE DEF later, Pairs
<1>. QED  BY <1>1, <1>2, <1>7, <1>8 DEF n

\* The queue of some groups, in whatever order they come.
LEMMA QueueOfOriginals ==
    ASSUME input \in Inputs, NEW some \in SUBSET SUBSET File, IsFiniteSet(some), NEW line \in SetToSeqs(some)
    PROVE  FlattenSeq([i \in DOMAIN line |-> CandidatePairs(line[i])]) \in Seq(GroupPairs)
<1>. DEFINE n == Cardinality(some)
            ss == [i \in DOMAIN line |-> CandidatePairs(line[i])]
<1>1. n \in Nat /\ DOMAIN line = 1..n /\ \A i \in 1..n : line[i] \in some
  BY FS_CardinalityType DEF SetToSeqs
<1>. HIDE DEF n
<1>2. \A i \in 1..n : line[i] \in SUBSET File
  BY <1>1
<1>3. \A i \in 1..n : CandidatePairs(line[i]) \in Seq(GroupPairs)
  BY <1>2, PairsOfOriginals
<1>4. Len(ss) = n /\ (n = 0 => ss = <<>>) /\ \A i \in 1..n : ss[i] \in Seq(GroupPairs)
  <2>1. DOMAIN ss = 1..n /\ \A i \in 1..n : ss[i] = CandidatePairs(line[i])
    BY <1>1
  <2>2. Len(ss) = n
    BY <1>1, <2>1
  <2>3. n = 0 => ss = <<>>
    BY <1>1
  <2>. HIDE DEF ss
  <2>. QED  BY <1>3, <2>1, <2>2, <2>3
<1>. HIDE DEF ss
<1>5. FlattenSeq(ss) \in Seq(GroupPairs)
  BY <1>1, <1>4, FlattenIsSeq
<1>. QED  BY <1>5 DEF ss

(***************************************************************************)
(* Kahn's algorithm.                                                       *)
(***************************************************************************)
KahnAt(nodes, derived, r, k) ==
    IF k = 0
    THEN [done |-> <<>>, ready |-> Sorted({f \in nodes : Parents(f, derived) = {}})]
    ELSE Visit(r[k - 1], derived)

KahnUpTo(nodes, derived, r, b) == r = [k \in 0..b |-> KahnAt(nodes, derived, r, k)]

\* The recursive function inside Topological exists.
LEMMA KahnExists ==
    ASSUME NEW nodes, NEW derived
    PROVE  \A b \in Nat : \E r : KahnUpTo(nodes, derived, r, b)
<1>. DEFINE P == {b \in Nat : \E r : KahnUpTo(nodes, derived, r, b)}
<1>1. 0 \in P
  <2>. DEFINE r == [k \in 0..0 |-> KahnAt(nodes, derived, <<>>, 0)]
  <2>1. r = [k \in 0..0 |-> KahnAt(nodes, derived, r, k)]
    BY DEF KahnAt
  <2>. HIDE DEF r
  <2>2. KahnUpTo(nodes, derived, r, 0)
    BY <2>1 DEF KahnUpTo
  <2>. QED  BY <2>2
<1>2. ASSUME NEW b \in Nat, b \in P PROVE b + 1 \in P
  <2>1. PICK r : KahnUpTo(nodes, derived, r, b)
    BY <1>2
  <2>2. \A k \in 0..b : r[k] = KahnAt(nodes, derived, r, k)
    BY <2>1 DEF KahnUpTo
  <2>. DEFINE h == [k \in 0..(b + 1) |-> KahnAt(nodes, derived, r, k)]
  <2>3. \A k \in 0..b : h[k] = r[k]
    BY <2>2
  <2>4. ASSUME NEW k \in 0..(b + 1)
        PROVE  KahnAt(nodes, derived, r, k) = KahnAt(nodes, derived, h, k)
    <3>1. CASE k = 0
      BY <3>1 DEF KahnAt
    <3>2. CASE k # 0
      <4>1. k - 1 \in 0..b
        BY <3>2
      <4>2. h[k - 1] = r[k - 1]
        BY <2>3, <4>1
      <4>. HIDE DEF h
      <4>. QED  BY <3>2, <4>2 DEF KahnAt
    <3>. QED  BY <3>1, <3>2
  <2>5. h = [k \in 0..(b + 1) |-> KahnAt(nodes, derived, h, k)]
    BY <2>4
  <2>. HIDE DEF h
  <2>6. KahnUpTo(nodes, derived, h, b + 1)
    BY <2>5 DEF KahnUpTo
  <2>. QED  BY <2>6
<1>3. \A b \in Nat : b \in P
  <2>. HIDE DEF P
  <2>. QED  BY <1>1, <1>2, NatSetInduction
<1>. QED  BY <1>3

\* Between two rounds: what is done stands after its parents, all the parents of
\* what is ready are done, and some parent of every other node is not.
KahnFits(s, nodes, derived, D, W) ==
    /\ Lists(s.done, D) /\ Lists(s.ready, W)
    /\ D \cap W = {} /\ D \in SUBSET nodes /\ W \in SUBSET nodes
    /\ \A x \in D : \A p \in Parents(x, derived) : Before(s.done, p, x)
    /\ \A x \in W : Parents(x, derived) \subseteq D
    /\ \A x \in nodes \ (D \cup W) : ~(Parents(x, derived) \subseteq D)

\* One round of Kahn's algorithm: what it frees was neither done nor ready before.
LEMMA VisitFits ==
    ASSUME input \in Inputs, NEW nodes \in SUBSET File, NEW derived,
           \A e \in derived : e.child \in nodes,
           NEW s, NEW D, NEW W, KahnFits(s, nodes, derived, D, W)
    PROVE  /\ \E E, V : KahnFits(Visit(s, derived), nodes, derived, E, V)
           /\ IF s.ready = <<>> THEN Visit(s, derived) = s
              ELSE Len(Visit(s, derived).done) = Len(s.done) + 1
<1>1. CASE s.ready = <<>>
  <2>1. Visit(s, derived) = s
    BY <1>1 DEF Visit
  <2>. QED  BY <1>1, <2>1
<1>2. CASE s.ready # <<>>
  <2>1. PICK h : h = Head(s.ready)
    OBVIOUS
  <2>2. PICK done : done = Append(s.done, h)
    OBVIOUS
  <2>3. PICK freed : freed = {f \in Children(h, derived) : Parents(f, derived) \subseteq ToSet(done)}
    OBVIOUS
  <2>4. PICK ready : ready = Tail(s.ready) \o Sorted(freed)
    OBVIOUS
  <2>5. Visit(s, derived) = [done |-> done, ready |-> ready]
    BY <1>2, <2>1, <2>2, <2>3, <2>4 DEF Visit
  <2>6. h \in W /\ h \notin D /\ Lists(Tail(s.ready), W \ {h})
    BY <1>2, <2>1, ListsTail DEF KahnFits
  <2>7. done = s.done \o <<h>>
    <3>1. s.done \in Seq(D)
      BY DEF KahnFits, Lists
    <3>2. s.done \in Seq(D \cup {h}) /\ h \in D \cup {h}
      BY <3>1
    <3>. QED  BY <2>2, <3>2, AppendIsConcat
  <2>8. /\ Lists(done, D \cup {h})
        /\ \A x, y : Before(s.done, x, y) => Before(done, x, y)
        /\ \A x \in D : Before(done, x, h)
    <3>1. Lists(s.done, D) /\ Lists(<<h>>, {h}) /\ D \cap {h} = {}
      BY <2>6, SingletonLists DEF KahnFits
    <3>2. /\ Lists(s.done \o <<h>>, D \cup {h})
          /\ \A x, y : Before(s.done, x, y) => Before(s.done \o <<h>>, x, y)
          /\ \A x \in D, y \in {h} : Before(s.done \o <<h>>, x, y)
      BY <3>1, ListsConcat
    <3>. QED  BY <2>7, <3>2
  <2>9. ToSet(done) = D \cup {h}
    BY <2>8, ListsCount
  <2>10. ASSUME NEW f \in freed
         PROVE  f \in nodes /\ f \notin D /\ f \notin W /\ Parents(f, derived) \subseteq D \cup {h}
    <3>1. PICK e \in derived : e.parent = h /\ e.child = f
      BY <2>3, <2>10 DEF Children
    <3>2. h \in Parents(f, derived)
      BY <3>1 DEF Parents
    <3>3. f \notin D
      <4>1. f \in D => Before(s.done, h, f)
        BY <3>2 DEF KahnFits
      <4>2. Before(s.done, h, f) => h \in D
        BY ListsHas DEF KahnFits
      <4>. QED  BY <2>6, <4>1, <4>2
    <3>4. f \notin W
      BY <2>6, <3>2 DEF KahnFits
    <3>. QED  BY <2>3, <2>9, <2>10, <3>1, <3>3, <3>4
  <2>11. Lists(ready, (W \ {h}) \cup freed)
    <3>1. freed \in SUBSET File
      BY <2>10
    <3>2. Lists(Sorted(freed), freed) /\ (W \ {h}) \cap freed = {}
      BY <3>1, <2>10, SortedSorts
    <3>. QED  BY <2>4, <2>6, <3>2, ListsConcat
  <2>12. (D \cup {h}) \cap ((W \ {h}) \cup freed) = {}
    BY <2>6, <2>10 DEF KahnFits
  <2>13. (D \cup {h}) \in SUBSET nodes /\ ((W \ {h}) \cup freed) \in SUBSET nodes
    BY <2>6, <2>10 DEF KahnFits
  <2>14. \A x \in D \cup {h} : \A p \in Parents(x, derived) : Before(done, p, x)
    BY <2>6, <2>8 DEF KahnFits
  <2>15. \A x \in (W \ {h}) \cup freed : Parents(x, derived) \subseteq D \cup {h}
    BY <2>6, <2>10 DEF KahnFits
  <2>16. ASSUME NEW x \in nodes \ ((D \cup {h}) \cup ((W \ {h}) \cup freed))
         PROVE  ~(Parents(x, derived) \subseteq D \cup {h})
    <3>. SUFFICES ASSUME Parents(x, derived) \subseteq D \cup {h} PROVE FALSE
      OBVIOUS
    <3>1. ~(Parents(x, derived) \subseteq D)
      BY <2>16 DEF KahnFits
    <3>2. h \in Parents(x, derived)
      BY <3>1
    <3>3. x \in Children(h, derived)
      BY <3>2 DEF Parents, Children
    <3>. QED  BY <2>3, <2>9, <2>16, <3>3
  <2>17. KahnFits([done |-> done, ready |-> ready], nodes, derived, D \cup {h}, (W \ {h}) \cup freed)
    BY <2>8, <2>11, <2>12, <2>13, <2>14, <2>15, <2>16 DEF KahnFits
  <2>18. Len(done) = Len(s.done) + 1
    <3>1. s.done \in Seq(D)
      BY DEF KahnFits, Lists
    <3>2. s.done \in Seq(D \cup {h})
      BY <3>1
    <3>. QED  BY <2>2, <3>2
  <2>. QED  BY <1>2, <2>5, <2>17, <2>18
<1>. QED  BY <1>1, <1>2

\* build_version_chains: some of the nodes, each once, and each after all those it
\* derives from; whatever cycles the edges form.  A node that is left out derives
\* from another one that is: without a cycle there is none.
THEOREM TopologicalOrders ==
    ASSUME input \in Inputs, NEW nodes \in SUBSET File, NEW derived,
           \A e \in derived : e.child \in nodes
    PROVE  \E D \in SUBSET nodes :
                /\ Lists(Topological(nodes, derived), D)
                /\ \A e \in derived : e.child \in D => Before(Topological(nodes, derived), e.parent, e.child)
                /\ \A f \in nodes \ D : \E e \in derived : e.child = f /\ e.parent \notin D
<1>. DEFINE n == Cardinality(nodes)
            r == CHOOSE r : r = [k \in 0..n |-> KahnAt(nodes, derived, r, k)]
<1>0. n \in Nat
  BY SortedSorts, FS_CardinalityType
<1>1. r = [k \in 0..n |-> KahnAt(nodes, derived, r, k)]
  <2>1. \E h : KahnUpTo(nodes, derived, h, n)
    BY <1>0, KahnExists
  <2>. QED  BY <2>1 DEF KahnUpTo
<1>2. Topological(nodes, derived) = r[n].done
  BY DEF Topological, KahnAt
<1>. HIDE DEF r, n
<1>3. r[0] = [done |-> <<>>, ready |-> Sorted({f \in nodes : Parents(f, derived) = {}})]
  BY <1>0, <1>1 DEF KahnAt
<1>4. \A k \in 0..(n - 1) : r[k + 1] = Visit(r[k], derived)
  <2>1. \A k \in 0..(n - 1) : k + 1 \in 0..n /\ k + 1 # 0 /\ (k + 1) - 1 = k
    BY <1>0
  <2>. QED  BY <1>1, <2>1 DEF KahnAt
<1>. DEFINE Good(k) == /\ \E D, W : KahnFits(r[k], nodes, derived, D, W)
                       /\ r[k].ready = <<>> \/ Len(r[k].done) = k
            Q == {k \in Nat : k <= n => Good(k)}
<1>5. 0 \in Q
  <2>. DEFINE W == {f \in nodes : Parents(f, derived) = {}}
  <2>1. W \in SUBSET File
    OBVIOUS
  <2>2. r[0].done = <<>> /\ r[0].ready = Sorted(W)
    BY <1>3
  <2>3. \A x \in W : Parents(x, derived) = {}
    OBVIOUS
  <2>4. W \in SUBSET nodes
    OBVIOUS
  <2>. HIDE DEF W
  <2>5. Lists(r[0].done, {}) /\ Lists(r[0].ready, W)
    BY <2>1, <2>2, SortedSorts, EmptyLists
  <2>6. \A x \in nodes \ ({} \cup W) : ~(Parents(x, derived) \subseteq {})
    BY DEF W
  <2>7. KahnFits(r[0], nodes, derived, {}, W)
    BY <2>3, <2>4, <2>5, <2>6 DEF KahnFits
  <2>. QED  BY <2>2, <2>7
<1>6. ASSUME NEW k \in Nat, k \in Q PROVE k + 1 \in Q
  <2>. SUFFICES ASSUME k + 1 <= n PROVE Good(k + 1)
    OBVIOUS
  <2>1. Good(k) /\ k \in 0..(n - 1)
    BY <1>0, <1>6
  <2>2. PICK D, W : KahnFits(r[k], nodes, derived, D, W)
    BY <2>1
  <2>3. PICK s : s = r[k]
    OBVIOUS
  <2>4. /\ \E E, V : KahnFits(Visit(s, derived), nodes, derived, E, V)
        /\ IF s.ready = <<>> THEN Visit(s, derived) = s
           ELSE Len(Visit(s, derived).done) = Len(s.done) + 1
    BY <2>2, <2>3, VisitFits
  <2>5. r[k + 1] = Visit(s, derived)
    BY <1>4, <2>1, <2>3
  <2>. QED  BY <2>1, <2>3, <2>4, <2>5
<1>7. Good(n)
  <2>1. \A k \in Nat : k \in Q
    <3>. HIDE DEF Q
    <3>. QED  BY <1>5, <1>6, NatSetInduction
  <2>. QED  BY <1>0, <2>1
<1>8. PICK D, W : KahnFits(r[n], nodes, derived, D, W)
  BY <1>7
<1>9. ASSUME NEW f \in nodes \ D PROVE \E e \in derived : e.child = f /\ e.parent \notin D
  <2>1. CASE r[n].ready = <<>>
    <3>1. Lists(r[n].ready, W)
      BY <1>8 DEF KahnFits
    <3>2. W = {}
      BY <2>1, <3>1 DEF Lists
    <3>3. ~(Parents(f, derived) \subseteq D)
      BY <1>8, <1>9, <3>2 DEF KahnFits
    <3>. QED  BY <3>3 DEF Parents
  <2>2. CASE Len(r[n].done) = n
    <3>1. Lists(r[n].done, D) /\ D \in SUBSET nodes /\ IsFiniteSet(nodes)
      BY <1>8, SortedSorts DEF KahnFits
    <3>2. Cardinality(D) = Cardinality(nodes)
      BY <2>2, <3>1, ListsCount DEF n
    <3>3. D = nodes
      BY <3>1, <3>2, FS_Subset
    <3>. QED  BY <1>9, <3>3
  <2>. QED  BY <1>7, <2>1, <2>2
<1>10. \A e \in derived : e.child \in D => Before(r[n].done, e.parent, e.child)
  BY <1>8 DEF KahnFits, Parents
<1>11. Lists(r[n].done, D) /\ D \in SUBSET nodes
  BY <1>8 DEF KahnFits
<1>. QED  BY <1>2, <1>9, <1>10, <1>11

\* build_version_chains: relations without a cycle, which is to say that the files
\* can be numbered so that each has a larger number than those it derives from,
\* leave no file out.
THEOREM AcyclicRelationsAreListed ==
    ASSUME input \in Inputs, NEW nodes \in SUBSET File, NEW derived, NEW number \in [nodes -> Nat],
           \A e \in derived : e.parent \in nodes /\ e.child \in nodes /\ number[e.parent] < number[e.child]
    PROVE  Lists(Topological(nodes, derived), nodes)
<1>1. PICK D \in SUBSET nodes :
        /\ Lists(Topological(nodes, derived), D)
        /\ \A f \in nodes \ D : \E e \in derived : e.child = f /\ e.parent \notin D
  BY TopologicalOrders
<1>. DEFINE P == {n \in Nat : \A f \in nodes : number[f] < n => f \in D}
<1>2. 0 \in P
  OBVIOUS
<1>3. ASSUME NEW n \in Nat, n \in P PROVE n + 1 \in P
  <2>. SUFFICES ASSUME NEW f \in nodes, number[f] < n + 1, f \notin D PROVE FALSE
    OBVIOUS
  <2>1. PICK e \in derived : e.child = f /\ e.parent \notin D
    BY <1>1
  <2>2. e.parent \in nodes /\ number[e.parent] < n
    BY <2>1
  <2>. QED  BY <1>3, <2>1, <2>2
<1>4. \A n \in Nat : n \in P
  <2>. HIDE DEF P
  <2>. QED  BY <1>2, <1>3, NatSetInduction
<1>5. D = nodes
  <2>1. \A f \in nodes : number[f] + 1 \in P /\ number[f] < number[f] + 1
    BY <1>4
  <2>. QED  BY <2>1
<1>. QED  BY <1>1, <1>5

(***************************************************************************)
(* A chain: the order of its originals, each followed by its copies, and   *)
(* the rest of the group; in a complete chain every edge points forward.   *)
(***************************************************************************)

\* The same, with the files of a group and those that stand before them in it
\* given a name: what BuildChain does with an order of some of the originals.
LEMMA CopiesFollow ==
    ASSUME FilesFit, NEW group \in SUBSET File, NEW line, NEW listed,
           Lists(line, group \cap Originals),
           \A f \in File \ Originals : duplicate[f] \in Originals,
           listed = FlattenSeq([i \in DOMAIN line |->
                        <<line[i]>> \o Sorted({h \in group : duplicate[h] = line[i]})])
    PROVE  \E L \in SUBSET group :
                /\ Lists(listed, L)
                /\ \A x, y : Before(line, x, y) => Before(listed, x, y)
                /\ \A f \in group : duplicate[f] \in group => Before(listed, duplicate[f], f)
<1>0. input \in Inputs /\ NoFile \notin File
  BY FilesAreFinite DEF FilesFit
<1>. DEFINE copies(f) == {h \in group : duplicate[h] = f}
            part(i) == <<line[i]>> \o Sorted(copies(line[i]))
            T == [i \in 1..Len(line) |-> {line[i]} \cup copies(line[i])]
            ss == [i \in 1..Len(line) |-> part(i)]
            L == UNION {T[i] : i \in 1..Len(line)}
<1>1. Len(line) \in Nat /\ DOMAIN line = 1..Len(line) /\ \A i \in 1..Len(line) : line[i] \in group \cap Originals
  BY ListsHas, ListsCount
<1>2. listed = FlattenSeq(ss)
  BY <1>1
<1>3. ASSUME NEW f \in group \cap Originals
      PROVE  /\ Lists(Sorted(copies(f)), copies(f))
             /\ f \notin copies(f) /\ copies(f) \in SUBSET group
             /\ \A h \in copies(f) : h \notin Originals
  <2>1. copies(f) \in SUBSET File
    OBVIOUS
  <2>2. f # NoFile /\ duplicate[f] = NoFile
    BY <1>0 DEF Originals
  <2>. QED  BY <1>0, <2>1, <2>2, SortedSorts DEF Originals
<1>4. ASSUME NEW f \in group \cap Originals
      PROVE  /\ Lists(<<f>> \o Sorted(copies(f)), {f} \cup copies(f))
             /\ \A h \in copies(f) : Before(<<f>> \o Sorted(copies(f)), f, h)
  <2>1. Lists(<<f>>, {f}) /\ Lists(Sorted(copies(f)), copies(f)) /\ {f} \cap copies(f) = {}
    BY <1>3, SingletonLists
  <2>. HIDE DEF copies
  <2>2. /\ Lists(<<f>> \o Sorted(copies(f)), {f} \cup copies(f))
        /\ \A x \in {f}, y \in copies(f) : Before(<<f>> \o Sorted(copies(f)), x, y)
    BY <2>1, ListsConcat
  <2>. QED  BY <2>2
<1>5. \A i \in 1..Len(line) : Lists(ss[i], T[i]) /\ \A h \in copies(line[i]) : Before(ss[i], line[i], h)
  <2>. HIDE DEF copies
  <2>. QED  BY <1>1, <1>4
<1>6. \A i, j \in 1..Len(line) : i # j => T[i] \cap T[j] = {}
  <2>. SUFFICES ASSUME NEW i \in 1..Len(line), NEW j \in 1..Len(line), i # j PROVE T[i] \cap T[j] = {}
    OBVIOUS
  <2>1. line[i] # line[j]
    BY DEF Lists
  <2>2. copies(line[i]) \cap copies(line[j]) = {}
    BY <2>1
  <2>3. line[i] \notin copies(line[j]) /\ line[j] \notin copies(line[i])
    BY <1>1, <1>3
  <2>. QED  BY <2>1, <2>2, <2>3
<1>7. Len(ss) = Len(line) /\ (Len(line) = 0 => ss = <<>>)
  <2>1. Len(ss) = Len(line)
    BY <1>1
  <2>2. ASSUME Len(line) = 0 PROVE ss = <<>>
    <3>1. 1..Len(line) = {}
      BY <2>2
    <3>. HIDE DEF part
    <3>. QED  BY <3>1
  <2>. QED  BY <2>1, <2>2
<1>. HIDE DEF T, ss, part
<1>8. /\ Lists(FlattenSeq(ss), UNION {T[i] : i \in 1..Len(line)})
      /\ \A i \in 1..Len(line) : \A x, y : Before(ss[i], x, y) => Before(FlattenSeq(ss), x, y)
      /\ \A i, j \in 1..Len(line) : i < j => \A x \in T[i], y \in T[j] : Before(FlattenSeq(ss), x, y)
  BY <1>1, <1>5, <1>6, <1>7, FlattenLists
<1>9. L \in SUBSET group /\ Lists(listed, L)
  <2>1. \A i \in 1..Len(line) : T[i] \in SUBSET group
    BY <1>1, <1>3 DEF T
  <2>. QED  BY <1>2, <1>8, <2>1
<1>10. ASSUME NEW x, NEW y, Before(line, x, y) PROVE Before(listed, x, y)
  <2>1. PICK i \in 1..Len(line), j \in 1..Len(line) : i < j /\ line[i] = x /\ line[j] = y
    BY <1>10 DEF Before
  <2>2. x \in T[i] /\ y \in T[j]
    BY <2>1 DEF T
  <2>. QED  BY <1>2, <1>8, <2>1, <2>2
<1>11. ASSUME NEW f \in group, duplicate[f] \in group PROVE Before(listed, duplicate[f], f)
  <2>1. f \notin Originals /\ duplicate[f] \in group \cap Originals
    BY <1>0, <1>11 DEF Originals
  <2>2. PICK i \in 1..Len(line) : line[i] = duplicate[f]
    BY <2>1 DEF Lists
  <2>3. f \in copies(line[i])
    BY <2>2
  <2>4. Before(ss[i], line[i], f)
    BY <1>5, <2>3
  <2>. QED  BY <1>2, <1>8, <2>2, <2>4
<1>. QED  BY <1>9, <1>10, <1>11

\* build_version_chains: the chain of a group lists the group in order.
LEMMA ChainsInOrder ==
    ASSUME FilesFit, GroupsFit, NEW g \in groups, \A e \in edges : EdgeFits(e),
           ~At("register_file_metadata"), ~At("mark_exact_duplicates")
    PROVE  InOrderOf(BuildChain(g, Within(g, edges)), g, Within(g, edges))
<1>0. input \in Inputs /\ NoFile \notin File /\ g \in SUBSET File
      /\ \A f \in File \ Originals : duplicate[f] \in Originals
  <2>1. input \in Inputs /\ \A f \in File \ Originals : duplicate[f] \in Originals
    BY DEF FilesFit
  <2>2. g \in SUBSET File
    BY DEF GroupsFit
  <2>. QED  BY <2>1, <2>2, FilesAreFinite
<1>. DEFINE some == Within(g, edges)
            canonical == {f \in g : duplicate[f] = NoFile}
            derived == {e \in some : e.relation \in {"derived_from", "derived_export"}
                                     /\ e.parent \in canonical /\ e.child \in canonical}
            doubtful == {e \in some : e.relation \in {"uncertain", "parallel_branch", "semantic_duplicate"}}
            sorted == Topological(canonical, derived)
            ring == canonical \ ToSet(sorted)
            line == sorted \o Sorted(ring)
            listed == FlattenSeq([i \in DOMAIN line |->
                            <<line[i]>> \o Sorted({h \in g : duplicate[h] = line[i]})])
            order == listed \o InOrder(g \ ToSet(listed))
            chain == BuildChain(g, some)
<1>1. chain.order = order
  BY DEF BuildChain
<1>2. chain.complete => ring = {} /\ doubtful = {}
  BY DEF BuildChain
<1>. HIDE DEF some, canonical, derived, doubtful, sorted, ring, line, listed, order, chain
<1>3. canonical = g \cap Originals /\ canonical \in SUBSET File
  BY <1>0 DEF Originals, canonical
<1>4. PICK D \in SUBSET canonical :
            /\ Lists(sorted, D)
            /\ \A e \in derived : e.child \in D => Before(sorted, e.parent, e.child)
  <2>1. \A e \in derived : e.child \in canonical
    BY DEF derived
  <2>. QED  BY <1>0, <1>3, <2>1, TopologicalOrders DEF sorted
<1>5. ring = canonical \ D
  <2>1. ToSet(sorted) = D
    BY <1>4, ListsCount
  <2>. QED  BY <2>1 DEF ring
<1>6. Lists(line, canonical) /\ \A x, y : Before(sorted, x, y) => Before(line, x, y)
  <2>1. ring \in SUBSET File
    BY <1>3, <1>5
  <2>2. Lists(Sorted(ring), ring) /\ D \cap ring = {} /\ D \cup ring = canonical
    BY <1>0, <1>5, <2>1, SortedSorts
  <2>3. Lists(sorted \o Sorted(ring), D \cup ring)
        /\ \A x, y : Before(sorted, x, y) => Before(sorted \o Sorted(ring), x, y)
    BY <1>4, <2>2, ListsConcat
  <2>. QED  BY <2>2, <2>3 DEF line
<1>7. PICK L \in SUBSET g :
            /\ Lists(listed, L)
            /\ \A x, y : Before(line, x, y) => Before(listed, x, y)
            /\ \A f \in g : duplicate[f] \in g => Before(listed, duplicate[f], f)
  <2>1. Lists(line, g \cap Originals)
    BY <1>3, <1>6
  <2>. QED  BY <1>0, <2>1, CopiesFollow DEF listed
<1>8. Lists(order, g) /\ \A x, y : Before(listed, x, y) => Before(order, x, y)
  <2>1. ToSet(listed) = L
    BY <1>7, ListsCount
  <2>2. (g \ L) \in SUBSET File /\ L \cap (g \ L) = {} /\ L \cup (g \ L) = g
    BY <1>0
  <2>3. Lists(InOrder(g \ L), g \ L)
    BY <1>0, <2>2, SortedSorts
  <2>4. Lists(listed \o InOrder(g \ L), L \cup (g \ L))
        /\ \A x, y : Before(listed, x, y) => Before(listed \o InOrder(g \ L), x, y)
    BY <1>7, <2>2, <2>3, ListsConcat
  <2>. QED  BY <2>1, <2>2, <2>4 DEF order
<1>9. ASSUME NEW e \in some, ring = {}, doubtful = {} PROVE Before(order, e.parent, e.child)
  <2>1. e \in edges /\ e.parent \in g /\ e.child \in g /\ EdgeFits(e)
    BY DEF Within, some, EdgeFits
  <2>2. e.relation \notin {"uncertain", "parallel_branch", "semantic_duplicate"}
    BY <1>9 DEF doubtful
  <2>3. CASE e.parent = duplicate[e.child]
    BY <1>7, <1>8, <2>1, <2>3
  <2>4. CASE /\ e.relation \in {"derived_from", "derived_export"}
             /\ e.parent \in Originals /\ e.child \in Originals
    <3>1. e.parent \in canonical /\ e.child \in canonical
      BY <1>3, <2>1, <2>4
    <3>2. e \in derived /\ e.child \in D
      BY <1>5, <1>9, <2>4, <3>1 DEF derived
    <3>. QED  BY <1>4, <1>6, <1>7, <1>8, <3>2
  <2>. QED  BY <2>1, <2>2, <2>3, <2>4 DEF EdgeFits
<1>10. InOrderOf(chain, g, some)
  BY <1>1, <1>2, <1>7, <1>8, <1>9 DEF InOrderOf
<1>. QED  BY <1>10 DEF chain, some

(***************************************************************************)
(* The version stage: groups and chains.                                   *)
(***************************************************************************)

\* Sets without common elements: nothing is in two of them.
LEMMA GroupsDisjoint ==
    ASSUME NEW some, \A g, h \in some : g # h => g \cap h = {}
    PROVE  \A f : Cardinality({g \in some : f \in g}) <= 1
<1>. SUFFICES ASSUME NEW f PROVE Cardinality({g \in some : f \in g}) <= 1
  OBVIOUS
<1>. DEFINE around == {g \in some : f \in g}
<1>1. around = {} \/ \E g : around = {g}
  OBVIOUS
<1>2. Cardinality(around) \in {0, 1}
  <2>. HIDE DEF around
  <2>. QED  BY <1>1, FS_EmptySet, FS_Singleton
<1>. QED  BY <1>2

\* A stage that was run again stays on record.
LEMMA RetriedGrows ==
    ASSUME [Next]_analysisVars
    PROVE  retried \subseteq retried'
<1>1. CASE InventoryNext
  BY <1>1 DEF InventoryNext, RegisterFileMetadata, MarkExactDuplicates, BuildParseQueue, LoadNextParseJob,
       ExtractAndNormalize, RecordDocumentResult, RecordParseError, RecordUnsupportedFile,
       ValidateInventoryResults, EndInventory, Finished, EndStage
<1>2. CASE VersionNext
  BY <1>2 DEF VersionNext, GroupRelatedFiles, AddDuplicateVersionEdges, BuildComparisonQueue, LoadNextComparison,
       CompareDocumentPair, InferVersionDirection, PrepareVersionSubagentInput,
       SummarizeKeyChangesWithSubagent, ApplySubagentSummary, RetainDeterministicSummary,
       RecordDiffResult, RecordComparisonError, BuildVersionEdges, DetectVersionBranches,
       BuildVersionChains, ValidateVersionResults, EndVersion, ComparisonEnds, EndStage
<1>3. CASE EvidenceNext
  BY <1>3 DEF EvidenceNext, CollectPdfCandidates, CreatePdfMatchJobs, MatchPdf, JoinPdfMatches,
       LoadEmailMcpEvidence, LoadLocalDeliveryLog, MatchDeliveryToVersion, MatchEmailDeliveryToVersion,
       Matched, MergeExternalEvidence, ValidateEvidenceConfidence, EndEvidence,
       DispatchEvidenceSubagentTask, EndEvidenceDispatch, EndStage
<1>4. CASE RecommendationNext
  BY <1>4 DEF RecommendationNext, FindEditableLeafVersions, ScoreVersionCandidates, ApplyDeliveryRules,
       ApplyPdfSourceRules, ApplyBusinessEvidenceRules, SelectMainVersions, CalculateDecisionConfidence,
       ApplySemanticReviewRules, ApplyBusinessEvidenceReviewRules, PreserveCompleteVersionChains,
       MarkHumanReviewItems, ValidateRecommendationResults, DispatchRecommendationJudgeTask, EndJudge,
       PrepareHumanReview, RequestHumanReview, ApplyHumanSelection, Step, EndStage
<1>5. CASE Ended \/ UNCHANGED analysisVars
  BY <1>5 DEF Ended, analysisVars
<1>. QED  BY <1>1, <1>2, <1>3, <1>4, <1>5 DEF Next

\* Only a repeated version stage puts a file in two groups, and no run with such
\* groups gets beyond the evidence stage.
LEMMA GroupsKept ==
    ASSUME FilesFit, GroupsFit, [Next]_analysisVars
    PROVE  GroupsFit'
<1>0. UNCHANGED <<input, File>> /\ input \in Inputs /\ retried \subseteq retried'
  BY StagesMove, RetriedGrows DEF FilesFit, File
<1>1. UNCHANGED groups => (Disjoint' <=> Disjoint)
  BY <1>0 DEF Disjoint
<1>2. ASSUME groups' = {} PROVE GroupsFit'
  <2>1. \A f : Cardinality({g \in groups' : f \in g}) <= 1
    BY <1>2, GroupsDisjoint
  <2>2. Disjoint'
    BY <2>1 DEF Disjoint
  <2>. QED  BY <1>2, <2>2, FS_EmptySet DEF GroupsFit
\* What is left to be shown of a step that leaves the groups alone.
<1>3. ASSUME UNCHANGED <<groups, duplicate>>,
             pc' \in InventoryNodes => pc \in InventoryNodes,
             pc' = "group_related_documents" => pc = pc' \/ "version_analysis" \in retried',
             pc' = "evidence_ended" => Disjoint \/ "validation" \in errors',
             pc' \in ConfirmedNodes => Disjoint
      PROVE  GroupsFit'
  <2>1. UNCHANGED Originals
    BY <1>0, <1>3 DEF Originals
  <2>. QED  BY <1>0, <1>1, <1>3, <2>1 DEF GroupsFit
<1>4. CASE InventoryNext
  <2>1. UNCHANGED groups /\ pc \in InventoryNodes
    BY <1>4, InventoryMoves, StagesMove, NodesApart DEF versionVars, analysisVars
  <2>. QED  BY <1>2, <2>1 DEF GroupsFit
<1>5. CASE GroupRelatedFiles
  <2>1. PICK lost : groups' = groups \cup GroupRelatedDocuments(Analysed, lost)
    BY <1>5 DEF GroupRelatedFiles
  <2>2. /\ pc = "group_related_documents" /\ pc' = "add_duplicate_version_edges"
        /\ UNCHANGED <<files, duplicate, retried>>
    BY <1>5 DEF GroupRelatedFiles, At, inventoryVars
  <2>. DEFINE found == GroupRelatedDocuments(Analysed, lost)
  <2>3. Analysed \in SUBSET File
    BY DEF Analysed
  <2>4. /\ IsFiniteSet(found) /\ \A g \in found : g \in SUBSET Analysed
        /\ \A g \in found : \A f \in g, h \in Analysed : Sha(f) = Sha(h) => h \in g
        /\ \A g, h \in found : g # h => g \cap h = {}
    BY <1>0, <2>3, GroupsPartition
  <2>. HIDE DEF found
  <2>5. groups' \in SUBSET SUBSET File' /\ IsFiniteSet(groups')
    BY <1>0, <2>1, <2>3, <2>4, FS_Union DEF GroupsFit, found
  <2>6. \A g \in groups' : \A f \in g \ Originals' : duplicate'[f] \in g
    <3>1. UNCHANGED Originals
      BY <1>0, <2>2 DEF Originals
    <3>2. ASSUME NEW g \in found, NEW f \in g \ Originals PROVE duplicate[f] \in g
      <4>1. f \in Analysed /\ f \in File \ Originals
        BY <2>3, <2>4
      <4>2. files[f] = "duplicate" /\ duplicate[f] \in File /\ Sha(duplicate[f]) = Sha(f)
        BY <4>1 DEF FilesFit, Registered
      <4>3. duplicate[f] \in Analysed
        BY <4>1, <4>2 DEF Analysed
      <4>. QED  BY <2>4, <4>2, <4>3
    <3>. QED  BY <2>1, <2>2, <3>1, <3>2 DEF GroupsFit, found
  <2>7. "version_analysis" \notin retried => Disjoint'
    <3>. SUFFICES ASSUME "version_analysis" \notin retried PROVE Disjoint'
      OBVIOUS
    <3>1. groups' = found
      BY <2>1, <2>2 DEF GroupsFit, found
    <3>2. \A f : Cardinality({g \in found : f \in g}) <= 1
      BY <2>4, GroupsDisjoint
    <3>. QED  BY <3>1, <3>2 DEF Disjoint
  <2>8. pc' \notin InventoryNodes /\ pc' # "evidence_ended" /\ pc' \notin ConfirmedNodes
    <3>1. pc' \in VersionNodes /\ pc' \notin {"dispatch_evidence_subagent_task", "evidence_dispatched", "reported"}
      BY <2>2 DEF VersionNodes
    <3>. QED  BY <2>2, <3>1, NodesApart DEF ConfirmedNodes
  <2>. QED  BY <2>2, <2>5, <2>6, <2>7, <2>8 DEF GroupsFit
<1>6. CASE VersionNext /\ ~GroupRelatedFiles
  <2>1. /\ pc' \in VersionNodes \cup {"collect_pdf_candidates", "stopped"} /\ UNCHANGED duplicate
    BY <1>6, VersionMoves DEF inventoryVars
  <2>2. UNCHANGED groups /\ (pc' = "group_related_documents" => "version_analysis" \in retried')
    BY <1>6 DEF VersionNext, AddDuplicateVersionEdges, BuildComparisonQueue,
        LoadNextComparison, CompareDocumentPair, InferVersionDirection, PrepareVersionSubagentInput,
        SummarizeKeyChangesWithSubagent, ApplySubagentSummary, RetainDeterministicSummary,
        RecordDiffResult, RecordComparisonError, BuildVersionEdges, DetectVersionBranches,
        BuildVersionChains, ValidateVersionResults, EndVersion, EndStage, ComparisonEnds, NextComparison,
        versionVars, versionResults
  <2>3. pc' \notin InventoryNodes /\ pc' # "evidence_ended"
        /\ pc' \notin {"dispatch_evidence_subagent_task", "evidence_dispatched", "reported"}
    BY <2>1, NodesApart DEF VersionNodes, InventoryNodes
  <2>4. pc' \notin ConfirmedNodes
    BY <2>1, <2>3, NodesApart DEF ConfirmedNodes, EvidenceNodes
  <2>. QED  BY <1>3, <2>1, <2>2, <2>3, <2>4
<1>7. CASE EvidenceNext
  <2>1. /\ pc' \in EvidenceNodes \cup {"find_editable_leaf_versions", "stopped"}
        /\ UNCHANGED <<groups, duplicate>>
    BY <1>7, EvidenceMoves DEF inventoryVars, versionVars
  <2>2. pc' \notin InventoryNodes /\ pc' # "group_related_documents"
    BY <2>1, NodesApart
  <2>3. pc' = "evidence_ended" => Disjoint \/ "validation" \in errors'
    BY <1>7 DEF EvidenceNext, CollectPdfCandidates, CreatePdfMatchJobs, MatchPdf, JoinPdfMatches,
       LoadEmailMcpEvidence, LoadLocalDeliveryLog, MatchDeliveryToVersion, MatchEmailDeliveryToVersion,
       Matched, MergeExternalEvidence, ValidateEvidenceConfidence, EndEvidence,
       DispatchEvidenceSubagentTask, EndEvidenceDispatch, EndStage, EvidenceIsValid, Record, At
  <2>4. pc' \in ConfirmedNodes => Disjoint
    <3>1. CASE EndEvidence
      <4>1. pc = "evidence_ended" /\ (pc' # "collect_pdf_candidates" /\ pc' # "stopped" => errors \subseteq Degraded)
        BY <3>1 DEF EndEvidence, EndStage, At
      <4>2. "collect_pdf_candidates" \notin ConfirmedNodes /\ "stopped" \notin ConfirmedNodes
        BY NodesApart DEF ConfirmedNodes
      <4>. QED  BY <4>1, <4>2 DEF GroupsFit, Degraded
    <3>2. CASE DispatchEvidenceSubagentTask \/ EndEvidenceDispatch
      BY <3>2 DEF DispatchEvidenceSubagentTask, EndEvidenceDispatch, At, GroupsFit, ConfirmedNodes
    <3>3. CASE ~EndEvidence /\ ~DispatchEvidenceSubagentTask /\ ~EndEvidenceDispatch
      <4>1. pc' \in EvidenceNodes /\ pc' \notin {"dispatch_evidence_subagent_task", "evidence_dispatched", "reported"}
        BY <1>7, <3>3 DEF EvidenceNext, CollectPdfCandidates, CreatePdfMatchJobs, MatchPdf, JoinPdfMatches,
           LoadEmailMcpEvidence, LoadLocalDeliveryLog, MatchDeliveryToVersion, MatchEmailDeliveryToVersion,
           Matched, MergeExternalEvidence, ValidateEvidenceConfidence, EvidenceNodes, At
      <4>. QED  BY <4>1, NodesApart DEF ConfirmedNodes
    <3>. QED  BY <3>1, <3>2, <3>3
  <2>. QED  BY <1>3, <2>1, <2>2, <2>3, <2>4
<1>8. CASE RecommendationNext
  <2>1. /\ pc \in RecommendationNodes /\ pc' \in FoundNodes \cup {"stopped"} /\ UNCHANGED <<groups, duplicate>>
    BY <1>8, RecommendationMoves DEF inventoryVars, versionVars
  <2>2. pc' \notin InventoryNodes /\ pc' # "group_related_documents" /\ pc' # "evidence_ended"
    <3>1. "evidence_ended" \in EvidenceNodes
      BY DEF EvidenceNodes
    <3>. QED  BY <2>1, <3>1, NodesApart
  <2>3. Disjoint
    BY <2>1 DEF GroupsFit, ConfirmedNodes
  <2>. QED  BY <1>3, <2>1, <2>2, <2>3
<1>9. CASE Ended \/ UNCHANGED analysisVars
  <2>1. UNCHANGED <<groups, duplicate, pc, retried, errors>>
    BY <1>9 DEF Ended, analysisVars, versionVars, inventoryVars
  <2>. QED  BY <1>3, <2>1 DEF GroupsFit
<1>. QED  BY <1>4, <1>5, <1>6, <1>7, <1>8, <1>9 DEF Next

\* From build_version_chains to the end of the evidence stage the chains fit.
LEMMA ChainsKept ==
    ASSUME FilesFit, GroupsFit, VersionsFit, ChainsFit, [Next]_analysisVars
    PROVE  ChainsFit'
<1>0. UNCHANGED input
  BY StagesMove
<1>1. ASSUME UNCHANGED <<chains, groups>>, pc' \notin ChainedNodes PROVE ChainsFit'
  BY <1>1 DEF ChainsFit
<1>2. ASSUME UNCHANGED <<duplicate, edges, chains, groups>>, pc \in ChainedNodes \/ pc' \notin ChainedNodes
      PROVE  ChainsFit'
  BY <1>2 DEF ChainsFit, InOrderOf, Within
<1>4. ChainedNodes \subseteq VersionNodes \cup EvidenceNodes
  BY DEF ChainedNodes, VersionNodes
<1>5. CASE InventoryNext
  <2>1. UNCHANGED <<chains, groups>> /\ pc' \notin ChainedNodes
    <3>1. UNCHANGED <<chains, groups>> /\ pc' \in InventoryNodes \cup {"group_related_documents", "stopped"}
      BY <1>5, InventoryMoves, StagesMove, NodesApart DEF versionVars, analysisVars
    <3>2. "group_related_documents" \notin ChainedNodes
      BY DEF ChainedNodes, EvidenceNodes
    <3>. QED  BY <1>4, <3>1, <3>2, NodesApart
  <2>. QED  BY <1>1, <2>1
<1>6. CASE GroupRelatedFiles
  BY <1>6 DEF GroupRelatedFiles, ChainsFit, ChainedNodes, EvidenceNodes
<1>7. CASE BuildVersionChains
  <2>. DEFINE Chain(g) == BuildChain(g, Within(g, edges))
  <2>1. /\ chains' = [g \in groups \cup DOMAIN chains |-> IF g \in groups THEN Chain(g) ELSE chains[g]]
        /\ UNCHANGED <<duplicate, edges, groups>>
    BY <1>7 DEF BuildVersionChains, inventoryVars
  <2>2. groups \cup DOMAIN chains = groups
    BY DEF ChainsFit
  <2>3. ~At("register_file_metadata") /\ ~At("mark_exact_duplicates")
    BY <1>7 DEF BuildVersionChains, At
  <2>4. \A g \in groups : InOrderOf(Chain(g), g, Within(g, edges))
    BY <2>3, ChainsInOrder DEF VersionsFit
  <2>. HIDE DEF Chain
  <2>5. DOMAIN chains' = groups /\ \A g \in groups : chains'[g] = Chain(g)
    BY <2>1, <2>2
  <2>. QED  BY <2>1, <2>4, <2>5 DEF ChainsFit, InOrderOf, Within
<1>8. CASE ValidateVersionResults \/ EndVersion
  <2>1. UNCHANGED <<duplicate, edges, chains, groups>> /\ pc \in ChainedNodes
    BY <1>8 DEF ValidateVersionResults, EndVersion, inventoryVars, versionVars, ChainedNodes, At
  <2>. QED  BY <1>2, <2>1
<1>9. CASE \/ AddDuplicateVersionEdges \/ BuildComparisonQueue \/ LoadNextComparison
           \/ CompareDocumentPair \/ InferVersionDirection \/ PrepareVersionSubagentInput
           \/ SummarizeKeyChangesWithSubagent \/ ApplySubagentSummary \/ RetainDeterministicSummary
           \/ RecordDiffResult \/ RecordComparisonError \/ BuildVersionEdges \/ DetectVersionBranches
  <2>1. UNCHANGED <<chains, groups>> /\ pc' \notin ChainedNodes
    BY <1>9 DEF AddDuplicateVersionEdges, BuildComparisonQueue, NextComparison,
        LoadNextComparison, CompareDocumentPair, InferVersionDirection, PrepareVersionSubagentInput,
        SummarizeKeyChangesWithSubagent, ApplySubagentSummary, RetainDeterministicSummary,
        RecordDiffResult, RecordComparisonError, BuildVersionEdges, DetectVersionBranches,
        ComparisonEnds, versionVars, versionResults, ChainedNodes, EvidenceNodes
  <2>. QED  BY <1>1, <2>1
<1>10. CASE EvidenceNext
  <2>1. UNCHANGED <<duplicate, edges, chains, groups>> /\ pc \in ChainedNodes
    BY <1>10, EvidenceMoves DEF inventoryVars, versionVars, ChainedNodes
  <2>. QED  BY <1>2, <2>1
<1>11. CASE RecommendationNext
  <2>1. UNCHANGED <<duplicate, edges, chains, groups>> /\ pc' \in FoundNodes \cup {"stopped"}
    BY <1>11, RecommendationMoves DEF inventoryVars, versionVars
  <2>2. pc' \notin ChainedNodes
    BY <2>1, <1>4, NodesApart
  <2>. QED  BY <1>2, <2>1, <2>2
<1>12. CASE UNCHANGED analysisVars
  BY <1>12, <1>2 DEF analysisVars, inventoryVars, versionVars
<1>. QED  BY <1>5, <1>6, <1>7, <1>8, <1>9, <1>10, <1>11, <1>12 DEF Next, VersionNext, Ended

(***************************************************************************)
(* The version stage: queue, diffs and edges.                              *)
(***************************************************************************)

\* The files of a direction are those of the pair, or none.
LEMMA DirectionFits ==
    ASSUME NEW l \in File, NEW r \in File, NoFile \notin File
    PROVE  /\ Direction(l, r).older \in {l, r, NoFile}
           /\ Direction(l, r).newer \in {l, r, NoFile}
           /\ Direction(l, r).older # NoFile => Direction(l, r).newer # NoFile
BY DEF Direction

\* The edges of a group are of one of the three kinds, and between its files.
LEMMA BuiltEdgesFit ==
    ASSUME NEW group \in groups, GroupsFit, NoFile \notin File, NEW compared,
           \A p \in DOMAIN compared : p \in GroupPairs /\ DiffFits(compared[p], p),
           NEW e \in BuildEdges(group, compared)
    PROVE  EdgeFits(e)
<1>. DEFINE pairs == {p \in DOMAIN compared : p[3] = group}
            plain == {p \in pairs : ~Directed(compared[p]) /\ compared[p].resolved # "unrelated"}
<1>1. CASE e \in DuplicateEdges(group)
  <2>1. PICK f \in group : duplicate[f] # NoFile /\ e = Edge(group, duplicate[f], f, "duplicate_of")
    BY <1>1 DEF DuplicateEdges
  <2>2. f \notin Originals
    BY <2>1 DEF Originals
  <2>. QED  BY <2>1, <2>2 DEF Edge, EdgeFits, GroupsFit
<1>2. CASE e \in {UndirectedEdge(p, compared[p]) : p \in plain}
  <2>1. PICK p \in plain : e = UndirectedEdge(p, compared[p])
    BY <1>2
  <2>2. e.relation \in {"uncertain", "parallel_branch", "semantic_duplicate"}
        /\ e.group = p[3] /\ e.parent \in {p[1], p[2]} /\ e.child \in {p[1], p[2]}
    BY <2>1 DEF UndirectedEdge, Edge
  <2>3. p[1] \in p[3] /\ p[2] \in p[3]
    BY DEF GroupPairs
  <2>. QED  BY <2>2, <2>3 DEF EdgeFits
<1>3. CASE e \in DerivedEdges(group, {compared[p] : p \in pairs})
  <2>1. PICK d \in {compared[p] : p \in pairs} :
            /\ e = Edge(group, d.older, d.newer,
                        IF d.resolved = "derived_export" THEN "derived_export" ELSE "derived_from")
            /\ Directed(d)
    BY <1>3 DEF DerivedEdges
  <2>2. PICK p \in pairs : d = compared[p]
    BY <2>1
  <2>3. DiffFits(d, p) /\ d.older # NoFile
    BY <2>1, <2>2 DEF Directed
  <2>4. d.older \in {p[1], p[2]} /\ d.newer \in {p[1], p[2]}
    BY <2>3 DEF DiffFits
  <2>5. p[1] \in Originals \cap group /\ p[2] \in Originals \cap group
    BY DEF GroupPairs
  <2>. QED  BY <2>1, <2>4, <2>5 DEF EdgeFits, Edge
<1>4. e \in DuplicateEdges(group) \/ e \in {UndirectedEdge(p, compared[p]) : p \in plain}
        \/ e \in DerivedEdges(group, {compared[p] : p \in pairs})
  BY DEF BuildEdges
<1>. QED  BY <1>1, <1>2, <1>3, <1>4

\* Whatever a comparison or the Version sub-agent answers, the records stay in shape.
LEMMA VersionsKept ==
    ASSUME FilesFit, GroupsFit, VersionsFit, [Next]_analysisVars
    PROVE  VersionsFit'
<1>0. UNCHANGED <<input, File>> /\ NoFile \notin File
  BY StagesMove, FilesAreFinite DEF File, FilesFit
<1>. DEFINE Comparing == ComparingNodes
            Pairs == GroupPairs
            Idle == pc' \notin Comparing /\ (pc' = "load_next_comparison" => comparisons' # <<>>)
<1>1. \A p : DiffFits(NoDiff, p)
  BY DEF DiffFits, NoDiff
<1>2. CASE InventoryNext
  <2>1. UNCHANGED <<comparisons, diffs, edges>> /\ pc \in InventoryNodes /\ pc' \notin Comparing
        /\ pc' # "load_next_comparison"
    BY <1>2, InventoryMoves, StagesMove, NodesApart DEF versionVars, analysisVars, InventoryNodes, ComparingNodes
  <2>2. comparisons = <<>> /\ diffs = <<>> /\ edges = {}
    BY <2>1 DEF VersionsFit
  <2>. QED  BY <2>1, <2>2 DEF VersionsFit
\* What is left to be shown of a step of the stage.
<1>3. ASSUME UNCHANGED <<files, duplicate>>, pc' \notin InventoryNodes \/ UNCHANGED <<pc, comparisons, diffs, edges>>,
             comparisons' \in Seq(Pairs), pc' = "load_next_comparison" => comparisons' # <<>>,
             pc' \in Comparing => pair' \in Pairs /\ DiffFits(diff', pair'),
             \A p \in DOMAIN diffs' : p \in Pairs /\ DiffFits(diffs'[p], p), \A e \in edges' : EdgeFits(e)
      PROVE  VersionsFit'
  <2>1. UNCHANGED <<Originals, GroupPairs>>
    BY <1>0, <1>3, FilesDetermine DEF GroupPairs
  <2>2. \A d, p : UNCHANGED DiffFits(d, p)
    BY DEF DiffFits
  <2>3. \A e : UNCHANGED EdgeFits(e)
    BY <2>1, <1>3 DEF EdgeFits
  <2>4. (comparisons \in Seq(GroupPairs))' /\ (pc = "load_next_comparison" => comparisons # <<>>)'
    BY <1>3, <2>1
  <2>5. (pc \in ComparingNodes => pair \in GroupPairs /\ DiffFits(diff, pair))'
    BY <1>3, <2>1 DEF DiffFits, ComparingNodes
  <2>6. (\A p \in DOMAIN diffs : p \in GroupPairs /\ DiffFits(diffs[p], p))'
    BY <1>3, <2>1 DEF DiffFits
  <2>7. (\A e \in edges : EdgeFits(e))'
    BY <1>3, <2>3 DEF EdgeFits
  <2>8. (pc \in InventoryNodes => comparisons = <<>> /\ diffs = <<>> /\ edges = {})'
    BY <1>3 DEF VersionsFit
  <2>. QED  BY <2>4, <2>5, <2>6, <2>7, <2>8 DEF VersionsFit
<1>4. CASE VersionNext
  <2>0. /\ UNCHANGED <<files, duplicate>> /\ pc' \notin InventoryNodes
        /\ ~At("register_file_metadata") /\ ~At("mark_exact_duplicates")
    BY <1>4, VersionMoves, NodesApart DEF inventoryVars, VersionNodes, At
  <2>00. /\ comparisons \in Seq(Pairs)
         /\ pc \in Comparing => pair \in Pairs /\ DiffFits(diff, pair)
         /\ \A p \in DOMAIN diffs : p \in Pairs /\ DiffFits(diffs[p], p)
         /\ \A e \in edges : EdgeFits(e)
    BY DEF VersionsFit
  <2>1. CASE \/ GroupRelatedFiles
             \/ DetectVersionBranches \/ BuildVersionChains \/ ValidateVersionResults \/ EndVersion
    <3>1. UNCHANGED <<comparisons, diffs, edges>> /\ Idle
      BY <2>1 DEF GroupRelatedFiles, DetectVersionBranches, BuildVersionChains, ValidateVersionResults,
          EndVersion, EndStage, versionWork, versionVars, versionResults, ComparingNodes
    <3>. QED  BY <1>3, <2>0, <2>00, <3>1
  <2>11. CASE SummarizeKeyChangesWithSubagent \/ RetainDeterministicSummary
    <3>1. UNCHANGED <<comparisons, pair, diff, diffs, edges>> /\ pc \in Comparing /\ pc' # "load_next_comparison"
      BY <2>11 DEF SummarizeKeyChangesWithSubagent, RetainDeterministicSummary, versionVars, versionResults,
          ComparingNodes, At
    <3>. QED  BY <1>3, <2>0, <2>00, <3>1
  <2>2. CASE AddDuplicateVersionEdges
    <3>1. /\ edges' = edges \cup UNION {BuildEdges(g, <<>>) : g \in groups}
          /\ UNCHANGED <<comparisons, diffs>> /\ Idle
      BY <2>2 DEF AddDuplicateVersionEdges, versionWork, ComparingNodes
    <3>2. \A p \in DOMAIN <<>> : p \in GroupPairs /\ DiffFits(<<>>[p], p)
      OBVIOUS
    <3>3. \A e \in edges' : EdgeFits(e)
      BY <1>0, <3>1, <3>2, <2>00, BuiltEdgesFit
    <3>. QED  BY <1>3, <2>0, <2>00, <3>1, <3>3
  <2>3. CASE BuildVersionEdges
    <3>1. /\ edges' = edges \cup UNION {BuildEdges(g, diffs) : g \in groups}
          /\ UNCHANGED <<comparisons, diffs>> /\ Idle
      BY <2>3 DEF BuildVersionEdges, versionWork, ComparingNodes
    <3>2. \A e \in edges' : EdgeFits(e)
      BY <1>0, <3>1, <2>00, BuiltEdgesFit
    <3>. QED  BY <1>3, <2>0, <2>00, <3>1, <3>2
  <2>4. CASE BuildComparisonQueue
    <3>1. UNCHANGED <<diffs, edges>> /\ Idle
      BY <2>4 DEF BuildComparisonQueue, NextComparison, versionResults, ComparingNodes
    <3>2. input \in Inputs /\ groups \in SUBSET SUBSET File /\ IsFiniteSet(groups)
      BY DEF GroupsFit, FilesFit
    <3>3. PICK line \in SetToSeqs(groups) :
             comparisons' = FlattenSeq([i \in DOMAIN line |-> CandidatePairs(line[i])])
      BY <2>4 DEF BuildComparisonQueue
    <3>4. comparisons' \in Seq(Pairs)
      BY <3>2, <3>3, QueueOfOriginals
    <3>. QED  BY <1>3, <2>0, <2>00, <3>1, <3>4
  <2>5. CASE LoadNextComparison
    <3>1. /\ pair' = Head(comparisons) /\ comparisons' = Tail(comparisons) /\ diff' = NoDiff
          /\ UNCHANGED <<diffs, edges>>
      BY <2>5 DEF LoadNextComparison, versionResults
    <3>2. comparisons # <<>> /\ pc' # "load_next_comparison"
      BY <2>5 DEF LoadNextComparison, At, VersionsFit
    <3>3. pair' \in Pairs /\ comparisons' \in Seq(Pairs)
      BY <3>1, <3>2, <2>00, HeadTailProperties
    <3>. QED  BY <1>1, <1>3, <2>0, <2>00, <3>1, <3>2, <3>3
  <2>6. CASE CompareDocumentPair
    <3>1. UNCHANGED <<comparisons, pair, diffs, edges>> /\ pair \in Pairs
          /\ (diff' = NoDiff \/ diff' = Compared(pair[1], pair[2]))
          /\ pc' # "load_next_comparison"
      BY <2>6 DEF CompareDocumentPair, versionResults, At, VersionsFit, ComparingNodes
    <3>2. pair[1] \in File /\ pair[2] \in File
      BY <3>1 DEF GroupPairs, Originals
    <3>3. DiffFits(Compared(pair[1], pair[2]), pair)
      BY <1>0, <3>2, DirectionFits DEF Compared, DiffFits
    <3>. QED  BY <1>1, <1>3, <2>0, <2>00, <3>1, <3>3
  <2>7. CASE InferVersionDirection
    <3>. DEFINE d == Direction(pair[1], pair[2])
    <3>1. UNCHANGED <<comparisons, pair, diffs, edges>> /\ pair \in Pairs /\ pc' # "load_next_comparison"
          /\ DiffFits(diff, pair)
          /\ diff' = [diff EXCEPT !.older = d.older, !.newer = d.newer,
                                  !.confidence = (100 * d.sure + @) \div 2]
      BY <2>7 DEF InferVersionDirection, versionResults, At, VersionsFit, ComparingNodes
    <3>4. pair[1] \in File /\ pair[2] \in File
      BY <3>1 DEF GroupPairs, Originals
    <3>2. d.older \in {pair[1], pair[2], NoFile} /\ d.newer \in {pair[1], pair[2], NoFile}
          /\ (d.older # NoFile => d.newer # NoFile)
      BY <1>0, <3>4, DirectionFits
    <3>. HIDE DEF d
    <3>3. DiffFits(diff', pair)
      BY <3>1, <3>2 DEF DiffFits
    <3>. QED  BY <1>3, <2>0, <2>00, <3>1, <3>3
  <2>8. CASE PrepareVersionSubagentInput \/ ApplySubagentSummary
    <3>1. UNCHANGED <<comparisons, pair, diffs, edges>> /\ pc \in Comparing /\ pc' # "load_next_comparison"
      BY <2>8 DEF PrepareVersionSubagentInput, ApplySubagentSummary, versionResults, At, ComparingNodes
    <3>2. DOMAIN diff' = DOMAIN diff /\ diff'.older = diff.older /\ diff'.newer = diff.newer
      BY <2>8, <2>00, <3>1 DEF PrepareVersionSubagentInput, ApplySubagentSummary, DiffFits
    <3>3. DiffFits(diff', pair)
      BY <3>1, <3>2, <2>00 DEF DiffFits
    <3>. QED  BY <1>3, <2>0, <2>00, <3>1, <3>3
  <2>9. CASE RecordDiffResult
    <3>1. UNCHANGED <<comparisons, edges>> /\ Idle /\ diffs' = With(diffs, pair, diff)
      BY <2>9 DEF RecordDiffResult, ComparisonEnds, NextComparison, ComparingNodes
    <3>2. pair \in Pairs /\ DiffFits(diff, pair)
      BY <2>9, <2>00 DEF RecordDiffResult, At, ComparingNodes
    <3>3. \A p \in DOMAIN diffs' : p \in Pairs /\ DiffFits(diffs'[p], p)
      BY <3>1, <3>2, <2>00 DEF With
    <3>. QED  BY <1>3, <2>0, <2>00, <3>1, <3>3
  <2>10. CASE RecordComparisonError
    <3>1. UNCHANGED <<comparisons, edges, diffs>> /\ Idle
      BY <2>10 DEF RecordComparisonError, ComparisonEnds, NextComparison, ComparingNodes
    <3>. QED  BY <1>3, <2>0, <2>00, <3>1
  <2>. HIDE DEF Comparing, Pairs
  <2>. QED  BY <1>4, <2>1, <2>11, <2>2, <2>3, <2>4, <2>5, <2>6, <2>7, <2>8, <2>9, <2>10 DEF VersionNext
<1>5. CASE ~InventoryNext /\ ~VersionNext
  <2>1. UNCHANGED <<files, duplicate, comparisons, pair, diff, diffs, edges>>
    BY <1>5, StagesMove DEF inventoryVars, versionVars, analysisVars
  <2>2. UNCHANGED pc \/ pc' \in FoundNodes \cup EvidenceNodes \cup RecommendationNodes \cup {"stopped"}
    BY <1>5, StagesMove, NodesApart DEF analysisVars
  <2>3. Comparing \subseteq VersionNodes /\ "load_next_comparison" \in VersionNodes
    BY DEF VersionNodes, ComparingNodes
  <2>. HIDE DEF Comparing
  <2>4. UNCHANGED pc \/ (pc' \notin InventoryNodes /\ pc' \notin Comparing /\ pc' # "load_next_comparison")
    BY <2>2, <2>3, NodesApart
  <2>. QED  BY <1>3, <2>1, <2>4 DEF VersionsFit, Comparing
<1>. QED  BY <1>2, <1>4, <1>5

(***************************************************************************)
(* The evidence stage.                                                     *)
(***************************************************************************)

\* match_pdf_to_source_version names a source of the group, or none.
LEMMA BestSourceFits ==
    ASSUME input \in Inputs, NEW pdf \in File, NEW some \in SUBSET (File \ {pdf})
    PROVE  /\ BestSource(pdf, some).confidence \in Int
           /\ BestSource(pdf, some).source # NoFile =>
                BestSource(pdf, some).source \in some /\ BestSource(pdf, some).score >= 82
<1>. DEFINE score(f) == input.match[{pdf, f}]
            better == {p \in some \X some :
                    score(p[1]) > score(p[2]) \/ (score(p[1]) = score(p[2]) /\ p[1] > p[2])}
            ranked == SortedBy(some, better)
            margin == IF Len(ranked) = 1 THEN 100 ELSE score(ranked[1]) - score(ranked[2])
            best == IF some # {} /\ score(ranked[1]) >= 82 /\ margin >= 5
                    THEN [source |-> ranked[1], score |-> score(ranked[1]),
                          confidence |-> (80 * score(ranked[1]) + 20 * Least(5 * margin, 100)) \div 100]
                    ELSE [source |-> NoFile, score |-> IF some = {} THEN 0 ELSE score(ranked[1]), confidence |-> 0]
<1>1. BestSource(pdf, some) = best
  BY DEF BestSource
<1>2. \A f \in some : score(f) \in 0..100
  BY MailsAssumption DEF File
<1>3. IsFiniteSet(some) /\ some \in SUBSET Nat
  BY SortedSorts, FilesAreFinite
<1>. HIDE DEF score
<1>4. Orders(better, some)
  <2>1. \A x, y : <<x, y>> \in better <=>
            x \in some /\ y \in some /\ (score(x) > score(y) \/ (score(x) = score(y) /\ x > y))
    OBVIOUS
  <2>2. \A x \in some : score(x) \in Int /\ x \in Int
    BY <1>2, <1>3
  <2>. HIDE DEF better
  <2>. QED  BY <2>1, <2>2 DEF Orders
<1>5. Lists(ranked, some)
  <2>. HIDE DEF better
  <2>. QED  BY <1>3, <1>4, SortedBySorts
<1>. HIDE DEF ranked
<1>6. Len(ranked) \in Nat /\ \A i \in 1..Len(ranked) : score(ranked[i]) \in 0..100
  BY <1>2, <1>5, ListsHas
<1>7. some # {} => Len(ranked) # 0
  <2>. SUFFICES ASSUME some # {}, Len(ranked) = 0 PROVE FALSE
    OBVIOUS
  <2>1. PICK x \in some : TRUE
    OBVIOUS
  <2>2. \E i \in 1..Len(ranked) : ranked[i] = x
    BY <1>5 DEF Lists
  <2>. QED  BY <2>2
<1>8. some # {} => score(ranked[1]) \in 0..100 /\ margin \in Int
  <2>. SUFFICES ASSUME some # {} PROVE score(ranked[1]) \in 0..100 /\ margin \in Int
    OBVIOUS
  <2>1. 1 \in 1..Len(ranked) /\ (Len(ranked) # 1 => 2 \in 1..Len(ranked))
    <3>1. \A n \in Nat : n # 0 => 1 \in 1..n /\ (n # 1 => 2 \in 1..n)
      OBVIOUS
    <3>. QED  BY <1>6, <1>7, <3>1, Zenon
  <2>2. score(ranked[1]) \in 0..100 /\ (Len(ranked) # 1 => score(ranked[2]) \in 0..100)
    BY <1>6, <2>1
  <2>. QED  BY <2>2
<1>. HIDE DEF margin
<1>9. best.confidence \in Int
  BY <1>8 DEF Least
<1>10. some # {} => ranked[1] \in some
  <2>1. some # {} => 1 \in 1..Len(ranked)
    BY <1>6, <1>7
  <2>. QED  BY <1>5, <2>1, ListsHas
<1>11. best.source # NoFile => best.source \in some /\ best.score >= 82
  BY <1>10
<1>. QED  BY <1>1, <1>9, <1>11

\* A delivery has the confidence of the match it was found by.
LEMMA DeliveryFits ==
    ASSUME NEW m
    PROVE  Delivery(m).confidence \in Int
<1>. DEFINE found == << Unique({f \in File : m.sha # 0 /\ Sha(f) = m.sha}),
                        Unique({f \in File : m.digest # 0 /\ Original(f) \in documents
                                             /\ input.meta[Original(f)].digest = m.digest}),
                        Unique({f \in File : input.meta[f].name = m.name}),
                        Unique({f \in File : input.meta[f].stem = m.stem}) >>
            hits == {i \in 1..4 : found[i] # NoFile}
            first == CHOOSE i \in hits : \A j \in hits : i <= j
<1>1. Delivery(m).confidence = IF hits = {} THEN 0 ELSE <<100, 95, 85, 70>>[first]
  BY DEF Delivery
<1>2. hits \in SUBSET (1..4)
  OBVIOUS
<1>. HIDE DEF hits
<1>3. hits # {} => first \in 1..4
  <2>1. hits # {} => \E i \in hits : \A j \in hits : i <= j
    <3>1. \A j \in hits : j \in {1, 2, 3, 4}
      BY <1>2
    <3>2. (1 \in hits \/ 2 \in hits \/ 3 \in hits \/ 4 \in hits) \/ hits = {}
      BY <3>1
    <3>3. CASE 1 \in hits
      BY <3>1, <3>3
    <3>4. CASE 1 \notin hits /\ 2 \in hits
      BY <3>1, <3>4
    <3>5. CASE 1 \notin hits /\ 2 \notin hits /\ 3 \in hits
      BY <3>1, <3>5
    <3>6. CASE 1 \notin hits /\ 2 \notin hits /\ 3 \notin hits /\ 4 \in hits
      BY <3>1, <3>6
    <3>. QED  BY <3>2, <3>3, <3>4, <3>5, <3>6
  <2>. QED  BY <1>2, <2>1
<1>. HIDE DEF first
<1>4. hits # {} => <<100, 95, 85, 70>>[first] \in Int
  BY <1>3
<1>. QED  BY <1>1, <1>4

\* The image of a finite set is finite.
LEMMA Images ==
    ASSUME NEW S, IsFiniteSet(S), NEW f
    PROVE  IsFiniteSet({f[x] : x \in S})
<1>. DEFINE r == [x \in S |-> f[x]]
<1>1. r \in Surjection(S, {f[x] : x \in S})
  BY DEF Surjection
<1>. HIDE DEF r
<1>. QED  BY <1>1, FS_Surjection

Claimable(some) ==
    {[type |-> t, file |-> d.file, mail |-> d.mail, confidence |-> 90] : t \in BusinessType, d \in some}

\* What a mail claims becomes evidence only for a file it was matched with.
LEMMA ClaimsFit ==
    ASSUME input \in Inputs, NEW group, NEW told \in Claims(group)
    PROVE  told \in SUBSET Claimable(deliveries)
<1>1. input.claims \in SUBSET SUBSET BusinessType
  BY MailsAssumption
<1>2. CASE told = {}
  BY <1>2
<1>3. CASE told # {}
  <2>1. PICK types \in input.claims, d \in {e \in deliveries : e.text /\ e.file \in group} :
            told = {[type |-> t, file |-> d.file, mail |-> d.mail, confidence |-> 90] : t \in types}
    BY <1>3 DEF Claims
  <2>2. types \subseteq BusinessType /\ d \in deliveries
    BY <1>1, <2>1
  <2>. QED  BY <2>1, <2>2 DEF Claimable
<1>. QED  BY <1>2, <1>3

\* Failing servers, logs and matches leave finite sets of well-formed evidence.
LEMMA EvidenceKept ==
    ASSUME FilesFit, GroupsFit, EvidenceFits, [Next]_analysisVars
    PROVE  EvidenceFits'
<1>0. UNCHANGED <<input, File>> /\ input \in Inputs /\ \A f : UNCHANGED Ext(f)
  BY StagesMove DEF File, Ext, FilesFit
<1>. DEFINE Pdfs == {f \in File : Ext(f) = "pdf"}
            Here == "match_pdf_to_source_version"
<1>1. UNCHANGED Pdfs
  BY <1>0
\* What is left to be shown of a step.
<1>2. ASSUME jobs' \in SUBSET Pdfs, pc' = Here => \A f \in jobs' : \E g \in groups' : f \in g,
             UNCHANGED exports \/ \E f \in File : \E b : exports' = With(exports, f, b) /\ b.confidence \in Int,
             IsFiniteSet(mails'), deliveries \subseteq deliveries', IsFiniteSet(deliveries'),
             \A d \in deliveries' : d.confidence \in Int,
             business' \in SUBSET Claimable(deliveries')
      PROVE  EvidenceFits'
  <2>1. DOMAIN exports' \in SUBSET File /\ \A f \in DOMAIN exports' : exports'[f].confidence \in Int
    <3>1. CASE UNCHANGED exports
      BY <3>1 DEF EvidenceFits
    <3>2. CASE \E f \in File : \E b : exports' = With(exports, f, b) /\ b.confidence \in Int
      BY <3>2 DEF EvidenceFits, With
    <3>. QED  BY <1>2, <3>1, <3>2
  <2>2. (DOMAIN exports \in SUBSET File)' /\ (\A f \in DOMAIN exports : exports[f].confidence \in Int)'
    BY <1>0, <2>1
  <2>3. (jobs \in SUBSET Pdfs)'
    BY <1>1, <1>2
  <2>4. (pc = Here => \A f \in jobs : \E g \in groups : f \in g)'
    BY <1>2
  <2>5. (business \in SUBSET Claimable(deliveries))'
    BY <1>2
  <2>. QED  BY <1>2, <2>2, <2>3, <2>4, <2>5 DEF EvidenceFits, Claimable
<1>3. /\ jobs \in SUBSET Pdfs /\ IsFiniteSet(mails) /\ IsFiniteSet(deliveries)
      /\ \A d \in deliveries : d.confidence \in Int
      /\ business \in SUBSET Claimable(deliveries)
  BY DEF EvidenceFits, Claimable
<1>. HIDE DEF Pdfs
<1>4. CASE EvidenceNext
  <2>0. UNCHANGED <<files, duplicate, groups>>
    BY <1>4, EvidenceMoves DEF inventoryVars, versionVars
  <2>1. CASE CollectPdfCandidates
    <3>1. jobs' = {f \in File : Ext(f) = "pdf" /\ Parsed(f)} /\ pc' # Here
          /\ UNCHANGED <<exports, mails, deliveries, business>>
      BY <2>1 DEF CollectPdfCandidates
    <3>2. jobs' \in SUBSET Pdfs
      BY <3>1 DEF Pdfs
    <3>. QED  BY <1>2, <1>3, <3>1, <3>2
  <2>2. CASE CreatePdfMatchJobs
    <3>1. jobs' = jobs \ {p \in jobs : Cardinality({g \in groups : p \in g}) # 1}
          /\ UNCHANGED <<exports, mails, deliveries, business>>
      BY <2>2 DEF CreatePdfMatchJobs
    <3>2. ASSUME NEW f \in jobs' PROVE \E g \in groups' : f \in g
      <4>1. Cardinality({g \in groups : f \in g}) = 1
        BY <3>1
      <4>. DEFINE around == {g \in groups : f \in g}
      <4>2. around # {}
        <5>1. Cardinality({}) = 0
          BY FS_EmptySet
        <5>2. Cardinality(around) = 1
          BY <4>1
        <5>. HIDE DEF around
        <5>. QED  BY <5>1, <5>2
      <4>. QED  BY <2>0, <4>2
    <3>. QED  BY <1>2, <1>3, <3>1, <3>2
  <2>3. ASSUME NEW pdf \in File, MatchPdf(pdf) PROVE EvidenceFits'
    <3>. DEFINE group == CHOOSE g \in groups : pdf \in g
                some == {f \in group : Ext(f) \in Editable /\ Parsed(f)}
    <3>1. /\ exports' = With(exports, pdf, BestSource(pdf, some)) /\ jobs' = jobs \ {pdf} /\ pdf \in jobs
          /\ pc = Here /\ UNCHANGED <<mails, deliveries, business>>
      BY <2>3 DEF MatchPdf, At
    <3>2. group \in groups
      BY <3>1 DEF EvidenceFits
    <3>3. group \in SUBSET File
      BY <3>2 DEF GroupsFit
    <3>4. Ext(pdf) \notin Editable
      BY <3>1, <1>3 DEF Pdfs, Editable
    <3>5. some \in SUBSET (File \ {pdf})
      BY <3>3, <3>4
    <3>. HIDE DEF some
    <3>6. BestSource(pdf, some).confidence \in Int
      BY <1>0, <3>5, BestSourceFits
    <3>7. \A f \in jobs' : \E g \in groups' : f \in g
      BY <3>1, <2>0 DEF EvidenceFits
    <3>. QED  BY <1>2, <1>3, <3>1, <3>6, <3>7
  <2>4. CASE JoinPdfMatches \/ MergeExternalEvidence \/ ValidateEvidenceConfidence
    <3>1. pc' # Here /\ UNCHANGED <<jobs, exports, mails, deliveries, business>>
      BY <2>4 DEF JoinPdfMatches, MergeExternalEvidence, ValidateEvidenceConfidence, evidenceVars
    <3>. QED  BY <1>2, <1>3, <3>1
  <2>5. CASE EndEvidence \/ EndEvidenceDispatch
    <3>1. pc' # Here /\ UNCHANGED <<jobs, exports, mails, deliveries, business>>
      BY <2>5 DEF EndEvidence, EndEvidenceDispatch, EndStage, evidenceVars
    <3>. QED  BY <1>2, <1>3, <3>1
  <2>6. CASE LoadEmailMcpEvidence \/ LoadLocalDeliveryLog
    <3>1. pc' # Here /\ UNCHANGED <<jobs, exports, deliveries, business>>
          /\ mails' \in {{}, input.mails, input.log}
      BY <2>6 DEF LoadEmailMcpEvidence, LoadLocalDeliveryLog
    <3>2. IsFiniteSet(mails')
      BY <1>0, <3>1, MailsAssumption, FS_EmptySet
    <3>. QED  BY <1>2, <1>3, <3>1, <3>2
  <2>7. CASE MatchDeliveryToVersion \/ MatchEmailDeliveryToVersion
    <3>. DEFINE found == {Delivery(m) : m \in mails}
    <3>1. pc' # Here /\ UNCHANGED <<jobs, exports, mails, business>>
          /\ deliveries' \in {deliveries, deliveries \cup found}
      BY <2>7 DEF MatchDeliveryToVersion, MatchEmailDeliveryToVersion, Matched
    <3>2. IsFiniteSet(found)
      <4>. DEFINE r == [m \in mails |-> Delivery(m)]
      <4>1. found = {r[m] : m \in mails}
        OBVIOUS
      <4>. HIDE DEF r, found
      <4>. QED  BY <1>3, <4>1, Images
    <3>3. \A d \in found : d.confidence \in Int
      BY DeliveryFits
    <3>. HIDE DEF found
    <3>4. deliveries \subseteq deliveries' /\ IsFiniteSet(deliveries') /\ \A d \in deliveries' : d.confidence \in Int
      BY <1>3, <3>1, <3>2, <3>3, FS_Union
    <3>5. business' \in SUBSET Claimable(deliveries')
      BY <1>3, <3>1, <3>4 DEF Claimable
    <3>. QED  BY <1>2, <1>3, <3>1, <3>4, <3>5
  <2>8. CASE DispatchEvidenceSubagentTask
    <3>1. PICK told \in [groups -> UNION {Claims(g) : g \in groups}] :
            /\ \A g \in groups : told[g] \in (IF "evidence_subagent" \in retried THEN {{}} ELSE Claims(g))
            /\ business' = business \cup UNION {told[g] : g \in groups}
      BY <2>8 DEF DispatchEvidenceSubagentTask
    <3>2. pc' # Here /\ UNCHANGED <<jobs, exports, mails, deliveries>>
      BY <2>8 DEF DispatchEvidenceSubagentTask
    <3>3. \A g \in groups : told[g] \in SUBSET Claimable(deliveries)
      BY <1>0, <3>1, ClaimsFit
    <3>4. business' \in SUBSET Claimable(deliveries')
      BY <1>3, <3>1, <3>2, <3>3
    <3>. QED  BY <1>2, <1>3, <3>2, <3>4
  <2>. QED  BY <1>4, <2>1, <2>2, <2>3, <2>4, <2>5, <2>6, <2>7, <2>8 DEF EvidenceNext
<1>5. CASE ~EvidenceNext
  <2>1. UNCHANGED <<jobs, exports, mails, deliveries, business>>
    BY <1>5, StagesMove DEF evidenceVars, analysisVars
  <2>2. UNCHANGED <<pc, groups>> \/ pc' \notin EvidenceNodes \/ pc' = "collect_pdf_candidates"
    BY <1>5, StagesMove, NodesApart DEF versionVars, analysisVars
  <2>3. Here \in EvidenceNodes
    BY DEF EvidenceNodes
  <2>4. pc' = Here => \A f \in jobs' : \E g \in groups' : f \in g
    BY <2>1, <2>2, <2>3 DEF EvidenceFits
  <2>. QED  BY <1>2, <1>3, <2>1, <2>4
<1>. QED  BY <1>4, <1>5

(***************************************************************************)
(* What the inventory and the evidence stage validate at their ends.       *)
(***************************************************************************)

\* A step of the inventory stage: no document is lost, and none is of a file that
\* is not registered.
LEMMA DocumentsKept ==
    ASSUME FilesFit, RecordsFit, InventoryNext
    PROVE  /\ pc' \in {"load_next_parse_job"} \cup ParsingNodes => queue' \in Seq(Originals')
           /\ pc' = "load_next_parse_job" => queue' # <<>>
           /\ pc' \in ParsingNodes => current' \in Originals'
           /\ InventoryIsValid'
<1>0. UNCHANGED <<input, File>> /\ input \in Inputs /\ files \in [File -> Status] /\ InventoryIsValid
      /\ (UNCHANGED duplicate => UNCHANGED Originals)
  BY InventoryMoves DEF File, FilesFit, RecordsFit, Originals
<1>. DEFINE Keeps == /\ pc' \in {"load_next_parse_job"} \cup ParsingNodes => queue' \in Seq(Originals')
                     /\ pc' = "load_next_parse_job" => queue' # <<>>
                     /\ pc' \in ParsingNodes => current' \in Originals'
                     /\ InventoryIsValid'
\* The documents stay and only files without one are no longer parsed.
<1>1. ASSUME documents' = documents, files' \in [File -> Status],
             \A f \in File : files'[f] = "parsed" => files[f] = "parsed",
             \A f \in File : files[f] # "unregistered" => files'[f] # "unregistered"
      PROVE  InventoryIsValid'
  BY <1>0, <1>1 DEF InventoryIsValid, Registered
<1>2. ASSUME UNCHANGED <<files, documents>> PROVE InventoryIsValid'
  BY <1>0, <1>2 DEF InventoryIsValid, Registered
<1>3. CASE RegisterFileMetadata
  <2>1. PICK lost \in SUBSET input.unreadable :
            files' = [f \in File |-> IF f \in lost THEN files[f] ELSE "pending"]
    BY <1>3 DEF RegisterFileMetadata
  <2>2. InventoryIsValid'
    BY <1>0, <1>1, <1>3, <2>1 DEF RegisterFileMetadata, Status
  <2>. QED  BY <1>0, <1>3, <2>2 DEF RegisterFileMetadata, ParsingNodes
<1>4. CASE MarkExactDuplicates
  <2>1. PICK copies :
            copies \in SUBSET Registered
            /\ files' = [f \in File |-> IF f \in copies THEN "duplicate" ELSE files[f]]
    BY <1>4 DEF MarkExactDuplicates
  <2>2. InventoryIsValid'
    BY <1>0, <1>1, <1>4, <2>1 DEF MarkExactDuplicates, Status
  <2>. QED  BY <1>0, <1>4, <2>2 DEF MarkExactDuplicates, ParsingNodes
<1>5. CASE BuildParseQueue
  <2>1. InventoryIsValid'
    BY <1>2, <1>5 DEF BuildParseQueue
  <2>. DEFINE open == {f \in File : files[f] = "pending" /\ duplicate[f] = NoFile}
  <2>2. queue' = InOrder(open) /\ open \in SUBSET File
    BY <1>5 DEF BuildParseQueue
  <2>6. open \subseteq Originals /\ UNCHANGED Originals
    BY <1>0, <1>5 DEF BuildParseQueue, Originals
  <2>. HIDE DEF open
  <2>3. queue' \in Seq(open)
    BY <1>0, <2>2, SortedSorts DEF Lists
  <2>4. queue' \in Seq(Originals')
    BY <2>3, <2>6
  <2>5. pc' = NextParseJob(queue')
    BY <1>5 DEF BuildParseQueue
  <2>. QED  BY <2>1, <2>4, <2>5 DEF NextParseJob, ParsingNodes
<1>6. CASE LoadNextParseJob
  <2>1. InventoryIsValid'
    BY <1>2, <1>6 DEF LoadNextParseJob
  <2>2. queue # <<>> /\ queue \in Seq(Originals) /\ UNCHANGED Originals
    BY <1>0, <1>6 DEF LoadNextParseJob, At, RecordsFit
  <2>3. Head(queue) \in Originals /\ Tail(queue) \in Seq(Originals)
    BY <2>2
  <2>. QED  BY <1>6, <2>1, <2>2, <2>3 DEF LoadNextParseJob
<1>7. CASE ExtractAndNormalize
  <2>1. InventoryIsValid' /\ queue' = queue /\ UNCHANGED Originals
    BY <1>0, <1>2, <1>7 DEF ExtractAndNormalize, inventoryVars
  <2>2. current \in Originals /\ queue \in Seq(Originals)
    BY <1>7 DEF ExtractAndNormalize, At, RecordsFit, ParsingNodes
  <2>. QED  BY <1>0, <1>7, <2>1, <2>2 DEF ExtractAndNormalize, inventoryVars
<1>8. ASSUME NEW status \in Status, Finished(status), pc \in ParsingNodes, InventoryIsValid' PROVE Keeps
  <2>1. queue' = queue /\ pc' = NextParseJob(queue) /\ UNCHANGED Originals
    BY <1>0, <1>8 DEF Finished
  <2>2. queue \in Seq(Originals)
    BY <1>8 DEF RecordsFit
  <2>. QED  BY <1>8, <2>1, <2>2 DEF NextParseJob, ParsingNodes
<1>9. CASE RecordDocumentResult
  <2>1. current \in File /\ pc \in ParsingNodes
    BY <1>9 DEF RecordDocumentResult, At, RecordsFit, ParsingNodes, Originals
  <2>2. files' = [files EXCEPT ![current] = "parsed"] /\ documents' = documents \cup {current}
    BY <1>9 DEF RecordDocumentResult, Finished
  <2>3. InventoryIsValid'
    BY <1>0, <2>1, <2>2 DEF InventoryIsValid, Registered
  <2>. QED  BY <1>8, <1>9, <2>1, <2>3 DEF RecordDocumentResult, Status
<1>10. CASE RecordParseError \/ RecordUnsupportedFile
  <2>1. PICK status \in {"failed", "unsupported"} : Finished(status) /\ pc \in ParsingNodes
    BY <1>10 DEF RecordParseError, RecordUnsupportedFile, At, ParsingNodes
  <2>2. files' = [files EXCEPT ![current] = status] /\ documents' = documents
    BY <1>10, <2>1 DEF RecordParseError, RecordUnsupportedFile, Finished
  <2>3. InventoryIsValid'
    BY <1>0, <1>1, <2>2 DEF Status
  <2>. QED  BY <1>8, <2>1, <2>3 DEF Status
<1>11. CASE ValidateInventoryResults \/ EndInventory
  <2>1. UNCHANGED inventoryVars
    BY <1>11 DEF ValidateInventoryResults, EndInventory
  <2>2. InventoryIsValid' /\ queue' = queue
    BY <1>2, <2>1 DEF inventoryVars
  <2>3. pc' # "load_next_parse_job" /\ pc' \notin ParsingNodes
    BY <1>11 DEF ValidateInventoryResults, EndInventory, EndStage, ParsingNodes
  <2>. QED  BY <1>0, <2>2, <2>3
<1>. QED  BY <1>3, <1>4, <1>5, <1>6, <1>7, <1>9, <1>10, <1>11 DEF InventoryNext

\* A step of the evidence stage: a source is in the group of its PDF, and a list
\* of mails is taken as a whole or not at all.
LEMMA SourcesKept ==
    ASSUME FilesFit, GroupsFit, EvidenceFits, RecordsFit, EvidenceNext
    PROVE  SourcesFit'
<1>0. UNCHANGED <<input, files, duplicate, groups, File>> /\ input \in Inputs /\ \A f : UNCHANGED Ext(f)
  BY EvidenceMoves DEF File, Ext, FilesFit, inventoryVars, versionVars
<1>. DEFINE SourceFits(p, b) ==
        b.source # NoFile => /\ \E g \in groups : {p, b.source} \subseteq g
                             /\ Ext(b.source) \in Editable /\ b.score >= 82
<1>2. /\ \A p \in DOMAIN exports : SourceFits(p, exports[p])
      /\ \A d \in deliveries : d.file # NoFile => Grouped(d.file)
  BY DEF RecordsFit, SourcesFit
<1>3. ASSUME UNCHANGED exports \/ \E p, b : exports' = With(exports, p, b) /\ SourceFits(p, b),
             \A d \in deliveries' : d.file # NoFile => Grouped(d.file)
      PROVE  SourcesFit'
  <2>1. \A p \in DOMAIN exports' : SourceFits(p, exports'[p])
    <3>1. CASE UNCHANGED exports
      BY <1>2, <3>1
    <3>2. ASSUME NEW p, NEW b, exports' = With(exports, p, b), SourceFits(p, b)
          PROVE  \A q \in DOMAIN exports' : SourceFits(q, exports'[q])
      <4>1. DOMAIN exports' = DOMAIN exports \cup {p}
            /\ \A q \in DOMAIN exports' : exports'[q] = IF q = p THEN b ELSE exports[q]
        BY <3>2 DEF With
      <4>. HIDE DEF SourceFits
      <4>. QED  BY <1>2, <3>2, <4>1
    <3>. QED  BY <1>3, <3>1, <3>2
  <2>3. (\A p \in DOMAIN exports : SourceFits(p, exports[p]))'
    BY <1>0, <2>1
  <2>4. (\A d \in deliveries : d.file # NoFile => Grouped(d.file))'
    BY <1>0, <1>3 DEF Grouped
  <2>. QED  BY <2>3, <2>4 DEF SourcesFit
<1>4. CASE UNCHANGED <<exports, deliveries>>
  BY <1>2, <1>3, <1>4
<1>5. ASSUME NEW pdf \in File, MatchPdf(pdf) PROVE SourcesFit'
  <2>. DEFINE group == CHOOSE g \in groups : pdf \in g
              some == {f \in group : Ext(f) \in Editable /\ Parsed(f)}
              best == BestSource(pdf, some)
  <2>1. /\ exports' = With(exports, pdf, best) /\ pdf \in jobs
        /\ pc = "match_pdf_to_source_version" /\ UNCHANGED deliveries
    BY <1>5 DEF MatchPdf, At
  <2>2. group \in groups /\ pdf \in group
    BY <2>1 DEF EvidenceFits
  <2>3. group \in SUBSET File
    BY <2>2 DEF GroupsFit
  <2>4. Ext(pdf) \notin Editable
    BY <2>1 DEF EvidenceFits, Editable
  <2>5. some \in SUBSET (File \ {pdf})
    BY <2>3, <2>4
  <2>6. \A f \in some : f \in group /\ Ext(f) \in Editable
    OBVIOUS
  <2>. HIDE DEF some, group
  <2>7. best.source # NoFile => best.source \in some /\ best.score >= 82
    BY <1>0, <2>5, BestSourceFits
  <2>8. SourceFits(pdf, best)
    BY <2>2, <2>6, <2>7
  <2>. HIDE DEF best, SourceFits
  <2>. QED  BY <1>2, <1>3, <2>1, <2>8
<1>6. CASE MatchDeliveryToVersion \/ MatchEmailDeliveryToVersion
  <2>. DEFINE found == {Delivery(m) : m \in mails}
  <2>1. /\ UNCHANGED exports
        /\ \/ (\A d \in found : d.file # NoFile => Grouped(d.file)) /\ deliveries' = deliveries \cup found
           \/ deliveries' = deliveries
    BY <1>6 DEF MatchDeliveryToVersion, MatchEmailDeliveryToVersion, Matched
  <2>. HIDE DEF found
  <2>. QED  BY <1>2, <1>3, <2>1
<1>7. CASE \/ CollectPdfCandidates \/ CreatePdfMatchJobs \/ JoinPdfMatches
           \/ LoadEmailMcpEvidence \/ LoadLocalDeliveryLog
           \/ MergeExternalEvidence \/ ValidateEvidenceConfidence \/ EndEvidence
           \/ DispatchEvidenceSubagentTask \/ EndEvidenceDispatch
  BY <1>4, <1>7 DEF CollectPdfCandidates, CreatePdfMatchJobs, JoinPdfMatches, LoadEmailMcpEvidence,
       LoadLocalDeliveryLog, MergeExternalEvidence, ValidateEvidenceConfidence, EndEvidence,
       DispatchEvidenceSubagentTask, EndEvidenceDispatch, evidenceVars
<1>. QED  BY <1>5, <1>6, <1>7 DEF EvidenceNext

\* The other stages leave these records alone; new groups are formed before there
\* is any evidence.
LEMMA RecordsKept ==
    ASSUME FilesFit, GroupsFit, EvidenceFits, RecordsFit, [Next]_analysisVars
    PROVE  RecordsFit'
<1>0. UNCHANGED <<input, File>> /\ input \in Inputs /\ \A f : UNCHANGED Ext(f)
  BY StagesMove DEF File, Ext, FilesFit
<1>1. UNCHANGED inventoryVars => UNCHANGED <<InventoryIsValid, queue, current, Originals>>
  BY <1>0 DEF InventoryIsValid, Registered, inventoryVars, Originals
<1>2. {"load_next_parse_job"} \cup ParsingNodes \subseteq InventoryNodes
  BY DEF ParsingNodes, InventoryNodes
<1>3. UNCHANGED <<exports, deliveries, groups>> => UNCHANGED SourcesFit
  BY <1>0 DEF SourcesFit, Grouped
<1>4. CASE UNCHANGED analysisVars
  <2>1. UNCHANGED <<inventoryVars, exports, deliveries, groups, pc>>
    BY <1>4 DEF analysisVars, inventoryVars, versionVars, evidenceVars
  <2>. QED  BY <1>0, <1>1, <1>3, <2>1 DEF RecordsFit
<1>5. CASE InventoryNext /\ UNCHANGED <<versionVars, evidenceVars>> /\ pc \in InventoryNodes
  <2>1. UNCHANGED <<exports, deliveries, groups>>
    BY <1>5 DEF versionVars, evidenceVars
  <2>. QED  BY <1>0, <1>3, <1>5, <2>1, DocumentsKept DEF RecordsFit
<1>6. CASE /\ VersionNext /\ UNCHANGED <<inventoryVars, evidenceVars>> /\ pc \in VersionNodes
           /\ pc' \in VersionNodes \cup {"collect_pdf_candidates", "stopped"}
  <2>1. exports' = <<>> /\ deliveries' = {}
    BY <1>6 DEF RecordsFit, evidenceVars
  <2>4. SourcesFit'
    <3>1. DOMAIN exports' = {}
      BY <2>1
    <3>. QED  BY <2>1, <3>1 DEF SourcesFit
  <2>5. pc' \notin InventoryNodes
    BY <1>6, NodesApart
  <2>. QED  BY <1>0, <1>1, <1>2, <1>6, <2>1, <2>4, <2>5 DEF RecordsFit
<1>7. CASE /\ EvidenceNext /\ UNCHANGED <<inventoryVars, versionVars>>
           /\ pc' \in EvidenceNodes \cup {"find_editable_leaf_versions", "stopped"}
  <2>1. pc' \notin InventoryNodes \cup VersionNodes
    BY <1>7, NodesApart
  <2>2. SourcesFit'
    BY <1>7, SourcesKept
  <2>. QED  BY <1>0, <1>1, <1>2, <1>7, <2>1, <2>2 DEF RecordsFit
<1>8. CASE /\ RecommendationNext /\ UNCHANGED <<inventoryVars, versionVars, evidenceVars>>
           /\ pc' \in FoundNodes \cup {"stopped"}
  <2>1. pc' \notin InventoryNodes \cup VersionNodes
    BY <1>8, NodesApart
  <2>2. UNCHANGED <<exports, deliveries, groups>>
    BY <1>8 DEF versionVars, evidenceVars
  <2>. QED  BY <1>0, <1>1, <1>2, <1>3, <1>8, <2>1, <2>2 DEF RecordsFit
<1>. QED  BY <1>4, <1>5, <1>6, <1>7, <1>8, StagesMove

(***************************************************************************)
(* The recommendation stage: scores stay within 0..Whole, and the best     *)
(* file that still competes is the one that is chosen.                     *)
(***************************************************************************)

\* A capped score is within bounds.
LEMMA CappedFits == \A x \in Int : Capped(x) \in 0..Whole /\ (x >= 0 /\ x <= Whole => Capped(x) = x)
BY DEF Capped, Whole

\* The score a candidate starts with.
LEMMA BaseScoreFits ==
    ASSUME NEW g, NEW f
    PROVE  BaseScore(g, f) \in 0..Whole
<1>. DEFINE when(condition, points) == IF condition THEN points ELSE 0
            leaf == when(f \in chains[g].leaves, 3500)
            editable == when(input.meta[f].ext \in Editable, 1800)
            newest == when(\A h \in candidates[g] : input.meta[h].modified <= input.meta[f].modified, 1800)
            confirmed == when(input.meta[f].phase = 3, 1400)
            final == when(input.meta[f].phase = 2, 800)
            complete == when(chains[g].complete, 500)
            exported == when(input.meta[f].ext = "pdf" /\ \E h \in candidates[g] : Ext(h) \in Editable, 1000)
            total == 1500 + leaf + editable + newest + confirmed + final + complete - exported
<1>1. BaseScore(g, f) = IF candidates[g] = {f} THEN Whole ELSE Capped(total)
  BY DEF BaseScore
<1>2. leaf \in Int /\ editable \in Int /\ newest \in Int /\ confirmed \in Int /\ final \in Int
      /\ complete \in Int /\ exported \in Int
  OBVIOUS
<1>. HIDE DEF leaf, editable, newest, confirmed, final, complete, exported
<1>3. total \in Int
  BY <1>2
<1>. HIDE DEF total
<1>4. Capped(total) \in 0..Whole
  BY <1>3, CappedFits
<1>5. Whole \in 0..Whole
  BY DEF Whole
<1>. QED  BY <1>1, <1>4, <1>5

\* The sums that the rules add to a score are integers: they are over finite sets.
LEMMA DeliverySum ==
    ASSUME EvidenceFits, NEW f
    PROVE  SumFunction([d \in {e \in deliveries : e.file = f} |->
                            (IF d.confirmed THEN 18 ELSE 10) * d.confidence]) \in Int
<1>. DEFINE S == {e \in deliveries : e.file = f}
            w == [d \in S |-> (IF d.confirmed THEN 18 ELSE 10) * d.confidence]
<1>1. IsFiniteSet(S)
  BY FS_Subset DEF EvidenceFits
<1>2. ASSUME NEW d \in S PROVE (IF d.confirmed THEN 18 ELSE 10) * d.confidence \in Int
  <2>1. d.confidence \in Int
    BY DEF EvidenceFits
  <2>2. 18 * d.confidence \in Int /\ 10 * d.confidence \in Int
    BY <2>1
  <2>. QED  BY <2>2
<1>3. w \in [S -> Int]
  BY <1>2
<1>. HIDE DEF S, w
<1>4. SumFunction(w) \in Int
  BY <1>1, <1>3, SumIsInteger
<1>. QED  BY <1>4 DEF w, S

\* The points for the exports of a file.
LEMMA ExportSum ==
    ASSUME FilesFit, EvidenceFits, NEW f
    PROVE  SumFunction([p \in {q \in DOMAIN exports : exports[q].source = f} |->
                            10 * exports[p].confidence]) \in Int
<1>. DEFINE S == {q \in DOMAIN exports : exports[q].source = f}
            w == [p \in S |-> 10 * exports[p].confidence]
<1>1. IsFiniteSet(S)
  <2>1. S \in SUBSET File
    BY DEF EvidenceFits
  <2>. HIDE DEF S
  <2>. QED  BY <2>1, FilesAreFinite, FS_Subset DEF FilesFit
<1>2. w \in [S -> Int]
  BY DEF EvidenceFits
<1>. HIDE DEF S, w
<1>3. SumFunction(w) \in Int
  BY <1>1, <1>2, SumIsInteger
<1>. QED  BY <1>3 DEF w, S

\* The evidence of the mails is finite: a mail says at most one thing of each type
\* about a file.
LEMMA BusinessIsFinite ==
    ASSUME EvidenceFits
    PROVE  IsFiniteSet(business) /\ \A b \in business : b.confidence = 90
<1>. DEFINE r == [p \in BusinessType \X deliveries |->
                    [type |-> p[1], file |-> p[2].file, mail |-> p[2].mail, confidence |-> 90]]
            S == BusinessType \X deliveries
<1>1. IsFiniteSet(BusinessType)
  <2>1. BusinessType = {"approved", "rejected"} \cup ({"superseded", "for_reference_only"}
                        \cup ({"requires_revision", "final_version"} \cup {"ambiguous"}))
    BY DEF BusinessType
  <2>2. ASSUME NEW a, NEW b PROVE IsFiniteSet({a, b}) /\ IsFiniteSet({a})
    <3>1. {a, b} = {a} \cup {b}
      OBVIOUS
    <3>2. IsFiniteSet({a}) /\ IsFiniteSet({b})
      BY FS_Singleton
    <3>3. IsFiniteSet({a} \cup {b})
      BY <3>2, FS_Union
    <3>. QED  BY <3>1, <3>2, <3>3
  <2>. QED  BY <2>1, <2>2, FS_Union
<1>2. IsFiniteSet(S)
  BY <1>1, FS_Product DEF EvidenceFits
<1>3. business \in SUBSET {r[p] : p \in S}
  <2>. SUFFICES ASSUME NEW b \in business PROVE b \in {r[p] : p \in S}
    OBVIOUS
  <2>1. PICK t \in BusinessType, d \in deliveries :
            b = [type |-> t, file |-> d.file, mail |-> d.mail, confidence |-> 90]
    BY DEF EvidenceFits
  <2>2. <<t, d>> \in S /\ r[<<t, d>>] = b
    BY <2>1
  <2>. HIDE DEF r, S
  <2>. QED  BY <2>2
<1>4. \A b \in business : b.confidence = 90
  BY DEF EvidenceFits
<1>. HIDE DEF r, S
<1>5. IsFiniteSet({r[p] : p \in S})
  BY <1>2, Images
<1>. QED  BY <1>3, <1>4, <1>5, FS_Subset

\* The score after the evidence of the mails; excluded files get 0.
LEMMA BusinessScoreFits ==
    ASSUME EvidenceFits, NEW g, NEW f, decisions[g].scores[f] \in Int
    PROVE  BusinessScore(g, f) \in Int /\ (f \in ExcludedFrom(g) => BusinessScore(g, f) = 0)
<1>. DEFINE counted == {b \in business : b.file = f /\ b.type \in Positive
                        /\ ~(b.type = "approved" /\ \E d \in deliveries :
                                d.file = f /\ d.confirmed /\ d.mail = b.mail)}
            w == [b \in counted |-> (IF b.type = "approved" THEN 18 ELSE 14) * b.confidence]
<1>1. BusinessScore(g, f) = IF f \in ExcludedFrom(g) THEN 0 ELSE decisions[g].scores[f] + SumFunction(w)
  BY DEF BusinessScore
<1>2. IsFiniteSet(counted)
  BY BusinessIsFinite, FS_Subset
<1>3. w \in [counted -> Int]
  BY BusinessIsFinite
<1>. HIDE DEF counted, w
<1>4. SumFunction(w) \in Int
  BY <1>2, <1>3, SumIsInteger
<1>. QED  BY <1>1, <1>4

(***************************************************************************)
(* What the nodes of the stage make of a decision.                         *)
(***************************************************************************)
\* A rule that changes scores changes nothing else of a decision.
LEMMA RescoredFits ==
    ASSUME NEW g, NEW d \in Decision(g), NEW w \in [candidates[g] -> Int], NEW e,
           e = [d EXCEPT !.scores = [f \in DOMAIN @ |-> Capped(w[f])]]
    PROVE  /\ e \in Decision(g) /\ e.review = d.review /\ e.recommended = d.recommended
           /\ \A f \in candidates[g] : e.scores[f] = Capped(w[f])
<1>1. DOMAIN d.scores = candidates[g]
  BY DEF Decision
<1>2. [f \in candidates[g] |-> Capped(w[f])] \in [candidates[g] -> 0..Whole]
  BY CappedFits
<1>3. e = [d EXCEPT !.scores = [f \in candidates[g] |-> Capped(w[f])]]
  BY <1>1
<1>. DEFINE s == [f \in candidates[g] |-> Capped(w[f])]
<1>4. s \in [candidates[g] -> 0..Whole] /\ e = [d EXCEPT !.scores = s] /\ \A f \in candidates[g] : s[f] = Capped(w[f])
  BY <1>2, <1>3
<1>. HIDE DEF s
<1>. QED  BY <1>4 DEF Decision

\* Margin and Clarity are defined and within bounds once a file is recommended.
LEMMA MarginFits ==
    ASSUME FilesFit, NEW g, candidates[g] \in SUBSET File, NEW d \in Decision(g), d.recommended \in candidates[g]
    PROVE  Margin(d) \in Int /\ Clarity(g, d) \in 0..Whole
<1>. DEFINE rest == DOMAIN d.scores \ {d.recommended}
            others == {d.scores[f] : f \in rest}
<1>0. 0..Whole \subseteq Int /\ Whole \in Int
  BY DEF Whole
<1>1. DOMAIN d.scores = candidates[g] /\ \A f \in candidates[g] : d.scores[f] \in Int
  <2>1. d.scores \in [candidates[g] -> 0..Whole]
    BY DEF Decision
  <2>. QED  BY <2>1, <1>0
<1>2. Margin(d) = IF rest = {} THEN Whole ELSE d.scores[d.recommended] - Max(others)
  BY DEF Margin
<1>3. IsFiniteSet(rest)
  BY <1>1, SortedSorts DEF FilesFit
<1>4. IsFiniteSet(others)
  BY <1>3, Images
<1>5. others \in SUBSET Int /\ (rest # {} => others # {})
  BY <1>1
<1>. HIDE DEF others
<1>6. rest # {} => Max(others) \in Int
  BY <1>4, <1>5, GreatestExists
<1>7. Margin(d) \in Int
  <2>1. d.scores[d.recommended] \in Int
    BY <1>1
  <2>. HIDE DEF rest
  <2>2. CASE rest = {}
    BY <2>2, <1>0, <1>2
  <2>3. CASE rest # {}
    BY <2>1, <2>3, <1>2, <1>6
  <2>. QED  BY <2>2, <2>3
<1>. DEFINE lead == IF Margin(d) > 0 THEN Least(4 * Margin(d), Whole) ELSE 0
            alone == Cardinality(DOMAIN d.scores) = 1
            base == IF alone THEN Whole ELSE (65 * d.scores[d.recommended] + 35 * lead) \div 100
            chain == IF chains[g].complete THEN 0 ELSE 1500
            forks == IF BranchesOf(g) = {} THEN 0 ELSE 2500
<1>8. Clarity(g, d) = Capped(base - chain - forks)
  BY DEF Clarity
<1>9. chain \in Int /\ forks \in Int /\ lead \in Int
  BY <1>7 DEF Least, Whole
<1>. HIDE DEF chain, forks, lead, alone
<1>10. base \in Int
  <2>1. d.scores[d.recommended] \in Int
    BY <1>1
  <2>2. \A a, b \in Int : (65 * a + 35 * b) \div 100 \in Int
    OBVIOUS
  <2>. QED  BY <1>0, <1>9, <2>1, <2>2
<1>. HIDE DEF base
<1>11. base - chain - forks \in Int
  BY <1>9, <1>10
<1>. QED  BY <1>7, <1>8, <1>11, CappedFits

\* select_recommended_file chooses a file that still competes, if there is one.
LEMMA SelectedFits ==
    ASSUME FilesFit, NEW g, candidates[g] \in SUBSET File, decisions[g] \in Decision(g)
    PROVE  IF candidates[g] \subseteq ExcludedFrom(g) THEN SelectRecommendedFile(g) = NoFile
           ELSE SelectRecommendedFile(g) \in candidates[g] \ ExcludedFrom(g)
<1>. DEFINE eligible == candidates[g] \ ExcludedFrom(g)
            score(f) == decisions[g].scores[f]
            beats(f, h) == \/ score(f) > score(h)
                           \/ score(f) = score(h) /\ (f = h \/ ~Older(f, h))
            R == {p \in eligible \X eligible : p[1] # p[2] /\ beats(p[1], p[2])}
<1>1. SelectRecommendedFile(g) =
        IF eligible = {} THEN NoFile ELSE CHOOSE f \in eligible : \A h \in eligible : beats(f, h)
  BY DEF SelectRecommendedFile
<1>2. \A f \in eligible : f \in File /\ score(f) \in Int
  <2>1. decisions[g].scores \in [candidates[g] -> 0..Whole]
    BY DEF Decision
  <2>2. 0..Whole \subseteq Int
    BY DEF Whole
  <2>. QED  BY <2>1, <2>2
<1>3. /\ \A f, h, k \in File : Older(f, h) /\ Older(h, k) => Older(f, k)
      /\ \A f, h \in File : Older(f, h) \/ Older(h, f)
      /\ \A f, h \in File : Older(f, h) /\ Older(h, f) => f = h
  BY OlderIsTotal DEF FilesFit
<1>. HIDE DEF eligible, score
<1>4. \A x, y : <<x, y>> \in R <=> x \in eligible /\ y \in eligible /\ x # y /\ beats(x, y)
  OBVIOUS
<1>5. Orders(R, eligible)
  <2>. HIDE DEF R
  <2>. QED  BY <1>2, <1>3, <1>4 DEF Orders
<1>6. eligible # {} => \E f \in eligible : \A h \in eligible : beats(f, h)
  <2>. SUFFICES ASSUME eligible # {} PROVE \E f \in eligible : \A h \in eligible : beats(f, h)
    OBVIOUS
  <2>1. IsFiniteSet(eligible)
    BY SortedSorts DEF eligible, FilesFit
  <2>. HIDE DEF R
  <2>2. PICK f \in eligible : \A h \in eligible : h = f \/ <<f, h>> \in R
    BY <1>5, <2>1, LeastExists
  <2>3. ASSUME NEW h \in eligible PROVE beats(f, h)
    <3>1. CASE h = f
      BY <3>1
    <3>2. CASE <<f, h>> \in R
      BY <1>4, <3>2
    <3>. QED  BY <2>2, <3>1, <3>2
  <2>. HIDE DEF beats
  <2>. QED  BY <2>3
<1>. HIDE DEF beats
<1>. QED  BY <1>1, <1>6 DEF eligible

(***************************************************************************)
(* Decisions: the confidence of a choice and the opinion of the Judge.     *)
(***************************************************************************)

\* calculate_decision_confidence settles a group only when its chain is complete
\* and has no branches.
LEMMA ConfidenceFits ==
    ASSUME FilesFit, NEW g, candidates[g] \in SUBSET File, NEW d \in Decision(g),
           d.recommended = NoFile \/ d.recommended \in candidates[g], NEW e, e = DecisionConfidence(g, d)
    PROVE  /\ e \in Decision(g) /\ e.scores = d.scores /\ e.recommended = d.recommended
           /\ e.by = (IF e.review THEN "unresolved" ELSE "rule")
           /\ e.by = "rule" => chains[g].complete /\ BranchesOf(g) = {} /\ e.recommended # NoFile
<1>1. CASE d.recommended = NoFile
  <2>1. e = [d EXCEPT !.confidence = 0, !.review = TRUE, !.by = "unresolved"]
    BY <1>1 DEF DecisionConfidence
  <2>2. 0 \in 0..Whole
    BY DEF Whole
  <2>. QED  BY <2>1, <2>2 DEF Decision
<1>2. CASE d.recommended # NoFile
  <2>. DEFINE clarity == Clarity(g, d)
              review == \/ BranchesOf(g) # {} \/ ~chains[g].complete
                        \/ Margin(d) < 800 \/ clarity < Threshold
  <2>1. e = [d EXCEPT !.confidence = clarity, !.review = review, !.by = IF review THEN "unresolved" ELSE "rule"]
    BY <1>2 DEF DecisionConfidence
  <2>2. clarity \in 0..Whole
    BY <1>2, MarginFits
  <2>3. ~review => chains[g].complete /\ BranchesOf(g) = {}
    OBVIOUS
  <2>4. review \in BOOLEAN
    OBVIOUS
  <2>. HIDE DEF clarity, review
  <2>. QED  BY <1>2, <2>1, <2>2, <2>3, <2>4 DEF Decision
<1>. QED  BY <1>1, <1>2

\* Opening a group changes who has decided it, and nothing else.
LEMMA OpenFits ==
    ASSUME NEW g, NEW d \in Decision(g)
    PROVE  /\ Open(d) \in Decision(g) /\ Open(d).scores = d.scores /\ Open(d).recommended = d.recommended
           /\ Open(d).preserve = d.preserve /\ Open(d).review /\ Open(d).by = "unresolved"
BY DEF Open, Decision

\* The Judge may boost a file that still competes, choose another one that
\* still competes or open the group, and nothing else.
LEMMA JudgmentFits ==
    ASSUME FilesFit, NEW g, candidates[g] \in SUBSET File, NEW node \in JudgeNodes,
           NEW d, DecisionFits(g, d, node), NEW opinion \in Opinions(g), NEW e, e = FuseJudgment(d, opinion)
    PROVE  (\A other \in JudgeNodes : DecisionFits(g, e, other)) /\ (d.review => e.review)
<1>. DEFINE x == opinion.file
            boosted == [d.scores EXCEPT ![x] = Capped(@ + 4 * opinion.confidence)]
            top(f, h) == boosted[f] > boosted[h] \/ (boosted[f] = boosted[h] /\ f <= h)
            first == CHOOSE f \in DOMAIN boosted : \A h \in DOMAIN boosted : top(f, h)
<1>1. JudgeNodes \subseteq RatedNodes /\ JudgeNodes \subseteq ChosenNodes /\ JudgeNodes \subseteq WeighedNodes
      /\ JudgeNodes \subseteq SemanticNodes /\ JudgeNodes \subseteq ReviewedNodes /\ JudgeNodes \subseteq PreservedNodes
  BY NodesApart
<1>2. /\ d \in Decision(g)
      /\ \A f \in candidates[g] \cap ExcludedFrom(g) : d.scores[f] = 0
      /\ IF candidates[g] \subseteq ExcludedFrom(g) THEN d.recommended = NoFile
         ELSE d.recommended \in candidates[g] \ ExcludedFrom(g)
      /\ d.by = (IF d.review THEN "unresolved" ELSE "rule")
      /\ d.by = "rule" => chains[g].complete /\ BranchesOf(g) = {} /\ d.recommended # NoFile
                            /\ ~SemanticReview(g) /\ ~BusinessReview(g)
      /\ d.preserve = g
  BY <1>1 DEF DecisionFits
\* What is left to be shown.
<1>3. ASSUME e \in Decision(g), \A f \in candidates[g] \cap ExcludedFrom(g) : e.scores[f] = 0,
             e.recommended = d.recommended \/ e.recommended \in candidates[g] \ ExcludedFrom(g),
             (e.by = d.by /\ e.review = d.review /\ e.recommended = d.recommended)
                \/ (e.review /\ e.by = "unresolved"),
             e.preserve = d.preserve
      PROVE  (\A other \in JudgeNodes : DecisionFits(g, e, other)) /\ (d.review => e.review)
  <2>1. IF candidates[g] \subseteq ExcludedFrom(g) THEN e.recommended = NoFile
        ELSE e.recommended \in candidates[g] \ ExcludedFrom(g)
    BY <1>2, <1>3
  <2>. QED  BY <1>2, <1>3, <2>1 DEF DecisionFits
<1>4. CASE e = d
  BY <1>2, <1>3, <1>4
<1>5. CASE e = Open(d)
  <2>1. /\ e \in Decision(g) /\ e.scores = d.scores /\ e.recommended = d.recommended
        /\ e.preserve = d.preserve /\ e.review /\ e.by = "unresolved"
    BY <1>2, <1>5, OpenFits
  <2>. QED  BY <1>2, <1>3, <2>1
<1>6. CASE x # NoFile /\ opinion.confidence >= 80
           /\ (e = [d EXCEPT !.scores = boosted]
                \/ e = [Open(d) EXCEPT !.scores = boosted, !.recommended = first])
  <2>1. x \in candidates[g] \ ExcludedFrom(g) /\ opinion.confidence \in 0..100 /\ IsFiniteSet(candidates[g])
        /\ candidates[g] \in SUBSET Nat
    BY <1>6, OpinionsAssumption, SortedSorts, FilesAreFinite DEF Opinions, FilesFit
  <2>2. d.scores \in [candidates[g] -> 0..Whole]
    BY <1>2 DEF Decision
  <2>3. d.scores[x] + 4 * opinion.confidence \in Int /\ d.scores[x] + 4 * opinion.confidence > 0
    <3>0. 0..Whole \subseteq Nat
      BY DEF Whole
    <3>1. d.scores[x] \in Nat
      BY <3>0, <2>1, <2>2
    <3>2. opinion.confidence \in Int
      BY <2>1
    <3>. QED  BY <1>6, <3>1, <3>2
  <2>4. boosted \in [candidates[g] -> 0..Whole] /\ boosted[x] > 0
        /\ \A f \in candidates[g] : f # x => boosted[f] = d.scores[f]
    <3>1. boosted[x] = Capped(d.scores[x] + 4 * opinion.confidence)
      BY <2>1, <2>2
    <3>2. Capped(d.scores[x] + 4 * opinion.confidence) \in 0..Whole
      BY <2>3, CappedFits
    <3>3. Capped(d.scores[x] + 4 * opinion.confidence) > 0
      BY <2>3 DEF Capped, Whole
    <3>. QED  BY <2>1, <2>2, <3>1, <3>2, <3>3
  <2>5. \A f \in candidates[g] \cap ExcludedFrom(g) : boosted[f] = 0
    BY <1>2, <2>1, <2>4
  <2>. HIDE DEF boosted
  <2>6. first \in candidates[g] \ ExcludedFrom(g)
    <3>. DEFINE S == candidates[g]
                R == {p \in S \X S : p[1] # p[2] /\ top(p[1], p[2])}
    <3>0. 0..Whole \subseteq Int
      BY DEF Whole
    <3>1. \A f \in S : boosted[f] \in Int /\ f \in Int
      BY <3>0, <2>1, <2>4
    <3>2. \A a, b : <<a, b>> \in R <=> a \in S /\ b \in S /\ a # b /\ top(a, b)
      OBVIOUS
    <3>3. Orders(R, S)
      <4>. HIDE DEF R, S
      <4>. QED  BY <3>1, <3>2 DEF Orders
    <3>4. S # {} /\ IsFiniteSet(S) /\ x \in S /\ DOMAIN boosted = S
      BY <2>1, <2>4
    <3>5. PICK f \in S : \A h \in S : h = f \/ <<f, h>> \in R
      <4>. HIDE DEF R, S
      <4>. QED  BY <3>3, <3>4, LeastExists
    <3>6. ASSUME NEW h \in S PROVE top(f, h)
      <4>1. CASE h = f
        BY <3>1, <4>1
      <4>2. CASE <<f, h>> \in R
        BY <3>2, <4>2
      <4>. QED  BY <3>5, <4>1, <4>2
    <3>. HIDE DEF top
    <3>7. first \in S /\ \A h \in S : top(first, h)
      BY <3>4, <3>6
    <3>. HIDE DEF first
    <3>8. boosted[first] > 0
      BY <2>4, <3>1, <3>4, <3>7 DEF top
    <3>9. first \notin ExcludedFrom(g)
      <4>1. first \in ExcludedFrom(g) => boosted[first] = 0
        BY <2>5, <3>7
      <4>. QED  BY <3>8, <4>1
    <3>. QED  BY <3>7, <3>9
  <2>. HIDE DEF first
  <2>7. CASE e = [d EXCEPT !.scores = boosted]
    <3>1. /\ e \in Decision(g) /\ e.scores = boosted /\ e.recommended = d.recommended /\ e.by = d.by
          /\ e.review = d.review /\ e.preserve = d.preserve
      BY <1>2, <2>4, <2>7 DEF Decision
    <3>. QED  BY <1>3, <2>5, <3>1
  <2>8. CASE e = [Open(d) EXCEPT !.scores = boosted, !.recommended = first]
    <3>1. Open(d) \in Decision(g) /\ Open(d).preserve = d.preserve /\ Open(d).review /\ Open(d).by = "unresolved"
      BY <1>2, OpenFits
    <3>2. first \in File \cup {NoFile}
      BY <2>6
    <3>3. /\ e \in Decision(g) /\ e.scores = boosted /\ e.recommended = first /\ e.by = "unresolved"
          /\ e.review /\ e.preserve = d.preserve
      BY <2>4, <2>8, <3>1, <3>2 DEF Decision
    <3>. QED  BY <1>3, <2>5, <2>6, <3>3
  <2>. QED  BY <1>6, <2>7, <2>8
<1>7. \/ e = d \/ e = Open(d)
      \/ x # NoFile /\ opinion.confidence >= 80
           /\ (e = [d EXCEPT !.scores = boosted]
                \/ e = [Open(d) EXCEPT !.scores = boosted, !.recommended = first])
  BY DEF FuseJudgment
<1>. QED  BY <1>4, <1>5, <1>6, <1>7

(***************************************************************************)
(* One node of the recommendation stage after the other.                   *)
(***************************************************************************)

\* The candidates of a group are its files that are no copies.
LEMMA CandidatesAreFiles ==
    ASSUME GroupsFit, DecisionsFit, pc \in FoundNodes, NEW g \in groups
    PROVE  candidates[g] \in SUBSET File /\ candidates[g] = g \cap Originals
BY DEF DecisionsFit, Originals

\* A decision that fits at a node fits at the next one when it changes as the
\* node says.
LEMMA RevisionFits ==
    ASSUME FilesFit, GroupsFit, EvidenceFits, DecisionsFit, NEW g \in groups,
           NEW node, pc \in ScoredNodes, pc' = node, DOMAIN decisions = groups,
           \/ ApplyDeliveryRules \/ ApplyPdfSourceRules \/ ApplyBusinessEvidenceRules
           \/ SelectMainVersions \/ CalculateDecisionConfidence \/ ApplySemanticReviewRules
           \/ ApplyBusinessEvidenceReviewRules \/ PreserveCompleteVersionChains,
           NEW d, d = decisions[g], NEW e, e = decisions'[g]
    PROVE  /\ DecisionFits(g, e, node)
           /\ d.review => e.review \/ pc = "calculate_decision_confidence"
<1>. DEFINE cand == candidates[g]
<1>1. pc \in FoundNodes /\ DecisionFits(g, d, pc) /\ d \in Decision(g)
  BY NodesApart DEF DecisionsFit, DecisionFits
<1>2. cand \in SUBSET File
  BY <1>1, CandidatesAreFiles
<1>3. DOMAIN d.scores = cand /\ \A f \in cand : d.scores[f] \in Int
  <2>1. d.scores \in [cand -> 0..Whole]
    BY <1>1 DEF Decision
  <2>2. 0..Whole \subseteq Int
    BY DEF Whole
  <2>. QED  BY <2>1, <2>2
<1>4. CASE ApplyDeliveryRules
  <2>. DEFINE w == [f \in cand |-> d.scores[f]
                        + SumFunction([x \in {y \in deliveries : y.file = f} |->
                                            (IF x.confirmed THEN 18 ELSE 10) * x.confidence])]
  <2>1. e = [d EXCEPT !.scores = [f \in DOMAIN @ |-> Capped(d.scores[f]
                        + SumFunction([x \in {y \in deliveries : y.file = f} |->
                                            (IF x.confirmed THEN 18 ELSE 10) * x.confidence]))]]
        /\ node = "apply_pdf_source_rules"
    BY <1>4 DEF ApplyDeliveryRules, Revise, Rescored, Step
  <2>2. e = [d EXCEPT !.scores = [f \in DOMAIN @ |-> Capped(w[f])]]
    BY <2>1, <1>3
  <2>3. w \in [cand -> Int]
    <3>. DEFINE sum(f) == SumFunction([x \in {y \in deliveries : y.file = f} |->
                                            (IF x.confirmed THEN 18 ELSE 10) * x.confidence])
    <3>1. \A f : sum(f) \in Int
      BY DeliverySum
    <3>2. w = [f \in cand |-> d.scores[f] + sum(f)]
      OBVIOUS
    <3>. HIDE DEF sum, w
    <3>. QED  BY <1>3, <3>1, <3>2
  <2>. HIDE DEF w
  <2>4. e \in Decision(g) /\ e.review = d.review
    BY <1>1, <2>2, <2>3, RescoredFits
  <2>. QED  BY <2>1, <2>4 DEF DecisionFits, RatedNodes, ChosenNodes, WeighedNodes, SemanticNodes,
                ReviewedNodes, PreservedNodes, MarkedNodes, JudgeNodes
<1>5. CASE ApplyPdfSourceRules
  <2>. DEFINE gain(f) == SumFunction([p \in {q \in DOMAIN exports : exports[q].source = f} |->
                                        10 * exports[p].confidence])
              loss(f) == IF f \in DOMAIN exports /\ exports[f].source # NoFile
                         THEN 6 * exports[f].confidence ELSE 0
              w == [f \in cand |-> d.scores[f] + gain(f) - loss(f)]
  <2>1. e = [d EXCEPT !.scores = [f \in DOMAIN @ |-> Capped(d.scores[f] + gain(f) - loss(f))]]
        /\ node = "apply_business_evidence_rules"
    BY <1>5 DEF ApplyPdfSourceRules, Revise, Rescored, Step
  <2>2. \A f : gain(f) \in Int /\ loss(f) \in Int
    <3>1. \A f : gain(f) \in Int
      BY ExportSum
    <3>2. \A f : loss(f) \in Int
      BY DEF EvidenceFits
    <3>. QED  BY <3>1, <3>2
  <2>. HIDE DEF gain, loss
  <2>3. e = [d EXCEPT !.scores = [f \in DOMAIN @ |-> Capped(w[f])]]
    BY <2>1, <1>3
  <2>4. w \in [cand -> Int]
    BY <1>3, <2>2
  <2>. HIDE DEF w
  <2>5. e \in Decision(g) /\ e.review = d.review
    BY <1>1, <2>3, <2>4, RescoredFits
  <2>. QED  BY <2>1, <2>5 DEF DecisionFits, RatedNodes, ChosenNodes, WeighedNodes, SemanticNodes,
                ReviewedNodes, PreservedNodes, MarkedNodes, JudgeNodes
<1>6. CASE ApplyBusinessEvidenceRules
  <2>. DEFINE w == [f \in cand |-> BusinessScore(g, f)]
  <2>1. e = [d EXCEPT !.scores = [f \in DOMAIN @ |-> Capped(BusinessScore(g, f))]]
        /\ node = "select_main_versions"
    BY <1>6 DEF ApplyBusinessEvidenceRules, Revise, Rescored, Step
  <2>2. e = [d EXCEPT !.scores = [f \in DOMAIN @ |-> Capped(w[f])]]
    BY <2>1, <1>3
  <2>3. \A f \in cand : BusinessScore(g, f) \in Int /\ (f \in ExcludedFrom(g) => BusinessScore(g, f) = 0)
    BY <1>3, BusinessScoreFits
  <2>4. w \in [cand -> Int] /\ \A f \in cand \cap ExcludedFrom(g) : w[f] = 0
    BY <2>3
  <2>. HIDE DEF w
  <2>5. e \in Decision(g) /\ e.review = d.review /\ \A f \in cand : e.scores[f] = Capped(w[f])
    <3>1. d \in Decision(g) /\ w \in [candidates[g] -> Int]
      BY <1>1, <2>4
    <3>2. e \in Decision(g) /\ e.review = d.review
      BY <2>2, <3>1, RescoredFits
    <3>3. e.scores = [f \in DOMAIN d.scores |-> Capped(w[f])]
      BY <2>2, <3>1 DEF Decision
    <3>. QED  BY <1>3, <3>2, <3>3
  <2>6. Capped(0) = 0
    BY DEF Capped, Whole
  <2>7. \A f \in cand \cap ExcludedFrom(g) : e.scores[f] = 0
    BY <2>4, <2>5, <2>6
  <2>. QED  BY <2>1, <2>5, <2>7 DEF DecisionFits, ChosenNodes, WeighedNodes, SemanticNodes,
                ReviewedNodes, PreservedNodes, MarkedNodes, JudgeNodes
<1>7. CASE SelectMainVersions
  <2>. DEFINE file == SelectRecommendedFile(g)
  <2>1. e = [d EXCEPT !.recommended = file]
        /\ node = "calculate_decision_confidence" /\ pc = "select_main_versions"
    BY <1>7 DEF SelectMainVersions, Revise, Step, At
  <2>2. IF cand \subseteq ExcludedFrom(g) THEN file = NoFile ELSE file \in cand \ ExcludedFrom(g)
    BY <1>1, <1>2, SelectedFits
  <2>. HIDE DEF file
  <2>3. file \in File \cup {NoFile}
    BY <1>2, <2>2
  <2>4. e \in Decision(g) /\ e.review = d.review /\ e.scores = d.scores /\ e.recommended = file
    BY <1>1, <2>1, <2>3 DEF Decision
  <2>5. pc \in RatedNodes
    BY <2>1 DEF RatedNodes
  <2>6. \A f \in cand \cap ExcludedFrom(g) : d.scores[f] = 0
    BY <1>1, <2>5 DEF DecisionFits
  <2>. QED  BY <2>1, <2>2, <2>4, <2>6 DEF DecisionFits, WeighedNodes, SemanticNodes,
                ReviewedNodes, PreservedNodes, MarkedNodes, JudgeNodes
<1>8. CASE CalculateDecisionConfidence
  <2>1. e = DecisionConfidence(g, d) /\ node = "apply_semantic_review_rules"
        /\ pc = "calculate_decision_confidence"
    BY <1>8 DEF CalculateDecisionConfidence, Revise, Step, At
  <2>2. pc \in RatedNodes /\ pc \in ChosenNodes
    BY <2>1 DEF RatedNodes, ChosenNodes
  <2>3. /\ \A f \in cand \cap ExcludedFrom(g) : d.scores[f] = 0
        /\ IF cand \subseteq ExcludedFrom(g) THEN d.recommended = NoFile
           ELSE d.recommended \in cand \ ExcludedFrom(g)
    BY <1>1, <2>2 DEF DecisionFits
  <2>4. /\ e \in Decision(g) /\ e.scores = d.scores /\ e.recommended = d.recommended
        /\ e.by = (IF e.review THEN "unresolved" ELSE "rule")
        /\ e.by = "rule" => chains[g].complete /\ BranchesOf(g) = {} /\ e.recommended # NoFile
    BY <1>1, <1>2, <2>1, <2>3, ConfidenceFits
  <2>. QED  BY <2>1, <2>3, <2>4 DEF DecisionFits, SemanticNodes,
                ReviewedNodes, PreservedNodes, MarkedNodes, JudgeNodes
\* The nodes that may open a group and change nothing else of it.
<1>9. ASSUME NEW P, pc \in WeighedNodes, e = IF P THEN Open(d) ELSE d
      PROVE  /\ DecisionFits(g, e, pc) /\ (d.review => e.review)
             /\ e.by = "rule" => ~P
  <2>1. pc \in RatedNodes /\ pc \in ChosenNodes
    BY <1>9, NodesApart
  <2>2. /\ \A f \in cand \cap ExcludedFrom(g) : d.scores[f] = 0
        /\ IF cand \subseteq ExcludedFrom(g) THEN d.recommended = NoFile
           ELSE d.recommended \in cand \ ExcludedFrom(g)
        /\ pc \in PreservedNodes => d.preserve = g
    BY <1>1, <2>1 DEF DecisionFits
  <2>3. CASE P
    <3>1. /\ e \in Decision(g) /\ e.scores = d.scores /\ e.recommended = d.recommended
          /\ e.preserve = d.preserve /\ e.review /\ e.by = "unresolved"
      BY <1>1, <1>9, <2>3, OpenFits
    <3>. QED  BY <1>9, <2>2, <3>1 DEF DecisionFits
  <2>4. CASE ~P
    BY <1>1, <1>9, <2>4
  <2>. QED  BY <2>3, <2>4
<1>10. CASE ApplySemanticReviewRules
  <2>1. e = (IF SemanticReview(g) THEN Open(d) ELSE d) /\ node = "apply_business_evidence_review_rules"
        /\ pc = "apply_semantic_review_rules"
    BY <1>10 DEF ApplySemanticReviewRules, Revise, Step, At
  <2>2. pc \in WeighedNodes /\ pc \in ChosenNodes /\ pc \in RatedNodes
    BY <2>1 DEF WeighedNodes, ChosenNodes, RatedNodes
  <2>3. DecisionFits(g, e, pc) /\ (d.review => e.review) /\ (e.by = "rule" => ~SemanticReview(g))
    BY <1>9, <2>1, <2>2
  <2>4. node \notin ReviewedNodes /\ node \notin PreservedNodes
    BY <2>1 DEF ReviewedNodes, PreservedNodes, MarkedNodes, JudgeNodes
  <2>. QED  BY <2>2, <2>3, <2>4 DEF DecisionFits
<1>11. CASE ApplyBusinessEvidenceReviewRules
  <2>1. e = (IF BusinessReview(g) THEN Open(d) ELSE d) /\ node = "preserve_complete_version_chains"
        /\ pc = "apply_business_evidence_review_rules"
    BY <1>11 DEF ApplyBusinessEvidenceReviewRules, Revise, Step, At
  <2>2. pc \in WeighedNodes /\ pc \in ChosenNodes /\ pc \in RatedNodes /\ pc \in SemanticNodes
    BY <2>1 DEF SemanticNodes, WeighedNodes, ChosenNodes, RatedNodes
  <2>3. DecisionFits(g, e, pc) /\ (d.review => e.review) /\ (e.by = "rule" => ~BusinessReview(g))
    BY <1>9, <2>1, <2>2
  <2>4. node \notin PreservedNodes
    BY <2>1 DEF PreservedNodes, MarkedNodes, JudgeNodes
  <2>. QED  BY <2>2, <2>3, <2>4 DEF DecisionFits
<1>12. CASE PreserveCompleteVersionChains
  <2>1. e = [d EXCEPT !.preserve = g] /\ pc = "preserve_complete_version_chains"
    BY <1>12 DEF PreserveCompleteVersionChains, Revise, Step, At
  <2>2. pc \in WeighedNodes /\ pc \in ChosenNodes /\ pc \in RatedNodes /\ pc \in SemanticNodes /\ pc \in ReviewedNodes
    BY <2>1 DEF ReviewedNodes, SemanticNodes, WeighedNodes, ChosenNodes, RatedNodes
  <2>3. /\ e \in Decision(g) /\ e.scores = d.scores /\ e.recommended = d.recommended /\ e.by = d.by
        /\ e.review = d.review /\ e.preserve = g
    BY <1>1, <2>1 DEF Decision
  <2>. QED  BY <1>1, <2>2, <2>3 DEF DecisionFits
<1>. QED  BY <1>4, <1>5, <1>6, <1>7, <1>8, <1>10, <1>11, <1>12

\* What a decision must be depends on the earlier stages and the candidates only.
LEMMA DecisionFitsStays ==
    ASSUME UNCHANGED <<input, inventoryVars, versionVars, evidenceVars, candidates>>
    PROVE  \A g, d, node : UNCHANGED DecisionFits(g, d, node)
<1>1. UNCHANGED File /\ \A g : UNCHANGED <<ExcludedFrom(g), BranchesOf(g), DiffsOf(g)>>
  BY DEF inventoryVars, versionVars, evidenceVars, File, ExcludedFrom, BranchesOf, DiffsOf
<1>2. \A g : UNCHANGED Decision(g)
  BY <1>1 DEF Decision
<1>3. \A g : SemanticReview(g)' <=> SemanticReview(g)
  BY <1>1 DEF SemanticReview
<1>4. \A g : BusinessReview(g)' <=> BusinessReview(g)
  BY <1>1 DEF BusinessReview, evidenceVars
<1>5. UNCHANGED <<candidates, chains>>
  BY DEF versionVars
<1>. QED  BY <1>1, <1>2, <1>3, <1>4, <1>5 DEF DecisionFits

\* What is left to be shown of a step of the stage.
LEMMA DecisionsLift ==
    ASSUME UNCHANGED <<input, inventoryVars, versionVars, evidenceVars, candidates>>,
           FilesFit, GroupsFit, DecisionsFit, pc \in FoundNodes, pc' \in ScoredNodes,
           DOMAIN decisions' = groups, \A g \in groups : DecisionFits(g, decisions'[g], pc'),
           pc' \in MarkedNodes => pending' = UnderReview(decisions')
    PROVE  DecisionsFit'
<1>1. \A g, d, node : UNCHANGED DecisionFits(g, d, node)
  BY DecisionFitsStays
<1>2. ASSUME NEW g \in groups' PROVE DecisionFits(g, decisions[g], pc)'
  <2>1. g \in groups
    BY DEF versionVars
  <2>2. PICK d, node : d = decisions'[g] /\ node = pc'
    OBVIOUS
  <2>3. DecisionFits(g, d, node)
    BY <2>1, <2>2
  <2>4. DecisionFits(g, d, node)'
    BY <1>1, <2>3
  <2>. QED  BY <2>2, <2>4
<1>3. UNCHANGED <<groups, Originals, candidates>>
  BY FilesDetermine DEF versionVars, inventoryVars
<1>5. (pc \in MarkedNodes => pending = UnderReview(decisions))'
  BY DEF UnderReview
<1>6. candidates' = [g \in groups' |-> g \cap Originals']
  BY <1>3 DEF DecisionsFit
<1>7. AutomaticChoiceIsSafe'
  BY DEF AutomaticChoiceIsSafe, At, ScoredNodes, RatedNodes, ChosenNodes, WeighedNodes, SemanticNodes,
         ReviewedNodes, PreservedNodes, MarkedNodes, JudgeNodes
<1>. QED  BY <1>2, <1>3, <1>5, <1>6, <1>7 DEF DecisionsFit

(***************************************************************************)
(* The recommendation stage as a whole.                                    *)
(***************************************************************************)

\* What can be said of a group that a rule has settled when the Judge is done.
LEMMA RuledDecisions ==
    ASSUME NEW g, NEW d, NEW node \in JudgeNodes, DecisionFits(g, d, node), d.by = "rule"
    PROVE  /\ chains[g].complete /\ BranchesOf(g) = {} /\ ~SemanticReview(g)
           /\ \A b \in business : b.file \in g => b.type \notin Reviewed
           /\ d.recommended \in candidates[g] \ ExcludedFrom(g)
<1>1. node \in ChosenNodes /\ node \in WeighedNodes /\ node \in SemanticNodes /\ node \in ReviewedNodes
  BY NodesApart
<1>2. /\ chains[g].complete /\ BranchesOf(g) = {} /\ ~SemanticReview(g) /\ ~BusinessReview(g)
      /\ d.recommended # NoFile
      /\ IF candidates[g] \subseteq ExcludedFrom(g) THEN d.recommended = NoFile
         ELSE d.recommended \in candidates[g] \ ExcludedFrom(g)
  BY <1>1 DEF DecisionFits
<1>3. ASSUME NEW b \in business, b.file \in g, b.type \in Reviewed PROVE FALSE
  <2>1. b.type \in {c.type : c \in {x \in business : x.file = b.file}} \cap Reviewed
    BY <1>3
  <2>. QED  BY <1>2, <1>3, <2>1 DEF BusinessReview
<1>. QED  BY <1>2, <1>3

\* From the marking of the open groups on, a decision fits at every node alike.
LEMMA MarkedAlike ==
    ASSUME NEW g, NEW d, NEW node \in PreservedNodes, NEW other \in PreservedNodes, DecisionFits(g, d, node)
    PROVE  DecisionFits(g, d, other)
BY NodesApart DEF DecisionFits

\* Every node of the recommendation stage, the Judge and the humans included.
LEMMA DecisionsKept ==
    ASSUME FilesFit, GroupsFit, EvidenceFits, DecisionsFit, [Next]_analysisVars
    PROVE  DecisionsFit'
<1>0. MarkedNodes \subseteq ScoredNodes /\ ScoredNodes \subseteq FoundNodes /\ "reported" \notin ScoredNodes
  BY NodesApart DEF ScoredNodes, RatedNodes, ChosenNodes, WeighedNodes, SemanticNodes,
         ReviewedNodes, PreservedNodes, MarkedNodes, JudgeNodes
<1>1. ASSUME pc' \notin FoundNodes PROVE DecisionsFit'
  BY <1>0, <1>1 DEF DecisionsFit, AutomaticChoiceIsSafe, At, FoundNodes
<1>2. CASE ~RecommendationNext
  <2>1. CASE UNCHANGED analysisVars
    <3>1. UNCHANGED <<input, inventoryVars, versionVars, evidenceVars, candidates, decisions, pending, pc>>
      BY <2>1 DEF analysisVars, recommendationVars
    <3>2. \A g, d, node : UNCHANGED DecisionFits(g, d, node)
      BY <3>1, DecisionFitsStays
    <3>3. (\A g \in groups : DecisionFits(g, decisions[g], pc)) =>
            (\A g \in groups : DecisionFits(g, decisions[g], pc))'
      <4>. SUFFICES ASSUME \A g \in groups : DecisionFits(g, decisions[g], pc), NEW g \in groups'
                    PROVE  DecisionFits(g, decisions[g], pc)'
        OBVIOUS
      <4>1. PICK d, node : d = decisions[g] /\ node = pc
        OBVIOUS
      <4>2. DecisionFits(g, d, node)
        BY <4>1, <3>1 DEF versionVars
      <4>3. DecisionFits(g, d, node)'
        BY <3>2, <4>2
      <4>. QED  BY <3>1, <4>1, <4>3
    <3>4. UNCHANGED <<groups, Originals>>
      BY <3>1, FilesDetermine DEF inventoryVars, versionVars
    <3>5. AutomaticChoiceIsSafe'
      BY <3>1 DEF DecisionsFit, AutomaticChoiceIsSafe, At, BranchesOf, SemanticReview, DiffsOf, ExcludedFrom,
          versionVars, evidenceVars
    <3>. QED  BY <3>1, <3>3, <3>4, <3>5 DEF DecisionsFit, UnderReview
  <2>2. CASE ~UNCHANGED analysisVars
    <3>1. pc' \notin FoundNodes
      BY <1>2, <2>2, StagesMove, NodesApart
    <3>. QED  BY <1>1, <3>1
  <2>. QED  BY <2>1, <2>2
<1>3. CASE RecommendationNext
  <2>0. UNCHANGED <<input, inventoryVars, versionVars, evidenceVars>>
    BY <1>3, RecommendationMoves
  <2>00. UNCHANGED <<groups, Originals>>
    BY <2>0, FilesDetermine DEF inventoryVars, versionVars
  <2>1. CASE FindEditableLeafVersions
    <3>1. /\ pc' = "score_version_candidates"
          /\ candidates' = [g \in groups |-> {f \in g : duplicate[f] = NoFile}]
      BY <2>1 DEF FindEditableLeafVersions, Step
    <3>2. \A g \in groups : g \in SUBSET File
      BY DEF GroupsFit
    <3>3. \A g \in groups : {f \in g : duplicate[f] = NoFile} = g \cap Originals
      BY <3>2 DEF Originals
    <3>4. candidates' = [g \in groups' |-> g \cap Originals']
      BY <2>00, <3>1, <3>3
    <3>5. pc' \notin ScoredNodes /\ pc' # "reported"
      BY <3>1 DEF ScoredNodes, RatedNodes, ChosenNodes, WeighedNodes, SemanticNodes,
         ReviewedNodes, PreservedNodes, MarkedNodes, JudgeNodes
    <3>. QED  BY <1>0, <3>4, <3>5 DEF DecisionsFit, AutomaticChoiceIsSafe, At
  <2>2. CASE ScoreVersionCandidates
    <3>1. /\ pc' = "apply_delivery_rules" /\ pc = "score_version_candidates" /\ UNCHANGED candidates
          /\ decisions' = [g \in groups |->
                [scores |-> [f \in candidates[g] |-> BaseScore(g, f)], recommended |-> NoFile,
                 confidence |-> 0, review |-> TRUE, by |-> "unresolved", preserve |-> {}]]
      BY <2>2 DEF ScoreVersionCandidates, Step, At
    <3>2. ASSUME NEW g \in groups PROVE DecisionFits(g, decisions'[g], pc')
      <4>. DEFINE s == [f \in candidates[g] |-> BaseScore(g, f)]
      <4>1. s \in [candidates[g] -> 0..Whole]
        BY BaseScoreFits
      <4>2. decisions'[g] = [scores |-> s, recommended |-> NoFile, confidence |-> 0, review |-> TRUE,
                             by |-> "unresolved", preserve |-> {}]
        BY <3>1
      <4>. HIDE DEF s
      <4>3. 0 \in 0..Whole
        BY DEF Whole
      <4>4. decisions'[g] \in Decision(g)
        BY <4>1, <4>2, <4>3 DEF Decision
      <4>. QED  BY <3>1, <4>4 DEF DecisionFits, RatedNodes, ChosenNodes, WeighedNodes, SemanticNodes,
                ReviewedNodes, PreservedNodes, MarkedNodes, JudgeNodes
    <3>3. pc \in FoundNodes /\ pc' \in ScoredNodes /\ pc' \notin MarkedNodes
      BY <3>1 DEF FoundNodes, ScoredNodes, MarkedNodes, JudgeNodes
    <3>4. DOMAIN decisions' = groups
      BY <3>1
    <3>. QED  BY <2>0, <3>1, <3>2, <3>3, <3>4, DecisionsLift
  <2>3. CASE \/ ApplyDeliveryRules \/ ApplyPdfSourceRules \/ ApplyBusinessEvidenceRules
             \/ SelectMainVersions \/ CalculateDecisionConfidence \/ ApplySemanticReviewRules
             \/ ApplyBusinessEvidenceReviewRules \/ PreserveCompleteVersionChains
    <3>1. /\ UNCHANGED candidates /\ DOMAIN decisions' = DOMAIN decisions
          /\ pc \in {"apply_delivery_rules", "apply_pdf_source_rules", "apply_business_evidence_rules",
                     "select_main_versions", "calculate_decision_confidence", "apply_semantic_review_rules",
                     "apply_business_evidence_review_rules", "preserve_complete_version_chains"}
          /\ pc' \in {"apply_pdf_source_rules", "apply_business_evidence_rules",
                     "select_main_versions", "calculate_decision_confidence", "apply_semantic_review_rules",
                     "apply_business_evidence_review_rules", "preserve_complete_version_chains",
                     "mark_human_review_items"}
      BY <2>3 DEF ApplyDeliveryRules, ApplyPdfSourceRules, ApplyBusinessEvidenceRules,
             SelectMainVersions, CalculateDecisionConfidence, ApplySemanticReviewRules,
             ApplyBusinessEvidenceReviewRules, PreserveCompleteVersionChains, Revise, Step, At
    <3>2. pc \in ScoredNodes /\ pc' \in ScoredNodes /\ pc' \notin MarkedNodes
      BY <3>1 DEF ScoredNodes, RatedNodes, ChosenNodes, WeighedNodes, SemanticNodes,
         ReviewedNodes, PreservedNodes, MarkedNodes, JudgeNodes
    <3>3. DOMAIN decisions = groups
      BY <3>2 DEF DecisionsFit
    <3>4. ASSUME NEW g \in groups PROVE DecisionFits(g, decisions'[g], pc')
      <4>1. PICK d, e, node : d = decisions[g] /\ e = decisions'[g] /\ node = pc'
        OBVIOUS
      <4>2. DecisionFits(g, e, node)
        BY <2>3, <3>2, <3>3, <4>1, RevisionFits
      <4>. QED  BY <4>1, <4>2
    <3>. QED  BY <1>0, <2>0, <3>1, <3>2, <3>3, <3>4, DecisionsLift
  <2>4. ASSUME pc \in PreservedNodes, pc' \in MarkedNodes, UNCHANGED <<candidates, decisions>>,
               pending' = UnderReview(decisions)
        PROVE  DecisionsFit'
    <3>1. pc \in ScoredNodes /\ pc' \in ScoredNodes /\ pc' \in PreservedNodes /\ pc \in FoundNodes
      BY <2>4, NodesApart
    <3>2. DOMAIN decisions = groups /\ \A g \in groups : DecisionFits(g, decisions[g], pc)
      BY <3>1 DEF DecisionsFit
    <3>3. ASSUME NEW g \in groups PROVE DecisionFits(g, decisions'[g], pc')
      <4>1. PICK d, node, other : d = decisions[g] /\ node = pc /\ other = pc'
        OBVIOUS
      <4>2. DecisionFits(g, d, other)
        BY <2>4, <3>1, <3>2, <4>1, MarkedAlike
      <4>. QED  BY <2>4, <4>1, <4>2
    <3>4. DOMAIN decisions' = groups /\ pending' = UnderReview(decisions')
      BY <2>4, <3>2 DEF UnderReview
    <3>. QED  BY <2>0, <2>4, <3>1, <3>3, <3>4, DecisionsLift
  <2>5. CASE MarkHumanReviewItems
    BY <2>4, <2>5 DEF MarkHumanReviewItems, Step, At, PreservedNodes, MarkedNodes
  <2>6. CASE ValidateRecommendationResults
    <3>1. pc \in MarkedNodes /\ pc' \in MarkedNodes /\ UNCHANGED <<candidates, decisions, pending>>
      BY <2>6 DEF ValidateRecommendationResults, Step, At, MarkedNodes, JudgeNodes, recommendationVars
    <3>2. pc \in PreservedNodes /\ pending' = UnderReview(decisions)
      BY <3>1, NodesApart DEF DecisionsFit
    <3>. QED  BY <2>4, <3>1, <3>2
  <2>7. CASE PrepareHumanReview \/ RequestHumanReview
    <3>1. pc \in MarkedNodes /\ pc' \in MarkedNodes /\ UNCHANGED <<candidates, decisions>>
          /\ (UNCHANGED pending \/ pending' = UnderReview(decisions))
      BY <2>7 DEF PrepareHumanReview, RequestHumanReview, Step, At, MarkedNodes, JudgeNodes
    <3>2. pc \in PreservedNodes /\ pending' = UnderReview(decisions)
      BY <3>1, NodesApart DEF DecisionsFit
    <3>. QED  BY <2>4, <3>1, <3>2
  <2>8. CASE DispatchRecommendationJudgeTask
    <3>1. PICK told \in [groups -> UNION {Opinions(g) : g \in groups}] :
            /\ \A g \in groups : told[g] \in Opinions(g)
            /\ decisions' = [g \in groups |-> FuseJudgment(decisions[g], told[g])]
      BY <2>8 DEF DispatchRecommendationJudgeTask
    <3>2. /\ pc = "dispatch_recommendation_judge_task" /\ pc' = "judge_dispatched"
          /\ UNCHANGED candidates /\ pending' = UnderReview(decisions')
      BY <2>8 DEF DispatchRecommendationJudgeTask, Step, At
    <3>3. pc \in JudgeNodes /\ pc' \in JudgeNodes
      BY <3>2 DEF JudgeNodes
    <3>4. pc \in ScoredNodes /\ pc' \in ScoredNodes /\ pc \in FoundNodes
      BY <3>3, NodesApart
    <3>5. ASSUME NEW g \in groups PROVE DecisionFits(g, decisions'[g], pc')
      <4>1. PICK d, e, node, other : d = decisions[g] /\ e = FuseJudgment(d, told[g]) /\ node = pc /\ other = pc'
        OBVIOUS
      <4>2. DecisionFits(g, d, node) /\ candidates[g] \in SUBSET File
        BY <3>4, <4>1, CandidatesAreFiles DEF DecisionsFit
      <4>3. told[g] \in Opinions(g) /\ node \in JudgeNodes /\ other \in JudgeNodes
        BY <3>1, <3>3, <4>1
      <4>4. DecisionFits(g, e, other)
        BY <4>1, <4>2, <4>3, JudgmentFits
      <4>. QED  BY <3>1, <4>1, <4>4
    <3>6. DOMAIN decisions' = groups
      BY <3>1
    <3>. QED  BY <2>0, <3>2, <3>4, <3>5, <3>6, DecisionsLift
\* The end of the stage: what the rules settled was safe.
  <2>9. ASSUME pc \in JudgeNodes, pc' = "reported", UNCHANGED candidates,
               \A g \in groups : decisions'[g].by = "rule" => decisions'[g] = decisions[g]
        PROVE  DecisionsFit'
    <3>1. pc \in ScoredNodes /\ pc \in FoundNodes
      BY <2>9, NodesApart
    <3>2. ASSUME NEW g \in groups, decisions'[g].by = "rule"
          PROVE  /\ chains[g].complete /\ BranchesOf(g) = {} /\ ~SemanticReview(g)
                 /\ \A b \in business : b.file \in g => b.type \notin Reviewed
                 /\ decisions'[g].recommended \in candidates[g] \ ExcludedFrom(g)
      <4>1. PICK d, node : d = decisions[g] /\ node = pc
        OBVIOUS
      <4>2. DecisionFits(g, d, node) /\ d.by = "rule" /\ node \in JudgeNodes /\ decisions'[g] = d
        BY <2>9, <3>1, <3>2, <4>1 DEF DecisionsFit
      <4>3. /\ chains[g].complete /\ BranchesOf(g) = {} /\ ~SemanticReview(g)
            /\ \A b \in business : b.file \in g => b.type \notin Reviewed
            /\ d.recommended \in candidates[g] \ ExcludedFrom(g)
        BY <4>2, RuledDecisions
      <4>. QED  BY <4>2, <4>3
    <3>3. UNCHANGED <<chains, business, candidates>>
          /\ \A g : UNCHANGED <<BranchesOf(g), SemanticReview(g), ExcludedFrom(g)>>
      BY <2>0, <2>9 DEF versionVars, evidenceVars, BranchesOf, SemanticReview, DiffsOf, ExcludedFrom
    <3>4. AutomaticChoiceIsSafe'
      BY <2>00, <3>2, <3>3 DEF AutomaticChoiceIsSafe
    <3>5. candidates' = [g \in groups' |-> g \cap Originals']
      BY <2>00, <2>9, <3>1 DEF DecisionsFit
    <3>6. pc' \notin MarkedNodes /\ pc' \notin ScoredNodes
      BY <1>0, <2>9
    <3>. QED  BY <3>4, <3>5, <3>6 DEF DecisionsFit
  <2>10. CASE EndJudge
    <3>1. /\ pc = "judge_dispatched" /\ UNCHANGED <<candidates, decisions, pending>>
          /\ pc' \in {"dispatch_recommendation_judge_task", "prepare_human_review", "reported", "stopped"}
      BY <2>10 DEF EndJudge, EndStage, At, recommendationVars
    <3>2. pc \in JudgeNodes /\ pc \in MarkedNodes /\ pc \in PreservedNodes
      BY <3>1 DEF JudgeNodes, MarkedNodes, PreservedNodes
    <3>3. CASE pc' = "stopped"
      BY <1>1, <3>3, NodesApart
    <3>4. CASE pc' = "reported"
      BY <2>9, <3>1, <3>2, <3>4
    <3>5. CASE pc' \in {"dispatch_recommendation_judge_task", "prepare_human_review"}
      <4>1. pc' \in MarkedNodes /\ pending' = UnderReview(decisions)
        BY <3>1, <3>2, <3>5 DEF DecisionsFit, MarkedNodes, JudgeNodes
      <4>. QED  BY <2>4, <3>1, <3>2, <4>1
    <3>. QED  BY <3>1, <3>3, <3>4, <3>5
  <2>11. CASE ApplyHumanSelection
    <3>1. /\ pc = "apply_human_selection" /\ pc' = "reported" /\ UNCHANGED candidates
          /\ decisions' = [g \in DOMAIN decisions |->
                IF g \in DOMAIN selections
                THEN [decisions[g] EXCEPT !.recommended = selections[g], !.confidence = Whole,
                                          !.review = FALSE, !.by = "human"]
                ELSE decisions[g]]
      BY <2>11 DEF ApplyHumanSelection, Step, At
    <3>2. pc \in JudgeNodes
      BY <3>1 DEF JudgeNodes
    <3>3. pc \in ScoredNodes
      BY <3>2, NodesApart
    <3>4. ASSUME NEW g \in groups, decisions'[g].by = "rule" PROVE decisions'[g] = decisions[g]
      <4>1. PICK d : d = decisions[g]
        OBVIOUS
      <4>2. d \in Decision(g) /\ DOMAIN decisions = groups
        BY <3>3, <4>1 DEF DecisionsFit, DecisionFits
      <4>3. [d EXCEPT !.recommended = selections[g], !.confidence = Whole,
                      !.review = FALSE, !.by = "human"].by = "human"
        BY <4>2 DEF Decision
      <4>. QED  BY <3>1, <3>4, <4>1, <4>2, <4>3
    <3>. QED  BY <2>9, <3>1, <3>2, <3>4
  <2>. QED  BY <1>3, <2>1, <2>2, <2>3, <2>5, <2>6, <2>7, <2>8, <2>10, <2>11 DEF RecommendationNext
<1>. QED  BY <1>2, <1>3

(***************************************************************************)
(* The results.                                                            *)
(***************************************************************************)

\* A run starts with nothing on record.
LEMMA RunsStartFit ==
    ASSUME Init PROVE IInv
<1>1. input \in Inputs /\ pc = "register_file_metadata"
      /\ files = [f \in File |-> "unregistered"] /\ duplicate = [f \in File |-> NoFile]
  BY DEF Init, InventoryInit
<1>2. groups = {} /\ comparisons = <<>> /\ diff = NoDiff /\ diffs = <<>> /\ edges = {} /\ chains = <<>>
  BY DEF Init, VersionInit
<1>3. pc \in InventoryNodes /\ pc \notin ChainedNodes /\ pc \notin FoundNodes /\ pc \notin MarkedNodes
      /\ pc \notin ScoredNodes
  <2>1. pc \in InventoryNodes
    BY <1>1 DEF InventoryNodes
  <2>2. ChainedNodes \subseteq VersionNodes \cup EvidenceNodes
    BY DEF ChainedNodes, VersionNodes
  <2>. QED  BY <2>1, <2>2, NodesApart
<1>4. FilesFit
  <2>1. \A f \in File : f \in Originals
    BY <1>1 DEF Originals
  <2>2. files \in [File -> Status] /\ duplicate \in [File -> File \cup {NoFile}]
    BY <1>1 DEF Status
  <2>. QED  BY <1>1, <2>1, <2>2 DEF FilesFit
<1>5. GroupsFit
  <2>1. \A f : Cardinality({g \in groups : f \in g}) <= 1
    BY <1>2, GroupsDisjoint
  <2>. QED  BY <1>2, <2>1, FS_EmptySet DEF GroupsFit, Disjoint
<1>6. VersionsFit
  <2>1. DOMAIN diffs = {}
    BY <1>2
  <2>2. comparisons \in Seq(GroupPairs)
    BY <1>2
  <2>3. pc # "load_next_comparison" /\ pc \notin ComparingNodes
    BY <1>1 DEF ComparingNodes
  <2>. QED  BY <1>2, <2>1, <2>2, <2>3 DEF VersionsFit
<1>7. ChainsFit
  <2>1. DOMAIN chains = {}
    BY <1>2
  <2>. QED  BY <1>3, <2>1 DEF ChainsFit
<1>8. EvidenceFits
  <2>1. jobs = {} /\ mails = {} /\ deliveries = {} /\ business = {} /\ exports = <<>>
    BY DEF Init, EvidenceInit
  <2>2. DOMAIN exports = {} /\ IsFiniteSet({})
    BY <2>1, FS_EmptySet
  <2>. QED  BY <1>1, <2>1, <2>2 DEF EvidenceFits
<1>9. DecisionsFit
  BY <1>1, <1>3 DEF DecisionsFit, AutomaticChoiceIsSafe, At
<1>10. RecordsFit
  <2>1. queue = <<>> /\ documents = {} /\ exports = <<>> /\ deliveries = {}
    BY DEF Init, InventoryInit, EvidenceInit
  <2>2. pc \notin ParsingNodes /\ pc # "load_next_parse_job"
    BY <1>1 DEF ParsingNodes
  <2>3. InventoryIsValid
    BY <1>1, <2>1 DEF InventoryIsValid
  <2>4. DOMAIN exports = {}
    BY <2>1
  <2>5. SourcesFit
    BY <2>1, <2>4 DEF SourcesFit
  <2>. QED  BY <2>1, <2>2, <2>3, <2>5 DEF RecordsFit
<1>. QED  BY <1>4, <1>5, <1>6, <1>7, <1>8, <1>9, <1>10 DEF IInv

\* The invariant of all stages holds for any files, mails and answers: every
\* stage can rely on what the stages before it have left, also when they were
\* repeated after an error - only that a repeated version stage may have put a
\* file in two groups, which no run gets past the evidence stage with.
THEOREM AnalysisKeepsInvariant == Spec => []IInv
<1>1. Init => IInv
  BY RunsStartFit
<1>2. IInv /\ [Next]_analysisVars => IInv'
  BY FilesKept, GroupsKept, VersionsKept, ChainsKept, EvidenceKept, RecordsKept, DecisionsKept DEF IInv
<1>. QED  BY <1>1, <1>2, PTL DEF Spec

\* The same in terms of places, as ChainListsItsGroup says it.
LEMMA OrdersListGroups ==
    ASSUME NEW chain, NEW group, NEW some, InOrderOf(chain, group, some),
           NEW order, order = chain.order
    PROVE  /\ ToSet(order) = group /\ Len(order) = Cardinality(group)
           /\ \A f \in group : duplicate[f] \in group => Place(order, duplicate[f]) < Place(order, f)
           /\ chain.complete => \A e \in some : Place(order, e.parent) < Place(order, e.child)
<1>1. Lists(order, group)
  BY DEF InOrderOf
<1>2. ToSet(order) = group /\ Len(order) = Cardinality(group)
  BY <1>1, ListsCount
<1>3. \A x, y : Before(order, x, y) => Place(order, x) < Place(order, y)
  BY <1>1, PlacesFollow
<1>. QED  BY <1>2, <1>3 DEF InOrderOf

\* Once the version stage is over, the chain of every group lists each of its
\* files once, copies after originals and, when it is called complete, every
\* file after the files it derives from (build_version_chains), for any number
\* of files and whatever cycles the relations form.
THEOREM ChainsListTheirGroups == Spec => []ChainListsItsGroup
<1>1. IInv => ChainListsItsGroup
  <2>. SUFFICES ASSUME IInv, At("collect_pdf_candidates") PROVE ChainListsItsGroup
    BY DEF ChainListsItsGroup
  <2>1. pc \in ChainedNodes
    BY NodesApart DEF At, ChainedNodes
  <2>2. DOMAIN chains = groups /\ \A g \in groups : InOrderOf(chains[g], g, Within(g, edges))
    BY <2>1 DEF IInv, ChainsFit
  <2>3. ASSUME NEW g \in groups
        PROVE  /\ ToSet(chains[g].order) = g /\ Len(chains[g].order) = Cardinality(g)
               /\ \A f \in g : duplicate[f] \in g =>
                    Place(chains[g].order, duplicate[f]) < Place(chains[g].order, f)
               /\ chains[g].complete =>
                    \A e \in Within(g, edges) :
                        Place(chains[g].order, e.parent) < Place(chains[g].order, e.child)
    BY <2>2, OrdersListGroups
  <2>. QED  BY <2>2, <2>3 DEF ChainListsItsGroup
<1>. QED  BY <1>1, AnalysisKeepsInvariant, PTL

\* A main version chosen without a human is never an excluded file, nor one of a
\* group with branches, a broken chain, a doubtful relation or a rejecting mail,
\* whatever the Judge said and however often it was asked.
THEOREM AutomaticChoicesAreSafe == Spec => []AutomaticChoiceIsSafe
<1>1. IInv => AutomaticChoiceIsSafe
  BY DEF IInv, DecisionsFit
<1>. QED  BY <1>1, AnalysisKeepsInvariant, PTL

Acceptable(g, d, eligible) ==
    /\ candidates[g] \subseteq g /\ DOMAIN d.scores = candidates[g]
    /\ \A f \in DOMAIN d.scores : d.scores[f] \in 0..Whole
    /\ d.confidence \in 0..Whole
    /\ IF eligible = {} THEN d.recommended = NoFile ELSE d.recommended \in eligible
    /\ d.preserve = g
    /\ d.by = IF d.review THEN "unresolved" ELSE "rule"

\* A decision that fits once the reviews are marked is one that
\* validate_recommendation_results accepts.
LEMMA DecisionsAreValid ==
    ASSUME NEW g \in groups, candidates[g] = g \cap Originals, NEW d, NEW node \in MarkedNodes,
           DecisionFits(g, d, node), NEW eligible, eligible = DOMAIN d.scores \ ExcludedFrom(g)
    PROVE  Acceptable(g, d, eligible)
<1>1. node \in ChosenNodes /\ node \in WeighedNodes /\ node \in PreservedNodes
  BY NodesApart
<1>2. d \in Decision(g)
  BY DEF DecisionFits
<1>3. d.scores \in [candidates[g] -> 0..Whole] /\ d.confidence \in 0..Whole
  BY <1>2 DEF Decision
<1>4. DOMAIN d.scores = candidates[g] /\ \A f \in DOMAIN d.scores : d.scores[f] \in 0..Whole
  BY <1>3
<1>5. d.preserve = g /\ d.by = IF d.review THEN "unresolved" ELSE "rule"
  BY <1>1 DEF DecisionFits
<1>6. IF eligible = {} THEN d.recommended = NoFile ELSE d.recommended \in eligible
  <2>1. IF candidates[g] \subseteq ExcludedFrom(g) THEN d.recommended = NoFile
        ELSE d.recommended \in candidates[g] \ ExcludedFrom(g)
    BY <1>1 DEF DecisionFits
  <2>2. eligible = candidates[g] \ ExcludedFrom(g)
    BY <1>4
  <2>. QED  BY <2>1, <2>2
<1>. QED  BY <1>3, <1>4, <1>5, <1>6 DEF Acceptable

\* The decisions are as validate_recommendation_results demands when it runs, and
\* still are at the nodes of the Judge and of the review.
LEMMA DecisionsPass ==
    ASSUME IInv, pc \in MarkedNodes
    PROVE  ResultsAreValid
<1>1. pc \in ScoredNodes /\ pc \in FoundNodes
  BY NodesApart
<1>2. /\ candidates = [g \in groups |-> g \cap Originals]
      /\ DOMAIN decisions = groups /\ \A g \in groups : DecisionFits(g, decisions[g], pc)
      /\ pending = UnderReview(decisions)
  BY <1>1 DEF IInv, DecisionsFit
<1>3. ASSUME NEW g \in groups
      PROVE  Acceptable(g, decisions[g], DOMAIN decisions[g].scores \ ExcludedFrom(g))
  <2>1. candidates[g] = g \cap Originals
    BY <1>2
  <2>2. PICK d, node : d = decisions[g] /\ node = pc
    OBVIOUS
  <2>3. PICK eligible : eligible = DOMAIN d.scores \ ExcludedFrom(g)
    OBVIOUS
  <2>4. DecisionFits(g, d, node) /\ node \in MarkedNodes
    BY <1>1, <1>2, <2>2
  <2>5. Acceptable(g, d, eligible)
    BY <2>1, <2>3, <2>4, DecisionsAreValid
  <2>. QED  BY <2>2, <2>3, <2>5
<1>. QED  BY <1>2, <1>3 DEF ResultsAreValid, Acceptable

\* The validations at the ends of the stages find nothing, whatever was repeated,
\* lost or given up, but for a file in two groups of a repeated version stage:
\* parsed files have documents, every group has its chain, a PDF its source in
\* its own group.  A file in two groups is always found, and such a run never
\* gets to a decision.  The Judge, which is asked only afterwards, leaves every
\* decision as validate_recommendation_results demands.
THEOREM StagesPassValidation == Spec => []ResultsPassValidation
<1>1. IInv => ResultsPassValidation
  <2>. SUFFICES ASSUME IInv PROVE ResultsPassValidation
    OBVIOUS
  <2>1. InventoryIsValid /\ (EvidenceIsValid <=> Disjoint)
    BY DEF IInv, RecordsFit, SourcesFit, EvidenceIsValid
  <2>4. /\ ~Disjoint => "version_analysis" \in retried
        /\ pc \in {"dispatch_evidence_subagent_task", "find_editable_leaf_versions", "reported"} => Disjoint
    <3>1. {"dispatch_evidence_subagent_task", "find_editable_leaf_versions", "reported"} \subseteq ConfirmedNodes
      BY DEF ConfirmedNodes, RecommendationNodes
    <3>. QED  BY <3>1 DEF IInv, GroupsFit
  <2>2. ASSUME At("validate_version_results") PROVE DOMAIN chains = groups
    <3>1. pc \in ChainedNodes
      BY <2>2 DEF At, ChainedNodes
    <3>. QED  BY <3>1 DEF IInv, ChainsFit
  <2>3. ASSUME pc \in {"validate_recommendation_results", "judge_dispatched", "prepare_human_review",
                       "request_human_review"}
        PROVE  ResultsAreValid
    <3>1. pc \in MarkedNodes
      BY <2>3 DEF MarkedNodes, JudgeNodes
    <3>. QED  BY <3>1, DecisionsPass
  <2>. QED  BY <2>1, <2>2, <2>3, <2>4 DEF ResultsPassValidation
<1>. QED  BY <1>1, AnalysisKeepsInvariant, PTL

\* No step but the two clears a review.
LEMMA ReviewsKept ==
    ASSUME FilesFit, GroupsFit, EvidenceFits, DecisionsFit, [Next]_analysisVars,
           NEW g \in DOMAIN decisions, g \in DOMAIN decisions', decisions[g].review,
           pc \notin {"calculate_decision_confidence", "apply_human_selection"}
    PROVE  decisions'[g].review
<1>1. CASE UNCHANGED decisions
  BY <1>1
<1>2. CASE ScoreVersionCandidates
  BY <1>2 DEF ScoreVersionCandidates
<1>3. CASE \/ ApplyDeliveryRules \/ ApplyPdfSourceRules \/ ApplyBusinessEvidenceRules
           \/ SelectMainVersions \/ ApplySemanticReviewRules
           \/ ApplyBusinessEvidenceReviewRules \/ PreserveCompleteVersionChains
  <2>1. pc \in ScoredNodes
    BY <1>3 DEF ApplyDeliveryRules, ApplyPdfSourceRules, ApplyBusinessEvidenceRules, SelectMainVersions,
         ApplySemanticReviewRules, ApplyBusinessEvidenceReviewRules, PreserveCompleteVersionChains, Step, At,
         ScoredNodes, RatedNodes, ChosenNodes, WeighedNodes, SemanticNodes, ReviewedNodes
  <2>2. DOMAIN decisions = groups
    BY <2>1 DEF DecisionsFit
  <2>3. PICK d, e, node : d = decisions[g] /\ e = decisions'[g] /\ node = pc'
    OBVIOUS
  <2>4. d.review => e.review \/ pc = "calculate_decision_confidence"
    BY <1>3, <2>1, <2>2, <2>3, RevisionFits
  <2>. QED  BY <2>3, <2>4
<1>4. CASE DispatchRecommendationJudgeTask
  <2>1. pc \in JudgeNodes /\ pc \in ScoredNodes /\ pc \in FoundNodes
    <3>1. pc \in JudgeNodes
      BY <1>4 DEF DispatchRecommendationJudgeTask, Step, At, JudgeNodes
    <3>. QED  BY <3>1, NodesApart
  <2>2. DOMAIN decisions = groups /\ DecisionFits(g, decisions[g], pc)
    BY <2>1 DEF DecisionsFit
  <2>3. PICK opinion \in Opinions(g) : decisions'[g] = FuseJudgment(decisions[g], opinion)
    BY <1>4, <2>2 DEF DispatchRecommendationJudgeTask
  <2>4. PICK d, e, node : d = decisions[g] /\ e = FuseJudgment(d, opinion) /\ node = pc
    OBVIOUS
  <2>5. candidates[g] \in SUBSET File
    BY <2>1, <2>2, CandidatesAreFiles
  <2>6. DecisionFits(g, d, node) /\ node \in JudgeNodes
    BY <2>1, <2>2, <2>4
  <2>7. d.review => e.review
    BY <2>4, <2>5, <2>6, JudgmentFits
  <2>. QED  BY <2>3, <2>4, <2>7
<1>5. CASE ApplyHumanSelection \/ CalculateDecisionConfidence
  BY <1>5 DEF ApplyHumanSelection, CalculateDecisionConfidence, Step, At
<1>6. CASE \/ FindEditableLeafVersions \/ MarkHumanReviewItems \/ ValidateRecommendationResults
           \/ EndJudge \/ PrepareHumanReview \/ RequestHumanReview
  BY <1>1, <1>6 DEF FindEditableLeafVersions, MarkHumanReviewItems, ValidateRecommendationResults,
       EndJudge, PrepareHumanReview, RequestHumanReview, recommendationVars
<1>7. CASE ~RecommendationNext
  <2>1. UNCHANGED decisions
    BY <1>7, StagesMove DEF analysisVars, recommendationVars
  <2>. QED  BY <1>1, <2>1
<1>. QED  BY <1>2, <1>3, <1>4, <1>5, <1>6, <1>7 DEF RecommendationNext

\* A group that was left to a human is only taken back by one: no rule after
\* calculate_decision_confidence and no answer of the Judge clears a review.
THEOREM ReviewsNeedHumans == Spec => ReviewOnlyClearedByHuman
<1>1. IInv /\ [Next]_analysisVars =>
        [\A g \in DOMAIN decisions :
            g \in DOMAIN decisions' /\ decisions[g].review /\ ~decisions'[g].review =>
                pc \in {"calculate_decision_confidence", "apply_human_selection"}]_analysisVars
  BY ReviewsKept DEF IInv
<1>. QED  BY <1>1, AnalysisKeepsInvariant, PTL DEF Spec, ReviewOnlyClearedByHuman
=============================================================================
