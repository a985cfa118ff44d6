--------------------------- MODULE HrmGroupProofs ---------------------------
(***************************************************************************)
(* The groups of the Heart Rate Monitor, for any number of tasks, groups,  *)
(* slots and windows. The first part says what the operators that HrmGroup *)
(* is built from return: the lists of memberships, the sum over the        *)
(* producers, least and greatest elements, the ring of samples and the     *)
(* table of windows.                                                       *)
(***************************************************************************)
EXTENDS HrmGroup, FiniteSetTheorems, NaturalsInduction, TLAPS

(***************************************************************************)
(* Least and greatest elements.                                            *)
(***************************************************************************)
\* A non-empty set of naturals has a least element.
LEMMA Least == ASSUME NEW T, T \subseteq Nat, T # {} PROVE \E x \in T : \A y \in T : x <= y
<1> DEFINE R == OpToRel(<, Nat)
<1>1. IsWellFoundedOn(R, Nat) BY NatLessThanWellFounded
<1> HIDE DEF R
<1>2. PICK x \in T : \A y \in T : ~(<<y, x>> \in R) BY <1>1, WFMin
<1>3. \A m, n \in Nat : n < m => <<n, m>> \in R BY DEF R, OpToRel
<1>4. ASSUME NEW y \in T PROVE x <= y
  <2>1. x \in Nat /\ y \in Nat OBVIOUS
  <2>2. ~(y < x) BY <1>2, <1>3, <2>1
  <2> QED BY <2>1, <2>2
<1> QED BY <1>4

\* FirstIn returns the least element of a set of naturals.
LEMMA FirstInIs ==
  ASSUME NEW T, T \subseteq Nat, T # {}
  PROVE  FirstIn(T) \in T /\ \A j \in T : FirstIn(T) <= j
BY Least DEF FirstIn

\* A finite set of naturals is bounded.
LEMMA Bounded ==
  ASSUME NEW S, IsFiniteSet(S), S \subseteq Nat
  PROVE  \E b \in Nat : \A s \in S : s <= b
<1> DEFINE Has(T) == \E b \in Nat : \A s \in T : s <= b
           Bad == {n \in Nat : \E T \in SUBSET S : Cardinality(T) = n /\ ~Has(T)}
<1>1. Bad = {}
  <2> SUFFICES ASSUME Bad # {} PROVE FALSE OBVIOUS
  <2>1. PICK n \in Bad : \A m \in Bad : n <= m
    <3>1. Bad \subseteq Nat OBVIOUS
    <3> HIDE DEF Bad
    <3> QED BY <3>1, Least
  <2>2. PICK T \in SUBSET S : Cardinality(T) = n /\ ~Has(T) BY <2>1
  <2>3. T # {} BY <2>2
  <2>4. PICK x \in T : TRUE BY <2>3
  <2>5. IsFiniteSet(T) BY FS_Subset
  <2>6. Cardinality(T \ {x}) = n - 1 /\ n \in Nat /\ n - 1 \in Nat
    <3>1. IsFiniteSet(T \ {x}) /\ Cardinality(T \ {x}) = Cardinality(T) - 1
      BY <2>4, <2>5, FS_RemoveElement
    <3>2. Cardinality(T \ {x}) \in Nat BY <3>1, FS_CardinalityType
    <3>3. Cardinality(T) \in Nat BY <2>5, FS_CardinalityType
    <3> QED BY <2>2, <3>1, <3>2, <3>3
  <2>7. ~(n - 1 \in Bad) BY <2>1, <2>6
  <2>8. T \ {x} \in SUBSET S OBVIOUS
  <2>9. Has(T \ {x}) BY <2>6, <2>7, <2>8
  <2>10. PICK b \in Nat : \A s \in T \ {x} : s <= b BY <2>9
  <2>11. x \in Nat BY <2>4
  <2>12. CASE x <= b BY <2>2, <2>10, <2>12
  <2>13. CASE b < x
    <3>1. \A s \in T : s \in Nat OBVIOUS
    <3>2. \A s \in T : s <= x BY <2>10, <2>11, <2>13, <3>1
    <3> QED BY <2>2, <2>11, <3>2
  <2> QED BY <2>10, <2>11, <2>12, <2>13
<1>2. IsFiniteSet(S) => Cardinality(S) \in Nat BY FS_CardinalityType
<1>3. S \in SUBSET S OBVIOUS
<1>4. Has(S) BY <1>1, <1>2, <1>3
<1> QED BY <1>4

\* The number of samples that are remembered is positive, and above every window.
LEMMA DepthIs == Depth \in Nat \ {0} /\ \A ws \in WindowAsks : ws < Depth
<1> DEFINE S == {0} \cup WindowAsks
           Above == {b \in Nat : \A s \in S : s <= b}
<1>1. IsFiniteSet(WindowAsks) /\ WindowAsks \subseteq Nat BY HrmAssumption
<1>2. IsFiniteSet(S)
  <2>1. IsFiniteSet(WindowAsks \cup {0}) BY <1>1, FS_AddElement
  <2>2. S = WindowAsks \cup {0} OBVIOUS
  <2> QED BY <2>1, <2>2
<1>3. S \subseteq Nat /\ 0 \in S BY <1>1
<1>4. Above # {}
  <2> HIDE DEF S
  <2> QED BY <1>2, <1>3, Bounded
<1> HIDE DEF S
<1>5. PICK b \in Above : \A c \in Above : b <= c
  <2>1. Above \subseteq Nat OBVIOUS
  <2> HIDE DEF Above
  <2> QED BY <1>4, <2>1, Least
<1>6. b \in Nat /\ \A s \in S : s <= b OBVIOUS
<1>7. b \in S
  <2> SUFFICES ASSUME b \notin S PROVE FALSE OBVIOUS
  <2>1. b # 0 BY <1>3
  <2>2. b - 1 \in Nat BY <1>6, <2>1
  <2>3. \A s \in S : s \in Nat /\ s <= b /\ s # b BY <1>3, <1>6
  <2>4. \A s \in S : s <= b - 1 BY <1>6, <2>3
  <2>5. b - 1 \in Above BY <2>2, <2>4
  <2> QED BY <1>5, <1>6, <2>5
<1>8. Max(S) \in S /\ \A y \in S : Max(S) >= y
  <2>1. \E x \in S : \A y \in S : x >= y BY <1>3, <1>6, <1>7
  <2> QED BY <2>1 DEF Max
<1>9. Max(S) \in Nat BY <1>3, <1>8
<1>10. Depth = 1 + Max(S) BY DEF Depth, S
<1>11. \A ws \in WindowAsks : ws \in S /\ ws \in Nat BY <1>1 DEF S
<1>12. ASSUME NEW ws \in WindowAsks PROVE ws < Depth
  <2>1. ws \in Nat /\ Max(S) >= ws BY <1>8, <1>11
  <2> QED BY <1>9, <1>10, <2>1
<1> QED BY <1>9, <1>10, <1>12

LEMMA DepthType == Depth \in Nat \ {0}
BY DepthIs

\* The clock does not pass its bound.
LEMMA MinIs ==
  ASSUME NEW a \in Nat, NEW b \in Nat
  PROVE  Min({a, b}) = IF a <= b THEN a ELSE b
<1> DEFINE m == IF a <= b THEN a ELSE b
<1>1. m \in {a, b} /\ \A y \in {a, b} : m <= y OBVIOUS
<1>2. \A x \in {a, b} : (\A y \in {a, b} : x <= y) => x = m OBVIOUS
<1> QED BY <1>1, <1>2 DEF Min
-----------------------------------------------------------------------------
(***************************************************************************)
(* The lists of memberships.                                               *)
(***************************************************************************)
InList(list, g) == \E i \in DOMAIN list : list[i] = g
Distinct(list)  == \A i, j \in DOMAIN list : list[i] = list[j] => i = j

\* list_add puts g at the head and keeps the rest.
LEMMA LinkEffect ==
  ASSUME NEW q \in Seq(Gids), NEW g \in Gids
  PROVE  /\ <<g>> \o q \in Seq(Gids) /\ <<g>> \o q # <<>> /\ Head(<<g>> \o q) = g
         /\ \A x : InList(<<g>> \o q, x) <=> x = g \/ InList(q, x)
         /\ Distinct(q) /\ ~InList(q, g) => Distinct(<<g>> \o q)
<1> DEFINE n == Len(q)
           r == <<g>> \o q
<1>1. n \in Nat /\ DOMAIN q = 1 .. n OBVIOUS
<1>2. r \in Seq(Gids) /\ Len(r) = n + 1 /\ DOMAIN r = 1 .. n + 1 OBVIOUS
<1>3. r[1] = g /\ \A i \in 1 .. n : r[i + 1] = q[i] OBVIOUS
<1>4. r # <<>> /\ Head(r) = g
  <2>1. Len(<<>>) = 0 OBVIOUS
  <2>2. Head(r) = r[1] OBVIOUS
  <2> QED BY <1>1, <1>2, <1>3, <2>1, <2>2
<1> HIDE DEF n, r
<1>5. ASSUME NEW x, InList(r, x) PROVE x = g \/ InList(q, x)
  <2>1. PICK i \in 1 .. n + 1 : r[i] = x BY <1>2, <1>5 DEF InList
  <2>2. CASE i = 1 BY <1>3, <2>1, <2>2
  <2>3. CASE i # 1
    <3>1. i - 1 \in 1 .. n /\ (i - 1) + 1 = i BY <1>1, <2>1, <2>3
    <3>2. q[i - 1] = x BY <1>3, <2>1, <3>1
    <3> QED BY <1>1, <3>1, <3>2 DEF InList
  <2> QED BY <2>2, <2>3
<1>6. InList(r, g) BY <1>1, <1>2, <1>3 DEF InList
<1>7. ASSUME NEW x, InList(q, x) PROVE InList(r, x)
  <2>1. PICK i \in 1 .. n : q[i] = x BY <1>1, <1>7 DEF InList
  <2>2. i + 1 \in 1 .. n + 1 /\ r[i + 1] = x BY <1>1, <1>3, <2>1
  <2> QED BY <1>2, <2>2 DEF InList
<1>8. ASSUME Distinct(q), ~InList(q, g) PROVE Distinct(r)
  <2> SUFFICES ASSUME NEW i \in 1 .. n + 1, NEW j \in 1 .. n + 1, r[i] = r[j] PROVE i = j
    BY <1>2 DEF Distinct
  <2>1. \A k \in 1 .. n + 1 : k # 1 => k - 1 \in 1 .. n /\ r[k] = q[k - 1]
    <3> SUFFICES ASSUME NEW k \in 1 .. n + 1, k # 1 PROVE k - 1 \in 1 .. n /\ r[k] = q[k - 1]
      OBVIOUS
    <3>1. k - 1 \in 1 .. n /\ (k - 1) + 1 = k BY <1>1
    <3> QED BY <1>3, <3>1
  <2>2. \A k \in 1 .. n : q[k] # g BY <1>1, <1>8 DEF InList
  <2>3. CASE i = 1 /\ j = 1 BY <2>3
  <2>4. CASE i = 1 /\ j # 1 BY <1>3, <2>1, <2>2, <2>4
  <2>5. CASE i # 1 /\ j = 1 BY <1>3, <2>1, <2>2, <2>5
  <2>6. CASE i # 1 /\ j # 1
    <3>1. i - 1 = j - 1 BY <1>1, <1>8, <2>1, <2>6 DEF Distinct
    <3> QED BY <1>1, <3>1
  <2> QED BY <2>3, <2>4, <2>5, <2>6
<1> QED BY <1>2, <1>4, <1>5, <1>6, <1>7, <1>8 DEF r

\* list_del takes exactly g off a list that has it once.
LEMMA UnlinkEffect ==
  ASSUME NEW q \in Seq(Gids), NEW g, InList(q, g), Distinct(q)
  PROVE  /\ Without(q, g) \in Seq(Gids)
         /\ \A x : InList(Without(q, g), x) <=> InList(q, x) /\ x # g
         /\ Distinct(Without(q, g))
<1> DEFINE i == CHOOSE j \in DOMAIN q : q[j] = g
           n == Len(q)
           r == [j \in 1 .. n - 1 |-> IF j < i THEN q[j] ELSE q[j + 1]]
<1>1. Without(q, g) = r BY DEF Without
<1>2. i \in DOMAIN q /\ q[i] = g BY DEF InList
<1>3. n \in Nat /\ DOMAIN q = 1 .. n /\ \A j \in 1 .. n : q[j] \in Gids OBVIOUS
<1> HIDE DEF i, n
<1>4. n - 1 \in Nat BY <1>2, <1>3
<1>5. DOMAIN r = 1 .. n - 1 OBVIOUS
<1>6. \A j \in 1 .. n - 1 : r[j] = IF j < i THEN q[j] ELSE q[j + 1] OBVIOUS
<1>7. r \in Seq(Gids)
  <2>1. \A j \in 1 .. n - 1 : j \in 1 .. n /\ j + 1 \in 1 .. n BY <1>3
  <2>2. r \in [1 .. n - 1 -> Gids] BY <1>3, <2>1
  <2> HIDE DEF r
  <2> QED BY <1>4, <2>2
<1> HIDE DEF r
<1>8. ASSUME NEW x, InList(r, x) PROVE InList(q, x) /\ x # g
  <2>1. PICK j \in 1 .. n - 1 : r[j] = x BY <1>5, <1>8 DEF InList
  <2>2. CASE j < i
    <3>1. j \in 1 .. n /\ q[j] = x /\ j # i BY <1>2, <1>3, <1>6, <2>1, <2>2
    <3> QED BY <1>2, <1>3, <3>1 DEF InList, Distinct
  <2>3. CASE ~(j < i)
    <3>1. j + 1 \in 1 .. n /\ q[j + 1] = x /\ j + 1 # i BY <1>2, <1>3, <1>6, <2>1, <2>3
    <3> QED BY <1>2, <1>3, <3>1 DEF InList, Distinct
  <2> QED BY <2>2, <2>3
<1>9. ASSUME NEW x, InList(q, x), x # g PROVE InList(r, x)
  <2>1. PICK j \in 1 .. n : q[j] = x BY <1>3, <1>9 DEF InList
  <2>2. j # i BY <1>2, <1>9, <2>1
  <2>3. CASE j < i
    <3>1. j \in 1 .. n - 1 /\ r[j] = x BY <1>2, <1>3, <1>6, <2>1, <2>3
    <3> QED BY <1>5, <3>1 DEF InList
  <2>4. CASE i < j
    <3>1. j - 1 \in 1 .. n - 1 /\ ~(j - 1 < i) /\ (j - 1) + 1 = j BY <1>2, <1>3, <2>1, <2>4
    <3>2. r[j - 1] = x BY <1>6, <2>1, <3>1
    <3> QED BY <1>5, <3>1, <3>2 DEF InList
  <2> QED BY <1>2, <1>3, <2>2, <2>3, <2>4
<1>10. ASSUME NEW j \in 1 .. n - 1, NEW k \in 1 .. n - 1, r[j] = r[k] PROVE j = k
  <2>1. j \in 1 .. n /\ j + 1 \in 1 .. n /\ k \in 1 .. n /\ k + 1 \in 1 .. n BY <1>3
  <2>2. j \in Int /\ k \in Int /\ i \in Int BY <1>2, <1>3
  <2> QED BY <1>3, <1>6, <1>10, <2>1, <2>2 DEF Distinct
<1> QED BY <1>1, <1>5, <1>7, <1>8, <1>9, <1>10 DEF Distinct

\* The first group of a list that is not empty is on it.
LEMMA HeadIn ==
  ASSUME NEW q \in Seq(Gids), q # <<>>
  PROVE  Head(q) \in Gids /\ InList(q, Head(q))
<1>1. 1 \in DOMAIN q /\ Head(q) = q[1] OBVIOUS
<1> QED BY <1>1 DEF InList

\* An empty list has no group.
LEMMA EmptyList == Distinct(<<>>) /\ \A x : ~InList(<<>>, x)
BY DEF InList, Distinct
-----------------------------------------------------------------------------
(***************************************************************************)
(* Sums over sets of tasks.  A sum of f over the parts of S is a function  *)
(* that is 0 at the empty set and from which any element may be split off. *)
(***************************************************************************)
Sums(f, S) ==
  {h \in [SUBSET S -> Nat] :
     h[{}] = 0 /\ \A s \in SUBSET S : \A p \in s : h[s] = f[p] + h[s \ {p}]}

\* One more element is added to the sums that contain it.
LEMMA SumsGrow ==
  ASSUME NEW S, NEW x, x \notin S, NEW f, \A p \in S \cup {x} : f[p] \in Nat,
         NEW h \in Sums(f, S)
  PROVE  \E k : k \in Sums(f, S \cup {x})
<1> DEFINE T == S \cup {x}
           k == [s \in SUBSET T |-> IF x \in s THEN h[s \ {x}] + f[x] ELSE h[s]]
<1>1. h \in [SUBSET S -> Nat] /\ h[{}] = 0 /\ \A s \in SUBSET S : \A p \in s : h[s] = f[p] + h[s \ {p}]
  BY DEF Sums
<1>2. \A s \in SUBSET T : s \ {x} \in SUBSET S /\ (x \notin s => s \in SUBSET S) OBVIOUS
<1>3. k \in [SUBSET T -> Nat] BY <1>1, <1>2
<1>4. \A s \in SUBSET T : k[s] = IF x \in s THEN h[s \ {x}] + f[x] ELSE h[s] OBVIOUS
<1>5. k[{}] = 0 BY <1>1, <1>4
<1> HIDE DEF k
<1>6. ASSUME NEW s \in SUBSET T, NEW p \in s PROVE k[s] = f[p] + k[s \ {p}]
  <2>1. s \ {p} \in SUBSET T OBVIOUS
  <2>2. CASE p = x
    <3>1. k[s] = h[s \ {x}] + f[x] /\ k[s \ {p}] = h[s \ {x}] BY <1>4, <2>1, <2>2
    <3>2. h[s \ {x}] \in Nat BY <1>1, <1>2
    <3> QED BY <2>2, <3>1, <3>2
  <2>3. CASE p # x /\ x \in s
    <3>1. k[s] = h[s \ {x}] + f[x] BY <1>4, <2>3
    <3>2. k[s \ {p}] = h[(s \ {p}) \ {x}] + f[x] BY <1>4, <2>1, <2>3
    <3>3. s \ {x} \in SUBSET S /\ p \in s \ {x} BY <1>2, <2>3
    <3>4. h[s \ {x}] = f[p] + h[(s \ {x}) \ {p}] BY <1>1, <3>3
    <3>5. (s \ {x}) \ {p} = (s \ {p}) \ {x} OBVIOUS
    <3>6. (s \ {x}) \ {p} \in SUBSET S BY <3>3
    <3>7. h[s \ {x}] \in Nat /\ h[(s \ {x}) \ {p}] \in Nat BY <1>1, <3>3, <3>6
    <3> HIDE DEF T
    <3> DEFINE a == h[s \ {x}]
               b == h[(s \ {x}) \ {p}]
    <3>8. /\ k[s] = a + f[x] /\ k[s \ {p}] = b + f[x] /\ a = f[p] + b /\ a \in Nat /\ b \in Nat
      BY <3>1, <3>2, <3>4, <3>5, <3>7
    <3>9. f[x] \in Nat /\ f[p] \in Nat BY <3>3
    <3> HIDE DEF a, b
    <3> QED BY <3>8, <3>9
  <2>4. CASE p # x /\ x \notin s
    <3>1. k[s] = h[s] /\ k[s \ {p}] = h[s \ {p}] BY <1>4, <2>1, <2>4
    <3>2. s \in SUBSET S BY <1>2, <2>4
    <3> QED BY <1>1, <3>1, <3>2
  <2> QED BY <2>2, <2>3, <2>4
<1>7. k \in Sums(f, T) BY <1>3, <1>5, <1>6 DEF Sums
<1> QED BY <1>7

\* A finite set has sums.
LEMMA SumsExist ==
  ASSUME NEW S, IsFiniteSet(S), NEW f, \A p \in S : f[p] \in Nat
  PROVE  \E h : h \in Sums(f, S)
<1> DEFINE Has(T) == \E h : h \in Sums(f, T)
           Bad == {n \in Nat : \E T \in SUBSET S : Cardinality(T) = n /\ ~Has(T)}
<1>1. Has({})
  <2> DEFINE h == [s \in SUBSET {} |-> 0]
  <2>1. h \in [SUBSET {} -> Nat] /\ h[{}] = 0 OBVIOUS
  <2>2. \A s \in SUBSET {} : \A p \in s : FALSE OBVIOUS
  <2> HIDE DEF h
  <2>3. h \in Sums(f, {}) BY <2>1, <2>2 DEF Sums
  <2> QED BY <2>3
<1>2. Bad = {}
  <2> SUFFICES ASSUME Bad # {} PROVE FALSE OBVIOUS
  <2>1. PICK n \in Bad : \A m \in Bad : n <= m
    <3>1. Bad \subseteq Nat OBVIOUS
    <3> HIDE DEF Bad
    <3> QED BY <3>1, Least
  <2>2. PICK T \in SUBSET S : Cardinality(T) = n /\ ~Has(T) BY <2>1
  <2>3. T # {} BY <1>1, <2>2
  <2>4. PICK x \in T : TRUE BY <2>3
  <2>5. IsFiniteSet(T) BY FS_Subset
  <2>6. Cardinality(T \ {x}) = n - 1 /\ n \in Nat /\ n - 1 \in Nat
    <3>1. IsFiniteSet(T \ {x}) /\ Cardinality(T \ {x}) = Cardinality(T) - 1
      BY <2>4, <2>5, FS_RemoveElement
    <3>2. Cardinality(T \ {x}) \in Nat BY <3>1, FS_CardinalityType
    <3>3. Cardinality(T) \in Nat BY <2>5, FS_CardinalityType
    <3> QED BY <2>2, <3>1, <3>2, <3>3
  <2>7. ~(n - 1 \in Bad) BY <2>1, <2>6
  <2>8. T \ {x} \in SUBSET S OBVIOUS
  <2>9. Has(T \ {x}) BY <2>6, <2>7, <2>8
  <2>10. PICK h : h \in Sums(f, T \ {x}) BY <2>9
  <2>11. x \notin T \ {x} /\ (T \ {x}) \cup {x} = T BY <2>4
  <2>12. \A p \in (T \ {x}) \cup {x} : f[p] \in Nat BY <2>11
  <2>13. \E k : k \in Sums(f, (T \ {x}) \cup {x}) BY <2>10, <2>11, <2>12, SumsGrow
  <2> QED BY <2>2, <2>11, <2>13
<1>3. Cardinality(S) \in Nat BY FS_CardinalityType
<1>4. S \in SUBSET S OBVIOUS
<1>5. Has(S) BY <1>2, <1>3, <1>4
<1> QED BY <1>5

\* k is 0 at the empty set and splits off some element of every other one.
Splits(k, f, S) ==
  \A s \in SUBSET S : IF s = {} THEN k[s] = 0 ELSE \E p \in s : k[s] = f[p] + k[s \ {p}]

\* A function that splits off one element of every set, whichever, is the sum.
LEMMA SumsUnique ==
  ASSUME NEW S, IsFiniteSet(S), NEW f, \A p \in S : f[p] \in Nat, NEW h \in Sums(f, S), NEW k,
         Splits(k, f, S)
  PROVE  \A s \in SUBSET S : k[s] = h[s]
<1> DEFINE Bad == {n \in Nat : \E s \in SUBSET S : Cardinality(s) = n /\ k[s] # h[s]}
<1>1. /\ h \in [SUBSET S -> Nat] /\ h[{}] = 0
      /\ \A s \in SUBSET S : \A p \in s : h[s] = f[p] + h[s \ {p}]
  BY DEF Sums
<1>2. Bad = {}
  <2> SUFFICES ASSUME Bad # {} PROVE FALSE OBVIOUS
  <2>1. PICK n \in Bad : \A m \in Bad : n <= m
    <3>1. Bad \subseteq Nat OBVIOUS
    <3> HIDE DEF Bad
    <3> QED BY <3>1, Least
  <2>2. PICK s \in SUBSET S : Cardinality(s) = n /\ k[s] # h[s] BY <2>1
  <2>3. s # {} BY <1>1, <2>2 DEF Splits
  <2>4. PICK p \in s : k[s] = f[p] + k[s \ {p}] BY <2>3 DEF Splits
  <2>5. IsFiniteSet(s) BY FS_Subset
  <2>6. Cardinality(s \ {p}) = n - 1 /\ n \in Nat /\ n - 1 \in Nat
    <3>1. IsFiniteSet(s \ {p}) /\ Cardinality(s \ {p}) = Cardinality(s) - 1
      BY <2>4, <2>5, FS_RemoveElement
    <3>2. Cardinality(s \ {p}) \in Nat BY <3>1, FS_CardinalityType
    <3>3. Cardinality(s) \in Nat BY <2>5, FS_CardinalityType
    <3> QED BY <2>2, <3>1, <3>2, <3>3
  <2>7. ~(n - 1 \in Bad) BY <2>1, <2>6
  <2>8. s \ {p} \in SUBSET S OBVIOUS
  <2>9. k[s \ {p}] = h[s \ {p}] BY <2>6, <2>7, <2>8
  <2>10. h[s] = f[p] + h[s \ {p}] BY <1>1
  <2> QED BY <2>2, <2>4, <2>9, <2>10
<1>3. ASSUME NEW s \in SUBSET S PROVE k[s] = h[s]
  <2>1. IsFiniteSet(s) BY FS_Subset
  <2>2. Cardinality(s) \in Nat BY <2>1, FS_CardinalityType
  <2> QED BY <1>2, <2>2
<1> QED BY <1>3

\* The sums over all tasks, of a function from tasks to naturals.
Sum(f) == CHOOSE h : h \in Sums(f, Tasks)

LEMMA SumIs ==
  ASSUME NEW f \in [Tasks -> Nat]
  PROVE  /\ Sum(f) \in [SUBSET Tasks -> Nat] /\ Sum(f)[{}] = 0
         /\ \A s \in SUBSET Tasks : \A p \in s : Sum(f)[s] = f[p] + Sum(f)[s \ {p}]
<1>1. IsFiniteSet(Tasks) BY HrmAssumption
<1>2. Sum(f) \in Sums(f, Tasks) BY <1>1, SumsExist DEF Sum
<1> HIDE DEF Sum
<1> QED BY <1>2 DEF Sums

\* Functions that agree on a set have the same sum over it.
LEMMA SumAgree ==
  ASSUME NEW f \in [Tasks -> Nat], NEW e \in [Tasks -> Nat], NEW S \in SUBSET Tasks,
         \A p \in S : f[p] = e[p]
  PROVE  Sum(f)[S] = Sum(e)[S]
<1> DEFINE h == [s \in SUBSET S |-> Sum(f)[s]]
<1>1. IsFiniteSet(S) BY HrmAssumption, FS_Subset
<1>2. h \in [SUBSET S -> Nat] BY SumIs
<1>3. \A s \in SUBSET S : h[s] = Sum(f)[s] OBVIOUS
<1> HIDE DEF h
<1>4. h[{}] = 0 BY <1>3, SumIs
<1>5. \A s \in SUBSET S : \A p \in s : h[s] = f[p] + h[s \ {p}] 
  <2> SUFFICES ASSUME NEW s \in SUBSET S, NEW p \in s PROVE h[s] = f[p] + h[s \ {p}] OBVIOUS
  <2>1. s \in SUBSET Tasks /\ s \ {p} \in SUBSET S OBVIOUS
  <2>2. Sum(f)[s] = f[p] + Sum(f)[s \ {p}] BY <2>1, SumIs
  <2> QED BY <1>3, <2>1, <2>2
<1>6. h \in Sums(f, S) BY <1>2, <1>4, <1>5 DEF Sums
<1>7. Splits(Sum(e), f, S)
  <2> SUFFICES ASSUME NEW s \in SUBSET S, s # {}
               PROVE  \E p \in s : Sum(e)[s] = f[p] + Sum(e)[s \ {p}]
    BY SumIs DEF Splits
  <2>1. PICK p \in s : TRUE OBVIOUS
  <2>2. s \in SUBSET Tasks OBVIOUS
  <2>3. Sum(e)[s] = e[p] + Sum(e)[s \ {p}] BY <2>1, <2>2, SumIs
  <2>4. f[p] = e[p] OBVIOUS
  <2> QED BY <2>3, <2>4
<1>8. \A p \in S : f[p] \in Nat OBVIOUS
<1>9. \A s \in SUBSET S : Sum(e)[s] = h[s] BY <1>1, <1>6, <1>7, <1>8, SumsUnique
<1> QED BY <1>3, <1>9

\* The heartbeats in the slot of each task.
Sent(gr) == [t \in Tasks |-> gr.counters[gr.slot[t]].counter]

\* What __hrm_update_group_measures adds up is the sum over the producers.
LEMMA TotalIs ==
  ASSUME NEW gr, Sent(gr) \in [Tasks -> Nat], gr.members["producer"] \subseteq Tasks
  PROVE  Total(gr) = gr.history + Sum(Sent(gr))[gr.members["producer"]]
<1> DEFINE S == gr.members["producer"]
           f == Sent(gr)
           pick(s) == CHOOSE x \in s : TRUE
           Rec(it) == it = [s \in SUBSET S |-> IF s = {} THEN 0
                             ELSE gr.counters[gr.slot[pick(s)]].counter + it[s \ {pick(s)}]]
           k == CHOOSE it : Rec(it)
           h == [s \in SUBSET S |-> Sum(f)[s]]
<1>1. Total(gr) = gr.history + k[S] BY DEF Total, MapThenSumSet, MapThenFoldSet
<1>2. IsFiniteSet(S) BY HrmAssumption, FS_Subset
<1>3. \A p \in Tasks : f[p] = gr.counters[gr.slot[p]].counter BY DEF Sent
<1>4. \A s \in SUBSET S : s # {} => pick(s) \in s /\ pick(s) \in Tasks OBVIOUS
<1>5. \A s \in SUBSET S : s # {} => f[pick(s)] = gr.counters[gr.slot[pick(s)]].counter
  BY <1>3, <1>4
<1> HIDE DEF f
<1>6. h \in [SUBSET S -> Nat] BY SumIs DEF f
<1>7. \A s \in SUBSET S : h[s] = Sum(f)[s] OBVIOUS
<1> HIDE DEF h
<1>8. h[{}] = 0 BY <1>7, SumIs DEF f
<1>9. \A s \in SUBSET S : \A p \in s : h[s] = f[p] + h[s \ {p}]
  <2> SUFFICES ASSUME NEW s \in SUBSET S, NEW p \in s PROVE h[s] = f[p] + h[s \ {p}] OBVIOUS
  <2>1. s \in SUBSET Tasks /\ s \ {p} \in SUBSET S OBVIOUS
  <2>2. Sum(f)[s] = f[p] + Sum(f)[s \ {p}] BY <2>1, SumIs DEF f
  <2> QED BY <1>7, <2>1, <2>2
<1>10. h \in Sums(f, S) BY <1>6, <1>8, <1>9 DEF Sums
<1>11. Rec(h)
  <2> DEFINE r == [s \in SUBSET S |-> IF s = {} THEN 0
                   ELSE gr.counters[gr.slot[pick(s)]].counter + h[s \ {pick(s)}]]
  <2>1. ASSUME NEW s \in SUBSET S PROVE h[s] = r[s]
    <3>1. CASE s = {} BY <1>8, <3>1
    <3>2. CASE s # {}
      <4> DEFINE p == pick(s)
      <4>1. r[s] = gr.counters[gr.slot[p]].counter + h[s \ {p}] BY <3>2
      <4>2. p \in s /\ f[p] = gr.counters[gr.slot[p]].counter BY <1>4, <1>5, <3>2
      <4> HIDE DEF p, r
      <4> QED BY <1>9, <4>1, <4>2
    <3> QED BY <3>1, <3>2
  <2>2. DOMAIN r = SUBSET S /\ r = [s \in SUBSET S |-> r[s]] OBVIOUS
  <2>3. h = [s \in SUBSET S |-> h[s]] BY <1>6
  <2> HIDE DEF r
  <2>4. h = r BY <2>1, <2>2, <2>3
  <2> QED BY <2>4 DEF r
<1>12. Rec(k)
  <2>1. \E it : Rec(it) BY <1>11
  <2> HIDE DEF Rec
  <2> QED BY <2>1
<1> HIDE DEF k
<1>13. Splits(k, f, S)
  <2> SUFFICES ASSUME NEW s \in SUBSET S
               PROVE  IF s = {} THEN k[s] = 0 ELSE \E p \in s : k[s] = f[p] + k[s \ {p}]
    BY DEF Splits
  <2>1. k[s] = IF s = {} THEN 0
               ELSE gr.counters[gr.slot[pick(s)]].counter + k[s \ {pick(s)}]
    BY <1>12
  <2> QED BY <1>4, <1>5, <2>1
<1>14. \A p \in S : f[p] \in Nat BY DEF f
<1> HIDE DEF S
<1>15. \A s \in SUBSET S : k[s] = h[s] BY <1>2, <1>10, <1>13, <1>14, SumsUnique
<1>16. S \in SUBSET S OBVIOUS
<1> QED BY <1>1, <1>7, <1>15, <1>16 DEF S, f
-----------------------------------------------------------------------------
(***************************************************************************)
(* The ring of samples, the measures and the table of windows.             *)
(***************************************************************************)
LEMMA SlotInRing ==
  ASSUME NEW a \in Int
  PROVE  a % HRM_MAX_WINDOW_SIZE \in RingIdx
BY WindowAssumption DEF RingIdx

LEMMA EmptyTypes ==
  /\ NoSample \in Sample /\ EmptyRing \in Ring /\ StartedRing \in Ring
  /\ NoMeasures \in Measures /\ NoGoal \in Goal
<1>1. 0 \in RingIdx /\ 1 \in RingIdx /\ 0 \in 0 .. HRM_MAX_WINDOW_SIZE /\ 1 \in 0 .. HRM_MAX_WINDOW_SIZE
  BY WindowAssumption DEF RingIdx
<1>2. NoSample \in Sample BY DEF NoSample, Sample
<1>3. EmptyRing \in Ring BY <1>1, <1>2 DEF EmptyRing, Ring
<1>4. StartedRing \in Ring BY <1>1, <1>3 DEF StartedRing, Ring
<1>5. NoMeasures \in Measures BY DEF NoMeasures, Measures, NoMeasure, Measure
<1>6. NoGoal \in Goal BY DEF NoGoal, Goal
<1> QED BY <1>2, <1>3, <1>4, <1>5, <1>6

\* The sample of the current period goes into one slot.
LEMMA SampledType ==
  ASSUME NEW ring \in Ring, NEW n \in Nat, NEW e \in Nat
  PROVE  /\ Sampled(ring, n, e) \in Ring
         /\ Sampled(ring, n, e).window_cur = ring.window_cur
         /\ Sampled(ring, n, e).buffered = ring.buffered
         /\ \A k \in RingIdx : Sampled(ring, n, e).window[k] =
              IF k = ring.window_cur THEN [counter |-> n, elapsed_time |-> e] ELSE ring.window[k]
BY DEF Sampled, Ring, Sample

LEMMA AdvanceType ==
  ASSUME NEW ring \in Ring
  PROVE  Advance(ring) \in Ring /\ Advance(ring).window = ring.window
<1>1. ring.window_cur \in Int BY WindowAssumption DEF Ring, RingIdx
<1>2. (ring.window_cur + 1) % HRM_MAX_WINDOW_SIZE \in RingIdx BY <1>1, SlotInRing
<1>3. HRM_MAX_WINDOW_SIZE \in Nat /\ ring.buffered \in 0 .. HRM_MAX_WINDOW_SIZE
  BY WindowAssumption DEF Ring
<1>4. (IF ring.buffered < HRM_MAX_WINDOW_SIZE THEN ring.buffered + 1 ELSE ring.buffered)
         \in 0 .. HRM_MAX_WINDOW_SIZE
  BY <1>3
<1> QED BY <1>2, <1>4 DEF Advance, Ring

\* A window is measured from a sample of the ring.
LEMMA FirstOfType ==
  ASSUME NEW ring \in Ring, NEW ws \in Nat
  PROVE  FirstOf(ring, ws) \in RingIdx
<1>1. ring.window_cur \in Int /\ ring.buffered \in Int BY WindowAssumption DEF Ring, RingIdx
<1> DEFINE size == IF ws > ring.buffered THEN ring.buffered ELSE ws
<1>2. size \in Int BY <1>1
<1>3. FirstOf(ring, ws) = (ring.window_cur - size) % HRM_MAX_WINDOW_SIZE BY DEF FirstOf
<1> HIDE DEF size
<1>4. ring.window_cur - size \in Int BY <1>1, <1>2
<1> QED BY <1>3, <1>4, SlotInRing

\* The measures are well typed when no sample of the ring is from the future.
LEMMA UpdateMeasuresType ==
  ASSUME NEW m \in Measures, NEW ring \in Ring, NEW goal \in Goal, NEW n \in Nat, NEW e \in Nat,
         \A k \in RingIdx : ring.window[k].elapsed_time <= e
  PROVE  UpdateMeasures(m, ring, goal, n, e) \in Measures
<1> DEFINE r == Sampled(ring, n, e)
           measured(i) == IF goal.window_size[i] # 0 /\ ring.buffered # 0
                          THEN MeasureWindow(r, n, e, goal.window_size[i])
                          ELSE m.window[i]
<1>1. r \in Ring /\ \A k \in RingIdx : r.window[k].elapsed_time <= e
  <2> DEFINE new == [counter |-> n, elapsed_time |-> e]
  <2>1. /\ r \in Ring
        /\ \A k \in RingIdx : r.window[k] = IF k = ring.window_cur THEN new ELSE ring.window[k]
    BY SampledType
  <2>2. new.elapsed_time <= e OBVIOUS
  <2> HIDE DEF new, r
  <2> QED BY <2>1, <2>2
<1> HIDE DEF r
<1>2. ASSUME NEW i \in Windows PROVE measured(i) \in Measure
  <2>1. goal.window_size[i] \in Nat BY DEF Goal
  <2> DEFINE first == r.window[FirstOf(r, goal.window_size[i])]
  <2>2. first \in Sample /\ first.elapsed_time <= e BY <1>1, <2>1, FirstOfType DEF Ring
  <2>3. MeasureWindow(r, n, e, goal.window_size[i]) =
          [count |-> (n - first.counter) % CountMod, time |-> e - first.elapsed_time]
    BY DEF MeasureWindow
  <2> HIDE DEF first
  <2>4. first.counter \in Nat /\ first.elapsed_time \in Nat BY <2>2 DEF Sample
  <2>5. n - first.counter \in Int BY <2>4
  <2>6. (n - first.counter) % CountMod \in Nat
    <3> DEFINE d == n - first.counter
    <3> HIDE DEF d
    <3>1. d \in Int BY <2>5 DEF d
    <3>2. d % CountMod \in Nat BY <3>1, WindowAssumption
    <3> QED BY <3>2 DEF d
  <2>7. e - first.elapsed_time \in Nat BY <2>2, <2>4
  <2>8. MeasureWindow(r, n, e, goal.window_size[i]) \in Measure BY <2>3, <2>6, <2>7 DEF Measure
  <2>9. m.window[i] \in Measure BY DEF Measures
  <2> QED BY <2>8, <2>9
<1>3. UpdateMeasures(m, ring, goal, n, e) =
        [global |-> [count |-> n, time |-> e], window |-> [i \in Windows |-> measured(i)]]
  BY DEF UpdateMeasures, r
<1> HIDE DEF measured
<1>4. [i \in Windows |-> measured(i)] \in [Windows -> Measure] BY <1>2
<1>5. [count |-> n, time |-> e] \in Measure BY DEF Measure
<1> QED BY <1>3, <1>4, <1>5 DEF Measures

LEMMA AddWindowType ==
  ASSUME NEW goal \in Goal, NEW ws \in Nat, Places(goal, ws) # {}
  PROVE  AddWindow(goal, ws) \in Goal
<1>1. Places(goal, ws) \subseteq Windows /\ Windows \subseteq Nat BY DEF Places, Windows
<1>2. FirstIn(Places(goal, ws)) \in Windows BY <1>1, FirstInIs
<1> QED BY <1>2 DEF AddWindow, Goal

LEMMA DelWindowType ==
  ASSUME NEW goal \in Goal, NEW ws, Holders(goal, ws) # {}
  PROVE  DelWindow(goal, ws) \in Goal
<1>1. Holders(goal, ws) \subseteq Windows /\ Windows \subseteq Nat BY DEF Holders, Windows
<1>2. FirstIn(Holders(goal, ws)) \in Windows BY <1>1, FirstInIs
<1> QED BY <1>2 DEF DelWindow, Goal

LEMMA RememberType ==
  ASSUME NEW q \in Seq(Sample), NEW s \in Sample, NEW n \in Nat \ {0}
  PROVE  /\ Remember(q, s, n) \in Seq(Sample)
         /\ Len(Remember(q, s, n)) = IF Len(q) + 1 > n THEN n ELSE Len(q) + 1
         /\ Remember(q, s, n)[1] = s
         /\ \A i \in 2 .. Len(Remember(q, s, n)) : Remember(q, s, n)[i] = q[i - 1]
<1> DEFINE all == <<s>> \o q
<1>1. /\ all \in Seq(Sample) /\ Len(all) = Len(q) + 1 /\ Len(q) \in Nat /\ all[1] = s
      /\ \A i \in 1 .. Len(q) : all[i + 1] = q[i]
  OBVIOUS
<1>2. Remember(q, s, n) = IF Len(all) > n THEN SubSeq(all, 1, n) ELSE all BY DEF Remember
<1> HIDE DEF all
<1>3. \A i \in 2 .. Len(all) : all[i] = q[i - 1]
  <2> SUFFICES ASSUME NEW i \in 2 .. Len(all) PROVE all[i] = q[i - 1] OBVIOUS
  <2>1. i - 1 \in 1 .. Len(q) /\ (i - 1) + 1 = i BY <1>1
  <2> QED BY <1>1, <2>1
<1>4. CASE Len(all) > n
  <2> DEFINE b == SubSeq(all, 1, n)
  <2>1. b \in Seq(Sample) /\ Len(b) = n /\ \A i \in 1 .. n : b[i] = all[i] BY <1>1, <1>4
  <2> HIDE DEF b
  <2>2. Remember(q, s, n) = b BY <1>2, <1>4 DEF b
  <2> QED BY <1>1, <1>3, <1>4, <2>1, <2>2
<1>5. CASE ~(Len(all) > n) BY <1>1, <1>2, <1>3, <1>5
<1> QED BY <1>4, <1>5
-----------------------------------------------------------------------------
(***************************************************************************)
(* The inductive invariant.                                                *)
(***************************************************************************)
\* A task in a critical section of hrm_groups_lock.
Holding(l) ==
  \/ l.pc \in {"alloc", "destroy"}
  \/ l.exiting /\ l.pc \in {"fold", "release", "unlink"}

\* hrm_groups_lock is held by the task that is in its critical section.
LockExact == \A t \in Tasks : lock = t <=> Holding(loc[t])

\* What a task has in its local variables agrees with the lists of its groups.
LocFits(l, lists) ==
  /\ l.pc \notin {"user", "exit", "dead"} => l.gid \in Gids
  /\ l.exiting => l.pc \in {"fold", "release", "unlink", "destroy"}
  /\ l.pc \in {"map_counters", "map_goal"} =>
       lists[l.role] # <<>> /\ Head(lists[l.role]) = l.gid
  /\ l.pc \in {"fold", "release", "unlink", "set_goal", "del_window"} => InList(lists[l.role], l.gid)
  /\ l.pc \in {"alloc", "fold", "release"} => l.role = "producer"
  /\ l.pc = "alloc" => ~InList(lists["producer"], l.gid)
  /\ l.pc = "dead" => \A r \in Roles : lists[r] = <<>>

LocExact == \A t \in Tasks : LocFits(loc[t], joined[t])

\* No task is in a group twice, and the lists of a group are those of its tasks.
ListsExact   == \A t \in Tasks, r \in Roles : Distinct(joined[t][r])
MembersExact ==
  \A g \in Gids, t \in Tasks, r \in Roles : t \in group[g].members[r] <=> InList(joined[t][r], g)

\* The task l makes or destroys group g.
Making(l, g) == l.pc \in {"alloc", "destroy"} /\ l.gid = g

\* A group is on hrm_groups when it has members.  One that is off it, and not freed,
\* is in the hands of a task, which holds the lock.
StateExact ==
  /\ \A g \in Gids : group[g].state = "listed" <=> ~Empty(group[g])
  /\ \A g \in Gids : group[g].state = "unlisted" => \E t \in Tasks : Making(loc[t], g)
  /\ \A t \in Tasks : loc[t].pc = "alloc" => group[loc[t].gid].state # "none"
  /\ \A t \in Tasks : loc[t].pc = "destroy" => group[loc[t].gid].state = "unlisted"

\* The timer was started when the group has a timestamp, and it has one while it has
\* producers.
TimerFits(gr) ==
  /\ gr.timestamp # 0 <=> gr.armed \/ gr.running
  /\ gr.state = "none" => gr.timestamp = 0
  /\ gr.members["producer"] # {} => gr.timestamp # 0

TimerExact == \A g \in Gids : TimerFits(group[g])

\* No sample is from the future.
SampledBefore(gr, time) ==
  /\ gr.timestamp <= time
  /\ \A k \in RingIdx : gr.timestamp + gr.ring.window[k].elapsed_time <= time

TimeExact == now <= MaxTime /\ \A g \in Gids : SampledBefore(group[g], now)

IInv ==
  /\ TypeOK /\ LockExact /\ LocExact /\ ListsExact /\ MembersExact /\ StateExact
  /\ TimerExact /\ TimeExact
-----------------------------------------------------------------------------
(***************************************************************************)
(* Types.                                                                  *)
(***************************************************************************)
LEMMA GroupFields ==
  ASSUME NEW gr \in GroupRec
  PROVE  /\ gr.state \in {"none", "listed", "unlisted"} /\ gr.allocation \in SUBSET Slots
         /\ gr.counters \in [Slots -> Counter] /\ gr.slot \in [Tasks -> Slots]
         /\ gr.history \in Nat /\ gr.ring \in Ring /\ gr.measures \in Measures
         /\ gr.goal \in Goal /\ gr.timestamp \in Nat /\ gr.armed \in BOOLEAN
         /\ gr.running \in BOOLEAN /\ gr.members \in [Roles -> SUBSET Tasks]
         /\ gr.maps \in [Memories -> [Pids -> Nat]]
BY DEF GroupRec

\* Writing one field keeps the type of a group.
LEMMA PutField ==
  ASSUME NEW gr \in GroupRec
  PROVE  /\ \A v \in {"none", "listed", "unlisted"} : [gr EXCEPT !.state = v] \in GroupRec
         /\ \A v \in SUBSET Slots : [gr EXCEPT !.allocation = v] \in GroupRec
         /\ \A v \in [Slots -> Counter] : [gr EXCEPT !.counters = v] \in GroupRec
         /\ \A v \in [Tasks -> Slots] : [gr EXCEPT !.slot = v] \in GroupRec
         /\ \A v \in Nat : [gr EXCEPT !.history = v] \in GroupRec
         /\ \A v \in Goal : [gr EXCEPT !.goal = v] \in GroupRec
         /\ \A v \in [Memories -> [Pids -> Nat]] : [gr EXCEPT !.maps = v] \in GroupRec
         /\ \A v \in [Roles -> SUBSET Tasks] : [gr EXCEPT !.members = v] \in GroupRec
BY DEF GroupRec

LEMMA LocFields ==
  ASSUME NEW l \in LocRec
  PROVE  /\ l.pc \in {"user", "alloc", "map_counters", "map_goal", "fold", "release", "unlink",
                      "destroy", "exit", "dead", "set_goal", "del_window"}
         /\ l.gid \in Gids \cup {0} /\ l.role \in Roles /\ l.exiting \in BOOLEAN
         /\ l.value \in Nat /\ l.word \in SUBSET Slots /\ l.size \in Nat
BY DEF LocRec

LEMMA SlotTypes == 0 \in Slots /\ Slots \subseteq Nat
BY HrmAssumption DEF Slots

LEMMA RoleTypes == "producer" \in Roles /\ "consumer" \in Roles
BY DEF Roles

LEMMA NoGroupType == NoGroup \in GroupRec
<1>1. [k \in Slots |-> [tid |-> NoTask, used |-> FALSE, counter |-> 0]] \in [Slots -> Counter]
  BY DEF Counter
<1>2. [t \in Tasks |-> 0] \in [Tasks -> Slots] BY SlotTypes
<1> QED BY <1>1, <1>2, EmptyTypes DEF NoGroup, GroupRec

LEMMA AtUserType == AtUser \in LocRec
BY RoleTypes DEF AtUser, LocRec

LEMMA FindOrCreateType ==
  ASSUME TypeOK, NEW g \in Gids
  PROVE  /\ FindOrCreate(g) \in GroupRec
         /\ FindOrCreate(g) =
              IF group[g].state = "none" THEN [NoGroup EXCEPT !.state = "unlisted"] ELSE group[g]
<1>1. [NoGroup EXCEPT !.state = "unlisted"] \in GroupRec BY NoGroupType DEF GroupRec
<1> QED BY <1>1 DEF FindOrCreate, TypeOK

\* The heartbeats in the slots are naturals.
LEMMA SentType ==
  ASSUME NEW gr \in GroupRec
  PROVE  Sent(gr) \in [Tasks -> Nat] /\ \A t \in Tasks : Sent(gr)[t] = gr.counters[gr.slot[t]].counter
<1>1. \A t \in Tasks : gr.counters[gr.slot[t]] \in Counter BY GroupFields
<1>2. \A t \in Tasks : gr.counters[gr.slot[t]].counter \in Nat BY <1>1 DEF Counter
<1> QED BY <1>2 DEF Sent

LEMMA TotalType ==
  ASSUME NEW gr \in GroupRec
  PROVE  /\ Total(gr) \in Nat
         /\ Total(gr) = gr.history + Sum(Sent(gr))[gr.members["producer"]]
<1>1. Sent(gr) \in [Tasks -> Nat] BY SentType
<1>2. gr.members["producer"] \subseteq Tasks /\ gr.history \in Nat BY GroupFields, RoleTypes
<1>3. Total(gr) = gr.history + Sum(Sent(gr))[gr.members["producer"]] BY <1>1, <1>2, TotalIs
<1>4. Sum(Sent(gr)) \in [SUBSET Tasks -> Nat] BY <1>1, SumIs
<1> QED BY <1>2, <1>3, <1>4

LEMMA LeavingType ==
  ASSUME TypeOK, NEW t \in Tasks, NEW g \in Gids, NEW role \in Roles, NEW exiting \in BOOLEAN
  PROVE  /\ Leaving(t, g, role, exiting) \in LocRec
         /\ Leaving(t, g, role, exiting).pc = IF role = "producer" THEN "fold" ELSE "unlink"
         /\ Leaving(t, g, role, exiting).gid = g
         /\ Leaving(t, g, role, exiting).role = role
         /\ Leaving(t, g, role, exiting).exiting = exiting
<1> DEFINE n == group[g].history + group[g].counters[SlotOf(t, g)].counter
           v == IF role = "producer" THEN n ELSE 0
<1>1. group[g] \in GroupRec BY DEF TypeOK
<1>2. group[g].history \in Nat /\ group[g].counters[SlotOf(t, g)] \in Counter
  BY <1>1, GroupFields DEF SlotOf
<1>3. n \in Nat BY <1>2 DEF Counter
<1>4. v \in Nat BY <1>3
<1>5. Leaving(t, g, role, exiting) =
        [AtUser EXCEPT !.pc = IF role = "producer" THEN "fold" ELSE "unlink",
                       !.gid = g, !.role = role, !.exiting = exiting, !.value = v]
  BY DEF Leaving
<1> HIDE DEF v
<1> DEFINE pc == IF role = "producer" THEN "fold" ELSE "unlink"
<1>6. pc \in {"fold", "unlink"} OBVIOUS
<1>7. Leaving(t, g, role, exiting) =
        [pc |-> pc, gid |-> g, role |-> role, exiting |-> exiting, value |-> v,
         word |-> {}, size |-> 0]
  BY <1>5 DEF AtUser
<1> HIDE DEF pc
<1>8. Leaving(t, g, role, exiting) \in LocRec BY <1>4, <1>6, <1>7 DEF LocRec
<1> QED BY <1>7, <1>8 DEF pc

\* A step that moves one task and rewrites one group keeps the types.
LEMMA MoveType ==
  ASSUME TypeOK, NEW t \in Tasks, NEW l \in LocRec, loc' = [loc EXCEPT ![t] = l],
         group' \in [Gids -> GroupRec], lock' \in Tasks \cup {NoTask},
         joined' \in [Tasks -> [Roles -> Seq(Gids)]],
         mapped' \in [Tasks -> [Roles -> [Gids -> SUBSET Memories]]],
         UNCHANGED <<now, beats, samples>>
  PROVE  TypeOK'
BY DEF TypeOK

\* Assigning a group keeps the type of the groups.
LEMMA PutGroupType ==
  ASSUME TypeOK, NEW g \in Gids, NEW gr \in GroupRec
  PROVE  [group EXCEPT ![g] = gr] \in [Gids -> GroupRec]
BY DEF TypeOK

LEMMA BeginLeaveGroup ==
  ASSUME TypeOK, NEW t \in Tasks, NEW g \in Gids, NEW role \in Roles, BeginLeave(t, g, role)
  PROVE  /\ group' \in [Gids -> GroupRec]
         /\ group' = IF role = "producer"
                     THEN [group EXCEPT ![g].counters[SlotOf(t, g)].used = FALSE] ELSE group
         /\ loc' = [loc EXCEPT ![t] = Leaving(t, g, role, FALSE)]
<1>1. SlotOf(t, g) \in Slots BY DEF TypeOK, GroupRec, SlotOf
<1> DEFINE k == SlotOf(t, g)
<1>2. group[g] \in GroupRec /\ group[g].counters \in [Slots -> Counter] BY GroupFields DEF TypeOK
<1>3. [group[g].counters EXCEPT ![k].used = FALSE] \in [Slots -> Counter] BY <1>1, <1>2 DEF Counter
<1>4. [group EXCEPT ![g].counters[k].used = FALSE] \in [Gids -> GroupRec]
  <2> DEFINE c == [group[g].counters EXCEPT ![k].used = FALSE]
             gr == [group[g] EXCEPT !.counters = c]
  <2>1. [group EXCEPT ![g].counters[k].used = FALSE] = [group EXCEPT ![g] = gr] OBVIOUS
  <2>2. c \in [Slots -> Counter] BY <1>3
  <2> HIDE DEF c, k
  <2>3. gr \in GroupRec BY <1>2, <2>2, PutField
  <2> HIDE DEF gr
  <2> QED BY <2>1, <2>3, PutGroupType
<1> QED BY <1>4 DEF BeginLeave, Goto, TypeOK
-----------------------------------------------------------------------------
(***************************************************************************)
(* Steps of one task that change nobody's membership.                      *)
(***************************************************************************)
\* Two versions of a group that the invariant does not tell apart.
SameBones(a, b) ==
  /\ a.state = b.state /\ a.members = b.members /\ a.timestamp = b.timestamp
  /\ a.armed = b.armed /\ a.running = b.running /\ a.ring = b.ring

\* Task t goes on to l, in no critical section that makes or destroys a group, and
\* may take the lock.
MovesTo(t, l) ==
  /\ \A g \in Gids : SameBones(group'[g], group[g])
  /\ UNCHANGED <<joined, now>>
  /\ loc' = [loc EXCEPT ![t] = l] /\ LocFits(l, joined[t])
  /\ l.pc \notin {"alloc", "destroy"} /\ loc[t].pc \notin {"alloc", "destroy"}
  /\ \/ lock' = lock /\ (Holding(l) <=> Holding(loc[t]))
     \/ lock = NoTask /\ lock' = t /\ Holding(l)

LEMMA MovesKeeps ==
  ASSUME IInv, NEW t \in Tasks, NEW l, MovesTo(t, l), TypeOK'
  PROVE  IInv'
<1>1. TypeOK /\ LockExact /\ LocExact /\ ListsExact /\ MembersExact /\ StateExact /\ TimerExact /\ TimeExact
  BY DEF IInv
<1>2. \A g \in Gids : SameBones(group'[g], group[g]) BY DEF MovesTo
<1>3. joined' = joined /\ now' = now BY DEF MovesTo
<1>4. \A u \in Tasks : loc'[u] = IF u = t THEN l ELSE loc[u] BY <1>1 DEF MovesTo, TypeOK
<1>5. LockExact'
  <2> SUFFICES ASSUME NEW u \in Tasks PROVE lock' = u <=> Holding(loc'[u]) BY DEF LockExact, Holding
  <2>1. lock = t <=> Holding(loc[t]) BY <1>1 DEF LockExact
  <2>2. lock = u <=> Holding(loc[u]) BY <1>1 DEF LockExact
  <2>3. NoTask \notin Tasks BY HrmAssumption
  <2> QED BY <1>4, <2>1, <2>2, <2>3 DEF MovesTo
<1>6. LocExact'
  <2>1. LocFits(l, joined[t]) BY DEF MovesTo
  <2>2. \A u \in Tasks : LocFits(loc'[u], joined[u]) BY <1>1, <1>4, <2>1 DEF LocExact
  <2> QED BY <1>3, <2>2 DEF LocExact, LocFits, InList
<1>7. ListsExact' BY <1>1, <1>3 DEF ListsExact, Distinct
<1>8. MembersExact' BY <1>1, <1>2, <1>3 DEF MembersExact, SameBones, InList
<1>9. StateExact'
  <2>1. \A g \in Gids : group'[g].state = group[g].state /\ group'[g].members = group[g].members
    BY <1>2 DEF SameBones
  <2>2. \A g \in Gids : group'[g].state = "listed" <=> ~Empty(group'[g])
    BY <1>1, <2>1 DEF StateExact, Empty
  <2>3. \A u \in Tasks, g \in Gids : Making(loc[u], g) => Making(loc'[u], g)
    BY <1>4 DEF MovesTo, Making
  <2>4. \A g \in Gids : group'[g].state = "unlisted" => \E u \in Tasks : Making(loc'[u], g)
    BY <1>1, <2>1, <2>3 DEF StateExact
  <2>5. \A u \in Tasks : loc'[u].pc \in {"alloc", "destroy"} =>
                           loc'[u] = loc[u] /\ loc[u].gid \in Gids
    BY <1>1, <1>4 DEF MovesTo, LocExact, LocFits
  <2>6. \A u \in Tasks : loc'[u].pc = "alloc" => group'[loc'[u].gid].state # "none"
    BY <1>1, <2>1, <2>5 DEF StateExact
  <2>7. \A u \in Tasks : loc'[u].pc = "destroy" => group'[loc'[u].gid].state = "unlisted"
    BY <1>1, <2>1, <2>5 DEF StateExact
  <2> QED BY <2>2, <2>4, <2>6, <2>7 DEF StateExact, Empty, Making
<1>10. TimerExact'
  <2> SUFFICES ASSUME NEW g \in Gids PROVE TimerFits(group'[g]) BY DEF TimerExact, TimerFits
  <2> QED BY <1>1, <1>2 DEF TimerExact, TimerFits, SameBones
<1>11. TimeExact'
  <2> SUFFICES ASSUME NEW g \in Gids PROVE SampledBefore(group'[g], now)
    BY <1>1, <1>3 DEF TimeExact, SampledBefore
  <2> QED BY <1>1, <1>2 DEF TimeExact, SampledBefore, SameBones
<1> QED BY <1>5, <1>6, <1>7, <1>8, <1>9, <1>10, <1>11 DEF IInv

\* What the invariant says of one task.
LEMMA TaskFacts ==
  ASSUME IInv, NEW t \in Tasks
  PROVE  /\ TypeOK /\ loc[t] \in LocRec /\ LocFits(loc[t], joined[t])
         /\ \A r \in Roles : joined[t][r] \in Seq(Gids) /\ Distinct(joined[t][r])
BY DEF IInv, TypeOK, LocExact, ListsExact

\* A step that changes one group in nothing the invariant looks at.
LEMMA PutBones ==
  ASSUME TypeOK, NEW g \in Gids, NEW gr \in GroupRec, SameBones(gr, group[g]),
         group' = [group EXCEPT ![g] = gr]
  PROVE  group' \in [Gids -> GroupRec] /\ \A h \in Gids : SameBones(group'[h], group[h])
BY DEF TypeOK, SameBones

LEMMA FoldKeeps == ASSUME IInv, NEW t \in Tasks, Fold(t) PROVE IInv'
<1> DEFINE g == loc[t].gid
           v == loc[t].value
           gr == [group[g] EXCEPT !.history = v]
           l == [loc[t] EXCEPT !.pc = "release", !.value = 0, !.word = group[g].allocation]
<1>1. TypeOK /\ loc[t] \in LocRec /\ LocFits(loc[t], joined[t]) BY TaskFacts
<1>2. loc[t].pc = "fold" /\ g \in Gids /\ v \in Nat BY <1>1, LocFields DEF Fold, LocFits
<1>3. group[g] \in GroupRec BY <1>1, <1>2 DEF TypeOK
<1>4. /\ group' = [group EXCEPT ![g] = gr] /\ loc' = [loc EXCEPT ![t] = l]
      /\ UNCHANGED <<joined, mapped, lock, now, beats, samples>>
  BY DEF Fold, Goto
<1>5. gr \in GroupRec BY <1>2, <1>3, PutField
<1>6. SameBones(gr, group[g]) BY <1>3 DEF SameBones, GroupRec
<1>7. l \in LocRec BY <1>1, <1>3, GroupFields DEF LocRec
<1>8. /\ l.pc = "release" /\ l.gid = g /\ l.role = loc[t].role /\ l.exiting = loc[t].exiting
  BY <1>1 DEF LocRec
<1> HIDE DEF gr, l
<1>9. group' \in [Gids -> GroupRec] /\ \A h \in Gids : SameBones(group'[h], group[h])
  BY <1>1, <1>2, <1>4, <1>5, <1>6, PutBones
<1>10. TypeOK'
  <2>1. lock' \in Tasks \cup {NoTask} /\ joined' \in [Tasks -> [Roles -> Seq(Gids)]]
        /\ mapped' \in [Tasks -> [Roles -> [Gids -> SUBSET Memories]]]
    BY <1>1, <1>4 DEF TypeOK
  <2> QED BY <1>1, <1>4, <1>7, <1>9, <2>1, MoveType
<1>11. LocFits(l, joined[t]) BY <1>1, <1>2, <1>8 DEF LocFits
<1>12. Holding(l) <=> Holding(loc[t]) BY <1>2, <1>8 DEF Holding
<1>13. MovesTo(t, l) BY <1>2, <1>4, <1>8, <1>9, <1>11, <1>12 DEF MovesTo
<1> QED BY <1>10, <1>13, MovesKeeps

LEMMA ReleaseKeeps == ASSUME IInv, NEW t \in Tasks, Release(t) PROVE IInv'
<1> DEFINE g == loc[t].gid
           v == loc[t].word \ {SlotOf(t, g)}
           gr == [group[g] EXCEPT !.allocation = v]
           l == [loc[t] EXCEPT !.pc = "unlink", !.word = {}]
<1>1. TypeOK /\ loc[t] \in LocRec /\ LocFits(loc[t], joined[t]) BY TaskFacts
<1>2. loc[t].pc = "release" /\ g \in Gids /\ v \in SUBSET Slots
  BY <1>1, LocFields DEF Release, LocFits
<1>3. group[g] \in GroupRec BY <1>1, <1>2 DEF TypeOK
<1>4. /\ group' = [group EXCEPT ![g] = gr] /\ loc' = [loc EXCEPT ![t] = l]
      /\ UNCHANGED <<joined, mapped, lock, now, beats, samples>>
  BY DEF Release, Goto
<1> HIDE DEF v
<1>5. gr \in GroupRec BY <1>2, <1>3, PutField
<1>6. SameBones(gr, group[g]) BY <1>3 DEF SameBones, GroupRec
<1>7. l \in LocRec BY <1>1 DEF LocRec
<1>8. /\ l.pc = "unlink" /\ l.gid = g /\ l.role = loc[t].role /\ l.exiting = loc[t].exiting
  BY <1>1 DEF LocRec
<1> HIDE DEF gr, l
<1>9. group' \in [Gids -> GroupRec] /\ \A h \in Gids : SameBones(group'[h], group[h])
  BY <1>1, <1>2, <1>4, <1>5, <1>6, PutBones
<1>10. TypeOK'
  <2>1. lock' \in Tasks \cup {NoTask} /\ joined' \in [Tasks -> [Roles -> Seq(Gids)]]
        /\ mapped' \in [Tasks -> [Roles -> [Gids -> SUBSET Memories]]]
    BY <1>1, <1>4 DEF TypeOK
  <2> QED BY <1>1, <1>4, <1>7, <1>9, <2>1, MoveType
<1>11. LocFits(l, joined[t]) BY <1>1, <1>2, <1>8 DEF LocFits
<1>12. Holding(l) <=> Holding(loc[t]) BY <1>2, <1>8 DEF Holding
<1>13. MovesTo(t, l) BY <1>2, <1>4, <1>8, <1>9, <1>11, <1>12 DEF MovesTo
<1> QED BY <1>10, <1>13, MovesKeeps

\* The actions that only change where the task is.
LEMMA LocOnlyKeeps ==
  ASSUME IInv, NEW t \in Tasks, NEW l \in LocRec, loc' = [loc EXCEPT ![t] = l],
         UNCHANGED <<group, joined, mapped, now, beats, samples>>, LocFits(l, joined[t]),
         l.pc \notin {"alloc", "destroy"}, loc[t].pc \notin {"alloc", "destroy"},
         \/ lock' = lock /\ (Holding(l) <=> Holding(loc[t]))
         \/ lock = NoTask /\ lock' = t /\ Holding(l)
  PROVE  IInv'
<1>1. TypeOK BY DEF IInv
<1>2. TypeOK'
  <2>1. lock' \in Tasks \cup {NoTask} BY <1>1 DEF TypeOK
  <2>2. /\ group' \in [Gids -> GroupRec] /\ joined' \in [Tasks -> [Roles -> Seq(Gids)]]
        /\ mapped' \in [Tasks -> [Roles -> [Gids -> SUBSET Memories]]]
    BY <1>1 DEF TypeOK
  <2> QED BY <1>1, <2>1, <2>2, MoveType
<1>3. \A h \in Gids : SameBones(group'[h], group[h]) BY DEF SameBones
<1>4. MovesTo(t, l) BY <1>3 DEF MovesTo
<1> QED BY <1>2, <1>4, MovesKeeps

\* A task that does nothing for a group fits any lists; a dead one has none.
LEMMA IdleFits ==
  ASSUME NEW l \in LocRec, NEW lists, ~l.exiting,
         \/ l.pc \in {"user", "exit"}
         \/ l.pc = "dead" /\ \A r \in Roles : lists[r] = <<>>
  PROVE  LocFits(l, lists) /\ ~Holding(l)
BY DEF LocFits, Holding

LEMMA ExitKeeps == ASSUME IInv, NEW t \in Tasks, Exit(t) PROVE IInv'
<1> DEFINE l == [AtUser EXCEPT !.pc = "exit"]
<1>1. LocFits(loc[t], joined[t]) BY TaskFacts
<1>2. l \in LocRec /\ l.pc = "exit" /\ ~l.exiting BY AtUserType DEF AtUser, LocRec
<1>3. loc' = [loc EXCEPT ![t] = l] /\ UNCHANGED <<group, joined, mapped, lock, now, beats, samples>>
  BY DEF Exit, Goto
<1>4. loc[t].pc \in {"user", "map_counters", "map_goal", "set_goal", "del_window"} BY DEF Exit
<1> HIDE DEF l
<1>5. LocFits(l, joined[t]) /\ ~Holding(l) BY <1>2, IdleFits
<1>6. ~Holding(loc[t]) BY <1>4 DEF Holding
<1> QED BY <1>2, <1>3, <1>4, <1>5, <1>6, LocOnlyKeeps

LEMMA ExitDoneKeeps == ASSUME IInv, NEW t \in Tasks, ExitDone(t) PROVE IInv'
<1> DEFINE l == [AtUser EXCEPT !.pc = "dead"]
<1>1. LocFits(loc[t], joined[t]) BY TaskFacts
<1>2. l \in LocRec /\ l.pc = "dead" /\ ~l.exiting BY AtUserType DEF AtUser, LocRec
<1>3. loc' = [loc EXCEPT ![t] = l] /\ UNCHANGED <<group, joined, mapped, lock, now, beats, samples>>
  BY DEF ExitDone, Goto
<1>4. loc[t].pc = "exit" /\ \A r \in Roles : joined[t][r] = <<>> BY DEF ExitDone
<1> HIDE DEF l
<1>5. LocFits(l, joined[t]) /\ ~Holding(l) BY <1>2, <1>4, IdleFits
<1>6. ~Holding(loc[t]) BY <1>4 DEF Holding
<1> QED BY <1>2, <1>3, <1>4, <1>5, <1>6, LocOnlyKeeps

LEMMA ForkKeeps == ASSUME IInv, NEW t \in Tasks, Fork(t) PROVE IInv'
<1> DEFINE l == AtUser
<1>1. TypeOK /\ LocFits(loc[t], joined[t]) BY TaskFacts
<1>2. l \in LocRec /\ l.pc = "user" /\ ~l.exiting BY AtUserType DEF AtUser
<1>3. loc[t].pc = "dead" /\ \A r \in Roles : joined[t][r] = <<>> BY <1>1 DEF Fork, LocFits
<1>4. joined' = joined
  <2> DEFINE none == [r \in Roles |-> <<>>]
  <2>1. joined[t] \in [Roles -> Seq(Gids)] BY <1>1 DEF TypeOK
  <2>2. joined[t] = none BY <1>3, <2>1
  <2>3. joined' = [joined EXCEPT ![t] = none] BY DEF Fork
  <2> HIDE DEF none
  <2>4. joined' = [joined EXCEPT ![t] = joined[t]] BY <2>2, <2>3
  <2>5. joined \in [Tasks -> [Roles -> Seq(Gids)]] BY <1>1 DEF TypeOK
  <2> QED BY <2>4, <2>5
<1>5. loc' = [loc EXCEPT ![t] = l] /\ UNCHANGED <<group, joined, mapped, lock, now, beats, samples>>
  BY <1>4 DEF Fork, Goto
<1> HIDE DEF l
<1>6. LocFits(l, joined[t]) /\ ~Holding(l) BY <1>2, IdleFits
<1>7. ~Holding(loc[t]) BY <1>3 DEF Holding
<1> QED BY <1>2, <1>3, <1>5, <1>6, <1>7, LocOnlyKeeps

LEMMA ExitGroupsKeeps == ASSUME IInv, NEW t \in Tasks, NEW role \in Roles, ExitGroups(t, role) PROVE IInv'
<1> DEFINE g == Head(joined[t][role])
           l == Leaving(t, g, role, TRUE)
<1>1. TypeOK /\ joined[t][role] \in Seq(Gids) BY TaskFacts
<1>2. joined[t][role] # <<>> /\ loc[t].pc = "exit" /\ lock = NoTask /\ lock' = t BY DEF ExitGroups
<1>3. g \in Gids /\ InList(joined[t][role], g) BY <1>1, <1>2, HeadIn
<1>4. loc' = [loc EXCEPT ![t] = l] /\ UNCHANGED <<group, joined, mapped, now, beats, samples>>
  BY DEF ExitGroups, Goto
<1> HIDE DEF g
<1>5. /\ l \in LocRec /\ l.pc = (IF role = "producer" THEN "fold" ELSE "unlink")
      /\ l.gid = g /\ l.role = role /\ l.exiting
  BY <1>1, <1>3, LeavingType
<1> HIDE DEF l
<1>6. LocFits(l, joined[t]) BY <1>3, <1>5 DEF LocFits
<1>7. Holding(l) BY <1>5 DEF Holding
<1>8. l.pc \notin {"alloc", "destroy"} BY <1>5
<1> QED BY <1>2, <1>4, <1>5, <1>6, <1>7, <1>8, LocOnlyKeeps

LEMMA BeginDelWindowKeeps ==
  ASSUME IInv, NEW t \in Tasks, NEW g \in Gids, NEW ws \in WindowAsks, BeginDelWindow(t, g, ws)
  PROVE  IInv'
<1> DEFINE l == [AtUser EXCEPT !.pc = "del_window", !.gid = g, !.size = ws]
<1>1. ws \in Nat BY HrmAssumption
<1>2. l \in LocRec /\ l.pc = "del_window" /\ ~l.exiting /\ l.gid = g /\ l.role = "producer"
  BY <1>1, AtUserType DEF AtUser, LocRec
<1>3. loc' = [loc EXCEPT ![t] = l] /\ UNCHANGED <<group, joined, mapped, lock, now, beats, samples>>
  BY DEF BeginDelWindow, Goto
<1>4. loc[t].pc = "user" /\ InList(joined[t]["producer"], g)
  BY DEF BeginDelWindow, Attached, Joined, InList
<1> HIDE DEF l
<1>5. LocFits(l, joined[t]) /\ ~Holding(l) BY <1>2, <1>4 DEF LocFits, Holding
<1>6. ~Holding(loc[t])
  <2>1. LocFits(loc[t], joined[t]) BY TaskFacts
  <2> QED BY <1>4, <2>1 DEF Holding, LocFits
<1> QED BY <1>2, <1>3, <1>4, <1>5, <1>6, LocOnlyKeeps

\* The actions that also change one group in what the invariant does not look at.
LEMMA PutKeeps ==
  ASSUME IInv, NEW t \in Tasks, NEW l \in LocRec, loc' = [loc EXCEPT ![t] = l],
         NEW g \in Gids, NEW gr \in GroupRec, group' = [group EXCEPT ![g] = gr],
         SameBones(gr, group[g]),
         UNCHANGED <<joined, lock, now, samples>>,
         mapped' \in [Tasks -> [Roles -> [Gids -> SUBSET Memories]]], beats' \in [Gids -> Nat],
         LocFits(l, joined[t]), ~Holding(l), ~Holding(loc[t])
  PROVE  IInv'
<1>1. TypeOK BY DEF IInv
<1>2. group' \in [Gids -> GroupRec] /\ \A h \in Gids : SameBones(group'[h], group[h])
  BY <1>1, PutBones
<1>3. TypeOK' BY <1>1, <1>2 DEF TypeOK
<1>4. MovesTo(t, l) BY <1>2 DEF MovesTo, Holding
<1> QED BY <1>3, <1>4, MovesKeeps

\* The same, of a task that stays where it is.
LEMMA PutStays ==
  ASSUME IInv, NEW t \in Tasks, NEW g \in Gids, NEW gr \in GroupRec,
         group' = [group EXCEPT ![g] = gr], SameBones(gr, group[g]),
         UNCHANGED <<joined, mapped, loc, lock, now, samples>>, beats' \in [Gids -> Nat],
         loc[t].pc = "user"
  PROVE  IInv'
<1>1. TypeOK /\ loc[t] \in LocRec /\ LocFits(loc[t], joined[t]) BY TaskFacts
<1>2. loc' = [loc EXCEPT ![t] = loc[t]] BY <1>1 DEF TypeOK
<1>3. ~Holding(loc[t]) BY <1>1 DEF Holding, LocFits
<1>4. mapped' \in [Tasks -> [Roles -> [Gids -> SUBSET Memories]]] BY <1>1 DEF TypeOK
<1> QED BY <1>1, <1>2, <1>3, <1>4, PutKeeps

LEMMA HeartbeatKeeps == ASSUME IInv, NEW t \in Tasks, NEW g \in Gids, Heartbeat(t, g) PROVE IInv'
<1> DEFINE k == SlotOf(t, g)
           c == [group[g].counters EXCEPT ![k].counter = @ + 1]
           gr == [group[g] EXCEPT !.counters = c]
<1>1. TypeOK /\ group[g] \in GroupRec BY TaskFacts DEF TypeOK
<1>2. k \in Slots /\ group[g].counters \in [Slots -> Counter] BY <1>1, GroupFields DEF SlotOf
<1>3. c \in [Slots -> Counter] BY <1>2 DEF Counter
<1>4. group' = [group EXCEPT ![g] = gr] BY DEF Heartbeat
<1>5. beats' \in [Gids -> Nat] BY <1>1 DEF Heartbeat, TypeOK
<1>6. UNCHANGED <<joined, mapped, loc, lock, now, samples>> /\ loc[t].pc = "user" BY DEF Heartbeat
<1> HIDE DEF c
<1>7. gr \in GroupRec BY <1>1, <1>3, PutField
<1>8. SameBones(gr, group[g]) BY <1>1 DEF SameBones, GroupRec
<1> HIDE DEF gr
<1> QED BY <1>4, <1>5, <1>6, <1>7, <1>8, PutStays

\* Changing the goal of a group keeps the rest of it.
LEMMA PutGoal ==
  ASSUME TypeOK, NEW g \in Gids, NEW goal \in Goal
  PROVE  LET gr == [group[g] EXCEPT !.goal = goal]
         IN  gr \in GroupRec /\ SameBones(gr, group[g])
<1> DEFINE gr == [group[g] EXCEPT !.goal = goal]
<1>1. group[g] \in GroupRec BY DEF TypeOK
<1>2. gr \in GroupRec BY <1>1, PutField
<1>3. SameBones(gr, group[g]) BY <1>1 DEF SameBones, GroupRec
<1> QED BY <1>2, <1>3

LEMMA AddKeeps ==
  ASSUME IInv, NEW t \in Tasks, NEW g \in Gids, NEW role \in Roles, NEW ws \in WindowAsks,
         Add(t, g, role, ws)
  PROVE  IInv'
<1> DEFINE goal == AddWindow(group[g].goal, ws)
           gr == [group[g] EXCEPT !.goal = goal]
<1>1. TypeOK /\ group[g].goal \in Goal BY TaskFacts, GroupFields DEF TypeOK
<1>2. ws \in Nat BY HrmAssumption
<1>3. goal \in Goal BY <1>1, <1>2, AddWindowType DEF Add
<1>4. group' = [group EXCEPT ![g] = gr] BY DEF Add
<1>5. UNCHANGED <<joined, mapped, loc, lock, now, beats, samples>> /\ loc[t].pc = "user"
  BY DEF Add, Attached
<1>6. beats' \in [Gids -> Nat] BY <1>1, <1>5 DEF TypeOK
<1> HIDE DEF goal
<1>7. gr \in GroupRec /\ SameBones(gr, group[g]) BY <1>1, <1>3, PutGoal
<1> HIDE DEF gr
<1> QED BY <1>4, <1>5, <1>6, <1>7, PutStays

LEMMA UnsetGoalKeeps == ASSUME IInv, NEW t \in Tasks, NEW g \in Gids, UnsetGoal(t, g) PROVE IInv'
<1> DEFINE goal == [group[g].goal EXCEPT !.scope = 0]
           gr == [group[g] EXCEPT !.goal = goal]
<1>1. TypeOK /\ group[g].goal \in Goal BY TaskFacts, GroupFields DEF TypeOK
<1>2. goal \in Goal BY <1>1 DEF Goal
<1>3. group' = [group EXCEPT ![g] = gr] BY DEF UnsetGoal
<1>4. UNCHANGED <<joined, mapped, loc, lock, now, beats, samples>> /\ loc[t].pc = "user"
  BY DEF UnsetGoal, Attached
<1>5. beats' \in [Gids -> Nat] BY <1>1, <1>4 DEF TypeOK
<1> HIDE DEF goal
<1>6. gr \in GroupRec /\ SameBones(gr, group[g]) BY <1>1, <1>2, PutGoal
<1> HIDE DEF gr
<1> QED BY <1>3, <1>4, <1>5, <1>6, PutStays

LEMMA SetGoalWindowKeeps ==
  ASSUME IInv, NEW t \in Tasks, NEW g \in Gids, NEW ws \in WindowAsks, SetGoalWindow(t, g, ws)
  PROVE  IInv'
<1> DEFINE goal == AddWindow(group[g].goal, ws)
           gr == [group[g] EXCEPT !.goal = goal]
           l == [AtUser EXCEPT !.pc = "set_goal", !.gid = g, !.size = ws]
<1>1. TypeOK /\ group[g].goal \in Goal /\ LocFits(loc[t], joined[t])
  BY TaskFacts, GroupFields DEF TypeOK
<1>2. ws \in Nat BY HrmAssumption
<1>3. goal \in Goal BY <1>1, <1>2, AddWindowType DEF SetGoalWindow
<1>4. group' = [group EXCEPT ![g] = gr] /\ loc' = [loc EXCEPT ![t] = l] BY DEF SetGoalWindow, Goto
<1>5. /\ UNCHANGED <<joined, mapped, lock, now, beats, samples>> /\ loc[t].pc = "user"
      /\ InList(joined[t]["producer"], g)
  BY DEF SetGoalWindow, Attached, Joined, InList
<1>6. /\ beats' \in [Gids -> Nat]
      /\ mapped' \in [Tasks -> [Roles -> [Gids -> SUBSET Memories]]]
  BY <1>1, <1>5 DEF TypeOK
<1> HIDE DEF goal
<1>7. gr \in GroupRec /\ SameBones(gr, group[g]) BY <1>1, <1>3, PutGoal
<1>8. l \in LocRec /\ l.pc = "set_goal" /\ ~l.exiting /\ l.gid = g /\ l.role = "producer"
  BY <1>2, AtUserType DEF AtUser, LocRec
<1> HIDE DEF gr, l
<1>9. LocFits(l, joined[t]) /\ ~Holding(l) BY <1>5, <1>8 DEF LocFits, Holding
<1>10. ~Holding(loc[t]) BY <1>1, <1>5 DEF Holding, LocFits
<1> QED BY <1>4, <1>5, <1>6, <1>7, <1>8, <1>9, <1>10, PutKeeps

LEMMA SetGoalScopeKeeps == ASSUME IInv, NEW t \in Tasks, SetGoalScope(t) PROVE IInv'
<1> DEFINE g == loc[t].gid
           n == loc[t].size
           goal == [group[g].goal EXCEPT !.scope = n]
           gr == [group[g] EXCEPT !.goal = goal]
           l == AtUser
<1>1. TypeOK /\ loc[t] \in LocRec /\ LocFits(loc[t], joined[t]) BY TaskFacts
<1>2. loc[t].pc = "set_goal" /\ g \in Gids /\ n \in Nat BY <1>1, LocFields DEF SetGoalScope, LocFits
<1>3. group[g].goal \in Goal BY <1>1, <1>2, GroupFields DEF TypeOK
<1>4. goal \in Goal BY <1>2, <1>3 DEF Goal
<1>5. group' = [group EXCEPT ![g] = gr] /\ loc' = [loc EXCEPT ![t] = l] BY DEF SetGoalScope, Goto
<1>6. UNCHANGED <<joined, mapped, lock, now, beats, samples>> BY DEF SetGoalScope
<1>7. /\ beats' \in [Gids -> Nat]
      /\ mapped' \in [Tasks -> [Roles -> [Gids -> SUBSET Memories]]]
  BY <1>1, <1>6 DEF TypeOK
<1> HIDE DEF goal
<1>8. gr \in GroupRec /\ SameBones(gr, group[g]) BY <1>1, <1>2, <1>4, PutGoal
<1>9. l \in LocRec /\ l.pc = "user" /\ ~l.exiting BY AtUserType DEF AtUser
<1> HIDE DEF gr, l
<1>10. LocFits(l, joined[t]) /\ ~Holding(l) BY <1>9, IdleFits
<1>11. ~Holding(loc[t]) BY <1>1, <1>2 DEF Holding, LocFits
<1> HIDE DEF g
<1> QED BY <1>2, <1>5, <1>6, <1>7, <1>8, <1>9, <1>10, <1>11, PutKeeps

LEMMA EndDelWindowKeeps == ASSUME IInv, NEW t \in Tasks, EndDelWindow(t) PROVE IInv'
<1> DEFINE g == loc[t].gid
           n == loc[t].size
           goal == IF Holders(group[g].goal, n) = {} THEN group[g].goal ELSE DelWindow(group[g].goal, n)
           gr == [group[g] EXCEPT !.goal = goal]
           l == AtUser
<1>1. TypeOK /\ loc[t] \in LocRec /\ LocFits(loc[t], joined[t]) BY TaskFacts
<1>2. loc[t].pc = "del_window" /\ g \in Gids BY <1>1, LocFields DEF EndDelWindow, LocFits
<1>3. group[g] \in GroupRec /\ group[g].goal \in Goal BY <1>1, <1>2, GroupFields DEF TypeOK
<1>4. goal \in Goal BY <1>2, <1>3, DelWindowType
<1>5. group' = [group EXCEPT ![g] = gr]
  <2>1. CASE Holders(group[g].goal, n) = {}
    <3>1. group' = group /\ goal = group[g].goal BY <2>1 DEF EndDelWindow
    <3>2. gr = group[g] BY <1>3, <3>1 DEF GroupRec
    <3>3. group = [group EXCEPT ![g] = group[g]] BY <1>1 DEF TypeOK
    <3> QED BY <3>1, <3>2, <3>3
  <2>2. CASE Holders(group[g].goal, n) # {} BY <2>2 DEF EndDelWindow
  <2> QED BY <2>1, <2>2
<1>6. loc' = [loc EXCEPT ![t] = l] /\ UNCHANGED <<joined, mapped, lock, now, beats, samples>>
  BY DEF EndDelWindow, Goto
<1>7. /\ beats' \in [Gids -> Nat]
      /\ mapped' \in [Tasks -> [Roles -> [Gids -> SUBSET Memories]]]
  BY <1>1, <1>6 DEF TypeOK
<1> HIDE DEF goal
<1>8. gr \in GroupRec /\ SameBones(gr, group[g]) BY <1>1, <1>2, <1>4, PutGoal
<1>9. l \in LocRec /\ l.pc = "user" /\ ~l.exiting BY AtUserType DEF AtUser
<1> HIDE DEF gr, l
<1>10. LocFits(l, joined[t]) /\ ~Holding(l) BY <1>9, IdleFits
<1>11. ~Holding(loc[t]) BY <1>1, <1>2 DEF Holding, LocFits
<1> HIDE DEF g
<1> QED BY <1>2, <1>5, <1>6, <1>7, <1>8, <1>9, <1>10, <1>11, PutKeeps

LEMMA BeginLeaveKeeps ==
  ASSUME IInv, NEW t \in Tasks, NEW g \in Gids, NEW role \in Roles, BeginLeave(t, g, role),
         InList(joined[t][role], g), ~Holding(loc[t]),
         UNCHANGED <<joined, mapped, lock, now, beats, samples>>
  PROVE  IInv'
<1> DEFINE k == SlotOf(t, g)
           c == [group[g].counters EXCEPT ![k].used = FALSE]
           gr == IF role = "producer" THEN [group[g] EXCEPT !.counters = c] ELSE group[g]
           l == Leaving(t, g, role, FALSE)
<1>1. TypeOK /\ group[g] \in GroupRec BY TaskFacts DEF TypeOK
<1>2. k \in Slots /\ group[g].counters \in [Slots -> Counter] BY <1>1, GroupFields DEF SlotOf
<1>3. c \in [Slots -> Counter] BY <1>2 DEF Counter
<1>4. group' = [group EXCEPT ![g] = gr] /\ loc' = [loc EXCEPT ![t] = l]
  <2>1. CASE role = "producer" BY <2>1 DEF BeginLeave, Goto
  <2>2. CASE role # "producer"
    <3>1. group = [group EXCEPT ![g] = group[g]] BY <1>1 DEF TypeOK
    <3> QED BY <2>2, <3>1 DEF BeginLeave, Goto
  <2> QED BY <2>1, <2>2
<1> HIDE DEF c
<1>5. gr \in GroupRec BY <1>1, <1>3, PutField
<1>6. SameBones(gr, group[g]) BY <1>1 DEF SameBones, GroupRec
<1> DEFINE off == FALSE
<1>7. off \in BOOLEAN /\ l = Leaving(t, g, role, off) /\ ~off OBVIOUS
<1> HIDE DEF gr, l, off
<1>8. /\ l \in LocRec /\ l.pc = (IF role = "producer" THEN "fold" ELSE "unlink")
      /\ l.gid = g /\ l.role = role /\ ~l.exiting
  BY <1>1, <1>7, LeavingType
<1>9. LocFits(l, joined[t]) /\ ~Holding(l) BY <1>8 DEF LocFits, Holding
<1>10. beats' \in [Gids -> Nat] /\ mapped' \in [Tasks -> [Roles -> [Gids -> SUBSET Memories]]]
  BY <1>1 DEF TypeOK
<1> QED BY <1>4, <1>5, <1>6, <1>8, <1>9, <1>10, PutKeeps

LEMMA DetachKeeps ==
  ASSUME IInv, NEW t \in Tasks, NEW g \in Gids, NEW role \in Roles, Detach(t, g, role)
  PROVE  IInv'
<1>1. LocFits(loc[t], joined[t]) BY TaskFacts
<1>2. /\ loc[t].pc = "user" /\ InList(joined[t][role], g) /\ BeginLeave(t, g, role)
      /\ UNCHANGED <<joined, mapped, lock, now, beats, samples>>
  BY DEF Detach, Joined, InList
<1>3. ~Holding(loc[t]) BY <1>1, <1>2 DEF Holding, LocFits
<1> QED BY <1>2, <1>3, BeginLeaveKeeps

LEMMA MmapKeeps ==
  ASSUME IInv, NEW t \in Tasks, NEW memory \in Memories, NEW fails, Mmap(t, memory, fails)
  PROVE  IInv'
<1> DEFINE role == loc[t].role
           g == Head(joined[t][role])
<1>1. TypeOK /\ loc[t] \in LocRec /\ LocFits(loc[t], joined[t]) BY TaskFacts
<1>2. loc[t].pc \in {"map_counters", "map_goal"} BY DEF Mmap
<1>3. role \in Roles BY <1>1, LocFields
<1>4. joined[t][role] \in Seq(Gids) /\ joined[t][role] # <<>> /\ g = loc[t].gid
  BY <1>1, <1>2, <1>3, TaskFacts DEF LocFits
<1>5. g \in Gids /\ InList(joined[t][role], g) BY <1>4, HeadIn
<1>6. ~Holding(loc[t]) BY <1>1, <1>2 DEF Holding, LocFits
<1>7. UNCHANGED <<joined, lock, now, beats, samples>> BY DEF Mmap
<1>8. CASE /\ ~fails
           /\ group' = [group EXCEPT ![g].maps[memory][Tgid[t]] = @ + 1]
           /\ mapped' = [mapped EXCEPT ![t][role][g] = @ \cup {memory}]
           /\ Goto(t, IF memory = "counters" THEN [loc[t] EXCEPT !.pc = "map_goal"] ELSE AtUser)
  <2> DEFINE l == IF memory = "counters" THEN [loc[t] EXCEPT !.pc = "map_goal"] ELSE AtUser
             p == Tgid[t]
             maps == [group[g].maps EXCEPT ![memory][p] = @ + 1]
             gr == [group[g] EXCEPT !.maps = maps]
             m == [mapped EXCEPT ![t][role][g] = @ \cup {memory}]
  <2>1. group[g] \in GroupRec /\ p \in Pids BY <1>1, <1>5 DEF TypeOK, Pids
  <2>2. group[g].maps \in [Memories -> [Pids -> Nat]] BY <2>1, GroupFields
  <2>3. group' = [group EXCEPT ![g] = gr] /\ loc' = [loc EXCEPT ![t] = l] BY <1>8 DEF Goto
  <2>4. l \in LocRec /\ ~l.exiting BY <1>1, <1>2, AtUserType DEF LocRec, AtUser, LocFits
  <2>5. LocFits(l, joined[t])
    <3>1. CASE memory = "counters"
      <4>1. l.pc = "map_goal" /\ l.gid = loc[t].gid /\ l.role = role BY <1>1, <3>1 DEF LocRec
      <4> HIDE DEF l, role, g
      <4>2. joined[t][l.role] # <<>> /\ Head(joined[t][l.role]) = l.gid /\ l.gid \in Gids
        BY <1>4, <1>5, <4>1 DEF g
      <4> QED BY <2>4, <4>1, <4>2 DEF LocFits
    <3>2. CASE memory # "counters"
      <4>1. l.pc = "user" BY <3>2 DEF AtUser
      <4> HIDE DEF l
      <4> QED BY <2>4, <4>1, IdleFits
    <3> QED BY <3>1, <3>2
  <2>6. l.pc \in {"user", "map_goal"} BY <1>1 DEF AtUser, LocRec
  <2> HIDE DEF l
  <2>7. ~Holding(l) BY <2>4, <2>6 DEF Holding
  <2> HIDE DEF p
  <2>8. maps \in [Memories -> [Pids -> Nat]]
    <3> DEFINE old == group[g].maps
    <3>1. old \in [Memories -> [Pids -> Nat]] BY <2>2
    <3>2. maps = [old EXCEPT ![memory][p] = @ + 1] OBVIOUS
    <3> HIDE DEF old, maps
    <3>3. [old[memory] EXCEPT ![p] = @ + 1] \in [Pids -> Nat] BY <2>1, <3>1
    <3>4. maps = [old EXCEPT ![memory] = [old[memory] EXCEPT ![p] = @ + 1]] BY <3>2
    <3> QED BY <3>1, <3>3, <3>4
  <2> HIDE DEF maps
  <2>9. gr \in GroupRec BY <2>1, <2>8, PutField
  <2>10. SameBones(gr, group[g]) BY <2>1 DEF SameBones, GroupRec
  <2>11. m \in [Tasks -> [Roles -> [Gids -> SUBSET Memories]]]
    <3> HIDE DEF g, role
    <3> QED BY <1>1, <1>3, <1>5 DEF TypeOK
  <2>12. mapped' \in [Tasks -> [Roles -> [Gids -> SUBSET Memories]]] BY <1>8, <2>11
  <2>13. beats' \in [Gids -> Nat] BY <1>1, <1>7 DEF TypeOK
  <2> HIDE DEF gr, g, m
  <2> QED BY <1>5, <1>6, <1>7, <2>3, <2>4, <2>5, <2>7, <2>9, <2>10, <2>12, <2>13, PutKeeps
<1>9. CASE BeginLeave(t, g, role) /\ UNCHANGED mapped
  <2> HIDE DEF g, role
  <2> QED BY <1>3, <1>5, <1>6, <1>7, <1>9, BeginLeaveKeeps
<1> QED BY <1>8, <1>9 DEF Mmap
-----------------------------------------------------------------------------
(***************************************************************************)
(* Steps under hrm_groups_lock.                                            *)
(***************************************************************************)
\* Task t has, or takes, the lock, makes group g into gr and its list of role r into q,
\* and goes on to l.
Under(t, l, g, gr, r, q) ==
  /\ lock \in {NoTask, t} /\ lock' = (IF Holding(l) THEN t ELSE NoTask)
  /\ loc' = [loc EXCEPT ![t] = l]
  /\ group' = [group EXCEPT ![g] = gr]
  /\ joined' = [joined EXCEPT ![t][r] = q]
  /\ now' = now

\* What it has to see to: the list and the members agree, the state of the group and
\* its timer are right, and nobody is left with a group it works on.
Sound(t, l, g, gr, r, q) ==
  /\ LocFits(l, [joined[t] EXCEPT ![r] = q])
  /\ Distinct(q) /\ \A h \in Gids \ {g} : InList(q, h) <=> InList(joined[t][r], h)
  /\ gr.members = [group[g].members EXCEPT ![r] = IF InList(q, g) THEN @ \cup {t} ELSE @ \ {t}]
  /\ gr.state = "listed" <=> ~Empty(gr)
  /\ gr.state = "unlisted" => Making(l, g)
  /\ l.pc = "alloc" => l.gid = g /\ gr.state # "none"
  /\ l.pc = "destroy" => l.gid = g /\ gr.state = "unlisted"
  /\ loc[t].pc \in {"alloc", "destroy"} => loc[t].gid = g
  /\ TimerFits(gr) /\ SampledBefore(gr, now)

LEMMA UnderKeeps ==
  ASSUME IInv, NEW t \in Tasks, NEW l \in LocRec, NEW g \in Gids, NEW gr \in GroupRec,
         NEW r \in Roles, NEW q \in Seq(Gids), Under(t, l, g, gr, r, q), Sound(t, l, g, gr, r, q),
         mapped' \in [Tasks -> [Roles -> [Gids -> SUBSET Memories]]],
         beats' \in [Gids -> Nat], samples' \in [Gids -> Seq(Sample)]
  PROVE  IInv'
<1>1. TypeOK /\ LockExact /\ LocExact /\ ListsExact /\ MembersExact /\ StateExact /\ TimerExact /\ TimeExact
  BY DEF IInv
<1>2. \A u \in Tasks : loc'[u] = IF u = t THEN l ELSE loc[u] BY <1>1 DEF Under, TypeOK
<1>3. \A h \in Gids : group'[h] = IF h = g THEN gr ELSE group[h] BY <1>1 DEF Under, TypeOK
<1>4. joined \in [Tasks -> [Roles -> Seq(Gids)]] BY <1>1 DEF TypeOK
<1>5. \A u \in Tasks : joined'[u] = IF u = t THEN [joined[t] EXCEPT ![r] = q] ELSE joined[u]
  BY <1>4 DEF Under
<1>6. \A u \in Tasks, x \in Roles : joined'[u][x] = IF u = t /\ x = r THEN q ELSE joined[u][x]
  BY <1>4, <1>5
<1>7. now' = now BY DEF Under
<1>8. NoTask \notin Tasks BY HrmAssumption
<1>9. \A u \in Tasks : u # t => ~Holding(loc[u]) BY <1>1, <1>8 DEF LockExact, Under
<1>10. TypeOK'
  <2>1. group' \in [Gids -> GroupRec] BY <1>1 DEF Under, TypeOK
  <2>2. loc' \in [Tasks -> LocRec] BY <1>1 DEF Under, TypeOK
  <2>3. lock' \in Tasks \cup {NoTask} BY DEF Under
  <2>4. joined' \in [Tasks -> [Roles -> Seq(Gids)]]
    <3>1. [joined[t] EXCEPT ![r] = q] \in [Roles -> Seq(Gids)] BY <1>4
    <3>2. joined' = [joined EXCEPT ![t] = [joined[t] EXCEPT ![r] = q]] BY <1>4 DEF Under
    <3> QED BY <1>4, <3>1, <3>2
  <2>5. now' \in Nat \ {0} BY <1>1, <1>7 DEF TypeOK
  <2> QED BY <2>1, <2>2, <2>3, <2>4, <2>5 DEF TypeOK
<1>11. LockExact'
  <2> SUFFICES ASSUME NEW u \in Tasks PROVE lock' = u <=> Holding(loc'[u]) BY DEF LockExact, Holding
  <2>1. CASE u = t BY <1>2, <1>8, <2>1 DEF Under
  <2>2. CASE u # t BY <1>2, <1>8, <1>9, <2>2 DEF Under
  <2> QED BY <2>1, <2>2
<1>12. LocExact'
  <2> SUFFICES ASSUME NEW u \in Tasks PROVE LocFits(loc'[u], joined'[u])
    BY DEF LocExact, LocFits, InList
  <2>1. CASE u = t BY <1>2, <1>5, <2>1 DEF Sound
  <2>2. CASE u # t BY <1>1, <1>2, <1>5, <2>2 DEF LocExact
  <2> QED BY <2>1, <2>2
<1>13. ListsExact'
  <2> SUFFICES ASSUME NEW u \in Tasks, NEW x \in Roles PROVE Distinct(joined'[u][x])
    BY DEF ListsExact, Distinct
  <2> QED BY <1>1, <1>6 DEF ListsExact, Sound
<1>14. MembersExact'
  <2> SUFFICES ASSUME NEW h \in Gids, NEW u \in Tasks, NEW x \in Roles
               PROVE  u \in group'[h].members[x] <=> InList(joined'[u][x], h)
    BY DEF MembersExact, InList
  <2>1. u \in group[h].members[x] <=> InList(joined[u][x], h) BY <1>1 DEF MembersExact
  <2>2. CASE h # g
    <3>1. group'[h] = group[h] BY <1>3, <2>2
    <3>2. InList(joined'[u][x], h) <=> InList(joined[u][x], h)
      BY <1>6, <2>2 DEF Sound
    <3> QED BY <2>1, <3>1, <3>2
  <2>3. CASE h = g
    <3>1. group[g].members \in [Roles -> SUBSET Tasks] BY <1>1, GroupFields DEF TypeOK
    <3>2. gr.members[x] = IF x = r THEN (IF InList(q, g) THEN group[g].members[r] \cup {t}
                                         ELSE group[g].members[r] \ {t})
                          ELSE group[g].members[x]
      BY <3>1 DEF Sound
    <3>3. group'[h] = gr BY <1>3, <2>3
    <3> QED BY <1>6, <2>1, <2>3, <3>2, <3>3
  <2> QED BY <2>2, <2>3
<1>15. StateExact'
  <2>1. \A h \in Gids : group'[h].state = "listed" <=> ~Empty(group'[h])
    BY <1>1, <1>3 DEF StateExact, Sound
  <2>2. ASSUME NEW h \in Gids, group'[h].state = "unlisted"
        PROVE  \E u \in Tasks : Making(loc'[u], h)
    <3>1. CASE h = g BY <1>2, <1>3, <2>2, <3>1 DEF Sound
    <3>2. CASE h # g
      <4>1. PICK u \in Tasks : Making(loc[u], h) BY <1>1, <1>3, <2>2, <3>2 DEF StateExact
      <4>2. Holding(loc[u]) BY <4>1 DEF Making, Holding
      <4>3. u = t BY <1>9, <4>2
      <4> QED BY <3>2, <4>1, <4>3 DEF Making, Sound
    <3> QED BY <3>1, <3>2
  <2>3. \A u \in Tasks : loc'[u].pc \in {"alloc", "destroy"} => u = t BY <1>2, <1>9 DEF Holding
  <2>4. \A u \in Tasks : loc'[u].pc = "alloc" => group'[loc'[u].gid].state # "none"
    BY <1>2, <1>3, <2>3 DEF Sound
  <2>5. \A u \in Tasks : loc'[u].pc = "destroy" => group'[loc'[u].gid].state = "unlisted"
    BY <1>2, <1>3, <2>3 DEF Sound
  <2> QED BY <2>1, <2>2, <2>4, <2>5 DEF StateExact, Empty, Making
<1>16. TimerExact'
  <2> SUFFICES ASSUME NEW h \in Gids PROVE TimerFits(group'[h]) BY DEF TimerExact, TimerFits
  <2> QED BY <1>1, <1>3 DEF TimerExact, Sound
<1>17. TimeExact'
  <2> SUFFICES ASSUME NEW h \in Gids PROVE SampledBefore(group'[h], now)
    BY <1>1, <1>7 DEF TimeExact, SampledBefore
  <2> QED BY <1>1, <1>3 DEF TimeExact, Sound
<1> QED BY <1>10, <1>11, <1>12, <1>13, <1>14, <1>15, <1>16, <1>17 DEF IInv

\* With the lock free, a group is either on hrm_groups or made anew, and what is made is
\* as empty as what was there.
LEMMA FindOrCreateIs ==
  ASSUME IInv, lock = NoTask, NEW g \in Gids
  PROVE  /\ FindOrCreate(g) \in GroupRec /\ FindOrCreate(g).state # "none"
         /\ FindOrCreate(g).members = group[g].members
         /\ FindOrCreate(g).state = "listed" <=> ~Empty(FindOrCreate(g))
         /\ TimerFits(FindOrCreate(g)) /\ SampledBefore(FindOrCreate(g), now)
         /\ group[g].state # "unlisted"
<1> DEFINE gr == FindOrCreate(g)
<1>1. TypeOK /\ LockExact /\ StateExact /\ TimerExact /\ TimeExact BY DEF IInv
<1>2. group[g] \in GroupRec /\ now \in Nat BY <1>1 DEF TypeOK
<1>3. gr \in GroupRec BY <1>1, FindOrCreateType
<1>4. gr = IF group[g].state = "none" THEN [NoGroup EXCEPT !.state = "unlisted"] ELSE group[g]
  BY <1>1, FindOrCreateType
<1>5. group[g].state # "unlisted"
  <2>1. \A t \in Tasks : ~Holding(loc[t]) BY <1>1, HrmAssumption DEF LockExact
  <2> QED BY <1>1, <2>1 DEF StateExact, Making, Holding
<1>6. CASE group[g].state = "none"
  <2>1. \A x \in Roles : group[g].members[x] = {} BY <1>1, <1>6 DEF StateExact, Empty
  <2>2. /\ gr.state = "unlisted" /\ gr.members = [x \in Roles |-> {}] /\ gr.timestamp = 0
        /\ gr.armed = FALSE /\ gr.running = FALSE /\ gr.ring = EmptyRing
    BY <1>4, <1>6 DEF NoGroup
  <2>3. group[g].members \in [Roles -> SUBSET Tasks] BY <1>2, GroupFields
  <2>4. gr.members = group[g].members BY <2>1, <2>2, <2>3
  <2> HIDE DEF gr
  <2>5. Empty(gr) BY <2>2 DEF Empty
  <2>6. TimerFits(gr) BY <2>2, RoleTypes DEF TimerFits
  <2>7. SampledBefore(gr, now) BY <1>2, <2>2 DEF SampledBefore, EmptyRing, NoSample
  <2> QED BY <1>3, <1>5, <2>2, <2>4, <2>5, <2>6, <2>7 DEF gr
<1>7. CASE group[g].state # "none"
  <2>1. gr = group[g] BY <1>4, <1>7
  <2> HIDE DEF gr
  <2>2. TimerFits(gr) /\ SampledBefore(gr, now) BY <1>1, <2>1 DEF TimerExact, TimeExact
  <2>3. gr.state = "listed" <=> ~Empty(gr) BY <1>1, <2>1 DEF StateExact
  <2> QED BY <1>3, <1>5, <1>7, <2>1, <2>2, <2>3 DEF gr
<1> QED BY <1>6, <1>7

LEMMA AddProducerKeeps == ASSUME IInv, NEW t \in Tasks, NEW g \in Gids, AddProducer(t, g) PROVE IInv'
<1> DEFINE old == FindOrCreate(g)
           k == FirstIn(Slots \ old.allocation)
           gr == [old EXCEPT !.slot[t] = k]
           l == [AtUser EXCEPT !.pc = "alloc", !.gid = g, !.word = old.allocation]
           q == joined[t]["producer"]
<1>1. TypeOK /\ MembersExact BY DEF IInv
<1>2. /\ lock = NoTask /\ loc[t].pc = "user" /\ ~InList(q, g) /\ Slots \ old.allocation # {}
      /\ group' = [group EXCEPT ![g] = gr] /\ lock' = t /\ loc' = [loc EXCEPT ![t] = l]
      /\ UNCHANGED <<joined, mapped, now, beats, samples>>
  BY DEF AddProducer, Joined, InList, Goto
<1>3. /\ old \in GroupRec /\ old.state # "none" /\ old.members = group[g].members
      /\ old.state = "listed" <=> ~Empty(old)
      /\ TimerFits(old) /\ SampledBefore(old, now)
  BY <1>2, FindOrCreateIs
<1> HIDE DEF old
<1>4. k \in Slots
  <2>1. Slots \ old.allocation \subseteq Nat BY SlotTypes
  <2>2. k \in Slots \ old.allocation BY <1>2, <2>1, FirstInIs
  <2> QED BY <2>2
<1> HIDE DEF k
<1>5. gr \in GroupRec
  <2>1. old.slot \in [Tasks -> Slots] BY <1>3, GroupFields
  <2>2. [old.slot EXCEPT ![t] = k] \in [Tasks -> Slots] BY <1>4, <2>1
  <2>3. gr = [old EXCEPT !.slot = [old.slot EXCEPT ![t] = k]] OBVIOUS
  <2> QED BY <1>3, <2>2, <2>3, PutField
<1>6. SameBones(gr, old) BY <1>3 DEF SameBones, GroupRec
<1>7. l \in LocRec /\ l.pc = "alloc" /\ l.gid = g /\ l.role = "producer" /\ ~l.exiting
  BY <1>3, AtUserType, GroupFields DEF AtUser, LocRec
<1>8. q \in Seq(Gids) /\ Distinct(q) BY TaskFacts, RoleTypes
<1> HIDE DEF gr, l
<1>9. joined' = [joined EXCEPT ![t]["producer"] = q] /\ joined[t] = [joined[t] EXCEPT !["producer"] = q]
  BY <1>1, <1>2, RoleTypes DEF TypeOK
<1>10. Under(t, l, g, gr, "producer", q) BY <1>2, <1>7, <1>9 DEF Under, Holding
<1>11. gr.members = [group[g].members EXCEPT !["producer"] = IF InList(q, g) THEN @ \cup {t} ELSE @ \ {t}]
  <2>1. group[g].members \in [Roles -> SUBSET Tasks] BY <1>1, GroupFields DEF TypeOK
  <2>2. t \notin group[g].members["producer"] BY <1>1, <1>2, RoleTypes DEF MembersExact
  <2>3. gr.members = group[g].members BY <1>3, <1>6 DEF SameBones
  <2>4. group[g].members["producer"] \ {t} = group[g].members["producer"] BY <2>2
  <2> QED BY <1>2, <2>1, <2>3, <2>4
<1>12. LocFits(l, joined[t]) BY <1>2, <1>7 DEF LocFits
<1>13. TimerFits(gr) /\ SampledBefore(gr, now) /\ (gr.state = "listed" <=> ~Empty(gr)) /\ gr.state # "none"
  BY <1>3, <1>6 DEF TimerFits, SampledBefore, SameBones, Empty
<1>14. Sound(t, l, g, gr, "producer", q)
  BY <1>2, <1>7, <1>8, <1>9, <1>11, <1>12, <1>13 DEF Sound, Making
<1>15. /\ mapped' \in [Tasks -> [Roles -> [Gids -> SUBSET Memories]]]
       /\ beats' \in [Gids -> Nat] /\ samples' \in [Gids -> Seq(Sample)]
  BY <1>1, <1>2 DEF TypeOK
<1> HIDE DEF q
<1> QED BY <1>5, <1>7, <1>8, <1>10, <1>14, <1>15, RoleTypes, UnderKeeps

LEMMA AddConsumerKeeps == ASSUME IInv, NEW t \in Tasks, NEW g \in Gids, AddConsumer(t, g) PROVE IInv'
<1> DEFINE old == FindOrCreate(g)
           m == [old.members EXCEPT !["consumer"] = @ \cup {t}]
           gr == [old EXCEPT !.members = m, !.state = "listed"]
           l == [AtUser EXCEPT !.pc = "map_counters", !.gid = g, !.role = "consumer"]
           q == <<g>> \o joined[t]["consumer"]
<1>1. TypeOK BY DEF IInv
<1>2. /\ lock = NoTask /\ loc[t].pc = "user" /\ ~InList(joined[t]["consumer"], g)
      /\ group' = [group EXCEPT ![g] = gr] /\ loc' = [loc EXCEPT ![t] = l]
      /\ joined' = [joined EXCEPT ![t]["consumer"] = q]
      /\ UNCHANGED <<mapped, lock, now, beats, samples>>
  BY DEF AddConsumer, Joined, InList, Goto
<1>3. /\ old \in GroupRec /\ old.state # "none" /\ old.members = group[g].members
      /\ TimerFits(old) /\ SampledBefore(old, now)
  BY <1>2, FindOrCreateIs
<1> HIDE DEF old
<1>4. old.members \in [Roles -> SUBSET Tasks] BY <1>3, GroupFields
<1>5. m \in [Roles -> SUBSET Tasks] /\ m["producer"] = old.members["producer"] /\ t \in m["consumer"]
  BY <1>4, RoleTypes
<1>6. m = [group[g].members EXCEPT !["consumer"] = @ \cup {t}] BY <1>3
<1> HIDE DEF m
<1>7. gr \in GroupRec
  <2>1. [old EXCEPT !.members = m] \in GroupRec BY <1>3, <1>5, PutField
  <2> DEFINE mid == [old EXCEPT !.members = m]
  <2>2. gr = [mid EXCEPT !.state = "listed"] OBVIOUS
  <2> HIDE DEF mid, gr
  <2> QED BY <2>1, <2>2, PutField DEF mid
<1>8. /\ gr.members = m /\ gr.state = "listed" /\ gr.timestamp = old.timestamp
      /\ gr.armed = old.armed /\ gr.running = old.running /\ gr.ring = old.ring
  BY <1>3 DEF GroupRec
<1>9. l \in LocRec /\ l.pc = "map_counters" /\ l.gid = g /\ l.role = "consumer" /\ ~l.exiting
  BY AtUserType, RoleTypes DEF AtUser, LocRec
<1>10. joined[t]["consumer"] \in Seq(Gids) /\ Distinct(joined[t]["consumer"]) BY TaskFacts, RoleTypes
<1>11. /\ q \in Seq(Gids) /\ Distinct(q) /\ q # <<>> /\ Head(q) = g /\ InList(q, g)
       /\ \A h : h # g => (InList(q, h) <=> InList(joined[t]["consumer"], h))
  BY <1>2, <1>10, LinkEffect
<1> HIDE DEF gr, l, q
<1>12. Under(t, l, g, gr, "consumer", q) BY <1>2, <1>9 DEF Under, Holding
<1>13. joined[t] \in [Roles -> Seq(Gids)] BY <1>1 DEF TypeOK
<1>14. [joined[t] EXCEPT !["consumer"] = q]["consumer"] = q BY <1>13, RoleTypes
<1>15. LocFits(l, [joined[t] EXCEPT !["consumer"] = q])
  <2> DEFINE lists == [joined[t] EXCEPT !["consumer"] = q]
  <2>1. lists["consumer"] = q BY <1>14
  <2> HIDE DEF lists
  <2>2. LocFits(l, lists) BY <1>9, <1>11, <2>1 DEF LocFits
  <2> QED BY <2>2 DEF lists
<1>16. TimerFits(gr) /\ SampledBefore(gr, now)
  BY <1>3, <1>5, <1>8 DEF TimerFits, SampledBefore
<1>17. ~Empty(gr) BY <1>5, <1>8, RoleTypes DEF Empty
<1>18. Sound(t, l, g, gr, "consumer", q)
  BY <1>2, <1>6, <1>8, <1>9, <1>11, <1>15, <1>16, <1>17 DEF Sound
<1>19. /\ mapped' \in [Tasks -> [Roles -> [Gids -> SUBSET Memories]]]
       /\ beats' \in [Gids -> Nat] /\ samples' \in [Gids -> Seq(Sample)]
  BY <1>1, <1>2 DEF TypeOK
<1> QED BY <1>7, <1>9, <1>11, <1>12, <1>18, <1>19, RoleTypes, UnderKeeps

\* What hrm_add_producer_task_to_group makes of a group.
Started(gr, t, k, word) ==
  [StartTimer([ClaimSlot(gr, t, k, word) EXCEPT !.members["producer"] = @ \cup {t}])
     EXCEPT !.state = "listed"]

LEMMA StartedIs ==
  ASSUME NEW gr \in GroupRec, NEW t \in Tasks, NEW k \in Slots, NEW word \in SUBSET Slots,
         now \in Nat
  PROVE  LET new == Started(gr, t, k, word)
         IN  /\ new \in GroupRec /\ new.state = "listed"
             /\ new.members = [gr.members EXCEPT !["producer"] = @ \cup {t}]
             /\ new.running = gr.running
             /\ gr.timestamp = 0 => new.timestamp = now /\ new.ring = StartedRing /\ new.armed
             /\ gr.timestamp # 0 =>
                  new.timestamp = gr.timestamp /\ new.ring = gr.ring /\ new.armed = gr.armed
<1> DEFINE c == [gr.counters EXCEPT ![k].tid = t, ![k].used = TRUE]
           s == [gr.slot EXCEPT ![t] = k]
           m == [gr.members EXCEPT !["producer"] = @ \cup {t}]
           linked == [ClaimSlot(gr, t, k, word) EXCEPT !.members["producer"] = @ \cup {t}]
           new == Started(gr, t, k, word)
<1>1. linked = [gr EXCEPT !.allocation = word \cup {k}, !.slot = s, !.counters = c, !.members = m]
  BY DEF ClaimSlot, GroupRec
<1>2. gr.counters \in [Slots -> Counter] /\ gr.slot \in [Tasks -> Slots] /\ gr.members \in [Roles -> SUBSET Tasks]
  BY GroupFields
<1>3. /\ c \in [Slots -> Counter]
      /\ \A j \in Slots : c[j].counter = gr.counters[j].counter
      /\ \A j \in Slots : c[j].tid = IF j = k THEN t ELSE gr.counters[j].tid
  BY <1>2, ZenonT(30) DEF Counter
<1>4. s \in [Tasks -> Slots] /\ m \in [Roles -> SUBSET Tasks] /\ word \cup {k} \in SUBSET Slots
  BY <1>2, RoleTypes
<1> HIDE DEF c, s, m
<1>5. linked \in GroupRec BY <1>1, <1>3, <1>4, ZenonT(30) DEF GroupRec
<1>6. /\ linked.allocation = word \cup {k} /\ linked.slot = s /\ linked.counters = c /\ linked.members = m
      /\ linked.timestamp = gr.timestamp /\ linked.ring = gr.ring /\ linked.armed = gr.armed
      /\ linked.running = gr.running /\ linked.history = gr.history /\ linked.maps = gr.maps
      /\ linked.goal = gr.goal
  BY <1>1 DEF GroupRec
<1>7. new = [StartTimer(linked) EXCEPT !.state = "listed"] BY DEF Started
<1> HIDE DEF linked, new
<1>8. CASE gr.timestamp = 0
  <2>1. new = [linked EXCEPT !.timestamp = now, !.ring = StartedRing, !.armed = TRUE, !.state = "listed"]
    BY <1>6, <1>7, <1>8 DEF StartTimer
  <2>2. new \in GroupRec BY <1>5, <2>1, EmptyTypes DEF GroupRec
  <2>3. /\ new.allocation = linked.allocation /\ new.slot = linked.slot /\ new.counters = linked.counters
        /\ new.members = linked.members /\ new.timestamp = now /\ new.ring = StartedRing /\ new.armed
        /\ new.running = linked.running /\ new.history = linked.history /\ new.maps = linked.maps
        /\ new.goal = linked.goal /\ new.state = "listed"
    BY <1>5, <2>1 DEF GroupRec
  <2> QED BY <1>3, <1>6, <1>8, <2>2, <2>3 DEF new, s, m
<1>9. CASE gr.timestamp # 0
  <2>1. new = [linked EXCEPT !.state = "listed"]
    BY <1>6, <1>7, <1>9 DEF StartTimer
  <2>2. new \in GroupRec BY <1>5, <2>1, EmptyTypes DEF GroupRec
  <2>3. /\ new.allocation = linked.allocation /\ new.slot = linked.slot /\ new.counters = linked.counters
        /\ new.members = linked.members /\ new.timestamp = linked.timestamp /\ new.ring = linked.ring
        /\ new.armed = linked.armed
        /\ new.running = linked.running /\ new.history = linked.history /\ new.maps = linked.maps
        /\ new.goal = linked.goal /\ new.state = "listed"
    BY <1>5, <2>1 DEF GroupRec
  <2> QED BY <1>3, <1>6, <1>9, <2>2, <2>3 DEF new, s, m
<1> QED BY <1>8, <1>9

LEMMA LinkProducerIs ==
  ASSUME TypeOK, NEW t \in Tasks, loc[t].gid \in Gids, LinkProducer(t)
  PROVE  LET g == loc[t].gid
         IN  /\ loc[t].pc = "alloc" /\ lock' = NoTask
             /\ group' = [group EXCEPT ![g] = Started(group[g], t, SlotOf(t, g), loc[t].word)]
             /\ joined' = [joined EXCEPT ![t]["producer"] = <<g>> \o @]
             /\ loc' = [loc EXCEPT ![t] = [AtUser EXCEPT !.pc = "map_counters", !.gid = g]]
             /\ samples' = (IF group[g].timestamp = 0 THEN [samples EXCEPT ![g] = <<NoSample>>]
                            ELSE samples)
             /\ UNCHANGED <<mapped, now, beats>>
<1> DEFINE g == loc[t].gid
           linked == [ClaimSlot(group[g], t, SlotOf(t, g), loc[t].word)
                        EXCEPT !.members["producer"] = @ \cup {t}]
<1>1. group[g] \in GroupRec BY DEF TypeOK
<1>2. linked.timestamp = group[g].timestamp BY <1>1 DEF ClaimSlot, GroupRec
<1> QED BY <1>2 DEF LinkProducer, Started, Goto

LEMMA LinkProducerKeeps == ASSUME IInv, NEW t \in Tasks, LinkProducer(t) PROVE IInv'
<1> DEFINE g == loc[t].gid
           old == group[g]
           gr == Started(old, t, SlotOf(t, g), loc[t].word)
           l == [AtUser EXCEPT !.pc = "map_counters", !.gid = g]
           q == <<g>> \o joined[t]["producer"]
<1>1. TypeOK /\ LockExact /\ TimerExact /\ TimeExact BY DEF IInv
<1>2. loc[t] \in LocRec /\ LocFits(loc[t], joined[t]) BY TaskFacts
<1>3. loc[t].pc = "alloc" BY DEF LinkProducer
<1>4. g \in Gids /\ ~InList(joined[t]["producer"], g) BY <1>2, <1>3 DEF LocFits
<1>5. lock = t BY <1>1, <1>3 DEF LockExact, Holding
<1>6. /\ group' = [group EXCEPT ![g] = gr] /\ lock' = NoTask /\ loc' = [loc EXCEPT ![t] = l]
      /\ joined' = [joined EXCEPT ![t]["producer"] = <<g>> \o @]
      /\ samples' = (IF old.timestamp = 0 THEN [samples EXCEPT ![g] = <<NoSample>>] ELSE samples)
      /\ UNCHANGED <<mapped, now, beats>>
  BY <1>1, <1>4, LinkProducerIs
<1>7. joined' = [joined EXCEPT ![t]["producer"] = q] BY <1>6
<1>8. old \in GroupRec /\ now \in Nat \ {0} /\ TimerFits(old) /\ SampledBefore(old, now)
  BY <1>1, <1>4 DEF TypeOK, TimerExact, TimeExact
<1>9. SlotOf(t, g) \in Slots /\ loc[t].word \in SUBSET Slots
  BY <1>2, <1>8, GroupFields, LocFields DEF SlotOf
<1>10. /\ gr \in GroupRec /\ gr.state = "listed"
       /\ gr.members = [old.members EXCEPT !["producer"] = @ \cup {t}]
       /\ gr.running = old.running
       /\ old.timestamp = 0 => gr.timestamp = now /\ gr.ring = StartedRing /\ gr.armed
       /\ old.timestamp # 0 => /\ gr.timestamp = old.timestamp /\ gr.ring = old.ring
                               /\ gr.armed = old.armed
  <2> DEFINE k == SlotOf(t, g)
             w == loc[t].word
  <2>1. k \in Slots /\ w \in SUBSET Slots /\ gr = Started(old, t, k, w) BY <1>9
  <2>2. old \in GroupRec /\ now \in Nat BY <1>8
  <2> HIDE DEF k, w, old, gr
  <2> QED BY <2>1, <2>2, StartedIs
<1>11. old.members \in [Roles -> SUBSET Tasks] BY <1>8, GroupFields
<1>12. t \in gr.members["producer"] BY <1>10, <1>11, RoleTypes
<1>13. l \in LocRec /\ l.pc = "map_counters" /\ l.gid = g /\ l.role = "producer" /\ ~l.exiting
  BY <1>4, AtUserType, RoleTypes DEF AtUser, LocRec
<1>14. joined[t]["producer"] \in Seq(Gids) /\ Distinct(joined[t]["producer"]) BY TaskFacts, RoleTypes
<1>15. /\ q \in Seq(Gids) /\ Distinct(q) /\ q # <<>> /\ Head(q) = g /\ InList(q, g)
       /\ \A h : h # g => (InList(q, h) <=> InList(joined[t]["producer"], h))
  BY <1>4, <1>14, LinkEffect
<1>16. joined[t] \in [Roles -> Seq(Gids)] BY <1>1 DEF TypeOK
<1>17. TimerFits(gr)
  <2>1. CASE old.timestamp = 0 BY <1>8, <1>10, <2>1 DEF TimerFits
  <2>2. CASE old.timestamp # 0 BY <1>8, <1>10, <2>2 DEF TimerFits
  <2> QED BY <2>1, <2>2
<1>18. SampledBefore(gr, now)
  <2>1. \A k \in RingIdx : StartedRing.window[k].elapsed_time = 0
    BY DEF StartedRing, EmptyRing, NoSample
  <2>2. CASE old.timestamp = 0 BY <1>8, <1>10, <2>1, <2>2, SMTT(30) DEF SampledBefore
  <2>3. CASE old.timestamp # 0 BY <1>8, <1>10, <2>3 DEF SampledBefore
  <2> QED BY <2>2, <2>3
<1> HIDE DEF gr, l, q
<1>19. Under(t, l, g, gr, "producer", q) BY <1>5, <1>6, <1>7, <1>13 DEF Under, Holding
<1>20. LocFits(l, [joined[t] EXCEPT !["producer"] = q])
  <2> DEFINE lists == [joined[t] EXCEPT !["producer"] = q]
  <2>1. lists["producer"] = q BY <1>16, RoleTypes
  <2> HIDE DEF lists
  <2>2. LocFits(l, lists) BY <1>4, <1>13, <1>15, <2>1 DEF LocFits
  <2> QED BY <2>2 DEF lists
<1>21. ~Empty(gr) BY <1>12, RoleTypes DEF Empty
<1>22. Sound(t, l, g, gr, "producer", q)
  BY <1>10, <1>13, <1>15, <1>17, <1>18, <1>20, <1>21 DEF Sound
<1>23. /\ mapped' \in [Tasks -> [Roles -> [Gids -> SUBSET Memories]]]
       /\ beats' \in [Gids -> Nat]
  BY <1>1, <1>6 DEF TypeOK
<1>24. samples' \in [Gids -> Seq(Sample)]
  <2>1. <<NoSample>> \in Seq(Sample) BY EmptyTypes
  <2>2. samples \in [Gids -> Seq(Sample)] BY <1>1 DEF TypeOK
  <2> QED BY <1>6, <2>1, <2>2
<1> HIDE DEF g
<1> QED BY <1>4, <1>10, <1>13, <1>15, <1>19, <1>22, <1>23, <1>24, RoleTypes, UnderKeeps

\* A task that has left a group goes on with the next one, under the lock, or gives the
\* lock back.
LEMMA LeftIs ==
  ASSUME TypeOK, NEW t \in Tasks, NEW role \in Roles, NEW rest \in Seq(Gids), NEW lists,
         lists[role] = rest, Left(t, role, rest)
  PROVE  \E l \in LocRec : /\ loc' = [loc EXCEPT ![t] = l] /\ LocFits(l, lists)
                           /\ l.pc \in {"user", "exit", "fold", "unlink"}
                           /\ lock' = (IF Holding(l) THEN t ELSE NoTask)
                           /\ l.pc \in {"fold", "unlink"} => l.exiting
<1>1. CASE loc[t].exiting /\ rest # <<>>
  <2> DEFINE h == Head(rest)
             l == Leaving(t, h, role, TRUE)
  <2>1. lock' = t /\ loc' = [loc EXCEPT ![t] = l] BY <1>1 DEF Left, Goto
  <2>2. h \in Gids /\ InList(rest, h) BY <1>1, HeadIn
  <2> HIDE DEF h
  <2>3. /\ l \in LocRec /\ l.pc = (IF role = "producer" THEN "fold" ELSE "unlink")
        /\ l.gid = h /\ l.role = role /\ l.exiting
    BY <2>2, LeavingType, ZenonT(30)
  <2> HIDE DEF l
  <2>4. LocFits(l, lists) BY <2>2, <2>3 DEF LocFits
  <2>5. Holding(l) BY <2>3 DEF Holding
  <2> QED BY <2>1, <2>3, <2>4, <2>5
<1>2. CASE ~(loc[t].exiting /\ rest # <<>>)
  <2> DEFINE l == IF loc[t].exiting THEN [AtUser EXCEPT !.pc = "exit"] ELSE AtUser
  <2>1. lock' = NoTask /\ loc' = [loc EXCEPT ![t] = l] BY <1>2 DEF Left, Goto
  <2>2. l \in LocRec /\ l.pc \in {"user", "exit"} /\ ~l.exiting BY AtUserType DEF AtUser, LocRec
  <2> HIDE DEF l
  <2>3. LocFits(l, lists) /\ ~Holding(l) BY <2>2, IdleFits
  <2> QED BY <2>1, <2>2, <2>3
<1> QED BY <1>1, <1>2

\* What is left of a group when t has been unlinked from it.
Unlinked(gr, t, role) ==
  [gr EXCEPT !.members[role] = @ \ {t}, !.slot[t] = IF role = "producer" THEN 0 ELSE @,
             !.maps = [m \in Memories |-> PutMap(@[m], Tgid[t])]]

LEMMA UnlinkedIs ==
  ASSUME NEW gr \in GroupRec, NEW t \in Tasks, NEW role \in Roles
  PROVE  LET new == Unlinked(gr, t, role)
         IN  /\ new \in GroupRec /\ new.state = gr.state
             /\ new.members = [gr.members EXCEPT ![role] = @ \ {t}]
             /\ new.timestamp = gr.timestamp /\ new.ring = gr.ring
             /\ new.armed = gr.armed /\ new.running = gr.running
<1> DEFINE m == [gr.members EXCEPT ![role] = @ \ {t}]
           s == [gr.slot EXCEPT ![t] = IF role = "producer" THEN 0 ELSE @]
           maps == [x \in Memories |-> PutMap(gr.maps[x], Tgid[t])]
           new == Unlinked(gr, t, role)
<1>1. gr.slot \in [Tasks -> Slots] /\ gr.members \in [Roles -> SUBSET Tasks] /\ gr.maps \in [Memories -> [Pids -> Nat]]
  BY GroupFields
<1>2. m \in [Roles -> SUBSET Tasks] BY <1>1
<1>3. s \in [Tasks -> Slots] BY <1>1, SlotTypes
<1>4. maps \in [Memories -> [Pids -> Nat]]
  <2> SUFFICES ASSUME NEW x \in Memories PROVE PutMap(gr.maps[x], Tgid[t]) \in [Pids -> Nat]
    OBVIOUS
  <2>1. gr.maps[x] \in [Pids -> Nat] /\ Tgid[t] \in Pids BY <1>1 DEF Pids
  <2> QED BY <2>1 DEF PutMap
<1>5. new = [gr EXCEPT !.members = m, !.slot = s, !.maps = maps] BY DEF Unlinked, GroupRec
<1> HIDE DEF m, s, maps, new
<1>6. new \in GroupRec BY <1>2, <1>3, <1>4, <1>5 DEF GroupRec
<1>7. /\ new.members = m /\ new.slot = s /\ new.maps = maps
      /\ new.state = gr.state /\ new.timestamp = gr.timestamp /\ new.ring = gr.ring
      /\ new.armed = gr.armed /\ new.running = gr.running
      /\ new.history = gr.history /\ new.allocation = gr.allocation
      /\ new.counters = gr.counters /\ new.goal = gr.goal
  BY <1>5 DEF GroupRec
<1> QED BY <1>6, <1>7 DEF new, m, s, maps

LEMMA UnlinkedRest ==
  ASSUME NEW gr \in GroupRec, NEW t \in Tasks, NEW role \in Roles
  PROVE  LET new == Unlinked(gr, t, role)
         IN  /\ new.history = gr.history /\ new.allocation = gr.allocation
             /\ new.counters = gr.counters /\ new.goal = gr.goal
             /\ \A u \in Tasks : u # t => new.slot[u] = gr.slot[u]
             /\ new.maps = [m \in Memories |-> PutMap(gr.maps[m], Tgid[t])]
BY GroupFields DEF Unlinked, GroupRec

LEMMA UnlinkKeeps == ASSUME IInv, NEW t \in Tasks, Unlink(t) PROVE IInv'
<1> DEFINE g == loc[t].gid
           role == loc[t].role
           old == group[g]
           q == Without(joined[t][role], g)
           gr == Unlinked(old, t, role)
           lists == [joined[t] EXCEPT ![role] = q]
<1>1. TypeOK /\ LockExact /\ MembersExact /\ StateExact /\ TimerExact /\ TimeExact BY DEF IInv
<1>2. loc[t] \in LocRec /\ LocFits(loc[t], joined[t]) BY TaskFacts
<1>3. loc[t].pc = "unlink" BY DEF Unlink
<1>4. g \in Gids /\ role \in Roles /\ InList(joined[t][role], g) BY <1>2, <1>3, LocFields DEF LocFits
<1>5. joined[t][role] \in Seq(Gids) /\ Distinct(joined[t][role]) BY <1>4, TaskFacts
<1>6. /\ q \in Seq(Gids) /\ Distinct(q) /\ ~InList(q, g)
      /\ \A h : h # g => (InList(q, h) <=> InList(joined[t][role], h))
  BY <1>4, <1>5, UnlinkEffect
<1>7. old \in GroupRec /\ TimerFits(old) /\ SampledBefore(old, now)
  BY <1>1, <1>4 DEF TypeOK, TimerExact, TimeExact
<1>8. old.members \in [Roles -> SUBSET Tasks] BY <1>7, GroupFields
<1>9. old.state = "listed"
  <2>1. t \in old.members[role] BY <1>1, <1>4 DEF MembersExact
  <2>2. ~Empty(old) BY <1>4, <2>1 DEF Empty
  <2> QED BY <1>1, <1>4, <2>2 DEF StateExact
<1>10. lock \in {NoTask, t} BY DEF Unlink
<1>11. /\ joined' = [joined EXCEPT ![t][role] = q]
       /\ mapped' = [mapped EXCEPT ![t][role][g] = {}] /\ UNCHANGED <<now, beats, samples>>
  BY DEF Unlink
<1>12. /\ gr \in GroupRec /\ gr.state = old.state
       /\ gr.members = [old.members EXCEPT ![role] = @ \ {t}]
       /\ gr.timestamp = old.timestamp /\ gr.ring = old.ring
       /\ gr.armed = old.armed /\ gr.running = old.running
  <2>1. gr = Unlinked(old, t, role) OBVIOUS
  <2> HIDE DEF old, role, gr
  <2> QED BY <1>4, <1>7, <2>1, UnlinkedIs
<1>13. mapped' \in [Tasks -> [Roles -> [Gids -> SUBSET Memories]]]
  <2> DEFINE m == [mapped[t][role] EXCEPT ![g] = {}]
             mt == [mapped[t] EXCEPT ![role] = m]
  <2>1. mapped \in [Tasks -> [Roles -> [Gids -> SUBSET Memories]]] BY <1>1 DEF TypeOK
  <2>2. mapped' = [mapped EXCEPT ![t] = mt] BY <1>11
  <2> HIDE DEF g, role
  <2>3. m \in [Gids -> SUBSET Memories] BY <1>4, <2>1
  <2> HIDE DEF m
  <2>4. mt \in [Roles -> [Gids -> SUBSET Memories]] BY <1>4, <2>1, <2>3
  <2> HIDE DEF mt
  <2> QED BY <2>1, <2>2, <2>4
<1>14. beats' \in [Gids -> Nat] /\ samples' \in [Gids -> Seq(Sample)] BY <1>1, <1>11 DEF TypeOK
<1>15. lists[role] = q
  <2>1. joined[t] \in [Roles -> Seq(Gids)] BY <1>1 DEF TypeOK
  <2> QED BY <1>4, <2>1
<1>16. TimerFits(gr) /\ SampledBefore(gr, now)
  <2>1. gr.members["producer"] \subseteq old.members["producer"] BY <1>8, <1>12, RoleTypes
  <2>2. SampledBefore(gr, now) BY <1>7, <1>12 DEF SampledBefore
  <2>3. TimerFits(gr) BY <1>7, <1>9, <1>12, <2>1 DEF TimerFits
  <2> QED BY <2>2, <2>3
<1>17. CASE /\ Empty(gr) /\ group' = [group EXCEPT ![g] = [gr EXCEPT !.state = "unlisted"]]
            /\ lock' = t /\ Goto(t, [loc[t] EXCEPT !.pc = "destroy"])
  <2> DEFINE l == [loc[t] EXCEPT !.pc = "destroy"]
             new == [gr EXCEPT !.state = "unlisted"]
  <2>1. l \in LocRec /\ l.pc = "destroy" /\ l.gid = g /\ l.role = role /\ l.exiting = loc[t].exiting
    BY <1>2 DEF LocRec
  <2> HIDE DEF gr
  <2>2. new \in GroupRec BY <1>12, PutField
  <2>3. /\ new.state = "unlisted" /\ new.members = gr.members /\ new.timestamp = gr.timestamp
        /\ new.ring = gr.ring /\ new.armed = gr.armed /\ new.running = gr.running
    BY <1>12 DEF GroupRec
  <2>4. group' = [group EXCEPT ![g] = new] /\ loc' = [loc EXCEPT ![t] = l] BY <1>17 DEF Goto
  <2> HIDE DEF l, new, lists, q
  <2>5. Under(t, l, g, new, role, q) BY <1>10, <1>11, <1>17, <2>1, <2>4 DEF Under, Holding
  <2>6. LocFits(l, lists) BY <1>4, <2>1 DEF LocFits
  <2>7. Empty(new) BY <1>17, <2>3 DEF Empty
  <2>8. TimerFits(new) /\ SampledBefore(new, now)
    BY <1>16, <2>3 DEF TimerFits, SampledBefore
  <2>9. Sound(t, l, g, new, role, q)
    BY <1>3, <1>6, <1>12, <2>1, <2>3, <2>6, <2>7, <2>8 DEF Sound, Making, lists
  <2> HIDE DEF g, role
  <2> QED BY <1>4, <1>6, <1>13, <1>14, <2>1, <2>2, <2>5, <2>9, UnderKeeps
<1>18. CASE ~Empty(gr) /\ group' = [group EXCEPT ![g] = gr] /\ Left(t, role, q)
  <2> HIDE DEF lists, q, gr
  <2>1. PICK l \in LocRec : /\ loc' = [loc EXCEPT ![t] = l] /\ LocFits(l, lists)
                            /\ l.pc \in {"user", "exit", "fold", "unlink"}
                            /\ lock' = (IF Holding(l) THEN t ELSE NoTask)
    <3> HIDE DEF role
    <3> QED BY <1>1, <1>4, <1>6, <1>15, <1>18, LeftIs
  <2>2. Under(t, l, g, gr, role, q) BY <1>10, <1>11, <1>18, <2>1 DEF Under
  <2>3. Sound(t, l, g, gr, role, q)
    BY <1>3, <1>6, <1>9, <1>12, <1>16, <1>18, <2>1 DEF Sound, lists
  <2> HIDE DEF g, role
  <2> QED BY <1>4, <1>6, <1>12, <1>13, <1>14, <2>2, <2>3, UnderKeeps
<1> QED BY <1>17, <1>18 DEF Unlink, Unlinked

LEMMA DestroyKeeps == ASSUME IInv, NEW t \in Tasks, Destroy(t) PROVE IInv'
<1> DEFINE g == loc[t].gid
           role == loc[t].role
           old == group[g]
           q == joined[t][role]
           gr == [NoGroup EXCEPT !.running = old.running]
           lists == [joined[t] EXCEPT ![role] = q]
<1>1. TypeOK /\ LockExact /\ MembersExact /\ StateExact /\ TimerExact /\ TimeExact BY DEF IInv
<1>2. loc[t] \in LocRec /\ LocFits(loc[t], joined[t]) BY TaskFacts
<1>3. loc[t].pc = "destroy" /\ old.running = FALSE
  <2>1. loc[t].pc = "destroy" /\ ~old.running BY DEF Destroy, Cancelled
  <2>2. g \in Gids BY <1>2, <2>1 DEF LocFits
  <2>3. old.running \in BOOLEAN BY <1>1, <2>2, GroupFields DEF TypeOK
  <2> QED BY <2>1, <2>3
<1>4. g \in Gids /\ role \in Roles BY <1>2, <1>3, LocFields DEF LocFits
<1>5. q \in Seq(Gids) /\ Distinct(q) BY <1>4, TaskFacts
<1>6. lock = t BY <1>1, <1>3 DEF LockExact, Holding
<1>7. old.state = "unlisted" BY <1>1, <1>3 DEF StateExact
<1>8. Empty(old) BY <1>1, <1>4, <1>7 DEF StateExact
<1>9. old \in GroupRec /\ now \in Nat BY <1>1, <1>4 DEF TypeOK
<1>10. /\ gr \in GroupRec /\ gr.state = "none" /\ gr.timestamp = 0 /\ gr.ring = EmptyRing
       /\ gr.members = [r \in Roles |-> {}] /\ ~gr.armed /\ ~gr.running
  <2>1. gr = [NoGroup EXCEPT !.running = FALSE] BY <1>3
  <2>2. gr = NoGroup
    <3>1. NoGroup.running = FALSE BY DEF NoGroup
    <3>2. NoGroup = [NoGroup EXCEPT !.running = NoGroup.running] BY NoGroupType DEF GroupRec
    <3> QED BY <2>1, <3>1, <3>2
  <2>3. /\ NoGroup.state = "none" /\ NoGroup.timestamp = 0 /\ NoGroup.ring = EmptyRing
        /\ NoGroup.members = [r \in Roles |-> {}] /\ ~NoGroup.armed /\ ~NoGroup.running
    BY DEF NoGroup
  <2> QED BY <2>2, <2>3, NoGroupType
<1>11. ~InList(q, g) BY <1>1, <1>4, <1>8 DEF MembersExact, Empty
<1>12. gr.members = [old.members EXCEPT ![role] = @ \ {t}]
  <2>1. old.members \in [Roles -> SUBSET Tasks] BY <1>9, GroupFields
  <2>2. \A r \in Roles : old.members[r] = {} BY <1>8 DEF Empty
  <2> HIDE DEF role, old, gr
  <2> QED BY <1>4, <1>10, <2>1, <2>2
<1>13. /\ group' = [group EXCEPT ![g] = gr] /\ beats' = [beats EXCEPT ![g] = 0]
       /\ samples' = [samples EXCEPT ![g] = <<>>] /\ Left(t, role, q)
       /\ UNCHANGED <<joined, mapped, now>>
  BY DEF Destroy
<1>14. joined \in [Tasks -> [Roles -> Seq(Gids)]] BY <1>1 DEF TypeOK
<1>15. joined' = [joined EXCEPT ![t][role] = q] /\ lists = joined[t] /\ lists[role] = q
  BY <1>4, <1>13, <1>14
<1>16. /\ mapped' \in [Tasks -> [Roles -> [Gids -> SUBSET Memories]]] /\ beats' \in [Gids -> Nat]
       /\ samples' \in [Gids -> Seq(Sample)]
  <2>1. mapped' \in [Tasks -> [Roles -> [Gids -> SUBSET Memories]]] /\ beats' \in [Gids -> Nat]
    BY <1>1, <1>13 DEF TypeOK
  <2>2. <<>> \in Seq(Sample) /\ samples \in [Gids -> Seq(Sample)] BY <1>1 DEF TypeOK
  <2>3. samples' \in [Gids -> Seq(Sample)] BY <1>13, <2>2
  <2> QED BY <2>1, <2>3
<1> HIDE DEF gr, q, lists
<1>17. PICK l \in LocRec : /\ loc' = [loc EXCEPT ![t] = l] /\ LocFits(l, lists)
                           /\ l.pc \in {"user", "exit", "fold", "unlink"}
                           /\ lock' = (IF Holding(l) THEN t ELSE NoTask)
  <2> HIDE DEF role
  <2> QED BY <1>1, <1>4, <1>5, <1>13, <1>15, LeftIs
<1>18. Under(t, l, g, gr, role, q) BY <1>6, <1>13, <1>15, <1>17 DEF Under
<1>19. Empty(gr) BY <1>10 DEF Empty
<1>20. TimerFits(gr) BY <1>10, RoleTypes DEF TimerFits
<1>21. SampledBefore(gr, now) BY <1>9, <1>10 DEF SampledBefore, EmptyRing, NoSample
<1>22. Sound(t, l, g, gr, role, q)
  BY <1>5, <1>10, <1>11, <1>12, <1>17, <1>19, <1>20, <1>21 DEF Sound, lists, q
<1> HIDE DEF g, role
<1> QED BY <1>4, <1>5, <1>10, <1>16, <1>18, <1>22, UnderKeeps
-----------------------------------------------------------------------------
(***************************************************************************)
(* The timer.                                                              *)
(***************************************************************************)
\* A step of the timer of group g, at a time not before now.
LEMMA TimerKeeps ==
  ASSUME IInv, NEW g \in Gids, NEW gr \in GroupRec, group' = [group EXCEPT ![g] = gr],
         gr.state = group[g].state, gr.members = group[g].members,
         TimerFits(gr), SampledBefore(gr, now'),
         now' \in Nat \ {0}, now <= now', now' <= MaxTime, samples' \in [Gids -> Seq(Sample)],
         UNCHANGED <<joined, mapped, loc, lock, beats>>
  PROVE  IInv'
<1>1. TypeOK /\ LockExact /\ LocExact /\ ListsExact /\ MembersExact /\ StateExact /\ TimerExact /\ TimeExact
  BY DEF IInv
<1>2. \A h \in Gids : group'[h] = IF h = g THEN gr ELSE group[h] BY <1>1 DEF TypeOK
<1>3. TypeOK' BY <1>1 DEF TypeOK
<1>4. \A h \in Gids : group'[h].state = group[h].state /\ group'[h].members = group[h].members
  BY <1>2
<1>5. LockExact' BY <1>1 DEF LockExact, Holding
<1>6. LocExact' BY <1>1 DEF LocExact, LocFits, InList
<1>7. ListsExact' BY <1>1 DEF ListsExact, Distinct
<1>8. MembersExact' BY <1>1, <1>4 DEF MembersExact, InList
<1>9. StateExact'
  <2>1. \A h \in Gids : group'[h].state = "listed" <=> ~Empty(group'[h])
    BY <1>1, <1>4 DEF StateExact, Empty
  <2>2. \A h \in Gids : group'[h].state = "unlisted" => \E u \in Tasks : Making(loc[u], h)
    BY <1>1, <1>4 DEF StateExact
  <2>3. \A u \in Tasks : loc[u].pc \in {"alloc", "destroy"} => loc[u].gid \in Gids
    BY <1>1 DEF LocExact, LocFits
  <2>4. \A u \in Tasks : loc[u].pc = "alloc" => group'[loc[u].gid].state # "none"
    BY <1>1, <1>4, <2>3 DEF StateExact
  <2>5. \A u \in Tasks : loc[u].pc = "destroy" => group'[loc[u].gid].state = "unlisted"
    BY <1>1, <1>4, <2>3 DEF StateExact
  <2>6. loc' = loc OBVIOUS
  <2>7. \A h \in Gids : group'[h].state = "unlisted" => \E u \in Tasks : Making(loc'[u], h)
    BY <2>2, <2>6
  <2>8. \A u \in Tasks : loc'[u].pc = "alloc" => group'[loc'[u].gid].state # "none"
    BY <2>4, <2>6
  <2>9. \A u \in Tasks : loc'[u].pc = "destroy" => group'[loc'[u].gid].state = "unlisted"
    BY <2>5, <2>6
  <2> QED BY <2>1, <2>7, <2>8, <2>9 DEF StateExact, Empty, Making
<1>10. TimerExact'
  <2> SUFFICES ASSUME NEW h \in Gids PROVE TimerFits(group'[h]) BY DEF TimerExact, TimerFits
  <2>1. CASE h = g
    <3>1. group'[h] = gr BY <1>2, <2>1
    <3> QED BY <3>1
  <2>2. CASE h # g
    <3>1. group'[h] = group[h] BY <1>2, <2>2
    <3> QED BY <1>1, <3>1 DEF TimerExact
  <2> QED BY <2>1, <2>2
<1>11. TimeExact'
  <2> SUFFICES ASSUME NEW h \in Gids PROVE SampledBefore(group'[h], now')
    BY DEF TimeExact, SampledBefore
  <2>1. CASE h = g BY <1>2, <2>1
  <2>2. CASE h # g
    <3>1. SampledBefore(group[h], now) /\ group[h] \in GroupRec /\ now \in Nat
      BY <1>1 DEF TimeExact, TypeOK
    <3>2. group[h].timestamp \in Nat /\ group[h].ring \in Ring BY <3>1, GroupFields
    <3>3. \A k \in RingIdx : group[h].ring.window[k].elapsed_time \in Nat BY <3>2 DEF Ring, Sample
    <3>4. SampledBefore(group[h], now') BY <3>1, <3>2, <3>3 DEF SampledBefore
    <3> QED BY <1>2, <2>2, <3>4
  <2> QED BY <2>1, <2>2
<1> QED BY <1>3, <1>5, <1>6, <1>7, <1>8, <1>9, <1>10, <1>11 DEF IInv

LEMMA TimerFireKeeps == ASSUME IInv, NEW g \in Gids, TimerFire(g) PROVE IInv'
<1> DEFINE old == group[g]
           gr == [old EXCEPT !.armed = FALSE, !.running = TRUE]
<1>1. TypeOK /\ TimerExact /\ TimeExact BY DEF IInv
<1>2. old \in GroupRec /\ TimerFits(old) /\ SampledBefore(old, now) /\ now \in Nat \ {0} /\ now <= MaxTime
  BY <1>1 DEF TypeOK, TimerExact, TimeExact
<1>3. gr \in GroupRec BY <1>2 DEF GroupRec
<1>4. /\ gr.state = old.state /\ gr.members = old.members /\ gr.timestamp = old.timestamp
      /\ gr.ring = old.ring /\ ~gr.armed /\ gr.running
  BY <1>2 DEF GroupRec
<1>5. group' = [group EXCEPT ![g] = gr] BY DEF TimerFire
<1>6. old.armed /\ UNCHANGED <<joined, mapped, loc, lock, now, beats, samples>> BY DEF TimerFire
<1> HIDE DEF gr
<1>7. TimerFits(gr) BY <1>2, <1>4, <1>6 DEF TimerFits
<1>8. SampledBefore(gr, now') BY <1>2, <1>4, <1>6 DEF SampledBefore
<1>9. samples' \in [Gids -> Seq(Sample)] BY <1>1, <1>6 DEF TypeOK
<1>10. now' \in Nat \ {0} /\ now <= now' /\ now' <= MaxTime BY <1>2, <1>6
<1> QED BY <1>3, <1>4, <1>5, <1>6, <1>7, <1>8, <1>9, <1>10, TimerKeeps

\* What the callback of the timer makes of a group.
Measured(gr, n, e) ==
  [Restarted(gr) EXCEPT !.measures = UpdateMeasures(gr.measures, gr.ring, gr.goal, n, e),
                        !.ring = Advance(Sampled(gr.ring, n, e))]

LEMMA MeasuredIs ==
  ASSUME NEW gr \in GroupRec, NEW n \in Nat, NEW e \in Nat,
         \A k \in RingIdx : gr.ring.window[k].elapsed_time <= e
  PROVE  LET new == Measured(gr, n, e)
         IN  /\ new \in GroupRec /\ new.state = gr.state /\ new.members = gr.members
             /\ new.timestamp = gr.timestamp /\ new.armed /\ ~new.running
             /\ new.ring = Advance(Sampled(gr.ring, n, e))
             /\ new.measures = UpdateMeasures(gr.measures, gr.ring, gr.goal, n, e)
             /\ \A k \in RingIdx : new.ring.window[k].elapsed_time <= e
<1> DEFINE m == UpdateMeasures(gr.measures, gr.ring, gr.goal, n, e)
           s == Sampled(gr.ring, n, e)
           r == Advance(s)
           new == Measured(gr, n, e)
<1>1. gr.ring \in Ring /\ gr.measures \in Measures /\ gr.goal \in Goal BY GroupFields
<1>2. m \in Measures
  <2> DEFINE ring == gr.ring
             ms == gr.measures
             goal == gr.goal
  <2>1. ring \in Ring /\ ms \in Measures /\ goal \in Goal /\ m = UpdateMeasures(ms, ring, goal, n, e)
    BY <1>1
  <2>2. \A k \in RingIdx : ring.window[k].elapsed_time <= e OBVIOUS
  <2> HIDE DEF ring, ms, goal, m
  <2> QED BY <2>1, <2>2, UpdateMeasuresType
<1>3. s \in Ring /\ \A k \in RingIdx : s.window[k].elapsed_time <= e
  <2> DEFINE one == [counter |-> n, elapsed_time |-> e]
  <2>1. /\ s \in Ring
        /\ \A k \in RingIdx : s.window[k] = IF k = gr.ring.window_cur THEN one ELSE gr.ring.window[k]
    BY <1>1, SampledType
  <2>2. one.elapsed_time <= e OBVIOUS
  <2> HIDE DEF one, s
  <2> QED BY <2>1, <2>2
<1> HIDE DEF s, m
<1>4. r \in Ring /\ r.window = s.window BY <1>3, AdvanceType
<1> HIDE DEF r
<1>5. new = [gr EXCEPT !.armed = TRUE, !.running = FALSE, !.measures = m, !.ring = r]
  BY DEF Measured, Restarted, m, r, s
<1> HIDE DEF new
<1>6. new \in GroupRec BY <1>2, <1>4, <1>5 DEF GroupRec
<1>7. /\ new.state = gr.state /\ new.members = gr.members /\ new.timestamp = gr.timestamp
      /\ new.armed /\ ~new.running /\ new.ring = r /\ new.measures = m
  BY <1>5 DEF GroupRec
<1> QED BY <1>3, <1>4, <1>6, <1>7 DEF new, r, s, m

\* The time at which the callback runs.
LEMMA TimerBodyTime ==
  ASSUME IInv, NEW g \in Gids, NEW d \in Periods, TimerBody(g, d)
  PROVE  /\ now' \in Nat \ {0} /\ now <= now' /\ now' <= MaxTime
         /\ now' - group[g].timestamp \in Nat
         /\ \A k \in RingIdx : group[g].ring.window[k].elapsed_time <= now' - group[g].timestamp
         /\ \A k \in RingIdx : group[g].ring.window[k].elapsed_time \in Nat
<1>1. TypeOK /\ TimeExact BY DEF IInv
<1>2. now \in Nat \ {0} /\ now <= MaxTime /\ SampledBefore(group[g], now) /\ group[g] \in GroupRec
  BY <1>1 DEF TypeOK, TimeExact
<1>3. d \in Nat /\ MaxTime \in Nat BY HrmAssumption
<1>4. now + d \in Nat BY <1>2, <1>3
<1>5. now' = IF now + d <= MaxTime THEN now + d ELSE MaxTime BY <1>3, <1>4, MinIs DEF TimerBody
<1>6. now' \in Nat \ {0} /\ now <= now' /\ now' <= MaxTime BY <1>2, <1>3, <1>5
<1>7. group[g].timestamp \in Nat /\ group[g].ring \in Ring BY <1>2, GroupFields
<1>8. \A k \in RingIdx : group[g].ring.window[k].elapsed_time \in Nat BY <1>7 DEF Ring, Sample
<1> QED BY <1>2, <1>6, <1>7, <1>8 DEF SampledBefore

LEMMA TimerBodyIs ==
  ASSUME NEW g \in Gids, NEW d \in Periods, TimerBody(g, d)
  PROVE  LET e == now' - group[g].timestamp
             n == Total(group[g])
         IN  /\ group' = [group EXCEPT ![g] = Measured(group[g], n, e)]
             /\ samples' = [samples EXCEPT ![g] =
                              Remember(@, [counter |-> n, elapsed_time |-> e], Depth)]
             /\ group[g].running /\ UNCHANGED <<joined, mapped, loc, lock, beats>>
BY DEF TimerBody, Measured

LEMMA TimerBodyKeeps == ASSUME IInv, NEW g \in Gids, NEW d \in Periods, TimerBody(g, d) PROVE IInv'
<1> DEFINE old == group[g]
           e == now' - old.timestamp
           n == Total(old)
           gr == Measured(old, n, e)
           sample == [counter |-> n, elapsed_time |-> e]
<1>1. TypeOK /\ TimerExact BY DEF IInv
<1>2. old \in GroupRec /\ TimerFits(old) BY <1>1 DEF TypeOK, TimerExact
<1>3. /\ now' \in Nat \ {0} /\ now <= now' /\ now' <= MaxTime /\ e \in Nat
      /\ \A k \in RingIdx : old.ring.window[k].elapsed_time <= e
  BY TimerBodyTime
<1>4. n \in Nat BY <1>2, TotalType
<1>5. /\ group' = [group EXCEPT ![g] = gr] /\ samples' = [samples EXCEPT ![g] = Remember(@, sample, Depth)]
      /\ old.running /\ UNCHANGED <<joined, mapped, loc, lock, beats>>
  BY TimerBodyIs
<1>6. old.timestamp \in Nat /\ now' = e + old.timestamp BY <1>2, <1>3, GroupFields
<1>7. samples' \in [Gids -> Seq(Sample)]
  <2>1. sample \in Sample BY <1>3, <1>4 DEF Sample
  <2>2. samples \in [Gids -> Seq(Sample)] BY <1>1 DEF TypeOK
  <2> DEFINE q == Remember(samples[g], sample, Depth)
             sg == samples[g]
  <2>3. sg \in Seq(Sample) /\ q = Remember(sg, sample, Depth) BY <2>2
  <2> HIDE DEF sample, sg, q
  <2>4. q \in Seq(Sample) BY <2>1, <2>3, DepthType, RememberType
  <2>5. samples' = [samples EXCEPT ![g] = q] BY <1>5 DEF q
  <2> QED BY <2>2, <2>4, <2>5
<1> HIDE DEF e, n, old
<1>8. /\ gr \in GroupRec /\ gr.state = old.state /\ gr.members = old.members
      /\ gr.timestamp = old.timestamp /\ gr.armed /\ ~gr.running
      /\ \A k \in RingIdx : gr.ring.window[k].elapsed_time <= e
  BY <1>2, <1>3, <1>4, MeasuredIs
<1> HIDE DEF gr
<1>9. \A k \in RingIdx : gr.ring.window[k].elapsed_time \in Nat
  <2>1. gr.ring \in Ring BY <1>8, GroupFields
  <2> QED BY <2>1 DEF Ring, Sample
<1>10. TimerFits(gr) BY <1>2, <1>5, <1>8 DEF TimerFits
<1>11. SampledBefore(gr, now') BY <1>3, <1>6, <1>8, <1>9 DEF SampledBefore
<1> QED BY <1>3, <1>5, <1>7, <1>8, <1>10, <1>11, TimerKeeps DEF old
-----------------------------------------------------------------------------
(***************************************************************************)
(* The theorems.                                                           *)
(***************************************************************************)
LEMMA InitHolds == Init => IInv
<1> SUFFICES ASSUME Init PROVE IInv OBVIOUS
<1>1. \A g \in Gids : group[g] = NoGroup BY DEF Init
<1>2. \A t \in Tasks : loc[t] = AtUser BY DEF Init
<1>3. \A t \in Tasks, r \in Roles : joined[t][r] = <<>> BY DEF Init
<1>4. TypeOK
  <2>1. group \in [Gids -> GroupRec] BY NoGroupType DEF Init
  <2>2. loc \in [Tasks -> LocRec] BY AtUserType DEF Init
  <2>3. joined \in [Tasks -> [Roles -> Seq(Gids)]] BY DEF Init
  <2>4. mapped \in [Tasks -> [Roles -> [Gids -> SUBSET Memories]]] BY DEF Init
  <2>5. lock \in Tasks \cup {NoTask} /\ now \in Nat \ {0} /\ beats \in [Gids -> Nat] BY DEF Init
  <2>6. samples \in [Gids -> Seq(Sample)] BY DEF Init
  <2> QED BY <2>1, <2>2, <2>3, <2>4, <2>5, <2>6 DEF TypeOK
<1>5. AtUser.pc = "user" /\ AtUser.exiting = FALSE BY DEF AtUser
<1>6. LockExact
  <2>1. ~Holding(AtUser) BY <1>5 DEF Holding
  <2> QED BY <1>2, <2>1, HrmAssumption DEF LockExact, Init
<1>7. LocExact
  <2>1. \A t \in Tasks : LocFits(AtUser, joined[t]) BY <1>5, AtUserType, IdleFits
  <2> QED BY <1>2, <2>1 DEF LocExact
<1>8. ListsExact BY <1>3, EmptyList DEF ListsExact
<1>9. NoGroup.members = [r \in Roles |-> {}] /\ NoGroup.state = "none" /\ NoGroup.timestamp = 0
      /\ ~NoGroup.armed /\ ~NoGroup.running /\ NoGroup.ring = EmptyRing
  BY DEF NoGroup
<1>10. MembersExact BY <1>1, <1>3, <1>9, EmptyList DEF MembersExact
<1>11. StateExact
  <2>1. Empty(NoGroup) BY <1>9 DEF Empty
  <2> QED BY <1>1, <1>2, <1>5, <1>9, <2>1 DEF StateExact
<1>12. TimerExact
  <2>1. TimerFits(NoGroup) BY <1>9, RoleTypes DEF TimerFits
  <2> QED BY <1>1, <2>1 DEF TimerExact
<1>13. TimeExact
  <2>1. now = 1 /\ MaxTime \in Nat \ {0} BY HrmAssumption DEF Init
  <2>2. SampledBefore(NoGroup, now) BY <1>9, <2>1 DEF SampledBefore, EmptyRing, NoSample
  <2> QED BY <1>1, <2>1, <2>2 DEF TimeExact
<1> QED BY <1>4, <1>6, <1>7, <1>8, <1>10, <1>11, <1>12, <1>13 DEF IInv

LEMMA StutterKeeps == IInv /\ UNCHANGED vars => IInv'
<1> SUFFICES ASSUME IInv, UNCHANGED vars PROVE IInv' OBVIOUS
<1>1. UNCHANGED <<group, joined, mapped, loc, lock, now, beats, samples>> BY DEF vars
<1>2. TypeOK' BY <1>1 DEF IInv, TypeOK
<1>3. LockExact' BY <1>1 DEF IInv, LockExact, Holding
<1>4. LocExact' BY <1>1 DEF IInv, LocExact, LocFits, InList
<1>5. ListsExact' BY <1>1 DEF IInv, ListsExact, Distinct
<1>6. MembersExact' BY <1>1 DEF IInv, MembersExact, InList
<1>7. StateExact' BY <1>1 DEF IInv, StateExact, Empty, Making
<1>8. TimerExact' BY <1>1 DEF IInv, TimerExact, TimerFits
<1>9. TimeExact' BY <1>1 DEF IInv, TimeExact, SampledBefore
<1> QED BY <1>2, <1>3, <1>4, <1>5, <1>6, <1>7, <1>8, <1>9 DEF IInv

LEMMA NextKeeps == IInv /\ [Next]_vars => IInv'
<1> SUFFICES ASSUME IInv, [Next]_vars PROVE IInv' OBVIOUS
<1>1. ASSUME NEW t \in Tasks, Continue(t) PROVE IInv'
  <2>1. CASE \E memory \in Memories, fails \in MapFails : Mmap(t, memory, fails) BY <2>1, MmapKeeps
  <2> QED BY <1>1, <2>1, LinkProducerKeeps, FoldKeeps, ReleaseKeeps, ExitDoneKeeps, SetGoalScopeKeeps,
             EndDelWindowKeeps DEF Continue
<1>2. ASSUME NEW t \in Tasks, Wait(t) PROVE IInv'
  BY <1>2, UnlinkKeeps, DestroyKeeps, ExitGroupsKeeps DEF Wait
<1>3. ASSUME NEW t \in Tasks, Call(t) PROVE IInv'
  <2>1. CASE Exit(t) \/ Fork(t) BY <2>1, ExitKeeps, ForkKeeps
  <2>2. ASSUME NEW g \in Gids,
               AddProducer(t, g) \/ AddConsumer(t, g) \/ Heartbeat(t, g) \/ UnsetGoal(t, g)
        PROVE  IInv'
    BY <2>2, AddProducerKeeps, AddConsumerKeeps, HeartbeatKeeps, UnsetGoalKeeps
  <2>3. ASSUME NEW g \in Gids, NEW role \in Roles, Detach(t, g, role) PROVE IInv' BY <2>3, DetachKeeps
  <2>4. ASSUME NEW g \in Gids, NEW ws \in WindowAsks,
               \/ \E role \in Roles : Add(t, g, role, ws)
               \/ SetGoalWindow(t, g, ws) \/ BeginDelWindow(t, g, ws)
        PROVE  IInv'
    BY <2>4, AddKeeps, SetGoalWindowKeeps, BeginDelWindowKeeps
  <2> QED BY <1>3, <2>1, <2>2, <2>3, <2>4 DEF Call
<1>4. ASSUME NEW g \in Gids, Timer(g) PROVE IInv' BY <1>4, TimerFireKeeps, TimerBodyKeeps DEF Timer
<1>5. CASE UNCHANGED vars BY <1>5, StutterKeeps
<1> QED BY <1>1, <1>2, <1>3, <1>4, <1>5 DEF Next

\* The inductive invariant holds in every state: types, who holds hrm_groups_lock, where
\* each task is in its calls, what its lists, the members of a group, the state of the
\* group, its timer and its timestamp say of one another.
THEOREM Invariant == Spec => []IInv
BY InitHolds, NextKeeps, PTL DEF Spec

\* Every handler of kernel/hrm.c, fs/proc/hrm.c and libhrm keeps the types: slots and
\* cursors stay within their arrays, and nothing that is counted down goes below zero.
THEOREM GroupTypes == Spec => []TypeOK
<1>1. IInv => TypeOK BY DEF IInv
<1> QED BY <1>1, Invariant, PTL

\* A task is never left with a group that is off hrm_groups or freed, and no group outlives
\* its last member once hrm_groups_lock is free, however joins, detaches and exits of any
\* number of tasks interleave.
THEOREM GroupsStayExact == Spec => []GroupsExact
<1>1. IInv => GroupsExact
  <2> SUFFICES ASSUME IInv, NEW g \in Gids
               PROVE  /\ \A t \in Tasks, r \in Roles :
                           Joined(t, g, r) => group[g].state = "listed" /\ t \in group[g].members[r]
                      /\ lock = NoTask => (group[g].state # "none" <=> Members(g) # {})
    BY DEF GroupsExact
  <2>1. TypeOK /\ LockExact /\ MembersExact /\ StateExact BY DEF IInv
  <2>2. ASSUME NEW t \in Tasks, NEW r \in Roles, Joined(t, g, r)
        PROVE  group[g].state = "listed" /\ t \in group[g].members[r]
    <3>1. t \in group[g].members[r] BY <2>1, <2>2 DEF MembersExact, Joined, InList
    <3>2. ~Empty(group[g]) BY <3>1 DEF Empty
    <3> QED BY <2>1, <3>1, <3>2 DEF StateExact
  <2>3. ASSUME lock = NoTask PROVE group[g].state # "none" <=> Members(g) # {}
    <3>1. group[g].state # "unlisted" BY <2>3, FindOrCreateIs
    <3>2. group[g].state \in {"none", "listed", "unlisted"} BY <2>1, GroupFields DEF TypeOK
    <3>3. Empty(group[g]) <=> Members(g) = {} BY DEF Empty, Members
    <3> QED BY <2>1, <3>1, <3>2, <3>3 DEF StateExact
  <2> QED BY <2>2, <2>3
<1> QED BY <1>1, Invariant, PTL

\* A group that is freed has no timer, so hrtimer_cancel in __hrm_destroy_group has waited
\* for the callback, and nothing started the timer again.
THEOREM TimerStaysSafe == Spec => []TimerSafe
<1>1. IInv => TimerSafe BY DEF IInv, TimerSafe, TimerExact, TimerFits
<1> QED BY <1>1, Invariant, PTL

\* While a group has producers its timer is queued or its callback runs, whoever was first
\* in the group.
THEOREM TimerStaysKept == Spec => []TimerKept
<1>1. IInv => TimerKept BY DEF IInv, TimerKept, TimerExact, TimerFits
<1> QED BY <1>1, Invariant, PTL
=============================================================================
