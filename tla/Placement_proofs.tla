-------------------------- MODULE Placement_proofs --------------------------
(***************************************************************************)
(* Theorems about Placement, for any clusters, topics, strategies and ways *)
(* to break ties.                                                          *)
(***************************************************************************)
EXTENDS Placement, FiniteSetTheorems, FunctionTheorems, SequenceTheorems, TLAPS

(***************************************************************************)
(* Sets of numbers, and counting.                                          *)
(***************************************************************************)
\* A non-empty set of naturals has a least element, and Least is it.
LEMMA LeastIs ==
    ASSUME NEW S, S \subseteq Nat, S # {}
    PROVE  Least(S) \in S /\ \A y \in S : Least(S) <= y
<1> DEFINE R == {ss \in Nat \X Nat : ss[1] < ss[2]}
<1>1. IsWellFoundedOn(R, Nat)
  BY NatLessThanWellFounded DEF OpToRel
<1>2. \A x, y \in Nat : ~(<<y, x>> \in R) => x <= y
  OBVIOUS
<1> HIDE DEF R
<1>3. \E x \in S : \A y \in S : ~(<<y, x>> \in R)
  BY <1>1, WFMin
<1>4. \E x \in S : \A y \in S : x <= y
  BY <1>2, <1>3
<1> QED BY <1>4 DEF Least

\* Of the values of a function into the naturals one is the smallest.
LEMMA SmallestIs ==
    ASSUME NEW S, S # {}, NEW F \in [S -> Nat]
    PROVE  \E x \in S : \A y \in S : F[x] <= F[y]
<1> DEFINE T == {F[x] : x \in S}
<1>1. T \subseteq Nat /\ T # {}
  OBVIOUS
<1>2. Least(T) \in T /\ \A y \in T : Least(T) <= y
  BY <1>1, LeastIs
<1> QED BY <1>2

\* When the values are bounded, one is the largest.
LEMMA LargestIs ==
    ASSUME NEW S, S # {}, NEW n \in Nat, NEW F \in [S -> 0..n]
    PROVE  \E x \in S : \A y \in S : F[x] >= F[y]
<1> DEFINE G == [x \in S |-> n - F[x]]
<1>1. G \in [S -> Nat]
  OBVIOUS
<1>2. PICK x \in S : \A y \in S : G[x] <= G[y]
  BY <1>1, SmallestIs
<1>3. \A y \in S : F[x] >= F[y]
  BY <1>2
<1> QED BY <1>3

\* The numbers up to n are n.
LEMMA Upto ==
    ASSUME NEW n \in Nat
    PROVE  IsFiniteSet(1..n) /\ Cardinality(1..n) = n
BY FS_Interval

\* Some of the numbers up to n are finitely many, and at most n.
LEMMA SomeOf ==
    ASSUME NEW n \in Nat, NEW S, S \subseteq 1..n
    PROVE  IsFiniteSet(S) /\ Cardinality(S) \in 0..n
<1>1. IsFiniteSet(1..n) /\ Cardinality(1..n) = n
  BY FS_Interval
<1>2. IsFiniteSet(S) /\ Cardinality(S) <= n
  BY <1>1, FS_Subset
<1> QED BY <1>2, FS_CardinalityType

\* A function into a finite set that repeats no value has a small domain.
LEMMA InjectionBounds ==
    ASSUME NEW S, NEW T, IsFiniteSet(T), NEW F \in [S -> T],
           \A x, y \in S : F[x] = F[y] => x = y
    PROVE  IsFiniteSet(S) /\ Cardinality(S) <= Cardinality(T)
BY Fun_IsInj, FS_Injection

\* The slots of k racks with a slots each.
LEMMA SlotsCount ==
    ASSUME NEW k \in Nat, NEW a \in Nat
    PROVE  IsFiniteSet((1..k) \X (1..a)) /\ Cardinality((1..k) \X (1..a)) = a * k
<1>1. /\ IsFiniteSet(1..k) /\ Cardinality(1..k) = k
      /\ IsFiniteSet(1..a) /\ Cardinality(1..a) = a
  BY Upto
<1>2. /\ IsFiniteSet((1..k) \X (1..a))
      /\ Cardinality((1..k) \X (1..a)) = Cardinality(1..k) * Cardinality(1..a)
  BY <1>1, FS_Product
<1>3. k * a = a * k
  OBVIOUS
<1> QED BY <1>1, <1>2, <1>3

Fiber(f, n, r) == {p \in 1..n : f[p] = r}
Size(f, n, r) == Cardinality(Fiber(f, n, r))
Names(f, n, r, h) ==
    /\ h \in [1..Size(f, n, r) -> Fiber(f, n, r)]
    /\ \A i, j \in 1..Size(f, n, r) : h[i] = h[j] => i = j
Numbers(f, n, r, h) ==
    /\ h \in [Fiber(f, n, r) -> 1..Size(f, n, r)]
    /\ \A i, j \in Fiber(f, n, r) : h[i] = h[j] => i = j

\* The elements of a fiber can be numbered.
LEMMA Numbering ==
    ASSUME NEW n \in Nat, NEW f, NEW r
    PROVE  /\ Size(f, n, r) \in 0..n
           /\ \E h : Names(f, n, r, h)
           /\ \E h : Numbers(f, n, r, h)
<1> DEFINE S == Fiber(f, n, r)
           m == Size(f, n, r)
<1>1. IsFiniteSet(S) /\ m \in 0..n
  BY SomeOf DEF Fiber, Size
<1>2. ExistsBijection(1..m, S)
  BY <1>1, FS_CardinalityType DEF Size
<1>3. ExistsBijection(S, 1..m)
  BY <1>2, Fun_ExistsBijSymmetric
<1>4. PICK h \in Bijection(1..m, S) : TRUE
  BY <1>2 DEF ExistsBijection
<1>5. PICK g \in Bijection(S, 1..m) : TRUE
  BY <1>3 DEF ExistsBijection
<1> HIDE DEF S, m
<1>6. h \in [1..m -> S] /\ \A i, j \in 1..m : h[i] = h[j] => i = j
  BY Fun_BijectionProperties
<1>7. g \in [S -> 1..m] /\ \A i, j \in S : g[i] = g[j] => i = j
  BY Fun_BijectionProperties
<1> QED BY <1>1, <1>6, <1>7 DEF Names, Numbers, S, m

\* When n things fall to k racks, none has more than its share and one has
\* less, there are fewer than k shares of them.
LEMMA TooFew ==
    ASSUME NEW n \in Nat, NEW k \in Nat, NEW a \in Nat, NEW f \in [1..n -> 1..k],
           \A r \in 1..k : Size(f, n, r) <= a,
           NEW s \in 1..k, Size(f, n, s) < a
    PROVE  n < a * k
<1>1. ASSUME NEW r \in 1..k PROVE Size(f, n, r) \in Nat /\ \E h : Numbers(f, n, r, h)
  <2>1. Size(f, n, r) \in 0..n /\ \E h : Numbers(f, n, r, h)
    BY Numbering
  <2> QED BY <2>1
<1> DEFINE H == [r \in 1..k |-> CHOOSE h : Numbers(f, n, r, h)]
           All == (1..k) \X (1..a)
           Slots == All \ {<<s, a>>}
           g == [p \in 1..n |-> <<f[p], H[f[p]][p]>>]
<1>2. \A r \in 1..k : Numbers(f, n, r, H[r])
  BY <1>1
<1>3. \A p \in 1..n : p \in Fiber(f, n, f[p])
  BY DEF Fiber
<1> HIDE DEF H
<1>4. \A p \in 1..n : H[f[p]][p] \in 1..Size(f, n, f[p])
  BY <1>2, <1>3 DEF Numbers
<1>5. \A p, q \in 1..n : f[p] = f[q] /\ H[f[p]][p] = H[f[q]][q] => p = q
  BY <1>2, <1>3 DEF Numbers
<1>6. \A p \in 1..n : /\ f[p] \in 1..k /\ H[f[p]][p] \in 1..a
                      /\ f[p] = s => H[f[p]][p] # a
  BY <1>1, <1>4
<1>7. g \in [1..n -> Slots]
  BY <1>6
<1>8. \A p, q \in 1..n : g[p] = g[q] => p = q
  BY <1>5
<1>9. <<s, a>> \in All /\ a * k \in Nat
  BY <1>1
<1>10. IsFiniteSet(Slots) /\ Cardinality(Slots) = a * k - 1
  <2>1. IsFiniteSet(All) /\ Cardinality(All) = a * k
    BY SlotsCount
  <2> HIDE DEF All
  <2> QED BY <2>1, <1>9, FS_RemoveElement
<1>11. Cardinality(1..n) <= Cardinality(Slots)
  <2> HIDE DEF Slots, g
  <2> QED BY <1>7, <1>8, <1>10, InjectionBounds
<1> HIDE DEF Slots
<1> QED BY <1>9, <1>10, <1>11, Upto

\* When none has less than its share and one has more, there are more.
LEMMA TooMany ==
    ASSUME NEW n \in Nat, NEW k \in Nat, NEW a \in Nat, NEW f \in [1..n -> 1..k],
           \A r \in 1..k : Size(f, n, r) >= a,
           NEW s \in 1..k, Size(f, n, s) > a
    PROVE  n > a * k
<1>1. ASSUME NEW r \in 1..k PROVE Size(f, n, r) \in Nat /\ \E h : Names(f, n, r, h)
  <2>1. Size(f, n, r) \in 0..n /\ \E h : Names(f, n, r, h)
    BY Numbering
  <2> QED BY <2>1
<1> DEFINE H == [r \in 1..k |-> CHOOSE h : Names(f, n, r, h)]
           All == (1..k) \X (1..a)
           Slots == All \cup {<<s, a + 1>>}
           g == [x \in Slots |-> H[x[1]][x[2]]]
<1>2. \A r \in 1..k : Names(f, n, r, H[r])
  BY <1>1
<1> HIDE DEF H
<1>3. \A x \in Slots : x[1] \in 1..k /\ x[2] \in 1..Size(f, n, x[1]) /\ x = <<x[1], x[2]>>
  BY <1>1
<1>4. <<s, a + 1>> \notin All /\ a * k \in Nat
  OBVIOUS
<1>5. IsFiniteSet(Slots) /\ Cardinality(Slots) = a * k + 1
  <2>1. IsFiniteSet(All) /\ Cardinality(All) = a * k
    BY SlotsCount
  <2> HIDE DEF All
  <2> QED BY <2>1, <1>4, FS_AddElement
<1> HIDE DEF Slots
<1>6. \A x \in Slots : H[x[1]][x[2]] \in 1..n /\ f[H[x[1]][x[2]]] = x[1]
  <2> SUFFICES ASSUME NEW x \in Slots
               PROVE  H[x[1]][x[2]] \in Fiber(f, n, x[1])
    BY DEF Fiber
  <2> QED BY <1>2, <1>3 DEF Names
<1>7. g \in [Slots -> 1..n]
  BY <1>6
<1>8. ASSUME NEW x \in Slots, NEW y \in Slots, g[x] = g[y] PROVE x = y
  <2>1. x[1] = y[1]
    BY <1>8, <1>6
  <2>2. x[2] = y[2]
    BY <1>8, <2>1, <1>2, <1>3 DEF Names
  <2> QED BY <2>1, <2>2, <1>3
<1>9. Cardinality(Slots) <= Cardinality(1..n)
  <2>1. IsFiniteSet(1..n)
    BY Upto
  <2> HIDE DEF g
  <2> QED BY <2>1, <1>7, <1>8, InjectionBounds
<1> QED BY <1>4, <1>5, <1>9, Upto

-----------------------------------------------------------------------------
(***************************************************************************)
(* Assignments.                                                            *)
(***************************************************************************)
\* A placeholder is one of the replicas.
LEMMA HolesAre ==
    ASSUME NEW A
    PROVE  /\ \A h : h \in HolesOf(A) <=>
                 \E p \in 1..Len(A) : \E r \in 1..Len(A[p]) : h = <<p, r>> /\ A[p][r] = Hole
           /\ HolesOf(A) = {} <=> \A p \in 1..Len(A) : \A r \in 1..Len(A[p]) : A[p][r] # Hole
<1>1. \A h : h \in HolesOf(A) <=>
         \E p \in 1..Len(A) : \E r \in 1..Len(A[p]) : h = <<p, r>> /\ A[p][r] = Hole
  BY DEF HolesOf
<1> QED BY <1>1

\* The image of a finite set is finite, and as large only if no value repeats.
LEMMA ImageIs ==
    ASSUME NEW S, IsFiniteSet(S), NEW F, F = [x \in S |-> F[x]]
    PROVE  LET T == {F[x] : x \in S}
           IN  /\ IsFiniteSet(T) /\ Cardinality(T) <= Cardinality(S)
               /\ Cardinality(T) = Cardinality(S) <=>
                     \A x, y \in S : F[x] = F[y] => x = y
<1> DEFINE T == {F[x] : x \in S}
<1>1. F \in [S -> T] /\ \A t \in T : \E x \in S : F[x] = t
  OBVIOUS
<1> HIDE DEF T
<1>2. F \in Surjection(S, T)
  BY <1>1, Fun_IsSurj
<1>3. /\ IsFiniteSet(T) /\ Cardinality(T) <= Cardinality(S)
      /\ Cardinality(T) = Cardinality(S) <=> F \in Injection(S, T)
  BY <1>2, FS_Surjection
<1>4. F \in Injection(S, T) <=> \A x, y \in S : F[x] = F[y] => x = y
  BY <1>1, Fun_IsInj DEF Injection, IsInjective
<1> QED BY <1>3, <1>4 DEF T

Put(A, p, r, b) == [A EXCEPT ![p][r] = b]

\* What becomes of the placement: that place changes, and no other.
Placed(S, A, p, r, b, B) ==
    /\ B \in Seq(Seq(S)) /\ Len(B) = Len(A)
    /\ \A q \in 1..Len(A) : Len(B[q]) = Len(A[q])
    /\ \A q \in 1..Len(A) : q # p => B[q] = A[q]
    /\ B[p][r] = b
    /\ \A s \in 1..Len(A[p]) : s # r => B[p][s] = A[p][s]

\* Putting a broker in one place changes that place only.
LEMMA PutIs ==
    ASSUME NEW S, NEW A \in Seq(Seq(S)), NEW p \in 1..Len(A), NEW r \in 1..Len(A[p]),
           NEW b \in S
    PROVE  Placed(S, A, p, r, b, Put(A, p, r, b))
<1> DEFINE row == [A[p] EXCEPT ![r] = b]
<1>1. A[p] \in Seq(S) /\ \A q \in 1..Len(A) : A[q] \in Seq(S)
  BY ElementOfSeq
<1>2. row \in Seq(S) /\ Len(row) = Len(A[p]) /\ \A s \in 1..Len(A[p]) :
         row[s] = IF s = r THEN b ELSE A[p][s]
  BY <1>1, ExceptSeq
<1>3. Put(A, p, r, b) = [A EXCEPT ![p] = row]
  BY DEF Put
<1> HIDE DEF row
<1>4. /\ Put(A, p, r, b) \in Seq(Seq(S)) /\ Len(Put(A, p, r, b)) = Len(A)
      /\ \A q \in 1..Len(A) : Put(A, p, r, b)[q] = IF q = p THEN row ELSE A[q]
  BY <1>2, <1>3, ExceptSeq
<1> QED BY <1>2, <1>4 DEF Placed

\* The racks of the leaders of n partitions: what Leads counts is a fiber.
LEMMA LeadsAre ==
    ASSUME NEW A, Len(A) \in Nat, NEW rack, NEW r
    PROVE  /\ Leads(A, rack, r) = Size([p \in 1..Len(A) |-> rack[A[p][1]]], Len(A), r)
           /\ Leads(A, rack, r) \in 0..Len(A)
<1> DEFINE f == [p \in 1..Len(A) |-> rack[A[p][1]]]
<1>1. Fiber(f, Len(A), r) = {p \in 1..Len(A) : rack[A[p][1]] = r}
  BY DEF Fiber
<1>2. Size(f, Len(A), r) \in 0..Len(A)
  BY Numbering
<1> QED BY <1>1, <1>2 DEF Leads, Size

\* When the leaders are not balanced, the rack with the most has more than
\* its share and the one with the fewest has less.
LEMMA Unbalanced ==
    ASSUME NEW A, NEW n \in Nat, Len(A) = n, NEW rack, NEW k \in Nat,
           RacksOf(rack) = 1..k, \A p \in 1..n : rack[A[p][1]] \in 1..k,
           NEW a \in Nat, n = a * k, ~Balanced(A, rack)
    PROVE  /\ \E r \in 1..k : Leads(A, rack, r) > a
           /\ \E r \in 1..k : Leads(A, rack, r) < a
<1> DEFINE f == [p \in 1..n |-> rack[A[p][1]]]
<1>1. ASSUME NEW r \in 1..k
      PROVE  Leads(A, rack, r) = Size(f, n, r) /\ Leads(A, rack, r) \in Nat
  <2>1. Leads(A, rack, r) = Size(f, n, r) /\ Leads(A, rack, r) \in 0..n
    BY LeadsAre
  <2> QED BY <2>1
<1>2. f \in [1..n -> 1..k]
  OBVIOUS
<1>3. PICK r \in 1..k : Leads(A, rack, r) # a
  BY DEF Balanced
<1> HIDE DEF f
<1>4. ASSUME \A s \in 1..k : Leads(A, rack, s) <= a PROVE FALSE
  <2>1. Size(f, n, r) < a /\ \A s \in 1..k : Size(f, n, s) <= a
    BY <1>1, <1>3, <1>4
  <2>2. n < a * k
    BY <1>2, <2>1, TooFew
  <2> QED BY <2>2
<1>5. ASSUME \A s \in 1..k : Leads(A, rack, s) >= a PROVE FALSE
  <2>1. Size(f, n, r) > a /\ \A s \in 1..k : Size(f, n, s) >= a
    BY <1>1, <1>3, <1>5
  <2>2. n > a * k
    BY <1>2, <2>1, TooMany
  <2> QED BY <2>2
<1> QED BY <1>1, <1>4, <1>5

\* MinRack and MaxRack are racks, with the fewest and the most leaders.
LEMMA ExtremesAre ==
    ASSUME NEW A, Len(A) \in Nat, NEW rack, NEW k \in Nat \ {0}, RacksOf(rack) = 1..k
    PROVE  /\ MinRack(A, rack) \in 1..k /\ MaxRack(A, rack) \in 1..k
           /\ \A r \in 1..k : /\ Leads(A, rack, MinRack(A, rack)) <= Leads(A, rack, r)
                              /\ Leads(A, rack, MaxRack(A, rack)) >= Leads(A, rack, r)
<1> DEFINE F == [r \in 1..k |-> Leads(A, rack, r)]
           Fewest == {r \in RacksOf(rack) :
                        \A s \in RacksOf(rack) : Leads(A, rack, r) <= Leads(A, rack, s)}
           Most == {r \in RacksOf(rack) :
                        \A s \in RacksOf(rack) : Leads(A, rack, r) >= Leads(A, rack, s)}
<1>1. \A r \in 1..k : Leads(A, rack, r) \in 0..Len(A)
  BY LeadsAre
<1>2. F \in [1..k -> 0..Len(A)] /\ F \in [1..k -> Nat] /\ 1..k # {}
  BY <1>1
<1>3. \E r \in 1..k : \A s \in 1..k : F[r] <= F[s]
  <2> HIDE DEF F
  <2> QED BY <1>2, SmallestIs
<1>4. \E r \in 1..k : \A s \in 1..k : F[r] >= F[s]
  <2> HIDE DEF F
  <2> QED BY <1>2, LargestIs
<1>5. Fewest # {} /\ Fewest \subseteq Nat /\ Most # {} /\ Most \subseteq Nat
  BY <1>3, <1>4
<1>6. Least(Fewest) \in Fewest /\ Least(Most) \in Most
  <2> HIDE DEF Fewest, Most
  <2> QED BY <1>5, LeastIs
<1>7. MinRack(A, rack) \in Fewest /\ MaxRack(A, rack) \in Most
  BY <1>6 DEF MinRack, MaxRack
<1> QED BY <1>7

\* What partition p counts for among the leaders of rack r.
Counts(A, rack, p, r) == IF rack[A[p][1]] = r THEN 1 ELSE 0

\* When one partition gets another leader, its racks gain and lose one.
LEMMA LeadsChange ==
    ASSUME NEW A, NEW B, Len(A) \in Nat, Len(B) = Len(A), NEW rack, NEW p \in 1..Len(A),
           \A q \in 1..Len(A) : q # p => B[q][1] = A[q][1], NEW r
    PROVE  Leads(B, rack, r) = Leads(A, rack, r) + Counts(B, rack, p, r) - Counts(A, rack, p, r)
<1> DEFINE F(C) == {q \in 1..Len(A) : rack[C[q][1]] = r}
           Rest == {q \in 1..Len(A) : q # p /\ rack[A[q][1]] = r}
<1>1. IsFiniteSet(Rest) /\ Cardinality(Rest) \in 0..Len(A)
  BY SomeOf
<1>2. Cardinality(Rest \cup {p}) = Cardinality(Rest) + 1
  <2>1. p \notin Rest
    OBVIOUS
  <2> HIDE DEF Rest
  <2> QED BY <1>1, <2>1, FS_AddElement
<1>3. F(A) = IF rack[A[p][1]] = r THEN Rest \cup {p} ELSE Rest
  OBVIOUS
<1>4. F(B) = IF rack[B[p][1]] = r THEN Rest \cup {p} ELSE Rest
  OBVIOUS
<1>5. Leads(A, rack, r) = Cardinality(F(A)) /\ Leads(B, rack, r) = Cardinality(F(B))
  BY DEF Leads
<1> HIDE DEF F, Rest
<1> QED BY <1>1, <1>2, <1>3, <1>4, <1>5 DEF Counts

\* When there is a feasible broker, one is picked.
LEMMA PickIs ==
    ASSUME NEW A, Len(A) \in Nat, NEW p, NEW r, NEW choices
    PROVE  /\ PickNew(A, p, r, choices) \subseteq Feasible(A, p, choices)
           /\ Feasible(A, p, choices) # {} => PickNew(A, p, r, choices) # {}
<1> DEFINE F == [b \in Feasible(A, p, choices) |-> CountAt(A, r, b)]
<1>1. \A b : CountAt(A, r, b) \in Nat
  <2> SUFFICES ASSUME NEW b PROVE CountAt(A, r, b) \in 0..Len(A)
    OBVIOUS
  <2> QED BY SomeOf DEF CountAt
<1>2. F \in [Feasible(A, p, choices) -> Nat]
  BY <1>1
<1>3. ASSUME Feasible(A, p, choices) # {}
      PROVE  \E b \in Feasible(A, p, choices) : \A c \in Feasible(A, p, choices) :
                F[b] <= F[c]
  <2> HIDE DEF F
  <2> QED BY <1>2, <1>3, SmallestIs
<1> QED BY <1>3 DEF PickNew

\* Of some partitions one comes first.
LEMMA ForemostIs ==
    ASSUME NEW A, Len(A) \in Nat, NEW r, NEW parts
    PROVE  /\ Foremost(A, r, parts) \subseteq parts
           /\ parts # {} => Foremost(A, r, parts) # {}
<1> DEFINE F == [p \in parts |-> CountAt(A, r, A[p][r])]
<1>1. \A b : CountAt(A, r, b) \in 0..Len(A)
  BY SomeOf DEF CountAt
<1>2. F \in [parts -> 0..Len(A)]
  BY <1>1
<1>3. ASSUME parts # {} PROVE \E p \in parts : \A q \in parts : F[p] >= F[q]
  <2> HIDE DEF F
  <2> QED BY <1>2, <1>3, LargestIs
<1>4. ASSUME parts # {} PROVE Foremost(A, r, parts) # {}
  <2>1. PICK p \in parts : \A q \in parts : F[p] >= F[q]
    BY <1>3, <1>4
  <2>2. \A q \in parts : CountAt(A, r, A[q][r]) <= CountAt(A, r, A[p][r])
    BY <2>1, <1>2
  <2> QED BY <2>2 DEF Foremost
<1> QED BY <1>4 DEF Foremost

(***************************************************************************)
(* Division.                                                               *)
(***************************************************************************)
\* Quotient and rest.
LEMMA DivMod ==
    ASSUME NEW n \in Nat, NEW k \in Nat \ {0}
    PROVE  n \div k \in Nat /\ n % k \in 0..(k - 1) /\ n = (n \div k) * k + (n % k)
OBVIOUS

\* They are the only ones.
LEMMA DivModOnly ==
    ASSUME NEW n \in Nat, NEW k \in Nat \ {0}, NEW q \in Nat, NEW r \in 0..(k - 1),
           n = q * k + r
    PROVE  n \div k = q /\ n % k = r
OBVIOUS

\* Counting on by one.
LEMMA DivNext ==
    ASSUME NEW n \in Nat, NEW k \in Nat \ {0}
    PROVE  /\ (n + 1) \div k = IF n % k = k - 1 THEN (n \div k) + 1 ELSE n \div k
           /\ (n + 1) % k = IF n % k = k - 1 THEN 0 ELSE (n % k) + 1
<1>1. (n + 1) \div k = IF n % k = k - 1 THEN (n \div k) + 1 ELSE n \div k
  OBVIOUS
<1>2. /\ n % k \in 0..(k - 1) /\ n = (n \div k) * k + (n % k) /\ n \div k \in Nat
      /\ (n + 1) % k \in 0..(k - 1) /\ n + 1 = ((n + 1) \div k) * k + ((n + 1) % k)
  <2>1. n % k \in 0..(k - 1) /\ n = (n \div k) * k + (n % k) /\ n \div k \in Nat
    BY DivMod
  <2>2. n + 1 \in Nat
    OBVIOUS
  <2>3. (n + 1) % k \in 0..(k - 1) /\ n + 1 = ((n + 1) \div k) * k + ((n + 1) % k)
    BY <2>2, DivMod
  <2> QED BY <2>1, <2>3
<1>3. CASE n % k = k - 1
  <2>1. n + 1 = ((n \div k) + 1) * k + ((n + 1) % k)
    BY <1>1, <1>2, <1>3
  <2>2. ((n \div k) + 1) * k = (n \div k) * k + k
    BY <1>2
  <2>3. (n \div k) * k \in Nat /\ n % k \in Nat /\ (n + 1) % k \in Nat
    BY <1>2
  <2>4. (n + 1) % k = 0
    BY <1>2, <1>3, <2>1, <2>2, <2>3
  <2> QED BY <1>1, <1>3, <2>4
<1>4. CASE n % k # k - 1
  <2>1. n + 1 = (n \div k) * k + ((n + 1) % k)
    BY <1>1, <1>2, <1>4
  <2>2. (n \div k) * k \in Nat /\ n % k \in Nat /\ (n + 1) % k \in Nat
    BY <1>2
  <2>3. (n + 1) % k = (n % k) + 1
    BY <1>2, <2>1, <2>2
  <2> QED BY <1>1, <1>4, <2>3
<1> QED BY <1>3, <1>4

\* Without a rest, the quotients add up to the whole.
LEMMA DivExact ==
    ASSUME NEW n \in Nat, NEW k \in Nat \ {0}, n % k = 0
    PROVE  n \div k \in Nat /\ n = (n \div k) * k
OBVIOUS

\* More gives no smaller quotient.
LEMMA DivGrows ==
    ASSUME NEW n \in Nat, NEW m \in Nat, NEW k \in Nat \ {0}, m <= n
    PROVE  m \div k <= n \div k
OBVIOUS

\* Dividing and rounding up.
LEMMA DivRoundedUp ==
    ASSUME NEW n \in Nat \ {0}, NEW k \in Nat \ {0}
    PROVE  ((n - 1) \div k) + 1 = (n + k - 1) \div k
OBVIOUS

\* Numbers with the same rest, counted from anywhere, differ in the quotient.
LEMMA SameRest ==
    ASSUME NEW m \in Nat, NEW n \in Nat, NEW e \in Nat, NEW k \in Nat \ {0},
           (e + m) % k = (e + n) % k, m \div k = n \div k
    PROVE  m = n
<1> DEFINE a == (e + m) \div k
           b == (e + n) \div k
           c == m \div k
<1>1. /\ a \in Nat /\ e + m = a * k + ((e + m) % k) /\ (e + m) % k \in 0..(k - 1)
      /\ b \in Nat /\ e + n = b * k + ((e + n) % k) /\ (e + n) % k \in 0..(k - 1)
      /\ c \in Nat /\ m = c * k + (m % k) /\ m % k \in 0..(k - 1)
      /\ n = c * k + (n % k) /\ n % k \in 0..(k - 1)
  <2>1. e + m \in Nat /\ e + n \in Nat
    OBVIOUS
  <2>2. a \in Nat /\ e + m = a * k + ((e + m) % k) /\ (e + m) % k \in 0..(k - 1)
    BY <2>1, DivMod
  <2>3. b \in Nat /\ e + n = b * k + ((e + n) % k) /\ (e + n) % k \in 0..(k - 1)
    BY <2>1, DivMod
  <2>4. c \in Nat /\ m = c * k + (m % k) /\ m % k \in 0..(k - 1)
    BY DivMod
  <2>5. n = (n \div k) * k + (n % k) /\ n % k \in 0..(k - 1)
    BY DivMod
  <2> QED BY <2>2, <2>3, <2>4, <2>5
<1> HIDE DEF a, b, c
<1>2. a * k \in Nat /\ b * k \in Nat /\ c * k \in Nat
  BY <1>1
<1>3. m - n = a * k - b * k /\ m - n < k /\ n - m < k
  BY <1>1, <1>2
<1>4. CASE a = b
  BY <1>3, <1>4, <1>2
<1>5. CASE a >= b + 1
  <2>1. a * k >= b * k + k
    BY <1>1, <1>5
  <2> QED BY <1>2, <1>3, <2>1
<1>6. CASE b >= a + 1
  <2>1. b * k >= a * k + k
    BY <1>1, <1>6
  <2> QED BY <1>2, <1>3, <2>1
<1> QED BY <1>1, <1>4, <1>5, <1>6

-----------------------------------------------------------------------------
(***************************************************************************)
(* The inductive invariant: what holds of a call and of the placement it   *)
(* is building, for each kind of call.                                     *)
(***************************************************************************)
K == Cardinality(RacksOf(job.rack))       \* the number of racks
BrokerCount == Cardinality(Brokers)
Given == 1..Len(job.curr)                 \* the partitions of the topic
Begun == outcome \notin {"new", "refused", "unsupported"}
InRackOf(p, r) == job.rack[desired[p][r]]

\* what holds of every placement that is being built
Grid ==
    /\ desired # << >>
    /\ \A p \in 1..Len(desired) : Len(desired[p]) = Width(desired)
    /\ \A p \in 1..Len(desired) : \A i, j \in 1..Len(desired[p]) :
          desired[p][i] = desired[p][j] /\ desired[p][i] # Hole => i = j
    /\ Strategy # "static" \/ job.op = "rebalance" => Width(desired) = N

Grown ==
    /\ job.op # "extend" => Len(desired) = Len(job.curr)
    /\ job.op = "extend" =>
          /\ Len(job.curr) <= Len(desired) /\ Len(desired) <= Len(job.curr) + job.extra
          /\ Strategy # "static" => \A p \in Given : desired[p] = job.curr[p]

Untouched ==
    /\ outcome = "new" => desired = job.curr /\ index = 1 /\ loops = 0
    /\ job.op = "place" /\ Begun => outcome = "done" /\ desired = job.curr
    /\ outcome = "run" => loops <= MaxLoops
    /\ ~Balancing => loops = 0
    /\ job.op # "rebalance" => index = 1

\* an assigner nulled out what is in the wrong rack, and puts in what is right
Assigned ==
    job.op = "assign" /\ Begun =>
        /\ ~Refused
        /\ Strategy = "static" => desired = job.goal.static
        /\ Strategy = "any" => HolesOf(desired) = {}
        /\ Strategy = "in-rack" =>
              \A p \in 1..Len(desired) :
                 /\ desired[p][1] # Hole
                 /\ \A r \in 1..N : desired[p][r] = Hole \/ InRackOf(p, r) = InRackOf(p, 1)
        /\ Strategy = "static-in-rack" =>
              \A p \in 1..Len(desired), r \in 1..N :
                 desired[p][r] = Hole \/ InRackOf(p, r) = job.goal.racks[p]
        /\ Strategy = "cross-rack" =>
              \A p \in 1..Len(desired), i, j \in 1..N :
                 \/ Hole \in {desired[p][i], desired[p][j]}
                 \/ InRackOf(p, i) = InRackOf(p, j) => i = j

\* the number of new partitions whose leader's turn falls to rack r
Turns(r) ==
    Cardinality({p \in 1..Len(desired) \ Given :
                    RackAt(job.rack, p - Len(job.curr) - 1) = r})
Rounds == Len(desired) - Len(job.curr)

Extending ==
    job.op = "extend" /\ Begun =>
        /\ Strategy \notin {"cross-rack", "static-in-rack"}
        /\ Strategy = "in-rack" => ~Refused
        /\ Strategy = "static" => desired = job.goal.static
        /\ Strategy # "static" =>
              /\ \A p \in 1..Len(desired) \ Given, r \in 1..N :
                    desired[p][r] = Hole \/ InRackOf(p, r) = TargetRack(p, r)
              /\ \A r \in 1..K :
                    Turns(r) = (Rounds \div K) + (IF r <= Rounds % K THEN 1 ELSE 0)

\* the share of the leaders that each rack is to have
Share == Len(job.curr) \div K
Led(r) == Leads(job.curr, job.rack, r)
LedNow(r) == Leads(desired, job.rack, r)
Touched == {p \in Given : desired[p] # job.curr[p]}

Moved(p) ==
    /\ Led(job.rack[job.curr[p][1]]) > Share /\ Led(InRackOf(p, 1)) < Share
    /\ \/ Members(desired[p]) = Members(job.curr[p])
       \/ \A r \in 2..N : job.rack[job.curr[p][r]] # InRackOf(p, 1)

Draining ==
    Balancing /\ Begun =>
        /\ Len(job.curr) = Share * K
        /\ \A r \in 1..K : \/ Share <= LedNow(r) /\ LedNow(r) <= Led(r)
                           \/ Led(r) <= LedNow(r) /\ LedNow(r) <= Share
        /\ \A p \in Touched : Moved(p)
        /\ loops <= Cardinality(Touched)

Rebalanced ==
    job.op = "rebalance" /\ Begun =>
        /\ Strategy # "static" => EvaluateAssignments(desired, job.rack, job.goal)
        /\ Strategy = "any" /\ N <= Cardinality(Brokers) \div 2 =>
              \A p \in 1..Len(desired), i \in 1..(index - 1) : ~Removed(desired[p][i])

\* what Return looks at
Returned ==
    outcome = "done" =>
        /\ HolesOf(desired) = {}
        /\ job.op = "extend" => Missing <= 0
        /\ Balancing => Balanced(desired, job.rack)
        /\ job.op = "rebalance" => Remaining = {}

IInv ==
    /\ TypeOK /\ Grid /\ Grown /\ Untouched
    /\ Assigned /\ Extending /\ Draining /\ Rebalanced /\ Returned
    /\ FailsOnlyForWant

-----------------------------------------------------------------------------
(***************************************************************************)
(* What follows for the call, the placement and its placeholders.          *)
(***************************************************************************)
\* The call: its brokers, its racks 1..K, and the topic it starts from.
LEMMA JobFacts ==
    ASSUME JobOK(job)
    PROVE  /\ Brokers \subseteq Nat \ {0} /\ IsFiniteSet(Brokers) /\ Hole \notin Brokers
           /\ Len(job.curr) \in Nat \ {0} /\ N \in Nat \ {0} /\ Given = 1..Len(job.curr)
           /\ \A p \in Given : Len(job.curr[p]) = N /\ job.curr[p] \in Seq(Brokers)
           /\ \A p \in Given : \A r \in 1..N : job.curr[p][r] \in Brokers
           /\ \A p \in Given : \A i, j \in 1..N : job.curr[p][i] = job.curr[p][j] => i = j
           /\ job.extra \in Nat /\ (job.op # "extend" => job.extra = 0)
           /\ K \in Nat \ {0} /\ RacksOf(job.rack) = 1..K
           /\ job.rack \in [Brokers -> 1..K]
<1>1. Brokers \subseteq Nat \ {0} /\ IsFiniteSet(Brokers) /\ Hole \notin Brokers
  BY BrokersAssumption DEF Hole
<1>2. job.curr \in Seq(Seq(Brokers)) /\ CheckAssignments(job.curr)
  BY DEF JobOK
<1>3. Len(job.curr) \in Nat \ {0}
  BY <1>2, EmptySeq, LenProperties DEF CheckAssignments
<1>4. \A p \in Given : job.curr[p] \in Seq(Brokers)
  BY <1>2, ElementOfSeq DEF Given
<1>5. \A p \in Given : Len(job.curr[p]) = N /\ Len(job.curr[p]) > 0
  BY <1>2 DEF CheckAssignments, JobOK, Given, N
<1>6. N \in Nat \ {0}
  <2>1. 1 \in Given
    BY <1>3 DEF Given
  <2> QED BY <2>1, <1>4, <1>5, LenProperties
<1>7. \A p \in Given : \A r \in 1..N : job.curr[p][r] \in Brokers
  BY <1>4, <1>5, ElementOfSeq
<1>8. \A p \in Given : \A i, j \in 1..N : job.curr[p][i] = job.curr[p][j] => i = j
  BY <1>2, <1>5 DEF CheckAssignments, NoRepeats, Given
<1>9. job.extra \in Nat /\ (job.op # "extend" => job.extra = 0)
  BY DEF JobOK
<1>10. job.rack \in [Brokers -> Nat \ {0}] /\ RacksOf(job.rack) = 1..K
  BY DEF JobOK, K
<1>11. RacksOf(job.rack) # {} /\ job.rack \in [Brokers -> RacksOf(job.rack)]
  <2>1. job.curr[1][1] \in Brokers
    BY <1>3, <1>6, <1>7 DEF Given
  <2> QED BY <2>1, <1>10 DEF RacksOf
<1>12. IsFiniteSet(RacksOf(job.rack)) /\ K \in Nat
  <2>1. RacksOf(job.rack) = {job.rack[b] : b \in Brokers}
    BY DEF RacksOf
  <2>2. job.rack = [b \in Brokers |-> job.rack[b]]
    BY <1>10
  <2>3. IsFiniteSet(RacksOf(job.rack))
    BY <1>1, <2>1, <2>2, ImageIs
  <2> QED BY <2>3, FS_CardinalityType DEF K
<1>13. K # 0
  BY <1>10, <1>11, <1>12
<1> QED BY <1>1, <1>3, <1>4, <1>5, <1>6, <1>7, <1>8, <1>9, <1>10, <1>11, <1>12, <1>13
           DEF Given

\* The placement under construction: W replicas for each partition.
LEMMA DesiredFacts ==
    ASSUME TypeOK, Grid
    PROVE  /\ desired \in Seq(Seq(Brokers \cup {Hole}))
           /\ Len(desired) \in Nat \ {0} /\ Width(desired) \in Nat
           /\ \A p \in 1..Len(desired) :
                 /\ desired[p] \in Seq(Brokers \cup {Hole})
                 /\ Len(desired[p]) = Width(desired)
                 /\ DOMAIN desired[p] = 1..Width(desired)
           /\ \A p \in 1..Len(desired) : \A r \in 1..Width(desired) :
                 desired[p][r] \in Brokers \cup {Hole}
           /\ \A p \in 1..Len(desired) : \A i, j \in 1..Width(desired) :
                 desired[p][i] = desired[p][j] /\ desired[p][i] # Hole => i = j
<1>1. desired \in Seq(Seq(Brokers \cup {Hole})) /\ desired # << >>
  BY DEF TypeOK, Grid
<1>2. Len(desired) \in Nat \ {0}
  BY <1>1, EmptySeq, LenProperties
<1>3. \A p \in 1..Len(desired) : desired[p] \in Seq(Brokers \cup {Hole})
  BY <1>1, ElementOfSeq
<1>4. \A p \in 1..Len(desired) : Len(desired[p]) = Width(desired)
  BY DEF Grid
<1>5. Width(desired) \in Nat
  <2>1. 1 \in 1..Len(desired)
    BY <1>2
  <2> QED BY <2>1, <1>3, <1>4, LenProperties
<1>6. \A p \in 1..Len(desired) : DOMAIN desired[p] = 1..Width(desired)
  BY <1>3, <1>4, LenProperties
<1>7. \A p \in 1..Len(desired) : \A r \in 1..Width(desired) :
         desired[p][r] \in Brokers \cup {Hole}
  BY <1>3, <1>4, ElementOfSeq
<1>8. \A p \in 1..Len(desired) : \A i, j \in 1..Width(desired) :
         desired[p][i] = desired[p][j] /\ desired[p][i] # Hole => i = j
  BY <1>4 DEF Grid
<1> QED BY <1>1, <1>2, <1>3, <1>4, <1>5, <1>6, <1>7, <1>8

\* No placeholder is left when each replica is a broker.
LEMMA NoHoles ==
    ASSUME TypeOK, Grid
    PROVE  HolesOf(desired) = {} <=>
              \A p \in 1..Len(desired) : \A r \in 1..Width(desired) : desired[p][r] \in Brokers
<1>1. Hole \notin Brokers
  BY JobFacts DEF TypeOK
<1> QED BY <1>1, DesiredFacts, HolesAre

\* The first placeholder is one of the placeholders.
LEMMA FirstHoleIs ==
    ASSUME TypeOK, Grid, HolesOf(desired) # {}
    PROVE  \E p \in 1..Len(desired) : \E r \in 1..Width(desired) :
              FirstHole = <<p, r>> /\ desired[p][r] = Hole
<1> DEFINE W == Width(desired)
           P == {p \in 1..Len(desired) : \E r \in 1..W : desired[p][r] = Hole}
           R(p) == {r \in 1..W : desired[p][r] = Hole}
<1>1. \A h : h \in HolesOf(desired) <=>
         \E p \in 1..Len(desired) : \E r \in 1..W : h = <<p, r>> /\ desired[p][r] = Hole
  BY DesiredFacts, HolesAre
<1>2. P # {} /\ P \subseteq Nat
  <2>1. Len(desired) \in Nat
    BY DesiredFacts
  <2>2. \E p \in 1..Len(desired) : \E r \in 1..W : desired[p][r] = Hole
    BY <1>1
  <2> QED BY <2>1, <2>2
<1>3. Least(P) \in P /\ \A p \in P : Least(P) <= p
  <2> HIDE DEF P
  <2> QED BY <1>2, LeastIs
<1> DEFINE m == Least(P)
<1> HIDE DEF m
<1>4. m \in P /\ \A p \in P : m <= p
  BY <1>3 DEF m
<1>5. R(m) # {} /\ R(m) \subseteq Nat
  BY <1>4, DesiredFacts
<1>6. Least(R(m)) \in R(m) /\ \A r \in R(m) : Least(R(m)) <= r
  <2> HIDE DEF R
  <2> QED BY <1>5, LeastIs
<1> DEFINE s == Least(R(m))
<1> HIDE DEF s
<1>7. s \in R(m) /\ \A r \in R(m) : s <= r
  BY <1>6 DEF s
<1>8. <<m, s>> \in HolesOf(desired)
  BY <1>1, <1>4, <1>7
<1>9. ASSUME NEW g \in HolesOf(desired)
      PROVE  m < g[1] \/ (m = g[1] /\ s <= g[2])
  <2>1. PICK p \in 1..Len(desired) : \E r \in 1..W : g = <<p, r>> /\ desired[p][r] = Hole
    BY <1>1
  <2>2. PICK r \in 1..W : g = <<p, r>> /\ desired[p][r] = Hole
    BY <2>1
  <2>3. p \in P /\ m \in Nat /\ p \in Nat
    BY <2>2, <1>2, <1>4
  <2>4. m <= p
    BY <2>3, <1>4
  <2>5. CASE m = p
    BY <2>2, <2>5, <1>7
  <2>6. CASE m # p
    BY <2>2, <2>3, <2>4, <2>6
  <2> QED BY <2>5, <2>6
<1>10. FirstHole \in HolesOf(desired)
  <2>1. \E h \in HolesOf(desired) :
           \A g \in HolesOf(desired) : h[1] < g[1] \/ (h[1] = g[1] /\ h[2] <= g[2])
    <3>1. <<m, s>>[1] = m /\ <<m, s>>[2] = s
      OBVIOUS
    <3> QED BY <3>1, <1>8, <1>9
  <2> QED BY <2>1 DEF FirstHole
<1> QED BY <1>1, <1>10

-----------------------------------------------------------------------------
(***************************************************************************)
(* The calls begin.                                                        *)
(***************************************************************************)
\* The topic a call starts from has no placeholders.
LEMMA CurrentWhole ==
    ASSUME JobOK(job)
    PROVE  /\ HolesOf(job.curr) = {} /\ job.curr # << >>
           /\ job.curr \in Seq(Seq(Brokers)) /\ job.curr \in Seq(Seq(Brokers \cup {Hole}))
<1>1. job.curr \in Seq(Seq(Brokers)) /\ job.curr # << >>
  BY DEF JobOK, CheckAssignments
<1>2. \A p \in 1..Len(job.curr) : \A r \in 1..Len(job.curr[p]) : job.curr[p][r] # Hole
  BY JobFacts
<1>3. HolesOf(job.curr) = {}
  BY <1>2, HolesAre
<1>4. \A p \in 1..Len(job.curr) : job.curr[p] \in Seq(Brokers \cup {Hole})
  <2> SUFFICES ASSUME NEW p \in 1..Len(job.curr) PROVE job.curr[p] \in Seq(Brokers \cup {Hole})
    OBVIOUS
  <2>1. job.curr[p] \in Seq(Brokers)
    BY <1>1, ElementOfSeq
  <2> QED BY <2>1, SeqDef
<1>5. job.curr \in Seq(Seq(Brokers \cup {Hole}))
  BY <1>1, <1>4, LenProperties, IsASeq
<1> QED BY <1>1, <1>3, <1>5

\* The calls begin with a whole placement.
LEMMA Initially == Init => IInv
<1> SUFFICES ASSUME Init PROVE IInv
  OBVIOUS
<1> USE DEF Init
<1>1. JobOK(job)
  BY JobsAssumption
<1>2. N \in Nat \ {0} /\ Len(job.curr) \in Nat \ {0} /\ job.extra \in Nat
  BY <1>1, JobFacts
<1>3. TypeOK
  BY <1>1, <1>2, CurrentWhole, LoopsAssumption DEF TypeOK
<1>4. Grid
  BY <1>1, JobFacts, CurrentWhole DEF Grid, N, Given
<1>5. Grown
  BY <1>2 DEF Grown
<1> QED BY <1>3, <1>4, <1>5 DEF IInv, Untouched, Assigned, Extending, Draining, Rebalanced,
          Returned, Begun, FailsOnlyForWant

\* updatePlacement returns what is satisfied already, or calls the assigner.
LEMMA PlaceKeeps ==
    ASSUME IInv, Place
    PROVE  IInv'
<1> USE DEF Place, Finish
<1>1. JobOK(job) /\ desired = job.curr /\ index = 1 /\ loops = 0
  BY DEF IInv, TypeOK, Untouched
<1>2. /\ desired' = desired /\ index' = index /\ loops' = loops
      /\ \/ job' = job /\ outcome' \in {"done", "unsupported"}
         \/ job' = [job EXCEPT !.op = "assign"] /\ outcome' = "new"
  OBVIOUS
<1>3. /\ JobOK(job') /\ job'.curr = job.curr /\ job'.goal = job.goal
      /\ job'.extra = 0 /\ job'.op \in {"place", "assign"}
      /\ outcome' # "new" => job'.op = "place"
  <2>1. CASE job' = job
    BY <1>1, <1>2, <2>1 DEF JobOK
  <2>2. CASE job' = [job EXCEPT !.op = "assign"]
    BY <1>1, <1>2, <2>2 DEF JobOK, Ops
  <2> QED BY <1>2, <2>1, <2>2
<1>4. HolesOf(desired) = {}
  BY <1>1, CurrentWhole
<1>5. TypeOK'
  BY <1>2, <1>3, <1>4 DEF IInv, TypeOK, N, Ended, Failures
<1>6. Grid' /\ Grown' /\ Untouched'
  BY <1>1, <1>2, <1>3 DEF IInv, Grid, Grown, Untouched, N, Strategy, Begun, Balancing
<1>7. Assigned' /\ Extending' /\ Draining' /\ Rebalanced'
  BY <1>2, <1>3 DEF Assigned, Extending, Draining, Rebalanced, Begun, Balancing
<1>8. Returned' /\ FailsOnlyForWant'
  BY <1>2, <1>3, <1>4 DEF Returned, FailsOnlyForWant, Balancing
<1> QED BY <1>5, <1>6, <1>7, <1>8 DEF IInv

\* A call that is refused, or has no code for the strategy, changes nothing.
LEMMA RefusalKeeps ==
    ASSUME IInv, outcome = "new", Finish("refused") \/ Finish("unsupported")
    PROVE  IInv'
<1> USE DEF Finish
<1>1. outcome' \in {"refused", "unsupported"} /\ UNCHANGED <<job, desired, index, loops>>
  OBVIOUS
<1>2. TypeOK' /\ Grid' /\ Grown' /\ Untouched'
  BY <1>1 DEF IInv, TypeOK, Grid, Grown, Untouched, Begun, Balancing, N, Strategy, Given,
              Ended, Failures
<1>3. Assigned' /\ Extending' /\ Draining' /\ Rebalanced' /\ Returned' /\ FailsOnlyForWant'
  BY <1>1 DEF Assigned, Extending, Draining, Rebalanced, Begun, Returned, FailsOnlyForWant
<1> QED BY <1>2, <1>3 DEF IInv

\* A rebalance begins with a placement that satisfies its strategy.
LEMMA RebalanceKeeps ==
    ASSUME IInv, Rebalance
    PROVE  IInv'
<1>1. CASE Finish("refused")
  BY <1>1, RefusalKeeps DEF Rebalance
<1>2. CASE Finish("run") /\ (Strategy = "static" \/ EvaluateAssignments(job.curr, job.rack, job.goal))
  <2>1. /\ outcome = "new" /\ job.op = "rebalance" /\ outcome' = "run"
        /\ UNCHANGED <<job, desired, index, loops>>
        /\ desired = job.curr /\ index = 1 /\ loops = 0
    BY <1>2 DEF Rebalance, Finish, IInv, Untouched
  <2>2. TypeOK' /\ Grid' /\ Grown' /\ Untouched'
    BY <2>1, LoopsAssumption DEF IInv, TypeOK, Grid, Grown, Untouched, Begun, Balancing, N,
                Strategy, Given
  <2>3. Rebalanced'
    <3>1. 1..(index' - 1) = {}
      BY <2>1
    <3> QED BY <1>2, <2>1, <3>1 DEF Rebalanced, Strategy
  <2>4. Assigned' /\ Extending' /\ Draining' /\ Returned' /\ FailsOnlyForWant'
    BY <2>1 DEF Assigned, Extending, Draining, Balancing, Returned, FailsOnlyForWant
  <2> QED BY <2>2, <2>3, <2>4 DEF IInv
<1> QED BY <1>1, <1>2 DEF Rebalance

\* The static placement asked for: whole, of a partition for each.
LEMMA StaticIs ==
    ASSUME JobOK(job), Strategy = "static"
    PROVE  /\ job.goal.static \in Seq(Seq(Brokers)) /\ CheckAssignments(job.goal.static)
           /\ job.goal.static \in Seq(Seq(Brokers \cup {Hole}))
           /\ Len(job.goal.static) = Len(job.curr) + job.extra
           /\ HolesOf(job.goal.static) = {}
<1> DEFINE A == job.goal.static
<1>1. A \in Seq(Seq(Brokers)) /\ CheckAssignments(A) /\ Len(A) = Len(job.curr) + job.extra
  BY DEF JobOK, Strategy
<1>2. Hole \notin Brokers
  BY JobFacts
<1>3. \A p \in 1..Len(A) : A[p] \in Seq(Brokers)
  BY <1>1, ElementOfSeq
<1>4. \A p \in 1..Len(A) : \A r \in 1..Len(A[p]) : A[p][r] # Hole
  <2> SUFFICES ASSUME NEW p \in 1..Len(A), NEW r \in 1..Len(A[p]) PROVE A[p][r] \in Brokers
    BY <1>2
  <2> QED BY <1>3, ElementOfSeq
<1>5. HolesOf(A) = {}
  BY <1>4, HolesAre
<1>6. \A p \in 1..Len(A) : A[p] \in Seq(Brokers \cup {Hole})
  <2> SUFFICES ASSUME NEW p \in 1..Len(A) PROVE A[p] \in Seq(Brokers \cup {Hole})
    OBVIOUS
  <2> QED BY <1>3, SeqDef
<1>7. A \in Seq(Seq(Brokers \cup {Hole}))
  BY <1>1, <1>6, LenProperties, IsASeq
<1> QED BY <1>1, <1>5, <1>7

\* What the assigners begin with: the topic, with placeholders for the
\* replicas in a wrong rack.
LEMMA NulledOutIs ==
    ASSUME JobOK(job)
    PROVE  /\ NulledOut \in Seq(Seq(Brokers \cup {Hole})) /\ NulledOut # << >>
           /\ Len(NulledOut) = Len(job.curr)
           /\ \A p \in Given : Len(NulledOut[p]) = N
           /\ \A p \in Given : \A r \in 1..N :
                 NulledOut[p][r] = IF Misplaced(p, r) THEN Hole ELSE job.curr[p][r]
           /\ Strategy \in {"any", "balanced-leaders"} => NulledOut = job.curr
<1> DEFINE row(p) == [r \in 1..Len(job.curr[p]) |->
                         IF Misplaced(p, r) THEN Hole ELSE job.curr[p][r]]
<1>1. /\ Len(job.curr) \in Nat \ {0} /\ N \in Nat
      /\ \A p \in Given : Len(job.curr[p]) = N
      /\ \A p \in Given : \A r \in 1..N : job.curr[p][r] \in Brokers
  BY JobFacts
<1>2. ASSUME NEW p \in Given PROVE row(p) \in Seq(Brokers \cup {Hole}) /\ Len(row(p)) = N
  <2>1. row(p) = [r \in 1..N |-> IF Misplaced(p, r) THEN Hole ELSE job.curr[p][r]]
    BY <1>1
  <2>2. \A r \in 1..N : (IF Misplaced(p, r) THEN Hole ELSE job.curr[p][r]) \in Brokers \cup {Hole}
    BY <1>1
  <2> HIDE DEF row
  <2> QED BY <1>1, <2>1, <2>2, IsASeq
<1>3. NulledOut = [p \in 1..Len(job.curr) |-> row(p)]
  BY DEF NulledOut
<1>4. NulledOut \in Seq(Seq(Brokers \cup {Hole})) /\ Len(NulledOut) = Len(job.curr)
  <2> HIDE DEF row
  <2> QED BY <1>1, <1>2, <1>3, IsASeq DEF Given
<1>5. NulledOut # << >>
  BY <1>1, <1>4, EmptySeq
<1>6. \A p \in Given : NulledOut[p] = row(p)
  BY <1>3 DEF Given
<1>7. \A p \in Given : \A r \in 1..N :
         NulledOut[p][r] = IF Misplaced(p, r) THEN Hole ELSE job.curr[p][r]
  BY <1>1, <1>6
<1>8. ASSUME Strategy \in {"any", "balanced-leaders"} PROVE NulledOut = job.curr
  <2>1. \A p, r : Misplaced(p, r) = FALSE
    BY <1>8 DEF Misplaced
  <2>2. \A p \in Given : row(p) = job.curr[p]
    <3> SUFFICES ASSUME NEW p \in Given PROVE row(p) = job.curr[p]
      OBVIOUS
    <3>1. job.curr[p] \in Seq(Brokers)
      BY JobFacts
    <3>2. job.curr[p] = [r \in 1..Len(job.curr[p]) |-> job.curr[p][r]]
      BY <3>1, LenProperties
    <3> QED BY <2>1, <3>2
  <2>3. job.curr = [p \in 1..Len(job.curr) |-> job.curr[p]]
    BY CurrentWhole, LenProperties
  <2> HIDE DEF row
  <2> QED BY <1>3, <2>2, <2>3 DEF Given
<1> HIDE DEF row
<1> QED BY <1>2, <1>4, <1>5, <1>6, <1>7, <1>8

\* An assigner begins: it takes out what is in the wrong rack, so that what is
\* left of each partition fits the strategy.
LEMMA AssignKeeps ==
    ASSUME IInv, Assign
    PROVE  IInv'
<1>1. CASE Finish("refused")
  BY <1>1, RefusalKeeps DEF Assign
<1>2. CASE ~Refused
  <2>1. /\ outcome = "new" /\ job.op = "assign" /\ outcome' = "run"
        /\ desired' = IF Strategy = "static" THEN job.goal.static ELSE NulledOut
        /\ UNCHANGED <<job, index, loops>>
    BY <1>2 DEF Assign
  <2>2. JobOK(job) /\ index = 1 /\ loops = 0 /\ desired = job.curr
    BY <2>1 DEF IInv, TypeOK, Untouched
  <2>3. /\ Len(job.curr) \in Nat \ {0} /\ N \in Nat \ {0} /\ job.extra = 0
        /\ Given = 1..Len(job.curr) /\ Hole \notin Brokers /\ K \in Nat \ {0}
        /\ \A p \in Given : \A r \in 1..N : job.curr[p][r] \in Brokers
        /\ \A p \in Given : \A i, j \in 1..N : job.curr[p][i] = job.curr[p][j] => i = j
        /\ RacksOf(job.rack) = 1..K
    BY <2>1, <2>2, JobFacts
  <2>4. CASE Strategy = "static"
    <3>1. /\ desired' = job.goal.static /\ CheckAssignments(job.goal.static)
          /\ job.goal.static \in Seq(Seq(Brokers \cup {Hole}))
          /\ Len(job.goal.static) = Len(job.curr) /\ HolesOf(job.goal.static) = {}
      BY <2>1, <2>2, <2>3, <2>4, StaticIs
    <3>2. TypeOK' /\ Grown' /\ Untouched'
      BY <2>1, <2>2, <2>3, <2>4, <3>1, LoopsAssumption
         DEF IInv, TypeOK, Grown, Untouched, N, Strategy, Balancing
    <3>3. Grid'
      BY <2>1, <2>4, <3>1 DEF Grid, CheckAssignments, NoRepeats, Strategy
    <3>4. Assigned'
      BY <1>2, <2>1, <2>4, <3>1 DEF Assigned, Strategy, Refused, TooSmall, N
    <3>5. Extending' /\ Draining' /\ Rebalanced' /\ Returned' /\ FailsOnlyForWant'
      BY <2>1, <2>4 DEF Extending, Draining, Balancing, Rebalanced, Returned,
                        FailsOnlyForWant, Strategy
    <3> QED BY <3>2, <3>3, <3>4, <3>5 DEF IInv
  <2>5. CASE Strategy # "static"
    <3>1. /\ desired' = NulledOut
          /\ NulledOut \in Seq(Seq(Brokers \cup {Hole})) /\ NulledOut # << >>
          /\ Len(NulledOut) = Len(job.curr)
          /\ \A p \in Given : Len(NulledOut[p]) = N
          /\ \A p \in Given : \A r \in 1..N :
                NulledOut[p][r] = IF Misplaced(p, r) THEN Hole ELSE job.curr[p][r]
          /\ Strategy \in {"any", "balanced-leaders"} => NulledOut = job.curr
      BY <2>1, <2>2, <2>5, NulledOutIs
    <3>2. HolesOf(job.curr) = {}
      BY <2>2, CurrentWhole
    <3>3. TypeOK' /\ Grown' /\ Untouched'
      BY <2>1, <2>2, <2>3, <2>5, <3>1, <3>2, LoopsAssumption
         DEF IInv, TypeOK, Grown, Untouched, N, Strategy, Balancing
    <3>4. Width(desired') = N
      BY <2>3, <3>1 DEF Width
    <3>5. Grid'
      <4>1. \A p \in Given : \A i, j \in 1..N :
               NulledOut[p][i] = NulledOut[p][j] /\ NulledOut[p][i] # Hole => i = j
        BY <2>3, <3>1
      <4>2. N' = N /\ Len(desired') = Len(job.curr)
        BY <2>1, <3>1 DEF N
      <4>3. \A p \in 1..Len(desired') : Len(desired'[p]) = N
        BY <2>3, <3>1, <4>2
      <4>4. \A p \in 1..Len(desired') : \A i, j \in 1..Len((desired')[p]) :
               (desired')[p][i] = (desired')[p][j] /\ (desired')[p][i] # Hole => i = j
        BY <2>3, <3>1, <4>1, <4>2, <4>3
      <4> QED BY <3>1, <3>4, <4>2, <4>3, <4>4 DEF Grid, Width
    <3>6. Assigned'
      <4>1. \A p \in Given : \A r \in 1..N :
               desired'[p][r] = Hole \/ (desired'[p][r] = job.curr[p][r] /\ ~Misplaced(p, r))
        BY <3>1
      <4>2. ~Refused'
        BY <1>2, <2>1 DEF Refused, TooSmall, N, Strategy
      <4>3. ASSUME Strategy = "any" PROVE HolesOf(desired') = {}
        BY <4>3, <3>1, <3>2
      <4>4. ASSUME Strategy = "in-rack", NEW p \in Given
            PROVE  /\ desired'[p][1] # Hole
                   /\ \A r \in 1..N : \/ desired'[p][r] = Hole
                                      \/ job.rack[desired'[p][r]] = job.rack[desired'[p][1]]
        <5>1. \A r \in 1..N : Misplaced(p, r) <=>
                 job.rack[job.curr[p][r]] # job.rack[job.curr[p][1]]
          BY <4>4 DEF Misplaced
        <5>2. desired'[p][1] = job.curr[p][1] /\ job.curr[p][1] # Hole
          BY <2>3, <3>1, <5>1
        <5> QED BY <4>1, <5>1, <5>2
      <4>5. ASSUME Strategy = "static-in-rack", NEW p \in Given, NEW r \in 1..N
            PROVE  desired'[p][r] = Hole \/ job.rack[desired'[p][r]] = job.goal.racks[p]
        BY <4>1, <4>5 DEF Misplaced
      <4>6. ASSUME Strategy = "cross-rack", NEW p \in Given, NEW i \in 1..N, NEW j \in 1..N
            PROVE  \/ Hole \in {desired'[p][i], desired'[p][j]}
                   \/ job.rack[desired'[p][i]] = job.rack[desired'[p][j]] => i = j
        <5>1. \A r \in 1..N : Misplaced(p, r) <=>
                 \E s \in 1..(r - 1) : job.rack[job.curr[p][s]] = job.rack[job.curr[p][r]]
          BY <4>6 DEF Misplaced
        <5>2. CASE i < j
          BY <4>1, <5>1, <5>2, <2>3
        <5>3. CASE j < i
          BY <4>1, <5>1, <5>3, <2>3
        <5> QED BY <2>3, <5>2, <5>3
      <4>7. 1..Len(desired') = Given /\ 1..Len(desired)' = Given
        BY <2>3, <3>1
      <4> QED BY <2>1, <2>5, <4>2, <4>3, <4>4, <4>5, <4>6, <4>7
              DEF Assigned, InRackOf, Strategy, N
    <3>7. Draining'
      <4> SUFFICES ASSUME Strategy = "balanced-leaders" PROVE Draining'
        BY <2>1 DEF Draining, Balancing, Strategy
      <4>1. desired' = job.curr
        BY <3>1
      <4>2. Len(job.curr) = Share * K
        <5>1. Len(job.curr) % K = 0
          BY <1>2 DEF Refused, K
        <5> QED BY <2>3, <5>1, DivExact DEF Share
      <4>3. Touched' = {} /\ Cardinality(Touched') = 0
        BY <2>1, <4>1, FS_EmptySet DEF Touched
      <4>4. \A r : Led(r)' = Led(r) /\ LedNow(r)' = Led(r) /\ Led(r) \in Nat
        <5> SUFFICES ASSUME NEW r PROVE Led(r)' = Led(r) /\ LedNow(r)' = Led(r) /\ Led(r) \in Nat
          OBVIOUS
        <5>1. Led(r) \in 0..Len(job.curr)
          BY <2>3, LeadsAre DEF Led
        <5> QED BY <2>1, <4>1, <5>1 DEF Led, LedNow
      <4>5. Share' = Share /\ K' = K /\ Share \in Nat
        BY <2>1, <2>3 DEF Share, K
      <4>6. \A r \in 1..K : \/ Share <= LedNow(r)' /\ LedNow(r)' <= Led(r)'
                            \/ Led(r)' <= LedNow(r)' /\ LedNow(r)' <= Share
        BY <4>4, <4>5
      <4> QED BY <2>1, <2>2, <4>2, <4>3, <4>5, <4>6 DEF Draining
    <3>8. Extending' /\ Rebalanced' /\ Returned' /\ FailsOnlyForWant'
      BY <2>1 DEF Extending, Rebalanced, Returned, FailsOnlyForWant
    <3> QED BY <3>3, <3>5, <3>6, <3>7, <3>8 DEF IInv
  <2> QED BY <2>4, <2>5
<1> QED BY <1>1, <1>2 DEF Assign

\* Before the first new partition no rack has had its turn.
LEMMA NoTurnsYet ==
    ASSUME JobOK(job), Len(desired) = Len(job.curr)
    PROVE  \A r \in 1..K :
              Turns(r) = (Rounds \div K) + (IF r <= Rounds % K THEN 1 ELSE 0)
<1>1. Len(job.curr) \in Nat /\ K \in Nat \ {0} /\ Given = 1..Len(job.curr)
  BY JobFacts
<1>2. \A r : Turns(r) = 0
  <2> SUFFICES ASSUME NEW r PROVE Turns(r) = 0
    OBVIOUS
  <2>1. {p \in 1..Len(desired) \ Given : RackAt(job.rack, p - Len(job.curr) - 1) = r} = {}
    BY <1>1
  <2> QED BY <2>1, FS_EmptySet DEF Turns
<1>3. Rounds = 0 /\ 0 \div K = 0 /\ 0 % K = 0
  BY <1>1 DEF Rounds
<1> QED BY <1>1, <1>2, <1>3

\* An extension begins, with no turn taken.
LEMMA ExtendKeeps ==
    ASSUME IInv, Extend
    PROVE  IInv'
<1>1. CASE Finish("refused") \/ Finish("unsupported")
  BY <1>1, RefusalKeeps DEF Extend
<1>2. CASE ~(Finish("refused") \/ Finish("unsupported"))
  <2>1. /\ outcome = "new" /\ job.op = "extend" /\ outcome' = "run"
        /\ desired' = (IF Strategy = "static" THEN job.goal.static ELSE desired)
        /\ Strategy \notin {"cross-rack", "static-in-rack"}
        /\ Strategy = "in-rack" => ~Refused
        /\ UNCHANGED <<job, index, loops>>
    <3>1. CASE Strategy = "static"
      BY <1>2, <3>1 DEF Extend
    <3>2. CASE Strategy # "static"
      BY <1>2, <3>2 DEF Extend, Finish
    <3> QED BY <3>1, <3>2
  <2>2. JobOK(job) /\ index = 1 /\ loops = 0 /\ desired = job.curr
    BY <2>1 DEF IInv, TypeOK, Untouched
  <2>3. Len(job.curr) \in Nat \ {0} /\ N \in Nat \ {0} /\ job.extra \in Nat
    BY <2>1, <2>2, JobFacts
  <2>4. Draining' /\ Assigned' /\ Rebalanced' /\ Returned' /\ FailsOnlyForWant'
    BY <2>1 DEF Draining, Balancing, Assigned, Rebalanced, Returned, FailsOnlyForWant
  <2>5. Refused' = Refused
    BY <2>1 DEF Refused, TooSmall, N, Strategy
  <2>6. CASE Strategy = "static"
    <3>1. /\ desired' = job.goal.static /\ CheckAssignments(job.goal.static)
          /\ job.goal.static \in Seq(Seq(Brokers \cup {Hole}))
          /\ Len(job.goal.static) = Len(job.curr) + job.extra
      BY <2>1, <2>2, <2>6, StaticIs
    <3>2. TypeOK' /\ Grown' /\ Untouched'
      BY <2>1, <2>2, <2>3, <2>6, <3>1, LoopsAssumption
         DEF IInv, TypeOK, Grown, Untouched, N, Strategy, Balancing
    <3>3. Grid'
      BY <2>1, <2>6, <3>1 DEF Grid, CheckAssignments, NoRepeats, Strategy
    <3>4. Extending'
      BY <2>1, <2>6, <3>1 DEF Extending, Strategy
    <3> QED BY <2>4, <3>2, <3>3, <3>4 DEF IInv
  <2>7. CASE Strategy # "static"
    <3>1. TypeOK' /\ Grid' /\ Grown' /\ Untouched'
      BY <2>1, <2>2, <2>3, <2>7, LoopsAssumption
         DEF IInv, TypeOK, Grid, Grown, Untouched, N, Strategy, Balancing, Given
    <3>2. \A r \in 1..K :
             Turns(r) = (Rounds \div K) + (IF r <= Rounds % K THEN 1 ELSE 0)
      BY <2>2, NoTurnsYet
    <3>3. desired' = desired /\ job' = job /\ 1..Len(desired) \ Given = {}
      BY <2>1, <2>2, <2>7 DEF Given
    <3>4. Given' = Given /\ K' = K /\ Rounds' = Rounds /\ Strategy' = Strategy
      BY <3>3 DEF Given, K, Rounds, Strategy
    <3>5. \A r : Turns(r)' = Turns(r)
      BY <3>3, <3>4 DEF Turns
    <3>6. Extending'
      <4>1. 1..Len(desired') \ Given' = {}
        BY <3>3, <3>4
      <4> QED BY <2>1, <2>5, <2>7, <3>2, <3>4, <3>5, <4>1 DEF Extending
    <3> QED BY <2>4, <3>1, <3>6 DEF IInv
  <2> QED BY <2>6, <2>7
<1> QED BY <1>1, <1>2

\* A new partition gives the next rack its turn to lead.
LEMMA AddPartitionKeeps ==
    ASSUME IInv, AddPartition
    PROVE  IInv'
<1> DEFINE row == [r \in 1..N |-> Hole]
           len == Len(desired)
<1>1. /\ outcome = "run" /\ job.op = "extend" /\ HolesOf(desired) = {} /\ Missing > 0
      /\ desired' = Append(desired, row)
      /\ UNCHANGED <<job, index, loops, outcome>>
  BY DEF AddPartition, Extended
<1>2. JobOK(job) /\ TypeOK /\ Grid /\ Grown /\ Extending /\ Begun
  BY <1>1 DEF IInv, TypeOK, Begun
<1>3. /\ Len(job.curr) \in Nat \ {0} /\ N \in Nat \ {0} /\ job.extra \in Nat
      /\ Given = 1..Len(job.curr) /\ K \in Nat \ {0}
  BY <1>2, JobFacts
<1>4. Strategy # "static"
  <2> SUFFICES ASSUME Strategy = "static" PROVE FALSE
    OBVIOUS
  <2>1. len = Len(job.curr) + job.extra
    BY <1>1, <1>2, StaticIs DEF Extending
  <2> QED BY <1>1, <1>3, <2>1 DEF Missing
<1>5. /\ desired \in Seq(Seq(Brokers \cup {Hole})) /\ len \in Nat \ {0}
      /\ \A p \in 1..len : Len(desired[p]) = N
      /\ \A p \in 1..len : \A i, j \in 1..N :
            desired[p][i] = desired[p][j] /\ desired[p][i] # Hole => i = j
  BY <1>2, <1>4, DesiredFacts DEF Grid
<1>6. Len(job.curr) <= len /\ len < Len(job.curr) + job.extra
  BY <1>1, <1>2, <1>3, <1>5 DEF Missing, Grown
<1>7. row \in Seq(Brokers \cup {Hole}) /\ Len(row) = N /\ \A r \in 1..N : row[r] = Hole
  BY <1>3, IsASeq
<1> HIDE DEF row
<1>8. /\ desired' \in Seq(Seq(Brokers \cup {Hole})) /\ Len(desired') = len + 1
      /\ \A p \in 1..len : (desired')[p] = desired[p]
      /\ (desired')[len + 1] = row
  BY <1>1, <1>5, <1>7, AppendProperties
<1>9. \A p \in 1..(len + 1) : p \in 1..len \/ p = len + 1
  BY <1>5
<1>10. TypeOK'
  BY <1>1, <1>2, <1>8 DEF TypeOK, Balancing, N
<1>11. Grid'
  <2>1. desired' # << >> /\ Width(desired') = N /\ N' = N
    BY <1>1, <1>5, <1>8 DEF Width, N
  <2>2. \A p \in 1..Len(desired') : Len((desired')[p]) = N
    BY <1>5, <1>7, <1>8, <1>9
  <2>3. \A p \in 1..Len(desired') : \A i, j \in 1..N :
           (desired')[p][i] = (desired')[p][j] /\ (desired')[p][i] # Hole => i = j
    <3> SUFFICES ASSUME NEW p \in 1..(len + 1), NEW i \in 1..N, NEW j \in 1..N
                 PROVE  (desired')[p][i] = (desired')[p][j] /\ (desired')[p][i] # Hole => i = j
      BY <1>8
    <3>1. CASE p = len + 1
      BY <1>7, <1>8, <3>1
    <3>2. CASE p \in 1..len
      BY <1>5, <1>8, <3>2
    <3> QED BY <1>9, <3>1, <3>2
  <2>4. \A p \in 1..Len(desired') : \A i, j \in 1..Len((desired')[p]) :
           (desired')[p][i] = (desired')[p][j] /\ (desired')[p][i] # Hole => i = j
    BY <2>2, <2>3
  <2> QED BY <2>1, <2>2, <2>4 DEF Grid, Width
<1>12. Grown' /\ Untouched'
  BY <1>1, <1>2, <1>3, <1>4, <1>5, <1>6, <1>8
     DEF IInv, Grown, Untouched, Balancing, Begun, Strategy, Given
<1>13. Draining' /\ Assigned' /\ Rebalanced' /\ Returned' /\ FailsOnlyForWant'
  BY <1>1 DEF Draining, Balancing, Assigned, Rebalanced, Returned, FailsOnlyForWant
<1>14. Given' = Given /\ K' = K /\ N' = N /\ Strategy' = Strategy /\ Refused' = Refused
  BY <1>1 DEF Given, K, N, Strategy, Refused, TooSmall
<1>15. Rounds \in Nat /\ Rounds' = Rounds + 1
  BY <1>1, <1>3, <1>5, <1>6, <1>8 DEF Rounds
<1>16. ASSUME NEW r \in 1..K
       PROVE  Turns(r)' = (Rounds' \div K) + (IF r <= Rounds' % K THEN 1 ELSE 0)
  <2> DEFINE turn(p) == RackAt(job.rack, p - Len(job.curr) - 1)
             Old == {p \in 1..len \ Given : turn(p) = r}
             New == {p \in 1..(len + 1) \ Given : turn(p) = r}
  <2>1. Turns(r) = Cardinality(Old) /\ Turns(r)' = Cardinality(New)
    BY <1>1, <1>8, <1>14 DEF Turns
  <2>2. IsFiniteSet(Old) /\ Cardinality(Old) \in Nat
    BY <1>5, SomeOf
  <2>3. turn(len + 1) = (Rounds % K) + 1
    <3>1. (len + 1) - Len(job.curr) - 1 = Rounds
      BY <1>3, <1>5 DEF Rounds
    <3>2. turn(len + 1) = RackAt(job.rack, Rounds)
      BY <3>1
    <3> QED BY <3>2 DEF RackAt, K
  <2>4. len + 1 \notin Old /\ len + 1 \in 1..(len + 1) \ Given
    BY <1>3, <1>5, <1>6
  <2>5. New = IF turn(len + 1) = r THEN Old \cup {len + 1} ELSE Old
    <3>1. \A p : p \in 1..(len + 1) \ Given <=> p \in 1..len \ Given \/ p = len + 1
      BY <1>5, <1>9, <2>4
    <3> HIDE DEF turn
    <3>2. CASE turn(len + 1) = r
      BY <3>1, <3>2
    <3>3. CASE turn(len + 1) # r
      BY <3>1, <3>3
    <3> QED BY <3>2, <3>3
  <2> HIDE DEF turn, Old, New
  <2>6. Turns(r)' = Turns(r) + (IF r = (Rounds % K) + 1 THEN 1 ELSE 0)
    <3>1. Cardinality(Old \cup {len + 1}) = Cardinality(Old) + 1
      BY <2>2, <2>4, FS_AddElement
    <3>2. CASE r = (Rounds % K) + 1
      BY <2>1, <2>3, <2>5, <3>1, <3>2
    <3>3. CASE r # (Rounds % K) + 1
      BY <2>1, <2>2, <2>3, <2>5, <3>3
    <3> QED BY <3>2, <3>3
  <2>7. Turns(r) = (Rounds \div K) + (IF r <= Rounds % K THEN 1 ELSE 0)
    BY <1>1, <1>2, <1>4 DEF Extending
  <2>8. /\ (Rounds + 1) \div K = IF Rounds % K = K - 1 THEN (Rounds \div K) + 1 ELSE Rounds \div K
        /\ (Rounds + 1) % K = IF Rounds % K = K - 1 THEN 0 ELSE (Rounds % K) + 1
    BY <1>3, <1>15, DivNext
  <2>9. Rounds \div K \in Nat /\ Rounds % K \in 0..(K - 1)
    BY <1>3, <1>15, DivMod
  <2> QED BY <1>3, <1>15, <2>6, <2>7, <2>8, <2>9
<1>17. ASSUME NEW p \in 1..(len + 1) \ Given, NEW r \in 1..N
       PROVE  (desired')[p][r] = Hole \/ job.rack[(desired')[p][r]] = TargetRack(p, r)'
  <2>1. CASE p = len + 1
    BY <1>7, <1>8, <2>1
  <2>2. CASE p \in 1..len
    <3>1. desired[p][r] = Hole \/ job.rack[desired[p][r]] = TargetRack(p, r)
      BY <1>1, <1>2, <1>4, <2>2 DEF Extending, InRackOf
    <3>2. TargetRack(p, r)' = TargetRack(p, r)
      BY <1>1, <1>2, <1>8, <2>2 DEF TargetRack, Extending, Strategy
    <3> QED BY <1>8, <2>2, <3>1, <3>2
  <2> QED BY <1>9, <2>1, <2>2
<1>18. Extending'
  BY <1>1, <1>2, <1>4, <1>8, <1>14, <1>16, <1>17 DEF Extending, InRackOf
<1> QED BY <1>10, <1>11, <1>12, <1>13, <1>18 DEF IInv

-----------------------------------------------------------------------------
(***************************************************************************)
(* Filling the placeholders.                                               *)
(***************************************************************************)
\* Where there are placeholders: assigning to racks, or extending.
LEMMA FillJob ==
    ASSUME IInv, outcome = "run", HolesOf(desired) # {}
    PROVE  /\ JobOK(job) /\ Width(desired) = N /\ Strategy # "static" /\ ~Balancing
           /\ \/ job.op = "assign" /\ Strategy \in {"in-rack", "static-in-rack", "cross-rack"}
              \/ job.op = "extend" /\ Strategy \in {"in-rack", "any", "balanced-leaders"}
<1>1. TypeOK /\ Grid /\ JobOK(job) /\ Begun
  BY DEF IInv, TypeOK, Begun
<1>2. job.op \in Ops /\ Strategy \in Strategies
  BY <1>1 DEF JobOK, Strategy
<1>3. ~Balancing /\ job.op # "rebalance"
  BY <1>1 DEF TypeOK
<1>4. job.op # "place"
  BY <1>1 DEF IInv, Untouched
<1>5. Strategy # "static"
  <2> SUFFICES ASSUME Strategy = "static" PROVE FALSE
    OBVIOUS
  <2>1. desired = job.goal.static
    BY <1>1, <1>2, <1>3, <1>4 DEF IInv, Assigned, Extending, Ops
  <2> QED BY <1>1, <2>1, StaticIs
<1>6. Width(desired) = N
  BY <1>1, <1>5 DEF Grid
<1>7. job.op = "assign" => Strategy # "any"
  BY <1>1 DEF IInv, Assigned
<1>8. job.op = "extend" => Strategy \notin {"cross-rack", "static-in-rack"}
  BY <1>1 DEF IInv, Extending
<1> QED BY <1>1, <1>2, <1>3, <1>4, <1>5, <1>6, <1>7, <1>8 DEF Ops, Strategies, Balancing

\* A rack whose brokers are all in the partition has no more than it has places.
LEMMA Occupied ==
    ASSUME NEW list, NEW n, DOMAIN list = 1..n, NEW set, set \subseteq Members(list),
           NEW places, IsFiniteSet(places),
           \A i \in 1..n : list[i] \in set => i \in places
    PROVE  Cardinality(set) <= Cardinality(places)
<1> DEFINE at == [b \in set |-> CHOOSE i \in 1..n : list[i] = b]
<1>1. \A b \in set : \E i \in 1..n : list[i] = b
  BY DEF Members
<1>2. \A b \in set : at[b] \in 1..n /\ list[at[b]] = b
  BY <1>1
<1>3. at \in [set -> places]
  BY <1>2
<1>4. \A a, b \in set : at[a] = at[b] => a = b
  BY <1>2
<1> HIDE DEF at
<1> QED BY <1>3, <1>4, InjectionBounds

\* One place fewer than a partition has.
LEMMA OthersCount ==
    ASSUME NEW n \in Nat, NEW r \in 1..n
    PROVE  IsFiniteSet((1..n) \ {r}) /\ Cardinality((1..n) \ {r}) = n - 1
<1>1. IsFiniteSet(1..n) /\ Cardinality(1..n) = n
  BY Upto
<1> QED BY <1>1, FS_RemoveElement

\* Of enough racks one is not used by the partition.
LEMMA CrossTarget ==
    ASSUME IInv, outcome = "run", HolesOf(desired) # {},
           job.op = "assign", Strategy = "cross-rack",
           NEW p \in 1..Len(desired), NEW r \in 1..N, desired[p][r] = Hole
    PROVE  /\ TargetRack(p, r) \in RacksOf(job.rack)
           /\ \A i \in 1..N : desired[p][i] # Hole => InRackOf(p, i) # TargetRack(p, r)
<1> DEFINE used == {job.rack[b] : b \in Members(desired[p]) \ {Hole}}
           others == (1..N) \ {r}
           F == [i \in others |-> job.rack[desired[p][i]]]
           T == {F[i] : i \in others}
<1>1. TypeOK /\ Grid /\ JobOK(job) /\ Width(desired) = N
  BY FillJob DEF IInv
<1>2. N \in Nat \ {0} /\ K \in Nat \ {0} /\ RacksOf(job.rack) = 1..K
  BY <1>1, JobFacts
<1>3. DOMAIN desired[p] = 1..N
  BY <1>1, DesiredFacts
<1>4. N <= K
  <2>1. ~Refused
    BY DEF IInv, Assigned, Begun
  <2> QED BY <1>2, <2>1 DEF Refused, K
<1>5. IsFiniteSet(others) /\ Cardinality(others) = N - 1
  BY <1>2, OthersCount
<1>6. IsFiniteSet(T) /\ Cardinality(T) <= N - 1
  <2> HIDE DEF others
  <2>1. F = [i \in others |-> F[i]]
    OBVIOUS
  <2> HIDE DEF F
  <2> QED BY <1>5, <2>1, ImageIs
<1>7. \A i \in 1..N : desired[p][i] # Hole => job.rack[desired[p][i]] \in T
  <2> SUFFICES ASSUME NEW i \in 1..N, desired[p][i] # Hole
               PROVE  job.rack[desired[p][i]] \in T
    OBVIOUS
  <2>1. i \in others
    OBVIOUS
  <2>2. F[i] = job.rack[desired[p][i]]
    BY <2>1
  <2> QED BY <2>1, <2>2
<1>8. used \subseteq T
  <2> HIDE DEF T
  <2> QED BY <1>3, <1>7 DEF Members
<1>9. \A i \in 1..N : desired[p][i] # Hole => job.rack[desired[p][i]] \in used
  BY <1>3 DEF Members
<1> HIDE DEF used, T, F, others
<1>10. (1..K) \ used # {}
  <2> SUFFICES ASSUME 1..K \subseteq T PROVE FALSE
    BY <1>8
  <2>1. Cardinality(1..K) <= Cardinality(T)
    BY <1>6, FS_Subset
  <2>2. Cardinality(1..K) = K /\ Cardinality(T) \in Nat
    BY <1>2, <1>6, Upto, FS_CardinalityType
  <2> QED BY <1>2, <1>4, <1>6, <2>1, <2>2
<1>11. TargetRack(p, r) = Least((1..K) \ used)
  BY <1>2 DEF TargetRack, used
<1>12. TargetRack(p, r) \in (1..K) \ used
  <2>1. (1..K) \ used \subseteq Nat
    BY <1>2
  <2> QED BY <1>10, <1>11, <2>1, LeastIs
<1> QED BY <1>2, <1>9, <1>12 DEF InRackOf

\* The assigners always find a broker, and so does the in-rack extender.
LEMMA RackHasRoom ==
    ASSUME IInv, outcome = "run", HolesOf(desired) # {},
           job.op = "assign" \/ Strategy = "in-rack",
           NEW p \in 1..Len(desired), NEW r \in 1..N, desired[p][r] = Hole
    PROVE  Feasible(desired, p, InThe(job.rack, TargetRack(p, r))) # {}
<1>1. /\ TypeOK /\ Grid /\ JobOK(job) /\ Begun /\ Width(desired) = N
      /\ \/ job.op = "assign" /\ Strategy \in {"in-rack", "static-in-rack", "cross-rack"}
         \/ job.op = "extend" /\ Strategy = "in-rack"
  BY FillJob DEF IInv, Begun
<1>2. /\ N \in Nat \ {0} /\ K \in Nat \ {0} /\ RacksOf(job.rack) = 1..K
      /\ job.rack \in [Brokers -> 1..K] /\ Hole \notin Brokers /\ IsFiniteSet(Brokers)
      /\ Len(job.curr) \in Nat \ {0} /\ Given = 1..Len(job.curr) /\ Len(desired) \in Nat
  BY <1>1, JobFacts, DesiredFacts
<1>3. /\ DOMAIN desired[p] = 1..N
      /\ \A i \in 1..N : desired[p][i] \in Brokers \cup {Hole}
  BY <1>1, DesiredFacts
<1> DEFINE t == TargetRack(p, r)
           set == InThe(job.rack, t)
           others == (1..N) \ {r}
<1>4. IsFiniteSet(set) /\ Cardinality(set) \in Nat
  <2>1. set \subseteq Brokers
    BY DEF InThe
  <2> QED BY <1>2, <2>1, FS_Subset, FS_CardinalityType
<1>5. \A i \in 1..N : desired[p][i] \in set => i \in others
  BY <1>2 DEF InThe
<1>6. IsFiniteSet(others) /\ Cardinality(others) = N - 1
  BY <1>2, OthersCount
<1>7. SUFFICES ASSUME set \subseteq Members(desired[p]) PROVE FALSE
  BY DEF Feasible
<1>8. Cardinality(set) <= N - 1
  <2> HIDE DEF set, others
  <2> QED BY <1>3, <1>5, <1>6, <1>7, Occupied
<1>9. ~Refused
  BY <1>1 DEF IInv, Assigned, Extending
<1>10. CASE job.op = "assign" /\ Strategy = "in-rack"
  <2>1. desired[p][1] # Hole
    BY <1>1, <1>10 DEF IInv, Assigned
  <2>2. t = job.rack[desired[p][1]]
    BY <1>10 DEF TargetRack
  <2>3. t \in RacksOf(job.rack)
    BY <1>2, <1>3, <2>1, <2>2
  <2>4. ~TooSmall(t)
    BY <1>9, <1>10, <2>3 DEF Refused
  <2> QED BY <1>2, <1>4, <1>8, <2>4 DEF TooSmall
<1>11. CASE job.op = "assign" /\ Strategy = "static-in-rack"
  <2>1. t = job.goal.racks[p]
    BY <1>11 DEF TargetRack
  <2>2. /\ job.goal.racks \in Seq(Nat \ {0})
        /\ Len(job.goal.racks) = Len(job.curr) + job.extra
    BY <1>1, <1>11 DEF JobOK, Strategy
  <2>3. job.extra = 0 /\ Len(desired) = Len(job.curr)
    BY <1>1, <1>11, JobFacts DEF IInv, Grown
  <2>4. p \in DOMAIN job.goal.racks
    BY <1>2, <2>2, <2>3, LenProperties
  <2>5. ~TooSmall(t)
    BY <1>9, <1>11, <2>1, <2>4 DEF Refused
  <2> QED BY <1>2, <1>4, <1>8, <2>5 DEF TooSmall
<1>12. CASE job.op = "assign" /\ Strategy = "cross-rack"
  <2>1. /\ t \in RacksOf(job.rack)
        /\ \A i \in 1..N : desired[p][i] # Hole => job.rack[desired[p][i]] # t
    BY <1>12, CrossTarget DEF InRackOf
  <2>2. PICK b \in Brokers : job.rack[b] = t
    BY <2>1 DEF RacksOf
  <2>3. b \in Members(desired[p])
    BY <1>7, <2>2 DEF InThe
  <2>4. PICK i \in 1..N : desired[p][i] = b
    BY <1>3, <2>3 DEF Members
  <2> QED BY <1>2, <2>1, <2>2, <2>4
<1>13. CASE job.op = "extend" /\ Strategy = "in-rack"
  <2>1. p \notin Given
    <3> SUFFICES ASSUME p \in Given PROVE FALSE
      OBVIOUS
    <3>1. desired[p] = job.curr[p]
      BY <1>13 DEF IInv, Grown
    <3> QED BY <1>1, <1>2, <3>1, JobFacts
  <2>2. t = RackAt(job.rack, p - Len(job.curr) - 1)
    BY <1>13 DEF TargetRack
  <2>3. p - Len(job.curr) - 1 \in Nat
    BY <1>2, <2>1
  <2>4. t \in RacksOf(job.rack)
    <3>1. (p - Len(job.curr) - 1) % K \in 0..(K - 1)
      BY <1>2, <2>3, DivMod
    <3> QED BY <1>2, <2>2, <3>1 DEF RackAt, K
  <2>5. ~TooSmall(t)
    BY <1>9, <1>13, <2>4 DEF Refused
  <2> QED BY <1>2, <1>4, <1>8, <2>5 DEF TooSmall
<1> QED BY <1>1, <1>10, <1>11, <1>12, <1>13

\* The other extenders find one unless the rack is smaller than the places
\* of the partition whose turn it takes.
LEMMA TurnsTooOften ==
    ASSUME IInv, outcome = "run", HolesOf(desired) # {},
           job.op = "extend", Strategy # "in-rack",
           NEW p \in 1..Len(desired), NEW r \in 1..N, desired[p][r] = Hole,
           Feasible(desired, p, InThe(job.rack, TargetRack(p, r))) = {}
    PROVE  \E s \in RacksOf(job.rack) :
              Cardinality(InThe(job.rack, s)) < (N + K - 1) \div K
<1>1. /\ TypeOK /\ Grid /\ JobOK(job) /\ Begun /\ Width(desired) = N /\ Strategy # "static"
  BY FillJob DEF IInv, Begun
<1>2. /\ N \in Nat \ {0} /\ K \in Nat \ {0} /\ RacksOf(job.rack) = 1..K
      /\ job.rack \in [Brokers -> 1..K] /\ Hole \notin Brokers /\ IsFiniteSet(Brokers)
      /\ Len(job.curr) \in Nat \ {0} /\ Given = 1..Len(job.curr) /\ Len(desired) \in Nat
  BY <1>1, JobFacts, DesiredFacts
<1>3. /\ DOMAIN desired[p] = 1..N
      /\ \A i \in 1..N : desired[p][i] \in Brokers \cup {Hole}
  BY <1>1, DesiredFacts
<1>4. p \notin Given
  <2> SUFFICES ASSUME p \in Given PROVE FALSE
    OBVIOUS
  <2>1. desired[p] = job.curr[p]
    BY <1>1 DEF IInv, Grown
  <2> QED BY <1>1, <1>2, <2>1, JobFacts
<1> DEFINE e == p - Len(job.curr) - 1
<1>5. e \in Nat
  BY <1>2, <1>4
<1>6. \A i \in 1..N : /\ TargetRack(p, i) = ((e + (i - 1)) % K) + 1
                      /\ (e + (i - 1)) % K \in Nat
                      /\ (e + (i - 1)) % K \in 0..(K - 1)
  <2> SUFFICES ASSUME NEW i \in 1..N
               PROVE  /\ TargetRack(p, i) = ((e + (i - 1)) % K) + 1
                      /\ (e + (i - 1)) % K \in Nat
                      /\ (e + (i - 1)) % K \in 0..(K - 1)
    OBVIOUS
  <2>1. TargetRack(p, i) = RackAt(job.rack, e + (i - 1))
    BY DEF TargetRack
  <2>2. e + (i - 1) \in Nat
    BY <1>2, <1>5
  <2>3. (e + (i - 1)) % K \in 0..(K - 1)
    BY <1>2, <2>2, DivMod
  <2>4. (e + (i - 1)) % K \in Nat
    <3> HIDE DEF e
    <3> QED BY <1>2, <2>3
  <2> QED BY <2>1, <2>3, <2>4 DEF RackAt, K
<1> HIDE DEF e
<1> DEFINE t == TargetRack(p, r)
           set == InThe(job.rack, t)
           places == {i \in 1..N : desired[p][i] \in set}
           F == [i \in places \cup {r} |-> (i - 1) \div K]
<1>7. t \in RacksOf(job.rack)
  BY <1>2, <1>6
<1>8. \A i \in places : TargetRack(p, i) = t
  <2> SUFFICES ASSUME NEW i \in places PROVE TargetRack(p, i) = t
    OBVIOUS
  <2>1. desired[p][i] # Hole /\ job.rack[desired[p][i]] = t
    BY <1>2 DEF InThe
  <2>2. job.rack[desired[p][i]] = TargetRack(p, i)
    BY <1>1, <1>4, <2>1 DEF IInv, Extending, InRackOf
  <2> QED BY <2>1, <2>2
<1>9. r \notin places /\ IsFiniteSet(places) /\ Cardinality(places) \in Nat
  <2>1. r \notin places
    BY <1>2 DEF InThe
  <2>2. places \subseteq 1..N
    OBVIOUS
  <2> HIDE DEF places
  <2>3. N \in Nat
    BY <1>2
  <2>4. IsFiniteSet(places) /\ Cardinality(places) \in 0..N
    BY <2>2, <2>3, SomeOf
  <2> QED BY <2>1, <2>3, <2>4
<1>10. \A i \in places \cup {r} : i \in 1..N /\ TargetRack(p, i) = t
  BY <1>8
<1> HIDE DEF places, set, t
<1>11. F \in [places \cup {r} -> 0..((N - 1) \div K)]
  <2> SUFFICES ASSUME NEW i \in 1..N PROVE (i - 1) \div K \in 0..((N - 1) \div K)
    BY <1>10
  <2>1. i - 1 \in Nat /\ N - 1 \in Nat /\ i - 1 <= N - 1
    BY <1>2
  <2>2. (i - 1) \div K <= (N - 1) \div K
    BY <1>2, <2>1, DivGrows
  <2>3. (i - 1) \div K \in Nat /\ (N - 1) \div K \in Nat
    BY <1>2, <2>1, DivMod
  <2> QED BY <2>2, <2>3
<1>12. ASSUME NEW i \in places \cup {r}, NEW j \in places \cup {r}, F[i] = F[j] PROVE i = j
  <2>1. i - 1 \in Nat /\ j - 1 \in Nat /\ i \in Nat /\ j \in Nat
    BY <1>2, <1>10
  <2>2. (e + (i - 1)) % K = (e + (j - 1)) % K
    <3>1. ((e + (i - 1)) % K) + 1 = ((e + (j - 1)) % K) + 1
      BY <1>6, <1>10
    <3>2. (e + (i - 1)) % K \in Nat /\ (e + (j - 1)) % K \in Nat
      BY <1>6, <1>10
    <3> QED BY <3>1, <3>2
  <2>3. (i - 1) \div K = (j - 1) \div K
    BY <1>12
  <2>4. i - 1 = j - 1
    BY <1>2, <1>5, <2>1, <2>2, <2>3, SameRest
  <2> QED BY <2>1, <2>4
<1>13. (N - 1) \div K \in Nat
  <2>1. N - 1 \in Nat
    BY <1>2
  <2> QED BY <1>2, <2>1, DivMod
<1>14. Cardinality(places) + 1 <= ((N - 1) \div K) + 1
  <2>1. IsFiniteSet(0..((N - 1) \div K)) /\ Cardinality(0..((N - 1) \div K)) = ((N - 1) \div K) + 1
    BY <1>13, FS_Interval
  <2> HIDE DEF F
  <2>2. Cardinality(places \cup {r}) <= Cardinality(0..((N - 1) \div K))
    BY <1>11, <1>12, <2>1, InjectionBounds
  <2>3. Cardinality(places \cup {r}) = Cardinality(places) + 1
    BY <1>9, FS_AddElement
  <2> QED BY <2>1, <2>2, <2>3
<1>15. Cardinality(set) <= Cardinality(places)
  <2>1. set \subseteq Members(desired[p])
    BY DEF Feasible, set, t
  <2>2. \A i \in 1..N : desired[p][i] \in set => i \in places
    BY DEF places
  <2> QED BY <1>3, <1>9, <2>1, <2>2, Occupied
<1>16. Cardinality(set) \in Nat
  <2>1. set \subseteq Brokers
    BY DEF InThe, set
  <2> QED BY <1>2, <2>1, FS_Subset, FS_CardinalityType
<1>17. ((N - 1) \div K) + 1 = (N + K - 1) \div K
  BY <1>2, DivRoundedUp
<1>18. Cardinality(set) < (N + K - 1) \div K
  BY <1>9, <1>13, <1>14, <1>15, <1>16, <1>17
<1> QED BY <1>7, <1>18 DEF set, t

\* A placeholder is filled from the rack of its turn; that none is left to pick
\* happens to an extender only, in a rack that is smaller than its turns.
LEMMA FillHoleKeeps ==
    ASSUME IInv, FillHole
    PROVE  IInv'
<1>1. outcome = "run" /\ HolesOf(desired) # {}
  BY DEF FillHole
<1>2. /\ TypeOK /\ Grid /\ JobOK(job) /\ Begun /\ Width(desired) = N
      /\ Strategy # "static" /\ ~Balancing
      /\ \/ job.op = "assign" /\ Strategy \in {"in-rack", "static-in-rack", "cross-rack"}
         \/ job.op = "extend" /\ Strategy \in {"in-rack", "any", "balanced-leaders"}
  BY <1>1, FillJob DEF IInv, Begun
<1>3. PICK p \in 1..Len(desired) : \E r \in 1..N : FirstHole = <<p, r>> /\ desired[p][r] = Hole
  BY <1>1, <1>2, FirstHoleIs
<1>4. PICK r \in 1..N : FirstHole = <<p, r>> /\ desired[p][r] = Hole
  BY <1>3
<1> DEFINE choices == InThe(job.rack, TargetRack(p, r))
           picks == PickNew(desired, p, r, choices)
<1>5. FirstHole[1] = p /\ FirstHole[2] = r
  BY <1>4
<1>6. IF picks = {} THEN Finish("no-choice")
      ELSE \E b \in picks : /\ desired' = [desired EXCEPT ![p][r] = b]
                            /\ UNCHANGED <<job, index, loops, outcome>>
  BY <1>5 DEF FillHole
<1>7. /\ picks \subseteq Feasible(desired, p, choices)
      /\ Feasible(desired, p, choices) # {} => picks # {}
  BY <1>2, DesiredFacts, PickIs
<1> HIDE DEF picks
<1>8. CASE picks = {}
  <2>1. outcome' = "no-choice" /\ UNCHANGED <<job, desired, index, loops>>
    BY <1>6, <1>8 DEF Finish
  <2>2. job.op = "extend" /\ Strategy # "in-rack"
    BY <1>1, <1>2, <1>4, <1>7, <1>8, RackHasRoom
  <2>3. \E s \in RacksOf(job.rack) :
           Cardinality(InThe(job.rack, s)) < (N + K - 1) \div K
    BY <1>1, <1>4, <1>7, <1>8, <2>2, TurnsTooOften
  <2>4. FailsOnlyForWant'
    BY <2>1, <2>2, <2>3 DEF FailsOnlyForWant, K, N, Strategy
  <2>5. TypeOK'
    BY <1>2, <2>1 DEF TypeOK, N, Balancing, Strategy, Ended, Failures
  <2>6. Grid' /\ Grown' /\ Untouched'
    BY <1>1, <2>1, <2>2 DEF IInv, Grid, Grown, Untouched, Begun, Balancing, N, Strategy, Given
  <2>7. Assigned' /\ Draining' /\ Rebalanced' /\ Returned'
    BY <2>1, <2>2 DEF Assigned, Draining, Balancing, Rebalanced, Returned
  <2>8. Extending'
    <3>1. /\ Refused' = Refused /\ Strategy' = Strategy /\ Given' = Given /\ N' = N
          /\ K' = K /\ Rounds' = Rounds
      BY <2>1 DEF Refused, TooSmall, Strategy, Given, N, K, Rounds
    <3>2. \A s : Turns(s)' = Turns(s)
      BY <2>1, <3>1 DEF Turns
    <3>3. \A q, s : TargetRack(q, s)' = TargetRack(q, s) /\ InRackOf(q, s)' = InRackOf(q, s)
      BY <2>1, <2>2, <3>1 DEF TargetRack, InRackOf
    <3> QED BY <1>2, <2>1, <3>1, <3>2, <3>3 DEF IInv, Extending
  <2> QED BY <2>4, <2>5, <2>6, <2>7, <2>8 DEF IInv
<1>9. CASE picks # {}
  <2>1. PICK b \in picks : /\ desired' = Put(desired, p, r, b)
                           /\ UNCHANGED <<job, index, loops, outcome>>
    BY <1>6, <1>9 DEF Put
  <2>2. b \in Brokers /\ job.rack[b] = TargetRack(p, r) /\ b \notin Members(desired[p])
    BY <1>7 DEF Feasible, InThe
  <2>3. /\ Len(job.curr) \in Nat \ {0} /\ N \in Nat \ {0} /\ Given = 1..Len(job.curr)
        /\ Hole \notin Brokers
    BY <1>2, JobFacts
  <2>4. /\ desired \in Seq(Seq(Brokers \cup {Hole})) /\ Len(desired) \in Nat \ {0}
        /\ \A q \in 1..Len(desired) : Len(desired[q]) = N /\ DOMAIN desired[q] = 1..N
        /\ \A q \in 1..Len(desired) : \A i, j \in 1..N :
              desired[q][i] = desired[q][j] /\ desired[q][i] # Hole => i = j
    BY <1>2, DesiredFacts
  <2>5. /\ desired' \in Seq(Seq(Brokers \cup {Hole})) /\ Len(desired') = Len(desired)
        /\ \A q \in 1..Len(desired) : /\ Len((desired')[q]) = N
                                      /\ q # p => (desired')[q] = desired[q]
        /\ \A q \in 1..Len(desired) : \A s \in 1..N :
              (desired')[q][s] = IF q = p /\ s = r THEN b ELSE desired[q][s]
    <3> DEFINE T == Brokers \cup {Hole}
    <3>1. b \in T /\ r \in 1..Len(desired[p]) /\ desired \in Seq(Seq(T))
      BY <2>2, <2>4
    <3> HIDE DEF T
    <3>2. Placed(T, desired, p, r, b, desired')
      BY <2>1, <3>1, PutIs
    <3> QED BY <2>4, <3>2 DEF T, Placed

  <2>6. \A s \in 1..N : desired[p][s] # b
    BY <2>2, <2>4 DEF Members
  <2>7. TypeOK'
    BY <1>1, <1>2, <2>1, <2>5 DEF TypeOK, N, Balancing, Strategy
  <2>8. Grid'
    <3>1. desired' # << >> /\ Width(desired') = N /\ N' = N
      BY <2>1, <2>4, <2>5 DEF Width, N
    <3>2. \A q \in 1..Len(desired') : Len((desired')[q]) = N
      BY <2>5
    <3>3. \A q \in 1..Len(desired') : \A i, j \in 1..N :
             (desired')[q][i] = (desired')[q][j] /\ (desired')[q][i] # Hole => i = j
      <4> SUFFICES ASSUME NEW q \in 1..Len(desired), NEW i \in 1..N, NEW j \in 1..N
                   PROVE  (desired')[q][i] = (desired')[q][j] /\ (desired')[q][i] # Hole
                             => i = j
        BY <2>5
      <4>1. CASE q # p
        BY <2>4, <2>5, <4>1
      <4>2. CASE q = p
        BY <2>4, <2>5, <2>6, <4>2
      <4> QED BY <4>1, <4>2
    <3>4. \A q \in 1..Len(desired') : \A i, j \in 1..Len((desired')[q]) :
             (desired')[q][i] = (desired')[q][j] /\ (desired')[q][i] # Hole => i = j
      BY <3>2, <3>3
    <3> QED BY <3>1, <3>2, <3>4 DEF Grid, Width
  <2>9. job.op = "extend" => p \notin Given
    <3> SUFFICES ASSUME job.op = "extend", p \in Given PROVE FALSE
      OBVIOUS
    <3>1. desired[p] = job.curr[p]
      BY <1>2 DEF IInv, Grown
    <3> QED BY <1>2, <1>4, <2>3, <3>1, JobFacts
  <2>10. Grown'
    <3>1. job.op = "extend" => \A q \in Given : (desired')[q] = job.curr[q]
      <4> SUFFICES ASSUME job.op = "extend", NEW q \in Given PROVE (desired')[q] = job.curr[q]
        OBVIOUS
      <4>1. q \in 1..Len(desired) /\ q # p /\ desired[q] = job.curr[q]
        BY <1>2, <2>3, <2>4, <2>9 DEF IInv, Grown
      <4> QED BY <2>5, <4>1
    <3> QED BY <1>2, <2>1, <2>5, <3>1 DEF IInv, Grown, Given, Strategy
  <2>11. Untouched' /\ Draining' /\ Rebalanced' /\ Returned' /\ FailsOnlyForWant'
    BY <1>1, <1>2, <2>1 DEF IInv, Untouched, Draining, Rebalanced, Returned,
                            FailsOnlyForWant, Balancing, Strategy, Begun
  <2>12. Refused' = Refused /\ Strategy' = Strategy /\ N' = N /\ Given' = Given /\ K' = K
    BY <2>1 DEF Refused, TooSmall, Strategy, N, Given, K
  <2>13. \A q \in 1..Len(desired) : \A s \in 1..N :
            InRackOf(q, s)' = IF q = p /\ s = r THEN TargetRack(p, r) ELSE InRackOf(q, s)
    BY <2>1, <2>2, <2>5 DEF InRackOf
  <2>14. Assigned'
    <3> SUFFICES ASSUME job.op = "assign" PROVE Assigned'
      BY <2>1 DEF Assigned
    <3>1. Assigned
      BY DEF IInv
    <3>2. ASSUME Strategy = "in-rack", NEW q \in 1..Len(desired)
          PROVE  /\ (desired')[q][1] # Hole
                 /\ \A s \in 1..N : \/ (desired')[q][s] = Hole
                                    \/ InRackOf(q, s)' = InRackOf(q, 1)'
      <4>1. /\ desired[q][1] # Hole
            /\ \A s \in 1..N : desired[q][s] = Hole \/ InRackOf(q, s) = InRackOf(q, 1)
        BY <1>2, <3>1, <3>2 DEF Assigned
      <4>2. CASE q # p
        <5>1. (desired')[q] = desired[q] /\ \A s \in 1..N : InRackOf(q, s)' = InRackOf(q, s)
          BY <2>5, <2>13, <4>2
        <5>2. 1 \in 1..N
          BY <2>3
        <5> QED BY <4>1, <5>1, <5>2
      <4>3. CASE q = p
        <5>1. TargetRack(p, r) = InRackOf(p, 1) /\ r # 1
          BY <1>4, <3>2, <4>1, <4>3 DEF TargetRack, InRackOf
        <5>2. 1 \in 1..N
          BY <2>3
        <5>3. (desired')[q][1] = desired[q][1] /\ InRackOf(q, 1)' = InRackOf(q, 1)
          BY <2>5, <2>13, <5>1, <5>2
        <5>4. \A s \in 1..N : s # r => /\ (desired')[q][s] = desired[q][s]
                                       /\ InRackOf(q, s)' = InRackOf(q, s)
          BY <2>5, <2>13
        <5>5. InRackOf(q, r)' = InRackOf(q, 1)
          BY <2>13, <4>3, <5>1
        <5> QED BY <4>1, <5>3, <5>4, <5>5
      <4> QED BY <4>2, <4>3
    <3>3. ASSUME Strategy = "static-in-rack", NEW q \in 1..Len(desired), NEW s \in 1..N
          PROVE  (desired')[q][s] = Hole \/ InRackOf(q, s)' = job.goal.racks[q]
      <4>1. desired[q][s] = Hole \/ InRackOf(q, s) = job.goal.racks[q]
        BY <1>2, <3>1, <3>3 DEF Assigned
      <4>2. TargetRack(p, r) = job.goal.racks[p]
        BY <3>3 DEF TargetRack
      <4> QED BY <2>5, <2>13, <4>1, <4>2
    <3>4. ASSUME Strategy = "cross-rack", NEW q \in 1..Len(desired),
                 NEW i \in 1..N, NEW j \in 1..N
          PROVE  \/ Hole \in {(desired')[q][i], (desired')[q][j]}
                 \/ InRackOf(q, i)' = InRackOf(q, j)' => i = j
      <4>1. \/ Hole \in {desired[q][i], desired[q][j]}
            \/ InRackOf(q, i) = InRackOf(q, j) => i = j
        BY <1>2, <3>1, <3>4 DEF Assigned
      <4>2. \A s \in 1..N : desired[p][s] # Hole => InRackOf(p, s) # TargetRack(p, r)
        BY <1>1, <1>4, <3>4, CrossTarget
      <4>3. \A s \in 1..N : q # p \/ s # r => /\ (desired')[q][s] = desired[q][s]
                                            /\ InRackOf(q, s)' = InRackOf(q, s)
        BY <2>5, <2>13
      <4>4. InRackOf(p, r)' = TargetRack(p, r)
        BY <2>13
      <4>5. CASE q # p \/ (i # r /\ j # r)
        BY <4>1, <4>3, <4>5
      <4>6. CASE q = p /\ i = r /\ j # r
        BY <4>2, <4>3, <4>4, <4>6
      <4>7. CASE q = p /\ i # r /\ j = r
        BY <4>2, <4>3, <4>4, <4>7
      <4> QED BY <4>5, <4>6, <4>7
    <3> QED BY <1>2, <2>1, <2>5, <2>12, <3>1, <3>2, <3>3, <3>4 DEF Assigned
  <2>15. Extending'
    <3> SUFFICES ASSUME job.op = "extend" PROVE Extending'
      BY <2>1 DEF Extending
    <3>1. \A q, s : TargetRack(q, s)' = TargetRack(q, s)
      BY <2>1, <2>12 DEF TargetRack
    <3>2. Rounds' = Rounds /\ \A s : Turns(s)' = Turns(s)
      BY <2>1, <2>5, <2>12 DEF Rounds, Turns
    <3>3. \A q \in 1..Len(desired) \ Given : \A s \in 1..N :
             (desired')[q][s] = Hole \/ InRackOf(q, s)' = TargetRack(q, s)'
      BY <1>2, <2>5, <2>13, <3>1 DEF IInv, Extending
    <3> QED BY <1>2, <2>1, <2>5, <2>12, <3>2, <3>3 DEF IInv, Extending
  <2> QED BY <2>7, <2>8, <2>10, <2>11, <2>14, <2>15 DEF IInv
<1> QED BY <1>8, <1>9

-----------------------------------------------------------------------------
(***************************************************************************)
(* Balancing the leaders.                                                  *)
(***************************************************************************)
\* When the leaders are not balanced, there is a rack to take a leadership
\* from, above its share now and at the beginning, and one below to give it to.
LEMMA FromAndTo ==
    ASSUME IInv, outcome = "run", Balancing, ~Balanced(desired, job.rack)
    PROVE  /\ From \in 1..K /\ To \in 1..K /\ From # To
           /\ LedNow(From) > Share /\ LedNow(To) < Share
           /\ Led(From) > Share /\ Led(To) < Share
           /\ FromPartitions # {}
           /\ \A p \in FromPartitions : p \in Given /\ desired[p] = job.curr[p]
<1>1. /\ TypeOK /\ Grid /\ JobOK(job) /\ Width(desired) = N /\ Draining /\ Begun
      /\ job.op = "assign" /\ Len(desired) = Len(job.curr)
  BY DEF IInv, TypeOK, Grid, Balancing, Begun, Grown
<1>2. /\ Len(job.curr) \in Nat \ {0} /\ N \in Nat \ {0} /\ K \in Nat \ {0}
      /\ RacksOf(job.rack) = 1..K /\ Given = 1..Len(job.curr)
      /\ job.rack \in [Brokers -> 1..K]
  BY <1>1, JobFacts
<1>3. \A p \in 1..Len(desired) : \A r \in 1..N : desired[p][r] \in Brokers
  BY <1>1, NoHoles DEF TypeOK
<1>4. Share \in Nat /\ Len(desired) = Share * K
  <2>1. Share \in Nat
    BY <1>2, DivMod DEF Share
  <2> QED BY <1>1, <2>1 DEF Draining
<1>5. \A p \in 1..Len(desired) : job.rack[desired[p][1]] \in 1..K
  BY <1>2, <1>3
<1>6. /\ \E r \in 1..K : Leads(desired, job.rack, r) > Share
      /\ \E r \in 1..K : Leads(desired, job.rack, r) < Share
  <2> DEFINE n == Len(desired)
  <2>1. n \in Nat /\ n = Share * K /\ \A p \in 1..n : job.rack[desired[p][1]] \in 1..K
    BY <1>1, <1>2, <1>4, <1>5
  <2>2. Len(desired) = n
    OBVIOUS
  <2> HIDE DEF n
  <2> QED BY <1>2, <1>4, <2>1, <2>2, Unbalanced
<1>7. /\ From \in 1..K /\ To \in 1..K
      /\ \A r \in 1..K : LedNow(To) <= LedNow(r) /\ LedNow(From) >= LedNow(r)
  BY <1>1, <1>2, ExtremesAre DEF From, To, LedNow
<1>8. \A r : LedNow(r) \in Nat /\ Led(r) \in Nat
  <2> SUFFICES ASSUME NEW r PROVE LedNow(r) \in Nat /\ Led(r) \in Nat
    OBVIOUS
  <2>1. Len(desired) \in Nat /\ Len(job.curr) \in Nat
    BY <1>1, <1>2
  <2>2. LedNow(r) \in 0..Len(desired) /\ Led(r) \in 0..Len(job.curr)
    BY <2>1, LeadsAre DEF Led, LedNow
  <2> QED BY <2>2
<1>9. LedNow(From) > Share /\ LedNow(To) < Share
  BY <1>4, <1>6, <1>7, <1>8 DEF LedNow
<1>10. \A r \in 1..K : \/ Share <= LedNow(r) /\ LedNow(r) <= Led(r)
                       \/ Led(r) <= LedNow(r) /\ LedNow(r) <= Share
  BY <1>1 DEF Draining
<1>11. Led(From) > Share /\ Led(To) < Share
  BY <1>4, <1>7, <1>8, <1>9, <1>10
<1>12. FromPartitions # {}
  <2>1. LedNow(From) = Cardinality(FromPartitions)
    BY DEF LedNow, Leads, FromPartitions
  <2>2. FromPartitions = {} => Cardinality(FromPartitions) = 0
    BY FS_EmptySet
  <2> QED BY <1>4, <1>8, <1>9, <2>1, <2>2
<1>13. ASSUME NEW p \in FromPartitions PROVE p \in Given /\ desired[p] = job.curr[p]
  <2>1. p \in Given /\ InRackOf(p, 1) = From
    BY <1>1, <1>2 DEF FromPartitions, InRackOf
  <2>2. p \in Touched => Led(From) < Share
    BY <1>1, <2>1 DEF Draining, Moved
  <2>3. p \notin Touched
    BY <1>4, <1>8, <1>11, <2>2
  <2> QED BY <2>1, <2>3 DEF Touched
<1> QED BY <1>4, <1>7, <1>8, <1>9, <1>11, <1>12, <1>13

\* Partition p is now led by a broker of the rack with the fewest leaders.
Replaced(p, B) ==
    /\ B \in Seq(Seq(Brokers \cup {Hole})) /\ Len(B) = Len(desired)
    /\ \A q \in 1..Len(desired) : Len(B[q]) = N
    /\ \A q \in 1..Len(desired) : q # p => B[q] = desired[q]
    /\ \A r \in 1..N : B[p][r] \in Brokers
    /\ \A i, j \in 1..N : B[p][i] = B[p][j] => i = j
    /\ job.rack[B[p][1]] = To
    /\ \/ Members(B[p]) = Members(desired[p])
       \/ \A r \in 2..N : job.rack[desired[p][r]] # To

\* What the balancing assigner builds is whole, and N wide.
LEMMA Rows ==
    ASSUME IInv, outcome = "run", Balancing
    PROVE  /\ JobOK(job) /\ N \in Nat \ {0} /\ Len(desired) \in Nat /\ Hole \notin Brokers
           /\ desired \in Seq(Seq(Brokers \cup {Hole}))
           /\ \A q \in 1..Len(desired) : Len(desired[q]) = N /\ DOMAIN desired[q] = 1..N
           /\ \A q \in 1..Len(desired) : \A r \in 1..N : desired[q][r] \in Brokers
           /\ \A q \in 1..Len(desired) : \A i, j \in 1..N :
                 desired[q][i] = desired[q][j] => i = j
<1>1. TypeOK /\ Grid /\ JobOK(job) /\ Width(desired) = N /\ HolesOf(desired) = {}
  BY DEF IInv, TypeOK, Grid, Balancing
<1>2. \A q \in 1..Len(desired) : \A r \in 1..N : desired[q][r] \in Brokers
  BY <1>1, NoHoles
<1>3. Hole \notin Brokers /\ N \in Nat \ {0}
  BY <1>1, JobFacts
<1> QED BY <1>1, <1>2, <1>3, DesiredFacts

\* A new leader in the place of the old one.
LEMMA NewLeader ==
    ASSUME IInv, outcome = "run", Balancing, Swappable = {},
           NEW p \in FromPartitions, NEW b \in PickNew(desired, p, 1, InThe(job.rack, To))
    PROVE  Replaced(p, [desired EXCEPT ![p][1] = b])
<1> DEFINE B == Put(desired, p, 1, b)
           T == Brokers \cup {Hole}
<1>1. /\ N \in Nat \ {0} /\ Len(desired) \in Nat /\ desired \in Seq(Seq(T))
      /\ \A q \in 1..Len(desired) : Len(desired[q]) = N /\ DOMAIN desired[q] = 1..N
      /\ \A q \in 1..Len(desired) : \A r \in 1..N : desired[q][r] \in Brokers
      /\ \A q \in 1..Len(desired) : \A i, j \in 1..N :
            desired[q][i] = desired[q][j] => i = j
  BY Rows
<1>2. b \in Brokers /\ job.rack[b] = To /\ b \notin Members(desired[p])
  BY <1>1, PickIs DEF Feasible, InThe
<1>3. p \in 1..Len(desired) /\ 1 \in 1..Len(desired[p]) /\ b \in T
  BY <1>1, <1>2 DEF FromPartitions
<1>4. desired \in Seq(Seq(T))
  BY <1>1
<1> HIDE DEF T
<1>5. Placed(T, desired, p, 1, b, B)
  BY <1>3, <1>4, PutIs
<1>6. [desired EXCEPT ![p][1] = b] = B
  BY DEF Put
<1> HIDE DEF B
<1>7. /\ B \in Seq(Seq(T)) /\ Len(B) = Len(desired)
      /\ \A q \in 1..Len(desired) : Len(B[q]) = N
      /\ \A q \in 1..Len(desired) : q # p => B[q] = desired[q]
      /\ B[p][1] = b /\ \A s \in 1..N : s # 1 => B[p][s] = desired[p][s]
  BY <1>1, <1>3, <1>5 DEF Placed
<1>8. \A s \in 1..N : desired[p][s] # b /\ B[p][s] \in Brokers
  BY <1>1, <1>2, <1>3, <1>7 DEF Members
<1>9. ASSUME NEW i \in 1..N, NEW j \in 1..N, B[p][i] = B[p][j] PROVE i = j
  <2>1. CASE i = 1 \/ j = 1
    BY <1>7, <1>8, <1>9, <2>1
  <2>2. CASE i # 1 /\ j # 1
    BY <1>1, <1>3, <1>7, <1>9, <2>2
  <2> QED BY <2>1, <2>2
<1>10. \A r \in 2..N : job.rack[desired[p][r]] # To
  BY <1>1, <1>3 DEF Swappable, Followers
<1> QED BY <1>2, <1>6, <1>7, <1>8, <1>9, <1>10 DEF Replaced, T

\* The first follower in that rack and the leader change places.
LEMMA FollowerLeads ==
    ASSUME IInv, outcome = "run", Balancing, NEW p \in Swappable
    PROVE  Replaced(p, SwappedIn(p))
<1> DEFINE r == Least(Followers(p))
           T == Brokers \cup {Hole}
           A == Put(desired, p, 1, desired[p][r])
           B == Put(A, p, r, desired[p][1])
<1>1. /\ N \in Nat \ {0} /\ Len(desired) \in Nat /\ desired \in Seq(Seq(T))
      /\ \A q \in 1..Len(desired) : Len(desired[q]) = N /\ DOMAIN desired[q] = 1..N
      /\ \A q \in 1..Len(desired) : \A s \in 1..N : desired[q][s] \in Brokers
      /\ \A q \in 1..Len(desired) : \A i, j \in 1..N :
            desired[q][i] = desired[q][j] => i = j
  BY Rows
<1>2. p \in 1..Len(desired) /\ Followers(p) # {}
  BY DEF Swappable, FromPartitions
<1>3. r \in 2..N /\ job.rack[desired[p][r]] = To
  <2>1. Followers(p) \subseteq Nat
    BY <1>1, <1>2 DEF Followers
  <2>2. r \in Followers(p)
    BY <1>2, <2>1, LeastIs
  <2> QED BY <1>1, <1>2, <2>2 DEF Followers
<1>4. SwappedIn(p) = B
  BY DEF SwappedIn, Put
<1> HIDE DEF r
<1>5. /\ desired[p][r] \in T /\ desired[p][1] \in T /\ 1 \in 1..Len(desired[p])
      /\ r \in 1..Len(desired[p]) /\ r # 1 /\ r \in 1..N /\ 1 \in 1..N
  <2>1. r # 1 /\ r \in 1..N /\ 1 \in 1..N
    BY <1>1, <1>3
  <2>2. Len(desired[p]) = N
    BY <1>1, <1>2
  <2>3. desired[p][r] \in Brokers /\ desired[p][1] \in Brokers
    BY <1>1, <1>2, <2>1
  <2> QED BY <2>1, <2>2, <2>3
<1>6. desired \in Seq(Seq(T))
  BY <1>1
<1> HIDE DEF T, A, B
<1>7. Placed(T, desired, p, 1, desired[p][r], A)
  BY <1>2, <1>5, <1>6, PutIs DEF A
<1>8. /\ A \in Seq(Seq(T)) /\ p \in 1..Len(A) /\ r \in 1..Len(A[p])
  BY <1>2, <1>5, <1>7 DEF Placed
<1>9. Placed(T, A, p, r, desired[p][1], B)
  BY <1>5, <1>8, PutIs DEF B
<1>10. /\ B \in Seq(Seq(T)) /\ Len(B) = Len(desired)
       /\ \A q \in 1..Len(desired) : Len(B[q]) = N
       /\ \A q \in 1..Len(desired) : q # p => B[q] = desired[q]
  BY <1>1, <1>7, <1>9 DEF Placed
<1>11. /\ B[p][1] = desired[p][r] /\ B[p][r] = desired[p][1]
       /\ \A s \in 1..N : s # 1 /\ s # r => B[p][s] = desired[p][s]
  BY <1>1, <1>2, <1>5, <1>7, <1>9 DEF Placed
<1>12. \A s \in 1..N : B[p][s] \in Brokers
  BY <1>1, <1>2, <1>5, <1>11
<1> DEFINE from(s) == IF s = 1 THEN r ELSE IF s = r THEN 1 ELSE s
<1>13. \A s \in 1..N : B[p][s] = desired[p][from(s)] /\ from(s) \in 1..N /\ from(from(s)) = s
  BY <1>5, <1>11
<1> HIDE DEF from
<1>14. \A i, j \in 1..N : B[p][i] = B[p][j] => i = j
  <2> SUFFICES ASSUME NEW i \in 1..N, NEW j \in 1..N, B[p][i] = B[p][j] PROVE i = j
    OBVIOUS
  <2>1. from(i) = from(j)
    BY <1>1, <1>2, <1>13
  <2> QED BY <1>13, <2>1
<1>15. Members(B[p]) = Members(desired[p])
  <2>1. DOMAIN B[p] = 1..N /\ DOMAIN desired[p] = 1..N
    <3>1. B[p] \in Seq(T)
      BY <1>2, <1>10, ElementOfSeq
    <3> QED BY <1>1, <1>2, <1>10, <3>1, LenProperties
  <2>2. \A x : (\E s \in 1..N : B[p][s] = x) <=> (\E s \in 1..N : desired[p][s] = x)
    BY <1>13
  <2> QED BY <2>1, <2>2 DEF Members
<1> QED BY <1>3, <1>4, <1>10, <1>11, <1>12, <1>14, <1>15 DEF Replaced, T

\* There is always a way to take a leadership from that rack.
LEMMA ReplacementsAre ==
    ASSUME IInv, outcome = "run", Balancing, ~Balanced(desired, job.rack)
    PROVE  /\ Replacements # {}
           /\ \A B \in Replacements : \E p \in FromPartitions : Replaced(p, B)
<1>1. /\ JobOK(job) /\ N \in Nat \ {0} /\ Len(desired) \in Nat
      /\ \A q \in 1..Len(desired) : Len(desired[q]) = N /\ DOMAIN desired[q] = 1..N
      /\ \A q \in 1..Len(desired) : \A r \in 1..N : desired[q][r] \in Brokers
  BY Rows
<1>2. /\ From \in 1..K /\ To \in 1..K /\ From # To /\ FromPartitions # {}
      /\ FromPartitions \subseteq 1..Len(desired)
  BY FromAndTo DEF FromPartitions
<1>3. CASE Swappable # {}
  <2>1. Replacements = {SwappedIn(p) : p \in Foremost(desired, 1, Swappable)}
    BY <1>3 DEF Replacements
  <2>2. /\ Foremost(desired, 1, Swappable) \subseteq Swappable
        /\ Foremost(desired, 1, Swappable) # {}
    BY <1>1, <1>3, ForemostIs
  <2>3. \A p \in Swappable : p \in FromPartitions /\ Replaced(p, SwappedIn(p))
    BY FollowerLeads DEF Swappable
  <2> QED BY <2>1, <2>2, <2>3
<1>4. CASE Swappable = {}
  <2> DEFINE Picks(p) == PickNew(desired, p, 1, InThe(job.rack, To))
             Ones(p) == {[desired EXCEPT ![p][1] = b] : b \in Picks(p)}
  <2>1. Replacements = UNION {Ones(p) : p \in Foremost(desired, 1, FromPartitions)}
    BY <1>4 DEF Replacements
  <2>2. /\ Foremost(desired, 1, FromPartitions) \subseteq FromPartitions
        /\ Foremost(desired, 1, FromPartitions) # {}
    BY <1>1, <1>2, ForemostIs
  <2>3. ASSUME NEW p \in FromPartitions PROVE Picks(p) # {}
    <3>1. PICK b \in Brokers : job.rack[b] = To
      BY <1>1, <1>2, JobFacts DEF RacksOf
    <3>2. \A r \in 1..N : job.rack[desired[p][r]] # To
      <4> SUFFICES ASSUME NEW r \in 1..N PROVE job.rack[desired[p][r]] # To
        OBVIOUS
      <4>1. CASE r = 1
        BY <1>2, <4>1 DEF FromPartitions
      <4>2. CASE r # 1
        BY <1>1, <1>2, <1>4, <4>2 DEF Swappable, Followers
      <4> QED BY <4>1, <4>2
    <3>3. b \notin Members(desired[p])
      BY <1>1, <1>2, <3>1, <3>2 DEF Members
    <3>4. b \in Feasible(desired, p, InThe(job.rack, To))
      BY <3>1, <3>3 DEF Feasible, InThe
    <3> QED BY <1>1, <3>4, PickIs
  <2>4. \A p \in FromPartitions : \A b \in Picks(p) : Replaced(p, [desired EXCEPT ![p][1] = b])
    BY <1>4, NewLeader
  <2>5. \A p \in FromPartitions : Ones(p) # {} /\ \A B \in Ones(p) : Replaced(p, B)
    BY <2>3, <2>4
  <2> HIDE DEF Picks, Ones
  <2> QED BY <2>1, <2>2, <2>5
<1> QED BY <1>3, <1>4

\* A leadership goes from a rack above its share to one below, in a partition
\* that had not been touched: so there are no more loops than partitions.
LEMMA ReplaceLeaderKeeps ==
    ASSUME IInv, ReplaceLeader
    PROVE  IInv'
<1>1. /\ outcome = "run" /\ Balancing /\ ~Balanced(desired, job.rack)
      /\ loops' = loops + 1 /\ UNCHANGED <<job, index>>
  BY DEF ReplaceLeader
<1>2. /\ Replacements # {}
      /\ \A B \in Replacements : \E p \in FromPartitions : Replaced(p, B)
  BY <1>1, ReplacementsAre
<1>3. /\ desired' \in Replacements
      /\ outcome' = IF loops' > MaxLoops THEN "too-many-loops" ELSE "run"
  BY <1>2 DEF ReplaceLeader
<1>4. PICK p \in FromPartitions : Replaced(p, desired')
  BY <1>2, <1>3
<1>5. /\ From \in 1..K /\ To \in 1..K /\ From # To
      /\ LedNow(From) > Share /\ LedNow(To) < Share
      /\ Led(From) > Share /\ Led(To) < Share
      /\ p \in Given /\ desired[p] = job.curr[p]
  BY <1>1, FromAndTo
<1>6. /\ JobOK(job) /\ N \in Nat \ {0} /\ Len(desired) \in Nat /\ Hole \notin Brokers
      /\ \A q \in 1..Len(desired) : Len(desired[q]) = N
      /\ \A q \in 1..Len(desired) : \A r \in 1..N : desired[q][r] \in Brokers
      /\ \A q \in 1..Len(desired) : \A i, j \in 1..N : desired[q][i] = desired[q][j] => i = j
  BY <1>1, Rows
<1>7. /\ Len(job.curr) \in Nat \ {0} /\ K \in Nat \ {0} /\ Given = 1..Len(job.curr)
  BY <1>6, JobFacts
<1>8. /\ job.op = "assign" /\ Strategy = "balanced-leaders" /\ Begun
      /\ TypeOK /\ Grid /\ Grown /\ Assigned /\ Draining
      /\ Len(desired) = Len(job.curr) /\ loops <= MaxLoops /\ loops \in Nat
  BY <1>1 DEF Balancing, IInv, Begun, Grown, Untouched, TypeOK
<1>9. /\ desired' \in Seq(Seq(Brokers \cup {Hole})) /\ Len(desired') = Len(desired)
      /\ \A q \in 1..Len(desired) : Len((desired')[q]) = N
      /\ \A q \in 1..Len(desired) : q # p => (desired')[q] = desired[q]
      /\ \A r \in 1..N : (desired')[p][r] \in Brokers
      /\ \A i, j \in 1..N : (desired')[p][i] = (desired')[p][j] => i = j
      /\ job.rack[(desired')[p][1]] = To
      /\ \/ Members((desired')[p]) = Members(desired[p])
         \/ \A r \in 2..N : job.rack[desired[p][r]] # To
  BY <1>4 DEF Replaced
<1>10. /\ Strategy' = Strategy /\ N' = N /\ K' = K /\ Given' = Given /\ Share' = Share
       /\ Refused' = Refused /\ Balancing'
       /\ \A r : Led(r)' = Led(r)
  BY <1>1 DEF Strategy, N, K, Given, Share, Refused, TooSmall, Balancing, Led
<1>11. \A q \in 1..Len(desired) : \A r \in 1..N : (desired')[q][r] \in Brokers
  <2> SUFFICES ASSUME NEW q \in 1..Len(desired), NEW r \in 1..N
               PROVE  (desired')[q][r] \in Brokers
    OBVIOUS
  <2>1. CASE q = p
    BY <1>9, <2>1
  <2>2. CASE q # p
    BY <1>6, <1>9, <2>2
  <2> QED BY <2>1, <2>2
<1>12. HolesOf(desired') = {}
  <2>1. \A q \in 1..Len(desired') : \A r \in 1..Len((desired')[q]) : (desired')[q][r] # Hole
    BY <1>6, <1>9, <1>11
  <2> QED BY <2>1, HolesAre
<1>13. Grid'
  <2>1. desired' # << >> /\ Width(desired') = N
    BY <1>7, <1>8, <1>9 DEF Width
  <2>2. \A q \in 1..Len(desired') : Len((desired')[q]) = N
    BY <1>9
  <2>3. \A q \in 1..Len(desired') : \A i, j \in 1..N :
           (desired')[q][i] = (desired')[q][j] /\ (desired')[q][i] # Hole => i = j
    <3> SUFFICES ASSUME NEW q \in 1..Len(desired), NEW i \in 1..N, NEW j \in 1..N
                 PROVE  (desired')[q][i] = (desired')[q][j] => i = j
      BY <1>9
    <3>1. CASE q = p
      BY <1>9, <3>1
    <3>2. CASE q # p
      BY <1>6, <1>9, <3>2
    <3> QED BY <3>1, <3>2
  <2>4. \A q \in 1..Len(desired') : \A i, j \in 1..Len((desired')[q]) :
           (desired')[q][i] = (desired')[q][j] /\ (desired')[q][i] # Hole => i = j
    BY <2>2, <2>3
  <2> QED BY <1>10, <2>1, <2>2, <2>4 DEF Grid, Width
<1>14. /\ loops' \in 0..(MaxLoops + 1) /\ outcome' \in {"run", "too-many-loops"}
       /\ outcome' = "run" => loops' <= MaxLoops
       /\ outcome' = "too-many-loops" => loops' > MaxLoops
  <2>1. MaxLoops \in Nat
    BY LoopsAssumption
  <2>2. loops \in Nat /\ loops <= MaxLoops /\ loops' = loops + 1
    BY <1>1, <1>8
  <2>3. CASE loops' > MaxLoops
    BY <1>3, <2>1, <2>2, <2>3
  <2>4. CASE ~(loops' > MaxLoops)
    BY <1>3, <2>1, <2>2, <2>4
  <2> QED BY <2>3, <2>4
<1>15. TypeOK'
  BY <1>1, <1>8, <1>9, <1>10, <1>12, <1>14 DEF TypeOK, Ended, Failures
<1>16. Grown'
  BY <1>1, <1>8, <1>9 DEF Grown
<1>17. Untouched'
  BY <1>1, <1>8, <1>10, <1>14 DEF IInv, Untouched, Begun
<1>18. Assigned'
  BY <1>1, <1>8, <1>10 DEF Assigned
<1>19. /\ IsFiniteSet(Touched) /\ Cardinality(Touched) \in Nat
       /\ Cardinality(Touched') = Cardinality(Touched) + 1
       /\ Cardinality(Touched') <= Len(desired)
       /\ Touched' = Touched \cup {p}
  <2>1. p \notin Touched
    BY <1>5 DEF Touched
  <2>2. (desired')[p] # job.curr[p]
    <3>1. job.rack[job.curr[p][1]] = From
      BY <1>5 DEF FromPartitions
    <3> QED BY <1>5, <1>9, <3>1
  <2>3. Touched' = Touched \cup {p}
    BY <1>1, <1>5, <1>7, <1>8, <1>9, <1>10, <2>2 DEF Touched
  <2>4. IsFiniteSet(Touched) /\ Cardinality(Touched) \in 0..Len(desired)
    <3>1. Touched \subseteq 1..Len(desired)
      BY <1>7, <1>8 DEF Touched
    <3> QED BY <1>6, <3>1, SomeOf
  <2>5. Cardinality(Touched') = Cardinality(Touched) + 1
    BY <2>1, <2>3, <2>4, FS_AddElement
  <2>6. Cardinality(Touched') \in 0..Len(desired)
    <3>1. Touched' \subseteq 1..Len(desired)
      BY <1>7, <1>8, <1>10 DEF Touched
    <3> QED BY <1>6, <3>1, SomeOf
  <2> QED BY <1>6, <2>3, <2>4, <2>5, <2>6
<1>20. \A r : LedNow(r)' = LedNow(r) + (IF To = r THEN 1 ELSE 0) - (IF From = r THEN 1 ELSE 0)
  <2> SUFFICES ASSUME NEW r
               PROVE  LedNow(r)' = LedNow(r) + (IF To = r THEN 1 ELSE 0)
                                      - (IF From = r THEN 1 ELSE 0)
    OBVIOUS
  <2>1. p \in 1..Len(desired) /\ job.rack[desired[p][1]] = From
    BY DEF FromPartitions
  <2>2. \A q \in 1..Len(desired) : q # p => (desired')[q][1] = desired[q][1]
    BY <1>9
  <2>3. Leads(desired', job.rack, r)
           = Leads(desired, job.rack, r) + Counts(desired', job.rack, p, r)
                - Counts(desired, job.rack, p, r)
    BY <1>6, <1>9, <2>1, <2>2, LeadsChange
  <2> QED BY <1>1, <1>9, <2>1, <2>3 DEF LedNow, Counts
<1>21. Draining'
  <2>1. Share \in Nat
    BY <1>7, DivMod DEF Share
  <2>2. \A r : LedNow(r) \in Nat /\ Led(r) \in Nat
    <3> SUFFICES ASSUME NEW r PROVE LedNow(r) \in Nat /\ Led(r) \in Nat
      OBVIOUS
    <3>1. Len(desired) \in Nat /\ Len(job.curr) \in Nat
      BY <1>6, <1>7
    <3>2. LedNow(r) \in 0..Len(desired) /\ Led(r) \in 0..Len(job.curr)
      BY <3>1, LeadsAre DEF Led, LedNow
    <3> QED BY <3>2
  <2>3. ASSUME NEW r \in 1..K
        PROVE  \/ Share <= LedNow(r)' /\ LedNow(r)' <= Led(r)
               \/ Led(r) <= LedNow(r)' /\ LedNow(r)' <= Share
    <3>1. \/ Share <= LedNow(r) /\ LedNow(r) <= Led(r)
          \/ Led(r) <= LedNow(r) /\ LedNow(r) <= Share
      BY <1>1, <1>8 DEF Draining
    <3>2. CASE r = From
      BY <1>5, <1>20, <2>1, <2>2, <3>1, <3>2
    <3>3. CASE r = To
      BY <1>5, <1>20, <2>1, <2>2, <3>1, <3>3
    <3>4. CASE r # From /\ r # To
      BY <1>20, <2>2, <3>1, <3>4
    <3> QED BY <3>2, <3>3, <3>4
  <2>4. ASSUME NEW q \in Touched' PROVE Moved(q)'
    <3>1. CASE q # p
      <4>1. q \in Touched /\ q \in 1..Len(desired) /\ (desired')[q] = desired[q]
        BY <1>7, <1>8, <1>9, <1>19, <3>1 DEF Touched
      <4>2. Moved(q)
        BY <1>1, <1>8, <4>1 DEF Draining
      <4>3. InRackOf(q, 1)' = InRackOf(q, 1)
        BY <1>1, <4>1 DEF InRackOf
      <4> QED BY <1>1, <1>10, <4>1, <4>2, <4>3 DEF Moved
    <3>2. CASE q = p
      <4>1. InRackOf(p, 1)' = To /\ job.rack[job.curr[p][1]] = From
        BY <1>1, <1>5, <1>9 DEF InRackOf, FromPartitions
      <4> QED BY <1>1, <1>5, <1>9, <1>10, <3>2, <4>1 DEF Moved
    <3> QED BY <3>1, <3>2
  <2>5. loops' <= Cardinality(Touched')
    BY <1>1, <1>8, <1>19 DEF Draining
  <2> QED BY <1>1, <1>8, <1>10, <2>3, <2>4, <2>5 DEF Draining
<1>22. FailsOnlyForWant'
  <2>1. loops <= Cardinality(Touched)
    BY <1>1, <1>8 DEF Draining
  <2>2. loops' <= Len(desired)
    BY <1>1, <1>6, <1>8, <1>19, <2>1
  <2>3. outcome' = "too-many-loops" => Len(desired') > MaxLoops
    <3>1. MaxLoops \in Nat /\ loops' \in Nat
      BY <1>1, <1>8, LoopsAssumption
    <3>2. Len(desired) \in Nat /\ Len(desired') = Len(desired)
      BY <1>6, <1>9
    <3> QED BY <1>14, <2>2, <3>1, <3>2
  <2> QED BY <1>14, <2>3 DEF FailsOnlyForWant
<1>23. Extending' /\ Rebalanced' /\ Returned'
  BY <1>1, <1>3, <1>8 DEF Extending, Rebalanced, Returned
<1> QED BY <1>13, <1>15, <1>16, <1>17, <1>18, <1>21, <1>22, <1>23 DEF IInv

-----------------------------------------------------------------------------
(***************************************************************************)
(* Replacing brokers.                                                      *)
(***************************************************************************)
\* What a rebalancing call has built: whole, N replicas each.
LEMMA RebalanceFacts ==
    ASSUME IInv, Rebalancing
    PROVE  /\ JobOK(job) /\ N \in Nat \ {0} /\ Len(desired) \in Nat \ {0}
           /\ Hole \notin Brokers /\ IsFiniteSet(Brokers) /\ BrokerCount \in Nat
           /\ desired \in Seq(Seq(Brokers \cup {Hole})) /\ Width(desired) = N
           /\ \A q \in 1..Len(desired) : Len(desired[q]) = N /\ DOMAIN desired[q] = 1..N
           /\ \A q \in 1..Len(desired) : \A r \in 1..N : desired[q][r] \in Brokers
           /\ \A q \in 1..Len(desired) : \A i, j \in 1..N :
                 desired[q][i] = desired[q][j] => i = j
<1>1. TypeOK /\ Grid /\ JobOK(job) /\ Width(desired) = N /\ HolesOf(desired) = {}
  BY DEF IInv, TypeOK, Grid, Rebalancing
<1>2. \A q \in 1..Len(desired) : \A r \in 1..N : desired[q][r] \in Brokers
  BY <1>1, NoHoles
<1>3. Hole \notin Brokers /\ N \in Nat \ {0} /\ IsFiniteSet(Brokers)
  BY <1>1, JobFacts
<1>4. BrokerCount \in Nat
  BY <1>3, FS_CardinalityType DEF BrokerCount
<1> QED BY <1>1, <1>2, <1>3, <1>4, DesiredFacts

\* An order names each broker once, and the lower part is of brokers.
LEMMA OrderIs ==
    ASSUME IInv, Rebalancing, NEW order \in Orders
    PROVE  /\ order \in [1..BrokerCount -> Brokers] /\ Len(order) = BrokerCount /\ DOMAIN order = 1..BrokerCount
           /\ \A b \in Brokers : \E i \in 1..BrokerCount : order[i] = b
           /\ \A i, j \in 1..BrokerCount : order[i] = order[j] => i = j
           /\ \A i, j \in 1..BrokerCount : i < j => ~Smaller(order[j], order[i])
           /\ UpperFrom(order) \in 1..(BrokerCount + 1)
           /\ \A i \in 1..BrokerCount : i > BrokerCount \div 2 /\ AtIndex(order[i]) > 0 =>
                 UpperFrom(order) <= i /\ UpperFrom(order) > BrokerCount \div 2
<1>1. /\ order \in [1..BrokerCount -> Brokers] /\ Members(order) = Brokers
      /\ \A i, j \in DOMAIN order : i < j => ~Smaller(order[j], order[i])
  BY DEF Orders, BrokerCount
<1>2. BrokerCount \in Nat /\ IsFiniteSet(Brokers)
  BY RebalanceFacts
<1>3. DOMAIN order = 1..BrokerCount /\ Len(order) = BrokerCount
  BY <1>1, <1>2, LenProperties, IsASeq
<1>4. \A b \in Brokers : \E i \in 1..BrokerCount : order[i] = b
  BY <1>1, <1>3 DEF Members
<1>5. \A i, j \in 1..BrokerCount : order[i] = order[j] => i = j
  <2>1. order \in Surjection(1..BrokerCount, Brokers)
    BY <1>1, <1>4, Fun_IsSurj
  <2>2. IsFiniteSet(1..BrokerCount) /\ Cardinality(1..BrokerCount) = Cardinality(Brokers)
    BY <1>2, Upto DEF BrokerCount
  <2>3. order \in Injection(1..BrokerCount, Brokers)
    BY <2>1, <2>2, FS_SurjSameCardinalityImpliesInj
  <2> QED BY <1>3, <2>3 DEF Injection, IsInjective
<1> DEFINE upper == {i \in 1..BrokerCount : i > BrokerCount \div 2 /\ AtIndex(order[i]) > 0}
           S == {BrokerCount + 1} \cup upper
<1>6. UpperFrom(order) = Least(S)
  BY <1>3 DEF UpperFrom
<1>7. S \subseteq Nat /\ S # {} /\ S \subseteq 1..(BrokerCount + 1)
  BY <1>2
<1> HIDE DEF S
<1>8. Least(S) \in S /\ \A y \in S : Least(S) <= y
  BY <1>7, LeastIs
<1>9. BrokerCount \div 2 <= BrokerCount /\ BrokerCount \div 2 \in Nat
  BY <1>2
<1>10. \A s \in S : s > BrokerCount \div 2
  BY <1>2, <1>9 DEF S
<1>11. UpperFrom(order) \in 1..(BrokerCount + 1)
  BY <1>6, <1>7, <1>8
<1>12. \A i \in 1..BrokerCount : i > BrokerCount \div 2 /\ AtIndex(order[i]) > 0 =>
          UpperFrom(order) <= i /\ UpperFrom(order) > BrokerCount \div 2
  <2>1. \A i \in 1..BrokerCount : i > BrokerCount \div 2 /\ AtIndex(order[i]) > 0 => i \in S
    BY DEF S
  <2> QED BY <1>6, <1>8, <1>10, <2>1
<1>13. \A i, j \in 1..BrokerCount : i < j => ~Smaller(order[j], order[i])
  BY <1>1, <1>3
<1> QED BY <1>1, <1>3, <1>4, <1>5, <1>11, <1>12, <1>13

\* What a replacement gives: one broker in the place of another.
LEMMA ResultsAre ==
    ASSUME IInv, Rebalancing, index \in 1..N, NEW low, NEW high, NEW A \in Results(low, high)
    PROVE  /\ EvaluateAssignments(A, job.rack, job.goal)
           /\ \E p \in 1..Len(desired) : desired[p][index] = high /\ A = Put(desired, p, index, low)
BY DEF Results, Put

\* A swap puts one broker in one place, and keeps the strategy.
LEMMA SwapIs ==
    ASSUME IInv, Swap
    PROVE  /\ EvaluateAssignments(desired', job.rack, job.goal)
           /\ \E low \in Brokers : \E p \in 1..Len(desired) :
                 desired' = Put(desired, p, index, low)
<1>1. Rebalancing /\ index \in 1..N /\ desired' \in AllSwaps
  <2>1. index \in 1..(N + 1) /\ index <= N /\ Rebalancing /\ desired' \in AllSwaps
    BY DEF IInv, TypeOK, Swap
  <2>2. N \in Nat
    BY <2>1, RebalanceFacts
  <2> QED BY <2>1, <2>2
<1>2. PICK order \in Orders : desired' \in Swaps(order)
  BY <1>1 DEF AllSwaps
<1>3. PICK pair \in (1..(UpperFrom(order) - 1)) \X (UpperFrom(order)..Len(order)) :
         desired' \in Tried(order[pair[1]], order[pair[2]])
  BY <1>2 DEF Swaps
<1>4. order[pair[1]] \in Brokers
  <2>1. /\ order \in [1..BrokerCount -> Brokers] /\ UpperFrom(order) \in 1..(BrokerCount + 1) /\ BrokerCount \in Nat
    BY <1>1, OrderIs, RebalanceFacts
  <2>2. pair[1] \in 1..(UpperFrom(order) - 1)
    BY <1>3
  <2>3. pair[1] \in 1..BrokerCount
    BY <2>1, <2>2
  <2> QED BY <2>1, <2>3
<1>5. desired' \in Results(order[pair[1]], order[pair[2]])
  BY <1>3 DEF Tried
<1> DEFINE low == order[pair[1]]
           high == order[pair[2]]
<1> HIDE DEF low, high
<1>6. low \in Brokers /\ desired' \in Results(low, high)
  BY <1>4, <1>5 DEF low, high
<1> QED BY <1>1, <1>6, ResultsAre

\* The rebalancer swaps a broker; the positions before it stay as they are.
LEMMA SwapKeeps ==
    ASSUME IInv, Swap
    PROVE  IInv'
<1>1. /\ Rebalancing /\ index <= N /\ UNCHANGED <<job, index, loops, outcome>>
  BY DEF Swap
<1>2. /\ outcome = "run" /\ job.op = "rebalance" /\ Begun /\ ~Balancing
      /\ TypeOK /\ Grid /\ Grown /\ Rebalanced
  BY <1>1 DEF Rebalancing, IInv, Begun, Balancing
<1>3. /\ JobOK(job) /\ N \in Nat \ {0} /\ Len(desired) \in Nat \ {0}
      /\ Hole \notin Brokers
      /\ desired \in Seq(Seq(Brokers \cup {Hole}))
      /\ \A q \in 1..Len(desired) : Len(desired[q]) = N
      /\ \A q \in 1..Len(desired) : \A r \in 1..N : desired[q][r] \in Brokers
  BY <1>1, RebalanceFacts
<1>4. index \in 1..N
  BY <1>1, <1>2, <1>3 DEF TypeOK
<1>5. EvaluateAssignments(desired', job.rack, job.goal)
  BY SwapIs
<1>6. PICK low \in Brokers : \E p \in 1..Len(desired) : desired' = Put(desired, p, index, low)
  BY SwapIs
<1>7. PICK p \in 1..Len(desired) : desired' = Put(desired, p, index, low)
  BY <1>6
<1> DEFINE T == Brokers \cup {Hole}
<1>8. desired \in Seq(Seq(T)) /\ p \in 1..Len(desired) /\ index \in 1..Len(desired[p]) /\ low \in T
  BY <1>3, <1>4
<1> HIDE DEF T
<1>9. Placed(T, desired, p, index, low, desired')
  BY <1>7, <1>8, PutIs
<1>10. /\ desired' \in Seq(Seq(Brokers \cup {Hole})) /\ Len(desired') = Len(desired)
       /\ \A q \in 1..Len(desired) : Len((desired')[q]) = N
       /\ \A q \in 1..Len(desired) : q # p => (desired')[q] = desired[q]
       /\ (desired')[p][index] = low
       /\ \A s \in 1..N : s # index => (desired')[p][s] = desired[p][s]
  BY <1>3, <1>9 DEF Placed, T
<1>11. \A q \in 1..Len(desired) : \A r \in 1..N : (desired')[q][r] \in Brokers
  <2> SUFFICES ASSUME NEW q \in 1..Len(desired), NEW r \in 1..N
               PROVE  (desired')[q][r] \in Brokers
    OBVIOUS
  <2>1. CASE q # p \/ r # index
    BY <1>3, <1>10, <2>1
  <2>2. CASE q = p /\ r = index
    BY <1>10, <2>2
  <2> QED BY <2>1, <2>2
<1>12. HolesOf(desired') = {}
  <2>1. \A q \in 1..Len(desired') : \A r \in 1..Len((desired')[q]) : (desired')[q][r] # Hole
    BY <1>3, <1>10, <1>11
  <2> QED BY <2>1, HolesAre
<1>13. TypeOK'
  BY <1>1, <1>2, <1>10, <1>12 DEF TypeOK, N
<1>14. Grid'
  <2>1. desired' # << >> /\ Width(desired') = N /\ N' = N
    BY <1>1, <1>3, <1>10 DEF Width, N
  <2>2. \A q \in 1..Len(desired') : Len((desired')[q]) = N
    BY <1>10
  <2>3. NoRepeats(desired')
    BY <1>5 DEF EvaluateAssignments, CheckAssignments
  <2>4. \A q \in 1..Len(desired') : \A i, j \in 1..Len((desired')[q]) :
           (desired')[q][i] = (desired')[q][j] /\ (desired')[q][i] # Hole => i = j
    BY <2>3 DEF NoRepeats
  <2> QED BY <2>1, <2>2, <2>4 DEF Grid, Width
<1>15. Grown' /\ Untouched'
  BY <1>1, <1>2, <1>10 DEF IInv, Grown, Untouched, Begun, Balancing, Strategy
<1>16. Rebalanced'
  <2>1. ASSUME Strategy = "any" /\ N <= Cardinality(Brokers) \div 2,
               NEW q \in 1..Len(desired), NEW i \in 1..(index - 1)
        PROVE  ~Removed((desired')[q][i])
    <3>1. i \in 1..N /\ i # index
      BY <1>3, <1>4
    <3>2. (desired')[q][i] = desired[q][i]
      BY <1>10, <3>1
    <3> QED BY <1>2, <2>1, <3>2 DEF Rebalanced
  <2>2. \A b : Removed(b)' = Removed(b)
    BY <1>1 DEF Removed
  <2>3. /\ EvaluateAssignments(desired, job.rack, job.goal)'
        /\ Strategy' = Strategy /\ N' = N
    BY <1>1, <1>5 DEF Strategy, N
  <2> QED BY <1>1, <1>2, <1>10, <2>1, <2>2, <2>3 DEF Rebalanced
<1>17. Assigned' /\ Extending' /\ Draining' /\ Returned' /\ FailsOnlyForWant'
  BY <1>1, <1>2 DEF Assigned, Extending, Draining, Balancing, Returned, FailsOnlyForWant
<1> QED BY <1>13, <1>14, <1>15, <1>16, <1>17 DEF IInv

\* On "any", when half of the brokers are enough for a partition, a removed
\* broker at the index can be replaced in every order.
LEMMA RemovalsFound ==
    ASSUME IInv, Rebalancing, index \in 1..N, Strategy = "any", N <= BrokerCount \div 2,
           NEW q \in 1..Len(desired), Removed(desired[q][index]),
           NEW order \in Orders
    PROVE  Swaps(order) # {}
<1>1. /\ JobOK(job) /\ N \in Nat \ {0} /\ Len(desired) \in Nat \ {0}
      /\ Hole \notin Brokers /\ IsFiniteSet(Brokers) /\ BrokerCount \in Nat
      /\ desired \in Seq(Seq(Brokers \cup {Hole})) /\ Width(desired) = N
      /\ \A p \in 1..Len(desired) : Len(desired[p]) = N /\ DOMAIN desired[p] = 1..N
      /\ \A p \in 1..Len(desired) : \A r \in 1..N : desired[p][r] \in Brokers
      /\ \A p \in 1..Len(desired) : \A i, j \in 1..N :
            desired[p][i] = desired[p][j] => i = j
  BY RebalanceFacts
<1>2. /\ order \in [1..BrokerCount -> Brokers] /\ Len(order) = BrokerCount /\ DOMAIN order = 1..BrokerCount
      /\ \A b \in Brokers : \E i \in 1..BrokerCount : order[i] = b
      /\ \A i, j \in 1..BrokerCount : order[i] = order[j] => i = j
      /\ \A i, j \in 1..BrokerCount : i < j => ~Smaller(order[j], order[i])
      /\ UpperFrom(order) \in 1..(BrokerCount + 1)
      /\ \A i \in 1..BrokerCount : i > BrokerCount \div 2 /\ AtIndex(order[i]) > 0 =>
            UpperFrom(order) <= i /\ UpperFrom(order) > BrokerCount \div 2
  BY OrderIs
<1> DEFINE half == BrokerCount \div 2
           top == order[BrokerCount]
           from == UpperFrom(order)
<1>3. half \in Nat /\ 1 <= half /\ half < BrokerCount /\ BrokerCount \in 1..BrokerCount
  BY <1>1
<1>4. \A b : AtIndex(b) \in Nat /\ (AtIndex(b) > 0 <=> \E p \in 1..Len(desired) : desired[p][index] = b)
  <2> SUFFICES ASSUME NEW b
               PROVE  /\ AtIndex(b) \in Nat
                      /\ AtIndex(b) > 0 <=> \E p \in 1..Len(desired) : desired[p][index] = b
    OBVIOUS
  <2> DEFINE P == {p \in 1..Len(desired) : desired[p][index] = b}
  <2>1. AtIndex(b) = Cardinality(P)
    BY DEF AtIndex, CountAt
  <2>2. Len(desired) \in Nat /\ P \subseteq 1..Len(desired)
    BY <1>1
  <2>3. P # {} <=> \E p \in 1..Len(desired) : desired[p][index] = b
    OBVIOUS
  <2> HIDE DEF P
  <2>4. IsFiniteSet(P) /\ Cardinality(P) \in 0..Len(desired)
    BY <2>2, SomeOf
  <2>5. Cardinality(P) = 0 <=> P = {}
    BY <2>4, FS_EmptySet
  <2>6. Cardinality(P) \in Nat
    BY <2>2, <2>4
  <2>7. AtIndex(b) > 0 <=> P # {}
    BY <2>1, <2>5, <2>6
  <2> QED BY <2>1, <2>3, <2>6, <2>7
<1>5. Removed(top) /\ AtIndex(top) > 0
  <2> DEFINE h == desired[q][index]
  <2>1. h \in Brokers /\ AtIndex(h) > 0 /\ Removed(h)
    BY <1>1, <1>4
  <2> HIDE DEF h
  <2>2. PICK i \in 1..BrokerCount : order[i] = h
    BY <1>2, <2>1
  <2>3. CASE i = BrokerCount
    BY <2>1, <2>2, <2>3
  <2>4. CASE i # BrokerCount
    <3>1. ~Smaller(top, h)
      BY <1>1, <1>2, <1>3, <2>2, <2>4
    <3>2. Removed(top)
      BY <2>1, <3>1 DEF Smaller
    <3>3. ~(AtIndex(top) < AtIndex(h))
      BY <2>1, <3>1, <3>2 DEF Smaller
    <3>4. AtIndex(top) \in Nat /\ AtIndex(h) \in Nat
      BY <1>4
    <3> QED BY <2>1, <3>2, <3>3, <3>4
  <2> QED BY <2>3, <2>4
<1>6. from <= BrokerCount /\ from > half /\ from \in Nat
  BY <1>2, <1>3, <1>5
<1>7. PICK p \in 1..Len(desired) : desired[p][index] = top
  BY <1>4, <1>5
<1> HIDE DEF half, from, top
<1> DEFINE others == (1..N) \ {index}
           kept == {desired[p][s] : s \in others}
<1>8. \E i \in 1..half : order[i] \notin kept
  <2> SUFFICES ASSUME \A i \in 1..half : order[i] \in kept PROVE FALSE
    OBVIOUS
  <2> DEFINE F == [i \in 1..half |-> order[i]]
             G == [s \in others |-> desired[p][s]]
  <2>1. F \in [1..half -> kept]
    OBVIOUS
  <2>2. \A i, j \in 1..half : F[i] = F[j] => i = j
    BY <1>1, <1>2, <1>3
  <2>3. N \in Nat /\ IsFiniteSet(others) /\ Cardinality(others) = N - 1
    BY <1>1, OthersCount
  <2>4. kept = {G[s] : s \in others} /\ G = [s \in others |-> G[s]]
    OBVIOUS
  <2> HIDE DEF F, G, kept, others
  <2>5. IsFiniteSet(kept) /\ Cardinality(kept) <= N - 1
    BY <2>3, <2>4, ImageIs
  <2>6. Cardinality(1..half) <= Cardinality(kept)
    BY <2>1, <2>2, <2>5, InjectionBounds
  <2>7. Cardinality(1..half) = half /\ Cardinality(kept) \in Nat
    BY <1>3, <2>5, Upto, FS_CardinalityType
  <2> QED BY <1>3, <2>3, <2>5, <2>6, <2>7 DEF half
<1>9. PICK j \in 1..half : order[j] \notin kept
  <2> HIDE DEF kept
  <2> QED BY <1>8
<1> DEFINE low == order[j]
           A == Put(desired, p, index, low)
           T == Brokers \cup {Hole}
<1>10. low \in Brokers /\ j \in 1..BrokerCount
  BY <1>1, <1>2, <1>3
<1>11. /\ desired \in Seq(Seq(T)) /\ index \in 1..Len(desired[p]) /\ low \in T
  BY <1>1, <1>10
<1> HIDE DEF low, T
<1>12. Placed(T, desired, p, index, low, A)
  BY <1>11, PutIs
<1> HIDE DEF A
<1>13. \A s \in 1..N : s # index => desired[p][s] # low
  BY <1>9 DEF low
<1>14. EvaluateAssignments(A, job.rack, job.goal)
  <2>1. Satisfied(A, job.rack, job.goal)
    BY DEF Satisfied, Strategy
  <2>2. /\ A \in Seq(Seq(T)) /\ Len(A) = Len(desired)
        /\ \A r \in 1..Len(desired) : Len(A[r]) = N
        /\ \A r \in 1..Len(desired) : r # p => A[r] = desired[r]
        /\ A[p][index] = low /\ \A s \in 1..N : s # index => A[p][s] = desired[p][s]
    BY <1>1, <1>12 DEF Placed
  <2>3. A # << >> /\ \A r \in 1..Len(A) : Len(A[r]) = Width(A)
    BY <1>1, <2>2 DEF Width
  <2>4. NoRepeats(A)
    <3> SUFFICES ASSUME NEW r \in 1..Len(desired), NEW s \in 1..N, NEW t \in 1..N,
                        A[r][s] = A[r][t]
                 PROVE  s = t
      BY <2>2 DEF NoRepeats
    <3>1. CASE r # p
      BY <1>1, <2>2, <3>1
    <3>2. CASE r = p /\ s = index /\ t # index
      BY <1>13, <2>2, <3>2
    <3>3. CASE r = p /\ s # index /\ t = index
      BY <1>13, <2>2, <3>3
    <3>4. CASE r = p /\ s # index /\ t # index
      BY <1>1, <2>2, <3>4
    <3> QED BY <3>1, <3>2, <3>3, <3>4
  <2> QED BY <2>1, <2>3, <2>4 DEF EvaluateAssignments, CheckAssignments
<1>15. A \in Results(low, top)
  <2>1. A = [desired EXCEPT ![p][index] = low]
    BY DEF A, Put
  <2> QED BY <1>7, <1>14, <2>1 DEF Results
<1>16. A \in Tried(low, top)
  BY <1>5, <1>15 DEF Tried, ShouldTryReplace
<1> DEFINE pairs == (1..(from - 1)) \X (from..BrokerCount)
           Gives(pair) == Tried(order[pair[1]], order[pair[2]])
           good == {pair \in pairs : Gives(pair) # {}}
           first == {i \in 1..(from - 1) : Gives(<<i, BrokerCount>>) # {}}
           best == {g \in good : \A h \in good : h[2] < g[2] \/ (h[2] = g[2] /\ h[1] >= g[1])}
<1>17. Swaps(order) = UNION {Gives(pair) : pair \in best}
  BY <1>2 DEF Swaps, from
<1>18. j \in first
  <2>1. j \in 1..(from - 1)
    BY <1>3, <1>6
  <2>2. Gives(<<j, BrokerCount>>) = Tried(low, top)
    BY DEF low, top
  <2> HIDE DEF Gives
  <2> QED BY <1>16, <2>1, <2>2
<1>19. first \subseteq Nat /\ first # {}
  <2>1. first \subseteq 1..(from - 1)
    <3> HIDE DEF Gives
    <3> QED OBVIOUS
  <2> HIDE DEF first
  <2> QED BY <1>6, <1>18, <2>1
<1>20. PICK i \in first : \A k \in first : i <= k
  <2>1. Least(first) \in first /\ \A k \in first : Least(first) <= k
    <3> HIDE DEF first
    <3> QED BY <1>19, LeastIs
  <2> HIDE DEF first
  <2> QED BY <2>1
<1> HIDE DEF Gives
<1>21. <<i, BrokerCount>> \in good
  <2>1. i \in 1..(from - 1) /\ Gives(<<i, BrokerCount>>) # {}
    BY <1>20
  <2>2. BrokerCount \in from..BrokerCount
    BY <1>1, <1>6
  <2> QED BY <2>1, <2>2
<1>22. \A h \in good : h[2] < BrokerCount \/ (h[2] = BrokerCount /\ h[1] >= i)
  <2> SUFFICES ASSUME NEW h \in good PROVE h[2] < BrokerCount \/ (h[2] = BrokerCount /\ h[1] >= i)
    OBVIOUS
  <2>1. h = <<h[1], h[2]>> /\ h[1] \in 1..(from - 1) /\ h[2] \in from..BrokerCount /\ Gives(h) # {}
    OBVIOUS
  <2>2. CASE h[2] = BrokerCount
    <3>1. h[1] \in first
      BY <2>1, <2>2
    <3> QED BY <1>6, <1>20, <2>2, <3>1
  <2>3. CASE h[2] # BrokerCount
    <3>1. h[2] \in from..BrokerCount
      BY <2>1
    <3> DEFINE t == h[2]
    <3> HIDE DEF t
    <3>2. t \in from..BrokerCount /\ t # BrokerCount
      BY <2>3, <3>1 DEF t
    <3>3. t < BrokerCount
      BY <1>1, <1>6, <3>2
    <3> QED BY <3>3 DEF t
  <2> QED BY <2>2, <2>3
<1>23. <<i, BrokerCount>> \in best
  <2>1. <<i, BrokerCount>>[1] = i /\ <<i, BrokerCount>>[2] = BrokerCount
    OBVIOUS
  <2> HIDE DEF good
  <2> QED BY <1>21, <1>22, <2>1
<1>24. Gives(<<i, BrokerCount>>) # {}
  BY <1>20
<1> HIDE DEF best
<1> QED BY <1>17, <1>23, <1>24

-----------------------------------------------------------------------------
(***************************************************************************)
(* The invariant holds, and what follows from it.                          *)
(***************************************************************************)
\* The rebalancer moves on to the next position when it finds no replacement:
\* on "any" no broker to remove is then left at this one.
LEMMA NextIndexKeeps ==
    ASSUME IInv, NextIndex
    PROVE  IInv'
<1>1. /\ Rebalancing /\ index <= N /\ index' = index + 1
      /\ UNCHANGED <<job, desired, loops, outcome>>
      /\ \E order \in Orders : Swaps(order) = {}
  BY DEF NextIndex
<1>2. /\ outcome = "run" /\ job.op = "rebalance" /\ Begun /\ ~Balancing
      /\ TypeOK /\ Grid /\ Grown /\ Untouched /\ Rebalanced
  BY <1>1 DEF Rebalancing, IInv, Begun, Balancing
<1>3. N \in Nat \ {0} /\ index \in 1..N
  <2>1. N \in Nat \ {0} /\ index \in 1..(N + 1)
    BY <1>1, <1>2, RebalanceFacts DEF TypeOK
  <2> QED BY <1>1, <2>1
<1>4. N' = N /\ Strategy' = Strategy /\ Balancing' = Balancing /\ Begun' = Begun
  BY <1>1 DEF N, Strategy, Balancing, Begun
<1>5. TypeOK'
  <2>1. index' \in 1..(N + 1)
    BY <1>1, <1>3
  <2> QED BY <1>1, <1>2, <1>4, <2>1 DEF TypeOK
<1>6. Grid' /\ Grown' /\ Untouched'
  BY <1>1, <1>2, <1>4 DEF Grid, Grown, Untouched, Given
<1>7. Rebalanced'
  <2>1. ASSUME Strategy = "any", N <= BrokerCount \div 2,
               NEW p \in 1..Len(desired), NEW i \in 1..index
        PROVE  ~Removed(desired[p][i])
    <3>1. CASE i = index
      BY <1>1, <1>3, <2>1, <3>1, RemovalsFound
    <3>2. CASE i # index
      <4>1. i \in 1..(index - 1)
        BY <1>3, <3>2
      <4> QED BY <1>2, <2>1, <4>1 DEF Rebalanced, BrokerCount
    <3> QED BY <3>1, <3>2
  <2>2. \A b : Removed(b)' = Removed(b)
    BY <1>1 DEF Removed
  <2>3. 1..(index' - 1) = 1..index
    BY <1>1, <1>3
  <2>4. EvaluateAssignments(desired, job.rack, job.goal)' =
           EvaluateAssignments(desired, job.rack, job.goal)
    BY <1>1
  <2> QED BY <1>1, <1>2, <1>4, <2>1, <2>2, <2>3, <2>4 DEF Rebalanced, BrokerCount
<1>8. Assigned' /\ Extending' /\ Draining' /\ Returned' /\ FailsOnlyForWant'
  BY <1>1, <1>2, <1>4
     DEF Assigned, Extending, Draining, Returned, FailsOnlyForWant
<1> QED BY <1>5, <1>6, <1>7, <1>8 DEF IInv

\* A call returns what it has built, or that a broker to remove is left.
LEMMA ReturnKeeps ==
    ASSUME IInv, Return
    PROVE  IInv'
<1>1. /\ outcome = "run" /\ HolesOf(desired) = {}
      /\ UNCHANGED <<job, desired, index, loops>>
      /\ outcome' \in {"done", "not-removed"}
      /\ outcome' = "not-removed" => job.op = "rebalance" /\ index > N /\ Remaining # {}
      /\ outcome' = "done" =>
            /\ job.op = "extend" => Missing <= 0
            /\ Balancing => Balanced(desired, job.rack)
            /\ job.op = "rebalance" => Remaining = {}
  <2>1. job.op \in Ops
    BY DEF IInv, TypeOK, JobOK
  <2>2. outcome = "run" /\ HolesOf(desired) = {}
    BY DEF Return
  <2>3. CASE job.op = "extend"
    BY <2>2, <2>3 DEF Return, Finish, Balancing
  <2>4. CASE job.op = "assign"
    BY <2>2, <2>4 DEF Return, Finish, Balancing
  <2>5. CASE job.op = "rebalance"
    BY <2>2, <2>5 DEF Return, Finish, Balancing
  <2>6. CASE job.op = "place"
    BY <2>2, <2>6 DEF IInv, Untouched, Begun
  <2> QED BY <2>1, <2>3, <2>4, <2>5, <2>6 DEF Ops
<1>2. /\ Begun /\ TypeOK /\ Grid /\ Grown /\ Untouched /\ Assigned /\ Extending
      /\ Draining /\ Rebalanced
  BY <1>1 DEF IInv, Begun
<1>3. /\ N' = N /\ Strategy' = Strategy /\ Balancing' = Balancing /\ Begun' = TRUE
      /\ Remaining' = Remaining /\ Missing' = Missing
  BY <1>1 DEF N, Strategy, Balancing, Begun, Remaining, Removed, Missing
<1>4. TypeOK' /\ Grid' /\ Grown'
  BY <1>1, <1>2, <1>3 DEF TypeOK, Grid, Grown, Ended, Failures, Given
<1>5. Untouched'
  BY <1>1, <1>2, <1>3 DEF Untouched
<1>6. Assigned' /\ Rebalanced'
  <2>1. /\ Refused' = Refused
        /\ \A p, r : InRackOf(p, r)' = InRackOf(p, r)
        /\ \A b : Removed(b)' = Removed(b)
    BY <1>1 DEF Refused, InRackOf, Removed, Strategy, TooSmall, N
  <2> QED BY <1>1, <1>2, <1>3, <2>1 DEF Assigned, Rebalanced
<1>7. Extending'
  <2>1. /\ Refused' = Refused /\ Rounds' = Rounds /\ K' = K
        /\ \A p, r : InRackOf(p, r)' = InRackOf(p, r) /\ TargetRack(p, r)' = TargetRack(p, r)
        /\ \A r : Turns(r)' = Turns(r)
    BY <1>1 DEF Refused, InRackOf, Rounds, K, TargetRack, Turns, Strategy, TooSmall, N, Given
  <2> QED BY <1>1, <1>2, <1>3, <2>1 DEF Extending, Given
<1>8. Draining'
  <2>1. /\ Share' = Share /\ K' = K /\ Touched' = Touched
        /\ \A p : Moved(p)' = Moved(p)
        /\ \A r : Led(r)' = Led(r) /\ LedNow(r)' = LedNow(r)
    BY <1>1 DEF Share, K, Touched, Given, Moved, Led, LedNow, InRackOf, N
  <2> QED BY <1>1, <1>2, <1>3, <2>1 DEF Draining
<1>9. Returned'
  BY <1>1, <1>3 DEF Returned
<1>10. FailsOnlyForWant'
  <2>1. ASSUME outcome' = "not-removed"
        PROVE  Strategy # "any" \/ Cardinality(Brokers) \div 2 < N
    <3> SUFFICES ASSUME Strategy = "any", ~(Cardinality(Brokers) \div 2 < N) PROVE FALSE
      OBVIOUS
    <3>1. job.op = "rebalance" /\ index > N /\ Remaining # {} /\ Rebalancing
      BY <1>1, <2>1 DEF Rebalancing
    <3>2. PICK s \in (1..Len(desired)) \X (1..N) : Removed(desired[s[1]][s[2]])
      BY <3>1 DEF Remaining
    <3>3. N \in Nat \ {0} /\ BrokerCount \in Nat /\ index \in 1..(N + 1)
      BY <3>1, <1>2, RebalanceFacts DEF TypeOK
    <3>4. s[1] \in 1..Len(desired) /\ s[2] \in 1..N
      BY <3>2
    <3>5. s[2] \in 1..(index - 1)
      BY <3>1, <3>3, <3>4
    <3>6. N <= BrokerCount \div 2
      BY <3>3 DEF BrokerCount
    <3> QED BY <1>2, <3>1, <3>2, <3>4, <3>5, <3>6 DEF Rebalanced, BrokerCount
  <2> QED BY <1>1, <1>3, <2>1 DEF FailsOnlyForWant
<1> QED BY <1>4, <1>5, <1>6, <1>7, <1>8, <1>9, <1>10 DEF IInv

\* When nothing changes, the invariant stays.
LEMMA StutterKeeps ==
    ASSUME IInv, UNCHANGED vars
    PROVE  IInv'
<1>1. UNCHANGED <<job, desired, index, loops, outcome>>
  BY DEF vars
<1>2. TypeOK' /\ Grid' /\ Grown' /\ Untouched' /\ FailsOnlyForWant'
  BY <1>1 DEF IInv, TypeOK, Grid, Grown, Untouched, FailsOnlyForWant, Begun, Balancing, N,
              Strategy, Given
<1>3. Assigned' /\ Rebalanced' /\ Returned'
  BY <1>1 DEF IInv, Assigned, Rebalanced, Returned, Begun, Balancing, N, Strategy, InRackOf,
              Refused, TooSmall, Removed, Remaining, Missing
<1>4. Extending'
  BY <1>1 DEF IInv, Extending, Begun, N, Strategy, InRackOf, Refused, TooSmall, Rounds, K,
              TargetRack, Turns, Given
<1>5. Draining'
  BY <1>1 DEF IInv, Draining, Begun, Balancing, N, Strategy, InRackOf, Share, K, Touched,
              Given, Moved, Led, LedNow
<1> QED BY <1>2, <1>3, <1>4, <1>5 DEF IInv

\* IInv is an inductive invariant: every step of every call keeps it.
THEOREM InductiveInvariant == Spec => []IInv
<1>1. ASSUME IInv, [Next]_vars PROVE IInv'
  <2>1. CASE Place
    BY <1>1, <2>1, PlaceKeeps
  <2>2. CASE Assign
    BY <1>1, <2>2, AssignKeeps
  <2>3. CASE Extend
    BY <1>1, <2>3, ExtendKeeps
  <2>4. CASE Rebalance
    BY <1>1, <2>4, RebalanceKeeps
  <2>5. CASE FillHole
    BY <1>1, <2>5, FillHoleKeeps
  <2>6. CASE AddPartition
    BY <1>1, <2>6, AddPartitionKeeps
  <2>7. CASE ReplaceLeader
    BY <1>1, <2>7, ReplaceLeaderKeeps
  <2>8. CASE Swap
    BY <1>1, <2>8, SwapKeeps
  <2>9. CASE NextIndex
    BY <1>1, <2>9, NextIndexKeeps
  <2>10. CASE Return
    BY <1>1, <2>10, ReturnKeeps
  <2>11. CASE UNCHANGED vars
    BY <1>1, <2>11, StutterKeeps
  <2> QED BY <1>1, <2>1, <2>2, <2>3, <2>4, <2>5, <2>6, <2>7, <2>8, <2>9, <2>10, <2>11
             DEF Next, Step
<1> QED BY <1>1, Initially, PTL DEF Spec

\* Every variable has its type, in every placement call.
THEOREM PlacementTypeSafety == Spec => []TypeOK
<1>1. IInv => TypeOK
  BY DEF IInv
<1> QED BY <1>1, InductiveInvariant, PTL

\* A call fails only for want of brokers.
THEOREM FailuresAreWant == Spec => []FailsOnlyForWant
<1>1. IInv => FailsOnlyForWant
  BY DEF IInv
<1> QED BY <1>1, InductiveInvariant, PTL

-----------------------------------------------------------------------------
(***************************************************************************)
(* What the calls deliver.                                                 *)
(***************************************************************************)
\* A list in one rack is spread over one.
LEMMA OneRack ==
    ASSUME NEW n \in Nat \ {0}, NEW list, DOMAIN list = 1..n, NEW rack,
           \A i \in 1..n : rack[list[i]] = rack[list[1]]
    PROVE  Spread(list, rack) = 1
<1>1. {rack[b] : b \in Members(list)} = {rack[list[1]]}
  <2>1. 1 \in 1..n
    OBVIOUS
  <2> QED BY <2>1 DEF Members
<1> QED BY <1>1, FS_Singleton DEF Spread

\* A list that repeats no rack is spread over as many as it has replicas.
LEMMA RackEach ==
    ASSUME NEW n \in Nat, NEW list, DOMAIN list = 1..n, NEW rack,
           \A i, j \in 1..n : rack[list[i]] = rack[list[j]] => i = j
    PROVE  Spread(list, rack) = n
<1> DEFINE F == [i \in 1..n |-> rack[list[i]]]
           T == {F[i] : i \in 1..n}
<1>1. {rack[b] : b \in Members(list)} = T
  BY DEF Members
<1>2. F = [i \in 1..n |-> F[i]] /\ \A i, j \in 1..n : F[i] = F[j] => i = j
  OBVIOUS
<1>3. IsFiniteSet(1..n) /\ Cardinality(1..n) = n
  BY Upto
<1> HIDE DEF F
<1>4. Cardinality(T) = n
  BY <1>2, <1>3, ImageIs
<1> QED BY <1>1, <1>4 DEF Spread

\* A placement that is returned is whole, and its replicas are brokers.
LEMMA DoneFacts ==
    ASSUME IInv, outcome = "done"
    PROVE  /\ JobOK(job) /\ Begun /\ HolesOf(desired) = {} /\ CheckAssignments(desired)
           /\ Len(desired) \in Nat \ {0} /\ Width(desired) \in Nat
           /\ \A p \in 1..Len(desired) : DOMAIN desired[p] = 1..Width(desired)
           /\ \A p \in 1..Len(desired) : \A r \in 1..Width(desired) :
                 desired[p][r] \in Brokers /\ desired[p][r] # Hole
<1>1. TypeOK /\ Grid /\ HolesOf(desired) = {} /\ JobOK(job) /\ Begun
  BY DEF IInv, TypeOK, Returned, Begun
<1>2. Hole \notin Brokers
  BY <1>1, JobFacts
<1>3. \A p \in 1..Len(desired) : \A r \in 1..Width(desired) : desired[p][r] \in Brokers
  BY <1>1, NoHoles
<1>4. /\ Len(desired) \in Nat \ {0} /\ Width(desired) \in Nat
      /\ \A p \in 1..Len(desired) : DOMAIN desired[p] = 1..Width(desired)
      /\ \A p \in 1..Len(desired) : Len(desired[p]) = Width(desired)
  BY <1>1, DesiredFacts
<1>5. NoRepeats(desired)
  BY <1>1, <1>2, <1>3, <1>4 DEF Grid, NoRepeats
<1>6. CheckAssignments(desired)
  BY <1>1, <1>4, <1>5 DEF Grid, CheckAssignments
<1> QED BY <1>1, <1>2, <1>3, <1>4, <1>6

\* What an assigner returns is of the strategy.
LEMMA AssignedMeets ==
    ASSUME IInv, outcome = "done", job.op = "assign"
    PROVE  Meets(desired)
<1>1. /\ JobOK(job) /\ Begun /\ HolesOf(desired) = {} /\ Assigned /\ Grid /\ Grown
      /\ Balancing => Balanced(desired, job.rack)
  BY DoneFacts DEF IInv, Returned
<1>2. N \in Nat \ {0} /\ Strategy \in Strategies
  BY <1>1, JobFacts DEF JobOK, Strategy
<1>3. CASE Strategy = "any"
  BY <1>3 DEF Meets, Satisfied, Strategy
<1>4. CASE Strategy = "static"
  BY <1>1, <1>4 DEF Meets, Satisfied, Strategy, Assigned
<1>5. CASE Strategy = "balanced-leaders"
  BY <1>1, <1>5 DEF Meets, Satisfied, Strategy, Balancing
<1>6. ASSUME Strategy \in {"in-rack", "static-in-rack", "cross-rack"}
      PROVE  /\ Width(desired) = N
             /\ \A p \in 1..Len(desired) : DOMAIN desired[p] = 1..N /\ Len(desired[p]) = N
             /\ \A p \in 1..Len(desired) : \A r \in 1..N : desired[p][r] # Hole
  <2>1. Width(desired) = N
    BY <1>1, <1>6 DEF Grid
  <2> QED BY <1>1, <2>1, DoneFacts DEF Grid
<1>7. CASE Strategy = "in-rack"
  <2>1. ASSUME NEW p \in 1..Len(desired) PROVE Spread(desired[p], job.rack) = 1
    <3>1. \A r \in 1..N : InRackOf(p, r) = InRackOf(p, 1)
      BY <1>1, <1>6, <1>7, <2>1 DEF Assigned
    <3>2. \A r \in 1..N : job.rack[desired[p][r]] = job.rack[desired[p][1]]
      BY <3>1 DEF InRackOf
    <3>3. DOMAIN desired[p] = 1..N
      BY <1>6, <1>7
    <3> QED BY <1>2, <3>2, <3>3, OneRack
  <2> QED BY <1>7, <2>1 DEF Meets, Satisfied, Strategy, InRack
<1>8. CASE Strategy = "static-in-rack"
  <2>1. ASSUME NEW p \in 1..Len(desired)
        PROVE  Spread(desired[p], job.rack) = 1 /\ job.rack[desired[p][1]] = job.goal.racks[p]
    <3>1. \A r \in 1..N : InRackOf(p, r) = job.goal.racks[p]
      BY <1>1, <1>6, <1>8, <2>1 DEF Assigned
    <3>2. \A r \in 1..N : job.rack[desired[p][r]] = job.goal.racks[p]
      BY <3>1 DEF InRackOf
    <3>3. DOMAIN desired[p] = 1..N /\ 1 \in 1..N
      BY <1>2, <1>6, <1>8
    <3>4. \A r \in 1..N : job.rack[desired[p][r]] = job.rack[desired[p][1]]
      BY <3>2, <3>3
    <3>5. Spread(desired[p], job.rack) = 1
      BY <1>2, <3>3, <3>4, OneRack
    <3> QED BY <3>2, <3>3, <3>5
  <2>2. Len(job.goal.racks) = Len(desired)
    <3>1. Len(job.goal.racks) = Len(job.curr) + job.extra /\ job.extra = 0
      BY <1>1, <1>8, JobFacts DEF JobOK, Strategy
    <3>2. Len(desired) = Len(job.curr) /\ Len(job.curr) \in Nat
      BY <1>1, JobFacts DEF Grown
    <3> QED BY <3>1, <3>2
  <2> QED BY <1>8, <2>1, <2>2 DEF Meets, Satisfied, Strategy, InRack
<1>9. CASE Strategy = "cross-rack"
  <2>1. ASSUME NEW p \in 1..Len(desired)
        PROVE  Spread(desired[p], job.rack) = Len(desired[p])
    <3>1. \A i, j \in 1..N : InRackOf(p, i) = InRackOf(p, j) => i = j
      BY <1>1, <1>6, <1>9, <2>1 DEF Assigned
    <3>2. \A i, j \in 1..N : job.rack[desired[p][i]] = job.rack[desired[p][j]] => i = j
      BY <3>1 DEF InRackOf
    <3>3. DOMAIN desired[p] = 1..N /\ Len(desired[p]) = N
      BY <1>6, <1>9
    <3>4. Spread(desired[p], job.rack) = N
      BY <1>2, <3>2, <3>3, RackEach
    <3> QED BY <3>3, <3>4
  <2> QED BY <1>9, <2>1 DEF Meets, Satisfied, Strategy, CrossRack
<1> QED BY <1>2, <1>3, <1>4, <1>5, <1>7, <1>8, <1>9 DEF Strategies

\* What an extension returns has all the new partitions, after the old ones.
LEMMA ExtendedFully ==
    ASSUME IInv, outcome = "done", job.op = "extend"
    PROVE  /\ Len(desired) = Len(job.curr) + job.extra
           /\ Strategy # "static" => SubSeq(desired, 1, Len(job.curr)) = job.curr
<1>1. JobOK(job) /\ Grown /\ TypeOK /\ Grid /\ Missing <= 0
  BY DoneFacts DEF IInv, Returned
<1>2. /\ Len(job.curr) \in Nat \ {0} /\ job.extra \in Nat /\ Len(desired) \in Nat
      /\ Given = 1..Len(job.curr)
  BY <1>1, JobFacts, DesiredFacts
<1>3. Len(job.curr) <= Len(desired) /\ Len(desired) <= Len(job.curr) + job.extra
  BY <1>1 DEF Grown
<1>4. Len(desired) = Len(job.curr) + job.extra
  BY <1>1, <1>2, <1>3 DEF Missing
<1>5. ASSUME Strategy # "static" PROVE SubSeq(desired, 1, Len(job.curr)) = job.curr
  <2> DEFINE T == Seq(Brokers \cup {Hole})
             m == Len(job.curr)
             s == SubSeq(desired, 1, m)
  <2>1. desired \in Seq(T) /\ job.curr \in Seq(T)
    BY <1>1, DesiredFacts, CurrentWhole
  <2>2. \A p \in 1..m : desired[p] = job.curr[p]
    BY <1>1, <1>2, <1>5 DEF Grown
  <2> HIDE DEF T
  <2>3. s \in Seq(T) /\ Len(s) = m /\ \A p \in 1..m : s[p] = desired[p]
    BY <1>2, <1>3, <2>1, SubSeqProperties
  <2> HIDE DEF s
  <2>4. s = job.curr
    BY <1>2, <2>1, <2>2, <2>3, SeqEqual
  <2> QED BY <2>4 DEF s
<1> QED BY <1>4, <1>5

\* What a call returns is a placement Kafka accepts and of the strategy asked
\* for, with the partitions untouched that were to stay so.
THEOREM PlacementDelivers == Spec => []Delivered
<1>1. IInv => Delivered
  <2> SUFFICES ASSUME IInv, outcome = "done"
               PROVE  /\ CheckAssignments(desired) /\ HolesOf(desired) = {}
                      /\ job.op = "assign" => Meets(desired)
                      /\ job.op = "extend" =>
                            /\ Len(desired) = Len(job.curr) + job.extra
                            /\ Strategy # "static" =>
                                  SubSeq(desired, 1, Len(job.curr)) = job.curr
                      /\ job.op = "rebalance" /\ Strategy \notin {"static", "cross-rack"} =>
                            Meets(desired) /\ Remaining = {}
    BY DEF Delivered
  <2>1. CheckAssignments(desired) /\ HolesOf(desired) = {}
    BY DoneFacts
  <2>2. job.op = "assign" => Meets(desired)
    BY AssignedMeets
  <2>3. ASSUME job.op = "rebalance", Strategy \notin {"static", "cross-rack"}
        PROVE  Meets(desired) /\ Remaining = {}
    <3>1. Rebalanced /\ Returned /\ Begun
      BY DoneFacts DEF IInv
    <3>2. EvaluateAssignments(desired, job.rack, job.goal) /\ Remaining = {}
      BY <2>3, <3>1 DEF Rebalanced, Returned
    <3> QED BY <2>3, <3>2 DEF EvaluateAssignments, Meets
  <2> QED BY <2>1, <2>2, <2>3, ExtendedFully
<1> QED BY <1>1, InductiveInvariant, PTL

\* More of a thing, times k, is more.
LEMMA TimesMore ==
    ASSUME NEW m \in Nat, NEW n \in Nat, NEW k \in Nat \ {0}
    PROVE  (m < n => m * k < n * k) /\ (n < m => n * k < m * k)
OBVIOUS

\* After an extension each rack leads what it led, and its turns.
LEMMA LeadsAndTurns ==
    ASSUME IInv, outcome = "done", job.op = "extend", Strategy = "balanced-leaders",
           NEW r \in 1..K
    PROVE  Leads(desired, job.rack, r) = Led(r) + Turns(r) /\ Led(r) \in Nat /\ Turns(r) \in Nat
<1> DEFINE len == Len(desired)
           new == (1..len) \ Given
           ofOld == {p \in Given : job.rack[job.curr[p][1]] = r}
           ofNew == {p \in new : RackAt(job.rack, p - Len(job.curr) - 1) = r}
           ofAll == {p \in 1..len : job.rack[desired[p][1]] = r}
<1>1. /\ JobOK(job) /\ Begun /\ TypeOK /\ Grid /\ Grown /\ Extending
      /\ \A p \in 1..len : \A i \in 1..Width(desired) : desired[p][i] # Hole
  BY DoneFacts DEF IInv
<1>2. /\ Len(job.curr) \in Nat \ {0} /\ len \in Nat /\ Given = 1..Len(job.curr)
      /\ N \in Nat \ {0} /\ Width(desired) = N
  BY <1>1, JobFacts, DesiredFacts DEF Grid
<1>3. Given \subseteq 1..len /\ \A p \in Given : desired[p] = job.curr[p]
  BY <1>1, <1>2 DEF Grown
<1>4. ASSUME NEW p \in new
      PROVE  job.rack[desired[p][1]] = RackAt(job.rack, p - Len(job.curr) - 1)
  <2>1. 1 \in 1..N
    BY <1>2
  <2>2. InRackOf(p, 1) = TargetRack(p, 1)
    BY <1>1, <1>2, <2>1 DEF Extending
  <2>3. TargetRack(p, 1) = RackAt(job.rack, p - Len(job.curr) - 1 + 1 - 1)
    BY DEF TargetRack
  <2>4. p - Len(job.curr) - 1 + 1 - 1 = p - Len(job.curr) - 1
    BY <1>2
  <2> QED BY <2>2, <2>3, <2>4 DEF InRackOf
<1>5. ofAll = ofOld \cup ofNew /\ ofOld \cap ofNew = {}
  BY <1>3, <1>4
<1>6. /\ IsFiniteSet(ofOld) /\ Cardinality(ofOld) \in Nat
      /\ IsFiniteSet(ofNew) /\ Cardinality(ofNew) \in Nat
  <2>1. ofOld \subseteq 1..len /\ ofNew \subseteq 1..len
    BY <1>3
  <2> HIDE DEF ofOld, ofNew
  <2>2. IsFiniteSet(ofOld) /\ IsFiniteSet(ofNew)
    BY <1>2, <2>1, SomeOf
  <2> QED BY <2>2, FS_CardinalityType
<1>7. /\ Leads(desired, job.rack, r) = Cardinality(ofAll)
      /\ Led(r) = Cardinality(ofOld) /\ Turns(r) = Cardinality(ofNew)
  BY <1>2 DEF Leads, Led, Turns
<1>8. Cardinality(ofAll) = Cardinality(ofOld) + Cardinality(ofNew)
  <2> HIDE DEF ofAll, ofOld, ofNew
  <2>1. Cardinality(ofOld \cap ofNew) = 0
    BY <1>5, FS_EmptySet
  <2>2. Cardinality(ofOld \cup ofNew) =
           Cardinality(ofOld) + Cardinality(ofNew) - Cardinality(ofOld \cap ofNew)
    BY <1>6, FS_Union
  <2> QED BY <1>5, <1>6, <2>1, <2>2
<1> HIDE DEF ofAll, ofOld, ofNew
<1> QED BY <1>6, <1>7, <1>8

\* An extension by a multiple of the racks keeps the strategy of the topic.
THEOREM ExtensionSafety == Spec => []ExtensionKeepsStrategy
<1>1. IInv => ExtensionKeepsStrategy
  <2> SUFFICES ASSUME IInv, outcome = "done", job.op = "extend", job.extra % K = 0,
                      Satisfied(job.curr, job.rack, job.goal), Strategy # "static"
               PROVE  Satisfied(desired, job.rack, job.goal)
    BY DEF ExtensionKeepsStrategy, K
  <2>1. /\ JobOK(job) /\ Begun /\ TypeOK /\ Grid /\ Grown /\ Extending
        /\ \A p \in 1..Len(desired) : \A i \in 1..Width(desired) : desired[p][i] # Hole
    BY DoneFacts DEF IInv
  <2>2. /\ Len(job.curr) \in Nat \ {0} /\ Len(desired) \in Nat /\ Given = 1..Len(job.curr)
        /\ N \in Nat \ {0} /\ Width(desired) = N /\ job.extra \in Nat
        /\ K \in Nat \ {0} /\ RacksOf(job.rack) = 1..K
        /\ \A p \in 1..Len(desired) : DOMAIN desired[p] = 1..N
    BY <2>1, JobFacts, DesiredFacts DEF Grid
  <2>3. Strategy \in {"any", "in-rack", "balanced-leaders"}
    BY <2>1 DEF Extending, JobOK, Strategy, Strategies
  <2>4. CASE Strategy = "any"
    BY <2>4 DEF Satisfied, Strategy
  <2>5. CASE Strategy = "in-rack"
    <3>1. InRack(job.curr, job.rack)
      BY <2>5 DEF Satisfied, Strategy
    <3>2. ASSUME NEW p \in 1..Len(desired) PROVE Spread(desired[p], job.rack) = 1
      <4>1. CASE p \in Given
        BY <2>1, <2>2, <2>5, <3>1, <4>1 DEF Grown, InRack
      <4>2. CASE p \notin Given
        <5>1. \A r \in 1..N : InRackOf(p, r) = TargetRack(p, r)
          BY <2>1, <2>2, <2>5, <4>2 DEF Extending
        <5>2. \A r \in 1..N : TargetRack(p, r) = TargetRack(p, 1)
          BY <2>5 DEF TargetRack
        <5>3. \A r \in 1..N : job.rack[desired[p][r]] = job.rack[desired[p][1]]
          BY <2>2, <5>1, <5>2 DEF InRackOf
        <5> QED BY <2>2, <5>3, OneRack
      <4> QED BY <4>1, <4>2
    <3> QED BY <2>5, <3>2 DEF Satisfied, Strategy, InRack
  <2>6. CASE Strategy = "balanced-leaders"
    <3>1. Balanced(job.curr, job.rack)
      BY <2>6 DEF Satisfied, Strategy
    <3>2. \A r, s \in 1..K : Led(r) = Led(s)
      BY <2>2, <3>1 DEF Balanced, Led
    <3>3. Rounds = job.extra
      BY <2>2, ExtendedFully DEF Rounds
    <3>4. ASSUME NEW r \in 1..K PROVE Turns(r) = job.extra \div K
      <4>1. Turns(r) = (job.extra \div K) + (IF r <= job.extra % K THEN 1 ELSE 0)
        BY <2>1, <2>6, <3>3 DEF Extending
      <4>2. ~(r <= job.extra % K) /\ job.extra \div K \in Nat
        BY <2>2
      <4> QED BY <4>1, <4>2
    <3>5. \A r, s \in 1..K : Leads(desired, job.rack, r) = Leads(desired, job.rack, s)
      <4>1. ASSUME NEW r \in 1..K, NEW s \in 1..K
            PROVE  Leads(desired, job.rack, r) = Leads(desired, job.rack, s)
        <5>1. Leads(desired, job.rack, r) = Led(r) + Turns(r)
          BY <2>6, LeadsAndTurns
        <5>2. Leads(desired, job.rack, s) = Led(s) + Turns(s)
          BY <2>6, LeadsAndTurns
        <5> QED BY <3>2, <3>4, <5>1, <5>2
      <4> QED BY <4>1
    <3> QED BY <2>2, <2>6, <3>5 DEF Satisfied, Strategy, Balanced
  <2> QED BY <2>3, <2>4, <2>5, <2>6
<1> QED BY <1>1, InductiveInvariant, PTL

\* Balancing the leaders takes leaderships from racks with too many only, and
\* gives them to racks with too few only, inside the partition where it can.
THEOREM FewestMovesSafety == Spec => []FewestMoves
<1>1. IInv => FewestMoves
  <2> SUFFICES ASSUME IInv, outcome = "done", Balancing, NEW p \in 1..Len(desired),
                      desired[p] # job.curr[p]
               PROVE  /\ Led(job.rack[job.curr[p][1]]) * K > Len(desired)
                      /\ Led(job.rack[desired[p][1]]) * K < Len(desired)
                      /\ \/ Members(desired[p]) = Members(job.curr[p])
                         \/ \A r \in 2..N : job.rack[job.curr[p][r]]
                                               # job.rack[desired[p][1]]
    BY DEF FewestMoves, Led, K
  <2>1. JobOK(job) /\ Begun /\ Grown /\ Draining
    BY DoneFacts DEF IInv
  <2>2. Len(job.curr) \in Nat \ {0} /\ Given = 1..Len(job.curr) /\ K \in Nat \ {0}
    BY <2>1, JobFacts
  <2>3. Len(desired) = Len(job.curr) /\ Len(job.curr) = Share * K
    BY <2>1 DEF Grown, Draining, Balancing
  <2>4. Moved(p)
    BY <2>1, <2>2, <2>3 DEF Draining, Touched
  <2>5. Share \in Nat
    BY <2>2, DivMod DEF Share
  <2>6. \A r : Led(r) \in Nat
    <3> SUFFICES ASSUME NEW r PROVE Led(r) \in Nat
      OBVIOUS
    <3>1. Led(r) \in 0..Len(job.curr)
      BY <2>2, LeadsAre DEF Led
    <3> QED BY <2>2, <3>1
  <2> DEFINE was == Led(job.rack[job.curr[p][1]])
             is == Led(job.rack[desired[p][1]])
  <2>7. was > Share /\ is < Share /\ was \in Nat /\ is \in Nat
    BY <2>4, <2>6 DEF Moved, InRackOf
  <2> HIDE DEF was, is
  <2>8. was * K > Share * K /\ is * K < Share * K
    <3>1. Share * K < was * K
      BY <2>2, <2>5, <2>7, TimesMore
    <3>2. is * K < Share * K
      BY <2>2, <2>5, <2>7, TimesMore
    <3>3. was * K \in Nat /\ Share * K \in Nat
      BY <2>2, <2>5, <2>7
    <3> QED BY <3>1, <3>2, <3>3
  <2> QED BY <2>3, <2>4, <2>8 DEF Moved, InRackOf, was, is
<1> QED BY <1>1, InductiveInvariant, PTL
=============================================================================
