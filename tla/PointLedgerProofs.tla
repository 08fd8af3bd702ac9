--------------------------- MODULE PointLedgerProofs ---------------------------
(***************************************************************************)
(* Theorems about PointLedger, for every number of sessions, buckets,      *)
(* reservations and points.  Shape says what a command may have done to    *)
(* its copy when it commits; every command is shown to have it, by         *)
(* reasoning about the copy alone, and CommitInv carries it over to the  *)
(* rows: a column that is not overwritten changes by as much as the copy   *)
(* did.  The lemmas about sums come first, proved from a smallest          *)
(* counterexample instead of by induction.                                 *)
(***************************************************************************)
EXTENDS PointLedger, FiniteSetTheorems, WellFoundedInduction, TLAPS

--------------------------------------------------------------------------------
(* Sums over finite sets *)

(* The element a sum takes first                                            *)
First(s) == CHOOSE x \in s : TRUE

(* g maps every part of S to the sum of f over it                           *)
Sums(f, S, g) ==
  g = [s \in SUBSET S |-> IF s = {} THEN 0 ELSE f[First(s)] + g[s \ {First(s)}]]

(* Such a function                                                          *)
Totals(f, S) == CHOOSE g : Sums(f, S, g)

(* SumFunctionOnSet applies such a function to the whole set.               *)
LEMMA SumIsTotal ==
  ASSUME NEW f, NEW S
  PROVE  SumFunctionOnSet(f, S) = Totals(f, S)[S]
BY DEF SumFunctionOnSet, FoldFunctionOnSet, MapThenFoldSet, Totals, Sums, First

(* The element taken first is one of the set                                *)
LEMMA FirstIsMember ==
  ASSUME NEW s, s # {}
  PROVE  First(s) \in s
BY DEF First

(* A nonempty family of subsets of a finite set has a smallest member: the  *)
(* proofs below take a smallest counterexample where one would use          *)
(* induction on the set.                                                    *)
LEMMA SmallestSubset ==
  ASSUME NEW S, IsFiniteSet(S), NEW T \in SUBSET SUBSET S, T # {}
  PROVE  \E t \in T : \A u \in T : u \subseteq t => u = t
<1>1. IsWellFoundedOn(StrictSubsetOrdering(S), SUBSET S)
  BY FS_StrictSubsetOrderingWellFounded, FS_FiniteSubsetsOfFinite
<1>2. PICK t \in T : \A u \in T : <<u, t>> \notin StrictSubsetOrdering(S)
  BY <1>1, WFMin
<1> QED
  BY <1>2 DEF StrictSubsetOrdering

(* Total functions of a set and of a part of it agree on that part          *)
LEMMA TotalsAgree ==
  ASSUME NEW f, NEW S, NEW T \in SUBSET S, IsFiniteSet(S), NEW g, NEW h,
         Sums(f, T, g), Sums(f, S, h)
  PROVE  \A s \in SUBSET T : g[s] = h[s]
<1> DEFINE Bad == {s \in SUBSET T : g[s] # h[s]}
<1> SUFFICES ASSUME Bad # {} PROVE FALSE
  OBVIOUS
<1>1. PICK s \in Bad : \A u \in Bad : u \subseteq s => u = s
  <2>1. IsFiniteSet(T)
    BY FS_Subset
  <2>2. Bad \in SUBSET SUBSET T
    OBVIOUS
  <2> HIDE DEF Bad
  <2> QED
    BY <2>1, <2>2, SmallestSubset
<1>2. s \in SUBSET T /\ s \in SUBSET S /\ g[s] # h[s]
  OBVIOUS
<1>3. /\ g[s] = IF s = {} THEN 0 ELSE f[First(s)] + g[s \ {First(s)}]
      /\ h[s] = IF s = {} THEN 0 ELSE f[First(s)] + h[s \ {First(s)}]
  BY <1>2 DEF Sums
<1>4. s # {}
  BY <1>2, <1>3
<1>5. s \ {First(s)} \notin Bad
  BY <1>1, <1>4, FirstIsMember
<1> QED
  BY <1>2, <1>3, <1>4, <1>5

(* Every finite set has a total function                                    *)
LEMMA TotalsExist ==
  ASSUME NEW f, NEW S, IsFiniteSet(S)
  PROVE  Sums(f, S, Totals(f, S))
<1> DEFINE Bad == {T \in SUBSET S : ~ Sums(f, T, Totals(f, T))}
<1> SUFFICES ASSUME Bad # {} PROVE FALSE
  OBVIOUS
<1>1. PICK T \in Bad : \A U \in Bad : U \subseteq T => U = T
  <2>1. Bad \in SUBSET SUBSET S
    OBVIOUS
  <2> HIDE DEF Bad
  <2> QED
    BY <2>1, SmallestSubset
<1>2. T \in SUBSET S /\ IsFiniteSet(T)
  BY FS_Subset
<1> DEFINE Rest(s) == s \ {First(s)}
           h == [s \in SUBSET T |->
                   IF s = {} THEN 0 ELSE f[First(s)] + Totals(f, Rest(s))[Rest(s)]]
<1>3. ASSUME NEW s \in SUBSET T, s # T
      PROVE  Sums(f, s, Totals(f, s))
  BY <1>1, <1>2, <1>3
<1>4. ASSUME NEW s \in SUBSET T, s # {}
      PROVE  Rest(s) \in SUBSET T /\ Rest(s) # T
  BY <1>4, FirstIsMember
<1>5. ASSUME NEW s \in SUBSET T, s # {}
      PROVE  Totals(f, Rest(s))[Rest(s)] = h[Rest(s)]
  <2> DEFINE u == Rest(s)
  <2>1. u \in SUBSET T /\ Sums(f, u, Totals(f, u)) /\ u \in SUBSET u
    BY <1>3, <1>4, <1>5
  <2>2. Totals(f, u)[u] = IF u = {} THEN 0 ELSE f[First(u)] + Totals(f, u)[Rest(u)]
    BY <2>1 DEF Sums
  <2>3. CASE u = {}
    BY <2>1, <2>2, <2>3
  <2>4. CASE u # {}
    <3>1. Rest(u) \in SUBSET u /\ Rest(u) \in SUBSET Rest(u)
      OBVIOUS
    <3>2. Sums(f, Rest(u), Totals(f, Rest(u))) /\ IsFiniteSet(u)
      BY <1>2, <1>3, <1>4, <2>1, <2>4, FS_Subset
    <3>3. Totals(f, Rest(u))[Rest(u)] = Totals(f, u)[Rest(u)]
      BY <2>1, <3>1, <3>2, TotalsAgree
    <3> QED
      BY <2>1, <2>2, <2>4, <3>3
  <2> QED
    BY <2>3, <2>4
<1>6. Sums(f, T, h)
  <2> HIDE DEF h
  <2>1. \A s \in SUBSET T :
          h[s] = IF s = {} THEN 0 ELSE f[First(s)] + h[s \ {First(s)}]
    <3> TAKE s \in SUBSET T
    <3>1. h[s] = IF s = {} THEN 0 ELSE f[First(s)] + Totals(f, Rest(s))[Rest(s)]
      BY DEF h
    <3> QED
      BY <1>5, <3>1
  <2>2. h = [s \in SUBSET T |-> h[s]]
    BY DEF h
  <2> QED
    BY <2>1, <2>2 DEF Sums
<1>7. Sums(f, T, Totals(f, T))
  BY <1>6 DEF Totals
<1> QED
  BY <1>7

(* The recursion a sum satisfies: nothing for the empty set, else the first *)
(* element and the sum of the others                                        *)
LEMMA SumOfSet ==
  ASSUME NEW f, NEW S, IsFiniteSet(S)
  PROVE  /\ S = {} => SumFunctionOnSet(f, S) = 0
         /\ S # {} => SumFunctionOnSet(f, S) =
              f[First(S)] + SumFunctionOnSet(f, S \ {First(S)})
<1> DEFINE R == S \ {First(S)}
<1>1. Sums(f, S, Totals(f, S)) /\ Sums(f, R, Totals(f, R))
  BY FS_Subset, TotalsExist
<1>2. Totals(f, S)[S] = IF S = {} THEN 0 ELSE f[First(S)] + Totals(f, S)[R]
  BY <1>1 DEF Sums
<1>3. Totals(f, R)[R] = Totals(f, S)[R]
  BY <1>1, TotalsAgree
<1> QED
  BY <1>2, <1>3, SumIsTotal

(* A sum stays where its terms are: a sum of integers is an integer, one of *)
(* natural numbers a natural number                                         *)
LEMMA SumsStay ==
  ASSUME NEW S, IsFiniteSet(S), NEW D, 0 \in D, \A m, n \in D : m + n \in D,
         NEW f, \A x \in S : f[x] \in D
  PROVE  SumFunctionOnSet(f, S) \in D
<1> DEFINE Bad == {T \in SUBSET S : SumFunctionOnSet(f, T) \notin D}
<1> SUFFICES ASSUME Bad # {} PROVE FALSE
  OBVIOUS
<1>1. PICK T \in Bad : \A U \in Bad : U \subseteq T => U = T
  <2>1. Bad \in SUBSET SUBSET S
    OBVIOUS
  <2> HIDE DEF Bad
  <2> QED
    BY <2>1, SmallestSubset
<1>2. IsFiniteSet(T) /\ T \in SUBSET S
  BY FS_Subset
<1>3. T # {}
  <2>1. SumFunctionOnSet(f, T) \notin D
    BY <1>1
  <2>2. T = {} => SumFunctionOnSet(f, T) = 0
    BY <1>2, SumOfSet
  <2> QED
    BY <2>1, <2>2
<1>4. First(T) \in T /\ T \ {First(T)} \notin Bad
  BY <1>1, <1>3, FirstIsMember
<1> QED
  BY <1>2, <1>3, <1>4, SumOfSet

(* The two cases used                                                       *)
LEMMA SumsOfIntegers ==
  ASSUME NEW S, IsFiniteSet(S), NEW f, \A x \in S : f[x] \in Int
  PROVE  SumFunctionOnSet(f, S) \in Int
<1>1. 0 \in Int /\ \A m, n \in Int : m + n \in Int
  OBVIOUS
<1> QED
  BY <1>1, SumsStay

LEMMA SumsOfNaturals ==
  ASSUME NEW S, IsFiniteSet(S), NEW f, \A x \in S : f[x] \in Nat
  PROVE  SumFunctionOnSet(f, S) \in Nat
<1>1. 0 \in Nat /\ \A m, n \in Nat : m + n \in Nat
  OBVIOUS
<1> QED
  BY <1>1, SumsStay

(* Functions that add up pointwise have sums that add up                    *)
LEMMA SumsAdd ==
  ASSUME NEW S, IsFiniteSet(S), NEW f, NEW g, NEW h,
         \A x \in S : f[x] \in Int /\ g[x] \in Int /\ h[x] = f[x] + g[x]
  PROVE  SumFunctionOnSet(h, S) = SumFunctionOnSet(f, S) + SumFunctionOnSet(g, S)
<1> DEFINE Bad == {T \in SUBSET S :
      SumFunctionOnSet(h, T) # SumFunctionOnSet(f, T) + SumFunctionOnSet(g, T)}
<1> SUFFICES ASSUME Bad # {} PROVE FALSE
  OBVIOUS
<1>1. PICK T \in Bad : \A U \in Bad : U \subseteq T => U = T
  <2>1. Bad \in SUBSET SUBSET S
    OBVIOUS
  <2> HIDE DEF Bad
  <2> QED
    BY <2>1, SmallestSubset
<1>2. IsFiniteSet(T) /\ T \in SUBSET S
  BY FS_Subset
<1>3. T # {}
  <2>1. SumFunctionOnSet(h, T) # SumFunctionOnSet(f, T) + SumFunctionOnSet(g, T)
    BY <1>1
  <2>2. T = {} => /\ SumFunctionOnSet(f, T) = 0
                  /\ SumFunctionOnSet(g, T) = 0
                  /\ SumFunctionOnSet(h, T) = 0
    BY <1>2, SumOfSet
  <2> QED
    BY <2>1, <2>2
<1> DEFINE R == T \ {First(T)}
<1>4. First(T) \in T /\ R \notin Bad /\ R \in SUBSET S
  BY <1>1, <1>3, FirstIsMember
<1>5. SumFunctionOnSet(h, R) = SumFunctionOnSet(f, R) + SumFunctionOnSet(g, R)
  BY <1>4
<1>6. /\ SumFunctionOnSet(h, T) = h[First(T)] + SumFunctionOnSet(h, R)
      /\ SumFunctionOnSet(f, T) = f[First(T)] + SumFunctionOnSet(f, R)
      /\ SumFunctionOnSet(g, T) = g[First(T)] + SumFunctionOnSet(g, R)
  BY <1>2, <1>3, SumOfSet
<1>7. SumFunctionOnSet(f, R) \in Int /\ SumFunctionOnSet(g, R) \in Int
  BY <1>2, FS_Subset, SumsOfIntegers
<1>8. /\ f[First(T)] \in Int /\ g[First(T)] \in Int
      /\ h[First(T)] = f[First(T)] + g[First(T)]
  BY <1>2, <1>4
<1> HIDE DEF R
<1>9. SumFunctionOnSet(h, T) = SumFunctionOnSet(f, T) + SumFunctionOnSet(g, T)
  BY <1>5, <1>6, <1>7, <1>8
<1> QED
  BY <1>9

(* A sum of zeros is zero                                                   *)
LEMMA SumOfZeros ==
  ASSUME NEW S, IsFiniteSet(S), NEW f, \A x \in S : f[x] = 0
  PROVE  SumFunctionOnSet(f, S) = 0
<1> DEFINE Bad == {T \in SUBSET S : SumFunctionOnSet(f, T) # 0}
<1> SUFFICES ASSUME Bad # {} PROVE FALSE
  OBVIOUS
<1>1. PICK T \in Bad : \A U \in Bad : U \subseteq T => U = T
  <2>1. Bad \in SUBSET SUBSET S
    OBVIOUS
  <2> HIDE DEF Bad
  <2> QED
    BY <2>1, SmallestSubset
<1>2. IsFiniteSet(T) /\ T \in SUBSET S
  BY FS_Subset
<1>3. T # {}
  BY <1>1, <1>2, SumOfSet
<1>4. First(T) \in T /\ T \ {First(T)} \notin Bad
  BY <1>1, <1>3, FirstIsMember
<1>5. SumFunctionOnSet(f, T \ {First(T)}) = 0
  BY <1>4
<1>6. SumFunctionOnSet(f, T) = f[First(T)] + SumFunctionOnSet(f, T \ {First(T)})
  BY <1>2, <1>3, SumOfSet
<1>7. f[First(T)] = 0
  BY <1>2, <1>4
<1> QED
  BY <1>1, <1>5, <1>6, <1>7

(* The sum of a function that is zero except at b is its value at b         *)
LEMMA SumOfOne ==
  ASSUME NEW S, IsFiniteSet(S), NEW f, NEW b \in S, f[b] \in Int,
         \A x \in S : x # b => f[x] = 0
  PROVE  SumFunctionOnSet(f, S) = f[b]
<1> DEFINE Bad == {T \in SUBSET S :
      SumFunctionOnSet(f, T) # IF b \in T THEN f[b] ELSE 0}
<1> SUFFICES ASSUME Bad # {} PROVE FALSE
  OBVIOUS
<1>1. PICK T \in Bad : \A U \in Bad : U \subseteq T => U = T
  <2>1. Bad \in SUBSET SUBSET S
    OBVIOUS
  <2> HIDE DEF Bad
  <2> QED
    BY <2>1, SmallestSubset
<1>2. IsFiniteSet(T) /\ T \in SUBSET S
  BY FS_Subset
<1>3. T # {}
  BY <1>1, <1>2, SumOfSet
<1>4. First(T) \in T /\ T \ {First(T)} \notin Bad
  BY <1>1, <1>3, FirstIsMember
<1>5. SumFunctionOnSet(f, T \ {First(T)}) = IF b \in T \ {First(T)} THEN f[b] ELSE 0
  BY <1>4
<1>6. SumFunctionOnSet(f, T) = f[First(T)] + SumFunctionOnSet(f, T \ {First(T)})
  BY <1>2, <1>3, SumOfSet
<1>7. f[First(T)] = IF First(T) = b THEN f[b] ELSE 0
  BY <1>2, <1>4
<1> QED
  BY <1>1, <1>4, <1>5, <1>6, <1>7

(* The sum over a part of S is the sum over S of the function cut to it     *)
LEMMA SumOfPart ==
  ASSUME NEW S, IsFiniteSet(S), NEW T \in SUBSET S, NEW f, NEW g,
         \A x \in S : f[x] \in Int /\ g[x] = IF x \in T THEN f[x] ELSE 0
  PROVE  SumFunctionOnSet(g, S) = SumFunctionOnSet(f, T)
<1> DEFINE Part(U) == [x \in S |-> IF x \in U THEN f[x] ELSE 0]
           Bad == {U \in SUBSET S : SumFunctionOnSet(Part(U), S) # SumFunctionOnSet(f, U)}
<1>1. Bad = {}
  <2> SUFFICES ASSUME Bad # {} PROVE FALSE
    OBVIOUS
  <2>1. PICK U \in Bad : \A V \in Bad : V \subseteq U => V = U
    <3>1. Bad \in SUBSET SUBSET S
      OBVIOUS
    <3> HIDE DEF Bad
    <3> QED
      BY <3>1, SmallestSubset
  <2>2. IsFiniteSet(U) /\ U \in SUBSET S
    BY FS_Subset
  <2>3. U # {}
    <3>1. SUFFICES ASSUME U = {} PROVE FALSE
      OBVIOUS
    <3> DEFINE part == Part(U)
    <3>2. \A x \in S : part[x] = 0
      BY <3>1
    <3>3. SumFunctionOnSet(part, S) = 0
      <4> HIDE DEF part
      <4> QED
        BY <3>2, SumOfZeros
    <3>4. SumFunctionOnSet(f, U) = 0
      BY <2>2, <3>1, SumOfSet
    <3>5. SumFunctionOnSet(part, S) # SumFunctionOnSet(f, U)
      BY <2>1
    <3> QED
      BY <3>3, <3>4, <3>5
  <2> DEFINE b == First(U)
             R == U \ {b}
             one == [x \in S |-> IF x = b THEN f[b] ELSE 0]
  <2>4. b \in U /\ b \in S /\ R \in SUBSET S /\ R \notin Bad
    BY <2>1, <2>2, <2>3, FirstIsMember
  <2>5. SumFunctionOnSet(one, S) = f[b]
    <3>1. one[b] = f[b] /\ one[b] \in Int /\ \A x \in S : x # b => one[x] = 0
      BY <2>4
    <3> HIDE DEF one, b
    <3> QED
      BY <2>4, <3>1, SumOfOne
  <2>6. \A x \in S : /\ Part(R)[x] \in Int /\ one[x] \in Int
                     /\ Part(U)[x] = Part(R)[x] + one[x]
    BY <2>4
  <2>7. SumFunctionOnSet(Part(U), S) = SumFunctionOnSet(Part(R), S) + SumFunctionOnSet(one, S)
    <3> DEFINE pu == Part(U)
               pr == Part(R)
    <3>1. \A x \in S : pr[x] \in Int /\ one[x] \in Int /\ pu[x] = pr[x] + one[x]
      BY <2>6
    <3> HIDE DEF pu, pr, one
    <3>2. SumFunctionOnSet(pu, S) = SumFunctionOnSet(pr, S) + SumFunctionOnSet(one, S)
      BY <3>1, SumsAdd
    <3> QED
      BY <3>2 DEF pu, pr
  <2>8. SumFunctionOnSet(Part(R), S) = SumFunctionOnSet(f, R)
    BY <2>4
  <2>9. SumFunctionOnSet(f, U) = f[b] + SumFunctionOnSet(f, R)
    BY <2>2, <2>3, SumOfSet
  <2>10. SumFunctionOnSet(f, R) \in Int
    BY <2>2, FS_Subset, SumsOfIntegers
  <2> QED
    BY <2>1, <2>4, <2>5, <2>7, <2>8, <2>9, <2>10
<1>2. SumFunctionOnSet(Part(T), S) = SumFunctionOnSet(f, T)
  BY <1>1
<1>3. SumFunctionOnSet(g, S) = SumFunctionOnSet(Part(T), S)
  <2> DEFINE zero == [x \in S |-> 0]
             part == Part(T)
  <2>1. \A x \in S : part[x] \in Int /\ zero[x] \in Int /\ g[x] = part[x] + zero[x]
    OBVIOUS
  <2>2. SumFunctionOnSet(zero, S) = 0
    <3>1. \A x \in S : zero[x] = 0
      OBVIOUS
    <3> HIDE DEF zero
    <3> QED
      BY <3>1, SumOfZeros
  <2>3. SumFunctionOnSet(part, S) \in Int
    <3> HIDE DEF part
    <3> QED
      BY <2>1, SumsOfIntegers
  <2>4. SumFunctionOnSet(g, S) = SumFunctionOnSet(part, S) + SumFunctionOnSet(zero, S)
    <3> HIDE DEF part, zero
    <3> QED
      BY <2>1, SumsAdd
  <2> QED
    BY <2>2, <2>3, <2>4
<1> QED
  BY <1>2, <1>3

(* There are finitely many buckets and reservations                         *)
LEMMA RowsAreFinite == IsFiniteSet(BucketIds) /\ IsFiniteSet(ReservationIds)
BY FS_Interval, PointLedgerAssumption DEF BucketIds, ReservationIds

(* The sum of a column is the sum over the rows it has                      *)
LEMMA SumOfColumn ==
  ASSUME NEW I, NEW f, DOMAIN f = I
  PROVE  SumFunction(f) = SumFunctionOnSet(f, I)
BY DEF SumFunction, SumFunctionOnSet, FoldFunction, FoldFunctionOnSet

(* The sum of a finite column of integers is an integer                     *)
LEMMA SumInt ==
  ASSUME NEW I, IsFiniteSet(I), NEW f \in [I -> Int]
  PROVE  SumFunction(f) \in Int
<1>1. \A x \in I : f[x] \in Int
  OBVIOUS
<1>2. SumFunctionOnSet(f, I) \in Int
  BY <1>1, SumsOfIntegers
<1>3. SumFunction(f) = SumFunctionOnSet(f, I)
  BY SumOfColumn
<1>4. QED
  BY <1>2, <1>3

(* Columns that add up row by row have sums that add up                     *)
LEMMA ColumnsAdd ==
  ASSUME NEW I, IsFiniteSet(I),
         NEW f \in [I -> Int], NEW g \in [I -> Int], NEW h \in [I -> Int],
         \A x \in I : h[x] = f[x] + g[x]
  PROVE  SumFunction(h) = SumFunction(f) + SumFunction(g)
<1>1. \A x \in I : f[x] \in Int /\ g[x] \in Int /\ h[x] = f[x] + g[x]
  OBVIOUS
<1>2. SumFunctionOnSet(h, I) = SumFunctionOnSet(f, I) + SumFunctionOnSet(g, I)
  BY <1>1, SumsAdd
<1>3. /\ SumFunction(f) = SumFunctionOnSet(f, I)
      /\ SumFunction(g) = SumFunctionOnSet(g, I)
      /\ SumFunction(h) = SumFunctionOnSet(h, I)
  BY SumOfColumn
<1>4. QED
  BY <1>2, <1>3

(* A column of natural numbers has a natural sum                            *)
LEMMA SumNat ==
  ASSUME NEW I, IsFiniteSet(I), NEW f \in [I -> Nat]
  PROVE  SumFunction(f) \in Nat
<1>1. \A x \in I : f[x] \in Nat
  OBVIOUS
<1>2. SumFunctionOnSet(f, I) \in Nat
  BY <1>1, SumsOfNaturals
<1>3. SumFunction(f) = SumFunctionOnSet(f, I)
  BY SumOfColumn
<1>4. QED
  BY <1>2, <1>3

(* Adding v to one row adds v to the sum                                    *)
LEMMA RowAdds ==
  ASSUME NEW I, IsFiniteSet(I), NEW f \in [I -> Int], NEW h \in [I -> Int],
         NEW b \in I, NEW v \in Int,
         h[b] = f[b] + v, \A x \in I : x # b => h[x] = f[x]
  PROVE  SumFunction(h) = SumFunction(f) + v
<1> DEFINE one == [x \in I |-> IF x = b THEN v ELSE 0]
<1>1. one \in [I -> Int]
  OBVIOUS
<1>6. /\ one[b] = v /\ one[b] \in Int
      /\ \A x \in I : x # b => one[x] = 0
  OBVIOUS
<1>2. \A x \in I : h[x] = f[x] + one[x]
  OBVIOUS
<1> HIDE DEF one
<1>3. SumFunctionOnSet(one, I) = v
  BY <1>6, SumOfOne
<1>4. SumFunction(one) = SumFunctionOnSet(one, I)
  BY <1>1, SumOfColumn
<1>5. SumFunction(h) = SumFunction(f) + SumFunction(one)
  BY <1>1, <1>2, ColumnsAdd
<1>7. QED
  BY <1>3, <1>4, <1>5

(* A column of zeros sums to zero                                           *)
LEMMA ZerosSum ==
  ASSUME NEW I, IsFiniteSet(I), NEW f \in [I -> Int], \A x \in I : f[x] = 0
  PROVE  SumFunction(f) = 0
<1>1. SumFunctionOnSet(f, I) = 0
  BY SumOfZeros
<1>2. SumFunction(f) = SumFunctionOnSet(f, I)
  BY SumOfColumn
<1>3. QED
  BY <1>1, <1>2

(* Adding a draw to a column, or taking it from one, changes the sum by     *)
(* the points drawn                                                         *)
LEMMA DrawSums ==
  ASSUME NEW column \in [BucketIds -> Int], NEW S, NEW stock,
         NEW points \in Nat, NEW c, NEW d \in Draws(c, S, stock, points)
  PROVE  /\ SumFunction(Plus(column, d)) = SumFunction(column) + points
         /\ SumFunction(Minus(column, d)) = SumFunction(column) - points
<1>1. d \in [BucketIds -> Int] /\ SumFunction(d) = points
  BY DEF Draws
<1>2. IsFiniteSet(BucketIds)
  BY RowsAreFinite
<1>3. /\ Plus(column, d) \in [BucketIds -> Int]
      /\ \A b \in BucketIds : Plus(column, d)[b] = column[b] + d[b]
  BY <1>1 DEF Plus
<1>4. SumFunction(Plus(column, d)) = SumFunction(column) + SumFunction(d)
  BY <1>1, <1>2, <1>3, ColumnsAdd
<1>5. /\ Minus(column, d) \in [BucketIds -> Int]
      /\ \A b \in BucketIds : column[b] = Minus(column, d)[b] + d[b]
  BY <1>1 DEF Minus
<1>6. SumFunction(column) = SumFunction(Minus(column, d)) + SumFunction(d)
  BY <1>1, <1>2, <1>5, ColumnsAdd
<1>7. SumFunction(column) \in Int /\ SumFunction(Minus(column, d)) \in Int
  BY <1>2, <1>5, SumInt
<1>8. QED
  BY <1>1, <1>4, <1>6, <1>7

(* What a draw guarantees of each bucket: it takes a natural number of      *)
(* points, from the source buckets only, and never more than they hold.     *)
LEMMA DrawsBounds ==
  ASSUME NEW S, NEW stock, stock \in [BucketIds -> Nat],
         NEW points \in Nat, NEW c, NEW d \in Draws(c, S, stock, points)
  PROVE  /\ d \in [BucketIds -> Nat]
         /\ \A b \in BucketIds : d[b] <= stock[b]
         /\ \A b \in BucketIds : b \notin S => d[b] = 0
<1>1. d \in [BucketIds -> 0..points]
  BY DEF Draws
<1>2. \A b \in BucketIds : d[b] \in Nat /\ d[b] <= IF b \in S THEN stock[b] ELSE 0
  BY <1>1 DEF Draws
<1>3. d \in [BucketIds -> Nat]
  BY <1>1
<1>4. \A b \in BucketIds : d[b] <= stock[b]
  BY <1>2
<1>5. \A b \in BucketIds : b \notin S => d[b] = 0
  BY <1>2
<1>6. QED
  BY <1>3, <1>4, <1>5

(* Adding and subtracting a draw keeps a column of natural numbers.         *)
LEMMA ColumnTypes ==
  ASSUME NEW column \in [BucketIds -> Nat], NEW d \in [BucketIds -> Nat],
         \A b \in BucketIds : d[b] <= column[b]
  PROVE  Minus(column, d) \in [BucketIds -> Nat]
BY DEF Minus

--------------------------------------------------------------------------------
(* The invariants *)

(* A row that is not created yet is blank *)
RowsBlank ==
  /\ \A b \in BucketIds :
       bucket[b].status = "absent" =>
         /\ bucket[b].granted = 0 /\ available[b] = 0 /\ reserved[b] = 0
         /\ expired[b] = 0 /\ consumed_posted[b] = 0
  /\ \A r \in ReservationIds :
       reservation[r].status = "absent" =>
         reservation[r].source = {} /\ remaining[r] = 0

(* A copy c of the bucket b is of a row that was blank or had the same grant *)
BucketCopied(c, b) ==
  /\ bucket[b].status = "absent" => c.bucket[b].status = "absent"
  /\ IF c.bucket[b].status = "absent"
       THEN /\ c.bucket[b].granted = 0 /\ c.available[b] = 0 /\ c.reserved[b] = 0
            /\ c.expired[b] = 0
       ELSE c.bucket[b].granted = bucket[b].granted

ReservationCopied(c, r) ==
  /\ reservation[r].status = "absent" => c.reservation[r].status = "absent"
  /\ c.reservation[r].status = "absent" => c.remaining[r] = 0
  /\ ~drifted =>
       (c.reservation[r].status \in {"absent", "settled", "released"}
          <=> c.remaining[r] = 0)

Copied(c) ==
  /\ \A b \in BucketIds : BucketCopied(c, b)
  /\ \A r \in ReservationIds : ReservationCopied(c, r)

CopiesInv == \A s \in Sessions : Copied(copy[s])

Inv == TypeOK /\ RowsBlank /\ CopiesInv /\ PostingsConserve /\ ReservationLifecycle

--------------------------------------------------------------------------------
(* What a command may have done to its copy c when it commits it as new:    *)
(* q is what it posts as consumed.                                          *)

(* A bucket that it has read keeps its grant; a bucket that it has not read *)
(* is left alone or created.  Points are moved, not lost.                   *)
BucketShape(c, new, q, b) ==
  /\ new.bucket[b].granted - c.bucket[b].granted =
       (new.available[b] - c.available[b]) + (new.reserved[b] - c.reserved[b])
         + (new.expired[b] - c.expired[b]) + q[b]
  /\ IF c.bucket[b].status # "absent"
       THEN /\ new.bucket[b].status # "absent"
            /\ new.bucket[b].granted = c.bucket[b].granted
       ELSE \/ /\ new.bucket[b] = c.bucket[b] /\ new.available[b] = c.available[b]
               /\ new.reserved[b] = c.reserved[b] /\ new.expired[b] = c.expired[b]
               /\ q[b] = 0
            \/ /\ bucket[b].status = "absent" /\ new.bucket[b].status # "absent"
               /\ q[b] = 0

(* The reservation r is created from the soonest to expire, *)
Created(c, new, r) ==
  /\ reservation[r].status = "absent"
  /\ new.reservation[r].status = "reserved"
  /\ new.remaining[r] > 0 /\ new.remaining[r] = new.reservation[r].points
  /\ \A b \in new.reservation[r].source :
       /\ ~Lapsed(c, b)
       /\ \A a \in BucketIds :
            /\ c.bucket[a].status = "active" /\ ~Lapsed(c, a) /\ c.available[a] > 0
            /\ c.bucket[a].expires_at < c.bucket[b].expires_at
            => new.available[a] = 0 /\ new.available[a] # c.available[a]

(* or shrinks, and is closed when nothing remains *)
Shrunk(c, new, r) ==
  /\ new.remaining[r] < c.remaining[r]
  /\ new.reservation[r].points = c.reservation[r].points
  /\ new.reservation[r].source = c.reservation[r].source
  /\ IF new.remaining[r] = 0
       THEN new.reservation[r].status \in {"settled", "released"}
       ELSE new.reservation[r].status \in {"partially_settled", c.reservation[r].status}

ReservationShape(c, new, r) ==
  \/ new.reservation[r] = c.reservation[r] /\ new.remaining[r] = c.remaining[r]
  \/ Created(c, new, r)
  \/ Shrunk(c, new, r)

GrantedOf(buckets) == [b \in BucketIds |-> buckets[b].granted]

(* The ways points can go, as changes of what is available, reserved,       *)
(* expired, granted and spent                                               *)
OneWay(da, dr, de, dg, ds) ==
  \/ da > 0 /\ dr = 0 /\ de = 0 /\ dg = da /\ ds = 0
  \/ da <= 0 /\ dr = -da /\ de = 0 /\ dg = 0 /\ ds = 0
  \/ da = 0 /\ dr <= 0 /\ de = 0 /\ dg = 0 /\ ds = -dr
  \/ da >= 0 /\ dr = -da /\ de = 0 /\ dg = 0 /\ ds = 0
  \/ da > 0 /\ dr = 0 /\ de = 0 /\ dg = 0 /\ ds = -da
  \/ da <= 0 /\ dr = 0 /\ de = -da /\ dg = 0 /\ ds = 0

(* The event moves points one way, by as much as the rows do. *)
SumShape(c, new, q) ==
  LET da == SumFunction(new.available) - SumFunction(c.available)
      dr == SumFunction(new.reserved) - SumFunction(c.reserved)
      de == SumFunction(new.expired) - SumFunction(c.expired)
      dg == SumFunction(GrantedOf(new.bucket)) - SumFunction(GrantedOf(c.bucket))
  IN
  /\ new.account.available = c.account.available + da
  /\ new.account.reserved = c.account.reserved + dr
  /\ SumFunction(new.remaining) = SumFunction(c.remaining) + dr
  /\ OneWay(da, dr, de, dg, SumFunction(q))

Shape(c, new, q, unposted) ==
  /\ new \in CopyType
  /\ q \in [BucketIds -> Int]
  /\ \A b \in BucketIds : BucketShape(c, new, q, b)
  /\ \A r \in ReservationIds : ReservationShape(c, new, r)
  /\ unposted = {} => SumShape(c, new, q)

(* The step of a command *)
Executes(s, new, q, unposted) ==
  /\ Shape(copy[s], new, q, unposted)
  /\ Commit(s, new, unposted)
  /\ consumed_posted' = Plus(consumed_posted, q)
  /\ now' = now
  /\ grant_dates' \subseteq Nat

--------------------------------------------------------------------------------
(* What a commit does to the rows *)

(* The fields of a copy *)
LEMMA CopyFields ==
  ASSUME NEW c \in CopyType
  PROVE  /\ c.at \in Nat
         /\ c.account \in [available: Nat, reserved: Nat]
         /\ c.bucket \in [BucketIds -> BucketType]
         /\ c.available \in [BucketIds -> Nat]
         /\ c.reserved \in [BucketIds -> Nat]
         /\ c.expired \in [BucketIds -> Nat]
         /\ c.reservation \in [ReservationIds -> ReservationType]
         /\ c.remaining \in [ReservationIds -> Nat]
BY DEF CopyType

(* A merged column is of the type of the two                                *)
LEMMA MergeTypes ==
  ASSUME NEW I, NEW T, NEW f \in [I -> T], NEW old \in [I -> T], NEW new \in [I -> T]
  PROVE  /\ Merge(f, old, new) \in [I -> T]
         /\ \A x \in I : Merge(f, old, new)[x] =
                           IF new[x] = old[x] THEN f[x] ELSE new[x]
BY DEF Merge

(* Where nothing is lost, a column changes by as much as its copy           *)
LEMMA MergeMoves ==
  ASSUME NEW I, NEW f \in [I -> Nat], NEW old \in [I -> Nat], NEW new \in [I -> Nat],
         NEW x \in I, x \notin Lost(f, old, new)
  PROVE  Merge(f, old, new)[x] + old[x] = f[x] + new[x]
<1>1. f[x] \in Nat /\ old[x] \in Nat /\ new[x] \in Nat
  OBVIOUS
<1>2. new[x] = old[x] \/ f[x] = old[x]
  BY DEF Lost
<1>3. Merge(f, old, new)[x] = IF new[x] = old[x] THEN f[x] ELSE new[x]
  BY DEF Merge
<1> QED
  BY <1>1, <1>2, <1>3

(* So the sums of the columns do                                            *)
LEMMA SumsFollow ==
  ASSUME NEW I, IsFiniteSet(I), NEW f \in [I -> Int], NEW g \in [I -> Int],
         NEW old \in [I -> Int], NEW new \in [I -> Int],
         \A x \in I : g[x] + old[x] = f[x] + new[x]
  PROVE  /\ SumFunction(g) = SumFunction(f) + (SumFunction(new) - SumFunction(old))
         /\ SumFunction(f) \in Int /\ SumFunction(g) \in Int
         /\ SumFunction(old) \in Int /\ SumFunction(new) \in Int
<1> DEFINE h == [x \in I |-> g[x] + old[x]]
<1>1. h \in [I -> Int] /\ \A x \in I : h[x] = g[x] + old[x]
  OBVIOUS
<1>2. \A x \in I : h[x] = f[x] + new[x]
  BY <1>1
<1> HIDE DEF h
<1>3. SumFunction(h) = SumFunction(g) + SumFunction(old)
  BY <1>1, ColumnsAdd
<1>4. SumFunction(h) = SumFunction(f) + SumFunction(new)
  BY <1>1, <1>2, ColumnsAdd
<1>5. /\ SumFunction(f) \in Int /\ SumFunction(g) \in Int
      /\ SumFunction(old) \in Int /\ SumFunction(new) \in Int
  BY SumInt
<1>6. SumFunction(g) + SumFunction(old) = SumFunction(f) + SumFunction(new)
  BY <1>3, <1>4
<1>7. PICK a \in Int, b \in Int, d \in Int, e \in Int :
        /\ a = SumFunction(g) /\ b = SumFunction(old)
        /\ d = SumFunction(f) /\ e = SumFunction(new)
  BY <1>5
<1>8. a = d + (e - b)
  <2>1. a + b = d + e
    BY <1>6, <1>7
  <2> QED
    BY <2>1
<1> QED
  BY <1>5, <1>7, <1>8

(* The invariant holds at the start                                         *)
LEMMA InitInv == Init => Inv
<1> SUFFICES ASSUME Init PROVE Inv
  OBVIOUS
<1>1. NoBucket \in BucketType /\ NoBucket.status = "absent" /\ NoBucket.granted = 0
  BY DEF NoBucket, BucketType
<1>2. /\ NoReservation \in ReservationType /\ NoReservation.source = {}
      /\ NoReservation.status = "absent" /\ NoReservation.points = 0
  BY DEF NoReservation, ReservationType
<1>3. /\ NoCopy \in CopyType
      /\ NoCopy.bucket = [b \in BucketIds |-> NoBucket]
      /\ NoCopy.available = Zero /\ NoCopy.reserved = Zero /\ NoCopy.expired = Zero
      /\ NoCopy.reservation = [r \in ReservationIds |-> NoReservation]
      /\ NoCopy.remaining = [r \in ReservationIds |-> 0]
  BY <1>1, <1>2 DEF NoCopy, CopyType, Zero, NoPoints
<1>4. /\ Zero \in [BucketIds -> Nat] /\ \A b \in BucketIds : Zero[b] = 0
      /\ NoPoints \in [available: Nat, reserved: Nat]
  BY DEF Zero, NoPoints
<1>5. TypeOK
  <2>1. /\ bucket \in [BucketIds -> BucketType]
        /\ reservation \in [ReservationIds -> ReservationType]
        /\ remaining \in [ReservationIds -> Nat]
        /\ copy \in [Sessions -> CopyType]
    BY <1>1, <1>2, <1>3 DEF Init
  <2>2. /\ now \in Nat /\ account \in [available: Nat, reserved: Nat]
        /\ available \in [BucketIds -> Nat] /\ reserved \in [BucketIds -> Nat]
        /\ expired \in [BucketIds -> Nat] /\ consumed_posted \in [BucketIds -> Int]
    BY <1>4 DEF Init
  <2> QED
    BY <2>1, <2>2 DEF Init, TypeOK
<1>6. RowsBlank
  BY <1>1, <1>2, <1>3, <1>4 DEF Init, RowsBlank
<1>7. CopiesInv
  <2> SUFFICES ASSUME NEW s \in Sessions PROVE Copied(NoCopy)
    BY DEF CopiesInv, Init
  <2> QED
    BY <1>1, <1>2, <1>3, <1>4 DEF Copied, BucketCopied, ReservationCopied, Init
<1>8. PostingsConserve
  BY <1>1, <1>3, <1>4 DEF Init, PostingsConserve
<1>9. ReservationLifecycle
  BY <1>2, <1>3 DEF Init, ReservationLifecycle
<1> QED
  BY <1>5, <1>6, <1>7, <1>8, <1>9 DEF Inv

(* What a command's commit does to the row of a bucket                      *)
LEMMA BucketCommit ==
  ASSUME Inv, NEW s \in Sessions, NEW new, NEW q, NEW unposted,
         Executes(s, new, q, unposted), NEW b \in BucketIds
  PROVE  /\ bucket'[b].granted + copy[s].bucket[b].granted
              = bucket[b].granted + new.bucket[b].granted
         /\ bucket[b].status # "absent" =>
              bucket'[b].status # "absent" /\ bucket'[b].granted = bucket[b].granted
         /\ bucket'[b].status = "absent" =>
              /\ bucket'[b] = bucket[b] /\ available'[b] = available[b]
              /\ reserved'[b] = reserved[b] /\ expired'[b] = expired[b]
              /\ consumed_posted'[b] = consumed_posted[b]
<1> DEFINE c == copy[s]
<1>1. /\ c \in CopyType /\ new \in CopyType /\ BucketCopied(c, b)
      /\ BucketShape(c, new, q, b) /\ q \in [BucketIds -> Int]
  BY DEF Inv, TypeOK, CopiesInv, Copied, Executes, Shape
<1>2. /\ bucket' = Merge(bucket, c.bucket, new.bucket)
      /\ available' = Merge(available, c.available, new.available)
      /\ reserved' = Merge(reserved, c.reserved, new.reserved)
      /\ expired' = Merge(expired, c.expired, new.expired)
      /\ consumed_posted' = Plus(consumed_posted, q)
  BY DEF Executes, Commit
<1>3. /\ bucket \in [BucketIds -> BucketType] /\ available \in [BucketIds -> Nat]
      /\ reserved \in [BucketIds -> Nat] /\ expired \in [BucketIds -> Nat]
      /\ consumed_posted \in [BucketIds -> Int]
  BY DEF Inv, TypeOK
<1> HIDE DEF c
<1>4. /\ c.bucket \in [BucketIds -> BucketType] /\ c.available \in [BucketIds -> Nat]
      /\ c.reserved \in [BucketIds -> Nat] /\ c.expired \in [BucketIds -> Nat]
      /\ new.bucket \in [BucketIds -> BucketType] /\ new.available \in [BucketIds -> Nat]
      /\ new.reserved \in [BucketIds -> Nat] /\ new.expired \in [BucketIds -> Nat]
  BY <1>1, CopyFields
<1>5. /\ bucket'[b] = IF new.bucket[b] = c.bucket[b] THEN bucket[b] ELSE new.bucket[b]
      /\ available'[b] = IF new.available[b] = c.available[b]
                           THEN available[b] ELSE new.available[b]
      /\ reserved'[b] = IF new.reserved[b] = c.reserved[b]
                          THEN reserved[b] ELSE new.reserved[b]
      /\ expired'[b] = IF new.expired[b] = c.expired[b] THEN expired[b] ELSE new.expired[b]
      /\ consumed_posted'[b] = consumed_posted[b] + q[b]
  BY <1>2, <1>3, <1>4 DEF Merge, Plus
<1>6. /\ bucket[b].granted \in Nat /\ c.bucket[b].granted \in Nat
      /\ new.bucket[b].granted \in Nat /\ consumed_posted[b] \in Int
  <2>1. bucket[b] \in BucketType /\ c.bucket[b] \in BucketType /\ new.bucket[b] \in BucketType
    BY <1>3, <1>4
  <2> QED
    BY <2>1, <1>3 DEF BucketType
<1> SUFFICES /\ bucket'[b].granted + c.bucket[b].granted
                  = bucket[b].granted + new.bucket[b].granted
             /\ bucket[b].status # "absent" =>
                  bucket'[b].status # "absent" /\ bucket'[b].granted = bucket[b].granted
             /\ bucket'[b].status = "absent" =>
                  /\ bucket'[b] = bucket[b] /\ available'[b] = available[b]
                  /\ reserved'[b] = reserved[b] /\ expired'[b] = expired[b]
                  /\ consumed_posted'[b] = consumed_posted[b]
  BY DEF c
<1>7. CASE c.bucket[b].status # "absent"
  <2>1. /\ bucket[b].status # "absent" /\ new.bucket[b].status # "absent"
        /\ c.bucket[b].granted = bucket[b].granted
        /\ new.bucket[b].granted = c.bucket[b].granted
    BY <1>7, <1>1 DEF BucketCopied, BucketShape
  <2> QED
    BY <2>1, <1>5, <1>6
<1>8. CASE /\ c.bucket[b].status = "absent"
           /\ new.bucket[b] = c.bucket[b] /\ new.available[b] = c.available[b]
           /\ new.reserved[b] = c.reserved[b] /\ new.expired[b] = c.expired[b]
           /\ q[b] = 0
  BY <1>8, <1>5, <1>6
<1>9. CASE /\ c.bucket[b].status = "absent"
           /\ bucket[b].status = "absent" /\ new.bucket[b].status # "absent"
  <2>1. c.bucket[b].granted = 0 /\ bucket[b].granted = 0
    BY <1>9, <1>1 DEF BucketCopied, Inv, RowsBlank
  <2> QED
    BY <1>9, <2>1, <1>5, <1>6
<1> QED
  BY <1>1, <1>7, <1>8, <1>9 DEF BucketShape

(* A bucket that is not overwritten keeps its postings                      *)
LEMMA BucketConserved ==
  ASSUME Inv, NEW s \in Sessions, NEW new, NEW q, NEW unposted,
         Executes(s, new, q, unposted), NEW b \in BucketIds \ overwritten'
  PROVE  bucket'[b].granted
           = available'[b] + reserved'[b] + expired'[b] + consumed_posted'[b]
<1> DEFINE c == copy[s]
<1>1. /\ c \in CopyType /\ new \in CopyType
      /\ BucketShape(c, new, q, b) /\ q \in [BucketIds -> Int]
  BY DEF Inv, TypeOK, CopiesInv, Copied, Executes, Shape
<1>2. /\ bucket \in [BucketIds -> BucketType] /\ available \in [BucketIds -> Nat]
      /\ reserved \in [BucketIds -> Nat] /\ expired \in [BucketIds -> Nat]
      /\ consumed_posted \in [BucketIds -> Int]
  BY DEF Inv, TypeOK
<1>3. /\ b \notin overwritten
      /\ b \notin Lost(available, c.available, new.available)
      /\ b \notin Lost(reserved, c.reserved, new.reserved)
      /\ b \notin Lost(expired, c.expired, new.expired)
      /\ available' = Merge(available, c.available, new.available)
      /\ reserved' = Merge(reserved, c.reserved, new.reserved)
      /\ expired' = Merge(expired, c.expired, new.expired)
      /\ consumed_posted' = Plus(consumed_posted, q)
  BY DEF Executes, Commit
<1>4. bucket'[b].granted + c.bucket[b].granted = bucket[b].granted + new.bucket[b].granted
  BY BucketCommit
<1>5. bucket[b].granted = available[b] + reserved[b] + expired[b] + consumed_posted[b]
  BY <1>3 DEF Inv, PostingsConserve
<1>6. new.bucket[b].granted - c.bucket[b].granted =
        (new.available[b] - c.available[b]) + (new.reserved[b] - c.reserved[b])
          + (new.expired[b] - c.expired[b]) + q[b]
  BY <1>1 DEF BucketShape
<1> HIDE DEF c
<1>7. /\ c.bucket \in [BucketIds -> BucketType] /\ c.available \in [BucketIds -> Nat]
      /\ c.reserved \in [BucketIds -> Nat] /\ c.expired \in [BucketIds -> Nat]
      /\ new.bucket \in [BucketIds -> BucketType] /\ new.available \in [BucketIds -> Nat]
      /\ new.reserved \in [BucketIds -> Nat] /\ new.expired \in [BucketIds -> Nat]
  BY <1>1, CopyFields
<1>8. available'[b] + c.available[b] = available[b] + new.available[b]
  <2>1. /\ available \in [BucketIds -> Nat] /\ c.available \in [BucketIds -> Nat]
        /\ new.available \in [BucketIds -> Nat] /\ b \in BucketIds
        /\ b \notin Lost(available, c.available, new.available)
    BY <1>2, <1>3, <1>7
  <2>2. Merge(available, c.available, new.available)[b] + c.available[b] = available[b] + new.available[b]
    BY <2>1, MergeMoves
  <2> QED
    BY <2>2, <1>3
<1>9. reserved'[b] + c.reserved[b] = reserved[b] + new.reserved[b]
  <2>1. /\ reserved \in [BucketIds -> Nat] /\ c.reserved \in [BucketIds -> Nat]
        /\ new.reserved \in [BucketIds -> Nat] /\ b \in BucketIds
        /\ b \notin Lost(reserved, c.reserved, new.reserved)
    BY <1>2, <1>3, <1>7
  <2>2. Merge(reserved, c.reserved, new.reserved)[b] + c.reserved[b] = reserved[b] + new.reserved[b]
    BY <2>1, MergeMoves
  <2> QED
    BY <2>2, <1>3
<1>10. expired'[b] + c.expired[b] = expired[b] + new.expired[b]
  <2>1. /\ expired \in [BucketIds -> Nat] /\ c.expired \in [BucketIds -> Nat]
        /\ new.expired \in [BucketIds -> Nat] /\ b \in BucketIds
        /\ b \notin Lost(expired, c.expired, new.expired)
    BY <1>2, <1>3, <1>7
  <2>2. Merge(expired, c.expired, new.expired)[b] + c.expired[b] = expired[b] + new.expired[b]
    BY <2>1, MergeMoves
  <2> QED
    BY <2>2, <1>3
<1>11. consumed_posted'[b] = consumed_posted[b] + q[b]
  BY <1>3 DEF Plus
<1>12. /\ available'[b] \in Nat /\ reserved'[b] \in Nat /\ expired'[b] \in Nat
       /\ bucket'[b] \in BucketType
  <2>1. /\ bucket' = Merge(bucket, c.bucket, new.bucket)
    BY DEF Executes, Commit, c
  <2> QED
    BY <1>2, <1>3, <1>7, <2>1 DEF Merge
<1>13. /\ bucket'[b].granted \in Nat /\ bucket[b].granted \in Nat
       /\ c.bucket[b].granted \in Nat /\ new.bucket[b].granted \in Nat
  <2>1. bucket[b] \in BucketType /\ c.bucket[b] \in BucketType /\ new.bucket[b] \in BucketType
    BY <1>2, <1>7
  <2> QED
    BY <2>1, <1>12 DEF BucketType
<1>14. /\ available[b] \in Nat /\ reserved[b] \in Nat /\ expired[b] \in Nat
       /\ consumed_posted[b] \in Int /\ q[b] \in Int
       /\ c.available[b] \in Nat /\ c.reserved[b] \in Nat /\ c.expired[b] \in Nat
       /\ new.available[b] \in Nat /\ new.reserved[b] \in Nat /\ new.expired[b] \in Nat
  BY <1>1, <1>2, <1>7
<1>15. available'[b] = available[b] + (new.available[b] - c.available[b])
  BY <1>8, <1>12, <1>14
<1>16. reserved'[b] = reserved[b] + (new.reserved[b] - c.reserved[b])
  BY <1>9, <1>12, <1>14
<1>17. expired'[b] = expired[b] + (new.expired[b] - c.expired[b])
  BY <1>10, <1>12, <1>14
<1>18. bucket'[b].granted = bucket[b].granted + (new.bucket[b].granted - c.bucket[b].granted)
  BY <1>4, <1>13
<1> QED
  BY <1>5, <1>6, <1>11, <1>13, <1>14, <1>15, <1>16, <1>17, <1>18

(* What a command's commit does to the row of a reservation                 *)
LEMMA ReservationCommit ==
  ASSUME Inv, NEW s \in Sessions, NEW new, NEW q, NEW unposted,
         Executes(s, new, q, unposted), NEW r \in ReservationIds
  PROVE  /\ reservation'[r].status = "absent" =>
              reservation'[r] = reservation[r] /\ remaining'[r] = remaining[r]
         /\ ~drifted' =>
              \/ reservation'[r] = reservation[r] /\ remaining'[r] = remaining[r]
              \/ /\ reservation[r].status = "absent"
                 /\ reservation'[r].status = "reserved"
                 /\ remaining'[r] > 0 /\ remaining'[r] = reservation'[r].points
              \/ /\ reservation[r].status \notin {"absent", "settled", "released"}
                 /\ remaining'[r] < remaining[r]
                 /\ reservation'[r].points = reservation[r].points
                 /\ IF remaining'[r] = 0
                      THEN reservation'[r].status \in {"settled", "released"}
                      ELSE reservation'[r].status \in {"partially_settled",
                                                       reservation[r].status}
<1> DEFINE c == copy[s]
<1>1. /\ c \in CopyType /\ new \in CopyType /\ ReservationCopied(c, r)
      /\ ReservationShape(c, new, r)
  BY DEF Inv, TypeOK, CopiesInv, Copied, Executes, Shape
<1>2. /\ reservation' = Merge(reservation, c.reservation, new.reservation)
      /\ remaining' = Merge(remaining, c.remaining, new.remaining)
      /\ reservation \in [ReservationIds -> ReservationType]
      /\ remaining \in [ReservationIds -> Nat]
  BY DEF Executes, Commit, Inv, TypeOK
<1>3. ~drifted' => /\ ~drifted
                   /\ r \notin Lost(reservation, c.reservation, new.reservation)
                   /\ r \notin Lost(remaining, c.remaining, new.remaining)
  BY DEF Executes, Commit
<1>4. /\ reservation[r].status = "absent" => remaining[r] = 0
      /\ ~drifted =>
           (reservation[r].status \in {"absent", "settled", "released"} <=> remaining[r] = 0)
  BY DEF Inv, RowsBlank, ReservationLifecycle
<1> HIDE DEF c
<1>5. /\ c.reservation \in [ReservationIds -> ReservationType]
      /\ c.remaining \in [ReservationIds -> Nat]
      /\ new.reservation \in [ReservationIds -> ReservationType]
      /\ new.remaining \in [ReservationIds -> Nat]
  BY <1>1, CopyFields
<1>6. /\ reservation'[r] = IF new.reservation[r] = c.reservation[r]
                             THEN reservation[r] ELSE new.reservation[r]
      /\ remaining'[r] = IF new.remaining[r] = c.remaining[r]
                           THEN remaining[r] ELSE new.remaining[r]
  BY <1>2, <1>5 DEF Merge
<1>7. /\ remaining[r] \in Nat /\ c.remaining[r] \in Nat /\ new.remaining[r] \in Nat
  BY <1>2, <1>5
<1>8. ~drifted' => /\ new.reservation[r] = c.reservation[r]
                        \/ reservation[r] = c.reservation[r]
                   /\ new.remaining[r] = c.remaining[r] \/ remaining[r] = c.remaining[r]
  BY <1>2, <1>3 DEF Lost
<1>9. CASE new.reservation[r] = c.reservation[r] /\ new.remaining[r] = c.remaining[r]
  BY <1>9, <1>6
<1>10. CASE Created(c, new, r)
  <2>1. /\ reservation[r].status = "absent" /\ c.reservation[r].status = "absent"
        /\ c.remaining[r] = 0 /\ new.reservation[r].status = "reserved"
        /\ new.remaining[r] > 0 /\ new.remaining[r] = new.reservation[r].points
    BY <1>10, <1>1 DEF Created, ReservationCopied
  <2>2. new.reservation[r] # c.reservation[r] /\ new.remaining[r] # c.remaining[r]
    BY <2>1
  <2> QED
    BY <2>1, <2>2, <1>6
<1>11. CASE Shrunk(c, new, r)
  <2>1. /\ new.remaining[r] < c.remaining[r]
        /\ new.reservation[r].points = c.reservation[r].points
        /\ IF new.remaining[r] = 0
             THEN new.reservation[r].status \in {"settled", "released"}
             ELSE new.reservation[r].status \in {"partially_settled", c.reservation[r].status}
    BY <1>11 DEF Shrunk
  <2>2. /\ c.remaining[r] # 0 /\ c.reservation[r].status # "absent"
        /\ reservation[r].status # "absent" /\ remaining'[r] = new.remaining[r]
    BY <2>1, <1>1, <1>6, <1>7 DEF ReservationCopied
  <2>3. reservation'[r].status # "absent"
    BY <2>1, <2>2, <1>6
  <2>4. ASSUME ~drifted'
        PROVE  /\ reservation[r].status \notin {"absent", "settled", "released"}
               /\ remaining'[r] < remaining[r]
               /\ reservation'[r].points = reservation[r].points
               /\ IF remaining'[r] = 0
                    THEN reservation'[r].status \in {"settled", "released"}
                    ELSE reservation'[r].status \in {"partially_settled",
                                                     reservation[r].status}
    <3>1. ~drifted /\ remaining[r] = c.remaining[r]
      BY <2>4, <2>1, <1>3, <1>7, <1>8
    <3>2. /\ reservation[r].status \notin {"absent", "settled", "released"}
          /\ c.reservation[r].status \notin {"absent", "settled", "released"}
      BY <3>1, <2>2, <1>1, <1>4 DEF ReservationCopied
    <3>3. remaining'[r] < remaining[r]
      BY <2>1, <2>2, <3>1
    <3>4. CASE new.reservation[r] = c.reservation[r]
      BY <3>4, <3>2, <3>3, <2>1, <2>2, <1>6
    <3>5. CASE new.reservation[r] # c.reservation[r]
      <4>1. reservation[r] = c.reservation[r] /\ reservation'[r] = new.reservation[r]
        BY <3>5, <2>4, <1>6, <1>8
      <4> QED
        BY <4>1, <3>2, <3>3, <2>1, <2>2
    <3> QED
      BY <3>4, <3>5
  <2> QED
    BY <2>3, <2>4
<1> QED
  BY <1>1, <1>9, <1>10, <1>11 DEF ReservationShape

(* A copy stays one of the rows when another session commits                *)
LEMMA CopiesCommit ==
  ASSUME Inv, NEW s \in Sessions, NEW new, NEW q, NEW unposted,
         Executes(s, new, q, unposted), NEW c \in CopyType, Copied(c)
  PROVE  Copied(c)'
<1> SUFFICES (\A b \in BucketIds : BucketCopied(c, b)')
               /\ (\A r \in ReservationIds : ReservationCopied(c, r)')
  BY DEF Copied
<1>1. ASSUME NEW b \in BucketIds PROVE BucketCopied(c, b)'
  <2>1. BucketCopied(c, b)
    BY DEF Copied
  <2>2. /\ bucket'[b].status = "absent" => bucket[b].status = "absent"
        /\ bucket[b].status # "absent" => bucket'[b].granted = bucket[b].granted
    BY BucketCommit
  <2> QED
    BY <2>1, <2>2 DEF BucketCopied
<1>2. ASSUME NEW r \in ReservationIds PROVE ReservationCopied(c, r)'
  <2>1. ReservationCopied(c, r)
    BY DEF Copied
  <2>2. reservation'[r].status = "absent" => reservation[r].status = "absent"
    BY ReservationCommit
  <2>3. ~drifted' => ~drifted
    BY DEF Executes, Commit
  <2> QED
    BY <2>1, <2>2, <2>3 DEF ReservationCopied
<1> QED
  BY <1>1, <1>2

(* The empty copy is a copy of any rows                                     *)
LEMMA NoCopyCopied == NoCopy \in CopyType /\ Copied(NoCopy)
<1>1. /\ NoBucket \in BucketType /\ NoBucket.status = "absent" /\ NoBucket.granted = 0
      /\ NoReservation \in ReservationType /\ NoReservation.status = "absent"
  BY DEF NoBucket, BucketType, NoReservation, ReservationType
<1>2. /\ NoCopy \in CopyType
      /\ NoCopy.bucket = [b \in BucketIds |-> NoBucket]
      /\ NoCopy.available = Zero /\ NoCopy.reserved = Zero /\ NoCopy.expired = Zero
      /\ NoCopy.reservation = [r \in ReservationIds |-> NoReservation]
      /\ NoCopy.remaining = [r \in ReservationIds |-> 0]
  BY <1>1 DEF NoCopy, CopyType, Zero, NoPoints
<1>3. \A b \in BucketIds : Zero[b] = 0
  BY DEF Zero
<1> QED
  BY <1>1, <1>2, <1>3 DEF Copied, BucketCopied, ReservationCopied

(* The commit of a command preserves the invariant                          *)
LEMMA CommitInv ==
  ASSUME Inv, NEW s \in Sessions, NEW new, NEW q, NEW unposted,
         Executes(s, new, q, unposted)
  PROVE  Inv'
<1> DEFINE c == copy[s]
<1>1. c \in CopyType /\ new \in CopyType /\ q \in [BucketIds -> Int] /\ TypeOK
  BY DEF Inv, TypeOK, Executes, Shape
<1>2. TypeOK'
  <2> HIDE DEF c
  <2>1. /\ c.account \in [available: Nat, reserved: Nat]
        /\ c.bucket \in [BucketIds -> BucketType] /\ c.available \in [BucketIds -> Nat]
        /\ c.reserved \in [BucketIds -> Nat] /\ c.expired \in [BucketIds -> Nat]
        /\ c.reservation \in [ReservationIds -> ReservationType]
        /\ c.remaining \in [ReservationIds -> Nat]
    BY <1>1, CopyFields
  <2>2. /\ new.account \in [available: Nat, reserved: Nat]
        /\ new.bucket \in [BucketIds -> BucketType] /\ new.available \in [BucketIds -> Nat]
        /\ new.reserved \in [BucketIds -> Nat] /\ new.expired \in [BucketIds -> Nat]
        /\ new.reservation \in [ReservationIds -> ReservationType]
        /\ new.remaining \in [ReservationIds -> Nat]
    BY <1>1, CopyFields
  <2>3. /\ account' = Merge(account, c.account, new.account)
        /\ bucket' = Merge(bucket, c.bucket, new.bucket)
        /\ available' = Merge(available, c.available, new.available)
        /\ reserved' = Merge(reserved, c.reserved, new.reserved)
        /\ expired' = Merge(expired, c.expired, new.expired)
        /\ reservation' = Merge(reservation, c.reservation, new.reservation)
        /\ remaining' = Merge(remaining, c.remaining, new.remaining)
    BY DEF Executes, Commit, c
  <2>4. account' \in [available: Nat, reserved: Nat]
    <3>1. account' = [x \in {"available", "reserved"} |->
                        IF new.account[x] = c.account[x]
                          THEN account[x] ELSE new.account[x]]
      <4>1. DOMAIN account = {"available", "reserved"}
        BY <1>1 DEF TypeOK
      <4> QED
        BY <4>1, <2>3 DEF Merge
    <3>2. /\ account["available"] \in Nat /\ account["reserved"] \in Nat
          /\ new.account["available"] \in Nat /\ new.account["reserved"] \in Nat
      BY <1>1, <2>2 DEF TypeOK
    <3> QED
      BY <3>1, <3>2
  <2>5. bucket' \in [BucketIds -> BucketType]
    BY <1>1, <2>1, <2>2, <2>3, MergeTypes DEF TypeOK
  <2>6. /\ available' \in [BucketIds -> Nat] /\ reserved' \in [BucketIds -> Nat]
        /\ expired' \in [BucketIds -> Nat]
    BY <1>1, <2>1, <2>2, <2>3, MergeTypes DEF TypeOK
  <2>7. reservation' \in [ReservationIds -> ReservationType]
    BY <1>1, <2>1, <2>2, <2>3, MergeTypes DEF TypeOK
  <2>8. remaining' \in [ReservationIds -> Nat]
    BY <1>1, <2>1, <2>2, <2>3, MergeTypes DEF TypeOK
  <2>9. now' \in Nat /\ grant_dates' \subseteq Nat /\ consumed_posted' \in [BucketIds -> Int]
    BY <1>1 DEF Executes, TypeOK, Plus
  <2>10. doing' \in [Sessions -> {"idle", "account", "rows", "due", "expiry"}]
    BY <1>1 DEF Executes, Commit, End, TypeOK
  <2>11. copy' \in [Sessions -> CopyType]
    BY <1>1, NoCopyCopied DEF Executes, Commit, End, TypeOK
  <2>12. overwritten' \subseteq BucketIds
    <3>1. /\ Lost(available, c.available, new.available) \subseteq BucketIds
          /\ Lost(reserved, c.reserved, new.reserved) \subseteq BucketIds
          /\ Lost(expired, c.expired, new.expired) \subseteq BucketIds
      BY <1>1 DEF Lost, TypeOK
    <3> QED
      BY <1>1, <3>1 DEF Executes, Commit, TypeOK, c
  <2>13. drifted' \in BOOLEAN
    BY <1>1 DEF Executes, Commit, TypeOK
  <2> QED
    BY <2>4, <2>5, <2>6, <2>7, <2>8, <2>9, <2>10, <2>11, <2>12, <2>13 DEF TypeOK
<1>3. RowsBlank'
  <2>1. ASSUME NEW b \in BucketIds, bucket'[b].status = "absent"
        PROVE  /\ bucket'[b].granted = 0 /\ available'[b] = 0 /\ reserved'[b] = 0
               /\ expired'[b] = 0 /\ consumed_posted'[b] = 0
    BY <2>1, BucketCommit DEF Inv, RowsBlank
  <2>2. ASSUME NEW r \in ReservationIds, reservation'[r].status = "absent"
        PROVE  reservation'[r].source = {} /\ remaining'[r] = 0
    BY <2>2, ReservationCommit DEF Inv, RowsBlank
  <2> QED
    BY <2>1, <2>2 DEF RowsBlank
<1>4. CopiesInv'
  <2> SUFFICES ASSUME NEW t \in Sessions PROVE Copied(copy[t])'
    BY DEF CopiesInv
  <2>1. copy'[t] = copy[t] \/ copy'[t] = NoCopy
    BY <1>1 DEF Executes, Commit, End, TypeOK
  <2>2. copy[t] \in CopyType /\ Copied(copy[t]) /\ NoCopy \in CopyType /\ Copied(NoCopy)
    BY <1>1, NoCopyCopied DEF Inv, CopiesInv, TypeOK
  <2>3. PICK k \in CopyType : k = copy'[t] /\ Copied(k)
    BY <2>1, <2>2
  <2>4. Copied(k)'
    BY <2>3, CopiesCommit
  <2> QED
    BY <2>3, <2>4 DEF Copied, BucketCopied, ReservationCopied
<1>5. PostingsConserve'
  BY BucketConserved DEF PostingsConserve
<1>6. ReservationLifecycle'
  <2> SUFFICES ASSUME ~drifted', NEW r \in ReservationIds
               PROVE  /\ remaining'[r] <= reservation'[r].points
                      /\ reservation'[r].status \in {"absent", "settled", "released"}
                           <=> remaining'[r] = 0
                      /\ reservation'[r].status = "partially_settled" =>
                           remaining'[r] < reservation'[r].points
    BY DEF ReservationLifecycle
  <2>1. ~drifted
    BY DEF Executes, Commit
  <2>2. /\ remaining[r] <= reservation[r].points
        /\ reservation[r].status \in {"absent", "settled", "released"} <=> remaining[r] = 0
        /\ reservation[r].status = "partially_settled" =>
             remaining[r] < reservation[r].points
    BY <2>1 DEF Inv, ReservationLifecycle
  <2>3. remaining[r] \in Nat /\ remaining'[r] \in Nat /\ reservation[r].points \in Nat
        /\ reservation'[r].points \in Nat
    <3>1. /\ reservation[r] \in ReservationType /\ reservation'[r] \in ReservationType
          /\ remaining[r] \in Nat /\ remaining'[r] \in Nat
      BY <1>1, <1>2 DEF TypeOK
    <3> QED
      BY <3>1 DEF ReservationType
  <2>4. \/ reservation'[r] = reservation[r] /\ remaining'[r] = remaining[r]
        \/ /\ reservation[r].status = "absent"
           /\ reservation'[r].status = "reserved"
           /\ remaining'[r] > 0 /\ remaining'[r] = reservation'[r].points
        \/ /\ reservation[r].status \notin {"absent", "settled", "released"}
           /\ remaining'[r] < remaining[r]
           /\ reservation'[r].points = reservation[r].points
           /\ IF remaining'[r] = 0
                THEN reservation'[r].status \in {"settled", "released"}
                ELSE reservation'[r].status \in {"partially_settled", reservation[r].status}
    BY ReservationCommit
  <2> QED
    BY <2>2, <2>3, <2>4
<1> QED
  BY <1>2, <1>3, <1>4, <1>5, <1>6 DEF Inv

--------------------------------------------------------------------------------
(* What a commit does to the sums *)

(* A column of naturals of which nothing is lost changes its sum by as much *)
(* as the copy of it                                                        *)
LEMMA MergeSums ==
  ASSUME NEW I, IsFiniteSet(I), NEW f \in [I -> Nat], NEW old \in [I -> Nat],
         NEW new \in [I -> Nat], Lost(f, old, new) = {}
  PROVE  /\ SumFunction(Merge(f, old, new)) =
              SumFunction(f) + (SumFunction(new) - SumFunction(old))
         /\ SumFunction(f) \in Nat /\ SumFunction(old) \in Nat /\ SumFunction(new) \in Nat
<1> DEFINE g == Merge(f, old, new)
<1>1. g \in [I -> Nat]
  BY MergeTypes
<1>2. \A x \in I : g[x] + old[x] = f[x] + new[x]
  BY MergeMoves
<1> HIDE DEF g
<1>3. /\ f \in [I -> Int] /\ g \in [I -> Int] /\ old \in [I -> Int] /\ new \in [I -> Int]
  BY <1>1
<1>4. SumFunction(g) = SumFunction(f) + (SumFunction(new) - SumFunction(old))
  BY <1>2, <1>3, SumsFollow
<1>5. SumFunction(f) \in Nat /\ SumFunction(old) \in Nat /\ SumFunction(new) \in Nat
  BY SumNat
<1> QED
  BY <1>4, <1>5 DEF g

(* While nothing is lost, a command moves points one way, by as much on the *)
(* account as in the rows                                                   *)
LEMMA SumsCommit ==
  ASSUME Inv, NEW s \in Sessions, NEW new, NEW q, NEW unposted,
         Executes(s, new, q, unposted), ~drifted'
  PROVE  \E da \in Int, dr \in Int, de \in Int, dg \in Int, ds \in Int :
           /\ OneWay(da, dr, de, dg, ds)
           /\ account'.available = account.available + da
           /\ account'.reserved = account.reserved + dr
           /\ SumFunction(available') = SumFunction(available) + da
           /\ SumFunction(reserved') = SumFunction(reserved) + dr
           /\ SumFunction(expired') = SumFunction(expired) + de
           /\ SumFunction(remaining') = SumFunction(remaining) + dr
           /\ SumFunction(Granted') = SumFunction(Granted) + dg
           /\ SumFunction(consumed_posted') = SumFunction(consumed_posted) + ds
<1> DEFINE c == copy[s]
           da == SumFunction(new.available) - SumFunction(c.available)
           dr == SumFunction(new.reserved) - SumFunction(c.reserved)
           de == SumFunction(new.expired) - SumFunction(c.expired)
           dg == SumFunction(GrantedOf(new.bucket)) - SumFunction(GrantedOf(c.bucket))
<1>1. /\ c \in CopyType /\ new \in CopyType /\ q \in [BucketIds -> Int]
  BY DEF Inv, TypeOK, Executes, Shape
<1>2. /\ unposted = {}
      /\ account' = Merge(account, c.account, new.account)
      /\ bucket' = Merge(bucket, c.bucket, new.bucket)
      /\ available' = Merge(available, c.available, new.available)
      /\ reserved' = Merge(reserved, c.reserved, new.reserved)
      /\ expired' = Merge(expired, c.expired, new.expired)
      /\ remaining' = Merge(remaining, c.remaining, new.remaining)
      /\ consumed_posted' = Plus(consumed_posted, q)
      /\ Lost(account, c.account, new.account) = {}
      /\ Lost(available, c.available, new.available) = {}
      /\ Lost(reserved, c.reserved, new.reserved) = {}
      /\ Lost(expired, c.expired, new.expired) = {}
      /\ Lost(remaining, c.remaining, new.remaining) = {}
  BY DEF Executes, Commit
<1>3. /\ account \in [available: Nat, reserved: Nat]
      /\ bucket \in [BucketIds -> BucketType] /\ available \in [BucketIds -> Nat]
      /\ reserved \in [BucketIds -> Nat] /\ expired \in [BucketIds -> Nat]
      /\ remaining \in [ReservationIds -> Nat]
      /\ consumed_posted \in [BucketIds -> Int]
  BY DEF Inv, TypeOK
<1>4. SumShape(c, new, q)
  BY <1>2 DEF Executes, Shape
<1>5. \A b \in BucketIds :
        bucket'[b].granted + c.bucket[b].granted = bucket[b].granted + new.bucket[b].granted
  BY BucketCommit
<1>6. bucket' \in [BucketIds -> BucketType]
  BY CommitInv DEF Inv, TypeOK
<1> HIDE DEF c
<1>7. /\ c.account \in [available: Nat, reserved: Nat]
      /\ c.bucket \in [BucketIds -> BucketType]
      /\ c.available \in [BucketIds -> Nat] /\ c.reserved \in [BucketIds -> Nat]
      /\ c.expired \in [BucketIds -> Nat] /\ c.remaining \in [ReservationIds -> Nat]
  BY <1>1, CopyFields
<1>8. /\ new.account \in [available: Nat, reserved: Nat]
      /\ new.bucket \in [BucketIds -> BucketType]
      /\ new.available \in [BucketIds -> Nat] /\ new.reserved \in [BucketIds -> Nat]
      /\ new.expired \in [BucketIds -> Nat] /\ new.remaining \in [ReservationIds -> Nat]
  BY <1>1, CopyFields
<1>9. IsFiniteSet(BucketIds) /\ IsFiniteSet(ReservationIds)
  BY RowsAreFinite
<1>10. /\ SumFunction(available') = SumFunction(available) + da
       /\ SumFunction(new.available) \in Nat /\ SumFunction(c.available) \in Nat
  BY <1>2, <1>3, <1>7, <1>8, <1>9, MergeSums
<1>11. /\ SumFunction(reserved') = SumFunction(reserved) + dr
       /\ SumFunction(new.reserved) \in Nat /\ SumFunction(c.reserved) \in Nat
  BY <1>2, <1>3, <1>7, <1>8, <1>9, MergeSums
<1>12. /\ SumFunction(expired') = SumFunction(expired) + de
       /\ SumFunction(new.expired) \in Nat /\ SumFunction(c.expired) \in Nat
  BY <1>2, <1>3, <1>7, <1>8, <1>9, MergeSums
<1>13. SumFunction(remaining') = SumFunction(remaining) + dr
  <2>1. /\ SumFunction(remaining') =
             SumFunction(remaining) + (SumFunction(new.remaining) - SumFunction(c.remaining))
        /\ SumFunction(new.remaining) \in Nat /\ SumFunction(c.remaining) \in Nat
    BY <1>2, <1>3, <1>7, <1>8, <1>9, MergeSums
  <2>2. SumFunction(new.remaining) = SumFunction(c.remaining) + dr
    BY <1>4 DEF SumShape
  <2> QED
    BY <2>1, <2>2, <1>11
<1>14. /\ SumFunction(Granted') = SumFunction(Granted) + dg
       /\ SumFunction(GrantedOf(new.bucket)) \in Int
       /\ SumFunction(GrantedOf(c.bucket)) \in Int
  <2>1. \A x \in [BucketIds -> BucketType] : GrantedOf(x) \in [BucketIds -> Int]
    BY DEF GrantedOf, BucketType
  <2>2. PICK g \in [BucketIds -> Int], h \in [BucketIds -> Int],
             u \in [BucketIds -> Int], v \in [BucketIds -> Int] :
          /\ g = Granted /\ h = Granted'
          /\ u = GrantedOf(c.bucket) /\ v = GrantedOf(new.bucket)
    <3>1. /\ GrantedOf(bucket) \in [BucketIds -> Int]
          /\ GrantedOf(bucket') \in [BucketIds -> Int]
          /\ GrantedOf(c.bucket) \in [BucketIds -> Int]
          /\ GrantedOf(new.bucket) \in [BucketIds -> Int]
      BY <2>1, <1>3, <1>6, <1>7, <1>8
    <3>2. GrantedOf(bucket) = Granted /\ GrantedOf(bucket') = Granted'
      BY DEF GrantedOf, Granted
    <3> QED
      BY <3>1, <3>2
  <2>3. \A b \in BucketIds : h[b] + u[b] = g[b] + v[b]
    BY <1>5, <2>2 DEF GrantedOf, Granted
  <2>4. /\ SumFunction(h) = SumFunction(g) + (SumFunction(v) - SumFunction(u))
        /\ SumFunction(u) \in Int /\ SumFunction(v) \in Int
    BY <2>3, <1>9, SumsFollow
  <2> QED
    BY <2>2, <2>4
<1>15. /\ SumFunction(consumed_posted') = SumFunction(consumed_posted) + SumFunction(q)
       /\ SumFunction(q) \in Int
  <2>1. /\ consumed_posted' \in [BucketIds -> Int]
        /\ \A b \in BucketIds : consumed_posted'[b] = consumed_posted[b] + q[b]
    BY <1>1, <1>2, <1>3 DEF Plus
  <2>2. SumFunction(consumed_posted') = SumFunction(consumed_posted) + SumFunction(q)
    BY <2>1, <1>1, <1>3, <1>9, ColumnsAdd
  <2> QED
    BY <2>2, <1>1, <1>9, SumInt
<1>16. /\ account'.available = account.available + da
       /\ account'.reserved = account.reserved + dr
  <2>1. /\ DOMAIN account = {"available", "reserved"}
        /\ account.available \in Nat /\ account.reserved \in Nat
        /\ c.account.available \in Nat /\ c.account.reserved \in Nat
        /\ new.account.available \in Nat /\ new.account.reserved \in Nat
    BY <1>3, <1>7, <1>8
  <2>2. /\ account'.available = IF new.account.available = c.account.available
                                  THEN account.available ELSE new.account.available
        /\ account'.reserved = IF new.account.reserved = c.account.reserved
                                 THEN account.reserved ELSE new.account.reserved
    BY <2>1, <1>2 DEF Merge
  <2>3. /\ new.account.available = c.account.available
             \/ account.available = c.account.available
        /\ new.account.reserved = c.account.reserved
             \/ account.reserved = c.account.reserved
    <3>1. /\ "available" \notin Lost(account, c.account, new.account)
          /\ "reserved" \notin Lost(account, c.account, new.account)
      BY <1>2
    <3> QED
      BY <3>1, <2>1 DEF Lost
  <2>4. /\ new.account.available = c.account.available + da
        /\ new.account.reserved = c.account.reserved + dr
    BY <1>4 DEF SumShape
  <2>5. da \in Int /\ dr \in Int
    BY <1>10, <1>11
  <2> HIDE DEF da, dr
  <2> QED
    BY <2>1, <2>2, <2>3, <2>4, <2>5
<1>17. OneWay(da, dr, de, dg, SumFunction(q))
  BY <1>4 DEF SumShape
<1>18. da \in Int /\ dr \in Int /\ de \in Int /\ dg \in Int
  BY <1>10, <1>11, <1>12, <1>14
<1> HIDE DEF da, dr, de, dg
<1> QED
  BY <1>10, <1>11, <1>12, <1>13, <1>14, <1>15, <1>16, <1>17, <1>18

(* The commit of a command keeps the projection exact                       *)
LEMMA ProjectionCommit ==
  ASSUME Inv, ProjectionMatchesRows, NEW s \in Sessions, NEW new, NEW q, NEW unposted,
         Executes(s, new, q, unposted)
  PROVE  ProjectionMatchesRows'
<1> SUFFICES ASSUME ~drifted'
             PROVE  /\ account'.available = SumFunction(available')
                    /\ account'.reserved = SumFunction(reserved')
                    /\ account'.reserved = SumFunction(remaining')
  BY DEF ProjectionMatchesRows
<1>1. ~drifted
  BY DEF Executes, Commit
<1>2. /\ account.available = SumFunction(available)
      /\ account.reserved = SumFunction(reserved)
      /\ account.reserved = SumFunction(remaining)
  BY <1>1 DEF ProjectionMatchesRows
<1> QED
  BY <1>2, SumsCommit

(* and is a step of the purse                                               *)
LEMMA PurseCommit ==
  ASSUME Inv, NEW s \in Sessions, NEW new, NEW q, NEW unposted,
         Executes(s, new, q, unposted)
  PROVE  Purse!Next
<1>1. CASE drifted'
  <2>1. drifted' = TRUE
    BY <1>1, CommitInv DEF Inv, TypeOK
  <2> QED
    BY <2>1 DEF Purse!Next, Purse!Drift
<1>2. CASE ~drifted'
  <2>1. ~drifted /\ drifted' = drifted
    <3>1. ~drifted
      BY <1>2 DEF Executes, Commit
    <3>2. drifted \in BOOLEAN /\ drifted' \in BOOLEAN
      BY CommitInv DEF Inv, TypeOK
    <3> QED
      BY <3>1, <3>2, <1>2
  <2>2. PICK da \in Int, dr \in Int, de \in Int, dg \in Int, ds \in Int :
          /\ OneWay(da, dr, de, dg, ds)
          /\ SumFunction(available') = SumFunction(available) + da
          /\ SumFunction(reserved') = SumFunction(reserved) + dr
          /\ SumFunction(expired') = SumFunction(expired) + de
          /\ SumFunction(Granted') = SumFunction(Granted) + dg
          /\ SumFunction(consumed_posted') = SumFunction(consumed_posted) + ds
    BY <1>2, SumsCommit
  <2>3. /\ SumFunction(available) \in Nat /\ SumFunction(available') \in Nat
        /\ SumFunction(reserved) \in Nat /\ SumFunction(reserved') \in Nat
        /\ SumFunction(expired) \in Nat /\ SumFunction(expired') \in Nat
    <3>1. /\ available \in [BucketIds -> Nat] /\ available' \in [BucketIds -> Nat]
          /\ reserved \in [BucketIds -> Nat] /\ reserved' \in [BucketIds -> Nat]
          /\ expired \in [BucketIds -> Nat] /\ expired' \in [BucketIds -> Nat]
      BY CommitInv DEF Inv, TypeOK
    <3> QED
      BY <3>1, RowsAreFinite, SumNat
  <2>4. /\ SumFunction(Granted) \in Nat /\ SumFunction(Granted') \in Nat
        /\ SumFunction(consumed_posted) \in Int
    <3>1. /\ bucket \in [BucketIds -> BucketType] /\ bucket' \in [BucketIds -> BucketType]
          /\ consumed_posted \in [BucketIds -> Int]
      BY CommitInv DEF Inv, TypeOK
    <3>2. Granted \in [BucketIds -> Nat] /\ Granted' \in [BucketIds -> Nat]
      BY <3>1 DEF Granted, BucketType
    <3> QED
      BY <3>1, <3>2, RowsAreFinite, SumNat, SumInt
  <2> QED
    BY <2>1, <2>2, <2>3, <2>4 DEF OneWay, Purse!Next, Purse!Grant, Purse!Reserve,
       Purse!Settle, Purse!Release, Purse!Refund, Purse!Expire
<1> QED
  BY <1>1, <1>2

--------------------------------------------------------------------------------
(* The commands *)

(* The sums of the columns of a copy                                        *)
LEMMA CopySums ==
  ASSUME NEW c \in CopyType
  PROVE  /\ SumFunction(c.available) \in Nat /\ SumFunction(c.reserved) \in Nat
         /\ SumFunction(c.expired) \in Nat /\ SumFunction(c.remaining) \in Nat
         /\ GrantedOf(c.bucket) \in [BucketIds -> Nat]
         /\ SumFunction(GrantedOf(c.bucket)) \in Nat
<1>1. /\ c.available \in [BucketIds -> Nat] /\ c.reserved \in [BucketIds -> Nat]
      /\ c.expired \in [BucketIds -> Nat] /\ c.remaining \in [ReservationIds -> Nat]
      /\ c.bucket \in [BucketIds -> BucketType]
  BY CopyFields
<1>2. GrantedOf(c.bucket) \in [BucketIds -> Nat]
  BY <1>1 DEF GrantedOf, BucketType
<1> QED
  BY <1>1, <1>2, SumNat, RowsAreFinite

(* A command that ends in an event is executed when what it does to its     *)
(* copy has the shapes and adds up to the event                             *)
LEMMA EventExecutes ==
  ASSUME Inv, NEW s \in Sessions, NEW new \in CopyType, NEW q \in [BucketIds -> Int],
         NEW ad \in Int, NEW rd \in Int, NEW dg \in Int, AppendEvent(s, new, ad, rd),
         new.account = copy[s].account, new.expired = copy[s].expired,
         \A b \in BucketIds : BucketShape(copy[s], new, q, b),
         \A r \in ReservationIds : ReservationShape(copy[s], new, r),
         SumFunction(new.available) = SumFunction(copy[s].available) + ad,
         SumFunction(new.reserved) = SumFunction(copy[s].reserved) + rd,
         SumFunction(new.remaining) = SumFunction(copy[s].remaining) + rd,
         SumFunction(GrantedOf(new.bucket)) = SumFunction(GrantedOf(copy[s].bucket)) + dg,
         OneWay(ad, rd, 0, dg, SumFunction(q)),
         consumed_posted' = Plus(consumed_posted, q),
         now' = now, grant_dates' \subseteq Nat
  PROVE  \E m : Executes(s, m, q, {})
<1> DEFINE c == copy[s]
           m == [new EXCEPT !.account = [available |-> @.available + ad,
                                         reserved  |-> @.reserved + rd]]
<1>1. c \in CopyType
  BY DEF Inv, TypeOK
<1>2. /\ m.account = [available |-> new.account.available + ad,
                      reserved  |-> new.account.reserved + rd]
      /\ m.at = new.at /\ m.bucket = new.bucket /\ m.available = new.available
      /\ m.reserved = new.reserved /\ m.expired = new.expired
      /\ m.reservation = new.reservation /\ m.remaining = new.remaining
  BY DEF CopyType
<1>3. m \in CopyType
  <2>1. [available |-> new.account.available + ad, reserved |-> new.account.reserved + rd]
          \in [available: Nat, reserved: Nat]
    BY DEF AppendEvent
  <2> QED
    BY <2>1 DEF CopyType
<1>4. Commit(s, m, {})
  BY DEF AppendEvent
<1> HIDE DEF m
<1>5. \A b \in BucketIds : BucketShape(c, m, q, b)
  BY <1>2 DEF BucketShape
<1>6. \A r \in ReservationIds : ReservationShape(c, m, r)
  BY <1>2 DEF ReservationShape, Created, Shrunk
<1>7. SumShape(c, m, q)
  <2>1. /\ SumFunction(c.available) \in Int /\ SumFunction(c.reserved) \in Int
        /\ SumFunction(c.expired) \in Int /\ SumFunction(GrantedOf(c.bucket)) \in Int
    BY <1>1, CopySums
  <2>2. /\ SumFunction(m.available) - SumFunction(c.available) = ad
        /\ SumFunction(m.reserved) - SumFunction(c.reserved) = rd
        /\ SumFunction(m.expired) - SumFunction(c.expired) = 0
        /\ SumFunction(GrantedOf(m.bucket)) - SumFunction(GrantedOf(c.bucket)) = dg
    BY <1>2, <2>1
  <2>3. /\ m.account.available = c.account.available + ad
        /\ m.account.reserved = c.account.reserved + rd
        /\ SumFunction(m.remaining) = SumFunction(c.remaining) + rd
    BY <1>2
  <2> QED
    BY <2>2, <2>3 DEF SumShape
<1>8. Shape(c, m, q, {})
  BY <1>3, <1>5, <1>6, <1>7 DEF Shape
<1>9. Executes(s, m, q, {})
  BY <1>4, <1>8 DEF Executes
<1> QED
  BY <1>9

(* Nothing is posted as consumed by most commands                           *)
LEMMA NothingConsumed ==
  ASSUME TypeOK
  PROVE  /\ Zero \in [BucketIds -> Int] /\ SumFunction(Zero) = 0
         /\ \A b \in BucketIds : Zero[b] = 0
         /\ UNCHANGED consumed_posted => consumed_posted' = Plus(consumed_posted, Zero)
<1>1. Zero \in [BucketIds -> Int] /\ \A b \in BucketIds : Zero[b] = 0
  BY DEF Zero
<1>2. SumFunction(Zero) = 0
  BY <1>1, RowsAreFinite, ZerosSum
<1>3. consumed_posted \in [BucketIds -> Int]
  BY DEF TypeOK
<1>4. Plus(consumed_posted, Zero) = consumed_posted
  BY <1>1, <1>3 DEF Plus
<1> QED
  BY <1>1, <1>2, <1>4

(* A grant brings in points with one new bucket                             *)
LEMMA GrantExecutes ==
  ASSUME Inv, NEW s \in Sessions, NEW points \in Nat \ {0}, NEW expires_at \in Nat,
         Grant(s, points, expires_at), UNCHANGED <<now, consumed_posted>>,
         grant_dates' \subseteq Nat
  PROVE  \E m : Executes(s, m, Zero, {})
<1> DEFINE c == copy[s]
<1>1. /\ c \in CopyType /\ Copied(c) /\ TypeOK
  BY DEF Inv, TypeOK, CopiesInv
<1>2. PICK b \in BucketIds :
        /\ bucket[b].status = "absent"
        /\ AppendEvent(s, [c EXCEPT
             !.bucket[b] = [granted |-> points, expires_at |-> expires_at,
                            status |-> "active"],
             !.available[b] = points], points, 0)
  BY DEF Grant
<1> DEFINE row == [granted |-> points, expires_at |-> expires_at, status |-> "active"]
           new == [c EXCEPT !.bucket[b] = row, !.available[b] = points]
<1>3. AppendEvent(s, new, points, 0)
  BY <1>2
<1>4. row \in BucketType /\ row.granted = points /\ row.status = "active"
  BY DEF BucketType
<1> HIDE DEF c, row
<1>5. /\ new.bucket = [c.bucket EXCEPT ![b] = row]
      /\ new.available = [c.available EXCEPT ![b] = points]
      /\ new.account = c.account /\ new.reserved = c.reserved /\ new.expired = c.expired
      /\ new.reservation = c.reservation /\ new.remaining = c.remaining
  BY <1>1 DEF CopyType
<1>6. /\ c.bucket \in [BucketIds -> BucketType] /\ c.available \in [BucketIds -> Nat]
      /\ c.reserved \in [BucketIds -> Nat] /\ c.expired \in [BucketIds -> Nat]
      /\ c.remaining \in [ReservationIds -> Nat]
  BY <1>1, CopyFields
<1>7. new \in CopyType
  <2>1. /\ [c.bucket EXCEPT ![b] = row] \in [BucketIds -> BucketType]
        /\ [c.available EXCEPT ![b] = points] \in [BucketIds -> Nat]
    BY <1>4, <1>6
  <2> QED
    BY <2>1, <1>1 DEF CopyType
<1> HIDE DEF new
<1>8. /\ c.bucket[b].status = "absent" /\ c.bucket[b].granted = 0 /\ c.available[b] = 0
      /\ c.reserved[b] = 0 /\ c.expired[b] = 0
  BY <1>1, <1>2 DEF Copied, BucketCopied
<1>9. \A a \in BucketIds : BucketShape(c, new, Zero, a)
  <2> SUFFICES ASSUME NEW a \in BucketIds PROVE BucketShape(c, new, Zero, a)
    OBVIOUS
  <2>1. /\ Zero[a] = 0 /\ c.available[a] \in Nat /\ c.reserved[a] \in Nat
        /\ c.expired[a] \in Nat /\ c.bucket[a].granted \in Nat
    <3>1. c.bucket[a] \in BucketType
      BY <1>6
    <3> QED
      BY <3>1, <1>1, <1>6, NothingConsumed DEF BucketType
  <2>2. CASE a = b
    <3>1. /\ new.bucket[a].granted = points /\ new.bucket[a].status = "active"
          /\ new.available[a] = points /\ new.reserved[a] = 0 /\ new.expired[a] = 0
      BY <2>2, <1>4, <1>5, <1>6, <1>8
    <3> QED
      BY <2>1, <2>2, <3>1, <1>2, <1>8 DEF BucketShape
  <2>3. CASE a # b
    <3>1. /\ new.bucket[a] = c.bucket[a] /\ new.available[a] = c.available[a]
          /\ new.reserved[a] = c.reserved[a] /\ new.expired[a] = c.expired[a]
      BY <2>3, <1>5, <1>6
    <3> QED
      BY <2>1, <3>1 DEF BucketShape
  <2> QED
    BY <2>2, <2>3
<1>10. \A r \in ReservationIds : ReservationShape(c, new, r)
  BY <1>5 DEF ReservationShape
<1>11. SumFunction(new.available) = SumFunction(c.available) + points
  <2>1. /\ new.available \in [BucketIds -> Int] /\ c.available \in [BucketIds -> Int]
        /\ new.available[b] = c.available[b] + points
        /\ \A x \in BucketIds : x # b => new.available[x] = c.available[x]
    BY <1>5, <1>6, <1>8
  <2> QED
    BY <2>1, RowsAreFinite, RowAdds
<1>12. SumFunction(GrantedOf(new.bucket)) = SumFunction(GrantedOf(c.bucket)) + points
  <2>1. /\ GrantedOf(new.bucket) \in [BucketIds -> Int]
        /\ GrantedOf(c.bucket) \in [BucketIds -> Int]
    BY <1>1, <1>7, CopySums
  <2>2. /\ GrantedOf(new.bucket)[b] = GrantedOf(c.bucket)[b] + points
        /\ \A x \in BucketIds : x # b => GrantedOf(new.bucket)[x] = GrantedOf(c.bucket)[x]
    BY <1>4, <1>5, <1>6, <1>8 DEF GrantedOf
  <2> QED
    BY <2>1, <2>2, RowsAreFinite, RowAdds
<1>13. /\ SumFunction(new.reserved) = SumFunction(c.reserved) + 0
       /\ SumFunction(new.remaining) = SumFunction(c.remaining) + 0
  BY <1>1, <1>5, CopySums
<1>14. OneWay(points, 0, 0, points, SumFunction(Zero))
  BY <1>1, NothingConsumed DEF OneWay
<1>15. /\ Zero \in [BucketIds -> Int] /\ consumed_posted' = Plus(consumed_posted, Zero)
  BY <1>1, NothingConsumed
<1>16. points \in Int /\ 0 \in Int
  OBVIOUS
<1> QED
  BY <1>3, <1>5, <1>7, <1>9, <1>10, <1>11, <1>12, <1>13, <1>14, <1>15, <1>16, EventExecutes
     DEF c

(* A reservation draws on the buckets that expire soonest                   *)
LEMMA ReserveExecutes ==
  ASSUME Inv, NEW s \in Sessions, NEW points \in Points, Reserve(s, points)
  PROVE  \E m : Executes(s, m, Zero, {})
<1> DEFINE c == copy[s]
<1>1. /\ c \in CopyType /\ Copied(c) /\ TypeOK
  BY DEF Inv, TypeOK, CopiesInv
<1>2. points \in Nat /\ points > 0
  BY DEF Points
<1>3. PICK r \in ReservationIds, d \in Draws(c, ActiveBuckets(c), c.available, points) :
        /\ reservation[r].status = "absent"
        /\ AppendEvent(s, [c EXCEPT
             !.available = Minus(@, d),
             !.reserved = Plus(@, d),
             !.reservation[r] =
                [points |-> points, source |-> {b \in BucketIds : d[b] > 0},
                 status |-> "reserved"],
             !.remaining[r] = points], -points, points)
  BY DEF Reserve
<1>4. UNCHANGED <<now, grant_dates, consumed_posted>>
  BY DEF Reserve
<1> DEFINE row == [points |-> points, source |-> {b \in BucketIds : d[b] > 0},
                   status |-> "reserved"]
           new == [c EXCEPT !.available = Minus(@, d), !.reserved = Plus(@, d),
                            !.reservation[r] = row, !.remaining[r] = points]
<1>5. AppendEvent(s, new, -points, points)
  BY <1>3
<1>6. /\ row \in ReservationType /\ row.points = points /\ row.status = "reserved"
      /\ row.source = {b \in BucketIds : d[b] > 0}
  BY <1>2 DEF ReservationType
<1> HIDE DEF c, row
<1>7. /\ new.available = Minus(c.available, d) /\ new.reserved = Plus(c.reserved, d)
      /\ new.reservation = [c.reservation EXCEPT ![r] = row]
      /\ new.remaining = [c.remaining EXCEPT ![r] = points]
      /\ new.account = c.account /\ new.expired = c.expired /\ new.bucket = c.bucket
  BY <1>1 DEF CopyType
<1>8. /\ c.bucket \in [BucketIds -> BucketType] /\ c.available \in [BucketIds -> Nat]
      /\ c.reserved \in [BucketIds -> Nat] /\ c.expired \in [BucketIds -> Nat]
      /\ c.reservation \in [ReservationIds -> ReservationType]
      /\ c.remaining \in [ReservationIds -> Nat]
  BY <1>1, CopyFields
<1>9. /\ d \in [BucketIds -> Nat]
      /\ \A b \in BucketIds : d[b] <= c.available[b]
      /\ \A b \in BucketIds : b \notin ActiveBuckets(c) => d[b] = 0
  BY <1>2, <1>8, DrawsBounds
<1>10. new \in CopyType
  <2>1. /\ Minus(c.available, d) \in [BucketIds -> Nat]
        /\ Plus(c.reserved, d) \in [BucketIds -> Nat]
    BY <1>8, <1>9, ColumnTypes DEF Plus
  <2>2. /\ [c.reservation EXCEPT ![r] = row] \in [ReservationIds -> ReservationType]
        /\ [c.remaining EXCEPT ![r] = points] \in [ReservationIds -> Nat]
    BY <1>2, <1>6, <1>8
  <2> QED
    BY <2>1, <2>2, <1>1 DEF CopyType
<1> HIDE DEF new
<1>11. \A b \in BucketIds : BucketShape(c, new, Zero, b)
  <2> SUFFICES ASSUME NEW b \in BucketIds PROVE BucketShape(c, new, Zero, b)
    OBVIOUS
  <2>1. /\ Zero[b] = 0 /\ c.available[b] \in Nat /\ c.reserved[b] \in Nat
        /\ c.expired[b] \in Nat /\ c.bucket[b].granted \in Nat /\ d[b] \in Nat
    <3>1. c.bucket[b] \in BucketType
      BY <1>8
    <3> QED
      BY <3>1, <1>1, <1>8, <1>9, NothingConsumed DEF BucketType
  <2>2. /\ new.bucket[b] = c.bucket[b] /\ new.available[b] = c.available[b] - d[b]
        /\ new.reserved[b] = c.reserved[b] + d[b] /\ new.expired[b] = c.expired[b]
    BY <1>7 DEF Minus, Plus
  <2>3. c.bucket[b].status = "absent" => d[b] = 0
    BY <1>9 DEF ActiveBuckets
  <2> QED
    BY <2>1, <2>2, <2>3 DEF BucketShape
<1>12. c.remaining[r] = 0
  BY <1>1, <1>3 DEF Copied, ReservationCopied
<1>13. Created(c, new, r)
  <2>1. new.reservation[r] = row /\ new.remaining[r] = points
    BY <1>7, <1>8
  <2>2. ASSUME NEW b \in row.source
        PROVE  /\ ~Lapsed(c, b)
               /\ \A a \in BucketIds :
                    /\ c.bucket[a].status = "active" /\ ~Lapsed(c, a) /\ c.available[a] > 0
                    /\ c.bucket[a].expires_at < c.bucket[b].expires_at
                    => new.available[a] = 0 /\ new.available[a] # c.available[a]
    <3>1. b \in BucketIds /\ d[b] > 0 /\ b \in ActiveBuckets(c)
      BY <2>2, <1>6, <1>9
    <3>2. ~Lapsed(c, b)
      BY <3>1 DEF ActiveBuckets
    <3>3. ASSUME NEW a \in BucketIds,
                 c.bucket[a].status = "active", ~Lapsed(c, a), c.available[a] > 0,
                 c.bucket[a].expires_at < c.bucket[b].expires_at
          PROVE  new.available[a] = 0 /\ new.available[a] # c.available[a]
      <4>1. a \in ActiveBuckets(c) /\ Before(c, a, b)
        BY <3>3 DEF ActiveBuckets, Before
      <4>2. d[a] = c.available[a]
        BY <4>1, <3>1 DEF Draws
      <4>3. new.available[a] = c.available[a] - d[a] /\ c.available[a] \in Nat
        BY <1>7, <1>8 DEF Minus
      <4> QED
        BY <4>2, <4>3, <3>3
    <3> QED
      BY <3>2, <3>3
  <2> QED
    BY <2>1, <2>2, <1>2, <1>3, <1>6 DEF Created
<1>14. \A t \in ReservationIds : ReservationShape(c, new, t)
  <2>1. \A t \in ReservationIds : t # r =>
          new.reservation[t] = c.reservation[t] /\ new.remaining[t] = c.remaining[t]
    BY <1>7, <1>8
  <2> QED
    BY <2>1, <1>13 DEF ReservationShape
<1>15. /\ SumFunction(new.available) = SumFunction(c.available) + (-points)
       /\ SumFunction(new.reserved) = SumFunction(c.reserved) + points
  <2>1. c.available \in [BucketIds -> Int] /\ c.reserved \in [BucketIds -> Int]
    BY <1>8
  <2>2. /\ SumFunction(new.available) = SumFunction(c.available) - points
        /\ SumFunction(new.reserved) = SumFunction(c.reserved) + points
    BY <2>1, <1>2, <1>7, DrawSums
  <2>3. SumFunction(c.available) \in Int
    BY <1>1, CopySums
  <2> QED
    BY <2>2, <2>3, <1>2
<1>16. SumFunction(new.remaining) = SumFunction(c.remaining) + points
  <2>1. /\ new.remaining \in [ReservationIds -> Int] /\ c.remaining \in [ReservationIds -> Int]
        /\ new.remaining[r] = c.remaining[r] + points /\ points \in Int
        /\ \A x \in ReservationIds : x # r => new.remaining[x] = c.remaining[x]
    BY <1>2, <1>7, <1>8, <1>12
  <2> QED
    BY <2>1, RowsAreFinite, RowAdds
<1>17. SumFunction(GrantedOf(new.bucket)) = SumFunction(GrantedOf(c.bucket)) + 0
  BY <1>1, <1>7, CopySums
<1>18. OneWay(-points, points, 0, 0, SumFunction(Zero))
  BY <1>1, <1>2, NothingConsumed DEF OneWay
<1>19. /\ Zero \in [BucketIds -> Int] /\ consumed_posted' = Plus(consumed_posted, Zero)
       /\ now' = now /\ grant_dates' \subseteq Nat
  BY <1>1, <1>4, NothingConsumed DEF TypeOK
<1>20. points \in Int /\ -points \in Int /\ 0 \in Int
  BY <1>2
<1> QED
  BY <1>5, <1>7, <1>10, <1>11, <1>14, <1>15, <1>16, <1>17, <1>18, <1>19, <1>20, EventExecutes
     DEF c

(* What settle and release share: the reservation shrinks, and the columns  *)
(* of the buckets stay as they are                                          *)
LEMMA DrawnDownShape ==
  ASSUME NEW c \in CopyType, NEW r \in ReservationIds, NEW points \in Points,
         NEW last_status \in {"settled", "released"},
         NEW part_status \in {"partially_settled", c.reservation[r].status},
         Covers(c, r, points)
  PROVE  LET k == DrawnDown(c, r, points, last_status, part_status) IN
         /\ k \in CopyType /\ k.available = c.available /\ k.reserved = c.reserved
         /\ k.bucket = c.bucket /\ k.account = c.account /\ k.expired = c.expired
         /\ \A t \in ReservationIds : ReservationShape(c, k, t)
         /\ SumFunction(k.remaining) = SumFunction(c.remaining) + (-points)
<1> DEFINE new == DrawnDown(c, r, points, last_status, part_status)
           st == IF c.remaining[r] = points THEN last_status ELSE part_status
<1>0. /\ new.available = c.available /\ new.reserved = c.reserved
      /\ new.bucket = c.bucket /\ new.account = c.account /\ new.expired = c.expired
  BY DEF DrawnDown, CopyType
<1>1. points \in Nat /\ points > 0
  BY DEF Points
<1>2. /\ c.reservation \in [ReservationIds -> ReservationType]
      /\ c.remaining \in [ReservationIds -> Nat]
  BY CopyFields
<1>3. /\ new.remaining = [c.remaining EXCEPT ![r] = @ - points]
      /\ new.reservation = [c.reservation EXCEPT ![r].status = st]
  <2>1. \A x, y : LET k == [c EXCEPT !.remaining = x, !.reservation = y]
                  IN  k.remaining = x /\ k.reservation = y
    BY DEF CopyType
  <2>2. DrawnDown(c, r, points, last_status, part_status) =
          [c EXCEPT !.remaining = [c.remaining EXCEPT ![r] = @ - points],
                    !.reservation = [c.reservation EXCEPT ![r].status = st]]
    BY DEF DrawnDown
  <2> HIDE DEF st
  <2> QED
    BY <2>1, <2>2
<1>4. points <= c.remaining[r] /\ c.remaining[r] \in Nat
  BY <1>2 DEF Covers
<1>5. c.reservation[r] \in ReservationType
  BY <1>2
<1>6. st \in {"absent", "reserved", "partially_settled", "settled", "released"}
  BY <1>5 DEF ReservationType
<1>7. c.remaining[r] = points => st \in {"settled", "released"}
  OBVIOUS
<1>8. c.remaining[r] # points => st \in {"partially_settled", c.reservation[r].status}
  OBVIOUS
<1> HIDE DEF st, new
<1>9. [c.reservation[r] EXCEPT !.status = st] \in ReservationType
  BY <1>5, <1>6 DEF ReservationType
<1>10. /\ new.reservation[r].points = c.reservation[r].points
       /\ new.reservation[r].source = c.reservation[r].source
       /\ new.reservation[r].status = st
  BY <1>2, <1>3, <1>5 DEF ReservationType
<1>11. new.remaining[r] = c.remaining[r] - points
  BY <1>2, <1>3
<1>12. new.reservation \in [ReservationIds -> ReservationType]
  BY <1>2, <1>3, <1>9
<1>13. new.remaining \in [ReservationIds -> Nat]
  BY <1>1, <1>2, <1>3, <1>4
<1>14. Shrunk(c, new, r)
  BY <1>1, <1>4, <1>7, <1>8, <1>10, <1>11 DEF Shrunk
<1>15. \A t \in ReservationIds : ReservationShape(c, new, t)
  <2>1. \A t \in ReservationIds : t # r =>
          new.reservation[t] = c.reservation[t] /\ new.remaining[t] = c.remaining[t]
    BY <1>2, <1>3
  <2> QED
    BY <2>1, <1>14 DEF ReservationShape
<1>16. SumFunction(new.remaining) = SumFunction(c.remaining) + (-points)
  <2>1. /\ new.remaining \in [ReservationIds -> Int] /\ c.remaining \in [ReservationIds -> Int]
        /\ new.remaining[r] = c.remaining[r] + (-points) /\ -points \in Int
        /\ \A x \in ReservationIds : x # r => new.remaining[x] = c.remaining[x]
    BY <1>1, <1>2, <1>3, <1>4, <1>11, <1>13
  <2> QED
    BY <2>1, RowsAreFinite, RowAdds
<1>17. new \in CopyType
  BY <1>12, <1>13 DEF new, DrawnDown, CopyType
<1> QED
  BY <1>0, <1>15, <1>16, <1>17 DEF new

(* A settlement posts points as consumed                                    *)
LEMMA SettleExecutes ==
  ASSUME Inv, NEW s \in Sessions, NEW r \in ReservationIds, NEW points \in Points,
         Settle(s, r, points)
  PROVE  \E m, q : Executes(s, m, q, {})
<1> DEFINE c == copy[s]
           k == DrawnDown(c, r, points, "settled", "partially_settled")
<1>1. /\ c \in CopyType /\ Copied(c) /\ TypeOK
  BY DEF Inv, TypeOK, CopiesInv
<1>2. points \in Nat /\ points > 0
  BY DEF Points
<1>3. PICK d \in Draws(c, c.reservation[r].source, c.reserved, points) :
        /\ AppendEvent(s, [k EXCEPT !.reserved = Minus(@, d)], 0, -points)
        /\ consumed_posted' = Plus(consumed_posted, d)
  BY DEF Settle
<1>4. Covers(c, r, points) /\ UNCHANGED <<now, grant_dates>>
  BY DEF Settle
<1> DEFINE new == [k EXCEPT !.reserved = Minus(@, d)]
<1>5. AppendEvent(s, new, 0, -points)
  BY <1>3
<1> HIDE DEF c
<1>6. /\ k \in CopyType /\ k.available = c.available /\ k.reserved = c.reserved
      /\ k.bucket = c.bucket /\ k.account = c.account /\ k.expired = c.expired
      /\ \A t \in ReservationIds : ReservationShape(c, k, t)
      /\ SumFunction(k.remaining) = SumFunction(c.remaining) + (-points)
  BY <1>1, <1>4, DrawnDownShape
<1> HIDE DEF k
<1>7. /\ new.reserved = Minus(c.reserved, d) /\ new.available = c.available
      /\ new.bucket = c.bucket /\ new.account = c.account /\ new.expired = c.expired
      /\ new.reservation = k.reservation /\ new.remaining = k.remaining
  BY <1>6 DEF CopyType
<1> HIDE DEF new
<1>8. /\ c.bucket \in [BucketIds -> BucketType] /\ c.available \in [BucketIds -> Nat]
      /\ c.reserved \in [BucketIds -> Nat] /\ c.expired \in [BucketIds -> Nat]
  BY <1>1, CopyFields
<1>9. /\ d \in [BucketIds -> Nat]
      /\ \A b \in BucketIds : d[b] <= c.reserved[b]
  BY <1>2, <1>8, DrawsBounds
<1>10. /\ \A t \in ReservationIds : ReservationShape(c, new, t)
       /\ SumFunction(new.remaining) = SumFunction(c.remaining) + (-points)
  BY <1>6, <1>7 DEF ReservationShape, Created, Shrunk
<1>11. new \in CopyType
  <2>1. Minus(c.reserved, d) \in [BucketIds -> Nat]
    BY <1>8, <1>9, ColumnTypes
  <2> QED
    BY <2>1, <1>6 DEF new, CopyType
<1>12. \A b \in BucketIds : BucketShape(c, new, d, b)
  <2> SUFFICES ASSUME NEW b \in BucketIds PROVE BucketShape(c, new, d, b)
    OBVIOUS
  <2>1. /\ c.available[b] \in Nat /\ c.reserved[b] \in Nat
        /\ c.expired[b] \in Nat /\ c.bucket[b].granted \in Nat /\ d[b] \in Nat
    <3>1. c.bucket[b] \in BucketType
      BY <1>8
    <3> QED
      BY <3>1, <1>8, <1>9 DEF BucketType
  <2>2. /\ new.bucket[b] = c.bucket[b] /\ new.available[b] = c.available[b]
        /\ new.reserved[b] = c.reserved[b] - d[b] /\ new.expired[b] = c.expired[b]
    BY <1>7 DEF Minus
  <2>3. c.bucket[b].status = "absent" => d[b] = 0
    <3>1. c.bucket[b].status = "absent" => c.reserved[b] = 0
      BY <1>1 DEF Copied, BucketCopied
    <3>2. d[b] <= c.reserved[b]
      BY <1>9
    <3> QED
      BY <3>1, <3>2, <2>1
  <2> QED
    BY <2>1, <2>2, <2>3 DEF BucketShape
<1>13. /\ SumFunction(new.available) = SumFunction(c.available) + 0
       /\ SumFunction(new.reserved) = SumFunction(c.reserved) + (-points)
  <2>1. c.reserved \in [BucketIds -> Int]
    BY <1>8
  <2>2. SumFunction(new.reserved) = SumFunction(c.reserved) - points
    BY <2>1, <1>2, <1>7, DrawSums
  <2>3. SumFunction(c.available) \in Int /\ SumFunction(c.reserved) \in Int
    BY <1>1, CopySums
  <2> QED
    BY <2>2, <2>3, <1>2, <1>7
<1>14. SumFunction(GrantedOf(new.bucket)) = SumFunction(GrantedOf(c.bucket)) + 0
  BY <1>1, <1>7, CopySums
<1>15. SumFunction(d) = points
  BY DEF Draws
<1>16. OneWay(0, -points, 0, 0, SumFunction(d))
  BY <1>2, <1>15 DEF OneWay
<1>17. /\ d \in [BucketIds -> Int] /\ consumed_posted' = Plus(consumed_posted, d)
       /\ now' = now /\ grant_dates' \subseteq Nat
  BY <1>1, <1>3, <1>4, <1>9 DEF TypeOK
<1>18. /\ -points \in Int /\ 0 \in Int /\ new.account = c.account /\ new.expired = c.expired
  BY <1>2, <1>7
<1> QED
  BY <1>5, <1>10, <1>11, <1>12, <1>13, <1>14, <1>16, <1>17, <1>18, EventExecutes DEF c

(* A release returns points from reserved to available                      *)
LEMMA ReleaseExecutes ==
  ASSUME Inv, NEW s \in Sessions, NEW r \in ReservationIds, NEW points \in Points,
         Release(s, r, points)
  PROVE  \E m : Executes(s, m, Zero, {})
<1> DEFINE c == copy[s]
           k == DrawnDown(c, r, points, "released", c.reservation[r].status)
<1>1. /\ c \in CopyType /\ Copied(c) /\ TypeOK
  BY DEF Inv, TypeOK, CopiesInv
<1>2. points \in Nat /\ points > 0
  BY DEF Points
<1>3. PICK d \in Draws(c, c.reservation[r].source, c.reserved, points) :
        AppendEvent(s, Restored(k, d), points, -points)
  BY DEF Release
<1>4. Covers(c, r, points) /\ UNCHANGED <<now, grant_dates, consumed_posted>>
  BY DEF Release
<1> DEFINE new == Restored(k, d)
<1>5. AppendEvent(s, new, points, -points)
  BY <1>3
<1> HIDE DEF c
<1>6. /\ k \in CopyType /\ k.available = c.available /\ k.reserved = c.reserved
      /\ k.bucket = c.bucket /\ k.account = c.account /\ k.expired = c.expired
      /\ \A t \in ReservationIds : ReservationShape(c, k, t)
      /\ SumFunction(k.remaining) = SumFunction(c.remaining) + (-points)
  BY <1>1, <1>4, DrawnDownShape
<1> HIDE DEF k
<1>7. /\ new.reserved = Minus(c.reserved, d) /\ new.available = Plus(c.available, d)
      /\ new.bucket = c.bucket /\ new.account = c.account /\ new.expired = c.expired
      /\ new.reservation = k.reservation /\ new.remaining = k.remaining
  BY <1>6 DEF CopyType, Restored
<1> HIDE DEF new
<1>8. /\ c.bucket \in [BucketIds -> BucketType] /\ c.available \in [BucketIds -> Nat]
      /\ c.reserved \in [BucketIds -> Nat] /\ c.expired \in [BucketIds -> Nat]
  BY <1>1, CopyFields
<1>9. /\ d \in [BucketIds -> Nat]
      /\ \A b \in BucketIds : d[b] <= c.reserved[b]
  BY <1>2, <1>8, DrawsBounds
<1>10. /\ \A t \in ReservationIds : ReservationShape(c, new, t)
       /\ SumFunction(new.remaining) = SumFunction(c.remaining) + (-points)
  BY <1>6, <1>7 DEF ReservationShape, Created, Shrunk
<1>11. new \in CopyType
  <2>1. /\ Minus(c.reserved, d) \in [BucketIds -> Nat]
        /\ Plus(c.available, d) \in [BucketIds -> Nat]
    BY <1>8, <1>9, ColumnTypes DEF Plus
  <2> QED
    BY <2>1, <1>6 DEF new, Restored, CopyType
<1>12. \A b \in BucketIds : BucketShape(c, new, Zero, b)
  <2> SUFFICES ASSUME NEW b \in BucketIds PROVE BucketShape(c, new, Zero, b)
    OBVIOUS
  <2>1. /\ c.available[b] \in Nat /\ c.reserved[b] \in Nat /\ Zero[b] = 0
        /\ c.expired[b] \in Nat /\ c.bucket[b].granted \in Nat /\ d[b] \in Nat
    <3>1. c.bucket[b] \in BucketType
      BY <1>8
    <3> QED
      BY <3>1, <1>1, <1>8, <1>9, NothingConsumed DEF BucketType
  <2>2. /\ new.bucket[b] = c.bucket[b] /\ new.available[b] = c.available[b] + d[b]
        /\ new.reserved[b] = c.reserved[b] - d[b] /\ new.expired[b] = c.expired[b]
    BY <1>7 DEF Minus, Plus
  <2>3. c.bucket[b].status = "absent" => d[b] = 0
    <3>1. c.bucket[b].status = "absent" => c.reserved[b] = 0
      BY <1>1 DEF Copied, BucketCopied
    <3>2. d[b] <= c.reserved[b]
      BY <1>9
    <3> QED
      BY <3>1, <3>2, <2>1
  <2> QED
    BY <2>1, <2>2, <2>3 DEF BucketShape
<1>13. /\ SumFunction(new.available) = SumFunction(c.available) + points
       /\ SumFunction(new.reserved) = SumFunction(c.reserved) + (-points)
  <2>1. c.reserved \in [BucketIds -> Int] /\ c.available \in [BucketIds -> Int]
    BY <1>8
  <2>2. /\ SumFunction(new.available) = SumFunction(c.available) + points
        /\ SumFunction(new.reserved) = SumFunction(c.reserved) - points
    BY <2>1, <1>2, <1>7, DrawSums
  <2>3. SumFunction(c.reserved) \in Int
    BY <1>1, CopySums
  <2> QED
    BY <2>2, <2>3, <1>2
<1>14. SumFunction(GrantedOf(new.bucket)) = SumFunction(GrantedOf(c.bucket)) + 0
  BY <1>1, <1>7, CopySums
<1>15. OneWay(points, -points, 0, 0, SumFunction(Zero))
  BY <1>1, <1>2, NothingConsumed DEF OneWay
<1>16. /\ Zero \in [BucketIds -> Int] /\ consumed_posted' = Plus(consumed_posted, Zero)
       /\ now' = now /\ grant_dates' \subseteq Nat
  BY <1>1, <1>4, NothingConsumed DEF TypeOK
<1>17. /\ points \in Int /\ -points \in Int /\ 0 \in Int
       /\ new.account = c.account /\ new.expired = c.expired
  BY <1>2, <1>7
<1> QED
  BY <1>5, <1>10, <1>11, <1>12, <1>13, <1>14, <1>15, <1>16, <1>17, EventExecutes DEF c

(* A refund takes back what was posted as consumed, or grants a bucket      *)
LEMMA RefundExecutes ==
  ASSUME Inv, NEW s \in Sessions, NEW points \in 1..MaxCredit,
         NEW named \in BucketIds \cup {0}, Refund(s, points, named)
  PROVE  \E m, q : Executes(s, m, q, {})
<1> DEFINE c == copy[s]
           target == {b \in RefundTarget(c, named) : ~Lapsed(c, b)}
<1>1. /\ c \in CopyType /\ Copied(c) /\ TypeOK
  BY DEF Inv, TypeOK, CopiesInv
<1>2. points \in Nat \ {0}
  BY PointLedgerAssumption
<1>3. now' = now /\ grant_dates' \subseteq Nat
  BY <1>1 DEF Refund, TypeOK
<1>4. CASE Grant(s, points, c.at + DayLength) /\ UNCHANGED consumed_posted
  <2>1. c.at + DayLength \in Nat
    BY <1>1, CopyFields, PointLedgerAssumption
  <2>2. \E m : Executes(s, m, Zero, {})
    BY <1>2, <1>3, <1>4, <2>1, GrantExecutes
  <2> QED
    BY <2>2
<1>5. CASE \E b \in target :
             /\ AppendEvent(s, [c EXCEPT !.available[b] = @ + points], points, 0)
             /\ consumed_posted' = [consumed_posted EXCEPT ![b] = @ - points]
  <2>1. PICK b \in target :
          /\ AppendEvent(s, [c EXCEPT !.available[b] = @ + points], points, 0)
          /\ consumed_posted' = [consumed_posted EXCEPT ![b] = @ - points]
    BY <1>5
  <2>2. b \in BucketIds /\ c.bucket[b].status # "absent"
    BY DEF RefundTarget
  <2> DEFINE new == [c EXCEPT !.available[b] = @ + points]
             q == [x \in BucketIds |-> IF x = b THEN -points ELSE 0]
  <2>3. AppendEvent(s, new, points, 0)
    BY <2>1
  <2>4. /\ q \in [BucketIds -> Int] /\ q[b] = -points /\ q[b] \in Int
        /\ \A x \in BucketIds : x # b => q[x] = 0
    BY <1>2, <2>2
  <2>5. consumed_posted' = Plus(consumed_posted, q)
    <3>1. consumed_posted \in [BucketIds -> Int]
      BY <1>1 DEF TypeOK
    <3>2. consumed_posted' \in [BucketIds -> Int]
      <4>1. consumed_posted' = [consumed_posted EXCEPT ![b] = @ - points] /\ points \in Int
        BY <2>1, <1>2
      <4> QED
        BY <4>1, <3>1, <2>2
    <3>3. Plus(consumed_posted, q) \in [BucketIds -> Int]
      BY <3>1, <2>4 DEF Plus
    <3>4. \A x \in BucketIds : consumed_posted'[x] = Plus(consumed_posted, q)[x]
      BY <3>1, <2>1, <2>2, <2>4, <1>2 DEF Plus
    <3> QED
      BY <3>2, <3>3, <3>4
  <2> HIDE DEF q, c
  <2>6. /\ new.available = [c.available EXCEPT ![b] = @ + points]
        /\ new.account = c.account /\ new.bucket = c.bucket
        /\ new.reserved = c.reserved /\ new.expired = c.expired
        /\ new.reservation = c.reservation /\ new.remaining = c.remaining
    BY <1>1 DEF CopyType
  <2>7. /\ c.bucket \in [BucketIds -> BucketType] /\ c.available \in [BucketIds -> Nat]
        /\ c.reserved \in [BucketIds -> Nat] /\ c.expired \in [BucketIds -> Nat]
    BY <1>1, CopyFields
  <2>8. new \in CopyType
    <3>1. [c.available EXCEPT ![b] = @ + points] \in [BucketIds -> Nat]
      BY <1>2, <2>2, <2>7
    <3> QED
      BY <3>1, <1>1 DEF CopyType
  <2> HIDE DEF new
  <2>9. \A x \in BucketIds : BucketShape(c, new, q, x)
    <3> SUFFICES ASSUME NEW x \in BucketIds PROVE BucketShape(c, new, q, x)
      OBVIOUS
    <3>1. /\ c.available[x] \in Nat /\ c.reserved[x] \in Nat
          /\ c.expired[x] \in Nat /\ c.bucket[x].granted \in Nat
      <4>1. c.bucket[x] \in BucketType
        BY <2>7
      <4> QED
        BY <4>1, <2>7 DEF BucketType
    <3>2. /\ new.bucket[x] = c.bucket[x] /\ new.reserved[x] = c.reserved[x]
          /\ new.expired[x] = c.expired[x]
          /\ new.available[x] = IF x = b THEN c.available[x] + points ELSE c.available[x]
      BY <2>2, <2>6, <2>7
    <3>3. CASE x = b
      BY <3>1, <3>2, <3>3, <1>2, <2>2, <2>4 DEF BucketShape
    <3>4. CASE x # b
      BY <3>1, <3>2, <3>4, <2>4 DEF BucketShape
    <3> QED
      BY <3>3, <3>4
  <2>10. \A r \in ReservationIds : ReservationShape(c, new, r)
    BY <2>6 DEF ReservationShape
  <2>11. SumFunction(new.available) = SumFunction(c.available) + points
    <3>1. /\ new.available \in [BucketIds -> Int] /\ c.available \in [BucketIds -> Int]
          /\ new.available[b] = c.available[b] + points
          /\ \A x \in BucketIds : x # b => new.available[x] = c.available[x]
      BY <1>2, <2>2, <2>6, <2>7
    <3> QED
      BY <3>1, <2>2, <1>2, RowsAreFinite, RowAdds
  <2>12. SumFunction(q) = -points
    <3>1. SumFunctionOnSet(q, BucketIds) = q[b]
      BY <2>2, <2>4, RowsAreFinite, SumOfOne
    <3>2. SumFunction(q) = SumFunctionOnSet(q, BucketIds)
      BY <2>4, SumOfColumn
    <3> QED
      BY <3>1, <3>2, <2>4
  <2>13. /\ SumFunction(new.reserved) = SumFunction(c.reserved) + 0
         /\ SumFunction(new.remaining) = SumFunction(c.remaining) + 0
         /\ SumFunction(GrantedOf(new.bucket)) = SumFunction(GrantedOf(c.bucket)) + 0
    BY <1>1, <2>6, CopySums
  <2>14. OneWay(points, 0, 0, 0, SumFunction(q))
    BY <1>2, <2>12 DEF OneWay
  <2>15. points \in Int /\ 0 \in Int
    BY <1>2
  <2>16. Executes(s, CHOOSE m : Executes(s, m, q, {}), q, {})
    BY <1>3, <2>3, <2>4, <2>5, <2>6, <2>8, <2>9, <2>10, <2>11, <2>13, <2>14, <2>15,
       EventExecutes DEF c
  <2> QED
    BY <2>16
<1> QED
  BY <1>4, <1>5 DEF Refund

(* A nonempty set of buckets has one that is behind all others              *)
LEMMA LastBucket ==
  ASSUME NEW c \in CopyType, NEW S \in SUBSET BucketIds, S # {}
  PROVE  \E b \in S : \A a \in S : a = b \/ Before(c, a, b)
<1> DEFINE later(b) == {a \in S : Before(c, b, a)}
           T == {later(b) : b \in S}
<1>1. PICK t \in T : \A u \in T : u \subseteq t => u = t
  <2>1. IsFiniteSet(S)
    BY RowsAreFinite, FS_Subset
  <2>2. T \in SUBSET SUBSET S /\ T # {}
    OBVIOUS
  <2> HIDE DEF T
  <2> QED
    BY <2>1, <2>2, SmallestSubset
<1>2. PICK b \in S : t = later(b)
  OBVIOUS
<1>3. \A x \in BucketIds : c.bucket[x].expires_at \in Nat /\ x \in Nat
  <2>1. \A x \in BucketIds : c.bucket[x] \in BucketType
    BY CopyFields
  <2> QED
    BY <2>1 DEF BucketType, BucketIds
<1>4. later(b) = {}
  <2> SUFFICES ASSUME NEW a \in later(b) PROVE FALSE
    OBVIOUS
  <2>1. a \in S /\ Before(c, b, a)
    OBVIOUS
  <2>2. later(a) \subseteq later(b)
    BY <2>1, <1>3 DEF Before
  <2>3. later(a) = later(b)
    BY <2>1, <2>2, <1>1, <1>2
  <2>4. Before(c, a, a)
    BY <2>1, <2>3
  <2> QED
    BY <2>1, <2>4, <1>3 DEF Before
<1>5. \A a \in S : a = b \/ Before(c, a, b)
  <2> SUFFICES ASSUME NEW a \in S, a # b, ~Before(c, a, b) PROVE FALSE
    OBVIOUS
  <2>1. ~Before(c, b, a)
    BY <1>4
  <2> QED
    BY <2>1, <1>3 DEF Before
<1> QED
  BY <1>5

(* What is posted as expired is covered by the account                      *)
LEMMA PostedIsCovered ==
  ASSUME NEW c \in CopyType, NEW posted \in SUBSET BucketIds,
         \A b \in posted :
            SumFunctionOnSet(c.available, {a \in posted : Before(c, a, b)})
              + c.available[b] <= c.account.available
  PROVE  /\ SumFunctionOnSet(c.available, posted) \in Nat
         /\ SumFunctionOnSet(c.available, posted) <= c.account.available
<1>1. /\ c.account \in [available: Nat, reserved: Nat]
      /\ c.available \in [BucketIds -> Nat]
  BY CopyFields
<1>2. IsFiniteSet(posted)
  BY RowsAreFinite, FS_Subset
<1>3. SumFunctionOnSet(c.available, posted) \in Nat
  <2>1. \A x \in posted : c.available[x] \in Nat
    BY <1>1
  <2> QED
    BY <2>1, <1>2, SumsOfNaturals
<1>4. CASE posted = {}
  <2>1. SumFunctionOnSet(c.available, posted) = 0
    BY <1>2, <1>4, SumOfSet
  <2> QED
    BY <2>1, <1>1, <1>3
<1>5. CASE posted # {}
  <2>1. PICK b \in posted : \A a \in posted : a = b \/ Before(c, a, b)
    BY <1>5, LastBucket
  <2>2. {a \in posted : Before(c, a, b)} = posted \ {b}
    <3>1. c.bucket[b].expires_at \in Nat /\ b \in Nat
      <4>1. c.bucket[b] \in BucketType
        BY CopyFields
      <4> QED
        BY <4>1 DEF BucketType, BucketIds
    <3>2. ~Before(c, b, b)
      BY <3>1 DEF Before
    <3> QED
      BY <2>1, <3>2
  <2> DEFINE R == posted \ {b}
             f == [x \in posted |-> IF x \in R THEN c.available[x] ELSE 0]
             g == [x \in posted |-> IF x = b THEN c.available[x] ELSE 0]
  <2>3. SumFunctionOnSet(f, posted) = SumFunctionOnSet(c.available, R)
    <3>1. \A x \in posted : c.available[x] \in Int
                              /\ f[x] = IF x \in R THEN c.available[x] ELSE 0
      BY <1>1
    <3>2. R \in SUBSET posted
      OBVIOUS
    <3> HIDE DEF f, R
    <3> QED
      BY <3>1, <3>2, <1>2, SumOfPart
  <2>4. SumFunctionOnSet(g, posted) = c.available[b]
    <3>1. /\ g[b] = c.available[b] /\ g[b] \in Int
          /\ \A x \in posted : x # b => g[x] = 0
      BY <1>1
    <3> HIDE DEF g
    <3> QED
      BY <3>1, <1>2, SumOfOne
  <2>5. SumFunctionOnSet(c.available, posted)
          = SumFunctionOnSet(f, posted) + SumFunctionOnSet(g, posted)
    <3>1. \A x \in posted : /\ f[x] \in Int /\ g[x] \in Int
                            /\ c.available[x] = f[x] + g[x]
      BY <1>1
    <3> HIDE DEF f, g
    <3> QED
      BY <3>1, <1>2, SumsAdd
  <2>6. SumFunctionOnSet(c.available, R) + c.available[b] <= c.account.available
    BY <2>2
  <2> HIDE DEF f, g, R
  <2> QED
    BY <2>3, <2>4, <2>5, <2>6, <1>3
<1> QED
  BY <1>4, <1>5

(* A sweep moves what is available to expired; unless all of it is posted,  *)
(* the account drifts                                                       *)
LEMMA ExpireExecutes ==
  ASSUME Inv, NEW s \in Sessions, ExpireDueBuckets(s)
  PROVE  \E m, unposted : Executes(s, m, Zero, unposted)
<1> DEFINE c == copy[s]
           due == DueBuckets(c)
<1>1. /\ c \in CopyType /\ Copied(c) /\ TypeOK
  BY DEF Inv, TypeOK, CopiesInv
<1>2. PICK posted \in SUBSET due :
        /\ \A b \in due :
             b \in posted <=>
               SumFunctionOnSet(c.available, {a \in posted : Before(c, a, b)})
                 + c.available[b] <= c.account.available
        /\ Commit(s, [Swept(c, due) EXCEPT !.account.available =
                        @ - SumFunctionOnSet(c.available, posted)],
                  due \ posted)
  BY DEF ExpireDueBuckets
<1>3. UNCHANGED <<now, grant_dates, consumed_posted>>
  BY DEF ExpireDueBuckets
<1> DEFINE total == SumFunctionOnSet(c.available, posted)
           k == Swept(c, due)
           new == [k EXCEPT !.account.available = @ - total]
<1>4. Commit(s, new, due \ posted)
  BY <1>2
<1>5. due \subseteq BucketIds
  BY DEF DueBuckets
<1>6. total \in Nat /\ total <= c.account.available
  <2>1. posted \in SUBSET BucketIds
    BY <1>5
  <2>2. \A b \in posted :
          SumFunctionOnSet(c.available, {a \in posted : Before(c, a, b)})
            + c.available[b] <= c.account.available
    BY <1>2
  <2> HIDE DEF c, due
  <2> QED
    BY <1>1, <2>1, <2>2, PostedIsCovered
<1>7. \A b \in due : c.bucket[b].status = "active"
  BY DEF DueBuckets
<1> HIDE DEF c, due, total
<1>8. /\ c.account \in [available: Nat, reserved: Nat]
      /\ c.bucket \in [BucketIds -> BucketType] /\ c.available \in [BucketIds -> Nat]
      /\ c.reserved \in [BucketIds -> Nat] /\ c.expired \in [BucketIds -> Nat]
  BY <1>1, CopyFields
<1> DEFINE avail == [b \in BucketIds |-> IF b \in due THEN 0 ELSE c.available[b]]
           exp == [b \in BucketIds |-> c.expired[b] + IF b \in due THEN c.available[b] ELSE 0]
           rows == [b \in BucketIds |->
                      IF b \in due THEN [c.bucket[b] EXCEPT !.status = "expired"]
                                   ELSE c.bucket[b]]
<1>9. /\ k.available = avail /\ k.expired = exp /\ k.bucket = rows
      /\ k.account = c.account /\ k.reserved = c.reserved
      /\ k.reservation = c.reservation /\ k.remaining = c.remaining
  BY <1>1 DEF Swept, CopyType
<1>10. /\ avail \in [BucketIds -> Nat] /\ exp \in [BucketIds -> Nat]
       /\ rows \in [BucketIds -> BucketType]
  <2>1. avail \in [BucketIds -> Nat]
    BY <1>8
  <2>2. exp \in [BucketIds -> Nat]
    BY <1>8
  <2>3. \A b \in BucketIds : /\ c.bucket[b] \in BucketType
                             /\ [c.bucket[b] EXCEPT !.status = "expired"] \in BucketType
    BY <1>8 DEF BucketType
  <2>4. rows \in [BucketIds -> BucketType]
    BY <2>3
  <2> QED
    BY <2>1, <2>2, <2>4
<1>11. \A b \in BucketIds :
         /\ rows[b].granted = c.bucket[b].granted
         /\ rows[b].status = IF b \in due THEN "expired" ELSE c.bucket[b].status
         /\ b \notin due => rows[b] = c.bucket[b]
         /\ avail[b] = IF b \in due THEN 0 ELSE c.available[b]
         /\ exp[b] = c.expired[b] + IF b \in due THEN c.available[b] ELSE 0
  <2> SUFFICES ASSUME NEW b \in BucketIds
               PROVE  /\ rows[b].granted = c.bucket[b].granted
                      /\ rows[b].status = IF b \in due THEN "expired" ELSE c.bucket[b].status
                      /\ b \notin due => rows[b] = c.bucket[b]
    OBVIOUS
  <2>1. c.bucket[b] \in BucketType
    BY <1>8
  <2>2. /\ [c.bucket[b] EXCEPT !.status = "expired"].granted = c.bucket[b].granted
        /\ [c.bucket[b] EXCEPT !.status = "expired"].status = "expired"
    BY <2>1 DEF BucketType
  <2> QED
    BY <2>2
<1>12. k \in CopyType
  BY <1>1, <1>9, <1>10 DEF Swept, CopyType
<1> HIDE DEF k, avail, exp, rows
<1>13. /\ new.account = [k.account EXCEPT !.available = @ - total]
       /\ new.available = k.available /\ new.expired = k.expired /\ new.bucket = k.bucket
       /\ new.reserved = k.reserved /\ new.reservation = k.reservation
       /\ new.remaining = k.remaining
  BY <1>12 DEF CopyType
<1>14. /\ new.account.available = c.account.available - total
       /\ new.account.reserved = c.account.reserved
       /\ new.account \in [available: Nat, reserved: Nat]
  BY <1>6, <1>8, <1>9, <1>13
<1>15. new \in CopyType
  <2>1. [k.account EXCEPT !.available = @ - total] \in [available: Nat, reserved: Nat]
    BY <1>13, <1>14
  <2> QED
    BY <2>1, <1>12 DEF CopyType
<1> HIDE DEF new
<1>16. \A b \in BucketIds : BucketShape(c, new, Zero, b)
  <2> SUFFICES ASSUME NEW b \in BucketIds PROVE BucketShape(c, new, Zero, b)
    OBVIOUS
  <2>1. /\ c.available[b] \in Nat /\ c.reserved[b] \in Nat /\ Zero[b] = 0
        /\ c.expired[b] \in Nat /\ c.bucket[b].granted \in Nat
    <3>1. c.bucket[b] \in BucketType
      BY <1>8
    <3> QED
      BY <3>1, <1>1, <1>8, NothingConsumed DEF BucketType
  <2>2. /\ new.bucket[b] = rows[b] /\ new.available[b] = avail[b]
        /\ new.reserved[b] = c.reserved[b] /\ new.expired[b] = exp[b]
    BY <1>9, <1>13
  <2>3. CASE b \in due
    BY <2>1, <2>2, <2>3, <1>7, <1>11 DEF BucketShape
  <2>4. CASE b \notin due
    BY <2>1, <2>2, <2>4, <1>11 DEF BucketShape
  <2> QED
    BY <2>3, <2>4
<1>17. \A r \in ReservationIds : ReservationShape(c, new, r)
  BY <1>9, <1>13 DEF ReservationShape
<1>18. due \ posted = {} => SumShape(c, new, Zero)
  <2> SUFFICES ASSUME posted = due PROVE SumShape(c, new, Zero)
    OBVIOUS
  <2> DEFINE g == [b \in BucketIds |-> IF b \in due THEN c.available[b] ELSE 0]
  <2>1. /\ g \in [BucketIds -> Int]
        /\ \A b \in BucketIds : g[b] = IF b \in due THEN c.available[b] ELSE 0
    BY <1>8
  <2> HIDE DEF g
  <2>2. SumFunction(g) = total
    <3>1. \A x \in BucketIds : c.available[x] \in Int
                                 /\ g[x] = IF x \in due THEN c.available[x] ELSE 0
      BY <2>1, <1>8
    <3>2. SumFunctionOnSet(g, BucketIds) = SumFunctionOnSet(c.available, due)
      BY <3>1, <1>5, RowsAreFinite, SumOfPart
    <3>3. SumFunction(g) = SumFunctionOnSet(g, BucketIds)
      BY <2>1, SumOfColumn
    <3> QED
      BY <3>2, <3>3 DEF total
  <2>3. SumFunction(c.available) = SumFunction(new.available) + total
    <3>1. \A b \in BucketIds : c.available[b] = new.available[b] + g[b]
      BY <2>1, <1>8, <1>9, <1>11, <1>13
    <3>2. c.available \in [BucketIds -> Int] /\ new.available \in [BucketIds -> Int]
      BY <1>8, <1>9, <1>10, <1>13
    <3> QED
      BY <3>1, <3>2, <2>1, <2>2, RowsAreFinite, ColumnsAdd
  <2>4. SumFunction(new.expired) = SumFunction(c.expired) + total
    <3>1. \A b \in BucketIds : new.expired[b] = c.expired[b] + g[b]
      BY <2>1, <1>9, <1>11, <1>13
    <3>2. c.expired \in [BucketIds -> Int] /\ new.expired \in [BucketIds -> Int]
      BY <1>8, <1>9, <1>10, <1>13
    <3> QED
      BY <3>1, <3>2, <2>1, <2>2, RowsAreFinite, ColumnsAdd
  <2>5. GrantedOf(new.bucket) = GrantedOf(c.bucket)
    BY <1>9, <1>11, <1>13 DEF GrantedOf
  <2>6. /\ SumFunction(c.available) \in Nat /\ SumFunction(c.reserved) \in Nat
        /\ SumFunction(c.expired) \in Nat /\ SumFunction(c.remaining) \in Nat
        /\ SumFunction(GrantedOf(c.bucket)) \in Nat
        /\ SumFunction(new.available) \in Nat
    BY <1>1, <1>15, CopySums
  <2>7. /\ SumFunction(new.available) - SumFunction(c.available) = -total
        /\ SumFunction(new.reserved) - SumFunction(c.reserved) = 0
        /\ SumFunction(new.expired) - SumFunction(c.expired) = total
        /\ SumFunction(GrantedOf(new.bucket)) - SumFunction(GrantedOf(c.bucket)) = 0
    BY <1>6, <1>9, <1>13, <2>3, <2>4, <2>5, <2>6
  <2>8. OneWay(-total, 0, total, 0, SumFunction(Zero))
    BY <1>1, <1>6, NothingConsumed DEF OneWay
  <2>9. /\ new.account.available = c.account.available + (-total)
        /\ new.account.reserved = c.account.reserved + 0
        /\ SumFunction(new.remaining) = SumFunction(c.remaining) + 0
    BY <1>6, <1>8, <1>9, <1>13, <1>14, <2>6
  <2> QED
    BY <2>7, <2>8, <2>9 DEF SumShape
<1>19. /\ Zero \in [BucketIds -> Int] /\ consumed_posted' = Plus(consumed_posted, Zero)
       /\ now' = now /\ grant_dates' \subseteq Nat
  BY <1>1, <1>3, NothingConsumed DEF TypeOK
<1>20. Shape(c, new, Zero, due \ posted)
  BY <1>15, <1>16, <1>17, <1>18, <1>19 DEF Shape
<1> QED
  BY <1>4, <1>19, <1>20 DEF Executes, c

(* Every command is executed as one of the shapes                           *)
LEMMA CommandExecutes ==
  ASSUME Inv, NEW s \in Sessions, Command(s)
  PROVE  \E new, q, unposted : Executes(s, new, q, unposted)
<1>0. TypeOK /\ copy[s] \in CopyType
  BY DEF Inv, TypeOK
<1>1. CASE DailyGrant(s)
  <2> DEFINE date == BusinessDate(copy[s].at)
  <2>1. date \in Nat
    BY <1>0, CopyFields, PointLedgerAssumption DEF BusinessDate
  <2>2. Grant(s, DailyPoints, (date + 1) * DayLength) /\ UNCHANGED <<now, consumed_posted>>
    BY <1>1 DEF DailyGrant
  <2>3. grant_dates' \subseteq Nat
    BY <1>0, <1>1, <2>1 DEF DailyGrant, TypeOK
  <2> HIDE DEF date
  <2>4. (date + 1) * DayLength \in Nat /\ DailyPoints \in Nat \ {0}
    BY <2>1, PointLedgerAssumption
  <2>5. \E m : Executes(s, m, Zero, {})
    BY <2>2, <2>3, <2>4, GrantExecutes
  <2> QED
    BY <2>5
<1>2. CASE \E p \in 1..MaxCredit, e \in Expiries : Compensate(s, p, e)
  <2>1. PICK p \in 1..MaxCredit, e \in Expiries : Compensate(s, p, e)
    BY <1>2
  <2>2. /\ Grant(s, p, e) /\ UNCHANGED <<now, consumed_posted>>
        /\ grant_dates' \subseteq Nat
    BY <1>0, <2>1 DEF Compensate, TypeOK
  <2>3. p \in Nat \ {0} /\ e \in Nat
    BY PointLedgerAssumption
  <2>4. \E m : Executes(s, m, Zero, {})
    BY <2>2, <2>3, GrantExecutes
  <2> QED
    BY <2>4
<1>3. CASE \E p \in Points : Reserve(s, p)
  BY <1>3, ReserveExecutes
<1>4. CASE \E r \in ReservationIds, p \in Points : Settle(s, r, p)
  BY <1>4, SettleExecutes
<1>5. CASE \E r \in ReservationIds, p \in Points : Release(s, r, p)
  BY <1>5, ReleaseExecutes
<1>6. CASE \E p \in 1..MaxCredit, named \in BucketIds \cup {0} : Refund(s, p, named)
  BY <1>6, RefundExecutes
<1>7. CASE ExpireDueBuckets(s)
  BY <1>7, ExpireExecutes
<1> QED
  BY <1>1, <1>2, <1>3, <1>4, <1>5, <1>6, <1>7 DEF Command

--------------------------------------------------------------------------------
(* The other steps *)

Reading(s) ==
  ReadAccount(s) \/ ReadRows(s) \/ ReadDue(s) \/ ReadAccountOfDue(s) \/ Abort(s)

(* The rows are copies of themselves                                        *)
LEMMA StoredCopied ==
  ASSUME Inv, NEW a \in [available: Nat, reserved: Nat]
  PROVE  /\ [Stored EXCEPT !.account = a] \in CopyType
         /\ Copied([Stored EXCEPT !.account = a])
<1> DEFINE k == [Stored EXCEPT !.account = a]
<1>1. /\ k.bucket = bucket /\ k.available = available /\ k.reserved = reserved
      /\ k.expired = expired /\ k.reservation = reservation /\ k.remaining = remaining
  BY DEF Stored
<1>2. k \in CopyType
  BY DEF Stored, CopyType, Inv, TypeOK
<1> HIDE DEF k
<1>3. \A b \in BucketIds : BucketCopied(k, b)
  BY <1>1 DEF BucketCopied, Inv, RowsBlank
<1>4. \A r \in ReservationIds : ReservationCopied(k, r)
  BY <1>1 DEF ReservationCopied, Inv, RowsBlank, ReservationLifecycle
<1> QED
  BY <1>2, <1>3, <1>4 DEF Copied, k

(* What a session reads are copies of the rows, and it reads nothing else   *)
LEMMA ReadingCopies ==
  ASSUME Inv, NEW s \in Sessions, Reading(s)
  PROVE  /\ UNCHANGED <<now, columns, grant_dates, consumed_posted, history>>
         /\ \E k \in CopyType : Copied(k) /\ copy' = [copy EXCEPT ![s] = k]
         /\ doing' \in [Sessions -> {"idle", "account", "rows", "due", "expiry"}]
<1>1. /\ copy[s] \in CopyType /\ Copied(copy[s])
      /\ account \in [available: Nat, reserved: Nat] /\ now \in Nat
      /\ doing \in [Sessions -> {"idle", "account", "rows", "due", "expiry"}]
  BY DEF Inv, TypeOK, CopiesInv
<1>2. NoCopy \in CopyType /\ Copied(NoCopy)
  BY NoCopyCopied
<1>3. CASE ReadAccount(s)
  <2> DEFINE k == [NoCopy EXCEPT !.account = account, !.at = now]
  <2>1. k \in CopyType
    BY <1>1, <1>2 DEF CopyType
  <2>2. /\ k.bucket = NoCopy.bucket /\ k.available = NoCopy.available
        /\ k.reserved = NoCopy.reserved /\ k.expired = NoCopy.expired
        /\ k.reservation = NoCopy.reservation /\ k.remaining = NoCopy.remaining
    BY <1>2 DEF CopyType
  <2>3. Read(s, "account", k)
    BY <1>3 DEF ReadAccount
  <2> HIDE DEF k
  <2>4. Copied(k)
    BY <1>2, <2>2 DEF Copied, BucketCopied, ReservationCopied
  <2> QED
    BY <1>1, <2>1, <2>3, <2>4 DEF Read
<1>4. CASE ReadRows(s)
  <2>1. copy[s].account \in [available: Nat, reserved: Nat]
    BY <1>1, CopyFields
  <2> QED
    BY <1>1, <1>4, <2>1, StoredCopied DEF ReadRows, Read
<1>5. CASE ReadDue(s)
  <2>1. NoPoints \in [available: Nat, reserved: Nat]
    BY DEF NoPoints
  <2> QED
    BY <1>1, <1>5, <2>1, StoredCopied DEF ReadDue, Read
<1>6. CASE ReadAccountOfDue(s)
  <2> DEFINE c == copy[s]
             k == [c EXCEPT !.account = account]
  <2>1. Read(s, "expiry", k)
    BY <1>6 DEF ReadAccountOfDue
  <2>2. c \in CopyType /\ Copied(c)
    BY <1>1
  <2> HIDE DEF c
  <2>3. k \in CopyType
    BY <1>1, <2>2 DEF CopyType
  <2>4. /\ k.bucket = c.bucket /\ k.available = c.available
        /\ k.reserved = c.reserved /\ k.expired = c.expired
        /\ k.reservation = c.reservation /\ k.remaining = c.remaining
    BY <2>2 DEF CopyType
  <2> HIDE DEF k
  <2>5. Copied(k)
    BY <2>2, <2>4 DEF Copied, BucketCopied, ReservationCopied
  <2> QED
    BY <1>1, <2>1, <2>3, <2>5 DEF Read
<1>7. CASE Abort(s)
  BY <1>1, <1>2, <1>7 DEF Abort, End
<1> QED
  BY <1>3, <1>4, <1>5, <1>6, <1>7 DEF Reading

(* A step is a command, a read, or leaves all but the clock as it is        *)
LEMMA Steps ==
  ASSUME [Next]_vars
  PROVE  \/ \E s \in Sessions : Command(s)
         \/ \E s \in Sessions : Reading(s)
         \/ Tick
         \/ UNCHANGED vars
BY DEF Next, Reading

(* The invariant is about the rows and the copies only                      *)
LEMMA InvStays ==
  ASSUME Inv, UNCHANGED <<columns, grant_dates, consumed_posted, history>>,
         now' \in Nat, NEW s \in Sessions, NEW k \in CopyType, Copied(k),
         copy' = [copy EXCEPT ![s] = k],
         doing' \in [Sessions -> {"idle", "account", "rows", "due", "expiry"}]
  PROVE  Inv'
<1>1. /\ UNCHANGED <<account, bucket, available, reserved, expired, reservation, remaining>>
      /\ UNCHANGED <<grant_dates, consumed_posted, overwritten, drifted>>
  BY DEF columns, history
<1>2. TypeOK'
  BY <1>1 DEF Inv, TypeOK
<1>3. RowsBlank'
  BY <1>1 DEF Inv, RowsBlank
<1>4. CopiesInv'
  <2> SUFFICES ASSUME NEW t \in Sessions PROVE Copied(copy[t])'
    BY DEF CopiesInv
  <2>1. Copied(copy[t]) /\ copy \in [Sessions -> CopyType]
    BY DEF Inv, CopiesInv, TypeOK
  <2>2. PICK x : x = copy'[t] /\ Copied(x)
    BY <2>1
  <2>3. Copied(x)'
    BY <1>1, <2>2 DEF Copied, BucketCopied, ReservationCopied
  <2> QED
    BY <2>2, <2>3 DEF Copied, BucketCopied, ReservationCopied
<1>5. PostingsConserve'
  BY <1>1 DEF Inv, PostingsConserve
<1>6. ReservationLifecycle'
  BY <1>1 DEF Inv, ReservationLifecycle
<1> QED
  BY <1>2, <1>3, <1>4, <1>5, <1>6 DEF Inv

(* Every step preserves the invariant                                       *)
LEMMA NextInv == Inv /\ [Next]_vars => Inv'
<1> SUFFICES ASSUME Inv, [Next]_vars PROVE Inv'
  OBVIOUS
<1>1. CASE \E s \in Sessions : Command(s)
  BY <1>1, CommandExecutes, CommitInv
<1>2. CASE \E s \in Sessions : Reading(s)
  <2>1. PICK s \in Sessions : Reading(s)
    BY <1>2
  <2>2. /\ UNCHANGED <<columns, grant_dates, consumed_posted, history>> /\ now' \in Nat
        /\ \E k \in CopyType : Copied(k) /\ copy' = [copy EXCEPT ![s] = k]
        /\ doing' \in [Sessions -> {"idle", "account", "rows", "due", "expiry"}]
    BY <2>1, ReadingCopies DEF Inv, TypeOK
  <2> QED
    BY <2>2, InvStays
<1>3. CASE Tick \/ UNCHANGED vars
  <2>1. /\ UNCHANGED <<account, bucket, available, reserved, expired, reservation, remaining>>
        /\ UNCHANGED <<grant_dates, consumed_posted, doing, copy, overwritten, drifted>>
        /\ now' \in Nat
    BY <1>3 DEF Tick, vars, columns, history, Inv, TypeOK
  <2>2. TypeOK'
    BY <2>1 DEF Inv, TypeOK
  <2>3. RowsBlank' /\ PostingsConserve' /\ ReservationLifecycle'
    BY <2>1 DEF Inv, RowsBlank, PostingsConserve, ReservationLifecycle
  <2>4. CopiesInv'
    BY <2>1 DEF Inv, CopiesInv, Copied, BucketCopied, ReservationCopied
  <2> QED
    BY <2>2, <2>3, <2>4 DEF Inv
<1> QED
  BY <1>1, <1>2, <1>3, Steps

(* The invariant holds in every state                                       *)
THEOREM InvAlways == Spec => []Inv
<1> QED
  BY InitInv, NextInv, PTL DEF Spec

--------------------------------------------------------------------------------
(* The theorems *)

(* No bucket, reservation or projection ever goes negative, however many    *)
(* sessions overlap (the guards of service.py and of                        *)
(* append_event_with_postings).                                             *)
THEOREM TypeCorrect == Spec => []TypeOK
<1>1. Inv => TypeOK
  BY DEF Inv
<1> QED
  BY <1>1, InvAlways, PTL

(* A bucket that was never written from an old copy accounts for every      *)
(* point it was granted, whatever commands of however many sessions         *)
(* overlapped on the others.                                                *)
THEOREM Conservation == Spec => []PostingsConserve
<1>1. Inv => PostingsConserve
  BY DEF Inv
<1> QED
  BY <1>1, InvAlways, PTL

(* Until an update is lost, a reservation is closed exactly when nothing    *)
(* remains of it.                                                           *)
THEOREM Lifecycle == Spec => []ReservationLifecycle
<1>1. Inv => ReservationLifecycle
  BY DEF Inv
<1> QED
  BY <1>1, InvAlways, PTL

(* Points that expire sooner are reserved sooner: no reservation is made    *)
(* from a lapsed bucket, or from one while a sooner one that its session    *)
(* has read keeps points.                                                   *)
THEOREM FifoSpending == Spec => SoonestToExpireFirst
<1> DEFINE Fifo(s, r, a, b) ==
      LET c == copy[s] IN
      doing'[s] # doing[s] /\ reservation[r].status = "absent"
        /\ b \in reservation'[r].source =>
        /\ ~Lapsed(c, b)
        /\ (/\ c.bucket[a].status = "active" /\ ~Lapsed(c, a) /\ c.available[a] > 0
            /\ c.bucket[a].expires_at < c.bucket[b].expires_at)
           => available'[a] = 0
<1>1. Inv /\ [Next]_vars =>
        \A s \in Sessions, r \in ReservationIds, a, b \in BucketIds : Fifo(s, r, a, b)
  <2> SUFFICES ASSUME Inv, [Next]_vars, NEW s \in Sessions, NEW r \in ReservationIds,
                      NEW a \in BucketIds, NEW b \in BucketIds,
                      doing'[s] # doing[s], reservation[r].status = "absent",
                      b \in reservation'[r].source
               PROVE  /\ ~Lapsed(copy[s], b)
                      /\ (/\ copy[s].bucket[a].status = "active" /\ ~Lapsed(copy[s], a)
                          /\ copy[s].available[a] > 0
                          /\ copy[s].bucket[a].expires_at < copy[s].bucket[b].expires_at)
                         => available'[a] = 0
    OBVIOUS
  <2>1. reservation[r].source = {} /\ reservation'[r] # reservation[r]
    BY DEF Inv, RowsBlank
  <2>2. PICK t \in Sessions : Command(t)
    <3>1. ~(UNCHANGED reservation)
      BY <2>1
    <3>2. ~ Tick /\ ~ UNCHANGED vars
      BY <3>1 DEF Tick, vars, columns
    <3>3. ~ \E t \in Sessions : Reading(t)
      BY <3>1, ReadingCopies DEF columns
    <3> QED
      BY <3>2, <3>3, Steps
  <2>3. PICK new, q, unposted : Executes(t, new, q, unposted)
    BY <2>2, CommandExecutes
  <2>4. t = s
    BY <2>3 DEF Executes, Commit, End, Inv, TypeOK
  <2> DEFINE c == copy[s]
  <2>5. /\ c \in CopyType /\ new \in CopyType /\ ReservationCopied(c, r)
        /\ ReservationShape(c, new, r)
        /\ reservation' = Merge(reservation, c.reservation, new.reservation)
        /\ available' = Merge(available, c.available, new.available)
        /\ reservation \in [ReservationIds -> ReservationType]
        /\ available \in [BucketIds -> Nat]
    BY <2>3, <2>4 DEF Executes, Commit, Shape, Inv, TypeOK, CopiesInv, Copied
  <2> HIDE DEF c
  <2>6. c.remaining[r] = 0 /\ new.remaining[r] \in Nat
    BY <2>5, CopyFields DEF ReservationCopied
  <2>7. /\ reservation'[r] = IF new.reservation[r] = c.reservation[r]
                               THEN reservation[r] ELSE new.reservation[r]
        /\ available'[a] = IF new.available[a] = c.available[a]
                             THEN available[a] ELSE new.available[a]
    BY <2>5 DEF Merge
  <2>8. new.reservation[r] # c.reservation[r] /\ reservation'[r] = new.reservation[r]
    BY <2>1, <2>7
  <2>9. Created(c, new, r)
    BY <2>5, <2>6, <2>8 DEF ReservationShape, Shrunk
  <2>10. /\ ~Lapsed(c, b)
         /\ (/\ c.bucket[a].status = "active" /\ ~Lapsed(c, a) /\ c.available[a] > 0
             /\ c.bucket[a].expires_at < c.bucket[b].expires_at)
            => available'[a] = 0
    BY <2>7, <2>8, <2>9 DEF Created
  <2> QED
    BY <2>10 DEF c
<1> QED
  BY <1>1, InvAlways, PTL DEF Spec, SoonestToExpireFirst

(* While no update is lost, nothing is settled or released twice.           *)
THEOREM NeverTwice == Spec => ReservationsOnlyShrink
<1> DEFINE Shrinks(r) ==
      reservation[r].status # "absent" =>
        /\ remaining'[r] <= remaining[r]
        /\ reservation'[r].points = reservation[r].points
        /\ reservation[r].status \in {"settled", "released"} =>
             reservation'[r] = reservation[r] /\ remaining'[r] = remaining[r]
<1>1. Inv /\ [Next]_vars => (~drifted' => \A r \in ReservationIds : Shrinks(r))
  <2> SUFFICES ASSUME Inv, [Next]_vars, ~drifted', NEW r \in ReservationIds,
                      reservation[r].status # "absent"
               PROVE  /\ remaining'[r] <= remaining[r]
                      /\ reservation'[r].points = reservation[r].points
                      /\ reservation[r].status \in {"settled", "released"} =>
                           reservation'[r] = reservation[r] /\ remaining'[r] = remaining[r]
    OBVIOUS
  <2>1. remaining[r] \in Nat
    BY DEF Inv, TypeOK
  <2>2. CASE UNCHANGED <<reservation, remaining>>
    BY <2>1, <2>2
  <2>3. CASE \E s \in Sessions : Command(s)
    <3>0. PICK s \in Sessions : Command(s)
      BY <2>3
    <3>1. PICK new, q, unposted : Executes(s, new, q, unposted)
      BY <3>0, CommandExecutes
    <3>2. \/ reservation'[r] = reservation[r] /\ remaining'[r] = remaining[r]
          \/ /\ reservation[r].status \notin {"absent", "settled", "released"}
             /\ remaining'[r] < remaining[r]
             /\ reservation'[r].points = reservation[r].points
      BY <3>1, ReservationCommit
    <3>3. remaining'[r] \in Nat
      BY NextInv DEF Inv, TypeOK
    <3> QED
      BY <2>1, <3>2, <3>3
  <2>4. CASE ~ \E s \in Sessions : Command(s)
    <3>1. UNCHANGED <<reservation, remaining>>
      BY <2>4, Steps, ReadingCopies DEF Tick, vars, columns
    <3> QED
      BY <2>2, <3>1
  <2> QED
    BY <2>3, <2>4
<1> QED
  BY <1>1, InvAlways, PTL DEF Spec, ReservationsOnlyShrink

(* Reading does not change what the rows add up to                          *)
LEMMA OtherSteps ==
  ASSUME Inv, [Next]_vars, ~ \E s \in Sessions : Command(s)
  PROVE  UNCHANGED <<account, bucket, available, reserved, expired, remaining,
                     consumed_posted, drifted>>
BY Steps, ReadingCopies DEF Tick, vars, columns, history

(* Until an update is lost or an expiry goes unposted, the projection of    *)
(* the account is what its rows add up to, under any mix and any overlap    *)
(* of commands.                                                             *)
THEOREM ProjectionIsExact == Spec => []ProjectionMatchesRows
<1>1. Init => ProjectionMatchesRows
  <2> SUFFICES ASSUME Init
               PROVE  SumFunction(Zero) = 0 /\ SumFunction(remaining) = 0
                        /\ account.available = 0 /\ account.reserved = 0
                        /\ available = Zero /\ reserved = Zero
    BY DEF ProjectionMatchesRows
  <2>1. SumFunction(Zero) = 0
    BY InitInv, NothingConsumed DEF Inv
  <2>2. remaining \in [ReservationIds -> Int] /\ \A r \in ReservationIds : remaining[r] = 0
    BY DEF Init, NoCopy
  <2> QED
    BY <2>1, <2>2, RowsAreFinite, ZerosSum DEF Init, NoPoints
<1>2. Inv /\ ProjectionMatchesRows /\ [Next]_vars => ProjectionMatchesRows'
  <2> SUFFICES ASSUME Inv, ProjectionMatchesRows, [Next]_vars PROVE ProjectionMatchesRows'
    OBVIOUS
  <2>1. CASE \E s \in Sessions : Command(s)
    BY <2>1, CommandExecutes, ProjectionCommit
  <2>2. CASE ~ \E s \in Sessions : Command(s)
    BY <2>2, OtherSteps DEF ProjectionMatchesRows
  <2> QED
    BY <2>1, <2>2
<1> QED
  BY <1>1, <1>2, InvAlways, PTL DEF Spec

(* The ledger of buckets, reservations and overlapping sessions implements  *)
(* the purse, whose points go one way at a time until an update is lost or  *)
(* an expiry goes unposted.                                                 *)
THEOREM RefinesPurse == Spec => ImplementsPurse
<1>1. Init => Purse!Init
  <2> SUFFICES ASSUME Init PROVE Purse!Init
    OBVIOUS
  <2>1. SumFunction(Zero) = 0
    BY InitInv, NothingConsumed DEF Inv
  <2>2. SumFunction(Granted) = 0
    <3>1. Granted \in [BucketIds -> Int] /\ \A b \in BucketIds : Granted[b] = 0
      BY DEF Granted, Init, NoCopy, NoBucket
    <3> QED
      BY <3>1, RowsAreFinite, ZerosSum
  <2> QED
    BY <2>1, <2>2 DEF Purse!Init, Init
<1>2. Inv /\ [Next]_vars => [Purse!Next]_(Purse!vars)
  <2> SUFFICES ASSUME Inv, [Next]_vars PROVE [Purse!Next]_(Purse!vars)
    OBVIOUS
  <2>1. CASE \E s \in Sessions : Command(s)
    BY <2>1, CommandExecutes, PurseCommit
  <2>2. CASE ~ \E s \in Sessions : Command(s)
    BY <2>2, OtherSteps DEF Purse!vars, Granted
  <2> QED
    BY <2>1, <2>2
<1> QED
  BY <1>1, <1>2, InvAlways, PTL DEF Spec, ImplementsPurse, Purse!Spec
================================================================================
