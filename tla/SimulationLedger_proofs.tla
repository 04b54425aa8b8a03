------------------------ MODULE SimulationLedger_proofs -------------------------
(***************************************************************************)
(* Theorems about the order ledger for every set of stocks, amounts,       *)
(* prices, quantities and bounds: its types, and what the checks of        *)
(* simulation.py guarantee of holdings, T+1 and cash, with the exceptions  *)
(* that a late tick and an edit of the session make.                       *)
(***************************************************************************)
EXTENDS SimulationLedger, FiniteSetTheorems, TLAPS

---------------------------------------------------------------------------
(* Sums over finite sets *)

\* Induction over the subsets of a finite set, stated for a set of them: when
\* F contains each subset whose proper subsets it contains, it contains all.
LEMMA SubsetInduction ==
    ASSUME NEW S, IsFiniteSet(S), NEW F,
           \A T \in SUBSET S : (\A U \in (SUBSET T) \ {T} : U \in F) => T \in F
    PROVE  \A T \in SUBSET S : T \in F
<1>. DEFINE rest == (SUBSET S) \ F
<1>. SUFFICES ASSUME rest # {} PROVE FALSE
    OBVIOUS
<1>1. IsWellFoundedOn(StrictSubsetOrdering(S), SUBSET S)
    <2>1. FiniteSubsetsOf(S) = SUBSET S
        BY FS_FiniteSubsetsOfFinite
    <2>2. IsWellFoundedOn(StrictSubsetOrdering(S), FiniteSubsetsOf(S))
        BY FS_StrictSubsetOrderingWellFounded
    <2>. QED
        BY <2>1, <2>2
<1>2. PICK T \in rest : \A U \in rest : <<U, T>> \notin StrictSubsetOrdering(S)
    <2>1. rest \subseteq SUBSET S
        OBVIOUS
    <2>. HIDE DEF rest
    <2>. QED
        BY <1>1, <2>1, WFMin
<1>3. \A U \in (SUBSET T) \ {T} : U \in F
    BY <1>2 DEF StrictSubsetOrdering
<1>. QED
    BY <1>2, <1>3

\* The element of a set that a fold takes first, and the sum of a function's
\* values over each set of a family.
First(T) == CHOOSE x \in T : TRUE

SumStep(g, f, T) == IF T = {} THEN 0 ELSE f[First(T)] + g[T \ {First(T)}]

IsSum(g, f, P) == g = [T \in SUBSET P |-> SumStep(g, f, T)]

LEMMA FirstIn == \A T : T # {} => First(T) \in T
    BY DEF First

\* The recursion of the fold is well founded: over a finite set there is such
\* a function.
LEMMA SumExists ==
    ASSUME NEW P, IsFiniteSet(P), NEW f
    PROVE  \E g : IsSum(g, f, P)
<1>. DEFINE Upto(g, n) == /\ g = [T \in SUBSET P |-> g[T]]
                          /\ \A T \in SUBSET P : Cardinality(T) <= n => g[T] = SumStep(g, f, T)
            F == {U \in SUBSET P : \E g : Upto(g, Cardinality(U))}
<1>1. \A T \in SUBSET P : IsFiniteSet(T) /\ Cardinality(T) \in Nat
    BY FS_Subset, FS_CardinalityType
<1>2. \A T \in SUBSET P : T # {} =>
          /\ T \ {First(T)} \in (SUBSET T) \ {T}
          /\ Cardinality(T \ {First(T)}) = Cardinality(T) - 1
    BY <1>1, FirstIn, FS_RemoveElement
<1>3. ASSUME NEW U \in SUBSET P, \A V \in (SUBSET U) \ {U} : V \in F
      PROVE  U \in F
    <2>1. CASE U = {}
        <3>. DEFINE g == [T \in SUBSET P |-> 0]
        <3>1. \A T \in SUBSET P : Cardinality(T) <= Cardinality(U) => T = {}
            BY <1>1, <2>1, FS_EmptySet
        <3>2. Upto(g, Cardinality(U))
            BY <3>1 DEF SumStep
        <3>. QED
            BY <3>2
    <2>2. CASE U # {}
        <3>. DEFINE n == Cardinality(U)
        <3>1. PICK h : Upto(h, n - 1)
            <4>1. PICK V \in F : Cardinality(V) = n - 1
                BY <1>2, <1>3, <2>2
            <4>. QED
                BY <4>1
        <3>. DEFINE g == [T \in SUBSET P |-> IF Cardinality(T) <= n - 1 THEN h[T]
                                              ELSE SumStep(h, f, T)]
        <3>2. n \in Nat
            BY <1>1
        <3>3. ASSUME NEW T \in SUBSET P, Cardinality(T) <= n
              PROVE  g[T] = SumStep(g, f, T)
            <4>1. g[T] = SumStep(h, f, T)
                BY <3>1
            <4>2. T # {} => g[T \ {First(T)}] = h[T \ {First(T)}]
                BY <1>1, <1>2, <3>2, <3>3
            <4>. QED
                BY <4>1, <4>2 DEF SumStep
        <3>4. g = [T \in SUBSET P |-> g[T]]
            OBVIOUS
        <3>5. Upto(g, n)
            BY <3>3, <3>4
        <3>. QED
            BY <3>5
    <2>. QED
        BY <2>1, <2>2
<1>4. P \in F
    <2>. HIDE DEF F
    <2>1. \A T \in SUBSET P : T \in F
        BY <1>3, SubsetInduction
    <2>. QED
        BY <2>1
<1>5. PICK g : Upto(g, Cardinality(P))
    BY <1>4
<1>6. \A T \in SUBSET P : Cardinality(T) <= Cardinality(P)
    BY FS_Subset
<1>7. g = [T \in SUBSET P |-> SumStep(g, f, T)]
    BY <1>5, <1>6
<1>. QED
    BY <1>7 DEF IsSum

\* A sum of integers is an integer.
LEMMA SumType ==
    ASSUME NEW P, IsFiniteSet(P), NEW f, \A x \in P : f[x] \in Int,
           NEW g, IsSum(g, f, P)
    PROVE  \A T \in SUBSET P : g[T] \in Int
<1>. DEFINE F == {T \in SUBSET P : g[T] \in Int}
<1>1. ASSUME NEW T \in SUBSET P, \A U \in (SUBSET T) \ {T} : U \in F
      PROVE  T \in F
    <2>1. g[T] = SumStep(g, f, T)
        BY DEF IsSum
    <2>2. T # {} => f[First(T)] \in Int /\ g[T \ {First(T)}] \in Int
        BY <1>1, FirstIn
    <2>. QED
        BY <2>1, <2>2 DEF SumStep
<1>. HIDE DEF F
<1>2. \A T \in SUBSET P : T \in F
    BY <1>1, SubsetInduction
<1>. QED
    BY <1>2 DEF F

\* Any element may be taken out of a sum first.
LEMMA SumTakeOut ==
    ASSUME NEW P, IsFiniteSet(P), NEW f, \A x \in P : f[x] \in Int,
           NEW g, IsSum(g, f, P)
    PROVE  \A T \in SUBSET P : \A x \in T : g[T] = f[x] + g[T \ {x}]
<1>. DEFINE F == {T \in SUBSET P : \A x \in T : g[T] = f[x] + g[T \ {x}]}
<1>1. ASSUME NEW T \in SUBSET P, \A U \in (SUBSET T) \ {T} : U \in F,
             NEW x \in T
      PROVE  g[T] = f[x] + g[T \ {x}]
    <2>. DEFINE y == First(T)
                U == T \ {y}
                V == T \ {x}
                W == U \ {x}
    <2>1. y \in T /\ g[T] = f[y] + g[U]
        BY FirstIn DEF IsSum, SumStep
    <2>2. CASE x = y
        BY <2>1, <2>2
    <2>3. CASE x # y
        <3>1. U \in F /\ x \in U /\ V \in F /\ y \in V /\ V \ {y} = W
            BY <1>1, <2>1, <2>3
        <3>2. g[U] = f[x] + g[W] /\ g[V] = f[y] + g[W]
            BY <3>1
        <3>3. f[x] \in Int /\ f[y] \in Int /\ g[W] \in Int
            BY <2>1, SumType
        <3>. QED
            BY <2>1, <3>2, <3>3
    <2>. QED
        BY <2>2, <2>3
<1>2. \A T \in SUBSET P : (\A U \in (SUBSET T) \ {T} : U \in F) => T \in F
    BY <1>1
<1>. HIDE DEF F
<1>3. \A T \in SUBSET P : T \in F
    BY <1>2, SubsetInduction
<1>. QED
    BY <1>3 DEF F

\* Two functions that agree on a set have the same sums over its subsets.
LEMMA SumSame ==
    ASSUME NEW P, IsFiniteSet(P), NEW Q \in SUBSET P, NEW f, NEW h,
           \A x \in Q : h[x] = f[x],
           NEW g, IsSum(g, f, P), NEW k, IsSum(k, h, Q)
    PROVE  \A T \in SUBSET Q : k[T] = g[T]
<1>. DEFINE F == {T \in SUBSET Q : k[T] = g[T]}
<1>0. IsFiniteSet(Q)
    BY FS_Subset
<1>1. ASSUME NEW T \in SUBSET Q, \A U \in (SUBSET T) \ {T} : U \in F
      PROVE  T \in F
    <2>1. k[T] = SumStep(k, h, T) /\ g[T] = SumStep(g, f, T)
        BY DEF IsSum
    <2>2. T # {} => /\ h[First(T)] = f[First(T)]
                    /\ k[T \ {First(T)}] = g[T \ {First(T)}]
        BY <1>1, FirstIn
    <2>. QED
        BY <2>1, <2>2 DEF SumStep
<1>. HIDE DEF F
<1>2. \A T \in SUBSET Q : T \in F
    BY <1>0, <1>1, SubsetInduction
<1>. QED
    BY <1>2 DEF F

\* The sum of a function's values over a finite set.
Total(f, I) == (CHOOSE g : IsSum(g, f, I))[I]

\* It is what any such sum function gives for the set.
LEMMA TotalIs ==
    ASSUME NEW P, IsFiniteSet(P), NEW f, NEW g, IsSum(g, f, P), NEW I \in SUBSET P
    PROVE  Total(f, I) = g[I]
<1>1. IsFiniteSet(I)
    BY FS_Subset
<1>. DEFINE k == CHOOSE k : IsSum(k, f, I)
<1>2. IsSum(k, f, I)
    BY <1>1, SumExists
<1>. HIDE DEF k
<1>3. \A x \in I : f[x] = f[x]
    OBVIOUS
<1>4. k[I] = g[I]
    BY <1>2, <1>3, SumSame
<1>. QED
    BY <1>4 DEF Total, k

\* A total of integers is an integer; that of nothing is zero; an element is
\* added with its value.
LEMMA TotalFacts ==
    ASSUME NEW I, IsFiniteSet(I), NEW f, \A x \in I : f[x] \in Int
    PROVE  /\ Total(f, I) \in Int
           /\ I = {} => Total(f, I) = 0
           /\ \A x \in I : Total(f, I) = f[x] + Total(f, I \ {x})
<1>1. PICK g : IsSum(g, f, I)
    BY SumExists
<1>2. \A J \in SUBSET I : Total(f, J) = g[J]
    BY <1>1, TotalIs
<1>3. \A J \in SUBSET I : g[J] \in Int
    BY <1>1, SumType
<1>4. I = {} => g[I] = 0
    BY <1>1 DEF IsSum, SumStep
<1>5. \A x \in I : g[I] = f[x] + g[I \ {x}]
    BY <1>1, SumTakeOut
<1>. QED
    BY <1>2, <1>3, <1>4, <1>5

\* Functions that agree on the set have the same total.
LEMMA TotalSame ==
    ASSUME NEW I, IsFiniteSet(I), NEW f, NEW h, \A x \in I : h[x] = f[x]
    PROVE  Total(h, I) = Total(f, I)
<1>1. PICK g : IsSum(g, f, I)
    BY SumExists
<1>2. PICK k : IsSum(k, h, I)
    BY SumExists
<1>3. I \in SUBSET I
    OBVIOUS
<1>4. k[I] = g[I]
    BY <1>1, <1>2, <1>3, SumSame
<1>5. Total(f, I) = g[I]
    BY <1>1, <1>3, TotalIs
<1>6. Total(h, I) = k[I]
    BY <1>2, <1>3, TotalIs
<1>. QED
    BY <1>4, <1>5, <1>6

\* Elements whose values are not negative do not lower a total.
LEMMA TotalMonotone ==
    ASSUME NEW I, IsFiniteSet(I), NEW f, \A x \in I : f[x] \in Int,
           NEW J \in SUBSET I, \A x \in I \ J : f[x] >= 0
    PROVE  Total(f, J) <= Total(f, I)
<1>. DEFINE F == {T \in SUBSET I : J \subseteq T => Total(f, J) <= Total(f, T)}
<1>0. \A T \in SUBSET I :
          /\ Total(f, T) \in Int
          /\ \A x \in T : Total(f, T) = f[x] + Total(f, T \ {x})
    <2>. TAKE T \in SUBSET I
    <2>1. IsFiniteSet(T) /\ \A x \in T : f[x] \in Int
        BY FS_Subset
    <2>. QED
        BY <2>1, TotalFacts
<1>1. ASSUME NEW T \in SUBSET I, \A U \in (SUBSET T) \ {T} : U \in F,
             J \subseteq T
      PROVE  Total(f, J) <= Total(f, T)
    <2>1. CASE T = J
        BY <1>0, <2>1
    <2>2. CASE T # J
        <3>1. PICK x \in T : x \notin J
            BY <1>1, <2>2
        <3>2. T \ {x} \in (SUBSET T) \ {T} /\ J \subseteq T \ {x}
            BY <1>1, <3>1
        <3>3. Total(f, J) <= Total(f, T \ {x})
            BY <1>1, <3>2
        <3>4. f[x] \in Int /\ f[x] >= 0
            BY <3>1
        <3>5. Total(f, T) = f[x] + Total(f, T \ {x})
            BY <1>0, <3>1
        <3>6. /\ Total(f, J) \in Int
              /\ Total(f, T \ {x}) \in Int
            BY <1>0, <3>2
        <3>. QED
            BY <3>3, <3>4, <3>5, <3>6
    <2>. QED
        BY <2>1, <2>2
<1>2. \A T \in SUBSET I : (\A U \in (SUBSET T) \ {T} : U \in F) => T \in F
    BY <1>1
<1>. HIDE DEF F
<1>3. \A T \in SUBSET I : T \in F
    BY <1>2, SubsetInduction
<1>. QED
    BY <1>3 DEF F

---------------------------------------------------------------------------
(* The sums of a list of fills *)

QuantityOf(F) == [i \in DOMAIN F |-> F[i].quantity]
FlowOf(F) == [i \in DOMAIN F |-> F[i].flow]

\* Lots and Money as functions of the list, so that a fact about them can be
\* used before and after a step.
LotsOf(F, I) == MapThenSumSet(LAMBDA i : F[i].quantity, I)
MoneyOf(F, I) == MapThenSumSet(LAMBDA i : F[i].flow, I)

\* What the folds compute are such totals.
LEMMA LotsAreTotal ==
    ASSUME NEW F, NEW I \in SUBSET DOMAIN F, IsFiniteSet(I)
    PROVE  LotsOf(F, I) = Total(QuantityOf(F), I)
<1>. DEFINE Loop(k) == k = [s \in SUBSET I |->
                               IF s = {} THEN 0
                               ELSE F[CHOOSE x \in s : TRUE].quantity
                                    + k[s \ {CHOOSE x \in s : TRUE}]]
            g == CHOOSE k : Loop(k)
<1>1. ASSUME NEW k PROVE Loop(k) <=> IsSum(k, QuantityOf(F), I)
    <2>1. \A T \in SUBSET I : T # {} =>
              QuantityOf(F)[First(T)] = F[First(T)].quantity
        BY FirstIn DEF QuantityOf
    <2>2. \A T \in SUBSET I :
              SumStep(k, QuantityOf(F), T) =
                  IF T = {} THEN 0
                  ELSE F[CHOOSE x \in T : TRUE].quantity
                       + k[T \ {CHOOSE x \in T : TRUE}]
        BY <2>1 DEF SumStep, First
    <2>. QED
        BY <2>2 DEF IsSum
<1>2. LotsOf(F, I) = g[I]
    BY DEF LotsOf, MapThenSumSet, MapThenFoldSet
<1>3. \E k : Loop(k)
    <2>1. PICK k : IsSum(k, QuantityOf(F), I)
        BY SumExists
    <2>. HIDE DEF Loop
    <2>. QED
        BY <1>1, <2>1
<1>4. Loop(g)
    <2>. HIDE DEF Loop
    <2>. QED
        BY <1>3
<1>5. IsSum(g, QuantityOf(F), I)
    <2>. HIDE DEF g, Loop
    <2>. QED
        BY <1>1, <1>4
<1>. HIDE DEF g
<1>. QED
    BY <1>2, <1>5, TotalIs

LEMMA MoneyIsTotal ==
    ASSUME NEW F, NEW I \in SUBSET DOMAIN F, IsFiniteSet(I)
    PROVE  MoneyOf(F, I) = Total(FlowOf(F), I)
<1>. DEFINE Loop(k) == k = [s \in SUBSET I |->
                               IF s = {} THEN 0
                               ELSE F[CHOOSE x \in s : TRUE].flow
                                    + k[s \ {CHOOSE x \in s : TRUE}]]
            g == CHOOSE k : Loop(k)
<1>1. ASSUME NEW k PROVE Loop(k) <=> IsSum(k, FlowOf(F), I)
    <2>1. \A T \in SUBSET I : T # {} =>
              FlowOf(F)[First(T)] = F[First(T)].flow
        BY FirstIn DEF FlowOf
    <2>2. \A T \in SUBSET I :
              SumStep(k, FlowOf(F), T) =
                  IF T = {} THEN 0
                  ELSE F[CHOOSE x \in T : TRUE].flow
                       + k[T \ {CHOOSE x \in T : TRUE}]
        BY <2>1 DEF SumStep, First
    <2>. QED
        BY <2>2 DEF IsSum
<1>2. MoneyOf(F, I) = g[I]
    BY DEF MoneyOf, MapThenSumSet, MapThenFoldSet
<1>3. \E k : Loop(k)
    <2>1. PICK k : IsSum(k, FlowOf(F), I)
        BY SumExists
    <2>. HIDE DEF Loop
    <2>. QED
        BY <1>1, <2>1
<1>4. Loop(g)
    <2>. HIDE DEF Loop
    <2>. QED
        BY <1>3
<1>5. IsSum(g, FlowOf(F), I)
    <2>. HIDE DEF g, Loop
    <2>. QED
        BY <1>1, <1>4
<1>. HIDE DEF g
<1>. QED
    BY <1>2, <1>5, TotalIs

\* The list before and after a fill is appended.
LEMMA AppendFacts ==
    ASSUME NEW F \in Seq(Fill), NEW r \in Fill
    PROVE  /\ Append(F, r) \in Seq(Fill)
           /\ Len(F) \in Nat /\ Len(Append(F, r)) = Len(F) + 1
           /\ DOMAIN F = 1..Len(F)
           /\ DOMAIN Append(F, r) = DOMAIN F \union {Len(F) + 1}
           /\ Len(F) + 1 \notin DOMAIN F
           /\ \A i \in DOMAIN F : Append(F, r)[i] = F[i] /\ F[i] \in Fill
           /\ Append(F, r)[Len(F) + 1] = r
    OBVIOUS

LEMMA FillsFinite ==
    ASSUME NEW F \in Seq(Fill), NEW I \in SUBSET DOMAIN F
    PROVE  IsFiniteSet(I)
<1>1. Len(F) \in Nat /\ DOMAIN F = 1..Len(F)
    OBVIOUS
<1>2. IsFiniteSet(1..Len(F))
    BY <1>1, FS_Interval
<1>. QED
    BY <1>1, <1>2, FS_Subset

\* Lots are natural numbers, and more fills are no fewer lots.
LEMMA LotsFacts ==
    ASSUME NEW F \in Seq(Fill), NEW I \in SUBSET DOMAIN F, NEW J \in SUBSET I
    PROVE  LotsOf(F, I) \in Int /\ LotsOf(F, J) \in Int /\ LotsOf(F, J) <= LotsOf(F, I)
<1>1. IsFiniteSet(I) /\ IsFiniteSet(J) /\ J \in SUBSET DOMAIN F
    BY FillsFinite
<1>2. \A x \in I : QuantityOf(F)[x] \in Int /\ QuantityOf(F)[x] >= 0
    <2>1. \A x \in I : F[x] \in Fill /\ QuantityOf(F)[x] = F[x].quantity
        BY DEF QuantityOf
    <2>. QED
        BY <2>1 DEF Fill
<1>3. LotsOf(F, I) = Total(QuantityOf(F), I) /\ LotsOf(F, J) = Total(QuantityOf(F), J)
    BY <1>1, LotsAreTotal
<1>. QED
    BY <1>1, <1>2, <1>3, TotalFacts, TotalMonotone

\* Money is an integer, and fills that yield do not lower it.
LEMMA MoneyFacts ==
    ASSUME NEW F \in Seq(Fill), NEW I \in SUBSET DOMAIN F, NEW J \in SUBSET I,
           \A i \in I \ J : F[i].flow >= 0
    PROVE  MoneyOf(F, I) \in Int /\ MoneyOf(F, J) \in Int /\ MoneyOf(F, J) <= MoneyOf(F, I)
<1>1. IsFiniteSet(I) /\ IsFiniteSet(J) /\ J \in SUBSET DOMAIN F
    BY FillsFinite
<1>2. \A x \in I : FlowOf(F)[x] \in Int /\ FlowOf(F)[x] = F[x].flow
    <2>1. \A x \in I : F[x] \in Fill /\ FlowOf(F)[x] = F[x].flow
        BY DEF FlowOf
    <2>. QED
        BY <2>1 DEF Fill
<1>3. MoneyOf(F, I) = Total(FlowOf(F), I) /\ MoneyOf(F, J) = Total(FlowOf(F), J)
    BY <1>1, MoneyIsTotal
<1>4. \A x \in I \ J : FlowOf(F)[x] >= 0
    BY <1>2
<1>. QED
    BY <1>1, <1>2, <1>3, <1>4, TotalFacts, TotalMonotone

\* An appended fill leaves the sums over the others as they were and counts with
\* its own quantity and flow.
LEMMA AppendSums ==
    ASSUME NEW F \in Seq(Fill), NEW r \in Fill, NEW I \in SUBSET DOMAIN F
    PROVE  /\ LotsOf(Append(F, r), I) = LotsOf(F, I)
           /\ LotsOf(Append(F, r), I \union {Len(F) + 1}) = LotsOf(F, I) + r.quantity
           /\ MoneyOf(Append(F, r), I) = MoneyOf(F, I)
           /\ MoneyOf(Append(F, r), I \union {Len(F) + 1}) = MoneyOf(F, I) + r.flow
<1>. DEFINE G == Append(F, r)
            n == Len(F) + 1
            K == I \union {n}
<1>1. /\ G \in Seq(Fill) /\ n \notin I
      /\ K \in SUBSET DOMAIN G /\ I \in SUBSET DOMAIN G
      /\ \A i \in I : G[i] = F[i] /\ i \in DOMAIN F /\ i \in DOMAIN G
      /\ n \in DOMAIN G /\ G[n] = r /\ r \in Fill
    BY AppendFacts
<1>2. \A i \in K : G[i] \in Fill
    BY <1>1, AppendFacts
<1>. HIDE DEF G, n
<1>3. IsFiniteSet(K) /\ IsFiniteSet(I) /\ K \ {n} = I /\ n \in K
    BY <1>1, FillsFinite
<1>4. /\ \A i \in K : QuantityOf(G)[i] \in Int
      /\ \A i \in K : FlowOf(G)[i] \in Int
      /\ \A i \in I : QuantityOf(G)[i] = QuantityOf(F)[i] /\ FlowOf(G)[i] = FlowOf(F)[i]
      /\ QuantityOf(G)[n] = r.quantity /\ FlowOf(G)[n] = r.flow
    <2>1. \A i \in K : QuantityOf(G)[i] = G[i].quantity /\ FlowOf(G)[i] = G[i].flow
        BY <1>1 DEF QuantityOf, FlowOf
    <2>2. \A i \in I : QuantityOf(F)[i] = F[i].quantity /\ FlowOf(F)[i] = F[i].flow
        BY <1>1 DEF QuantityOf, FlowOf
    <2>3. \A i \in K : G[i].quantity \in Int /\ G[i].flow \in Int
        BY <1>2 DEF Fill
    <2>. QED
        BY <1>1, <1>3, <2>1, <2>2, <2>3
<1>5. /\ Total(QuantityOf(G), I) = Total(QuantityOf(F), I)
      /\ Total(FlowOf(G), I) = Total(FlowOf(F), I)
    BY <1>3, <1>4, TotalSame
<1>6. /\ Total(QuantityOf(G), K) = r.quantity + Total(QuantityOf(G), I)
      /\ Total(FlowOf(G), K) = r.flow + Total(FlowOf(G), I)
    <2>1. Total(QuantityOf(G), K) = QuantityOf(G)[n] + Total(QuantityOf(G), K \ {n})
        BY <1>3, <1>4, TotalFacts
    <2>2. Total(FlowOf(G), K) = FlowOf(G)[n] + Total(FlowOf(G), K \ {n})
        BY <1>3, <1>4, TotalFacts
    <2>. QED
        BY <1>3, <1>4, <2>1, <2>2
<1>7. /\ LotsOf(G, I) = Total(QuantityOf(G), I) /\ LotsOf(G, K) = Total(QuantityOf(G), K)
      /\ MoneyOf(G, I) = Total(FlowOf(G), I) /\ MoneyOf(G, K) = Total(FlowOf(G), K)
      /\ LotsOf(F, I) = Total(QuantityOf(F), I) /\ MoneyOf(F, I) = Total(FlowOf(F), I)
    BY <1>1, <1>3, LotsAreTotal, MoneyIsTotal
<1>8. /\ Total(QuantityOf(F), I) \in Int /\ Total(FlowOf(F), I) \in Int
      /\ r.quantity \in Int /\ r.flow \in Int
    BY <1>3, <1>4, TotalFacts
<1>. QED
    BY <1>5, <1>6, <1>7, <1>8 DEF G, n

---------------------------------------------------------------------------
(* Types *)

\* The fee and tax formulas yield integers.
LEMMA MoneyType ==
    ASSUME NEW q \in Nat, NEW price \in Nat
    PROVE  /\ BuyCost(q, price) \in Int
           /\ SellProceeds(q, price) \in Int
<1>1. q * price \in Nat
    OBVIOUS
<1>2. ASSUME NEW a \in Nat
      PROVE  Commission(a) \in Int /\ StampTax(a) \in Int
    BY DEF Commission, StampTax
<1>. QED
    BY <1>1, <1>2 DEF BuyCost, SellProceeds

\* An accepted order becomes a well-typed fill.
LEMMA NewFillType ==
    ASSUME NEW t \in Tracks, NEW s \in Symbols, NEW side \in {"buy", "sell"},
           NEW q \in OrderLots, NEW price \in LotPrices, NEW now \in Time
    PROVE  NewFill(t, s, side, q, price, now) \in Fill
<1>1. q \in Nat \ {0} /\ q \in Nat /\ price \in Nat
    BY LedgerAssumption
<1>2. -BuyCost(q, price) \in Int /\ SellProceeds(q, price) \in Int
    BY <1>1, MoneyType
<1>. QED
    BY <1>1, <1>2 DEF NewFill, Fill

\* Placing an order appends a fill of the type.
LEMMA PlaceType ==
    ASSUME TypeOK, NEW t \in Tracks, NEW s \in Symbols, NEW side \in {"buy", "sell"},
           NEW q \in OrderLots, NEW price \in LotPrices, NEW now \in Time,
           Place(t, s, side, q, price, now)
    PROVE  /\ fills' \in Seq(Fill) /\ Len(fills') <= MaxOrders
           /\ DOMAIN fills \subseteq DOMAIN fills'
<1>. DEFINE r == NewFill(t, s, side, q, price, now)
<1>1. fills \in Seq(Fill) /\ r \in Fill
    BY NewFillType DEF TypeOK
<1>2. Len(fills) < MaxOrders /\ fills' = Append(fills, r)
    BY DEF Place
<1>. HIDE DEF r
<1>3. /\ Append(fills, r) \in Seq(Fill)
      /\ Len(fills) \in Nat /\ Len(Append(fills, r)) = Len(fills) + 1
      /\ DOMAIN Append(fills, r) = DOMAIN fills \union {Len(fills) + 1}
    BY <1>1, AppendFacts
<1>. QED
    BY <1>2, <1>3, LedgerAssumption

\* So does the model's part of a step.
LEMMA DecisionType ==
    ASSUME TypeOK, NEW P \in SUBSET Symbols, NEW row \in Time, NEW now \in Time,
           ModelDecides(P, row, now)
    PROVE  /\ fills' \in Seq(Fill) /\ Len(fills') <= MaxOrders
           /\ DOMAIN fills \subseteq DOMAIN fills'
<1>0. "model" \in Tracks
    BY DEF Tracks
<1>1. CASE fills' = fills
    BY <1>1 DEF TypeOK
<1>2. ASSUME NEW s \in P, NEW q \in OrderLots, NEW price \in LotPrices,
             NEW side \in {"buy", "sell"}, Place("model", s, side, q, price, now)
      PROVE  /\ fills' \in Seq(Fill) /\ Len(fills') <= MaxOrders
             /\ DOMAIN fills \subseteq DOMAIN fills'
    BY <1>0, <1>2, PlaceType
<1>. QED
    BY <1>1, <1>2 DEF ModelDecides

\* The row a tick has loaded.
LEMMA LoadedRowType ==
    TypeOK /\ tick # Idle => tick.clock \in Time /\ tick.pool \in SUBSET Symbols
    BY DEF TypeOK, LoadedRow

\* The initial state is well typed.
LEMMA InitType == Init => TypeOK
<1>. SUFFICES ASSUME Init PROVE TypeOK
    OBVIOUS
<1>1. fills \in Seq(Fill) /\ Len(fills) <= MaxOrders /\ overlooked \in SUBSET (DOMAIN fills)
    BY LedgerAssumption DEF Init
<1>2. clock \in Time
    BY LedgerAssumption DEF Init, Time
<1>. QED
    BY <1>1, <1>2 DEF Init, TypeOK

\* Every operation keeps the types.
LEMMA NextType == TypeOK /\ [Next]_vars => TypeOK'
<1>. SUFFICES ASSUME TypeOK, [Next]_vars
              PROVE  TypeOK'
    OBVIOUS
<1>0. "manual" \in Tracks /\ pool \in SUBSET Symbols /\ clock \in Time
    BY DEF Tracks, TypeOK
<1>1. ASSUME NEW s \in Symbols, NEW q \in OrderLots, NEW price \in LotPrices,
             ManualBuy(s, q, price) \/ ManualSell(s, q, price)
      PROVE  TypeOK'
    <2>1. \/ Place("manual", s, "buy", q, price, clock)
          \/ Place("manual", s, "sell", q, price, clock)
        BY <1>1 DEF ManualBuy, ManualSell
    <2>2. /\ fills' \in Seq(Fill) /\ Len(fills') <= MaxOrders
          /\ DOMAIN fills \subseteq DOMAIN fills'
        BY <1>0, <2>1, PlaceType
    <2>3. UNCHANGED <<pool, startingCash, clock, stepped, tick, overlooked, edited>>
        BY <1>1 DEF ManualBuy, ManualSell
    <2>. QED
        BY <2>2, <2>3 DEF TypeOK
<1>2. ASSUME NEW now \in Time, UserSteps(now)
      PROVE  TypeOK'
    <2>1. /\ fills' \in Seq(Fill) /\ Len(fills') <= MaxOrders
          /\ DOMAIN fills \subseteq DOMAIN fills'
        BY <1>0, <1>2, DecisionType DEF UserSteps
    <2>. QED
        BY <1>2, <2>1 DEF TypeOK, UserSteps
<1>3. ASSUME NEW now \in Time, TickSteps(now)
      PROVE  TypeOK'
    <2>1. tick.clock \in Time /\ tick.pool \in SUBSET Symbols
        BY <1>3, LoadedRowType DEF TickSteps
    <2>2. /\ fills' \in Seq(Fill) /\ Len(fills') <= MaxOrders
          /\ DOMAIN fills \subseteq DOMAIN fills'
        BY <1>0, <1>3, <2>1, DecisionType DEF TickSteps
    <2>. QED
        BY <1>3, <2>2 DEF TypeOK, TickSteps
<1>4. CASE TickLoads
    BY <1>4 DEF TypeOK, TickLoads, LoadedRow
<1>5. CASE TickEnds
    BY <1>5 DEF TypeOK, TickEnds
<1>6. ASSUME NEW P \in SUBSET Symbols, NEW cash \in InitialCash, UpdateConfig(P, cash)
      PROVE  TypeOK'
    BY <1>6 DEF TypeOK, UpdateConfig
<1>7. CASE UNCHANGED vars
    BY <1>7 DEF TypeOK, vars
<1>. QED
    BY <1>1, <1>2, <1>3, <1>4, <1>5, <1>6, <1>7 DEF Next

\* Every reachable state of the ledger is well typed.
THEOREM TypeCorrect == Spec => []TypeOK
    BY InitType, NextType, PTL DEF Spec

---------------------------------------------------------------------------
(* The properties as predicates of the list of fills *)

In(F, t, s, side) == {i \in DOMAIN F : /\ F[i].track = t
                                        /\ F[i].symbol = s
                                        /\ F[i].side = side}

CoveredIn(F, t, s) == LotsOf(F, In(F, t, s, "sell")) <= LotsOf(F, In(F, t, s, "buy"))

SettledIn(F, t, s) ==
    \A j \in In(F, t, s, "sell") :
        LotsOf(F, {i \in In(F, t, s, "sell") : F[i].at <= F[j].at})
            <= LotsOf(F, {i \in In(F, t, s, "buy") : Day(F[i].at) < Day(F[j].at)})

AdvanceIn(F, t, s) ==
    \A i, j \in In(F, t, s, "sell") : i < j => F[i].at < F[j].at

WithinIn(F, t, P) == {i \in DOMAIN F : F[i].track = t /\ F[i].symbol \in P}

\* The definitions of the ledger in these terms, before and after a step.
LEMMA Forms ==
    /\ \A I : Lots(I) = LotsOf(fills, I) /\ Money(I) = MoneyOf(fills, I)
    /\ \A I : Lots(I)' = LotsOf(fills', I) /\ Money(I)' = MoneyOf(fills', I)
    /\ \A t, s, side : Of(t, s, side) = In(fills, t, s, side)
    /\ \A t, s, side : Of(t, s, side)' = In(fills', t, s, side)
    /\ \A t, P : Within(t, P) = WithinIn(fills, t, P)
    /\ \A t, P : Within(t, P)' = WithinIn(fills', t, P)
<1>1. /\ \A I : Lots(I) = LotsOf(fills, I) /\ Money(I) = MoneyOf(fills, I)
      /\ \A I : Lots(I)' = LotsOf(fills', I) /\ Money(I)' = MoneyOf(fills', I)
    BY DEF Lots, Money, LotsOf, MoneyOf, MapThenSumSet, MapThenFoldSet
<1>2. /\ \A t, s, side : Of(t, s, side) = In(fills, t, s, side)
      /\ \A t, s, side : Of(t, s, side)' = In(fills', t, s, side)
    BY DEF Of, In
<1>3. /\ \A t, P : Within(t, P) = WithinIn(fills, t, P)
      /\ \A t, P : Within(t, P)' = WithinIn(fills', t, P)
    BY DEF Within, WithinIn
<1>. QED
    BY <1>1, <1>2, <1>3

LEMMA PropertyForms ==
    /\ \A t, s : Settled(t, s) <=> SettledIn(fills, t, s)
    /\ \A t, s : Settled(t, s)' <=> SettledIn(fills', t, s)
    /\ \A t, s : SalesAdvance(t, s) <=> AdvanceIn(fills, t, s)
    /\ \A t, s : SalesAdvance(t, s)' <=> AdvanceIn(fills', t, s)
<1>1. /\ \A t, s : Settled(t, s) <=> SettledIn(fills, t, s)
      /\ \A t, s : Settled(t, s)' <=> SettledIn(fills', t, s)
    BY DEF Settled, SettledIn, Sales, UpTo, OnEarlierDays, Of, In, Lots, LotsOf,
           MapThenSumSet, MapThenFoldSet
<1>2. /\ \A t, s : SalesAdvance(t, s) <=> AdvanceIn(fills, t, s)
      /\ \A t, s : SalesAdvance(t, s)' <=> AdvanceIn(fills', t, s)
    BY DEF SalesAdvance, AdvanceIn, Sales, Of, In
<1>. QED
    BY <1>1, <1>2

\* An appended fill joins the fills of its own track, stock and side.
LEMMA InAppend ==
    ASSUME NEW F \in Seq(Fill), NEW r \in Fill, NEW t, NEW s, NEW side
    PROVE  In(Append(F, r), t, s, side) =
               In(F, t, s, side) \union
                   (IF r.track = t /\ r.symbol = s /\ r.side = side
                    THEN {Len(F) + 1} ELSE {})
<1>1. /\ DOMAIN Append(F, r) = DOMAIN F \union {Len(F) + 1}
      /\ Len(F) + 1 \notin DOMAIN F
      /\ \A i \in DOMAIN F : Append(F, r)[i] = F[i]
      /\ Append(F, r)[Len(F) + 1] = r
    BY AppendFacts
<1>. DEFINE G == Append(F, r)
            n == Len(F) + 1
<1>. HIDE DEF G, n
<1>2. /\ DOMAIN G = DOMAIN F \union {n} /\ n \notin DOMAIN F
      /\ \A i \in DOMAIN F : G[i] = F[i]
      /\ G[n] = r
    BY <1>1 DEF G, n
<1>3. In(G, t, s, side) = In(F, t, s, side) \union
          (IF r.track = t /\ r.symbol = s /\ r.side = side THEN {n} ELSE {})
    BY <1>2 DEF In
<1>. QED
    BY <1>3 DEF G, n

LEMMA WithinAppend ==
    ASSUME NEW F \in Seq(Fill), NEW r \in Fill, NEW t, NEW P
    PROVE  WithinIn(Append(F, r), t, P) =
               WithinIn(F, t, P) \union
                   (IF r.track = t /\ r.symbol \in P THEN {Len(F) + 1} ELSE {})
<1>1. /\ DOMAIN Append(F, r) = DOMAIN F \union {Len(F) + 1}
      /\ Len(F) + 1 \notin DOMAIN F
      /\ \A i \in DOMAIN F : Append(F, r)[i] = F[i]
      /\ Append(F, r)[Len(F) + 1] = r
    BY AppendFacts
<1>. DEFINE G == Append(F, r)
            n == Len(F) + 1
<1>. HIDE DEF G, n
<1>2. /\ DOMAIN G = DOMAIN F \union {n} /\ n \notin DOMAIN F
      /\ \A i \in DOMAIN F : G[i] = F[i]
      /\ G[n] = r
    BY <1>1 DEF G, n
<1>3. WithinIn(G, t, P) = WithinIn(F, t, P) \union
          (IF r.track = t /\ r.symbol \in P THEN {n} ELSE {})
    BY <1>2 DEF WithinIn
<1>. QED
    BY <1>3 DEF G, n

\* A position stays covered through a purchase, and through a sale of no more
\* than what is left of its purchases.
LEMMA CoveredStep ==
    ASSUME NEW F \in Seq(Fill), NEW r \in Fill, NEW t, NEW s, CoveredIn(F, t, s),
           r.track = t /\ r.symbol = s /\ r.side = "sell"
               => LotsOf(F, In(F, t, s, "sell")) + r.quantity
                      <= LotsOf(F, In(F, t, s, "buy"))
    PROVE  CoveredIn(Append(F, r), t, s)
<1>. DEFINE S == In(F, t, s, "sell")
            B == In(F, t, s, "buy")
            G == Append(F, r)
<1>1. S \in SUBSET DOMAIN F /\ B \in SUBSET DOMAIN F
    BY DEF In
<1>2. LotsOf(F, S) \in Int /\ LotsOf(F, B) \in Int /\ r.quantity \in Nat
    BY <1>1, LotsFacts DEF Fill
<1>3. /\ LotsOf(G, S) = LotsOf(F, S)
      /\ LotsOf(G, S \union {Len(F) + 1}) = LotsOf(F, S) + r.quantity
      /\ LotsOf(G, B) = LotsOf(F, B)
      /\ LotsOf(G, B \union {Len(F) + 1}) = LotsOf(F, B) + r.quantity
    BY <1>1, AppendSums
<1>4. /\ In(G, t, s, "sell") = S \union
             (IF r.track = t /\ r.symbol = s /\ r.side = "sell" THEN {Len(F) + 1} ELSE {})
      /\ In(G, t, s, "buy") = B \union
             (IF r.track = t /\ r.symbol = s /\ r.side = "buy" THEN {Len(F) + 1} ELSE {})
    BY InAppend
<1>5. /\ S \union {} = S /\ B \union {} = B
      /\ LotsOf(F, S) <= LotsOf(F, B)
    BY DEF CoveredIn
<1>. HIDE DEF S, B, G
<1>6. LotsOf(G, In(G, t, s, "sell")) <= LotsOf(G, In(G, t, s, "buy"))
    <2>1. CASE r.track = t /\ r.symbol = s /\ r.side = "sell"
        <3>1. In(G, t, s, "sell") = S \union {Len(F) + 1} /\ In(G, t, s, "buy") = B
            BY <1>4, <1>5, <2>1
        <3>2. LotsOf(F, S) + r.quantity <= LotsOf(F, B)
            BY <2>1 DEF S, B
        <3>. QED
            BY <1>3, <3>1, <3>2
    <2>2. CASE r.track = t /\ r.symbol = s /\ r.side = "buy"
        <3>1. In(G, t, s, "sell") = S /\ In(G, t, s, "buy") = B \union {Len(F) + 1}
            BY <1>4, <1>5, <2>2
        <3>2. /\ LotsOf(G, In(G, t, s, "sell")) = LotsOf(F, S)
              /\ LotsOf(G, In(G, t, s, "buy")) = LotsOf(F, B) + r.quantity
            BY <1>3, <3>1
        <3>. QED
            BY <1>2, <1>5, <3>2
    <2>3. CASE ~(r.track = t /\ r.symbol = s /\ r.side \in {"sell", "buy"})
        <3>1. In(G, t, s, "sell") = S /\ In(G, t, s, "buy") = B
            BY <1>4, <1>5, <2>3
        <3>. QED
            BY <1>3, <1>5, <3>1
    <2>. QED
        BY <2>1, <2>2, <2>3
<1>. QED
    BY <1>6 DEF CoveredIn, G

\* A position stays settled through a purchase, and through a sale within the
\* sellable quantity at a time after all its sales.
LEMMA SettledStep ==
    ASSUME NEW F \in Seq(Fill), NEW r \in Fill, NEW t, NEW s, SettledIn(F, t, s),
           r.track = t /\ r.symbol = s /\ r.side = "sell" =>
               /\ \A i \in In(F, t, s, "sell") : F[i].at < r.at
               /\ LotsOf(F, In(F, t, s, "sell")) + r.quantity
                      <= LotsOf(F, {i \in In(F, t, s, "buy") : Day(F[i].at) < Day(r.at)})
    PROVE  SettledIn(Append(F, r), t, s)
<1>. DEFINE S == In(F, t, s, "sell")
            B == In(F, t, s, "buy")
            G == Append(F, r)
            n == Len(F) + 1
            Sold(at) == {i \in S : F[i].at <= at}
            Bought(at) == {i \in B : Day(F[i].at) < Day(at)}
<1>1. /\ S \in SUBSET DOMAIN F /\ B \in SUBSET DOMAIN F
      /\ \A at : Sold(at) \in SUBSET DOMAIN F /\ Bought(at) \in SUBSET DOMAIN F
    BY DEF In
<1>2. /\ n \notin DOMAIN F /\ G[n] = r
      /\ \A i \in DOMAIN F : G[i] = F[i] /\ F[i] \in Fill
    BY AppendFacts
<1>3. \A I \in SUBSET DOMAIN F :
          /\ LotsOf(G, I) = LotsOf(F, I)
          /\ LotsOf(G, I \union {n}) = LotsOf(F, I) + r.quantity
          /\ LotsOf(F, I) \in Int
    BY AppendSums, LotsFacts
<1>4. r.quantity \in Nat /\ r.at \in Int /\ \A i \in DOMAIN F : F[i].at \in Int
    BY <1>2, LedgerAssumption DEF Fill, Time
<1>5. \A j \in S : LotsOf(F, Sold(F[j].at)) <= LotsOf(F, Bought(F[j].at))
    BY DEF SettledIn
<1>0. /\ In(G, t, s, "sell") = S \union
             (IF r.track = t /\ r.symbol = s /\ r.side = "sell" THEN {n} ELSE {})
      /\ In(G, t, s, "buy") = B \union
             (IF r.track = t /\ r.symbol = s /\ r.side = "buy" THEN {n} ELSE {})
      /\ S \union {} = S /\ B \union {} = B
    BY InAppend
<1>6. CASE r.track = t /\ r.symbol = s /\ r.side = "sell"
    <2>1. In(G, t, s, "sell") = S \union {n} /\ In(G, t, s, "buy") = B
        <3>. HIDE DEF S, B, G, n
        <3>. QED
            BY <1>0, <1>6
    <2>2. \A i \in S : F[i].at < r.at
        BY <1>6
    <2>3. ASSUME NEW j \in S \union {n}
          PROVE  LotsOf(G, {i \in S \union {n} : G[i].at <= G[j].at})
                     <= LotsOf(G, {i \in B : Day(G[i].at) < Day(G[j].at)})
        <3>1. CASE j \in S
            <4>1. {i \in S \union {n} : G[i].at <= G[j].at} = Sold(F[j].at)
                BY <1>1, <1>2, <1>4, <2>2, <3>1
            <4>2. {i \in B : Day(G[i].at) < Day(G[j].at)} = Bought(F[j].at)
                BY <1>1, <1>2, <3>1
            <4>. HIDE DEF Sold, Bought
            <4>. QED
                BY <1>1, <1>3, <1>5, <3>1, <4>1, <4>2
        <3>2. CASE j = n
            <4>1. {i \in S \union {n} : G[i].at <= G[j].at} = S \union {n}
                BY <1>1, <1>2, <1>4, <2>2, <3>2
            <4>2. {i \in B : Day(G[i].at) < Day(G[j].at)} = Bought(r.at)
                BY <1>1, <1>2, <3>2
            <4>3. LotsOf(F, S) + r.quantity <= LotsOf(F, Bought(r.at))
                BY <1>6
            <4>. HIDE DEF Bought
            <4>. QED
                BY <1>1, <1>3, <4>1, <4>2, <4>3
        <3>. QED
            BY <3>1, <3>2
    <2>. QED
        BY <2>1, <2>3 DEF SettledIn
<1>7. CASE ~(r.track = t /\ r.symbol = s /\ r.side = "sell")
    <2>1. In(G, t, s, "sell") = S
        <3>. HIDE DEF S, B, G, n
        <3>. QED
            BY <1>0, <1>7
    <2>2. In(G, t, s, "buy") = B \/ In(G, t, s, "buy") = B \union {n}
        <3>. HIDE DEF S, B, G, n
        <3>. QED
            BY <1>0
    <2>3. ASSUME NEW j \in S
          PROVE  LotsOf(G, {i \in S : G[i].at <= G[j].at})
                     <= LotsOf(G, {i \in In(G, t, s, "buy") : Day(G[i].at) < Day(G[j].at)})
        <3>1. {i \in S : G[i].at <= G[j].at} = Sold(F[j].at)
            BY <1>1, <1>2
        <3>2. \/ {i \in In(G, t, s, "buy") : Day(G[i].at) < Day(G[j].at)} = Bought(F[j].at)
              \/ {i \in In(G, t, s, "buy") : Day(G[i].at) < Day(G[j].at)}
                     = Bought(F[j].at) \union {n}
            BY <1>1, <1>2, <2>2
        <3>. DEFINE now == F[j].at
                    earlier == {i \in In(G, t, s, "buy") : Day(G[i].at) < Day(G[j].at)}
        <3>3. /\ Sold(now) \in SUBSET DOMAIN F /\ Bought(now) \in SUBSET DOMAIN F
              /\ LotsOf(F, Sold(now)) <= LotsOf(F, Bought(now))
            BY <1>1, <1>5
        <3>4. earlier = Bought(now) \/ earlier = Bought(now) \union {n}
            BY <3>2
        <3>. HIDE DEF Sold, Bought, S, now, earlier
        <3>5. /\ LotsOf(F, Sold(now)) \in Int /\ LotsOf(F, Bought(now)) \in Int
              /\ LotsOf(G, Sold(now)) = LotsOf(F, Sold(now))
            BY <1>3, <3>3
        <3>6. LotsOf(F, Bought(now)) <= LotsOf(G, earlier)
            <4>1. LotsOf(G, Bought(now)) = LotsOf(F, Bought(now))
                BY <1>3, <3>3
            <4>2. LotsOf(G, Bought(now) \union {n}) = LotsOf(F, Bought(now)) + r.quantity
                BY <1>3, <3>3
            <4>3. CASE earlier = Bought(now)
                BY <3>5, <4>1, <4>3
            <4>4. CASE earlier = Bought(now) \union {n}
                BY <1>4, <3>5, <4>2, <4>4
            <4>. QED
                BY <3>4, <4>3, <4>4
        <3>7. LotsOf(G, Sold(now)) <= LotsOf(G, earlier)
            <4>1. LotsOf(G, earlier) \in Int
                <5>1. G \in Seq(Fill)
                    BY AppendFacts
                <5>2. earlier \in SUBSET DOMAIN G
                    BY DEF earlier, In
                <5>. HIDE DEF G
                <5>. QED
                    BY <5>1, <5>2, LotsFacts
            <4>. QED
                BY <3>3, <3>5, <3>6, <4>1
        <3>. QED
            BY <3>1, <3>7 DEF now, earlier
    <2>. QED
        BY <2>1, <2>3 DEF SettledIn
<1>. QED
    BY <1>6, <1>7

\* The cash of a track over a set of stocks stays covered when each fill that
\* costs is within it.
LEMMA CashStep ==
    ASSUME NEW F \in Seq(Fill), NEW r \in Fill, NEW t, NEW P, NEW cash \in Int,
           cash + MoneyOf(F, WithinIn(F, t, P)) >= 0,
           r.track = t /\ r.symbol \in P
               => r.flow >= 0 \/ cash + MoneyOf(F, WithinIn(F, t, P)) + r.flow >= 0
    PROVE  cash + MoneyOf(Append(F, r), WithinIn(Append(F, r), t, P)) >= 0
<1>. DEFINE W == WithinIn(F, t, P)
            G == Append(F, r)
<1>1. W \in SUBSET DOMAIN F
    BY DEF WithinIn
<1>2. MoneyOf(F, W) \in Int /\ r.flow \in Int
    BY <1>1, MoneyFacts DEF Fill
<1>3. /\ MoneyOf(G, W) = MoneyOf(F, W)
      /\ MoneyOf(G, W \union {Len(F) + 1}) = MoneyOf(F, W) + r.flow
    BY <1>1, AppendSums
<1>4. WithinIn(G, t, P) = W \union
          (IF r.track = t /\ r.symbol \in P THEN {Len(F) + 1} ELSE {})
    BY WithinAppend
<1>5. W \union {} = W
    OBVIOUS
<1>. HIDE DEF W, G
<1>6. CASE r.track = t /\ r.symbol \in P
    <2>1. WithinIn(G, t, P) = W \union {Len(F) + 1}
        BY <1>4, <1>6
    <2>2. MoneyOf(G, WithinIn(G, t, P)) = MoneyOf(F, W) + r.flow
        BY <1>3, <2>1
    <2>3. cash + MoneyOf(F, W) >= 0 /\ (r.flow >= 0 \/ cash + MoneyOf(F, W) + r.flow >= 0)
        BY <1>6 DEF W
    <2>. QED
        BY <1>2, <2>2, <2>3 DEF G
<1>7. CASE ~(r.track = t /\ r.symbol \in P)
    <2>1. WithinIn(G, t, P) = W
        BY <1>4, <1>5, <1>7
    <2>. QED
        BY <1>3, <2>1 DEF G, W
<1>. QED
    BY <1>6, <1>7

---------------------------------------------------------------------------
(* What an order is checked against *)

\* A fill that the step appends, accepted by _validate_order_request against a
\* replay of the fills up to some point that the clock of the row admits.
Accepted(r, P, row) ==
    /\ fills' = Append(fills, r)
    /\ r.at >= row
    /\ r.track = "model" => r.at > row
    /\ r.side = "buy" =>
           \E point \in ReplayPoints(row) : -r.flow <= AvailableCash(r.track, P, point)
    /\ r.side = "sell" =>
           /\ \E q \in OrderLots, price \in LotPrices : r.flow = SellProceeds(q, price)
           /\ \E point \in ReplayPoints(row) :
                  AcceptsSell(r.track, r.symbol, P, point, r.at, r.quantity)

\* The row of the session that a step works from: all the fills but those which
\* a late tick has overlooked are no later than its clock, and it has the pool
\* and the cash of the session as long as these are not edited.
Row(P, row) ==
    /\ P \in SUBSET Symbols /\ row \in Time
    /\ \A i \in DOMAIN fills \ overlooked' : fills[i].at <= row
    /\ ~edited' => P = pool /\ UNCHANGED <<pool, startingCash>>

\* A step that leaves the list of fills alone, or appends an accepted one.
Fills ==
    \/ fills' = fills
    \/ \E r \in Fill, P \in SUBSET Symbols, row \in Time :
           Row(P, row) /\ Accepted(r, P, row) /\ r.at = clock'

\* Fills that no late tick has overlooked are not later than the clock; the row
\* of a waiting tick is not later than the clock, and of the pool of the session
\* unless this is edited.
Dated == \A i \in DOMAIN fills \ overlooked : fills[i].at <= clock

TickBehind == tick # Idle => tick.clock <= clock /\ (~edited => tick.pool = pool)

\* An order placed by the model's part of a step is accepted.
LEMMA DecisionAccepted ==
    ASSUME NEW P \in SUBSET Symbols, NEW row \in Time, NEW now \in Time,
           now > row, ModelDecides(P, row, now)
    PROVE  fills' = fills \/ \E r \in Fill : Accepted(r, P, row) /\ r.at = now
<1>0. "model" \in Tracks /\ now \in Int /\ row \in Int
    BY LedgerAssumption DEF Tracks, Time
<1>1. ASSUME NEW s \in P, NEW q \in OrderLots, NEW price \in LotPrices,
             NEW point \in ReplayPoints(row),
             AcceptsBuy("model", P, point, q, price),
             Place("model", s, "buy", q, price, now)
      PROVE  \E r \in Fill : Accepted(r, P, row) /\ r.at = now
    <2>. DEFINE r == NewFill("model", s, "buy", q, price, now)
    <2>1. r \in Fill /\ r.at = now /\ r.track = "model" /\ r.side = "buy"
          /\ r.flow = -BuyCost(q, price)
        BY <1>0, NewFillType DEF NewFill
    <2>2. BuyCost(q, price) \in Int
        BY LedgerAssumption, MoneyType
    <2>3. -r.flow <= AvailableCash("model", P, point)
        BY <1>1, <2>1, <2>2 DEF AcceptsBuy
    <2>4. fills' = Append(fills, r)
        BY <1>1 DEF Place
    <2>. HIDE DEF r
    <2>. QED
        BY <1>0, <2>1, <2>3, <2>4 DEF Accepted
<1>2. ASSUME NEW s \in P, NEW q \in OrderLots, NEW price \in LotPrices,
             NEW point \in ReplayPoints(row),
             AcceptsSell("model", s, P, point, now, q),
             Place("model", s, "sell", q, price, now)
      PROVE  \E r \in Fill : Accepted(r, P, row) /\ r.at = now
    <2>. DEFINE r == NewFill("model", s, "sell", q, price, now)
    <2>1. r \in Fill /\ r.at = now /\ r.track = "model" /\ r.side = "sell"
          /\ r.symbol = s /\ r.quantity = q /\ r.flow = SellProceeds(q, price)
        BY <1>0, NewFillType DEF NewFill
    <2>2. fills' = Append(fills, r)
        BY <1>2 DEF Place
    <2>. HIDE DEF r
    <2>. QED
        BY <1>0, <1>2, <2>1, <2>2 DEF Accepted
<1>. QED
    BY <1>1, <1>2 DEF ModelDecides

\* An order placed by the user is accepted.
LEMMA ManualAccepted ==
    ASSUME TypeOK, NEW s \in Symbols, NEW q \in OrderLots, NEW price \in LotPrices,
           ManualBuy(s, q, price) \/ ManualSell(s, q, price)
    PROVE  \E r \in Fill : Accepted(r, pool, clock) /\ r.at = clock
<1>0. "manual" \in Tracks /\ clock \in Time /\ clock \in Int
    BY LedgerAssumption DEF Tracks, TypeOK, Time
<1>1. CASE ManualBuy(s, q, price)
    <2>. DEFINE r == NewFill("manual", s, "buy", q, price, clock)
    <2>1. r \in Fill /\ r.at = clock /\ r.track = "manual" /\ r.side = "buy"
          /\ r.flow = -BuyCost(q, price)
        BY <1>0, NewFillType DEF NewFill
    <2>2. BuyCost(q, price) \in Int
        BY LedgerAssumption, MoneyType
    <2>3. \E point \in ReplayPoints(clock) : -r.flow <= AvailableCash("manual", pool, point)
        BY <1>1, <2>1, <2>2 DEF ManualBuy, AcceptsBuy
    <2>4. fills' = Append(fills, r)
        BY <1>1 DEF ManualBuy, Place
    <2>. HIDE DEF r
    <2>. QED
        BY <1>0, <2>1, <2>3, <2>4 DEF Accepted
<1>2. CASE ManualSell(s, q, price)
    <2>. DEFINE r == NewFill("manual", s, "sell", q, price, clock)
    <2>1. r \in Fill /\ r.at = clock /\ r.track = "manual" /\ r.side = "sell"
          /\ r.symbol = s /\ r.quantity = q /\ r.flow = SellProceeds(q, price)
        BY <1>0, NewFillType DEF NewFill
    <2>2. fills' = Append(fills, r)
        BY <1>2 DEF ManualSell, Place
    <2>3. \E point \in ReplayPoints(clock) :
              AcceptsSell("manual", s, pool, point, clock, q)
        BY <1>2 DEF ManualSell
    <2>. HIDE DEF r
    <2>. QED
        BY <1>0, <2>1, <2>2, <2>3 DEF Accepted
<1>. QED
    BY <1>1, <1>2

\* The shape of every step.
LEMMA StepShape ==
    ASSUME TypeOK, Dated, TickBehind, [Next]_vars
    PROVE  /\ overlooked \subseteq overlooked' /\ overlooked' \subseteq DOMAIN fills
           /\ \A i \in DOMAIN fills \ overlooked' : fills[i].at <= clock'
           /\ TickBehind'
           /\ Fills
<1>. DEFINE Goal == /\ overlooked \subseteq overlooked' /\ overlooked' \subseteq DOMAIN fills
                    /\ \A i \in DOMAIN fills \ overlooked' : fills[i].at <= clock'
                    /\ TickBehind'
                    /\ Fills
<1>0. /\ pool \in SUBSET Symbols /\ clock \in Time /\ clock \in Int
      /\ overlooked \subseteq DOMAIN fills
      /\ \A at \in Time : at \in Int
      /\ \A i \in DOMAIN fills : fills[i].at \in Int
    <2>1. \A i \in DOMAIN fills : fills[i] \in Fill
        BY DEF TypeOK
    <2>. QED
        BY <2>1, LedgerAssumption DEF TypeOK, Time, Fill
<1>1. ASSUME NEW s \in Symbols, NEW q \in OrderLots, NEW price \in LotPrices,
             ManualBuy(s, q, price) \/ ManualSell(s, q, price)
      PROVE  Goal
    <2>1. UNCHANGED <<pool, startingCash, clock, tick, overlooked, edited>>
        BY <1>1 DEF ManualBuy, ManualSell
    <2>2. PICK r \in Fill : Accepted(r, pool, clock) /\ r.at = clock
        BY <1>1, ManualAccepted
    <2>3. Row(pool, clock)
        BY <1>0, <2>1 DEF Row, Dated
    <2>4. Fills
        BY <2>1, <2>2, <2>3 DEF Fills, Row
    <2>5. TickBehind'
        BY <2>1 DEF TickBehind
    <2>. QED
        BY <1>0, <2>1, <2>4, <2>5 DEF Dated
<1>2. ASSUME NEW now \in Time, UserSteps(now)
      PROVE  Goal
    <2>1. /\ now > clock /\ clock' = now /\ ModelDecides(pool, clock, now)
          /\ UNCHANGED <<pool, startingCash, tick, overlooked, edited>>
        BY <1>2 DEF UserSteps
    <2>2. fills' = fills \/ \E r \in Fill : Accepted(r, pool, clock) /\ r.at = now
        BY <1>0, <2>1, DecisionAccepted
    <2>3. Row(pool, clock)
        BY <1>0, <2>1 DEF Row, Dated
    <2>4. Fills
        BY <2>1, <2>2, <2>3 DEF Fills, Row
    <2>5. TickBehind'
        <3>1. tick # Idle => tick.clock \in Int
            BY <1>0, LoadedRowType
        <3>. QED
            BY <1>0, <2>1, <3>1 DEF TickBehind
    <2>6. ASSUME NEW i \in DOMAIN fills \ overlooked'
          PROVE  fills[i].at <= clock'
        <3>1. fills[i].at <= clock
            BY <2>1 DEF Dated
        <3>2. fills[i].at \in Int /\ clock \in Int /\ now \in Int
            BY <1>0
        <3>. HIDE DEF Goal
        <3>. QED
            BY <2>1, <3>1, <3>2
    <2>. QED
        BY <1>0, <2>1, <2>4, <2>5, <2>6
<1>3. ASSUME NEW now \in Time, TickSteps(now)
      PROVE  Goal
    <2>1. /\ tick # Idle /\ now > tick.clock /\ clock' = now /\ tick' = Idle
          /\ overlooked' = overlooked \union {i \in DOMAIN fills : fills[i].at > tick.clock}
          /\ UNCHANGED <<pool, startingCash, edited>>
        BY <1>3 DEF TickSteps
    <2>2. PICK P \in {tick.pool, pool} : ModelDecides(P, tick.clock, now)
        BY <1>3 DEF TickSteps
    <2>3. P \in SUBSET Symbols /\ tick.clock \in Time /\ tick.clock \in Int
        BY <1>0, <2>1, <2>2, LoadedRowType
    <2>4. fills' = fills \/ \E r \in Fill : Accepted(r, P, tick.clock) /\ r.at = now
        BY <2>1, <2>2, <2>3, DecisionAccepted
    <2>5. \A i \in DOMAIN fills \ overlooked' : fills[i].at <= tick.clock
        BY <1>0, <2>1, <2>3
    <2>6. Row(P, tick.clock)
        BY <2>1, <2>2, <2>3, <2>5 DEF Row, TickBehind
    <2>7. Fills
        BY <2>1, <2>3, <2>4, <2>6 DEF Fills, Row
    <2>8. \A i \in DOMAIN fills \ overlooked' : fills[i].at <= clock'
        BY <1>0, <2>1, <2>3, <2>5
    <2>9. TickBehind'
        BY <2>1 DEF TickBehind
    <2>. QED
        BY <1>0, <2>1, <2>7, <2>8, <2>9
<1>4. CASE TickLoads
    <2>1. /\ UNCHANGED <<fills, pool, clock, overlooked, edited>>
          /\ tick'.clock = clock /\ tick'.pool = pool
        BY <1>4 DEF TickLoads
    <2>. QED
        BY <1>0, <2>1 DEF Dated, TickBehind, Fills
<1>5. CASE TickEnds
    BY <1>0, <1>5 DEF TickEnds, Dated, TickBehind, Fills
<1>6. ASSUME NEW P \in SUBSET Symbols, NEW cash \in InitialCash, UpdateConfig(P, cash)
      PROVE  Goal
    <2>1. /\ UNCHANGED <<fills, clock, tick, overlooked>>
          /\ pool' = P
          /\ tick # Idle /\ ~edited' => ~edited /\ pool' = pool
        BY <1>6 DEF UpdateConfig
    <2>. QED
        BY <1>0, <2>1 DEF Dated, TickBehind, Fills
<1>7. CASE UNCHANGED vars
    BY <1>0, <1>7 DEF vars, Dated, TickBehind, Fills
<1>. QED
    BY <1>1, <1>2, <1>3, <1>4, <1>5, <1>6, <1>7 DEF Next

---------------------------------------------------------------------------
(* What the sell checks guarantee *)

\* The model's sales of a stock are placed at later and later times, but for a
\* late tick: every step of the session moves the clock it has read.
ModelSalesAdvance ==
    \A s \in Symbols :
        Sales("model", s) \intersect overlooked = {} => SalesAdvance("model", s)

\* The inductive invariant of the sell checks.
SellInv ==
    /\ TypeOK
    /\ Dated
    /\ TickBehind
    /\ NeverOversold
    /\ SettledIfSalesAdvance
    /\ ModelSalesAdvance

\* Before the first order there is nothing to check.
LEMMA SellInvInit == Init => SellInv
<1>. SUFFICES ASSUME Init PROVE SellInv
    OBVIOUS
<1>1. TypeOK
    BY InitType
<1>2. \A t, s, side : Of(t, s, side) = {}
    BY DEF Init, Of
<1>3. NeverOversold
    <2>1. {} \in SUBSET DOMAIN fills /\ fills \in Seq(Fill)
        BY <1>1 DEF TypeOK
    <2>2. Lots({}) \in Int
        BY <2>1, LotsFacts, Forms
    <2>. QED
        BY <1>2, <2>2 DEF NeverOversold, Sales
<1>4. SettledIfSalesAdvance /\ ModelSalesAdvance
    BY <1>2 DEF SettledIfSalesAdvance, ModelSalesAdvance, Settled, SalesAdvance, Sales
<1>5. Dated /\ TickBehind
    BY DEF Init, Dated, TickBehind
<1>. QED
    BY <1>1, <1>3, <1>4, <1>5 DEF SellInv

\* What an accepted sale is known to leave: of the holding, if no sale of the
\* position has been overlooked, and of what had been bought on earlier days, if
\* its time is later than those of the others.
LEMMA SaleFacts ==
    ASSUME TypeOK, NEW r \in Fill, NEW P, NEW row, Row(P, row), Accepted(r, P, row),
           r.side = "sell"
    PROVE  LET S == In(fills, r.track, r.symbol, "sell")
               B == In(fills, r.track, r.symbol, "buy")
           IN  /\ S \intersect overlooked' = {} =>
                      LotsOf(fills, S) + r.quantity <= LotsOf(fills, B)
               /\ (\A i \in S : fills[i].at < r.at) =>
                      LotsOf(fills, S) + r.quantity
                        <= LotsOf(fills, {i \in B : Day(fills[i].at) < Day(r.at)})
<1>. DEFINE S == In(fills, r.track, r.symbol, "sell")
            B == In(fills, r.track, r.symbol, "buy")
            E == {i \in B : Day(fills[i].at) < Day(r.at)}
<1>0. /\ fills \in Seq(Fill) /\ r.quantity \in Nat \ {0} /\ row \in Int
      /\ \A i \in DOMAIN fills : fills[i].at \in Int
    <2>1. \A i \in DOMAIN fills : fills[i] \in Fill
        BY DEF TypeOK
    <2>. QED
        BY <2>1, LedgerAssumption DEF TypeOK, Fill, Row, Time
<1>1. PICK point \in ReplayPoints(row) :
          AcceptsSell(r.track, r.symbol, P, point, r.at, r.quantity)
    BY DEF Accepted
<1>2. point \in Int /\ point >= row
    BY <1>0, LedgerAssumption DEF ReplayPoints
<1>3. /\ S \in SUBSET DOMAIN fills /\ B \in SUBSET DOMAIN fills /\ E \in SUBSET DOMAIN fills
      /\ S = Of(r.track, r.symbol, "sell") /\ B = Of(r.track, r.symbol, "buy")
    BY Forms DEF In
<1>. HIDE DEF S, B
<1>4. /\ r.quantity <= Lots(UpTo(B, point)) - Lots(UpTo(S, point))
      /\ r.quantity <= AtLeastZero(Lots(OnEarlierDays(Before(B, r.at), r.at))
                                   - Lots(Before(S, r.at)))
    BY <1>1, <1>3 DEF AcceptsSell, Held, Sellable
<1>5. ASSUME S \intersect overlooked' = {}
      PROVE  LotsOf(fills, S) + r.quantity <= LotsOf(fills, B)
    <2>1. UpTo(S, point) = S
        BY <1>0, <1>2, <1>3, <1>5 DEF UpTo, Row
    <2>2. UpTo(B, point) \in SUBSET B
        BY DEF UpTo
    <2>3. /\ LotsOf(fills, UpTo(B, point)) <= LotsOf(fills, B)
          /\ LotsOf(fills, UpTo(B, point)) \in Int /\ LotsOf(fills, B) \in Int
          /\ LotsOf(fills, S) \in Int
        BY <1>0, <1>3, <2>2, LotsFacts
    <2>. QED
        BY <1>0, <1>4, <2>1, <2>3, Forms
<1>6. ASSUME \A i \in S : fills[i].at < r.at
      PROVE  LotsOf(fills, S) + r.quantity <= LotsOf(fills, E)
    <2>. DEFINE Y == OnEarlierDays(Before(B, r.at), r.at)
    <2>1. Before(S, r.at) = S
        BY <1>6 DEF Before
    <2>2. Y \in SUBSET E
        BY DEF OnEarlierDays, Before
    <2>3. /\ LotsOf(fills, Y) <= LotsOf(fills, E)
          /\ LotsOf(fills, Y) \in Int /\ LotsOf(fills, E) \in Int
          /\ LotsOf(fills, S) \in Int
        BY <1>0, <1>3, <2>2, LotsFacts
    <2>. HIDE DEF Y
    <2>4. r.quantity <= AtLeastZero(LotsOf(fills, Y) - LotsOf(fills, S))
        BY <1>4, <2>1, Forms DEF Y
    <2>. QED
        BY <1>0, <2>3, <2>4 DEF AtLeastZero
<1>. QED
    BY <1>5, <1>6 DEF S, B

\* No step breaks the invariant of the sell checks.
LEMMA SellInvNext == SellInv /\ [Next]_vars => SellInv'
<1>. SUFFICES ASSUME SellInv, [Next]_vars
              PROVE  SellInv'
    OBVIOUS
<1>. USE DEF SellInv
<1>1. TypeOK'
    BY NextType
<1>2. /\ overlooked \subseteq overlooked' /\ overlooked' \subseteq DOMAIN fills
      /\ \A i \in DOMAIN fills \ overlooked' : fills[i].at <= clock'
      /\ TickBehind'
      /\ Fills
    BY StepShape
<1>3. \A t \in Tracks, s \in Symbols :
          /\ In(fills, t, s, "sell") \intersect overlooked = {} => CoveredIn(fills, t, s)
          /\ AdvanceIn(fills, t, s) => SettledIn(fills, t, s)
          /\ t = "model" /\ In(fills, t, s, "sell") \intersect overlooked = {}
                => AdvanceIn(fills, t, s)
    BY Forms, PropertyForms DEF NeverOversold, SettledIfSalesAdvance, ModelSalesAdvance,
                                Sales, CoveredIn
<1>. DEFINE Kept == \A t \in Tracks, s \in Symbols :
          /\ In(fills', t, s, "sell") \intersect overlooked' = {} => CoveredIn(fills', t, s)
          /\ AdvanceIn(fills', t, s) => SettledIn(fills', t, s)
          /\ t = "model" /\ In(fills', t, s, "sell") \intersect overlooked' = {}
                => AdvanceIn(fills', t, s)
<1>4. ASSUME Dated', Kept
      PROVE  SellInv'
    <2>1. NeverOversold' /\ SettledIfSalesAdvance' /\ ModelSalesAdvance'
        <3>1. \A t, s : Sales(t, s)' = In(fills', t, s, "sell")
            BY Forms DEF Sales
        <3>. QED
            BY <1>4, <3>1, Forms, PropertyForms
               DEF NeverOversold, SettledIfSalesAdvance, ModelSalesAdvance, CoveredIn, Tracks
    <2>. QED
        BY <1>1, <1>2, <1>4, <2>1
<1>5. CASE fills' = fills
    <2>1. Dated'
        BY <1>2, <1>5 DEF Dated
    <2>2. Kept
        BY <1>2, <1>3, <1>5
    <2>. QED
        BY <1>4, <2>1, <2>2
<1>6. ASSUME NEW r \in Fill, NEW P, NEW row, Row(P, row), Accepted(r, P, row),
             r.at = clock'
      PROVE  SellInv'
    <2>. DEFINE n == Len(fills) + 1
    <2>0. fills \in Seq(Fill) /\ fills' = Append(fills, r)
        BY <1>6 DEF TypeOK, Accepted
    <2>1. /\ n \in Int /\ DOMAIN fills' = DOMAIN fills \union {n} /\ n \notin DOMAIN fills
          /\ DOMAIN fills \subseteq Int /\ \A i \in DOMAIN fills : i < n
          /\ \A i \in DOMAIN fills : fills'[i] = fills[i]
          /\ fills'[n] = r
        BY <2>0, AppendFacts
    <2>. HIDE DEF n
    <2>2. /\ r.at \in Int /\ row \in Int /\ r.at >= row /\ (r.track = "model" => r.at > row)
          /\ \A i \in DOMAIN fills : fills[i].at \in Int
          /\ \A i \in DOMAIN fills \ overlooked' : fills[i].at <= row
        <3>1. \A i \in DOMAIN fills : fills[i] \in Fill
            BY DEF TypeOK
        <3>. QED
            BY <1>6, <3>1, LedgerAssumption DEF Fill, Time, Row, Accepted
    <2>3. Dated'
        BY <1>2, <1>6, <2>1, <2>2 DEF Dated
    <2>4. ASSUME NEW t \in Tracks, NEW s \in Symbols
          PROVE  /\ In(fills', t, s, "sell") \intersect overlooked' = {}
                        => CoveredIn(fills', t, s)
                 /\ AdvanceIn(fills', t, s) => SettledIn(fills', t, s)
                 /\ t = "model" /\ In(fills', t, s, "sell") \intersect overlooked' = {}
                        => AdvanceIn(fills', t, s)
        <3>. DEFINE S == In(fills, t, s, "sell")
                    T == In(fills', t, s, "sell")
                    Here == r.track = t /\ r.symbol = s /\ r.side = "sell"
        <3>1. T = S \union (IF Here THEN {n} ELSE {})
            BY <2>0, InAppend DEF n
        <3>2. S \subseteq T /\ S \subseteq DOMAIN fills /\ (Here => T = S \union {n})
              /\ (~Here => T = S)
            BY <3>1 DEF In
        <3>3. Here => /\ S \intersect overlooked' = {} =>
                             LotsOf(fills, S) + r.quantity
                                <= LotsOf(fills, In(fills, t, s, "buy"))
                      /\ (\A i \in S : fills[i].at < r.at) =>
                             LotsOf(fills, S) + r.quantity
                               <= LotsOf(fills, {i \in In(fills, t, s, "buy") :
                                                     Day(fills[i].at) < Day(r.at)})
            BY <1>6, SaleFacts
        <3>4. ASSUME T \intersect overlooked' = {}
              PROVE  CoveredIn(fills', t, s)
            <4>1. S \intersect overlooked' = {} /\ S \intersect overlooked = {}
                BY <1>2, <3>2, <3>4
            <4>2. CoveredIn(fills, t, s)
                BY <1>3, <4>1
            <4>3. Here => LotsOf(fills, S) + r.quantity
                              <= LotsOf(fills, In(fills, t, s, "buy"))
                BY <3>3, <4>1
            <4>. QED
                BY <2>0, <4>2, <4>3, CoveredStep
        <3>5. ASSUME AdvanceIn(fills', t, s)
              PROVE  SettledIn(fills', t, s)
            <4>1. \A i, j \in T : i < j => fills'[i].at < fills'[j].at
                BY <3>5 DEF AdvanceIn
            <4>2. \A i \in S : fills'[i] = fills[i] /\ i < n
                BY <2>1, <3>2
            <4>3. AdvanceIn(fills, t, s)
                <5>1. \A i, j \in S : i < j => fills[i].at < fills[j].at
                    BY <3>2, <4>1, <4>2
                <5>. QED
                    BY <5>1 DEF AdvanceIn
            <4>4. SettledIn(fills, t, s)
                BY <1>3, <4>3
            <4>5. Here => \A i \in S : fills[i].at < r.at
                BY <2>1, <3>2, <4>1, <4>2
            <4>. HIDE DEF T
            <4>6. Here => /\ \A i \in S : fills[i].at < r.at
                          /\ LotsOf(fills, S) + r.quantity
                               <= LotsOf(fills, {i \in In(fills, t, s, "buy") :
                                                     Day(fills[i].at) < Day(r.at)})
                BY <3>3, <4>5
            <4>. QED
                BY <2>0, <4>4, <4>6, SettledStep
        <3>6. ASSUME t = "model", T \intersect overlooked' = {}
              PROVE  AdvanceIn(fills', t, s)
            <4>1. S \intersect overlooked = {}
                BY <1>2, <3>2, <3>6
            <4>2. \A i, j \in S : i < j => fills[i].at < fills[j].at
                BY <1>3, <3>6, <4>1 DEF AdvanceIn
            <4>3. \A i \in S : i \notin overlooked' /\ i \in DOMAIN fills /\ i < n /\ i \in Int
                BY <2>1, <3>2, <3>6
            <4>4. \A i \in S : fills[i].at <= row /\ fills'[i] = fills[i]
                               /\ fills[i].at \in Int
                BY <2>1, <2>2, <4>3
            <4>5. \A i, j \in T : i < j => fills'[i].at < fills'[j].at
                <5>. SUFFICES ASSUME NEW i \in T, NEW j \in T, i < j
                              PROVE  fills'[i].at < fills'[j].at
                    OBVIOUS
                <5>. HIDE DEF S, T, Here
                <5>1. CASE i \in S /\ j \in S
                    BY <4>2, <4>4, <5>1
                <5>2. CASE i \in S /\ j \notin S
                    <6>1. Here /\ j = n
                        BY <3>2, <5>2
                    <6>2. fills'[j] = r /\ r.at > row
                        BY <2>1, <2>2, <3>6, <6>1 DEF Here
                    <6>. QED
                        BY <2>2, <4>4, <5>2, <6>2
                <5>3. CASE i \notin S
                    <6>1. i = n /\ (j \in S \/ j = n)
                        BY <3>2, <5>3
                    <6>. QED
                        BY <2>1, <4>3, <6>1
                <5>. QED
                    BY <5>1, <5>2, <5>3
            <4>. QED
                BY <4>5 DEF AdvanceIn
        <3>. QED
            BY <3>4, <3>5, <3>6
    <2>. QED
        BY <1>4, <2>3, <2>4
<1>. QED
    BY <1>2, <1>5, <1>6 DEF Fills

LEMMA SellInvHolds == Spec => []SellInv
    BY SellInvInit, SellInvNext, PTL DEF Spec

\* No track sells more of a stock than it has bought, unless a late tick has
\* stepped from a row older than one of its sales.
THEOREM HoldingsCorrect == Spec => []NeverOversold
<1>1. SellInv => NeverOversold
    BY DEF SellInv
<1>. QED
    BY <1>1, SellInvHolds, PTL

\* A position breaks T+1 only when one of its sales was placed at the time of an
\* earlier one or before it.
THEOREM TPlusOneException == Spec => []SettledIfSalesAdvance
<1>1. SellInv => SettledIfSalesAdvance
    BY DEF SellInv
<1>. QED
    BY <1>1, SellInvHolds, PTL

\* The model track obeys the T+1 rule in each stock of which no late tick has
\* overlooked a sale.
THEOREM ModelTrackTPlusOne == Spec => []ModelTrackSettled
<1>1. SellInv => ModelTrackSettled
    BY DEF SellInv, SettledIfSalesAdvance, ModelSalesAdvance, ModelTrackSettled, Tracks
<1>. QED
    BY <1>1, SellInvHolds, PTL

---------------------------------------------------------------------------
(* The cash covers the orders *)

\* At these prices every sale yields something after its fee and tax.
SalesYield == \A q \in OrderLots, price \in LotPrices : SellProceeds(q, price) >= 0

\* A lot that costs the minimum commission of 5 CNY or more is enough for it.
LEMMA YieldAtMinimumFee == (\A price \in LotPrices : price >= 500) => SalesYield
<1>. SUFFICES ASSUME \A price \in LotPrices : price >= 500,
                     NEW q \in OrderLots, NEW price \in LotPrices
              PROVE  SellProceeds(q, price) >= 0
    BY DEF SalesYield
<1>. DEFINE a == q * price
<1>1. q \in Nat /\ q >= 1 /\ price \in Nat /\ price >= 500
    BY LedgerAssumption
<1>2. a \in Nat /\ a >= 500
    BY <1>1
<1>. HIDE DEF a
<1>3. a - Commission(a) - StampTax(a) >= 0
    BY <1>2 DEF Commission, StampTax
<1>. QED
    BY <1>3 DEF SellProceeds, a

\* The inductive invariant of the cash: sales have not cost anything.
CashInv ==
    /\ \A i \in DOMAIN fills : fills[i].side = "sell" => fills[i].flow >= 0
    /\ CashCoversOrders

\* CashCoversOrders in terms of the list of fills, before and after a step.
LEMMA CashForm ==
    /\ CashCoversOrders <=>
          (~edited => \A t \in Tracks :
              Purchases(t) \intersect overlooked = {}
                  => startingCash + MoneyOf(fills, WithinIn(fills, t, pool)) >= 0)
    /\ CashCoversOrders' <=>
          (~edited' => \A t \in Tracks :
              Purchases(t)' \intersect overlooked' = {}
                  => startingCash' + MoneyOf(fills', WithinIn(fills', t, pool')) >= 0)
    BY Forms DEF CashCoversOrders

\* Before the first order both tracks own their starting cash.
LEMMA NothingSpent ==
    ASSUME NEW cash \in InitialCash, NEW t, NEW P
    PROVE  cash + MoneyOf(<<>>, WithinIn(<<>>, t, P)) >= 0
<1>1. WithinIn(<<>>, t, P) = {}
    BY DEF WithinIn
<1>2. MoneyOf(<<>>, {}) = Total(FlowOf(<<>>), {})
    <2>1. {} \in SUBSET DOMAIN <<>> /\ IsFiniteSet({})
        BY FS_EmptySet
    <2>. QED
        BY <2>1, MoneyIsTotal
<1>3. Total(FlowOf(<<>>), {}) = 0
    BY FS_EmptySet, TotalFacts
<1>4. MoneyOf(<<>>, WithinIn(<<>>, t, P)) = 0
    BY <1>1, <1>2, <1>3
<1>5. cash \in Int /\ cash >= 0
    BY LedgerAssumption
<1>. QED
    BY <1>4, <1>5

\* The estimate of an accepted purchase, against a replay that may lack some of
\* the sales, is no more than the cash of the track.
LEMMA PurchaseFacts ==
    ASSUME TypeOK, CashInv, NEW r \in Fill, NEW row, Row(pool, row),
           Accepted(r, pool, row), r.side = "buy",
           Purchases(r.track) \intersect overlooked' = {}
    PROVE  startingCash + MoneyOf(fills, WithinIn(fills, r.track, pool)) + r.flow >= 0
<1>. DEFINE W == WithinIn(fills, r.track, pool)
<1>0. /\ fills \in Seq(Fill) /\ r.flow \in Int /\ row \in Int /\ startingCash \in Int
      /\ \A i \in DOMAIN fills : fills[i].at \in Int /\ fills[i].side \in {"buy", "sell"}
    <2>1. \A i \in DOMAIN fills : fills[i] \in Fill
        BY DEF TypeOK
    <2>. QED
        BY <2>1, LedgerAssumption DEF TypeOK, Fill, Row, Time
<1>1. PICK point \in ReplayPoints(row) : -r.flow <= AvailableCash(r.track, pool, point)
    BY DEF Accepted
<1>2. point \in Int /\ point >= row
    BY <1>0, LedgerAssumption DEF ReplayPoints
<1>3. W \in SUBSET DOMAIN fills /\ UpTo(W, point) \in SUBSET W
    BY DEF WithinIn, UpTo
<1>4. \A i \in W \ UpTo(W, point) : fills[i].flow >= 0
    <2>. SUFFICES ASSUME NEW i \in W, i \notin UpTo(W, point), fills[i].side = "buy"
                  PROVE  FALSE
        BY <1>0, <1>3 DEF CashInv
    <2>1. i \in Purchases(r.track)
        BY DEF Purchases, WithinIn
    <2>2. fills[i].at <= row
        BY <1>3, <2>1 DEF Row
    <2>. QED
        BY <1>0, <1>2, <1>3, <2>2 DEF UpTo
<1>. HIDE DEF W
<1>5. /\ MoneyOf(fills, UpTo(W, point)) <= MoneyOf(fills, W)
      /\ MoneyOf(fills, UpTo(W, point)) \in Int /\ MoneyOf(fills, W) \in Int
    BY <1>0, <1>3, <1>4, MoneyFacts
<1>6. -r.flow <= startingCash + MoneyOf(fills, UpTo(W, point))
    BY <1>1, Forms DEF AvailableCash, W
<1>7. startingCash + MoneyOf(fills, W) + r.flow >= 0
    BY <1>0, <1>5, <1>6
<1>. QED
    BY <1>7 DEF W

\* No step breaks the invariant of the cash.
LEMMA CashInvNext ==
    ASSUME SalesYield, SellInv, CashInv, [Next]_vars
    PROVE  CashInv'
<1>1. /\ overlooked \subseteq overlooked' /\ overlooked' \subseteq DOMAIN fills
      /\ Fills
    BY StepShape DEF SellInv
<1>0. TypeOK /\ TypeOK' /\ fills \in Seq(Fill) /\ startingCash \in InitialCash
    BY NextType DEF SellInv, TypeOK
<1>2. CASE fills' = fills
    <2>1. CASE fills = <<>>
        <3>1. \A t : startingCash' + MoneyOf(fills', WithinIn(fills', t, pool')) >= 0
            BY <1>0, <1>2, <2>1, NothingSpent DEF TypeOK
        <3>. QED
            BY <1>2, <3>1, CashForm DEF CashInv
    <2>2. CASE fills # <<>>
        <3>1. ~edited' => ~edited /\ UNCHANGED <<pool, startingCash>>
            BY <1>2, <2>2 DEF Next, ManualBuy, ManualSell, UserSteps, TickLoads, TickSteps,
                              TickEnds, UpdateConfig, vars
        <3>2. \A t : Purchases(t)' = Purchases(t)
            BY <1>2 DEF Purchases
        <3>3. CashCoversOrders'
            BY <1>1, <1>2, <3>1, <3>2, CashForm DEF CashInv
        <3>. QED
            BY <1>2, <3>3 DEF CashInv
    <2>. QED
        BY <2>1, <2>2
<1>3. ASSUME NEW r \in Fill, NEW P, NEW row, Row(P, row), Accepted(r, P, row)
      PROVE  CashInv'
    <2>. DEFINE n == Len(fills) + 1
    <2>0. fills' = Append(fills, r)
        BY <1>3 DEF Accepted
    <2>1. /\ DOMAIN fills' = DOMAIN fills \union {n}
          /\ \A i \in DOMAIN fills : fills'[i] = fills[i]
          /\ fills'[n] = r
        BY <1>0, <2>0, AppendFacts
    <2>. HIDE DEF n
    <2>2. r.flow \in Int /\ r.side \in {"buy", "sell"}
        BY DEF Fill
    <2>3. r.side = "sell" => r.flow >= 0
        BY <1>3 DEF Accepted, SalesYield
    <2>4. \A i \in DOMAIN fills' : fills'[i].side = "sell" => fills'[i].flow >= 0
        BY <2>1, <2>3 DEF CashInv
    <2>5. ASSUME ~edited', NEW t \in Tracks, Purchases(t)' \intersect overlooked' = {}
          PROVE  startingCash' + MoneyOf(fills', WithinIn(fills', t, pool')) >= 0
        <3>1. P = pool /\ UNCHANGED <<pool, startingCash>>
            BY <1>3, <2>5 DEF Row
        <3>2. ~edited
            <4>1. fills' # fills
                BY <1>0, <2>0, AppendFacts
            <4>. QED
                BY <2>5, <4>1 DEF Next, ManualBuy, ManualSell, UserSteps, TickLoads,
                                  TickSteps, TickEnds, UpdateConfig, vars
        <3>3. Purchases(t) \subseteq Purchases(t)'
            BY <2>1 DEF Purchases
        <3>4. Purchases(t) \intersect overlooked = {} /\ Purchases(t) \intersect overlooked' = {}
            BY <1>1, <2>5, <3>3
        <3>5. startingCash + MoneyOf(fills, WithinIn(fills, t, pool)) >= 0
            BY <3>2, <3>4, CashForm DEF CashInv
        <3>6. r.track = t /\ r.symbol \in pool =>
                  r.flow >= 0
                      \/ startingCash + MoneyOf(fills, WithinIn(fills, t, pool)) + r.flow >= 0
            BY <1>0, <1>3, <2>2, <2>3, <3>1, <3>4, PurchaseFacts
        <3>7. startingCash \in Int
            BY <1>0, LedgerAssumption
        <3>8. startingCash + MoneyOf(fills', WithinIn(fills', t, pool)) >= 0
            BY <1>0, <2>0, <3>5, <3>6, <3>7, CashStep
        <3>. QED
            BY <3>1, <3>8
    <2>. QED
        BY <2>4, <2>5, CashForm DEF CashInv
<1>. QED
    BY <1>1, <1>2, <1>3 DEF Fills

\* Before the first order the cash is covered.
LEMMA CashInvInit == Init => CashInv
<1>. SUFFICES ASSUME Init PROVE CashInv
    OBVIOUS
<1>1. fills = <<>> /\ startingCash \in InitialCash
    BY DEF Init
<1>2. \A t : startingCash + MoneyOf(fills, WithinIn(fills, t, pool)) >= 0
    BY <1>1, NothingSpent
<1>3. DOMAIN fills = {}
    BY <1>1
<1>. QED
    BY <1>2, <1>3, CashForm DEF CashInv

\* While pool and initial cash stay as they were when trading began, the estimate
\* of _validate_order_request keeps the fills of a track in the watched stocks
\* within its cash, unless a late tick has overlooked one of its purchases.
THEOREM CashNeverShort == SalesYield => (Spec => []CashCoversOrders)
<1>. SUFFICES ASSUME SalesYield PROVE Spec => []CashCoversOrders
    OBVIOUS
<1>1. SellInv /\ CashInv /\ [Next]_vars => CashInv'
    BY CashInvNext
<1>2. CashInv => CashCoversOrders
    BY DEF CashInv
<1>. QED
    BY <1>1, <1>2, CashInvInit, SellInvHolds, PTL DEF Spec

\* simulation.py:1508 holds over all the orders of a track, if none of them is in
\* a stock outside the pool: with the exceptions of CashCoversOrders, the
\* condition that NoOverdraft lacks.
OverdraftOnlyUnwatched ==
    ~edited => \A t \in Tracks :
        /\ Purchases(t) \intersect overlooked = {}
        /\ Within(t, Symbols) = Within(t, pool)
        => startingCash + Money(Within(t, Symbols)) >= 0

\* A track that has no orders outside the pool spends no more than it owns, but
\* for the exceptions named: an edit of pool or cash, an overlooked purchase.
THEOREM WatchedOrdersCovered == SalesYield => (Spec => []OverdraftOnlyUnwatched)
<1>1. CashCoversOrders => OverdraftOnlyUnwatched
    BY DEF CashCoversOrders, OverdraftOnlyUnwatched
<1>. QED
    BY <1>1, CashNeverShort, PTL
================================================================================
