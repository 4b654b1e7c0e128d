---------------------------- MODULE MoneyProofs ----------------------------
(***************************************************************************)
(* Proofs about AgentBilling, for any rows, payments, credits, charges and *)
(* requests, and about PayoutStatement, for any totals, requests at once   *)
(* and postings.                                                           *)
(*                                                                         *)
(* What is paid of a row, or of an invoice, is a sum over the              *)
(* applications, so the lemmas on sums come first, then the types and the  *)
(* step of every handler.  Three invariants follow, each strengthening its *)
(* property by what the requests under way carry: BalanceInv (what is      *)
(* applied, and the rows they are about to write over), OnceInv (a request *)
(* that is still fresh fits what is left) and DayInv (one that is fresh    *)
(* goes on from the date of the rule).                                     *)
(*                                                                         *)
(* The second part is about the payout statements of the same agents.      *)
(***************************************************************************)
EXTENDS AgentBilling, PayoutStatement, FiniteSetTheorems, SequenceTheorems, TLAPS

----------------------------------------------------------------------------
(* Induction, over a set of the numbers and of the sets for which a fact is  *)
(* known, since an induction theorem over operators has no instances.        *)

LEMMA NumberInduction ==
  ASSUME NEW B \in SUBSET Nat, 0 \in B, \A n \in B : n + 1 \in B
  PROVE  B = Nat
<1> SUFFICES ASSUME Nat \ B # {} PROVE FALSE
  OBVIOUS
<1>1. PICK n \in Nat \ B : \A m \in Nat \ B : <<m, n>> \notin OpToRel(<,Nat)
  BY NatLessThanWellFounded, WFMin
<1>2. n # 0 /\ n - 1 \in Nat
  OBVIOUS
<1>3. n - 1 \notin B
  BY <1>2
<1>4. <<n - 1, n>> \in OpToRel(<,Nat)
  BY <1>2 DEF OpToRel
<1> QED
  BY <1>1, <1>2, <1>3, <1>4

LEMMA SetInduction ==
  ASSUME NEW S, IsFiniteSet(S), NEW B \in SUBSET SUBSET S,
         {} \in B, \A T \in B, x \in S : x \notin T => T \cup {x} \in B
  PROVE  S \in B
<1> DEFINE N == {n \in Nat : \A T \in SUBSET S : Cardinality(T) = n => T \in B}
<1>1. \A T \in SUBSET S : IsFiniteSet(T) /\ Cardinality(T) \in Nat
  BY FS_Subset, FS_CardinalityType
<1>2. 0 \in N
  BY <1>1, FS_EmptySet
<1>3. ASSUME NEW n \in N PROVE n + 1 \in N
  <2> SUFFICES ASSUME NEW T \in SUBSET S, Cardinality(T) = n + 1 PROVE T \in B
    OBVIOUS
  <2>1. T # {}
    BY <1>1, FS_EmptySet
  <2>2. PICK x : x \in T
    BY <2>1
  <2>3. Cardinality(T \ {x}) = n
    BY <1>1, <2>2, FS_RemoveElement
  <2>4. T \ {x} \in B /\ T = (T \ {x}) \cup {x}
    BY <2>2, <2>3
  <2> QED BY <2>2, <2>4
<1> HIDE DEF N
<1>4. N = Nat
  <2>1. N \in SUBSET Nat
    BY DEF N
  <2> QED BY <1>2, <1>3, <2>1, NumberInduction
<1> QED
  BY <1>1, <1>4 DEF N

----------------------------------------------------------------------------
(* Sums.  Sums over operators become those of functions first.               *)

Pick(T) == CHOOSE x \in T : TRUE

\* g adds f up over the parts of S, one chosen element after another.
Adds(g, f, S) ==
  g = [T \in SUBSET S |-> IF T = {} THEN 0 ELSE f[Pick(T)] + g[T \ {Pick(T)}]]

Total(f, S) == MapThenSumSet(LAMBDA j : f[j], S)

LEMMA PickIn == \A T : T # {} => Pick(T) \in T
BY DEF Pick

LEMMA AddsExists ==
  ASSUME NEW S, IsFiniteSet(S), NEW f
  PROVE  \E g : Adds(g, f, S)
<1> DEFINE Small(n) == {T \in SUBSET S : Cardinality(T) <= n}
           One(T, g) == IF T = {} THEN 0 ELSE f[Pick(T)] + g[T \ {Pick(T)}]
           B == {n \in Nat : \E g : g = [T \in Small(n) |-> One(T, g)]}
<1>1. \A T \in SUBSET S : IsFiniteSet(T) /\ Cardinality(T) \in Nat
  BY FS_Subset, FS_CardinalityType
<1>2. 0 \in B
  <2> DEFINE g == [T \in Small(0) |-> 0]
  <2>1. \A T \in Small(0) : T = {}
    BY <1>1, FS_EmptySet
  <2>2. g = [T \in Small(0) |-> One(T, g)]
    BY <2>1
  <2> QED BY <2>2
<1>3. ASSUME NEW n \in B PROVE n + 1 \in B
  <2>1. PICK g : g = [T \in Small(n) |-> One(T, g)]
    OBVIOUS
  <2> DEFINE h == [T \in Small(n + 1) |-> One(T, g)]
  <2>2. \A T \in Small(n) : T \in Small(n + 1) /\ h[T] = g[T]
    <3>1. \A T \in Small(n) : T \in Small(n + 1)
      BY <1>1
    <3>2. \A T \in Small(n) : g[T] = One(T, g)
      BY <2>1, Zenon
    <3> HIDE DEF One, Small
    <3> QED BY <3>1, <3>2
  <2>3. ASSUME NEW T \in Small(n + 1), T # {} PROVE T \ {Pick(T)} \in Small(n)
    <3>1. Pick(T) \in T
      BY <2>3, PickIn
    <3>2. Cardinality(T \ {Pick(T)}) = Cardinality(T) - 1
      BY <1>1, <3>1, FS_RemoveElement
    <3> QED BY <1>1, <3>2
  <2>4. ASSUME NEW T \in Small(n + 1) PROVE One(T, g) = One(T, h)
    <3>1. T # {} => g[T \ {Pick(T)}] = h[T \ {Pick(T)}]
      <4> HIDE DEF h, Small
      <4> QED BY <2>2, <2>3
    <3> HIDE DEF h, Small
    <3> QED BY <3>1
  <2>5. h = [T \in Small(n + 1) |-> One(T, h)]
    <3> DEFINE k == [T \in Small(n + 1) |-> One(T, h)]
    <3>1. \A T \in Small(n + 1) : h[T] = k[T]
      <4> HIDE DEF One, Small
      <4> QED BY <2>4
    <3> HIDE DEF One, Small
    <3> QED BY <3>1
  <2>6. \E k : k = [T \in Small(n + 1) |-> One(T, k)]
    <3> HIDE DEF h, Small, One
    <3> QED BY <2>5
  <2>7. n + 1 \in Nat
    OBVIOUS
  <2> HIDE DEF Small, One, h
  <2> QED BY <2>6, <2>7
<1>4. B = Nat
  <2>1. B \in SUBSET Nat
    OBVIOUS
  <2> HIDE DEF B
  <2> QED BY <1>2, <1>3, <2>1, NumberInduction
<1>5. Cardinality(S) \in Nat /\ \A T \in SUBSET S : Cardinality(T) <= Cardinality(S)
  BY FS_Subset, FS_CardinalityType
<1>6. Small(Cardinality(S)) = SUBSET S
  BY <1>5
<1>7. PICK g : g = [T \in Small(Cardinality(S)) |-> One(T, g)]
  BY <1>4, <1>5
<1>8. g = [T \in SUBSET S |-> One(T, g)]
  BY <1>6, <1>7, Zenon
<1> QED
  BY <1>8 DEF Adds

LEMMA AddsOnce ==
  ASSUME NEW S, IsFiniteSet(S), NEW T \in SUBSET S, NEW f, NEW e, NEW g, NEW h,
         \A j \in S : e[j] = f[j], Adds(g, e, S), Adds(h, f, T)
  PROVE  g[T] = h[T]
<1> DEFINE B == {n \in Nat : \A U \in SUBSET T : Cardinality(U) <= n => g[U] = h[U]}
<1>1. \A U \in SUBSET T : IsFiniteSet(U) /\ Cardinality(U) \in Nat
  BY FS_Subset, FS_CardinalityType
<1>2. g[{}] = 0 /\ h[{}] = 0
  BY DEF Adds
<1>3. ASSUME NEW U \in SUBSET T, U # {}
      PROVE  /\ Pick(U) \in U
             /\ g[U] = e[Pick(U)] + g[U \ {Pick(U)}]
             /\ h[U] = f[Pick(U)] + h[U \ {Pick(U)}]
  BY <1>3, PickIn DEF Adds
<1>4. 0 \in B
  BY <1>1, <1>2, FS_EmptySet
<1>5. ASSUME NEW n \in B PROVE n + 1 \in B
  <2> SUFFICES ASSUME NEW U \in SUBSET T, Cardinality(U) <= n + 1, U # {} PROVE g[U] = h[U]
    BY <1>2
  <2>1. Cardinality(U \ {Pick(U)}) <= n
    <3>1. Cardinality(U \ {Pick(U)}) = Cardinality(U) - 1
      BY <1>1, <1>3, FS_RemoveElement
    <3> QED BY <1>1, <3>1
  <2>2. g[U \ {Pick(U)}] = h[U \ {Pick(U)}]
    BY <2>1
  <2>3. e[Pick(U)] = f[Pick(U)]
    BY <1>3
  <2> QED BY <1>3, <2>2, <2>3
<1>6. B = Nat
  <2>1. B \in SUBSET Nat
    OBVIOUS
  <2> HIDE DEF B
  <2> QED BY <1>4, <1>5, <2>1, NumberInduction
<1>7. Cardinality(T) \in B
  BY <1>1, <1>6
<1> QED
  BY <1>1, <1>7

LEMMA TotalAdds ==
  ASSUME NEW S, IsFiniteSet(S), NEW f
  PROVE  \E g : Adds(g, f, S) /\ \A T \in SUBSET S : Total(f, T) = g[T]
<1>1. PICK g : Adds(g, f, S)
  BY AddsExists
<1>2. ASSUME NEW T \in SUBSET S PROVE Total(f, T) = g[T]
  <2>1. IsFiniteSet(T)
    BY FS_Subset
  <2>2. \E h : Adds(h, f, T)
    BY <2>1, AddsExists
  <2>3. PICK h : Adds(h, f, T) /\ Total(f, T) = h[T]
    BY <2>2 DEF Total, MapThenSumSet, MapThenFoldSet, Adds, Pick
  <2> QED BY <1>1, <2>3, AddsOnce
<1> QED
  BY <1>1, <1>2

LEMMA TotalEmpty == ASSUME NEW f PROVE Total(f, {}) = 0
<1>1. PICK g : Adds(g, f, {}) /\ Total(f, {}) = g[{}]
  BY TotalAdds, FS_EmptySet
<1> QED
  BY <1>1 DEF Adds

Ints(f, S) == \A j \in S : f[j] \in Int

LEMMA TotalRemove ==
  ASSUME NEW S, IsFiniteSet(S), NEW f, Ints(f, S), NEW x \in S
  PROVE  /\ Total(f, S) \in Int /\ Total(f, S \ {x}) \in Int
         /\ Total(f, S) = f[x] + Total(f, S \ {x})
<1>1. PICK g : Adds(g, f, S) /\ \A T \in SUBSET S : Total(f, T) = g[T]
  BY TotalAdds
<1> DEFINE B == {n \in Nat : \A T \in SUBSET S : Cardinality(T) <= n =>
                   g[T] \in Int /\ \A y \in T : g[T] = f[y] + g[T \ {y}]}
<1>2. \A T \in SUBSET S : IsFiniteSet(T) /\ Cardinality(T) \in Nat
  BY FS_Subset, FS_CardinalityType
<1>3. g[{}] = 0
  BY <1>1 DEF Adds
<1>4. ASSUME NEW T \in SUBSET S, T # {}
      PROVE  Pick(T) \in T /\ g[T] = f[Pick(T)] + g[T \ {Pick(T)}]
  BY <1>1, <1>4, PickIn DEF Adds
<1>5. 0 \in B
  BY <1>2, <1>3, FS_EmptySet
<1>6. ASSUME NEW n \in B PROVE n + 1 \in B
  <2> SUFFICES ASSUME NEW T \in SUBSET S, Cardinality(T) <= n + 1
               PROVE  g[T] \in Int /\ \A y \in T : g[T] = f[y] + g[T \ {y}]
    OBVIOUS
  <2>0. CASE T = {}
    BY <1>3, <2>0
  <2> SUFFICES ASSUME T # {} PROVE g[T] \in Int /\ \A y \in T : g[T] = f[y] + g[T \ {y}]
    BY <2>0
  <2>1. ASSUME NEW y \in T PROVE Cardinality(T \ {y}) <= n /\ g[T \ {y}] \in Int
    <3>1. Cardinality(T \ {y}) = Cardinality(T) - 1
      BY <1>2, FS_RemoveElement
    <3> QED BY <1>2, <3>1
  <2> DEFINE p == Pick(T)
  <2>2. p \in T /\ g[T] = f[p] + g[T \ {p}]
    BY <1>4
  <2>3. g[T] \in Int
    BY <2>1, <2>2 DEF Ints
  <2>4. ASSUME NEW y \in T, y # p PROVE g[T] = f[y] + g[T \ {y}]
    <3>1. y \in T \ {p} /\ p \in T \ {y} /\ (T \ {p}) \ {y} = (T \ {y}) \ {p}
      BY <2>2, <2>4
    <3> HIDE DEF p
    <3>2. g[T \ {p}] = f[y] + g[(T \ {p}) \ {y}]
      BY <2>1, <2>2, <3>1
    <3>3. g[T \ {y}] = f[p] + g[(T \ {y}) \ {p}]
      BY <2>1, <2>2, <3>1
    <3>4. Cardinality((T \ {p}) \ {y}) <= n
      <4>1. Cardinality((T \ {p}) \ {y}) = Cardinality(T \ {p}) - 1
        BY <1>2, <3>1, FS_RemoveElement
      <4>2. Cardinality(T \ {p}) <= n /\ Cardinality(T \ {p}) \in Nat
        BY <1>2, <2>1, <2>2
      <4> QED BY <4>1, <4>2
    <3>5. g[(T \ {p}) \ {y}] \in Int
      BY <3>4
    <3>6. f[p] \in Int /\ f[y] \in Int
      BY <2>2 DEF Ints
    <3>7. g[T] = f[p] + (f[y] + g[(T \ {p}) \ {y}])
      BY <2>2, <3>2
    <3>8. g[T \ {y}] = f[p] + g[(T \ {p}) \ {y}]
      BY <3>1, <3>3
    <3> QED BY <3>5, <3>6, <3>7, <3>8
  <2> QED BY <2>2, <2>3, <2>4
<1>7. B = Nat
  <2>1. B \in SUBSET Nat
    OBVIOUS
  <2> HIDE DEF B
  <2> QED BY <1>5, <1>6, <2>1, NumberInduction
<1>8. ASSUME NEW T \in SUBSET S
      PROVE  g[T] \in Int /\ \A y \in T : g[T] = f[y] + g[T \ {y}]
  <2>1. Cardinality(T) \in B
    BY <1>2, <1>7
  <2> QED BY <1>2, <2>1
<1> QED
  BY <1>1, <1>8

LEMMA TotalInt ==
  ASSUME NEW S, IsFiniteSet(S), NEW f, Ints(f, S)
  PROVE  Total(f, S) \in Int
<1>1. CASE S = {}
  <2>1. Total(f, {}) = 0
    BY TotalEmpty
  <2> QED BY <1>1, <2>1
<1>2. ASSUME NEW x \in S PROVE Total(f, S) \in Int
  BY TotalRemove, Zenon
<1> QED
  BY <1>1, <1>2

LEMMA TotalAdd ==
  ASSUME NEW T, IsFiniteSet(T), NEW f, Ints(f, T), NEW x, x \notin T, f[x] \in Int
  PROVE  Total(f, T \cup {x}) = Total(f, T) + f[x]
<1> DEFINE S == T \cup {x}
<1>1. IsFiniteSet(S) /\ S \ {x} = T /\ x \in S /\ Ints(f, S)
  BY FS_AddElement DEF Ints
<1>2. Total(f, T) \in Int
  BY TotalInt
<1> HIDE DEF S
<1>3. Total(f, S) = f[x] + Total(f, S \ {x})
  BY <1>1, TotalRemove, Zenon
<1>4. Total(f, S) = f[x] + Total(f, T)
  BY <1>1, <1>3, Zenon
<1>5. Total(f, S) = Total(f, T) + f[x]
  BY <1>2, <1>4
<1> QED
  BY <1>5 DEF S

LEMMA IntsPart ==
  ASSUME NEW S, IsFiniteSet(S), NEW T \in SUBSET S, NEW f, Ints(f, S)
  PROVE  IsFiniteSet(T) /\ Ints(f, T)
BY FS_Subset DEF Ints

LEMMA TotalNat ==
  ASSUME NEW S, IsFiniteSet(S), NEW f, \A j \in S : f[j] \in Nat
  PROVE  Total(f, S) \in Nat
<1> DEFINE B == {T \in SUBSET S : Total(f, T) \in Nat}
<1>1. {} \in B
  BY TotalEmpty
<1>2. ASSUME NEW T \in B, NEW x \in S, x \notin T PROVE T \cup {x} \in B
  <2>1. IsFiniteSet(T) /\ Ints(f, T) /\ f[x] \in Int
    BY FS_Subset DEF Ints
  <2>2. Total(f, T \cup {x}) = Total(f, T) + f[x]
    BY <1>2, <2>1, TotalAdd
  <2> QED BY <2>2
<1>3. S \in B
  <2> HIDE DEF B
  <2>1. B \in SUBSET SUBSET S
    BY DEF B
  <2> QED BY <1>1, <1>2, <2>1, SetInduction
<1> QED
  BY <1>3

LEMMA TotalZero ==
  ASSUME NEW S, IsFiniteSet(S), NEW f, \A j \in S : f[j] = 0
  PROVE  Total(f, S) = 0
<1> DEFINE B == {T \in SUBSET S : Total(f, T) = 0}
<1>1. {} \in B
  BY TotalEmpty
<1>2. ASSUME NEW T \in B, NEW x \in S, x \notin T PROVE T \cup {x} \in B
  <2>1. IsFiniteSet(T) /\ Ints(f, T) /\ f[x] \in Int
    BY FS_Subset DEF Ints
  <2>2. Total(f, T \cup {x}) = Total(f, T) + f[x]
    BY <1>2, <2>1, TotalAdd
  <2> QED BY <2>2
<1>3. S \in B
  <2> HIDE DEF B
  <2>1. B \in SUBSET SUBSET S
    BY DEF B
  <2> QED BY <1>1, <1>2, <2>1, SetInduction
<1> QED
  BY <1>3

\* What is added to some of the addends is added to the sum.
LEMMA TotalPlus ==
  ASSUME NEW S, IsFiniteSet(S), NEW I \in SUBSET S, NEW f, NEW g, NEW h,
         Ints(f, S), Ints(h, I),
         \A j \in S : g[j] = f[j] + (IF j \in I THEN h[j] ELSE 0)
  PROVE  Total(g, S) = Total(f, S) + Total(h, I)
<1> DEFINE B == {T \in SUBSET S : Total(g, T) = Total(f, T) + Total(h, I \cap T)}
<1>0. IsFiniteSet(I) /\ Ints(g, S)
  BY FS_Subset DEF Ints
<1>1. {} \in B
  <2>1. I \cap {} = {}
    OBVIOUS
  <2> QED BY <2>1, TotalEmpty
<1>2. ASSUME NEW T \in B, NEW x \in S, x \notin T PROVE T \cup {x} \in B
  <2>1. T \in SUBSET S /\ Total(g, T) = Total(f, T) + Total(h, I \cap T)
    OBVIOUS
  <2> HIDE DEF B
  <2>2. IsFiniteSet(T) /\ Ints(f, T)
    BY <2>1, IntsPart
  <2>3. Total(f, T) \in Int
    BY <2>2, TotalInt
  <2>4. IsFiniteSet(I \cap T) /\ Ints(h, I \cap T)
    BY <1>0, IntsPart
  <2>5. Total(h, I \cap T) \in Int
    BY <2>4, TotalInt
  <2>6. Total(f, T \cup {x}) = Total(f, T) + f[x]
    <3>1. f[x] \in Int
      BY DEF Ints
    <3> QED BY <1>2, <2>2, <3>1, TotalAdd
  <2>7. Total(g, T \cup {x}) = Total(g, T) + g[x]
    <3>1. g[x] \in Int /\ Ints(g, T)
      BY <1>0, <2>1 DEF Ints
    <3> QED BY <1>2, <2>2, <3>1, TotalAdd
  <2>8. CASE x \in I
    <3>1. I \cap (T \cup {x}) = (I \cap T) \cup {x} /\ x \notin I \cap T /\ h[x] \in Int
      BY <1>2, <2>8 DEF Ints
    <3>2. Total(h, (I \cap T) \cup {x}) = Total(h, I \cap T) + h[x]
      BY <2>4, <3>1, TotalAdd
    <3>3. Total(h, I \cap (T \cup {x})) = Total(h, I \cap T) + h[x]
      BY <3>1, <3>2
    <3>4. g[x] = f[x] + h[x] /\ f[x] \in Int
      BY <2>8 DEF Ints
    <3>5. Total(g, T \cup {x}) = Total(f, T \cup {x}) + Total(h, I \cap (T \cup {x}))
      BY <2>1, <2>3, <2>5, <2>6, <2>7, <3>1, <3>3, <3>4
    <3> QED BY <2>1, <3>5 DEF B
  <2>9. CASE x \notin I
    <3>1. I \cap (T \cup {x}) = I \cap T
      BY <2>9
    <3>2. g[x] = f[x] /\ f[x] \in Int
      BY <2>9 DEF Ints
    <3>3. Total(h, I \cap (T \cup {x})) = Total(h, I \cap T)
      BY <3>1, Zenon
    <3>4. Total(g, T \cup {x}) = Total(f, T \cup {x}) + Total(h, I \cap (T \cup {x}))
      BY <2>1, <2>3, <2>5, <2>6, <2>7, <3>2, <3>3
    <3> QED BY <2>1, <3>4 DEF B
  <2> QED BY <2>8, <2>9
<1>3. S \in B
  <2> HIDE DEF B
  <2>1. B \in SUBSET SUBSET S
    BY DEF B
  <2> QED BY <1>1, <1>2, <2>1, SetInduction
<1>4. I \cap S = I
  OBVIOUS
<1> QED
  BY <1>3, <1>4

LEMMA TotalSame ==
  ASSUME NEW S, IsFiniteSet(S), NEW f, NEW g, Ints(f, S), \A j \in S : g[j] = f[j]
  PROVE  Total(g, S) = Total(f, S)
<1>1. {} \in SUBSET S /\ Ints(f, {})
  BY DEF Ints
<1>2. \A j \in S : g[j] = f[j] + (IF j \in {} THEN f[j] ELSE 0)
  BY DEF Ints
<1>3. Total(g, S) = Total(f, S) + Total(f, {})
  BY <1>1, <1>2, TotalPlus
<1> QED
  BY <1>3, TotalEmpty, TotalInt

----------------------------------------------------------------------------
(* What is applied.                                                          *)

ToInvoice(app, i)  == [j \in Ids |-> app[<<j, i>>]]
FromSource(app, i) == [j \in Ids |-> app[<<i, j>>]]

\* Sum, as an operator of rows and applications
SumOf(R, app, i) ==
  IF R[i].type = "invoice" THEN Total(ToInvoice(app, i), Ids) ELSE Total(FromSource(app, i), Ids)

LEMMA IdsFinite == IsFiniteSet(Ids) /\ MaxRows \in Nat \ {0} /\ MaxRows \in Int
BY BillingAssumption, FS_Interval DEF Ids

\* The sum of an operator's values is the sum of the function's.
LEMMA SumTo ==
  ASSUME NEW i
  PROVE  MapThenSumSet(LAMBDA j : applied[<<j, i>>], Ids) = Total(ToInvoice(applied, i), Ids)
<1> DEFINE f == ToInvoice(applied, i)
           F(h) == [T \in SUBSET Ids |->
                      IF T = {} THEN 0 ELSE applied[<<Pick(T), i>>] + h[T \ {Pick(T)}]]
<1>1. \A h : Adds(h, f, Ids) <=> h = F(h)
  <2>1. \A T \in SUBSET Ids : T # {} => Pick(T) \in Ids
    BY PickIn
  <2> QED BY <2>1 DEF Adds, ToInvoice
<1>2. MapThenSumSet(LAMBDA j : applied[<<j, i>>], Ids) = (CHOOSE h : h = F(h))[Ids]
  BY DEF MapThenSumSet, MapThenFoldSet, Pick
<1>3. PICK g : Adds(g, f, Ids) /\ Total(f, Ids) = g[Ids]
  BY IdsFinite, TotalAdds
<1>4. g = F(g)
  BY <1>1, <1>3
<1> HIDE DEF F, f
<1>5. Adds(CHOOSE h : h = F(h), f, Ids)
  BY <1>1, <1>4
<1>6. (CHOOSE h : h = F(h))[Ids] = g[Ids]
  BY <1>3, <1>5, IdsFinite, AddsOnce
<1> QED
  BY <1>2, <1>3, <1>6 DEF f

LEMMA SumFrom ==
  ASSUME NEW i
  PROVE  MapThenSumSet(LAMBDA j : applied[<<i, j>>], Ids) = Total(FromSource(applied, i), Ids)
<1> DEFINE f == FromSource(applied, i)
           F(h) == [T \in SUBSET Ids |->
                      IF T = {} THEN 0 ELSE applied[<<i, Pick(T)>>] + h[T \ {Pick(T)}]]
<1>1. \A h : Adds(h, f, Ids) <=> h = F(h)
  <2>1. \A T \in SUBSET Ids : T # {} => Pick(T) \in Ids
    BY PickIn
  <2> QED BY <2>1 DEF Adds, FromSource
<1>2. MapThenSumSet(LAMBDA j : applied[<<i, j>>], Ids) = (CHOOSE h : h = F(h))[Ids]
  BY DEF MapThenSumSet, MapThenFoldSet, Pick
<1>3. PICK g : Adds(g, f, Ids) /\ Total(f, Ids) = g[Ids]
  BY IdsFinite, TotalAdds
<1>4. g = F(g)
  BY <1>1, <1>3
<1> HIDE DEF F, f
<1>5. Adds(CHOOSE h : h = F(h), f, Ids)
  BY <1>1, <1>4
<1>6. (CHOOSE h : h = F(h))[Ids] = g[Ids]
  BY <1>3, <1>5, IdsFinite, AddsOnce
<1> QED
  BY <1>2, <1>3, <1>6 DEF f

LEMMA SumIs == \A i : Sum(i) = SumOf(rows, applied, i)
<1> SUFFICES ASSUME NEW i PROVE Sum(i) = SumOf(rows, applied, i)
  OBVIOUS
<1>1. CASE rows[i].type = "invoice"
  <2>1. Sum(i) = MapThenSumSet(LAMBDA j : applied[<<j, i>>], Ids)
    BY <1>1 DEF Sum
  <2> QED BY <1>1, <2>1, SumTo DEF SumOf
<1>2. CASE rows[i].type # "invoice"
  <2>1. Sum(i) = MapThenSumSet(LAMBDA j : applied[<<i, j>>], Ids)
    BY <1>2 DEF Sum
  <2> QED BY <1>2, <2>1, SumFrom DEF SumOf
<1> QED
  BY <1>1, <1>2

LEMMA SumNext == (\A i : Sum(i) = SumOf(rows, applied, i))'
BY SumIs, PTL

LEMMA NatInts == ASSUME NEW S, NEW f, \A j \in S : f[j] \in Nat PROVE Ints(f, S)
BY DEF Ints

\* What is applied, and what is given to some of the rows
Ledgers == [Ids \X Ids -> Nat]
PartOf(V) == UNION {[I -> V] : I \in SUBSET Ids}

LEMMA PartIs ==
  ASSUME NEW V, NEW f \in PartOf(V)
  PROVE  DOMAIN f \in SUBSET Ids /\ f \in [DOMAIN f -> V] /\ IsFiniteSet(DOMAIN f)
<1>1. DOMAIN f \in SUBSET Ids /\ f \in [DOMAIN f -> V]
  BY DEF PartOf
<1> QED
  BY <1>1, IdsFinite, FS_Subset

LEMMA PartTyped ==
  ASSUME NEW V, NEW I \in SUBSET Ids, NEW f \in [I -> V]
  PROVE  f \in PartOf(V)
BY DEF PartOf

\* Applying, as an operator of what is applied
Applies(app, from, share) ==
  [p \in Ids \X Ids |->
     app[p] + IF p[1] = from /\ p[2] \in DOMAIN share THEN share[p[2]] ELSE 0]

\* what one application adds to the invoice, and to its source
LEMMA ApplyTo ==
  ASSUME NEW app \in Ledgers, NEW from \in Ids, NEW share \in PartOf(Nat), NEW i \in Ids,
         NEW app2, app2 = Applies(app, from, share)
  PROVE  Total(ToInvoice(app2, i), Ids)
           = Total(ToInvoice(app, i), Ids) + (IF i \in DOMAIN share THEN share[i] ELSE 0)
<1> DEFINE I == DOMAIN share
           more == IF i \in I THEN share[i] ELSE 0
           f == ToInvoice(app, i)
           g == ToInvoice(app2, i)
           h == [j \in {from} |-> more]
<1>9. share \in [I -> Nat] /\ app \in [Ids \X Ids -> Nat]
  BY PartIs DEF Ledgers
<1>1. more \in Nat
  BY <1>9
<1>2. \A j \in Ids : f[j] = app[<<j, i>>] /\ f[j] \in Nat
  BY <1>9 DEF ToInvoice
<1>3. \A j \in Ids : g[j] = f[j] + (IF j \in {from} THEN h[j] ELSE 0)
  <2> SUFFICES ASSUME NEW j \in Ids PROVE g[j] = f[j] + (IF j \in {from} THEN h[j] ELSE 0)
    OBVIOUS
  <2>1. g[j] = app[<<j, i>>] + IF j = from /\ i \in I THEN share[i] ELSE 0
    BY <1>9 DEF ToInvoice, Applies
  <2>2. f[j] = app[<<j, i>>] /\ f[j] \in Nat
    BY <1>2
  <2>3. CASE j = from
    BY <2>1, <2>2, <2>3
  <2>4. CASE j # from
    BY <2>1, <2>2, <2>4
  <2> QED BY <2>3, <2>4
<1>0. h[from] = more
  OBVIOUS
<1> HIDE DEF f, g, h, more
<1>4. Ints(f, Ids) /\ Ints(h, {from}) /\ Ints(h, {}) /\ h[from] = more
  <2>1. Ints(f, Ids)
    <3>1. \A j \in Ids : f[j] \in Nat
      BY <1>2, Zenon
    <3> QED BY <3>1, NatInts
  <2>2. h[from] \in Int
    BY <1>0, <1>1
  <2> QED BY <1>0, <2>1, <2>2 DEF Ints
<1>5. Total(g, Ids) = Total(f, Ids) + Total(h, {from})
  <2>1. {from} \in SUBSET Ids
    OBVIOUS
  <2> QED BY <1>3, <1>4, <2>1, IdsFinite, TotalPlus
<1>6. Total(h, {from}) = more
  <2>1. {} \cup {from} = {from} /\ from \notin {} /\ IsFiniteSet({}) /\ h[from] \in Int
    BY <1>1, <1>4, FS_EmptySet
  <2>2. Total(h, {} \cup {from}) = Total(h, {}) + h[from]
    BY <1>4, <2>1, TotalAdd
  <2>3. Total(h, {}) = 0
    BY TotalEmpty
  <2> QED BY <1>1, <1>4, <2>1, <2>2, <2>3
<1> QED
  BY <1>5, <1>6 DEF f, g, more

LEMMA ApplyFrom ==
  ASSUME NEW app \in Ledgers, NEW from \in Ids, NEW share \in PartOf(Nat), NEW i \in Ids,
         NEW app2, app2 = Applies(app, from, share)
  PROVE  Total(FromSource(app2, i), Ids)
           = Total(FromSource(app, i), Ids) + (IF i = from THEN Total(share, DOMAIN share) ELSE 0)
<1> DEFINE I == DOMAIN share
           f == FromSource(app, i)
           g == FromSource(app2, i)
<1>9. share \in [I -> Nat] /\ I \in SUBSET Ids /\ app \in [Ids \X Ids -> Nat]
  BY PartIs DEF Ledgers
<1>1. \A j \in Ids : f[j] = app[<<i, j>>] /\ f[j] \in Nat
  BY <1>9 DEF FromSource
<1>2. \A j \in Ids : g[j] = app[<<i, j>>] + IF i = from /\ j \in I THEN share[j] ELSE 0
  BY <1>9 DEF FromSource, Applies
<1> HIDE DEF f, g
<1>3. Ints(f, Ids) /\ Ints(share, I)
  <2>1. \A j \in Ids : f[j] \in Nat
    BY <1>1, Zenon
  <2>2. \A j \in I : share[j] \in Nat
    BY <1>9
  <2> QED BY <2>1, <2>2, NatInts
<1>4. CASE i = from
  <2>1. \A j \in Ids : g[j] = f[j] + (IF j \in I THEN share[j] ELSE 0)
    BY <1>1, <1>2, <1>4
  <2>2. Total(g, Ids) = Total(f, Ids) + Total(share, I)
    BY <1>3, <2>1, IdsFinite, <1>9, TotalPlus
  <2> QED BY <1>4, <2>2 DEF f, g
<1>5. CASE i # from
  <2>1. \A j \in Ids : g[j] = f[j]
    <3> SUFFICES ASSUME NEW j \in Ids PROVE g[j] = f[j]
      OBVIOUS
    <3>1. g[j] = app[<<i, j>>] + 0 /\ f[j] = app[<<i, j>>] /\ f[j] \in Nat
      BY <1>1, <1>2, <1>5
    <3> QED BY <3>1
  <2>2. Total(g, Ids) = Total(f, Ids)
    BY <1>3, <2>1, IdsFinite, TotalSame
  <2>3. Total(f, Ids) \in Int
    BY <1>3, IdsFinite, TotalInt
  <2> QED BY <1>5, <2>2, <2>3 DEF f, g
<1> QED
  BY <1>4, <1>5

LEMMA SumNat ==
  ASSUME NEW R, NEW app \in [Ids \X Ids -> Nat], NEW i \in Ids
  PROVE  /\ SumOf(R, app, i) \in Nat
         /\ Total(ToInvoice(app, i), Ids) \in Nat /\ Total(FromSource(app, i), Ids) \in Nat
<1>1. /\ \A j \in Ids : ToInvoice(app, i)[j] \in Nat
      /\ \A j \in Ids : FromSource(app, i)[j] \in Nat
  BY DEF ToInvoice, FromSource
<1>2. Total(ToInvoice(app, i), Ids) \in Nat
  BY <1>1, IdsFinite, TotalNat
<1>3. Total(FromSource(app, i), Ids) \in Nat
  BY <1>1, IdsFinite, TotalNat
<1> QED
  BY <1>2, <1>3 DEF SumOf

----------------------------------------------------------------------------
(* The least and the greatest of a few numbers.                              *)

LEMMA MinOfTwo ==
  ASSUME NEW a \in Int, NEW b \in Int
  PROVE  Min({a, b}) = IF a <= b THEN a ELSE b
<1> DEFINE m == IF a <= b THEN a ELSE b
<1>1. m \in {a, b} /\ \A y \in {a, b} : m <= y
  OBVIOUS
<1>2. \A x \in {a, b} : (\A y \in {a, b} : x <= y) => x = m
  BY <1>1
<1> HIDE DEF m
<1>3. Min({a, b}) = m
  BY <1>1, <1>2 DEF Min
<1> QED
  BY <1>3 DEF m

LEMMA MinOfThree ==
  ASSUME NEW a \in Int, NEW b \in Int, NEW c \in Int
  PROVE  /\ Min({a, b, c}) \in {a, b, c}
         /\ Min({a, b, c}) <= a /\ Min({a, b, c}) <= b /\ Min({a, b, c}) <= c
<1> DEFINE n == IF a <= b THEN a ELSE b
           m == IF n <= c THEN n ELSE c
<1>1. m \in {a, b, c} /\ \A y \in {a, b, c} : m <= y
  OBVIOUS
<1>2. \A x \in {a, b, c} : (\A y \in {a, b, c} : x <= y) => x = m
  BY <1>1
<1> HIDE DEF m
<1>3. Min({a, b, c}) = m
  BY <1>1, <1>2 DEF Min
<1> QED
  BY <1>1, <1>3

LEMMA MaxOfZero ==
  ASSUME NEW a \in Int
  PROVE  Max({0, a}) = IF a > 0 THEN a ELSE 0
<1> DEFINE m == IF a > 0 THEN a ELSE 0
<1>1. m \in {0, a} /\ \A y \in {0, a} : m >= y
  OBVIOUS
<1>2. \A x \in {0, a} : (\A y \in {0, a} : x >= y) => x = m
  BY <1>1
<1> HIDE DEF m
<1>3. Max({0, a}) = m
  BY <1>1, <1>2 DEF Max
<1> QED
  BY <1>3 DEF m

LEMMA MinOfAll ==
  ASSUME NEW a \in Int, NEW b \in Int, a <= b
  PROVE  Min(a..b) = a
<1>1. a \in a..b /\ \A y \in a..b : a <= y
  OBVIOUS
<1>2. \A x \in a..b : (\A y \in a..b : x <= y) => x = a
  BY <1>1
<1> QED
  BY <1>1, <1>2 DEF Min

\* No more is applied than asked for and than is left on either side.
LEMMA ApplicableBounds ==
  ASSUME NEW asked \in Int, NEW from \in Int, NEW to \in Int
  PROVE  /\ Applicable(asked, from, to) \in Nat
         /\ Applicable(asked, from, to) > 0 =>
              /\ Applicable(asked, from, to) <= asked
              /\ Applicable(asked, from, to) <= from
              /\ Applicable(asked, from, to) <= to
         /\ asked > 0 /\ from > 0 /\ to > 0 => Applicable(asked, from, to) \in {asked, from, to}
<1> DEFINE m == Min({asked, from, to})
<1>1. m \in {asked, from, to} /\ m <= asked /\ m <= from /\ m <= to
  BY MinOfThree
<1> HIDE DEF m
<1>2. m \in Int
  BY <1>1
<1>3. Max({0, m}) = IF m > 0 THEN m ELSE 0
  BY <1>2, MaxOfZero
<1>4. Applicable(asked, from, to) = Max({0, m})
  BY DEF Applicable, m
<1> QED
  BY <1>1, <1>2, <1>3, <1>4

----------------------------------------------------------------------------
(* The types, with those of requests under way.                              *)

RowRecord == [type : {"invoice", "credit_memo", "received_payment"},
              total : Nat, status : {"open", "posted", "completed"}, due : 0..LastDate]
Rules == [amount : Prices, next : 1..(LastDate + 1), end : 1..LastDate, active : BOOLEAN]
Charges == [dates : {a..b : a \in 1..LastDate, b \in 0..LastDate}, amount : Prices,
            next : 1..(LastDate + 1)]

Statuses == {"open", "posted", "completed"}
Payments == [total : Nat, share : PartOf(Nat), status : PartOf(Statuses)]
Credits == [from : Ids, share : PartOf(Nat), status : PartOf(Statuses)]

Ask(op, P) == [op : {op}, put : P, fresh : BOOLEAN]
BillingRequest == Ask("idle", {None}) \cup Ask("generate", Charges) \cup Ask("update", Rules)
           \cup Ask("pay", Payments) \cup Ask("credit", Credits)

Shape == TypeOK /\ slot \in [Slots -> BillingRequest]

LEMMA RequestIs ==
  ASSUME NEW r \in BillingRequest
  PROVE  /\ r.op \in {"idle", "generate", "update", "pay", "credit"}
         /\ r.fresh \in BOOLEAN
         /\ r.op = "generate" => r.put \in Charges
         /\ r.op = "update" => r.put \in Rules
         /\ r.op = "pay" => r.put \in Payments
         /\ r.op = "credit" => r.put \in Credits
BY DEF BillingRequest, Ask

LEMMA RequestTyped ==
  ASSUME NEW op, NEW P, NEW put \in P, NEW fresh \in BOOLEAN,
         Ask(op, P) \subseteq BillingRequest
  PROVE  [op |-> op, put |-> put, fresh |-> fresh] \in BillingRequest
BY DEF Ask

LEMMA RowsFacts ==
  Shape => /\ Len(rows) \in Nat /\ DOMAIN rows = 1..Len(rows)
           /\ DOMAIN rows \subseteq Ids /\ IsFiniteSet(DOMAIN rows)
           /\ \A i \in DOMAIN rows : rows[i] \in RowRecord
<1> SUFFICES ASSUME Shape
             PROVE  /\ Len(rows) \in Nat /\ DOMAIN rows = 1..Len(rows)
                    /\ DOMAIN rows \subseteq Ids /\ IsFiniteSet(DOMAIN rows)
                    /\ \A i \in DOMAIN rows : rows[i] \in RowRecord
  OBVIOUS
<1>1. rows \in Seq(RowRecord) /\ Len(rows) <= MaxRows
  BY DEF Shape, TypeOK, RowRecord
<1>2. Len(rows) \in Nat /\ DOMAIN rows = 1..Len(rows)
  BY <1>1, LenProperties
<1>3. \A i \in DOMAIN rows : rows[i] \in RowRecord
  BY <1>1, <1>2
<1>4. DOMAIN rows \subseteq Ids
  BY <1>1, <1>2, IdsFinite DEF Ids
<1> QED
  BY <1>2, <1>3, <1>4, IdsFinite, FS_Subset

LEMMA RowIs ==
  ASSUME NEW row \in RowRecord
  PROVE  /\ row.type \in {"invoice", "credit_memo", "received_payment"} /\ row.total \in Nat
         /\ row.status \in Statuses /\ row.due \in 0..LastDate
BY DEF RowRecord, Statuses

LEMMA SyncedIs ==
  ASSUME NEW row, NEW sum
  PROVE  Synced(row, sum) \in Statuses /\ (Synced(row, sum) = "completed" => sum >= row.total)
BY DEF Synced, Statuses

LEMMA RestIs ==
  Shape => \A i \in DOMAIN rows :
    /\ Sum(i) \in Nat /\ Rest(i) \in Nat /\ rows[i].total \in Nat
    /\ Rest(i) = IF rows[i].total > Sum(i) THEN rows[i].total - Sum(i) ELSE 0
<1> SUFFICES ASSUME Shape, NEW i \in DOMAIN rows
             PROVE  /\ Sum(i) \in Nat /\ Rest(i) \in Nat /\ rows[i].total \in Nat
                    /\ Rest(i) = IF rows[i].total > Sum(i) THEN rows[i].total - Sum(i) ELSE 0
  OBVIOUS
<1>1. i \in Ids /\ rows[i].total \in Nat
  BY RowsFacts, RowIs
<1>2. Sum(i) \in Nat
  <2>1. applied \in [Ids \X Ids -> Nat]
    BY DEF Shape, TypeOK
  <2>2. SumOf(rows, applied, i) \in Nat
    BY <1>1, <2>1, SumNat
  <2> QED BY <2>2, SumIs
<1>3. rows[i].total - Sum(i) \in Int
  BY <1>1, <1>2
<1>4. Rest(i) = IF rows[i].total - Sum(i) > 0 THEN rows[i].total - Sum(i) ELSE 0
  <2> DEFINE d == rows[i].total - Sum(i)
  <2>1. Rest(i) = Max({0, d})
    BY DEF Rest
  <2>2. d \in Int
    BY <1>3
  <2> HIDE DEF d
  <2>3. Rest(i) = IF d > 0 THEN d ELSE 0
    BY <2>1, <2>2, MaxOfZero
  <2> QED BY <2>3 DEF d
<1> QED
  BY <1>1, <1>2, <1>4

\* What is left of each row, and in all.
Rests == [j \in DOMAIN rows |-> Rest(j)]

LEMMA RestsIs ==
  ASSUME Shape, NEW I \in SUBSET DOMAIN rows
  PROVE  /\ MapThenSumSet(Rest, I) = Total(Rests, I)
         /\ Total(Rests, I) \in Nat
         /\ \A j \in DOMAIN rows : Rests[j] = Rest(j) /\ Rests[j] \in Nat
<1> DEFINE F(h) == [T \in SUBSET I |-> IF T = {} THEN 0 ELSE Rest(Pick(T)) + h[T \ {Pick(T)}]]
<1>0. IsFiniteSet(I)
  BY RowsFacts, FS_Subset
<1>1. \A j \in DOMAIN rows : Rests[j] = Rest(j) /\ Rests[j] \in Nat
  BY RestIs DEF Rests
<1>2. \A h : Adds(h, Rests, I) <=> h = F(h)
  <2>1. \A T \in SUBSET I : T # {} => Rests[Pick(T)] = Rest(Pick(T))
    BY <1>1, PickIn
  <2> QED BY <2>1 DEF Adds
<1>3. MapThenSumSet(Rest, I) = (CHOOSE h : h = F(h))[I]
  BY DEF MapThenSumSet, MapThenFoldSet, Pick
<1>4. PICK g : Adds(g, Rests, I) /\ Total(Rests, I) = g[I]
  BY <1>0, TotalAdds
<1>5. g = F(g)
  BY <1>2, <1>4
<1> HIDE DEF F
<1>6. Adds(CHOOSE h : h = F(h), Rests, I)
  BY <1>2, <1>5
<1>7. (CHOOSE h : h = F(h))[I] = g[I]
  BY <1>0, <1>4, <1>6, AddsOnce
<1>8. Total(Rests, I) \in Nat
  BY <1>0, <1>1, TotalNat
<1> QED
  BY <1>1, <1>3, <1>4, <1>7, <1>8

----------------------------------------------------------------------------
(* What a payment and a credit are about to do.                              *)

Spent(share) == Total(share, DOMAIN share)

\* what row i is given: an invoice its share, the credit memo all that is spent
Given(put, i) == IF i \in DOMAIN put.share THEN put.share[i] ELSE Spent(put.share)

Settling(r) ==
  /\ DOMAIN r.put.share \subseteq OfType("invoice")
  /\ r.op = "pay" => /\ DOMAIN r.put.status \subseteq DOMAIN r.put.share
                     /\ Spent(r.put.share) <= r.put.total
  /\ r.op = "credit" => /\ r.put.from \in OfType("credit_memo")
                        /\ DOMAIN r.put.status \subseteq DOMAIN r.put.share \cup {r.put.from}
  /\ \A i \in DOMAIN r.put.status :
       r.put.status[i] = "completed" => rows[i].total <= Sum(i) + Given(r.put, i)

Fitting(r) ==
  r.fresh => /\ \A i \in DOMAIN r.put.share : r.put.share[i] <= Rest(i)
             /\ r.op = "credit" => Spent(r.put.share) <= Rest(r.put.from)

LEMMA ApplicableLeft ==
  ASSUME NEW left \in Int, NEW rest \in Nat
  PROVE  Applicable(left, left, rest)
           = IF left <= 0 THEN 0 ELSE IF left <= rest THEN left ELSE rest
<1> DEFINE a == Applicable(left, left, rest)
<1>1. /\ a \in Nat
      /\ a > 0 => a <= left /\ a <= rest
      /\ left > 0 /\ rest > 0 => a \in {left, rest}
  BY ApplicableBounds
<1> HIDE DEF a
<1>2. a = IF left <= 0 THEN 0 ELSE IF left <= rest THEN left ELSE rest
  BY <1>1
<1> QED
  BY <1>2 DEF a

LEMMA SettledIs ==
  ASSUME NEW I, NEW share, DOMAIN share = I
  PROVE  /\ DOMAIN Settled(share) \subseteq I
         /\ Settled(share) \in [DOMAIN Settled(share) -> Statuses]
         /\ \A i \in DOMAIN Settled(share) :
              Settled(share)[i] = "completed" => Sum(i) + share[i] >= rows[i].total
<1> DEFINE now == [i \in I |-> Synced(rows[i], Sum(i) + share[i])]
           S == {i \in I : share[i] > 0 /\ now[i] # rows[i].status}
<1>1. Settled(share) = [i \in S |-> now[i]]
  BY DEF Settled, Restrict
<1>2. \A i \in I : now[i] \in Statuses
                   /\ (now[i] = "completed" => Sum(i) + share[i] >= rows[i].total)
  BY SyncedIs
<1>3. S \subseteq I
  OBVIOUS
<1> HIDE DEF now, S
<1> QED
  BY <1>1, <1>2, <1>3

\* Paying what is asked from the first invoice on, in all no more than is asked.
LEMMA SharesIs ==
  ASSUME Shape, NEW I \in SUBSET OfType("invoice"), NEW asked \in Nat,
         NEW share, share = Shares(I, asked)
  PROVE  /\ share \in [I -> Nat]
         /\ \A i \in I : share[i] <= Rest(i)
         /\ Total(share, I) <= asked
<1> DEFINE T(n) == {j \in I : j < n}
           R(n) == Total(Rests, T(n))
<1>1. /\ I \subseteq DOMAIN rows /\ I \subseteq Ids /\ IsFiniteSet(I)
      /\ \A i \in I : i \in Nat \ {0} /\ i <= MaxRows /\ Rest(i) \in Nat
  <2>1. I \subseteq DOMAIN rows
    BY DEF OfType
  <2>2. I \subseteq Ids /\ IsFiniteSet(I)
    BY <2>1, RowsFacts, FS_Subset
  <2> QED BY <2>1, <2>2, RestIs, IdsFinite DEF Ids
<1>2. ASSUME NEW n \in Nat
      PROVE  R(n) \in Nat /\ MapThenSumSet(Rest, T(n)) = R(n) /\ IsFiniteSet(T(n))
  <2>1. T(n) \in SUBSET DOMAIN rows /\ T(n) \in SUBSET I
    BY <1>1
  <2> QED BY <1>1, <2>1, RestsIs, FS_Subset
<1>3. ASSUME NEW i \in I
      PROVE  share[i] = IF asked - R(i) <= 0 THEN 0
                        ELSE IF asked - R(i) <= Rest(i) THEN asked - R(i) ELSE Rest(i)
  <2> DEFINE left == asked - MapThenSumSet(Rest, T(i))
  <2>1. share[i] = Applicable(left, left, Rest(i))
    BY DEF Shares
  <2>2. left = asked - R(i) /\ left \in Int /\ Rest(i) \in Nat
    <3> HIDE DEF R, T
    <3>1. i \in Nat /\ Rest(i) \in Nat
      BY <1>1, Zenon
    <3>2. R(i) \in Nat /\ MapThenSumSet(Rest, T(i)) = R(i)
      BY <1>2, <3>1, Zenon
    <3> QED BY <3>1, <3>2
  <2> HIDE DEF left, T
  <2>3. share[i] = IF left <= 0 THEN 0 ELSE IF left <= Rest(i) THEN left ELSE Rest(i)
    BY <2>1, <2>2, ApplicableLeft
  <2> QED BY <2>2, <2>3
<1> HIDE DEF R
<1>4. ASSUME NEW i \in I PROVE share[i] \in Nat /\ share[i] <= Rest(i)
  <2>1. i \in Nat /\ Rest(i) \in Nat
    BY <1>1, Zenon
  <2>2. R(i) \in Nat
    BY <1>2, <2>1, Zenon
  <2> QED BY <1>3, <2>1, <2>2
<1>5. share \in [I -> Nat]
  <2>1. DOMAIN share = I /\ share = [i \in I |-> share[i]]
    BY DEF Shares
  <2> QED BY <1>4, <2>1
<1> DEFINE B == {n \in Nat : Total(share, T(n)) = IF asked <= R(n) THEN asked ELSE R(n)}
<1>6. 0 \in B
  <2>1. T(0) = {}
    BY <1>1
  <2>2. R(0) = 0 /\ Total(share, T(0)) = 0
    BY <2>1, TotalEmpty DEF R
  <2> QED BY <2>2
<1>7. ASSUME NEW n \in B PROVE n + 1 \in B
  <2>0. n \in Nat /\ n + 1 \in Nat /\ Total(share, T(n)) = IF asked <= R(n) THEN asked ELSE R(n)
    OBVIOUS
  <2>1. R(n) \in Nat /\ IsFiniteSet(T(n)) /\ n \notin T(n) /\ T(n) \subseteq I
    BY <1>2
  <2>2. CASE n \in I
    <3>1. T(n + 1) = T(n) \cup {n}
      BY <1>1, <2>2
    <3>2. Ints(share, T(n)) /\ Ints(Rests, T(n)) /\ share[n] \in Int /\ Rests[n] \in Int
          /\ Rests[n] = Rest(n) /\ Rest(n) \in Nat
      <4>1. \A j \in T(n) : share[j] \in Nat
        BY <1>4
      <4>2. \A j \in DOMAIN rows : Rests[j] = Rest(j) /\ Rests[j] \in Nat
        BY RestsIs
      <4>3. \A j \in T(n) : Rests[j] \in Nat
        BY <1>1, <4>2
      <4>4. Ints(share, T(n)) /\ Ints(Rests, T(n))
        BY <4>1, <4>3, NatInts
      <4> QED BY <1>1, <1>4, <2>2, <4>2, <4>4
    <3> HIDE DEF T
    <3>3. Total(share, T(n + 1)) = Total(share, T(n)) + share[n]
      BY <2>1, <3>1, <3>2, TotalAdd
    <3>4. R(n + 1) = R(n) + Rest(n)
      BY <2>1, <3>1, <3>2, TotalAdd DEF R
    <3>5. Total(share, T(n + 1)) = IF asked <= R(n + 1) THEN asked ELSE R(n + 1)
      BY <1>3, <2>0, <2>1, <2>2, <3>2, <3>3, <3>4
    <3> QED BY <2>0, <3>5
  <2>3. CASE n \notin I
    <3>1. T(n + 1) = T(n)
      BY <1>1, <2>3
    <3> HIDE DEF T
    <3>2. Total(share, T(n + 1)) = Total(share, T(n)) /\ R(n + 1) = R(n)
      BY <3>1 DEF R
    <3> QED BY <2>0, <3>2
  <2> QED BY <2>2, <2>3
<1>8. B = Nat
  <2>1. B \in SUBSET Nat
    OBVIOUS
  <2> HIDE DEF B
  <2> QED BY <1>6, <1>7, <2>1, NumberInduction
<1>9. T(MaxRows + 1) = I /\ MaxRows + 1 \in Nat
  BY <1>1, IdsFinite
<1> HIDE DEF T
<1>10. Total(share, I) <= asked
  <2>1. R(MaxRows + 1) \in Nat
    BY <1>2, <1>9
  <2>2. Total(share, T(MaxRows + 1))
          = IF asked <= R(MaxRows + 1) THEN asked ELSE R(MaxRows + 1)
    BY <1>8, <1>9
  <2> QED BY <1>9, <2>1, <2>2
<1> QED
  BY <1>4, <1>5, <1>10

LEMMA TotalOne ==
  ASSUME NEW f, NEW x, f[x] \in Int
  PROVE  Total(f, {x}) = f[x]
<1>1. IsFiniteSet({}) /\ Ints(f, {}) /\ x \notin {} /\ {} \cup {x} = {x}
  BY FS_EmptySet DEF Ints
<1>2. Total(f, {} \cup {x}) = Total(f, {}) + f[x]
  BY <1>1, TotalAdd
<1>3. Total(f, {}) = 0
  BY TotalEmpty
<1> QED
  BY <1>1, <1>2, <1>3

LEMMA Asking ==
  ASSUME NEW put, NEW fresh \in BOOLEAN
  PROVE  /\ put \in Charges => [op |-> "generate", put |-> put, fresh |-> fresh] \in BillingRequest
         /\ put \in Rules => [op |-> "update", put |-> put, fresh |-> fresh] \in BillingRequest
         /\ put \in Payments => [op |-> "pay", put |-> put, fresh |-> fresh] \in BillingRequest
         /\ put \in Credits => [op |-> "credit", put |-> put, fresh |-> fresh] \in BillingRequest
         /\ [op |-> "idle", put |-> None, fresh |-> fresh] \in BillingRequest
BY DEF BillingRequest, Ask

LEMMA PayRequest ==
  ASSUME Shape, NEW I \in SUBSET OfType("invoice"), NEW asked \in Nat,
         NEW share, share = Shares(I, asked), NEW r,
         r = [op |-> "pay", fresh |-> TRUE,
              put |-> [total |-> asked, share |-> share, status |-> Settled(share)]]
  PROVE  r \in BillingRequest /\ Settling(r) /\ Fitting(r)
<1> DEFINE put == [total |-> asked, share |-> share, status |-> Settled(share)]
<1>1. /\ share \in [I -> Nat] /\ DOMAIN share = I
      /\ \A i \in I : share[i] <= Rest(i)
      /\ Total(share, I) <= asked
  BY SharesIs
<1>2. I \subseteq Ids
  BY RowsFacts DEF OfType
<1>3. /\ DOMAIN Settled(share) \subseteq I
      /\ Settled(share) \in [DOMAIN Settled(share) -> Statuses]
      /\ \A i \in DOMAIN Settled(share) :
           Settled(share)[i] = "completed" => Sum(i) + share[i] >= rows[i].total
  BY <1>1, SettledIs
<1>4. put \in Payments
  <2>1. share \in PartOf(Nat)
    BY <1>1, <1>2, PartTyped
  <2>2. Settled(share) \in PartOf(Statuses)
    <3>1. DOMAIN Settled(share) \in SUBSET Ids
      BY <1>2, <1>3
    <3> QED BY <1>3, <3>1, PartTyped
  <2> QED BY <2>1, <2>2 DEF Payments
<1>5. r \in BillingRequest
  BY <1>4, Asking
<1>6. r.op = "pay" /\ r.put = put /\ r.put.share = share /\ r.put.status = Settled(share)
      /\ r.put.total = asked
  OBVIOUS
<1> HIDE DEF put
<1>7. ASSUME NEW i \in DOMAIN r.put.status, r.put.status[i] = "completed"
      PROVE  rows[i].total <= Sum(i) + Given(r.put, i)
  <2>1. i \in I /\ Sum(i) + share[i] >= rows[i].total
    BY <1>3, <1>6, <1>7
  <2>2. Given(r.put, i) = share[i]
    BY <1>1, <1>6, <2>1 DEF Given
  <2>3. Sum(i) \in Nat /\ rows[i].total \in Nat /\ share[i] \in Nat
    BY <1>1, <2>1, RestIs DEF OfType
  <2> QED BY <2>1, <2>2, <2>3
<1>8. Settling(r)
  <2>1. Spent(r.put.share) <= r.put.total
    BY <1>1, <1>6 DEF Spent
  <2> QED BY <1>1, <1>3, <1>6, <1>7, <2>1 DEF Settling
<1>9. Fitting(r)
  BY <1>1, <1>6 DEF Fitting
<1> QED
  BY <1>5, <1>8, <1>9

LEMMA CreditRequest ==
  ASSUME Shape, NEW c \in OfType("credit_memo"), NEW i \in OfType("invoice"),
         NEW asked \in Nat,
         NEW share, share = [j \in {i} |-> Applicable(asked, Rest(c), Rest(i))],
         NEW used, used = Synced(rows[c], Sum(c) + share[i]),
         NEW changed, changed = DOMAIN Settled(share)
                                  \cup (IF used # rows[c].status THEN {c} ELSE {}),
         NEW status,
         status = [j \in changed |-> IF j = c THEN used ELSE Settled(share)[j]],
         NEW put, put = [from |-> c, share |-> share, status |-> status],
         NEW r, r = [op |-> "credit", put |-> put, fresh |-> TRUE]
  PROVE  r \in BillingRequest /\ Settling(r) /\ Fitting(r)
<1>1. /\ c \in DOMAIN rows /\ i \in DOMAIN rows /\ c # i /\ c \in Ids /\ i \in Ids
      /\ Rest(c) \in Nat /\ Rest(i) \in Nat /\ Sum(c) \in Nat /\ Sum(i) \in Nat
      /\ rows[c].total \in Nat /\ rows[i].total \in Nat
  BY RowsFacts, RestIs DEF OfType
<1>2. /\ DOMAIN share = {i} /\ share \in [{i} -> Nat] /\ share[i] \in Nat
      /\ share[i] <= Rest(c) /\ share[i] <= Rest(i)
  <2> DEFINE a == Applicable(asked, Rest(c), Rest(i))
  <2>1. a \in Nat /\ (a > 0 => a <= Rest(c) /\ a <= Rest(i))
    BY <1>1, ApplicableBounds
  <2> HIDE DEF a
  <2>2. share = [j \in {i} |-> a]
    BY DEF a
  <2> QED BY <1>1, <2>1, <2>2
<1>3. /\ DOMAIN Settled(share) \subseteq {i}
      /\ Settled(share) \in [DOMAIN Settled(share) -> Statuses]
      /\ \A j \in DOMAIN Settled(share) :
           Settled(share)[j] = "completed" => Sum(j) + share[j] >= rows[j].total
  BY <1>2, SettledIs
<1>4. used \in Statuses /\ (used = "completed" => Sum(c) + share[i] >= rows[c].total)
  BY SyncedIs
<1>5. changed \subseteq {i, c}
  BY <1>3
<1>6. \A j \in changed : status[j] \in Statuses
  BY <1>3, <1>4
<1>7. Spent(share) = share[i]
  BY <1>2, TotalOne DEF Spent
<1>8. put \in Credits
  <2>1. share \in PartOf(Nat)
    BY <1>1, <1>2, PartTyped
  <2>2. status \in PartOf(Statuses)
    <3>1. changed \in SUBSET Ids /\ status \in [changed -> Statuses]
      BY <1>1, <1>5, <1>6
    <3> QED BY <3>1, PartTyped
  <2> QED BY <1>1, <2>1, <2>2 DEF Credits
<1>9. r \in BillingRequest
  BY <1>8, Asking
<1>10. /\ r.op = "credit" /\ r.put = put /\ r.put.share = share /\ r.put.from = c
       /\ r.put.status = status /\ DOMAIN status = changed
  OBVIOUS
<1>11. ASSUME NEW j \in changed, status[j] = "completed"
       PROVE  rows[j].total <= Sum(j) + Given(r.put, j)
  <2>1. CASE j = c
    <3>1. used = "completed"
      BY <1>11, <2>1
    <3>2. Given(r.put, j) = share[i]
      BY <1>1, <1>2, <1>7, <1>10, <2>1 DEF Given
    <3> QED BY <1>1, <1>2, <1>4, <2>1, <3>1, <3>2
  <2>2. CASE j # c
    <3>1. j = i /\ j \in DOMAIN Settled(share) /\ Settled(share)[j] = "completed"
      BY <1>5, <1>11, <2>2
    <3>2. Given(r.put, j) = share[i]
      BY <1>2, <1>10, <3>1 DEF Given
    <3>3. Sum(i) + share[i] >= rows[i].total
      BY <1>3, <3>1
    <3> QED BY <1>1, <1>2, <3>1, <3>2, <3>3
  <2> QED BY <2>1, <2>2
<1>12. Settling(r)
  <2>1. DOMAIN r.put.share = {i} /\ DOMAIN r.put.status = changed
    BY <1>2, <1>10
  <2> QED BY <1>5, <1>10, <1>11, <2>1 DEF Settling
<1>13. Fitting(r)
  BY <1>2, <1>7, <1>10 DEF Fitting
<1> QED
  BY <1>9, <1>12, <1>13

----------------------------------------------------------------------------
(* What steps leave.                                                         *)

LEMMA CommitIs ==
  ASSUME Shape, NEW s \in Slots, NEW kind, Commit(s, kind)
  PROVE  /\ slot' \in [Slots -> BillingRequest] /\ stale' \in BOOLEAN
         /\ stale' = (stale \/ ~slot[s].fresh)
         /\ \A t \in Slots : slot'[t].op # "idle" =>
              /\ t # s /\ slot'[t].op = slot[t].op /\ slot'[t].put = slot[t].put
              /\ slot'[t].fresh => slot[t].fresh /\ slot[t].op \notin kind
<1> DEFINE busy == [slot EXCEPT ![s] = Idle]
<1>1. slot \in [Slots -> BillingRequest] /\ stale \in BOOLEAN
  BY DEF Shape, TypeOK
<1>2. Idle \in BillingRequest /\ Idle.op = "idle"
  BY Asking DEF Idle
<1>3. ASSUME NEW t \in Slots PROVE busy[t] \in BillingRequest /\ busy[t] = IF t = s THEN Idle ELSE slot[t]
  BY <1>1, <1>2
<1> HIDE DEF busy
<1>4. slot' = [t \in Slots |-> IF busy[t].op \in kind
                               THEN [busy[t] EXCEPT !.fresh = FALSE] ELSE busy[t]]
  BY DEF Commit, Outdated, busy
<1>5. ASSUME NEW r \in BillingRequest
      PROVE  /\ [r EXCEPT !.fresh = FALSE] \in BillingRequest
             /\ [r EXCEPT !.fresh = FALSE].op = r.op /\ [r EXCEPT !.fresh = FALSE].put = r.put
             /\ ~[r EXCEPT !.fresh = FALSE].fresh
  BY DEF BillingRequest, Ask
<1>6. ASSUME NEW t \in Slots
      PROVE  /\ slot'[t] \in BillingRequest
             /\ slot'[t].op = busy[t].op /\ slot'[t].put = busy[t].put
             /\ slot'[t].fresh => busy[t].fresh /\ busy[t].op \notin kind
  <2>1. CASE busy[t].op \in kind
    <3>1. slot'[t] = [busy[t] EXCEPT !.fresh = FALSE]
      BY <1>4, <2>1
    <3> QED BY <1>3, <1>5, <3>1
  <2>2. CASE busy[t].op \notin kind
    <3>1. slot'[t] = busy[t]
      BY <1>4, <2>2
    <3> QED BY <1>3, <2>2, <3>1
  <2> QED BY <2>1, <2>2
<1>7. slot' \in [Slots -> BillingRequest]
  BY <1>4, <1>6
<1>8. stale' = (stale \/ ~slot[s].fresh) /\ stale' \in BOOLEAN
  BY <1>1 DEF Commit
<1>9. ASSUME NEW t \in Slots, slot'[t].op # "idle"
      PROVE  /\ t # s /\ slot'[t].op = slot[t].op /\ slot'[t].put = slot[t].put
             /\ slot'[t].fresh => slot[t].fresh /\ slot[t].op \notin kind
  <2>1. t # s /\ busy[t] = slot[t]
    BY <1>2, <1>3, <1>6, <1>9
  <2> QED BY <1>6, <2>1
<1> QED
  BY <1>7, <1>8, <1>9

LEMMA AwaitIs ==
  ASSUME Shape, NEW s \in Slots, NEW op, NEW put,
         NEW r, r = [op |-> op, put |-> put, fresh |-> TRUE], r \in BillingRequest, Await(s, op, put)
  PROVE  /\ slot' \in [Slots -> BillingRequest] /\ slot'[s] = r
         /\ \A t \in Slots : t # s => slot'[t] = slot[t]
         /\ rows' = rows /\ applied' = applied /\ rule' = rule /\ stale' = stale
<1>1. slot \in [Slots -> BillingRequest]
  BY DEF Shape
<1> QED
  BY <1>1 DEF Await

LEMMA AbortIs ==
  ASSUME Shape, NEW s \in Slots, Abort(s)
  PROVE  /\ slot' \in [Slots -> BillingRequest] /\ slot'[s].op = "idle"
         /\ \A t \in Slots : t # s => slot'[t] = slot[t]
         /\ rows' = rows /\ applied' = applied /\ rule' = rule /\ stale' = stale
<1>1. slot \in [Slots -> BillingRequest] /\ Idle \in BillingRequest /\ Idle.op = "idle"
  BY Asking DEF Shape, Idle
<1> QED
  BY <1>1 DEF Abort

LEMMA ShapeIs ==
  Shape <=> /\ rows \in Seq(RowRecord) /\ Len(rows) <= MaxRows
            /\ applied \in [Ids \X Ids -> Nat] /\ rule \in Rules
            /\ slot \in [Slots -> BillingRequest] /\ stale \in BOOLEAN
<1>1. slot \in [Slots -> BillingRequest] =>
        \A s \in Slots : slot[s].op \in {"idle", "generate", "update", "pay", "credit"}
  BY RequestIs
<1> QED
  BY <1>1 DEF Shape, TypeOK, RowRecord, Rules

LEMMA ShapeNext ==
  (Shape <=> /\ rows \in Seq(RowRecord) /\ Len(rows) <= MaxRows
             /\ applied \in [Ids \X Ids -> Nat] /\ rule \in Rules
             /\ slot \in [Slots -> BillingRequest] /\ stale \in BOOLEAN)'
BY ShapeIs, PTL

\* A row and what is written into it
LEMMA RowTyped ==
  ASSUME NEW type \in {"invoice", "credit_memo", "received_payment"}, NEW total \in Nat,
         NEW status \in Statuses, NEW due \in 0..LastDate
  PROVE  /\ Row(type, total, status, due) \in RowRecord
         /\ Row(type, total, status, due).type = type
         /\ Row(type, total, status, due).total = total
         /\ Row(type, total, status, due).status = status
         /\ Row(type, total, status, due).due = due
BY DEF Row, RowRecord, Statuses

LEMMA RowMarked ==
  ASSUME NEW row \in RowRecord, NEW st \in Statuses
  PROVE  /\ [row EXCEPT !.status = st] \in RowRecord
         /\ [row EXCEPT !.status = st].type = row.type
         /\ [row EXCEPT !.status = st].total = row.total
         /\ [row EXCEPT !.status = st].due = row.due
         /\ [row EXCEPT !.status = st].status = st
BY DEF RowRecord, Statuses

LEMMA SeqOf ==
  ASSUME NEW S, NEW n \in Nat, NEW f \in [1..n -> S]
  PROVE  f \in Seq(S) /\ Len(f) = n /\ DOMAIN f = 1..n
OBVIOUS

LEMMA MarkedIs ==
  ASSUME Shape, NEW status \in PartOf(Statuses), NEW R, R = Marked(status)
  PROVE  /\ R \in Seq(RowRecord) /\ Len(R) = Len(rows) /\ DOMAIN R = DOMAIN rows
         /\ \A i \in DOMAIN rows :
              /\ R[i].type = rows[i].type /\ R[i].total = rows[i].total
              /\ R[i].due = rows[i].due
              /\ R[i].status = IF i \in DOMAIN status THEN status[i] ELSE rows[i].status
<1>1. Len(rows) \in Nat /\ DOMAIN rows = 1..Len(rows)
      /\ \A i \in DOMAIN rows : rows[i] \in RowRecord
  BY RowsFacts
<1>2. DOMAIN R = 1..Len(rows)
  BY <1>1 DEF Marked
<1>3. ASSUME NEW i \in DOMAIN rows
      PROVE  /\ R[i] \in RowRecord
             /\ R[i].type = rows[i].type /\ R[i].total = rows[i].total
             /\ R[i].due = rows[i].due
             /\ R[i].status = IF i \in DOMAIN status THEN status[i] ELSE rows[i].status
  <2>1. CASE i \in DOMAIN status
    <3>1. R[i] = [rows[i] EXCEPT !.status = status[i]]
      BY <2>1 DEF Marked
    <3>2. status[i] \in Statuses
      BY <2>1, PartIs
    <3>3. rows[i] \in RowRecord
      BY <1>1
    <3> QED BY <2>1, <3>1, <3>2, <3>3, RowMarked
  <2>2. CASE i \notin DOMAIN status
    BY <1>1, <2>2 DEF Marked
  <2> QED BY <2>1, <2>2
<1>4. R \in [1..Len(rows) -> RowRecord]
  <2>1. R = [i \in 1..Len(rows) |-> R[i]]
    BY <1>1 DEF Marked
  <2> QED BY <1>1, <1>3, <2>1
<1>5. R \in Seq(RowRecord) /\ Len(R) = Len(rows)
  BY <1>1, <1>2, <1>4
<1> QED
  BY <1>1, <1>2, <1>3, <1>5

LEMMA ApplyingTyped ==
  ASSUME Shape, NEW from, NEW share \in PartOf(Nat)
  PROVE  Applying(from, share) \in [Ids \X Ids -> Nat]
<1>1. applied \in [Ids \X Ids -> Nat]
  BY DEF Shape, TypeOK
<1>2. \A i \in DOMAIN share : share[i] \in Nat
  BY PartIs
<1>3. ASSUME NEW p \in Ids \X Ids
      PROVE  applied[p] + (IF p[1] = from /\ p[2] \in DOMAIN share THEN share[p[2]] ELSE 0) \in Nat
  <2>1. applied[p] \in Nat
    BY <1>1
  <2> QED BY <1>2, <2>1
<1> QED
  BY <1>3 DEF Applying

\* The days from a to b, and what is charged for them.
LEMMA DaysCount ==
  ASSUME NEW a \in Int, NEW b \in Int
  PROVE  Cardinality(a..b) = IF b < a THEN 0 ELSE b - a + 1
BY FS_Interval

LEMMA RuleIs ==
  ASSUME NEW r \in Rules
  PROVE  /\ r.next \in 1..(LastDate + 1) /\ r.amount \in Prices /\ r.end \in 1..LastDate
         /\ r.amount \in Nat
BY BillingAssumption DEF Rules

\* What generateDueAgentBillingCharges is about to write: the days from the rule's next
\* date to some day b, and the day after it.
DaysFrom(put, next) ==
  \E b \in 0..LastDate : /\ put.dates = next..b
                         /\ put.next = IF b < next THEN next ELSE b + 1

LEMMA RuleRequest ==
  ASSUME Shape, NEW asOf \in 1..LastDate, rule.next <= asOf,
         NEW put, put = [dates |-> Due(asOf), amount |-> rule.amount, next |-> Cursor(asOf)]
  PROVE  put \in Charges /\ DaysFrom(put, rule.next)
<1>1. rule \in Rules /\ LastDate \in Nat
  BY BillingAssumption, ShapeIs
<1>2. rule.next \in 1..LastDate /\ rule.end \in 1..LastDate /\ rule.amount \in Prices
  BY <1>1, RuleIs
<1> DEFINE b == IF asOf <= rule.end THEN asOf ELSE rule.end
<1>3. Min({asOf, rule.end}) = b /\ b \in 1..LastDate
  BY <1>1, <1>2, MinOfTwo
<1> HIDE DEF b
<1>4. Due(asOf) = rule.next..b
  BY <1>3 DEF Due
<1>5. Cardinality(rule.next..b) = IF b < rule.next THEN 0 ELSE b - rule.next + 1
  BY <1>1, <1>2, <1>3, DaysCount
<1>6. Cursor(asOf) = IF b < rule.next THEN rule.next ELSE b + 1
  BY <1>1, <1>2, <1>3, <1>4, <1>5 DEF Cursor
<1>7. DaysFrom(put, rule.next)
  <2>1. b \in 0..LastDate
    BY <1>1, <1>3
  <2> QED BY <1>4, <1>6, <2>1 DEF DaysFrom
<1>8. put \in Charges
  <2>1. Cursor(asOf) \in 1..(LastDate + 1)
    BY <1>1, <1>2, <1>3, <1>6
  <2>2. Due(asOf) \in {x..y : x \in 1..LastDate, y \in 0..LastDate}
    BY <1>1, <1>2, <1>3, <1>4
  <2> QED BY <1>2, <2>1, <2>2 DEF Charges
<1> QED
  BY <1>7, <1>8

LEMMA ChargesIs ==
  ASSUME NEW put \in Charges, NEW n, n = Cardinality(put.dates),
         NEW new, new = [k \in 1..n |-> Row("invoice", put.amount, "open", Min(put.dates) + k - 1)]
  PROVE  /\ n \in Nat /\ put.next \in 1..(LastDate + 1)
         /\ new \in Seq(RowRecord) /\ Len(new) = n
         /\ \A k \in 1..n : /\ new[k].type = "invoice" /\ new[k].status = "open"
                            /\ new[k].due = Min(put.dates) + k - 1
         /\ \A a, b \in Int : put.dates = a..b =>
              /\ n = IF b < a THEN 0 ELSE b - a + 1
              /\ n > 0 => Min(put.dates) = a
<1>1. PICK a \in 1..LastDate, b \in 0..LastDate : put.dates = a..b
  BY DEF Charges
<1>2. put.amount \in Nat /\ put.next \in 1..(LastDate + 1) /\ LastDate \in Nat
  <2>1. put.amount \in Prices /\ put.next \in 1..(LastDate + 1)
    BY DEF Charges
  <2> QED BY <2>1, BillingAssumption
<1>3. ASSUME NEW x \in Int, NEW y \in Int, put.dates = x..y
      PROVE  /\ n = IF y < x THEN 0 ELSE y - x + 1
             /\ n > 0 => Min(put.dates) = x
  <2>1. n = IF y < x THEN 0 ELSE y - x + 1
    BY <1>3, DaysCount
  <2>2. CASE x <= y
    BY <1>3, <2>1, <2>2, MinOfAll
  <2> QED BY <2>1, <2>2
<1>4. a \in Int /\ b \in Int /\ b <= LastDate
  BY <1>2
<1>5. n \in Nat
  BY <1>1, <1>3, <1>4
<1>6. ASSUME NEW k \in 1..n
      PROVE  /\ new[k] \in RowRecord /\ new[k].type = "invoice" /\ new[k].status = "open"
             /\ new[k].due = Min(put.dates) + k - 1
  <2>1. n = b - a + 1 /\ Min(put.dates) = a
    BY <1>1, <1>3, <1>4, <1>5
  <2>2. Min(put.dates) + k - 1 \in 0..LastDate
    BY <1>2, <1>4, <1>5, <2>1
  <2>3. new[k] = Row("invoice", put.amount, "open", Min(put.dates) + k - 1)
    OBVIOUS
  <2>4. "open" \in Statuses
    BY DEF Statuses
  <2> QED BY <1>2, <2>2, <2>3, <2>4, RowTyped
<1>7. new \in [1..n -> RowRecord]
  BY <1>6
<1>8. new \in Seq(RowRecord) /\ Len(new) = n
  BY <1>5, <1>7, SeqOf
<1> QED
  BY <1>2, <1>3, <1>5, <1>6, <1>8

----------------------------------------------------------------------------
(* What the steps do to the rows.                                            *)

Kept ==
  \A i \in DOMAIN rows :
    /\ i \in DOMAIN rows'
    /\ rows'[i].type = rows[i].type /\ rows'[i].total = rows[i].total
    /\ rows'[i].due = rows[i].due

\* Open invoices are added at most, and nothing is applied.
Adding ==
  /\ Kept
  /\ \A i \in DOMAIN rows : rows'[i].status = rows[i].status
  /\ \A i \in DOMAIN rows' \ DOMAIN rows : rows'[i].type = "invoice" /\ rows'[i].status = "open"
  /\ applied' = applied

\* The other requests are as they were, or have been overtaken.
OthersLeft(s) ==
  \A t \in Slots : slot'[t].op # "idle" =>
    /\ t # s /\ slot'[t].op = slot[t].op /\ slot'[t].put = slot[t].put
    /\ slot'[t].fresh => slot[t].fresh

\* The days of put have been charged in this order.
DaysAdded(put) ==
  \A a, b \in Int : put.dates = a..b =>
    /\ Len(rows') = Len(rows) + (IF b < a THEN 0 ELSE b - a + 1)
    /\ \A i \in DOMAIN rows' \ DOMAIN rows : rows'[i].due = a + (i - Len(rows)) - 1

LEMMA AddingNone ==
  ASSUME rows' = rows, applied' = applied
  PROVE  Adding
BY DEF Adding, Kept

LEMMA ChargeStep ==
  ASSUME Shape, Charge
  PROVE  /\ Shape' /\ Adding /\ UNCHANGED <<rule, slot, stale>>
         /\ \A i \in DOMAIN rows' \ DOMAIN rows : rows'[i].due = 0
<1>1. PICK a \in Prices : rows' = Append(rows, Row("invoice", a, "open", 0))
  BY DEF Charge
<1>2. /\ Len(rows) + 1 <= MaxRows /\ Len(rows) \in Nat /\ DOMAIN rows = 1..Len(rows)
      /\ rows \in Seq(RowRecord)
  <2>1. Len(rows) \in Nat /\ DOMAIN rows = 1..Len(rows) /\ rows \in Seq(RowRecord)
    BY RowsFacts, ShapeIs
  <2>2. Len(rows) < MaxRows
    BY DEF Charge
  <2> QED BY <2>1, <2>2, IdsFinite
<1> DEFINE row == Row("invoice", a, "open", 0)
<1>3. row \in RowRecord /\ row.type = "invoice" /\ row.status = "open" /\ row.due = 0
  <2>1. a \in Nat /\ 0 \in 0..LastDate /\ "open" \in Statuses
    BY BillingAssumption DEF Statuses
  <2> QED BY <2>1, RowTyped
<1> HIDE DEF row
<1>4. /\ rows' \in Seq(RowRecord) /\ Len(rows') = Len(rows) + 1
      /\ DOMAIN rows' = 1..(Len(rows) + 1)
      /\ \A i \in 1..Len(rows) : rows'[i] = rows[i]
      /\ rows'[Len(rows) + 1] = row
  <2>1. rows' = Append(rows, row)
    BY <1>1 DEF row
  <2>2. rows' \in Seq(RowRecord)
    BY <1>2, <1>3, <2>1, AppendProperties
  <2>3. /\ Len(rows') = Len(rows) + 1 /\ \A i \in 1..Len(rows) : rows'[i] = rows[i]
        /\ rows'[Len(rows) + 1] = row
    BY <1>2, <1>3, <2>1, AppendProperties
  <2> QED BY <2>2, <2>3
<1>5. UNCHANGED <<applied, rule, slot, stale>>
  BY DEF Charge
<1>6. Shape'
  BY <1>2, <1>4, <1>5, ShapeIs, ShapeNext
<1>7. \A i \in DOMAIN rows' \ DOMAIN rows : rows'[i] = row
  BY <1>2, <1>4
<1>8. Adding
  BY <1>2, <1>3, <1>4, <1>5, <1>7 DEF Adding, Kept
<1> QED
  BY <1>3, <1>5, <1>6, <1>7, <1>8

LEMMA GenerateStep ==
  ASSUME Shape, NEW s \in Slots, Generate(s)
  PROVE  /\ Shape' /\ Adding /\ OthersLeft(s) /\ stale' = (stale \/ ~slot[s].fresh)
         /\ \A t \in Slots : slot'[t].op \in Recurring => ~slot'[t].fresh
         /\ rule'.next = slot[s].put.next
         /\ DaysAdded(slot[s].put)
<1>1. PICK put : put = slot[s].put
  OBVIOUS
<1>2. PICK n : n = Cardinality(put.dates)
  OBVIOUS
<1>3. PICK new : new = [k \in 1..n |-> Row("invoice", put.amount, "open",
                                            Min(put.dates) + k - 1)]
  OBVIOUS
<1>4. /\ slot[s].op = "generate" /\ Len(rows) + n <= MaxRows /\ rows' = rows \o new
      /\ rule' = [rule EXCEPT !.next = put.next] /\ Commit(s, Recurring) /\ applied' = applied
  BY <1>1, <1>2, <1>3 DEF Generate
<1>5. put \in Charges
  <2>1. slot[s] \in BillingRequest
    BY ShapeIs
  <2> QED BY <1>1, <1>4, <2>1, RequestIs
<1>6. /\ n \in Nat /\ put.next \in 1..(LastDate + 1)
      /\ new \in Seq(RowRecord) /\ Len(new) = n
      /\ \A k \in 1..n : /\ new[k].type = "invoice" /\ new[k].status = "open"
                         /\ new[k].due = Min(put.dates) + k - 1
      /\ \A a, b \in Int : put.dates = a..b =>
           /\ n = IF b < a THEN 0 ELSE b - a + 1
           /\ n > 0 => Min(put.dates) = a
  <2>1. n \in Nat /\ put.next \in 1..(LastDate + 1) /\ new \in Seq(RowRecord) /\ Len(new) = n
    BY <1>2, <1>3, <1>5, ChargesIs
  <2>2. \A k \in 1..n : /\ new[k].type = "invoice" /\ new[k].status = "open"
                         /\ new[k].due = Min(put.dates) + k - 1
    BY <1>2, <1>3, <1>5, ChargesIs
  <2>3. \A a, b \in Int : put.dates = a..b =>
          /\ n = IF b < a THEN 0 ELSE b - a + 1
          /\ n > 0 => Min(put.dates) = a
    BY <1>2, <1>3, <1>5, ChargesIs
  <2> QED BY <2>1, <2>2, <2>3
<1>7. Len(rows) \in Nat /\ DOMAIN rows = 1..Len(rows) /\ rows \in Seq(RowRecord)
  BY RowsFacts, ShapeIs
<1>8. /\ rows' \in Seq(RowRecord) /\ Len(rows') = Len(rows) + n
      /\ DOMAIN rows' = 1..(Len(rows) + n)
      /\ \A i \in 1..(Len(rows) + n) :
           rows'[i] = IF i <= Len(rows) THEN rows[i] ELSE new[i - Len(rows)]
  <2>1. rows' \in Seq(RowRecord)
    BY <1>4, <1>6, <1>7, ConcatProperties
  <2>2. Len(rows') = Len(rows) + n /\ \A i \in 1..(Len(rows) + n) :
           rows'[i] = IF i <= Len(rows) THEN rows[i] ELSE new[i - Len(rows)]
    BY <1>4, <1>6, <1>7, ConcatProperties
  <2>3. DOMAIN rows' = 1..Len(rows')
    BY <2>1
  <2> QED BY <2>1, <2>2, <2>3
<1>9. \A i \in DOMAIN rows : i \in DOMAIN rows' /\ rows'[i] = rows[i]
  BY <1>6, <1>7, <1>8
<1>10. ASSUME NEW i \in DOMAIN rows' \ DOMAIN rows
       PROVE  /\ rows'[i].type = "invoice" /\ rows'[i].status = "open"
              /\ rows'[i].due = Min(put.dates) + (i - Len(rows)) - 1 /\ n > 0 /\ i \in Nat
  <2>1. i - Len(rows) \in 1..n /\ rows'[i] = new[i - Len(rows)]
    BY <1>6, <1>7, <1>8
  <2> QED BY <1>6, <1>7, <1>8, <2>1
<1>11. /\ slot' \in [Slots -> BillingRequest] /\ stale' \in BOOLEAN
       /\ stale' = (stale \/ ~slot[s].fresh)
       /\ \A t \in Slots : slot'[t].op # "idle" =>
            /\ t # s /\ slot'[t].op = slot[t].op /\ slot'[t].put = slot[t].put
            /\ slot'[t].fresh => slot[t].fresh /\ slot[t].op \notin Recurring
  BY <1>4, CommitIs
<1>12. rule' \in Rules /\ rule'.next = put.next
  <2>1. rule \in Rules
    BY ShapeIs
  <2> QED BY <1>4, <1>6, <2>1 DEF Rules
<1>13. Shape'
  BY <1>4, <1>8, <1>11, <1>12, ShapeIs, ShapeNext
<1>14. Adding
  BY <1>4, <1>9, <1>10 DEF Adding, Kept
<1>15. OthersLeft(s) /\ \A t \in Slots : slot'[t].op \in Recurring => ~slot'[t].fresh
  <2>1. "idle" \notin Recurring
    BY DEF Recurring
  <2>2. \A t \in Slots : slot'[t].fresh \in BOOLEAN
    BY <1>11, RequestIs
  <2>3. ASSUME NEW t \in Slots, slot'[t].op \in Recurring PROVE ~slot'[t].fresh
    BY <1>11, <2>1, <2>2, <2>3
  <2> QED BY <1>11, <2>3 DEF OthersLeft
<1>16. ASSUME NEW a \in Int, NEW b \in Int, put.dates = a..b
       PROVE  /\ Len(rows') = Len(rows) + (IF b < a THEN 0 ELSE b - a + 1)
              /\ \A i \in DOMAIN rows' \ DOMAIN rows : rows'[i].due = a + (i - Len(rows)) - 1
  <2>1. n = (IF b < a THEN 0 ELSE b - a + 1) /\ (n > 0 => Min(put.dates) = a)
    BY <1>6, <1>16
  <2> QED BY <1>8, <1>10, <2>1
<1>17. DaysAdded(put)
  BY <1>16 DEF DaysAdded
<1> QED
  BY <1>1, <1>11, <1>12, <1>13, <1>14, <1>15, <1>17

LEMMA UpdateStep ==
  ASSUME Shape, NEW s \in Slots, Update(s)
  PROVE  /\ Shape' /\ rows' = rows /\ applied' = applied
         /\ OthersLeft(s) /\ stale' = (stale \/ ~slot[s].fresh)
         /\ \A t \in Slots : slot'[t].op \in Recurring => ~slot'[t].fresh
         /\ rule' = slot[s].put
<1>1. /\ slot[s].op = "update" /\ rule' = slot[s].put /\ Commit(s, Recurring)
      /\ rows' = rows /\ applied' = applied
  BY DEF Update
<1>2. /\ slot' \in [Slots -> BillingRequest] /\ stale' \in BOOLEAN
      /\ stale' = (stale \/ ~slot[s].fresh)
      /\ \A t \in Slots : slot'[t].op # "idle" =>
           /\ t # s /\ slot'[t].op = slot[t].op /\ slot'[t].put = slot[t].put
           /\ slot'[t].fresh => slot[t].fresh /\ slot[t].op \notin Recurring
  BY <1>1, CommitIs
<1>3. rule' \in Rules
  <2>1. slot[s] \in BillingRequest
    BY ShapeIs
  <2> QED BY <1>1, <2>1, RequestIs
<1>4. Shape'
  BY <1>1, <1>2, <1>3, ShapeIs, ShapeNext
<1>5. OthersLeft(s) /\ \A t \in Slots : slot'[t].op \in Recurring => ~slot'[t].fresh
  <2>1. "idle" \notin Recurring
    BY DEF Recurring
  <2>2. \A t \in Slots : slot'[t].fresh \in BOOLEAN
    BY <1>2, RequestIs
  <2>3. ASSUME NEW t \in Slots, slot'[t].op \in Recurring PROVE ~slot'[t].fresh
    BY <1>2, <2>1, <2>2, <2>3
  <2> QED BY <1>2, <2>3 DEF OthersLeft
<1> QED
  BY <1>1, <1>2, <1>4, <1>5

\* Only request s is another one.
OnlySlot(s) ==
  /\ \A t \in Slots : t # s => slot'[t] = slot[t]
  /\ rows' = rows /\ applied' = applied /\ rule' = rule /\ stale' = stale

LEMMA AskStep ==
  ASSUME Shape, NEW s \in Slots, NEW op, NEW put,
         NEW r, r = [op |-> op, put |-> put, fresh |-> TRUE], r \in BillingRequest, Await(s, op, put)
  PROVE  Shape' /\ OnlySlot(s) /\ slot'[s] = r
<1>1. /\ slot' \in [Slots -> BillingRequest] /\ slot'[s] = r
      /\ \A t \in Slots : t # s => slot'[t] = slot[t]
      /\ rows' = rows /\ applied' = applied /\ rule' = rule /\ stale' = stale
  BY AwaitIs
<1> QED
  BY <1>1, ShapeIs, ShapeNext DEF OnlySlot

LEMMA AbortStep ==
  ASSUME Shape, NEW s \in Slots, Abort(s)
  PROVE  Shape' /\ OnlySlot(s) /\ slot'[s].op = "idle"
<1>1. /\ slot' \in [Slots -> BillingRequest] /\ slot'[s].op = "idle"
      /\ \A t \in Slots : t # s => slot'[t] = slot[t]
      /\ rows' = rows /\ applied' = applied /\ rule' = rule /\ stale' = stale
  BY AbortIs
<1> QED
  BY <1>1, ShapeIs, ShapeNext DEF OnlySlot

LEMMA ReadRuleStep ==
  ASSUME Shape, NEW s \in Slots, ReadRule(s)
  PROVE  /\ Shape' /\ OnlySlot(s) /\ slot'[s].op = "generate"
         /\ DaysFrom(slot'[s].put, rule.next)
<1>1. PICK asOf \in 1..LastDate :
        /\ rule.next <= asOf
        /\ Await(s, "generate", [dates |-> Due(asOf), amount |-> rule.amount,
                                 next |-> Cursor(asOf)])
  BY DEF ReadRule
<1>2. PICK put : put = [dates |-> Due(asOf), amount |-> rule.amount, next |-> Cursor(asOf)]
  OBVIOUS
<1>3. PICK r : r = [op |-> "generate", put |-> put, fresh |-> TRUE]
  OBVIOUS
<1>4. put \in Charges /\ DaysFrom(put, rule.next)
  BY <1>1, <1>2, RuleRequest
<1>5. r \in BillingRequest /\ r.op = "generate" /\ r.put = put
  BY <1>3, <1>4, Asking
<1>6. Await(s, "generate", put)
  BY <1>1, <1>2
<1>7. Shape' /\ OnlySlot(s) /\ slot'[s] = r
  BY <1>3, <1>5, <1>6, AskStep
<1> QED
  BY <1>4, <1>5, <1>7

LEMMA ReadToUpdateStep ==
  ASSUME Shape, NEW s \in Slots, ReadToUpdate(s)
  PROVE  /\ Shape' /\ OnlySlot(s) /\ slot'[s].op = "update"
         /\ slot'[s].put.next = rule.next
<1>1. PICK end \in 1..LastDate, active \in BOOLEAN :
        Await(s, "update", [rule EXCEPT !.end = end, !.active = active])
  BY DEF ReadToUpdate
<1>2. PICK put : put = [rule EXCEPT !.end = end, !.active = active]
  OBVIOUS
<1>3. PICK r : r = [op |-> "update", put |-> put, fresh |-> TRUE]
  OBVIOUS
<1>4. put \in Rules /\ put.next = rule.next
  <2>1. rule \in Rules
    BY ShapeIs
  <2> QED BY <1>2, <2>1 DEF Rules
<1>5. r \in BillingRequest /\ r.op = "update" /\ r.put = put
  BY <1>3, <1>4, Asking
<1>6. Await(s, "update", put)
  BY <1>1, <1>2
<1>7. Shape' /\ OnlySlot(s) /\ slot'[s] = r
  BY <1>3, <1>5, <1>6, AskStep
<1> QED
  BY <1>4, <1>5, <1>7

LEMMA ReadToPayStep ==
  ASSUME Shape, NEW s \in Slots, ReadToPay(s)
  PROVE  /\ Shape' /\ OnlySlot(s) /\ slot'[s].op = "pay"
         /\ Settling(slot'[s]) /\ Fitting(slot'[s])
<1>1. PICK I \in SUBSET OfType("invoice"), amount \in Amounts \cup {None} :
        LET asked == IF amount = None THEN MapThenSumSet(Rest, I) ELSE amount IN
        /\ I # {} /\ asked > 0
        /\ Await(s, "pay", [total |-> asked, share |-> Shares(I, asked),
                            status |-> Settled(Shares(I, asked))])
  BY DEF ReadToPay
<1>2. PICK asked : asked = IF amount = None THEN MapThenSumSet(Rest, I) ELSE amount
  OBVIOUS
<1>3. asked \in Nat
  <2>1. I \in SUBSET DOMAIN rows
    BY DEF OfType
  <2>2. MapThenSumSet(Rest, I) = Total(Rests, I) /\ Total(Rests, I) \in Nat
    BY <2>1, RestsIs
  <2> QED BY <1>2, <2>2, BillingAssumption
<1>4. PICK share : share = Shares(I, asked)
  OBVIOUS
<1>5. PICK put : put = [total |-> asked, share |-> share, status |-> Settled(share)]
  OBVIOUS
<1>6. PICK r : r = [op |-> "pay", put |-> put, fresh |-> TRUE]
  OBVIOUS
<1>7. r \in BillingRequest /\ Settling(r) /\ Fitting(r)
  <2>1. r = [op |-> "pay", fresh |-> TRUE,
             put |-> [total |-> asked, share |-> share, status |-> Settled(share)]]
    BY <1>5, <1>6
  <2> QED BY <1>3, <1>4, <2>1, PayRequest
<1>8. Await(s, "pay", put)
  BY <1>1, <1>2, <1>4, <1>5
<1>9. Shape' /\ OnlySlot(s) /\ slot'[s] = r
  BY <1>6, <1>7, <1>8, AskStep
<1> QED
  BY <1>6, <1>7, <1>9

LEMMA ReadToCreditStep ==
  ASSUME Shape, NEW s \in Slots, ReadToCredit(s)
  PROVE  /\ Shape' /\ OnlySlot(s) /\ slot'[s].op = "credit"
         /\ Settling(slot'[s]) /\ Fitting(slot'[s])
<1>1. PICK c \in OfType("credit_memo"), i \in OfType("invoice"),
           amount \in Amounts \cup {None} :
        LET asked == IF amount = None THEN Min({Rest(c), Rest(i)}) ELSE amount
            share == [j \in {i} |-> Applicable(asked, Rest(c), Rest(i))]
            settled == Settled(share)
            used == Synced(rows[c], Sum(c) + share[i])
            changed == DOMAIN settled \cup (IF used # rows[c].status THEN {c} ELSE {})
        IN
        Await(s, "credit", [from |-> c, share |-> share,
          status |-> [j \in changed |-> IF j = c THEN used ELSE settled[j]]])
  BY DEF ReadToCredit
<1>2. PICK asked : asked = IF amount = None THEN Min({Rest(c), Rest(i)}) ELSE amount
  OBVIOUS
<1>3. asked \in Nat
  <2>1. Rest(c) \in Nat /\ Rest(i) \in Nat
    BY RestIs DEF OfType
  <2>2. Min({Rest(c), Rest(i)}) \in Nat
    BY <2>1, MinOfTwo
  <2> QED BY <1>2, <2>2, BillingAssumption
<1>4. PICK share : share = [j \in {i} |-> Applicable(asked, Rest(c), Rest(i))]
  OBVIOUS
<1>5. PICK used : used = Synced(rows[c], Sum(c) + share[i])
  OBVIOUS
<1>6. PICK changed : changed = DOMAIN Settled(share)
                                 \cup (IF used # rows[c].status THEN {c} ELSE {})
  OBVIOUS
<1>7. PICK status : status = [j \in changed |-> IF j = c THEN used ELSE Settled(share)[j]]
  OBVIOUS
<1>8. PICK put : put = [from |-> c, share |-> share, status |-> status]
  OBVIOUS
<1>9. PICK r : r = [op |-> "credit", put |-> put, fresh |-> TRUE]
  OBVIOUS
<1>10. r \in BillingRequest /\ Settling(r) /\ Fitting(r)
  BY <1>3, <1>4, <1>5, <1>6, <1>7, <1>8, <1>9, CreditRequest
<1>11. Await(s, "credit", put)
  BY <1>1, <1>2, <1>4, <1>5, <1>6, <1>7, <1>8
<1>12. Shape' /\ OnlySlot(s) /\ slot'[s] = r
  BY <1>9, <1>10, <1>11, AskStep
<1> QED
  BY <1>9, <1>10, <1>12

\* Only what is there is applied, and only to invoices.
AppliedToInvoices ==
  \A i, j \in Ids : applied[<<i, j>>] # 0 =>
    /\ i \in DOMAIN rows /\ rows[i].type # "invoice"
    /\ j \in OfType("invoice")

LEMMA NoneApplied ==
  ASSUME Shape, AppliedToInvoices, NEW n \in Ids, n \notin DOMAIN rows, NEW R
  PROVE  SumOf(R, applied, n) = 0
<1>1. applied \in [Ids \X Ids -> Nat]
  BY ShapeIs
<1>2. ASSUME NEW j \in Ids PROVE applied[<<j, n>>] = 0 /\ applied[<<n, j>>] = 0
  BY DEF AppliedToInvoices, OfType
<1>3. \A j \in Ids : ToInvoice(applied, n)[j] = 0
  BY <1>2 DEF ToInvoice
<1>4. \A j \in Ids : FromSource(applied, n)[j] = 0
  BY <1>2 DEF FromSource
<1>5. Total(ToInvoice(applied, n), Ids) = 0
  BY <1>3, IdsFinite, TotalZero
<1>6. Total(FromSource(applied, n), Ids) = 0
  BY <1>4, IdsFinite, TotalZero
<1> QED
  BY <1>5, <1>6 DEF SumOf

LEMMA ApplySum ==
  ASSUME NEW app \in Ledgers, NEW from \in Ids, NEW share \in PartOf(Nat), NEW i \in Ids,
         NEW app2, app2 = Applies(app, from, share),
         NEW R, R[i].type = "invoice" => i # from, R[i].type # "invoice" => i \notin DOMAIN share
  PROVE  SumOf(R, app2, i) = SumOf(R, app, i) + (IF i \in DOMAIN share THEN share[i]
                                                 ELSE IF i = from THEN Total(share, DOMAIN share) ELSE 0)
<1>1. Total(ToInvoice(app2, i), Ids)
        = Total(ToInvoice(app, i), Ids) + (IF i \in DOMAIN share THEN share[i] ELSE 0)
  BY ApplyTo
<1>2. Total(FromSource(app2, i), Ids)
        = Total(FromSource(app, i), Ids) + (IF i = from THEN Total(share, DOMAIN share) ELSE 0)
  BY ApplyFrom
<1>3. CASE R[i].type = "invoice"
  <2>1. /\ SumOf(R, app2, i) = Total(ToInvoice(app2, i), Ids)
        /\ SumOf(R, app, i) = Total(ToInvoice(app, i), Ids)
    BY <1>3 DEF SumOf
  <2> QED BY <1>1, <1>3, <2>1
<1>4. CASE R[i].type # "invoice"
  <2>1. /\ SumOf(R, app2, i) = Total(FromSource(app2, i), Ids)
        /\ SumOf(R, app, i) = Total(FromSource(app, i), Ids)
    BY <1>4 DEF SumOf
  <2> QED BY <1>2, <1>4, <2>1
<1> QED
  BY <1>3, <1>4

LEMMA SettleSums ==
  ASSUME Shape, Kept, NEW share \in PartOf(Nat), DOMAIN share \subseteq OfType("invoice"),
         NEW from \in Ids, from \notin OfType("invoice"), applied' = Applying(from, share)
  PROVE  \A i \in DOMAIN rows :
           Sum(i)' = Sum(i) + (IF i \in DOMAIN share THEN share[i]
                               ELSE IF i = from THEN Spent(share) ELSE 0)
<1> SUFFICES ASSUME NEW i \in DOMAIN rows
             PROVE  Sum(i)' = Sum(i) + (IF i \in DOMAIN share THEN share[i]
                                        ELSE IF i = from THEN Spent(share) ELSE 0)
  OBVIOUS
<1>1. i \in Ids /\ applied \in Ledgers /\ rows'[i].type = rows[i].type
  BY RowsFacts, ShapeIs DEF Kept, Ledgers
<1>3. /\ rows'[i].type = "invoice" => i # from
      /\ rows'[i].type # "invoice" => i \notin DOMAIN share
  BY <1>1 DEF OfType
<1>4. applied' = Applies(applied, from, share)
  BY DEF Applying, Applies
<1>5. SumOf(rows', applied', i)
        = SumOf(rows', applied, i) + (IF i \in DOMAIN share THEN share[i]
                                      ELSE IF i = from THEN Total(share, DOMAIN share) ELSE 0)
  BY <1>1, <1>3, <1>4, ApplySum
<1>6. SumOf(rows', applied, i) = SumOf(rows, applied, i)
  BY <1>1 DEF SumOf
<1>7. Sum(i) = SumOf(rows, applied, i) /\ Sum(i)' = SumOf(rows', applied', i)
  BY SumIs, SumNext
<1> QED
  BY <1>5, <1>6, <1>7 DEF Spent

LEMMA SpentNat ==
  ASSUME NEW share \in PartOf(Nat)
  PROVE  Spent(share) \in Nat
<1>1. IsFiniteSet(DOMAIN share) /\ \A i \in DOMAIN share : share[i] \in Nat
  BY PartIs
<1> QED
  BY <1>1, TotalNat DEF Spent

\* The invoices are given their shares, row from spends them, and the marks are set.
Settles(put, from) ==
  /\ Kept
  /\ applied' = Applying(from, put.share)
  /\ \A i \in DOMAIN rows :
       /\ rows'[i].status = IF i \in DOMAIN put.status THEN put.status[i] ELSE rows[i].status
       /\ Sum(i)' = Sum(i) + (IF i \in DOMAIN put.share THEN put.share[i]
                              ELSE IF i = from THEN Spent(put.share) ELSE 0)

\* Row n is the payment of put.
Paid(put, n) ==
  /\ n \in Ids /\ n \notin DOMAIN rows /\ DOMAIN rows' = DOMAIN rows \cup {n}
  /\ rows'[n].type = "received_payment" /\ rows'[n].total = put.total /\ rows'[n].due = 0
  /\ rows'[n].status = "completed" => Spent(put.share) >= put.total
  /\ Settles(put, n) /\ Sum(n)' = Spent(put.share)

LEMMA BalancesLeft ==
  ASSUME Shape, NEW s \in Slots, Commit(s, Balances)
  PROVE  /\ slot' \in [Slots -> BillingRequest] /\ stale' \in BOOLEAN
         /\ OthersLeft(s) /\ stale' = (stale \/ ~slot[s].fresh)
         /\ \A t \in Slots : slot'[t].op \in Balances => ~slot'[t].fresh
<1>1. /\ slot' \in [Slots -> BillingRequest] /\ stale' \in BOOLEAN
      /\ stale' = (stale \/ ~slot[s].fresh)
      /\ \A t \in Slots : slot'[t].op # "idle" =>
           /\ t # s /\ slot'[t].op = slot[t].op /\ slot'[t].put = slot[t].put
           /\ slot'[t].fresh => slot[t].fresh /\ slot[t].op \notin Balances
  BY CommitIs
<1>2. "idle" \notin Balances
  BY DEF Balances
<1>3. \A t \in Slots : slot'[t].fresh \in BOOLEAN
  BY <1>1, RequestIs
<1>4. ASSUME NEW t \in Slots, slot'[t].op \in Balances PROVE ~slot'[t].fresh
  BY <1>1, <1>2, <1>3, <1>4
<1> QED
  BY <1>1, <1>4 DEF OthersLeft

LEMMA PayStep ==
  ASSUME Shape, AppliedToInvoices, NEW s \in Slots, Pay(s), Settling(slot[s]),
         NEW put, put = slot[s].put, NEW n, n = Len(rows) + 1
  PROVE  /\ Shape' /\ OthersLeft(s) /\ stale' = (stale \/ ~slot[s].fresh)
         /\ \A t \in Slots : slot'[t].op \in Balances => ~slot'[t].fresh
         /\ put \in Payments /\ rule' = rule /\ Paid(put, n)
<1>1. PICK payment : payment = Row("received_payment", put.total, "posted", 0)
  OBVIOUS
<1>2. PICK used : used = Spent(put.share)
  OBVIOUS
<1>3. PICK marked : marked = Marked(put.status)
  OBVIOUS
<1>4. PICK row : row = [payment EXCEPT !.status = Synced(payment, used)]
  OBVIOUS
<1>5. /\ slot[s].op = "pay" /\ Len(rows) < MaxRows
      /\ rows' = Append(marked, row) /\ applied' = Applying(n, put.share)
      /\ Commit(s, Balances) /\ rule' = rule
  <2>1. Spent(slot[s].put.share) = used
    BY <1>2
  <2>3. MapThenSumSet(LAMBDA i : slot[s].put.share[i], DOMAIN slot[s].put.share) = used
    BY <2>1 DEF Spent, Total
  <2> QED BY <1>1, <1>3, <1>4, <2>3 DEF Pay
<1>6. put \in Payments
  <2>1. slot[s] \in BillingRequest
    BY ShapeIs
  <2> QED BY <1>5, <2>1, RequestIs
<1>7. put.total \in Nat /\ put.share \in PartOf(Nat) /\ put.status \in PartOf(Statuses)
  BY <1>6 DEF Payments
<1>8. /\ Len(rows) \in Nat /\ DOMAIN rows = 1..Len(rows) /\ DOMAIN rows \subseteq Ids
      /\ n \in Ids /\ n \notin DOMAIN rows
  <2>1. Len(rows) \in Nat /\ DOMAIN rows = 1..Len(rows) /\ DOMAIN rows \subseteq Ids
    BY RowsFacts
  <2> QED BY <1>5, <2>1, IdsFinite DEF Ids
<1>9. /\ marked \in Seq(RowRecord) /\ Len(marked) = Len(rows)
      /\ \A i \in DOMAIN rows :
           /\ marked[i].type = rows[i].type /\ marked[i].total = rows[i].total
           /\ marked[i].due = rows[i].due
           /\ marked[i].status = IF i \in DOMAIN put.status THEN put.status[i]
                                 ELSE rows[i].status
  BY <1>3, <1>7, MarkedIs
<1>10. /\ row \in RowRecord /\ row.type = "received_payment" /\ row.total = put.total
       /\ row.due = 0 /\ (row.status = "completed" => used >= put.total)
  <2>1. "posted" \in Statuses /\ 0 \in 0..LastDate
    BY BillingAssumption DEF Statuses
  <2>2. /\ payment \in RowRecord /\ payment.type = "received_payment"
        /\ payment.total = put.total /\ payment.due = 0
    BY <1>1, <1>7, <2>1, RowTyped
  <2>3. /\ Synced(payment, used) \in Statuses
        /\ (Synced(payment, used) = "completed" => used >= payment.total)
    BY SyncedIs
  <2> QED BY <1>4, <2>2, <2>3, RowMarked
<1>11. /\ rows' \in Seq(RowRecord) /\ Len(rows') = n /\ DOMAIN rows' = DOMAIN rows \cup {n}
       /\ \A i \in DOMAIN rows : rows'[i] = marked[i]
       /\ rows'[n] = row
  <2>1. rows' \in Seq(RowRecord)
    BY <1>5, <1>9, <1>10, AppendProperties
  <2>2. /\ Len(rows') = Len(marked) + 1 /\ \A i \in 1..Len(marked) : rows'[i] = marked[i]
        /\ rows'[Len(marked) + 1] = row
    BY <1>5, <1>9, <1>10, AppendProperties
  <2>3. DOMAIN rows' = 1..Len(rows')
    BY <2>1
  <2> QED BY <1>8, <1>9, <2>1, <2>2, <2>3
<1>12. /\ slot' \in [Slots -> BillingRequest] /\ stale' \in BOOLEAN
       /\ OthersLeft(s) /\ stale' = (stale \/ ~slot[s].fresh)
       /\ \A t \in Slots : slot'[t].op \in Balances => ~slot'[t].fresh
  BY <1>5, BalancesLeft
<1>13. applied' \in [Ids \X Ids -> Nat]
  BY <1>5, <1>7, ApplyingTyped
<1>14. Shape'
  <2>1. rule \in Rules
    BY ShapeIs
  <2>2. Len(rows') <= MaxRows
    BY <1>8, <1>11, IdsFinite DEF Ids
  <2> QED BY <1>5, <1>11, <1>12, <1>13, <2>1, <2>2, ShapeNext
<1>15. Kept
  BY <1>9, <1>11 DEF Kept
<1>16. DOMAIN put.share \subseteq OfType("invoice") /\ n \notin OfType("invoice")
  BY <1>8 DEF Settling, OfType
<1>17. Settles(put, n)
  <2>1. \A i \in DOMAIN rows :
          Sum(i)' = Sum(i) + (IF i \in DOMAIN put.share THEN put.share[i]
                              ELSE IF i = n THEN Spent(put.share) ELSE 0)
    BY <1>5, <1>7, <1>8, <1>15, <1>16, SettleSums
  <2>2. \A i \in DOMAIN rows :
          rows'[i].status = IF i \in DOMAIN put.status THEN put.status[i] ELSE rows[i].status
    BY <1>9, <1>11
  <2> QED BY <1>5, <1>15, <2>1, <2>2 DEF Settles
<1>18. Sum(n)' = Spent(put.share)
  <2>2. applied' = Applies(applied, n, put.share)
    BY <1>5 DEF Applying, Applies
  <2>3. rows'[n].type # "invoice" /\ n \notin DOMAIN put.share
    BY <1>8, <1>10, <1>11, <1>16 DEF OfType
  <2>4. applied \in Ledgers
    BY ShapeIs DEF Ledgers
  <2>5. SumOf(rows', applied', n) = SumOf(rows', applied, n) + (IF n \in DOMAIN put.share
          THEN put.share[n] ELSE IF n = n THEN Total(put.share, DOMAIN put.share) ELSE 0)
    BY <1>7, <1>8, <2>2, <2>3, <2>4, ApplySum
  <2>6. SumOf(rows', applied, n) = 0
    BY <1>8, NoneApplied
  <2>7. Sum(n)' = SumOf(rows', applied', n)
    BY SumNext
  <2>8. Spent(put.share) \in Nat /\ Spent(put.share) = Total(put.share, DOMAIN put.share)
    BY <1>7, SpentNat DEF Spent
  <2> QED BY <2>3, <2>5, <2>6, <2>7, <2>8
<1>19. Paid(put, n)
  BY <1>2, <1>8, <1>10, <1>11, <1>17, <1>18 DEF Paid
<1> QED
  BY <1>5, <1>6, <1>12, <1>14, <1>19

LEMMA CreditStep ==
  ASSUME Shape, NEW s \in Slots, Credit(s), Settling(slot[s]), NEW put, put = slot[s].put
  PROVE  /\ Shape' /\ OthersLeft(s) /\ stale' = (stale \/ ~slot[s].fresh)
         /\ \A t \in Slots : slot'[t].op \in Balances => ~slot'[t].fresh
         /\ put \in Credits /\ rule' = rule /\ DOMAIN rows' = DOMAIN rows
         /\ put.from \in OfType("credit_memo") /\ Settles(put, put.from)
<1>1. /\ slot[s].op = "credit" /\ rows' = Marked(put.status)
      /\ applied' = Applying(put.from, put.share)
      /\ Commit(s, Balances) /\ rule' = rule
  BY DEF Credit
<1>2. put \in Credits
  <2>1. slot[s] \in BillingRequest
    BY ShapeIs
  <2> QED BY <1>1, <2>1, RequestIs
<1>3. put.from \in Ids /\ put.share \in PartOf(Nat) /\ put.status \in PartOf(Statuses)
  BY <1>2 DEF Credits
<1>4. /\ rows' \in Seq(RowRecord) /\ Len(rows') = Len(rows) /\ DOMAIN rows' = DOMAIN rows
      /\ \A i \in DOMAIN rows :
           /\ rows'[i].type = rows[i].type /\ rows'[i].total = rows[i].total
           /\ rows'[i].due = rows[i].due
           /\ rows'[i].status = IF i \in DOMAIN put.status THEN put.status[i]
                                ELSE rows[i].status
  <2>1. PICK R : R = Marked(put.status)
    OBVIOUS
  <2>2. /\ R \in Seq(RowRecord) /\ Len(R) = Len(rows) /\ DOMAIN R = DOMAIN rows
        /\ \A i \in DOMAIN rows :
             /\ R[i].type = rows[i].type /\ R[i].total = rows[i].total
             /\ R[i].due = rows[i].due
             /\ R[i].status = IF i \in DOMAIN put.status THEN put.status[i] ELSE rows[i].status
    BY <1>3, <2>1, MarkedIs
  <2> QED BY <1>1, <2>1, <2>2
<1>5. /\ slot' \in [Slots -> BillingRequest] /\ stale' \in BOOLEAN
      /\ OthersLeft(s) /\ stale' = (stale \/ ~slot[s].fresh)
      /\ \A t \in Slots : slot'[t].op \in Balances => ~slot'[t].fresh
  BY <1>1, BalancesLeft
<1>6. applied' \in [Ids \X Ids -> Nat]
  BY <1>1, <1>3, ApplyingTyped
<1>7. Shape'
  BY <1>1, <1>4, <1>5, <1>6, ShapeIs, ShapeNext
<1>8. Kept
  BY <1>4 DEF Kept
<1>9. /\ DOMAIN put.share \subseteq OfType("invoice")
      /\ put.from \in OfType("credit_memo") /\ put.from \notin OfType("invoice")
  BY <1>1 DEF Settling, OfType
<1>10. Settles(put, put.from)
  <2>1. \A i \in DOMAIN rows :
          Sum(i)' = Sum(i) + (IF i \in DOMAIN put.share THEN put.share[i]
                              ELSE IF i = put.from THEN Spent(put.share) ELSE 0)
    BY <1>1, <1>3, <1>8, <1>9, SettleSums
  <2> QED BY <1>1, <1>4, <1>8, <2>1 DEF Settles
<1> QED
  BY <1>1, <1>2, <1>4, <1>5, <1>7, <1>9, <1>10

----------------------------------------------------------------------------
(* The inductive invariants of the balances.                                 *)

BalanceInv ==
  /\ Shape
  /\ AppliedToInvoices
  /\ \A s \in Slots : slot[s].op \in Balances => Settling(slot[s])
  /\ PaymentsCover
  /\ CompletedMeansSettled

OnceInv ==
  /\ \A s \in Slots : slot[s].op \in Balances => Fitting(slot[s])
  /\ NothingTwice

LEMMA RowsFactsNext ==
  (Shape => /\ Len(rows) \in Nat /\ DOMAIN rows = 1..Len(rows)
            /\ DOMAIN rows \subseteq Ids /\ IsFiniteSet(DOMAIN rows)
            /\ \A i \in DOMAIN rows : rows[i] \in RowRecord)'
BY RowsFacts, PTL

LEMMA RequestPut ==
  ASSUME Shape, NEW t \in Slots, slot[t].op \in Balances
  PROVE  /\ slot[t].put.share \in PartOf(Nat)
         /\ slot[t].op \in {"pay", "credit"}
<1>1. slot[t] \in BillingRequest /\ slot[t].op \in {"pay", "credit"}
  BY ShapeIs DEF Balances
<1> QED
  BY <1>1, RequestIs DEF Payments, Credits

LEMMA GivenNat ==
  ASSUME NEW put, put.share \in PartOf(Nat), NEW i
  PROVE  Given(put, i) \in Nat
<1>1. Spent(put.share) \in Nat
  BY SpentNat
<1>2. i \in DOMAIN put.share => put.share[i] \in Nat
  BY PartIs
<1> QED
  BY <1>1, <1>2 DEF Given

LEMMA SettlingRows ==
  ASSUME NEW r, r.op \in Balances, Settling(r)
  PROVE  DOMAIN r.put.status \subseteq DOMAIN rows /\ DOMAIN r.put.share \subseteq DOMAIN rows
         /\ (r.op = "credit" => r.put.from \in DOMAIN rows)
BY DEF Settling, OfType, Balances

\* What is about to be settled still will be when the sums have grown.
LEMMA SettlingKept ==
  ASSUME Shape, Kept, \A i \in DOMAIN rows : Sum(i)' \in Nat /\ Sum(i)' >= Sum(i),
         NEW t \in Slots, slot[t].op \in Balances, Settling(slot[t]),
         slot'[t].op = slot[t].op, slot'[t].put = slot[t].put
  PROVE  Settling(slot[t])'
<1>1. slot[t].put.share \in PartOf(Nat) /\ slot[t].op \in {"pay", "credit"}
  BY RequestPut
<1>2. \A type : OfType(type) \subseteq OfType(type)'
  BY DEF OfType, Kept
<1>3. ASSUME NEW i \in DOMAIN slot[t].put.status, slot[t].put.status[i] = "completed"
      PROVE  rows'[i].total <= Sum(i)' + Given(slot[t].put, i)
  <2>1. i \in DOMAIN rows
    BY SettlingRows
  <2>2. rows[i].total <= Sum(i) + Given(slot[t].put, i)
    BY <1>3 DEF Settling
  <2>3. /\ Given(slot[t].put, i) \in Nat /\ Sum(i) \in Nat /\ rows[i].total \in Nat
        /\ rows'[i].total = rows[i].total
    BY <1>1, <2>1, GivenNat, RestIs DEF Kept
  <2>4. Sum(i)' \in Nat /\ Sum(i)' >= Sum(i)
    BY <2>1
  <2> QED BY <2>2, <2>3, <2>4
<1>4. /\ DOMAIN slot'[t].put.share \subseteq OfType("invoice")'
      /\ slot'[t].op = "pay" => /\ DOMAIN slot'[t].put.status \subseteq DOMAIN slot'[t].put.share
                                /\ Spent(slot'[t].put.share) <= slot'[t].put.total
      /\ slot'[t].op = "credit" =>
           /\ slot'[t].put.from \in OfType("credit_memo")'
           /\ DOMAIN slot'[t].put.status \subseteq DOMAIN slot'[t].put.share \cup {slot'[t].put.from}
  BY <1>2 DEF Settling
<1>5. \A i \in DOMAIN slot'[t].put.status : slot'[t].put.status[i] = "completed" =>
        rows'[i].total <= Sum(i)' + Given(slot'[t].put, i)
  BY <1>3
<1> QED
  BY <1>4, <1>5 DEF Settling, Given, Spent

\* What still fits will do so while the sums stand.
LEMMA FittingKept ==
  ASSUME Kept, \A i \in DOMAIN rows : Sum(i)' = Sum(i),
         NEW t \in Slots, slot[t].op \in Balances, Settling(slot[t]), Fitting(slot[t]),
         slot'[t].op = slot[t].op, slot'[t].put = slot[t].put, slot'[t].fresh => slot[t].fresh
  PROVE  Fitting(slot[t])'
<1>1. \A i \in DOMAIN rows : Rest(i)' = Rest(i)
  BY DEF Rest, Kept
<1>2. /\ DOMAIN slot[t].put.share \subseteq DOMAIN rows
      /\ slot[t].op = "credit" => slot[t].put.from \in DOMAIN rows
  BY SettlingRows
<1> QED
  BY <1>1, <1>2 DEF Fitting, Spent

LEMMA SameSums ==
  ASSUME rows' = rows, applied' = applied
  PROVE  \A i : Sum(i)' = Sum(i) /\ Rest(i)' = Rest(i)
<1>1. \A i : Sum(i)' = Sum(i)
  BY SumIs, SumNext DEF SumOf
<1> QED
  BY <1>1 DEF Rest

LEMMA AskedNext ==
  ASSUME rows' = rows, applied' = applied, NEW t \in Slots,
         Settling(slot'[t]), Fitting(slot'[t])
  PROVE  Settling(slot[t])' /\ Fitting(slot[t])'
<1>1. \A i : Sum(i)' = Sum(i) /\ Rest(i)' = Rest(i)
  BY SameSums
<1>2. Settling(slot[t])'
  BY <1>1 DEF Settling, OfType, Given, Spent
<1>3. Fitting(slot[t])'
  BY <1>1 DEF Fitting, Spent
<1> QED
  BY <1>2, <1>3

LEMMA AddingSums ==
  ASSUME Shape, AppliedToInvoices, Adding, Shape'
  PROVE  /\ \A i \in DOMAIN rows : Sum(i)' = Sum(i) /\ Sum(i) \in Nat
         /\ \A i \in DOMAIN rows' \ DOMAIN rows : Sum(i)' = 0
<1>1. ASSUME NEW i \in DOMAIN rows PROVE Sum(i)' = Sum(i) /\ Sum(i) \in Nat
  <2>1. Sum(i) = SumOf(rows, applied, i) /\ Sum(i)' = SumOf(rows', applied', i)
    BY SumIs, SumNext
  <2>2. rows'[i].type = rows[i].type /\ applied' = applied
    BY DEF Adding, Kept
  <2> QED BY <2>1, <2>2, RestIs DEF SumOf
<1>2. ASSUME NEW i \in DOMAIN rows' \ DOMAIN rows PROVE Sum(i)' = 0
  <2>1. i \in Ids
    BY RowsFactsNext
  <2>2. SumOf(rows', applied, i) = 0
    BY <2>1, NoneApplied
  <2>3. Sum(i)' = SumOf(rows', applied', i) /\ applied' = applied
    BY SumNext DEF Adding
  <2> QED BY <2>2, <2>3
<1> QED
  BY <1>1, <1>2

\* A request that reads balances is one that was there, or has just read them.
Carried ==
  \A t \in Slots : slot'[t].op \in Balances =>
    \/ /\ slot'[t].op = slot[t].op /\ slot'[t].put = slot[t].put
       /\ slot'[t].fresh => slot[t].fresh
    \/ rows' = rows /\ applied' = applied /\ Settling(slot'[t]) /\ Fitting(slot'[t])

LEMMA AddingBalance ==
  ASSUME BalanceInv, Adding, Carried, Shape'
  PROVE  BalanceInv'
<1>1. Shape /\ AppliedToInvoices /\ PaymentsCover /\ CompletedMeansSettled
  BY DEF BalanceInv
<1>2. /\ \A i \in DOMAIN rows : Sum(i)' = Sum(i) /\ Sum(i) \in Nat
      /\ \A i \in DOMAIN rows' \ DOMAIN rows : Sum(i)' = 0
  BY <1>1, AddingSums
<1>3. AppliedToInvoices'
  BY <1>1 DEF AppliedToInvoices, Adding, Kept, OfType
<1>4. ASSUME NEW t \in Slots, slot'[t].op \in Balances PROVE Settling(slot[t])'
  <2>1. CASE slot'[t].op = slot[t].op /\ slot'[t].put = slot[t].put
    <3>1. Settling(slot[t]) /\ slot[t].op \in Balances
      BY <1>4, <2>1 DEF BalanceInv
    <3>2. \A i \in DOMAIN rows : Sum(i)' \in Nat /\ Sum(i)' >= Sum(i)
      BY <1>2
    <3>3. Kept
      BY DEF Adding
    <3> QED BY <1>1, <2>1, <3>1, <3>2, <3>3, SettlingKept
  <2>2. CASE rows' = rows /\ applied' = applied /\ Settling(slot'[t]) /\ Fitting(slot'[t])
    BY <2>2, AskedNext
  <2> QED BY <1>4, <2>1, <2>2 DEF Carried
<1>5. PaymentsCover'
  <2> SUFFICES ASSUME NEW i \in OfType("received_payment")' PROVE Sum(i)' <= rows'[i].total
    BY DEF PaymentsCover
  <2>1. i \in DOMAIN rows' /\ rows'[i].type = "received_payment"
    BY DEF OfType
  <2>2. i \in DOMAIN rows
    BY <2>1 DEF Adding
  <2>3. i \in OfType("received_payment") /\ rows'[i].total = rows[i].total
    BY <2>1, <2>2 DEF OfType, Adding, Kept
  <2> QED BY <1>1, <1>2, <2>2, <2>3 DEF PaymentsCover
<1>6. CompletedMeansSettled'
  <2> SUFFICES ASSUME NEW i \in DOMAIN rows', rows'[i].status = "completed"
               PROVE  Sum(i)' >= rows'[i].total
    BY DEF CompletedMeansSettled
  <2>1. i \in DOMAIN rows
    BY DEF Adding
  <2>2. rows[i].status = "completed" /\ rows'[i].total = rows[i].total
    BY <2>1 DEF Adding, Kept
  <2> QED BY <1>1, <1>2, <2>1, <2>2 DEF CompletedMeansSettled
<1> QED
  BY <1>3, <1>4, <1>5, <1>6 DEF BalanceInv

LEMMA AddingOnce ==
  ASSUME BalanceInv, OnceInv, Adding, Carried, Shape', stale => stale'
  PROVE  OnceInv'
<1>1. Shape /\ AppliedToInvoices
  BY DEF BalanceInv
<1>2. /\ \A i \in DOMAIN rows : Sum(i)' = Sum(i) /\ Sum(i) \in Nat
      /\ \A i \in DOMAIN rows' \ DOMAIN rows : Sum(i)' = 0
  BY <1>1, AddingSums
<1>3. ASSUME NEW t \in Slots, slot'[t].op \in Balances PROVE Fitting(slot[t])'
  <2>1. CASE /\ slot'[t].op = slot[t].op /\ slot'[t].put = slot[t].put
             /\ slot'[t].fresh => slot[t].fresh
    <3>1. Settling(slot[t]) /\ Fitting(slot[t]) /\ slot[t].op \in Balances
      BY <1>3, <2>1 DEF BalanceInv, OnceInv
    <3>2. \A i \in DOMAIN rows : Sum(i)' = Sum(i)
      BY <1>2
    <3>3. Kept
      BY DEF Adding
    <3> QED BY <2>1, <3>1, <3>2, <3>3, FittingKept
  <2>2. CASE rows' = rows /\ applied' = applied /\ Settling(slot'[t]) /\ Fitting(slot'[t])
    BY <2>2, AskedNext
  <2> QED BY <1>3, <2>1, <2>2 DEF Carried
<1>4. NothingTwice'
  <2> SUFFICES ASSUME ~stale', NEW i \in DOMAIN rows' PROVE Sum(i)' <= rows'[i].total
    BY DEF NothingTwice
  <2>1. ~stale
    OBVIOUS
  <2>2. CASE i \in DOMAIN rows
    <3>1. Sum(i) <= rows[i].total /\ rows'[i].total = rows[i].total
      BY <2>1, <2>2 DEF OnceInv, NothingTwice, Adding, Kept
    <3> QED BY <1>2, <2>2, <3>1
  <2>3. CASE i \notin DOMAIN rows
    <3>1. rows'[i].total \in Nat
      BY RowsFactsNext, RowIs
    <3> QED BY <1>2, <2>3, <3>1
  <2> QED BY <2>2, <2>3
<1> QED
  BY <1>3, <1>4 DEF OnceInv

LEMMA SettlesGrow ==
  ASSUME Shape, NEW put, put.share \in PartOf(Nat), NEW from, Settles(put, from)
  PROVE  \A i \in DOMAIN rows : Sum(i) \in Nat /\ Sum(i)' \in Nat /\ Sum(i)' >= Sum(i)
<1> SUFFICES ASSUME NEW i \in DOMAIN rows
             PROVE  Sum(i) \in Nat /\ Sum(i)' \in Nat /\ Sum(i)' >= Sum(i)
  OBVIOUS
<1>1. Sum(i)' = Sum(i) + (IF i \in DOMAIN put.share THEN put.share[i]
                          ELSE IF i = from THEN Spent(put.share) ELSE 0)
  BY DEF Settles
<1>2. Sum(i) \in Nat /\ Spent(put.share) \in Nat
  BY RestIs, SpentNat
<1>3. i \in DOMAIN put.share => put.share[i] \in Nat
  BY PartIs
<1> QED
  BY <1>1, <1>2, <1>3

\* What a payment or a credit leaves of the other requests, the applications and the
\* rows that were there.
LEMMA SettlesBalance ==
  ASSUME BalanceInv, Shape', NEW s \in Slots, OthersLeft(s),
         slot[s].op \in Balances, NEW put, put = slot[s].put,
         NEW from \in Ids, from \notin OfType("invoice"), from \in DOMAIN rows',
         rows'[from].type # "invoice", slot[s].op = "credit" => from = put.from,
         Settles(put, from)
  PROVE  /\ AppliedToInvoices'
         /\ \A t \in Slots : slot'[t].op \in Balances => Settling(slot[t])'
         /\ \A i \in DOMAIN rows :
              rows'[i].status = "completed" => Sum(i)' >= rows'[i].total
<1>1. /\ Shape /\ AppliedToInvoices /\ Settling(slot[s]) /\ Kept /\ put.share \in PartOf(Nat)
      /\ slot[s].op \in {"pay", "credit"}
  BY RequestPut DEF BalanceInv, Settles
<1>2. \A i \in DOMAIN rows : Sum(i) \in Nat /\ Sum(i)' \in Nat /\ Sum(i)' >= Sum(i)
  BY <1>1, SettlesGrow
<1>3. AppliedToInvoices'
  <2> SUFFICES ASSUME NEW i \in Ids, NEW j \in Ids, applied'[<<i, j>>] # 0
               PROVE  /\ i \in DOMAIN rows' /\ rows'[i].type # "invoice"
                      /\ j \in OfType("invoice")'
    BY DEF AppliedToInvoices
  <2>1. applied'[<<i, j>>]
          = applied[<<i, j>>] + IF i = from /\ j \in DOMAIN put.share THEN put.share[j] ELSE 0
    BY DEF Settles, Applying
  <2>2. applied[<<i, j>>] \in Nat
    <3>1. applied \in [Ids \X Ids -> Nat]
      BY <1>1, ShapeIs
    <3> QED BY <3>1
  <2>3. CASE applied[<<i, j>>] # 0
    BY <1>1, <2>3 DEF AppliedToInvoices, OfType, Kept
  <2>4. CASE applied[<<i, j>>] = 0
    <3>1. i = from /\ j \in DOMAIN put.share
      BY <2>1, <2>4
    <3>2. j \in OfType("invoice")
      BY <1>1, <3>1 DEF Settling
    <3> QED BY <1>1, <3>1, <3>2 DEF OfType, Kept
  <2> QED BY <2>3, <2>4
<1>4. ASSUME NEW t \in Slots, slot'[t].op \in Balances PROVE Settling(slot[t])'
  <2>1. slot'[t].op = slot[t].op /\ slot'[t].put = slot[t].put
    BY <1>4 DEF OthersLeft, Balances
  <2>2. slot[t].op \in Balances /\ Settling(slot[t])
    BY <1>4, <2>1 DEF BalanceInv
  <2> QED BY <1>1, <1>2, <2>1, <2>2, SettlingKept
<1>5. ASSUME NEW i \in DOMAIN rows, rows'[i].status = "completed"
      PROVE  Sum(i)' >= rows'[i].total
  <2>1. /\ rows'[i].status = IF i \in DOMAIN put.status THEN put.status[i] ELSE rows[i].status
        /\ Sum(i)' = Sum(i) + (IF i \in DOMAIN put.share THEN put.share[i]
                               ELSE IF i = from THEN Spent(put.share) ELSE 0)
        /\ rows'[i].total = rows[i].total
    BY DEF Settles, Kept
  <2>2. rows[i].total \in Nat /\ Given(put, i) \in Nat
    BY <1>1, RestIs, GivenNat
  <2>3. CASE i \in DOMAIN put.status
    <3>1. rows[i].total <= Sum(i) + Given(put, i)
      BY <1>1, <1>5, <2>1, <2>3 DEF Settling
    <3>2. i \notin DOMAIN put.share => i = from
      BY <1>1, <2>3 DEF Settling
    <3>3. Sum(i)' = Sum(i) + Given(put, i)
      BY <2>1, <3>2 DEF Given
    <3> QED BY <1>2, <2>1, <2>2, <3>1, <3>3
  <2>4. CASE i \notin DOMAIN put.status
    <3>1. Sum(i) >= rows[i].total
      BY <1>5, <2>1, <2>4 DEF BalanceInv, CompletedMeansSettled
    <3> QED BY <1>2, <2>1, <2>2, <3>1
  <2> QED BY <2>3, <2>4
<1> QED
  BY <1>3, <1>4, <1>5

\* On the rows that were there nothing is applied twice if nobody was overtaken.
LEMMA SettlesOnce ==
  ASSUME BalanceInv, OnceInv, NEW s \in Slots, slot[s].op \in Balances,
         NEW put, put = slot[s].put, NEW from,
         from \in DOMAIN rows => slot[s].op = "credit" /\ from = put.from,
         Settles(put, from), stale' = (stale \/ ~slot[s].fresh), ~stale'
  PROVE  \A i \in DOMAIN rows : Sum(i)' <= rows'[i].total
<1> SUFFICES ASSUME NEW i \in DOMAIN rows PROVE Sum(i)' <= rows'[i].total
  OBVIOUS
<1>1. Shape /\ Settling(slot[s]) /\ put.share \in PartOf(Nat) /\ ~stale /\ slot[s].fresh
  BY RequestPut DEF BalanceInv
<1>2. Fitting(slot[s]) /\ Sum(i) <= rows[i].total
  BY <1>1 DEF OnceInv, NothingTwice
<1>3. /\ Sum(i) \in Nat /\ rows[i].total \in Nat
      /\ Rest(i) = IF rows[i].total > Sum(i) THEN rows[i].total - Sum(i) ELSE 0
  BY <1>1, RestIs
<1>4. /\ Sum(i)' = Sum(i) + (IF i \in DOMAIN put.share THEN put.share[i]
                             ELSE IF i = from THEN Spent(put.share) ELSE 0)
      /\ rows'[i].total = rows[i].total
  BY DEF Settles, Kept
<1>5. CASE i \in DOMAIN put.share
  <2>1. put.share[i] <= Rest(i)
    BY <1>1, <1>2, <1>5 DEF Fitting
  <2>2. put.share[i] \in Nat
    BY <1>1, <1>5, PartIs
  <2> QED BY <1>2, <1>3, <1>4, <1>5, <2>1, <2>2
<1>6. CASE i \notin DOMAIN put.share /\ i = from
  <2>1. Spent(put.share) <= Rest(i)
    BY <1>1, <1>2, <1>6 DEF Fitting
  <2>2. Spent(put.share) \in Nat
    BY <1>1, SpentNat
  <2> QED BY <1>2, <1>3, <1>4, <1>6, <2>1, <2>2
<1>7. CASE i \notin DOMAIN put.share /\ i # from
  BY <1>2, <1>3, <1>4, <1>7
<1> QED
  BY <1>5, <1>6, <1>7

LEMMA FittingNone ==
  ASSUME \A t \in Slots : slot'[t].op \in Balances => ~slot'[t].fresh
  PROVE  \A t \in Slots : slot'[t].op \in Balances => Fitting(slot[t])'
BY DEF Fitting

LEMMA PayBalance ==
  ASSUME BalanceInv, NEW s \in Slots, Pay(s)
  PROVE  BalanceInv' /\ (OnceInv => OnceInv')
<1>1. PICK put : put = slot[s].put
  OBVIOUS
<1>2. PICK n : n = Len(rows) + 1
  OBVIOUS
<1>3. Shape /\ AppliedToInvoices /\ slot[s].op = "pay" /\ slot[s].op \in Balances
      /\ Settling(slot[s])
  BY DEF BalanceInv, Pay, Balances
<1>4. /\ Shape' /\ OthersLeft(s) /\ stale' = (stale \/ ~slot[s].fresh)
      /\ \A t \in Slots : slot'[t].op \in Balances => ~slot'[t].fresh
  BY <1>1, <1>2, <1>3, PayStep
<1>5. /\ put \in Payments /\ n \in Ids /\ n \notin DOMAIN rows
      /\ DOMAIN rows' = DOMAIN rows \cup {n}
      /\ rows'[n].type = "received_payment" /\ rows'[n].total = put.total
      /\ rows'[n].status = "completed" => Spent(put.share) >= put.total
  <2>1. put \in Payments /\ Paid(put, n)
    BY <1>1, <1>2, <1>3, PayStep
  <2> QED BY <2>1 DEF Paid
<1>6. Settles(put, n) /\ Sum(n)' = Spent(put.share)
  <2>1. Paid(put, n)
    BY <1>1, <1>2, <1>3, PayStep
  <2> QED BY <2>1 DEF Paid
<1>7. n \notin OfType("invoice")
  BY <1>5 DEF OfType
<1>8. /\ AppliedToInvoices'
      /\ \A t \in Slots : slot'[t].op \in Balances => Settling(slot[t])'
      /\ \A i \in DOMAIN rows : rows'[i].status = "completed" => Sum(i)' >= rows'[i].total
  <2>1. n \in DOMAIN rows' /\ rows'[n].type # "invoice" /\ slot[s].op # "credit"
    BY <1>3, <1>5
  <2> QED BY <1>1, <1>3, <1>4, <1>5, <1>6, <1>7, <2>1, SettlesBalance
<1>9. Spent(put.share) <= put.total
  BY <1>1, <1>3 DEF Settling
<1>10. PaymentsCover'
  <2> SUFFICES ASSUME NEW i \in OfType("received_payment")' PROVE Sum(i)' <= rows'[i].total
    BY DEF PaymentsCover
  <2>1. i \in DOMAIN rows' /\ rows'[i].type = "received_payment"
    BY DEF OfType
  <2>2. CASE i = n
    BY <1>5, <1>6, <1>9, <2>2
  <2>3. CASE i # n
    <3>1. /\ i \in DOMAIN rows /\ rows'[i].type = rows[i].type
          /\ rows'[i].total = rows[i].total
      BY <1>5, <1>6, <2>1, <2>3 DEF Settles, Kept
    <3>2. i \in OfType("received_payment") /\ i \notin DOMAIN put.share
      BY <1>1, <1>3, <2>1, <3>1 DEF OfType, Settling
    <3>3. Sum(i)' = Sum(i) + 0
      BY <1>6, <2>3, <3>1, <3>2 DEF Settles
    <3>4. Sum(i) <= rows[i].total /\ Sum(i) \in Nat
      BY <1>3, <3>1, <3>2, RestIs DEF BalanceInv, PaymentsCover
    <3> QED BY <3>1, <3>3, <3>4
  <2> QED BY <2>2, <2>3
<1>11. CompletedMeansSettled'
  BY <1>5, <1>6, <1>8 DEF CompletedMeansSettled
<1>12. ASSUME OnceInv PROVE OnceInv'
  <2>1. ASSUME ~stale' PROVE \A i \in DOMAIN rows : Sum(i)' <= rows'[i].total
    <3>1. n \in DOMAIN rows => slot[s].op = "credit" /\ n = put.from
      BY <1>5
    <3> QED BY <1>1, <1>3, <1>4, <1>6, <1>12, <2>1, <3>1, SettlesOnce
  <2>2. NothingTwice'
    BY <1>5, <1>6, <1>9, <2>1 DEF NothingTwice
  <2>3. \A t \in Slots : slot'[t].op \in Balances => Fitting(slot[t])'
    BY <1>4, FittingNone
  <2> QED BY <2>2, <2>3 DEF OnceInv
<1> QED
  BY <1>4, <1>8, <1>10, <1>11, <1>12 DEF BalanceInv

LEMMA CreditBalance ==
  ASSUME BalanceInv, NEW s \in Slots, Credit(s)
  PROVE  BalanceInv' /\ (OnceInv => OnceInv')
<1>1. PICK put : put = slot[s].put
  OBVIOUS
<1>2. PICK from : from = put.from
  OBVIOUS
<1>3. Shape /\ slot[s].op = "credit" /\ slot[s].op \in Balances /\ Settling(slot[s])
  BY DEF BalanceInv, Credit, Balances
<1>4. /\ Shape' /\ OthersLeft(s) /\ stale' = (stale \/ ~slot[s].fresh)
      /\ \A t \in Slots : slot'[t].op \in Balances => ~slot'[t].fresh
  BY <1>1, <1>3, CreditStep
<1>5. /\ put \in Credits /\ DOMAIN rows' = DOMAIN rows
      /\ from \in OfType("credit_memo") /\ Settles(put, from)
  BY <1>1, <1>2, <1>3, CreditStep
<1>6. /\ from \in DOMAIN rows /\ rows[from].type = "credit_memo"
      /\ from \notin OfType("invoice") /\ from \in Ids
  BY <1>3, <1>5, RowsFacts DEF OfType
<1>7. rows'[from].type # "invoice" /\ from \in DOMAIN rows'
  BY <1>5, <1>6 DEF Settles, Kept
<1>8. /\ AppliedToInvoices'
      /\ \A t \in Slots : slot'[t].op \in Balances => Settling(slot[t])'
      /\ \A i \in DOMAIN rows : rows'[i].status = "completed" => Sum(i)' >= rows'[i].total
  BY <1>1, <1>2, <1>3, <1>4, <1>5, <1>6, <1>7, SettlesBalance
<1>9. PaymentsCover'
  <2> SUFFICES ASSUME NEW i \in OfType("received_payment")' PROVE Sum(i)' <= rows'[i].total
    BY DEF PaymentsCover
  <2>1. /\ i \in DOMAIN rows /\ rows'[i].type = "received_payment"
        /\ rows'[i].type = rows[i].type /\ rows'[i].total = rows[i].total
    BY <1>5 DEF OfType, Settles, Kept
  <2>2. i \in OfType("received_payment") /\ i \notin DOMAIN put.share /\ i # from
    BY <1>1, <1>3, <1>6, <2>1 DEF OfType, Settling
  <2>3. Sum(i)' = Sum(i) + 0
    BY <1>5, <2>1, <2>2 DEF Settles
  <2>4. Sum(i) <= rows[i].total /\ Sum(i) \in Nat
    BY <1>3, <2>1, <2>2, RestIs DEF BalanceInv, PaymentsCover
  <2> QED BY <2>1, <2>3, <2>4
<1>10. CompletedMeansSettled'
  BY <1>5, <1>8 DEF CompletedMeansSettled
<1>11. ASSUME OnceInv PROVE OnceInv'
  <2>1. ASSUME ~stale' PROVE \A i \in DOMAIN rows : Sum(i)' <= rows'[i].total
    BY <1>1, <1>2, <1>3, <1>4, <1>5, <1>11, <2>1, SettlesOnce
  <2>2. NothingTwice'
    BY <1>5, <2>1 DEF NothingTwice
  <2>3. \A t \in Slots : slot'[t].op \in Balances => Fitting(slot[t])'
    BY <1>4, FittingNone
  <2> QED BY <2>2, <2>3 DEF OnceInv
<1> QED
  BY <1>4, <1>8, <1>9, <1>10, <1>11 DEF BalanceInv

----------------------------------------------------------------------------
(* Every step adds open invoices at most, or is a payment or a credit.       *)

LEMMA CarriedOnly ==
  ASSUME NEW s \in Slots, OnlySlot(s),
         slot'[s].op \in Balances => Settling(slot'[s]) /\ Fitting(slot'[s])
  PROVE  Adding /\ Carried /\ (stale => stale')
<1>1. rows' = rows /\ applied' = applied /\ stale' = stale
  BY DEF OnlySlot
<1>2. Adding
  BY <1>1, AddingNone
<1>3. ASSUME NEW t \in Slots, slot'[t].op \in Balances
      PROVE  \/ /\ slot'[t].op = slot[t].op /\ slot'[t].put = slot[t].put
                /\ slot'[t].fresh => slot[t].fresh
             \/ rows' = rows /\ applied' = applied /\ Settling(slot'[t]) /\ Fitting(slot'[t])
  <2>1. CASE t = s
    BY <1>1, <1>3, <2>1
  <2>2. CASE t # s
    BY <2>2 DEF OnlySlot
  <2> QED BY <2>1, <2>2
<1> QED
  BY <1>1, <1>2, <1>3 DEF Carried

LEMMA CarriedOthers ==
  ASSUME NEW s, OthersLeft(s), stale' = (stale \/ ~slot[s].fresh)
  PROVE  Carried /\ (stale => stale')
BY DEF OthersLeft, Carried, Balances

LEMMA StepKinds ==
  ASSUME Shape, [Next]_vars
  PROVE  \/ Shape' /\ Adding /\ Carried /\ (stale => stale')
         \/ \E s \in Slots : Pay(s) \/ Credit(s)
<1>1. CASE UNCHANGED vars
  <2>1. UNCHANGED <<rows, applied, rule, slot, stale>>
    BY <1>1 DEF vars
  <2>2. Shape'
    BY <2>1, ShapeIs, ShapeNext
  <2> QED BY <2>1, <2>2, AddingNone DEF Carried
<1>2. CASE Charge
  <2>1. Shape' /\ Adding /\ slot' = slot /\ stale' = stale
    BY <1>2, ChargeStep
  <2> QED BY <2>1 DEF Carried
<1>3. ASSUME NEW s \in Slots, ReadRule(s) PROVE Shape' /\ Adding /\ Carried /\ (stale => stale')
  <2>1. Shape' /\ OnlySlot(s) /\ slot'[s].op = "generate"
    BY <1>3, ReadRuleStep
  <2> QED BY <2>1, CarriedOnly DEF Balances
<1>4. ASSUME NEW s \in Slots, Generate(s) PROVE Shape' /\ Adding /\ Carried /\ (stale => stale')
  <2>1. Shape' /\ Adding /\ OthersLeft(s) /\ stale' = (stale \/ ~slot[s].fresh)
    BY <1>4, GenerateStep
  <2> QED BY <2>1, CarriedOthers
<1>5. ASSUME NEW s \in Slots, ReadToUpdate(s)
      PROVE  Shape' /\ Adding /\ Carried /\ (stale => stale')
  <2>1. Shape' /\ OnlySlot(s) /\ slot'[s].op = "update"
    BY <1>5, ReadToUpdateStep
  <2> QED BY <2>1, CarriedOnly DEF Balances
<1>6. ASSUME NEW s \in Slots, Update(s) PROVE Shape' /\ Adding /\ Carried /\ (stale => stale')
  <2>1. /\ Shape' /\ rows' = rows /\ applied' = applied
        /\ OthersLeft(s) /\ stale' = (stale \/ ~slot[s].fresh)
    BY <1>6, UpdateStep
  <2> QED BY <2>1, AddingNone, CarriedOthers
<1>7. ASSUME NEW s \in Slots, ReadToPay(s) PROVE Shape' /\ Adding /\ Carried /\ (stale => stale')
  <2>1. Shape' /\ OnlySlot(s) /\ Settling(slot'[s]) /\ Fitting(slot'[s])
    BY <1>7, ReadToPayStep
  <2> QED BY <2>1, CarriedOnly
<1>8. ASSUME NEW s \in Slots, ReadToCredit(s)
      PROVE  Shape' /\ Adding /\ Carried /\ (stale => stale')
  <2>1. Shape' /\ OnlySlot(s) /\ Settling(slot'[s]) /\ Fitting(slot'[s])
    BY <1>8, ReadToCreditStep
  <2> QED BY <2>1, CarriedOnly
<1>9. ASSUME NEW s \in Slots, Abort(s) PROVE Shape' /\ Adding /\ Carried /\ (stale => stale')
  <2>1. Shape' /\ OnlySlot(s) /\ slot'[s].op = "idle"
    BY <1>9, AbortStep
  <2> QED BY <2>1, CarriedOnly DEF Balances
<1> QED
  BY <1>1, <1>2, <1>3, <1>4, <1>5, <1>6, <1>7, <1>8, <1>9 DEF Next

LEMMA BalanceStep ==
  ASSUME BalanceInv, [Next]_vars
  PROVE  BalanceInv' /\ (OnceInv => OnceInv')
<1>1. Shape
  BY DEF BalanceInv
<1>2. CASE Shape' /\ Adding /\ Carried /\ (stale => stale')
  BY <1>2, AddingBalance, AddingOnce
<1>3. ASSUME NEW s \in Slots, Pay(s) \/ Credit(s) PROVE BalanceInv' /\ (OnceInv => OnceInv')
  BY <1>3, PayBalance, CreditBalance
<1> QED
  BY <1>1, <1>2, <1>3, StepKinds

LEMMA BalanceInit ==
  ASSUME Init
  PROVE  BalanceInv /\ OnceInv
<1>1. /\ rows \in {<<>>} \cup {<<Row("credit_memo", a, "posted", 0)>> : a \in Prices}
      /\ applied = [p \in Ids \X Ids |-> 0]
      /\ rule \in [amount : Prices, next : {1}, end : 1..LastDate, active : {TRUE}]
      /\ slot = [s \in Slots |-> Idle] /\ stale = FALSE
  BY DEF Init
<1>2. /\ rows \in Seq(RowRecord) /\ Len(rows) <= 1
      /\ \A i \in DOMAIN rows : rows[i].type = "credit_memo" /\ rows[i].status = "posted"
  <2>1. CASE rows = <<>>
    BY <2>1
  <2>2. ASSUME NEW a \in Prices, rows = <<Row("credit_memo", a, "posted", 0)>>
        PROVE  /\ rows \in Seq(RowRecord) /\ Len(rows) <= 1
               /\ \A i \in DOMAIN rows : rows[i].type = "credit_memo" /\ rows[i].status = "posted"
    <3> DEFINE row == Row("credit_memo", a, "posted", 0)
    <3>1. row \in RowRecord /\ row.type = "credit_memo" /\ row.status = "posted"
      <4>1. a \in Nat /\ 0 \in 0..LastDate /\ "posted" \in Statuses
        BY BillingAssumption DEF Statuses
      <4> QED BY <4>1, RowTyped
    <3> HIDE DEF row
    <3>2. rows = <<row>>
      BY <2>2 DEF row
    <3> QED BY <3>1, <3>2
  <2> QED BY <1>1, <2>1, <2>2
<1>3. applied \in [Ids \X Ids -> Nat] /\ \A i, j \in Ids : applied[<<i, j>>] = 0
  BY <1>1
<1>4. slot \in [Slots -> BillingRequest] /\ \A s \in Slots : slot[s].op = "idle"
  <2>1. Idle \in BillingRequest /\ Idle.op = "idle"
    BY Asking DEF Idle
  <2> QED BY <1>1, <2>1
<1>5. rule \in Rules
  <2>1. 1 \in 1..(LastDate + 1)
    BY BillingAssumption
  <2> QED BY <1>1, <2>1 DEF Rules
<1>6. Shape
  <2>1. Len(rows) \in Nat
    BY <1>2
  <2>2. Len(rows) <= MaxRows
    BY <1>2, <2>1, IdsFinite
  <2> QED BY <1>1, <1>2, <1>3, <1>4, <1>5, <2>2, ShapeIs
<1>7. AppliedToInvoices
  BY <1>3 DEF AppliedToInvoices
<1>8. \A s \in Slots : slot[s].op \notin Balances
  BY <1>4 DEF Balances
<1>9. PaymentsCover
  BY <1>2 DEF PaymentsCover, OfType
<1>10. CompletedMeansSettled
  BY <1>2 DEF CompletedMeansSettled
<1>11. ASSUME NEW i \in DOMAIN rows PROVE Sum(i) <= rows[i].total
  <2>1. i \in Ids /\ rows[i].total \in Nat
    BY <1>6, RowsFacts, RowIs
  <2>2. \A j \in Ids : FromSource(applied, i)[j] = 0
    BY <1>3, <2>1 DEF FromSource
  <2>3. Total(FromSource(applied, i), Ids) = 0
    BY <2>2, IdsFinite, TotalZero
  <2>4. SumOf(rows, applied, i) = 0
    BY <1>2, <2>3 DEF SumOf
  <2> QED BY <2>1, <2>4, SumIs
<1>12. NothingTwice
  BY <1>11 DEF NothingTwice
<1> QED
  BY <1>6, <1>7, <1>8, <1>9, <1>10, <1>12 DEF BalanceInv, OnceInv

----------------------------------------------------------------------------
(* Each day once.                                                            *)

\* Of the days, those before next are due in one of the rows and the others in none.
Days(R, next) ==
  \A d \in 1..LastDate :
    \/ d >= next /\ \A i \in DOMAIN R : R[i].due # d
    \/ d < next /\ \E i \in DOMAIN R : \A k \in DOMAIN R : R[k].due = d <=> k = i

\* A request that nobody has overtaken goes on from the date the rule has now.
Timely(r, next) ==
  r.fresh => /\ r.op = "update" => r.put.next = next
             /\ r.op = "generate" => DaysFrom(r.put, next)

DayInv ==
  /\ \A s \in Slots : Timely(slot[s], rule.next)
  /\ ~stale => Days(rows, rule.next)

LEMMA DaysKept ==
  ASSUME Kept, \A i \in DOMAIN rows' \ DOMAIN rows : rows'[i].due = 0,
         NEW next, Days(rows, next)
  PROVE  Days(rows', next)
<1> SUFFICES ASSUME NEW d \in 1..LastDate
             PROVE  \/ d >= next /\ \A i \in DOMAIN rows' : rows'[i].due # d
                    \/ d < next /\ \E i \in DOMAIN rows' :
                                     \A k \in DOMAIN rows' : rows'[k].due = d <=> k = i
  BY DEF Days
<1>1. d # 0
  BY BillingAssumption
<1>2. \A i \in DOMAIN rows : i \in DOMAIN rows' /\ rows'[i].due = rows[i].due
  BY DEF Kept
<1>3. CASE d >= next /\ \A i \in DOMAIN rows : rows[i].due # d
  BY <1>1, <1>2, <1>3
<1>4. ASSUME d < next, NEW i \in DOMAIN rows,
             \A k \in DOMAIN rows : rows[k].due = d <=> k = i
      PROVE  \E j \in DOMAIN rows' : \A k \in DOMAIN rows' : rows'[k].due = d <=> k = j
  <2>1. i \in DOMAIN rows' /\ \A k \in DOMAIN rows' : rows'[k].due = d <=> k = i
    BY <1>1, <1>2, <1>4
  <2> QED BY <2>1
<1> QED
  BY <1>3, <1>4 DEF Days

\* The days of one generation follow those that were charged.
LEMMA DaysGenerated ==
  ASSUME Shape, Shape', Kept, NEW put, NEW next \in 1..(LastDate + 1), DaysFrom(put, next),
         DaysAdded(put),
         Days(rows, next)
  PROVE  Days(rows', put.next)
<1>1. PICK b \in 0..LastDate : /\ put.dates = next..b
                               /\ put.next = IF b < next THEN next ELSE b + 1
  BY DEF DaysFrom
<1>2. next \in Int /\ b \in Int /\ LastDate \in Nat
  BY BillingAssumption
<1>3. /\ Len(rows') = Len(rows) + (IF b < next THEN 0 ELSE b - next + 1)
      /\ \A i \in DOMAIN rows' \ DOMAIN rows : rows'[i].due = next + (i - Len(rows)) - 1
  BY <1>1, <1>2 DEF DaysAdded
<1>4. /\ Len(rows) \in Nat /\ DOMAIN rows = 1..Len(rows)
      /\ Len(rows') \in Nat /\ DOMAIN rows' = 1..Len(rows')
  BY RowsFacts, RowsFactsNext
<1>5. \A i \in DOMAIN rows : i \in DOMAIN rows' /\ rows'[i].due = rows[i].due
  BY DEF Kept
<1>6. \A i \in DOMAIN rows' \ DOMAIN rows :
        rows'[i].due >= next /\ rows'[i].due <= b /\ next <= b
  BY <1>2, <1>3, <1>4
<1> SUFFICES ASSUME NEW d \in 1..LastDate
             PROVE  \/ d >= put.next /\ \A i \in DOMAIN rows' : rows'[i].due # d
                    \/ d < put.next /\ \E i \in DOMAIN rows' :
                                         \A k \in DOMAIN rows' : rows'[k].due = d <=> k = i
  BY DEF Days
<1>7. CASE d < next
  <2>1. PICK i \in DOMAIN rows : \A k \in DOMAIN rows : rows[k].due = d <=> k = i
    BY <1>2, <1>7 DEF Days
  <2>2. i \in DOMAIN rows' /\ \A k \in DOMAIN rows' : rows'[k].due = d <=> k = i
    <3> SUFFICES ASSUME NEW k \in DOMAIN rows' PROVE rows'[k].due = d <=> k = i
      BY <1>5, <2>1
    <3>1. CASE k \in DOMAIN rows
      BY <1>5, <2>1, <3>1
    <3>2. CASE k \notin DOMAIN rows
      <4>1. rows'[k].due # d
        <5>1. rows'[k].due = next + (k - Len(rows)) - 1 /\ rows'[k].due >= next
          BY <1>3, <1>6, <3>2
        <5>2. next \in Int /\ Len(rows) \in Int /\ k \in Int /\ d \in Int
          BY <1>2, <1>4
        <5>3. rows'[k].due \in Int
          BY <5>1, <5>2
        <5> QED BY <1>7, <5>1, <5>2, <5>3
      <4> QED BY <2>1, <3>2, <4>1
    <3> QED BY <3>1, <3>2
  <2>3. d < put.next
    BY <1>1, <1>2, <1>7
  <2> QED BY <2>2, <2>3
<1>8. CASE d >= next /\ d <= b
  <2>1. \A k \in DOMAIN rows : rows'[k].due # d
    BY <1>2, <1>5, <1>8 DEF Days
  <2> DEFINE i == Len(rows) + (d - next) + 1
  <2>2. i \in DOMAIN rows' \ DOMAIN rows
    BY <1>2, <1>3, <1>4, <1>8
  <2>3. \A k \in DOMAIN rows' : rows'[k].due = d <=> k = i
    <3> SUFFICES ASSUME NEW k \in DOMAIN rows' PROVE rows'[k].due = d <=> k = i
      OBVIOUS
    <3>1. CASE k \in DOMAIN rows
      BY <2>1, <2>2, <3>1
    <3>2. CASE k \notin DOMAIN rows
      <4>1. rows'[k].due = next + (k - Len(rows)) - 1 /\ k \in Int
        BY <1>3, <1>4, <3>2
      <4>2. next \in Int /\ Len(rows) \in Int /\ d \in Int
        BY <1>2, <1>4
      <4> HIDE DEF i
      <4>3. i \in Int /\ i = Len(rows) + (d - next) + 1
        BY <4>2 DEF i
      <4> QED BY <4>1, <4>2, <4>3
    <3> QED BY <3>1, <3>2
  <2>4. d < put.next
    BY <1>1, <1>2, <1>8
  <2> HIDE DEF i
  <2> QED BY <2>2, <2>3, <2>4
<1>9. CASE d >= next /\ d > b
  <2>1. d >= put.next
    BY <1>1, <1>2, <1>9
  <2>2. \A k \in DOMAIN rows' : rows'[k].due # d
    <3> SUFFICES ASSUME NEW k \in DOMAIN rows' PROVE rows'[k].due # d
      OBVIOUS
    <3>1. CASE k \in DOMAIN rows
      BY <1>2, <1>5, <1>9, <3>1 DEF Days
    <3>2. CASE k \notin DOMAIN rows
      <4>1. rows'[k].due = next + (k - Len(rows)) - 1 /\ k \in Int /\ rows'[k].due <= b
        BY <1>3, <1>4, <1>6, <3>2
      <4>2. rows'[k].due \in Int /\ d \in Int
        BY <1>2, <1>4, <4>1
      <4> QED BY <1>2, <1>9, <4>1, <4>2
    <3> QED BY <3>1, <3>2
  <2> QED BY <2>1, <2>2
<1> QED
  BY <1>2, <1>7, <1>8, <1>9

LEMMA TimelyOnly ==
  ASSUME DayInv, NEW s \in Slots, OnlySlot(s), Timely(slot'[s], rule.next)
  PROVE  DayInv'
<1>1. \A t \in Slots : Timely(slot'[t], rule'.next)
  BY DEF OnlySlot, DayInv
<1>2. ~stale' => Days(rows', rule'.next)
  BY DEF OnlySlot, DayInv
<1> QED
  BY <1>1, <1>2 DEF DayInv

LEMMA TimelyOthers ==
  ASSUME DayInv, NEW s \in Slots, OthersLeft(s),
         rule'.next = rule.next \/ \A t \in Slots : slot'[t].op \in Recurring => ~slot'[t].fresh
  PROVE  \A t \in Slots : Timely(slot'[t], rule'.next)
<1> SUFFICES ASSUME NEW t \in Slots, slot'[t].fresh, slot'[t].op \in Recurring
             PROVE  Timely(slot'[t], rule'.next)
  BY DEF Timely, Recurring
<1>1. slot'[t].op = slot[t].op /\ slot'[t].put = slot[t].put /\ slot[t].fresh
  BY DEF OthersLeft, Recurring
<1>2. rule'.next = rule.next
  OBVIOUS
<1> QED
  BY <1>1, <1>2 DEF DayInv, Timely

LEMMA DayStep ==
  ASSUME BalanceInv, DayInv, [Next]_vars
  PROVE  DayInv'
<1>1. Shape /\ AppliedToInvoices
      /\ \A s \in Slots : slot[s].op \in Balances => Settling(slot[s])
  BY DEF BalanceInv
<1>2. CASE UNCHANGED vars
  BY <1>2 DEF DayInv, vars
<1>3. CASE Charge
  <2>1. /\ Adding /\ rule' = rule /\ slot' = slot /\ stale' = stale
        /\ \A i \in DOMAIN rows' \ DOMAIN rows : rows'[i].due = 0
    BY <1>1, <1>3, ChargeStep
  <2>2. ~stale' => Days(rows', rule.next)
    BY <2>1, DaysKept DEF DayInv, Adding
  <2> QED BY <2>1, <2>2 DEF DayInv
<1>4. ASSUME NEW s \in Slots, ReadRule(s) PROVE DayInv'
  <2>1. OnlySlot(s) /\ slot'[s].op = "generate" /\ DaysFrom(slot'[s].put, rule.next)
    BY <1>1, <1>4, ReadRuleStep
  <2> QED BY <2>1, TimelyOnly DEF Timely
<1>5. ASSUME NEW s \in Slots, Generate(s) PROVE DayInv'
  <2>1. PICK put : put = slot[s].put
    OBVIOUS
  <2>2. /\ Shape' /\ Adding /\ OthersLeft(s) /\ stale' = (stale \/ ~slot[s].fresh)
        /\ \A t \in Slots : slot'[t].op \in Recurring => ~slot'[t].fresh
    BY <1>1, <1>5, GenerateStep
  <2>3. rule'.next = put.next
    BY <1>1, <1>5, <2>1, GenerateStep
  <2>4. DaysAdded(put)
    BY <1>1, <1>5, <2>1, GenerateStep
  <2>5. ASSUME ~stale' PROVE Days(rows', put.next)
    <3>1. ~stale /\ slot[s].fresh /\ slot[s].op = "generate"
      BY <1>5, <2>2, <2>5 DEF Generate
    <3>2. DaysFrom(put, rule.next) /\ Days(rows, rule.next)
      BY <2>1, <3>1 DEF DayInv, Timely
    <3>3. rule.next \in 1..(LastDate + 1)
      BY <1>1, ShapeIs, RuleIs
    <3>4. Kept
      BY <2>2 DEF Adding
    <3> QED BY <1>1, <2>2, <2>4, <3>2, <3>3, <3>4, DaysGenerated
  <2>6. \A t \in Slots : Timely(slot'[t], rule'.next)
    BY <2>2, TimelyOthers
  <2> QED BY <2>3, <2>5, <2>6 DEF DayInv
<1>6. ASSUME NEW s \in Slots, ReadToUpdate(s) PROVE DayInv'
  <2>1. OnlySlot(s) /\ slot'[s].op = "update" /\ slot'[s].put.next = rule.next
    BY <1>1, <1>6, ReadToUpdateStep
  <2> QED BY <2>1, TimelyOnly DEF Timely
<1>7. ASSUME NEW s \in Slots, Update(s) PROVE DayInv'
  <2>1. /\ rows' = rows /\ OthersLeft(s) /\ stale' = (stale \/ ~slot[s].fresh)
        /\ \A t \in Slots : slot'[t].op \in Recurring => ~slot'[t].fresh
        /\ rule' = slot[s].put /\ slot[s].op = "update"
    BY <1>1, <1>7, UpdateStep DEF Update
  <2>2. ASSUME ~stale' PROVE Days(rows', rule'.next)
    <3>1. ~stale /\ slot[s].fresh
      BY <2>1, <2>2
    <3>2. rule'.next = rule.next
      BY <2>1, <3>1 DEF DayInv, Timely
    <3> QED BY <2>1, <3>1, <3>2 DEF DayInv
  <2>3. \A t \in Slots : Timely(slot'[t], rule'.next)
    BY <2>1, TimelyOthers
  <2> QED BY <2>2, <2>3 DEF DayInv
<1>8. ASSUME NEW s \in Slots, ReadToPay(s) PROVE DayInv'
  <2>1. OnlySlot(s) /\ slot'[s].op = "pay"
    BY <1>1, <1>8, ReadToPayStep
  <2> QED BY <2>1, TimelyOnly DEF Timely
<1>9. ASSUME NEW s \in Slots, Pay(s) PROVE DayInv'
  <2>1. PICK put : put = slot[s].put
    OBVIOUS
  <2>2. PICK n : n = Len(rows) + 1
    OBVIOUS
  <2>3. Settling(slot[s])
    BY <1>1, <1>9 DEF Pay, Balances
  <2>4. OthersLeft(s) /\ stale' = (stale \/ ~slot[s].fresh) /\ rule' = rule /\ Paid(put, n)
    BY <1>1, <1>9, <2>1, <2>2, <2>3, PayStep
  <2>5. Kept /\ \A i \in DOMAIN rows' \ DOMAIN rows : rows'[i].due = 0
    BY <2>4 DEF Paid, Settles
  <2>6. ~stale' => Days(rows', rule.next)
    BY <2>4, <2>5, DaysKept DEF DayInv
  <2>7. \A t \in Slots : Timely(slot'[t], rule'.next)
    BY <2>4, TimelyOthers
  <2> QED BY <2>4, <2>6, <2>7 DEF DayInv
<1>10. ASSUME NEW s \in Slots, ReadToCredit(s) PROVE DayInv'
  <2>1. OnlySlot(s) /\ slot'[s].op = "credit"
    BY <1>1, <1>10, ReadToCreditStep
  <2> QED BY <2>1, TimelyOnly DEF Timely
<1>11. ASSUME NEW s \in Slots, Credit(s) PROVE DayInv'
  <2>1. PICK put : put = slot[s].put
    OBVIOUS
  <2>2. Settling(slot[s])
    BY <1>1, <1>11 DEF Credit, Balances
  <2>3. /\ OthersLeft(s) /\ stale' = (stale \/ ~slot[s].fresh) /\ rule' = rule
        /\ DOMAIN rows' = DOMAIN rows /\ Settles(put, put.from)
    BY <1>1, <1>11, <2>1, <2>2, CreditStep
  <2>4. Kept /\ \A i \in DOMAIN rows' \ DOMAIN rows : rows'[i].due = 0
    BY <2>3 DEF Settles
  <2>5. ~stale' => Days(rows', rule.next)
    BY <2>3, <2>4, DaysKept DEF DayInv
  <2>6. \A t \in Slots : Timely(slot'[t], rule'.next)
    BY <2>3, TimelyOthers
  <2> QED BY <2>3, <2>5, <2>6 DEF DayInv
<1>12. ASSUME NEW s \in Slots, Abort(s) PROVE DayInv'
  <2>1. OnlySlot(s) /\ slot'[s].op = "idle"
    BY <1>1, <1>12, AbortStep
  <2> QED BY <2>1, TimelyOnly DEF Timely
<1> QED
  BY <1>2, <1>3, <1>4, <1>5, <1>6, <1>7, <1>8, <1>9, <1>10, <1>11, <1>12 DEF Next

LEMMA DayInit ==
  ASSUME Init
  PROVE  DayInv
<1>1. /\ rule.next = 1 /\ \A s \in Slots : slot[s].op = "idle"
  BY DEF Init, Idle
<1>2. \A i \in DOMAIN rows : rows[i].due = 0
  <2>1. CASE rows = <<>>
    BY <2>1
  <2>2. ASSUME NEW a \in Prices, rows = <<Row("credit_memo", a, "posted", 0)>>
        PROVE  \A i \in DOMAIN rows : rows[i].due = 0
    BY <2>2 DEF Row
  <2> QED BY <2>1, <2>2 DEF Init
<1>3. Days(rows, 1)
  <2>1. \A d \in 1..LastDate : d >= 1 /\ d # 0
    BY BillingAssumption
  <2> QED BY <1>2, <2>1 DEF Days
<1> QED
  BY <1>1, <1>3 DEF DayInv, Timely

LEMMA DayOnce ==
  ASSUME Shape, DayInv
  PROVE  EachDayOnce
<1> SUFFICES ASSUME ~stale, NEW d \in 1..LastDate
             PROVE  Cardinality({i \in DOMAIN rows : rows[i].due = d})
                      = IF d < rule.next THEN 1 ELSE 0
  BY DEF EachDayOnce
<1> DEFINE D == {i \in DOMAIN rows : rows[i].due = d}
<1>1. /\ rule.next \in Int /\ d \in Int
      /\ \/ d >= rule.next /\ \A i \in DOMAIN rows : rows[i].due # d
         \/ d < rule.next /\ \E i \in DOMAIN rows : \A k \in DOMAIN rows : rows[k].due = d <=> k = i
  <2>1. rule.next \in 1..(LastDate + 1)
    BY ShapeIs, RuleIs
  <2> QED BY <2>1, BillingAssumption DEF DayInv, Days
<1>2. CASE d >= rule.next /\ \A i \in DOMAIN rows : rows[i].due # d
  <2>1. D = {}
    BY <1>2
  <2>2. Cardinality(D) = 0
    BY <2>1, FS_EmptySet
  <2> QED BY <1>1, <1>2, <2>2
<1>3. ASSUME d < rule.next, NEW i \in DOMAIN rows,
             \A k \in DOMAIN rows : rows[k].due = d <=> k = i
      PROVE  Cardinality(D) = IF d < rule.next THEN 1 ELSE 0
  <2>1. D = {i}
    BY <1>3
  <2>2. Cardinality(D) = 1
    BY <2>1, FS_Singleton
  <2> QED BY <1>3, <2>2
<1> QED
  BY <1>1, <1>2, <1>3

----------------------------------------------------------------------------
(* Theorems                                                                  *)

LEMMA BillingInvariant == Spec => [](BalanceInv /\ OnceInv /\ DayInv)
<1>1. Init => BalanceInv /\ OnceInv /\ DayInv
  BY BalanceInit, DayInit
<1>2. BalanceInv /\ OnceInv /\ DayInv /\ [Next]_vars => (BalanceInv /\ OnceInv /\ DayInv)'
  BY BalanceStep, DayStep
<1> QED
  BY <1>1, <1>2, PTL DEF Spec

\* Rows, applications, the rule and the requests under way keep their types: nothing
\* negative is applied, no generation charges past the last day, and no handler leaves
\* a status that syncAppliedTransactionStatus does not know.
THEOREM BillingTypes == Spec => []TypeOK
<1>1. BalanceInv => TypeOK
  BY DEF BalanceInv, Shape
<1> QED
  BY <1>1, BillingInvariant, PTL

\* However many payments overlap, none is applied to more than it paid
\* (recordAgentBillingPayment).
THEOREM PaymentsNeverOverdrawn == Spec => []PaymentsCover
<1>1. BalanceInv => PaymentsCover
  BY DEF BalanceInv
<1> QED
  BY <1>1, BillingInvariant, PTL

\* However payments, credits and charges overlap, a row shows completed only if what
\* is applied to it, or of it, reaches its total (syncAppliedTransactionStatus).
THEOREM CompletedIsSettled == Spec => []CompletedMeansSettled
<1>1. BalanceInv => CompletedMeansSettled
  BY DEF BalanceInv
<1> QED
  BY <1>1, BillingInvariant, PTL

\* As long as no request wrote over what it had not seen, no invoice is settled twice
\* and no credit is spent twice (applyAccountingTransactionToInvoice).
THEOREM SettledOnce == Spec => []NothingTwice
<1>1. OnceInv => NothingTwice
  BY DEF OnceInv
<1> QED
  BY <1>1, BillingInvariant, PTL

\* Likewise every day before the next due date was charged once and none after it
\* (generateDueAgentBillingCharges, updateAgentRecurringChargeRule).
THEOREM ChargedOnce == Spec => []EachDayOnce
<1>1. BalanceInv /\ DayInv => EachDayOnce
  BY DayOnce DEF BalanceInv
<1> QED
  BY <1>1, BillingInvariant, PTL

----------------------------------------------------------------------------
(* The payout statements of the same agents.  StatementTypes comes first;  *)
(* the others strengthen their property by what the requests under way     *)
(* carry: one that is still fresh knows how the statement is, and one that *)
(* is not makes stale true when it writes.                                 *)

USE DEF Review

----------------------------------------------------------------------------
(* The type invariant *)

LEMMA RequestUnderway ==
  ASSUME NEW r \in StatementRequest, r.op # "idle"
  PROVE  r.op \in Underway
BY DEF StatementRequest, Underway

LEMMA OutdatedType ==
  ASSUME NEW busy \in [Slots -> StatementRequest]
  PROVE  Outdated(busy, Underway) \in [Slots -> StatementRequest]
<1> SUFFICES ASSUME NEW s \in Slots
             PROVE  Outdated(busy, Underway)[s] \in StatementRequest
  BY DEF Outdated, Underway
<1>1. CASE busy[s].op = "idle"
  BY <1>1 DEF Outdated, Underway, StatementRequest, Idle
<1>2. CASE busy[s].op # "idle"
  <2>1. busy[s] \in StatementRequest /\ busy[s].op \in Underway
    BY <1>2, RequestUnderway
  <2>2. Outdated(busy, Underway)[s] = [busy[s] EXCEPT !.fresh = FALSE]
    BY <2>1 DEF Outdated
  <2> QED BY <2>1, <2>2 DEF StatementRequest
<1> QED BY <1>1, <1>2

LEMMA StatementIdleType == Idle \in StatementRequest
  BY DEF Idle, StatementRequest

LEMMA StatementTypeInit == StatementInit => StatementTypeOK
<1> SUFFICES ASSUME StatementInit PROVE StatementTypeOK
  OBVIOUS
<1>1. slot \in [Slots -> StatementRequest]
  BY StatementIdleType DEF StatementInit
<1>2. posts \in 0..MaxPosts
  BY PayoutAssumption DEF StatementInit
<1>3. statement \in [review : Review, confirmed : BOOLEAN, total : Totals,
                    posted : {"not_posted", "posted", "failed"}]
  <2>1. PICK total \in Totals :
          statement = [review |-> "draft", confirmed |-> FALSE, total |-> total,
                       posted |-> "not_posted"]
    BY DEF StatementInit
  <2>2. "draft" \in Review /\ FALSE \in BOOLEAN /\ "not_posted" \in {"not_posted", "posted", "failed"}
    OBVIOUS
  <2> HIDE DEF Review
  <2> QED BY <2>1, <2>2, Zenon
<1>4. books \in Seq(Totals) /\ bill \in Totals \cup {None} /\ agreed \subseteq Totals
  BY DEF StatementInit
<1>5. stale \in BOOLEAN
  BY DEF StatementInit
<1> QED BY <1>1, <1>2, <1>3, <1>4, <1>5 DEF StatementTypeOK

LEMMA HoldType ==
  ASSUME StatementTypeOK, NEW s \in Slots, NEW op, NEW put, Hold(s, op, put),
         [op |-> op, put |-> put, fresh |-> TRUE] \in StatementRequest,
         posts' \in 0..MaxPosts
  PROVE  StatementTypeOK'
  BY DEF StatementTypeOK, Hold

\* each handler in turn
LEMMA StatementTypeStep == StatementTypeOK /\ [StatementNext]_statementVars => StatementTypeOK'
<1> SUFFICES ASSUME StatementTypeOK, [StatementNext]_statementVars
             PROVE  StatementTypeOK'
  OBVIOUS
<1>1. CASE Send
  <2>1. slot' \in [Slots -> StatementRequest]
    BY <1>1, OutdatedType DEF Send, StatementTypeOK
  <2> QED BY <1>1, <2>1 DEF Send, StatementTypeOK
<1>2. ASSUME NEW s \in Slots, ReadToEdit(s)
      PROVE  StatementTypeOK'
  <2>1. PICK total \in Totals, changed \in BOOLEAN :
          LET review == IF changed THEN "draft" ELSE statement.review
          IN Hold(s, "edit", [review |-> review, total |-> total,
                confirmed |-> Confirmed(statement.review, review, statement.confirmed)])
    BY <1>2 DEF ReadToEdit
  <2> DEFINE review == IF changed THEN "draft" ELSE statement.review
             put == [review |-> review, total |-> total,
                     confirmed |-> Confirmed(statement.review, review, statement.confirmed)]
  <2>2. review \in Review /\ put.confirmed \in BOOLEAN
    BY DEF StatementTypeOK, Confirmed, Keeps
  <2>3. [op |-> "edit", put |-> put, fresh |-> TRUE] \in StatementRequest
    BY <2>2 DEF StatementRequest
  <2>4. posts' \in 0..MaxPosts
    BY <1>2 DEF ReadToEdit, StatementTypeOK
  <2>5. Hold(s, "edit", put)
    BY <2>1
  <2> HIDE DEF put
  <2> QED BY <2>3, <2>4, <2>5, HoldType
<1>3. ASSUME NEW s \in Slots, ReadToSetStatus(s)
      PROVE  StatementTypeOK'
  <2>1. PICK review \in Review :
          Hold(s, "status", [review |-> review,
            confirmed |-> Confirmed(statement.review, review, statement.confirmed)])
    BY <1>3 DEF ReadToSetStatus
  <2>2. Confirmed(statement.review, review, statement.confirmed) \in BOOLEAN
    BY DEF StatementTypeOK, Confirmed, Keeps
  <2>3. posts' \in 0..MaxPosts
    BY <1>3 DEF ReadToSetStatus, StatementTypeOK
  <2>4. [op |-> "status", put |-> [review |-> review,
           confirmed |-> Confirmed(statement.review, review, statement.confirmed)],
         fresh |-> TRUE] \in StatementRequest
    BY <2>2 DEF StatementRequest
  <2> QED BY <2>1, <2>3, <2>4, HoldType
<1>4. ASSUME NEW s \in Slots, ReadToRespond(s)
      PROVE  StatementTypeOK'
  <2>1. PICK review \in {"confirmed", "revision_requested"} :
          Hold(s, "respond", [review |-> review, confirmed |-> review = "confirmed"])
    BY <1>4 DEF ReadToRespond
  <2>2. posts' \in 0..MaxPosts
    BY <1>4 DEF ReadToRespond, StatementTypeOK
  <2>3. [op |-> "respond", put |-> [review |-> review, confirmed |-> review = "confirmed"],
         fresh |-> TRUE] \in StatementRequest
    BY DEF StatementRequest
  <2> QED BY <2>1, <2>2, <2>3, HoldType
<1>5. ASSUME NEW s \in Slots, Write(s)
      PROVE  StatementTypeOK'
  <2>1. slot[s] \in StatementRequest
    BY DEF StatementTypeOK
  <2>2. /\ slot[s].put.review \in Review
        /\ slot[s].put.confirmed \in BOOLEAN
        /\ slot[s].op = "edit" => slot[s].put.total \in Totals
    BY <1>5, <2>1 DEF Write, Commit, StatementRequest
  <2>3. statement' \in [review : Review, confirmed : BOOLEAN, total : Totals,
                        posted : {"not_posted", "posted", "failed"}]
    BY <1>5, <2>2 DEF Write, Commit, Changed, StatementTypeOK
  <2>4. slot' \in [Slots -> StatementRequest]
    <3>1. [slot EXCEPT ![s] = Idle] \in [Slots -> StatementRequest]
      BY StatementIdleType DEF StatementTypeOK
    <3> QED BY <1>5, <3>1, OutdatedType DEF Write, Commit
  <2>5. agreed' \subseteq Totals /\ stale' \in BOOLEAN
    BY <1>5, <2>1 DEF Write, Commit, StatementTypeOK, StatementRequest
  <2> QED BY <1>5, <2>3, <2>4, <2>5 DEF Write, Commit, StatementTypeOK
<1>6. ASSUME NEW s \in Slots, ReadToPost(s)
      PROVE  StatementTypeOK'
  <2>1. posts' \in 0..MaxPosts
    BY <1>6, PayoutAssumption DEF ReadToPost, StatementTypeOK
  <2>2. [op |-> "post", put |-> statement.total, fresh |-> TRUE] \in StatementRequest
    BY DEF StatementTypeOK, StatementRequest
  <2>3. Hold(s, "post", statement.total)
    BY <1>6 DEF ReadToPost
  <2> QED BY <2>1, <2>2, <2>3, HoldType
<1>7. ASSUME NEW s \in Slots, Bill(s)
      PROVE  StatementTypeOK'
  <2>1. slot[s] \in StatementRequest /\ slot[s].op = "post"
    BY <1>7 DEF StatementTypeOK, Bill
  <2>2. slot[s].put \in Totals /\ slot[s].fresh \in BOOLEAN
    BY <2>1 DEF StatementRequest
  <2>3. PICK made \in BOOLEAN :
          /\ bill' = IF made /\ bill = None THEN slot[s].put ELSE bill
          /\ \E op \in Answers(made) : slot' = [slot EXCEPT ![s].op = op]
    BY <1>7 DEF Bill
  <2>4. PICK op \in {"billed", "failed"} : slot' = [slot EXCEPT ![s].op = op]
    BY <2>3 DEF Answers
  <2>5. [slot[s] EXCEPT !.op = op] \in StatementRequest
    BY <2>1, <2>2 DEF StatementRequest
  <2>6. slot' \in [Slots -> StatementRequest]
    BY <2>4, <2>5 DEF StatementTypeOK
  <2>7. bill' \in Totals \cup {None}
    BY <2>2, <2>3 DEF StatementTypeOK
  <2> QED BY <1>7, <2>6, <2>7 DEF Bill, StatementTypeOK
<1>8. ASSUME NEW s \in Slots, ReadToRecord(s)
      PROVE  StatementTypeOK'
  <2>1. posts' \in 0..MaxPosts
    BY <1>8 DEF ReadToRecord, StatementTypeOK
  <2>2. CASE MayRecord(statement)
    <3>1. [op |-> "record", put |-> statement.total, fresh |-> TRUE] \in StatementRequest
      BY DEF StatementTypeOK, StatementRequest
    <3>2. Hold(s, "record", statement.total)
      BY <1>8, <2>2 DEF ReadToRecord
    <3> QED BY <2>1, <3>1, <3>2, HoldType
  <2>3. CASE ~MayRecord(statement)
    BY <1>8, <2>1, <2>3, StatementIdleType DEF ReadToRecord, StatementTypeOK
  <2> QED BY <2>2, <2>3
<1>9. ASSUME NEW s \in Slots, ReadToRecordFailure(s)
      PROVE  StatementTypeOK'
  <2>1. posts' \in 0..MaxPosts
    BY <1>9 DEF ReadToRecordFailure, StatementTypeOK
  <2>2. CASE statement.posted # "posted"
    <3>1. [op |-> "failure", put |-> None, fresh |-> TRUE] \in StatementRequest
      BY DEF StatementRequest
    <3>2. Hold(s, "failure", None)
      BY <1>9, <2>2 DEF ReadToRecordFailure
    <3> QED BY <2>1, <3>1, <3>2, HoldType
  <2>3. CASE statement.posted = "posted"
    BY <1>9, <2>1, <2>3, StatementIdleType DEF ReadToRecordFailure, StatementTypeOK
  <2> QED BY <2>2, <2>3
<1>10. ASSUME NEW s \in Slots, Record(s)
       PROVE  StatementTypeOK'
  <2>1. slot[s] \in StatementRequest
    BY DEF StatementTypeOK
  <2>2. slot[s].op = "record" => slot[s].put \in Totals
    BY <2>1 DEF StatementRequest
  <2>3. slot' \in [Slots -> StatementRequest]
    <3>1. [slot EXCEPT ![s] = Idle] \in [Slots -> StatementRequest]
      BY StatementIdleType DEF StatementTypeOK
    <3> QED BY <1>10, <3>1, OutdatedType DEF Record, Commit
  <2>4. books' \in Seq(Totals)
    BY <1>10, <2>2 DEF Record, Commit, StatementTypeOK
  <2>5. stale' \in BOOLEAN
    BY <1>10, <2>1 DEF Record, Commit, StatementTypeOK, StatementRequest
  <2>6. statement' \in [review : Review, confirmed : BOOLEAN, total : Totals,
                        posted : {"not_posted", "posted", "failed"}]
    BY <1>10 DEF Record, Commit, StatementTypeOK
  <2> QED BY <1>10, <2>3, <2>4, <2>5, <2>6 DEF Record, Commit, StatementTypeOK
<1>11. ASSUME NEW s \in Slots, Crash(s)
       PROVE  StatementTypeOK'
  BY <1>11, StatementIdleType DEF Crash, StatementTypeOK
<1>12. CASE UNCHANGED statementVars
  BY <1>12 DEF statementVars, StatementTypeOK
<1> QED BY <1>1, <1>2, <1>3, <1>4, <1>5, <1>6, <1>7, <1>8, <1>9, <1>10, <1>11, <1>12
        DEF StatementNext

\* The statement, the books and every request under way keep their shape, for any
\* overlap, lost answer and crash (agent-payout-statements.ts).
THEOREM StatementTypes == StatementSpec => []StatementTypeOK
  BY StatementTypeInit, StatementTypeStep, PTL DEF StatementSpec

----------------------------------------------------------------------------
(* Nothing in the books without a bill in QuickBooks *)

Billed ==
  /\ BooksFollowQuickBooks
  /\ \A s \in Slots : slot[s].op \in {"billed", "record"} => bill # None

\* whoever is told of a bill made one, or found one
LEMMA BilledStep == StatementTypeOK /\ Billed /\ [StatementNext]_statementVars => Billed'
<1> SUFFICES ASSUME StatementTypeOK, Billed, [StatementNext]_statementVars
             PROVE  Billed'
  OBVIOUS
<1> USE DEF Billed, BooksFollowQuickBooks
<1>1. CASE Send
  BY <1>1 DEF Send, Outdated, Underway, StatementTypeOK, Idle
<1>2. ASSUME NEW s \in Slots, NEW op, NEW put, Hold(s, op, put), op # "record", op # "billed"
      PROVE  Billed'
  BY <1>2 DEF Hold, StatementTypeOK
<1>3. ASSUME NEW s \in Slots, ReadToEdit(s) \/ ReadToSetStatus(s) \/ ReadToRespond(s) \/ ReadToPost(s)
      PROVE  Billed'
  BY <1>2, <1>3 DEF ReadToEdit, ReadToSetStatus, ReadToRespond, ReadToPost
<1>4. ASSUME NEW s \in Slots, Write(s)
      PROVE  Billed'
  BY <1>4 DEF Write, Commit, Outdated, Underway, StatementTypeOK, Idle
<1>5. ASSUME NEW s \in Slots, Bill(s)
      PROVE  Billed'
  <2>1. slot[s] \in StatementRequest /\ slot[s].op = "post"
    BY <1>5 DEF StatementTypeOK, Bill
  <2>2. slot[s].put # None
    BY <2>1, PayoutAssumption DEF StatementRequest
  <2>3. PICK made \in BOOLEAN :
          /\ bill' = IF made /\ bill = None THEN slot[s].put ELSE bill
          /\ \E op \in Answers(made) : slot' = [slot EXCEPT ![s].op = op]
    BY <1>5 DEF Bill
  <2>4. PICK op \in Answers(made) : slot' = [slot EXCEPT ![s].op = op]
    BY <2>3
  <2>5. op = "billed" => bill' # None
    BY <2>2, <2>3 DEF Answers
  <2>6. bill # None => bill' # None
    BY <2>3
  <2>7. slot'[s].op = op /\ \A z \in Slots \ {s} : slot'[z] = slot[z]
    BY <2>4 DEF StatementTypeOK
  <2>8. op # "record"
    BY DEF Answers
  <2> QED BY <1>5, <2>5, <2>6, <2>7, <2>8 DEF Bill
<1>6. ASSUME NEW s \in Slots, ReadToRecord(s)
      PROVE  Billed'
  BY <1>6 DEF ReadToRecord, Hold, StatementTypeOK, Idle
<1>7. ASSUME NEW s \in Slots, ReadToRecordFailure(s)
      PROVE  Billed'
  BY <1>7 DEF ReadToRecordFailure, Hold, StatementTypeOK, Idle
<1>8. ASSUME NEW s \in Slots, Record(s)
      PROVE  Billed'
  <2>1. slot[s].op = "record" => bill # None
    OBVIOUS
  <2>2. bill' = bill /\ (books' # <<>> => books # <<>> \/ slot[s].op = "record")
    BY <1>8 DEF Record, Commit
  <2>3. \A z \in Slots : slot'[z].op \in {"billed", "record"} => slot[z].op \in {"billed", "record"}
    BY <1>8 DEF Record, Commit, Outdated, Underway, StatementTypeOK, Idle
  <2> QED BY <2>1, <2>2, <2>3
<1>9. ASSUME NEW s \in Slots, Crash(s)
      PROVE  Billed'
  BY <1>9 DEF Crash, StatementTypeOK, Idle
<1>10. CASE UNCHANGED statementVars
  BY <1>10 DEF statementVars
<1> QED BY <1>1, <1>3, <1>4, <1>5, <1>6, <1>7, <1>8, <1>9, <1>10 DEF StatementNext

\* Under any overlap, lost answer and crash, nothing is in the books of the office
\* that is not in QuickBooks (postQuickBooksBill,
\* markAgentPayoutStatementQuickBooksBillPosted).
THEOREM BooksFollow == StatementSpec => []BooksFollowQuickBooks
<1>1. StatementInit => Billed
  BY DEF StatementInit, Billed, BooksFollowQuickBooks, Idle
<1>2. Billed => BooksFollowQuickBooks
  BY DEF Billed
<1> QED BY <1>1, <1>2, StatementTypeInit, StatementTypeStep, BilledStep, PTL DEF StatementSpec

----------------------------------------------------------------------------
(* One bill, of a total that was agreed *)

\* A request that is fresh knows whether the statement was posted.
Booked ==
  /\ InTheBooksOnce
  /\ ~stale => \A s \in Slots :
       slot[s].op \in {"record", "failure"} /\ slot[s].fresh => statement.posted # "posted"

\* A fresh change of status carries the confirmation of the total as it is, an edit
\* that of the total it writes.
Agreed ==
  ~stale =>
    /\ statement.confirmed => statement.total \in agreed
    /\ bill # None => bill \in agreed
    /\ \A s \in Slots :
         /\ slot[s].op = "post" => slot[s].put \in agreed
         /\ slot[s].op = "edit" /\ slot[s].put.confirmed => slot[s].put.total \in agreed
         /\ slot[s].op = "status" /\ slot[s].put.confirmed /\ slot[s].fresh =>
              statement.total \in agreed

\* nobody is fresh once something is written
LEMMA NobodyFresh ==
  ASSUME StatementTypeOK, NEW busy \in [Slots -> StatementRequest], NEW s \in Slots
  PROVE  /\ Outdated(busy, Underway)[s].op = busy[s].op
         /\ busy[s].op # "idle" => Outdated(busy, Underway)[s].put = busy[s].put
         /\ busy[s].op # "idle" => ~Outdated(busy, Underway)[s].fresh
<1>1. CASE busy[s].op = "idle"
  BY <1>1 DEF Outdated, Underway, Idle
<1>2. CASE busy[s].op # "idle"
  <2>1. busy[s] \in StatementRequest /\ busy[s].op \in Underway
    BY <1>2, RequestUnderway
  <2>2. Outdated(busy, Underway)[s] = [busy[s] EXCEPT !.fresh = FALSE]
    BY <2>1 DEF Outdated
  <2> QED BY <2>1, <2>2 DEF StatementRequest
<1> QED BY <1>1, <1>2

LEMMA EmptiedType ==
  ASSUME StatementTypeOK, NEW s \in Slots
  PROVE  [slot EXCEPT ![s] = Idle] \in [Slots -> StatementRequest]
  BY StatementIdleType DEF StatementTypeOK

LEMMA OthersKeep ==
  ASSUME StatementTypeOK, NEW s \in Slots, NEW z \in Slots,
         slot' = Outdated([slot EXCEPT ![s] = Idle], Underway),
         slot'[z].op # "idle"
  PROVE  /\ slot'[z].op = slot[z].op
         /\ slot'[z].put = slot[z].put
         /\ ~slot'[z].fresh
<1> DEFINE busy == [slot EXCEPT ![s] = Idle]
<1>1. busy \in [Slots -> StatementRequest]
  BY EmptiedType
<1>2. busy[z].op # "idle"
  <2>1. slot' = Outdated(busy, Underway)
    OBVIOUS
  <2> HIDE DEF busy
  <2> QED BY <1>1, <2>1, NobodyFresh
<1>3. z # s
  BY <1>2 DEF StatementTypeOK, Idle
<1>4. busy[z] = slot[z]
  BY <1>3 DEF StatementTypeOK
<1> HIDE DEF busy
<1>5. slot' = Outdated(busy, Underway)
  BY DEF busy
<1> QED BY <1>1, <1>2, <1>4, <1>5, NobodyFresh

LEMMA BookedStep == StatementTypeOK /\ Booked /\ [StatementNext]_statementVars => Booked'
<1> SUFFICES ASSUME StatementTypeOK, Booked, [StatementNext]_statementVars
             PROVE  Booked'
  OBVIOUS
<1> USE DEF Booked, InTheBooksOnce
<1>1. CASE Send
  <2>1. \A s \in Slots : slot'[s].op \in {"record", "failure"} => ~slot'[s].fresh
    BY <1>1, NobodyFresh DEF Send, StatementTypeOK
  <2> QED BY <1>1, <2>1 DEF Send, StatementTypeOK
<1>2. ASSUME NEW s \in Slots, NEW op, NEW put, Hold(s, op, put),
             op \in {"record", "failure"} => statement.posted # "posted"
      PROVE  Booked'
  <2>1. slot'[s].op = op /\ \A z \in Slots \ {s} : slot'[z] = slot[z]
    BY <1>2 DEF Hold, StatementTypeOK
  <2>2. UNCHANGED <<statement, books, stale>>
    BY <1>2 DEF Hold
  <2> QED BY <1>2, <2>1, <2>2
<1>3. ASSUME NEW s \in Slots, ReadToEdit(s) \/ ReadToSetStatus(s) \/ ReadToRespond(s) \/ ReadToPost(s)
      PROVE  Booked'
  <2>1. \E op \in {"edit", "status", "respond", "post"} : \E put : Hold(s, op, put)
    BY <1>3 DEF ReadToEdit, ReadToSetStatus, ReadToRespond, ReadToPost
  <2>2. PICK op \in {"edit", "status", "respond", "post"} : \E put : Hold(s, op, put)
    BY <2>1
  <2>3. PICK put : Hold(s, op, put)
    BY <2>2
  <2>4. op \notin {"record", "failure"}
    OBVIOUS
  <2> QED BY <1>2, <2>3, <2>4
<1>4. ASSUME NEW s \in Slots, Write(s)
      PROVE  Booked'
  <2>1. \A z \in Slots : slot'[z].op \in {"record", "failure"} => ~slot'[z].fresh
    BY <1>4, NobodyFresh, EmptiedType DEF Write, Commit, Idle
  <2>2. statement'.posted = statement.posted
    BY <1>4 DEF Write, Commit, Changed, StatementTypeOK
  <2> QED BY <1>4, <2>1, <2>2 DEF Write, Commit
<1>5. ASSUME NEW s \in Slots, Bill(s)
      PROVE  Booked'
  <2>1. PICK op \in {"billed", "failed"} : slot' = [slot EXCEPT ![s].op = op]
    BY <1>5 DEF Bill, Answers
  <2>2. slot'[s].op = op /\ \A z \in Slots \ {s} : slot'[z] = slot[z]
    BY <2>1 DEF StatementTypeOK
  <2> QED BY <1>5, <2>1, <2>2 DEF Bill
<1>6. ASSUME NEW s \in Slots, ReadToRecord(s)
      PROVE  Booked'
  <2>1. CASE MayRecord(statement)
    BY <1>2, <1>6, <2>1 DEF ReadToRecord, MayRecord, Postable
  <2>2. CASE ~MayRecord(statement)
    BY <1>6, <2>2 DEF ReadToRecord, StatementTypeOK, Idle
  <2> QED BY <2>1, <2>2
<1>7. ASSUME NEW s \in Slots, ReadToRecordFailure(s)
      PROVE  Booked'
  <2>1. CASE statement.posted # "posted"
    BY <1>2, <1>7, <2>1 DEF ReadToRecordFailure
  <2>2. CASE statement.posted = "posted"
    BY <1>7, <2>2 DEF ReadToRecordFailure, StatementTypeOK, Idle
  <2> QED BY <2>1, <2>2
<1>8. ASSUME NEW s \in Slots, Record(s), ~stale'
      PROVE  Booked'
  <2>1. ~stale /\ slot[s].fresh
    BY <1>8 DEF Record, Commit, StatementTypeOK
  <2>2. statement.posted # "posted" /\ Len(books) = 0
    BY <1>8, <2>1 DEF Record, Commit
  <2>3. \A z \in Slots : slot'[z].op \in {"record", "failure"} => ~slot'[z].fresh
    BY <1>8, NobodyFresh, EmptiedType DEF Record, Commit, Idle
  <2>4. slot[s].op = "record" => Len(books') = 1 /\ statement'.posted = "posted"
    <3>1. slot[s] \in StatementRequest
      BY DEF StatementTypeOK
    <3>2. slot[s].op = "record" => slot[s].put \in Totals
      BY <3>1 DEF StatementRequest
    <3> QED BY <1>8, <2>2, <3>2 DEF Record, Commit, StatementTypeOK
  <2>5. slot[s].op = "failure" => books' = books /\ statement'.posted = "failed"
    BY <1>8 DEF Record, Commit, StatementTypeOK
  <2> QED BY <1>8, <2>2, <2>3, <2>4, <2>5 DEF Record, Commit
<1>9. ASSUME NEW s \in Slots, Crash(s)
      PROVE  Booked'
  BY <1>9 DEF Crash, StatementTypeOK, Idle
<1>10. CASE UNCHANGED statementVars
  BY <1>10 DEF statementVars
<1> QED BY <1>1, <1>3, <1>4, <1>5, <1>6, <1>7, <1>8, <1>9, <1>10 DEF StatementNext

\* As long as nobody wrote over what they had not seen, the bill gets into the books
\* once (markAgentPayoutStatementQuickBooksBillPosted).
THEOREM BookedOnce == StatementSpec => []InTheBooksOnce
<1>1. StatementInit => Booked
  BY DEF StatementInit, Booked, InTheBooksOnce, Idle
<1>2. Booked => InTheBooksOnce
  BY DEF Booked
<1> QED BY <1>1, <1>2, StatementTypeInit, StatementTypeStep, BookedStep, PTL DEF StatementSpec

LEMMA AgreedStep == StatementTypeOK /\ Agreed /\ [StatementNext]_statementVars => Agreed'
<1> SUFFICES ASSUME StatementTypeOK, Agreed, [StatementNext]_statementVars, ~stale'
             PROVE  Agreed'
  BY DEF Agreed
<1>1. CASE Send
  <2>1. ~statement'.confirmed
    BY <1>1 DEF Send, StatementTypeOK
  <2>2. slot \in [Slots -> StatementRequest] /\ slot' = Outdated(slot, Underway)
    BY <1>1 DEF Send, StatementTypeOK
  <2>3. ASSUME NEW z \in Slots, slot'[z].op # "idle"
        PROVE  slot'[z].op = slot[z].op /\ slot'[z].put = slot[z].put /\ ~slot'[z].fresh
    BY <2>2, <2>3, NobodyFresh
  <2> QED BY <1>1, <2>1, <2>3 DEF Send, Agreed
<1>2. ASSUME NEW s \in Slots, NEW op, NEW put, Hold(s, op, put),
             op = "post" => put \in agreed,
             op = "edit" /\ put.confirmed => put.total \in agreed,
             op = "status" /\ put.confirmed => statement.total \in agreed
      PROVE  Agreed'
  <2>1. slot'[s] = [op |-> op, put |-> put, fresh |-> TRUE]
        /\ \A z \in Slots \ {s} : slot'[z] = slot[z]
    BY <1>2 DEF Hold, StatementTypeOK
  <2> QED BY <1>2, <2>1 DEF Hold, Agreed
<1>3. ASSUME NEW s \in Slots, ReadToEdit(s)
      PROVE  Agreed'
  <2>1. PICK total \in Totals, changed \in BOOLEAN :
          /\ changed \/ total = statement.total
          /\ LET review == IF changed THEN "draft" ELSE statement.review
             IN Hold(s, "edit", [review |-> review, total |-> total,
                confirmed |-> Confirmed(statement.review, review, statement.confirmed)])
    BY <1>3 DEF ReadToEdit
  <2> DEFINE review == IF changed THEN "draft" ELSE statement.review
             put == [review |-> review, total |-> total,
                     confirmed |-> Confirmed(statement.review, review, statement.confirmed)]
  <2>2. put.confirmed => statement.confirmed /\ total = statement.total
    BY <2>1 DEF Confirmed, Keeps
  <2>3. put.confirmed => put.total \in agreed
    <3>1. ~stale
      BY <2>1 DEF Hold
    <3> QED BY <2>2, <3>1 DEF Agreed
  <2>4. Hold(s, "edit", put)
    BY <2>1
  <2> HIDE DEF put
  <2> QED BY <1>2, <2>3, <2>4
<1>4. ASSUME NEW s \in Slots, ReadToSetStatus(s)
      PROVE  Agreed'
  <2>1. PICK review \in Review :
          Hold(s, "status", [review |-> review,
            confirmed |-> Confirmed(statement.review, review, statement.confirmed)])
    BY <1>4 DEF ReadToSetStatus
  <2>2. Confirmed(statement.review, review, statement.confirmed) => statement.total \in agreed
    <3>1. ~stale
      BY <2>1 DEF Hold
    <3> QED BY <3>1 DEF Agreed, Confirmed
  <2> QED BY <1>2, <2>1, <2>2
<1>5. ASSUME NEW s \in Slots, ReadToRespond(s)
      PROVE  Agreed'
  BY <1>2, <1>5 DEF ReadToRespond
<1>6. ASSUME NEW s \in Slots, ReadToPost(s)
      PROVE  Agreed'
  <2>1. statement.total \in agreed
    BY <1>6 DEF ReadToPost, Postable, Hold, Agreed
  <2> QED BY <1>2, <1>6, <2>1 DEF ReadToPost
<1>7. ASSUME NEW s \in Slots, Write(s)
      PROVE  Agreed'
  <2>1. ~stale /\ slot[s].fresh
    BY <1>7 DEF Write, Commit, StatementTypeOK
  <2>2. \A z \in Slots : slot'[z].op # "idle" =>
          slot'[z].op = slot[z].op /\ slot'[z].put = slot[z].put /\ ~slot'[z].fresh
    BY <1>7, OthersKeep DEF Write, Commit
  <2>3. agreed \subseteq agreed'
    BY <1>7 DEF Write, Commit
  <2>4. /\ statement'.confirmed = slot[s].put.confirmed
        /\ statement'.total = IF slot[s].op = "edit" THEN slot[s].put.total ELSE statement.total
    BY <1>7 DEF Write, Commit, Changed, StatementTypeOK
  <2>5. statement'.confirmed => statement'.total \in agreed'
    <3>1. CASE slot[s].op = "edit"
      BY <2>1, <2>3, <2>4, <3>1 DEF Agreed
    <3>2. CASE slot[s].op = "status"
      BY <2>1, <2>3, <2>4, <3>2 DEF Agreed
    <3>3. CASE slot[s].op = "respond"
      BY <1>7, <2>4, <3>3 DEF Write, Commit
    <3> QED BY <1>7, <3>1, <3>2, <3>3 DEF Write, Commit
  <2> QED BY <1>7, <2>1, <2>2, <2>3, <2>5 DEF Write, Commit, Agreed
<1>8. ASSUME NEW s \in Slots, Bill(s)
      PROVE  Agreed'
  <2>1. slot[s].put \in agreed
    BY <1>8 DEF Bill, Agreed
  <2>2. PICK op \in {"billed", "failed"} : slot' = [slot EXCEPT ![s].op = op]
    BY <1>8 DEF Bill, Answers
  <2>3. bill' # None => bill' \in agreed
    BY <1>8, <2>1 DEF Bill, Agreed
  <2>4. slot'[s].op = op /\ \A z \in Slots \ {s} : slot'[z] = slot[z]
    BY <2>2 DEF StatementTypeOK
  <2> QED BY <1>8, <2>3, <2>4 DEF Bill, Agreed
<1>9. ASSUME NEW s \in Slots, ReadToRecord(s)
      PROVE  Agreed'
  <2>1. CASE MayRecord(statement)
    BY <1>2, <1>9, <2>1 DEF ReadToRecord
  <2>2. CASE ~MayRecord(statement)
    BY <1>9, <2>2 DEF ReadToRecord, StatementTypeOK, Idle, Agreed
  <2> QED BY <2>1, <2>2
<1>10. ASSUME NEW s \in Slots, ReadToRecordFailure(s)
       PROVE  Agreed'
  <2>1. CASE statement.posted # "posted"
    BY <1>2, <1>10, <2>1 DEF ReadToRecordFailure
  <2>2. CASE statement.posted = "posted"
    BY <1>10, <2>2 DEF ReadToRecordFailure, StatementTypeOK, Idle, Agreed
  <2> QED BY <2>1, <2>2
<1>11. ASSUME NEW s \in Slots, Record(s)
       PROVE  Agreed'
  <2>1. \A z \in Slots : slot'[z].op # "idle" =>
          slot'[z].op = slot[z].op /\ slot'[z].put = slot[z].put /\ ~slot'[z].fresh
    BY <1>11, OthersKeep DEF Record, Commit
  <2>2. statement'.confirmed = statement.confirmed /\ statement'.total = statement.total
    BY <1>11 DEF Record, Commit, StatementTypeOK
  <2>3. ~stale
    BY <1>11 DEF Record, Commit
  <2> QED BY <1>11, <2>1, <2>2, <2>3 DEF Record, Commit, Agreed
<1>12. ASSUME NEW s \in Slots, Crash(s)
       PROVE  Agreed'
  BY <1>12 DEF Crash, StatementTypeOK, Idle, Agreed
<1>13. CASE UNCHANGED statementVars
  BY <1>13 DEF statementVars, Agreed
<1> QED BY <1>1, <1>3, <1>4, <1>5, <1>6, <1>7, <1>8, <1>9, <1>10, <1>11, <1>12, <1>13
        DEF StatementNext

\* As long as nobody wrote over what they had not seen, QuickBooks bills a total that
\* the agent confirmed (deriveStatementConfirmedAt,
\* buildAgentPayoutStatementQuickBooksBillDraft).
THEOREM AgreedBill == StatementSpec => []BillIsAgreed
<1>1. StatementInit => Agreed
  BY DEF StatementInit, Agreed, Idle
<1>2. Agreed => BillIsAgreed
  BY DEF Agreed, BillIsAgreed
<1> QED BY <1>1, <1>2, StatementTypeInit, StatementTypeStep, AgreedStep, PTL DEF StatementSpec
=============================================================================
