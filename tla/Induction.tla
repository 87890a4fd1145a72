------------------------------- MODULE Induction -------------------------------
(***************************************************************************)
(* Induction on numbers, and what it says of a sum over a finite set.  The *)
(* induction theorems of the library take an operator; the least number of *)
(* a set needs none.                                                       *)
(***************************************************************************)
EXTENDS Integers, FiniteSets, FiniteSetTheorems, WellFoundedInduction, TLAPS

\* A set of numbers has a least one.
LEMMA LeastNumber ==
    ASSUME NEW T \in SUBSET Nat, T # {}
    PROVE  \E n \in T : \A m \in T : n <= m
<1> DEFINE R == OpToRel(<, Nat)
<1>1. IsWellFoundedOn(R, Nat)
  BY NatLessThanWellFounded
<1>2. \A m, n \in Nat : m < n => <<m, n>> \in R
  BY DEF OpToRel
<1> HIDE DEF R
<1>3. PICK n \in T : \A m \in T : ~(<<m, n>> \in R)
  BY <1>1, WFMin
<1>4. \A m \in T : n <= m
  <2> TAKE m \in T
  <2>1. m \in Nat /\ n \in Nat /\ ~(m < n)
    BY <1>2, <1>3
  <2> QED
    BY <2>1
<1> QED
  BY <1>4

\* One with a bound has a greatest one.
LEMMA GreatestNumber ==
    ASSUME NEW bound \in Nat, NEW T \in SUBSET (0 .. bound), T # {}
    PROVE  \E n \in T : \A m \in T : m <= n
<1> DEFINE left == {bound - m : m \in T}
<1>1. left \in SUBSET Nat /\ left # {}
  <2>1. ASSUME NEW m \in T PROVE bound - m \in Nat
    <3>1. m \in 0 .. bound
      OBVIOUS
    <3> QED
      BY <3>1
  <2> QED
    BY <2>1
<1>2. PICK l \in left : \A k \in left : l <= k
  <2> HIDE DEF left
  <2> QED
    BY <1>1, LeastNumber
<1>3. PICK n \in T : l = bound - n
  BY <1>2
<1>4. \A m \in T : bound - n <= bound - m
  BY <1>2, <1>3
<1>5. \A m \in T : m \in Nat
  OBVIOUS
<1> QED
  BY <1>4, <1>5

\* A set of finite sets has a smallest one.
LEMMA SmallestSet ==
    ASSUME NEW F, F # {}, \A T \in F : IsFiniteSet(T)
    PROVE  \E T \in F : \A U \in F : Cardinality(T) <= Cardinality(U)
<1> DEFINE sizes == {Cardinality(T) : T \in F}
<1>1. sizes \in SUBSET Nat /\ sizes # {}
  BY FS_CardinalityType
<1>2. PICK n \in sizes : \A m \in sizes : n <= m
  <2> HIDE DEF sizes
  <2> QED
    BY <1>1, LeastNumber
<1> QED
  BY <1>2

\* An element less is a smaller set.
LEMMA OneLess ==
    ASSUME NEW S, IsFiniteSet(S), NEW T \in SUBSET S, NEW x \in T
    PROVE  /\ IsFiniteSet(T) /\ IsFiniteSet(T \ {x})
           /\ Cardinality(T) \in Nat /\ Cardinality(T \ {x}) = Cardinality(T) - 1
           /\ ~(Cardinality(T) <= Cardinality(T \ {x}))
<1>1. IsFiniteSet(T)
  BY FS_Subset
<1>2. IsFiniteSet(T \ {x}) /\ Cardinality(T \ {x}) = Cardinality(T) - 1 /\ Cardinality(T) \in Nat
  BY <1>1, FS_RemoveElement, FS_CardinalityType
<1> QED
  BY <1>1, <1>2

-----------------------------------------------------------------------------
(* Sums over finite sets.                                                  *)

Some(T) == CHOOSE x \in T : TRUE

\* What a fold makes of the subsets of S, adding the value of some element to the
\* sum of the others.
IsSum(sum, v, S) ==
    sum = [T \in SUBSET S |-> IF T = {} THEN 0 ELSE v[Some(T)] + sum[T \ {Some(T)}]]

Total(v, S) == (CHOOSE sum : IsSum(sum, v, S))[S]

LEMMA SumDefined ==
    ASSUME NEW S, IsFiniteSet(S), NEW v
    PROVE  \E sum : IsSum(sum, v, S)
<1> DEFINE Small(n) == {T \in SUBSET S : Cardinality(T) <= n}
           Sums(sum, n) ==
               sum = [T \in Small(n) |-> IF T = {} THEN 0 ELSE v[Some(T)] + sum[T \ {Some(T)}]]
           Missing == {n \in Nat : ~ \E sum : Sums(sum, n)}
<1>0. /\ Cardinality({}) = 0
      /\ \A T \in SUBSET S : IsFiniteSet(T) /\ Cardinality(T) \in Nat
      /\ \A T \in SUBSET S : T # {} =>
            /\ Some(T) \in T /\ T \ {Some(T)} \in SUBSET S
            /\ Cardinality(T \ {Some(T)}) = Cardinality(T) - 1
  <2>1. Cardinality({}) = 0
    BY FS_EmptySet
  <2>2. ASSUME NEW T \in SUBSET S PROVE IsFiniteSet(T) /\ Cardinality(T) \in Nat
    BY FS_Subset, FS_CardinalityType
  <2>3. ASSUME NEW T \in SUBSET S, T # {}
        PROVE  /\ Some(T) \in T /\ T \ {Some(T)} \in SUBSET S
               /\ Cardinality(T \ {Some(T)}) = Cardinality(T) - 1
    <3>1. Some(T) \in T
      BY <2>3 DEF Some
    <3> QED
      BY <3>1, OneLess
  <2> QED
    BY <2>1, <2>2, <2>3
<1>1. Missing = {}
  <2> SUFFICES ASSUME Missing # {} PROVE FALSE
    OBVIOUS
  <2>1. PICK n \in Missing : \A m \in Missing : n <= m
    <3>1. Missing \in SUBSET Nat
      OBVIOUS
    <3> HIDE DEF Missing
    <3> QED
      BY <3>1, LeastNumber
  <2>2. n \in Nat
    OBVIOUS
  <2>3. CASE n = 0
    <3>1. \A T \in Small(0) : T = {}
      <4> TAKE T \in Small(0)
      <4>1. T # {} => Cardinality(T) - 1 \in Nat
        BY <1>0
      <4> QED
        BY <1>0, <4>1
    <3>2. Sums([T \in Small(0) |-> 0], 0)
      <4> HIDE DEF Small
      <4> QED
        BY <3>1
    <3> QED
      BY <2>1, <2>3, <3>2
  <2>4. CASE n # 0
    <3>1. n - 1 \in Nat /\ n - 1 \notin Missing
      <4>1. n - 1 \in Nat /\ ~(n <= n - 1)
        BY <2>2, <2>4
      <4> HIDE DEF Missing
      <4> QED
        BY <2>1, <4>1
    <3>2. PICK g : Sums(g, n - 1)
      BY <3>1
    <3> DEFINE Value(T) == IF T = {} THEN 0 ELSE v[Some(T)] + g[T \ {Some(T)}]
               h == [T \in Small(n) |-> Value(T)]
    <3>3. \A T \in Small(n - 1) : g[T] = Value(T) /\ T \in Small(n)
      <4>1. \A T \in Small(n - 1) : T \in Small(n)
        BY <1>0, <2>2
      <4>2. g = [T \in Small(n - 1) |-> Value(T)]
        BY <3>2
      <4>3. \A T \in Small(n - 1) : g[T] = Value(T)
        <5> DEFINE small == Small(n - 1)
        <5>1. g = [T \in small |-> Value(T)]
          BY <4>2
        <5> HIDE DEF small, Value
        <5>2. \A T \in small : g[T] = Value(T)
          BY <5>1
        <5> QED
          BY <5>2 DEF small
      <4> QED
        BY <4>1, <4>3
    <3>4. \A T \in Small(n) : T # {} => T \ {Some(T)} \in Small(n - 1)
      BY <1>0, <2>2
    <3>5. \A T \in Small(n) : T # {} => h[T \ {Some(T)}] = g[T \ {Some(T)}]
      BY <3>3, <3>4
    <3>6. h = [T \in Small(n) |-> IF T = {} THEN 0 ELSE v[Some(T)] + h[T \ {Some(T)}]]
      <4>1. \A T \in Small(n) : Value(T) = IF T = {} THEN 0 ELSE v[Some(T)] + h[T \ {Some(T)}]
        <5> HIDE DEF h, Small
        <5> QED
          BY <3>5
      <4> DEFINE Again(T) == IF T = {} THEN 0 ELSE v[Some(T)] + h[T \ {Some(T)}]
      <4>2. [T \in Small(n) |-> Value(T)] = [T \in Small(n) |-> Again(T)]
        <5>1. \A T \in Small(n) : Value(T) = Again(T)
          BY <4>1
        <5> HIDE DEF Value, Again, Small
        <5> QED
          BY <5>1
      <4>3. h = [T \in Small(n) |-> Again(T)]
        BY <4>2
      <4> QED
        BY <4>3
    <3>7. Sums(h, n)
      <4> HIDE DEF h
      <4> QED
        BY <3>6
    <3> QED
      BY <2>1, <3>7
  <2> QED
    BY <2>3, <2>4
<1>2. PICK sum : Sums(sum, Cardinality(S))
  BY <1>0, <1>1
<1>3. Small(Cardinality(S)) = SUBSET S
  BY FS_Subset
<1>4. IsSum(sum, v, S)
  BY <1>2, <1>3 DEF IsSum
<1> QED
  BY <1>4

\* The order in which it adds does not matter.
AnyOrder(sum, v, S) ==
    /\ sum[{}] = 0
    /\ \A T \in SUBSET S : sum[T] \in Nat /\ \A x \in T : sum[T] = v[x] + sum[T \ {x}]

LEMMA SumOrder ==
    ASSUME NEW S, IsFiniteSet(S), NEW v, \A x \in S : v[x] \in Nat, NEW sum, IsSum(sum, v, S)
    PROVE  AnyOrder(sum, v, S)
<1> DEFINE Good(T) == sum[T] \in Nat /\ \A x \in T : sum[T] = v[x] + sum[T \ {x}]
           Bad == {T \in SUBSET S : ~Good(T)}
<1>1. sum[{}] = 0
  BY DEF IsSum
<1>2. ASSUME NEW T \in SUBSET S, T # {}
      PROVE  Some(T) \in T /\ sum[T] = v[Some(T)] + sum[T \ {Some(T)}]
  BY <1>2 DEF IsSum, Some
<1>3. Bad = {}
  <2> SUFFICES ASSUME Bad # {} PROVE FALSE
    OBVIOUS
  <2>1. PICK T \in Bad : \A U \in Bad : Cardinality(T) <= Cardinality(U)
    <3>1. \A T \in Bad : IsFiniteSet(T)
      BY FS_Subset
    <3> HIDE DEF Bad
    <3> QED
      BY <3>1, SmallestSet
  <2>2. T \in SUBSET S /\ ~Good(T)
    OBVIOUS
  <2>3. CASE T = {}
    BY <1>1, <2>2, <2>3
  <2>4. CASE T # {}
    <3>1. ASSUME NEW x \in T PROVE T \ {x} \in SUBSET S /\ Good(T \ {x})
      <4>1. T \ {x} \in SUBSET S /\ ~(Cardinality(T) <= Cardinality(T \ {x}))
        BY <2>2, OneLess
      <4> QED
        BY <2>1, <4>1
    <3> DEFINE c == Some(T)
    <3>2. c \in T /\ sum[T] = v[c] + sum[T \ {c}] /\ v[c] \in Nat
      BY <1>2, <2>2, <2>4
    <3> HIDE DEF c
    <3>3. sum[T \ {c}] \in Nat /\ sum[T] \in Nat
      BY <3>1, <3>2
    <3>4. ASSUME NEW x \in T PROVE sum[T] = v[x] + sum[T \ {x}]
      <4>1. CASE x = c
        BY <3>2, <4>1
      <4>2. CASE x # c
        <5>1. sum[T \ {c}] = v[x] + sum[(T \ {c}) \ {x}]
          BY <3>1, <3>2, <4>2
        <5>2. sum[T \ {x}] = v[c] + sum[(T \ {x}) \ {c}]
          BY <3>1, <3>2, <4>2
        <5>3. sum[T \ {c}] = v[x] + sum[(T \ {x}) \ {c}]
          <6>1. (T \ {c}) \ {x} = (T \ {x}) \ {c}
            OBVIOUS
          <6> QED
            BY <5>1, <6>1
        <5>4. v[x] \in Nat /\ sum[(T \ {x}) \ {c}] \in Nat
          <6>1. c \in T \ {x}
            BY <3>2, <4>2
          <6>2. v[x] \in Nat /\ v[c] \in Nat /\ sum[T \ {x}] \in Nat
            BY <2>2, <3>1, <3>2
          <6>3. (T \ {x}) \ {c} \in SUBSET S
            BY <2>2
          <6>4. (T \ {x}) \ {c} \notin Bad
            <7>1. /\ Cardinality((T \ {x}) \ {c}) = Cardinality(T \ {x}) - 1
                  /\ Cardinality(T \ {x}) = Cardinality(T) - 1 /\ Cardinality(T) \in Nat
              <8>1. T \ {x} \in SUBSET S
                BY <2>2
              <8> QED
                BY <2>2, <6>1, <8>1, OneLess
            <7>2. ~(Cardinality(T) <= Cardinality((T \ {x}) \ {c}))
              BY <7>1
            <7> HIDE DEF Bad
            <7> QED
              BY <2>1, <7>2
          <6> QED
            BY <6>2, <6>3, <6>4
        <5>5. PICK a, b, r : a = v[x] /\ b = v[c] /\ r = sum[(T \ {x}) \ {c}]
          OBVIOUS
        <5>6. a \in Nat /\ b \in Nat /\ r \in Nat
          BY <3>2, <5>4, <5>5
        <5>7. sum[T] = b + (a + r) /\ sum[T \ {x}] = b + r
          BY <3>2, <5>2, <5>3, <5>5
        <5> QED
          BY <5>5, <5>6, <5>7
      <4> QED
        BY <4>1, <4>2
    <3> QED
      BY <2>2, <3>3, <3>4
  <2> QED
    BY <2>3, <2>4
<1> QED
  BY <1>1, <1>3 DEF AnyOrder

\* Two sums of the same values agree.
LEMMA SumsAgree ==
    ASSUME NEW S, IsFiniteSet(S), NEW v, \A x \in S : v[x] \in Nat, NEW sum, IsSum(sum, v, S),
           NEW R, IsFiniteSet(R), NEW w, \A x \in R : w[x] \in Nat, NEW other, IsSum(other, w, R)
    PROVE  \A T \in SUBSET (S \intersect R) : (\A x \in T : v[x] = w[x]) => sum[T] = other[T]
<1> DEFINE Bad == {T \in SUBSET (S \intersect R) : (\A x \in T : v[x] = w[x]) /\ sum[T] # other[T]}
<1>1. /\ sum[{}] = 0 /\ other[{}] = 0
      /\ \A T \in SUBSET S : \A x \in T : sum[T] = v[x] + sum[T \ {x}]
      /\ \A T \in SUBSET R : \A x \in T : other[T] = w[x] + other[T \ {x}]
  <2>1. AnyOrder(sum, v, S) /\ AnyOrder(other, w, R)
    BY SumOrder
  <2> QED
    BY <2>1 DEF AnyOrder
<1>2. Bad = {}
  <2> SUFFICES ASSUME Bad # {} PROVE FALSE
    OBVIOUS
  <2>1. PICK T \in Bad : \A U \in Bad : Cardinality(T) <= Cardinality(U)
    <3>1. \A T \in Bad : IsFiniteSet(T)
      BY FS_Subset
    <3> HIDE DEF Bad
    <3> QED
      BY <3>1, SmallestSet
  <2>2. T \in SUBSET S /\ T \in SUBSET R /\ (\A x \in T : v[x] = w[x]) /\ sum[T] # other[T]
    OBVIOUS
  <2>3. PICK x \in T : TRUE
    BY <1>1, <2>2
  <2>4. T \ {x} \notin Bad
    BY <2>1, <2>2, OneLess
  <2>5. sum[T \ {x}] = other[T \ {x}]
    BY <2>2, <2>4
  <2> QED
    BY <1>1, <2>2, <2>5
<1> QED
  BY <1>2

\* Any sum over a set with S among its subsets is the total of S.
LEMMA SumIsTotal ==
    ASSUME NEW S, IsFiniteSet(S), NEW v, \A x \in S : v[x] \in Nat, NEW sum, IsSum(sum, v, S)
    PROVE  \A T \in SUBSET S : sum[T] = Total(v, T)
<1> TAKE T \in SUBSET S
<1>1. IsFiniteSet(T) /\ \A x \in T : v[x] \in Nat
  BY FS_Subset
<1>2. PICK other : other = CHOOSE o : IsSum(o, v, T)
  OBVIOUS
<1>3. IsSum(other, v, T)
  <2>1. \E o : IsSum(o, v, T)
    BY <1>1, SumDefined
  <2> QED
    BY <1>2, <2>1
<1>4. T \in SUBSET (S \intersect T)
  OBVIOUS
<1>5. sum[T] = other[T]
  BY <1>1, <1>3, <1>4, SumsAgree
<1> QED
  BY <1>2, <1>5 DEF Total

\* An element taken out.
LEMMA TotalOf ==
    ASSUME NEW S, IsFiniteSet(S), NEW v, \A x \in S : v[x] \in Nat
    PROVE  /\ Total(v, {}) = 0
           /\ Total(v, S) \in Nat
           /\ \A x \in S : Total(v, S) = v[x] + Total(v, S \ {x})
<1>1. PICK sum : IsSum(sum, v, S)
  BY SumDefined
<1>2. /\ sum[{}] = 0 /\ sum[S] \in Nat
      /\ \A x \in S : sum[S] = v[x] + sum[S \ {x}]
  <2>1. AnyOrder(sum, v, S)
    BY <1>1, SumOrder
  <2> QED
    BY <2>1 DEF AnyOrder
<1>3. \A T \in SUBSET S : sum[T] = Total(v, T)
  BY <1>1, SumIsTotal
<1>4. {} \in SUBSET S /\ S \in SUBSET S /\ \A x \in S : S \ {x} \in SUBSET S
  OBVIOUS
<1> QED
  BY <1>2, <1>3, <1>4

\* The total of a part and of the rest.
LEMMA TotalSplit ==
    ASSUME NEW S, IsFiniteSet(S), NEW v, \A x \in S : v[x] \in Nat, NEW P \in SUBSET S
    PROVE  /\ Total(v, P) \in Nat /\ Total(v, S \ P) \in Nat
           /\ Total(v, S) = Total(v, P) + Total(v, S \ P)
<1> DEFINE Bad == {T \in SUBSET S : Total(v, T) # Total(v, T \intersect P) + Total(v, T \ P)}
<1>0. ASSUME NEW T \in SUBSET S
      PROVE  /\ Total(v, T) \in Nat
             /\ \A x \in T : Total(v, T) = v[x] + Total(v, T \ {x})
  <2>1. IsFiniteSet(T) /\ \A x \in T : v[x] \in Nat
    BY FS_Subset
  <2> QED
    BY <2>1, TotalOf
<1>1. Total(v, {}) = 0
  BY TotalOf
<1>2. Bad = {}
  <2> SUFFICES ASSUME Bad # {} PROVE FALSE
    OBVIOUS
  <2>1. PICK T \in Bad : \A U \in Bad : Cardinality(T) <= Cardinality(U)
    <3>1. \A T \in Bad : IsFiniteSet(T)
      BY FS_Subset
    <3> HIDE DEF Bad
    <3> QED
      BY <3>1, SmallestSet
  <2>2. T \in SUBSET S /\ Total(v, T) # Total(v, T \intersect P) + Total(v, T \ P)
    OBVIOUS
  <2>3. T # {}
    <3>1. {} \intersect P = {} /\ {} \ P = {}
      OBVIOUS
    <3> QED
      BY <1>1, <2>2, <3>1
  <2>4. PICK x \in T : TRUE
    BY <2>3
  <2> DEFINE U == T \ {x}
  <2>5. /\ Total(v, U) = Total(v, U \intersect P) + Total(v, U \ P)
        /\ Total(v, T) = v[x] + Total(v, U) /\ v[x] \in Nat
        /\ Total(v, U \intersect P) \in Nat /\ Total(v, U \ P) \in Nat
    <3>1. U \in SUBSET S /\ ~(Cardinality(T) <= Cardinality(U))
      BY <2>2, OneLess
    <3>2. U \notin Bad
      BY <2>1, <3>1
    <3>3. Total(v, U \intersect P) \in Nat /\ Total(v, U \ P) \in Nat
      BY <1>0
    <3> QED
      BY <1>0, <2>2, <3>1, <3>2, <3>3
  <2>6. CASE x \in P
    <3>1. /\ T \intersect P \in SUBSET S /\ x \in T \intersect P
          /\ (T \intersect P) \ {x} = U \intersect P /\ T \ P = U \ P
      BY <2>2, <2>6
    <3>2. Total(v, T \intersect P) = v[x] + Total(v, U \intersect P)
      BY <1>0, <3>1
    <3>3. PICK a, b, c : a = v[x] /\ b = Total(v, U \intersect P) /\ c = Total(v, U \ P)
      OBVIOUS
    <3>4. a \in Nat /\ b \in Nat /\ c \in Nat /\ Total(v, T) = a + (b + c)
      BY <2>5, <3>3
    <3>5. Total(v, T \intersect P) = a + b
      BY <3>2, <3>3
    <3>6. Total(v, T \ P) = c
      <4> HIDE DEF U
      <4> QED
        BY <3>1, <3>3
    <3> QED
      BY <2>2, <3>4, <3>5, <3>6
  <2>7. CASE x \notin P
    <3>1. /\ T \ P \in SUBSET S /\ x \in T \ P
          /\ (T \ P) \ {x} = U \ P /\ T \intersect P = U \intersect P
      BY <2>2, <2>7
    <3>2. Total(v, T \ P) = v[x] + Total(v, U \ P)
      BY <1>0, <3>1
    <3>3. PICK a, b, c : a = v[x] /\ b = Total(v, U \intersect P) /\ c = Total(v, U \ P)
      OBVIOUS
    <3>4. a \in Nat /\ b \in Nat /\ c \in Nat /\ Total(v, T) = a + (b + c)
      BY <2>5, <3>3
    <3>5. Total(v, T \intersect P) = b
      <4> HIDE DEF U
      <4> QED
        BY <3>1, <3>3
    <3>6. Total(v, T \ P) = a + c
      BY <3>2, <3>3
    <3> QED
      BY <2>2, <3>4, <3>5, <3>6
  <2> QED
    BY <2>6, <2>7
<1>3. S \intersect P = P /\ S \in SUBSET S
  OBVIOUS
<1>4. S \notin Bad
  BY <1>2
<1>5. Total(v, S) = Total(v, P) + Total(v, S \ P)
  BY <1>3, <1>4
<1> QED
  BY <1>0, <1>5

\* Nothing but zeros.
LEMMA TotalOfZeros ==
    ASSUME NEW S, IsFiniteSet(S), NEW v, \A x \in S : v[x] = 0
    PROVE  Total(v, S) = 0
<1> DEFINE Bad == {T \in SUBSET S : Total(v, T) # 0}
<1>1. Bad = {}
  <2> SUFFICES ASSUME Bad # {} PROVE FALSE
    OBVIOUS
  <2>1. PICK T \in Bad : \A U \in Bad : Cardinality(T) <= Cardinality(U)
    <3>1. \A T \in Bad : IsFiniteSet(T)
      BY FS_Subset
    <3> HIDE DEF Bad
    <3> QED
      BY <3>1, SmallestSet
  <2>2. T \in SUBSET S /\ IsFiniteSet(T) /\ \A x \in T : v[x] \in Nat
    BY FS_Subset
  <2>3. /\ Total(v, {}) = 0
        /\ \A x \in T : Total(v, T) = v[x] + Total(v, T \ {x})
    BY <2>2, TotalOf
  <2>4. PICK x \in T : TRUE
    BY <2>1, <2>3
  <2>5. Total(v, T \ {x}) = 0
    <3>1. T \ {x} \in SUBSET S /\ ~(Cardinality(T) <= Cardinality(T \ {x}))
      BY <2>2, OneLess
    <3> QED
      BY <2>1, <3>1
  <2> QED
    BY <2>1, <2>2, <2>3, <2>5
<1> QED
  BY <1>1

\* The same values, the same total.
LEMMA TotalSame ==
    ASSUME NEW S, IsFiniteSet(S), NEW v, NEW w, \A x \in S : v[x] \in Nat /\ w[x] = v[x]
    PROVE  Total(v, S) = Total(w, S)
<1>1. PICK sum : IsSum(sum, v, S)
  BY SumDefined
<1>2. PICK other : IsSum(other, w, S)
  BY SumDefined
<1>3. S \in SUBSET (S \intersect S) /\ (\A x \in S : w[x] \in Nat) /\ (\A x \in S : v[x] \in Nat)
  OBVIOUS
<1>4. sum[S] = other[S]
  BY <1>1, <1>2, <1>3, SumsAgree
<1>5. sum[S] = Total(v, S) /\ other[S] = Total(w, S)
  BY <1>1, <1>2, <1>3, SumIsTotal
<1> QED
  BY <1>4, <1>5

\* Values that are near each other, counted c times, have totals that are as near for
\* each of them.
LEMMA TotalsNear ==
    ASSUME NEW S, IsFiniteSet(S), NEW v, NEW w, NEW c \in Nat, NEW d \in Nat,
           \A x \in S : /\ v[x] \in Nat /\ w[x] \in Nat
                        /\ c * v[x] <= w[x] + d /\ w[x] <= c * v[x] + d
    PROVE  /\ c * Total(v, S) <= Total(w, S) + d * Cardinality(S)
           /\ Total(w, S) <= c * Total(v, S) + d * Cardinality(S)
<1> DEFINE Near(T) == /\ c * Total(v, T) <= Total(w, T) + d * Cardinality(T)
                      /\ Total(w, T) <= c * Total(v, T) + d * Cardinality(T)
           Bad == {T \in SUBSET S : ~Near(T)}
<1>0. ASSUME NEW T \in SUBSET S
      PROVE  /\ IsFiniteSet(T) /\ Total(v, T) \in Nat /\ Total(w, T) \in Nat
             /\ \A x \in T : /\ Total(v, T) = v[x] + Total(v, T \ {x})
                             /\ Total(w, T) = w[x] + Total(w, T \ {x})
  <2>1. /\ IsFiniteSet(T)
        /\ \A x \in T : v[x] \in Nat
        /\ \A x \in T : w[x] \in Nat
    BY FS_Subset
  <2>2. Total(v, T) \in Nat /\ \A x \in T : Total(v, T) = v[x] + Total(v, T \ {x})
    BY <2>1, TotalOf
  <2>3. Total(w, T) \in Nat /\ \A x \in T : Total(w, T) = w[x] + Total(w, T \ {x})
    BY <2>1, TotalOf
  <2> QED
    BY <2>1, <2>2, <2>3
<1>1. Near({})
  <2>1. Total(v, {}) = 0 /\ Total(w, {}) = 0 /\ Cardinality({}) = 0
    <3>1. (\A x \in S : v[x] \in Nat) /\ \A x \in S : w[x] \in Nat
      OBVIOUS
    <3>2. Total(v, {}) = 0
      BY <3>1, TotalOf
    <3>3. Total(w, {}) = 0
      BY <3>1, TotalOf
    <3> QED
      BY <3>2, <3>3, FS_EmptySet
  <2> QED
    BY <2>1
<1>2. Bad = {}
  <2> SUFFICES ASSUME Bad # {} PROVE FALSE
    OBVIOUS
  <2>1. PICK T \in Bad : \A U \in Bad : Cardinality(T) <= Cardinality(U)
    <3>1. \A T \in Bad : IsFiniteSet(T)
      BY <1>0
    <3> HIDE DEF Bad
    <3> QED
      BY <3>1, SmallestSet
  <2>2. T \in SUBSET S /\ ~Near(T)
    OBVIOUS
  <2>3. T # {}
    <3> HIDE DEF Near
    <3> QED
      BY <1>1, <2>2
  <2>4. PICK x \in T : TRUE
    BY <2>3
  <2>5. PICK U : U = T \ {x}
    OBVIOUS
  <2>6. U \in SUBSET S /\ ~(Cardinality(T) <= Cardinality(U))
    BY <1>0, <2>2, <2>4, <2>5, OneLess
  <2>7. Near(U)
    <3> HIDE DEF Near
    <3> QED
      BY <2>1, <2>6
  <2>8. PICK a, b, t, u, n : /\ a = v[x] /\ b = w[x] /\ t = Total(v, U) /\ u = Total(w, U)
                             /\ n = Cardinality(U)
    OBVIOUS
  <2>9. /\ a \in Nat /\ b \in Nat /\ c * a <= b + d /\ b <= c * a + d
        /\ t \in Nat /\ u \in Nat /\ n \in Nat
    <3>1. x \in S
      BY <2>2, <2>4
    <3>2. t \in Nat /\ u \in Nat /\ IsFiniteSet(U)
      BY <1>0, <2>6, <2>8
    <3>3. n \in Nat
      BY <2>8, <3>2, FS_CardinalityType
    <3> QED
      BY <2>8, <3>1, <3>2, <3>3
  <2>10. Total(v, T) = a + t /\ Total(w, T) = b + u
    BY <1>0, <2>2, <2>4, <2>5, <2>8
  <2>11. Cardinality(T) = n + 1
    <3>1. IsFiniteSet(T)
      BY <1>0, <2>2
    <3>2. Cardinality(T \ {x}) = Cardinality(T) - 1 /\ Cardinality(T) \in Nat
      BY <2>4, <3>1, FS_RemoveElement, FS_CardinalityType
    <3> QED
      BY <2>5, <2>8, <3>2
  <2>12. c * t <= u + d * n /\ u <= c * t + d * n
    BY <2>7, <2>8
  <2>13. PICK ca, ct, dn : ca = c * a /\ ct = c * t /\ dn = d * n
    OBVIOUS
  <2>14. /\ ca \in Nat /\ ct \in Nat /\ dn \in Nat
         /\ c * (a + t) = ca + ct /\ d * (n + 1) = dn + d
    BY <2>9, <2>13
  <2>15. c * (a + t) <= (b + u) + d * (n + 1) /\ b + u <= c * (a + t) + d * (n + 1)
    <3>1. ca <= b + d /\ b <= ca + d /\ ct <= u + dn /\ u <= ct + dn
      BY <2>9, <2>12, <2>13
    <3> QED
      BY <2>9, <2>14, <3>1
  <2>16. Near(T)
    BY <2>10, <2>11, <2>15
  <2> QED
    BY <2>2, <2>16
<1>3. S \in SUBSET S
  OBVIOUS
<1>4. Near(S)
  BY <1>2, <1>3
<1> QED
  BY <1>4

=============================================================================
