-------------------------- MODULE ImageCacheProofs --------------------------
(***************************************************************************)
(* Proofs about ImageCache, for any images, costs, limits and workers: the *)
(* cache's totals balance, whatever is decoding has a decode coming, and   *)
(* eviction keeps the limits and what is on screen.                        *)
(*                                                                         *)
(* Three of the model's definitions go round: Only a list, Evict from      *)
(* cache to smaller cache, Total over a set.  Each is shown to have a      *)
(* solution first, by counting, and then to step as its definition says.   *)
(***************************************************************************)
EXTENDS ImageCache, SequenceTheorems, FiniteSetTheorems, WellFoundedInduction,
        TLAPS

\* Counting: a set of naturals with 0 and every successor has them all.
LEMMA Counting ==
  ASSUME NEW S \in SUBSET Nat, 0 \in S, \A n \in S : n + 1 \in S
  PROVE  S = Nat
<1> DEFINE R == {ss \in Nat \X Nat : ss[1] < ss[2]}
           T == Nat \ S
<1>1. IsWellFoundedOn(R, Nat)
  BY NatLessThanWellFounded DEF OpToRel
<1> SUFFICES ASSUME T # {} PROVE FALSE
  OBVIOUS
<1>2. PICK x \in T : \A y \in T : <<y, x>> \notin R
  <2> HIDE DEF R, T
  <2>1. T \subseteq Nat
    BY DEF T
  <2> QED
    BY <1>1, <2>1, WFMin, Zenon
<1>3. x # 0
  OBVIOUS
<1>4. x - 1 \in T
  <2>1. x - 1 \in S => (x - 1) + 1 \in S
    OBVIOUS
  <2> QED
    BY <1>3, <2>1
<1>5. <<x - 1, x>> \in R
  BY <1>3, <1>4
<1> QED
  BY <1>2, <1>4, <1>5

(***************************************************************************)
(* Sums over finite sets.                                                  *)
(***************************************************************************)

\* The element a sum takes first.
Taken(s) == CHOOSE x \in s : TRUE

\* f sums cost over every set of D, taking one element at a time.
Sums(f, cost, D) ==
  f = [s \in D |-> IF s = {} THEN 0 ELSE cost[Taken(s)] + f[s \ {Taken(s)}]]

\* The subsets of no more than n elements.
Small(S, n) == {s \in SUBSET S : Cardinality(s) <= n}

\* A set without the element that is taken first is smaller.
LEMMA SmallerLeft ==
  ASSUME NEW S, IsFiniteSet(S), NEW s \in SUBSET S, s # {}
  PROVE  /\ Taken(s) \in s /\ s \ {Taken(s)} \in SUBSET S
         /\ IsFiniteSet(s)
         /\ Cardinality(s) \in Nat /\ Cardinality(s \ {Taken(s)}) = Cardinality(s) - 1
<1>1. Taken(s) \in s
  BY DEF Taken
<1>2. IsFiniteSet(s) /\ Cardinality(s) \in Nat
  BY FS_Subset, FS_CardinalityType
<1>3. Cardinality(s \ {Taken(s)}) = Cardinality(s) - 1
  BY <1>1, <1>2, FS_RemoveElement
<1> QED
  BY <1>1, <1>2, <1>3

\* Sums can be taken over all subsets of a finite set.
LEMMA SumsAreThere ==
  ASSUME NEW S, IsFiniteSet(S), NEW cost
  PROVE  \E f : Sums(f, cost, SUBSET S)
<1> DEFINE There == {n \in Nat : \E f : Sums(f, cost, Small(S, n))}
<1>1. 0 \in There
  <2> DEFINE f == [s \in Small(S, 0) |-> 0]
  <2>1. \A s \in Small(S, 0) : s = {}
    <3> TAKE s \in Small(S, 0)
    <3>1. s \in SUBSET S /\ Cardinality(s) <= 0
      BY DEF Small
    <3>2. IsFiniteSet(s) /\ Cardinality(s) \in Nat
      BY <3>1, FS_Subset, FS_CardinalityType
    <3> QED
      BY <3>1, <3>2, FS_EmptySet
  <2>2. f = [s \in Small(S, 0) |-> IF s = {} THEN 0 ELSE cost[Taken(s)] + f[s \ {Taken(s)}]]
    BY <2>1
  <2>3. Sums(f, cost, Small(S, 0))
    <3> HIDE DEF f
    <3> QED
      BY <2>2 DEF Sums
  <2> QED
    BY <2>3
<1>2. ASSUME NEW n \in There PROVE n + 1 \in There
  <2>1. PICK f : Sums(f, cost, Small(S, n))
    OBVIOUS
  <2> DEFINE Next1(h, s) == IF s = {} THEN 0 ELSE cost[Taken(s)] + h[s \ {Taken(s)}]
             g == [s \in Small(S, n + 1) |-> IF s \in Small(S, n) THEN f[s] ELSE Next1(f, s)]
  <2>2. \A s \in Small(S, n) : f[s] = Next1(f, s)
    BY <2>1 DEF Sums
  <2>3. \A s \in Small(S, n + 1) : s # {} => s \ {Taken(s)} \in Small(S, n)
    <3> SUFFICES ASSUME NEW s \in Small(S, n + 1), s # {} PROVE s \ {Taken(s)} \in Small(S, n)
      OBVIOUS
    <3>1. s \in SUBSET S /\ Cardinality(s) <= n + 1
      BY DEF Small
    <3>2. /\ s \ {Taken(s)} \in SUBSET S /\ Cardinality(s) \in Nat
          /\ Cardinality(s \ {Taken(s)}) = Cardinality(s) - 1
      BY <3>1, SmallerLeft
    <3> QED
      BY <3>1, <3>2 DEF Small
  <2>4. Small(S, n) \subseteq Small(S, n + 1)
    <3> SUFFICES ASSUME NEW s \in Small(S, n) PROVE s \in Small(S, n + 1)
      OBVIOUS
    <3>1. s \in SUBSET S /\ Cardinality(s) <= n
      BY DEF Small
    <3>2. Cardinality(s) \in Nat
      BY <3>1, FS_Subset, FS_CardinalityType
    <3> QED
      BY <3>1, <3>2 DEF Small
  <2>5. \A s \in Small(S, n + 1) : g[s] = Next1(f, s)
    BY <2>2
  <2>6. \A s \in Small(S, n) : g[s] = f[s]
    BY <2>4
  <2>7. \A s \in Small(S, n + 1) : g[s] = Next1(g, s)
    <3> TAKE s \in Small(S, n + 1)
    <3>1. s # {} => g[s \ {Taken(s)}] = f[s \ {Taken(s)}]
      BY <2>3, <2>6
    <3>2. g[s] = Next1(f, s)
      BY <2>5
    <3> HIDE DEF g
    <3> QED
      BY <3>1, <3>2
  <2>8. g = [s \in Small(S, n + 1) |-> Next1(g, s)]
    <3> HIDE DEF Next1
    <3> QED
      BY <2>7
  <2>9. Sums(g, cost, Small(S, n + 1))
    <3> HIDE DEF g
    <3> QED
      BY <2>8 DEF Sums
  <2> QED
    BY <2>9
<1>3. There = Nat
  BY <1>1, <1>2, Counting
<1>4. Cardinality(S) \in Nat /\ Small(S, Cardinality(S)) = SUBSET S
  <2>1. Cardinality(S) \in Nat
    BY FS_CardinalityType
  <2>2. \A s \in SUBSET S : Cardinality(s) <= Cardinality(S)
    BY FS_Subset
  <2> QED
    BY <2>1, <2>2 DEF Small
<1>5. Cardinality(S) \in There
  BY <1>3, <1>4
<1> QED
  BY <1>4, <1>5

\* And there is one way to take them.
LEMMA SumsAreUnique ==
  ASSUME NEW S, IsFiniteSet(S), NEW T \in SUBSET S, NEW cost, NEW f, NEW g,
         Sums(f, cost, SUBSET S), Sums(g, cost, SUBSET T)
  PROVE  \A s \in SUBSET T : f[s] = g[s]
<1> DEFINE Same == {n \in Nat : \A s \in SUBSET T : Cardinality(s) <= n => f[s] = g[s]}
<1>1. ASSUME NEW s \in SUBSET T
      PROVE  /\ f[s] = IF s = {} THEN 0 ELSE cost[Taken(s)] + f[s \ {Taken(s)}]
             /\ g[s] = IF s = {} THEN 0 ELSE cost[Taken(s)] + g[s \ {Taken(s)}]
  BY DEF Sums
<1>2. 0 \in Same
  <2> SUFFICES ASSUME NEW s \in SUBSET T, Cardinality(s) <= 0 PROVE f[s] = g[s]
    OBVIOUS
  <2>1. IsFiniteSet(s) /\ Cardinality(s) \in Nat
    BY FS_Subset, FS_CardinalityType
  <2>2. s = {}
    BY <2>1, FS_EmptySet
  <2> QED
    BY <1>1, <2>2
<1>3. ASSUME NEW n \in Same PROVE n + 1 \in Same
  <2> SUFFICES ASSUME NEW s \in SUBSET T, Cardinality(s) <= n + 1, s # {} PROVE f[s] = g[s]
    BY <1>1
  <2>1. IsFiniteSet(T)
    BY FS_Subset
  <2>2. /\ s \ {Taken(s)} \in SUBSET T /\ Cardinality(s) \in Nat
        /\ Cardinality(s \ {Taken(s)}) = Cardinality(s) - 1
    BY <2>1, SmallerLeft
  <2>3. f[s \ {Taken(s)}] = g[s \ {Taken(s)}]
    BY <2>2
  <2> QED
    BY <1>1, <2>3
<1>4. Same = Nat
  BY <1>2, <1>3, Counting
<1> TAKE s \in SUBSET T
<1>5. Cardinality(s) \in Nat
  BY FS_Subset, FS_CardinalityType
<1> QED
  BY <1>4, <1>5

\* Total takes one element and goes on with the rest.
LEMMA TotalStep ==
  ASSUME NEW S, IsFiniteSet(S), NEW cost
  PROVE  /\ Total(cost, {}) = 0
         /\ S # {} => Total(cost, S) = cost[Taken(S)] + Total(cost, S \ {Taken(S)})
<1> DEFINE The1(T) == CHOOSE f : Sums(f, cost, SUBSET T)
<1>1. \A T : Total(cost, T) = The1(T)[T]
  BY DEF Total, MapThenSumSet, MapThenFoldSet, Sums, Taken
<1>2. ASSUME NEW T, IsFiniteSet(T) PROVE Sums(The1(T), cost, SUBSET T)
  <2>1. \E f : Sums(f, cost, SUBSET T)
    BY <1>2, SumsAreThere
  <2> QED
    BY <2>1
<1> HIDE DEF The1
<1>3. Total(cost, {}) = 0
  <2>1. IsFiniteSet({})
    BY FS_EmptySet
  <2>2. Sums(The1({}), cost, SUBSET {})
    BY <1>2, <2>1
  <2>3. The1({})[{}] = 0
    BY <2>2 DEF Sums
  <2> QED
    BY <1>1, <2>3
<1>4. ASSUME S # {} PROVE Total(cost, S) = cost[Taken(S)] + Total(cost, S \ {Taken(S)})
  <2> DEFINE R == S \ {Taken(S)}
  <2>1. R \in SUBSET S /\ IsFiniteSet(R)
    BY FS_Subset
  <2>2. Sums(The1(S), cost, SUBSET S) /\ Sums(The1(R), cost, SUBSET R)
    BY <1>2, <2>1
  <2>3. The1(S)[S] = cost[Taken(S)] + The1(S)[R]
    BY <1>4, <2>2 DEF Sums
  <2>4. The1(S)[R] = The1(R)[R]
    <3>1. \A s \in SUBSET R : The1(S)[s] = The1(R)[s]
      <4> HIDE DEF R
      <4> QED
        BY <2>1, <2>2, SumsAreUnique
    <3> QED
      BY <3>1
  <2> QED
    BY <1>1, <2>3, <2>4
<1> QED
  BY <1>3, <1>4

\* Shrinking: a property of the empty set that a set has if it holds of the
\* set without any one of its elements is one of every finite set.
LEMMA Shrinking ==
  ASSUME NEW S, IsFiniteSet(S), NEW P, {} \in P,
         \A T \in SUBSET S : T # {} /\ (\A x \in T : T \ {x} \in P) => T \in P
  PROVE  \A T \in SUBSET S : T \in P
<1> DEFINE Upto == {n \in Nat : \A T \in SUBSET S : Cardinality(T) <= n => T \in P}
<1>1. \A T \in SUBSET S : IsFiniteSet(T) /\ Cardinality(T) \in Nat
  BY FS_Subset, FS_CardinalityType
<1>2. 0 \in Upto
  <2> SUFFICES ASSUME NEW T \in SUBSET S, Cardinality(T) <= 0 PROVE T \in P
    OBVIOUS
  <2>1. T = {}
    BY <1>1, FS_EmptySet
  <2> QED
    BY <2>1
<1>3. ASSUME NEW n \in Upto PROVE n + 1 \in Upto
  <2> SUFFICES ASSUME NEW T \in SUBSET S, Cardinality(T) <= n + 1 PROVE T \in P
    OBVIOUS
  <2> SUFFICES ASSUME T # {} PROVE T \in P
    BY Zenon
  <2>1. ASSUME NEW x \in T PROVE T \ {x} \in P
    <3>1. Cardinality(T \ {x}) = Cardinality(T) - 1
      BY <1>1, FS_RemoveElement
    <3> QED
      BY <1>1, <3>1
  <2> QED
    BY <2>1
<1>4. Upto = Nat
  BY <1>2, <1>3, Counting
<1> TAKE T \in SUBSET S
<1>5. Cardinality(T) \in Upto
  BY <1>1, <1>4
<1> QED
  BY <1>1, <1>5

\* Every cost is a whole number.
Whole(cost, S) == \A x \in S : cost[x] \in Int

\* A sum of whole numbers is one.
LEMMA TotalInt ==
  ASSUME NEW S, IsFiniteSet(S), NEW cost, Whole(cost, S)
  PROVE  \A T \in SUBSET S : Total(cost, T) \in Int
<1> DEFINE P == {T \in SUBSET S : Total(cost, T) \in Int}
<1>1. {} \in P
  BY TotalStep, FS_EmptySet
<1>2. ASSUME NEW T \in SUBSET S, T # {}, \A x \in T : T \ {x} \in P PROVE T \in P
  <2>1. Taken(T) \in T /\ IsFiniteSet(T)
    BY <1>2, SmallerLeft
  <2>2. Total(cost, T) = cost[Taken(T)] + Total(cost, T \ {Taken(T)})
    BY <1>2, <2>1, TotalStep
  <2>3. cost[Taken(T)] \in Int /\ Total(cost, T \ {Taken(T)}) \in Int
    BY <1>2, <2>1 DEF Whole
  <2> QED
    BY <2>2, <2>3
<1>3. \A T \in SUBSET S : T \in P
  <2> HIDE DEF P
  <2> QED
    BY <1>1, <1>2, Shrinking
<1> QED
  BY <1>3

\* Any element may be taken first.
LEMMA TotalTakes ==
  ASSUME NEW S, IsFiniteSet(S), NEW cost, Whole(cost, S), NEW x \in S
  PROVE  Total(cost, S) = cost[x] + Total(cost, S \ {x})
<1> DEFINE Takes(T) == \A y \in T : Total(cost, T) = cost[y] + Total(cost, T \ {y})
           P == {T \in SUBSET S : Takes(T)}
<1>1. {} \in P
  OBVIOUS
<1>2. ASSUME NEW T \in SUBSET S, T # {}, \A z \in T : T \ {z} \in P PROVE T \in P
  <2> SUFFICES ASSUME NEW y \in T
               PROVE  Total(cost, T) = cost[y] + Total(cost, T \ {y})
    OBVIOUS
  <2> DEFINE c == Taken(T)
  <2>1. c \in T /\ IsFiniteSet(T)
    BY <1>2, SmallerLeft
  <2>2. Total(cost, T) = cost[c] + Total(cost, T \ {c})
    BY <1>2, <2>1, TotalStep
  <2>3. CASE y = c
    BY <2>2, <2>3
  <2>4. CASE y # c
    <3> HIDE DEF c
    <3>1. Total(cost, T \ {c}) = cost[y] + Total(cost, (T \ {c}) \ {y})
      BY <1>2, <2>1, <2>4
    <3>2. Total(cost, T \ {y}) = cost[c] + Total(cost, (T \ {y}) \ {c})
      BY <1>2, <2>1, <2>4
    <3>3. (T \ {c}) \ {y} = (T \ {y}) \ {c}
      OBVIOUS
    <3>4. cost[y] \in Int /\ cost[c] \in Int
      BY <2>1 DEF Whole
    <3>5. Total(cost, (T \ {y}) \ {c}) \in Int
      <4>1. (T \ {y}) \ {c} \in SUBSET S
        OBVIOUS
      <4> QED
        BY <4>1, TotalInt
    <3>6. Total(cost, (T \ {c}) \ {y}) = Total(cost, (T \ {y}) \ {c})
      BY <3>3, Zenon
    <3> QED
      BY <2>2, <3>1, <3>2, <3>4, <3>5, <3>6
  <2> QED
    BY <2>3, <2>4
<1>3. \A T \in SUBSET S : T \in P
  <2> HIDE DEF P
  <2> QED
    BY <1>1, <1>2, Shrinking
<1>4. Takes(S)
  BY <1>3
<1> QED
  BY <1>4

\* Only what the elements cost counts.
LEMMA TotalSame ==
  ASSUME NEW S, IsFiniteSet(S), NEW cost, NEW price, \A x \in S : cost[x] = price[x]
  PROVE  Total(cost, S) = Total(price, S)
<1> DEFINE P == {T \in SUBSET S : Total(cost, T) = Total(price, T)}
<1>1. {} \in P
  BY TotalStep, FS_EmptySet
<1>2. ASSUME NEW T \in SUBSET S, T # {}, \A x \in T : T \ {x} \in P PROVE T \in P
  <2>1. Taken(T) \in T /\ IsFiniteSet(T)
    BY <1>2, SmallerLeft
  <2>2. /\ Total(cost, T) = cost[Taken(T)] + Total(cost, T \ {Taken(T)})
        /\ Total(price, T) = price[Taken(T)] + Total(price, T \ {Taken(T)})
    BY <1>2, <2>1, TotalStep
  <2>3. cost[Taken(T)] = price[Taken(T)] /\ Total(cost, T \ {Taken(T)}) = Total(price, T \ {Taken(T)})
    BY <1>2, <2>1
  <2> QED
    BY <2>2, <2>3
<1>3. \A T \in SUBSET S : T \in P
  <2> HIDE DEF P
  <2> QED
    BY <1>1, <1>2, Shrinking
<1> QED
  BY <1>3

\* What a change of one cost does to the sum.
LEMMA TotalChange ==
  ASSUME NEW S, IsFiniteSet(S), NEW cost, NEW price, Whole(cost, S), Whole(price, S),
         NEW x \in S, \A y \in S \ {x} : cost[y] = price[y]
  PROVE  Total(price, S) = Total(cost, S) - cost[x] + price[x]
<1>1. /\ Total(cost, S) = cost[x] + Total(cost, S \ {x})
      /\ Total(price, S) = price[x] + Total(price, S \ {x})
  BY TotalTakes
<1>2. IsFiniteSet(S \ {x})
  BY FS_RemoveElement
<1>3. Total(cost, S \ {x}) = Total(price, S \ {x})
  BY <1>2, TotalSame
<1>4. cost[x] \in Int /\ price[x] \in Int /\ Total(cost, S \ {x}) \in Int
  BY TotalInt DEF Whole
<1> QED
  BY <1>1, <1>3, <1>4

\* A sum of natural numbers is one.
LEMMA TotalNat ==
  ASSUME NEW S, IsFiniteSet(S), NEW cost, \A x \in S : cost[x] \in Nat
  PROVE  Total(cost, S) \in Nat
<1> DEFINE P == {T \in SUBSET S : Total(cost, T) \in Nat}
<1>1. {} \in P
  <2>1. Total(cost, {}) = 0
    BY TotalStep, FS_EmptySet
  <2> QED
    BY <2>1
<1>2. ASSUME NEW T \in SUBSET S, T # {}, \A x \in T : T \ {x} \in P PROVE T \in P
  <2>1. Taken(T) \in T /\ IsFiniteSet(T)
    BY <1>2, SmallerLeft
  <2>2. Total(cost, T) = cost[Taken(T)] + Total(cost, T \ {Taken(T)})
    BY <1>2, <2>1, TotalStep
  <2>3. cost[Taken(T)] \in Nat /\ Total(cost, T \ {Taken(T)}) \in Nat
    BY <1>2, <2>1
  <2> QED
    BY <2>2, <2>3
<1>3. \A T \in SUBSET S : T \in P
  <2> HIDE DEF P
  <2> QED
    BY <1>1, <1>2, Shrinking
<1> QED
  BY <1>3

\* What costs nothing need not be summed.
LEMMA TotalPart ==
  ASSUME NEW S, IsFiniteSet(S), NEW cost, Whole(cost, S), NEW U \in SUBSET S,
         \A x \in S \ U : cost[x] = 0
  PROVE  Total(cost, S) = Total(cost, U)
<1> DEFINE P == {T \in SUBSET S : Total(cost, T) = Total(cost, T \intersect U)}
<1>1. {} \in P
  <2>1. {} \intersect U = {}
    OBVIOUS
  <2> QED
    BY <2>1
<1>2. ASSUME NEW T \in SUBSET S, T # {}, \A x \in T : T \ {x} \in P PROVE T \in P
  <2> DEFINE x == Taken(T)
  <2>1. x \in T /\ IsFiniteSet(T)
    BY <1>2, SmallerLeft
  <2>2. Whole(cost, T) /\ Whole(cost, T \intersect U) /\ IsFiniteSet(T \intersect U)
    BY <2>1, FS_Intersection DEF Whole
  <2> HIDE DEF x
  <2>3. Total(cost, T) = cost[x] + Total(cost, T \ {x})
    BY <2>1, <2>2, TotalTakes
  <2>4. Total(cost, T \ {x}) = Total(cost, (T \ {x}) \intersect U)
    BY <1>2, <2>1
  <2>5. Total(cost, (T \ {x}) \intersect U) \in Int
    BY TotalInt
  <2>6. CASE x \in U
    <3>1. Total(cost, T \intersect U) = cost[x] + Total(cost, (T \intersect U) \ {x})
      BY <2>1, <2>2, <2>6, TotalTakes
    <3>2. (T \intersect U) \ {x} = (T \ {x}) \intersect U
      OBVIOUS
    <3> QED
      BY <2>3, <2>4, <3>1, <3>2
  <2>7. CASE x \notin U
    <3>1. T \intersect U = (T \ {x}) \intersect U /\ cost[x] = 0
      BY <2>1, <2>7
    <3>2. Total(cost, T \intersect U) = Total(cost, (T \ {x}) \intersect U)
      BY <3>1, Zenon
    <3> QED
      BY <2>3, <2>4, <2>5, <3>1, <3>2
  <2> QED
    BY <2>6, <2>7
<1>3. \A T \in SUBSET S : T \in P
  <2> HIDE DEF P
  <2> QED
    BY <1>1, <1>2, Shrinking
<1>4. S \in P /\ S \intersect U = U
  BY <1>3
<1> QED
  BY <1>4

\* f is the walk of Only over the first n items of a list.
IsWalk(f, list, S, n) ==
  f = [m \in 0..n |->
         IF m = 0 THEN <<>>
         ELSE IF list[m] \in S THEN Append(f[m - 1], list[m]) ELSE f[m - 1]]

\* There is a walk over any number of items.
LEMMA WalkIsThere ==
  ASSUME NEW list, NEW S
  PROVE  \A n \in Nat : \E f : IsWalk(f, list, S, n)
<1> DEFINE Extend(f, m) == IF m = 0 THEN <<>>
                           ELSE IF list[m] \in S THEN Append(f[m - 1], list[m]) ELSE f[m - 1]
           There == {n \in Nat : \E f : IsWalk(f, list, S, n)}
<1>1. 0 \in There
  <2>1. IsWalk([m \in 0..0 |-> <<>>], list, S, 0)
    BY DEF IsWalk
  <2> QED
    BY <2>1
<1>2. ASSUME NEW n \in There PROVE n + 1 \in There
  <2>1. PICK f : IsWalk(f, list, S, n)
    OBVIOUS
  <2> DEFINE g == [m \in 0..(n + 1) |-> IF m = n + 1 THEN Extend(f, m) ELSE f[m]]
  <2>2. \A m \in 0..(n + 1) : g[m] = Extend(g, m)
    <3> TAKE m \in 0..(n + 1)
    <3>1. CASE m = n + 1
      <4>1. g[m] = Extend(f, m) /\ g[m - 1] = f[m - 1]
        BY <3>1
      <4> QED
        BY <3>1, <4>1
    <3>2. CASE m # n + 1
      <4>1. m \in 0..n /\ g[m] = f[m]
        BY <3>2
      <4>2. f[m] = Extend(f, m)
        BY <2>1, <4>1 DEF IsWalk
      <4>3. m # 0 => g[m - 1] = f[m - 1]
        BY <4>1
      <4> QED
        BY <4>1, <4>2, <4>3
    <3> QED
      BY <3>1, <3>2
  <2>3. g = [m \in 0..(n + 1) |-> Extend(g, m)]
    <3> HIDE DEF Extend
    <3> QED
      BY <2>2
  <2>4. IsWalk(g, list, S, n + 1)
    <3> HIDE DEF g
    <3> QED
      BY <2>3 DEF IsWalk
  <2> QED
    BY <2>4
<1>3. There = Nat
  BY <1>1, <1>2, Counting
<1> QED
  BY <1>3

\* What Only computes, item by item.
LEMMA OnlyWalk ==
  ASSUME NEW T, NEW list \in Seq(T), NEW S
  PROVE  \E w : /\ w[0] = <<>> /\ Only(list, S) = w[Len(list)]
                /\ \A n \in 1..Len(list) :
                     w[n] = IF list[n] \in S THEN Append(w[n - 1], list[n]) ELSE w[n - 1]
<1> DEFINE w == CHOOSE f : IsWalk(f, list, S, Len(list))
<1>1. Len(list) \in Nat
  OBVIOUS
<1>2. IsWalk(w, list, S, Len(list))
  <2>1. \E f : IsWalk(f, list, S, Len(list))
    BY <1>1, WalkIsThere
  <2> QED
    BY <2>1
<1>3. Only(list, S) = w[Len(list)]
  BY DEF Only, IsWalk
<1> HIDE DEF w
<1>4. w[0] = <<>>
  BY <1>1, <1>2 DEF IsWalk
<1>5. ASSUME NEW n \in 1..Len(list)
      PROVE  w[n] = IF list[n] \in S THEN Append(w[n - 1], list[n]) ELSE w[n - 1]
  <2>1. n \in 0..Len(list) /\ n # 0
    BY <1>1
  <2> QED
    BY <1>2, <2>1 DEF IsWalk
<1> QED
  BY <1>3, <1>4, <1>5

\* Where the items of Only come from: an increasing choice of places.
Places(h, list, chosen) ==
  /\ h \in [1..Len(chosen) -> 1..Len(list)]
  /\ \A i \in 1..Len(chosen) : i <= h[i] /\ chosen[i] = list[h[i]]
  /\ \A i, j \in 1..Len(chosen) : i < j => h[i] < h[j]

\* Only keeps the items in the set and their order.
LEMMA OnlyPlaces ==
  ASSUME NEW T, NEW list \in Seq(T), NEW S
  PROVE  /\ Only(list, S) \in Seq(T)
         /\ ToSet(Only(list, S)) = ToSet(list) \intersect S
         /\ \E h : Places(h, list, Only(list, S))
<1>1. PICK w : /\ w[0] = <<>> /\ Only(list, S) = w[Len(list)]
               /\ \A n \in 1..Len(list) :
                    w[n] = IF list[n] \in S THEN Append(w[n - 1], list[n]) ELSE w[n - 1]
  BY OnlyWalk
<1> DEFINE Found(n) == \A k \in 1..n : list[k] \in S => \E i \in 1..Len(w[n]) : w[n][i] = list[k]
           Good(n, h) == /\ w[n] \in Seq(T) /\ Found(n)
                         /\ Places(h, list, w[n])
                         /\ \A i \in 1..Len(w[n]) : h[i] <= n /\ w[n][i] \in S
                         /\ Len(w[n]) <= n
           All == {n \in Nat : n <= Len(list) => \E h : Good(n, h)}
<1>2. Len(list) \in Nat /\ \A k \in 1..Len(list) : list[k] \in T
  OBVIOUS
<1>3. 0 \in All
  <2>1. Good(0, [i \in 1..0 |-> 0])
    BY <1>1 DEF Places
  <2> QED
    BY <2>1
<1>4. ASSUME NEW n \in All PROVE n + 1 \in All
  <2> SUFFICES ASSUME n + 1 <= Len(list) PROVE \E h : Good(n + 1, h)
    OBVIOUS
  <2>1. PICK h : Good(n, h)
    BY <1>2
  <2>2. n + 1 \in 1..Len(list) /\ (n + 1) - 1 = n
    BY <1>2
  <2>3. CASE list[n + 1] \notin S
    <3>1. w[n + 1] = w[n]
      BY <1>1, <2>2, <2>3
    <3>2. Found(n + 1)
      <4> TAKE k \in 1..(n + 1)
      <4>1. k = n + 1 \/ k \in 1..n
        BY <1>2
      <4> QED
        BY <2>1, <2>3, <3>1, <4>1
    <3>3. \A i \in 1..Len(w[n]) : h[i] <= n + 1 /\ w[n][i] \in S
      <4> TAKE i \in 1..Len(w[n])
      <4>1. h[i] <= n /\ h[i] \in 1..Len(list) /\ w[n][i] \in S
        BY <2>1 DEF Places
      <4> QED
        BY <1>2, <4>1
    <3>4. Good(n + 1, h)
      <4> HIDE DEF Found
      <4> QED
        BY <1>2, <2>1, <3>1, <3>2, <3>3
    <3> QED
      BY <3>4
  <2>4. CASE list[n + 1] \in S
    <3> DEFINE m == Len(w[n])
               g == [i \in 1..(m + 1) |-> IF i = m + 1 THEN n + 1 ELSE h[i]]
    <3>1. w[n + 1] = Append(w[n], list[n + 1])
      BY <1>1, <2>2, <2>4
    <3>2. m \in Nat /\ w[n] \in Seq(T) /\ list[n + 1] \in T
      BY <1>2, <2>1, <2>2
    <3>3. /\ w[n + 1] \in Seq(T) /\ Len(w[n + 1]) = m + 1
          /\ w[n + 1][m + 1] = list[n + 1] /\ \A i \in 1..m : w[n + 1][i] = w[n][i]
      BY <3>1, <3>2, AppendProperties
    <3>4. Found(n + 1)
      <4> SUFFICES ASSUME NEW k \in 1..(n + 1), list[k] \in S
                   PROVE  \E i \in 1..(m + 1) : w[n + 1][i] = list[k]
        BY <3>3
      <4>1. CASE k = n + 1
        BY <3>2, <3>3, <4>1
      <4>2. CASE k \in 1..n
        <5>1. PICK i \in 1..m : w[n][i] = list[k]
          BY <2>1, <4>2
        <5> QED
          BY <3>2, <3>3, <5>1
      <4> QED
        BY <4>1, <4>2
    <3>5. Places(g, list, w[n + 1])
      <4>1. g \in [1..(m + 1) -> 1..Len(list)]
        BY <2>1, <2>2, <3>2 DEF Places
      <4>2. \A i \in 1..(m + 1) : i <= g[i] /\ w[n + 1][i] = list[g[i]]
        BY <2>1, <3>2, <3>3 DEF Places
      <4>3. \A i, j \in 1..(m + 1) : i < j => g[i] < g[j]
        <5> TAKE i, j \in 1..(m + 1)
        <5>1. i \in 1..m => h[i] <= n /\ h[i] \in 1..Len(list)
          BY <2>1 DEF Places
        <5>2. i \in 1..m /\ j \in 1..m /\ i < j => h[i] < h[j]
          BY <2>1 DEF Places
        <5>3. (i \in 1..m /\ g[i] = h[i]) \/ (i = m + 1 /\ g[i] = n + 1)
          BY <3>2
        <5>4. (j \in 1..m /\ g[j] = h[j]) \/ (j = m + 1 /\ g[j] = n + 1)
          BY <3>2
        <5> HIDE DEF g
        <5> QED
          BY <3>2, <5>1, <5>2, <5>3, <5>4
      <4> QED
        BY <4>1, <4>2, <4>3, <3>3 DEF Places
    <3>6. \A i \in 1..Len(w[n + 1]) : g[i] <= n + 1 /\ w[n + 1][i] \in S
      <4> SUFFICES ASSUME NEW i \in 1..(m + 1)
                   PROVE  g[i] <= n + 1 /\ w[n + 1][i] \in S
        BY <3>3
      <4>1. CASE i = m + 1
        BY <2>4, <3>3, <4>1
      <4>2. CASE i \in 1..m
        <5>1. h[i] <= n /\ h[i] \in 1..Len(list) /\ w[n][i] \in S /\ g[i] = h[i]
          BY <2>1, <3>2, <4>2 DEF Places
        <5> QED
          BY <3>3, <4>2, <5>1
      <4> QED
        BY <4>1, <4>2, <3>2
    <3> HIDE DEF g
    <3>7. Good(n + 1, g)
      BY <2>1, <3>2, <3>3, <3>4, <3>5, <3>6
    <3> QED
      BY <3>7
  <2> QED
    BY <2>3, <2>4
<1>5. All = Nat
  <2> HIDE DEF Good
  <2> QED
    BY <1>3, <1>4, Counting
<1>6. PICK h : Good(Len(list), h)
  BY <1>2, <1>5
<1> DEFINE o == Only(list, S)
<1>7. o = w[Len(list)]
  BY <1>1
<1>8. ToSet(o) = ToSet(list) \intersect S
  <2>1. o \in Seq(T) /\ DOMAIN o = 1..Len(o) /\ DOMAIN list = 1..Len(list)
    BY <1>6, <1>7
  <2>2. ASSUME NEW i \in 1..Len(o) PROVE o[i] \in ToSet(list) /\ o[i] \in S
    <3>1. h[i] \in 1..Len(list) /\ o[i] = list[h[i]] /\ o[i] \in S
      BY <1>6, <1>7 DEF Places
    <3> QED
      BY <2>1, <3>1 DEF ToSet
  <2>3. ASSUME NEW k \in 1..Len(list), list[k] \in S PROVE list[k] \in ToSet(o)
    <3>1. PICK i \in 1..Len(o) : o[i] = list[k]
      BY <1>6, <1>7, <2>3
    <3> QED
      BY <2>1, <3>1 DEF ToSet
  <2> HIDE DEF o
  <2> QED
    BY <2>1, <2>2, <2>3 DEF ToSet
<1> QED
  BY <1>6, <1>7, <1>8

\* Only of a list without repetitions has none.
LEMMA OnlyInjective ==
  ASSUME NEW T, NEW list \in Seq(T), NEW S, IsInjective(list)
  PROVE  IsInjective(Only(list, S))
<1>1. PICK h : Places(h, list, Only(list, S))
  BY OnlyPlaces
<1>2. /\ Only(list, S) \in Seq(T) /\ DOMAIN list = 1..Len(list)
      /\ DOMAIN Only(list, S) = 1..Len(Only(list, S)) /\ Len(Only(list, S)) \in Nat
  BY OnlyPlaces
<1> DEFINE o == Only(list, S)
<1> SUFFICES ASSUME NEW i \in 1..Len(o), NEW j \in 1..Len(o), o[i] = o[j] PROVE i = j
  BY <1>2 DEF IsInjective
<1>3. o[i] = list[h[i]] /\ o[j] = list[h[j]] /\ h[i] \in 1..Len(list) /\ h[j] \in 1..Len(list)
  BY <1>1 DEF Places
<1>4. h[i] = h[j]
  BY <1>2, <1>3 DEF IsInjective
<1>5. (i < j => h[i] < h[j]) /\ (j < i => h[j] < h[i])
  BY <1>1 DEF Places
<1> QED
  BY <1>2, <1>3, <1>4, <1>5

(***************************************************************************)
(* The entries of the cache.                                               *)
(***************************************************************************)

\* What the entries cost are natural numbers.
LEMMA CostsWhole ==
  ASSUME NEW s \in [Keys -> Slots]
  PROVE  /\ Costs(s) \in [Keys -> Nat] /\ Whole(Costs(s), Keys)
         /\ \A k \in Keys : Costs(s)[k] = Cost(k, s[k])
<1>1. \A k \in Keys : Cost(k, s[k]) \in Nat
  BY KeysAssumption DEF Cost
<1> QED
  BY <1>1 DEF Costs, Whole

\* What an entry that becomes another costs.
LEMMA CostsChange ==
  ASSUME NEW s \in [Keys -> Slots], NEW k \in Keys, NEW e \in Slots
  PROVE  Total(Costs([s EXCEPT ![k] = e]), Keys) = Total(Costs(s), Keys) + Cost(k, e) - Cost(k, s[k])
<1> DEFINE t == [s EXCEPT ![k] = e]
<1>1. t \in [Keys -> Slots] /\ t[k] = e /\ \A x \in Keys \ {k} : t[x] = s[x]
  OBVIOUS
<1> HIDE DEF t
<1>2. /\ Whole(Costs(s), Keys) /\ Whole(Costs(t), Keys)
      /\ \A x \in Keys : Costs(s)[x] = Cost(x, s[x]) /\ Costs(t)[x] = Cost(x, t[x])
      /\ Costs(s) \in [Keys -> Nat] /\ Costs(t) \in [Keys -> Nat]
  BY <1>1, CostsWhole
<1>3. \A x \in Keys \ {k} : Costs(s)[x] = Costs(t)[x]
  BY <1>1, <1>2
<1>4. Total(Costs(t), Keys) = Total(Costs(s), Keys) - Costs(s)[k] + Costs(t)[k]
  BY <1>2, <1>3, FiniteAssumption, TotalChange
<1>5. Total(Costs(s), Keys) \in Int
  BY <1>2, FiniteAssumption, TotalInt
<1>6. /\ Costs(s)[k] = Cost(k, s[k]) /\ Costs(t)[k] = Cost(k, e)
      /\ Cost(k, s[k]) \in Nat /\ Cost(k, e) \in Nat
  BY <1>1, <1>2
<1> QED
  BY <1>4, <1>5, <1>6 DEF t

\* What Without leaves: an entry less.
LEMMA WithoutOne ==
  ASSUME NEW c \in CacheStates, NEW k \in Keys
  PROVE  LET d == Without[c][k]
         IN  /\ d \in CacheStates
             /\ d.slot = [c.slot EXCEPT ![k] = "absent"]
             /\ d.order = Only(c.order, Keys \ {k})
             /\ ToSet(d.order) = ToSet(c.order) \ {k}
             /\ d.bytes = c.bytes - Cost(k, c.slot[k])
             /\ d.held = c.held \ {k}
<1> DEFINE d == [slot |-> [c.slot EXCEPT ![k] = "absent"],
                 order |-> Only(c.order, Keys \ {k}),
                 bytes |-> c.bytes - Cost(k, c.slot[k]),
                 held |-> c.held \ {k}]
<1>1. /\ c.slot \in [Keys -> Slots] /\ c.order \in Seq(Keys) /\ c.bytes \in Int
      /\ c.held \subseteq Keys
  BY DEF CacheStates
<1>2. Without[c][k] = d
  BY DEF Without
<1>3. d.order \in Seq(Keys) /\ ToSet(d.order) = ToSet(c.order) \intersect (Keys \ {k})
  <2>1. \A S : \A list \in Seq(Keys) : Only(list, S) \in Seq(Keys) /\ ToSet(Only(list, S)) = ToSet(list) \intersect S
    BY OnlyPlaces
  <2>2. d.order = Only(c.order, Keys \ {k})
    OBVIOUS
  <2> HIDE DEF d
  <2> QED
    BY <1>1, <2>1, <2>2
<1>4. ToSet(c.order) \subseteq Keys
  BY <1>1 DEF ToSet
<1>5. d.slot \in [Keys -> Slots]
  BY <1>1 DEF Slots
<1>6. d.bytes \in Int
  <2>1. Costs(c.slot)[k] \in Nat /\ Costs(c.slot)[k] = Cost(k, c.slot[k])
    BY <1>1, CostsWhole
  <2> QED
    BY <1>1, <2>1
<1>7. d \in CacheStates
  <2>1. d.held \in SUBSET Keys
    BY <1>1
  <2> QED
    BY <1>3, <1>5, <1>6, <2>1 DEF CacheStates
<1>8. ToSet(d.order) = ToSet(c.order) \ {k}
  <2> HIDE DEF d
  <2> QED
    BY <1>3, <1>4
<1> QED
  BY <1>2, <1>7, <1>8

\* What is in the order and may go, and the eldest of it.
LEMMA EldestIsThere ==
  ASSUME NEW c \in CacheStates
  PROVE  LET old == Only(c.order, Evictable(c))
         IN  /\ old # <<>> => Head(old) \in Evictable(c) /\ Head(old) \in ToSet(c.order)
             /\ ToSet(c.order) = Present(c.slot) => (old = <<>>) = (Evictable(c) = {})
<1> DEFINE old == Only(c.order, Evictable(c))
<1>1. c.order \in Seq(Keys)
  BY DEF CacheStates
<1>2. Evictable(c) \subseteq Present(c.slot)
  BY DEF Evictable, Finished, Present
<1>3. old \in Seq(Keys) /\ ToSet(old) = ToSet(c.order) \intersect Evictable(c)
  <2> HIDE DEF old
  <2>1. \A S : \A list \in Seq(Keys) : Only(list, S) \in Seq(Keys) /\ ToSet(Only(list, S)) = ToSet(list) \intersect S
    BY OnlyPlaces
  <2> QED
    BY <1>1, <2>1 DEF old
<1>4. ASSUME old # <<>> PROVE Head(old) \in ToSet(old)
  <2> HIDE DEF old
  <2>1. Head(old) = old[1] /\ 1 \in DOMAIN old
    BY <1>3, <1>4
  <2> QED
    BY <2>1 DEF ToSet
<1>5. old = <<>> => ToSet(old) = {}
  <2> HIDE DEF old
  <2> QED
    BY DEF ToSet
<1> HIDE DEF old
<1> QED
  BY <1>2, <1>3, <1>4, <1>5 DEF old

\* The entry that goes first, and the cache without it.
Eldest(c) == Head(Only(c.order, Evictable(c)))
Younger(c) == Without[c][Eldest(c)]

\* The cache is over a limit and something may go.
MustEvict(c) == OverLimit(c) /\ Only(c.order, Evictable(c)) # <<>>

\* f evicts from every cache of D.
Evicts(f, D) == f = [c \in D |-> IF MustEvict(c) THEN f[Younger(c)] ELSE c]

\* How many entries a cache has, and the caches of at most n.
Entries(c) == Cardinality(Present(c.slot))
UpTo(n) == {c \in CacheStates : Entries(c) <= n}

\* There are no more entries than keys.
LEMMA EntriesCount ==
  ASSUME NEW c \in CacheStates
  PROVE  Entries(c) \in Nat /\ Entries(c) <= Cardinality(Keys)
<1>1. Present(c.slot) \in SUBSET Keys
  BY DEF Present
<1> QED
  BY <1>1, FiniteAssumption, FS_Subset, FS_CardinalityType DEF Entries

\* Evicting leaves one entry less.
LEMMA YoungerIsSmaller ==
  ASSUME NEW c \in CacheStates, MustEvict(c)
  PROVE  /\ Eldest(c) \in Evictable(c) /\ Eldest(c) \in Keys
         /\ Younger(c) \in CacheStates /\ Entries(Younger(c)) = Entries(c) - 1
<1>1. Eldest(c) \in Evictable(c) /\ Eldest(c) \in Present(c.slot) /\ Eldest(c) \in Keys
  <2>1. Eldest(c) \in Evictable(c)
    BY EldestIsThere DEF MustEvict, Eldest
  <2> QED
    BY <2>1 DEF Evictable, Finished, Present
<1>2. /\ Younger(c) \in CacheStates
      /\ Younger(c).slot = [c.slot EXCEPT ![Eldest(c)] = "absent"]
  BY <1>1, WithoutOne DEF Younger
<1>3. Present(Younger(c).slot) = Present(c.slot) \ {Eldest(c)}
  BY <1>2 DEF Present, CacheStates
<1>4. IsFiniteSet(Present(c.slot))
  BY FiniteAssumption, FS_Subset DEF Present
<1> QED
  BY <1>1, <1>2, <1>3, <1>4, FS_RemoveElement DEF Entries

\* Evicting comes to an end.
LEMMA EvictIsThere ==
  \E f : Evicts(f, CacheStates)
<1> DEFINE There == {n \in Nat : \E f : Evicts(f, UpTo(n))}
<1>0. \A n \in Nat : \A c \in UpTo(n + 1) : MustEvict(c) => Younger(c) \in UpTo(n)
  <2> SUFFICES ASSUME NEW n \in Nat, NEW c \in UpTo(n + 1), MustEvict(c)
               PROVE  Younger(c) \in UpTo(n)
    OBVIOUS
  <2>1. c \in CacheStates /\ Entries(c) <= n + 1 /\ Entries(c) \in Nat
    BY EntriesCount DEF UpTo
  <2>2. Younger(c) \in CacheStates /\ Entries(Younger(c)) = Entries(c) - 1
    BY <2>1, YoungerIsSmaller
  <2> QED
    BY <2>1, <2>2 DEF UpTo
<1>1. 0 \in There
  <2> DEFINE f == [c \in UpTo(0) |-> c]
  <2>1. \A c \in UpTo(0) : ~MustEvict(c)
    <3> SUFFICES ASSUME NEW c \in UpTo(0), MustEvict(c) PROVE FALSE
      OBVIOUS
    <3>1. c \in CacheStates /\ Entries(c) <= 0 /\ Entries(c) \in Nat
      BY EntriesCount DEF UpTo
    <3>2. Entries(Younger(c)) \in Nat /\ Entries(Younger(c)) = Entries(c) - 1
      BY <3>1, YoungerIsSmaller, EntriesCount
    <3> QED
      BY <3>1, <3>2
  <2>2. f = [c \in UpTo(0) |-> IF MustEvict(c) THEN f[Younger(c)] ELSE c]
    BY <2>1
  <2>3. Evicts(f, UpTo(0))
    <3> HIDE DEF f
    <3> QED
      BY <2>2 DEF Evicts
  <2> QED
    BY <2>3
<1>2. ASSUME NEW n \in There PROVE n + 1 \in There
  <2>1. PICK f : Evicts(f, UpTo(n))
    OBVIOUS
  <2> DEFINE Then(h, c) == IF MustEvict(c) THEN h[Younger(c)] ELSE c
             g == [c \in UpTo(n + 1) |-> IF c \in UpTo(n) THEN f[c] ELSE Then(f, c)]
  <2>2. \A c \in UpTo(n) : f[c] = Then(f, c)
    BY <2>1 DEF Evicts
  <2>3. UpTo(n) \subseteq UpTo(n + 1)
    BY EntriesCount DEF UpTo
  <2>4. \A c \in UpTo(n + 1) : g[c] = Then(f, c)
    BY <2>2
  <2>5. \A c \in UpTo(n) : g[c] = f[c]
    BY <2>3
  <2>6. \A c \in UpTo(n + 1) : g[c] = Then(g, c)
    <3> TAKE c \in UpTo(n + 1)
    <3>1. MustEvict(c) => g[Younger(c)] = f[Younger(c)]
      BY <1>0, <2>5
    <3>2. g[c] = Then(f, c)
      BY <2>4
    <3> HIDE DEF g
    <3> QED
      BY <3>1, <3>2
  <2>7. g = [c \in UpTo(n + 1) |-> Then(g, c)]
    <3> HIDE DEF Then
    <3> QED
      BY <2>6
  <2>8. Evicts(g, UpTo(n + 1))
    <3> HIDE DEF g
    <3> QED
      BY <2>7 DEF Evicts
  <2> QED
    BY <2>8
<1>3. There = Nat
  <2> HIDE DEF There
  <2>1. There \in SUBSET Nat
    BY DEF There
  <2> QED
    BY <1>1, <1>2, <2>1, Counting
<1>4. Cardinality(Keys) \in There /\ UpTo(Cardinality(Keys)) = CacheStates
  <2>1. Cardinality(Keys) \in Nat
    BY FiniteAssumption, FS_CardinalityType
  <2>2. UpTo(Cardinality(Keys)) = CacheStates
    BY EntriesCount DEF UpTo
  <2> QED
    BY <1>3, <2>1, <2>2
<1> QED
  BY <1>4

\* What Evict computes, entry by entry.
LEMMA EvictStep ==
  ASSUME NEW c \in CacheStates
  PROVE  Evict[c] = IF MustEvict(c) THEN Evict[Younger(c)] ELSE c
<1>1. Evict = CHOOSE f : Evicts(f, CacheStates)
  BY DEF Evict, Evicts, MustEvict, Younger, Eldest
<1>2. Evicts(Evict, CacheStates)
  BY <1>1, EvictIsThere
<1> QED
  BY <1>2 DEF Evicts

\* The cache as the call finds and leaves it: the order has no repetitions, the
\* bytes are counted, only images are held.
Balanced(c) ==
  /\ c \in CacheStates /\ IsInjective(c.order) /\ ToSet(c.order) = Present(c.slot)
  /\ c.bytes = Total(Costs(c.slot), Keys)
  /\ c.held \subseteq {k \in Keys : c.slot[k] = "image"}

\* Dropping an entry keeps the books.
LEMMA WithoutBalanced ==
  ASSUME NEW c, Balanced(c), NEW k \in Keys
  PROVE  Balanced(Without[c][k])
<1> DEFINE d == Without[c][k]
<1>1. /\ c \in CacheStates /\ c.slot \in [Keys -> Slots] /\ c.order \in Seq(Keys)
      /\ ToSet(c.order) = Present(c.slot)
  BY DEF Balanced, CacheStates
<1>2. /\ d \in CacheStates
      /\ d.slot = [c.slot EXCEPT ![k] = "absent"]
      /\ ToSet(d.order) = ToSet(c.order) \ {k}
      /\ d.order = Only(c.order, Keys \ {k})
      /\ d.bytes = c.bytes - Cost(k, c.slot[k])
      /\ d.held = c.held \ {k}
  BY <1>1, WithoutOne
<1> HIDE DEF d
<1>3. IsInjective(d.order)
  BY <1>1, <1>2, OnlyInjective DEF Balanced
<1>4. d.slot \in [Keys -> Slots]
  BY <1>2 DEF CacheStates
<1>5. d.bytes = Total(Costs(d.slot), Keys)
  <2>1. "absent" \in Slots /\ Cost(k, "absent") = 0
    BY DEF Slots, Cost
  <2>2. Total(Costs(d.slot), Keys) = Total(Costs(c.slot), Keys) + Cost(k, "absent") - Cost(k, c.slot[k])
    BY <1>1, <1>2, <2>1, CostsChange
  <2>3. Total(Costs(c.slot), Keys) \in Int /\ Cost(k, c.slot[k]) \in Nat
    <3>1. /\ Whole(Costs(c.slot), Keys) /\ Costs(c.slot) \in [Keys -> Nat]
          /\ Costs(c.slot)[k] = Cost(k, c.slot[k])
      BY <1>1, CostsWhole
    <3> QED
      BY <3>1, FiniteAssumption, TotalInt
  <2> QED
    BY <1>2, <2>1, <2>2, <2>3 DEF Balanced
<1>6. d.held \subseteq {x \in Keys : d.slot[x] = "image"}
  BY <1>1, <1>2 DEF Balanced
<1>7. ToSet(d.order) = Present(d.slot)
  BY <1>1, <1>2 DEF Present
<1> QED
  BY <1>2, <1>3, <1>5, <1>6, <1>7 DEF Balanced, d

\* What evicting does: some of what may go has gone, and the cache is inside
\* its limits or has nothing left that may go.
EvictedFrom(c, d) ==
  /\ Balanced(d)
  /\ \A k \in Keys : d.slot[k] = c.slot[k] \/ (k \in Evictable(c) /\ d.slot[k] = "absent")
  /\ d.held = c.held
  /\ ~OverLimit(d) \/ Evictable(d) = {}

\* Evict does, whatever it is given.
LEMMA EvictLeaves ==
  ASSUME NEW c, Balanced(c)
  PROVE  EvictedFrom(c, Evict[c])
<1> DEFINE Leaves == {n \in Nat : \A b \in UpTo(n) : Balanced(b) => EvictedFrom(b, Evict[b])}
<1>0. ASSUME NEW b \in CacheStates, Balanced(b), ~MustEvict(b)
      PROVE  EvictedFrom(b, Evict[b])
  <2>1. Evict[b] = b
    BY <1>0, EvictStep
  <2>2. ~OverLimit(b) \/ Evictable(b) = {}
    BY <1>0, EldestIsThere DEF MustEvict, Balanced
  <2> QED
    BY <1>0, <2>1, <2>2 DEF EvictedFrom
<1>1. 0 \in Leaves
  <2> SUFFICES ASSUME NEW b \in UpTo(0), Balanced(b) PROVE EvictedFrom(b, Evict[b])
    OBVIOUS
  <2>1. b \in CacheStates /\ Entries(b) <= 0 /\ Entries(b) \in Nat
    BY EntriesCount DEF UpTo
  <2>2. ~MustEvict(b)
    <3> SUFFICES ASSUME MustEvict(b) PROVE FALSE
      OBVIOUS
    <3>1. Entries(Younger(b)) \in Nat /\ Entries(Younger(b)) = Entries(b) - 1
      BY <2>1, YoungerIsSmaller, EntriesCount
    <3> QED
      BY <2>1, <3>1
  <2> QED
    BY <1>0, <2>1, <2>2
<1>2. ASSUME NEW n \in Leaves PROVE n + 1 \in Leaves
  <2> SUFFICES ASSUME NEW b \in UpTo(n + 1), Balanced(b), MustEvict(b)
               PROVE  EvictedFrom(b, Evict[b])
    BY <1>0 DEF UpTo
  <2>1. b \in CacheStates /\ Entries(b) <= n + 1 /\ Entries(b) \in Nat
    BY EntriesCount DEF UpTo
  <2> DEFINE y == Younger(b)
             k == Eldest(b)
  <2>2. k \in Evictable(b) /\ k \in Keys /\ y \in CacheStates /\ Entries(y) = Entries(b) - 1
    BY <2>1, YoungerIsSmaller
  <2>3. y \in UpTo(n) /\ Balanced(y)
    <3>1. Balanced(y)
      BY <2>2, WithoutBalanced DEF Younger
    <3> QED
      BY <2>1, <2>2, <3>1 DEF UpTo
  <2>4. EvictedFrom(y, Evict[y])
    BY <2>3
  <2>5. Evict[b] = Evict[y]
    BY <2>1, EvictStep
  <2>6. /\ y.slot = [x \in Keys |-> IF x = k THEN "absent" ELSE b.slot[x]]
        /\ y.held = b.held \ {k}
    <3>1. b.slot \in [Keys -> Slots]
      BY <2>1 DEF CacheStates
    <3>2. y.slot = [b.slot EXCEPT ![k] = "absent"] /\ y.held = b.held \ {k}
      BY <2>1, <2>2, WithoutOne DEF Younger
    <3> HIDE DEF y, k
    <3> QED
      BY <3>1, <3>2
  <2>7. k \notin b.held
    BY <2>2 DEF Evictable, Balanced
  <2>8. Evictable(y) \subseteq Evictable(b) /\ k \notin Evictable(y)
    BY <2>1, <2>2, <2>6 DEF Evictable, Finished
  <2> HIDE DEF y, k
  <2>9. /\ Balanced(Evict[b])
        /\ ~OverLimit(Evict[b]) \/ Evictable(Evict[b]) = {}
    BY <2>4, <2>5 DEF EvictedFrom
  <2>10. Evict[b].held = b.held
    <3>1. b.held \ {k} = b.held
      BY <2>7
    <3>2. Evict[b].held = y.held
      BY <2>4, <2>5 DEF EvictedFrom
    <3> QED
      BY <2>6, <3>1, <3>2
  <2>11. ASSUME NEW x \in Keys
         PROVE  Evict[b].slot[x] = b.slot[x] \/ (x \in Evictable(b) /\ Evict[b].slot[x] = "absent")
    <3>1. Evict[b].slot[x] = y.slot[x] \/ (x \in Evictable(y) /\ Evict[b].slot[x] = "absent")
      BY <2>4, <2>5 DEF EvictedFrom
    <3>2. CASE x = k
      BY <2>2, <2>6, <2>8, <3>1, <3>2
    <3>3. CASE x # k
      BY <2>6, <2>8, <3>1, <3>3
    <3> QED
      BY <3>2, <3>3
  <2> QED
    BY <2>9, <2>10, <2>11 DEF EvictedFrom
<1>3. Leaves = Nat
  <2> HIDE DEF Leaves
  <2>1. Leaves \in SUBSET Nat
    BY DEF Leaves
  <2> QED
    BY <1>1, <1>2, <2>1, Counting
<1>4. c \in CacheStates /\ Entries(c) \in Nat
  BY EntriesCount DEF Balanced
<1>5. c \in UpTo(Entries(c)) /\ Entries(c) \in Leaves
  BY <1>3, <1>4 DEF UpTo
<1> QED
  BY <1>5

(***************************************************************************)
(* Filing, and collecting what the workers have finished.                  *)
(***************************************************************************)

\* f files the arrivals q at the places of each set of D, the last one last.
Files(f, c, q, D) ==
  f = [s \in D |-> IF s = {} THEN c ELSE FileDecoded[f[s \ {Max(s)}]][q[Max(s)]]]

\* Any number of arrivals can be filed.
LEMMA FilesAreThere ==
  ASSUME NEW c, NEW q
  PROVE  \A n \in Nat : \E f : Files(f, c, q, SUBSET (1..n))
<1> DEFINE There == {n \in Nat : \E f : Files(f, c, q, SUBSET (1..n))}
<1>1. 0 \in There
  <2> DEFINE f == [s \in SUBSET (1..0) |-> c]
  <2>1. \A s \in SUBSET (1..0) : s = {}
    OBVIOUS
  <2>2. f = [s \in SUBSET (1..0) |-> IF s = {} THEN c ELSE FileDecoded[f[s \ {Max(s)}]][q[Max(s)]]]
    BY <2>1
  <2>3. Files(f, c, q, SUBSET (1..0))
    <3> HIDE DEF f
    <3> QED
      BY <2>2 DEF Files
  <2> QED
    BY <2>3
<1>2. ASSUME NEW n \in There PROVE n + 1 \in There
  <2>1. PICK f : Files(f, c, q, SUBSET (1..n))
    OBVIOUS
  <2> DEFINE Then(h, s) == IF s = {} THEN c ELSE FileDecoded[h[s \ {Max(s)}]][q[Max(s)]]
             g == [s \in SUBSET (1..(n + 1)) |-> IF n + 1 \in s THEN Then(f, s) ELSE f[s]]
  <2>2. \A s \in SUBSET (1..n) : f[s] = Then(f, s)
    BY <2>1 DEF Files
  <2>3. \A s \in SUBSET (1..(n + 1)) : n + 1 \notin s => s \in SUBSET (1..n)
    <3> SUFFICES ASSUME NEW s \in SUBSET (1..(n + 1)), n + 1 \notin s, NEW i \in s
                 PROVE  i \in 1..n
      OBVIOUS
    <3> QED
      OBVIOUS
  <2>4. \A s \in SUBSET (1..(n + 1)) : n + 1 \in s => Max(s) = n + 1
    <3> SUFFICES ASSUME NEW s \in SUBSET (1..(n + 1)), n + 1 \in s PROVE Max(s) = n + 1
      OBVIOUS
    <3>1. \A y \in s : n + 1 >= y
      OBVIOUS
    <3>2. \A x \in s : (\A y \in s : x >= y) => x = n + 1
      OBVIOUS
    <3> QED
      BY <3>1, <3>2 DEF Max
  <2>5. \A s \in SUBSET (1..(n + 1)) : g[s] = Then(f, s)
    BY <2>2, <2>3
  <2>6. \A s \in SUBSET (1..n) : g[s] = f[s]
    <3> SUFFICES ASSUME NEW s \in SUBSET (1..n) PROVE g[s] = f[s]
      OBVIOUS
    <3>1. n + 1 \notin s /\ s \in SUBSET (1..(n + 1))
      OBVIOUS
    <3> QED
      BY <3>1
  <2>7. \A s \in SUBSET (1..(n + 1)) : g[s] = Then(g, s)
    <3> TAKE s \in SUBSET (1..(n + 1))
    <3>1. g[s \ {Max(s)}] = f[s \ {Max(s)}]
      <4>1. CASE n + 1 \in s
        <5>1. s \ {Max(s)} \in SUBSET (1..n)
          BY <2>3, <2>4, <4>1
        <5> QED
          BY <2>6, <5>1
      <4>2. CASE n + 1 \notin s
        <5>1. s \ {Max(s)} \in SUBSET (1..n)
          BY <2>3, <4>2
        <5> QED
          BY <2>6, <5>1
      <4> QED
        BY <4>1, <4>2
    <3>2. g[s] = Then(f, s)
      BY <2>5
    <3> HIDE DEF g
    <3> QED
      BY <3>1, <3>2
  <2>8. g = [s \in SUBSET (1..(n + 1)) |-> Then(g, s)]
    <3> HIDE DEF Then
    <3> QED
      BY <2>7
  <2>9. Files(g, c, q, SUBSET (1..(n + 1)))
    <3> HIDE DEF g
    <3> QED
      BY <2>8 DEF Files
  <2> QED
    BY <2>9
<1>3. There = Nat
  <2> HIDE DEF There
  <2>1. There \in SUBSET Nat
    BY DEF There
  <2> QED
    BY <1>1, <1>2, <2>1, Counting
<1> QED
  BY <1>3

\* Collect files one arrival after the other.
LEMMA CollectWalk ==
  ASSUME NEW c, results \in Seq(Keys)
  PROVE  \E w : /\ w[0] = c /\ Collect(c) = w[Len(results)]
                /\ \A n \in 1..Len(results) : w[n] = FileDecoded[w[n - 1]][results[n]]
<1> DEFINE f == CHOOSE f : Files(f, c, results, SUBSET (DOMAIN results))
           w == [n \in 0..Len(results) |-> f[1..n]]
<1>1. Len(results) \in Nat /\ DOMAIN results = 1..Len(results)
  OBVIOUS
<1>2. Files(f, c, results, SUBSET (1..Len(results)))
  BY <1>1, FilesAreThere
<1>3. Collect(c) = f[DOMAIN results]
  BY DEF Collect, FoldLeft, MapThenFoldSet, Files
<1> HIDE DEF f
<1>4. f[{}] = c
  BY <1>2 DEF Files
<1>5. w[0] = c
  <2>1. 1..0 = {}
    OBVIOUS
  <2> QED
    BY <1>1, <1>4, <2>1
<1>6. Collect(c) = w[Len(results)]
  BY <1>1, <1>3
<1>7. ASSUME NEW n \in 1..Len(results) PROVE w[n] = FileDecoded[w[n - 1]][results[n]]
  <2>0. n \in Nat /\ n >= 1 /\ n <= Len(results) /\ Len(results) \in Nat
    BY <1>1
  <2>1. 1..n # {} /\ (1..n) \ {n} = 1..(n - 1) /\ 1..n \in SUBSET (1..Len(results))
    <3>1. n \in 1..n
      BY <2>0
    <3>2. \A i \in 1..n : i # n <=> i \in 1..(n - 1)
      BY <2>0
    <3>3. \A i \in 1..(n - 1) : i \in 1..n
      BY <2>0
    <3>4. \A i \in 1..n : i \in 1..Len(results)
      BY <2>0
    <3> QED
      BY <3>1, <3>2, <3>3, <3>4, Zenon
  <2>2. Max(1..n) = n
    <3>1. \A x \in 1..n : (\A y \in 1..n : x >= y) => x = n
      OBVIOUS
    <3>2. n \in 1..n /\ \A y \in 1..n : n >= y
      OBVIOUS
    <3> QED
      BY <3>1, <3>2 DEF Max
  <2>3. f[1..n] = FileDecoded[f[(1..n) \ {Max(1..n)}]][results[Max(1..n)]]
    BY <1>2, <2>1 DEF Files
  <2>4. f[1..n] = FileDecoded[f[1..(n - 1)]][results[n]]
    BY <2>1, <2>2, <2>3
  <2>5. n \in 0..Len(results) /\ n - 1 \in 0..Len(results)
    BY <1>1
  <2> QED
    BY <2>4, <2>5
<1> HIDE DEF w
<1> QED
  BY <1>5, <1>6, <1>7

\* One item more, at the end of a list.
LEMMA AppendSet ==
  ASSUME NEW T, NEW list \in Seq(T), NEW x \in T
  PROVE  /\ Append(list, x) \in Seq(T) /\ ToSet(Append(list, x)) = ToSet(list) \cup {x}
         /\ IsInjective(list) /\ x \notin ToSet(list) => IsInjective(Append(list, x))
<1> DEFINE n == Len(list)
           more == Append(list, x)
<1>1. /\ n \in Nat /\ DOMAIN list = 1..n /\ more \in Seq(T) /\ DOMAIN more = 1..(n + 1)
      /\ more[n + 1] = x /\ \A i \in 1..n : more[i] = list[i]
  BY AppendProperties
<1> HIDE DEF more, n
<1>2. \A i \in 1..(n + 1) : i = n + 1 \/ i \in 1..n
  BY <1>1
<1>3. 1..n \subseteq 1..(n + 1) /\ n + 1 \in 1..(n + 1)
  BY <1>1
<1>4. ToSet(more) = ToSet(list) \cup {x}
  <2>1. ToSet(more) \subseteq ToSet(list) \cup {x}
    BY <1>1, <1>2 DEF ToSet
  <2>2. ToSet(list) \cup {x} \subseteq ToSet(more)
    BY <1>1, <1>3 DEF ToSet
  <2> QED
    BY <2>1, <2>2
<1>5. ASSUME IsInjective(list), x \notin ToSet(list) PROVE IsInjective(more)
  <2> SUFFICES ASSUME NEW i \in 1..(n + 1), NEW j \in 1..(n + 1), more[i] = more[j] PROVE i = j
    BY <1>1 DEF IsInjective
  <2>1. \A m \in 1..n : list[m] # x
    BY <1>1, <1>5 DEF ToSet
  <2> QED
    BY <1>1, <1>2, <1>5, <2>1 DEF IsInjective
<1> QED
  BY <1>1, <1>4, <1>5 DEF more

\* The last used last.
LEMMA TouchedOrder ==
  ASSUME NEW list \in Seq(Keys), IsInjective(list), NEW k \in Keys
  PROVE  LET o == Append(Only(list, Keys \ {k}), k)
         IN  o \in Seq(Keys) /\ IsInjective(o) /\ ToSet(o) = ToSet(list) \cup {k}
<1> DEFINE rest == Only(list, Keys \ {k})
<1>1. /\ rest \in Seq(Keys) /\ IsInjective(rest)
      /\ ToSet(rest) = ToSet(list) \intersect (Keys \ {k})
  BY OnlyPlaces, OnlyInjective
<1>2. ToSet(list) \subseteq Keys
  BY DEF ToSet
<1> HIDE DEF rest
<1>3. k \notin ToSet(rest)
  BY <1>1
<1>4. /\ Append(rest, k) \in Seq(Keys) /\ ToSet(Append(rest, k)) = ToSet(rest) \cup {k}
      /\ IsInjective(Append(rest, k))
  BY <1>1, <1>3, AppendSet
<1>5. ToSet(rest) \cup {k} = ToSet(list) \cup {k}
  BY <1>1, <1>2
<1> QED
  BY <1>4, <1>5 DEF rest

\* What File gives Evict.
Filed(c, k, s) ==
  [slot |-> [c.slot EXCEPT ![k] = s],
   order |-> Append(Only(c.order, Keys \ {k}), k),
   bytes |-> c.bytes + Cost(k, s) - Cost(k, c.slot[k]),
   held |-> c.held \ {k}]

\* An entry that becomes another keeps the books.
LEMMA FiledBalanced ==
  ASSUME NEW c, Balanced(c), NEW k \in Keys, NEW s \in {"decoding", "image", "failed"}
  PROVE  Balanced(Filed(c, k, s))
<1> DEFINE d == Filed(c, k, s)
<1>1. /\ c \in CacheStates /\ c.slot \in [Keys -> Slots] /\ c.order \in Seq(Keys)
      /\ c.bytes \in Int /\ c.held \subseteq Keys /\ IsInjective(c.order)
      /\ ToSet(c.order) = Present(c.slot) /\ c.bytes = Total(Costs(c.slot), Keys)
      /\ c.held \subseteq {x \in Keys : c.slot[x] = "image"}
  BY DEF Balanced, CacheStates
<1>2. /\ d.slot = [c.slot EXCEPT ![k] = s] /\ d.order = Append(Only(c.order, Keys \ {k}), k)
      /\ d.bytes = c.bytes + Cost(k, s) - Cost(k, c.slot[k]) /\ d.held = c.held \ {k}
      /\ d = [slot |-> d.slot, order |-> d.order, bytes |-> d.bytes, held |-> d.held]
  BY DEF Filed
<1> HIDE DEF d
<1>3. s \in Slots
  BY DEF Slots
<1>4. d.order \in Seq(Keys) /\ IsInjective(d.order) /\ ToSet(d.order) = ToSet(c.order) \cup {k}
  <2>1. \A list \in Seq(Keys) : IsInjective(list) =>
            LET o == Append(Only(list, Keys \ {k}), k)
            IN  o \in Seq(Keys) /\ IsInjective(o) /\ ToSet(o) = ToSet(list) \cup {k}
    BY TouchedOrder
  <2> QED
    BY <1>1, <1>2, <2>1
<1>5. d.slot \in [Keys -> Slots]
  BY <1>1, <1>2, <1>3
<1>6. ToSet(d.order) = Present(d.slot)
  BY <1>1, <1>2, <1>4 DEF Present
<1>7. d.bytes = Total(Costs(d.slot), Keys)
  BY <1>1, <1>2, <1>3, CostsChange
<1>8. d.held \subseteq {x \in Keys : d.slot[x] = "image"}
  BY <1>1, <1>2
<1>9. d.bytes \in Int
  BY <1>5, <1>7, CostsWhole, TotalInt, FiniteAssumption
<1>10. d \in CacheStates
  BY <1>2, <1>4, <1>5, <1>8, <1>9 DEF CacheStates
<1> QED
  BY <1>4, <1>6, <1>7, <1>8, <1>10 DEF Balanced, d

\* What filing does: c becomes d, with the entry of k as s.
Filing(c, k, s, d) ==
  /\ Balanced(d) /\ d.held = c.held \ {k}
  /\ d.slot[k] \in {s, "absent"}
  /\ s = "decoding" => d.slot[k] = "decoding"
  /\ \A x \in Keys \ {k} : \/ d.slot[x] = c.slot[x]
                           \/ d.slot[x] = "absent" /\ c.slot[x] # "decoding" /\ x \notin c.held
  /\ ~OverLimit(d) \/ Evictable(d) = {}

\* File does.
LEMMA FileOne ==
  ASSUME NEW c, Balanced(c), NEW k \in Keys, NEW s \in {"decoding", "image", "failed"}
  PROVE  Filing(c, k, s, File(c, k, s))
<1> DEFINE e == Filed(c, k, s)
           d == File(c, k, s)
<1>1. d = Evict[e]
  BY DEF File, Filed, Touch
<1>2. EvictedFrom(e, d)
  BY <1>1, FiledBalanced, EvictLeaves
<1>3. e.slot = [c.slot EXCEPT ![k] = s] /\ e.held = c.held \ {k}
  BY DEF Filed
<1>4. c.slot \in [Keys -> Slots]
  BY DEF Balanced, CacheStates
<1> HIDE DEF d, e
<1>5. c.held \subseteq {x \in Keys : c.slot[x] = "image"}
  BY DEF Balanced
<1>6. d.slot[k] = s \/ (s \in {"image", "failed"} /\ d.slot[k] = "absent")
  BY <1>2, <1>3, <1>4 DEF EvictedFrom, Evictable, Finished
<1>7. ASSUME NEW x \in Keys \ {k}
      PROVE  \/ d.slot[x] = c.slot[x]
             \/ d.slot[x] = "absent" /\ c.slot[x] # "decoding" /\ x \notin c.held
  <2>1. e.slot[x] = c.slot[x]
    BY <1>3, <1>4
  <2>2. d.slot[x] = e.slot[x] \/ (x \in Evictable(e) /\ d.slot[x] = "absent")
    BY <1>2 DEF EvictedFrom
  <2>3. x \in Evictable(e) => e.slot[x] # "decoding" /\ (e.slot[x] = "image" => x \notin e.held)
    BY DEF Evictable, Finished
  <2> QED
    BY <1>3, <1>5, <2>1, <2>2, <2>3
<1>8. Balanced(d) /\ d.held = c.held \ {k} /\ (~OverLimit(d) \/ Evictable(d) = {})
  BY <1>2, <1>3 DEF EvictedFrom
<1> QED
  BY <1>6, <1>7, <1>8 DEF Filing, d

\* What collecting leaves: every arrival is filed, whatever it was; nothing else
\* changes but by going, and what is held does not go.
Collected(c, d) ==
  /\ Balanced(d) /\ d.held \subseteq c.held
  /\ \A k \in Keys : d.slot[k] = "decoding" => c.slot[k] = "decoding" /\ k \notin ToSet(results)
  /\ \A k \in c.held : k \notin ToSet(results) => k \in d.held
  /\ results # <<>> => ~OverLimit(d) \/ Evictable(d) = {}
  /\ results = <<>> => d = c

\* Collect does.
LEMMA CollectLeaves ==
  ASSUME NEW c, Balanced(c), results \in Seq(Keys)
  PROVE  Collected(c, Collect(c))
<1>1. PICK w : /\ w[0] = c /\ Collect(c) = w[Len(results)]
               /\ \A n \in 1..Len(results) : w[n] = FileDecoded[w[n - 1]][results[n]]
  BY CollectWalk
<1>2. Len(results) \in Nat /\ DOMAIN results = 1..Len(results)
  OBVIOUS
<1> DEFINE Arrived(n) == {results[i] : i \in 1..n}
           Good(n) == /\ Balanced(w[n]) /\ w[n].held \subseteq c.held
                      /\ \A k \in Keys : w[n].slot[k] = "decoding" =>
                                           c.slot[k] = "decoding" /\ k \notin Arrived(n)
                      /\ \A k \in c.held : k \notin Arrived(n) => k \in w[n].held
                      /\ n > 0 => ~OverLimit(w[n]) \/ Evictable(w[n]) = {}
           All == {n \in Nat : n <= Len(results) => Good(n)}
<1>3. 0 \in All
  <2>1. Arrived(0) = {}
    OBVIOUS
  <2> HIDE DEF Arrived
  <2> QED
    BY <1>1, <2>1
<1>4. ASSUME NEW n \in All PROVE n + 1 \in All
  <2> SUFFICES ASSUME n + 1 <= Len(results) PROVE Good(n + 1)
    OBVIOUS
  <2> DEFINE k == results[n + 1]
             s == Decoded(k)
             b == w[n]
             d == w[n + 1]
  <2>1. n + 1 \in 1..Len(results) /\ (n + 1) - 1 = n /\ Good(n) /\ k \in Keys
    BY <1>2
  <2>2. s \in {"image", "failed"}
    BY DEF Decoded
  <2>3. b \in CacheStates
    BY <2>1 DEF Balanced
  <2>4. d = File(b, k, s)
    <3>1. d = FileDecoded[b][k]
      BY <1>1, <2>1
    <3> HIDE DEF b, d, k, s
    <3>2. FileDecoded[b][k] = File(b, k, Decoded(k))
      BY <2>1, <2>3 DEF FileDecoded
    <3> QED
      BY <3>1, <3>2 DEF s
  <2>5. Filing(b, k, s, d)
    <3>1. Balanced(b)
      BY <2>1
    <3> HIDE DEF b, d, k, s
    <3> QED
      BY <2>1, <2>2, <2>4, <3>1, FileOne
  <2>6. Arrived(n + 1) = Arrived(n) \cup {k}
    <3>1. \A i : i \in 1..(n + 1) <=> i \in 1..n \/ i = n + 1
      OBVIOUS
    <3> QED
      BY <3>1
  <2>7. b.held \subseteq c.held /\ Balanced(b)
    BY <2>1
  <2>8. \A x \in Keys : b.slot[x] = "decoding" => c.slot[x] = "decoding" /\ x \notin Arrived(n)
    BY <2>1
  <2>9. \A x \in c.held : x \notin Arrived(n) => x \in b.held
    BY <2>1
  <2> HIDE DEF b, d, k, s, Arrived
  <2>10. d.held \subseteq c.held /\ Balanced(d) /\ (~OverLimit(d) \/ Evictable(d) = {})
    BY <2>5, <2>7 DEF Filing
  <2>11. ASSUME NEW x \in Keys, d.slot[x] = "decoding"
         PROVE  c.slot[x] = "decoding" /\ x \notin Arrived(n + 1)
    <3>1. x # k
      BY <2>2, <2>5, <2>11 DEF Filing
    <3>2. b.slot[x] = "decoding"
      BY <2>5, <2>11, <3>1 DEF Filing
    <3> QED
      BY <2>6, <2>8, <3>1, <3>2
  <2>12. ASSUME NEW x \in c.held, x \notin Arrived(n + 1) PROVE x \in d.held
    <3>1. d.held = b.held \ {k}
      BY <2>5 DEF Filing
    <3> QED
      BY <2>6, <2>9, <2>12, <3>1
  <2> QED
    BY <2>10, <2>11, <2>12 DEF d
<1>5. All = Nat
  <2> HIDE DEF All
  <2>1. All \in SUBSET Nat
    BY DEF All
  <2> QED
    BY <1>3, <1>4, <2>1, Counting
<1>6. Good(Len(results))
  BY <1>2, <1>5
<1>7. Arrived(Len(results)) = ToSet(results)
  BY <1>2 DEF ToSet
<1>8. results = <<>> => Collect(c) = c
  BY <1>1
<1>9. results # <<>> => Len(results) > 0
  BY <1>2
<1> HIDE DEF Arrived
<1> QED
  BY <1>1, <1>2, <1>6, <1>7, <1>8, <1>9 DEF Collected

(***************************************************************************)
(* What is in flight.                                                      *)
(***************************************************************************)

\* How often k is among the first n items.
UpToN(s, n, k) == Cardinality({i \in 1..n : s[i] = k})
\* How often k is among all of them.
Occurs(s, k) == Cardinality({i \in DOMAIN s : s[i] = k})
\* Whether x counts for k.
One(k, x) == IF x = k THEN 1 ELSE 0

\* A count goes up by one where the item is.
LEMMA UpToStep ==
  ASSUME NEW s, NEW k
  PROVE  /\ UpToN(s, 0, k) = 0
         /\ \A n \in Nat : /\ UpToN(s, n, k) \in Nat
                           /\ UpToN(s, n + 1, k) = UpToN(s, n, k) + One(k, s[n + 1])
<1> DEFINE At(n) == {i \in 1..n : s[i] = k}
<1>1. UpToN(s, 0, k) = 0
  <2>1. At(0) = {}
    OBVIOUS
  <2> QED
    BY <2>1, FS_EmptySet DEF UpToN
<1>2. ASSUME NEW n \in Nat
      PROVE  /\ UpToN(s, n, k) \in Nat
             /\ UpToN(s, n + 1, k) = UpToN(s, n, k) + One(k, s[n + 1])
  <2>1. IsFiniteSet(1..n) /\ At(n) \subseteq 1..n
    BY FS_Interval
  <2>2. IsFiniteSet(At(n)) /\ Cardinality(At(n)) \in Nat
    BY <2>1, FS_Subset, FS_CardinalityType
  <2>3. CASE s[n + 1] = k
    <3>1. At(n + 1) = At(n) \cup {n + 1} /\ n + 1 \notin At(n)
      BY <2>3
    <3>2. Cardinality(At(n + 1)) = Cardinality(At(n)) + 1
      <4> HIDE DEF At
      <4> QED
        BY <2>2, <3>1, FS_AddElement
    <3> QED
      BY <2>2, <2>3, <3>2 DEF UpToN, One
  <2>4. CASE s[n + 1] # k
    <3>1. At(n + 1) = At(n)
      BY <2>4
    <3>2. Cardinality(At(n + 1)) = Cardinality(At(n))
      BY <3>1
    <3> QED
      BY <2>2, <2>4, <3>2 DEF UpToN, One
  <2> QED
    BY <2>3, <2>4
<1> QED
  BY <1>1, <1>2

\* The count of a whole list.
LEMMA OccursUpTo ==
  ASSUME NEW T, NEW s \in Seq(T), NEW k
  PROVE  /\ Occurs(s, k) = UpToN(s, Len(s), k) /\ Occurs(s, k) \in Nat
         /\ k \in ToSet(s) <=> Occurs(s, k) # 0
<1>1. Len(s) \in Nat /\ DOMAIN s = 1..Len(s)
  OBVIOUS
<1>2. Occurs(s, k) = UpToN(s, Len(s), k)
  BY <1>1 DEF Occurs, UpToN
<1>3. Occurs(s, k) \in Nat
  BY <1>1, <1>2, UpToStep
<1>4. IsFiniteSet({i \in DOMAIN s : s[i] = k})
  <2>1. IsFiniteSet(1..Len(s)) /\ {i \in DOMAIN s : s[i] = k} \subseteq 1..Len(s)
    BY <1>1, FS_Interval
  <2> QED
    BY <2>1, FS_Subset
<1>5. k \in ToSet(s) <=> {i \in DOMAIN s : s[i] = k} # {}
  BY DEF ToSet
<1>6. Occurs(s, k) = 0 <=> {i \in DOMAIN s : s[i] = k} = {}
  BY <1>4, FS_EmptySet DEF Occurs
<1> QED
  BY <1>2, <1>3, <1>5, <1>6

\* Counts that agree on what they count agree.
LEMMA UpToSame ==
  ASSUME NEW s, NEW t, NEW k, NEW n \in Nat, \A i \in 1..n : s[i] = t[i]
  PROVE  UpToN(s, n, k) = UpToN(t, n, k)
<1>1. {i \in 1..n : s[i] = k} = {i \in 1..n : t[i] = k}
  OBVIOUS
<1> QED
  BY <1>1 DEF UpToN

\* Sending counts one more.
LEMMA OccursAppend ==
  ASSUME NEW T, NEW s \in Seq(T), NEW x \in T, NEW k
  PROVE  Occurs(Append(s, x), k) = Occurs(s, k) + One(k, x)
<1> DEFINE t == Append(s, x)
<1>1. /\ t \in Seq(T) /\ Len(t) = Len(s) + 1 /\ Len(s) \in Nat
      /\ t[Len(s) + 1] = x /\ \A i \in 1..Len(s) : s[i] = t[i]
  BY AppendProperties
<1> HIDE DEF t
<1>2. Occurs(t, k) = UpToN(t, Len(s) + 1, k) /\ Occurs(s, k) = UpToN(s, Len(s), k)
  BY <1>1, OccursUpTo
<1>3. UpToN(t, Len(s) + 1, k) = UpToN(t, Len(s), k) + One(k, x)
  BY <1>1, UpToStep
<1>4. UpToN(s, Len(s), k) = UpToN(t, Len(s), k)
  BY <1>1, UpToSame
<1> QED
  BY <1>2, <1>3, <1>4 DEF t

\* Taking the first counts one less.
LEMMA OccursTail ==
  ASSUME NEW T, NEW s \in Seq(T), s # <<>>, NEW k
  PROVE  Occurs(s, k) = Occurs(Tail(s), k) + One(k, Head(s))
<1> DEFINE t == Tail(s)
<1>1. /\ t \in Seq(T) /\ Len(t) = Len(s) - 1 /\ Len(s) \in Nat \ {0} /\ Head(s) = s[1]
      /\ \A i \in 1..Len(t) : t[i] = s[i + 1]
  OBVIOUS
<1> HIDE DEF t
<1> DEFINE All == {n \in Nat : n <= Len(t) => UpToN(s, n + 1, k) = UpToN(t, n, k) + One(k, s[1])}
<1>2. 0 \in All
  <2>1. UpToN(s, 0, k) = 0 /\ UpToN(t, 0, k) = 0 /\ UpToN(s, 0 + 1, k) = UpToN(s, 0, k) + One(k, s[0 + 1])
    BY UpToStep
  <2> QED
    BY <2>1
<1>3. ASSUME NEW n \in All PROVE n + 1 \in All
  <2> SUFFICES ASSUME n + 1 <= Len(t)
               PROVE  UpToN(s, (n + 1) + 1, k) = UpToN(t, n + 1, k) + One(k, s[1])
    OBVIOUS
  <2>1. n + 1 \in 1..Len(t) /\ n + 1 \in Nat /\ Len(t) \in Nat
    BY <1>1
  <2>2. t[n + 1] = s[(n + 1) + 1]
    BY <1>1, <2>1
  <2>3. UpToN(s, n + 1, k) = UpToN(t, n, k) + One(k, s[1])
    BY <2>1
  <2>4. UpToN(s, (n + 1) + 1, k) = UpToN(s, n + 1, k) + One(k, s[(n + 1) + 1])
    BY <2>1, UpToStep
  <2>5. UpToN(t, n + 1, k) = UpToN(t, n, k) + One(k, t[n + 1]) /\ UpToN(t, n, k) \in Nat
    BY UpToStep
  <2>6. \A y : One(k, y) \in Nat
    BY DEF One
  <2> QED
    BY <2>2, <2>3, <2>4, <2>5, <2>6
<1>4. All = Nat
  <2> HIDE DEF All
  <2>1. All \in SUBSET Nat
    BY DEF All
  <2> QED
    BY <1>2, <1>3, <2>1, Counting
<1>5. Len(t) \in Nat /\ Len(t) + 1 = Len(s)
  BY <1>1
<1>6. UpToN(s, Len(s), k) = UpToN(t, Len(t), k) + One(k, s[1])
  BY <1>4, <1>5
<1> QED
  BY <1>1, <1>6, OccursUpTo DEF t

\* A sum of sums.
LEMMA TotalSum ==
  ASSUME NEW S, IsFiniteSet(S), NEW f, NEW g, NEW h, Whole(f, S), Whole(g, S),
         \A x \in S : h[x] = f[x] + g[x]
  PROVE  Total(h, S) = Total(f, S) + Total(g, S)
<1> DEFINE P == {T \in SUBSET S : Total(h, T) = Total(f, T) + Total(g, T)}
<1>1. {} \in P
  <2>1. Total(h, {}) = 0 /\ Total(f, {}) = 0 /\ Total(g, {}) = 0
    BY TotalStep, FS_EmptySet
  <2> QED
    BY <2>1
<1>2. ASSUME NEW T \in SUBSET S, T # {}, \A x \in T : T \ {x} \in P PROVE T \in P
  <2> PICK x \in T : TRUE
    BY <1>2
  <2>1. IsFiniteSet(T) /\ Whole(f, T) /\ Whole(g, T) /\ Whole(h, T)
    BY FS_Subset DEF Whole
  <2>2. /\ Total(f, T) = f[x] + Total(f, T \ {x}) /\ Total(g, T) = g[x] + Total(g, T \ {x})
        /\ Total(h, T) = h[x] + Total(h, T \ {x})
    BY <2>1, TotalTakes
  <2>3. Total(h, T \ {x}) = Total(f, T \ {x}) + Total(g, T \ {x})
    BY <1>2
  <2>4. Total(f, T \ {x}) \in Int /\ Total(g, T \ {x}) \in Int
    <3>1. T \ {x} \in SUBSET S
      OBVIOUS
    <3> QED
      BY <3>1, TotalInt
  <2>5. h[x] = f[x] + g[x] /\ f[x] \in Int /\ g[x] \in Int
    BY DEF Whole
  <2>6. Total(h, T) = Total(f, T) + Total(g, T)
    BY <2>2, <2>3, <2>4, <2>5
  <2> QED
    BY <2>6
<1>3. \A T \in SUBSET S : T \in P
  <2> HIDE DEF P
  <2> QED
    BY <1>1, <1>2, Shrinking
<1> QED
  BY <1>3

\* Every item is one of the keys.
LEMMA OccursTotal ==
  ASSUME NEW s \in Seq(Keys)
  PROVE  Total([k \in Keys |-> Occurs(s, k)], Keys) = Len(s)
<1> DEFINE f(n) == [k \in Keys |-> UpToN(s, n, k)]
           All == {n \in Nat : n <= Len(s) => Total(f(n), Keys) = n}
<1>1. Len(s) \in Nat
  OBVIOUS
<1>2. \A n \in Nat : /\ f(n) \in [Keys -> Nat] /\ Whole(f(n), Keys)
                     /\ \A k \in Keys : f(n)[k] = UpToN(s, n, k)
  <2> SUFFICES ASSUME NEW n \in Nat
               PROVE  /\ f(n) \in [Keys -> Nat] /\ Whole(f(n), Keys)
                      /\ \A k \in Keys : f(n)[k] = UpToN(s, n, k)
    OBVIOUS
  <2>1. \A k \in Keys : UpToN(s, n, k) \in Nat
    BY UpToStep
  <2>2. \A x \in Nat : x \in Int
    OBVIOUS
  <2> QED
    BY <2>1, <2>2 DEF Whole
<1>3. 0 \in All
  <2>1. \A k \in Keys \ {} : f(0)[k] = 0
    BY UpToStep
  <2>2. Whole(f(0), Keys)
    BY <1>2 DEF Whole
  <2> HIDE DEF f
  <2>3. Total(f(0), Keys) = Total(f(0), {})
    BY <2>1, <2>2, FiniteAssumption, TotalPart
  <2>4. Total(f(0), {}) = 0
    BY TotalStep, FS_EmptySet
  <2> QED
    BY <2>3, <2>4
<1>4. ASSUME NEW n \in All PROVE n + 1 \in All
  <2> SUFFICES ASSUME n + 1 <= Len(s) PROVE Total(f(n + 1), Keys) = n + 1
    OBVIOUS
  <2>1. n + 1 \in 1..Len(s) /\ s[n + 1] \in Keys /\ n \in Nat /\ n + 1 \in Nat
    BY <1>1
  <2>2. Total(f(n), Keys) = n
    BY <1>1
  <2> HIDE DEF f
  <2>3. Whole(f(n), Keys) /\ Whole(f(n + 1), Keys)
    BY <1>2, <2>1
  <2>4. \A k \in Keys : f(n + 1)[k] = f(n)[k] + One(k, s[n + 1]) /\ f(n)[k] \in Nat
    <3>1. \A k \in Keys : f(n + 1)[k] = UpToN(s, n + 1, k) /\ f(n)[k] = UpToN(s, n, k)
      BY <1>2, <2>1
    <3>2. \A k \in Keys : /\ UpToN(s, n, k) \in Nat
                          /\ UpToN(s, n + 1, k) = UpToN(s, n, k) + One(k, s[n + 1])
      BY <2>1, UpToStep
    <3> HIDE DEF f
    <3> QED
      BY <3>1, <3>2
  <2>5. \A k \in Keys \ {s[n + 1]} : f(n)[k] = f(n + 1)[k]
    BY <2>4 DEF One
  <2>6. f(n + 1)[s[n + 1]] = f(n)[s[n + 1]] + 1
    BY <2>1, <2>4 DEF One
  <2> DEFINE x == s[n + 1]
             a == f(n)
             b == f(n + 1)
  <2> HIDE DEF a, b
  <2>7. Total(b, Keys) = Total(a, Keys) - a[x] + b[x]
    <3>1. Whole(a, Keys) /\ Whole(b, Keys) /\ x \in Keys /\ \A k \in Keys \ {x} : a[k] = b[k]
      BY <2>1, <2>3, <2>5 DEF a, b
    <3> HIDE DEF x
    <3> QED
      BY <3>1, FiniteAssumption, TotalChange
  <2>8. a[x] \in Nat /\ b[x] = a[x] + 1 /\ Total(a, Keys) = n
    BY <2>1, <2>2, <2>4, <2>6 DEF a, b
  <2>9. Total(b, Keys) = n + 1
    BY <2>7, <2>8
  <2> QED
    BY <2>9 DEF b
<1>5. All = Nat
  <2> HIDE DEF All
  <2>1. All \in SUBSET Nat
    BY DEF All
  <2> QED
    BY <1>3, <1>4, <2>1, Counting
<1>6. Total(f(Len(s)), Keys) = Len(s)
  <2>1. Len(s) \in All
    BY <1>1, <1>5
  <2> HIDE DEF f
  <2> QED
    BY <1>1, <2>1
<1>7. [k \in Keys |-> Occurs(s, k)] = f(Len(s))
  BY OccursUpTo
<1> HIDE DEF f
<1> QED
  BY <1>6, <1>7

\* How many workers are on k.
Working(b, k) == Cardinality({w \in Workers : b[w] = k})

\* There are finitely many workers.
LEMMA WorkingCount ==
  ASSUME NEW b, NEW k
  PROVE  IsFiniteSet({w \in Workers : b[w] = k}) /\ Working(b, k) \in Nat
<1>1. IsFiniteSet({w \in Workers : b[w] = k})
  <2>1. {w \in Workers : b[w] = k} \subseteq Workers
    OBVIOUS
  <2> QED
    BY <2>1, FiniteAssumption, FS_Subset
<1> QED
  BY <1>1, FS_CardinalityType DEF Working

\* A worker that takes k up, and one that is done with it.
LEMMA WorkerTakes ==
  ASSUME NEW b \in [Workers -> Keys \cup {NoKey}], NEW w \in Workers, b[w] = NoKey,
         NEW h \in Keys, NEW k \in Keys
  PROVE  Working([b EXCEPT ![w] = h], k) = Working(b, k) + One(k, h)
<1> DEFINE c == [b EXCEPT ![w] = h]
<1>1. c[w] = h /\ \A v \in Workers \ {w} : c[v] = b[v]
  OBVIOUS
<1> HIDE DEF c
<1>2. b[w] # k
  BY NoKeyAssumption
<1>3. CASE h = k
  <2>1. {v \in Workers : c[v] = k} = {v \in Workers : b[v] = k} \cup {w} /\ w \notin {v \in Workers : b[v] = k}
    BY <1>1, <1>2, <1>3
  <2>2. IsFiniteSet({v \in Workers : b[v] = k})
    BY WorkingCount
  <2>3. Cardinality({v \in Workers : b[v] = k} \cup {w}) = Cardinality({v \in Workers : b[v] = k}) + 1
    BY <2>1, <2>2, FS_AddElement
  <2>4. Working(c, k) = Working(b, k) + 1
    BY <2>1, <2>3 DEF Working
  <2> QED
    BY <1>3, <2>4 DEF One, c
<1>4. CASE h # k
  <2>1. {v \in Workers : c[v] = k} = {v \in Workers : b[v] = k}
    BY <1>1, <1>2, <1>4
  <2>2. Working(c, k) = Working(b, k)
    BY <2>1 DEF Working
  <2>3. One(k, h) = 0 /\ Working(b, k) \in Nat
    BY <1>4, WorkingCount DEF One
  <2> QED
    BY <2>2, <2>3 DEF c
<1> QED
  BY <1>3, <1>4

\* A worker that is done is on nothing.
LEMMA WorkerIsDone ==
  ASSUME NEW b \in [Workers -> Keys \cup {NoKey}], NEW w \in Workers, NEW k \in Keys
  PROVE  Working(b, k) = Working([b EXCEPT ![w] = NoKey], k) + One(k, b[w])
<1> DEFINE c == [b EXCEPT ![w] = NoKey]
<1>1. c \in [Workers -> Keys \cup {NoKey}] /\ c[w] = NoKey
  OBVIOUS
<1>2. CASE b[w] \in Keys
  <2>1. b = [c EXCEPT ![w] = b[w]]
    OBVIOUS
  <2> HIDE DEF c
  <2>2. Working([c EXCEPT ![w] = b[w]], k) = Working(c, k) + One(k, b[w])
    BY <1>1, <1>2, WorkerTakes
  <2> QED
    BY <2>1, <2>2 DEF c
<1>3. CASE b[w] = NoKey
  <2>1. c = b
    BY <1>3
  <2>2. One(k, b[w]) = 0
    BY <1>3, NoKeyAssumption DEF One
  <2>3. Working(c, k) = Working(b, k) /\ Working(b, k) \in Nat
    BY <2>1, WorkingCount
  <2> HIDE DEF c
  <2> QED
    BY <2>2, <2>3 DEF c
<1> QED
  BY <1>2, <1>3

\* What is in flight for each key, by channels and workers.
Flight(req, b, res) == [k \in Keys |-> Occurs(req, k) + Working(b, k) + Occurs(res, k)]

\* The total is what the channels hold and the workers are on.
LEMMA FlightTotal ==
  ASSUME NEW req \in Seq(Keys), NEW b, NEW res \in Seq(Keys)
  PROVE  /\ Flight(req, b, res) \in [Keys -> Nat] /\ Total(Flight(req, b, res), Keys) \in Nat
         /\ Total(Flight(req, b, res), Keys)
              = Len(req) + Total([k \in Keys |-> Working(b, k)], Keys) + Len(res)
<1> DEFINE f == [k \in Keys |-> Occurs(req, k)]
           g == [k \in Keys |-> Working(b, k)]
           h == [k \in Keys |-> Occurs(res, k)]
           fg == [k \in Keys |-> f[k] + g[k]]
           all == Flight(req, b, res)
<1>1. ASSUME NEW k \in Keys
      PROVE  /\ f[k] \in Nat /\ g[k] \in Nat /\ h[k] \in Nat /\ fg[k] = f[k] + g[k]
             /\ all[k] = fg[k] + h[k]
  BY OccursUpTo, WorkingCount DEF Flight
<1>2. Total(f, Keys) = Len(req) /\ Total(h, Keys) = Len(res)
  BY OccursTotal
<1>3. all = [k \in Keys |-> all[k]]
  BY DEF Flight
<1> HIDE DEF f, g, h, fg, all
<1>4. \A k \in Keys : fg[k] \in Nat /\ all[k] \in Nat
  BY <1>1
<1>5. Whole(f, Keys) /\ Whole(g, Keys) /\ Whole(h, Keys) /\ Whole(fg, Keys)
  BY <1>1, <1>4 DEF Whole
<1>6. Total(fg, Keys) = Total(f, Keys) + Total(g, Keys)
  BY <1>1, <1>5, FiniteAssumption, TotalSum
<1>7. Total(all, Keys) = Total(fg, Keys) + Total(h, Keys)
  BY <1>1, <1>5, FiniteAssumption, TotalSum
<1>8. Total(all, Keys) \in Nat
  BY <1>4, FiniteAssumption, TotalNat
<1>9. all \in [Keys -> Nat]
  BY <1>3, <1>4
<1>10. Total(all, Keys) = Len(req) + Total(g, Keys) + Len(res)
  BY <1>2, <1>6, <1>7
<1> QED
  BY <1>8, <1>9, <1>10 DEF all, g

\* A worker that takes a request moves it.
LEMMA FlightTaken ==
  ASSUME NEW req \in Seq(Keys), req # <<>>, NEW b \in [Workers -> Keys \cup {NoKey}],
         NEW res \in Seq(Keys), NEW w \in Workers, b[w] = NoKey
  PROVE  Flight(Tail(req), [b EXCEPT ![w] = Head(req)], res) = Flight(req, b, res)
<1>1. Head(req) \in Keys /\ Tail(req) \in Seq(Keys)
  OBVIOUS
<1>2. ASSUME NEW k \in Keys
      PROVE  Occurs(Tail(req), k) + Working([b EXCEPT ![w] = Head(req)], k)
               = Occurs(req, k) + Working(b, k)
  <2>1. Occurs(req, k) = Occurs(Tail(req), k) + One(k, Head(req))
    BY OccursTail
  <2>2. Working([b EXCEPT ![w] = Head(req)], k) = Working(b, k) + One(k, Head(req))
    BY <1>1, WorkerTakes
  <2>3. Occurs(Tail(req), k) \in Nat /\ Working(b, k) \in Nat /\ One(k, Head(req)) \in Nat
    BY <1>1, OccursUpTo, WorkingCount DEF One
  <2> QED
    BY <2>1, <2>2, <2>3
<1> QED
  BY <1>2 DEF Flight

\* So does one that sends back what it decoded.
LEMMA FlightSent ==
  ASSUME NEW req \in Seq(Keys), NEW b \in [Workers -> Keys \cup {NoKey}],
         NEW res \in Seq(Keys), NEW w \in Workers, b[w] # NoKey
  PROVE  Flight(req, [b EXCEPT ![w] = NoKey], Append(res, b[w])) = Flight(req, b, res)
<1> DEFINE c == [b EXCEPT ![w] = NoKey]
<1>1. b[w] \in Keys
  OBVIOUS
<1>2. ASSUME NEW k \in Keys
      PROVE  /\ Working(b, k) = Working(c, k) + One(k, b[w])
             /\ Occurs(Append(res, b[w]), k) = Occurs(res, k) + One(k, b[w])
             /\ Working(c, k) \in Nat /\ Occurs(res, k) \in Nat /\ One(k, b[w]) \in Nat
  <2>1. Occurs(Append(res, b[w]), k) = Occurs(res, k) + One(k, b[w])
    BY <1>1, OccursAppend
  <2>2. Working(b, k) = Working(c, k) + One(k, b[w])
    BY WorkerIsDone
  <2>3. Working(c, k) \in Nat /\ Occurs(res, k) \in Nat /\ One(k, b[w]) \in Nat
    BY OccursUpTo, WorkingCount DEF One
  <2> QED
    BY <2>1, <2>2, <2>3
<1> HIDE DEF c
<1>3. \A k \in Keys : Occurs(req, k) + Working(c, k) + Occurs(Append(res, b[w]), k)
                        = Occurs(req, k) + Working(b, k) + Occurs(res, k)
  <2> TAKE k \in Keys
  <2> DEFINE o == Occurs(req, k)
             p == Working(c, k)
             q == Occurs(res, k)
             e == One(k, b[w])
  <2>1. Working(b, k) = p + e /\ Occurs(Append(res, b[w]), k) = q + e
    BY <1>2
  <2>2. p \in Nat /\ q \in Nat /\ e \in Nat /\ o \in Nat
    BY <1>2, OccursUpTo
  <2> QED
    BY <2>1, <2>2
<1> QED
  BY <1>3 DEF Flight, c

\* Collecting takes what is on its way back, asking adds one.
LEMMA FlightCollected ==
  ASSUME NEW req \in Seq(Keys), NEW b, NEW res \in Seq(Keys)
  PROVE  /\ Total(Flight(req, b, <<>>), Keys) = Total(Flight(req, b, res), Keys) - Len(res)
         /\ \A k \in Keys : k \notin ToSet(res) => Flight(req, b, <<>>)[k] = Flight(req, b, res)[k]
<1>1. <<>> \in Seq(Keys) /\ Len(<<>>) = 0 /\ ToSet(<<>>) = {}
  BY DEF ToSet
<1>2. Len(req) \in Nat /\ Len(res) \in Nat
  OBVIOUS
<1> DEFINE t == Total([k \in Keys |-> Working(b, k)], Keys)
<1>3. t \in Nat
  <2>1. \A k \in Keys : [x \in Keys |-> Working(b, x)][k] \in Nat
    BY WorkingCount
  <2> QED
    BY <2>1, FiniteAssumption, TotalNat
<1> HIDE DEF t
<1>4. /\ Total(Flight(req, b, res), Keys) = Len(req) + t + Len(res)
      /\ Total(Flight(req, b, <<>>), Keys) = Len(req) + t + 0
  <2>1. \A q \in Seq(Keys) : Total(Flight(req, b, q), Keys) = Len(req) + t + Len(q)
    BY FlightTotal DEF t
  <2>2. Total(Flight(req, b, <<>>), Keys) = Len(req) + t + Len(<<>>)
    BY <1>1, <2>1
  <2> QED
    BY <1>1, <2>1, <2>2
<1>5. ASSUME NEW k \in Keys, k \notin ToSet(res)
      PROVE  Flight(req, b, <<>>)[k] = Flight(req, b, res)[k]
  <2>1. Occurs(res, k) = 0 /\ Occurs(<<>>, k) = 0
    BY <1>1, <1>5, OccursUpTo
  <2> QED
    BY <2>1 DEF Flight
<1> QED
  BY <1>2, <1>3, <1>4, <1>5

\* Asking adds one decode to those in flight.
LEMMA FlightAsked ==
  ASSUME NEW req \in Seq(Keys), NEW b, NEW res \in Seq(Keys), NEW x \in Keys
  PROVE  /\ Total(Flight(Append(req, x), b, res), Keys) = Total(Flight(req, b, res), Keys) + 1
         /\ Flight(Append(req, x), b, res)[x] > 0
         /\ \A k \in Keys : Flight(req, b, res)[k] > 0 => Flight(Append(req, x), b, res)[k] > 0
<1> DEFINE t == Total([k \in Keys |-> Working(b, k)], Keys)
           more == Append(req, x)
<1>1. more \in Seq(Keys) /\ Len(more) = Len(req) + 1 /\ Len(req) \in Nat /\ Len(res) \in Nat
  BY AppendProperties
<1>2. \A k \in Keys : Occurs(more, k) = Occurs(req, k) + One(k, x)
  BY OccursAppend
<1>3. t \in Nat
  <2>1. \A k \in Keys : [z \in Keys |-> Working(b, z)][k] \in Nat
    BY WorkingCount
  <2> QED
    BY <2>1, FiniteAssumption, TotalNat
<1> HIDE DEF t, more
<1>4. /\ Total(Flight(req, b, res), Keys) = Len(req) + t + Len(res)
      /\ Total(Flight(more, b, res), Keys) = Len(more) + t + Len(res)
  BY <1>1, FlightTotal DEF t
<1>5. ASSUME NEW k \in Keys
      PROVE  /\ Flight(more, b, res)[k] = Flight(req, b, res)[k] + One(k, x)
             /\ Flight(req, b, res)[k] \in Nat /\ One(k, x) \in Nat
  <2>1. Occurs(req, k) \in Nat /\ Working(b, k) \in Nat /\ Occurs(res, k) \in Nat /\ One(k, x) \in Nat
    BY OccursUpTo, WorkingCount DEF One
  <2>2. Occurs(more, k) = Occurs(req, k) + One(k, x)
    BY <1>2
  <2>3. /\ Flight(more, b, res)[k] = Occurs(more, k) + Working(b, k) + Occurs(res, k)
        /\ Flight(req, b, res)[k] = Occurs(req, k) + Working(b, k) + Occurs(res, k)
    BY DEF Flight
  <2> QED
    BY <2>1, <2>2, <2>3
<1>6. One(x, x) = 1
  BY DEF One
<1>7. Total(Flight(more, b, res), Keys) = Total(Flight(req, b, res), Keys) + 1
  BY <1>1, <1>3, <1>4
<1>8. Flight(more, b, res)[x] > 0
  BY <1>5, <1>6
<1>9. \A k \in Keys : Flight(req, b, res)[k] > 0 => Flight(more, b, res)[k] > 0
  BY <1>5
<1> QED
  BY <1>7, <1>8, <1>9 DEF more

(***************************************************************************)
(* The invariant.                                                          *)
(***************************************************************************)

\* Only workers that spawned work, and without one nothing is sent.
Served ==
  /\ \A w \in Workers : busy[w] # NoKey => w \in up
  /\ up = {} => requests = <<>> /\ results = <<>>

\* The inductive invariant.
IInv == ImageInv /\ Served

\* TypeOK beside the cache and the count of what is outstanding.
AroundOK ==
  /\ arrived \in BOOLEAN
  /\ requests \in Seq(Keys) /\ results \in Seq(Keys)
  /\ busy \in [Workers -> Keys \cup {NoKey}]
  /\ wanted \subseteq Keys /\ dirty \subseteq Keys
  /\ display \in [Keys -> {"nothing", "placeholder", "picture"}]
  /\ frame \in BOOLEAN /\ phase \in {"idle", "building"} /\ rebuilt \in BOOLEAN
  /\ up \subseteq Workers /\ animating \in BOOLEAN
  /\ todo \subseteq wanted /\ (phase = "idle" => todo = {})

\* What is in flight in this state.
InFlightNow == Flight(requests, busy, results)

\* The invariant in the terms of the lemmas.
Parts ==
  /\ Balanced(Cache) /\ AroundOK
  /\ outstanding = Total(InFlightNow, Keys)
  /\ \A k \in Keys : slot[k] = "decoding" => InFlightNow[k] > 0

\* The invariant has these parts.
LEMMA InvParts ==
  ASSUME ImageInv
  PROVE  Parts
<1>1. InFlightNow = [k \in Keys |-> InFlight(k)]
  BY DEF InFlightNow, Flight, InFlight, Occurs, Working
<1>2. Balanced(Cache)
  BY DEF ImageInv, TypeOK, BooksBalance, Balanced, Cache
<1>3. AroundOK
  BY DEF ImageInv, TypeOK, AroundOK
<1>4. outstanding = Total(InFlightNow, Keys)
  BY <1>1 DEF ImageInv, BooksBalance
<1>5. \A k \in Keys : slot[k] = "decoding" => InFlightNow[k] > 0
  BY <1>1 DEF ImageInv, BooksBalance
<1> QED
  BY <1>2, <1>3, <1>4, <1>5 DEF Parts

\* These parts, after a step, make the invariant.
LEMMA PartsInv ==
  ASSUME Parts'
  PROVE  ImageInv'
<1>1. InFlightNow' = [k \in Keys |-> InFlight(k)']
  BY DEF InFlightNow, Flight, InFlight, Occurs, Working
<1>2. /\ Cache' \in CacheStates /\ IsInjective(order') /\ ToSet(order') = Present(slot')
      /\ bytes' = Total(Costs(slot'), Keys) /\ slot' \in [Keys -> Slots]
      /\ held' \subseteq {k \in Keys : slot'[k] = "image"}
  BY DEF Parts, Balanced, Cache, CacheStates
<1>3. bytes' \in Nat
  <2>1. \A k \in Keys : Costs(slot')[k] \in Nat
    BY <1>2, CostsWhole
  <2> QED
    BY <1>2, <2>1, FiniteAssumption, TotalNat
<1>4. outstanding' \in Nat
  <2>1. /\ requests' \in Seq(Keys) /\ results' \in Seq(Keys)
        /\ outstanding' = Total(Flight(requests', busy', results'), Keys)
    BY DEF Parts, AroundOK, InFlightNow
  <2> QED
    BY <2>1, FlightTotal
<1>5. TypeOK'
  BY <1>2, <1>3, <1>4 DEF Parts, AroundOK, TypeOK, Cache
<1>6. BooksBalance'
  <2>1. outstanding' = Total([k \in Keys |-> InFlight(k)'], Keys)
    BY <1>1 DEF Parts
  <2>2. \A k \in Keys : slot'[k] = "decoding" => InFlight(k)' > 0
    BY <1>1 DEF Parts
  <2> QED
    BY <1>2, <2>1, <2>2 DEF BooksBalance
<1> QED
  BY <1>5, <1>6 DEF ImageInv

\* Whoever holds what of its images, the books are the same.
LEMMA Rehold ==
  ASSUME NEW c, Balanced(c), NEW h \in SUBSET {k \in Keys : c.slot[k] = "image"}
  PROVE  Balanced([slot |-> c.slot, order |-> c.order, bytes |-> c.bytes, held |-> h])
BY DEF Balanced, CacheStates

\* What a call leaves that has collected.
LEMMA LeaveBalanced ==
  ASSUME NEW c, Balanced(c), Leave(c), held' \subseteq {k \in Keys : c.slot[k] = "image"}
  PROVE  Balanced(Cache')
<1>1. Cache' = [slot |-> c.slot, order |-> c.order, bytes |-> c.bytes, held |-> held']
  BY DEF Leave, Cache
<1>2. held' \in SUBSET {k \in Keys : c.slot[k] = "image"}
  OBVIOUS
<1> QED
  BY <1>1, <1>2, Rehold

\* A cache over its limits is one that is full.
LEMMA FullIsOver ==
  ASSUME NEW c, Balanced(c)
  PROVE  OverLimit(c) <=>
           \/ Cardinality({k \in Keys : c.slot[k] \in {"image", "failed"}}) > MaxEntries
           \/ Total(Bytes, {k \in Keys : c.slot[k] = "image"}) > MaxBytes
<1> DEFINE images == {k \in Keys : c.slot[k] = "image"}
<1>1. c.slot \in [Keys -> Slots] /\ c.bytes = Total(Costs(c.slot), Keys)
  BY DEF Balanced, CacheStates
<1>2. Whole(Costs(c.slot), Keys) /\ \A k \in Keys : Costs(c.slot)[k] = Cost(k, c.slot[k])
  BY <1>1, CostsWhole
<1>3. \A k \in Keys \ images : Costs(c.slot)[k] = 0
  BY <1>2 DEF Cost
<1>4. \A k \in images : Costs(c.slot)[k] = Bytes[k]
  BY <1>2 DEF Cost
<1>5. images \in SUBSET Keys /\ IsFiniteSet(images)
  BY FiniteAssumption, FS_Subset
<1> HIDE DEF images
<1>6. Total(Costs(c.slot), Keys) = Total(Costs(c.slot), images)
  BY <1>2, <1>3, <1>5, FiniteAssumption, TotalPart
<1>7. Total(Costs(c.slot), images) = Total(Bytes, images)
  BY <1>4, <1>5, TotalSame
<1> QED
  BY <1>1, <1>6, <1>7 DEF OverLimit, Finished, images

(***************************************************************************)
(* What a build leaves of the cache.                                       *)
(***************************************************************************)

\* The build of k finds c and leaves d, after asking for k or not.
Left(k, c, d, asked) ==
  /\ Balanced(d) /\ d.held \subseteq c.held \cup {k} /\ c.held \subseteq d.held
  /\ \A x \in Keys : d.slot[x] = "decoding" => c.slot[x] = "decoding" \/ (asked /\ x = k)
  /\ results # <<>> => d.held \subseteq c.held /\ (~OverLimit(d) \/ Evictable(d) = {})

\* A hit is moved to the end of the order and stays.
LEMMA TouchLeaves ==
  ASSUME NEW c, NEW k \in Keys, Collected(Cache, c), c.slot[k] \in {"image", "failed"}
  PROVE  Left(k, c, Touch(c, k), FALSE)
<1> DEFINE d == Touch(c, k)
<1>1. /\ c \in CacheStates /\ c.slot \in [Keys -> Slots] /\ c.order \in Seq(Keys)
      /\ IsInjective(c.order) /\ ToSet(c.order) = Present(c.slot)
      /\ c.bytes = Total(Costs(c.slot), Keys) /\ c.bytes \in Int /\ c.held \in SUBSET Keys
      /\ c.held \subseteq {x \in Keys : c.slot[x] = "image"}
  BY DEF Collected, Balanced, CacheStates
<1>2. /\ d.slot = c.slot /\ d.bytes = c.bytes /\ d.held = c.held
      /\ d.order = Append(Only(c.order, Keys \ {k}), k)
      /\ d = [slot |-> d.slot, order |-> d.order, bytes |-> d.bytes, held |-> d.held]
  <2>1. c = [slot |-> c.slot, order |-> c.order, bytes |-> c.bytes, held |-> c.held]
    BY <1>1 DEF CacheStates
  <2>2. d = [slot |-> c.slot, order |-> Append(Only(c.order, Keys \ {k}), k),
             bytes |-> c.bytes, held |-> c.held]
    <3> DEFINE o == Append(Only(c.order, Keys \ {k}), k)
    <3>1. d = [c EXCEPT !.order = o]
      BY DEF Touch
    <3> HIDE DEF o, d
    <3>2. [c EXCEPT !.order = o] = [slot |-> c.slot, order |-> o, bytes |-> c.bytes, held |-> c.held]
      BY <2>1
    <3> QED
      BY <3>1, <3>2 DEF o
  <2> HIDE DEF d
  <2> QED
    BY <2>2
<1> HIDE DEF d
<1>3. d.order \in Seq(Keys) /\ IsInjective(d.order) /\ ToSet(d.order) = ToSet(c.order) \cup {k}
  <2>1. \A list \in Seq(Keys) : IsInjective(list) =>
            LET o == Append(Only(list, Keys \ {k}), k)
            IN  o \in Seq(Keys) /\ IsInjective(o) /\ ToSet(o) = ToSet(list) \cup {k}
    BY TouchedOrder
  <2> QED
    BY <1>1, <1>2, <2>1
<1>4. ToSet(d.order) = Present(d.slot)
  BY <1>1, <1>2, <1>3 DEF Present
<1>5. d \in CacheStates
  BY <1>1, <1>2, <1>3 DEF CacheStates
<1>6. Balanced(d)
  BY <1>1, <1>2, <1>3, <1>4, <1>5 DEF Balanced
<1>7. (OverLimit(d) <=> OverLimit(c)) /\ Evictable(d) = Evictable(c)
  BY <1>2 DEF OverLimit, Evictable, Finished
<1> QED
  BY <1>2, <1>6, <1>7 DEF Left, Collected, d

\* A miss is asked for; what is held stays.
LEMMA AskLeaves ==
  ASSUME NEW c, NEW k \in Keys, Collected(Cache, c), c.slot[k] = "absent"
  PROVE  Left(k, c, File(c, k, "decoding"), TRUE)
<1> DEFINE d == File(c, k, "decoding")
<1>1. Balanced(c) /\ c.held \subseteq {x \in Keys : c.slot[x] = "image"}
  BY DEF Collected, Balanced
<1>2. Filing(c, k, "decoding", d)
  BY <1>1, FileOne
<1> HIDE DEF d
<1>3. c.held \ {k} = c.held
  BY <1>1
<1>4. Balanced(d) /\ d.held = c.held /\ (~OverLimit(d) \/ Evictable(d) = {})
  BY <1>2, <1>3 DEF Filing
<1>5. \A x \in Keys : d.slot[x] = "decoding" => c.slot[x] = "decoding" \/ x = k
  BY <1>2 DEF Filing
<1> QED
  BY <1>4, <1>5 DEF Left, d

\* Without a worker it is decoded there, and held.
LEMMA HereLeaves ==
  ASSUME NEW k \in Keys, Balanced(Cache), slot[k] = "absent", results = <<>>
  PROVE  Left(k, Cache, DecodedHere(k), FALSE)
<1> DEFINE s == Decoded(k)
           e == [slot |-> [slot EXCEPT ![k] = s],
                 order |-> Append(order, k),
                 bytes |-> bytes + Cost(k, s),
                 held |-> IF k \in Unreadable THEN held ELSE held \cup {k}]
           d == DecodedHere(k)
<1>1. /\ slot \in [Keys -> Slots] /\ order \in Seq(Keys)
      /\ IsInjective(order) /\ ToSet(order) = Present(slot)
      /\ bytes = Total(Costs(slot), Keys) /\ bytes \in Int
      /\ held \subseteq {x \in Keys : slot[x] = "image"}
  BY DEF Cache, Balanced, CacheStates
<1>2. d = Evict[e]
  BY DEF DecodedHere
<1>3. s \in {"image", "failed"} /\ s \in Slots /\ (k \notin Unreadable => s = "image")
  BY DEF Decoded, Slots
<1> HIDE DEF d, s
<1>4. /\ Append(order, k) \in Seq(Keys) /\ IsInjective(Append(order, k))
      /\ ToSet(Append(order, k)) = ToSet(order) \cup {k}
  <2>1. k \notin ToSet(order)
    BY <1>1 DEF Present
  <2> QED
    BY <1>1, <2>1, AppendSet
<1>5. [slot EXCEPT ![k] = s] \in [Keys -> Slots]
  BY <1>1, <1>3
<1>6. bytes + Cost(k, s) = Total(Costs([slot EXCEPT ![k] = s]), Keys)
  <2>1. Cost(k, slot[k]) = 0
    BY DEF Cost
  <2>2. Cost(k, s) \in Nat
    BY KeysAssumption DEF Cost
  <2>3. Total(Costs([slot EXCEPT ![k] = s]), Keys) = Total(Costs(slot), Keys) + Cost(k, s) - Cost(k, slot[k])
    BY <1>1, <1>3, CostsChange
  <2> QED
    BY <1>1, <2>1, <2>2, <2>3
<1>7. Total(Costs([slot EXCEPT ![k] = s]), Keys) \in Int
  <2>1. Whole(Costs([slot EXCEPT ![k] = s]), Keys)
    BY <1>5, CostsWhole
  <2> QED
    BY <2>1, FiniteAssumption, TotalInt
<1>8. /\ e.slot = [slot EXCEPT ![k] = s] /\ e.order = Append(order, k)
      /\ e.bytes = bytes + Cost(k, s)
      /\ e.held = IF k \in Unreadable THEN held ELSE held \cup {k}
      /\ e = [slot |-> e.slot, order |-> e.order, bytes |-> e.bytes, held |-> e.held]
  OBVIOUS
<1> HIDE DEF e
<1>9. e.held \subseteq {x \in Keys : e.slot[x] = "image"}
  BY <1>1, <1>3, <1>8
<1>10. e \in CacheStates
  BY <1>4, <1>5, <1>6, <1>7, <1>8, <1>9 DEF CacheStates
<1>11. ToSet(e.order) = Present(e.slot)
  BY <1>1, <1>3, <1>4, <1>8 DEF Present
<1>12. Balanced(e)
  BY <1>4, <1>6, <1>8, <1>9, <1>10, <1>11 DEF Balanced
<1>13. EvictedFrom(e, d)
  BY <1>2, <1>12, EvictLeaves
<1>14. ASSUME NEW x \in Keys, d.slot[x] = "decoding" PROVE slot[x] = "decoding"
  BY <1>1, <1>3, <1>8, <1>13, <1>14 DEF EvictedFrom
<1>15. Balanced(d) /\ d.held = e.held
  BY <1>13 DEF EvictedFrom
<1>16. Cache.held = held /\ Cache.slot = slot
  BY DEF Cache
<1> QED
  BY <1>8, <1>14, <1>15, <1>16 DEF Left, d

\* What BuildOne does, case by case.
LEMMA BuildLeaves ==
  ASSUME Parts, Served, NEW k \in Keys, BuildOne(k)
  PROVE  \E c, d, asked :
           /\ Collected(Cache, c) /\ asked \in BOOLEAN
           /\ Left(k, c, d, asked) /\ Return(k, d)
           /\ requests' = IF asked THEN Append(requests, k) ELSE requests
           /\ outstanding' = outstanding - Len(results) + (IF asked THEN 1 ELSE 0)
           /\ asked => up # {}
<1> DEFINE c == Collect(Cache)
<1>1. Collected(Cache, c)
  <2>1. results \in Seq(Keys) /\ Balanced(Cache)
    BY DEF Parts, AroundOK
  <2> QED
    BY <2>1, CollectLeaves
<1>2. LET absent == c.slot[k] = "absent"
          asked == absent /\ up # {}
      IN /\ \/ c.slot[k] \in {"image", "failed"} /\ Return(k, Touch(c, k))
            \/ c.slot[k] = "decoding" /\ Return(k, c)
            \/ asked /\ Return(k, File(c, k, "decoding"))
            \/ absent /\ up = {} /\ Return(k, DecodedHere(k))
         /\ requests' = IF asked THEN Append(requests, k) ELSE requests
         /\ outstanding' = outstanding - Len(results) + (IF asked THEN 1 ELSE 0)
  BY DEF BuildOne
<1> HIDE DEF c
<1> DEFINE asked == c.slot[k] = "absent" /\ up # {}
<1>3. /\ requests' = IF asked THEN Append(requests, k) ELSE requests
      /\ outstanding' = outstanding - Len(results) + (IF asked THEN 1 ELSE 0)
      /\ asked \in BOOLEAN
  BY <1>2
<1>4. CASE c.slot[k] \in {"image", "failed"} /\ Return(k, Touch(c, k))
  <2>1. Left(k, c, Touch(c, k), FALSE) /\ asked = FALSE
    BY <1>1, <1>4, TouchLeaves
  <2> HIDE DEF asked
  <2> QED
    BY <1>1, <1>3, <1>4, <2>1
<1>5. CASE c.slot[k] = "decoding" /\ Return(k, c)
  <2>1. Left(k, c, c, FALSE) /\ asked = FALSE
    BY <1>1, <1>5 DEF Collected, Left
  <2> HIDE DEF asked
  <2> QED
    BY <1>1, <1>3, <1>5, <2>1
<1>6. CASE asked /\ Return(k, File(c, k, "decoding"))
  <2>1. Left(k, c, File(c, k, "decoding"), TRUE) /\ asked = TRUE /\ up # {}
    BY <1>1, <1>6, AskLeaves
  <2> HIDE DEF asked
  <2> QED
    BY <1>1, <1>3, <1>6, <2>1
<1>7. CASE c.slot[k] = "absent" /\ up = {} /\ Return(k, DecodedHere(k))
  <2>1. results = <<>> /\ c = Cache /\ Cache.slot = slot
    BY <1>1, <1>7 DEF Served, Collected, Cache
  <2>2. Left(k, c, DecodedHere(k), FALSE) /\ asked = FALSE
    BY <1>7, <2>1, HereLeaves DEF Parts
  <2> HIDE DEF asked
  <2> QED
    BY <1>1, <1>3, <1>7, <2>2
<1> QED
  BY <1>2, <1>4, <1>5, <1>6, <1>7

\* What a frame's beginning and its end collect.
LEMMA FrameCollects ==
  ASSUME Parts
  PROVE  /\ BeginBuild => \E c : Collected(Cache, c) /\ Leave(c) /\ held' = c.held
         /\ EndBuild => \E c, h : /\ h \in {held, held \intersect wanted}
                                  /\ Collected([Cache EXCEPT !.held = h], c)
                                  /\ Leave(c) /\ held' = c.held \intersect wanted
<1>1. results \in Seq(Keys) /\ Balanced(Cache)
  BY DEF Parts, AroundOK
<1>2. ASSUME BeginBuild PROVE \E c : Collected(Cache, c) /\ Leave(c) /\ held' = c.held
  <2>1. Collected(Cache, Collect(Cache))
    BY <1>1, CollectLeaves
  <2>2. Leave(Collect(Cache)) /\ held' = Collect(Cache).held
    BY <1>2 DEF BeginBuild
  <2> QED
    BY <2>1, <2>2
<1>3. ASSUME EndBuild
      PROVE  \E c, h : /\ h \in {held, held \intersect wanted}
                       /\ Collected([Cache EXCEPT !.held = h], c)
                       /\ Leave(c) /\ held' = c.held \intersect wanted
  <2>1. PICK h \in {held, held \intersect wanted} :
          LET c == Collect([Cache EXCEPT !.held = h])
          IN  Leave(c) /\ held' = c.held \intersect wanted
    BY <1>3 DEF EndBuild
  <2>2. Balanced([Cache EXCEPT !.held = h])
    <3>1. [Cache EXCEPT !.held = h] = [slot |-> Cache.slot, order |-> Cache.order, bytes |-> Cache.bytes, held |-> h]
      BY DEF Cache
    <3>2. h \in SUBSET {k \in Keys : Cache.slot[k] = "image"}
      BY <1>1 DEF Balanced, Cache
    <3>3. \A c : Balanced(c) =>
            \A g \in SUBSET {k \in Keys : c.slot[k] = "image"} :
              Balanced([slot |-> c.slot, order |-> c.order, bytes |-> c.bytes, held |-> g])
      BY Rehold
    <3>4. Balanced([slot |-> Cache.slot, order |-> Cache.order, bytes |-> Cache.bytes, held |-> h])
      BY <1>1, <3>2, <3>3, Zenon
    <3> QED
      BY <3>1, <3>4
  <2>3. Collected([Cache EXCEPT !.held = h], Collect([Cache EXCEPT !.held = h]))
    BY <1>1, <2>2, CollectLeaves
  <2> QED
    BY <2>1, <2>3
<1> QED
  BY <1>2, <1>3

\* No arrival, and a decode for whatever is decoding: what collecting leaves of
\* the books.
LEMMA CollectedBooks ==
  ASSUME Parts, NEW c, NEW b, Collected(b, c), b.slot = slot
  PROVE  /\ Total(Flight(requests, busy, <<>>), Keys) = outstanding - Len(results)
         /\ \A k \in Keys : c.slot[k] = "decoding" => Flight(requests, busy, <<>>)[k] > 0
<1>1. /\ requests \in Seq(Keys) /\ results \in Seq(Keys)
      /\ outstanding = Total(Flight(requests, busy, results), Keys)
      /\ \A k \in Keys : slot[k] = "decoding" => Flight(requests, busy, results)[k] > 0
  BY DEF Parts, AroundOK, InFlightNow
<1>2. /\ Total(Flight(requests, busy, <<>>), Keys) = Total(Flight(requests, busy, results), Keys) - Len(results)
      /\ \A k \in Keys : k \notin ToSet(results) =>
           Flight(requests, busy, <<>>)[k] = Flight(requests, busy, results)[k]
  BY <1>1, FlightCollected
<1> QED
  BY <1>1, <1>2 DEF Collected

(***************************************************************************)
(* Every step keeps the invariant.                                         *)
(***************************************************************************)

\* Nothing is cached, nothing is in flight.
LEMMA InitIInv == Init => IInv
<1> SUFFICES ASSUME Init PROVE IInv
  OBVIOUS
<1> USE DEF Init
<1>1. TypeOK
  <2>1. <<>> \in Seq(Keys) /\ ToSet(<<>>) = {} /\ IsInjective(<<>>) /\ DOMAIN <<>> = {}
    BY DEF ToSet, IsInjective
  <2>2. slot \in [Keys -> Slots] /\ Present(slot) = {}
    BY DEF Slots, Present
  <2>3. Cache \in CacheStates
    BY <2>1, <2>2 DEF Cache, CacheStates
  <2>4. display \in [Keys -> {"nothing", "placeholder", "picture"}]
    OBVIOUS
  <2> QED
    BY <2>1, <2>2, <2>3, <2>4 DEF TypeOK
<1>2. BooksBalance
  <2>1. Total(Costs(slot), Keys) = 0
    <3>1. slot \in [Keys -> Slots]
      BY DEF Slots
    <3>2. Whole(Costs(slot), Keys) /\ \A k \in Keys \ {} : Costs(slot)[k] = 0
      BY <3>1, CostsWhole DEF Cost
    <3>3. Total(Costs(slot), Keys) = Total(Costs(slot), {})
      BY <3>2, FiniteAssumption, TotalPart
    <3> QED
      BY <3>3, TotalStep, FS_EmptySet
  <2>2. \A k \in Keys : InFlight(k) = 0
    <3> SUFFICES ASSUME NEW k \in Keys PROVE InFlight(k) = 0
      OBVIOUS
    <3>1. {i \in DOMAIN requests : requests[i] = k} = {} /\ {i \in DOMAIN results : results[i] = k} = {}
      OBVIOUS
    <3>2. {w \in Workers : busy[w] = k} = {}
      BY NoKeyAssumption
    <3>3. /\ Cardinality({i \in DOMAIN requests : requests[i] = k}) = 0
          /\ Cardinality({i \in DOMAIN results : results[i] = k}) = 0
          /\ Cardinality({w \in Workers : busy[w] = k}) = 0
      BY <3>1, <3>2, FS_EmptySet, Zenon
    <3> QED
      BY <3>3 DEF InFlight
  <2>3. Total([k \in Keys |-> InFlight(k)], Keys) = 0
    <3> DEFINE f == [k \in Keys |-> InFlight(k)]
    <3>1. Whole(f, Keys) /\ \A k \in Keys \ {} : f[k] = 0
      BY <2>2 DEF Whole
    <3> HIDE DEF f
    <3>2. Total(f, Keys) = Total(f, {})
      BY <3>1, FiniteAssumption, TotalPart
    <3>3. Total(f, Keys) = 0
      BY <3>2, TotalStep, FS_EmptySet
    <3> QED
      BY <3>3 DEF f
  <2> QED
    BY <2>1, <2>3 DEF BooksBalance
<1>3. Served
  BY DEF Served
<1> QED
  BY <1>1, <1>2, <1>3 DEF IInv, ImageInv

\* A worker moves what is in flight from one place to another.
LEMMA WorkersKeep ==
  ASSUME IInv, NEW w \in Workers, TakeRequest(w) \/ SendResult(w)
  PROVE  IInv'
<1>1. Parts /\ Served
  BY InvParts DEF IInv
<1>2. AroundOK /\ Balanced(Cache) /\ Cache' = Cache /\ slot' = slot /\ outstanding' = outstanding
  BY <1>1 DEF Parts, TakeRequest, SendResult, Cache, cacheVars
<1>3. CASE TakeRequest(w)
  <2>1. /\ w \in up /\ busy[w] = NoKey /\ requests # <<>>
        /\ busy' = [busy EXCEPT ![w] = Head(requests)] /\ requests' = Tail(requests)
        /\ results' = results /\ up' = up
    BY <1>3 DEF TakeRequest, settings
  <2>2. /\ requests \in Seq(Keys) /\ results \in Seq(Keys)
        /\ busy \in [Workers -> Keys \cup {NoKey}]
    BY <1>2 DEF AroundOK
  <2>3. Flight(requests', busy', results') = Flight(requests, busy, results)
    <3>1. Flight(Tail(requests), [busy EXCEPT ![w] = Head(requests)], results)
            = Flight(requests, busy, results)
      BY <2>1, <2>2, FlightTaken
    <3> QED
      BY <2>1, <3>1
  <2>4. AroundOK'
    <3>1. /\ Head(requests) \in Keys /\ Tail(requests) \in Seq(Keys)
      BY <2>1, <2>2
    <3>2. busy' \in [Workers -> Keys \cup {NoKey}] /\ requests' \in Seq(Keys)
      BY <2>1, <2>2, <3>1
    <3> QED
      BY <1>2, <1>3, <2>1, <3>2 DEF AroundOK, TakeRequest, treeVars, frameVars, settings, cacheVars
  <2>5. Parts'
    BY <1>1, <1>2, <2>3, <2>4 DEF Parts, InFlightNow
  <2>6. Served'
    BY <1>1, <2>1, <2>2 DEF Served
  <2> QED
    BY <2>5, <2>6, PartsInv DEF IInv
<1>4. CASE SendResult(w)
  <2>1. /\ busy[w] # NoKey /\ results' = Append(results, busy[w])
        /\ busy' = [busy EXCEPT ![w] = NoKey]
        /\ requests' = requests /\ up' = up
    BY <1>4 DEF SendResult, settings
  <2>2. /\ requests \in Seq(Keys) /\ results \in Seq(Keys)
        /\ busy \in [Workers -> Keys \cup {NoKey}]
    BY <1>2 DEF AroundOK
  <2>3. Flight(requests', busy', results') = Flight(requests, busy, results)
    <3>1. Flight(requests, [busy EXCEPT ![w] = NoKey], Append(results, busy[w]))
            = Flight(requests, busy, results)
      BY <2>1, <2>2, FlightSent
    <3> QED
      BY <2>1, <3>1
  <2>4. AroundOK'
    <3>1. busy[w] \in Keys
      BY <2>1, <2>2
    <3>2. busy' \in [Workers -> Keys \cup {NoKey}] /\ results' \in Seq(Keys)
      BY <2>1, <2>2, <3>1
    <3> QED
      BY <1>2, <1>4, <2>1, <3>2 DEF AroundOK, SendResult, treeVars, frameVars, settings, cacheVars
  <2>5. Parts'
    BY <1>1, <1>2, <2>3, <2>4 DEF Parts, InFlightNow
  <2>6. Served'
    BY <1>1, <2>1, <2>2 DEF Served
  <2> QED
    BY <2>5, <2>6, PartsInv DEF IInv
<1> QED
  BY <1>3, <1>4

\* The application changes what it shows, or drops an entry.
LEMMA ApplicationKeeps ==
  ASSUME IInv, Change \/ EvictKey
  PROVE  IInv'
<1>1. Parts /\ Served
  BY InvParts DEF IInv
<1>2. /\ Balanced(Cache) /\ AroundOK
      /\ requests' = requests /\ busy' = busy /\ results' = results /\ up' = up
      /\ outstanding' = outstanding
  BY <1>1 DEF Parts, Change, EvictKey, cacheVars, channelVars, settings
<1>3. InFlightNow' = InFlightNow
  BY <1>2 DEF InFlightNow
<1>4. Served'
  BY <1>1, <1>2 DEF Served
<1>5. CASE Change
  <2>1. PICK show \in SUBSET Keys : /\ wanted' = show
                                    /\ dirty' = dirty \cup (show \ wanted) \cup (wanted \ show)
    BY <1>5 DEF Change
  <2>2. AroundOK'
    BY <1>2, <1>5, <2>1 DEF AroundOK, Change, cacheVars, settings, channelVars
  <2>3. Cache' = Cache /\ slot' = slot
    BY <1>5 DEF Change, Cache, cacheVars
  <2>4. Parts'
    BY <1>1, <1>2, <1>3, <2>2, <2>3 DEF Parts
  <2> QED
    BY <1>4, <2>4, PartsInv DEF IInv
<1>6. CASE EvictKey
  <2>1. PICK k \in Keys : LET c == Without[Cache][k]
                          IN /\ slot' = c.slot /\ order' = c.order /\ bytes' = c.bytes
                             /\ held' = c.held
    BY <1>6 DEF EvictKey
  <2> DEFINE c == Without[Cache][k]
  <2>2. Balanced(c)
    BY <1>2, WithoutBalanced
  <2>3. Cache \in CacheStates /\ slot \in [Keys -> Slots] /\ Cache.slot = slot
    BY <1>2 DEF Balanced, CacheStates, Cache
  <2>4. c.slot = [Cache.slot EXCEPT ![k] = "absent"]
    BY <2>3, WithoutOne
  <2>5. slot' = c.slot /\ order' = c.order /\ bytes' = c.bytes /\ held' = c.held
    BY <2>1
  <2> HIDE DEF c
  <2>6. Balanced(Cache')
    <3>1. c.held \in SUBSET {x \in Keys : c.slot[x] = "image"}
      BY <2>2 DEF Balanced
    <3>2. Cache' = [slot |-> c.slot, order |-> c.order, bytes |-> c.bytes, held |-> c.held]
      BY <2>5 DEF Cache
    <3> QED
      BY <2>2, <3>1, <3>2, Rehold
  <2>7. \A x \in Keys : slot'[x] = "decoding" => slot[x] = "decoding"
    BY <2>3, <2>4, <2>5
  <2>8. AroundOK'
    BY <1>2, <1>6 DEF AroundOK, EvictKey, channelVars, treeVars, frameVars, settings
  <2>9. Parts'
    BY <1>1, <1>2, <1>3, <2>6, <2>7, <2>8 DEF Parts
  <2> QED
    BY <1>4, <2>9, PartsInv DEF IInv
<1> QED
  BY <1>5, <1>6

\* The beginning of a frame and its end collect.
LEMMA FramesKeep ==
  ASSUME IInv, BeginBuild \/ EndBuild
  PROVE  IInv'
<1>1. Parts /\ Served /\ AroundOK
  BY InvParts DEF IInv, Parts
<1>2. PICK c, b : /\ Collected(b, c) /\ b.slot = slot /\ Leave(c) /\ held' \subseteq c.held
  <2>1. CASE BeginBuild
    BY <1>1, <2>1, FrameCollects DEF Cache
  <2>2. CASE EndBuild
    <3>1. PICK c, h : /\ Collected([Cache EXCEPT !.held = h], c)
                      /\ Leave(c) /\ held' = c.held \intersect wanted
      BY <1>1, <2>2, FrameCollects
    <3>2. [Cache EXCEPT !.held = h].slot = slot
      BY DEF Cache
    <3> QED
      BY <3>1, <3>2
  <2> QED
    BY <2>1, <2>2
<1>3. Balanced(Cache')
  <2>1. Balanced(c) /\ held' \subseteq {k \in Keys : c.slot[k] = "image"}
    BY <1>2 DEF Collected, Balanced
  <2> QED
    BY <1>2, <2>1, LeaveBalanced
<1>4. /\ requests' = requests /\ busy' = busy /\ results' = <<>> /\ up' = up
      /\ outstanding' = outstanding - Len(results) /\ slot' = c.slot
  BY <1>2 DEF BeginBuild, EndBuild, Leave, settings
<1>5. /\ outstanding' = Total(InFlightNow', Keys)
      /\ \A k \in Keys : slot'[k] = "decoding" => InFlightNow'[k] > 0
  <2>1. /\ Total(Flight(requests, busy, <<>>), Keys) = outstanding - Len(results)
        /\ \A k \in Keys : c.slot[k] = "decoding" => Flight(requests, busy, <<>>)[k] > 0
    BY <1>1, <1>2, CollectedBooks
  <2>2. InFlightNow' = Flight(requests, busy, <<>>)
    BY <1>4 DEF InFlightNow
  <2> QED
    BY <1>4, <2>1, <2>2
<1>6. AroundOK'
  <2>1. <<>> \in Seq(Keys)
    OBVIOUS
  <2>2. CASE BeginBuild
    <3>1. todo' \subseteq wanted' /\ wanted' = wanted /\ dirty' = {} /\ phase' = "building"
          /\ frame' = FALSE /\ arrived' = FALSE /\ rebuilt' \in BOOLEAN
      BY <2>2 DEF BeginBuild, ImagesArrived
    <3>2. display' \in [Keys -> {"nothing", "placeholder", "picture"}]
      <4>1. display' = [k \in Keys |-> IF k \in wanted THEN display[k] ELSE "nothing"]
        BY <2>2 DEF BeginBuild
      <4> QED
        BY <1>1, <4>1 DEF AroundOK
    <3> QED
      BY <1>1, <1>4, <2>1, <2>2, <3>1, <3>2 DEF AroundOK, BeginBuild, settings
  <2>3. CASE EndBuild
    <3>1. /\ todo = {} /\ phase' = "idle" /\ rebuilt' = FALSE
          /\ arrived' = (arrived \/ results # <<>>)
          /\ frame' = (frame \/ rebuilt \/ outstanding' > 0)
          /\ UNCHANGED <<requests, busy, treeVars, todo, changes, settings>>
      BY <2>3 DEF EndBuild
    <3>2. arrived' \in BOOLEAN /\ frame' \in BOOLEAN
      BY <3>1
    <3> QED
      BY <1>1, <1>4, <2>1, <3>1, <3>2 DEF AroundOK, treeVars, settings
  <2> QED
    BY <2>2, <2>3
<1>7. Parts'
  BY <1>3, <1>5, <1>6 DEF Parts
<1>8. Served'
  BY <1>1, <1>4 DEF Served
<1> QED
  BY <1>7, <1>8, PartsInv DEF IInv

\* The build of one widget collects and then finds, asks or decodes.
LEMMA BuildKeeps ==
  ASSUME IInv, NEW k \in Keys, BuildOne(k)
  PROVE  IInv'
<1>1. Parts /\ Served /\ AroundOK
  BY InvParts DEF IInv, Parts
<1>2. PICK c, d, asked :
        /\ Collected(Cache, c) /\ asked \in BOOLEAN
        /\ Left(k, c, d, asked) /\ Return(k, d)
        /\ requests' = IF asked THEN Append(requests, k) ELSE requests
        /\ outstanding' = outstanding - Len(results) + (IF asked THEN 1 ELSE 0)
        /\ asked => up # {}
  BY <1>1, BuildLeaves
<1>3. /\ Leave(d)
      /\ held' = d.held \cup (IF d.slot[k] = "image" THEN {k} ELSE {})
      /\ display' = [display EXCEPT ![k] = IF d.slot[k] = "image" THEN "picture" ELSE "placeholder"]
  BY <1>2 DEF Return
<1>4. Balanced(Cache')
  <2>1. Balanced(d) /\ held' \subseteq {x \in Keys : d.slot[x] = "image"}
    BY <1>2, <1>3 DEF Left, Balanced
  <2> QED
    BY <1>3, <2>1, LeaveBalanced
<1>5. /\ busy' = busy /\ results' = <<>> /\ up' = up /\ slot' = d.slot
  BY <1>3 DEF BuildOne, Leave, settings
<1>6. /\ Total(Flight(requests, busy, <<>>), Keys) = outstanding - Len(results)
      /\ \A x \in Keys : c.slot[x] = "decoding" => Flight(requests, busy, <<>>)[x] > 0
  BY <1>1, <1>2, CollectedBooks DEF Cache
<1>7. requests \in Seq(Keys) /\ <<>> \in Seq(Keys)
  BY <1>1 DEF AroundOK
<1>8. \A x \in Keys : d.slot[x] = "decoding" => c.slot[x] = "decoding" \/ (asked /\ x = k)
  BY <1>2 DEF Left
<1>9. /\ outstanding' = Total(InFlightNow', Keys)
      /\ \A x \in Keys : slot'[x] = "decoding" => InFlightNow'[x] > 0
  <2>1. CASE asked
    <3>1. InFlightNow' = Flight(Append(requests, k), busy, <<>>)
      BY <1>2, <1>5, <2>1 DEF InFlightNow
    <3>2. /\ Total(Flight(Append(requests, k), busy, <<>>), Keys) = Total(Flight(requests, busy, <<>>), Keys) + 1
          /\ Flight(Append(requests, k), busy, <<>>)[k] > 0
          /\ \A x \in Keys : Flight(requests, busy, <<>>)[x] > 0 => Flight(Append(requests, k), busy, <<>>)[x] > 0
      BY <1>7, FlightAsked
    <3> QED
      BY <1>2, <1>5, <1>6, <1>8, <2>1, <3>1, <3>2
  <2>2. CASE ~asked
    <3>1. InFlightNow' = Flight(requests, busy, <<>>)
      BY <1>2, <1>5, <2>2 DEF InFlightNow
    <3>2. Total(Flight(requests, busy, <<>>), Keys) \in Nat
      BY <1>7, FlightTotal
    <3>3. outstanding' = outstanding - Len(results) + 0
      BY <1>2, <2>2
    <3>4. outstanding' = Total(InFlightNow', Keys)
      BY <1>6, <3>1, <3>2, <3>3
    <3> QED
      BY <1>5, <1>6, <1>8, <2>2, <3>1, <3>4
  <2> QED
    BY <1>2, <2>1, <2>2
<1>10. AroundOK'
  <2>1. requests' \in Seq(Keys)
    BY <1>2, <1>7, AppendProperties
  <2>2. display' \in [Keys -> {"nothing", "placeholder", "picture"}]
    BY <1>1, <1>3 DEF AroundOK
  <2>3. /\ phase = "building" /\ todo' = todo \ {k} /\ arrived' = (arrived \/ results # <<>>)
        /\ UNCHANGED <<busy, wanted, dirty, frame, phase, rebuilt, changes, settings>>
    BY DEF BuildOne
  <2> QED
    BY <1>1, <1>5, <1>7, <2>1, <2>2, <2>3 DEF AroundOK, settings
<1>11. Parts'
  BY <1>4, <1>9, <1>10 DEF Parts
<1>12. Served'
  BY <1>1, <1>2, <1>5 DEF Served
<1> QED
  BY <1>11, <1>12, PartsInv DEF IInv

\* Every step keeps the inductive invariant.
LEMMA IInvStep == IInv /\ [Next]_vars => IInv'
<1> SUFFICES ASSUME IInv, [Next]_vars PROVE IInv'
  OBVIOUS
<1>1. CASE WorkerStep
  BY <1>1, WorkersKeep DEF WorkerStep
<1>2. CASE Change \/ EvictKey
  BY <1>2, ApplicationKeeps
<1>3. CASE FrameStep
  BY <1>3, FramesKeep, BuildKeeps DEF FrameStep
<1>4. CASE UNCHANGED vars
  BY <1>4 DEF vars, cacheVars, channelVars, treeVars, frameVars, settings, IInv, ImageInv,
              TypeOK, Cache, BooksBalance, InFlight, Served
<1> QED
  BY <1>1, <1>2, <1>3, <1>4 DEF Next

\* Whatever is asked for, arrives, is replaced or evicted, in whatever order
\* the workers answer: the cache's totals are what they stand for, and whatever
\* is decoding has a decode coming (ImageCache::bytes, outstanding, evict).
THEOREM BooksAreKept == Spec => []ImageInv
<1>1. IInv => ImageInv
  BY DEF IInv
<1> QED
  BY InitIInv, IInvStep, <1>1, PTL DEF Spec

(***************************************************************************)
(* Eviction.                                                               *)
(***************************************************************************)

\* A step that files an arrival leaves no more than it must.
LEMMA StepStaysWithin ==
  ASSUME IInv, Next, results # <<>>, results' = <<>>, Full',
         NEW x \in Keys
  PROVE  slot'[x] # "failed" /\ (slot'[x] = "image" => x \in held)
<1>1. Parts /\ Served /\ AroundOK
  BY InvParts DEF IInv, Parts
<1>2. PICK d : /\ Balanced(d) /\ slot' = d.slot /\ d.held \subseteq held
               /\ ~OverLimit(d) \/ Evictable(d) = {}
  <2>1. CASE WorkerStep
    <3>1. PICK w \in Workers : TakeRequest(w) \/ SendResult(w)
      BY <2>1 DEF WorkerStep
    <3>2. results' = results \/ (results' = Append(results, busy[w]) /\ busy[w] \in Keys)
      BY <1>1, <3>1 DEF TakeRequest, SendResult, AroundOK
    <3>3. results \in Seq(Keys)
      BY <1>1 DEF AroundOK
    <3> QED
      BY <3>2, <3>3
  <2>2. CASE Change \/ EvictKey
    BY <2>2 DEF Change, EvictKey, channelVars
  <2>3. CASE BeginBuild
    <3>1. PICK c : Collected(Cache, c) /\ Leave(c)
      BY <1>1, <2>3, FrameCollects
    <3> QED
      BY <3>1 DEF Collected, Leave, Cache
  <2>4. CASE EndBuild
    <3>1. PICK c, h : /\ h \in {held, held \intersect wanted}
                      /\ Collected([Cache EXCEPT !.held = h], c) /\ Leave(c)
      BY <1>1, <2>4, FrameCollects
    <3>2. [Cache EXCEPT !.held = h].held = h
      BY DEF Cache
    <3>3. c.held \subseteq h
      BY <3>1, <3>2 DEF Collected
    <3> QED
      BY <3>1, <3>3 DEF Collected, Leave
  <2>5. ASSUME NEW k \in Keys, BuildOne(k)
        PROVE  \E d : /\ Balanced(d) /\ slot' = d.slot /\ d.held \subseteq held
                      /\ ~OverLimit(d) \/ Evictable(d) = {}
    <3>1. PICK c, d, asked : Collected(Cache, c) /\ Left(k, c, d, asked) /\ Return(k, d)
      BY <1>1, <2>5, BuildLeaves
    <3>2. slot' = d.slot
      BY <3>1 DEF Return, Leave
    <3>3. Balanced(d) /\ d.held \subseteq c.held /\ (~OverLimit(d) \/ Evictable(d) = {})
      BY <3>1 DEF Left
    <3>4. c.held \subseteq held
      BY <3>1 DEF Collected, Cache
    <3> QED
      BY <3>2, <3>3, <3>4
  <2> QED
    BY <2>1, <2>2, <2>3, <2>4, <2>5 DEF Next, FrameStep
<1>3. OverLimit(d)
  <2>1. \/ Cardinality({k \in Keys : d.slot[k] \in {"image", "failed"}}) > MaxEntries
        \/ Total(Bytes, {k \in Keys : d.slot[k] = "image"}) > MaxBytes
    BY <1>2 DEF Full, Images
  <2> QED
    BY <1>2, <2>1, FullIsOver
<1>4. x \notin Evictable(d)
  BY <1>2, <1>3
<1> QED
  BY <1>2, <1>4 DEF Evictable, Finished

\* A step drops nothing that is on screen.
LEMMA StepKeepsDrawn ==
  ASSUME IInv, Next, NEW x \in held \intersect wanted, slot'[x] = "absent"
  PROVE  EvictKey \/ x \in ToSet(results)
<1>1. Parts /\ Served /\ AroundOK
  BY InvParts DEF IInv, Parts
<1>2. x \in Keys /\ slot[x] = "image"
  BY <1>1 DEF Parts, Balanced, Cache
<1> SUFFICES ASSUME ~EvictKey, x \notin ToSet(results) PROVE FALSE
  OBVIOUS
<1>3. CASE WorkerStep \/ Change
  <2>1. slot' = slot
    BY <1>3 DEF WorkerStep, TakeRequest, SendResult, Change, cacheVars
  <2> QED
    BY <1>2, <2>1
<1>4. ASSUME NEW d, Balanced(d), x \in d.held, slot' = d.slot PROVE FALSE
  BY <1>4 DEF Balanced
<1>5. CASE BeginBuild
  <2>1. PICK c : Collected(Cache, c) /\ Leave(c)
    BY <1>1, <1>5, FrameCollects
  <2>2. x \in c.held /\ Balanced(c) /\ slot' = c.slot
    BY <2>1 DEF Collected, Leave, Cache
  <2> QED
    BY <1>4, <2>2
<1>6. CASE EndBuild
  <2>1. PICK c, h : /\ h \in {held, held \intersect wanted}
                    /\ Collected([Cache EXCEPT !.held = h], c) /\ Leave(c)
    BY <1>1, <1>6, FrameCollects
  <2>2. [Cache EXCEPT !.held = h].held = h /\ x \in h
    BY <2>1 DEF Cache
  <2>3. x \in c.held /\ Balanced(c) /\ slot' = c.slot
    BY <2>1, <2>2 DEF Collected, Leave
  <2> QED
    BY <1>4, <2>3
<1>7. ASSUME NEW k \in Keys, BuildOne(k) PROVE FALSE
  <2>1. PICK c, d, asked : Collected(Cache, c) /\ Left(k, c, d, asked) /\ Return(k, d)
    BY <1>1, <1>7, BuildLeaves
  <2>2. x \in c.held
    BY <2>1 DEF Collected, Cache
  <2>3. x \in d.held /\ Balanced(d) /\ slot' = d.slot
    BY <2>1, <2>2 DEF Left, Return, Leave
  <2> QED
    BY <1>4, <2>3
<1> QED
  BY <1>3, <1>5, <1>6, <1>7 DEF Next, FrameStep

\* Whatever its limits and the images: filing an arrival leaves the cache inside
\* them or with nothing in it that may go, and it drops nothing of its own
\* accord that is on screen (evict, is_evictable).
THEOREM EvictionIsRight == Spec => EvictsTheRight
<1>1. IInv /\ [Next]_vars =>
        [results # <<>> /\ results' = <<>> /\ Full' =>
           \A k \in Keys : slot'[k] # "failed" /\ (slot'[k] = "image" => k \in held)]_vars
  BY StepStaysWithin
<1>2. IInv /\ [Next]_vars =>
        [\A k \in held \intersect wanted :
           slot'[k] = "absent" => EvictKey \/ k \in ToSet(results)]_vars
  BY StepKeepsDrawn
<1> QED
  BY InitIInv, IInvStep, <1>1, <1>2, PTL DEF Spec, EvictsTheRight, WithinLimits, DrawnStays
=============================================================================
