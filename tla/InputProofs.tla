----------------------------- MODULE InputProofs -----------------------------
(***************************************************************************)
(* Proofs about where the keyboard is and what becomes of a press, for any *)
(* page and any screen.                                                    *)
(*                                                                         *)
(* First the walks over lists that both components are written with, by    *)
(* counting: Only by the places of the items it keeps, FlattenSeq by the   *)
(* lists it joins.  From then on the proof speaks of sets.                 *)
(*                                                                         *)
(* Focus, for any pages, any modals with any lists of fields, any fields   *)
(* that ask for the keyboard and any number of moves: the registry is      *)
(* sound (FocusInv), the keyboard stays where the user is                  *)
(* (KeyboardIsWhereTheUserIs), a frame moves it only as it should          *)
(* (FramesFocusRightly), and the highlight goes with it                    *)
(* (HighlightFollowsTheKeyboard), whatever handlers do with it.  The       *)
(* invariant says what a build that is still to come will find: BuildInv   *)
(* and OrderInv how the modals that are up differ from the ones that were  *)
(* built, EntriesInv what a registered node's element tells of where it    *)
(* was built, PlaceInv where the node with the keyboard lies (Placed),     *)
(* LitInv what the news on their way will make of the highlight.           *)
(*                                                                         *)
(* Gestures, for any fingers, regions and times: what an arena is left     *)
(* with by each operation on it (Sound verdicts), that the state is well   *)
(* formed and a pinch two fingers (PinchHasTwoFingers), that highlights    *)
(* end with what they highlight (Lit and Ruled), and that every press is   *)
(* told once and no tap is lost (PressesAreTold): Tells says what is told  *)
(* of a press by what the press is, TapWaits what a tap finds that waits   *)
(* for a second one.                                                       *)
(***************************************************************************)
EXTENDS Focus, Gestures, SequenceTheorems, FiniteSetTheorems, WellFoundedInduction, TLAPS
-----------------------------------------------------------------------------
(* What the walks over lists give.                                         *)

\* Counting: a set of naturals with 0 and every successor has them all.
LEMMA Counting ==
  ASSUME NEW S \in SUBSET Nat, 0 \in S, \A n \in S : n + 1 \in S
  PROVE  S = Nat
<1> DEFINE R == {ss \in Nat \X Nat : ss[1] < ss[2]}
           T == Nat \ S
<1>1. IsWellFoundedOn(R, Nat)
  BY NatLessThanWellFounded DEF OpToRel
<1> SUFFICES ASSUME T # {} PROVE FALSE
  OBVIOUS
<1>2. PICK x \in T : \A y \in T : <<y, x>> \notin R
  <2> HIDE DEF R, T
  <2>1. T \subseteq Nat
    BY DEF T
  <2> QED
    BY <1>1, <2>1, WFMin, Zenon
<1>3. x # 0
  OBVIOUS
<1>4. x - 1 \in T
  <2>1. x - 1 \in S => (x - 1) + 1 \in S
    OBVIOUS
  <2> QED
    BY <1>3, <2>1
<1>5. <<x - 1, x>> \in R
  BY <1>3, <1>4
<1> QED
  BY <1>2, <1>4, <1>5

\* f is the walk of Only over the first n items of a list.
IsWalk(f, list, S, n) ==
  f = [m \in 0..n |->
         IF m = 0 THEN <<>>
         ELSE IF list[m] \in S THEN Append(f[m - 1], list[m]) ELSE f[m - 1]]

\* There is a walk over any number of items.
LEMMA WalkIsThere ==
  ASSUME NEW list, NEW S
  PROVE  \A n \in Nat : \E f : IsWalk(f, list, S, n)
<1> DEFINE Extend(f, m) == IF m = 0 THEN <<>>
                           ELSE IF list[m] \in S THEN Append(f[m - 1], list[m]) ELSE f[m - 1]
           There == {n \in Nat : \E f : IsWalk(f, list, S, n)}
<1>1. 0 \in There
  <2>1. IsWalk([m \in 0..0 |-> <<>>], list, S, 0)
    BY DEF IsWalk
  <2> QED
    BY <2>1
<1>2. ASSUME NEW n \in There PROVE n + 1 \in There
  <2>1. PICK f : IsWalk(f, list, S, n)
    OBVIOUS
  <2> DEFINE g == [m \in 0..(n + 1) |-> IF m = n + 1 THEN Extend(f, m) ELSE f[m]]
  <2>2. \A m \in 0..(n + 1) : g[m] = Extend(g, m)
    <3> TAKE m \in 0..(n + 1)
    <3>1. CASE m = n + 1
      <4>1. g[m] = Extend(f, m) /\ g[m - 1] = f[m - 1]
        BY <3>1
      <4> QED
        BY <3>1, <4>1
    <3>2. CASE m # n + 1
      <4>1. m \in 0..n /\ g[m] = f[m]
        BY <3>2
      <4>2. f[m] = Extend(f, m)
        BY <2>1, <4>1 DEF IsWalk
      <4>3. m # 0 => g[m - 1] = f[m - 1]
        BY <4>1
      <4> QED
        BY <4>1, <4>2, <4>3
    <3> QED
      BY <3>1, <3>2
  <2>3. g = [m \in 0..(n + 1) |-> Extend(g, m)]
    <3> HIDE DEF Extend
    <3> QED
      BY <2>2
  <2>4. IsWalk(g, list, S, n + 1)
    <3> HIDE DEF g
    <3> QED
      BY <2>3 DEF IsWalk
  <2> QED
    BY <2>4
<1>3. There = Nat
  BY <1>1, <1>2, Counting
<1> QED
  BY <1>3

\* What Only computes, item by item.
LEMMA OnlyWalk ==
  ASSUME NEW T, NEW list \in Seq(T), NEW S
  PROVE  \E w : /\ w[0] = <<>> /\ Only(list, S) = w[Len(list)]
                /\ \A n \in 1..Len(list) :
                     w[n] = IF list[n] \in S THEN Append(w[n - 1], list[n]) ELSE w[n - 1]
<1> DEFINE w == CHOOSE f : IsWalk(f, list, S, Len(list))
<1>1. Len(list) \in Nat
  OBVIOUS
<1>2. IsWalk(w, list, S, Len(list))
  <2>1. \E f : IsWalk(f, list, S, Len(list))
    BY <1>1, WalkIsThere
  <2> QED
    BY <2>1
<1>3. Only(list, S) = w[Len(list)]
  BY DEF Only, IsWalk
<1> HIDE DEF w
<1>4. w[0] = <<>>
  BY <1>1, <1>2 DEF IsWalk
<1>5. ASSUME NEW n \in 1..Len(list)
      PROVE  w[n] = IF list[n] \in S THEN Append(w[n - 1], list[n]) ELSE w[n - 1]
  <2>1. n \in 0..Len(list) /\ n # 0
    BY <1>1
  <2> QED
    BY <1>2, <2>1 DEF IsWalk
<1> QED
  BY <1>3, <1>4, <1>5

\* Where the items of Only come from: an increasing choice of places.
Places(h, list, chosen) ==
  /\ h \in [1..Len(chosen) -> 1..Len(list)]
  /\ \A i \in 1..Len(chosen) : i <= h[i] /\ chosen[i] = list[h[i]]
  /\ \A i, j \in 1..Len(chosen) : i < j => h[i] < h[j]

\* Only keeps the items in the set and their order.
LEMMA OnlyPlaces ==
  ASSUME NEW T, NEW list \in Seq(T), NEW S
  PROVE  /\ Only(list, S) \in Seq(T)
         /\ Range(Only(list, S)) = Range(list) \intersect S
         /\ \E h : Places(h, list, Only(list, S))
<1>1. PICK w : /\ w[0] = <<>> /\ Only(list, S) = w[Len(list)]
               /\ \A n \in 1..Len(list) :
                    w[n] = IF list[n] \in S THEN Append(w[n - 1], list[n]) ELSE w[n - 1]
  BY OnlyWalk, SMTT(30)
<1> DEFINE Found(n) == \A k \in 1..n : list[k] \in S => \E i \in 1..Len(w[n]) : w[n][i] = list[k]
           Good(n, h) == /\ w[n] \in Seq(T) /\ Found(n)
                         /\ Places(h, list, w[n])
                         /\ \A i \in 1..Len(w[n]) : h[i] <= n /\ w[n][i] \in S
                         /\ Len(w[n]) <= n
           All == {n \in Nat : n <= Len(list) => \E h : Good(n, h)}
<1>2. Len(list) \in Nat /\ \A k \in 1..Len(list) : list[k] \in T
  OBVIOUS
<1>3. 0 \in All
  <2>1. Good(0, [i \in 1..0 |-> 0])
    BY <1>1 DEF Places
  <2> QED
    BY <2>1
<1>4. ASSUME NEW n \in All PROVE n + 1 \in All
  <2> SUFFICES ASSUME n + 1 <= Len(list) PROVE \E h : Good(n + 1, h)
    OBVIOUS
  <2>1. PICK h : Good(n, h)
    BY <1>2
  <2>2. n + 1 \in 1..Len(list) /\ (n + 1) - 1 = n
    BY <1>2
  <2>3. CASE list[n + 1] \notin S
    <3>1. w[n + 1] = w[n]
      BY <1>1, <2>2, <2>3
    <3>2. Found(n + 1)
      <4> TAKE k \in 1..(n + 1)
      <4>1. k = n + 1 \/ k \in 1..n
        BY <1>2
      <4> QED
        BY <2>1, <2>3, <3>1, <4>1
    <3>3. \A i \in 1..Len(w[n]) : h[i] <= n + 1 /\ w[n][i] \in S
      <4> TAKE i \in 1..Len(w[n])
      <4>1. h[i] <= n /\ h[i] \in 1..Len(list) /\ w[n][i] \in S
        BY <2>1 DEF Places
      <4> QED
        BY <1>2, <4>1
    <3>4. Good(n + 1, h)
      <4> HIDE DEF Found
      <4> QED
        BY <1>2, <2>1, <3>1, <3>2, <3>3
    <3> QED
      BY <3>4
  <2>4. CASE list[n + 1] \in S
    <3> DEFINE m == Len(w[n])
               g == [i \in 1..(m + 1) |-> IF i = m + 1 THEN n + 1 ELSE h[i]]
    <3>1. w[n + 1] = Append(w[n], list[n + 1])
      BY <1>1, <2>2, <2>4
    <3>2. m \in Nat /\ w[n] \in Seq(T) /\ list[n + 1] \in T
      BY <1>2, <2>1, <2>2
    <3>3. /\ w[n + 1] \in Seq(T) /\ Len(w[n + 1]) = m + 1
          /\ w[n + 1][m + 1] = list[n + 1] /\ \A i \in 1..m : w[n + 1][i] = w[n][i]
      BY <3>1, <3>2, AppendProperties
    <3>4. Found(n + 1)
      <4> SUFFICES ASSUME NEW k \in 1..(n + 1), list[k] \in S
                   PROVE  \E i \in 1..(m + 1) : w[n + 1][i] = list[k]
        BY <3>3
      <4>1. CASE k = n + 1
        BY <3>2, <3>3, <4>1
      <4>2. CASE k \in 1..n
        <5>1. PICK i \in 1..m : w[n][i] = list[k]
          BY <2>1, <4>2
        <5> QED
          BY <3>2, <3>3, <5>1
      <4> QED
        BY <4>1, <4>2
    <3>5. Places(g, list, w[n + 1])
      <4>1. g \in [1..(m + 1) -> 1..Len(list)]
        BY <2>1, <2>2, <3>2 DEF Places
      <4>2. \A i \in 1..(m + 1) : i <= g[i] /\ w[n + 1][i] = list[g[i]]
        BY <2>1, <3>2, <3>3 DEF Places
      <4>3. \A i, j \in 1..(m + 1) : i < j => g[i] < g[j]
        <5> TAKE i, j \in 1..(m + 1)
        <5>1. i \in 1..m => h[i] <= n /\ h[i] \in 1..Len(list)
          BY <2>1 DEF Places
        <5>2. i \in 1..m /\ j \in 1..m /\ i < j => h[i] < h[j]
          BY <2>1 DEF Places
        <5>3. (i \in 1..m /\ g[i] = h[i]) \/ (i = m + 1 /\ g[i] = n + 1)
          BY <3>2
        <5>4. (j \in 1..m /\ g[j] = h[j]) \/ (j = m + 1 /\ g[j] = n + 1)
          BY <3>2
        <5> HIDE DEF g
        <5> QED
          BY <3>2, <5>1, <5>2, <5>3, <5>4
      <4> QED
        BY <4>1, <4>2, <4>3, <3>3 DEF Places
    <3>6. \A i \in 1..Len(w[n + 1]) : g[i] <= n + 1 /\ w[n + 1][i] \in S
      <4> SUFFICES ASSUME NEW i \in 1..(m + 1)
                   PROVE  g[i] <= n + 1 /\ w[n + 1][i] \in S
        BY <3>3
      <4>1. CASE i = m + 1
        BY <2>4, <3>3, <4>1
      <4>2. CASE i \in 1..m
        <5>1. h[i] <= n /\ h[i] \in 1..Len(list) /\ w[n][i] \in S /\ g[i] = h[i]
          BY <2>1, <3>2, <4>2 DEF Places
        <5> QED
          BY <3>3, <4>2, <5>1
      <4> QED
        BY <4>1, <4>2, <3>2
    <3> HIDE DEF g
    <3>7. Good(n + 1, g)
      BY <2>1, <3>2, <3>3, <3>4, <3>5, <3>6
    <3> QED
      BY <3>7
  <2> QED
    BY <2>3, <2>4
<1>5. All = Nat
  <2> HIDE DEF Good
  <2> QED
    BY <1>3, <1>4, Counting
<1>6. PICK h : Good(Len(list), h)
  BY <1>2, <1>5
<1> DEFINE o == Only(list, S)
<1>7. o = w[Len(list)]
  BY <1>1
<1>8. Range(o) = Range(list) \intersect S
  <2>1. o \in Seq(T) /\ DOMAIN o = 1..Len(o) /\ DOMAIN list = 1..Len(list)
    BY <1>6, <1>7
  <2>2. ASSUME NEW i \in 1..Len(o) PROVE o[i] \in Range(list) /\ o[i] \in S
    <3>1. h[i] \in 1..Len(list) /\ o[i] = list[h[i]] /\ o[i] \in S
      BY <1>6, <1>7 DEF Places
    <3> QED
      BY <2>1, <3>1 DEF Range
  <2>3. ASSUME NEW k \in 1..Len(list), list[k] \in S PROVE list[k] \in Range(o)
    <3>1. PICK i \in 1..Len(o) : o[i] = list[k]
      BY <1>6, <1>7, <2>3
    <3> QED
      BY <2>1, <3>1 DEF Range
  <2> HIDE DEF o
  <2> QED
    BY <2>1, <2>2, <2>3 DEF Range
<1> QED
  BY <1>6, <1>7, <1>8

\* Only of a list that loses its last item.
LEMMA OnlyFront ==
  ASSUME NEW T, NEW list \in Seq(T), NEW S, list # <<>>, list[Len(list)] \notin S,
         \A k \in 1..(Len(list) - 1) : list[k] \in S
  PROVE  Only(list, S) = [k \in 1..(Len(list) - 1) |-> list[k]]
<1>1. PICK w : /\ w[0] = <<>> /\ Only(list, S) = w[Len(list)]
               /\ \A n \in 1..Len(list) :
                    w[n] = IF list[n] \in S THEN Append(w[n - 1], list[n]) ELSE w[n - 1]
  BY OnlyWalk, SMTT(30)
<1> DEFINE N == Len(list) - 1
           All == {n \in Nat : n <= N => w[n] = [k \in 1..n |-> list[k]]}
<1>2. N \in Nat /\ Len(list) = N + 1 /\ \A k \in 1..Len(list) : list[k] \in T
  OBVIOUS
<1>3. 0 \in All
  BY <1>1
<1>4. ASSUME NEW n \in All PROVE n + 1 \in All
  <2> SUFFICES ASSUME n + 1 <= N PROVE w[n + 1] = [k \in 1..(n + 1) |-> list[k]]
    OBVIOUS
  <2>1. n + 1 \in 1..Len(list) /\ (n + 1) - 1 = n /\ list[n + 1] \in S
    BY <1>2
  <2>2. w[n] = [k \in 1..n |-> list[k]] /\ w[n] \in Seq(T) /\ Len(w[n]) = n
    BY <1>2
  <2>3. w[n + 1] = Append(w[n], list[n + 1])
    BY <1>1, <2>1
  <2> QED
    BY <1>2, <2>1, <2>2, <2>3
<1>5. All = Nat
  BY <1>3, <1>4, Counting
<1>6. w[N] = [k \in 1..N |-> list[k]]
  <2>1. N \in All
    BY <1>2, <1>5
  <2> QED
    BY <2>1
<1>7. w[Len(list)] = w[N]
  <2>1. Len(list) \in 1..Len(list) /\ Len(list) - 1 = N
    BY <1>2
  <2> QED
    BY <1>1, <2>1
<1> QED
  BY <1>1, <1>6, <1>7

\* Two lists that repeat nothing and share nothing, one after the other.
LEMMA JoinInjective ==
  ASSUME NEW T, NEW p \in Seq(T), NEW q \in Seq(T),
         IsInjective(p), IsInjective(q), Range(p) \intersect Range(q) = {}
  PROVE  IsInjective(p \o q)
<1>1. /\ Len(p) \in Nat /\ Len(q) \in Nat
      /\ DOMAIN p = 1..Len(p) /\ DOMAIN q = 1..Len(q)
  OBVIOUS
<1>2. ASSUME NEW i \in 1..(Len(p) + Len(q)), NEW j \in 1..(Len(p) + Len(q)),
             (p \o q)[i] = (p \o q)[j]
      PROVE  i = j
  <2>1. ASSUME NEW x \in 1..(Len(p) + Len(q))
        PROVE  \/ x \in 1..Len(p) /\ (p \o q)[x] = p[x]
               \/ /\ x - Len(p) \in 1..Len(q)
                  /\ (p \o q)[x] = q[x - Len(p)]
    BY <1>1, ConcatProperties
  <2>2. ASSUME NEW x \in 1..Len(p), NEW y \in 1..Len(q) PROVE p[x] # q[y]
    BY <1>1 DEF Range
  <2>3. CASE i \in 1..Len(p) /\ j \in 1..Len(p)
    BY <1>1, <1>2, <2>1, <2>3 DEF IsInjective
  <2>4. CASE i - Len(p) \in 1..Len(q) /\ j - Len(p) \in 1..Len(q)
    <3>1. q[i - Len(p)] = q[j - Len(p)]
      BY <1>1, <1>2, <2>1, <2>4
    <3>2. i - Len(p) = j - Len(p)
      BY <1>1, <2>4, <3>1 DEF IsInjective
    <3> QED
      BY <1>1, <3>2
  <2> QED
    BY <1>2, <2>1, <2>2, <2>3, <2>4
<1>3. DOMAIN (p \o q) = 1..(Len(p) + Len(q))
  BY <1>1
<1> QED
  BY <1>2, <1>3 DEF IsInjective

\* f joins the first lists of a list of lists, one more at each step.
IsJoin(f, lists, n) ==
  f = [i \in 1..n |-> IF i = 1 THEN lists[i] ELSE f[i - 1] \o lists[i]]

\* There is a join of any number of lists.
LEMMA JoinIsThere ==
  ASSUME NEW lists
  PROVE  \A n \in Nat : \E f : IsJoin(f, lists, n)
<1> DEFINE Extend(f, i) == IF i = 1 THEN lists[i] ELSE f[i - 1] \o lists[i]
           There == {n \in Nat : \E f : IsJoin(f, lists, n)}
<1>1. 0 \in There
  <2>1. IsJoin([i \in 1..0 |-> <<>>], lists, 0)
    BY DEF IsJoin
  <2> QED
    BY <2>1
<1>2. ASSUME NEW n \in There PROVE n + 1 \in There
  <2>1. PICK f : IsJoin(f, lists, n)
    OBVIOUS
  <2> DEFINE g == [i \in 1..(n + 1) |-> IF i = n + 1 THEN Extend(f, i) ELSE f[i]]
  <2>2. \A i \in 1..(n + 1) : g[i] = Extend(g, i)
    <3> TAKE i \in 1..(n + 1)
    <3>1. CASE i = n + 1
      <4>1. g[i] = Extend(f, i) /\ (i # 1 => g[i - 1] = f[i - 1])
        BY <3>1
      <4> QED
        BY <3>1, <4>1
    <3>2. CASE i # n + 1
      <4>1. i \in 1..n /\ g[i] = f[i]
        BY <3>2
      <4>2. f[i] = Extend(f, i)
        BY <2>1, <4>1 DEF IsJoin
      <4>3. i # 1 => g[i - 1] = f[i - 1]
        BY <4>1
      <4> QED
        BY <4>1, <4>2, <4>3
    <3> QED
      BY <3>1, <3>2
  <2>3. g = [i \in 1..(n + 1) |-> Extend(g, i)]
    <3> HIDE DEF Extend
    <3> QED
      BY <2>2
  <2>4. IsJoin(g, lists, n + 1)
    <3> HIDE DEF g
    <3> QED
      BY <2>3 DEF IsJoin
  <2> QED
    BY <2>4
<1>3. There = Nat
  BY <1>1, <1>2, Counting
<1> QED
  BY <1>3

\* Lists that repeat nothing, each for itself and among them.
Apart(lists) ==
  /\ \A i \in DOMAIN lists : IsInjective(lists[i])
  /\ \A i, j \in DOMAIN lists : i # j => Range(lists[i]) \intersect Range(lists[j]) = {}

\* FlattenSeq has the items of all the lists, and repeats none that they do not.
LEMMA FlattenItems ==
  ASSUME NEW T, NEW lists \in Seq(Seq(T))
  PROVE  /\ FlattenSeq(lists) \in Seq(T)
         /\ Range(FlattenSeq(lists)) = UNION {Range(lists[i]) : i \in DOMAIN lists}
         /\ Apart(lists) => IsInjective(FlattenSeq(lists))
<1> DEFINE N == Len(lists)
           f == CHOOSE g : IsJoin(g, lists, N)
<1>1. N \in Nat /\ DOMAIN lists = 1..N /\ \A i \in 1..N : lists[i] \in Seq(T)
  OBVIOUS
<1>2. CASE N = 0
  <2>1. lists = <<>>
    BY <1>1, <1>2
  <2> QED
    BY <2>1 DEF FlattenSeq, Range, IsInjective
<1>3. CASE N # 0
  <2>1. IsJoin(f, lists, N)
    <3>1. \E g : IsJoin(g, lists, N)
      BY <1>1, JoinIsThere
    <3> QED
      BY <3>1
  <2>2. FlattenSeq(lists) = f[N]
    BY <1>3 DEF FlattenSeq, IsJoin
  <2> HIDE DEF f
  <2>3. f[1] = lists[1] /\ \A i \in 1..(N - 1) : f[i + 1] = f[i] \o lists[i + 1]
    <3>1. f[1] = lists[1]
      BY <1>1, <1>3, <2>1 DEF IsJoin
    <3>2. ASSUME NEW i \in 1..(N - 1) PROVE f[i + 1] = f[i] \o lists[i + 1]
      <4>1. i + 1 \in 1..N /\ i + 1 # 1 /\ (i + 1) - 1 = i
        BY <1>1
      <4> QED
        BY <2>1, <4>1 DEF IsJoin
    <3> QED
      BY <3>1, <3>2
  <2> DEFINE Items(n) == UNION {Range(lists[i]) : i \in 1..n}
             Good(n) == /\ f[n] \in Seq(T)
                        /\ Range(f[n]) = Items(n)
                        /\ Apart(lists) => IsInjective(f[n])
             All == {n \in Nat : n + 1 <= N => Good(n + 1)}
  <2>4. 0 \in All
    <3>1. Items(1) = Range(lists[1])
      OBVIOUS
    <3> QED
      BY <1>1, <1>3, <2>3, <3>1 DEF Apart
  <2>5. ASSUME NEW n \in All PROVE n + 1 \in All
    <3> DEFINE k == n + 1
    <3> SUFFICES ASSUME k + 1 <= N PROVE Good(k + 1)
      OBVIOUS
    <3>1. Good(k) /\ k \in 1..(N - 1) /\ k + 1 \in 1..N
      BY <1>1, SMTT(30)
    <3>2. f[k + 1] = f[k] \o lists[k + 1] /\ lists[k + 1] \in Seq(T) /\ f[k] \in Seq(T)
      BY <1>1, <2>3, <3>1
    <3>3. f[k + 1] \in Seq(T) /\ Range(f[k + 1]) = Range(f[k]) \union Range(lists[k + 1])
      <4> DEFINE p == f[k]
                 q == lists[k + 1]
      <4>1. f[k + 1] = p \o q /\ p \in Seq(T) /\ q \in Seq(T)
        BY <3>2
      <4> HIDE DEF p, q
      <4>2. p \o q \in Seq(T) /\ Range(p \o q) = Range(p) \union Range(q)
        BY <4>1, ConcatProperties, RangeConcatenation
      <4> QED
        BY <4>1, <4>2 DEF p, q
    <3>4. Items(k + 1) = Items(k) \union Range(lists[k + 1])
      <4>1. 1..(k + 1) = 1..k \union {k + 1}
        BY <3>1
      <4> QED
        BY <4>1
    <3>5. ASSUME Apart(lists) PROVE IsInjective(f[k + 1])
      <4> DEFINE p == f[k]
                 q == lists[k + 1]
      <4>1. IsInjective(p) /\ IsInjective(q)
        BY <1>1, <3>1, <3>5 DEF Apart
      <4>2. Range(p) \intersect Range(q) = {}
        <5>1. ASSUME NEW i \in 1..k PROVE Range(lists[i]) \intersect Range(q) = {}
          <6>1. i \in DOMAIN lists /\ k + 1 \in DOMAIN lists /\ i # k + 1
            BY <1>1, <3>1
          <6> QED
            BY <3>5, <6>1 DEF Apart
        <5> QED
          BY <3>1, <5>1
      <4>3. f[k + 1] = p \o q /\ p \in Seq(T) /\ q \in Seq(T)
        BY <3>2
      <4> HIDE DEF p, q
      <4> QED
        BY <4>1, <4>2, <4>3, JoinInjective
    <3> QED
      BY <3>1, <3>3, <3>4, <3>5
  <2>6. All = Nat
    BY <2>4, <2>5, Counting
  <2>7. Good(N)
    <3> HIDE DEF Good
    <3>1. N - 1 \in Nat /\ (N - 1) + 1 = N
      BY <1>1, <1>3
    <3>2. N - 1 \in All
      BY <2>6, <3>1
    <3> QED
      BY <3>1, <3>2
  <2> QED
    BY <1>1, <2>2, <2>7
<1> QED
  BY <1>2, <1>3
-----------------------------------------------------------------------------
(* The nodes of a build, and the registry they go to.                      *)

\* The nodes a registry may hold.
NodeType == [id : AllFields \union Dialogs, element : Nat \X (Nat \union Fields)]

\* The nodes of a build as a set: the page's, a modal's, all.
PageItems(p) == {Node(f, <<0, f>>) : f \in Range(p)}
DialogItems(d, layer) ==
  {Node(d, <<layer, 0>>)}
    \union {Node(DialogFields[d][k], <<layer, k>>) : k \in DOMAIN DialogFields[d]}
Items(b) ==
  PageItems(b.page) \union UNION {DialogItems(b.modals[l], l) : l \in DOMAIN b.modals}

\* A modal's fields are its own.
LEMMA DialogFacts ==
  /\ \A d \in Dialogs : /\ DialogFields[d] \in Seq(AllFields) /\ IsInjective(DialogFields[d])
                        /\ Inside(d) \subseteq AllFields /\ Inside(d) \intersect Fields = {}
                        /\ d \notin AllFields /\ d # None
  /\ \A d, e \in Dialogs : \A id : id \in Inside(d) /\ id \in Inside(e) => d = e
  /\ Fields \subseteq AllFields /\ None \notin AllFields
  /\ \A id \in AllFields : id \in Fields \/ \E d \in Dialogs : id \in Inside(d)
<1>1. \A d \in Dialogs : Inside(d) \subseteq AllFields
  BY DEF AllFields
<1>2. \A id \in AllFields : id \in Fields \/ \E d \in Dialogs : id \in Inside(d)
  BY DEF AllFields
<1>3. Fields \subseteq AllFields
  BY DEF AllFields
<1> QED
  BY <1>1, <1>2, <1>3, DialogsAreApart

\* The nodes of a modal in a layer.
LEMMA DialogList ==
  ASSUME NEW d \in Dialogs, NEW layer \in Nat
  PROVE  /\ DialogNodes(d, layer) \in Seq(NodeType)
         /\ Range(DialogNodes(d, layer)) = DialogItems(d, layer)
         /\ IsInjective(DialogNodes(d, layer))
<1> DEFINE fs == DialogFields[d]
           p == <<Node(d, <<layer, 0>>)>>
           q == [k \in DOMAIN fs |-> Node(fs[k], <<layer, k>>)]
           s == DialogNodes(d, layer)
<1>1. fs \in Seq(AllFields) /\ Len(fs) \in Nat /\ DOMAIN fs = 1..Len(fs)
  BY DialogFacts
<1>2. p \in Seq(NodeType) /\ Len(p) = 1
  BY DEF NodeType, Node
<1>3. q \in Seq(NodeType) /\ Len(q) = Len(fs) /\ \A k \in 1..Len(fs) : q[k] = Node(fs[k], <<layer, k>>)
  <2>1. \A k \in 1..Len(fs) : fs[k] \in AllFields /\ Node(fs[k], <<layer, k>>) \in NodeType
    BY <1>1 DEF NodeType, Node
  <2>2. q \in [1..Len(fs) -> NodeType]
    BY <1>1, <2>1
  <2> QED
    BY <1>1, <2>2
<1>4. s = p \o q
  BY DEF DialogNodes
<1> HIDE DEF q, s
<1>5. /\ s \in Seq(NodeType) /\ Len(s) = 1 + Len(fs) /\ s[1] = Node(d, <<layer, 0>>)
      /\ \A k \in 1..Len(fs) : s[k + 1] = Node(fs[k], <<layer, k>>)
  <2>1. s \in Seq(NodeType) /\ Len(s) = 1 + Len(fs)
    BY <1>1, <1>2, <1>3, <1>4
  <2>2. s[1] = p[1]
    BY <1>1, <1>2, <1>3, <1>4
  <2>3. \A k \in 1..Len(fs) : s[k + 1] = q[k]
    BY <1>1, <1>2, <1>3, <1>4
  <2> QED
    BY <1>3, <2>1, <2>2, <2>3
<1>6. \A x \in 1..(1 + Len(fs)) : x = 1 \/ (x - 1 \in 1..Len(fs) /\ x = (x - 1) + 1)
  BY <1>1
<1>7. \A x \in 1..(1 + Len(fs)) : s[x].element = <<layer, x - 1>>
  <2> TAKE x \in 1..(1 + Len(fs))
  <2>1. CASE x = 1
    BY <1>5, <2>1 DEF Node
  <2>2. CASE x - 1 \in 1..Len(fs) /\ x = (x - 1) + 1
    <3>1. s[x] = Node(fs[x - 1], <<layer, x - 1>>)
      BY <1>5, <2>2
    <3> QED
      BY <3>1 DEF Node
  <2> QED
    BY <1>6, <2>1, <2>2
<1>8. IsInjective(s)
  BY <1>1, <1>5, <1>7, SMTT(30) DEF IsInjective
<1>9. Range(s) = DialogItems(d, layer)
  <2>1. DOMAIN s = 1..(1 + Len(fs))
    BY <1>1, <1>5
  <2>2. ASSUME NEW x \in DOMAIN s PROVE s[x] \in DialogItems(d, layer)
    <3>1. CASE x = 1
      BY <1>5, <3>1 DEF DialogItems
    <3>2. CASE x - 1 \in 1..Len(fs) /\ x = (x - 1) + 1
      <4>1. s[x] = Node(fs[x - 1], <<layer, x - 1>>) /\ x - 1 \in DOMAIN fs
        BY <1>1, <1>5, <3>2
      <4> QED
        BY <4>1 DEF DialogItems
    <3> QED
      BY <1>6, <2>1, <3>1, <3>2
  <2>3. Node(d, <<layer, 0>>) \in Range(s)
    BY <1>1, <1>5, <2>1 DEF Range
  <2>4. ASSUME NEW k \in DOMAIN fs PROVE Node(fs[k], <<layer, k>>) \in Range(s)
    <3>1. k + 1 \in DOMAIN s /\ s[k + 1] = Node(fs[k], <<layer, k>>)
      BY <1>1, <1>5, <2>1
    <3> QED
      BY <3>1 DEF Range
  <2> QED
    BY <2>2, <2>3, <2>4 DEF Range, DialogItems
<1> QED
  BY <1>5, <1>8, <1>9 DEF s

\* The nodes of a build are its items, each once.
LEMMA BuildList ==
  ASSUME NEW b, b.page \in Seq(Fields), b.modals \in Seq(Dialogs)
  PROVE  /\ NodesOf(b) \in Seq(NodeType)
         /\ Range(NodesOf(b)) = Items(b)
         /\ IsInjective(b.page) => IsInjective(NodesOf(b))
<1> DEFINE p == [k \in DOMAIN b.page |-> Node(b.page[k], <<0, b.page[k]>>)]
           lists == [layer \in DOMAIN b.modals |-> DialogNodes(b.modals[layer], layer)]
           q == FlattenSeq(lists)
<1>1. /\ Len(b.page) \in Nat /\ DOMAIN b.page = 1..Len(b.page)
      /\ Len(b.modals) \in Nat /\ DOMAIN b.modals = 1..Len(b.modals)
      /\ \A k \in DOMAIN b.page : b.page[k] \in Fields
      /\ \A l \in DOMAIN b.modals : b.modals[l] \in Dialogs
  OBVIOUS
<1>2. p \in Seq(NodeType) /\ Range(p) = PageItems(b.page) /\ (IsInjective(b.page) => IsInjective(p))
  <2>1. \A k \in DOMAIN b.page : Node(b.page[k], <<0, b.page[k]>>) \in NodeType
    BY <1>1, DialogFacts DEF NodeType, Node
  <2>2. p \in [1..Len(b.page) -> NodeType]
    BY <1>1, <2>1
  <2>3. p \in Seq(NodeType)
    BY <1>1, <2>2
  <2>4. Range(p) = PageItems(b.page)
    BY DEF Range, PageItems
  <2>5. IsInjective(b.page) => IsInjective(p)
    BY DEF IsInjective, Node
  <2> QED
    BY <2>3, <2>4, <2>5
<1>3. \A l \in DOMAIN b.modals :
        /\ lists[l] \in Seq(NodeType) /\ IsInjective(lists[l])
        /\ Range(lists[l]) = DialogItems(b.modals[l], l)
  <2> TAKE l \in DOMAIN b.modals
  <2>1. l \in Nat /\ b.modals[l] \in Dialogs /\ lists[l] = DialogNodes(b.modals[l], l)
    BY <1>1
  <2> HIDE DEF lists
  <2> QED
    BY <2>1, DialogList
<1>4. lists \in Seq(Seq(NodeType)) /\ DOMAIN lists = DOMAIN b.modals
  <2>1. lists \in [1..Len(b.modals) -> Seq(NodeType)]
    BY <1>1, <1>3
  <2> QED
    BY <1>1, <2>1
<1>5. \A l \in DOMAIN b.modals : \A n \in DialogItems(b.modals[l], l) : n.element[1] = l
  BY DEF DialogItems, Node
<1>6. Apart(lists)
  <2> HIDE DEF lists
  <2> QED
    <3>1. ASSUME NEW i \in DOMAIN lists, NEW j \in DOMAIN lists, i # j
          PROVE  Range(lists[i]) \intersect Range(lists[j]) = {}
      <4>1. /\ Range(lists[i]) = DialogItems(b.modals[i], i)
            /\ Range(lists[j]) = DialogItems(b.modals[j], j)
            /\ \A n \in DialogItems(b.modals[i], i) : n.element[1] = i
            /\ \A n \in DialogItems(b.modals[j], j) : n.element[1] = j
        BY <1>3, <1>4, <1>5
      <4> QED
        BY <3>1, <4>1
    <3> QED
      BY <1>3, <1>4, <3>1 DEF Apart
<1>7. q \in Seq(NodeType) /\ IsInjective(q) /\ Range(q) = UNION {DialogItems(b.modals[l], l) : l \in DOMAIN b.modals}
  <2> HIDE DEF lists
  <2>1. Range(q) = UNION {Range(lists[l]) : l \in DOMAIN lists}
    BY <1>4, FlattenItems
  <2>2. q \in Seq(NodeType) /\ IsInjective(q)
    BY <1>4, <1>6, FlattenItems
  <2>3. {Range(lists[l]) : l \in DOMAIN lists} = {DialogItems(b.modals[l], l) : l \in DOMAIN b.modals}
    BY <1>3, <1>4
  <2> QED
    BY <2>1, <2>2, <2>3
<1>8. NodesOf(b) = p \o q
  BY DEF NodesOf
<1> HIDE DEF p, q, lists
<1>9. NodesOf(b) \in Seq(NodeType) /\ Range(NodesOf(b)) = Items(b)
  BY <1>2, <1>7, <1>8, RangeConcatenation, ConcatProperties DEF Items
<1>10. ASSUME IsInjective(b.page) PROVE IsInjective(NodesOf(b))
  <2>1. IsInjective(p) /\ IsInjective(q)
    BY <1>2, <1>7, <1>10
  <2>2. Range(p) \intersect Range(q) = {}
    <3>1. \A n \in Range(p) : n.element[1] = 0
      BY <1>2 DEF PageItems, Node
    <3>2. \A n \in Range(q) : n.element[1] # 0
      BY <1>1, <1>5, <1>7
    <3> QED
      BY <3>1, <3>2
  <2> QED
    BY <1>2, <1>7, <1>8, <2>1, <2>2, JoinInjective
<1> QED
  BY <1>9, <1>10

\* No two nodes of a list have the same id.
Distinct(nodes) == \A j, k \in DOMAIN nodes : nodes[j].id = nodes[k].id => j = k

\* A node of a build is a field of the page, a modal's group or one of its fields.
LEMMA ItemForm ==
  ASSUME NEW b, b.page \in Seq(Fields), b.modals \in Seq(Dialogs), NEW n \in Items(b)
  PROVE  \/ n.id \in Range(b.page) /\ n.id \in Fields /\ n = Node(n.id, <<0, n.id>>)
         \/ \E l \in DOMAIN b.modals :
              /\ l > 0 /\ b.modals[l] \in Dialogs
              /\ \/ n = Node(b.modals[l], <<l, 0>>)
                 \/ \E k \in DOMAIN DialogFields[b.modals[l]] :
                      n = Node(DialogFields[b.modals[l]][k], <<l, k>>)
<1>1. CASE n \in PageItems(b.page)
  <2>1. \A f \in Range(b.page) : f \in Fields
    BY DEF Range
  <2> QED
    BY <1>1, <2>1 DEF PageItems, Node
<1>2. ASSUME NEW l \in DOMAIN b.modals, n \in DialogItems(b.modals[l], l)
      PROVE  /\ l > 0 /\ b.modals[l] \in Dialogs
             /\ \/ n = Node(b.modals[l], <<l, 0>>)
                \/ \E k \in DOMAIN DialogFields[b.modals[l]] :
                     n = Node(DialogFields[b.modals[l]][k], <<l, k>>)
  <2>1. l > 0 /\ b.modals[l] \in Dialogs
    OBVIOUS
  <2> QED
    BY <1>2, <2>1 DEF DialogItems
<1> QED
  BY <1>1, <1>2 DEF Items

\* No two nodes of a build have the same id.
LEMMA ItemsApart ==
  ASSUME NEW b, b.page \in Seq(Fields), b.modals \in Seq(Dialogs), IsInjective(b.modals),
         NEW m \in Items(b), NEW n \in Items(b), m.id = n.id
  PROVE  m = n
<1> DEFINE InPage(x) == x.id \in Fields /\ x = Node(x.id, <<0, x.id>>)
           InLayer(x, l) ==
             /\ l \in DOMAIN b.modals /\ b.modals[l] \in Dialogs
             /\ \/ x = Node(b.modals[l], <<l, 0>>) /\ x.id = b.modals[l]
                \/ \E k \in DOMAIN DialogFields[b.modals[l]] :
                     /\ x = Node(DialogFields[b.modals[l]][k], <<l, k>>)
                     /\ x.id = DialogFields[b.modals[l]][k]
<1>1. ASSUME NEW x \in Items(b) PROVE InPage(x) \/ \E l : InLayer(x, l)
  BY <1>1, ItemForm DEF Node
<1>2. ASSUME NEW x, NEW l, InLayer(x, l)
      PROVE  x.id = b.modals[l] \/ x.id \in Inside(b.modals[l])
  BY <1>2 DEF Inside, Range
<1>3. ASSUME NEW x, NEW y, NEW l, InPage(x), InLayer(y, l), x.id = y.id PROVE FALSE
  <2>1. y.id = b.modals[l] \/ y.id \in Inside(b.modals[l])
    BY <1>2, <1>3
  <2> QED
    BY <1>3, <2>1, DialogFacts
<1>4. ASSUME NEW x, NEW y, NEW l, NEW j, InLayer(x, l), InLayer(y, j), x.id = y.id PROVE x = y
  <2>1. b.modals[l] = b.modals[j]
    <3>1. x.id = b.modals[l] \/ x.id \in Inside(b.modals[l])
      BY <1>2, <1>4
    <3>2. y.id = b.modals[j] \/ y.id \in Inside(b.modals[j])
      BY <1>2, <1>4
    <3>3. b.modals[l] \in Dialogs /\ b.modals[j] \in Dialogs
      BY <1>4
    <3> QED
      BY <1>4, <3>1, <3>2, <3>3, DialogFacts
  <2>2. l = j
    BY <1>4, <2>1 DEF IsInjective
  <2> DEFINE d == b.modals[l]
  <2>3. d \in Dialogs /\ IsInjective(DialogFields[d]) /\ \A k \in DOMAIN DialogFields[d] : DialogFields[d][k] # d
    <3>1. d \in Dialogs
      BY <1>4
    <3>2. \A k \in DOMAIN DialogFields[d] : DialogFields[d][k] \in AllFields
      BY <3>1, DialogFacts
    <3> QED
      BY <3>1, <3>2, DialogFacts
  <2> QED
    BY <1>4, <2>2, <2>3 DEF IsInjective
<1> QED
  <2> HIDE DEF InPage, InLayer
  <2>1. InPage(m) /\ InPage(n) => m = n
    BY DEF InPage
  <2> QED
    BY <1>1, <1>3, <1>4, <2>1

\* The list of a build has no id twice.
LEMMA BuildDistinct ==
  ASSUME NEW b, b.page \in Seq(Fields), b.modals \in Seq(Dialogs),
         IsInjective(b.page), IsInjective(b.modals)
  PROVE  Distinct(NodesOf(b))
<1> SUFFICES ASSUME NEW j \in DOMAIN NodesOf(b), NEW k \in DOMAIN NodesOf(b),
                    NodesOf(b)[j].id = NodesOf(b)[k].id
             PROVE  j = k
  BY DEF Distinct
<1>1. NodesOf(b)[j] \in Items(b) /\ NodesOf(b)[k] \in Items(b)
  BY BuildList DEF Range
<1>2. NodesOf(b)[j] = NodesOf(b)[k]
  BY <1>1, ItemsApart
<1> QED
  BY <1>2, BuildList DEF IsInjective

\* Only repeats nothing that its list does not.
LEMMA OnlyDistinct ==
  ASSUME NEW T, NEW list \in Seq(T), NEW S
  PROVE  /\ Distinct(list) => Distinct(Only(list, S))
         /\ IsInjective(list) => IsInjective(Only(list, S))
<1> DEFINE o == Only(list, S)
<1>1. PICK h : Places(h, list, o)
  BY OnlyPlaces
<1>2. o \in Seq(T) /\ DOMAIN o = 1..Len(o) /\ DOMAIN list = 1..Len(list) /\ Len(o) \in Nat
  BY OnlyPlaces
<1>3. ASSUME NEW i \in 1..Len(o), NEW j \in 1..Len(o), h[i] = h[j] PROVE i = j
  <2>1. h[i] \in 1..Len(list) /\ (i < j => h[i] < h[j]) /\ (j < i => h[j] < h[i])
    BY <1>1 DEF Places
  <2> QED
    BY <1>2, <1>3, <2>1
<1>4. \A i \in 1..Len(o) : o[i] = list[h[i]] /\ h[i] \in 1..Len(list)
  BY <1>1 DEF Places
<1> HIDE DEF o
<1>5. ASSUME Distinct(list) PROVE Distinct(o)
  BY <1>2, <1>3, <1>4, <1>5 DEF Distinct
<1>6. ASSUME IsInjective(list) PROVE IsInjective(o)
  BY <1>2, <1>3, <1>4, <1>6 DEF IsInjective
<1> QED
  BY <1>5, <1>6 DEF o

\* Two lists whose ids are on different sides of a set share no id.
LEMMA JoinDistinct ==
  ASSUME NEW p \in Seq(NodeType), NEW q \in Seq(NodeType), Distinct(p), Distinct(q), NEW S,
         \A k \in DOMAIN p : p[k].id \in S, \A k \in DOMAIN q : q[k].id \notin S
  PROVE  Distinct(p \o q)
<1>1. /\ Len(p) \in Nat /\ Len(q) \in Nat /\ DOMAIN (p \o q) = 1..(Len(p) + Len(q))
      /\ DOMAIN p = 1..Len(p) /\ DOMAIN q = 1..Len(q)
  OBVIOUS
<1>2. ASSUME NEW i \in 1..(Len(p) + Len(q)), NEW j \in 1..(Len(p) + Len(q)),
             (p \o q)[i].id = (p \o q)[j].id
      PROVE  i = j
  <2>1. ASSUME NEW x \in 1..(Len(p) + Len(q))
        PROVE  \/ x \in 1..Len(p) /\ (p \o q)[x] = p[x] /\ (p \o q)[x].id \in S
               \/ /\ x - Len(p) \in 1..Len(q) /\ (p \o q)[x].id \notin S
                  /\ (p \o q)[x] = q[x - Len(p)]
    <3>1. CASE x <= Len(p)
      <4>1. x \in 1..Len(p) /\ (p \o q)[x] = p[x]
        BY <1>1, <3>1, ConcatProperties
      <4> QED
        BY <1>1, <4>1
    <3>2. CASE ~(x <= Len(p))
      <4>1. x - Len(p) \in 1..Len(q) /\ (p \o q)[x] = q[x - Len(p)]
        BY <1>1, <3>2, ConcatProperties
      <4> QED
        BY <1>1, <4>1
    <3> QED
      BY <3>1, <3>2
  <2>2. CASE (p \o q)[i].id \in S
    BY <1>1, <1>2, <2>1, <2>2 DEF Distinct
  <2>3. CASE (p \o q)[i].id \notin S
    <3>1. i - Len(p) = j - Len(p)
      BY <1>1, <1>2, <2>1, <2>3, SMTT(30) DEF Distinct
    <3> QED
      BY <1>1, <3>1
  <2> QED
    BY <2>2, <2>3
<1> QED
  BY <1>1, <1>2 DEF Distinct

\* register replaces the nodes it is given by id, and adds the new ones.
LEMMA RegisterList ==
  ASSUME NEW old \in Seq(NodeType), NEW new \in Seq(NodeType), Distinct(old), Distinct(new)
  PROVE  /\ Register(old, new) \in Seq(NodeType) /\ Distinct(Register(old, new))
         /\ Range(Register(old, new)) =
              Range(new) \union {n \in Range(old) : n.id \notin Ids(new)}
<1> DEFINE p == [k \in DOMAIN old |->
                   IF old[k].id \in Ids(new) THEN CHOOSE n \in Range(new) : n.id = old[k].id
                                             ELSE old[k]]
           fresh == {n \in Range(new) : n.id \notin Ids(old)}
           q == Only(new, fresh)
<1>0. /\ Len(old) \in Nat /\ DOMAIN old = 1..Len(old) /\ DOMAIN new = 1..Len(new)
      /\ \A k \in DOMAIN old : old[k] \in NodeType /\ old[k] \in Range(old)
      /\ \A k \in DOMAIN new : new[k] \in NodeType
  BY DEF Range
<1>1. ASSUME NEW k \in DOMAIN old
      PROVE  /\ p[k] \in NodeType /\ p[k].id = old[k].id
             /\ p[k] \in Range(new) \/ (p[k] = old[k] /\ old[k].id \notin Ids(new))
  <2>1. CASE old[k].id \in Ids(new)
    <3>1. \E n \in Range(new) : n.id = old[k].id
      BY <2>1 DEF Ids
    <3>2. p[k] \in Range(new) /\ p[k].id = old[k].id
      BY <2>1, <3>1
    <3> QED
      BY <1>0, <3>2 DEF Range
  <2>2. CASE old[k].id \notin Ids(new)
    BY <1>0, <2>2
  <2> QED
    BY <2>1, <2>2
<1>2. p \in Seq(NodeType) /\ DOMAIN p = DOMAIN old
  <2>1. p \in [1..Len(old) -> NodeType]
    BY <1>0, <1>1
  <2> QED
    BY <1>0, <2>1
<1>3. q \in Seq(NodeType) /\ Range(q) = fresh /\ Distinct(q)
  BY OnlyPlaces, OnlyDistinct
<1>4. Register(old, new) = p \o q
  BY DEF Register
<1>5. ASSUME NEW m \in Range(new), NEW n \in Range(new), m.id = n.id PROVE m = n
  BY <1>5 DEF Distinct, Range
<1> HIDE DEF p, q
<1>6. Range(p \o q) = Range(p) \union Range(q) /\ p \o q \in Seq(NodeType)
  BY <1>2, <1>3, RangeConcatenation, ConcatProperties
<1>7. Range(p) = {n \in Range(new) : n.id \in Ids(old)} \union {n \in Range(old) : n.id \notin Ids(new)}
  <2>1. ASSUME NEW k \in DOMAIN old
        PROVE  \/ p[k] \in Range(new) /\ p[k].id \in Ids(old)
               \/ p[k] \in Range(old) /\ p[k].id \notin Ids(new)
    BY <1>0, <1>1 DEF Ids
  <2>2. ASSUME NEW n \in Range(new), n.id \in Ids(old) PROVE n \in Range(p)
    <3>1. PICK k \in DOMAIN old : old[k].id = n.id
      BY <2>2 DEF Ids, Range
    <3>2. p[k] \in Range(new) /\ p[k].id = n.id
      BY <1>1, <3>1 DEF Ids
    <3> QED
      BY <1>2, <1>5, <3>2 DEF Range
  <2>3. ASSUME NEW n \in Range(old), n.id \notin Ids(new) PROVE n \in Range(p)
    <3>1. PICK k \in DOMAIN old : old[k] = n
      BY DEF Range
    <3>2. p[k] = n
      BY <1>1, <2>3, <3>1 DEF Ids
    <3> QED
      BY <1>2, <3>2 DEF Range
  <2> QED
    BY <1>2, <2>1, <2>2, <2>3 DEF Range
<1>8. Range(p \o q) = Range(new) \union {n \in Range(old) : n.id \notin Ids(new)}
  BY <1>3, <1>6, <1>7
<1>9. Distinct(p \o q)
  <2>1. Distinct(p)
    BY <1>1, <1>2 DEF Distinct
  <2>2. \A k \in DOMAIN p : p[k].id \in Ids(old)
    BY <1>0, <1>1, <1>2 DEF Ids
  <2>3. \A k \in DOMAIN q : q[k].id \notin Ids(old)
    BY <1>3 DEF Range
  <2> QED
    BY <1>2, <1>3, <2>1, <2>2, <2>3, JoinDistinct
<1> QED
  BY <1>4, <1>6, <1>8, <1>9
-----------------------------------------------------------------------------
(* Who asks, the stops of Tab, and the news of a move.                     *)

\* The ids a node may have.
AnyId == AllFields \union Dialogs

\* The ids of a list of nodes.
LEMMA IdList ==
  ASSUME NEW nodes \in Seq(NodeType)
  PROVE  /\ [k \in DOMAIN nodes |-> nodes[k].id] \in Seq(AnyId)
         /\ Range([k \in DOMAIN nodes |-> nodes[k].id]) = Ids(nodes)
<1> DEFINE ids == [k \in DOMAIN nodes |-> nodes[k].id]
<1>1. Len(nodes) \in Nat /\ DOMAIN nodes = 1..Len(nodes)
  OBVIOUS
<1>2. \A k \in DOMAIN nodes : nodes[k].id \in AnyId
  <2>1. \A k \in DOMAIN nodes : nodes[k] \in NodeType
    OBVIOUS
  <2> QED
    BY <2>1 DEF NodeType, AnyId
<1>3. ids \in [1..Len(nodes) -> AnyId]
  BY <1>1, <1>2
<1>4. ids \in Seq(AnyId)
  BY <1>1, <1>3
<1>5. Range(ids) = Ids(nodes)
  BY DEF Range, Ids
<1> QED
  BY <1>4, <1>5

\* The fields that ask in a build.
LEMMA AskList ==
  ASSUME NEW nodes \in Seq(NodeType), NEW kept
  PROVE  /\ Asks(nodes, kept) \in Seq(AnyId)
         /\ Range(Asks(nodes, kept)) = Ids(nodes) \intersect (Asking \ Ids(kept))
BY IdList, OnlyPlaces DEF Asks

\* The stops of Tab: the fields within the trap, of the page or of a group that is there.
LEMMA StopList ==
  ASSUME NEW nodes \in Seq(NodeType)
  PROVE  /\ TraversalOrder(nodes) \in Seq(AnyId)
         /\ Range(TraversalOrder(nodes)) =
              {id \in Ids(nodes) \intersect AllFields :
                 WithinTrap(id) /\ (id \in Fields \/ \E d \in Dialogs \intersect Ids(nodes) : id \in Inside(d))}
<1> DEFINE ids == [k \in DOMAIN nodes |-> nodes[k].id]
           Insiders(d) == Only(ids, Inside(d))
           Stops(id) == IF id \in Dialogs THEN Insiders(id)
                        ELSE IF Group(id) = {} THEN <<id>> ELSE <<>>
           lists == [k \in DOMAIN ids |-> Stops(ids[k])]
           in == {id \in Ids(nodes) : WithinTrap(id)}
<1>1. ids \in Seq(AnyId) /\ Range(ids) = Ids(nodes) /\ Ids(nodes) \subseteq AnyId
  BY IdList, RangeOfSeq
<1>2. TraversalOrder(nodes) = Only(FlattenSeq(lists), in)
  BY DEF TraversalOrder
<1> HIDE DEF ids
<1>3. ASSUME NEW id \in AnyId
      PROVE  /\ Stops(id) \in Seq(AnyId)
             /\ Range(Stops(id)) = IF id \in Dialogs THEN Ids(nodes) \intersect Inside(id)
                                   ELSE IF id \in Fields THEN {id} ELSE {}
  <2>1. CASE id \in Dialogs
    BY <1>1, <2>1, OnlyPlaces
  <2>2. CASE id \in Fields
    <3>1. id \notin Dialogs /\ Group(id) = {}
      BY <2>2, DialogFacts DEF Group
    <3> QED
      BY <2>2, <3>1 DEF Range
  <2>3. CASE id \notin Dialogs /\ id \notin Fields
    <3>1. Group(id) # {}
      BY <2>3, DialogFacts DEF Group, AnyId
    <3> QED
      BY <2>3, <3>1 DEF Range
  <2> QED
    BY <2>1, <2>2, <2>3
<1> HIDE DEF Stops
<1>4. lists \in Seq(Seq(AnyId)) /\ DOMAIN lists = DOMAIN ids
  <2>1. Len(ids) \in Nat /\ DOMAIN ids = 1..Len(ids) /\ \A k \in DOMAIN ids : ids[k] \in AnyId
    BY <1>1
  <2>2. lists \in [1..Len(ids) -> Seq(AnyId)]
    BY <1>3, <2>1
  <2> QED
    BY <2>1, <2>2
<1>5. /\ FlattenSeq(lists) \in Seq(AnyId)
      /\ Range(FlattenSeq(lists)) = UNION {Range(lists[k]) : k \in DOMAIN ids}
  <2> HIDE DEF lists
  <2> QED
    BY <1>4, FlattenItems
<1>6. UNION {Range(lists[k]) : k \in DOMAIN ids} = UNION {Range(Stops(id)) : id \in Ids(nodes)}
  BY <1>1 DEF Range
<1>7. UNION {Range(Stops(id)) : id \in Ids(nodes)} =
        {id \in Ids(nodes) \intersect AllFields :
           id \in Fields \/ \E d \in Dialogs \intersect Ids(nodes) : id \in Inside(d)}
  <2>1. ASSUME NEW id \in Ids(nodes)
        PROVE  Range(Stops(id)) = IF id \in Dialogs THEN Ids(nodes) \intersect Inside(id)
                                  ELSE IF id \in Fields THEN {id} ELSE {}
    BY <1>1, <1>3
  <2>2. Fields \subseteq AllFields /\ Fields \intersect Dialogs = {}
        /\ \A d \in Dialogs : Inside(d) \subseteq AllFields
    BY DialogFacts
  <2> QED
    BY <2>1, <2>2
<1> HIDE DEF lists
<1>8. Only(FlattenSeq(lists), in) \in Seq(AnyId)
      /\ Range(Only(FlattenSeq(lists), in)) = Range(FlattenSeq(lists)) \intersect in
  BY <1>5, OnlyPlaces
<1> QED
  BY <1>2, <1>5, <1>6, <1>7, <1>8

\* Where a grant puts the keyboard.
LEMMA Grant ==
  ASSUME NEW nodes \in Seq(NodeType), NEW holder, NEW asking \in Seq(AnyId)
  PROVE  LET g == Granted(nodes, holder, asking)
             stops == Range(TraversalOrder(nodes))
         IN  \/ /\ g = holder
                /\ ActiveTrap \in askedTraps /\ stops # {} => holder \in stops
             \/ holder = None /\ g \in Range(asking) \intersect Asking /\ WithinTrap(g)
             \/ ActiveTrap \in askedTraps /\ g \in stops
<1> DEFINE in == {id \in Asking : WithinTrap(id)}
           wanted == Only(asking, in)
           stops == TraversalOrder(nodes)
           g == Granted(nodes, holder, asking)
<1>1. wanted \in Seq(AnyId) /\ Range(wanted) = Range(asking) \intersect in
  BY OnlyPlaces
<1>2. stops \in Seq(AnyId)
  BY StopList
<1>3. ASSUME NEW s \in Seq(AnyId)
      PROVE  /\ s # <<>> => Head(s) \in Range(s)
             /\ Range(s) # {} => s # <<>>
  <2>1. s # <<>> => Head(s) = s[1] /\ 1 \in DOMAIN s
    OBVIOUS
  <2> QED
    BY <2>1 DEF Range
<1>4. g = IF holder = None /\ wanted # <<>> THEN Head(wanted)
          ELSE IF ActiveTrap \in askedTraps /\ holder \notin Range(stops) /\ stops # <<>>
            THEN Head(stops)
            ELSE holder
  BY DEF Granted
<1> HIDE DEF wanted, stops, g
<1>5. CASE holder = None /\ wanted # <<>>
  BY <1>1, <1>3, <1>4, <1>5 DEF g, stops
<1>6. CASE ~(holder = None /\ wanted # <<>>)
  BY <1>2, <1>3, <1>4, <1>6 DEF g, stops
<1> QED
  BY <1>5, <1>6

\* The elements, none or one, of the field that has an id.
ElementsOf(nodes, id) ==
  {n.element : n \in {m \in Range(nodes) : m.id = id /\ m.id \in AllFields}}
\* The elements that calls tell one thing or the other.
Heard(news, gained) == {news[k].element : k \in {i \in DOMAIN news : news[i].gained = gained}}

\* At most a loss and then a gain.
OneMove(news) ==
  /\ news \in Seq([element : Nat \X (Nat \union Fields), gained : BOOLEAN])
  /\ Len(news) <= 2
  /\ Len(news) = 2 => ~news[1].gained /\ news[2].gained

\* A field is told once, a group not at all.
LEMMA WhatIsTold ==
  ASSUME NEW nodes \in Seq(NodeType), Distinct(nodes), NEW id, NEW gained \in BOOLEAN
  PROVE  LET out == [k \in 1..Cardinality({id} \intersect Ids(nodes) \intersect AllFields) |->
                        [element |-> (CHOOSE n \in Range(nodes) : n.id = id).element,
                         gained |-> gained]]
         IN  \/ out = <<>> /\ ElementsOf(nodes, id) = {}
             \/ \E e \in Nat \X (Nat \union Fields) :
                  /\ out = <<[element |-> e, gained |-> gained]>>
                  /\ ElementsOf(nodes, id) = {e}
<1> DEFINE S == {id} \intersect Ids(nodes) \intersect AllFields
           n0 == CHOOSE n \in Range(nodes) : n.id = id
           out == [k \in 1..Cardinality(S) |-> [element |-> n0.element, gained |-> gained]]
<1>1. CASE S = {}
  <2>1. Cardinality(S) = 0
    BY <1>1, FS_EmptySet
  <2>2. out = <<>>
    <3> HIDE DEF S, n0
    <3> QED
      BY <2>1
  <2>3. ElementsOf(nodes, id) = {}
    BY <1>1 DEF ElementsOf, Ids
  <2> QED
    BY <2>2, <2>3
<1>2. CASE S # {}
  <2>1. S = {id} /\ id \in Ids(nodes) /\ id \in AllFields
    BY <1>2
  <2>2. Cardinality(S) = 1
    BY <2>1, FS_Singleton
  <2>3. n0 \in Range(nodes) /\ n0.id = id
    BY <2>1 DEF Ids
  <2>4. n0 \in NodeType /\ n0.element \in Nat \X (Nat \union Fields)
    <3> HIDE DEF n0
    <3>1. n0 \in NodeType
      BY <2>3, RangeOfSeq
    <3> QED
      BY <3>1 DEF NodeType
  <2>5. \A n \in Range(nodes) : n.id = id => n = n0
    BY <2>3 DEF Distinct, Range
  <2> HIDE DEF n0
  <2>6. ElementsOf(nodes, id) = {n0.element}
    BY <2>1, <2>3, <2>5 DEF ElementsOf
  <2>7. out = <<[element |-> n0.element, gained |-> gained]>>
    <3> DEFINE r == [element |-> n0.element, gained |-> gained]
    <3>1. out = [k \in 1..Cardinality(S) |-> r]
      OBVIOUS
    <3> HIDE DEF r, S, out
    <3>2. out = <<r>>
      BY <2>2, <3>1
    <3> QED
      BY <3>2 DEF r
  <2> QED
    BY <2>4, <2>6, <2>7 DEF n0
<1> QED
  BY <1>1, <1>2

\* The news of a move: the loss, then the gain.
LEMMA NewsOfAMove ==
  ASSUME NEW nodes \in Seq(NodeType), Distinct(nodes), NEW old, NEW new
  PROVE  /\ OneMove(News(nodes, old, new))
         /\ Heard(News(nodes, old, new), FALSE) = ElementsOf(nodes, old)
         /\ Heard(News(nodes, old, new), TRUE) = ElementsOf(nodes, new)
<1> DEFINE Told(id, gained) ==
             [k \in 1..Cardinality({id} \intersect Ids(nodes) \intersect AllFields) |->
                [element |-> (CHOOSE n \in Range(nodes) : n.id = id).element,
                 gained |-> gained]]
           E == Nat \X (Nat \union Fields)
           Says(s, id, gained) ==
             \/ s = <<>> /\ ElementsOf(nodes, id) = {}
             \/ \E e \in E : s = <<[element |-> e, gained |-> gained]>> /\ ElementsOf(nodes, id) = {e}
           p == Told(old, FALSE)
           q == Told(new, TRUE)
<1>1. Says(p, old, FALSE) /\ Says(q, new, TRUE)
  BY WhatIsTold
<1>2. News(nodes, old, new) = p \o q
  BY DEF News
<1> HIDE DEF p, q
<1> SUFFICES /\ OneMove(p \o q)
             /\ Heard(p \o q, FALSE) = ElementsOf(nodes, old)
             /\ Heard(p \o q, TRUE) = ElementsOf(nodes, new)
  BY <1>2
<1>3. CASE p = <<>> /\ q = <<>>
  <2>1. p \o q = <<>>
    BY <1>3
  <2>2. ElementsOf(nodes, old) = {} /\ ElementsOf(nodes, new) = {}
    BY <1>1, <1>3
  <2> QED
    BY <2>1, <2>2 DEF OneMove, Heard
<1>4. ASSUME NEW e \in E, p = <<[element |-> e, gained |-> FALSE]>>, q = <<>>, ElementsOf(nodes, old) = {e}
      PROVE  /\ OneMove(p \o q)
             /\ Heard(p \o q, FALSE) = ElementsOf(nodes, old)
             /\ Heard(p \o q, TRUE) = ElementsOf(nodes, new)
  <2>1. p \o q = <<[element |-> e, gained |-> FALSE]>>
    BY <1>4
  <2>2. ElementsOf(nodes, new) = {}
    BY <1>1, <1>4
  <2> QED
    BY <1>4, <2>1, <2>2 DEF OneMove, Heard
<1>5. ASSUME NEW e \in E, q = <<[element |-> e, gained |-> TRUE]>>, p = <<>>, ElementsOf(nodes, new) = {e}
      PROVE  /\ OneMove(p \o q)
             /\ Heard(p \o q, FALSE) = ElementsOf(nodes, old)
             /\ Heard(p \o q, TRUE) = ElementsOf(nodes, new)
  <2>1. p \o q = <<[element |-> e, gained |-> TRUE]>>
    BY <1>5
  <2>2. ElementsOf(nodes, old) = {}
    BY <1>1, <1>5
  <2> QED
    BY <1>5, <2>1, <2>2 DEF OneMove, Heard
<1>6. ASSUME NEW e \in E, NEW f \in E, p = <<[element |-> e, gained |-> FALSE]>>, ElementsOf(nodes, old) = {e},
             q = <<[element |-> f, gained |-> TRUE]>>, ElementsOf(nodes, new) = {f}
      PROVE  /\ OneMove(p \o q)
             /\ Heard(p \o q, FALSE) = ElementsOf(nodes, old)
             /\ Heard(p \o q, TRUE) = ElementsOf(nodes, new)
  <2>1. p \o q = <<[element |-> e, gained |-> FALSE], [element |-> f, gained |-> TRUE]>>
    <3> DEFINE x == [element |-> e, gained |-> FALSE]
               y == [element |-> f, gained |-> TRUE]
               T == [element : E, gained : BOOLEAN]
    <3>1. x \in T /\ y \in T /\ p = <<x>> /\ q = <<y>>
      BY <1>6
    <3> HIDE DEF x, y, T
    <3>2. /\ p \in Seq(T) /\ q \in Seq(T) /\ Len(p) = 1 /\ Len(q) = 1
          /\ p[1] = x /\ q[1] = y
      BY <3>1
    <3>3. Len(p \o q) = 2 /\ (p \o q)[1] = x /\ (p \o q)[2] = y /\ p \o q \in Seq(T)
      <4>1. /\ p \o q \in Seq(T) /\ Len(p \o q) = Len(p) + Len(q)
            /\ \A i \in 1..(Len(p) + Len(q)) :
                 (p \o q)[i] = IF i <= Len(p) THEN p[i] ELSE q[i - Len(p)]
        BY <3>2, ConcatProperties
      <4> QED
        BY <3>2, <4>1
    <3>4. Len(<<x, y>>) = 2 /\ <<x, y>>[1] = x /\ <<x, y>>[2] = y /\ <<x, y>> \in Seq(T)
      BY <3>1
    <3>5. \A i \in 1..2 : i = 1 \/ i = 2
      OBVIOUS
    <3>6. p \o q = <<x, y>>
      BY <3>3, <3>4, <3>5, SeqEqual
    <3> QED
      BY <3>6 DEF x, y
  <2> DEFINE s == p \o q
  <2>2. DOMAIN s = {1, 2} /\ Len(s) = 2 /\ s[1] = [element |-> e, gained |-> FALSE] /\ s[2] = [element |-> f, gained |-> TRUE]
    BY <2>1
  <2>3. OneMove(s)
    BY <2>1 DEF OneMove
  <2> HIDE DEF s
  <2>4. Heard(s, FALSE) = {e} /\ Heard(s, TRUE) = {f}
    BY <2>2 DEF Heard
  <2> QED
    BY <1>6, <2>3, <2>4 DEF s
<1> QED
  <2> HIDE DEF E
  <2> QED
    BY <1>1, <1>3, <1>4, <1>5, <1>6
-----------------------------------------------------------------------------
(* The invariant.                                                          *)

\* The modals of the last build, and the elements it left in the tree.
Shown == Range(built.modals)
Live == {n.element : n \in Range(NodesOf(built))}

\* The types, with the lists that TypeOK leaves to the lemmas.
TypeInv ==
  /\ TypeOK
  /\ built \in [page : Seq(Fields), modals : Seq(Dialogs)]
  /\ IsInjective(built.page) /\ IsInjective(built.modals)
  /\ entries \in Seq(NodeType) /\ Distinct(entries)
  /\ calls \in Seq([element : Nat \X (Nat \union Fields), gained : BOOLEAN])
  /\ focused # None => focused \in Ids(entries)

\* What was built is registered; a modal that is up and was not built has asked
\* for the keyboard, and one that was built has not; a build is only old when a
\* rebuild is due.
BuildInv ==
  /\ Range(NodesOf(built)) \subseteq Range(entries)
  /\ Shown \subseteq Range(modals) \union closed
  /\ Range(modals) \ Shown \subseteq askedTraps
  /\ askedTraps \intersect Shown = {}
  /\ wake # "rebuild" => built = [page |-> page, modals |-> modals] /\ askedTraps = {}

\* The modals that are up and were built lie below the ones that were not, in the
\* order they were built, and in their places unless a dismissal has moved them.
OrderInv ==
  \A i, j \in DOMAIN modals :
    /\ i < j /\ modals[j] \in Shown => modals[i] \in Shown
    /\ \A k, l \in DOMAIN built.modals :
         i < j /\ modals[i] = built.modals[k] /\ modals[j] = built.modals[l] => k < l
    /\ \A k \in DOMAIN built.modals : modals[i] = built.modals[k] => i <= k /\ (~slid => i = k)

\* A field of the page is registered with its own element, a modal's node with
\* one over the page and only since the modal was built; a second frame leaves
\* nothing that is gone.
EntriesInv ==
  /\ \A n \in Range(entries) :
       /\ n.id \in Fields => n.element = <<0, n.id>>
       /\ \A d \in Dialogs : n.id \in Inside(d) \union {d}
            => n.element[1] > 0 /\ d \in Shown \union closed
  /\ wake = "no" => \A n \in Range(entries) : n.element \in Live

StructureInv == TypeInv /\ BuildInv /\ OrderInv /\ EntriesInv

\* Where the node with the keyboard may lie: over all the modals that are up, a
\* modal's that is gone, or in the last of the modals that were built.
Placed(n) ==
  \/ \A i \in DOMAIN modals : /\ modals[i] \in Shown => i < n.element[1]
                              /\ n.id \notin Inside(modals[i]) \union {modals[i]}
  \/ \E j \in DOMAIN modals :
       /\ modals[j] \in Shown /\ n.id \in Inside(modals[j]) \union {modals[j]}
       /\ \A i \in DOMAIN modals : modals[i] \in Shown => i <= j

\* The keyboard lies there, if every modal had a field to give it to and the
\* application has not put it outside.
PlaceInv ==
  ~strayed /\ (\A d \in Range(modals) \union closed : Inside(d) # {})
     => \A n \in Range(entries) : n.id = focused => Placed(n)

\* What will be lit when all is told that waits to be, as a loss is only ever told
\* next; and the element of the field that has the keyboard.
WillBeLit == (lit \ Heard(calls, FALSE)) \union (Heard(calls, TRUE) \intersect Live)
Holders == ElementsOf(entries, focused) \intersect Live

GainsWait(news) == \A k \in 2..Len(news) : news[k].gained

\* The holder will be lit, and what else will be was overtaken.
LitInv ==
  /\ lit \subseteq Live
  /\ GainsWait(calls)
  /\ TheirOwn(Holders) \subseteq WillBeLit
  /\ TheirOwn(WillBeLit) \subseteq Holders \union overtaken

\* The list of modals and the list of the last build.
LEMMA Modals ==
  ASSUME TypeInv
  PROVE  /\ Len(modals) \in Nat /\ DOMAIN modals = 1..Len(modals)
         /\ \A i \in DOMAIN modals : modals[i] \in Dialogs /\ modals[i] \in Range(modals)
         /\ \A i, j \in DOMAIN modals : modals[i] = modals[j] => i = j
         /\ Len(built.modals) \in Nat /\ DOMAIN built.modals = 1..Len(built.modals)
         /\ \A k \in DOMAIN built.modals : built.modals[k] \in Dialogs /\ built.modals[k] \in Shown
         /\ \A j, k \in DOMAIN built.modals : built.modals[j] = built.modals[k] => j = k
         /\ modals = <<>> => ActiveTrap = None
         /\ modals # <<>> => /\ Len(modals) \in DOMAIN modals
                             /\ ActiveTrap = modals[Len(modals)]
                             /\ ActiveTrap \in Dialogs /\ ActiveTrap # None
<1>1. modals \in Seq(Dialogs) /\ IsInjective(modals)
  BY DEF TypeInv, TypeOK
<1>2. built.modals \in Seq(Dialogs) /\ IsInjective(built.modals)
  BY DEF TypeInv
<1>3. modals # <<>> => Len(modals) \in 1..Len(modals) /\ Len(modals) > 0
  BY <1>1
<1>4. /\ modals = <<>> => ActiveTrap = None
      /\ modals # <<>> => ActiveTrap = modals[Len(modals)]
  BY DEF ActiveTrap, Last
<1> QED
  BY <1>1, <1>2, <1>3, <1>4, DialogFacts DEF Range, IsInjective, Shown

\* An id within the trap is of the modal in force.
LEMMA InTrap ==
  ASSUME TypeInv, NEW id, WithinTrap(id), modals # <<>>
  PROVE  id \in Inside(ActiveTrap) \union {ActiveTrap}
BY Modals DEF WithinTrap, Group

\* A node within the trap is placed.
LEMMA TrapPlace ==
  ASSUME StructureInv, NEW n \in Range(entries), WithinTrap(n.id)
  PROVE  Placed(n)
<1>1. CASE modals = <<>>
  <2>1. DOMAIN modals = {}
    BY <1>1
  <2> QED
    BY <2>1 DEF Placed
<1>2. CASE modals # <<>>
  <2> DEFINE d == ActiveTrap
             j == Len(modals)
  <2>1. d = modals[j] /\ j \in DOMAIN modals /\ d \in Dialogs /\ d \in Range(modals)
    BY <1>2, Modals DEF StructureInv
  <2>2. n.id \in Inside(d) \union {d}
    BY <1>2, InTrap DEF StructureInv
  <2>3. d \in Shown
    <3>1. d \in Shown \union closed
      BY <2>1, <2>2 DEF StructureInv, EntriesInv
    <3>2. d \notin closed
      BY <2>1 DEF StructureInv, TypeInv, TypeOK
    <3> QED
      BY <3>1, <3>2
  <2>4. \A i \in DOMAIN modals : i <= j
    BY Modals DEF StructureInv
  <2> HIDE DEF d, j
  <2> QED
    BY <2>1, <2>2, <2>3, <2>4 DEF Placed
<1> QED
  BY <1>1, <1>2

\* The items of the last build.
LEMMA Built ==
  ASSUME TypeInv
  PROVE  /\ NodesOf(built) \in Seq(NodeType) /\ Distinct(NodesOf(built))
         /\ Range(NodesOf(built)) = Items(built)
         /\ built.page \in Seq(Fields) /\ built.modals \in Seq(Dialogs)
BY BuildList, BuildDistinct DEF TypeInv

\* Where the registry has the nodes of a modal that was built.
LEMMA EntryOfShown ==
  ASSUME StructureInv, NEW k \in DOMAIN built.modals, NEW n \in Range(entries),
         n.id \in Inside(built.modals[k]) \union {built.modals[k]}
  PROVE  n \in DialogItems(built.modals[k], k)
<1> DEFINE d == built.modals[k]
<1>1. PICK m \in DialogItems(d, k) : m.id = n.id
  <2>1. CASE n.id = d
    <3>1. Node(d, <<k, 0>>) \in DialogItems(d, k) /\ Node(d, <<k, 0>>).id = d
      BY DEF DialogItems, Node
    <3> QED
      BY <2>1, <3>1
  <2>2. CASE n.id \in Inside(d)
    <3>1. PICK j \in DOMAIN DialogFields[d] : DialogFields[d][j] = n.id
      BY <2>2 DEF Inside, Range
    <3> DEFINE m == Node(DialogFields[d][j], <<k, j>>)
    <3>2. m \in DialogItems(d, k) /\ m.id = n.id
      BY <3>1 DEF DialogItems, Node
    <3> QED
      BY <3>2
  <2> QED
    BY <2>1, <2>2
<1>2. m \in Range(entries)
  <2>1. m \in Items(built)
    BY DEF Items
  <2> QED
    BY <2>1, Built DEF StructureInv, BuildInv
<1>3. m = n
  BY <1>1, <1>2 DEF StructureInv, TypeInv, Distinct, Range
<1> QED
  BY <1>3

\* A node that a tap reaches is placed.
LEMMA TapPlace ==
  ASSUME StructureInv, NEW n \in Range(entries),
         built.modals # <<>> => n.id \in Inside(Last(built.modals)) \union {Last(built.modals)},
         built.modals = <<>> => n.id \in Range(built.page)
  PROVE  Placed(n)
<1>1. CASE built.modals = <<>>
  <2>1. Shown = {}
    BY <1>1 DEF Shown, Range
  <2>2. n.id \in Fields
    BY <1>1, Built DEF StructureInv, Range
  <2>3. \A i \in DOMAIN modals : n.id \notin Inside(modals[i]) \union {modals[i]}
    BY <2>2, Modals, DialogFacts DEF StructureInv
  <2> QED
    BY <2>1, <2>3 DEF Placed
<1>2. CASE built.modals # <<>>
  <2> DEFINE k == Len(built.modals)
             d == built.modals[k]
  <2>1. k \in DOMAIN built.modals /\ d \in Dialogs /\ d \in Shown /\ \A l \in DOMAIN built.modals : l <= k
    BY <1>2, Built, Modals DEF StructureInv
  <2>2. n.id \in Inside(d) \union {d}
    BY <1>2 DEF Last
  <2>3. CASE d \in Range(modals)
    <3>1. PICK j \in DOMAIN modals : modals[j] = d
      BY <2>3 DEF Range
    <3>2. ASSUME NEW i \in DOMAIN modals, modals[i] \in Shown PROVE i <= j
      <4>1. PICK l \in DOMAIN built.modals : built.modals[l] = modals[i]
        BY <3>2 DEF Shown, Range
      <4>2. j < i => k < l
        BY <2>1, <3>1, <4>1 DEF StructureInv, OrderInv
      <4> QED
        BY <2>1, <4>2, Modals DEF StructureInv
    <3> QED
      BY <2>1, <2>2, <3>1, <3>2 DEF Placed
  <2>4. CASE d \notin Range(modals)
    <3>1. n.element[1] = k
      <4>1. n \in DialogItems(d, k)
        BY <2>1, <2>2, EntryOfShown
      <4> QED
        BY <4>1 DEF DialogItems, Node
    <3>2. ASSUME NEW i \in DOMAIN modals, modals[i] \in Shown PROVE i < k
      <4>1. PICK l \in DOMAIN built.modals : built.modals[l] = modals[i]
        BY <3>2 DEF Shown, Range
      <4>2. i <= l
        BY <4>1 DEF StructureInv, OrderInv
      <4>3. l # k
        BY <2>4, <4>1, Modals DEF StructureInv
      <4> QED
        BY <2>1, <4>2, <4>3, Modals DEF StructureInv
    <3>3. ASSUME NEW i \in DOMAIN modals PROVE n.id \notin Inside(modals[i]) \union {modals[i]}
      <4>1. modals[i] \in Dialogs /\ modals[i] # d
        BY <2>4, Modals DEF StructureInv
      <4> QED
        BY <2>1, <2>2, <4>1, DialogFacts
    <3> QED
      BY <3>1, <3>2, <3>3 DEF Placed
  <2> QED
    BY <2>3, <2>4
<1> QED
  BY <1>1, <1>2
-----------------------------------------------------------------------------
(* The steps that only move the keyboard.                                  *)

\* The calls of on_focus_change.
CallType == [element : Nat \X (Nat \union Fields), gained : BOOLEAN]

\* What the steps have in common that only move the keyboard.
OnlyMoves ==
  /\ UNCHANGED <<page, modals, closed, slid, built, entries, askedTraps>>
  /\ wake' = wake \/ wake' = "rebuild"
  /\ calls' \in Seq(CallType) /\ strayed' \in BOOLEAN
  /\ \/ focused' = focused /\ strayed' = strayed
     \/ focused' = None
     \/ /\ focused' \in Ids(entries)
        /\ strayed' \/ \A n \in Range(entries) : n.id = focused' => Placed(n)

\* focus(id) leaves the keyboard where it was or puts it on the node, placed or
\* strayed.
LEMMA MoveToShape ==
  ASSUME StructureInv, NEW id, NEW waiting \in Seq(CallType), MoveTo(id, waiting),
         NEW outside \in BOOLEAN, StraysIf(outside),
         outside \/ \A n \in Range(entries) : n.id = id => Placed(n)
  PROVE  /\ calls' \in Seq(CallType) /\ strayed' \in BOOLEAN
         /\ \/ focused' = focused /\ strayed' = strayed
            \/ focused' = None
            \/ /\ focused' \in Ids(entries)
               /\ strayed' \/ \A n \in Range(entries) : n.id = focused' => Placed(n)
<1>1. strayed \in BOOLEAN
  BY DEF StructureInv, TypeInv, TypeOK
<1>2. CASE id = focused \/ id \notin Ids(entries) \union {None}
  BY <1>1, <1>2 DEF MoveTo, StraysIf
<1>3. CASE ~(id = focused \/ id \notin Ids(entries) \union {None})
  <2>1. focused' = id /\ calls' = News(entries, focused, id) \o waiting
    BY <1>3 DEF MoveTo
  <2>2. News(entries, focused, id) \in Seq(CallType)
    BY NewsOfAMove DEF StructureInv, TypeInv, OneMove, CallType
  <2>3. strayed' = outside
    BY <1>3, <2>1 DEF StraysIf
  <2> QED
    BY <1>3, <2>1, <2>2, <2>3
<1> QED
  BY <1>2, <1>3

\* A tap.
LEMMA TapMoves ==
  ASSUME StructureInv, NEW id, Tap(id) PROVE OnlyMoves
<1>1. \A n \in Range(entries) : n.id = id => Placed(n)
  BY TapPlace DEF Tap
<1>2. MoveTo(id, <<>>) /\ StraysIf(FALSE)
  BY DEF Tap
<1>3. <<>> \in Seq(CallType)
  OBVIOUS
<1> QED
  BY <1>1, <1>2, <1>3, MoveToShape DEF Tap, OnlyMoves

\* A call of focus.
LEMMA RequestMoves ==
  ASSUME StructureInv, NEW id, Request(id) PROVE OnlyMoves
<1>1. ~WithinTrap(id) \/ \A n \in Range(entries) : n.id = id => Placed(n)
  BY TrapPlace
<1>2. MoveTo(id, <<>>) /\ StraysIf(~WithinTrap(id))
  BY DEF Request
<1>3. <<>> \in Seq(CallType)
  OBVIOUS
<1>4. (~WithinTrap(id)) \in BOOLEAN
  BY DEF WithinTrap
<1> QED
  BY <1>1, <1>2, <1>3, <1>4, MoveToShape DEF Request, OnlyMoves

\* Tab stops somewhere in the order of traversal.
LEMMA StepTarget ==
  ASSUME StructureInv, NEW direction \in {1, -1}, Step(direction)
  PROVE  \E id \in Range(TraversalOrder(entries)) : MoveTo(id, <<>>)
<1> DEFINE stops == TraversalOrder(entries)
           at == IF focused \in Range(stops) THEN CHOOSE k \in DOMAIN stops : stops[k] = focused
                 ELSE IF direction = 1 THEN 0 ELSE 1
           x == at - 1 + direction
           k == (x % Len(stops)) + 1
<1>1. stops \in Seq(AnyId)
  BY StopList DEF StructureInv, TypeInv
<1>2. stops # <<>> /\ MoveTo(stops[k], <<>>)
  BY DEF Step
<1> HIDE DEF stops
<1>3. Len(stops) \in Nat /\ Len(stops) > 0 /\ DOMAIN stops = 1..Len(stops)
  BY <1>1, <1>2
<1>4. at \in Int
  <2>1. CASE focused \in Range(stops)
    <3>1. \E j \in DOMAIN stops : stops[j] = focused
      BY <2>1 DEF Range
    <3> QED
      BY <1>3, <2>1, <3>1
  <2> QED
    BY <2>1
<1>5. x \in Int
  <2> HIDE DEF at
  <2> QED
    BY <1>4
<1> HIDE DEF x
<1>6. k \in DOMAIN stops
  BY <1>3, <1>5
<1> QED
  BY <1>2, <1>6 DEF stops, Range

\* Tab and Shift+Tab.
LEMMA StepMoves ==
  ASSUME StructureInv, NEW direction \in {1, -1}, Step(direction) PROVE OnlyMoves
<1>1. PICK id \in Range(TraversalOrder(entries)) : MoveTo(id, <<>>)
  BY StepTarget
<1>2. WithinTrap(id)
  BY StopList DEF StructureInv, TypeInv
<1>3. \A n \in Range(entries) : n.id = id => Placed(n)
  BY <1>2, TrapPlace
<1>4. <<>> \in Seq(CallType)
  OBVIOUS
<1>5. StraysIf(FALSE)
  BY DEF Step
<1> QED
  BY <1>1, <1>3, <1>4, <1>5, MoveToShape DEF Step, OnlyMoves

\* unfocus.
LEMMA UnfocusMoves ==
  ASSUME StructureInv, Unfocus PROVE OnlyMoves
<1>1. \A n \in Range(entries) : n.id # None
  <2>1. Ids(entries) \subseteq AllFields \union Dialogs
    BY DEF StructureInv, TypeInv, TypeOK
  <2> QED
    BY <2>1, DialogsAreApart DEF Ids
<1>2. MoveTo(None, <<>>) /\ StraysIf(FALSE)
  BY DEF Unfocus
<1>3. <<>> \in Seq(CallType)
  OBVIOUS
<1> QED
  BY <1>1, <1>2, <1>3, MoveToShape DEF Unfocus, OnlyMoves

\* A handler of on_focus_change.
LEMMA TellMoves ==
  ASSUME StructureInv, Tell PROVE OnlyMoves
<1>1. calls \in Seq(CallType) /\ calls # <<>>
  BY DEF StructureInv, TypeInv, CallType, Tell
<1>2. Tail(calls) \in Seq(CallType)
  BY <1>1
<1>3. CASE calls' = Tail(calls) /\ UNCHANGED <<focused, strayed>>
  <2>1. strayed \in BOOLEAN
    BY DEF StructureInv, TypeInv, TypeOK
  <2> QED
    BY <1>2, <1>3, <2>1 DEF Tell, OnlyMoves
<1>4. ASSUME NEW id, MoveTo(id, Tail(calls)), StraysIf(~WithinTrap(id)) PROVE OnlyMoves
  <2>1. ~WithinTrap(id) \/ \A n \in Range(entries) : n.id = id => Placed(n)
    BY TrapPlace
  <2>2. (~WithinTrap(id)) \in BOOLEAN
    BY DEF WithinTrap
  <2> QED
    BY <1>2, <1>4, <2>1, <2>2, MoveToShape DEF Tell, OnlyMoves
<1> QED
  BY <1>3, <1>4 DEF Tell

\* Moving the keyboard leaves the registry sound.
LEMMA MovesStructure ==
  ASSUME StructureInv, OnlyMoves PROVE StructureInv'
<1> USE DEF StructureInv
<1>1. TypeInv'
  <2>1. Ids(entries) \subseteq AllFields \union Dialogs
    BY DEF TypeInv, TypeOK
  <2>2. /\ focused' \in AllFields \union Dialogs \union {None} /\ (focused' # None => focused' \in Ids(entries))
        /\ strayed' \in BOOLEAN
    BY <2>1 DEF OnlyMoves, TypeInv, TypeOK
  <2>3. calls' \in Seq(CallType) /\ \A k \in DOMAIN calls' : calls'[k].gained \in BOOLEAN
    <3>1. calls' \in Seq(CallType)
      BY DEF OnlyMoves
    <3>2. \A k \in DOMAIN calls' : calls'[k] \in CallType
      BY <3>1
    <3> QED
      BY <3>1, <3>2 DEF CallType
  <2>4. wake' \in {"rebuild", "look", "no"}
    BY DEF OnlyMoves, TypeInv, TypeOK
  <2>5. UNCHANGED <<page, modals, closed, slid, built, entries, askedTraps>>
    BY DEF OnlyMoves
  <2>6. TypeOK'
    BY <2>2, <2>3, <2>4, <2>5 DEF TypeInv, TypeOK, Ids
  <2> QED
    BY <2>2, <2>3, <2>5, <2>6 DEF TypeInv, CallType, Ids
<1>2. BuildInv'
  BY DEF BuildInv, OnlyMoves, Shown, NodesOf
<1>3. OrderInv'
  BY DEF OrderInv, OnlyMoves, Shown
<1>4. EntriesInv'
  BY DEF EntriesInv, OnlyMoves, Shown, Live, NodesOf, TypeInv, TypeOK
<1> QED
  BY <1>1, <1>2, <1>3, <1>4

\* Moving the keyboard leaves it placed.
LEMMA MovesPlace ==
  ASSUME StructureInv, PlaceInv, OnlyMoves PROVE PlaceInv'
<1>1. UNCHANGED <<modals, closed, built, entries>>
  BY DEF OnlyMoves
<1>2. \A n : Placed(n) => Placed(n)'
  BY <1>1 DEF Placed, Shown
<1> SUFFICES ASSUME \A d \in Range(modals) \union closed : Inside(d) # {}, ~strayed',
                    NEW n \in Range(entries), n.id = focused'
             PROVE  Placed(n)
  BY <1>1, <1>2 DEF PlaceInv
<1>3. n.id # None
  <2>1. n.id \in Ids(entries) /\ Ids(entries) \subseteq AllFields \union Dialogs
    BY DEF StructureInv, TypeInv, TypeOK, Ids
  <2> QED
    BY <2>1, DialogsAreApart
<1> QED
  BY <1>3 DEF OnlyMoves, PlaceInv
-----------------------------------------------------------------------------
(* The modals and the page.                                                *)

\* A modal goes up: it is on top, and no build has shown it.
LEMMA ShowPlaces ==
  ASSUME StructureInv, NEW d \in Dialogs, Show(d)
  PROVE  /\ modals' \in Seq(Dialogs) /\ Len(modals') = Len(modals) + 1
         /\ DOMAIN modals' = 1..(Len(modals) + 1) /\ DOMAIN modals \subseteq DOMAIN modals'
         /\ modals'[Len(modals) + 1] = d
         /\ \A i \in DOMAIN modals : modals'[i] = modals[i]
         /\ \A i \in DOMAIN modals' : i \in DOMAIN modals \/ i = Len(modals) + 1
         /\ Range(modals') = Range(modals) \union {d}
         /\ d \notin Range(modals) /\ d \notin closed /\ d \notin Shown
<1>1. modals \in Seq(Dialogs) /\ modals' = Append(modals, d) /\ d \notin Range(modals) \union closed
  BY DEF StructureInv, TypeInv, TypeOK, Show
<1>2. /\ modals' \in Seq(Dialogs) /\ Len(modals') = Len(modals) + 1
      /\ modals'[Len(modals) + 1] = d
      /\ \A i \in 1..Len(modals) : modals'[i] = modals[i]
  BY <1>1, AppendProperties
<1>3. /\ Len(modals) \in Nat /\ DOMAIN modals = 1..Len(modals)
      /\ DOMAIN modals' = 1..(Len(modals) + 1)
  BY <1>1, <1>2
<1>4. \A i \in DOMAIN modals' : i \in DOMAIN modals \/ i = Len(modals) + 1
  BY <1>3
<1>5. DOMAIN modals \subseteq DOMAIN modals' /\ Len(modals) + 1 \in DOMAIN modals'
  BY <1>3
<1>6. Range(modals') = Range(modals) \union {d}
  BY <1>2, <1>3, <1>4, <1>5 DEF Range
<1>7. d \notin Shown
  BY <1>1 DEF StructureInv, BuildInv
<1> QED
  BY <1>1, <1>2, <1>3, <1>4, <1>5, <1>6, <1>7

\* show_modal leaves the registry sound.
LEMMA ShowStructure ==
  ASSUME StructureInv, NEW d \in Dialogs, Show(d) PROVE StructureInv'
<1>1. /\ UNCHANGED <<page, closed, slid, built, entries, focused, lit, calls, strayed>>
      /\ askedTraps' = askedTraps \union {d} /\ wake' = "rebuild"
  BY DEF Show
<1>2. TypeInv'
  <2>1. IsInjective(modals')
    <3>1. \A i, j \in DOMAIN modals : modals[i] = modals[j] => i = j
      BY Modals DEF StructureInv
    <3>2. \A i \in DOMAIN modals : modals[i] # d
      BY ShowPlaces DEF Range
    <3> QED
      BY <3>1, <3>2, ShowPlaces DEF IsInjective
  <2>2. TypeOK'
    BY <1>1, <2>1, ShowPlaces DEF StructureInv, TypeInv, TypeOK, Ids
  <2> QED
    BY <1>1, <2>2 DEF StructureInv, TypeInv, Ids
<1>3. BuildInv'
  BY <1>1, ShowPlaces DEF StructureInv, BuildInv, Shown, NodesOf
<1>4. OrderInv'
  <2>1. \A k \in DOMAIN built.modals : built.modals[k] # d
    BY ShowPlaces DEF Shown, Range
  <2>2. ASSUME NEW i \in DOMAIN modals', NEW j \in DOMAIN modals'
        PROVE  /\ i < j /\ modals'[j] \in Shown => modals'[i] \in Shown
               /\ \A k, l \in DOMAIN built.modals :
                    i < j /\ modals'[i] = built.modals[k] /\ modals'[j] = built.modals[l] => k < l
               /\ \A k \in DOMAIN built.modals :
                    modals'[i] = built.modals[k] => i <= k /\ (~slid => i = k)
    <3>1. CASE i \in DOMAIN modals /\ j \in DOMAIN modals
      BY <3>1, ShowPlaces DEF StructureInv, OrderInv
    <3>2. CASE j = Len(modals) + 1 /\ i \in DOMAIN modals
      BY <2>1, <3>2, ShowPlaces DEF StructureInv, OrderInv
    <3>3. CASE i = Len(modals) + 1 /\ (j \in DOMAIN modals \/ j = Len(modals) + 1)
      <4>1. ~(i < j)
        BY <3>3, Modals DEF StructureInv
      <4> QED
        BY <2>1, <3>3, <4>1, ShowPlaces
    <3> QED
      BY <3>1, <3>2, <3>3, ShowPlaces
  <2> QED
    BY <1>1, <2>2 DEF OrderInv, Shown
<1>5. EntriesInv'
  BY <1>1 DEF StructureInv, EntriesInv, Shown, Live, NodesOf
<1> QED
  BY <1>2, <1>3, <1>4, <1>5 DEF StructureInv

\* show_modal leaves the keyboard placed.
LEMMA ShowPlace ==
  ASSUME StructureInv, PlaceInv, NEW d \in Dialogs, Show(d) PROVE PlaceInv'
<1>1. UNCHANGED <<closed, built, entries, focused, strayed>>
  BY DEF Show
<1> SUFFICES ASSUME \A e \in Range(modals') \union closed : Inside(e) # {}, ~strayed,
                    NEW n \in Range(entries), n.id = focused
             PROVE  Placed(n)'
  BY <1>1 DEF PlaceInv
<1>2. Placed(n)
  BY ShowPlaces DEF PlaceInv
<1>3. n.id \notin Inside(d) \union {d}
  BY ShowPlaces DEF StructureInv, EntriesInv
<1>4. CASE \A i \in DOMAIN modals : /\ modals[i] \in Shown => i < n.element[1]
                                    /\ n.id \notin Inside(modals[i]) \union {modals[i]}
  <2>1. \A i \in DOMAIN modals' : /\ modals'[i] \in Shown => i < n.element[1]
                                  /\ n.id \notin Inside(modals'[i]) \union {modals'[i]}
    BY <1>3, <1>4, ShowPlaces
  <2> QED
    BY <1>1, <2>1 DEF Placed, Shown
<1>5. ASSUME NEW j \in DOMAIN modals, modals[j] \in Shown,
             n.id \in Inside(modals[j]) \union {modals[j]},
             \A i \in DOMAIN modals : modals[i] \in Shown => i <= j
      PROVE  Placed(n)'
  <2>1. /\ j \in DOMAIN modals' /\ modals'[j] = modals[j]
        /\ \A i \in DOMAIN modals' : modals'[i] \in Shown => i <= j
    BY <1>5, ShowPlaces
  <2> QED
    BY <1>1, <1>5, <2>1 DEF Placed, Shown
<1> QED
  BY <1>2, <1>4, <1>5 DEF Placed

\* A modal goes: the others keep their order, and their places if it was on top.
LEMMA DismissPlaces ==
  ASSUME StructureInv, NEW d \in Dialogs, Dismiss(d)
  PROVE  /\ modals' \in Seq(Dialogs) /\ IsInjective(modals')
         /\ Range(modals') = Range(modals) \ {d} /\ d \in Range(modals)
         /\ DOMAIN modals' = 1..Len(modals')
         /\ \E h : /\ Places(h, modals, modals')
                   /\ \A i \in DOMAIN modals' : h[i] \in DOMAIN modals
         /\ ~slid' => ~slid /\ \A i \in DOMAIN modals' : i \in DOMAIN modals /\ modals'[i] = modals[i]
<1>1. /\ modals \in Seq(Dialogs) /\ IsInjective(modals) /\ d \in Range(modals)
      /\ modals' = Only(modals, Dialogs \ {d}) /\ slid' = (slid \/ d # ActiveTrap)
  BY DEF StructureInv, TypeInv, TypeOK, Dismiss
<1>2. /\ modals' \in Seq(Dialogs) /\ IsInjective(modals')
      /\ \E h : Places(h, modals, modals')
  BY <1>1, OnlyPlaces, OnlyDistinct
<1>3. Range(modals') = Range(modals) \ {d}
  <2>1. Range(modals') = Range(modals) \intersect (Dialogs \ {d})
    BY <1>1, OnlyPlaces
  <2>2. Range(modals) \subseteq Dialogs
    BY <1>1, RangeOfSeq
  <2> QED
    BY <2>1, <2>2
<1>4. DOMAIN modals' = 1..Len(modals') /\ DOMAIN modals = 1..Len(modals) /\ Len(modals) \in Nat
  BY <1>1, <1>2
<1>5. ASSUME ~slid' PROVE ~slid /\ \A i \in DOMAIN modals' : i \in DOMAIN modals /\ modals'[i] = modals[i]
  <2>1. ~slid /\ d = ActiveTrap
    BY <1>1, <1>5 DEF StructureInv, TypeInv, TypeOK
  <2>2. modals # <<>>
    BY <1>1 DEF Range
  <2>3. modals[Len(modals)] = d /\ Len(modals) \in DOMAIN modals
    BY <2>1, <2>2, Modals DEF StructureInv
  <2>4. \A k \in 1..(Len(modals) - 1) : modals[k] \in Dialogs \ {d}
    <3> TAKE k \in 1..(Len(modals) - 1)
    <3> DEFINE N == Len(modals)
    <3>0. N \in Nat /\ DOMAIN modals = 1..N /\ k \in 1..(N - 1)
      BY Modals DEF StructureInv
    <3> HIDE DEF N
    <3>1. k \in DOMAIN modals /\ k # N
      BY <3>0
    <3>2. modals[k] # d /\ modals[k] \in Dialogs
      BY <2>3, <3>1, Modals DEF N, StructureInv
    <3> QED
      BY <3>2
  <2>5. modals' = [k \in 1..(Len(modals) - 1) |-> modals[k]]
    BY <1>1, <2>2, <2>3, <2>4, OnlyFront
  <2>6. \A i \in DOMAIN modals' : i \in 1..(Len(modals) - 1) /\ modals'[i] = modals[i]
    BY <2>5
  <2>7. \A i \in 1..(Len(modals) - 1) : i \in DOMAIN modals
    BY Modals DEF StructureInv
  <2> QED
    BY <2>1, <2>6, <2>7
<1>6. \A h : Places(h, modals, modals') => \A i \in DOMAIN modals' : h[i] \in DOMAIN modals
  BY <1>4 DEF Places
<1> QED
  BY <1>1, <1>2, <1>3, <1>4, <1>5, <1>6

\* A dismissal leaves the registry sound.
LEMMA DismissStructure ==
  ASSUME StructureInv, NEW d \in Dialogs, Dismiss(d) PROVE StructureInv'
<1>1. /\ UNCHANGED <<page, built, entries, focused, askedTraps, lit, calls, strayed>>
      /\ closed' = closed \union {d} /\ wake' = "rebuild"
  BY DEF Dismiss
<1>2. TypeInv'
  <2>1. slid' \in BOOLEAN
    BY DEF Dismiss
  <2>2. TypeOK'
    BY <1>1, <2>1, DismissPlaces DEF StructureInv, TypeInv, TypeOK, Ids
  <2> QED
    BY <1>1, <2>2 DEF StructureInv, TypeInv, Ids
<1>3. BuildInv'
  BY <1>1, DismissPlaces DEF StructureInv, BuildInv, Shown, NodesOf
<1>4. OrderInv'
  <2>1. PICK h : Places(h, modals, modals') /\ \A i \in DOMAIN modals' : h[i] \in DOMAIN modals
    BY DismissPlaces
  <2>2. \A i \in DOMAIN modals' : i <= h[i] /\ modals'[i] = modals[h[i]]
    BY <2>1, DismissPlaces DEF Places
  <2>3. \A i, j \in DOMAIN modals' : i < j => h[i] < h[j]
    BY <2>1, DismissPlaces DEF Places
  <2>4. ASSUME NEW i \in DOMAIN modals', NEW j \in DOMAIN modals'
        PROVE  /\ i < j /\ modals'[j] \in Shown => modals'[i] \in Shown
               /\ \A k, l \in DOMAIN built.modals :
                    i < j /\ modals'[i] = built.modals[k] /\ modals'[j] = built.modals[l] => k < l
    BY <2>1, <2>2, <2>3 DEF StructureInv, OrderInv
  <2>5. ASSUME NEW i \in DOMAIN modals', NEW k \in DOMAIN built.modals, modals'[i] = built.modals[k]
        PROVE  i <= k /\ (~slid' => i = k)
    <3>1. h[i] \in DOMAIN modals /\ modals[h[i]] = built.modals[k] /\ i <= h[i]
      BY <2>1, <2>2, <2>5
    <3>2. h[i] <= k
      BY <3>1 DEF StructureInv, OrderInv
    <3>3. i \in Nat /\ h[i] \in Nat /\ k \in Nat
      BY <3>1, Modals, DismissPlaces DEF StructureInv
    <3>4. i <= k
      BY <3>1, <3>2, <3>3
    <3>5. ~slid' => i = k
      BY <2>5, DismissPlaces DEF StructureInv, OrderInv
    <3> QED
      BY <3>4, <3>5
  <2> QED
    BY <1>1, <2>4, <2>5 DEF OrderInv, Shown
<1>5. EntriesInv'
  BY <1>1 DEF StructureInv, EntriesInv, Shown, Live, NodesOf
<1> QED
  BY <1>2, <1>3, <1>4, <1>5 DEF StructureInv

\* A dismissal leaves the keyboard placed: in the modal that is gone, or where it was.
LEMMA DismissPlace ==
  ASSUME StructureInv, PlaceInv, NEW d \in Dialogs, Dismiss(d) PROVE PlaceInv'
<1>1. UNCHANGED <<built, entries, focused, strayed>> /\ closed' = closed \union {d}
  BY DEF Dismiss
<1> SUFFICES ASSUME \A e \in Range(modals') \union closed' : Inside(e) # {}, ~strayed,
                    NEW n \in Range(entries), n.id = focused
             PROVE  Placed(n)'
  BY <1>1 DEF PlaceInv
<1>2. Placed(n)
  BY <1>1, DismissPlaces DEF PlaceInv
<1>3. PICK h : Places(h, modals, modals') /\ \A i \in DOMAIN modals' : h[i] \in DOMAIN modals
  BY DismissPlaces
<1>4. \A i \in DOMAIN modals' : i <= h[i] /\ modals'[i] = modals[h[i]] /\ i \in Nat /\ h[i] \in Nat
  BY <1>3, DismissPlaces, Modals DEF Places, StructureInv
<1>5. n.element[1] \in Nat
  <2>1. n \in NodeType
    BY RangeOfSeq DEF StructureInv, TypeInv
  <2> QED
    BY <2>1 DEF NodeType
<1>6. CASE \A i \in DOMAIN modals : /\ modals[i] \in Shown => i < n.element[1]
                                    /\ n.id \notin Inside(modals[i]) \union {modals[i]}
  <2>1. \A i \in DOMAIN modals' : /\ modals'[i] \in Shown => i < n.element[1]
                                  /\ n.id \notin Inside(modals'[i]) \union {modals'[i]}
    <3> TAKE i \in DOMAIN modals'
    <3>1. h[i] \in DOMAIN modals /\ i <= h[i] /\ modals'[i] = modals[h[i]] /\ i \in Nat /\ h[i] \in Nat
      BY <1>3, <1>4
    <3> QED
      BY <1>5, <1>6, <3>1
  <2> QED
    BY <1>1, <2>1 DEF Placed, Shown
<1>7. ASSUME NEW j \in DOMAIN modals, modals[j] \in Shown,
             n.id \in Inside(modals[j]) \union {modals[j]},
             \A i \in DOMAIN modals : modals[i] \in Shown => i <= j
      PROVE  Placed(n)'
  <2>1. CASE modals[j] = d
    <3>1. PICK k \in DOMAIN built.modals : built.modals[k] = d
      BY <1>7, <2>1 DEF Shown, Range
    <3>2. n.element[1] = k
      <4>1. n \in DialogItems(built.modals[k], k)
        BY <1>7, <2>1, <3>1, EntryOfShown
      <4> QED
        BY <4>1 DEF DialogItems, Node
    <3>3. j <= k /\ j \in Nat /\ k \in Nat
      BY <2>1, <3>1, Modals DEF StructureInv, OrderInv
    <3>4. ASSUME NEW i \in DOMAIN modals', modals'[i] \in Shown PROVE i < n.element[1]
      <4>1. h[i] \in DOMAIN modals /\ modals[h[i]] = modals'[i] /\ i <= h[i] /\ i \in Nat /\ h[i] \in Nat
        BY <1>3, <1>4
      <4>2. h[i] <= j
        BY <1>7, <3>4, <4>1
      <4>3. h[i] # j
        <5>1. modals'[i] # d
          BY DismissPlaces DEF Range
        <5> QED
          BY <2>1, <4>1, <5>1
      <4> QED
        BY <3>2, <3>3, <4>1, <4>2, <4>3
    <3>5. ASSUME NEW i \in DOMAIN modals' PROVE n.id \notin Inside(modals'[i]) \union {modals'[i]}
      <4>1. modals'[i] # d /\ modals'[i] \in Dialogs
        <5>1. modals'[i] \in Range(modals')
          BY DEF Range
        <5>2. Range(modals') = Range(modals) \ {d} /\ modals' \in Seq(Dialogs)
          BY DismissPlaces
        <5> QED
          BY <5>1, <5>2, RangeOfSeq
      <4> QED
        BY <1>7, <2>1, <4>1, DialogFacts
    <3>6. \A i \in DOMAIN modals' : /\ modals'[i] \in Shown => i < n.element[1]
                                    /\ n.id \notin Inside(modals'[i]) \union {modals'[i]}
      BY <3>4, <3>5
    <3> QED
      BY <1>1, <3>6 DEF Placed, Shown
  <2>2. CASE modals[j] # d
    <3>1. PICK k \in DOMAIN modals' : modals'[k] = modals[j]
      BY <2>2, DismissPlaces, SMTT(30) DEF Range
    <3>2. h[k] = j
      BY <1>3, <1>4, <3>1, Modals DEF StructureInv
    <3>3. ASSUME NEW i \in DOMAIN modals', modals'[i] \in Shown PROVE i <= k
      <4>1. h[i] \in DOMAIN modals /\ modals[h[i]] = modals'[i]
        BY <1>3, <1>4
      <4>2. h[i] <= h[k] /\ h[i] \in Nat /\ h[k] \in Nat /\ i \in Nat /\ k \in Nat
        BY <1>4, <1>7, <3>2, <3>3, <4>1
      <4>3. k < i => h[k] < h[i]
        BY <1>3, DismissPlaces DEF Places
      <4> QED
        BY <4>2, <4>3
    <3> QED
      BY <1>1, <1>7, <3>1, <3>3 DEF Placed, Shown
  <2> QED
    BY <2>1, <2>2
<1> QED
  BY <1>2, <1>6, <1>7 DEF Placed

\* A new page leaves the registry sound until it is built.
LEMMA ChangePageStructure ==
  ASSUME StructureInv, ChangePage PROVE StructureInv'
<1>1. /\ UNCHANGED <<modals, closed, slid, built, entries, focused, askedTraps, lit, calls, strayed>>
      /\ page' \in Pages /\ wake' = "rebuild"
  BY DEF ChangePage
<1>2. TypeInv'
  BY <1>1 DEF StructureInv, TypeInv, TypeOK, Ids
<1>3. BuildInv'
  BY <1>1 DEF StructureInv, BuildInv, Shown, NodesOf
<1>4. OrderInv'
  BY <1>1 DEF StructureInv, OrderInv, Shown
<1>5. EntriesInv'
  BY <1>1 DEF StructureInv, EntriesInv, Shown, Live, NodesOf
<1> QED
  BY <1>2, <1>3, <1>4, <1>5 DEF StructureInv
-----------------------------------------------------------------------------
(* What a frame does.                                                      *)

\* The names of Frame's own steps: what is left of the registry, who of it has
\* the keyboard, and what is built.
Kept == Only(entries, {n \in Range(entries) : IsLive(n.element)})
Holder == IF focused \in Ids(Kept) THEN focused ELSE None
Now == [page |-> page, modals |-> modals]

\* What prune leaves: the nodes whose elements are there, among them all that were built.
LEMMA KeptList ==
  ASSUME StructureInv
  PROVE  /\ Kept \in Seq(NodeType) /\ Distinct(Kept)
         /\ Range(Kept) = {n \in Range(entries) : n.element \in Live}
         /\ Items(built) \subseteq Range(Kept)
<1>1. \A e : IsLive(e) <=> e \in Live
  BY DEF IsLive, Live
<1>2. Kept \in Seq(NodeType) /\ Distinct(Kept)
  BY OnlyPlaces, OnlyDistinct DEF StructureInv, TypeInv, Kept
<1>3. Range(Kept) = {n \in Range(entries) : n.element \in Live}
  <2>1. Range(Kept) = Range(entries) \intersect {n \in Range(entries) : IsLive(n.element)}
    BY OnlyPlaces DEF StructureInv, TypeInv, Kept
  <2> QED
    BY <1>1, <2>1
<1>4. Items(built) \subseteq Range(Kept)
  <2>1. Items(built) = Range(NodesOf(built)) /\ Range(NodesOf(built)) \subseteq Range(entries)
    BY Built DEF StructureInv, BuildInv
  <2> QED
    BY <1>3, <2>1 DEF Live
<1> QED
  BY <1>2, <1>3, <1>4

\* What the application wants built.
LEMMA NowList ==
  ASSUME StructureInv
  PROVE  /\ Now \in [page : Seq(Fields), modals : Seq(Dialogs)]
         /\ Now.page = page /\ Now.modals = modals
         /\ IsInjective(page) /\ IsInjective(modals)
         /\ NodesOf(Now) \in Seq(NodeType) /\ Distinct(NodesOf(Now))
         /\ Range(NodesOf(Now)) = Items(Now)
         /\ Ids(NodesOf(Now)) = {n.id : n \in Items(Now)}
<1>1. page \in Seq(Fields) /\ IsInjective(page)
  BY PagesAreLists DEF StructureInv, TypeInv, TypeOK
<1>2. modals \in Seq(Dialogs) /\ IsInjective(modals)
  BY DEF StructureInv, TypeInv, TypeOK
<1>3. Now.page = page /\ Now.modals = modals
  BY DEF Now
<1>4. Now \in [page : Seq(Fields), modals : Seq(Dialogs)]
  BY <1>1, <1>2 DEF Now
<1> QED
  BY <1>1, <1>2, <1>3, <1>4, BuildList, BuildDistinct DEF Ids

\* A frame by its results.
LEMMA FrameShape ==
  ASSUME StructureInv, Frame
  PROVE  /\ UNCHANGED <<page, modals, closed, slid>>
         /\ calls = <<>> /\ built' = Now /\ askedTraps' = {}
         /\ wake' \in {"look", "no"}
         /\ lit' = lit \intersect {n.element : n \in Items(Now)}
         /\ overtaken' = overtaken \intersect {n.element : n \in Items(Now)}
         /\ strayed' = IF focused' = focused THEN strayed ELSE FALSE
         /\ calls' = IF focused' = Holder THEN <<>> ELSE News(entries', Holder, focused')
         /\ focused' = Granted(entries', Holder, Asks(NodesOf(Now), Kept))
         /\ entries' \in Seq(NodeType) /\ Distinct(entries')
         /\ Range(entries') = Items(Now) \union {n \in Range(Kept) : n.id \notin Ids(NodesOf(Now))}
         /\ wake' = "no" => built' = built /\ Range(entries') \subseteq Range(Kept)
<1> DEFINE now == IF wake = "rebuild" THEN [page |-> page, modals |-> modals] ELSE built
           nodes == NodesOf(now)
           registry == IF wake = "rebuild" THEN Register(Kept, nodes) ELSE Kept
<1>1. now = Now /\ (wake # "rebuild" => built = Now)
  BY DEF StructureInv, BuildInv, Now
<1>2. /\ UNCHANGED <<page, modals, closed, slid>>
      /\ calls = <<>> /\ built' = now /\ askedTraps' = {}
      /\ wake' = IF wake = "rebuild" THEN "look" ELSE "no"
      /\ lit' = lit \intersect {n.element : n \in Range(nodes)}
      /\ overtaken' = overtaken \intersect {n.element : n \in Range(nodes)}
      /\ strayed' = IF focused' = focused THEN strayed ELSE FALSE
      /\ entries' = registry
      /\ focused' = Granted(registry, Holder, Asks(nodes, Kept))
      /\ calls' = IF focused' = Holder THEN <<>> ELSE News(registry, Holder, focused')
  BY DEF Frame, Idle, Kept, Holder, StraysIf
<1>3. nodes = NodesOf(Now) /\ Range(nodes) = Items(Now)
  BY <1>1, NowList
<1> HIDE DEF now, nodes, registry
<1>4. /\ entries' \in Seq(NodeType) /\ Distinct(entries')
      /\ Range(entries') = Items(Now) \union {n \in Range(Kept) : n.id \notin Ids(NodesOf(Now))}
  <2>1. CASE wake = "rebuild"
    <3>1. entries' = Register(Kept, NodesOf(Now))
      BY <1>2, <1>3, <2>1 DEF registry
    <3> QED
      BY <3>1, RegisterList, KeptList, NowList
  <2>2. CASE wake # "rebuild"
    <3>1. entries' = Kept /\ built = Now
      BY <1>1, <1>2, <2>2 DEF registry
    <3>2. Items(Now) \subseteq Range(Kept)
      BY <3>1, KeptList
    <3>3. ASSUME NEW n \in Range(Kept), n.id \in Ids(NodesOf(Now)) PROVE n \in Items(Now)
      <4>1. PICK m \in Items(Now) : m.id = n.id
        BY <3>3, NowList
      <4>2. m = n
        BY <3>2, <4>1, KeptList DEF Distinct, Range
      <4> QED
        BY <4>1, <4>2
    <3>4. Range(Kept) = Items(Now) \union {n \in Range(Kept) : n.id \notin Ids(NodesOf(Now))}
      BY <3>2, <3>3
    <3> QED
      BY <3>1, <3>4, KeptList
  <2> QED
    BY <2>1, <2>2
<1>5. wake' = "no" => built' = built /\ Range(entries') \subseteq Range(Kept)
  BY <1>1, <1>2 DEF registry
<1>6. wake' \in {"look", "no"}
  BY <1>2
<1> QED
  BY <1>1, <1>2, <1>3, <1>4, <1>5, <1>6

\* Where a frame leaves the keyboard.
LEMMA FrameGrants ==
  ASSUME StructureInv, Frame
  PROVE  \/ /\ focused' = Holder
            /\ ActiveTrap \in askedTraps /\ Range(TraversalOrder(entries')) # {}
                 => Holder \in Range(TraversalOrder(entries'))
         \/ /\ Holder = None
            /\ focused' \in Ids(NodesOf(Now)) \intersect (Asking \ Ids(Kept))
            /\ WithinTrap(focused')
         \/ /\ ActiveTrap \in askedTraps
            /\ focused' \in Range(TraversalOrder(entries'))
<1> DEFINE asking == Asks(NodesOf(Now), Kept)
<1>1. asking \in Seq(AnyId) /\ Range(asking) = Ids(NodesOf(Now)) \intersect (Asking \ Ids(Kept))
  BY NowList, AskList
<1>2. entries' \in Seq(NodeType) /\ focused' = Granted(entries', Holder, asking)
  BY FrameShape
<1> HIDE DEF asking
<1> DEFINE reg == entries'
<1> HIDE DEF reg
<1>3. reg \in Seq(NodeType) /\ focused' = Granted(reg, Holder, asking)
  BY <1>2 DEF reg
<1>4. \/ /\ focused' = Holder
         /\ ActiveTrap \in askedTraps /\ Range(TraversalOrder(reg)) # {}
              => Holder \in Range(TraversalOrder(reg))
      \/ Holder = None /\ focused' \in Range(asking) \intersect Asking /\ WithinTrap(focused')
      \/ ActiveTrap \in askedTraps /\ focused' \in Range(TraversalOrder(reg))
  BY <1>1, <1>3, Grant
<1> QED
  BY <1>1, <1>4 DEF reg

\* Within a modal, the stops of Tab are the fields of the modal, all of them.
LEMMA TrapStops ==
  ASSUME StructureInv, modals # <<>>, NEW reg \in Seq(NodeType), Items(Now) \subseteq Range(reg)
  PROVE  Range(TraversalOrder(reg)) = Inside(ActiveTrap)
<1> DEFINE d == ActiveTrap
<1>1. Range(TraversalOrder(reg)) =
        {id \in Ids(reg) \intersect AllFields :
           WithinTrap(id) /\ (id \in Fields \/ \E e \in Dialogs \intersect Ids(reg) : id \in Inside(e))}
  BY StopList
<1>2. d \in Dialogs /\ d # None
  BY Modals DEF StructureInv
<1>3. {d} \union Inside(d) \subseteq Ids(reg)
  <2>1. DialogItems(d, Len(modals)) \subseteq Items(Now)
    <3>1. modals[Len(modals)] = d /\ Len(modals) \in DOMAIN modals
      BY Modals DEF StructureInv
    <3> QED
      BY <3>1, NowList DEF Items
  <2>2. Node(d, <<Len(modals), 0>>) \in Range(reg)
    BY <2>1 DEF DialogItems
  <2>3. ASSUME NEW id \in Inside(d) PROVE id \in Ids(reg)
    <3>1. PICK k \in DOMAIN DialogFields[d] : DialogFields[d][k] = id
      BY DEF Inside, Range
    <3>2. Node(id, <<Len(modals), k>>) \in Range(reg)
      BY <2>1, <3>1 DEF DialogItems
    <3> QED
      BY <3>2 DEF Ids, Node
  <2>4. d \in Ids(reg)
    BY <2>2 DEF Ids, Node
  <2> QED
    BY <2>3, <2>4
<1>4. \A id \in Inside(d) : WithinTrap(id) /\ id \in AllFields
  BY <1>2, DialogFacts DEF WithinTrap, Group
<1>5. ASSUME NEW id \in AllFields, WithinTrap(id) PROVE id \in Inside(d)
  BY <1>2, <1>5, InTrap, DialogFacts DEF StructureInv
<1> HIDE DEF d
<1> QED
  BY <1>1, <1>2, <1>3, <1>4, <1>5 DEF d

\* The stops of Tab after a frame.
LEMMA FrameStops ==
  ASSUME StructureInv, Frame
  PROVE  /\ \A id \in Range(TraversalOrder(entries')) :
              id \in Ids(entries') /\ id \in AllFields /\ WithinTrap(id)
         /\ modals # <<>> => Range(TraversalOrder(entries')) = Inside(ActiveTrap)
<1> DEFINE reg == entries'
<1>1. reg \in Seq(NodeType) /\ Items(Now) \subseteq Range(reg)
  BY FrameShape
<1> HIDE DEF reg
<1>2. \A id \in Range(TraversalOrder(reg)) : id \in Ids(reg) /\ id \in AllFields /\ WithinTrap(id)
  BY <1>1, StopList
<1>3. modals # <<>> => Range(TraversalOrder(reg)) = Inside(ActiveTrap)
  BY <1>1, TrapStops
<1> QED
  BY <1>2, <1>3 DEF reg
-----------------------------------------------------------------------------
(* A frame keeps the registry sound and the keyboard in front.             *)

\* A frame leaves the keyboard on a registered node.
LEMMA FrameFocus ==
  ASSUME StructureInv, Frame
  PROVE  focused' = None \/ focused' \in Ids(entries')
<1>1. Ids(Kept) \subseteq Ids(entries') /\ Ids(NodesOf(Now)) \subseteq Ids(entries')
  <2>1. Ids(NodesOf(Now)) = {n.id : n \in Items(Now)}
    BY NowList
  <2>2. Range(entries') = Items(Now) \union {n \in Range(Kept) : n.id \notin Ids(NodesOf(Now))}
    BY FrameShape
  <2> QED
    BY <2>1, <2>2 DEF Ids
<1>2. Holder = None \/ Holder \in Ids(entries')
  BY <1>1 DEF Holder
<1> QED
  BY <1>1, <1>2, FrameGrants, FrameStops

\* A frame leaves the registry sound.
LEMMA FrameStructure ==
  ASSUME StructureInv, Frame PROVE StructureInv'
<1>1. /\ UNCHANGED <<page, modals, closed, slid>>
      /\ built' = Now /\ askedTraps' = {} /\ wake' \in {"look", "no"}
      /\ entries' \in Seq(NodeType) /\ Distinct(entries')
      /\ Range(entries') = Items(Now) \union {n \in Range(Kept) : n.id \notin Ids(NodesOf(Now))}
  BY FrameShape
<1>2. Now \in [page : Seq(Fields), modals : Seq(Dialogs)] /\ Now.page = page /\ Now.modals = modals
  BY NowList
<1>3. built'.modals = modals /\ built'.page = page /\ Shown' = Range(modals)
  BY <1>1, <1>2 DEF Shown
<1>4. TypeInv'
  <2>1. Ids(entries') \subseteq AllFields \union Dialogs
    <3>1. Range(entries') \subseteq NodeType
      BY <1>1, RangeOfSeq
    <3> QED
      BY <3>1 DEF Ids, NodeType
  <2>2. focused' \in AllFields \union Dialogs \union {None} /\ (focused' # None => focused' \in Ids(entries'))
    BY <2>1, FrameFocus
  <2>3. calls' \in Seq(CallType)
    <3>1. calls' = <<>> \/ calls' = News(entries', Holder, focused')
      BY FrameShape
    <3>2. News(entries', Holder, focused') \in Seq(CallType)
      <4> DEFINE reg == entries'
      <4>1. reg \in Seq(NodeType) /\ Distinct(reg)
        BY <1>1
      <4> HIDE DEF reg
      <4>2. OneMove(News(reg, Holder, focused'))
        BY <4>1, NewsOfAMove
      <4> QED
        BY <4>2 DEF reg, OneMove, CallType
    <3>3. <<>> \in Seq(CallType)
      OBVIOUS
    <3> QED
      BY <3>1, <3>2, <3>3, Zenon
  <2>4. \A k \in DOMAIN calls' : calls'[k].gained \in BOOLEAN
    <3>1. \A k \in DOMAIN calls' : calls'[k] \in CallType
      BY <2>3
    <3> QED
      BY <3>1 DEF CallType
  <2>5. TypeOK'
    <3>1. page \in Pages /\ modals \in Seq(Dialogs) /\ IsInjective(modals)
          /\ closed \subseteq Dialogs \ Range(modals) /\ slid \in BOOLEAN
      BY DEF StructureInv, TypeInv, TypeOK
    <3>2. strayed' \in BOOLEAN
      BY FrameShape DEF StructureInv, TypeInv, TypeOK
    <3> QED
      BY <1>1, <1>2, <1>3, <2>1, <2>2, <2>4, <3>1, <3>2 DEF TypeOK, Ids
  <2>6. IsInjective(built'.page) /\ IsInjective(built'.modals)
    BY <1>3, NowList
  <2> QED
    BY <1>1, <1>2, <2>2, <2>3, <2>5, <2>6 DEF TypeInv, CallType, Ids
<1>5. BuildInv'
  <2>1. NodesOf(built)' = NodesOf(Now)
    BY <1>1 DEF NodesOf
  <2>2. Range(NodesOf(Now)) \subseteq Range(entries')
    BY <1>1, NowList
  <2> QED
    BY <1>1, <1>3, <2>1, <2>2 DEF BuildInv, Now
<1>6. OrderInv'
  <2>1. /\ modals' = modals /\ built'.modals = modals /\ slid' = slid
        /\ \A i \in DOMAIN modals : modals[i] \in Range(modals) /\ i \in Nat
        /\ \A i, j \in DOMAIN modals : modals[i] = modals[j] => i = j
    BY <1>1, <1>3, Modals DEF StructureInv
  <2> QED
    BY <1>3, <2>1 DEF OrderInv
<1>7. EntriesInv'
  <2>1. ASSUME NEW n \in Items(Now)
        PROVE  /\ n.id \in Fields => n.element = <<0, n.id>>
               /\ \A d \in Dialogs : n.id \in Inside(d) \union {d}
                    => n.element[1] > 0 /\ d \in Range(modals)
    <3>1. CASE n.id \in Fields /\ n = Node(n.id, <<0, n.id>>)
      BY <3>1, DialogFacts DEF Node
    <3>2. ASSUME NEW l \in DOMAIN modals, NEW k, NEW id, n = Node(id, <<l, k>>),
                 id \in Inside(modals[l]) \union {modals[l]}
          PROVE  /\ n.id \in Fields => n.element = <<0, n.id>>
                 /\ \A d \in Dialogs : n.id \in Inside(d) \union {d}
                      => n.element[1] > 0 /\ d \in Range(modals)
      <4>1. modals[l] \in Dialogs /\ modals[l] \in Range(modals) /\ l > 0
        BY Modals DEF StructureInv
      <4>2. n.id = id /\ n.element[1] = l
        BY <3>2 DEF Node
      <4>3. n.id \notin Fields
        BY <3>2, <4>1, <4>2, DialogFacts
      <4>4. \A d \in Dialogs : n.id \in Inside(d) \union {d} => d = modals[l]
        BY <3>2, <4>1, <4>2, DialogFacts
      <4> QED
        BY <4>1, <4>2, <4>3, <4>4
    <3>3. \/ n.id \in Fields /\ n = Node(n.id, <<0, n.id>>)
          \/ \E l \in DOMAIN modals :
               \/ n = Node(modals[l], <<l, 0>>)
               \/ \E k \in DOMAIN DialogFields[modals[l]] :
                    n = Node(DialogFields[modals[l]][k], <<l, k>>)
      <4> DEFINE b == Now
      <4>1. b.page \in Seq(Fields) /\ b.modals \in Seq(Dialogs) /\ n \in Items(b) /\ b.modals = modals
        BY <1>2
      <4> HIDE DEF b
      <4> QED
        BY <4>1, ItemForm
    <3>4. \A l \in DOMAIN modals : \A k \in DOMAIN DialogFields[modals[l]] :
            DialogFields[modals[l]][k] \in Inside(modals[l])
      BY DEF Inside, Range
    <3> QED
      BY <3>1, <3>2, <3>3, <3>4
  <2>2. ASSUME NEW n \in Range(Kept)
        PROVE  /\ n.id \in Fields => n.element = <<0, n.id>>
               /\ \A d \in Dialogs : n.id \in Inside(d) \union {d}
                    => n.element[1] > 0 /\ d \in Range(modals) \union closed
    <3>1. n \in Range(entries)
      BY KeptList
    <3> QED
      BY <3>1 DEF StructureInv, EntriesInv, BuildInv
  <2>3. wake' = "no" => \A n \in Range(entries') : n.element \in Live'
    <3>1. wake' = "no" => built' = built /\ Range(entries') \subseteq Range(Kept)
      BY FrameShape
    <3>2. built' = built => Live' = Live
      BY DEF Live, NodesOf
    <3> QED
      BY <3>1, <3>2, KeptList
  <2> QED
    BY <1>1, <1>3, <2>1, <2>2, <2>3 DEF EntriesInv
<1> QED
  BY <1>4, <1>5, <1>6, <1>7 DEF StructureInv

\* The node of the one who had the keyboard, before and after the frame.
LEMMA HolderNode ==
  ASSUME StructureInv, Frame, Holder # None, NEW n \in Range(entries'), n.id = Holder
  PROVE  /\ Holder = focused
         /\ \E m \in Range(entries) :
              /\ m.id = focused /\ m.element \in Live /\ m \in Range(Kept)
              /\ n = m \/ (n \in Items(Now) /\ n.id \in Ids(NodesOf(Now)))
              /\ n.id \notin Ids(NodesOf(Now)) => n = m
<1>1. Holder = focused /\ focused \in Ids(Kept)
  BY DEF Holder
<1>2. PICK m \in Range(Kept) : m.id = focused
  BY <1>1 DEF Ids
<1>3. m \in Range(entries) /\ m.element \in Live
  BY <1>2, KeptList
<1>4. n \in Items(Now) \/ (n \in Range(Kept) /\ n.id \notin Ids(NodesOf(Now)))
  BY FrameShape
<1>5. n \in Items(Now) => n.id \in Ids(NodesOf(Now))
  BY NowList
<1>6. n \in Range(Kept) => n = m
  BY <1>1, <1>2, KeptList DEF Distinct, Range
<1> QED
  BY <1>1, <1>2, <1>3, <1>4, <1>5, <1>6

\* A frame leaves the keyboard placed: what it grants is within the trap, and what
\* it leaves was placed before.
LEMMA FramePlace ==
  ASSUME StructureInv, PlaceInv, Frame PROVE PlaceInv'
<1>1. UNCHANGED <<modals, closed>> /\ Shown' = Range(modals)
  BY FrameShape, NowList DEF Shown
<1> SUFFICES ASSUME \A d \in Range(modals) \union closed : Inside(d) # {}, ~strayed',
                    NEW n \in Range(entries'), n.id = focused'
             PROVE  Placed(n)'
  BY <1>1 DEF PlaceInv
<1>2. Placed(n)' <=> \/ \A i \in DOMAIN modals : /\ i < n.element[1]
                                                 /\ n.id \notin Inside(modals[i]) \union {modals[i]}
                     \/ \E j \in DOMAIN modals : /\ n.id \in Inside(modals[j]) \union {modals[j]}
                                                 /\ \A i \in DOMAIN modals : i <= j
  <2>1. \A i \in DOMAIN modals : modals[i] \in Range(modals)
    BY DEF Range
  <2> QED
    BY <1>1, <2>1 DEF Placed
<1>3. CASE modals = <<>>
  <2>1. DOMAIN modals = {}
    BY <1>3
  <2> QED
    BY <1>2, <2>1
<1>4. CASE modals # <<>> /\ WithinTrap(focused')
  <2>1. /\ Len(modals) \in DOMAIN modals /\ ActiveTrap = modals[Len(modals)]
        /\ \A i \in DOMAIN modals : i <= Len(modals)
    BY <1>4, Modals DEF StructureInv
  <2>2. n.id \in Inside(ActiveTrap) \union {ActiveTrap}
    BY <1>4, InTrap DEF StructureInv
  <2> QED
    BY <1>2, <2>1, <2>2
<1>5. CASE modals # <<>> /\ ~WithinTrap(focused')
  <2> DEFINE d == ActiveTrap
             top == Len(modals)
  <2>1. /\ top \in DOMAIN modals /\ d = modals[top] /\ d \in Range(modals)
        /\ \A i \in DOMAIN modals : i <= top /\ i \in Nat
    BY <1>5, Modals DEF StructureInv
  <2>2. focused' = Holder /\ d \notin askedTraps
    <3>1. Inside(d) # {}
      BY <2>1
    <3>2. /\ \A id \in Range(TraversalOrder(entries')) : WithinTrap(id)
          /\ Range(TraversalOrder(entries')) = Inside(d)
      BY <1>5, FrameStops
    <3> QED
      BY <1>5, <3>1, <3>2, FrameGrants
  <2>3. d \in Shown
    BY <2>1, <2>2 DEF StructureInv, BuildInv
  <2>4. \A i \in DOMAIN modals : modals[i] \in Shown
    <3> TAKE i \in DOMAIN modals
    <3>1. i = top \/ i < top
      BY <2>1
    <3> QED
      BY <2>1, <2>3, <3>1 DEF StructureInv, OrderInv
  <2>5. Holder # None
    <3>1. n.id \in AllFields \union Dialogs
      <4>1. entries' \in Seq(NodeType)
        BY FrameShape
      <4>2. n \in NodeType
        BY <4>1, RangeOfSeq
      <4> QED
        BY <4>2 DEF NodeType
    <3> QED
      BY <2>2, <3>1, DialogsAreApart
  <2>6. PICK m \in Range(entries) :
          /\ m.id = focused /\ n.id = focused
          /\ n = m \/ (n \in Items(Now) /\ n.id \in Ids(NodesOf(Now)))
          /\ n.id \notin Ids(NodesOf(Now)) => n = m
    BY <2>2, <2>5, HolderNode
  <2>7. Placed(m)
    <3>1. ~strayed
      BY <2>6, FrameShape
    <3> QED
      BY <1>1, <2>6, <3>1 DEF PlaceInv
  <2> HIDE DEF d, top
  <2>8. CASE \A i \in DOMAIN modals : /\ modals[i] \in Shown => i < m.element[1]
                                      /\ m.id \notin Inside(modals[i]) \union {modals[i]}
    <3>1. \A i \in DOMAIN modals : i < m.element[1] /\ n.id \notin Inside(modals[i]) \union {modals[i]}
      BY <2>4, <2>6, <2>8
    <3>2. n = m
      <4>1. n.id \notin Fields
        <5>1. m.id \in Fields => m.element[1] = 0
          BY DEF StructureInv, EntriesInv
        <5> QED
          BY <2>1, <2>6, <3>1, <5>1
      <4>2. ASSUME n \in Items(Now) PROVE FALSE
        <5> DEFINE b == Now
        <5>1. b.page \in Seq(Fields) /\ b.modals \in Seq(Dialogs) /\ n \in Items(b) /\ b.modals = modals
          BY <4>2, NowList
        <5> HIDE DEF b
        <5>2. PICK l \in DOMAIN modals :
                \/ n = Node(modals[l], <<l, 0>>)
                \/ \E k \in DOMAIN DialogFields[modals[l]] :
                     n = Node(DialogFields[modals[l]][k], <<l, k>>)
          BY <4>1, <5>1, ItemForm
        <5>3. n.id \in Inside(modals[l]) \union {modals[l]}
          BY <5>2 DEF Node, Inside, Range
        <5> QED
          BY <3>1, <5>3
      <4> QED
        BY <2>6, <4>2
    <3> QED
      BY <1>2, <3>1, <3>2
  <2>9. ASSUME NEW j \in DOMAIN modals, m.id \in Inside(modals[j]) \union {modals[j]},
               \A i \in DOMAIN modals : modals[i] \in Shown => i <= j
        PROVE  Placed(n)'
    BY <1>2, <2>4, <2>6, <2>9
  <2> QED
    BY <2>7, <2>8, <2>9 DEF Placed
<1> QED
  BY <1>3, <1>4, <1>5
-----------------------------------------------------------------------------
(* The highlight, step by step.                                            *)

\* Nothing to tell.
LEMMA NoNews ==
  GainsWait(<<>>) /\ Heard(<<>>, TRUE) = {} /\ Heard(<<>>, FALSE) = {}
BY DEF GainsWait, Heard

\* Calls that all tell of a gain.
AllGains(news) == \A k \in DOMAIN news : news[k].gained

\* The first call and the others: those tell of gains.
LEMMA HeardFirst ==
  ASSUME NEW news \in Seq(CallType), GainsWait(news), news # <<>>
  PROVE  /\ Tail(news) \in Seq(CallType) /\ AllGains(Tail(news)) /\ Head(news) \in CallType
         /\ Heard(Tail(news), FALSE) = {}
         /\ Heard(Tail(news), TRUE) = {news[k].element : k \in 2..Len(news)}
         /\ \A g \in BOOLEAN :
              Heard(news, g) = Heard(Tail(news), g)
                \union (IF Head(news).gained = g THEN {Head(news).element} ELSE {})
<1> DEFINE t == Tail(news)
           n == Len(news)
<1>1. /\ n \in Nat /\ n > 0 /\ DOMAIN news = 1..n /\ Head(news) = news[1]
      /\ t \in Seq(CallType) /\ DOMAIN t = 1..(n - 1)
      /\ \A k \in 1..(n - 1) : t[k] = news[k + 1]
  BY HeadTailProperties
<1>2. \A k \in 1..n : news[k] \in CallType
  BY <1>1
<1>3. \A k \in 2..n : k - 1 \in 1..(n - 1) /\ t[k - 1] = news[k]
  BY <1>1
<1>4. \A k \in 1..(n - 1) : k + 1 \in 2..n /\ t[k] = news[k + 1]
  BY <1>1
<1>5. \A k \in 1..n : k = 1 \/ k \in 2..n
  BY <1>1
<1> HIDE DEF t, n
<1>6. AllGains(t)
  BY <1>1, <1>4 DEF AllGains, GainsWait, n
<1>7. \A k \in DOMAIN t : t[k].gained = TRUE
  <2> TAKE k \in DOMAIN t
  <2>1. t[k] \in CallType /\ t[k].gained
    BY <1>1, <1>6 DEF AllGains
  <2> QED
    BY <2>1 DEF CallType
<1>8. Heard(t, FALSE) = {}
  BY <1>7 DEF Heard
<1>9. Heard(t, TRUE) = {news[k].element : k \in 2..n}
  <2>1. \A e : e \in Heard(t, TRUE) <=> \E k \in 1..(n - 1) : e = t[k].element
    BY <1>1, <1>7 DEF Heard
  <2>2. ASSUME NEW e \in Heard(t, TRUE) PROVE \E k \in 2..n : e = news[k].element
    <3>1. PICK k \in 1..(n - 1) : e = t[k].element
      BY <2>1
    <3> QED
      BY <1>4, <3>1
  <2>3. ASSUME NEW k \in 2..n PROVE news[k].element \in Heard(t, TRUE)
    <3>1. k - 1 \in 1..(n - 1) /\ news[k].element = t[k - 1].element
      BY <1>3
    <3> QED
      BY <2>1, <3>1
  <2> QED
    BY <2>2, <2>3
<1>10. ASSUME NEW g \in BOOLEAN
       PROVE  Heard(news, g) = Heard(t, g) \union (IF news[1].gained = g THEN {news[1].element} ELSE {})
  <2>1. \A e : e \in Heard(news, g) <=> \E k \in 1..n : news[k].gained = g /\ e = news[k].element
    BY <1>1 DEF Heard
  <2>2. \A e : e \in Heard(t, g) <=> \E k \in 1..(n - 1) : t[k].gained = g /\ e = t[k].element
    BY <1>1 DEF Heard
  <2>3. \A e : e \in Heard(t, g) <=> \E k \in 2..n : news[k].gained = g /\ e = news[k].element
    BY <1>3, <1>4, <2>2
  <2>4. 1 \in 1..n /\ \A k \in 2..n : k \in 1..n
    BY <1>1
  <2> QED
    BY <1>5, <2>1, <2>3, <2>4
<1>11. Head(news) \in CallType
  BY <1>1, <1>2
<1>12. \A g \in BOOLEAN :
         Heard(news, g) = Heard(t, g) \union (IF Head(news).gained = g THEN {Head(news).element} ELSE {})
  BY <1>1, <1>10
<1> QED
  BY <1>1, <1>6, <1>8, <1>9, <1>11, <1>12 DEF t, n

\* The news of a move before the gains that wait.
LEMMA HeardBoth ==
  ASSUME NEW news \in Seq(CallType), OneMove(news),
         NEW waiting \in Seq(CallType), AllGains(waiting)
  PROVE  /\ GainsWait(news \o waiting)
         /\ Heard(news \o waiting, FALSE) = Heard(news, FALSE)
         /\ Heard(news \o waiting, TRUE) = Heard(news, TRUE) \union Heard(waiting, TRUE)
<1> DEFINE s == news \o waiting
           m == Len(news)
           n == Len(waiting)
<1>1. /\ m \in Nat /\ n \in Nat /\ m <= 2 /\ DOMAIN news = 1..m /\ DOMAIN waiting = 1..n
      /\ DOMAIN s = 1..(m + n) /\ Len(s) = m + n
      /\ \A k \in 1..(m + n) : s[k] = IF k <= m THEN news[k] ELSE waiting[k - m]
  <2>1. m \in Nat /\ n \in Nat /\ DOMAIN news = 1..m /\ DOMAIN waiting = 1..n
    OBVIOUS
  <2>2. m <= 2
    BY DEF OneMove
  <2>3. /\ s \in Seq(CallType) /\ Len(s) = m + n
        /\ \A k \in 1..(m + n) : s[k] = IF k <= m THEN news[k] ELSE waiting[k - m]
    BY ConcatProperties
  <2>4. DOMAIN s = 1..(m + n)
    BY <2>3
  <2> QED
    BY <2>1, <2>2, <2>3, <2>4
<1>2. m = 2 => news[2].gained
  BY DEF OneMove
<1>3. \A k \in 1..n : waiting[k].gained = TRUE /\ waiting[k] \in CallType
  <2> TAKE k \in 1..n
  <2>1. waiting[k] \in CallType /\ waiting[k].gained
    BY <1>1 DEF AllGains
  <2> QED
    BY <2>1 DEF CallType
<1> HIDE DEF s, m, n
<1>4. \A k \in 1..m : k \in 1..(m + n) /\ s[k] = news[k]
  BY <1>1
<1>5. \A k \in 1..n : k + m \in 1..(m + n) /\ s[k + m] = waiting[k]
  BY <1>1
<1>6. \A k \in 1..(m + n) : \/ k \in 1..m /\ s[k] = news[k]
                            \/ k - m \in 1..n /\ s[k] = waiting[k - m]
  BY <1>1
<1>7. GainsWait(s)
  <2> SUFFICES ASSUME NEW k \in 2..(m + n) PROVE s[k].gained
    BY <1>1 DEF GainsWait
  <2>1. CASE k <= m
    <3>1. k = 2 /\ m = 2
      BY <1>1, <2>1
    <3> QED
      BY <1>2, <1>4, <3>1
  <2>2. CASE ~(k <= m)
    <3>1. k - m \in 1..n /\ s[k] = waiting[k - m]
      BY <1>1, <2>2
    <3> QED
      BY <1>3, <3>1
  <2> QED
    BY <2>1, <2>2
<1>8. ASSUME NEW g \in BOOLEAN PROVE Heard(s, g) = Heard(news, g) \union Heard(waiting, g)
  <2>1. \A e : e \in Heard(s, g) <=> \E k \in 1..(m + n) : s[k].gained = g /\ e = s[k].element
    BY <1>1 DEF Heard
  <2>2. \A e : e \in Heard(news, g) <=> \E k \in 1..m : news[k].gained = g /\ e = news[k].element
    BY <1>1 DEF Heard
  <2>3. \A e : e \in Heard(waiting, g) <=> \E k \in 1..n : waiting[k].gained = g /\ e = waiting[k].element
    BY <1>1 DEF Heard
  <2> QED
    BY <1>4, <1>5, <1>6, <2>1, <2>2, <2>3
<1>9. Heard(waiting, FALSE) = {}
  BY <1>1, <1>3 DEF Heard
<1> QED
  BY <1>7, <1>8, <1>9 DEF s

\* A step that leaves the elements where they are.
LEMMA LitStep ==
  ASSUME UNCHANGED <<slid, built, entries>>, lit' \subseteq Live, GainsWait(calls'),
         NEW W, W = (lit' \ Heard(calls', FALSE)) \union (Heard(calls', TRUE) \intersect Live),
         NEW H, H = ElementsOf(entries, focused') \intersect Live,
         TheirOwn(H) \subseteq W, TheirOwn(W) \subseteq H \union overtaken'
  PROVE  LitInv'
<1>1. Live' = Live
  BY DEF Live, NodesOf
<1>2. WillBeLit' = W
  BY <1>1 DEF WillBeLit
<1>3. Holders' = H
  BY <1>1 DEF Holders, ElementsOf
<1>4. TheirOwn(Holders)' = TheirOwn(H) /\ TheirOwn(WillBeLit)' = TheirOwn(W)
  BY <1>2, <1>3 DEF TheirOwn
<1> QED
  BY <1>1, <1>2, <1>3, <1>4 DEF LitInv

\* A move, or none, before the gains that wait: they are overtaken by it.
LEMMA MoveCarriesTheLight ==
  ASSUME StructureInv, UNCHANGED <<slid, built, entries>>, lit' \subseteq Live,
         NEW waiting \in Seq(CallType), AllGains(waiting), Heard(waiting, FALSE) = {},
         NEW id, MoveTo(id, waiting),
         NEW W, W = lit' \union (Heard(waiting, TRUE) \intersect Live),
         NEW late, TheirOwn(Holders) \subseteq W, TheirOwn(W) \subseteq Holders \union late,
         overtaken' = IF focused' = focused THEN late ELSE late \union Heard(waiting, TRUE)
  PROVE  LitInv'
<1>1. CASE id = focused \/ id \notin Ids(entries) \union {None}
  <2>1. focused' = focused /\ calls' = waiting /\ overtaken' = late
    BY <1>1 DEF MoveTo
  <2>2. W = (lit' \ Heard(calls', FALSE)) \union (Heard(calls', TRUE) \intersect Live)
    BY <2>1
  <2>3. GainsWait(calls')
    BY <2>1 DEF AllGains, GainsWait
  <2>4. Holders = ElementsOf(entries, focused') \intersect Live
    BY <2>1 DEF Holders
  <2> QED
    BY <2>1, <2>2, <2>3, <2>4, LitStep
<1>2. CASE ~(id = focused \/ id \notin Ids(entries) \union {None})
  <2> DEFINE news == News(entries, focused, id)
             H == ElementsOf(entries, id) \intersect Live
             V == (lit' \ Heard(calls', FALSE)) \union (Heard(calls', TRUE) \intersect Live)
  <2>1. /\ focused' = id /\ calls' = news \o waiting
        /\ overtaken' = late \union Heard(waiting, TRUE)
    BY <1>2 DEF MoveTo
  <2>2. /\ news \in Seq(CallType) /\ OneMove(news)
        /\ Heard(news, FALSE) = ElementsOf(entries, focused)
        /\ Heard(news, TRUE) = ElementsOf(entries, id)
    BY NewsOfAMove DEF StructureInv, TypeInv, OneMove, CallType
  <2> HIDE DEF news
  <2>3. /\ GainsWait(calls') /\ Heard(calls', FALSE) = ElementsOf(entries, focused)
        /\ Heard(calls', TRUE) = ElementsOf(entries, id) \union Heard(waiting, TRUE)
    BY <2>1, <2>2, HeardBoth
  <2>4. TheirOwn(H) \subseteq V
    BY <2>3 DEF TheirOwn
  <2>5. TheirOwn(V) \subseteq H \union overtaken'
    <3> SUFFICES ASSUME NEW e \in V, slid => e[1] = 0 PROVE e \in H \union overtaken'
      BY DEF TheirOwn
    <3>1. CASE e \in lit' /\ e \notin ElementsOf(entries, focused)
      <4>1. e \in TheirOwn(W)
        BY <3>1 DEF TheirOwn
      <4> QED
        BY <2>1, <3>1, <4>1 DEF Holders
    <3>2. CASE e \in (ElementsOf(entries, id) \union Heard(waiting, TRUE)) \intersect Live
      BY <2>1, <3>2
    <3> QED
      BY <2>3, <3>1, <3>2
  <2> HIDE DEF V, H
  <2>6. /\ V = (lit' \ Heard(calls', FALSE)) \union (Heard(calls', TRUE) \intersect Live)
        /\ H = ElementsOf(entries, focused') \intersect Live
    BY <2>1 DEF V, H
  <2> QED
    BY <2>3, <2>4, <2>5, <2>6, LitStep
<1> QED
  BY <1>1, <1>2

\* When nothing waits to be told, what is lit is the keyboard's, or was overtaken.
LEMMA QuietLit ==
  ASSUME LitInv, calls = <<>>
  PROVE  /\ lit \subseteq Live /\ TheirOwn(Holders) \subseteq lit
         /\ TheirOwn(lit) \subseteq Holders \union overtaken
<1>1. WillBeLit = lit
  BY NoNews DEF WillBeLit
<1> QED
  BY <1>1 DEF LitInv

\* A move of the keyboard.
LEMMA MoversLit ==
  ASSUME StructureInv, LitInv, Idle, UNCHANGED <<slid, built, entries, lit, overtaken>>,
         NEW id, MoveTo(id, <<>>)
  PROVE  LitInv'
<1>1. /\ lit \subseteq Live /\ TheirOwn(Holders) \subseteq lit
      /\ TheirOwn(lit) \subseteq Holders \union overtaken
  BY QuietLit DEF Idle
<1>2. AllGains(<<>>) /\ Heard(<<>>, FALSE) = {} /\ Heard(<<>>, TRUE) = {}
  <2>1. AllGains(<<>>)
    BY DEF AllGains
  <2> QED
    BY <2>1, NoNews
<1>5. <<>> \in Seq(CallType)
  OBVIOUS
<1>3. lit = lit' \union (Heard(<<>>, TRUE) \intersect Live)
  BY <1>2
<1>4. overtaken' = IF focused' = focused THEN overtaken ELSE overtaken \union Heard(<<>>, TRUE)
  BY <1>2
<1> QED
  BY <1>1, <1>2, <1>3, <1>4, <1>5, MoveCarriesTheLight

\* A call of on_focus_change: the element hears of it, and the handler may move the
\* keyboard on over what waits.
LEMMA TellLit ==
  ASSUME StructureInv, LitInv, Tell PROVE LitInv'
<1> DEFINE news == Head(calls)
           rest == Tail(calls)
           waiting == {calls[k].element : k \in 2..Len(calls)}
           late == IF news.gained \/ news.element \in waiting THEN overtaken
                                                             ELSE overtaken \ {news.element}
           W == lit' \union (Heard(rest, TRUE) \intersect Live)
<1>1. /\ calls \in Seq(CallType) /\ GainsWait(calls) /\ calls # <<>>
      /\ UNCHANGED <<slid, built, entries>>
      /\ lit' = IF news.gained /\ news.element \in Live THEN lit \union {news.element}
                                                       ELSE lit \ {news.element}
  BY DEF Tell, StructureInv, TypeInv, CallType, LitInv, IsLive, Live
<1>2. /\ rest \in Seq(CallType) /\ AllGains(rest) /\ news \in CallType
      /\ Heard(rest, FALSE) = {} /\ Heard(rest, TRUE) = waiting
      /\ \A g \in BOOLEAN : Heard(calls, g) = Heard(rest, g)
                              \union (IF news.gained = g THEN {news.element} ELSE {})
  BY <1>1, HeardFirst
<1>3. lit \subseteq Live /\ lit' \subseteq Live
  BY <1>1 DEF LitInv
<1>4. news.gained \in BOOLEAN
  BY <1>2 DEF CallType
<1>5. \/ calls' = rest /\ overtaken' = late /\ UNCHANGED focused
      \/ /\ \E id : MoveTo(id, rest)
         /\ overtaken' = IF focused' = focused THEN late ELSE late \union waiting
  BY DEF Tell
<1> HIDE DEF news, rest, waiting, late, W
<1>6. W = WillBeLit /\ (~news.gained /\ news.element \notin waiting => news.element \notin W)
  <2>1. CASE news.gained = TRUE
    <3>1. Heard(calls, TRUE) = waiting \union {news.element} /\ Heard(calls, FALSE) = {}
      BY <1>2, <2>1
    <3> QED
      BY <1>1, <1>2, <1>3, <2>1, <3>1 DEF W, WillBeLit
  <2>2. CASE news.gained = FALSE
    <3>1. Heard(calls, TRUE) = waiting /\ Heard(calls, FALSE) = {news.element}
      BY <1>2, <2>2
    <3> QED
      BY <1>1, <1>2, <2>2, <3>1 DEF W, WillBeLit
  <2> QED
    BY <1>4, <2>1, <2>2
<1>7. TheirOwn(Holders) \subseteq W /\ TheirOwn(W) \subseteq Holders \union late
  <2>1. TheirOwn(Holders) \subseteq W /\ TheirOwn(W) \subseteq Holders \union overtaken
    BY <1>6 DEF LitInv
  <2>2. \A e \in TheirOwn(W) : e \in overtaken => e \in late
    BY <1>6 DEF TheirOwn, late
  <2> QED
    BY <2>1, <2>2
<1>8. W = lit' \union (Heard(rest, TRUE) \intersect Live)
  BY DEF W
<1>9. CASE calls' = rest /\ overtaken' = late /\ UNCHANGED focused
  <2>1. GainsWait(calls')
    BY <1>2, <1>9 DEF AllGains, GainsWait
  <2>2. W = (lit' \ Heard(calls', FALSE)) \union (Heard(calls', TRUE) \intersect Live)
    BY <1>2, <1>8, <1>9
  <2>3. Holders = ElementsOf(entries, focused') \intersect Live
    BY <1>9 DEF Holders
  <2> QED
    BY <1>1, <1>3, <1>7, <1>9, <2>1, <2>2, <2>3, LitStep
<1>10. ASSUME NEW id, MoveTo(id, rest),
              overtaken' = IF focused' = focused THEN late ELSE late \union waiting
       PROVE  LitInv'
  BY <1>1, <1>2, <1>3, <1>7, <1>8, <1>10, MoveCarriesTheLight
<1> QED
  BY <1>5, <1>9, <1>10

\* A step that moves no keyboard and tells nothing, though it may say that a
\* layer's elements are no longer told apart.
LEMMA QuietStepLit ==
  ASSUME LitInv, UNCHANGED <<built, entries, focused, lit, calls, overtaken>>, slid => slid'
  PROVE  LitInv'
<1>1. Live' = Live
  BY DEF Live, NodesOf
<1>2. WillBeLit' = WillBeLit /\ Holders' = Holders
  BY <1>1 DEF WillBeLit, Holders, ElementsOf
<1>3. \A S : {e \in S : slid' => e[1] = 0} \subseteq TheirOwn(S)
  BY DEF TheirOwn
<1>4. TheirOwn(Holders)' = {e \in Holders : slid' => e[1] = 0}
  BY <1>2 DEF TheirOwn
<1>5. TheirOwn(WillBeLit)' = {e \in WillBeLit : slid' => e[1] = 0}
  BY <1>2 DEF TheirOwn
<1> QED
  BY <1>1, <1>2, <1>3, <1>4, <1>5 DEF LitInv

\* show_modal touches no highlight.
LEMMA ShowLit ==
  ASSUME LitInv, NEW d \in Dialogs, Show(d) PROVE LitInv'
BY QuietStepLit DEF Show

\* Nor does a new page.
LEMMA ChangePageLit ==
  ASSUME LitInv, ChangePage PROVE LitInv'
BY QuietStepLit DEF ChangePage

\* Nor does a dismissal.
LEMMA DismissLit ==
  ASSUME LitInv, NEW d \in Dialogs, Dismiss(d) PROVE LitInv'
BY QuietStepLit DEF Dismiss
-----------------------------------------------------------------------------
(* The highlight across a frame.                                           *)

\* A field that keeps its element, or whose state is not told apart by it, has it
\* before and after the frame.
LEMMA SameElement ==
  ASSUME StructureInv, NEW m \in Range(entries), NEW n \in Items(Now), m.id = n.id,
         (slid => m.element[1] = 0) \/ (slid => n.element[1] = 0)
  PROVE  m.element = n.element
<1>1. \/ n.id \in Fields /\ n = Node(n.id, <<0, n.id>>)
      \/ \E l \in DOMAIN modals : n \in DialogItems(modals[l], l)
  <2>1. \/ n \in PageItems(page)
        \/ \E l \in DOMAIN modals : n \in DialogItems(modals[l], l)
    BY NowList DEF Items
  <2>2. n \in PageItems(page) => n.id \in Fields /\ n = Node(n.id, <<0, n.id>>)
    <3>1. \A f \in Range(page) : f \in Fields
      BY NowList DEF Range
    <3> QED
      BY <3>1 DEF PageItems, Node
  <2> QED
    BY <2>1, <2>2
<1>2. CASE n.id \in Fields /\ n = Node(n.id, <<0, n.id>>)
  BY <1>2 DEF StructureInv, EntriesInv, Node
<1>3. ASSUME NEW l \in DOMAIN modals, n \in DialogItems(modals[l], l) PROVE m.element = n.element
  <2> DEFINE d == modals[l]
  <2>1. d \in Dialogs /\ d \in Range(modals) /\ l > 0
    BY Modals DEF StructureInv
  <2>2. n.element[1] = l /\ n.id \in Inside(d) \union {d}
    <3>1. \A k \in DOMAIN DialogFields[d] : DialogFields[d][k] \in Inside(d)
      BY DEF Inside, Range
    <3> QED
      BY <1>3, <3>1 DEF DialogItems, Node
  <2>3. d \in Shown /\ m.element[1] > 0
    <3>1. d \in Shown \union closed /\ m.element[1] > 0
      BY <2>1, <2>2 DEF StructureInv, EntriesInv
    <3>2. d \notin closed
      BY <2>1 DEF StructureInv, TypeInv, TypeOK
    <3> QED
      BY <3>1, <3>2
  <2>4. PICK k \in DOMAIN built.modals : built.modals[k] = d
    BY <2>3 DEF Shown, Range
  <2>5. m \in DialogItems(d, k)
    BY <2>2, <2>4, EntryOfShown
  <2>6. l = k
    <3>1. ~slid
      BY <2>1, <2>2, <2>3
    <3> QED
      BY <2>4, <3>1 DEF StructureInv, OrderInv
  <2>7. ASSUME NEW x \in DialogItems(d, l), NEW y \in DialogItems(d, l), x.id = y.id PROVE x = y
    <3>1. \A z \in DialogItems(d, l) :
            \/ z = Node(d, <<l, 0>>) /\ z.id = d
            \/ \E j \in DOMAIN DialogFields[d] :
                 z = Node(DialogFields[d][j], <<l, j>>) /\ z.id = DialogFields[d][j]
      BY DEF DialogItems, Node
    <3>2. /\ IsInjective(DialogFields[d])
          /\ \A j \in DOMAIN DialogFields[d] : DialogFields[d][j] \in AllFields
          /\ d \notin AllFields
      BY <2>1, DialogFacts
    <3>3. CASE x.id = d
      BY <2>7, <3>1, <3>2, <3>3
    <3>4. CASE x.id # d
      <4>1. PICK i \in DOMAIN DialogFields[d] :
              x = Node(DialogFields[d][i], <<l, i>>) /\ x.id = DialogFields[d][i]
        BY <3>1, <3>4
      <4>2. PICK j \in DOMAIN DialogFields[d] :
              y = Node(DialogFields[d][j], <<l, j>>) /\ y.id = DialogFields[d][j]
        BY <2>7, <3>1, <3>4
      <4>3. i = j
        BY <2>7, <3>2, <4>1, <4>2 DEF IsInjective
      <4> QED
        BY <4>1, <4>2, <4>3
    <3> QED
      BY <3>3, <3>4
  <2> QED
    BY <1>3, <2>5, <2>6, <2>7
<1> QED
  BY <1>1, <1>2, <1>3

\* A frame: what has gone is not lit, and the news of the grant carry the rest.
LEMMA FrameLit ==
  ASSUME StructureInv, LitInv, Frame PROVE LitInv'
<1> DEFINE LiveNow == {n.element : n \in Items(Now)}
           reg == entries'
           won == ElementsOf(reg, focused')
           lost == ElementsOf(reg, Holder)
<1>1. /\ slid' = slid /\ built' = Now /\ lit' = lit \intersect LiveNow /\ calls = <<>>
      /\ overtaken' = overtaken \intersect LiveNow
      /\ calls' = IF focused' = Holder THEN <<>> ELSE News(reg, Holder, focused')
      /\ reg \in Seq(NodeType) /\ Distinct(reg)
  BY FrameShape
<1>2. Live' = LiveNow
  <2>1. NodesOf(built)' = NodesOf(Now)
    BY <1>1 DEF NodesOf
  <2> QED
    BY <2>1, NowList DEF Live
<1>3. /\ lit \subseteq Live /\ TheirOwn(Holders) \subseteq lit
      /\ TheirOwn(lit) \subseteq Holders \union overtaken
  BY <1>1, QuietLit
<1>4. ASSUME NEW e \in LiveNow, slid => e[1] = 0, e \in lit, e \notin overtaken PROVE e \in lost
  <2>1. e \in ElementsOf(entries, focused) /\ e \in Live
    <3>1. e \in TheirOwn(lit)
      BY <1>4 DEF TheirOwn
    <3> QED
      BY <1>3, <1>4, <3>1 DEF Holders
  <2>2. PICK m \in Range(entries) : m.id = focused /\ m.id \in AllFields /\ m.element = e
    BY <2>1 DEF ElementsOf
  <2>3. m \in Range(Kept)
    BY <2>1, <2>2, KeptList
  <2>4. Holder = focused
    BY <2>2, <2>3 DEF Holder, Ids
  <2>5. \E n \in Range(reg) : n.id = focused /\ n.element = e
    <3>1. CASE m.id \in Ids(NodesOf(Now))
      <4>1. PICK n \in Items(Now) : n.id = m.id
        BY <3>1, NowList
      <4>2. n.element = e
        BY <1>4, <2>2, <4>1, SameElement
      <4>3. n \in Range(reg)
        BY FrameShape
      <4> QED
        BY <2>2, <4>1, <4>2, <4>3
    <3>2. CASE m.id \notin Ids(NodesOf(Now))
      <4>1. m \in Range(reg)
        BY <2>3, <3>2, FrameShape
      <4> QED
        BY <2>2, <4>1
    <3> QED
      BY <3>1, <3>2
  <2> QED
    BY <2>2, <2>4, <2>5 DEF ElementsOf
<1>5. ASSUME NEW e \in LiveNow, slid => e[1] = 0, e \in lost PROVE e \in lit
  <2>1. PICK n \in Range(reg) : n.id = Holder /\ n.id \in AllFields /\ n.element = e
    BY <1>5 DEF ElementsOf
  <2>2. Holder # None
    BY <2>1, DialogFacts
  <2>3. Holder = focused
    BY <2>2 DEF Holder
  <2>4. PICK m \in Range(entries) :
          /\ m.id = focused /\ m.element \in Live
          /\ n = m \/ (n \in Items(Now) /\ n.id \in Ids(NodesOf(Now)))
    BY <2>1, <2>2, HolderNode
  <2>5. m.element = e
    <3>1. CASE n = m
      BY <2>1, <3>1
    <3>2. CASE n \in Items(Now)
      BY <1>5, <2>1, <2>3, <2>4, <3>2, SameElement
    <3> QED
      BY <2>4, <3>1, <3>2
  <2>6. e \in ElementsOf(entries, focused)
    BY <2>1, <2>3, <2>4, <2>5 DEF ElementsOf
  <2>7. e \in TheirOwn(Holders)
    BY <1>5, <2>4, <2>5, <2>6 DEF TheirOwn, Holders
  <2> QED
    BY <1>3, <2>7
<1> DEFINE W == (lit' \ Heard(calls', FALSE)) \union (Heard(calls', TRUE) \intersect LiveNow)
           H == won \intersect LiveNow
<1> HIDE DEF LiveNow, reg, won, lost
<1>6. /\ GainsWait(calls')
      /\ TheirOwn(H) \subseteq W /\ TheirOwn(W) \subseteq H \union overtaken'
  <2>1. CASE focused' = Holder
    <3>1. calls' = <<>> /\ won = lost
      BY <1>1, <2>1 DEF won, lost
    <3>2. GainsWait(calls') /\ W = lit'
      BY <3>1, NoNews
    <3>3. TheirOwn(H) \subseteq W
      BY <1>1, <1>5, <3>1, <3>2 DEF TheirOwn
    <3>4. TheirOwn(W) \subseteq H \union overtaken'
      BY <1>1, <1>4, <3>1, <3>2 DEF TheirOwn
    <3> QED
      BY <3>2, <3>3, <3>4
  <2>2. CASE focused' # Holder
    <3> DEFINE f == focused'
    <3>1. calls' = News(reg, Holder, f)
      BY <1>1, <2>2
    <3> HIDE DEF f
    <3>2. GainsWait(calls') /\ Heard(calls', FALSE) = lost /\ Heard(calls', TRUE) = ElementsOf(reg, f)
      <4> DEFINE news == News(reg, Holder, f)
                 n == Len(news)
      <4>1. OneMove(news) /\ Heard(news, FALSE) = ElementsOf(reg, Holder) /\ Heard(news, TRUE) = ElementsOf(reg, f)
        BY <1>1, NewsOfAMove
      <4>2. calls' = news
        BY <3>1
      <4> HIDE DEF news
      <4>3. n <= 2 /\ (n = 2 => news[2].gained)
        BY <4>1 DEF OneMove
      <4>4. n \in Nat
        BY <4>1, LenProperties DEF OneMove
      <4> HIDE DEF n
      <4>5. \A k \in 2..n : k = 2 /\ n = 2
        BY <4>3, <4>4
      <4>6. GainsWait(news)
        BY <4>3, <4>5 DEF GainsWait, n
      <4> HIDE DEF reg
      <4>7. ElementsOf(reg, Holder) = lost
        BY DEF lost
      <4>8. Heard(calls', FALSE) = Heard(news, FALSE) /\ Heard(calls', TRUE) = Heard(news, TRUE)
        BY <4>2 DEF Heard
      <4> QED
        BY <4>1, <4>2, <4>6, <4>7, <4>8
    <3>3. won = ElementsOf(reg, f)
      BY DEF won, f
    <3>4. TheirOwn(H) \subseteq W
      BY <3>2, <3>3 DEF TheirOwn
    <3>5. TheirOwn(W) \subseteq H \union overtaken'
      BY <1>1, <1>4, <3>2, <3>3 DEF TheirOwn
    <3> QED
      BY <3>2, <3>4, <3>5
  <2> QED
    BY <2>1, <2>2
<1>7. WillBeLit' = W
  BY <1>2 DEF WillBeLit, W
<1>8. Holders' = H
  BY <1>2 DEF Holders, H, won, reg, ElementsOf
<1> HIDE DEF W, H
<1>9. TheirOwn(Holders)' = TheirOwn(H) /\ TheirOwn(WillBeLit)' = TheirOwn(W)
  BY <1>1, <1>7, <1>8 DEF TheirOwn
<1> QED
  BY <1>1, <1>2, <1>6, <1>7, <1>8, <1>9 DEF LitInv
-----------------------------------------------------------------------------
(* The theorems.                                                           *)

\* The first state.
LEMMA InitHolds ==
  ASSUME Init PROVE StructureInv /\ PlaceInv /\ LitInv
<1>1. /\ built = [page |-> <<>>, modals |-> <<>>] /\ modals = <<>> /\ closed = {}
      /\ slid = FALSE /\ strayed = FALSE /\ entries = <<>> /\ focused = None /\ askedTraps = {}
      /\ lit = {} /\ calls = <<>> /\ wake = "rebuild" /\ page \in Pages
  BY DEF Init
<1>2. built \in [page : Seq(Fields), modals : Seq(Dialogs)] /\ built.page = <<>> /\ built.modals = <<>>
  BY <1>1
<1>3. TypeInv
  <2>1. Range(<<>>) = {} /\ Ids(<<>>) = {} /\ Distinct(<<>>) /\ IsInjective(<<>>)
    BY DEF Range, Ids, Distinct, IsInjective
  <2>2. \A S : <<>> \in Seq(S)
    OBVIOUS
  <2>3. modals \in Seq(Dialogs) /\ IsInjective(modals) /\ Range(modals) = {}
    BY <1>1, <2>1, <2>2
  <2>4. Ids(entries) = {} /\ DOMAIN calls = {}
    BY <1>1, <2>1
  <2>5. TypeOK
    BY <1>1, <1>2, <2>3, <2>4 DEF TypeOK
  <2> QED
    BY <1>1, <1>2, <2>1, <2>2, <2>5 DEF TypeInv
<1>4. Items(built) = {}
  BY <1>2 DEF Items, PageItems, Range
<1>5. Range(NodesOf(built)) = {}
  BY <1>3, <1>4, Built
<1>6. Shown = {} /\ Range(modals) = {} /\ Range(entries) = {}
  BY <1>1, <1>2 DEF Shown, Range
<1>7. BuildInv
  BY <1>1, <1>5, <1>6 DEF BuildInv
<1>8. OrderInv
  BY <1>1 DEF OrderInv
<1>9. EntriesInv
  BY <1>1, <1>6 DEF EntriesInv
<1>10. PlaceInv
  BY <1>6 DEF PlaceInv
<1>11. LitInv
  <2>1. WillBeLit = {} /\ GainsWait(calls)
    BY <1>1, NoNews DEF WillBeLit
  <2>2. Holders = {}
    BY <1>6 DEF ElementsOf, Holders
  <2> QED
    BY <1>1, <2>1, <2>2 DEF LitInv, TheirOwn
<1> QED
  BY <1>3, <1>7, <1>8, <1>9, <1>10, <1>11 DEF StructureInv

\* Every step leaves the registry sound.
LEMMA StructureStep ==
  ASSUME StructureInv, [Next]_vars PROVE StructureInv'
<1>1. CASE \E id \in AllFields \union Dialogs : Tap(id)
  BY <1>1, TapMoves, MovesStructure
<1>2. CASE \E id \in AllFields : Request(id)
  BY <1>2, RequestMoves, MovesStructure
<1>3. CASE \E direction \in {1, -1} : Step(direction)
  BY <1>3, StepMoves, MovesStructure
<1>4. CASE Unfocus
  BY <1>4, UnfocusMoves, MovesStructure
<1>5. CASE Tell
  BY <1>5, TellMoves, MovesStructure
<1>6. CASE ChangePage
  BY <1>6, ChangePageStructure
<1>7. CASE Frame
  BY <1>7, FrameStructure
<1>8. CASE \E d \in Dialogs : Show(d) \/ Dismiss(d)
  BY <1>8, ShowStructure, DismissStructure
<1>9. CASE UNCHANGED vars
  <2>1. TypeInv'
    BY <1>9 DEF StructureInv, TypeInv, TypeOK, Ids, vars
  <2>2. BuildInv'
    BY <1>9 DEF StructureInv, BuildInv, Shown, NodesOf, vars
  <2>3. OrderInv'
    BY <1>9 DEF StructureInv, OrderInv, Shown, vars
  <2>4. EntriesInv'
    BY <1>9 DEF StructureInv, EntriesInv, Shown, Live, NodesOf, vars
  <2> QED
    BY <2>1, <2>2, <2>3, <2>4 DEF StructureInv
<1> QED
  BY <1>1, <1>2, <1>3, <1>4, <1>5, <1>6, <1>7, <1>8, <1>9 DEF Next

\* Every step leaves the keyboard placed.
LEMMA PlaceStep ==
  ASSUME StructureInv, PlaceInv, [Next]_vars PROVE PlaceInv'
<1>1. CASE \E id \in AllFields \union Dialogs : Tap(id)
  BY <1>1, TapMoves, MovesPlace
<1>2. CASE \E id \in AllFields : Request(id)
  BY <1>2, RequestMoves, MovesPlace
<1>3. CASE \E direction \in {1, -1} : Step(direction)
  BY <1>3, StepMoves, MovesPlace
<1>4. CASE Unfocus
  BY <1>4, UnfocusMoves, MovesPlace
<1>5. CASE Tell
  BY <1>5, TellMoves, MovesPlace
<1>6. CASE ChangePage
  BY <1>6 DEF ChangePage, PlaceInv, Placed, Shown
<1>7. CASE Frame
  BY <1>7, FramePlace
<1>8. CASE \E d \in Dialogs : Show(d) \/ Dismiss(d)
  BY <1>8, ShowPlace, DismissPlace
<1>9. CASE UNCHANGED vars
  BY <1>9 DEF PlaceInv, Placed, Shown, vars
<1> QED
  BY <1>1, <1>2, <1>3, <1>4, <1>5, <1>6, <1>7, <1>8, <1>9 DEF Next

\* Every step leaves the highlight with the keyboard or its news on their way.
LEMMA LitStepOfNext ==
  ASSUME StructureInv, LitInv, [Next]_vars PROVE LitInv'
<1>1. CASE \E id \in AllFields \union Dialogs : Tap(id)
  BY <1>1, MoversLit DEF Tap
<1>2. CASE \E id \in AllFields : Request(id)
  BY <1>2, MoversLit DEF Request
<1>3. ASSUME NEW direction \in {1, -1}, Step(direction) PROVE LitInv'
  <2>1. \E id \in Range(TraversalOrder(entries)) : MoveTo(id, <<>>)
    BY <1>3, StepTarget
  <2> QED
    BY <1>3, <2>1, MoversLit DEF Step
<1>4. CASE Unfocus
  BY <1>4, MoversLit DEF Unfocus
<1>5. CASE Tell
  BY <1>5, TellLit
<1>6. CASE ChangePage
  BY <1>6, ChangePageLit
<1>7. CASE Frame
  BY <1>7, FrameLit
<1>8. CASE \E d \in Dialogs : Show(d) \/ Dismiss(d)
  BY <1>8, ShowLit, DismissLit
<1>9. CASE UNCHANGED vars
  BY <1>9, QuietStepLit DEF vars
<1> QED
  BY <1>1, <1>2, <1>3, <1>4, <1>5, <1>6, <1>7, <1>8, <1>9 DEF Next

\* The registry has one node an id, the keyboard is on one of them or nowhere, and
\* every node of the last build is among them, for any pages and modals, whoever
\* asks and however the entries were put in each other's place (focus.rs,
\* register, focus, prune, apply_pending_autofocus).
THEOREM FocusInvHolds == Spec => []FocusInv
<1>1. Init => StructureInv
  BY InitHolds
<1>2. StructureInv /\ [Next]_vars => StructureInv'
  BY StructureStep
<1>3. StructureInv => FocusInv
  BY DEF StructureInv, TypeInv, BuildInv, FocusInv, Distinct
<1> QED
  BY <1>1, <1>2, <1>3, PTL DEF Spec

\* A settled screen shows what was built, and registers nothing that is gone.
LEMMA SettledScreen ==
  ASSUME StructureInv, Settled
  PROVE  /\ built = Now /\ Shown = Range(modals)
         /\ Items(Now) \subseteq Range(entries)
         /\ \A n \in Range(entries) : \E m \in Items(Now) : m.element = n.element
<1>1. wake = "no" /\ built = Now
  BY DEF Settled, StructureInv, BuildInv, Now
<1>2. Range(NodesOf(built)) = Items(Now)
  BY <1>1, NowList
<1>3. Items(Now) \subseteq Range(entries)
  BY <1>2 DEF StructureInv, BuildInv
<1>4. \A n \in Range(entries) : n.element \in Live
  BY <1>1 DEF StructureInv, EntriesInv
<1> QED
  BY <1>1, <1>2, <1>3, <1>4, NowList DEF Shown, Live

\* A settled page without modals has all that is registered.
LEMMA SettledPage ==
  ASSUME StructureInv, Settled, modals = <<>>
  PROVE  Ids(entries) = Range(page) /\ Range(page) \subseteq Fields
<1>1. Range(page) \subseteq Fields
  BY NowList, RangeOfSeq
<1>2. Items(Now) = PageItems(page)
  <2>1. DOMAIN modals = {}
    OBVIOUS
  <2> QED
    BY <2>1, NowList DEF Items
<1>3. ASSUME NEW f \in Range(page) PROVE f \in Ids(entries)
  <2>1. Node(f, <<0, f>>) \in Range(entries)
    BY <1>2, SettledScreen DEF PageItems
  <2> QED
    BY <2>1 DEF Ids, Node
<1>4. ASSUME NEW n \in Range(entries) PROVE n.id \in Range(page)
  <2>1. PICK f \in Range(page) : n.element = <<0, f>>
    BY <1>2, SettledScreen DEF PageItems, Node
  <2>2. n.id \in Fields
    <3>1. n.id \in AllFields \union Dialogs
      BY DEF StructureInv, TypeInv, TypeOK, Ids
    <3>2. \A d \in Dialogs : n.id \notin Inside(d) \union {d}
      BY <2>1 DEF StructureInv, EntriesInv
    <3> QED
      BY <3>1, <3>2, DialogFacts
  <2>3. n.element = <<0, n.id>>
    BY <2>2 DEF StructureInv, EntriesInv
  <2> QED
    BY <2>1, <2>3
<1> QED
  BY <1>1, <1>3, <1>4 DEF Ids

\* Tab goes round what the user can use.
LEMMA SettledStops ==
  ASSUME StructureInv, Settled PROVE Range(TraversalOrder(entries)) = Reachable
<1>1. entries \in Seq(NodeType)
  BY DEF StructureInv, TypeInv
<1>2. CASE modals = <<>>
  <2>1. Range(TraversalOrder(entries)) =
        {id \in Ids(entries) \intersect AllFields :
           WithinTrap(id) /\ (id \in Fields \/ \E e \in Dialogs \intersect Ids(entries) : id \in Inside(e))}
    BY <1>1, StopList
  <2>2. Ids(entries) = Range(page) /\ Range(page) \subseteq Fields /\ Fields \subseteq AllFields
    BY <1>2, SettledPage, DialogFacts
  <2>3. \A id : WithinTrap(id)
    BY <1>2 DEF WithinTrap, ActiveTrap
  <2> QED
    BY <1>2, <2>1, <2>2, <2>3 DEF Reachable
<1>3. CASE modals # <<>>
  <2>1. Range(TraversalOrder(entries)) = Inside(ActiveTrap)
    BY <1>1, <1>3, SettledScreen, TrapStops
  <2> QED
    BY <1>3, <2>1 DEF Reachable, ActiveTrap
<1> QED
  BY <1>2, <1>3

\* A node that is placed is, once settled, in front of the user.
LEMMA SettledPlace ==
  ASSUME StructureInv, PlaceInv, Settled, ~strayed, \A d \in Range(modals) \union closed : Inside(d) # {}
  PROVE  focused \in Reachable \union {ActiveTrap, None}
<1> SUFFICES ASSUME focused # None PROVE focused \in Reachable \union {ActiveTrap}
  OBVIOUS
<1>1. PICK n \in Range(entries) : n.id = focused
  BY DEF StructureInv, TypeInv, Ids
<1>2. CASE modals = <<>>
  BY <1>1, <1>2, SettledPage DEF Ids, Reachable
<1>3. CASE modals # <<>>
  <2> DEFINE top == Len(modals)
  <2>1. /\ top \in DOMAIN modals /\ ActiveTrap = modals[top]
        /\ \A i \in DOMAIN modals : i <= top /\ i \in Nat /\ modals[i] \in Range(modals)
    BY <1>3, Modals DEF StructureInv
  <2>2. \A i \in DOMAIN modals : modals[i] \in Shown
    BY <2>1, SettledScreen
  <2>3. ~(top < n.element[1])
    <3>1. PICK m \in Items(Now) : m.element = n.element
      BY SettledScreen
    <3>2. m.element[1] = 0 \/ m.element[1] \in DOMAIN modals
      BY NowList DEF Items, PageItems, DialogItems, Node
    <3> QED
      BY <2>1, <3>1, <3>2
  <2>4. Placed(n)
    BY <1>1 DEF PlaceInv
  <2> HIDE DEF top
  <2>5. PICK j \in DOMAIN modals :
          /\ n.id \in Inside(modals[j]) \union {modals[j]}
          /\ \A i \in DOMAIN modals : modals[i] \in Shown => i <= j
    BY <2>1, <2>2, <2>3, <2>4 DEF Placed
  <2>6. j = top
    BY <2>1, <2>2, <2>5
  <2>7. focused \in Inside(ActiveTrap) \union {ActiveTrap}
    BY <1>1, <2>1, <2>5, <2>6
  <2> QED
    BY <1>3, <2>7 DEF Reachable, ActiveTrap
<1> QED
  BY <1>2, <1>3

\* Once the frames have settled, Tab goes round the fields of the last modal or of
\* the page; and the keyboard is on one of them, on the modal or nowhere, for any
\* number of modals dismissed in any order, if each had a field and the
\* application's own call of focus did not put it outside (focus.rs, prune,
\* trap_focus, traversal_order; theatre.rs, show_modal).
THEOREM KeyboardStaysInFront == Spec => []KeyboardIsWhereTheUserIs
<1>1. Init => StructureInv /\ PlaceInv
  BY InitHolds
<1>2. StructureInv /\ PlaceInv /\ [Next]_vars => (StructureInv /\ PlaceInv)'
  BY StructureStep, PlaceStep
<1>3. StructureInv /\ PlaceInv => KeyboardIsWhereTheUserIs
  BY SettledStops, SettledPlace DEF KeyboardIsWhereTheUserIs
<1> QED
  BY <1>1, <1>2, <1>3, PTL DEF Spec

\* Once the frames have settled, the field that has the keyboard was last told that
\* it has it, however handlers moved it on; and so was no other, but for those
\* whose news came after such a move (focus.rs, focus, unfocus,
\* apply_pending_autofocus; operable).
THEOREM HighlightIsTheKeyboards == Spec => []HighlightFollowsTheKeyboard
<1>1. Init => StructureInv /\ LitInv
  BY InitHolds
<1>2. StructureInv /\ LitInv /\ [Next]_vars => (StructureInv /\ LitInv)'
  BY StructureStep, LitStepOfNext
<1>3. StructureInv /\ LitInv => HighlightFollowsTheKeyboard
  <2> SUFFICES ASSUME StructureInv, LitInv, Settled
               PROVE  /\ TheirOwn(Holding) \subseteq lit
                      /\ TheirOwn(lit) \subseteq Holding \union overtaken
    BY DEF HighlightFollowsTheKeyboard
  <2>1. TheirOwn(Holders) \subseteq lit /\ TheirOwn(lit) \subseteq Holders \union overtaken
    BY QuietLit DEF Settled
  <2>2. Holding = ElementsOf(entries, focused)
    BY DEF Holding, ElementsOf
  <2>3. Holding \subseteq Live
    BY DEF Holding, Settled, StructureInv, EntriesInv
  <2> QED
    BY <2>1, <2>2, <2>3 DEF Holders
<1> QED
  BY <1>1, <1>2, <1>3, PTL DEF Spec

\* The frame that builds a modal gives it the keyboard.
LEMMA FrameOpens ==
  ASSUME StructureInv, Frame, NEW d \in Dialogs,
         d = ActiveTrap, d \in Range(built'.modals) \ Range(built.modals), Inside(d) # {}
  PROVE  focused' \in Inside(d)
<1>1. modals # <<>>
  BY DialogsAreApart DEF ActiveTrap
<1>2. d \in Range(modals) /\ d \notin Shown
  BY FrameShape, NowList DEF Shown
<1>3. d \in askedTraps
  BY <1>2 DEF StructureInv, BuildInv
<1>4. Range(TraversalOrder(entries')) = Inside(d)
  BY <1>1, FrameStops
<1>5. ASSUME focused' \in Asking, WithinTrap(focused') PROVE focused' \in Inside(d)
  <2>1. focused' \in Inside(d) \union {d}
    BY <1>1, <1>5, InTrap DEF StructureInv
  <2> QED
    BY <1>5, <2>1, OnlyFieldsAsk, DialogFacts
<1> QED
  BY <1>3, <1>4, <1>5, FrameGrants

\* A frame that moves the keyboard moves it to what it has just built.
LEMMA FrameFocusesTheNew ==
  ASSUME StructureInv, Frame, focused' \notin {focused, None}
  PROVE  focused' \notin Ids(NodesOf(built)) /\ WithinTrap(focused')
<1>1. \A id \in Ids(NodesOf(built)) : id \in Ids(Kept)
  BY Built, KeptList DEF Ids, StructureInv
<1>2. focused' # Holder
  BY DEF Holder
<1>3. CASE focused' \in Ids(NodesOf(Now)) \intersect (Asking \ Ids(Kept)) /\ WithinTrap(focused')
  BY <1>1, <1>3
<1>4. CASE ActiveTrap \in askedTraps /\ focused' \in Range(TraversalOrder(entries'))
  <2>1. modals # <<>> /\ ActiveTrap \in Dialogs /\ ActiveTrap \notin Shown
    <3>1. askedTraps \subseteq Dialogs
      BY DEF StructureInv, TypeInv, TypeOK
    <3> QED
      BY <1>4, <3>1, DialogsAreApart DEF StructureInv, BuildInv, ActiveTrap
  <2>2. focused' \in Inside(ActiveTrap) /\ WithinTrap(focused')
    BY <1>4, <2>1, FrameStops
  <2>3. ASSUME NEW n \in Items(built), n.id = focused' PROVE FALSE
    <3> DEFINE b == built
    <3>1. b.page \in Seq(Fields) /\ b.modals \in Seq(Dialogs) /\ n \in Items(b)
      BY Built DEF StructureInv
    <3>2. \A l \in DOMAIN b.modals : b.modals[l] \in Dialogs /\ b.modals[l] \in Shown
      BY Modals DEF StructureInv
    <3> HIDE DEF b
    <3>3. \/ n.id \in Fields
          \/ \E l \in DOMAIN b.modals : n.id \in Inside(b.modals[l]) \union {b.modals[l]}
      <4>1. CASE n.id \in Range(b.page)
        BY <3>1, <4>1, ItemForm, RangeOfSeq
      <4>2. CASE n.id \notin Range(b.page)
        <5>1. PICK l \in DOMAIN b.modals :
                \/ n = Node(b.modals[l], <<l, 0>>)
                \/ \E k \in DOMAIN DialogFields[b.modals[l]] :
                      n = Node(DialogFields[b.modals[l]][k], <<l, k>>)
          BY <3>1, <4>2, ItemForm
        <5>2. \A k \in DOMAIN DialogFields[b.modals[l]] :
                DialogFields[b.modals[l]][k] \in Inside(b.modals[l])
          BY DEF Inside, Range
        <5>3. n.id \in Inside(b.modals[l]) \union {b.modals[l]}
          BY <5>1, <5>2 DEF Node
        <5> QED
          BY <5>3
      <4> QED
        BY <4>1, <4>2
    <3> QED
      BY <2>1, <2>2, <2>3, <3>2, <3>3, DialogFacts
  <2>4. focused' \notin Ids(NodesOf(built))
    BY <2>3, Built DEF Ids, StructureInv
  <2> QED
    BY <2>2, <2>4
<1> QED
  BY <1>2, <1>3, <1>4, FrameGrants

\* A frame gives a modal it opens the keyboard, and otherwise moves it only to a
\* field it has just built, within the modal in force (focus.rs, autofocus_node,
\* apply_pending_autofocus; theatre.rs, show_modal).
THEOREM FramesFocusWell == Spec => FramesFocusRightly
<1>1. Init => StructureInv
  BY InitHolds
<1>2. StructureInv /\ [Next]_vars => StructureInv'
  BY StructureStep
<1>3. ASSUME StructureInv, [Next]_vars
      PROVE  [\A d \in Dialogs :
                (d = ActiveTrap /\ d \in Range(built'.modals) \ Range(built.modals) /\ Inside(d) # {})
                => focused' \in Inside(d)]_vars
  <2>1. CASE Frame
    <3>1. \A d \in Dialogs :
            (d = ActiveTrap /\ d \in Range(built'.modals) \ Range(built.modals) /\ Inside(d) # {})
            => focused' \in Inside(d)
      BY <1>3, <2>1, FrameOpens
    <3> QED
      BY <3>1
  <2>2. CASE ~Frame
    <3>1. built' = built
      BY <1>3, <2>2 DEF Next, vars, Tap, Request, Step, Unfocus, Tell, ChangePage, Show, Dismiss
    <3> QED
      BY <3>1
  <2> QED
    BY <2>1, <2>2
<1>4. ASSUME StructureInv, [Next]_vars
      PROVE  [wake' # wake /\ Idle /\ focused' \notin {focused, None}
                => focused' \notin Ids(NodesOf(built)) /\ WithinTrap(focused')]_vars
  <2>1. CASE Frame
    <3>1. focused' \notin {focused, None}
            => focused' \notin Ids(NodesOf(built)) /\ WithinTrap(focused')
      BY <1>4, <2>1, FrameFocusesTheNew
    <3> QED
      BY <3>1
  <2>2. CASE ~Frame
    <3>1. wake' = wake \/ ~Idle \/ focused' = focused
      BY <1>4, <2>2 DEF Next, vars, Tap, Request, Step, Unfocus, Tell, ChangePage, Show, Dismiss, Idle
    <3> QED
      BY <3>1
  <2> QED
    BY <2>1, <2>2
<1> QED
  BY <1>1, <1>2, <1>3, <1>4, PTL DEF Spec, FramesFocusRightly, OpensWithTheKeyboard, FramesFocusOnlyTheNew

-----------------------------------------------------------------------------
(* The recognisers of a press.                                             *)

Buttons == {"primary", "secondary"}

\* Strings are what they are.
LEMMA Innermosts ==
  ASSUME NEW path \in Seq(Regions), NEW want
  PROVE  LET i == Innermost(path, want)
         IN  /\ i \in Regions \cup {NoRegion}
             /\ i # NoRegion => i \in Range(path) /\ want \in Wants[i]
             /\ i = NoRegion <=> \A r \in Range(path) : want \notin Wants[r]
<1> DEFINE S == {r \in Regions : want \in Wants[r]}
           o == Only(path, S)
<1>1. o \in Seq(Regions) /\ Range(o) = Range(path) \intersect S
  BY OnlyPlaces
<1>2. Innermost(path, want) = IF o = <<>> THEN NoRegion ELSE Head(o)
  BY DEF Innermost
<1>3. \A r \in Range(path) : r \in Regions
  BY DEF Range
<1> HIDE DEF o
<1>4. CASE o = <<>>
  <2>1. Range(o) = {}
    BY <1>4 DEF Range
  <2> QED
    BY <1>1, <1>2, <1>3, <1>4, <2>1
<1>5. CASE o # <<>>
  <2>1. Head(o) \in Range(o)
    <3>1. 1 \in DOMAIN o /\ Head(o) = o[1]
      BY <1>1, <1>5
    <3> QED
      BY <3>1 DEF Range
  <2>2. Head(o) \in Regions /\ Head(o) \in Range(path) /\ want \in Wants[Head(o)]
    BY <1>1, <2>1
  <2> QED
    BY <1>2, <1>5, <2>2, NamesAssumption
<1> QED
  BY <1>4, <1>5

\* The kinds a region brings, as a set.
KindSet(path, button, region) ==
  IF button = "secondary" THEN {"secondary"} \intersect Wants[region]
  ELSE {k \in {"tap", "double", "long"} \intersect Wants[region] :
          k = "double" => region = Innermost(path, k)}

\* The recognisers a region brings, as a list and as a set.
LEMMA KindList ==
  ASSUME NEW path \in Seq(Regions), NEW button \in Buttons, NEW region \in Regions
  PROVE  LET list == Kinds(path, button, region)
         IN  /\ list \in Seq(Handlers) /\ IsInjective(list)
             /\ Range(list) = KindSet(path, button, region)
<1> DEFINE one == <<"secondary">>
           three == <<"tap", "double", "long">>
           S == {k \in Wants[region] : k = "double" => region = Innermost(path, k)}
<1>1. /\ one \in Seq(Handlers) /\ Range(one) = {"secondary"} /\ IsInjective(one)
  BY DEF Handlers, Range, IsInjective
<1>2. three \in Seq(Handlers)
  BY DEF Handlers
<1>3. IsInjective(three)
  BY DEF IsInjective
<1>4. Range(three) = {"tap", "double", "long"}
  <2>1. DOMAIN three = {1, 2, 3}
    OBVIOUS
  <2> QED
    BY <2>1 DEF Range
<1>5. CASE button = "secondary"
  <2>1. Kinds(path, button, region) = Only(one, Wants[region])
    BY <1>5 DEF Kinds
  <2> HIDE DEF one
  <2> QED
    BY <1>1, <1>5, <2>1, OnlyPlaces, OnlyDistinct DEF KindSet
<1>6. CASE button # "secondary"
  <2>1. Kinds(path, button, region) = Only(three, S)
    BY <1>6 DEF Kinds
  <2> HIDE DEF three
  <2> QED
    BY <1>2, <1>3, <1>4, <1>6, <2>1, OnlyPlaces, OnlyDistinct DEF KindSet
<1> QED
  BY <1>5, <1>6

\* A region's members are one for each of its kinds.
LEMMA FamilyList ==
  ASSUME NEW path \in Seq(Regions), NEW button \in Buttons, NEW region \in Regions
  PROVE  LET list == Family(path, button, region)
         IN  /\ list \in Seq(Recognisers) /\ IsInjective(list)
             /\ Range(list) = {Member(k, region) : k \in KindSet(path, button, region)}
<1> DEFINE kinds == Kinds(path, button, region)
           list == [i \in DOMAIN kinds |-> Member(kinds[i], region)]
<1>1. kinds \in Seq(Handlers) /\ IsInjective(kinds) /\ Range(kinds) = KindSet(path, button, region)
  BY KindList
<1>2. Family(path, button, region) = list
  BY DEF Family
<1> HIDE DEF kinds
<1>3. DOMAIN kinds = 1..Len(kinds) /\ Len(kinds) \in Nat /\ \A i \in DOMAIN kinds : kinds[i] \in Handlers
  BY <1>1
<1>4. list \in Seq(Recognisers)
  <2>1. \A i \in DOMAIN kinds : Member(kinds[i], region) \in Recognisers
    BY <1>3 DEF Member, Recognisers
  <2>2. list \in [1..Len(kinds) -> Recognisers]
    BY <1>3, <2>1
  <2> QED
    BY <1>3, <2>2
<1>5. IsInjective(list)
  BY <1>1 DEF IsInjective, Member
<1>6. Range(list) = {Member(k, region) : k \in Range(kinds)}
  BY DEF Range
<1> QED
  BY <1>1, <1>2, <1>4, <1>5, <1>6

\* The members of a press, as a set.
Claims(path, kind) ==
  IF Innermost(path, kind) = NoRegion THEN {} ELSE {Member(kind, Innermost(path, kind))}

FamilySet(path, button, r) == {Member(k, r) : k \in KindSet(path, button, r)}

Joining(path, button) ==
  (UNION {FamilySet(path, button, r) : r \in Range(path)})
    \cup Claims(path, "drag") \cup Claims(path, "scale")

\* A pinch is behind everybody else.
ScaleLast(list) == \A i \in DOMAIN list : list[i].kind = "scale" => i = Len(list)

\* One drag, one scale: the innermost that wants it.
LEMMA SingleList ==
  ASSUME NEW path \in Seq(Regions), NEW kind \in Handlers
  PROVE  /\ Single(path, kind) \in Seq(Recognisers) /\ IsInjective(Single(path, kind))
         /\ Range(Single(path, kind)) = Claims(path, kind)
         /\ \A m \in Claims(path, kind) : m.kind = kind
         /\ Len(Single(path, kind)) <= 1
<1>1. Innermost(path, kind) \in Regions \cup {NoRegion}
  BY Innermosts
<1>2. CASE Innermost(path, kind) = NoRegion
  BY <1>2 DEF Single, Claims, Range, IsInjective
<1>3. CASE Innermost(path, kind) # NoRegion
  <2> DEFINE m == Member(kind, Innermost(path, kind))
  <2>1. m \in Recognisers /\ m.kind = kind
    BY <1>1, <1>3 DEF Member, Recognisers
  <2>2. Single(path, kind) = <<m>> /\ Claims(path, kind) = {m}
    BY <1>3 DEF Single, Claims
  <2> HIDE DEF m
  <2>3. <<m>> \in Seq(Recognisers) /\ IsInjective(<<m>>) /\ Range(<<m>>) = {m} /\ Len(<<m>>) = 1
    BY <2>1 DEF IsInjective, Range
  <2> QED
    BY <2>1, <2>2, <2>3
<1> QED
  BY <1>2, <1>3

\* The members of a press join once each, the pinch last.
LEMMA MemberList ==
  ASSUME NEW path \in Seq(Regions), IsInjective(path), NEW button \in Buttons
  PROVE  LET list == Members(path, button)
         IN  /\ list \in Seq(Recognisers) /\ IsInjective(list)
             /\ Range(list) = Joining(path, button)
             /\ ScaleLast(list)
<1> DEFINE fams == [i \in DOMAIN path |-> Family(path, button, path[i])]
           a == FlattenSeq(fams)
           b == Single(path, "drag")
           c == Single(path, "scale")
           Fam(i) == FamilySet(path, button, path[i])
<1>1. DOMAIN path = 1..Len(path) /\ Len(path) \in Nat /\ \A i \in DOMAIN path : path[i] \in Regions
  OBVIOUS
<1>2. \A i \in DOMAIN path : /\ fams[i] \in Seq(Recognisers) /\ IsInjective(fams[i])
                             /\ Range(fams[i]) = Fam(i)
  BY <1>1, FamilyList DEF FamilySet
<1>3. fams \in Seq(Seq(Recognisers)) /\ DOMAIN fams = DOMAIN path
  <2>1. fams \in [1..Len(path) -> Seq(Recognisers)]
    BY <1>1, <1>2
  <2> QED
    BY <1>1, <2>1
<1>4. Apart(fams)
  <2>1. ASSUME NEW i \in DOMAIN path, NEW j \in DOMAIN path, i # j
        PROVE  Range(fams[i]) \intersect Range(fams[j]) = {}
    <3>1. path[i] # path[j]
      BY <2>1 DEF IsInjective
    <3> QED
      BY <1>2, <3>1 DEF FamilySet, Member
  <2> QED
    BY <1>2, <1>3, <2>1 DEF Apart
<1>5. a \in Seq(Recognisers) /\ IsInjective(a) /\ Range(a) = UNION {Fam(i) : i \in DOMAIN path}
  <2>1. /\ a \in Seq(Recognisers) /\ IsInjective(a)
        /\ Range(a) = UNION {Range(fams[i]) : i \in DOMAIN fams}
    BY <1>3, <1>4, FlattenItems
  <2>2. UNION {Range(fams[i]) : i \in DOMAIN fams} = UNION {Fam(i) : i \in DOMAIN path}
    BY <1>2, <1>3
  <2> QED
    BY <2>1, <2>2
<1>6. \A m \in Range(a) : m.kind \in {"tap", "double", "long", "secondary"}
  BY <1>5 DEF FamilySet, Member, KindSet
<1>7. /\ b \in Seq(Recognisers) /\ IsInjective(b) /\ Range(b) = Claims(path, "drag")
      /\ \A m \in Range(b) : m.kind = "drag"
      /\ c \in Seq(Recognisers) /\ IsInjective(c) /\ Range(c) = Claims(path, "scale")
      /\ (\A m \in Range(c) : m.kind = "scale") /\ Len(c) <= 1
  BY SingleList DEF Handlers
<1>8. Members(path, button) = (a \o b) \o c
  BY DEF Members
<1> HIDE DEF fams, a, b, c
<1>9. a \o b \in Seq(Recognisers) /\ Range(a \o b) = Range(a) \cup Range(b)
  BY <1>5, <1>7, ConcatProperties, RangeConcatenation
<1>10. IsInjective(a \o b)
  <2>1. Range(a) \intersect Range(b) = {}
    BY <1>6, <1>7
  <2> QED
    BY <1>5, <1>7, <2>1, JoinInjective
<1> DEFINE d == a \o b
<1>11. /\ d \in Seq(Recognisers) /\ IsInjective(d) /\ Range(d) = Range(a) \cup Range(b)
       /\ \A m \in Range(d) : m.kind # "scale"
  BY <1>6, <1>7, <1>9, <1>10
<1> HIDE DEF d
<1>12. d \o c \in Seq(Recognisers) /\ Range(d \o c) = Range(d) \cup Range(c)
  BY <1>7, <1>11, ConcatProperties, RangeConcatenation
<1>13. IsInjective(d \o c)
  <2>1. Range(d) \intersect Range(c) = {}
    BY <1>7, <1>11
  <2> QED
    BY <1>7, <1>11, <2>1, JoinInjective
<1>14. ScaleLast(d \o c)
  <2>1. /\ DOMAIN (d \o c) = 1..(Len(d) + Len(c)) /\ Len(d) \in Nat /\ Len(c) \in Nat
        /\ Len(d \o c) = Len(d) + Len(c) /\ DOMAIN d = 1..Len(d)
    BY <1>7, <1>11
  <2> SUFFICES ASSUME NEW i \in 1..(Len(d) + Len(c)), (d \o c)[i].kind = "scale"
               PROVE  i = Len(d) + Len(c)
    BY <2>1 DEF ScaleLast
  <2>2. i \notin 1..Len(d)
    <3> SUFFICES ASSUME i \in 1..Len(d) PROVE FALSE
      OBVIOUS
    <3>1. (d \o c)[i] = d[i] /\ d[i] \in Range(d)
      BY <1>7, <1>11, <2>1, ConcatProperties DEF Range
    <3> QED
      BY <1>11, <3>1
  <2> QED
    BY <1>7, <2>1, <2>2
<1>15. Range(path) = {path[i] : i \in DOMAIN path}
  BY DEF Range
<1>16. Range(d \o c) = Joining(path, button)
  <2>1. UNION {Fam(i) : i \in DOMAIN path}
          = UNION {FamilySet(path, button, r) : r \in Range(path)}
    BY <1>15
  <2> QED
    BY <1>5, <1>7, <1>11, <1>12, <2>1 DEF Joining
<1> QED
  BY <1>8, <1>12, <1>13, <1>14, <1>16 DEF d

\* A member of a press, by kind.
LEMMA WhoJoins ==
  ASSUME NEW path \in Paths, NEW button \in Buttons
  PROVE  /\ path \in Seq(Regions) /\ IsInjective(path) /\ path # <<>>
         /\ Head(path) \in Range(path) /\ Range(path) \subseteq Regions
         /\ \A m \in Joining(path, button) :
              /\ m \in Recognisers
              /\ m.region \in Range(path) /\ m.kind \in Wants[m.region]
              /\ m.kind \in {"double", "drag", "scale"} => m.region = Innermost(path, m.kind)
              /\ m.kind \in {"tap", "double", "long"} => button = "primary"
              /\ m.kind = "secondary" => button = "secondary"
              /\ m.kind \in {"tap", "double", "long", "secondary", "drag", "scale"}
         /\ \A r \in Range(path) : button = "primary" /\ "tap" \in Wants[r]
                                     => Member("tap", r) \in Joining(path, button)
         /\ \A r \in Range(path) : button = "primary" /\ "long" \in Wants[r]
                                     => Member("long", r) \in Joining(path, button)
         /\ LET d == Innermost(path, "double")
            IN  button = "primary" /\ d # NoRegion => Member("double", d) \in Joining(path, button)
         /\ \A kind \in {"drag", "scale"} :
              Innermost(path, kind) # NoRegion
                => Member(kind, Innermost(path, kind)) \in Joining(path, button)
<1>1. path \in Seq(Regions) /\ IsInjective(path) /\ path # <<>>
  BY PathsAssumption
<1>2. Head(path) \in Range(path) /\ Range(path) \subseteq Regions
  <2>1. 1 \in DOMAIN path /\ Head(path) = path[1]
    BY <1>1
  <2> QED
    BY <1>1, <2>1 DEF Range
<1>3. ASSUME NEW m \in Joining(path, button)
      PROVE  /\ m \in Recognisers
             /\ m.region \in Range(path) /\ m.kind \in Wants[m.region]
             /\ m.kind \in {"double", "drag", "scale"} => m.region = Innermost(path, m.kind)
             /\ m.kind \in {"tap", "double", "long"} => button = "primary"
             /\ m.kind = "secondary" => button = "secondary"
             /\ m.kind \in {"tap", "double", "long", "secondary", "drag", "scale"}
  <2>1. CASE \E r \in Range(path) : \E k \in KindSet(path, button, r) : m = Member(k, r)
    <3>1. PICK r \in Range(path) : \E k \in KindSet(path, button, r) : m = Member(k, r)
      BY <2>1
    <3>2. PICK k \in KindSet(path, button, r) : m = Member(k, r)
      BY <3>1
    <3>3. /\ k \in {"tap", "double", "long", "secondary"} /\ k \in Wants[r]
          /\ k = "double" => r = Innermost(path, k)
          /\ k \in {"tap", "double", "long"} => button # "secondary"
          /\ k = "secondary" => button = "secondary"
      BY DEF KindSet
    <3> QED
      BY <1>2, <3>2, <3>3 DEF Member, Recognisers, Handlers, Buttons
  <2>2. ASSUME NEW kind \in {"drag", "scale"}, m \in Claims(path, kind)
        PROVE  /\ m \in Recognisers
               /\ m.region \in Range(path) /\ m.kind \in Wants[m.region]
               /\ m.region = Innermost(path, m.kind) /\ m.kind = kind
    <3>1. Innermost(path, kind) # NoRegion /\ m = Member(kind, Innermost(path, kind))
      BY <2>2 DEF Claims
    <3>2. /\ Innermost(path, kind) \in Regions /\ Innermost(path, kind) \in Range(path)
          /\ kind \in Wants[Innermost(path, kind)]
      BY <1>1, <3>1, Innermosts
    <3> QED
      BY <3>1, <3>2 DEF Member, Recognisers, Handlers
  <2> QED
    BY <1>3, <2>1, <2>2 DEF Joining, FamilySet
<1>4. ASSUME NEW r \in Range(path), NEW k \in {"tap", "long", "double"}, button = "primary",
             k \in Wants[r], k = "double" => r = Innermost(path, k)
      PROVE  Member(k, r) \in Joining(path, button)
  <2>1. k \in KindSet(path, button, r)
    BY <1>4 DEF KindSet
  <2> QED
    BY <1>4, <2>1 DEF Joining, FamilySet
<1>5. LET d == Innermost(path, "double")
      IN  d # NoRegion => d \in Range(path) /\ "double" \in Wants[d]
  BY <1>1, Innermosts
<1>6. \A kind \in {"drag", "scale"} :
        Innermost(path, kind) # NoRegion
          => Member(kind, Innermost(path, kind)) \in Joining(path, button)
  BY DEF Joining, Claims
<1> QED
  BY <1>1, <1>2, <1>3, <1>4, <1>5, <1>6
-----------------------------------------------------------------------------
(* The arena.                                                              *)

Verdicts ==
  [arena : Arenas, winner : Recognisers \cup {NoMember}, lost : SUBSET Handlers]

\* A verdict on an arena that is contested, or decided and gone.
Sound(v) ==
  v \in Verdicts /\ IsInjective(v.arena.members) /\ Len(v.arena.members) # 1

\* What stands and repeats nothing, by its length.
LEMMA FewItems ==
  ASSUME NEW T, NEW s \in Seq(T), IsInjective(s)
  PROVE  /\ Range(s) = {} <=> s = <<>>
         /\ Len(s) = 0 <=> s = <<>>
         /\ s # <<>> => Head(s) \in Range(s)
         /\ Range(s) \subseteq T
         /\ \A x : Range(s) = {x} => Len(s) = 1 /\ Head(s) = x
         /\ Len(s) = 1 => Range(s) = {Head(s)}
<1>1. DOMAIN s = 1..Len(s) /\ Len(s) \in Nat /\ \A i \in DOMAIN s : s[i] \in T
  OBVIOUS
<1>2. s # <<>> => Head(s) \in Range(s)
  <2>1. s # <<>> => 1 \in DOMAIN s /\ Head(s) = s[1]
    OBVIOUS
  <2> QED
    BY <2>1 DEF Range
<1>3. s = <<>> => Range(s) = {}
  BY DEF Range
<1>4. ASSUME NEW x, Range(s) = {x} PROVE Len(s) = 1 /\ Head(s) = x
  <2>1. \A i \in DOMAIN s : s[i] = x
    BY <1>4 DEF Range
  <2>2. \A i, j \in DOMAIN s : i = j
    BY <2>1 DEF IsInjective
  <2>3. s # <<>>
    BY <1>3, <1>4
  <2>4. Len(s) = 1
    <3>1. Len(s) # 0
      BY <2>3
    <3>2. 1 \in DOMAIN s /\ Len(s) \in DOMAIN s
      BY <1>1, <3>1
    <3> QED
      BY <2>2, <3>2
  <2> QED
    BY <1>2, <1>4, <2>3, <2>4
<1>5. ASSUME Len(s) = 1 PROVE Range(s) = {Head(s)}
  <2>1. DOMAIN s = {1} /\ Head(s) = s[1]
    BY <1>1, <1>5
  <2> QED
    BY <2>1 DEF Range
<1>6. s # <<>> => Len(s) # 0
  OBVIOUS
<1>7. Range(s) \subseteq T
  BY <1>1 DEF Range
<1> QED
  BY <1>2, <1>3, <1>4, <1>5, <1>6, <1>7

\* The arena that is gone.
LEMMA GoneIsSound ==
  NoArena \in Arenas /\ IsInjective(NoArena.members) /\ Len(NoArena.members) = 0
    /\ ~NoArena.held /\ NoArena.members = <<>>
BY DEF NoArena, Arenas, IsInjective

\* A win ends the arena, for the first winner, and everybody else has lost.
LEMMA Wins ==
  ASSUME NEW v, Sound(v), NEW m \in Recognisers
  PROVE  /\ Sound(Win(v, m)) /\ Win(v, m).arena = NoArena
         /\ Win(v, m).winner = IF v.winner = NoMember THEN m ELSE v.winner
         /\ Win(v, m).lost = v.lost \cup {x.kind : x \in Range(v.arena.members) \ {m}}
<1>1. /\ v.arena.members \in Seq(Recognisers) /\ v.winner \in Recognisers \cup {NoMember}
      /\ v.lost \subseteq Handlers
  BY DEF Sound, Verdicts, Arenas
<1>2. Range(v.arena.members) \subseteq Recognisers
  BY <1>1, FewItems DEF Sound
<1>3. {x.kind : x \in Range(v.arena.members) \ {m}} \subseteq Handlers
  BY <1>2 DEF Recognisers
<1>4. Win(v, m) \in Verdicts
  BY <1>1, <1>3, GoneIsSound DEF Win, Verdicts
<1> QED
  BY <1>4, GoneIsSound DEF Win, Sound

\* Claiming an arena that is not decided decides it.
LEMMA Accepts ==
  ASSUME NEW v, Sound(v), NEW m \in Recognisers
  PROVE  /\ Sound(Accept(v, m))
         /\ v.arena.members = <<>> => Accept(v, m) = v
         /\ v.arena.members # <<>> =>
              /\ Accept(v, m).arena = NoArena
              /\ Accept(v, m).winner = IF v.winner = NoMember THEN m ELSE v.winner
              /\ Accept(v, m).lost = v.lost \cup {x.kind : x \in Range(v.arena.members) \ {m}}
BY Wins DEF Accept

\* The members of an arena but one, and the last of them.
Others(v, m) == Range(v.arena.members) \ {m}
IsLast(S, x) == S = {x}

\* Giving up an arena: the last one standing wins by default.
LEMMA Rejects ==
  ASSUME NEW v, Sound(v), NEW m \in Recognisers
  PROVE  LET u == Reject(v, m)
             left == Others(v, m)
         IN  /\ Sound(u)
             /\ u.arena.held => v.arena.held
             /\ v.arena.members = <<>> => u = v
             /\ v.arena.members # <<>> =>
                  /\ left # {}
                  /\ u.lost = v.lost \cup {m.kind}
                  /\ \A x : IsLast(left, x) =>
                       /\ u.arena = NoArena
                       /\ u.winner = IF v.winner = NoMember THEN x ELSE v.winner
                  /\ (\A x : ~IsLast(left, x)) =>
                       /\ Range(u.arena.members) = left
                       /\ u.winner = v.winner /\ u.arena.held = v.arena.held
                       /\ ScaleLast(v.arena.members) => ScaleLast(u.arena.members)
<1> USE DEF Others, IsLast
<1> DEFINE s == v.arena.members
           u == Reject(v, m)
           left == Range(s) \ {m}
           rest == Only(s, left)
           out == [v EXCEPT !.arena.members = rest, !.lost = @ \cup {m.kind}]
<1>1. CASE s = <<>>
  <2>1. u = v
    BY <1>1 DEF Reject
  <2> QED
    BY <1>1, <2>1
<1>2. CASE s # <<>>
  <2>1. /\ s \in Seq(Recognisers) /\ IsInjective(s) /\ Len(s) # 1
        /\ v.winner \in Recognisers \cup {NoMember} /\ v.lost \subseteq Handlers
        /\ v.arena \in Arenas /\ v \in Verdicts
    BY DEF Sound, Verdicts, Arenas
  <2>2. rest \in Seq(Recognisers) /\ Range(rest) = Range(s) \intersect left /\ IsInjective(rest)
    BY <2>1, OnlyPlaces, OnlyDistinct
  <2>3. Range(rest) = left
    BY <2>2
  <2>4. left # {}
    <3> HIDE DEF s
    <3>1. Range(s) # {} /\ \A x : Range(s) # {x}
      BY <1>2, <2>1, FewItems
    <3> QED
      BY <3>1
  <2>5. m.kind \in Handlers
    BY DEF Recognisers
  <2>6. /\ out.arena = [v.arena EXCEPT !.members = rest] /\ out.lost = v.lost \cup {m.kind}
        /\ out.winner = v.winner /\ out \in Verdicts
        /\ out.arena.members = rest /\ out.arena.held = v.arena.held
    <3> HIDE DEF rest
    <3> QED
      BY <2>1, <2>2, <2>5 DEF Verdicts, Arenas
  <2>7. u = IF Len(rest) = 0 THEN [out EXCEPT !.arena = NoArena]
            ELSE IF Len(rest) = 1 THEN Win(out, Head(rest)) ELSE out
    <3>1. ~(Len(rest) = 0 /\ Len(rest) = 1)
      OBVIOUS
    <3> QED
      BY <1>2, <3>1 DEF Reject
  <2>8. Len(rest) # 0 /\ rest # <<>>
    <3> HIDE DEF rest, left
    <3> QED
      BY <2>2, <2>3, <2>4, FewItems
  <2>9. ScaleLast(s) => ScaleLast(rest)
    <3> SUFFICES ASSUME ScaleLast(s), NEW i \in DOMAIN rest, rest[i].kind = "scale"
                 PROVE  i = Len(rest)
      BY DEF ScaleLast
    <3>1. PICK h : Places(h, s, rest)
      BY <2>1, OnlyPlaces
    <3>2. DOMAIN rest = 1..Len(rest) /\ Len(rest) \in Nat /\ DOMAIN s = 1..Len(s) /\ Len(s) \in Nat
      BY <2>1, <2>2
    <3> HIDE DEF rest
    <3>3. h[i] \in 1..Len(s) /\ rest[i] = s[h[i]]
      BY <3>1, <3>2 DEF Places
    <3>4. h[i] = Len(s)
      BY <3>2, <3>3 DEF ScaleLast
    <3>5. i < Len(rest) => h[i] < h[Len(rest)] /\ h[Len(rest)] \in 1..Len(s)
      BY <3>1, <3>2 DEF Places
    <3> QED
      BY <3>2, <3>4, <3>5
  <2>10. CASE Len(rest) = 1
    <3>1. left = {Head(rest)} /\ Head(rest) \in Recognisers
      <4> HIDE DEF rest, left
      <4>1. Range(rest) = {Head(rest)} /\ Range(rest) \subseteq Recognisers
        BY <2>2, <2>10, FewItems
      <4> QED
        BY <2>3, <4>1
    <3>2. u = Win(out, Head(rest))
      BY <2>7, <2>10
    <3> HIDE DEF rest, u, left
    <3>3. /\ u.arena = NoArena
          /\ u.winner = IF out.winner = NoMember THEN Head(rest) ELSE out.winner
          /\ u.lost = out.lost \cup {x.kind : x \in Range(rest) \ {Head(rest)}}
      BY <2>6, <3>2 DEF Win
    <3>4. u.lost = v.lost \cup {m.kind}
      BY <2>3, <2>6, <3>1, <3>3
    <3>5. Sound(u)
      <4>1. u.winner \in Recognisers \cup {NoMember} /\ u.lost \subseteq Handlers
        BY <2>1, <2>5, <2>6, <3>1, <3>3, <3>4
      <4>2. u = [arena |-> u.arena, winner |-> u.winner, lost |-> u.lost]
        BY <3>2 DEF Win
      <4>3. u \in Verdicts
        BY <3>3, <4>1, <4>2, GoneIsSound DEF Verdicts
      <4> QED
        BY <3>3, <4>3, GoneIsSound DEF Sound
    <3> QED
      BY <1>2, <2>4, <2>6, <3>1, <3>3, <3>4, <3>5, GoneIsSound DEF u, left
  <2>11. CASE Len(rest) # 1
    <3>1. u = out
      BY <2>7, <2>8, <2>11
    <3>2. \A x : left # {x}
      <4> HIDE DEF rest, left
      <4> QED
        BY <2>2, <2>3, <2>11, FewItems
    <3>3. Sound(out)
      BY <2>2, <2>6, <2>11 DEF Sound
    <3> HIDE DEF rest, out, u, left
    <3> QED
      BY <1>2, <2>3, <2>4, <2>6, <2>9, <3>1, <3>2, <3>3 DEF u, left
  <2> QED
    BY <2>10, <2>11
<1> QED
  BY <1>1, <1>2

\* f rejects the first n members of a verdict's arena, those of some kinds.
IsTurn(f, v, kinds, n) ==
  LET members == v.arena.members
  IN  f = [m \in 0..n |->
             IF m = 0 THEN v
             ELSE IF members[m].kind \in kinds THEN Reject(f[m - 1], members[m]) ELSE f[m - 1]]

\* Any number of members can be gone through.
LEMMA TurnIsThere ==
  ASSUME NEW v, NEW kinds
  PROVE  \A n \in Nat : \E f : IsTurn(f, v, kinds, n)
<1> DEFINE members == v.arena.members
           Extend(f, m) ==
             IF m = 0 THEN v
             ELSE IF members[m].kind \in kinds THEN Reject(f[m - 1], members[m]) ELSE f[m - 1]
           There == {n \in Nat : \E f : IsTurn(f, v, kinds, n)}
<1>1. 0 \in There
  <2>1. IsTurn([m \in 0..0 |-> v], v, kinds, 0)
    BY DEF IsTurn
  <2> QED
    BY <2>1
<1>2. ASSUME NEW n \in There PROVE n + 1 \in There
  <2>1. PICK f : IsTurn(f, v, kinds, n)
    OBVIOUS
  <2> DEFINE g == [m \in 0..(n + 1) |-> IF m = n + 1 THEN Extend(f, m) ELSE f[m]]
  <2>2. \A m \in 0..(n + 1) : g[m] = Extend(g, m)
    <3> TAKE m \in 0..(n + 1)
    <3>1. CASE m = n + 1
      <4>1. g[m] = Extend(f, m) /\ g[m - 1] = f[m - 1]
        BY <3>1
      <4> QED
        BY <3>1, <4>1
    <3>2. CASE m # n + 1
      <4>1. m \in 0..n /\ g[m] = f[m]
        BY <3>2
      <4>2. f[m] = Extend(f, m)
        BY <2>1, <4>1 DEF IsTurn
      <4>3. m # 0 => g[m - 1] = f[m - 1]
        BY <4>1
      <4> QED
        BY <4>1, <4>2, <4>3
    <3> QED
      BY <3>1, <3>2
  <2>3. g = [m \in 0..(n + 1) |-> Extend(g, m)]
    <3> HIDE DEF Extend
    <3> QED
      BY <2>2
  <2>4. IsTurn(g, v, kinds, n + 1)
    <3> HIDE DEF g
    <3> QED
      BY <2>3 DEF IsTurn
  <2> QED
    BY <2>4
<1>3. There = Nat
  <2> HIDE DEF There
  <2>1. There \in SUBSET Nat
    BY DEF There
  <2> QED
    BY <1>1, <1>2, <2>1, Counting
<1> QED
  BY <1>3

\* What RejectAll does, member by member.
LEMMA RejectWalk ==
  ASSUME NEW v, Sound(v), NEW kinds
  PROVE  LET members == v.arena.members
         IN  \E w : /\ w[0] = v /\ RejectAll(v, kinds) = w[Len(members)]
                    /\ \A n \in 1..Len(members) :
                         w[n] = IF members[n].kind \in kinds THEN Reject(w[n - 1], members[n])
                                ELSE w[n - 1]
<1> DEFINE members == v.arena.members
           w == CHOOSE f : IsTurn(f, v, kinds, Len(members))
<1>1. Len(members) \in Nat
  BY DEF Sound, Verdicts, Arenas
<1>2. IsTurn(w, v, kinds, Len(members))
  <2>1. \E f : IsTurn(f, v, kinds, Len(members))
    BY <1>1, TurnIsThere
  <2> QED
    BY <2>1
<1>3. RejectAll(v, kinds) = w[Len(members)]
  BY DEF RejectAll, IsTurn
<1> HIDE DEF w
<1>4. w[0] = v
  BY <1>1, <1>2 DEF IsTurn
<1>5. ASSUME NEW n \in 1..Len(members)
      PROVE  w[n] = IF members[n].kind \in kinds THEN Reject(w[n - 1], members[n]) ELSE w[n - 1]
  <2>1. n \in 0..Len(members) /\ n # 0
    BY <1>1
  <2> QED
    BY <1>2, <2>1 DEF IsTurn
<1> QED
  BY <1>3, <1>4, <1>5

\* The members that do not give up, when some kinds do.
Firm(v, kinds) == {m \in Range(v.arena.members) : m.kind \notin kinds}

\* If somebody does not give up, the arena is left to those, and to one alone
\* it is left for good.
LEMMA RejectsAll ==
  ASSUME NEW v, Sound(v), NEW kinds \in SUBSET Handlers
  PROVE  LET u == RejectAll(v, kinds)
         IN  /\ Sound(u)
             /\ u.arena.held => v.arena.held
             /\ v.arena.members = <<>> => u = v
             /\ u.lost \subseteq v.lost \cup kinds \/ Firm(v, kinds) = {}
             /\ Firm(v, kinds) # {} /\ v.winner = NoMember =>
                  \/ /\ Range(u.arena.members) = Firm(v, kinds) /\ u.winner = NoMember
                     /\ u.arena.held = v.arena.held
                     /\ ScaleLast(v.arena.members) => ScaleLast(u.arena.members)
                  \/ u.arena = NoArena /\ Firm(v, kinds) = {u.winner}
<1> DEFINE s == v.arena.members
           S == Firm(v, kinds)
           Gone(n) == {s[j] : j \in {i \in 1..n : s[i].kind \in kinds}}
<1>1. /\ s \in Seq(Recognisers) /\ IsInjective(s) /\ Len(s) \in Nat /\ DOMAIN s = 1..Len(s)
      /\ \A i \in 1..Len(s) : s[i] \in Recognisers
  BY DEF Sound, Verdicts, Arenas
<1>2. PICK w : /\ w[0] = v /\ RejectAll(v, kinds) = w[Len(s)]
               /\ \A n \in 1..Len(s) :
                    w[n] = IF s[n].kind \in kinds THEN Reject(w[n - 1], s[n]) ELSE w[n - 1]
  BY RejectWalk
<1> HIDE DEF s
<1> DEFINE Stands(n) == /\ Range(w[n].arena.members) = Range(s) \ Gone(n)
                        /\ w[n].winner = NoMember /\ w[n].arena.held = v.arena.held
                        /\ ScaleLast(s) => ScaleLast(w[n].arena.members)
           Won(n) == w[n].arena = NoArena /\ S = {w[n].winner}
           Good(n) == /\ Sound(w[n])
                      /\ w[n].arena.held => v.arena.held
                      /\ s = <<>> => w[n] = v
                      /\ w[n].lost \subseteq v.lost \cup kinds \/ S = {}
                      /\ S # {} /\ v.winner = NoMember => Stands(n) \/ Won(n)
           All == {n \in Nat : n <= Len(s) => Good(n)}
<1>3. 0 \in All
  <2>1. Gone(0) = {}
    OBVIOUS
  <2> QED
    BY <1>2, <2>1 DEF s
<1>4. ASSUME NEW n \in All PROVE n + 1 \in All
  <2> SUFFICES ASSUME n + 1 <= Len(s) PROVE Good(n + 1)
    OBVIOUS
  <2>1. n \in Nat /\ n + 1 \in 1..Len(s) /\ (n + 1) - 1 = n /\ Good(n)
    BY <1>1
  <2> DEFINE m == s[n + 1]
  <2>2. w[n + 1] = IF m.kind \in kinds THEN Reject(w[n], m) ELSE w[n]
    BY <1>2, <2>1
  <2>3. m \in Recognisers /\ m \in Range(s)
    BY <1>1, <2>1 DEF Range
  <2>4. Gone(n + 1) = IF m.kind \in kinds THEN Gone(n) \cup {m} ELSE Gone(n)
    <3>1. \A i \in 1..(n + 1) : i = n + 1 \/ i \in 1..n
      BY <2>1
    <3>2. 1..n \subseteq 1..(n + 1) /\ n + 1 \in 1..(n + 1)
      BY <2>1
    <3> QED
      BY <3>1, <3>2
  <2>5. CASE m.kind \notin kinds
    <3>1. w[n + 1] = w[n] /\ Gone(n + 1) = Gone(n)
      BY <2>2, <2>4, <2>5
    <3> HIDE DEF Gone
    <3> QED
      BY <2>1, <3>1
  <2>6. CASE m.kind \in kinds
    <3> DEFINE left == Range(w[n].arena.members) \ {m}
    <3>1. w[n + 1] = Reject(w[n], m) /\ Sound(w[n])
      BY <2>1, <2>2, <2>6
    <3>2. /\ Sound(w[n + 1])
          /\ w[n + 1].arena.held => w[n].arena.held
          /\ w[n].arena.members = <<>> => w[n + 1] = w[n]
          /\ w[n].arena.members # <<>> => w[n + 1].lost = w[n].lost \cup {m.kind}
      <4> HIDE DEF m
      <4> QED
        BY <2>3, <3>1, Rejects
    <3>6. ASSUME w[n].arena.members # <<>>
          PROVE  /\ \A x : left = {x} =>
                      /\ w[n + 1].arena = NoArena
                      /\ w[n + 1].winner = IF w[n].winner = NoMember THEN x ELSE w[n].winner
                 /\ (\A x : left # {x}) =>
                      /\ Range(w[n + 1].arena.members) = left
                      /\ w[n + 1].winner = w[n].winner /\ w[n + 1].arena.held = w[n].arena.held
                      /\ ScaleLast(w[n].arena.members) => ScaleLast(w[n + 1].arena.members)
      <4> DEFINE y == w[n]
      <4>1. Sound(y) /\ m \in Recognisers /\ y.arena.members # <<>>
        BY <2>3, <3>1, <3>6
      <4>2. w[n + 1] = Reject(y, m) /\ left = Others(y, m)
        BY <3>1 DEF Others
      <4> HIDE DEF y, m, left
      <4>3. \A x : IsLast(left, x) =>
                      /\ w[n + 1].arena = NoArena
                      /\ w[n + 1].winner = IF y.winner = NoMember THEN x ELSE y.winner
        BY <4>1, <4>2, Rejects
      <4>4. (\A x : ~IsLast(left, x)) =>
                      /\ Range(w[n + 1].arena.members) = left
                      /\ w[n + 1].winner = y.winner /\ w[n + 1].arena.held = y.arena.held
                      /\ ScaleLast(y.arena.members) => ScaleLast(w[n + 1].arena.members)
        BY <4>1, <4>2, Rejects
      <4> QED
        BY <4>3, <4>4 DEF y, IsLast
    <3>3. s # <<>>
      BY <2>3 DEF Range
    <3>4. w[n + 1].lost \subseteq v.lost \cup kinds \/ S = {}
      BY <2>1, <2>6, <3>2
    <3>5. ASSUME S # {}, v.winner = NoMember PROVE Stands(n + 1) \/ Won(n + 1)
      <4>1. CASE Won(n)
        <5>1. w[n + 1] = w[n]
          BY <3>2, <4>1, GoneIsSound
        <5> QED
          BY <4>1, <5>1
      <4>2. CASE Stands(n)
        <5>1. S \subseteq Range(s) /\ \A x \in S : x.kind \notin kinds
          BY DEF Firm, s
        <5>2. \A x \in Gone(n) : x.kind \in kinds
          OBVIOUS
        <5>3. left = Range(s) \ Gone(n + 1)
          BY <2>4, <2>6, <4>2
        <5> HIDE DEF Gone
        <5>4. S \subseteq left
          BY <2>6, <4>2, <5>1, <5>2
        <5>5. w[n].arena.members # <<>>
          BY <3>5, <5>4 DEF Range
        <5>6. CASE \E x : left = {x}
          <6>1. PICK x : left = {x}
            BY <5>6
          <6>2. S = {x}
            BY <3>5, <5>4, <6>1
          <6>3. w[n + 1].arena = NoArena /\ w[n + 1].winner = x
            BY <3>6, <4>2, <5>5, <6>1
          <6> QED
            BY <6>2, <6>3
        <5>7. CASE \A x : left # {x}
          <6>1. /\ Range(w[n + 1].arena.members) = left
                /\ w[n + 1].winner = w[n].winner /\ w[n + 1].arena.held = w[n].arena.held
                /\ ScaleLast(w[n].arena.members) => ScaleLast(w[n + 1].arena.members)
            BY <3>6, <5>5, <5>7
          <6> QED
            BY <4>2, <5>3, <6>1
        <5> QED
          BY <5>6, <5>7
      <4> QED
        BY <2>1, <3>5, <4>1, <4>2
    <3> HIDE DEF Stands, Won
    <3> QED
      BY <2>1, <3>2, <3>3, <3>4, <3>5
  <2> QED
    BY <2>5, <2>6
<1>5. All = Nat
  <2> HIDE DEF Good
  <2> QED
    BY <1>3, <1>4, Counting
<1>6. Good(Len(s))
  <2> HIDE DEF Good
  <2> QED
    BY <1>1, <1>5
<1>7. Range(s) \ Gone(Len(s)) = S
  BY <1>1 DEF Firm, Range, s
<1> HIDE DEF Gone
<1> QED
  BY <1>2, <1>6, <1>7 DEF s
\* What ends the press: the first who still stands, unless the arena is held.
LEMMA Sweeps ==
  ASSUME NEW v, Sound(v)
  PROVE  /\ Sound(Sweep(v))
         /\ v.arena.members = <<>> => Sweep(v) = v
         /\ v.arena.members # <<>> /\ v.arena.held =>
              /\ Sweep(v).arena.held /\ Sweep(v).arena.members = v.arena.members
              /\ Sweep(v).winner = v.winner
         /\ v.arena.members # <<>> /\ ~v.arena.held =>
              /\ Sweep(v).arena = NoArena
              /\ Sweep(v).winner = IF v.winner = NoMember THEN Head(v.arena.members) ELSE v.winner
<1>1. /\ v.arena.members \in Seq(Recognisers) /\ v.arena.held \in BOOLEAN /\ v \in Verdicts
      /\ v.arena \in Arenas
  BY DEF Sound, Verdicts, Arenas
<1>2. CASE v.arena.members = <<>>
  BY <1>2 DEF Sweep
<1>3. CASE v.arena.members # <<>> /\ v.arena.held
  <2>1. Sweep(v) = [v EXCEPT !.arena.sweep = TRUE]
    BY <1>3 DEF Sweep
  <2>2. [v.arena EXCEPT !.sweep = TRUE] \in Arenas
    BY <1>1 DEF Arenas
  <2>3. Sweep(v).arena = [v.arena EXCEPT !.sweep = TRUE] /\ Sweep(v).winner = v.winner
        /\ Sweep(v) \in Verdicts
    BY <1>1, <2>1, <2>2 DEF Verdicts
  <2>4. Sweep(v).arena.held = v.arena.held /\ Sweep(v).arena.members = v.arena.members
    BY <1>1, <2>3 DEF Arenas
  <2> QED
    BY <1>3, <2>3, <2>4 DEF Sound
<1>4. CASE v.arena.members # <<>> /\ ~v.arena.held
  <2>1. Sweep(v) = Win(v, Head(v.arena.members))
    BY <1>4 DEF Sweep
  <2>2. Head(v.arena.members) \in Recognisers
    BY <1>1, <1>4
  <2> QED
    BY <1>4, <2>1, <2>2, Wins
<1> QED
  BY <1>1, <1>2, <1>3, <1>4

\* A member that is there can be named by its kind.
LEMMA Names ==
  ASSUME NEW v, Sound(v), NEW kind, Has(v, kind)
  PROVE  /\ The(v, kind) \in Range(v.arena.members) /\ The(v, kind).kind = kind
         /\ The(v, kind) \in Recognisers /\ v.arena.members # <<>>
<1>1. Range(v.arena.members) \subseteq Recognisers
      /\ (Range(v.arena.members) = {} <=> v.arena.members = <<>>)
  BY FewItems DEF Sound, Verdicts, Arenas
<1>2. \E m \in Range(v.arena.members) : m.kind = kind
  BY DEF Has
<1>3. The(v, kind) \in Range(v.arena.members) /\ The(v, kind).kind = kind
  BY <1>2 DEF The
<1> QED
  BY <1>1, <1>3

\* An arena opens with its members, unless there is but one, who has won.
LEMMA Opens ==
  ASSUME NEW path \in Paths, NEW button \in Buttons
  PROVE  LET o == Opened(path, button)
         IN  /\ Sound(o) /\ ~o.arena.held
             /\ \/ /\ Range(o.arena.members) = Joining(path, button) /\ o.winner = NoMember
                   /\ ScaleLast(o.arena.members)
                \/ o.arena = NoArena /\ Joining(path, button) = {o.winner}
<1> DEFINE list == Members(path, button)
           v == [arena |-> [NoArena EXCEPT !.members = list], winner |-> NoMember, lost |-> {}]
           o == Opened(path, button)
<1>1. /\ list \in Seq(Recognisers) /\ IsInjective(list) /\ Range(list) = Joining(path, button)
      /\ ScaleLast(list)
  BY PathsAssumption, MemberList
<1>2. o = IF Len(v.arena.members) = 1 THEN Win(v, Head(v.arena.members)) ELSE v
  BY DEF Opened
<1> HIDE DEF list
<1>3. v.arena = [members |-> list, held |-> FALSE, sweep |-> FALSE]
  BY DEF NoArena
<1>4. v \in Verdicts /\ v.arena.members = list /\ ~v.arena.held
  BY <1>1, <1>3 DEF Verdicts, Arenas
<1>5. v.winner = NoMember /\ v.lost = {}
  OBVIOUS
<1> HIDE DEF v, o
<1>6. CASE Len(list) = 1
  <2>1. Range(list) = {Head(list)} /\ Head(list) \in Recognisers
    BY <1>1, <1>6, FewItems
  <2>2. o = Win(v, Head(list))
    BY <1>2, <1>4, <1>6
  <2>3. o.arena = NoArena /\ o.winner = Head(list)
        /\ o.lost = {x.kind : x \in Range(list) \ {Head(list)}}
    BY <1>4, <1>5, <2>2 DEF Win
  <2>4. o = [arena |-> o.arena, winner |-> o.winner, lost |-> o.lost]
    BY <2>2 DEF Win
  <2>5. o.lost = {}
    BY <2>1, <2>3
  <2>6. o \in Verdicts
    BY <2>1, <2>3, <2>4, <2>5, GoneIsSound DEF Verdicts
  <2> QED
    BY <1>1, <2>1, <2>3, <2>6, GoneIsSound DEF Sound, o
<1>7. CASE Len(list) # 1
  <2>1. o = v
    BY <1>2, <1>4, <1>7
  <2> QED
    BY <1>1, <1>4, <1>5, <1>7, <2>1 DEF Sound, o
<1> QED
  BY <1>6, <1>7

\* Regions for the primary button.
LEMMA ForTaps ==
  ASSUME NEW path \in Paths \cup {<<>>}, NEW button, NEW want
  PROVE  /\ Taps(path, button) \in Seq(Regions)
         /\ Range(Taps(path, button)) \subseteq Range(path)
         /\ Innermost(Taps(path, button), want) \in Regions \cup {NoRegion}
         /\ Innermost(path, want) \in Regions \cup {NoRegion}
         /\ Innermost(Taps(path, button), want) # NoRegion =>
              /\ button = "primary"
              /\ Innermost(Taps(path, button), want) = Innermost(path, want)
              /\ want \in Wants[Innermost(path, want)]
              /\ path \in Paths
         /\ button = "primary" => Innermost(Taps(path, button), want) = Innermost(path, want)
<1>1. <<>> \in Seq(Regions) /\ Range(<<>>) = {}
  BY DEF Range
<1>2. path \in Seq(Regions)
  BY <1>1, PathsAssumption
<1>3. Taps(path, button) \in Seq(Regions)
  BY <1>1, <1>2 DEF Taps
<1>4. Innermost(<<>>, want) = NoRegion
  BY <1>1, Innermosts
<1>5. /\ Innermost(Taps(path, button), want) \in Regions \cup {NoRegion}
      /\ Innermost(path, want) \in Regions \cup {NoRegion}
      /\ Innermost(path, want) # NoRegion => want \in Wants[Innermost(path, want)]
  BY <1>2, <1>3, Innermosts
<1> QED
  BY <1>1, <1>3, <1>4, <1>5 DEF Taps
-----------------------------------------------------------------------------
(* The type of the state.                                                  *)

\* An arena that is not decided is contested, and a tap that waits holds one.
Steady(a, down) ==
  /\ a \in Arenas /\ IsInjective(a.members) /\ Len(a.members) # 1
  /\ a.held => ~down /\ \E m \in Range(a.members) : m.kind = "double"

\* What the type of the state says of one press and of the tap that waits.
LEMMA TypeParts ==
  ASSUME GestureTypeOK
  PROVE  /\ \A p \in Pointers :
              /\ Steady(arena[p], press[p].down) /\ Sound(Undecided(p))
              /\ Undecided(p).arena = arena[p] /\ Undecided(p).winner = press[p].winner
              /\ Undecided(p).lost = {}
              /\ press[p] \in Presses /\ press[p].path \in Paths \cup {<<>>}
              /\ press[p].down => ~arena[p].held
         /\ pending.pointer \in Pointers \cup {NoPointer}
         /\ pending.region \in Regions \cup {NoRegion}
<1>1. ASSUME NEW p \in Pointers
      PROVE  /\ Steady(arena[p], press[p].down) /\ Sound(Undecided(p))
             /\ Undecided(p).arena = arena[p] /\ Undecided(p).winner = press[p].winner
             /\ Undecided(p).lost = {}
             /\ press[p] \in Presses /\ press[p].path \in Paths \cup {<<>>}
             /\ press[p].down => ~arena[p].held
  <2>1. /\ arena[p] \in Arenas /\ press[p] \in Presses
        /\ IsInjective(arena[p].members) /\ Len(arena[p].members) # 1
        /\ arena[p].held => ~press[p].down /\ Has(Undecided(p), "double")
    BY DEF GestureTypeOK
  <2>2. Undecided(p) = [arena |-> arena[p], winner |-> press[p].winner, lost |-> {}]
    BY DEF Undecided
  <2>3. press[p].winner \in Recognisers \cup {NoMember} /\ press[p].path \in Paths \cup {<<>>}
    BY <2>1 DEF Presses
  <2>4. Undecided(p) \in Verdicts
    BY <2>1, <2>2, <2>3 DEF Verdicts
  <2> QED
    BY <2>1, <2>2, <2>3, <2>4 DEF Sound, Steady, Has
<1>2. /\ pending.pointer \in Pointers \cup {NoPointer}
      /\ pending.region \in Regions \cup {NoRegion}
  BY DEF GestureTypeOK, WaitingTaps
<1> QED
  BY <1>1, <1>2

\* And the type from what it says of each press.
LEMMA TypeFromParts ==
  ASSUME /\ press' \in [Pointers -> Presses] /\ arena' \in [Pointers -> Arenas]
         /\ \A p \in Pointers : Steady(arena'[p], press'[p].down)
         /\ pending' \in WaitingTaps /\ pinch' \subseteq Pointers /\ frame' \in BOOLEAN
         /\ told' \in [Pointers -> Seq(Words)]
         /\ shown' \subseteq Pointers \X Regions /\ owed' \subseteq Pointers
  PROVE  GestureTypeOK'
<1>1. \A p \in Pointers : Undecided(p)'.arena = arena'[p]
  BY DEF Undecided
<1> QED
  BY <1>1 DEF GestureTypeOK, Steady, Has

\* The records of the state.
LEMMA Records ==
  /\ NoPress \in Presses /\ ~NoPress.down /\ ~NoPress.scaling /\ ~NoPress.pressed
  /\ Steady(NoArena, TRUE) /\ Steady(NoArena, FALSE)
  /\ NoTap \in WaitingTaps /\ NoTap.pointer = NoPointer
<1>1. LongPress \in Nat /\ DoubleTap \in Nat /\ MinGap \in Nat
  BY TimesAssumption
<1>2. Steady(NoArena, TRUE) /\ Steady(NoArena, FALSE)
  BY GoneIsSound DEF Steady
<1>3. NoPress \in Presses /\ ~NoPress.down /\ ~NoPress.scaling /\ ~NoPress.pressed
  BY <1>1 DEF NoPress, Presses
<1>4. NoTap \in WaitingTaps /\ NoTap.pointer = NoPointer
  BY <1>1 DEF NoTap, WaitingTaps
<1> QED
  BY <1>2, <1>3, <1>4

\* A sound verdict leaves an arena that is well formed.
LEMMA SoundIsSteady ==
  ASSUME NEW v, Sound(v), NEW down,
         v.arena.held => ~down /\ Has(v, "double")
  PROVE  Steady(v.arena, down)
BY DEF Steady, Sound, Verdicts, Has

\* Settling a tap that waits.
LEMMA Resolves ==
  ASSUME GestureTypeOK, pending.pointer \in Pointers, NEW accept \in BOOLEAN
  PROVE  Sound(Resolved(accept))
<1> DEFINE a == arena[pending.pointer]
           v == [arena |-> a, winner |-> NoMember, lost |-> {}]
<1>1. Sound(v)
  <2>1. Steady(a, press[pending.pointer].down)
    BY TypeParts
  <2> HIDE DEF a
  <2>2. v.arena = a /\ v \in Verdicts
    BY <2>1 DEF Verdicts, Steady
  <2> QED
    BY <2>1, <2>2 DEF Sound, Steady
<1>2. Resolved(accept) = IF ~Has(v, "double") THEN v
                         ELSE IF accept THEN Accept(v, The(v, "double"))
                         ELSE Reject(v, The(v, "double"))
  BY DEF Resolved
<1> HIDE DEF v
<1>3. Has(v, "double") => The(v, "double") \in Recognisers
  BY <1>1, Names
<1> QED
  BY <1>1, <1>2, <1>3, Accepts, Rejects

\* What settling changes: only the arena, and the story, of the tap that waits.
LEMMA Settles ==
  ASSUME GestureTypeOK, NEW accept \in BOOLEAN
  PROVE  LET s == Settle(accept)
             p == pending.pointer
         IN  /\ s.arena \in [Pointers -> Arenas] /\ s.told \in [Pointers -> Seq(Words)]
             /\ s.owed \subseteq owed
             /\ \A q \in Pointers : q # p => s.arena[q] = arena[q] /\ s.told[q] = told[q]
             /\ p \in Pointers =>
                  /\ \A down : Steady(s.arena[p], down)
                  /\ s.told[p] \in {told[p], Append(told[p], "tap")}
                  /\ TellsTap(Resolved(accept)) \/ accept => s.owed = owed \ {p}
             /\ \A q \in Pointers : Steady(s.arena[q], press[q].down)
<1> DEFINE s == Settle(accept)
           p == pending.pointer
<1>1. /\ arena \in [Pointers -> Arenas] /\ told \in [Pointers -> Seq(Words)]
      /\ \A q \in Pointers : Steady(arena[q], press[q].down)
      /\ p \in Pointers \cup {NoPointer} /\ NoPointer \notin Pointers
  BY TypeParts, NamesAssumption DEF GestureTypeOK
<1>2. CASE p = NoPointer
  <2>1. s = [arena |-> arena, told |-> told, owed |-> owed]
    BY <1>2 DEF Settle
  <2> QED
    BY <1>1, <1>2, <2>1
<1>3. CASE p # NoPointer
  <2> DEFINE v == Resolved(accept)
             tells == TellsTap(v)
  <2>1. p \in Pointers /\ Sound(v)
    BY <1>1, <1>3, Resolves
  <2>2. s = [arena |-> [arena EXCEPT ![p] = Released(v.arena)],
             told |-> IF tells THEN [told EXCEPT ![p] = Append(@, "tap")] ELSE told,
             owed |-> IF tells \/ accept THEN owed \ {p} ELSE owed]
    BY <1>3 DEF Settle
  <2>3. ASSUME NEW down PROVE Steady(Released(v.arena), down)
    <3>1. v.arena.held \in BOOLEAN /\ v.arena \in Arenas
      BY <2>1 DEF Sound, Verdicts, Arenas
    <3>2. CASE v.arena.held /\ v.arena.sweep
      <4>1. Released(v.arena) = NoArena
        BY <3>2 DEF Released
      <4>2. Steady(NoArena, down)
        BY GoneIsSound DEF Steady
      <4> QED
        BY <4>1, <4>2
    <3>3. CASE ~(v.arena.held /\ v.arena.sweep)
      <4> DEFINE a == v.arena
      <4>1. a \in Arenas /\ IsInjective(a.members) /\ Len(a.members) # 1
        BY <2>1 DEF Sound, Verdicts
      <4>2. Released(a) = [a EXCEPT !.held = FALSE]
        BY <3>3 DEF Released
      <4> HIDE DEF a
      <4>3. Released(a) \in Arenas /\ ~Released(a).held /\ Released(a).members = a.members
        BY <4>1, <4>2 DEF Arenas
      <4>4. Steady(Released(a), down)
        BY <4>1, <4>3 DEF Steady
      <4> QED
        BY <4>4 DEF a
    <3> QED
      BY <3>2, <3>3
  <2>4. Released(v.arena) \in Arenas
    BY <2>3 DEF Steady
  <2>5. "tap" \in Words
    BY DEF Words
  <2> HIDE DEF v, s, tells, p
  <2>6. s.arena \in [Pointers -> Arenas] /\ s.arena[p] = Released(v.arena)
        /\ \A q \in Pointers : q # p => s.arena[q] = arena[q]
    BY <1>1, <2>1, <2>2, <2>4
  <2>7. s.told \in [Pointers -> Seq(Words)]
        /\ s.told[p] \in {told[p], Append(told[p], "tap")}
        /\ \A q \in Pointers : q # p => s.told[q] = told[q]
    <3>1. Append(told[p], "tap") \in Seq(Words)
      BY <1>1, <2>1, <2>5
    <3> DEFINE t == [told EXCEPT ![p] = Append(@, "tap")]
    <3>2. t \in [Pointers -> Seq(Words)] /\ t[p] = Append(told[p], "tap")
          /\ \A q \in Pointers : q # p => t[q] = told[q]
      BY <1>1, <2>1, <3>1
    <3>3. s.told = IF tells THEN t ELSE told
      BY <2>2
    <3> HIDE DEF t
    <3> QED
      BY <1>1, <2>1, <3>2, <3>3
  <2>8. s.owed = IF tells \/ accept THEN owed \ {p} ELSE owed
    BY <2>2
  <2>9. \A q \in Pointers : Steady(s.arena[q], press[q].down)
    <3> TAKE q \in Pointers
    <3>1. CASE q = p
      BY <2>1, <2>3, <2>6, <3>1
    <3>2. CASE q # p
      BY <1>1, <2>6, <3>2
    <3> QED
      BY <3>1, <3>2
  <2>10. \A down : Steady(s.arena[p], down)
    BY <2>3, <2>6
  <2>11. s.owed \subseteq owed /\ (tells \/ accept => s.owed = owed \ {p})
    BY <2>8
  <2>12. tells <=> TellsTap(Resolved(accept))
    BY DEF tells, v
  <2> QED
    BY <2>6, <2>7, <2>9, <2>10, <2>11, <2>12 DEF s, p
<1> QED
  BY <1>2, <1>3

\* The press that a down makes.
Pressed(path, button, near) ==
  [NoPress EXCEPT
     !.down = TRUE, !.path = path, !.button = button,
     !.second = Pairs(path, button, near), !.pressed = "press" \in Wants[Head(path)],
     !.drag = Innermost(path, "drag"), !.winner = Opened(path, button).winner]

\* The press a down makes.
LEMMA PressedPress ==
  ASSUME NEW path \in Paths, NEW button \in Buttons, NEW near \in BOOLEAN
  PROVE  LET pr == Pressed(path, button, near)
         IN  /\ pr \in Presses /\ pr.down /\ pr.path = path /\ pr.button = button
             /\ pr.second = Pairs(path, button, near)
             /\ pr.pressed = ("press" \in Wants[Head(path)])
             /\ pr.drag = Innermost(path, "drag")
             /\ pr.winner = Opened(path, button).winner
             /\ ~pr.past /\ ~pr.long /\ ~pr.scaling /\ ~pr.dragLost
<1> DEFINE s == Pairs(path, button, near)
           b == "press" \in Wants[Head(path)]
           d == Innermost(path, "drag")
           w == Opened(path, button).winner
<1>1. s \in BOOLEAN
  BY DEF Pairs
<1>2. b \in BOOLEAN
  OBVIOUS
<1>3. d \in Regions \cup {NoRegion}
  BY PathsAssumption, Innermosts
<1>4. w \in Recognisers \cup {NoMember}
  BY Opens DEF Sound, Verdicts
<1>5. Pressed(path, button, near)
        = [NoPress EXCEPT !.down = TRUE, !.path = path, !.button = button,
             !.second = s, !.pressed = b, !.drag = d, !.winner = w]
  BY DEF Pressed
<1> HIDE DEF s, b, d, w
<1>6. LongPress \in Nat
  BY TimesAssumption
<1> DEFINE pr == [down |-> TRUE, path |-> path, button |-> button, past |-> FALSE,
            long |-> FALSE, second |-> s, scaling |-> FALSE,
            pressed |-> b, drag |-> d, winner |-> w,
            dragLost |-> FALSE, age |-> 0]
<1>7. Pressed(path, button, near) = pr
  BY <1>5, ZenonT(30) DEF NoPress
<1>8. pr \in Presses
  BY <1>1, <1>2, <1>3, <1>4, <1>6 DEF Presses, Buttons
<1> QED
  BY <1>7, <1>8 DEF s, b, d, w

\* The press a pinch takes over.
LEMMA PinchedPress ==
  ASSUME NEW pr \in Presses
  PROVE  /\ Pinched(pr) \in Presses
         /\ Pinched(pr).down = pr.down /\ Pinched(pr).path = pr.path
         /\ Pinched(pr).button = pr.button /\ Pinched(pr).second = pr.second
         /\ Pinched(pr).scaling /\ Pinched(pr).long /\ ~Pinched(pr).pressed
         /\ Pinched(pr).drag = NoRegion
BY DEF Pinched, Presses

\* A new press, alone or with a partner to pinch with.
PressedAt(p, path, button, near) == [press EXCEPT ![p] = Pressed(path, button, near)]
SaidAt(p, path, button, near) == [Settle(Pairs(path, button, near)).told EXCEPT ![p] = <<>>]
LitAt(p, path) ==
  IF "press" \in Wants[Head(path)] THEN shown \cup {<<p, Head(path)>>} ELSE shown

Alone(p, path, button, near) ==
  /\ press' = PressedAt(p, path, button, near) /\ told' = SaidAt(p, path, button, near)
  /\ shown' = LitAt(p, path) /\ pinch' = pinch

InPair(p, q, path, button, near) ==
  LET pressed == PressedAt(p, path, button, near)
      said == SaidAt(p, path, button, near)
  IN  /\ pinch' = {p, q}
      /\ press' = [x \in Pointers |-> IF x \in {p, q} THEN Pinched(pressed[x]) ELSE pressed[x]]
      /\ told' = [x \in Pointers |->
           IF x \in {p, q} THEN ToldOfPinch(pressed[x], said[x]) ELSE said[x]]
      /\ shown' = LitAt(p, path) \ {<<x, Head(pressed[x].path)>> : x \in {p, q}}

\* A down, by the names of what it does; alone or in a pair.
LEMMA DownSteps ==
  ASSUME GestureTypeOK, NEW p \in Pointers, NEW path \in Paths, NEW button \in Buttons,
         NEW near \in BOOLEAN, Down(p, path, button, near)
  PROVE  /\ ~press[p].down
         /\ arena' = [Settle(Pairs(path, button, near)).arena
                        EXCEPT ![p] = Opened(path, button).arena]
         /\ pending' = NoTap /\ owed' = Settle(Pairs(path, button, near)).owed
         /\ frame' \in BOOLEAN
         /\ \/ Partners(p, path) = {} /\ Alone(p, path, button, near)
            \/ \E q \in Partners(p, path) : InPair(p, q, path, button, near)
<1> DEFINE fresh == Pressed(path, button, near)
           settled == Settle(Pairs(path, button, near))
<1>1. fresh.pressed = ("press" \in Wants[Head(path)])
  BY PressedPress
<1>2. /\ ~press[p].down
      /\ arena' = [settled.arena EXCEPT ![p] = Opened(path, button).arena]
      /\ pending' = NoTap /\ owed' = settled.owed /\ frame' = TRUE
      /\ \/ /\ Partners(p, path) = {}
            /\ press' = PressedAt(p, path, button, near)
            /\ told' = SaidAt(p, path, button, near)
            /\ shown' = IF fresh.pressed THEN shown \cup {<<p, Head(path)>>} ELSE shown
            /\ pinch' = pinch
         \/ \E q \in Partners(p, path) :
              LET pressed == PressedAt(p, path, button, near)
                  said == SaidAt(p, path, button, near)
                  glow == IF fresh.pressed THEN shown \cup {<<p, Head(path)>>} ELSE shown
              IN  /\ pinch' = {p, q}
                  /\ press' = [x \in Pointers |->
                       IF x \in {p, q} THEN Pinched(pressed[x]) ELSE pressed[x]]
                  /\ told' = [x \in Pointers |->
                       IF x \in {p, q} THEN ToldOfPinch(pressed[x], said[x]) ELSE said[x]]
                  /\ shown' = glow \ {<<x, Head(pressed[x].path)>> : x \in {p, q}}
  BY Zenon DEF Down, Pressed, PressedAt, SaidAt
<1>3. (IF fresh.pressed THEN shown \cup {<<p, Head(path)>>} ELSE shown) = LitAt(p, path)
  BY <1>1 DEF LitAt
<1> QED
  BY <1>2, <1>3, Zenon DEF Alone, InPair

\* A pinch is told in words.
LEMMA ToldOfPinchType ==
  ASSUME NEW pr, NEW said \in Seq(Words)
  PROVE  ToldOfPinch(pr, said) \in Seq(Words)
<1> DEFINE begun == IF Contains(said, "pinch") THEN said ELSE Append(said, "pinch")
<1>1. "pinch" \in Words /\ "end" \in Words
  BY DEF Words
<1>2. begun \in Seq(Words)
  BY <1>1
<1>3. ToldOfPinch(pr, said) = IF pr.past /\ pr.drag # NoRegion THEN Append(begun, "end") ELSE begun
  BY DEF ToldOfPinch
<1> HIDE DEF begun
<1> QED
  BY <1>1, <1>2, <1>3

\* A down keeps the type.
LEMMA DownType ==
  ASSUME GestureTypeOK, NEW p \in Pointers, NEW path \in Paths, NEW button \in Buttons,
         NEW near \in BOOLEAN, Down(p, path, button, near)
  PROVE  GestureTypeOK'
<1> DEFINE settled == Settle(Pairs(path, button, near))
           open == Opened(path, button)
           fresh == Pressed(path, button, near)
           pressed == PressedAt(p, path, button, near)
           said == SaidAt(p, path, button, near)
           glow == LitAt(p, path)
<1>1. /\ arena' = [settled.arena EXCEPT ![p] = open.arena]
      /\ pending' = NoTap /\ owed' = settled.owed /\ frame' \in BOOLEAN
      /\ \/ Partners(p, path) = {} /\ Alone(p, path, button, near)
         \/ \E q \in Partners(p, path) : InPair(p, q, path, button, near)
  BY DownSteps
<1>2. Pairs(path, button, near) \in BOOLEAN
  BY DEF Pairs
<1>3. /\ settled.arena \in [Pointers -> Arenas] /\ settled.told \in [Pointers -> Seq(Words)]
      /\ settled.owed \subseteq owed
      /\ \A q \in Pointers : Steady(settled.arena[q], press[q].down)
  BY <1>2, Settles
<1>4. Sound(open) /\ ~open.arena.held
  BY Opens
<1>5. press \in [Pointers -> Presses] /\ shown \subseteq Pointers \X Regions
      /\ pinch \subseteq Pointers /\ owed \subseteq Pointers
  BY DEF GestureTypeOK
<1>6. Head(path) \in Regions
  BY WhoJoins
<1>7. fresh \in Presses /\ fresh.down
  BY PressedPress
<1>15. pressed = [press EXCEPT ![p] = fresh] /\ said = [settled.told EXCEPT ![p] = <<>>]
  BY DEF PressedAt, SaidAt
<1>9. glow \subseteq Pointers \X Regions
  BY <1>5, <1>6 DEF LitAt
<1> HIDE DEF settled, open, fresh, pressed, said, glow
<1>8. pressed \in [Pointers -> Presses] /\ said \in [Pointers -> Seq(Words)]
      /\ \A q \in Pointers : pressed[q].down <=> (q = p \/ press[q].down)
  BY <1>3, <1>5, <1>7, <1>15
<1>10. arena' \in [Pointers -> Arenas] /\ arena'[p] = open.arena
       /\ \A q \in Pointers \ {p} : arena'[q] = settled.arena[q]
  BY <1>1, <1>3, <1>4 DEF Sound, Verdicts
<1>11. Steady(open.arena, TRUE)
  BY <1>4, SoundIsSteady
<1>12. pending' \in WaitingTaps /\ owed' \subseteq Pointers /\ frame' \in BOOLEAN
  BY <1>1, <1>3, <1>5, Records
<1>13. /\ press' \in [Pointers -> Presses] /\ told' \in [Pointers -> Seq(Words)]
       /\ shown' \subseteq Pointers \X Regions /\ pinch' \subseteq Pointers
       /\ \A x \in Pointers : press'[x].down = pressed[x].down
  <2>1. CASE Alone(p, path, button, near)
    BY <1>5, <1>8, <1>9, <2>1 DEF Alone, pressed, said, glow
  <2>2. ASSUME NEW q \in Partners(p, path), InPair(p, q, path, button, near)
        PROVE  <1>13
    <3>6. /\ pinch' = {p, q}
          /\ press' = [x \in Pointers |-> IF x \in {p, q} THEN Pinched(pressed[x]) ELSE pressed[x]]
          /\ told' = [x \in Pointers |->
               IF x \in {p, q} THEN ToldOfPinch(pressed[x], said[x]) ELSE said[x]]
          /\ shown' \subseteq glow
      BY <2>2 DEF InPair, pressed, said, glow
    <3>1. q \in Pointers
      BY DEF Partners
    <3>2. \A x \in Pointers : Pinched(pressed[x]) \in Presses
                              /\ Pinched(pressed[x]).down = pressed[x].down
      BY <1>8, PinchedPress
    <3>3. \A x \in Pointers : ToldOfPinch(pressed[x], said[x]) \in Seq(Words)
      BY <1>8, ToldOfPinchType
    <3>4. press' \in [Pointers -> Presses] /\ \A x \in Pointers : press'[x].down = pressed[x].down
      BY <1>8, <3>6, <3>2
    <3>5. told' \in [Pointers -> Seq(Words)]
      BY <1>8, <3>6, <3>3
    <3> QED
      BY <1>9, <3>6, <3>1, <3>4, <3>5
  <2> QED
    BY <1>1, <2>1, <2>2
<1>14. ASSUME NEW x \in Pointers PROVE Steady(arena'[x], press'[x].down)
  <2>1. CASE x = p
    <3>1. arena'[x] = open.arena /\ press'[x].down
      BY <1>8, <1>10, <1>13, <2>1
    <3> QED
      BY <1>11, <3>1 DEF Steady
  <2>2. CASE x # p
    <3>1. arena'[x] = settled.arena[x] /\ (press'[x].down <=> press[x].down)
      BY <1>8, <1>10, <1>13, <2>2
    <3> QED
      BY <1>3, <3>1 DEF Steady
  <2> QED
    BY <2>1, <2>2
<1> QED
  BY <1>10, <1>12, <1>13, <1>14, TypeFromParts

\* What becomes of the arena of a press: at the slop, at its end, when it is
\* taken away and when it is long.
SlopVerdict(p) ==
  LET off == RejectAll(Undecided(p), TapFamily)
  IN  IF press[p].drag = NoRegion THEN off ELSE Accept(off, Member("drag", press[p].drag))

Still(p) == ~press[p].past /\ ~press[p].long

UpGone(p) == RejectAll(Undecided(p), IF press[p].past THEN {"long"} ELSE {"long", "drag"})

UpPaired(p) ==
  IF Still(p) /\ press[p].second /\ Has(UpGone(p), "double")
  THEN Accept(UpGone(p), The(UpGone(p), "double")) ELSE UpGone(p)

UpHolds(p) == Still(p) /\ Holds(p, UpGone(p))

UpVerdict(p) == Sweep([UpPaired(p) EXCEPT !.arena.held = @ \/ UpHolds(p)])

CancelVerdict(p) == RejectAll(Undecided(p), TapFamily \cup {"drag", "scale"})

\* The drag of a press is a recogniser.
LEMMA DragMember ==
  ASSUME GestureTypeOK, NEW p \in Pointers, press[p].drag # NoRegion
  PROVE  Member("drag", press[p].drag) \in Recognisers
<1>1. press[p].drag \in Regions
  BY DEF GestureTypeOK, Presses
<1> QED
  BY <1>1 DEF Member, Recognisers, Handlers

\* The kinds that give up together.
LEMMA KindsAreHandlers ==
  /\ TapFamily \in SUBSET Handlers /\ {"long"} \in SUBSET Handlers
  /\ {"long", "drag"} \in SUBSET Handlers
  /\ TapFamily \cup {"drag", "scale"} \in SUBSET Handlers
BY DEF TapFamily, Handlers

\* Holding an arena changes nothing else about it.
LEMMA HoldIt ==
  ASSUME NEW v, Sound(v), NEW b \in BOOLEAN
  PROVE  LET u == [v EXCEPT !.arena.held = @ \/ b]
         IN  /\ Sound(u) /\ u.arena.members = v.arena.members /\ u.winner = v.winner
             /\ u.lost = v.lost /\ (u.arena.held <=> v.arena.held \/ b)
<1> DEFINE u == [v EXCEPT !.arena.held = @ \/ b]
           a == [v.arena EXCEPT !.held = v.arena.held \/ b]
<1>1. v \in Verdicts /\ v.arena \in Arenas
  BY DEF Sound, Verdicts
<1>2. u = [v EXCEPT !.arena = a]
  BY <1>1 DEF Verdicts, Arenas
<1>3. a \in Arenas /\ a.members = v.arena.members /\ a.held = (v.arena.held \/ b)
  BY <1>1 DEF Arenas
<1> HIDE DEF a, u
<1>4. u \in Verdicts /\ u.arena = a /\ u.winner = v.winner /\ u.lost = v.lost
  BY <1>1, <1>2, <1>3 DEF Verdicts
<1>5. Sound(u)
  BY <1>3, <1>4 DEF Sound
<1> QED
  BY <1>3, <1>4, <1>5 DEF u

\* The verdicts on the arena of a press that is down are sound, and only a
\* tap that may be the first of two leaves it held.
LEMMA DownVerdicts ==
  ASSUME GestureTypeOK, NEW p \in Pointers, press[p].down
  PROVE  /\ Sound(SlopVerdict(p)) /\ ~SlopVerdict(p).arena.held
         /\ Sound(UpGone(p)) /\ Sound(UpPaired(p)) /\ Sound(UpVerdict(p))
         /\ Sound(CancelVerdict(p)) /\ ~CancelVerdict(p).arena.held
         /\ ~UpPaired(p).arena.held
         /\ UpHolds(p) => /\ UpPaired(p) = UpGone(p) /\ UpVerdict(p).arena.held
                          /\ UpVerdict(p).arena.members = UpGone(p).arena.members
                          /\ UpVerdict(p).winner = UpGone(p).winner
                          /\ Has(UpVerdict(p), "double")
         /\ ~UpHolds(p) => /\ ~UpVerdict(p).arena.held
                           /\ UpVerdict(p) = Sweep(UpPaired(p))
<1> DEFINE v == Undecided(p)
<1>1. Sound(v) /\ v.arena = arena[p] /\ ~arena[p].held
  BY TypeParts
<1> HIDE DEF v
<1>2. ASSUME NEW kinds \in SUBSET Handlers
      PROVE  Sound(RejectAll(v, kinds)) /\ ~RejectAll(v, kinds).arena.held
  BY <1>1, RejectsAll
<1>3. Sound(SlopVerdict(p)) /\ ~SlopVerdict(p).arena.held
  <2> DEFINE off == RejectAll(v, TapFamily)
  <2>1. Sound(off) /\ ~off.arena.held
    BY <1>2, KindsAreHandlers
  <2> HIDE DEF off
  <2>2. SlopVerdict(p) = IF press[p].drag = NoRegion THEN off
                         ELSE Accept(off, Member("drag", press[p].drag))
    BY DEF SlopVerdict, off, v
  <2>3. CASE press[p].drag = NoRegion
    BY <2>1, <2>2, <2>3
  <2>4. CASE press[p].drag # NoRegion
    <3> DEFINE m == Member("drag", press[p].drag)
    <3>1. m \in Recognisers
      BY <2>4, DragMember
    <3>2. SlopVerdict(p) = Accept(off, m)
      BY <2>2, <2>4
    <3> HIDE DEF m
    <3> QED
      BY <2>1, <3>1, <3>2, Accepts, GoneIsSound
  <2> QED
    BY <2>3, <2>4
<1>4. Sound(CancelVerdict(p)) /\ ~CancelVerdict(p).arena.held
  BY <1>2, KindsAreHandlers DEF CancelVerdict, v
<1>5. Sound(UpGone(p)) /\ ~UpGone(p).arena.held
  BY <1>2, KindsAreHandlers DEF UpGone, v
<1> DEFINE gone == UpGone(p)
<1> HIDE DEF gone
<1>6. /\ Sound(UpPaired(p)) /\ ~UpPaired(p).arena.held
      /\ UpHolds(p) => UpPaired(p) = gone
  <2>1. UpPaired(p) = IF Still(p) /\ press[p].second /\ Has(gone, "double")
                      THEN Accept(gone, The(gone, "double")) ELSE gone
    BY DEF UpPaired, gone
  <2>2. Has(gone, "double") => The(gone, "double") \in Recognisers /\ gone.arena.members # <<>>
    BY <1>5, Names DEF gone
  <2>3. UpHolds(p) => ~press[p].second
    BY DEF UpHolds, Holds
  <2> QED
    BY <1>5, <2>1, <2>2, <2>3, Accepts, GoneIsSound DEF gone
<1>7. UpHolds(p) \in BOOLEAN
  BY DEF UpHolds, Still, Holds
<1> DEFINE held == [UpPaired(p) EXCEPT !.arena.held = @ \/ UpHolds(p)]
<1>8. /\ Sound(held) /\ held.arena.members = UpPaired(p).arena.members
      /\ held.winner = UpPaired(p).winner /\ (held.arena.held <=> UpHolds(p))
  BY <1>6, <1>7, HoldIt
<1>9. UpVerdict(p) = Sweep(held)
  BY DEF UpVerdict
<1>10. ~UpHolds(p) => held = UpPaired(p)
  <2>1. UpPaired(p) \in Verdicts /\ UpPaired(p).arena \in Arenas
    BY <1>6 DEF Sound, Verdicts
  <2>2. UpPaired(p).arena.held = FALSE
    BY <1>6, <2>1 DEF Arenas
  <2>3. [UpPaired(p).arena EXCEPT !.held = FALSE] = UpPaired(p).arena
    BY <2>1, <2>2 DEF Arenas
  <2>4. UpPaired(p) = [UpPaired(p) EXCEPT !.arena = UpPaired(p).arena]
    BY <2>1 DEF Verdicts
  <2>5. ASSUME ~UpHolds(p) PROVE held = [UpPaired(p) EXCEPT !.arena.held = FALSE]
    BY <1>6, <2>5, <2>2
  <2>6. [UpPaired(p) EXCEPT !.arena.held = FALSE]
          = [UpPaired(p) EXCEPT !.arena = [UpPaired(p).arena EXCEPT !.held = FALSE]]
    BY <2>1 DEF Verdicts, Arenas
  <2> HIDE DEF held
  <2> QED
    BY <2>3, <2>4, <2>5, <2>6
<1> HIDE DEF held
<1>11. Sound(UpVerdict(p))
  BY <1>8, <1>9, Sweeps
<1>12. ASSUME UpHolds(p)
       PROVE  /\ UpVerdict(p).arena.held /\ UpVerdict(p).arena.members = gone.arena.members
              /\ UpVerdict(p).winner = gone.winner /\ Has(UpVerdict(p), "double")
  <2>1. Has(gone, "double") /\ gone.arena.members # <<>>
    <3>1. Has(gone, "double")
      BY <1>12 DEF UpHolds, Holds, gone
    <3> QED
      BY <1>5, <3>1, Names DEF gone
  <2>2. held.arena.members = gone.arena.members /\ held.arena.held /\ held.winner = gone.winner
    BY <1>6, <1>8, <1>12
  <2>3. UpVerdict(p).arena.held /\ UpVerdict(p).arena.members = gone.arena.members
        /\ UpVerdict(p).winner = gone.winner
    BY <1>8, <1>9, <2>1, <2>2, Sweeps
  <2> QED
    BY <2>1, <2>3 DEF Has
<1>13. ASSUME ~UpHolds(p) PROVE ~UpVerdict(p).arena.held /\ UpVerdict(p) = Sweep(UpPaired(p))
  <2>1. UpVerdict(p) = Sweep(UpPaired(p))
    BY <1>9, <1>10, <1>13
  <2> QED
    BY <1>6, <2>1, Sweeps, GoneIsSound
<1> QED
  BY <1>3, <1>4, <1>5, <1>6, <1>11, <1>12, <1>13 DEF gone

\* What can be said.
LEMMA Speech ==
  /\ <<>> \in Seq(Words)
  /\ \A x \in Words : <<x>> \in Seq(Words)
  /\ \A x, y \in Seq(Words) : x \o y \in Seq(Words) /\ x \o <<>> = x /\ <<>> \o x = x
  /\ {"tap", "secondary", "double", "long", "start", "update", "end", "pinch"} = Words
<1>1. <<>> \in Seq(Words) /\ \A x \in Words : <<x>> \in Seq(Words)
  OBVIOUS
<1>2. \A x, y \in Seq(Words) : x \o y \in Seq(Words) /\ x \o <<>> = x /\ <<>> \o x = x
  OBVIOUS
<1> QED
  BY <1>1, <1>2 DEF Words

\* Steps that are about one press only.
LEMMA OneChanged ==
  ASSUME GestureTypeOK, NEW p \in Pointers,
         NEW pr \in Presses, press' = [press EXCEPT ![p] = pr],
         NEW a, Steady(a, pr.down), arena' = [arena EXCEPT ![p] = a],
         NEW w \in Seq(Words), told' = [told EXCEPT ![p] = @ \o w],
         shown' \subseteq shown, owed' \subseteq Pointers, pending' \in WaitingTaps,
         pinch' \subseteq Pointers, frame' \in BOOLEAN
  PROVE  GestureTypeOK'
<1>1. /\ press \in [Pointers -> Presses] /\ arena \in [Pointers -> Arenas]
      /\ told \in [Pointers -> Seq(Words)] /\ shown \subseteq Pointers \X Regions
      /\ \A q \in Pointers : Steady(arena[q], press[q].down)
  BY TypeParts DEF GestureTypeOK
<1>2. a \in Arenas
  BY DEF Steady
<1>3. told[p] \o w \in Seq(Words)
  BY <1>1
<1>4. /\ press' \in [Pointers -> Presses] /\ arena' \in [Pointers -> Arenas]
      /\ told' \in [Pointers -> Seq(Words)]
  BY <1>1, <1>2, <1>3
<1>5. ASSUME NEW q \in Pointers PROVE Steady(arena'[q], press'[q].down)
  <2>1. CASE q = p
    BY <1>1, <1>2, <2>1
  <2>2. CASE q # p
    BY <1>1, <1>2, <2>2
  <2> QED
    BY <2>1, <2>2
<1> QED
  BY <1>1, <1>4, <1>5, TypeFromParts

SlopStarts(p) == press[p].drag # NoRegion /\ SlopVerdict(p).winner.kind = "drag"

SlopStrays(p) ==
  press[p].drag # NoRegion /\ ~SlopStarts(p) /\ DragUpdates(press[p], SlopVerdict(p))

SlopWords(p) ==
  (IF SlopStarts(p) THEN <<"start">> ELSE <<>>) \o (IF SlopStrays(p) THEN <<"update">> ELSE <<>>)

Slipped(p) ==
  [press[p] EXCEPT !.past = TRUE, !.pressed = FALSE, !.winner = SlopVerdict(p).winner,
                   !.dragLost = press[p].dragLost \/ "drag" \in SlopVerdict(p).lost]

\* The slop is told in words.
LEMMA SlopWordsType ==
  ASSUME NEW p
  PROVE  SlopWords(p) \in Seq(Words)
<1>1. <<"start">> \in Seq(Words) /\ <<"update">> \in Seq(Words) /\ <<>> \in Seq(Words)
  BY Speech
<1> QED
  BY <1>1, Speech DEF SlopWords

\* Passing the slop, by the names of what it does.
LEMMA SlopSteps ==
  ASSUME GestureTypeOK, NEW p \in Pointers, PassSlop(p)
  PROVE  /\ press[p].down /\ ~press[p].past /\ ~press[p].scaling
         /\ press' = [press EXCEPT ![p] = Slipped(p)]
         /\ arena' = [arena EXCEPT ![p] = SlopVerdict(p).arena]
         /\ shown' = shown \ {<<p, Head(press[p].path)>>}
         /\ told' = [told EXCEPT ![p] = @ \o SlopWords(p)]
         /\ pending' = pending /\ pinch' = pinch /\ owed' = owed /\ frame' \in BOOLEAN
<1> DEFINE v == SlopVerdict(p)
           starts == SlopStarts(p)
           strays == SlopStrays(p)
<1>1. /\ press[p].down /\ ~press[p].past /\ ~press[p].scaling
      /\ press' = [press EXCEPT ![p] =
          [press[p] EXCEPT !.past = TRUE, !.pressed = FALSE, !.winner = v.winner,
                    !.dragLost = press[p].dragLost \/ "drag" \in v.lost]]
      /\ arena' = [arena EXCEPT ![p] = v.arena]
      /\ shown' = Unshown(p, Head(press[p].path))
      /\ told' = [told EXCEPT ![p] =
          @ \o (IF starts THEN <<"start">> ELSE <<>>)
            \o (IF strays THEN <<"update">> ELSE <<>>)]
      /\ frame' = TRUE
      /\ UNCHANGED <<pending, pinch, owed>>
  BY Zenon DEF PassSlop, SlopVerdict, SlopStarts, SlopStrays
<1>2. told[p] \in Seq(Words)
  BY DEF GestureTypeOK
<1>3. \A x \in Seq(Words) :
        x \o (IF starts THEN <<"start">> ELSE <<>>) \o (IF strays THEN <<"update">> ELSE <<>>)
          = x \o SlopWords(p)
  <2> TAKE x \in Seq(Words)
  <2> DEFINE b == IF starts THEN <<"start">> ELSE <<>>
             c == IF strays THEN <<"update">> ELSE <<>>
  <2>1. SlopWords(p) = b \o c
    BY DEF SlopWords
  <2>3. b \in Seq(Words) /\ c \in Seq(Words)
    <3>1. <<"start">> \in Seq(Words) /\ <<"update">> \in Seq(Words) /\ <<>> \in Seq(Words)
      BY Speech
    <3> QED
      BY <3>1
  <2> HIDE DEF b, c
  <2>2. (x \o b) \o c = x \o (b \o c)
    BY <2>3
  <2> QED
    BY <2>1, <2>2 DEF b, c
<1>4. told' = [told EXCEPT ![p] = @ \o SlopWords(p)]
  <2>1. told \in [Pointers -> Seq(Words)]
    BY DEF GestureTypeOK
  <2> HIDE DEF starts, strays
  <2> QED
    BY <1>1, <1>2, <1>3, <2>1
<1>5. press' = [press EXCEPT ![p] = Slipped(p)]
  <2>1. Slipped(p) = [press[p] EXCEPT !.past = TRUE, !.pressed = FALSE, !.winner = v.winner,
                        !.dragLost = press[p].dragLost \/ "drag" \in v.lost]
    BY Zenon DEF Slipped
  <2>2. press \in [Pointers -> Presses]
    BY DEF GestureTypeOK
  <2>3. press' = [press EXCEPT ![p] =
          [press[p] EXCEPT !.past = TRUE, !.pressed = FALSE, !.winner = v.winner,
                    !.dragLost = press[p].dragLost \/ "drag" \in v.lost]]
    BY <1>1, Zenon
  <2> QED
    BY <2>1, <2>3, Zenon
<1> QED
  BY <1>1, <1>4, <1>5 DEF Unshown

\* The press that has passed the slop.
LEMMA SlippedPress ==
  ASSUME GestureTypeOK, NEW p \in Pointers, press[p].down
  PROVE  LET pr == Slipped(p)
             v == SlopVerdict(p)
         IN  /\ pr \in Presses /\ pr.down /\ pr.path = press[p].path
             /\ pr.button = press[p].button /\ pr.past /\ pr.long = press[p].long
             /\ pr.second = press[p].second /\ pr.scaling = press[p].scaling
             /\ ~pr.pressed /\ pr.drag = press[p].drag /\ pr.winner = v.winner
             /\ pr.dragLost <=> press[p].dragLost \/ "drag" \in v.lost
<1>1. press[p] \in Presses
  BY TypeParts
<1>2. SlopVerdict(p).winner \in Recognisers \cup {NoMember}
  BY DownVerdicts DEF Sound, Verdicts
<1> QED
  BY <1>1, <1>2 DEF Slipped, Presses

\* Passing the slop keeps the type.
LEMMA PassSlopType ==
  ASSUME GestureTypeOK, NEW p \in Pointers, PassSlop(p)
  PROVE  GestureTypeOK'
<1>1. /\ press[p].down
      /\ press' = [press EXCEPT ![p] = Slipped(p)]
      /\ arena' = [arena EXCEPT ![p] = SlopVerdict(p).arena]
      /\ shown' = shown \ {<<p, Head(press[p].path)>>}
      /\ told' = [told EXCEPT ![p] = @ \o SlopWords(p)]
      /\ pending' = pending /\ pinch' = pinch /\ owed' = owed /\ frame' \in BOOLEAN
  BY SlopSteps
<1>2. Steady(SlopVerdict(p).arena, Slipped(p).down)
  BY <1>1, DownVerdicts, SoundIsSteady
<1>3. SlopWords(p) \in Seq(Words)
  BY SlopWordsType
<1>4. Slipped(p) \in Presses
  BY <1>1, SlippedPress
<1>5. owed' \subseteq Pointers /\ pending' \in WaitingTaps /\ pinch' \subseteq Pointers
      /\ shown' \subseteq shown
  BY <1>1 DEF GestureTypeOK
<1> QED
  BY <1>1, <1>2, <1>3, <1>4, <1>5, OneChanged

\* The end of a drag is told in words.
LEMMA DragEndsType ==
  ASSUME NEW pr, NEW v
  PROVE  DragEnds(pr, v) \in Seq(Words)
<1>1. <<"end">> \in Seq(Words) /\ <<>> \in Seq(Words)
  BY Speech
<1> QED
  BY <1>1 DEF DragEnds

UpTells(p) == IF Still(p) /\ ~UpHolds(p) THEN Verdict(p, UpVerdict(p)) ELSE <<>>

UpWaits(p) ==
  /\ Still(p) /\ UpTells(p) = <<>> /\ LeftAlone(press[p].path)
  /\ Innermost(Taps(press[p].path, press[p].button), "tap") # NoRegion

UpTap(p) ==
  [pointer |-> p, region |-> Double(p), up |-> 0, down |-> Younger(press[p].age, MinGap)]

\* A lift is told in words.
LEMMA UpWords ==
  ASSUME NEW p
  PROVE  UpTells(p) \in Seq(Words)
<1> DEFINE v == UpVerdict(p)
           b == IF v.winner.kind \in {"tap", "secondary"} THEN <<v.winner.kind>> ELSE <<>>
           c == IF press[p].second THEN <<"double">> ELSE <<>>
<1>1. Verdict(p, v) = b \o c
  BY DEF Verdict
<1>2. /\ <<"tap">> \in Seq(Words) /\ <<"secondary">> \in Seq(Words)
      /\ <<"double">> \in Seq(Words) /\ <<>> \in Seq(Words)
  BY Speech
<1>3. b \in Seq(Words) /\ c \in Seq(Words)
  BY <1>2
<1> HIDE DEF b, c
<1>4. Verdict(p, v) \in Seq(Words)
  BY <1>1, <1>3, Speech
<1> QED
  BY <1>2, <1>4 DEF UpTells

\* A lift, by the names of what it does.
LEMMA UpSteps ==
  ASSUME GestureTypeOK, NEW p \in Pointers, Up(p)
  PROVE  /\ press[p].down /\ ~press[p].scaling
         /\ press' = [press EXCEPT ![p] = NoPress]
         /\ arena' = [arena EXCEPT ![p] = UpVerdict(p).arena]
         /\ pending' = IF UpHolds(p) THEN UpTap(p) ELSE pending
         /\ told' = [told EXCEPT ![p] =
              @ \o (UpTells(p) \o DragEnds(press[p], UpVerdict(p)))]
         /\ shown' = IF press[p].pressed THEN shown \ {<<p, Head(press[p].path)>>} ELSE shown
         /\ owed' = (IF UpHolds(p) THEN owed \ {pending.pointer} ELSE owed)
                      \cup (IF UpWaits(p) THEN {p} ELSE {})
         /\ pinch' = pinch /\ frame' \in BOOLEAN
<1>1. /\ press[p].down /\ ~press[p].scaling
      /\ press' = [press EXCEPT ![p] = NoPress]
      /\ arena' = [arena EXCEPT ![p] = UpVerdict(p).arena]
      /\ pending' = IF UpHolds(p) THEN UpTap(p) ELSE pending
      /\ told' = [told EXCEPT ![p] = @ \o UpTells(p) \o DragEnds(press[p], UpVerdict(p))]
      /\ shown' = IF press[p].pressed THEN Unshown(p, Head(press[p].path)) ELSE shown
      /\ owed' = (IF UpHolds(p) THEN owed \ {pending.pointer} ELSE owed)
                   \cup (IF UpWaits(p) THEN {p} ELSE {})
      /\ frame' = TRUE
      /\ UNCHANGED pinch
  BY Zenon DEF Up, UpHolds, Still, UpGone, UpPaired, UpVerdict, UpTells, UpWaits, UpTap
<1>2. told[p] \in Seq(Words) /\ told \in [Pointers -> Seq(Words)]
  BY DEF GestureTypeOK
<1>3. UpTells(p) \in Seq(Words) /\ DragEnds(press[p], UpVerdict(p)) \in Seq(Words)
  BY UpWords, DragEndsType
<1>4. told[p] \o UpTells(p) \o DragEnds(press[p], UpVerdict(p))
        = told[p] \o (UpTells(p) \o DragEnds(press[p], UpVerdict(p)))
  BY <1>2, <1>3
<1>5. told' = [told EXCEPT ![p] = @ \o (UpTells(p) \o DragEnds(press[p], UpVerdict(p)))]
  BY <1>1, <1>2, <1>4
<1> QED
  BY <1>1, <1>5 DEF Unshown

\* A lift keeps the type.
LEMMA UpType ==
  ASSUME GestureTypeOK, NEW p \in Pointers, Up(p)
  PROVE  GestureTypeOK'
<1>1. /\ press[p].down
      /\ press' = [press EXCEPT ![p] = NoPress]
      /\ arena' = [arena EXCEPT ![p] = UpVerdict(p).arena]
      /\ pending' = IF UpHolds(p) THEN UpTap(p) ELSE pending
      /\ told' = [told EXCEPT ![p] = @ \o (UpTells(p) \o DragEnds(press[p], UpVerdict(p)))]
      /\ shown' = IF press[p].pressed THEN shown \ {<<p, Head(press[p].path)>>} ELSE shown
      /\ owed' = (IF UpHolds(p) THEN owed \ {pending.pointer} ELSE owed)
                   \cup (IF UpWaits(p) THEN {p} ELSE {})
      /\ pinch' = pinch /\ frame' \in BOOLEAN
  BY UpSteps
<1>2. Steady(UpVerdict(p).arena, NoPress.down)
  <2>1. Sound(UpVerdict(p)) /\ (UpVerdict(p).arena.held => Has(UpVerdict(p), "double"))
    BY <1>1, DownVerdicts
  <2>2. ~NoPress.down
    BY Records
  <2> QED
    BY <2>1, <2>2, SoundIsSteady
<1>3. UpTells(p) \o DragEnds(press[p], UpVerdict(p)) \in Seq(Words)
  BY UpWords, DragEndsType
<1>4. UpTap(p) \in WaitingTaps
  <2>1. press[p].path \in Paths \cup {<<>>} /\ press[p].age \in 0..LongPress
    BY TypeParts DEF Presses
  <2>2. Double(p) \in Regions \cup {NoRegion}
    BY <2>1, ForTaps DEF Double
  <2>3. Younger(press[p].age, MinGap) \in 0..MinGap
    BY <2>1, TimesAssumption DEF Younger
  <2> QED
    BY <2>2, <2>3, TimesAssumption DEF UpTap, WaitingTaps
<1>5. /\ owed' \subseteq Pointers /\ pending' \in WaitingTaps /\ pinch' \subseteq Pointers
      /\ shown' \subseteq shown
  BY <1>1, <1>4 DEF GestureTypeOK
<1>6. NoPress \in Presses
  BY Records
<1> QED
  BY <1>1, <1>2, <1>3, <1>5, <1>6, OneChanged

\* A cancel, by the names of what it does.
LEMMA CancelSteps ==
  ASSUME GestureTypeOK, NEW p \in Pointers, Cancel(p)
  PROVE  /\ press[p].down /\ ~press[p].scaling
         /\ press' = [press EXCEPT ![p] = NoPress]
         /\ arena' = [arena EXCEPT ![p] = CancelVerdict(p).arena]
         /\ told' = [told EXCEPT ![p] = @ \o DragEnds(press[p], CancelVerdict(p))]
         /\ shown' = IF press[p].pressed THEN shown \ {<<p, Head(press[p].path)>>} ELSE shown
         /\ pending' = pending /\ pinch' = pinch /\ owed' = owed /\ frame' \in BOOLEAN
<1>1. /\ press[p].down /\ ~press[p].scaling
      /\ press' = [press EXCEPT ![p] = NoPress]
      /\ arena' = [arena EXCEPT ![p] = CancelVerdict(p).arena]
      /\ told' = [told EXCEPT ![p] = @ \o DragEnds(press[p], CancelVerdict(p))]
      /\ shown' = IF press[p].pressed THEN Unshown(p, Head(press[p].path)) ELSE shown
      /\ frame' = TRUE
      /\ UNCHANGED <<pending, pinch, owed>>
  BY Zenon DEF Cancel, CancelVerdict
<1> QED
  BY <1>1 DEF Unshown

\* A cancel keeps the type.
LEMMA CancelType ==
  ASSUME GestureTypeOK, NEW p \in Pointers, Cancel(p)
  PROVE  GestureTypeOK'
<1>1. /\ press[p].down
      /\ press' = [press EXCEPT ![p] = NoPress]
      /\ arena' = [arena EXCEPT ![p] = CancelVerdict(p).arena]
      /\ told' = [told EXCEPT ![p] = @ \o DragEnds(press[p], CancelVerdict(p))]
      /\ shown' = IF press[p].pressed THEN shown \ {<<p, Head(press[p].path)>>} ELSE shown
      /\ pending' = pending /\ pinch' = pinch /\ owed' = owed /\ frame' \in BOOLEAN
  BY CancelSteps
<1>2. Steady(CancelVerdict(p).arena, NoPress.down)
  BY <1>1, DownVerdicts, SoundIsSteady
<1>3. DragEnds(press[p], CancelVerdict(p)) \in Seq(Words)
  BY DragEndsType
<1>4. /\ owed' \subseteq Pointers /\ pending' \in WaitingTaps /\ pinch' \subseteq Pointers
      /\ shown' \subseteq shown
  BY <1>1 DEF GestureTypeOK
<1>5. NoPress \in Presses
  BY Records
<1> QED
  BY <1>1, <1>2, <1>3, <1>4, <1>5, OneChanged

\* Leaving a pinch keeps the type.
LEMMA LeavePinchType ==
  ASSUME GestureTypeOK, NEW p \in Pointers, LeavePinch(p)
  PROVE  GestureTypeOK'
<1>1. /\ press[p].down
      /\ press' = [press EXCEPT ![p] = NoPress]
      /\ pinch' \subseteq pinch
      /\ arena' = arena /\ pending' = pending /\ told' = told /\ shown' = shown
      /\ owed' = owed /\ frame' \in BOOLEAN
  BY DEF LeavePinch, PinchWithout
<1>2. /\ press \in [Pointers -> Presses] /\ arena \in [Pointers -> Arenas]
      /\ \A q \in Pointers : Steady(arena[q], press[q].down)
      /\ press[p].down => ~arena[p].held
  BY TypeParts DEF GestureTypeOK
<1>3. NoPress \in Presses /\ ~NoPress.down
  BY Records
<1>4. ASSUME NEW q \in Pointers PROVE Steady(arena'[q], press'[q].down)
  <2>1. arena'[q] = arena[q] /\ (q # p => press'[q] = press[q]) /\ Steady(arena[q], press[q].down)
    BY <1>1, <1>2, <1>3
  <2>2. q = p => ~arena[q].held
    BY <1>1, <1>2
  <2> QED
    BY <2>1, <2>2 DEF Steady
<1>5. press' \in [Pointers -> Presses]
  BY <1>1, <1>2, <1>3
<1>6. /\ arena' \in [Pointers -> Arenas] /\ pending' \in WaitingTaps /\ pinch' \subseteq Pointers
      /\ told' \in [Pointers -> Seq(Words)] /\ shown' \subseteq Pointers \X Regions
      /\ owed' \subseteq Pointers
  BY <1>1 DEF GestureTypeOK
<1> QED
  BY <1>1, <1>4, <1>5, <1>6, TypeFromParts

\* Ages that only grow to their cap.
LEMMA Ages ==
  ASSUME NEW cap \in Nat, NEW age \in 0..cap
  PROVE  Older(age, cap) \in 0..cap
BY DEF Older

Aged(p) == IF press[p].down THEN [press[p] EXCEPT !.age = Older(@, LongPress)] ELSE press[p]

\* An older press is the same press.
LEMMA AgedPress ==
  ASSUME GestureTypeOK, NEW p \in Pointers
  PROVE  LET pr == Aged(p)
         IN  /\ pr \in Presses /\ pr.down = press[p].down /\ pr.path = press[p].path
             /\ pr.button = press[p].button /\ pr.past = press[p].past
             /\ pr.long = press[p].long /\ pr.second = press[p].second
             /\ pr.scaling = press[p].scaling /\ pr.pressed = press[p].pressed
             /\ pr.drag = press[p].drag /\ pr.winner = press[p].winner
             /\ pr.dragLost = press[p].dragLost
             /\ ~pr.down => pr = press[p]
<1>1. press[p] \in Presses
  BY TypeParts
<1>2. Older(press[p].age, LongPress) \in 0..LongPress
  BY <1>1, TimesAssumption, Ages DEF Presses
<1> QED
  BY <1>1, <1>2 DEF Aged, Presses

\* Time keeps the type.
LEMMA ClockType ==
  ASSUME GestureTypeOK, Clock
  PROVE  GestureTypeOK'
<1>1. /\ press' = [p \in Pointers |-> Aged(p)]
      /\ pending' = IF pending.pointer = NoPointer THEN pending
                    ELSE [pending EXCEPT !.up = Older(@, DoubleTap + 1),
                                         !.down = Older(@, MinGap)]
      /\ UNCHANGED <<arena, pinch, frame, told, shown, owed>>
  BY DEF Clock, Aged
<1>2. press' \in [Pointers -> Presses] /\ \A p \in Pointers : press'[p].down = press[p].down
  BY <1>1, AgedPress
<1>3. pending' \in WaitingTaps
  <2>1. pending \in WaitingTaps /\ DoubleTap + 1 \in Nat /\ MinGap \in Nat
    BY TimesAssumption DEF GestureTypeOK
  <2>2. Older(pending.up, DoubleTap + 1) \in 0..(DoubleTap + 1)
        /\ Older(pending.down, MinGap) \in 0..MinGap
    BY <2>1, Ages DEF WaitingTaps
  <2> QED
    BY <1>1, <2>1, <2>2 DEF WaitingTaps
<1>4. \A p \in Pointers : Steady(arena'[p], press'[p].down)
  BY <1>1, <1>2, TypeParts
<1> QED
  BY <1>1, <1>2, <1>3, <1>4, TypeFromParts DEF GestureTypeOK

\* The presses whose long press is due.
LEMMA DuePress ==
  ASSUME GestureTypeOK, NEW p \in Due
  PROVE  LET pr == AfterClaim(p)
             v == Claimed(p)
         IN  /\ p \in Pointers /\ AwaitsLongPress(press[p])
             /\ press[p].path \in Paths /\ press[p].button = "primary"
             /\ Long(p) = Innermost(press[p].path, "long") /\ Long(p) \in Regions
             /\ Member("long", Long(p)) \in Recognisers
             /\ Sound(v) /\ ~v.arena.held
             /\ v = Accept(Undecided(p), Member("long", Long(p)))
             /\ pr \in Presses /\ pr.down /\ pr.path = press[p].path
             /\ pr.button = press[p].button /\ ~pr.past /\ pr.second = press[p].second
             /\ ~pr.scaling /\ pr.drag = press[p].drag /\ pr.winner = v.winner
             /\ (pr.dragLost <=> press[p].dragLost \/ "drag" \in v.lost)
             /\ pr.long = Fires(p)
             /\ pr.pressed = (press[p].pressed /\ ~Fires(p))
<1> DEFINE m == Member("long", Long(p))
<1>1. p \in Pointers /\ AwaitsLongPress(press[p])
  BY DEF Due
<1>2. /\ press[p] \in Presses /\ press[p].path \in Paths \cup {<<>>}
      /\ Sound(Undecided(p)) /\ Undecided(p).arena = arena[p]
      /\ press[p].down => ~arena[p].held
  BY <1>1, TypeParts
<1>3. /\ press[p].down /\ ~press[p].long /\ ~press[p].past /\ ~press[p].scaling
      /\ Long(p) # NoRegion
  BY <1>1 DEF AwaitsLongPress, Long
<1>4. /\ press[p].path \in Paths /\ press[p].button = "primary"
      /\ Long(p) = Innermost(press[p].path, "long") /\ Long(p) \in Regions
  BY <1>2, <1>3, ForTaps DEF Long
<1>5. m \in Recognisers
  BY <1>4 DEF Member, Recognisers, Handlers
<1> HIDE DEF m
<1>6. Claimed(p) = Accept(Undecided(p), m)
  BY DEF Claimed, m
<1>7. Sound(Claimed(p)) /\ ~Claimed(p).arena.held
  BY <1>2, <1>3, <1>5, <1>6, Accepts, GoneIsSound
<1>8. Claimed(p).winner \in Recognisers \cup {NoMember}
  BY <1>7 DEF Sound, Verdicts
<1>9. Fires(p) \in BOOLEAN
  BY DEF Fires
<1> DEFINE w == Claimed(p).winner
           l == Claimed(p).lost
           f == Fires(p)
<1>10. AfterClaim(p) = [press[p] EXCEPT !.winner = w, !.dragLost = press[p].dragLost \/ "drag" \in l,
                          !.long = f, !.pressed = press[p].pressed /\ ~f]
  BY Zenon DEF AfterClaim
<1>11. w \in Recognisers \cup {NoMember} /\ f \in BOOLEAN
  BY <1>8, <1>9
<1> HIDE DEF w, l, f
<1>12. LET pr == AfterClaim(p)
       IN  /\ pr \in Presses /\ pr.down /\ pr.path = press[p].path
           /\ pr.button = press[p].button /\ ~pr.past /\ pr.second = press[p].second
           /\ ~pr.scaling /\ pr.drag = press[p].drag /\ pr.winner = w
           /\ (pr.dragLost <=> press[p].dragLost \/ "drag" \in l)
           /\ pr.long = f /\ pr.pressed = (press[p].pressed /\ ~f)
  BY <1>2, <1>3, <1>10, <1>11, ZenonT(30) DEF Presses
<1> QED
  BY <1>1, <1>4, <1>5, <1>6, <1>7, <1>12 DEF w, l, f, m

\* What a frame does to each press.
LEMMA TickSteps ==
  ASSUME GestureTypeOK, Tick
  PROVE  LET settled == Settle(FALSE)
         IN  /\ press' = [p \in Pointers |-> IF p \in Due THEN AfterClaim(p) ELSE press[p]]
             /\ arena' = [p \in Pointers |->
                   IF p \in Due THEN Claimed(p).arena
                   ELSE IF Expired THEN settled.arena[p] ELSE arena[p]]
             /\ told' = [p \in Pointers |->
                   IF Fires(p) THEN Append(told[p], "long")
                   ELSE IF Expired THEN settled.told[p] ELSE told[p]]
             /\ pending' = IF Expired THEN NoTap ELSE pending
             /\ owed' = IF Expired THEN settled.owed ELSE owed
             /\ shown' = shown \ {<<p, Long(p)>> : p \in {q \in Due : Fires(q) /\ press[q].pressed}}
             /\ pinch' = pinch /\ frame' \in BOOLEAN
BY DEF Tick, AwaitsDeadline

\* A frame keeps the type.
LEMMA TickType ==
  ASSUME GestureTypeOK, Tick
  PROVE  GestureTypeOK'
<1> DEFINE settled == Settle(FALSE)
<1>1. /\ press' = [p \in Pointers |-> IF p \in Due THEN AfterClaim(p) ELSE press[p]]
      /\ arena' = [p \in Pointers |->
            IF p \in Due THEN Claimed(p).arena
            ELSE IF Expired THEN settled.arena[p] ELSE arena[p]]
      /\ told' = [p \in Pointers |->
            IF Fires(p) THEN Append(told[p], "long")
            ELSE IF Expired THEN settled.told[p] ELSE told[p]]
      /\ pending' = IF Expired THEN NoTap ELSE pending
      /\ owed' = IF Expired THEN settled.owed ELSE owed
      /\ shown' = shown \ {<<p, Long(p)>> : p \in {q \in Due : Fires(q) /\ press[q].pressed}}
      /\ pinch' = pinch /\ frame' \in BOOLEAN
  BY TickSteps
<1>2. /\ settled.arena \in [Pointers -> Arenas] /\ settled.told \in [Pointers -> Seq(Words)]
      /\ settled.owed \subseteq owed
      /\ \A q \in Pointers : Steady(settled.arena[q], press[q].down)
  BY Settles
<1> HIDE DEF settled
<1>3. \A p \in Due : /\ p \in Pointers /\ AfterClaim(p) \in Presses /\ AfterClaim(p).down
                     /\ Sound(Claimed(p)) /\ ~Claimed(p).arena.held
  BY DuePress
<1>4. /\ press \in [Pointers -> Presses] /\ arena \in [Pointers -> Arenas]
      /\ told \in [Pointers -> Seq(Words)]
      /\ \A q \in Pointers : Steady(arena[q], press[q].down)
      /\ pending \in WaitingTaps /\ pinch \subseteq Pointers
      /\ shown \subseteq Pointers \X Regions /\ owed \subseteq Pointers
  BY TypeParts DEF GestureTypeOK
<1>5. press' \in [Pointers -> Presses]
  BY <1>1, <1>3, <1>4
<1>6. \A p \in Due : Steady(Claimed(p).arena, TRUE) /\ Claimed(p).arena \in Arenas
  BY <1>3, SoundIsSteady DEF Steady
<1>7. arena' \in [Pointers -> Arenas]
  BY <1>1, <1>2, <1>4, <1>6
<1>8. told' \in [Pointers -> Seq(Words)]
  <2>1. \A p \in Pointers : Append(told[p], "long") \in Seq(Words)
    BY <1>4, Speech
  <2> QED
    BY <1>1, <1>2, <1>4, <2>1
<1>9. ASSUME NEW p \in Pointers PROVE Steady(arena'[p], press'[p].down)
  <2>1. CASE p \in Due
    <3>1. arena'[p] = Claimed(p).arena /\ press'[p].down /\ Steady(Claimed(p).arena, TRUE)
      BY <1>1, <1>3, <1>6, <2>1
    <3> QED
      BY <3>1 DEF Steady
  <2>2. CASE p \notin Due
    <3>1. press'[p] = press[p] /\ arena'[p] \in {settled.arena[p], arena[p]}
      BY <1>1, <2>2
    <3> QED
      BY <1>2, <1>4, <3>1
  <2> QED
    BY <2>1, <2>2
<1>10. /\ pending' \in WaitingTaps /\ pinch' \subseteq Pointers /\ frame' \in BOOLEAN
       /\ shown' \subseteq Pointers \X Regions /\ owed' \subseteq Pointers
  BY <1>1, <1>2, <1>4, Records
<1> QED
  BY <1>5, <1>7, <1>8, <1>9, <1>10, TypeFromParts
-----------------------------------------------------------------------------
(* The fingers of a pinch and what is highlighted.                         *)

\* Every press is on a path, and a finger of a pinch shows nothing.
Ruled ==
  \A p \in Pointers :
    /\ press[p].down => press[p].path \in Paths
    /\ press[p].scaling => ~press[p].pressed

\* What is shown is what the press began on, where its long press is its own.
Lit ==
  \A x \in shown : LongIsOwn(x[2]) =>
     /\ press[x[1]].down /\ press[x[1]].pressed
     /\ x[2] = Head(press[x[1]].path)

\* A press that is over takes its highlight with it.
LEMMA Unlit ==
  ASSUME GestureTypeOK, Lit, NEW p \in Pointers,
         \/ shown' = shown \ {<<p, Head(press[p].path)>>}
         \/ shown' = shown /\ ~press[p].pressed
  PROVE  \A x \in shown' : x \in shown /\ (LongIsOwn(x[2]) => x[1] # p)
<1> SUFFICES ASSUME NEW x \in shown', LongIsOwn(x[2]), x[1] = p PROVE FALSE
  OBVIOUS
<1>1. x \in shown /\ x \in Pointers \X Regions
  BY DEF GestureTypeOK
<1>2. x = <<x[1], x[2]>>
  BY <1>1
<1>3. press[p].pressed /\ x[2] = Head(press[p].path)
  BY <1>1 DEF Lit
<1> QED
  BY <1>2, <1>3

\* What is lit stays right when one press changes.
LEMMA LitOne ==
  ASSUME GestureTypeOK, Lit, Ruled, NEW p \in Pointers,
         NEW pr, press' = [press EXCEPT ![p] = pr],
         \A x \in shown' : x \in shown /\ (LongIsOwn(x[2]) => x[1] # p),
         pr.down => pr.path \in Paths, ~pr.pressed
  PROVE  Lit' /\ Ruled'
<1>1. \A q \in Pointers : press'[q] = IF q = p THEN pr ELSE press[q]
  BY DEF GestureTypeOK
<1>2. Ruled'
  BY <1>1 DEF Ruled
<1>3. ASSUME NEW x \in shown', LongIsOwn(x[2])
      PROVE  press'[x[1]].down /\ press'[x[1]].pressed /\ x[2] = Head(press'[x[1]].path)
  <2>1. x \in shown /\ x[1] # p /\ x[1] \in Pointers
    BY <1>3 DEF GestureTypeOK
  <2> QED
    BY <1>1, <1>3, <2>1 DEF Lit
<1> QED
  BY <1>2, <1>3 DEF Lit

\* A step of one press that is no finger of a pinch, or that ends the pinch.
LEMMA PinchOne ==
  ASSUME GestureTypeOK, PinchHasTwoFingers, NEW p \in Pointers,
         NEW pr, press' = [press EXCEPT ![p] = pr],
         \/ pinch' = pinch /\ ~(press[p].down /\ press[p].scaling)
         \/ pinch' = IF p \in pinch THEN {} ELSE pinch
  PROVE  PinchHasTwoFingers'
<1>1. \A q \in Pointers : q # p => press'[q] = press[q]
  BY DEF GestureTypeOK
<1>2. pinch' # {} => pinch' = pinch /\ p \notin pinch
  BY DEF PinchHasTwoFingers
<1>3. pinch \subseteq Pointers
  BY DEF GestureTypeOK
<1> QED
  BY <1>1, <1>2, <1>3 DEF PinchHasTwoFingers

\* A down makes a pinch of two fingers, or none.
LEMMA DownPinch ==
  ASSUME GestureTypeOK, PinchHasTwoFingers, NEW p \in Pointers, NEW path \in Paths,
         NEW button \in Buttons, NEW near \in BOOLEAN, Down(p, path, button, near)
  PROVE  PinchHasTwoFingers'
<1> DEFINE pressed == PressedAt(p, path, button, near)
           fresh == Pressed(path, button, near)
<1>1. /\ ~press[p].down
      /\ \/ Alone(p, path, button, near)
         \/ \E q \in Partners(p, path) : InPair(p, q, path, button, near)
  BY DownSteps
<1>2. CASE Alone(p, path, button, near)
  <2>1. press' = [press EXCEPT ![p] = fresh] /\ pinch' = pinch
    BY <1>2 DEF Alone, PressedAt
  <2> HIDE DEF fresh
  <2> QED
    BY <1>1, <2>1, PinchOne
<1>3. ASSUME NEW q \in Partners(p, path), InPair(p, q, path, button, near)
      PROVE  PinchHasTwoFingers'
  <2>1. q \in Pointers /\ q # p /\ press[q].down
    BY DEF Partners
  <2>2. /\ pinch' = {p, q}
        /\ press' = [x \in Pointers |-> IF x \in {p, q} THEN Pinched(pressed[x]) ELSE pressed[x]]
    BY <1>3 DEF InPair
  <2>3. Cardinality({p, q}) = 2
    <3>1. Cardinality({p}) = 1 /\ IsFiniteSet({p})
      BY FS_Singleton
    <3>2. Cardinality({p} \cup {q}) = Cardinality({p}) + 1
      BY <2>1, <3>1, FS_AddElement
    <3>3. {p, q} = {p} \cup {q}
      OBVIOUS
    <3> QED
      BY <3>1, <3>2, <3>3
  <2>4. /\ fresh \in Presses /\ fresh.down /\ press \in [Pointers -> Presses]
        /\ pressed = [press EXCEPT ![p] = fresh]
    BY PressedPress DEF GestureTypeOK, PressedAt
  <2> HIDE DEF fresh, pressed
  <2>5. \A x \in {p, q} : pressed[x] \in Presses /\ pressed[x].down
    BY <2>1, <2>4
  <2>6. \A x \in {p, q} : press'[x] = Pinched(pressed[x])
    BY <2>1, <2>2
  <2>7. \A x \in {p, q} : /\ press'[x].down /\ press'[x].scaling /\ press'[x].long
                          /\ ~press'[x].pressed /\ press'[x].drag = NoRegion
    BY <2>5, <2>6, PinchedPress
  <2> QED
    BY <2>2, <2>3, <2>7 DEF PinchHasTwoFingers
<1> QED
  BY <1>1, <1>2, <1>3

\* A down lights the innermost region, and a pinch puts its two out.
LEMMA DownLit ==
  ASSUME GestureTypeOK, Lit, Ruled, NEW p \in Pointers, NEW path \in Paths,
         NEW button \in Buttons, NEW near \in BOOLEAN, Down(p, path, button, near)
  PROVE  Lit' /\ Ruled'
<1> DEFINE pressed == PressedAt(p, path, button, near)
           fresh == Pressed(path, button, near)
           glow == LitAt(p, path)
<1>1. /\ ~press[p].down
      /\ \/ Alone(p, path, button, near)
         \/ \E q \in Partners(p, path) : InPair(p, q, path, button, near)
  BY DownSteps
<1>2. /\ fresh \in Presses /\ fresh.down /\ press \in [Pointers -> Presses]
      /\ pressed = [press EXCEPT ![p] = fresh]
      /\ fresh.path = path /\ fresh.pressed = ("press" \in Wants[Head(path)])
      /\ ~fresh.scaling /\ shown \subseteq Pointers \X Regions
  <2>1. /\ fresh \in Presses /\ fresh.down /\ fresh.path = path
        /\ fresh.pressed = ("press" \in Wants[Head(path)]) /\ ~fresh.scaling
    BY PressedPress
  <2>2. pressed = [press EXCEPT ![p] = fresh]
    BY DEF PressedAt
  <2>3. press \in [Pointers -> Presses] /\ shown \subseteq Pointers \X Regions
    BY DEF GestureTypeOK
  <2> QED
    BY <2>1, <2>2, <2>3
<1>3. \A x \in glow : x \in shown \/ (x = <<p, Head(path)>> /\ "press" \in Wants[Head(path)])
  BY DEF LitAt
<1> HIDE DEF fresh, pressed, glow
<1>4. /\ \A q \in Pointers : pressed[q] = IF q = p THEN fresh ELSE press[q]
      /\ pressed \in [Pointers -> Presses]
  BY <1>2
<1>5. ASSUME NEW x \in glow, LongIsOwn(x[2])
      PROVE  /\ x[1] \in Pointers /\ pressed[x[1]].down /\ pressed[x[1]].pressed
             /\ x = <<x[1], Head(pressed[x[1]].path)>>
  <2>1. CASE x \in shown
    <3>1. x[1] \in Pointers /\ x = <<x[1], x[2]>>
      BY <1>2, <2>1
    <3>2. press[x[1]].down /\ press[x[1]].pressed /\ x[2] = Head(press[x[1]].path)
      BY <1>5, <2>1 DEF Lit
    <3>3. x[1] # p
      BY <1>1, <3>2
    <3> QED
      BY <1>4, <3>1, <3>2, <3>3
  <2>2. CASE x = <<p, Head(path)>> /\ "press" \in Wants[Head(path)]
    BY <1>2, <1>4, <2>2
  <2> QED
    BY <1>3, <2>1, <2>2
<1>6. ASSUME NEW q \in Pointers
      PROVE  /\ pressed[q].down => pressed[q].path \in Paths
             /\ pressed[q].scaling => ~pressed[q].pressed
  BY <1>2, <1>4 DEF Ruled
<1>7. CASE Alone(p, path, button, near)
  <2>1. press' = pressed /\ shown' = glow
    BY <1>7 DEF Alone, pressed, glow
  <2>2. Ruled'
    BY <1>6, <2>1 DEF Ruled
  <2>3. ASSUME NEW x \in glow, LongIsOwn(x[2]) PROVE x[2] = Head(pressed[x[1]].path)
    BY <1>5, <2>3
  <2>4. Lit'
    BY <1>5, <2>1, <2>3 DEF Lit
  <2> QED
    BY <2>2, <2>4
<1>8. ASSUME NEW q \in Partners(p, path), InPair(p, q, path, button, near)
      PROVE  Lit' /\ Ruled'
  <2>1. q \in Pointers
    BY DEF Partners
  <2>2. /\ press' = [x \in Pointers |-> IF x \in {p, q} THEN Pinched(pressed[x]) ELSE pressed[x]]
        /\ shown' = glow \ {<<x, Head(pressed[x].path)>> : x \in {p, q}}
    BY <1>8 DEF InPair, pressed, glow
  <2>3. \A x \in Pointers : /\ Pinched(pressed[x]).down = pressed[x].down
                            /\ Pinched(pressed[x]).path = pressed[x].path
                            /\ ~Pinched(pressed[x]).pressed
    BY <1>4, PinchedPress
  <2>4. \A x \in Pointers : press'[x] = IF x \in {p, q} THEN Pinched(pressed[x]) ELSE pressed[x]
    BY <2>2
  <2>5. Ruled'
    BY <1>6, <2>3, <2>4 DEF Ruled
  <2>6. ASSUME NEW x \in shown', LongIsOwn(x[2])
        PROVE  press'[x[1]].down /\ press'[x[1]].pressed /\ x[2] = Head(press'[x[1]].path)
    <3>1. x \in glow
      BY <2>2
    <3>2. x[1] \notin {p, q}
      BY <1>5, <2>2, <2>6, <3>1
    <3>3. press'[x[1]] = pressed[x[1]]
      BY <1>5, <2>4, <2>6, <3>1, <3>2
    <3>4. x[2] = Head(pressed[x[1]].path)
      BY <1>5, <2>6, <3>1
    <3> QED
      BY <1>5, <2>6, <3>1, <3>3, <3>4
  <2> QED
    BY <2>5, <2>6 DEF Lit
<1> QED
  BY <1>1, <1>7, <1>8

\* The slop ends the highlight and makes no pinch.
LEMMA PassSlopRest ==
  ASSUME GestureTypeOK, NEW p \in Pointers, PassSlop(p)
  PROVE  /\ PinchHasTwoFingers => PinchHasTwoFingers'
         /\ Lit /\ Ruled => Lit' /\ Ruled'
<1>1. /\ press[p].down /\ ~press[p].scaling /\ pinch' = pinch
      /\ press' = [press EXCEPT ![p] = Slipped(p)]
      /\ shown' = shown \ {<<p, Head(press[p].path)>>}
  BY SlopSteps
<1>2. Slipped(p).path = press[p].path /\ ~Slipped(p).pressed
  BY <1>1, SlippedPress
<1>3. PinchHasTwoFingers => PinchHasTwoFingers'
  BY <1>1, PinchOne
<1>4. ASSUME Lit, Ruled PROVE Lit' /\ Ruled'
  <2>1. \A x \in shown' : x \in shown /\ (LongIsOwn(x[2]) => x[1] # p)
    BY <1>1, <1>4, Unlit
  <2>2. Slipped(p).path \in Paths
    BY <1>1, <1>2, <1>4 DEF Ruled
  <2> QED
    BY <1>1, <1>2, <1>4, <2>1, <2>2, LitOne
<1> QED
  BY <1>3, <1>4

\* The end of a press, whichever it is.
LEMMA EndsRest ==
  ASSUME GestureTypeOK, NEW p \in Pointers, Up(p) \/ Cancel(p) \/ LeavePinch(p)
  PROVE  /\ PinchHasTwoFingers => PinchHasTwoFingers'
         /\ Lit /\ Ruled => Lit' /\ Ruled'
<1>1. ~NoPress.down /\ ~NoPress.pressed
  BY Records
<1>2. CASE Up(p) \/ Cancel(p)
  <2>1. /\ press[p].down /\ ~press[p].scaling /\ pinch' = pinch
        /\ press' = [press EXCEPT ![p] = NoPress]
        /\ shown' = IF press[p].pressed THEN shown \ {<<p, Head(press[p].path)>>} ELSE shown
    BY <1>2, UpSteps, CancelSteps
  <2>2. PinchHasTwoFingers => PinchHasTwoFingers'
    BY <2>1, PinchOne
  <2>3. ASSUME Lit, Ruled PROVE Lit' /\ Ruled'
    <3>1. \A x \in shown' : x \in shown /\ (LongIsOwn(x[2]) => x[1] # p)
      BY <2>1, <2>3, Unlit
    <3> QED
      BY <1>1, <2>1, <2>3, <3>1, LitOne
  <2> QED
    BY <2>2, <2>3
<1>3. CASE LeavePinch(p)
  <2>1. /\ press[p].down /\ press[p].scaling
        /\ press' = [press EXCEPT ![p] = NoPress]
        /\ pinch' = IF p \in pinch THEN {} ELSE pinch
        /\ shown' = shown
    BY <1>3 DEF LeavePinch, PinchWithout
  <2>2. PinchHasTwoFingers => PinchHasTwoFingers'
    BY <2>1, PinchOne
  <2>3. ASSUME Lit, Ruled PROVE Lit' /\ Ruled'
    <3>1. ~press[p].pressed
      BY <2>1, <2>3 DEF Ruled
    <3>2. \A x \in shown' : x \in shown /\ (LongIsOwn(x[2]) => x[1] # p)
      BY <2>1, <2>3, <3>1, Unlit
    <3> QED
      BY <1>1, <2>1, <2>3, <3>2, LitOne
  <2> QED
    BY <2>2, <2>3
<1> QED
  BY <1>2, <1>3

\* A frame leaves a pinch alone.
LEMMA TickPinch ==
  ASSUME GestureTypeOK, PinchHasTwoFingers, Tick
  PROVE  PinchHasTwoFingers'
<1>1. /\ press' = [p \in Pointers |-> IF p \in Due THEN AfterClaim(p) ELSE press[p]]
      /\ pinch' = pinch /\ pinch \subseteq Pointers
  BY TickSteps DEF GestureTypeOK
<1>2. \A p \in pinch : p \notin Due
  BY DEF PinchHasTwoFingers, Due, AwaitsLongPress
<1>3. \A p \in pinch : press'[p] = press[p]
  BY <1>1, <1>2
<1> QED
  BY <1>1, <1>3 DEF PinchHasTwoFingers

\* A long press ends the highlight of its own region.
LEMMA TickLit ==
  ASSUME GestureTypeOK, Lit, Ruled, Tick
  PROVE  Lit' /\ Ruled'
<1>1. /\ press' = [p \in Pointers |-> IF p \in Due THEN AfterClaim(p) ELSE press[p]]
      /\ shown' = shown \ {<<p, Long(p)>> : p \in {q \in Due : Fires(q) /\ press[q].pressed}}
      /\ shown \subseteq Pointers \X Regions
  BY TickSteps DEF GestureTypeOK
<1>2. \A p \in Due : /\ p \in Pointers /\ press[p].path \in Paths
                     /\ Long(p) = Innermost(press[p].path, "long") /\ Long(p) \in Regions
                     /\ AfterClaim(p).down /\ AfterClaim(p).path = press[p].path
                     /\ ~AfterClaim(p).scaling
                     /\ AfterClaim(p).pressed = (press[p].pressed /\ ~Fires(p))
  BY DuePress
<1>3. \A p \in Pointers : press'[p] = IF p \in Due THEN AfterClaim(p) ELSE press[p]
  BY <1>1
<1>4. Ruled'
  BY <1>2, <1>3 DEF Ruled
<1>5. ASSUME NEW x \in shown', LongIsOwn(x[2])
      PROVE  press'[x[1]].down /\ press'[x[1]].pressed /\ x[2] = Head(press'[x[1]].path)
  <2> DEFINE p == x[1]
  <2>1. x \in shown /\ p \in Pointers /\ x = <<p, x[2]>>
    BY <1>1
  <2>2. press[p].down /\ press[p].pressed /\ x[2] = Head(press[p].path)
    BY <1>5, <2>1 DEF Lit
  <2>3. CASE p \notin Due
    BY <1>3, <2>1, <2>2, <2>3
  <2>4. CASE p \in Due /\ ~Fires(p)
    BY <1>2, <1>3, <2>1, <2>2, <2>4
  <2>5. CASE p \in Due /\ Fires(p)
    <3>1. Long(p) = x[2]
      BY <1>2, <1>5, <2>2, <2>5, NamesAssumption DEF LongIsOwn
    <3>2. x = <<p, Long(p)>>
      BY <2>1, <3>1
    <3> QED
      BY <1>1, <2>2, <2>5, <3>2
  <2> QED
    BY <2>3, <2>4, <2>5
<1> QED
  BY <1>4, <1>5 DEF Lit

\* Time leaves pinch and highlights alone.
LEMMA ClockRest ==
  ASSUME GestureTypeOK, Clock
  PROVE  /\ PinchHasTwoFingers => PinchHasTwoFingers'
         /\ Lit /\ Ruled => Lit' /\ Ruled'
<1>1. /\ press' = [p \in Pointers |-> Aged(p)]
      /\ pinch' = pinch /\ shown' = shown
      /\ pinch \subseteq Pointers /\ shown \subseteq Pointers \X Regions
  BY DEF Clock, Aged, GestureTypeOK
<1>2. \A p \in Pointers : /\ press'[p].down = press[p].down /\ press'[p].path = press[p].path
                          /\ press'[p].scaling = press[p].scaling
                          /\ press'[p].long = press[p].long
                          /\ press'[p].pressed = press[p].pressed
                          /\ press'[p].drag = press[p].drag
  BY <1>1, AgedPress
<1>3. PinchHasTwoFingers => PinchHasTwoFingers'
  BY <1>1, <1>2 DEF PinchHasTwoFingers
<1>4. Ruled => Ruled'
  BY <1>2 DEF Ruled
<1>5. \A x \in shown : x[1] \in Pointers
  BY <1>1
<1>6. Lit => Lit'
  BY <1>1, <1>2, <1>5 DEF Lit
<1> QED
  BY <1>3, <1>4, <1>6

\* The steps of the router, by what they do.
LEMMA Steps ==
  ASSUME GestureNext
  PROVE  \/ \E p \in Pointers : \E path \in Paths : \E near \in BOOLEAN : \E button \in Buttons :
              Down(p, path, button, near)
         \/ \E p \in Pointers : PassSlop(p) \/ Up(p) \/ Cancel(p) \/ LeavePinch(p)
         \/ Tick \/ Clock
BY DEF GestureNext, Pointer, Buttons

\* Every step keeps the type.
LEMMA TypeNext ==
  ASSUME GestureTypeOK, [GestureNext]_gestureVars
  PROVE  GestureTypeOK'
<1>1. CASE GestureNext
  BY <1>1, Steps, DownType, PassSlopType, UpType, CancelType, LeavePinchType, TickType, ClockType
<1>2. CASE UNCHANGED gestureVars
  BY <1>2 DEF gestureVars, GestureTypeOK, Undecided, Has
<1> QED
  BY <1>1, <1>2

\* Every step keeps a pinch a pinch of two.
LEMMA PinchNext ==
  ASSUME GestureTypeOK, PinchHasTwoFingers, [GestureNext]_gestureVars
  PROVE  PinchHasTwoFingers'
<1>1. CASE GestureNext
  BY <1>1, Steps, DownPinch, PassSlopRest, EndsRest, TickPinch, ClockRest
<1>2. CASE UNCHANGED gestureVars
  BY <1>2 DEF gestureVars, PinchHasTwoFingers
<1> QED
  BY <1>1, <1>2

\* Every step keeps the highlights those of presses.
LEMMA LitNext ==
  ASSUME GestureTypeOK, Lit, Ruled, [GestureNext]_gestureVars
  PROVE  Lit' /\ Ruled'
<1>1. CASE GestureNext
  BY <1>1, Steps, DownLit, PassSlopRest, EndsRest, TickLit, ClockRest
<1>2. CASE UNCHANGED gestureVars
  BY <1>2 DEF gestureVars, Lit, Ruled
<1> QED
  BY <1>1, <1>2

\* Nothing is pressed at first.
LEMMA GestureStart ==
  ASSUME GestureInit
  PROVE  GestureTypeOK /\ PinchHasTwoFingers /\ Lit /\ Ruled
<1>1. /\ press = [p \in Pointers |-> NoPress] /\ arena = [p \in Pointers |-> NoArena]
      /\ pending = NoTap /\ pinch = {} /\ frame = FALSE
      /\ told = [p \in Pointers |-> <<>>] /\ shown = {} /\ owed = {}
  BY DEF GestureInit
<1>2. press \in [Pointers -> Presses] /\ arena \in [Pointers -> Arenas] /\ pending \in WaitingTaps
  BY <1>1, Records, GoneIsSound
<1>3. told \in [Pointers -> Seq(Words)]
  BY <1>1, Speech
<1>4. \A p \in Pointers : /\ IsInjective(arena[p].members) /\ Len(arena[p].members) # 1
                          /\ ~arena[p].held
  BY <1>1, GoneIsSound
<1>5. GestureTypeOK
  BY <1>1, <1>2, <1>3, <1>4 DEF GestureTypeOK
<1> QED
  BY <1>1, <1>5, Records DEF PinchHasTwoFingers, Lit, Ruled

\* The state of the router is well formed and a pinch is two fingers that do
\* nothing else, on every screen (gestures.rs: dispatch, update_scale).
THEOREM PinchesAreTwoFingers == GestureSpec => [](GestureTypeOK /\ PinchHasTwoFingers)
<1>1. GestureInit => GestureTypeOK /\ PinchHasTwoFingers
  BY GestureStart
<1>2. GestureTypeOK /\ PinchHasTwoFingers /\ [GestureNext]_gestureVars
        => (GestureTypeOK /\ PinchHasTwoFingers)'
  BY TypeNext, PinchNext
<1> QED
  BY <1>1, <1>2, PTL DEF GestureSpec

\* The same, and a highlight is over as soon as the press is no tap any more, on
\* every screen, of every region but those in front of another's long press
\* (gestures.rs: on_up, on_cancel, fire_due_long_presses).
THEOREM HighlightsAreOfPresses == GestureSpec => []GestureInv
<1> DEFINE I == GestureTypeOK /\ PinchHasTwoFingers /\ Lit /\ Ruled
<1>1. GestureInit => I
  BY GestureStart
<1>2. I /\ [GestureNext]_gestureVars => I'
  BY TypeNext, PinchNext, LitNext
<1>3. I => GestureInv
  BY DEF GestureInv, Lit, HighlightsEnd
<1> QED
  BY <1>1, <1>2, <1>3, PTL DEF GestureSpec
-----------------------------------------------------------------------------
(* What becomes of a press.                                                *)

\* The arena of a press that has only begun is the one it opened.
Fresh(pr, t, a) ==
  LET o == Opened(pr.path, pr.button)
  IN  t = <<>> /\ a = o.arena /\ pr.winner = o.winner /\ ~pr.dragLost

\* A long press has won, and a drag has lost to it.
HeldLong(pr, t, a) ==
  /\ t = <<"long">> /\ a.members = <<>> /\ pr.winner.kind = "long"
  /\ Innermost(Taps(pr.path, pr.button), "long") # NoRegion
  /\ pr.drag # NoRegion => pr.dragLost

\* A press that slid is a drag, if anybody drags.
Slid(pr, t, a) ==
  IF pr.drag = NoRegion THEN t = <<>>
  ELSE t = <<"start">> /\ a.members = <<>> /\ ~pr.dragLost

Pinching(pr, t) ==
  /\ t \in {<<"pinch">>, <<"start", "pinch", "end">>, <<"long", "pinch">>, <<"long", "pinch", "end">>}
  /\ pr.drag = NoRegion /\ pr.long

\* What is told of a press is what the press is.
Tells(pr, t, a) ==
  IF ~pr.down THEN t \in Stories \ {<<"start">>}
  ELSE /\ pr.path \in Paths /\ pr.button \in Buttons
       /\ pr.second => Innermost(Taps(pr.path, pr.button), "double") # NoRegion
       /\ IF pr.scaling THEN Pinching(pr, t)
          ELSE /\ pr.drag = Innermost(pr.path, "drag")
               /\ IF pr.long THEN HeldLong(pr, t, a)
                  ELSE IF pr.past THEN Slid(pr, t, a) ELSE Fresh(pr, t, a)

AllTell == \A p \in Pointers : Tells(press[p], told[p], arena[p])

\* A tap that waits holds its arena, and one that is owed is alone there with
\* the double tap.
TapWaits ==
  pending.pointer # NoPointer =>
    LET p == pending.pointer
        r == pending.region
    IN  /\ ~press[p].down /\ told[p] = <<>> /\ arena[p].held
        /\ r \in Regions /\ "double" \in Wants[r]
        /\ p \in owed =>
             /\ "tap" \in Wants[r]
             /\ Range(arena[p].members) = {Member("tap", r), Member("double", r)}

\* Two words and three.
LEMMA TwoWords ==
  ASSUME NEW S, NEW x \in S, NEW y \in S
  PROVE  <<x>> \o <<y>> = <<x, y>> /\ Append(<<x>>, y) = <<x, y>>
<1>1. <<x>> \in Seq(S) /\ <<y>> \in Seq(S) /\ <<x, y>> \in Seq(S)
  OBVIOUS
<1>2. Len(<<x>> \o <<y>>) = 2 /\ <<x>> \o <<y>> \in Seq(S)
  BY <1>1
<1>3. (<<x>> \o <<y>>)[1] = x /\ (<<x>> \o <<y>>)[2] = y
  BY <1>1, ConcatProperties
<1>4. Append(<<x>>, y) \in Seq(S) /\ Len(Append(<<x>>, y)) = 2
  BY <1>1
<1>5. Append(<<x>>, y)[1] = x /\ Append(<<x>>, y)[2] = y
  BY <1>1, AppendProperties
<1>6. ASSUME NEW s \in Seq(S), Len(s) = 2, s[1] = x, s[2] = y PROVE s = <<x, y>>
  <2>1. Len(<<x, y>>) = 2 /\ \A i \in 1..2 : i = 1 \/ i = 2
    OBVIOUS
  <2>2. \A i \in 1..Len(s) : s[i] = <<x, y>>[i]
    BY <1>6, <2>1
  <2> QED
    BY <1>1, <1>6, <2>1, <2>2, SeqEqual
<1> QED
  BY <1>2, <1>3, <1>4, <1>5, <1>6

\* A third word.
LEMMA ThreeWords ==
  ASSUME NEW S, NEW x \in S, NEW y \in S, NEW z \in S
  PROVE  Append(<<x, y>>, z) = <<x, y, z>>
<1> DEFINE s == Append(<<x, y>>, z)
<1>1. <<x, y>> \in Seq(S) /\ <<x, y, z>> \in Seq(S) /\ Len(<<x, y>>) = 2 /\ Len(<<x, y, z>>) = 3
  OBVIOUS
<1>2. s \in Seq(S) /\ Len(s) = 3
  BY <1>1
<1>3. s[1] = x /\ s[2] = y /\ s[3] = z
  BY <1>1, AppendProperties
<1> HIDE DEF s
<1>4. \A i \in 1..Len(s) : s[i] = <<x, y, z>>[i]
  <2>1. \A i \in 1..3 : i = 1 \/ i = 2 \/ i = 3
    OBVIOUS
  <2> QED
    BY <1>2, <1>3, <2>1
<1> QED
  BY <1>1, <1>2, <1>4, SeqEqual DEF s

\* Stories told word by word.
LEMMA Wording ==
  /\ \A x \in Words : Append(<<>>, x) = <<x>> /\ <<>> \o <<x>> = <<x>> /\ <<x>> \o <<>> = <<x>>
  /\ <<>> \o <<>> = <<>> /\ <<"start">> \o <<"end">> = <<"start", "end">>
  /\ Append(Append(<<"start">>, "pinch"), "end") = <<"start", "pinch", "end">>
  /\ Append(<<"long">>, "pinch") = <<"long", "pinch">>
  /\ Append(<<"long", "pinch">>, "end") = <<"long", "pinch", "end">>
  /\ \A x \in Words : <<x>> # <<>> /\ (<<x>> = <<"start">> => x = "start")
  /\ <<"start">> # <<"start", "end">> /\ <<"start">> # <<"start", "pinch", "end">>
  /\ <<"start">> # <<"long", "pinch">> /\ <<"start">> # <<"long", "pinch", "end">>
<1>1. \A x \in Words : Append(<<>>, x) = <<x>> /\ <<>> \o <<x>> = <<x>> /\ <<x>> \o <<>> = <<x>>
  OBVIOUS
<1>2. <<>> \o <<>> = <<>> /\ <<"start">> \o <<"end">> = <<"start", "end">>
  <2>1. "start" \in Words /\ "end" \in Words /\ <<>> \o <<>> = <<>>
    BY Speech
  <2> QED
    BY <2>1, TwoWords
<1>3. Append(Append(<<"start">>, "pinch"), "end") = <<"start", "pinch", "end">>
  <2>1. "start" \in Words /\ "pinch" \in Words /\ "end" \in Words
    BY Speech
  <2>2. Append(<<"start">>, "pinch") = <<"start", "pinch">>
    BY <2>1, TwoWords
  <2>3. Append(<<"start", "pinch">>, "end") = <<"start", "pinch", "end">>
    BY <2>1, ThreeWords
  <2> QED
    BY <2>2, <2>3
<1>4. \A x \in Words : <<x>> # <<>> /\ (<<x>> = <<"start">> => x = "start")
  OBVIOUS
<1>5. /\ <<"start">> # <<"start", "end">> /\ <<"start">> # <<"start", "pinch", "end">>
      /\ <<"start">> # <<"long", "pinch">> /\ <<"start">> # <<"long", "pinch", "end">>
  <2>1. /\ Len(<<"start">>) = 1 /\ Len(<<"start", "end">>) = 2 /\ Len(<<"start", "pinch", "end">>) = 3
        /\ Len(<<"long", "pinch">>) = 2 /\ Len(<<"long", "pinch", "end">>) = 3
    OBVIOUS
  <2> QED
    BY <2>1
<1>6. /\ Append(<<"long">>, "pinch") = <<"long", "pinch">>
      /\ Append(<<"long", "pinch">>, "end") = <<"long", "pinch", "end">>
  <2>1. "long" \in Words /\ "pinch" \in Words /\ "end" \in Words
    BY Speech
  <2> QED
    BY <2>1, TwoWords, ThreeWords
<1> QED
  BY <1>1, <1>2, <1>3, <1>4, <1>5, <1>6

\* Everybody tells one story.
LEMMA TellsOne ==
  ASSUME AllTell
  PROVE  OneStory
<1> SUFFICES ASSUME NEW p \in Pointers
             PROVE  told[p] \in Stories /\ (told[p] = <<"start">> => press[p].down /\ press[p].past)
  BY DEF OneStory
<1>1. Tells(press[p], told[p], arena[p])
  BY DEF AllTell
<1>2. told[p] \in Stories
  BY <1>1 DEF Tells, Stories, Pinching, HeldLong, Slid, Fresh
<1>3. ASSUME told[p] = <<"start">> PROVE press[p].down /\ press[p].past
  BY <1>1, <1>3, Wording, Speech DEF Tells, Pinching, HeldLong, Slid, Fresh
<1> QED
  BY <1>2, <1>3

\* A press that has only begun: its arena is contested by all its members, or
\* the only one has won.
LEMMA FreshArena ==
  ASSUME GestureTypeOK, NEW p \in Pointers, press[p].path \in Paths, press[p].button \in Buttons,
         Fresh(press[p], told[p], arena[p])
  PROVE  LET join == Joining(press[p].path, press[p].button)
         IN  \/ /\ Range(arena[p].members) = join /\ press[p].winner = NoMember
                /\ ScaleLast(arena[p].members)
             \/ /\ arena[p].members = <<>> /\ join = {press[p].winner}
BY Opens, GoneIsSound DEF Fresh

\* At the slop the drag wins.
LEMMA FreshSlop ==
  ASSUME GestureTypeOK, NEW p \in Pointers, press[p].down, press[p].path \in Paths,
         press[p].button \in Buttons, Fresh(press[p], told[p], arena[p]),
         press[p].drag = Innermost(press[p].path, "drag"), press[p].drag # NoRegion
  PROVE  LET v == SlopVerdict(p)
         IN  v.winner.kind = "drag" /\ v.arena.members = <<>> /\ "drag" \notin v.lost
<1> DEFINE u == Undecided(p)
           join == Joining(press[p].path, press[p].button)
           drag == Member("drag", press[p].drag)
           off == RejectAll(u, TapFamily)
           F == Firm(u, TapFamily)
<1>1. Sound(u) /\ u.arena = arena[p] /\ u.winner = press[p].winner /\ u.lost = {}
  BY TypeParts
<1>2. drag \in join /\ drag.kind = "drag" /\ drag \in Recognisers
  BY WhoJoins, DragMember DEF Member
<1>3. \A m \in join : m.kind = "drag" => m = drag
  <2> SUFFICES ASSUME NEW m \in join, m.kind = "drag" PROVE m = drag
    OBVIOUS
  <2>1. m \in Recognisers /\ m.region = press[p].drag
    BY WhoJoins
  <2> QED
    BY <2>1 DEF Recognisers, Member
<1> HIDE DEF u, join, drag
<1>4. SlopVerdict(p) = Accept(off, drag)
  BY DEF SlopVerdict, u, drag
<1>5. CASE arena[p].members = <<>> /\ join = {press[p].winner}
  <2>1. off = u
    BY <1>1, <1>5, RejectsAll, KindsAreHandlers
  <2>2. SlopVerdict(p) = u
    BY <1>1, <1>2, <1>4, <1>5, <2>1, Accepts
  <2> QED
    BY <1>1, <1>2, <1>5, <2>2
<1>6. CASE /\ Range(arena[p].members) = join /\ press[p].winner = NoMember
           /\ ScaleLast(arena[p].members)
  <2>1. drag \in F /\ \A m \in F : m.kind = "drag" => m = drag
    BY <1>1, <1>2, <1>3, <1>6 DEF Firm, TapFamily
  <2>2. Sound(off) /\ (off.lost \subseteq TapFamily \/ F = {})
    BY <1>1, RejectsAll, KindsAreHandlers
  <2>3. \/ Range(off.arena.members) = F /\ off.winner = NoMember
        \/ off.arena = NoArena /\ F = {off.winner}
    <3> HIDE DEF off, F
    <3> QED
      BY <1>1, <1>6, <2>1, RejectsAll, KindsAreHandlers DEF off, F
  <2>4. "drag" \notin off.lost
    BY <2>1, <2>2 DEF TapFamily
  <2> HIDE DEF off, F
  <2>5. CASE Range(off.arena.members) = F /\ off.winner = NoMember
    <3>1. off.arena.members # <<>>
      BY <2>1, <2>5 DEF Range
    <3>2. /\ SlopVerdict(p).arena = NoArena /\ SlopVerdict(p).winner = drag
          /\ SlopVerdict(p).lost = off.lost \cup {x.kind : x \in Range(off.arena.members) \ {drag}}
      BY <1>2, <1>4, <2>2, <2>5, <3>1, Accepts
    <3> QED
      BY <1>2, <2>1, <2>4, <2>5, <3>2, GoneIsSound
  <2>6. CASE off.arena = NoArena /\ F = {off.winner}
    <3>1. SlopVerdict(p) = off
      BY <1>2, <1>4, <2>2, <2>6, Accepts, GoneIsSound
    <3> QED
      BY <1>2, <2>1, <2>4, <2>6, <3>1, GoneIsSound
  <2> QED
    BY <2>3, <2>5, <2>6
<1> QED
  BY <1>5, <1>6, FreshArena DEF join

\* When the finger lifts in time: the second tap of two is a double tap, a tap
\* that somebody wants is told or holds the arena, and one that is left alone once
\* it is no double tap has nobody else there.
LEMMA FreshUp ==
  ASSUME GestureTypeOK, NEW p \in Pointers, press[p].down, Still(p),
         press[p].path \in Paths, press[p].button \in Buttons,
         Fresh(press[p], told[p], arena[p]),
         press[p].second => Double(p) # NoRegion
  PROVE  LET d == Double(p)
         IN  /\ press[p].second => UpTells(p) = <<"double">>
             /\ UpTells(p) \in {<<>>, <<"tap">>, <<"secondary">>, <<"double">>}
             /\ UpWaits(p) => UpHolds(p)
             /\ UpHolds(p) =>
                  /\ d \in Regions /\ "double" \in Wants[d]
                  /\ UpWaits(p) =>
                       /\ "tap" \in Wants[d]
                       /\ Range(UpVerdict(p).arena.members)
                            = {Member("tap", d), Member("double", d)}
<1> DEFINE path == press[p].path
           button == press[p].button
           join == Joining(path, button)
           kinds == {"long", "drag"}
           u0 == Undecided(p)
           u == UpGone(p)
           v == UpVerdict(p)
           d == Double(p)
           r == Innermost(Taps(path, button), "tap")
           F == Firm(u0, kinds)
           tap == Member("tap", r)
           double == Member("double", d)
           Decided(x) == ~UpHolds(p) /\ v.winner = x
<1>1. Sound(u0) /\ u0.arena = arena[p] /\ u0.winner = press[p].winner
  BY TypeParts
<1>2. path \in Paths /\ button \in Buttons /\ ~press[p].past
  BY DEF Still
<1>3. u = RejectAll(u0, kinds)
  BY <1>2 DEF UpGone
<1>4. /\ Sound(u) /\ ~UpPaired(p).arena.held
      /\ UpHolds(p) => v.arena.members = u.arena.members
      /\ ~UpHolds(p) => v = Sweep(UpPaired(p))
  BY DownVerdicts
<1>5. d # NoRegion =>
        /\ button = "primary" /\ d = Innermost(path, "double")
        /\ d \in Regions /\ "double" \in Wants[d]
  BY <1>2, ForTaps DEF Double
<1>6. r # NoRegion =>
        /\ button = "primary" /\ r = Innermost(path, "tap")
        /\ r \in Range(path) /\ "tap" \in Wants[r]
  <2>1. r # NoRegion => button = "primary" /\ r = Innermost(path, "tap")
    BY <1>2, ForTaps
  <2>2. path \in Seq(Regions)
    BY <1>2, PathsAssumption
  <2>3. Innermost(path, "tap") # NoRegion =>
          Innermost(path, "tap") \in Range(path) /\ "tap" \in Wants[Innermost(path, "tap")]
    BY <2>2, Innermosts
  <2> QED
    BY <2>1, <2>3
<1>7. \A m \in join :
        /\ m \in Recognisers /\ m.region \in Range(path) /\ m.kind \in Wants[m.region]
        /\ m.kind \in {"double", "scale"} => m.region = Innermost(path, m.kind)
        /\ m.kind = "secondary" => button = "secondary"
        /\ m.kind \in {"tap", "double", "long", "secondary", "drag", "scale"}
        /\ m.region # NoRegion
  <2>1. Range(path) \subseteq Regions
    BY <1>2, WhoJoins
  <2> QED
    BY <1>2, <2>1, WhoJoins, NamesAssumption
<1>8. /\ d # NoRegion => double \in join
      /\ r # NoRegion => tap \in join
      /\ double.kind = "double" /\ tap.kind = "tap"
  <2>1. double.kind = "double" /\ tap.kind = "tap"
    BY DEF Member
  <2>2. ASSUME d # NoRegion PROVE double \in join
    <3>1. button = "primary" /\ d = Innermost(path, "double")
      BY <1>5, <2>2
    <3> HIDE DEF d
    <3> QED
      BY <1>2, <2>2, <3>1, WhoJoins
  <2>3. ASSUME r # NoRegion PROVE tap \in join
    <3> HIDE DEF r
    <3> QED
      BY <1>2, <1>6, <2>3, WhoJoins
  <2> QED
    BY <2>1, <2>2, <2>3
<1>9. UpPaired(p) = IF press[p].second /\ Has(u, "double") THEN Accept(u, The(u, "double")) ELSE u
  BY DEF UpPaired
<1>10. UpHolds(p) => ~press[p].second /\ d # NoRegion /\ Has(u, "double")
  BY DEF UpHolds, Holds
<1>11. UpTells(p) = IF UpHolds(p) THEN <<>> ELSE Verdict(p, v)
  BY DEF UpTells
<1>12. UpWaits(p) => UpTells(p) = <<>> /\ LeftAlone(path) /\ r # NoRegion
  BY DEF UpWaits
<1>13. /\ v.winner.kind \in {"tap", "secondary"} /\ ~press[p].second => Verdict(p, v) = <<v.winner.kind>>
       /\ v.winner.kind \notin {"tap", "secondary"} /\ press[p].second => Verdict(p, v) = <<"double">>
       /\ v.winner.kind \notin {"tap", "secondary"} /\ ~press[p].second => Verdict(p, v) = <<>>
  BY Wording, Speech DEF Verdict
<1>14. UpHolds(p) = (~press[p].second /\ d # NoRegion /\ Has(u, "double"))
  BY DEF UpHolds, Holds
<1> HIDE DEF path, button, join, kinds, u0, u, v, d, r, tap, double
\* Whoever has won, the tap or the double tap among them.
<1>15. ASSUME NEW x \in join, Decided(x),
              press[p].second => x.kind = "double",
              r # NoRegion => x.kind \in {"tap", "secondary"} \/ press[p].second
       PROVE  /\ press[p].second => UpTells(p) = <<"double">>
              /\ UpTells(p) \in {<<>>, <<"tap">>, <<"secondary">>, <<"double">>}
              /\ ~UpWaits(p) /\ ~UpHolds(p)
  <2>1. UpTells(p) = Verdict(p, v) /\ v.winner = x
    BY <1>11, <1>15
  <2>2. \A y \in Words : <<y>> # <<>>
    BY Wording
  <2>3. "tap" \in Words /\ "secondary" \in Words /\ "double" \in Words
    BY Speech
  <2>4. CASE press[p].second
    <3>1. UpTells(p) = <<"double">>
      BY <1>13, <1>15, <2>1, <2>4
    <3> QED
      BY <1>12, <1>15, <2>2, <2>3, <2>4, <3>1
  <2>5. CASE ~press[p].second
    <3>1. UpTells(p) \in {<<>>, <<"tap">>, <<"secondary">>}
      BY <1>13, <2>1, <2>5
    <3>2. r # NoRegion => UpTells(p) \in {<<"tap">>, <<"secondary">>}
      BY <1>13, <1>15, <2>1, <2>5
    <3> QED
      BY <1>12, <1>15, <2>2, <2>3, <2>5, <3>1, <3>2
  <2> QED
    BY <2>4, <2>5
<1>16. CASE arena[p].members = <<>> /\ join = {press[p].winner}
  <2>1. u = u0
    BY <1>1, <1>3, <1>16, RejectsAll, KindsAreHandlers DEF kinds
  <2>2. u.arena.members = <<>> /\ ~Has(u, "double")
    BY <1>1, <1>16, <2>1 DEF Has, Range
  <2>3. ~UpHolds(p) /\ v = u
    <3>1. ~UpHolds(p) /\ UpPaired(p) = u
      BY <1>9, <1>10, <2>2
    <3> QED
      BY <1>4, <2>2, <3>1, Sweeps
  <2>4. press[p].winner \in join /\ Decided(press[p].winner)
    BY <1>1, <1>16, <2>1, <2>3
  <2>5. /\ press[p].second => press[p].winner.kind = "double"
        /\ r # NoRegion => press[p].winner.kind = "tap"
    BY <1>8, <1>16 DEF d
  <2> QED
    BY <1>15, <2>4, <2>5 DEF d, v
<1>17. CASE /\ Range(arena[p].members) = join /\ press[p].winner = NoMember
            /\ ScaleLast(arena[p].members)
  <2>1. F = {m \in join : m.kind \notin kinds}
    BY <1>1, <1>17 DEF Firm
  <2>2. (d # NoRegion => double \in F) /\ (r # NoRegion => tap \in F)
    BY <1>8, <2>1 DEF kinds
  <2>3. kinds \in SUBSET Handlers
    BY KindsAreHandlers DEF kinds
  <2>4. F # {} =>
          \/ /\ Range(u.arena.members) = F /\ u.winner = NoMember
             /\ ScaleLast(u.arena.members)
          \/ u.arena = NoArena /\ F = {u.winner}
    <3> HIDE DEF F
    <3> QED
      BY <1>1, <1>3, <1>17, <2>3, RejectsAll DEF F
  <2> HIDE DEF F
  <2>5. CASE F = {}
    <3>1. d = NoRegion /\ r = NoRegion /\ ~press[p].second
      BY <2>2, <2>5 DEF d
    <3>2. ~UpHolds(p) /\ ~UpWaits(p)
      BY <1>10, <1>12, <3>1
    <3>3. UpTells(p) = Verdict(p, v)
      BY <1>11, <3>2
    <3>4. UpTells(p) \in {<<>>, <<"tap">>, <<"secondary">>}
      BY <1>13, <3>1, <3>3
    <3> QED
      BY <3>1, <3>2, <3>4
  <2>6. CASE F # {} /\ u.arena = NoArena /\ F = {u.winner}
    <3>1. u.arena.members = <<>> /\ ~Has(u, "double")
      BY <2>6, GoneIsSound DEF Has, Range
    <3>2. ~UpHolds(p) /\ v = u
      <4>1. ~UpHolds(p) /\ UpPaired(p) = u
        BY <1>9, <1>10, <3>1
      <4> QED
        BY <1>4, <3>1, <4>1, Sweeps
    <3>3. u.winner \in join /\ Decided(u.winner)
      BY <2>1, <2>6, <3>2
    <3>4. /\ press[p].second => u.winner.kind = "double"
          /\ r # NoRegion => u.winner.kind = "tap"
      BY <1>8, <2>2, <2>6 DEF d
    <3> QED
      BY <1>15, <3>3, <3>4 DEF d, v
  <2>7. CASE /\ F # {} /\ Range(u.arena.members) = F /\ u.winner = NoMember
             /\ ScaleLast(u.arena.members)
    <3>1. u.arena.members # <<>> /\ (d # NoRegion => Has(u, "double"))
      <4>1. u.arena.members # <<>>
        BY <2>7 DEF Range
      <4>2. d # NoRegion => double \in Range(u.arena.members) /\ double.kind = "double"
        BY <1>8, <2>2, <2>7
      <4> QED
        BY <4>1, <4>2 DEF Has
    <3>2. CASE press[p].second
      <4>1. d # NoRegion /\ Has(u, "double")
        BY <3>1, <3>2 DEF d
      <4>2. LET x == The(u, "double")
            IN  x \in Range(u.arena.members) /\ x.kind = "double" /\ x \in Recognisers
        BY <1>4, <4>1, Names
      <4> DEFINE x == The(u, "double")
      <4>3. UpPaired(p) = Accept(u, x)
        BY <1>9, <3>2, <4>1
      <4> HIDE DEF x
      <4>4. UpPaired(p).arena = NoArena /\ UpPaired(p).winner = x /\ Sound(UpPaired(p))
        BY <1>4, <2>7, <3>1, <4>2, <4>3, Accepts DEF x
      <4>5. ~UpHolds(p) /\ v = UpPaired(p)
        <5>1. ~UpHolds(p)
          BY <1>10, <3>2
        <5> QED
          BY <1>4, <4>4, <5>1, Sweeps, GoneIsSound
      <4>6. x \in join /\ Decided(x) /\ x.kind = "double"
        BY <2>1, <2>7, <4>2, <4>4, <4>5 DEF x
      <4> QED
        BY <1>15, <3>2, <4>6 DEF d, v
    <3>3. CASE ~press[p].second /\ d = NoRegion
      <4>1. ~UpHolds(p) /\ UpPaired(p) = u
        BY <1>9, <1>10, <3>3
      <4> DEFINE x == Head(u.arena.members)
      <4>2. x \in F /\ v.winner = x
        <5>1. v = Sweep(u) /\ ~u.arena.held
          BY <1>4, <4>1
        <5>2. v.winner = x
          BY <1>4, <2>7, <3>1, <5>1, Sweeps
        <5>3. x \in Range(u.arena.members)
          <6>1. u.arena.members \in Seq(Recognisers) /\ IsInjective(u.arena.members)
            BY <1>4 DEF Sound, Verdicts, Arenas
          <6> QED
            BY <3>1, <6>1, FewItems
        <5> QED
          BY <2>7, <5>2, <5>3
      <4>3. x.kind # "scale"
        <5> DEFINE s == u.arena.members
        <5>1. s \in Seq(Recognisers) /\ Len(s) # 1 /\ s # <<>> /\ ScaleLast(s)
          BY <1>4, <2>7, <3>1 DEF Sound, Verdicts, Arenas
        <5> HIDE DEF s
        <5>2. 1 \in DOMAIN s /\ Head(s) = s[1]
          BY <5>1
        <5>3. s[1].kind # "scale"
          BY <5>1, <5>2 DEF ScaleLast
        <5> QED
          BY <5>2, <5>3 DEF s
      <4> HIDE DEF x
      <4>4. x \in join /\ x.kind \notin kinds
        BY <2>1, <4>2
      <4>5. x.kind = "double" => FALSE
        <5> SUFFICES ASSUME x.kind = "double" PROVE FALSE
          OBVIOUS
        <5>1. x.region = Innermost(path, "double") /\ x.region # NoRegion
          BY <1>7, <4>4
        <5>2. button = "primary"
          BY <1>2, <4>4, WhoJoins DEF join
        <5>3. d = Innermost(path, "double")
          BY <1>2, <5>2, ForTaps DEF d, Double, path, button
        <5> QED
          BY <3>3, <5>1, <5>3
      <4>6. x.kind \in {"tap", "secondary"}
        BY <1>7, <4>3, <4>4, <4>5 DEF kinds
      <4>7. Decided(x)
        BY <4>1, <4>2
      <4> QED
        BY <1>15, <3>3, <4>4, <4>6, <4>7 DEF d, v
    <3>4. CASE ~press[p].second /\ d # NoRegion
      <4>1. UpHolds(p) /\ UpTells(p) = <<>>
        BY <1>11, <1>14, <3>1, <3>4
      <4>2. d \in Regions /\ "double" \in Wants[d] /\ button = "primary"
            /\ d = Innermost(path, "double")
        BY <1>5, <3>4
      <4>3. ASSUME UpWaits(p)
            PROVE  "tap" \in Wants[d] /\ F = {Member("tap", d), double}
        <5> DEFINE tapped == {q \in Range(path) : "tap" \in Wants[q]}
        <5>1. r # NoRegion /\ r \in tapped
          BY <1>6, <1>12, <4>3
        <5>2. tapped = {d} /\ Innermost(path, "scale") = NoRegion
          BY <1>12, <3>4, <4>2, <4>3, <5>1 DEF LeftAlone
        <5>3. r = d /\ "tap" \in Wants[d] /\ tap = Member("tap", d)
          BY <5>1, <5>2 DEF tap
        <5>4. {tap, double} \subseteq F
          BY <2>2, <3>4, <5>1
        <5>5. ASSUME NEW m \in F PROVE m \in {tap, double}
          <6>1. m \in join /\ m.kind \notin kinds
            BY <2>1
          <6>2. m.kind \in {"tap", "double"}
            BY <1>7, <4>2, <5>2, <6>1 DEF kinds
          <6>3. m.region = d
            BY <1>7, <4>2, <5>2, <6>1, <6>2
          <6>4. m = Member(m.kind, d)
            BY <1>7, <6>1, <6>3 DEF Member, Recognisers
          <6> QED
            BY <5>3, <6>2, <6>4 DEF double
        <5> QED
          BY <5>3, <5>4, <5>5
      <4>5. v.arena.members = u.arena.members
        BY <1>4, <4>1
      <4> QED
        BY <2>7, <3>4, <4>1, <4>2, <4>3, <4>5 DEF d, v, double
    <3> QED
      BY <3>2, <3>3, <3>4
  <2> QED
    BY <2>4, <2>5, <2>6, <2>7
<1> QED
  BY <1>2, <1>16, <1>17, FreshArena DEF join, path, button

\* Settling answers the tap that is owed, and nobody else hears of it.
LEMMA SettlingAnswers ==
  ASSUME GestureTypeOK, TapWaits, TapsAreAnswered, NEW accept \in BOOLEAN
  PROVE  LET s == Settle(accept)
         IN  /\ s.owed = {}
             /\ \A q \in Pointers : q # pending.pointer =>
                  s.told[q] = told[q] /\ s.arena[q] = arena[q]
             /\ pending.pointer \in Pointers =>
                  s.told[pending.pointer] \in {<<>>, <<"tap">>}
<1> DEFINE s == Settle(accept)
           p == pending.pointer
           r == pending.region
<1>1. /\ s.owed \subseteq owed
      /\ \A q \in Pointers : q # p => s.arena[q] = arena[q] /\ s.told[q] = told[q]
      /\ p \in Pointers =>
           /\ s.told[p] \in {told[p], Append(told[p], "tap")}
           /\ TellsTap(Resolved(accept)) \/ accept => s.owed = owed \ {p}
  BY Settles
<1>2. owed \subseteq {p} /\ owed \subseteq Pointers /\ p \in Pointers \cup {NoPointer}
  BY TypeParts DEF TapsAreAnswered, GestureTypeOK
<1>3. p \in Pointers => told[p] = <<>> /\ Append(<<>>, "tap") = <<"tap">>
  BY NamesAssumption, Wording, Speech DEF TapWaits
<1>4. ASSUME p \in owed, ~accept PROVE TellsTap(Resolved(accept))
  <2> DEFINE v == [arena |-> arena[p], winner |-> NoMember, lost |-> {}]
             tap == Member("tap", r)
             double == Member("double", r)
  <2>1. /\ p \in Pointers /\ "tap" \in Wants[r] /\ r \in Regions
        /\ Range(arena[p].members) = {tap, double}
    BY <1>2, <1>4, NamesAssumption DEF TapWaits
  <2>2. tap.kind = "tap" /\ double.kind = "double" /\ tap # double
        /\ tap \in Recognisers /\ double \in Recognisers
    BY <2>1 DEF Member, Recognisers, Handlers
  <2>3. Sound(v) /\ v.arena = arena[p] /\ v.winner = NoMember
    <3>1. Steady(arena[p], press[p].down)
      BY <2>1, TypeParts
    <3>2. v.arena = arena[p] /\ v \in Verdicts
      BY <3>1 DEF Verdicts, Steady
    <3> QED
      BY <3>1, <3>2 DEF Sound, Steady
  <2>4. Resolved(accept) = IF ~Has(v, "double") THEN v
                           ELSE IF accept THEN Accept(v, The(v, "double"))
                           ELSE Reject(v, The(v, "double"))
    BY DEF Resolved
  <2> HIDE DEF v, tap, double
  <2>5. Has(v, "double")
    BY <2>1, <2>2, <2>3 DEF Has
  <2>6. The(v, "double") = double
    BY <2>1, <2>2, <2>3, <2>5, Names
  <2>7. v.arena.members # <<>>
    BY <2>1, <2>3 DEF Range
  <2>8. IsLast(Others(v, double), tap)
    BY <2>1, <2>2, <2>3 DEF IsLast, Others
  <2>9. Reject(v, double).winner = tap
    BY <2>2, <2>3, <2>7, <2>8, Rejects
  <2>10. Resolved(accept).winner = tap
    BY <1>4, <2>4, <2>5, <2>6, <2>9
  <2> QED
    BY <2>1, <2>2, <2>10 DEF TellsTap
<1> HIDE DEF s
<1>5. s.owed = {}
  <2>1. CASE p \in owed
    <3>1. s.owed = owed \ {p}
      BY <1>1, <1>2, <1>4, <2>1
    <3> QED
      BY <1>2, <3>1
  <2>2. CASE p \notin owed
    BY <1>1, <1>2, <2>2
  <2> QED
    BY <2>1, <2>2
<1> QED
  BY <1>1, <1>3, <1>5 DEF s

\* A press begins its story.
LEMMA FreshTells ==
  ASSUME GestureTypeOK, TapWaits, NEW path \in Paths, NEW button \in Buttons,
         NEW near \in BOOLEAN
  PROVE  Tells(Pressed(path, button, near), <<>>, Opened(path, button).arena)
<1> DEFINE pr == Pressed(path, button, near)
<1>1. /\ pr.down /\ pr.path = path /\ pr.button = button
      /\ pr.second = Pairs(path, button, near)
      /\ pr.drag = Innermost(path, "drag")
      /\ pr.winner = Opened(path, button).winner
      /\ ~pr.past /\ ~pr.long /\ ~pr.scaling /\ ~pr.dragLost
  BY PressedPress
<1> HIDE DEF pr
<1>2. ASSUME Pairs(path, button, near) PROVE Innermost(Taps(path, button), "double") # NoRegion
  <2>1. pending.pointer # NoPointer /\ pending.region \in Range(Taps(path, button))
    BY <1>2 DEF Pairs
  <2>2. "double" \in Wants[pending.region]
    BY <2>1 DEF TapWaits
  <2>3. Taps(path, button) \in Seq(Regions)
    BY ForTaps
  <2> QED
    BY <2>1, <2>2, <2>3, Innermosts
<1>3. Fresh(pr, <<>>, Opened(path, button).arena)
  BY <1>1 DEF Fresh
<1>4. Tells(pr, <<>>, Opened(path, button).arena)
  BY <1>1, <1>2, <1>3 DEF Tells
<1> QED
  BY <1>4 DEF pr

\* A pinch takes a press over, whatever it was.
LEMMA PinchTells ==
  ASSUME NEW pr \in Presses, NEW t, NEW a, Tells(pr, t, a), pr.down,
         Innermost(pr.path, "scale") # NoRegion
  PROVE  Tells(Pinched(pr), ToldOfPinch(pr, t), a)
<1> DEFINE u == ToldOfPinch(pr, t)
           begun == IF Contains(t, "pinch") THEN t ELSE Append(t, "pinch")
<1>1. /\ Pinched(pr).down /\ Pinched(pr).path = pr.path /\ Pinched(pr).button = pr.button
      /\ Pinched(pr).second = pr.second /\ Pinched(pr).scaling /\ Pinched(pr).long
      /\ Pinched(pr).drag = NoRegion
  BY PinchedPress
<1>2. u = IF pr.past /\ pr.drag # NoRegion THEN Append(begun, "end") ELSE begun
  BY DEF ToldOfPinch
<1>3. u \in {<<"pinch">>, <<"start", "pinch", "end">>, <<"long", "pinch">>, <<"long", "pinch", "end">>}
  <2>1. CASE pr.scaling
    <3>1. /\ t \in {<<"pinch">>, <<"start", "pinch", "end">>, <<"long", "pinch">>,
                   <<"long", "pinch", "end">>}
          /\ pr.drag = NoRegion
      BY <2>1 DEF Tells, Pinching
    <3>2. Contains(t, "pinch")
      <4>1. CASE t = <<"pinch">>
        <5>1. 1 \in 1..Len(t) /\ t[1] = "pinch"
          BY <4>1
        <5> QED
          BY <5>1 DEF Contains
      <4>2. ASSUME NEW x, t \in {<<x, "pinch">>, <<x, "pinch", "end">>}
            PROVE  Contains(t, "pinch")
        <5>1. 2 \in 1..Len(t) /\ t[2] = "pinch"
          BY <4>2
        <5> QED
          BY <5>1 DEF Contains
      <4> QED
        BY <3>1, <4>1, <4>2
    <3> QED
      BY <1>2, <3>1, <3>2
  <2>2. CASE ~pr.scaling /\ ~pr.long
    <3>1. CASE pr.past /\ pr.drag # NoRegion
      <4>1. t = <<"start">>
        BY <2>2, <3>1 DEF Tells, Slid
      <4>2. ~Contains(t, "pinch")
        <5>1. Len(t) = 1 /\ t[1] = "start"
          BY <4>1
        <5> QED
          BY <5>1 DEF Contains
      <4> QED
        BY <1>2, <3>1, <4>1, <4>2, Wording
    <3>2. CASE ~(pr.past /\ pr.drag # NoRegion)
      <4>1. t = <<>>
        BY <2>2, <3>2 DEF Tells, Slid, Fresh
      <4>2. ~Contains(t, "pinch")
        <5>1. Len(t) = 0
          BY <4>1
        <5> QED
          BY <5>1 DEF Contains
      <4>3. Append(t, "pinch") = <<"pinch">>
        BY <4>1, Wording, Speech
      <4> QED
        BY <1>2, <3>2, <4>2, <4>3
    <3> QED
      BY <3>1, <3>2
  <2>3. CASE ~pr.scaling /\ pr.long
    <3>1. t = <<"long">>
      BY <2>3 DEF Tells, HeldLong
    <3>2. ~Contains(t, "pinch")
      <4>1. Len(t) = 1 /\ t[1] = "long"
        BY <3>1
      <4> QED
        BY <4>1 DEF Contains
    <3>3. begun = <<"long", "pinch">>
      BY <3>1, <3>2, Wording
    <3> HIDE DEF begun
    <3> QED
      BY <1>2, <3>3, Wording
  <2> QED
    BY <2>1, <2>2, <2>3
<1> HIDE DEF u
<1>4. Pinching(Pinched(pr), u)
  BY <1>1, <1>3 DEF Pinching
<1>5. pr.path \in Paths /\ pr.button \in Buttons
      /\ (pr.second => Innermost(Taps(pr.path, pr.button), "double") # NoRegion)
  BY DEF Tells
<1> QED
  BY <1>1, <1>4, <1>5 DEF Tells, u

\* Steps that are about one press only, and nobody's wait.
LEMMA TellsOther ==
  ASSUME GestureTypeOK, AllTell, TapWaits, TapsAreAnswered, NEW p \in Pointers, press[p].down,
         NEW pr, press' = [press EXCEPT ![p] = pr],
         NEW a, arena' = [arena EXCEPT ![p] = a],
         NEW t, told' = [told EXCEPT ![p] = t],
         Tells(pr, t, a)
  PROVE  /\ AllTell'
         /\ pending' = pending /\ owed' = owed => TapWaits' /\ TapsAreAnswered'
<1>1. /\ press \in [Pointers -> Presses] /\ arena \in [Pointers -> Arenas]
      /\ told \in [Pointers -> Seq(Words)] /\ owed \subseteq Pointers
      /\ pending.pointer \in Pointers \cup {NoPointer}
  BY TypeParts DEF GestureTypeOK
<1>2. /\ press'[p] = pr /\ arena'[p] = a /\ told'[p] = t
      /\ \A q \in Pointers : q # p =>
           press'[q] = press[q] /\ arena'[q] = arena[q] /\ told'[q] = told[q]
  BY <1>1
<1>3. AllTell'
  BY <1>2 DEF AllTell
<1>4. pending.pointer # p
  BY NamesAssumption DEF TapWaits
<1>5. ASSUME pending' = pending, owed' = owed PROVE TapWaits' /\ TapsAreAnswered'
  <2>1. TapWaits'
    BY <1>1, <1>2, <1>4, <1>5 DEF TapWaits
  <2>2. TapsAreAnswered'
    BY <1>1, <1>2, <1>4, <1>5 DEF TapsAreAnswered
  <2> QED
    BY <2>1, <2>2
<1> QED
  BY <1>3, <1>5

\* A down begins a story, and the tap that waited has its answer.
LEMMA DownTells ==
  ASSUME GestureTypeOK, AllTell, TapWaits, TapsAreAnswered,
         NEW p \in Pointers, NEW path \in Paths, NEW button \in Buttons,
         NEW near \in BOOLEAN, Down(p, path, button, near)
  PROVE  AllTell' /\ TapWaits' /\ TapsAreAnswered'
<1> DEFINE settled == Settle(Pairs(path, button, near))
           open == Opened(path, button)
           fresh == Pressed(path, button, near)
           pressed == PressedAt(p, path, button, near)
           said == SaidAt(p, path, button, near)
<1>1. /\ ~press[p].down
      /\ arena' = [settled.arena EXCEPT ![p] = open.arena]
      /\ pending' = NoTap /\ owed' = settled.owed
      /\ \/ Alone(p, path, button, near)
         \/ \E q \in Partners(p, path) : InPair(p, q, path, button, near)
  BY DownSteps
<1>2. Pairs(path, button, near) \in BOOLEAN
  BY DEF Pairs
<1>3. /\ settled.owed = {}
      /\ \A q \in Pointers : q # pending.pointer =>
           settled.told[q] = told[q] /\ settled.arena[q] = arena[q]
      /\ pending.pointer \in Pointers => settled.told[pending.pointer] \in {<<>>, <<"tap">>}
  BY <1>2, SettlingAnswers
<1>4. /\ settled.arena \in [Pointers -> Arenas] /\ settled.told \in [Pointers -> Seq(Words)]
      /\ press \in [Pointers -> Presses]
  BY <1>2, Settles DEF GestureTypeOK
<1>5. fresh \in Presses /\ fresh.path = path /\ fresh.down
  BY PressedPress
<1>6. Tells(fresh, <<>>, open.arena)
  BY FreshTells
<1>7. pressed = [press EXCEPT ![p] = fresh] /\ said = [settled.told EXCEPT ![p] = <<>>]
  BY DEF PressedAt, SaidAt
<1>8. TapWaits' /\ TapsAreAnswered'
  BY <1>1, <1>3, Records DEF TapWaits, TapsAreAnswered
<1> HIDE DEF settled, open, fresh, pressed, said
<1>9. /\ pressed[p] = fresh /\ said[p] = <<>> /\ arena'[p] = open.arena
      /\ pressed \in [Pointers -> Presses]
      /\ \A q \in Pointers : q # p =>
           /\ pressed[q] = press[q] /\ said[q] = settled.told[q]
           /\ arena'[q] = settled.arena[q]
  BY <1>1, <1>4, <1>5, <1>7
<1>10. ASSUME NEW q \in Pointers PROVE Tells(pressed[q], said[q], arena'[q])
  <2>1. CASE q = p
    BY <1>6, <1>9, <2>1
  <2>2. CASE q # p /\ q # pending.pointer
    <3>1. pressed[q] = press[q] /\ said[q] = told[q] /\ arena'[q] = arena[q]
      BY <1>3, <1>9, <2>2
    <3> QED
      BY <3>1 DEF AllTell
  <2>3. CASE q # p /\ q = pending.pointer
    <3>1. ~press[q].down
      BY <2>3, NamesAssumption DEF TapWaits
    <3>2. pressed[q] = press[q] /\ said[q] \in {<<>>, <<"tap">>}
      BY <1>3, <1>9, <2>3
    <3>3. said[q] \in Stories \ {<<"start">>}
      BY <3>2, Wording, Speech DEF Stories
    <3> QED
      BY <3>1, <3>2, <3>3 DEF Tells
  <2> QED
    BY <2>1, <2>2, <2>3
<1>11. CASE Alone(p, path, button, near)
  <2>1. press' = pressed /\ told' = said
    BY <1>11 DEF Alone, pressed, said
  <2> QED
    BY <1>8, <1>10, <2>1 DEF AllTell
<1>12. ASSUME NEW q \in Partners(p, path), InPair(p, q, path, button, near)
       PROVE  AllTell'
  <2>1. /\ q \in Pointers /\ q # p /\ press[q].down
        /\ Innermost(path, "scale") # NoRegion
        /\ Innermost(press[q].path, "scale") = Innermost(path, "scale")
    BY DEF Partners
  <2>2. /\ press' = [x \in Pointers |-> IF x \in {p, q} THEN Pinched(pressed[x]) ELSE pressed[x]]
        /\ told' = [x \in Pointers |->
             IF x \in {p, q} THEN ToldOfPinch(pressed[x], said[x]) ELSE said[x]]
    BY <1>12 DEF InPair, pressed, said
  <2>3. ASSUME NEW x \in Pointers PROVE Tells(press'[x], told'[x], arena'[x])
    <3>1. CASE x \notin {p, q}
      BY <1>10, <2>2, <3>1
    <3>2. CASE x \in {p, q}
      <4>1. press'[x] = Pinched(pressed[x]) /\ told'[x] = ToldOfPinch(pressed[x], said[x])
        BY <2>2, <3>2
      <4>2. pressed[x] \in Presses /\ pressed[x].down
            /\ Innermost(pressed[x].path, "scale") # NoRegion
        BY <1>5, <1>9, <2>1, <3>2
      <4>3. Tells(pressed[x], said[x], arena'[x])
        BY <1>10
      <4> HIDE DEF pressed, said
      <4> QED
        BY <4>1, <4>2, <4>3, PinchTells
    <3> QED
      BY <3>1, <3>2
  <2> QED
    BY <2>3 DEF AllTell
<1> QED
  BY <1>1, <1>8, <1>11, <1>12

\* The slop begins a drag, if anybody drags and no long press was first.
LEMMA PassSlopTells ==
  ASSUME GestureTypeOK, AllTell, TapWaits, TapsAreAnswered, NEW p \in Pointers, PassSlop(p)
  PROVE  AllTell' /\ TapWaits' /\ TapsAreAnswered'
<1> DEFINE v == SlopVerdict(p)
           pr == press[p]
           t == told[p] \o SlopWords(p)
<1>1. /\ press[p].down /\ ~press[p].past /\ ~press[p].scaling
      /\ press' = [press EXCEPT ![p] = Slipped(p)]
      /\ arena' = [arena EXCEPT ![p] = v.arena]
      /\ told' = [told EXCEPT ![p] = t]
      /\ pending' = pending /\ owed' = owed
  BY SlopSteps
<1>2. /\ Slipped(p).down /\ Slipped(p).path = pr.path /\ Slipped(p).button = pr.button
      /\ Slipped(p).past /\ Slipped(p).long = pr.long /\ Slipped(p).second = pr.second
      /\ Slipped(p).scaling = pr.scaling /\ Slipped(p).drag = pr.drag
      /\ Slipped(p).winner = v.winner
      /\ Slipped(p).dragLost <=> pr.dragLost \/ "drag" \in v.lost
  BY <1>1, SlippedPress
<1>3. /\ Tells(pr, told[p], arena[p])
      /\ Sound(Undecided(p)) /\ Undecided(p).arena = arena[p]
      /\ Undecided(p).winner = pr.winner /\ Undecided(p).lost = {}
      /\ told[p] \in Seq(Words)
  BY TypeParts DEF AllTell, GestureTypeOK
<1>4. /\ pr.path \in Paths /\ pr.button \in Buttons /\ pr.drag = Innermost(pr.path, "drag")
      /\ pr.second => Innermost(Taps(pr.path, pr.button), "double") # NoRegion
      /\ IF pr.long THEN HeldLong(pr, told[p], arena[p]) ELSE Fresh(pr, told[p], arena[p])
  BY <1>1, <1>3 DEF Tells
<1>5. ~SlopStarts(p) /\ ~SlopStrays(p) => t = told[p]
  <2>1. ~SlopStarts(p) /\ ~SlopStrays(p) => SlopWords(p) = <<>>
    BY Wording DEF SlopWords
  <2> QED
    BY <1>3, <2>1, Speech
<1> HIDE DEF t
<1>6. CASE pr.long
  <2>1. /\ told[p] = <<"long">> /\ arena[p].members = <<>> /\ pr.winner.kind = "long"
        /\ Innermost(Taps(pr.path, pr.button), "long") # NoRegion
        /\ pr.drag # NoRegion => pr.dragLost
    BY <1>4, <1>6 DEF HeldLong
  <2>2. v.arena.members = <<>> /\ v.winner = pr.winner /\ v.lost = {}
    <3>1. RejectAll(Undecided(p), TapFamily) = Undecided(p)
      BY <1>3, <2>1, RejectsAll, KindsAreHandlers
    <3>2. v = IF pr.drag = NoRegion THEN Undecided(p)
              ELSE Accept(Undecided(p), Member("drag", pr.drag))
      BY <3>1 DEF SlopVerdict
    <3>3. v = Undecided(p)
      <4>1. pr.drag # NoRegion => Member("drag", pr.drag) \in Recognisers
        BY DragMember
      <4> QED
        BY <1>3, <2>1, <3>2, <4>1, Accepts
    <3> QED
      BY <1>3, <2>1, <3>3
  <2>3. ~SlopStarts(p) /\ ~SlopStrays(p)
    BY <2>1, <2>2 DEF SlopStarts, SlopStrays, DragUpdates
  <2>4. HeldLong(Slipped(p), t, v.arena)
    BY <1>2, <1>5, <2>1, <2>2, <2>3 DEF HeldLong
  <2>5. Tells(Slipped(p), t, v.arena)
    BY <1>1, <1>2, <1>4, <1>6, <2>4 DEF Tells
  <2> QED
    BY <1>1, <2>5, TellsOther
<1>7. CASE ~pr.long
  <2>1. Fresh(pr, told[p], arena[p]) /\ told[p] = <<>> /\ ~pr.dragLost
    BY <1>4, <1>7 DEF Fresh
  <2>2. Slid(Slipped(p), t, v.arena)
    <3>1. CASE pr.drag = NoRegion
      <4>1. ~SlopStarts(p) /\ ~SlopStrays(p)
        BY <3>1 DEF SlopStarts, SlopStrays
      <4> QED
        BY <1>2, <1>5, <2>1, <3>1, <4>1 DEF Slid
    <3>2. CASE pr.drag # NoRegion
      <4>1. v.winner.kind = "drag" /\ v.arena.members = <<>> /\ "drag" \notin v.lost
        BY <1>1, <1>4, <2>1, <3>2, FreshSlop
      <4>2. SlopWords(p) = <<"start">>
        BY <3>2, <4>1, Wording, Speech DEF SlopWords, SlopStarts, SlopStrays
      <4>3. t = <<"start">>
        BY <2>1, <4>2, Wording, Speech DEF t
      <4> QED
        BY <1>2, <2>1, <3>2, <4>1, <4>3 DEF Slid
    <3> QED
      BY <3>1, <3>2
  <2>3. Tells(Slipped(p), t, v.arena)
    BY <1>1, <1>2, <1>4, <1>7, <2>2 DEF Tells
  <2> QED
    BY <1>1, <2>3, TellsOther
<1> QED
  BY <1>6, <1>7

\* What a drag says at the end of its press, if it has begun.
LEMMA EndTells ==
  ASSUME GestureTypeOK, NEW p \in Pointers, Tells(press[p], told[p], arena[p]),
         press[p].down, ~press[p].scaling, ~Still(p),
         NEW v, arena[p].members = <<>> => "drag" \notin v.lost
  PROVE  told[p] \o DragEnds(press[p], v) \in Stories \ {<<"start">>}
<1> DEFINE pr == press[p]
           e == DragEnds(pr, v)
<1>1. e = IF pr.past /\ pr.drag # NoRegion /\ ~pr.dragLost /\ "drag" \notin v.lost
          THEN <<"end">> ELSE <<>>
  BY DEF DragEnds
<1> HIDE DEF e
<1>2. CASE pr.long
  <2>1. told[p] = <<"long">> /\ (pr.drag # NoRegion => pr.dragLost)
    BY <1>2 DEF Tells, HeldLong
  <2>2. e = <<>>
    BY <1>1, <2>1
  <2>3. told[p] \o e = <<"long">>
    BY <2>1, <2>2, Wording, Speech
  <2> QED
    BY <2>3, Wording, Speech DEF e, Stories
<1>3. CASE ~pr.long /\ pr.drag = NoRegion
  <2>1. told[p] = <<>>
    BY <1>3 DEF Tells, Slid, Still
  <2>2. told[p] \o e = <<>>
    BY <1>1, <1>3, <2>1, Wording
  <2> QED
    BY <2>2, Wording, Speech DEF e, Stories
<1>4. CASE ~pr.long /\ pr.drag # NoRegion
  <2>1. pr.past /\ told[p] = <<"start">> /\ arena[p].members = <<>> /\ ~pr.dragLost
    BY <1>4 DEF Tells, Slid, Still
  <2>2. told[p] \o e = <<"start", "end">>
    BY <1>1, <1>4, <2>1, Wording
  <2> QED
    BY <2>2, Wording DEF e, Stories
<1> QED
  BY <1>2, <1>3, <1>4

\* What is told when the finger lifts, and who waits.
LEMMA UpTellsStory ==
  ASSUME GestureTypeOK, AllTell, NEW p \in Pointers, press[p].down,
         ~press[p].scaling
  PROVE  LET t == told[p] \o (UpTells(p) \o DragEnds(press[p], UpVerdict(p)))
             d == Double(p)
         IN  /\ t \in Stories \ {<<"start">>}
             /\ UpWaits(p) => UpHolds(p)
             /\ UpHolds(p) =>
                  /\ t = <<>> /\ d \in Regions /\ "double" \in Wants[d]
                  /\ UpWaits(p) =>
                       /\ "tap" \in Wants[d]
                       /\ Range(UpVerdict(p).arena.members)
                            = {Member("tap", d), Member("double", d)}
<1> DEFINE v == UpVerdict(p)
           e == DragEnds(press[p], v)
           t == told[p] \o (UpTells(p) \o e)
<1>1. Tells(press[p], told[p], arena[p])
  BY DEF AllTell
<1>2. /\ told[p] \in Seq(Words) /\ UpTells(p) \in Seq(Words) /\ e \in Seq(Words)
  BY UpWords, DragEndsType DEF GestureTypeOK
<1>3. CASE Still(p)
  <2>1. ~press[p].past /\ ~press[p].long
    BY <1>3 DEF Still
  <2>2. /\ press[p].path \in Paths /\ press[p].button \in Buttons
        /\ Fresh(press[p], told[p], arena[p])
        /\ press[p].second => Double(p) # NoRegion
    BY <1>1, <2>1 DEF Tells, Double
  <2>3. told[p] = <<>>
    BY <2>2 DEF Fresh
  <2>4. e = <<>>
    BY <2>1 DEF DragEnds
  <2> HIDE DEF e
  <2>5. t = UpTells(p)
    BY <1>2, <2>3, <2>4
  <2>6. /\ UpTells(p) \in {<<>>, <<"tap">>, <<"secondary">>, <<"double">>}
        /\ UpWaits(p) => UpHolds(p)
        /\ UpHolds(p) =>
             /\ Double(p) \in Regions /\ "double" \in Wants[Double(p)]
             /\ UpWaits(p) =>
                  /\ "tap" \in Wants[Double(p)]
                  /\ Range(v.arena.members)
                       = {Member("tap", Double(p)), Member("double", Double(p))}
    BY <1>3, <2>2, FreshUp
  <2>7. UpHolds(p) => UpTells(p) = <<>>
    BY DEF UpTells
  <2> HIDE DEF v, t
  <2>8. t \in Stories \ {<<"start">>}
    BY <2>5, <2>6, Wording, Speech DEF Stories
  <2> QED
    BY <2>5, <2>6, <2>7, <2>8 DEF t, v, e
<1>4. CASE ~Still(p)
  <2>1. ~UpHolds(p) /\ ~UpWaits(p) /\ UpTells(p) = <<>>
    BY <1>4 DEF UpHolds, UpWaits, UpTells
  <2>2. ASSUME arena[p].members = <<>> PROVE "drag" \notin v.lost
    <3>1. Sound(Undecided(p)) /\ Undecided(p).arena = arena[p] /\ Undecided(p).lost = {}
      BY TypeParts
    <3>2. UpGone(p) = Undecided(p)
      <4>1. \A kinds \in SUBSET Handlers : RejectAll(Undecided(p), kinds) = Undecided(p)
        BY <2>2, <3>1, RejectsAll
      <4> QED
        BY <4>1, KindsAreHandlers DEF UpGone
    <3>3. UpPaired(p) = Undecided(p)
      BY <1>4, <3>2 DEF UpPaired
    <3>4. v = Sweep(Undecided(p))
      BY <2>1, <3>3, DownVerdicts
    <3>5. v = Undecided(p)
      BY <2>2, <3>1, <3>4, Sweeps
    <3> QED
      BY <3>1, <3>5
  <2>3. told[p] \o e \in Stories \ {<<"start">>}
    BY <1>1, <1>4, <2>2, EndTells
  <2>4. t = told[p] \o e
    BY <1>2, <2>1
  <2> QED
    BY <2>1, <2>3, <2>4
<1> QED
  BY <1>3, <1>4

\* A lift ends a story, or a tap waits for a second one.
LEMMA UpTold ==
  ASSUME GestureTypeOK, AllTell, TapWaits, TapsAreAnswered,
         NEW p \in Pointers, Up(p)
  PROVE  AllTell' /\ TapWaits' /\ TapsAreAnswered'
<1> DEFINE v == UpVerdict(p)
           d == Double(p)
           t == told[p] \o (UpTells(p) \o DragEnds(press[p], v))
<1>1. /\ press[p].down /\ ~press[p].scaling
      /\ press' = [press EXCEPT ![p] = NoPress]
      /\ arena' = [arena EXCEPT ![p] = v.arena]
      /\ pending' = IF UpHolds(p) THEN UpTap(p) ELSE pending
      /\ told' = [told EXCEPT ![p] = t]
      /\ owed' = (IF UpHolds(p) THEN owed \ {pending.pointer} ELSE owed)
                   \cup (IF UpWaits(p) THEN {p} ELSE {})
  BY UpSteps
<1>2. /\ t \in Stories \ {<<"start">>}
      /\ UpWaits(p) => UpHolds(p)
      /\ UpHolds(p) =>
           /\ t = <<>> /\ d \in Regions /\ "double" \in Wants[d]
           /\ UpWaits(p) => /\ "tap" \in Wants[d]
                            /\ Range(v.arena.members) = {Member("tap", d), Member("double", d)}
  BY <1>1, UpTellsStory
<1> HIDE DEF t
<1>3. ~NoPress.down
  BY Records
<1>4. Tells(NoPress, t, v.arena)
  BY <1>2, <1>3 DEF Tells
<1>5. AllTell' /\ (pending' = pending /\ owed' = owed => TapWaits' /\ TapsAreAnswered')
  BY <1>1, <1>4, TellsOther
<1>6. CASE ~UpHolds(p)
  BY <1>1, <1>2, <1>5, <1>6
<1>7. CASE UpHolds(p)
  <2>1. /\ press \in [Pointers -> Presses] /\ arena \in [Pointers -> Arenas]
        /\ told \in [Pointers -> Seq(Words)]
    BY DEF GestureTypeOK
  <2>2. press'[p] = NoPress /\ arena'[p] = v.arena /\ told'[p] = t
    BY <1>1, <2>1
  <2>3. v.arena.held
    BY <1>1, <1>7, DownVerdicts
  <2> HIDE DEF v, d
  <2>4. pending'.pointer = p /\ pending'.region = d
    BY <1>1, <1>7 DEF UpTap, d
  <2>5. owed' \subseteq {p} /\ (p \in owed' => UpWaits(p))
    <3>1. owed \subseteq {pending.pointer}
      BY DEF TapsAreAnswered
    <3>2. pending.pointer # p
      BY <1>1, NamesAssumption DEF TapWaits
    <3> QED
      BY <1>1, <1>7, <3>1, <3>2
  <2>6. TapWaits'
    <3>1. /\ ~press'[p].down /\ told'[p] = <<>> /\ arena'[p].held
          /\ d \in Regions /\ "double" \in Wants[d]
          /\ p \in owed' =>
               /\ "tap" \in Wants[d]
               /\ Range(arena'[p].members) = {Member("tap", d), Member("double", d)}
      BY <1>2, <1>3, <1>7, <2>2, <2>3, <2>5
    <3> QED
      BY <2>4, <3>1 DEF TapWaits
  <2>7. TapsAreAnswered'
    BY <2>2, <2>3, <2>4, <2>5 DEF TapsAreAnswered
  <2> QED
    BY <1>5, <2>6, <2>7
<1> QED
  BY <1>6, <1>7

\* A cancel ends a story.
LEMMA CancelTold ==
  ASSUME GestureTypeOK, AllTell, TapWaits, TapsAreAnswered, NEW p \in Pointers, Cancel(p)
  PROVE  AllTell' /\ TapWaits' /\ TapsAreAnswered'
<1> DEFINE v == CancelVerdict(p)
           e == DragEnds(press[p], v)
           t == told[p] \o e
<1>1. /\ press[p].down /\ ~press[p].scaling
      /\ press' = [press EXCEPT ![p] = NoPress]
      /\ arena' = [arena EXCEPT ![p] = v.arena]
      /\ told' = [told EXCEPT ![p] = t]
      /\ pending' = pending /\ owed' = owed
  BY CancelSteps
<1>2. Tells(press[p], told[p], arena[p])
  BY DEF AllTell
<1>3. t \in Stories \ {<<"start">>}
  <2>1. CASE Still(p)
    <3>1. ~press[p].past /\ ~press[p].long
      BY <2>1 DEF Still
    <3>2. told[p] = <<>>
      BY <1>1, <1>2, <3>1 DEF Tells, Fresh
    <3>3. e = <<>>
      BY <3>1 DEF DragEnds
    <3>4. t = <<>>
      BY <3>2, <3>3, Wording
    <3> QED
      BY <3>4, Wording, Speech DEF Stories
  <2>2. CASE ~Still(p)
    <3>1. ASSUME arena[p].members = <<>> PROVE "drag" \notin v.lost
      <4>1. Sound(Undecided(p)) /\ Undecided(p).arena = arena[p] /\ Undecided(p).lost = {}
        BY TypeParts
      <4>2. v = Undecided(p)
        BY <3>1, <4>1, RejectsAll, KindsAreHandlers DEF CancelVerdict
      <4> QED
        BY <4>1, <4>2
    <3> QED
      BY <1>1, <1>2, <2>2, <3>1, EndTells
  <2> QED
    BY <2>1, <2>2
<1> HIDE DEF t
<1>4. Tells(NoPress, t, v.arena)
  BY <1>3, Records DEF Tells
<1> QED
  BY <1>1, <1>4, TellsOther

\* A finger that leaves a pinch has been told of.
LEMMA LeavePinchTold ==
  ASSUME GestureTypeOK, AllTell, TapWaits, TapsAreAnswered, NEW p \in Pointers, LeavePinch(p)
  PROVE  AllTell' /\ TapWaits' /\ TapsAreAnswered'
<1>1. /\ press[p].down /\ press[p].scaling
      /\ press' = [press EXCEPT ![p] = NoPress]
      /\ arena' = arena /\ told' = told /\ pending' = pending /\ owed' = owed
  BY DEF LeavePinch
<1>2. arena' = [arena EXCEPT ![p] = arena[p]] /\ told' = [told EXCEPT ![p] = told[p]]
  BY <1>1 DEF GestureTypeOK
<1>3. Pinching(press[p], told[p])
  BY <1>1 DEF AllTell, Tells
<1>4. told[p] \in Stories \ {<<"start">>}
  BY <1>3, Wording, Speech DEF Pinching, Stories
<1>5. Tells(NoPress, told[p], arena[p])
  BY <1>4, Records DEF Tells
<1> QED
  BY <1>1, <1>2, <1>5, TellsOther

\* A frame that finds a press still down.
LEMMA DueTold ==
  ASSUME GestureTypeOK, AllTell, NEW p \in Due
  PROVE  Tells(AfterClaim(p), IF Fires(p) THEN Append(told[p], "long") ELSE told[p],
               Claimed(p).arena)
<1> DEFINE pr == AfterClaim(p)
           u == Undecided(p)
           m == Member("long", Long(p))
           v == Claimed(p)
           join == Joining(press[p].path, press[p].button)
           long == Innermost(Taps(press[p].path, press[p].button), "long")
<1>1. /\ p \in Pointers /\ AwaitsLongPress(press[p])
      /\ press[p].path \in Paths /\ press[p].button = "primary"
      /\ m \in Recognisers /\ Sound(v) /\ v = Accept(u, m)
      /\ pr.down /\ pr.path = press[p].path
      /\ pr.button = press[p].button /\ ~pr.past /\ pr.second = press[p].second
      /\ ~pr.scaling /\ pr.drag = press[p].drag /\ pr.winner = v.winner
      /\ (pr.dragLost <=> press[p].dragLost \/ "drag" \in v.lost)
      /\ pr.long = Fires(p)
  BY DuePress
<1>2. m.kind = "long"
  BY DEF Member
<1>3. /\ press[p].down /\ ~press[p].long /\ ~press[p].past /\ ~press[p].scaling
      /\ long # NoRegion
  BY <1>1 DEF AwaitsLongPress
<1>4. Tells(press[p], told[p], arena[p])
  BY <1>1 DEF AllTell
<1>5. /\ press[p].button \in Buttons
      /\ press[p].second => Innermost(Taps(press[p].path, press[p].button), "double") # NoRegion
      /\ press[p].drag = Innermost(press[p].path, "drag")
      /\ Fresh(press[p], told[p], arena[p])
  BY <1>3, <1>4 DEF Tells
<1>6. Sound(u) /\ u.arena = arena[p] /\ u.winner = press[p].winner /\ u.lost = {}
  BY <1>1, TypeParts
<1>7. \/ /\ Range(arena[p].members) = join /\ press[p].winner = NoMember
      \/ /\ arena[p].members = <<>> /\ join = {press[p].winner}
  BY <1>1, <1>5, FreshArena
<1>8. Fires(p) = (press[p].winner.kind = "long" \/ arena[p].members # <<>>)
  BY DEF Fires
<1>9. press[p].drag # NoRegion =>
        Member("drag", press[p].drag) \in join /\ Member("drag", press[p].drag).kind = "drag"
  BY <1>1, <1>5, WhoJoins DEF Member
<1> HIDE DEF pr, u, m, v, join, long
<1>10. CASE ~Fires(p)
  <2>1. v = u
    BY <1>1, <1>6, <1>8, <1>10, Accepts, ZenonT(30)
  <2>2. Fresh(pr, told[p], v.arena)
    BY <1>1, <1>5, <1>6, <2>1 DEF Fresh
  <2>3. Tells(pr, told[p], v.arena)
    BY <1>1, <1>5, <1>10, <2>2 DEF Tells
  <2> QED
    BY <1>10, <2>3 DEF pr, v
<1>11. CASE Fires(p)
  <2>1. Append(told[p], "long") = <<"long">>
    BY <1>5, Wording, Speech DEF Fresh
  <2>2. v.arena.members = <<>> /\ v.winner.kind = "long"
        /\ (pr.drag # NoRegion => pr.dragLost)
    <3>1. CASE arena[p].members # <<>>
      <4>1. Range(arena[p].members) = join /\ press[p].winner = NoMember
        BY <1>7, <3>1
      <4>2. /\ v.arena = NoArena /\ v.winner = m
            /\ v.lost = u.lost \cup {x.kind : x \in Range(u.arena.members) \ {m}}
        BY <1>1, <1>6, <3>1, <4>1, Accepts
      <4>3. press[p].drag # NoRegion => "drag" \in v.lost
        BY <1>2, <1>6, <1>9, <4>1, <4>2
      <4> QED
        BY <1>1, <1>2, <4>2, <4>3, GoneIsSound
    <3>2. CASE arena[p].members = <<>>
      <4>1. press[p].winner.kind = "long"
        BY <1>8, <1>11, <3>2
      <4>2. press[p].drag = NoRegion
        <5>1. CASE join = {press[p].winner}
          BY <1>9, <4>1, <5>1
        <5>2. CASE Range(arena[p].members) = join /\ press[p].winner = NoMember
          BY <4>1, <5>2 DEF NoMember
        <5> QED
          BY <1>7, <5>1, <5>2
      <4>3. v = u
        BY <1>1, <1>6, <3>2, Accepts
      <4> QED
        BY <1>1, <1>6, <3>2, <4>1, <4>2, <4>3
    <3> QED
      BY <3>1, <3>2
  <2>3. HeldLong(pr, <<"long">>, v.arena)
    BY <1>1, <1>3, <2>2 DEF HeldLong, long
  <2>4. Tells(pr, <<"long">>, v.arena)
    BY <1>1, <1>5, <1>11, <2>3 DEF Tells
  <2> QED
    BY <1>11, <2>1, <2>4 DEF pr, v
<1> QED
  BY <1>10, <1>11

\* A frame tells the long presses that are due and answers the tap that has
\* waited long enough.
LEMMA TickTold ==
  ASSUME GestureTypeOK, AllTell, TapWaits, TapsAreAnswered, Tick
  PROVE  AllTell' /\ TapWaits' /\ TapsAreAnswered'
<1> DEFINE settled == Settle(FALSE)
           q == pending.pointer
<1>1. /\ press' = [p \in Pointers |-> IF p \in Due THEN AfterClaim(p) ELSE press[p]]
      /\ arena' = [p \in Pointers |->
            IF p \in Due THEN Claimed(p).arena
            ELSE IF Expired THEN settled.arena[p] ELSE arena[p]]
      /\ told' = [p \in Pointers |->
            IF Fires(p) THEN Append(told[p], "long")
            ELSE IF Expired THEN settled.told[p] ELSE told[p]]
      /\ pending' = IF Expired THEN NoTap ELSE pending
      /\ owed' = IF Expired THEN settled.owed ELSE owed
  BY TickSteps
<1>2. /\ settled.owed = {}
      /\ \A p \in Pointers : p # q =>
           settled.told[p] = told[p] /\ settled.arena[p] = arena[p]
      /\ q \in Pointers => settled.told[q] \in {<<>>, <<"tap">>}
  BY SettlingAnswers
<1> HIDE DEF settled
<1>3. \A p \in Due : p \in Pointers /\ press[p].down /\ p # q
  BY NamesAssumption DEF Due, AwaitsLongPress, TapWaits
<1>4. \A p \in Pointers : Fires(p) => p \in Due
  BY DEF Fires
<1>5. ASSUME NEW p \in Pointers PROVE Tells(press'[p], told'[p], arena'[p])
  <2>1. CASE p \in Due
    <3>1. /\ press'[p] = AfterClaim(p) /\ arena'[p] = Claimed(p).arena
          /\ told'[p] = IF Fires(p) THEN Append(told[p], "long") ELSE told[p]
      BY <1>1, <1>2, <1>3, <2>1
    <3> QED
      BY <2>1, <3>1, DueTold
  <2>2. CASE p \notin Due /\ ~(Expired /\ p = q)
    <3>1. press'[p] = press[p] /\ arena'[p] = arena[p] /\ told'[p] = told[p]
      BY <1>1, <1>2, <1>4, <2>2
    <3> QED
      BY <3>1 DEF AllTell
  <2>3. CASE p \notin Due /\ Expired /\ p = q
    <3>1. press'[p] = press[p] /\ told'[p] \in {<<>>, <<"tap">>}
      BY <1>1, <1>2, <1>4, <2>3
    <3>2. ~press[p].down
      BY <2>3, NamesAssumption DEF TapWaits
    <3>3. told'[p] \in Stories \ {<<"start">>}
      BY <3>1, Wording, Speech DEF Stories
    <3> QED
      BY <3>1, <3>2, <3>3 DEF Tells
  <2> QED
    BY <2>1, <2>2, <2>3
<1>6. AllTell'
  BY <1>5 DEF AllTell
<1>7. CASE Expired
  BY <1>1, <1>2, <1>6, <1>7, Records DEF TapWaits, TapsAreAnswered
<1>8. CASE ~Expired
  <2>1. pending' = pending /\ owed' = owed
    BY <1>1, <1>8
  <2>2. \A p \in Pointers : p \notin Due =>
          press'[p] = press[p] /\ told'[p] = told[p] /\ arena'[p] = arena[p]
    BY <1>1, <1>4, <1>8
  <2>3. q \in Pointers \cup {NoPointer} /\ owed \subseteq Pointers
    BY TypeParts DEF GestureTypeOK
  <2>4. q \in Pointers =>
          press'[q] = press[q] /\ told'[q] = told[q] /\ arena'[q] = arena[q]
    BY <1>3, <2>2
  <2>5. TapWaits'
    BY <2>1, <2>3, <2>4 DEF TapWaits
  <2>6. TapsAreAnswered'
    BY <2>1, <2>3, <2>4 DEF TapsAreAnswered
  <2> QED
    BY <1>6, <2>5, <2>6
<1> QED
  BY <1>6, <1>7, <1>8

\* Time tells nothing.
LEMMA ClockTold ==
  ASSUME GestureTypeOK, AllTell, TapWaits, TapsAreAnswered, Clock
  PROVE  AllTell' /\ TapWaits' /\ TapsAreAnswered'
<1>1. /\ press' = [p \in Pointers |-> Aged(p)]
      /\ pending' = IF pending.pointer = NoPointer THEN pending
                    ELSE [pending EXCEPT !.up = Older(@, DoubleTap + 1),
                                         !.down = Older(@, MinGap)]
      /\ arena' = arena /\ told' = told /\ owed' = owed
  BY DEF Clock, Aged
<1>2. pending'.pointer = pending.pointer /\ pending'.region = pending.region
  BY <1>1 DEF GestureTypeOK, WaitingTaps
<1>3. ASSUME NEW p \in Pointers
      PROVE  /\ press'[p].down = press[p].down /\ press'[p].path = press[p].path
             /\ press'[p].button = press[p].button /\ press'[p].past = press[p].past
             /\ press'[p].long = press[p].long /\ press'[p].second = press[p].second
             /\ press'[p].scaling = press[p].scaling /\ press'[p].drag = press[p].drag
             /\ press'[p].winner = press[p].winner /\ press'[p].dragLost = press[p].dragLost
  <2>1. press'[p] = Aged(p)
    BY <1>1
  <2> QED
    BY <2>1, AgedPress
<1>4. ASSUME NEW p \in Pointers PROVE Tells(press'[p], told'[p], arena'[p])
  <2>1. Tells(press[p], told[p], arena[p])
    BY DEF AllTell
  <2> QED
    BY <1>1, <1>3, <2>1 DEF Tells, Pinching, HeldLong, Slid, Fresh
<1>5. AllTell'
  BY <1>4 DEF AllTell
<1>6. pending.pointer \in Pointers \cup {NoPointer}
  BY TypeParts
<1>7. TapWaits'
  BY <1>1, <1>2, <1>3, <1>6 DEF TapWaits
<1>8. TapsAreAnswered'
  BY <1>1, <1>2 DEF TapsAreAnswered
<1> QED
  BY <1>5, <1>7, <1>8

\* What becomes of a press is told once, and a tap does not get lost that is left
\* alone when it is no double tap, on every screen (gestures.rs: on_up, on_move,
\* settle_pending_tap, begin_scale_if_two_fingers).
THEOREM EveryPressIsTold == GestureSpec => []PressesAreTold
<1> DEFINE I == GestureTypeOK /\ AllTell /\ TapWaits /\ TapsAreAnswered
<1>1. GestureInit => I
  <2> SUFFICES ASSUME GestureInit PROVE I
    OBVIOUS
  <2>1. GestureTypeOK
    BY GestureStart
  <2>2. /\ press = [p \in Pointers |-> NoPress] /\ told = [p \in Pointers |-> <<>>]
        /\ pending = NoTap /\ owed = {}
    BY DEF GestureInit
  <2>3. <<>> \in Stories \ {<<"start">>}
    BY DEF Stories
  <2>4. AllTell
    BY <2>2, <2>3, Records DEF AllTell, Tells
  <2> QED
    BY <2>1, <2>2, <2>4, Records DEF TapWaits, TapsAreAnswered
<1>2. I /\ [GestureNext]_gestureVars => I'
  <2> SUFFICES ASSUME I, [GestureNext]_gestureVars PROVE I'
    OBVIOUS
  <2>1. GestureTypeOK'
    BY TypeNext
  <2>2. CASE GestureNext
    BY <2>1, <2>2, Steps, DownTells, PassSlopTells, UpTold, CancelTold, LeavePinchTold,
       TickTold, ClockTold
  <2>3. CASE UNCHANGED gestureVars
    BY <2>1, <2>3 DEF gestureVars, AllTell, TapWaits, TapsAreAnswered
  <2> QED
    BY <2>1, <2>2, <2>3
<1>3. I => PressesAreTold
  BY TellsOne DEF PressesAreTold
<1> QED
  BY <1>1, <1>2, <1>3, PTL DEF GestureSpec
=============================================================================
