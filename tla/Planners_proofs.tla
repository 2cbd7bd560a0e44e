------------------------------- MODULE Planners_proofs -------------------------------
(***************************************************************************)
(* Proofs about the two planners, for every household, set of debts, budget*)
(* and calendar that their assumptions admit: the months of a debt plan    *)
(* close to the cent (MonthsClose), and the deposits of a month share one  *)
(* ledger, serve what is due first and show what they could not pay        *)
(* (SharedLedger, DeadlinesFirst, ConflictShown). Both are made of sums,   *)
(* folds and sorts, which the first sections are about.                    *)
(***************************************************************************)
EXTENDS Paychecks, Debts, FiniteSetTheorems, WellFoundedInduction, TLAPS

(***************************************************************************)
(* Induction over the naturals and over the sizes of finite sets.          *)
(***************************************************************************)
LEMMA SetInduction ==
  ASSUME NEW S, 0 \in S, \A n \in Nat : n \in S => n+1 \in S
  PROVE Nat \subseteq S
<1>1. SUFFICES ASSUME NEW n \in Nat, n \notin S PROVE FALSE
  OBVIOUS
<1> DEFINE Out == {k \in 0..n : k \notin S}
           T == {1..k : k \in Out}
           I == 1..n
<1>2. IsFiniteSet(I)
  BY FS_Interval
<1>3. T \subseteq FiniteSubsetsOf(I)
  <2>1. \A k \in 0..n : 1..k \in SUBSET I
    OBVIOUS
  <2>2. FiniteSubsetsOf(I) = SUBSET I
    BY <1>2, FS_FiniteSubsetsOfFinite
  <2>3. ASSUME NEW x \in T PROVE x \in SUBSET I
    <3>1. PICK k \in 0..n : x = 1..k
      OBVIOUS
    <3>2. QED
      BY <3>1, <2>1
  <2>4. QED
    BY <2>2, <2>3
<1>4. T # {}
  <2>1. n \in Out
    BY <1>1
  <2>2. 1..n \in T
    BY <2>1
  <2>3. QED
    BY <2>2
<1>5. IsWellFoundedOn(StrictSubsetOrdering(I), FiniteSubsetsOf(I))
  BY FS_StrictSubsetOrderingWellFounded
<1>6. PICK x \in T : \A y \in T : ~ (<<y, x>> \in StrictSubsetOrdering(I))
  <2> HIDE DEF T, I
  <2>1. QED BY <1>3, <1>4, <1>5, WFMin
<1>7. PICK k \in 0..n : k \notin S /\ x = 1..k
  OBVIOUS
<1>8. k # 0 /\ k-1 \in 0..n /\ k-1 \in Nat /\ (k-1)+1 = k
  BY <1>7
<1>9. k-1 \notin S
  BY <1>7, <1>8
<1>10. 1..(k-1) \in T /\ 1..(k-1) \subseteq 1..k /\ k \in 1..k /\ k \notin 1..(k-1)
  BY <1>8, <1>9
<1>11. <<1..(k-1), 1..k>> \in StrictSubsetOrdering(I)
  <2> DEFINE a == 1..(k-1)
             b == 1..k
  <2>1. a \in SUBSET I /\ b \in SUBSET I /\ a \subseteq b /\ a # b
    BY <1>10, <1>8
  <2> HIDE DEF a, b, I
  <2>2. <<a, b>> \in (SUBSET I) \X (SUBSET I)
    BY <2>1
  <2>3. <<a, b>> \in StrictSubsetOrdering(I)
    BY <2>1, <2>2 DEF StrictSubsetOrdering
  <2>4. QED
    BY <2>3 DEF a, b
<1>12. QED
  BY <1>6, <1>7, <1>10, <1>11

(* The largest of some of the first n numbers is one of them.              *)
LEMMA LargestIn ==
  ASSUME NEW n \in Nat, NEW S \in SUBSET (1..n), S # {}
  PROVE Max(S) \in S
<1> DEFINE Done == {k \in Nat : \A T \in SUBSET (1..k) : T # {} =>
                                    \E x \in T : \A y \in T : x >= y}
<1>1. 0 \in Done
  BY 1..0 = {}
<1>2. ASSUME NEW k \in Nat, k \in Done PROVE k + 1 \in Done
  <2>1. ASSUME NEW T \in SUBSET (1..(k + 1)), T # {}
        PROVE \E x \in T : \A y \in T : x >= y
    <3>1. CASE k + 1 \in T
      BY <3>1
    <3>2. CASE k + 1 \notin T
      BY <3>2, <1>2, T \in SUBSET (1..k), <2>1
    <3>3. QED
      BY <3>1, <3>2
  <2>2. QED
    BY <2>1
<1>3. Nat \subseteq Done
  BY <1>1, <1>2, SetInduction
<1>4. QED
  BY <1>3 DEF Max

LEMMA LargestUpTo ==
  ASSUME NEW k \in Nat, k # 0
  PROVE /\ Max(1..k) = k
        /\ (1..k) \ {k} = 1..(k - 1)
<1>1. k \in 1..k /\ \A y \in 1..k : k >= y
  OBVIOUS
<1>2. ASSUME NEW x \in 1..k, \A y \in 1..k : x >= y PROVE x = k
  BY <1>1, <1>2
<1>3. QED
  BY <1>1, <1>2 DEF Max

(***************************************************************************)
(* Folds.  A fold takes the places of a sequence from the last to the      *)
(* first; that its recursion has a solution is what lets it be reasoned    *)
(* about.                                                                  *)
(***************************************************************************)
StepsOf(n, State) == [State -> [1..n -> State]]
Solution(f, n, State, base, step) ==
    /\ f \in [SUBSET (1..n) -> State]
    /\ f[{}] = base
    /\ \A S \in SUBSET (1..n) : S # {} => f[S] = step[f[S \ {Max(S)}]][Max(S)]

LEMMA FoldExists ==
  ASSUME NEW n \in Nat, NEW State, NEW base \in State, NEW step \in StepsOf(n, State)
  PROVE \E f : Solution(f, n, State, base, step)
<1> USE DEF StepsOf, Solution
<1> DEFINE Solves(k, f) ==
              /\ f \in [SUBSET (1..k) -> State]
              /\ f[{}] = base
              /\ \A S \in SUBSET (1..k) :
                    S # {} => f[S] = step[f[S \ {Max(S)}]][Max(S)]
           Done == {k \in Nat : k <= n => \E f : Solves(k, f)}
<1>1. 0 \in Done
  <2>1. SUBSET (1..0) = {{}}
    OBVIOUS
  <2>2. Solves(0, [S \in SUBSET (1..0) |-> base])
    BY <2>1
  <2>3. QED
    BY <2>2
<1>2. ASSUME NEW k \in Nat, k \in Done, k + 1 <= n PROVE \E f : Solves(k + 1, f)
  <2>1. PICK f : Solves(k, f)
    <3> HIDE DEF Solves
    <3>1. k <= n
      BY <1>2
    <3>2. QED
      BY <1>2, <3>1
  <2> DEFINE m == k + 1
             g == [S \in SUBSET (1..m) |->
                      IF m \in S THEN step[f[S \ {m}]][m] ELSE f[S]]
  <2>2. m \in 1..n /\ m \in Nat
    BY <1>2
  <2>3. ASSUME NEW S \in SUBSET (1..m)
        PROVE /\ S \ {m} \in SUBSET (1..k)
              /\ m \notin S => S \in SUBSET (1..k)
              /\ m \in S => Max(S) = m
    <3>1. S \ {m} \in SUBSET (1..k)
      BY <1>2
    <3>2. ASSUME m \in S PROVE Max(S) = m
      <4>1. m \in S /\ \A y \in S : m >= y
        BY <3>2, <2>2
      <4>2. ASSUME NEW x \in S, \A y \in S : x >= y PROVE x = m
        BY <4>1, <4>2, <2>2
      <4>3. QED
        BY <4>1, <4>2 DEF Max
    <3>3. QED
      BY <3>1, <3>2
  <2>4. g \in [SUBSET (1..m) -> State]
    <3>1. ASSUME NEW S \in SUBSET (1..m) PROVE g[S] \in State
      <4>1. f[S \ {m}] \in State /\ (m \notin S => f[S] \in State)
        BY <2>1, <2>3
      <4>2. step[f[S \ {m}]] \in [1..n -> State]
        BY <4>1
      <4>3. QED
        BY <4>1, <4>2, <2>2
    <3>2. QED
      BY <3>1
  <2>5. g[{}] = base
    BY <2>1
  <2>6. ASSUME NEW S \in SUBSET (1..m), S # {}
        PROVE g[S] = step[g[S \ {Max(S)}]][Max(S)]
    <3>1. CASE m \in S
      <4>1. S \ {m} \in SUBSET (1..m) /\ m \notin S \ {m}
        OBVIOUS
      <4>2. g[S \ {m}] = f[S \ {m}] /\ g[S] = step[f[S \ {m}]][m]
        BY <3>1, <4>1
      <4>3. QED
        BY <4>2, <2>3, <3>1
    <3>2. CASE m \notin S
      <4>1. S \in SUBSET (1..k) /\ Max(S) \in S
        BY <3>2, <2>3, <2>6, LargestIn
      <4>2. g[S] = f[S] /\ g[S \ {Max(S)}] = f[S \ {Max(S)}]
        BY <3>2
      <4>3. QED
        BY <4>1, <4>2, <2>1, <2>6
    <3>3. QED
      BY <3>1, <3>2
  <2>7. Solves(m, g)
    <3> HIDE DEF g
    <3>1. QED BY <2>4, <2>5, <2>6
  <2>8. QED
    BY <2>7
<1>3. \A k \in Nat : k \in Done => k + 1 \in Done
  <2> HIDE DEF Solves
  <2>1. QED BY <1>2
<1>4. Nat \subseteq Done
  <2> HIDE DEF Solves
  <2>1. QED BY <1>1, <1>3, SetInduction
<1>5. PICK f : Solves(n, f)
  <2> HIDE DEF Solves
  <2>1. QED BY <1>4
<1>6. QED
  BY <1>5

(* What a fold computes, place after place.                                *)
Recurs(iter, n, State, base, step) ==
    /\ iter[{}] = base
    /\ \A S \in SUBSET (1..n) :
          (S # {} /\ iter[S \ {Max(S)}] \in State) =>
             iter[S] = step[iter[S \ {Max(S)}]][Max(S)]
Trace(g, n, State, base, step) ==
    /\ g \in [0..n -> State]
    /\ g[0] = base
    /\ \A k \in 1..n : g[k] = step[g[k - 1]][k]

LEMMA TraceOf ==
  ASSUME NEW n \in Nat, NEW State, NEW base \in State, NEW step \in StepsOf(n, State),
         NEW iter, Recurs(iter, n, State, base, step)
  PROVE \E g : Trace(g, n, State, base, step) /\ g[n] = iter[1..n]
<1>1. ASSUME NEW k \in 1..n, iter[1..(k - 1)] \in State
      PROVE iter[1..k] = step[iter[1..(k - 1)]][k] /\ iter[1..k] \in State
  <2>1. k \in Nat /\ k # 0 /\ 1..k \in SUBSET (1..n) /\ 1..k # {}
    OBVIOUS
  <2>2. Max(1..k) = k /\ (1..k) \ {k} = 1..(k - 1)
    BY <2>1, LargestUpTo
  <2>3. iter[1..k] = step[iter[1..(k - 1)]][k]
    BY <1>1, <2>1, <2>2 DEF Recurs
  <2>4. step[iter[1..(k - 1)]] \in [1..n -> State]
    BY <1>1 DEF StepsOf
  <2>5. QED
    BY <2>3, <2>4
<1>2. iter[1..0] = base
  BY 1..0 = {} DEF Recurs
<1> DEFINE Done == {k \in Nat : k <= n => iter[1..k] \in State}
<1>3. 0 \in Done
  BY <1>2
<1>4. ASSUME NEW k \in Nat, k \in Done PROVE k + 1 \in Done
  <2>1. ASSUME k + 1 <= n PROVE iter[1..(k + 1)] \in State
    <3>1. k + 1 \in 1..n /\ (k + 1) - 1 = k /\ k <= n
      BY <2>1
    <3>2. QED
      BY <1>4, <3>1, <1>1
  <2>2. QED
    BY <2>1
<1>5. \A k \in 0..n : iter[1..k] \in State
  <2>1. Nat \subseteq Done
    <3> HIDE DEF Done
    <3>1. QED BY <1>3, <1>4, SetInduction
  <2>2. QED
    BY <2>1
<1> DEFINE g == [k \in 0..n |-> iter[1..k]]
<1>6. \A k \in 1..n : g[k] = step[g[k - 1]][k]
  <2>1. ASSUME NEW k \in 1..n PROVE g[k] = step[g[k - 1]][k]
    BY <1>1, <1>5, k - 1 \in 0..n, k \in 0..n
  <2>2. QED
    BY <2>1
<1>7. Trace(g, n, State, base, step) /\ g[n] = iter[1..n]
  BY <1>2, <1>5, <1>6, n \in 0..n, 0 \in 0..n DEF Trace
<1>8. QED
  BY <1>7

(***************************************************************************)
(* Sums.                                                                   *)
(***************************************************************************)
LEMMA SumTrace ==
  ASSUME NEW n \in Nat, NEW a \in [1..n -> Int]
  PROVE \E g \in [0..n -> Int] :
          /\ g[0] = 0 /\ SumOf(a) = g[n]
          /\ \A k \in 1..n : g[k] = g[k - 1] + a[k]
<1> DEFINE Body(f) == [S \in SUBSET (1..n) |->
                          IF S = {} THEN 0 ELSE f[S \ {Max(S)}] + a[Max(S)]]
           State == Int
           step == [s \in Int |-> [i \in 1..n |-> s + a[i]]]
<1>1. step \in StepsOf(n, State) /\ 0 \in State
  BY DEF StepsOf
<1>2. PICK f : Solution(f, n, State, 0, step)
  <2> HIDE DEF step, State
  <2>1. QED BY <1>1, FoldExists
<1>3. f = Body(f)
  <2>1. ASSUME NEW S \in SUBSET (1..n), S # {}
        PROVE f[S] = f[S \ {Max(S)}] + a[Max(S)]
    BY <2>1, <1>2, LargestIn DEF Solution
  <2>2. QED
    BY <1>2, <2>1 DEF Solution
<1>4. PICK iter : iter = Body(iter) /\ SumOf(a) = iter[1..n]
  <2>1. SumOf(a) = (CHOOSE h : h = Body(h))[1..n]
    BY DEF SumOf, FoldLeft, MapThenFoldSet
  <2> HIDE DEF Body
  <2>2. QED
    BY <1>3, <2>1
<1>5. Recurs(iter, n, State, 0, step)
  <2>1. iter[{}] = 0
    BY <1>4
  <2>2. ASSUME NEW S \in SUBSET (1..n), S # {}, iter[S \ {Max(S)}] \in Int
        PROVE iter[S] = step[iter[S \ {Max(S)}]][Max(S)]
    BY <2>2, <1>4, LargestIn
  <2>3. QED
    BY <2>1, <2>2 DEF Recurs
<1>6. PICK g : Trace(g, n, State, 0, step) /\ g[n] = iter[1..n]
  <2> HIDE DEF step, State
  <2>1. QED BY <1>1, <1>5, TraceOf
<1>7. \A k \in 1..n : g[k] = g[k - 1] + a[k]
  <2>1. ASSUME NEW k \in 1..n PROVE g[k] = g[k - 1] + a[k]
    BY <1>6, k - 1 \in 0..n DEF Trace
  <2>2. QED
    BY <2>1
<1>8. QED
  BY <1>4, <1>6, <1>7 DEF Trace

LEMMA SumType ==
  ASSUME NEW n \in Nat, NEW a \in [1..n -> Int]
  PROVE SumOf(a) \in Int
BY SumTrace, n \in 0..n

LEMMA SumAdds ==
  ASSUME NEW n \in Nat, NEW a \in [1..n -> Int], NEW b \in [1..n -> Int],
         NEW c \in [1..n -> Int], \A i \in 1..n : c[i] = a[i] + b[i]
  PROVE SumOf(c) = SumOf(a) + SumOf(b)
<1>1. PICK f \in [0..n -> Int] : /\ f[0] = 0 /\ SumOf(a) = f[n]
                                 /\ \A k \in 1..n : f[k] = f[k - 1] + a[k]
  BY SumTrace
<1>2. PICK g \in [0..n -> Int] : /\ g[0] = 0 /\ SumOf(b) = g[n]
                                 /\ \A k \in 1..n : g[k] = g[k - 1] + b[k]
  BY SumTrace
<1>3. PICK h \in [0..n -> Int] : /\ h[0] = 0 /\ SumOf(c) = h[n]
                                 /\ \A k \in 1..n : h[k] = h[k - 1] + c[k]
  BY SumTrace
<1> DEFINE Done == {k \in Nat : k <= n => h[k] = f[k] + g[k]}
<1>4. 0 \in Done
  BY <1>1, <1>2, <1>3
<1>5. ASSUME NEW k \in Nat, k \in Done PROVE k + 1 \in Done
  <2>1. ASSUME k + 1 <= n PROVE h[k + 1] = f[k + 1] + g[k + 1]
    <3>1. k + 1 \in 1..n /\ k \in 0..n /\ (k + 1) - 1 = k /\ k + 1 \in 0..n /\ h[k] = f[k] + g[k]
      BY <2>1, <1>5
    <3>2. QED
      BY <3>1, <1>1, <1>2, <1>3
  <2>2. QED
    BY <2>1
<1>6. Nat \subseteq Done
  <2> HIDE DEF Done
  <2>1. QED BY <1>4, <1>5, SetInduction
<1>7. QED
  BY <1>1, <1>2, <1>3, <1>6

LEMMA SumMonotone ==
  ASSUME NEW n \in Nat, NEW a \in [1..n -> Int], NEW b \in [1..n -> Int],
         \A i \in 1..n : a[i] <= b[i]
  PROVE SumOf(a) <= SumOf(b)
<1>1. PICK f \in [0..n -> Int] : /\ f[0] = 0 /\ SumOf(a) = f[n]
                                 /\ \A k \in 1..n : f[k] = f[k - 1] + a[k]
  BY SumTrace
<1>2. PICK g \in [0..n -> Int] : /\ g[0] = 0 /\ SumOf(b) = g[n]
                                 /\ \A k \in 1..n : g[k] = g[k - 1] + b[k]
  BY SumTrace
<1> DEFINE Done == {k \in Nat : k <= n => f[k] <= g[k]}
<1>3. 0 \in Done
  BY <1>1, <1>2
<1>4. ASSUME NEW k \in Nat, k \in Done PROVE k + 1 \in Done
  <2>1. ASSUME k + 1 <= n PROVE f[k + 1] <= g[k + 1]
    <3>1. k + 1 \in 1..n /\ k \in 0..n /\ (k + 1) - 1 = k /\ k + 1 \in 0..n /\ f[k] <= g[k]
      BY <2>1, <1>4
    <3>2. QED
      BY <3>1, <1>1, <1>2
  <2>2. QED
    BY <2>1
<1>5. Nat \subseteq Done
  <2> HIDE DEF Done
  <2>1. QED BY <1>3, <1>4, SetInduction
<1>6. QED
  BY <1>1, <1>2, <1>5

LEMMA SumOfOne ==
  ASSUME NEW n \in Nat, NEW i \in 1..n, NEW x \in Int
  PROVE SumOf([k \in 1..n |-> IF k = i THEN x ELSE 0]) = x
<1> DEFINE a == [k \in 1..n |-> IF k = i THEN x ELSE 0]
<1>1. PICK f \in [0..n -> Int] : /\ f[0] = 0 /\ SumOf(a) = f[n]
                                 /\ \A k \in 1..n : f[k] = f[k - 1] + a[k]
  BY SumTrace, a \in [1..n -> Int]
<1> DEFINE Done == {k \in Nat : k <= n => f[k] = IF k >= i THEN x ELSE 0}
<1>2. 0 \in Done
  BY <1>1
<1>3. ASSUME NEW k \in Nat, k \in Done PROVE k + 1 \in Done
  <2>1. ASSUME k + 1 <= n PROVE f[k + 1] = IF k + 1 >= i THEN x ELSE 0
    <3>1. k + 1 \in 1..n /\ k \in 0..n /\ (k + 1) - 1 = k /\ f[k] = IF k >= i THEN x ELSE 0
      BY <2>1, <1>3
    <3>2. f[k + 1] = f[k] + a[k + 1] /\ a[k + 1] = IF k + 1 = i THEN x ELSE 0
      BY <3>1, <1>1
    <3>3. QED
      BY <3>1, <3>2
  <2>2. QED
    BY <2>1
<1>4. Nat \subseteq Done
  <2> HIDE DEF Done
  <2>1. QED BY <1>2, <1>3, SetInduction
<1>5. QED
  BY <1>1, <1>4

LEMMA SumChanged ==
  ASSUME NEW n \in Nat, NEW a \in [1..n -> Int], NEW b \in [1..n -> Int],
         NEW i \in 1..n, \A k \in 1..n : k # i => b[k] = a[k]
  PROVE SumOf(b) = SumOf(a) + b[i] - a[i]
<1> DEFINE x == b[i] - a[i]
           one == [k \in 1..n |-> IF k = i THEN x ELSE 0]
<1>1. x \in Int /\ one \in [1..n -> Int]
  OBVIOUS
<1>2. \A k \in 1..n : b[k] = a[k] + one[k]
  OBVIOUS
<1>3. SumOf(one) = x
  <2> HIDE DEF x
  <2>1. QED BY <1>1, SumOfOne
<1>4. SumOf(b) = SumOf(a) + SumOf(one)
  <2> HIDE DEF one
  <2>1. QED BY <1>1, <1>2, SumAdds
<1>5. SumOf(a) \in Int
  BY SumType
<1>6. QED
  BY <1>3, <1>4, <1>5

LEMMA SumOfNone ==
  ASSUME NEW n \in Nat, NEW a \in [1..n -> Int], \A i \in 1..n : a[i] = 0
  PROVE SumOf(a) = 0
<1>1. SumOf(a) = SumOf(a) + SumOf(a)
  BY SumAdds
<1>2. QED
  BY <1>1, SumType

(***************************************************************************)
(* Lists in order.  ahead gives the members of S that come before each.    *)
(***************************************************************************)
Ranking(S, ahead) ==
    /\ ahead \in [S -> SUBSET S]
    /\ \A x \in S : x \notin ahead[x]
    /\ \A x, y \in S : x # y => x \in ahead[y] \/ y \in ahead[x]
    /\ \A x, y, z \in S : x \in ahead[y] /\ y \in ahead[z] => x \in ahead[z]
Lists(q, S, ahead) ==
    /\ q \in [1..Cardinality(S) -> S] /\ Cardinality(S) \in Nat
    /\ \A x \in S : \E k \in 1..Cardinality(S) : q[k] = x
    /\ \A j, k \in 1..Cardinality(S) : q[j] \in ahead[q[k]] <=> j < k
    /\ \A j, k \in 1..Cardinality(S) : q[j] = q[k] => j = k

LEMMA RanksAreDistinct ==
  ASSUME NEW S, IsFiniteSet(S), NEW ahead, Ranking(S, ahead), NEW x \in S, NEW y \in S
  PROVE /\ Cardinality(ahead[x]) \in 0..(Cardinality(S) - 1)
        /\ x \in ahead[y] <=> Cardinality(ahead[x]) < Cardinality(ahead[y])
        /\ Cardinality(ahead[x]) = Cardinality(ahead[y]) => x = y
<1>1. \A z \in S : /\ IsFiniteSet(ahead[z]) /\ ahead[z] \subseteq S /\ ahead[z] # S
                   /\ Cardinality(ahead[z]) \in Nat
  BY FS_Subset, FS_CardinalityType DEF Ranking
<1>2. Cardinality(ahead[x]) < Cardinality(S) /\ Cardinality(S) \in Nat
  BY <1>1, FS_Subset, FS_CardinalityType
<1>3. ASSUME NEW u \in S, NEW v \in S, u \in ahead[v]
      PROVE Cardinality(ahead[u]) < Cardinality(ahead[v])
  <2>1. ahead[u] \subseteq ahead[v] /\ ahead[u] # ahead[v]
    BY <1>3, <1>1 DEF Ranking
  <2>2. QED
    BY <2>1, <1>1, FS_Subset, SMTT(30)
<1>4. x # y => x \in ahead[y] \/ y \in ahead[x]
  BY DEF Ranking
<1>5. QED
  BY <1>1, <1>2, <1>3, <1>4 DEF Ranking

LEMMA EveryRankIsTaken ==
  ASSUME NEW S, IsFiniteSet(S), NEW ahead, Ranking(S, ahead)
  PROVE \A k \in 1..Cardinality(S) : \E x \in S : Cardinality(ahead[x]) = k - 1
<1> DEFINE n == Cardinality(S)
           T == 1..n
           rank == [x \in S |-> Cardinality(ahead[x]) + 1]
<1>1. n \in Nat
  BY FS_CardinalityType
<1>2. IsFiniteSet(T) /\ Cardinality(T) = n
  BY <1>1, FS_Interval
<1>3. \A x, y \in S : rank[x] \in T /\ (rank[x] = rank[y] => x = y)
  <2>1. ASSUME NEW x \in S, NEW y \in S PROVE rank[x] \in T /\ (rank[x] = rank[y] => x = y)
    <3>1. /\ Cardinality(ahead[x]) \in 0..(n - 1) /\ Cardinality(ahead[y]) \in 0..(n - 1)
          /\ Cardinality(ahead[x]) = Cardinality(ahead[y]) => x = y
      BY RanksAreDistinct
    <3>2. QED
      BY <3>1, <1>1
  <2>2. QED
    BY <2>1
<1>4. rank \in Injection(S, T)
  BY <1>3 DEF Injection, IsInjective
<1>5. rank \in Surjection(S, T)
  <2> HIDE DEF rank, T, n
  <2>1. Cardinality(S) = n
    BY DEF n
  <2>2. QED
    BY <1>2, <1>4, <2>1, FS_Injection
<1>6. ASSUME NEW k \in 1..Cardinality(S) PROVE \E x \in S : Cardinality(ahead[x]) = k - 1
  <2>1. PICK x \in S : rank[x] = k
    <3> HIDE DEF rank
    <3>1. QED BY <1>5 DEF Surjection
  <2>2. Cardinality(ahead[x]) \in 0..(n - 1)
    BY RanksAreDistinct
  <2>3. QED
    BY <2>1, <2>2, <1>1
<1>7. QED
  BY <1>6

Ranked(q, S, ahead) ==
    /\ q = [k \in 1..Cardinality(S) |-> q[k]]
    /\ \A k \in 1..Cardinality(S) :
          (\E x \in S : Cardinality(ahead[x]) = k - 1) =>
             q[k] \in S /\ Cardinality(ahead[q[k]]) = k - 1

LEMMA OrderedLists ==
  ASSUME NEW S, IsFiniteSet(S), NEW ahead, Ranking(S, ahead), NEW q, Ranked(q, S, ahead)
  PROVE Lists(q, S, ahead)
<1>1. Cardinality(S) \in Nat
  BY FS_CardinalityType
<1>2. \A k \in 1..Cardinality(S) : q[k] \in S /\ Cardinality(ahead[q[k]]) = k - 1
  BY EveryRankIsTaken DEF Ranked
<1>3. \A x \in S : \E k \in 1..Cardinality(S) : q[k] = x
  <2>1. ASSUME NEW x \in S PROVE \E k \in 1..Cardinality(S) : q[k] = x
    <3> DEFINE k == Cardinality(ahead[x]) + 1
    <3>1. k \in 1..Cardinality(S) /\ Cardinality(ahead[x]) = k - 1
      BY RanksAreDistinct, <1>1
    <3>2. q[k] \in S /\ Cardinality(ahead[q[k]]) = Cardinality(ahead[x])
      BY <3>1, <1>2
    <3>3. q[k] = x
      BY <3>2, RanksAreDistinct
    <3>4. QED
      BY <3>1, <3>3
  <2>2. QED
    BY <2>1
<1>4. ASSUME NEW j \in 1..Cardinality(S), NEW k \in 1..Cardinality(S)
      PROVE (q[j] \in ahead[q[k]] <=> j < k) /\ (q[j] = q[k] => j = k)
  <2>1. q[j] \in S /\ q[k] \in S /\ Cardinality(ahead[q[j]]) = j - 1 /\ Cardinality(ahead[q[k]]) = k - 1
    BY <1>2
  <2>2. q[j] \in ahead[q[k]] <=> j - 1 < k - 1
    BY <2>1, RanksAreDistinct
  <2>3. q[j] = q[k] => j - 1 = k - 1
    BY <2>1
  <2>4. QED
    BY <2>2, <2>3
<1>5. q \in [1..Cardinality(S) -> S]
  BY <1>2 DEF Ranked
<1>6. QED
  BY <1>1, <1>3, <1>4, <1>5 DEF Lists

LEMMA AscendingLists ==
  ASSUME NEW n \in Nat, NEW S \in SUBSET (1..n)
  PROVE /\ Lists(Ascending(S), S, [x \in S |-> {y \in S : y < x}])
        /\ IsFiniteSet(S)
<1> DEFINE ahead == [x \in S |-> {y \in S : y < x}]
<1>1. IsFiniteSet(S)
  <2>1. IsFiniteSet(1..n)
    BY 1 \in Int, n \in Int, FS_Interval
  <2>2. QED
    BY <2>1, FS_Subset
<1>2. Ranking(S, ahead)
  BY DEF Ranking
<1>3. Ranked(Ascending(S), S, ahead)
  <2>1. Ascending(S) = [k \in 1..Cardinality(S) |->
                           CHOOSE x \in S : Cardinality({y \in S : y < x}) = k - 1]
    BY DEF Ascending, Ordered
  <2>2. \A x \in S : ahead[x] = {y \in S : y < x}
    OBVIOUS
  <2>3. ASSUME NEW k \in 1..Cardinality(S), NEW x \in S, Cardinality(ahead[x]) = k - 1
        PROVE LET z == Ascending(S)[k] IN z \in S /\ Cardinality(ahead[z]) = k - 1
    <3>1. \E y \in S : Cardinality({w \in S : w < y}) = k - 1
      BY <2>2, <2>3
    <3> DEFINE z == Ascending(S)[k]
    <3>2. z = CHOOSE y \in S : Cardinality({w \in S : w < y}) = k - 1
      BY <2>1
    <3>3. z \in S /\ Cardinality({w \in S : w < z}) = k - 1
      BY <3>1, <3>2
    <3> HIDE DEF z, ahead
    <3>4. QED
      BY <3>3, <2>2 DEF z
  <2> HIDE DEF ahead
  <2>4. QED
    BY <2>1, <2>3 DEF Ranked
<1>4. QED
  <2> HIDE DEF ahead
  <2>1. Lists(Ascending(S), S, ahead)
    BY <1>1, <1>2, <1>3, OrderedLists
  <2>2. QED
    BY <2>1, <1>1 DEF ahead

(***************************************************************************)
(* A month of a debt plan in progress, for n debts.                        *)
(***************************************************************************)
MonthsFor(n) == [owed : [1..n -> Nat], paid : [1..n -> Nat], budget : Nat]

(* Payments move money from the budget to the debts and lose none.         *)
Settles(n, m, r) ==
    /\ r \in MonthsFor(n)
    /\ \A i \in 1..n : r.owed[i] + r.paid[i] = m.owed[i] + m.paid[i] /\ r.owed[i] <= m.owed[i]
    /\ SumOf(r.paid) + r.budget = SumOf(m.paid) + m.budget /\ r.budget <= m.budget

Pays(n, m, i, amount, r) ==
    LET give == Smaller(Smaller(amount, m.owed[i]), m.budget)
    IN  /\ r.owed = [m.owed EXCEPT ![i] = @ - give]
        /\ r.paid = [m.paid EXCEPT ![i] = @ + give]
        /\ r.budget = m.budget - give
        /\ Settles(n, m, r)

LEMMA PayFacts ==
  ASSUME NEW n \in Nat, NEW m \in MonthsFor(n), NEW i \in 1..n, NEW amount \in Nat
  PROVE Pays(n, m, i, amount, Pay(m, i, amount))
<1> DEFINE r == Pay(m, i, amount)
           give == Smaller(Smaller(amount, m.owed[i]), m.budget)
<1>1. m.owed \in [1..n -> Nat] /\ m.paid \in [1..n -> Nat] /\ m.budget \in Nat
  BY DEF MonthsFor
<1>2. give \in Nat /\ give <= amount /\ give <= m.owed[i] /\ give <= m.budget
  BY <1>1 DEF Smaller
<1>3. r = [m EXCEPT !.owed[i] = @ - give, !.paid[i] = @ + give, !.budget = @ - give]
  BY DEF Pay
<1>4. m = [owed |-> m.owed, paid |-> m.paid, budget |-> m.budget]
  BY DEF MonthsFor
<1> HIDE DEF give, r
<1>5. /\ r.owed = [m.owed EXCEPT ![i] = @ - give]
      /\ r.paid = [m.paid EXCEPT ![i] = @ + give]
      /\ r.budget = m.budget - give
      /\ r = [owed |-> r.owed, paid |-> r.paid, budget |-> r.budget]
  <2>1. r.owed = [m.owed EXCEPT ![i] = @ - give]
    BY <1>3, <1>4
  <2>2. r.paid = [m.paid EXCEPT ![i] = @ + give]
    BY <1>3, <1>4
  <2>3. r.budget = m.budget - give
    BY <1>3, <1>4
  <2>4. r = [owed |-> r.owed, paid |-> r.paid, budget |-> r.budget]
    BY <1>3, <1>4
  <2>5. QED
    BY <2>1, <2>2, <2>3, <2>4
<1>6. r.owed \in [1..n -> Nat] /\ r.paid \in [1..n -> Nat] /\ r.budget \in Nat
  <2>1. m.owed[i] - give \in Nat /\ m.paid[i] + give \in Nat /\ m.budget - give \in Nat
    BY <1>1, <1>2
  <2>2. QED
    BY <2>1, <1>1, <1>5, SMTT(30)
<1>7. r \in MonthsFor(n)
  BY <1>5, <1>6 DEF MonthsFor
<1>8. \A k \in 1..n : r.owed[k] + r.paid[k] = m.owed[k] + m.paid[k] /\ r.owed[k] <= m.owed[k]
  <2>1. ASSUME NEW k \in 1..n
        PROVE r.owed[k] + r.paid[k] = m.owed[k] + m.paid[k] /\ r.owed[k] <= m.owed[k]
    <3>1. r.owed[k] = IF k = i THEN m.owed[i] - give ELSE m.owed[k]
      BY <1>1, <1>5
    <3>2. r.paid[k] = IF k = i THEN m.paid[i] + give ELSE m.paid[k]
      BY <1>1, <1>5
    <3>3. m.owed[i] \in Nat /\ m.paid[i] \in Nat /\ m.owed[k] \in Nat /\ m.paid[k] \in Nat
      BY <1>1
    <3>4. CASE k = i
      BY <3>1, <3>2, <3>3, <3>4, <1>2
    <3>5. CASE k # i
      BY <3>1, <3>2, <3>3, <3>5
    <3>6. QED
      BY <3>4, <3>5
  <2>2. QED
    BY <2>1
<1>9. SumOf(r.paid) = SumOf(m.paid) + give /\ SumOf(m.paid) \in Int
  <2> DEFINE a == m.paid
             b == r.paid
  <2>1. a \in [1..n -> Int] /\ b \in [1..n -> Int]
    BY <1>1, <1>6
  <2>2. \A k \in 1..n : k # i => b[k] = a[k]
    BY <1>1, <1>5
  <2>3. b[i] - a[i] = give /\ b[i] \in Int /\ a[i] \in Int
    BY <1>1, <1>2, <1>5
  <2> HIDE DEF a, b
  <2>4. SumOf(b) = SumOf(a) + b[i] - a[i] /\ SumOf(a) \in Int
    BY <2>1, <2>2, SumChanged, SumType
  <2>5. QED
    BY <2>3, <2>4 DEF a, b
<1>10. Settles(n, m, r)
  BY <1>1, <1>2, <1>5, <1>7, <1>8, <1>9 DEF Settles
<1>11. QED
  BY <1>5, <1>7, <1>10 DEF r, give, Pays

LEMMA SettlesOn ==
  ASSUME NEW n \in Nat, NEW m \in MonthsFor(n), NEW r, NEW t, Settles(n, m, r), Settles(n, r, t)
  PROVE Settles(n, m, t)
<1>1. ASSUME NEW u \in MonthsFor(n)
      PROVE /\ u.owed \in [1..n -> Nat] /\ u.paid \in [1..n -> Nat] /\ u.budget \in Nat
            /\ SumOf(u.paid) \in Int
  <2>1. u.owed \in [1..n -> Nat] /\ u.paid \in [1..n -> Nat] /\ u.budget \in Nat
    BY DEF MonthsFor
  <2> DEFINE a == u.paid
  <2>2. a \in [1..n -> Int]
    BY <2>1
  <2> HIDE DEF a
  <2>3. SumOf(a) \in Int
    BY <2>2, SumType
  <2>4. QED
    BY <2>1, <2>3 DEF a
<1>2. r \in MonthsFor(n) /\ t \in MonthsFor(n)
  BY DEF Settles
<1>3. \A i \in 1..n : t.owed[i] + t.paid[i] = m.owed[i] + m.paid[i] /\ t.owed[i] <= m.owed[i]
  <2>1. ASSUME NEW i \in 1..n
        PROVE t.owed[i] + t.paid[i] = m.owed[i] + m.paid[i] /\ t.owed[i] <= m.owed[i]
    <3>1. /\ r.owed[i] + r.paid[i] = m.owed[i] + m.paid[i] /\ r.owed[i] <= m.owed[i]
          /\ t.owed[i] + t.paid[i] = r.owed[i] + r.paid[i] /\ t.owed[i] <= r.owed[i]
      BY DEF Settles
    <3>2. {m.owed[i], r.owed[i], t.owed[i]} \subseteq Nat
      BY <1>1, <1>2
    <3>3. QED
      BY <3>1, <3>2
  <2>2. QED
    BY <2>1
<1>4. /\ SumOf(t.paid) + t.budget = SumOf(m.paid) + m.budget
      /\ t.budget <= m.budget
  <2>1. {SumOf(m.paid), SumOf(r.paid), SumOf(t.paid), m.budget, r.budget, t.budget} \subseteq Int
    BY <1>1, <1>2
  <2>2. /\ SumOf(r.paid) + r.budget = SumOf(m.paid) + m.budget /\ r.budget <= m.budget
        /\ SumOf(t.paid) + t.budget = SumOf(r.paid) + r.budget /\ t.budget <= r.budget
    BY DEF Settles
  <2>3. QED
    BY <2>1, <2>2
<1>5. QED
  BY <1>2, <1>3, <1>4 DEF Settles

LEMMA SettlesNothing ==
  ASSUME NEW n \in Nat, NEW m \in MonthsFor(n)
  PROVE Settles(n, m, m)
BY DEF Settles, MonthsFor

Paying(g, n, c, m, order, amounts) ==
    /\ g \in [0..c -> MonthsFor(n)]
    /\ g[0] = m /\ PayAll(m, order, amounts) = g[c]
    /\ \A k \in 1..c : g[k] = Pay(g[k - 1], order[k], amounts[k])
LEMMA PayAllTrace ==
  ASSUME NEW n \in Nat, NEW c \in Nat, NEW m \in MonthsFor(n),
         NEW order \in [1..c -> 1..n], NEW amounts \in [1..c -> Nat]
  PROVE \E g : Paying(g, n, c, m, order, amounts)
<1> DEFINE Body(f) == [S \in SUBSET (1..c) |->
                          IF S = {} THEN m
                          ELSE Pay(f[S \ {Max(S)}], order[[k \in 1..c |-> k][Max(S)]],
                                   amounts[[k \in 1..c |-> k][Max(S)]])]
           State == MonthsFor(n)
           step == [r \in State |-> [k \in 1..c |-> Pay(r, order[k], amounts[k])]]
<1>1. step \in StepsOf(c, State) /\ m \in State
  <2>1. ASSUME NEW r \in State, NEW k \in 1..c PROVE Pay(r, order[k], amounts[k]) \in State
    <3>1. order[k] \in 1..n /\ amounts[k] \in Nat
      OBVIOUS
    <3>2. QED
      BY <3>1, PayFacts DEF Pays, Settles
  <2>2. QED
    BY <2>1 DEF StepsOf
<1> HIDE DEF State
<1>2. PICK f : Solution(f, c, State, m, step)
  <2> HIDE DEF step
  <2>1. QED BY <1>1, FoldExists
<1>3. f = Body(f)
  <2>1. ASSUME NEW S \in SUBSET (1..c), S # {}
        PROVE f[S] = Pay(f[S \ {Max(S)}], order[[k \in 1..c |-> k][Max(S)]],
                         amounts[[k \in 1..c |-> k][Max(S)]])
    <3>1. Max(S) \in 1..c
      BY <2>1, LargestIn
    <3>2. f[S] = step[f[S \ {Max(S)}]][Max(S)] /\ f[S \ {Max(S)}] \in State
      BY <2>1, <1>2 DEF Solution
    <3>3. QED
      BY <3>1, <3>2
  <2>2. QED
    BY <1>2, <2>1 DEF Solution
<1>4. PICK iter : iter = Body(iter) /\ PayAll(m, order, amounts) = iter[1..c]
  <2>1. DOMAIN order = 1..c
    OBVIOUS
  <2>2. PayAll(m, order, amounts) = (CHOOSE h : h = Body(h))[1..c]
    BY <2>1 DEF PayAll, FoldLeft, MapThenFoldSet
  <2> HIDE DEF Body
  <2>3. QED
    BY <1>3, <2>2
<1>5. Recurs(iter, c, State, m, step)
  <2>1. iter[{}] = m
    BY <1>4
  <2>2. ASSUME NEW S \in SUBSET (1..c), S # {}, iter[S \ {Max(S)}] \in State
        PROVE iter[S] = step[iter[S \ {Max(S)}]][Max(S)]
    BY <2>2, <1>4, LargestIn
  <2>3. QED
    BY <2>1, <2>2 DEF Recurs
<1>6. PICK g : Trace(g, c, State, m, step) /\ g[c] = iter[1..c]
  <2> HIDE DEF step
  <2>1. QED BY <1>1, <1>5, TraceOf
<1>7. \A k \in 1..c : g[k] = Pay(g[k - 1], order[k], amounts[k])
  <2>1. ASSUME NEW k \in 1..c PROVE g[k] = Pay(g[k - 1], order[k], amounts[k])
    BY <1>6, k - 1 \in 0..c DEF Trace
  <2>2. QED
    BY <2>1
<1>8. QED
  BY <1>4, <1>6, <1>7, ZenonT(40) DEF Trace, State, Paying

LEMMA PayAllSettles ==
  ASSUME NEW n \in Nat, NEW c \in Nat, NEW m \in MonthsFor(n),
         NEW order \in [1..c -> 1..n], NEW amounts \in [1..c -> Nat]
  PROVE Settles(n, m, PayAll(m, order, amounts))
<1>1. PICK g : Paying(g, n, c, m, order, amounts)
  BY PayAllTrace
<1> DEFINE Done == {k \in Nat : k <= c => Settles(n, m, g[k])}
<1>2. 0 \in Done
  BY <1>1, SettlesNothing DEF Paying
<1>3. ASSUME NEW k \in Nat, k \in Done, k + 1 <= c PROVE Settles(n, m, g[k + 1])
  <2>1. k + 1 \in 1..c /\ (k + 1) - 1 = k /\ k <= c
    BY <1>3
  <2>2. Settles(n, m, g[k])
    BY <1>3, <2>1
  <2>3. g[k] \in MonthsFor(n)
    BY <2>2 DEF Settles
  <2>4. order[k + 1] \in 1..n /\ amounts[k + 1] \in Nat
    BY <2>1
  <2>5. g[k + 1] = Pay(g[k], order[k + 1], amounts[k + 1])
    BY <1>1, <2>1 DEF Paying
  <2>6. Pays(n, g[k], order[k + 1], amounts[k + 1], g[k + 1])
    BY <2>3, <2>4, <2>5, PayFacts
  <2>7. QED
    BY <2>2, <2>3, <2>6, SettlesOn DEF Pays
<1>4. \A k \in Nat : k \in Done => k + 1 \in Done
  BY <1>3
<1>5. Nat \subseteq Done
  <2> HIDE DEF Done
  <2>1. QED BY <1>2, <1>4, SetInduction
<1>6. QED
  BY <1>1, <1>5 DEF Paying

(* Debts paid in turn leave the budget spent or every one of them paid.    *)
Covers(n, m, c, order) ==
    /\ c \in Nat /\ order \in [1..c -> 1..n]
    /\ \A i \in 1..n : m.owed[i] > 0 => \E k \in 1..c : order[k] = i
Spent(n, m) == m.budget = 0 \/ \A i \in 1..n : m.owed[i] = 0

LEMMA PayInOrderSpends ==
  ASSUME NEW n \in Nat, NEW m \in MonthsFor(n), NEW c, NEW order, Covers(n, m, c, order)
  PROVE Settles(n, m, PayInOrder(m, order)) /\ Spent(n, PayInOrder(m, order))
<1> DEFINE amounts == [k \in 1..c |-> m.budget]
<1>1. /\ c \in Nat /\ order \in [1..c -> 1..n] /\ amounts \in [1..c -> Nat]
      /\ PayInOrder(m, order) = PayAll(m, order, amounts)
  BY DEF PayInOrder, MonthsFor, Covers
<1>2. m.budget \in Nat /\ \A k \in 1..c : amounts[k] = m.budget
  BY DEF MonthsFor
<1> HIDE DEF amounts
<1>3. PICK g : Paying(g, n, c, m, order, amounts)
  BY <1>1, PayAllTrace
<1> DEFINE Turn(k) == /\ Settles(n, m, g[k])
                      /\ g[k].budget = 0 \/ \A j \in 1..k : g[k].owed[order[j]] = 0
<1>4. ASSUME NEW k \in Nat, Turn(k), k + 1 <= c PROVE Turn(k + 1)
  <2>1. k + 1 \in 1..c /\ (k + 1) - 1 = k
    BY <1>1, <1>4
  <2> DEFINE i == order[k + 1]
             t == g[k]
             u == g[k + 1]
  <2>2. i \in 1..n /\ amounts[k + 1] = m.budget /\ u = Pay(t, i, m.budget)
    BY <1>1, <1>2, <1>3, <2>1 DEF Paying
  <2>3. Settles(n, m, t) /\ t \in MonthsFor(n)
    BY <1>4 DEF Settles
  <2>4. Pays(n, t, i, m.budget, u)
    <3> HIDE DEF i, t, u
    <3>1. QED BY <1>2, <2>2, <2>3, PayFacts
  <2>5. Settles(n, t, u) /\ Settles(n, m, u)
    BY <2>3, <2>4, SettlesOn DEF Pays
  <2> HIDE DEF t, u
  <2>6. /\ t.owed \in [1..n -> Nat] /\ t.budget \in Nat /\ t.budget <= m.budget
        /\ u.owed \in [1..n -> Nat] /\ u.budget \in Nat
        /\ \A j \in 1..n : u.owed[j] <= t.owed[j]
    BY <2>3, <2>5 DEF MonthsFor, Settles
  <2>7. u.budget = 0 \/ u.owed[i] = 0
    <3> DEFINE give == Smaller(Smaller(m.budget, t.owed[i]), t.budget)
    <3>1. give = t.owed[i] \/ give = t.budget
      BY <1>2, <2>2, <2>6 DEF Smaller
    <3>2. u.owed = [t.owed EXCEPT ![i] = @ - give] /\ u.budget = t.budget - give
      BY <2>4 DEF Pays
    <3>3. u.owed[i] = t.owed[i] - give
      BY <2>2, <2>6, <3>2
    <3> HIDE DEF give
    <3>4. QED
      BY <2>2, <2>6, <3>1, <3>2, <3>3
  <2>8. u.budget = 0 \/ \A j \in 1..(k + 1) : u.owed[order[j]] = 0
    <3>1. t.budget <= 0 => u.budget = 0
      BY <2>5, <2>6 DEF Settles
    <3>2. ASSUME u.budget # 0, NEW j \in 1..(k + 1) PROVE u.owed[order[j]] = 0
      <4>1. CASE j = k + 1
        BY <2>7, <3>2, <4>1
      <4>2. CASE j # k + 1
        <5>1. j \in 1..k /\ order[j] \in 1..n
          BY <1>1, <1>4, <4>2
        <5>2. t.owed[order[j]] = 0
          BY <1>4, <2>6, <3>1, <3>2, <5>1, SMTT(30) DEF t
        <5>3. QED
          BY <2>6, <5>1, <5>2
      <4>3. QED
        BY <4>1, <4>2
    <3>3. QED
      BY <3>2
  <2>9. QED
    BY <2>5, <2>8 DEF u
<1> DEFINE Done == {k \in Nat : k <= c => Turn(k)}
<1>5. Nat \subseteq Done
  <2> HIDE DEF Turn
  <2>1. \A k \in Nat : k \in Done => k + 1 \in Done
    BY <1>1, <1>4
  <2>2. 0 \in Done
    BY <1>3, SettlesNothing DEF Paying, Turn
  <2> HIDE DEF Done
  <2>3. QED BY <2>1, <2>2, SetInduction
<1>6. Settles(n, m, g[c]) /\ (g[c].budget = 0 \/ \A j \in 1..c : g[c].owed[order[j]] = 0)
  BY <1>1, <1>5
<1>7. ASSUME g[c].budget # 0, NEW i \in 1..n PROVE g[c].owed[i] = 0
  <2>1. g[c].owed[i] \in Nat /\ m.owed[i] \in Nat /\ g[c].owed[i] <= m.owed[i]
    BY <1>6 DEF Settles, MonthsFor
  <2>2. m.owed[i] > 0 => \E k \in 1..c : order[k] = i
    BY DEF Covers
  <2>3. QED
    BY <2>1, <2>2, <1>6, <1>7
<1>8. QED
  BY <1>1, <1>3, <1>6, <1>7 DEF Spent, Paying

(* A plan of n debts.                                                      *)
PlanOf(pl, n) ==
    /\ n \in Nat /\ pl.debts \in [1..n -> DebtOf] /\ pl.custom \in Seq(1..n)
    /\ pl.budget \in Nat /\ pl.horizon \in Nat
    /\ pl.reserved \in Nat /\ pl.reservedFor \in 1..n
Due(pl, n, m) == [i \in 1..n |-> Smaller(pl.debts[i].minimum, m.owed[i])]

LEMMA RoomForOne ==
  ASSUME NEW n \in Nat, NEW p \in [1..n -> Nat], NEW due \in [1..n -> Nat], NEW i \in 1..n,
         p[i] = 0, \A j \in 1..n : p[j] = 0 \/ p[j] = due[j]
  PROVE SumOf(p) + due[i] <= SumOf(due)
<1> DEFINE b == [p EXCEPT ![i] = due[i]]
<1>1. b \in [1..n -> Int] /\ p \in [1..n -> Int] /\ due \in [1..n -> Int]
  OBVIOUS
<1>2. b[i] = due[i] /\ \A j \in 1..n : j # i => b[j] = p[j]
  OBVIOUS
<1>3. \A j \in 1..n : b[j] <= due[j]
  <2>1. ASSUME NEW j \in 1..n PROVE b[j] <= due[j]
    <3>1. p[j] = 0 \/ p[j] = due[j]
      OBVIOUS
    <3>2. due[j] \in Nat /\ p[j] \in Nat
      OBVIOUS
    <3>3. QED
      BY <1>2, <3>1, <3>2
  <2>2. QED
    BY <2>1
<1> HIDE DEF b
<1>4. SumOf(b) <= SumOf(due)
  BY <1>1, <1>3, SumMonotone
<1>5. SumOf(b) = SumOf(p) + b[i] - p[i]
  BY <1>1, <1>2, SumChanged
<1>6. {SumOf(p), SumOf(b), SumOf(due)} \subseteq Int
  BY <1>1, SumType
<1>7. QED
  BY <1>2, <1>4, <1>5, <1>6

(* A budget that the minimums fit in pays every one of them.               *)
LEMMA MinimumsArePaid ==
  ASSUME NEW n, NEW pl, PlanOf(pl, n), NEW m \in MonthsFor(n),
         \A i \in 1..n : m.paid[i] = 0, SumOf(Due(pl, n, m)) <= m.budget
  PROVE \A i \in 1..n : PayMinimums(pl, m).paid[i] >= Due(pl, n, m)[i]
<1> DEFINE live == Live(m.owed)
           order == Ascending(live)
           c == Cardinality(live)
           amounts == [k \in DOMAIN order |-> pl.debts[order[k]].minimum]
           due == Due(pl, n, m)
<1>1. /\ n \in Nat /\ m.owed \in [1..n -> Nat] /\ m.paid \in [1..n -> Nat] /\ m.budget \in Nat
      /\ \A i \in 1..n : pl.debts[i].minimum \in Nat
  BY DEF PlanOf, MonthsFor, DebtOf
<1>2. live \in SUBSET (1..n) /\ \A i \in 1..n : i \notin live => m.owed[i] = 0
  BY <1>1 DEF Live
<1>3. due \in [1..n -> Nat] /\ \A i \in 1..n : due[i] = Smaller(pl.debts[i].minimum, m.owed[i])
  BY <1>1 DEF Due, Smaller
<1>4. PayMinimums(pl, m) = PayAll(m, order, amounts)
  BY DEF PayMinimums
<1>5. /\ c \in Nat /\ order \in [1..c -> 1..n] /\ \A i \in live : \E k \in 1..c : order[k] = i
      /\ \A j, k \in 1..c : order[j] = order[k] => j = k
  <2> HIDE DEF live, order, c
  <2>1. Lists(order, live, [x \in live |-> {y \in live : y < x}])
    BY <1>1, <1>2, AscendingLists DEF order
  <2>2. QED
    BY <2>1, <1>2 DEF Lists, c
<1>6. amounts \in [1..c -> Nat] /\ \A k \in 1..c : amounts[k] = pl.debts[order[k]].minimum
  <2> HIDE DEF live, order, c
  <2>1. QED BY <1>1, <1>5
<1> HIDE DEF live, order, c, amounts, due
<1>7. PICK g : Paying(g, n, c, m, order, amounts)
  BY <1>1, <1>5, <1>6, PayAllTrace
<1> DEFINE Turn(k) ==
              /\ Settles(n, m, g[k])
              /\ \A j \in 1..k : g[k].paid[order[j]] = due[order[j]]
              /\ \A i \in 1..n : (\A j \in 1..k : order[j] # i) => g[k].paid[i] = 0
<1>8. ASSUME NEW k \in Nat, Turn(k), k + 1 <= c PROVE Turn(k + 1)
  <2>1. k + 1 \in 1..c /\ (k + 1) - 1 = k
    BY <1>5, <1>8
  <2> DEFINE i == order[k + 1]
             t == g[k]
             u == g[k + 1]
             minimum == pl.debts[i].minimum
  <2>2. /\ i \in 1..n /\ minimum \in Nat
        /\ amounts[k + 1] = minimum /\ u = Pay(t, i, minimum)
    BY <1>1, <1>5, <1>6, <1>7, <2>1 DEF Paying
  <2>3. Settles(n, m, t) /\ t \in MonthsFor(n)
    BY <1>8 DEF Settles
  <2>4. Pays(n, t, i, minimum, u)
    <3> HIDE DEF i, t, u, minimum
    <3>1. QED BY <1>1, <2>2, <2>3, PayFacts
  <2>5. Settles(n, t, u) /\ Settles(n, m, u)
    BY <1>1, <2>3, <2>4, SettlesOn DEF Pays
  <2>6. \A j \in 1..k : order[j] # i
    <3>1. ASSUME NEW j \in 1..k PROVE order[j] # i
      <4>1. j \in 1..c /\ j # k + 1
        BY <1>5, <1>8
      <4>2. QED
        BY <1>5, <2>1, <4>1
    <3>2. QED
      BY <3>1
  <2>7. t.paid[i] = 0
    BY <1>8, <2>2, <2>6
  <2>8. \A j \in 1..n : t.paid[j] = 0 \/ t.paid[j] = due[j]
    <3>1. ASSUME NEW j \in 1..n PROVE t.paid[j] = 0 \/ t.paid[j] = due[j]
      <4>1. CASE \A h \in 1..k : order[h] # j
        BY <1>8, <4>1
      <4>2. CASE \E h \in 1..k : order[h] = j
        BY <1>8, <4>2
      <4>3. QED
        BY <4>1, <4>2
    <3>2. QED
      BY <3>1
  <2>9. \A j \in 1..k : t.paid[order[j]] = due[order[j]]
    BY <1>8
  <2>10. \A j \in 1..n : (\A h \in 1..k : order[h] # j) => t.paid[j] = 0
    BY <1>8
  <2> HIDE DEF t, u, minimum, i
  <2>11. /\ t.owed \in [1..n -> Nat] /\ t.paid \in [1..n -> Nat] /\ t.budget \in Nat
         /\ t.owed[i] + t.paid[i] = m.owed[i] + m.paid[i]
         /\ SumOf(t.paid) + t.budget = SumOf(m.paid) + m.budget
    BY <2>2, <2>3 DEF MonthsFor, Settles
  <2>12. t.owed[i] = m.owed[i] /\ due[i] = Smaller(minimum, t.owed[i]) /\ due[i] \in Nat
    <3>1. m.paid[i] = 0 /\ m.owed[i] \in Nat /\ t.owed[i] \in Nat
      BY <1>1, <2>2, <2>11
    <3>2. t.owed[i] = m.owed[i]
      BY <2>7, <2>11, <3>1
    <3>3. due[i] = Smaller(minimum, m.owed[i]) /\ due[i] \in Nat
      BY <1>3, <2>2 DEF minimum
    <3>4. QED
      BY <3>2, <3>3
  <2>13. due[i] <= t.budget
    <3>1. SumOf(t.paid) + due[i] <= SumOf(due)
      <4> DEFINE p == t.paid
      <4>1. p \in [1..n -> Nat] /\ p[i] = 0 /\ \A j \in 1..n : p[j] = 0 \/ p[j] = due[j]
        BY <2>7, <2>8, <2>11
      <4> HIDE DEF p
      <4>2. SumOf(p) + due[i] <= SumOf(due)
        BY <1>1, <1>3, <2>2, <4>1, RoomForOne
      <4>3. QED
        BY <4>2 DEF p
    <3>2. SumOf(m.paid) = 0 /\ SumOf(t.paid) \in Int /\ SumOf(due) \in Int
      <4> DEFINE none == m.paid
                 p == t.paid
      <4>1. /\ none \in [1..n -> Int] /\ \A j \in 1..n : none[j] = 0
            /\ p \in [1..n -> Int] /\ due \in [1..n -> Int]
        <5>1. none \in [1..n -> Int] /\ \A j \in 1..n : none[j] = 0
          BY <1>1
        <5>2. p \in [1..n -> Int]
          BY <2>11
        <5>3. due \in [1..n -> Int]
          BY <1>3
        <5>4. QED
          BY <5>1, <5>2, <5>3
      <4> HIDE DEF none, p
      <4>2. SumOf(none) = 0 /\ SumOf(p) \in Int /\ SumOf(due) \in Int
        BY <1>1, <4>1, SumOfNone, SumType
      <4>3. QED
        BY <4>2 DEF none, p
    <3>3. SumOf(due) <= m.budget
      BY DEF due
    <3> DEFINE sp == SumOf(t.paid)
               sm == SumOf(m.paid)
               sd == SumOf(due)
    <3>4. sp + due[i] <= sd /\ sm = 0 /\ sp \in Int /\ sd \in Int /\ sd <= m.budget /\ sp + t.budget = sm + m.budget
      BY <3>1, <3>2, <3>3, <2>11
    <3> HIDE DEF sp, sm, sd
    <3>5. QED
      BY <1>1, <2>11, <2>12, <3>4, SMTT(30)
  <2>14. u.paid = [t.paid EXCEPT ![i] = @ + due[i]]
    <3>1. Smaller(due[i], t.budget) = due[i]
      BY <2>13 DEF Smaller
    <3>2. QED
      BY <2>4, <2>12, <3>1 DEF Pays
  <2>15. \A j \in 1..n : u.paid[j] = IF j = i THEN due[i] ELSE t.paid[j]
    <3>1. ASSUME NEW j \in 1..n PROVE u.paid[j] = IF j = i THEN due[i] ELSE t.paid[j]
      <4>1. t.paid \in [1..n -> Nat]
        BY <2>11
      <4>2. u.paid[j] = IF j = i THEN t.paid[i] + due[i] ELSE t.paid[j]
        BY <2>14, <4>1
      <4>3. t.paid[i] + due[i] = due[i]
        BY <2>7, <2>12
      <4>4. QED
        BY <4>2, <4>3
    <3>2. QED
      BY <3>1
  <2>16. ASSUME NEW j \in 1..(k + 1) PROVE u.paid[order[j]] = due[order[j]]
    <3>1. order[j] \in 1..n
      BY <1>5, <1>8
    <3>2. CASE j = k + 1
      BY <2>15, <3>1, <3>2 DEF i
    <3>3. CASE j # k + 1
      BY <2>6, <2>9, <2>15, <3>1, <3>3
    <3>4. QED
      BY <3>2, <3>3
  <2>17. ASSUME NEW j \in 1..n, \A h \in 1..(k + 1) : order[h] # j PROVE u.paid[j] = 0
    <3>1. order[k + 1] # j /\ \A h \in 1..k : order[h] # j
      BY <1>8, <2>17
    <3>2. t.paid[j] = 0 /\ j # i
      BY <2>10, <3>1 DEF i
    <3>3. QED
      BY <2>15, <3>2
  <2>18. QED
    BY <2>5, <2>16, <2>17 DEF u
<1> DEFINE Done == {k \in Nat : k <= c => Turn(k)}
<1>9. Turn(0)
  BY <1>1, <1>7, SettlesNothing DEF Paying
<1>10. Nat \subseteq Done
  <2> HIDE DEF Turn
  <2>1. (\A k \in Nat : k \in Done => k + 1 \in Done) /\ 0 \in Done
    BY <1>5, <1>8, <1>9
  <2> HIDE DEF Done
  <2>2. QED BY <2>1, SetInduction
<1>11. Turn(c)
  <2> HIDE DEF Turn
  <2>1. QED BY <1>5, <1>10
<1>12. ASSUME NEW i \in 1..n PROVE g[c].paid[i] >= due[i]
  <2>1. g[c].paid[i] \in Nat /\ due[i] \in Nat
    BY <1>3, <1>11 DEF Settles, MonthsFor
  <2>2. CASE i \in live
    BY <1>5, <1>11, <2>1, <2>2
  <2>3. CASE i \notin live
    <3>1. due[i] = 0
      BY <1>1, <1>2, <1>3, <2>3, SMTT(30) DEF Smaller
    <3>2. QED
      BY <2>1, <3>1
  <2>4. QED
    BY <2>2, <2>3
<1>13. QED
  BY <1>4, <1>7, <1>12 DEF Paying, due

LEMMA FractionsOrdered ==
  ASSUME NEW a \in Nat, NEW b \in Nat, NEW c \in Nat, NEW p \in Nat, NEW q \in Nat, NEW r \in Nat,
         p > 0, q > 0, r > 0
  PROVE /\ a * q > b * p /\ b * r >= c * q => a * r > c * p
        /\ a * q >= b * p /\ b * r > c * q => a * r > c * p
        /\ a * q = b * p /\ b * r = c * q => a * r = c * p
<1>1. a * q > b * p /\ b * r >= c * q => a * r > c * p
  OBVIOUS
<1>2. a * q >= b * p /\ b * r > c * q => a * r > c * p
  OBVIOUS
<1>3. a * q = b * p /\ b * r = c * q => a * r = c * p
  OBVIOUS
<1>4. QED
  BY <1>1, <1>2, <1>3

(* Every strategy puts the debts that it sorts in one order: by two keys,  *)
(* except for the relief of cash flow, which compares fractions.           *)
IsOrderOf(S, Ahead(_, _)) ==
    \A i, j, k \in S :
       /\ ~ Ahead(i, i) /\ (i # j => Ahead(i, j) \/ Ahead(j, i))
       /\ Ahead(i, j) /\ Ahead(j, k) => Ahead(i, k)

LEMMA KeysGiveAnOrder ==
  ASSUME NEW n \in Nat, NEW a \in [1..n -> Int], NEW b \in [1..n -> Int]
  PROVE IsOrderOf(1..n, LAMBDA i, j : ByKeys(a, b, i, j))
<1>1. ASSUME NEW i \in 1..n, NEW j \in 1..n, NEW k \in 1..n
      PROVE /\ ~ ByKeys(a, b, i, i) /\ (i # j => ByKeys(a, b, i, j) \/ ByKeys(a, b, j, i))
            /\ ByKeys(a, b, i, j) /\ ByKeys(a, b, j, k) => ByKeys(a, b, i, k)
  BY DEF ByKeys
<1>2. QED
  BY <1>1 DEF IsOrderOf

LEMMA BeforeIsAnOrder ==
  ASSUME NEW n \in Nat, NEW pl, pl.debts \in [1..n -> DebtOf], NEW owing \in [1..n -> Nat],
         NEW strategy, NEW S \in SUBSET (1..n),
         strategy = "cash_flow_relief" => \A i \in S : owing[i] > 0
  PROVE IsOrderOf(S, LAMBDA i, j : Before(strategy, pl, owing, i, j))
<1> DEFINE rate == [x \in 1..n |-> - pl.debts[x].apr]
           deadline == [x \in 1..n |-> pl.debts[x].promo]
           same == [x \in 1..n |-> 0]
<1>1. \A x \in 1..n : /\ pl.debts[x].apr \in Nat /\ pl.debts[x].promo \in Int
                      /\ pl.debts[x].minimum \in Nat /\ owing[x] \in Nat
  BY DEF DebtOf
<1>2. /\ rate \in [1..n -> Int] /\ deadline \in [1..n -> Int] /\ same \in [1..n -> Int]
      /\ owing \in [1..n -> Int]
  BY <1>1
<1>3. ASSUME NEW a \in [1..n -> Int], NEW b \in [1..n -> Int],
             \A x, y \in 1..n : Before(strategy, pl, owing, x, y) <=> ByKeys(a, b, x, y)
      PROVE IsOrderOf(S, LAMBDA i, j : Before(strategy, pl, owing, i, j))
  <2>1. ASSUME NEW i \in 1..n, NEW j \in 1..n, NEW k \in 1..n
        PROVE /\ ~ ByKeys(a, b, i, i) /\ (i # j => ByKeys(a, b, i, j) \/ ByKeys(a, b, j, i))
              /\ ByKeys(a, b, i, j) /\ ByKeys(a, b, j, k) => ByKeys(a, b, i, k)
    BY KeysGiveAnOrder DEF IsOrderOf
  <2>2. QED
    BY <1>3, <2>1 DEF IsOrderOf
<1>4. CASE strategy = "highest_rate"
  <2>1. \A x, y \in 1..n : Before(strategy, pl, owing, x, y) <=> ByKeys(rate, owing, x, y)
    BY <1>1, <1>4, SMTT(30) DEF Before, ByKeys
  <2>2. QED
    BY <1>2, <1>3, <2>1
<1>5. CASE strategy = "promo_deadline_first"
  <2>1. ASSUME NEW x \in 1..n, NEW y \in 1..n
        PROVE Before(strategy, pl, owing, x, y) <=> ByKeys(deadline, rate, x, y)
    <3>1. Before(strategy, pl, owing, x, y) <=>
            \/ \/ pl.debts[x].promo < pl.debts[y].promo
               \/ pl.debts[x].promo = pl.debts[y].promo /\ pl.debts[x].apr > pl.debts[y].apr
            \/ /\ pl.debts[x].promo = pl.debts[y].promo /\ pl.debts[x].apr = pl.debts[y].apr
               /\ x < y
      BY <1>5 DEF Before
    <3>2. /\ deadline[x] = pl.debts[x].promo /\ deadline[y] = pl.debts[y].promo
          /\ rate[x] = - pl.debts[x].apr /\ rate[y] = - pl.debts[y].apr
          /\ pl.debts[x].apr \in Nat /\ pl.debts[y].apr \in Nat
          /\ pl.debts[x].promo \in Int /\ pl.debts[y].promo \in Int
      BY <1>1
    <3> HIDE DEF deadline, rate
    <3> DEFINE p == pl.debts[x].promo
               q == pl.debts[y].promo
               u == pl.debts[x].apr
               v == pl.debts[y].apr
    <3>3. /\ Before(strategy, pl, owing, x, y) <=>
                \/ p < q \/ (p = q /\ u > v)
                \/ p = q /\ u = v /\ x < y
          /\ ByKeys(deadline, rate, x, y) <=>
                \/ p < q \/ (p = q /\ -u < -v)
                \/ p = q /\ -u = -v /\ x < y
          /\ u \in Nat /\ v \in Nat
      <4>1. ByKeys(deadline, rate, x, y) <=>
                \/ p < q \/ (p = q /\ -u < -v)
                \/ p = q /\ -u = -v /\ x < y
        BY <3>2 DEF ByKeys
      <4>2. QED
        BY <3>1, <3>2, <4>1
    <3> HIDE DEF p, q, u, v
    <3>4. -u < -v <=> u > v
      BY <3>3
    <3>5. -u = -v <=> u = v
      BY <3>3
    <3>6. QED
      BY <3>3, <3>4, <3>5
  <2>2. QED
    BY <1>2, <1>3, <2>1
<1>6. CASE strategy = "balance_only"
  <2>1. \A x, y \in 1..n : Before(strategy, pl, owing, x, y) <=> ByKeys(owing, same, x, y)
    BY <1>1, <1>6 DEF Before, ByKeys
  <2>2. QED
    BY <1>2, <1>3, <2>1
<1>7. CASE /\ strategy # "highest_rate" /\ strategy # "promo_deadline_first"
           /\ strategy # "balance_only" /\ strategy # "cash_flow_relief"
  <2>1. ASSUME NEW x \in 1..n, NEW y \in 1..n
        PROVE Before(strategy, pl, owing, x, y) <=> ByKeys(owing, rate, x, y)
    <3>1. Before(strategy, pl, owing, x, y) <=>
            \/ \/ owing[x] < owing[y]
               \/ owing[x] = owing[y] /\ pl.debts[x].apr > pl.debts[y].apr
            \/ owing[x] = owing[y] /\ pl.debts[x].apr = pl.debts[y].apr /\ x < y
      BY <1>7 DEF Before
    <3>2. /\ pl.debts[x].apr \in Nat /\ pl.debts[y].apr \in Nat
          /\ rate[x] = - pl.debts[x].apr /\ rate[y] = - pl.debts[y].apr
      BY <1>1
    <3>3. rate[x] < rate[y] <=> pl.debts[x].apr > pl.debts[y].apr
      <4> DEFINE u == pl.debts[x].apr
                 v == pl.debts[y].apr
      <4>1. u \in Nat /\ v \in Nat /\ rate[x] = - u /\ rate[y] = - v
        BY <3>2
      <4> HIDE DEF u, v
      <4>2. - u < - v <=> u > v
        BY <4>1
      <4>3. QED
        BY <4>1, <4>2 DEF u, v
    <3>4. rate[x] = rate[y] <=> pl.debts[x].apr = pl.debts[y].apr
      <4> DEFINE u == pl.debts[x].apr
                 v == pl.debts[y].apr
      <4>1. u \in Nat /\ v \in Nat /\ rate[x] = - u /\ rate[y] = - v
        BY <3>2
      <4> HIDE DEF u, v
      <4>2. rate[x] = rate[y] <=> u = v
        BY <4>1
      <4>3. QED
        BY <4>2 DEF u, v
    <3> HIDE DEF rate
    <3>5. QED
      BY <3>1, <3>3, <3>4 DEF ByKeys
  <2>2. QED
    BY <1>2, <1>3, <2>1
<1>8. CASE strategy = "cash_flow_relief"
  <2> DEFINE Relief(x, y) ==
        LET p == pl.debts[x].minimum * owing[y]
            q == pl.debts[y].minimum * owing[x]
        IN  \/ p > q \/ (p = q /\ owing[x] < owing[y])
            \/ p = q /\ owing[x] = owing[y] /\ x < y
  <2>1. \A x, y \in 1..n : Before(strategy, pl, owing, x, y) <=> Relief(x, y)
    BY <1>8 DEF Before
  <2>2. ASSUME NEW i \in S, NEW j \in S, NEW k \in S
        PROVE /\ ~ Relief(i, i) /\ (i # j => Relief(i, j) \/ Relief(j, i))
              /\ Relief(i, j) /\ Relief(j, k) => Relief(i, k)
    <3> DEFINE a == pl.debts[i].minimum
               b == pl.debts[j].minimum
               c == pl.debts[k].minimum
               p == owing[i]
               q == owing[j]
               r == owing[k]
    <3>1. /\ a \in Nat /\ b \in Nat /\ c \in Nat /\ i \in Int /\ j \in Int /\ k \in Int
          /\ p \in Nat /\ q \in Nat /\ r \in Nat /\ p > 0 /\ q > 0 /\ r > 0
      BY <1>1, <1>8
    <3>2. /\ Relief(i, i) <=> (a * p > a * p \/ p < p \/ i < i)
          /\ Relief(i, j) <=> \/ a * q > b * p \/ (a * q = b * p /\ p < q)
                              \/ a * q = b * p /\ p = q /\ i < j
          /\ Relief(j, i) <=> \/ b * p > a * q \/ (b * p = a * q /\ q < p)
                              \/ b * p = a * q /\ q = p /\ j < i
          /\ Relief(j, k) <=> \/ b * r > c * q \/ (b * r = c * q /\ q < r)
                              \/ b * r = c * q /\ q = r /\ j < k
          /\ Relief(i, k) <=> \/ a * r > c * p \/ (a * r = c * p /\ p < r)
                              \/ a * r = c * p /\ p = r /\ i < k
      BY <3>1
    <3> HIDE DEF Relief, a, b, c, p, q, r
    <3>3. a * q \in Int /\ b * p \in Int /\ b * r \in Int /\ c * q \in Int /\ a * r \in Int /\ c * p \in Int
      BY <3>1
    <3>4. /\ a * q > b * p /\ b * r >= c * q => a * r > c * p
          /\ a * q >= b * p /\ b * r > c * q => a * r > c * p
          /\ a * q = b * p /\ b * r = c * q => a * r = c * p
      BY <3>1, FractionsOrdered, SMTT(30)
    <3>5. ~ Relief(i, i) /\ (i # j => Relief(i, j) \/ Relief(j, i))
      BY <3>1, <3>2, <3>3
    <3>6. ASSUME Relief(i, j), Relief(j, k) PROVE Relief(i, k)
      <4>1. CASE a * q > b * p
        BY <3>2, <3>3, <3>4, <3>6, <4>1
      <4>2. CASE b * r > c * q
        BY <3>2, <3>3, <3>4, <3>6, <4>2
      <4>3. CASE ~(a * q > b * p) /\ ~(b * r > c * q)
        <5>1. a * r = c * p
          BY <3>2, <3>4, <3>6, <4>3
        <5>2. p < q \/ (p = q /\ i < j)
          BY <3>2, <3>6, <4>3
        <5>3. q < r \/ (q = r /\ j < k)
          BY <3>2, <3>6, <4>3
        <5>4. p < r \/ (p = r /\ i < k)
          BY <3>1, <5>2, <5>3
        <5>5. QED
          BY <3>2, <5>1, <5>4
      <4>4. QED
        BY <4>1, <4>2, <4>3
    <3>7. QED
      BY <3>5, <3>6
  <2> HIDE DEF Relief
  <2>3. QED
    BY <2>1, <2>2 DEF IsOrderOf
<1>9. QED
  BY <1>4, <1>5, <1>6, <1>7, <1>8

Enumerates(q, S) ==
    /\ Cardinality(S) \in Nat /\ q \in [1..Cardinality(S) -> S]
    /\ \A x \in S : \E k \in 1..Cardinality(S) : q[k] = x

LEMMA InOrderEnumerates ==
  ASSUME NEW n \in Nat, NEW pl, pl.debts \in [1..n -> DebtOf], NEW owing \in [1..n -> Nat],
         NEW strategy, NEW S \in SUBSET (1..n),
         strategy = "cash_flow_relief" => \A i \in S : owing[i] > 0
  PROVE Enumerates(InOrderOf(strategy, pl, owing, S), S)
<1> DEFINE ahead == [x \in S |-> {y \in S : Before(strategy, pl, owing, y, x)}]
           q == InOrderOf(strategy, pl, owing, S)
<1>1. IsFiniteSet(S)
  BY AscendingLists
<1>2. Ranking(S, ahead)
  <2>1. \A i, j, k \in S :
          /\ ~ Before(strategy, pl, owing, i, i)
          /\ i # j => Before(strategy, pl, owing, i, j) \/ Before(strategy, pl, owing, j, i)
          /\ Before(strategy, pl, owing, i, j) /\ Before(strategy, pl, owing, j, k)
               => Before(strategy, pl, owing, i, k)
    BY BeforeIsAnOrder, ZenonT(40) DEF IsOrderOf
  <2>2. QED
    BY <2>1 DEF Ranking
<1>3. Ranked(q, S, ahead)
  <2>1. q = [k \in 1..Cardinality(S) |->
                CHOOSE x \in S : Cardinality({y \in S : Before(strategy, pl, owing, y, x)}) = k - 1]
    BY DEF InOrderOf, Ordered
  <2>2. \A x \in S : ahead[x] = {y \in S : Before(strategy, pl, owing, y, x)}
    OBVIOUS
  <2> HIDE DEF ahead, q
  <2>3. ASSUME NEW k \in 1..Cardinality(S), NEW x \in S, Cardinality(ahead[x]) = k - 1
        PROVE q[k] \in S /\ Cardinality(ahead[q[k]]) = k - 1
    <3>1. \E y \in S : Cardinality({w \in S : Before(strategy, pl, owing, w, y)}) = k - 1
      BY <2>2, <2>3
    <3> DEFINE z == q[k]
    <3>2. z = CHOOSE y \in S : Cardinality({w \in S : Before(strategy, pl, owing, w, y)}) = k - 1
      BY <2>1
    <3>3. z \in S /\ Cardinality({w \in S : Before(strategy, pl, owing, w, z)}) = k - 1
      BY <3>1, <3>2
    <3> HIDE DEF z
    <3>4. z \in S /\ Cardinality(ahead[z]) = k - 1
      BY <3>3, <2>2
    <3>5. QED
      BY <3>4 DEF z
  <2>4. q = [k \in 1..Cardinality(S) |-> q[k]]
    <3> DEFINE Place(k) == CHOOSE x \in S :
                 Cardinality({y \in S : Before(strategy, pl, owing, y, x)}) = k - 1
    <3>1. q = [k \in 1..Cardinality(S) |-> Place(k)]
      BY <2>1
    <3> HIDE DEF Place
    <3>2. QED
      BY <3>1
  <2>5. QED
    BY <2>3, <2>4 DEF Ranked
<1> HIDE DEF ahead, q
<1>4. Lists(q, S, ahead)
  BY <1>1, <1>2, <1>3, OrderedLists
<1>5. QED
  BY <1>4 DEF Lists, Enumerates, q

LEMMA LiveOnes ==
  ASSUME NEW n \in Nat, NEW m \in MonthsFor(n)
  PROVE /\ Live(m.owed) \in SUBSET (1..n)
        /\ \A i \in 1..n : i \in Live(m.owed) <=> m.owed[i] > 0
        /\ m.owed \in [1..n -> Nat]
BY DEF Live, MonthsFor

LEMMA EnumerationsCover ==
  ASSUME NEW n \in Nat, NEW m \in MonthsFor(n), NEW q, Enumerates(q, Live(m.owed))
  PROVE Covers(n, m, Cardinality(Live(m.owed)), q)
<1>1. /\ Live(m.owed) \in SUBSET (1..n)
      /\ \A i \in 1..n : i \in Live(m.owed) <=> m.owed[i] > 0
  BY LiveOnes
<1>2. QED
  BY <1>1 DEF Enumerates, Covers

LEMMA ListsAreSequences ==
  ASSUME NEW X, NEW a \in Nat, NEW f \in [1..a -> X]
  PROVE f \in Seq(X) /\ Len(f) = a
OBVIOUS

Joins(h, f, g, a, b, X) ==
    /\ h \in [1..(a + b) -> X]
    /\ \A k \in 1..a : h[k] = f[k]
    /\ \A k \in 1..b : h[a + k] = g[k]

LEMMA OneAfterAnother ==
  ASSUME NEW X, NEW a \in Nat, NEW b \in Nat, NEW f \in [1..a -> X], NEW g \in [1..b -> X]
  PROVE Joins(f \o g, f, g, a, b, X)
<1>1. f \in Seq(X) /\ Len(f) = a /\ g \in Seq(X) /\ Len(g) = b
  BY ListsAreSequences
<1>2. f \o g \in Seq(X) /\ Len(f \o g) = a + b
  BY <1>1
<1>3. \A k \in 1..(a + b) : (f \o g)[k] = IF k <= a THEN f[k] ELSE g[k - a]
  BY <1>1
<1>4. f \o g \in [1..(a + b) -> X]
  <2> DEFINE h == f \o g
  <2>1. h \in Seq(X) /\ Len(h) = a + b
    BY <1>2
  <2> HIDE DEF h
  <2>2. h \in [1..(a + b) -> X]
    BY <2>1
  <2>3. QED
    BY <2>2 DEF h
<1>5. \A k \in 1..a : (f \o g)[k] = f[k]
  BY <1>3
<1>6. ASSUME NEW k \in 1..b PROVE (f \o g)[a + k] = g[k]
  <2>1. a + k \in 1..(a + b) /\ ~(a + k <= a) /\ (a + k) - a = k
    OBVIOUS
  <2>2. QED
    BY <1>3, <2>1
<1>7. QED
  BY <1>4, <1>5, <1>6 DEF Joins

(* The debts that a custom order names come first, then the others.        *)
LEMMA CustomOrderCovers ==
  ASSUME NEW n, NEW pl, PlanOf(pl, n), NEW m \in MonthsFor(n)
  PROVE \E c : Covers(n, m, c, CustomOrder(pl, m))
<1> DEFINE live == Live(m.owed)
           places == {i \in DOMAIN pl.custom : m.owed[pl.custom[i]] > 0}
           kept == Ascending(places)
           named == [k \in DOMAIN kept |-> pl.custom[kept[k]]]
           rest == live \ ToSet(named)
           others == InOrderOf("highest_rate", pl, Opening(pl), rest)
           a == Cardinality(places)
           b == Cardinality(rest)
           c == a + b
           q == CustomOrder(pl, m)
<1>1. /\ n \in Nat /\ pl.debts \in [1..n -> DebtOf] /\ pl.custom \in Seq(1..n)
      /\ live \in SUBSET (1..n) /\ \A i \in 1..n : i \in live <=> m.owed[i] > 0
  BY LiveOnes DEF PlanOf
<1>2. q = named \o others
  BY DEF CustomOrder, Where
<1>3. /\ Len(pl.custom) \in Nat /\ DOMAIN pl.custom = 1..Len(pl.custom)
      /\ places \in SUBSET (1..Len(pl.custom)) /\ \A i \in places : pl.custom[i] \in 1..n
  BY <1>1
<1>4. a \in Nat /\ kept \in [1..a -> places]
  <2> HIDE DEF places, kept, a
  <2>1. Lists(kept, places, [x \in places |-> {y \in places : y < x}])
    BY <1>3, AscendingLists DEF kept
  <2>2. QED
    BY <2>1 DEF Lists, a
<1> HIDE DEF places, kept, a
<1>5. named \in [1..a -> 1..n] /\ DOMAIN named = 1..a
  <2>1. DOMAIN kept = 1..a
    BY <1>4
  <2>2. ASSUME NEW k \in 1..a PROVE pl.custom[kept[k]] \in 1..n
    BY <1>3, <1>4
  <2>3. named = [k \in 1..a |-> pl.custom[kept[k]]]
    BY <2>1
  <2> HIDE DEF named
  <2>4. QED
    BY <2>2, <2>3
<1> HIDE DEF named
<1>6. ToSet(named) = {named[k] : k \in 1..a}
  BY <1>5 DEF ToSet, Range
<1>7. rest \in SUBSET (1..n) /\ \A i \in live : i \in rest \/ \E k \in 1..a : named[k] = i
  BY <1>1, <1>6
<1> HIDE DEF rest, live
<1>8. Opening(pl) \in [1..n -> Nat]
  BY <1>1 DEF Opening, DebtOf
<1>9. Enumerates(others, rest)
  <2> DEFINE opening == Opening(pl)
             strategy == "highest_rate"
  <2>1. strategy = "cash_flow_relief" => \A i \in rest : opening[i] > 0
    OBVIOUS
  <2> HIDE DEF opening, strategy
  <2>2. Enumerates(InOrderOf(strategy, pl, opening, rest), rest)
    BY <1>1, <1>7, <1>8, <2>1, InOrderEnumerates DEF opening
  <2>3. QED
    BY <2>2 DEF opening, strategy
<1> HIDE DEF others
<1>10. b \in Nat /\ others \in [1..b -> 1..n] /\ \A i \in rest : \E k \in 1..b : others[k] = i
  BY <1>7, <1>9 DEF Enumerates
<1> HIDE DEF b
<1>11. Joins(named \o others, named, others, a, b, 1..n)
  BY <1>4, <1>5, <1>10, OneAfterAnother
<1>12. /\ q \in [1..(a + b) -> 1..n]
       /\ \A k \in 1..a : q[k] = named[k]
       /\ \A k \in 1..b : q[a + k] = others[k]
  BY <1>2, <1>11 DEF Joins
<1> HIDE DEF q
<1>13. \A k \in 1..a : q[k] = named[k]
  BY <1>12
<1>14. c \in Nat /\ q \in [1..c -> 1..n]
  BY <1>4, <1>10, <1>12
<1>15. ASSUME NEW i \in 1..n, m.owed[i] > 0 PROVE \E k \in 1..c : q[k] = i
  <2>1. i \in rest \/ \E k \in 1..a : named[k] = i
    BY <1>1, <1>7, <1>15
  <2>2. CASE \E k \in 1..a : named[k] = i
    BY <1>4, <1>10, <1>13, <2>2, SMTT(30)
  <2>3. CASE i \in rest
    <3>1. PICK k \in 1..b : others[k] = i
      BY <1>10, <2>3
    <3>2. a + k \in 1..c /\ q[a + k] = i
      BY <1>4, <1>10, <1>12, <3>1
    <3>3. QED
      BY <3>2
  <2>4. QED
    BY <2>1, <2>2, <2>3
<1>16. Covers(n, m, c, q)
  BY <1>14, <1>15 DEF Covers
<1>17. QED
  BY <1>16 DEF q

(***************************************************************************)
(* Shares of an amount that is not negative are not negative.              *)
(***************************************************************************)
LEMMA Quotient ==
  ASSUME NEW x \in Nat, NEW d \in Nat, d > 0
  PROVE x \div d \in Nat
OBVIOUS

LEMMA Product ==
  ASSUME NEW x \in Nat, NEW y \in Nat
  PROVE x * y \in Nat /\ (x > 0 /\ y > 0 => x * y > 0)
OBVIOUS

LEMMA RoundingType ==
  ASSUME NEW x \in Nat, NEW d \in Nat, d > 0
  PROVE RoundHalfUp(x, d) \in Nat /\ RoundDown(x, d) \in Nat
<1>1. (2 * x + d) \div (2 * d) \in Nat
  <2>1. 2 * x + d \in Nat /\ 2 * d \in Nat /\ 2 * d > 0
    OBVIOUS
  <2>2. QED
    BY <2>1, Quotient
<1>2. x \div d \in Nat
  BY Quotient
<1>3. QED
  BY <1>1, <1>2 DEF RoundHalfUp, RoundDown

LEMMA SharesAreAmounts ==
  ASSUME NEW c \in Nat, NEW weights \in [1..c -> Nat], NEW x \in Nat, NEW d \in Nat, d > 0
  PROVE Allocate(x, d, weights) \in [1..c -> Nat]
<1> DEFINE whole == SumOf(weights)
           floored == [i \in DOMAIN weights |-> RoundDown(x * weights[i], d * whole)]
           left == RoundHalfUp(x, d) - SumOf(floored)
           Fraction(i) == x * weights[i] - floored[i] * d * whole
           Rank(i) == Cardinality({j \in DOMAIN weights :
                                     \/ Fraction(j) > Fraction(i)
                                     \/ Fraction(j) = Fraction(i) /\ j < i})
           places == Len(weights)
           Extra(i) == IF left > Rank(i) THEN 1 + (left - Rank(i) - 1) \div places ELSE 0
<1>1. DOMAIN weights = 1..c /\ places = c
  BY ListsAreSequences
<1>2. whole \in Nat
  <2> DEFINE none == [i \in 1..c |-> 0]
  <2>1. /\ none \in [1..c -> Int] /\ weights \in [1..c -> Int]
        /\ \A i \in 1..c : none[i] <= weights[i] /\ none[i] = 0
    OBVIOUS
  <2> HIDE DEF none
  <2>2. SumOf(none) = 0 /\ SumOf(none) <= SumOf(weights) /\ SumOf(weights) \in Int
    BY <2>1, SumOfNone, SumMonotone, SumType
  <2>3. QED
    BY <2>2
<1>3. \A i \in DOMAIN weights : Rank(i) \in Nat
  <2>1. ASSUME NEW i \in DOMAIN weights PROVE Rank(i) \in Nat
    <3> DEFINE A == {j \in DOMAIN weights : \/ Fraction(j) > Fraction(i)
                                            \/ Fraction(j) = Fraction(i) /\ j < i}
    <3>1. A \subseteq 1..c
      BY <1>1
    <3> HIDE DEF A
    <3>2. IsFiniteSet(1..c)
      BY 1 \in Int, c \in Int, FS_Interval
    <3>3. Cardinality(A) \in Nat
      BY <3>1, <3>2, FS_Subset, FS_CardinalityType
    <3>4. QED
      BY <3>3 DEF A
  <2>2. QED
    BY <2>1
<1>4. Allocate(x, d, weights) = IF whole = 0 THEN [i \in DOMAIN weights |-> 0]
                                ELSE [i \in DOMAIN weights |-> floored[i] + Extra(i)]
  BY DEF Allocate
<1> HIDE DEF whole
<1>5. CASE whole = 0
  BY <1>1, <1>4, <1>5
<1>6. CASE whole # 0
  <2>1. ASSUME NEW i \in 1..c PROVE floored[i] \in Nat
    <3>1. x * weights[i] \in Nat /\ d * whole \in Nat /\ d * whole > 0
      BY <1>2, <1>6, Product
    <3>2. QED
      BY <1>1, <3>1, RoundingType
  <2>2. floored \in [1..c -> Int]
    BY <1>1, <2>1
  <2> HIDE DEF floored, Rank
  <2>3. left \in Int
    <3>1. SumOf(floored) \in Int
      BY <2>2, SumType
    <3>2. RoundHalfUp(x, d) \in Int
      BY RoundingType
    <3>3. QED
      BY <3>1, <3>2
  <2> HIDE DEF left, places
  <2>4. ASSUME NEW i \in 1..c PROVE Extra(i) \in Nat
    <3>1. Rank(i) \in Nat
      BY <1>1, <1>3
    <3>2. CASE left > Rank(i)
      <4>1. left - Rank(i) - 1 \in Nat /\ places \in Nat /\ places > 0
        BY <1>1, <2>3, <3>1, <3>2
      <4>2. (left - Rank(i) - 1) \div places \in Nat
        BY <4>1, Quotient
      <4>3. QED
        BY <3>2, <4>2
    <3>3. CASE ~(left > Rank(i))
      BY <3>3
    <3>4. QED
      BY <3>2, <3>3
  <2> HIDE DEF Extra
  <2>5. [i \in DOMAIN weights |-> floored[i] + Extra(i)] \in [1..c -> Nat]
    BY <1>1, <2>1, <2>4
  <2>6. QED
    BY <1>4, <1>6, <2>5
<1>7. QED
  BY <1>5, <1>6

(* The extra payments spend the budget or pay everything, except for a     *)
(* plan that keeps its liquidity.                                          *)
LEMMA SharesSpend ==
  ASSUME NEW n, NEW pl, PlanOf(pl, n), NEW m \in MonthsFor(n)
  PROVE Settles(n, m, PayShares(pl, m)) /\ Spent(n, PayShares(pl, m))
<1> DEFINE live == Live(m.owed)
           c == Cardinality(live)
           targets == Ascending(live)
           weights == [k \in DOMAIN targets |-> 1]
           shares == Allocate(m.budget, 1, weights)
           shared == PayAll(m, targets, shares)
           order == InOrderOf("balance_only", pl, shared.owed, live)
<1>1. n \in Nat /\ pl.debts \in [1..n -> DebtOf] /\ m.budget \in Nat
  BY DEF PlanOf, MonthsFor
<1>2. PayShares(pl, m) = PayInOrder(shared, order)
  BY DEF PayShares
<1>3. live \in SUBSET (1..n) /\ \A i \in 1..n : i \in live <=> m.owed[i] > 0
  BY <1>1, LiveOnes
<1>4. c \in Nat /\ targets \in [1..c -> 1..n]
  <2> HIDE DEF live, c, targets
  <2>1. Lists(targets, live, [x \in live |-> {y \in live : y < x}])
    BY <1>1, <1>3, AscendingLists DEF targets
  <2>2. QED
    BY <1>3, <2>1 DEF Lists, c
<1> HIDE DEF live, c, targets
<1>5. weights \in [1..c -> Nat]
  BY <1>4
<1> HIDE DEF weights
<1>6. shares \in [1..c -> Nat]
  <2> DEFINE x == m.budget
             d == 1
  <2>1. x \in Nat /\ d \in Nat /\ d > 0
    BY <1>1
  <2> HIDE DEF x, d
  <2>2. Allocate(x, d, weights) \in [1..c -> Nat]
    BY <1>4, <1>5, <2>1, SharesAreAmounts
  <2>3. QED
    BY <2>2 DEF x, d
<1> HIDE DEF shares
<1>7. Settles(n, m, shared)
  BY <1>1, <1>4, <1>6, PayAllSettles
<1> HIDE DEF shared
<1>8. shared \in MonthsFor(n) /\ shared.owed \in [1..n -> Nat]
      /\ \A i \in 1..n : shared.owed[i] > 0 => i \in live
  <2>1. shared \in MonthsFor(n) /\ shared.owed \in [1..n -> Nat]
    BY <1>7 DEF Settles, MonthsFor
  <2>2. ASSUME NEW i \in 1..n, shared.owed[i] > 0 PROVE i \in live
    <3>1. shared.owed[i] <= m.owed[i] /\ m.owed[i] \in Nat /\ shared.owed[i] \in Nat
      BY <1>7, <2>1 DEF Settles, MonthsFor
    <3>2. QED
      BY <1>3, <2>2, <3>1
  <2>3. QED
    BY <2>1, <2>2
<1>9. Covers(n, shared, c, order)
  <2> DEFINE owing == shared.owed
             strategy == "balance_only"
  <2>1. owing \in [1..n -> Nat] /\ strategy # "cash_flow_relief"
    BY <1>8
  <2> HIDE DEF owing, strategy
  <2>2. Enumerates(InOrderOf(strategy, pl, owing, live), live)
    BY <1>1, <1>3, <2>1, InOrderEnumerates
  <2>3. Enumerates(order, live)
    BY <2>2 DEF owing, strategy
  <2> HIDE DEF order
  <2>4. QED
    BY <1>3, <1>8, <2>3 DEF Enumerates, Covers, c
<1> HIDE DEF order
<1>10. Settles(n, shared, PayInOrder(shared, order)) /\ Spent(n, PayInOrder(shared, order))
  BY <1>1, <1>8, <1>9, PayInOrderSpends
<1>11. QED
  BY <1>1, <1>2, <1>7, <1>10, SettlesOn

LEMMA ExtraSettles ==
  ASSUME NEW n, NEW pl, PlanOf(pl, n), NEW m \in MonthsFor(n)
  PROVE /\ Settles(n, m, PayExtra(pl, m))
        /\ pl.strategy # "preserve_liquidity" => Spent(n, PayExtra(pl, m))
<1>1. n \in Nat /\ pl.debts \in [1..n -> DebtOf]
  BY DEF PlanOf
<1>2. m.owed \in [1..n -> Nat] /\ \A i \in 1..n : i \in Live(m.owed) <=> m.owed[i] > 0
  BY <1>1, LiveOnes
<1>3. CASE pl.strategy = "preserve_liquidity"
  <2>1. PayExtra(pl, m) = m
    BY <1>3 DEF PayExtra
  <2>2. QED
    BY <1>1, <1>3, <2>1, SettlesNothing
<1>4. CASE pl.strategy = "equal_shares"
  <2>1. CASE Live(m.owed) = {}
    <3>1. PayExtra(pl, m) = m
      BY <1>4, <2>1 DEF PayExtra
    <3>2. Spent(n, m)
      <4>1. ASSUME NEW i \in 1..n PROVE m.owed[i] = 0
        <5>1. m.owed[i] \in Nat /\ ~(m.owed[i] > 0)
          BY <1>2, <2>1
        <5>2. QED
          BY <5>1
      <4>2. QED
        BY <4>1 DEF Spent
    <3>3. QED
      BY <1>1, <3>1, <3>2, SettlesNothing
  <2>2. CASE Live(m.owed) # {}
    <3>1. PayExtra(pl, m) = PayShares(pl, m)
      BY <1>4, <2>2 DEF PayExtra
    <3>2. QED
      BY <3>1, SharesSpend
  <2>3. QED
    BY <2>1, <2>2
<1>5. CASE pl.strategy = "custom" /\ pl.custom # <<>>
  <2>1. PayExtra(pl, m) = PayInOrder(m, CustomOrder(pl, m))
    BY <1>5 DEF PayExtra
  <2>2. PICK c : Covers(n, m, c, CustomOrder(pl, m))
    BY CustomOrderCovers
  <2>3. QED
    BY <1>1, <2>1, <2>2, PayInOrderSpends
<1>6. CASE /\ pl.strategy # "preserve_liquidity" /\ pl.strategy # "equal_shares"
           /\ ~(pl.strategy = "custom" /\ pl.custom # <<>>)
  <2> DEFINE live == Live(m.owed)
             strategy == pl.strategy
             owing == m.owed
             order == InOrderOf(strategy, pl, owing, live)
  <2>1. PayExtra(pl, m) = PayInOrder(m, order)
    BY <1>6 DEF PayExtra
  <2>2. /\ live \in SUBSET (1..n) /\ owing \in [1..n -> Nat]
        /\ \A i \in live : owing[i] > 0
    BY <1>1, <1>2, LiveOnes
  <2> HIDE DEF owing, strategy
  <2>3. Enumerates(order, live)
    <3> HIDE DEF live
    <3>1. QED BY <1>1, <2>2, InOrderEnumerates
  <2> HIDE DEF order
  <2>4. Covers(n, m, Cardinality(live), order)
    BY <1>1, <2>3, EnumerationsCover
  <2>5. QED
    BY <1>1, <2>1, <2>4, PayInOrderSpends
<1>7. QED
  BY <1>3, <1>4, <1>5, <1>6

(***************************************************************************)
(* One month of a plan.                                                    *)
(***************************************************************************)
OpenedFor(pl, balances) ==
    [owed |-> Accrued(pl, balances), paid |-> [i \in DOMAIN balances |-> 0], budget |-> pl.budget]

LEMMA InterestFacts ==
  ASSUME NEW n, NEW pl, PlanOf(pl, n), NEW balances \in [1..n -> Nat]
  PROVE /\ Accrued(pl, balances) \in [1..n -> Nat]
        /\ \A i \in 1..n : /\ Accrued(pl, balances)[i] >= balances[i]
                           /\ balances[i] = 0 => Accrued(pl, balances)[i] = 0
<1>1. ASSUME NEW i \in 1..n
      PROVE /\ MonthlyInterest(pl.debts[i], balances[i]) \in Nat
            /\ balances[i] = 0 => MonthlyInterest(pl.debts[i], balances[i]) = 0
  <2> DEFINE b == balances[i]
             r == pl.debts[i].apr
             x == b * r
  <2>1. b \in Nat /\ r \in Nat
    BY DEF PlanOf, DebtOf
  <2>2. MonthlyInterest(pl.debts[i], b) = 0 \/ MonthlyInterest(pl.debts[i], b) = RoundHalfUp(x, 1200)
    BY DEF MonthlyInterest
  <2> HIDE DEF b, r
  <2>3. x \in Nat /\ (b = 0 => x = 0)
    BY <2>1
  <2> HIDE DEF x
  <2>4. RoundHalfUp(x, 1200) \in Nat
    <3> DEFINE d == 1200
    <3>1. d \in Nat /\ d > 0
      OBVIOUS
    <3> HIDE DEF d
    <3>2. RoundHalfUp(x, d) \in Nat
      BY <2>3, <3>1, RoundingType
    <3>3. QED
      BY <3>2 DEF d
  <2>5. x = 0 => RoundHalfUp(x, 1200) = 0
    BY DEF RoundHalfUp
  <2>6. QED
    BY <2>2, <2>3, <2>4, <2>5 DEF b
<1>2. \A i \in 1..n : Accrued(pl, balances)[i] = balances[i] + MonthlyInterest(pl.debts[i], balances[i])
  BY DEF Accrued
<1>3. ASSUME NEW i \in 1..n
      PROVE /\ Accrued(pl, balances)[i] \in Nat
            /\ Accrued(pl, balances)[i] >= balances[i]
            /\ balances[i] = 0 => Accrued(pl, balances)[i] = 0
  <2>1. balances[i] \in Nat
    OBVIOUS
  <2>2. QED
    BY <1>1, <1>2, <2>1
<1>4. Accrued(pl, balances) = [i \in 1..n |-> Accrued(pl, balances)[i]]
  BY <1>2 DEF Accrued
<1>5. QED
  BY <1>3, <1>4

LEMMA MonthFacts ==
  ASSUME NEW n, NEW pl, PlanOf(pl, n), NEW balances \in [1..n -> Nat]
  PROVE LET opened == OpenedFor(pl, balances)
            closed == MonthOf(pl, balances)
        IN  /\ opened \in MonthsFor(n) /\ Settles(n, opened, closed)
            /\ pl.strategy # "preserve_liquidity" => Spent(n, closed)
            /\ SumOf(Due(pl, n, opened)) <= pl.budget =>
                  \A i \in 1..n : closed.paid[i] >= Due(pl, n, opened)[i]
<1> DEFINE opened == OpenedFor(pl, balances)
           first == PayMinimums(pl, opened)
           second == PayReserved(pl, first)
           closed == PayExtra(pl, second)
<1>1. n \in Nat /\ pl.budget \in Nat /\ pl.reserved \in Nat /\ pl.reservedFor \in 1..n
      /\ pl.debts \in [1..n -> DebtOf]
  BY DEF PlanOf
<1>2. MonthOf(pl, balances) = closed
  BY DEF MonthOf, OpenedFor
<1>3. opened \in MonthsFor(n) /\ opened.budget = pl.budget /\ \A i \in 1..n : opened.paid[i] = 0
  <2>1. Accrued(pl, balances) \in [1..n -> Nat] /\ DOMAIN balances = 1..n
    BY InterestFacts
  <2>2. [i \in DOMAIN balances |-> 0] \in [1..n -> Nat]
    BY <2>1
  <2>3. QED
    BY <1>1, <2>1, <2>2 DEF OpenedFor, MonthsFor
<1> HIDE DEF opened
<1>4. Settles(n, opened, first)
  <2> DEFINE live == Live(opened.owed)
             order == Ascending(live)
             c == Cardinality(live)
             amounts == [k \in DOMAIN order |-> pl.debts[order[k]].minimum]
  <2>1. live \in SUBSET (1..n) /\ first = PayAll(opened, order, amounts)
    BY <1>1, <1>3, LiveOnes DEF PayMinimums
  <2>2. c \in Nat /\ order \in [1..c -> 1..n]
    <3> HIDE DEF live, c, order
    <3>1. Lists(order, live, [x \in live |-> {y \in live : y < x}])
      BY <1>1, <2>1, AscendingLists DEF order
    <3>2. QED
      BY <2>1, <3>1 DEF Lists, c
  <2> HIDE DEF live, c, order
  <2>3. amounts \in [1..c -> Nat]
    BY <1>1, <2>2 DEF DebtOf
  <2> HIDE DEF amounts, first
  <2>4. QED
    BY <1>1, <1>3, <2>1, <2>2, <2>3, PayAllSettles
<1>5. first \in MonthsFor(n)
  BY <1>4 DEF Settles
<1>6. Settles(n, first, second)
  <2> HIDE DEF first
  <2>1. CASE second = first
    BY <1>1, <1>5, <2>1, SettlesNothing
  <2>2. CASE second = Pay(first, pl.reservedFor, pl.reserved)
    <3>1. Pays(n, first, pl.reservedFor, pl.reserved, second)
      BY <1>1, <1>5, <2>2, PayFacts
    <3>2. QED
      BY <3>1 DEF Pays
  <2>3. QED
    BY <2>1, <2>2 DEF PayReserved
<1>7. second \in MonthsFor(n)
  BY <1>6 DEF Settles
<1>8. Settles(n, second, closed) /\ (pl.strategy # "preserve_liquidity" => Spent(n, closed))
  <2> HIDE DEF second
  <2>1. QED BY <1>7, ExtraSettles
<1>9. ASSUME SumOf(Due(pl, n, opened)) <= pl.budget, NEW i \in 1..n
      PROVE closed.paid[i] >= Due(pl, n, opened)[i]
  <2>1. first.paid[i] >= Due(pl, n, opened)[i]
    <3> HIDE DEF first
    <3>1. \A j \in 1..n : PayMinimums(pl, opened).paid[j] >= Due(pl, n, opened)[j]
      BY <1>3, <1>9, MinimumsArePaid
    <3>2. QED
      BY <3>1 DEF first
  <2> HIDE DEF first, second, closed
  <2>2. Due(pl, n, opened)[i] \in Int
    <3>1. opened.owed[i] \in Nat /\ pl.debts[i].minimum \in Nat
      BY <1>1, <1>3 DEF MonthsFor, DebtOf
    <3>2. QED
      BY <3>1 DEF Due, Smaller
  <2>3. Settles(n, first, closed)
    BY <1>1, <1>5, <1>6, <1>8, SettlesOn
  <2>4. closed.paid[i] >= first.paid[i] /\ closed.paid[i] \in Nat /\ first.paid[i] \in Nat
    <3>1. closed.owed[i] + closed.paid[i] = first.owed[i] + first.paid[i] /\ closed.owed[i] <= first.owed[i]
      BY <2>3 DEF Settles
    <3>2. /\ closed.owed[i] \in Nat /\ closed.paid[i] \in Nat
          /\ first.owed[i] \in Nat /\ first.paid[i] \in Nat
      BY <1>5, <2>3 DEF Settles, MonthsFor
    <3>3. QED
      BY <3>1, <3>2
  <2>5. QED
    BY <2>1, <2>2, <2>4
<1> HIDE DEF first, second, closed
<1>10. Settles(n, opened, closed)
  <2>1. Settles(n, opened, second)
    BY <1>1, <1>3, <1>4, <1>6, SettlesOn
  <2>2. QED
    BY <1>1, <1>3, <1>8, <2>1, SettlesOn
<1>11. QED
  BY <1>2, <1>3, <1>8, <1>9, <1>10 DEF opened

(***************************************************************************)
(* The payoffs: one for every debt that is paid, in the order of the       *)
(* months, of a plan of n debts after t months.                            *)
(***************************************************************************)
PayoffsFor(n) == [debt : 1..n, month : Int]
Recorded(list, p, n, opening, balances, t) ==
    /\ p \in Nat /\ list \in [1..p -> PayoffsFor(n)]
    /\ \A k \in 1..p : list[k].month <= t
    /\ \A j, k \in 1..p : j < k => /\ list[j].debt # list[k].debt
                                   /\ list[j].month <= list[k].month
    /\ \A i \in 1..n : (balances[i] = 0 /\ opening[i] > 0) <=> \E k \in 1..p : list[k].debt = i

LEMMA PayoffsGrow ==
  ASSUME NEW n \in Nat, NEW p, NEW list, NEW t \in Int, NEW opening \in [1..n -> Nat],
         NEW balances \in [1..n -> Nat], NEW closing \in [1..n -> Nat],
         Recorded(list, p, n, opening, balances, t),
         \A i \in 1..n : /\ balances[i] = 0 => closing[i] = 0
                         /\ opening[i] = 0 => balances[i] = 0,
         NEW S, S = {i \in Live(balances) : closing[i] <= 0}
  PROVE LET q == Ascending(S)
            new == [k \in DOMAIN q |-> [debt |-> q[k], month |-> t + 1]]
        IN  Recorded(list \o new, p + Cardinality(S), n, opening, closing, t + 1)
<1> DEFINE q == Ascending(S)
           c == Cardinality(S)
           new == [k \in DOMAIN q |-> [debt |-> q[k], month |-> t + 1]]
           all == list \o new
<1>1. /\ S \in SUBSET (1..n)
      /\ \A i \in 1..n : i \in S <=> balances[i] > 0 /\ closing[i] = 0
  <2>1. \A i \in 1..n : balances[i] \in Nat /\ closing[i] \in Nat
    OBVIOUS
  <2>2. Live(balances) = {i \in 1..n : balances[i] > 0}
    BY DEF Live
  <2>3. QED
    BY <2>1, <2>2
<1>2. Lists(q, S, [x \in S |-> {y \in S : y < x}])
  BY <1>1, AscendingLists
<1>3. /\ c \in Nat /\ q \in [1..c -> S] /\ \A i \in S : \E k \in 1..c : q[k] = i
      /\ \A j, k \in 1..c : q[j] = q[k] => j = k
  BY <1>2 DEF Lists
<1> HIDE DEF q, c
<1>4. /\ new \in [1..c -> PayoffsFor(n)]
      /\ \A k \in 1..c : new[k].debt = q[k] /\ new[k].month = t + 1
  BY <1>1, <1>3 DEF PayoffsFor
<1> HIDE DEF new
<1>5. p \in Nat /\ list \in [1..p -> PayoffsFor(n)]
  BY DEF Recorded
<1>6. Joins(all, list, new, p, c, PayoffsFor(n))
  BY <1>3, <1>4, <1>5, OneAfterAnother
<1> HIDE DEF all
<1>7. ASSUME NEW k \in 1..(p + c)
      PROVE \/ k \in 1..p /\ all[k] = list[k]
            \/ /\ k - p \in 1..c /\ ~(k \in 1..p)
               /\ all[k] = new[k - p]
  <2>1. CASE k <= p
    BY <1>5, <1>6, <2>1 DEF Joins
  <2>2. CASE ~(k <= p)
    <3>1. k - p \in 1..c /\ p + (k - p) = k /\ ~(k \in 1..p)
      BY <1>3, <1>5, <2>2
    <3>2. QED
      BY <1>6, <3>1 DEF Joins
  <2>3. QED
    BY <2>1, <2>2
<1>8. ASSUME NEW k \in 1..p
      PROVE /\ list[k].month \in Int /\ list[k].month <= t
            /\ list[k].debt \in 1..n /\ balances[list[k].debt] = 0
  <2>1. list[k].month \in Int /\ list[k].debt \in 1..n
    BY <1>5 DEF PayoffsFor
  <2>2. QED
    BY <2>1 DEF Recorded
<1>9. ASSUME NEW k \in 1..c
      PROVE new[k].month = t + 1 /\ new[k].debt \in 1..n /\ new[k].debt \in S
  <2>1. q[k] \in S
    BY <1>3
  <2>2. new[k].debt = q[k] /\ new[k].month = t + 1
    BY <1>4
  <2>3. QED
    BY <1>1, <2>1, <2>2
<1>10. ASSUME NEW k \in 1..(p + c) PROVE all[k].month <= t + 1
  BY <1>7, <1>8, <1>9
<1>11. ASSUME NEW j \in 1..(p + c), NEW k \in 1..(p + c), j < k
       PROVE all[j].debt # all[k].debt /\ all[j].month <= all[k].month
  <2>1. CASE k \in 1..p
    <3>1. j \in 1..p /\ all[j] = list[j] /\ all[k] = list[k]
      <4>1. j \in 1..p
        BY <1>5, <1>11, <2>1
      <4>2. all[j] = list[j]
        BY <1>7, <4>1
      <4>3. all[k] = list[k]
        BY <1>7, <2>1
      <4>4. QED
        BY <4>1, <4>2, <4>3
    <3>2. QED
      BY <1>11, <2>1, <3>1 DEF Recorded
  <2>2. CASE ~(k \in 1..p) /\ j \in 1..p
    <3>1. all[j] = list[j] /\ all[k] = new[k - p] /\ k - p \in 1..c
      BY <1>7, <2>2
    <3>2. balances[list[j].debt] = 0 /\ balances[new[k - p].debt] > 0
      BY <1>1, <1>8, <1>9, <2>2, <3>1
    <3>3. list[j].month <= t + 1 /\ new[k - p].month = t + 1
      BY <1>8, <1>9, <2>2, <3>1
    <3>4. all[j].debt # all[k].debt
      <4> DEFINE d == list[j].debt
                 e == new[k - p].debt
      <4>1. all[j].debt = d /\ all[k].debt = e
        BY <3>1
      <4>2. balances[d] = 0 /\ balances[e] > 0
        BY <3>2
      <4> HIDE DEF d, e, all
      <4>3. d # e
        BY <4>2
      <4>4. QED
        BY <4>1, <4>3
    <3>5. all[j].month <= all[k].month
      BY <3>1, <3>3
    <3>6. QED
      BY <3>4, <3>5
  <2>3. CASE ~(k \in 1..p) /\ ~(j \in 1..p)
    <3>1. /\ all[j] = new[j - p] /\ all[k] = new[k - p]
          /\ k - p \in 1..c /\ j - p \in 1..c /\ j - p # k - p
      BY <1>5, <1>7, <1>11, <2>3
    <3>2. q[j - p] # q[k - p]
      BY <1>3, <3>1
    <3>3. all[j].debt # all[k].debt
      BY <1>4, <3>1, <3>2
    <3>4. all[j].month = t + 1 /\ all[k].month = t + 1
      BY <1>4, <3>1
    <3>5. QED
      BY <3>3, <3>4
  <2>4. QED
    BY <2>1, <2>2, <2>3
<1>12. ASSUME NEW i \in 1..n
       PROVE (closing[i] = 0 /\ opening[i] > 0) <=> \E k \in 1..(p + c) : all[k].debt = i
  <2>1. balances[i] \in Nat /\ opening[i] \in Nat /\ closing[i] \in Nat
    OBVIOUS
  <2>2. ASSUME closing[i] = 0, opening[i] > 0 PROVE \E k \in 1..(p + c) : all[k].debt = i
    <3>1. CASE balances[i] = 0
      <4>1. PICK k \in 1..p : list[k].debt = i
        BY <2>2, <3>1 DEF Recorded
      <4>2. k \in 1..(p + c) /\ all[k] = list[k]
        BY <1>3, <1>5, <1>6 DEF Joins
      <4>3. QED
        BY <4>1, <4>2
    <3>2. CASE balances[i] # 0
      <4>1. i \in S
        BY <1>1, <2>1, <2>2, <3>2
      <4>2. PICK k \in 1..c : q[k] = i
        BY <1>3, <4>1
      <4>3. p + k \in 1..(p + c) /\ all[p + k] = new[k]
        BY <1>3, <1>5, <1>6 DEF Joins
      <4>4. QED
        BY <1>4, <4>2, <4>3
    <3>3. QED
      BY <3>1, <3>2
  <2>3. ASSUME NEW k \in 1..(p + c), all[k].debt = i PROVE closing[i] = 0 /\ opening[i] > 0
    <3>1. CASE k \in 1..p /\ all[k] = list[k]
      <4>1. balances[i] = 0 /\ opening[i] > 0
        BY <2>3, <3>1 DEF Recorded
      <4>2. QED
        BY <4>1
    <3>2. CASE k - p \in 1..c /\ all[k] = new[k - p]
      <4>1. i \in S
        BY <1>9, <2>3, <3>2
      <4>2. balances[i] > 0 /\ closing[i] = 0
        BY <1>1, <4>1
      <4>3. QED
        BY <2>1, <4>2
    <3>3. QED
      BY <1>7, <3>1, <3>2
  <2>4. QED
    BY <2>2, <2>3
<1>13. all \in [1..(p + c) -> PayoffsFor(n)] /\ p + c \in Nat
  BY <1>3, <1>5, <1>6 DEF Joins
<1>14. Recorded(all, p + c, n, opening, closing, t + 1)
  BY <1>10, <1>11, <1>12, <1>13 DEF Recorded
<1>15. QED
  BY <1>14 DEF all, new, c, q

(***************************************************************************)
(* What the rows of a month say.                                           *)
(***************************************************************************)
RowOf == [opening : Nat, interest : Nat, payment : Nat, closing : Nat]
RowsClose(pl, n, table, balances) ==
    LET charged == [i \in 1..n |-> table[i].opening + table[i].interest]
        paid == [i \in 1..n |-> table[i].payment]
        due == [i \in 1..n |-> Smaller(pl.debts[i].minimum, charged[i])]
    IN  /\ table \in [1..n -> RowOf]
        /\ \A i \in 1..n : /\ table[i].opening + table[i].interest
                                = table[i].payment + table[i].closing
                           /\ table[i].closing = balances[i]
        /\ SumOf(paid) <= pl.budget
        /\ pl.strategy # "preserve_liquidity" => SumOf(paid) = Smaller(pl.budget, SumOf(charged))
        /\ SumOf(due) <= pl.budget => \A i \in 1..n : paid[i] >= due[i]

LEMMA Conserved ==
  ASSUME NEW n, NEW pl, PlanOf(pl, n), NEW balances \in [1..n -> Nat]
  PROVE LET charge == Accrued(pl, balances)
            closed == MonthOf(pl, balances)
        IN  /\ closed.owed \in [1..n -> Nat] /\ closed.paid \in [1..n -> Nat] /\ closed.budget \in Nat
            /\ \A i \in 1..n : closed.owed[i] + closed.paid[i] = charge[i] /\ closed.owed[i] <= charge[i]
            /\ SumOf(charge) = SumOf(closed.owed) + SumOf(closed.paid)
            /\ SumOf(closed.paid) + closed.budget = pl.budget
            /\ SumOf(charge) \in Int /\ SumOf(closed.owed) \in Nat /\ SumOf(closed.paid) \in Int
<1> DEFINE charge == Accrued(pl, balances)
           closed == MonthOf(pl, balances)
           opened == OpenedFor(pl, balances)
           none == [i \in 1..n |-> 0]
           a == closed.owed
           b == closed.paid
<1>1. n \in Nat /\ pl.budget \in Nat /\ charge \in [1..n -> Nat]
  BY InterestFacts DEF PlanOf
<1>2. Settles(n, opened, closed)
  BY MonthFacts
<1>3. opened.owed = charge /\ opened.budget = pl.budget /\ opened.paid = none
  BY DEF OpenedFor
<1> HIDE DEF closed, opened, charge
<1>4. a \in [1..n -> Nat] /\ b \in [1..n -> Nat] /\ closed.budget \in Nat
  BY <1>2 DEF Settles, MonthsFor
<1>5. none \in [1..n -> Int] /\ \A i \in 1..n : none[i] = 0
  OBVIOUS
<1>6. \A i \in 1..n : a[i] + b[i] = charge[i] /\ a[i] <= charge[i]
  <2>1. ASSUME NEW i \in 1..n PROVE a[i] + b[i] = charge[i] /\ a[i] <= charge[i]
    <3>1. a[i] + b[i] = charge[i] + none[i] /\ a[i] <= charge[i]
      BY <1>2, <1>3 DEF Settles
    <3>2. QED
      BY <1>1, <1>5, <3>1
  <2>2. QED
    BY <2>1
<1>7. SumOf(b) + closed.budget = SumOf(none) + pl.budget
  BY <1>2, <1>3 DEF Settles
<1>8. a \in [1..n -> Int] /\ b \in [1..n -> Int] /\ charge \in [1..n -> Int]
      /\ \A i \in 1..n : none[i] <= a[i]
  BY <1>1, <1>4
<1> HIDE DEF a, b, none
<1>9. SumOf(none) = 0 /\ SumOf(none) <= SumOf(a) /\ SumOf(a) \in Int /\ SumOf(b) \in Int /\ SumOf(charge) \in Int
  BY <1>1, <1>5, <1>8, SumOfNone, SumMonotone, SumType
<1>10. SumOf(charge) = SumOf(a) + SumOf(b)
  BY <1>1, <1>6, <1>8, SumAdds
<1>11. SumOf(a) \in Nat
  BY <1>9
<1>12. SumOf(b) + closed.budget = pl.budget
  BY <1>1, <1>4, <1>7, <1>9
<1>13. QED
  BY <1>4, <1>6, <1>9, <1>10, <1>11, <1>12 DEF a, b, closed, charge

LEMMA MonthRows ==
  ASSUME NEW n, NEW pl, PlanOf(pl, n), NEW balances \in [1..n -> Nat]
  PROVE LET charge == Accrued(pl, balances)
            closed == MonthOf(pl, balances)
        IN  RowsClose(pl, n, [i \in DOMAIN balances |->
                                [opening |-> balances[i], interest |-> charge[i] - balances[i],
                                 payment |-> closed.paid[i], closing |-> closed.owed[i]]],
                      closed.owed)
<1> DEFINE charge == Accrued(pl, balances)
           closed == MonthOf(pl, balances)
           opened == OpenedFor(pl, balances)
           table == [i \in DOMAIN balances |->
                       [opening |-> balances[i], interest |-> charge[i] - balances[i],
                        payment |-> closed.paid[i], closing |-> closed.owed[i]]]
           charged == [i \in 1..n |-> table[i].opening + table[i].interest]
           paid == [i \in 1..n |-> table[i].payment]
           due == [i \in 1..n |-> Smaller(pl.debts[i].minimum, charged[i])]
<1>1. n \in Nat /\ pl.budget \in Nat /\ charge \in [1..n -> Nat]
      /\ \A i \in 1..n : charge[i] >= balances[i]
  BY InterestFacts DEF PlanOf
<1>2. /\ closed.owed \in [1..n -> Nat] /\ closed.paid \in [1..n -> Nat] /\ closed.budget \in Nat
      /\ \A i \in 1..n : closed.owed[i] + closed.paid[i] = charge[i]
  BY Conserved
<1>3. /\ SumOf(charge) = SumOf(closed.owed) + SumOf(closed.paid)
      /\ SumOf(closed.paid) + closed.budget = pl.budget
      /\ SumOf(charge) \in Int /\ SumOf(closed.owed) \in Nat /\ SumOf(closed.paid) \in Int
  BY Conserved
<1>4. pl.strategy # "preserve_liquidity" => Spent(n, closed)
  BY MonthFacts
<1>5. SumOf(Due(pl, n, opened)) <= pl.budget =>
        \A i \in 1..n : closed.paid[i] >= Due(pl, n, opened)[i]
  BY MonthFacts
<1>6. opened.owed = charge
  BY DEF OpenedFor
<1> HIDE DEF charge, closed, opened
<1>7. ASSUME NEW i \in 1..n
      PROVE /\ table[i] = [opening |-> balances[i], interest |-> charge[i] - balances[i],
                           payment |-> closed.paid[i], closing |-> closed.owed[i]]
            /\ table[i] \in RowOf
            /\ table[i].opening + table[i].interest = charge[i]
            /\ table[i].payment = closed.paid[i] /\ table[i].closing = closed.owed[i]
  <2>1. /\ balances[i] \in Nat /\ charge[i] \in Nat /\ charge[i] - balances[i] \in Nat
        /\ closed.paid[i] \in Nat /\ closed.owed[i] \in Nat
    <3>1. balances[i] \in Nat /\ charge[i] \in Nat /\ charge[i] >= balances[i]
      BY <1>1
    <3>2. closed.paid[i] \in Nat /\ closed.owed[i] \in Nat
      BY <1>2
    <3>3. QED
      BY <3>1, <3>2
  <2>2. table[i] = [opening |-> balances[i], interest |-> charge[i] - balances[i],
                    payment |-> closed.paid[i], closing |-> closed.owed[i]]
    OBVIOUS
  <2> HIDE DEF table
  <2>3. balances[i] + (charge[i] - balances[i]) = charge[i]
    BY <2>1
  <2>4. QED
    BY <2>1, <2>2, <2>3 DEF RowOf
<1>8. table = [i \in 1..n |-> table[i]]
  OBVIOUS
<1> HIDE DEF table
<1>9. table \in [1..n -> RowOf]
  BY <1>7, <1>8
<1>10. charged = charge
  BY <1>1, <1>7
<1>11. paid = closed.paid
  <2>1. \A i \in 1..n : table[i].payment = closed.paid[i]
    BY <1>7
  <2>2. QED
    BY <1>2, <2>1
<1>12. due = Due(pl, n, opened)
  BY <1>6, <1>10 DEF Due
<1>13. \A i \in 1..n : /\ table[i].opening + table[i].interest = table[i].payment + table[i].closing
                       /\ table[i].closing = closed.owed[i]
  <2>1. ASSUME NEW i \in 1..n
        PROVE /\ table[i].opening + table[i].interest = table[i].payment + table[i].closing
              /\ table[i].closing = closed.owed[i]
    <3>1. /\ table[i].payment = closed.paid[i] /\ table[i].closing = closed.owed[i]
          /\ table[i].opening + table[i].interest = charge[i]
      BY <1>7
    <3>2. closed.owed[i] + closed.paid[i] = charge[i] /\ closed.owed[i] \in Nat /\ closed.paid[i] \in Nat
      BY <1>2
    <3>3. QED
      BY <3>1, <3>2
  <2>2. QED
    BY <2>1
<1>14. SumOf(closed.paid) <= pl.budget
  BY <1>1, <1>2, <1>3
<1>15. Spent(n, closed) => SumOf(closed.paid) = Smaller(pl.budget, SumOf(charge))
  <2>1. CASE closed.budget = 0
    BY <1>1, <1>3, <2>1 DEF Smaller
  <2>2. CASE \A i \in 1..n : closed.owed[i] = 0
    <3> DEFINE a == closed.owed
    <3>1. a \in [1..n -> Int] /\ \A i \in 1..n : a[i] = 0
      BY <1>2, <2>2
    <3> HIDE DEF a
    <3>2. SumOf(a) = 0
      BY <1>1, <3>1, SumOfNone
    <3>3. SumOf(closed.owed) = 0
      BY <3>2 DEF a
    <3>4. QED
      BY <1>1, <1>2, <1>3, <3>3 DEF Smaller
  <2>3. QED
    BY <2>1, <2>2 DEF Spent
<1> HIDE DEF charged, paid, due
<1>16. RowsClose(pl, n, table, closed.owed)
  BY <1>4, <1>5, <1>9, <1>10, <1>11, <1>12, <1>13, <1>14, <1>15
     DEF RowsClose, charged, paid, due
<1>17. QED
  BY <1>16 DEF table, closed, charge

(***************************************************************************)
(* The months of a plan.                                                   *)
(***************************************************************************)
MonthsFacts(pl, balances, t, charged, paid, list, table) ==
    LET n == Len(pl.debts)
    IN  /\ pl \in DebtPlans
        /\ balances \in [1..n -> Nat] /\ t \in Nat /\ charged \in Int /\ paid \in Int
        /\ \A i \in 1..n : Opening(pl)[i] = 0 => balances[i] = 0
        /\ SumOf(Opening(pl)) + charged = paid + SumOf(balances)
        /\ \E p : Recorded(list, p, n, Opening(pl), balances, t)
        /\ table = <<>> \/ RowsClose(pl, n, table, balances)
MonthsInv == MonthsFacts(debtPlan, owed, month, interest, payments, payoffs, rows)

LEMMA PlansAreTyped ==
  ASSUME NEW pl \in DebtPlans
  PROVE /\ PlanOf(pl, Len(pl.debts))
        /\ Opening(pl) \in [1..Len(pl.debts) -> Nat]
        /\ \A i \in 1..Len(pl.debts) : Opening(pl)[i] = pl.debts[i].balance
<1> DEFINE n == Len(pl.debts)
           debts == pl.debts
<1>1. debts \in Seq(DebtOf)
  BY DebtAssumption
<1>2. n \in Nat /\ DOMAIN debts = 1..n /\ debts \in [1..n -> DebtOf]
  <2> HIDE DEF debts
  <2>1. Len(debts) \in Nat /\ DOMAIN debts = 1..Len(debts) /\ debts \in [1..Len(debts) -> DebtOf]
    BY <1>1
  <2>2. QED
    BY <2>1 DEF debts
<1>3. /\ pl.custom \in Seq(1..n) /\ pl.budget \in Nat /\ pl.horizon \in Nat
      /\ pl.reserved \in Nat /\ pl.reservedFor \in 1..n
  BY <1>2, DebtAssumption
<1>4. Opening(pl) = [i \in 1..n |-> pl.debts[i].balance]
  BY <1>2 DEF Opening
<1>5. \A i \in 1..n : pl.debts[i].balance \in Nat
  BY <1>2 DEF DebtOf
<1> HIDE DEF n
<1>6. QED
  BY <1>2, <1>3, <1>4, <1>5 DEF PlanOf, n

LEMMA MonthsInit == DebtsInit => MonthsInv
<1> SUFFICES ASSUME DebtsInit PROVE MonthsInv
  OBVIOUS
<1> DEFINE n == Len(debtPlan.debts)
           a == Opening(debtPlan)
<1>1. debtPlan \in DebtPlans /\ owed = a /\ payoffs = <<>> /\ rows = <<>>
      /\ month = 0 /\ interest = 0 /\ payments = 0
  BY DEF DebtsInit
<1>2. n \in Nat /\ a \in [1..n -> Nat]
  BY <1>1, PlansAreTyped DEF PlanOf
<1> HIDE DEF a, n
<1>3. SumOf(a) \in Int
  <2>1. a \in [1..n -> Int]
    BY <1>2
  <2>2. QED
    BY <1>2, <2>1, SumType
<1>4. SumOf(a) + interest = payments + SumOf(owed)
  BY <1>1, <1>3
<1>5. Recorded(payoffs, 0, n, a, owed, month)
  <2>1. payoffs \in [1..0 -> PayoffsFor(n)]
    BY <1>1, 1..0 = {}
  <2>2. QED
    BY <1>1, <2>1, 1..0 = {} DEF Recorded
<1>6. QED
  BY <1>1, <1>2, <1>4, <1>5 DEF MonthsInv, MonthsFacts, a, n

LEMMA MonthsStep == MonthsInv /\ [SimulateMonth]_debtVars => MonthsInv'
<1> SUFFICES ASSUME MonthsInv, [SimulateMonth]_debtVars PROVE MonthsInv'
  OBVIOUS
<1> DEFINE pl == debtPlan
           n == Len(pl.debts)
           opening == Opening(pl)
           charge == Accrued(pl, owed)
           closed == MonthOf(pl, owed)
<1>1. pl \in DebtPlans /\ PlanOf(pl, n) /\ n \in Nat /\ opening \in [1..n -> Nat]
  BY PlansAreTyped DEF MonthsInv, MonthsFacts, PlanOf
<1>2. /\ owed \in [1..n -> Nat] /\ month \in Nat /\ interest \in Int /\ payments \in Int
      /\ \A i \in 1..n : opening[i] = 0 => owed[i] = 0
      /\ SumOf(opening) + interest = payments + SumOf(owed)
      /\ \E p : Recorded(payoffs, p, n, opening, owed, month)
  BY DEF MonthsInv, MonthsFacts
<1>3. CASE SimulateMonth
  <2>1. /\ debtPlan' = pl /\ month' = month + 1 /\ owed' = closed.owed
        /\ interest' = interest + (SumOf(charge) - SumOf(owed))
        /\ payments' = payments + SumOf(closed.paid)
        /\ rows' = [i \in DOMAIN owed |->
                      [opening |-> owed[i], interest |-> charge[i] - owed[i],
                       payment |-> closed.paid[i], closing |-> closed.owed[i]]]
    BY <1>3 DEF SimulateMonth, Charged
  <2>2. payoffs' =
          LET q == Ascending({i \in Live(owed) : closed.owed[i] <= 0})
          IN  payoffs \o [k \in DOMAIN q |-> [debt |-> q[k], month |-> month + 1]]
    BY <1>3 DEF SimulateMonth
  <2>3. RowsClose(pl, n, rows', closed.owed)
    BY <1>1, <1>2, <2>1, MonthRows
  <2>4. /\ closed.owed \in [1..n -> Nat]
        /\ SumOf(charge) = SumOf(closed.owed) + SumOf(closed.paid)
        /\ SumOf(charge) \in Int /\ SumOf(closed.owed) \in Int /\ SumOf(closed.paid) \in Int
    BY <1>1, <1>2, Conserved, SMTT(30)
  <2>5. \A i \in 1..n : owed[i] = 0 => closed.owed[i] = 0
    <3>1. ASSUME NEW i \in 1..n, owed[i] = 0 PROVE closed.owed[i] = 0
      <4>1. charge[i] = 0
        BY <1>1, <1>2, <3>1, InterestFacts
      <4>2. closed.owed[i] <= charge[i]
        BY <1>1, <1>2, Conserved
      <4>3. closed.owed[i] \in Nat
        BY <2>4
      <4>4. QED
        BY <4>1, <4>2, <4>3
    <3>2. QED
      BY <3>1
  <2> HIDE DEF closed, charge
  <2>6. SumOf(opening) \in Int /\ SumOf(owed) \in Int
    <3> DEFINE a == opening
    <3>1. a \in [1..n -> Int] /\ owed \in [1..n -> Int]
      BY <1>1, <1>2
    <3> HIDE DEF a
    <3>2. SumOf(a) \in Int /\ SumOf(owed) \in Int
      BY <1>1, <3>1, SumType
    <3>3. QED
      BY <3>2 DEF a
  <2>7. SumOf(opening) + interest' = payments' + SumOf(closed.owed)
    <3> DEFINE so == SumOf(opening)
               sw == SumOf(owed)
               sc == SumOf(charge)
               sn == SumOf(closed.owed)
               sp == SumOf(closed.paid)
    <3>1. /\ so \in Int /\ sw \in Int /\ sc \in Int /\ sn \in Int /\ sp \in Int
          /\ interest \in Int /\ payments \in Int
          /\ so + interest = payments + sw /\ sc = sn + sp
          /\ interest' = interest + (sc - sw) /\ payments' = payments + sp
      BY <1>2, <2>1, <2>4, <2>6
    <3> HIDE DEF so, sw, sc, sn, sp
    <3>2. so + interest' = payments' + sn
      BY <3>1
    <3>3. QED
      BY <3>2 DEF so, sn
  <2>8. \E p : Recorded(payoffs', p, n, opening, closed.owed, month + 1)
    <3>1. PICK p : Recorded(payoffs, p, n, opening, owed, month)
      BY <1>2
    <3> DEFINE S == {i \in Live(owed) : closed.owed[i] <= 0}
               list == payoffs
               next == closed.owed
               q == Ascending(S)
               new == [k \in DOMAIN q |-> [debt |-> q[k], month |-> month + 1]]
               a == opening
    <3>2. /\ a \in [1..n -> Nat] /\ next \in [1..n -> Nat] /\ month \in Int
          /\ \A i \in 1..n : (owed[i] = 0 => next[i] = 0) /\ (a[i] = 0 => owed[i] = 0)
          /\ S = {i \in Live(owed) : next[i] <= 0}
          /\ Recorded(list, p, n, a, owed, month)
      BY <1>1, <1>2, <2>4, <2>5, <3>1
    <3>3. payoffs' = list \o new
      BY <2>2
    <3> HIDE DEF S, list, next, a
    <3>4. Recorded(list \o new, p + Cardinality(S), n, a, next, month + 1)
      BY <1>1, <1>2, <3>2, PayoffsGrow
    <3> HIDE DEF new
    <3>5. QED
      BY <3>3, <3>4 DEF next, a
  <2>9. interest' \in Int /\ payments' \in Int
    <3> DEFINE sw == SumOf(owed)
               sc == SumOf(charge)
               sp == SumOf(closed.paid)
    <3>1. /\ sw \in Int /\ sc \in Int /\ sp \in Int /\ interest \in Int /\ payments \in Int
          /\ interest' = interest + (sc - sw) /\ payments' = payments + sp
      BY <1>2, <2>1, <2>4, <2>6
    <3> HIDE DEF sw, sc, sp
    <3>2. QED
      BY <3>1
  <2>10. \A i \in 1..n : opening[i] = 0 => closed.owed[i] = 0
    BY <1>2, <2>5
  <2>11. month + 1 \in Nat
    BY <1>2
  <2>12. MonthsFacts(pl, closed.owed, month + 1, interest', payments', payoffs', rows')
    <3> HIDE DEF opening
    <3>1. opening = Opening(pl)
      BY DEF opening
    <3> HIDE DEF pl
    <3>2. QED
      BY <1>1, <2>3, <2>4, <2>7, <2>8, <2>9, <2>10, <2>11, <3>1 DEF MonthsFacts
  <2>13. QED
    BY <2>1, <2>12 DEF MonthsInv
<1>4. CASE UNCHANGED debtVars
  BY <1>4 DEF MonthsInv, debtVars
<1>5. QED
  BY <1>3, <1>4

LEMMA MonthsImply == MonthsInv => MonthsClose
<1> SUFFICES ASSUME MonthsInv PROVE MonthsClose
  OBVIOUS
<1> DEFINE pl == debtPlan
           n == Len(pl.debts)
           opening == Opening(pl)
<1>1. /\ PlanOf(pl, n) /\ n \in Nat /\ opening \in [1..n -> Nat]
      /\ \A i \in 1..n : opening[i] = pl.debts[i].balance
  BY PlansAreTyped DEF MonthsInv, MonthsFacts, PlanOf
<1>2. owed \in [1..n -> Nat] /\ DOMAIN owed = 1..n
  BY DEF MonthsInv, MonthsFacts
<1>3. PICK p : Recorded(payoffs, p, n, opening, owed, month)
  BY DEF MonthsInv, MonthsFacts
<1>4. DOMAIN payoffs = 1..p
  BY <1>3 DEF Recorded
<1>5. PayoffsComplete
  <2>1. \A j, k \in DOMAIN payoffs : j < k => /\ payoffs[j].debt # payoffs[k].debt
                                              /\ payoffs[j].month <= payoffs[k].month
    BY <1>3, <1>4 DEF Recorded
  <2>2. \A k \in 1..p : payoffs[k].debt \in 1..n
    <3>1. payoffs \in [1..p -> PayoffsFor(n)]
      BY <1>3 DEF Recorded
    <3>2. QED
      BY <3>1 DEF PayoffsFor
  <2>3. \A i \in 1..n : (owed[i] = 0 /\ pl.debts[i].balance > 0) <=> \E k \in 1..p : payoffs[k].debt = i
    BY <1>1, <1>3 DEF Recorded
  <2>4. {payoffs[k].debt : k \in DOMAIN payoffs}
          = {i \in DOMAIN owed : owed[i] = 0 /\ debtPlan.debts[i].balance > 0}
    BY <1>2, <1>4, <2>2, <2>3
  <2>5. QED
    BY <2>1, <2>4 DEF PayoffsComplete
<1>6. SumOf(Opening(debtPlan)) + interest = payments + SumOf(owed)
  BY DEF MonthsInv, MonthsFacts
<1>7. CASE rows = <<>>
  <2>1. DOMAIN rows = {}
    BY <1>7
  <2>2. QED
    BY <1>5, <1>6, <1>7, <2>1 DEF MonthsClose
<1>8. CASE RowsClose(pl, n, rows, owed)
  <2>1. rows \in [1..n -> RowOf] /\ DOMAIN rows = 1..n
    BY <1>8 DEF RowsClose
  <2>2. \A i \in DOMAIN rows : /\ rows[i].opening + rows[i].interest = rows[i].payment + rows[i].closing
                               /\ rows[i].closing = owed[i] /\ owed[i] >= 0
    <3>1. \A i \in 1..n : owed[i] >= 0
      BY <1>2
    <3>2. QED
      BY <1>8, <2>1, <3>1 DEF RowsClose
  <2> DEFINE charged == [i \in 1..n |-> rows[i].opening + rows[i].interest]
             paid == [i \in 1..n |-> rows[i].payment]
             due == [i \in 1..n |-> Smaller(pl.debts[i].minimum, charged[i])]
  <2>3. /\ SumOf(paid) <= pl.budget
        /\ pl.strategy # "preserve_liquidity" => SumOf(paid) = Smaller(pl.budget, SumOf(charged))
        /\ SumOf(due) <= pl.budget => \A i \in 1..n : paid[i] >= due[i]
    BY <1>8 DEF RowsClose
  <2>4. QED
    BY <1>5, <1>6, <2>1, <2>2, <2>3 DEF MonthsClose
<1>9. QED
  BY <1>7, <1>8 DEF MonthsInv, MonthsFacts

(* Every month of every debt plan closes to the cent: the rows follow from *)
(* one another, the budget is spent while anything is owed, no minimum     *)
(* gives way to an extra payment and every debt cleared has its payoff.    *)
THEOREM MonthsCloseCorrect == DebtsSpec => []MonthsClose
<1>1. DebtsInit => MonthsInv
  BY MonthsInit
<1>2. MonthsInv /\ [SimulateMonth]_debtVars => MonthsInv'
  BY MonthsStep
<1>3. MonthsInv => MonthsClose
  BY MonthsImply
<1>4. QED
  BY <1>1, <1>2, <1>3, PTL DEF DebtsSpec

(***************************************************************************)
(* More about sums and lists in order.                                     *)
(***************************************************************************)
LEMMA SumGrows ==
  ASSUME NEW n \in Nat, NEW a \in [1..n -> Int], NEW x \in Int, NEW b \in [1..(n + 1) -> Int],
         \A k \in 1..n : b[k] = a[k], b[n + 1] = x
  PROVE SumOf(b) = SumOf(a) + x
<1> DEFINE m == n + 1
<1>1. m \in Nat /\ b \in [1..m -> Int]
  OBVIOUS
<1>2. PICK f \in [0..n -> Int] : /\ f[0] = 0 /\ SumOf(a) = f[n]
                                 /\ \A k \in 1..n : f[k] = f[k - 1] + a[k]
  BY SumTrace
<1>3. PICK g \in [0..m -> Int] : /\ g[0] = 0 /\ SumOf(b) = g[m]
                                 /\ \A k \in 1..m : g[k] = g[k - 1] + b[k]
  <2> HIDE DEF m
  <2>1. QED BY <1>1, SumTrace
<1> DEFINE Done == {k \in Nat : k <= n => f[k] = g[k]}
<1>4. 0 \in Done
  BY <1>2, <1>3
<1>5. ASSUME NEW k \in Nat, k \in Done PROVE k + 1 \in Done
  <2>1. ASSUME k + 1 <= n PROVE f[k + 1] = g[k + 1]
    <3>1. k + 1 \in 1..n /\ k + 1 \in 1..m /\ (k + 1) - 1 = k /\ f[k] = g[k]
      BY <2>1, <1>5
    <3>2. f[k + 1] = f[k] + a[k + 1]
      BY <3>1, <1>2
    <3>3. g[k + 1] = g[k] + b[k + 1]
      BY <3>1, <1>3
    <3>4. QED
      BY <3>1, <3>2, <3>3
  <2>2. QED
    BY <2>1
<1>6. Nat \subseteq Done
  <2> HIDE DEF Done
  <2>1. QED BY <1>4, <1>5, SetInduction
<1>7. f[n] = g[n] /\ m \in 1..m /\ m - 1 = n /\ g[m] = g[m - 1] + b[m]
  <2>1. m \in 1..m /\ m - 1 = n
    OBVIOUS
  <2>2. g[m] = g[m - 1] + b[m]
    BY <2>1, <1>3
  <2>3. QED
    BY <2>1, <2>2, <1>6
<1>8. QED
  BY <1>2, <1>3, <1>7

(* Places in the order of two keys.                                        *)
LEMMA KeyOrderLists ==
  ASSUME NEW n \in Nat, NEW S \in SUBSET (1..n), NEW a \in [1..n -> Int], NEW b \in [1..n -> Int]
  PROVE Lists(InKeyOrder(S, a, b), S, [x \in S |-> {y \in S : ByKeys(a, b, y, x)}])
<1> DEFINE ahead == [x \in S |-> {y \in S : ByKeys(a, b, y, x)}]
           q == InKeyOrder(S, a, b)
<1>1. IsFiniteSet(S)
  BY AscendingLists
<1>2. Ranking(S, ahead)
  <2>1. \A i, j, k \in S :
          /\ ~ ByKeys(a, b, i, i) /\ (i # j => ByKeys(a, b, i, j) \/ ByKeys(a, b, j, i))
          /\ ByKeys(a, b, i, j) /\ ByKeys(a, b, j, k) => ByKeys(a, b, i, k)
    BY KeysGiveAnOrder DEF IsOrderOf
  <2>2. QED
    BY <2>1 DEF Ranking
<1>3. Ranked(q, S, ahead)
  <2>1. q = [k \in 1..Cardinality(S) |->
                CHOOSE x \in S : Cardinality({y \in S : ByKeys(a, b, y, x)}) = k - 1]
    BY DEF InKeyOrder, Ordered
  <2>2. \A x \in S : ahead[x] = {y \in S : ByKeys(a, b, y, x)}
    OBVIOUS
  <2> HIDE DEF ahead, q
  <2>3. ASSUME NEW k \in 1..Cardinality(S), NEW x \in S, Cardinality(ahead[x]) = k - 1
        PROVE q[k] \in S /\ Cardinality(ahead[q[k]]) = k - 1
    <3>1. \E y \in S : Cardinality({w \in S : ByKeys(a, b, w, y)}) = k - 1
      BY <2>2, <2>3
    <3> DEFINE z == q[k]
    <3>2. z = CHOOSE y \in S : Cardinality({w \in S : ByKeys(a, b, w, y)}) = k - 1
      BY <2>1
    <3>3. z \in S /\ Cardinality({w \in S : ByKeys(a, b, w, z)}) = k - 1
      BY <3>1, <3>2
    <3> HIDE DEF z
    <3>4. z \in S /\ Cardinality(ahead[z]) = k - 1
      BY <3>3, <2>2
    <3>5. QED
      BY <3>4 DEF z
  <2>4. q = [k \in 1..Cardinality(S) |-> q[k]]
    <3> DEFINE Spot(k) == CHOOSE x \in S : Cardinality({y \in S : ByKeys(a, b, y, x)}) = k - 1
    <3>1. q = [k \in 1..Cardinality(S) |-> Spot(k)]
      BY <2>1
    <3> HIDE DEF Spot
    <3>2. QED
      BY <3>1
  <2>5. QED
    BY <2>3, <2>4 DEF Ranked
<1> HIDE DEF ahead, q
<1>4. Lists(q, S, ahead)
  BY <1>1, <1>2, <1>3, OrderedLists
<1>5. QED
  BY <1>4 DEF ahead, q

(* A list sorted by a key has the members of the list it sorts.            *)
Arranges(r, seq, n, key, order) ==
    /\ order \in [1..n -> 1..n]
    /\ r = [k \in 1..n |-> seq[order[k]]]
    /\ \A j, k \in 1..n : order[j] = order[k] => j = k
    /\ \A j, k \in 1..n : j < k => key[order[j]] <= key[order[k]]

LEMMA SortByArranges ==
  ASSUME NEW n \in Nat, NEW seq, DOMAIN seq = 1..n, NEW key \in [1..n -> Int]
  PROVE \E order : Arranges(SortBy(seq, key), seq, n, key, order)
<1> DEFINE S == 1..n
           order == InKeyOrder(S, key, key)
           ahead == [x \in S |-> {y \in S : ByKeys(key, key, y, x)}]
<1>1. Lists(order, S, ahead)
  BY KeyOrderLists
<1>2. Cardinality(S) = n
  BY 1 \in Int, n \in Int, FS_Interval
<1>3. \A x, y \in S : y \in ahead[x] <=> ByKeys(key, key, y, x)
  OBVIOUS
<1>4. SortBy(seq, key) = [k \in DOMAIN order |-> seq[order[k]]]
  BY DEF SortBy
<1> HIDE DEF order, ahead
<1>5. order \in [1..n -> 1..n] /\ DOMAIN order = 1..n
  BY <1>1, <1>2 DEF Lists
<1>6. \A j, k \in 1..n : order[j] = order[k] => j = k
  BY <1>1, <1>2 DEF Lists
<1>7. ASSUME NEW j \in 1..n, NEW k \in 1..n, j < k PROVE key[order[j]] <= key[order[k]]
  <2>1. order[j] \in ahead[order[k]] /\ order[j] \in S /\ order[k] \in S
    BY <1>1, <1>2, <1>5, <1>7 DEF Lists
  <2>2. ByKeys(key, key, order[j], order[k])
    BY <2>1, <1>3
  <2>3. QED
    BY <2>1, <2>2 DEF ByKeys
<1>8. Arranges(SortBy(seq, key), seq, n, key, order)
  BY <1>4, <1>5, <1>6, <1>7 DEF Arranges
<1>9. QED
  BY <1>8

(* A filtered list has the members that it keeps, each once.               *)
Picks(r, seq, S, c, kept) ==
    /\ c \in Nat /\ kept \in [1..c -> S]
    /\ r = [k \in 1..c |-> seq[kept[k]]]
    /\ \A j, k \in 1..c : kept[j] = kept[k] => j = k
    /\ c = 0 => S = {}

LEMMA AscendingPicks ==
  ASSUME NEW n \in Nat, NEW S \in SUBSET (1..n), NEW seq
  PROVE Picks([k \in DOMAIN Ascending(S) |-> seq[Ascending(S)[k]]], seq, S,
              Cardinality(S), Ascending(S))
<1> DEFINE q == Ascending(S)
<1>1. Lists(q, S, [x \in S |-> {y \in S : y < x}]) /\ IsFiniteSet(S)
  BY AscendingLists
<1>2. Cardinality(S) = 0 => S = {}
  BY <1>1, FS_EmptySet
<1> HIDE DEF q
<1>3. /\ q \in [1..Cardinality(S) -> S] /\ Cardinality(S) \in Nat
      /\ \A j, k \in 1..Cardinality(S) : q[j] = q[k] => j = k
  BY <1>1 DEF Lists
<1>4. Picks([k \in DOMAIN q |-> seq[q[k]]], seq, S, Cardinality(S), q)
  BY <1>2, <1>3 DEF Picks
<1>5. QED
  BY <1>4 DEF q

(***************************************************************************)
(* The lines of a deposit in progress, and what it has given to each       *)
(* target.                                                                 *)
(***************************************************************************)
Names == STRING \union {"floor", "buffer"}
Statuses == {"funded", "partial", "unfunded_shortfall", "paused", "deferred"}
Urgencies == {"due_before_next_income", "protected_floor", "due_this_period", "optional"}
LineOf == [id : Names, purpose : Names, amount : Nat, requested : Nat,
           status : Statuses, urgency : Urgencies]
RunOf == [left : Nat, lines : Seq(LineOf)]
Given(id, lines) ==
    SumOf([i \in DOMAIN lines |-> IF lines[i].id = id THEN lines[i].amount ELSE 0])

PlanFor(n) ==
    /\ n \in Nat /\ DOMAIN plan = 1..n
    /\ \A k \in 1..n :
          /\ plan[k].target \in Nat /\ plan[k].funded \in Nat /\ plan[k].due \in Int
          /\ plan[k].rule.id \in STRING \ {"floor"} /\ plan[k].rule.purpose \in STRING
          /\ plan[k].rule.priority \in Int
          /\ \A j \in 1..n : plan[j].rule.id = plan[k].rule.id => j = k
IdOf(k) == plan[k].rule.id
Wants(k) == Remaining(plan[k])

(* A deposit in progress, one line longer.                                 *)
Longer(run, line, r) ==
    /\ r \in RunOf /\ r.left = run.left - line.amount
    /\ Len(r.lines) = Len(run.lines) + 1
    /\ r.lines[Len(run.lines) + 1] = line
    /\ \A i \in 1..Len(run.lines) : r.lines[i] = run.lines[i]
    /\ Allocated(run.lines) \in Int
    /\ Allocated(r.lines) = Allocated(run.lines) + line.amount
GivenMore(run, line, r) ==
    \A id \in Names :
       /\ Given(id, run.lines) \in Nat
       /\ Given(id, r.lines) = Given(id, run.lines) + IF line.id = id THEN line.amount ELSE 0

LEMMA GivenType ==
  ASSUME NEW lines \in Seq(LineOf), NEW id
  PROVE Given(id, lines) \in Nat
<1> DEFINE n == Len(lines)
           a == [i \in 1..n |-> IF lines[i].id = id THEN lines[i].amount ELSE 0]
           z == [i \in 1..n |-> 0]
<1>1. n \in Nat /\ DOMAIN lines = 1..n
  OBVIOUS
<1>2. ASSUME NEW i \in 1..n PROVE lines[i].amount \in Nat
  <2>1. lines[i] \in LineOf
    BY <1>1
  <2>2. QED
    BY <2>1 DEF LineOf
<1>3. a \in [1..n -> Int] /\ z \in [1..n -> Int] /\ \A i \in 1..n : z[i] <= a[i] /\ z[i] = 0
  BY <1>2
<1>4. Given(id, lines) = SumOf(a)
  BY <1>1 DEF Given
<1> HIDE DEF n, a, z
<1>5. SumOf(z) = 0 /\ SumOf(z) <= SumOf(a) /\ SumOf(a) \in Int
  <2>1. SumOf(z) = 0
    BY <1>1, <1>3, SumOfNone
  <2>2. SumOf(z) <= SumOf(a)
    BY <1>1, <1>3, SumMonotone
  <2>3. SumOf(a) \in Int
    BY <1>1, <1>3, SumType
  <2>4. QED
    BY <2>1, <2>2, <2>3
<1>6. QED
  BY <1>4, <1>5

LEMMA LineGiven ==
  ASSUME NEW run \in RunOf, NEW line \in LineOf, line.amount <= run.left
  PROVE Longer(run, line, Give(run, line)) /\ GivenMore(run, line, Give(run, line))
<1> DEFINE r == Give(run, line)
           old == run.lines
           new == Append(old, line)
           n == Len(old)
<1>1. /\ r = [left |-> run.left - line.amount, lines |-> new]
      /\ run.left \in Nat /\ line.amount \in Nat /\ old \in Seq(LineOf) /\ n \in Nat
  BY DEF Give, RunOf, LineOf
<1>2. r.left = run.left - line.amount /\ r.lines = new /\ run.left - line.amount \in Nat
  BY <1>1
<1>3. /\ new \in Seq(LineOf) /\ Len(new) = n + 1 /\ new[n + 1] = line
      /\ \A i \in 1..n : new[i] = old[i]
  BY <1>1
<1>4. DOMAIN old = 1..n /\ DOMAIN new = 1..(n + 1)
  BY <1>1, <1>3
<1>5. ASSUME NEW i \in 1..n PROVE old[i].amount \in Nat
  <2>1. old[i] \in LineOf
    BY <1>1, <1>4
  <2>2. QED
    BY <2>1 DEF LineOf
<1>6. \A i \in 1..(n + 1) : i = n + 1 \/ i \in 1..n
  BY <1>1
<1> HIDE DEF new, old, n
<1>7. /\ Allocated(old) \in Int /\ Allocated(new) = Allocated(old) + line.amount
  <2> DEFINE a == [i \in 1..n |-> old[i].amount]
             b == [i \in 1..(n + 1) |-> new[i].amount]
             x == line.amount
  <2>1. Allocated(old) = SumOf(a) /\ Allocated(new) = SumOf(b)
    BY <1>4 DEF Allocated, Amounts
  <2>2. a \in [1..n -> Int] /\ x \in Int
    BY <1>1, <1>5
  <2>3. b \in [1..(n + 1) -> Int] /\ b[n + 1] = x /\ \A i \in 1..n : b[i] = a[i]
    <3>1. \A i \in 1..n : i \in 1..(n + 1) /\ b[i] = a[i] /\ b[i] \in Int
      BY <1>1, <1>3, <1>5
    <3>2. n + 1 \in 1..(n + 1) /\ b[n + 1] = x /\ x \in Int
      BY <1>1, <1>3, <2>2
    <3>3. \A i \in 1..(n + 1) : b[i] \in Int
      <4> HIDE DEF b, a, x
      <4>1. QED BY <3>1, <3>2, <1>6
    <3>4. b \in [1..(n + 1) -> Int]
      BY <3>3
    <3>5. QED
      BY <3>1, <3>2, <3>4
  <2> HIDE DEF a, b, x
  <2>4. SumOf(b) = SumOf(a) + x /\ SumOf(a) \in Int
    BY <1>1, <2>2, <2>3, SumGrows, SumType
  <2>5. QED
    BY <2>1, <2>4 DEF x
<1>8. ASSUME NEW id \in Names
      PROVE /\ Given(id, old) \in Nat
            /\ Given(id, new) = Given(id, old) + IF line.id = id THEN line.amount ELSE 0
  <2> DEFINE a == [i \in 1..n |-> IF old[i].id = id THEN old[i].amount ELSE 0]
             b == [i \in 1..(n + 1) |-> IF new[i].id = id THEN new[i].amount ELSE 0]
             x == IF line.id = id THEN line.amount ELSE 0
  <2>1. Given(id, old) = SumOf(a) /\ Given(id, new) = SumOf(b)
    BY <1>4 DEF Given
  <2>2. a \in [1..n -> Int] /\ x \in Int
    BY <1>1, <1>5
  <2>3. b \in [1..(n + 1) -> Int] /\ b[n + 1] = x /\ \A i \in 1..n : b[i] = a[i]
    <3>1. \A i \in 1..n : i \in 1..(n + 1) /\ b[i] = a[i] /\ b[i] \in Int
      BY <1>1, <1>3, <1>5
    <3>2. n + 1 \in 1..(n + 1) /\ b[n + 1] = x /\ x \in Int
      BY <1>1, <1>3, <2>2
    <3>3. \A i \in 1..(n + 1) : b[i] \in Int
      <4> HIDE DEF b, a, x
      <4>1. QED BY <3>1, <3>2, <1>6
    <3>4. b \in [1..(n + 1) -> Int]
      BY <3>3
    <3>5. QED
      BY <3>1, <3>2, <3>4
  <2>4. Given(id, old) \in Nat
    BY <1>1, GivenType
  <2> HIDE DEF a, b, x
  <2>5. SumOf(b) = SumOf(a) + x
    BY <1>1, <2>2, <2>3, SumGrows
  <2>6. QED
    BY <2>1, <2>4, <2>5 DEF x
<1>9. r \in RunOf
  BY <1>1, <1>2, <1>3 DEF RunOf
<1> HIDE DEF r
<1>10. Longer(run, line, r)
  BY <1>2, <1>3, <1>7, <1>9 DEF Longer, old, n
<1>11. GivenMore(run, line, r)
  BY <1>2, <1>8 DEF GivenMore, old
<1>12. QED
  BY <1>10, <1>11 DEF r

LEMMA OtherGivenSame ==
  ASSUME NEW run, NEW line, NEW r, GivenMore(run, line, r), NEW id \in Names, line.id # id
  PROVE Given(id, r.lines) = Given(id, run.lines)
<1>1. Given(id, run.lines) \in Nat
  BY DEF GivenMore
<1>2. Given(id, r.lines) = Given(id, run.lines) + IF line.id = id THEN line.amount ELSE 0
  BY DEF GivenMore
<1>3. (IF line.id = id THEN line.amount ELSE 0) = 0
  OBVIOUS
<1>4. QED
  BY <1>1, <1>2, <1>3

(* What holds of a deposit in progress, of its targets that have no line   *)
(* yet, of those that have all it could give them, and of those that it    *)
(* gave all of its money before the later ones.                            *)
Fits(n, run, amount) ==
    /\ run \in RunOf /\ run.left + Allocated(run.lines) = amount
    /\ \A k \in 1..n : Given(IdOf(k), run.lines) <= Wants(k)
Fresh(run, k) == \A i \in 1..Len(run.lines) : run.lines[i].id # IdOf(k)
MetBy(run, k, line) ==
    /\ line.id = IdOf(k) /\ line.purpose = plan[k].rule.purpose
    /\ line.requested = Wants(k) /\ line.status # "deferred"
    /\ line.amount = Given(IdOf(k), run.lines)
    /\ line.amount < Wants(k) => run.left = 0
Met(run, k) == \E i \in 1..Len(run.lines) : MetBy(run, k, run.lines[i])
NoLater(n, k, id) == \E j \in 1..n : IdOf(j) = id /\ Later(plan[j].due) <= Later(plan[k].due)
First(n, run, k) ==
    Given(IdOf(k), run.lines) < Wants(k) =>
       /\ run.left = 0
       /\ \A i \in 1..Len(run.lines) :
             run.lines[i].amount > 0 => NoLater(n, k, run.lines[i].id)
Keeps(n, run, r, k) ==
    /\ Given(IdOf(k), r.lines) = Given(IdOf(k), run.lines)
    /\ Fresh(run, k) => Fresh(r, k)
    /\ Met(run, k) => Met(r, k)
    /\ First(n, run, k) => First(n, r, k)

LEMMA WantsType ==
  ASSUME NEW n, PlanFor(n), NEW k \in 1..n
  PROVE Wants(k) \in Nat /\ IdOf(k) \in Names /\ IdOf(k) # "floor"
BY DEF PlanFor, Wants, Remaining, ClampMinZero, Larger, IdOf, Names

LEMMA FreshIsGivenNothing ==
  ASSUME NEW run \in RunOf, NEW k, Fresh(run, k)
  PROVE Given(IdOf(k), run.lines) = 0
<1> DEFINE m == Len(run.lines)
           id == IdOf(k)
           a == [i \in 1..m |-> IF run.lines[i].id = id THEN run.lines[i].amount ELSE 0]
<1>1. m \in Nat /\ DOMAIN run.lines = 1..m
  BY DEF RunOf
<1>2. \A i \in 1..m : a[i] = 0 /\ a[i] \in Int
  BY DEF Fresh
<1>3. a \in [1..m -> Int]
  <2>1. a = [i \in 1..m |-> a[i]]
    OBVIOUS
  <2> HIDE DEF a
  <2>2. QED
    BY <1>2, <2>1
<1>4. Given(id, run.lines) = SumOf(a)
  BY <1>1 DEF Given
<1> HIDE DEF m, a
<1>5. QED
  BY <1>1, <1>2, <1>3, <1>4, SumOfNone

LEMMA LineKeeps ==
  ASSUME NEW n, PlanFor(n), NEW run \in RunOf, NEW line \in LineOf, line.amount <= run.left,
         NEW k \in 1..n, IdOf(k) # line.id
  PROVE Keeps(n, run, Give(run, line), k)
<1> DEFINE r == Give(run, line)
           m == Len(run.lines)
<1>1. Longer(run, line, r) /\ GivenMore(run, line, r)
  BY LineGiven
<1> HIDE DEF r
<1>2. run.left \in Nat /\ line.amount \in Nat /\ m \in Nat
  BY DEF RunOf, LineOf
<1>3. /\ r.left = run.left - line.amount /\ Len(r.lines) = m + 1 /\ r.lines[m + 1] = line
      /\ \A i \in 1..m : r.lines[i] = run.lines[i]
  BY <1>1 DEF Longer
<1>4. \A i \in 1..(m + 1) : i = m + 1 \/ i \in 1..m
  BY <1>2
<1>5. IdOf(k) \in Names /\ Wants(k) \in Nat
  BY WantsType
<1>6. Given(IdOf(k), r.lines) = Given(IdOf(k), run.lines)
  <2> DEFINE id == IdOf(k)
  <2>1. id \in Names /\ line.id # id
    BY <1>5
  <2> HIDE DEF id
  <2>2. Given(id, r.lines) = Given(id, run.lines)
    BY <1>1, <2>1, OtherGivenSame
  <2>3. QED
    BY <2>2 DEF id
<1>7. run.left = 0 => r.left = 0 /\ line.amount = 0
  BY <1>2, <1>3
<1>8. Fresh(run, k) => Fresh(r, k)
  BY <1>3, <1>4 DEF Fresh
<1>9. Met(run, k) => Met(r, k)
  <2>1. ASSUME NEW i \in 1..m, MetBy(run, k, run.lines[i]) PROVE Met(r, k)
    <3>1. MetBy(r, k, run.lines[i])
      BY <2>1, <1>6, <1>7 DEF MetBy
    <3>2. i \in 1..(m + 1) /\ r.lines[i] = run.lines[i]
      BY <1>2, <1>3
    <3>3. QED
      BY <3>1, <3>2, <1>3 DEF Met
  <2>2. QED
    BY <2>1 DEF Met
<1>10. First(n, run, k) => First(n, r, k)
  BY <1>3, <1>4, <1>6, <1>7 DEF First
<1> HIDE DEF m
<1>11. Keeps(n, run, r, k)
  BY <1>6, <1>8, <1>9, <1>10 DEF Keeps
<1>12. QED
  BY <1>11 DEF r

LEMMA LineFits ==
  ASSUME NEW n, PlanFor(n), NEW run, NEW amount \in Nat, Fits(n, run, amount),
         NEW line \in LineOf, line.amount <= run.left,
         \A k \in 1..n : line.id = IdOf(k) => Fresh(run, k) /\ line.amount <= Wants(k)
  PROVE Fits(n, Give(run, line), amount)
<1> DEFINE r == Give(run, line)
<1>0. run \in RunOf /\ run.left + Allocated(run.lines) = amount
      /\ \A k \in 1..n : Given(IdOf(k), run.lines) <= Wants(k)
  BY DEF Fits
<1>1. Longer(run, line, r) /\ GivenMore(run, line, r)
  BY <1>0, LineGiven
<1> HIDE DEF r
<1>2. r \in RunOf /\ r.left + Allocated(r.lines) = amount
  <2>1. run.left \in Nat /\ line.amount \in Nat
    BY <1>0 DEF RunOf, LineOf
  <2>2. QED
    BY <2>1, <1>0, <1>1 DEF Longer
<1>3. ASSUME NEW k \in 1..n PROVE Given(IdOf(k), r.lines) <= Wants(k)
  <2> DEFINE id == IdOf(k)
             most == Wants(k)
  <2>1. id \in Names /\ most \in Nat /\ line.amount \in Nat
    BY WantsType DEF LineOf
  <2>2. Given(id, run.lines) <= most
    BY <1>0
  <2>3. line.id = id => Given(id, run.lines) = 0 /\ line.amount <= most
    BY <1>0, FreshIsGivenNothing
  <2> HIDE DEF id, most
  <2>4. CASE line.id = id
    <3>1. Given(id, r.lines) = Given(id, run.lines) + line.amount
      BY <2>1, <2>4, <1>1 DEF GivenMore
    <3>2. Given(id, r.lines) <= most
      BY <3>1, <2>1, <2>3, <2>4
    <3>3. QED
      BY <3>2 DEF id, most
  <2>5. CASE line.id # id
    <3>1. Given(id, r.lines) = Given(id, run.lines)
      BY <2>1, <2>5, <1>1, OtherGivenSame
    <3>2. QED
      BY <3>1, <2>2 DEF id, most
  <2>6. QED
    BY <2>4, <2>5
<1>4. Fits(n, r, amount)
  BY <1>2, <1>3 DEF Fits
<1>5. QED
  BY <1>4 DEF r

(***************************************************************************)
(* One target of a deposit.                                                *)
(***************************************************************************)
(* What serving a target does: it adds one line, or nothing at all.        *)
Serves(run, k, full, r) ==
    \/ r = run /\ ~full
    \/ \E line \in LineOf :
          /\ r = Give(run, line) /\ line.amount <= run.left
          /\ line.id = IdOf(k) /\ line.amount <= Wants(k)
          /\ full => /\ line.purpose = plan[k].rule.purpose
                     /\ line.requested = Wants(k) /\ line.status # "deferred"
                     /\ line.amount < Wants(k) => line.amount = run.left
Whole(k, payDate, after, pass) ==
    ~Skipped(plan[k], payDate) /\ Wants(k) > 0 /\ (pass = "urgent" \/ after = 0)

LEMMA LineType ==
  ASSUME NEW n, PlanFor(n), NEW k \in 1..n, NEW give \in Nat, NEW requested \in Nat,
         NEW status \in Statuses, NEW urgency \in Urgencies
  PROVE Line(plan[k], give, requested, status, urgency) \in LineOf
<1>1. plan[k].rule.id \in Names /\ plan[k].rule.purpose \in Names
  BY DEF PlanFor, Names
<1>2. QED
  BY <1>1 DEF Line, LineOf

LEMMA FundFacts ==
  ASSUME NEW n, PlanFor(n), NEW run \in RunOf, NEW k \in 1..n, NEW payDate, NEW cap \in Nat,
         NEW urgency \in Urgencies
  PROVE Serves(run, k, ~Skipped(plan[k], payDate) /\ Wants(k) > 0 /\ cap = Wants(k),
               Fund(run, plan[k], payDate, cap, urgency))
<1> DEFINE t == plan[k]
           all == Wants(k)
           want == Smaller(all, cap)
           give == Smaller(want, run.left)
           status == CASE give = 0 -> "unfunded_shortfall"
                       [] give > 0 /\ give < want -> "partial"
                       [] OTHER -> "funded"
           full == ~Skipped(t, payDate) /\ all > 0 /\ cap = all
           r == Fund(run, t, payDate, cap, urgency)
<1>1. all \in Nat /\ run.left \in Nat
  BY WantsType DEF RunOf
<1>2. want \in Nat /\ want <= all /\ (cap = all => want = all)
  <2> HIDE DEF all
  <2>1. QED BY <1>1 DEF Smaller
<1>3. give \in Nat /\ give <= want /\ give <= run.left /\ (give < want => give = run.left)
  <2> HIDE DEF want
  <2>1. QED BY <1>1, <1>2 DEF Smaller
<1>4. status \in Statuses /\ status # "deferred"
  <2> HIDE DEF give, want
  <2>1. QED BY DEF Statuses
<1>5. Remaining(t) = all
  BY DEF Wants
<1>6. r = CASE Skipped(t, payDate) -> Give(run, Line(t, 0, all, "paused", urgency))
            [] ~Skipped(t, payDate) /\ want = 0 -> run
            [] OTHER -> Give(run, Line(t, give, want, status, urgency))
  BY <1>5 DEF Fund
<1> HIDE DEF all, want, give, status, r
<1>7. CASE Skipped(t, payDate)
  <2> DEFINE line == Line(t, 0, all, "paused", urgency)
  <2>1. line \in LineOf
    BY <1>1, LineType DEF Statuses
  <2>2. line.amount = 0 /\ line.id = IdOf(k)
    BY DEF Line, IdOf
  <2>3. r = Give(run, line)
    BY <1>6, <1>7
  <2> HIDE DEF line
  <2>4. Serves(run, k, full, r)
    BY <2>1, <2>2, <2>3, <1>1, <1>7 DEF Serves, all
  <2>5. QED
    BY <2>4 DEF r, all
<1>8. CASE ~Skipped(t, payDate) /\ want = 0
  <2>1. r = run
    BY <1>6, <1>8
  <2>2. ~full
    BY <1>1, <1>2, <1>8
  <2>3. QED
    BY <2>1, <2>2 DEF Serves, r, all
<1>9. CASE ~Skipped(t, payDate) /\ want # 0
  <2> DEFINE line == Line(t, give, want, status, urgency)
  <2>1. line \in LineOf
    BY <1>2, <1>3, <1>4, LineType
  <2>2. /\ line.amount = give /\ line.id = IdOf(k) /\ line.purpose = t.rule.purpose
        /\ line.requested = want /\ line.status = status
    BY DEF Line, IdOf
  <2>3. r = Give(run, line)
    BY <1>6, <1>9
  <2> HIDE DEF line
  <2>4. line.amount <= run.left /\ line.amount <= all
    BY <2>2, <1>1, <1>2, <1>3
  <2>5. full => /\ line.requested = all /\ line.status # "deferred"
                /\ line.amount < all => line.amount = run.left
    BY <2>2, <1>2, <1>3, <1>4
  <2>6. Serves(run, k, full, r)
    BY <2>1, <2>2, <2>3, <2>4, <2>5 DEF Serves, all
  <2>7. QED
    BY <2>6 DEF r, all
<1>10. QED
  BY <1>7, <1>8, <1>9

LEMMA ServeFacts ==
  ASSUME NEW n, PlanFor(n), NEW run \in RunOf, NEW k \in 1..n, NEW payDate, NEW after \in Nat,
         NEW pass \in {"urgent", "required", "rest"}
  PROVE Serves(run, k, Whole(k, payDate, after, pass),
               Serve(run, plan[k], payDate, after, pass))
<1> DEFINE t == plan[k]
           all == Wants(k)
           full == Whole(k, payDate, after, pass)
           r == Serve(run, t, payDate, after, pass)
<1>1. all \in Nat /\ Remaining(t) = all /\ run.left \in Nat
  BY WantsType DEF RunOf, Wants
<1> HIDE DEF r, all
<1>2. CASE pass = "urgent" \/ (pass = "required" /\ after = 0)
  <2>1. \E urgency \in Urgencies : r = Fund(run, t, payDate, all, urgency)
    BY <1>2, <1>1 DEF Serve, r, Urgencies
  <2>2. PICK urgency \in Urgencies : r = Fund(run, t, payDate, all, urgency)
    BY <2>1
  <2>3. Serves(run, k, ~Skipped(t, payDate) /\ Wants(k) > 0 /\ all = Wants(k), r)
    BY <2>2, <1>1, FundFacts
  <2>4. full <=> (~Skipped(t, payDate) /\ Wants(k) > 0 /\ all = Wants(k))
    BY <1>2 DEF Whole, all
  <2>5. QED
    BY <2>3, <2>4 DEF r, Serves
<1>3. ASSUME NEW status \in Statuses, NEW urgency \in Urgencies,
             r = Give(run, Line(t, 0, all, status, urgency)),
             full => status # "deferred" /\ run.left = 0
      PROVE Serves(run, k, full, r)
  <2> DEFINE line == Line(t, 0, all, status, urgency)
  <2>1. line \in LineOf
    BY <1>1, LineType
  <2>2. /\ line.amount = 0 /\ line.id = IdOf(k) /\ line.purpose = t.rule.purpose
        /\ line.requested = all /\ line.status = status
    BY DEF Line, IdOf
  <2>3. r = Give(run, line)
    BY <1>3
  <2> HIDE DEF line, full
  <2>4. /\ line.amount <= run.left /\ line.amount <= all
        /\ full => line.status # "deferred" /\ line.amount = run.left
    BY <2>2, <1>1, <1>3
  <2>5. /\ line.amount <= Wants(k) /\ line.requested = Wants(k)
    BY <2>2, <2>4 DEF all
  <2>7. QED
    BY <2>1, <2>2, <2>3, <2>4, <2>5 DEF Serves
<1>4. CASE pass = "required" /\ after # 0
  <2>1. r = Give(run, Line(t, 0, all, "deferred", "due_this_period"))
    BY <1>1, <1>4 DEF Serve, r
  <2>2. ~full
    BY <1>4 DEF Whole
  <2> HIDE DEF full
  <2>3. Serves(run, k, full, r)
    BY <2>1, <2>2, <1>3 DEF Statuses, Urgencies
  <2>4. QED
    BY <2>3 DEF full, r
<1>5. CASE pass = "rest" /\ run.left = 0
  <2>1. r = Give(run, Line(t, 0, all, "unfunded_shortfall", Urgency(t)))
    BY <1>1, <1>5 DEF Serve, r
  <2>2. Urgency(t) \in Urgencies
    BY DEF Urgency, Urgencies
  <2> HIDE DEF full
  <2>3. Serves(run, k, full, r)
    BY <2>1, <2>2, <1>3, <1>5 DEF Statuses
  <2>4. QED
    BY <2>3 DEF full, r
<1>6. CASE pass = "rest" /\ run.left # 0
  <2> DEFINE cap == Share(t, after)
  <2>1. r = Fund(run, t, payDate, cap, Urgency(t))
    BY <1>6 DEF Serve, r
  <2>2. Urgency(t) \in Urgencies
    BY DEF Urgency, Urgencies
  <2>3. cap \in Nat /\ (after = 0 => cap = all)
    <3>1. RoundHalfUp(all, after + 1) \in Nat
      BY <1>1, after + 1 \in Nat, after + 1 > 0, RoundingType
    <3>2. QED
      BY <3>1, <1>1 DEF Share
  <2> HIDE DEF cap
  <2>4. Serves(run, k, ~Skipped(t, payDate) /\ Wants(k) > 0 /\ cap = Wants(k), r)
    BY <2>1, <2>2, <2>3, FundFacts
  <2>5. full => (~Skipped(t, payDate) /\ Wants(k) > 0 /\ cap = Wants(k))
    BY <1>6, <2>3 DEF Whole, all
  <2>6. QED
    BY <2>4, <2>5 DEF r, Serves
<1>7. QED
  BY <1>2, <1>4, <1>5, <1>6

(***************************************************************************)
(* A pass of a deposit, as a sequence of targets served.                   *)
(***************************************************************************)
(* A pass, target after target.                                            *)
Serving(g, c, run, order, payDate, after, pass) ==
    /\ g \in [0..c -> RunOf] /\ g[0] = run
    /\ ServeAll(run, order, payDate, after, pass) = g[c]
    /\ \A i \in 1..c : g[i] = Serve(g[i - 1], plan[order[i]], payDate, after, pass)

LEMMA ServesType ==
  ASSUME NEW run \in RunOf, NEW k, NEW full, NEW r, Serves(run, k, full, r)
  PROVE r \in RunOf
<1>1. ASSUME NEW line \in LineOf, line.amount <= run.left PROVE Give(run, line) \in RunOf
  BY <1>1, LineGiven DEF Longer
<1>2. QED
  BY <1>1 DEF Serves

LEMMA ServeAllTrace ==
  ASSUME NEW n, PlanFor(n), NEW c \in Nat, NEW run \in RunOf, NEW order \in [1..c -> 1..n],
         NEW payDate, NEW after \in Nat, NEW pass \in {"urgent", "required", "rest"}
  PROVE \E g : Serving(g, c, run, order, payDate, after, pass)
<1> DEFINE Body(f) == [S \in SUBSET (1..c) |->
                          IF S = {} THEN run
                          ELSE Serve(f[S \ {Max(S)}], plan[order[Max(S)]], payDate, after, pass)]
           State == RunOf
           step == [r \in State |-> [i \in 1..c |->
                       Serve(r, plan[order[i]], payDate, after, pass)]]
<1>1. step \in StepsOf(c, State) /\ run \in State
  <2>1. ASSUME NEW r \in State, NEW i \in 1..c
        PROVE Serve(r, plan[order[i]], payDate, after, pass) \in State
    <3> DEFINE k == order[i]
    <3>1. k \in 1..n
      OBVIOUS
    <3> HIDE DEF k
    <3>2. Serves(r, k, Whole(k, payDate, after, pass), Serve(r, plan[k], payDate, after, pass))
      BY <3>1, ServeFacts
    <3>3. Serve(r, plan[k], payDate, after, pass) \in State
      BY <3>2, ServesType
    <3>4. QED
      BY <3>3 DEF k
  <2>2. QED
    BY <2>1 DEF StepsOf
<1> HIDE DEF State
<1>2. PICK f : Solution(f, c, State, run, step)
  <2> HIDE DEF step
  <2>1. QED BY <1>1, FoldExists
<1>3. f = Body(f)
  <2>1. ASSUME NEW S \in SUBSET (1..c), S # {}
        PROVE f[S] = Serve(f[S \ {Max(S)}], plan[order[Max(S)]], payDate, after, pass)
    <3>1. Max(S) \in 1..c
      BY <2>1, LargestIn
    <3>2. f[S] = step[f[S \ {Max(S)}]][Max(S)] /\ f[S \ {Max(S)}] \in State
      BY <2>1, <1>2 DEF Solution
    <3>3. QED
      BY <3>1, <3>2
  <2>2. QED
    BY <1>2, <2>1 DEF Solution
<1>4. PICK iter : iter = Body(iter) /\ ServeAll(run, order, payDate, after, pass) = iter[1..c]
  <2>1. DOMAIN order = 1..c
    OBVIOUS
  <2>2. ServeAll(run, order, payDate, after, pass) = (CHOOSE h : h = Body(h))[1..c]
    BY <2>1 DEF ServeAll, FoldLeft, MapThenFoldSet
  <2> HIDE DEF Body
  <2>3. QED
    BY <1>3, <2>2
<1>5. Recurs(iter, c, State, run, step)
  <2>1. iter[{}] = run
    BY <1>4
  <2>2. ASSUME NEW S \in SUBSET (1..c), S # {}, iter[S \ {Max(S)}] \in State
        PROVE iter[S] = step[iter[S \ {Max(S)}]][Max(S)]
    BY <2>2, <1>4, LargestIn
  <2>3. QED
    BY <2>1, <2>2 DEF Recurs
<1>6. PICK g : Trace(g, c, State, run, step) /\ g[c] = iter[1..c]
  <2> HIDE DEF step
  <2>1. QED BY <1>1, <1>5, TraceOf
<1>7. \A i \in 1..c : g[i] = Serve(g[i - 1], plan[order[i]], payDate, after, pass)
  <2>1. ASSUME NEW i \in 1..c
        PROVE g[i] = Serve(g[i - 1], plan[order[i]], payDate, after, pass)
    BY <1>6, i - 1 \in 0..c DEF Trace
  <2>2. QED
    BY <2>1
<1>8. Serving(g, c, run, order, payDate, after, pass)
  BY <1>4, <1>6, <1>7 DEF Trace, State, Serving
<1>9. QED
  BY <1>8

(* One target that has no line yet is served.                              *)
Step(n, run, r, k, full, amount) ==
    /\ Fits(n, r, amount)
    /\ \A j \in 1..n : j # k => Keeps(n, run, r, j)
    /\ full => Met(r, k)

LEMMA ServeSteps ==
  ASSUME NEW n, PlanFor(n), NEW run, NEW amount \in Nat, Fits(n, run, amount),
         NEW k \in 1..n, Fresh(run, k), NEW full, NEW r, Serves(run, k, full, r)
  PROVE Step(n, run, r, k, full, amount)
<1>0. run \in RunOf /\ run.left \in Nat
  BY DEF Fits, RunOf
<1>1. CASE r = run /\ ~full
  BY <1>1 DEF Step, Keeps
<1>2. ASSUME NEW line \in LineOf,
             r = Give(run, line), line.amount <= run.left,
             line.id = IdOf(k), line.amount <= Wants(k),
             full => /\ line.purpose = plan[k].rule.purpose
                     /\ line.requested = Wants(k) /\ line.status # "deferred"
                     /\ line.amount < Wants(k) => line.amount = run.left
      PROVE Step(n, run, r, k, full, amount)
  <2>1. ASSUME NEW j \in 1..n, IdOf(j) = IdOf(k) PROVE j = k
    BY <2>1 DEF PlanFor, IdOf
  <2>2. \A j \in 1..n : j # k => Keeps(n, run, r, j)
    BY <2>1, <1>0, <1>2, LineKeeps
  <2>3. Fits(n, r, amount)
    <3>1. \A j \in 1..n : line.id = IdOf(j) => Fresh(run, j) /\ line.amount <= Wants(j)
      BY <2>1, <1>2
    <3>2. QED
      BY <3>1, <1>0, <1>2, LineFits
  <2>4. ASSUME full PROVE Met(r, k)
    <3> DEFINE m == Len(run.lines)
               id == IdOf(k)
    <3>1. /\ Longer(run, line, r) /\ GivenMore(run, line, r)
      BY <1>0, <1>2, LineGiven
    <3>2. id \in Names /\ Given(id, run.lines) = 0 /\ line.id = id /\ line.amount \in Nat
          /\ m \in Nat
      <4>1. id \in Names /\ line.id = id
        BY <1>2, WantsType
      <4>2. Given(id, run.lines) = 0
        BY <1>0, FreshIsGivenNothing
      <4>3. line.amount \in Nat
        BY <1>2 DEF LineOf
      <4>4. m \in Nat
        BY <1>0 DEF RunOf
      <4>5. QED
        BY <4>1, <4>2, <4>3, <4>4
    <3>3. Given(id, r.lines) = line.amount
      <4> HIDE DEF id
      <4>1. QED BY <3>1, <3>2 DEF GivenMore
    <3>4. line.amount < Wants(k) => r.left = 0
      BY <2>4, <1>0, <1>2, <3>1, <3>2 DEF Longer
    <3>5. MetBy(r, k, line)
      BY <2>4, <1>2, <3>3, <3>4 DEF MetBy
    <3>6. m + 1 \in 1..Len(r.lines) /\ r.lines[m + 1] = line
      BY <3>1, <3>2 DEF Longer
    <3>7. QED
      BY <3>5, <3>6 DEF Met
  <2>5. QED
    BY <2>2, <2>3, <2>4 DEF Step
<1>3. QED
  BY <1>1, <1>2 DEF Serves

(***************************************************************************)
(* A pass keeps what earlier ones did, and serves each of its targets once.*)
(***************************************************************************)
LEMMA KeepsOn ==
  ASSUME NEW n, NEW q, NEW r, NEW s, NEW k, Keeps(n, q, r, k), Keeps(n, r, s, k)
  PROVE Keeps(n, q, s, k)
BY DEF Keeps

(* The first i targets of a pass.                                          *)
Part(n, run, r, order, i, payDate, after, pass, amount) ==
    /\ Fits(n, r, amount)
    /\ \A k \in 1..n : (\A j \in 1..i : order[j] # k) => Keeps(n, run, r, k)
    /\ \A j \in 1..i : Whole(order[j], payDate, after, pass) => Met(r, order[j])

Apart(q, c) == \A j, k \in 1..c : q[j] = q[k] => j = k
GoesOn(n, run, r, s, order, i, payDate, after, pass, amount) ==
    /\ Part(n, run, s, order, i + 1, payDate, after, pass, amount)
    /\ Step(n, r, s, order[i + 1], Whole(order[i + 1], payDate, after, pass), amount)
    /\ Fresh(r, order[i + 1]) /\ r \in RunOf
LEMMA PartGrows ==
  ASSUME NEW n, PlanFor(n), NEW c \in Nat, NEW run, NEW order \in [1..c -> 1..n],
         Apart(order, c),
         NEW payDate, NEW after \in Nat, NEW pass \in {"urgent", "required", "rest"},
         NEW amount \in Nat, NEW i \in Nat, i + 1 <= c, Fresh(run, order[i + 1]),
         NEW r, Part(n, run, r, order, i, payDate, after, pass, amount),
         NEW s, s = Serve(r, plan[order[i + 1]], payDate, after, pass)
  PROVE GoesOn(n, run, r, s, order, i, payDate, after, pass, amount)
<1> DEFINE k == order[i + 1]
           full == Whole(k, payDate, after, pass)
<1>1. k \in 1..n /\ \A j \in 1..i : order[j] # k /\ j \in 1..c
  <2>1. i + 1 \in 1..c
    OBVIOUS
  <2>2. \A j \in 1..i : j \in 1..c /\ j # i + 1
    OBVIOUS
  <2>3. QED
    BY <2>1, <2>2 DEF Apart
<1>2. Fits(n, r, amount) /\ r \in RunOf /\ Keeps(n, run, r, k)
  BY <1>1 DEF Part, Fits
<1>3. Fresh(r, k)
  BY <1>2 DEF Keeps
<1> HIDE DEF k
<1>4. Serves(r, k, full, s)
  BY <1>1, <1>2, ServeFacts DEF k
<1> HIDE DEF full
<1>5. Step(n, r, s, k, full, amount)
  BY <1>1, <1>2, <1>3, <1>4, ServeSteps
<1>6. ASSUME NEW x \in 1..n, \A j \in 1..(i + 1) : order[j] # x PROVE Keeps(n, run, s, x)
  <2>1. x # k /\ \A j \in 1..i : order[j] # x
    <3>1. i + 1 \in 1..(i + 1) /\ \A j \in 1..i : j \in 1..(i + 1)
      OBVIOUS
    <3>2. QED
      BY <3>1, <1>6 DEF k
  <2>2. Keeps(n, run, r, x)
    BY <2>1 DEF Part
  <2>3. Keeps(n, r, s, x)
    BY <2>1, <1>5 DEF Step
  <2>4. QED
    BY <2>2, <2>3, KeepsOn
<1>7. ASSUME NEW j \in 1..(i + 1), Whole(order[j], payDate, after, pass) PROVE Met(s, order[j])
  <2>1. CASE j = i + 1
    BY <2>1, <1>5, <1>7 DEF Step, full, k
  <2>2. CASE j # i + 1
    <3>1. j \in 1..i
      BY <2>2
    <3>2. Met(r, order[j]) /\ order[j] # k /\ order[j] \in 1..n
      BY <3>1, <1>1, <1>7 DEF Part
    <3>3. Keeps(n, r, s, order[j])
      BY <3>2, <1>5 DEF Step
    <3>4. QED
      BY <3>2, <3>3 DEF Keeps
  <2>3. QED
    BY <2>1, <2>2
<1>8. Part(n, run, s, order, i + 1, payDate, after, pass, amount)
  BY <1>5, <1>6, <1>7 DEF Part, Step
<1>9. QED
  BY <1>2, <1>3, <1>5, <1>8 DEF k, full, GoesOn

(* A pass over targets that have no line yet.                              *)
Passed(n, run, r, S, payDate, after, pass, amount) ==
    /\ Fits(n, r, amount)
    /\ \A k \in 1..n : k \notin S => Keeps(n, run, r, k)
    /\ \A k \in S : Whole(k, payDate, after, pass) => Met(r, k)
Turns(q, c, S, n) ==
    /\ S \in SUBSET (1..n) /\ c \in Nat /\ q \in [1..c -> S]
    /\ \A x \in S : \E k \in 1..c : q[k] = x
    /\ \A j, k \in 1..c : q[j] = q[k] => j = k

LEMMA PassFacts ==
  ASSUME NEW n, PlanFor(n), NEW S, NEW c, NEW order, Turns(order, c, S, n),
         NEW payDate, NEW after \in Nat, NEW pass \in {"urgent", "required", "rest"},
         NEW amount \in Nat, NEW run, Fits(n, run, amount), \A k \in S : Fresh(run, k)
  PROVE Passed(n, run, ServeAll(run, order, payDate, after, pass), S, payDate, after, pass, amount)
<1> DEFINE r == ServeAll(run, order, payDate, after, pass)
<1>1. c \in Nat /\ order \in [1..c -> 1..n] /\ run \in RunOf
  BY DEF Turns, Fits
<1>11. Apart(order, c)
  BY DEF Turns, Apart
<1> HIDE DEF r
<1>2. PICK g : Serving(g, c, run, order, payDate, after, pass)
  BY <1>1, ServeAllTrace
<1> DEFINE Done == {i \in Nat : i <= c =>
                       Part(n, run, g[i], order, i, payDate, after, pass, amount)}
<1>3. 0 \in Done
  <2>1. g[0] = run
    BY <1>2 DEF Serving
  <2>2. \A k \in 1..n : Keeps(n, run, run, k)
    BY DEF Keeps
  <2>3. Part(n, run, run, order, 0, payDate, after, pass, amount)
    BY <2>2, 1..0 = {} DEF Part
  <2>4. QED
    BY <2>1, <2>3
<1>4. ASSUME NEW i \in Nat, i \in Done PROVE i + 1 \in Done
  <2>1. ASSUME i + 1 <= c
        PROVE Part(n, run, g[i + 1], order, i + 1, payDate, after, pass, amount)
    <3>1. i + 1 \in 1..c /\ (i + 1) - 1 = i /\ i <= c
      BY <2>1, <1>1
    <3>2. Part(n, run, g[i], order, i, payDate, after, pass, amount)
      BY <1>4, <3>1
    <3>3. g[i + 1] = Serve(g[i], plan[order[i + 1]], payDate, after, pass)
      BY <1>2, <3>1 DEF Serving
    <3>4. Fresh(run, order[i + 1])
      BY <3>1 DEF Turns
    <3>5. GoesOn(n, run, g[i], g[i + 1], order, i, payDate, after, pass, amount)
      BY <1>1, <1>11, <2>1, <3>2, <3>3, <3>4, PartGrows, ZenonT(40)
    <3>6. QED
      BY <3>5 DEF GoesOn
  <2>2. QED
    BY <2>1
<1>5. Part(n, run, g[c], order, c, payDate, after, pass, amount)
  <2>1. Nat \subseteq Done
    <3> HIDE DEF Done
    <3>1. QED BY <1>3, <1>4, SetInduction
  <2>2. QED
    BY <2>1, <1>1
<1>6. r = g[c]
  BY <1>2 DEF Serving, r
<1>7. \A k \in 1..n : k \notin S => \A j \in 1..c : order[j] # k
  BY DEF Turns
<1>8. \A k \in S : \E j \in 1..c : order[j] = k
  BY DEF Turns
<1> HIDE DEF r
<1>9. Passed(n, run, r, S, payDate, after, pass, amount)
  BY <1>5, <1>6, <1>7, <1>8 DEF Part, Passed
<1>10. QED
  BY <1>9 DEF r

(***************************************************************************)
(* The orders in which the passes take the targets.                        *)
(***************************************************************************)
(* The calendar's numbers.                                                 *)
LEMMA DaysInType ==
  ASSUME NEW y, NEW m
  PROVE DaysIn(y, m) \in Int
<1>1. CASE m = Feb
  BY <1>1 DEF DaysIn
<1>2. CASE m # Feb
  BY <1>2 DEF DaysIn
<1>3. QED
  BY <1>1, <1>2

LEMMA DayType ==
  ASSUME NEW y \in Int, NEW m \in 1..12, NEW d \in Int
  PROVE Day(y, m, d) \in Int
<1>1. DaysBefore[m] \in Int
  <2> DEFINE n == m - 1
             a == [k \in 1..n |-> DaysIn(1, k)]
  <2>1. n \in Nat
    OBVIOUS
  <2>2. a \in [1..n -> Int]
    BY DaysInType
  <2>3. DaysBefore[m] = SumOf(a)
    BY DEF DaysBefore
  <2> HIDE DEF n, a
  <2>4. QED
    BY <2>1, <2>2, <2>3, SumType
<1>2. \A q \in {4, 100, 400} : (y - 1) \div q \in Int
  OBVIOUS
<1>3. QED
  BY <1>1, <1>2 DEF Day

LEMMA LaterType ==
  ASSUME NEW date \in Int
  PROVE Later(date) \in Int
<1>1. Day(LastYear, Dec, 31) \in Int
  <2> DEFINE m == 12
             d == 31
  <2>1. LastYear \in Int /\ m \in 1..12 /\ d \in Int
    BY YearsAssumption
  <2> HIDE DEF m, d
  <2>2. Day(LastYear, m, d) \in Int
    BY <2>1, DayType
  <2>3. QED
    BY <2>2 DEF Dec, m, d
<1>2. QED
  BY <1>1 DEF Later

(* The orders of the passes.                                               *)
LEMMA PlacesTurn ==
  ASSUME NEW n \in Nat, NEW S \in SUBSET (1..n), NEW a \in [1..n -> Int], NEW b \in [1..n -> Int]
  PROVE /\ Turns(InKeyOrder(S, a, b), Cardinality(S), S, n)
        /\ \A j, k \in 1..Cardinality(S) :
              j <= k => a[InKeyOrder(S, a, b)[j]] <= a[InKeyOrder(S, a, b)[k]]
<1> DEFINE q == InKeyOrder(S, a, b)
           ahead == [x \in S |-> {y \in S : ByKeys(a, b, y, x)}]
           c == Cardinality(S)
<1>1. Lists(q, S, ahead)
  BY KeyOrderLists
<1>2. \A x, y \in S : y \in ahead[x] => ByKeys(a, b, y, x)
  OBVIOUS
<1> HIDE DEF q, ahead
<1>3. c \in Nat /\ q \in [1..c -> S] /\ Turns(q, c, S, n)
  BY <1>1 DEF Lists, Turns
<1>4. ASSUME NEW j \in 1..c, NEW k \in 1..c, j <= k PROVE a[q[j]] <= a[q[k]]
  <2>1. q[j] \in S /\ q[k] \in S
    BY <1>3
  <2>4. a[q[j]] \in Int /\ a[q[k]] \in Int
    BY <2>1
  <2>2. CASE j = k
    BY <2>4, <2>2
  <2>3. CASE j < k
    <3>1. q[j] \in ahead[q[k]]
      BY <2>3, <1>1 DEF Lists
    <3>2. ByKeys(a, b, q[j], q[k])
      BY <3>1, <2>1, <1>2
    <3>3. QED
      BY <3>2, <2>4 DEF ByKeys
  <2>5. QED
    BY <2>2, <2>3, <1>4, <1>3
<1>5. QED
  BY <1>3, <1>4 DEF q

DeadlineFirst(n, q, c) ==
    \A j, k \in 1..c : j <= k => Later(plan[q[j]].due) <= Later(plan[q[k]].due)

LEMMA DeadlineTurns ==
  ASSUME NEW n, PlanFor(n), NEW S \in SUBSET (1..n)
  PROVE /\ Turns(ByDeadline(S), Cardinality(S), S, n)
        /\ DeadlineFirst(n, ByDeadline(S), Cardinality(S))
<1> DEFINE a == [k \in DOMAIN plan |-> Later(plan[k].due)]
           b == [k \in DOMAIN plan |-> plan[k].rule.priority]
           q == InKeyOrder(S, a, b)
           c == Cardinality(S)
<1>1. n \in Nat /\ DOMAIN plan = 1..n
  BY DEF PlanFor
<1>2. a \in [1..n -> Int]
  BY <1>1, LaterType DEF PlanFor
<1>3. b \in [1..n -> Int]
  BY <1>1 DEF PlanFor
<1>4. ByDeadline(S) = q
  BY DEF ByDeadline, Priorities
<1>5. \A k \in 1..n : a[k] = Later(plan[k].due)
  BY <1>1
<1> HIDE DEF a, b
<1>6. Turns(q, c, S, n) /\ \A j, k \in 1..c : j <= k => a[q[j]] <= a[q[k]]
  BY <1>1, <1>2, <1>3, PlacesTurn
<1> HIDE DEF q, c
<1>7. \A k \in 1..c : q[k] \in 1..n
  BY <1>6 DEF Turns
<1>8. DeadlineFirst(n, q, c)
  BY <1>5, <1>6, <1>7 DEF DeadlineFirst
<1>9. QED
  BY <1>4, <1>6, <1>8 DEF c

LEMMA PriorityTurns ==
  ASSUME NEW n, PlanFor(n), NEW S \in SUBSET (1..n)
  PROVE Turns(ByPriority(S), Cardinality(S), S, n)
<1> DEFINE a == [k \in DOMAIN plan |-> IF Elastic(plan[k]) THEN 1 ELSE 0]
           b == [k \in DOMAIN plan |-> plan[k].rule.priority]
<1>1. n \in Nat /\ DOMAIN plan = 1..n
  BY DEF PlanFor
<1>2. a \in [1..n -> Int]
  BY <1>1
<1>3. b \in [1..n -> Int]
  BY <1>1 DEF PlanFor
<1>4. ByPriority(S) = InKeyOrder(S, a, b)
  BY DEF ByPriority, Priorities
<1> HIDE DEF a, b
<1>5. QED
  BY <1>1, <1>2, <1>3, <1>4, PlacesTurn

(* The urgent targets: the money goes to the earliest first.               *)
LEMMA NewLines ==
  ASSUME NEW run \in RunOf, NEW k, NEW full, NEW r, Serves(run, k, full, r),
         NEW i \in 1..Len(r.lines)
  PROVE r.lines[i].id = IdOf(k) \/ \E j \in 1..Len(run.lines) : run.lines[j] = r.lines[i]
<1>1. CASE r = run
  BY <1>1
<1>2. ASSUME NEW line \in LineOf, r = Give(run, line), line.amount <= run.left, line.id = IdOf(k)
      PROVE r.lines[i].id = IdOf(k) \/ \E j \in 1..Len(run.lines) : run.lines[j] = r.lines[i]
  <2>1. Longer(run, line, r) /\ Len(run.lines) \in Nat
    BY <1>2, LineGiven DEF RunOf
  <2>2. i = Len(run.lines) + 1 \/ i \in 1..Len(run.lines)
    BY <2>1 DEF Longer
  <2>3. QED
    BY <2>1, <2>2, <1>2 DEF Longer
<1>3. QED
  BY <1>1, <1>2 DEF Serves

UrgentSoFar(n, r, order, i, payDate) ==
    /\ \A l \in 1..Len(r.lines) : \E j \in 1..i : r.lines[l].id = IdOf(order[j])
    /\ \A j \in 1..i : ~Skipped(plan[order[j]], payDate) => First(n, r, order[j])

LEMMA UrgentGrows ==
  ASSUME NEW n, PlanFor(n), NEW c \in Nat, NEW run, NEW order \in [1..c -> 1..n],
         Apart(order, c), DeadlineFirst(n, order, c), \A j \in 1..c : Wants(order[j]) > 0,
         NEW payDate, NEW after \in Nat, NEW amount \in Nat, NEW i \in Nat, i + 1 <= c,
         NEW r \in RunOf, NEW s, s = Serve(r, plan[order[i + 1]], payDate, after, "urgent"),
         GoesOn(n, run, r, s, order, i, payDate, after, "urgent", amount),
         UrgentSoFar(n, r, order, i, payDate)
  PROVE UrgentSoFar(n, s, order, i + 1, payDate)
<1> DEFINE k == order[i + 1]
<1>1. k \in 1..n /\ i + 1 \in 1..c /\ i + 1 \in 1..(i + 1)
      /\ \A j \in 1..i : j \in 1..c /\ j \in 1..(i + 1) /\ j <= i + 1 /\ j # i + 1
  <2>1. i + 1 \in 1..c /\ i + 1 \in 1..(i + 1)
    OBVIOUS
  <2>2. \A j \in 1..i : j \in 1..c /\ j \in 1..(i + 1) /\ j <= i + 1 /\ j # i + 1
    OBVIOUS
  <2>3. QED
    BY <2>1, <2>2
<1>2. Serves(r, k, Whole(k, payDate, after, "urgent"), s)
  BY <1>1, ServeFacts
<1>3. Step(n, r, s, k, Whole(k, payDate, after, "urgent"), amount)
  BY DEF GoesOn
<1>4. \A j \in 1..i : order[j] # k /\ order[j] \in 1..n
  BY <1>1 DEF Apart
<1>5. \A j \in 1..(i + 1) : j = i + 1 \/ j \in 1..i
  OBVIOUS
<1>6. Wants(k) > 0
  BY <1>1
<1>12. \A j \in 1..i : Later(plan[order[j]].due) <= Later(plan[k].due)
  BY <1>1 DEF DeadlineFirst
<1>13. Later(plan[k].due) <= Later(plan[k].due)
  <2>1. plan[k].due \in Int
    BY <1>1 DEF PlanFor
  <2> DEFINE d == plan[k].due
  <2> HIDE DEF d, k
  <2>2. Later(d) \in Int
    BY <2>1, LaterType DEF d
  <2>3. QED
    BY <2>2 DEF d
<1> HIDE DEF k
<1>7. ASSUME NEW l \in 1..Len(s.lines)
      PROVE s.lines[l].id = IdOf(k) \/ \E j \in 1..i : s.lines[l].id = IdOf(order[j])
  <2>1. s.lines[l].id = IdOf(k) \/ \E m \in 1..Len(r.lines) : r.lines[m] = s.lines[l]
    BY <1>2, NewLines, SMTT(30)
  <2>2. QED
    BY <2>1 DEF UrgentSoFar
<1>8. \A l \in 1..Len(s.lines) : \E j \in 1..(i + 1) : s.lines[l].id = IdOf(order[j])
  BY <1>1, <1>7 DEF k
<1>9. ASSUME NEW j \in 1..i, ~Skipped(plan[order[j]], payDate) PROVE First(n, s, order[j])
  <2>1. First(n, r, order[j])
    BY <1>9 DEF UrgentSoFar
  <2>2. QED
    BY <2>1, <1>3, <1>4 DEF Step, Keeps
<1>10. ASSUME ~Skipped(plan[k], payDate) PROVE First(n, s, k)
  <2>1. Met(s, k)
    BY <1>3, <1>6, <1>10 DEF Whole, Step
  <2>2. Given(IdOf(k), s.lines) < Wants(k) => s.left = 0
    BY <2>1 DEF Met, MetBy
  <2>3. ASSUME NEW l \in 1..Len(s.lines) PROVE NoLater(n, k, s.lines[l].id)
    <3>1. CASE s.lines[l].id = IdOf(k)
      BY <3>1, <1>1, <1>13 DEF NoLater, k
    <3>2. CASE \E j \in 1..i : s.lines[l].id = IdOf(order[j])
      <4>1. PICK j \in 1..i : s.lines[l].id = IdOf(order[j])
        BY <3>2
      <4>2. order[j] \in 1..n /\ Later(plan[order[j]].due) <= Later(plan[k].due)
        BY <1>4, <1>12
      <4>3. QED
        BY <4>1, <4>2 DEF NoLater
    <3>3. QED
      BY <3>1, <3>2, <1>7
  <2>4. QED
    BY <2>2, <2>3 DEF First
<1>11. QED
  BY <1>5, <1>8, <1>9, <1>10 DEF UrgentSoFar, k

(***************************************************************************)
(* A deposit, from its amount to its last line.                            *)
(***************************************************************************)
Start(amount) == [left |-> amount, lines |-> <<>>]
LEMMA StartFits ==
  ASSUME NEW n, PlanFor(n), NEW amount \in Nat
  PROVE /\ Fits(n, Start(amount), amount)
        /\ Start(amount).lines = <<>> /\ \A k \in 1..n : Fresh(Start(amount), k)
<1> DEFINE run == Start(amount)
           empty == <<>>
<1>1. run.left = amount /\ run.lines = empty /\ Len(empty) = 0 /\ run \in RunOf
  BY DEF Start, RunOf
<1>2. Allocated(empty) = 0
  <2> DEFINE m == 0
             a == [i \in 1..m |-> empty[i].amount]
  <2>1. m \in Nat /\ DOMAIN empty = 1..m /\ \A i \in 1..m : FALSE
    OBVIOUS
  <2>2. Allocated(empty) = SumOf(a)
    BY <2>1 DEF Allocated, Amounts
  <2>3. a \in [1..m -> Int] /\ \A i \in 1..m : a[i] = 0
    BY <2>1
  <2> HIDE DEF m, a
  <2>4. QED
    BY <2>1, <2>2, <2>3, SumOfNone
<1>3. \A k \in 1..n : Fresh(run, k)
  BY <1>1, 1..0 = {} DEF Fresh
<1>4. ASSUME NEW k \in 1..n PROVE Given(IdOf(k), run.lines) <= Wants(k)
  <2>1. Given(IdOf(k), run.lines) = 0
    BY <1>1, <1>3, FreshIsGivenNothing
  <2>2. QED
    BY <2>1, WantsType
<1> HIDE DEF run
<1>5. Fits(n, run, amount)
  BY <1>1, <1>2, <1>4 DEF Fits
<1>6. QED
  BY <1>1, <1>3, <1>5 DEF run

LEMMA UrgentPass ==
  ASSUME NEW n, PlanFor(n), NEW S, NEW c, NEW order, Turns(order, c, S, n),
         DeadlineFirst(n, order, c), \A k \in S : Wants(k) > 0,
         NEW payDate, NEW after \in Nat, NEW amount \in Nat
  PROVE \A k \in S : ~Skipped(plan[k], payDate) =>
           First(n, ServeAll(Start(amount), order, payDate, after, "urgent"), k)
<1> DEFINE run == Start(amount)
           pass == "urgent"
           r == ServeAll(run, order, payDate, after, pass)
<1>1. c \in Nat /\ order \in [1..c -> 1..n]
  BY DEF Turns
<1>2. Apart(order, c)
  BY DEF Turns, Apart
<1>3. \A j \in 1..c : Wants(order[j]) > 0
  BY DEF Turns
<1>4. /\ Fits(n, run, amount) /\ run \in RunOf /\ run.lines = <<>>
      /\ \A k \in 1..n : Fresh(run, k)
  BY StartFits DEF Fits
<1>5. pass \in {"urgent", "required", "rest"}
  OBVIOUS
<1> HIDE DEF run, r
<1>6. PICK g : Serving(g, c, run, order, payDate, after, pass)
  <2> HIDE DEF pass
  <2>1. QED BY <1>1, <1>4, <1>5, ServeAllTrace
<1> DEFINE Done == {i \in Nat : i <= c =>
                       /\ Part(n, run, g[i], order, i, payDate, after, pass, amount)
                       /\ UrgentSoFar(n, g[i], order, i, payDate)}
<1>7. 0 \in Done
  <2>1. g[0] = run
    BY <1>6 DEF Serving
  <2>2. \A k \in 1..n : Keeps(n, run, run, k)
    BY DEF Keeps
  <2>3. Part(n, run, run, order, 0, payDate, after, pass, amount)
    BY <2>2, <1>4, 1..0 = {} DEF Part
  <2>4. UrgentSoFar(n, run, order, 0, payDate)
    <3>1. Len(run.lines) = 0
      BY <1>4
    <3>2. QED
      BY <3>1, 1..0 = {} DEF UrgentSoFar
  <2>5. QED
    BY <2>1, <2>3, <2>4
<1>8. ASSUME NEW i \in Nat, i \in Done PROVE i + 1 \in Done
  <2>1. ASSUME i + 1 <= c
        PROVE /\ Part(n, run, g[i + 1], order, i + 1, payDate, after, pass, amount)
              /\ UrgentSoFar(n, g[i + 1], order, i + 1, payDate)
    <3>1. i + 1 \in 1..c /\ (i + 1) - 1 = i /\ i <= c
      BY <2>1, <1>1
    <3>2. /\ Part(n, run, g[i], order, i, payDate, after, pass, amount)
          /\ UrgentSoFar(n, g[i], order, i, payDate)
      BY <1>8, <3>1
    <3>3. g[i + 1] = Serve(g[i], plan[order[i + 1]], payDate, after, pass)
      BY <1>6, <3>1 DEF Serving
    <3>4. Fresh(run, order[i + 1])
      BY <3>1, <1>1, <1>4
    <3>5. GoesOn(n, run, g[i], g[i + 1], order, i, payDate, after, pass, amount)
      <4> HIDE DEF pass
      <4>1. QED BY <1>1, <1>2, <1>5, <2>1, <3>2, <3>3, <3>4, PartGrows, ZenonT(40)
    <3>6. g[i] \in RunOf
      BY <3>5 DEF GoesOn
    <3>7. UrgentSoFar(n, g[i + 1], order, i + 1, payDate)
      BY <1>1, <1>2, <1>3, <2>1, <3>2, <3>3, <3>5, <3>6, UrgentGrows
    <3>8. QED
      BY <3>5, <3>7 DEF GoesOn
  <2>2. QED
    BY <2>1
<1>9. UrgentSoFar(n, g[c], order, c, payDate)
  <2>1. Nat \subseteq Done
    <3> HIDE DEF Done
    <3>1. QED BY <1>7, <1>8, SetInduction
  <2>2. QED
    BY <2>1, <1>1
<1>10. r = g[c]
  BY <1>6 DEF Serving, r
<1>11. \A k \in S : \E j \in 1..c : order[j] = k
  BY DEF Turns
<1>12. \A k \in S : ~Skipped(plan[k], payDate) => First(n, r, k)
  BY <1>9, <1>10, <1>11 DEF UrgentSoFar
<1>13. QED
  BY <1>12 DEF r, run, pass

(* The floor is held in the account's own name.                            *)
LEMMA FloorHeld ==
  ASSUME NEW n, PlanFor(n), NEW run, NEW amount \in Nat, Fits(n, run, amount)
  PROVE /\ Fits(n, HoldFloor(run), amount)
        /\ \A k \in 1..n : Keeps(n, run, HoldFloor(run), k)
<1> DEFINE S == {i \in DOMAIN plan : plan[i].rule.purpose = "buffer"}
           buffers == Where(plan, LAMBDA t : t.rule.purpose = "buffer")
           c == Cardinality(S)
           kept == Ascending(S)
<1>1. n \in Nat /\ DOMAIN plan = 1..n /\ S \in SUBSET (1..n) /\ run \in RunOf
      /\ run.left \in Nat
  BY DEF PlanFor, Fits, RunOf
<1>2. buffers = [k \in DOMAIN kept |-> plan[kept[k]]]
  BY DEF Where
<1>3. Picks(buffers, plan, S, c, kept)
  <2> HIDE DEF S
  <2>1. QED BY <1>1, <1>2, AscendingPicks
<1> HIDE DEF S, buffers, c, kept
<1>4. DOMAIN buffers = 1..c /\ c \in Nat
  BY <1>3 DEF Picks
<1>5. CASE DOMAIN buffers = {}
  <2>1. HoldFloor(run) = run
    BY <1>5 DEF HoldFloor, buffers
  <2>2. QED
    BY <2>1 DEF Keeps
<1>6. CASE DOMAIN buffers # {}
  <2>1. 1 \in 1..c
    BY <1>4, <1>6
  <2> DEFINE i == kept[1]
             floor == plan[i].target
             line == [id |-> "floor", purpose |-> "buffer",
                      amount |-> Smaller(floor, run.left), requested |-> floor,
                      status |-> "funded", urgency |-> "protected_floor"]
  <2>2. buffers[1] = plan[i] /\ i \in 1..n
    BY <2>1, <1>1, <1>3 DEF Picks
  <2>3. floor \in Nat
    BY <2>2 DEF PlanFor
  <2>4. HoldFloor(run) = Give(run, line)
    BY <2>2, <1>6 DEF HoldFloor, buffers
  <2> HIDE DEF floor
  <2>5. line.amount \in Nat /\ line.amount <= run.left /\ line.id = "floor"
    BY <2>3, <1>1 DEF Smaller
  <2>6. line \in LineOf
    BY <2>3, <2>5 DEF LineOf, Names, Statuses, Urgencies
  <2> HIDE DEF line
  <2>7. \A k \in 1..n : IdOf(k) # line.id
    BY <2>5, WantsType
  <2>8. Fits(n, Give(run, line), amount)
    BY <2>5, <2>6, <2>7, LineFits
  <2>9. \A k \in 1..n : Keeps(n, run, Give(run, line), k)
    BY <1>1, <2>5, <2>6, <2>7, LineKeeps
  <2>10. QED
    BY <2>4, <2>8, <2>9
<1>7. QED
  BY <1>5, <1>6

(* The passes together.                                                    *)
Closes(n, r, amount, payDate, nextDate, after) ==
    /\ Fits(n, r, amount)
    /\ \A k \in Urgent(nextDate) : ~Skipped(plan[k], payDate) => First(n, r, k)
    /\ after = 0 => \A k \in Short : ~Skipped(plan[k], payDate) => Met(r, k)

LEMMA PassesClose ==
  ASSUME NEW n, PlanFor(n), NEW amount \in Nat, NEW payDate, NEW nextDate, NEW after \in Nat
  PROVE Closes(n, Passes(amount, payDate, nextDate, after), amount, payDate, nextDate, after)
<1> DEFINE run == Start(amount)
           U == Urgent(nextDate)
           first == ServeAll(run, ByDeadline(U), payDate, after, "urgent")
           second == HoldFloor(first)
           D == DueLater(nextDate)
           third == ServeAll(second, ByDeadline(D), payDate, after, "required")
           R == Rest(third)
           last == ServeAll(third, ByPriority(R), payDate, after, "rest")
<1>1. Passes(amount, payDate, nextDate, after) = last
  BY DEF Passes, Start
<1>2. U \in SUBSET (1..n) /\ D \in SUBSET (1..n) /\ R \in SUBSET (1..n)
      /\ Short \in SUBSET (1..n)
  BY DEF PlanFor, Urgent, DueLater, Rest, Short
<1>3. /\ \A k \in U : k \in Short /\ k \notin D
      /\ \A k \in D : k \in Short
  BY DEF Urgent, DueLater
<1>4. \A k \in Short : Wants(k) > 0
  BY DEF Short, Wants
<1>5. \A k \in Short : k \in U \/ k \in D \/ k \notin U \union D
  OBVIOUS
<1>6. Fits(n, run, amount) /\ \A k \in 1..n : Fresh(run, k)
  BY StartFits
<1>7. Turns(ByDeadline(U), Cardinality(U), U, n) /\ DeadlineFirst(n, ByDeadline(U), Cardinality(U))
  BY <1>2, DeadlineTurns
<1>8. Turns(ByDeadline(D), Cardinality(D), D, n)
  BY <1>2, DeadlineTurns
<1>9. Turns(ByPriority(R), Cardinality(R), R, n)
  BY <1>2, PriorityTurns
<1>10. \A k \in R : Fresh(third, k)
  <2> HIDE DEF third
  <2>1. QED BY DEF Rest, Fresh, IdOf
<1>14. \A k \in Short : k \notin R => ~Fresh(third, k)
  BY DEF Rest, Fresh, IdOf
<1> HIDE DEF run, U, D, R, first, second, third, last
<1>11. Passed(n, run, first, U, payDate, after, "urgent", amount)
  <2>1. \A k \in U : Fresh(run, k)
    BY <1>2, <1>6
  <2>2. QED
    BY <2>1, <1>6, <1>7, PassFacts DEF first
<1>12. \A k \in U : ~Skipped(plan[k], payDate) => First(n, first, k)
  <2>1. \A k \in U : Wants(k) > 0
    BY <1>3, <1>4
  <2>2. QED
    BY <2>1, <1>7, UrgentPass DEF first, run
<1>13. Fits(n, second, amount) /\ \A k \in 1..n : Keeps(n, first, second, k)
  BY <1>11, FloorHeld DEF Passed, second
<1>15. \A k \in D : Fresh(second, k)
  BY <1>2, <1>3, <1>6, <1>11, <1>13 DEF Passed, Keeps
<1>16. Passed(n, second, third, D, payDate, after, "required", amount)
  BY <1>8, <1>13, <1>15, PassFacts DEF third
<1>17. Passed(n, third, last, R, payDate, after, "rest", amount)
  BY <1>9, <1>10, <1>16, PassFacts DEF last, Passed
<1>18. \A k \in 1..n : Met(third, k) => k \notin R
  BY <1>10 DEF Met, MetBy, Fresh
<1>19. ASSUME NEW k \in U, ~Skipped(plan[k], payDate) PROVE Met(last, k) /\ First(n, last, k)
  <2>1. Met(first, k) /\ First(n, first, k) /\ k \in 1..n /\ k \notin D
    BY <1>2, <1>3, <1>4, <1>11, <1>12, <1>19 DEF Passed, Whole
  <2>2. Met(second, k) /\ First(n, second, k)
    BY <2>1, <1>13 DEF Keeps
  <2>3. Met(third, k) /\ First(n, third, k)
    BY <2>1, <2>2, <1>16 DEF Passed, Keeps
  <2>4. k \notin R
    BY <2>1, <2>3, <1>18
  <2>5. QED
    BY <2>1, <2>3, <2>4, <1>17 DEF Passed, Keeps
<1>20. ASSUME after = 0, NEW k \in Short, ~Skipped(plan[k], payDate) PROVE Met(last, k)
  <2>1. k \in 1..n /\ Wants(k) > 0
    BY <1>2, <1>4
  <2>2. CASE k \in U
    BY <2>2, <1>19, <1>20
  <2>3. CASE k \in D
    <3>1. Met(third, k)
      BY <2>1, <2>3, <1>16, <1>20 DEF Passed, Whole
    <3>2. k \notin R
      BY <2>1, <3>1, <1>18
    <3>3. QED
      BY <2>1, <3>1, <3>2, <1>17 DEF Passed, Keeps
  <2>4. CASE k \notin U /\ k \notin D
    <3>1. Fresh(third, k)
      BY <2>1, <2>4, <1>6, <1>11, <1>13, <1>16 DEF Passed, Keeps
    <3>2. k \in R
      BY <3>1, <1>14
    <3>3. QED
      BY <2>1, <3>2, <1>17, <1>20 DEF Passed, Whole
  <2>5. QED
    BY <2>2, <2>3, <2>4
<1>21. Closes(n, last, amount, payDate, nextDate, after)
  BY <1>17, <1>19, <1>20 DEF Closes, Passed, U
<1>22. QED
  BY <1>1, <1>21

(***************************************************************************)
(* The month's income and its targets.                                     *)
(***************************************************************************)
(* The month's income, and the rules in order.                             *)
Payday(events, c) ==
    /\ c \in Nat /\ events \in [1..c -> PaymentOf]
    /\ \A j, k \in 1..c : j < k => events[j].date <= events[k].date

LEMMA IncomeTyped ==
  ASSUME NEW h \in Homes
  PROVE \E c : Payday(MonthIncome(h), c)
<1> DEFINE S == {i \in DOMAIN h.events : FirstDay <= h.events[i].date /\ h.events[i].date <= LastDay}
           recorded == Where(h.events, LAMBDA e : FirstDay <= e.date /\ e.date <= LastDay)
           kept == Ascending(S)
           seq == IF DOMAIN recorded # {} THEN recorded ELSE Projection(h)
           key == [k \in DOMAIN seq |-> seq[k].date]
<1>1. h.events \in Seq(PaymentOf) /\ Projection(h) \in Seq(PaymentOf)
  BY HomeAssumption
<1>2. MonthIncome(h) = SortBy(seq, key)
  BY DEF MonthIncome, InOrder
<1>3. PICK c \in Nat : DOMAIN seq = 1..c /\ \A k \in 1..c : seq[k] \in PaymentOf
  <2>1. CASE DOMAIN recorded # {}
    <3>1. recorded = [k \in DOMAIN kept |-> h.events[kept[k]]]
      BY DEF Where
    <3>2. PICK n \in Nat : DOMAIN h.events = 1..n /\ \A i \in 1..n : h.events[i] \in PaymentOf
      <4>1. Len(h.events) \in Nat /\ DOMAIN h.events = 1..Len(h.events)
            /\ \A i \in 1..Len(h.events) : h.events[i] \in PaymentOf
        BY <1>1
      <4>2. QED
        BY <4>1
    <3>3. S \in SUBSET (1..n)
      BY <3>2
    <3> HIDE DEF S
    <3>4. Picks(recorded, h.events, S, Cardinality(S), kept)
      BY <3>1, <3>3, AscendingPicks
    <3> HIDE DEF recorded, kept
    <3>5. /\ Cardinality(S) \in Nat /\ DOMAIN recorded = 1..Cardinality(S)
          /\ \A k \in 1..Cardinality(S) : recorded[k] \in PaymentOf
      BY <3>2, <3>3, <3>4 DEF Picks
    <3>6. seq = recorded
      BY <2>1 DEF recorded
    <3> HIDE DEF seq
    <3>7. QED
      BY <3>5, <3>6
  <2>2. CASE ~(DOMAIN recorded # {})
    <3>1. seq = Projection(h)
      BY <2>2
    <3>2. /\ Len(Projection(h)) \in Nat /\ DOMAIN Projection(h) = 1..Len(Projection(h))
          /\ \A k \in 1..Len(Projection(h)) : Projection(h)[k] \in PaymentOf
      BY <1>1
    <3> HIDE DEF seq
    <3>3. QED
      BY <3>1, <3>2
  <2>3. QED
    BY <2>1, <2>2
<1>4. key \in [1..c -> Int] /\ \A k \in 1..c : key[k] = seq[k].date
  <2> HIDE DEF seq
  <2>1. \A k \in 1..c : seq[k].date \in Int
    BY <1>3 DEF PaymentOf
  <2>2. QED
    BY <1>3, <2>1
<1> HIDE DEF seq, key
<1>5. PICK order : Arranges(SortBy(seq, key), seq, c, key, order)
  BY <1>3, <1>4, SortByArranges
<1> DEFINE events == MonthIncome(h)
<1>6. /\ events = [k \in 1..c |-> seq[order[k]]] /\ order \in [1..c -> 1..c]
      /\ \A j, k \in 1..c : j < k => key[order[j]] <= key[order[k]]
  BY <1>2, <1>5 DEF Arranges
<1> HIDE DEF events
<1>7. events \in [1..c -> PaymentOf]
  BY <1>3, <1>6
<1>8. \A j, k \in 1..c : j < k => events[j].date <= events[k].date
  BY <1>4, <1>6
<1>9. QED
  BY <1>7, <1>8 DEF Payday, events

LEMMA SumOfAmounts ==
  ASSUME NEW n \in Nat, NEW a \in [1..n -> Nat]
  PROVE SumOf(a) \in Nat
<1> DEFINE z == [i \in 1..n |-> 0]
<1>1. a \in [1..n -> Int] /\ z \in [1..n -> Int] /\ \A i \in 1..n : z[i] <= a[i] /\ z[i] = 0
  OBVIOUS
<1> HIDE DEF z
<1>2. SumOf(z) = 0
  BY <1>1, SumOfNone
<1>3. SumOf(z) <= SumOf(a)
  BY <1>1, SumMonotone
<1>4. SumOf(a) \in Int
  BY <1>1, SumType
<1>5. QED
  BY <1>2, <1>3, <1>4

LEMMA IncomeIsAmount ==
  ASSUME NEW h \in Homes
  PROVE Income(h) \in Nat
<1>1. PICK c : Payday(MonthIncome(h), c)
  BY IncomeTyped
<1> DEFINE a == [k \in 1..c |-> MonthIncome(h)[k].amount]
<1>2. c \in Nat /\ DOMAIN MonthIncome(h) = 1..c /\ a \in [1..c -> Nat]
  BY <1>1 DEF Payday, PaymentOf
<1>3. Income(h) = SumOf(a)
  BY <1>2 DEF Income, Amounts
<1> HIDE DEF a
<1>4. QED
  BY <1>2, <1>3, SumOfAmounts

LEMMA TargetIsAmount ==
  ASSUME NEW p, RuleTyped(p), NEW asOf \in Int, NEW income \in Nat, NEW committed \in Nat
  PROVE MonthlyTarget(p, asOf, income, committed) \in Nat
<1> DEFINE surplus == ClampMinZero(income - committed)
           base == IF p.base = "surplus_after_commitments" THEN surplus ELSE income
           months == Larger(1, p.targetMonth - asOf)
<1>1. /\ p.method \in Methods /\ p.amount \in Nat /\ p.percent \in Nat /\ p.left \in Nat
      /\ p.targetMonth \in Int
  BY DEF RuleTyped
<1>2. surplus \in Nat /\ base \in Nat
  BY DEF ClampMinZero, Larger
<1>3. months \in Nat /\ months > 0
  BY <1>1 DEF Larger
<1> HIDE DEF surplus, base, months
<1>5. \A x \in Nat : RoundHalfUp(x, 100) \in Nat
  <2> DEFINE d == 100
  <2>1. d \in Nat /\ d > 0
    OBVIOUS
  <2> HIDE DEF d
  <2>2. \A x \in Nat : RoundHalfUp(x, d) \in Nat
    BY <2>1, RoundingType
  <2>3. QED
    BY <2>2 DEF d
<1>6. RoundHalfUp(base * p.percent, 100) \in Nat /\ RoundHalfUp(surplus * p.percent, 100) \in Nat
  <2>1. base * p.percent \in Nat /\ surplus * p.percent \in Nat
    BY <1>1, <1>2, Product
  <2>2. QED
    BY <2>1, <1>5
<1>7. RoundHalfUp(p.left, months) \in Nat
  BY <1>1, <1>3, RoundingType
<1> DEFINE m == MonthlyTarget(p, asOf, income, committed)
<1>8. m = CASE p.method = "fixed" -> p.amount
            [] p.method = "percent_of_income" -> RoundHalfUp(base * p.percent, 100)
            [] p.method = "surplus_share" -> RoundHalfUp(surplus * p.percent, 100)
            [] p.method = "target_balance" -> p.left
            [] p.method = "target_by_date" ->
                  IF p.targetMonth = 0 THEN p.left ELSE RoundHalfUp(p.left, months)
  BY DEF MonthlyTarget, base, surplus, months
<1> HIDE DEF m
<1> DEFINE r1 == RoundHalfUp(base * p.percent, 100)
           r2 == RoundHalfUp(surplus * p.percent, 100)
           r3 == RoundHalfUp(p.left, months)
<1>9. r1 \in Nat /\ r2 \in Nat /\ r3 \in Nat
  BY <1>6, <1>7
<1> HIDE DEF r1, r2, r3
<1>10. m = CASE p.method = "fixed" -> p.amount
            [] p.method = "percent_of_income" -> r1
            [] p.method = "surplus_share" -> r2
            [] p.method = "target_balance" -> p.left
            [] p.method = "target_by_date" -> IF p.targetMonth = 0 THEN p.left ELSE r3
  BY <1>8 DEF r1, r2, r3
<1>11. m \in Nat
  BY <1>1, <1>9, <1>10 DEF Methods
<1>12. QED
  BY <1>11 DEF m

(* The rules, without those paused, by priority: each policy once.         *)
RulesOf(h, rules, m, f) ==
    /\ m \in Nat /\ DOMAIN rules = 1..m /\ f \in [1..m -> DOMAIN h.policies]
    /\ \A k \in 1..m : rules[k] = h.policies[f[k]]
    /\ \A j, k \in 1..m : f[j] = f[k] => j = k

LEMMA RulesFacts ==
  ASSUME NEW h \in Homes
  PROVE \E m, f : RulesOf(h, Rules(h), m, f)
<1> DEFINE S == {i \in DOMAIN h.policies : ~h.policies[i].paused}
           active == Where(h.policies, LAMBDA p : ~p.paused)
           kept == Ascending(S)
           key == [k \in DOMAIN active |-> active[k].priority]
           c == Cardinality(S)
<1>1. PICK n \in Nat : DOMAIN h.policies = 1..n
  BY HomeAssumption
<1>2. S \in SUBSET (1..n)
  BY <1>1
<1>3. active = [k \in DOMAIN kept |-> h.policies[kept[k]]]
  BY DEF Where
<1>4. Rules(h) = SortBy(active, key)
  BY DEF Rules
<1> HIDE DEF S, active
<1>5. Picks(active, h.policies, S, c, kept)
  BY <1>2, <1>3, AscendingPicks
<1> HIDE DEF c, kept
<1>6. /\ c \in Nat /\ DOMAIN active = 1..c /\ kept \in [1..c -> DOMAIN h.policies]
      /\ \A k \in 1..c : active[k] = h.policies[kept[k]]
      /\ \A j, k \in 1..c : kept[j] = kept[k] => j = k
  BY <1>1, <1>2, <1>5 DEF Picks
<1>7. key \in [1..c -> Int]
  <2>1. ASSUME NEW k \in 1..c PROVE active[k].priority \in Int
    <3>1. kept[k] \in DOMAIN h.policies /\ active[k] = h.policies[kept[k]]
      BY <1>6
    <3>2. RuleTyped(h.policies[kept[k]])
      BY <3>1, HomeAssumption
    <3>3. QED
      BY <3>1, <3>2 DEF RuleTyped
  <2>2. QED
    BY <1>6, <2>1
<1> HIDE DEF key
<1>8. PICK order : Arranges(SortBy(active, key), active, c, key, order)
  BY <1>6, <1>7, SortByArranges
<1> DEFINE f == [k \in 1..c |-> kept[order[k]]]
           rules == Rules(h)
<1>9. /\ rules = [k \in 1..c |-> active[order[k]]] /\ order \in [1..c -> 1..c]
      /\ \A j, k \in 1..c : order[j] = order[k] => j = k
  BY <1>4, <1>8 DEF Arranges
<1> HIDE DEF rules
<1>10. RulesOf(h, rules, c, f)
  BY <1>6, <1>9 DEF RulesOf
<1>11. QED
  BY <1>10 DEF rules

LEMMA CommittedIsAmount ==
  ASSUME NEW h \in Homes
  PROVE Committed(h) \in Nat
<1>1. PICK m, f : RulesOf(h, Rules(h), m, f)
  BY RulesFacts
<1> DEFINE rules == Rules(h)
           income == Income(h)
           none == 0
           asOf == h.asOf
           a == [k \in 1..m |-> IF rules[k].purpose \in Required \union Protected
                                THEN MonthlyTarget(rules[k], asOf, income, none) ELSE none]
<1>2. income \in Nat /\ none \in Nat /\ asOf \in Int
  BY IncomeIsAmount, HomeAssumption
<1>3. m \in Nat /\ DOMAIN rules = 1..m
  BY <1>1 DEF RulesOf
<1>4. Committed(h) = SumOf(a)
  BY <1>3 DEF Committed
<1> HIDE DEF rules, income, none, asOf
<1>5. ASSUME NEW k \in 1..m PROVE MonthlyTarget(rules[k], asOf, income, none) \in Nat
  <2>1. RuleTyped(rules[k])
    BY <1>1, HomeAssumption DEF RulesOf, rules
  <2>2. QED
    BY <1>2, <2>1, TargetIsAmount
<1>6. a \in [1..m -> Nat]
  BY <1>2, <1>5
<1> HIDE DEF a
<1>7. QED
  BY <1>3, <1>4, <1>6, SumOfAmounts

LEMMA DueIsDate ==
  ASSUME NEW p, RuleTyped(p)
  PROVE DueDate(p) \in Int
<1>1. p.billDay \in Int /\ p.loanDay \in Int /\ p.ownDay \in Int
  BY DEF RuleTyped
<1>2. FirstOf[Month] \in Int /\ LastOf[Month] \in Int
  <2> DEFINE y == YearAt(Month)
             m == MonthAt(Month)
             d == 1
  <2>1. Month \in AllMonths /\ Month \in Int
    BY HomeAssumption DEF AllMonths
  <2>2. y \in Int /\ m \in 1..12 /\ d \in Int
    BY <2>1 DEF YearAt, MonthAt
  <2>3. FirstOf[Month] = Day(y, m, d)
    BY <2>1 DEF FirstOf
  <2>4. LastOf[Month] = FirstOf[Month] + DaysIn(y, m) - 1
    BY <2>1 DEF LastOf
  <2> HIDE DEF y, m, d
  <2>5. Day(y, m, d) \in Int /\ DaysIn(y, m) \in Int
    BY <2>2, DayType, DaysInType
  <2>6. QED
    BY <2>3, <2>4, <2>5
<1>3. \A day \in Int : \A rule : DayInMonth(Month, day, rule) \in Int
  <2>1. ASSUME NEW day \in Int, NEW rule PROVE DayInMonth(Month, day, rule) \in Int
    <3> DEFINE first == FirstOf[Month]
               end == LastOf[Month]
               date == first + day - 1
               r == DayInMonth(Month, day, rule)
    <3>1. first \in Int /\ end \in Int /\ date \in Int
      BY <1>2
    <3>2. r = CASE date <= end -> date
                [] date > end /\ rule = "last_day_of_month" -> end
                [] date > end /\ rule = "skip" -> NoDate
                [] OTHER -> end + 1
      BY DEF DayInMonth
    <3> HIDE DEF r, first, end, date
    <3>3. r \in Int
      BY <3>1, <3>2 DEF NoDate
    <3>4. QED
      BY <3>3 DEF r
  <2>2. QED
    BY <2>1
<1> DEFINE b == DayInMonth(Month, p.billDay, "last_day_of_month")
           l == DayInMonth(Month, p.loanDay, "last_day_of_month")
           o == DayInMonth(Month, p.ownDay, p.dayRule)
           r == DueDate(p)
<1>4. b \in Int /\ l \in Int /\ o \in Int
  BY <1>1, <1>3
<1>5. r = CASE p.billDay # 0 -> b
            [] p.billDay = 0 /\ p.loanDay # 0 -> l
            [] p.billDay = 0 /\ p.loanDay = 0 /\ p.ownDay # 0 -> o
            [] OTHER -> NoDate
  BY DEF DueDate
<1> HIDE DEF b, l, o, r
<1>6. r \in Int
  BY <1>4, <1>5 DEF NoDate
<1>7. QED
  BY <1>6 DEF r

(* The month's targets, before any deposit.                                *)
OpeningOf(h, targets, n) ==
    /\ n \in Nat /\ DOMAIN targets = 1..n
    /\ \A k \in 1..n :
          /\ RuleTyped(targets[k].rule) /\ targets[k] = Target(h, targets[k].rule)
          /\ targets[k].target \in Nat /\ targets[k].funded \in Nat /\ targets[k].due \in Int
          /\ \A j \in 1..n : targets[j].rule.id = targets[k].rule.id => j = k

LEMMA FundingIsAmount ==
  ASSUME NEW p, RuleTyped(p), NEW asOf
  PROVE FundingFor(p, asOf) \in Nat
BY DEF RuleTyped, FundingFor

LEMMA TargetTyped ==
  ASSUME NEW h \in Homes, NEW p, RuleTyped(p)
  PROVE /\ Target(h, p).rule = p /\ Target(h, p).target \in Nat
        /\ Target(h, p).funded \in Nat /\ Target(h, p).due \in Int
<1> DEFINE t == Target(h, p)
           funding == FundingFor(p, h.asOf)
<1>1. t.rule = p /\ t.due = DueDate(p)
      /\ t.target = MonthlyTarget(p, h.asOf, Income(h), Committed(h))
  BY DEF Target
<1>2. t.funded = IF p.purpose \in Required /\ DueDate(p) # NoDate
                 THEN Larger(funding, p.billFunded) ELSE funding
  BY DEF Target
<1>3. funding \in Nat /\ p.billFunded \in Nat
  BY FundingIsAmount DEF RuleTyped
<1> HIDE DEF t, funding
<1>4. t.funded \in Nat
  BY <1>2, <1>3 DEF Larger
<1>5. t.target \in Nat /\ t.due \in Int
  <2>1. h.asOf \in Int
    BY HomeAssumption
  <2>2. QED
    BY <1>1, <2>1, IncomeIsAmount, CommittedIsAmount, TargetIsAmount, DueIsDate
<1>6. QED
  BY <1>1, <1>4, <1>5 DEF t

LEMMA PlanOpens ==
  ASSUME NEW h \in Homes
  PROVE \E n : OpeningOf(h, MonthlyPlan(h), n)
<1>1. PICK m, f : RulesOf(h, Rules(h), m, f)
  BY RulesFacts
<1> DEFINE rules == Rules(h)
           all == [k \in DOMAIN rules |-> Target(h, rules[k])]
           S == {i \in DOMAIN all : all[i].target # 0}
           kept == Ascending(S)
           c == Cardinality(S)
           targets == MonthlyPlan(h)
<1>2. m \in Nat /\ DOMAIN all = 1..m
  BY <1>1 DEF RulesOf
<1>3. targets = [k \in DOMAIN kept |-> all[kept[k]]]
  BY DEF MonthlyPlan, Where
<1>4. ASSUME NEW i \in 1..m
      PROVE /\ all[i] = Target(h, rules[i]) /\ RuleTyped(rules[i])
            /\ \A j \in 1..m : rules[i].id = rules[j].id => i = j
  <2>1. all[i] = Target(h, rules[i])
    BY <1>2
  <2>2. rules[i] = h.policies[f[i]] /\ f[i] \in DOMAIN h.policies
    BY <1>1 DEF RulesOf
  <2>3. RuleTyped(rules[i])
    BY <2>2, HomeAssumption
  <2>4. ASSUME NEW j \in 1..m, rules[i].id = rules[j].id PROVE i = j
    <3>1. rules[j] = h.policies[f[j]] /\ f[j] \in DOMAIN h.policies
      BY <1>1 DEF RulesOf
    <3>2. f[i] = f[j]
      BY <2>2, <2>4, <3>1, HomeAssumption
    <3>3. QED
      BY <3>2, <1>1 DEF RulesOf
  <2>5. QED
    BY <2>1, <2>3, <2>4
<1>5. S \in SUBSET (1..m)
  BY <1>2
<1> HIDE DEF S, all, targets, rules
<1>6. Picks(targets, all, S, c, kept)
  BY <1>2, <1>3, <1>5, AscendingPicks
<1> HIDE DEF c, kept
<1>7. /\ c \in Nat /\ DOMAIN targets = 1..c
      /\ \A k \in 1..c : targets[k] = all[kept[k]] /\ kept[k] \in 1..m
      /\ \A j, k \in 1..c : kept[j] = kept[k] => j = k
  BY <1>5, <1>6 DEF Picks
<1>8. ASSUME NEW k \in 1..c
      PROVE /\ RuleTyped(targets[k].rule) /\ targets[k] = Target(h, targets[k].rule)
            /\ targets[k].target \in Nat /\ targets[k].funded \in Nat /\ targets[k].due \in Int
            /\ targets[k].rule = rules[kept[k]]
  <2>1. targets[k] = Target(h, rules[kept[k]]) /\ RuleTyped(rules[kept[k]])
    BY <1>4, <1>7
  <2>2. QED
    BY <2>1, TargetTyped
<1>9. ASSUME NEW k \in 1..c, NEW j \in 1..c, targets[j].rule.id = targets[k].rule.id PROVE j = k
  <2>1. targets[k].rule = rules[kept[k]] /\ targets[j].rule = rules[kept[j]]
    BY <1>8
  <2>2. kept[k] = kept[j]
    BY <2>1, <1>4, <1>7, <1>9
  <2>3. QED
    BY <2>2, <1>7
<1>10. OpeningOf(h, targets, c)
  BY <1>7, <1>8, <1>9 DEF OpeningOf
<1>11. QED
  BY <1>10 DEF targets

(***************************************************************************)
(* The inductive invariant: the ledger has grown from the month's targets  *)
(* as far as the deposits so far took it, and the last deposit kept its    *)
(* promises.                                                               *)
(***************************************************************************)
ClosedOf == [event : PaymentOf, nextDate : Int, left : Nat, lines : Seq(LineOf),
             shortfalls : SUBSET LineOf]
SpentWhole(run) == run.left + Allocated(run.lines) = run.event.amount
Grown(targets, n) ==
    /\ DOMAIN plan = 1..n
    /\ \A k \in 1..n :
          /\ plan[k] = [rule |-> targets[k].rule, target |-> targets[k].target,
                        due |-> targets[k].due, funded |-> plan[k].funded]
          /\ plan[k].funded \in Nat
          /\ plan[k].funded <= Larger(targets[k].target, targets[k].funded)

TargetsGrow == \E n : OpeningOf(home, MonthlyPlan(home), n) /\ Grown(MonthlyPlan(home), n)
RunsClosed == runs \in Seq(ClosedOf) /\ \A k \in 1..Len(runs) : SpentWhole(runs[k])
PaychecksInv ==
    /\ home \in Homes /\ place \in Nat \ {0}
    /\ TargetsGrow /\ RunsClosed /\ DeadlinesFirst /\ ConflictShown

LEMMA GrownIsAPlan ==
  ASSUME NEW h, NEW targets, NEW n, OpeningOf(h, targets, n), Grown(targets, n)
  PROVE PlanFor(n)
<1>1. n \in Nat /\ DOMAIN plan = 1..n
  BY DEF OpeningOf, Grown
<1>2. ASSUME NEW k \in 1..n
      PROVE /\ plan[k].rule = targets[k].rule /\ plan[k].target = targets[k].target
            /\ plan[k].due = targets[k].due /\ plan[k].funded \in Nat
  BY DEF Grown
<1>3. ASSUME NEW k \in 1..n
      PROVE /\ RuleTyped(targets[k].rule) /\ targets[k].target \in Nat /\ targets[k].due \in Int
            /\ \A j \in 1..n : targets[j].rule.id = targets[k].rule.id => j = k
  BY DEF OpeningOf
<1>4. ASSUME NEW k \in 1..n
      PROVE /\ plan[k].rule.id \in STRING \ {"floor"} /\ plan[k].rule.purpose \in STRING
            /\ plan[k].rule.priority \in Int
  BY <1>2, <1>3 DEF RuleTyped
<1>5. ASSUME NEW k \in 1..n, NEW j \in 1..n, plan[j].rule.id = plan[k].rule.id PROVE j = k
  BY <1>2, <1>3, <1>5
<1>6. QED
  BY <1>1, <1>2, <1>3, <1>4, <1>5 DEF PlanFor

(* A deposit, and how many follow it.                                      *)
PaysOut(run, n, last) ==
    /\ run \in ClosedOf /\ SpentWhole(run)
    /\ run.shortfalls = {line \in ToSet(run.lines) : InShortfall(line)}
    /\ \E r, after : /\ Closes(n, r, run.event.amount, run.event.date, run.nextDate, after)
                     /\ run.left = r.left /\ run.lines = r.lines
                     /\ last => after = 0

LEMMA DepositPays ==
  ASSUME NEW n, PlanFor(n), NEW events, NEW c, Payday(events, c), NEW i \in 1..c
  PROVE PaysOut(DepositAt(events, i), n, i = c)
<1> DEFINE e == events[i]
           nextDate == IF i < Len(events) THEN events[i + 1].date ELSE NoDate
           later == {k \in DOMAIN events : events[k].date > e.date}
           after == Cardinality(later)
           r == Passes(e.amount, e.date, nextDate, after)
           run == DepositAt(events, i)
           short == {line \in ToSet(r.lines) : InShortfall(line)}
<1>1. /\ c \in Nat /\ DOMAIN events = 1..c /\ \A k \in 1..c : events[k] \in PaymentOf
      /\ \A j, k \in 1..c : j < k => events[j].date <= events[k].date
  BY DEF Payday
<1>2. Len(events) = c
  <2>1. events \in Seq(PaymentOf) /\ events = [k \in 1..c |-> events[k]]
    BY <1>1 DEF Payday
  <2>2. QED
    BY <1>1, <2>1
<1>3. \A k \in 1..c : events[k].date \in Int /\ events[k].amount \in Nat
  BY <1>1 DEF PaymentOf
<1>4. nextDate \in Int
  <2>1. CASE i < Len(events)
    <3>1. i + 1 \in 1..c
      BY <2>1, <1>1, <1>2
    <3>2. QED
      BY <3>1, <2>1, <1>3
  <2>2. CASE ~(i < Len(events))
    BY <2>2 DEF NoDate
  <2>3. QED
    BY <2>1, <2>2
<1>5. later \in SUBSET (1..c)
  BY <1>1
<1>6. after \in Nat
  <2> HIDE DEF later
  <2>1. IsFiniteSet(later)
    BY <1>1, <1>5, AscendingLists
  <2>2. QED
    BY <2>1, FS_CardinalityType
<1>7. i = c => after = 0
  <2>1. ASSUME i = c PROVE later = {}
    <3>1. \A k \in 1..c : ~(events[k].date > events[c].date)
      <4>1. c \in 1..c /\ \A k \in 1..c : k < c \/ k = c
        BY <1>1
      <4>2. QED
        BY <4>1, <1>1, <1>3
    <3>2. QED
      BY <2>1, <3>1, <1>1
  <2> HIDE DEF later
  <2>2. QED
    BY <2>1, FS_EmptySet
<1>8. run = [event |-> e, nextDate |-> nextDate, left |-> r.left, lines |-> r.lines,
             shortfalls |-> short]
  BY DEF DepositAt, Deposit
<1>9. e \in PaymentOf /\ e.amount \in Nat
  BY <1>1, <1>3
<1> HIDE DEF nextDate, later, after, r, run, e, short
<1>10. Closes(n, r, e.amount, e.date, nextDate, after)
  BY <1>6, <1>9, PassesClose DEF r
<1>11. r \in RunOf /\ r.left + Allocated(r.lines) = e.amount
  BY <1>10 DEF Closes, Fits
<1>12. r.left \in Nat /\ r.lines \in Seq(LineOf)
  BY <1>11 DEF RunOf
<1>13. short \in SUBSET LineOf
  BY <1>12 DEF short, ToSet
<1>14. /\ run.event = e /\ run.nextDate = nextDate /\ run.left = r.left /\ run.lines = r.lines
       /\ run.shortfalls = short
  BY <1>8
<1>15. run \in ClosedOf
  BY <1>4, <1>8, <1>9, <1>12, <1>13 DEF ClosedOf
<1>16. SpentWhole(run)
  BY <1>11, <1>14 DEF SpentWhole
<1>17. short = {line \in ToSet(run.lines) : InShortfall(line)}
  BY <1>14 DEF short
<1>18. PaysOut(run, n, i = c)
  BY <1>7, <1>10, <1>14, <1>15, <1>16, <1>17 DEF PaysOut
<1>19. QED
  BY <1>18 DEF run

(***************************************************************************)
(* What a deposit's commitment does to the ledger.                         *)
(***************************************************************************)
(* What a deposit's commitment does to one target.                         *)
FundedMore(k, run) ==
    /\ plan'[k] = [rule |-> plan[k].rule, target |-> plan[k].target, due |-> plan[k].due,
                   funded |-> plan'[k].funded]
    /\ plan'[k].funded = plan[k].funded + Given(IdOf(k), run.lines)
    /\ Given(IdOf(k), run.lines) \in Nat /\ Given(IdOf(k), run.lines) <= Wants(k)

LEMMA CommitMoves ==
  ASSUME NEW h, NEW targets, NEW n, OpeningOf(h, targets, n), Grown(targets, n),
         NEW run, NEW last, PaysOut(run, n, last), Commit(run)
  PROVE DOMAIN plan' = 1..n /\ \A k \in 1..n : FundedMore(k, run)
<1>1. DOMAIN plan = 1..n /\ PlanFor(n)
  BY GrownIsAPlan DEF Grown
<1>2. plan' = [k \in DOMAIN plan |->
                 [plan[k] EXCEPT !.funded = @ + Given(IdOf(k), run.lines)]]
  BY DEF Commit, GivenTo, Given, IdOf
<1>3. ASSUME NEW k \in 1..n PROVE FundedMore(k, run)
  <2> DEFINE t == plan[k]
             g == Given(IdOf(k), run.lines)
             s == plan'[k]
  <2>1. s = [t EXCEPT !.funded = @ + g]
    BY <1>1, <1>2
  <2>2. t = [rule |-> t.rule, target |-> t.target, due |-> t.due, funded |-> t.funded]
    <3>1. plan[k] = [rule |-> targets[k].rule, target |-> targets[k].target,
                     due |-> targets[k].due, funded |-> plan[k].funded]
      BY DEF Grown
    <3> DEFINE f == plan[k].funded
    <3> HIDE DEF f, t
    <3>2. t = [rule |-> targets[k].rule, target |-> targets[k].target,
               due |-> targets[k].due, funded |-> f]
      BY <3>1 DEF f, t
    <3>3. QED
      BY <3>2
  <2>3. PICK r : /\ Fits(n, r, run.event.amount) /\ run.lines = r.lines
    BY DEF PaysOut, Closes
  <2>4. run.lines \in Seq(LineOf) /\ g <= Wants(k)
    BY <2>3 DEF Fits, RunOf
  <2>5. g \in Nat
    BY <2>4, GivenType
  <2> HIDE DEF t, g, s
  <2>6. s = [rule |-> t.rule, target |-> t.target, due |-> t.due, funded |-> t.funded + g]
    BY <2>1, <2>2
  <2>7. s.funded = t.funded + g
    BY <2>6
  <2>8. QED
    BY <2>4, <2>5, <2>6, <2>7 DEF FundedMore, t, g, s
<1>4. QED
  BY <1>1, <1>2, <1>3

LEMMA TargetsKeepGrowing ==
  ASSUME NEW h, NEW targets, NEW n, OpeningOf(h, targets, n), Grown(targets, n),
         NEW run, DOMAIN plan' = 1..n, \A k \in 1..n : FundedMore(k, run)
  PROVE Grown(targets, n)'
<1>1. ASSUME NEW k \in 1..n
      PROVE /\ plan'[k] = [rule |-> targets[k].rule, target |-> targets[k].target,
                           due |-> targets[k].due, funded |-> plan'[k].funded]
            /\ plan'[k].funded \in Nat
            /\ plan'[k].funded <= Larger(targets[k].target, targets[k].funded)
  <2> DEFINE f == plan[k].funded
             new == plan'[k].funded
             g == Given(IdOf(k), run.lines)
             a == targets[k].target
             b == targets[k].funded
  <2>1. plan[k].rule = targets[k].rule /\ plan[k].target = a /\ plan[k].due = targets[k].due
    BY DEF Grown
  <2>2. f \in Nat /\ f <= Larger(a, b)
    BY DEF Grown
  <2>3. a \in Nat /\ b \in Nat
    BY DEF OpeningOf
  <2>4. /\ plan'[k] = [rule |-> plan[k].rule, target |-> plan[k].target, due |-> plan[k].due,
                       funded |-> new]
        /\ new = f + g /\ g \in Nat /\ g <= Wants(k)
    BY DEF FundedMore
  <2>5. Wants(k) = Larger(a - f, 0)
    BY <2>1 DEF Wants, Remaining, ClampMinZero
  <2>6. plan'[k] = [rule |-> targets[k].rule, target |-> a, due |-> targets[k].due,
                    funded |-> new]
    BY <2>1, <2>4
  <2> HIDE DEF f, new, g, a, b
  <2>7. new \in Nat /\ new <= Larger(a, b)
    BY <2>2, <2>3, <2>4, <2>5 DEF Larger
  <2>8. QED
    BY <2>6, <2>7 DEF new, a, b
<1>2. QED
  BY <1>1 DEF Grown

(* What a target still lacks after a deposit, it lacked before and was not *)
(* given.                                                                  *)
LEMMA StillLacking ==
  ASSUME NEW n, PlanFor(n), NEW k \in 1..n, NEW run, FundedMore(k, run), Remaining(plan'[k]) > 0
  PROVE /\ k \in Short /\ Given(IdOf(k), run.lines) < Wants(k)
        /\ Remaining(plan'[k]) = Wants(k) - Given(IdOf(k), run.lines)
        /\ plan'[k].rule = plan[k].rule /\ plan'[k].due = plan[k].due
<1> DEFINE f == plan[k].funded
           new == plan'[k].funded
           g == Given(IdOf(k), run.lines)
           a == plan[k].target
<1>1. f \in Nat /\ a \in Nat /\ DOMAIN plan = 1..n
  BY DEF PlanFor
<1>2. /\ plan'[k].rule = plan[k].rule /\ plan'[k].due = plan[k].due /\ plan'[k].target = a
  BY DEF FundedMore
<1>3. new = f + g /\ g \in Nat
  BY DEF FundedMore
<1>4. Wants(k) = Larger(a - f, 0) /\ Remaining(plan'[k]) = Larger(a - new, 0)
      /\ Wants(k) = Remaining(plan[k])
  BY <1>2 DEF Wants, Remaining, ClampMinZero
<1> HIDE DEF f, new, g, a
<1>5. Wants(k) > 0 /\ g < Wants(k) /\ Remaining(plan'[k]) = Wants(k) - g
  BY <1>1, <1>3, <1>4 DEF Larger
<1>6. k \in Short
  BY <1>1, <1>4, <1>5 DEF Short
<1>7. QED
  BY <1>2, <1>5, <1>6 DEF g

(***************************************************************************)
(* The promises of the allocator.                                          *)
(***************************************************************************)
LEMMA DeadlinesStayFirst ==
  ASSUME NEW n, PlanFor(n), NEW run, NEW last, PaysOut(run, n, last), Run' = run,
         DOMAIN plan' = 1..n, \A k \in 1..n : FundedMore(k, run)
  PROVE DeadlinesFirst'
<1>1. ASSUME NEW k \in 1..n,
             IsRequired(plan'[k]) \/ IsProtected(plan'[k]),
             plan'[k].due # NoDate, run.nextDate = NoDate \/ plan'[k].due < run.nextDate,
             ~Skipped(plan'[k], run.event.date), Remaining(plan'[k]) > 0
      PROVE /\ run.left = 0
            /\ \A i \in DOMAIN run.lines :
                  run.lines[i].amount > 0 =>
                     \E j \in 1..n : /\ plan'[j].rule.id = run.lines[i].id
                                     /\ Later(plan'[j].due) <= Later(plan'[k].due)
  <2>1. /\ k \in Short /\ Given(IdOf(k), run.lines) < Wants(k)
        /\ plan'[k].rule = plan[k].rule /\ plan'[k].due = plan[k].due
    <3>1. FundedMore(k, run)
      OBVIOUS
    <3>2. QED
      BY <1>1, <3>1, StillLacking
  <2>2. k \in Urgent(run.nextDate)
    BY <1>1, <2>1 DEF Urgent, IsUrgent, IsRequired, IsProtected
  <2>3. ~Skipped(plan[k], run.event.date)
    BY <1>1, <2>1 DEF Skipped
  <2>4. PICK r, after : /\ Closes(n, r, run.event.amount, run.event.date, run.nextDate, after)
                        /\ run.left = r.left /\ run.lines = r.lines
    BY DEF PaysOut
  <2>5. First(n, r, k) /\ r.lines \in Seq(LineOf)
    BY <2>2, <2>3, <2>4 DEF Closes, Fits, RunOf
  <2>6. /\ run.left = 0
        /\ \A i \in 1..Len(run.lines) : run.lines[i].amount > 0 => NoLater(n, k, run.lines[i].id)
    BY <2>1, <2>4, <2>5 DEF First
  <2>7. DOMAIN run.lines = 1..Len(run.lines)
    BY <2>4, <2>5
  <2>8. ASSUME NEW i \in DOMAIN run.lines, run.lines[i].amount > 0
        PROVE \E j \in 1..n : /\ plan'[j].rule.id = run.lines[i].id
                              /\ Later(plan'[j].due) <= Later(plan'[k].due)
    <3>1. NoLater(n, k, run.lines[i].id)
      BY <2>6, <2>7, <2>8
    <3>2. PICK j \in 1..n : /\ plan[j].rule.id = run.lines[i].id
                            /\ Later(plan[j].due) <= Later(plan[k].due)
      BY <3>1 DEF NoLater, IdOf
    <3>3. plan'[j].rule = plan[j].rule /\ plan'[j].due = plan[j].due
      BY DEF FundedMore
    <3>4. QED
      BY <2>1, <3>2, <3>3
  <2>9. QED
    BY <2>6, <2>8
<1>2. QED
  BY <1>1 DEF DeadlinesFirst, Unskipped

LEMMA ConflictStaysShown ==
  ASSUME NEW n, PlanFor(n), NEW run, NEW last, PaysOut(run, n, last), Run' = run,
         DOMAIN plan' = 1..n, \A k \in 1..n : FundedMore(k, run), Ended' => last
  PROVE ConflictShown'
<1>1. ASSUME last, NEW k \in 1..n,
             ~Skipped(plan'[k], run.event.date), Remaining(plan'[k]) > 0
      PROVE /\ run.left = 0
            /\ plan'[k].rule.purpose \in Consequences =>
                  \E line \in run.shortfalls :
                     line.id = plan'[k].rule.id /\ Gap(line) = Remaining(plan'[k])
  <2>1. FundedMore(k, run)
    OBVIOUS
  <2>2. /\ k \in Short /\ Given(IdOf(k), run.lines) < Wants(k)
        /\ Remaining(plan'[k]) = Wants(k) - Given(IdOf(k), run.lines)
        /\ plan'[k].rule = plan[k].rule /\ plan'[k].due = plan[k].due
    BY <1>1, <2>1, StillLacking
  <2>3. ~Skipped(plan[k], run.event.date)
    BY <1>1, <2>2 DEF Skipped
  <2>4. PICK r, after : /\ Closes(n, r, run.event.amount, run.event.date, run.nextDate, after)
                        /\ run.left = r.left /\ run.lines = r.lines /\ after = 0
    BY <1>1 DEF PaysOut
  <2>5. Met(r, k) /\ r.lines \in Seq(LineOf)
    BY <2>2, <2>3, <2>4 DEF Closes, Fits, RunOf
  <2>6. PICK i \in 1..Len(r.lines) : MetBy(r, k, r.lines[i])
    BY <2>5 DEF Met
  <2> DEFINE line == r.lines[i]
  <2>7. /\ line.id = IdOf(k) /\ line.purpose = plan[k].rule.purpose
        /\ line.requested = Wants(k) /\ line.status # "deferred"
        /\ line.amount = Given(IdOf(k), run.lines) /\ run.left = 0
    BY <2>2, <2>4, <2>6 DEF MetBy
  <2>8. line \in ToSet(run.lines)
    BY <2>4, <2>5 DEF ToSet
  <2> HIDE DEF line
  <2>9. ASSUME plan'[k].rule.purpose \in Consequences
        PROVE \E shown \in run.shortfalls :
                 shown.id = plan'[k].rule.id /\ Gap(shown) = Remaining(plan'[k])
    <3>1. InShortfall(line)
      BY <2>2, <2>7, <2>9 DEF InShortfall
    <3>2. line \in run.shortfalls
      BY <2>8, <3>1 DEF PaysOut
    <3>3. line.id = plan'[k].rule.id /\ Gap(line) = Remaining(plan'[k])
      BY <2>2, <2>7 DEF Gap, IdOf
    <3>4. QED
      BY <3>2, <3>3
  <2>10. QED
    BY <2>7, <2>9
<1>2. QED
  BY <1>1 DEF ConflictShown, Unskipped

LEMMA PaychecksInitInv == PaychecksInit => PaychecksInv
<1> SUFFICES ASSUME PaychecksInit PROVE PaychecksInv
  OBVIOUS
<1> DEFINE targets == MonthlyPlan(home)
<1>1. home \in Homes /\ plan = targets /\ place \in Nat \ {0} /\ runs = <<>>
  BY DEF PaychecksInit
<1>2. PICK n : OpeningOf(home, targets, n)
  BY <1>1, PlanOpens
<1>3. Grown(targets, n)
  <2>1. DOMAIN plan = 1..n
    BY <1>1, <1>2 DEF OpeningOf
  <2>2. ASSUME NEW k \in 1..n
        PROVE /\ plan[k] = [rule |-> targets[k].rule, target |-> targets[k].target,
                            due |-> targets[k].due, funded |-> plan[k].funded]
              /\ plan[k].funded \in Nat
              /\ plan[k].funded <= Larger(targets[k].target, targets[k].funded)
    <3>1. targets[k] = Target(home, targets[k].rule)
          /\ targets[k].target \in Nat /\ targets[k].funded \in Nat
      BY <1>2 DEF OpeningOf
    <3> HIDE DEF targets
    <3>2. targets[k].funded <= Larger(targets[k].target, targets[k].funded)
      BY <3>1 DEF Larger
    <3>3. targets[k] = [rule |-> targets[k].rule, target |-> targets[k].target,
                        due |-> targets[k].due, funded |-> targets[k].funded]
      <4> DEFINE p == targets[k].rule
                 a == MonthlyTarget(p, home.asOf, Income(home), Committed(home))
                 d == DueDate(p)
                 f == IF p.purpose \in Required /\ DueDate(p) # NoDate
                      THEN Larger(FundingFor(p, home.asOf), p.billFunded)
                      ELSE FundingFor(p, home.asOf)
                 t == targets[k]
      <4>1. t = [rule |-> p, target |-> a, due |-> d, funded |-> f]
        BY <3>1 DEF Target
      <4> HIDE DEF p, a, d, f, t
      <4>2. t = [rule |-> t.rule, target |-> t.target, due |-> t.due, funded |-> t.funded]
        BY <4>1
      <4>3. QED
        BY <4>2 DEF t
    <3>4. QED
      BY <1>1, <3>1, <3>2, <3>3
  <2>3. QED
    BY <2>1, <2>2 DEF Grown
<1>4. TargetsGrow
  BY <1>2, <1>3 DEF TargetsGrow
<1>5. RunsClosed
  BY <1>1 DEF RunsClosed
<1>6. DeadlinesFirst /\ ConflictShown
  BY <1>1 DEF DeadlinesFirst, ConflictShown
<1>7. QED
  BY <1>1, <1>4, <1>5, <1>6 DEF PaychecksInv

LEMMA PaychecksNextInv == PaychecksInv /\ [AllocatePaycheck]_paycheckVars => PaychecksInv'
<1> SUFFICES ASSUME PaychecksInv, [AllocatePaycheck]_paycheckVars PROVE PaychecksInv'
  OBVIOUS
<1>1. CASE AllocatePaycheck
  <2> DEFINE events == MonthIncome(home)
             run == DepositAt(events, place)
             targets == MonthlyPlan(home)
  <2>1. /\ place \in Nat /\ place > 0 /\ place <= Len(events) /\ Commit(run)
        /\ place' = place + 1 /\ home' = home /\ home \in Homes
    BY <1>1 DEF AllocatePaycheck, PaychecksInv
  <2>2. PICK c : Payday(events, c)
    BY <2>1, IncomeTyped
  <2>3. c \in Nat /\ Len(events) = c
    <3>1. c \in Nat /\ \A k \in 1..c : events[k] \in PaymentOf
      BY <2>2 DEF Payday
    <3>2. events = [k \in 1..c |-> events[k]]
      BY <2>2 DEF Payday
    <3> HIDE DEF events
    <3>3. QED
      BY <3>1, <3>2
  <2>4. PICK n : OpeningOf(home, targets, n) /\ Grown(targets, n)
    BY DEF PaychecksInv, TargetsGrow
  <2>5. PlanFor(n)
    BY <2>4, GrownIsAPlan
  <2>6. place \in 1..c
    BY <2>1, <2>3
  <2>7. PaysOut(run, n, place = c)
    <3> HIDE DEF events
    <3>1. QED BY <2>2, <2>5, <2>6, DepositPays
  <2>8. targets' = targets /\ events' = events
    BY <2>1
  <2>9. Ended' => place = c
    <3>1. Ended' => place' > Len(events)
      BY <2>1 DEF Ended
    <3>2. QED
      BY <2>1, <2>3, <3>1
  <2> HIDE DEF run, targets, events
  <2>10. DOMAIN plan' = 1..n /\ \A k \in 1..n : FundedMore(k, run)
    BY <2>1, <2>4, <2>7, CommitMoves
  <2>11. Grown(targets, n)'
    <3>1. \A t : Grown(t, n)' <=> /\ DOMAIN plan' = 1..n
           /\ \A k \in 1..n :
                 /\ plan'[k] = [rule |-> t[k].rule, target |-> t[k].target,
                                due |-> t[k].due, funded |-> plan'[k].funded]
                 /\ plan'[k].funded \in Nat
                 /\ plan'[k].funded <= Larger(t[k].target, t[k].funded)
      BY DEF Grown
    <3>2. QED
      BY <2>4, <2>8, <2>10, TargetsKeepGrowing
  <2>12. runs \in Seq(ClosedOf) /\ \A k \in 1..Len(runs) : SpentWhole(runs[k])
    BY DEF PaychecksInv, RunsClosed
  <2>13. run \in ClosedOf /\ SpentWhole(run)
    BY <2>7 DEF PaysOut
  <2>14. runs' = Append(runs, run)
    BY <2>1 DEF Commit
  <2>15. /\ runs' \in Seq(ClosedOf) /\ Len(runs') = Len(runs) + 1 /\ Len(runs) \in Nat
         /\ runs'[Len(runs) + 1] = run /\ \A k \in 1..Len(runs) : runs'[k] = runs[k]
    BY <2>12, <2>13, <2>14
  <2>16. RunsClosed'
    <3>1. \A k \in 1..Len(runs') : SpentWhole(runs'[k])
      BY <2>12, <2>13, <2>15
    <3>2. QED
      BY <2>15, <3>1 DEF RunsClosed, SpentWhole
  <2>17. Run' = run
    BY <2>15 DEF Run
  <2>18. DeadlinesFirst'
    BY <2>5, <2>7, <2>10, <2>17, DeadlinesStayFirst
  <2>19. ConflictShown'
    BY <2>5, <2>7, <2>9, <2>10, <2>17, ConflictStaysShown
  <2>20. TargetsGrow'
    BY <2>1, <2>4, <2>11 DEF TargetsGrow, targets
  <2>21. place' \in Nat \ {0} /\ home' \in Homes
    BY <2>1
  <2>22. QED
    BY <2>16, <2>18, <2>19, <2>20, <2>21 DEF PaychecksInv
<1>2. CASE UNCHANGED paycheckVars
  <2>1. home' = home /\ plan' = plan /\ place' = place /\ runs' = runs
    BY <1>2 DEF paycheckVars
  <2>2. QED
    BY <2>1 DEF PaychecksInv, TargetsGrow, Grown, RunsClosed, DeadlinesFirst, ConflictShown,
                Run, Unskipped, Ended
<1>3. QED
  BY <1>1, <1>2

LEMMA InvShares == PaychecksInv => SharedLedger
<1> SUFFICES ASSUME PaychecksInv PROVE SharedLedger
  OBVIOUS
<1> DEFINE targets == MonthlyPlan(home)
<1>1. PICK n : OpeningOf(home, targets, n) /\ Grown(targets, n)
  BY DEF PaychecksInv, TargetsGrow
<1> HIDE DEF targets
<1>2. ASSUME NEW k \in DOMAIN plan
      PROVE plan[k].funded <= Larger(plan[k].target, Target(home, plan[k].rule).funded)
  <2>1. k \in 1..n
    BY <1>1 DEF Grown
  <2>2. /\ plan[k].rule = targets[k].rule /\ plan[k].target = targets[k].target
        /\ plan[k].funded <= Larger(targets[k].target, targets[k].funded)
    BY <2>1, <1>1 DEF Grown
  <2>3. targets[k] = Target(home, targets[k].rule)
    BY <2>1, <1>1 DEF OpeningOf
  <2>4. QED
    BY <2>2, <2>3
<1>3. ASSUME NEW k \in DOMAIN runs
      PROVE /\ runs[k].left >= 0
            /\ \A i \in DOMAIN runs[k].lines : runs[k].lines[i].amount >= 0
            /\ runs[k].left + Allocated(runs[k].lines) = runs[k].event.amount
  <2>1. runs \in Seq(ClosedOf) /\ \A j \in 1..Len(runs) : SpentWhole(runs[j])
    BY DEF PaychecksInv, RunsClosed
  <2>2. k \in 1..Len(runs) /\ runs[k] \in ClosedOf /\ SpentWhole(runs[k])
    BY <2>1
  <2>3. runs[k].left \in Nat /\ runs[k].lines \in Seq(LineOf)
    BY <2>2 DEF ClosedOf
  <2>4. \A i \in DOMAIN runs[k].lines : runs[k].lines[i] \in LineOf
    BY <2>3
  <2>5. \A i \in DOMAIN runs[k].lines : runs[k].lines[i].amount \in Nat
    BY <2>4 DEF LineOf
  <2>6. QED
    BY <2>2, <2>3, <2>5 DEF SpentWhole
<1>4. QED
  BY <1>2, <1>3 DEF SharedLedger

(* The invariant holds in every behaviour of the allocator.                *)
THEOREM PaychecksInvCorrect == PaychecksSpec => []PaychecksInv
<1>1. PaychecksInit => PaychecksInv
  BY PaychecksInitInv
<1>2. PaychecksInv /\ [AllocatePaycheck]_paycheckVars => PaychecksInv'
  BY PaychecksNextInv
<1>3. QED
  BY <1>1, <1>2, PTL DEF PaychecksSpec

(* SC51: together the deposits of a month give no target more than it      *)
(* lacked when the month was planned, and each deposit is spent to the     *)
(* cent.                                                                   *)
THEOREM SharedLedgerCorrect == PaychecksSpec => []SharedLedger
BY PaychecksInvCorrect, InvShares, PTL

(* SC49: a deposit that leaves something short that is due before the next *)
(* one has spent its last cent, and only on targets due no later.          *)
THEOREM DeadlinesFirstCorrect == PaychecksSpec => []DeadlinesFirst
<1>1. PaychecksInv => DeadlinesFirst
  BY DEF PaychecksInv
<1>2. QED
  BY <1>1, PaychecksInvCorrect, PTL

(* Section 14: when the last deposit is done, a required target still      *)
(* short is among its shortfalls with exactly what it lacks.               *)
THEOREM ConflictShownCorrect == PaychecksSpec => []ConflictShown
<1>1. PaychecksInv => ConflictShown
  BY DEF PaychecksInv
<1>2. QED
  BY <1>1, PaychecksInvCorrect, PTL
=============================================================================
