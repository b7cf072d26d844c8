---------------------------- MODULE NatRecursion ----------------------------
(***************************************************************************)
(* First-order forms of induction and recursion over the naturals, for the *)
(* loops of the specifications.  They rest on the well-foundedness of <.    *)
(***************************************************************************)
EXTENDS Integers, TLAPS, WellFoundedInduction

\* Every non-empty set of naturals has a least element.
LEMMA LeastNumber ==
  ASSUME NEW T \in SUBSET Nat, T # {}
  PROVE  \E n \in T : \A m \in T : n <= m
<1>. DEFINE R == {ss \in Nat \X Nat : ss[1] < ss[2]}
<1>1. IsWellFoundedOn(R, Nat)
  BY NatLessThanWellFounded DEF OpToRel
<1>2. \A m, n \in Nat : m < n => <<m, n>> \in R
  OBVIOUS
<1>. HIDE DEF R
<1>3. \E n \in T : \A m \in T : <<m, n>> \notin R
  BY <1>1, WFMin
<1>4. PICK n \in T : \A m \in T : <<m, n>> \notin R
  BY <1>3
<1>5. ASSUME NEW m \in T PROVE n <= m
  <2>1. m \in Nat /\ n \in Nat
    OBVIOUS
  <2>2. ~ (m < n)
    BY <1>2, <1>4, <2>1, Zenon
  <2>3. QED
    BY <2>1, <2>2
<1>6. QED
  BY <1>5

\* Every non-empty bounded set of naturals has a greatest element.
LEMMA GreatestNumber ==
  ASSUME NEW B \in Nat, NEW T \in SUBSET 0 .. B, T # {}
  PROVE  \E n \in T : \A m \in T : m <= n
<1>. DEFINE U == {B - n : n \in T}
<1>1. U \in SUBSET Nat /\ U # {}
  <2>1. \A n \in T : B - n \in Nat /\ B - n \in U
    OBVIOUS
  <2>2. QED
    BY <2>1
<1>2. PICK u \in U : \A v \in U : u <= v
  <2>. HIDE DEF U
  <2>. QED BY <1>1, LeastNumber
<1>3. PICK n \in T : u = B - n
  OBVIOUS
<1>4. ASSUME NEW m \in T PROVE m <= n
  <2>1. B - n <= B - m
    BY <1>2, <1>3
  <2>2. QED
    BY <2>1
<1>5. QED
  BY <1>4

\* Induction, with the property given as the set of numbers that have it.
LEMMA SetInduction ==
  ASSUME NEW T \in SUBSET Nat, 0 \in T, \A n \in T : n + 1 \in T
  PROVE  T = Nat
<1>1. SUFFICES ASSUME Nat \ T # {} PROVE FALSE
  OBVIOUS
<1>2. PICK n \in Nat \ T : \A m \in Nat \ T : n <= m
  BY <1>1, LeastNumber
<1>3. n - 1 \in T
  BY <1>2
<1>4. QED
  BY <1>2, <1>3

\* What holds before a loop and is kept by every round holds throughout.
LEMMA LoopInvariant ==
  ASSUME NEW N \in Nat, NEW f, NEW Good,
         f[0] \in Good,
         \A n \in 1 .. N : f[n - 1] \in Good => f[n] \in Good
  PROVE  \A n \in 0 .. N : f[n] \in Good
<1>. DEFINE T == {n \in Nat : n <= N => f[n] \in Good}
<1>1. 0 \in T
  OBVIOUS
<1>2. ASSUME NEW n \in T PROVE n + 1 \in T
  <2>1. SUFFICES ASSUME n + 1 <= N PROVE f[n + 1] \in Good
    OBVIOUS
  <2>2. n + 1 \in 1 .. N /\ (n + 1) - 1 = n /\ f[n] \in Good
    BY <2>1
  <2>3. QED
    BY <2>2
<1>3. T = Nat
  <2>1. T \in SUBSET Nat
    OBVIOUS
  <2>. HIDE DEF T
  <2>2. QED
    BY <1>1, <1>2, <2>1, SetInduction
<1>4. QED
  BY <1>3

\* step[n] takes the state before round n to the state after it, within S; a
\* run of N rounds from start is the function of the states it goes through.
IsStep(step, N, S) == \A n \in 1 .. N : \A v \in S : step[n][v] \in S
IsRun(f, start, step, N, S) ==
    /\ f \in [0 .. N -> S]
    /\ f[0] = start
    /\ \A n \in 1 .. N : f[n] = step[n][f[n - 1]]

\* A loop of N rounds over a set of states has a run.
LEMMA LoopExists ==
  ASSUME NEW N \in Nat, NEW S, NEW start \in S, NEW step, IsStep(step, N, S)
  PROVE  \E f : IsRun(f, start, step, N, S)
<1>. DEFINE Run(f, n) == /\ f[0] = start
                         /\ \A i \in 1 .. n : f[i] = step[i][f[i - 1]]
            T == {n \in Nat : n <= N => \E f \in [0 .. n -> S] : Run(f, n)}
<1>1. 0 \in T
  <2>1. [i \in 0 .. 0 |-> start] \in [0 .. 0 -> S]
    OBVIOUS
  <2>2. Run([i \in 0 .. 0 |-> start], 0)
    OBVIOUS
  <2>3. QED
    BY <2>1, <2>2
<1>2. ASSUME NEW n \in T PROVE n + 1 \in T
  <2>1. SUFFICES ASSUME n + 1 <= N
                 PROVE  \E f \in [0 .. n + 1 -> S] : Run(f, n + 1)
    OBVIOUS
  <2>2. PICK g \in [0 .. n -> S] : Run(g, n)
    BY <2>1
  <2>. DEFINE f == [i \in 0 .. n + 1 |-> IF i <= n THEN g[i] ELSE step[n + 1][g[n]]]
  <2>3. n + 1 \in 1 .. N /\ g[n] \in S
    BY <2>1
  <2>4. step[n + 1][g[n]] \in S
    BY <2>3 DEF IsStep
  <2>5. f \in [0 .. n + 1 -> S]
    BY <2>4
  <2>6. Run(f, n + 1)
    <3>1. f[0] = start
      BY <2>2
    <3>2. ASSUME NEW i \in 1 .. n + 1 PROVE f[i] = step[i][f[i - 1]]
      <4>1. CASE i \in 1 .. n
        BY <4>1, <2>2
      <4>2. CASE i = n + 1
        BY <4>2
      <4>3. QED
        BY <4>1, <4>2
    <3>3. QED
      BY <3>1, <3>2
  <2>7. QED
    BY <2>5, <2>6
<1>3. T = Nat
  <2>1. T \in SUBSET Nat
    OBVIOUS
  <2>. HIDE DEF T
  <2>2. QED
    BY <1>1, <1>2, <2>1, SetInduction
<1>4. PICK f \in [0 .. N -> S] : Run(f, N)
  <2>1. N \in T
    BY <1>3
  <2>2. QED
    BY <2>1
<1>5. QED
  BY <1>4 DEF IsRun

=============================================================================
