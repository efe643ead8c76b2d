----------------------------- MODULE FoldLemmas -----------------------------
(***************************************************************************)
(* Induction over the naturals in first-order form, and what a fold over a *)
(* sequence computes.  A fold is described by the function F that takes a  *)
(* value and an element to the next value, so that its laws can be stated  *)
(* once and used for any operator.                                         *)
(***************************************************************************)
EXTENDS Integers, Sequences, FiniteSetsExt, WellFoundedInduction, TLAPS

(***************************************************************************)
(* A set of naturals has a least element.                                  *)
(***************************************************************************)
LEMMA LeastNatural ==
    ASSUME NEW S \in SUBSET Nat, S # {}
    PROVE  \E m \in S : \A k \in S : m <= k
<1> DEFINE R == {p \in Nat \X Nat : p[1] < p[2]}
<1>1. IsWellFoundedOn(R, Nat)
  BY NatLessThanWellFounded DEF OpToRel
<1>2. \A x, y \in S : y < x => <<y, x>> \in R
  OBVIOUS
<1> HIDE DEF R
<1>3. PICK m \in S : \A k \in S : ~(<<k, m>> \in R)
  BY <1>1, WFMin
<1>4. ASSUME NEW k \in S PROVE m <= k
  <2>1. ~(k < m)
    BY <1>2, <1>3, Zenon
  <2> QED
    BY <2>1
<1> QED
  BY <1>4

(***************************************************************************)
(* A set that holds 0 and the successor of each of its members below n     *)
(* holds all naturals up to n.                                             *)
(***************************************************************************)
LEMMA InductionUpTo ==
    ASSUME NEW n \in Nat, NEW S, 0 \in S,
           \A k \in 0 .. n - 1 : k \in S => k + 1 \in S
    PROVE  \A k \in 0 .. n : k \in S
<1> DEFINE T == {k \in 0 .. n : k \notin S}
<1> SUFFICES ASSUME T # {} PROVE FALSE
  OBVIOUS
<1>0. T \in SUBSET Nat
  OBVIOUS
<1>1. PICK m \in T : \A k \in T : m <= k
  <2> HIDE DEF T
  <2> QED
    BY <1>0, LeastNatural
<1>2. m \in 0 .. n /\ m \notin S /\ m # 0
  OBVIOUS
<1>3. m - 1 \in 0 .. n - 1 /\ (m - 1) + 1 = m
  BY <1>2
<1>4. m - 1 \in S
  BY <1>1, <1>3
<1> QED
  BY <1>2, <1>3, <1>4

-----------------------------------------------------------------------------
\* h lists the values that folding q from st goes through.
IsRun(h, V, F, st, q) ==
    /\ h \in [0 .. Len(q) -> V]
    /\ h[0] = st
    /\ \A k \in 0 .. Len(q) - 1 : h[k + 1] = F[q[k + 1]][h[k]]

Result(V, F, st, q) == (CHOOSE h : IsRun(h, V, F, st, q))[Len(q)]

LEMMA RunUnique ==
    ASSUME NEW P, NEW q \in Seq(P), NEW V, NEW F, NEW st, NEW g, NEW h,
           IsRun(g, V, F, st, q), IsRun(h, V, F, st, q)
    PROVE  g = h
<1> DEFINE n == Len(q)
           S == {k \in 0 .. n : g[k] = h[k]}
<1>1. n \in Nat
  OBVIOUS
<1>2. 0 \in S
  BY <1>1 DEF IsRun
<1>3. ASSUME NEW k \in 0 .. n - 1, k \in S PROVE k + 1 \in S
  BY <1>1, <1>3 DEF IsRun
<1>4. \A k \in 0 .. n : k \in S
  <2> HIDE DEF S, n
  <2> QED
    BY <1>1, <1>2, <1>3, InductionUpTo
<1>5. \A k \in 0 .. n : g[k] = h[k]
  BY <1>4
<1> QED
  BY <1>5 DEF IsRun

LEMMA RunExists ==
    ASSUME NEW V, NEW P, NEW F \in [P -> [V -> V]], NEW st \in V, NEW q \in Seq(P)
    PROVE  \E h : IsRun(h, V, F, st, q)
<1> DEFINE n == Len(q)
           Run(k, h) == /\ h \in [0 .. k -> V] /\ h[0] = st
                        /\ \A i \in 0 .. k - 1 : h[i + 1] = F[q[i + 1]][h[i]]
           S == {k \in 0 .. n : \E h : Run(k, h)}
<1>1. n \in Nat
  OBVIOUS
<1>2. 0 \in S
  <2> DEFINE g == [i \in 0 .. 0 |-> st]
  <2>1. Run(0, g)
    OBVIOUS
  <2> HIDE DEF g, Run, n
  <2> QED
    BY <1>1, <2>1
<1>3. ASSUME NEW k \in 0 .. n - 1, k \in S PROVE k + 1 \in S
  <2>1. PICK h : Run(k, h)
    BY <1>3
  <2> DEFINE g == [i \in 0 .. k + 1 |-> IF i = k + 1 THEN F[q[k + 1]][h[k]] ELSE h[i]]
  <2>2. q[k + 1] \in P /\ h[k] \in V
    BY <1>1, <2>1
  <2>3. F[q[k + 1]][h[k]] \in V
    BY <2>2
  <2>4. g \in [0 .. k + 1 -> V]
    BY <2>1, <2>3
  <2>5. g[0] = st
    BY <2>1
  <2>6. ASSUME NEW i \in 0 .. (k + 1) - 1 PROVE g[i + 1] = F[q[i + 1]][g[i]]
    <3>1. CASE i = k
      BY <3>1
    <3>2. CASE i # k
      BY <2>1, <3>2
    <3> QED
      BY <3>1, <3>2
  <2>7. k + 1 \in 0 .. n
    BY <1>1
  <2>8. Run(k + 1, g)
    <3> HIDE DEF g
    <3> QED
      BY <2>4, <2>5, <2>6
  <2> QED
    BY <2>7, <2>8
<1>4. \A k \in 0 .. n : k \in S
  <2> HIDE DEF S, n
  <2> QED
    BY <1>1, <1>2, <1>3, InductionUpTo
<1>5. n \in S
  <2> HIDE DEF S, n
  <2> QED
    BY <1>1, <1>4
<1>6. PICK h : Run(n, h)
  BY <1>5
<1>7. IsRun(h, V, F, st, q)
  BY <1>6 DEF IsRun
<1> QED
  BY <1>7

LEMMA ResultRun ==
    ASSUME NEW V, NEW P, NEW F \in [P -> [V -> V]], NEW st \in V, NEW q \in Seq(P),
           NEW h, IsRun(h, V, F, st, q)
    PROVE  Result(V, F, st, q) = h[Len(q)]
<1> DEFINE c == CHOOSE g : IsRun(g, V, F, st, q)
<1>1. IsRun(c, V, F, st, q)
  OBVIOUS
<1>2. c = h
  <2> HIDE DEF c
  <2> QED
    BY <1>1, RunUnique
<1> QED
  BY <1>2 DEF Result

LEMMA ResultType ==
    ASSUME NEW V, NEW P, NEW F \in [P -> [V -> V]], NEW st \in V, NEW q \in Seq(P)
    PROVE  Result(V, F, st, q) \in V
<1>1. PICK h : IsRun(h, V, F, st, q)
  BY RunExists
<1>2. h[Len(q)] \in V
  BY <1>1 DEF IsRun
<1> QED
  BY <1>1, <1>2, ResultRun

LEMMA ResultEmpty ==
    ASSUME NEW V, NEW P, NEW F \in [P -> [V -> V]], NEW st \in V
    PROVE  Result(V, F, st, <<>>) = st
<1>1. ASSUME NEW q \in Seq(P), Len(q) = 0 PROVE Result(V, F, st, q) = st
  <2>1. PICK h : IsRun(h, V, F, st, q)
    BY RunExists
  <2>2. h[0] = st
    BY <2>1 DEF IsRun
  <2>3. Result(V, F, st, q) = h[Len(q)]
    BY <2>1, ResultRun
  <2> QED
    BY <1>1, <2>2, <2>3
<1>2. <<>> \in Seq(P) /\ Len(<<>>) = 0
  OBVIOUS
<1> QED
  BY <1>1, <1>2

(***************************************************************************)
(* A fold takes the elements in their order: the last one last, ...        *)
(***************************************************************************)
LEMMA ResultAppend ==
    ASSUME NEW V, NEW P, NEW F \in [P -> [V -> V]], NEW st \in V, NEW q \in Seq(P),
           NEW p \in P
    PROVE  Result(V, F, st, Append(q, p)) = F[p][Result(V, F, st, q)]
<1> DEFINE r == Append(q, p)
           n == Len(q)
<1>1. r \in Seq(P) /\ Len(r) = n + 1 /\ n \in Nat /\ r[n + 1] = p
  OBVIOUS
<1>2. \A i \in 1 .. n : r[i] = q[i]
  OBVIOUS
<1> HIDE DEF r
<1>3. PICK h : IsRun(h, V, F, st, r)
  BY <1>1, RunExists
<1> DEFINE g == [i \in 0 .. n |-> h[i]]
<1>4. IsRun(g, V, F, st, q)
  <2>1. g \in [0 .. n -> V] /\ g[0] = st
    BY <1>1, <1>3 DEF IsRun
  <2>2. ASSUME NEW i \in 0 .. n - 1 PROVE g[i + 1] = F[q[i + 1]][g[i]]
    <3>1. h[i + 1] = F[r[i + 1]][h[i]]
      BY <1>1, <1>3 DEF IsRun
    <3>2. r[i + 1] = q[i + 1]
      BY <1>1, <1>2
    <3> QED
      BY <1>1, <3>1, <3>2
  <2> QED
    BY <2>1, <2>2 DEF IsRun
<1>5. h[n + 1] = F[p][h[n]]
  BY <1>1, <1>3 DEF IsRun
<1>6. Result(V, F, st, r) = h[n + 1]
  BY <1>1, <1>3, ResultRun
<1>7. Result(V, F, st, q) = g[n] /\ g[n] = h[n]
  <2> HIDE DEF g
  <2>1. Result(V, F, st, q) = g[n]
    BY <1>4, ResultRun
  <2> QED
    BY <1>1, <2>1 DEF g
<1> QED
  BY <1>5, <1>6, <1>7 DEF r

(***************************************************************************)
(* ... and the first one first.                                            *)
(***************************************************************************)
LEMMA ResultTail ==
    ASSUME NEW V, NEW P, NEW F \in [P -> [V -> V]], NEW st \in V, NEW q \in Seq(P),
           q # <<>>
    PROVE  Result(V, F, st, q) = Result(V, F, F[Head(q)][st], Tail(q))
<1> DEFINE r == Tail(q)
           n == Len(r)
<1>1. /\ r \in Seq(P) /\ n \in Nat /\ Len(q) = n + 1
      /\ q[1] = Head(q) /\ Head(q) \in P
  OBVIOUS
<1>2. \A i \in 1 .. n : r[i] = q[i + 1]
  OBVIOUS
<1> HIDE DEF r
<1>3. PICK h : IsRun(h, V, F, st, q)
  BY RunExists
<1> DEFINE g == [i \in 0 .. n |-> h[i + 1]]
           s1 == F[Head(q)][st]
<1>4. s1 \in V /\ h[1] = s1
  BY <1>1, <1>3 DEF IsRun
<1>5. IsRun(g, V, F, s1, r)
  <2>1. g \in [0 .. n -> V] /\ g[0] = s1
    BY <1>1, <1>3, <1>4 DEF IsRun
  <2>2. ASSUME NEW i \in 0 .. n - 1 PROVE g[i + 1] = F[r[i + 1]][g[i]]
    <3>1. i + 1 \in 0 .. Len(q) - 1 /\ i + 1 \in 1 .. n
      BY <1>1
    <3>2. h[(i + 1) + 1] = F[q[(i + 1) + 1]][h[i + 1]]
      BY <1>3, <3>1 DEF IsRun
    <3>3. r[i + 1] = q[(i + 1) + 1]
      BY <1>2, <3>1
    <3> QED
      BY <1>1, <3>2, <3>3
  <2> QED
    BY <2>1, <2>2 DEF IsRun
<1>6. Result(V, F, st, q) = h[n + 1]
  BY <1>1, <1>3, ResultRun
<1>7. Result(V, F, s1, r) = g[n]
  <2> HIDE DEF g, s1
  <2> QED
    BY <1>1, <1>4, <1>5, ResultRun
<1>8. g[n] = h[n + 1]
  BY <1>1
<1> QED
  BY <1>6, <1>7, <1>8 DEF r

(***************************************************************************)
(* What every element preserves, the fold preserves.                       *)
(***************************************************************************)
LEMMA ResultKeeps ==
    ASSUME NEW V, NEW P, NEW F \in [P -> [V -> V]], NEW W \in SUBSET V, NEW st \in W,
           NEW q \in Seq(P), \A i \in 1 .. Len(q) : \A w \in W : F[q[i]][w] \in W
    PROVE  Result(V, F, st, q) \in W
<1>1. PICK h : IsRun(h, V, F, st, q)
  BY RunExists
<1> DEFINE n == Len(q)
           S == {k \in 0 .. n : h[k] \in W}
<1>2. n \in Nat
  OBVIOUS
<1>3. 0 \in S
  BY <1>1, <1>2 DEF IsRun
<1>4. ASSUME NEW k \in 0 .. n - 1, k \in S PROVE k + 1 \in S
  <2>1. h[k + 1] = F[q[k + 1]][h[k]] /\ h[k] \in W
    BY <1>1, <1>4 DEF IsRun
  <2>2. k + 1 \in 1 .. n
    BY <1>2
  <2> QED
    BY <2>1, <2>2
<1>5. \A k \in 0 .. n : k \in S
  <2> HIDE DEF S, n
  <2> QED
    BY <1>2, <1>3, <1>4, InductionUpTo
<1>6. h[n] \in W
  BY <1>2, <1>5
<1> QED
  BY <1>1, <1>6, ResultRun

-----------------------------------------------------------------------------
\* FoldLeft of SequencesExt: a function on the sets of positions of q

LEMMA MaxOf ==
    ASSUME NEW n \in Nat, NEW s \in SUBSET (1 .. n), s # {}
    PROVE  /\ Max(s) \in s /\ \A y \in s : y <= Max(s)
           /\ \A x \in s : (\A y \in s : y <= x) => x = Max(s)
<1> DEFINE T == {k \in 0 .. n : n - k \in s}
<1>1. T \in SUBSET Nat /\ T # {}
  <2>1. PICK x \in s : TRUE
    OBVIOUS
  <2>2. n - x \in 0 .. n /\ n - (n - x) = x
    OBVIOUS
  <2>3. n - x \in T
    BY <2>2
  <2>4. T \in SUBSET Nat
    OBVIOUS
  <2> HIDE DEF T
  <2> QED
    BY <2>3, <2>4
<1>2. PICK m \in T : \A k \in T : m <= k
  <2> HIDE DEF T
  <2> QED
    BY <1>1, LeastNatural
<1> DEFINE x == n - m
<1>3. m \in 0 .. n /\ x \in s
  OBVIOUS
<1>4. ASSUME NEW y \in s PROVE y <= x
  <2>1. n - y \in 0 .. n /\ n - (n - y) = y /\ y \in Int
    OBVIOUS
  <2>2. m <= n - y
    BY <1>2, <2>1
  <2> QED
    BY <1>3, <2>1, <2>2
<1>5. \E z \in s : \A y \in s : z >= y
  <2>1. x \in Int /\ \A y \in s : x >= y
    BY <1>3, <1>4
  <2> HIDE DEF x
  <2> QED
    BY <1>3, <2>1
<1>6. Max(s) \in s /\ \A y \in s : Max(s) >= y
  BY <1>5 DEF Max
<1>7. \A y \in s : y \in Int
  OBVIOUS
<1> HIDE DEF x, T
<1> DEFINE M == Max(s)
<1>8. M \in s /\ M \in Int /\ \A y \in s : M >= y
  BY <1>6, <1>7
<1> HIDE DEF M
<1>9. /\ \A y \in s : y <= M
      /\ \A z \in s : (\A y \in s : y <= z) => z = M
  BY <1>7, <1>8
<1> QED
  BY <1>8, <1>9 DEF M

\* The equation of FoldLeft, on the sets of the first k positions.
Folds(k, g, V, F, st, q) ==
    /\ g \in [SUBSET (1 .. k) -> V]
    /\ g[{}] = st
    /\ \A s \in SUBSET (1 .. k) :
          s # {} => g[s] = F[q[Max(s)]][g[s \ {Max(s)}]]

LEMMA FoldingFunction ==
    ASSUME NEW V, NEW P, NEW F \in [P -> [V -> V]], NEW st \in V, NEW q \in Seq(P)
    PROVE  \E g : Folds(Len(q), g, V, F, st, q)
<1> DEFINE n == Len(q)
           S == {k \in 0 .. n : \E g : Folds(k, g, V, F, st, q)}
<1>1. n \in Nat
  OBVIOUS
<1>2. 0 \in S
  <2> DEFINE f == [s \in SUBSET (1 .. 0) |-> st]
  <2>1. \A s \in SUBSET (1 .. 0) : s = {}
    OBVIOUS
  <2>2. f \in [SUBSET (1 .. 0) -> V] /\ f[{}] = st
    OBVIOUS
  <2> HIDE DEF f, n
  <2>3. Folds(0, f, V, F, st, q)
    BY <2>1, <2>2 DEF Folds
  <2> QED
    BY <1>1, <2>3
<1>3. ASSUME NEW k \in 0 .. n - 1, k \in S PROVE k + 1 \in S
  <2>1. PICK g : Folds(k, g, V, F, st, q)
    BY <1>3
  <2>2. /\ g \in [SUBSET (1 .. k) -> V] /\ g[{}] = st
        /\ \A s \in SUBSET (1 .. k) :
              s # {} => g[s] = F[q[Max(s)]][g[s \ {Max(s)}]]
    BY <2>1 DEF Folds
  <2>3. k \in Nat /\ k + 1 \in 1 .. n /\ k + 1 \in 0 .. n
    <3> HIDE DEF n, S
    <3> QED
      BY <1>1
  <2>4. q[k + 1] \in P /\ F[q[k + 1]] \in [V -> V]
    BY <2>3
  <2> HIDE DEF n, S
  <2> DEFINE f == [s \in SUBSET (1 .. k + 1) |->
                     IF k + 1 \in s THEN F[q[k + 1]][g[s \ {k + 1}]] ELSE g[s]]
  <2>5. \A s \in SUBSET (1 .. k + 1) :
           /\ s \ {k + 1} \in SUBSET (1 .. k)
           /\ k + 1 \notin s => s \in SUBSET (1 .. k)
    BY <2>3
  <2>6. \A s \in SUBSET (1 .. k + 1) :
           /\ k + 1 \in s => f[s] = F[q[k + 1]][g[s \ {k + 1}]]
           /\ k + 1 \notin s => f[s] = g[s]
    OBVIOUS
  <2>7. f \in [SUBSET (1 .. k + 1) -> V]
    BY <2>2, <2>4, <2>5
  <2> HIDE DEF f
  <2>8. f[{}] = st
    <3>1. {} \in SUBSET (1 .. k + 1) /\ k + 1 \notin {}
      OBVIOUS
    <3> QED
      BY <2>2, <2>6, <3>1
  <2>9. ASSUME NEW s \in SUBSET (1 .. k + 1), s # {}
        PROVE  f[s] = F[q[Max(s)]][f[s \ {Max(s)}]]
    <3>0. k + 1 \in Nat
      BY <2>3
    <3>1. CASE k + 1 \in s
      <4>1. \A y \in s : y <= k + 1
        BY <2>3
      <4>2. Max(s) = k + 1
        BY <2>9, <3>0, <3>1, <4>1, MaxOf
      <4>3. f[s] = F[q[k + 1]][g[s \ {k + 1}]]
        BY <2>6, <3>1
      <4>4. s \ {k + 1} \in SUBSET (1 .. k + 1) /\ k + 1 \notin s \ {k + 1}
        OBVIOUS
      <4>5. f[s \ {k + 1}] = g[s \ {k + 1}]
        BY <2>6, <4>4
      <4> QED
        BY <4>2, <4>3, <4>5
    <3>2. CASE k + 1 \notin s
      <4>1. s \in SUBSET (1 .. k) /\ f[s] = g[s]
        BY <2>5, <2>6, <3>2
      <4> DEFINE t == s \ {Max(s)}
      <4>2. t \in SUBSET (1 .. k + 1) /\ k + 1 \notin t
        BY <3>2
      <4>3. f[t] = g[t]
        BY <2>6, <4>2
      <4>4. g[s] = F[q[Max(s)]][g[t]]
        BY <2>2, <2>9, <4>1
      <4> HIDE DEF t
      <4>5. f[s] = F[q[Max(s)]][f[t]]
        BY <4>1, <4>3, <4>4
      <4> QED
        BY <4>5 DEF t
    <3> QED
      BY <3>1, <3>2
  <2>10. Folds(k + 1, f, V, F, st, q)
    BY <2>7, <2>8, <2>9 DEF Folds
  <2> QED
    BY <2>3, <2>10 DEF S
<1>4. \A k \in 0 .. n : k \in S
  <2> HIDE DEF S, n
  <2> QED
    BY <1>1, <1>2, <1>3, InductionUpTo
<1>5. n \in S
  <2> HIDE DEF S, n
  <2> QED
    BY <1>1, <1>4
<1> QED
  BY <1>5

\* What the function of FoldLeft, which is only known by its equation, satisfies
FoldsIn(g, V, F, st, q) ==
    /\ g[{}] = st
    /\ \A s \in SUBSET (1 .. Len(q)) :
          s # {} /\ g[s \ {Max(s)}] \in V => g[s] = F[q[Max(s)]][g[s \ {Max(s)}]]

(***************************************************************************)
(* A function with the equation of FoldLeft has the value of the fold on   *)
(* the set of all positions.                                               *)
(***************************************************************************)
LEMMA FoldValue ==
    ASSUME NEW V, NEW P, NEW F \in [P -> [V -> V]], NEW st \in V, NEW q \in Seq(P),
           NEW g, FoldsIn(g, V, F, st, q)
    PROVE  g[1 .. Len(q)] = Result(V, F, st, q)
<1> USE DEF FoldsIn
<1>1. PICK h : IsRun(h, V, F, st, q)
  BY RunExists
<1> DEFINE n == Len(q)
           S == {k \in 0 .. n : g[1 .. k] = h[k]}
<1>2. n \in Nat
  OBVIOUS
<1>3. 0 \in S
  <2>1. 1 .. 0 = {}
    OBVIOUS
  <2>2. h[0] = st
    BY <1>1 DEF IsRun
  <2> QED
    BY <1>2, <2>1, <2>2
<1>4. ASSUME NEW k \in 0 .. n - 1, k \in S PROVE k + 1 \in S
  <2> DEFINE s == 1 .. k + 1
  <2>1. s \in SUBSET (1 .. n) /\ s # {} /\ k + 1 \in s /\ \A y \in s : y <= k + 1
    <3>1. k \in Nat /\ k + 1 <= n
      <4> HIDE DEF n, S
      <4> QED
        BY <1>2
    <3>2. n \in Int /\ k \in Int /\ 0 <= k
      BY <1>2, <3>1
    <3> HIDE DEF n, S
    <3>3. \A y \in s : y \in 1 .. n /\ y <= k + 1
      BY <3>1, <3>2
    <3>4. k + 1 \in s
      BY <3>1, <3>2
    <3> HIDE DEF s
    <3> QED
      BY <3>3, <3>4
  <2>2. s \ {k + 1} = 1 .. k
    BY <1>2
  <2> HIDE DEF s
  <2>3. Max(s) = k + 1
    BY <1>2, <2>1, MaxOf
  <2>4. /\ h[k + 1] = F[q[k + 1]][h[k]]
        /\ h[k] \in V
    <3>1. \A i \in 0 .. n - 1 : h[i + 1] = F[q[i + 1]][h[i]]
      BY <1>1 DEF IsRun
    <3>2. h \in [0 .. n -> V]
      BY <1>1 DEF IsRun
    <3> HIDE DEF n, S
    <3> QED
      BY <1>2, <3>1, <3>2
  <2>5. g[1 .. k] = h[k]
    BY <1>4
  <2>6. g[s] = h[k + 1]
    BY <2>1, <2>2, <2>3, <2>4, <2>5
  <2> QED
    BY <1>2, <2>6 DEF s
<1>5. \A k \in 0 .. n : k \in S
  <2> HIDE DEF S, n
  <2> QED
    BY <1>2, <1>3, <1>4, InductionUpTo
<1>6. g[1 .. n] = h[n]
  BY <1>2, <1>5
<1> QED
  BY <1>1, <1>6, ResultRun

(***************************************************************************)
(* Folding one sequence after the other.                                   *)
(***************************************************************************)
LEMMA ResultConcat ==
    ASSUME NEW V, NEW P, NEW F \in [P -> [V -> V]], NEW st \in V,
           NEW q \in Seq(P), NEW r \in Seq(P)
    PROVE  Result(V, F, st, q \o r) = Result(V, F, Result(V, F, st, q), r)
<1> DEFINE n == Len(q)
           m == Len(r)
           s == q \o r
<1>1. /\ n \in Nat /\ m \in Nat /\ s \in Seq(P) /\ Len(s) = n + m
      /\ \A i \in 1 .. n : s[i] = q[i]
      /\ \A i \in 1 .. m : \A j \in Int : j = n + i => s[j] = r[i]
  OBVIOUS
<1>2. PICK h : IsRun(h, V, F, st, s)
  BY <1>1, RunExists
<1> HIDE DEF s, n, m
<1>3. /\ h \in [0 .. n + m -> V] /\ h[0] = st
      /\ \A k \in 0 .. n + m - 1 : h[k + 1] = F[s[k + 1]][h[k]]
  <2>1. Len(s) = n + m
    BY <1>1
  <2>2. /\ h \in [0 .. Len(s) -> V] /\ h[0] = st
        /\ \A k \in 0 .. Len(s) - 1 : h[k + 1] = F[s[k + 1]][h[k]]
    BY <1>2 DEF IsRun
  <2> DEFINE l == Len(s)
  <2>3. l = n + m
    BY <2>1
  <2>4. /\ h \in [0 .. l -> V] /\ h[0] = st
        /\ \A k \in 0 .. l - 1 : h[k + 1] = F[s[k + 1]][h[k]]
    BY <2>2
  <2> HIDE DEF l
  <2>5. n \in Int /\ m \in Int /\ l \in Int /\ 0 .. l = 0 .. n + m
    BY <1>1, <2>3
  <2>6. \A k \in 0 .. n + m - 1 : k \in 0 .. l - 1
    BY <2>3, <2>5
  <2> QED
    BY <2>4, <2>5, <2>6
<1> DEFINE a == [i \in 0 .. n |-> h[i]]
           b == [i \in 0 .. m |-> h[n + i]]
<1>4. IsRun(a, V, F, st, q)
  <2>1. a \in [0 .. n -> V] /\ a[0] = st
    BY <1>1, <1>3
  <2>2. \A k \in 0 .. n - 1 : a[k + 1] = F[q[k + 1]][a[k]]
    BY <1>1, <1>3
  <2> QED
    BY <2>1, <2>2 DEF IsRun, n
<1>5. a[n] = h[n]
  BY <1>1
<1>6. Result(V, F, st, q) = h[n] /\ h[n] \in V
  <2>1. h[n] \in V
    BY <1>1, <1>3
  <2> HIDE DEF a
  <2> QED
    BY <1>4, <1>5, <2>1, ResultRun DEF n
<1>7. IsRun(b, V, F, h[n], r)
  <2>1. b \in [0 .. m -> V] /\ b[0] = h[n]
    BY <1>1, <1>3
  <2>2. ASSUME NEW k \in 0 .. m - 1 PROVE b[k + 1] = F[r[k + 1]][b[k]]
    <3>1. PICK j \in Int : j = n + k
      BY <1>1
    <3>2. j \in 0 .. n + m - 1 /\ j + 1 = n + (k + 1) /\ k + 1 \in 1 .. m
      BY <1>1, <3>1
    <3>3. h[j + 1] = F[s[j + 1]][h[j]]
      BY <1>3, <3>2
    <3>4. s[j + 1] = r[k + 1]
      BY <1>1, <3>2
    <3>5. b[k] = h[j] /\ b[k + 1] = h[j + 1]
      BY <1>1, <3>1, <3>2
    <3> QED
      BY <3>3, <3>4, <3>5
  <2> HIDE DEF b
  <2> QED
    BY <2>1, <2>2 DEF IsRun, m
<1>8. b[m] = h[n + m]
  BY <1>1
<1>9. Result(V, F, h[n], r) = h[n + m]
  <2> HIDE DEF b
  <2> QED
    BY <1>6, <1>7, <1>8, ResultRun DEF m
<1>10. Result(V, F, st, s) = h[n + m]
  <2>0. s \in Seq(P)
    BY <1>1
  <2>1. Result(V, F, st, s) = h[Len(s)]
    BY <1>2, <2>0, ResultRun
  <2> QED
    BY <1>1, <2>1, Zenon
<1> QED
  BY <1>6, <1>9, <1>10 DEF s
=============================================================================
