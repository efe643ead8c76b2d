---------------------------- MODULE PollerProofs ----------------------------
(***************************************************************************)
(* What the poller reports, proved for any number of addresses, any rules  *)
(* and rings, however often the table changes between two readings.        *)
(***************************************************************************)
EXTENDS RecentPoller, TableProofs

\* Entries whose slots in use hold a stamp
Entries ==
    {e \in [ring: [0 .. RingSize - 1 -> Times \cup {0}], nstamps: 1 .. RingSize,
             index: 0 .. IndexSize - 1] :
        \A i \in 0 .. e.nstamps - 1 : e.ring[i] # 0}

AllRows == {Row(e) : e \in Entries}

Maps == UNION {[D -> AllRows] : D \in SUBSET Hosts}

Actions == [action: {"ADD_UPD_ENTRY", "DELETE_ENTRY"}, addr: Hosts, row: AllRows]

Steps == [x \in Actions |-> [m \in Maps |-> Apply(m, x)]]

LEMMA MapType ==
    ASSUME NEW m
    PROVE  m \in Maps <=> /\ DOMAIN m \subseteq Hosts
                          /\ \A a \in DOMAIN m : m[a] \in AllRows
                          /\ m = [a \in DOMAIN m |-> m[a]]
BY DEF Maps

LEMMA ApplyType ==
    ASSUME NEW m \in Maps, NEW x \in Actions
    PROVE  /\ Apply(m, x) \in Maps
           /\ x.action = "DELETE_ENTRY" =>
                 /\ DOMAIN Apply(m, x) = DOMAIN m \ {x.addr}
                 /\ \A a \in DOMAIN m \ {x.addr} : Apply(m, x)[a] = m[a]
           /\ x.action # "DELETE_ENTRY" =>
                 /\ DOMAIN Apply(m, x) = DOMAIN m \cup {x.addr}
                 /\ Apply(m, x)[x.addr] = x.row
                 /\ \A a \in DOMAIN m \ {x.addr} : Apply(m, x)[a] = m[a]
<1>1. /\ DOMAIN m \subseteq Hosts /\ \A a \in DOMAIN m : m[a] \in AllRows
      /\ x.addr \in Hosts /\ x.row \in AllRows
  BY MapType DEF Actions
<1>2. CASE x.action = "DELETE_ENTRY"
  <2> DEFINE u == [a \in DOMAIN m \ {x.addr} |-> m[a]]
  <2>1. Apply(m, x) = u
    BY <1>2 DEF Apply
  <2>2. /\ DOMAIN u = DOMAIN m \ {x.addr}
        /\ \A a \in DOMAIN m \ {x.addr} : u[a] = m[a]
    OBVIOUS
  <2>3. u \in [DOMAIN m \ {x.addr} -> AllRows] /\ DOMAIN m \ {x.addr} \in SUBSET Hosts
    BY <1>1
  <2>4. u \in Maps
    BY <2>3 DEF Maps
  <2> HIDE DEF u
  <2> QED
    BY <1>2, <2>1, <2>2, <2>4
<1>3. CASE x.action # "DELETE_ENTRY"
  <2> DEFINE D == DOMAIN m \cup {x.addr}
             u == [a \in D |-> IF a = x.addr THEN x.row ELSE m[a]]
  <2>1. Apply(m, x) = u
    BY <1>3 DEF Apply
  <2>2. DOMAIN u = D /\ u[x.addr] = x.row /\ \A a \in DOMAIN m \ {x.addr} : u[a] = m[a]
    OBVIOUS
  <2>3. u \in [D -> AllRows] /\ D \in SUBSET Hosts
    BY <1>1
  <2>4. u \in Maps
    BY <2>3 DEF Maps
  <2> HIDE DEF u
  <2> QED
    BY <1>3, <2>1, <2>2, <2>4
<1> QED
  BY <1>2, <1>3

LEMMA StepsType == Steps \in [Actions -> [Maps -> Maps]]
BY ApplyType DEF Steps

(***************************************************************************)
(* FoldLeft of the community modules, unfolded for Apply.                  *)
(***************************************************************************)
LEMMA ApplyFold ==
    ASSUME NEW st \in Maps, NEW q \in Seq(Actions)
    PROVE  FoldLeft(Apply, st, q) = Result(Maps, Steps, st, q)
<1> DEFINE n == Len(q)
           Eq(g) == g = [s \in SUBSET (DOMAIN q) |->
                           IF s = {} THEN st
                           ELSE Apply(g[s \ {Max(s)}], q[Max(s)])]
           c == CHOOSE g : Eq(g)
<1>1. FoldLeft(Apply, st, q) = c[DOMAIN q]
  BY DEF FoldLeft, MapThenFoldSet
<1>2. n \in Nat /\ DOMAIN q = 1 .. n
  OBVIOUS
<1>3. \A s \in SUBSET (1 .. n) : s # {} =>
         Max(s) \in s /\ q[Max(s)] \in Actions /\ s \ {Max(s)} \in SUBSET (1 .. n)
  <2> SUFFICES ASSUME NEW s \in SUBSET (1 .. n), s # {}
               PROVE  Max(s) \in s /\ q[Max(s)] \in Actions
                      /\ s \ {Max(s)} \in SUBSET (1 .. n)
    OBVIOUS
  <2>1. Max(s) \in s
    <3> HIDE DEF n
    <3> QED
      BY <1>2, MaxOf
  <2>2. \A i \in 1 .. n : q[i] \in Actions
    OBVIOUS
  <2> HIDE DEF n
  <2> QED
    BY <2>1, <2>2
<1>4. PICK g : Folds(n, g, Maps, Steps, st, q)
  BY StepsType, FoldingFunction
<1>5. /\ g \in [SUBSET (1 .. n) -> Maps] /\ g[{}] = st
      /\ \A s \in SUBSET (1 .. n) :
            s # {} => g[s] = Steps[q[Max(s)]][g[s \ {Max(s)}]]
  BY <1>4 DEF Folds
<1>6. Eq(g)
  <2> DEFINE body(s) == IF s = {} THEN st ELSE Apply(g[s \ {Max(s)}], q[Max(s)])
  <2>1. ASSUME NEW s \in SUBSET (1 .. n) PROVE g[s] = body(s)
    <3>1. CASE s = {}
      BY <1>5, <3>1
    <3>2. CASE s # {}
      <4>1. q[Max(s)] \in Actions /\ g[s \ {Max(s)}] \in Maps
        BY <1>3, <1>5, <3>2
      <4> QED
        BY <1>5, <3>2, <4>1 DEF Steps
    <3> QED
      BY <3>1, <3>2
  <2> HIDE DEF body, n
  <2>2. g = [s \in SUBSET (1 .. n) |-> body(s)]
    BY <1>5, <2>1
  <2> QED
    BY <1>2, <2>2 DEF body
<1>7. Eq(c)
  <2> HIDE DEF Eq
  <2> QED
    BY <1>6
<1> HIDE DEF c, n
<1>8. \A s \in SUBSET (1 .. n) :
         c[s] = IF s = {} THEN st ELSE Apply(c[s \ {Max(s)}], q[Max(s)])
  BY <1>2, <1>7
<1>9. c[{}] = st
  BY <1>8
<1>10. \A s \in SUBSET (1 .. n) :
          s # {} /\ c[s \ {Max(s)}] \in Maps =>
             c[s] = Steps[q[Max(s)]][c[s \ {Max(s)}]]
  <2> SUFFICES ASSUME NEW s \in SUBSET (1 .. n), s # {}, c[s \ {Max(s)}] \in Maps
               PROVE  c[s] = Steps[q[Max(s)]][c[s \ {Max(s)}]]
    OBVIOUS
  <2>1. c[s] = Apply(c[s \ {Max(s)}], q[Max(s)])
    BY <1>8
  <2>2. q[Max(s)] \in Actions
    BY <1>3
  <2> QED
    BY <2>1, <2>2 DEF Steps
<1>11. c[1 .. n] = Result(Maps, Steps, st, q)
  <2>1. FoldsIn(c, Maps, Steps, st, q)
    BY <1>9, <1>10 DEF n, FoldsIn
  <2>2. c[1 .. Len(q)] = Result(Maps, Steps, st, q)
    BY <2>1, StepsType, FoldValue
  <2> QED
    BY <2>2 DEF n
<1> QED
  BY <1>1, <1>2, <1>11

-----------------------------------------------------------------------------
\* What get_table_updates queues

(***************************************************************************)
(* SetToSeq lists every member of a finite set.                            *)
(***************************************************************************)
LEMMA SetListed ==
    ASSUME NEW S, IsFiniteSet(S)
    PROVE  /\ SetToSeq(S) \in Seq(S)
           /\ \A x \in S : \E i \in 1 .. Len(SetToSeq(S)) : SetToSeq(S)[i] = x
<1> DEFINE n == Cardinality(S)
           I == {f \in [1 .. n -> S] : IsInjective(f)}
           f == SetToSeq(S)
<1>1. n \in Nat /\ ExistsBijection(1 .. n, S)
  BY FS_CardinalityType
<1>2. PICK g : g \in Bijection(1 .. n, S)
  BY <1>1 DEF ExistsBijection
<1>3. g \in [1 .. n -> S] /\ IsInjective(g)
  BY <1>2 DEF Bijection, Injection, IsInjective
<1>4. f \in [1 .. n -> S] /\ IsInjective(f)
  BY <1>3 DEF SetToSeq
<1> HIDE DEF f
<1> DEFINE T == {f[i] : i \in 1 .. n}
<1>5. f \in Bijection(1 .. n, T)
  BY <1>4 DEF Bijection, Injection, Surjection, IsInjective
<1>6. IsFiniteSet(T) /\ Cardinality(T) = n
  <2>1. ExistsBijection(1 .. n, T)
    BY <1>5 DEF ExistsBijection
  <2>2. IsFiniteSet(1 .. n) /\ Cardinality(1 .. n) = n
    BY <1>1, FS_Interval
  <2> HIDE DEF n, T
  <2> QED
    BY <2>1, <2>2, FS_Bijection
<1>7. T \in SUBSET S
  BY <1>4
<1>8. T = S
  <2> HIDE DEF T
  <2> QED
    BY <1>6, <1>7, FS_Subset
<1>9. f \in Seq(S) /\ Len(f) = n
  BY <1>1, <1>4
<1>10. \A x \in S : \E i \in 1 .. n : f[i] = x
  BY <1>8
<1> QED
  BY <1>9, <1>10 DEF f

\* Every member of q tells the truth about new; a change from old is told.
Tells(q, old, new) ==
    /\ \A i \in 1 .. Len(q) :
          IF q[i].addr \in DOMAIN new
          THEN q[i].action = "ADD_UPD_ENTRY" /\ q[i].row = new[q[i].addr]
          ELSE q[i].action = "DELETE_ENTRY"
    /\ \A a \in Updated(old, new) \cup Removed(old, new) :
          \E i \in 1 .. Len(q) : q[i].addr = a

\* q has the members of p and those of r.
Mixes(q, p, r) ==
    /\ \A i \in 1 .. Len(q) : \/ \E k \in 1 .. Len(p) : q[i] = p[k]
                              \/ \E k \in 1 .. Len(r) : q[i] = r[k]
    /\ \A k \in 1 .. Len(p) : \E i \in 1 .. Len(q) : q[i] = p[k]
    /\ \A k \in 1 .. Len(r) : \E i \in 1 .. Len(q) : q[i] = r[k]

LEMMA JoinedMembers ==
    ASSUME NEW S, NEW p \in Seq(S), NEW r \in Seq(S)
    PROVE  Mixes(p \o r, p, r)
<1> DEFINE q == p \o r
           n == Len(p)
           l == Len(r)
<1>1. n \in Nat /\ l \in Nat
  OBVIOUS
<1>2. Len(q) = n + l /\ \A j \in 1 .. n + l : q[j] = IF j <= n THEN p[j] ELSE r[j - n]
  BY Joined
<1> HIDE DEF q, n, l
<1>3. ASSUME NEW i \in 1 .. Len(q)
      PROVE  \/ \E k \in 1 .. n : q[i] = p[k]
             \/ \E k \in 1 .. l : q[i] = r[k]
  <2>1. CASE i <= n
    <3>1. i \in 1 .. n /\ q[i] = p[i]
      BY <1>1, <1>2, <2>1
    <3> QED
      BY <3>1
  <2>2. CASE ~(i <= n)
    <3>1. i - n \in 1 .. l /\ q[i] = r[i - n]
      BY <1>1, <1>2, <2>2
    <3> QED
      BY <3>1
  <2> QED
    BY <2>1, <2>2
<1>4. ASSUME NEW k \in 1 .. n PROVE \E i \in 1 .. Len(q) : q[i] = p[k]
  <2>1. k \in 1 .. Len(q) /\ q[k] = p[k]
    BY <1>1, <1>2
  <2> QED
    BY <2>1
<1>5. ASSUME NEW k \in 1 .. l PROVE \E i \in 1 .. Len(q) : q[i] = r[k]
  <2>1. n + k \in 1 .. Len(q) /\ ~(n + k <= n) /\ (n + k) - n = k
    BY <1>1, <1>2
  <2>2. q[n + k] = r[k]
    BY <1>2, <2>1
  <2> QED
    BY <2>1, <2>2
<1> QED
  BY <1>3, <1>4, <1>5 DEF Mixes, q, n, l

LEMMA UpdatesTell ==
    ASSUME NEW old \in Maps, NEW new \in Maps,
           IsFiniteSet(DOMAIN old), IsFiniteSet(DOMAIN new)
    PROVE  /\ get_table_updates(old, new) \in Seq(Actions)
           /\ Tells(get_table_updates(old, new), old, new)
<1> DEFINE A == {get_entry_as_action(a, new[a], FALSE) : a \in Updated(old, new)}
           D == {get_entry_as_action(a, old[a], TRUE) : a \in Removed(old, new)}
           p == SetToSeq(A)
           r == SetToSeq(D)
           q == get_table_updates(old, new)
<1>1. /\ DOMAIN old \subseteq Hosts /\ \A a \in DOMAIN old : old[a] \in AllRows
      /\ DOMAIN new \subseteq Hosts /\ \A a \in DOMAIN new : new[a] \in AllRows
  BY MapType
<1>2. Updated(old, new) \subseteq DOMAIN new /\ Removed(old, new) \subseteq DOMAIN old
  BY DEF Updated, Removed
<1>3. Removed(old, new) \cap DOMAIN new = {}
  BY DEF Removed
<1>4. IsFiniteSet(A) /\ IsFiniteSet(D)
  <2> DEFINE f == [a \in Updated(old, new) |-> get_entry_as_action(a, new[a], FALSE)]
             g == [a \in Removed(old, new) |-> get_entry_as_action(a, old[a], TRUE)]
  <2>1. IsFiniteSet(Updated(old, new)) /\ IsFiniteSet(Removed(old, new))
    BY <1>2, FS_Subset
  <2>2. f \in Surjection(Updated(old, new), A) /\ g \in Surjection(Removed(old, new), D)
    BY DEF Surjection
  <2> HIDE DEF A, D, f, g
  <2> QED
    BY <2>1, <2>2, FS_Surjection
<1>5. /\ A \subseteq Actions /\ D \subseteq Actions
      /\ \A x \in A : /\ x.addr \in DOMAIN new /\ x.row = new[x.addr]
                      /\ x.action = "ADD_UPD_ENTRY"
      /\ \A x \in D : x.addr \notin DOMAIN new /\ x.action = "DELETE_ENTRY"
  BY <1>1, <1>2, <1>3 DEF get_entry_as_action, Actions
<1>6. \A a \in Updated(old, new) \cup Removed(old, new) : \E x \in A \cup D : x.addr = a
  <2>1. ASSUME NEW a \in Updated(old, new) PROVE \E x \in A : x.addr = a
    <3>1. get_entry_as_action(a, new[a], FALSE) \in A
      OBVIOUS
    <3>2. get_entry_as_action(a, new[a], FALSE).addr = a
      BY DEF get_entry_as_action
    <3> HIDE DEF A
    <3> QED
      BY <3>1, <3>2
  <2>2. ASSUME NEW a \in Removed(old, new) PROVE \E x \in D : x.addr = a
    <3>1. get_entry_as_action(a, old[a], TRUE) \in D
      OBVIOUS
    <3>2. get_entry_as_action(a, old[a], TRUE).addr = a
      BY DEF get_entry_as_action
    <3> HIDE DEF D
    <3> QED
      BY <3>1, <3>2
  <2> HIDE DEF A, D
  <2> QED
    BY <2>1, <2>2
<1>7. q = p \o r
  BY DEF get_table_updates
<1> HIDE DEF A, D
<1>8. /\ p \in Seq(A) /\ \A x \in A : \E i \in 1 .. Len(p) : p[i] = x
      /\ r \in Seq(D) /\ \A x \in D : \E i \in 1 .. Len(r) : r[i] = x
  BY <1>4, SetListed
<1> HIDE DEF p, r, q
<1>9. p \in Seq(Actions) /\ r \in Seq(Actions)
  BY <1>5, <1>8
<1>10. q \in Seq(Actions)
  BY <1>7, <1>9
<1>11. Mixes(q, p, r)
  BY <1>7, <1>9, JoinedMembers
<1>12. \A i \in 1 .. Len(q) : q[i] \in A \cup D
  <2>1. /\ \A k \in 1 .. Len(p) : p[k] \in A
        /\ \A k \in 1 .. Len(r) : r[k] \in D
    BY <1>8
  <2> QED
    BY <1>11, <2>1 DEF Mixes
<1>13. \A x \in A \cup D : \E i \in 1 .. Len(q) : q[i] = x
  <2>1. ASSUME NEW x \in A PROVE \E i \in 1 .. Len(q) : q[i] = x
    <3>1. PICK k \in 1 .. Len(p) : p[k] = x
      BY <1>8
    <3> QED
      BY <1>11, <3>1 DEF Mixes
  <2>2. ASSUME NEW x \in D PROVE \E i \in 1 .. Len(q) : q[i] = x
    <3>1. PICK k \in 1 .. Len(r) : r[k] = x
      BY <1>8
    <3> QED
      BY <1>11, <3>1 DEF Mixes
  <2> QED
    BY <2>1, <2>2
<1>14. Tells(q, old, new)
  <2>1. \A i \in 1 .. Len(q) :
           IF q[i].addr \in DOMAIN new
           THEN q[i].action = "ADD_UPD_ENTRY" /\ q[i].row = new[q[i].addr]
           ELSE q[i].action = "DELETE_ENTRY"
    BY <1>5, <1>12
  <2>2. \A a \in Updated(old, new) \cup Removed(old, new) :
           \E i \in 1 .. Len(q) : q[i].addr = a
    <3> SUFFICES ASSUME NEW a \in Updated(old, new) \cup Removed(old, new)
                 PROVE  \E i \in 1 .. Len(q) : q[i].addr = a
      OBVIOUS
    <3>1. PICK x \in A \cup D : x.addr = a
      BY <1>6
    <3>2. PICK i \in 1 .. Len(q) : q[i] = x
      BY <1>13
    <3> QED
      BY <3>1, <3>2
  <2> QED
    BY <2>1, <2>2 DEF Tells
<1> QED
  BY <1>10, <1>14 DEF q

\* m has the addresses of k, at the same index.
Agrees(m, k) == DOMAIN m = DOMAIN k /\ \A a \in DOMAIN k : m[a].index = k[a].index

\* w is m, but for the addresses of T, for which it is new.
RightAt(w, m, new, T, a) ==
    IF a \in T
    THEN IF a \in DOMAIN new THEN a \in DOMAIN w /\ w[a] = new[a] ELSE a \notin DOMAIN w
    ELSE /\ a \in DOMAIN w <=> a \in DOMAIN m
         /\ a \in DOMAIN m => w[a] = m[a]

LEMMA ApplyRight ==
    ASSUME NEW w \in Maps, NEW m, NEW new, NEW x \in Actions, NEW T, NEW a,
           IF x.addr \in DOMAIN new
           THEN x.action = "ADD_UPD_ENTRY" /\ x.row = new[x.addr]
           ELSE x.action = "DELETE_ENTRY",
           RightAt(w, m, new, T, a)
    PROVE  RightAt(Apply(w, x), m, new, T \cup {x.addr}, a)
<1> DEFINE v == Apply(w, x)
<1>1. /\ x.action = "DELETE_ENTRY" =>
            /\ DOMAIN v = DOMAIN w \ {x.addr}
            /\ \A b \in DOMAIN w \ {x.addr} : v[b] = w[b]
      /\ x.action # "DELETE_ENTRY" =>
            /\ DOMAIN v = DOMAIN w \cup {x.addr}
            /\ v[x.addr] = x.row
            /\ \A b \in DOMAIN w \ {x.addr} : v[b] = w[b]
  BY ApplyType
<1> HIDE DEF v
<1>2. CASE a = x.addr
  <2>1. CASE a \in DOMAIN new
    <3>1. a \in DOMAIN v /\ v[a] = new[a]
      BY <1>1, <1>2, <2>1
    <3> QED
      BY <1>2, <2>1, <3>1 DEF RightAt, v
  <2>2. CASE a \notin DOMAIN new
    <3>1. a \notin DOMAIN v
      BY <1>1, <1>2, <2>2
    <3> QED
      BY <1>2, <2>2, <3>1 DEF RightAt, v
  <2> QED
    BY <2>1, <2>2
<1>3. CASE a # x.addr
  <2>1. /\ a \in DOMAIN v <=> a \in DOMAIN w
        /\ a \in DOMAIN w => v[a] = w[a]
    BY <1>1, <1>3
  <2>2. a \in T \cup {x.addr} <=> a \in T
    BY <1>3
  <2> QED
    BY <2>1, <2>2 DEF RightAt, v
<1> QED
  BY <1>2, <1>3

(***************************************************************************)
(* Applied to what agrees with the last reading, the updates give what     *)
(* agrees with the new one.                                                *)
(***************************************************************************)
LEMMA UpdatesAddUp ==
    ASSUME NEW old \in Maps, NEW new \in Maps, NEW m \in Maps, NEW q \in Seq(Actions),
           Agrees(m, old), Tells(q, old, new)
    PROVE  Agrees(Result(Maps, Steps, m, q), new)
<1>1. PICK h : IsRun(h, Maps, Steps, m, q)
  BY StepsType, RunExists
<1> DEFINE n == Len(q)
           T(k) == {q[i].addr : i \in 1 .. k}
           S == {k \in 0 .. n : \A a \in Hosts : RightAt(h[k], m, new, T(k), a)}
<1>2. n \in Nat
  OBVIOUS
<1>3. /\ h \in [0 .. n -> Maps] /\ h[0] = m
      /\ \A k \in 0 .. n - 1 : h[k + 1] = Steps[q[k + 1]][h[k]]
  BY <1>1 DEF IsRun
<1>4. 0 \in S
  <2>1. T(0) = {}
    OBVIOUS
  <2>2. \A a \in Hosts : RightAt(h[0], m, new, T(0), a)
    BY <1>3, <2>1 DEF RightAt
  <2> QED
    BY <1>2, <2>2
<1>5. ASSUME NEW k \in 0 .. n - 1, k \in S PROVE k + 1 \in S
  <2>1. k \in Nat /\ k + 1 \in 1 .. n /\ k \in 0 .. n /\ k + 1 \in 0 .. n
    BY <1>2
  <2>2. q[k + 1] \in Actions /\ h[k] \in Maps
    BY <1>3, <2>1
  <2>3. PICK x \in Actions : x = q[k + 1]
    BY <2>2
  <2>4. h[k + 1] = Apply(h[k], x)
    BY <1>3, <2>2, <2>3 DEF Steps
  <2>5. IF x.addr \in DOMAIN new
        THEN x.action = "ADD_UPD_ENTRY" /\ x.row = new[x.addr]
        ELSE x.action = "DELETE_ENTRY"
    BY <2>1, <2>3 DEF Tells
  <2>6. T(k + 1) = T(k) \cup {x.addr}
    <3>1. \A i : i \in 1 .. k + 1 <=> i \in 1 .. k \/ i = k + 1
      BY <2>1
    <3> QED
      BY <2>3, <3>1
  <2>7. \A a \in Hosts : RightAt(h[k], m, new, T(k), a)
    BY <1>5
  <2> HIDE DEF T
  <2>8. \A a \in Hosts : RightAt(h[k + 1], m, new, T(k + 1), a)
    BY <2>2, <2>4, <2>5, <2>6, <2>7, ApplyRight
  <2> QED
    BY <2>1, <2>8
<1>6. \A k \in 0 .. n : k \in S
  <2> HIDE DEF S, n
  <2> QED
    BY <1>2, <1>4, <1>5, InductionUpTo
<1>7. \A a \in Hosts : RightAt(h[n], m, new, T(n), a)
  <2>1. n \in S
    <3> HIDE DEF S, n
    <3> QED
      BY <1>2, <1>6
  <2> HIDE DEF n, T
  <2> QED
    BY <2>1
<1>8. /\ DOMAIN old \subseteq Hosts /\ DOMAIN new \subseteq Hosts
      /\ DOMAIN m \subseteq Hosts /\ DOMAIN h[n] \subseteq Hosts
  <2>1. h[n] \in Maps
    BY <1>2, <1>3
  <2> HIDE DEF n
  <2> QED
    BY <2>1, MapType
<1>9. ASSUME NEW a \in Hosts
      PROVE  /\ a \in DOMAIN h[n] <=> a \in DOMAIN new
             /\ a \in DOMAIN new => h[n][a].index = new[a].index
  <2>1. RightAt(h[n], m, new, T(n), a)
    BY <1>7
  <2>2. CASE a \in T(n)
    <3> HIDE DEF T, n
    <3> QED
      BY <2>1, <2>2 DEF RightAt
  <2>3. CASE a \notin T(n)
    <3>1. a \notin Updated(old, new) /\ a \notin Removed(old, new)
      BY <2>3 DEF Tells
    <3> HIDE DEF T, n
    <3>2. /\ a \in DOMAIN h[n] <=> a \in DOMAIN m
          /\ a \in DOMAIN m => h[n][a] = m[a]
      BY <2>1, <2>3 DEF RightAt
    <3>3. a \in DOMAIN m <=> a \in DOMAIN new
      BY <3>1 DEF Agrees, Updated, Removed
    <3>4. a \in DOMAIN new => m[a].index = new[a].index
      BY <3>1, <3>3 DEF Agrees, Updated
    <3> QED
      BY <3>2, <3>3, <3>4
  <2> QED
    BY <2>2, <2>3
<1> HIDE DEF n
<1>10. Agrees(h[n], new)
  BY <1>8, <1>9 DEF Agrees
<1>11. Result(Maps, Steps, m, q) = h[n]
  BY <1>1, StepsType, ResultRun DEF n
<1> QED
  BY <1>10, <1>11

-----------------------------------------------------------------------------
\* The inductive invariant

ReadingsTyped ==
    /\ known \in Maps /\ IsFiniteSet(DOMAIN known)
    /\ recent_data \in Maps /\ input_data \in Seq(Actions)
    /\ DOMAIN thread = Threads
    /\ \A k \in Threads : /\ thread[k].read \in Maps
                          /\ IsFiniteSet(DOMAIN thread[k].read)
                          /\ thread[k].at \in {"none", "test", "sleep", "diff"}

\* Before the first start nothing is read.
NotStarted ==
    starts = 0 => /\ known = NoRows /\ input_data = <<>>
                  /\ \A k \in Threads : thread[k].at = "none"

Reported == Agrees(Result(Maps, Steps, recent_data, input_data), known)

PollerInv ==
    /\ TableInv /\ size = RingSize
    /\ starts \in 0 .. MaxStarts
    /\ is_running \in BOOLEAN
    /\ ReadingsTyped /\ NotStarted
    /\ starts <= 1 => Reported

LEMMA NoRowsType == NoRows \in Maps /\ DOMAIN NoRows = {} /\ IsFiniteSet(DOMAIN NoRows)
<1>1. DOMAIN NoRows = {} /\ NoRows \in [{} -> AllRows]
  BY DEF NoRows
<1>2. {} \in SUBSET Hosts
  OBVIOUS
<1> QED
  BY <1>1, <1>2, FS_EmptySet DEF Maps

LEMMA EmptyAgrees == Agrees(Result(Maps, Steps, NoRows, <<>>), NoRows)
<1>1. Result(Maps, Steps, NoRows, <<>>) = NoRows
  BY NoRowsType, StepsType, ResultEmpty
<1> QED
  BY <1>1 DEF Agrees

(***************************************************************************)
(* The loop of parse_file_row passes every stamp on, if none is 0.         *)
(***************************************************************************)
LEMMA ParsedFold ==
    ASSUME NEW q \in Seq(Times)
    PROVE  FoldLeft(Parsed, <<>>, q) = [i \in 1 .. Len(q) |-> q[i]]
<1> DEFINE n == Len(q)
           V == Seq(Times)
           F == [x \in Times |-> [u \in V |-> Append(u, x)]]
           Eq(g) == g = [s \in SUBSET (DOMAIN q) |->
                           IF s = {} THEN <<>>
                           ELSE Parsed(g[s \ {Max(s)}], q[Max(s)])]
           c == CHOOSE g : Eq(g)
<1>0. /\ \A x \in Times : x # 0
      /\ F \in [Times -> [V -> V]] /\ <<>> \in V
  BY TableAssumption DEF Times
<1>1. FoldLeft(Parsed, <<>>, q) = c[DOMAIN q]
  BY DEF FoldLeft, MapThenFoldSet
<1>2. n \in Nat /\ DOMAIN q = 1 .. n
  OBVIOUS
<1>3. \A s \in SUBSET (1 .. n) : s # {} =>
         Max(s) \in s /\ q[Max(s)] \in Times /\ s \ {Max(s)} \in SUBSET (1 .. n)
  <2> SUFFICES ASSUME NEW s \in SUBSET (1 .. n), s # {}
               PROVE  Max(s) \in s /\ q[Max(s)] \in Times
                      /\ s \ {Max(s)} \in SUBSET (1 .. n)
    OBVIOUS
  <2>1. Max(s) \in s
    <3> HIDE DEF n
    <3> QED
      BY <1>2, MaxOf
  <2>2. \A i \in 1 .. n : q[i] \in Times
    OBVIOUS
  <2> HIDE DEF n
  <2> QED
    BY <2>1, <2>2
<1>4. \A x \in Times : \A u \in V : F[x][u] = Parsed(u, x)
  BY <1>0 DEF Parsed
<1> HIDE DEF F
<1>5. PICK g : Folds(n, g, V, F, <<>>, q)
  <2> HIDE DEF V
  <2> QED
    BY <1>0, FoldingFunction
<1>6. /\ g \in [SUBSET (1 .. n) -> V] /\ g[{}] = <<>>
      /\ \A s \in SUBSET (1 .. n) :
            s # {} => g[s] = F[q[Max(s)]][g[s \ {Max(s)}]]
  BY <1>5 DEF Folds
<1> HIDE DEF V
<1>7. Eq(g)
  <2> DEFINE body(s) == IF s = {} THEN <<>> ELSE Parsed(g[s \ {Max(s)}], q[Max(s)])
  <2>1. ASSUME NEW s \in SUBSET (1 .. n) PROVE g[s] = body(s)
    <3>1. CASE s = {}
      BY <1>6, <3>1
    <3>2. CASE s # {}
      <4>1. q[Max(s)] \in Times /\ g[s \ {Max(s)}] \in V
        BY <1>3, <1>6, <3>2
      <4> QED
        BY <1>4, <1>6, <3>2, <4>1
    <3> QED
      BY <3>1, <3>2
  <2> HIDE DEF body, n
  <2>2. g = [s \in SUBSET (1 .. n) |-> body(s)]
    BY <1>6, <2>1
  <2> QED
    BY <1>2, <2>2 DEF body
<1>8. Eq(c)
  <2> HIDE DEF Eq
  <2> QED
    BY <1>7
<1> HIDE DEF c, n
<1>9. \A s \in SUBSET (1 .. n) :
         c[s] = IF s = {} THEN <<>> ELSE Parsed(c[s \ {Max(s)}], q[Max(s)])
  BY <1>2, <1>8
<1>10. FoldsIn(c, V, F, <<>>, q)
  <2>1. c[{}] = <<>>
    BY <1>9
  <2>2. ASSUME NEW s \in SUBSET (1 .. n), s # {}, c[s \ {Max(s)}] \in V
        PROVE  c[s] = F[q[Max(s)]][c[s \ {Max(s)}]]
    BY <1>3, <1>4, <1>9, <2>2
  <2> QED
    BY <2>1, <2>2 DEF n, FoldsIn
<1>11. c[1 .. Len(q)] = Result(V, F, <<>>, q)
  BY <1>0, <1>10, FoldValue
<1> DEFINE h == [k \in 0 .. n |-> [i \in 1 .. k |-> q[i]]]
<1>12. IsRun(h, V, F, <<>>, q)
  <2>1. \A k \in 0 .. n : h[k] \in V /\ Len(h[k]) = k
    BY <1>2 DEF V, n
  <2>2. h[0] = <<>>
    BY <1>2
  <2>3. ASSUME NEW k \in 0 .. n - 1 PROVE h[k + 1] = F[q[k + 1]][h[k]]
    <3>1. q[k + 1] \in Times /\ k \in 0 .. n /\ k + 1 \in 0 .. n
      BY <1>2 DEF n
    <3>2. F[q[k + 1]][h[k]] = Append(h[k], q[k + 1])
      <4> HIDE DEF h
      <4> QED
        BY <2>1, <3>1 DEF F
    <3>3. [i \in 1 .. k + 1 |-> q[i]] = Append([i \in 1 .. k |-> q[i]], q[k + 1])
      BY <1>2, <3>1 DEF n
    <3> QED
      BY <3>1, <3>2, <3>3
  <2> HIDE DEF h
  <2>4. h \in [0 .. n -> V]
    BY <2>1 DEF h
  <2> QED
    BY <2>2, <2>3, <2>4 DEF IsRun, n
<1>13. Result(V, F, <<>>, q) = h[n]
  <2> HIDE DEF h
  <2> QED
    BY <1>0, <1>12, ResultRun DEF n
<1>14. h[n] = [i \in 1 .. n |-> q[i]]
  BY <1>2
<1> QED
  BY <1>1, <1>2, <1>11, <1>13, <1>14 DEF n

LEMMA RowsTyped == AllRows \subseteq Rows
<1> SUFFICES ASSUME NEW e \in Entries PROVE Row(e) \in Rows
  BY DEF AllRows
<1> DEFINE n == e.nstamps
           q == [i \in 1 .. n |-> e.ring[i - 1]]
<1>1. /\ n \in 1 .. RingSize /\ e.index \in 0 .. IndexSize - 1
      /\ e.ring \in [0 .. RingSize - 1 -> Times \cup {0}]
      /\ \A i \in 0 .. n - 1 : e.ring[i] # 0
  BY DEF Entries
<1>2. RingSize \in Nat
  BY PollerAssumption DEF Sizes
<1> HIDE DEF n
<1>3. ASSUME NEW i \in 1 .. n PROVE e.ring[i - 1] \in Times
  <2>1. i - 1 \in 0 .. n - 1 /\ i - 1 \in 0 .. RingSize - 1
    BY <1>1, <1>2
  <2> QED
    BY <1>1, <2>1
<1>4. q \in [1 .. n -> Times] /\ q \in Seq(Times) /\ Len(q) = n
  BY <1>1, <1>2, <1>3
<1>5. Row(e) = [index |-> e.index, stamps |-> FoldLeft(Parsed, <<>>, q)]
  BY DEF Row, parse_file_row, recent_seq_show, n
<1> HIDE DEF q
<1>6. FoldLeft(Parsed, <<>>, q) = q
  <2>1. q = [i \in 1 .. n |-> q[i]]
    BY <1>4
  <2> QED
    BY <1>4, <2>1, ParsedFold
<1>7. [index |-> e.index, stamps |-> q]
         \in [index: 0 .. IndexSize - 1, stamps: [1 .. n -> Times]]
  BY <1>1, <1>4
<1> QED
  BY <1>1, <1>5, <1>6, <1>7 DEF Rows

LEMMA PollerInitInv == PollerInit => PollerInv
<1> SUFFICES ASSUME PollerInit PROVE PollerInv
  OBVIOUS
<1>1. size \in Sizes /\ size = RingSize
  BY PollerAssumption DEF PollerInit
<1>2. TableInv
  BY <1>1, EmptyInv, TableAssumption DEF PollerInit, TableInit, Times, Intact
<1>3. ReadingsTyped
  BY NoRowsType DEF PollerInit, ReadingsTyped
<1>4. starts \in 0 .. MaxStarts /\ NotStarted
  BY PollerAssumption DEF PollerInit, NotStarted
<1>6. is_running \in BOOLEAN
  BY DEF PollerInit
<1>5. Reported
  BY EmptyAgrees DEF PollerInit, Reported
<1> QED
  BY <1>1, <1>2, <1>3, <1>4, <1>5, <1>6 DEF PollerInv

LEMMA ReadingType ==
    ASSUME TableInv, size = RingSize
    PROVE  get_table(table) \in Maps /\ IsFiniteSet(DOMAIN get_table(table))
<1> DEFINE u == get_table(table)
           D == Present(table)
<1>1. /\ D \subseteq Hosts /\ IsFiniteSet(D)
      /\ \A a \in D : table.entry[a] \in Entry /\ RingInOrder(table.entry[a], now)
  BY DEF TableInv, Sound, Typed, Listed
<1>2. \A a \in D : table.entry[a] \in Entries
  BY <1>1 DEF Entry, Entries, Slot, RingInOrder
<1>3. u = [a \in D |-> Row(table.entry[a])]
  BY DEF get_table
<1>4. \A a \in D : Row(table.entry[a]) \in AllRows
  BY <1>2 DEF AllRows
<1> HIDE DEF D, u
<1>5. u \in [D -> AllRows] /\ D \in SUBSET Hosts
  BY <1>1, <1>3, <1>4
<1> QED
  BY <1>1, <1>5 DEF Maps, u

LEMMA TestKeeps == ASSUME PollerInv, NEW k \in Threads, Test(k) PROVE PollerInv'
<1>1. /\ UNCHANGED <<table, now, size, freed, starts, is_running, known, input_data, recent_data>>
      /\ thread[k].at = "test"
      /\ thread' = [thread EXCEPT ![k].at = IF is_running THEN "sleep" ELSE "none"]
  BY DEF Test, Goto
<1>2. TableInv'
  BY <1>1, UnchangedInOrder DEF PollerInv
<1>3. starts # 0
  BY <1>1 DEF PollerInv, NotStarted
<1>4. ReadingsTyped'
  BY <1>1 DEF PollerInv, ReadingsTyped
<1>5. Reported' <=> Reported
  BY <1>1 DEF Reported
<1> QED
  BY <1>1, <1>2, <1>3, <1>4, <1>5 DEF PollerInv, NotStarted

LEMMA ReadKeeps == ASSUME PollerInv, NEW k \in Threads, Read(k) PROVE PollerInv'
<1>1. /\ UNCHANGED <<table, now, size, freed, starts, is_running, known, input_data, recent_data>>
      /\ thread[k].at = "sleep"
      /\ thread' = [thread EXCEPT ![k] = [at |-> "diff", read |-> get_table(table)]]
  BY DEF Read
<1>2. TableInv'
  BY <1>1, UnchangedInOrder DEF PollerInv
<1>3. starts # 0
  BY <1>1 DEF PollerInv, NotStarted
<1>4. ReadingsTyped'
  <2>1. get_table(table) \in Maps /\ IsFiniteSet(DOMAIN get_table(table))
    BY ReadingType DEF PollerInv
  <2>2. DOMAIN thread' = Threads /\ \A j \in Threads :
           thread'[j].read = IF j = k THEN get_table(table) ELSE thread[j].read
    BY <1>1 DEF PollerInv, ReadingsTyped
  <2> QED
    BY <1>1, <2>1, <2>2 DEF PollerInv, ReadingsTyped
<1>5. Reported' <=> Reported
  BY <1>1 DEF Reported
<1> QED
  BY <1>1, <1>2, <1>3, <1>4, <1>5 DEF PollerInv, NotStarted

LEMMA CompareKeeps == ASSUME PollerInv, NEW k \in Threads, Compare(k) PROVE PollerInv'
<1> DEFINE q == get_table_updates(known, thread[k].read)
           read == thread[k].read
           m == Result(Maps, Steps, recent_data, input_data)
<1>1. /\ UNCHANGED <<table, now, size, freed, starts, is_running, recent_data>>
      /\ thread[k].at = "diff"
      /\ input_data' = input_data \o q /\ known' = read
      /\ thread' = [thread EXCEPT ![k] = [at |-> "test", read |-> NoRows]]
  BY DEF Compare
<1>2. TableInv'
  BY <1>1, UnchangedInOrder DEF PollerInv
<1>3. starts # 0
  BY <1>1 DEF PollerInv, NotStarted
<1>4. /\ known \in Maps /\ IsFiniteSet(DOMAIN known) /\ recent_data \in Maps
      /\ read \in Maps /\ IsFiniteSet(DOMAIN read) /\ input_data \in Seq(Actions)
  BY DEF PollerInv, ReadingsTyped
<1>5. q \in Seq(Actions) /\ Tells(q, known, read)
  <2> HIDE DEF read
  <2> QED
    BY <1>4, UpdatesTell DEF read
<1> HIDE DEF q, read
<1>6. ReadingsTyped'
  <2>1. DOMAIN thread' = Threads /\ \A j \in Threads :
           thread'[j].read = IF j = k THEN NoRows ELSE thread[j].read
    BY <1>1 DEF PollerInv, ReadingsTyped
  <2>2. input_data' \in Seq(Actions)
    BY <1>1, <1>4, <1>5
  <2> QED
    BY <1>1, <1>4, <2>1, <2>2, NoRowsType DEF PollerInv, ReadingsTyped
<1>7. ASSUME Reported PROVE Reported'
  <2>1. m \in Maps
    BY <1>4, StepsType, ResultType
  <2>2. Agrees(m, known)
    BY <1>7 DEF Reported
  <2>3. Result(Maps, Steps, recent_data, input_data \o q) = Result(Maps, Steps, m, q)
    BY <1>4, <1>5, StepsType, ResultConcat
  <2> HIDE DEF m
  <2>4. Agrees(Result(Maps, Steps, m, q), read)
    BY <1>4, <1>5, <2>1, <2>2, UpdatesAddUp
  <2> QED
    BY <1>1, <2>3, <2>4 DEF Reported
<1> QED
  BY <1>1, <1>2, <1>3, <1>6, <1>7 DEF PollerInv, NotStarted

LEMMA WorkerKeeps == ASSUME PollerInv, WorkerApplies PROVE PollerInv'
<1> DEFINE x == Head(input_data)
<1>1. /\ UNCHANGED <<table, now, size, freed, starts, is_running, thread, known>>
      /\ input_data # <<>>
      /\ recent_data' = Apply(recent_data, x) /\ input_data' = Tail(input_data)
  BY DEF WorkerApplies
<1>2. TableInv'
  BY <1>1, UnchangedInOrder DEF PollerInv
<1>3. recent_data \in Maps /\ input_data \in Seq(Actions)
  BY DEF PollerInv, ReadingsTyped
<1>4. x \in Actions /\ Tail(input_data) \in Seq(Actions)
  BY <1>1, <1>3
<1>5. starts # 0
  BY <1>1 DEF PollerInv, NotStarted
<1>6. Apply(recent_data, x) = Steps[x][recent_data] /\ Apply(recent_data, x) \in Maps
  BY <1>3, <1>4, ApplyType DEF Steps
<1>7. ReadingsTyped'
  BY <1>1, <1>4, <1>6 DEF PollerInv, ReadingsTyped
<1>8. Reported' <=> Reported
  <2>1. Result(Maps, Steps, recent_data, input_data)
           = Result(Maps, Steps, Steps[Head(input_data)][recent_data], Tail(input_data))
    BY <1>1, <1>3, StepsType, ResultTail
  <2> QED
    BY <1>1, <1>6, <2>1 DEF Reported
<1> QED
  BY <1>1, <1>2, <1>5, <1>7, <1>8 DEF PollerInv, NotStarted

LEMMA StartKeeps == ASSUME PollerInv, start_recent_sync PROVE PollerInv'
<1>1. /\ UNCHANGED <<table, now, size, freed, known, input_data>>
      /\ starts < MaxStarts /\ starts' = starts + 1 /\ is_running' = TRUE
      /\ recent_data' = NoRows
      /\ thread' = [thread EXCEPT ![starts'].at = "test"]
  BY DEF start_recent_sync, Goto
<1>2. TableInv'
  BY <1>1, UnchangedInOrder DEF PollerInv
<1>3. starts \in Nat /\ starts' \in 1 .. MaxStarts
  BY <1>1, PollerAssumption DEF PollerInv
<1>4. ReadingsTyped'
  BY <1>1, NoRowsType DEF PollerInv, ReadingsTyped
<1>5. starts' <= 1 => Reported'
  <2> SUFFICES ASSUME starts' <= 1 PROVE Reported'
    OBVIOUS
  <2>1. starts = 0
    BY <1>1, <1>3
  <2>2. known = NoRows /\ input_data = <<>>
    BY <2>1 DEF PollerInv, NotStarted
  <2> QED
    BY <1>1, <2>2, EmptyAgrees DEF Reported
<1> QED
  BY <1>1, <1>2, <1>3, <1>4, <1>5 DEF PollerInv, NotStarted

LEMMA PollerStep == PollerInv /\ [PollerNext]_vars => PollerInv'
<1> SUFFICES ASSUME PollerInv, [PollerNext]_vars PROVE PollerInv'
  OBVIOUS
<1>1. ASSUME NEW k \in Threads, ProcTask(k) PROVE PollerInv'
  BY <1>1, TestKeeps, ReadKeeps, CompareKeeps DEF ProcTask
<1>2. CASE WorkerApplies
  BY <1>2, WorkerKeeps
<1>3. CASE start_recent_sync
  BY <1>3, StartKeeps
<1>4. CASE stop_recent_sync \/ UNCHANGED vars
  <2>1. UNCHANGED <<table, now, size, freed, starts, thread, known, input_data, recent_data>>
    BY <1>4 DEF stop_recent_sync, vars
  <2>2. TableInv'
    BY <2>1, UnchangedInOrder DEF PollerInv
  <2>3. is_running' \in BOOLEAN
    BY <1>4 DEF stop_recent_sync, vars, PollerInv
  <2> QED
    BY <2>1, <2>2, <2>3 DEF PollerInv, ReadingsTyped, NotStarted, Reported
<1>5. CASE TableChanges
  <2>1. /\ TableNext(Rules)
        /\ UNCHANGED <<starts, thread, is_running, known, input_data, recent_data>>
    BY <1>5 DEF TableChanges
  <2>2. size' = size
    BY <2>1 DEF TableNext
  <2>3. TableInv'
    <3>1. /\ size \in Sizes /\ TableInv
          /\ Rules \in SUBSET {r \in RuleSet : RuleOK(r)}
      BY PollerAssumption DEF PollerInv
    <3> QED
      BY <2>1, <3>1, TableStep
  <2> QED
    BY <2>1, <2>2, <2>3 DEF PollerInv, ReadingsTyped, NotStarted, Reported
<1> QED
  BY <1>1, <1>2, <1>3, <1>4, <1>5 DEF PollerNext

LEMMA PollerInvariant == PollerSpec => []PollerInv
<1> QED
  BY PollerInitInv, PollerStep, PTL DEF PollerSpec

(***************************************************************************)
(* What the poller reads and the worker keeps are rows of a table, none of *)
(* them without a stamp, however often the listener is started.            *)
(***************************************************************************)
THEOREM PollerTypeHolds == PollerSpec => []PollerTypeOK
<1>1. PollerInv => PollerTypeOK
  <2> SUFFICES ASSUME PollerInv PROVE PollerTypeOK
    OBVIOUS
  <2>1. TableTypeOK
    BY InvType DEF PollerInv
  <2>2. ASSUME NEW m \in Maps PROVE IsRowMap(m)
    BY MapType, RowsTyped DEF IsRowMap
  <2>3. ASSUME NEW k \in Threads
        PROVE  thread[k].at \in {"none", "test", "sleep", "diff"} /\ IsRowMap(thread[k].read)
    BY <2>2 DEF PollerInv, ReadingsTyped
  <2>4. IsRowMap(known) /\ IsRowMap(recent_data)
    BY <2>2 DEF PollerInv, ReadingsTyped
  <2>5. ASSUME NEW i \in DOMAIN input_data
        PROVE  /\ input_data[i].action \in {"ADD_UPD_ENTRY", "DELETE_ENTRY"}
               /\ input_data[i].addr \in Hosts /\ input_data[i].row \in Rows
    <3>1. input_data[i] \in Actions
      BY DEF PollerInv, ReadingsTyped
    <3> QED
      BY <3>1, RowsTyped DEF Actions
  <2> QED
    BY <2>1, <2>3, <2>4, <2>5 DEF PollerInv, PollerTypeOK
<1> QED
  BY <1>1, PollerInvariant, PTL

(***************************************************************************)
(* What the poller queues adds up to what it has read, as long as the      *)
(* listener is started no more than once: for any addresses, any rules, a  *)
(* ring of any size, and any number of changes between two readings.       *)
(***************************************************************************)
THEOREM ReportsAddUpHolds == PollerSpec => [](starts <= 1 => ReportsAddUp)
<1>1. PollerInv => (starts <= 1 => ReportsAddUp)
  <2> SUFFICES ASSUME PollerInv, starts <= 1 PROVE ReportsAddUp
    OBVIOUS
  <2>1. recent_data \in Maps /\ input_data \in Seq(Actions)
    BY DEF PollerInv, ReadingsTyped
  <2>2. Replayed = Result(Maps, Steps, recent_data, input_data)
    BY <2>1, ApplyFold DEF Replayed
  <2>3. Agrees(Replayed, known)
    BY <2>2 DEF PollerInv, Reported
  <2> QED
    BY <2>3 DEF Agrees, ReportsAddUp
<1> QED
  BY <1>1, PollerInvariant, PTL
=============================================================================
