---------------------------- MODULE RecentProofs ----------------------------
(***************************************************************************)
(* Proofs about xt_recent.  First the life of a table: it exists as long   *)
(* as a rule names it, and its ring has room for what every loaded rule    *)
(* counts.  Then what a dump leaves in the table, for any number of        *)
(* addresses, any rules, any size of the rings, any recent data, and any   *)
(* order of packets, failures and commands.                                *)
(***************************************************************************)
EXTENDS RecentRules, RecentDump, TableProofs

-----------------------------------------------------------------------------
\* The rules

(***************************************************************************)
(* roundup_pow_of_two returns a size that is large enough, for every hit   *)
(* count that recent_mt_check accepts.                                     *)
(***************************************************************************)
LEMMA RoundsUp ==
    ASSUME NEW n \in Nat, n < 256
    PROVE  roundup_pow_of_two(n) \in Sizes /\ n <= roundup_pow_of_two(n)
<1> DEFINE S == {s \in Sizes : n <= s}
<1>1. \E x \in Sizes : n <= x /\ \A y \in Sizes : n <= y => x <= y
  BY DEF Sizes
<1>2. \E x \in S : \A y \in S : x <= y
  BY <1>1
<1>3. Min(S) \in S
  BY <1>2 DEF Min
<1> QED
  BY <1>3 DEF roundup_pow_of_two

(***************************************************************************)
(* The ring that recent_mt_check asks for holds what the rule counts.      *)
(***************************************************************************)
LEMMA RingLargeEnough ==
    ASSUME NEW r \in Offered, r.hit_count < 256
    PROVE  RingFor(r) \in Sizes /\ r.hit_count <= RingFor(r)
<1>1. r.hit_count \in Nat /\ DefaultRing \in Sizes /\ PktListTot \in 0..255
  BY RulesAssumption DEF RuleSet
<1>2. CASE PktListTot # 0 /\ r.hit_count < PktListTot
  <2>1. RingFor(r) = roundup_pow_of_two(PktListTot)
    BY <1>2 DEF RingFor
  <2>2. RingFor(r) \in Sizes /\ PktListTot <= RingFor(r)
    BY <1>1, <2>1, RoundsUp
  <2> QED
    BY <1>1, <1>2, <2>2 DEF Sizes
<1>3. CASE ~(PktListTot # 0 /\ r.hit_count < PktListTot) /\ r.hit_count # 0
  BY <1>1, <1>3, RoundsUp DEF RingFor
<1>4. CASE ~(PktListTot # 0 /\ r.hit_count < PktListTot) /\ r.hit_count = 0
  BY <1>1, <1>4 DEF RingFor, Sizes
<1> QED
  BY <1>2, <1>3, <1>4

(***************************************************************************)
(* The inductive invariant.  refcnt counts the loaded rules, and there is  *)
(* a table exactly while it is not zero: recent_mt_destroy decides by it,  *)
(* so TableThere and HitsFit do not suffice.                               *)
(***************************************************************************)
RulesInv ==
    /\ loaded \subseteq Offered /\ IsFiniteSet(loaded)
    /\ refcnt = Cardinality(loaded)
    /\ size \in Sizes \cup {0}
    /\ size = 0 <=> loaded = {}
    /\ HitsFit

LEMMA RulesInitInv == RulesInit => RulesInv
BY FS_EmptySet DEF RulesInit, RulesInv, HitsFit

LEMMA CheckKeeps ==
    ASSUME RulesInv, NEW r \in Offered, recent_mt_check(r)
    PROVE  RulesInv'
<1> USE DEF RulesInv
<1>1. r \notin loaded /\ r.hit_count < 256 /\ loaded' = loaded \cup {r}
  BY DEF recent_mt_check
<1>2. /\ IsFiniteSet(loaded')
      /\ Cardinality(loaded') = Cardinality(loaded) + 1
      /\ loaded' \subseteq Offered /\ loaded' # {}
  BY <1>1, FS_AddElement
<1>3. RingFor(r) \in Sizes /\ r.hit_count <= RingFor(r)
  BY <1>1, RingLargeEnough
<1>4. \A q \in Offered : q.hit_count \in Nat
  BY RulesAssumption DEF RuleSet
<1>5. CASE size # 0
  <2>1. /\ refcnt' = refcnt + 1
        /\ size' = IF RingFor(r) > size THEN RingFor(r) ELSE size
    BY <1>5 DEF recent_mt_check, Share, Grow
  <2>2. size' \in Sizes /\ size <= size' /\ r.hit_count <= size'
    BY <1>3, <1>4, <1>5, <2>1 DEF Sizes
  <2>3. \A q \in loaded : q.hit_count <= size'
    BY <1>4, <2>2, <1>5 DEF HitsFit, Sizes
  <2>4. HitsFit'
    BY <1>1, <2>2, <2>3 DEF HitsFit
  <2> QED
    BY <1>2, <2>1, <2>2, <2>4 DEF Sizes
<1>6. CASE size = 0
  <2>1. size' = RingFor(r) /\ refcnt' = 1
    BY <1>6 DEF recent_mt_check, Create
  <2>2. loaded = {} /\ Cardinality(loaded) = 0
    BY <1>6, FS_EmptySet
  <2>3. HitsFit'
    BY <1>1, <1>3, <2>1, <2>2 DEF HitsFit
  <2> QED
    BY <1>2, <1>3, <2>1, <2>2, <2>3 DEF Sizes
<1> QED
  BY <1>5, <1>6

LEMMA DestroyKeeps ==
    ASSUME RulesInv, NEW r \in Offered, recent_mt_destroy(r)
    PROVE  RulesInv'
<1> USE DEF RulesInv
<1>1. /\ r \in loaded /\ loaded' = loaded \ {r} /\ refcnt' = refcnt - 1
      /\ size' = IF refcnt' = 0 THEN 0 ELSE size
  BY DEF recent_mt_destroy
<1>2. /\ IsFiniteSet(loaded')
      /\ Cardinality(loaded') = Cardinality(loaded) - 1
  BY <1>1, FS_RemoveElement
<1>3. refcnt' = 0 <=> loaded' = {}
  BY <1>1, <1>2, FS_EmptySet
<1>4. HitsFit'
  BY <1>1, <1>3 DEF HitsFit
<1> QED
  BY <1>1, <1>2, <1>3, <1>4

LEMMA RulesStep == RulesInv /\ [RulesNext]_ruleVars => RulesInv'
<1> SUFFICES ASSUME RulesInv, [RulesNext]_ruleVars PROVE RulesInv'
  OBVIOUS
<1>1. ASSUME NEW r \in Offered, recent_mt_check(r) PROVE RulesInv'
  BY <1>1, CheckKeeps
<1>2. ASSUME NEW r \in Offered, recent_mt_destroy(r) PROVE RulesInv'
  BY <1>2, DestroyKeeps
<1>3. Use => RulesInv'
  <2>1. Use => UNCHANGED <<size, refcnt, loaded>>
    BY DEF Use, TableNext
  <2> QED
    BY <2>1 DEF RulesInv, HitsFit
<1>4. CASE UNCHANGED ruleVars
  BY <1>4 DEF ruleVars, RulesInv, HitsFit
<1> QED
  BY <1>1, <1>2, <1>3, <1>4 DEF RulesNext

LEMMA RulesInvariant == RulesSpec => []RulesInv
<1> QED
  BY RulesInitInv, RulesStep, PTL DEF RulesSpec

(***************************************************************************)
(* recent_mt and recent_mt_destroy always find the table of a loaded rule, *)
(* whatever rules are loaded and unloaded, and in whatever order.          *)
(***************************************************************************)
THEOREM TableThereHolds == RulesSpec => []TableThere
<1>1. RulesInv => TableThere
  BY DEF RulesInv, TableThere
<1> QED
  BY <1>1, RulesInvariant, PTL

(***************************************************************************)
(* The ring always has room for the stamps that a loaded rule counts, for  *)
(* any set of rules, ip_pkt_list_tot and default.                          *)
(***************************************************************************)
THEOREM HitsFitHolds == RulesSpec => []HitsFit
<1>1. RulesInv => HitsFit
  BY DEF RulesInv
<1> QED
  BY <1>1, RulesInvariant, PTL

-----------------------------------------------------------------------------
(***************************************************************************)
(* The table under the rules.  A rule that makes the rings grow, the first *)
(* rule and the last leave it empty: nothing else lets an entry and the    *)
(* size it is masked with part.                                            *)
(***************************************************************************)
LEMMA EmptiedInOrder ==
    ASSUME size' \in Sizes \cup {0}, table' = EmptyTable, now' \in Times, Intact'
    PROVE  TableInv'
<1>1. ((/\ size \in Sizes \cup {0} /\ table = EmptyTable /\ now \in Times
        /\ Intact) => TableInv)'
  BY EmptyInv, PTL
<1>2. (size \in Sizes \cup {0})' /\ (table = EmptyTable)' /\ (now \in Times)'
  BY DEF EmptyTable, Times
<1> QED
  BY <1>1, <1>2

LEMMA CheckInOrder ==
    ASSUME TableInv, NEW r \in Offered, recent_mt_check(r)
    PROVE  TableInv'
<1>1. RingFor(r) \in Sizes
  BY RingLargeEnough DEF recent_mt_check
<1>2. now' = now /\ now \in Times /\ UNCHANGED freed /\ Intact'
  BY DEF recent_mt_check, TableInv, Intact
<1>3. \/ size' = RingFor(r) /\ table' = EmptyTable
      \/ UNCHANGED <<size, table>>
  BY DEF recent_mt_check, Share, Grow, Create
<1> QED
  BY <1>1, <1>2, <1>3, EmptiedInOrder, UnchangedInOrder

LEMMA DestroyInOrder ==
    ASSUME TableInv, NEW r \in Offered, recent_mt_destroy(r)
    PROVE  TableInv'
<1>1. now' = now /\ now \in Times /\ UNCHANGED freed /\ Intact'
  BY DEF recent_mt_destroy, TableInv, Intact
<1>2. \/ size' = 0 /\ table' = EmptyTable
      \/ UNCHANGED <<size, table>>
  BY DEF recent_mt_destroy
<1> QED
  BY <1>1, <1>2, EmptiedInOrder, UnchangedInOrder

\* Only rules that recent_mt_check accepts are in force.
LoadedOK == loaded \subseteq {r \in RuleSet : RuleOK(r)}

LEMMA LoadedInvariant == RulesSpec => []LoadedOK
<1>1. RulesInit => LoadedOK
  BY DEF RulesInit, LoadedOK
<1>2. LoadedOK /\ [RulesNext]_ruleVars => LoadedOK'
  <2> SUFFICES ASSUME LoadedOK, [RulesNext]_ruleVars PROVE LoadedOK'
    OBVIOUS
  <2>1. ASSUME NEW r \in Offered, recent_mt_check(r) PROVE LoadedOK'
    BY <2>1, RulesAssumption DEF recent_mt_check, LoadedOK
  <2>2. ASSUME NEW r \in Offered, recent_mt_destroy(r) PROVE LoadedOK'
    BY <2>2 DEF recent_mt_destroy, LoadedOK
  <2>3. CASE Use \/ UNCHANGED ruleVars
    BY <2>3 DEF Use, ruleVars, LoadedOK
  <2> QED
    BY <2>1, <2>2, <2>3 DEF RulesNext
<1> QED
  BY <1>1, <1>2, PTL DEF RulesSpec

LEMMA TableInvariant == RulesSpec => []TableInv
<1>1. RulesInit => TableInv
  BY EmptyInv, TableAssumption DEF RulesInit, TableInit, Times, Intact
<1>2. TableInv /\ LoadedOK /\ [RulesNext]_ruleVars => TableInv'
  <2> SUFFICES ASSUME TableInv, LoadedOK, [RulesNext]_ruleVars PROVE TableInv'
    OBVIOUS
  <2>1. ASSUME NEW r \in Offered, recent_mt_check(r) \/ recent_mt_destroy(r)
        PROVE  TableInv'
    BY <2>1, CheckInOrder, DestroyInOrder
  <2>2. Use => TableInv'
    <3>1. /\ Use => size \in Sizes /\ TableNext(loaded)
          /\ loaded \in SUBSET {r \in RuleSet : RuleOK(r)}
      BY DEF Use, TableInv, LoadedOK
    <3> QED
      BY <3>1, TableStep
  <2>3. CASE UNCHANGED ruleVars
    BY <2>3, UnchangedInOrder DEF ruleVars
  <2> QED
    BY <2>1, <2>2, <2>3 DEF RulesNext
<1> QED
  BY <1>1, <1>2, LoadedInvariant, PTL DEF RulesSpec

(***************************************************************************)
(* Every entry has a ring of the size that recent_entry_update masks its   *)
(* index with, also while rules make the rings grow; the stamps and the    *)
(* place of the next one stay within it.                                   *)
(***************************************************************************)
THEOREM RulesTypeHolds == RulesSpec => []RulesTypeOK
<1>1. RulesInv /\ TableInv => RulesTypeOK
  BY InvType, FS_CardinalityType DEF RulesInv, RulesTypeOK
<1> QED
  BY <1>1, RulesInvariant, TableInvariant, PTL

(***************************************************************************)
(* recent_entry_reap's "The last time stamp is the most recent": for any   *)
(* rules, addresses and order of packets and writes.                       *)
(***************************************************************************)
THEOREM LastIsNewestHolds == RulesSpec => []LastIsNewest
BY InvNewest, TableInvariant, PTL

(***************************************************************************)
(* recent_entry_reap's "The head of the LRU list is always the oldest      *)
(* entry": the list holds every address once, in the order last seen.      *)
(***************************************************************************)
THEOREM HeadIsOldestHolds == RulesSpec => []HeadIsOldest
BY InvOldest, TableInvariant, PTL

(***************************************************************************)
(* The table never outgrows ip_list_tot, whatever its value.               *)
(***************************************************************************)
THEOREM WithinListTotHolds == RulesSpec => []WithinListTot
BY InvOldest, TableInvariant, PTL

(***************************************************************************)
(* recent_mt never uses an entry that it has just reaped, for any rules    *)
(* that recent_mt_check accepts, any addresses, and any order of packets   *)
(* and of writes other than those of a dump: rings in order see to it.     *)
(***************************************************************************)
THEOREM NoUseAfterFreeHolds == RulesSpec => []NoUseAfterFree
<1>1. TableInv => NoUseAfterFree
  BY DEF TableInv
<1> QED
  BY <1>1, TableInvariant, PTL

-----------------------------------------------------------------------------
\* std::sort

Ascends(t) == \A i, j \in DOMAIN t : i < j => t[i] <= t[j]

LEMMA RearrangedRow ==
    ASSUME NEW S, NEW s \in Seq(S), NEW t \in Rearranged(s)
    PROVE  t \in Seq(ToSet(s)) /\ Len(t) = Len(s) /\ ToSet(t) = ToSet(s)
<1> DEFINE n == Len(s)
<1>1. n \in Nat /\ DOMAIN s = 1 .. n
  OBVIOUS
<1>2. PICK p \in Bijection(1 .. n, 1 .. n) : t = [i \in 1 .. n |-> s[p[i]]]
  BY <1>1 DEF Rearranged
<1>3. /\ p \in [1 .. n -> 1 .. n]
      /\ \A k \in 1 .. n : \E i \in 1 .. n : p[i] = k
  BY <1>2 DEF Bijection, Surjection
<1>4. \A i \in 1 .. n : s[p[i]] \in ToSet(s)
  BY <1>1, <1>3 DEF ToSet
<1>5. t \in Seq(ToSet(s)) /\ Len(t) = n /\ DOMAIN t = 1 .. n
  BY <1>1, <1>2, <1>4
<1> HIDE DEF n
<1>6. ASSUME NEW x \in ToSet(s) PROVE x \in ToSet(t)
  <2>1. PICK k \in 1 .. n : x = s[k]
    BY <1>1 DEF ToSet
  <2>2. PICK i \in 1 .. n : p[i] = k
    BY <1>3
  <2>3. t[i] = x
    BY <1>2, <2>1, <2>2
  <2> QED
    BY <1>5, <2>3 DEF ToSet
<1>7. ToSet(t) \subseteq ToSet(s)
  BY <1>2, <1>4, <1>5 DEF ToSet
<1> QED
  BY <1>5, <1>6, <1>7 DEF n

(***************************************************************************)
(* The stamps of a row in ring order can be sorted: from where the ring    *)
(* begins, they ascend.                                                    *)
(***************************************************************************)
LEMMA SortedRow ==
    ASSUME NEW s \in Seq(1 .. MaxTime - 1), InRingOrder(s)
    PROVE  /\ Sorted(s) \in Seq(ToSet(s)) /\ Len(Sorted(s)) = Len(s)
           /\ ToSet(Sorted(s)) = ToSet(s) /\ Ascends(Sorted(s))
           /\ ToSet(s) \subseteq 1 .. MaxTime - 1
<1> DEFINE n == Len(s)
<1>0. n \in Nat /\ DOMAIN s = 1 .. n /\ \A i \in 1 .. n : s[i] \in 1 .. MaxTime - 1
  <2> DEFINE R == 1 .. MaxTime - 1
  <2>1. s \in Seq(R)
    OBVIOUS
  <2> HIDE DEF R
  <2>2. n \in Nat /\ DOMAIN s = 1 .. n /\ \A i \in 1 .. n : s[i] \in R
    BY <2>1
  <2> QED
    BY <2>2 DEF R
<1>1. n \in Nat /\ n > 0 /\ DOMAIN s = 1 .. n /\ \A i \in 1 .. n : s[i] \in Int
  <2>1. n \in 1 .. RingSize
    BY DEF InRingOrder
  <2>2. RingSize \in Nat
    BY DumpAssumption, SizesNat
  <2> HIDE DEF n
  <2> QED
    BY <1>0, <2>1, <2>2
<1>2. PICK k \in 0 .. n - 1 : \A i, j \in 1 .. n :
          i < j => s[((i - 1 + k) % n) + 1] < s[((j - 1 + k) % n) + 1]
  BY DEF InRingOrder
<1> DEFINE p == [i \in 1 .. n |-> ((i - 1 + k) % n) + 1]
           t == [i \in 1 .. n |-> s[p[i]]]
           T == {p[i] : i \in 1 .. n}
<1> HIDE DEF n
<1>3. p \in [1 .. n -> 1 .. n]
  <2>1. ASSUME NEW i \in 1 .. n PROVE ((i - 1 + k) % n) + 1 \in 1 .. n
    <3>1. i - 1 + k \in Int
      BY <1>1
    <3>2. (i - 1 + k) % n \in 0 .. n - 1
      BY <1>1, <3>1, ModRange
    <3> HIDE <1>2
    <3> QED
      BY <1>1, <3>2
  <2> QED
    BY <2>1
<1>4. \A i, j \in 1 .. n : i < j => s[p[i]] < s[p[j]]
  BY <1>2
<1> HIDE DEF p
<1>5. \A i, j \in 1 .. n : i # j => p[i] # p[j]
  <2> SUFFICES ASSUME NEW i \in 1 .. n, NEW j \in 1 .. n, i # j, p[i] = p[j] PROVE FALSE
    OBVIOUS
  <2>1. i < j \/ j < i
    BY <1>1
  <2>2. s[p[i]] \in Int /\ s[p[j]] \in Int
    BY <1>1, <1>3
  <2> QED
    BY <1>4, <2>1, <2>2
<1>6. T = 1 .. n
  <2>1. p \in Bijection(1 .. n, T)
    BY <1>3, <1>5 DEF Bijection, Injection, Surjection, IsInjective
  <2>2. ExistsBijection(1 .. n, T)
    BY <2>1 DEF ExistsBijection
  <2>3. IsFiniteSet(1 .. n) /\ Cardinality(1 .. n) = n
    BY <1>1, FS_Interval
  <2>4. T \in SUBSET (1 .. n)
    BY <1>3
  <2> HIDE DEF T
  <2>5. IsFiniteSet(T) /\ Cardinality(T) = n
    BY <2>2, <2>3, FS_Bijection
  <2> QED
    BY <2>3, <2>4, <2>5, FS_Subset
<1>7. p \in Bijection(1 .. n, 1 .. n)
  BY <1>3, <1>5, <1>6 DEF Bijection, Injection, Surjection, IsInjective
<1>8. t \in Rearranged(s)
  BY <1>1, <1>7 DEF Rearranged
<1>9. \A i, j \in DOMAIN t : i < j => t[i] <= t[j]
  <2> SUFFICES ASSUME NEW i \in 1 .. n, NEW j \in 1 .. n, i < j PROVE t[i] <= t[j]
    OBVIOUS
  <2>1. p[i] \in 1 .. n /\ p[j] \in 1 .. n
    BY <1>3
  <2>2. s[p[i]] \in Int /\ s[p[j]] \in Int
    BY <1>1, <2>1
  <2> QED
    BY <1>4, <2>2
<1> HIDE DEF t
<1>10. Sorted(s) \in Rearranged(s) /\ Ascends(Sorted(s))
  BY <1>8, <1>9 DEF Sorted, Ascends
<1>11. ToSet(s) \subseteq 1 .. MaxTime - 1
  BY <1>0 DEF ToSet
<1> QED
  BY <1>10, <1>11, RearrangedRow

-----------------------------------------------------------------------------
\* The operations of the table, on tables whose rings are in given sets

Entries == [ring: [0 .. RingSize - 1 -> Times \cup {0}], nstamps: 1 .. RingSize,
            index: 0 .. IndexSize - 1]

Tables == [lru: Seq(Hosts), entry: UNION {[D -> Entries] : D \in SUBSET Hosts}]

\* The ring of address a is in W[a].
Kept(W) == {t \in Tables : Listed(t) /\ \A a \in Present(t) : t.entry[a] \in W[a]}

LEMMA EntriesAre == size = RingSize => Entry = Entries
BY DEF Entry, Entries, Slot

LEMMA KeptFacts ==
    ASSUME NEW W, NEW t \in Kept(W)
    PROVE  /\ Listed(t) /\ t.lru \in Seq(Present(t)) /\ Present(t) \in SUBSET Hosts
           /\ \A a \in Present(t) : t.entry[a] \in W[a] /\ t.entry[a] \in Entries
           /\ t.entry \in [Present(t) -> Entries]
<1>1. t \in Tables /\ Listed(t)
  BY DEF Kept
<1>2. PICK D \in SUBSET Hosts : t.entry \in [D -> Entries]
  BY <1>1 DEF Tables
<1>3. Present(t) = D
  BY <1>2 DEF Present
<1> QED
  BY <1>1, <1>2, <1>3 DEF Kept, Listed, Lists

LEMMA MakeKept ==
    ASSUME NEW W, NEW l, NEW D \in SUBSET Hosts, NEW e \in [D -> Entries],
           NEW u, u = [lru |-> l, entry |-> e], Listed(u), \A a \in D : e[a] \in W[a]
    PROVE  u \in Kept(W)
<1>1. Present(u) = D /\ u.lru = l /\ u.entry = e
  BY DEF Present
<1>2. l \in Seq(D)
  BY <1>1 DEF Listed, Lists
<1>3. l \in Seq(Hosts)
  BY <1>2
<1>4. e \in UNION {[E -> Entries] : E \in SUBSET Hosts}
  OBVIOUS
<1>5. u \in Tables
  BY <1>3, <1>4 DEF Tables
<1> QED
  BY <1>1, <1>5 DEF Kept

LEMMA EmptyKept == \A W : EmptyTable \in Kept(W) /\ Present(EmptyTable) = {}
<1> SUFFICES ASSUME NEW W PROVE EmptyTable \in Kept(W)
  BY EmptyListed
<1>1. <<>> \in [{} -> Entries] /\ {} \in SUBSET Hosts
  OBVIOUS
<1> QED
  BY <1>1, EmptyListed, MakeKept DEF EmptyTable

LEMMA RemoveKept ==
    ASSUME NEW W, NEW t \in Kept(W), NEW a \in Present(t)
    PROVE  recent_entry_remove(t, a) \in Kept(W)
<1> DEFINE D == Present(t) \ {a}
           e == [x \in D |-> t.entry[x]]
<1>1. /\ Listed(t) /\ D \in SUBSET Hosts
      /\ \A x \in D : t.entry[x] \in W[x] /\ t.entry[x] \in Entries
  BY KeptFacts
<1>2. Listed(recent_entry_remove(t, a))
  BY <1>1, RemoveListed
<1>3. recent_entry_remove(t, a) = [lru |-> Without(t.lru, a), entry |-> e]
  BY DEF recent_entry_remove
<1>4. e \in [D -> Entries] /\ \A x \in D : e[x] \in W[x]
  BY <1>1
<1> HIDE DEF D, e
<1> QED
  BY <1>1, <1>2, <1>3, <1>4, MakeKept

LEMMA UpdateKept ==
    ASSUME NEW W, NEW t \in Kept(W), NEW a \in Present(t), NEW stamp,
           Stamped(t.entry[a], stamp) \in Entries, Stamped(t.entry[a], stamp) \in W[a]
    PROVE  /\ recent_entry_update(t, a, stamp) \in Kept(W)
           /\ Present(recent_entry_update(t, a, stamp)) = Present(t)
<1> DEFINE D == Present(t)
           s == Stamped(t.entry[a], stamp)
           e == [t.entry EXCEPT ![a] = s]
           l == Append(Without(t.lru, a), a)
<1>1. /\ Listed(t) /\ D \in SUBSET Hosts /\ t.entry \in [D -> Entries]
      /\ \A x \in D : t.entry[x] \in W[x]
  BY KeptFacts
<1>2. Listed(recent_entry_update(t, a, stamp)) /\ Present(recent_entry_update(t, a, stamp)) = D
  BY <1>1, UpdateListed, UpdatedTable
<1>3. recent_entry_update(t, a, stamp) = [lru |-> l, entry |-> e]
  BY DEF recent_entry_update
<1>4. s \in Entries /\ s \in W[a] /\ a \in D
  OBVIOUS
<1> HIDE DEF D, s, l
<1>5. e \in [D -> Entries] /\ \A x \in D : e[x] \in W[x]
  BY <1>1, <1>4
<1> HIDE DEF e
<1>6. recent_entry_update(t, a, stamp) \in Kept(W)
  BY <1>1, <1>2, <1>3, <1>5, MakeKept
<1> QED
  BY <1>2, <1>6 DEF D

LEMMA RoomKept ==
    ASSUME NEW W, NEW t \in Kept(W)
    PROVE  MakeRoom(t) \in Kept(W)
<1>1. CASE Len(t.lru) >= ListTot
  <2>1. Len(t.lru) > 0
    BY <1>1, KeptFacts, TableAssumption
  <2>2. Head(t.lru) \in Present(t)
    <3>1. t.lru \in Seq(Present(t)) /\ t.lru # <<>>
      BY <2>1, KeptFacts
    <3> QED
      BY <3>1
  <2> QED
    BY <1>1, <2>2, RemoveKept DEF MakeRoom
<1>2. CASE ~(Len(t.lru) >= ListTot)
  BY <1>2 DEF MakeRoom
<1> QED
  BY <1>1, <1>2

LEMMA InitKept ==
    ASSUME NEW W, NEW t \in Kept(W), NEW a \in Hosts \ Present(t), NEW stamp,
           NewEntry(stamp) \in Entries, NewEntry(stamp) \in W[a]
    PROVE  /\ recent_entry_init(t, a, stamp) \in Kept(W)
           /\ a \in Present(recent_entry_init(t, a, stamp))
<1> DEFINE m == MakeRoom(t)
           D == Present(m) \cup {a}
           e == [x \in D |-> IF x = a THEN NewEntry(stamp) ELSE m.entry[x]]
           u == recent_entry_init(t, a, stamp)
<1>1. m \in Kept(W) /\ Listed(u) /\ Present(u) = D
  BY KeptFacts, RoomKept, InitListed, InitedTable
<1>2. /\ D \in SUBSET Hosts
      /\ \A x \in Present(m) : m.entry[x] \in W[x] /\ m.entry[x] \in Entries
  BY <1>1, KeptFacts
<1>3. u = [lru |-> Append(m.lru, a), entry |-> e]
  BY DEF recent_entry_init
<1> HIDE DEF u, m
<1>4. e \in [D -> Entries] /\ \A x \in D : e[x] \in W[x]
  BY <1>2
<1>5. a \in D
  OBVIOUS
<1> HIDE DEF D, e
<1>6. u \in Kept(W)
  BY <1>1, <1>2, <1>3, <1>4, MakeKept
<1> QED
  BY <1>1, <1>5, <1>6 DEF u

LEMMA ReapKept ==
    ASSUME NEW W, NEW t \in Kept(W), Present(t) # {}, NEW time,
           NEW u \in recent_entry_reap(t, time)
    PROVE  u \in Kept(W)
<1>1. Head(t.lru) \in Present(t)
  <2>1. t.lru \in Seq(Present(t)) /\ t.lru # <<>>
    BY KeptFacts DEF Listed, Lists
  <2> QED
    BY <2>1
<1>2. u = t \/ u = recent_entry_remove(t, Head(t.lru))
  BY DEF recent_entry_reap
<1> QED
  BY <1>1, <1>2, RemoveKept

(***************************************************************************)
(* A packet leaves every ring in its set, when a stamp of its time does.   *)
(***************************************************************************)
LEMMA PacketKept ==
    ASSUME NEW W, NEW later, later = now', NEW a \in Hosts, NEW r, table \in Kept(W),
           NewEntry(later) \in Entries, NewEntry(later) \in W[a],
           \A e \in Entries : e \in W[a] =>
              Stamped(e, later) \in Entries /\ Stamped(e, later) \in W[a],
           recent_mt(a, r)
    PROVE  table' \in Kept(W)
<1>1. ASSUME NEW u \in Kept(W), a \in Present(u)
      PROVE  recent_entry_update(u, a, later) \in Kept(W)
  <2>1. u.entry[a] \in Entries /\ u.entry[a] \in W[a]
    BY <1>1, KeptFacts
  <2> QED
    BY <1>1, <2>1, UpdateKept
<1>2. CASE NewHost(a, r)
  BY <1>2, InitKept DEF NewHost
<1>3. CASE SetOrRemove(a, r)
  BY <1>1, <1>3, RemoveKept DEF SetOrRemove
<1>4. CASE CheckOrUpdate(a, r)
  <2>1. PICK u : /\ u = table \/ u \in recent_entry_reap(table, later - r.seconds)
                 /\ \/ table' = u
                    \/ a \in Present(u) /\ table' = recent_entry_update(u, a, later)
    BY <1>4 DEF CheckOrUpdate
  <2>2. Present(table) # {}
    BY <1>4 DEF CheckOrUpdate
  <2>3. u \in Kept(W)
    BY <2>1, <2>2, ReapKept
  <2> QED
    BY <1>1, <2>1, <2>3
<1> QED
  BY <1>2, <1>3, <1>4 DEF recent_mt

-----------------------------------------------------------------------------
\* The stamps of one write

LEMMA AddFold ==
    ASSUME NEW V, NEW P, NEW a, NEW F \in [P -> [V -> V]],
           \A x \in P : \A u \in V : F[x][u] = recent_entry_update(u, a, x),
           NEW st \in V, NEW q \in Seq(P)
    PROVE  AddStamps(st, a, q) = Result(V, F, st, q)
<1> DEFINE n == Len(q)
           Eq(g) == g = [s \in SUBSET (DOMAIN q) |->
                           IF s = {} THEN st
                           ELSE recent_entry_update(g[s \ {Max(s)}], a, q[Max(s)])]
           c == CHOOSE g : Eq(g)
<1>1. AddStamps(st, a, q) = c[DOMAIN q]
  BY DEF AddStamps, FoldLeft, MapThenFoldSet
<1>2. n \in Nat /\ DOMAIN q = 1 .. n
  OBVIOUS
<1>3. \A s \in SUBSET (1 .. n) : s # {} =>
         Max(s) \in s /\ q[Max(s)] \in P /\ s \ {Max(s)} \in SUBSET (1 .. n)
  <2> SUFFICES ASSUME NEW s \in SUBSET (1 .. n), s # {}
               PROVE  Max(s) \in s /\ q[Max(s)] \in P
                      /\ s \ {Max(s)} \in SUBSET (1 .. n)
    OBVIOUS
  <2>1. Max(s) \in s
    <3> HIDE DEF n
    <3> QED
      BY <1>2, MaxOf
  <2>2. \A i \in 1 .. n : q[i] \in P
    OBVIOUS
  <2> HIDE DEF n
  <2> QED
    BY <2>1, <2>2
<1>4. PICK g : Folds(n, g, V, F, st, q)
  BY FoldingFunction
<1>5. /\ g \in [SUBSET (1 .. n) -> V] /\ g[{}] = st
      /\ \A s \in SUBSET (1 .. n) :
            s # {} => g[s] = F[q[Max(s)]][g[s \ {Max(s)}]]
  BY <1>4 DEF Folds
<1>6. Eq(g)
  <2> DEFINE body(s) == IF s = {} THEN st
                        ELSE recent_entry_update(g[s \ {Max(s)}], a, q[Max(s)])
  <2>1. ASSUME NEW s \in SUBSET (1 .. n) PROVE g[s] = body(s)
    <3>1. CASE s = {}
      BY <1>5, <3>1
    <3>2. CASE s # {}
      <4>1. q[Max(s)] \in P /\ g[s \ {Max(s)}] \in V
        BY <1>3, <1>5, <3>2
      <4> QED
        BY <1>5, <3>2, <4>1
    <3> QED
      BY <3>1, <3>2
  <2> HIDE DEF body, n
  <2>2. g = [s \in SUBSET (1 .. n) |-> body(s)]
    BY <1>5, <2>1
  <2> QED
    BY <1>2, <2>2 DEF body
<1>7. Eq(c)
  <2> HIDE DEF Eq
  <2> QED
    BY <1>6
<1> HIDE DEF c, n
<1>8. \A s \in SUBSET (1 .. n) :
         c[s] = IF s = {} THEN st
                ELSE recent_entry_update(c[s \ {Max(s)}], a, q[Max(s)])
  BY <1>2, <1>7
<1>9. c[{}] = st
  BY <1>8
<1>10. \A s \in SUBSET (1 .. n) :
          s # {} /\ c[s \ {Max(s)}] \in V =>
             c[s] = F[q[Max(s)]][c[s \ {Max(s)}]]
  <2> SUFFICES ASSUME NEW s \in SUBSET (1 .. n), s # {}, c[s \ {Max(s)}] \in V
               PROVE  c[s] = F[q[Max(s)]][c[s \ {Max(s)}]]
    OBVIOUS
  <2>1. c[s] = recent_entry_update(c[s \ {Max(s)}], a, q[Max(s)])
    BY <1>8
  <2>2. q[Max(s)] \in P
    BY <1>3
  <2> QED
    BY <2>1, <2>2
<1>11. c[1 .. n] = Result(V, F, st, q)
  <2>1. FoldsIn(c, V, F, st, q)
    BY <1>9, <1>10 DEF n, FoldsIn
  <2>2. c[1 .. Len(q)] = Result(V, F, st, q)
    BY <2>1, FoldValue
  <2> QED
    BY <2>2 DEF n
<1> QED
  BY <1>1, <1>2, <1>11

\* The steps of an address's stamps P, on the tables of W that have it.
Has(W, a) == {t \in Kept(W) : a \in Present(t)}
Adds(W, P, a) == [x \in P |-> [u \in Has(W, a) |-> recent_entry_update(u, a, x)]]

StampsKept(W, P, a) ==
    \A e \in Entries : e \in W[a] =>
       \A x \in P : Stamped(e, x) \in Entries /\ Stamped(e, x) \in W[a]

LEMMA AddsType ==
    ASSUME NEW W, NEW P, NEW a, StampsKept(W, P, a)
    PROVE  /\ Adds(W, P, a) \in [P -> [Has(W, a) -> Has(W, a)]]
           /\ \A x \in P : \A u \in Has(W, a) :
                 Adds(W, P, a)[x][u] = recent_entry_update(u, a, x)
<1>1. ASSUME NEW x \in P, NEW u \in Has(W, a)
      PROVE  recent_entry_update(u, a, x) \in Has(W, a)
  <2>1. u \in Kept(W) /\ a \in Present(u)
    BY DEF Has
  <2>2. u.entry[a] \in Entries /\ u.entry[a] \in W[a]
    BY <2>1, KeptFacts
  <2>3. /\ recent_entry_update(u, a, x) \in Kept(W)
        /\ Present(recent_entry_update(u, a, x)) = Present(u)
    BY <2>1, <2>2, UpdateKept DEF StampsKept
  <2> QED
    BY <2>1, <2>3 DEF Has
<1> QED
  BY <1>1 DEF Adds

LEMMA AddStampsKept ==
    ASSUME NEW W, NEW P, NEW a, StampsKept(W, P, a), NEW t \in Has(W, a), NEW q \in Seq(P)
    PROVE  AddStamps(t, a, q) \in Has(W, a)
<1> DEFINE V == Has(W, a)
           F == Adds(W, P, a)
<1>1. F \in [P -> [V -> V]] /\ \A x \in P : \A u \in V : F[x][u] = recent_entry_update(u, a, x)
  BY AddsType
<1> HIDE DEF V, F
<1>2. t \in V
  BY DEF V
<1>3. AddStamps(t, a, q) = Result(V, F, t, q)
  BY <1>1, <1>2, AddFold
<1>4. Result(V, F, t, q) \in V
  BY <1>1, <1>2, ResultType
<1> QED
  BY <1>3, <1>4 DEF V

(***************************************************************************)
(* A write leaves every ring in its set, when each of its stamps does.     *)
(***************************************************************************)
LEMMA WriteKept ==
    ASSUME NEW W, NEW P, NEW a \in Hosts, StampsKept(W, P, a),
           \A x \in P : NewEntry(x) \in Entries /\ NewEntry(x) \in W[a],
           NEW t \in Kept(W), NEW q \in Seq(P), q # <<>>
    PROVE  AddAll(t, a, q) \in Kept(W)
<1>1. CASE a \in Present(t)
  <2>1. t \in Has(W, a)
    BY <1>1 DEF Has
  <2> QED
    BY <1>1, <2>1, AddStampsKept DEF AddAll, Has
<1>2. CASE a \notin Present(t)
  <2>1. Head(q) \in P /\ Tail(q) \in Seq(P)
    OBVIOUS
  <2>2. recent_entry_init(t, a, Head(q)) \in Has(W, a)
    BY <1>2, <2>1, InitKept DEF Has
  <2>3. AddStamps(recent_entry_init(t, a, Head(q)), a, Tail(q)) \in Kept(W)
    BY <2>1, <2>2, AddStampsKept DEF Has
  <2> QED
    BY <1>2, <2>3 DEF AddAll
<1> QED
  BY <1>1, <1>2

-----------------------------------------------------------------------------
\* The rings that NoStaleStamp allows

\* The next stamp goes into a slot in use or into the first that is not.
IndexFits(e) == e.index \in 1 .. e.nstamps \/ (e.index = 0 /\ RingSize = IndexSize)

Allowed(a, s, b, w, d) == b # 0 => s > b \/ (a \in w /\ s \in ToSet(d[a]))

Stock(b, w, d) ==
    [a \in Hosts |-> {e \in Entries : /\ IndexFits(e)
                                      /\ \A s \in Stamps(e) : Allowed(a, s, b, w, d)}]

LEMMA NewFits ==
    ASSUME size = RingSize, NEW x \in Times
    PROVE  NewEntry(x) \in Entries /\ IndexFits(NewEntry(x)) /\ Stamps(NewEntry(x)) = {x}
<1>1. size \in Sizes
  BY DumpAssumption
<1>2. NewEntry(x) \in Entries
  BY <1>1, NewEntryInOrder, EntriesAre
<1>3. IndexFits(NewEntry(x))
  BY DEF IndexFits, NewEntry
<1>4. 0 \in Slot /\ 0 .. NewEntry(x).nstamps - 1 = {0}
  <2>1. size \in Nat /\ size > 0
    BY <1>1, SizesNat
  <2> QED
    BY <2>1 DEF Slot, NewEntry
<1>5. NewEntry(x).ring[0] = x
  BY <1>4 DEF NewEntry
<1> QED
  BY <1>2, <1>3, <1>4, <1>5 DEF Stamps

LEMMA StampedFits ==
    ASSUME size = RingSize, NEW e \in Entries, IndexFits(e), NEW x \in Times
    PROVE  /\ Stamped(e, x) \in Entries /\ IndexFits(Stamped(e, x))
           /\ Stamps(Stamped(e, x)) \subseteq Stamps(e) \cup {x}
<1> DEFINE s == Stamped(e, x)
           i == e.index % size
<1>0. size \in Sizes /\ e \in Entry
  BY DumpAssumption, EntriesAre
<1>1. size \in Nat /\ size > 0 /\ size <= IndexSize /\ IndexSize \in Nat
  BY <1>0, SizesNat, TableAssumption
<1>2. /\ i \in Slot /\ s.ring = [e.ring EXCEPT ![i] = x]
      /\ s.index = (IF i + 1 = IndexSize THEN 0 ELSE i + 1)
      /\ s.nstamps = (IF s.index > e.nstamps THEN s.index ELSE e.nstamps)
  BY <1>0, StampedPlace
<1>3. s \in Entries
  BY <1>0, StampedType, EntriesAre
<1>4. e.nstamps \in 1 .. size /\ e.ring \in [Slot -> Times \cup {0}]
      /\ e.index \in 0 .. IndexSize - 1
  BY <1>0 DEF Entry
<1>5. i \in 0 .. size - 1 /\ i <= e.nstamps
  <2>1. i \in 0 .. size - 1
    BY <1>2 DEF Slot
  <2>2. CASE e.index < size
    <3>1. e.index \in Nat
      BY <1>1, <1>4
    <3>2. i = e.index
      BY <1>1, <2>2, <3>1, SmallMod
    <3> HIDE DEF i
    <3> QED
      BY <1>1, <1>4, <2>1, <3>2 DEF IndexFits
  <2>3. CASE e.index >= size
    <3>1. e.index = size
      BY <1>1, <1>4, <2>3 DEF IndexFits
    <3>2. i = 0
      BY <1>1, <3>1, SelfMod
    <3> HIDE DEF i
    <3> QED
      BY <1>4, <2>1, <3>2
  <2> HIDE DEF i
  <2> QED
    BY <1>1, <1>4, <2>1, <2>2, <2>3
<1> HIDE DEF i, s
<1>6. IndexFits(s)
  BY <1>1, <1>2, <1>4, <1>5 DEF IndexFits
<1>7. ASSUME NEW j \in 0 .. s.nstamps - 1 PROVE s.ring[j] \in Stamps(e) \cup {x}
  <2>1. j \in Slot
    BY <1>1, <1>2, <1>4, <1>5, <1>7 DEF Slot
  <2>2. CASE j = i
    BY <1>2, <1>4, <2>1, <2>2
  <2>3. CASE j # i
    <3>1. j \in 0 .. e.nstamps - 1
      BY <1>1, <1>2, <1>4, <1>5, <1>7, <2>3
    <3>2. s.ring[j] = e.ring[j]
      BY <1>2, <1>4, <2>1, <2>3
    <3> QED
      BY <3>1, <3>2 DEF Stamps
  <2> QED
    BY <2>2, <2>3
<1>8. Stamps(s) \subseteq Stamps(e) \cup {x}
  BY <1>7 DEF Stamps
<1> QED
  BY <1>3, <1>6, <1>8 DEF s

LEMMA StockTakes ==
    ASSUME size = RingSize, NEW a \in Hosts, NEW x \in Times,
           NEW b, NEW w, NEW d, Allowed(a, x, b, w, d)
    PROVE  /\ NewEntry(x) \in Entries /\ NewEntry(x) \in Stock(b, w, d)[a]
           /\ \A e \in Entries : e \in Stock(b, w, d)[a] =>
                 Stamped(e, x) \in Entries /\ Stamped(e, x) \in Stock(b, w, d)[a]
<1>1. NewEntry(x) \in Entries /\ NewEntry(x) \in Stock(b, w, d)[a]
  BY NewFits DEF Stock
<1>2. ASSUME NEW e \in Entries, e \in Stock(b, w, d)[a]
      PROVE  Stamped(e, x) \in Entries /\ Stamped(e, x) \in Stock(b, w, d)[a]
  <2>1. IndexFits(e) /\ \A s \in Stamps(e) : Allowed(a, s, b, w, d)
    BY <1>2 DEF Stock
  <2>2. /\ Stamped(e, x) \in Entries /\ IndexFits(Stamped(e, x))
        /\ Stamps(Stamped(e, x)) \subseteq Stamps(e) \cup {x}
    BY <2>1, StampedFits
  <2>3. \A s \in Stamps(Stamped(e, x)) : Allowed(a, s, b, w, d)
    BY <2>1, <2>2
  <2> QED
    BY <2>2, <2>3 DEF Stock
<1> QED
  BY <1>1, <1>2

LEMMA StockGrows ==
    ASSUME NEW b, NEW w, NEW v, w \subseteq v, NEW d, NEW t \in Kept(Stock(b, w, d))
    PROVE  t \in Kept(Stock(b, v, d))
<1>1. \A a \in Hosts : Stock(b, w, d)[a] \subseteq Stock(b, v, d)[a]
  BY DEF Stock, Allowed
<1>2. \A a \in Present(t) : t.entry[a] \in Stock(b, w, d)[a] /\ a \in Hosts
  BY KeptFacts
<1> QED
  BY <1>1, <1>2 DEF Kept

-----------------------------------------------------------------------------
\* A ring that a write has filled

Filled(q, k) ==
    [ring |-> [i \in 0 .. RingSize - 1 |-> IF i < k THEN q[i + 1] ELSE 0],
     nstamps |-> k, index |-> k]

LEMMA FilledStep ==
    ASSUME size = RingSize, RingSize < IndexSize, NEW q \in Seq(Times),
           NEW k \in 1 .. RingSize - 1, k < Len(q)
    PROVE  Stamped(Filled(q, k), q[k + 1]) = Filled(q, k + 1)
<1> DEFINE e == Filled(q, k)
           x == q[k + 1]
           s == Stamped(e, x)
<1>0. size \in Sizes
  BY DumpAssumption
<1>1. size \in Nat /\ size > 0 /\ IndexSize \in Nat /\ size < IndexSize
  BY <1>0, SizesNat, TableAssumption
<1>2. /\ e.ring = [i \in 0 .. size - 1 |-> IF i < k THEN q[i + 1] ELSE 0]
      /\ e.nstamps = k /\ e.index = k
  BY DEF Filled
<1>3. k \in Nat /\ k < size /\ k \in 0 .. size - 1
  BY <1>1
<1>4. \A i \in 0 .. size - 1 : i < k => q[i + 1] \in Times
  BY <1>1, <1>3
<1>5. e \in Entry
  <2>1. e.ring \in [Slot -> Times \cup {0}]
    BY <1>2, <1>4 DEF Slot
  <2>2. k \in 1 .. size /\ k \in 0 .. IndexSize - 1
    BY <1>1, <1>3
  <2>3. e = [ring |-> e.ring, nstamps |-> k, index |-> k]
    BY DEF Filled
  <2> HIDE DEF e
  <2> QED
    BY <2>1, <2>2, <2>3 DEF Entry
<1>6. e.index % size = k
  BY <1>1, <1>2, <1>3, SmallMod
<1> HIDE DEF e
<1>7. /\ s.ring = [e.ring EXCEPT ![k] = x]
      /\ s.index = (IF k + 1 = IndexSize THEN 0 ELSE k + 1)
      /\ s.nstamps = (IF s.index > e.nstamps THEN s.index ELSE e.nstamps)
  BY <1>0, <1>5, <1>6, StampedPlace
<1>8. s.index = k + 1 /\ s.nstamps = k + 1
  BY <1>1, <1>2, <1>3, <1>7
<1>9. s.ring = [i \in 0 .. size - 1 |-> IF i < k + 1 THEN q[i + 1] ELSE 0]
  <2>1. \A i \in 0 .. size - 1 :
           [e.ring EXCEPT ![k] = x][i] = IF i < k + 1 THEN q[i + 1] ELSE 0
    BY <1>2, <1>3
  <2> QED
    BY <1>2, <1>7, <2>1
<1>10. s = [ring |-> s.ring, nstamps |-> s.nstamps, index |-> s.index]
  BY DEF Stamped
<1> HIDE DEF s
<1>11. s = Filled(q, k + 1)
  BY <1>8, <1>9, <1>10 DEF Filled
<1> QED
  BY <1>11 DEF s, e

LEMMA FilledFirst ==
    ASSUME size = RingSize, NEW q
    PROVE  NewEntry(q[1]) = Filled(q, 1)
<1>1. \A i \in Slot : (IF i = 0 THEN q[1] ELSE 0) = (IF i < 1 THEN q[i + 1] ELSE 0)
  <2>1. size \in Nat
    BY DumpAssumption, SizesNat
  <2> QED
    BY <2>1 DEF Slot
<1>2. Slot = 0 .. RingSize - 1
  BY DEF Slot
<1> QED
  BY <1>1, <1>2 DEF NewEntry, Filled

\* u is t with a ring of a that holds q, the first k of it.
FilledIn(u, t, a, q, k) ==
    /\ Present(u) = Present(t) \cup {a}
    /\ u.entry[a] = Filled(q, k)
    /\ \A x \in Present(t) \ {a} : u.entry[x] = t.entry[x]

(***************************************************************************)
(* A write for an address that the table does not have, and has room for.  *)
(***************************************************************************)
LEMMA FreshWrite ==
    ASSUME size = RingSize, RingSize < IndexSize,
           NEW W, NEW P \in SUBSET Times, NEW a \in Hosts, StampsKept(W, P, a),
           \A x \in P : NewEntry(x) \in Entries /\ NewEntry(x) \in W[a],
           NEW t \in Kept(W), a \notin Present(t), Len(t.lru) < ListTot,
           NEW q \in Seq(P), Len(q) \in 1 .. RingSize
    PROVE  FilledIn(AddAll(t, a, q), t, a, q, Len(q))
<1> DEFINE V == Has(W, a)
           F == Adds(W, P, a)
           u == recent_entry_init(t, a, Head(q))
           r == Tail(q)
           n == Len(q)
<1>1. RingSize \in Nat /\ n \in Nat /\ n \in 1 .. RingSize
  BY DumpAssumption, SizesNat
<1>2. /\ q # <<>> /\ Head(q) \in P /\ r \in Seq(P) /\ Head(q) = q[1]
      /\ Len(r) = n - 1 /\ \A j \in 1 .. n - 1 : r[j] = q[j + 1]
  OBVIOUS
<1>3. F \in [P -> [V -> V]] /\ \A x \in P : \A v \in V : F[x][v] = recent_entry_update(v, a, x)
  BY AddsType
<1>4. u \in V
  BY <1>2, InitKept DEF Has
<1>5. FilledIn(u, t, a, q, 1)
  <2>1. MakeRoom(t) = t
    <3>1. ~(Len(t.lru) >= ListTot)
      BY KeptFacts, TableAssumption
    <3> QED
      BY <3>1 DEF MakeRoom
  <2> QED
    BY <1>2, <2>1, InitedTable, FilledFirst DEF FilledIn
<1>6. AddAll(t, a, q) = AddStamps(u, a, r)
  BY DEF AddAll
<1> HIDE DEF F, V, u, r, n
<1>7. AddStamps(u, a, r) = Result(V, F, u, r)
  BY <1>2, <1>3, <1>4, AddFold
<1>8. PICK h : IsRun(h, V, F, u, r)
  BY <1>2, <1>3, <1>4, RunExists
<1>9. /\ h \in [0 .. n - 1 -> V] /\ h[0] = u
      /\ \A k \in 0 .. n - 1 - 1 : h[k + 1] = F[r[k + 1]][h[k]]
  BY <1>2, <1>8 DEF IsRun
<1> DEFINE S == {k \in 0 .. n - 1 : FilledIn(h[k], t, a, q, k + 1)}
<1>10. 0 \in S
  BY <1>1, <1>5, <1>9
<1>11. ASSUME NEW k \in 0 .. n - 1 - 1, k \in S PROVE k + 1 \in S
  <2>1. /\ k \in 0 .. n - 1 /\ k + 1 \in 0 .. n - 1 /\ k + 1 \in 1 .. n - 1
        /\ k + 1 \in 1 .. RingSize - 1 /\ k + 1 < n
    BY <1>1
  <2>2. h[k] \in V /\ r[k + 1] \in P /\ r[k + 1] = q[k + 1 + 1]
    <3>1. h[k] \in V
      BY <1>9, <2>1
    <3>2. \A j \in 1 .. Len(r) : r[j] \in P
      BY <1>2
    <3>3. r[k + 1] \in P
      BY <1>2, <2>1, <3>2
    <3> QED
      BY <1>2, <2>1, <3>1, <3>3
  <2>3. PICK l \in 1 .. RingSize - 1 : l = k + 1
    BY <2>1
  <2>4. PICK x \in P : x = q[l + 1]
    BY <2>2, <2>3
  <2>5. PICK v \in V : v = h[k]
    BY <2>2
  <2>6. h[l] = recent_entry_update(v, a, x)
    BY <1>3, <1>9, <2>2, <2>3, <2>4, <2>5
  <2>7. FilledIn(v, t, a, q, l)
    BY <1>11, <2>3, <2>5
  <2>8. a \in Present(v)
    BY <2>7 DEF FilledIn
  <2>9. Stamped(Filled(q, l), q[l + 1]) = Filled(q, l + 1)
    <3>1. q \in Seq(Times)
      OBVIOUS
    <3>2. l < Len(q)
      BY <2>1, <2>3 DEF n
    <3> QED
      BY <3>1, <3>2, FilledStep
  <2>10. FilledIn(h[l], t, a, q, l + 1)
    <3>1. /\ Present(recent_entry_update(v, a, x)) = Present(v)
          /\ recent_entry_update(v, a, x).entry[a] = Stamped(v.entry[a], x)
          /\ \A y \in Present(v) \ {a} :
                recent_entry_update(v, a, x).entry[y] = v.entry[y]
      BY <2>8, UpdatedTable
    <3> QED
      BY <2>4, <2>6, <2>7, <2>9, <3>1 DEF FilledIn
  <2> QED
    BY <2>1, <2>3, <2>10
<1>12. \A k \in 0 .. n - 1 : k \in S
  <2>1. n - 1 \in Nat
    BY <1>1
  <2> HIDE DEF S
  <2> QED
    BY <1>10, <1>11, <2>1, InductionUpTo
<1>13. FilledIn(h[n - 1], t, a, q, n)
  <2>1. n - 1 \in 0 .. n - 1 /\ (n - 1) + 1 = n
    BY <1>1
  <2> QED
    BY <1>12, <2>1
<1>14. Result(V, F, u, r) = h[n - 1]
  BY <1>2, <1>3, <1>4, <1>8, ResultRun
<1> QED
  BY <1>6, <1>7, <1>13, <1>14 DEF n

LEMMA FilledRing ==
    ASSUME RingSize < IndexSize, NEW q \in Seq(Times), Len(q) \in 1 .. RingSize, Ascends(q)
    PROVE  /\ Stamps(Filled(q, Len(q))) = ToSet(q)
           /\ \A s \in ToSet(q) : s <= Filled(q, Len(q)).ring[Len(q) - 1]
           /\ Len(q) = RingSize =>
                 \A s \in ToSet(q) : Filled(q, Len(q)).ring[Len(q) % RingSize] <= s
<1> DEFINE n == Len(q)
           e == Filled(q, n)
<1>1. RingSize \in Nat /\ n \in Nat /\ n \in 1 .. RingSize /\ DOMAIN q = 1 .. n
  BY DumpAssumption, SizesNat
<1>2. /\ \A i \in 0 .. RingSize - 1 : e.ring[i] = IF i < n THEN q[i + 1] ELSE 0
      /\ e.nstamps = n
  BY DEF Filled
<1>3. \A i, j \in 1 .. n : i < j => q[i] <= q[j]
  BY <1>1 DEF Ascends
<1>4. \A i \in 1 .. n : q[i] \in Int
  BY TableAssumption DEF Times
<1> HIDE DEF e, n
<1>5. \A i \in 0 .. n - 1 : i \in 0 .. RingSize - 1 /\ i < n /\ i + 1 \in 1 .. n
  BY <1>1
<1>6. \A i \in 0 .. n - 1 : e.ring[i] = q[i + 1]
  BY <1>2, <1>5
<1>7. Stamps(e) = ToSet(q)
  <2>1. ASSUME NEW i \in 0 .. n - 1 PROVE e.ring[i] \in ToSet(q)
    BY <1>1, <1>5, <1>6 DEF ToSet
  <2>2. ASSUME NEW x \in ToSet(q) PROVE \E i \in 0 .. n - 1 : e.ring[i] = x
    <3>1. PICK k \in 1 .. n : q[k] = x
      BY <1>1 DEF ToSet
    <3>2. k - 1 \in 0 .. n - 1 /\ (k - 1) + 1 = k
      BY <1>1
    <3>3. e.ring[k - 1] = x
      BY <1>6, <3>1, <3>2
    <3> QED
      BY <3>2, <3>3
  <2> QED
    BY <1>2, <2>1, <2>2 DEF Stamps
<1>8. \A i \in 1 .. n : q[i] <= q[n] /\ q[1] <= q[i]
  <2> SUFFICES ASSUME NEW i \in 1 .. n PROVE q[i] <= q[n] /\ q[1] <= q[i]
    OBVIOUS
  <2>1. 1 \in 1 .. n /\ n \in 1 .. n /\ (i < n \/ i = n) /\ (1 < i \/ i = 1)
    BY <1>1
  <2> QED
    BY <1>3, <1>4, <2>1
<1>9. \A s \in ToSet(q) : s <= q[n] /\ q[1] <= s
  BY <1>1, <1>8 DEF ToSet
<1>10. e.ring[n - 1] = q[n] /\ e.ring[0] = q[1]
  <2>1. n - 1 \in 0 .. n - 1 /\ 0 \in 0 .. n - 1 /\ (n - 1) + 1 = n /\ 0 + 1 = 1
    BY <1>1
  <2>2. e.ring[n - 1] = q[(n - 1) + 1] /\ e.ring[0] = q[0 + 1]
    BY <1>6, <2>1
  <2> QED
    BY <2>1, <2>2
<1>11. n = RingSize => n % RingSize = 0
  BY <1>1, SelfMod
<1> QED
  BY <1>7, <1>9, <1>10, <1>11 DEF e, n

-----------------------------------------------------------------------------
\* The rings that no write has come behind

Unmixed(m, time) ==
    [a \in Hosts |-> {e \in Entries : a \notin m => RingInOrder(e, time)}]

UnmixedIn(t, m, time) == \A a \in Present(t) \ m : RingInOrder(t.entry[a], time)

LEMMA UnmixedAre ==
    ASSUME NEW W, NEW t \in Kept(W), NEW m, NEW time
    PROVE  UnmixedIn(t, m, time) <=> t \in Kept(Unmixed(m, time))
<1>1. /\ t \in Tables /\ Listed(t) /\ Present(t) \in SUBSET Hosts
      /\ \A a \in Present(t) : t.entry[a] \in Entries
  BY KeptFacts DEF Kept
<1>2. \A a \in Present(t) : t.entry[a] \in Unmixed(m, time)[a]
                               <=> (a \notin m => RingInOrder(t.entry[a], time))
  BY <1>1 DEF Unmixed
<1>3. UnmixedIn(t, m, time)
         <=> \A a \in Present(t) : a \notin m => RingInOrder(t.entry[a], time)
  BY DEF UnmixedIn
<1> QED
  BY <1>1, <1>2, <1>3 DEF Kept

LEMMA UnmixedLater ==
    ASSUME size = RingSize, NEW W, NEW t \in Kept(W), NEW m, NEW time \in Times,
           NEW later \in Times, time <= later, UnmixedIn(t, m, time)
    PROVE  UnmixedIn(t, m, later)
<1>1. \A a \in Present(t) : t.entry[a] \in Entry
  BY KeptFacts, EntriesAre
<1>2. size \in Sizes
  BY DumpAssumption
<1> QED
  BY <1>1, <1>2, LaterInOrder DEF UnmixedIn

(***************************************************************************)
(* The ascending stamps of a row leave a new ring in order, whatever the   *)
(* others are like.                                                        *)
(***************************************************************************)
LEMMA AscendingWrite ==
    ASSUME size = RingSize, NEW W, NEW P \in SUBSET Times, NEW a \in Hosts,
           StampsKept(W, P, a),
           \A x \in P : NewEntry(x) \in Entries /\ NewEntry(x) \in W[a],
           NEW t \in Kept(W), a \notin Present(t),
           NEW q \in Seq(P), q # <<>>, Ascends(q), NEW time \in Times,
           \A x \in P : x <= time
    PROVE  RingInOrder(AddAll(t, a, q).entry[a], time)
<1> DEFINE V == Has(W, a)
           F == Adds(W, P, a)
           u == recent_entry_init(t, a, Head(q))
           r == Tail(q)
           n == Len(q)
<1>0. size \in Sizes
  BY DumpAssumption
<1>1. n \in Nat /\ n > 0 /\ n - 1 \in Nat /\ DOMAIN q = 1 .. n
  OBVIOUS
<1>2. /\ Head(q) \in P /\ r \in Seq(P) /\ Head(q) = q[1]
      /\ Len(r) = n - 1 /\ \A j \in 1 .. n - 1 : r[j] = q[j + 1]
      /\ \A j \in 1 .. n : q[j] \in P
  OBVIOUS
<1>3. /\ F \in [P -> [V -> V]]
      /\ \A x \in P : \A v \in V : F[x][v] = recent_entry_update(v, a, x)
  BY AddsType
<1>4. u \in V
  BY <1>2, InitKept DEF Has
<1>5. RingInOrder(u.entry[a], q[1])
  BY <1>0, <1>2, InitedTable, NewEntryInOrder
<1>6. AddAll(t, a, q) = AddStamps(u, a, r)
  BY DEF AddAll
<1>15. \A j \in 1 .. n - 1 : q[j] <= q[j + 1]
  BY <1>1 DEF Ascends
<1> HIDE DEF F, u, r, n
<1>7. AddStamps(u, a, r) = Result(V, F, u, r)
  BY <1>2, <1>3, <1>4, AddFold
<1>8. PICK h : IsRun(h, V, F, u, r)
  BY <1>2, <1>3, <1>4, RunExists
<1>9. /\ h \in [0 .. n - 1 -> V] /\ h[0] = u
      /\ \A k \in 0 .. n - 1 - 1 : h[k + 1] = F[r[k + 1]][h[k]]
  BY <1>2, <1>8 DEF IsRun
<1> DEFINE S == {k \in 0 .. n - 1 : RingInOrder(h[k].entry[a], q[k + 1])}
<1>10. 0 \in S
  BY <1>1, <1>5, <1>9
<1>11. ASSUME NEW k \in 0 .. n - 1 - 1, k \in S PROVE k + 1 \in S
  <2>1. k + 1 \in 1 .. n - 1 /\ k + 1 \in 0 .. n - 1 /\ k \in 0 .. n - 1
        /\ k + 1 \in 1 .. n /\ (k + 1) + 1 \in 1 .. n
    BY <1>1
  <2>2. PICK l \in 1 .. n - 1 : l = k + 1
    BY <2>1
  <2>3. PICK v \in V : v = h[k]
    BY <1>9, <2>1
  <2>4. PICK x \in P, y \in P : x = q[l] /\ y = q[l + 1] /\ r[l] = y
    BY <1>2, <2>1, <2>2
  <2>5. h[l] = recent_entry_update(v, a, y)
    BY <1>3, <1>9, <2>2, <2>3, <2>4
  <2>6. v \in Kept(W) /\ a \in Present(v)
    BY DEF Has
  <2>7. v.entry[a] \in Entry
    BY <2>6, KeptFacts, EntriesAre
  <2>8. RingInOrder(v.entry[a], x) /\ x <= y
    BY <1>11, <1>15, <2>2, <2>3, <2>4
  <2>9. RingInOrder(Stamped(v.entry[a], y), y)
    BY <1>0, <2>7, <2>8, StampedInOrder
  <2>10. RingInOrder(h[l].entry[a], q[l + 1])
    BY <2>4, <2>5, <2>6, <2>9, UpdatedTable
  <2> QED
    BY <2>1, <2>2, <2>10
<1>12. n - 1 \in S
  <2> HIDE DEF S
  <2>1. \A k \in 0 .. n - 1 : k \in S
    BY <1>1, <1>10, <1>11, InductionUpTo
  <2> QED
    BY <1>1, <2>1
<1>13. Result(V, F, u, r) = h[n - 1]
  BY <1>2, <1>3, <1>4, <1>8, ResultRun
<1>14. RingInOrder(h[n - 1].entry[a], q[n])
  BY <1>1, <1>12
<1>16. h[n - 1].entry[a] \in Entry
  <2>1. h[n - 1] \in Kept(W) /\ a \in Present(h[n - 1])
    BY <1>1, <1>9 DEF Has
  <2> QED
    BY <2>1, KeptFacts, EntriesAre
<1>17. q[n] \in Times /\ q[n] <= time
  BY <1>1, <1>2
<1> QED
  BY <1>0, <1>6, <1>7, <1>13, <1>14, <1>16, <1>17, LaterInOrder

-----------------------------------------------------------------------------
\* The inductive invariant

Bookkeeping ==
    /\ size = RingSize /\ now \in Times /\ begun \in 0 .. now
    /\ cmd \in {"none", "table", "all", "done", "failed"}
    /\ data \in Dumps /\ todo \subseteq DOMAIN data /\ written \subseteq DOMAIN data
    /\ todo \cap written = {} /\ mixed \subseteq written /\ freed \subseteq Hosts
    /\ \A a \in DOMAIN data : \A s \in ToSet(data[a]) : s <= now

RingsKept == table \in Kept(Stock(begun, written, data))

\* Nothing but the dump has touched the table, and the table has room for it.
Undisturbed ==
    Begun /\ now = begun /\ Cardinality(DOMAIN data) <= ListTot /\ RingSize < IndexSize

AsWritten ==
    /\ Present(table) = written
    /\ \A a \in written : table.entry[a] = Filled(Sorted(data[a]), Len(data[a]))

\* The rings of the others are in order, so that they are never used once freed.
MixedOnly == UnmixedIn(table, mixed, now) /\ OnlyMixedFreed

DumpInv == Bookkeeping /\ RingsKept /\ (Undisturbed => AsWritten) /\ MixedOnly

LEMMA RowFacts ==
    ASSUME NEW d \in Dumps, NEW a \in DOMAIN d
    PROVE  /\ a \in Hosts /\ Len(d[a]) \in 1 .. RingSize
           /\ Sorted(d[a]) \in Seq(ToSet(d[a])) /\ Len(Sorted(d[a])) = Len(d[a])
           /\ ToSet(Sorted(d[a])) = ToSet(d[a]) /\ Ascends(Sorted(d[a]))
           /\ ToSet(d[a]) \subseteq 1 .. MaxTime - 1 /\ ToSet(d[a]) \subseteq Times
<1>1. /\ DOMAIN d \subseteq Hosts
      /\ d[a] \in Seq(1 .. MaxTime - 1) /\ InRingOrder(d[a])
  BY DumpAssumption
<1>2. Len(d[a]) \in 1 .. RingSize
  BY <1>1 DEF InRingOrder
<1>3. /\ Sorted(d[a]) \in Seq(ToSet(d[a])) /\ Len(Sorted(d[a])) = Len(d[a])
      /\ ToSet(Sorted(d[a])) = ToSet(d[a]) /\ Ascends(Sorted(d[a]))
      /\ ToSet(d[a]) \subseteq 1 .. MaxTime - 1
  BY <1>1, SortedRow
<1>4. 1 .. MaxTime - 1 \subseteq Times
  BY TableAssumption DEF Times
<1> QED
  BY <1>1, <1>2, <1>3, <1>4

LEMMA LatestStamp ==
    ASSUME NEW n \in Nat, NEW U \in SUBSET (1 .. n)
    PROVE  Max({0} \cup U) \in {0} \cup U /\ \A y \in U : Max({0} \cup U) >= y
<1> DEFINE S == {0} \cup U
<1>1. \E x \in S : \A y \in S : x >= y
  <2>1. CASE U = {}
    BY <2>1
  <2>2. CASE U # {}
    <3>1. Max(U) \in U /\ \A y \in U : y <= Max(U)
      BY <2>2, MaxOf
    <3>2. PICK m \in U : m = Max(U)
      BY <3>1
    <3>3. m \in 1 .. n /\ \A y \in U : y \in 1 .. n /\ y <= m
      BY <3>1, <3>2
    <3>4. \A y \in S : m >= y
      BY <3>3
    <3> QED
      BY <3>4
  <2> QED
    BY <2>1, <2>2
<1> QED
  BY <1>1 DEF Max

\* The same, a step later
LEMMA UnmixedNext ==
    ASSUME size' = size, UnmixedIn(table', mixed', now') PROVE UnmixedIn(table, mixed, now)'
<1>1. \A e, time : RingInOrder(e, time)' = RingInOrder(e, time)
  BY DEF LastSeen, RingInOrder, Slot
<1> QED
  BY <1>1 DEF UnmixedIn, Present

LEMMA DumpInitInv == DumpInit => DumpInv
<1> SUFFICES ASSUME DumpInit PROVE DumpInv
  OBVIOUS
<1> DEFINE U == UNION {ToSet(data[a]) : a \in DOMAIN data}
<1>1. U \in SUBSET (1 .. MaxTime - 1)
  BY RowFacts DEF DumpInit
<1>2. MaxTime - 1 \in Nat /\ MaxTime \in Nat
  BY TableAssumption
<1>3. now = 1 + Max({0} \cup U)
  BY DEF DumpInit
<1> HIDE DEF U
<1>4. Max({0} \cup U) \in 0 .. MaxTime - 1
  <2>1. Max({0} \cup U) \in {0} \cup U
    BY <1>1, <1>2, LatestStamp
  <2>2. PICK m \in {0} \cup U : m = Max({0} \cup U)
    BY <2>1
  <2>3. 0 \in 0 .. MaxTime - 1 /\ 1 .. MaxTime - 1 \subseteq 0 .. MaxTime - 1
    BY <1>2
  <2>4. m \in 0 .. MaxTime - 1
    BY <1>1, <2>3
  <2> QED
    BY <2>2, <2>4
<1>5. now \in Times /\ 0 \in 0 .. now
  BY <1>2, <1>3, <1>4 DEF Times
<1>6. table = EmptyTable /\ size = RingSize /\ begun = 0 /\ todo = {} /\ written = {}
      /\ cmd = "none" /\ data \in Dumps
  BY DEF DumpInit
<1>7. RingsKept
  BY <1>6, EmptyKept DEF RingsKept
<1>8. mixed = {} /\ freed = {}
  BY DEF DumpInit
<1>9. MixedOnly
  BY <1>6, <1>8, EmptyKept DEF MixedOnly, UnmixedIn, OnlyMixedFreed
<1>10. \A s \in U : s <= now
  <2> SUFFICES ASSUME NEW s \in U PROVE s <= now
    OBVIOUS
  <2>1. s <= Max({0} \cup U)
    BY <1>1, <1>2, LatestStamp
  <2>2. s \in Int
    BY <1>1
  <2> QED
    BY <1>3, <1>4, <2>1, <2>2
<1>11. \A a \in DOMAIN data : \A s \in ToSet(data[a]) : s <= now
  BY <1>10 DEF U
<1> QED
  BY <1>5, <1>6, <1>7, <1>8, <1>9, <1>11 DEF DumpInv, Bookkeeping, Undisturbed, Begun

\* Both commands and CLEAR_RECENT begin with the flush.
LEMMA FlushKeeps ==
    ASSUME DumpInv, table' = Flushed(table), written' = {}, begun' = now, Intact,
           UNCHANGED <<now, size, data, freed>>, todo' \subseteq DOMAIN data,
           mixed' = {},
           cmd' \in {"none", "table", "all", "done", "failed"}
    PROVE  DumpInv'
<1>1. table' = EmptyTable
  BY DEF Flushed, recent_table_flush
<1>2. RingsKept'
  BY <1>1, EmptyKept DEF RingsKept
<1>3. now \in 0 .. now
  BY TableAssumption DEF DumpInv, Bookkeeping, Times
<1>4. Bookkeeping'
  BY <1>3 DEF DumpInv, Bookkeeping
<1>5. AsWritten'
  BY <1>1, EmptyKept DEF AsWritten
<1>6. UnmixedIn(table', mixed', now')
  BY <1>1, EmptyKept DEF UnmixedIn
<1>7. MixedOnly'
  BY <1>6, UnmixedNext DEF MixedOnly, OnlyMixedFreed, Intact
<1> QED
  BY <1>2, <1>4, <1>5, <1>7 DEF DumpInv

LEMMA AnyStamped ==
    ASSUME size = RingSize, NEW e \in Entries, NEW x \in Times
    PROVE  Stamped(e, x) \in Entries
<1>1. size \in Sizes /\ e \in Entry
  BY DumpAssumption, EntriesAre
<1> QED
  BY <1>1, StampedType, EntriesAre

LEMMA WriteKeeps == ASSUME DumpInv, NEW a \in Hosts, WriteEntry(a) PROVE DumpInv'
<1> DEFINE q == Sorted(data[a])
           P == ToSet(data[a])
           w == written \cup {a}
           W == Stock(begun, w, data)
<1>1. /\ a \in todo /\ table' = AddAll(table, a, q) /\ written' = w
      /\ todo' = todo \ {a} /\ UNCHANGED <<now, size, freed, data, begun>>
      /\ mixed' = (IF a \in Present(table) THEN mixed \cup {a} ELSE mixed)
      /\ cmd' = (IF todo' = {} THEN "done" ELSE cmd)
  BY DEF WriteEntry
<1>2. /\ size = RingSize /\ data \in Dumps /\ a \in DOMAIN data /\ a \notin written
      /\ written \subseteq DOMAIN data
  BY <1>1 DEF DumpInv, Bookkeeping
<1>3. /\ q \in Seq(P) /\ Len(q) = Len(data[a]) /\ Len(q) \in 1 .. RingSize
      /\ P \in SUBSET Times
  BY <1>2, RowFacts
<1>4. table \in Kept(W)
  BY StockGrows DEF DumpInv, RingsKept
<1>5. \A x \in P : Allowed(a, x, begun, w, data)
  BY DEF Allowed
<1>6. /\ \A x \in P : NewEntry(x) \in Entries /\ NewEntry(x) \in W[a]
      /\ StampsKept(W, P, a)
  <2> HIDE DEF P, w
  <2> QED
    BY <1>2, <1>3, <1>5, StockTakes DEF StampsKept
<1> HIDE DEF q, P, W
<1>7. q # <<>>
  BY <1>3
<1>8. AddAll(table, a, q) \in Kept(W)
  BY <1>3, <1>4, <1>6, <1>7, WriteKept
<1>9. RingsKept'
  BY <1>1, <1>8 DEF RingsKept, W
<1>10. Bookkeeping'
  BY <1>1, <1>2 DEF DumpInv, Bookkeeping
<1>11. ASSUME Undisturbed' PROVE AsWritten'
  <2>1. Undisturbed /\ Cardinality(DOMAIN data) <= ListTot /\ RingSize < IndexSize
    BY <1>1, <1>11 DEF Undisturbed, Begun
  <2>2. /\ Present(table) = written
        /\ \A x \in written : table.entry[x] = Filled(Sorted(data[x]), Len(data[x]))
    BY <2>1 DEF DumpInv, AsWritten
  <2>3. Len(table.lru) < ListTot
    <3>1. IsFiniteSet(DOMAIN data)
      BY <1>2, DumpAssumption
    <3>2. IsFiniteSet(written) /\ w \subseteq DOMAIN data
      BY <1>2, <3>1, FS_Subset
    <3>3. Cardinality(w) = Cardinality(written) + 1 /\ Cardinality(w) <= Cardinality(DOMAIN data)
      BY <1>2, <3>1, <3>2, FS_AddElement, FS_Subset
    <3>4. Cardinality(written) = Len(table.lru)
      BY <1>4, <2>2, KeptFacts DEF Listed
    <3>5. Cardinality(written) \in Nat /\ Cardinality(DOMAIN data) \in Nat /\ ListTot \in Nat
      BY <3>1, <3>2, FS_CardinalityType, TableAssumption
    <3> QED
      BY <2>1, <3>3, <3>4, <3>5
  <2>4. FilledIn(AddAll(table, a, q), table, a, q, Len(q))
    BY <1>2, <1>3, <1>4, <1>6, <2>1, <2>2, <2>3, FreshWrite
  <2> QED
    BY <1>1, <1>2, <1>3, <2>2, <2>4 DEF FilledIn, AsWritten, q
<1>12. UnmixedIn(table', mixed', now')
  <2> DEFINE M == Unmixed(mixed \cup {a}, now)
  <2>1. UnmixedIn(table, mixed \cup {a}, now)
    BY DEF DumpInv, MixedOnly, UnmixedIn
  <2>2. table \in Kept(M)
    BY <1>4, <2>1, UnmixedAre
  <2>3. M[a] = Entries
    BY DEF Unmixed
  <2>4. /\ \A x \in P : NewEntry(x) \in Entries
        /\ \A e \in Entries : \A x \in P : Stamped(e, x) \in Entries
    BY <1>2, <1>3, NewFits, AnyStamped
  <2> HIDE DEF M
  <2>5. StampsKept(M, P, a)
    BY <2>3, <2>4 DEF StampsKept
  <2>6. \A x \in P : NewEntry(x) \in Entries /\ NewEntry(x) \in M[a]
    BY <2>3, <2>4
  <2>7. table' \in Kept(M)
    BY <1>1, <1>3, <1>7, <2>2, <2>5, <2>6, WriteKept
  <2>8. UnmixedIn(table', mixed \cup {a}, now)
    BY <2>7, UnmixedAre DEF M
  <2>9. a \in Present(table) \/ RingInOrder(table'.entry[a], now)
    <3> SUFFICES ASSUME a \notin Present(table) PROVE RingInOrder(table'.entry[a], now)
      OBVIOUS
    <3>1. now \in Times /\ \A x \in P : x <= now
      BY <1>2 DEF DumpInv, Bookkeeping, P
    <3>2. Ascends(q)
      BY <1>2, RowFacts DEF q
    <3>3. RingInOrder(AddAll(table, a, q).entry[a], now)
      BY <1>2, <1>3, <1>7, <2>2, <2>5, <2>6, <3>1, <3>2, AscendingWrite
    <3> QED
      BY <1>1, <3>3
  <2>10. now' = now
    BY <1>1
  <2> QED
    BY <1>1, <2>8, <2>9, <2>10 DEF UnmixedIn
<1>13. MixedOnly'
  <2>1. UnmixedIn(table, mixed, now)'
    BY <1>1, <1>12, UnmixedNext
  <2>2. OnlyMixedFreed'
    BY <1>1 DEF OnlyMixedFreed, DumpInv, MixedOnly
  <2> QED
    BY <2>1, <2>2 DEF MixedOnly
<1> QED
  BY <1>9, <1>10, <1>11, <1>13 DEF DumpInv

LEMMA TrafficKeeps == ASSUME DumpInv, Traffic PROVE DumpInv'
<1>1. PICK a \in Hosts, r \in Rules : recent_mt(a, r)
  BY DEF Traffic
<1>2. UNCHANGED <<size, cmd, data, todo, written, begun, mixed>> /\ Intact
  BY DEF Traffic
<1>3. size = RingSize /\ now \in Times /\ begun \in 0 .. now
  BY DEF DumpInv, Bookkeeping
<1>4. now' = now + 1 /\ now' \in Times /\ now' > begun /\ begun \in 0 .. now'
  BY <1>1, <1>3, TableAssumption DEF recent_mt, Advance, Times
<1>5. PICK later \in Times : later = now'
  BY <1>4
<1> DEFINE W == Stock(begun, written, data)
<1>6. Allowed(a, later, begun, written, data)
  BY <1>4, <1>5 DEF Allowed
<1>7. /\ NewEntry(later) \in Entries /\ NewEntry(later) \in W[a]
      /\ \A e \in Entries : e \in W[a] =>
            Stamped(e, later) \in Entries /\ Stamped(e, later) \in W[a]
  BY <1>3, <1>6, StockTakes
<1>8. table \in Kept(W)
  BY DEF DumpInv, RingsKept
<1> HIDE DEF W
<1>9. table' \in Kept(W)
  BY <1>1, <1>5, <1>7, <1>8, PacketKept
<1>10. RingsKept'
  BY <1>2, <1>9 DEF RingsKept, W
<1>13. freed' = freed \/ (freed' = freed \cup {a} /\ CheckOrUpdate(a, r))
  BY <1>1 DEF recent_mt, CheckOrUpdate
<1>14. \A x \in DOMAIN data : \A s \in ToSet(data[x]) : s <= now'
  <2> SUFFICES ASSUME NEW x \in DOMAIN data, NEW s \in ToSet(data[x]) PROVE s <= now'
    OBVIOUS
  <2>1. s \in Times /\ s <= now
    BY RowFacts DEF DumpInv, Bookkeeping
  <2> QED
    BY <1>3, <1>4, <2>1, TableAssumption DEF Times
<1>11. Bookkeeping'
  BY <1>2, <1>4, <1>13, <1>14 DEF DumpInv, Bookkeeping
<1>15. UnmixedIn(table', mixed', now')
  <2> DEFINE M == Unmixed(mixed, later)
  <2>1. now <= later
    BY <1>3, <1>4, <1>5, TableAssumption DEF Times
  <2>2. UnmixedIn(table, mixed, later)
    BY <1>3, <1>8, <2>1, UnmixedLater DEF DumpInv, MixedOnly
  <2>3. table \in Kept(M)
    BY <1>8, <2>2, UnmixedAre
  <2>4. size \in Sizes /\ later <= later
    BY <1>3, DumpAssumption, TableAssumption DEF Times
  <2>5. NewEntry(later) \in Entries /\ NewEntry(later) \in M[a]
    BY <1>7, <2>4, NewEntryInOrder DEF Unmixed
  <2>6. ASSUME NEW e \in Entries, e \in M[a]
        PROVE  Stamped(e, later) \in Entries /\ Stamped(e, later) \in M[a]
    <3>1. e \in Entry /\ Stamped(e, later) \in Entries
      BY <1>3, AnyStamped, EntriesAre
    <3>2. a \notin mixed => RingInOrder(e, later)
      BY <2>6 DEF Unmixed
    <3>3. a \notin mixed => RingInOrder(Stamped(e, later), later)
      BY <2>4, <3>1, <3>2, StampedInOrder
    <3> QED
      BY <3>1, <3>3 DEF Unmixed
  <2> HIDE DEF M
  <2>7. table' \in Kept(M)
    BY <1>1, <1>5, <2>3, <2>5, <2>6, PacketKept
  <2>8. UnmixedIn(table', mixed, later)
    BY <2>7, UnmixedAre DEF M
  <2> QED
    BY <1>2, <1>5, <2>8
<1>16. ASSUME RingSize < IndexSize, freed' # freed PROVE a \in mixed
  <2>1. Typed(table)
    BY <1>3, <1>8, KeptFacts, EntriesAre DEF Typed
  <2>2. size \in Sizes /\ size < IndexSize /\ r \in RuleSet /\ RuleOK(r)
    BY <1>3, <1>16, DumpAssumption
  <2>3. a \in Present(table) /\ ~RingInOrder(table.entry[a], now)
    BY <1>4, <1>13, <1>16, <2>1, <2>2, UsedAfterFree
  <2> QED
    BY <2>3 DEF DumpInv, MixedOnly, UnmixedIn
<1>17. OnlyMixedFreed'
  BY <1>2, <1>13, <1>16 DEF OnlyMixedFreed, DumpInv, MixedOnly
<1>18. MixedOnly'
  BY <1>2, <1>15, <1>17, UnmixedNext DEF MixedOnly
<1>12. ~Undisturbed'
  <2>1. begun' < now' /\ begun' \in Int /\ now' \in Int
    BY <1>2, <1>3, <1>4, TableAssumption DEF Times
  <2> QED
    BY <2>1 DEF Undisturbed
<1> QED
  BY <1>10, <1>11, <1>12, <1>18 DEF DumpInv

LEMMA DumpStep == DumpInv /\ [DumpNext]_vars => DumpInv'
<1> SUFFICES ASSUME DumpInv, [DumpNext]_vars PROVE DumpInv'
  OBVIOUS
<1>1. ASSUME NEW c \in {"table", "all"}, BeginDump(c) PROVE DumpInv'
  BY <1>1, FlushKeeps DEF BeginDump
<1>2. CASE ClearRecent
  BY <1>2, FlushKeeps DEF ClearRecent, DumpInv, Bookkeeping
<1>3. ASSUME UNCHANGED <<table, now, size, freed, data, written, begun, mixed>>,
             todo' \subseteq todo, cmd' \in {"none", "table", "all", "done", "failed"}
      PROVE  DumpInv'
  <2>1. UnmixedIn(table, mixed, now)'
    BY <1>3, UnmixedNext DEF DumpInv, MixedOnly
  <2>2. MixedOnly'
    BY <1>3, <2>1 DEF DumpInv, MixedOnly, OnlyMixedFreed
  <2> QED
    BY <1>3, <2>2 DEF DumpInv, Bookkeeping, RingsKept, Undisturbed, Begun, AsWritten
<1>4. CASE NoDump \/ UNCHANGED vars
  BY <1>3, <1>4 DEF NoDump, vars, DumpInv, Bookkeeping
<1>5. ASSUME NEW a \in Hosts, WriteEntry(a) PROVE DumpInv'
  BY <1>5, WriteKeeps
<1>6. ASSUME NEW a \in Hosts, WriteFails(a) PROVE DumpInv'
  <2>1. cmd' \in {"none", "table", "all", "done", "failed"} /\ todo' \subseteq todo
    BY <1>6 DEF WriteFails, DumpInv, Bookkeeping
  <2> QED
    BY <1>3, <1>6, <2>1 DEF WriteFails
<1>7. CASE Traffic
  BY <1>7, TrafficKeeps
<1> QED
  BY <1>1, <1>2, <1>4, <1>5, <1>6, <1>7 DEF DumpNext

LEMMA DumpInvariant == DumpSpec => []DumpInv
<1> QED
  BY DumpInitInv, DumpStep, PTL DEF DumpSpec

(***************************************************************************)
(* A dump leaves a table of the kernel's shape: rings of its size, and a   *)
(* list of the addresses it has, however many it writes and whatever       *)
(* packets come in between; as long as no --reap rule has used an entry    *)
(* that it freed, which OnlyMixedFreedHolds confines to addresses that are *)
(* written behind packets of theirs.                                       *)
(***************************************************************************)
THEOREM DumpTypeHolds == DumpSpec => []DumpTypeOK
<1>1. DumpInv => DumpTypeOK
  <2> SUFFICES ASSUME DumpInv PROVE DumpTypeOK
    OBVIOUS
  <2>1. size = RingSize /\ table \in Kept(Stock(begun, written, data))
    BY DEF DumpInv, Bookkeeping, RingsKept
  <2>2. TableTypeOK
    BY <2>1, KeptFacts, EntriesAre DEF TableTypeOK, DumpInv, Bookkeeping
  <2> QED
    BY <2>2 DEF DumpTypeOK, DumpInv, Bookkeeping
<1> QED
  BY <1>1, DumpInvariant, PTL

(***************************************************************************)
(* Nothing from before the failover counts as a hit: for any recent data,  *)
(* rules and packets, with writes that fail and dumps that are repeated;   *)
(* again as long as no entry was used after it was freed.                  *)
(***************************************************************************)
THEOREM NoStaleStampHolds == DumpSpec => []NoStaleStamp
<1>1. DumpInv => NoStaleStamp
  <2> SUFFICES ASSUME DumpInv, Begun, NEW a \in Present(table),
                      NEW s \in Stamps(table.entry[a])
               PROVE  s > begun \/ (a \in written /\ s \in ToSet(data[a]))
    BY DEF NoStaleStamp
  <2>1. table.entry[a] \in Stock(begun, written, data)[a] /\ a \in Hosts
    BY KeptFacts DEF DumpInv, RingsKept
  <2>2. Allowed(a, s, begun, written, data)
    BY <2>1 DEF Stock
  <2> QED
    BY <2>2 DEF Allowed, Begun
<1> QED
  BY <1>1, DumpInvariant, PTL

(***************************************************************************)
(* Only an entry that a write came behind can be used after recent_mt      *)
(* freed it: for any rules, rows, sizes of the rings below IndexSize, and  *)
(* any order of packets, writes, failures and commands.                    *)
(***************************************************************************)
THEOREM OnlyMixedFreedHolds == DumpSpec => []OnlyMixedFreed
<1>1. DumpInv => OnlyMixedFreed
  BY DEF DumpInv, MixedOnly
<1> QED
  BY <1>1, DumpInvariant, PTL

(***************************************************************************)
(* A dump rebuilds the rings of the master, for any recent data that the   *)
(* table has room for: also where it begins in the middle of a ring.       *)
(***************************************************************************)
THEOREM RingRebuiltHolds == DumpSpec => []RingRebuilt
<1>1. DumpInv => RingRebuilt
  <2> SUFFICES ASSUME DumpInv, Undisturbed, NEW a \in written
               PROVE  LET e == table.entry[a]
                      IN  /\ a \in Present(table) /\ Stamps(e) = ToSet(data[a])
                          /\ \A s \in Stamps(e) : s <= e.ring[e.index - 1]
                          /\ e.nstamps = RingSize =>
                                \A s \in Stamps(e) : e.ring[e.index % RingSize] <= s
    BY DEF RingRebuilt, Undisturbed
  <2> DEFINE q == Sorted(data[a])
             e == table.entry[a]
  <2>1. data \in Dumps /\ a \in DOMAIN data
    BY DEF DumpInv, Bookkeeping
  <2>2. /\ Len(q) \in 1 .. RingSize /\ Len(q) = Len(data[a])
        /\ ToSet(q) = ToSet(data[a]) /\ Ascends(q) /\ q \in Seq(Times)
    BY <2>1, RowFacts
  <2>3. a \in Present(table) /\ e = Filled(q, Len(q))
    BY <2>2 DEF DumpInv, AsWritten
  <2>4. RingSize < IndexSize
    BY DEF Undisturbed
  <2> HIDE DEF q, e
  <2>5. e.index = Len(q) /\ e.nstamps = Len(q)
    BY <2>3 DEF Filled
  <2>6. /\ Stamps(e) = ToSet(q)
        /\ \A s \in ToSet(q) : s <= e.ring[Len(q) - 1]
        /\ Len(q) = RingSize => \A s \in ToSet(q) : e.ring[Len(q) % RingSize] <= s
    BY <2>2, <2>3, <2>4, FilledRing
  <2> QED
    BY <2>2, <2>3, <2>5, <2>6 DEF e
<1> QED
  BY <1>1, DumpInvariant, PTL
=============================================================================
