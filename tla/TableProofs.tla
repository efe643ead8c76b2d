---------------------------- MODULE TableProofs ----------------------------
(***************************************************************************)
(* The rings and the list of a table of xt_recent, proved for any number   *)
(* of addresses, any size of the rings and any ip_list_tot.                *)
(***************************************************************************)
EXTENDS RecentTable, FiniteSetTheorems, FoldLemmas

-----------------------------------------------------------------------------
\* Positions in a ring

LEMMA SmallMod ==
    ASSUME NEW i \in Nat, NEW n \in Nat, i < n PROVE i % n = i
OBVIOUS

LEMMA ModRange ==
    ASSUME NEW i \in Int, NEW n \in Nat, n > 0 PROVE i % n \in 0 .. n - 1
OBVIOUS

LEMMA SelfMod == ASSUME NEW n \in Nat, n > 0 PROVE n % n = 0 /\ (0 - 1) % n = n - 1
OBVIOUS

-----------------------------------------------------------------------------
\* One entry: a stamp is added

LEMMA SizesNat == \A n \in Sizes : n \in Nat /\ n > 0 /\ n <= IndexSize
BY TableAssumption DEF Sizes

(***************************************************************************)
(* recent_entry_update masks the index, so the stamp goes into the ring,   *)
(* and the count of slots never outgrows it.                               *)
(***************************************************************************)
LEMMA StampedPlace ==
    ASSUME size \in Sizes, NEW e \in Entry, NEW stamp
    PROVE  /\ e.index % size \in Slot
           /\ Stamped(e, stamp).ring = [e.ring EXCEPT ![e.index % size] = stamp]
           /\ Stamped(e, stamp).index =
                 IF (e.index % size) + 1 = IndexSize THEN 0 ELSE (e.index % size) + 1
           /\ Stamped(e, stamp).nstamps =
                 IF Stamped(e, stamp).index > e.nstamps
                 THEN Stamped(e, stamp).index ELSE e.nstamps
<1>1. size \in Nat /\ size > 0 /\ size <= IndexSize /\ IndexSize \in Nat
  BY SizesNat, TableAssumption
<1>2. e.index \in 0 .. IndexSize - 1
  BY DEF Entry
<1>3. e.index \in Int
  BY <1>1, <1>2
<1>4. e.index % size \in 0 .. size - 1
  BY <1>1, <1>3, ModRange
<1> DEFINE i == e.index % size
<1>5. (i + 1) % IndexSize = IF i + 1 = IndexSize THEN 0 ELSE i + 1
  <2> HIDE DEF i
  <2>1. i \in 0 .. size - 1
    BY <1>4 DEF i
  <2>2. CASE i + 1 < IndexSize
    BY <1>1, <2>1, <2>2, SmallMod
  <2>3. CASE i + 1 = IndexSize
    BY <1>1, <2>1, <2>3, SelfMod
  <2> QED
    BY <1>1, <2>1, <2>2, <2>3
<1>6. /\ Stamped(e, stamp).ring = [e.ring EXCEPT ![i] = stamp]
      /\ Stamped(e, stamp).index = (i + 1) % IndexSize
      /\ Stamped(e, stamp).nstamps =
            IF Stamped(e, stamp).index > e.nstamps
            THEN Stamped(e, stamp).index ELSE e.nstamps
  BY DEF Stamped
<1> QED
  BY <1>4, <1>5, <1>6 DEF Slot

LEMMA StampedType ==
    ASSUME size \in Sizes, NEW e \in Entry, NEW stamp \in Times
    PROVE  Stamped(e, stamp) \in Entry
<1> DEFINE s == Stamped(e, stamp)
           i == e.index % size
<1>1. size \in Nat /\ size > 0 /\ size <= IndexSize /\ IndexSize \in Nat
  BY SizesNat, TableAssumption
<1>2. /\ i \in Slot /\ s.ring = [e.ring EXCEPT ![i] = stamp]
      /\ s.index = (IF i + 1 = IndexSize THEN 0 ELSE i + 1)
      /\ s.nstamps = (IF s.index > e.nstamps THEN s.index ELSE e.nstamps)
  BY StampedPlace
<1>3. s = [ring |-> s.ring, nstamps |-> s.nstamps, index |-> s.index]
  BY DEF Stamped
<1> HIDE DEF s, i
<1>4. i \in 0 .. size - 1 /\ e.nstamps \in 1 .. size
  BY <1>2 DEF Slot, Entry
<1>5. s.index \in 0 .. IndexSize - 1 /\ s.nstamps \in 1 .. size
  BY <1>1, <1>2, <1>4
<1>6. s.ring \in [Slot -> Times \cup {0}]
  BY <1>2 DEF Entry
<1>7. [ring |-> s.ring, nstamps |-> s.nstamps, index |-> s.index] \in Entry
  BY <1>5, <1>6 DEF Entry
<1> QED
  BY <1>3, <1>7 DEF s

(***************************************************************************)
(* LastSeen is the stamp that was added last, also where index has wrapped.*)
(***************************************************************************)
LEMMA LastSlot ==
    ASSUME size \in Sizes, NEW i \in Slot, NEW index,
           index = IF i + 1 = IndexSize THEN 0 ELSE i + 1
    PROVE  (index - 1) % size = i
<1>1. size \in Nat /\ size > 0 /\ size <= IndexSize /\ IndexSize \in Nat
  BY SizesNat, TableAssumption
<1>2. i \in 0 .. size - 1
  BY DEF Slot
<1>3. CASE i + 1 = IndexSize
  <2>1. index - 1 = 0 - 1 /\ i = size - 1
    BY <1>1, <1>2, <1>3
  <2>2. (0 - 1) % size = size - 1
    BY <1>1, SelfMod
  <2> QED
    BY <2>1, <2>2
<1>4. CASE i + 1 # IndexSize
  <2>1. index - 1 = i
    BY <1>2, <1>4
  <2> QED
    BY <1>1, <1>2, <2>1, SmallMod
<1> QED
  BY <1>3, <1>4

LEMMA StampedLast ==
    ASSUME size \in Sizes, NEW e \in Entry, NEW stamp
    PROVE  LastSeen(Stamped(e, stamp)) = stamp
<1> DEFINE s == Stamped(e, stamp)
           i == e.index % size
<1>1. /\ i \in Slot /\ s.ring = [e.ring EXCEPT ![i] = stamp]
      /\ s.index = (IF i + 1 = IndexSize THEN 0 ELSE i + 1)
  BY StampedPlace
<1> HIDE DEF s, i
<1>2. (s.index - 1) % size = i
  BY <1>1, LastSlot
<1>3. e.ring \in [Slot -> Times \cup {0}]
  BY DEF Entry
<1>4. LastSeen(s) = s.ring[i]
  BY <1>2 DEF LastSeen
<1> QED
  BY <1>1, <1>3, <1>4 DEF s

(***************************************************************************)
(* A stamp of now, added to a ring in order.                               *)
(***************************************************************************)
LEMMA StampedInOrder ==
    ASSUME size \in Sizes, NEW time \in Times, NEW later \in Times, time <= later,
           NEW e \in Entry, RingInOrder(e, time)
    PROVE  RingInOrder(Stamped(e, later), later)
<1> DEFINE s == Stamped(e, later)
           i == e.index % size
<1>1. size \in Nat /\ size > 0 /\ size <= IndexSize /\ IndexSize \in Nat
  BY SizesNat, TableAssumption
<1>2. /\ i \in Slot /\ s.ring = [e.ring EXCEPT ![i] = later]
      /\ s.index = (IF i + 1 = IndexSize THEN 0 ELSE i + 1)
      /\ s.nstamps = (IF s.index > e.nstamps THEN s.index ELSE e.nstamps)
  BY StampedPlace
<1>3. LastSeen(s) = later
  BY StampedLast
<1>4. time \in Int /\ later \in Int /\ later # 0
  BY TableAssumption DEF Times
<1>5. /\ e.ring \in [Slot -> Times \cup {0}] /\ e.nstamps \in 1 .. size
      /\ \A j \in Slot : e.ring[j] <= time /\ e.ring[j] \in Int
  BY TableAssumption DEF RingInOrder, Entry, Times
<1>0. i <= e.nstamps
  <2>1. e.index \in 1 .. e.nstamps \/ e.index = 0
    BY DEF RingInOrder
  <2>2. CASE e.index = size
    BY <1>1, <1>5, <2>2, SelfMod
  <2>3. CASE e.index # size
    BY <1>1, <1>5, <2>1, <2>3, SmallMod
  <2> QED
    BY <2>2, <2>3
<1> HIDE DEF s, i
<1>6. i \in 0 .. size - 1
  BY <1>2 DEF Slot
<1>7. s.index \in 1 .. s.nstamps \/ (s.index = 0 /\ size = IndexSize)
  BY <1>1, <1>2, <1>5, <1>6
<1>8. \A j \in Slot : s.ring[j] <= later
  BY <1>2, <1>4, <1>5
<1>9. s.nstamps <= size /\ s.nstamps \in Nat
  BY <1>1, <1>2, <1>5, <1>6
<1>10. \A j \in 0 .. s.nstamps - 1 : s.ring[j] <= LastSeen(s)
  <2>1. \A j \in 0 .. s.nstamps - 1 : j \in Slot
    BY <1>1, <1>9 DEF Slot
  <2> QED
    BY <1>3, <1>8, <2>1
<1>11. ASSUME NEW j \in 0 .. s.nstamps - 1 PROVE s.ring[j] # 0
  <2>1. j \in Slot
    BY <1>1, <1>9 DEF Slot
  <2>2. CASE j = i
    BY <1>2, <1>4, <1>5, <2>2
  <2>3. CASE j # i
    <3>1. s.ring[j] = e.ring[j]
      BY <1>2, <1>5, <2>1, <2>3
    <3>2. j \in 0 .. e.nstamps - 1
      BY <1>0, <1>1, <1>2, <1>5, <1>6, <1>9, <2>3
    <3> QED
      BY <3>1, <3>2 DEF RingInOrder
  <2> QED
    BY <2>2, <2>3
<1> QED
  BY <1>7, <1>8, <1>10, <1>11 DEF RingInOrder, s

(***************************************************************************)
(* recent_entry_init: a ring with one stamp.                               *)
(***************************************************************************)
LEMMA NewEntryInOrder ==
    ASSUME size \in Sizes, NEW stamp \in Times
    PROVE  /\ NewEntry(stamp) \in Entry
           /\ LastSeen(NewEntry(stamp)) = stamp
           /\ RingInOrder(NewEntry(stamp), stamp)
<1> DEFINE e == NewEntry(stamp)
<1>1. size \in Nat /\ size > 0 /\ size <= IndexSize /\ IndexSize \in Nat /\ 1 < IndexSize
  BY SizesNat, TableAssumption DEF Sizes
<1>2. stamp \in Nat /\ 0 \in Slot /\ 0 <= stamp /\ stamp # 0
  BY <1>1, TableAssumption DEF Times, Slot
<1>3. /\ e.ring = [i \in Slot |-> IF i = 0 THEN stamp ELSE 0]
      /\ e.nstamps = 1 /\ e.index = 1
  BY DEF NewEntry
<1>4. e \in Entry
  <2>1. [i \in Slot |-> IF i = 0 THEN stamp ELSE 0] \in [Slot -> Times \cup {0}]
    OBVIOUS
  <2> QED
    BY <1>1, <2>1 DEF NewEntry, Entry
<1> HIDE DEF e
<1>5. (e.index - 1) % size = 0
  BY <1>1, <1>3, SmallMod
<1>6. LastSeen(e) = stamp
  BY <1>2, <1>3, <1>5 DEF LastSeen
<1>7. RingInOrder(e, stamp)
  BY <1>2, <1>3, <1>6 DEF RingInOrder
<1> QED
  BY <1>4, <1>6, <1>7 DEF e

LEMMA LaterInOrder ==
    ASSUME size \in Sizes, NEW e \in Entry, NEW time \in Times, NEW later \in Times,
           time <= later, RingInOrder(e, time)
    PROVE  RingInOrder(e, later) /\ LastSeen(e) \in Int /\ LastSeen(e) <= later
<1>1. size \in Nat /\ size > 0 /\ IndexSize \in Nat
  BY SizesNat, TableAssumption
<1>2. time \in Int /\ later \in Int
  BY TableAssumption DEF Times
<1>3. \A j \in Slot : e.ring[j] <= time /\ e.ring[j] \in Int
  BY TableAssumption DEF RingInOrder, Entry, Times
<1>4. e.index \in Int
  BY <1>1 DEF Entry
<1>5. (e.index - 1) % size \in Slot
  BY <1>1, <1>4, ModRange DEF Slot
<1>6. \A j \in Slot : e.ring[j] <= later
  BY <1>2, <1>3
<1>7. LastSeen(e) \in Int /\ LastSeen(e) <= later
  BY <1>3, <1>5, <1>6 DEF LastSeen
<1> QED
  BY <1>6, <1>7 DEF RingInOrder

-----------------------------------------------------------------------------
\* The list

LEMMA Joined ==
    ASSUME NEW S, NEW b \in Seq(S), NEW c \in Seq(S)
    PROVE  /\ b \o c \in Seq(S) /\ Len(b \o c) = Len(b) + Len(c)
           /\ \A j \in 1 .. Len(b) + Len(c) :
                 (b \o c)[j] = IF j <= Len(b) THEN b[j] ELSE c[j - Len(b)]
OBVIOUS

\* w is s, a list of S, without a, which is at place p of s.
DeletedAt(p, s, S, a, w) ==
    /\ s[p] = a
    /\ w \in Seq(S \ {a}) /\ Len(w) = Len(s) - 1
    /\ \A j \in 1 .. Len(s) - 1 : w[j] = IF j < p THEN s[j] ELSE s[j + 1]

(***************************************************************************)
(* list_del: what was behind the address moves up by one.                  *)
(***************************************************************************)
LEMMA WithoutPlace ==
    ASSUME NEW S, NEW s, Lists(s, S), NEW a \in S
    PROVE  \E p \in 1 .. Len(s) : DeletedAt(p, s, S, a, Without(s, a))
<1>0. /\ s \in Seq(S) /\ \E i \in DOMAIN s : s[i] = a
      /\ \A i, j \in DOMAIN s : i # j => s[i] # s[j]
  BY DEF Lists
<1> DEFINE p == CHOOSE i \in DOMAIN s : s[i] = a
           w == SubSeq(s, 1, p - 1) \o SubSeq(s, p + 1, Len(s))
<1>1. p \in 1 .. Len(s) /\ s[p] = a
  BY <1>0
<1>2. Without(s, a) = w
  BY DEF Without, RemoveAt
<1> HIDE DEF p
<1>3. Len(s) \in Nat /\ p \in Int
  BY <1>0, <1>1
<1>4. /\ SubSeq(s, 1, p - 1) \in Seq(S) /\ Len(SubSeq(s, 1, p - 1)) = p - 1
      /\ \A j \in 1 .. p - 1 : SubSeq(s, 1, p - 1)[j] = s[j]
  BY <1>0, <1>1, <1>3
<1>5. /\ SubSeq(s, p + 1, Len(s)) \in Seq(S) /\ Len(SubSeq(s, p + 1, Len(s))) = Len(s) - p
      /\ \A j \in 1 .. Len(s) - p : \A m \in Int :
            m = p + j => SubSeq(s, p + 1, Len(s))[j] = s[m]
  BY <1>0, <1>1, <1>3
<1> DEFINE b == SubSeq(s, 1, p - 1)
           c == SubSeq(s, p + 1, Len(s))
<1>10. /\ b \o c \in Seq(S) /\ Len(b \o c) = Len(b) + Len(c)
       /\ \A j \in 1 .. Len(b) + Len(c) :
             (b \o c)[j] = IF j <= Len(b) THEN b[j] ELSE c[j - Len(b)]
  <2> HIDE DEF b, c
  <2>1. b \in Seq(S) /\ c \in Seq(S)
    BY <1>4, <1>5 DEF b, c
  <2> QED
    BY <2>1, Joined
<1>11. w = b \o c
  OBVIOUS
<1> HIDE DEF b, c, w
<1>12. /\ Len(b) = p - 1 /\ Len(c) = Len(s) - p
       /\ \A j \in 1 .. p - 1 : b[j] = s[j]
       /\ \A j \in 1 .. Len(s) - p : \A m \in Int : m = p + j => c[j] = s[m]
  BY <1>4, <1>5 DEF b, c
<1>6. w \in Seq(S) /\ Len(w) = Len(s) - 1
  <2>1. w \in Seq(S)
    BY <1>10, <1>11
  <2>2. Len(w) = (p - 1) + (Len(s) - p)
    BY <1>10, <1>11, <1>12
  <2>3. (p - 1) + (Len(s) - p) = Len(s) - 1
    BY <1>3
  <2> QED
    BY <2>1, <2>2, <2>3
<1>7. \A j \in 1 .. Len(s) - 1 : w[j] = IF j < p THEN s[j] ELSE s[j + 1]
  <2> SUFFICES ASSUME NEW j \in 1 .. Len(s) - 1
               PROVE  w[j] = IF j < p THEN s[j] ELSE s[j + 1]
    OBVIOUS
  <2>0. w[j] = IF j <= p - 1 THEN b[j] ELSE c[j - (p - 1)]
    BY <1>1, <1>3, <1>10, <1>11, <1>12
  <2>1. CASE j < p
    BY <1>1, <1>3, <1>12, <2>0, <2>1
  <2>2. CASE ~(j < p)
    <3>1. w[j] = c[j - (p - 1)]
      BY <1>1, <1>3, <2>0, <2>2
    <3>2. PICK k \in 1 .. Len(s) - p, m \in Int : k = j - (p - 1) /\ m = p + k /\ m = j + 1
      BY <1>1, <1>3, <2>2
    <3>3. c[k] = s[m]
      BY <1>12, <3>2
    <3> QED
      BY <2>2, <3>1, <3>2, <3>3
  <2> QED
    BY <2>1, <2>2
<1>8. \A j \in 1 .. Len(s) - 1 : w[j] \in S \ {a}
  BY <1>0, <1>1, <1>3, <1>7
<1>9. w \in Seq(S \ {a})
  BY <1>6, <1>8
<1>13. DeletedAt(p, s, S, a, w)
  BY <1>1, <1>6, <1>7, <1>9 DEF DeletedAt
<1> QED
  BY <1>1, <1>2, <1>13

-----------------------------------------------------------------------------
\* The operations on a table keep it well-typed and listed

LEMMA RemovedTable ==
    ASSUME NEW t, NEW a
    PROVE  /\ recent_entry_remove(t, a).lru = Without(t.lru, a)
           /\ Present(recent_entry_remove(t, a)) = Present(t) \ {a}
           /\ \A x \in Present(t) \ {a} : recent_entry_remove(t, a).entry[x] = t.entry[x]
BY DEF recent_entry_remove, Present

LEMMA InitedTable ==
    ASSUME NEW t, NEW a, NEW stamp
    PROVE  /\ recent_entry_init(t, a, stamp).lru = Append(MakeRoom(t).lru, a)
           /\ Present(recent_entry_init(t, a, stamp)) = Present(MakeRoom(t)) \cup {a}
           /\ recent_entry_init(t, a, stamp).entry[a] = NewEntry(stamp)
           /\ \A x \in Present(MakeRoom(t)) \ {a} :
                 recent_entry_init(t, a, stamp).entry[x] = MakeRoom(t).entry[x]
BY DEF recent_entry_init, Present

LEMMA UpdatedTable ==
    ASSUME NEW t, NEW a \in Present(t), NEW stamp
    PROVE  /\ recent_entry_update(t, a, stamp).lru = Append(Without(t.lru, a), a)
           /\ Present(recent_entry_update(t, a, stamp)) = Present(t)
           /\ recent_entry_update(t, a, stamp).entry[a] = Stamped(t.entry[a], stamp)
           /\ \A x \in Present(t) \ {a} :
                 recent_entry_update(t, a, stamp).entry[x] = t.entry[x]
BY DEF recent_entry_update, Present

LEMMA EmptyListed == Listed(EmptyTable) /\ Typed(EmptyTable) /\ Present(EmptyTable) = {}
<1>1. Present(EmptyTable) = {} /\ EmptyTable.lru = <<>>
  BY DEF Present, EmptyTable
<1> QED
  BY <1>1, FS_EmptySet DEF Listed, Typed, Lists

LEMMA RemoveListed ==
    ASSUME NEW t, Listed(t), NEW a \in Present(t)
    PROVE  Listed(recent_entry_remove(t, a))
<1> DEFINE s == t.lru
           S == Present(t)
           w == Without(s, a)
<1>0. Lists(s, S)
  BY DEF Listed
<1> HIDE DEF s, S
<1>10. PICK p \in 1 .. Len(s) : DeletedAt(p, s, S, a, w)
  <2>1. a \in S
    BY DEF S
  <2> QED
    BY <1>0, <2>1, WithoutPlace
<1> HIDE DEF w
<1>2. /\ s[p] = a
      /\ w \in Seq(S \ {a}) /\ Len(w) = Len(s) - 1
      /\ \A j \in 1 .. Len(s) - 1 : w[j] = IF j < p THEN s[j] ELSE s[j + 1]
  BY <1>10 DEF DeletedAt
<1>3. s \in Seq(S) /\ Len(s) \in Nat /\ DOMAIN s = 1 .. Len(s)
  BY <1>0 DEF Lists
<1>4. DOMAIN w = 1 .. Len(s) - 1
  BY <1>2
<1>5. \A x \in S \ {a} : \E j \in DOMAIN w : w[j] = x
  <2> SUFFICES ASSUME NEW x \in S \ {a} PROVE \E j \in DOMAIN w : w[j] = x
    OBVIOUS
  <2>1. PICK i \in 1 .. Len(s) : s[i] = x
    BY <1>0, <1>3 DEF Lists
  <2>2. CASE i < p
    <3>1. i \in 1 .. Len(s) - 1
      BY <1>2, <1>3, <2>1, <2>2
    <3>2. w[i] = x
      BY <1>2, <2>1, <2>2, <3>1
    <3> QED
      BY <1>4, <3>1, <3>2
  <2>3. CASE i > p
    <3>1. PICK k \in 1 .. Len(s) - 1 : ~(k < p) /\ k + 1 = i
      BY <1>3, <2>3, <1>10
    <3>2. w[k] = x
      BY <1>2, <2>1, <3>1
    <3> QED
      BY <1>4, <3>1, <3>2
  <2> QED
    BY <1>2, <1>3, <2>1, <2>2, <2>3
<1>6. \A i, j \in DOMAIN w : i # j => w[i] # w[j]
  <2> SUFFICES ASSUME NEW i \in DOMAIN w, NEW j \in DOMAIN w, i # j PROVE w[i] # w[j]
    OBVIOUS
  <2> DEFINE h(k) == IF k < p THEN k ELSE k + 1
  <2>1. h(i) \in 1 .. Len(s) /\ h(j) \in 1 .. Len(s) /\ h(i) # h(j)
    BY <1>2, <1>3, <1>4
  <2>2. w[i] = s[h(i)] /\ w[j] = s[h(j)]
    BY <1>2, <1>4
  <2> HIDE DEF h
  <2> QED
    BY <1>0, <1>3, <2>1, <2>2 DEF Lists
<1>7. /\ IsFiniteSet(S \ {a})
      /\ Cardinality(S \ {a}) = Cardinality(S) - 1 /\ Cardinality(S) = Len(s)
  BY FS_RemoveElement DEF Listed, s, S
<1>8. Lists(w, S \ {a})
  BY <1>2, <1>5, <1>6 DEF Lists
<1>9. /\ recent_entry_remove(t, a).lru = w
      /\ Present(recent_entry_remove(t, a)) = S \ {a}
  BY RemovedTable DEF w, s, S
<1> QED
  BY <1>2, <1>7, <1>8, <1>9 DEF Listed

(***************************************************************************)
(* A new address at the tail, in a list without it                         *)
(***************************************************************************)
LEMMA AppendedList ==
    ASSUME NEW S, NEW s, Lists(s, S), NEW a, a \notin S
    PROVE  /\ Lists(Append(s, a), S \cup {a})
           /\ Len(Append(s, a)) = Len(s) + 1
           /\ Append(s, a)[Len(s) + 1] = a
           /\ \A i \in 1 .. Len(s) : Append(s, a)[i] = s[i]
<1> DEFINE w == Append(s, a)
<1>0. /\ s \in Seq(S) /\ \A x \in S : \E i \in DOMAIN s : s[i] = x
      /\ \A i, j \in DOMAIN s : i # j => s[i] # s[j]
  BY DEF Lists
<1>1. /\ Len(s) \in Nat /\ DOMAIN s = 1 .. Len(s) /\ DOMAIN w = 1 .. Len(s) + 1
      /\ w \in Seq(S \cup {a}) /\ Len(w) = Len(s) + 1
      /\ w[Len(s) + 1] = a /\ \A i \in 1 .. Len(s) : w[i] = s[i] /\ s[i] \in S
  BY <1>0
<1> HIDE DEF w
<1>2. \A x \in S \cup {a} : \E i \in DOMAIN w : w[i] = x
  <2>1. Len(s) + 1 \in DOMAIN w
    BY <1>1
  <2>2. \A x \in S : \E i \in DOMAIN w : w[i] = x
    BY <1>0, <1>1
  <2> QED
    BY <1>1, <2>1, <2>2
<1>3. \A i, j \in DOMAIN w : i # j => w[i] # w[j]
  BY <1>0, <1>1
<1>4. Lists(w, S \cup {a})
  BY <1>1, <1>2, <1>3 DEF Lists
<1> QED
  BY <1>1, <1>4 DEF w

LEMMA UpdateListed ==
    ASSUME NEW t, Listed(t), NEW a \in Present(t), NEW stamp
    PROVE  Listed(recent_entry_update(t, a, stamp))
<1> DEFINE s == t.lru
           S == Present(t)
           w == Without(s, a)
           v == Append(w, a)
<1>1. Lists(w, S \ {a})
  <2>1. Listed(recent_entry_remove(t, a))
    BY RemoveListed
  <2>2. /\ recent_entry_remove(t, a).lru = w
        /\ Present(recent_entry_remove(t, a)) = S \ {a}
    BY RemovedTable
  <2> HIDE DEF w, S
  <2> QED
    BY <2>1, <2>2 DEF Listed
<1>2. Len(s) \in Nat /\ Lists(s, S)
  BY DEF Listed, Lists
<1>3. Len(w) = Len(s) - 1
  BY <1>2, WithoutPlace DEF DeletedAt
<1> HIDE DEF s, S, w
<1>4. Lists(v, (S \ {a}) \cup {a}) /\ Len(v) = Len(w) + 1
  BY <1>1, AppendedList
<1>5. (S \ {a}) \cup {a} = S
  BY DEF S
<1>6. Len(v) = Len(s)
  BY <1>2, <1>3, <1>4
<1> HIDE DEF v
<1>7. /\ recent_entry_update(t, a, stamp).lru = v
      /\ Present(recent_entry_update(t, a, stamp)) = S
  BY UpdatedTable DEF v, w, s, S
<1>8. IsFiniteSet(S) /\ Cardinality(S) = Len(s)
  BY DEF Listed, S, s
<1> QED
  BY <1>4, <1>5, <1>6, <1>7, <1>8 DEF Listed

LEMMA InitListed ==
    ASSUME NEW t, Listed(t), NEW a, a \notin Present(t), NEW stamp
    PROVE  /\ Listed(MakeRoom(t)) /\ Present(MakeRoom(t)) \subseteq Present(t)
           /\ \A x \in Present(MakeRoom(t)) : MakeRoom(t).entry[x] = t.entry[x]
           /\ Listed(recent_entry_init(t, a, stamp))
           /\ Cardinality(Present(t)) <= ListTot =>
                 Cardinality(Present(recent_entry_init(t, a, stamp))) <= ListTot
<1> DEFINE m == MakeRoom(t)
<1>0. ListTot \in Nat /\ ListTot > 0
  BY TableAssumption
<1>1. /\ Listed(m) /\ Present(m) \subseteq Present(t)
      /\ \A x \in Present(m) : m.entry[x] = t.entry[x]
      /\ Cardinality(Present(t)) <= ListTot => Cardinality(Present(m)) + 1 <= ListTot
  <2>0. /\ Cardinality(Present(t)) = Len(t.lru) /\ t.lru \in Seq(Present(t))
        /\ Len(t.lru) \in Nat
    BY DEF Listed, Lists
  <2>1. CASE Len(t.lru) < ListTot
    <3>1. m = t
      BY <1>0, <2>0, <2>1 DEF MakeRoom
    <3> QED
      BY <1>0, <2>0, <2>1, <3>1
  <2>2. CASE ~(Len(t.lru) < ListTot)
    <3>1. m = recent_entry_remove(t, Head(t.lru))
      BY <1>0, <2>0, <2>2 DEF MakeRoom
    <3>2. Head(t.lru) \in Present(t)
      BY <1>0, <2>0, <2>2
    <3>3. Listed(m) /\ Present(m) = Present(t) \ {Head(t.lru)}
      BY <3>1, <3>2, RemoveListed, RemovedTable
    <3>4. \A x \in Present(m) : m.entry[x] = t.entry[x]
      BY <3>1, <3>3, RemovedTable
    <3>5. Cardinality(Present(m)) = Cardinality(Present(t)) - 1
      BY <3>2, <3>3, FS_RemoveElement DEF Listed
    <3> HIDE DEF m
    <3> QED
      BY <1>0, <2>0, <3>3, <3>4, <3>5
  <2> QED
    BY <2>1, <2>2
<1> HIDE DEF m
<1> DEFINE u == recent_entry_init(t, a, stamp)
<1>2. u.lru = Append(m.lru, a) /\ Present(u) = Present(m) \cup {a}
  BY InitedTable DEF m
<1> HIDE DEF u
<1>3. Lists(m.lru, Present(m)) /\ a \notin Present(m)
  BY <1>1 DEF Listed
<1>4. Lists(Append(m.lru, a), Present(m) \cup {a}) /\ Len(Append(m.lru, a)) = Len(m.lru) + 1
  BY <1>3, AppendedList
<1>5. /\ IsFiniteSet(Present(m) \cup {a})
      /\ Cardinality(Present(m) \cup {a}) = Cardinality(Present(m)) + 1
      /\ Cardinality(Present(m)) = Len(m.lru)
  BY <1>1, <1>3, FS_AddElement DEF Listed
<1>6. Listed(u)
  BY <1>2, <1>4, <1>5 DEF Listed
<1>7. Cardinality(Present(t)) <= ListTot => Cardinality(Present(u)) <= ListTot
  BY <1>1, <1>2, <1>5
<1> QED
  BY <1>1, <1>6, <1>7 DEF m, u

-----------------------------------------------------------------------------
\* The order of the list

LEMMA DeletedOrdered ==
    ASSUME NEW s, NEW S, NEW a, NEW w, NEW t, NEW p \in 1 .. Len(s),
           s \in Seq(S), DeletedAt(p, s, S, a, w), Ordered(s, t)
    PROVE  Ordered(w, t)
<1>1. /\ w \in Seq(S \ {a}) /\ Len(w) = Len(s) - 1
      /\ \A j \in 1 .. Len(s) - 1 : w[j] = IF j < p THEN s[j] ELSE s[j + 1]
  BY DEF DeletedAt
<1>2. Len(s) \in Nat /\ DOMAIN s = 1 .. Len(s) /\ DOMAIN w = 1 .. Len(s) - 1
  BY <1>1
<1> SUFFICES ASSUME NEW i \in DOMAIN w, NEW j \in DOMAIN w, i < j
             PROVE  LastSeen(t.entry[w[i]]) <= LastSeen(t.entry[w[j]])
  BY DEF Ordered
<1> DEFINE h(k) == IF k < p THEN k ELSE k + 1
<1>3. h(i) \in 1 .. Len(s) /\ h(j) \in 1 .. Len(s) /\ h(i) < h(j)
  BY <1>2
<1>4. w[i] = s[h(i)] /\ w[j] = s[h(j)]
  BY <1>1, <1>2
<1> HIDE DEF h
<1> QED
  BY <1>2, <1>3, <1>4 DEF Ordered

LEMMA SameOrdered ==
    ASSUME NEW S, NEW s \in Seq(S), NEW t, NEW u, Ordered(s, t),
           \A x \in S : u.entry[x] = t.entry[x]
    PROVE  Ordered(s, u)
<1>1. \A i \in DOMAIN s : u.entry[s[i]] = t.entry[s[i]]
  OBVIOUS
<1> QED
  BY <1>1 DEF Ordered

LEMMA AppendOrdered ==
    ASSUME NEW S, NEW s \in Seq(S), NEW a, NEW t, Ordered(s, t),
           \A x \in S : LastSeen(t.entry[x]) <= LastSeen(t.entry[a])
    PROVE  Ordered(Append(s, a), t)
<1> DEFINE w == Append(s, a)
<1>1. /\ Len(s) \in Nat /\ DOMAIN s = 1 .. Len(s) /\ DOMAIN w = 1 .. Len(s) + 1
      /\ w[Len(s) + 1] = a /\ \A i \in 1 .. Len(s) : w[i] = s[i] /\ s[i] \in S
  OBVIOUS
<1> HIDE DEF w
<1> SUFFICES ASSUME NEW i \in DOMAIN w, NEW j \in DOMAIN w, i < j
             PROVE  LastSeen(t.entry[w[i]]) <= LastSeen(t.entry[w[j]])
  BY DEF Ordered, w
<1>2. i \in 1 .. Len(s)
  BY <1>1
<1>3. CASE j \in 1 .. Len(s)
  BY <1>1, <1>2, <1>3 DEF Ordered
<1>4. CASE j = Len(s) + 1
  BY <1>1, <1>2, <1>4
<1> QED
  BY <1>1, <1>3, <1>4

-----------------------------------------------------------------------------
\* A table whose stamps are not newer than time

LEMMA EmptySound == \A time : Sound(EmptyTable, time)
<1>1. Ordered(EmptyTable.lru, EmptyTable)
  BY DEF Ordered, EmptyTable
<1>2. Cardinality(Present(EmptyTable)) <= ListTot
  BY EmptyListed, FS_EmptySet, TableAssumption
<1> QED
  BY <1>1, <1>2, EmptyListed DEF Sound

LEMMA LaterSound ==
    ASSUME size \in Sizes, NEW t, NEW time \in Times, NEW later \in Times,
           time <= later, Sound(t, time)
    PROVE  Sound(t, later)
<1>1. \A a \in Present(t) : RingInOrder(t.entry[a], later)
  BY LaterInOrder DEF Sound, Typed
<1> QED
  BY <1>1 DEF Sound

LEMMA RemoveSound ==
    ASSUME NEW t, NEW time, Sound(t, time), NEW a \in Present(t)
    PROVE  Sound(recent_entry_remove(t, a), time)
<1> DEFINE u == recent_entry_remove(t, a)
           w == Without(t.lru, a)
<1>1. /\ u.lru = w /\ Present(u) = Present(t) \ {a}
      /\ \A x \in Present(t) \ {a} : u.entry[x] = t.entry[x]
  BY RemovedTable
<1>2. Lists(t.lru, Present(t)) /\ Listed(u) /\ Ordered(t.lru, t)
  BY RemoveListed DEF Sound, Listed
<1> HIDE DEF u, w
<1>3. PICK p \in 1 .. Len(t.lru) : DeletedAt(p, t.lru, Present(t), a, w)
  BY <1>2, WithoutPlace DEF w
<1>4. t.lru \in Seq(Present(t)) /\ w \in Seq(Present(t) \ {a})
  BY <1>2, <1>3 DEF Lists, DeletedAt
<1>5. Ordered(w, t)
  BY <1>2, <1>3, <1>4, DeletedOrdered
<1>6. Ordered(w, u)
  BY <1>1, <1>4, <1>5, SameOrdered
<1>7. Typed(u)
  BY <1>1 DEF Sound, Typed
<1>8. \A x \in Present(u) : RingInOrder(u.entry[x], time)
  BY <1>1 DEF Sound
<1>9. Cardinality(Present(u)) <= ListTot
  <2>1. /\ IsFiniteSet(Present(t)) /\ Cardinality(Present(t)) <= ListTot
        /\ Cardinality(Present(t)) \in Nat
    BY FS_CardinalityType DEF Sound, Listed
  <2>2. Cardinality(Present(u)) = Cardinality(Present(t)) - 1
    BY <1>1, <2>1, FS_RemoveElement
  <2> QED
    BY <2>1, <2>2, TableAssumption
<1> QED
  BY <1>1, <1>2, <1>6, <1>7, <1>8, <1>9 DEF Sound, u

LEMMA MakeRoomSound ==
    ASSUME NEW t, NEW time, Sound(t, time)
    PROVE  Sound(MakeRoom(t), time)
<1>1. CASE Len(t.lru) >= ListTot
  <2>1. t.lru \in Seq(Present(t))
    BY DEF Sound, Listed, Lists
  <2>2. Head(t.lru) \in Present(t)
    BY <1>1, <2>1, TableAssumption
  <2> QED
    BY <1>1, <2>2, RemoveSound DEF MakeRoom
<1>2. CASE ~(Len(t.lru) >= ListTot)
  BY <1>2 DEF MakeRoom
<1> QED
  BY <1>1, <1>2

(***************************************************************************)
(* Every stamp is later than those that are in the table: the address that *)
(* gets it goes to the tail of the list.                                   *)
(***************************************************************************)
LEMMA TailOrdered ==
    ASSUME size \in Sizes, NEW S, NEW s \in Seq(S), NEW a, NEW t, NEW u,
           NEW later \in Times, Ordered(s, t),
           \A x \in S : /\ u.entry[x] = t.entry[x]
                        /\ t.entry[x] \in Entry /\ RingInOrder(t.entry[x], later),
           LastSeen(u.entry[a]) = later
    PROVE  Ordered(Append(s, a), u)
<1>1. \A x \in S : LastSeen(u.entry[x]) <= LastSeen(u.entry[a])
  <2> SUFFICES ASSUME NEW x \in S PROVE LastSeen(t.entry[x]) <= later
    OBVIOUS
  <2>1. later <= later
    BY TableAssumption DEF Times
  <2> QED
    BY <2>1, LaterInOrder
<1>2. Ordered(s, u)
  BY SameOrdered
<1> QED
  BY <1>1, <1>2, AppendOrdered

LEMMA UpdateSound ==
    ASSUME size \in Sizes, NEW t, NEW time \in Times, NEW later \in Times,
           time <= later, Sound(t, time), NEW a \in Present(t)
    PROVE  Sound(recent_entry_update(t, a, later), later)
<1> DEFINE u == recent_entry_update(t, a, later)
           w == Without(t.lru, a)
<1>1. /\ u.lru = Append(w, a) /\ Present(u) = Present(t)
      /\ u.entry[a] = Stamped(t.entry[a], later)
      /\ \A x \in Present(t) \ {a} : u.entry[x] = t.entry[x]
  BY UpdatedTable
<1>2. Lists(t.lru, Present(t)) /\ Listed(u) /\ Ordered(t.lru, t)
  BY UpdateListed DEF Sound, Listed
<1>3. \A x \in Present(t) : t.entry[x] \in Entry /\ RingInOrder(t.entry[x], time)
  BY DEF Sound, Typed
<1> HIDE DEF u, w
<1>4. PICK p \in 1 .. Len(t.lru) : DeletedAt(p, t.lru, Present(t), a, w)
  BY <1>2, WithoutPlace DEF w
<1>5. t.lru \in Seq(Present(t)) /\ w \in Seq(Present(t) \ {a})
  BY <1>2, <1>4 DEF Lists, DeletedAt
<1>6. Ordered(w, t)
  BY <1>4, <1>5, <1>2, DeletedOrdered
<1>7. u.entry[a] \in Entry /\ RingInOrder(u.entry[a], later)
  BY <1>1, <1>3, StampedType, StampedInOrder
<1>8. LastSeen(u.entry[a]) = later
  BY <1>1, <1>3, StampedLast
<1>9. \A x \in Present(t) : RingInOrder(t.entry[x], later)
  BY <1>3, LaterInOrder
<1>10. Ordered(Append(w, a), u)
  BY <1>1, <1>3, <1>5, <1>6, <1>8, <1>9, TailOrdered
<1>11. Typed(u)
  BY <1>1, <1>3, <1>7 DEF Sound, Typed
<1>12. \A x \in Present(u) : RingInOrder(u.entry[x], later)
  BY <1>1, <1>7, <1>9
<1>13. Cardinality(Present(u)) <= ListTot
  BY <1>1 DEF Sound
<1> QED
  BY <1>1, <1>2, <1>10, <1>11, <1>12, <1>13 DEF Sound, u

LEMMA InitSound ==
    ASSUME size \in Sizes, NEW t, NEW time \in Times, NEW later \in Times,
           time <= later, Sound(t, time), NEW a \in Hosts, a \notin Present(t)
    PROVE  Sound(recent_entry_init(t, a, later), later)
<1> DEFINE u == recent_entry_init(t, a, later)
           m == MakeRoom(t)
<1>1. /\ u.lru = Append(m.lru, a) /\ Present(u) = Present(m) \cup {a}
      /\ u.entry[a] = NewEntry(later)
      /\ \A x \in Present(m) \ {a} : u.entry[x] = m.entry[x]
  BY InitedTable
<1>2. /\ Present(m) \subseteq Present(t) /\ Listed(u)
      /\ Cardinality(Present(t)) <= ListTot => Cardinality(Present(u)) <= ListTot
  BY InitListed DEF Sound
<1>3. Sound(m, time)
  BY MakeRoomSound
<1>4. NewEntry(later) \in Entry /\ LastSeen(NewEntry(later)) = later
      /\ RingInOrder(NewEntry(later), later)
  BY NewEntryInOrder
<1> HIDE DEF u, m
<1>5. /\ m.lru \in Seq(Present(m)) /\ Ordered(m.lru, m) /\ Typed(m)
      /\ \A x \in Present(m) : m.entry[x] \in Entry /\ RingInOrder(m.entry[x], time)
  BY <1>3 DEF Sound, Listed, Lists, Typed
<1>6. a \notin Present(m)
  BY <1>2
<1>7. \A x \in Present(m) : RingInOrder(m.entry[x], later)
  BY <1>5, LaterInOrder
<1>8. \A x \in Present(m) : u.entry[x] = m.entry[x]
  BY <1>1, <1>6
<1>9. LastSeen(u.entry[a]) = later
  BY <1>1, <1>4
<1>10. Ordered(Append(m.lru, a), u)
  BY <1>5, <1>7, <1>8, <1>9, TailOrdered
<1>11. Typed(u)
  BY <1>1, <1>4, <1>5, <1>8 DEF Typed
<1>12. \A x \in Present(u) : RingInOrder(u.entry[x], later)
  BY <1>1, <1>4, <1>7, <1>8
<1>13. Cardinality(Present(u)) <= ListTot
  BY <1>2 DEF Sound
<1> QED
  BY <1>1, <1>2, <1>10, <1>11, <1>12, <1>13 DEF Sound, u

(***************************************************************************)
(* recent_entry_reap: the head of the list may go.                         *)
(***************************************************************************)
LEMMA ReapSound ==
    ASSUME NEW t, NEW time, Sound(t, time), NEW a \in Present(t), NEW before,
           NEW u \in recent_entry_reap(t, before)
    PROVE  Sound(u, time)
<1>1. u = t \/ u = recent_entry_remove(t, Head(t.lru))
  BY DEF recent_entry_reap
<1>2. Lists(t.lru, Present(t))
  BY DEF Sound, Listed
<1>3. t.lru \in Seq(Present(t)) /\ t.lru # <<>>
  BY <1>2 DEF Lists
<1>4. Head(t.lru) \in Present(t)
  BY <1>3
<1> QED
  BY <1>1, <1>4, RemoveSound

LEMMA SameSound ==
    ASSUME size' = size, Sound(table', now')
    PROVE  Sound(table, now)'
<1>1. Slot' = Slot /\ Entry' = Entry
  BY DEF Slot, Entry
<1>2. \A e : /\ LastSeen(e)' = LastSeen(e)
             /\ \A time : RingInOrder(e, time)' = RingInOrder(e, time)
  BY <1>1 DEF LastSeen, RingInOrder
<1> QED
  BY <1>1, <1>2 DEF Sound, Typed, Listed, Ordered, Present

LEMMA MatchSound ==
    ASSUME size \in Sizes, NEW a \in Hosts, NEW r,
           Sound(table, now), now \in Times, now' \in Times, now <= now',
           NewHost(a, r) \/ SetOrRemove(a, r) \/ CheckOrUpdate(a, r)
    PROVE  Sound(table', now')
<1> PICK later \in Times : later = now'
  OBVIOUS
<1>1. Sound(table, later)
  BY LaterSound
<1>2. CASE NewHost(a, r)
  <2>1. a \notin Present(table)
    BY <1>2 DEF NewHost
  <2>2. Sound(recent_entry_init(table, a, later), later)
    BY <2>1, InitSound
  <2> QED
    BY <1>1, <1>2, <2>2 DEF NewHost
<1>3. CASE SetOrRemove(a, r)
  <2>1. a \in Present(table)
    BY <1>3 DEF SetOrRemove
  <2>2. /\ Sound(recent_entry_update(table, a, later), later)
        /\ Sound(recent_entry_remove(table, a), later)
    BY <1>1, <2>1, UpdateSound, RemoveSound
  <2> QED
    BY <1>3, <2>2 DEF SetOrRemove
<1>4. CASE CheckOrUpdate(a, r)
  <2> DEFINE before == later - r.seconds
             left == IF r.reap THEN recent_entry_reap(table, before) ELSE {table}
  <2>1. a \in Present(table)
    BY <1>4 DEF CheckOrUpdate
  <2>2. PICK u \in left :
           table' = u \/ (a \in Present(u) /\ table' = recent_entry_update(u, a, later))
    BY <1>4 DEF CheckOrUpdate
  <2>3. \/ u = table
        \/ u \in recent_entry_reap(table, before)
    BY <2>2
  <2> HIDE DEF before, left
  <2>4. Sound(u, now) /\ Sound(u, later)
    BY <1>1, <2>1, <2>3, ReapSound
  <2>5. a \in Present(u) => Sound(recent_entry_update(u, a, later), later)
    BY <2>4, UpdateSound
  <2> QED
    BY <2>2, <2>4, <2>5
<1> QED
  BY <1>2, <1>3, <1>4

-----------------------------------------------------------------------------
\* An entry that recent_mt holds while it reaps

(***************************************************************************)
(* In a ring in order the last stamp is the newest.  When any stamp is     *)
(* recent enough for a rule with a time span, that one is, and the entry   *)
(* is not reaped.                                                          *)
(***************************************************************************)
LEMMA MatchedStays ==
    ASSUME size \in Sizes, size < IndexSize, NEW e \in Entry, NEW time,
           RingInOrder(e, time), NEW r \in RuleSet, r.seconds # 0,
           NEW before \in Int, Matches(e, r, before)
    PROVE  ~MayReap(e, before)
<1>1. size \in Nat /\ IndexSize \in Nat
  BY SizesNat, TableAssumption
<1>2. e.nstamps \in 1 .. size /\ e.index \in 1 .. e.nstamps
  BY <1>1 DEF Entry, RingInOrder
<1>3. (e.index - 1) % size = e.index - 1
  BY <1>1, <1>2, SmallMod
<1> DEFINE recent == {i \in 0 .. e.nstamps - 1 :
                         r.seconds = 0 \/ ~(before > e.ring[i])}
<1>4. recent # {}
  <2>1. Cardinality(recent) >= (IF r.hit_count = 0 THEN 1 ELSE r.hit_count)
    BY DEF Matches
  <2>2. r.hit_count \in Nat
    BY DEF RuleSet
  <2> HIDE DEF recent
  <2>3. recent = {} => Cardinality(recent) = 0
    BY FS_EmptySet
  <2> QED
    BY <2>1, <2>2, <2>3
<1>5. PICK i \in 0 .. e.nstamps - 1 : ~(before > e.ring[i])
  BY <1>4
<1>6. e.ring[i] <= e.ring[e.index - 1]
  BY <1>3, <1>5 DEF RingInOrder, LastSeen
<1>7. i \in Slot /\ e.index - 1 \in Slot
  BY <1>1, <1>2 DEF Slot
<1>8. e.ring[i] \in Int /\ e.ring[e.index - 1] \in Int
  BY <1>7, TableAssumption DEF Entry, Times
<1> QED
  BY <1>2, <1>5, <1>6, <1>8 DEF MayReap

(***************************************************************************)
(* Only an entry whose ring is out of order can be used after it was freed.*)
(***************************************************************************)
LEMMA UsedAfterFree ==
    ASSUME size \in Sizes, size < IndexSize, Typed(table), now' \in Times,
           NEW a, NEW r \in RuleSet, RuleOK(r), CheckOrUpdate(a, r),
           freed' # freed
    PROVE  /\ a \in Present(table) /\ freed' = freed \cup {a}
           /\ \A time : ~RingInOrder(table.entry[a], time)
<1> DEFINE before == now' - r.seconds
           left == IF r.reap THEN recent_entry_reap(table, before) ELSE {table}
           oldest == Head(table.lru)
<1>1. a \in Present(table)
  BY DEF CheckOrUpdate
<1>2. PICK u \in left : /\ Matches(table.entry[a], r, before)
                        /\ a \notin Present(u) /\ freed' = freed \cup {a}
  BY DEF CheckOrUpdate
<1>3. r.reap /\ u \in recent_entry_reap(table, before) /\ u # table
  BY <1>1, <1>2
<1>4. u = recent_entry_remove(table, oldest) /\ MayReap(table.entry[oldest], before)
  BY <1>3 DEF recent_entry_reap
<1>5. a = oldest
  BY <1>1, <1>2, <1>4, RemovedTable
<1>6. r.seconds # 0
  BY <1>3 DEF RuleOK
<1>7. table.entry[a] \in Entry
  BY <1>1 DEF Typed
<1>8. before \in Int
  BY TableAssumption DEF Times, RuleSet
<1> HIDE DEF before, left, oldest
<1>9. ASSUME NEW time, RingInOrder(table.entry[a], time) PROVE FALSE
  <2>1. ~MayReap(table.entry[a], before)
    BY <1>2, <1>6, <1>7, <1>8, <1>9, MatchedStays
  <2> QED
    BY <1>4, <1>5, <2>1
<1> QED
  BY <1>1, <1>2, <1>9

-----------------------------------------------------------------------------
\* A step of the table

(***************************************************************************)
(* Whatever rules use the table, and in whatever order packets, writes and *)
(* ticks of the clock come.                                                *)
(***************************************************************************)
LEMMA TableStep ==
    ASSUME TableInv, size \in Sizes, NEW rules \in SUBSET {r \in RuleSet : RuleOK(r)},
           TableNext(rules)
    PROVE  TableInv'
<1>1. Sound(table, now) /\ now \in Times /\ size' = size /\ Intact
  BY DEF TableInv, TableNext
<1>2. now' \in Times /\ now <= now'
  <2>1. Advance
    BY DEF TableNext, WriteAdd, WriteRemove, recent_mt, WriteFlush, Tick
  <2> QED
    BY <1>1, <2>1, TableAssumption DEF Advance, Times
<1> PICK later \in Times : later = now'
  BY <1>2
<1>3. ASSUME NEW a \in Hosts, WriteAdd(a) PROVE Sound(table', later)
  <2>1. CASE a \in Present(table)
    BY <1>1, <1>2, <1>3, <2>1, UpdateSound DEF WriteAdd
  <2>2. CASE a \notin Present(table)
    BY <1>1, <1>2, <1>3, <2>2, InitSound DEF WriteAdd
  <2> QED
    BY <2>1, <2>2
<1>4. ASSUME NEW a \in Hosts, WriteRemove(a) PROVE Sound(table', later)
  <2>1. Sound(recent_entry_remove(table, a), now)
    BY <1>1, <1>4, RemoveSound DEF WriteRemove
  <2> QED
    BY <1>1, <1>2, <1>4, <2>1, LaterSound DEF WriteRemove
<1>5. ASSUME NEW a \in Hosts, NEW r \in rules, recent_mt(a, r) PROVE Sound(table', later)
  BY <1>1, <1>2, <1>5, MatchSound DEF recent_mt
<1>6. WriteFlush => Sound(table', later)
  BY EmptySound DEF WriteFlush, recent_table_flush
<1>7. Tick => Sound(table', later)
  BY <1>1, <1>2, LaterSound DEF Tick
<1>8. Sound(table', later)
  BY <1>3, <1>4, <1>5, <1>6, <1>7 DEF TableNext
<1>9. ASSUME NEW a \in Hosts, NEW r \in rules, recent_mt(a, r)
      PROVE  (freed' \subseteq Hosts) /\ (size < IndexSize => freed' = freed)
  <2>1. Typed(table) /\ \A x \in Present(table) : RingInOrder(table.entry[x], now)
    BY <1>1 DEF Sound
  <2>2. CASE CheckOrUpdate(a, r)
    <3>1. freed' = freed \/ freed' = freed \cup {a}
      BY <2>2 DEF CheckOrUpdate
    <3>2. ASSUME size < IndexSize, freed' # freed PROVE FALSE
      <4>1. a \in Present(table) /\ ~RingInOrder(table.entry[a], now)
        BY <1>2, <2>1, <2>2, <3>2, UsedAfterFree
      <4> QED
        BY <2>1, <4>1
    <3> QED
      BY <3>1, <3>2 DEF TableInv
  <2>3. CASE UNCHANGED freed
    BY <2>3 DEF TableInv
  <2> QED
    BY <1>9, <2>2, <2>3 DEF recent_mt
<1>10. (freed' \subseteq Hosts) /\ (size < IndexSize => freed' = freed)
  <2>1. CASE UNCHANGED freed
    BY <2>1 DEF TableInv
  <2> QED
    BY <1>9, <2>1 DEF TableNext
<1>11. Sound(table, now)'
  BY <1>1, <1>8, SameSound
<1> QED
  BY <1>1, <1>2, <1>10, <1>11 DEF TableInv, NoUseAfterFree, Intact

(***************************************************************************)
(* An empty table is in order, with a ring of any size: what a rule, a     *)
(* reload or the last rule to go leaves.                                   *)
(***************************************************************************)
LEMMA EmptyInv ==
    (/\ size \in Sizes \cup {0} /\ table = EmptyTable /\ now \in Times
     /\ Intact) => TableInv
BY EmptySound DEF TableInv, NoUseAfterFree, Intact

(***************************************************************************)
(* What the invariant says of the properties                               *)
(***************************************************************************)
LEMMA InvType == TableInv => TableTypeOK
BY DEF TableInv, TableTypeOK, Sound, Typed, Listed, Lists

LEMMA InvOldest == TableInv => HeadIsOldest /\ WithinListTot
<1>1. Listed(table) =>
         {table.lru[i] : i \in DOMAIN table.lru} = Present(table)
  BY DEF Listed, Lists
<1> QED
  BY <1>1 DEF TableInv, Sound, Ordered, HeadIsOldest, WithinListTot

LEMMA InvNewest == TableInv => LastIsNewest
<1> SUFFICES ASSUME TableInv, size < IndexSize, NEW a \in Present(table)
             PROVE  LET e == table.entry[a]
                    IN  /\ e.index \in 1 .. e.nstamps
                        /\ \A s \in Stamps(e) : s <= e.ring[e.index - 1]
  BY DEF LastIsNewest
<1> DEFINE e == table.entry[a]
<1>1. e \in Entry /\ RingInOrder(e, now) /\ size \in Sizes \cup {0}
  BY DEF TableInv, Sound, Typed
<1> HIDE DEF e
<1>2. size \in Nat /\ IndexSize \in Nat
  BY <1>1, TableAssumption DEF Sizes
<1>3. e.nstamps \in 1 .. size /\ e.index \in 1 .. e.nstamps
  BY <1>1, <1>2 DEF Entry, RingInOrder
<1>4. (e.index - 1) % size = e.index - 1
  BY <1>2, <1>3, SmallMod
<1>5. \A i \in 0 .. e.nstamps - 1 : e.ring[i] <= e.ring[e.index - 1]
  BY <1>1, <1>4 DEF RingInOrder, LastSeen
<1> QED
  BY <1>3, <1>5 DEF Stamps, e

LEMMA UnchangedInOrder ==
    TableInv /\ UNCHANGED <<table, now, size, freed>> => TableInv'
<1> SUFFICES ASSUME TableInv, UNCHANGED <<table, now, size, freed>> PROVE TableInv'
  OBVIOUS
<1>1. Sound(table, now)'
  BY SameSound DEF TableInv
<1> QED
  BY <1>1 DEF TableInv, NoUseAfterFree, Intact, Times
=============================================================================
