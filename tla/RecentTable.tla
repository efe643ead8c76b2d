---------------------------- MODULE RecentTable -----------------------------
(***************************************************************************)
(* One table of the xt_recent kernel module that ships with ssyncd         *)
(* (src/src/kmodule/xt_recent-4.9.13.c).  For every address the table      *)
(* keeps a ring with the times of its last packets, and it keeps the       *)
(* addresses in least-recently-used order.                                 *)
(*                                                                         *)
(* Every operation below runs under recent_lock and is one step.  Each     *)
(* step happens at a new time, so that a stamp names the packet it comes   *)
(* from; the times between are covered by Tick.  The size of the rings is  *)
(* chosen when the table is created: by the modules that extend this one.  *)
(***************************************************************************)
EXTENDS Integers, SequencesExt

CONSTANTS Hosts,      \* addresses
          IndexSize,  \* values of the field index: 256 in the code, a u8
          ListTot,    \* ip_list_tot
          MaxTime     \* bound: the time goes from 1 to MaxTime

\* nstamps_max_mask + 1
Sizes == {1, 2, 4, 8, 16, 32, 64, 128, 256}

RuleSet == [check_set: {"SET", "REMOVE", "CHECK", "UPDATE"},
            seconds: Nat, hit_count: Nat, reap: BOOLEAN]

(***************************************************************************)
(* The constraints of recent_mt_check: SET and REMOVE take no condition,   *)
(* and the reap option needs a time span.                                  *)
(***************************************************************************)
RuleOK(r) ==
    /\ r.check_set \in {"SET", "REMOVE"} =>
          r.seconds = 0 /\ r.hit_count = 0 /\ ~r.reap
    /\ r.reap => r.seconds # 0

ASSUME TableAssumption ==
    /\ IndexSize \in Nat /\ \A n \in Sizes : n <= IndexSize
    /\ ListTot \in Nat \ {0}
    /\ MaxTime \in Nat \ {0}

VARIABLES table, now,
          size,     \* of the rings; 0 when there is no table
          freed     \* history: addresses whose entry was used after kfree

Slot == 0 .. size - 1
Times == 1 .. MaxTime

Entry == [ring: [Slot -> Times \cup {0}], nstamps: 1 .. size,
          index: 0 .. IndexSize - 1]

\* entry holds the addresses present; lru lists them, oldest first.
EmptyTable == [lru |-> <<>>, entry |-> <<>>]

Present(t) == DOMAIN t.entry

(***************************************************************************)
(* recent_mt may add a stamp to an entry that it has just freed.  It then  *)
(* writes to memory that is no longer the table's and follows pointers     *)
(* that are no longer a list: nothing is said of the table from there on.  *)
(***************************************************************************)
Intact == freed = {}

TableTypeOK ==
    /\ freed \subseteq Hosts /\ now \in Times
    /\ Intact => /\ Present(table) \subseteq Hosts
                 /\ \A a \in Present(table) : table.entry[a] \in Entry
                 /\ table.lru \in Seq(Present(table))

-----------------------------------------------------------------------------
\* list_del
Without(s, a) == RemoveAt(s, CHOOSE i \in DOMAIN s : s[i] = a)

recent_entry_remove(t, a) ==
    [lru |-> Without(t.lru, a),
     entry |-> [x \in Present(t) \ {a} |-> t.entry[x]]]

\* Faulty form: one address too many
MakeRoomLate(t) ==
    IF Len(t.lru) > ListTot THEN recent_entry_remove(t, Head(t.lru)) ELSE t

\* A full table loses its oldest address.
MakeRoom(t) ==
    IF Len(t.lru) >= ListTot THEN recent_entry_remove(t, Head(t.lru)) ELSE t

NewEntry(stamp) ==
    [ring |-> [i \in Slot |-> IF i = 0 THEN stamp ELSE 0], nstamps |-> 1, index |-> 1]

recent_entry_init(t, a, stamp) ==
    LET room == MakeRoom(t)
    IN  [lru |-> Append(room.lru, a),
         entry |-> [x \in Present(room) \cup {a} |->
                       IF x = a THEN NewEntry(stamp) ELSE room.entry[x]]]

\* Faulty forms: the position is not masked, or advanced before the store
StampedUnmasked(e, stamp) ==
    LET index == e.index + 1
    IN  [ring |-> [e.ring EXCEPT ![e.index] = stamp],
         index |-> index,
         nstamps |-> IF index > e.nstamps THEN index ELSE e.nstamps]

StampedBehind(e, stamp) ==
    LET i     == e.index % size
        index == (i + 1) % IndexSize
    IN  [ring |-> [e.ring EXCEPT ![(i + 1) % size] = stamp],
         index |-> index,
         nstamps |-> IF index > e.nstamps THEN index ELSE e.nstamps]

\* The ring position is masked before the stamp is stored, then advanced.
Stamped(e, stamp) ==
    LET i     == e.index % size
        index == (i + 1) % IndexSize
    IN  [ring |-> [e.ring EXCEPT ![i] = stamp],
         index |-> index,
         nstamps |-> IF index > e.nstamps THEN index ELSE e.nstamps]

\* Faulty form: the address keeps its place in the list
StampInPlace(t, a, stamp) ==
    [t EXCEPT !.entry[a] = Stamped(@, stamp)]

recent_entry_update(t, a, stamp) ==
    [lru |-> Append(Without(t.lru, a), a),
     entry |-> [t.entry EXCEPT ![a] = Stamped(@, stamp)]]

recent_table_flush(t) == EmptyTable

(***************************************************************************)
(* The stamp that recent_entry_reap takes for the newest: stamps[index-1]. *)
(* When index is 0 that is outside the ring and can be any value, so the   *)
(* entry may be kept or dropped.                                           *)
(***************************************************************************)
MayReap(e, time) == e.index = 0 \/ time > e.ring[e.index - 1]
MayKeep(e, time) == e.index = 0 \/ ~(time > e.ring[e.index - 1])

\* What recent_entry_reap may leave: only the head of the list is looked at.
recent_entry_reap(t, time) ==
    LET oldest == Head(t.lru)
        e      == t.entry[oldest]
    IN  {u \in {t, recent_entry_remove(t, oldest)} :
            IF u = t THEN MayKeep(e, time) ELSE MayReap(e, time)}

-----------------------------------------------------------------------------
\* recent_mt: a packet of address a meets rule r (rules are not inverted).

Matches(e, r, time) ==
    LET recent == {i \in 0 .. e.nstamps - 1 :
                      r.seconds = 0 \/ ~(time > e.ring[i])}
    IN  Cardinality(recent) >= (IF r.hit_count = 0 THEN 1 ELSE r.hit_count)

Advance == now < MaxTime /\ now' = now + 1

NewHost(a, r) ==
    /\ a \notin Present(table)
    /\ table' = IF r.check_set = "SET" THEN recent_entry_init(table, a, now')
                ELSE table

SetOrRemove(a, r) ==
    /\ a \in Present(table)
    /\ \/ /\ r.check_set = "SET"
          /\ table' = recent_entry_update(table, a, now')
       \/ /\ r.check_set = "REMOVE"
          /\ table' = recent_entry_remove(table, a)

(***************************************************************************)
(* CHECK and UPDATE look at the stamps first, then the oldest address is   *)
(* reaped, and last UPDATE adds a stamp when the stamps had matched,       *)
(* without asking whether the address is still in the table.               *)
(***************************************************************************)
CheckOrUpdate(a, r) ==
    /\ a \in Present(table) /\ r.check_set \in {"CHECK", "UPDATE"}
    /\ LET time == now' - r.seconds
           adds == r.check_set = "UPDATE" /\ Matches(table.entry[a], r, time)
           left == IF r.reap THEN recent_entry_reap(table, time) ELSE {table}
       IN  \E u \in left :
              IF adds /\ a \notin Present(u)
              THEN table' = u /\ freed' = freed \cup {a}
              ELSE /\ table' = IF adds THEN recent_entry_update(u, a, now') ELSE u
                   /\ UNCHANGED freed

recent_mt(a, r) ==
    /\ Advance
    /\ \/ CheckOrUpdate(a, r)
       \/ (NewHost(a, r) \/ SetOrRemove(a, r)) /\ UNCHANGED freed

\* recent_mt_proc_write: "+a", "-a" and "/"
WriteAdd(a) ==
    /\ Advance
    /\ table' = IF a \in Present(table)
                THEN recent_entry_update(table, a, now')
                ELSE recent_entry_init(table, a, now')

WriteRemove(a) ==
    /\ Advance
    /\ a \in Present(table)
    /\ table' = recent_entry_remove(table, a)

WriteFlush == Advance /\ table' = recent_table_flush(table)

Tick == Advance /\ UNCHANGED table

-----------------------------------------------------------------------------
TableInit == table = EmptyTable /\ now = 1 /\ freed = {}

\* What happens to a table that the rules in rules name
TableNext(rules) ==
    /\ Intact
    /\ \/ \E a \in Hosts, r \in rules : recent_mt(a, r)
       \/ /\ WriteFlush \/ Tick \/ \E a \in Hosts : WriteAdd(a) \/ WriteRemove(a)
          /\ UNCHANGED freed
    /\ UNCHANGED size

-----------------------------------------------------------------------------
Stamps(e) == {e.ring[i] : i \in 0 .. e.nstamps - 1}

(***************************************************************************)
(* "The last time stamp is the most recent." (recent_entry_reap): the slot *)
(* before index is one of the ring's and no other slot is newer.  (Where   *)
(* the ring has as many slots as index has values, index wraps to 0.)      *)
(***************************************************************************)
LastIsNewest ==
    size < IndexSize /\ Intact => \A a \in Present(table) :
        LET e == table.entry[a]
        IN  /\ e.index \in 1 .. e.nstamps
            /\ \A s \in Stamps(e) : s <= e.ring[e.index - 1]

LastSeen(e) == e.ring[(e.index - 1) % size]

(***************************************************************************)
(* "The head of the LRU list is always the oldest entry."                  *)
(* (recent_entry_reap): the list holds every address of the table once,    *)
(* in the order in which the addresses were last seen.                     *)
(***************************************************************************)
HeadIsOldest ==
    Intact =>
      /\ {table.lru[i] : i \in DOMAIN table.lru} = Present(table)
      /\ \A i, j \in DOMAIN table.lru :
            i < j => LastSeen(table.entry[table.lru[i]])
                        <= LastSeen(table.entry[table.lru[j]])

(***************************************************************************)
(* The memory the table may take is bounded: recent_entry_init never lets  *)
(* it outgrow ip_list_tot.                                                 *)
(***************************************************************************)
WithinListTot == Intact => Cardinality(Present(table)) <= ListTot

(***************************************************************************)
(* An --update rule with --reap reaps while it holds an entry, and then    *)
(* uses the entry: it must not have been the one reaped.  A stamp that     *)
(* matches has to keep the entry's last stamp from being too old.          *)
(***************************************************************************)
NoUseAfterFree == size < IndexSize => Intact

-----------------------------------------------------------------------------
\* The inductive invariant behind TableTypeOK and these three

\* s holds every member of S once.
Lists(s, S) ==
    /\ s \in Seq(S)
    /\ \A x \in S : \E i \in DOMAIN s : s[i] = x
    /\ \A i, j \in DOMAIN s : i # j => s[i] # s[j]

Listed(t) ==
    /\ Lists(t.lru, Present(t))
    /\ IsFiniteSet(Present(t)) /\ Cardinality(Present(t)) = Len(t.lru)

Typed(t) ==
    /\ Present(t) \subseteq Hosts
    /\ \A a \in Present(t) : t.entry[a] \in Entry

\* The stamps of a ring are from the past, and the last is the newest.
RingInOrder(e, time) ==
    /\ e.index \in 1 .. e.nstamps \/ (e.index = 0 /\ size = IndexSize)
    /\ \A i \in Slot : e.ring[i] <= time
    /\ \A i \in 0 .. e.nstamps - 1 : e.ring[i] <= LastSeen(e)
    /\ \A i \in 0 .. e.nstamps - 1 : e.ring[i] # 0

\* The list is in the order last seen.
Ordered(s, t) ==
    \A i, j \in DOMAIN s : i < j => LastSeen(t.entry[s[i]]) <= LastSeen(t.entry[s[j]])

\* A table whose stamps are not newer than time
Sound(t, time) ==
    /\ Typed(t) /\ Listed(t) /\ Ordered(t.lru, t)
    /\ \A a \in Present(t) : RingInOrder(t.entry[a], time)
    /\ Cardinality(Present(t)) <= ListTot

TableInv ==
    /\ size \in Sizes \cup {0} /\ now \in Times /\ freed \subseteq Hosts
    /\ Sound(table, now)
    /\ NoUseAfterFree
=============================================================================
