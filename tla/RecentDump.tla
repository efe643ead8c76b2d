----------------------------- MODULE RecentDump -----------------------------
(***************************************************************************)
(* What a failover does with the replicated recent data: WRITE_RECENT on   *)
(* the new master (base_sync::write_recent_data for one table,             *)
(* base_sync::write_recent_all for every table) flushes the kernel's table *)
(* and writes the entries back, one write() each, while packets already    *)
(* come in.  The kernel side is the '*' command that ssyncd adds to        *)
(* recent_mt_proc_write.  CLEAR_RECENT (base_sync::clear_recent_data) only *)
(* flushes; the commands come one after the other.                         *)
(***************************************************************************)
EXTENDS RecentTable

CONSTANTS Rules,      \* iptables rules that name the table
          RingSize,   \* the size of its rings, as long as they are loaded
          Dumps,      \* the recent data a backup may hold: address -> stamps
          MaxWrite,   \* stamps that fit in a write (35 or so in the code)
          OpenFails   \* whether open() may fail

VARIABLES cmd,        \* the command being run, if any
          data,       \* recent_data of the backup, for the table
          todo,       \* addresses still to be written
          written,    \* those whose write succeeded since the flush
          begun,      \* history: the time of the flush
          mixed       \* history: those written behind packets of theirs

vars == <<table, now, size, freed, cmd, data, todo, written, begun, mixed>>

(***************************************************************************)
(* The stamps of a row come in ring order: oldest first, from wherever     *)
(* the ring begins.                                                        *)
(***************************************************************************)
InRingOrder(s) ==
    /\ Len(s) \in 1 .. RingSize
    /\ \E k \in 0 .. Len(s) - 1 :
          /\ k # 0 => Len(s) = RingSize
          /\ \A i, j \in 1 .. Len(s) :
                i < j => s[((i - 1 + k) % Len(s)) + 1] < s[((j - 1 + k) % Len(s)) + 1]

\* The rows have been sent by a master whose clock was not past MaxTime.
ASSUME DumpAssumption ==
    /\ Rules \subseteq {r \in RuleSet : RuleOK(r)} /\ RingSize \in Sizes
    /\ MaxWrite \in Nat /\ OpenFails \in BOOLEAN
    /\ \A d \in Dumps :
          /\ DOMAIN d \subseteq Hosts /\ IsFiniteSet(DOMAIN d)
          /\ \A a \in DOMAIN d : d[a] \in Seq(1 .. MaxTime - 1) /\ InRingOrder(d[a])

DumpTypeOK ==
    /\ TableTypeOK
    /\ cmd \in {"none", "table", "all", "done", "failed"}
    /\ data \in Dumps
    /\ todo \subseteq DOMAIN data /\ written \subseteq DOMAIN data
    /\ begun \in 0 .. now /\ mixed \subseteq written

\* The clock of the new master is past the stamps it was sent.
DumpInit ==
    /\ table = EmptyTable /\ size = RingSize /\ freed = {}
    /\ data \in Dumps
    /\ now = 1 + Max({0} \cup UNION {ToSet(data[a]) : a \in DOMAIN data})
    /\ cmd = "none"
    /\ todo = {}
    /\ written = {}
    /\ begun = 0
    /\ mixed = {}

-----------------------------------------------------------------------------
AddStamps(t, a, stamps) ==
    LET Add(u, s) == recent_entry_update(u, a, s) IN FoldLeft(Add, t, stamps)

\* "*a;ttl;s1;s2;...": a new entry starts with the first stamp.
AddAll(t, a, stamps) ==
    IF a \in Present(t) THEN AddStamps(t, a, stamps)
    ELSE AddStamps(recent_entry_init(t, a, Head(stamps)), a, Tail(stamps))

\* Faulty forms: the stamps are written as they come; the table is not flushed
AsTheyCome(stamps) == stamps
NoFlush(t) == t

\* std::sort: the stamps in another order, an ascending one
Rearranged(s) ==
    {[i \in DOMAIN s |-> s[p[i]]] : p \in Bijection(DOMAIN s, DOMAIN s)}

Sorted(stamps) ==
    CHOOSE t \in Rearranged(stamps) : \A i, j \in DOMAIN t : i < j => t[i] <= t[j]

\* The flush both commands begin with
Flushed(t) == recent_table_flush(t)

Ready == cmd \notin {"table", "all"}

\* write_recent_all passes over a table without entries.
BeginDump(c) ==
    /\ Ready /\ Intact
    /\ c = "all" => DOMAIN data # {}
    /\ table' = Flushed(table)
    /\ todo' = DOMAIN data
    /\ cmd' = IF todo' = {} THEN "done" ELSE c
    /\ written' = {} /\ mixed' = {}
    /\ begun' = now
    /\ UNCHANGED <<now, size, freed, data>>

\* clear_recent_data drops the entries of a copy of the table: data stays.
ClearRecent ==
    /\ Ready /\ Intact
    /\ table' = Flushed(table)
    /\ cmd' = "done"
    /\ written' = {} /\ mixed' = {}
    /\ begun' = now
    /\ UNCHANGED <<now, size, freed, data, todo>>

\* The table cannot be opened.
NoDump ==
    /\ Ready /\ OpenFails
    /\ cmd' = "failed"
    /\ UNCHANGED <<table, now, size, freed, data, todo, written, begun, mixed>>

\* The addresses come in the order of a std::map: any order, for the model.
WriteEntry(a) ==
    /\ cmd \in {"table", "all"} /\ a \in todo /\ Intact
    /\ Len(data[a]) <= MaxWrite
    /\ table' = AddAll(table, a, Sorted(data[a]))
    /\ written' = written \cup {a}
    /\ mixed' = IF a \in Present(table) THEN mixed \cup {a} ELSE mixed
    /\ todo' = todo \ {a}
    /\ cmd' = IF todo' = {} THEN "done" ELSE cmd
    /\ UNCHANGED <<now, size, freed, data, begun>>

(***************************************************************************)
(* The kernel refuses a write that is too long, or the descriptor is -1:   *)
(* write_recent_data goes on with the next entry, write_recent_all ends.   *)
(***************************************************************************)
WriteFails(a) ==
    /\ cmd \in {"table", "all"} /\ a \in todo
    /\ Len(data[a]) > MaxWrite \/ OpenFails
    /\ todo' = IF cmd = "all" THEN {} ELSE todo \ {a}
    /\ cmd' = IF cmd = "all" THEN "failed"
              ELSE IF todo' = {} THEN "done" ELSE cmd
    /\ UNCHANGED <<table, now, size, freed, data, written, begun, mixed>>

\* Packets, before, during and after the dump
Traffic ==
    /\ Intact
    /\ \E a \in Hosts, r \in Rules : recent_mt(a, r)
    /\ UNCHANGED <<size, cmd, data, todo, written, begun, mixed>>

DumpNext ==
    \/ \E c \in {"table", "all"} : BeginDump(c)
    \/ ClearRecent \/ NoDump
    \/ \E a \in Hosts : WriteEntry(a) \/ WriteFails(a)
    \/ Traffic

DumpSpec == DumpInit /\ [][DumpNext]_vars

-----------------------------------------------------------------------------
Begun == begun # 0

(***************************************************************************)
(* Once the dump has flushed the table, a stamp in it is one the master    *)
(* sent for that address or that of a packet seen since: nothing from      *)
(* before the failover counts as a hit.  (As long as the table is one: see *)
(* OnlyMixedFreed.)                                                        *)
(***************************************************************************)
NoStaleStamp ==
    Begun /\ Intact => \A a \in Present(table) : \A s \in Stamps(table.entry[a]) :
                s > begun \/ (a \in written /\ s \in ToSet(data[a]))

(***************************************************************************)
(* A dump that no packet interferes with, of a table that ip_list_tot has  *)
(* room for, rebuilds the rings: an address that was written has the       *)
(* stamps of the master, the newest of them where recent_entry_reap looks  *)
(* for it, and the next packet overwrites the oldest.  (Where the ring has *)
(* as many slots as index has values, index wraps to 0.)                   *)
(***************************************************************************)
RingRebuilt ==
    Begun /\ now = begun /\ Cardinality(DOMAIN data) <= ListTot
          /\ RingSize < IndexSize
    => \A a \in written :
        LET e == table.entry[a]
        IN  /\ a \in Present(table) /\ Stamps(e) = ToSet(data[a])
            /\ \A s \in Stamps(e) : s <= e.ring[e.index - 1]
            /\ e.nstamps = RingSize =>
                  \A s \in Stamps(e) : e.ring[e.index % RingSize] <= s

(***************************************************************************)
(* The stamps of a dump are older than those of packets that came first,   *)
(* so that the last stamp of an entry need no longer be its newest, and an *)
(* --update rule with --reap can free the entry it is about to stamp.      *)
(* Only an address written behind packets of its own is in that danger: an *)
(* entry that the dump creates, or that no write touches, is never used    *)
(* after it was freed, whatever packets, writes and failures there are.    *)
(***************************************************************************)
OnlyMixedFreed == RingSize < IndexSize => freed \subseteq mixed
=============================================================================
