---------------------------- MODULE RecentPoller ----------------------------
(***************************************************************************)
(* How the master learns of the recent tables (xt_recent_sync.cpp and      *)
(* xt_recent_proc.cpp): a thread reads the table once in every period,     *)
(* compares it with what it read the time before and queues the            *)
(* differences; the worker of the master applies them to recent_data.      *)
(* Replication takes the queued actions as given; this module is about     *)
(* whether they tell the truth.                                            *)
(*                                                                         *)
(* There is one table; tables are independent of each other.               *)
(***************************************************************************)
EXTENDS RecentTable

CONSTANTS Rules,       \* iptables rules that name the table
          RingSize,    \* the size of its rings, as long as they are loaded
          MaxStarts,   \* bound: START_RECENT_SYNC commands
          MaxPerPoll   \* changes of the table between two readings of it

ASSUME PollerAssumption ==
    /\ Rules \subseteq {r \in RuleSet : RuleOK(r)} /\ RingSize \in Sizes
    /\ MaxStarts \in Nat /\ MaxPerPoll \in Nat

VARIABLES
    starts,        \* threads started so far
    thread,        \* proc_task of each of them: where it is, what it read
    is_running,    \* the flag of the listener
    known,         \* xt_recent_sync::recent_data
    input_data,    \* the queue to the worker
    recent_data,   \* base_sync::recent_data
    changes        \* changes since the last reading

vars == <<table, now, size, freed, starts, thread, is_running, known, input_data,
          recent_data, changes>>

Threads == 1 .. MaxStarts

\* Faulty form: the last stamp of the ring is not printed
ShowShort(e) ==
    [oldest_pkt |-> e.index, stamps |-> [i \in 1 .. e.nstamps - 1 |-> e.ring[i - 1]]]

\* A line of the file: the index and the slots in use, in the order of the ring
recent_seq_show(e) ==
    [oldest_pkt |-> e.index, stamps |-> [i \in 1 .. e.nstamps |-> e.ring[i - 1]]]

\* A stamp of 0 is passed over.
Parsed(stamps, s) == IF s = 0 THEN stamps ELSE Append(stamps, s)

parse_file_row(line) ==
    [index |-> line.oldest_pkt, stamps |-> FoldLeft(Parsed, <<>>, line.stamps)]

Row(e) == parse_file_row(recent_seq_show(e))

\* Faulty form: a line of the file is passed over
LineMissed(t) ==
    [a \in Present(t) \ {CHOOSE x \in Hosts : TRUE} |-> Row(t.entry[a])]

get_table(t) == [a \in Present(t) |-> Row(t.entry[a])]

Rows == UNION {[index: 0 .. IndexSize - 1, stamps: [1 .. n -> Times]] :
                  n \in 1 .. RingSize}

NoRows == <<>>

IsRowMap(m) == DOMAIN m \subseteq Hosts /\ \A a \in DOMAIN m : m[a] \in Rows

PollerTypeOK ==
    /\ TableTypeOK
    /\ starts \in 0 .. MaxStarts
    /\ \A k \in Threads : /\ thread[k].at \in {"none", "test", "sleep", "diff"}
                          /\ IsRowMap(thread[k].read)
    /\ is_running \in BOOLEAN
    /\ IsRowMap(known) /\ IsRowMap(recent_data)
    /\ \A i \in DOMAIN input_data :
          /\ input_data[i].action \in {"ADD_UPD_ENTRY", "DELETE_ENTRY"}
          /\ input_data[i].addr \in Hosts /\ input_data[i].row \in Rows

PollerInit ==
    /\ TableInit /\ size = RingSize
    /\ starts = 0
    /\ thread = [k \in Threads |-> [at |-> "none", read |-> NoRows]]
    /\ is_running = FALSE
    /\ known = NoRows
    /\ input_data = <<>>
    /\ recent_data = NoRows
    /\ changes = 0

-----------------------------------------------------------------------------
get_entry_as_action(a, row, delete) ==
    [action |-> IF delete THEN "DELETE_ENTRY" ELSE "ADD_UPD_ENTRY",
     addr |-> a, row |-> row]

\* Faulty form: only new addresses are reported
NewOnly(old, new) == {a \in DOMAIN new : a \notin DOMAIN old}

\* "check for entry update": an address is new, or its index has moved.
Updated(old, new) ==
    {a \in DOMAIN new : a \in DOMAIN old => old[a].index # new[a].index}

Removed(old, new) == DOMAIN old \ DOMAIN new

get_table_updates(old, new) ==
    SetToSeq({get_entry_as_action(a, new[a], FALSE) : a \in Updated(old, new)})
    \o SetToSeq({get_entry_as_action(a, old[a], TRUE) : a \in Removed(old, new)})

\* base_sync::apply_recent_action, for the one table
Apply(data, x) ==
    IF x.action = "DELETE_ENTRY"
    THEN [a \in DOMAIN data \ {x.addr} |-> data[a]]
    ELSE [a \in DOMAIN data \cup {x.addr} |->
             IF a = x.addr THEN x.row ELSE data[a]]

-----------------------------------------------------------------------------
\* proc_task, thread k

Goto(k, at) == thread' = [thread EXCEPT ![k].at = at]

\* while (is_running); then the thread sleeps for a period.
Test(k) ==
    /\ thread[k].at = "test"
    /\ Goto(k, IF is_running THEN "sleep" ELSE "none")
    /\ UNCHANGED <<table, now, size, freed, starts, is_running, known, input_data,
                   recent_data, changes>>

Read(k) ==
    /\ Intact
    /\ thread[k].at = "sleep"
    /\ thread' = [thread EXCEPT ![k] = [at |-> "diff", read |-> get_table(table)]]
    /\ changes' = 0
    /\ UNCHANGED <<table, now, size, freed, starts, is_running, known, input_data,
                   recent_data>>

Compare(k) ==
    /\ thread[k].at = "diff"
    /\ input_data' = input_data \o get_table_updates(known, thread[k].read)
    /\ known' = thread[k].read
    /\ thread' = [thread EXCEPT ![k] = [at |-> "test", read |-> NoRows]]
    /\ UNCHANGED <<table, now, size, freed, starts, is_running, recent_data,
                   changes>>

ProcTask(k) == Test(k) \/ Read(k) \/ Compare(k)

\* The worker of the master takes actions only while the listener runs.
WorkerApplies ==
    /\ is_running /\ input_data # <<>>
    /\ recent_data' = Apply(recent_data, Head(input_data))
    /\ input_data' = Tail(input_data)
    /\ UNCHANGED <<table, now, size, freed, starts, thread, is_running, known,
                   changes>>

-----------------------------------------------------------------------------
\* START_RECENT_SYNC and STOP_RECENT_SYNC

start_recent_sync ==
    /\ ~is_running /\ starts < MaxStarts
    /\ recent_data' = NoRows
    /\ is_running' = TRUE
    /\ starts' = starts + 1
    /\ Goto(starts', "test")
    /\ UNCHANGED <<table, now, size, freed, known, input_data, changes>>

stop_recent_sync ==
    /\ is_running
    /\ is_running' = FALSE
    /\ UNCHANGED <<table, now, size, freed, starts, thread, known, input_data,
                   recent_data, changes>>

\* Packets and operators change the table.
TableChanges ==
    /\ changes < MaxPerPoll
    /\ TableNext(Rules)
    /\ changes' = IF table' = table THEN changes ELSE changes + 1
    /\ UNCHANGED <<starts, thread, is_running, known, input_data, recent_data>>

PollerNext ==
    \/ \E k \in Threads : ProcTask(k)
    \/ WorkerApplies \/ start_recent_sync \/ stop_recent_sync \/ TableChanges

\* The threads are scheduled; nothing obliges the operator or the traffic.
PollerFairness ==
    /\ \A k \in Threads : WF_vars(ProcTask(k))
    /\ WF_vars(WorkerApplies)

PollerSpec == PollerInit /\ [][PollerNext]_vars /\ PollerFairness

-----------------------------------------------------------------------------
Replayed == FoldLeft(Apply, recent_data, input_data)

(***************************************************************************)
(* What the worker has, once it has emptied its queue, is what the thread  *)
(* believes to have reported: the same addresses, at the same index.       *)
(* (With one start; see LoadsHostTables.)                                  *)
(***************************************************************************)
ReportsAddUp ==
    /\ DOMAIN Replayed = DOMAIN known
    /\ \A a \in DOMAIN known : Replayed[a].index = known[a].index

\* recent_data has the addresses of the table and their stamps.
Current ==
    /\ DOMAIN recent_data = Present(table)
    /\ \A a \in Present(table) :
          LET e == table.entry[a]
          IN  recent_data[a].stamps = [i \in 1 .. e.nstamps |-> e.ring[i - 1]]

(***************************************************************************)
(* "check for entry update": while the listener runs, and the table        *)
(* changes at most once between two readings of it, recent_data ends up    *)
(* with the addresses of the table and all their stamps.  (With one start; *)
(* see LoadsHostTables.)                                                   *)
(***************************************************************************)
SeesUpdates == <>[]is_running /\ [](changes <= 1) => <>[]Current

(***************************************************************************)
(* The comparison of get_table_updates is by ring index.  That is enough   *)
(* where one stamp moves the index: in rings of more than one slot.  (And  *)
(* where index does not wrap to 0: see RecentTable.)                       *)
(***************************************************************************)
CatchesUp == 1 < RingSize /\ RingSize < IndexSize => SeesUpdates

(***************************************************************************)
(* "load host tables" (start_recent_sync): after the listener is started,  *)
(* for the first time or again, recent_data ends up with the addresses of  *)
(* the table.                                                              *)
(***************************************************************************)
LoadsHostTables ==
    <>[]is_running => <>[](DOMAIN recent_data = Present(table))
=============================================================================
