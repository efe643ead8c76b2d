---------------------------- MODULE RecentRules -----------------------------
(***************************************************************************)
(* The life of a table of xt_recent: iptables rules that name it create    *)
(* it, share it and make it grow (recent_mt_check), and it goes away with  *)
(* the last of them (recent_mt_destroy).  In between it is the table of    *)
(* RecentTable, whose ring has the size the rules asked for.               *)
(*                                                                         *)
(* There is one name.  A rule that is refused, and memory or a proc file   *)
(* that cannot be had, change nothing and are not steps.                   *)
(***************************************************************************)
EXTENDS RecentTable

CONSTANTS Offered,       \* rules that iptables may be asked to load
          DefaultRing,   \* the ring of a rule without a hit count: 32
          PktListTot     \* ip_pkt_list_tot

VARIABLES refcnt,
          loaded     \* the rules in force

ruleVars == <<table, now, size, freed, refcnt, loaded>>

ASSUME RulesAssumption ==
    /\ DefaultRing \in Sizes
    /\ PktListTot \in 0..255
    /\ Offered \subseteq RuleSet

-----------------------------------------------------------------------------
roundup_pow_of_two(n) == Min({s \in Sizes : n <= s})

\* Faulty form: the size below
RingBelow(r) == IF r.hit_count = 0 THEN DefaultRing
                ELSE roundup_pow_of_two(r.hit_count - 1)

\* nstamp_mask + 1
RingFor(r) ==
    IF PktListTot # 0 /\ r.hit_count < PktListTot
    THEN roundup_pow_of_two(PktListTot)
    ELSE IF r.hit_count # 0 THEN roundup_pow_of_two(r.hit_count)
         ELSE DefaultRing

\* Faulty form: the entries stay, with rings of the size they had
GrowInPlace(s) == size' = s /\ UNCHANGED table

\* recent_table_flush, and the new mask, under recent_lock
Grow(s) == size' = s /\ table' = EmptyTable

\* Faulty form: a rule that finds the table does not count
NotCounted(r) ==
    /\ IF RingFor(r) > size THEN Grow(RingFor(r)) ELSE UNCHANGED <<size, table>>
    /\ UNCHANGED refcnt

\* A table that exists is shared.
Share(r) ==
    /\ IF RingFor(r) > size THEN Grow(RingFor(r)) ELSE UNCHANGED <<size, table>>
    /\ refcnt' = refcnt + 1

Create(r) ==
    /\ size' = RingFor(r)
    /\ table' = EmptyTable
    /\ refcnt' = 1

recent_mt_check(r) ==
    /\ Intact /\ r \notin loaded
    /\ RuleOK(r) /\ r.hit_count < 256
    /\ IF size # 0 THEN Share(r) ELSE Create(r)
    /\ loaded' = loaded \cup {r}
    /\ UNCHANGED <<now, freed>>

recent_mt_destroy(r) ==
    /\ Intact /\ r \in loaded
    /\ refcnt' = refcnt - 1
    /\ IF refcnt' = 0 THEN size' = 0 /\ table' = EmptyTable
       ELSE UNCHANGED <<size, table>>
    /\ loaded' = loaded \ {r}
    /\ UNCHANGED <<now, freed>>

Use == size # 0 /\ TableNext(loaded) /\ UNCHANGED <<refcnt, loaded>>

RulesInit ==
    /\ TableInit
    /\ size = 0 /\ refcnt = 0 /\ loaded = {}

RulesNext ==
    \/ \E r \in Offered : recent_mt_check(r) \/ recent_mt_destroy(r)
    \/ Use

RulesSpec == RulesInit /\ [][RulesNext]_ruleVars

-----------------------------------------------------------------------------
(***************************************************************************)
(* Types; among them, every entry was allocated with a ring of the size    *)
(* that recent_entry_update now masks its index with.                      *)
(***************************************************************************)
RulesTypeOK ==
    /\ size \in Sizes \cup {0}
    /\ refcnt \in Nat
    /\ loaded \subseteq Offered
    /\ TableTypeOK

(***************************************************************************)
(* recent_mt and recent_mt_destroy use the table without asking whether it *)
(* was found: as long as a rule is loaded there is one.                    *)
(***************************************************************************)
TableThere == loaded # {} => size # 0

(***************************************************************************)
(* A rule whose count is within 255 can be met: the ring has room for as   *)
(* many stamps as any loaded rule counts, in whatever order the rules came *)
(* and went.                                                               *)
(***************************************************************************)
HitsFit == \A r \in loaded : r.hit_count <= size
=============================================================================
