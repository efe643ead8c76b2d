--------------------------- MODULE MCRecentRules ----------------------------
(***************************************************************************)
(* A small instance of RecentRules for TLC.                                *)
(***************************************************************************)
EXTENDS RecentRules

Rule(set, seconds, hits, reap) ==
    [check_set |-> set, seconds |-> seconds, hit_count |-> hits, reap |-> reap]

\* Rings of 1, 2 and 4 stamps, every kind of rule, and one that is refused:
\* --set, --remove, --rcheck --hitcount 3, --update --seconds 2 --hitcount 1
\* --reap, and --rcheck --reap
MCOffered == {Rule("SET", 0, 0, FALSE), Rule("REMOVE", 0, 0, FALSE),
              Rule("CHECK", 0, 3, FALSE), Rule("UPDATE", 2, 1, TRUE),
              Rule("CHECK", 0, 0, TRUE)}

AlikeHosts == Permutations(Hosts)
=============================================================================
