---------------------------- MODULE MCRecentDump ----------------------------
(***************************************************************************)
(* Small instances of RecentDump for TLC.                                  *)
(***************************************************************************)
EXTENDS RecentDump

\* Every ring content over the times 1..MaxStamp, for each address
MaxStamp == 3

MCRows == {s \in UNION {[1 .. n -> 1 .. MaxStamp] : n \in 1 .. RingSize} :
              InRingOrder(s)}

MCDumps == UNION {[S -> MCRows] : S \in SUBSET Hosts}

\* --set and --update --seconds 2 --reap
MCRules == {[check_set |-> "SET", seconds |-> 0, hit_count |-> 0, reap |-> FALSE],
            [check_set |-> "UPDATE", seconds |-> 2, hit_count |-> 1, reap |-> TRUE]}
=============================================================================
