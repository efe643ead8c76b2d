--------------------------- MODULE MCRecentPoller ---------------------------
(***************************************************************************)
(* Small instances of RecentPoller for TLC.                                *)
(***************************************************************************)
EXTENDS RecentPoller

\* --set, --remove and --update: every change a packet can make
MCRules ==
    {[check_set |-> c, seconds |-> 0, hit_count |-> 0, reap |-> FALSE] :
        c \in {"SET", "REMOVE", "UPDATE"}}
=============================================================================
