--------------------------- MODULE MCReplication ----------------------------
(***************************************************************************)
(* Small instances of Replication for TLC: one farm, one listener.         *)
(***************************************************************************)
EXTENDS Mirror

MCFarms == {"farm"}
MCTables == {"table"}

Session(service, key, action, backend) ==
    [type |-> "HTTP_SYNC", action |-> action, backend |-> backend,
     slot |-> [farm |-> "farm", listener |-> 0, service |-> service, key |-> key]]

\* A session comes and goes.
JustAdd == {Session(0, "k", "SESS_ADD", 1)}

AddDelete == {Session(0, "k", "SESS_ADD", 1), Session(0, "k", "SESS_DELETE", 1)}

\* Two services of one listener
TwoServices == {Session(0, "k", "SESS_ADD", 1), Session(1, "k", "SESS_ADD", 1)}

Entry(addr, action, value) ==
    [type |-> "XT_RECENT_SYNC", action |-> action, entry |-> value,
     row |-> [table |-> "table", addr |-> addr]]

JustEntry == {Entry("a", "ADD_UPD_ENTRY", "e")}

OneEntry == {Entry("a", "ADD_UPD_ENTRY", "e"), Entry("a", "DELETE_ENTRY", "e")}

Nothing == {}

\* The backups are alike.
Alike == Permutations(Backups)
=============================================================================
