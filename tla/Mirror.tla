------------------------------- MODULE Mirror -------------------------------
(***************************************************************************)
(* What replication is for: the sessions of the master are, or will be, on *)
(* the backups.  A backup lags behind by what is in its queue, on the wire *)
(* and being sent, so its store is compared after replaying those packets. *)
(***************************************************************************)
EXTENDS Replication, SequencesExt

Replay(state, p) ==
    CASE p.type = "HTTP_SYNC" ->
            [state EXCEPT !.http = apply_http_action(@, p)]
      [] p.type = "XT_RECENT_SYNC" ->
            [state EXCEPT !.recent = apply_recent_action(@, p)]
      [] p.type = "DISCONNECT" -> state

\* The packets that backup b has still to apply when its connection is c.
Coming(b, c) ==
    queue[b] \o down[c] \o (IF c \in to THEN <<OnWire(cur)>> ELSE <<>>)

WillHold(b, c) ==
    FoldLeft(Replay, [http |-> bhttp[b], recent |-> brecent[b]], Coming(b, c))

\* Backup b and the master both regard c as a working connection.
Healthy(b, c) ==
    /\ sock[b] = c /\ running[b]
    /\ c \in connected_nodes /\ c # rx.conn
    /\ toSrv[c] = "ok" /\ toCli[c] = "ok"

Synced(b, c) == c \in served /\ Healthy(b, c)

StillToSend(c, p) == dest \in {c, NoConn} /\ p \in outbox

HttpCovered(b, c) ==
    LET h == WillHold(b, c).http
    IN  \A p \in HttpSnapshot(http) :
           \/ h.sessions[OnWire(p).slot] = OnWire(p).backend
           \/ StillToSend(c, p)

RecentCovered(b, c) ==
    LET r == WillHold(b, c).recent
    IN  \A p \in RecentSnapshot(recent) :
           r.entries[p.row] = p.entry \/ StillToSend(c, p)

(***************************************************************************)
(* No HTTP session is lost: a backup whose SYNC_REQUEST was answered, and  *)
(* that no failed broadcast has left out, holds or is about to receive     *)
(* every session of the master.                                            *)
(***************************************************************************)
NoSessionLost ==
    \A b \in Backups, c \in Conns \ skipped :
        Synced(b, c) /\ httpRun # "off" => HttpCovered(b, c)

(***************************************************************************)
(* The same for the entries of the recent tables.                          *)
(***************************************************************************)
NoEntryLost ==
    \A b \in Backups, c \in Conns \ skipped :
        Synced(b, c) /\ recentRun # "off" => RecentCovered(b, c)

(***************************************************************************)
(* Without failures the mirror is exact: a synchronised backup ends up     *)
(* with the sessions of the master and no other.                           *)
(***************************************************************************)
NoGhostSession ==
    \A b \in Backups, c \in Conns :
        Synced(b, c) /\ ~Sending =>
            WillHold(b, c).http.sessions = http.sessions

(***************************************************************************)
(* A backup that has been sent the whole of its snapshot follows; the      *)
(* packets on their way to it are the versions it has still to adopt.      *)
(***************************************************************************)
UpToDate ==
    {b \in Backups : \E c \in Conns \ skipped :
                        Synced(b, c) /\ ~(outbox # {} /\ dest = c)}

\* What the packet makes of the store, and the version it adds to the list
Adopted(st, p) ==
    IF p.type = "HTTP_SYNC"
    THEN [st EXCEPT !.http     = apply_http_action(@, p),
                    !.versions = Append(@, apply_http_action(st.http, p).sessions)]
    ELSE st

Versions(b, c) ==
    FoldLeft(Adopted, [http |-> bhttp[b], versions |-> <<>>], Coming(b, c)).versions

Copies == INSTANCE LaggedCopy WITH
    Values    <- [Slots -> Backends \cup {NoSession}],
    Followers <- Backups,
    value     <- http.sessions,
    copy      <- [b \in Backups |-> bhttp[b].sessions],
    pending   <- [b \in Backups |-> IF b \in UpToDate THEN Versions(b, sock[b])
                                                     ELSE <<>>],
    following <- UpToDate

(***************************************************************************)
(* The protocol implements LaggedCopy: from its snapshot on, a backup goes *)
(* through the versions of the master's sessions in their order, without   *)
(* missing or inventing one, whatever the threads of both sides do.        *)
(***************************************************************************)
LagsBehind == Copies!CopySpec

(***************************************************************************)
(* A backup that runs, with a master that runs, ends up with the master's  *)
(* sessions and entries for good.                                          *)
(***************************************************************************)
Converges ==
    \A b \in Backups :
        (<>[](mpc # "off") /\ <>[](bpc[b] # "down"))
            => <>[](/\ bhttp[b].sessions = http.sessions
                    /\ brecent[b].entries = recent.entries)

-----------------------------------------------------------------------------
\* The inductive invariant behind NoEntryLost and NoSessionLost

(***************************************************************************)
(* A connection belongs to the backup that made it, and carries nothing    *)
(* before it is made.                                                      *)
(***************************************************************************)
OwnSock ==
    /\ \A c \in Conns : c > made => ~up[c]
    /\ \A b \in Backups : sock[b] # NoConn =>
                             sock[b] <= made /\ owner[sock[b]] = b

\* The packet being sent has recipients: its one addressee, or nodes.
SendGoal ==
    /\ cur = NoPacket => to = {}
    /\ dest # NoConn => to \subseteq {dest}
    /\ connected_nodes # {} => is_running

(***************************************************************************)
(* What is still to send of a snapshot is what the master holds, unless a  *)
(* command has emptied the store meanwhile; the CLEAR requests of DropHttp *)
(* find it empty.                                                          *)
(***************************************************************************)
OutboxCurrent ==
    /\ \A p \in outbox : p.type = "XT_RECENT_SYNC" =>
          /\ p.action = "ADD_UPD_ENTRY"
          /\ recent.entries[p.row] \in {p.entry, NoEntry}
    /\ \/ http.sessions = EmptyHttp.sessions
       \/ \A p \in outbox : p.type = "HTTP_SYNC" =>
             p.action = "SESS_ADD" /\ http.sessions[p.slot] = p.backend

\* The SYNC_REQUEST of c has been sent.
Asked(c) ==
    \/ up[c] \/ c \in Queued("SYNC_REQUEST") \/ c \in served
    \/ mpc = "sync" /\ dest = c

\* The sessions are dropped (Resync) before they are asked for.
DropsFirst ==
    \A b \in Backups :
        bpc[b] = "redialed" /\ sock[b] # NoConn => ~Asked(sock[b])

(***************************************************************************)
(* The keys of the maps: a session is in a service of its listener, which  *)
(* holds one service (AddSession), of a farm that is stored.               *)
(***************************************************************************)
Keyed(h) ==
    /\ \A slot \in Slots : h.sessions[slot] # NoSession =>
          ServiceOf(slot) \in h.services /\ slot.farm \in h.farms
    /\ \A x, y \in h.services :
          x.farm = y.farm /\ x.listener = y.listener => x = y

StoresKeyed == Keyed(http) /\ \A b \in Backups : Keyed(bhttp[b])

\* From the answer to its SYNC_REQUEST on; handle_recent_sync comes first.
EntriesFollow ==
    \A b \in Backups, c \in Conns \ skipped :
        /\ Healthy(b, c) /\ recentRun # "off"
        /\ c \in served \/ (mpc = "sync" /\ dest = c)
        => RecentCovered(b, c)

MirrorInv ==
    /\ OwnSock /\ SendGoal /\ OutboxCurrent /\ DropsFirst /\ StoresKeyed
    /\ EntriesFollow /\ NoSessionLost

-----------------------------------------------------------------------------
\* The inductive invariant behind NoGhostSession, when nothing fails

\* No end is closed or reset and no broadcast fails.
NothingFails ==
    /\ \A c \in Conns : /\ toSrv[c] = "ok" /\ toCli[c] = "ok"
                        /\ srvEnd[c] # "closed" /\ cliEnd[c] # "closed"
    /\ rx.at # "closing" /\ stopping = "no" /\ skipped = {}

\* A backup dials once and runs from then on.
DialsOnce ==
    \A b \in Backups :
        /\ bpc[b] \in {"down", "dial", "dialed", "run", "request", "loop"}
        /\ bpc[b] \in {"down", "dial"} => sock[b] = NoConn
        /\ bpc[b] \notin {"down", "dial"} => sock[b] # NoConn /\ running[b]

\* The HTTP listener, once started, is not stopped.
StartsOnce ==
    /\ httpRun = "off" => http = EmptyHttp
    /\ mpc = "off" => httpRun = "off"
    /\ mpc = "http" => httpRun # "off"

\* A connection that is not accepted yet has carried nothing.
NothingSent ==
    /\ to \subseteq connected_nodes /\ dest \in connected_nodes \cup {NoConn}
    /\ \A c \in Conns \ connected_nodes : down[c] = <<>>
    /\ \A b \in Backups : sock[b] \notin connected_nodes =>
                             queue[b] = <<>> /\ bhttp[b] = EmptyHttp

(***************************************************************************)
(* The sessions still to send, which are sent to one connection, and the   *)
(* one being sent are those of the master.                                 *)
(***************************************************************************)
SendsCurrent ==
    /\ outbox # {} => dest # NoConn
    /\ \A p \in outbox : p.type = "HTTP_SYNC" =>
          p.action = "SESS_ADD" /\ http.sessions[p.slot] = p.backend
    /\ cur # NoPacket /\ cur.type = "HTTP_SYNC"
          /\ cur.action \in {"SESS_ADD", "SESS_UPDATE"}
          => http.sessions[cur.slot] = cur.backend

\* What is sent before the first node is counted adds no session.
AddsNothing ==
    /\ outbox = {} /\ mpc # "sync"
    /\ cur # NoPacket => cur.type = "HTTP_SYNC" /\ cur.action = "CLEAR_DATA"
    /\ \A b \in Backups : sock[b] # NoConn =>
          WillHold(b, sock[b]).http.sessions = EmptyHttp.sessions

\* No backup ends up with a session that the master does not hold.
NoneInvented ==
    \A b \in Backups : sock[b] # NoConn =>
        \A x \in Slots : WillHold(b, sock[b]).http.sessions[x]
                            \in {NoSession, http.sessions[x]}

CalmInv ==
    /\ NothingFails /\ DialsOnce /\ StartsOnce /\ NothingSent /\ SendsCurrent
    /\ backup_servers_fd > 0 \/ AddsNothing
    /\ NoneInvented

-----------------------------------------------------------------------------
\* What the repository's words say and the code does not do

(***************************************************************************)
(* "Master node disconected, reconecting ..." (sync_backup.cpp): when the  *)
(* master is back for good, a running backup is connected to it again.     *)
(***************************************************************************)
Reconnects ==
    \A b \in Backups :
        (<>[](mpc # "off") /\ <>[](bpc[b] # "down"))
            => <>[](sock[b] \in connected_nodes)

(***************************************************************************)
(* "<listener,<service_id, service_object>>" (base_sync.h): the services   *)
(* of a listener are kept side by side, so a session update of one service *)
(* leaves the sessions of the others alone.                                *)
(***************************************************************************)
ServicesApart ==
    [][\A p \in HttpInputs :
          httpIn # <<>> /\ Head(httpIn) = p /\ httpIn' = Tail(httpIn) =>
             \A slot \in Slots :
                ServiceOf(slot) # ServiceOf(p.slot)
                    => http'.sessions[slot] = http.sessions[slot]]_vars
=============================================================================
