---------------------------- MODULE Replication -----------------------------
(***************************************************************************)
(* The replication protocol: the worker thread of the master               *)
(* (src/src/sync/sync_master.cpp), the worker thread of every backup       *)
(* (src/src/sync/sync_backup.cpp), what they share (base_sync.cpp) and     *)
(* the commands that start and stop the listeners, over Connection.        *)
(*                                                                         *)
(* The master applies the updates its listeners queue to its own stores    *)
(* and broadcasts them.  A backup asks for everything once per connection  *)
(* (SYNC_REQUEST) and then applies what it receives.                       *)
(***************************************************************************)
EXTENDS Connection

CONSTANTS HttpInputs,    \* session updates Pound may send
          RecentInputs,  \* updates the xt_recent poller may queue
          FlagAtBirth,   \* what the uninitialised is_running flags may hold
          MaxItems,      \* updates taken in one pass (10 in the code)
          CtlOps,        \* operator commands that may be given
          Faults,        \* failures that may happen
          MaxFeed, MaxCtl, MaxFault   \* bounds: how many of each

Flags == {"off", "on", "garbage"}

ASSUME ReplicationAssumption ==
    /\ HttpInputs \subseteq HttpPackets
    /\ \A p \in HttpInputs : p.action \in SessionActions
    /\ RecentInputs \subseteq RecentPackets
    /\ FlagAtBirth \subseteq {"off", "garbage"} /\ FlagAtBirth # {}
    /\ MaxItems \in Nat \ {0}
    /\ MaxFeed \in Nat /\ MaxCtl \in Nat /\ MaxFault \in Nat

VARIABLES
    \* the master
    mpc, wait, items, backup_servers_fd, http, recent, httpIn, recentIn,
    httpRun, recentRun, stopping,
    \* the backups
    bpc, bhttp, brecent,
    \* what is left of each bound
    left,
    \* history: connections whose SYNC_REQUEST has been answered
    served

workerVars == <<mpc, wait, items, backup_servers_fd>>
inputVars  == <<httpIn, recentIn>>
flagVars   == <<httpRun, recentRun, stopping>>
storeVars  == <<http, recent>>
masterVars == <<workerVars, inputVars, flagVars, storeVars>>
backupVars == <<bpc, bhttp, brecent>>
vars == <<connVars, masterVars, backupVars, left, served>>

FarmEvents == [type: {"CONNECT", "DISCONNECT"}, farm: Farms]

Budgets == {"feed", "ctl", "fault"}

ReplTypeOK ==
    /\ mpc \in {"off", "top", "gate", "sync", "http", "check", "recent", "ended"}
    /\ wait \in BOOLEAN
    /\ items \in 0..MaxItems
    /\ backup_servers_fd \in Int
    /\ http \in HttpStore
    /\ recent \in RecentStore
    /\ httpIn \in Seq(HttpPackets \cup FarmEvents)
    /\ recentIn \in Seq(RecentPackets)
    /\ httpRun \in Flags
    /\ recentRun \in Flags
    /\ stopping \in {"no", "http", "recent", "conn"}
    /\ bpc \in [Backups -> {"down", "dial", "dialed", "run", "request", "loop",
                            "redial", "redialed", "recheck", "ended"}]
    /\ bhttp \in [Backups -> HttpStore]
    /\ brecent \in [Backups -> RecentStore]
    /\ left \in [Budgets -> Nat]
    /\ served \in SUBSET Conns

\* handle_recent_sync and handle_http_sync answer one connection.
SyncDest == mpc = "sync" => dest \in Conns

TypeOK == ConnTypeOK /\ ReplTypeOK /\ SyncDest

Init ==
    /\ ConnInit
    /\ mpc = "off" /\ wait = TRUE /\ items = 0 /\ backup_servers_fd = 0
    /\ http = EmptyHttp /\ recent = EmptyRecent
    /\ httpIn = <<>> /\ recentIn = <<>>
    /\ httpRun = "off" /\ recentRun = "off" /\ stopping = "no"
    /\ bpc = [b \in Backups |-> "down"]
    /\ bhttp = [b \in Backups |-> EmptyHttp]
    /\ brecent = [b \in Backups |-> EmptyRecent]
    /\ left = [feed |-> MaxFeed, ctl |-> MaxCtl, fault |-> MaxFault]
    /\ served = {}

Spend(kind) == left[kind] > 0 /\ left' = [left EXCEPT ![kind] = @ - 1]

-----------------------------------------------------------------------------
\* The worker of the master: sync_master::run

Worker(at) == mpc = at /\ ~Sending

\* Faulty forms, for the mutants: CONNECT not counted or counted once only,
\* DISCONNECT not counted, a snapshot sent to nobody in particular
NotCounted(n) == n
CountedOnce(n) == 1
ReplyToAll(req) == NoConn

CountConnect(n) == n + 1
CountDisconnect(n) == n - 1
ReplyTo(req) == req.fd

(***************************************************************************)
(* while (is_running): first, one packet from the backups.  Its receive    *)
(* queue is read without waiting.                                          *)
(***************************************************************************)
HandleRequest ==
    /\ Worker("top") /\ stopping = "no" /\ input_packet_queue # <<>>
    /\ input_packet_queue' = Tail(input_packet_queue)
    /\ LET req == Head(input_packet_queue) IN
       \/ /\ req.type = "CONNECT"
          /\ backup_servers_fd' = CountConnect(backup_servers_fd)
          /\ UNCHANGED <<mpc, outbox, dest>>
       \/ /\ req.type = "DISCONNECT"
          /\ backup_servers_fd' = CountDisconnect(backup_servers_fd)
          /\ UNCHANGED <<mpc, outbox, dest>>
       \/ /\ req.type = "SYNC_REQUEST"
          /\ outbox' = IF recentRun = "off" THEN {} ELSE RecentSnapshot(recent)
          /\ dest' = ReplyTo(req)
          /\ mpc' = "sync"
          /\ UNCHANGED backup_servers_fd
    /\ UNCHANGED <<netVars, is_running, listenEvent, rx, connected_nodes, cur,
                   to, skipped, clientVars, wait, items, inputVars, flagVars,
                   storeVars, backupVars, left, served>>

\* handle_http_sync, once handle_recent_sync has returned
HandleHttpSync ==
    /\ Worker("sync")
    /\ outbox' = IF httpRun = "off" THEN {} ELSE HttpSnapshot(http)
    /\ served' = served \cup {dest}
    /\ mpc' = "top"
    /\ UNCHANGED <<netVars, serverVars, dest, cur, to, skipped, clientVars,
                   wait, items, backup_servers_fd, inputVars, flagVars,
                   storeVars, backupVars, left>>

NoRequest ==
    /\ Worker("top") /\ stopping = "no" /\ input_packet_queue = <<>>
    /\ mpc' = "gate"
    /\ UNCHANGED <<connVars, wait, items, backup_servers_fd, inputVars,
                   flagVars, storeVars, backupVars, left, served>>

WorkerEnds ==
    /\ Worker("top") /\ stopping # "no"
    /\ mpc' = "ended"
    /\ UNCHANGED <<connVars, wait, items, backup_servers_fd, inputVars,
                   flagVars, storeVars, backupVars, left, served>>

Idling == wait \/ (recentRun = "off" /\ httpRun = "off")

Sleep ==
    /\ Worker("gate") /\ Idling
    /\ wait' = FALSE
    /\ mpc' = "top"
    /\ UNCHANGED <<connVars, items, backup_servers_fd, inputVars, flagVars,
                   storeVars, backupVars, left, served>>

\* The HTTP listener is off and sessions are left: every farm is cleared.
DropHttp ==
    /\ Worker("gate") /\ ~Idling /\ httpRun = "off" /\ http.farms # {}
    /\ outbox' = {ClearRequest(f) : f \in http.farms}
    /\ dest' = NoConn
    /\ http' = EmptyHttp
    /\ wait' = TRUE
    /\ mpc' = "check"
    /\ UNCHANGED <<netVars, serverVars, cur, to, skipped, clientVars, items,
                   backup_servers_fd, inputVars, flagVars, recent, backupVars,
                   left, served>>

EnterHttp ==
    /\ Worker("gate") /\ ~Idling
    /\ \/ /\ httpRun # "off"
          /\ mpc' = "http"
          /\ items' = 0
          /\ UNCHANGED wait
       \/ /\ httpRun = "off" /\ http.farms = {}
          /\ mpc' = "check"
          /\ wait' = TRUE
          /\ UNCHANGED items
    /\ UNCHANGED <<connVars, backup_servers_fd, inputVars, flagVars, storeVars,
                   backupVars, left, served>>

\* Faulty forms: the sessions are cleared on one side only
ClearNobody(f) == UNCHANGED <<dest, cur, to>>
KeepFarmData(h, f) == h

SendClear(f) == Send(ClearRequest(f), NoConn)
clear_http_farm_data(h, f) == IF f \in h.farms THEN ClearFarm(h, f) ELSE h

(***************************************************************************)
(* A farm came or went: its sessions are cleared on every backup and here. *)
(* The worker itself is the only reader of the store while it sends, so    *)
(* nobody sees which of the two comes first (likewise in DropHttp).        *)
(***************************************************************************)
FarmEvent ==
    /\ Worker("http") /\ items # MaxItems /\ httpIn # <<>>
    /\ Head(httpIn).type # "HTTP_SYNC"
    /\ httpIn' = Tail(httpIn)
    /\ LET f == Head(httpIn).farm IN
       /\ SendClear(f)
       /\ http' = clear_http_farm_data(http, f)
    /\ UNCHANGED <<netVars, serverVars, outbox, skipped, clientVars,
                   workerVars, recentIn, flagVars, recent, backupVars, left,
                   served>>

SendUpdate(p) == IF backup_servers_fd > 0 THEN Send(p, NoConn)
                 ELSE UNCHANGED <<dest, cur, to>>

HttpUpdate ==
    /\ Worker("http") /\ items # MaxItems /\ httpIn # <<>>
    /\ Head(httpIn).type = "HTTP_SYNC"
    /\ httpIn' = Tail(httpIn)
    /\ items' = items + 1
    /\ http' = apply_http_action(http, Head(httpIn))
    /\ SendUpdate(Head(httpIn))
    /\ UNCHANGED <<netVars, serverVars, outbox, skipped, clientVars, mpc, wait,
                   backup_servers_fd, recentIn, flagVars, recent, backupVars,
                   left, served>>

HttpDone ==
    /\ Worker("http") /\ (items = MaxItems \/ httpIn = <<>>)
    /\ wait' = (items # MaxItems)
    /\ mpc' = "check"
    /\ UNCHANGED <<connVars, items, backup_servers_fd, inputVars, flagVars,
                   storeVars, backupVars, left, served>>

EnterRecent ==
    /\ Worker("check")
    /\ \/ recentRun = "off" /\ mpc' = "top" /\ items' = items
       \/ recentRun # "off" /\ mpc' = "recent" /\ items' = 0
    /\ UNCHANGED <<connVars, wait, backup_servers_fd, inputVars, flagVars,
                   storeVars, backupVars, left, served>>

RecentUpdate ==
    /\ Worker("recent") /\ items # MaxItems /\ recentIn # <<>>
    /\ recentIn' = Tail(recentIn)
    /\ items' = items + 1
    /\ recent' = apply_recent_action(recent, Head(recentIn))
    /\ SendUpdate(Head(recentIn))
    /\ UNCHANGED <<netVars, serverVars, outbox, skipped, clientVars, mpc, wait,
                   backup_servers_fd, httpIn, flagVars, http, backupVars, left,
                   served>>

RecentDone ==
    /\ Worker("recent") /\ (items = MaxItems \/ recentIn = <<>>)
    /\ wait' = (items # MaxItems /\ wait)
    /\ mpc' = "top"
    /\ UNCHANGED <<connVars, items, backup_servers_fd, inputVars, flagVars,
                   storeVars, backupVars, left, served>>

\* The worker inside send_packet; only handle_recent_sync heeds a failure.
Deliver ==
    /\ \/ SendNext /\ UNCHANGED <<netVars, serverVars, clientVars>>
       \/ \E c \in to : HandleSend(c) \/ HandleSendError(c, mpc = "sync")
    /\ UNCHANGED <<masterVars, backupVars, left, served>>

MasterWorker ==
    \/ HandleRequest \/ HandleHttpSync \/ NoRequest \/ WorkerEnds
    \/ Sleep \/ DropHttp \/ EnterHttp \/ FarmEvent \/ HttpUpdate \/ HttpDone
    \/ EnterRecent \/ RecentUpdate \/ RecentDone
    \/ Deliver

MasterReceive == ServerReceive /\ UNCHANGED <<masterVars, backupVars, left, served>>

-----------------------------------------------------------------------------
\* The listeners of the master and the commands that control them

PoundSends(p) ==
    /\ httpRun = "on" /\ Spend("feed")
    /\ httpIn' = Append(httpIn, p)
    /\ UNCHANGED <<connVars, workerVars, recentIn, flagVars, storeVars,
                   backupVars, served>>

PollerQueues(p) ==
    /\ recentRun = "on" /\ Spend("feed")
    /\ recentIn' = Append(recentIn, p)
    /\ UNCHANGED <<connVars, workerVars, httpIn, flagVars, storeVars,
                   backupVars, served>>

Command(op) == op \in CtlOps /\ mpc # "off" /\ stopping = "no" /\ Spend("ctl")

(***************************************************************************)
(* START_HTTP_SYNC: unless the flag says that the listener runs, the       *)
(* sessions are dropped (no backup hears of it) and it is started; then    *)
(* the farm is added, if Pound answers.                                    *)
(***************************************************************************)
StartHttp(f) ==
    /\ Command("start_http")
    /\ IF httpRun = "off" THEN httpRun' = "on" /\ http' = EmptyHttp
                          ELSE UNCHANGED <<httpRun, http>>
    /\ \/ httpIn' = Append(httpIn, [type |-> "CONNECT", farm |-> f])
       \/ httpIn' = httpIn
    /\ UNCHANGED <<connVars, workerVars, recentIn, recentRun, stopping, recent,
                   backupVars, served>>

\* STOP_HTTP_SYNC of a farm, or Pound closing the socket of the farm
FarmGone(f) ==
    /\ Command("farm_gone") /\ httpRun # "off"
    /\ httpIn' = Append(httpIn, [type |-> "DISCONNECT", farm |-> f])
    /\ UNCHANGED <<connVars, workerVars, recentIn, flagVars, storeVars,
                   backupVars, served>>

ClearHttp ==
    /\ Command("clear_http")
    /\ http' = EmptyHttp
    /\ UNCHANGED <<connVars, workerVars, inputVars, flagVars, recent,
                   backupVars, served>>

\* Faulty form: start_recent_sync keeps what it held
KeepRecent(r) == r

RecentAtStart(r) == EmptyRecent

StartRecent ==
    /\ Command("start_recent") /\ recentRun = "off"
    /\ recentRun' = "on"
    /\ recent' = RecentAtStart(recent)
    /\ UNCHANGED <<connVars, workerVars, inputVars, httpRun, stopping, http,
                   backupVars, served>>

StopRecent ==
    /\ Command("stop_recent") /\ recentRun # "off"
    /\ recentRun' = "off"
    /\ UNCHANGED <<connVars, workerVars, inputVars, httpRun, stopping,
                   storeVars, backupVars, served>>

ListenersAndCommands ==
    \/ \E p \in HttpInputs : PoundSends(p)
    \/ \E p \in RecentInputs : PollerQueues(p)
    \/ \E f \in Farms : StartHttp(f) \/ FarmGone(f)
    \/ ClearHttp \/ StartRecent \/ StopRecent

-----------------------------------------------------------------------------
\* The life of the master process

(***************************************************************************)
(* set_worker_mode(MASTER) and start(): a new sync_master.  is_running of  *)
(* its two listeners is never initialised.                                 *)
(***************************************************************************)
MasterStart ==
    /\ mpc = "off"
    /\ StartServer
    /\ mpc' = "top" /\ wait' = TRUE /\ items' = 0 /\ backup_servers_fd' = 0
    /\ http' = EmptyHttp /\ recent' = EmptyRecent
    /\ httpIn' = <<>> /\ recentIn' = <<>>
    /\ httpRun' \in FlagAtBirth /\ recentRun' \in FlagAtBirth
    /\ stopping' = "no"
    /\ UNCHANGED <<backupVars, left, served>>

MasterGone ==
    /\ CloseServer
    /\ mpc' = "off" /\ wait' = TRUE /\ items' = 0 /\ backup_servers_fd' = 0
    /\ http' = EmptyHttp /\ recent' = EmptyRecent
    /\ httpIn' = <<>> /\ recentIn' = <<>>
    /\ httpRun' = "off" /\ recentRun' = "off" /\ stopping' = "no"
    /\ UNCHANGED <<backupVars, served>>

MasterCrash == "master" \in Faults /\ mpc # "off" /\ Spend("fault") /\ MasterGone

(***************************************************************************)
(* QUIT: base_sync::stop, one statement after the other, while the worker  *)
(* goes on; then the process exits.                                        *)
(***************************************************************************)
Quit ==
    /\ "quit" \in Faults /\ mpc # "off" /\ stopping = "no" /\ Spend("fault")
    /\ stopping' = "http"
    /\ UNCHANGED <<connVars, workerVars, inputVars, httpRun, recentRun,
                   storeVars, backupVars, served>>

StopListeners ==
    /\ \/ /\ stopping = "http"
          /\ httpRun' = "off"
          /\ stopping' = "recent"
          /\ UNCHANGED recentRun
       \/ /\ stopping = "recent"
          /\ recentRun' = "off"
          /\ stopping' = "conn"
          /\ UNCHANGED httpRun
    /\ UNCHANGED <<connVars, workerVars, inputVars, storeVars, backupVars, left,
                   served>>

Exit == stopping = "conn" /\ MasterGone /\ UNCHANGED left

-----------------------------------------------------------------------------
\* A backup: base_sync::run_task and sync_backup::run

Goto(b, at) == bpc' = [bpc EXCEPT ![b] = at]

BackupStart(b) ==
    /\ bpc[b] = "down"
    /\ Goto(b, "dial")
    /\ UNCHANGED <<connVars, masterVars, bhttp, brecent, left, served>>

\* conn->start(), then a sleep; a refused connection is tried again.
Dial(b) ==
    /\ \/ bpc[b] = "dial" /\ Goto(b, "dialed")
       \/ bpc[b] = "redial" /\ Goto(b, "redialed")
    /\ Connect(b)
    /\ UNCHANGED <<masterVars, bhttp, brecent, left, served>>

\* while (!conn->is_running) of run_task
Dialed(b) ==
    /\ bpc[b] = "dialed"
    /\ Goto(b, IF running[b] THEN "run" ELSE "dial")
    /\ UNCHANGED <<connVars, masterVars, bhttp, brecent, left, served>>

\* The first test of run(): a connection lost since run_task saw it is fatal.
EnterRun(b) ==
    /\ bpc[b] = "run" /\ running[b]
    /\ Goto(b, "request")
    /\ UNCHANGED <<connVars, masterVars, bhttp, brecent, left, served>>

Gone(b) ==
    /\ CloseClient(b)
    /\ Goto(b, "down")
    /\ bhttp' = [bhttp EXCEPT ![b] = EmptyHttp]
    /\ brecent' = [brecent EXCEPT ![b] = EmptyRecent]
    /\ UNCHANGED <<masterVars, served>>

ExitFailure(b) == bpc[b] = "run" /\ ~running[b] /\ Gone(b) /\ UNCHANGED left

\* The first SYNC_REQUEST; when it cannot be sent the worker thread returns.
FirstRequest(b) ==
    /\ bpc[b] = "request"
    /\ \/ SendRequest(b) /\ Goto(b, "loop")
       \/ SendRequestError(b) /\ Goto(b, "ended")
    /\ UNCHANGED <<made, owner, srvEnd, cliEnd, down, toSrv, serverVars,
                   sendVars, clientVars, masterVars, bhttp, brecent, left,
                   served>>

\* One packet of the queue; DISCONNECT matters only when not reconnected.
HandlePacket(b) ==
    /\ bpc[b] = "loop" /\ queue[b] # <<>>
    /\ queue' = [queue EXCEPT ![b] = Tail(@)]
    /\ LET pkt == Head(queue[b]) IN
       \/ /\ pkt.type = "DISCONNECT"
          /\ Goto(b, IF running[b] THEN "loop" ELSE "redial")
          /\ UNCHANGED <<bhttp, brecent>>
       \/ /\ pkt.type = "XT_RECENT_SYNC"
          /\ brecent' = [brecent EXCEPT ![b] = apply_recent_action(@, pkt)]
          /\ UNCHANGED <<bpc, bhttp>>
       \/ /\ pkt.type = "HTTP_SYNC"
          /\ bhttp' = [bhttp EXCEPT ![b] = apply_http_action(@, pkt)]
          /\ UNCHANGED <<bpc, brecent>>
    /\ UNCHANGED <<netVars, serverVars, sendVars, running, sock, masterVars,
                   left, served>>

(***************************************************************************)
(* After reconnecting: the HTTP sessions are dropped (the recent tables    *)
(* are kept) and everything is asked for again.  Whether the request could *)
(* be sent is not looked at.                                               *)
(***************************************************************************)
Resync(b) ==
    /\ bpc[b] = "redialed" /\ running[b]
    /\ bhttp' = [bhttp EXCEPT ![b] = EmptyHttp]
    /\ SendRequest(b) \/ SendRequestError(b)
    /\ Goto(b, "recheck")
    /\ UNCHANGED <<made, owner, srvEnd, cliEnd, down, toSrv, serverVars,
                   sendVars, clientVars, masterVars, brecent, left, served>>

\* while (!conn->is_running) of the reconnection loop
Recheck(b) ==
    /\ \/ bpc[b] = "recheck" /\ Goto(b, IF running[b] THEN "loop" ELSE "redial")
       \/ bpc[b] = "redialed" /\ ~running[b] /\ Goto(b, "redial")
    /\ UNCHANGED <<connVars, masterVars, bhttp, brecent, left, served>>

BackupWorker(b) ==
    \/ Dial(b) \/ Dialed(b) \/ EnterRun(b) \/ ExitFailure(b)
    \/ FirstRequest(b) \/ HandlePacket(b) \/ Resync(b) \/ Recheck(b)

BackupReceive(b) ==
    ClientReceive(b) /\ UNCHANGED <<masterVars, backupVars, left, served>>

BackupCrash(b) ==
    /\ "backup" \in Faults /\ bpc[b] # "down" /\ Spend("fault")
    /\ Gone(b)

-----------------------------------------------------------------------------
Network(c) ==
    /\ \/ ResetSender(c) /\ UNCHANGED left
       \/ "reset" \in Faults /\ Spend("fault") /\ ResetBoth(c)
    /\ UNCHANGED <<masterVars, backupVars, served>>

Next ==
    \/ MasterWorker \/ MasterReceive \/ ListenersAndCommands
    \/ MasterStart \/ MasterCrash \/ Quit \/ StopListeners \/ Exit
    \/ \E b \in Backups : \/ BackupStart(b) \/ BackupWorker(b)
                         \/ BackupReceive(b) \/ BackupCrash(b)
    \/ \E c \in Conns : Network(c)

(***************************************************************************)
(* Every thread of a live process is scheduled; nothing obliges Pound, the *)
(* kernel tables, the operator (who starts the processes) or the network   *)
(* to do anything.                                                         *)
(***************************************************************************)
Fairness ==
    /\ WF_vars(MasterWorker)
    /\ WF_vars(MasterReceive)
    /\ WF_vars(StopListeners \/ Exit)
    /\ \A b \in Backups : WF_vars(BackupWorker(b)) /\ WF_vars(BackupReceive(b))

Spec == Init /\ [][Next]_vars
FairSpec == Spec /\ Fairness

-----------------------------------------------------------------------------
\* Safety

Queued(t) == {c \in Conns : \E i \in DOMAIN input_packet_queue :
                               input_packet_queue[i] = Request(t, c)}

\* The nodes whose CONNECT has been counted and whose DISCONNECT has not.
Counted ==
    ((connected_nodes \ {rx.conn}) \cup Queued("DISCONNECT")) \ Queued("CONNECT")

(***************************************************************************)
(* backup_servers_fd, which decides whether an update is sent at all, is   *)
(* kept by the worker from the CONNECT and DISCONNECT packets, while the   *)
(* receive thread keeps connected_nodes.  It is exactly the number of the  *)
(* nodes that are counted in, so it never drifts and is never negative.    *)
(***************************************************************************)
ServerCount == backup_servers_fd = Cardinality(Counted)

(***************************************************************************)
(* A node that has been sent everything is not forgotten: as long as it is *)
(* connected the counter is positive, so the next update is broadcast.     *)
(***************************************************************************)
ServedCounted ==
    \A c \in served \cap connected_nodes : c # rx.conn => backup_servers_fd > 0

-----------------------------------------------------------------------------
\* The inductive invariant behind ServerCount and ServedCounted

\* The receive thread has accepted c and has queued its CONNECT.
Announced(c) ==
    srvEnd[c] \in {"open", "closed"} /\ ~(rx.at = "accepted" /\ rx.conn = c)

NodesOpen ==
    /\ connected_nodes = {c \in Conns : srvEnd[c] = "open"}
    /\ \A c \in Conns : c > made => srvEnd[c] = "none"
    /\ rx # Polling => rx.conn \in connected_nodes
    /\ mpc = "off" => /\ ~is_running /\ connected_nodes = {}
                      /\ input_packet_queue = <<>>

\* CONNECT is the first packet of its node and DISCONNECT comes once.
MayFollow(r, s) ==
    r.fd = s.fd => /\ s.type # "CONNECT"
                   /\ ~(r.type = "DISCONNECT" /\ s.type = "DISCONNECT")

InOrder(q) == \A i, j \in DOMAIN q : i < j => MayFollow(q[i], q[j])

QueueOrdered ==
    LET q == input_packet_queue IN
    /\ InOrder(q)
    /\ \A i \in DOMAIN q :
          /\ Announced(q[i].fd)
          /\ q[i].type = "DISCONNECT" =>
                \/ srvEnd[q[i].fd] = "closed"
                \/ rx.at = "closing" /\ rx.conn = q[i].fd
    /\ Queued("CONNECT") \subseteq
          (connected_nodes \ {rx.conn}) \cup Queued("DISCONNECT")

ServedAnnounced ==
    /\ \A c \in served : Announced(c) /\ c \notin Queued("CONNECT")
    /\ mpc = "sync" => Announced(dest) /\ dest \notin Queued("CONNECT")

CountInv == NodesOpen /\ QueueOrdered /\ ServedAnnounced /\ ServerCount
=============================================================================
