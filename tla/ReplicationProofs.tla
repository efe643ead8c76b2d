------------------------- MODULE ReplicationProofs --------------------------
(***************************************************************************)
(* Theorems about Replication, for every value of its constants.           *)
(***************************************************************************)
EXTENDS Replication, FiniteSetTheorems, TLAPS

-----------------------------------------------------------------------------
\* The stores: every operator of SessionStore yields what its name says

(***************************************************************************)
(* The low byte of a listener, service or backend number is one itself.    *)
(***************************************************************************)
LEMMA LowByteType ==
    /\ \A n \in Listeners : LowByte(n) \in Listeners
    /\ \A n \in Services : LowByte(n) \in Services
    /\ \A n \in Backends : LowByte(n) \in Backends
BY StoreAssumption

LEMMA OnWireType == \A p \in Packets : OnWire(p) \in Packets
<1> SUFFICES ASSUME NEW p \in Packets PROVE OnWire(p) \in Packets
    OBVIOUS
<1>1. CASE p.type = "XT_RECENT_SYNC" \/ p.action = "CLEAR_DATA"
    BY <1>1 DEF OnWire
<1>2. CASE ~(p.type = "XT_RECENT_SYNC" \/ p.action = "CLEAR_DATA")
  <2>1. p \in [type: {"HTTP_SYNC"}, action: SessionActions, slot: Slots,
               backend: Backends]
    BY <1>2 DEF Packets, HttpPackets, RecentPackets
  <2>2. p.slot \in Slots
    BY <2>1
  <2> DEFINE s == [farm     |-> p.slot.farm,
                   listener |-> LowByte(p.slot.listener),
                   service  |-> LowByte(p.slot.service),
                   key      |-> p.slot.key]
  <2>3. s \in Slots
    BY <2>2, LowByteType DEF Slots
  <2>4. LowByte(p.backend) \in Backends
    BY <2>1, LowByteType
  <2> HIDE DEF s
  <2>5. [p EXCEPT !.slot = s, !.backend = LowByte(p.backend)]
            \in [type: {"HTTP_SYNC"}, action: SessionActions, slot: Slots,
                 backend: Backends]
    BY <2>1, <2>3, <2>4
  <2>6. OnWire(p) = [p EXCEPT !.slot = s, !.backend = LowByte(p.backend)]
    BY <1>2 DEF OnWire, s
  <2> QED
    BY <2>5, <2>6 DEF Packets, HttpPackets
<1> QED
    BY <1>1, <1>2

LEMMA ServiceOfType == \A x \in Slots : ServiceOf(x) \in ServiceIds
BY DEF Slots, ServiceIds, ServiceOf

LEMMA EmptyTypes == EmptyHttp \in HttpStore /\ EmptyRecent \in RecentStore
BY DEF EmptyHttp, HttpStore, EmptyRecent, RecentStore

LEMMA AddSessionType ==
    ASSUME NEW h \in HttpStore, NEW x \in Slots, NEW k \in Backends
    PROVE  AddSession(h, x, k) \in HttpStore
<1>1. ServiceOf(x) \in ServiceIds
    BY ServiceOfType
<1>2. x.farm \in Farms
    BY DEF Slots
<1> QED
    BY <1>1, <1>2 DEF AddSession, HttpStore

LEMMA DeleteSessionType ==
    ASSUME NEW h \in HttpStore, NEW x \in Slots
    PROVE  DeleteSession(h, x) \in HttpStore
<1>1. x.farm \in Farms
    BY DEF Slots
<1> QED
    BY <1>1 DEF DeleteSession, HttpStore

LEMMA ClearFarmType ==
    ASSUME NEW h \in HttpStore, NEW f
    PROVE  ClearFarm(h, f) \in HttpStore
BY DEF ClearFarm, HttpStore

(***************************************************************************)
(* Applying any HTTP packet to an HTTP store yields an HTTP store.         *)
(***************************************************************************)
LEMMA ApplyHttpType ==
    ASSUME NEW h \in HttpStore, NEW p \in HttpPackets
    PROVE  apply_http_action(h, p) \in HttpStore
<1>1. CASE p \in [type: {"HTTP_SYNC"}, action: {"CLEAR_DATA"}, farm: Farms]
  <2>1. [h EXCEPT !.farms = @ \cup {p.farm}] \in HttpStore
    BY <1>1 DEF HttpStore
  <2>2. apply_http_action(h, p)
            = ClearFarm([h EXCEPT !.farms = @ \cup {p.farm}], p.farm)
    BY <1>1 DEF apply_http_action
  <2> QED
    BY <2>1, <2>2, ClearFarmType
<1>2. CASE p \in [type: {"HTTP_SYNC"}, action: SessionActions, slot: Slots,
                  backend: Backends]
  <2>1. p.slot \in Slots /\ p.backend \in Backends /\ p.action \in SessionActions
    BY <1>2
  <2>2. CASE p.action \in {"SESS_ADD", "SESS_UPDATE"}
    <3>1. apply_http_action(h, p) = AddSession(h, p.slot, p.backend)
      BY <2>2 DEF apply_http_action
    <3> QED
      BY <2>1, <3>1, AddSessionType
  <2>3. CASE p.action = "SESS_DELETE"
    <3>1. apply_http_action(h, p) = DeleteSession(h, p.slot)
      BY <2>3 DEF apply_http_action
    <3> QED
      BY <2>1, <3>1, DeleteSessionType
  <2> QED
    BY <2>1, <2>2, <2>3 DEF SessionActions
<1> QED
    BY <1>1, <1>2 DEF HttpPackets

(***************************************************************************)
(* Applying any recent packet to a recent store yields a recent store.     *)
(***************************************************************************)
LEMMA ApplyRecentType ==
    ASSUME NEW r \in RecentStore, NEW p \in RecentPackets
    PROVE  apply_recent_action(r, p) \in RecentStore
<1>1. p.row \in Rows /\ p.entry \in Entries /\ p.action \in RecentActions
    BY DEF RecentPackets
<1>2. p.row.table \in Tables
    BY <1>1 DEF Rows
<1>3. CASE p.action = "DELETE_TABLE"
    BY <1>3 DEF apply_recent_action
<1>4. CASE p.action = "DELETE_ENTRY"
    BY <1>1, <1>4 DEF apply_recent_action, RecentStore
<1>5. CASE p.action = "FLUSH_TABLE"
    BY <1>1, <1>2, <1>5 DEF apply_recent_action, RecentStore
<1>6. CASE p.action = "ADD_UPD_ENTRY"
    BY <1>1, <1>2, <1>6 DEF apply_recent_action, RecentStore
<1> QED
    BY <1>1, <1>3, <1>4, <1>5, <1>6 DEF RecentActions

(***************************************************************************)
(* Snapshots and clear requests are packets.                               *)
(***************************************************************************)
LEMMA SnapshotTypes ==
    /\ \A h : HttpSnapshot(h) \subseteq Packets
    /\ \A r : RecentSnapshot(r) \subseteq Packets
    /\ \A f \in Farms : ClearRequest(f) \in Packets
BY DEF HttpSnapshot, RecentSnapshot, ClearRequest, Packets, HttpPackets

-----------------------------------------------------------------------------
\* The types of all variables

USE DEF Conns, NoConn

(***************************************************************************)
(* Facts about sequences that the type proofs need.                        *)
(***************************************************************************)
LEMMA AppendType ==
    ASSUME NEW S, NEW q \in Seq(S), NEW x \in S
    PROVE  Append(q, x) \in Seq(S)
OBVIOUS

LEMMA HeadTailType ==
    ASSUME NEW S, NEW q \in Seq(S), q # <<>>
    PROVE  Head(q) \in S /\ Tail(q) \in Seq(S)
OBVIOUS

LEMMA EmptySeqType == ASSUME NEW S PROVE <<>> \in Seq(S)
OBVIOUS

(***************************************************************************)
(* What a step leaves alone keeps its type.                                *)
(***************************************************************************)
LEMMA ConnStutter == ConnTypeOK /\ UNCHANGED connVars => ConnTypeOK'
BY DEF ConnTypeOK, connVars, netVars, serverVars, sendVars, clientVars

LEMMA ReplStutter ==
    ReplTypeOK /\ UNCHANGED <<masterVars, backupVars, left, served>> => ReplTypeOK'
BY DEF ReplTypeOK, masterVars, workerVars, inputVars, flagVars, storeVars,
       backupVars

-----------------------------------------------------------------------------
\* The connection

LEMMA ServerReceiveType == ConnTypeOK /\ ServerReceive => ConnTypeOK'
<1> SUFFICES ASSUME ConnTypeOK, ServerReceive PROVE ConnTypeOK'
    OBVIOUS
<1> USE DEF ConnTypeOK, netVars, serverVars, sendVars, clientVars, Polling,
            Signals
<1>0. \A t \in {"CONNECT", "SYNC_REQUEST", "DISCONNECT"}, c \in Conns :
          Request(t, c) \in Requests
    BY DEF Request, Requests
<1>1. CASE AcceptNode
  <2>1. PICK c \in Conns :
            /\ srvEnd' = [srvEnd EXCEPT ![c] = "open"]
            /\ connected_nodes' = connected_nodes \cup {c}
            /\ rx' = [at |-> "accepted", conn |-> c]
            /\ to' = to \/ to' = to \cup {c}
    BY <1>1 DEF AcceptNode, Backlog
  <2> QED
    BY <1>1, <2>1 DEF AcceptNode
<1>2. CASE AnnounceNode
    BY <1>0, <1>2 DEF AnnounceNode
<1>3. ASSUME NEW c \in Conns, ReadRequest(c) PROVE ConnTypeOK'
    BY <1>0, <1>3 DEF ReadRequest
<1>4. ASSUME NEW c \in Conns, ReadEof(c) PROVE ConnTypeOK'
    BY <1>0, <1>4 DEF ReadEof
<1>5. ASSUME NEW c \in Conns, ReadError(c) PROVE ConnTypeOK'
    BY <1>5 DEF ReadError
<1>6. CASE EraseNode
    BY <1>6 DEF EraseNode
<1> QED
    BY <1>1, <1>2, <1>3, <1>4, <1>5, <1>6 DEF ServerReceive

LEMMA SendType ==
    ASSUME ConnTypeOK, NEW p \in Packets, NEW fd \in Conns \cup {NoConn},
           Send(p, fd)
    PROVE  /\ dest' \in Conns \cup {NoConn}
           /\ cur' \in Packets \cup {NoPacket}
           /\ to' \in SUBSET Conns
BY DEF Send, Recipients, ConnTypeOK

LEMMA DeliverType ==
    ASSUME ConnTypeOK,
           \/ SendNext /\ UNCHANGED <<netVars, serverVars, clientVars>>
           \/ \E c \in to : HandleSend(c) \/ HandleSendError(c, mpc = "sync")
    PROVE  ConnTypeOK'
<1> USE DEF ConnTypeOK, netVars, serverVars, sendVars, clientVars
<1>1. CASE SendNext /\ UNCHANGED <<netVars, serverVars, clientVars>>
  <2>1. PICK p \in outbox : outbox' = outbox \ {p} /\ Send(p, dest)
    BY <1>1 DEF SendNext
  <2>2. /\ dest' \in Conns \cup {NoConn}
        /\ cur' \in Packets \cup {NoPacket}
        /\ to' \in SUBSET Conns
    BY <2>1, SendType
  <2> QED
    BY <1>1, <2>1, <2>2 DEF SendNext
<1>2. ASSUME NEW c \in to, HandleSend(c) PROVE ConnTypeOK'
  <2>1. OnWire(cur) \in Packets
    BY <1>2, OnWireType DEF HandleSend
  <2>2. Append(down[c], OnWire(cur)) \in Seq(Packets)
    BY <2>1, AppendType
  <2>3. down' = [down EXCEPT ![c] = Append(down[c], OnWire(cur))]
    BY <1>2 DEF HandleSend
  <2>4. down' \in [Conns -> Seq(Packets)]
    BY <2>2, <2>3
  <2> QED
    BY <1>2, <2>4 DEF HandleSend
<1>3. ASSUME NEW c \in to, HandleSendError(c, mpc = "sync") PROVE ConnTypeOK'
    BY <1>3 DEF HandleSendError, Signals
<1> QED
    BY <1>1, <1>2, <1>3

LEMMA ClientTypes ==
    ASSUME ConnTypeOK, NEW b \in Backups,
           ClientReceive(b) \/ Connect(b) \/ CloseClient(b)
    PROVE  ConnTypeOK'
<1> USE DEF ConnTypeOK, netVars, serverVars, sendVars, clientVars, Signals
<1>1. CASE Connect(b)
    BY <1>1, ConnectionAssumption DEF Connect
<1>2. CASE ReadPacket(b)
  <2>1. sock[b] \in Conns /\ down[sock[b]] # <<>>
    BY <1>2 DEF ReadPacket
  <2>2. Head(down[sock[b]]) \in Packets /\ Tail(down[sock[b]]) \in Seq(Packets)
    BY <2>1, HeadTailType
  <2> QED
    BY <1>2, <2>1, <2>2 DEF ReadPacket
<1>3. CASE ReadEofClient(b)
    BY <1>3 DEF ReadEofClient
<1>4. CASE ReadErrorClient(b)
    BY <1>4 DEF ReadErrorClient
<1>5. CASE CloseClient(b)
    BY <1>5 DEF CloseClient
<1> QED
    BY <1>1, <1>2, <1>3, <1>4, <1>5 DEF ClientReceive

LEMMA RequestTypes ==
    ASSUME ConnTypeOK, NEW b \in Backups,
           SendRequest(b) \/ SendRequestError(b)
    PROVE  up' \in [Conns -> BOOLEAN] /\ toCli' \in [Conns -> Signals]
BY DEF SendRequest, SendRequestError, CanRequest, ConnTypeOK, Signals

LEMMA KernelTypes ==
    ASSUME ConnTypeOK,
           \/ CloseServer \/ StartServer
           \/ \E c \in Conns : ResetSender(c) \/ ResetBoth(c)
    PROVE  ConnTypeOK'
<1> USE DEF ConnTypeOK, netVars, serverVars, sendVars, clientVars, Signals,
            Polling
<1>1. CASE CloseServer
  <2>1. srvEnd' \in [Conns -> {"none", "backlog", "open", "closed"}]
    BY <1>1 DEF CloseServer
  <2>2. toCli' \in [Conns -> Signals]
    BY <1>1 DEF CloseServer
  <2>3. rx' = Polling /\ input_packet_queue' = <<>> /\ UNCHANGED queue
    BY <1>1 DEF CloseServer
  <2>4. input_packet_queue' \in Seq(Requests)
    BY <2>3, EmptySeqType
  <2>5. /\ UNCHANGED <<made, owner, cliEnd, down, up, toSrv, skipped, running,
                       sock>>
        /\ is_running' = FALSE /\ listenEvent' = FALSE
        /\ connected_nodes' = {} /\ outbox' = {} /\ cur' = NoPacket
        /\ to' = {} /\ dest' = NoConn
    BY <1>1 DEF CloseServer
  <2> QED
    BY <2>1, <2>2, <2>3, <2>4, <2>5
<1>2. CASE StartServer
    BY <1>2 DEF StartServer
<1>3. ASSUME NEW c \in Conns, ResetSender(c) PROVE ConnTypeOK'
  <2>1. CASE UNCHANGED <<toCli, up>>
    <3>1. toSrv' \in [Conns -> Signals]
      BY <1>3 DEF ResetSender
    <3>2. <<>> \in Seq(Packets)
      BY EmptySeqType
    <3>3. down' = [down EXCEPT ![c] = <<>>] \/ UNCHANGED down
      BY <1>3 DEF ResetSender
    <3>4. down' \in [Conns -> Seq(Packets)]
      BY <3>2, <3>3
    <3> QED
      BY <1>3, <2>1, <3>1, <3>4 DEF ResetSender
  <2>2. CASE UNCHANGED <<toSrv, down>>
    <3>1. toCli' \in [Conns -> Signals] /\ up' \in [Conns -> BOOLEAN]
      BY <1>3 DEF ResetSender
    <3> QED
      BY <1>3, <2>2, <3>1 DEF ResetSender
  <2> QED
    BY <1>3, <2>1, <2>2 DEF ResetSender
<1>4. ASSUME NEW c \in Conns, ResetBoth(c) PROVE ConnTypeOK'
    BY <1>4 DEF ResetBoth
<1> QED
    BY <1>1, <1>2, <1>3, <1>4

-----------------------------------------------------------------------------
\* The workers

LEMMA MasterWorkerType ==
    ASSUME TypeOK, MasterWorker PROVE ConnTypeOK' /\ ReplTypeOK'
<1>a. ConnTypeOK /\ ReplTypeOK /\ SyncDest
    BY DEF TypeOK
<1> USE <1>a
<1> USE DEF workerVars, inputVars, flagVars, storeVars, backupVars
<1>1. CASE HandleRequest
  <2>1. /\ Head(input_packet_queue) \in Requests
        /\ input_packet_queue' \in Seq(Requests)
    BY <1>1, HeadTailType DEF HandleRequest, ConnTypeOK
  <2>2. outbox' \in SUBSET Packets
    BY <1>1, SnapshotTypes DEF HandleRequest, ConnTypeOK
  <2>3. /\ backup_servers_fd' \in Int
        /\ dest' \in Conns \cup {NoConn}
        /\ mpc' \in {"top", "sync"}
    <3>1. Head(input_packet_queue).fd \in Conns
      BY <2>1 DEF Requests
    <3>2. /\ mpc = "top" /\ backup_servers_fd \in Int
          /\ dest \in Conns \cup {NoConn}
      BY <1>1 DEF HandleRequest, Worker, ConnTypeOK, ReplTypeOK
    <3> QED
      BY <1>1, <3>1, <3>2 DEF HandleRequest, CountConnect, CountDisconnect, ReplyTo
  <2>4. ConnTypeOK'
    BY <1>1, <2>1, <2>2, <2>3
    DEF HandleRequest, ConnTypeOK, netVars, clientVars
  <2>5. ReplTypeOK'
    BY <1>1, <2>3 DEF HandleRequest, ReplTypeOK
  <2> QED
    BY <2>4, <2>5
<1>2. CASE HandleHttpSync
  <2>1. outbox' \in SUBSET Packets
    BY <1>2, SnapshotTypes DEF HandleHttpSync
  <2>2. ConnTypeOK'
    BY <1>2, <2>1 DEF HandleHttpSync, ConnTypeOK, netVars, serverVars, clientVars
  <2>3. ReplTypeOK'
    BY <1>2 DEF HandleHttpSync, ReplTypeOK, SyncDest, Worker
  <2> QED
    BY <2>2, <2>3
<1>3. CASE NoRequest
    BY <1>3, ConnStutter DEF NoRequest, ReplTypeOK
<1>4. CASE WorkerEnds
    BY <1>4, ConnStutter DEF WorkerEnds, ReplTypeOK
<1>5. CASE Sleep
    BY <1>5, ConnStutter DEF Sleep, ReplTypeOK
<1>6. CASE DropHttp
  <2>1. outbox' \in SUBSET Packets
    BY <1>6, SnapshotTypes DEF DropHttp, ReplTypeOK, HttpStore
  <2>2. ConnTypeOK'
    BY <1>6, <2>1 DEF DropHttp, ConnTypeOK, netVars, serverVars, clientVars
  <2>3. ReplTypeOK'
    BY <1>6, EmptyTypes DEF DropHttp, ReplTypeOK
  <2> QED
    BY <2>2, <2>3
<1>7. CASE EnterHttp
  <2>1. items' \in 0..MaxItems
    BY <1>7, ReplicationAssumption DEF EnterHttp, ReplTypeOK
  <2> QED
    BY <1>7, <2>1, ConnStutter DEF EnterHttp, ReplTypeOK
<1>8. CASE FarmEvent
  <2> DEFINE ev == Head(httpIn)
  <2>1. /\ ev \in HttpPackets \cup FarmEvents
        /\ httpIn' \in Seq(HttpPackets \cup FarmEvents)
    BY <1>8, HeadTailType DEF FarmEvent, ReplTypeOK
  <2>2. ev.farm \in Farms
    BY <1>8, <2>1 DEF FarmEvent, FarmEvents, HttpPackets
  <2>3. ClearRequest(ev.farm) \in Packets
    BY <2>2, SnapshotTypes
  <2>4. /\ dest' \in Conns \cup {NoConn}
        /\ cur' \in Packets \cup {NoPacket}
        /\ to' \in SUBSET Conns
    BY <1>8, <2>3, SendType DEF FarmEvent, SendClear
  <2>5. ConnTypeOK'
    BY <1>8, <2>4 DEF FarmEvent, ConnTypeOK, netVars, serverVars, clientVars
  <2>6. http' \in HttpStore
    BY <1>8, <2>2, ClearFarmType DEF FarmEvent, clear_http_farm_data, ReplTypeOK
  <2>7. ReplTypeOK'
    BY <1>8, <2>1, <2>6 DEF FarmEvent, ReplTypeOK
  <2> QED
    BY <2>5, <2>7
<1>9. CASE HttpUpdate
  <2> DEFINE p == Head(httpIn)
  <2>1. /\ p \in HttpPackets \cup FarmEvents
        /\ httpIn' \in Seq(HttpPackets \cup FarmEvents)
    BY <1>9, HeadTailType DEF HttpUpdate, ReplTypeOK
  <2>2. p \in HttpPackets
    BY <1>9, <2>1 DEF HttpUpdate, FarmEvents
  <2>3. /\ dest' \in Conns \cup {NoConn}
        /\ cur' \in Packets \cup {NoPacket}
        /\ to' \in SUBSET Conns
    <3>1. CASE backup_servers_fd > 0
      BY <1>9, <2>2, <3>1, SendType DEF HttpUpdate, SendUpdate, Packets
    <3>2. CASE ~(backup_servers_fd > 0)
      BY <1>9, <3>2 DEF HttpUpdate, SendUpdate, ConnTypeOK
    <3> QED
      BY <3>1, <3>2
  <2>4. ConnTypeOK'
    BY <1>9, <2>3 DEF HttpUpdate, ConnTypeOK, netVars, serverVars, clientVars
  <2>5. http' \in HttpStore
    BY <1>9, <2>2, ApplyHttpType DEF HttpUpdate, ReplTypeOK
  <2>6. items' \in 0..MaxItems
    BY <1>9, ReplicationAssumption DEF HttpUpdate, ReplTypeOK
  <2>7. ReplTypeOK'
    BY <1>9, <2>1, <2>5, <2>6 DEF HttpUpdate, ReplTypeOK
  <2> QED
    BY <2>4, <2>7
<1>10. CASE HttpDone
    BY <1>10, ConnStutter DEF HttpDone, ReplTypeOK
<1>11. CASE EnterRecent
  <2>1. items' \in 0..MaxItems
    BY <1>11, ReplicationAssumption DEF EnterRecent, ReplTypeOK
  <2> QED
    BY <1>11, <2>1, ConnStutter DEF EnterRecent, ReplTypeOK
<1>12. CASE RecentUpdate
  <2> DEFINE p == Head(recentIn)
  <2>1. p \in RecentPackets /\ recentIn' \in Seq(RecentPackets)
    BY <1>12, HeadTailType DEF RecentUpdate, ReplTypeOK
  <2>2. /\ dest' \in Conns \cup {NoConn}
        /\ cur' \in Packets \cup {NoPacket}
        /\ to' \in SUBSET Conns
    <3>1. CASE backup_servers_fd > 0
      BY <1>12, <2>1, <3>1, SendType DEF RecentUpdate, SendUpdate, Packets
    <3>2. CASE ~(backup_servers_fd > 0)
      BY <1>12, <3>2 DEF RecentUpdate, SendUpdate, ConnTypeOK
    <3> QED
      BY <3>1, <3>2
  <2>3. ConnTypeOK'
    BY <1>12, <2>2 DEF RecentUpdate, ConnTypeOK, netVars, serverVars, clientVars
  <2>4. recent' \in RecentStore
    BY <1>12, <2>1, ApplyRecentType DEF RecentUpdate, ReplTypeOK
  <2>5. items' \in 0..MaxItems
    BY <1>12, ReplicationAssumption DEF RecentUpdate, ReplTypeOK
  <2>6. ReplTypeOK'
    BY <1>12, <2>1, <2>4, <2>5 DEF RecentUpdate, ReplTypeOK
  <2> QED
    BY <2>3, <2>6
<1>13. CASE RecentDone
    BY <1>13, ConnStutter DEF RecentDone, ReplTypeOK
<1>14. CASE Deliver
    BY <1>14, DeliverType, ReplStutter DEF Deliver
<1> QED
    BY <1>1, <1>2, <1>3, <1>4, <1>5, <1>6, <1>7, <1>8, <1>9, <1>10, <1>11,
       <1>12, <1>13, <1>14 DEF MasterWorker

LEMMA ControlTypes ==
    ASSUME TypeOK,
           \/ ListenersAndCommands \/ MasterStart \/ MasterCrash
           \/ Quit \/ StopListeners \/ Exit
    PROVE  ConnTypeOK' /\ ReplTypeOK'
<1>a. ConnTypeOK /\ ReplTypeOK
    BY DEF TypeOK
<1> USE <1>a
<1> USE DEF workerVars, inputVars, flagVars, storeVars, backupVars, Budgets,
            Flags
<1>0. \A kind \in Budgets : Spend(kind) => left' \in [Budgets -> Nat]
    BY DEF Spend, ReplTypeOK
<1>1. ASSUME NEW p \in HttpInputs, PoundSends(p) PROVE ConnTypeOK' /\ ReplTypeOK'
  <2>1. p \in HttpPackets \cup FarmEvents
    BY ReplicationAssumption
  <2>2. httpIn' \in Seq(HttpPackets \cup FarmEvents)
    BY <1>1, <2>1, AppendType DEF PoundSends, ReplTypeOK
  <2> QED
    BY <1>0, <1>1, <2>2, ConnStutter DEF PoundSends, ReplTypeOK
<1>2. ASSUME NEW p \in RecentInputs, PollerQueues(p)
      PROVE  ConnTypeOK' /\ ReplTypeOK'
  <2>1. p \in RecentPackets
    BY ReplicationAssumption
  <2>2. recentIn' \in Seq(RecentPackets)
    BY <1>2, <2>1, AppendType DEF PollerQueues, ReplTypeOK
  <2> QED
    BY <1>0, <1>2, <2>2, ConnStutter DEF PollerQueues, ReplTypeOK
<1>3. ASSUME NEW f \in Farms, StartHttp(f) PROVE ConnTypeOK' /\ ReplTypeOK'
  <2>1. [type |-> "CONNECT", farm |-> f] \in HttpPackets \cup FarmEvents
    BY DEF FarmEvents
  <2>a. httpIn \in Seq(HttpPackets \cup FarmEvents)
    BY DEF ReplTypeOK
  <2>b. Append(httpIn, [type |-> "CONNECT", farm |-> f])
            \in Seq(HttpPackets \cup FarmEvents)
    BY <2>1, <2>a, AppendType
  <2>2. httpIn' \in Seq(HttpPackets \cup FarmEvents)
    BY <1>3, <2>a, <2>b DEF StartHttp
  <2>3. http' \in HttpStore /\ httpRun' \in Flags
    BY <1>3, EmptyTypes DEF StartHttp, ReplTypeOK
  <2> QED
    BY <1>0, <1>3, <2>2, <2>3, ConnStutter DEF StartHttp, Command, ReplTypeOK
<1>4. ASSUME NEW f \in Farms, FarmGone(f) PROVE ConnTypeOK' /\ ReplTypeOK'
  <2>1. [type |-> "DISCONNECT", farm |-> f] \in HttpPackets \cup FarmEvents
    BY DEF FarmEvents
  <2>2. httpIn' \in Seq(HttpPackets \cup FarmEvents)
    BY <1>4, <2>1, AppendType DEF FarmGone, ReplTypeOK
  <2> QED
    BY <1>0, <1>4, <2>2, ConnStutter DEF FarmGone, Command, ReplTypeOK
<1>5. CASE ClearHttp
    BY <1>0, <1>5, EmptyTypes, ConnStutter DEF ClearHttp, Command, ReplTypeOK
<1>6. CASE StartRecent
    BY <1>0, <1>6, EmptyTypes, ConnStutter DEF StartRecent, RecentAtStart, Command,
        ReplTypeOK
<1>7. CASE StopRecent
    BY <1>0, <1>7, ConnStutter DEF StopRecent, Command, ReplTypeOK
<1>8. CASE MasterStart
  <2>1. ConnTypeOK'
    BY <1>8, KernelTypes DEF MasterStart
  <2>2. items' \in 0..MaxItems /\ backup_servers_fd' \in Int
    BY <1>8, ReplicationAssumption DEF MasterStart
  <2>3. httpIn' \in Seq(HttpPackets \cup FarmEvents) /\ recentIn' \in Seq(RecentPackets)
    BY <1>8, EmptySeqType DEF MasterStart
  <2>4. httpRun' \in Flags /\ recentRun' \in Flags
    BY <1>8, ReplicationAssumption DEF MasterStart
  <2> QED
    BY <1>8, <2>1, <2>2, <2>3, <2>4, EmptyTypes DEF MasterStart, ReplTypeOK
<1>9. ASSUME MasterGone, left' \in [Budgets -> Nat]
      PROVE  ConnTypeOK' /\ ReplTypeOK'
  <2>1. ConnTypeOK'
    BY <1>9, KernelTypes DEF MasterGone
  <2>2. items' \in 0..MaxItems /\ backup_servers_fd' \in Int
    BY <1>9, ReplicationAssumption DEF MasterGone
  <2>3. httpIn' \in Seq(HttpPackets \cup FarmEvents) /\ recentIn' \in Seq(RecentPackets)
    BY <1>9, EmptySeqType DEF MasterGone
  <2> QED
    BY <1>9, <2>1, <2>2, <2>3, EmptyTypes DEF MasterGone, ReplTypeOK
<1>10. CASE MasterCrash
    BY <1>0, <1>9, <1>10 DEF MasterCrash
<1>11. CASE Quit
    BY <1>0, <1>11, ConnStutter DEF Quit, ReplTypeOK
<1>12. CASE StopListeners
    BY <1>12, ConnStutter DEF StopListeners, ReplTypeOK
<1>13. CASE Exit
    BY <1>9, <1>13 DEF Exit, ReplTypeOK
<1> QED
    BY <1>1, <1>2, <1>3, <1>4, <1>5, <1>6, <1>7, <1>8, <1>10, <1>11, <1>12,
       <1>13 DEF ListenersAndCommands

LEMMA BackupTypes ==
    ASSUME TypeOK, NEW b \in Backups,
           BackupStart(b) \/ BackupWorker(b) \/ BackupReceive(b) \/ BackupCrash(b)
    PROVE  ConnTypeOK' /\ ReplTypeOK'
<1>a. ConnTypeOK /\ ReplTypeOK
    BY DEF TypeOK
<1> USE <1>a DEF masterVars, workerVars, inputVars, flagVars, storeVars,
            backupVars, Goto
<1>1. CASE BackupStart(b)
    BY <1>1, ConnStutter DEF BackupStart, ReplTypeOK
<1>2. CASE Dial(b)
  <2>1. ConnTypeOK'
    BY <1>2, ClientTypes DEF Dial
  <2> QED
    BY <1>2, <2>1 DEF Dial, ReplTypeOK
<1>3. CASE Dialed(b)
    BY <1>3, ConnStutter DEF Dialed, ReplTypeOK
<1>4. CASE EnterRun(b)
    BY <1>4, ConnStutter DEF EnterRun, ReplTypeOK
<1>5. ASSUME Gone(b), left' \in [Budgets -> Nat] PROVE ConnTypeOK' /\ ReplTypeOK'
  <2>1. ConnTypeOK'
    BY <1>5, ClientTypes DEF Gone
  <2> QED
    BY <1>5, <2>1, EmptyTypes DEF Gone, ReplTypeOK
<1>6. CASE ExitFailure(b)
    BY <1>5, <1>6 DEF ExitFailure, ReplTypeOK
<1>7. CASE FirstRequest(b)
  <2>1. up' \in [Conns -> BOOLEAN] /\ toCli' \in [Conns -> Signals]
    BY <1>7, RequestTypes DEF FirstRequest
  <2>2. ConnTypeOK'
    BY <1>7, <2>1 DEF FirstRequest, ConnTypeOK, serverVars, sendVars, clientVars
  <2> QED
    BY <1>7, <2>2 DEF FirstRequest, ReplTypeOK
<1>8. CASE HandlePacket(b)
  <2> DEFINE pkt == Head(queue[b])
  <2>1. pkt \in Packets \cup {Disconnect} /\ Tail(queue[b]) \in Seq(Packets \cup {Disconnect})
    BY <1>8, HeadTailType DEF HandlePacket, ConnTypeOK
  <2>2. ConnTypeOK'
    BY <1>8, <2>1 DEF HandlePacket, ConnTypeOK, netVars, serverVars, sendVars
  <2>3. pkt.type = "XT_RECENT_SYNC" => pkt \in RecentPackets
    BY <2>1 DEF Packets, HttpPackets, RecentPackets, Disconnect
  <2>4. pkt.type = "HTTP_SYNC" => pkt \in HttpPackets
    BY <2>1 DEF Packets, HttpPackets, RecentPackets, Disconnect
  <2> HIDE DEF pkt
  <2>a. bhttp \in [Backups -> HttpStore] /\ brecent \in [Backups -> RecentStore]
    BY DEF ReplTypeOK
  <2>b. \/ UNCHANGED <<bhttp, brecent>>
        \/ /\ pkt.type = "XT_RECENT_SYNC"
           /\ brecent' = [brecent EXCEPT ![b] = apply_recent_action(brecent[b], pkt)]
           /\ UNCHANGED bhttp
        \/ /\ pkt.type = "HTTP_SYNC"
           /\ bhttp' = [bhttp EXCEPT ![b] = apply_http_action(bhttp[b], pkt)]
           /\ UNCHANGED brecent
    BY <1>8 DEF HandlePacket, pkt
  <2>c. pkt.type = "HTTP_SYNC" => apply_http_action(bhttp[b], pkt) \in HttpStore
    BY <2>4, <2>a, ApplyHttpType
  <2>d. pkt.type = "XT_RECENT_SYNC"
            => apply_recent_action(brecent[b], pkt) \in RecentStore
    BY <2>3, <2>a, ApplyRecentType
  <2>5. bhttp' \in [Backups -> HttpStore]
    BY <2>a, <2>b, <2>c
  <2>6. brecent' \in [Backups -> RecentStore]
    BY <2>a, <2>b, <2>d
  <2>7. ReplTypeOK'
    BY <1>8, <2>5, <2>6 DEF HandlePacket, ReplTypeOK
  <2> QED
    BY <2>2, <2>7
<1>9. CASE Resync(b)
  <2>1. up' \in [Conns -> BOOLEAN] /\ toCli' \in [Conns -> Signals]
    BY <1>9, RequestTypes DEF Resync
  <2>2. ConnTypeOK'
    BY <1>9, <2>1 DEF Resync, ConnTypeOK, serverVars, sendVars, clientVars
  <2> QED
    BY <1>9, <2>2, EmptyTypes DEF Resync, ReplTypeOK
<1>10. CASE Recheck(b)
    BY <1>10, ConnStutter DEF Recheck, ReplTypeOK
<1>11. CASE BackupReceive(b)
    BY <1>11, ClientTypes, ReplStutter DEF BackupReceive
<1>12. CASE BackupCrash(b)
    BY <1>5, <1>12 DEF BackupCrash, Spend, ReplTypeOK, Budgets
<1> QED
    BY <1>1, <1>2, <1>3, <1>4, <1>6, <1>7, <1>8, <1>9, <1>10, <1>11, <1>12
    DEF BackupWorker

LEMMA NetworkType ==
    ASSUME TypeOK, NEW c \in Conns, Network(c) PROVE ConnTypeOK' /\ ReplTypeOK'
<1>1. ConnTypeOK'
    BY KernelTypes DEF TypeOK, Network
<1>2. ReplTypeOK'
    BY DEF TypeOK, ReplTypeOK, Network, Spend, masterVars, workerVars,
           inputVars, flagVars, storeVars, backupVars, Budgets
<1> QED
    BY <1>1, <1>2

(***************************************************************************)
(* The connection being answered stays the same until it is answered.      *)
(***************************************************************************)
LEMMA SyncDestStep == ASSUME TypeOK, [Next]_vars PROVE SyncDest'
<1> USE DEF connVars, sendVars, masterVars, workerVars
<1>a. ConnTypeOK /\ SyncDest
    BY DEF TypeOK
<1>1. ASSUME UNCHANGED dest, mpc' = "sync" => mpc = "sync" PROVE SyncDest'
    BY <1>1, <1>a DEF SyncDest
<1>2. ASSUME mpc' # "sync" PROVE SyncDest'
    BY <1>2 DEF SyncDest
<1>3. CASE MasterWorker
  <2>1. CASE HandleRequest
    <3>a. Head(input_packet_queue) \in Requests
      BY <1>a, <2>1, HeadTailType DEF HandleRequest, ConnTypeOK
    <3>1. Head(input_packet_queue).fd \in Conns
      BY <3>a DEF Requests
    <3> QED
      BY <1>a, <2>1, <3>1 DEF HandleRequest, ReplyTo, Worker, SyncDest
  <2>2. CASE Deliver
    <3>1. dest' = dest
      BY <2>2 DEF Deliver, SendNext, Send, HandleSend, HandleSendError
    <3> QED
      BY <1>1, <2>2, <3>1 DEF Deliver
  <2>3. CASE FarmEvent \/ HttpUpdate \/ RecentUpdate \/ DropHttp
    BY <1>2, <2>3 DEF FarmEvent, HttpUpdate, RecentUpdate, DropHttp, Worker
  <2>4. CASE \/ HandleHttpSync \/ NoRequest \/ WorkerEnds \/ Sleep \/ EnterHttp
             \/ HttpDone \/ EnterRecent \/ RecentDone
    BY <1>2, <2>4 DEF HandleHttpSync, NoRequest, WorkerEnds, Sleep, EnterHttp,
                      HttpDone, EnterRecent, RecentDone
  <2> QED
    BY <1>3, <2>1, <2>2, <2>3, <2>4 DEF MasterWorker
<1>4. CASE MasterReceive
    BY <1>1, <1>4 DEF MasterReceive, ServerReceive, AcceptNode, AnnounceNode,
                      ReadRequest, ReadEof, ReadError, EraseNode
<1>5. CASE ListenersAndCommands \/ Quit \/ StopListeners
    BY <1>1, <1>5 DEF ListenersAndCommands, PoundSends, PollerQueues, StartHttp,
                      FarmGone, ClearHttp, StartRecent, StopRecent, Quit,
                      StopListeners
<1>6. CASE MasterStart \/ MasterCrash \/ Exit
    BY <1>2, <1>6 DEF MasterStart, MasterCrash, Exit, MasterGone
<1>7. ASSUME NEW b \in Backups,
             BackupStart(b) \/ BackupWorker(b) \/ BackupReceive(b) \/ BackupCrash(b)
      PROVE  SyncDest'
    BY <1>1, <1>7 DEF BackupStart, BackupWorker, BackupReceive, BackupCrash, Dial,
                      Dialed, EnterRun, ExitFailure, Gone, FirstRequest,
                      HandlePacket, Resync, Recheck, ClientReceive, ReadPacket,
                      ReadEofClient, ReadErrorClient, Connect, CloseClient
<1>8. ASSUME NEW c \in Conns, Network(c) PROVE SyncDest'
    BY <1>1, <1>8 DEF Network, ResetSender, ResetBoth
<1>9. CASE UNCHANGED vars
    BY <1>1, <1>9 DEF vars
<1> QED
    BY <1>3, <1>4, <1>5, <1>6, <1>7, <1>8, <1>9 DEF Next

LEMMA TypeStep == TypeOK /\ [Next]_vars => TypeOK'
<1> SUFFICES ASSUME TypeOK, [Next]_vars PROVE ConnTypeOK' /\ ReplTypeOK'
    BY SyncDestStep DEF TypeOK
<1>1. CASE MasterReceive
    BY <1>1, ServerReceiveType, ReplStutter DEF MasterReceive, TypeOK
<1>2. CASE UNCHANGED vars
    BY <1>2, ConnStutter, ReplStutter DEF vars, TypeOK
<1> QED
    BY <1>1, <1>2, MasterWorkerType, ControlTypes, BackupTypes, NetworkType
    DEF Next

LEMMA TypeInit == Init => TypeOK
<1> SUFFICES ASSUME Init PROVE TypeOK
    OBVIOUS
<1>1. ConnTypeOK
  <2>1. /\ down \in [Conns -> Seq(Packets)]
        /\ queue \in [Backups -> Seq(Packets \cup {Disconnect})]
        /\ input_packet_queue \in Seq(Requests)
    BY EmptySeqType DEF Init, ConnInit
  <2>2. /\ made \in 0..MaxConns
        /\ owner \in [Conns -> Backups \cup {NoOwner}]
        /\ srvEnd \in [Conns -> {"none", "backlog", "open", "closed"}]
        /\ cliEnd \in [Conns -> {"none", "open", "closed"}]
        /\ up \in [Conns -> BOOLEAN]
        /\ toSrv \in [Conns -> Signals] /\ toCli \in [Conns -> Signals]
    BY ConnectionAssumption DEF Init, ConnInit, Signals
  <2>3. /\ rx = Polling /\ is_running = FALSE /\ listenEvent = FALSE
        /\ connected_nodes = {} /\ outbox = {} /\ to = {} /\ skipped = {}
        /\ dest = NoConn /\ cur = NoPacket
        /\ running \in [Backups -> BOOLEAN]
        /\ sock \in [Backups -> Conns \cup {NoConn}]
    BY DEF Init, ConnInit
  <2> QED
    BY <2>1, <2>2, <2>3 DEF ConnTypeOK
<1>2. ReplTypeOK
    BY ReplicationAssumption, EmptySeqType, EmptyTypes
    DEF Init, ReplTypeOK, Budgets, Flags
<1>3. SyncDest
    BY DEF Init, SyncDest
<1> QED
    BY <1>1, <1>2, <1>3 DEF TypeOK

(***************************************************************************)
(* Every variable keeps its type: the whole system, every handler of both  *)
(* workers and of both receive threads included.                           *)
(***************************************************************************)
THEOREM TypeCorrect == Spec => []TypeOK
BY TypeInit, TypeStep, PTL DEF Spec

-----------------------------------------------------------------------------
(***************************************************************************)
(* The counter of backups never drifts, for any number of backups and      *)
(* connections, whatever fails: ServerCount and ServedCounted.             *)
(*                                                                         *)
(* The counter is kept by the worker and the set of nodes by the receive   *)
(* thread; what links them is the queue between the two threads.  CountInv *)
(* says which CONNECT and DISCONNECT packets can be in it and in which     *)
(* order, so that taking one off the queue adds exactly one node to the    *)
(* counted ones, or removes exactly one.                                   *)
(***************************************************************************)

(***************************************************************************)
(* Membership in a queue after Append and after Tail.                      *)
(***************************************************************************)
LEMMA InAppend ==
    ASSUME NEW S, NEW q \in Seq(S), NEW x \in S, NEW y
    PROVE  (\E i \in DOMAIN Append(q, x) : Append(q, x)[i] = y)
              <=> (y = x \/ \E i \in DOMAIN q : q[i] = y)
<1>1. /\ DOMAIN Append(q, x) = 1..(Len(q) + 1) /\ Len(q) \in Nat
      /\ DOMAIN q = 1..Len(q)
      /\ Append(q, x)[Len(q) + 1] = x
      /\ \A i \in 1..Len(q) : Append(q, x)[i] = q[i]
    OBVIOUS
<1>2. \A i \in 1..(Len(q) + 1) : i = Len(q) + 1 \/ i \in 1..Len(q)
    BY <1>1
<1>3. Len(q) + 1 \in 1..(Len(q) + 1) /\ 1..Len(q) \subseteq 1..(Len(q) + 1)
    BY <1>1
<1> QED
    BY <1>1, <1>2, <1>3

LEMMA InTail ==
    ASSUME NEW S, NEW q \in Seq(S), q # <<>>, NEW y
    PROVE  (\E i \in DOMAIN q : q[i] = y)
              <=> (y = Head(q) \/ \E i \in DOMAIN Tail(q) : Tail(q)[i] = y)
<1>1. /\ Len(q) \in Nat \ {0} /\ DOMAIN q = 1..Len(q)
      /\ DOMAIN Tail(q) = 1..(Len(q) - 1)
      /\ Head(q) = q[1]
      /\ \A i \in 1..(Len(q) - 1) : Tail(q)[i] = q[i + 1]
    OBVIOUS
<1>2. \A i \in 1..Len(q) : i = 1 \/ (i - 1 \in 1..(Len(q) - 1) /\ i = (i - 1) + 1)
    BY <1>1
<1>3. 1 \in 1..Len(q) /\ \A i \in 1..(Len(q) - 1) : i + 1 \in 1..Len(q)
    BY <1>1
<1>4. ASSUME NEW i \in DOMAIN q, q[i] = y
      PROVE  y = Head(q) \/ \E k \in DOMAIN Tail(q) : Tail(q)[k] = y
  <2>1. CASE i = 1
    BY <1>1, <1>4, <2>1
  <2>2. CASE i # 1
    <3>1. i - 1 \in 1..(Len(q) - 1) /\ i = (i - 1) + 1
      BY <1>1, <1>2, <2>2
    <3>2. Tail(q)[i - 1] = q[i]
      BY <1>1, <3>1
    <3> QED
      BY <1>1, <1>4, <3>1, <3>2
  <2> QED
    BY <2>1, <2>2
<1>5. ASSUME y = Head(q) \/ \E k \in DOMAIN Tail(q) : Tail(q)[k] = y
      PROVE  \E i \in DOMAIN q : q[i] = y
    BY <1>1, <1>3, <1>5
<1> QED
    BY <1>4, <1>5

(***************************************************************************)
(* The pairwise order of a queue survives Tail, and Append of a request    *)
(* that may follow all the others.                                         *)
(***************************************************************************)
LEMMA OrderAppend ==
    ASSUME NEW S, NEW q \in Seq(S), NEW x \in S, InOrder(q),
           \A i \in DOMAIN q : MayFollow(q[i], x)
    PROVE  InOrder(Append(q, x))
<1>1. /\ DOMAIN Append(q, x) = 1..(Len(q) + 1) /\ Len(q) \in Nat
      /\ DOMAIN q = 1..Len(q)
      /\ Append(q, x)[Len(q) + 1] = x
      /\ \A i \in 1..Len(q) : Append(q, x)[i] = q[i]
    OBVIOUS
<1> SUFFICES ASSUME NEW i \in 1..(Len(q) + 1), NEW j \in 1..(Len(q) + 1), i < j
             PROVE  MayFollow(Append(q, x)[i], Append(q, x)[j])
    BY <1>1 DEF InOrder
<1>2. i \in 1..Len(q)
    BY <1>1
<1>3. CASE j = Len(q) + 1
    BY <1>1, <1>2, <1>3
<1>4. CASE j \in 1..Len(q)
    BY <1>1, <1>2, <1>4 DEF InOrder
<1> QED
    BY <1>1, <1>3, <1>4

LEMMA OrderTail ==
    ASSUME NEW S, NEW q \in Seq(S), q # <<>>, InOrder(q)
    PROVE  /\ InOrder(Tail(q))
           /\ \A i \in DOMAIN Tail(q) : MayFollow(Head(q), Tail(q)[i])
<1>1. /\ Len(q) \in Nat \ {0} /\ DOMAIN q = 1..Len(q)
      /\ DOMAIN Tail(q) = 1..(Len(q) - 1)
      /\ Head(q) = q[1]
      /\ \A i \in 1..(Len(q) - 1) : Tail(q)[i] = q[i + 1]
    OBVIOUS
<1>2. \A i \in 1..(Len(q) - 1) : i + 1 \in 1..Len(q) /\ 1 < i + 1
    BY <1>1
<1>3. \A i, j \in 1..(Len(q) - 1) : i < j => i + 1 < j + 1
    OBVIOUS
<1>4. 1 \in 1..Len(q)
    BY <1>1
<1> QED
    BY <1>1, <1>2, <1>3, <1>4 DEF InOrder

-----------------------------------------------------------------------------
(***************************************************************************)
(* Queued after Append and after Tail.                                     *)
(***************************************************************************)
LEMMA QueuedAppend ==
    ASSUME ConnTypeOK, NEW r \in Requests,
           input_packet_queue' = Append(input_packet_queue, r), NEW t
    PROVE  Queued(t)' = Queued(t) \cup {c \in Conns : r = Request(t, c)}
<1>1. input_packet_queue \in Seq(Requests)
    BY DEF ConnTypeOK
<1>2. ASSUME NEW c \in Conns
      PROVE  c \in Queued(t)' <=> (r = Request(t, c) \/ c \in Queued(t))
    BY <1>1, InAppend DEF Queued
<1> QED
    BY <1>2 DEF Queued

LEMMA QueuedTail ==
    ASSUME ConnTypeOK, input_packet_queue # <<>>,
           input_packet_queue' = Tail(input_packet_queue), NEW t
    PROVE  Queued(t)
             = Queued(t)' \cup {c \in Conns : Head(input_packet_queue) = Request(t, c)}
<1>1. input_packet_queue \in Seq(Requests)
    BY DEF ConnTypeOK
<1>2. ASSUME NEW c \in Conns
      PROVE  c \in Queued(t)
                <=> (Head(input_packet_queue) = Request(t, c) \/ c \in Queued(t)')
    BY <1>1, InTail DEF Queued
<1> QED
    BY <1>2 DEF Queued

LEMMA RequestInjective ==
    /\ \A t, u, c, d : Request(t, c) = Request(u, d) <=> t = u /\ c = d
    /\ \A t, c : Request(t, c).type = t /\ Request(t, c).fd = c
BY DEF Request

LEMMA RequestForm ==
    \A r \in Requests : /\ r = Request(r.type, r.fd) /\ r.fd \in Conns
                        /\ r.type \in {"CONNECT", "SYNC_REQUEST", "DISCONNECT"}
<1> SUFFICES ASSUME NEW r \in Requests
             PROVE  /\ r = Request(r.type, r.fd) /\ r.fd \in Conns
                    /\ r.type \in {"CONNECT", "SYNC_REQUEST", "DISCONNECT"}
    OBVIOUS
<1>1. r.fd \in Conns /\ r.type \in {"CONNECT", "SYNC_REQUEST", "DISCONNECT"}
    BY DEF Requests
<1>2. r = Request(r.type, r.fd)
    BY DEF Requests, Request
<1> QED
    BY <1>1, <1>2

LEMMA QueueTyped ==
    ConnTypeOK => \A i \in DOMAIN input_packet_queue :
                     /\ input_packet_queue[i] \in Requests
                     /\ input_packet_queue[i].fd \in Conns
<1> SUFFICES ASSUME ConnTypeOK, NEW i \in DOMAIN input_packet_queue
             PROVE  /\ input_packet_queue[i] \in Requests
                    /\ input_packet_queue[i].fd \in Conns
    OBVIOUS
<1>1. input_packet_queue[i] \in Requests
    BY DEF ConnTypeOK
<1> QED
    BY <1>1, RequestForm

LEMMA FiniteConns == IsFiniteSet(Conns)
<1>1. 1 \in Int /\ MaxConns \in Int
    BY ConnectionAssumption
<1> QED
    BY <1>1, FS_Interval DEF Conns

(***************************************************************************)
(* Steps that touch none of the state of CountInv.                         *)
(***************************************************************************)
LEMMA CountStutter ==
    ASSUME CountInv, UNCHANGED <<srvEnd, made, rx, connected_nodes, is_running,
                                 input_packet_queue, backup_servers_fd, served>>,
           mpc' = "off" => mpc = "off",
           mpc' = "sync" => mpc = "sync" /\ dest' = dest
    PROVE  CountInv'
<1>1. Queued("CONNECT")' = Queued("CONNECT")
    BY DEF Queued
<1>2. Queued("DISCONNECT")' = Queued("DISCONNECT")
    BY DEF Queued
<1>3. \A c : Announced(c)' <=> Announced(c)
    BY DEF Announced
<1>4. NodesOpen'
    BY DEF CountInv, NodesOpen, Polling
<1>5. QueueOrdered'
    BY <1>1, <1>2, <1>3 DEF CountInv, QueueOrdered, InOrder, MayFollow
<1>6. ServedAnnounced'
  <2>1. \A c \in served' : Announced(c)' /\ c \notin Queued("CONNECT")'
    BY <1>1, <1>3 DEF CountInv, ServedAnnounced
  <2>2. mpc' = "sync" => Announced(dest') /\ dest' \notin Queued("CONNECT")
    BY DEF CountInv, ServedAnnounced
  <2>3. mpc' = "sync" => Announced(dest)' /\ (dest \notin Queued("CONNECT"))'
    BY <1>1, <2>2 DEF Announced
  <2> QED
    BY <2>1, <2>3 DEF ServedAnnounced
<1>7. ServerCount'
    BY <1>1, <1>2 DEF CountInv, ServerCount, Counted
<1> QED
    BY <1>4, <1>5, <1>6, <1>7 DEF CountInv

-----------------------------------------------------------------------------
\* The receive thread of the master

(***************************************************************************)
(* No connection that waits to be accepted is known to anybody.            *)
(***************************************************************************)
LEMMA AcceptCount ==
    ASSUME TypeOK, CountInv, AcceptNode,
           UNCHANGED <<masterVars, served>>
    PROVE  CountInv'
<1>0. ConnTypeOK
    BY DEF TypeOK
<1>1. PICK c \in Conns :
          /\ srvEnd[c] = "backlog"
          /\ srvEnd' = [srvEnd EXCEPT ![c] = "open"]
          /\ connected_nodes' = connected_nodes \cup {c}
          /\ rx' = [at |-> "accepted", conn |-> c]
    BY DEF AcceptNode, Backlog
<1>2. /\ UNCHANGED <<made, is_running, input_packet_queue, backup_servers_fd,
                     served, mpc, dest>>
      /\ is_running /\ rx.at = "poll"
    BY DEF AcceptNode, masterVars, workerVars
<1>3. rx = Polling /\ rx.conn = 0
    BY <1>0, <1>2 DEF ConnTypeOK, Polling, NoConn
<1>4. /\ Queued("CONNECT")' = Queued("CONNECT")
      /\ Queued("DISCONNECT")' = Queued("DISCONNECT")
    BY <1>2 DEF Queued
<1>5. c \notin connected_nodes
    BY <1>1 DEF CountInv, NodesOpen
<1>6. \A d \in Conns : Announced(d) => Announced(d)' /\ d # c
    BY <1>0, <1>1 DEF Announced, ConnTypeOK
<1>7. NodesOpen'
  <2>1. connected_nodes' = {d \in Conns : srvEnd'[d] = "open"}
    BY <1>0, <1>1 DEF CountInv, NodesOpen, ConnTypeOK
  <2>2. \A d \in Conns : d > made' => srvEnd'[d] = "none"
    BY <1>0, <1>1, <1>2 DEF CountInv, NodesOpen, ConnTypeOK
  <2>3. mpc' # "off"
    BY <1>2 DEF CountInv, NodesOpen
  <2> QED
    BY <1>1, <2>1, <2>2, <2>3 DEF NodesOpen
<1>8. QueueOrdered'
  <2> DEFINE q == input_packet_queue
  <2>1. \A i \in DOMAIN q : q[i].fd \in Conns
    BY <1>0, QueueTyped
  <2>2. \A i \in DOMAIN q : Announced(q[i].fd)'
    BY <1>2, <1>6, <2>1 DEF CountInv, QueueOrdered
  <2>3. \A i \in DOMAIN q : q[i].type = "DISCONNECT" => srvEnd'[q[i].fd] = "closed"
    BY <1>0, <1>1, <1>2, <1>6, <2>1 DEF CountInv, QueueOrdered, ConnTypeOK
  <2>4. Queued("CONNECT")'
            \subseteq (connected_nodes' \ {rx'.conn}) \cup Queued("DISCONNECT")'
    BY <1>1, <1>3, <1>4, <1>5 DEF CountInv, QueueOrdered
  <2>5. InOrder(q)'
    BY <1>2 DEF CountInv, QueueOrdered, InOrder
  <2> QED
    BY <1>2, <2>2, <2>3, <2>4, <2>5 DEF QueueOrdered
<1>9. ServedAnnounced'
  <2>1. served \subseteq Conns /\ (mpc = "sync" => dest \in Conns)
    BY DEF TypeOK, ReplTypeOK, SyncDest
  <2>2. \A d \in served : Announced(d)' /\ d \notin Queued("CONNECT")'
    BY <1>4, <1>6, <2>1 DEF CountInv, ServedAnnounced
  <2>3. mpc = "sync" => Announced(dest)' /\ dest \notin Queued("CONNECT")'
    BY <1>2, <1>4, <1>6, <2>1 DEF CountInv, ServedAnnounced, Announced
  <2> QED
    BY <1>2, <2>2, <2>3 DEF ServedAnnounced
<1>10. ServerCount'
  <2>1. connected_nodes' \ {rx'.conn} = connected_nodes \ {rx.conn}
    BY <1>0, <1>1, <1>3, <1>5 DEF ConnTypeOK, Conns
  <2>2. Counted' = Counted
    BY <1>4, <2>1 DEF Counted
  <2> QED
    BY <1>2, <2>2 DEF CountInv, ServerCount
<1> QED
    BY <1>7, <1>8, <1>9, <1>10 DEF CountInv

(***************************************************************************)
(* CONNECT is the first packet of its node.                                *)
(***************************************************************************)
LEMMA AnnounceCount ==
    ASSUME TypeOK, CountInv, AnnounceNode, UNCHANGED <<masterVars, served>>,
           NEW c, c = rx.conn
    PROVE  CountInv'
<1> DEFINE q == input_packet_queue
           r == Request("CONNECT", c)
<1>0. ConnTypeOK
    BY DEF TypeOK
<1>1. /\ UNCHANGED <<srvEnd, made, is_running, connected_nodes,
                     backup_servers_fd, served, mpc, dest>>
      /\ is_running /\ rx.at = "accepted" /\ rx' = Polling
      /\ input_packet_queue' = Append(q, r)
    BY DEF AnnounceNode, masterVars, workerVars, netVars, sendVars
<1>2. c \in Conns /\ c \in connected_nodes /\ srvEnd[c] = "open" /\ rx'.conn = 0
    BY <1>0, <1>1 DEF ConnTypeOK, Polling, CountInv, NodesOpen, NoConn
<1>3. r \in Requests
    BY <1>2 DEF Request, Requests
<1>4. /\ Queued("CONNECT")' = Queued("CONNECT") \cup {c}
      /\ Queued("DISCONNECT")' = Queued("DISCONNECT")
  <2>1. \A t : Queued(t)' = Queued(t) \cup {d \in Conns : r = Request(t, d)}
    BY <1>0, <1>1, <1>3, QueuedAppend
  <2>2. {d \in Conns : r = Request("CONNECT", d)} = {c}
    BY <1>2, RequestInjective
  <2>3. {d \in Conns : r = Request("DISCONNECT", d)} = {}
    BY RequestInjective
  <2> QED
    BY <2>1, <2>2, <2>3
<1>5. \A i \in DOMAIN q : q[i].fd # c /\ q[i].fd \in Conns
    BY <1>0, <1>1, QueueTyped DEF CountInv, QueueOrdered, Announced
<1>6. c \notin Queued("CONNECT") /\ c \notin Queued("DISCONNECT")
    BY <1>5, RequestInjective DEF Queued
<1>7. \A d : Announced(d) => Announced(d)' /\ d # c
    BY <1>1 DEF Announced, Polling
<1>8. Announced(c)'
    BY <1>1, <1>2 DEF Announced, Polling
<1>9. NodesOpen'
    BY <1>1 DEF CountInv, NodesOpen, Polling
<1>10. QueueOrdered'
  <2>1. InOrder(q)'
    <3>1. \A i \in DOMAIN q : MayFollow(q[i], r)
      BY <1>5, RequestInjective DEF MayFollow
    <3> QED
      BY <1>0, <1>1, <1>3, <3>1, OrderAppend DEF CountInv, QueueOrdered, ConnTypeOK
  <2>2. ASSUME NEW x \in Requests, \E i \in DOMAIN q' : q'[i] = x
        PROVE  /\ Announced(x.fd)'
               /\ x.type = "DISCONNECT" => \/ srvEnd'[x.fd] = "closed"
                                           \/ rx'.at = "closing" /\ rx'.conn = x.fd
    <3>1. x = r \/ \E i \in DOMAIN q : q[i] = x
      BY <1>0, <1>1, <1>3, <2>2, InAppend DEF ConnTypeOK
    <3>2. CASE x = r
      BY <1>8, <3>2, RequestInjective
    <3>3. ASSUME NEW i \in DOMAIN q, q[i] = x
          PROVE  /\ Announced(x.fd)'
                 /\ x.type = "DISCONNECT" => srvEnd'[x.fd] = "closed"
      BY <1>1, <1>5, <1>7, <3>3 DEF CountInv, QueueOrdered
    <3> QED
      BY <3>1, <3>2, <3>3
  <2>3. q' \in Seq(Requests)
    BY <1>0, <1>1, <1>3, AppendType DEF ConnTypeOK
  <2>4. \A i \in DOMAIN q' : q'[i] \in Requests
    BY <2>3
  <2>5. Queued("CONNECT")'
            \subseteq (connected_nodes' \ {rx'.conn}) \cup Queued("DISCONNECT")'
    BY <1>0, <1>1, <1>2, <1>4 DEF CountInv, QueueOrdered, ConnTypeOK, Conns
  <2> QED
    BY <2>1, <2>2, <2>4, <2>5 DEF QueueOrdered
<1>11. ServedAnnounced'
  <2>1. \A d \in served : Announced(d)' /\ d \notin Queued("CONNECT")'
    BY <1>4, <1>7 DEF CountInv, ServedAnnounced
  <2>2. mpc = "sync" => Announced(dest)' /\ dest \notin Queued("CONNECT")'
    BY <1>1, <1>4, <1>7 DEF CountInv, ServedAnnounced, Announced
  <2> QED
    BY <1>1, <2>1, <2>2 DEF ServedAnnounced
<1>12. ServerCount'
  <2>1. Counted' = Counted
    BY <1>0, <1>1, <1>2, <1>4, <1>6 DEF Counted, ConnTypeOK, Conns
  <2> QED
    BY <1>1, <2>1 DEF CountInv, ServerCount
<1> QED
    BY <1>9, <1>10, <1>11, <1>12 DEF CountInv

(***************************************************************************)
(* A SYNC_REQUEST or a DISCONNECT is queued: both come from an announced   *)
(* node, and DISCONNECT comes once.                                        *)
(***************************************************************************)
LEMMA ReadCount ==
    ASSUME TypeOK, CountInv, NEW c \in Conns, ReadRequest(c) \/ ReadEof(c),
           UNCHANGED <<masterVars, served>>
    PROVE  CountInv'
<1> DEFINE q == input_packet_queue
<1>0. ConnTypeOK
    BY DEF TypeOK
<1>1. /\ UNCHANGED <<srvEnd, made, is_running, connected_nodes,
                     backup_servers_fd, served, mpc, dest>>
      /\ is_running /\ rx.at = "poll" /\ srvEnd[c] = "open"
    BY DEF ReadRequest, ReadEof, masterVars, workerVars, sendVars
<1>2. rx = Polling /\ rx.conn = 0 /\ c \in connected_nodes /\ c # 0
    BY <1>0, <1>1 DEF ConnTypeOK, Polling, CountInv, NodesOpen, NoConn, Conns
<1>3. PICK r \in Requests :
          /\ r.fd = c
          /\ input_packet_queue' = Append(q, r)
          /\ \/ r = Request("SYNC_REQUEST", c) /\ rx' = rx
             \/ r = Request("DISCONNECT", c) /\ rx' = [at |-> "closing", conn |-> c]
  <2>1. CASE ReadRequest(c)
    BY <2>1 DEF ReadRequest, Request, Requests
  <2>2. CASE ReadEof(c)
    BY <2>2 DEF ReadEof, Request, Requests
  <2> QED
    BY <2>1, <2>2
<1>a. \/ r.type = "SYNC_REQUEST" /\ rx' = rx
      \/ r.type = "DISCONNECT" /\ rx' = [at |-> "closing", conn |-> c]
    BY <1>3 DEF Request
<1>b. \A t : Queued(t)' = Queued(t) \cup {d \in Conns : r = Request(t, d)}
    BY <1>0, <1>3, QueuedAppend
<1>4. Queued("CONNECT")' = Queued("CONNECT")
  <2>1. {d \in Conns : r = Request("CONNECT", d)} = {}
    BY <1>a, RequestInjective
  <2> QED
    BY <1>b, <2>1
<1>5. /\ r.type = "DISCONNECT"
            => Queued("DISCONNECT")' = Queued("DISCONNECT") \cup {c}
      /\ r.type = "SYNC_REQUEST" => Queued("DISCONNECT")' = Queued("DISCONNECT")
  <2>1. CASE r = Request("DISCONNECT", c)
    <3>1. {d \in Conns : r = Request("DISCONNECT", d)} = {c}
      BY <2>1, RequestInjective
    <3> QED
      BY <1>b, <2>1, <3>1, RequestInjective
  <2>2. CASE r = Request("SYNC_REQUEST", c)
    <3>1. {d \in Conns : r = Request("DISCONNECT", d)} = {}
      BY <2>2, RequestInjective
    <3> QED
      BY <1>b, <2>2, <3>1, RequestInjective
  <2> QED
    BY <1>3, <2>1, <2>2
<1>6. \A i \in DOMAIN q : q[i].type = "DISCONNECT" => q[i].fd # c
    BY <1>1, <1>2 DEF CountInv, QueueOrdered, Polling
<1>7. \A d : Announced(d) <=> Announced(d)'
    BY <1>1, <1>2, <1>3 DEF Announced, Polling
<1>8. Announced(c)
    BY <1>1 DEF Announced
<1>9. NodesOpen'
    BY <1>1, <1>2, <1>3 DEF CountInv, NodesOpen, Polling
<1>10. QueueOrdered'
  <2>1. InOrder(q)'
    <3>1. \A i \in DOMAIN q : MayFollow(q[i], r)
      BY <1>3, <1>6, RequestInjective DEF MayFollow
    <3> QED
      BY <1>0, <1>3, <3>1, OrderAppend DEF CountInv, QueueOrdered, ConnTypeOK
  <2>2. ASSUME NEW x \in Requests, \E i \in DOMAIN q' : q'[i] = x
        PROVE  /\ Announced(x.fd)'
               /\ x.type = "DISCONNECT" => \/ srvEnd'[x.fd] = "closed"
                                           \/ rx'.at = "closing" /\ rx'.conn = x.fd
    <3>1. x = r \/ \E i \in DOMAIN q : q[i] = x
      BY <1>0, <1>3, <2>2, InAppend DEF ConnTypeOK
    <3>2. CASE x = r
      BY <1>3, <1>7, <1>8, <3>2, RequestInjective
    <3>3. ASSUME NEW i \in DOMAIN q, q[i] = x
          PROVE  /\ Announced(x.fd)'
                 /\ x.type = "DISCONNECT" => srvEnd'[x.fd] = "closed"
      BY <1>1, <1>2, <1>7, <3>3 DEF CountInv, QueueOrdered, Polling
    <3> QED
      BY <3>1, <3>2, <3>3
  <2>3. q' \in Seq(Requests)
    BY <1>0, <1>3, AppendType DEF ConnTypeOK
  <2>4. \A i \in DOMAIN q' : q'[i] \in Requests
    BY <2>3
  <2>5. Queued("CONNECT")'
            \subseteq (connected_nodes' \ {rx'.conn}) \cup Queued("DISCONNECT")'
    BY <1>1, <1>2, <1>3, <1>4, <1>5, RequestInjective DEF CountInv, QueueOrdered
  <2> QED
    BY <2>1, <2>2, <2>4, <2>5 DEF QueueOrdered
<1>11. ServedAnnounced'
  <2>1. \A d \in served : Announced(d)' /\ d \notin Queued("CONNECT")'
    BY <1>4, <1>7 DEF CountInv, ServedAnnounced
  <2>2. mpc = "sync" => Announced(dest)' /\ dest \notin Queued("CONNECT")'
    BY <1>1, <1>4, <1>7 DEF CountInv, ServedAnnounced, Announced
  <2> QED
    BY <1>1, <2>1, <2>2 DEF ServedAnnounced
<1>12. ServerCount'
  <2>1. CASE r.type = "SYNC_REQUEST"
    BY <1>1, <1>4, <1>5, <1>a, <2>1 DEF Counted, CountInv, ServerCount
  <2>2. CASE r.type = "DISCONNECT"
    <3>1. Queued("DISCONNECT")' = Queued("DISCONNECT") \cup {c} /\ rx'.conn = c
      BY <1>5, <1>a, <2>2
    <3>2. connected_nodes \ {rx.conn} = connected_nodes
      BY <1>0, <1>2 DEF ConnTypeOK, Conns
    <3>3. (connected_nodes \ {c}) \cup (Queued("DISCONNECT") \cup {c})
              = connected_nodes \cup Queued("DISCONNECT")
      BY <1>2
    <3>4. Counted' = Counted
      BY <1>1, <1>4, <3>1, <3>2, <3>3 DEF Counted
    <3> QED
      BY <1>1, <3>4 DEF CountInv, ServerCount
  <2> QED
    BY <1>a, <2>1, <2>2
<1> QED
    BY <1>9, <1>10, <1>11, <1>12 DEF CountInv

LEMMA EraseCount ==
    ASSUME TypeOK, CountInv, EraseNode, UNCHANGED <<masterVars, served>>
    PROVE  CountInv'
<1> DEFINE q == input_packet_queue
           c == rx.conn
<1>0. ConnTypeOK
    BY DEF TypeOK
<1>1. /\ UNCHANGED <<made, is_running, input_packet_queue,
                     backup_servers_fd, served, mpc, dest>>
      /\ is_running /\ rx.at = "closing" /\ rx' = Polling
      /\ connected_nodes' = connected_nodes \ {c}
      /\ srvEnd' = [srvEnd EXCEPT ![c] = "closed"]
    BY DEF EraseNode, masterVars, workerVars
<1>2. c \in Conns /\ c \in connected_nodes /\ srvEnd[c] = "open" /\ rx'.conn = 0
    BY <1>0, <1>1 DEF ConnTypeOK, Polling, CountInv, NodesOpen, NoConn
<1>3. /\ Queued("CONNECT")' = Queued("CONNECT")
      /\ Queued("DISCONNECT")' = Queued("DISCONNECT")
    BY <1>1 DEF Queued
<1>4. \A d \in Conns : Announced(d) => Announced(d)'
    BY <1>0, <1>1 DEF Announced, Polling, ConnTypeOK
<1>5. NodesOpen'
  <2>1. connected_nodes' = {d \in Conns : srvEnd'[d] = "open"}
    BY <1>0, <1>1, <1>2 DEF CountInv, NodesOpen, ConnTypeOK
  <2>2. \A d \in Conns : d > made' => srvEnd'[d] = "none"
    BY <1>0, <1>1, <1>2 DEF CountInv, NodesOpen, ConnTypeOK
  <2>3. mpc' # "off"
    BY <1>1 DEF CountInv, NodesOpen
  <2> QED
    BY <1>1, <2>1, <2>2, <2>3 DEF NodesOpen
<1>6. QueueOrdered'
  <2>1. \A i \in DOMAIN q : q[i].fd \in Conns
    BY <1>0, QueueTyped
  <2>2. \A i \in DOMAIN q : Announced(q[i].fd)'
    BY <1>1, <1>4, <2>1 DEF CountInv, QueueOrdered
  <2>3. \A i \in DOMAIN q : q[i].type = "DISCONNECT" => srvEnd'[q[i].fd] = "closed"
    BY <1>0, <1>1, <2>1 DEF CountInv, QueueOrdered, ConnTypeOK
  <2>4. Queued("CONNECT")'
            \subseteq (connected_nodes' \ {rx'.conn}) \cup Queued("DISCONNECT")'
    BY <1>0, <1>1, <1>2, <1>3 DEF CountInv, QueueOrdered, ConnTypeOK, Conns
  <2>5. InOrder(q)'
    BY <1>1 DEF CountInv, QueueOrdered, InOrder
  <2> QED
    BY <1>1, <2>2, <2>3, <2>4, <2>5 DEF QueueOrdered
<1>7. ServedAnnounced'
  <2>1. served \subseteq Conns /\ (mpc = "sync" => dest \in Conns)
    BY DEF TypeOK, ReplTypeOK, SyncDest
  <2>2. \A d \in served : Announced(d)' /\ d \notin Queued("CONNECT")'
    BY <1>3, <1>4, <2>1 DEF CountInv, ServedAnnounced
  <2>3. mpc = "sync" => Announced(dest)' /\ dest \notin Queued("CONNECT")'
    BY <1>1, <1>3, <1>4, <2>1 DEF CountInv, ServedAnnounced, Announced
  <2> QED
    BY <1>1, <2>2, <2>3 DEF ServedAnnounced
<1>8. ServerCount'
  <2>1. connected_nodes' \ {rx'.conn} = connected_nodes \ {rx.conn}
    BY <1>0, <1>1, <1>2 DEF ConnTypeOK, Conns
  <2>2. Counted' = Counted
    BY <1>3, <2>1 DEF Counted
  <2> QED
    BY <1>1, <2>2 DEF CountInv, ServerCount
<1> QED
    BY <1>5, <1>6, <1>7, <1>8 DEF CountInv

-----------------------------------------------------------------------------
\* The worker of the master

LEMMA CountedFinite == ConnTypeOK => IsFiniteSet(Counted) /\ Cardinality(Counted) \in Nat
<1> SUFFICES ASSUME ConnTypeOK PROVE IsFiniteSet(Counted) /\ Cardinality(Counted) \in Nat
    OBVIOUS
<1>1. Counted \in SUBSET Conns
    BY DEF Counted, Queued, ConnTypeOK
<1>2. IsFiniteSet(Counted)
    BY <1>1, FiniteConns, FS_Subset
<1> QED
    BY <1>2, FS_CardinalityType

(***************************************************************************)
(* Taking a request off the queue: CONNECT counts its node in, DISCONNECT  *)
(* counts it out, SYNC_REQUEST comes from a node that is counted in or     *)
(* whose CONNECT will never come again.                                    *)
(***************************************************************************)
LEMMA HandleCount ==
    ASSUME TypeOK, CountInv, HandleRequest
    PROVE  CountInv'
<1> DEFINE q == input_packet_queue
           h == Head(q)
<1>0. ConnTypeOK /\ q \in Seq(Requests)
    BY DEF TypeOK, ConnTypeOK
<1>1. /\ UNCHANGED <<srvEnd, made, rx, connected_nodes, is_running, served>>
      /\ q # <<>> /\ input_packet_queue' = Tail(q)
      /\ mpc' # "off"
    BY DEF HandleRequest, Worker, netVars
<1>2. h \in Requests
    BY <1>0, <1>1, HeadTailType
<1>3. PICK t \in {"CONNECT", "SYNC_REQUEST", "DISCONNECT"}, c \in Conns :
          h = Request(t, c)
    BY <1>2, RequestForm
<1>4. h.type = t /\ h.fd = c
    BY <1>3, RequestInjective
<1>5. /\ t = "CONNECT" => backup_servers_fd' = backup_servers_fd + 1
      /\ t = "DISCONNECT" => backup_servers_fd' = backup_servers_fd - 1
      /\ t = "SYNC_REQUEST" => /\ backup_servers_fd' = backup_servers_fd
                               /\ dest' = c
      /\ t # "SYNC_REQUEST" => mpc' # "sync"
    BY <1>4 DEF HandleRequest, CountConnect, CountDisconnect, ReplyTo, Worker
<1>6. \A d : Announced(d)' <=> Announced(d)
    BY <1>1 DEF Announced
<1>7. \A u : u # t => Queued(u)' = Queued(u)
  <2> SUFFICES ASSUME NEW u, u # t PROVE Queued(u)' = Queued(u)
    OBVIOUS
  <2>1. {d \in Conns : h = Request(u, d)} = {}
    BY <1>3, RequestInjective
  <2> QED
    BY <1>0, <1>1, <2>1, QueuedTail
<1>8. Queued(t) = Queued(t)' \cup {c}
  <2>1. {d \in Conns : h = Request(t, d)} = {c}
    BY <1>3, RequestInjective
  <2> QED
    BY <1>0, <1>1, <2>1, QueuedTail
<1>9. InOrder(Tail(q)) /\ \A i \in DOMAIN Tail(q) : MayFollow(h, Tail(q)[i])
    BY <1>0, <1>1, OrderTail DEF CountInv, QueueOrdered
<1>10. c \notin Queued("CONNECT")'
    BY <1>1, <1>4, <1>9, RequestInjective DEF Queued, MayFollow
<1>11. t = "DISCONNECT" => c \notin Queued("DISCONNECT")'
    BY <1>1, <1>4, <1>9, RequestInjective DEF Queued, MayFollow
<1>12. /\ Announced(c)
       /\ t = "DISCONNECT" => srvEnd[c] = "closed" \/ rx.conn = c
  <2>1. 1 \in DOMAIN q /\ q[1] = h
    BY <1>0, <1>1
  <2> QED
    BY <1>4, <2>1 DEF CountInv, QueueOrdered
<1>13. NodesOpen'
    BY <1>1 DEF CountInv, NodesOpen
<1>14. QueueOrdered'
  <2>1. InOrder(q)'
    BY <1>1, <1>9
  <2>2. ASSUME NEW x \in Requests, \E i \in DOMAIN q' : q'[i] = x
        PROVE  /\ Announced(x.fd)'
               /\ x.type = "DISCONNECT" => \/ srvEnd'[x.fd] = "closed"
                                           \/ rx'.at = "closing" /\ rx'.conn = x.fd
    <3>1. PICK k \in DOMAIN q : q[k] = x
      BY <1>0, <1>1, <2>2, InTail
    <3>2. /\ Announced(x.fd)
          /\ x.type = "DISCONNECT" => \/ srvEnd[x.fd] = "closed"
                                      \/ rx.at = "closing" /\ rx.conn = x.fd
      BY <3>1 DEF CountInv, QueueOrdered
    <3> QED
      BY <1>1, <1>6, <3>2
  <2>a. \A i \in DOMAIN q' : q'[i] \in Requests
    <3>1. q' \in Seq(Requests)
      BY <1>0, <1>1, HeadTailType
    <3> QED
      BY <3>1
  <2>3. Queued("CONNECT")'
            \subseteq (connected_nodes' \ {rx'.conn}) \cup Queued("DISCONNECT")'
    <3>1. CASE t = "CONNECT"
      BY <1>1, <1>7, <1>8, <3>1 DEF CountInv, QueueOrdered
    <3>2. CASE t = "DISCONNECT"
      BY <1>1, <1>7, <1>8, <1>10, <3>2 DEF CountInv, QueueOrdered
    <3>3. CASE t = "SYNC_REQUEST"
      BY <1>1, <1>7, <3>3 DEF CountInv, QueueOrdered
    <3> QED
      BY <1>3, <3>1, <3>2, <3>3
  <2> QED
    BY <2>1, <2>2, <2>3, <2>a DEF QueueOrdered
<1>15. Queued("CONNECT")' \subseteq Queued("CONNECT")
    BY <1>7, <1>8
<1>16. ServedAnnounced'
  <2>1. \A d \in served' : Announced(d)' /\ d \notin Queued("CONNECT")'
    BY <1>1, <1>6, <1>15 DEF CountInv, ServedAnnounced
  <2>2. mpc' = "sync" => dest' = c /\ Announced(c)' /\ c \notin Queued("CONNECT")'
    BY <1>3, <1>5, <1>6, <1>10, <1>12
  <2>3. mpc' = "sync" => Announced(dest)' /\ (dest \notin Queued("CONNECT"))'
    BY <2>2 DEF Announced
  <2> QED
    BY <2>1, <2>3 DEF ServedAnnounced
<1>17. ServerCount'
  <2> DEFINE cn == connected_nodes \ {rx.conn}
  <2>0. IsFiniteSet(Counted) /\ backup_servers_fd = Cardinality(Counted)
    BY <1>0, CountedFinite DEF CountInv, ServerCount
  <2>1. /\ Counted = (cn \cup Queued("DISCONNECT")) \ Queued("CONNECT")
        /\ Counted' = (cn \cup Queued("DISCONNECT")') \ Queued("CONNECT")'
    BY <1>1 DEF Counted
  <2>2. CASE t = "CONNECT"
    <3>1. c \in cn \cup Queued("DISCONNECT")
      BY <1>8, <2>2 DEF CountInv, QueueOrdered
    <3>2. Counted' = Counted \cup {c} /\ c \notin Counted
      BY <1>7, <1>8, <1>10, <2>1, <2>2, <3>1
    <3>3. Cardinality(Counted \cup {c}) = Cardinality(Counted) + 1
      BY <2>0, <3>2, FS_AddElement
    <3> QED
      BY <1>5, <2>0, <2>2, <3>2, <3>3 DEF ServerCount
  <2>3. CASE t = "DISCONNECT"
    <3>1. c \notin cn
      BY <1>12, <2>3 DEF CountInv, NodesOpen
    <3>a. Queued("CONNECT")' = Queued("CONNECT")
      BY <1>7, <2>3
    <3>2. Counted' = Counted \ {c} /\ c \in Counted
      BY <1>8, <1>10, <1>11, <2>1, <2>3, <3>1, <3>a
    <3>3. Cardinality(Counted \ {c}) = Cardinality(Counted) - 1
      BY <2>0, <3>2, FS_RemoveElement
    <3> QED
      BY <1>5, <2>0, <2>3, <3>2, <3>3 DEF ServerCount
  <2>4. CASE t = "SYNC_REQUEST"
    BY <1>5, <1>7, <2>0, <2>1, <2>4 DEF ServerCount
  <2> QED
    BY <1>3, <2>2, <2>3, <2>4
<1> QED
    BY <1>13, <1>14, <1>16, <1>17 DEF CountInv

LEMMA SyncCount ==
    ASSUME CountInv, HandleHttpSync
    PROVE  CountInv'
<1>1. /\ UNCHANGED <<srvEnd, made, rx, connected_nodes, is_running,
                     input_packet_queue, backup_servers_fd>>
      /\ mpc = "sync" /\ mpc' = "top" /\ served' = served \cup {dest}
    BY DEF HandleHttpSync, Worker, netVars, serverVars
<1>2. /\ Queued("CONNECT")' = Queued("CONNECT")
      /\ Queued("DISCONNECT")' = Queued("DISCONNECT")
    BY <1>1 DEF Queued
<1>3. \A c : Announced(c)' <=> Announced(c)
    BY <1>1 DEF Announced
<1>4. NodesOpen'
    BY <1>1 DEF CountInv, NodesOpen
<1>5. QueueOrdered'
    BY <1>1, <1>2, <1>3 DEF CountInv, QueueOrdered, InOrder, MayFollow
<1>6. ServedAnnounced'
    BY <1>1, <1>2, <1>3 DEF CountInv, ServedAnnounced
<1>7. ServerCount'
    BY <1>1, <1>2 DEF CountInv, ServerCount, Counted
<1> QED
    BY <1>4, <1>5, <1>6, <1>7 DEF CountInv

LEMMA WorkerCount ==
    ASSUME TypeOK, CountInv, MasterWorker
    PROVE  CountInv'
<1> USE DEF connVars, netVars, serverVars, sendVars, clientVars, workerVars,
            masterVars
<1>1. CASE HandleRequest
    BY <1>1, HandleCount
<1>2. CASE HandleHttpSync
    BY <1>2, SyncCount
<1>3. CASE NoRequest \/ WorkerEnds \/ Sleep
    BY <1>3, CountStutter DEF NoRequest, WorkerEnds, Sleep
<1>4. CASE DropHttp
    BY <1>4, CountStutter DEF DropHttp
<1>5. CASE EnterHttp \/ HttpDone \/ EnterRecent \/ RecentDone
    BY <1>5, CountStutter DEF EnterHttp, HttpDone, EnterRecent, RecentDone
<1>6. CASE FarmEvent \/ HttpUpdate \/ RecentUpdate
    BY <1>6, CountStutter DEF FarmEvent, HttpUpdate, RecentUpdate, Worker
<1>7. CASE Deliver
  <2>1. dest' = dest
    BY <1>7 DEF Deliver, SendNext, Send, HandleSend, HandleSendError
  <2>2. UNCHANGED <<srvEnd, made, rx, connected_nodes, is_running,
                    input_packet_queue, backup_servers_fd, served, mpc>>
    BY <1>7 DEF Deliver, HandleSend, HandleSendError
  <2> QED
    BY <2>1, <2>2, CountStutter
<1> QED
    BY <1>1, <1>2, <1>3, <1>4, <1>5, <1>6, <1>7 DEF MasterWorker

-----------------------------------------------------------------------------
\* The other threads and processes

LEMMA ReceiveCount ==
    ASSUME TypeOK, CountInv, MasterReceive
    PROVE  CountInv'
<1>1. UNCHANGED <<masterVars, served>>
    BY DEF MasterReceive
<1>2. ASSUME NEW c \in Conns, ReadError(c) PROVE CountInv'
    BY <1>1, <1>2, CountStutter
    DEF ReadError, serverVars, sendVars, masterVars, workerVars
<1> QED
    BY <1>1, <1>2, AcceptCount, AnnounceCount, ReadCount, EraseCount
    DEF MasterReceive, ServerReceive

LEMMA ConnectCount ==
    ASSUME TypeOK, CountInv, NEW b \in Backups, Connect(b),
           UNCHANGED <<masterVars, served>>
    PROVE  CountInv'
<1> DEFINE q == input_packet_queue
<1>0. ConnTypeOK
    BY DEF TypeOK
<1>1. PICK c : c = made + 1
    OBVIOUS
<1>2. /\ c \in Conns /\ c > made /\ made' = c
      /\ srvEnd' = [srvEnd EXCEPT ![c] = "backlog"]
      /\ UNCHANGED <<rx, connected_nodes, is_running, input_packet_queue,
                     backup_servers_fd, served, mpc, dest>>
    BY <1>0, <1>1, ConnectionAssumption
    DEF Connect, ConnTypeOK, Conns, sendVars, masterVars, workerVars
<1>3. srvEnd[c] = "none"
    BY <1>2 DEF CountInv, NodesOpen
<1>4. /\ Queued("CONNECT")' = Queued("CONNECT")
      /\ Queued("DISCONNECT")' = Queued("DISCONNECT")
    BY <1>2 DEF Queued
<1>5. \A d \in Conns : Announced(d) => d # c /\ Announced(d)'
    BY <1>0, <1>2, <1>3 DEF Announced, ConnTypeOK
<1>6. NodesOpen'
  <2>1. connected_nodes' = {d \in Conns : srvEnd'[d] = "open"}
    BY <1>0, <1>2, <1>3 DEF CountInv, NodesOpen, ConnTypeOK
  <2>2. \A d \in Conns : d > made' => srvEnd'[d] = "none"
    BY <1>0, <1>1, <1>2 DEF CountInv, NodesOpen, ConnTypeOK, Conns
  <2> QED
    BY <1>2, <2>1, <2>2 DEF CountInv, NodesOpen, Polling
<1>7. QueueOrdered'
  <2>1. \A i \in DOMAIN q : q[i].fd \in Conns
    BY <1>0, QueueTyped
  <2>2. \A i \in DOMAIN q : /\ Announced(q[i].fd)' /\ q[i].fd # c
                            /\ srvEnd'[q[i].fd] = srvEnd[q[i].fd]
    BY <1>0, <1>2, <1>5, <2>1 DEF CountInv, QueueOrdered, ConnTypeOK
  <2>3. InOrder(q)'
    BY <1>2 DEF CountInv, QueueOrdered, InOrder
  <2> QED
    BY <1>2, <1>4, <2>2, <2>3 DEF CountInv, QueueOrdered
<1>8. ServedAnnounced'
  <2>1. served \subseteq Conns /\ (mpc = "sync" => dest \in Conns)
    BY DEF TypeOK, ReplTypeOK, SyncDest
  <2>2. \A d \in served : Announced(d)' /\ d \notin Queued("CONNECT")'
    BY <1>4, <1>5, <2>1 DEF CountInv, ServedAnnounced
  <2>3. mpc = "sync" => Announced(dest)' /\ dest \notin Queued("CONNECT")'
    BY <1>2, <1>4, <1>5, <2>1 DEF CountInv, ServedAnnounced, Announced
  <2> QED
    BY <1>2, <2>2, <2>3 DEF ServedAnnounced
<1>9. ServerCount'
    BY <1>2, <1>4 DEF CountInv, ServerCount, Counted
<1> QED
    BY <1>6, <1>7, <1>8, <1>9 DEF CountInv

(***************************************************************************)
(* A master that has gone knows nobody.                                    *)
(***************************************************************************)
LEMMA GoneCount ==
    ASSUME TypeOK, CountInv, MasterGone
    PROVE  CountInv'
<1>0. ConnTypeOK
    BY DEF TypeOK
<1>1. /\ srvEnd' = [c \in Conns |-> IF srvEnd[c] = "none" THEN "none" ELSE "closed"]
      /\ is_running' = FALSE /\ rx' = Polling /\ connected_nodes' = {}
      /\ input_packet_queue' = <<>> /\ backup_servers_fd' = 0
      /\ made' = made /\ served' = served /\ mpc' = "off"
    BY DEF MasterGone, CloseServer
<1>2. \A t : Queued(t)' = {}
    BY <1>1 DEF Queued
<1>3. \A c \in Conns : Announced(c) => Announced(c)'
    BY <1>1 DEF Announced, Polling
<1>4. NodesOpen'
    BY <1>1 DEF CountInv, NodesOpen
<1>5. QueueOrdered'
    BY <1>1, <1>2 DEF QueueOrdered, InOrder
<1>6. ServedAnnounced'
    BY <1>1, <1>2, <1>3 DEF CountInv, ServedAnnounced, TypeOK, ReplTypeOK
<1>7. ServerCount'
  <2>1. Counted' = {}
    BY <1>1, <1>2 DEF Counted
  <2> QED
    BY <1>1, <2>1, FS_EmptySet DEF ServerCount
<1> QED
    BY <1>4, <1>5, <1>6, <1>7 DEF CountInv

LEMMA StartCount ==
    ASSUME CountInv, MasterStart
    PROVE  CountInv'
<1>1. /\ UNCHANGED <<srvEnd, made, rx, connected_nodes, input_packet_queue, served>>
      /\ mpc = "off" /\ mpc' = "top" /\ backup_servers_fd' = 0
    BY DEF MasterStart, StartServer, netVars
<1>2. connected_nodes = {} /\ input_packet_queue = <<>>
    BY <1>1 DEF CountInv, NodesOpen
<1>3. \A t : Queued(t)' = {} /\ Queued(t) = {}
    BY <1>1, <1>2 DEF Queued
<1>4. \A c : Announced(c)' <=> Announced(c)
    BY <1>1 DEF Announced
<1>5. NodesOpen'
    BY <1>1 DEF CountInv, NodesOpen, Polling
<1>6. QueueOrdered'
    BY <1>1, <1>2, <1>3 DEF QueueOrdered, InOrder
<1>7. ServedAnnounced'
    BY <1>1, <1>3, <1>4 DEF CountInv, ServedAnnounced
<1>8. ServerCount'
  <2>1. Counted' = {}
    BY <1>1, <1>2, <1>3 DEF Counted
  <2> QED
    BY <1>1, <2>1, FS_EmptySet DEF ServerCount
<1> QED
    BY <1>5, <1>6, <1>7, <1>8 DEF CountInv

LEMMA BackupCount ==
    ASSUME TypeOK, CountInv, NEW b \in Backups,
           BackupStart(b) \/ BackupWorker(b) \/ BackupReceive(b) \/ BackupCrash(b)
    PROVE  CountInv'
<1> USE DEF connVars, netVars, serverVars, sendVars, masterVars, workerVars
<1>1. CASE Dial(b)
    BY <1>1, ConnectCount DEF Dial
<1>2. CASE BackupStart(b) \/ Dialed(b) \/ EnterRun(b) \/ Recheck(b)
    BY <1>2, CountStutter DEF BackupStart, Dialed, EnterRun, Recheck
<1>3. CASE ExitFailure(b) \/ BackupCrash(b)
    BY <1>3, CountStutter DEF ExitFailure, BackupCrash, Gone, CloseClient
<1>4. CASE FirstRequest(b) \/ HandlePacket(b) \/ Resync(b)
    BY <1>4, CountStutter DEF FirstRequest, HandlePacket, Resync
<1>5. CASE BackupReceive(b)
    BY <1>5, CountStutter DEF BackupReceive, ClientReceive, ReadPacket,
                              ReadEofClient, ReadErrorClient
<1> QED
    BY <1>1, <1>2, <1>3, <1>4, <1>5 DEF BackupWorker

LEMMA CountStep == TypeOK /\ CountInv /\ [Next]_vars => CountInv'
<1> SUFFICES ASSUME TypeOK, CountInv, [Next]_vars PROVE CountInv'
    OBVIOUS
<1> USE DEF connVars, netVars, serverVars, sendVars, masterVars, workerVars
<1>1. CASE ListenersAndCommands
    BY <1>1, CountStutter DEF ListenersAndCommands, PoundSends, PollerQueues,
          StartHttp, FarmGone, ClearHttp, StartRecent, StopRecent
<1>2. CASE Quit \/ StopListeners
    BY <1>2, CountStutter DEF Quit, StopListeners
<1>3. CASE MasterCrash \/ Exit
    BY <1>3, GoneCount DEF MasterCrash, Exit
<1>4. ASSUME NEW c \in Conns, Network(c) PROVE CountInv'
    BY <1>4, CountStutter DEF Network, ResetSender, ResetBoth
<1>5. CASE UNCHANGED vars
    BY <1>5, CountStutter DEF vars
<1> QED
    BY <1>1, <1>2, <1>3, <1>4, <1>5, WorkerCount, ReceiveCount, StartCount,
       BackupCount DEF Next

LEMMA CountInit == Init => CountInv
<1> SUFFICES ASSUME Init PROVE CountInv
    OBVIOUS
<1>1. /\ connected_nodes = {} /\ input_packet_queue = <<>> /\ rx = Polling
      /\ served = {} /\ mpc = "off" /\ is_running = FALSE
      /\ srvEnd = [c \in Conns |-> "none"] /\ backup_servers_fd = 0
    BY DEF Init, ConnInit
<1>2. \A t : Queued(t) = {}
    BY <1>1 DEF Queued
<1>3. Counted = {}
    BY <1>1, <1>2 DEF Counted
<1>4. ServerCount
    BY <1>1, <1>3, FS_EmptySet DEF ServerCount
<1> QED
    BY <1>1, <1>2, <1>4
    DEF CountInv, NodesOpen, QueueOrdered, InOrder, ServedAnnounced

(***************************************************************************)
(* A node that was answered and is still connected is among the counted.   *)
(***************************************************************************)
LEMMA CountedServed == TypeOK /\ CountInv => ServedCounted
<1> SUFFICES ASSUME TypeOK, CountInv, NEW c \in served \cap connected_nodes,
                    c # rx.conn
             PROVE  backup_servers_fd > 0
    BY DEF ServedCounted
<1>1. c \in Counted
    BY DEF CountInv, ServedAnnounced, Counted
<1>2. IsFiniteSet(Counted) /\ Cardinality(Counted) \in Nat
    BY CountedFinite DEF TypeOK
<1>3. Cardinality(Counted) # 0
    BY <1>1, <1>2, FS_EmptySet
<1> QED
    BY <1>2, <1>3 DEF CountInv, ServerCount

(***************************************************************************)
(* backup_servers_fd is the number of backups counted in, in every         *)
(* reachable state and for any number of backups, connections and crashes. *)
(***************************************************************************)
THEOREM ServerCountHolds == Spec => []ServerCount
<1>1. Init => TypeOK /\ CountInv
    BY TypeInit, CountInit
<1>2. TypeOK /\ CountInv /\ [Next]_vars => (TypeOK /\ CountInv)'
    BY TypeStep, CountStep
<1>3. TypeOK /\ CountInv => ServerCount
    BY DEF CountInv
<1> QED
    BY <1>1, <1>2, <1>3, PTL DEF Spec

(***************************************************************************)
(* While a backup that was sent everything is connected, sync_master::run  *)
(* goes on broadcasting: the counter it tests is positive.                 *)
(***************************************************************************)
THEOREM ServedCountedHolds == Spec => []ServedCounted
<1>1. Init => TypeOK /\ CountInv
    BY TypeInit, CountInit
<1>2. TypeOK /\ CountInv /\ [Next]_vars => (TypeOK /\ CountInv)'
    BY TypeStep, CountStep
<1> QED
    BY <1>1, <1>2, CountedServed, PTL DEF Spec
=============================================================================
