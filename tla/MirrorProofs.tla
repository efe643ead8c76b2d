---------------------------- MODULE MirrorProofs ----------------------------
(***************************************************************************)
(* What replication is for, proved: no entry and no session of the master  *)
(* is lost on its way to a backup that has been answered, for any number   *)
(* of backups, connections, sessions, entries, commands and failures; and  *)
(* when nothing fails, no session is on a backup that the master lacks and *)
(* the protocol implements LaggedCopy.                                     *)
(***************************************************************************)
EXTENDS Mirror, ReplicationProofs, FoldLemmas

-----------------------------------------------------------------------------
\* Replaying the packets on their way

Incoming == Packets \cup {Disconnect}
Stores   == [http: HttpStore, recent: RecentStore]

HttpStep == [p \in Incoming |-> [h \in HttpStore |->
                IF p.type = "HTTP_SYNC" THEN apply_http_action(h, p) ELSE h]]
RecentStep == [p \in Incoming |-> [r \in RecentStore |->
                IF p.type = "XT_RECENT_SYNC" THEN apply_recent_action(r, p) ELSE r]]
ReplayStep == [p \in Incoming |-> [st \in Stores |-> Replay(st, p)]]

LEMMA PacketKinds ==
    ASSUME NEW p \in Incoming
    PROVE  \/ p = Disconnect /\ p.type = "DISCONNECT"
           \/ p \in HttpPackets /\ p.type = "HTTP_SYNC"
           \/ p \in RecentPackets /\ p.type = "XT_RECENT_SYNC"
BY DEF Incoming, Packets, HttpPackets, RecentPackets, Disconnect

(***************************************************************************)
(* A packet changes the store it is for and leaves the other one alone.    *)
(***************************************************************************)
LEMMA ReplayParts ==
    ASSUME NEW st \in Stores, NEW p \in Incoming
    PROVE  /\ Replay(st, p) \in Stores
           /\ Replay(st, p).http = HttpStep[p][st.http]
           /\ Replay(st, p).recent = RecentStep[p][st.recent]
           /\ HttpStep[p][st.http] \in HttpStore
           /\ RecentStep[p][st.recent] \in RecentStore
<1>0. st.http \in HttpStore /\ st.recent \in RecentStore
  BY DEF Stores
<1>1. CASE p \in HttpPackets /\ p.type = "HTTP_SYNC"
  <2>1. HttpStep[p][st.http] = apply_http_action(st.http, p)
    BY <1>0, <1>1 DEF HttpStep
  <2>2. RecentStep[p][st.recent] = st.recent
    BY <1>0, <1>1 DEF RecentStep
  <2>3. Replay(st, p) = [st EXCEPT !.http = apply_http_action(st.http, p)]
    BY <1>1 DEF Replay
  <2>4. apply_http_action(st.http, p) \in HttpStore
    BY <1>0, <1>1, ApplyHttpType
  <2> QED
    BY <1>0, <2>1, <2>2, <2>3, <2>4 DEF Stores
<1>2. CASE p \in RecentPackets /\ p.type = "XT_RECENT_SYNC"
  <2>1. HttpStep[p][st.http] = st.http
    BY <1>0, <1>2 DEF HttpStep
  <2>2. RecentStep[p][st.recent] = apply_recent_action(st.recent, p)
    BY <1>0, <1>2 DEF RecentStep
  <2>3. Replay(st, p) = [st EXCEPT !.recent = apply_recent_action(st.recent, p)]
    BY <1>2 DEF Replay
  <2>4. apply_recent_action(st.recent, p) \in RecentStore
    BY <1>0, <1>2, ApplyRecentType
  <2> QED
    BY <1>0, <2>1, <2>2, <2>3, <2>4 DEF Stores
<1>3. CASE p = Disconnect /\ p.type = "DISCONNECT"
  <2>1. HttpStep[p][st.http] = st.http
    BY <1>0, <1>3 DEF HttpStep
  <2>2. RecentStep[p][st.recent] = st.recent
    BY <1>0, <1>3 DEF RecentStep
  <2>3. Replay(st, p) = st
    BY <1>3 DEF Replay
  <2> QED
    BY <1>0, <2>1, <2>2, <2>3
<1> QED
  BY <1>1, <1>2, <1>3, PacketKinds

LEMMA StepTypes ==
    /\ HttpStep \in [Incoming -> [HttpStore -> HttpStore]]
    /\ RecentStep \in [Incoming -> [RecentStore -> RecentStore]]
    /\ ReplayStep \in [Incoming -> [Stores -> Stores]]
<1>1. \A st \in Stores, p \in Incoming : Replay(st, p) \in Stores
  BY ReplayParts
<1>2. ASSUME NEW h \in HttpStore, NEW p \in Incoming
      PROVE  HttpStep[p][h] \in HttpStore
  <2> DEFINE st == [http |-> h, recent |-> EmptyRecent]
  <2>1. st \in Stores /\ st.http = h
    BY EmptyTypes DEF Stores
  <2> HIDE DEF st
  <2> QED
    BY <2>1, ReplayParts
<1>3. ASSUME NEW r \in RecentStore, NEW p \in Incoming
      PROVE  RecentStep[p][r] \in RecentStore
  <2> DEFINE st == [http |-> EmptyHttp, recent |-> r]
  <2>1. st \in Stores /\ st.recent = r
    BY EmptyTypes DEF Stores
  <2> HIDE DEF st
  <2> QED
    BY <2>1, ReplayParts
<1>4. HttpStep \in [Incoming -> [HttpStore -> HttpStore]]
  <2>1. \A p \in Incoming, h \in HttpStore :
           HttpStep[p][h] = IF p.type = "HTTP_SYNC" THEN apply_http_action(h, p) ELSE h
    BY DEF HttpStep
  <2> QED
    BY <1>2, <2>1 DEF HttpStep
<1>5. RecentStep \in [Incoming -> [RecentStore -> RecentStore]]
  <2>1. \A p \in Incoming, r \in RecentStore :
           RecentStep[p][r] =
              IF p.type = "XT_RECENT_SYNC" THEN apply_recent_action(r, p) ELSE r
    BY DEF RecentStep
  <2> QED
    BY <1>3, <2>1 DEF RecentStep
<1> QED
  BY <1>1, <1>4, <1>5 DEF ReplayStep

(***************************************************************************)
(* FoldLeft of the community modules, unfolded.                            *)
(***************************************************************************)
LEMMA ReplayFold ==
    ASSUME NEW st \in Stores, NEW q \in Seq(Incoming)
    PROVE  FoldLeft(Replay, st, q) = Result(Stores, ReplayStep, st, q)
<1> DEFINE n == Len(q)
           Eq(g) == g = [s \in SUBSET (DOMAIN q) |->
                           IF s = {} THEN st
                           ELSE Replay(g[s \ {Max(s)}], q[Max(s)])]
           c == CHOOSE g : Eq(g)
<1>1. FoldLeft(Replay, st, q) = c[DOMAIN q]
  BY DEF FoldLeft, MapThenFoldSet
<1>2. n \in Nat /\ DOMAIN q = 1 .. n
  OBVIOUS
<1>3. \A s \in SUBSET (1 .. n) : s # {} =>
         Max(s) \in s /\ q[Max(s)] \in Incoming /\ s \ {Max(s)} \in SUBSET (1 .. n)
  <2> SUFFICES ASSUME NEW s \in SUBSET (1 .. n), s # {}
               PROVE  Max(s) \in s /\ q[Max(s)] \in Incoming
                      /\ s \ {Max(s)} \in SUBSET (1 .. n)
    OBVIOUS
  <2>1. Max(s) \in s
    <3> HIDE DEF n
    <3> QED
      BY <1>2, MaxOf
  <2>2. \A i \in 1 .. n : q[i] \in Incoming
    OBVIOUS
  <2> HIDE DEF n
  <2> QED
    BY <2>1, <2>2
<1>4. PICK g : Folds(n, g, Stores, ReplayStep, st, q)
  BY StepTypes, FoldingFunction
<1>5. /\ g \in [SUBSET (1 .. n) -> Stores] /\ g[{}] = st
      /\ \A s \in SUBSET (1 .. n) :
            s # {} => g[s] = ReplayStep[q[Max(s)]][g[s \ {Max(s)}]]
  BY <1>4 DEF Folds
<1>6. Eq(g)
  <2> DEFINE body(s) == IF s = {} THEN st ELSE Replay(g[s \ {Max(s)}], q[Max(s)])
  <2>1. ASSUME NEW s \in SUBSET (1 .. n) PROVE g[s] = body(s)
    <3>1. CASE s = {}
      BY <1>5, <3>1
    <3>2. CASE s # {}
      <4>1. q[Max(s)] \in Incoming /\ g[s \ {Max(s)}] \in Stores
        BY <1>3, <1>5, <3>2
      <4> QED
        BY <1>5, <3>2, <4>1 DEF ReplayStep
    <3> QED
      BY <3>1, <3>2
  <2> HIDE DEF body, n
  <2>2. g = [s \in SUBSET (1 .. n) |-> body(s)]
    BY <1>5, <2>1
  <2> QED
    BY <1>2, <2>2 DEF body
<1>7. Eq(c)
  <2> HIDE DEF Eq
  <2> QED
    BY <1>6
<1> HIDE DEF c, n
<1>8. \A s \in SUBSET (1 .. n) :
         c[s] = IF s = {} THEN st ELSE Replay(c[s \ {Max(s)}], q[Max(s)])
  BY <1>2, <1>7
<1>9. c[{}] = st
  BY <1>8
<1>10. \A s \in SUBSET (1 .. n) :
          s # {} /\ c[s \ {Max(s)}] \in Stores =>
             c[s] = ReplayStep[q[Max(s)]][c[s \ {Max(s)}]]
  <2> SUFFICES ASSUME NEW s \in SUBSET (1 .. n), s # {}, c[s \ {Max(s)}] \in Stores
               PROVE  c[s] = ReplayStep[q[Max(s)]][c[s \ {Max(s)}]]
    OBVIOUS
  <2>1. c[s] = Replay(c[s \ {Max(s)}], q[Max(s)])
    BY <1>8
  <2>2. q[Max(s)] \in Incoming
    BY <1>3
  <2> QED
    BY <2>1, <2>2 DEF ReplayStep
<1>11. c[1 .. n] = Result(Stores, ReplayStep, st, q)
  <2>1. FoldsIn(c, Stores, ReplayStep, st, q)
    BY <1>9, <1>10 DEF n, FoldsIn
  <2>2. c[1 .. Len(q)] = Result(Stores, ReplayStep, st, q)
    BY <2>1, StepTypes, FoldValue
  <2> QED
    BY <2>2 DEF n
<1> QED
  BY <1>1, <1>2, <1>11

(***************************************************************************)
(* Each store is the result of its own packets.                            *)
(***************************************************************************)
LEMMA ReplayResult ==
    ASSUME NEW h \in HttpStore, NEW r \in RecentStore, NEW q \in Seq(Incoming)
    PROVE  LET w == FoldLeft(Replay, [http |-> h, recent |-> r], q) IN
           /\ w.http = Result(HttpStore, HttpStep, h, q)
           /\ w.recent = Result(RecentStore, RecentStep, r, q)
<1> DEFINE st == [http |-> h, recent |-> r]
           n == Len(q)
<1>1. st \in Stores /\ st.http = h /\ st.recent = r
  BY DEF Stores
<1>2. n \in Nat /\ \A i \in 0 .. n - 1 : i + 1 \in 1 .. n /\ q[i + 1] \in Incoming
  OBVIOUS
<1> HIDE DEF st
<1>3. PICK g : IsRun(g, Stores, ReplayStep, st, q)
  BY <1>1, StepTypes, RunExists
<1>4. /\ g \in [0 .. n -> Stores] /\ g[0] = st
      /\ \A i \in 0 .. n - 1 : g[i + 1] = ReplayStep[q[i + 1]][g[i]]
  BY <1>3 DEF IsRun
<1>5. FoldLeft(Replay, st, q) = g[n]
  <2>1. FoldLeft(Replay, st, q) = Result(Stores, ReplayStep, st, q)
    BY <1>1, ReplayFold
  <2>2. Result(Stores, ReplayStep, st, q) = g[n]
    BY <1>1, <1>3, StepTypes, ResultRun
  <2> QED
    BY <2>1, <2>2
<1> DEFINE hs == [i \in 0 .. n |-> g[i].http]
           rs == [i \in 0 .. n |-> g[i].recent]
<1>6. \A i \in 0 .. n : g[i].http \in HttpStore /\ g[i].recent \in RecentStore
  BY <1>4 DEF Stores
<1>7. \A i \in 0 .. n - 1 :
         /\ g[i + 1].http = HttpStep[q[i + 1]][g[i].http]
         /\ g[i + 1].recent = RecentStep[q[i + 1]][g[i].recent]
  <2> SUFFICES ASSUME NEW i \in 0 .. n - 1
               PROVE  /\ g[i + 1].http = HttpStep[q[i + 1]][g[i].http]
                      /\ g[i + 1].recent = RecentStep[q[i + 1]][g[i].recent]
    OBVIOUS
  <2> HIDE DEF n
  <2>1. g[i] \in Stores /\ q[i + 1] \in Incoming
    BY <1>2, <1>4
  <2>2. g[i + 1] = Replay(g[i], q[i + 1])
    BY <1>4, <2>1 DEF ReplayStep
  <2> QED
    BY <2>1, <2>2, ReplayParts
<1>8. IsRun(hs, HttpStore, HttpStep, h, q)
  BY <1>1, <1>2, <1>4, <1>6, <1>7 DEF IsRun
<1>9. IsRun(rs, RecentStore, RecentStep, r, q)
  BY <1>1, <1>2, <1>4, <1>6, <1>7 DEF IsRun
<1>10. hs[n] = g[n].http /\ rs[n] = g[n].recent
  BY <1>2
<1> HIDE DEF hs, rs
<1>11. Result(HttpStore, HttpStep, h, q) = hs[n]
  BY <1>8, StepTypes, ResultRun
<1>12. Result(RecentStore, RecentStep, r, q) = rs[n]
  BY <1>9, StepTypes, ResultRun
<1> QED
  BY <1>5, <1>10, <1>11, <1>12 DEF st
-----------------------------------------------------------------------------
\* What is on its way to a backup

LEMMA ConcatType ==
    ASSUME NEW S, NEW s \in Seq(S), NEW t \in Seq(S)
    PROVE  s \o t \in Seq(S)
OBVIOUS

LEMMA ConcatEmpty ==
    ASSUME NEW S, NEW s \in Seq(S)
    PROVE  s \o <<>> = s
OBVIOUS

LEMMA ConcatOne ==
    ASSUME NEW S, NEW s \in Seq(S), NEW x \in S
    PROVE  s \o <<x>> = Append(s, x)
OBVIOUS

LEMMA ConcatAppend ==
    ASSUME NEW S, NEW s \in Seq(S), NEW t \in Seq(S), NEW x \in S
    PROVE  s \o Append(t, x) = Append(s \o t, x)
OBVIOUS

LEMMA ConcatMove ==
    ASSUME NEW S, NEW s \in Seq(S), NEW t \in Seq(S), t # <<>>
    PROVE  Append(s, Head(t)) \o Tail(t) = s \o t
OBVIOUS

LEMMA ConcatTail ==
    ASSUME NEW S, NEW s \in Seq(S), NEW t \in Seq(S), s # <<>>
    PROVE  /\ s \o t # <<>> /\ Head(s \o t) = Head(s)
           /\ Tail(s \o t) = Tail(s) \o t
OBVIOUS

-----------------------------------------------------------------------------
\* What the steps of each process leave alone

LEMMA WorkerFrame ==
    MasterWorker =>
        UNCHANGED <<made, owner, srvEnd, cliEnd, up, toCli, is_running, rx,
                    connected_nodes, running, sock, queue, flagVars, bpc, bhttp,
                    brecent>>
<1> SUFFICES ASSUME MasterWorker
             PROVE  UNCHANGED <<made, owner, srvEnd, cliEnd, up, toCli, is_running,
                                rx, connected_nodes, running, sock, queue, flagVars,
                                bpc, bhttp, brecent>>
  OBVIOUS
<1> USE DEF connVars, netVars, serverVars, clientVars, backupVars, flagVars,
            masterVars
<1>1. CASE HandleRequest
  BY <1>1 DEF HandleRequest
<1>2. CASE HandleHttpSync
  BY <1>2 DEF HandleHttpSync
<1>3. CASE NoRequest \/ WorkerEnds \/ Sleep \/ HttpDone \/ RecentDone
  BY <1>3 DEF NoRequest, WorkerEnds, Sleep, HttpDone, RecentDone
<1>4. CASE DropHttp
  BY <1>4 DEF DropHttp
<1>5. CASE EnterHttp \/ EnterRecent
  BY <1>5 DEF EnterHttp, EnterRecent
<1>6. CASE FarmEvent
  BY <1>6 DEF FarmEvent
<1>7. CASE HttpUpdate
  BY <1>7 DEF HttpUpdate
<1>8. CASE RecentUpdate
  BY <1>8 DEF RecentUpdate
<1>9. CASE Deliver
  BY <1>9 DEF Deliver, HandleSend, HandleSendError
<1> QED
  BY <1>1, <1>2, <1>3, <1>4, <1>5, <1>6, <1>7, <1>8, <1>9 DEF MasterWorker

LEMMA ControlFrame ==
    ListenersAndCommands =>
        UNCHANGED <<connVars, mpc, backup_servers_fd, backupVars, served>>
BY DEF ListenersAndCommands, PoundSends, PollerQueues, StartHttp, FarmGone,
       ClearHttp, StartRecent, StopRecent, workerVars

LEMMA QuitFrame ==
    Quit \/ StopListeners =>
        UNCHANGED <<connVars, workerVars, inputVars, storeVars, backupVars, served>>
BY DEF Quit, StopListeners

LEMMA ReceiveFrame ==
    MasterReceive =>
        UNCHANGED <<made, owner, cliEnd, down, toCli, outbox, dest, skipped,
                    clientVars, masterVars, backupVars, left, served>>
BY DEF MasterReceive, ServerReceive, AcceptNode, AnnounceNode, ReadRequest,
       ReadEof, ReadError, EraseNode, netVars, sendVars, serverVars

BackupStep(b) ==
    BackupStart(b) \/ BackupWorker(b) \/ BackupReceive(b) \/ BackupCrash(b)

LEMMA BackupFrame ==
    ASSUME NEW b \in Backups, BackupStep(b)
    PROVE  UNCHANGED <<sendVars, masterVars, served, is_running, rx, connected_nodes,
                       input_packet_queue>>
<1> USE DEF connVars, netVars, serverVars, clientVars
<1>1. CASE BackupStart(b) \/ Dialed(b) \/ EnterRun(b) \/ HandlePacket(b) \/ Recheck(b)
  BY <1>1 DEF BackupStart, Dialed, EnterRun, HandlePacket, Recheck
<1>2. CASE Dial(b)
  BY <1>2 DEF Dial, Connect
<1>3. CASE ExitFailure(b) \/ BackupCrash(b)
  BY <1>3 DEF ExitFailure, BackupCrash, Gone, CloseClient
<1>4. CASE FirstRequest(b) \/ Resync(b)
  BY <1>4 DEF FirstRequest, Resync
<1>5. CASE BackupReceive(b)
  BY <1>5 DEF BackupReceive, ClientReceive, ReadPacket, ReadEofClient,
              ReadErrorClient
<1> QED
  BY <1>1, <1>2, <1>3, <1>4, <1>5 DEF BackupStep, BackupWorker

LEMMA NetworkFrame ==
    ASSUME NEW c \in Conns, Network(c)
    PROVE  UNCHANGED <<made, owner, srvEnd, cliEnd, serverVars, sendVars, clientVars,
                       masterVars, backupVars, served>>
BY DEF Network, ResetSender, ResetBoth

\* The kinds of a step
LEMMA NextKinds ==
    ASSUME [Next]_vars
    PROVE  \/ MasterWorker \/ MasterReceive \/ ListenersAndCommands
           \/ MasterStart \/ (Quit \/ StopListeners)
           \/ MasterGone
           \/ \E b \in Backups : BackupStep(b)
           \/ \E c \in Conns : Network(c)
           \/ UNCHANGED vars
BY DEF Next, BackupStep, MasterCrash, Exit

-----------------------------------------------------------------------------
\* A connection belongs to the backup that made it

LEMMA OwnStep ==
    ASSUME TypeOK, TypeOK', OwnSock, [Next]_vars
    PROVE  OwnSock'
<1> USE DEF Conns, NoConn, connVars, netVars, clientVars
<1>0. /\ made \in 0 .. MaxConns /\ MaxConns \in Nat
      /\ owner \in [Conns -> Backups \cup {NoOwner}]
      /\ up \in [Conns -> BOOLEAN] /\ sock \in [Backups -> Conns \cup {NoConn}]
  BY ConnectionAssumption DEF TypeOK, ConnTypeOK
<1>1. CASE UNCHANGED <<made, owner, up, sock>>
  BY <1>1 DEF OwnSock
<1>2. ASSUME UNCHANGED <<made, owner, sock>>,
             \E c \in Conns : up' = [up EXCEPT ![c] = FALSE]
      PROVE  OwnSock'
  BY <1>0, <1>2 DEF OwnSock
<1>3. CASE MasterReceive
  <2>1. UNCHANGED <<made, owner, sock>>
    BY <1>3, ReceiveFrame
  <2>2. UNCHANGED up \/ \E c \in Conns : up' = [up EXCEPT ![c] = FALSE]
    BY <1>3 DEF MasterReceive, ServerReceive, AcceptNode, AnnounceNode, ReadRequest,
                ReadEof, ReadError, EraseNode
  <2> QED
    BY <1>1, <1>2, <2>1, <2>2
<1>4. ASSUME NEW c \in Conns, Network(c) PROVE OwnSock'
  <2>1. UNCHANGED <<made, owner, sock>>
    BY <1>4, NetworkFrame
  <2>2. UNCHANGED up \/ up' = [up EXCEPT ![c] = FALSE]
    BY <1>4 DEF Network, ResetSender, ResetBoth
  <2> QED
    BY <1>1, <1>2, <2>1, <2>2
<1>5. ASSUME NEW b \in Backups, BackupStep(b) PROVE OwnSock'
  <2>1. CASE BackupStart(b) \/ Dialed(b) \/ EnterRun(b) \/ HandlePacket(b) \/ Recheck(b)
    BY <1>1, <2>1 DEF BackupStart, Dialed, EnterRun, HandlePacket, Recheck
  <2>2. CASE Dial(b)
    <3>1. Connect(b)
      BY <2>2 DEF Dial
    <3>2. /\ made' = made + 1 /\ made + 1 \in Conns
          /\ owner' = [owner EXCEPT ![made + 1] = b]
          /\ sock' = [sock EXCEPT ![b] = made + 1] /\ up' = up
      BY <1>0, <3>1 DEF Connect
    <3> QED
      BY <1>0, <3>2 DEF OwnSock
  <2>3. CASE ExitFailure(b) \/ BackupCrash(b) \/ BackupReceive(b)
    <3>1. UNCHANGED <<made, owner, up>>
          /\ (UNCHANGED sock \/ sock' = [sock EXCEPT ![b] = NoConn])
      BY <2>3 DEF ExitFailure, BackupCrash, Gone, CloseClient, BackupReceive,
                  ClientReceive, ReadPacket, ReadEofClient, ReadErrorClient
    <3> QED
      BY <1>0, <3>1 DEF OwnSock
  <2>4. CASE FirstRequest(b) \/ Resync(b)
    <3>1. UNCHANGED <<made, owner, sock>>
      BY <2>4 DEF FirstRequest, Resync
    <3>2. UNCHANGED up \/ (sock[b] # NoConn /\ up' = [up EXCEPT ![sock[b]] = TRUE])
      BY <2>4 DEF FirstRequest, Resync, SendRequest, SendRequestError, CanRequest
    <3> QED
      BY <1>0, <1>1, <3>1, <3>2 DEF OwnSock
  <2> QED
    BY <1>5, <2>1, <2>2, <2>3, <2>4 DEF BackupStep, BackupWorker
<1>6. CASE MasterStart
  BY <1>1, <1>6 DEF MasterStart, StartServer
<1>7. CASE MasterGone
  BY <1>1, <1>7 DEF MasterGone, CloseServer
<1>8. CASE UNCHANGED vars
  BY <1>1, <1>8 DEF vars
<1> QED
  BY <1>1, <1>3, <1>4, <1>5, <1>6, <1>7, <1>8, NextKinds, WorkerFrame,
     ControlFrame, QuitFrame

-----------------------------------------------------------------------------
\* What is being sent, and to whom

LEMMA WorkerPackets ==
    ASSUME TypeOK
    PROVE  /\ FarmEvent => /\ Head(httpIn).farm \in Farms
                           /\ ClearRequest(Head(httpIn).farm) \in Packets
           /\ HttpUpdate => /\ Head(httpIn) \in HttpPackets
                            /\ Head(httpIn) \in Packets
           /\ RecentUpdate => /\ Head(recentIn) \in RecentPackets
                              /\ Head(recentIn) \in Packets
<1>0. /\ httpIn \in Seq(HttpPackets \cup FarmEvents) /\ recentIn \in Seq(RecentPackets)
  BY DEF TypeOK, ReplTypeOK
<1>1. ASSUME FarmEvent
      PROVE  Head(httpIn).farm \in Farms /\ ClearRequest(Head(httpIn).farm) \in Packets
  <2>1. Head(httpIn) \in FarmEvents
    BY <1>0, <1>1, HeadTailType DEF FarmEvent, HttpPackets
  <2> QED
    BY <2>1, SnapshotTypes DEF FarmEvents
<1>2. ASSUME HttpUpdate PROVE Head(httpIn) \in HttpPackets
  BY <1>0, <1>2, HeadTailType DEF HttpUpdate, FarmEvents
<1>3. ASSUME RecentUpdate PROVE Head(recentIn) \in RecentPackets
  BY <1>0, <1>3, HeadTailType DEF RecentUpdate
<1> QED
  BY <1>1, <1>2, <1>3 DEF Packets

LEMMA SendGoalStep ==
    ASSUME TypeOK, SendGoal, [Next]_vars
    PROVE  SendGoal'
<1> USE DEF SendGoal
<1>0. NoConn \notin Conns /\ NoPacket \notin Packets
  BY ConnectionAssumption DEF Conns, NoConn
<1>1. CASE UNCHANGED <<cur, to, dest, connected_nodes, is_running>>
  BY <1>1
<1>2. ASSUME NEW p \in Packets, NEW fd, Send(p, fd),
             UNCHANGED <<connected_nodes, is_running>>
      PROVE  SendGoal'
  <2>1. CASE connected_nodes = {} \/ ~is_running
    BY <1>1, <1>2, <2>1 DEF Send
  <2>2. CASE ~(connected_nodes = {} \/ ~is_running)
    <3>1. /\ dest' = fd /\ cur' = p
          /\ to' = IF fd = NoConn THEN connected_nodes ELSE {fd}
      BY <1>2, <2>2 DEF Send, Recipients
    <3> QED
      BY <1>0, <1>2, <2>2, <3>1
  <2> QED
    BY <2>1, <2>2
<1>3. CASE MasterWorker
  <2>0. UNCHANGED <<connected_nodes, is_running>>
    BY <1>3, WorkerFrame
  <2>1. CASE HandleRequest \/ HandleHttpSync \/ DropHttp
    BY <2>0, <2>1 DEF HandleRequest, HandleHttpSync, DropHttp, Worker, Sending,
                      serverVars
  <2>2. CASE NoRequest \/ WorkerEnds \/ Sleep \/ HttpDone \/ RecentDone \/ EnterHttp
             \/ EnterRecent
    BY <1>1, <2>2 DEF NoRequest, WorkerEnds, Sleep, HttpDone, RecentDone, EnterHttp,
                      EnterRecent, connVars, sendVars, serverVars
  <2>3. CASE FarmEvent
    BY <1>2, <2>0, <2>3, WorkerPackets DEF FarmEvent, SendClear
  <2>4. CASE HttpUpdate
    BY <1>1, <1>2, <2>0, <2>4, WorkerPackets DEF HttpUpdate, SendUpdate
  <2>5. CASE RecentUpdate
    BY <1>1, <1>2, <2>0, <2>5, WorkerPackets DEF RecentUpdate, SendUpdate
  <2>6. CASE Deliver
    <3>1. CASE SendNext
      <4>1. PICK p \in Packets : Send(p, dest)
        BY <3>1 DEF SendNext, TypeOK, ConnTypeOK
      <4> QED
        BY <1>2, <2>0, <4>1
    <3>2. ASSUME NEW c \in to, HandleSend(c) \/ HandleSendError(c, mpc = "sync")
          PROVE  SendGoal'
      BY <2>0, <3>2 DEF HandleSend, HandleSendError
    <3> QED
      BY <2>6, <3>1, <3>2 DEF Deliver
  <2> QED
    BY <1>3, <2>1, <2>2, <2>3, <2>4, <2>5, <2>6 DEF MasterWorker
<1>4. CASE MasterReceive
  <2>1. CASE AcceptNode \/ EraseNode
    BY <2>1 DEF AcceptNode, EraseNode
  <2>2. CASE AnnounceNode \/ \E c \in Conns : ReadRequest(c) \/ ReadEof(c) \/ ReadError(c)
    BY <1>1, <2>2 DEF AnnounceNode, ReadRequest, ReadEof, ReadError, sendVars,
                      serverVars
  <2> QED
    BY <1>4, <2>1, <2>2 DEF MasterReceive, ServerReceive
<1>5. CASE MasterStart
  BY <1>5 DEF MasterStart, StartServer, sendVars
<1>6. CASE MasterGone
  BY <1>6 DEF MasterGone, CloseServer
<1>7. ASSUME NEW b \in Backups, BackupStep(b) PROVE SendGoal'
  BY <1>1, <1>7, BackupFrame DEF sendVars
<1>8. ASSUME NEW c \in Conns, Network(c) PROVE SendGoal'
  BY <1>1, <1>8, NetworkFrame DEF sendVars, serverVars
<1>9. CASE ListenersAndCommands \/ Quit \/ StopListeners \/ UNCHANGED vars
  BY <1>1, <1>9, ControlFrame, QuitFrame DEF vars, connVars, sendVars, serverVars
<1> QED
  BY <1>3, <1>4, <1>5, <1>6, <1>7, <1>8, <1>9, NextKinds

-----------------------------------------------------------------------------
\* A connection that has been announced does not become healthy again

LEMMA HealthyBefore ==
    ASSUME TypeOK, CountInv, OwnSock, [Next]_vars,
           NEW b \in Backups, NEW c \in Conns, Announced(c), Healthy(b, c)'
    PROVE  Healthy(b, c)
<1> USE DEF Healthy
<1>0. /\ running \in [Backups -> BOOLEAN]
      /\ toSrv \in [Conns -> Signals] /\ toCli \in [Conns -> Signals]
      /\ sock \in [Backups -> Conns \cup {NoConn}]
      /\ made \in 0 .. MaxConns /\ MaxConns \in Nat
  BY ConnectionAssumption DEF TypeOK, ConnTypeOK
<1>1. CASE UNCHANGED <<running, sock, connected_nodes, rx, toSrv, toCli>>
  BY <1>1
<1>2. CASE MasterWorker
  <2>1. UNCHANGED <<running, sock, connected_nodes, rx, toCli>>
    BY <1>2, WorkerFrame
  <2>2. \A d \in Conns : toSrv'[d] = "ok" => toSrv[d] = "ok"
    <3>1. \/ UNCHANGED toSrv
          \/ \E d \in to : HandleSendError(d, mpc = "sync")
      BY <1>2 DEF MasterWorker, HandleRequest, HandleHttpSync, NoRequest, WorkerEnds,
           Sleep, DropHttp, EnterHttp, FarmEvent, HttpUpdate, HttpDone, EnterRecent,
           RecentUpdate, RecentDone, Deliver, SendNext, HandleSend, connVars, netVars
    <3> QED
      BY <1>0, <3>1 DEF HandleSendError
  <2> QED
    BY <2>1, <2>2
<1>3. CASE MasterReceive
  <2>1. UNCHANGED <<running, sock, toCli>>
    BY <1>3, ReceiveFrame DEF clientVars
  <2>2. CASE AcceptNode
    <3>1. PICK d \in Backlog : connected_nodes' = connected_nodes \cup {d}
      BY <2>2 DEF AcceptNode
    <3>2. d # c /\ rx.at = "poll" /\ UNCHANGED toSrv
      BY <2>2 DEF AcceptNode, Backlog, Announced
    <3>3. rx.conn = NoConn /\ NoConn \notin Conns
      BY <3>2 DEF TypeOK, ConnTypeOK, Polling, NoConn, Conns
    <3> QED
      BY <2>1, <3>1, <3>2, <3>3
  <2>3. CASE AnnounceNode
    BY <2>1, <2>3 DEF AnnounceNode, Announced, netVars
  <2>4. ASSUME NEW d \in Conns, ReadRequest(d) \/ ReadEof(d) \/ ReadError(d)
        PROVE  Healthy(b, c)
    <3>1. rx.conn = NoConn \/ rx.conn = rx'.conn
      BY <2>4, <1>0 DEF ReadRequest, ReadEof, ReadError, TypeOK, ConnTypeOK, Polling, serverVars
    <3>2. toSrv'[c] = "ok" => toSrv[c] = "ok"
      BY <1>0, <2>4 DEF ReadRequest, ReadEof, ReadError
    <3>3. UNCHANGED connected_nodes
      BY <2>4 DEF ReadRequest, ReadEof, ReadError, serverVars
    <3> QED
      BY <2>1, <3>1, <3>2, <3>3 DEF NoConn, Conns
  <2>5. CASE EraseNode
    BY <2>1, <2>5 DEF EraseNode
  <2> QED
    BY <1>3, <2>2, <2>3, <2>4, <2>5 DEF MasterReceive, ServerReceive
<1>4. CASE MasterStart
  BY <1>1, <1>4 DEF MasterStart, StartServer, netVars, clientVars
<1>5. CASE MasterGone
  BY <1>5 DEF MasterGone, CloseServer
<1>6. ASSUME NEW d \in Backups, BackupStep(d) PROVE Healthy(b, c)
  <2>1. UNCHANGED <<connected_nodes, rx>>
    BY <1>6, BackupFrame
  <2>2. CASE BackupStart(d) \/ Dialed(d) \/ EnterRun(d) \/ HandlePacket(d) \/ Recheck(d)
    BY <1>1, <2>2 DEF BackupStart, Dialed, EnterRun, HandlePacket, Recheck, connVars,
                      netVars, serverVars, clientVars
  <2>3. CASE Dial(d)
    <3>1. c # made + 1
      BY <1>0, <2>3 DEF Announced, CountInv, NodesOpen, Dial, Connect, Conns
    <3>2. /\ sock' = [sock EXCEPT ![d] = made + 1]
          /\ running' = [running EXCEPT ![d] = TRUE]
          /\ UNCHANGED <<toSrv, toCli>>
      BY <2>3 DEF Dial, Connect
    <3> QED
      BY <1>0, <2>1, <3>1, <3>2
  <2>4. CASE ExitFailure(d) \/ BackupCrash(d)
    <3>1. /\ running' = [running EXCEPT ![d] = FALSE]
          /\ sock' = [sock EXCEPT ![d] = NoConn]
          /\ toSrv'[c] = "ok" => toSrv[c] = "ok"
          /\ UNCHANGED toCli
      BY <1>0, <2>4 DEF ExitFailure, BackupCrash, Gone, CloseClient
    <3> QED
      BY <1>0, <2>1, <3>1
  <2>5. CASE FirstRequest(d) \/ Resync(d)
    <3>1. /\ UNCHANGED <<running, sock, toSrv>>
          /\ toCli'[c] = "ok" => toCli[c] = "ok"
      BY <1>0, <2>5 DEF FirstRequest, Resync, SendRequest, SendRequestError, clientVars
    <3> QED
      BY <2>1, <3>1
  <2>6. CASE BackupReceive(d)
    <3>1. /\ running'[b] => running[b]
          /\ sock'[b] = c => sock[b] = c
          /\ toSrv'[c] = "ok" => toSrv[c] = "ok"
          /\ toCli'[c] = "ok" => toCli[c] = "ok"
      BY <1>0, <2>6 DEF BackupReceive, ClientReceive, ReadPacket, ReadEofClient,
                        ReadErrorClient, clientVars, NoConn, Conns
    <3> QED
      BY <2>1, <3>1
  <2> QED
    BY <1>6, <2>2, <2>3, <2>4, <2>5, <2>6 DEF BackupStep, BackupWorker
<1>7. ASSUME NEW d \in Conns, Network(d) PROVE Healthy(b, c)
  <2>1. UNCHANGED <<connected_nodes, rx, running, sock>>
    BY <1>7, NetworkFrame DEF serverVars, clientVars
  <2>2. /\ toSrv'[c] = "ok" => toSrv[c] = "ok"
        /\ toCli'[c] = "ok" => toCli[c] = "ok"
    BY <1>0, <1>7 DEF Network, ResetSender, ResetBoth
  <2> QED
    BY <2>1, <2>2
<1>8. CASE ListenersAndCommands \/ Quit \/ StopListeners \/ UNCHANGED vars
  BY <1>1, <1>8, ControlFrame, QuitFrame
  DEF vars, connVars, netVars, serverVars, clientVars
<1> QED
  BY <1>2, <1>3, <1>4, <1>5, <1>6, <1>7, <1>8, NextKinds

-----------------------------------------------------------------------------
\* How a step changes what is on its way

\* A healthy connection, and one that is accepted and not yet announced
Linked(b, c) ==
    /\ sock[b] = c /\ running[b] /\ c \in connected_nodes
    /\ toSrv[c] = "ok" /\ toCli[c] = "ok"

LEMMA ComingType ==
    ASSUME TypeOK, SendGoal, NEW b \in Backups, NEW c \in Conns
    PROVE  Coming(b, c) \in Seq(Incoming)
<1>1. queue[b] \in Seq(Incoming) /\ down[c] \in Seq(Packets)
  BY DEF TypeOK, ConnTypeOK, Incoming
<1>2. down[c] \in Seq(Incoming)
  BY <1>1 DEF Incoming
<1>3. c \in to => OnWire(cur) \in Incoming
  BY OnWireType DEF TypeOK, ConnTypeOK, SendGoal, Incoming
<1>4. <<>> \in Seq(Incoming) /\ (c \in to => <<OnWire(cur)>> \in Seq(Incoming))
  BY <1>3
<1> QED
  BY <1>1, <1>2, <1>4, ConcatType DEF Coming

LEMMA ComingSame ==
    ASSUME NEW b \in Backups, NEW c \in Conns, UNCHANGED <<queue, down>>,
           c \in to' <=> c \in to, c \in to => cur' = cur
    PROVE  Coming(b, c)' = Coming(b, c)
BY DEF Coming

LEMMA ComingSent ==
    ASSUME TypeOK, SendGoal, NEW b \in Backups, NEW c \in Conns, cur = NoPacket,
           NEW p \in Packets, NEW fd, Send(p, fd), UNCHANGED <<queue, down>>,
           c \in connected_nodes
    PROVE  /\ c \in Recipients(fd) => Coming(b, c)' = Append(Coming(b, c), OnWire(p))
           /\ c \notin Recipients(fd) => Coming(b, c)' = Coming(b, c)
<1>1. /\ queue[b] \in Seq(Incoming) /\ down[c] \in Seq(Packets)
      /\ down[c] \in Seq(Incoming)
  BY DEF TypeOK, ConnTypeOK, Incoming
<1>2. dest' = fd /\ cur' = p /\ to' = Recipients(fd) /\ to = {}
  BY DEF Send, SendGoal
<1>3. OnWire(p) \in Incoming
  BY OnWireType DEF Incoming
<1> DEFINE q == queue[b] \o down[c]
<1>4. q \in Seq(Incoming)
  BY <1>1, ConcatType
<1>5. Coming(b, c) = q \o <<>>
  BY <1>2 DEF Coming
<1>6. Coming(b, c)' = q \o (IF c \in Recipients(fd) THEN <<OnWire(p)>> ELSE <<>>)
  BY <1>2 DEF Coming
<1> HIDE DEF q
<1>7. q \o <<>> = q /\ q \o <<OnWire(p)>> = Append(q, OnWire(p))
  BY <1>3, <1>4, ConcatEmpty, ConcatOne
<1> QED
  BY <1>5, <1>6, <1>7

LEMMA ComingDeliver ==
    ASSUME TypeOK, SendGoal, NEW b \in Backups, NEW c \in Conns,
           NEW d \in to, HandleSend(d) \/ HandleSendError(d, mpc = "sync"),
           c \notin skipped'
    PROVE  Coming(b, c)' = Coming(b, c)
<1>0. down \in [Conns -> Seq(Packets)] /\ queue[b] \in Seq(Incoming)
      /\ down[c] \in Seq(Incoming)
  BY DEF TypeOK, ConnTypeOK, Incoming
<1>1. CASE HandleSendError(d, mpc = "sync")
  BY <1>1, ComingSame DEF HandleSendError, clientVars
<1>2. CASE HandleSend(d)
  <2>1. /\ down' = [down EXCEPT ![d] = Append(@, OnWire(cur))]
        /\ to' = to \ {d} /\ UNCHANGED queue
        /\ cur' = IF to' = {} THEN NoPacket ELSE cur
    BY <1>2 DEF HandleSend, clientVars
  <2>2. CASE c # d
    <3>1. down'[c] = down[c] /\ (c \in to' <=> c \in to) /\ (c \in to => cur' = cur)
      BY <1>0, <2>1, <2>2
    <3> QED
      BY <2>1, <3>1 DEF Coming
  <2>3. CASE c = d
    <3> DEFINE w == OnWire(cur)
    <3>1. w \in Incoming
      BY OnWireType DEF TypeOK, ConnTypeOK, SendGoal, Incoming
    <3>2. Coming(b, c) = queue[b] \o down[c] \o <<w>>
      BY <2>3 DEF Coming
    <3>3. Coming(b, c)' = queue[b] \o Append(down[c], w) \o <<>>
      <4>1. down'[c] = Append(down[c], w) /\ c \notin to'
        BY <1>0, <2>1, <2>3
      <4> QED
        BY <2>1, <4>1 DEF Coming
    <3> HIDE DEF w
    <3>4. queue[b] \o down[c] \in Seq(Incoming)
      BY <1>0, ConcatType
    <3>5. queue[b] \o down[c] \o <<w>> = Append(queue[b] \o down[c], w)
      BY <3>1, <3>4, ConcatOne
    <3>6. queue[b] \o Append(down[c], w) = Append(queue[b] \o down[c], w)
      <4> DEFINE s == queue[b]
                 t == down[c]
      <4>1. s \in Seq(Incoming) /\ t \in Seq(Incoming)
        BY <1>0
      <4> HIDE DEF s, t
      <4>2. s \o Append(t, w) = Append(s \o t, w)
        BY <3>1, <4>1, ConcatAppend
      <4> QED
        BY <4>2 DEF s, t
    <3>7. Append(queue[b] \o down[c], w) \in Seq(Incoming)
      BY <3>1, <3>4
    <3>8. Append(queue[b] \o down[c], w) \o <<>> = Append(queue[b] \o down[c], w)
      BY <3>7, ConcatEmpty
    <3> QED
      BY <3>2, <3>3, <3>5, <3>6, <3>8
  <2> QED
    BY <2>2, <2>3
<1> QED
  BY <1>1, <1>2

LEMMA ComingReceive ==
    ASSUME TypeOK, CountInv, NEW b \in Backups, NEW c \in Conns, MasterReceive,
           Linked(b, c), Linked(b, c)'
    PROVE  Coming(b, c)' = Coming(b, c)
<1>0. UNCHANGED <<down, queue>>
  BY ReceiveFrame DEF clientVars
<1>1. CASE AcceptNode
  <2>1. PICK d \in Backlog : UNCHANGED to \/ to' = to \cup {d}
    BY <1>1 DEF AcceptNode
  <2>2. d # c
    BY DEF Backlog, Linked, CountInv, NodesOpen
  <2> QED
    BY <1>0, <1>1, <2>1, <2>2, ComingSame DEF AcceptNode
<1>2. CASE EraseNode
  <2>1. rx.conn # c
    BY <1>2 DEF Linked, EraseNode
  <2> QED
    BY <1>0, <1>2, <2>1, ComingSame DEF EraseNode
<1>3. CASE AnnounceNode \/ \E d \in Conns : ReadRequest(d) \/ ReadEof(d) \/ ReadError(d)
  BY <1>0, <1>3, ComingSame DEF AnnounceNode, ReadRequest, ReadEof, ReadError, sendVars
<1> QED
  BY <1>1, <1>2, <1>3 DEF MasterReceive, ServerReceive

LEMMA ComingNetwork ==
    ASSUME TypeOK, NEW b \in Backups, NEW c \in Conns, NEW d \in Conns, Network(d),
           Linked(b, c)'
    PROVE  Coming(b, c)' = Coming(b, c)
<1>1. UNCHANGED <<queue, to, cur>>
  BY NetworkFrame DEF clientVars, sendVars
<1>2. toSrv'[c] = "ok"
  BY DEF Linked
<1>3. down'[c] = down[c]
  BY <1>2 DEF Network, ResetSender, ResetBoth, TypeOK, ConnTypeOK
<1> QED
  BY <1>1, <1>3 DEF Coming

LEMMA ComingBackup ==
    ASSUME TypeOK, OwnSock, SendGoal, NEW b \in Backups, NEW c \in Conns,
           NEW d \in Backups, BackupStep(d), Linked(b, c), Linked(b, c)',
           ~(d = b /\ HandlePacket(b))
    PROVE  Coming(b, c)' = Coming(b, c)
<1>0. /\ down \in [Conns -> Seq(Packets)]
      /\ queue \in [Backups -> Seq(Packets \cup {Disconnect})]
      /\ sock \in [Backups -> Conns \cup {NoConn}]
      /\ running \in [Backups -> BOOLEAN]
  BY DEF TypeOK, ConnTypeOK
<1>1. UNCHANGED <<to, cur>>
  BY BackupFrame DEF sendVars
<1>2. sock[b] = c /\ NoConn \notin Conns
  BY DEF Linked, Conns, NoConn
<1>3. sock[d] = c => d = b
  BY <1>2 DEF OwnSock
<1>4. CASE UNCHANGED <<queue, down>>
  BY <1>1, <1>4, ComingSame
<1>5. CASE queue'[b] = queue[b] /\ down'[c] = down[c]
  BY <1>1, <1>5 DEF Coming
<1>6. CASE BackupStart(d) \/ Dial(d) \/ Dialed(d) \/ EnterRun(d) \/ Recheck(d)
           \/ FirstRequest(d) \/ Resync(d)
  BY <1>4, <1>6 DEF BackupStart, Dial, Connect, Dialed, EnterRun, Recheck, FirstRequest,
                    Resync, connVars, netVars, clientVars
<1>7. CASE HandlePacket(d)
  BY <1>0, <1>5, <1>7 DEF HandlePacket, netVars
<1>8. CASE ExitFailure(d) \/ BackupCrash(d)
  <2>1. running' = [running EXCEPT ![d] = FALSE] /\ queue' = [queue EXCEPT ![d] = <<>>]
        /\ UNCHANGED down
    BY <1>8 DEF ExitFailure, BackupCrash, Gone, CloseClient
  <2>2. d # b
    BY <1>0, <2>1 DEF Linked
  <2> QED
    BY <1>0, <1>5, <2>1, <2>2
<1>9. CASE ReadPacket(d)
  <2>1. CASE d # b
    BY <1>0, <1>3, <1>5, <1>9, <2>1 DEF ReadPacket
  <2>2. CASE d = b
    <3> DEFINE s == queue[b]
               t == down[c]
               e == IF c \in to THEN <<OnWire(cur)>> ELSE <<>>
    <3>1. t # <<>> /\ s \in Seq(Incoming) /\ t \in Seq(Incoming)
      BY <1>0, <1>2, <1>9, <2>2 DEF ReadPacket, Incoming
    <3>2. queue'[b] = Append(s, Head(t)) /\ down'[c] = Tail(t)
      BY <1>0, <1>2, <1>9, <2>2 DEF ReadPacket
    <3>3. Coming(b, c) = s \o t \o e
      BY DEF Coming
    <3>4. Coming(b, c)' = Append(s, Head(t)) \o Tail(t) \o e
      BY <1>1, <3>2 DEF Coming
    <3> HIDE DEF s, t, e
    <3>5. Append(s, Head(t)) \o Tail(t) = s \o t
      BY <3>1, ConcatMove
    <3> QED
      BY <3>3, <3>4, <3>5
  <2> QED
    BY <2>1, <2>2
<1>10. CASE ReadEofClient(d)
  <2>1. /\ running' = [running EXCEPT ![d] = FALSE]
        /\ queue' = [queue EXCEPT ![d] = Append(@, Disconnect)]
        /\ down' = [down EXCEPT ![sock[d]] = <<>>]
    BY <1>10 DEF ReadEofClient
  <2>2. d # b
    BY <1>0, <2>1 DEF Linked
  <2> QED
    BY <1>0, <1>3, <1>5, <2>1, <2>2
<1>11. CASE ReadErrorClient(d)
  <2>1. /\ toCli' = [toCli EXCEPT ![sock[d]] = "dead"]
        /\ down' = [down EXCEPT ![sock[d]] = <<>>] /\ UNCHANGED queue
    BY <1>11 DEF ReadErrorClient, clientVars
  <2>2. sock[d] # c
    BY <1>2, <2>1 DEF Linked, TypeOK, ConnTypeOK
  <2> QED
    BY <1>0, <1>5, <2>1, <2>2
<1> QED
  BY <1>6, <1>7, <1>8, <1>9, <1>10, <1>11
  DEF BackupStep, BackupWorker, BackupReceive, ClientReceive

LEMMA ComingHandled ==
    ASSUME TypeOK, SendGoal, NEW b \in Backups, NEW c \in Conns, HandlePacket(b)
    PROVE  /\ Coming(b, c) # <<>> /\ Head(Coming(b, c)) = Head(queue[b])
           /\ Coming(b, c)' = Tail(Coming(b, c))
<1> DEFINE s == queue[b]
           e == IF c \in to THEN <<OnWire(cur)>> ELSE <<>>
           t == down[c] \o e
<1>1. /\ s \in Seq(Incoming) /\ s # <<>>
      /\ down[c] \in Seq(Incoming)
      /\ queue'[b] = Tail(s) /\ UNCHANGED <<down, to, cur>>
  BY DEF HandlePacket, netVars, sendVars, TypeOK, ConnTypeOK, Incoming
<1>2. c \in to => OnWire(cur) \in Incoming
  BY OnWireType DEF TypeOK, ConnTypeOK, SendGoal, Incoming
<1>3. e \in Seq(Incoming)
  BY <1>2
<1>4. Coming(b, c) = s \o down[c] \o e
  BY DEF Coming
<1>5. Coming(b, c)' = Tail(s) \o down[c] \o e
  BY <1>1 DEF Coming
<1> HIDE DEF s, e
<1>6. s \o down[c] # <<>> /\ Head(s \o down[c]) = Head(s)
      /\ Tail(s \o down[c]) = Tail(s) \o down[c] /\ s \o down[c] \in Seq(Incoming)
  BY <1>1, ConcatTail, ConcatType
<1>7. /\ (s \o down[c]) \o e # <<>> /\ Head((s \o down[c]) \o e) = Head(s \o down[c])
      /\ Tail((s \o down[c]) \o e) = Tail(s \o down[c]) \o e
  BY <1>3, <1>6, ConcatTail
<1> QED
  BY <1>4, <1>5, <1>6, <1>7 DEF s

-----------------------------------------------------------------------------
\* What a backup will hold

LEMMA HoldNow ==
    ASSUME TypeOK, SendGoal, NEW b \in Backups, NEW c \in Conns
    PROVE  /\ Coming(b, c) \in Seq(Incoming)
           /\ bhttp[b] \in HttpStore /\ brecent[b] \in RecentStore
           /\ WillHold(b, c).http = Result(HttpStore, HttpStep, bhttp[b], Coming(b, c))
           /\ WillHold(b, c).recent =
                 Result(RecentStore, RecentStep, brecent[b], Coming(b, c))
           /\ WillHold(b, c).http \in HttpStore
           /\ WillHold(b, c).recent \in RecentStore
<1> DEFINE q == Coming(b, c)
           h == bhttp[b]
           r == brecent[b]
<1>1. q \in Seq(Incoming)
  BY ComingType
<1>2. h \in HttpStore /\ r \in RecentStore
  BY DEF TypeOK, ReplTypeOK
<1>3. WillHold(b, c) = FoldLeft(Replay, [http |-> h, recent |-> r], q)
  BY DEF WillHold
<1> HIDE DEF q, h, r
<1>4. /\ WillHold(b, c).http = Result(HttpStore, HttpStep, h, q)
      /\ WillHold(b, c).recent = Result(RecentStore, RecentStep, r, q)
  BY <1>1, <1>2, <1>3, ReplayResult
<1>5. /\ Result(HttpStore, HttpStep, h, q) \in HttpStore
      /\ Result(RecentStore, RecentStep, r, q) \in RecentStore
  BY <1>1, <1>2, StepTypes, ResultType
<1> QED
  BY <1>1, <1>2, <1>4, <1>5 DEF q, h, r

LEMMA HoldNext ==
    ASSUME TypeOK', NEW b \in Backups, NEW c \in Conns, Coming(b, c)' \in Seq(Incoming)
    PROVE  /\ WillHold(b, c)'.http =
                 Result(HttpStore, HttpStep, bhttp'[b], Coming(b, c)')
           /\ WillHold(b, c)'.recent =
                 Result(RecentStore, RecentStep, brecent'[b], Coming(b, c)')
<1> DEFINE q == Coming(b, c)'
           h == bhttp'[b]
           r == brecent'[b]
<1>1. q \in Seq(Incoming)
  OBVIOUS
<1>2. h \in HttpStore /\ r \in RecentStore
  BY DEF TypeOK, ReplTypeOK
<1>3. WillHold(b, c)' = FoldLeft(Replay, [http |-> h, recent |-> r], q)
  BY DEF WillHold
<1> HIDE DEF q, h, r
<1>4. /\ WillHold(b, c)'.http = Result(HttpStore, HttpStep, h, q)
      /\ WillHold(b, c)'.recent = Result(RecentStore, RecentStep, r, q)
  BY <1>1, <1>2, <1>3, ReplayResult
<1> QED
  BY <1>4 DEF q, h, r

LEMMA HoldSame ==
    ASSUME TypeOK, TypeOK', SendGoal, NEW b \in Backups, NEW c \in Conns,
           Coming(b, c)' = Coming(b, c)
    PROVE  /\ bhttp'[b] = bhttp[b] => WillHold(b, c)'.http = WillHold(b, c).http
           /\ brecent'[b] = brecent[b] => WillHold(b, c)'.recent = WillHold(b, c).recent
<1>1. Coming(b, c)' \in Seq(Incoming)
  BY HoldNow
<1> QED
  BY <1>1, HoldNow, HoldNext

LEMMA HoldSent ==
    ASSUME TypeOK, TypeOK', SendGoal, NEW b \in Backups, NEW c \in Conns,
           NEW p \in Packets, Coming(b, c)' = Append(Coming(b, c), OnWire(p)),
           bhttp'[b] = bhttp[b], brecent'[b] = brecent[b]
    PROVE  /\ WillHold(b, c)'.http = HttpStep[OnWire(p)][WillHold(b, c).http]
           /\ WillHold(b, c)'.recent = RecentStep[OnWire(p)][WillHold(b, c).recent]
<1>1. OnWire(p) \in Incoming
  BY OnWireType DEF Incoming
<1> DEFINE q == Coming(b, c)
           h == bhttp[b]
           r == brecent[b]
           w == OnWire(p)
<1>2. q \in Seq(Incoming) /\ h \in HttpStore /\ r \in RecentStore
  BY HoldNow
<1>3. Append(q, w) \in Seq(Incoming)
  BY <1>1, <1>2
<1>4. Coming(b, c)' \in Seq(Incoming)
  BY <1>3
<1>5. /\ WillHold(b, c)'.http = Result(HttpStore, HttpStep, h, Append(q, w))
      /\ WillHold(b, c)'.recent = Result(RecentStore, RecentStep, r, Append(q, w))
  BY <1>4, HoldNext
<1>6. /\ WillHold(b, c).http = Result(HttpStore, HttpStep, h, q)
      /\ WillHold(b, c).recent = Result(RecentStore, RecentStep, r, q)
  BY HoldNow
<1> HIDE DEF q, h, r, w
<1>7. /\ Result(HttpStore, HttpStep, h, Append(q, w)) =
            HttpStep[w][Result(HttpStore, HttpStep, h, q)]
      /\ Result(RecentStore, RecentStep, r, Append(q, w)) =
            RecentStep[w][Result(RecentStore, RecentStep, r, q)]
  BY <1>1, <1>2, StepTypes, ResultAppend DEF w
<1> QED
  BY <1>5, <1>6, <1>7 DEF w

LEMMA HoldHandled ==
    ASSUME TypeOK, TypeOK', SendGoal, NEW b \in Backups, NEW c \in Conns,
           HandlePacket(b)
    PROVE  /\ WillHold(b, c)'.http = WillHold(b, c).http
           /\ WillHold(b, c)'.recent = WillHold(b, c).recent
<1> DEFINE q == Coming(b, c)
           h == bhttp[b]
           r == brecent[b]
           p == Head(q)
<1>1. q \in Seq(Incoming) /\ h \in HttpStore /\ r \in RecentStore
  BY HoldNow
<1>2. q # <<>> /\ Head(q) = Head(queue[b]) /\ Coming(b, c)' = Tail(q)
  BY ComingHandled
<1>3. p \in Incoming /\ Tail(q) \in Seq(Incoming)
  BY <1>1, <1>2, HeadTailType
<1>4. bhttp'[b] = HttpStep[p][h] /\ brecent'[b] = RecentStep[p][r]
  <2>1. bhttp \in [Backups -> HttpStore] /\ brecent \in [Backups -> RecentStore]
    BY DEF TypeOK, ReplTypeOK
  <2>2. p = Head(queue[b])
    BY <1>2
  <2>3. /\ HttpStep[p][h] = IF p.type = "HTTP_SYNC" THEN apply_http_action(h, p) ELSE h
        /\ RecentStep[p][r] =
              IF p.type = "XT_RECENT_SYNC" THEN apply_recent_action(r, p) ELSE r
    <3> HIDE DEF p, h, r
    <3> QED
      BY <1>1, <1>3 DEF HttpStep, RecentStep
  <2> HIDE DEF p, q
  <2> QED
    BY <2>1, <2>2, <2>3 DEF HandlePacket
<1>5. /\ WillHold(b, c)'.http = Result(HttpStore, HttpStep, HttpStep[p][h], Tail(q))
      /\ WillHold(b, c)'.recent =
            Result(RecentStore, RecentStep, RecentStep[p][r], Tail(q))
  <2>1. Coming(b, c)' \in Seq(Incoming)
    BY <1>2, <1>3
  <2> QED
    BY <1>2, <1>4, <2>1, HoldNext
<1>6. /\ WillHold(b, c).http = Result(HttpStore, HttpStep, h, q)
      /\ WillHold(b, c).recent = Result(RecentStore, RecentStep, r, q)
  BY HoldNow
<1> HIDE DEF q, h, r
<1>7. /\ Result(HttpStore, HttpStep, h, q) =
            Result(HttpStore, HttpStep, HttpStep[Head(q)][h], Tail(q))
      /\ Result(RecentStore, RecentStep, r, q) =
            Result(RecentStore, RecentStep, RecentStep[Head(q)][r], Tail(q))
  <2>1. q \in Seq(Incoming) /\ q # <<>> /\ h \in HttpStore /\ r \in RecentStore
    BY <1>1, <1>2
  <2>2. Result(HttpStore, HttpStep, h, q) =
           Result(HttpStore, HttpStep, HttpStep[Head(q)][h], Tail(q))
    BY <2>1, StepTypes, ResultTail
  <2>3. Result(RecentStore, RecentStep, r, q) =
           Result(RecentStore, RecentStep, RecentStep[Head(q)][r], Tail(q))
    BY <2>1, StepTypes, ResultTail
  <2> QED
    BY <2>2, <2>3
<1> QED
  BY <1>5, <1>6, <1>7

(***************************************************************************)
(* What a backup with a healthy connection will hold changes when          *)
(* something is sent to it, and when it drops its sessions (Resync).       *)
(***************************************************************************)
LEMMA HoldStep ==
    ASSUME TypeOK, TypeOK', CountInv, OwnSock, SendGoal, [Next]_vars,
           NEW b \in Backups, NEW c \in Conns,
           Linked(b, c), Linked(b, c)', c \notin skipped'
    PROVE  \/ FarmEvent \/ HttpUpdate \/ RecentUpdate \/ (Deliver /\ SendNext)
           \/ /\ WillHold(b, c)'.recent = WillHold(b, c).recent
              /\ WillHold(b, c)'.http = WillHold(b, c).http \/ Resync(b)
<1> DEFINE Goal == /\ WillHold(b, c)'.recent = WillHold(b, c).recent
                   /\ WillHold(b, c)'.http = WillHold(b, c).http \/ Resync(b)
<1>1. ASSUME Coming(b, c)' = Coming(b, c), bhttp'[b] = bhttp[b],
             brecent'[b] = brecent[b]
      PROVE  Goal
  BY <1>1, HoldSame
<1>2. ASSUME UNCHANGED <<queue, down, cur, to, bhttp, brecent>> PROVE Goal
  BY <1>1, <1>2, ComingSame
<1> HIDE DEF Goal
<1>3. ASSUME MasterWorker
      PROVE  FarmEvent \/ HttpUpdate \/ RecentUpdate \/ (Deliver /\ SendNext) \/ Goal
  <2>0. UNCHANGED <<queue, bhttp, brecent>>
    BY <1>3, WorkerFrame
  <2>1. CASE HandleRequest \/ HandleHttpSync \/ NoRequest \/ WorkerEnds \/ Sleep
             \/ DropHttp \/ EnterHttp \/ HttpDone \/ EnterRecent \/ RecentDone
    <3>1. UNCHANGED <<down, cur, to>>
      BY <2>1 DEF HandleRequest, HandleHttpSync, NoRequest, WorkerEnds, Sleep, DropHttp,
           EnterHttp, HttpDone, EnterRecent, RecentDone, connVars, netVars, sendVars
    <3> QED
      BY <1>2, <2>0, <3>1 DEF Goal
  <2>2. ASSUME NEW d \in to, HandleSend(d) \/ HandleSendError(d, mpc = "sync")
        PROVE  Goal
    <3>1. Coming(b, c)' = Coming(b, c)
      BY <2>2, ComingDeliver
    <3> QED
      BY <1>1, <2>0, <3>1 DEF Goal
  <2> QED
    BY <1>3, <2>1, <2>2 DEF MasterWorker, Deliver
<1>4. CASE MasterReceive
  BY <1>1, <1>4, ComingReceive, ReceiveFrame DEF backupVars, Goal
<1>5. CASE MasterStart
  BY <1>2, <1>5 DEF MasterStart, StartServer, netVars, sendVars, clientVars, backupVars, Goal
<1>6. CASE MasterGone
  BY <1>6 DEF MasterGone, CloseServer, Linked
<1>7. ASSUME NEW d \in Backups, BackupStep(d) PROVE Goal
  <2>1. CASE d = b /\ HandlePacket(b)
    BY <2>1, HoldHandled DEF Goal
  <2>2. CASE ~(d = b /\ HandlePacket(b))
    <3>1. Coming(b, c)' = Coming(b, c)
      BY <1>7, <2>2, ComingBackup
    <3>2. brecent'[b] = brecent[b] /\ (bhttp'[b] = bhttp[b] \/ Resync(b))
      <4>0. /\ bhttp \in [Backups -> HttpStore] /\ brecent \in [Backups -> RecentStore]
            /\ running \in [Backups -> BOOLEAN]
        BY DEF TypeOK, ReplTypeOK, ConnTypeOK
      <4>1. CASE UNCHANGED <<bhttp, brecent>>
        BY <4>1
      <4>2. CASE BackupStart(d) \/ Dial(d) \/ Dialed(d) \/ EnterRun(d) \/ Recheck(d)
                 \/ FirstRequest(d) \/ BackupReceive(d)
        BY <4>1, <4>2 DEF BackupStart, Dial, Dialed, EnterRun, Recheck, FirstRequest,
                          BackupReceive, backupVars
      <4>3. CASE HandlePacket(d)
        BY <2>2, <4>0, <4>3 DEF HandlePacket
      <4>4. CASE ExitFailure(d) \/ BackupCrash(d)
        <5>1. /\ running' = [running EXCEPT ![d] = FALSE]
              /\ bhttp' = [bhttp EXCEPT ![d] = EmptyHttp]
              /\ brecent' = [brecent EXCEPT ![d] = EmptyRecent]
          BY <4>4 DEF ExitFailure, BackupCrash, Gone, CloseClient
        <5> QED
          BY <4>0, <5>1 DEF Linked
      <4>5. CASE Resync(d)
        BY <4>0, <4>5 DEF Resync
      <4> QED
        BY <1>7, <4>2, <4>3, <4>4, <4>5 DEF BackupStep, BackupWorker
    <3> QED
      BY <3>1, <3>2, HoldSame DEF Goal
  <2> QED
    BY <2>1, <2>2
<1>8. ASSUME NEW d \in Conns, Network(d) PROVE Goal
  <2>1. Coming(b, c)' = Coming(b, c)
    BY <1>8, ComingNetwork
  <2>2. UNCHANGED <<bhttp, brecent>>
    BY <1>8, NetworkFrame DEF backupVars
  <2> QED
    BY <1>1, <2>1, <2>2 DEF Goal
<1>9. CASE ListenersAndCommands \/ Quit \/ StopListeners \/ UNCHANGED vars
  BY <1>2, <1>9, ControlFrame, QuitFrame
  DEF vars, connVars, netVars, sendVars, clientVars, backupVars, Goal
<1> QED
  BY <1>3, <1>4, <1>5, <1>6, <1>7, <1>8, <1>9, NextKinds DEF Goal

-----------------------------------------------------------------------------
\* What is still to send of a snapshot

LEMMA RecentSnapshotRows ==
    ASSUME NEW r, NEW p \in RecentSnapshot(r)
    PROVE  /\ p \in RecentPackets /\ p \in Packets /\ p.type = "XT_RECENT_SYNC"
           /\ p.action = "ADD_UPD_ENTRY" /\ p.row \in Rows
           /\ p.entry \in Entries /\ r.entries[p.row] = p.entry
           /\ OnWire(p) = p
BY DEF RecentSnapshot, RecentPackets, Packets, OnWire

LEMMA HttpSnapshotSlots ==
    ASSUME NEW h, NEW p \in HttpSnapshot(h)
    PROVE  /\ p \in HttpPackets /\ p \in Packets /\ p.type = "HTTP_SYNC"
           /\ p.action = "SESS_ADD" /\ p.slot \in Slots
           /\ p.backend \in Backends /\ h.sessions[p.slot] = p.backend
BY DEF HttpSnapshot, HttpPackets, Packets, SessionActions

NoSessions(h) == h.sessions = EmptyHttp.sessions

LEMMA OutboxStep ==
    ASSUME TypeOK, TypeOK', OutboxCurrent, [Next]_vars
    PROVE  OutboxCurrent'
<1> USE DEF OutboxCurrent
<1>0. outbox \in SUBSET Packets /\ recent \in RecentStore
  BY DEF TypeOK, ConnTypeOK, ReplTypeOK
<1>1. CASE UNCHANGED <<recent, http>> /\ outbox' \subseteq outbox
  BY <1>1
<1>2. CASE outbox' = {}
  BY <1>2
<1>3. ASSUME outbox' \subseteq outbox, recent' = recent \/ recent' = EmptyRecent,
             http' = http \/ http' = EmptyHttp
      PROVE  OutboxCurrent'
  <2>1. \A p \in outbox' : p.type = "XT_RECENT_SYNC" =>
           /\ p.action = "ADD_UPD_ENTRY"
           /\ recent'.entries[p.row] \in {p.entry, NoEntry}
    <3> SUFFICES ASSUME NEW p \in outbox', p.type = "XT_RECENT_SYNC"
                 PROVE  /\ p.action = "ADD_UPD_ENTRY"
                        /\ recent'.entries[p.row] \in {p.entry, NoEntry}
      OBVIOUS
    <3>1. p.row \in Rows
      BY <1>0, <1>3 DEF Packets, HttpPackets, RecentPackets
    <3> QED
      BY <1>3, <3>1 DEF EmptyRecent
  <2> QED
    BY <1>3, <2>1
<1>4. CASE MasterWorker
  <2>1. CASE HandleRequest
    <3>1. outbox' = {} \/ outbox' = RecentSnapshot(recent) \/ outbox' = outbox
      BY <2>1 DEF HandleRequest
    <3>2. UNCHANGED <<recent, http>>
      BY <2>1 DEF HandleRequest, storeVars
    <3>3. \A p \in RecentSnapshot(recent) :
             /\ p.type = "XT_RECENT_SYNC" /\ p.action = "ADD_UPD_ENTRY"
             /\ recent.entries[p.row] = p.entry
      BY RecentSnapshotRows
    <3>4. CASE outbox' = RecentSnapshot(recent)
      BY <3>2, <3>3, <3>4
    <3> QED
      BY <1>1, <1>2, <3>1, <3>2, <3>4
  <2>2. CASE HandleHttpSync
    <3>1. outbox' = {} \/ outbox' = HttpSnapshot(http)
      BY <2>2 DEF HandleHttpSync
    <3>2. UNCHANGED <<recent, http>>
      BY <2>2 DEF HandleHttpSync, storeVars
    <3>3. \A p \in HttpSnapshot(http) :
             /\ p.type = "HTTP_SYNC" /\ p.action = "SESS_ADD"
             /\ http.sessions[p.slot] = p.backend
      BY HttpSnapshotSlots
    <3> QED
      BY <1>2, <3>1, <3>2, <3>3
  <2>3. CASE DropHttp
    <3>1. outbox' = {ClearRequest(f) : f \in http.farms} /\ http' = EmptyHttp
      BY <2>3 DEF DropHttp
    <3>2. \A p \in outbox' : p.type = "HTTP_SYNC"
      BY <3>1 DEF ClearRequest
    <3> QED
      BY <3>1, <3>2
  <2>4. CASE NoRequest \/ WorkerEnds \/ Sleep \/ EnterHttp \/ HttpDone \/ EnterRecent
             \/ RecentDone
    BY <1>1, <2>4 DEF NoRequest, WorkerEnds, Sleep, EnterHttp, HttpDone, EnterRecent,
                      RecentDone, connVars, sendVars, storeVars
  <2>5. CASE FarmEvent \/ HttpUpdate \/ RecentUpdate
    BY <1>2, <2>5 DEF FarmEvent, HttpUpdate, RecentUpdate, Worker, Sending
  <2>6. CASE Deliver
    BY <1>1, <2>6 DEF Deliver, SendNext, HandleSend, HandleSendError, masterVars,
                      storeVars
  <2> QED
    BY <1>4, <2>1, <2>2, <2>3, <2>4, <2>5, <2>6 DEF MasterWorker
<1>5. CASE MasterReceive
  BY <1>1, <1>5, ReceiveFrame DEF masterVars, storeVars
<1>6. CASE ListenersAndCommands
  <2>1. outbox' = outbox
    BY <1>6, ControlFrame DEF connVars, sendVars
  <2>2. recent' = recent \/ recent' = EmptyRecent
    BY <1>6 DEF ListenersAndCommands, PoundSends, PollerQueues, StartHttp, FarmGone,
                ClearHttp, StartRecent, StopRecent, storeVars, RecentAtStart
  <2>3. http' = http \/ http' = EmptyHttp
    BY <1>6 DEF ListenersAndCommands, PoundSends, PollerQueues, StartHttp, FarmGone,
                ClearHttp, StartRecent, StopRecent, storeVars
  <2> QED
    BY <1>3, <2>1, <2>2, <2>3
<1>7. CASE MasterStart
  BY <1>3, <1>7 DEF MasterStart, StartServer, sendVars
<1>8. CASE MasterGone
  BY <1>2, <1>8 DEF MasterGone, CloseServer
<1>9. ASSUME NEW b \in Backups, BackupStep(b) PROVE OutboxCurrent'
  BY <1>1, <1>9, BackupFrame DEF sendVars, masterVars, storeVars
<1>10. ASSUME NEW c \in Conns, Network(c) PROVE OutboxCurrent'
  BY <1>1, <1>10, NetworkFrame DEF sendVars, masterVars, storeVars
<1>11. CASE Quit \/ StopListeners \/ UNCHANGED vars
  BY <1>1, <1>11, QuitFrame DEF vars, connVars, sendVars, masterVars, storeVars
<1> QED
  BY <1>4, <1>5, <1>6, <1>7, <1>8, <1>9, <1>10, <1>11, NextKinds

-----------------------------------------------------------------------------
\* Whom the invariants are about

Following(c) == c \in served \/ (mpc = "sync" /\ dest = c)

(***************************************************************************)
(* A SYNC_REQUEST begins to be answered when it is taken from the queue    *)
(* (HandleRequest); by then its node has been announced.                   *)
(***************************************************************************)
LEMMA FollowingBefore ==
    ASSUME TypeOK, CountInv, [Next]_vars, NEW c \in Conns, Following(c)'
    PROVE  /\ Announced(c)
           /\ Following(c) \/ (HandleRequest /\ mpc' = "sync" /\ dest' = c)
<1> USE DEF Following
<1>1. Following(c) => Announced(c)
  BY DEF CountInv, ServedAnnounced
<1>2. CASE UNCHANGED <<served, mpc, dest>>
  BY <1>1, <1>2
<1>3. CASE UNCHANGED served /\ mpc' # "sync"
  BY <1>1, <1>3
<1>4. CASE MasterWorker
  <2>1. CASE HandleRequest
    <3>1. UNCHANGED served
      BY <2>1 DEF HandleRequest
    <3>2. CASE mpc' = "sync" /\ dest' = c
      <4> DEFINE req == Head(input_packet_queue)
      <4>1. input_packet_queue \in Seq(Requests) /\ input_packet_queue # <<>>
        BY <2>1 DEF HandleRequest, TypeOK, ConnTypeOK
      <4>2. 1 \in DOMAIN input_packet_queue /\ req = input_packet_queue[1]
        BY <4>1
      <4>3. req.fd = c
        BY <2>1, <3>2 DEF HandleRequest, ReplyTo, Worker
      <4>4. Announced(input_packet_queue[1].fd)
        BY <4>2 DEF CountInv, QueueOrdered
      <4> QED
        BY <2>1, <3>2, <4>2, <4>3, <4>4
    <3> QED
      BY <1>1, <3>1, <3>2
  <2>2. CASE HandleHttpSync
    BY <1>1, <2>2 DEF HandleHttpSync, Worker
  <2>3. CASE NoRequest \/ WorkerEnds \/ Sleep \/ EnterHttp \/ HttpDone \/ EnterRecent
             \/ RecentDone \/ DropHttp \/ FarmEvent \/ HttpUpdate \/ RecentUpdate
    BY <1>3, <2>3 DEF NoRequest, WorkerEnds, Sleep, EnterHttp, HttpDone, EnterRecent,
                      RecentDone, DropHttp, FarmEvent, HttpUpdate, RecentUpdate, Worker,
                      workerVars
  <2>4. CASE Deliver
    <3>1. UNCHANGED <<served, mpc, dest>>
      BY <2>4 DEF Deliver, SendNext, Send, HandleSend, HandleSendError, masterVars,
                  workerVars
    <3> QED
      BY <1>2, <3>1
  <2> QED
    BY <1>4, <2>1, <2>2, <2>3, <2>4 DEF MasterWorker
<1>5. CASE MasterReceive
  BY <1>2, <1>5, ReceiveFrame DEF masterVars, workerVars
<1>6. CASE MasterStart \/ MasterGone
  BY <1>3, <1>6 DEF MasterStart, MasterGone
<1>7. ASSUME NEW b \in Backups, BackupStep(b) PROVE UNCHANGED <<served, mpc, dest>>
  BY <1>7, BackupFrame DEF sendVars, masterVars, workerVars
<1>8. ASSUME NEW d \in Conns, Network(d) PROVE UNCHANGED <<served, mpc, dest>>
  BY <1>8, NetworkFrame DEF sendVars, masterVars, workerVars
<1>9. CASE ListenersAndCommands \/ Quit \/ StopListeners \/ UNCHANGED vars
  BY <1>2, <1>9, ControlFrame, QuitFrame
  DEF vars, connVars, sendVars, masterVars, workerVars
<1> QED
  BY <1>2, <1>4, <1>5, <1>6, <1>7, <1>8, <1>9, NextKinds

\* Nobody is taken out of skipped.
LEMMA SkippedGrows == ASSUME [Next]_vars PROVE skipped \subseteq skipped'
<1>1. MasterWorker => skipped \subseteq skipped'
  BY DEF MasterWorker, HandleRequest, HandleHttpSync, NoRequest, WorkerEnds, Sleep,
         EnterHttp, HttpDone, EnterRecent, RecentDone, DropHttp, FarmEvent, HttpUpdate,
         RecentUpdate, Deliver, SendNext, HandleSend, HandleSendError, connVars, sendVars
<1>2. MasterReceive => UNCHANGED skipped
  BY ReceiveFrame
<1>3. MasterStart \/ MasterGone => UNCHANGED skipped
  BY DEF MasterStart, StartServer, MasterGone, CloseServer, sendVars
<1>4. (\E b \in Backups : BackupStep(b)) => UNCHANGED skipped
  BY BackupFrame DEF sendVars
<1>5. (\E c \in Conns : Network(c)) => UNCHANGED skipped
  BY NetworkFrame DEF sendVars
<1>6. ListenersAndCommands \/ Quit \/ StopListeners \/ UNCHANGED vars => UNCHANGED skipped
  BY ControlFrame, QuitFrame DEF vars, connVars, sendVars
<1> QED
  BY <1>1, <1>2, <1>3, <1>4, <1>5, <1>6, NextKinds

-----------------------------------------------------------------------------
\* No entry is lost

(***************************************************************************)
(* Two stores that agree on the entries of the first still do when both    *)
(* apply the same packet.                                                  *)
(***************************************************************************)
LEMMA RecentKept ==
    ASSUME NEW r \in RecentStore, NEW w \in RecentStore, NEW p \in RecentPackets,
           \A x \in RecentSnapshot(r) : w.entries[x.row] = x.entry,
           NEW x \in RecentSnapshot(apply_recent_action(r, p))
    PROVE  apply_recent_action(w, p).entries[x.row] = x.entry
<1>1. /\ x \in RecentPackets /\ x.row \in Rows /\ x.entry \in Entries
      /\ x.action = "ADD_UPD_ENTRY"
      /\ apply_recent_action(r, p).entries[x.row] = x.entry
  BY RecentSnapshotRows
<1>2. p.row \in Rows /\ p.entry \in Entries /\ p.action \in RecentActions
  BY DEF RecentPackets
<1>3. r.entries[x.row] = x.entry => w.entries[x.row] = x.entry
  BY <1>1 DEF RecentSnapshot
<1>4. NoEntry \notin Entries
  BY StoreAssumption
<1>5. /\ r.entries \in [Rows -> Entries \cup {NoEntry}]
      /\ w.entries \in [Rows -> Entries \cup {NoEntry}]
  BY DEF RecentStore
<1>6. CASE p.action = "DELETE_TABLE"
  BY <1>1, <1>3, <1>6 DEF apply_recent_action
<1>7. CASE p.action = "DELETE_ENTRY"
  <2>1. /\ apply_recent_action(r, p).entries = [r.entries EXCEPT ![p.row] = NoEntry]
        /\ apply_recent_action(w, p).entries = [w.entries EXCEPT ![p.row] = NoEntry]
    BY <1>7 DEF apply_recent_action, RecentStore
  <2> QED
    BY <1>1, <1>2, <1>3, <1>4, <1>5, <2>1
<1>8. CASE p.action = "FLUSH_TABLE"
  BY <1>1, <1>3, <1>4, <1>8 DEF apply_recent_action
<1>9. CASE p.action = "ADD_UPD_ENTRY"
  BY <1>1, <1>2, <1>3, <1>5, <1>9 DEF apply_recent_action
<1> QED
  BY <1>2, <1>6, <1>7, <1>8, <1>9 DEF RecentActions

(***************************************************************************)
(* What Send does while the connection c is healthy.                       *)
(***************************************************************************)
LEMMA SendReaches ==
    ASSUME TypeOK, TypeOK', SendGoal, NEW b \in Backups, NEW c \in Conns,
           Linked(b, c), cur = NoPacket, NEW p \in Packets, NEW fd, Send(p, fd),
           UNCHANGED <<queue, down, bhttp, brecent>>
    PROVE  /\ dest' = fd
           /\ fd \in {c, NoConn} =>
                 /\ WillHold(b, c)'.http = HttpStep[OnWire(p)][WillHold(b, c).http]
                 /\ WillHold(b, c)'.recent =
                       RecentStep[OnWire(p)][WillHold(b, c).recent]
           /\ fd \notin {c, NoConn} =>
                 /\ WillHold(b, c)'.http = WillHold(b, c).http
                 /\ WillHold(b, c)'.recent = WillHold(b, c).recent
<1>1. c \in connected_nodes /\ is_running
  BY DEF Linked, SendGoal
<1>2. dest' = fd
  BY <1>1 DEF Send
<1>3. c \in Recipients(fd) <=> fd \in {c, NoConn}
  BY <1>1 DEF Recipients
<1>4. /\ c \in Recipients(fd) => Coming(b, c)' = Append(Coming(b, c), OnWire(p))
      /\ c \notin Recipients(fd) => Coming(b, c)' = Coming(b, c)
  BY <1>1, ComingSent
<1>5. bhttp'[b] = bhttp[b] /\ brecent'[b] = brecent[b]
  OBVIOUS
<1>6. CASE fd \in {c, NoConn}
  <2>1. Coming(b, c)' = Append(Coming(b, c), OnWire(p))
    BY <1>3, <1>4, <1>6
  <2> QED
    BY <1>2, <1>5, <1>6, <2>1, HoldSent
<1>7. CASE fd \notin {c, NoConn}
  <2>1. Coming(b, c)' = Coming(b, c)
    BY <1>3, <1>4, <1>7
  <2> QED
    BY <1>2, <1>5, <1>7, <2>1, HoldSame
<1> QED
  BY <1>6, <1>7

\* The recent store does not change by a packet for the other one.
LEMMA HttpPacketStep ==
    ASSUME NEW p \in HttpPackets, NEW r \in RecentStore
    PROVE  OnWire(p).type = "HTTP_SYNC" /\ RecentStep[OnWire(p)][r] = r
<1>1. p \in Packets /\ p.type = "HTTP_SYNC"
  BY DEF HttpPackets, Packets
<1>2. OnWire(p).type = "HTTP_SYNC"
  BY <1>1 DEF OnWire, HttpPackets
<1>3. OnWire(p) \in Incoming
  BY <1>1, OnWireType DEF Incoming
<1> QED
  BY <1>2, <1>3 DEF RecentStep

LEMMA RecentPacketStep ==
    ASSUME NEW p \in RecentPackets, NEW h \in HttpStore, NEW r \in RecentStore
    PROVE  /\ OnWire(p) = p /\ HttpStep[OnWire(p)][h] = h
           /\ RecentStep[OnWire(p)][r] = apply_recent_action(r, p)
<1>1. p \in Incoming /\ p.type = "XT_RECENT_SYNC" /\ OnWire(p) = p
  BY DEF RecentPackets, Packets, Incoming, OnWire
<1> QED
  BY <1>1 DEF RecentStep, HttpStep

LEMMA EntriesStep ==
    ASSUME TypeOK, TypeOK', CountInv, OwnSock, SendGoal, OutboxCurrent, EntriesFollow,
           [Next]_vars
    PROVE  EntriesFollow'
<1> SUFFICES ASSUME NEW b \in Backups, NEW c \in Conns, c \notin skipped',
                    Healthy(b, c)', recentRun' # "off", Following(c)'
             PROVE  RecentCovered(b, c)'
  BY DEF EntriesFollow, Following
<1> DEFINE w == WillHold(b, c).recent
<1>1. /\ Announced(c)
      /\ Following(c) \/ (HandleRequest /\ mpc' = "sync" /\ dest' = c)
  BY FollowingBefore
<1>2. Healthy(b, c) /\ Linked(b, c) /\ Linked(b, c)' /\ c \notin skipped
  BY <1>1, HealthyBefore, SkippedGrows DEF Healthy, Linked
<1>3. /\ w \in RecentStore
      /\ recent \in RecentStore /\ outbox \in SUBSET Packets
      /\ c # NoConn
  <2>1. w \in RecentStore
    BY HoldNow
  <2> HIDE DEF w
  <2> QED
    BY <2>1 DEF TypeOK, ConnTypeOK, ReplTypeOK, Conns, NoConn
<1>4. recentRun # "off" /\ Following(c) =>
         \A x \in RecentSnapshot(recent) : w.entries[x.row] = x.entry \/ StillToSend(c, x)
  BY <1>2 DEF EntriesFollow, Following, RecentCovered
<1>5. ASSUME \A x \in RecentSnapshot(recent)' :
                WillHold(b, c)'.recent.entries[x.row] = x.entry
      PROVE  RecentCovered(b, c)'
  BY <1>5 DEF RecentCovered
<1>6. CASE recent' = EmptyRecent
  <2>1. \A x \in RecentSnapshot(recent') : FALSE
    <3> SUFFICES ASSUME NEW x \in RecentSnapshot(recent') PROVE FALSE
      OBVIOUS
    <3> QED
      BY <1>6, RecentSnapshotRows, StoreAssumption DEF EmptyRecent
  <2> QED
    BY <2>1 DEF RecentCovered
<1>7. ASSUME WillHold(b, c)'.recent = w, recent' = recent, outbox = {},
             recentRun # "off", Following(c)
      PROVE  RecentCovered(b, c)'
  BY <1>4, <1>5, <1>7 DEF StillToSend
<1>8. ASSUME WillHold(b, c)'.recent = w, UNCHANGED <<recent, outbox, dest>>,
             recentRun # "off", Following(c)
      PROVE  RecentCovered(b, c)'
  BY <1>4, <1>8 DEF RecentCovered, StillToSend
<1>9. ASSUME MasterWorker PROVE RecentCovered(b, c)'
  <2>0. recentRun # "off" /\ UNCHANGED <<queue, bhttp, brecent>>
    BY <1>9, WorkerFrame DEF flagVars
  <2>1. CASE HandleRequest /\ mpc' = "sync" /\ dest' = c
    <3>1. outbox' = RecentSnapshot(recent) /\ recent' = recent
      BY <2>0, <2>1 DEF HandleRequest, storeVars, Worker
    <3> QED
      BY <2>1, <3>1 DEF RecentCovered, StillToSend
  <2>2. CASE Following(c) /\ (HandleRequest \/ HandleHttpSync \/ NoRequest
               \/ WorkerEnds \/ Sleep \/ DropHttp \/ EnterHttp \/ HttpDone
               \/ EnterRecent \/ RecentDone)
    <3>1. outbox = {} /\ recent' = recent /\ UNCHANGED <<down, cur, to>>
      BY <2>2 DEF HandleRequest, HandleHttpSync, NoRequest, WorkerEnds, Sleep, DropHttp,
           EnterHttp, HttpDone, EnterRecent, RecentDone, Worker, Sending, storeVars,
           connVars, netVars, sendVars
    <3>2. Coming(b, c)' = Coming(b, c)
      BY <2>0, <3>1, ComingSame
    <3>3. WillHold(b, c)'.recent = w
      BY <2>0, <3>2, HoldSame
    <3> QED
      BY <1>7, <2>0, <2>2, <3>1, <3>3
  <2>3. CASE Following(c) /\ (FarmEvent \/ HttpUpdate)
    <3>1. /\ outbox = {} /\ cur = NoPacket /\ recent' = recent
          /\ UNCHANGED down
      BY <2>3 DEF FarmEvent, HttpUpdate, Worker, Sending, netVars
    <3>2. WillHold(b, c)'.recent = w
      <4>1. ASSUME NEW p \in HttpPackets, Send(p, NoConn) PROVE WillHold(b, c)'.recent = w
        <5>1. p \in Packets
          BY DEF Packets
        <5>2. WillHold(b, c)'.recent = RecentStep[OnWire(p)][w]
          BY <1>2, <2>0, <3>1, <4>1, <5>1, SendReaches
        <5> HIDE DEF w
        <5> QED
          BY <1>3, <5>2, HttpPacketStep
      <4>2. CASE FarmEvent
        <5>1. ClearRequest(Head(httpIn).farm) \in HttpPackets
          BY <4>2, WorkerPackets DEF ClearRequest, HttpPackets
        <5> QED
          BY <4>1, <4>2, <5>1 DEF FarmEvent, SendClear
      <4>3. CASE HttpUpdate /\ backup_servers_fd > 0
        BY <4>1, <4>3, WorkerPackets DEF HttpUpdate, SendUpdate
      <4>4. CASE HttpUpdate /\ ~(backup_servers_fd > 0)
        <5>1. UNCHANGED <<to, cur>>
          BY <4>4 DEF HttpUpdate, SendUpdate
        <5>2. Coming(b, c)' = Coming(b, c)
          BY <2>0, <3>1, <5>1, ComingSame
        <5> QED
          BY <2>0, <5>2, HoldSame
      <4> QED
        BY <2>3, <4>2, <4>3, <4>4
    <3> QED
      BY <1>7, <2>0, <2>3, <3>1, <3>2
  <2>4. CASE Following(c) /\ RecentUpdate
    <3> DEFINE p == Head(recentIn)
    <3>1. /\ outbox = {} /\ cur = NoPacket /\ UNCHANGED down
          /\ recent' = apply_recent_action(recent, p) /\ SendUpdate(p)
          /\ mpc = "recent"
      BY <2>4 DEF RecentUpdate, Worker, Sending, netVars
    <3>2. p \in RecentPackets /\ p \in Packets
      BY <2>4, WorkerPackets
    <3>3. backup_servers_fd > 0
      <4>1. c \in served /\ c \in connected_nodes /\ c # rx.conn
        BY <1>2, <2>4, <3>1 DEF Following, Healthy
      <4> QED
        BY <4>1, CountedServed DEF ServedCounted
    <3>4. Send(p, NoConn)
      BY <3>1, <3>3 DEF SendUpdate
    <3>5. WillHold(b, c)'.recent = RecentStep[OnWire(p)][w]
      <4> HIDE DEF p
      <4> QED
        BY <1>2, <2>0, <3>1, <3>2, <3>4, SendReaches
    <3>6. WillHold(b, c)'.recent = apply_recent_action(w, p)
      <4>1. WillHold(b, c).http \in HttpStore
        BY HoldNow
      <4> HIDE DEF w, p
      <4> QED
        BY <1>3, <3>2, <3>5, <4>1, RecentPacketStep
    <3>7. \A x \in RecentSnapshot(recent) : w.entries[x.row] = x.entry
      BY <1>4, <2>0, <2>4, <3>1 DEF StillToSend
    <3>8. \A x \in RecentSnapshot(recent') : apply_recent_action(w, p).entries[x.row] = x.entry
      <4> HIDE DEF w, p
      <4> QED
        BY <1>3, <3>1, <3>2, <3>7, RecentKept
    <3> QED
      BY <1>5, <3>6, <3>8
  <2>5. CASE Following(c) /\ Deliver /\ SendNext
    <3>1. PICK p \in outbox : outbox' = outbox \ {p} /\ Send(p, dest)
      BY <2>5 DEF SendNext
    <3>2. p \in Packets /\ cur = NoPacket
      BY <1>3, <2>5 DEF SendNext
    <3>3. UNCHANGED <<down, recent>>
      BY <2>5 DEF Deliver, SendNext, HandleSend, HandleSendError, netVars, masterVars, storeVars
    <3>4. /\ dest' = dest
          /\ dest \in {c, NoConn} => WillHold(b, c)'.recent = RecentStep[OnWire(p)][w]
          /\ dest \notin {c, NoConn} => WillHold(b, c)'.recent = w
      BY <1>2, <2>0, <3>1, <3>2, <3>3, SendReaches
    <3> SUFFICES ASSUME NEW x \in RecentSnapshot(recent)
                 PROVE  \/ WillHold(b, c)'.recent.entries[x.row] = x.entry
                        \/ StillToSend(c, x)'
      BY <3>3 DEF RecentCovered
    <3>5. w.entries[x.row] = x.entry \/ StillToSend(c, x)
      BY <1>4, <2>0, <2>5
    <3>6. /\ x.row \in Rows /\ x.type = "XT_RECENT_SYNC" /\ x.entry \in Entries
          /\ recent.entries[x.row] = x.entry
      BY RecentSnapshotRows
    <3>7. CASE dest \notin {c, NoConn}
      BY <3>4, <3>5, <3>7 DEF StillToSend
    <3>8. CASE dest \in {c, NoConn} /\ p \in HttpPackets
      <4>1. WillHold(b, c)'.recent = w
        <5> HIDE DEF w
        <5> QED
          BY <1>3, <3>4, <3>8, HttpPacketStep
      <4>2. p # x
        BY <3>6, <3>8 DEF HttpPackets
      <4> QED
        BY <3>1, <3>4, <3>5, <4>1, <4>2 DEF StillToSend
    <3>9. CASE dest \in {c, NoConn} /\ p \in RecentPackets
      <4>1. p.type = "XT_RECENT_SYNC" /\ p.row \in Rows
        BY <3>9 DEF RecentPackets
      <4>2. p.action = "ADD_UPD_ENTRY" /\ recent.entries[p.row] \in {p.entry, NoEntry}
        BY <3>1, <4>1 DEF OutboxCurrent
      <4>3. WillHold(b, c)'.recent = apply_recent_action(w, p)
        <5>1. WillHold(b, c).http \in HttpStore
          BY HoldNow
        <5> HIDE DEF w
        <5> QED
          BY <1>3, <3>4, <3>9, <5>1, RecentPacketStep
      <4>4. WillHold(b, c)'.recent.entries = [w.entries EXCEPT ![p.row] = p.entry]
        <5> HIDE DEF w
        <5> QED
          BY <4>2, <4>3 DEF apply_recent_action
      <4>5. w.entries \in [Rows -> Entries \cup {NoEntry}]
        <5> HIDE DEF w
        <5> QED
          BY <1>3 DEF RecentStore
      <4> HIDE DEF w
      <4>6. CASE p.row = x.row
        <5>1. p.entry = x.entry
          BY <3>6, <4>2, <4>6, StoreAssumption
        <5> QED
          BY <3>6, <4>4, <4>5, <4>6, <5>1
      <4>7. CASE p.row # x.row
        BY <3>1, <3>4, <3>5, <3>6, <4>1, <4>4, <4>5, <4>7 DEF StillToSend
      <4> QED
        BY <4>6, <4>7
    <3> QED
      BY <3>2, <3>7, <3>8, <3>9 DEF Packets
  <2>6. ASSUME Following(c), NEW d \in to, HandleSend(d) \/ HandleSendError(d, mpc = "sync"),
               Deliver
        PROVE  RecentCovered(b, c)'
    <3>1. WillHold(b, c)'.recent = w
      BY <2>0, <2>6, ComingDeliver, HoldSame
    <3>2. recent' = recent
      BY <2>6 DEF Deliver, masterVars, storeVars
    <3>3. CASE UNCHANGED <<outbox, dest>>
      BY <1>8, <2>0, <2>6, <3>1, <3>2, <3>3
    <3>4. CASE mpc = "sync" /\ HandleSendError(d, mpc = "sync")
      <4>1. dest \in Conns
        BY <3>4 DEF TypeOK, SyncDest
      <4>2. d = dest /\ d \in skipped'
        BY <2>6, <3>4, <4>1 DEF SendGoal, HandleSendError, NoConn, Conns
      <4>3. dest \notin {c, NoConn}
        BY <4>1, <4>2 DEF Conns, NoConn
      <4> QED
        BY <1>4, <1>5, <2>0, <2>6, <3>1, <3>2, <4>3 DEF StillToSend
    <3> QED
      BY <2>6, <3>3, <3>4 DEF HandleSend, HandleSendError
  <2> QED
    BY <1>1, <1>9, <2>1, <2>2, <2>3, <2>4, <2>5, <2>6 DEF MasterWorker, Deliver
<1>10. ASSUME ~MasterWorker, UNCHANGED <<recent, outbox, dest>>, recentRun # "off"
       PROVE  RecentCovered(b, c)'
  <2>1. ~(FarmEvent \/ HttpUpdate \/ RecentUpdate \/ Deliver \/ HandleRequest)
    BY <1>10 DEF MasterWorker
  <2>2. WillHold(b, c)'.recent = w
    BY <1>2, <2>1, HoldStep
  <2> QED
    BY <1>1, <1>8, <1>10, <2>1, <2>2
<1>11. CASE ~MasterWorker /\ ListenersAndCommands
  <2>1. recent' = EmptyRecent \/ (recent' = recent /\ recentRun # "off")
    BY <1>11 DEF ListenersAndCommands, PoundSends, PollerQueues, StartHttp, FarmGone,
                 ClearHttp, StartRecent, StopRecent, storeVars, RecentAtStart, flagVars
  <2>2. UNCHANGED <<outbox, dest>>
    BY <1>11, ControlFrame DEF connVars, sendVars
  <2> QED
    BY <1>6, <1>10, <1>11, <2>1, <2>2
<1>12. CASE ~MasterWorker /\ (Quit \/ StopListeners)
  <2>1. recentRun # "off"
    BY <1>12 DEF Quit, StopListeners
  <2> QED
    BY <1>10, <1>12, <2>1, QuitFrame DEF storeVars, connVars, sendVars
<1>13. CASE MasterStart \/ MasterGone
  BY <1>6, <1>13 DEF MasterStart, MasterGone
<1>14. ASSUME ~MasterWorker, UNCHANGED <<recent, outbox, dest, recentRun>>
       PROVE  RecentCovered(b, c)'
  BY <1>10, <1>14
<1>15. CASE ~MasterWorker /\ (MasterReceive \/ UNCHANGED vars)
  BY <1>14, <1>15, ReceiveFrame
  DEF vars, connVars, sendVars, masterVars, storeVars, flagVars
<1>16. CASE ~MasterWorker /\ \E d \in Backups : BackupStep(d)
  BY <1>14, <1>16, BackupFrame DEF sendVars, masterVars, storeVars, flagVars
<1>17. CASE ~MasterWorker /\ \E d \in Conns : Network(d)
  BY <1>14, <1>17, NetworkFrame DEF sendVars, masterVars, storeVars, flagVars
<1> QED
  BY <1>9, <1>11, <1>12, <1>13, <1>15, <1>16, <1>17, NextKinds

LEMMA NotYetServed == Init => EntriesFollow /\ NoSessionLost
BY DEF Init, ConnInit, EntriesFollow, NoSessionLost, Synced

LEMMA InitSending == Init => OwnSock /\ SendGoal /\ OutboxCurrent
BY DEF Init, ConnInit, OwnSock, SendGoal, OutboxCurrent

LEMMA EntriesCovered == EntriesFollow => NoEntryLost
BY DEF EntriesFollow, NoEntryLost, Synced

(***************************************************************************)
(* Every entry of the master is on a backup whose SYNC_REQUEST has been    *)
(* answered, or on its way to it: whatever the poller queues and the       *)
(* operator orders while the answer is being sent, and whatever fails.     *)
(***************************************************************************)
THEOREM NoEntryLostHolds == Spec => []NoEntryLost
<1> DEFINE Inv == /\ TypeOK /\ CountInv /\ OwnSock /\ SendGoal /\ OutboxCurrent
                  /\ EntriesFollow
<1>1. Init => Inv
  BY TypeInit, CountInit, InitSending, NotYetServed
<1>2. Inv /\ [Next]_vars => Inv'
  <2> SUFFICES ASSUME Inv, [Next]_vars PROVE Inv'
    OBVIOUS
  <2>1. TypeOK' /\ CountInv'
    BY TypeStep, CountStep
  <2> QED
    BY <2>1, OwnStep, SendGoalStep, OutboxStep, EntriesStep
<1>3. Inv => NoEntryLost
  BY EntriesCovered
<1> HIDE DEF Inv
<1> QED
  BY <1>1, <1>2, <1>3, PTL DEF Spec

-----------------------------------------------------------------------------
\* What the two stores of a session have in common

(***************************************************************************)
(* The numbers of listeners and services that fit in the byte they are     *)
(* sent in (pkt_parser::serialize); a session of another one arrives under *)
(* a slot of its own.                                                      *)
(***************************************************************************)
SmallIds == \A n \in Listeners \cup Services : n < 256

SessionPackets ==
    {p \in HttpPackets : p.action \in SessionActions /\ p.slot \in Slots
                            /\ p.backend \in Backends}

LEMMA HttpPacketKinds ==
    ASSUME NEW p \in HttpPackets
    PROVE  /\ p \in SessionPackets
                \/ (p.action = "CLEAR_DATA" /\ p.farm \in Farms)
           /\ p.type = "HTTP_SYNC" /\ p \in Packets
BY DEF HttpPackets, SessionPackets, Packets

LEMMA OnWireSession ==
    ASSUME SmallIds, NEW p \in HttpPackets
    PROVE  /\ p \in SessionPackets =>
                 /\ OnWire(p) \in SessionPackets
                 /\ OnWire(p).action = p.action /\ OnWire(p).slot = p.slot
                 /\ OnWire(p).backend = LowByte(p.backend)
           /\ p.action = "CLEAR_DATA" => OnWire(p) = p
<1>1. p.type = "HTTP_SYNC" /\ OnWire(p) \in Packets
  BY OnWireType, HttpPacketKinds
<1>2. ASSUME p \in SessionPackets
      PROVE  /\ OnWire(p) \in SessionPackets
             /\ OnWire(p).action = p.action /\ OnWire(p).slot = p.slot
             /\ OnWire(p).backend = LowByte(p.backend)
  <2>1. p.slot \in Slots /\ p.action \in SessionActions /\ p.backend \in Backends
    BY <1>2 DEF SessionPackets
  <2>2. p.action # "CLEAR_DATA"
    BY <2>1 DEF SessionActions
  <2>3. p \in [type: {"HTTP_SYNC"}, action: SessionActions, slot: Slots, backend: Backends]
    BY <2>2 DEF HttpPackets
  <2>4. p.slot.listener < 256 /\ p.slot.service < 256
        /\ p.slot.listener \in Nat /\ p.slot.service \in Nat
    BY <2>1, StoreAssumption DEF SmallIds, Slots
  <2>5. LowByte(p.slot.listener) = p.slot.listener
        /\ LowByte(p.slot.service) = p.slot.service
    BY <2>4 DEF LowByte
  <2> DEFINE s == [farm     |-> p.slot.farm,
                   listener |-> LowByte(p.slot.listener),
                   service  |-> LowByte(p.slot.service),
                   key      |-> p.slot.key]
  <2>6. s = p.slot
    BY <2>1, <2>5 DEF Slots
  <2>7. OnWire(p) = [p EXCEPT !.slot = s, !.backend = LowByte(p.backend)]
    BY <1>1, <2>2 DEF OnWire
  <2> HIDE DEF s
  <2>8. LowByte(p.backend) \in Backends
    BY <2>1, LowByteType
  <2> QED
    BY <2>1, <2>3, <2>6, <2>7, <2>8 DEF SessionPackets, HttpPackets
<1>3. p.action = "CLEAR_DATA" => OnWire(p) = p
  BY DEF OnWire
<1> QED
  BY <1>2, <1>3

(***************************************************************************)
(* The sessions and the keys after an update.                              *)
(***************************************************************************)
LEMMA AddSessionParts ==
    ASSUME NEW h \in HttpStore, NEW slot \in Slots, NEW backend, NEW x \in Slots
    PROVE  LET svc == ServiceOf(slot)
               Displaced == /\ svc \notin h.services
                            /\ x.farm = slot.farm /\ x.listener = slot.listener
           IN  AddSession(h, slot, backend).sessions[x] =
                  IF x = slot THEN backend
                  ELSE IF Displaced THEN NoSession ELSE h.sessions[x]
BY DEF AddSession

LEMMA KeyedKept ==
    ASSUME NEW h \in HttpStore, Keyed(h), NEW p \in HttpPackets
    PROVE  Keyed(apply_http_action(h, p))
<1> DEFINE g == apply_http_action(h, p)
<1> SUFFICES Keyed(g)
  OBVIOUS
<1>1. CASE p \in SessionPackets /\ p.action \in {"SESS_ADD", "SESS_UPDATE"}
  <2> DEFINE s == p.slot
             svc == ServiceOf(s)
             Displaced(x) == /\ svc \notin h.services
                             /\ x.farm = s.farm /\ x.listener = s.listener
  <2>1. s \in Slots
    BY <1>1 DEF SessionPackets
  <2>2. /\ g.farms = h.farms \cup {s.farm}
        /\ g.services = {x \in h.services : ~Displaced(x)} \cup {svc}
        /\ \A x \in Slots : g.sessions[x] = IF x = s THEN p.backend
                                            ELSE IF Displaced(x) THEN NoSession
                                            ELSE h.sessions[x]
    BY <1>1 DEF apply_http_action, AddSession
  <2>3. ASSUME NEW x \in Slots, g.sessions[x] # NoSession
        PROVE  ServiceOf(x) \in g.services /\ x.farm \in g.farms
    <3>1. CASE x = s
      BY <2>2, <3>1
    <3>2. CASE x # s
      <4>1. ~Displaced(x) /\ h.sessions[x] # NoSession
        BY <2>2, <2>3, <3>2
      <4>2. ServiceOf(x) \in h.services /\ x.farm \in h.farms
        BY <4>1 DEF Keyed
      <4>3. ~Displaced(ServiceOf(x))
        BY <4>1 DEF ServiceOf
      <4> QED
        BY <2>2, <4>2, <4>3
    <3> QED
      BY <3>1, <3>2
  <2>4. ASSUME NEW x \in g.services, NEW y \in g.services,
               x.farm = y.farm, x.listener = y.listener
        PROVE  x = y
    <3>1. svc.farm = s.farm /\ svc.listener = s.listener
      BY DEF ServiceOf
    <3>2. \A z \in h.services : ~Displaced(z) /\ z.farm = s.farm
             /\ z.listener = s.listener => svc \in h.services
      OBVIOUS
    <3> HIDE DEF g, svc
    <3> QED
      BY <2>2, <2>4, <3>1, <3>2 DEF Keyed
  <2> QED
    BY <2>3, <2>4 DEF Keyed
<1>2. CASE p \in SessionPackets /\ p.action = "SESS_DELETE"
  <2>1. /\ g.farms = h.farms \cup {p.slot.farm} /\ g.services = h.services
        /\ g.sessions = [h.sessions EXCEPT ![p.slot] = NoSession]
    BY <1>2 DEF apply_http_action, DeleteSession
  <2>2. h.sessions \in [Slots -> Backends \cup {NoSession}]
    BY DEF HttpStore
  <2> HIDE DEF g
  <2> QED
    BY <2>1, <2>2 DEF Keyed
<1>3. CASE p.action = "CLEAR_DATA"
  <2>1. /\ g.farms = h.farms \cup {p.farm}
        /\ g.services = {x \in h.services : x.farm # p.farm}
        /\ \A x \in Slots : g.sessions[x] = IF x.farm = p.farm THEN NoSession
                                            ELSE h.sessions[x]
    BY <1>3 DEF apply_http_action, ClearFarm, HttpStore
  <2>2. \A x \in Slots : ServiceOf(x).farm = x.farm
    BY DEF ServiceOf
  <2> HIDE DEF g
  <2> QED
    BY <2>1, <2>2 DEF Keyed
<1> QED
  BY <1>1, <1>2, <1>3, HttpPacketKinds DEF SessionPackets, SessionActions

LEMMA KeyedEmpty == Keyed(EmptyHttp)
BY DEF Keyed, EmptyHttp

LEMMA KeyedCleared ==
    ASSUME NEW h \in HttpStore, Keyed(h), NEW f
    PROVE  Keyed(clear_http_farm_data(h, f))
<1>1. \A x \in Slots : ServiceOf(x).farm = x.farm
  BY DEF ServiceOf
<1> QED
  BY <1>1 DEF Keyed, clear_http_farm_data, ClearFarm

(***************************************************************************)
(* What w holds of the sessions of h, the backends as the bytes sent.      *)
(***************************************************************************)
Reflects(h, w) ==
    \A x \in Slots : h.sessions[x] # NoSession => w.sessions[x] = LowByte(h.sessions[x])

LEMMA HttpKept ==
    ASSUME SmallIds, NEW h \in HttpStore, NEW w \in HttpStore, Keyed(h), Keyed(w),
           Reflects(h, w), NEW p \in HttpPackets
    PROVE  Reflects(apply_http_action(h, p), apply_http_action(w, OnWire(p)))
<1> DEFINE g == apply_http_action(h, p)
           v == apply_http_action(w, OnWire(p))
<1> SUFFICES ASSUME NEW x \in Slots, g.sessions[x] # NoSession
             PROVE  v.sessions[x] = LowByte(g.sessions[x])
  BY DEF Reflects
<1>0. LowByte(h.sessions[x]) # NoSession \/ h.sessions[x] = NoSession
  BY LowByteType, StoreAssumption DEF HttpStore
<1>1. CASE p \in SessionPackets /\ p.action \in {"SESS_ADD", "SESS_UPDATE"}
  <2> DEFINE s == p.slot
             svc == ServiceOf(s)
             Displaced(k) == /\ svc \notin k.services
                             /\ x.farm = s.farm /\ x.listener = s.listener
  <2>1. s \in Slots
    BY <1>1 DEF SessionPackets
  <2>2. /\ OnWire(p).slot = s /\ OnWire(p).action = p.action
        /\ OnWire(p).backend = LowByte(p.backend)
    BY <1>1, OnWireSession
  <2>3. g.sessions[x] = IF x = s THEN p.backend
                        ELSE IF Displaced(h) THEN NoSession ELSE h.sessions[x]
    <3>1. g = AddSession(h, s, p.backend)
      BY <1>1 DEF apply_http_action
    <3> QED
      BY <2>1, <3>1, AddSessionParts
  <2>4. v.sessions[x] = IF x = s THEN LowByte(p.backend)
                        ELSE IF Displaced(w) THEN NoSession ELSE w.sessions[x]
    <3>1. v = AddSession(w, s, LowByte(p.backend))
      BY <1>1, <2>2 DEF apply_http_action
    <3> QED
      BY <2>1, <3>1, AddSessionParts
  <2>5. CASE x = s
    BY <2>3, <2>4, <2>5
  <2>6. CASE x # s
    <3>1. ~Displaced(h) /\ g.sessions[x] = h.sessions[x] /\ h.sessions[x] # NoSession
      BY <2>3, <2>6
    <3>2. w.sessions[x] = LowByte(h.sessions[x]) /\ w.sessions[x] # NoSession
      BY <1>0, <3>1 DEF Reflects
    <3>3. ServiceOf(x) \in h.services /\ ServiceOf(x) \in w.services
      BY <3>1, <3>2 DEF Keyed
    <3>4. ~Displaced(w)
      <4> SUFFICES ASSUME Displaced(w) PROVE FALSE
        OBVIOUS
      <4>1. svc \in h.services
        BY <3>1
      <4>2. svc.farm = ServiceOf(x).farm /\ svc.listener = ServiceOf(x).listener
        BY DEF ServiceOf
      <4>3. svc = ServiceOf(x)
        <5> HIDE DEF svc
        <5> QED
          BY <3>3, <4>1, <4>2 DEF Keyed
      <4> QED
        BY <3>3, <4>3
    <3> QED
      BY <2>4, <2>6, <3>1, <3>2, <3>4
  <2> QED
    BY <2>5, <2>6
<1>2. CASE p \in SessionPackets /\ p.action = "SESS_DELETE"
  <2>1. g.sessions = [h.sessions EXCEPT ![p.slot] = NoSession]
    BY <1>2 DEF apply_http_action, DeleteSession
  <2>2. OnWire(p).slot = p.slot /\ OnWire(p).action = p.action
    BY <1>2, OnWireSession
  <2>3. v.sessions = [w.sessions EXCEPT ![p.slot] = NoSession]
    BY <1>2, <2>2 DEF apply_http_action, DeleteSession
  <2>4. /\ h.sessions \in [Slots -> Backends \cup {NoSession}]
        /\ w.sessions \in [Slots -> Backends \cup {NoSession}]
    BY DEF HttpStore
  <2> HIDE DEF g, v
  <2> QED
    BY <2>1, <2>3, <2>4 DEF Reflects
<1>3. CASE p.action = "CLEAR_DATA"
  <2>1. \A k \in HttpStore : apply_http_action(k, p).sessions[x] =
           IF x.farm = p.farm THEN NoSession ELSE k.sessions[x]
    BY <1>3 DEF apply_http_action, ClearFarm, HttpStore
  <2>2. OnWire(p) = p
    BY <1>3, OnWireSession
  <2> QED
    BY <2>1, <2>2 DEF Reflects
<1> QED
  BY <1>1, <1>2, <1>3, HttpPacketKinds DEF SessionPackets, SessionActions

(***************************************************************************)
(* The two sides of FarmEvent.  The master clears the farm when it holds   *)
(* it; the backup, which may hold a farm the master does not, always does. *)
(***************************************************************************)
LEMMA ClearKept ==
    ASSUME NEW h \in HttpStore, NEW w \in HttpStore, Keyed(h), Reflects(h, w),
           NEW f \in Farms
    PROVE  Reflects(clear_http_farm_data(h, f), apply_http_action(w, ClearRequest(f)))
<1> DEFINE g == clear_http_farm_data(h, f)
           v == apply_http_action(w, ClearRequest(f))
<1> SUFFICES ASSUME NEW x \in Slots, g.sessions[x] # NoSession
             PROVE  v.sessions[x] = LowByte(g.sessions[x])
  BY DEF Reflects
<1>1. v.sessions[x] = IF x.farm = f THEN NoSession ELSE w.sessions[x]
  BY DEF apply_http_action, ClearRequest, ClearFarm, HttpStore
<1>2. g.sessions[x] = h.sessions[x] /\ x.farm # f
  BY DEF clear_http_farm_data, ClearFarm, Keyed
<1> QED
  BY <1>1, <1>2 DEF Reflects

LEMMA HoldKeyed ==
    ASSUME TypeOK, SendGoal, StoresKeyed, NEW b \in Backups, NEW c \in Conns
    PROVE  Keyed(WillHold(b, c).http)
<1> DEFINE W == {h \in HttpStore : Keyed(h)}
           q == Coming(b, c)
           st == bhttp[b]
<1>1. /\ q \in Seq(Incoming) /\ st \in W
      /\ WillHold(b, c).http = Result(HttpStore, HttpStep, st, q)
  BY HoldNow DEF StoresKeyed
<1>2. ASSUME NEW p \in Incoming, NEW h \in W PROVE HttpStep[p][h] \in W
  <2>1. h \in HttpStore /\ Keyed(h)
    OBVIOUS
  <2>2. HttpStep[p][h] = IF p.type = "HTTP_SYNC" THEN apply_http_action(h, p) ELSE h
    BY <2>1 DEF HttpStep
  <2>3. p.type = "HTTP_SYNC" => p \in HttpPackets
    BY PacketKinds
  <2> QED
    BY <2>1, <2>2, <2>3, KeyedKept, ApplyHttpType
<1>3. W \in SUBSET HttpStore
  OBVIOUS
<1> HIDE DEF W, q, st
<1>4. \A i \in 1 .. Len(q) : \A h \in W : HttpStep[q[i]][h] \in W
  BY <1>1, <1>2
<1>5. Result(HttpStore, HttpStep, st, q) \in W
  BY <1>1, <1>3, <1>4, StepTypes, ResultKeeps
<1> QED
  BY <1>1, <1>5 DEF W

(***************************************************************************)
(* The stores change by apply_http_action, by a farm cleared, or entirely. *)
(***************************************************************************)
LEMMA KeyedStep ==
    ASSUME TypeOK, StoresKeyed, [Next]_vars
    PROVE  StoresKeyed'
<1> USE DEF StoresKeyed
<1>0. http \in HttpStore /\ bhttp \in [Backups -> HttpStore]
  BY DEF TypeOK, ReplTypeOK
<1>1. CASE UNCHANGED bhttp /\ (http' = http \/ http' = EmptyHttp)
  BY <1>1, KeyedEmpty
<1>2. CASE MasterWorker
  <2>1. UNCHANGED bhttp
    BY <1>2, WorkerFrame
  <2>2. CASE FarmEvent
    <3>1. http' = clear_http_farm_data(http, Head(httpIn).farm)
      BY <2>2 DEF FarmEvent
    <3> QED
      BY <1>0, <2>1, <3>1, KeyedCleared
  <2>3. CASE HttpUpdate
    <3>1. http' = apply_http_action(http, Head(httpIn)) /\ Head(httpIn) \in HttpPackets
      BY <2>3, WorkerPackets DEF HttpUpdate
    <3> QED
      BY <1>0, <2>1, <3>1, KeyedKept
  <2>4. CASE ~FarmEvent /\ ~HttpUpdate
    <3>1. http' = http \/ http' = EmptyHttp
      BY <1>2, <2>4 DEF MasterWorker, HandleRequest, HandleHttpSync, NoRequest,
           WorkerEnds, Sleep, DropHttp, EnterHttp, HttpDone, EnterRecent, RecentUpdate,
           RecentDone, Deliver, storeVars, masterVars
    <3> QED
      BY <1>1, <2>1, <3>1
  <2> QED
    BY <2>2, <2>3, <2>4
<1>3. CASE MasterReceive
  BY <1>1, <1>3, ReceiveFrame DEF masterVars, storeVars, backupVars
<1>4. CASE ListenersAndCommands
  <2>1. http' = http \/ http' = EmptyHttp
    BY <1>4 DEF ListenersAndCommands, PoundSends, PollerQueues, StartHttp, FarmGone,
                ClearHttp, StartRecent, StopRecent, storeVars
  <2> QED
    BY <1>1, <1>4, <2>1, ControlFrame DEF backupVars
<1>5. CASE MasterStart \/ MasterGone
  BY <1>1, <1>5 DEF MasterStart, MasterGone, backupVars
<1>6. ASSUME NEW b \in Backups, BackupStep(b) PROVE StoresKeyed'
  <2>1. UNCHANGED http
    BY <1>6, BackupFrame DEF masterVars, storeVars
  <2>2. CASE HandlePacket(b)
    <3>1. queue[b] \in Seq(Incoming) /\ queue[b] # <<>>
      BY <2>2 DEF HandlePacket, TypeOK, ConnTypeOK, Incoming
    <3>2. Head(queue[b]) \in Incoming
      BY <3>1, HeadTailType
    <3>3. \/ UNCHANGED bhttp
          \/ /\ Head(queue[b]).type = "HTTP_SYNC"
             /\ bhttp' = [bhttp EXCEPT ![b] = apply_http_action(@, Head(queue[b]))]
      BY <2>2 DEF HandlePacket
    <3>4. Head(queue[b]).type = "HTTP_SYNC" => Head(queue[b]) \in HttpPackets
      BY <3>2, PacketKinds
    <3> QED
      BY <1>0, <2>1, <3>3, <3>4, KeyedKept
  <2>3. UNCHANGED bhttp \/ bhttp' = [bhttp EXCEPT ![b] = EmptyHttp] \/ HandlePacket(b)
    BY <1>6 DEF BackupStep, BackupStart, BackupWorker, Dial, Dialed, EnterRun,
         ExitFailure, FirstRequest, Resync, Recheck, BackupReceive, BackupCrash, Gone,
         backupVars
  <2> QED
    BY <1>0, <2>1, <2>2, <2>3, KeyedEmpty
<1>7. ASSUME NEW c \in Conns, Network(c) PROVE StoresKeyed'
  BY <1>1, <1>7, NetworkFrame DEF masterVars, storeVars, backupVars
<1>8. CASE Quit \/ StopListeners \/ UNCHANGED vars
  BY <1>1, <1>8, QuitFrame DEF vars, masterVars, storeVars, backupVars
<1> QED
  BY <1>2, <1>3, <1>4, <1>5, <1>6, <1>7, <1>8, NextKinds

-----------------------------------------------------------------------------
\* The sessions are dropped before they are asked for

LEMMA RequestTaken ==
    ASSUME TypeOK, HandleRequest, mpc' = "sync", NEW c \in Conns, dest' = c
    PROVE  c \in Queued("SYNC_REQUEST")
<1> DEFINE q == input_packet_queue
<1>1. q \in Seq(Requests) /\ q # <<>>
  BY DEF HandleRequest, TypeOK, ConnTypeOK
<1>2. 1 \in DOMAIN q /\ Head(q) = q[1]
  BY <1>1
<1>3. Head(q).type = "SYNC_REQUEST" /\ Head(q).fd = c
  BY DEF HandleRequest, ReplyTo, Worker
<1>4. Head(q) \in Requests
  BY <1>1, HeadTailType
<1> HIDE DEF q
<1>5. Head(q) = Request("SYNC_REQUEST", c)
  BY <1>3, <1>4, RequestForm
<1> QED
  BY <1>2, <1>5 DEF q, Queued

LEMMA AskedBefore ==
    ASSUME TypeOK, CountInv, [Next]_vars, NEW c \in Conns, Asked(c)'
    PROVE  \/ Asked(c)
           \/ \E b \in Backups : /\ FirstRequest(b) \/ Resync(b)
                                 /\ SendRequest(b) /\ sock[b] = c
<1> USE DEF Asked
<1>0. up \in [Conns -> BOOLEAN] /\ ConnTypeOK
  BY DEF TypeOK, ConnTypeOK
<1>1. ASSUME UNCHANGED <<up, input_packet_queue, served, mpc, dest>> PROVE Asked(c)
  BY <1>1 DEF Queued
<1>2. ASSUME UNCHANGED <<input_packet_queue, served, mpc, dest>>, up'[c] => up[c]
      PROVE  Asked(c)
  BY <1>2 DEF Queued
<1>3. CASE MasterWorker
  <2>0. UNCHANGED up
    BY <1>3, WorkerFrame
  <2>1. CASE HandleRequest
    <3>1. Queued("SYNC_REQUEST")' \subseteq Queued("SYNC_REQUEST")
      BY <1>0, <2>1, QueuedTail DEF HandleRequest
    <3>2. UNCHANGED served
      BY <2>1 DEF HandleRequest
    <3> QED
      BY <2>0, <2>1, <3>1, <3>2, RequestTaken
  <2>2. CASE HandleHttpSync
    BY <2>0, <2>2 DEF HandleHttpSync, Queued, Worker, serverVars
  <2>3. CASE NoRequest \/ WorkerEnds \/ Sleep \/ EnterHttp \/ HttpDone \/ EnterRecent
             \/ RecentDone \/ DropHttp \/ FarmEvent \/ HttpUpdate \/ RecentUpdate
    <3>1. UNCHANGED <<input_packet_queue, served>> /\ mpc' # "sync"
      BY <2>3 DEF NoRequest, WorkerEnds, Sleep, EnterHttp, HttpDone, EnterRecent,
           RecentDone, DropHttp, FarmEvent, HttpUpdate, RecentUpdate, Worker,
           workerVars, connVars, serverVars
    <3> QED
      BY <2>0, <3>1 DEF Queued
  <2>4. CASE Deliver
    <3>1. UNCHANGED <<input_packet_queue, served, mpc, dest>>
      BY <2>4 DEF Deliver, SendNext, Send, HandleSend, HandleSendError, masterVars,
                  workerVars, serverVars
    <3> QED
      BY <1>1, <2>0, <3>1
  <2> QED
    BY <1>3, <2>1, <2>2, <2>3, <2>4 DEF MasterWorker
<1>4. CASE MasterReceive
  <2>0. UNCHANGED <<served, mpc, dest>>
    BY <1>4, ReceiveFrame DEF masterVars, workerVars
  <2>1. CASE AcceptNode \/ EraseNode
    BY <1>1, <2>0, <2>1 DEF AcceptNode, EraseNode
  <2>2. CASE AnnounceNode
    <3>1. rx.conn \in Conns
      BY <1>0, <2>2 DEF AnnounceNode, ConnTypeOK, Polling
    <3>2. Request("CONNECT", rx.conn) \in Requests
      BY <3>1 DEF Request, Requests
    <3>3. \A e : Request("CONNECT", rx.conn) # Request("SYNC_REQUEST", e)
      BY RequestInjective
    <3>4. Queued("SYNC_REQUEST")' \subseteq Queued("SYNC_REQUEST")
      BY <1>0, <2>2, <3>2, <3>3, QueuedAppend DEF AnnounceNode
    <3> QED
      BY <2>0, <2>2, <3>4 DEF AnnounceNode, netVars
  <2>3. ASSUME NEW d \in Conns, ReadRequest(d) PROVE Asked(c)
    <3>1. Request("SYNC_REQUEST", d) \in Requests
      BY DEF Request, Requests
    <3>2. Queued("SYNC_REQUEST")' \subseteq Queued("SYNC_REQUEST") \cup {d}
      BY <1>0, <2>3, <3>1, QueuedAppend, RequestInjective DEF ReadRequest
    <3> QED
      BY <1>0, <2>0, <2>3, <3>2 DEF ReadRequest
  <2>4. ASSUME NEW d \in Conns, ReadEof(d) PROVE Asked(c)
    <3>1. Request("DISCONNECT", d) \in Requests
      BY DEF Request, Requests
    <3>2. \A e : Request("DISCONNECT", d) # Request("SYNC_REQUEST", e)
      BY RequestInjective
    <3>3. Queued("SYNC_REQUEST")' \subseteq Queued("SYNC_REQUEST")
      BY <1>0, <2>4, <3>1, <3>2, QueuedAppend DEF ReadEof
    <3> QED
      BY <1>0, <2>0, <2>4, <3>3 DEF ReadEof
  <2>5. ASSUME NEW d \in Conns, ReadError(d) PROVE Asked(c)
    BY <1>0, <1>2, <2>0, <2>5 DEF ReadError, serverVars
  <2> QED
    BY <1>4, <2>1, <2>2, <2>3, <2>4, <2>5 DEF MasterReceive, ServerReceive
<1>5. CASE MasterStart
  BY <1>5 DEF MasterStart, StartServer, netVars, Queued
<1>6. CASE MasterGone
  BY <1>6 DEF MasterGone, CloseServer, Queued
<1>7. ASSUME NEW b \in Backups, BackupStep(b)
      PROVE  \/ Asked(c)
             \/ (FirstRequest(b) \/ Resync(b)) /\ SendRequest(b) /\ sock[b] = c
  <2>0. UNCHANGED <<input_packet_queue, served, mpc, dest>>
    BY <1>7, BackupFrame DEF sendVars, masterVars, workerVars
  <2>1. CASE UNCHANGED up
    BY <1>1, <2>0, <2>1
  <2>2. CASE (FirstRequest(b) \/ Resync(b)) /\ SendRequest(b)
    BY <1>0, <1>2, <2>0, <2>2 DEF SendRequest
  <2>3. UNCHANGED up \/ ((FirstRequest(b) \/ Resync(b)) /\ SendRequest(b))
    BY <1>7 DEF BackupStep, BackupStart, BackupWorker, Dial, Connect, Dialed, EnterRun,
         ExitFailure, FirstRequest, Resync, Recheck, BackupReceive, BackupCrash, Gone,
         HandlePacket, CloseClient, ClientReceive, ReadPacket, ReadEofClient,
         ReadErrorClient, SendRequestError, connVars, netVars
  <2> QED
    BY <2>1, <2>2, <2>3
<1>8. ASSUME NEW d \in Conns, Network(d) PROVE Asked(c)
  <2>1. UNCHANGED <<input_packet_queue, served, mpc, dest>>
    BY <1>8, NetworkFrame DEF serverVars, sendVars, masterVars, workerVars
  <2>2. up'[c] => up[c]
    BY <1>0, <1>8 DEF Network, ResetSender, ResetBoth
  <2> QED
    BY <1>2, <2>1, <2>2
<1>9. CASE ListenersAndCommands \/ Quit \/ StopListeners \/ UNCHANGED vars
  BY <1>1, <1>9, ControlFrame, QuitFrame
  DEF vars, connVars, netVars, serverVars, sendVars, masterVars, workerVars
<1> QED
  BY <1>3, <1>4, <1>5, <1>6, <1>7, <1>8, <1>9, NextKinds

(***************************************************************************)
(* A connection just made has not been asked on, and run() drops the       *)
(* sessions before it asks.                                                *)
(***************************************************************************)
LEMMA DropsFirstStep ==
    ASSUME TypeOK, TypeOK', CountInv, OwnSock, DropsFirst, [Next]_vars
    PROVE  DropsFirst'
<1> USE DEF Conns, NoConn
<1>0. /\ sock \in [Backups -> Conns \cup {NoConn}]
      /\ made \in 0 .. MaxConns /\ MaxConns \in Nat
      /\ bpc \in [Backups -> {"down", "dial", "dialed", "run", "request", "loop",
                              "redial", "redialed", "recheck", "ended"}]
  BY ConnectionAssumption DEF TypeOK, ConnTypeOK, ReplTypeOK
<1> SUFFICES ASSUME NEW b \in Backups, NEW c \in Conns, bpc'[b] = "redialed",
                    sock'[b] = c, Asked(c)'
             PROVE  FALSE
  BY DEF DropsFirst, Asked, Queued, TypeOK, ConnTypeOK
<1>1. c # NoConn
  OBVIOUS
<1>2. c > made => ~Asked(c)
  <2> SUFFICES ASSUME c > made, Asked(c) PROVE FALSE
    OBVIOUS
  <2>1. ~up[c] /\ srvEnd[c] = "none"
    BY <1>1 DEF OwnSock, CountInv, NodesOpen
  <2>2. ~Announced(c)
    BY <2>1 DEF Announced
  <2>3. c \notin Queued("SYNC_REQUEST")
    <3> SUFFICES ASSUME NEW i \in DOMAIN input_packet_queue,
                        input_packet_queue[i] = Request("SYNC_REQUEST", c)
                 PROVE  FALSE
      BY DEF Queued
    <3>1. Announced(input_packet_queue[i].fd)
      BY DEF CountInv, QueueOrdered
    <3> QED
      BY <2>2, <3>1, RequestInjective
  <2> QED
    BY <2>1, <2>2, <2>3 DEF Asked, CountInv, ServedAnnounced
<1>3. \/ c = made + 1
      \/ bpc[b] = "redialed" /\ c = sock[b]
  <2>1. CASE UNCHANGED <<bpc, sock>>
    BY <2>1
  <2>2. ASSUME NEW d \in Backups, BackupStep(d)
        PROVE  c = made + 1 \/ (bpc[b] = "redialed" /\ c = sock[b])
    <3>1. CASE Dial(d)
      <4>1. sock' = [sock EXCEPT ![d] = made + 1]
        BY <3>1 DEF Dial, Connect
      <4>2. d # b => bpc'[b] = bpc[b] /\ sock'[b] = sock[b]
        BY <1>0, <3>1, <4>1 DEF Dial, Goto
      <4> QED
        BY <1>0, <4>1, <4>2
    <3>2. CASE ~Dial(d)
      <4>1. UNCHANGED sock \/ sock' = [sock EXCEPT ![d] = NoConn]
        BY <2>2, <3>2 DEF BackupStep, BackupStart, BackupWorker, Dialed, EnterRun,
           ExitFailure, FirstRequest, Resync, Recheck, BackupReceive, BackupCrash, Gone,
           HandlePacket, CloseClient, ClientReceive, ReadPacket, ReadEofClient,
           ReadErrorClient, connVars, clientVars
      <4>2. sock'[b] = sock[b]
        BY <1>0, <4>1
      <4>3. UNCHANGED bpc \/ \E at : at # "redialed" /\ bpc' = [bpc EXCEPT ![d] = at]
        BY <2>2, <3>2 DEF BackupStep, BackupStart, BackupWorker, Dialed, EnterRun,
           ExitFailure, FirstRequest, Resync, Recheck, BackupReceive, BackupCrash, Gone,
           HandlePacket, Goto, backupVars
      <4>4. bpc[b] = "redialed"
        BY <1>0, <4>3
      <4> QED
        BY <4>2, <4>4
    <3> QED
      BY <3>1, <3>2
  <2>3. MasterWorker \/ MasterReceive \/ ListenersAndCommands \/ Quit \/ StopListeners
           \/ MasterStart \/ MasterGone \/ UNCHANGED vars => UNCHANGED <<bpc, sock>>
    BY WorkerFrame, ReceiveFrame, ControlFrame, QuitFrame
    DEF MasterStart, StartServer, MasterGone, CloseServer, vars, connVars, clientVars,
        backupVars
  <2>4. ASSUME NEW d \in Conns, Network(d) PROVE UNCHANGED <<bpc, sock>>
    BY <2>4, NetworkFrame DEF clientVars, backupVars
  <2> QED
    BY <2>1, <2>2, <2>3, <2>4, NextKinds
<1>4. ~Asked(c)
  BY <1>0, <1>2, <1>3 DEF DropsFirst
<1>5. PICK d \in Backups : (FirstRequest(d) \/ Resync(d)) /\ sock[d] = c
  BY <1>4, AskedBefore
<1>6. bpc'[d] # "redialed"
  BY <1>0, <1>5 DEF FirstRequest, Resync, Goto
<1>7. UNCHANGED sock
  BY <1>5 DEF FirstRequest, Resync, clientVars
<1>8. d = b
  BY <1>0, <1>1, <1>5, <1>7 DEF OwnSock
<1> QED
  BY <1>6, <1>8

-----------------------------------------------------------------------------
\* No session is lost

LEMMA SnapshotHas ==
    ASSUME NEW h \in HttpStore, NEW x \in Slots, h.sessions[x] # NoSession
    PROVE  \E p \in HttpSnapshot(h) : p.slot = x /\ p.backend = h.sessions[x]
<1> DEFINE p == [type |-> "HTTP_SYNC", action |-> "SESS_ADD", slot |-> x,
                 backend |-> h.sessions[x]]
<1>1. h.sessions[x] \in Backends
  BY DEF HttpStore
<1>2. p \in HttpPackets
  BY <1>1 DEF HttpPackets, SessionActions
<1> QED
  BY <1>2 DEF HttpSnapshot

\* HttpCovered, in terms of the slots
LEMMA CoveredBySlot ==
    ASSUME SmallIds, NEW b, NEW c,
           \A p \in HttpSnapshot(http) :
              WillHold(b, c).http.sessions[p.slot] = LowByte(p.backend) \/ StillToSend(c, p)
    PROVE  HttpCovered(b, c)
<1> SUFFICES ASSUME NEW p \in HttpSnapshot(http)
             PROVE  \/ WillHold(b, c).http.sessions[OnWire(p).slot] = OnWire(p).backend
                    \/ StillToSend(c, p)
  BY DEF HttpCovered
<1>1. p \in HttpPackets /\ p \in SessionPackets
  BY HttpSnapshotSlots DEF SessionPackets, SessionActions
<1>2. OnWire(p).slot = p.slot /\ OnWire(p).backend = LowByte(p.backend)
  BY <1>1, OnWireSession
<1> QED
  BY <1>2

LEMMA SlotCovered ==
    ASSUME SmallIds, NEW b, NEW c, HttpCovered(b, c), NEW p \in HttpSnapshot(http)
    PROVE  WillHold(b, c).http.sessions[p.slot] = LowByte(p.backend) \/ StillToSend(c, p)
<1>1. p \in HttpPackets /\ p \in SessionPackets
  BY HttpSnapshotSlots DEF SessionPackets, SessionActions
<1>2. OnWire(p).slot = p.slot /\ OnWire(p).backend = LowByte(p.backend)
  BY <1>1, OnWireSession
<1> QED
  BY <1>2 DEF HttpCovered

\* One packet of a snapshot of h is applied to w, which holds others of it.
LEMMA SnapshotKept ==
    ASSUME SmallIds, NEW h \in HttpStore, NEW w \in HttpStore, Keyed(h), Keyed(w),
           NEW p \in HttpPackets, p.action = "SESS_ADD", h.sessions[p.slot] = p.backend,
           NEW x \in Slots, h.sessions[x] # NoSession,
           x = p.slot \/ w.sessions[x] = LowByte(h.sessions[x])
    PROVE  apply_http_action(w, OnWire(p)).sessions[x] = LowByte(h.sessions[x])
<1> DEFINE s == p.slot
           svc == ServiceOf(s)
           Displaced == /\ svc \notin w.services
                        /\ x.farm = s.farm /\ x.listener = s.listener
<1>1. p \in SessionPackets
  BY HttpPacketKinds
<1>2. s \in Slots /\ p.backend \in Backends /\ p.backend # NoSession
  BY <1>1, StoreAssumption DEF SessionPackets
<1>3. OnWire(p).slot = s /\ OnWire(p).action = p.action
      /\ OnWire(p).backend = LowByte(p.backend)
  BY <1>1, OnWireSession
<1>4. apply_http_action(w, OnWire(p)).sessions[x]
         = IF x = s THEN LowByte(p.backend)
           ELSE IF Displaced THEN NoSession ELSE w.sessions[x]
  <2>1. apply_http_action(w, OnWire(p)) = AddSession(w, s, LowByte(p.backend))
    BY <1>3 DEF apply_http_action
  <2> QED
    BY <1>2, <2>1, AddSessionParts
<1>5. CASE x = s
  BY <1>4, <1>5
<1>6. CASE x # s
  <2>1. w.sessions[x] = LowByte(h.sessions[x]) /\ w.sessions[x] # NoSession
    BY <1>6, LowByteType, StoreAssumption DEF HttpStore
  <2>2. /\ svc \in h.services /\ ServiceOf(x) \in h.services
        /\ ServiceOf(x) \in w.services
    BY <1>2, <2>1 DEF Keyed
  <2>3. ~Displaced
    <3> SUFFICES ASSUME Displaced PROVE FALSE
      OBVIOUS
    <3>1. svc.farm = ServiceOf(x).farm /\ svc.listener = ServiceOf(x).listener
      BY DEF ServiceOf
    <3>2. svc = ServiceOf(x)
      <4> HIDE DEF svc
      <4> QED
        BY <2>2, <3>1 DEF Keyed
    <3> QED
      BY <2>2, <3>2
  <2> QED
    BY <1>4, <1>6, <2>1, <2>3
<1> QED
  BY <1>5, <1>6

LEMMA SessionsStep ==
    ASSUME SmallIds, TypeOK, TypeOK', CountInv, OwnSock, SendGoal, OutboxCurrent,
           DropsFirst, StoresKeyed, StoresKeyed', NoSessionLost, [Next]_vars
    PROVE  NoSessionLost'
<1> SUFFICES ASSUME NEW b \in Backups, NEW c \in Conns, c \notin skipped',
                    Healthy(b, c)', httpRun' # "off", c \in served'
             PROVE  HttpCovered(b, c)'
  BY DEF NoSessionLost, Synced
<1> DEFINE w == WillHold(b, c).http
           v == WillHold(b, c)'.http
<1>1. /\ Announced(c)
      /\ c \in served \/ (HandleHttpSync /\ dest = c)
  <2>1. Announced(c) /\ (Following(c) \/ HandleRequest)
    BY FollowingBefore DEF Following
  <2>2. c \in served \/ (HandleHttpSync /\ dest = c)
    <3>1. UNCHANGED served \/ HandleHttpSync
      <4>1. MasterWorker => UNCHANGED served \/ HandleHttpSync
        BY DEF MasterWorker, HandleRequest, NoRequest, WorkerEnds, Sleep, EnterHttp,
               HttpDone, EnterRecent, RecentDone, DropHttp, FarmEvent, HttpUpdate,
               RecentUpdate, Deliver
      <4>2. \A d \in Backups : BackupStep(d) => UNCHANGED served
        BY BackupFrame
      <4>3. \A d \in Conns : Network(d) => UNCHANGED served
        BY NetworkFrame
      <4> QED
        BY <4>1, <4>2, <4>3, NextKinds, ReceiveFrame, ControlFrame, QuitFrame
        DEF vars, MasterStart, MasterGone
    <3> QED
      BY <3>1 DEF HandleHttpSync
  <2> QED
    BY <2>1, <2>2
<1>2. Healthy(b, c) /\ Linked(b, c) /\ Linked(b, c)' /\ c \notin skipped
  BY <1>1, HealthyBefore, SkippedGrows DEF Healthy, Linked
<1>3. /\ w \in HttpStore /\ Keyed(w)
      /\ http \in HttpStore /\ http' \in HttpStore /\ Keyed(http)
      /\ outbox \in SUBSET Packets /\ c # NoConn
  <2>1. w \in HttpStore /\ Keyed(w)
    BY HoldNow, HoldKeyed
  <2> HIDE DEF w
  <2> QED
    BY <2>1 DEF TypeOK, ConnTypeOK, ReplTypeOK, StoresKeyed, Conns, NoConn
<1>4. httpRun # "off" /\ c \in served =>
         \A x \in HttpSnapshot(http) :
            w.sessions[x.slot] = LowByte(x.backend) \/ StillToSend(c, x)
  <2>1. httpRun # "off" /\ c \in served => HttpCovered(b, c)
    BY <1>2 DEF NoSessionLost, Synced
  <2> QED
    BY <2>1, SlotCovered
<1>5. ASSUME \A x \in HttpSnapshot(http') :
                v.sessions[x.slot] = LowByte(x.backend) \/ StillToSend(c, x)'
      PROVE  HttpCovered(b, c)'
  <2> SUFFICES ASSUME NEW p \in HttpSnapshot(http')
               PROVE  v.sessions[OnWire(p).slot] = OnWire(p).backend \/ StillToSend(c, p)'
    BY DEF HttpCovered
  <2>1. p \in HttpPackets /\ p \in SessionPackets
    BY HttpSnapshotSlots DEF SessionPackets, SessionActions
  <2>2. OnWire(p).slot = p.slot /\ OnWire(p).backend = LowByte(p.backend)
    BY <2>1, OnWireSession
  <2> QED
    BY <1>5, <2>2
<1>6. ASSUME Reflects(http', v) PROVE HttpCovered(b, c)'
  <2>1. \A x \in HttpSnapshot(http') : v.sessions[x.slot] = LowByte(x.backend)
    <3> HIDE DEF v
    <3>1. \A x \in HttpSnapshot(http') : /\ x.slot \in Slots /\ x.backend # NoSession
                                         /\ http'.sessions[x.slot] = x.backend
      BY HttpSnapshotSlots, StoreAssumption
    <3> QED
      BY <1>6, <3>1 DEF Reflects
  <2> QED
    BY <1>5, <2>1
<1>7. CASE NoSessions(http')
  BY <1>6, <1>7 DEF NoSessions, EmptyHttp, Reflects
<1>8. ASSUME httpRun # "off", c \in served, outbox = {}
      PROVE  Reflects(http, w)
  <2> SUFFICES ASSUME NEW x \in Slots, http.sessions[x] # NoSession
               PROVE  w.sessions[x] = LowByte(http.sessions[x])
    BY DEF Reflects
  <2>1. PICK p \in HttpSnapshot(http) : p.slot = x /\ p.backend = http.sessions[x]
    BY <1>3, SnapshotHas
  <2> QED
    BY <1>4, <1>8, <2>1 DEF StillToSend
<1>9. ASSUME v = w, http' = http, outbox = {}, httpRun # "off", c \in served
      PROVE  HttpCovered(b, c)'
  <2>1. Reflects(http, w)
    BY <1>8, <1>9
  <2> HIDE DEF v, w
  <2> QED
    BY <1>6, <1>9, <2>1
<1>10. ASSUME v = w, UNCHANGED <<http, outbox, dest>>, httpRun # "off", c \in served
       PROVE  HttpCovered(b, c)'
  <2>1. \A x \in HttpSnapshot(http) : StillToSend(c, x)' <=> StillToSend(c, x)
    BY <1>10 DEF StillToSend
  <2> HIDE DEF v, w
  <2> QED
    BY <1>4, <1>5, <1>10, <2>1
<1>11. ASSUME MasterWorker PROVE HttpCovered(b, c)'
  <2>0. httpRun # "off" /\ UNCHANGED <<queue, bhttp, brecent>>
    BY <1>11, WorkerFrame DEF flagVars
  <2>1. CASE HandleHttpSync /\ dest = c
    <3>1. outbox' = HttpSnapshot(http) /\ http' = http /\ dest' = dest
      BY <2>0, <2>1 DEF HandleHttpSync, storeVars
    <3>2. \A x \in HttpSnapshot(http') : StillToSend(c, x)'
      BY <2>1, <3>1 DEF StillToSend
    <3> HIDE DEF v
    <3> QED
      BY <1>5, <3>2
  <2>2. CASE c \in served /\ (HandleRequest \/ HandleHttpSync \/ NoRequest
               \/ WorkerEnds \/ Sleep \/ EnterHttp \/ HttpDone \/ EnterRecent
               \/ RecentDone)
    <3>1. outbox = {} /\ http' = http /\ UNCHANGED <<down, cur, to>>
      BY <2>2 DEF HandleRequest, HandleHttpSync, NoRequest, WorkerEnds, Sleep,
           EnterHttp, HttpDone, EnterRecent, RecentDone, Worker, Sending, storeVars,
           connVars, netVars, sendVars
    <3>2. Coming(b, c)' = Coming(b, c)
      BY <2>0, <3>1, ComingSame
    <3>3. v = w
      BY <2>0, <3>2, HoldSame
    <3> QED
      BY <1>9, <2>0, <2>2, <3>1, <3>3
  <2>3. CASE DropHttp
    BY <2>0, <2>3 DEF DropHttp
  <2>4. CASE c \in served /\ FarmEvent
    <3> DEFINE f == Head(httpIn).farm
    <3>1. /\ outbox = {} /\ cur = NoPacket /\ UNCHANGED down
          /\ http' = clear_http_farm_data(http, f) /\ Send(ClearRequest(f), NoConn)
      BY <2>4 DEF FarmEvent, SendClear, Worker, Sending, netVars
    <3>2. f \in Farms /\ ClearRequest(f) \in Packets
      BY <2>4, WorkerPackets
    <3>3. OnWire(ClearRequest(f)) = ClearRequest(f) /\ ClearRequest(f).type = "HTTP_SYNC"
      BY DEF OnWire, ClearRequest
    <3> HIDE DEF f
    <3>4. v = HttpStep[OnWire(ClearRequest(f))][w]
      BY <1>2, <2>0, <3>1, <3>2, SendReaches
    <3>5. ClearRequest(f) \in Incoming
      BY <3>2 DEF Incoming
    <3>6. HttpStep[ClearRequest(f)][w] = apply_http_action(w, ClearRequest(f))
      <4> HIDE DEF w
      <4> QED
        BY <1>3, <3>3, <3>5 DEF HttpStep
    <3>7. Reflects(http, w)
      BY <1>8, <2>0, <2>4, <3>1
    <3> HIDE DEF v, w
    <3>8. Reflects(clear_http_farm_data(http, f), apply_http_action(w, ClearRequest(f)))
      BY <1>3, <3>2, <3>7, ClearKept
    <3> QED
      BY <1>6, <3>1, <3>3, <3>4, <3>6, <3>8
  <2>5. CASE c \in served /\ HttpUpdate
    <3> DEFINE p == Head(httpIn)
    <3>1. /\ outbox = {} /\ cur = NoPacket /\ UNCHANGED down
          /\ http' = apply_http_action(http, p) /\ SendUpdate(p)
      BY <2>5 DEF HttpUpdate, Worker, Sending, netVars
    <3>2. p \in HttpPackets /\ p \in Packets
      BY <2>5, WorkerPackets
    <3> HIDE DEF p
    <3>3. backup_servers_fd > 0
      <4>1. c \in served /\ c \in connected_nodes /\ c # rx.conn
        BY <1>2, <2>5 DEF Healthy
      <4> QED
        BY <4>1, CountedServed DEF ServedCounted
    <3>4. Send(p, NoConn)
      BY <3>1, <3>3 DEF SendUpdate
    <3>5. v = HttpStep[OnWire(p)][w]
      BY <1>2, <2>0, <3>1, <3>2, <3>4, SendReaches
    <3>6. OnWire(p) \in Incoming /\ OnWire(p).type = "HTTP_SYNC"
      <4>1. OnWire(p).type = "HTTP_SYNC"
        BY <3>2, EmptyTypes, HttpPacketStep
      <4> QED
        BY <3>2, <4>1, OnWireType DEF Incoming
    <3>7. HttpStep[OnWire(p)][w] = apply_http_action(w, OnWire(p))
      <4> HIDE DEF w
      <4> QED
        BY <1>3, <3>6 DEF HttpStep
    <3>8. Reflects(http, w)
      BY <1>8, <2>0, <2>5, <3>1
    <3> HIDE DEF v, w
    <3>9. Reflects(apply_http_action(http, p), apply_http_action(w, OnWire(p)))
      BY <1>3, <3>2, <3>8, HttpKept
    <3> QED
      BY <1>6, <3>1, <3>5, <3>7, <3>9
  <2>6. CASE c \in served /\ RecentUpdate
    <3> DEFINE p == Head(recentIn)
    <3>1. /\ outbox = {} /\ cur = NoPacket /\ UNCHANGED down /\ http' = http
          /\ SendUpdate(p)
      BY <2>6 DEF RecentUpdate, Worker, Sending, netVars
    <3>2. p \in RecentPackets /\ p \in Packets
      BY <2>6, WorkerPackets
    <3> HIDE DEF p
    <3>3. v = w
      <4>1. CASE Send(p, NoConn)
        <5>1. v = HttpStep[OnWire(p)][w]
          BY <1>2, <2>0, <3>1, <3>2, <4>1, SendReaches
        <5>2. HttpStep[OnWire(p)][w] = w
          <6> HIDE DEF w
          <6> QED
            BY <1>3, <3>2, EmptyTypes, RecentPacketStep
        <5> QED
          BY <5>1, <5>2
      <4>2. CASE UNCHANGED <<cur, to>>
        <5>1. Coming(b, c)' = Coming(b, c)
          BY <2>0, <3>1, <4>2, ComingSame
        <5> QED
          BY <2>0, <5>1, HoldSame
      <4> QED
        BY <3>1, <4>1, <4>2 DEF SendUpdate
    <3> QED
      BY <1>9, <2>0, <2>6, <3>1, <3>3
  <2>7. CASE c \in served /\ Deliver /\ SendNext
    <3>1. PICK p \in outbox : outbox' = outbox \ {p} /\ Send(p, dest)
      BY <2>7 DEF SendNext
    <3>2. p \in Packets /\ cur = NoPacket
      BY <1>3, <2>7 DEF SendNext
    <3>3. UNCHANGED <<down, http>>
      BY <2>7 DEF Deliver, SendNext, HandleSend, HandleSendError, netVars, masterVars,
                  storeVars
    <3>4. /\ dest' = dest
          /\ dest \in {c, NoConn} => v = HttpStep[OnWire(p)][w]
          /\ dest \notin {c, NoConn} => v = w
      BY <1>2, <2>0, <3>1, <3>2, <3>3, SendReaches
    <3>5. CASE NoSessions(http)
      BY <1>7, <3>3, <3>5
    <3>6. CASE ~NoSessions(http)
      <4> HIDE DEF v
      <4> SUFFICES ASSUME NEW x \in HttpSnapshot(http)
                   PROVE  v.sessions[x.slot] = LowByte(x.backend) \/ StillToSend(c, x)'
        BY <1>5, <3>3
      <4>1. w.sessions[x.slot] = LowByte(x.backend) \/ StillToSend(c, x)
        BY <1>4, <2>0, <2>7
      <4>2. /\ x.slot \in Slots /\ x.type = "HTTP_SYNC" /\ x.backend # NoSession
            /\ http.sessions[x.slot] = x.backend
        BY HttpSnapshotSlots, StoreAssumption
      <4>3. CASE dest \notin {c, NoConn}
        BY <3>4, <4>1, <4>3 DEF StillToSend
      <4>4. CASE dest \in {c, NoConn} /\ p \in RecentPackets
        <5>1. v = w
          <6> HIDE DEF w
          <6> QED
            BY <1>3, <3>4, <4>4, EmptyTypes, RecentPacketStep
        <5>2. p # x
          BY <4>2, <4>4 DEF RecentPackets
        <5> QED
          BY <3>1, <3>4, <4>1, <5>1, <5>2 DEF StillToSend
      <4>5. CASE dest \in {c, NoConn} /\ p \in HttpPackets
        <5>1. p.type = "HTTP_SYNC"
          BY <4>5 DEF HttpPackets
        <5>2. p.action = "SESS_ADD" /\ http.sessions[p.slot] = p.backend
          BY <3>1, <3>6, <5>1 DEF OutboxCurrent, NoSessions
        <5>3. OnWire(p) \in Incoming /\ OnWire(p).type = "HTTP_SYNC"
          <6>1. OnWire(p).type = "HTTP_SYNC"
            BY <4>5, EmptyTypes, HttpPacketStep
          <6> QED
            BY <3>2, <6>1, OnWireType DEF Incoming
        <5> HIDE DEF w
        <5>4. v = apply_http_action(w, OnWire(p))
          BY <1>3, <3>4, <4>5, <5>3 DEF HttpStep
        <5>5. CASE x.slot = p.slot \/ w.sessions[x.slot] = LowByte(x.backend)
          <6> DEFINE s == x.slot
          <6>1. s \in Slots /\ http.sessions[s] = x.backend /\ http.sessions[s] # NoSession
                /\ (s = p.slot \/ w.sessions[s] = LowByte(http.sessions[s]))
            BY <4>2, <5>5
          <6> HIDE DEF s
          <6>2. apply_http_action(w, OnWire(p)).sessions[s] = LowByte(http.sessions[s])
            BY <1>3, <4>5, <5>2, <6>1, SnapshotKept
          <6> QED
            BY <5>4, <6>1, <6>2 DEF s
        <5>6. CASE x.slot # p.slot /\ StillToSend(c, x)
          BY <3>1, <3>4, <5>6 DEF StillToSend
        <5> QED
          BY <4>1, <5>5, <5>6
      <4> QED
        BY <3>2, <4>3, <4>4, <4>5 DEF Packets
    <3> QED
      BY <3>5, <3>6
  <2>8. ASSUME c \in served, NEW d \in to,
               HandleSend(d) \/ HandleSendError(d, mpc = "sync"), Deliver
        PROVE  HttpCovered(b, c)'
    <3>1. v = w
      BY <2>0, <2>8, ComingDeliver, HoldSame
    <3>2. http' = http
      BY <2>8 DEF Deliver, masterVars, storeVars
    <3> HIDE DEF v, w
    <3>3. CASE UNCHANGED <<outbox, dest>>
      BY <1>10, <2>0, <2>8, <3>1, <3>2, <3>3
    <3>4. CASE mpc = "sync" /\ HandleSendError(d, mpc = "sync")
      <4>1. dest \in Conns
        BY <3>4 DEF TypeOK, SyncDest
      <4>2. d = dest /\ d \in skipped'
        BY <2>8, <3>4, <4>1 DEF SendGoal, HandleSendError, NoConn, Conns
      <4>3. dest \notin {c, NoConn}
        BY <4>1, <4>2 DEF Conns, NoConn
      <4>4. \A x \in HttpSnapshot(http) : w.sessions[x.slot] = LowByte(x.backend)
        BY <1>4, <2>0, <2>8, <4>3 DEF StillToSend
      <4> QED
        BY <1>5, <3>1, <3>2, <4>4
    <3> QED
      BY <2>8, <3>3, <3>4 DEF HandleSend, HandleSendError
  <2>9. c \in served \/ (HandleHttpSync /\ dest = c)
    BY <1>1
  <2> QED
    BY <1>11, <2>1, <2>2, <2>3, <2>4, <2>5, <2>6, <2>7, <2>8, <2>9
    DEF MasterWorker, Deliver
<1>12. ASSUME ~MasterWorker, UNCHANGED <<http, outbox, dest>>, httpRun # "off"
       PROVE  HttpCovered(b, c)'
  <2>1. ~(FarmEvent \/ HttpUpdate \/ RecentUpdate \/ Deliver \/ HandleHttpSync)
    BY <1>12 DEF MasterWorker
  <2>2. c \in served /\ sock[b] = c
    BY <1>1, <1>2, <2>1 DEF Healthy
  <2>3. ~Resync(b)
    BY <1>3, <2>2 DEF Resync, DropsFirst, Asked
  <2>4. v = w
    BY <1>2, <2>1, <2>3, HoldStep
  <2> QED
    BY <1>10, <1>12, <2>2, <2>4
<1>13. CASE ~MasterWorker /\ ListenersAndCommands
  <2>1. http' = EmptyHttp \/ (http' = http /\ httpRun # "off")
    BY <1>13 DEF ListenersAndCommands, PoundSends, PollerQueues, StartHttp, FarmGone,
                 ClearHttp, StartRecent, StopRecent, storeVars, flagVars
  <2>2. UNCHANGED <<outbox, dest>>
    BY <1>13, ControlFrame DEF connVars, sendVars
  <2> QED
    BY <1>7, <1>12, <1>13, <2>1, <2>2 DEF NoSessions
<1>14. CASE ~MasterWorker /\ (Quit \/ StopListeners)
  <2>1. httpRun # "off"
    BY <1>14 DEF Quit, StopListeners
  <2> QED
    BY <1>12, <1>14, <2>1, QuitFrame DEF storeVars, connVars, sendVars
<1>15. CASE MasterStart \/ MasterGone
  BY <1>7, <1>15 DEF MasterStart, MasterGone, NoSessions
<1>16. ASSUME ~MasterWorker, UNCHANGED <<http, outbox, dest, httpRun>>
       PROVE  HttpCovered(b, c)'
  BY <1>12, <1>16
<1>17. CASE ~MasterWorker /\ (MasterReceive \/ UNCHANGED vars)
  BY <1>16, <1>17, ReceiveFrame
  DEF vars, connVars, sendVars, masterVars, storeVars, flagVars
<1>18. CASE ~MasterWorker /\ \E d \in Backups : BackupStep(d)
  BY <1>16, <1>18, BackupFrame DEF sendVars, masterVars, storeVars, flagVars
<1>19. CASE ~MasterWorker /\ \E d \in Conns : Network(d)
  BY <1>16, <1>19, NetworkFrame DEF sendVars, masterVars, storeVars, flagVars
<1> QED
  BY <1>11, <1>13, <1>14, <1>15, <1>17, <1>18, <1>19, NextKinds

LEMMA InitStores == Init => DropsFirst /\ StoresKeyed
BY KeyedEmpty DEF Init, DropsFirst, StoresKeyed

(***************************************************************************)
(* Every session of the master is on a backup whose SYNC_REQUEST has been  *)
(* answered, or on its way to it, as long as listeners and services have   *)
(* numbers that fit in a byte.  The sessions of a service and of the ones  *)
(* it displaces (AddSession) go the same way on both sides.                *)
(***************************************************************************)
THEOREM NoSessionLostHolds == ASSUME SmallIds PROVE Spec => []NoSessionLost
<1> DEFINE Inv == /\ TypeOK /\ CountInv /\ OwnSock /\ SendGoal /\ OutboxCurrent
                  /\ DropsFirst /\ StoresKeyed /\ NoSessionLost
<1>1. Init => Inv
  BY TypeInit, CountInit, InitSending, InitStores, NotYetServed
<1>2. Inv /\ [Next]_vars => Inv'
  <2> SUFFICES ASSUME Inv, [Next]_vars PROVE Inv'
    OBVIOUS
  <2>1. TypeOK' /\ CountInv'
    BY TypeStep, CountStep
  <2>2. StoresKeyed' /\ DropsFirst'
    BY <2>1, KeyedStep, DropsFirstStep
  <2> QED
    BY <2>1, <2>2, OwnStep, SendGoalStep, OutboxStep, SessionsStep
<1>3. Inv => NoSessionLost
  OBVIOUS
<1> HIDE DEF Inv
<1> QED
  BY <1>1, <1>2, <1>3, PTL DEF Spec

-----------------------------------------------------------------------------
\* The mirror is exact when nothing fails

(***************************************************************************)
(* No process crashes or quits and no connection is reset, the flags of    *)
(* the listeners happen to be born "off", and no one gives CLEAR_HTTP,     *)
(* of which no backup hears.                                               *)
(***************************************************************************)
Calm == Faults = {} /\ FlagAtBirth = {"off"} /\ "clear_http" \notin CtlOps

\* Backends, too, have numbers that fit in a byte.
SmallBackends == \A n \in Backends : n < 256

Within(w, h) == \A x \in Slots : w.sessions[x] \in {NoSession, h.sessions[x]}

LEMMA ExactBackends ==
    ASSUME SmallBackends PROVE \A n \in Backends : LowByte(n) = n
<1> SUFFICES ASSUME NEW n \in Backends PROVE LowByte(n) = n
  OBVIOUS
<1>1. n \in Nat /\ n < 256
  BY StoreAssumption DEF SmallBackends
<1> QED
  BY <1>1 DEF LowByte

(***************************************************************************)
(* A packet of the master applied on both sides makes no session up.       *)
(***************************************************************************)
LEMMA WithinKept ==
    ASSUME SmallIds, SmallBackends, NEW h \in HttpStore, NEW w \in HttpStore,
           Keyed(h), Keyed(w), Within(w, h), NEW p \in HttpPackets
    PROVE  Within(apply_http_action(w, OnWire(p)), apply_http_action(h, p))
<1> DEFINE g == apply_http_action(h, p)
           v == apply_http_action(w, OnWire(p))
<1> SUFFICES ASSUME NEW x \in Slots
             PROVE  v.sessions[x] \in {NoSession, g.sessions[x]}
  BY DEF Within
<1>1. CASE p \in SessionPackets /\ p.action \in {"SESS_ADD", "SESS_UPDATE"}
  <2> DEFINE s == p.slot
             svc == ServiceOf(s)
             Displaced(k) == /\ svc \notin k.services
                             /\ x.farm = s.farm /\ x.listener = s.listener
  <2>1. s \in Slots /\ p.backend \in Backends /\ LowByte(p.backend) = p.backend
    BY <1>1, ExactBackends DEF SessionPackets
  <2>2. /\ OnWire(p).slot = s /\ OnWire(p).action = p.action
        /\ OnWire(p).backend = p.backend
    BY <1>1, <2>1, OnWireSession
  <2>3. g.sessions[x] = IF x = s THEN p.backend
                        ELSE IF Displaced(h) THEN NoSession ELSE h.sessions[x]
    <3>1. g = AddSession(h, s, p.backend)
      BY <1>1 DEF apply_http_action
    <3> QED
      BY <2>1, <3>1, AddSessionParts
  <2>4. v.sessions[x] = IF x = s THEN p.backend
                        ELSE IF Displaced(w) THEN NoSession ELSE w.sessions[x]
    <3>1. v = AddSession(w, s, p.backend)
      BY <1>1, <2>2 DEF apply_http_action
    <3> QED
      BY <2>1, <3>1, AddSessionParts
  <2>5. w.sessions[x] \in {NoSession, h.sessions[x]}
    BY DEF Within
  <2>6. CASE x # s /\ Displaced(h) /\ ~Displaced(w)
    <3> SUFFICES ASSUME w.sessions[x] # NoSession PROVE FALSE
      BY <2>4, <2>6
    <3>1. ServiceOf(x) \in h.services /\ ServiceOf(x) \in w.services
      BY <2>5 DEF Keyed
    <3>2. svc \in w.services /\ svc \notin h.services
      BY <2>6
    <3>3. svc.farm = ServiceOf(x).farm /\ svc.listener = ServiceOf(x).listener
      BY <2>6 DEF ServiceOf
    <3>4. svc = ServiceOf(x)
      <4> HIDE DEF svc
      <4> QED
        BY <3>1, <3>2, <3>3 DEF Keyed
    <3> QED
      BY <3>1, <3>2, <3>4
  <2> HIDE DEF g, v, Displaced
  <2> QED
    BY <2>3, <2>4, <2>5, <2>6
<1>2. CASE p \in SessionPackets /\ p.action = "SESS_DELETE"
  <2>1. g.sessions = [h.sessions EXCEPT ![p.slot] = NoSession]
    BY <1>2 DEF apply_http_action, DeleteSession
  <2>2. OnWire(p).slot = p.slot /\ OnWire(p).action = p.action
    BY <1>2, OnWireSession
  <2>3. v.sessions = [w.sessions EXCEPT ![p.slot] = NoSession]
    BY <1>2, <2>2 DEF apply_http_action, DeleteSession
  <2>4. /\ h.sessions \in [Slots -> Backends \cup {NoSession}]
        /\ w.sessions \in [Slots -> Backends \cup {NoSession}]
    BY DEF HttpStore
  <2> HIDE DEF g, v
  <2> QED
    BY <2>1, <2>3, <2>4 DEF Within
<1>3. CASE p.action = "CLEAR_DATA"
  <2>1. \A k \in HttpStore : apply_http_action(k, p).sessions[x] =
           IF x.farm = p.farm THEN NoSession ELSE k.sessions[x]
    BY <1>3 DEF apply_http_action, ClearFarm, HttpStore
  <2>2. OnWire(p) = p
    BY <1>3, OnWireSession
  <2> QED
    BY <2>1, <2>2 DEF Within
<1> QED
  BY <1>1, <1>2, <1>3, HttpPacketKinds DEF SessionPackets, SessionActions

LEMMA WithinCleared ==
    ASSUME NEW h \in HttpStore, NEW w \in HttpStore, Keyed(h), Within(w, h), NEW f \in Farms
    PROVE  Within(apply_http_action(w, ClearRequest(f)), clear_http_farm_data(h, f))
<1> SUFFICES ASSUME NEW x \in Slots
             PROVE  apply_http_action(w, ClearRequest(f)).sessions[x]
                       \in {NoSession, clear_http_farm_data(h, f).sessions[x]}
  BY DEF Within
<1>1. apply_http_action(w, ClearRequest(f)).sessions[x]
         = IF x.farm = f THEN NoSession ELSE w.sessions[x]
  BY DEF apply_http_action, ClearRequest, ClearFarm, HttpStore
<1>2. clear_http_farm_data(h, f).sessions[x] = h.sessions[x] \/ x.farm = f
  BY DEF clear_http_farm_data, ClearFarm
<1> QED
  BY <1>1, <1>2 DEF Within

(***************************************************************************)
(* A session of the master sent to a backup a second time, or to one that  *)
(* holds nothing of its service.                                           *)
(***************************************************************************)
LEMMA WithinSent ==
    ASSUME SmallIds, SmallBackends, NEW h \in HttpStore, NEW w \in HttpStore,
           Within(w, h), NEW p \in HttpPackets,
           p.action \in {"SESS_ADD", "SESS_UPDATE"} => h.sessions[p.slot] = p.backend
    PROVE  Within(apply_http_action(w, OnWire(p)), h)
<1> DEFINE v == apply_http_action(w, OnWire(p))
<1> SUFFICES ASSUME NEW x \in Slots
             PROVE  v.sessions[x] \in {NoSession, h.sessions[x]}
  BY DEF Within
<1>0. w.sessions[x] \in {NoSession, h.sessions[x]}
  BY DEF Within
<1>1. CASE p \in SessionPackets /\ p.action \in {"SESS_ADD", "SESS_UPDATE"}
  <2>1. p.slot \in Slots /\ p.backend \in Backends /\ LowByte(p.backend) = p.backend
    BY <1>1, ExactBackends DEF SessionPackets
  <2>2. /\ OnWire(p).slot = p.slot /\ OnWire(p).action = p.action
        /\ OnWire(p).backend = p.backend
    BY <1>1, <2>1, OnWireSession
  <2>3. v = AddSession(w, p.slot, p.backend)
    BY <1>1, <2>2 DEF apply_http_action
  <2>4. \/ x = p.slot /\ v.sessions[x] = p.backend
        \/ x # p.slot /\ v.sessions[x] \in {NoSession, w.sessions[x]}
    <3> HIDE DEF v
    <3> QED
      BY <2>1, <2>3, AddSessionParts
  <2> QED
    BY <1>0, <1>1, <2>4
<1>2. CASE p \in SessionPackets /\ p.action = "SESS_DELETE"
  <2>1. OnWire(p).slot = p.slot /\ OnWire(p).action = p.action
    BY <1>2, OnWireSession
  <2>2. v.sessions = [w.sessions EXCEPT ![p.slot] = NoSession]
    BY <1>2, <2>1 DEF apply_http_action, DeleteSession
  <2>3. w.sessions \in [Slots -> Backends \cup {NoSession}]
    BY DEF HttpStore
  <2> HIDE DEF v
  <2> QED
    BY <1>0, <2>2, <2>3
<1>3. CASE p.action = "CLEAR_DATA"
  <2>1. v.sessions[x] = IF x.farm = p.farm THEN NoSession ELSE w.sessions[x]
    BY <1>3, OnWireSession DEF apply_http_action, ClearFarm, HttpStore
  <2> QED
    BY <1>0, <2>1
<1> QED
  BY <1>1, <1>2, <1>3, HttpPacketKinds DEF SessionPackets, SessionActions

-----------------------------------------------------------------------------
\* The steps that are left

CalmWorker == MasterWorker /\ UNCHANGED <<toSrv, skipped>>

CalmReceive ==
    /\ AcceptNode \/ AnnounceNode \/ \E c \in Conns : ReadRequest(c)
    /\ UNCHANGED <<masterVars, backupVars, left, served>>

CalmBackup(b) ==
    \/ BackupStart(b) \/ Dial(b) \/ Dialed(b) \/ EnterRun(b)
    \/ FirstRequest(b) /\ SendRequest(b) /\ Goto(b, "loop")
    \/ HandlePacket(b) /\ UNCHANGED bpc
    \/ ReadPacket(b) /\ UNCHANGED <<masterVars, backupVars, left, served>>

LEMMA CalmKinds ==
    ASSUME Calm, TypeOK, CountInv, NothingFails, DialsOnce, NothingSent, [Next]_vars
    PROVE  \/ CalmWorker \/ CalmReceive \/ MasterStart
           \/ ListenersAndCommands /\ ~ClearHttp
           \/ \E b \in Backups : BackupStep(b) /\ CalmBackup(b)
           \/ UNCHANGED vars
<1>0. /\ connected_nodes \subseteq Conns
      /\ \A c \in connected_nodes : srvEnd[c] = "open" /\ toSrv[c] = "ok"
      /\ to \subseteq connected_nodes
  BY DEF CountInv, NodesOpen, NothingFails, NothingSent
<1>1. ASSUME MasterWorker PROVE CalmWorker
  <2>1. ASSUME Deliver PROVE UNCHANGED <<toSrv, skipped>>
    <3>1. \A c \in to : ~HandleSendError(c, mpc = "sync")
      BY <1>0 DEF HandleSendError, CanSend
    <3> QED
      BY <2>1, <3>1 DEF Deliver, SendNext, HandleSend, netVars
  <2>2. ~Deliver => UNCHANGED <<toSrv, skipped>>
    BY <1>1 DEF MasterWorker, HandleRequest, HandleHttpSync, NoRequest, WorkerEnds,
         Sleep, DropHttp, EnterHttp, FarmEvent, HttpUpdate, HttpDone, EnterRecent,
         RecentUpdate, RecentDone, connVars, netVars, sendVars
  <2> QED
    BY <1>1, <2>1, <2>2 DEF CalmWorker
<1>2. ASSUME MasterReceive PROVE CalmReceive
  BY <1>2 DEF MasterReceive, ServerReceive, ReadEof, ReadError, EraseNode, CalmReceive,
              NothingFails
<1>3. ~MasterCrash /\ ~Quit /\ ~StopListeners /\ ~Exit /\ ~ClearHttp
  BY DEF Calm, MasterCrash, Quit, StopListeners, Exit, ClearHttp, Command, NothingFails
<1>4. ASSUME NEW b \in Backups, BackupStep(b) PROVE CalmBackup(b)
  <2>0. /\ bpc \in [Backups -> {"down", "dial", "dialed", "run", "request", "loop",
                                "redial", "redialed", "recheck", "ended"}]
        /\ sock \in [Backups -> Conns \cup {NoConn}]
    BY DEF TypeOK, ConnTypeOK, ReplTypeOK
  <2>1. /\ bpc[b] \in {"down", "dial", "dialed", "run", "request", "loop"}
        /\ bpc[b] \notin {"down", "dial"} => sock[b] # NoConn /\ running[b]
    BY DEF DialsOnce
  <2>2. \A c \in Conns : toCli[c] = "ok"
    BY DEF NothingFails
  <2>3. ~BackupCrash(b)
    BY DEF BackupCrash, Calm
  <2>4. ~ExitFailure(b) /\ ~Resync(b) /\ ~Recheck(b)
    BY <2>1 DEF ExitFailure, Resync, Recheck
  <2>5. FirstRequest(b) => SendRequest(b) /\ Goto(b, "loop")
    BY <2>0, <2>1, <2>2 DEF FirstRequest, SendRequestError, CanRequest
  <2>6. HandlePacket(b) => UNCHANGED bpc
    BY <2>0, <2>1 DEF HandlePacket, Goto
  <2>7. ~ReadEofClient(b) /\ ~ReadErrorClient(b)
    BY <2>0, <2>2 DEF ReadEofClient, ReadErrorClient
  <2> QED
    BY <1>4, <2>3, <2>4, <2>5, <2>6, <2>7
    DEF BackupStep, BackupWorker, BackupReceive, ClientReceive, CalmBackup
<1>5. ASSUME NEW c \in Conns PROVE ~Network(c)
  BY DEF Network, ResetSender, Calm, NothingFails
<1> QED
  BY <1>1, <1>2, <1>3, <1>4, <1>5 DEF Next, BackupStep

\* What a step of a backup changes of the connections
LEMMA CalmBackupFrame ==
    ASSUME NEW b \in Backups, CalmBackup(b)
    PROVE  /\ UNCHANGED <<toSrv, toCli, sendVars, masterVars, served, is_running, rx,
                          connected_nodes>>
           /\ Dial(b) \/ UNCHANGED <<made, owner, srvEnd, cliEnd, running, sock>>
BY DEF CalmBackup, BackupStart, Dial, Connect, Dialed, EnterRun, FirstRequest, SendRequest,
       HandlePacket, ReadPacket, connVars, netVars, serverVars, clientVars, backupVars

LEMMA FailsStep ==
    ASSUME Calm, TypeOK, CountInv, NothingFails, DialsOnce, NothingSent, [Next]_vars
    PROVE  NothingFails'
<1>0. /\ srvEnd \in [Conns -> {"none", "backlog", "open", "closed"}]
      /\ cliEnd \in [Conns -> {"none", "open", "closed"}]
      /\ made \in 0 .. MaxConns /\ MaxConns \in Nat
  BY ConnectionAssumption DEF TypeOK, ConnTypeOK
<1>1. CASE UNCHANGED <<toSrv, toCli, srvEnd, cliEnd, rx, stopping, skipped>>
  BY <1>1 DEF NothingFails
<1>2. CASE CalmWorker
  BY <1>1, <1>2, WorkerFrame DEF CalmWorker, flagVars
<1>3. CASE CalmReceive
  <2>1. /\ UNCHANGED <<toSrv, toCli, cliEnd, stopping, skipped>>
        /\ rx'.at # "closing"
    BY <1>3 DEF CalmReceive, AcceptNode, AnnounceNode, ReadRequest, netVars, sendVars,
                masterVars, flagVars, Polling, NothingFails
  <2>2. \A c \in Conns : srvEnd'[c] # "closed"
    BY <1>0, <1>3 DEF CalmReceive, AcceptNode, AnnounceNode, ReadRequest, netVars,
                      NothingFails
  <2> QED
    BY <2>1, <2>2 DEF NothingFails
<1>4. CASE MasterStart
  BY <1>4 DEF MasterStart, StartServer, NothingFails, netVars, sendVars
<1>5. CASE ListenersAndCommands
  BY <1>1, <1>5, ControlFrame DEF connVars, netVars, sendVars, serverVars,
     ListenersAndCommands, PoundSends, PollerQueues, StartHttp, FarmGone, ClearHttp,
     StartRecent, StopRecent, flagVars
<1>6. ASSUME NEW b \in Backups, CalmBackup(b) PROVE NothingFails'
  <2>1. UNCHANGED <<toSrv, toCli, rx, stopping, skipped>>
    BY <1>6, CalmBackupFrame DEF sendVars, masterVars, flagVars
  <2>2. CASE Dial(b)
    <3>1. \A c \in Conns : srvEnd'[c] # "closed" /\ cliEnd'[c] # "closed"
      BY <1>0, <2>2 DEF Dial, Connect, NothingFails
    <3> QED
      BY <2>1, <3>1 DEF NothingFails
  <2> QED
    BY <1>1, <1>6, <2>1, <2>2, CalmBackupFrame
<1>7. CASE UNCHANGED vars
  BY <1>1, <1>7 DEF vars, connVars, netVars, serverVars, sendVars, masterVars, flagVars
<1> QED
  BY <1>2, <1>3, <1>4, <1>5, <1>6, <1>7, CalmKinds

LEMMA DialsStep ==
    ASSUME Calm, TypeOK, CountInv, NothingFails, DialsOnce, NothingSent, [Next]_vars
    PROVE  DialsOnce'
<1>0. /\ sock \in [Backups -> Conns \cup {NoConn}] /\ running \in [Backups -> BOOLEAN]
      /\ bpc \in [Backups -> {"down", "dial", "dialed", "run", "request", "loop",
                              "redial", "redialed", "recheck", "ended"}]
      /\ made \in 0 .. MaxConns
  BY DEF TypeOK, ConnTypeOK, ReplTypeOK
<1>1. CASE UNCHANGED <<bpc, sock, running>>
  BY <1>1 DEF DialsOnce
<1>2. CASE CalmWorker
  BY <1>1, <1>2, WorkerFrame DEF CalmWorker
<1>3. CASE CalmReceive
  BY <1>1, <1>3 DEF CalmReceive, AcceptNode, AnnounceNode, ReadRequest, clientVars,
     backupVars
<1>4. CASE MasterStart
  BY <1>1, <1>4 DEF MasterStart, StartServer, clientVars, backupVars
<1>5. CASE ListenersAndCommands
  BY <1>1, <1>5, ControlFrame DEF connVars, clientVars, backupVars
<1>6. ASSUME NEW b \in Backups, CalmBackup(b) PROVE DialsOnce'
  <2> SUFFICES ASSUME NEW d \in Backups
               PROVE  /\ bpc'[d] \in {"down", "dial", "dialed", "run", "request", "loop"}
                      /\ bpc'[d] \in {"down", "dial"} => sock'[d] = NoConn
                      /\ bpc'[d] \notin {"down", "dial"} => sock'[d] # NoConn /\ running'[d]
    BY DEF DialsOnce
  <2>0. /\ bpc[d] \in {"down", "dial", "dialed", "run", "request", "loop"}
        /\ bpc[d] \in {"down", "dial"} => sock[d] = NoConn
        /\ bpc[d] \notin {"down", "dial"} => sock[d] # NoConn /\ running[d]
        /\ bpc[b] \in {"down", "dial", "dialed", "run", "request", "loop"}
    BY DEF DialsOnce
  <2>1. CASE Dial(b)
    <3>1. /\ bpc[b] = "dial" /\ bpc' = [bpc EXCEPT ![b] = "dialed"]
          /\ sock' = [sock EXCEPT ![b] = made + 1]
          /\ running' = [running EXCEPT ![b] = TRUE]
      BY <2>0, <2>1 DEF Dial, Connect, Goto
    <3>2. made + 1 # NoConn
      BY <1>0 DEF NoConn
    <3> QED
      BY <1>0, <2>0, <3>1, <3>2
  <2>2. CASE ~Dial(b)
    <3>1. UNCHANGED <<sock, running>>
      BY <1>6, <2>2, CalmBackupFrame
    <3>2. CASE UNCHANGED bpc
      BY <2>0, <3>1, <3>2
    <3>3. CASE BackupStart(b)
      BY <1>0, <2>0, <3>1, <3>3 DEF BackupStart, Goto
    <3>4. CASE Dialed(b) \/ EnterRun(b)
      BY <1>0, <2>0, <3>1, <3>4 DEF Dialed, EnterRun, Goto, DialsOnce
    <3>5. CASE FirstRequest(b) /\ Goto(b, "loop")
      BY <1>0, <2>0, <3>1, <3>5 DEF FirstRequest, Goto
    <3> QED
      BY <1>6, <2>2, <3>2, <3>3, <3>4, <3>5 DEF CalmBackup, backupVars
  <2> QED
    BY <2>1, <2>2
<1>7. CASE UNCHANGED vars
  BY <1>1, <1>7 DEF vars, connVars, clientVars, backupVars
<1> QED
  BY <1>2, <1>3, <1>4, <1>5, <1>6, <1>7, CalmKinds

LEMMA StartsStep ==
    ASSUME Calm, TypeOK, CountInv, NothingFails, DialsOnce, NothingSent, StartsOnce,
           [Next]_vars
    PROVE  StartsOnce'
<1>1. CASE UNCHANGED <<httpRun, http, mpc>>
  BY <1>1 DEF StartsOnce
<1>2. CASE CalmWorker
  <2>1. UNCHANGED httpRun
    BY <1>2, WorkerFrame DEF CalmWorker, flagVars
  <2>2. mpc # "off" \/ UNCHANGED <<http, mpc>>
    BY <1>2 DEF CalmWorker, MasterWorker, HandleRequest, HandleHttpSync, NoRequest,
       WorkerEnds, Sleep, DropHttp, EnterHttp, FarmEvent, HttpUpdate, HttpDone,
       EnterRecent, RecentUpdate, RecentDone, Deliver, Worker, masterVars, workerVars,
       storeVars
  <2>3. CASE EnterHttp
    BY <2>1, <2>3 DEF EnterHttp, StartsOnce, storeVars
  <2>4. CASE DropHttp
    BY <2>1, <2>4 DEF DropHttp, StartsOnce
  <2>5. CASE FarmEvent \/ HttpUpdate
    BY <2>1, <2>5 DEF FarmEvent, HttpUpdate, Worker, workerVars, StartsOnce
  <2>6. CASE ~EnterHttp /\ ~DropHttp /\ ~FarmEvent /\ ~HttpUpdate
    <3>1. UNCHANGED http /\ (UNCHANGED mpc \/ (mpc' # "off" /\ mpc' # "http"))
      BY <1>2, <2>6 DEF CalmWorker, MasterWorker, HandleRequest, HandleHttpSync,
         NoRequest, WorkerEnds, Sleep, HttpDone, EnterRecent, RecentUpdate, RecentDone,
         Deliver, Worker, masterVars, workerVars, storeVars
    <3> QED
      BY <2>1, <3>1 DEF StartsOnce
  <2> QED
    BY <2>3, <2>4, <2>5, <2>6
<1>3. CASE CalmReceive
  BY <1>1, <1>3 DEF CalmReceive, masterVars, flagVars, storeVars, workerVars
<1>4. CASE MasterStart
  BY <1>4 DEF MasterStart, StartsOnce, Calm
<1>5. CASE ListenersAndCommands /\ ~ClearHttp
  <2>1. UNCHANGED mpc
    BY <1>5, ControlFrame
  <2>2. UNCHANGED <<httpRun, http>> \/ (mpc # "off" /\ httpRun' = "on")
    BY <1>5 DEF ListenersAndCommands, PoundSends, PollerQueues, StartHttp, FarmGone,
       StartRecent, StopRecent, flagVars, storeVars, Command
  <2> QED
    BY <2>1, <2>2 DEF StartsOnce
<1>6. ASSUME NEW b \in Backups, CalmBackup(b) PROVE StartsOnce'
  BY <1>1, <1>6, CalmBackupFrame DEF masterVars, flagVars, storeVars, workerVars
<1>7. CASE UNCHANGED vars
  BY <1>1, <1>7 DEF vars, masterVars, flagVars, storeVars, workerVars
<1> QED
  BY <1>2, <1>3, <1>4, <1>5, <1>6, <1>7, CalmKinds

\* The sessions of the master change by an update and when a farm comes or goes.
LEMMA HttpSame ==
    ASSUME Calm, TypeOK, CountInv, NothingFails, DialsOnce, NothingSent, StartsOnce,
           [Next]_vars
    PROVE  /\ http' = http \/ FarmEvent \/ HttpUpdate
           /\ ~DropHttp
<1>0. http.farms # {} => httpRun # "off"
  BY DEF StartsOnce, EmptyHttp
<1>1. ~DropHttp
  BY <1>0 DEF DropHttp
<1>2. CASE CalmWorker
  BY <1>1, <1>2 DEF CalmWorker, MasterWorker, HandleRequest, HandleHttpSync, NoRequest,
     WorkerEnds, Sleep, EnterHttp, HttpDone, EnterRecent, RecentUpdate, RecentDone,
     Deliver, masterVars, storeVars
<1>3. CASE CalmReceive \/ UNCHANGED vars
  BY <1>1, <1>3 DEF CalmReceive, masterVars, storeVars, vars
<1>4. CASE MasterStart
  BY <1>1, <1>4 DEF MasterStart, StartsOnce
<1>5. CASE ListenersAndCommands /\ ~ClearHttp
  BY <1>1, <1>5 DEF ListenersAndCommands, PoundSends, PollerQueues, StartHttp, FarmGone,
     StartRecent, StopRecent, storeVars, StartsOnce
<1>6. ASSUME NEW b \in Backups, CalmBackup(b) PROVE http' = http
  BY <1>6, CalmBackupFrame DEF masterVars, storeVars
<1> QED
  BY <1>1, <1>2, <1>3, <1>4, <1>5, <1>6, CalmKinds

\* The connection of a request in the queue is listed.
LEMMA QueuedListed ==
    ASSUME TypeOK, CountInv, NothingFails
    PROVE  \A i \in DOMAIN input_packet_queue :
              /\ input_packet_queue[i].fd \in connected_nodes
              /\ input_packet_queue[i].type # "DISCONNECT"
<1> SUFFICES ASSUME NEW i \in DOMAIN input_packet_queue
             PROVE  /\ input_packet_queue[i].fd \in connected_nodes
                    /\ input_packet_queue[i].type # "DISCONNECT"
  OBVIOUS
<1>1. input_packet_queue[i].fd \in Conns
  BY QueueTyped DEF TypeOK
<1>2. /\ Announced(input_packet_queue[i].fd)
      /\ input_packet_queue[i].type = "DISCONNECT" =>
            \/ srvEnd[input_packet_queue[i].fd] = "closed"
            \/ rx.at = "closing"
  BY DEF CountInv, QueueOrdered
<1> QED
  BY <1>1, <1>2 DEF Announced, NothingFails, CountInv, NodesOpen

LEMMA SentStep ==
    ASSUME Calm, TypeOK, CountInv, NothingFails, DialsOnce, NothingSent, StartsOnce,
           [Next]_vars
    PROVE  NothingSent'
<1>0. /\ connected_nodes \subseteq Conns /\ NoConn \notin Conns
      /\ down \in [Conns -> Seq(Packets)]
      /\ queue \in [Backups -> Seq(Packets \cup {Disconnect})]
      /\ bhttp \in [Backups -> HttpStore]
      /\ sock \in [Backups -> Conns \cup {NoConn}]
      /\ made \in 0 .. MaxConns /\ MaxConns \in Nat
  BY ConnectionAssumption DEF TypeOK, ConnTypeOK, ReplTypeOK, Conns, NoConn
<1>1. CASE UNCHANGED <<to, dest, connected_nodes, down, sock, queue, bhttp>>
  BY <1>1 DEF NothingSent
<1>2. CASE CalmWorker
  <2>0. UNCHANGED <<connected_nodes, sock, queue, bhttp>>
    BY <1>2, WorkerFrame DEF CalmWorker
  <2>1. ASSUME to' \subseteq connected_nodes, dest' \in connected_nodes \cup {NoConn},
               \A c \in Conns \ connected_nodes : down'[c] = down[c]
        PROVE  NothingSent'
    BY <2>0, <2>1 DEF NothingSent
  <2>2. ASSUME NEW p, NEW fd \in connected_nodes \cup {NoConn},
               Send(p, fd) \/ UNCHANGED <<dest, cur, to>>, UNCHANGED down
        PROVE  NothingSent'
    BY <2>1, <2>2 DEF Send, Recipients, NothingSent
  <2>3. CASE FarmEvent
    BY <2>2, <2>3 DEF FarmEvent, SendClear, netVars
  <2>4. CASE HttpUpdate
    BY <2>2, <2>4 DEF HttpUpdate, SendUpdate, netVars
  <2>5. CASE RecentUpdate
    BY <2>2, <2>5 DEF RecentUpdate, SendUpdate, netVars
  <2>6. CASE HandleRequest
    <3>1. input_packet_queue # <<>> /\ UNCHANGED <<down, to>>
          /\ (UNCHANGED dest \/ dest' = Head(input_packet_queue).fd)
      BY <2>6 DEF HandleRequest, ReplyTo, netVars
    <3>2. Head(input_packet_queue).fd \in connected_nodes
      <4>1. 1 \in DOMAIN input_packet_queue
            /\ Head(input_packet_queue) = input_packet_queue[1]
        BY <3>1 DEF TypeOK, ConnTypeOK
      <4> QED
        BY <4>1, QueuedListed
    <3> QED
      BY <2>1, <3>1, <3>2 DEF NothingSent
  <2>7. CASE Deliver /\ SendNext
    <3>1. UNCHANGED down /\ \E p \in outbox : Send(p, dest)
      BY <2>7 DEF Deliver, SendNext, HandleSend, HandleSendError, netVars
    <3>2. PICK p : Send(p, dest)
      BY <3>1
    <3> QED
      BY <2>2, <3>1, <3>2 DEF NothingSent
  <2>8. CASE Deliver /\ ~SendNext
    <3>1. PICK c \in to : HandleSend(c) \/ HandleSendError(c, mpc = "sync")
      BY <2>8 DEF Deliver
    <3>2. c \in connected_nodes
      BY DEF NothingSent
    <3>3. to' \subseteq to /\ UNCHANGED dest
          /\ \A d \in Conns \ connected_nodes : down'[d] = down[d]
      BY <1>0, <3>1, <3>2 DEF HandleSend, HandleSendError
    <3> QED
      BY <2>1, <3>3 DEF NothingSent
  <2>9. CASE HandleHttpSync \/ NoRequest \/ WorkerEnds \/ Sleep \/ EnterHttp \/ HttpDone
             \/ EnterRecent \/ RecentDone
    BY <2>1, <2>9 DEF HandleHttpSync, NoRequest, WorkerEnds, Sleep, EnterHttp, HttpDone,
       EnterRecent, RecentDone, connVars, netVars, sendVars, NothingSent
  <2> QED
    BY <1>2, <2>3, <2>4, <2>5, <2>6, <2>7, <2>8, <2>9, HttpSame DEF CalmWorker, MasterWorker
<1>3. CASE CalmReceive
  <2>1. UNCHANGED <<down, sock, queue, bhttp, dest>>
    BY <1>3 DEF CalmReceive, AcceptNode, AnnounceNode, ReadRequest, clientVars, backupVars,
                netVars, sendVars
  <2>2. connected_nodes \subseteq connected_nodes' /\ to' \subseteq connected_nodes'
    BY <1>3 DEF CalmReceive, AcceptNode, AnnounceNode, ReadRequest, sendVars, NothingSent
  <2> QED
    BY <2>1, <2>2 DEF NothingSent
<1>4. CASE MasterStart
  BY <1>1, <1>4 DEF MasterStart, StartServer, netVars, sendVars, clientVars, backupVars
<1>5. CASE ListenersAndCommands
  BY <1>1, <1>5, ControlFrame DEF connVars, netVars, serverVars, sendVars, clientVars,
     backupVars
<1>6. ASSUME NEW b \in Backups, CalmBackup(b) PROVE NothingSent'
  <2>1. UNCHANGED <<to, dest, connected_nodes>>
    BY <1>6, CalmBackupFrame DEF sendVars
  <2>2. CASE UNCHANGED <<down, sock, queue, bhttp>>
    BY <1>1, <2>1, <2>2
  <2>3. CASE Dial(b)
    <3>1. /\ sock[b] = NoConn /\ UNCHANGED <<down, queue, bhttp>>
          /\ sock' = [sock EXCEPT ![b] = made + 1]
      BY <2>3 DEF Dial, Connect, DialsOnce
    <3>2. queue[b] = <<>> /\ bhttp[b] = EmptyHttp
      BY <1>0, <3>1 DEF NothingSent
    <3> QED
      BY <1>0, <2>1, <3>1, <3>2 DEF NothingSent
  <2>4. CASE HandlePacket(b)
    <3>1. sock[b] \in connected_nodes
      BY <2>4 DEF HandlePacket, NothingSent
    <3>2. /\ UNCHANGED <<down, sock>>
          /\ \A d \in Backups \ {b} : queue'[d] = queue[d] /\ bhttp'[d] = bhttp[d]
      BY <1>0, <2>4 DEF HandlePacket, netVars
    <3> QED
      BY <2>1, <3>1, <3>2 DEF NothingSent
  <2>5. CASE ReadPacket(b) /\ UNCHANGED backupVars
    <3>1. sock[b] \in connected_nodes
      BY <1>0, <2>5 DEF ReadPacket, NothingSent
    <3>2. /\ UNCHANGED <<sock, bhttp>>
          /\ \A d \in Backups \ {b} : queue'[d] = queue[d]
          /\ \A c \in Conns \ connected_nodes : down'[c] = down[c]
      BY <1>0, <2>5, <3>1 DEF ReadPacket, backupVars
    <3> QED
      BY <2>1, <3>1, <3>2 DEF NothingSent
  <2> QED
    BY <1>6, <2>2, <2>3, <2>4, <2>5 DEF CalmBackup, BackupStart, Dialed, EnterRun,
       FirstRequest, connVars, netVars, clientVars, backupVars
<1>7. CASE UNCHANGED vars
  BY <1>1, <1>7 DEF vars, connVars, netVars, serverVars, sendVars, clientVars, backupVars
<1> QED
  BY <1>2, <1>3, <1>4, <1>5, <1>6, <1>7, CalmKinds

LEMMA UpdateSets ==
    ASSUME NEW h \in HttpStore, NEW p \in HttpPackets, p.action \in {"SESS_ADD", "SESS_UPDATE"}
    PROVE  apply_http_action(h, p).sessions[p.slot] = p.backend
<1>1. p.slot \in Slots
  BY HttpPacketKinds DEF SessionPackets
<1>2. apply_http_action(h, p) = AddSession(h, p.slot, p.backend)
  BY DEF apply_http_action
<1> QED
  BY <1>1, <1>2, AddSessionParts

LEMMA CurrentStep ==
    ASSUME Calm, TypeOK, CountInv, NothingFails, DialsOnce, NothingSent, StartsOnce,
           SendsCurrent, [Next]_vars
    PROVE  SendsCurrent'
<1>0. /\ outbox \in SUBSET Packets /\ http \in HttpStore
      /\ NoConn \notin Conns
  BY DEF TypeOK, ConnTypeOK, ReplTypeOK, Conns, NoConn
<1>1. CASE /\ http' = http /\ outbox' \subseteq outbox /\ dest' = dest
           /\ cur' \in {cur, NoPacket}
  BY <1>1 DEF SendsCurrent
<1>2. CASE CalmWorker
  <2>1. CASE FarmEvent
    <3>1. /\ outbox' = {}
          /\ cur' = NoPacket \/ (cur'.type = "HTTP_SYNC" /\ cur'.action = "CLEAR_DATA")
      BY <2>1 DEF FarmEvent, SendClear, Send, ClearRequest, Worker, Sending
    <3> QED
      BY <3>1 DEF SendsCurrent
  <2>2. CASE HttpUpdate
    <3>1. /\ outbox' = {} /\ http' = apply_http_action(http, Head(httpIn))
          /\ cur' = NoPacket \/ cur' = Head(httpIn)
          /\ Head(httpIn) \in HttpPackets
      BY <2>2, WorkerPackets DEF HttpUpdate, SendUpdate, Send, Worker, Sending
    <3> QED
      BY <1>0, <3>1, UpdateSets DEF SendsCurrent
  <2>3. CASE RecentUpdate
    <3>1. /\ outbox' = {}
          /\ cur' = NoPacket \/ cur' = Head(recentIn)
          /\ Head(recentIn) \in RecentPackets
      BY <2>3, WorkerPackets DEF RecentUpdate, SendUpdate, Send, Worker, Sending
    <3>2. cur' = Head(recentIn) => cur'.type = "XT_RECENT_SYNC"
      BY <3>1 DEF RecentPackets
    <3> QED
      BY <3>1, <3>2 DEF SendsCurrent
  <2>4. CASE HandleRequest
    <3>1. /\ http' = http /\ cur' = NoPacket
          /\ \/ outbox' = outbox /\ dest' = dest
             \/ /\ outbox' \subseteq RecentSnapshot(recent)
                /\ dest' = Head(input_packet_queue).fd
      BY <2>4 DEF HandleRequest, ReplyTo, Worker, Sending, storeVars
    <3>2. \A p \in RecentSnapshot(recent) : p.type = "XT_RECENT_SYNC"
      BY RecentSnapshotRows
    <3>3. Head(input_packet_queue).fd \in Conns
      <4>1. input_packet_queue \in Seq(Requests) /\ input_packet_queue # <<>>
        BY <2>4 DEF HandleRequest, TypeOK, ConnTypeOK
      <4>2. Head(input_packet_queue) \in Requests
        BY <4>1, HeadTailType
      <4> QED
        BY <4>2 DEF Requests
    <3> QED
      BY <1>0, <3>1, <3>2, <3>3 DEF SendsCurrent
  <2>5. CASE HandleHttpSync
    <3>1. /\ http' = http /\ cur' = NoPacket /\ outbox' \subseteq HttpSnapshot(http)
          /\ dest' = dest /\ mpc = "sync"
      BY <2>5 DEF HandleHttpSync, Worker, Sending, storeVars
    <3>2. dest' # NoConn
      BY <1>0, <3>1 DEF TypeOK, SyncDest
    <3> QED
      BY <3>1, <3>2, HttpSnapshotSlots DEF SendsCurrent
  <2>6. CASE Deliver /\ SendNext
    <3>1. PICK p \in outbox : outbox' = outbox \ {p} /\ Send(p, dest)
      BY <2>6 DEF SendNext
    <3>2. http' = http /\ dest' = dest /\ (cur' = cur \/ cur' = p)
      BY <2>6, <3>1 DEF Deliver, Send, masterVars, storeVars
    <3> QED
      BY <3>1, <3>2 DEF SendsCurrent
  <2>7. CASE Deliver /\ ~SendNext
    BY <1>1, <1>2, <2>7 DEF Deliver, HandleSend, HandleSendError, masterVars, storeVars
  <2>8. CASE NoRequest \/ WorkerEnds \/ Sleep \/ EnterHttp \/ HttpDone \/ EnterRecent
             \/ RecentDone
    BY <1>1, <2>8 DEF NoRequest, WorkerEnds, Sleep, EnterHttp, HttpDone, EnterRecent,
       RecentDone, connVars, sendVars, storeVars
  <2> QED
    BY <1>2, <2>1, <2>2, <2>3, <2>4, <2>5, <2>6, <2>7, <2>8, HttpSame
    DEF CalmWorker, MasterWorker
<1>3. CASE CalmReceive
  BY <1>1, <1>3
  DEF CalmReceive, AcceptNode, AnnounceNode, ReadRequest, sendVars, masterVars, storeVars
<1>4. CASE MasterStart
  <2>1. http' = http
    BY <1>4 DEF MasterStart, StartsOnce
  <2> QED
    BY <1>1, <1>4, <2>1 DEF MasterStart, StartServer, sendVars
<1>5. CASE ListenersAndCommands /\ ~ClearHttp
  <2>1. http' = http
    BY <1>5 DEF ListenersAndCommands, PoundSends, PollerQueues, StartHttp, FarmGone,
       StartRecent, StopRecent, storeVars, StartsOnce
  <2> QED
    BY <1>1, <1>5, <2>1, ControlFrame DEF connVars, sendVars
<1>6. ASSUME NEW b \in Backups, CalmBackup(b) PROVE SendsCurrent'
  BY <1>1, <1>6, CalmBackupFrame DEF sendVars, masterVars, storeVars
<1>7. CASE UNCHANGED vars
  BY <1>1, <1>7 DEF vars, connVars, sendVars, masterVars, storeVars
<1> QED
  BY <1>2, <1>3, <1>4, <1>5, <1>6, <1>7, CalmKinds

\* A node that is answered has been counted.
LEMMA SyncCounted ==
    ASSUME TypeOK', CountInv', NothingFails', mpc' = "sync"
    PROVE  backup_servers_fd' > 0
<1> DEFINE N == Counted'
<1>1. /\ dest' \in Conns /\ rx'.at # "closing" /\ srvEnd'[dest'] # "closed"
      /\ rx' \in {Polling} \cup [at: {"accepted", "closing"}, conn: Conns]
      /\ connected_nodes' \subseteq Conns
      /\ srvEnd' \in [Conns -> {"none", "backlog", "open", "closed"}]
  BY DEF TypeOK, ConnTypeOK, SyncDest, NothingFails
<1>2. Announced(dest)' /\ dest' \notin Queued("CONNECT")'
  BY DEF CountInv, ServedAnnounced
<1>3. dest' \in connected_nodes'
  BY <1>1, <1>2 DEF Announced, CountInv, NodesOpen
<1>4. dest' # rx'.conn
  BY <1>1, <1>2 DEF Announced, Polling, NoConn, Conns
<1>5. dest' \in N
  BY <1>2, <1>3, <1>4 DEF Counted
<1>6. IsFiniteSet(N) /\ Cardinality(N) \in Nat /\ Cardinality(N) # 0
  <2>1. N \subseteq Conns
    BY <1>1 DEF Counted, Queued
  <2> HIDE DEF N
  <2>2. IsFiniteSet(N)
    BY <2>1, FiniteConns, FS_Subset
  <2> QED
    BY <1>5, <2>2, FS_CardinalityType, FS_EmptySet
<1>7. backup_servers_fd' = Cardinality(N)
  BY DEF CountInv, ServerCount
<1> QED
  BY <1>6, <1>7

\* The counter never falls.
LEMMA CountGrows ==
    ASSUME Calm, TypeOK, CountInv, NothingFails, DialsOnce, NothingSent, StartsOnce,
           [Next]_vars
    PROVE  \/ backup_servers_fd' = backup_servers_fd
           \/ backup_servers_fd >= 0 /\ backup_servers_fd' > 0 /\ HandleRequest
              /\ outbox' = outbox /\ mpc' = mpc
<1>0. backup_servers_fd \in Nat
  BY CountedFinite DEF TypeOK, CountInv, ServerCount
<1>1. CASE HandleRequest
  <2>1. Head(input_packet_queue).type # "DISCONNECT"
    <3>1. input_packet_queue # <<>>
      BY <1>1 DEF HandleRequest
    <3>2. 1 \in DOMAIN input_packet_queue
          /\ Head(input_packet_queue) = input_packet_queue[1]
      BY <3>1 DEF TypeOK, ConnTypeOK
    <3> QED
      BY <3>2, QueuedListed
  <2> QED
    BY <1>0, <1>1, <2>1 DEF HandleRequest, CountConnect
<1>2. CASE CalmWorker /\ ~HandleRequest
  BY <1>2 DEF CalmWorker, MasterWorker, HandleHttpSync, NoRequest, WorkerEnds, Sleep,
     DropHttp, EnterHttp, FarmEvent, HttpUpdate, HttpDone, EnterRecent, RecentUpdate,
     RecentDone, Deliver, masterVars, workerVars
<1>3. CASE MasterStart
  <2>1. connected_nodes = {} /\ input_packet_queue = <<>>
    BY <1>3 DEF MasterStart, CountInv, NodesOpen
  <2>2. Counted = {}
    BY <2>1 DEF Counted, Queued
  <2>3. backup_servers_fd = 0
    BY <2>2, FS_EmptySet DEF CountInv, ServerCount
  <2> QED
    BY <1>3, <2>3 DEF MasterStart
<1>4. CASE CalmReceive \/ UNCHANGED vars
  BY <1>4 DEF CalmReceive, vars, masterVars, workerVars
<1>5. CASE ListenersAndCommands
  BY <1>5, ControlFrame
<1>6. ASSUME NEW b \in Backups, CalmBackup(b) PROVE UNCHANGED backup_servers_fd
  BY <1>6, CalmBackupFrame DEF masterVars, workerVars
<1> QED
  BY <1>1, <1>2, <1>3, <1>4, <1>5, <1>6, CalmKinds

LEMMA EmptyFold ==
    /\ EmptyHttp \in HttpStore
    /\ \A x \in Slots : EmptyHttp.sessions[x] = NoSession
BY EmptyTypes DEF EmptyHttp

\* A backup that is not accepted yet will hold nothing.
LEMMA FreshHolds ==
    ASSUME TypeOK, SendGoal, NothingSent, NEW b \in Backups, NEW c \in Conns,
           sock[b] = c, c \notin connected_nodes
    PROVE  /\ Coming(b, c) = <<>> /\ WillHold(b, c).http = EmptyHttp
<1>1. queue[b] = <<>> /\ down[c] = <<>> /\ c \notin to /\ bhttp[b] = EmptyHttp
  BY DEF NothingSent
<1>2. Coming(b, c) = <<>>
  <2>1. Coming(b, c) = <<>> \o <<>> \o <<>>
    BY <1>1 DEF Coming
  <2>2. <<>> \o <<>> = <<>>
    BY ConcatEmpty, EmptySeqType
  <2> QED
    BY <2>1, <2>2
<1>3. WillHold(b, c).http = Result(HttpStore, HttpStep, EmptyHttp, <<>>)
  BY <1>1, <1>2, HoldNow
<1>4. Result(HttpStore, HttpStep, EmptyHttp, <<>>) = EmptyHttp
  BY EmptyFold, StepTypes, ResultEmpty
<1> QED
  BY <1>2, <1>3, <1>4

LEMMA FreshHoldsNext ==
    ASSUME TypeOK', NothingSent', NEW b \in Backups, NEW c \in Conns,
           sock'[b] = c, c \notin connected_nodes'
    PROVE  WillHold(b, c)'.http = EmptyHttp
<1>1. queue'[b] = <<>> /\ down'[c] = <<>> /\ c \notin to' /\ bhttp'[b] = EmptyHttp
  BY DEF NothingSent
<1>2. Coming(b, c)' = <<>>
  <2>1. Coming(b, c)' = <<>> \o <<>> \o <<>>
    BY <1>1 DEF Coming
  <2>2. <<>> \o <<>> = <<>>
    BY ConcatEmpty, EmptySeqType
  <2> QED
    BY <2>1, <2>2
<1>3. Coming(b, c)' \in Seq(Incoming)
  BY <1>2
<1>4. WillHold(b, c)'.http = Result(HttpStore, HttpStep, EmptyHttp, <<>>)
  BY <1>1, <1>2, <1>3, HoldNext
<1>5. Result(HttpStore, HttpStep, EmptyHttp, <<>>) = EmptyHttp
  BY EmptyFold, StepTypes, ResultEmpty
<1> QED
  BY <1>4, <1>5

LEMMA LinkedNow ==
    ASSUME TypeOK, NothingFails, DialsOnce, NEW b \in Backups, NEW c \in connected_nodes,
           sock[b] = c
    PROVE  Linked(b, c)
<1>1. c \in Conns /\ c # NoConn
  BY DEF TypeOK, ConnTypeOK, Conns, NoConn
<1>2. running[b]
  BY <1>1 DEF DialsOnce
<1> QED
  BY <1>1, <1>2 DEF Linked, NothingFails

LEMMA LinkedNext ==
    ASSUME TypeOK', NothingFails', DialsOnce', NEW b \in Backups, NEW c \in connected_nodes',
           sock'[b] = c
    PROVE  Linked(b, c)'
<1>1. c \in Conns /\ c # NoConn
  BY DEF TypeOK, ConnTypeOK, Conns, NoConn
<1>2. running'[b]
  BY <1>1 DEF DialsOnce
<1> QED
  BY <1>1, <1>2 DEF Linked, NothingFails

(***************************************************************************)
(* How what a backup will hold changes: it holds nothing before it is      *)
(* accepted; as it is, the broadcast under way may or may not reach it;    *)
(* then it changes by what is sent.                                        *)
(***************************************************************************)
LEMMA HoldCalm ==
    ASSUME Calm, TypeOK, TypeOK', CountInv, CountInv', OwnSock, SendGoal,
           NothingFails, NothingFails', DialsOnce, DialsOnce', NothingSent, NothingSent',
           StartsOnce, [Next]_vars, NEW b \in Backups, NEW c \in Conns, sock'[b] = c
    PROVE  \/ c \notin connected_nodes' /\ WillHold(b, c)'.http = EmptyHttp
           \/ /\ AcceptNode /\ UNCHANGED <<http, cur, outbox, mpc>>
              /\ sock[b] = c /\ c \notin connected_nodes
              /\ WillHold(b, c).http = EmptyHttp
              /\ \/ WillHold(b, c)'.http = EmptyHttp
                 \/ /\ cur # NoPacket
                    /\ WillHold(b, c)'.http = HttpStep[OnWire(cur)][EmptyHttp]
           \/ /\ sock[b] = c /\ Linked(b, c)
              /\ \/ FarmEvent \/ HttpUpdate \/ RecentUpdate \/ (Deliver /\ SendNext)
                 \/ WillHold(b, c)'.http = WillHold(b, c).http
<1>0. /\ connected_nodes \subseteq Conns /\ NoConn \notin Conns
      /\ sock \in [Backups -> Conns \cup {NoConn}]
      /\ made \in 0 .. MaxConns /\ MaxConns \in Nat
  BY ConnectionAssumption DEF TypeOK, ConnTypeOK, Conns, NoConn
<1>1. CASE c \notin connected_nodes'
  BY <1>1, FreshHoldsNext
<1>2. ASSUME c \in connected_nodes' PROVE sock[b] = c
  <2>1. CASE UNCHANGED sock
    BY <2>1
  <2>2. ASSUME NEW d \in Backups, Dial(d) PROVE sock[b] = c
    <3>1. sock' = [sock EXCEPT ![d] = made + 1] /\ UNCHANGED connected_nodes
      BY <2>2 DEF Dial, Connect
    <3>2. ~(made + 1 \in connected_nodes)
      <4>1. made + 1 \in Conns => srvEnd[made + 1] = "none"
        BY <1>0 DEF CountInv, NodesOpen
      <4> QED
        BY <1>0, <4>1 DEF CountInv, NodesOpen
    <3> QED
      BY <1>0, <1>2, <3>1, <3>2
  <2>3. \/ UNCHANGED sock
        \/ \E d \in Backups : Dial(d)
    <3>1. CalmWorker \/ CalmReceive \/ MasterStart \/ ListenersAndCommands
          \/ UNCHANGED vars => UNCHANGED sock
      BY WorkerFrame, ControlFrame
      DEF CalmWorker, CalmReceive, AcceptNode, AnnounceNode, ReadRequest, MasterStart,
          StartServer, vars, connVars, clientVars
    <3> QED
      BY <3>1, CalmKinds, CalmBackupFrame
  <2> QED
    BY <2>1, <2>2, <2>3
<1>3. CASE c \in connected_nodes' /\ c \notin connected_nodes
  <2>1. sock[b] = c
    BY <1>2, <1>3
  <2>2. AcceptNode /\ UNCHANGED <<masterVars, backupVars>>
    <3>1. CalmWorker \/ MasterStart \/ ListenersAndCommands
          \/ UNCHANGED vars => UNCHANGED connected_nodes
      BY WorkerFrame, ControlFrame
      DEF CalmWorker, MasterStart, StartServer, vars, connVars, serverVars
    <3>2. CalmReceive /\ ~AcceptNode => UNCHANGED connected_nodes
      BY DEF CalmReceive, AnnounceNode, ReadRequest
    <3> QED
      BY <1>3, <3>1, <3>2, CalmKinds, CalmBackupFrame DEF CalmReceive
  <2>3. UNCHANGED <<queue, down, cur, outbox, http, mpc, bhttp, brecent>>
    BY <2>2 DEF AcceptNode, clientVars, masterVars, workerVars, storeVars, backupVars
  <2>4. Coming(b, c) = <<>> /\ WillHold(b, c).http = EmptyHttp /\ c \notin to
    BY <1>3, <2>1, FreshHolds DEF NothingSent
  <2>5. CASE c \notin to'
    <3>1. Coming(b, c)' = Coming(b, c)
      BY <2>3, <2>4, <2>5, ComingSame
    <3>2. WillHold(b, c)'.http = EmptyHttp
      BY <2>3, <2>4, <3>1, HoldSame
    <3> QED
      BY <1>3, <2>1, <2>2, <2>3, <2>4, <3>2
  <2>6. CASE c \in to'
    <3>1. cur # NoPacket /\ cur \in Packets
      BY <2>2, <2>4, <2>6 DEF AcceptNode, TypeOK, ConnTypeOK
    <3> DEFINE w == OnWire(cur)
    <3>2. w \in Incoming
      BY <3>1, OnWireType DEF Incoming
    <3>3. Coming(b, c)' = Append(Coming(b, c), OnWire(cur))
      <4>1. queue[b] = <<>> /\ down[c] = <<>>
        BY <1>3, <2>1 DEF NothingSent
      <4>2. Coming(b, c)' = <<>> \o <<>> \o <<w>>
        BY <2>3, <2>6, <4>1 DEF Coming
      <4> HIDE DEF w
      <4>3. <<>> \in Seq(Incoming) /\ <<w>> \in Seq(Incoming)
        BY <3>2
      <4>4. <<>> \o <<>> \o <<w>> = Append(<<>>, w)
        BY <3>2, <4>3, ConcatEmpty, ConcatOne
      <4> QED
        BY <2>4, <4>2, <4>4 DEF w
    <3>4. WillHold(b, c)'.http = HttpStep[OnWire(cur)][EmptyHttp]
      BY <2>3, <2>4, <3>1, <3>3, HoldSent
    <3> QED
      BY <1>3, <2>1, <2>2, <2>3, <2>4, <3>1, <3>4
  <2> QED
    BY <2>5, <2>6
<1>4. CASE c \in connected_nodes' /\ c \in connected_nodes
  <2>1. sock[b] = c /\ Linked(b, c) /\ Linked(b, c)' /\ c \notin skipped'
    BY <1>2, <1>4, LinkedNow, LinkedNext DEF NothingFails
  <2>2. ~Resync(b)
    BY DEF Resync, DialsOnce
  <2> QED
    BY <2>1, <2>2, HoldStep
<1> QED
  BY <1>1, <1>3, <1>4

\* What a broadcast does to the sessions a listed backup will hold
LEMMA ClearReaches ==
    ASSUME TypeOK, TypeOK', SendGoal, NEW b \in Backups, NEW c \in Conns, Linked(b, c),
           FarmEvent
    PROVE  /\ Head(httpIn).farm \in Farms
           /\ WillHold(b, c)'.http =
                 apply_http_action(WillHold(b, c).http, ClearRequest(Head(httpIn).farm))
           /\ http' = clear_http_farm_data(http, Head(httpIn).farm)
<1> DEFINE f == Head(httpIn).farm
           w == WillHold(b, c).http
<1>1. /\ cur = NoPacket /\ UNCHANGED <<down, queue, bhttp, brecent>>
      /\ http' = clear_http_farm_data(http, f) /\ Send(ClearRequest(f), NoConn)
  BY DEF FarmEvent, SendClear, Worker, Sending, netVars, clientVars, backupVars
<1>2. f \in Farms /\ ClearRequest(f) \in Packets
  BY WorkerPackets
<1>3. OnWire(ClearRequest(f)) = ClearRequest(f) /\ ClearRequest(f).type = "HTTP_SYNC"
  BY DEF OnWire, ClearRequest
<1>4. w \in HttpStore
  BY HoldNow
<1> HIDE DEF f
<1>5. WillHold(b, c)'.http = HttpStep[OnWire(ClearRequest(f))][w]
  BY <1>1, <1>2, SendReaches
<1>6. ClearRequest(f) \in Incoming
  BY <1>2 DEF Incoming
<1> HIDE DEF w
<1>7. WillHold(b, c)'.http = apply_http_action(w, ClearRequest(f))
  BY <1>3, <1>4, <1>5, <1>6 DEF HttpStep
<1> QED
  BY <1>1, <1>2, <1>7 DEF f, w

LEMMA UpdateReaches ==
    ASSUME TypeOK, TypeOK', SendGoal, NEW b \in Backups, NEW c \in Conns, Linked(b, c),
           HttpUpdate
    PROVE  /\ Head(httpIn) \in HttpPackets
           /\ http' = apply_http_action(http, Head(httpIn))
           /\ backup_servers_fd > 0 =>
                 WillHold(b, c)'.http =
                    apply_http_action(WillHold(b, c).http, OnWire(Head(httpIn)))
           /\ ~(backup_servers_fd > 0) => WillHold(b, c)'.http = WillHold(b, c).http
<1> DEFINE p == Head(httpIn)
           w == WillHold(b, c).http
<1>1. /\ cur = NoPacket /\ UNCHANGED <<down, queue, bhttp, brecent>>
      /\ http' = apply_http_action(http, p) /\ SendUpdate(p)
  BY DEF HttpUpdate, Worker, Sending, netVars, clientVars, backupVars
<1>2. p \in HttpPackets /\ p \in Packets
  BY WorkerPackets
<1>3. w \in HttpStore
  BY HoldNow
<1> HIDE DEF p
<1>4. CASE backup_servers_fd > 0
  <2>1. Send(p, NoConn)
    BY <1>1, <1>4 DEF SendUpdate
  <2>2. WillHold(b, c)'.http = HttpStep[OnWire(p)][w]
    BY <1>1, <1>2, <2>1, SendReaches
  <2>3. OnWire(p) \in Incoming /\ OnWire(p).type = "HTTP_SYNC"
    BY <1>2, OnWireType, HttpPacketStep, EmptyTypes DEF Incoming
  <2> HIDE DEF w
  <2>4. HttpStep[OnWire(p)][w] = apply_http_action(w, OnWire(p))
    BY <1>3, <2>3 DEF HttpStep
  <2> QED
    BY <1>1, <1>2, <1>4, <2>2, <2>4 DEF p, w
<1>5. CASE ~(backup_servers_fd > 0)
  <2>1. UNCHANGED <<cur, to>>
    BY <1>1, <1>5 DEF SendUpdate
  <2>2. Coming(b, c)' = Coming(b, c)
    BY <1>1, <2>1, ComingSame
  <2> QED
    BY <1>1, <1>2, <1>5, <2>2, HoldSame DEF p
<1> QED
  BY <1>4, <1>5

LEMMA EntryReaches ==
    ASSUME TypeOK, TypeOK', SendGoal, NEW b \in Backups, NEW c \in Conns, Linked(b, c),
           RecentUpdate
    PROVE  http' = http /\ WillHold(b, c)'.http = WillHold(b, c).http
<1> DEFINE p == Head(recentIn)
           w == WillHold(b, c).http
<1>1. /\ cur = NoPacket /\ UNCHANGED <<down, queue, bhttp, brecent, http>>
      /\ SendUpdate(p)
  BY DEF RecentUpdate, Worker, Sending, netVars, clientVars, backupVars
<1>2. p \in RecentPackets /\ p \in Packets
  BY WorkerPackets
<1>3. w \in HttpStore
  BY HoldNow
<1> HIDE DEF p
<1>4. CASE Send(p, NoConn)
  <2>1. WillHold(b, c)'.http = HttpStep[OnWire(p)][w]
    BY <1>1, <1>2, <1>4, SendReaches
  <2> HIDE DEF w
  <2>2. HttpStep[OnWire(p)][w] = w
    BY <1>2, <1>3, RecentPacketStep, EmptyTypes
  <2> QED
    BY <1>1, <2>1, <2>2 DEF w
<1>5. CASE UNCHANGED <<cur, to>>
  <2>1. Coming(b, c)' = Coming(b, c)
    BY <1>1, <1>5, ComingSame
  <2> QED
    BY <1>1, <2>1, HoldSame
<1> QED
  BY <1>1, <1>4, <1>5 DEF SendUpdate

LEMMA SnapshotReaches ==
    ASSUME TypeOK, TypeOK', SendGoal, NEW b \in Backups, NEW c \in Conns, Linked(b, c),
           Deliver, SendNext
    PROVE  /\ http' = http
           /\ \/ WillHold(b, c)'.http = WillHold(b, c).http
              \/ \E p \in outbox :
                    /\ p \in HttpPackets
                    /\ WillHold(b, c)'.http =
                          apply_http_action(WillHold(b, c).http, OnWire(p))
<1> DEFINE w == WillHold(b, c).http
<1>0. outbox \in SUBSET Packets
  BY DEF TypeOK, ConnTypeOK
<1>1. /\ cur = NoPacket /\ UNCHANGED <<down, queue, bhttp, brecent, http>>
  BY DEF Deliver, SendNext, HandleSend, HandleSendError, netVars, clientVars, backupVars,
         masterVars, storeVars
<1>2. PICK p \in outbox : Send(p, dest)
  BY DEF SendNext
<1>3. p \in Packets
  BY <1>0
<1>4. w \in HttpStore
  BY HoldNow
<1>5. WillHold(b, c)'.http \in {HttpStep[OnWire(p)][w], w}
  BY <1>1, <1>2, <1>3, SendReaches
<1> HIDE DEF w
<1>6. CASE p \in HttpPackets
  <2>1. OnWire(p) \in Incoming /\ OnWire(p).type = "HTTP_SYNC"
    BY <1>3, <1>6, OnWireType, HttpPacketStep, EmptyTypes DEF Incoming
  <2>2. HttpStep[OnWire(p)][w] = apply_http_action(w, OnWire(p))
    BY <1>4, <2>1 DEF HttpStep
  <2> QED
    BY <1>1, <1>2, <1>5, <1>6, <2>2 DEF w
<1>7. CASE p \in RecentPackets
  <2>1. HttpStep[OnWire(p)][w] = w
    BY <1>4, <1>7, RecentPacketStep, EmptyTypes
  <2> QED
    BY <1>1, <1>5, <2>1 DEF w
<1> QED
  BY <1>3, <1>6, <1>7 DEF Packets

\* An accepted node that the broadcast under way still reaches
LEMMA FirstHeard ==
    ASSUME TypeOK, cur # NoPacket
    PROVE  \/ /\ cur \in HttpPackets /\ cur.type = "HTTP_SYNC"
              /\ HttpStep[OnWire(cur)][EmptyHttp] = apply_http_action(EmptyHttp, OnWire(cur))
           \/ cur \in RecentPackets /\ HttpStep[OnWire(cur)][EmptyHttp] = EmptyHttp
<1>1. cur \in Packets
  BY DEF TypeOK, ConnTypeOK
<1>2. CASE cur \in HttpPackets
  <2>1. /\ OnWire(cur) \in Incoming /\ OnWire(cur).type = "HTTP_SYNC"
        /\ cur.type = "HTTP_SYNC"
    BY <1>1, <1>2, OnWireType, HttpPacketStep, EmptyTypes, HttpPacketKinds DEF Incoming
  <2> QED
    BY <1>2, <2>1, EmptyTypes DEF HttpStep
<1>3. CASE cur \in RecentPackets
  BY <1>3, RecentPacketStep, EmptyTypes
<1> QED
  BY <1>1, <1>2, <1>3 DEF Packets

LEMMA InventedStep ==
    ASSUME Calm, SmallIds, SmallBackends, TypeOK, TypeOK', CountInv, CountInv', OwnSock,
           SendGoal, StoresKeyed, NothingFails, NothingFails', DialsOnce, DialsOnce',
           NothingSent, NothingSent', StartsOnce, SendsCurrent,
           backup_servers_fd > 0 \/ AddsNothing, NoneInvented, [Next]_vars
    PROVE  NoneInvented'
<1> SUFFICES ASSUME NEW b \in Backups, NEW c \in Conns, sock'[b] = c
             PROVE  Within(WillHold(b, c)'.http, http')
  <2>1. sock' \in [Backups -> Conns \cup {NoConn}]
    BY DEF TypeOK, ConnTypeOK
  <2> QED
    BY <2>1 DEF NoneInvented, Within
<1> DEFINE w == WillHold(b, c).http
<1>0. http \in HttpStore /\ http' \in HttpStore
  BY DEF TypeOK, ReplTypeOK
<1>1. CASE WillHold(b, c)'.http = EmptyHttp
  BY <1>1, EmptyFold DEF Within
<1>2. CASE /\ UNCHANGED http /\ cur # NoPacket
           /\ WillHold(b, c)'.http = HttpStep[OnWire(cur)][EmptyHttp]
  <2>1. CASE cur \in HttpPackets /\ cur.type = "HTTP_SYNC"
    <3>1. WillHold(b, c)'.http = apply_http_action(EmptyHttp, OnWire(cur))
      BY <1>2, <2>1, FirstHeard, EmptyFold, RecentPacketStep DEF RecentPackets
    <3>2. Within(EmptyHttp, http)
      BY EmptyFold DEF Within
    <3>3. cur.action \in {"SESS_ADD", "SESS_UPDATE"} => http.sessions[cur.slot] = cur.backend
      BY <1>2, <2>1 DEF SendsCurrent
    <3> QED
      BY <1>0, <1>2, <2>1, <3>1, <3>2, <3>3, EmptyFold, WithinSent
  <2>2. CASE ~(cur \in HttpPackets /\ cur.type = "HTTP_SYNC")
    BY <1>1, <1>2, <2>2, FirstHeard
  <2> QED
    BY <2>1, <2>2
<1>3. CASE sock[b] = c /\ Linked(b, c)
  <2>0. /\ Within(w, http) /\ w \in HttpStore /\ Keyed(w) /\ Keyed(http)
        /\ c # NoConn
    <3>1. c # NoConn
      BY DEF Conns, NoConn
    <3>2. Within(w, http)
      BY <1>3, <3>1 DEF NoneInvented, Within
    <3> QED
      BY <3>1, <3>2, HoldNow, HoldKeyed DEF StoresKeyed
  <2>1. CASE FarmEvent
    <3>1. PICK f \in Farms : /\ WillHold(b, c)'.http = apply_http_action(w, ClearRequest(f))
                             /\ http' = clear_http_farm_data(http, f)
      BY <1>3, <2>1, ClearReaches
    <3> HIDE DEF w
    <3> QED
      BY <1>0, <2>0, <3>1, WithinCleared
  <2>2. CASE HttpUpdate /\ backup_servers_fd > 0
    <3>1. PICK p \in HttpPackets : /\ WillHold(b, c)'.http = apply_http_action(w, OnWire(p))
                                   /\ http' = apply_http_action(http, p)
      BY <1>3, <2>2, UpdateReaches
    <3> HIDE DEF w
    <3> QED
      BY <1>0, <2>0, <3>1, WithinKept
  <2>3. CASE HttpUpdate /\ ~(backup_servers_fd > 0)
    <3>1. WillHold(b, c)'.http = w
      BY <1>3, <2>3, UpdateReaches
    <3>2. w.sessions = EmptyHttp.sessions
      BY <1>3, <2>0, <2>3 DEF AddsNothing
    <3> QED
      BY <3>1, <3>2, EmptyFold DEF Within
  <2>4. CASE RecentUpdate
    <3>1. http' = http /\ WillHold(b, c)'.http = w
      BY <1>3, <2>4, EntryReaches
    <3> QED
      BY <2>0, <3>1
  <2>5. CASE Deliver /\ SendNext
    <3>1. http' = http
      BY <1>3, <2>5, SnapshotReaches
    <3>2. CASE WillHold(b, c)'.http = w
      BY <2>0, <3>1, <3>2
    <3>3. CASE WillHold(b, c)'.http # w
      <4>1. PICK p \in outbox : p \in HttpPackets
                                /\ WillHold(b, c)'.http = apply_http_action(w, OnWire(p))
        BY <1>3, <2>5, <3>3, SnapshotReaches
      <4>2. p.type = "HTTP_SYNC"
        BY <4>1, HttpPacketKinds
      <4>3. http.sessions[p.slot] = p.backend
        BY <4>1, <4>2 DEF SendsCurrent
      <4> HIDE DEF w
      <4> QED
        BY <1>0, <2>0, <3>1, <4>1, <4>3, WithinSent
    <3> QED
      BY <3>2, <3>3
  <2>6. CASE ~FarmEvent /\ ~HttpUpdate /\ WillHold(b, c)'.http = w
    BY <2>0, <2>6, HttpSame
  <2>7. FarmEvent \/ HttpUpdate \/ RecentUpdate \/ (Deliver /\ SendNext)
        \/ WillHold(b, c)'.http = w \/ WillHold(b, c)'.http = EmptyHttp
        \/ (c \notin connected_nodes)
    BY HoldCalm
  <2>8. c \in connected_nodes
    BY <1>3 DEF Linked
  <2> HIDE DEF w
  <2> QED
    BY <1>1, <2>1, <2>2, <2>3, <2>4, <2>5, <2>6, <2>7, <2>8
<1> HIDE DEF w
<1> QED
  BY <1>1, <1>2, <1>3, HoldCalm

LEMMA AddsStep ==
    ASSUME Calm, TypeOK, TypeOK', CountInv, CountInv', OwnSock,
           SendGoal, NothingFails, NothingFails', DialsOnce, DialsOnce',
           NothingSent, NothingSent', StartsOnce,
           backup_servers_fd > 0 \/ AddsNothing, [Next]_vars
    PROVE  backup_servers_fd' > 0 \/ AddsNothing'
<1> SUFFICES ASSUME ~(backup_servers_fd' > 0) PROVE AddsNothing'
  OBVIOUS
<1>1. backup_servers_fd' = backup_servers_fd /\ AddsNothing /\ ~(backup_servers_fd > 0)
  BY CountGrows
<1>2. mpc' # "sync"
  BY SyncCounted
<1>3. /\ outbox' = {}
      /\ cur' # NoPacket => cur'.type = "HTTP_SYNC" /\ cur'.action = "CLEAR_DATA"
  <2>0. outbox = {} /\ mpc # "sync"
        /\ (cur # NoPacket => cur.type = "HTTP_SYNC" /\ cur.action = "CLEAR_DATA")
    BY <1>1 DEF AddsNothing
  <2>1. CASE outbox' = {} /\ cur' \in {cur, NoPacket}
    BY <2>0, <2>1
  <2>2. CASE CalmWorker
    <3>1. CASE FarmEvent
      BY <2>0, <3>1 DEF FarmEvent, SendClear, Send, ClearRequest, Worker, Sending
    <3>2. CASE HttpUpdate \/ RecentUpdate
      BY <1>1, <2>0, <3>2 DEF HttpUpdate, RecentUpdate, SendUpdate
    <3>3. CASE HandleRequest
      BY <1>1, <1>2, <2>0, <3>3 DEF HandleRequest, CountConnect, CountDisconnect
    <3>4. CASE Deliver
      BY <2>0, <3>4 DEF Deliver, SendNext, HandleSend, HandleSendError
    <3>5. CASE NoRequest \/ WorkerEnds \/ Sleep \/ EnterHttp \/ HttpDone \/ EnterRecent
               \/ RecentDone
      BY <2>0, <3>5 DEF NoRequest, WorkerEnds, Sleep, EnterHttp, HttpDone, EnterRecent,
         RecentDone, connVars, sendVars
    <3>6. ~HandleHttpSync
      BY <2>0 DEF HandleHttpSync, Worker
    <3> QED
      BY <2>2, <3>1, <3>2, <3>3, <3>4, <3>5, <3>6, HttpSame DEF CalmWorker, MasterWorker
  <2>3. CASE CalmReceive
    BY <2>0, <2>3 DEF CalmReceive, AcceptNode, AnnounceNode, ReadRequest, sendVars
  <2>4. CASE MasterStart
    BY <2>0, <2>4 DEF MasterStart, StartServer, sendVars
  <2>5. CASE ListenersAndCommands
    BY <2>0, <2>5, ControlFrame DEF connVars, sendVars
  <2>6. CASE \E b \in Backups : CalmBackup(b)
    BY <2>0, <2>6, CalmBackupFrame DEF sendVars
  <2>7. CASE UNCHANGED vars
    BY <2>0, <2>7 DEF vars, connVars, sendVars
  <2> QED
    BY <2>2, <2>3, <2>4, <2>5, <2>6, <2>7, CalmKinds
<1>4. ASSUME NEW b \in Backups, NEW c \in Conns, sock'[b] = c
      PROVE  WillHold(b, c)'.http.sessions = EmptyHttp.sessions
  <2> DEFINE w == WillHold(b, c).http
  <2>1. CASE WillHold(b, c)'.http = EmptyHttp
    BY <2>1
  <2>2. ASSUME NEW h \in HttpStore, NEW p, p.action = "CLEAR_DATA",
               h.sessions = EmptyHttp.sessions
        PROVE  apply_http_action(h, p).sessions = EmptyHttp.sessions
    BY <2>2 DEF apply_http_action, ClearFarm, EmptyHttp, HttpStore
  <2>3. CASE cur # NoPacket /\ WillHold(b, c)'.http = HttpStep[OnWire(cur)][EmptyHttp]
    <3>1. cur.type = "HTTP_SYNC" /\ cur.action = "CLEAR_DATA" /\ OnWire(cur) = cur
      BY <1>1, <2>3 DEF AddsNothing, OnWire
    <3>2. HttpStep[OnWire(cur)][EmptyHttp]
             \in {apply_http_action(EmptyHttp, OnWire(cur)), EmptyHttp}
      BY <2>3, FirstHeard
    <3> QED
      BY <2>2, <2>3, <3>1, <3>2, EmptyFold
  <2>4. CASE sock[b] = c /\ Linked(b, c)
    <3>0. w.sessions = EmptyHttp.sessions /\ w \in HttpStore
      <4>1. c # NoConn
        BY DEF Conns, NoConn
      <4> QED
        BY <1>1, <2>4, <4>1, HoldNow DEF AddsNothing
    <3>1. CASE WillHold(b, c)'.http = w
      BY <3>0, <3>1
    <3>2. CASE FarmEvent
      <4>1. PICK f \in Farms : WillHold(b, c)'.http = apply_http_action(w, ClearRequest(f))
        BY <2>4, <3>2, ClearReaches
      <4>2. ClearRequest(f).action = "CLEAR_DATA"
        BY DEF ClearRequest
      <4> HIDE DEF w
      <4> QED
        BY <2>2, <3>0, <4>1, <4>2
    <3>3. CASE HttpUpdate
      BY <1>1, <2>4, <3>1, <3>3, UpdateReaches
    <3>4. CASE RecentUpdate
      BY <2>4, <3>1, <3>4, EntryReaches
    <3>5. ~SendNext
      BY <1>1 DEF AddsNothing, SendNext
    <3>6. c \in connected_nodes
      BY <2>4 DEF Linked
    <3> HIDE DEF w
    <3>7. FarmEvent \/ HttpUpdate \/ RecentUpdate
          \/ WillHold(b, c)'.http = w \/ WillHold(b, c)'.http = EmptyHttp
      BY <1>4, <3>5, <3>6, HoldCalm DEF w
    <3> QED
      BY <2>1, <3>1, <3>2, <3>3, <3>4, <3>7
  <2> HIDE DEF w
  <2> QED
    BY <1>4, <2>1, <2>3, <2>4, HoldCalm
<1>5. sock' \in [Backups -> Conns \cup {NoConn}]
  BY DEF TypeOK, ConnTypeOK
<1> QED
  BY <1>2, <1>3, <1>4, <1>5 DEF AddsNothing

LEMMA CalmInit == Init => CalmInv
<1> SUFFICES ASSUME Init PROVE CalmInv
  OBVIOUS
<1>1. /\ mpc = "off" /\ stopping = "no" /\ skipped = {} /\ rx = Polling /\ to = {}
      /\ dest = NoConn /\ cur = NoPacket /\ outbox = {} /\ httpRun = "off"
      /\ http = EmptyHttp /\ connected_nodes = {}
      /\ toSrv = [c \in Conns |-> "ok"] /\ toCli = [c \in Conns |-> "ok"]
      /\ srvEnd = [c \in Conns |-> "none"] /\ cliEnd = [c \in Conns |-> "none"]
      /\ down = [c \in Conns |-> <<>>] /\ queue = [b \in Backups |-> <<>>]
      /\ bhttp = [b \in Backups |-> EmptyHttp] /\ bpc = [b \in Backups |-> "down"]
      /\ sock = [b \in Backups |-> NoConn]
  BY DEF Init, ConnInit
<1>2. NothingFails
  BY <1>1 DEF NothingFails, Polling
<1>3. DialsOnce /\ StartsOnce /\ NothingSent /\ SendsCurrent
  BY <1>1 DEF DialsOnce, StartsOnce, NothingSent, SendsCurrent
<1>4. AddsNothing /\ NoneInvented
  BY <1>1 DEF AddsNothing, NoneInvented
<1> QED
  BY <1>2, <1>3, <1>4 DEF CalmInv

LEMMA CalmStep ==
    ASSUME Calm, SmallIds, SmallBackends, TypeOK, TypeOK', CountInv, CountInv', OwnSock,
           SendGoal, StoresKeyed, CalmInv, [Next]_vars
    PROVE  CalmInv'
<1> USE DEF CalmInv
<1>1. NothingFails'
  BY FailsStep
<1>2. DialsOnce'
  BY DialsStep
<1>3. StartsOnce' /\ SendsCurrent'
  BY StartsStep, CurrentStep
<1>4. NothingSent'
  BY SentStep
<1>5. backup_servers_fd' > 0 \/ AddsNothing'
  BY <1>1, <1>2, <1>4, AddsStep
<1>6. NoneInvented'
  BY <1>1, <1>2, <1>4, InventedStep
<1> QED
  BY <1>1, <1>2, <1>3, <1>4, <1>5, <1>6

(***************************************************************************)
(* What is lost and what is made up: a backup that lacks no session and    *)
(* invents none has exactly those of the master.                           *)
(***************************************************************************)
LEMMA ExactNow ==
    ASSUME SmallIds, SmallBackends, TypeOK, SendGoal, CalmInv, NoSessionLost,
           NEW b \in Backups, NEW c \in Conns, Synced(b, c), ~(outbox # {} /\ dest = c)
    PROVE  WillHold(b, c).http.sessions = http.sessions
<1> DEFINE w == WillHold(b, c).http
<1>1. /\ w \in HttpStore /\ http \in HttpStore
      /\ w.sessions \in [Slots -> Backends \cup {NoSession}]
      /\ http.sessions \in [Slots -> Backends \cup {NoSession}]
  BY HoldNow DEF TypeOK, ReplTypeOK, HttpStore
<1>2. sock[b] = c /\ c # NoConn /\ c \notin skipped
  BY DEF Synced, Healthy, Conns, NoConn, CalmInv, NothingFails
<1>3. Within(w, http)
  BY <1>2 DEF CalmInv, NoneInvented, Within
<1>4. ASSUME NEW x \in Slots PROVE w.sessions[x] = http.sessions[x]
  <2>1. CASE http.sessions[x] = NoSession
    BY <1>3, <2>1 DEF Within
  <2>2. CASE http.sessions[x] # NoSession
    <3>1. PICK p \in HttpSnapshot(http) : p.slot = x /\ p.backend = http.sessions[x]
      BY <1>1, <2>2, SnapshotHas
    <3>2. httpRun # "off"
      BY <2>2, EmptyFold DEF CalmInv, StartsOnce
    <3>3. HttpCovered(b, c)
      BY <1>2, <3>2 DEF NoSessionLost
    <3>4. w.sessions[p.slot] = LowByte(p.backend) \/ StillToSend(c, p)
      BY <3>3, SlotCovered
    <3>5. ~StillToSend(c, p)
      BY DEF StillToSend, CalmInv, SendsCurrent
    <3>6. LowByte(p.backend) = p.backend
      BY ExactBackends, HttpSnapshotSlots
    <3> QED
      BY <3>1, <3>4, <3>5, <3>6
  <2> QED
    BY <2>1, <2>2
<1> HIDE DEF w
<1>5. w.sessions = http.sessions
  BY <1>1, <1>4
<1> QED
  BY <1>5 DEF w

(***************************************************************************)
(* When nothing fails, a backup whose SYNC_REQUEST has been answered has   *)
(* exactly the sessions of the master once what is on its way is applied:  *)
(* what was deleted or displaced is gone, and no farm outlives its flush.  *)
(* The counter of nodes is what makes it true: HttpUpdate and FarmEvent    *)
(* queue nothing while it is 0, so a node accepted and not yet counted     *)
(* (AddsNothing) must have nothing to forget.                              *)
(***************************************************************************)
THEOREM NoGhostSessionHolds ==
    ASSUME Calm, SmallIds, SmallBackends PROVE Spec => []NoGhostSession
<1> DEFINE Inv == /\ TypeOK /\ CountInv /\ OwnSock /\ SendGoal /\ OutboxCurrent
                  /\ DropsFirst /\ StoresKeyed /\ NoSessionLost /\ CalmInv
<1>1. Init => Inv
  BY TypeInit, CountInit, InitSending, InitStores, NotYetServed, CalmInit
<1>2. Inv /\ [Next]_vars => Inv'
  <2> SUFFICES ASSUME Inv, [Next]_vars PROVE Inv'
    OBVIOUS
  <2>1. TypeOK' /\ CountInv'
    BY TypeStep, CountStep
  <2>2. StoresKeyed' /\ DropsFirst'
    BY <2>1, KeyedStep, DropsFirstStep
  <2>3. CalmInv'
    BY <2>1, CalmStep
  <2> QED
    BY <2>1, <2>2, <2>3, OwnStep, SendGoalStep, OutboxStep, SessionsStep
<1>3. Inv => NoGhostSession
  <2> SUFFICES ASSUME Inv, ~Sending, NEW b \in Backups, NEW c \in Conns, Synced(b, c)
               PROVE  WillHold(b, c).http.sessions = http.sessions
    BY DEF NoGhostSession
  <2>1. outbox = {}
    BY DEF Sending, SendGoal
  <2> QED
    BY <2>1, ExactNow
<1> HIDE DEF Inv
<1> QED
  BY <1>1, <1>2, <1>3, PTL DEF Spec

-----------------------------------------------------------------------------
\* The versions on their way to a backup

Sessions == [Slots -> Backends \cup {NoSession}]
Journals == [http: HttpStore, versions: Seq(Sessions)]

AdoptStep == [p \in Incoming |-> [st \in Journals |-> Adopted(st, p)]]

LEMMA AdoptedParts ==
    ASSUME NEW st \in Journals, NEW p \in Incoming
    PROVE  /\ Adopted(st, p) \in Journals
           /\ Adopted(st, p).http = HttpStep[p][st.http]
           /\ Adopted(st, p).versions =
                 IF p.type = "HTTP_SYNC"
                 THEN Append(st.versions, HttpStep[p][st.http].sessions)
                 ELSE st.versions
<1>0. st.http \in HttpStore /\ st.versions \in Seq(Sessions)
  BY DEF Journals
<1>1. CASE p \in HttpPackets /\ p.type = "HTTP_SYNC"
  <2> DEFINE h == apply_http_action(st.http, p)
  <2>1. HttpStep[p][st.http] = h
    BY <1>0, <1>1 DEF HttpStep
  <2>2. h \in HttpStore
    BY <1>0, <1>1, ApplyHttpType
  <2>3. h.sessions \in Sessions
    BY <2>2 DEF HttpStore, Sessions
  <2> DEFINE v == Append(st.versions, h.sessions)
  <2>4. Adopted(st, p) = [http |-> h, versions |-> v]
    BY <1>0, <1>1 DEF Adopted, Journals
  <2> HIDE DEF h
  <2>5. v \in Seq(Sessions)
    BY <1>0, <2>3
  <2>6. v = Append(st.versions, HttpStep[p][st.http].sessions)
    BY <2>1
  <2> HIDE DEF v
  <2> QED
    BY <1>1, <2>1, <2>2, <2>4, <2>5, <2>6 DEF Journals
<1>2. CASE p.type # "HTTP_SYNC"
  <2>1. HttpStep[p][st.http] = st.http /\ Adopted(st, p) = st
    BY <1>0, <1>2 DEF HttpStep, Adopted
  <2> QED
    BY <1>2, <2>1
<1> QED
  BY <1>1, <1>2, PacketKinds

LEMMA AdoptStepType == AdoptStep \in [Incoming -> [Journals -> Journals]]
<1>1. \A st \in Journals, p \in Incoming : Adopted(st, p) \in Journals
  BY AdoptedParts
<1> QED
  BY <1>1 DEF AdoptStep

LEMMA AdoptFold ==
    ASSUME NEW st \in Journals, NEW q \in Seq(Incoming)
    PROVE  FoldLeft(Adopted, st, q) = Result(Journals, AdoptStep, st, q)
<1> DEFINE n == Len(q)
           Eq(g) == g = [s \in SUBSET (DOMAIN q) |->
                           IF s = {} THEN st
                           ELSE Adopted(g[s \ {Max(s)}], q[Max(s)])]
           c == CHOOSE g : Eq(g)
<1>1. FoldLeft(Adopted, st, q) = c[DOMAIN q]
  BY DEF FoldLeft, MapThenFoldSet
<1>2. n \in Nat /\ DOMAIN q = 1 .. n
  OBVIOUS
<1>3. \A s \in SUBSET (1 .. n) : s # {} =>
         Max(s) \in s /\ q[Max(s)] \in Incoming /\ s \ {Max(s)} \in SUBSET (1 .. n)
  <2> SUFFICES ASSUME NEW s \in SUBSET (1 .. n), s # {}
               PROVE  Max(s) \in s /\ q[Max(s)] \in Incoming
                      /\ s \ {Max(s)} \in SUBSET (1 .. n)
    OBVIOUS
  <2>1. Max(s) \in s
    <3> HIDE DEF n
    <3> QED
      BY <1>2, MaxOf
  <2>2. \A i \in 1 .. n : q[i] \in Incoming
    OBVIOUS
  <2> HIDE DEF n
  <2> QED
    BY <2>1, <2>2
<1>4. PICK g : Folds(n, g, Journals, AdoptStep, st, q)
  BY AdoptStepType, FoldingFunction
<1>5. /\ g \in [SUBSET (1 .. n) -> Journals] /\ g[{}] = st
      /\ \A s \in SUBSET (1 .. n) :
            s # {} => g[s] = AdoptStep[q[Max(s)]][g[s \ {Max(s)}]]
  BY <1>4 DEF Folds
<1>6. Eq(g)
  <2> DEFINE body(s) == IF s = {} THEN st ELSE Adopted(g[s \ {Max(s)}], q[Max(s)])
  <2>1. ASSUME NEW s \in SUBSET (1 .. n) PROVE g[s] = body(s)
    <3>1. CASE s = {}
      BY <1>5, <3>1
    <3>2. CASE s # {}
      <4>1. q[Max(s)] \in Incoming /\ g[s \ {Max(s)}] \in Journals
        BY <1>3, <1>5, <3>2
      <4> QED
        BY <1>5, <3>2, <4>1 DEF AdoptStep
    <3> QED
      BY <3>1, <3>2
  <2> HIDE DEF body, n
  <2>2. g = [s \in SUBSET (1 .. n) |-> body(s)]
    BY <1>5, <2>1
  <2> QED
    BY <1>2, <2>2 DEF body
<1>7. Eq(c)
  <2> HIDE DEF Eq
  <2> QED
    BY <1>6
<1> HIDE DEF c, n
<1>8. \A s \in SUBSET (1 .. n) :
         c[s] = IF s = {} THEN st ELSE Adopted(c[s \ {Max(s)}], q[Max(s)])
  BY <1>2, <1>7
<1>9. c[{}] = st
  BY <1>8
<1>10. \A s \in SUBSET (1 .. n) :
          s # {} /\ c[s \ {Max(s)}] \in Journals =>
             c[s] = AdoptStep[q[Max(s)]][c[s \ {Max(s)}]]
  <2> SUFFICES ASSUME NEW s \in SUBSET (1 .. n), s # {}, c[s \ {Max(s)}] \in Journals
               PROVE  c[s] = AdoptStep[q[Max(s)]][c[s \ {Max(s)}]]
    OBVIOUS
  <2>1. c[s] = Adopted(c[s \ {Max(s)}], q[Max(s)])
    BY <1>8
  <2>2. q[Max(s)] \in Incoming
    BY <1>3
  <2> QED
    BY <2>1, <2>2 DEF AdoptStep
<1>11. c[1 .. n] = Result(Journals, AdoptStep, st, q)
  <2>1. FoldsIn(c, Journals, AdoptStep, st, q)
    BY <1>9, <1>10 DEF n, FoldsIn
  <2>2. c[1 .. Len(q)] = Result(Journals, AdoptStep, st, q)
    BY <2>1, AdoptStepType, FoldValue
  <2> QED
    BY <2>2 DEF n
<1> QED
  BY <1>1, <1>2, <1>11

\* A journal that nothing has been written to
Blank(h) == [http |-> h, versions |-> <<>>]

\* What the packets of q make of a store, and the versions it goes through
Journal(h, q) == Result(Journals, AdoptStep, Blank(h), q)

\* The last version, or the store itself when there is none
Newest(h, v) == IF v = <<>> THEN h.sessions ELSE v[Len(v)]

LEMMA BlankType == ASSUME NEW h \in HttpStore PROVE Blank(h) \in Journals
BY DEF Blank, Journals

(***************************************************************************)
(* The last of the versions is what the store ends up with.                *)
(***************************************************************************)
LEMMA JournalEnds ==
    ASSUME NEW h \in HttpStore, NEW q \in Seq(Incoming)
    PROVE  /\ Journal(h, q) \in Journals
           /\ Journal(h, q).http = Result(HttpStore, HttpStep, h, q)
           /\ Newest(h, Journal(h, q).versions) = Journal(h, q).http.sessions
<1> DEFINE st == Blank(h)
           n == Len(q)
           W == {s \in Journals : Newest(h, s.versions) = s.http.sessions}
<1>1. st \in Journals /\ st.http = h /\ st.versions = <<>>
  BY BlankType DEF Blank
<1>2. n \in Nat /\ \A i \in 0 .. n - 1 : i + 1 \in 1 .. n /\ q[i + 1] \in Incoming
  OBVIOUS
<1> HIDE DEF st
<1>3. st \in W
  BY <1>1 DEF Newest
<1>4. ASSUME NEW p \in Incoming, NEW w \in W PROVE AdoptStep[p][w] \in W
  <2>1. w \in Journals /\ w.versions \in Seq(Sessions) /\ AdoptStep[p][w] = Adopted(w, p)
    BY DEF AdoptStep, Journals
  <2>2. CASE p.type # "HTTP_SYNC"
    <3>1. Adopted(w, p) = w
      BY <2>2 DEF Adopted
    <3> QED
      BY <2>1, <3>1
  <2>3. CASE p.type = "HTTP_SYNC"
    <3> DEFINE s == HttpStep[p][w.http].sessions
    <3>1. /\ Adopted(w, p) \in Journals /\ Adopted(w, p).http.sessions = s
          /\ Adopted(w, p).versions = Append(w.versions, s)
      BY <2>1, <2>3, AdoptedParts
    <3> HIDE DEF s
    <3>2. Append(w.versions, s) # <<>>
          /\ Append(w.versions, s)[Len(Append(w.versions, s))] = s
      BY <2>1
    <3> QED
      BY <2>1, <3>1, <3>2 DEF Newest
  <2> QED
    BY <2>2, <2>3
<1> HIDE DEF W
<1>5. Result(Journals, AdoptStep, st, q) \in W
  <2>1. W \in SUBSET Journals
    BY DEF W
  <2>2. \A i \in 1 .. Len(q) : \A w \in W : AdoptStep[q[i]][w] \in W
    BY <1>4
  <2> QED
    BY <1>3, <2>1, <2>2, AdoptStepType, ResultKeeps
<1>6. PICK g : IsRun(g, Journals, AdoptStep, st, q)
  BY <1>1, AdoptStepType, RunExists
<1>7. /\ g \in [0 .. n -> Journals] /\ g[0] = st
      /\ \A i \in 0 .. n - 1 : g[i + 1] = AdoptStep[q[i + 1]][g[i]]
  BY <1>6 DEF IsRun
<1>8. Result(Journals, AdoptStep, st, q) = g[n]
  BY <1>1, <1>6, AdoptStepType, ResultRun
<1> DEFINE hs == [i \in 0 .. n |-> g[i].http]
<1>9. \A i \in 0 .. n : g[i].http \in HttpStore
  BY <1>7 DEF Journals
<1>10. \A i \in 0 .. n - 1 : g[i + 1].http = HttpStep[q[i + 1]][g[i].http]
  <2> SUFFICES ASSUME NEW i \in 0 .. n - 1
               PROVE  g[i + 1].http = HttpStep[q[i + 1]][g[i].http]
    OBVIOUS
  <2> HIDE DEF n
  <2>1. g[i] \in Journals /\ q[i + 1] \in Incoming
    BY <1>2, <1>7
  <2>2. g[i + 1] = Adopted(g[i], q[i + 1])
    BY <1>7, <2>1 DEF AdoptStep
  <2> QED
    BY <2>1, <2>2, AdoptedParts
<1>11. IsRun(hs, HttpStore, HttpStep, h, q)
  BY <1>1, <1>2, <1>7, <1>9, <1>10 DEF IsRun
<1>12. hs[n] = g[n].http
  BY <1>2
<1> HIDE DEF hs
<1>13. Result(HttpStore, HttpStep, h, q) = hs[n]
  BY <1>11, StepTypes, ResultRun
<1> QED
  BY <1>5, <1>8, <1>12, <1>13 DEF Journal, st, W

(***************************************************************************)
(* What was written before stays in front.                                 *)
(***************************************************************************)
LEMMA JournalFrom ==
    ASSUME NEW st \in Journals, NEW q \in Seq(Incoming)
    PROVE  Result(Journals, AdoptStep, st, q).versions =
              st.versions \o Journal(st.http, q).versions
<1> DEFINE n == Len(q)
           v == st.versions
           b == Blank(st.http)
<1>1. n \in Nat /\ \A i \in 0 .. n - 1 : i + 1 \in 1 .. n /\ q[i + 1] \in Incoming
  OBVIOUS
<1>2. /\ b \in Journals /\ b.http = st.http /\ b.versions = <<>>
      /\ v \in Seq(Sessions) /\ st = [http |-> st.http, versions |-> v]
  BY BlankType DEF Blank, Journals
<1> HIDE DEF v, b
<1>3. PICK g : IsRun(g, Journals, AdoptStep, b, q)
  BY <1>2, AdoptStepType, RunExists
<1>4. /\ g \in [0 .. n -> Journals] /\ g[0] = b
      /\ \A i \in 0 .. n - 1 : g[i + 1] = AdoptStep[q[i + 1]][g[i]]
  BY <1>3 DEF IsRun
<1>5. Journal(st.http, q) = g[n]
  BY <1>2, <1>3, AdoptStepType, ResultRun DEF Journal, b
<1> DEFINE With(s) == [http |-> s.http, versions |-> v \o s.versions]
           gs == [i \in 0 .. n |-> With(g[i])]
<1>6. ASSUME NEW s \in Journals PROVE With(s) \in Journals
  BY <1>2, ConcatType DEF Journals
<1>7. ASSUME NEW s \in Journals, NEW p \in Incoming
      PROVE  With(Adopted(s, p)) = AdoptStep[p][With(s)]
  <2>1. With(s) \in Journals /\ AdoptStep[p][With(s)] = Adopted(With(s), p)
    BY <1>6 DEF AdoptStep
  <2>2. /\ With(s).http = s.http /\ With(s).versions = v \o s.versions
        /\ s.versions \in Seq(Sessions) /\ s.http \in HttpStore
    BY DEF Journals
  <2>3. CASE p.type # "HTTP_SYNC"
    BY <2>1, <2>3 DEF Adopted
  <2>4. CASE p.type = "HTTP_SYNC"
    <3> DEFINE x == HttpStep[p][s.http].sessions
               w == With(s)
    <3>1. /\ Adopted(s, p) \in Journals /\ Adopted(s, p).http = HttpStep[p][s.http]
          /\ Adopted(s, p).versions = Append(s.versions, x)
      BY <2>4, AdoptedParts
    <3>2. /\ Adopted(w, p) \in Journals /\ Adopted(w, p).http = HttpStep[p][s.http]
          /\ Adopted(w, p).versions = Append(v \o s.versions, x)
      <4> HIDE DEF w
      <4>1. w \in Journals /\ w.http = s.http /\ w.versions = v \o s.versions
        BY <2>1, <2>2 DEF w
      <4> QED
        BY <2>4, <4>1, AdoptedParts
    <3>3. x \in Sessions
      <4>1. HttpStep[p][s.http] \in HttpStore
        BY <2>2, StepTypes
      <4> QED
        BY <4>1 DEF HttpStore, Sessions
    <3>4. v \o Append(s.versions, x) = Append(v \o s.versions, x)
      <4> HIDE DEF x
      <4> QED
        BY <1>2, <2>2, <3>3, ConcatAppend
    <3>5. \A a \in Journals : a = [http |-> a.http, versions |-> a.versions]
      BY DEF Journals
    <3>6. Adopted(w, p) = [http |-> HttpStep[p][s.http], versions |-> Append(v \o s.versions, x)]
      BY <3>2, <3>5
    <3>7. With(Adopted(s, p)) =
             [http |-> HttpStep[p][s.http], versions |-> v \o Append(s.versions, x)]
      BY <3>1
    <3> QED
      BY <2>1, <3>4, <3>6, <3>7
  <2> QED
    BY <2>3, <2>4
<1>8. IsRun(gs, Journals, AdoptStep, st, q)
  <2>1. gs \in [0 .. n -> Journals]
    BY <1>4, <1>6
  <2>2. gs[0] = st
    <3>1. gs[0] = With(b)
      <4>1. 0 \in 0 .. n /\ g[0] = b
        BY <1>1, <1>4
      <4> HIDE DEF With, n
      <4> QED
        BY <4>1
    <3>2. v \o <<>> = v
      BY <1>2, ConcatEmpty
    <3> QED
      BY <1>2, <3>1, <3>2
  <2>3. ASSUME NEW i \in 0 .. n - 1 PROVE gs[i + 1] = AdoptStep[q[i + 1]][gs[i]]
    <3> HIDE DEF With, n, gs
    <3>1. /\ i \in 0 .. n /\ i + 1 \in 0 .. n /\ g[i] \in Journals
          /\ q[i + 1] \in Incoming /\ g[i + 1] = AdoptStep[q[i + 1]][g[i]]
      <4>1. i \in 0 .. n /\ i + 1 \in 0 .. n
        BY <1>1
      <4> QED
        BY <1>1, <1>4, <4>1
    <3>2. g[i + 1] = Adopted(g[i], q[i + 1])
      BY <3>1 DEF AdoptStep
    <3>3. gs[i] = With(g[i]) /\ gs[i + 1] = With(g[i + 1])
      BY <3>1 DEF gs
    <3>4. With(Adopted(g[i], q[i + 1])) = AdoptStep[q[i + 1]][With(g[i])]
      BY <1>7, <3>1 DEF With
    <3> QED
      BY <3>2, <3>3, <3>4
  <2> QED
    BY <2>1, <2>2, <2>3 DEF IsRun
<1>9. gs[n] = With(g[n])
  BY <1>1
<1> HIDE DEF gs
<1>10. Result(Journals, AdoptStep, st, q) = gs[n]
  BY <1>8, AdoptStepType, ResultRun
<1>11. With(g[n]).versions = v \o g[n].versions
  OBVIOUS
<1> HIDE DEF With
<1> QED
  BY <1>5, <1>9, <1>10, <1>11 DEF v

-----------------------------------------------------------------------------
\* The steps of the abstract specification

Pending(b) == IF b \in UpToDate THEN Versions(b, sock[b]) ELSE <<>>

\* The step is one of LaggedCopy, or none.
CopyStep == [Copies!CopyNext]_(Copies!copyVars)

LEMMA Leaves ==
    ASSUME TypeOK', http'.sessions = http.sessions, bhttp' = bhttp,
           UpToDate' \subseteq UpToDate,
           \A b \in UpToDate' : Pending(b)' = Pending(b)
    PROVE  CopyStep
<1> PICK B : B = UpToDate \ UpToDate'
  OBVIOUS
<1>0. UpToDate \subseteq Backups
  BY DEF UpToDate
<1>1. \A b \in Backups : bhttp'[b].sessions \in Sessions
  BY DEF TypeOK, ReplTypeOK, HttpStore, Sessions
<1>2. /\ \A b \in Backups \ UpToDate : Pending(b) = <<>>
      /\ \A b \in Backups \ UpToDate' : Pending(b)' = <<>>
  BY DEF Pending
<1>3. CASE B = {}
  <2>1. UpToDate' = UpToDate
    BY <1>3
  <2>2. \A b \in Backups : Pending(b)' = Pending(b)
    BY <1>2, <2>1
  <2> QED
    BY <2>1, <2>2 DEF CopyStep, Copies!copyVars, Pending
<1>4. CASE B # {}
  <2>1. B \in SUBSET Backups /\ B \subseteq UpToDate /\ UpToDate' = UpToDate \ B
    BY <1>0
  <2>2. \A b \in Backups : Pending(b)' = IF b \in B THEN <<>> ELSE Pending(b)
    BY <1>2
  <2>3. Copies!Leave(B)
    BY <1>1, <1>4, <2>1, <2>2 DEF Copies!Leave, Pending, Sessions
  <2>4. \E D \in SUBSET Backups : Copies!Leave(D)
    BY <2>1, <2>3
  <2> QED
    BY <2>4 DEF CopyStep, Copies!CopyNext
<1> QED
  BY <1>3, <1>4

LEMMA Stutters ==
    ASSUME TypeOK', http'.sessions = http.sessions, bhttp' = bhttp,
           UpToDate' = UpToDate, \A b \in UpToDate : Pending(b)' = Pending(b)
    PROVE  CopyStep
BY Leaves

LEMMA Writes ==
    ASSUME TypeOK', bhttp' = bhttp, UpToDate' = UpToDate,
           \A b \in UpToDate : Pending(b)' = Append(Pending(b), http'.sessions)
    PROVE  CopyStep
<1>1. http'.sessions \in Sessions
  BY DEF TypeOK, ReplTypeOK, HttpStore, Sessions
<1>2. \A b \in Backups :
         Pending(b)' = IF b \in UpToDate THEN Append(Pending(b), http'.sessions)
                                         ELSE Pending(b)
  BY DEF Pending
<1>3. Copies!Write
  BY <1>1, <1>2 DEF Copies!Write, Pending, Sessions
<1> QED
  BY <1>3 DEF CopyStep, Copies!CopyNext

LEMMA Joins ==
    ASSUME http'.sessions = http.sessions, bhttp' = bhttp,
           NEW d \in Backups, d \notin UpToDate, UpToDate' = UpToDate \cup {d},
           \A b \in UpToDate : Pending(b)' = Pending(b),
           \A b \in UpToDate' : Pending(b)' \in Seq(Sessions),
           Newest(bhttp'[d], Pending(d)') = http.sessions
    PROVE  CopyStep
<1>1. \A b \in Backups \ {d} : Pending(b)' = Pending(b)
  BY DEF Pending
<1>2. \A b \in Backups : Pending(b)' \in Seq(Sessions)
  <2>1. \A b \in Backups \ UpToDate' : Pending(b)' = <<>>
    BY DEF Pending
  <2>2. <<>> \in Seq(Sessions)
    OBVIOUS
  <2> QED
    BY <2>1, <2>2
<1>3. Copies!Latest(d)' = Newest(bhttp'[d], Pending(d)')
  BY DEF Copies!Latest, Newest, Pending
<1>4. Copies!Follow(d)
  BY <1>1, <1>2, <1>3 DEF Copies!Follow, Pending, Sessions
<1> QED
  BY <1>4 DEF CopyStep, Copies!CopyNext

LEMMA Adopts ==
    ASSUME http'.sessions = http.sessions, UpToDate' = UpToDate,
           NEW d \in UpToDate, \A b \in Backups \ {d} : bhttp'[b] = bhttp[b],
           \A b \in UpToDate \ {d} : Pending(b)' = Pending(b),
           Pending(d) # <<>>, bhttp'[d].sessions = Head(Pending(d)),
           Pending(d)' = Tail(Pending(d))
    PROVE  CopyStep
<1>0. d \in Backups
  BY DEF UpToDate
<1>1. \A b \in Backups \ {d} : Pending(b)' = Pending(b)
  BY DEF Pending
<1>2. Copies!Adopt(d)
  BY <1>0, <1>1 DEF Copies!Adopt, Pending
<1> QED
  BY <1>0, <1>2 DEF CopyStep, Copies!CopyNext

LEMMA Loads ==
    ASSUME TypeOK', http'.sessions = http.sessions, UpToDate' = UpToDate,
           NEW d \in Backups, d \notin UpToDate,
           \A b \in Backups \ {d} : bhttp'[b] = bhttp[b],
           \A b \in UpToDate : Pending(b)' = Pending(b)
    PROVE  CopyStep
<1>1. bhttp'[d].sessions \in Sessions
  BY DEF TypeOK, ReplTypeOK, HttpStore, Sessions
<1>2. \A b \in Backups : Pending(b)' = Pending(b)
  BY DEF Pending
<1>3. Copies!Load(d)
  BY <1>1, <1>2 DEF Copies!Load, Pending, Sessions
<1> QED
  BY <1>3 DEF CopyStep, Copies!CopyNext

-----------------------------------------------------------------------------
\* What a step does to the versions

LEMMA VersionsNow ==
    ASSUME TypeOK, SendGoal, NEW b \in Backups, NEW c \in Conns
    PROVE  /\ Versions(b, c) = Journal(bhttp[b], Coming(b, c)).versions
           /\ Versions(b, c) \in Seq(Sessions)
           /\ Newest(bhttp[b], Versions(b, c)) = WillHold(b, c).http.sessions
<1> DEFINE q == Coming(b, c)
           h == bhttp[b]
<1>1. /\ q \in Seq(Incoming) /\ h \in HttpStore
      /\ WillHold(b, c).http = Result(HttpStore, HttpStep, h, q)
  BY HoldNow
<1>2. Versions(b, c) = FoldLeft(Adopted, Blank(h), q).versions
  BY DEF Versions, Blank
<1> HIDE DEF q, h
<1>3. FoldLeft(Adopted, Blank(h), q) = Journal(h, q)
  BY <1>1, BlankType, AdoptFold DEF Journal
<1>4. /\ Journal(h, q) \in Journals
      /\ Journal(h, q).http = Result(HttpStore, HttpStep, h, q)
      /\ Newest(h, Journal(h, q).versions) = Journal(h, q).http.sessions
  BY <1>1, JournalEnds
<1>5. Journal(h, q).versions \in Seq(Sessions)
  BY <1>4 DEF Journals
<1> QED
  BY <1>1, <1>2, <1>3, <1>4, <1>5 DEF q, h

LEMMA VersionsNext ==
    ASSUME TypeOK', NEW b \in Backups, NEW c \in Conns, Coming(b, c)' \in Seq(Incoming)
    PROVE  /\ Versions(b, c)' = Journal(bhttp'[b], Coming(b, c)').versions
           /\ Versions(b, c)' \in Seq(Sessions)
           /\ Newest(bhttp'[b], Versions(b, c)') = WillHold(b, c)'.http.sessions
<1> DEFINE q == Coming(b, c)'
           h == bhttp'[b]
<1>1. /\ q \in Seq(Incoming) /\ h \in HttpStore
      /\ WillHold(b, c)'.http = Result(HttpStore, HttpStep, h, q)
  BY HoldNext DEF TypeOK, ReplTypeOK
<1>2. Versions(b, c)' = FoldLeft(Adopted, Blank(h), q).versions
  BY DEF Versions, Blank
<1> HIDE DEF q, h
<1>3. FoldLeft(Adopted, Blank(h), q) = Journal(h, q)
  BY <1>1, BlankType, AdoptFold DEF Journal
<1>4. /\ Journal(h, q) \in Journals
      /\ Journal(h, q).http = Result(HttpStore, HttpStep, h, q)
      /\ Newest(h, Journal(h, q).versions) = Journal(h, q).http.sessions
  BY <1>1, JournalEnds
<1>5. Journal(h, q).versions \in Seq(Sessions)
  BY <1>4 DEF Journals
<1> QED
  BY <1>1, <1>2, <1>3, <1>4, <1>5 DEF q, h

LEMMA VersionsSame ==
    ASSUME NEW b \in Backups, NEW c \in Conns, Coming(b, c)' = Coming(b, c),
           bhttp'[b] = bhttp[b]
    PROVE  Versions(b, c)' = Versions(b, c)
BY DEF Versions

LEMMA PendingNext ==
    ASSUME NEW b \in UpToDate', NEW c \in Conns, sock'[b] = c
    PROVE  Pending(b)' = Versions(b, c)'
BY DEF Pending, Versions, Coming

LEMMA VersionsSent ==
    ASSUME TypeOK, TypeOK', SendGoal, NEW b \in Backups, NEW c \in Conns,
           NEW p \in Packets, Coming(b, c)' = Append(Coming(b, c), OnWire(p)),
           bhttp'[b] = bhttp[b]
    PROVE  Versions(b, c)' =
              IF p.type = "HTTP_SYNC"
              THEN Append(Versions(b, c), WillHold(b, c)'.http.sessions)
              ELSE Versions(b, c)
<1> DEFINE q == Coming(b, c)
           h == bhttp[b]
           w == OnWire(p)
           st == Journal(h, q)
<1>1. w \in Incoming /\ w.type = p.type
  BY OnWireType DEF Incoming, OnWire, Packets, HttpPackets, RecentPackets
<1>2. q \in Seq(Incoming) /\ h \in HttpStore /\ Versions(b, c) = st.versions
  BY HoldNow, VersionsNow
<1>3. Append(q, w) \in Seq(Incoming)
  BY <1>1, <1>2
<1>4. /\ Versions(b, c)' = Journal(h, Append(q, w)).versions
      /\ WillHold(b, c)'.http = Result(HttpStore, HttpStep, h, Append(q, w))
  BY <1>3, HoldNext, VersionsNext
<1> HIDE DEF q, h, w
<1>5. /\ st \in Journals /\ Journal(h, Append(q, w)) = Adopted(st, w)
      /\ Journal(h, Append(q, w)).http = Result(HttpStore, HttpStep, h, Append(q, w))
  <2>1. Journal(h, Append(q, w)) = AdoptStep[w][st]
    BY <1>1, <1>2, BlankType, AdoptStepType, ResultAppend DEF Journal
  <2>2. st \in Journals
    BY <1>2, JournalEnds
  <2> HIDE DEF st
  <2> QED
    BY <1>1, <1>2, <1>3, <2>1, <2>2, JournalEnds DEF AdoptStep
<1> HIDE DEF st
<1>6. /\ Adopted(st, w).http = HttpStep[w][st.http]
      /\ Adopted(st, w).versions = IF w.type = "HTTP_SYNC"
                                   THEN Append(st.versions, HttpStep[w][st.http].sessions)
                                   ELSE st.versions
  BY <1>1, <1>5, AdoptedParts
<1> QED
  BY <1>1, <1>2, <1>4, <1>5, <1>6

LEMMA VersionsHandled ==
    ASSUME TypeOK, TypeOK', SendGoal, NEW b \in Backups, NEW c \in Conns, HandlePacket(b)
    PROVE  \/ /\ Versions(b, c) # <<>> /\ bhttp'[b].sessions = Head(Versions(b, c))
              /\ Versions(b, c)' = Tail(Versions(b, c))
           \/ bhttp'[b] = bhttp[b] /\ Versions(b, c)' = Versions(b, c)
<1> DEFINE q == Coming(b, c)
           h == bhttp[b]
           g == bhttp'[b]
           p == Head(q)
<1>1. /\ q \in Seq(Incoming) /\ h \in HttpStore /\ g \in HttpStore
      /\ Versions(b, c) = Journal(h, q).versions
  BY HoldNow, VersionsNow DEF TypeOK, ReplTypeOK
<1>2. q # <<>> /\ p = Head(queue[b]) /\ Coming(b, c)' = Tail(q)
  BY ComingHandled
<1>3. p \in Incoming /\ Tail(q) \in Seq(Incoming)
  BY <1>1, <1>2, HeadTailType
<1>4. Versions(b, c)' = Journal(g, Tail(q)).versions
  BY <1>2, <1>3, VersionsNext
<1>5. g = HttpStep[p][h]
  <2>1. bhttp \in [Backups -> HttpStore]
    BY DEF TypeOK, ReplTypeOK
  <2>2. HttpStep[p][h] = IF p.type = "HTTP_SYNC" THEN apply_http_action(h, p) ELSE h
    <3> HIDE DEF p, h
    <3> QED
      BY <1>1, <1>3 DEF HttpStep
  <2> HIDE DEF p, q
  <2> QED
    BY <1>2, <2>1, <2>2 DEF HandlePacket
<1> HIDE DEF q, h, g
<1> DEFINE st == Adopted(Blank(h), p)
<1>6. Blank(h) \in Journals /\ Blank(h).http = h /\ Blank(h).versions = <<>>
  BY <1>1, BlankType DEF Blank
<1>7. /\ st \in Journals /\ st.http = g
      /\ st.versions = IF p.type = "HTTP_SYNC" THEN Append(<<>>, g.sessions) ELSE <<>>
  BY <1>3, <1>5, <1>6, AdoptedParts
<1>8. Journal(h, q) = Result(Journals, AdoptStep, st, Tail(q))
  <2>1. AdoptStep[p][Blank(h)] = st
    BY <1>3, <1>6 DEF AdoptStep
  <2> HIDE DEF st
  <2> QED
    BY <1>1, <1>2, <1>6, <2>1, AdoptStepType, ResultTail DEF Journal
<1> HIDE DEF st, p
<1> DEFINE v == Journal(g, Tail(q)).versions
<1>9. Journal(h, q).versions = st.versions \o v
  BY <1>3, <1>7, <1>8, JournalFrom
<1>10. v \in Seq(Sessions) /\ g.sessions \in Sessions
  <2>1. Journal(g, Tail(q)) \in Journals
    BY <1>1, <1>3, JournalEnds
  <2> QED
    BY <1>1, <2>1 DEF Journals, HttpStore, Sessions
<1> HIDE DEF v
<1>11. CASE p.type = "HTTP_SYNC"
  <2>1. Append(<<>>, g.sessions) = <<g.sessions>> /\ <<g.sessions>> \in Seq(Sessions)
    BY <1>10
  <2>2. /\ <<g.sessions>> \o v # <<>> /\ Head(<<g.sessions>> \o v) = g.sessions
        /\ Tail(<<g.sessions>> \o v) = v
    BY <1>10
  <2> QED
    BY <1>1, <1>4, <1>7, <1>9, <1>11, <2>1, <2>2 DEF v, g
<1>12. CASE p.type # "HTTP_SYNC"
  <2>1. <<>> \o v = v
    BY <1>10
  <2>2. g = h
    BY <1>1, <1>3, <1>5, <1>12 DEF HttpStep
  <2> QED
    BY <1>1, <1>4, <1>7, <1>9, <1>12, <2>1, <2>2 DEF v, g, h
<1> QED
  BY <1>11, <1>12

-----------------------------------------------------------------------------
\* Who follows, when nothing fails

InStep == {b \in Backups : sock[b] \in served /\ ~(outbox # {} /\ dest = sock[b])}

\* A backup that follows has what the master has, once it has caught up.
Exact ==
    \A b \in UpToDate : WillHold(b, sock[b]).http.sessions = http.sessions

LEMMA ServedLinked ==
    ASSUME TypeOK, CountInv, NothingFails, DialsOnce, NEW b \in Backups, sock[b] \in served
    PROVE  /\ sock[b] \in Conns /\ sock[b] \in connected_nodes /\ sock[b] # rx.conn
           /\ Linked(b, sock[b])
<1>1. sock[b] \in Conns /\ NoConn \notin Conns
  <2>1. served \in SUBSET Conns
    BY DEF TypeOK, ReplTypeOK
  <2>2. NoConn \notin Conns
    BY DEF Conns, NoConn
  <2> QED
    BY <2>1, <2>2
<1>2. Announced(sock[b])
  BY DEF CountInv, ServedAnnounced
<1>3. sock[b] \in connected_nodes
  BY <1>1, <1>2 DEF Announced, NothingFails, CountInv, NodesOpen
<1>4. sock[b] # rx.conn
  <2>1. rx \in {Polling} \cup [at: {"accepted", "closing"}, conn: Conns]
    BY DEF TypeOK, ConnTypeOK
  <2> QED
    BY <1>1, <1>2, <2>1 DEF Announced, NothingFails, Polling
<1> QED
  BY <1>1, <1>3, <1>4, LinkedNow

LEMMA WhoFollows ==
    ASSUME TypeOK, CountInv, CalmInv
    PROVE  UpToDate = InStep
<1> USE DEF CalmInv
<1>1. ASSUME NEW b \in UpToDate PROVE b \in InStep
  BY DEF UpToDate, InStep, Synced, Healthy
<1>2. ASSUME NEW b \in InStep PROVE b \in UpToDate
  <2>1. b \in Backups /\ sock[b] \in served
    BY DEF InStep
  <2>2. sock[b] \in Conns \ skipped /\ Synced(b, sock[b])
    BY <2>1, ServedLinked DEF Linked, Synced, Healthy, NothingFails
  <2> QED
    BY <2>1, <2>2 DEF InStep, UpToDate
<1> QED
  BY <1>1, <1>2 DEF UpToDate, InStep

LEMMA ExactFollows ==
    ASSUME SmallIds, SmallBackends, TypeOK, SendGoal, CalmInv, NoSessionLost
    PROVE  Exact
<1> SUFFICES ASSUME NEW b \in UpToDate
             PROVE  WillHold(b, sock[b]).http.sessions = http.sessions
  BY DEF Exact
<1>1. /\ b \in Backups /\ sock[b] \in Conns
      /\ Synced(b, sock[b]) /\ ~(outbox # {} /\ dest = sock[b])
  BY DEF UpToDate, Synced, Healthy
<1> QED
  BY <1>1, ExactNow

LagInv ==
    /\ TypeOK /\ CountInv /\ OwnSock /\ SendGoal /\ CalmInv
    /\ UpToDate = InStep /\ Exact

-----------------------------------------------------------------------------
\* The steps of the protocol

(***************************************************************************)
(* A step that is not a broadcast leaves what is on its way to a follower  *)
(* as it is, unless the follower takes a packet of its queue.              *)
(***************************************************************************)
Broadcasts == FarmEvent \/ HttpUpdate \/ RecentUpdate \/ (Deliver /\ SendNext)

LEMMA ListedStays ==
    ASSUME Calm, LagInv, [Next]_vars
    PROVE  connected_nodes \subseteq connected_nodes' /\ served \subseteq served'
<1>1. CASE CalmWorker
  <2>1. UNCHANGED connected_nodes
    BY <1>1, WorkerFrame DEF CalmWorker
  <2>2. served \subseteq served'
    BY <1>1 DEF CalmWorker, MasterWorker, HandleRequest, HandleHttpSync, NoRequest,
       WorkerEnds, Sleep, DropHttp, EnterHttp, FarmEvent, HttpUpdate, HttpDone,
       EnterRecent, RecentUpdate, RecentDone, Deliver
  <2> QED
    BY <2>1, <2>2
<1>2. CASE CalmReceive
  BY <1>2 DEF CalmReceive, AcceptNode, AnnounceNode, ReadRequest
<1>3. CASE MasterStart \/ UNCHANGED vars
  BY <1>3 DEF MasterStart, StartServer, vars, connVars, serverVars
<1>4. CASE ListenersAndCommands
  BY <1>4, ControlFrame DEF connVars, serverVars
<1>5. ASSUME NEW b \in Backups, CalmBackup(b)
      PROVE  UNCHANGED <<connected_nodes, served>>
  BY <1>5, CalmBackupFrame
<1> QED
  BY <1>1, <1>2, <1>3, <1>4, <1>5, CalmKinds DEF LagInv, CalmInv

LEMMA SockStays ==
    ASSUME Calm, LagInv, [Next]_vars, NEW b \in Backups
    PROVE  \/ sock'[b] = sock[b]
           \/ sock[b] = NoConn /\ sock'[b] \notin served /\ UNCHANGED served
<1>0. /\ sock \in [Backups -> Conns \cup {NoConn}] /\ made \in 0 .. MaxConns
      /\ MaxConns \in Nat /\ served \subseteq Conns
      /\ bpc[b] \in {"dial", "redial"} => sock[b] = NoConn
  BY ConnectionAssumption
  DEF LagInv, TypeOK, ConnTypeOK, ReplTypeOK, CalmInv, DialsOnce
<1>1. ASSUME NEW d \in Backups, Dial(d)
      PROVE  \/ sock'[b] = sock[b]
             \/ sock[b] = NoConn /\ sock'[b] \notin served /\ UNCHANGED served
  <2>1. /\ sock' = [sock EXCEPT ![d] = made + 1] /\ UNCHANGED served
        /\ bpc[d] \in {"dial", "redial"}
    BY <1>1 DEF Dial, Connect
  <2>2. made + 1 \notin served
    <3>1. ASSUME made + 1 \in served PROVE FALSE
      <4>1. made + 1 \in Conns /\ Announced(made + 1)
        BY <1>0, <3>1 DEF LagInv, CountInv, ServedAnnounced
      <4>2. srvEnd[made + 1] = "none"
        BY <1>0, <4>1 DEF LagInv, CountInv, NodesOpen
      <4> QED
        BY <4>1, <4>2 DEF Announced
    <3> QED
      BY <3>1
  <2> QED
    BY <1>0, <2>1, <2>2
<1>2. CASE UNCHANGED sock
  BY <1>2
<1>3. CalmWorker \/ CalmReceive \/ MasterStart \/ ListenersAndCommands
      \/ UNCHANGED vars => UNCHANGED sock
  BY WorkerFrame, ControlFrame
  DEF CalmWorker, CalmReceive, AcceptNode, AnnounceNode, ReadRequest, MasterStart,
      StartServer, vars, connVars, clientVars
<1> QED
  BY <1>1, <1>2, <1>3, CalmKinds, CalmBackupFrame DEF LagInv, CalmInv

LEMMA FollowsOn ==
    ASSUME Calm, LagInv, LagInv', [Next]_vars, NEW b \in UpToDate
    PROVE  /\ b \in Backups /\ sock[b] \in Conns /\ sock'[b] = sock[b]
           /\ sock[b] \in connected_nodes /\ sock[b] \in served
           /\ Linked(b, sock[b]) /\ (\A c : c = sock[b] => Linked(b, c)')
           /\ sock[b] \notin skipped'
<1> USE DEF LagInv, CalmInv
<1>1. b \in Backups /\ sock[b] \in served
  BY DEF InStep
<1>2. /\ sock[b] \in Conns /\ sock[b] \in connected_nodes /\ Linked(b, sock[b])
  BY <1>1, ServedLinked
<1>3. sock'[b] = sock[b]
  BY <1>1, <1>2, SockStays DEF Conns, NoConn
<1>4. PICK c \in Conns : c = sock[b]
  BY <1>2
<1>5. c \in connected_nodes'
  BY <1>2, <1>4, ListedStays
<1>6. Linked(b, c)'
  BY <1>1, <1>3, <1>4, <1>5, LinkedNext
<1> QED
  BY <1>1, <1>2, <1>3, <1>4, <1>6 DEF NothingFails

LEMMA ComingKept ==
    ASSUME Calm, LagInv, LagInv', [Next]_vars, NEW b \in UpToDate, NEW c \in Conns,
           c = sock[b], ~Broadcasts, ~HandlePacket(b)
    PROVE  Coming(b, c)' = Coming(b, c) /\ bhttp'[b] = bhttp[b]
<1> USE DEF LagInv
<1>0. /\ b \in Backups /\ Linked(b, c) /\ Linked(b, c)' /\ c \notin skipped'
      /\ bhttp \in [Backups -> HttpStore]
  BY FollowsOn DEF TypeOK, ReplTypeOK
<1>1. ASSUME UNCHANGED <<queue, down, cur, to, bhttp>>
      PROVE  Coming(b, c)' = Coming(b, c) /\ bhttp'[b] = bhttp[b]
  BY <1>0, <1>1, ComingSame
<1>2. CASE CalmWorker
  <2>0. UNCHANGED <<queue, bhttp>>
    BY <1>2, WorkerFrame DEF CalmWorker
  <2>1. CASE HandleRequest \/ HandleHttpSync \/ NoRequest \/ WorkerEnds \/ Sleep
             \/ DropHttp \/ EnterHttp \/ HttpDone \/ EnterRecent \/ RecentDone
    <3>1. UNCHANGED <<down, cur, to>>
      BY <2>1 DEF HandleRequest, HandleHttpSync, NoRequest, WorkerEnds, Sleep, DropHttp,
           EnterHttp, HttpDone, EnterRecent, RecentDone, connVars, netVars, sendVars
    <3> QED
      BY <1>1, <2>0, <3>1
  <2>2. ASSUME NEW d \in to, HandleSend(d) \/ HandleSendError(d, mpc = "sync")
        PROVE  Coming(b, c)' = Coming(b, c)
    BY <1>0, <2>2, ComingDeliver
  <2> QED
    BY <1>2, <2>0, <2>1, <2>2 DEF CalmWorker, MasterWorker, Deliver, Broadcasts
<1>3. CASE CalmReceive
  <2>1. MasterReceive
    BY <1>3 DEF CalmReceive, MasterReceive, ServerReceive
  <2> QED
    BY <1>0, <2>1, ComingReceive, ReceiveFrame DEF backupVars
<1>4. CASE MasterStart
  BY <1>1, <1>4 DEF MasterStart, StartServer, netVars, sendVars, clientVars, backupVars
<1>5. CASE ListenersAndCommands \/ UNCHANGED vars
  BY <1>1, <1>5, ControlFrame
  DEF vars, connVars, netVars, sendVars, clientVars, backupVars
<1>6. ASSUME NEW d \in Backups, BackupStep(d), CalmBackup(d)
      PROVE  Coming(b, c)' = Coming(b, c) /\ bhttp'[b] = bhttp[b]
  <2>1. Coming(b, c)' = Coming(b, c)
    BY <1>0, <1>6, ComingBackup
  <2>2. bhttp'[b] = bhttp[b]
    BY <1>0, <1>6 DEF CalmBackup, BackupStart, Dial, Dialed, EnterRun, FirstRequest,
       HandlePacket, ReadPacket, backupVars
  <2> QED
    BY <2>1, <2>2
<1> QED
  BY <1>2, <1>3, <1>4, <1>5, <1>6, CalmKinds DEF CalmInv

\* A broadcast adds the version it carries, if it carries one.
LEMMA BroadcastReaches ==
    ASSUME LagInv, LagInv', NEW b \in UpToDate, b \in UpToDate', NEW c \in Conns,
           sock[b] = c, sock'[b] = c, Linked(b, c), cur = NoPacket,
           NEW p \in Packets, Send(p, NoConn), UNCHANGED <<queue, down, bhttp, brecent>>
    PROVE  Pending(b)' = IF p.type = "HTTP_SYNC"
                         THEN Append(Pending(b), http'.sessions) ELSE Pending(b)
<1>0. /\ b \in Backups /\ TypeOK /\ TypeOK' /\ SendGoal /\ c \in connected_nodes
  BY DEF LagInv, UpToDate, Linked
<1>1. Coming(b, c)' = Append(Coming(b, c), OnWire(p))
  BY <1>0, ComingSent DEF Recipients
<1>2. Versions(b, c)' = IF p.type = "HTTP_SYNC"
                        THEN Append(Versions(b, c), WillHold(b, c)'.http.sessions)
                        ELSE Versions(b, c)
  BY <1>0, <1>1, VersionsSent
<1>3. WillHold(b, c)'.http.sessions = http'.sessions
  <2>1. WillHold(b, sock[b])'.http.sessions = http'.sessions
    BY DEF LagInv, Exact
  <2>2. WillHold(b, sock[b])' = WillHold(b, c)'
    BY DEF WillHold, Coming
  <2> QED
    BY <2>1, <2>2
<1>4. Pending(b) = Versions(b, c) /\ Pending(b)' = Versions(b, c)'
  BY PendingNext DEF Pending
<1> QED
  BY <1>2, <1>3, <1>4

\* The updates, which reach every follower
LEMMA UpdateWrites ==
    ASSUME Calm, LagInv, LagInv', [Next]_vars, FarmEvent \/ HttpUpdate \/ RecentUpdate
    PROVE  CopyStep
<1> USE DEF LagInv
<1>1. /\ cur = NoPacket /\ outbox = {} /\ outbox' = {} /\ served' = served
      /\ UNCHANGED <<queue, down, sock, bhttp, brecent>>
  BY DEF FarmEvent, HttpUpdate, RecentUpdate, Worker, Sending, netVars, clientVars, backupVars
<1>2. UpToDate' = UpToDate
  BY <1>1 DEF InStep
<1>3. ASSUME NEW b \in UpToDate, NEW p \in Packets, Send(p, NoConn)
      PROVE  Pending(b)' = IF p.type = "HTTP_SYNC"
                           THEN Append(Pending(b), http'.sessions) ELSE Pending(b)
  <2>1. PICK c \in Conns : sock[b] = c /\ sock'[b] = c /\ Linked(b, c)
    BY <1>1, FollowsOn
  <2> QED
    BY <1>1, <1>2, <1>3, <2>1, BroadcastReaches
<1>4. ASSUME NEW b \in UpToDate PROVE backup_servers_fd > 0
  <2>1. sock[b] \in served /\ sock[b] \in connected_nodes /\ sock[b] # rx.conn
    BY ServedLinked DEF InStep, CalmInv
  <2> QED
    BY <2>1, CountedServed DEF ServedCounted
<1>5. CASE FarmEvent
  <2> DEFINE p == ClearRequest(Head(httpIn).farm)
  <2>1. p \in Packets /\ Send(p, NoConn) /\ p.type = "HTTP_SYNC"
    BY <1>5, WorkerPackets DEF FarmEvent, SendClear, ClearRequest
  <2> HIDE DEF p
  <2>2. \A b \in UpToDate : Pending(b)' = Append(Pending(b), http'.sessions)
    BY <1>3, <2>1
  <2> QED
    BY <1>1, <1>2, <2>2, Writes
<1>6. CASE HttpUpdate
  <2> DEFINE p == Head(httpIn)
  <2>1. p \in Packets /\ p.type = "HTTP_SYNC"
    BY <1>6, WorkerPackets DEF HttpUpdate
  <2>2. backup_servers_fd > 0 => Send(p, NoConn)
    BY <1>6 DEF HttpUpdate, SendUpdate
  <2> HIDE DEF p
  <2>3. \A b \in UpToDate : Pending(b)' = Append(Pending(b), http'.sessions)
    BY <1>3, <1>4, <2>1, <2>2
  <2> QED
    BY <1>1, <1>2, <2>3, Writes
<1>7. CASE RecentUpdate
  <2> DEFINE p == Head(recentIn)
  <2>1. p \in Packets /\ p.type # "HTTP_SYNC" /\ http' = http
    BY <1>7, WorkerPackets DEF RecentUpdate, RecentPackets
  <2>2. backup_servers_fd > 0 => Send(p, NoConn)
    BY <1>7 DEF RecentUpdate, SendUpdate
  <2> HIDE DEF p
  <2>3. \A b \in UpToDate : Pending(b)' = Pending(b)
    BY <1>3, <1>4, <2>1, <2>2
  <2> QED
    BY <1>1, <1>2, <2>1, <2>3, Stutters
<1> QED
  BY <1>5, <1>6, <1>7

LEMMA ComingTypeNext ==
    ASSUME TypeOK', SendGoal', NEW b \in Backups, NEW c \in Conns
    PROVE  Coming(b, c)' \in Seq(Incoming)
<1>1. queue'[b] \in Seq(Incoming) /\ down'[c] \in Seq(Packets)
  BY DEF TypeOK, ConnTypeOK, Incoming
<1>2. down'[c] \in Seq(Incoming)
  BY <1>1 DEF Incoming
<1>3. c \in to' => OnWire(cur') \in Incoming
  BY OnWireType DEF TypeOK, ConnTypeOK, SendGoal, Incoming
<1>4. <<>> \in Seq(Incoming) /\ (c \in to' => <<OnWire(cur')>> \in Seq(Incoming))
  BY <1>3
<1> QED
  BY <1>1, <1>2, <1>4, ConcatType DEF Coming

\* When the last packet of its snapshot goes out, a backup begins to follow.
LEMMA Catches ==
    ASSUME LagInv, LagInv', UNCHANGED <<http, bhttp, sock>>, UpToDate \subseteq UpToDate',
           \A b \in UpToDate : Pending(b)' = Pending(b),
           \A b \in UpToDate' \ UpToDate : sock'[b] = dest
    PROVE  CopyStep
<1> USE DEF LagInv
<1>1. CASE UpToDate' \subseteq UpToDate
  BY <1>1, Stutters
<1>2. CASE ~(UpToDate' \subseteq UpToDate)
  <2>1. PICK d \in UpToDate' \ UpToDate : TRUE
    BY <1>2
  <2>2. d \in Backups /\ sock'[d] \in Conns /\ sock'[d] # NoConn
    BY <2>1 DEF UpToDate, Synced, Healthy, Conns, NoConn
  <2>3. UpToDate' = UpToDate \cup {d}
    <3>1. ASSUME NEW e \in UpToDate' \ UpToDate PROVE e = d
      <4>1. e \in Backups /\ sock[e] = sock[d] /\ sock[d] # NoConn
        BY <2>1, <2>2 DEF UpToDate
      <4> QED
        BY <2>2, <4>1 DEF OwnSock
    <3> QED
      BY <2>1, <3>1
  <2>4. ASSUME NEW b \in UpToDate'
        PROVE  /\ Pending(b)' \in Seq(Sessions)
               /\ Newest(bhttp'[b], Pending(b)') = http'.sessions
    <3>1. PICK c \in Conns : sock'[b] = c
      BY DEF UpToDate, Synced, Healthy
    <3>2. b \in Backups
      BY DEF UpToDate
    <3>3. Pending(b)' = Versions(b, c)'
      BY <3>1, PendingNext
    <3>4. Coming(b, c)' \in Seq(Incoming)
      BY <3>2, ComingTypeNext
    <3>5. /\ Versions(b, c)' \in Seq(Sessions)
          /\ Newest(bhttp'[b], Versions(b, c)') = WillHold(b, c)'.http.sessions
      BY <3>2, <3>4, VersionsNext
    <3>6. WillHold(b, sock[b])'.http.sessions = http'.sessions
      BY DEF Exact
    <3>7. WillHold(b, sock[b])' = WillHold(b, c)'
      BY <3>1 DEF WillHold, Coming
    <3> QED
      BY <3>3, <3>5, <3>6, <3>7
  <2>5. d \in Backups /\ d \notin UpToDate /\ Newest(bhttp'[d], Pending(d)') = http.sessions
    BY <2>1, <2>2, <2>4
  <2>6. \A b \in UpToDate : Pending(b)' = Pending(b)
    OBVIOUS
  <2> QED
    BY <2>3, <2>4, <2>5, <2>6, Joins
<1> QED
  BY <1>1, <1>2

\* A step that leaves the queue of a backup as it is takes nothing from it.
LEMMA TailShorter ==
    ASSUME NEW T, NEW s \in Seq(T), s # <<>>
    PROVE  Tail(s) # s
<1>1. Len(Tail(s)) = Len(s) - 1
  OBVIOUS
<1>2. Len(Tail(s)) # Len(s)
  <2> DEFINE n == Len(s)
  <2>1. n \in Nat
    OBVIOUS
  <2> HIDE DEF n
  <2>2. n - 1 # n
    BY <2>1
  <2> QED
    BY <1>1, <2>2 DEF n
<1> QED
  BY <1>2, Zenon

LEMMA NotHandled ==
    ASSUME TypeOK, NEW b \in Backups, queue'[b] = queue[b] PROVE ~HandlePacket(b)
<1> SUFFICES ASSUME HandlePacket(b) PROVE FALSE
  OBVIOUS
<1> DEFINE s == queue[b]
           T == Packets \cup {Disconnect}
<1>1. s \in Seq(T) /\ s # <<>> /\ s = Tail(s)
  BY DEF HandlePacket, TypeOK, ConnTypeOK
<1> HIDE DEF s, T
<1> QED
  BY <1>1, TailShorter

\* Nor does the version of a backup that takes nothing change.
LEMMA PendingKept ==
    ASSUME Calm, LagInv, LagInv', [Next]_vars, NEW b \in UpToDate, b \in UpToDate',
           ~Broadcasts, ~HandlePacket(b)
    PROVE  Pending(b)' = Pending(b) /\ bhttp'[b] = bhttp[b]
<1>1. PICK c \in Conns : c = sock[b] /\ sock'[b] = c
  BY FollowsOn
<1>2. Coming(b, c)' = Coming(b, c) /\ bhttp'[b] = bhttp[b]
  BY <1>1, ComingKept
<1>3. b \in Backups
  BY DEF UpToDate
<1>4. Versions(b, c)' = Versions(b, c)
  BY <1>2, <1>3, VersionsSame
<1>5. Pending(b)' = Versions(b, c)'
  BY <1>1, PendingNext
<1>6. Pending(b) = Versions(b, c)
  BY <1>1 DEF Pending
<1> QED
  BY <1>2, <1>4, <1>5, <1>6

\* A packet of a snapshot, which concerns no backup that follows
LEMMA SnapshotCatches ==
    ASSUME Calm, LagInv, LagInv', [Next]_vars, Deliver, SendNext
    PROVE  CopyStep
<1> USE DEF LagInv
<1>1. /\ cur = NoPacket /\ outbox # {} /\ dest' = dest
      /\ UNCHANGED <<queue, down, sock, served, http, bhttp>>
  BY DEF Deliver, SendNext, Send, HandleSend, HandleSendError, netVars, clientVars,
         backupVars, masterVars, storeVars
<1>2. PICK p \in outbox : Send(p, dest)
  BY DEF SendNext
<1>3. p \in Packets
  BY DEF TypeOK, ConnTypeOK
<1>4. dest # NoConn
  BY <1>1 DEF CalmInv, SendsCurrent
<1>5. UpToDate \subseteq UpToDate' /\ \A b \in UpToDate' \ UpToDate : sock'[b] = dest
  BY <1>1 DEF InStep
<1>6. ASSUME NEW b \in UpToDate PROVE Pending(b)' = Pending(b)
  <2>1. PICK c \in Conns : /\ c = sock[b] /\ sock'[b] = c
                           /\ c \in connected_nodes
    BY FollowsOn
  <2>2. c \notin Recipients(dest)
    BY <1>1, <1>4, <2>1 DEF InStep, Recipients
  <2>3. b \in Backups /\ b \in UpToDate'
    BY <1>5 DEF UpToDate
  <2>4. Coming(b, c)' = Coming(b, c)
    BY <1>1, <1>2, <1>3, <2>1, <2>2, <2>3, ComingSent
  <2>5. Versions(b, c)' = Versions(b, c)
    BY <1>1, <2>3, <2>4, VersionsSame
  <2>6. Pending(b)' = Versions(b, c)'
    BY <2>1, <2>3, PendingNext
  <2>7. Pending(b) = Versions(b, c)
    BY <2>1 DEF Pending
  <2> QED
    BY <2>5, <2>6, <2>7
<1> QED
  BY <1>1, <1>5, <1>6, Catches

\* A backup that takes a packet adopts its version if it follows.
LEMMA HandledAdopts ==
    ASSUME Calm, LagInv, LagInv', [Next]_vars, http' = http, ~Broadcasts,
           NEW d \in Backups, HandlePacket(d)
    PROVE  CopyStep
<1> USE DEF LagInv
<1>0. /\ queue \in [Backups -> Seq(Packets \cup {Disconnect})]
      /\ bhttp \in [Backups -> HttpStore] /\ bhttp' \in [Backups -> HttpStore]
  BY DEF TypeOK, ConnTypeOK, ReplTypeOK
<1>1. /\ UNCHANGED <<sock, served, outbox, dest>>
      /\ \A b \in Backups \ {d} : queue'[b] = queue[b] /\ bhttp'[b] = bhttp[b]
  BY <1>0 DEF HandlePacket, sendVars
<1>2. UpToDate' = UpToDate
  BY <1>1 DEF InStep
<1>3. ASSUME NEW b \in UpToDate \ {d} PROVE Pending(b)' = Pending(b)
  <2>1. b \in Backups
    BY DEF UpToDate
  <2>2. ~HandlePacket(b)
    BY <1>1, <2>1, NotHandled
  <2> QED
    BY <1>2, <2>2, PendingKept
<1>4. CASE d \notin UpToDate
  BY <1>1, <1>2, <1>3, <1>4, Loads
<1>5. CASE d \in UpToDate
  <2>1. PICK c \in Conns : c = sock[d] /\ sock'[d] = c
    BY <1>5, FollowsOn
  <2>2. Pending(d) = Versions(d, c)
    BY <1>5, <2>1 DEF Pending
  <2>3. Pending(d)' = Versions(d, c)'
    BY <1>2, <1>5, <2>1, PendingNext
  <2>4. CASE /\ Versions(d, c) # <<>> /\ bhttp'[d].sessions = Head(Versions(d, c))
             /\ Versions(d, c)' = Tail(Versions(d, c))
    BY <1>1, <1>2, <1>3, <1>5, <2>2, <2>3, <2>4, Adopts
  <2>5. CASE bhttp'[d] = bhttp[d] /\ Versions(d, c)' = Versions(d, c)
    <3>1. bhttp' = bhttp
      BY <1>0, <1>1, <2>5
    <3>2. \A b \in UpToDate : Pending(b)' = Pending(b)
      BY <1>3, <2>2, <2>3, <2>5
    <3> QED
      BY <1>2, <3>1, <3>2, Stutters
  <2> QED
    BY <2>4, <2>5, VersionsHandled
<1> QED
  BY <1>4, <1>5

\* Other steps make a backup follow only by answering its request.
LEMMA JoinsAnswered ==
    ASSUME Calm, LagInv, LagInv', [Next]_vars, ~Broadcasts,
           NEW b \in UpToDate', b \notin UpToDate
    PROVE  HandleHttpSync
<1> USE DEF LagInv
<1>1. b \in Backups /\ sock'[b] \in served' /\ ~(outbox' # {} /\ dest' = sock'[b])
  BY DEF InStep
<1>2. sock'[b] = sock[b]
  BY <1>1, SockStays
<1>3. sock[b] \notin served \/ (outbox # {} /\ dest = sock[b])
  BY <1>1 DEF InStep
<1>4. ASSUME UNCHANGED <<served, outbox, dest>> PROVE FALSE
  BY <1>1, <1>2, <1>3, <1>4
<1>5. CASE CalmWorker
  <2>1. CASE HandleRequest
    <3>1. outbox = {} /\ served' = served
      BY <2>1 DEF HandleRequest, Worker, Sending
    <3> QED
      BY <1>1, <1>2, <1>3, <3>1
  <2>2. CASE NoRequest \/ WorkerEnds \/ Sleep \/ EnterHttp \/ HttpDone \/ EnterRecent
             \/ RecentDone
    BY <1>4, <2>2 DEF NoRequest, WorkerEnds, Sleep, EnterHttp, HttpDone, EnterRecent,
       RecentDone, connVars, sendVars
  <2>3. ASSUME NEW c \in to, HandleSend(c), UNCHANGED served PROVE FALSE
    BY <1>4, <2>3 DEF HandleSend
  <2>4. ~\E c \in to : HandleSendError(c, mpc = "sync")
    BY DEF CalmInv, NothingFails, NothingSent, CountInv, NodesOpen, HandleSendError,
           CanSend, TypeOK, ConnTypeOK
  <2>5. ~DropHttp
    BY HttpSame DEF CalmInv
  <2> QED
    BY <1>5, <2>1, <2>2, <2>3, <2>4, <2>5
    DEF CalmWorker, MasterWorker, Deliver, Broadcasts
<1>6. CASE CalmReceive
  BY <1>4, <1>6 DEF CalmReceive, AcceptNode, AnnounceNode, ReadRequest, sendVars
<1>7. CASE MasterStart
  BY <1>4, <1>7 DEF MasterStart, StartServer, sendVars
<1>8. CASE ListenersAndCommands \/ UNCHANGED vars
  BY <1>4, <1>8, ControlFrame DEF vars, connVars, sendVars
<1>9. ASSUME NEW d \in Backups, CalmBackup(d) PROVE FALSE
  BY <1>4, <1>9, CalmBackupFrame DEF sendVars
<1> QED
  BY <1>5, <1>6, <1>7, <1>8, <1>9, CalmKinds DEF CalmInv

\* Only a packet changes a store of a backup.
LEMMA CopiesKept ==
    ASSUME Calm, LagInv, LagInv', [Next]_vars, \A b \in Backups : ~HandlePacket(b)
    PROVE  bhttp' = bhttp
<1>1. CASE CalmWorker
  BY <1>1, WorkerFrame DEF CalmWorker
<1>2. CASE CalmReceive \/ MasterStart \/ ListenersAndCommands \/ UNCHANGED vars
  BY <1>2, ControlFrame DEF CalmReceive, MasterStart, vars, backupVars
<1>3. ASSUME NEW d \in Backups, CalmBackup(d) PROVE bhttp' = bhttp
  BY <1>3 DEF CalmBackup, BackupStart, Dial, Dialed, EnterRun, FirstRequest, backupVars
<1> QED
  BY <1>1, <1>2, <1>3, CalmKinds DEF LagInv, CalmInv

\* The last packet of a snapshot may be one that is not there.
LEMMA AnswerCatches ==
    ASSUME Calm, LagInv, LagInv', [Next]_vars, HandleHttpSync, ~Broadcasts,
           ~(UpToDate' \subseteq UpToDate)
    PROVE  CopyStep
<1> USE DEF LagInv
<1>1. /\ outbox = {} /\ served' = served \cup {dest}
      /\ UNCHANGED <<dest, http, bhttp, sock, queue>>
  BY DEF HandleHttpSync, Worker, Sending, clientVars, storeVars, backupVars
<1>2. outbox' = {}
  BY <1>1 DEF InStep
<1>3. UpToDate \subseteq UpToDate' /\ \A b \in UpToDate' \ UpToDate : sock'[b] = dest
  BY <1>1, <1>2 DEF InStep
<1>4. ASSUME NEW b \in UpToDate PROVE Pending(b)' = Pending(b)
  <2>1. b \in Backups
    BY DEF UpToDate
  <2>2. ~HandlePacket(b)
    BY <1>1, <2>1, NotHandled
  <2> QED
    BY <1>3, <2>2, PendingKept
<1> QED
  BY <1>1, <1>3, <1>4, Catches

LEMMA LagStep ==
    ASSUME Calm, LagInv, LagInv', [Next]_vars
    PROVE  CopyStep
<1> USE DEF LagInv
<1>1. CASE FarmEvent \/ HttpUpdate \/ RecentUpdate
  BY <1>1, UpdateWrites
<1>2. CASE Deliver /\ SendNext
  BY <1>2, SnapshotCatches
<1>3. CASE ~Broadcasts
  <2>1. http' = http
    BY <1>3, HttpSame DEF CalmInv, Broadcasts
  <2>2. ASSUME NEW d \in Backups, HandlePacket(d) PROVE CopyStep
    BY <1>3, <2>1, <2>2, HandledAdopts
  <2>3. CASE \A b \in Backups : ~HandlePacket(b)
    <3>1. bhttp' = bhttp
      BY <2>3, CopiesKept
    <3>2. CASE UpToDate' \subseteq UpToDate
      <4>1. ASSUME NEW b \in UpToDate' PROVE Pending(b)' = Pending(b)
        <5>1. b \in UpToDate /\ b \in Backups
          BY <3>2 DEF UpToDate
        <5> QED
          BY <1>3, <2>3, <5>1, PendingKept
      <4> QED
        BY <2>1, <3>1, <3>2, <4>1, Leaves
    <3>3. CASE ~(UpToDate' \subseteq UpToDate)
      <4>1. HandleHttpSync
        BY <1>3, <3>3, JoinsAnswered
      <4> QED
        BY <1>3, <3>3, <4>1, AnswerCatches
    <3> QED
      BY <3>2, <3>3
  <2> QED
    BY <2>2, <2>3
<1> QED
  BY <1>1, <1>2, <1>3 DEF Broadcasts

LEMMA LagInit == Init => Copies!CopyInit
<1> SUFFICES ASSUME Init PROVE Copies!CopyInit
  OBVIOUS
<1>1. /\ http = EmptyHttp /\ bhttp = [b \in Backups |-> EmptyHttp] /\ served = {}
  BY DEF Init
<1>2. UpToDate = {}
  BY <1>1 DEF UpToDate, Synced
<1>3. EmptyHttp.sessions \in [Slots -> Backends \cup {NoSession}]
  BY EmptyTypes DEF HttpStore
<1> QED
  BY <1>1, <1>2, <1>3 DEF Copies!CopyInit

(***************************************************************************)
(* When nothing fails, the protocol implements LaggedCopy: once a backup   *)
(* has been sent its snapshot (handle_recent_sync, handle_http_sync), the  *)
(* versions of the master's sessions reach it in the order in which        *)
(* sync_master made them, none left out and none made up, whatever the     *)
(* threads of both sides do.                                               *)
(***************************************************************************)
THEOREM LagsBehindHolds ==
    ASSUME Calm, SmallIds, SmallBackends PROVE Spec => LagsBehind
<1> DEFINE Inv == /\ TypeOK /\ CountInv /\ OwnSock /\ SendGoal /\ OutboxCurrent
                  /\ DropsFirst /\ StoresKeyed /\ NoSessionLost /\ CalmInv
<1>1. Init => Inv
  BY TypeInit, CountInit, InitSending, InitStores, NotYetServed, CalmInit
<1>2. Inv /\ [Next]_vars => Inv'
  <2> SUFFICES ASSUME Inv, [Next]_vars PROVE Inv'
    OBVIOUS
  <2>1. TypeOK' /\ CountInv'
    BY TypeStep, CountStep
  <2>2. StoresKeyed' /\ DropsFirst'
    BY <2>1, KeyedStep, DropsFirstStep
  <2>3. CalmInv'
    BY <2>1, CalmStep
  <2> QED
    BY <2>1, <2>2, <2>3, OwnStep, SendGoalStep, OutboxStep, SessionsStep
<1>3. Inv => LagInv
  BY WhoFollows, ExactFollows DEF LagInv
<1>4. LagInv /\ LagInv' /\ [Next]_vars => [Copies!CopyNext]_(Copies!copyVars)
  BY LagStep DEF CopyStep
<1>5. Init => Copies!CopyInit
  BY LagInit
<1> HIDE DEF Inv
<1>6. Spec => []LagInv
  BY <1>1, <1>2, <1>3, PTL DEF Spec
<1> QED
  BY <1>4, <1>5, <1>6, PTL DEF Spec, LagsBehind, Copies!CopySpec
=============================================================================
