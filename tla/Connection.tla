----------------------------- MODULE Connection -----------------------------
(***************************************************************************)
(* The transport between the master and its backups                        *)
(* (src/src/connection/connection.cpp): one TCP connection per connect()   *)
(* of a backup, the receive thread of each process (receive_task), the     *)
(* input queues the threads fill and the blocking send_packet the workers  *)
(* call.  The sockets themselves are the kernel's: a closed end is         *)
(* announced by a FIN, and data that reaches a closed end is answered by   *)
(* a reset.                                                                *)
(*                                                                         *)
(* Connections are numbered in the order in which they are made; a number  *)
(* stands for the two descriptors of its ends.  The code orders a          *)
(* broadcast by descriptor; descriptors are recycled, so any order of two  *)
(* connections is possible and the model takes any.                        *)
(***************************************************************************)
EXTENDS SessionStore, Sequences, FiniteSets

CONSTANTS Backups,     \* the backup processes
          MaxConns,    \* bound: connections made in a behaviour
          SockBuf,     \* packets the socket buffers of a connection hold
          NoPacket,    \* no packet is being sent
          NoOwner      \* the owner of a connection not made yet

ASSUME ConnectionAssumption ==
    /\ MaxConns \in Nat
    /\ SockBuf \in Nat \ {0}
    /\ NoPacket \notin Packets
    /\ NoOwner \notin Backups

Conns == 1..MaxConns
NoConn == 0

VARIABLES
    \* the network
    made,              \* connections made so far
    owner,             \* the backup that made each of them
    srvEnd, cliEnd,    \* the master's and the backup's end
    down,              \* packets on their way to the backup
    up,                \* the SYNC_REQUEST on its way to the master
    toSrv, toCli,      \* what the kernel holds for the end: see Signals
    \* the master's connection object
    is_running, listenEvent, rx, connected_nodes, input_packet_queue,
    \* the master's send_packet
    outbox, dest, cur, to, skipped,
    \* the backup's connection objects
    running, sock, queue

netVars    == <<made, owner, srvEnd, cliEnd, down, up, toSrv, toCli>>
serverVars == <<is_running, listenEvent, rx, connected_nodes,
                input_packet_queue>>
sendVars   == <<outbox, dest, cur, to, skipped>>
clientVars == <<running, sock, queue>>
connVars   == <<netVars, serverVars, sendVars, clientVars>>

(***************************************************************************)
(* "fin": the other end was closed; "rst": the connection was reset and    *)
(* the error is pending on the socket; "dead": recv() has reported that    *)
(* error, the edge-triggered event is consumed and nothing more comes.     *)
(***************************************************************************)
Signals == {"ok", "fin", "rst", "dead"}

Disconnect == [type |-> "DISCONNECT"]
Requests   == [type: {"CONNECT", "SYNC_REQUEST", "DISCONNECT"}, fd: Conns]
Request(t, c) == [type |-> t, fd |-> c]

Polling == [at |-> "poll", conn |-> NoConn]   \* the receive thread waits

ConnTypeOK ==
    /\ made \in 0..MaxConns
    /\ owner \in [Conns -> Backups \cup {NoOwner}]
    /\ srvEnd \in [Conns -> {"none", "backlog", "open", "closed"}]
    /\ cliEnd \in [Conns -> {"none", "open", "closed"}]
    /\ down \in [Conns -> Seq(Packets)]
    /\ up \in [Conns -> BOOLEAN]
    /\ toSrv \in [Conns -> Signals]
    /\ toCli \in [Conns -> Signals]
    /\ is_running \in BOOLEAN
    /\ listenEvent \in BOOLEAN
    /\ rx \in {Polling} \cup [at: {"accepted", "closing"}, conn: Conns]
    /\ connected_nodes \in SUBSET Conns
    /\ input_packet_queue \in Seq(Requests)
    /\ outbox \in SUBSET Packets
    /\ dest \in Conns \cup {NoConn}
    /\ cur \in Packets \cup {NoPacket}
    /\ to \in SUBSET Conns
    /\ skipped \in SUBSET Conns
    /\ running \in [Backups -> BOOLEAN]
    /\ sock \in [Backups -> Conns \cup {NoConn}]
    /\ queue \in [Backups -> Seq(Packets \cup {Disconnect})]

ConnInit ==
    /\ made = 0
    /\ owner = [c \in Conns |-> NoOwner]
    /\ srvEnd = [c \in Conns |-> "none"]
    /\ cliEnd = [c \in Conns |-> "none"]
    /\ down = [c \in Conns |-> <<>>]
    /\ up = [c \in Conns |-> FALSE]
    /\ toSrv = [c \in Conns |-> "ok"]
    /\ toCli = [c \in Conns |-> "ok"]
    /\ is_running = FALSE
    /\ listenEvent = FALSE
    /\ rx = Polling
    /\ connected_nodes = {}
    /\ input_packet_queue = <<>>
    /\ outbox = {}
    /\ dest = NoConn
    /\ cur = NoPacket
    /\ to = {}
    /\ skipped = {}
    /\ running = [b \in Backups |-> FALSE]
    /\ sock = [b \in Backups |-> NoConn]
    /\ queue = [b \in Backups |-> <<>>]

-----------------------------------------------------------------------------
\* The receive thread of the master: receive_task with is_server

Backlog == {c \in Conns : srvEnd[c] = "backlog"}

(***************************************************************************)
(* The listening socket is registered edge-triggered and an event accepts  *)
(* one connection: the one that has waited longest.  The node is listed    *)
(* before its CONNECT is queued; a broadcast under way may or may not      *)
(* still come across it.                                                   *)
(***************************************************************************)
AcceptNode ==
    /\ is_running /\ rx.at = "poll" /\ listenEvent
    /\ listenEvent' = FALSE
    /\ \E c \in Backlog :
          /\ \A d \in Backlog : c <= d
          /\ srvEnd' = [srvEnd EXCEPT ![c] = "open"]
          /\ connected_nodes' = connected_nodes \cup {c}
          /\ rx' = [at |-> "accepted", conn |-> c]
          /\ \/ to' = to
             \/ /\ cur # NoPacket /\ dest = NoConn
                /\ to' = to \cup {c}
    /\ UNCHANGED <<made, owner, cliEnd, down, up, toSrv, toCli, is_running,
                   input_packet_queue, outbox, dest, cur, skipped, clientVars>>

AnnounceNode ==
    /\ is_running /\ rx.at = "accepted"
    /\ input_packet_queue' =
          Append(input_packet_queue, Request("CONNECT", rx.conn))
    /\ rx' = Polling
    /\ UNCHANGED <<netVars, is_running, listenEvent, connected_nodes, sendVars,
                   clientVars>>

\* Faulty form: a request goes to the front of the queue
JumpQueue(c) ==
    /\ is_running /\ rx.at = "poll"
    /\ srvEnd[c] = "open" /\ up[c] /\ toSrv[c] # "dead"
    /\ up' = [up EXCEPT ![c] = FALSE]
    /\ input_packet_queue' =
          <<Request("SYNC_REQUEST", c)>> \o input_packet_queue
    /\ UNCHANGED <<made, owner, srvEnd, cliEnd, down, toSrv, toCli, is_running,
                   listenEvent, rx, connected_nodes, sendVars, clientVars>>

ReadRequest(c) ==
    /\ is_running /\ rx.at = "poll"
    /\ srvEnd[c] = "open" /\ up[c] /\ toSrv[c] # "dead"
    /\ up' = [up EXCEPT ![c] = FALSE]
    /\ input_packet_queue' =
          Append(input_packet_queue, Request("SYNC_REQUEST", c))
    /\ UNCHANGED <<made, owner, srvEnd, cliEnd, down, toSrv, toCli, is_running,
                   listenEvent, rx, connected_nodes, sendVars, clientVars>>

\* recv() returns 0; what was received with the FIN is never parsed.
ReadEof(c) ==
    /\ is_running /\ rx.at = "poll"
    /\ srvEnd[c] = "open" /\ toSrv[c] = "fin"
    /\ up' = [up EXCEPT ![c] = FALSE]
    /\ input_packet_queue' =
          Append(input_packet_queue, Request("DISCONNECT", c))
    /\ rx' = [at |-> "closing", conn |-> c]
    /\ UNCHANGED <<made, owner, srvEnd, cliEnd, down, toSrv, toCli, is_running,
                   listenEvent, connected_nodes, sendVars, clientVars>>

(***************************************************************************)
(* connected_nodes is not locked: a broadcast that has not come to the     *)
(* node yet misses it, one that is at the node finds a closed descriptor.  *)
(***************************************************************************)
EraseNode ==
    /\ is_running /\ rx.at = "closing"
    /\ connected_nodes' = connected_nodes \ {rx.conn}
    /\ srvEnd' = [srvEnd EXCEPT ![rx.conn] = "closed"]
    /\ rx' = Polling
    /\ \/ UNCHANGED <<to, cur>>
       \/ /\ dest = NoConn /\ rx.conn \in to
          /\ to' = to \ {rx.conn}
          /\ cur' = IF to' = {} THEN NoPacket ELSE cur
    /\ UNCHANGED <<made, owner, cliEnd, down, up, toSrv, toCli, is_running,
                   listenEvent, input_packet_queue, outbox, dest, skipped,
                   clientVars>>

\* recv() returns -1: the loop goes on to the next event.
ReadError(c) ==
    /\ is_running /\ rx.at = "poll"
    /\ srvEnd[c] = "open" /\ toSrv[c] = "rst"
    /\ toSrv' = [toSrv EXCEPT ![c] = "dead"]
    /\ up' = [up EXCEPT ![c] = FALSE]
    /\ UNCHANGED <<made, owner, srvEnd, cliEnd, down, toCli, serverVars,
                   sendVars, clientVars>>

ServerReceive ==
    \/ AcceptNode
    \/ AnnounceNode
    \/ \E c \in Conns : ReadRequest(c) \/ ReadEof(c) \/ ReadError(c)
    \/ EraseNode

-----------------------------------------------------------------------------
\* send_packet on the master

Sending == cur # NoPacket \/ outbox # {}

\* Faulty form: a broadcast goes to one node
OneNode(fd) == IF fd = NoConn THEN {CHOOSE c \in connected_nodes : TRUE} ELSE {fd}

Recipients(fd) == IF fd = NoConn THEN connected_nodes ELSE {fd}

(***************************************************************************)
(* The entry of send_packet(p): it gives up when no node is connected or   *)
(* the connection is stopped; fd = -1 (NoConn here) means every node.      *)
(***************************************************************************)
Send(p, fd) ==
    IF connected_nodes = {} \/ ~is_running
    THEN UNCHANGED <<dest, cur, to>>
    ELSE /\ dest' = fd
         /\ cur' = p
         /\ to' = Recipients(fd)

SendNext ==
    /\ cur = NoPacket /\ outbox # {}
    /\ LET p == CHOOSE x \in outbox : TRUE
       IN  outbox' = outbox \ {p} /\ Send(p, dest)
    /\ UNCHANGED skipped

CanSend(c) == srvEnd[c] = "open" /\ toSrv[c] \in {"ok", "fin"}

\* handle_send succeeds; it waits for room in the socket buffer.
HandleSend(c) ==
    /\ cur # NoPacket /\ c \in to /\ CanSend(c)
    /\ Len(down[c]) < SockBuf
    /\ down' = [down EXCEPT ![c] = Append(@, OnWire(cur))]
    /\ to' = to \ {c}
    /\ cur' = IF to' = {} THEN NoPacket ELSE cur
    /\ UNCHANGED <<made, owner, srvEnd, cliEnd, up, toSrv, toCli, serverVars,
                   outbox, dest, skipped, clientVars>>

(***************************************************************************)
(* handle_send fails: send_packet returns at once, and the nodes the       *)
(* broadcast has not come to are left out.  send() takes a pending error   *)
(* off the socket, so the receive thread then reads an end of file.        *)
(* giveUp: the caller drops what it still had to send.                     *)
(***************************************************************************)
HandleSendError(c, giveUp) ==
    /\ cur # NoPacket /\ c \in to /\ ~CanSend(c)
    /\ toSrv' = [toSrv EXCEPT ![c] = IF @ = "rst" /\ srvEnd[c] = "open"
                                     THEN "fin" ELSE @]
    /\ skipped' = skipped \cup to
    /\ to' = {}
    /\ cur' = NoPacket
    /\ outbox' = IF giveUp THEN {} ELSE outbox
    /\ UNCHANGED <<made, owner, srvEnd, cliEnd, down, up, toCli, serverVars,
                   dest, clientVars>>

-----------------------------------------------------------------------------
\* The connection object of a backup

(***************************************************************************)
(* start(): connect() succeeds as soon as the master's kernel has queued   *)
(* the connection, whatever the master does.                               *)
(***************************************************************************)
Connect(b) ==
    /\ is_running /\ made < MaxConns
    /\ LET c == made + 1
       IN  /\ made' = c
           /\ owner' = [owner EXCEPT ![c] = b]
           /\ srvEnd' = [srvEnd EXCEPT ![c] = "backlog"]
           /\ cliEnd' = [cliEnd EXCEPT ![c] = "open"]
           /\ sock' = [sock EXCEPT ![b] = c]
    /\ listenEvent' = TRUE
    /\ running' = [running EXCEPT ![b] = TRUE]
    /\ UNCHANGED <<down, up, toSrv, toCli, is_running, rx, connected_nodes,
                   input_packet_queue, sendVars, queue>>

\* Faulty form: a packet overtakes those before it
Overtake(b) ==
    LET c == sock[b] IN
    /\ running[b] /\ c # NoConn /\ down[c] # <<>> /\ toCli[c] # "dead"
    /\ down' = [down EXCEPT ![c] = Tail(@)]
    /\ queue' = [queue EXCEPT ![b] = <<Head(down[c])>> \o @]
    /\ UNCHANGED <<made, owner, srvEnd, cliEnd, up, toSrv, toCli, serverVars,
                   sendVars, running, sock>>

ReadPacket(b) ==
    LET c == sock[b] IN
    /\ running[b] /\ c # NoConn /\ down[c] # <<>> /\ toCli[c] # "dead"
    /\ down' = [down EXCEPT ![c] = Tail(@)]
    /\ queue' = [queue EXCEPT ![b] = Append(@, Head(down[c]))]
    /\ UNCHANGED <<made, owner, srvEnd, cliEnd, up, toSrv, toCli, serverVars,
                   sendVars, running, sock>>

(***************************************************************************)
(* recv() returns 0: the socket is closed, DISCONNECT queued and the       *)
(* thread ends.  Packets received with the FIN are never parsed.           *)
(***************************************************************************)
ReadEofClient(b) ==
    LET c == sock[b] IN
    /\ running[b] /\ c # NoConn /\ toCli[c] = "fin"
    /\ cliEnd' = [cliEnd EXCEPT ![c] = "closed"]
    /\ toSrv' = [toSrv EXCEPT ![c] = IF @ = "ok" THEN "fin" ELSE @]
    /\ down' = [down EXCEPT ![c] = <<>>]
    /\ running' = [running EXCEPT ![b] = FALSE]
    /\ sock' = [sock EXCEPT ![b] = NoConn]
    /\ queue' = [queue EXCEPT ![b] = Append(@, Disconnect)]
    /\ UNCHANGED <<made, owner, srvEnd, up, toCli, serverVars, sendVars>>

\* recv() returns -1: nothing is closed, nothing is queued.
ReadErrorClient(b) ==
    LET c == sock[b] IN
    /\ running[b] /\ c # NoConn /\ toCli[c] = "rst"
    /\ toCli' = [toCli EXCEPT ![c] = "dead"]
    /\ down' = [down EXCEPT ![c] = <<>>]
    /\ UNCHANGED <<made, owner, srvEnd, cliEnd, up, toSrv, serverVars,
                   sendVars, clientVars>>

ClientReceive(b) == ReadPacket(b) \/ ReadEofClient(b) \/ ReadErrorClient(b)

\* send_packet(SYNC_REQUEST) on a backup
CanRequest(b) == running[b] /\ sock[b] # NoConn /\ toCli[sock[b]] \in {"ok", "fin"}

\* Faulty form: the request is not sent
RequestForgotten(b) == CanRequest(b) /\ UNCHANGED <<up, toCli>>

SendRequest(b) ==
    /\ CanRequest(b)
    /\ up' = [up EXCEPT ![sock[b]] = TRUE]
    /\ UNCHANGED toCli

SendRequestError(b) ==
    /\ ~CanRequest(b)
    /\ toCli' = IF running[b] /\ sock[b] # NoConn /\ toCli[sock[b]] = "rst"
                THEN [toCli EXCEPT ![sock[b]] = "fin"] ELSE toCli
    /\ UNCHANGED up

-----------------------------------------------------------------------------
\* The kernel (external)

\* Data that reaches a closed end is answered by a reset.
ResetSender(c) ==
    /\ \/ /\ cliEnd[c] = "closed" /\ srvEnd[c] = "open" /\ down[c] # <<>>
          /\ toSrv' = [toSrv EXCEPT ![c] = IF @ = "dead" THEN @ ELSE "rst"]
          /\ down' = [down EXCEPT ![c] = <<>>]
          /\ UNCHANGED <<toCli, up>>
       \/ /\ srvEnd[c] = "closed" /\ cliEnd[c] = "open" /\ up[c]
          /\ toCli' = [toCli EXCEPT ![c] = IF @ = "dead" THEN @ ELSE "rst"]
          /\ up' = [up EXCEPT ![c] = FALSE]
          /\ UNCHANGED <<toSrv, down>>
    /\ UNCHANGED <<made, owner, srvEnd, cliEnd, serverVars, sendVars,
                   clientVars>>

\* A network element, or keep-alive, resets an established connection.
ResetBoth(c) ==
    /\ srvEnd[c] = "open" /\ cliEnd[c] = "open"
    /\ toSrv[c] # "dead" /\ toCli[c] # "dead"
    /\ toSrv' = [toSrv EXCEPT ![c] = "rst"]
    /\ toCli' = [toCli EXCEPT ![c] = "rst"]
    /\ UNCHANGED <<made, owner, srvEnd, cliEnd, down, up, serverVars,
                   sendVars, clientVars>>

(***************************************************************************)
(* The master process ends: its sockets are closed, and connections it     *)
(* never accepted are reset.  A backup process ends likewise.              *)
(***************************************************************************)
CloseServer ==
    /\ srvEnd' = [c \in Conns |-> IF srvEnd[c] = "none" THEN "none"
                                  ELSE "closed"]
    /\ toCli' = [c \in Conns |->
                    IF toCli[c] # "ok" THEN toCli[c]
                    ELSE IF srvEnd[c] = "backlog" THEN "rst"
                    ELSE IF srvEnd[c] = "open" THEN "fin" ELSE toCli[c]]
    /\ is_running' = FALSE
    /\ listenEvent' = FALSE
    /\ rx' = Polling
    /\ connected_nodes' = {}
    /\ input_packet_queue' = <<>>
    /\ outbox' = {} /\ cur' = NoPacket /\ to' = {} /\ dest' = NoConn
    /\ UNCHANGED <<made, owner, cliEnd, down, up, toSrv, skipped, clientVars>>

CloseClient(b) ==
    LET c == sock[b] IN
    /\ cliEnd' = [d \in Conns |-> IF d = c THEN "closed" ELSE cliEnd[d]]
    /\ toSrv' = [d \in Conns |-> IF d = c /\ toSrv[d] = "ok" THEN "fin"
                                 ELSE toSrv[d]]
    /\ running' = [running EXCEPT ![b] = FALSE]
    /\ sock' = [sock EXCEPT ![b] = NoConn]
    /\ queue' = [queue EXCEPT ![b] = <<>>]
    /\ UNCHANGED <<made, owner, srvEnd, down, up, toCli, serverVars, sendVars>>

\* connection(port) and start() on the master
StartServer ==
    /\ is_running' = TRUE
    /\ UNCHANGED <<netVars, listenEvent, rx, connected_nodes,
                   input_packet_queue, sendVars, clientVars>>
=============================================================================
