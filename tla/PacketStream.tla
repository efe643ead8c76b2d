---------------------------- MODULE PacketStream ----------------------------
(***************************************************************************)
(* The byte stream between a sender and one of the two receive loops:      *)
(* connection::receive_task (the master, or a backup) and                  *)
(* http_sync::listen_task (Pound's end).  A packet may arrive in pieces    *)
(* and several may arrive together.  Both loops read what there is into a  *)
(* fixed buffer and then take packets off its front.  The third reader,    *)
(* sync_controller::ctl_task, takes one command of one recv().             *)
(*                                                                         *)
(* receive_task moves the rest of the buffer to the front only if the used *)
(* part would fit in what is free behind the data.  When it does not, the  *)
(* packet stays and is taken again for ever.                               *)
(***************************************************************************)
EXTENDS PacketCodec, SequencesExt

CONSTANTS NodePackets,   \* packets a node may send
          PoundPackets,  \* packets Pound may send
          Commands,      \* commands ssyncdctl may send
          BufSize,       \* MAX_PACKET_SIZE, HTTP_MAX_PACKET_SIZE
          MaxSent,       \* bound: packets sent
          MaxCopies      \* bound: packets taken after frames are lost

Outgoing == NodePackets \cup PoundPackets

Readers == {"node", "pound", "ctl"}

Longest == Max({Len(serialize(p)) : p \in Outgoing})

ASSUME StreamAssumption ==
    /\ BufSize \in Nat /\ BufSize >= HeaderSize
    /\ MaxSent \in Nat /\ MaxCopies \in Nat
    /\ NodePackets \subseteq Packets
    /\ PoundPackets \subseteq HttpPackets
    /\ Commands \subseteq CommandPackets

VARIABLES
    reader,      \* which of the loops reads
    sent,        \* history: the packets sent
    wire,        \* bytes on their way
    buffer,      \* c_data->buffer up to c_data->buffer_size
    at,          \* where the loop is
    queue,       \* input_packet_queue, or input_data
    lost,        \* history: a packet was not moved out of the buffer
    kept,        \* history: packets queued up to then
    peak         \* history: the most the buffer has held

streamVars == <<reader, sent, wire, buffer, at, queue, lost, kept, peak>>

StreamTypeOK ==
    /\ reader \in Readers
    /\ sent \in Seq(Outgoing \cup Commands)
    /\ wire \in Seq(Bytes)
    /\ buffer \in Seq(Bytes) /\ Len(buffer) <= BufSize
    /\ at \in {"recv", "parse", "closed", "answered"}
    /\ \A i \in DOMAIN queue : queue[i].type \in DOMAIN TypeCode
    /\ lost \in BOOLEAN
    /\ kept \in 0..Len(queue)
    /\ peak \in 0..BufSize

StreamInit ==
    /\ reader \in Readers
    /\ sent = <<>> /\ wire = <<>> /\ buffer = <<>> /\ queue = <<>>
    /\ at = "recv" /\ lost = FALSE /\ kept = 0 /\ peak = 0

-----------------------------------------------------------------------------
\* send_packet and Pound: the loop around send() leaves no byte out.
Send(p) ==
    /\ Len(sent) < MaxSent /\ ~lost
    /\ \/ reader = "node" /\ p \in NodePackets
       \/ reader = "pound" /\ p \in PoundPackets
    /\ sent' = Append(sent, p)
    /\ wire' = wire \o serialize(p)
    /\ UNCHANGED <<reader, buffer, at, queue, lost, kept, peak>>

\* Faulty form: as if the buffer were always empty
WholeBuffer(buf) == BufSize

\* What recv() is allowed to read
Room(buf) == BufSize - Len(buf)

(***************************************************************************)
(* The loop around recv() reads until there is nothing more: n bytes.  If  *)
(* the buffer is full before that, the next recv() is asked for 0 bytes,   *)
(* returns 0, and the peer is taken to have closed the connection; only a  *)
(* single read of the whole buffer leaves the loop.                        *)
(***************************************************************************)
Recv(n) ==
    /\ at = "recv" /\ reader # "ctl" /\ ~lost
    /\ buffer' = buffer \o SubSeq(wire, 1, n)
    /\ wire' = SubSeq(wire, n + 1, Len(wire))
    /\ peak' = Max({peak, Len(buffer')})
    /\ \/ n < Room(buffer) /\ at' = "parse"
       \/ n = BufSize /\ buffer = <<>> /\ at' = "parse"
       \/ n = Room(buffer) /\ at' = "closed"
    /\ UNCHANGED <<reader, sent, queue, lost, kept>>

\* Faulty form: the used part must fit twice
MovesIfTwice(buf, used) == BufSize - Len(buf) >= 2 * used

\* receive_task: the condition, before the size is reduced
Moves(buf, used) == BufSize - Len(buf) >= used

Rest(buf, used) == SubSeq(buf, used + 1, Len(buf))

\* One round of while (true) of receive_task
TakePacket ==
    LET d == deserialize(buffer) IN
    /\ at = "parse" /\ reader = "node" /\ d # NullPtr
    /\ Len(queue) < kept + MaxCopies
    /\ queue' = Append(queue, d.pkt)
    /\ buffer' = IF Moves(buffer, d.used) THEN Rest(buffer, d.used) ELSE buffer
    /\ lost' = (lost \/ ~Moves(buffer, d.used))
    /\ kept' = IF lost THEN kept ELSE Len(queue')
    /\ at' = IF Len(buffer') < HeaderSize THEN "recv" ELSE "parse"
    /\ UNCHANGED <<reader, sent, wire, peak>>

(***************************************************************************)
(* The same of listen_task.  It reduces the size first and then compares,  *)
(* so that its condition always holds.                                     *)
(***************************************************************************)
TakeAction ==
    LET d == pound_deserialize(buffer) IN
    /\ at = "parse" /\ reader = "pound" /\ d # NullPtr
    /\ queue' = Append(queue, d.pkt)
    /\ buffer' = Rest(buffer, d.used)
    /\ kept' = Len(queue')
    /\ UNCHANGED <<reader, sent, wire, at, lost, peak>>

\* ssyncdctl: a command goes out with one send()
SendCommand(c) ==
    /\ reader = "ctl" /\ sent = <<>>
    /\ sent' = <<c>>
    /\ wire' = command_serialize(c)
    /\ UNCHANGED <<reader, buffer, at, queue, lost, kept, peak>>

\* ctl_task: what one recv() returns is parsed, then the socket is closed.
TakeCommand ==
    /\ reader = "ctl" /\ at = "recv" /\ Complete(wire)
    /\ queue' = Append(queue, command_deserialize(wire))
    /\ kept' = Len(queue')
    /\ wire' = <<>>
    /\ at' = "answered"
    /\ UNCHANGED <<reader, sent, buffer, lost, peak>>

Incomplete ==
    /\ at = "parse"
    /\ (IF reader = "node" THEN deserialize(buffer)
                           ELSE pound_deserialize(buffer)) = NullPtr
    /\ at' = "recv"
    /\ UNCHANGED <<reader, sent, wire, buffer, queue, lost, kept, peak>>

ReceiveLoop ==
    \/ \E n \in 1..Len(wire) : Recv(n)
    \/ TakePacket \/ TakeAction \/ Incomplete
    \/ TakeCommand

StreamNext ==
    \/ ReceiveLoop
    \/ \E p \in Outgoing : Send(p)
    \/ \E c \in Commands : SendCommand(c)

\* The thread of the loop runs; what was written to a socket arrives.
StreamSpec ==
    StreamInit /\ [][StreamNext]_streamVars /\ WF_streamVars(ReceiveLoop)

-----------------------------------------------------------------------------
\* The packets of q, one after the other
Behind(s, p) == s \o serialize(p)
Flat(q) == FoldLeft(Behind, <<>>, q)

\* What is left of a packet when it is read: identifiers keep their lowest
\* byte, and fields that its action has no use for are not sent.
HttpImage(p) ==
    LET session == p.action # "SYNC_REQUEST"
        content == p.action \in WithContent
    IN  [p EXCEPT !.listener = IF session THEN @ % 256 ELSE 0,
                  !.service  = IF session THEN @ % 256 ELSE 0,
                  !.backend  = IF session THEN @ % 256 ELSE 0,
                  !.key      = IF session THEN @ ELSE <<>>,
                  !.content  = IF content THEN @ ELSE <<>>,
                  !.last_acc = IF content THEN @ ELSE 0]

RecentImage(p) ==
    LET isAdd == p.action = "ADD_UPD_ENTRY"
        hasIp == p.action \in WithAddress
    IN  [p EXCEPT !.family = IF hasIp THEN @ ELSE 0,
                  !.src_ip = IF hasIp THEN @ ELSE <<>>,
                  !.oldest = IF isAdd THEN @ % 256 ELSE 0,
                  !.ttl    = IF isAdd THEN @ % 256 ELSE 0,
                  !.stamps = IF isAdd THEN @ ELSE <<>>]

\* A command keeps the arguments it takes.
CommandImage(c) ==
    [c EXCEPT !.data    = IF c.command \in WithData THEN @ ELSE <<>>,
              !.port    = IF c.command \in WithPort THEN @ ELSE 0,
              !.address = IF c.command = "SW_TO_CLIENT" THEN @ ELSE <<>>]

Reduced(p) ==
    CASE p.type = "HTTP_SYNC"      -> HttpImage(p)
      [] p.type = "XT_RECENT_SYNC" -> RecentImage(p)
      [] p.type = "CTL_COMMAND"    -> CommandImage(p)
      [] OTHER                     -> p

Images == {Reduced(p) : p \in Outgoing \cup Commands}

Channel == INSTANCE PacketChannel WITH
    Items     <- Outgoing \cup Commands,
    Image     <- Reduced,
    delivered <- SubSeq(queue, 1, kept),
    broken    <- (at = "closed" \/ lost)

(***************************************************************************)
(* Wherever the stream is cut, the receive loops implement a channel of    *)
(* packets: first in, first out, each packet as it was sent but for the    *)
(* identifiers above 255, which arrive as their lowest byte.  The daemon   *)
(* reads the command that ssyncdctl was given, with its arguments.         *)
(***************************************************************************)
FirstInFirstOut == Channel!ChannelSpec

(***************************************************************************)
(* receive_task counts on its buffer being large: as long as no burst has  *)
(* left less room in it than the longest packet takes, no packet is taken  *)
(* twice and no full buffer is mistaken for a closed connection.           *)
(***************************************************************************)
RoomToMove == peak <= BufSize - Longest => at # "closed" /\ ~lost

(***************************************************************************)
(* The inductive invariant.  The bytes in the buffer and on the wire are   *)
(* those of the packets not yet taken off the buffer's front, and what is  *)
(* queued are the others, in their order.                                  *)
(***************************************************************************)
FromReader ==
    /\ reader = "node" => sent \in Seq(NodePackets)
    /\ reader = "pound" => sent \in Seq(PoundPackets)
    /\ reader = "ctl" => sent \in Seq(Commands)

\* A packet that could not be moved out of the buffer is still its first.
Unmoved == IF lost THEN kept - 1 ELSE kept

Unread == SubSeq(sent, Unmoved + 1, Len(sent))

QueuedInOrder ==
    /\ queue \in Seq(Images) /\ kept <= Len(sent)
    /\ \A i \in 1..kept : queue[i] = Reduced(sent[i])
    /\ ~lost => kept = Len(queue)

BytesUnread == reader # "ctl" => buffer \o wire = Flat(Unread)

StuckWhenFull ==
    /\ lost => /\ reader = "node" /\ at = "parse" /\ kept > 0
               /\ Len(serialize(sent[kept])) <= Len(buffer)
               /\ ~Moves(buffer, Len(serialize(sent[kept])))
    /\ at = "closed" => reader # "ctl" /\ sent # <<>> /\ peak = BufSize
    /\ Len(buffer) <= peak

OneCommand ==
    reader = "ctl" =>
        /\ buffer = <<>>
        /\ \/ sent = <<>> /\ wire = <<>> /\ at = "recv" /\ kept = 0
           \/ Len(sent) = 1 /\ wire = command_serialize(sent[1]) /\ at = "recv"
              /\ kept = 0
           \/ Len(sent) = 1 /\ wire = <<>> /\ at = "answered" /\ kept = 1

StreamInv ==
    /\ StreamTypeOK /\ FromReader /\ QueuedInOrder /\ BytesUnread
    /\ StuckWhenFull /\ OneCommand

(***************************************************************************)
(* Every packet is taken in the end: the bytes of one that has arrived do  *)
(* not stay in the buffer until the next comes.                            *)
(***************************************************************************)
AllTaken == <>[](Len(queue) >= Len(sent) \/ at = "closed" \/ lost)
=============================================================================
