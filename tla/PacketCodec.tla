---------------------------- MODULE PacketCodec -----------------------------
(***************************************************************************)
(* The packets as bytes: the five parsers of ssyncd, each a serialize and  *)
(* a deserialize with a cursor (buffer_used).  Both ends of a connection   *)
(* share them, and Pound and ssyncdctl speak the same format.              *)
(*                                                                         *)
(* A name (farm, key, content, table) is a sequence of bytes.              *)
(***************************************************************************)
EXTENDS Integers, Sequences

Bytes == 0..255

\* packet_type, http::action_type, action_type and command_id of the code
TypeCode == [CONNECT |-> 1, DISCONNECT |-> 2, GENERIC |-> 3,
             XT_RECENT_SYNC |-> 4, XT_RECENT_TABLE |-> 5, HTTP_SYNC |-> 6,
             CTL_COMMAND |-> 7, SYNC_REQUEST |-> 8]

HttpCode == [CLEAR_DATA |-> 0, SYNC_REQUEST |-> 1, SESS_ADD |-> 2,
             SESS_DELETE |-> 3, SESS_UPDATE |-> 4, SESS_WRITE |-> 5]

RecentCode == [ADD_UPD_ENTRY |-> 1, DELETE_ENTRY |-> 2, FLUSH_TABLE |-> 3,
               DELETE_TABLE |-> 4]

CommandNames ==
    <<"VOID", "START_HTTP_SYNC", "STOP_HTTP_SYNC", "SHOW_HTTP", "CLEAR_HTTP",
      "WRITE_HTTP", "STOP_RECENT_SYNC", "START_RECENT_SYNC", "SHOW_RECENT",
      "CLEAR_RECENT", "CLEAR_RECENT_TABLE", "WRITE_RECENT_TABLE",
      "WRITE_RECENT", "SW_TO_MASTER", "SW_TO_CLIENT", "COUNT_RECENT",
      "SHOW_MODE", "QUIT", "COUNT_HTTP", "CTL_ERROR", "STR_MESSAGE", "RSYNC">>

CommandCode(name) == CHOOSE i \in DOMAIN CommandNames : CommandNames[i] = name

\* The name whose code is n; a cast of any other number names nothing.
Named(code, n) ==
    IF \E name \in DOMAIN code : code[name] = n
    THEN CHOOSE name \in DOMAIN code : code[name] = n
    ELSE "UNKNOWN"

-----------------------------------------------------------------------------
\* Fields, written

\* The size of a string is cast to a char.
PutString(s) == <<Len(s) % 256>> \o s

(***************************************************************************)
(* Four bytes (x << (8 * i)), each cut to a char: the shift goes the wrong *)
(* way, so that the last three bytes are zero whatever x is.               *)
(***************************************************************************)
PutId(x) == <<x % 256, 0, 0, 0>>

\* What is left of tmp after each tmp = (tmp >> 8)
Shifts(n) ==
    LET a == n \div 256   b == a \div 256   c == b \div 256   d == c \div 256
        e == d \div 256   f == e \div 256   g == f \div 256
    IN  <<n, a, b, c, d, e, f, g>>

\* Eight bytes, the lowest first
PutWord(n) == [i \in 1..8 |-> Shifts(n)[i] % 256]

-----------------------------------------------------------------------------
\* Fields, read at a position of the buffer

\* What lies behind the data is read as 0: the buffers are far larger.
At(buf, i) == IF i \in DOMAIN buf THEN buf[i] ELSE 0

GetString(buf, i) == [k \in 1..At(buf, i) |-> At(buf, i + k)]
AfterString(buf, i) == i + 1 + At(buf, i)

\* buffer[i] | buffer[i + 1] << 8 | ..., of at most eight bytes
LittleEndian(buf, i, width) ==
    LET b(k) == IF k < width THEN At(buf, i + k) ELSE 0
    IN  b(0) + 256 * (b(1) + 256 * (b(2) + 256 * (b(3) + 256 *
            (b(4) + 256 * (b(5) + 256 * (b(6) + 256 * b(7)))))))

-----------------------------------------------------------------------------
\* base_pkt_parser and the choice of a parser, pkt_parser

HeaderSize == 5

\* Every parser but the base one fills in the length when it is done.
Framed(type, body) ==
    LET len == HeaderSize + Len(body)
    IN  <<239, 171, TypeCode[type], len % 256, (len \div 256) % 256>> \o body

\* Packets without a body go out with pkt_len as it stands: 0.
base_serialize(p) == <<239, 171, TypeCode[p.type], 0, 0>>

TypeOf(buf) == Named(TypeCode, buf[3])

\* Faulty form: a packet that ends with the data is taken for incomplete
WaitForMore(buf) ==
    Len(buf) > HeaderSize /\ Len(buf) > buf[4] + 256 * buf[5]

\* base_pkt_parser::deserialize returns a packet and not a null pointer.
Complete(buf) ==
    Len(buf) >= HeaderSize /\ Len(buf) >= buf[4] + 256 * buf[5]

Parsed(pkt, used) == [pkt |-> pkt, used |-> used]
NullPtr == Parsed([type |-> "NONE"], 0)

base_deserialize(buf) == Parsed([type |-> TypeOf(buf)], HeaderSize)

-----------------------------------------------------------------------------
\* http_parser

WithContent == {"SESS_ADD", "SESS_UPDATE", "SESS_WRITE"}

http_serialize(p) ==
    LET session ==
            PutId(p.listener) \o PutId(p.service) \o PutId(p.backend)
                \o PutString(p.key)
        content == PutString(p.content) \o PutWord(p.last_acc)
    IN  Framed("HTTP_SYNC",
               <<HttpCode[p.action]>> \o PutString(p.farm)
               \o (IF p.action = "SYNC_REQUEST" THEN <<>> ELSE session)
               \o (IF p.action \in WithContent THEN content ELSE <<>>))

http_deserialize(buf) ==
    LET action   == Named(HttpCode, At(buf, 6))
        ids      == AfterString(buf, 7)
        key      == ids + 12
        content  == AfterString(buf, key)
        last_acc == AfterString(buf, content)
        session  == action # "SYNC_REQUEST"
        isFull   == action \in WithContent
    IN  Parsed([type     |-> "HTTP_SYNC", action |-> action,
                farm     |-> GetString(buf, 7),
                listener |-> IF session THEN LittleEndian(buf, ids, 4) ELSE 0,
                service  |-> IF session THEN LittleEndian(buf, ids + 4, 4) ELSE 0,
                backend  |-> IF session THEN LittleEndian(buf, ids + 8, 4) ELSE 0,
                key      |-> IF session THEN GetString(buf, key) ELSE <<>>,
                content  |-> IF isFull THEN GetString(buf, content) ELSE <<>>,
                last_acc |-> IF isFull THEN LittleEndian(buf, last_acc, 8) ELSE 0],
               IF isFull THEN last_acc + 7
               ELSE IF session THEN content - 1 ELSE ids - 1)

-----------------------------------------------------------------------------
\* xt_recent_action_parser; xt_recent_table_parser does nothing

WithAddress == {"ADD_UPD_ENTRY", "DELETE_ENTRY"}

\* The stamps, 8 bytes each
PutStamps(stamps) ==
    [i \in 1..(8 * Len(stamps)) |->
        PutWord(stamps[((i - 1) \div 8) + 1])[((i - 1) % 8) + 1]]

\* Faulty form: the terminating zero of the name is sent
NulCounted(name) == <<(Len(name) + 1) % 256>> \o name \o <<0>>

\* The size counts the terminating zero, which is not sent (*out_size -= 1).
PutTableName(name) == <<(Len(name) + 1) % 256>> \o name

recent_serialize(p) ==
    LET address == <<p.family>> \o p.src_ip
        entry   == <<p.oldest % 256, p.ttl % 256, Len(p.stamps) % 256>>
                       \o PutStamps(p.stamps)
    IN  Framed("XT_RECENT_SYNC",
               <<RecentCode[p.action]>>
               \o (IF p.action \in WithAddress THEN address ELSE <<>>)
               \o (IF p.action = "ADD_UPD_ENTRY" THEN entry ELSE <<>>)
               \o PutTableName(p.table))

recent_deserialize(buf) ==
    LET action == Named(RecentCode, At(buf, 6))
        isAdd  == action = "ADD_UPD_ENTRY"
        hasIp  == action \in WithAddress
        count  == IF isAdd THEN At(buf, 14) ELSE 0
        name   == IF isAdd THEN 15 + 8 * count ELSE IF hasIp THEN 12 ELSE 7
        len    == At(buf, name)
    IN  Parsed([type   |-> "XT_RECENT_SYNC", action |-> action,
                family |-> IF hasIp THEN At(buf, 7) ELSE 0,
                src_ip |-> IF hasIp THEN [k \in 1..4 |-> At(buf, 7 + k)] ELSE <<>>,
                oldest |-> IF isAdd THEN At(buf, 12) ELSE 0,
                ttl    |-> IF isAdd THEN At(buf, 13) ELSE 0,
                stamps |-> [k \in 1..count |->
                               LittleEndian(buf, 15 + 8 * (k - 1), 8)],
                table  |-> [k \in 1..(len - 1) |-> At(buf, name + k)]],
               name + (IF len = 0 THEN 0 ELSE len - 1))

-----------------------------------------------------------------------------
\* pkt_parser: the parser is chosen by the type

serialize(p) ==
    CASE p.type = "HTTP_SYNC"      -> http_serialize(p)
      [] p.type = "XT_RECENT_SYNC" -> recent_serialize(p)
      [] OTHER                     -> base_serialize(p)

deserialize(buf) ==
    IF ~Complete(buf) THEN NullPtr
    ELSE CASE TypeOf(buf) = "HTTP_SYNC"       -> http_deserialize(buf)
           [] TypeOf(buf) = "XT_RECENT_SYNC"  -> recent_deserialize(buf)
           [] TypeOf(buf) = "XT_RECENT_TABLE" -> NullPtr
           [] OTHER                           -> base_deserialize(buf)

\* http_sync has an http_parser only: other packets are not taken.
pound_deserialize(buf) ==
    IF Complete(buf) /\ TypeOf(buf) = "HTTP_SYNC" THEN http_deserialize(buf)
                                                   ELSE NullPtr

-----------------------------------------------------------------------------
\* command_pkt_parser: what ssyncdctl asks of the daemon

WithData == {"WRITE_RECENT_TABLE", "CLEAR_RECENT_TABLE", "START_HTTP_SYNC",
             "STOP_HTTP_SYNC"}
WithPort == {"SW_TO_MASTER", "SW_TO_CLIENT"}

IPV4 == 1
IPV6 == 2

\* An address is its four bytes; <<>> is one with colons, of which only the
\* family is sent (get_ip_address_v6 returns nothing).
Family(address) == IF address = <<>> THEN IPV6 ELSE IPV4

\* Three bytes of the port, the lowest first
PutPort(port) == <<port % 256, (port \div 256) % 256, (port \div 65536) % 256>>

command_serialize(c) ==
    Framed("CTL_COMMAND",
           <<CommandCode(c.command)>>
           \o (IF c.command \in WithData THEN PutString(c.data) ELSE <<>>)
           \o (IF c.command \in WithPort THEN PutPort(c.port) ELSE <<>>)
           \o (IF c.command = "SW_TO_CLIENT"
               THEN <<Family(c.address)>> \o c.address ELSE <<>>))

command_deserialize(buf) ==
    LET command == CommandNames[At(buf, 6)]
        withIp  == command = "SW_TO_CLIENT" /\ At(buf, 10) = IPV4
    IN  [type    |-> "CTL_COMMAND",
         command |-> command,
         data    |-> IF command \in WithData THEN GetString(buf, 7) ELSE <<>>,
         port    |-> IF command \in WithPort THEN LittleEndian(buf, 7, 3) ELSE 0,
         address |-> IF withIp THEN [k \in 1..4 |-> At(buf, 10 + k)] ELSE <<>>]

-----------------------------------------------------------------------------
\* The packets whose fields their format has room for

\* Strings whose size fits in its byte
Names == {s \in Seq(Bytes) : Len(s) < 256}

\* Numbers of eight bytes
Words == {n \in Nat : Shifts(n)[8] < 256}

BasePackets == [type : {"CONNECT", "DISCONNECT", "GENERIC", "SYNC_REQUEST"}]

HttpPackets ==
    [type : {"HTTP_SYNC"}, action : DOMAIN HttpCode, farm : Names,
     listener : Nat, service : Nat, backend : Nat, key : Names,
     content : Names, last_acc : Words]

\* At most 255 stamps; the size of a table's name counts its last zero.
RecentPackets ==
    [type : {"XT_RECENT_SYNC"}, action : DOMAIN RecentCode, family : Bytes,
     src_ip : [1..4 -> Bytes], oldest : Nat, ttl : Nat,
     stamps : {s \in Seq(Words) : Len(s) < 256},
     table : {s \in Seq(Bytes) : Len(s) < 255}]

Packets == BasePackets \cup HttpPackets \cup RecentPackets

Ports == {n \in Nat : n \div 65536 < 256}

CommandPackets ==
    [type : {"CTL_COMMAND"},
     command : {CommandNames[i] : i \in DOMAIN CommandNames}, data : Names,
     port : Ports, address : {<<>>} \cup [1..4 -> Bytes]]
=============================================================================
