--------------------------- MODULE MCPacketStream ---------------------------
(***************************************************************************)
(* A small instance of PacketStream: one packet of each shape.             *)
(***************************************************************************)
EXTENDS PacketStream

\* Backend 257 is above what a byte holds; 239 is the first byte of a header.
Session(action) ==
    [type |-> "HTTP_SYNC", action |-> action, farm |-> <<239>>, listener |-> 0,
     service |-> 1, backend |-> 257, key |-> <<7>>, content |-> <<>>,
     last_acc |-> 300]

Entry(action, stamps) ==
    [type |-> "XT_RECENT_SYNC", action |-> action, family |-> 1,
     src_ip |-> <<10, 0, 0, 255>>, oldest |-> 2, ttl |-> 64, stamps |-> stamps,
     table |-> <<5, 6>>]

MCNodePackets ==
    {[type |-> "SYNC_REQUEST"], Session("SESS_ADD"), Session("SESS_DELETE"),
     Entry("ADD_UPD_ENTRY", <<70000>>), Entry("FLUSH_TABLE", <<>>)}

MCPoundPackets == {Session("SESS_ADD"), Session("SESS_DELETE")}

\* The commands of every shape, with arguments at the edges of their bytes
MCCommands ==
    [type: {"CTL_COMMAND"},
     command: {"WRITE_HTTP", "START_HTTP_SYNC", "SW_TO_MASTER", "SW_TO_CLIENT"},
     data: {<<1, 255>>}, port: {7777, 65536}, address: {<<>>, <<127, 0, 0, 1>>}]
=============================================================================
