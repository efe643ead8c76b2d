---------------------------- MODULE SessionStore ----------------------------
(***************************************************************************)
(* The data that ssyncd replicates and the two functions that change it,   *)
(* base_sync::apply_http_action and base_sync::apply_recent_action.  The   *)
(* master and every backup hold one HTTP store and one recent store and    *)
(* run the same code on them (src/src/sync/base_sync.cpp).                 *)
(*                                                                         *)
(* A session is abstracted to the backend it pins its key to: that is what *)
(* a failover must preserve.  A recent entry is an opaque value.           *)
(***************************************************************************)
EXTENDS Integers

CONSTANTS Farms, Listeners, Services, Keys, Backends, NoSession,
          Tables, Addrs, Entries, NoEntry

(***************************************************************************)
(* http_parser::serialize emits (x << (8 * i)) for i = 0..3, so bytes 1 to *)
(* 3 of the listener, the service and the backend are always zero.  What   *)
(* the peer decodes is the lowest byte.                                    *)
(***************************************************************************)
LowByte(n) == n % 256

ASSUME StoreAssumption ==
    /\ \A S \in {Listeners, Services, Backends} :
          S \subseteq Nat /\ \A n \in S : LowByte(n) \in S
    /\ NoSession \notin Backends
    /\ NoEntry \notin Entries

-----------------------------------------------------------------------------
\* http_session_data: farm -> listener -> service -> key -> session

Slots    == [farm: Farms, listener: Listeners, service: Services, key: Keys]
ServiceIds == [farm: Farms, listener: Listeners, service: Services]

ServiceOf(slot) ==
    [farm |-> slot.farm, listener |-> slot.listener, service |-> slot.service]

(***************************************************************************)
(* farms and services are the keys present in the outer maps (a service    *)
(* stays present after its last session is erased); sessions is the        *)
(* innermost map, made total with NoSession.                               *)
(***************************************************************************)
HttpStore == [farms: SUBSET Farms,
              services: SUBSET ServiceIds,
              sessions: [Slots -> Backends \cup {NoSession}]]

EmptyHttp == [farms |-> {}, services |-> {},
              sessions |-> [slot \in Slots |-> NoSession]]

SessionActions == {"SESS_ADD", "SESS_UPDATE", "SESS_DELETE"}

HttpPackets ==
    [type: {"HTTP_SYNC"}, action: SessionActions, slot: Slots,
     backend: Backends]
    \cup [type: {"HTTP_SYNC"}, action: {"CLEAR_DATA"}, farm: Farms]

ClearRequest(f) == [type |-> "HTTP_SYNC", action |-> "CLEAR_DATA", farm |-> f]

(***************************************************************************)
(* A session of a service its listener does not hold yet REPLACES the      *)
(* listener's map of services by one that holds only the new service, so   *)
(* the sessions of the listener's other services go.                       *)
(***************************************************************************)
AddSession(h, slot, backend) ==
    LET svc == ServiceOf(slot)
        Displaced(x) == /\ svc \notin h.services
                        /\ x.farm = slot.farm
                        /\ x.listener = slot.listener
    IN  [farms    |-> h.farms \cup {slot.farm},
         services |-> {x \in h.services : ~Displaced(x)} \cup {svc},
         sessions |-> [x \in Slots |-> IF x = slot THEN backend
                                       ELSE IF Displaced(x) THEN NoSession
                                       ELSE h.sessions[x]]]

DeleteSession(h, slot) ==
    [farms    |-> h.farms \cup {slot.farm},
     services |-> h.services,
     sessions |-> [h.sessions EXCEPT ![slot] = NoSession]]

\* The farm's map is emptied; its key stays.
ClearFarm(h, f) ==
    [farms    |-> h.farms,
     services |-> {x \in h.services : x.farm # f},
     sessions |-> [x \in Slots |-> IF x.farm = f THEN NoSession
                                   ELSE h.sessions[x]]]

apply_http_action(h, p) ==
    CASE p.action = "CLEAR_DATA" ->
            ClearFarm([h EXCEPT !.farms = @ \cup {p.farm}], p.farm)
      [] p.action \in {"SESS_ADD", "SESS_UPDATE"} ->
            AddSession(h, p.slot, p.backend)
      [] p.action = "SESS_DELETE" -> DeleteSession(h, p.slot)

\* What handle_http_sync sends: every session, as an addition.
HttpSnapshot(h) ==
    {p \in HttpPackets : /\ p.action = "SESS_ADD"
                         /\ h.sessions[p.slot] = p.backend}

-----------------------------------------------------------------------------
\* recent_data: table -> address -> entry

Rows == [table: Tables, addr: Addrs]

RecentStore == [tables: SUBSET Tables, entries: [Rows -> Entries \cup {NoEntry}]]

EmptyRecent == [tables |-> {}, entries |-> [row \in Rows |-> NoEntry]]

RecentActions == {"ADD_UPD_ENTRY", "DELETE_ENTRY", "FLUSH_TABLE", "DELETE_TABLE"}

RecentPackets == [type: {"XT_RECENT_SYNC"}, action: RecentActions, row: Rows,
                  entry: Entries]

(***************************************************************************)
(* DELETE_TABLE is accepted and does nothing; FLUSH_TABLE creates the      *)
(* table when it is missing; DELETE_ENTRY of an unknown table changes      *)
(* nothing.                                                                *)
(***************************************************************************)
apply_recent_action(r, p) ==
    CASE p.action = "DELETE_TABLE" -> r
      [] p.action = "DELETE_ENTRY" -> [r EXCEPT !.entries[p.row] = NoEntry]
      [] p.action = "FLUSH_TABLE" ->
            [tables  |-> r.tables \cup {p.row.table},
             entries |-> [x \in Rows |-> IF x.table = p.row.table THEN NoEntry
                                         ELSE r.entries[x]]]
      [] p.action = "ADD_UPD_ENTRY" ->
            [tables  |-> r.tables \cup {p.row.table},
             entries |-> [r.entries EXCEPT ![p.row] = p.entry]]

\* What handle_recent_sync sends: every entry, as an update.
RecentSnapshot(r) ==
    {p \in RecentPackets : /\ p.action = "ADD_UPD_ENTRY"
                           /\ r.entries[p.row] = p.entry}

-----------------------------------------------------------------------------
Packets == HttpPackets \cup RecentPackets

(***************************************************************************)
(* What the backup decodes of a packet the master encoded                  *)
(* (pkt_parser::serialize, then pkt_parser::deserialize).                  *)
(***************************************************************************)
OnWire(p) ==
    IF p.type = "XT_RECENT_SYNC" \/ p.action = "CLEAR_DATA"
    THEN p
    ELSE [p EXCEPT !.slot = [farm     |-> p.slot.farm,
                             listener |-> LowByte(p.slot.listener),
                             service  |-> LowByte(p.slot.service),
                             key      |-> p.slot.key],
                   !.backend = LowByte(p.backend)]
=============================================================================
