-------------------------------- MODULE Node --------------------------------
(***************************************************************************)
(* One ssyncd process as its operator and the Pound processes see it: the  *)
(* control thread (sync_controller::ctl_task), which takes one command     *)
(* after the other from ssyncdctl, and http_sync, which keeps a connection *)
(* to the Pound process of each farm and reads them in a thread of its own *)
(* (listen_task).                                                          *)
(*                                                                         *)
(* All of them use descriptors of one table, in which a number is free     *)
(* again as soon as it is closed and the lowest free one is taken next.    *)
(* farms_fd, which names the farm of a descriptor, is never pruned.  Each  *)
(* system call on a descriptor and each look at farms_fd is a step of its  *)
(* own: in between, another thread may close the number and take it again. *)
(***************************************************************************)
EXTENDS CtlClient, FiniteSets

CONSTANTS Farms,         \* the farms, each with a Pound process
          NoName,        \* the empty name of a farm
          Absent,        \* farms_fd has no such key
          MaxFd,         \* descriptors the process may have open
          CommandLines,  \* how ssyncdctl may be called
          Modes,         \* modes the process may be started in
          FlagAtBirth,   \* what the uninitialised is_running may hold
          MaxClients,    \* bound: calls of ssyncdctl, and its interruptions
          MaxEvents      \* bound: events of Pound, descriptors opened elsewhere

ASSUME NodeAssumption ==
    /\ NoName \notin Farms /\ Absent \notin Farms \cup {NoName}
    /\ MaxFd \in Nat \ {0}
    /\ Modes \subseteq {"master", "backup"}
    /\ FlagAtBirth \subseteq BOOLEAN
    /\ MaxClients \in Nat /\ MaxEvents \in Nat

\* Farms has every farm an operator names.
ASSUME FarmsAssumption ==
    \A argv \in CommandLines :
        command_line(argv).command \in {"START_HTTP_SYNC", "STOP_HTTP_SYNC"}
            => command_line(argv).data \in Farms \cup {NoName}

Packet == [argv \in CommandLines |-> command_line(argv)]

FDs == 1..MaxFd     \* the numbers free after start-up; get_farm_fd's 0 is none

VARIABLES
    alive, mode,
    file,          \* the descriptor table
    \* http_sync
    is_running, epoll_fd, farms_fd, input_data, events, lst,
    \* base_sync: the farms of which sessions are stored
    stored,
    \* the control thread, and what it and the worker are doing in http_sync
    at, cfd, cmd, todo, job,
    \* outside: Pound processes that listen, those of them that neither accept
    \* nor read, ssyncdctl, what is left of bounds
    up, stuck, client, left,
    \* history: what a command has written, and which farms' Pound was up all
    \* the while; descriptors lost before add_farm had named them; whether a
    \* thread has used a descriptor that was not its own
    wrote, steady, raced, astray

httpVars   == <<is_running, epoll_fd, farms_fd, input_data, events, lst>>
ctlVars    == <<at, cfd, cmd, todo, job>>
worldVars  == <<up, stuck, client, left>>
historyVars == <<wrote, steady, raced, astray>>
nodeVars   == <<alive, mode, file, httpVars, stored, ctlVars, worldVars,
                historyVars>>

\* What a descriptor is (socket: not connected to a Pound): sessions wait to
\* be read (data), the other end is closed (hup), epoll reports it (watched).
Files == [kind: {"free", "epoll", "ctl", "socket", "pound", "other"},
          farm: Farms \cup {NoName}, data: BOOLEAN, hup: BOOLEAN,
          watched: BOOLEAN]

File(kind, farm) ==
    [kind |-> kind, farm |-> farm, data |-> FALSE, hup |-> FALSE,
     watched |-> FALSE]

Free == File("free", NoName)

Names == Farms \cup {NoName}

(***************************************************************************)
(* What a thread is doing: send_pound_action looks for a descriptor (find, *)
(* look) and sends (send, full); add_farm in between, or on its own, goes  *)
(* from socket to announce; remove_farm is about to close (remove).        *)
(* early: fd was not one with the name add_farm gave it, or not the one    *)
(* that was looked up: its number was taken by an add_farm since.          *)
(***************************************************************************)
Threads == {"ctl", "worker"}
Jobs == [at: {"idle", "find", "socket", "connect", "watch", "name", "announce",
              "look", "send", "full", "remove"},
         farm: Names, fd: FDs \cup {0}, send: BOOLEAN, early: BOOLEAN]

Idle == [at |-> "idle", farm |-> NoName, fd |-> 0, send |-> FALSE, early |-> FALSE]

\* early: read when the name of the descriptor was not the one add_farm gave
\* or was about to give it, or named again before the name was looked up
Actions == [type: {"CONNECT", "DISCONNECT", "HTTP_SYNC"}, farm: Names,
            from: Names, early: BOOLEAN]

(***************************************************************************)
(* The listen thread with one event: it has read sessions of farm from     *)
(* (file), the end of the connection (close), and has closed it (gone).    *)
(***************************************************************************)
Listening == [at: {"wait", "file", "close", "gone"}, fd: FDs \cup {0},
              from: Names, early: BOOLEAN]

Waiting == [at |-> "wait", fd |-> 0, from |-> NoName, early |-> FALSE]

\* A send of the control thread: for which farm, to what
Writes == [farm: Names, kind: {"free", "epoll", "ctl", "socket", "pound", "other"},
           to: Names, early: BOOLEAN]

Clients == [at: {"none", "waiting", "left"}, argv: CommandLines \cup {<<>>},
            queued: BOOLEAN]

NodeTypeOK ==
    /\ alive \in BOOLEAN
    /\ mode \in Modes
    /\ file \in [FDs -> Files]
    /\ is_running \in BOOLEAN
    /\ epoll_fd \in FDs \cup {0}
    /\ epoll_fd # 0 => is_running /\ file[epoll_fd].kind = "epoll"
    /\ farms_fd \in [FDs -> Names \cup {Absent}]
    /\ input_data \in Seq(Actions)
    /\ events \in SUBSET FDs /\ lst \in Listening
    /\ stored \in SUBSET Names
    /\ at \in {"accept", "recv", "do", "jobs", "close"}
    /\ cfd \in FDs \cup {0}
    /\ todo \in SUBSET Names
    /\ job \in [Threads -> Jobs]
    /\ job["ctl"].at # "idle" => at = "jobs"
    /\ up \in SUBSET Farms /\ stuck \in SUBSET up
    /\ client \in Clients
    /\ wrote \in SUBSET Writes
    /\ raced \in SUBSET FDs
    /\ steady \in SUBSET Farms
    /\ astray \in BOOLEAN

NoClient == [at |-> "none", argv |-> <<>>, queued |-> FALSE]

NodeInit ==
    /\ alive = TRUE
    /\ mode \in Modes
    /\ file = [fd \in FDs |-> Free]
    /\ is_running \in FlagAtBirth
    /\ epoll_fd = 0
    /\ farms_fd = [fd \in FDs |-> Absent]
    /\ input_data = <<>> /\ events = {} /\ lst = Waiting
    /\ stored \in (IF mode = "backup" THEN SUBSET Farms ELSE {{}})
    /\ at = "accept" /\ cfd = 0 /\ cmd = NoCommand
    /\ todo = {} /\ job = [t \in Threads |-> Idle]
    /\ up = Farms /\ stuck = {}
    /\ client = NoClient
    /\ left = [client |-> MaxClients, event |-> MaxEvents]
    /\ wrote = {} /\ steady = {} /\ raced = {} /\ astray = FALSE

Spend(kind) == left[kind] > 0 /\ left' = [left EXCEPT ![kind] = @ - 1]

\* socket(), accept(), epoll_create(), open(): the lowest free number
FreeFds == {fd \in FDs : file[fd].kind = "free"}
IsNextFd(fd) == fd \in FreeFds /\ \A d \in FreeFds : fd <= d

\* Neither thread goes on in a state of which nothing is claimed.
Runs == alive /\ ~astray

-----------------------------------------------------------------------------
\* http_sync

\* Faulty form: the flag is not set
FlagNotSet ==
    \E fd \in FDs :
        /\ IsNextFd(fd)
        /\ epoll_fd' = fd
        /\ file' = [file EXCEPT ![fd] = File("epoll", NoName)]
        /\ UNCHANGED is_running

(***************************************************************************)
(* init() and start(): epoll_create, whose result nobody looks at, and the *)
(* thread.  A flag that holds garbage says that this has been done.        *)
(***************************************************************************)
StartListener ==
    /\ is_running' = TRUE
    /\ IF FreeFds = {} THEN UNCHANGED <<epoll_fd, file>>
       ELSE \E fd \in FDs :
               /\ IsNextFd(fd)
               /\ epoll_fd' = fd
               /\ file' = [file EXCEPT ![fd] = File("epoll", NoName)]

\* get_farm_fd: the last of the descriptors with that name
get_farm_fd(f) ==
    LET fds == {fd \in FDs : farms_fd[fd] = f}
    IN  IF fds = {} THEN 0 ELSE CHOOSE fd \in fds : \A d \in fds : d <= fd

\* Faulty form: an entry that exists is not overwritten
NameOnce(fd, f) == [farms_fd EXCEPT ![fd] = IF @ = Absent THEN f ELSE @]

\* farms_fd[listen_fd] = farm_name
NameFarm(fd, f) == [farms_fd EXCEPT ![fd] = f]

\* farms_fd[fd] in an expression: an absent key is inserted, with no name.
NameOf(fd) == IF farms_fd[fd] = Absent THEN NoName ELSE farms_fd[fd]

Action(type, farm, from, early) ==
    [type |-> type, farm |-> farm, from |-> from, early |-> early]

\* What epoll reports: sessions, or that the other end is closed
Ready == {fd \in FDs : file[fd].watched /\ (file[fd].data \/ file[fd].hup)}

\* The listen thread: epoll_wait returns with the events there are.
EpollWait ==
    /\ Runs /\ epoll_fd # 0 /\ lst = Waiting /\ events = {}
    /\ Ready # {} /\ events' = Ready
    /\ UNCHANGED <<alive, mode, file, is_running, epoll_fd, farms_fd, input_data,
                   lst, stored, ctlVars, worldVars, historyVars>>

(***************************************************************************)
(* add_farm has opened fd and not named it; or the listener or remove_farm *)
(* closed fd in such a moment, so that the name, given later, is that of a *)
(* connection which is gone.                                               *)
(***************************************************************************)
Unnamed(fd) ==
    \E t \in Threads : job[t].at \in {"connect", "watch", "name"} /\ job[t].fd = fd
Early(fd) == Unnamed(fd) \/ fd \in raced

Close(fd) == file' = [file EXCEPT ![fd] = Free]

LoseName(fd) == raced' = IF Unnamed(fd) THEN raced \cup {fd} ELSE raced

\* The next event of the batch
Takes(fd) == Runs /\ lst = Waiting /\ fd \in events /\ events' = events \ {fd}

Read(fd, next) ==
    lst' = [at |-> next, fd |-> fd, from |-> file[fd].farm, early |-> Early(fd)]

(***************************************************************************)
(* recv() until there is nothing more.  By now fd may be closed, or be     *)
(* another connection: c_data->fd is only a number.  (The sessions of one  *)
(* reading stand for each other.)                                          *)
(***************************************************************************)
ReadSessions(fd) ==
    /\ Takes(fd)
    /\ file[fd].kind = "pound" /\ ~file[fd].hup
    /\ IF file[fd].data THEN Read(fd, "file") ELSE UNCHANGED lst
    /\ file' = [file EXCEPT ![fd].data = FALSE]
    /\ UNCHANGED <<alive, mode, is_running, epoll_fd, farms_fd, input_data, stored,
                   ctlVars, worldVars, historyVars>>

\* recv() returns 0 (sessions read before it are not parsed) or ECONNRESET.
ReadEof(fd) ==
    /\ Takes(fd)
    /\ file[fd].kind = "pound" /\ file[fd].hup
    /\ Read(fd, "close")
    /\ UNCHANGED <<alive, mode, file, is_running, epoll_fd, farms_fd, input_data,
                   stored, ctlVars, worldVars, historyVars>>

(***************************************************************************)
(* recv() fails on what is not a connection; on a connection of another    *)
(* thread it takes that thread's bytes, or blocks.  Nothing is claimed of  *)
(* what follows.                                                           *)
(***************************************************************************)
ReadElse(fd) ==
    /\ Takes(fd)
    /\ file[fd].kind # "pound"
    /\ astray' = (file[fd].kind \in {"ctl", "other"})
    /\ UNCHANGED <<alive, mode, file, is_running, epoll_fd, farms_fd, input_data,
                   lst, stored, ctlVars, worldVars, wrote, steady, raced>>

\* peer_disconnect_handler closes the number, whatever it is now.
PeerDisconnect ==
    /\ Runs /\ lst.at = "close"
    /\ Close(lst.fd) /\ LoseName(lst.fd)
    /\ astray' = (file[lst.fd].kind \in {"ctl", "other"})
    /\ lst' = [lst EXCEPT !.at = "gone"]
    /\ UNCHANGED <<alive, mode, is_running, epoll_fd, farms_fd, input_data, events,
                   stored, ctlVars, worldVars, wrote, steady>>

(***************************************************************************)
(* What was read, or the DISCONNECT, is queued under the name that         *)
(* farms_fd now has for the number.  The entry of farms_fd stays.          *)
(***************************************************************************)
QueueAs(type) ==
    /\ Runs
    /\ farms_fd' = [farms_fd EXCEPT ![lst.fd] = NameOf(lst.fd)]
    /\ input_data' = Append(input_data,
          Action(type, NameOf(lst.fd), lst.from, lst.early))
    /\ lst' = Waiting
    /\ UNCHANGED <<alive, mode, file, is_running, epoll_fd, events, stored, ctlVars,
                   worldVars, historyVars>>

QueueSessions == lst.at = "file" /\ QueueAs("HTTP_SYNC")
QueueDisconnect == lst.at = "gone" /\ QueueAs("DISCONNECT")

ListenTask ==
    \/ EpollWait \/ PeerDisconnect \/ QueueSessions \/ QueueDisconnect
    \/ \E fd \in FDs : ReadSessions(fd) \/ ReadEof(fd) \/ ReadElse(fd)

-----------------------------------------------------------------------------
\* The control thread: ctl_task

AcceptClient ==
    /\ Runs /\ at = "accept" /\ client.queued
    /\ \E fd \in FDs :
          /\ IsNextFd(fd)
          /\ cfd' = fd
          /\ file' = [file EXCEPT ![fd] = File("ctl", NoName)]
    /\ client' = [client EXCEPT !.queued = FALSE]
    /\ at' = "recv"
    /\ UNCHANGED <<alive, mode, httpVars, stored, cmd, todo, job, up, stuck, left,
                   historyVars>>

\* The command was sent before the client could leave.
ReadCommand ==
    /\ Runs /\ at = "recv"
    /\ cmd' = Packet[client.argv]
    /\ at' = "do"
    /\ UNCHANGED <<alive, mode, file, httpVars, stored, cfd, todo, job, worldVars,
                   historyVars>>

Do(command) == Runs /\ at = "do" /\ cmd.command = command

\* START_HTTP_SYNC: a master forgets its sessions when the listener starts.
\* A first answer says that it does.
StartHttp ==
    /\ Do("START_HTTP_SYNC")
    /\ client.at = "left" => is_running
    /\ IF is_running THEN UNCHANGED <<is_running, epoll_fd, file, stored>>
       ELSE /\ StartListener
            /\ stored' = IF mode = "master" THEN {} ELSE stored
    /\ at' = "jobs"
    /\ job' = [job EXCEPT !["ctl"] = [Idle EXCEPT !.at = "socket", !.farm = cmd.data]]
    /\ UNCHANGED <<alive, mode, farms_fd, input_data, events, lst, cfd, cmd, todo,
                   worldVars, historyVars>>

\* STOP_HTTP_SYNC: remove_farm takes the number farms_fd has for the farm.
StopHttp ==
    /\ Do("STOP_HTTP_SYNC")
    /\ LET fd == get_farm_fd(cmd.data) IN
       IF is_running /\ fd # 0
       THEN /\ job' = [job EXCEPT !["ctl"] =
                  [Idle EXCEPT !.at = "remove", !.farm = cmd.data, !.fd = fd,
                               !.early = Early(fd)]]
            /\ at' = "jobs"
       ELSE UNCHANGED job /\ at' = "close"
    /\ UNCHANGED <<alive, mode, file, httpVars, stored, cfd, cmd, todo, worldVars,
                   historyVars>>

\* It closes the number, whatever it now is, and leaves the entry.
RemoveFarm ==
    /\ Runs /\ job["ctl"].at = "remove"
    /\ LET j    == job["ctl"]
           lost == file[j.fd]
       IN  /\ Close(j.fd) /\ LoseName(j.fd)
           /\ astray' = (lost.kind \in {"ctl", "other"})
           /\ input_data' = Append(input_data,
                 Action("DISCONNECT", j.farm,
                        IF lost.kind = "pound" THEN lost.farm ELSE j.farm, j.early))
    /\ job' = [job EXCEPT !["ctl"] = Idle]
    /\ UNCHANGED <<alive, mode, is_running, epoll_fd, farms_fd, events, lst, stored,
                   at, cfd, cmd, todo, worldVars, wrote, steady>>

\* WRITE_HTTP: write_http_data starts the listener when it does not run.
WriteHttp ==
    /\ Do("WRITE_HTTP")
    /\ IF is_running THEN UNCHANGED <<is_running, epoll_fd, file>>
       ELSE StartListener
    /\ todo' = stored /\ steady' = up
    /\ at' = "jobs"
    /\ UNCHANGED <<alive, mode, farms_fd, input_data, events, lst, stored, cfd, cmd,
                   job, worldVars, wrote, raced, astray>>

\* A call of send_pound_action
SendPoundAction(f) == [Idle EXCEPT !.at = "find", !.farm = f, !.send = TRUE]

\* A session of each farm stands for all of them.
NextSession ==
    /\ Runs /\ at = "jobs" /\ job["ctl"] = Idle
    /\ \E f \in todo :
          /\ job' = [job EXCEPT !["ctl"] = SendPoundAction(f)]
          /\ todo' = todo \ {f}
    /\ UNCHANGED <<alive, mode, file, httpVars, stored, at, cfd, cmd, worldVars,
                   historyVars>>

JobsDone ==
    /\ Runs /\ at = "jobs" /\ job["ctl"] = Idle /\ todo = {}
    /\ at' = "close"
    /\ UNCHANGED <<alive, mode, file, httpVars, stored, cfd, cmd, todo, job,
                   worldVars, historyVars>>

Goto(t, next) == job' = [job EXCEPT ![t].at = next]
Leave(t) == job' = [job EXCEPT ![t] = Idle]

\* A farm without a descriptor is added first.
Find(t) ==
    /\ Runs /\ job[t].at = "find"
    /\ Goto(t, IF get_farm_fd(job[t].farm) = 0 THEN "socket" ELSE "look")
    /\ UNCHANGED <<alive, mode, file, httpVars, stored, at, cfd, cmd, todo,
                   worldVars, historyVars>>

(***************************************************************************)
(* add_farm: socket().  A thread that has looked up this number, and not   *)
(* used it yet, now has that of a connection which is not finished.        *)
(***************************************************************************)
LookedUp(t, fd) == job[t].at \in {"send", "full", "remove"} /\ job[t].fd = fd

OpenSocket(t) ==
    /\ Runs /\ job[t].at = "socket"
    /\ \E fd \in FDs :
          /\ IsNextFd(fd)
          /\ file' = [file EXCEPT ![fd] = File("socket", NoName)]
          /\ raced' = IF Unnamed(fd) THEN raced ELSE raced \ {fd}
          /\ job' = [u \in Threads |->
                IF u = t THEN [job[u] EXCEPT !.at = "connect", !.fd = fd]
                ELSE [job[u] EXCEPT !.early = @ \/ LookedUp(u, fd)]]
    /\ UNCHANGED <<alive, mode, httpVars, stored, at, cfd, cmd, todo, worldVars,
                   wrote, steady, astray>>

\* socket() fails.
NoSocket(t) ==
    /\ Runs /\ job[t].at = "socket" /\ FreeFds = {}
    /\ Leave(t)
    /\ UNCHANGED <<alive, mode, file, httpVars, stored, at, cfd, cmd, todo,
                   worldVars, historyVars>>

(***************************************************************************)
(* connect() blocks as long as Pound does not accept.  It succeeds for the *)
(* socket it was called with, which need not be what the number now is, or *)
(* for a socket that the number has become.                                *)
(***************************************************************************)
Connect(t) ==
    /\ Runs /\ job[t].at = "connect"
    /\ LET f == job[t].farm  fd == job[t].fd IN
       \/ /\ f \in up \ stuck
          /\ \/ /\ file[fd].kind = "socket"
                /\ file' = [file EXCEPT ![fd].kind = "pound", ![fd].farm = f]
             \/ fd \in raced /\ UNCHANGED file
          /\ Goto(t, "watch")
       \/ /\ f \notin up \/ file[fd].kind # "socket"
          /\ Leave(t) /\ UNCHANGED file
    /\ UNCHANGED <<alive, mode, httpVars, stored, at, cfd, cmd, todo, worldVars,
                   historyVars>>

(***************************************************************************)
(* fcntl() and epoll_ctl().  epoll refuses a number that is not open or is *)
(* its own, and a connection it has.  When a call fails add_farm ends, and *)
(* the descriptor stays open.                                              *)
(***************************************************************************)
Watch(t) ==
    /\ Runs /\ job[t].at = "watch"
    /\ LET fd == job[t].fd IN
       IF epoll_fd # 0 /\ file[fd].kind \notin {"free", "epoll"} /\ ~file[fd].watched
       THEN /\ file' = [file EXCEPT ![fd].watched = TRUE]
            /\ astray' = (file[fd].kind \in {"ctl", "other"})
            /\ Goto(t, "name")
       ELSE Leave(t) /\ UNCHANGED <<file, astray>>
    /\ UNCHANGED <<alive, mode, httpVars, stored, at, cfd, cmd, todo, worldVars,
                   wrote, steady, raced>>

\* The rest of add_farm: the listen thread reads fd already.
Name(t) ==
    /\ Runs /\ job[t].at = "name"
    /\ farms_fd' = NameFarm(job[t].fd, job[t].farm)
    /\ lst' = [lst EXCEPT !.early = @ \/ (lst.at # "wait" /\ lst.fd = job[t].fd)]
    /\ job' = [job EXCEPT ![t].at = "announce", ![t].fd = 0]
    /\ UNCHANGED <<alive, mode, file, is_running, epoll_fd, input_data, events,
                   stored, at, cfd, cmd, todo, worldVars, historyVars>>

Announce(t) ==
    /\ Runs /\ job[t].at = "announce"
    /\ input_data' = Append(input_data,
          Action("CONNECT", job[t].farm, job[t].farm, FALSE))
    /\ IF job[t].send THEN Goto(t, "look") ELSE Leave(t)
    /\ UNCHANGED <<alive, mode, file, is_running, epoll_fd, farms_fd, events, lst,
                   stored, at, cfd, cmd, todo, worldVars, historyVars>>

\* send_pound_action takes the number get_farm_fd now has for the farm.
Look(t) ==
    /\ Runs /\ job[t].at = "look"
    /\ LET fd == get_farm_fd(job[t].farm) IN
       job' = [job EXCEPT ![t].at = "send", ![t].fd = fd, ![t].early = Early(fd)]
    /\ UNCHANGED <<alive, mode, file, httpVars, stored, at, cfd, cmd, todo,
                   worldVars, historyVars>>

(***************************************************************************)
(* send(), to whatever the number is now (0 is standard input).  Nobody    *)
(* looks at the result.  The control thread sends sessions; the worker     *)
(* sends SYNC_REQUEST, at which Pound sends its own.                       *)
(***************************************************************************)
Deliver(t) ==
    /\ LET fd == job[t].fd IN
       IF fd = 0 THEN UNCHANGED <<file, wrote, astray>>
       ELSE /\ astray' = (file[fd].kind \in {"ctl", "other"})
            /\ wrote' = IF t # "ctl" THEN wrote
                        ELSE wrote \cup {[farm |-> job[t].farm, kind |-> file[fd].kind,
                                          to |-> file[fd].farm, early |-> job[t].early]}
            /\ file' = [file EXCEPT ![fd].data = @ \/
                  (t = "worker" /\ file[fd].kind = "pound" /\ ~file[fd].hup)]
    /\ Leave(t)
    /\ UNCHANGED <<alive, mode, httpVars, stored, at, cfd, cmd, todo, worldVars,
                   steady, raced>>

\* A connection whose buffer is full: EAGAIN
Full(fd) ==
    /\ fd # 0
    /\ file[fd].kind = "pound" /\ ~file[fd].hup /\ file[fd].farm \in stuck

\* send_mutex is held during the loop of the send.
Send(t) ==
    /\ Runs /\ job[t].at = "send"
    /\ \A u \in Threads : job[u].at # "full"
    /\ ~Full(job[t].fd)
    /\ Deliver(t)

SendBlocks(t) ==
    /\ Runs /\ job[t].at = "send"
    /\ \A u \in Threads : job[u].at # "full"
    /\ Full(job[t].fd)
    /\ Goto(t, "full")
    /\ UNCHANGED <<alive, mode, file, httpVars, stored, at, cfd, cmd, todo,
                   worldVars, historyVars>>

\* It is tried again every 50 ms, for as long as it takes.
Retry(t) ==
    /\ Runs /\ job[t].at = "full"
    /\ ~Full(job[t].fd)
    /\ Deliver(t)

Job(t) ==
    \/ Find(t) \/ OpenSocket(t) \/ NoSocket(t) \/ Connect(t) \/ Watch(t)
    \/ Name(t) \/ Announce(t) \/ Look(t) \/ Send(t) \/ SendBlocks(t) \/ Retry(t)

ClearHttp ==
    /\ Do("CLEAR_HTTP")
    /\ stored' = {}
    /\ at' = "close"
    /\ UNCHANGED <<alive, mode, file, httpVars, cfd, cmd, todo, job,
                   worldVars, historyVars>>

\* The other commands: they do not touch descriptors that stay open or the
\* sessions, and are answered.
OtherCommand ==
    /\ Runs /\ at = "do"
    /\ cmd.command \notin {"START_HTTP_SYNC", "STOP_HTTP_SYNC", "WRITE_HTTP",
                           "CLEAR_HTTP", "QUIT", "SW_TO_MASTER", "SW_TO_CLIENT"}
    /\ at' = "close"
    /\ UNCHANGED <<alive, mode, file, httpVars, stored, cfd, cmd,
                   todo, job, worldVars, historyVars>>

\* The process ends, and its sockets are closed.
Ended ==
    /\ alive' = FALSE
    /\ client' = NoClient
    /\ UNCHANGED <<mode, file, httpVars, stored, ctlVars, up, stuck, left,
                   historyVars>>

Quit == Do("QUIT") /\ Ended

(***************************************************************************)
(* SW_TO_MASTER and SW_TO_CLIENT: set_worker_mode replaces the worker and  *)
(* start() assigns a new thread to command_thread, which is the joinable   *)
(* thread that runs this: std::terminate.                                  *)
(***************************************************************************)
SwitchMode == (Do("SW_TO_MASTER") \/ Do("SW_TO_CLIENT")) /\ Ended

\* Commands without an answer, and those that may be without one
Silent == {"CLEAR_HTTP", "CLEAR_RECENT"}
Terse  == {"START_RECENT_SYNC", "COUNT_HTTP", "COUNT_RECENT", "SHOW_HTTP",
           "SHOW_RECENT"}

\* Faulty form: the descriptor is not closed
LeaveOpen(fd) == UNCHANGED <<file, client>>

CloseClient(fd) == Close(fd) /\ client' = NoClient

\* The answer, and close(): ssyncdctl reads until the end of file.
Answer ==
    /\ Runs /\ at = "close"
    /\ client.at = "left" => cmd.command \in Silent \cup Terse
    /\ CloseClient(cfd)
    /\ at' = "accept" /\ cfd' = 0 /\ cmd' = NoCommand
    /\ wrote' = {} /\ steady' = {}
    /\ UNCHANGED <<alive, mode, httpVars, stored, todo, job, up, stuck, left, raced,
                   astray>>

\* send() to a client that has left raises SIGPIPE, which nobody handles.
SigPipe ==
    /\ Runs /\ client.at = "left"
    /\ \/ at = "close" /\ cmd.command \notin Silent
       \/ Do("START_HTTP_SYNC") /\ ~is_running
    /\ Ended

CtlTask ==
    \/ AcceptClient \/ ReadCommand
    \/ StartHttp \/ StopHttp \/ RemoveFarm \/ WriteHttp \/ NextSession \/ JobsDone
    \/ Job("ctl") \/ ClearHttp \/ OtherCommand \/ Quit \/ SwitchMode \/ Answer \/ SigPipe

-----------------------------------------------------------------------------
\* The other threads and processes

(***************************************************************************)
(* The worker of a master takes what the listener queued.  The farm of a   *)
(* connection that was made or lost starts without sessions; a new one is  *)
(* asked for them, by the number get_farm_fd has for the farm.             *)
(***************************************************************************)
WorkerTakes ==
    /\ Runs /\ mode = "master" /\ is_running
    /\ input_data # <<>> /\ job["worker"] = Idle
    /\ LET a == Head(input_data)
       IN  /\ stored' = IF a.type = "HTTP_SYNC" THEN stored \cup {a.farm}
                                                ELSE stored \ {a.farm}
           /\ job' = IF a.type # "CONNECT" THEN job
                     ELSE [job EXCEPT !["worker"] = SendPoundAction(a.farm)]
    /\ input_data' = Tail(input_data)
    /\ UNCHANGED <<alive, mode, file, is_running, epoll_fd, farms_fd, events, lst,
                   at, cfd, cmd, todo, worldVars, historyVars>>

Worker == WorkerTakes \/ Job("worker")

\* Replication, the poller or a dump opens or closes a descriptor.
OtherThread ==
    /\ Runs
    /\ \E fd \in FDs :
          \/ /\ IsNextFd(fd) /\ Spend("event")
             /\ file' = [file EXCEPT ![fd] = File("other", NoName)]
          \/ /\ file[fd].kind = "other"
             /\ Close(fd) /\ UNCHANGED left
    /\ UNCHANGED <<alive, mode, httpVars, stored, ctlVars, up, stuck, client,
                   historyVars>>

PoundSends ==
    /\ Runs /\ Spend("event")
    /\ \E fd \in FDs :
          /\ file[fd].kind = "pound" /\ ~file[fd].hup
          /\ file' = [file EXCEPT ![fd].data = TRUE]
    /\ UNCHANGED <<alive, mode, httpVars, stored, ctlVars, up, stuck, client,
                   historyVars>>

PoundStops(f) ==
    /\ Runs /\ f \in up /\ Spend("event")
    /\ up' = up \ {f} /\ stuck' = stuck \ {f}
    /\ steady' = steady \ {f}
    /\ file' = [fd \in FDs |-> IF file[fd].kind = "pound" /\ file[fd].farm = f
                               THEN [file[fd] EXCEPT !.hup = TRUE] ELSE file[fd]]
    /\ UNCHANGED <<alive, mode, httpVars, stored, ctlVars, client, wrote, raced,
                   astray>>

PoundStarts(f) ==
    /\ Runs /\ f \notin up /\ Spend("event")
    /\ up' = up \cup {f}
    /\ UNCHANGED <<alive, mode, file, httpVars, stored, ctlVars, stuck, client,
                   historyVars>>

\* Pound neither accepts nor reads, and what the kernel keeps for it is full.
PoundHangs(f) ==
    /\ Runs /\ f \in up \ stuck /\ Spend("event")
    /\ stuck' = stuck \cup {f}
    /\ UNCHANGED <<alive, mode, file, httpVars, stored, ctlVars, up, client,
                   historyVars>>

PoundResumes(f) ==
    /\ Runs /\ f \in stuck
    /\ stuck' = stuck \ {f}
    /\ UNCHANGED <<alive, mode, file, httpVars, stored, ctlVars, up, client, left,
                   historyVars>>

\* ssyncdctl connects and sends its command, one call after the other.
Call(argv) ==
    /\ Runs /\ client.at = "none" /\ Spend("client")
    /\ Packet[argv].command # "VOID"
    /\ client' = [at |-> "waiting", argv |-> argv, queued |-> TRUE]
    /\ UNCHANGED <<alive, mode, file, httpVars, stored, ctlVars, up, stuck,
                   historyVars>>

\* The operator interrupts ssyncdctl.
Interrupt ==
    /\ Runs /\ client.at = "waiting" /\ Spend("client")
    /\ client' = [client EXCEPT !.at = "left"]
    /\ UNCHANGED <<alive, mode, file, httpVars, stored, ctlVars, up, stuck,
                   historyVars>>

World ==
    \/ OtherThread \/ PoundSends \/ Interrupt
    \/ \E f \in Farms : \/ PoundStops(f) \/ PoundStarts(f)
                        \/ PoundHangs(f) \/ PoundResumes(f)
    \/ \E argv \in CommandLines : Call(argv)

NodeNext == CtlTask \/ ListenTask \/ Worker \/ World

\* The threads of the process run; nobody makes Pound or the operator act.
NodeSpec ==
    /\ NodeInit /\ [][NodeNext]_nodeVars
    /\ WF_nodeVars(CtlTask) /\ WF_nodeVars(ListenTask) /\ WF_nodeVars(Worker)

-----------------------------------------------------------------------------
\* Safety

(***************************************************************************)
(* What Pound sends, and the end of its connection, is queued for its own  *)
(* farm, although farms_fd keeps the names of descriptors that are closed  *)
(* and used again.  The exceptions come from add_farm, which names a       *)
(* descriptor last: one that is read or closed before it has its name, and *)
(* one whose number is named again after the listener has read it and      *)
(* before it looks up the name; or whose number is taken by an add_farm    *)
(* after remove_farm has looked it up and before it closes it.             *)
(***************************************************************************)
NotMisfiled ==
    \A i \in DOMAIN input_data :
        input_data[i].farm # input_data[i].from => input_data[i].early

(***************************************************************************)
(* write_http_data never writes the sessions of one farm to the Pound of   *)
(* another, although get_farm_fd may return a number that is closed or is  *)
(* used for something else by now.  The exceptions are again a descriptor  *)
(* that add_farm has not named yet, and one that an add_farm takes after   *)
(* the number was looked up and before the send, which may be long.        *)
(***************************************************************************)
NoCrossWrite == \A w \in wrote : w.kind = "pound" => w.to = w.farm \/ w.early

-----------------------------------------------------------------------------
\* The inductive invariant behind NodeTypeOK, NotMisfiled and NoCrossWrite

(***************************************************************************)
(* The control thread serves one client: its connection stays open (unless *)
(* a thread has gone astray) and its command is the one that was sent.     *)
(***************************************************************************)
ServesClient ==
    alive =>
    /\ client.queued => client.argv \in CommandLines /\ client.at # "none"
    /\ at # "accept" => /\ cfd \in FDs /\ client.argv \in CommandLines
                        /\ client.at # "none"
                        /\ ~astray => file[cfd].kind = "ctl"
    /\ at \notin {"accept", "recv"} => cmd = Packet[client.argv]

(***************************************************************************)
(* There is one epoll instance, older than every name: its descriptor has  *)
(* none, so remove_farm cannot close it.                                   *)
(***************************************************************************)
EpollUnnamed ==
    IF epoll_fd = 0
    THEN /\ events = {} /\ lst = Waiting /\ raced = {}
         /\ \A fd \in FDs : farms_fd[fd] = Absent
         /\ \A t \in Threads : job[t].at \notin {"name", "full", "remove"}
                               /\ (job[t].at = "send" => job[t].fd = 0)
         /\ ~is_running => /\ at # "jobs" /\ \A t \in Threads : job[t] = Idle
                           /\ \A fd \in FDs : file[fd].kind \notin {"socket", "pound"}
    ELSE /\ farms_fd[epoll_fd] = Absent /\ epoll_fd \notin raced
         /\ lst.fd # epoll_fd
         /\ \A t \in Threads : job[t].fd # epoll_fd

\* What add_farm works on is the descriptor it has opened, and no other's.
Unfinished(t) == job[t].at \in {"connect", "watch", "name"}

NamesItsOwn ==
    /\ \A t \in Threads : Unfinished(t) =>
          /\ job[t].fd \in FDs
          /\ \/ job[t].fd \in raced
             \/ /\ job[t].at # "name" => ~file[job[t].fd].watched
                /\ IF job[t].at = "connect" THEN file[job[t].fd].kind = "socket"
                   ELSE /\ file[job[t].fd].kind = "pound"
                        /\ file[job[t].fd].farm = job[t].farm
    /\ \A t, u \in Threads : t # u /\ Unfinished(t) /\ Unfinished(u)
                             /\ job[t].fd = job[u].fd => job[t].fd \in raced

\* A connection to Pound that is open and has its name has the right one.
NamedRight ==
    epoll_fd # 0 => \A fd \in FDs : file[fd].kind = "pound" =>
                       farms_fd[fd] = file[fd].farm \/ Early(fd)

(***************************************************************************)
(* What the listener is about to queue has the name it was read under.     *)
(* What a thread is about to send to, or to close, is no connection of     *)
(* another farm and cannot become one before somebody closes it.           *)
(***************************************************************************)
ReadRight ==
    lst.at # "wait" => lst.fd \in FDs /\ (lst.early \/ NameOf(lst.fd) = lst.from)

AimsRight ==
    \A t \in Threads :
        /\ job[t].at \in {"full", "remove"} => job[t].fd \in FDs
        /\ job[t].at \in {"send", "full", "remove"} /\ job[t].fd # 0 =>
              \/ job[t].early
              \/ /\ file[job[t].fd].kind = "socket" => ~Unnamed(job[t].fd)
                 /\ file[job[t].fd].kind = "pound" => file[job[t].fd].farm = job[t].farm

NodeInv ==
    /\ NodeTypeOK /\ ServesClient /\ EpollUnnamed /\ NamesItsOwn /\ NamedRight
    /\ ReadRight /\ AimsRight /\ NotMisfiled /\ NoCrossWrite

-----------------------------------------------------------------------------
\* Answers, and what ssyncdctl is documented to do

(***************************************************************************)
(* A call of ssyncdctl ends, whatever the command does and Pound does      *)
(* meanwhile, if only every Pound ends up accepting and reading: ctl_task  *)
(* closes the connection or the process ends, unless no descriptor is left *)
(* or a thread has read from another's descriptor.  (A Pound that neither  *)
(* accepts nor reads keeps the command, or the thread that has send_mutex, *)
(* for as long as it likes.)                                               *)
(***************************************************************************)
Answered ==
    <>[](stuck = {}) =>
        ((client.at = "waiting")
            ~> (client.at # "waiting" \/ ~alive \/ astray \/ FreeFds = {}))

\* The calls the README lists (README.md:57-80), but for the one with a farm
Listed ==
    {[argv |-> <<"start", "recent">>, command |-> "START_RECENT_SYNC"],
     [argv |-> <<"show", "http">>,    command |-> "SHOW_HTTP"],
     [argv |-> <<"show", "recent">>,  command |-> "SHOW_RECENT"],
     [argv |-> <<"write", "http">>,   command |-> "WRITE_HTTP"],
     [argv |-> <<"write", "recent">>, command |-> "WRITE_RECENT"],
     [argv |-> <<"quit">>,            command |-> "QUIT"]}

(***************************************************************************)
(* What the daemon executes is the command that the README gives for the   *)
(* words ssyncdctl was called with, for the farm that was named.           *)
(***************************************************************************)
AsDocumented ==
    alive /\ at \notin {"accept", "recv"} =>
        /\ \A call \in Listed :
              client.argv = call.argv => cmd.command = call.command
        /\ \A farm \in Farms :
              client.argv = <<"start", "http", farm>> =>
                 cmd = [command |-> "START_HTTP_SYNC", data |-> farm]

(***************************************************************************)
(* "Write http sessions data to Pound sessions tables" (README.md): when   *)
(* the command is answered "http session data written correclty", the      *)
(* sessions of every farm whose Pound was up throughout have been sent to  *)
(* that Pound.                                                             *)
(***************************************************************************)
WrittenToPound ==
    at = "close" /\ cmd.command = "WRITE_HTTP" /\ alive =>
        \A f \in stored \cap steady :
            \E w \in wrote : w.farm = f /\ w.kind = "pound" /\ w.to = f
=============================================================================
